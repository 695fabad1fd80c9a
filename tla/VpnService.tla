----------------------------- MODULE VpnService -----------------------------
(***************************************************************************)
(* SSRVPNService (jvmVer): the service process that brings the VPN up and  *)
(* down.  Its clients call it through ISSRService; start, stop, register   *)
(* and unregister are oneway, so a queue of calls is served one at a time  *)
(* by a binder thread, and the system's revoke arrives in the same queue.  *)
(* start clears what runs and leaves the rest to a worker thread of its    *)
(* own, which nothing ever cancels or waits for: the binder thread may run *)
(* stopRunner while a worker is anywhere in its start sequence, and the    *)
(* worker runs stopRunner itself when the start fails.  The two share the  *)
(* fields below with no lock.                                              *)
(*                                                                         *)
(* A start call is numbered; its number names its ConnectProfile, the      *)
(* worker it leads to, and what that worker creates: the proxy servers and *)
(* child processes (obj) and the tun.  A field holds the number of the     *)
(* start whose object it refers to, 0 for null.                            *)
(***************************************************************************)
EXTENDS Naturals, Sequences

CONSTANTS
    MaxStarts,     \* bound: start calls
    MaxBacklog,    \* bound: calls and statuses under way together
    Client,        \* the clients that may register a callback
    NoClient,      \* a null callback
    DnsForward,    \* the starts whose connProfile has dnsForward
    SendTries,     \* sendFd is tried this often (4 in the code)
    Ops,           \* bound: the calls the clients make
    OneWorker      \* TRUE: no start is asked for while another is under way

ASSUME BoundsAssumption == MaxStarts \in Nat \ {0} /\ MaxBacklog \in Nat \ {0}
ASSUME TriesAssumption == SendTries \in Nat \ {0}
ASSUME ClientAssumption == NoClient \notin Client
ASSUME OpsAssumption == Ops \subseteq {"register", "unregister", "start", "stop", "revoke"}
ASSUME ForwardAssumption == DnsForward \subseteq 1..MaxStarts
ASSUME FlagAssumption == OneWorker \in BOOLEAN

Attempt == 1..MaxStarts
Ref == 0..MaxStarts            \* a field: null or an attempt's object
Thread == 0..MaxStarts         \* 0 is the binder thread
Binder == 0

Server == {"local", "tunnel", "udprs"}
Field == Server \cup {"pdnsd", "tun2socks"}
KillOrder == <<"local", "tunnel", "udprs", "pdnsd", "tun2socks">>

Op == {"register", "unregister", "start", "stop", "revoke"}
Status == {"CONNECTED", "DISCONNECTED", "FAILED"}

(* A server is a java Thread: created, start()ed, and later scheduled.     *)
(* cancelled: told to stop before start() was called on it.                *)
(* doomed: told to stop after start() and before its run() has begun.      *)
ObjState == {"none", "new", "started", "running", "cancelled", "doomed", "stopped"}
NotBegun == {"new", "started", "cancelled", "doomed"}

VARIABLES
    calls,         \* oneway calls in the binder queue
    callback,      \* the registered ISSRServiceCallback
    inbox,         \* statuses posted to the clients' main threads
    connected,     \* isVPNConnected
    field,         \* the component fields
    obj,           \* what became of each attempt's components
    conn,          \* the ParcelFileDescriptor of the tun
    tun,           \* attempts whose tun descriptor is open
    foreground,    \* the "VPN service started" notification is shown
    profile,       \* connProfile
    server,        \* connProfile.server: 0 a domain name, a the address of a's name
    uses,          \* the profile and address an attempt's SSRLocal was built with
    starts,        \* start calls made so far
    thread,        \* the threads of the service
    crashed        \* why an exception took the process down, or "no"

io == <<calls, callback, inbox>>
plan == <<profile, server, uses>>
data == <<connected, field, obj, conn, tun, foreground, plan>>
vars == <<io, data, starts, thread, crashed>>

Pc == {"idle", "resolve", "store", "newLocal", "startLocal", "newUdp", "startUdp",
       "ifTunnel", "newTunnel", "startTunnel", "startPdnsd", "establish", "checkConn",
       "tun2socks", "sleep", "sendFd", "connected", "tellConnected", "foreground", "reset", "kill",
       "killStop", "killNull", "unforeground", "close", "closeFd", "closeNull", "answer"}
Crash == {"no", "null", "restarted", "noPool", "exec"}

TypeOK ==
    /\ calls \in Seq([op : Op, by : Client, id : Ref])
    /\ callback \in Client \cup {NoClient}
    /\ inbox \in Seq([to : Client, status : Status])
    /\ connected \in BOOLEAN
    /\ field \in [Field -> Ref]
    /\ obj \in [Field -> [Attempt -> ObjState]]
    /\ conn \in Ref
    /\ tun \in SUBSET Attempt
    /\ foreground \in BOOLEAN
    /\ profile \in Ref
    /\ server \in [Attempt -> Ref]
    /\ uses \in [Attempt -> [profile : Ref, address : Ref]]
    /\ starts \in Ref
    /\ thread \in [Thread -> [pc : Pc, k : Nat, answer : Status \cup {"spawn"}]]
    /\ crashed \in Crash

Idle == [pc |-> "idle", k |-> 0, answer |-> "FAILED"]

Init ==
    /\ calls = <<>>
    /\ callback = NoClient
    /\ inbox = <<>>
    /\ connected = FALSE
    /\ field = [f \in Field |-> 0]
    /\ obj = [f \in Field |-> [a \in Attempt |-> "none"]]
    /\ conn = 0
    /\ tun = {}
    /\ foreground = FALSE
    /\ profile = 0
    /\ server = [a \in Attempt |-> 0]
    /\ uses = [a \in Attempt |-> [profile |-> 0, address |-> 0]]
    /\ starts = 0
    /\ thread = [t \in Thread |-> Idle]
    /\ crashed = "no"
-----------------------------------------------------------------------------
(* Steps of a thread.                                                      *)
At(t, l) == crashed = "no" /\ thread[t].pc = l
Goto(t, l) == thread' = [thread EXCEPT ![t].pc = l]
Count(t, l, n) == thread' = [thread EXCEPT ![t].pc = l, ![t].k = n]
StopRunner(t, l, status) == thread' = [thread EXCEPT ![t] = [pc |-> l, k |-> 0, answer |-> status]]

(* The binder drops what a oneway call throws; a worker takes the process  *)
(* down with it.                                                           *)
Throw(t, why) ==
    IF t = Binder
    THEN thread' = [thread EXCEPT ![t] = Idle] /\ UNCHANGED crashed
    ELSE crashed' = why /\ UNCHANGED thread

Tell(status) ==
    inbox' = IF callback = NoClient THEN inbox
             ELSE Append(inbox, [to |-> callback, status |-> status])

Active(t) == thread[t].pc # "idle"

(* A worker with more to do than to show the notification.                 *)
WorkerActive == \E t \in Attempt : thread[t].pc \notin {"idle", "foreground"}

-----------------------------------------------------------------------------
(* The clients and the system.                                             *)
StartAsked ==
    \/ \E i \in 1..Len(calls) : calls[i].op = "start"
    \/ Active(Binder) /\ thread[Binder].answer = "spawn"

MayCall(op) ==
    /\ crashed = "no"
    /\ Len(calls) + Len(inbox) < MaxBacklog
    /\ op = "start" => /\ starts < MaxStarts
                       /\ OneWorker => ~WorkerActive /\ ~StartAsked
    /\ op = "revoke" => tun # {}       \* only an established VPN is revoked

Post(op, c) ==
    /\ starts' = IF op = "start" THEN starts + 1 ELSE starts
    /\ calls' = Append(calls, [op |-> op, by |-> c, id |-> IF op = "start" THEN starts' ELSE 0])

Call(op, c) ==
    /\ MayCall(op)
    /\ Post(op, c)
    /\ UNCHANGED <<callback, inbox, data, thread, crashed>>

(* A client's main thread takes the status that runOnUiThread posted.      *)
Receive ==
    /\ inbox # <<>>
    /\ inbox' = Tail(inbox)
    /\ UNCHANGED <<calls, callback, data, starts, thread, crashed>>

-----------------------------------------------------------------------------
(* The binder thread takes the next call.                                  *)
Serving(ops) ==
    /\ At(Binder, "idle")
    /\ calls # <<>>
    /\ Head(calls).op \in ops
    /\ calls' = Tail(calls)

ServeRegister ==
    /\ Serving({"register", "unregister"})
    /\ callback' = IF Head(calls).op = "register" THEN Head(calls).by ELSE NoClient
    /\ UNCHANGED <<inbox, data, starts, thread, crashed>>

(* start: connProfile is set, its server a domain name or an address; with *)
(* the daemon binaries in place killProcesses runs before a worker does.   *)
ServeStart ==
    /\ Serving({"start"})
    /\ profile' = Head(calls).id
    /\ \E address \in {0, profile'} : server' = [server EXCEPT ![profile'] = address]
    /\ \/ thread' = [thread EXCEPT ![Binder] = [pc |-> "kill", k |-> 1, answer |-> "spawn"]]
       \/ StopRunner(Binder, "answer", "FAILED")        \* checkDaemonFile() is false
    /\ UNCHANGED <<callback, inbox, connected, field, obj, conn, tun, foreground, uses, starts, crashed>>

ServeStop ==
    /\ Serving({"stop", "revoke"})
    /\ StopRunner(Binder, "reset", "DISCONNECTED")
    /\ UNCHANGED <<callback, inbox, data, starts, crashed>>

-----------------------------------------------------------------------------
(* stopRunner and killProcesses, on the binder thread or on a worker.      *)
Reset(t) ==
    /\ At(t, "reset")
    /\ connected' = FALSE
    /\ Count(t, "kill", 1)
    /\ UNCHANGED <<io, field, obj, conn, tun, foreground, plan, starts, crashed>>

(* Variant: the field is cleared and its object left alone.                *)
KillForgets(t) ==
    /\ At(t, "kill")
    /\ thread[t].k <= Len(KillOrder)
    /\ field' = [field EXCEPT ![KillOrder[thread[t].k]] = 0]
    /\ Count(t, "kill", thread[t].k + 1)
    /\ UNCHANGED <<io, connected, obj, conn, tun, foreground, plan, starts, crashed>>

KillCheck(t) ==
    /\ At(t, "kill")
    /\ thread[t].k <= Len(KillOrder)
    /\ IF field[KillOrder[thread[t].k]] = 0
       THEN Count(t, "kill", thread[t].k + 1)
       ELSE Goto(t, "killStop")
    /\ UNCHANGED <<io, data, starts, crashed>>

Stopped(state) ==
    CASE state = "new" -> "cancelled"
      [] state = "started" -> "doomed"
      [] state = "running" -> "stopped"
      [] OTHER -> state

(* The field is read again; a tunnel or UDP server whose run() has not     *)
(* begun has no thread pool to shut down, which is found after it is told. *)
KillStop(t) ==
    /\ At(t, "killStop")
    /\ LET f == KillOrder[thread[t].k]
           a == field[f]
       IN  \/ /\ a = 0
              /\ Throw(t, "null")
              /\ UNCHANGED obj
           \/ /\ a # 0
              /\ obj' = [obj EXCEPT ![f][a] = Stopped(obj[f][a])]
              /\ IF f \in {"tunnel", "udprs"} /\ obj[f][a] \in NotBegun
                 THEN Throw(t, "noPool")
                 ELSE Goto(t, "killNull") /\ UNCHANGED crashed
    /\ UNCHANGED <<io, connected, field, conn, tun, foreground, plan, starts>>

(* Variant: the field keeps what was stopped.                              *)
KillKeeps(t) ==
    /\ At(t, "killNull")
    /\ Count(t, "kill", thread[t].k + 1)
    /\ UNCHANGED <<io, data, starts, crashed>>

KillNull(t) ==
    /\ At(t, "killNull")
    /\ field' = [field EXCEPT ![KillOrder[thread[t].k]] = 0]
    /\ Count(t, "kill", thread[t].k + 1)
    /\ UNCHANGED <<io, connected, obj, conn, tun, foreground, plan, starts, crashed>>

(* killProcesses returns: to startRunner, which makes the worker, or to    *)
(* stopRunner.                                                             *)
KillDone(t) ==
    /\ At(t, "kill")
    /\ thread[t].k > Len(KillOrder)
    /\ IF thread[t].answer = "spawn"
       THEN thread' = [thread EXCEPT ![t] = Idle, ![profile].pc = "resolve"]
       ELSE Goto(t, "unforeground")
    /\ UNCHANGED <<io, data, starts, crashed>>

(* Variant: stopRunner ends without looking at conn.                       *)
StopForegroundOnly(t) ==
    /\ At(t, "unforeground")
    /\ foreground' = FALSE
    /\ Goto(t, "answer")
    /\ UNCHANGED <<io, connected, field, obj, conn, tun, plan, starts, crashed>>

StopForeground(t) ==
    /\ At(t, "unforeground")
    /\ foreground' = FALSE
    /\ Goto(t, "close")
    /\ UNCHANGED <<io, connected, field, obj, conn, tun, plan, starts, crashed>>

CloseCheck(t) ==
    /\ At(t, "close")
    /\ Goto(t, IF conn = 0 THEN "answer" ELSE "closeFd")
    /\ UNCHANGED <<io, data, starts, crashed>>

CloseFd(t) ==
    /\ At(t, "closeFd")
    /\ IF conn = 0 THEN Throw(t, "null") ELSE Goto(t, "closeNull") /\ UNCHANGED crashed
    /\ tun' = tun \ {conn}
    /\ UNCHANGED <<io, connected, field, obj, conn, foreground, plan, starts>>

(* Variant: conn keeps the closed descriptor.                              *)
CloseKeeps(t) ==
    /\ At(t, "closeNull")
    /\ Goto(t, "answer")
    /\ UNCHANGED <<io, data, starts, crashed>>

CloseNull(t) ==
    /\ At(t, "closeNull")
    /\ conn' = 0
    /\ Goto(t, "answer")
    /\ UNCHANGED <<io, connected, field, obj, tun, foreground, plan, starts, crashed>>

Answer(t) ==
    /\ At(t, "answer")
    /\ Tell(thread[t].answer)
    /\ thread' = [thread EXCEPT ![t] = Idle]
    /\ UNCHANGED <<calls, callback, data, starts, crashed>>

KillOrStop(t) ==
    \/ Reset(t) \/ KillCheck(t) \/ KillStop(t) \/ KillNull(t) \/ KillDone(t)
    \/ StopForeground(t) \/ CloseCheck(t) \/ CloseFd(t) \/ CloseNull(t) \/ Answer(t)

-----------------------------------------------------------------------------
(* Variant: the address found is not stored in connProfile.                *)
ResolveUnstored(w) ==
    /\ At(w, "resolve")
    /\ Goto(w, "newLocal") \/ StopRunner(w, "reset", "FAILED")
    /\ UNCHANGED <<io, data, starts, crashed>>

(* The worker of startRunner, first to last; w is the worker.  connProfile *)
(* is read anew wherever the code reads it.                                *)
Resolve(w) ==
    /\ At(w, "resolve")
    /\ IF server[profile] # 0
       THEN Goto(w, "newLocal")
       ELSE \/ Count(w, "store", profile)
            \/ StopRunner(w, "reset", "FAILED")
    /\ UNCHANGED <<io, data, starts, crashed>>

StoreAddress(w) ==
    /\ At(w, "store")
    /\ server' = [server EXCEPT ![profile] = thread[w].k]
    /\ Goto(w, "newLocal")
    /\ UNCHANGED <<io, connected, field, obj, conn, tun, foreground, profile, uses, starts, crashed>>

NewServer(w, l, f, then) ==
    /\ At(w, l)
    /\ field' = [field EXCEPT ![f] = w]
    /\ obj' = [obj EXCEPT ![f][w] = "new"]
    /\ uses' = IF f = "local"
               THEN [uses EXCEPT ![w] = [profile |-> profile, address |-> server[profile]]]
               ELSE uses
    /\ Goto(w, then)
    /\ UNCHANGED <<io, connected, conn, tun, foreground, profile, server, starts, crashed>>

(* x!!.start(): whatever server the field refers to by now.                *)
StartServer(w, l, f, then) ==
    /\ At(w, l)
    /\ LET a == field[f]
       IN  IF a = 0 THEN Throw(w, "null") /\ UNCHANGED obj
           ELSE IF obj[f][a] \notin {"new", "cancelled"} THEN Throw(w, "restarted") /\ UNCHANGED obj
           ELSE /\ obj' = [obj EXCEPT ![f][a] = IF @ = "new" THEN "started" ELSE "doomed"]
                /\ Goto(w, then)
                /\ UNCHANGED crashed
    /\ UNCHANGED <<io, connected, field, conn, tun, foreground, plan, starts>>

StartLocal(w) ==
    \/ NewServer(w, "newLocal", "local", "startLocal")
    \/ StartServer(w, "startLocal", "local", IF profile \in DnsForward THEN "newUdp" ELSE "ifTunnel")

StartUdp(w) ==
    \/ NewServer(w, "newUdp", "udprs", "startUdp")
    \/ StartServer(w, "startUdp", "udprs", "ifTunnel")

(* Asked again, of whatever connProfile is by now.                         *)
IfTunnel(w) ==
    /\ At(w, "ifTunnel")
    /\ Goto(w, IF profile \in DnsForward THEN "establish" ELSE "newTunnel")
    /\ UNCHANGED <<io, data, starts, crashed>>

StartTunnel(w) ==
    \/ IfTunnel(w)
    \/ NewServer(w, "newTunnel", "tunnel", "startTunnel")
    \/ StartServer(w, "startTunnel", "tunnel", "startPdnsd")

(* ProcessBuilder.start() throws when the binary does not run.             *)
StartProcess(w, f, then) ==
    /\ \/ /\ field' = [field EXCEPT ![f] = w]
          /\ obj' = [obj EXCEPT ![f][w] = "running"]
          /\ then
          /\ UNCHANGED crashed
       \/ Throw(w, "exec") /\ UNCHANGED <<field, obj>>
    /\ UNCHANGED <<io, connected, conn, tun, foreground, plan, starts>>

StartDnsDaemon(w) ==
    /\ At(w, "startPdnsd")
    /\ StartProcess(w, "pdnsd", Goto(w, "establish"))

(* startVpn: establish() gives a tun or null; a second look at conn sees   *)
(* null, or the descriptor is read, which throws if it is closed by then.  *)
Establish(w) ==
    /\ At(w, "establish")
    /\ \/ conn' = w /\ tun' = tun \cup {w}
       \/ conn' = 0 /\ UNCHANGED tun
    /\ Goto(w, "checkConn")
    /\ UNCHANGED <<io, connected, field, obj, foreground, plan, starts, crashed>>

CheckConn(w) ==
    /\ At(w, "checkConn")
    /\ IF conn = 0 THEN StopRunner(w, "reset", "FAILED") ELSE Goto(w, "tun2socks")
    /\ UNCHANGED <<io, data, starts, crashed>>

StartTun2socks(w) ==
    /\ At(w, "tun2socks")
    /\ \/ /\ conn \in tun
          /\ StartProcess(w, "tun2socks", Count(w, "sleep", 1))
       \/ /\ conn \notin tun
          /\ Throw(w, "null")
          /\ UNCHANGED <<io, data, starts>>

(* The shortest sleep is a second: the threads this worker started have    *)
(* begun by its end.                                                       *)
Sleep(w) ==
    /\ At(w, "sleep")
    /\ \A f \in Server : obj[f][w] \notin {"started", "doomed"}
    /\ Goto(w, "sendFd")
    /\ UNCHANGED <<io, data, starts, crashed>>

(* Jni.sendFd reaches a tun2socks only while one runs.                     *)
SendFd(w) ==
    /\ At(w, "sendFd")
    /\ \/ /\ \E a \in Attempt : obj["tun2socks"][a] = "running"
          /\ Goto(w, "connected")
       \/ IF thread[w].k < SendTries THEN Count(w, "sleep", thread[w].k + 1)
          ELSE StopRunner(w, "reset", "FAILED")
    /\ UNCHANGED <<io, data, starts, crashed>>

SetConnected(w) ==
    /\ At(w, "connected")
    /\ connected' = TRUE
    /\ Goto(w, "tellConnected")
    /\ UNCHANGED <<io, field, obj, conn, tun, foreground, plan, starts, crashed>>

TellConnected(w) ==
    /\ At(w, "tellConnected")
    /\ Tell("CONNECTED")
    /\ Goto(w, "foreground")
    /\ UNCHANGED <<calls, callback, data, starts, crashed>>

StartForeground(w) ==
    /\ At(w, "foreground")
    /\ foreground' = TRUE
    /\ thread' = [thread EXCEPT ![w] = Idle]
    /\ UNCHANGED <<io, connected, field, obj, conn, tun, plan, starts, crashed>>

Work(w) ==
    \/ Resolve(w) \/ StoreAddress(w) \/ StartLocal(w) \/ StartUdp(w) \/ StartTunnel(w)
    \/ StartDnsDaemon(w) \/ Establish(w) \/ CheckConn(w) \/ StartTun2socks(w)
    \/ Sleep(w) \/ SendFd(w) \/ SetConnected(w) \/ TellConnected(w) \/ StartForeground(w)

(* The thread of a started server gets to run.                             *)
ServerBegins(f, a) ==
    /\ crashed = "no"
    /\ obj[f][a] \in {"started", "doomed"}
    /\ obj' = [obj EXCEPT ![f][a] = IF @ = "started" THEN "running" ELSE "stopped"]
    /\ UNCHANGED <<io, connected, field, conn, tun, foreground, plan, starts, thread, crashed>>

-----------------------------------------------------------------------------
ServeNext == ServeRegister \/ ServeStart \/ ServeStop \/ KillOrStop(Binder)
WorkerNext(w) == Work(w) \/ KillOrStop(w)

ServiceNext ==
    \/ ServeNext
    \/ \E w \in Attempt : WorkerNext(w)
    \/ \E f \in Server, a \in Attempt : ServerBegins(f, a)

ClientNext ==
    \/ \E c \in Client, op \in Ops : Call(op, c)
    \/ Receive

Next == ServiceNext \/ ClientNext

Spec == Init /\ [][Next]_vars

(* Every thread keeps running: the system schedules them all, and nothing  *)
(* in them waits for ever (the resolver and establish() return).           *)
Fairness ==
    /\ WF_vars(ServeNext)
    /\ \A w \in Attempt : WF_vars(WorkerNext(w))
    /\ \A f \in Server, a \in Attempt : WF_vars(ServerBegins(f, a))

-----------------------------------------------------------------------------
(* The descriptor a field refers to is open, but for the moment between    *)
(* close() and the assignment of null: only then can conn!!.fd throw.      *)
ConnIsOpen ==
    conn # 0 /\ conn \notin tun => \E t \in Thread : thread[t].pc = "closeNull"

(* A proxy or child process that a field refers to has not been stopped,   *)
(* but for the moment before its killer assigns null.  (The tunnel and the *)
(* UDP server are not listed: killProcesses may throw half-way there.)     *)
KillingNow(f) ==
    \E t \in Thread : thread[t].pc = "killNull" /\ KillOrder[thread[t].k] = f

ReferredIsLive ==
    \A f \in {"local", "pdnsd", "tun2socks"} :
        \/ field[f] = 0
        \/ obj[f][field[f]] \in {"new", "started", "running"}
        \/ KillingNow(f)

(* While no two workers overlap, whatever runs can still be stopped: the   *)
(* field refers to it, whatever stop, revoke and a failing worker do.      *)
NothingLost ==
    OneWorker =>
        \A f \in Field, a \in Attempt :
            obj[f][a] \in {"new", "started", "running"} => field[f] = a

(* While no two workers overlap, an attempt's SSRLocal is given the profile *)
(* its start brought and that profile's server address: a worker that reads *)
(* connProfile again and again never sees another start's.                 *)
OwnProfile ==
    OneWorker => \A a \in Attempt :
        uses[a].profile # 0 => uses[a] = [profile |-> a, address |-> a]
=============================================================================
