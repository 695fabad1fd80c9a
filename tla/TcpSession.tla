----------------------------- MODULE TcpSession -----------------------------
(***************************************************************************)
(* One session of SSRLocal or of SSRTunnel (jvmVer): the thread of its     *)
(* LocalSocketHandler, the thread of its RemoteSocketHandler, and the      *)
(* ChannelAttach they share with no lock.  Either thread may run           *)
(* cleanSession at any time.  Data are units of a stream, cut anywhere by  *)
(* the reads; what the plugins make of them is left out.                   *)
(***************************************************************************)
EXTENDS Naturals

CONSTANTS
    MaxUp, MaxDown,     \* bounds: units the client and the server send
    Room                \* units a peer's socket holds before it takes them

ASSUME BoundsAssumption == MaxUp \in Nat /\ MaxDown \in Nat /\ Room \in Nat \ {0}

Thread == {"L", "R"}            \* LocalSocketHandler, RemoteSocketHandler
Side == {"local", "remote"}

From == [t \in Thread |-> IF t = "L" THEN "local" ELSE "remote"]
To == [t \in Thread |-> IF t = "L" THEN "remote" ELSE "local"]
MaxSent == [s \in Side |-> IF s = "local" THEN MaxUp ELSE MaxDown]

VARIABLES
    kind,       \* "local" (SSRLocal) or "tunnel" (SSRTunnel)
    isRunning,  \* of the server
    pc,         \* the statement each thread is at
    field,      \* attach.localSkt, attach.remoteSkt: FALSE for null
    skt,        \* the sockets themselves
    peer,       \* what the client and the server still do: both ways, listen only, nothing
    sent,       \* units each peer has sent
    taken,      \* units read from each socket
    put,        \* units written to each socket
    got         \* units each peer has read

env == <<isRunning, peer, sent, got>>
streams == <<sent, taken, put, got>>
vars == <<kind, isRunning, pc, field, skt, peer, streams>>

Cleaning == {"closeRemote", "closeLocal", "nullRemote", "nullLocal"}
Relaying == {"loop", "fetch", "read", "encode", "write"}
Before == {"auth", "cmd", "first", "prepare", "connect", "execute"}

(* "ended": after cleanSession; "left": returned without it.               *)
Pc == Cleaning \cup Relaying \cup Before \cup {"none", "ended", "left"}

TypeOK ==
    /\ kind \in {"local", "tunnel"}
    /\ isRunning \in BOOLEAN
    /\ pc \in [Thread -> Pc] /\ pc["R"] \in Relaying \cup Cleaning \cup {"none", "ended"}
    /\ field \in [Side -> BOOLEAN]
    /\ skt \in [Side -> {"none", "bound", "open", "closed"}]
    /\ peer \in [Side -> {"open", "eof", "gone"}]
    /\ sent \in [Side -> Nat] /\ taken \in [Side -> Nat]
    /\ put \in [Side -> Nat] /\ got \in [Side -> Nat]
    /\ \A t \in Thread : /\ put[To[t]] <= taken[From[t]]
                         /\ taken[From[t]] <= sent[From[t]]
    /\ \A s \in Side : got[s] <= put[s] /\ put[s] <= got[s] + Room

(* A connection was accepted and LocalSocketHandler begins.                *)
Init ==
    /\ kind \in {"local", "tunnel"}
    /\ isRunning = TRUE
    /\ pc = [t \in Thread |->
                IF t = "R" THEN "none" ELSE IF kind = "tunnel" THEN "prepare" ELSE "auth"]
    /\ field = [s \in Side |-> s = "local"]
    /\ skt = [s \in Side |-> IF s = "local" THEN "open" ELSE "none"]
    /\ peer = [s \in Side |-> "open"]
    /\ sent = [s \in Side |-> 0] /\ taken = [s \in Side |-> 0]
    /\ put = [s \in Side |-> 0] /\ got = [s \in Side |-> 0]

At(t, l) == pc[t] = l
Goto(t, l) == pc' = [pc EXCEPT ![t] = l]
Clean(t) == Goto(t, "closeRemote")
Same == UNCHANGED <<kind, env>>
-----------------------------------------------------------------------------
(* What a blocked read of side s may find.                                 *)
Waiting(s) == taken[s] < sent[s]
Ended(s) == ~Waiting(s) /\ peer[s] = "eof"
Broken(s) == skt[s] = "closed" \/ peer[s] = "gone"

(* doAuth and processCMD: the client is understood, or not.  With an ACL   *)
(* the request is read first, and sent to the server once it is connected. *)
Handshake ==
    /\ pc["L"] \in {"auth", "cmd"} /\ peer["local"] = "open"
    /\ \/ At("L", "auth") /\ Goto("L", "cmd")
       \/ At("L", "cmd") /\ (Goto("L", "first") \/ Goto("L", "prepare"))
       \/ Clean("L")
    /\ UNCHANGED <<field, skt, taken, put>> /\ Same

(* The client hangs up, or says nothing for soTimeout.                     *)
HandshakeFails ==
    /\ pc["L"] \in {"auth", "cmd"}
    /\ Clean("L")
    /\ UNCHANGED <<field, skt, taken, put>> /\ Same

(* prepareRemote up to connect, which may fail.  When only protect fails,  *)
(* SSRTunnel returns.                                                      *)
Prepare ==
    /\ At("L", "prepare")
    /\ field' = [field EXCEPT !["remote"] = TRUE]
    /\ skt' = [skt EXCEPT !["remote"] = "bound"]
    /\ \/ Goto("L", "connect")
       \/ Clean("L")
       \/ kind = "tunnel" /\ Goto("L", "left")
    /\ UNCHANGED <<taken, put>> /\ Same

Connect ==
    /\ At("L", "connect")
    /\ \/ Goto("L", "execute") /\ skt' = [skt EXCEPT !["remote"] = "open"]
       \/ Clean("L") /\ UNCHANGED skt
    /\ UNCHANGED <<field, taken, put>> /\ Same

(* Variant: the data that the ACL was checked with are not sent.           *)
ExecuteForgets ==
    /\ At("L", "execute")
    /\ pc' = [t \in Thread |-> IF t = "L" /\ kind = "tunnel" THEN "first" ELSE "loop"]
    /\ UNCHANGED <<field, skt, taken, put>> /\ Same

(* The other thread is started; what the ACL was checked with is sent.     *)
Execute ==
    /\ At("L", "execute")
    /\ pc' = [t \in Thread |-> CASE t = "L" /\ kind = "tunnel" -> "first"
                                 [] t = "L" /\ put["remote"] < taken["local"] -> "encode"
                                 [] OTHER -> "loop"]
    /\ UNCHANGED <<field, skt, taken, put>> /\ Same

(* The first read, of fewer than 5 bytes perhaps.  SSRTunnel returns when  *)
(* there is nothing to read.                                               *)
First ==
    /\ At("L", "first")
    /\ \/ /\ ~field["local"] \/ Broken("local") \/ (Ended("local") /\ kind = "local")
          /\ Clean("L") /\ UNCHANGED taken
       \/ field["local"] /\ Ended("local") /\ kind = "tunnel" /\ Goto("L", "left") /\ UNCHANGED taken
       \/ /\ field["local"] /\ skt["local"] = "open" /\ Waiting("local")
          /\ \E n \in taken["local"] + 1 .. sent["local"] :
                taken' = [taken EXCEPT !["local"] = n]
          /\ \/ Goto("L", IF kind = "local" THEN "prepare" ELSE "encode")
             \/ kind = "local" /\ Clean("L")
    /\ UNCHANGED <<field, skt, put>> /\ Same

(* Each round of a loop: is the session alive, the read, the write.        *)
Check(t) ==
    /\ At(t, "loop")
    /\ IF isRunning /\ \A s \in Side : field[s] THEN Goto(t, "fetch") ELSE Clean(t)
    /\ UNCHANGED <<field, skt, taken, put>> /\ Same

Fetch(t) ==
    /\ At(t, "fetch")
    /\ IF field[From[t]] THEN Goto(t, "read") ELSE Clean(t)
    /\ UNCHANGED <<field, skt, taken, put>> /\ Same

Read(t) ==
    /\ At(t, "read")
    /\ \/ (Broken(From[t]) \/ Ended(From[t])) /\ Clean(t) /\ UNCHANGED taken
       \/ /\ skt[From[t]] = "open" /\ Waiting(From[t])
          /\ \E n \in taken[From[t]] + 1 .. sent[From[t]] :
                taken' = [taken EXCEPT ![From[t]] = n]
          /\ Goto(t, "encode")
    /\ UNCHANGED <<field, skt, put>> /\ Same

(* Variant: the remote socket has no soTimeout.                            *)
TimeoutLocalOnly(t) ==
    /\ t = "L" /\ pc[t] \in {"first", "read"} /\ ~Waiting(From[t])
    /\ Clean(t)
    /\ UNCHANGED <<field, skt, taken, put>> /\ Same

(* soTimeout: nothing came.                                                *)
Timeout(t) ==
    /\ pc[t] \in {"first", "read"} /\ ~Waiting(From[t])
    /\ Clean(t)
    /\ UNCHANGED <<field, skt, taken, put>> /\ Same

(* The plugins and the cipher may throw, and so does a socket that is null *)
(* by then.                                                                *)
Encode(t) ==
    /\ At(t, "encode")
    /\ (field[To[t]] /\ Goto(t, "write")) \/ Clean(t)
    /\ UNCHANGED <<field, skt, taken, put>> /\ Same

(* Variant: what the socket cannot hold at once is dropped.                *)
WriteOnce(t) ==
    /\ At(t, "write")
    /\ \/ Broken(To[t]) /\ Clean(t) /\ UNCHANGED put
       \/ /\ skt[To[t]] = "open" /\ put[To[t]] < got[To[t]] + Room
          /\ put' = [put EXCEPT ![To[t]] = @ + 1]
          /\ Goto(t, "loop")
    /\ UNCHANGED <<field, skt, taken>> /\ Same

(* Variant: the whole buffer is written, not the part that was read.       *)
WriteBuffer(t) ==
    /\ At(t, "write")
    /\ \/ Broken(To[t]) /\ Clean(t) /\ UNCHANGED put
       \/ /\ skt[To[t]] = "open" /\ put[To[t]] < got[To[t]] + Room
          /\ put' = [put EXCEPT ![To[t]] = @ + 1]
          /\ Goto(t, IF put'[To[t]] > taken[From[t]] THEN "loop" ELSE "write")
    /\ UNCHANGED <<field, skt, taken>> /\ Same

(* A write waits, without a timeout, for the peer to make room.            *)
Write(t) ==
    /\ At(t, "write")
    /\ \/ Broken(To[t]) /\ Clean(t) /\ UNCHANGED put
       \/ /\ skt[To[t]] = "open" /\ put[To[t]] < got[To[t]] + Room
          /\ put' = [put EXCEPT ![To[t]] = @ + 1]
          /\ Goto(t, IF put'[To[t]] = taken[From[t]] THEN "loop" ELSE "write")
    /\ UNCHANGED <<field, skt, taken>> /\ Same

-----------------------------------------------------------------------------
Close(t, l, s, then) ==
    /\ At(t, l)
    /\ skt' = [skt EXCEPT ![s] = IF field[s] THEN "closed" ELSE @]
    /\ Goto(t, then)
    /\ UNCHANGED <<field, taken, put>> /\ Same

SetNull(t, l, s, then) ==
    /\ At(t, l)
    /\ field' = [field EXCEPT ![s] = FALSE]
    /\ Goto(t, then)
    /\ UNCHANGED <<skt, taken, put>> /\ Same

(* Variant: each socket is forgotten before the next is closed.            *)
CleanNullsFirst(t) ==
    \/ Close(t, "closeRemote", "remote", "nullRemote")
    \/ SetNull(t, "nullRemote", "remote", "nullLocal")
    \/ SetNull(t, "nullLocal", "local", "closeLocal")
    \/ Close(t, "closeLocal", "local", "ended")

(* Variant: each thread closes the socket that it reads only.              *)
CleanOwn(t) ==
    \/ At(t, "closeRemote") /\ t = "L" /\ SetNull(t, "closeRemote", "remote", "closeLocal")
    \/ t = "R" /\ Close(t, "closeRemote", "remote", "nullRemote")
    \/ t = "L" /\ Close(t, "closeLocal", "local", "nullRemote")
    \/ SetNull(t, "nullRemote", "remote", "nullLocal")
    \/ SetNull(t, "nullLocal", "local", "ended")

(* cleanSession.                                                           *)
CleanSession(t) ==
    \/ Close(t, "closeRemote", "remote", "closeLocal")
    \/ Close(t, "closeLocal", "local", "nullRemote")
    \/ SetNull(t, "nullRemote", "remote", "nullLocal")
    \/ SetNull(t, "nullLocal", "local", "ended")

Begin == Prepare \/ Execute \/ First
Prompt(t) ==
    \/ t = "L" /\ Begin
    \/ Check(t) \/ Fetch(t) \/ Read(t) \/ Encode(t) \/ Write(t)
    \/ CleanSession(t)
Step(t) ==
    \/ Prompt(t) \/ Timeout(t)
    \/ t = "L" /\ (Handshake \/ HandshakeFails \/ Connect)

-----------------------------------------------------------------------------
ours == <<kind, pc, field, skt, taken, put>>

(* The payload of the client follows the answer to its command.            *)
Connected(s) == skt[s] = "open" /\ (s = "local" => pc["L"] \notin {"auth", "cmd"})

Send(s) ==
    /\ Connected(s) /\ peer[s] = "open" /\ sent[s] < MaxSent[s]
    /\ sent' = [sent EXCEPT ![s] = @ + 1]
    /\ UNCHANGED <<ours, isRunning, peer, got>>

Take(s) ==
    /\ peer[s] # "gone" /\ got[s] < put[s]
    /\ got' = [got EXCEPT ![s] = @ + 1]
    /\ UNCHANGED <<ours, isRunning, peer, sent>>

Finish(s) ==
    /\ Connected(s) /\ peer[s] = "open"
    /\ peer' = [peer EXCEPT ![s] = "eof"]
    /\ UNCHANGED <<ours, isRunning, sent, got>>

Reset(s) ==
    /\ skt[s] = "open" /\ peer[s] # "gone"
    /\ peer' = [peer EXCEPT ![s] = "gone"]
    /\ UNCHANGED <<ours, isRunning, sent, got>>

(* stopSSRLocal, stopTunnel: no session is told.                           *)
Stop ==
    /\ isRunning
    /\ isRunning' = FALSE
    /\ UNCHANGED <<ours, peer, sent, got>>

Next ==
    \/ \E t \in Thread : Step(t)
    \/ \E s \in Side : Send(s) \/ Take(s) \/ Finish(s) \/ Reset(s)
    \/ Stop

(* Both threads run.  Nobody need speak to them: the handshake and connect *)
(* may wait for ever; that a read gives up is a matter of minutes.         *)
Fairness == \A t \in Thread : WF_vars(Prompt(t))
Spec == Init /\ [][Next]_vars /\ Fairness

(* Three assumptions: connect and the reads give up at last, and a stop of *)
(* the service takes the clients (tun2socks, pdnsd) down with it; peers    *)
(* read what they are sent; a connect succeeds or fails at last.           *)
TimeoutsAndStops ==
    (\A t \in Thread : WF_vars(Step(t))) /\ WF_vars(~isRunning /\ Reset("local"))
PeersRead == \A s \in Side : WF_vars(Take(s))
ConnectAnswers == WF_vars(Connect)
-----------------------------------------------------------------------------
Over == pc["L"] \in {"ended", "left"} /\ pc["R"] \in {"none", "ended"}

(* Two threads race through cleanSession and each skips what it finds      *)
(* null: a socket that is forgotten has been closed.                       *)
ForgottenIsClosed == \A s \in Side : ~field[s] => skt[s] \in {"none", "closed"}

(* A session whose threads have ended leaves no socket open, unless no     *)
(* thread ran cleanSession: SSRTunnel when protect fails (line 120).       *)
OverIsClosed ==
    (Over /\ \E t \in Thread : pc[t] = "ended") =>
        \A s \in Side : skt[s] \in {"none", "closed"}

(* What was read has been written to the other side before the next read.  *)
NothingDropped ==
    \A t \in Thread : pc[t] \in {"loop", "fetch", "read"} => put[To[t]] = taken[From[t]]

(* So each direction is a Pipe: what comes in between, the first data that *)
(* the ACL is asked about included, is written whole and once.             *)
Up == INSTANCE Pipe WITH taken <- taken["local"], given <- put["remote"], over <- Over
Down == INSTANCE Pipe WITH taken <- taken["remote"], given <- put["local"], over <- Over
Pipes == Up!PipeSpec /\ Down!PipeSpec

(* The thread that ends takes the other with it, wherever that is blocked, *)
(* and no timeout is needed for it.                                        *)
EndTogether == PeersRead => ((\E t \in Thread : pc[t] = "ended") ~> Over)

(* After a stop both threads end, though no session is told of it.         *)
StopEnds == TimeoutsAndStops => (~isRunning ~> Over)

(* What a peer has sent the other has read in the end, or that is gone, or *)
(* the session ends; no timeout of a read is needed for it.                *)
Relayed ==
    PeersRead /\ ConnectAnswers => \A t \in Thread :
        sent[From[t]] > got[To[t]] ~>
            sent[From[t]] = got[To[t]] \/ peer[To[t]] = "gone" \/ Over
=============================================================================
