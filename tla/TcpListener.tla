---------------------------- MODULE TcpListener ----------------------------
(***************************************************************************)
(* The accept loop of SSRLocal and of SSRTunnel (jvmVer) and its stop,     *)
(* which another thread runs.  The two share ssc, isRunning and the thread *)
(* pool with no lock, and the servers that follow each other, one for each *)
(* start of the VPN, share one local port.                                 *)
(***************************************************************************)
EXTENDS Naturals

CONSTANTS
    Servers,     \* bound: servers started one after the other
    MaxConns     \* bound: connections a server accepts

ASSUME ServersAssumption == Servers \in Nat \ {0} /\ MaxConns \in Nat

Server == 1..Servers

VARIABLES
    kind,        \* "local" (SSRLocal) or "tunnel" (SSRTunnel)
    run,         \* where each server's thread is in run()
    stop,        \* where the call of its stop function is
    isRunning,
    sock,        \* the ServerSocket a server made last
    ssc,         \* the field refers to that socket (FALSE: it is null)
    pool,        \* localThreadPool
    handled      \* connections given to a handler

loop == <<run, sock, ssc, pool, handled>>
vars == <<kind, run, stop, isRunning, sock, ssc, pool, handled>>

TypeOK ==
    /\ kind \in {"local", "tunnel"}
    /\ run \in [Server -> {"none", "started", "check", "create", "bind", "inner", "accept",
                           "waiting", "execute", "cleanup", "ended"}]
    /\ stop \in [Server -> {"none", "close", "shutdown", "null", "returned"}]
    /\ isRunning \in [Server -> BOOLEAN]
    /\ sock \in [Server -> {"none", "unbound", "bound", "closed"}]
    /\ ssc \in [Server -> BOOLEAN]
    /\ pool \in [Server -> {"up", "shut"} \cup (IF kind = "tunnel" THEN {"null"} ELSE {})]
    /\ handled \in [Server -> 0..MaxConns]

Init ==
    /\ kind \in {"local", "tunnel"}
    /\ run = [s \in Server |-> "none"]
    /\ stop = [s \in Server |-> "none"]
    /\ isRunning = [s \in Server |-> TRUE]
    /\ sock = [s \in Server |-> "none"]
    /\ ssc = [s \in Server |-> FALSE]
    /\ pool = [s \in Server |-> IF kind = "local" THEN "up" ELSE "null"]
    /\ handled = [s \in Server |-> 0]

Goto(s, l) == run' = [run EXCEPT ![s] = l]
Quiet == UNCHANGED <<kind, stop, isRunning>>
-----------------------------------------------------------------------------
(* The service starts a server after the stop of the one before returned.  *)
Start(s) ==
    /\ run[s] = "none"
    /\ s > 1 => stop[s - 1] = "returned"
    /\ Goto(s, "started")
    /\ UNCHANGED <<sock, ssc, pool, handled>> /\ Quiet

(* run() begins; SSRTunnel makes its pools here.                           *)
Begin(s) ==
    /\ run[s] = "started"
    /\ pool' = [pool EXCEPT ![s] = IF kind = "tunnel" THEN "up" ELSE @]
    /\ Goto(s, "check")
    /\ UNCHANGED <<sock, ssc, handled>> /\ Quiet

Check(s) ==
    /\ \/ run[s] = "check" /\ Goto(s, IF isRunning[s] THEN "create" ELSE "ended")
       \/ run[s] = "inner" /\ Goto(s, IF isRunning[s] THEN "accept" ELSE "cleanup")
    /\ UNCHANGED <<sock, ssc, pool, handled>> /\ Quiet

Create(s) ==
    /\ run[s] = "create"
    /\ sock' = [sock EXCEPT ![s] = "unbound"]
    /\ ssc' = [ssc EXCEPT ![s] = TRUE]
    /\ Goto(s, "bind")
    /\ UNCHANGED <<pool, handled>> /\ Quiet

(* ssc!!.bind fails if ssc is null, the socket closed or the port taken.   *)
Bind(s) ==
    /\ run[s] = "bind"
    /\ IF ssc[s] /\ sock[s] = "unbound" /\ \A o \in Server : sock[o] # "bound"
       THEN sock' = [sock EXCEPT ![s] = "bound"] /\ Goto(s, "inner")
       ELSE Goto(s, "cleanup") /\ UNCHANGED sock
    /\ UNCHANGED <<ssc, pool, handled>> /\ Quiet

(* A new ChannelAttach may throw; then ssc!!.accept() reads ssc once, and  *)
(* a close of the socket ends the wait.                                    *)
Accept(s) ==
    /\ \/ run[s] = "accept" /\ Goto(s, "cleanup")
       \/ run[s] = "accept" /\ ssc[s] /\ Goto(s, "waiting")
       \/ run[s] = "waiting" /\ sock[s] = "closed" /\ Goto(s, "cleanup")
    /\ UNCHANGED <<sock, ssc, pool, handled>> /\ Quiet

(* A connection comes, or accept() throws (too many open files).           *)
Arrive(s) ==
    /\ run[s] = "waiting" /\ sock[s] = "bound"
    /\ \/ handled[s] < MaxConns /\ Goto(s, "execute")
       \/ Goto(s, "cleanup")
    /\ UNCHANGED <<sock, ssc, pool, handled>> /\ Quiet

(* A pool that is shut rejects the handler; nobody closes the connection.  *)
Execute(s) ==
    /\ run[s] = "execute"
    /\ IF pool[s] = "up"
       THEN handled' = [handled EXCEPT ![s] = @ + 1] /\ Goto(s, "inner")
       ELSE Goto(s, "cleanup") /\ UNCHANGED handled
    /\ UNCHANGED <<sock, ssc, pool>> /\ Quiet

Cleanup(s) ==
    /\ run[s] = "cleanup"
    /\ sock' = [sock EXCEPT ![s] = IF ssc[s] THEN "closed" ELSE @]
    /\ Goto(s, "check")
    /\ UNCHANGED <<ssc, pool, handled>> /\ Quiet

Run(s) ==
    Begin(s) \/ Check(s) \/ Create(s) \/ Bind(s) \/ Accept(s) \/ Execute(s) \/ Cleanup(s)

-----------------------------------------------------------------------------
(* stopSSRLocal, stopTunnel.                                               *)
StopFlag(s) ==
    /\ run[s] # "none" /\ stop[s] = "none"
    /\ isRunning' = [isRunning EXCEPT ![s] = FALSE]
    /\ stop' = [stop EXCEPT ![s] = "close"]
    /\ UNCHANGED <<kind, loop>>

(* Variant: the socket is left to the garbage collector.                   *)
StopCloseNothing(s) ==
    /\ stop[s] = "close"
    /\ stop' = [stop EXCEPT ![s] = "shutdown"]
    /\ UNCHANGED <<kind, isRunning, loop>>

StopClose(s) ==
    /\ stop[s] = "close"
    /\ sock' = [sock EXCEPT ![s] = IF ssc[s] THEN "closed" ELSE @]
    /\ stop' = [stop EXCEPT ![s] = "shutdown"]
    /\ UNCHANGED <<kind, isRunning, run, ssc, pool, handled>>

(* Variant: the pool is left up.                                           *)
StopNoShutdown(s) ==
    /\ stop[s] = "shutdown"
    /\ stop' = [stop EXCEPT ![s] = "null"]
    /\ UNCHANGED <<kind, isRunning, loop>>

(* Variant: the field is cleared too.                                      *)
StopDropsPool(s) ==
    /\ stop[s] = "shutdown"
    /\ pool' = [pool EXCEPT ![s] = "null"]
    /\ stop' = [stop EXCEPT ![s] = "null"]
    /\ UNCHANGED <<kind, isRunning, run, sock, ssc, handled>>

(* localThreadPool!!.shutdown() throws before SSRTunnel's run() has begun. *)
StopShutdown(s) ==
    /\ stop[s] = "shutdown"
    /\ IF pool[s] = "null"
       THEN stop' = [stop EXCEPT ![s] = "returned"] /\ UNCHANGED pool
       ELSE /\ pool' = [pool EXCEPT ![s] = "shut"]
            /\ stop' = [stop EXCEPT ![s] = "null"]
    /\ UNCHANGED <<kind, isRunning, run, sock, ssc, handled>>

StopNull(s) ==
    /\ stop[s] = "null"
    /\ ssc' = [ssc EXCEPT ![s] = FALSE]
    /\ stop' = [stop EXCEPT ![s] = "returned"]
    /\ UNCHANGED <<kind, isRunning, run, sock, pool, handled>>

Stop(s) == StopClose(s) \/ StopShutdown(s) \/ StopNull(s)

Next == \E s \in Server : Start(s) \/ Run(s) \/ Arrive(s) \/ StopFlag(s) \/ Stop(s)

(* Both threads keep running.  Nobody need start or stop a server, or      *)
(* connect to it: what ends a wait from outside is not fair.               *)
Fairness == \A s \in Server : WF_vars(Run(s)) /\ WF_vars(Stop(s))
Spec == Init /\ [][Next]_vars /\ Fairness
-----------------------------------------------------------------------------
(* Whenever in run() it is stopped, a server's thread ends: it is never    *)
(* left waiting in accept() on a socket nobody closes.                     *)
StoppedEnds == \A s \in Server : stop[s] # "none" ~> run[s] \in {"none", "ended"}

(* Once its stop has returned a server gives no connection to a handler.   *)
NothingAfterStop ==
    [][\A s \in Server : stop[s] = "returned" => handled'[s] = handled[s]]_vars

(* A server that is started listens, or is stopped: also the one started   *)
(* right after another was stopped.                                        *)
Listening(s) == run[s] \in {"inner", "accept", "waiting", "execute"}
StartedListens == \A s \in Server : run[s] = "started" ~> Listening(s) \/ stop[s] # "none"

(* All that ever keeps a server from listening is a socket bound by the    *)
(* loop of another that has ended: a loop under way gives the port back.   *)
Leaked(o) == run[o] = "ended" /\ sock[o] = "bound"
ListensUnlessLeaked ==
    \A s \in Server :
        run[s] = "started" ~> Listening(s) \/ stop[s] # "none" \/ \E o \in Server : Leaked(o)
=============================================================================
