------------------------------ MODULE UdpRelay ------------------------------
(***************************************************************************)
(* UDPRelayServer (jvmVer): the thread that receives the packets of the    *)
(* clients, an LRU cache that gives each client a handler with a socket    *)
(* and a thread of its own, and the stop, which another thread runs.  They *)
(* share udpServer, the cache and the pool with no lock of the server's.   *)
(* Packets are counted; only their being too short is told apart.          *)
(***************************************************************************)
EXTENDS Naturals, Sequences, SequencesExt

CONSTANTS
    Client,       \* socket addresses on the device
    Capacity,     \* of the cache (56)
    MaxPackets,   \* bound: good packets received from clients
    Unsendable    \* bound: the packets, by number, that the server may fail to send on

ASSUME BoundsAssumption == Capacity \in Nat \ {0} /\ MaxPackets \in Nat
ASSUME ClientAssumption == Client # {}

Handler == 1..MaxPackets    \* each packet makes one at most
NoHandler == 0
FirstClient == CHOOSE c \in Client : TRUE     \* clients are alike: any may be the first
NoPacket == [client |-> FirstClient, handler |-> NoHandler]

VARIABLES
    mayFail,      \* FALSE: no call fails that no other thread makes fail
    run,          \* where the server's thread is in run()
    stop,         \* where stopUDPRelayServer is
    isRunning,
    sock,         \* the DatagramSocket made last
    udpServer,    \* the field refers to it (FALSE: it is null)
    exec,         \* the pool of the handlers' threads
    cache,        \* the cached handlers, the eldest first
    packets,      \* good packets received
    cur,          \* the client and the handler of the packet in hand
    owner,        \* the client a handler serves
    pc,           \* where a handler's thread is
    skt,          \* a handler's socket
    asked,        \* the handlers whose socket has sent a request
    inbox         \* the handlers whose socket holds an answer

srvVars == <<run, packets, cur>>
sockVars == <<sock, udpServer, exec>>
handlerVars == <<owner, pc, skt>>
netVars == <<asked, inbox>>
vars == <<mayFail, srvVars, stop, isRunning, sockVars, cache, handlerVars, netVars>>

Distinct(seq) == \A i, j \in DOMAIN seq : owner[seq[i]] = owner[seq[j]] => i = j

(* The cache holds one handler for each of at most Capacity clients.       *)
TypeOK ==
    /\ run \in {"started", "check", "create", "inner", "receive", "waiting", "lookup",
                "make", "put", "execute", "send", "close", "ended", "barred"}
    /\ stop \in {"none", "close", "evict", "null", "shutdown", "returned", "thrown"}
    /\ mayFail \in BOOLEAN /\ isRunning \in BOOLEAN /\ udpServer \in BOOLEAN
    /\ sock \in {"none", "open", "closed"}
    /\ exec \in {"null", "up", "shut"}
    /\ cache \in Seq(Handler) /\ Len(cache) <= Capacity /\ Distinct(cache)
    /\ packets \in 0..MaxPackets
    /\ cur \in [client : Client, handler : Handler \cup {NoHandler}]
    /\ owner \in [Handler -> Client]
    /\ pc \in [Handler -> {"none", "made", "check", "receive", "send", "remove",
                           "broken", "ended"}]
    /\ skt \in [Handler -> {"none", "open", "closed"}]
    /\ asked \subseteq Handler /\ inbox \subseteq asked

Init ==
    /\ mayFail \in BOOLEAN /\ run = "started" /\ stop = "none" /\ isRunning = TRUE
    /\ sock = "none" /\ udpServer = FALSE /\ exec = "null"
    /\ cache = <<>> /\ packets = 0
    /\ owner = [h \in Handler |-> FirstClient]
    /\ cur = NoPacket
    /\ pc = [h \in Handler |-> "none"]
    /\ skt = [h \in Handler |-> "none"]
    /\ asked = {} /\ inbox = {}

-----------------------------------------------------------------------------
(* run().                                                                  *)
Quiet == UNCHANGED <<mayFail, stop, isRunning, handlerVars, netVars>>
Idle == UNCHANGED <<sockVars, cache, packets, cur>> /\ Quiet

Begin ==
    /\ run = "started"
    /\ exec' = "up" /\ run' = "check"
    /\ UNCHANGED <<sock, udpServer, cache, packets, cur>> /\ Quiet

Check ==
    /\ \/ run = "check" /\ run' = IF isRunning THEN "create" ELSE "ended"
       \/ run = "inner" /\ run' = IF isRunning THEN "receive" ELSE "close"
    /\ Idle

(* The thread returns when the port is taken: by the socket of the round   *)
(* before, or by another program ("barred").                               *)
Create ==
    /\ run = "create"
    /\ \/ sock = "open" /\ run' = "ended" /\ UNCHANGED <<sock, udpServer>>
       \/ sock # "open" /\ run' = "inner" /\ sock' = "open" /\ udpServer' = TRUE
       \/ mayFail /\ run' = "barred" /\ UNCHANGED <<sock, udpServer>>
    /\ UNCHANGED <<exec, cache, packets, cur>> /\ Quiet

(* udpServer!!.receive: the field is read once; a small or foreign packet  *)
(* is skipped.                                                             *)
Receive ==
    \/ /\ run = "receive"
       /\ run' = IF udpServer THEN "waiting" ELSE "close"
       /\ Idle
    \/ /\ run = "waiting" /\ sock = "closed" /\ run' = "close" /\ Idle
    \/ /\ run = "waiting" /\ sock = "open" /\ packets < MaxPackets
       /\ \E c \in Client :
             /\ packets = 0 => c = FirstClient
             /\ cur' = [client |-> c, handler |-> NoHandler]
       /\ packets' = packets + 1
       /\ run' = "lookup"
       /\ UNCHANGED <<sockVars, cache>> /\ Quiet

Cached(c) == {h \in ToSet(cache) : owner[h] = c}
Without(c) ==
    IF Cached(c) = {} THEN cache
    ELSE RemoveAt(cache, CHOOSE i \in DOMAIN cache : owner[cache[i]] = c)

(* cache.get, which makes the entry the youngest.                          *)
Lookup ==
    /\ run = "lookup"
    /\ IF Cached(cur.client) = {}
       THEN run' = "make" /\ UNCHANGED <<cache, cur>>
       ELSE \E h \in Cached(cur.client) :
                /\ cur' = [cur EXCEPT !.handler = h]
                /\ cache' = Append(Without(cur.client), h)
                /\ run' = "send"
    /\ UNCHANGED <<sockVars, packets>> /\ Quiet

(* A socket, if it can be made and protected, and its handler.             *)
Make ==
    /\ run = "make"
    /\ LET h == packets
       IN  \/ /\ run' = "put"
              /\ cur' = [cur EXCEPT !.handler = h]
              /\ owner' = [owner EXCEPT ![h] = cur.client]
              /\ pc' = [pc EXCEPT ![h] = "made"]
              /\ skt' = [skt EXCEPT ![h] = "open"]
           \/ /\ run' = "inner" \/ (mayFail /\ run' = "close")
              /\ cur' = NoPacket
              /\ UNCHANGED <<owner, pc, skt>>
    /\ UNCHANGED <<mayFail, stop, isRunning, sockVars, cache, packets, netVars>>

(* Variant: the eldest entry is closed as it leaves the cache.             *)
PutCloses ==
    /\ run = "put"
    /\ LET new == Append(cache, cur.handler)
       IN  IF Len(new) > Capacity
           THEN /\ cache' = Tail(new)
                /\ skt' = [skt EXCEPT ![Head(new)] = "closed"]
           ELSE cache' = new /\ UNCHANGED skt
    /\ run' = "execute"
    /\ UNCHANGED <<mayFail, stop, isRunning, sockVars, packets, cur, owner, pc, netVars>>

(* Variant: the cache has no limit.                                        *)
PutUnbounded ==
    /\ run = "put"
    /\ cache' = Append(cache, cur.handler)
    /\ run' = "execute"
    /\ UNCHANGED <<sockVars, packets, cur>> /\ Quiet

(* cache.put drops the eldest entry of a full cache and closes nothing.    *)
Put ==
    /\ run = "put"
    /\ LET new == Append(cache, cur.handler)
       IN  cache' = IF Len(new) > Capacity THEN Tail(new) ELSE new
    /\ run' = "execute"
    /\ UNCHANGED <<sockVars, packets, cur>> /\ Quiet

Execute ==
    /\ run = "execute"
    /\ IF exec = "up"
       THEN run' = "send" /\ pc' = [pc EXCEPT ![cur.handler] = "check"] /\ UNCHANGED cur
       ELSE run' = "close" /\ cur' = NoPacket /\ UNCHANGED pc
    /\ UNCHANGED <<mayFail, stop, isRunning, sockVars, cache, packets, owner, skt, netVars>>

(* handler.remoteSkt!!.send throws when the handler has failed by then, or *)
(* when the packet cannot be sent.                                         *)
Send ==
    /\ run = "send"
    /\ \/ /\ skt[cur.handler] = "open"
          /\ run' = "inner" /\ asked' = asked \cup {cur.handler}
       \/ /\ skt[cur.handler] # "open" \/ (mayFail /\ packets \in Unsendable)
          /\ run' = "close" /\ UNCHANGED asked
    /\ cur' = NoPacket
    /\ UNCHANGED <<mayFail, stop, isRunning, sockVars, cache, packets, handlerVars, inbox>>

(* Variant: the socket is left open when a round ends.                     *)
CloseNothing == run = "close" /\ run' = "check" /\ Idle

Close ==
    /\ run = "close"
    /\ sock' = IF udpServer THEN "closed" ELSE sock
    /\ run' = "check"
    /\ UNCHANGED <<udpServer, exec, cache, packets, cur>> /\ Quiet

Run ==
    \/ Begin \/ Check \/ Create \/ Receive \/ Lookup \/ Make \/ Put
    \/ Execute \/ Send \/ Close

-----------------------------------------------------------------------------
(* UDPRemoteDataHandler.run().                                             *)
Goto(h, l) == pc' = [pc EXCEPT ![h] = l]
Still == UNCHANGED <<mayFail, srvVars, stop, isRunning, sockVars, owner>>

HandlerCheck(h) ==
    /\ pc[h] = "check"
    /\ Goto(h, IF isRunning THEN "receive" ELSE "ended")
    /\ UNCHANGED <<cache, skt, netVars>> /\ Still

(* An answer comes, and one that is too short ends the loop but not more.  *)
(* HandlerFails: the server cannot be reached.                             *)
HandlerReceive(h) ==
    /\ pc[h] = "receive" /\ h \in inbox /\ skt[h] = "open"
    /\ inbox' = inbox \ {h}
    /\ Goto(h, "send") \/ Goto(h, "broken")
    /\ UNCHANGED <<cache, skt, asked>> /\ Still

HandlerFails(h) ==
    /\ mayFail /\ pc[h] = "receive" /\ skt[h] = "open"
    /\ Goto(h, "remove")
    /\ UNCHANGED <<cache, skt, netVars>> /\ Still

(* udpServer!!.send to the client, over whatever socket is there by now.   *)
HandlerSend(h) ==
    /\ pc[h] = "send"
    /\ \/ udpServer /\ sock = "open" /\ Goto(h, "check")
       \/ (mayFail \/ ~udpServer \/ sock # "open") /\ Goto(h, "remove")
    /\ UNCHANGED <<cache, skt, netVars>> /\ Still

(* Variant: a handler that fails stays in the cache.                       *)
HandlerStays(h) ==
    /\ pc[h] = "remove" /\ Goto(h, "ended")
    /\ skt' = [skt EXCEPT ![h] = "closed"]
    /\ asked' = asked \ {h} /\ inbox' = inbox \ {h}
    /\ UNCHANGED cache /\ Still

(* cache.remove(localAddress), whosesoever the entry is by then; then      *)
(* close() and remoteSkt = null, after either of which a send throws.      *)
HandlerEnds(h) ==
    /\ pc[h] = "remove" /\ Goto(h, "ended")
    /\ cache' = Without(owner[h])
    /\ skt' = [skt EXCEPT ![h] = "closed"]
    /\ asked' = asked \ {h} /\ inbox' = inbox \ {h}
    /\ Still

Handle(h) == HandlerCheck(h) \/ HandlerReceive(h) \/ HandlerSend(h) \/ HandlerEnds(h)

(* The server answers what it was asked, never or more than once; answers  *)
(* that no thread reads any more are left out.                             *)
Network(h) ==
    /\ h \in asked \ inbox /\ pc[h] \notin {"broken", "ended"}
    /\ inbox' = inbox \cup {h}
    /\ UNCHANGED <<mayFail, srvVars, stop, isRunning, sockVars, cache, handlerVars, asked>>

-----------------------------------------------------------------------------
(* stopUDPRelayServer.                                                     *)
StopGoto(l, then) == stop = l /\ stop' = then
Others == UNCHANGED <<mayFail, srvVars, handlerVars, netVars>>

StopFlag ==
    /\ StopGoto("none", "close")
    /\ isRunning' = FALSE
    /\ UNCHANGED <<sockVars, cache>> /\ Others

(* Variant: the thread is left to see the flag.                            *)
StopCloseNothing ==
    StopGoto("close", "evict") /\ UNCHANGED <<isRunning, sockVars, cache>> /\ Others

StopClose ==
    /\ StopGoto("close", "evict")
    /\ sock' = IF udpServer THEN "closed" ELSE sock
    /\ UNCHANGED <<isRunning, udpServer, exec, cache>> /\ Others

(* evictAll drops the handlers; their threads and sockets stay.            *)
StopEvict ==
    /\ StopGoto("evict", "null")
    /\ cache' = <<>>
    /\ UNCHANGED <<isRunning, sockVars>> /\ Others

StopNull ==
    /\ StopGoto("null", "shutdown")
    /\ udpServer' = FALSE
    /\ UNCHANGED <<isRunning, sock, exec, cache>> /\ Others

(* exec!!.shutdown() throws when run() has not made the pool yet.          *)
StopShutdown ==
    /\ IF exec = "null"
       THEN StopGoto("shutdown", "thrown") /\ UNCHANGED exec
       ELSE StopGoto("shutdown", "returned") /\ exec' = "shut"
    /\ UNCHANGED <<isRunning, sock, udpServer, cache>> /\ Others

Stop == StopClose \/ StopEvict \/ StopNull \/ StopShutdown

Next ==
    \/ Run
    \/ \E h \in Handler : Handle(h) \/ HandlerFails(h) \/ Network(h)
    \/ StopFlag \/ Stop

(* All the threads keep running; nobody need send, answer, fail or stop.   *)
Fairness ==
    /\ WF_vars(Run) /\ WF_vars(Stop)
    /\ \A h \in Handler : WF_vars(Handle(h))
Spec == Init /\ [][Next]_vars /\ Fairness
-----------------------------------------------------------------------------
(* While the server runs, a handler that its client's packets go to has a  *)
(* thread that relays the answers, or is about to leave the cache: however *)
(* the failures of others, the evictions and the lookups fall.  Not so     *)
(* after an answer that is too short (line 201).                           *)
Serving(h) == pc[h] \in {"check", "receive", "send", "remove", "broken"}
CachedIsServed ==
    isRunning =>
        \A h \in ToSet(cache) : Serving(h) \/ (run = "execute" /\ cur.handler = h)

(* "When udp server crashed, prepare it again" (line 81): a handler that   *)
(* fails under the server's hands, or a socket that does, costs a packet,  *)
(* not the server, unless another program has taken the port meanwhile.    *)
Recovers == run = "close" /\ isRunning ~> run \in {"waiting", "barred"} \/ ~isRunning

(* A server that is stopped, wherever in run() it is, ends.                *)
StoppedEnds == stop # "none" ~> run \in {"ended", "barred"}

(* An answer that has come is relayed though its handler was evicted, as   *)
(* long as no socket fails and no answer is too short.                     *)
AnswersRelayed ==
    \A h \in Handler :
        ~mayFail /\ h \in inbox ~> h \notin inbox \/ pc[h] = "broken" \/ ~isRunning
=============================================================================
