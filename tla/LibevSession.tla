---------------------------- MODULE LibevSession ----------------------------
(***************************************************************************)
(* One connection of ss-local or ss-tunnel (nativeVer, shadowsocksr-libev: *)
(* local.c, tunnel.c).  One thread runs the callbacks of an event loop;    *)
(* each is one step, for ev_io_stop and ev_timer_stop also drop what is    *)
(* pending.  A session is a struct server (side "client") and a struct     *)
(* remote (side "remote"); each has a socket, a buffer for what its socket *)
(* could not take at once, and watchers for reading and for writing.  Data *)
(* are units of a stream that a read may cut anywhere; a unit from the     *)
(* server is the least that the plugins decode at once.                    *)
(***************************************************************************)
EXTENDS Naturals

CONSTANTS
    MaxUp, MaxDown,     \* bounds: units the client and the server send
    Room                \* units a socket accepts before its peer takes them

ASSUME BoundsAssumption == MaxUp \in Nat /\ MaxDown \in Nat /\ Room \in Nat \ {0}

Side == {"client", "remote"}
Other == [s \in Side |-> IF s = "client" THEN "remote" ELSE "client"]

VARIABLES
    kind,       \* "local" (local.c) or "tunnel" (tunnel.c)
    fd,         \* the two descriptors
    live,       \* which of struct server and struct remote are allocated
    stage,      \* server->stage; 5 for a tunnel
    direct,     \* remote->direct: the ACL lets the destination bypass the server
    connected,  \* remote->send_ctx->connected
    len,        \* buf_len of each side: units its socket still has to accept
    reading,    \* sides whose recv_ctx->io is started
    writing,    \* sides whose send_ctx->io is started
    timer,      \* "connect": send_ctx->watcher, "idle": recv_ctx->watcher
    link,       \* the TCP connection to the server
    peer,       \* what the client and the server still do
    sent,       \* units each peer has sent
    taken,      \* units received from each socket
    put,        \* units each socket has accepted
    got         \* units each peer has taken

session == <<kind, fd, live, stage, direct, connected, len, reading, writing, timer>>
network == <<link, peer, sent, got>>
vars == <<session, network, taken, put>>

TypeOK ==
    /\ kind \in {"local", "tunnel"}
    /\ fd \in [Side -> {"none", "open", "closed"}]
    /\ live \in SUBSET Side
    /\ stage \in {0, 1, 5}
    /\ direct \in BOOLEAN /\ connected \in BOOLEAN
    /\ reading \in SUBSET Side /\ writing \in SUBSET Side
    /\ timer \in SUBSET {"connect", "idle"}
    /\ link \in {"none", "connecting", "up", "refused"}
    /\ peer \in [Side -> {"open", "eof", "garbles", "gone"}]
    /\ len \in [Side -> Nat] /\ sent \in [Side -> Nat]
    /\ taken \in [Side -> Nat] /\ put \in [Side -> Nat] /\ got \in [Side -> Nat]

(* A connection waits in the backlog of the listening socket.              *)
Init ==
    /\ kind \in {"local", "tunnel"}
    /\ fd = [s \in Side |-> "none"]
    /\ live = {}
    /\ stage = IF kind = "local" THEN 0 ELSE 5
    /\ direct = FALSE /\ connected = FALSE
    /\ len = [s \in Side |-> 0]
    /\ reading = {} /\ writing = {} /\ timer = {}
    /\ link = "none"
    /\ peer = [s \in Side |-> "open"]
    /\ sent = [s \in Side |-> 0] /\ taken = [s \in Side |-> 0]
    /\ put = [s \in Side |-> 0] /\ got = [s \in Side |-> 0]
-----------------------------------------------------------------------------
(* What a socket does at once.                                             *)
Data(s) == taken[s] < sent[s]
Ended(s) == taken[s] = sent[s] /\ peer[s] = "eof"
Writable(s) == put[s] < got[s] + Room \/ peer[s] = "gone"

(* How many of n units send() accepts, 0 for EAGAIN.                       *)
Accepted(s, n) == LET room == got[s] + Room - put[s] IN IF n < room THEN n ELSE room

(* close_and_free_server, close_and_free_remote.                           *)
Free(S) ==
    /\ live' = live \ S
    /\ fd' = [s \in Side |-> IF s \in S \cap live THEN "closed" ELSE fd[s]]
    /\ reading' = reading \ S /\ writing' = writing \ S
    /\ timer' = IF "remote" \in S THEN {} ELSE timer
    /\ UNCHANGED <<kind, stage, direct, connected, len, link, peer, sent, got, taken, put>>

(* Both sides at once, as every callback ends a session.                   *)
Close == Free(Side)

(* Variant: the reader is not stopped while its buffer is in use.          *)
ForwardKeepsReading(s, n) ==
    LET k == Accepted(s, n) IN
    /\ put' = [put EXCEPT ![s] = @ + k]
    /\ len' = IF k < n THEN [len EXCEPT ![s] = n - k] ELSE len
    /\ writing' = IF k < n THEN writing \cup {s} ELSE writing
    /\ UNCHANGED reading

(* send() of n units that were just received, with what the buffer of that *)
(* side keeps and which watchers wait.                                     *)
Forward(s, n) ==
    LET k == Accepted(s, n) IN
    /\ put' = [put EXCEPT ![s] = @ + k]
    /\ IF k < n
       THEN /\ len' = [len EXCEPT ![s] = n - k]
            /\ reading' = reading \ {Other[s]}
            /\ writing' = writing \cup {s}
       ELSE UNCHANGED <<len, reading, writing>>

(* Variant: a part that was sent stays in the buffer.                      *)
FlushResends(s) ==
    LET k == Accepted(s, len[s]) IN
    /\ put' = [put EXCEPT ![s] = @ + k]
    /\ len' = [len EXCEPT ![s] = IF k < @ THEN @ ELSE 0]
    /\ IF k < len[s]
       THEN UNCHANGED <<reading, writing>>
       ELSE /\ writing' = writing \ {s}
            /\ reading' = reading \cup {Other[s]}

(* Variant: the reader that was stopped is not started again.              *)
FlushForgetsReader(s) ==
    LET k == Accepted(s, len[s]) IN
    /\ put' = [put EXCEPT ![s] = @ + k]
    /\ len' = [len EXCEPT ![s] = @ - k]
    /\ writing' = IF k < len[s] THEN writing ELSE writing \ {s}
    /\ UNCHANGED reading

(* send() of what the buffer of that side keeps.                           *)
Flush(s) ==
    LET k == Accepted(s, len[s]) IN
    /\ put' = [put EXCEPT ![s] = @ + k]
    /\ len' = [len EXCEPT ![s] = @ - k]
    /\ IF k < len[s]
       THEN UNCHANGED <<reading, writing>>
       ELSE /\ writing' = writing \ {s}
            /\ reading' = reading \cup {Other[s]}
-----------------------------------------------------------------------------
AcceptLocal ==
    /\ kind = "local"
    /\ fd["client"] = "none"
    /\ fd' = [fd EXCEPT !["client"] = "open"]
    /\ live' = {"client"}
    /\ reading' = {"client"}
    /\ UNCHANGED <<kind, stage, direct, connected, len, writing, timer, network, taken, put>>

(* ss-tunnel connects before it reads.  When socket() or protect_socket    *)
(* fails, the accepted descriptor is left open, with nobody behind it.     *)
AcceptTunnel ==
    /\ kind = "tunnel"
    /\ fd["client"] = "none"
    /\ \/ /\ fd' = [s \in Side |-> "open"]
          /\ live' = Side
          /\ writing' = {"remote"}
          /\ timer' = {"connect"}
          /\ link' = "connecting"
       \/ /\ fd' = [fd EXCEPT !["client"] = "open"]
          /\ UNCHANGED <<live, writing, timer, link>>
    /\ UNCHANGED <<kind, stage, direct, connected, len, reading, peer, sent, got, taken, put>>

(* recv() says that the client has ended or is gone.                       *)
ServerRecvEnds ==
    /\ "client" \in reading
    /\ Ended("client") \/ peer["client"] = "gone"
    /\ Close

(* Stage 0: the greeting, and no more than that.                           *)
ServerRecvGreeting ==
    /\ "client" \in reading /\ stage = 0 /\ Data("client")
    /\ taken' = [taken EXCEPT !["client"] = 1]
    /\ stage' = 1
    /\ UNCHANGED <<kind, fd, live, direct, connected, len, reading, writing, timer, network, put>>

(* Stage 1, or stage 0 with the request in the same read: n units in all,  *)
(* of which those after the request are payload.  The header (unless the   *)
(* destination is direct) and the payload wait for the connection.         *)
ServerRecvRequest(n) ==
    /\ "client" \in reading /\ stage < 5 /\ Data("client")
    /\ n \in taken["client"] + 1..sent["client"] /\ n >= 2
    /\ taken' = [taken EXCEPT !["client"] = n]
    /\ stage' = 5
    /\ direct' \in BOOLEAN
    /\ fd' = [fd EXCEPT !["remote"] = "open"]
    /\ live' = Side
    /\ len' = [len EXCEPT !["remote"] = IF direct' THEN n - 2 ELSE n - 1]
    /\ reading' = reading \ {"client"}
    /\ writing' = writing \cup {"remote"}
    /\ timer' = timer \cup {"connect"}
    /\ link' = "connecting"
    /\ UNCHANGED <<kind, connected, peer, sent, got, put>>

(* A command or an address type that is not supported, a UDP association,  *)
(* create_remote or protect_socket failing, the reply not sent; in stage 5 *)
(* ss_encrypt failing.                                                     *)
ServerRecvRefused ==
    /\ "client" \in reading /\ Data("client")
    /\ stage < 5 => sent["client"] >= 2
    /\ Close

(* Stage 5: encode and send.                                               *)
ServerRecvRelays(n) ==
    /\ "client" \in reading /\ stage = 5 /\ Data("client")
    /\ n \in 1..sent["client"] - taken["client"]
    /\ IF peer["remote"] = "gone"
       THEN Close
       ELSE /\ taken' = [taken EXCEPT !["client"] = @ + n]
            /\ Forward("remote", n)
            /\ UNCHANGED <<kind, fd, live, stage, direct, connected, timer, network>>

ServerRecv ==
    \/ ServerRecvEnds \/ ServerRecvGreeting \/ ServerRecvRefused
    \/ \E n \in 1..sent["client"] : ServerRecvRequest(n) \/ ServerRecvRelays(n)

ServerSend ==
    /\ "client" \in writing /\ Writable("client")
    /\ IF len["client"] = 0 \/ peer["client"] = "gone"
       THEN Close
       ELSE Flush("client") /\ UNCHANGED <<kind, fd, live, stage, direct, connected, timer, network, taken>>

(* Variant: the end of the server only stops the reader.                   *)
RemoteRecvEndsQuietly ==
    /\ "remote" \in reading
    /\ Ended("remote") \/ peer["remote"] \in {"gone", "garbles"}
    /\ reading' = reading \ {"remote"}
    /\ UNCHANGED <<kind, fd, live, stage, direct, connected, len, writing, timer, network, taken, put>>

(* The server has ended or is gone, or what it sends cannot be decoded.    *)
RemoteRecvEnds ==
    /\ "remote" \in reading
    /\ Ended("remote") \/ peer["remote"] \in {"gone", "garbles"}
    /\ Close

(* local.c starts the idle timer anew.                                     *)
RemoteRecvRelays(n) ==
    /\ "remote" \in reading /\ Data("remote")
    /\ n \in 1..sent["remote"] - taken["remote"]
    /\ IF peer["client"] = "gone"
       THEN Close
       ELSE /\ taken' = [taken EXCEPT !["remote"] = @ + n]
            /\ timer' = IF kind = "local" THEN timer \cup {"idle"} ELSE timer
            /\ Forward("client", n)
            /\ UNCHANGED <<kind, fd, live, stage, direct, connected, network>>

RemoteRecv == RemoteRecvEnds \/ \E n \in 1..sent["remote"] : RemoteRecvRelays(n)

(* The first time: getpeername tells whether the connection has come up.   *)
(* tunnel.c also gives up when the header is not encrypted or sent whole.  *)
RemoteSendRefused ==
    /\ "remote" \in writing /\ ~connected
    /\ link = "refused" \/ (link = "up" /\ (peer["remote"] = "gone" \/ kind = "tunnel"))
    /\ Close

(* Variant: the idle timer waits for the first answer.                     *)
RemoteSendConnectedUntimed ==
    /\ "remote" \in writing /\ ~connected /\ kind = "local"
    /\ link = "up" /\ peer["remote"] # "gone"
    /\ connected' = TRUE
    /\ timer' = {}
    /\ Flush("remote")
    /\ UNCHANGED <<kind, fd, live, stage, direct, network, taken>>

(* local.c: what waited is sent in the same callback.                      *)
RemoteSendConnectedLocal ==
    /\ "remote" \in writing /\ ~connected /\ kind = "local"
    /\ link = "up" /\ peer["remote"] # "gone"
    /\ connected' = TRUE
    /\ timer' = {"idle"}
    /\ LET k == Accepted("remote", len["remote"]) IN
       /\ put' = [put EXCEPT !["remote"] = @ + k]
       /\ len' = [len EXCEPT !["remote"] = @ - k]
       /\ reading' = reading \cup (IF k < len["remote"] THEN {"remote"} ELSE Side)
       /\ writing' = IF k < len["remote"] THEN writing ELSE writing \ {"remote"}
    /\ UNCHANGED <<kind, fd, live, stage, direct, network, taken>>

(* tunnel.c: the header is sent whole, and both sides are read from now on. *)
RemoteSendConnectedTunnel ==
    /\ "remote" \in writing /\ ~connected /\ kind = "tunnel"
    /\ link = "up" /\ peer["remote"] # "gone"
    /\ connected' = TRUE
    /\ timer' = {}
    /\ put' = [put EXCEPT !["remote"] = @ + 1]
    /\ reading' = Side
    /\ writing' = writing \ {"remote"}
    /\ UNCHANGED <<kind, fd, live, stage, direct, len, network, taken>>

RemoteSendFlush ==
    /\ "remote" \in writing /\ connected /\ Writable("remote")
    /\ IF len["remote"] = 0 \/ peer["remote"] = "gone"
       THEN Close
       ELSE Flush("remote") /\ UNCHANGED <<kind, fd, live, stage, direct, connected, timer, network, taken>>

RemoteSend ==
    RemoteSendRefused \/ RemoteSendConnectedLocal \/ RemoteSendConnectedTunnel \/ RemoteSendFlush

(* Variant: the server is freed and the remote forgotten.                  *)
TimeoutForgetsRemote(t) == t \in timer /\ Free({"client"})

(* remote_timeout_cb, of either timer.                                     *)
Timeout(t) == t \in timer /\ Close

(* SIGTERM: the loop ends and every connection is freed (local.c), or the  *)
(* process ends with its descriptors.                                      *)
Terminate == live # {} /\ Close
-----------------------------------------------------------------------------
(* The network.  The client may send without waiting for the replies.      *)
Limit(s) == IF s = "remote" THEN MaxDown ELSE IF kind = "local" THEN 2 + MaxUp ELSE MaxUp
Present(s) == s \in live /\ (s = "remote" => link = "up")

Send(s) ==
    /\ Present(s) /\ peer[s] = "open" /\ sent[s] < Limit(s)
    /\ sent' = [sent EXCEPT ![s] = @ + 1]
    /\ UNCHANGED <<session, link, peer, got, taken, put>>

TakeUnit(s) ==
    /\ peer[s] # "gone" /\ got[s] < put[s]
    /\ got' = [got EXCEPT ![s] = @ + 1]
    /\ UNCHANGED <<session, link, peer, sent, taken, put>>

Leave(s) ==
    /\ Present(s) /\ peer[s] # "gone"
    /\ \/ peer[s] = "open" /\ peer' = [peer EXCEPT ![s] = "eof"]
       \/ peer[s] = "open" /\ s = "remote" /\ ~direct /\ peer' = [peer EXCEPT ![s] = "garbles"]
       \/ peer' = [peer EXCEPT ![s] = "gone"]
    /\ UNCHANGED <<session, link, sent, got, taken, put>>

Connect ==
    /\ link = "connecting" /\ "remote" \in live
    /\ link' \in {"up", "refused"}
    /\ UNCHANGED <<session, peer, sent, got, taken, put>>

Callback ==
    \/ AcceptLocal \/ AcceptTunnel
    \/ ServerRecv \/ ServerSend \/ RemoteRecv \/ RemoteSend
    \/ \E t \in {"connect", "idle"} : Timeout(t)
    \/ Terminate

Next ==
    \/ Callback
    \/ Connect
    \/ \E s \in Side : Send(s) \/ TakeUnit(s) \/ Leave(s)

(* The loop runs what is ready.                                            *)
Fairness ==
    WF_vars(ServerRecv) /\ WF_vars(ServerSend) /\ WF_vars(RemoteRecv) /\ WF_vars(RemoteSend)
Spec == Init /\ [][Next]_vars /\ Fairness

TimerFires(t) == WF_vars(Timeout(t))
PeersTake == \A s \in Side : WF_vars(TakeUnit(s))
-----------------------------------------------------------------------------
Over == fd["client"] = "closed"

(* What the server is due for the units taken from the client.             *)
Due ==
    IF kind = "tunnel" THEN taken["client"] + (IF connected THEN 1 ELSE 0)
    ELSE IF stage < 5 THEN 0
    ELSE IF direct THEN taken["client"] - 2 ELSE taken["client"] - 1

(* Each direction of a session is a Pipe: a buffer is never read into      *)
(* before it has been sent, and nothing is lost or sent twice, however the *)
(* connection comes up and whatever the sockets accept.                    *)
Up == INSTANCE Pipe WITH taken <- Due, given <- put["remote"], over <- Over
Down == INSTANCE Pipe WITH taken <- taken["remote"], given <- put["client"], over <- Over
Pipes == Up!PipeSpec /\ Down!PipeSpec

(* Every callback finds the structs it uses: no watcher and no timer of a  *)
(* freed session is left, and a remote has its server.  A descriptor is    *)
(* open as long as its struct is there, except the one that accept_cb of   *)
(* tunnel.c leaves behind (lines 617 to 631).                              *)
WatchedIsLive ==
    /\ reading \cup writing \subseteq live
    /\ timer # {} => "remote" \in live
    /\ "remote" \in live => "client" \in live
    /\ \A s \in Side : fd[s] = "open" =>
          s \in live \/ (kind = "tunnel" /\ fd["remote"] = "none")

(* Once connected, each direction has exactly one watcher: the reader of   *)
(* its source, or the writer of what its destination has not accepted.     *)
TakesTurns ==
    live = Side /\ connected =>
        \A s \in Side :
            /\ s \in reading <=> Other[s] \notin writing
            /\ s \in writing <=> len[s] > 0

(* A connection of ss-local is over at last, whatever its peers do, once   *)
(* it has a remote: a timer runs until it is freed.                        *)
AlwaysTimed == kind = "local" /\ live = Side => timer # {}

(* What the client has sent reaches the server, unless the session ends.   *)
UpBusy == taken["client"] < sent["client"] \/ got["remote"] < Due
DownBusy == taken["remote"] < sent["remote"] \/ got["client"] < put["client"] + len["client"]
Relayed ==
    PeersTake /\ TimerFires("connect") =>
        /\ live # {} /\ UpBusy ~> ~UpBusy \/ live = {}
        /\ live # {} /\ DownBusy ~> ~DownBusy \/ live = {}

(* A session whose client or server has ended is freed, both sides of it.  *)
EndTogether ==
    PeersTake /\ TimerFires("connect") =>
        \A s \in Side : s \in live /\ peer[s] # "open" ~> live = {}
=============================================================================
