------------------------- MODULE LibevSessionProofs -------------------------
(***************************************************************************)
(* For streams of any length and sockets of any room: what the watchers of *)
(* a session of ss-local or ss-tunnel may refer to, that its two sides     *)
(* take turns, and that each direction is a Pipe.                          *)
(***************************************************************************)
EXTENDS LibevSession, TLAPS

(* Before the accept, and what the stages leave untouched.                 *)
Staged ==
    /\ kind = "tunnel" => stage = 5
    /\ stage < 5 => ~connected /\ "remote" \notin live
    /\ ~connected => taken["remote"] = 0
    /\ fd["client"] = "none" =>
          /\ fd["remote"] = "none" /\ ~connected /\ (kind = "local" => stage = 0)
          /\ \A s \in Side : put[s] = 0 /\ len[s] = 0

(* The descriptors and the structs.                                        *)
Opened ==
    /\ \A s \in Side : s \in live => fd[s] = "open"
    /\ \A s \in Side : fd[s] = "open" => s \in live \/ (kind = "tunnel" /\ fd["remote"] = "none")
    /\ "remote" \in live => "client" \in live /\ stage = 5

(* The watchers of a session without structs, with one, with two that wait *)
(* for the connection, and with two that are connected.                    *)
Freed == "client" \notin live => reading = {} /\ writing = {} /\ timer = {}
Alone ==
    "client" \in live /\ "remote" \notin live =>
        kind = "local" /\ stage < 5 /\ reading = {"client"} /\ writing = {} /\ timer = {}
Connecting ==
    "remote" \in live /\ ~connected =>
        /\ reading = {} /\ writing = {"remote"} /\ timer = {"connect"}
        /\ put["remote"] = 0 /\ (kind = "tunnel" => len["remote"] = 0)
Connected ==
    "remote" \in live /\ connected =>
        /\ timer = IF kind = "local" THEN {"idle"} ELSE {}
        /\ \A s \in Side : (s \in reading <=> Other[s] \notin writing) /\ (s \in writing <=> len[s] > 0)

(* What was taken has been put or is kept; a socket holds its room.        *)
Kept ==
    /\ put["remote"] + len["remote"] = Due
    /\ put["client"] + len["client"] = taken["remote"]
Held == \A s \in Side : got[s] <= put[s] /\ put[s] <= got[s] + Room

IInv == TypeOK /\ Staged /\ Opened /\ Freed /\ Alone /\ Connecting /\ Connected /\ Kept /\ Held

USE BoundsAssumption DEF Side, Other

LEMMA InitIInv == Init => IInv
<1> SUFFICES ASSUME Init PROVE IInv
  OBVIOUS
<1>1. TypeOK
  BY DEF Init, TypeOK
<1>2. Staged /\ Opened /\ Freed /\ Alone /\ Connecting /\ Connected
  BY DEF Init, Staged, Opened, Freed, Alone, Connecting, Connected
<1>3. Kept /\ Held
  BY DEF Init, Kept, Held, Due
<1>4. QED
  BY <1>1, <1>2, <1>3 DEF IInv

(* send() takes what there is room for.                                    *)
LEMMA AcceptedFits ==
    ASSUME IInv, NEW s \in Side, NEW n \in Nat
    PROVE  /\ Accepted(s, n) \in 0..n
           /\ put[s] + Accepted(s, n) <= got[s] + Room
           /\ put[s] < got[s] + Room /\ n > 0 => Accepted(s, n) > 0
BY DEF IInv, TypeOK, Held, Accepted

(* A session ends.                                                         *)
LEMMA CloseStep == IInv /\ Close => IInv'
<1> SUFFICES ASSUME IInv, Close PROVE IInv'
  OBVIOUS
<1>1. /\ live' = {} /\ reading' = {} /\ writing' = {} /\ timer' = {}
      /\ fd' = [s \in Side |-> IF s \in live THEN "closed" ELSE fd[s]]
      /\ UNCHANGED <<kind, stage, direct, connected, len, link, peer, sent, got, taken, put>>
  BY DEF Close, Free, IInv, TypeOK
<1>2. TypeOK'
  BY <1>1 DEF IInv, TypeOK
<1>3. Staged' /\ Opened'
  BY <1>1 DEF IInv, TypeOK, Staged, Opened
<1>4. Freed' /\ Alone' /\ Connecting' /\ Connected'
  BY <1>1 DEF Freed, Alone, Connecting, Connected
<1>5. Kept' /\ Held'
  BY <1>1 DEF IInv, Kept, Held, Due
<1>6. QED
  BY <1>2, <1>3, <1>4, <1>5 DEF IInv

LEMMA AcceptStep == IInv /\ (AcceptLocal \/ AcceptTunnel) => IInv'
<1> SUFFICES ASSUME IInv, AcceptLocal \/ AcceptTunnel PROVE IInv'
  OBVIOUS
<1>1. /\ live = {} /\ fd = [s \in Side |-> "none"] /\ ~connected
      /\ reading = {} /\ writing = {} /\ timer = {}
      /\ \A s \in Side : put[s] = 0 /\ len[s] = 0
  BY DEF AcceptLocal, AcceptTunnel, IInv, TypeOK, Staged, Opened, Freed
<1>2. UNCHANGED <<kind, stage, direct, connected, len, peer, sent, got, taken, put>>
  BY DEF AcceptLocal, AcceptTunnel, network
<1>3. Kept' /\ Held'
  BY <1>2 DEF IInv, Kept, Held, Due
<1>4. CASE AcceptLocal
  <2>1. /\ kind = "local" /\ fd' = [fd EXCEPT !["client"] = "open"] /\ live' = {"client"}
        /\ reading' = {"client"} /\ UNCHANGED <<writing, timer, link>>
    BY <1>4 DEF AcceptLocal, network
  <2>2. TypeOK'
    BY <1>1, <1>2, <2>1 DEF IInv, TypeOK
  <2>3. stage < 5
    BY <1>1, <1>4, <2>1 DEF IInv, TypeOK, Staged
  <2>4. QED
    BY <1>1, <1>2, <1>3, <2>1, <2>2, <2>3 DEF IInv, TypeOK, Staged, Opened, Freed, Alone, Connecting, Connected
<1>5. CASE AcceptTunnel
  BY <1>1, <1>2, <1>3, <1>5
     DEF AcceptTunnel, IInv, TypeOK, Staged, Opened, Freed, Alone, Connecting, Connected
<1>6. QED
  BY <1>4, <1>5

(* A live side has a watcher only if both sides are there and connected,   *)
(* or the session is in its handshake, or waits for the connection.        *)
LEMMA ReaderOfRemote ==
    ASSUME IInv, "remote" \in reading
    PROVE  live = Side /\ connected /\ stage = 5
<1>1. "client" \in live
  BY DEF IInv, Freed
<1>2. "remote" \in live
  BY <1>1 DEF IInv, Alone
<1>3. connected /\ stage = 5
  BY <1>2 DEF IInv, Connecting, Opened
<1>4. QED
  BY <1>1, <1>2, <1>3 DEF IInv, TypeOK

LEMMA ReaderOfClient ==
    ASSUME IInv, "client" \in reading
    PROVE  \/ live = {"client"} /\ kind = "local" /\ stage < 5 /\ ~connected
           \/ live = Side /\ connected /\ stage = 5
BY DEF IInv, TypeOK, Staged, Opened, Freed, Alone, Connecting

LEMMA WriterOfClient ==
    ASSUME IInv, "client" \in writing
    PROVE  live = Side /\ connected /\ stage = 5
<1>1. "client" \in live
  BY DEF IInv, Freed
<1>2. "remote" \in live
  BY <1>1 DEF IInv, Alone
<1>3. connected /\ stage = 5
  BY <1>2 DEF IInv, Connecting, Opened
<1>4. QED
  BY <1>1, <1>2, <1>3 DEF IInv, TypeOK

LEMMA WriterOfRemote ==
    ASSUME IInv, "remote" \in writing
    PROVE  live = Side /\ stage = 5
BY DEF IInv, TypeOK, Opened, Freed, Alone

(* The handshake of ss-local.                                              *)
LEMMA HandshakeStep ==
    ASSUME IInv, ServerRecvGreeting \/ \E n \in 1..sent["client"] : ServerRecvRequest(n)
    PROVE  IInv'
<1>1. live = {"client"} /\ kind = "local" /\ stage < 5 /\ ~connected
  BY ReaderOfClient DEF ServerRecvGreeting, ServerRecvRequest
<1>2. /\ reading = {"client"} /\ writing = {} /\ timer = {}
      /\ fd["client"] = "open" /\ Due = 0
      /\ \A s \in Side : put[s] \in Nat /\ len[s] \in Nat /\ taken[s] \in Nat /\ sent[s] \in Nat
  BY <1>1 DEF IInv, TypeOK, Alone, Opened, Due
<1>3. put["remote"] = 0 /\ len["remote"] = 0 /\ put["client"] + len["client"] = taken["remote"]
  BY <1>1, <1>2 DEF IInv, Kept
<1>4. CASE ServerRecvGreeting
  <2>1. /\ stage' = 1 /\ taken' = [taken EXCEPT !["client"] = 1]
        /\ UNCHANGED <<kind, fd, live, direct, connected, len, reading, writing, timer, link, peer, sent, got, put>>
    BY <1>4 DEF ServerRecvGreeting, network
  <2>2. TypeOK'
    BY <2>1 DEF IInv, TypeOK
  <2>3. Kept' /\ Held'
    BY <1>1, <1>3, <2>1, <2>2 DEF IInv, Kept, Held, Due, TypeOK
  <2>4. Staged' /\ Opened' /\ Freed' /\ Alone' /\ Connecting' /\ Connected'
    BY <1>1, <1>2, <2>1 DEF IInv, TypeOK, Staged, Opened, Freed, Alone, Connecting, Connected
  <2>5. QED
    BY <2>2, <2>3, <2>4 DEF IInv
<1>5. ASSUME NEW n \in 1..sent["client"], ServerRecvRequest(n) PROVE IInv'
  <2>1. /\ n \in Nat /\ n >= 2 /\ taken' = [taken EXCEPT !["client"] = n] /\ stage' = 5
        /\ direct' \in BOOLEAN /\ fd' = [fd EXCEPT !["remote"] = "open"] /\ live' = Side
        /\ len' = [len EXCEPT !["remote"] = IF direct' THEN n - 2 ELSE n - 1]
        /\ reading' = {} /\ writing' = {"remote"} /\ timer' = {"connect"} /\ link' = "connecting"
        /\ UNCHANGED <<kind, connected, peer, sent, got, put>>
    BY <1>2, <1>5 DEF ServerRecvRequest
  <2>2. TypeOK'
    <3>1. len' \in [Side -> Nat] /\ taken' \in [Side -> Nat]
      BY <2>1 DEF IInv, TypeOK
    <3>2. fd' \in [Side -> {"none", "open", "closed"}]
      BY <2>1 DEF IInv, TypeOK
    <3>3. QED
      BY <2>1, <3>1, <3>2 DEF IInv, TypeOK
  <2>3. /\ taken'["client"] = n /\ taken'["remote"] = taken["remote"]
        /\ len'["remote"] = (IF direct' THEN n - 2 ELSE n - 1) /\ len'["client"] = len["client"]
    BY <2>1 DEF IInv, TypeOK
  <2>4. Kept' /\ Held'
    BY <1>1, <1>2, <1>3, <2>1, <2>3 DEF IInv, Kept, Held, Due
  <2>5. Staged' /\ Opened' /\ Freed' /\ Alone' /\ Connecting' /\ Connected'
    BY <1>1, <1>2, <1>3, <2>1 DEF IInv, TypeOK, Staged, Opened, Freed, Alone, Connecting, Connected
  <2>6. QED
    BY <2>2, <2>4, <2>5 DEF IInv
<1>6. QED
  BY <1>4, <1>5

(* What a step of a connected session has to establish, when it only moves *)
(* units and sets watchers.                                                *)
Moves ==
    /\ live = Side /\ connected /\ stage = 5
    /\ UNCHANGED <<kind, fd, live, stage, direct, connected, timer, link, peer, sent, got>>
    /\ taken' \in [Side -> Nat] /\ put' \in [Side -> Nat] /\ len' \in [Side -> Nat]
    /\ \A s \in Side :
          /\ put'[s] - put[s] + len'[s] - len[s] = taken'[Other[s]] - taken[Other[s]]
          /\ put'[s] <= got[s] + Room
          /\ put[s] <= put'[s]
    /\ reading' \in SUBSET Side /\ writing' \in SUBSET Side
    /\ \A s \in Side : (s \in reading' <=> Other[s] \notin writing') /\ (s \in writing' <=> len'[s] > 0)

LEMMA MovesStep == IInv /\ Moves => IInv'
<1> SUFFICES ASSUME IInv, Moves PROVE IInv'
  OBVIOUS
<1>1. /\ taken \in [Side -> Nat] /\ put \in [Side -> Nat] /\ len \in [Side -> Nat] /\ got \in [Side -> Nat]
      /\ kind \in {"local", "tunnel"}
  BY DEF IInv, TypeOK
<1>2. TypeOK'
  BY DEF IInv, TypeOK, Moves
<1>3. Staged' /\ Opened' /\ Freed' /\ Alone' /\ Connecting'
  BY DEF IInv, Moves, Staged, Opened, Freed, Alone, Connecting
<1>4. Connected'
  BY DEF IInv, Moves, Connected
<1>5. Kept'
  <2>1. /\ put'["remote"] - put["remote"] + len'["remote"] - len["remote"] = taken'["client"] - taken["client"]
        /\ put'["client"] - put["client"] + len'["client"] - len["client"] = taken'["remote"] - taken["remote"]
    BY DEF Moves
  <2>2. taken' \in [Side -> Nat] /\ put' \in [Side -> Nat] /\ len' \in [Side -> Nat]
    BY DEF Moves
  <2>3. stage = 5 /\ UNCHANGED <<kind, stage, direct, connected>>
    BY DEF Moves
  <2>4. QED
    BY <1>1, <2>1, <2>2, <2>3 DEF IInv, Kept, Due
<1>6. Held'
  BY <1>1 DEF IInv, Moves, Held
<1>7. QED
  BY <1>2, <1>3, <1>4, <1>5, <1>6 DEF IInv

(* A read, sent on at once as far as the other socket takes it.            *)
LEMMA ForwardStep ==
    ASSUME IInv, NEW s \in Side, NEW n \in Nat \ {0},
           live = Side, connected, stage = 5, Other[s] \in reading, Forward(s, n),
           taken' = [taken EXCEPT ![Other[s]] = @ + n],
           UNCHANGED <<kind, fd, live, stage, direct, connected, timer, link, peer, sent, got>>
    PROVE  Moves /\ put'[s] \in put[s]..put[s] + n
<1> DEFINE k == Accepted(s, n)
<1>1. /\ taken \in [Side -> Nat] /\ put \in [Side -> Nat] /\ len \in [Side -> Nat] /\ got \in [Side -> Nat]
      /\ reading \in SUBSET Side /\ writing \in SUBSET Side
      /\ \A r \in Side : put[r] <= got[r] + Room
  BY DEF IInv, TypeOK, Held
<1>2. \A r \in Side : (r \in reading <=> Other[r] \notin writing) /\ (r \in writing <=> len[r] > 0)
  BY DEF IInv, Connected
<1>3. k \in 0..n /\ put[s] + k <= got[s] + Room
  BY AcceptedFits
<1>4. put' = [put EXCEPT ![s] = @ + k]
  BY DEF Forward
<1>5. len[s] = 0 /\ s \notin writing
  BY <1>1, <1>2
<1>6. CASE k < n
  <2>1. /\ len' = [len EXCEPT ![s] = n - k]
        /\ reading' = reading \ {Other[s]} /\ writing' = writing \cup {s}
    BY <1>6 DEF Forward
  <2> HIDE DEF k
  <2>2. taken' \in [Side -> Nat] /\ put' \in [Side -> Nat] /\ len' \in [Side -> Nat]
    BY <1>1, <1>3, <1>4, <2>1
  <2>3. \A r \in Side :
            /\ put'[r] - put[r] + len'[r] - len[r] = taken'[Other[r]] - taken[Other[r]]
            /\ put'[r] <= got[r] + Room /\ put[r] <= put'[r]
    BY <1>1, <1>3, <1>4, <1>5, <2>1
  <2>4. reading' \in SUBSET Side /\ writing' \in SUBSET Side
    BY <1>1, <2>1
  <2>5. \A r \in Side : (r \in reading' <=> Other[r] \notin writing') /\ (r \in writing' <=> len'[r] > 0)
    BY <1>1, <1>2, <1>3, <1>6, <2>1
  <2>6. Moves
    BY <2>2, <2>3, <2>4, <2>5 DEF Moves
  <2>7. QED
    BY <1>1, <1>3, <1>4, <2>6
<1>7. CASE ~(k < n)
  <2>1. UNCHANGED <<len, reading, writing>>
    BY <1>7 DEF Forward
  <2>2. k = n
    BY <1>3, <1>7
  <2> HIDE DEF k
  <2>3. taken' \in [Side -> Nat] /\ put' \in [Side -> Nat] /\ len' \in [Side -> Nat]
    BY <1>1, <1>3, <1>4, <2>1
  <2>4. \A r \in Side :
            /\ put'[r] - put[r] + len'[r] - len[r] = taken'[Other[r]] - taken[Other[r]]
            /\ put'[r] <= got[r] + Room /\ put[r] <= put'[r]
    BY <1>1, <1>3, <1>4, <2>1, <2>2
  <2>5. Moves
    BY <1>1, <1>2, <2>1, <2>3, <2>4 DEF Moves
  <2>6. QED
    BY <1>1, <1>3, <1>4, <2>5
<1>8. QED
  BY <1>6, <1>7

(* What a buffer keeps is sent on, as far as the socket takes it.          *)
LEMMA FlushStep ==
    ASSUME IInv, NEW s \in Side, live = Side, connected, stage = 5,
           s \in writing, got[s] + Room > put[s], Flush(s),
           UNCHANGED <<kind, fd, live, stage, direct, connected, timer, link, peer, sent, got, taken>>
    PROVE  Moves /\ put'[s] \in put[s] + 1..put[s] + len[s]
<1> DEFINE k == Accepted(s, len[s])
<1>1. /\ taken \in [Side -> Nat] /\ put \in [Side -> Nat] /\ len \in [Side -> Nat] /\ got \in [Side -> Nat]
      /\ reading \in SUBSET Side /\ writing \in SUBSET Side
      /\ \A r \in Side : put[r] <= got[r] + Room
  BY DEF IInv, TypeOK, Held
<1>2. \A r \in Side : (r \in reading <=> Other[r] \notin writing) /\ (r \in writing <=> len[r] > 0)
  BY DEF IInv, Connected
<1>3. len[s] \in Nat /\ len[s] > 0
  BY <1>1, <1>2
<1>4. k \in 1..len[s] /\ put[s] + k <= got[s] + Room
  BY <1>1, <1>3 DEF Accepted
<1>5. put' = [put EXCEPT ![s] = @ + k] /\ len' = [len EXCEPT ![s] = @ - k]
  BY DEF Flush
<1>6. IF k < len[s] THEN UNCHANGED <<reading, writing>>
                    ELSE writing' = writing \ {s} /\ reading' = reading \cup {Other[s]}
  BY DEF Flush
<1> HIDE DEF k
<1>7. taken' \in [Side -> Nat] /\ put' \in [Side -> Nat] /\ len' \in [Side -> Nat]
  BY <1>1, <1>4, <1>5
<1>8. \A r \in Side :
          /\ put'[r] - put[r] + len'[r] - len[r] = taken'[Other[r]] - taken[Other[r]]
          /\ put'[r] <= got[r] + Room /\ put[r] <= put'[r]
  BY <1>1, <1>4, <1>5
<1>9. reading' \in SUBSET Side /\ writing' \in SUBSET Side
  BY <1>1, <1>6
<1>10. \A r \in Side : (r \in reading' <=> Other[r] \notin writing') /\ (r \in writing' <=> len'[r] > 0)
  BY <1>1, <1>2, <1>3, <1>4, <1>5, <1>6
<1>11. Moves
  BY <1>7, <1>8, <1>9, <1>10 DEF Moves
<1>12. QED
  BY <1>1, <1>4, <1>5, <1>11

(* The connection has come up: the header and what waited are sent.        *)
LEMMA ConnectedLocalStep ==
    ASSUME IInv, RemoteSendConnectedLocal
    PROVE  /\ IInv'
           /\ put' = [put EXCEPT !["remote"] = put'["remote"]]
           /\ put'["remote"] \in put["remote"]..put["remote"] + len["remote"]
           /\ UNCHANGED <<kind, fd, live, stage, direct, taken>>
<1> DEFINE k == Accepted("remote", len["remote"])
<1>1. live = Side /\ stage = 5 /\ ~connected /\ kind = "local" /\ connected' = TRUE /\ timer' = {"idle"}
  BY WriterOfRemote DEF RemoteSendConnectedLocal
<1>2. /\ put' = [put EXCEPT !["remote"] = @ + k] /\ len' = [len EXCEPT !["remote"] = @ - k]
      /\ reading' = reading \cup (IF k < len["remote"] THEN {"remote"} ELSE Side)
      /\ writing' = IF k < len["remote"] THEN writing ELSE writing \ {"remote"}
      /\ UNCHANGED <<kind, fd, live, stage, direct, link, peer, sent, got, taken>>
  BY DEF RemoteSendConnectedLocal, network
<1>3. reading = {} /\ writing = {"remote"}
  BY <1>1 DEF IInv, Connecting
<1>4. /\ taken \in [Side -> Nat] /\ put \in [Side -> Nat] /\ len \in [Side -> Nat] /\ got \in [Side -> Nat]
      /\ \A r \in Side : got[r] <= put[r] /\ put[r] <= got[r] + Room
  BY DEF IInv, TypeOK, Held
<1>5. k \in 0..len["remote"] /\ put["remote"] + k <= got["remote"] + Room
  BY <1>4, AcceptedFits
<1>6. put["client"] = 0 /\ len["client"] = 0
  BY <1>1, <1>4 DEF IInv, Staged, Kept
<1> HIDE DEF k
<1>7. /\ put' \in [Side -> Nat] /\ len' \in [Side -> Nat] /\ put'["client"] = 0 /\ len'["client"] = 0
      /\ put'["remote"] = put["remote"] + k /\ len'["remote"] = len["remote"] - k
      /\ put' = [put EXCEPT !["remote"] = put'["remote"]]
  BY <1>2, <1>4, <1>5, <1>6
<1>8. reading' \in SUBSET Side /\ writing' \in SUBSET Side
  BY <1>2, <1>3
<1>9. TypeOK'
  BY <1>1, <1>2, <1>7, <1>8 DEF IInv, TypeOK
<1>10. Staged' /\ Opened' /\ Freed' /\ Alone' /\ Connecting'
  BY <1>1, <1>2 DEF IInv, Staged, Opened, Freed, Alone, Connecting
<1>11. Connected'
  <2>1. \A r \in Side : (r \in reading' <=> Other[r] \notin writing') /\ (r \in writing' <=> len'[r] > 0)
    BY <1>2, <1>3, <1>4, <1>5, <1>7
  <2>2. QED
    BY <1>1, <1>2, <2>1 DEF Connected
<1>12. Kept' /\ Held'
  BY <1>1, <1>2, <1>4, <1>5, <1>6, <1>7 DEF IInv, Kept, Held, Due
<1>13. QED
  BY <1>2, <1>4, <1>5, <1>7, <1>9, <1>10, <1>11, <1>12 DEF IInv

LEMMA ConnectedTunnelStep ==
    ASSUME IInv, RemoteSendConnectedTunnel
    PROVE  /\ IInv' /\ kind = "tunnel" /\ ~connected /\ connected'
           /\ put["remote"] = 0 /\ put' = [put EXCEPT !["remote"] = 1]
           /\ UNCHANGED <<kind, fd, live, stage, direct, taken>>
<1>1. live = Side /\ stage = 5 /\ ~connected /\ kind = "tunnel" /\ connected' = TRUE /\ timer' = {}
  BY WriterOfRemote DEF RemoteSendConnectedTunnel
<1>2. /\ reading = {} /\ writing = {"remote"} /\ put["remote"] = 0 /\ len["remote"] = 0
      /\ taken["remote"] = 0
  BY <1>1 DEF IInv, Staged, Connecting
<1>3. /\ taken \in [Side -> Nat] /\ put \in [Side -> Nat] /\ len \in [Side -> Nat] /\ got \in [Side -> Nat]
      /\ \A r \in Side : got[r] <= put[r] /\ put[r] <= got[r] + Room
  BY DEF IInv, TypeOK, Held
<1>4. put["client"] = 0 /\ len["client"] = 0
  BY <1>2, <1>3 DEF IInv, Kept
<1>5. /\ put' = [put EXCEPT !["remote"] = 1] /\ reading' = Side /\ writing' = {}
      /\ UNCHANGED <<kind, fd, live, stage, direct, len, link, peer, sent, got, taken>>
  BY <1>2, <1>3 DEF RemoteSendConnectedTunnel, network
<1>6. put' \in [Side -> Nat] /\ put'["remote"] = 1 /\ put'["client"] = 0
  BY <1>3, <1>4, <1>5
<1>7. TypeOK'
  BY <1>1, <1>5, <1>6 DEF IInv, TypeOK
<1>8. Staged' /\ Opened' /\ Freed' /\ Alone' /\ Connecting'
  BY <1>1, <1>5 DEF IInv, Staged, Opened, Freed, Alone, Connecting
<1>9. Connected'
  BY <1>1, <1>2, <1>4, <1>5 DEF Connected
<1>10. Kept' /\ Held'
  <2>1. Due' = Due + 1
    BY <1>1, <1>3, <1>5 DEF Due
  <2>2. Due = 0
    BY <1>2 DEF IInv, Kept
  <2>3. QED
    BY <1>2, <1>3, <1>4, <1>5, <1>6, <2>1, <2>2 DEF IInv, Kept, Held
<1>11. QED
  BY <1>1, <1>2, <1>5, <1>7, <1>8, <1>9, <1>10 DEF IInv

(* What the peers and the network do.                                      *)
LEMMA NetworkStep ==
    ASSUME IInv, Connect \/ \E s \in Side : Send(s) \/ TakeUnit(s) \/ Leave(s)
    PROVE  IInv' /\ UNCHANGED <<session, taken, put>>
<1>1. UNCHANGED <<session, taken, put>>
  BY DEF Connect, Send, TakeUnit, Leave
<1>2. UNCHANGED <<kind, fd, live, stage, direct, connected, len, reading, writing, timer, taken, put>>
  BY <1>1 DEF session
<1>3. TypeOK' /\ Held'
  <2>1. CASE Connect
    BY <1>2, <2>1 DEF IInv, TypeOK, Held, Connect
  <2>2. ASSUME NEW s \in Side, Send(s) PROVE TypeOK' /\ Held'
    BY <1>2, <2>2 DEF IInv, TypeOK, Held, Send
  <2>3. ASSUME NEW s \in Side, TakeUnit(s) PROVE TypeOK' /\ Held'
    <3>1. /\ got' = [got EXCEPT ![s] = @ + 1] /\ got[s] < put[s] /\ UNCHANGED <<link, peer, sent>>
      BY <2>3 DEF TakeUnit
    <3>2. got \in [Side -> Nat] /\ put \in [Side -> Nat]
      BY DEF IInv, TypeOK
    <3>3. got' \in [Side -> Nat] /\ TypeOK'
      BY <1>2, <3>1, <3>2 DEF IInv, TypeOK
    <3>4. QED
      BY <1>2, <3>1, <3>2, <3>3 DEF IInv, Held
  <2>4. ASSUME NEW s \in Side, Leave(s) PROVE TypeOK' /\ Held'
    BY <1>2, <2>4 DEF IInv, TypeOK, Held, Leave
  <2>5. QED
    BY <2>1, <2>2, <2>3, <2>4
<1>4. Staged' /\ Opened' /\ Freed' /\ Alone' /\ Connecting' /\ Connected' /\ Kept'
  BY <1>2 DEF IInv, Staged, Opened, Freed, Alone, Connecting, Connected, Kept, Due
<1>5. QED
  BY <1>1, <1>3, <1>4 DEF IInv

(* What a step does to the two streams: one direction takes or gives, the  *)
(* other rests; or both rest, and what is over stays over.                 *)
UpRests == UNCHANGED <<Due, put["remote"], Over>>
DownRests == UNCHANGED <<taken["remote"], put["client"], Over>>
Streams ==
    \/ Due' = Due /\ taken'["remote"] = taken["remote"] /\ put' = put /\ (Over => Over')
    \/ (Up!Take \/ Up!Give) /\ DownRests
    \/ (Down!Take \/ Down!Give) /\ UpRests

LEMMA DueType ==
    ASSUME IInv
    PROVE  Due \in Nat /\ put \in [Side -> Nat] /\ len \in [Side -> Nat] /\ taken \in [Side -> Nat]
BY DEF IInv, TypeOK, Kept

LEMMA LiveIsNotOver == ASSUME IInv, "client" \in live PROVE ~Over
BY DEF IInv, Opened, Over

LEMMA CloseStreams == ASSUME Close PROVE Streams
BY DEF Close, Free, Streams, Due, Over

LEMMA HandshakeStreams ==
    ASSUME IInv, IInv', ServerRecvGreeting \/ \E n \in 1..sent["client"] : ServerRecvRequest(n)
    PROVE  Streams
<1>1. live = {"client"} /\ kind = "local" /\ stage < 5 /\ Due = 0
  BY ReaderOfClient DEF ServerRecvGreeting, ServerRecvRequest, Due
<1>2. /\ put' = put /\ kind' = kind /\ taken'["remote"] = taken["remote"] /\ "client" \in live'
  BY <1>1, DueType DEF ServerRecvGreeting, ServerRecvRequest, network
<1>3. ~Over /\ ~Over' /\ Over' = Over
  <2>1. ~Over
    BY <1>1, LiveIsNotOver
  <2>2. ~Over'
    BY <1>2 DEF IInv, Opened, Over
  <2>3. QED
    BY <2>1, <2>2 DEF Over
<1>4. put["remote"] = 0 /\ Due' \in Nat
  <2>1. put["remote"] = 0
    BY <1>1, DueType DEF IInv, Kept
  <2>2. Due' \in Nat
    BY DEF IInv, TypeOK, Kept
  <2>3. QED
    BY <2>1, <2>2
<1>5. CASE Due' = 0
  BY <1>1, <1>2, <1>3, <1>5 DEF Streams
<1>6. CASE Due' > 0
  <2>1. Up!Take
    BY <1>1, <1>2, <1>3, <1>4, <1>6 DEF Up!Take
  <2>2. DownRests
    BY <1>2, <1>3 DEF DownRests
  <2>3. QED
    BY <2>1, <2>2 DEF Streams
<1>7. QED
  BY <1>4, <1>5, <1>6

LEMMA ForwardStreams ==
    ASSUME IInv, NEW s \in Side, NEW n \in Nat \ {0},
           live = Side, connected, stage = 5, Other[s] \in reading, Forward(s, n),
           taken' = [taken EXCEPT ![Other[s]] = @ + n],
           UNCHANGED <<kind, fd, live, stage, direct, connected, timer, link, peer, sent, got>>
    PROVE  Streams
<1>1. put'[s] \in put[s]..put[s] + n /\ put' = [put EXCEPT ![s] = put'[s]]
  BY ForwardStep, DueType DEF Forward
<1>2. ~Over /\ ~Over' /\ Over' = Over
  BY LiveIsNotOver DEF Over
<1>3. len[s] = 0
  BY DueType DEF IInv, Connected
<1>4. kind \in {"local", "tunnel"}
  BY DEF IInv, TypeOK
<1>5. CASE s = "remote"
  <2>1. Due' = Due + n /\ put["remote"] = Due
    BY <1>3, <1>4, <1>5, DueType DEF IInv, Kept, Due
  <2>2. Up!Take
    BY <1>1, <1>2, <1>5, <2>1, DueType DEF Up!Take
  <2>3. DownRests
    BY <1>1, <1>2, <1>5, DueType DEF DownRests
  <2>4. QED
    BY <2>2, <2>3 DEF Streams
<1>6. CASE s = "client"
  <2>1. put["client"] = taken["remote"] /\ taken'["remote"] = taken["remote"] + n
    BY <1>3, <1>6, DueType DEF IInv, Kept
  <2>2. Down!Take
    BY <1>1, <1>2, <1>6, <2>1, DueType DEF Down!Take
  <2>3. UpRests
    BY <1>1, <1>2, <1>6, DueType DEF UpRests, Due
  <2>4. QED
    BY <2>2, <2>3 DEF Streams
<1>7. QED
  BY <1>5, <1>6

LEMMA FlushStreams ==
    ASSUME IInv, NEW s \in Side, live = Side, connected, stage = 5,
           s \in writing, got[s] + Room > put[s], Flush(s),
           UNCHANGED <<kind, fd, live, stage, direct, connected, timer, link, peer, sent, got, taken>>
    PROVE  Streams
<1>1. put'[s] \in put[s] + 1..put[s] + len[s] /\ put' = [put EXCEPT ![s] = put'[s]]
  BY FlushStep, DueType DEF Flush
<1>2. ~Over /\ ~Over' /\ Over' = Over
  BY LiveIsNotOver DEF Over
<1>3. Due' = Due
  BY DEF Due
<1>4. CASE s = "remote"
  <2>1. Up!Give
    BY <1>1, <1>2, <1>3, <1>4, DueType DEF Up!Give, IInv, Kept
  <2>2. DownRests
    BY <1>1, <1>2, <1>4, DueType DEF DownRests
  <2>3. QED
    BY <2>1, <2>2 DEF Streams
<1>5. CASE s = "client"
  <2>1. Down!Give
    BY <1>1, <1>2, <1>5, DueType DEF Down!Give, IInv, Kept
  <2>2. UpRests
    BY <1>1, <1>2, <1>3, <1>5, DueType DEF UpRests
  <2>3. QED
    BY <2>1, <2>2 DEF Streams
<1>6. QED
  BY <1>4, <1>5

LEMMA ConnectedStreams ==
    ASSUME IInv, RemoteSendConnectedLocal \/ RemoteSendConnectedTunnel
    PROVE  IInv' /\ Streams
<1>1. live = Side /\ stage = 5
  BY WriterOfRemote DEF RemoteSendConnectedLocal, RemoteSendConnectedTunnel
<1>2. ~Over
  BY <1>1, LiveIsNotOver
<1>3. CASE RemoteSendConnectedLocal
  <2>1. /\ IInv' /\ put' = [put EXCEPT !["remote"] = put'["remote"]]
        /\ put'["remote"] \in put["remote"]..put["remote"] + len["remote"]
        /\ UNCHANGED <<kind, fd, live, stage, direct, taken>> /\ kind = "local"
    BY <1>3, ConnectedLocalStep DEF RemoteSendConnectedLocal
  <2>2. Due' = Due /\ Over' = Over /\ ~Over'
    BY <1>1, <1>2, <2>1 DEF Due, Over
  <2>3. CASE put'["remote"] = put["remote"]
    BY <2>1, <2>2, <2>3, DueType DEF Streams
  <2>4. CASE put'["remote"] > put["remote"]
    <3>1. Up!Give
      BY <1>2, <2>1, <2>2, <2>4, DueType DEF Up!Give, IInv, Kept
    <3>2. DownRests
      BY <2>1, <2>2, DueType DEF DownRests
    <3>3. QED
      BY <2>1, <3>1, <3>2 DEF Streams
  <2>5. QED
    BY <2>1, <2>3, <2>4, DueType
<1>4. CASE RemoteSendConnectedTunnel
  <2>1. /\ IInv' /\ kind = "tunnel" /\ ~connected /\ connected'
        /\ put["remote"] = 0 /\ put' = [put EXCEPT !["remote"] = 1]
        /\ UNCHANGED <<kind, fd, live, stage, direct, taken>>
    BY <1>4, ConnectedTunnelStep
  <2>2. len["remote"] = 0 /\ Over' = Over /\ ~Over'
    BY <1>1, <1>2, <2>1 DEF IInv, Connecting, Over
  <2>3. Due = 0 /\ Due' = 1
    <3>1. Due = 0
      BY <2>1, <2>2 DEF IInv, Kept
    <3>2. Due = taken["client"] + 0 /\ Due' = taken["client"] + 1
      BY <2>1, DueType DEF Due
    <3>3. QED
      BY <3>1, <3>2, DueType
  <2>4. Up!Take
    BY <1>2, <2>1, <2>2, <2>3, DueType DEF Up!Take
  <2>5. DownRests
    BY <2>1, <2>2, DueType DEF DownRests
  <2>6. QED
    BY <2>1, <2>4, <2>5 DEF Streams
<1>5. QED
  BY <1>3, <1>4

LEMMA ServerRecvRelaysStep ==
    ASSUME IInv, NEW n \in 1..sent["client"], ServerRecvRelays(n)
    PROVE  IInv' /\ Streams
<1>1. live = Side /\ connected /\ stage = 5 /\ "client" \in reading /\ Other["remote"] = "client"
  BY ReaderOfClient DEF ServerRecvRelays
<1>2. CASE Close
  BY <1>2, CloseStep, CloseStreams
<1>3. CASE ~Close
  <2>1. /\ taken' = [taken EXCEPT ![Other["remote"]] = @ + n] /\ Forward("remote", n)
        /\ UNCHANGED <<kind, fd, live, stage, direct, connected, timer, link, peer, sent, got>>
    BY <1>1, <1>3 DEF ServerRecvRelays, network
  <2>2. n \in Nat \ {0}
    BY DEF IInv, TypeOK
  <2>3. Moves
    BY <1>1, <2>1, <2>2, ForwardStep
  <2>4. Streams
    BY <1>1, <2>1, <2>2, ForwardStreams
  <2>5. QED
    BY <2>3, <2>4, MovesStep
<1>4. QED
  BY <1>2, <1>3

LEMMA RemoteRecvRelaysStep ==
    ASSUME IInv, NEW n \in 1..sent["remote"], RemoteRecvRelays(n)
    PROVE  IInv' /\ Streams
<1>1. live = Side /\ connected /\ stage = 5 /\ "remote" \in reading /\ Other["client"] = "remote"
  BY ReaderOfRemote DEF RemoteRecvRelays
<1>2. CASE Close
  BY <1>2, CloseStep, CloseStreams
<1>3. CASE ~Close
  <2>1. /\ taken' = [taken EXCEPT ![Other["client"]] = @ + n] /\ Forward("client", n)
        /\ timer' = IF kind = "local" THEN timer \cup {"idle"} ELSE timer
        /\ UNCHANGED <<kind, fd, live, stage, direct, connected, link, peer, sent, got>>
    BY <1>1, <1>3 DEF RemoteRecvRelays, network
  <2>2. timer' = timer
    BY <1>1, <2>1 DEF IInv, Connected
  <2>3. n \in Nat \ {0}
    BY DEF IInv, TypeOK
  <2>4. Moves
    BY <1>1, <2>1, <2>2, <2>3, ForwardStep
  <2>5. Streams
    BY <1>1, <2>1, <2>2, <2>3, ForwardStreams
  <2>6. QED
    BY <2>4, <2>5, MovesStep
<1>4. QED
  BY <1>2, <1>3

(* The writers, of either side.                                            *)
LEMMA WriterStep ==
    ASSUME IInv, ServerSend \/ RemoteSendFlush
    PROVE  IInv' /\ Streams
<1>1. CASE Close
  BY <1>1, CloseStep, CloseStreams
<1>2. ASSUME ~Close PROVE IInv' /\ Streams
  <2>1. PICK s \in Side :
            /\ s \in writing /\ live = Side /\ connected /\ stage = 5
            /\ Writable(s) /\ peer[s] # "gone" /\ Flush(s)
            /\ UNCHANGED <<kind, fd, live, stage, direct, connected, timer, network, taken>>
    <3>1. CASE ServerSend
      BY <1>2, <3>1, WriterOfClient DEF ServerSend
    <3>2. CASE RemoteSendFlush
      BY <1>2, <3>2, WriterOfRemote DEF RemoteSendFlush
    <3>3. QED
      BY <3>1, <3>2
  <2>2. got[s] + Room > put[s]
    BY <2>1 DEF Writable, IInv, TypeOK
  <2>3. UNCHANGED <<kind, fd, live, stage, direct, connected, timer, link, peer, sent, got, taken>>
    BY <2>1 DEF network
  <2>4. Moves
    BY <2>1, <2>2, <2>3, FlushStep
  <2>5. Streams
    BY <2>1, <2>2, <2>3, FlushStreams
  <2>6. QED
    BY <2>4, <2>5, MovesStep
<1>3. QED
  BY <1>1, <1>2

LEMMA NextStep == IInv /\ [Next]_vars => IInv' /\ Streams
<1> SUFFICES ASSUME IInv, [Next]_vars PROVE IInv' /\ Streams
  OBVIOUS
<1>1. CASE AcceptLocal \/ AcceptTunnel
  <2>1. UNCHANGED <<kind, stage, direct, connected, taken, put>> /\ ~Over /\ ~Over'
    BY <1>1 DEF AcceptLocal, AcceptTunnel, Over, IInv, TypeOK
  <2>2. QED
    BY <1>1, <2>1, AcceptStep DEF Streams, Due
<1>2. CASE \/ ServerRecvEnds \/ ServerRecvRefused \/ RemoteRecvEnds \/ RemoteSendRefused
           \/ Terminate \/ \E t \in {"connect", "idle"} : Timeout(t)
  <2>1. Close
    BY <1>2 DEF ServerRecvEnds, ServerRecvRefused, RemoteRecvEnds, RemoteSendRefused, Terminate, Timeout
  <2>2. QED
    BY <2>1, CloseStep, CloseStreams
<1>3. CASE ServerRecvGreeting \/ \E n \in 1..sent["client"] : ServerRecvRequest(n)
  <2>1. IInv'
    BY <1>3, HandshakeStep
  <2>2. QED
    BY <1>3, <2>1, HandshakeStreams
<1>4. CASE \E n \in 1..sent["client"] : ServerRecvRelays(n)
  BY <1>4, ServerRecvRelaysStep
<1>5. CASE \E n \in 1..sent["remote"] : RemoteRecvRelays(n)
  BY <1>5, RemoteRecvRelaysStep
<1>6. CASE ServerSend \/ RemoteSendFlush
  BY <1>6, WriterStep
<1>7. CASE RemoteSendConnectedLocal \/ RemoteSendConnectedTunnel
  BY <1>7, ConnectedStreams
<1>8. CASE Connect \/ \E s \in Side : Send(s) \/ TakeUnit(s) \/ Leave(s)
  <2>1. IInv' /\ UNCHANGED <<session, taken, put>>
    BY <1>8, NetworkStep
  <2>2. QED
    BY <2>1 DEF session, Streams, Due, Over
<1>9. CASE UNCHANGED vars
  <2>1. UNCHANGED <<session, network, taken, put>>
    BY <1>9 DEF vars
  <2>2. Streams
    BY <2>1 DEF session, Streams, Due, Over
  <2>3. QED
    BY <2>1, <2>2 DEF session, network, IInv, TypeOK, Staged, Opened, Freed, Alone, Connecting,
                      Connected, Kept, Held, Due
<1>10. QED
  BY <1>1, <1>2, <1>3, <1>4, <1>5, <1>6, <1>7, <1>8, <1>9 DEF Next, Callback, ServerRecv, RemoteRecv, RemoteSend

THEOREM Invariance == Spec => []IInv
<1>1. IInv /\ [Next]_vars => IInv'
  BY NextStep
<1>2. QED
  BY <1>1, InitIInv, PTL DEF Spec

(* A callback of the event loop uses no struct that is freed: with a       *)
(* session go its watchers and its timers, and its descriptors are closed  *)
(* with it.                                                                *)
THEOREM NoWatcherOfTheFreed == Spec => []WatchedIsLive
<1>1. IInv => WatchedIsLive
  <2> SUFFICES ASSUME IInv PROVE WatchedIsLive
    OBVIOUS
  <2>1. reading \in SUBSET Side /\ writing \in SUBSET Side /\ live \in SUBSET Side
    BY DEF IInv, TypeOK
  <2>2. CASE "client" \notin live
    BY <2>2 DEF IInv, Freed, Opened, WatchedIsLive
  <2>3. CASE "client" \in live /\ "remote" \notin live
    BY <2>3 DEF IInv, Alone, Opened, WatchedIsLive
  <2>4. CASE "remote" \in live
    BY <2>1, <2>4 DEF IInv, Opened, WatchedIsLive
  <2>5. QED
    BY <2>2, <2>3, <2>4
<1>2. QED
  BY <1>1, Invariance, PTL

(* The reader of one side and the writer of the other exclude each other,  *)
(* so a buffer is never read into while it waits to be sent, and one of    *)
(* the two is always waited for.                                           *)
THEOREM OneWatcherEachWay == Spec => []TakesTurns
<1>1. IInv => TakesTurns
  BY DEF IInv, Connected, TakesTurns
<1>2. QED
  BY <1>1, Invariance, PTL

(* A session of ss-local that has its remote always has a timer.           *)
THEOREM NeverUntimed == Spec => []AlwaysTimed
<1>1. IInv => AlwaysTimed
  BY DEF IInv, Connecting, Connected, AlwaysTimed
<1>2. QED
  BY <1>1, Invariance, PTL

(* A session implements, in each direction, the relay that Pipe promises,  *)
(* as a session of the Kotlin program does.                                *)
THEOREM RelaysAsPipes == Spec => Pipes
<1>1. Init => Up!PipeInit /\ Down!PipeInit
  BY DEF Init, Up!PipeInit, Down!PipeInit, Due, Over
<1>2. IInv /\ [Next]_vars => [Up!PipeNext]_(Up!pipeVars) /\ [Down!PipeNext]_(Down!pipeVars)
  <2> SUFFICES ASSUME IInv, [Next]_vars
               PROVE  [Up!PipeNext]_(Up!pipeVars) /\ [Down!PipeNext]_(Down!pipeVars)
    OBVIOUS
  <2>1. Over \in BOOLEAN /\ Over' \in BOOLEAN
    BY DEF Over
  <2>2. Streams
    BY NextStep
  <2>3. CASE Due' = Due /\ taken'["remote"] = taken["remote"] /\ put' = put /\ (Over => Over')
    BY <2>1, <2>3, DueType
       DEF Up!PipeNext, Up!End, Up!pipeVars, Down!PipeNext, Down!End, Down!pipeVars
  <2>4. CASE (Up!Take \/ Up!Give) /\ DownRests
    BY <2>4 DEF Up!PipeNext, DownRests, Down!pipeVars
  <2>5. CASE (Down!Take \/ Down!Give) /\ UpRests
    BY <2>5 DEF Down!PipeNext, UpRests, Up!pipeVars
  <2>6. QED
    BY <2>2, <2>3, <2>4, <2>5 DEF Streams
<1>3. Spec => Up!PipeSpec
  BY <1>1, <1>2, Invariance, PTL DEF Spec, Up!PipeSpec
<1>4. Spec => Down!PipeSpec
  BY <1>1, <1>2, Invariance, PTL DEF Spec, Down!PipeSpec
<1>5. QED
  BY <1>3, <1>4 DEF Pipes
=============================================================================
