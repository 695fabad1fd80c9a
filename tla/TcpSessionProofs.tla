-------------------------- MODULE TcpSessionProofs --------------------------
(***************************************************************************)
(* For streams of any length, cut and delayed in any way: what the two     *)
(* threads of a session leave behind, and that they drop nothing.          *)
(***************************************************************************)
EXTENDS TcpSession, TLAPS

Shut == {"none", "closed"}

(* Until the other thread is started this one has the session to itself.   *)
Alone ==
    /\ pc["L"] \in {"auth", "cmd", "prepare", "connect", "execute"} => pc["R"] = "none"
    /\ pc["L"] = "first" /\ kind = "local" => pc["R"] = "none"
    /\ pc["L"] = "connect" => field["remote"]

(* What a thread in cleanSession has closed stays closed.                  *)
Cleaned ==
    \A t \in Thread :
        /\ pc[t] \in {"closeLocal", "nullRemote", "nullLocal", "ended"} => skt["remote"] \in Shut
        /\ pc[t] \in {"nullRemote", "nullLocal", "ended"} => skt["local"] \in Shut

(* Where a thread has nothing in hand, and where it has.                   *)
EmptyAt(l) == l \in {"none", "loop", "fetch", "read"}
FullAt(l) == l \in {"encode", "write"}
InHand ==
    \A t \in Thread :
        /\ EmptyAt(pc[t]) => put[To[t]] = taken[From[t]]
        /\ FullAt(pc[t]) => put[To[t]] < taken[From[t]]

IInv == TypeOK /\ Alone /\ Cleaned /\ ForgottenIsClosed /\ InHand

USE BoundsAssumption DEF Thread, Side, From, To

(* A connection that was just accepted.                                    *)
LEMMA InitIInv == Init => IInv
<1> SUFFICES ASSUME Init PROVE IInv
  OBVIOUS
<1>1. /\ pc["R"] = "none" /\ pc["L"] = IF kind = "tunnel" THEN "prepare" ELSE "auth"
      /\ pc \in [Thread -> Pc] /\ kind \in {"local", "tunnel"}
  BY DEF Init, Pc, Before
<1>2. TypeOK
  BY <1>1 DEF Init, TypeOK
<1>3. Alone /\ Cleaned /\ ForgottenIsClosed
  BY <1>1 DEF Init, Alone, Cleaned, ForgottenIsClosed
<1>4. InHand
  BY <1>1 DEF Init, InHand, EmptyAt, FullAt
<1>5. QED
  BY <1>2, <1>3, <1>4 DEF IInv

(* A thread that only moves on: sockets, fields and data stay.             *)
LEMMA MoveStep ==
    ASSUME IInv, NEW t \in Thread, NEW l \in Pc, Goto(t, l),
           UNCHANGED <<field, skt, taken, put>>, Same,
           t = "R" => pc["R"] # "none" /\ l \in Relaying \cup Cleaning,
           t = "L" /\ l \in {"auth", "cmd", "first", "prepare", "connect", "execute"} =>
                pc["R"] = "none",
           l \notin {"connect", "closeLocal", "nullRemote", "nullLocal", "ended"},
           EmptyAt(l) => EmptyAt(pc[t]),
           FullAt(l) => FullAt(pc[t])
    PROVE  IInv'
<1>1. pc' = [pc EXCEPT ![t] = l] /\ UNCHANGED <<kind, isRunning, peer, sent, got>>
  BY DEF Goto, Same, env
<1>2. TypeOK'
  BY <1>1 DEF IInv, TypeOK
<1>3. Alone'
  BY <1>1 DEF IInv, TypeOK, Alone, Relaying, Cleaning
<1>4. Cleaned'
  BY <1>1 DEF IInv, TypeOK, Cleaned
<1>5. ForgottenIsClosed'
  BY <1>1 DEF IInv, ForgottenIsClosed
<1>6. InHand'
  BY <1>1 DEF IInv, TypeOK, InHand, EmptyAt, FullAt
<1>7. QED
  BY <1>2, <1>3, <1>4, <1>5, <1>6 DEF IInv

(* A thread at work gives up and begins cleanSession.                      *)
LEMMA CleanStep ==
    ASSUME IInv, NEW t \in Thread, Clean(t), pc[t] # "none",
           UNCHANGED <<field, skt, taken, put>>, Same
    PROVE  IInv'
<1>1. Goto(t, "closeRemote") /\ "closeRemote" \in Pc \cap Cleaning
  BY DEF Clean, Pc, Cleaning
<1>2. ~EmptyAt("closeRemote") /\ ~FullAt("closeRemote")
  BY DEF EmptyAt, FullAt
<1>3. QED
  BY <1>1, <1>2, MoveStep

(* The SOCKS5 handshake.                                                   *)
LEMMA HandshakeStep == IInv /\ (Handshake \/ HandshakeFails) => IInv'
<1> SUFFICES ASSUME IInv, Handshake \/ HandshakeFails PROVE IInv'
  OBVIOUS
<1>1. /\ pc["L"] \in {"auth", "cmd"} /\ UNCHANGED <<field, skt, taken, put>> /\ Same
      /\ (\E l \in {"cmd", "first", "prepare"} : Goto("L", l)) \/ Clean("L")
  BY DEF Handshake, HandshakeFails
<1>2. CASE Clean("L")
  BY <1>1, <1>2, CleanStep
<1>3. ASSUME NEW l \in {"cmd", "first", "prepare"}, Goto("L", l) PROVE IInv'
  <2>1. l \in Pc /\ pc["R"] = "none"
    BY <1>1 DEF IInv, Alone, Pc, Before
  <2>2. ~EmptyAt(l) /\ ~FullAt(l)
    BY DEF EmptyAt, FullAt
  <2>3. QED
    BY <1>1, <1>3, <2>1, <2>2, MoveStep
<1>4. QED
  BY <1>1, <1>2, <1>3

(* The remote socket is made.                                              *)
LEMMA PrepareStep == IInv /\ Prepare => IInv'
<1> SUFFICES ASSUME IInv, Prepare PROVE IInv'
  OBVIOUS
<1>1. /\ pc["L"] = "prepare" /\ pc["R"] = "none" /\ pc \in [Thread -> Pc]
      /\ field \in [Side -> BOOLEAN] /\ skt \in [Side -> {"none", "bound", "open", "closed"}]
  BY DEF Prepare, At, IInv, Alone, TypeOK
<1>2. /\ field' = [field EXCEPT !["remote"] = TRUE]
      /\ skt' = [skt EXCEPT !["remote"] = "bound"]
      /\ UNCHANGED <<kind, isRunning, peer, streams>>
  BY DEF Prepare, Same, env, streams
<1>3. PICK l \in {"connect", "closeRemote", "left"} : pc' = [pc EXCEPT !["L"] = l]
  BY DEF Prepare, Goto, Clean
<1>4. l \in Pc /\ pc'["L"] = l /\ pc'["R"] = "none"
  BY <1>1, <1>3 DEF Pc, Cleaning, Before
<1>5. TypeOK'
  BY <1>1, <1>2, <1>3, <1>4 DEF IInv, TypeOK, streams
<1>6. Alone' /\ Cleaned' /\ ForgottenIsClosed'
  BY <1>1, <1>2, <1>4 DEF IInv, Alone, Cleaned, ForgottenIsClosed
<1>7. InHand'
  BY <1>1, <1>2, <1>4 DEF IInv, InHand, EmptyAt, FullAt, streams
<1>8. QED
  BY <1>5, <1>6, <1>7 DEF IInv

(* It is connected, or not.                                                *)
LEMMA ConnectStep == IInv /\ Connect => IInv'
<1> SUFFICES ASSUME IInv, Connect PROVE IInv'
  OBVIOUS
<1>1. /\ pc["L"] = "connect" /\ pc["R"] = "none" /\ pc \in [Thread -> Pc]
      /\ skt \in [Side -> {"none", "bound", "open", "closed"}]
      /\ UNCHANGED <<field, taken, put>> /\ Same
  BY DEF Connect, At, IInv, Alone, TypeOK
<1>2. CASE Clean("L") /\ UNCHANGED skt
  BY <1>1, <1>2, CleanStep
<1>3. CASE Goto("L", "execute") /\ skt' = [skt EXCEPT !["remote"] = "open"]
  <2>1. /\ field["remote"]
        /\ UNCHANGED <<kind, isRunning, peer, streams>>
    BY <1>1 DEF IInv, Alone, Same, env, streams
  <2>2. pc'["L"] = "execute" /\ pc'["R"] = "none" /\ "execute" \in Pc
    BY <1>1, <1>3 DEF Goto, Pc, Before
  <2>3. TypeOK'
    BY <1>1, <1>3, <2>1, <2>2 DEF IInv, TypeOK, Goto, streams
  <2>4. Alone' /\ Cleaned'
    BY <1>1, <1>3, <2>2 DEF IInv, Alone, Cleaned
  <2>5. ForgottenIsClosed'
    BY <1>1, <1>3, <2>1 DEF IInv, ForgottenIsClosed
  <2>6. InHand'
    BY <1>1, <2>1, <2>2 DEF IInv, InHand, EmptyAt, FullAt, streams
  <2>7. QED
    BY <2>3, <2>4, <2>5, <2>6 DEF IInv
<1>4. QED
  BY <1>2, <1>3 DEF Connect

(* The other thread begins.                                                *)
LEMMA ExecuteStep == IInv /\ Execute => IInv'
<1> SUFFICES ASSUME IInv, Execute PROVE IInv'
  OBVIOUS
<1> DEFINE l == CASE kind = "tunnel" -> "first"
                  [] put["remote"] < taken["local"] -> "encode"
                  [] OTHER -> "loop"
<1>1. /\ pc["L"] = "execute" /\ pc["R"] = "none" /\ pc \in [Thread -> Pc]
      /\ UNCHANGED <<kind, isRunning, peer, field, skt, streams>>
  BY DEF Execute, At, IInv, Alone, TypeOK, Same, env, streams
<1>2. /\ pc'["L"] = l /\ pc'["R"] = "loop" /\ pc' \in [Thread -> Pc]
      /\ kind \in {"local", "tunnel"}
  BY DEF Execute, IInv, TypeOK, Pc, Relaying, Before
<1>3. TypeOK'
  BY <1>1, <1>2 DEF IInv, TypeOK, streams, Relaying
<1>4. Alone' /\ Cleaned' /\ ForgottenIsClosed'
  BY <1>1, <1>2 DEF IInv, Alone, Cleaned, ForgottenIsClosed
<1>5. InHand'
  <2>1. /\ put["remote"] \in Nat /\ taken["local"] \in Nat /\ put["remote"] <= taken["local"]
        /\ put["local"] = taken["remote"]
    BY <1>1 DEF IInv, TypeOK, InHand, EmptyAt
  <2>2. /\ EmptyAt(l) => put["remote"] = taken["local"]
        /\ FullAt(l) => put["remote"] < taken["local"]
    BY <2>1 DEF EmptyAt, FullAt
  <2>3. ~FullAt("loop") /\ UNCHANGED <<taken, put>>
    BY <1>1 DEF FullAt, streams
  <2> HIDE DEF l
  <2>4. QED
    BY <1>2, <2>1, <2>2, <2>3 DEF InHand
<1>6. QED
  BY <1>3, <1>4, <1>5 DEF IInv

(* A thread reads what its peer has sent so far, or a part of it.          *)
LEMMA TakenStep ==
    ASSUME IInv, NEW t \in Thread, NEW l \in {"prepare", "encode"}, Goto(t, l),
           pc[t] \in {"first", "read"}, l = "prepare" => t = "L" /\ pc[t] = "first" /\ kind = "local",
           NEW n \in taken[From[t]] + 1 .. sent[From[t]],
           taken' = [taken EXCEPT ![From[t]] = n],
           UNCHANGED <<field, skt, put>>, Same
    PROVE  IInv'
<1>1. /\ pc' = [pc EXCEPT ![t] = l] /\ UNCHANGED <<kind, isRunning, peer, sent, got>>
      /\ l \in Pc /\ (l = "encode" => l \in Relaying)
  BY DEF Goto, Same, env, Pc, Relaying, Before
<1>2. /\ taken \in [Side -> Nat] /\ sent \in [Side -> Nat] /\ put \in [Side -> Nat]
      /\ put[To[t]] <= taken[From[t]] /\ pc \in [Thread -> Pc]
  BY DEF IInv, TypeOK
<1>3. n \in Nat /\ n <= sent[From[t]] /\ put[To[t]] < n
  BY <1>2
<1>4. TypeOK'
  <2>1. pc' \in [Thread -> Pc] /\ pc'["R"] \in Relaying \cup Cleaning \cup {"none", "ended"}
    BY <1>1, <1>2 DEF IInv, TypeOK
  <2>2. taken' \in [Side -> Nat]
    BY <1>2, <1>3
  <2>3. \A u \in Thread : put[To[u]] <= taken'[From[u]] /\ taken'[From[u]] <= sent[From[u]]
    BY <1>2, <1>3 DEF IInv, TypeOK
  <2>4. QED
    BY <1>1, <2>1, <2>2, <2>3 DEF IInv, TypeOK
<1>5. Alone' /\ Cleaned' /\ ForgottenIsClosed'
  BY <1>1, <1>2 DEF IInv, Alone, Cleaned, ForgottenIsClosed
<1>6. InHand'
  BY <1>1, <1>2, <1>3 DEF IInv, InHand, EmptyAt, FullAt
<1>7. QED
  BY <1>4, <1>5, <1>6 DEF IInv

(* The first read.                                                         *)
LEMMA FirstStep == IInv /\ First => IInv'
<1> SUFFICES ASSUME IInv, First PROVE IInv'
  OBVIOUS
<1>1. /\ pc["L"] = "first" /\ UNCHANGED <<field, skt, put>> /\ Same
      /\ kind \in {"local", "tunnel"}
  BY DEF First, At, IInv, TypeOK
<1>2. CASE Clean("L") /\ UNCHANGED taken
  BY <1>1, <1>2, CleanStep
<1>3. CASE Goto("L", "left") /\ UNCHANGED taken
  <2>1. "left" \in Pc /\ ~EmptyAt("left") /\ ~FullAt("left")
    BY DEF Pc, EmptyAt, FullAt
  <2>2. QED
    BY <1>1, <1>3, <2>1, MoveStep
<1>4. ASSUME NEW n \in taken["local"] + 1 .. sent["local"],
             taken' = [taken EXCEPT !["local"] = n],
             \/ Goto("L", IF kind = "local" THEN "prepare" ELSE "encode")
             \/ kind = "local" /\ Clean("L")
      PROVE  IInv'
  <2>1. CASE kind = "local" /\ Goto("L", "prepare")
    BY <1>1, <1>4, <2>1, TakenStep
  <2>2. CASE kind # "local" /\ Goto("L", "encode")
    BY <1>1, <1>4, <2>2, TakenStep
  <2>3. CASE kind = "local" /\ Clean("L")
    <3>1. /\ pc' = [pc EXCEPT !["L"] = "closeRemote"] /\ "closeRemote" \in Pc
          /\ UNCHANGED <<kind, isRunning, peer, sent, got>>
      BY <1>1, <2>3 DEF Clean, Goto, Same, env, Pc, Cleaning
    <3>2. /\ taken \in [Side -> Nat] /\ sent \in [Side -> Nat] /\ put \in [Side -> Nat]
          /\ put["remote"] <= taken["local"] /\ pc \in [Thread -> Pc]
      BY DEF IInv, TypeOK
    <3>3. n \in Nat /\ n <= sent["local"] /\ put["remote"] <= n
      BY <1>4, <3>2
    <3>4. TypeOK'
      BY <1>1, <1>4, <3>1, <3>2, <3>3 DEF IInv, TypeOK
    <3>5. Alone' /\ Cleaned' /\ ForgottenIsClosed'
      BY <1>1, <3>1, <3>2 DEF IInv, Alone, Cleaned, ForgottenIsClosed
    <3>6. InHand'
      BY <1>1, <1>4, <3>1, <3>2 DEF IInv, InHand, EmptyAt, FullAt
    <3>7. QED
      BY <3>4, <3>5, <3>6 DEF IInv
  <2>4. QED
    BY <1>4, <2>1, <2>2, <2>3
<1>5. QED
  BY <1>2, <1>3, <1>4 DEF First

(* A round of a loop, up to what is written.                               *)
LEMMA LoopStep ==
    ASSUME IInv, NEW t \in Thread,
           Check(t) \/ Fetch(t) \/ Read(t) \/ Timeout(t) \/ Encode(t)
    PROVE  IInv'
<1> DEFINE Idle == UNCHANGED <<field, skt, taken, put>> /\ Same
<1>1. pc["R"] \in Relaying \cup Cleaning \cup {"none", "ended"}
  BY DEF IInv, TypeOK
<1>2. pc[t] \in Relaying \cup {"first"} /\ pc[t] # "none"
  BY DEF Check, Fetch, Read, Timeout, Encode, At, Relaying
<1>3. CASE Clean(t) /\ Idle
  BY <1>2, <1>3, CleanStep
<1>4. /\ {"loop", "fetch", "read", "encode", "write"} \subseteq Relaying /\ Relaying \subseteq Pc
      /\ EmptyAt("loop") /\ EmptyAt("fetch") /\ ~FullAt("fetch") /\ ~FullAt("read")
      /\ FullAt("encode") /\ ~EmptyAt("write")
  BY DEF Relaying, Pc, EmptyAt, FullAt
<1>5. CASE Check(t)
  <2>1. pc[t] = "loop" /\ Idle /\ (Goto(t, "fetch") \/ Clean(t))
    BY <1>5 DEF Check, At
  <2>2. CASE Goto(t, "fetch")
    BY <1>2, <1>4, <2>1, <2>2, MoveStep
  <2>3. QED
    BY <1>3, <2>1, <2>2
<1>6. CASE Fetch(t)
  <2>1. pc[t] = "fetch" /\ Idle /\ (Goto(t, "read") \/ Clean(t))
    BY <1>6 DEF Fetch, At
  <2>2. CASE Goto(t, "read")
    BY <1>2, <1>4, <2>1, <2>2, MoveStep
  <2>3. QED
    BY <1>3, <2>1, <2>2
<1>7. CASE Encode(t)
  <2>1. pc[t] = "encode" /\ Idle /\ (Goto(t, "write") \/ Clean(t))
    BY <1>7 DEF Encode, At
  <2>2. CASE Goto(t, "write")
    BY <1>2, <1>4, <2>1, <2>2, MoveStep
  <2>3. QED
    BY <1>3, <2>1, <2>2
<1>8. CASE Timeout(t)
  BY <1>3, <1>8 DEF Timeout
<1>9. CASE Read(t)
  <2>1. ASSUME NEW n \in taken[From[t]] + 1 .. sent[From[t]],
               taken' = [taken EXCEPT ![From[t]] = n], Goto(t, "encode"), pc[t] = "read",
               UNCHANGED <<field, skt, put>>, Same
        PROVE  IInv'
    BY <2>1, TakenStep
  <2>2. QED
    BY <1>3, <1>9, <2>1 DEF Read, At
<1>10. QED
  BY <1>5, <1>6, <1>7, <1>8, <1>9

(* A unit is written.                                                      *)
LEMMA WriteStep ==
    ASSUME IInv, NEW t \in Thread, Write(t)
    PROVE  IInv'
<1> DEFINE l == IF put'[To[t]] = taken[From[t]] THEN "loop" ELSE "write"
<1>1. /\ pc[t] = "write" /\ UNCHANGED <<field, skt, taken>> /\ Same
      /\ UNCHANGED <<kind, isRunning, peer, sent, got>>
  BY DEF Write, At, Same, env
<1>2. CASE Clean(t) /\ UNCHANGED put
  BY <1>1, <1>2, CleanStep
<1>3. CASE /\ put[To[t]] < got[To[t]] + Room
           /\ put' = [put EXCEPT ![To[t]] = @ + 1] /\ Goto(t, l)
  <2>1. /\ taken \in [Side -> Nat] /\ sent \in [Side -> Nat] /\ put \in [Side -> Nat]
        /\ got \in [Side -> Nat] /\ pc \in [Thread -> Pc]
        /\ put[To[t]] < taken[From[t]] /\ got[To[t]] <= put[To[t]]
    BY <1>1 DEF IInv, TypeOK, InHand, FullAt
  <2>2. put'[To[t]] = put[To[t]] + 1 /\ put' \in [Side -> Nat] /\ put'[To[t]] <= taken[From[t]]
    BY <1>3, <2>1
  <2>3. /\ pc' = [pc EXCEPT ![t] = l] /\ l \in Pc /\ l \in Relaying /\ l \in {"loop", "write"}
        /\ l = "loop" => put'[To[t]] = taken[From[t]]
        /\ l = "write" => put'[To[t]] < taken[From[t]]
    BY <1>3, <2>1, <2>2 DEF Goto, Pc, Relaying
  <2> HIDE DEF l
  <2>4. TypeOK'
    <3>1. pc' \in [Thread -> Pc] /\ pc'["R"] \in Relaying \cup Cleaning \cup {"none", "ended"}
      BY <2>1, <2>3 DEF IInv, TypeOK
    <3>2. \A u \in Thread : put'[To[u]] <= taken[From[u]] /\ taken[From[u]] <= sent[From[u]]
      BY <1>3, <2>1, <2>2 DEF IInv, TypeOK
    <3>3. \A s \in Side : got[s] <= put'[s] /\ put'[s] <= got[s] + Room
      BY <1>3, <2>1, <2>2 DEF IInv, TypeOK
    <3>4. QED
      BY <1>1, <2>2, <3>1, <3>2, <3>3 DEF IInv, TypeOK
  <2>5. Alone' /\ Cleaned' /\ ForgottenIsClosed'
    BY <1>1, <2>1, <2>3 DEF IInv, Alone, Cleaned, ForgottenIsClosed
  <2>6. InHand'
    BY <1>1, <1>3, <2>1, <2>2, <2>3 DEF IInv, InHand, EmptyAt, FullAt
  <2>7. QED
    BY <2>4, <2>5, <2>6 DEF IInv
<1>4. QED
  BY <1>2, <1>3 DEF Write

(* cleanSession closes a socket.                                           *)
LEMMA CloseStep ==
    ASSUME IInv, NEW t \in Thread, NEW l \in Cleaning, NEW s \in Side, NEW then \in Cleaning,
           Close(t, l, s, then),
           \/ l = "closeRemote" /\ s = "remote" /\ then = "closeLocal"
           \/ l = "closeLocal" /\ s = "local" /\ then = "nullRemote"
    PROVE  IInv'
<1>1. /\ pc[t] = l /\ pc' = [pc EXCEPT ![t] = then] /\ pc \in [Thread -> Pc] /\ then \in Pc
      /\ skt' = [skt EXCEPT ![s] = IF field[s] THEN "closed" ELSE skt[s]]
      /\ skt \in [Side -> {"none", "bound", "open", "closed"}] /\ field \in [Side -> BOOLEAN]
      /\ UNCHANGED <<kind, isRunning, peer, field, streams>>
  BY DEF Close, At, Goto, Same, env, streams, IInv, TypeOK, Pc
<1>2. skt'[s] \in Shut /\ \A o \in Side : skt'[o] = skt[o] \/ (o = s /\ skt'[o] = "closed")
  BY <1>1 DEF IInv, ForgottenIsClosed, Shut
<1>3. TypeOK'
  BY <1>1 DEF IInv, TypeOK, streams
<1>4. Alone' /\ InHand'
  BY <1>1 DEF IInv, Alone, InHand, EmptyAt, FullAt, streams
<1>5. Cleaned' /\ ForgottenIsClosed'
  BY <1>1, <1>2 DEF IInv, Cleaned, ForgottenIsClosed, Shut
<1>6. QED
  BY <1>3, <1>4, <1>5 DEF IInv

(* cleanSession assigns null, when both sockets have been closed.          *)
LEMMA SetNullStep ==
    ASSUME IInv, NEW t \in Thread, NEW l \in Cleaning, NEW s \in Side, NEW then \in Pc,
           SetNull(t, l, s, then),
           \/ l = "nullRemote" /\ s = "remote" /\ then = "nullLocal"
           \/ l = "nullLocal" /\ s = "local" /\ then = "ended"
    PROVE  IInv'
<1>1. /\ pc[t] = l /\ pc' = [pc EXCEPT ![t] = then] /\ pc \in [Thread -> Pc]
      /\ field' = [field EXCEPT ![s] = FALSE] /\ field \in [Side -> BOOLEAN]
      /\ UNCHANGED <<kind, isRunning, peer, skt, streams>>
  BY DEF SetNull, At, Goto, Same, env, streams, IInv, TypeOK
<1>2. skt["remote"] \in Shut /\ skt["local"] \in Shut
  BY <1>1 DEF IInv, Cleaned
<1>3. TypeOK'
  BY <1>1 DEF IInv, TypeOK, streams, Cleaning
<1>4. Alone'
  BY <1>1 DEF IInv, Alone
<1>5. InHand'
  BY <1>1 DEF IInv, InHand, EmptyAt, FullAt, streams
<1>6. Cleaned' /\ ForgottenIsClosed'
  BY <1>1, <1>2 DEF IInv, Cleaned, ForgottenIsClosed, Shut
<1>7. QED
  BY <1>3, <1>4, <1>5, <1>6 DEF IInv

(* What the peers do, and the stop of the server.                          *)
LEMMA PeerStep ==
    IInv /\ ((\E s \in Side : Send(s) \/ Take(s) \/ Finish(s) \/ Reset(s)) \/ Stop) => IInv'
<1> SUFFICES ASSUME IInv, (\E s \in Side : Send(s) \/ Take(s) \/ Finish(s) \/ Reset(s)) \/ Stop
             PROVE  IInv'
  OBVIOUS
<1>1. UNCHANGED <<kind, pc, field, skt, taken, put>>
  BY DEF Send, Take, Finish, Reset, Stop, ours
<1>2. TypeOK'
  <2>1. ASSUME NEW s \in Side, Send(s) PROVE TypeOK'
    BY <1>1, <2>1 DEF IInv, TypeOK, Send
  <2>2. ASSUME NEW s \in Side, Take(s) PROVE TypeOK'
    <3>1. /\ got \in [Side -> Nat] /\ put \in [Side -> Nat] /\ got[s] < put[s]
          /\ got' = [got EXCEPT ![s] = @ + 1] /\ UNCHANGED <<isRunning, peer, sent>>
      BY <2>2 DEF IInv, TypeOK, Take
    <3>2. got' \in [Side -> Nat] /\ \A o \in Side : got'[o] <= put[o] /\ put[o] <= got'[o] + Room
      BY <3>1 DEF IInv, TypeOK
    <3>3. QED
      BY <1>1, <3>1, <3>2 DEF IInv, TypeOK
  <2>3. ASSUME NEW s \in Side, Finish(s) \/ Reset(s) PROVE TypeOK'
    BY <1>1, <2>3 DEF IInv, TypeOK, Finish, Reset
  <2>4. CASE Stop
    BY <1>1, <2>4 DEF IInv, TypeOK, Stop
  <2>5. QED
    BY <2>1, <2>2, <2>3, <2>4
<1>3. Alone' /\ Cleaned' /\ ForgottenIsClosed' /\ InHand'
  BY <1>1 DEF IInv, Alone, Cleaned, ForgottenIsClosed, InHand, EmptyAt, FullAt
<1>4. QED
  BY <1>2, <1>3 DEF IInv

(* Every step keeps the invariant.                                         *)
LEMMA NextIInv == IInv /\ [Next]_vars => IInv'
<1> SUFFICES ASSUME IInv, [Next]_vars PROVE IInv'
  OBVIOUS
<1>1. ASSUME NEW t \in Thread, Step(t) PROVE IInv'
  <2>1. CASE Begin \/ Handshake \/ HandshakeFails \/ Connect
    BY <2>1, HandshakeStep, PrepareStep, ConnectStep, ExecuteStep, FirstStep DEF Begin
  <2>2. CASE Check(t) \/ Fetch(t) \/ Read(t) \/ Timeout(t) \/ Encode(t)
    BY <2>2, LoopStep
  <2>3. CASE Write(t)
    BY <2>3, WriteStep
  <2>4. CASE CleanSession(t)
    <3> {"closeRemote", "closeLocal", "nullRemote", "nullLocal"} = Cleaning
      BY DEF Cleaning
    <3> Cleaning \subseteq Pc /\ "ended" \in Pc
      BY DEF Pc
    <3>1. CASE Close(t, "closeRemote", "remote", "closeLocal")
      BY <3>1, CloseStep
    <3>2. CASE Close(t, "closeLocal", "local", "nullRemote")
      BY <3>2, CloseStep
    <3>3. CASE SetNull(t, "nullRemote", "remote", "nullLocal")
      BY <3>3, SetNullStep
    <3>4. CASE SetNull(t, "nullLocal", "local", "ended")
      BY <3>4, SetNullStep
    <3>5. QED
      BY <2>4, <3>1, <3>2, <3>3, <3>4 DEF CleanSession
  <2>5. QED
    BY <1>1, <2>1, <2>2, <2>3, <2>4 DEF Step, Prompt
<1>2. CASE (\E s \in Side : Send(s) \/ Take(s) \/ Finish(s) \/ Reset(s)) \/ Stop
  BY <1>2, PeerStep
<1>3. CASE UNCHANGED vars
  BY <1>3 DEF vars, streams, IInv, TypeOK, Alone, Cleaned, ForgottenIsClosed, InHand, EmptyAt, FullAt
<1>4. QED
  BY <1>1, <1>2, <1>3 DEF Next

(* The inductive invariant of a session holds throughout.                  *)
THEOREM Invariance == Spec => []IInv
<1>1. Init => IInv
  BY InitIInv
<1>2. IInv /\ [Next]_vars => IInv'
  BY NextIInv
<1>3. QED
  BY <1>1, <1>2, PTL DEF Spec

(* Every state has its type: nothing is written that was not read, nothing *)
(* read that was not sent, and no socket holds more than its room.         *)
THEOREM TypeCorrect == Spec => []TypeOK
<1>1. IInv => TypeOK
  BY DEF IInv
<1>2. QED
  BY <1>1, Invariance, PTL

(* However cleanSession races with itself, a field that is null stands for *)
(* a socket that is closed (SSRLocal.kt 340-363, SSRTunnel.kt 199-222).    *)
THEOREM NullIsClosed == Spec => []ForgottenIsClosed
<1>1. IInv => ForgottenIsClosed
  BY DEF IInv
<1>2. QED
  BY <1>1, Invariance, PTL

(* A session that is over has left no socket open.                         *)
THEOREM NothingStaysOpen == Spec => []OverIsClosed
<1>1. IInv => OverIsClosed
  BY DEF IInv, Cleaned, OverIsClosed, Shut
<1>2. QED
  BY <1>1, Invariance, PTL

(* Between two reads of a thread all it has read has been written.         *)
THEOREM DropsNothing == Spec => []NothingDropped
<1>1. IInv => NothingDropped
  BY DEF IInv, InHand, EmptyAt, NothingDropped
<1>2. QED
  BY <1>1, Invariance, PTL
-----------------------------------------------------------------------------
(* Until it relays, LocalSocketHandler has nothing in hand, except what it *)
(* read to ask the ACL.                                                    *)
Fresh ==
    (\/ pc["L"] \in {"auth", "cmd", "first"}
     \/ kind = "tunnel" /\ pc["L"] \in {"prepare", "connect", "execute"}) =>
        put["remote"] = taken["local"]

LEMMA NextFresh == IInv /\ Fresh /\ [Next]_vars => Fresh'
<1> SUFFICES ASSUME IInv, Fresh, [Next]_vars PROVE Fresh'
  OBVIOUS
<1>1. /\ pc \in [Thread -> Pc] /\ kind \in {"local", "tunnel"}
      /\ taken \in [Side -> Nat] /\ put \in [Side -> Nat]
  BY DEF IInv, TypeOK
<1>2. CASE Handshake \/ HandshakeFails
  BY <1>1, <1>2 DEF Fresh, Handshake, HandshakeFails, At, Goto, Clean, Same, env
<1>3. CASE Prepare
  BY <1>1, <1>3 DEF Fresh, Prepare, At, Goto, Clean, Same, env
<1>4. CASE Connect
  BY <1>1, <1>4 DEF Fresh, Connect, At, Goto, Clean, Same, env
<1>5. CASE Execute
  BY <1>1, <1>5 DEF Fresh, Execute, At, Same, env
<1>6. CASE First
  <2>1. pc["L"] = "first" /\ kind' = kind
    BY <1>6 DEF First, At, Same
  <2>2. \/ pc' = [pc EXCEPT !["L"] = "closeRemote"]
        \/ pc' = [pc EXCEPT !["L"] = "left"]
        \/ kind = "local" /\ pc' = [pc EXCEPT !["L"] = "prepare"]
        \/ pc' = [pc EXCEPT !["L"] = "encode"]
    BY <1>1, <1>6 DEF First, Goto, Clean
  <2>3. QED
    BY <1>1, <2>1, <2>2 DEF Fresh
<1>7. ASSUME NEW t \in Thread,
             Check(t) \/ Fetch(t) \/ Read(t) \/ Timeout(t) \/ Encode(t) \/ Write(t) \/ CleanSession(t)
      PROVE  Fresh'
  <2>1. CASE t = "L"
    <3>1. \E l \in Relaying \cup Cleaning \cup {"ended"} : pc' = [pc EXCEPT !["L"] = l]
      BY <1>7, <2>1 DEF Check, Fetch, Read, Timeout, Encode, Write, CleanSession, Close, SetNull,
                        Goto, Clean, Relaying, Cleaning
    <3>2. pc'["L"] \notin {"auth", "cmd", "first", "prepare", "connect", "execute"}
      BY <1>1, <3>1 DEF Relaying, Cleaning
    <3>3. QED
      BY <3>2 DEF Fresh
  <2>2. CASE t = "R"
    <3>1. /\ kind' = kind /\ taken'["local"] = taken["local"] /\ put'["remote"] = put["remote"]
          /\ pc'["L"] = pc["L"]
      BY <1>1, <1>7, <2>2 DEF Check, Fetch, Read, Timeout, Encode, Write, CleanSession, Close,
                              SetNull, Goto, Clean, At, Same
    <3>2. QED
      BY <3>1 DEF Fresh
  <2>3. QED
    BY <2>1, <2>2
<1>8. CASE (\E s \in Side : Send(s) \/ Take(s) \/ Finish(s) \/ Reset(s)) \/ Stop
  BY <1>8 DEF Send, Take, Finish, Reset, Stop, ours, Fresh
<1>9. CASE UNCHANGED vars
  BY <1>9 DEF vars, streams, Fresh
<1>10. QED
  BY <1>2, <1>3, <1>4, <1>5, <1>6, <1>7, <1>8, <1>9 DEF Next, Step, Prompt, Begin

(* What every step does to the streams: one read by a thread with nothing  *)
(* in hand, one unit written of what a thread has in hand, or nothing; and *)
(* what is over stays over.                                                *)
Reads(t) ==
    /\ ~Over /\ ~Over'
    /\ put[To[t]] = taken[From[t]]
    /\ \E n \in Nat : n > taken[From[t]] /\ taken' = [taken EXCEPT ![From[t]] = n]
    /\ put' = put
Writes(t) ==
    /\ ~Over /\ ~Over'
    /\ put[To[t]] < taken[From[t]]
    /\ put' = [put EXCEPT ![To[t]] = @ + 1]
    /\ taken' = taken
Rests == taken' = taken /\ put' = put /\ (Over => Over')

LEMMA StreamStep ==
    ASSUME IInv, Fresh, [Next]_vars
    PROVE  (\E t \in Thread : Reads(t) \/ Writes(t)) \/ Rests
<1>1. /\ pc \in [Thread -> Pc] /\ kind \in {"local", "tunnel"}
      /\ taken \in [Side -> Nat] /\ put \in [Side -> Nat] /\ sent \in [Side -> Nat]
  BY DEF IInv, TypeOK
<1>2. CASE Handshake \/ HandshakeFails \/ Prepare \/ Connect \/ Execute
  BY <1>2 DEF Handshake, HandshakeFails, Prepare, Connect, Execute, At, Over, Rests
<1>3. CASE First
  <2>1. pc["L"] = "first" /\ put' = put /\ ~Over /\ put["remote"] = taken["local"]
    BY <1>3 DEF First, At, Over, Fresh
  <2>2. CASE taken' = taken
    BY <2>1, <2>2 DEF Rests
  <2>3. CASE taken' # taken
    <3>1. PICK n \in taken["local"] + 1 .. sent["local"] : taken' = [taken EXCEPT !["local"] = n]
      BY <1>3, <2>3 DEF First
    <3>2. n \in Nat /\ n > taken["local"]
      BY <1>1, <3>1
    <3>3. \E l \in {"closeRemote", "prepare", "encode"} : pc' = [pc EXCEPT !["L"] = l]
      BY <1>3, <2>3 DEF First, Goto, Clean
    <3>4. ~Over'
      BY <1>1, <3>3 DEF Over
    <3>5. Reads("L")
      BY <2>1, <3>1, <3>2, <3>4 DEF Reads
    <3>6. QED
      BY <3>5
  <2>4. QED
    BY <2>2, <2>3
<1>4. ASSUME NEW t \in Thread, Check(t) \/ Fetch(t) \/ Timeout(t) \/ Encode(t) \/ CleanSession(t)
      PROVE  Rests
  <2>1. taken' = taken /\ put' = put
    BY <1>4 DEF Check, Fetch, Timeout, Encode, CleanSession, Close, SetNull
  <2>2. pc[t] \in Relaying \cup Cleaning \cup {"first"}
    BY <1>4 DEF Check, Fetch, Timeout, Encode, CleanSession, Close, SetNull, At, Relaying, Cleaning
  <2>3. ~Over
    BY <2>2 DEF Over, Relaying, Cleaning
  <2>4. QED
    BY <2>1, <2>3 DEF Rests
<1>5. ASSUME NEW t \in Thread, Read(t) PROVE Reads(t) \/ Rests
  <2>1. pc[t] = "read" /\ put' = put /\ ~Over
    BY <1>5 DEF Read, At, Over
  <2>2. CASE taken' = taken
    BY <2>1, <2>2 DEF Rests
  <2>3. CASE taken' # taken
    <3>1. PICK n \in taken[From[t]] + 1 .. sent[From[t]] : taken' = [taken EXCEPT ![From[t]] = n]
      BY <1>5, <2>3 DEF Read
    <3>2. n \in Nat /\ n > taken[From[t]]
      BY <1>1, <3>1
    <3>3. pc' = [pc EXCEPT ![t] = "encode"]
      BY <1>5, <2>3 DEF Read, Goto
    <3>4. ~Over'
      BY <1>1, <3>3 DEF Over
    <3>5. put[To[t]] = taken[From[t]]
      BY <2>1 DEF IInv, InHand, EmptyAt
    <3>6. QED
      BY <2>1, <3>1, <3>2, <3>4, <3>5 DEF Reads
  <2>4. QED
    BY <2>2, <2>3
<1>6. ASSUME NEW t \in Thread, Write(t) PROVE Writes(t) \/ Rests
  <2>1. pc[t] = "write" /\ taken' = taken /\ ~Over
    BY <1>6 DEF Write, At, Over
  <2>2. CASE put' = put
    BY <2>1, <2>2 DEF Rests
  <2>3. CASE put' # put
    <3>1. put' = [put EXCEPT ![To[t]] = @ + 1]
      BY <1>6, <2>3 DEF Write
    <3>2. \E l \in {"loop", "write"} : pc' = [pc EXCEPT ![t] = l]
      BY <1>6, <2>3 DEF Write, Goto
    <3>3. ~Over'
      BY <1>1, <3>2 DEF Over
    <3>4. put[To[t]] < taken[From[t]]
      BY <2>1 DEF IInv, InHand, FullAt
    <3>5. QED
      BY <2>1, <3>1, <3>3, <3>4 DEF Writes
  <2>4. QED
    BY <2>2, <2>3
<1>7. CASE (\E s \in Side : Send(s) \/ Take(s) \/ Finish(s) \/ Reset(s)) \/ Stop
  BY <1>7 DEF Send, Take, Finish, Reset, Stop, ours, Rests, Over
<1>8. CASE UNCHANGED vars
  BY <1>8 DEF vars, streams, Rests, Over
<1>9. QED
  BY <1>2, <1>3, <1>4, <1>5, <1>6, <1>7, <1>8 DEF Next, Step, Prompt, Begin

(* Each step is one of the Pipe of either direction, or none.              *)
LEMMA UpStep ==
    ASSUME IInv, Fresh, [Next]_vars
    PROVE  [Up!PipeNext]_(Up!pipeVars)
<1>1. taken \in [Side -> Nat] /\ put \in [Side -> Nat]
  BY DEF IInv, TypeOK
<1>2. CASE Reads("L")
  BY <1>1, <1>2 DEF Reads, Up!PipeNext, Up!Take
<1>3. CASE Writes("L")
  BY <1>1, <1>3 DEF Writes, Up!PipeNext, Up!Give
<1>4. CASE Reads("R") \/ Writes("R")
  <2>1. Over \in BOOLEAN /\ Over' \in BOOLEAN
    BY DEF Over
  <2>2. QED
    BY <1>1, <1>4, <2>1 DEF Reads, Writes, Up!pipeVars
<1>5. CASE Rests
  BY <1>1, <1>5 DEF Rests, Up!pipeVars, Up!PipeNext, Up!End, Over
<1>6. Reads("L") \/ Writes("L") \/ Reads("R") \/ Writes("R") \/ Rests
  BY StreamStep
<1>7. QED
  BY <1>2, <1>3, <1>4, <1>5, <1>6

LEMMA DownStep ==
    ASSUME IInv, Fresh, [Next]_vars
    PROVE  [Down!PipeNext]_(Down!pipeVars)
<1>1. taken \in [Side -> Nat] /\ put \in [Side -> Nat]
  BY DEF IInv, TypeOK
<1>2. CASE Reads("R")
  BY <1>1, <1>2 DEF Reads, Down!PipeNext, Down!Take
<1>3. CASE Writes("R")
  BY <1>1, <1>3 DEF Writes, Down!PipeNext, Down!Give
<1>4. CASE Reads("L") \/ Writes("L")
  <2>1. Over \in BOOLEAN /\ Over' \in BOOLEAN
    BY DEF Over
  <2>2. QED
    BY <1>1, <1>4, <2>1 DEF Reads, Writes, Down!pipeVars
<1>5. CASE Rests
  BY <1>1, <1>5 DEF Rests, Down!pipeVars, Down!PipeNext, Down!End, Over
<1>6. Reads("L") \/ Writes("L") \/ Reads("R") \/ Writes("R") \/ Rests
  BY StreamStep
<1>7. QED
  BY <1>2, <1>3, <1>4, <1>5, <1>6

(* A session implements the relay that Pipe promises, in each direction:   *)
(* whatever the threads do to each other and however the reads are cut.    *)
THEOREM RelaysAsPipes == Spec => Pipes
<1>1. Init => Fresh /\ Up!PipeInit /\ Down!PipeInit
  BY DEF Init, Fresh, Up!PipeInit, Down!PipeInit, Over
<1>2. Spec => []Fresh
  BY <1>1, NextFresh, Invariance, PTL DEF Spec
<1>3. Spec => Up!PipeSpec
  BY <1>1, <1>2, Invariance, UpStep, PTL DEF Spec, Up!PipeSpec
<1>4. Spec => Down!PipeSpec
  BY <1>1, <1>2, Invariance, DownStep, PTL DEF Spec, Down!PipeSpec
<1>5. QED
  BY <1>3, <1>4 DEF Pipes
=============================================================================
