--------------------------- MODULE SSRLocalProofs ---------------------------
(***************************************************************************)
(* Two parts of SSRLocal that share no state.                              *)
(*                                                                         *)
(* For any number of servers and of connections: once stopSSRLocal or      *)
(* stopTunnel has returned, also by the exception it throws before run()   *)
(* has begun, the accept loop it stopped serves nobody.                    *)
(*                                                                         *)
(* For words of any width and lists of any length: the ACL takes the ends  *)
(* of a range right, bypasses the proxy for no address that is not listed  *)
(* and finds nearly none that is.                                          *)
(***************************************************************************)
EXTENDS TcpListener, Cidr, WellFoundedInduction, TLAPS

(* Where the stop of s is, its pool takes no more connections, or else the *)
(* loop of s has not been entered and will not be.                         *)
Stopped(s) ==
    /\ run[s] = "none" => stop[s] = "none"
    /\ isRunning[s] <=> stop[s] = "none"
    /\ stop[s] = "null" => pool[s] = "shut"
    /\ stop[s] = "returned" =>
        \/ pool[s] = "shut"
        \/ run[s] \in {"started", "check", "ended"}
    /\ pool[s] = "null" => run[s] \in {"none", "started"}
    /\ kind = "tunnel" /\ run[s] \in {"none", "started"} => pool[s] = "null"
    /\ run[s] = "execute" => handled[s] < MaxConns

IInv == TypeOK /\ \A s \in Server : Stopped(s)

(* No server has been started.                                             *)
LEMMA InitIInv == Init => IInv
<1> SUFFICES ASSUME Init PROVE IInv
  OBVIOUS
<1>1. kind \in {"local", "tunnel"}
  BY DEF Init
<1>2. \A s \in Server : pool[s] = IF kind = "local" THEN "up" ELSE "null"
  BY DEF Init
<1>3. pool \in [Server -> {"up", "shut"} \cup (IF kind = "tunnel" THEN {"null"} ELSE {})]
  BY <1>1 DEF Init
<1>4. TypeOK
  BY <1>1, <1>3, ServersAssumption DEF Init, TypeOK
<1>5. ASSUME NEW s \in Server
      PROVE  Stopped(s)
  BY <1>1, <1>2 DEF Init, Stopped
<1>6. QED
  BY <1>4, <1>5 DEF IInv

(* The thread of a server.                                                 *)
LEMMA RunStep ==
    ASSUME IInv, NEW s \in Server, Run(s) \/ Arrive(s)
    PROVE  IInv'
<1>1. CASE Begin(s)
  BY <1>1 DEF IInv, TypeOK, Stopped, Begin, Goto, Quiet
<1>2. CASE Check(s)
  BY <1>2 DEF IInv, TypeOK, Stopped, Check, Goto, Quiet
<1>3. CASE Create(s)
  BY <1>3 DEF IInv, TypeOK, Stopped, Create, Goto, Quiet
<1>4. CASE Bind(s)
  BY <1>4 DEF IInv, TypeOK, Stopped, Bind, Goto, Quiet
<1>5. CASE Accept(s)
  BY <1>5 DEF IInv, TypeOK, Stopped, Accept, Goto, Quiet
<1>6. CASE Execute(s)
  <2>1. CASE pool[s] = "up"
    BY <1>6, <2>1, ServersAssumption DEF IInv, TypeOK, Stopped, Execute, Goto, Quiet
  <2>2. CASE pool[s] # "up"
    BY <1>6, <2>2 DEF IInv, TypeOK, Stopped, Execute, Goto, Quiet
  <2>3. QED
    BY <2>1, <2>2
<1>7. CASE Cleanup(s)
  BY <1>7 DEF IInv, TypeOK, Stopped, Cleanup, Goto, Quiet
<1>8. CASE Arrive(s)
  BY <1>8 DEF IInv, TypeOK, Stopped, Arrive, Goto, Quiet
<1>9. QED
  BY <1>1, <1>2, <1>3, <1>4, <1>5, <1>6, <1>7, <1>8 DEF Run

(* The stop of a server.                                                   *)
LEMMA StopStep ==
    ASSUME IInv, NEW s \in Server, StopFlag(s) \/ Stop(s)
    PROVE  IInv'
<1>1. CASE StopFlag(s)
  BY <1>1 DEF IInv, TypeOK, Stopped, StopFlag, loop
<1>2. CASE StopClose(s)
  BY <1>2 DEF IInv, TypeOK, Stopped, StopClose
<1>3. CASE StopShutdown(s)
  <2>1. CASE pool[s] = "null"
    BY <1>3, <2>1 DEF IInv, TypeOK, Stopped, StopShutdown
  <2>2. CASE pool[s] # "null"
    BY <1>3, <2>2 DEF IInv, TypeOK, Stopped, StopShutdown
  <2>3. QED
    BY <2>1, <2>2
<1>4. CASE StopNull(s)
  BY <1>4 DEF IInv, TypeOK, Stopped, StopNull
<1>5. QED
  BY <1>1, <1>2, <1>3, <1>4 DEF Stop

(* Every step of every server and its stop.                                *)
LEMMA NextIInv == IInv /\ [Next]_vars => IInv'
<1> SUFFICES ASSUME IInv, [Next]_vars PROVE IInv'
  OBVIOUS
<1>1. ASSUME NEW s \in Server, Start(s) PROVE IInv'
  BY <1>1 DEF IInv, TypeOK, Stopped, Start, Goto, Quiet
<1>2. ASSUME NEW s \in Server, Run(s) \/ Arrive(s) \/ StopFlag(s) \/ Stop(s) PROVE IInv'
  BY <1>2, RunStep, StopStep
<1>3. CASE UNCHANGED vars
  BY <1>3 DEF IInv, TypeOK, Stopped, vars
<1>4. QED
  BY <1>1, <1>2, <1>3 DEF Next

(* The inductive invariant holds of the accept loops and their stops.      *)
THEOREM Invariance == Spec => []IInv
BY InitIInv, NextIInv, PTL DEF Spec

(* Every state of the accept loops has its type.                           *)
THEOREM TypeCorrect == Spec => []TypeOK
<1>1. IInv => TypeOK
  BY DEF IInv
<1>2. QED
  BY <1>1, Invariance, PTL

(* A server whose stop has returned gives no connection to a handler, even *)
(* one its accept() had returned already.                                  *)
THEOREM StoppedServesNobody == Spec => NothingAfterStop
<1>1. ASSUME IInv, [Next]_vars, NEW s \in Server, stop[s] = "returned"
      PROVE  handled'[s] = handled[s]
  <2>1. pool[s] = "shut" \/ run[s] \in {"started", "check", "ended"}
    BY <1>1 DEF IInv, Stopped
  <2>2. handled \in [Server -> 0..MaxConns]
    BY <1>1 DEF IInv, TypeOK
  <2>3. ASSUME NEW t \in Server, Execute(t)
        PROVE  handled'[s] = handled[s]
    BY <1>1, <2>1, <2>2, <2>3 DEF Execute
  <2>4. ASSUME NEW t \in Server, Start(t) \/ Begin(t) \/ Check(t) \/ Create(t) \/ Bind(t)
                                \/ Accept(t) \/ Arrive(t) \/ Cleanup(t) \/ StopFlag(t)
                                \/ Stop(t)
        PROVE  handled' = handled
    BY <2>4 DEF Start, Begin, Check, Create, Bind, Accept, Arrive, Cleanup, StopFlag, Stop,
                StopClose, StopShutdown, StopNull, loop
  <2>5. QED
    BY <1>1, <2>3, <2>4 DEF Next, Run, vars
<1>2. IInv /\ [Next]_vars =>
        [\A s \in Server : stop[s] = "returned" => handled'[s] = handled[s]]_vars
  BY <1>1
<1>3. QED
  BY <1>2, Invariance, PTL DEF Spec, NothingAfterStop

-----------------------------------------------------------------------------
(* A set of naturals has a least element.                                  *)
LEMMA Smallest ==
    ASSUME NEW T, T \subseteq Nat, T # {}
    PROVE  \E n \in T : \A m \in T : n <= m
<1>1. PICK n \in T : \A m \in T : <<m, n>> \notin OpToRel(<, Nat)
  BY NatLessThanWellFounded, WFMin
<1>2. ASSUME NEW m \in T PROVE n <= m
  <2>1. m \in Nat /\ n \in Nat
    OBVIOUS
  <2>2. CASE m < n
    <3>1. <<m, n>> \in Nat \X Nat
      BY <2>1
    <3>2. <<m, n>>[1] < <<m, n>>[2]
      BY <2>2
    <3>3. <<m, n>> \in OpToRel(<, Nat)
      BY <3>1, <3>2 DEF OpToRel
    <3>4. QED
      BY <3>3, <1>1
  <2>3. QED
    BY <2>1, <2>2
<1>3. QED
  BY <1>2

(* A set that holds m, and with each number the next, holds m .. Width.    *)
LEMMA Climb ==
    ASSUME NEW m \in 0..Width, NEW S, m \in S,
           \A n \in (m + 1)..Width : n - 1 \in S => n \in S
    PROVE  m..Width \subseteq S
<1> DEFINE T == {n \in m..Width : n \notin S}
<1>1. Width \in Nat
  BY WidthAssumption
<1>2. SUFFICES ASSUME T # {} PROVE FALSE
  OBVIOUS
<1>3. T \subseteq Nat
  BY <1>1
<1>4. PICK t \in T : \A u \in T : t <= u
  BY <1>2, <1>3, Smallest
<1>5. t \in m..Width /\ t \notin S /\ t # m
  BY <1>4
<1>6. t - 1 \in m..Width /\ t \in (m + 1)..Width
  BY <1>1, <1>5
<1>7. t - 1 \notin T
  BY <1>1, <1>4, <1>5
<1>8. QED
  BY <1>5, <1>6, <1>7

(* The equations of Pow.                                                   *)
LEMMA PowIs == Pow[0] = 1 /\ \A n \in 1..Width : Pow[n] = 2 * Pow[n - 1]
<1> DEFINE Is(g, w) == g = [n \in 0..w |-> IF n = 0 THEN 1 ELSE 2 * g[n - 1]]
<1> DEFINE S == {w \in 0..Width : \E g : Is(g, w)}
<1>1. Width \in Nat
  BY WidthAssumption
<1>2. 0 \in S
  <2>1. Is([n \in 0..0 |-> 1], 0)
    OBVIOUS
  <2>2. \E g : Is(g, 0)
    BY <2>1
  <2>3. QED
    BY <1>1, <2>2
<1>3. ASSUME NEW w \in 1..Width, w - 1 \in S PROVE w \in S
  <2>1. PICK g : Is(g, w - 1)
    BY <1>3
  <2> DEFINE h == [n \in 0..w |-> IF n = w THEN 2 * g[n - 1] ELSE g[n]]
  <2>2. \A n \in 0..(w - 1) : g[n] = IF n = 0 THEN 1 ELSE 2 * g[n - 1]
    BY <2>1
  <2>3. ASSUME NEW n \in 0..w PROVE h[n] = IF n = 0 THEN 1 ELSE 2 * h[n - 1]
    BY <2>2
  <2>4. Is(h, w)
    BY <2>3
  <2> HIDE DEF Is, h
  <2>5. \E f : Is(f, w)
    BY <2>4
  <2>6. QED
    BY <1>1, <2>5
<1> HIDE DEF S
<1>4. Width \in S
  BY <1>1, <1>2, <1>3, Climb
<1>5. \E g : Is(g, Width)
  BY <1>4 DEF S
<1>6. Is(Pow, Width)
  BY <1>5 DEF Pow
<1>7. \A n \in 0..Width : Pow[n] = IF n = 0 THEN 1 ELSE 2 * Pow[n - 1]
  BY <1>6
<1>8. QED
  BY <1>1, <1>7
(* The equations of Upto.                                                  *)
LEMMA UptoIs ==
    ASSUME NEW x
    PROVE  /\ Upto(x)[0] = 0
           /\ \A n \in 1..Width :
                Upto(x)[n] = Upto(x)[n - 1] + (IF n - 1 \in x THEN Pow[n - 1] ELSE 0)
<1> DEFINE Bit1(n) == IF n - 1 \in x THEN Pow[n - 1] ELSE 0
<1> DEFINE Is(g, w) == g = [n \in 0..w |-> IF n = 0 THEN 0 ELSE g[n - 1] + Bit1(n)]
<1> DEFINE S == {w \in 0..Width : \E g : Is(g, w)}
<1> HIDE DEF Bit1
<1>1. Width \in Nat
  BY WidthAssumption
<1>2. 0 \in S
  <2>1. Is([n \in 0..0 |-> 0], 0)
    OBVIOUS
  <2>2. \E g : Is(g, 0)
    BY <2>1
  <2>3. QED
    BY <1>1, <2>2
<1>3. ASSUME NEW w \in 1..Width, w - 1 \in S PROVE w \in S
  <2>1. PICK g : Is(g, w - 1)
    BY <1>3
  <2> DEFINE h == [n \in 0..w |-> IF n = w THEN g[n - 1] + Bit1(n) ELSE g[n]]
  <2>2. \A n \in 0..(w - 1) : g[n] = IF n = 0 THEN 0 ELSE g[n - 1] + Bit1(n)
    BY <2>1
  <2>3. ASSUME NEW n \in 0..w PROVE h[n] = IF n = 0 THEN 0 ELSE h[n - 1] + Bit1(n)
    BY <2>2
  <2>4. Is(h, w)
    BY <2>3
  <2> HIDE DEF Is, h
  <2>5. \E f : Is(f, w)
    BY <2>4
  <2>6. QED
    BY <1>1, <2>5
<1> HIDE DEF S
<1>4. Width \in S
  BY <1>1, <1>2, <1>3, Climb
<1>5. \E g : Is(g, Width)
  BY <1>4 DEF S
<1>6. Is(Upto(x), Width)
  BY <1>5 DEF Upto, Bit1
<1>7. \A n \in 0..Width : Upto(x)[n] = IF n = 0 THEN 0 ELSE Upto(x)[n - 1] + Bit1(n)
  BY <1>6
<1>8. QED
  BY <1>1, <1>7 DEF Bit1

(* A power of two is a positive number.                                    *)
LEMMA PowNat == \A n \in 0..Width : Pow[n] \in Nat \ {0}
<1> DEFINE S == {n \in 0..Width : Pow[n] \in Nat \ {0}}
<1>1. Width \in Nat
  BY WidthAssumption
<1>2. 0 \in S
  BY <1>1, PowIs
<1>3. ASSUME NEW n \in 1..Width, n - 1 \in S PROVE n \in S
  BY <1>1, <1>3, PowIs
<1> HIDE DEF S
<1>4. 0..Width \subseteq S
  BY <1>1, <1>2, <1>3, Climb
<1>5. QED
  BY <1>4 DEF S

(* The last n bits of x are a number below 2^n.                            *)
LEMMA UptoBound ==
    ASSUME NEW x, NEW n \in 0..Width
    PROVE  Upto(x)[n] \in Nat /\ Upto(x)[n] < Pow[n]
<1> DEFINE S == {w \in 0..Width : Upto(x)[w] \in Nat /\ Upto(x)[w] < Pow[w]}
<1>1. Width \in Nat
  BY WidthAssumption
<1>2. 0 \in S
  BY <1>1, PowIs, UptoIs
<1>3. ASSUME NEW w \in 1..Width, w - 1 \in S PROVE w \in S
  <2>1. Upto(x)[w] = Upto(x)[w - 1] + (IF w - 1 \in x THEN Pow[w - 1] ELSE 0)
    BY UptoIs
  <2>2. Pow[w] = 2 * Pow[w - 1] /\ Pow[w - 1] \in Nat \ {0}
    BY <1>1, PowIs, PowNat
  <2>3. QED
    BY <1>3, <2>1, <2>2
<1> HIDE DEF S
<1>4. 0..Width \subseteq S
  BY <1>1, <1>2, <1>3, Climb
<1>5. QED
  BY <1>4 DEF S

(* A power of two is a multiple of every smaller one.                      *)
LEMMA PowMultiple ==
    ASSUME NEW m \in 0..Width, NEW n \in m..Width
    PROVE  \E q \in Nat : Pow[n] = Pow[m] * q
<1> DEFINE S == {w \in m..Width : \E q \in Nat : Pow[w] = Pow[m] * q}
<1>1. Width \in Nat
  BY WidthAssumption
<1>2. m \in S
  BY <1>1, PowNat
<1>3. ASSUME NEW w \in (m + 1)..Width, w - 1 \in S PROVE w \in S
  <2>1. PICK q \in Nat : Pow[w - 1] = Pow[m] * q
    BY <1>3
  <2>2. Pow[w] = 2 * Pow[w - 1]
    BY <1>1, PowIs
  <2>3. Pow[w] = Pow[m] * (2 * q)
    BY <1>1, <2>1, <2>2, PowNat
  <2>4. 2 * q \in Nat
    OBVIOUS
  <2>5. QED
    BY <1>1, <2>3, <2>4
<1> HIDE DEF S
<1>4. m..Width \subseteq S
  BY <1>1, <1>2, <1>3, Climb
<1>5. QED
  BY <1>4 DEF S

(* What the bits from m on add to a number is a multiple of 2^m.           *)
LEMMA UptoMultiple ==
    ASSUME NEW x, NEW m \in 0..Width, NEW n \in m..Width
    PROVE  \E q \in Nat : Upto(x)[n] = Pow[m] * q + Upto(x)[m]
<1> DEFINE S == {w \in m..Width : \E q \in Nat : Upto(x)[w] = Pow[m] * q + Upto(x)[m]}
<1>1. Width \in Nat
  BY WidthAssumption
<1>2. m \in S
  <2>1. Upto(x)[m] = Pow[m] * 0 + Upto(x)[m]
    BY PowNat, UptoBound
  <2>2. QED
    BY <1>1, <2>1
<1>3. ASSUME NEW w \in (m + 1)..Width, w - 1 \in S PROVE w \in S
  <2>1. PICK q \in Nat : Upto(x)[w - 1] = Pow[m] * q + Upto(x)[m]
    BY <1>3
  <2>2. w - 1 \in m..Width
    BY <1>1
  <2>3. PICK r \in Nat : Pow[w - 1] = Pow[m] * r
    BY <2>2, PowMultiple
  <2>4. Upto(x)[w] = Upto(x)[w - 1] + (IF w - 1 \in x THEN Pow[w - 1] ELSE 0)
    BY <1>1, UptoIs
  <2>5. Pow[m] \in Nat /\ Upto(x)[m] \in Nat
    BY <1>1, PowNat, UptoBound
  <2>6. CASE w - 1 \in x
    <3>1. Upto(x)[w] = Pow[m] * (q + r) + Upto(x)[m]
      BY <2>1, <2>3, <2>4, <2>5, <2>6
    <3>2. q + r \in Nat
      OBVIOUS
    <3>3. QED
      BY <1>1, <3>1, <3>2
  <2>7. CASE w - 1 \notin x
    <3>1. Upto(x)[w] = Pow[m] * q + Upto(x)[m]
      BY <2>1, <2>4, <2>5, <2>7
    <3>2. QED
      BY <1>1, <3>1
  <2>8. QED
    BY <2>6, <2>7
<1> HIDE DEF S
<1>4. m..Width \subseteq S
  BY <1>1, <1>2, <1>3, Climb
<1>5. QED
  BY <1>4 DEF S

(* Two words that have the same bits from m on have the same number there. *)
LEMMA UptoSame ==
    ASSUME NEW x, NEW y, NEW m \in 0..Width, NEW n \in m..Width,
           \A b \in m..(n - 1) : b \in x <=> b \in y
    PROVE  Upto(x)[n] - Upto(x)[m] = Upto(y)[n] - Upto(y)[m]
<1> DEFINE S == {w \in m..Width :
                   w <= n => Upto(x)[w] - Upto(x)[m] = Upto(y)[w] - Upto(y)[m]}
<1>1. Width \in Nat
  BY WidthAssumption
<1>2. m \in S
  BY <1>1, UptoBound
<1>3. ASSUME NEW w \in (m + 1)..Width, w - 1 \in S PROVE w \in S
  <2>1. SUFFICES ASSUME w <= n
                 PROVE  Upto(x)[w] - Upto(x)[m] = Upto(y)[w] - Upto(y)[m]
    BY <1>1
  <2>2. /\ Upto(x)[w] = Upto(x)[w - 1] + (IF w - 1 \in x THEN Pow[w - 1] ELSE 0)
        /\ Upto(y)[w] = Upto(y)[w - 1] + (IF w - 1 \in y THEN Pow[w - 1] ELSE 0)
    BY <1>1, UptoIs
  <2>3. w - 1 \in x <=> w - 1 \in y
    BY <1>1, <2>1
  <2>4. Upto(x)[w - 1] - Upto(x)[m] = Upto(y)[w - 1] - Upto(y)[m]
    BY <1>1, <1>3, <2>1
  <2>5. /\ Pow[w - 1] \in Nat /\ Upto(x)[w - 1] \in Nat /\ Upto(y)[w - 1] \in Nat
        /\ Upto(x)[m] \in Nat /\ Upto(y)[m] \in Nat
    BY <1>1, PowNat, UptoBound
  <2>6. QED
    BY <2>2, <2>3, <2>4, <2>5
<1> HIDE DEF S
<1>4. m..Width \subseteq S
  BY <1>1, <1>2, <1>3, Climb
<1>5. QED
  BY <1>1, <1>4 DEF S
(* Bits that are all 0 are the number 0.                                   *)
LEMMA UptoZeros ==
    ASSUME NEW x, NEW m \in 0..Width, \A b \in 0..(m - 1) : b \notin x
    PROVE  Upto(x)[m] = 0
<1> DEFINE S == {w \in 0..Width : w <= m => Upto(x)[w] = 0}
<1>1. Width \in Nat
  BY WidthAssumption
<1>2. 0 \in S
  BY <1>1, UptoIs
<1>3. ASSUME NEW w \in 1..Width, w - 1 \in S PROVE w \in S
  BY <1>1, <1>3, UptoIs
<1> HIDE DEF S
<1>4. 0..Width \subseteq S
  BY <1>1, <1>2, <1>3, Climb
<1>5. QED
  BY <1>1, <1>4 DEF S

(* Bits that are all 1 are the number below 2^m.                           *)
LEMMA UptoOnes ==
    ASSUME NEW x, NEW m \in 0..Width, 0..(m - 1) \subseteq x
    PROVE  Upto(x)[m] = Pow[m] - 1
<1> DEFINE S == {w \in 0..Width : w <= m => Upto(x)[w] = Pow[w] - 1}
<1>1. Width \in Nat
  BY WidthAssumption
<1>2. 0 \in S
  BY <1>1, UptoIs, PowIs
<1>3. ASSUME NEW w \in 1..Width, w - 1 \in S PROVE w \in S
  <2>1. Pow[w] = 2 * Pow[w - 1] /\ Pow[w - 1] \in Nat
    BY <1>1, PowIs, PowNat
  <2>2. Upto(x)[w] = Upto(x)[w - 1] + (IF w - 1 \in x THEN Pow[w - 1] ELSE 0)
    BY UptoIs
  <2>3. QED
    BY <1>1, <1>3, <2>1, <2>2
<1> HIDE DEF S
<1>4. 0..Width \subseteq S
  BY <1>1, <1>2, <1>3, Climb
<1>5. QED
  BY <1>1, <1>4 DEF S

(* Every number below 2^m is the number of some m bits.                    *)
LEMMA UptoOnto ==
    ASSUME NEW m \in 0..Width, NEW v \in Nat, v < Pow[m]
    PROVE  \E x \in SUBSET (0..(m - 1)) : Upto(x)[m] = v
<1> DEFINE S == {w \in 0..Width : \A u \in Nat :
                   u < Pow[w] => \E x \in SUBSET (0..(w - 1)) : Upto(x)[w] = u}
<1>1. Width \in Nat
  BY WidthAssumption
<1>2. 0 \in S
  <2>1. Upto({})[0] = 0 /\ Pow[0] = 1
    BY UptoIs, PowIs
  <2>2. QED
    BY <1>1, <2>1
<1>3. ASSUME NEW w \in 1..Width, w - 1 \in S PROVE w \in S
  <2>1. SUFFICES ASSUME NEW u \in Nat, u < Pow[w]
                 PROVE  \E x \in SUBSET (0..(w - 1)) : Upto(x)[w] = u
    OBVIOUS
  <2>2. Pow[w] = 2 * Pow[w - 1] /\ Pow[w - 1] \in Nat
    BY <1>1, PowIs, PowNat
  <2>3. \A x : Upto(x)[w] = Upto(x)[w - 1] + (IF w - 1 \in x THEN Pow[w - 1] ELSE 0)
    BY UptoIs
  <2>4. CASE u < Pow[w - 1]
    <3>1. PICK x \in SUBSET (0..(w - 2)) : Upto(x)[w - 1] = u
      BY <1>3, <2>4
    <3>2. w - 1 \notin x /\ x \in SUBSET (0..(w - 1))
      BY <1>1
    <3>3. Upto(x)[w] = u
      BY <2>3, <3>1, <3>2
    <3>4. QED
      BY <3>2, <3>3
  <2>5. CASE ~(u < Pow[w - 1])
    <3>1. u - Pow[w - 1] \in Nat /\ u - Pow[w - 1] < Pow[w - 1]
      BY <2>1, <2>2, <2>5
    <3>2. PICK x \in SUBSET (0..(w - 2)) : Upto(x)[w - 1] = u - Pow[w - 1]
      BY <1>3, <3>1
    <3> DEFINE y == x \cup {w - 1}
    <3>3. y \in SUBSET (0..(w - 1)) /\ w - 1 \in y
      BY <1>1
    <3>4. \A b \in 0..((w - 1) - 1) : b \in x <=> b \in y
      BY <1>1
    <3> HIDE DEF y
    <3>5. Upto(x)[w - 1] - Upto(x)[0] = Upto(y)[w - 1] - Upto(y)[0]
      <4>1. 0 \in 0..Width /\ w - 1 \in 0..Width
        BY <1>1
      <4>2. QED
        BY <3>4, <4>1, UptoSame, Zenon
    <3>6. Upto(y)[w - 1] = u - Pow[w - 1]
      <4>1. Upto(x)[0] = 0 /\ Upto(y)[0] = 0
        BY UptoIs
      <4>2. Upto(x)[w - 1] \in Nat /\ Upto(y)[w - 1] \in Nat
        BY <1>1, UptoBound
      <4>3. QED
        BY <3>2, <3>5, <4>1, <4>2
    <3>7. Upto(y)[w] = u
      BY <2>2, <2>3, <3>3, <3>6
    <3>8. QED
      BY <3>3, <3>7
  <2>6. QED
    BY <2>4, <2>5
<1> HIDE DEF S
<1>4. 0..Width \subseteq S
  BY <1>1, <1>2, <1>3, Climb
<1>5. QED
  BY <1>4 DEF S

-----------------------------------------------------------------------------
(* The number q with v = c * q + r for an r below c.                       *)
LEMMA Quotient ==
    ASSUME NEW c \in Nat \ {0}, NEW q \in Nat, NEW r \in Nat, r < c
    PROVE  (c * q + r) \div c = q
<1> DEFINE v == c * q + r
<1>1. v \in Nat /\ v = c * q + r
  OBVIOUS
<1> HIDE DEF v
<1>2. v \div c = q
  BY <1>1
<1>3. QED
  BY <1>2 DEF v

LEMMA Remainder ==
    ASSUME NEW c \in Nat \ {0}, NEW v \in Nat
    PROVE  v \div c \in Nat /\ c * (v \div c) <= v /\ v < c * (v \div c) + c
OBVIOUS

(* The first and the last address of the range with a mask of len bits.    *)
Mask(len) == (Width - len)..(Width - 1)
First(a, len) == a \intersect Mask(len)
Last(a, len) == First(a, len) \cup (Bit \ Mask(len))

LEMMA FirstAndLast ==
    ASSUME NEW a \in Bits, NEW len \in 0..Width,
           NEW host, host = Pow[Width - len]
    PROVE  /\ Unsigned(First(a, len)) = host * (Unsigned(a) \div host)
           /\ Unsigned(Last(a, len)) = host * (Unsigned(a) \div host) + host - 1
<1> DEFINE m == Width - len
<1> DEFINE f == First(a, len)
<1> DEFINE l == Last(a, len)
<1>1. Width \in Nat /\ m \in 0..Width /\ Width \in m..Width
  BY WidthAssumption
<1>2. host \in Nat \ {0}
  BY <1>1, PowNat
<1>3. \A b \in m..(Width - 1) : (b \in f <=> b \in a) /\ (b \in l <=> b \in a)
  BY <1>1 DEF First, Last, Mask
<1>4. \A b \in 0..(m - 1) : b \notin f
  BY <1>1 DEF First, Mask
<1>5. 0..(m - 1) \subseteq l
  BY <1>1 DEF Last, Mask, Bit
<1> HIDE DEF m, f, l
<1>6. Upto(f)[m] = 0
  BY <1>1, <1>4, UptoZeros
<1>7. Upto(l)[m] = host - 1
  <2>1. Upto(l)[m] = Pow[m] - 1
    BY <1>1, <1>5, UptoOnes
  <2>2. QED
    BY <2>1 DEF m
<1>8. Upto(f)[Width] - Upto(f)[m] = Upto(a)[Width] - Upto(a)[m]
  BY <1>1, <1>3, UptoSame
<1>9. Upto(l)[Width] - Upto(l)[m] = Upto(a)[Width] - Upto(a)[m]
  BY <1>1, <1>3, UptoSame
<1>10. PICK q \in Nat : Upto(a)[Width] = host * q + Upto(a)[m]
  <2>1. \E q \in Nat : Upto(a)[Width] = Pow[m] * q + Upto(a)[m]
    BY <1>1, UptoMultiple
  <2>2. QED
    BY <2>1 DEF m
<1>11. Upto(a)[m] \in Nat /\ Upto(a)[m] < host
  <2>1. Upto(a)[m] \in Nat /\ Upto(a)[m] < Pow[m]
    BY <1>1, UptoBound
  <2>2. QED
    BY <2>1 DEF m
<1>12. Unsigned(a) \div host = q
  BY <1>2, <1>10, <1>11, Quotient DEF Unsigned
<1>13. /\ Upto(a)[Width] \in Nat /\ Upto(f)[Width] \in Nat /\ Upto(l)[Width] \in Nat
  BY <1>1, UptoBound
<1>14. host * q \in Nat
  BY <1>2
<1>15. Upto(f)[Width] = host * q
  BY <1>6, <1>8, <1>10, <1>11, <1>13, <1>14
<1>16. Upto(l)[Width] = host * q + host - 1
  BY <1>2, <1>7, <1>9, <1>10, <1>11, <1>13, <1>14
<1>17. QED
  BY <1>12, <1>15, <1>16 DEF Unsigned, f, l
(* The range of an entry is what lies between its ends.                    *)
LEMMA BetweenEnds ==
    ASSUME NEW cidr \in CIDR
    PROVE  Unsigned(First(cidr.addr, cidr.len)) .. Unsigned(Last(cidr.addr, cidr.len)) =
             {Unsigned(x) : x \in {y \in Bits : InRange(y, cidr)}}
<1> DEFINE host == Pow[Width - cidr.len]
<1> DEFINE q == Unsigned(cidr.addr) \div host
<1> DEFINE lo == Unsigned(First(cidr.addr, cidr.len))
<1> DEFINE hi == Unsigned(Last(cidr.addr, cidr.len))
<1>1. cidr.addr \in Bits /\ cidr.len \in 0..Width
  BY WidthAssumption DEF CIDR
<1>2. Width \in Nat /\ Width \in 0..Width /\ Width - cidr.len \in 0..Width
  BY <1>1, WidthAssumption
<1>3. host \in Nat \ {0}
  BY <1>2, PowNat
<1>4. lo = host * q /\ hi = host * q + host - 1
  BY <1>1, FirstAndLast
<1>5. \A x : Unsigned(x) \in Nat
  BY <1>2, UptoBound DEF Unsigned
<1>6. \A y : InRange(y, cidr) <=> Unsigned(y) \div host = q
  BY DEF InRange
<1>7. hi < Pow[Width]
  BY <1>2, UptoBound DEF Unsigned
<1> HIDE DEF host, q, lo, hi
<1>8. q \in Nat
  BY <1>3, <1>5, Remainder DEF q
<1>9. ASSUME NEW v \in lo..hi
      PROVE  \E x \in Bits : InRange(x, cidr) /\ Unsigned(x) = v
  <2>1. v \in Nat /\ v < Pow[Width]
    <3>1. host * q \in Nat /\ lo \in Nat /\ hi \in Nat
      BY <1>3, <1>4, <1>8
    <3>2. Pow[Width] \in Nat
      BY <1>2, PowNat
    <3>3. QED
      BY <1>7, <3>1, <3>2
  <2>2. PICK x \in SUBSET (0..(Width - 1)) : Upto(x)[Width] = v
    BY <1>2, <2>1, UptoOnto
  <2>3. x \in Bits /\ Unsigned(x) = v
    BY <2>2 DEF Bits, Bit, Unsigned
  <2>4. v \div host = q
    <3>1. host * q \in Nat
      BY <1>3, <1>8
    <3> DEFINE r == v - host * q
    <3>2. r \in Nat /\ r < host /\ v = host * q + r
      BY <1>3, <1>4, <2>1, <3>1
    <3> HIDE DEF r
    <3>3. QED
      BY <1>3, <1>8, <3>2, Quotient
  <2>5. QED
    BY <1>6, <2>3, <2>4
<1>10. ASSUME NEW y \in Bits, InRange(y, cidr)
       PROVE  Unsigned(y) \in lo..hi
  <2>1. Unsigned(y) \in Nat /\ Unsigned(y) \div host = q
    BY <1>5, <1>6, <1>10
  <2>2. host * q <= Unsigned(y) /\ Unsigned(y) < host * q + host
    BY <1>3, <2>1, Remainder
  <2>3. host * q \in Nat
    BY <1>3, <1>8
  <2>4. QED
    BY <1>3, <1>4, <2>1, <2>2, <2>3
<1>11. lo..hi = {Unsigned(x) : x \in {y \in Bits : InRange(y, cidr)}}
  BY <1>9, <1>10
<1>12. QED
  BY <1>11 DEF lo, hi

(* All that is ever found is the last address of a range that begins at 0  *)
(* or 1.                                                                   *)
FoundIsLast ==
    found => \E i \in 1..Entries :
        /\ Unsigned(First(cidrs[i].addr, cidrs[i].len)) <= 1
        /\ Unsigned(ip) = Unsigned(Last(cidrs[i].addr, cidrs[i].len))

(* What is or-ed into the variables goes into them when they are 0.        *)
RangeIInv ==
    /\ RangeTypeOK
    /\ step = "or" => netmask = {} /\ address = {}
    /\ step = "compare" =>
        /\ k <= Entries
        /\ address = cidrs[k].addr
        /\ netmask = Mask(cidrs[k].len)
    /\ OnlyListed /\ FoundIsLast

(* At the comparison network and broadcast are the ends of the entry.      *)
LEMMA Compared ==
    ASSUME RangeIInv, step = "compare"
    PROVE  /\ k \in 1..Entries /\ cidrs[k] \in CIDR
           /\ network = First(cidrs[k].addr, cidrs[k].len)
           /\ broadcast = Last(cidrs[k].addr, cidrs[k].len)
<1>1. k \in 1..Entries /\ cidrs \in [1..Entries -> CIDR]
  BY WidthAssumption DEF RangeIInv, RangeTypeOK
<1>2. QED
  BY <1>1 DEF RangeIInv, network, broadcast, First, Last

LEMMA EndsOfRangeHold == RangeIInv => EndsOfRange
<1> SUFFICES ASSUME RangeIInv, step = "compare"
             PROVE  Unsigned(network) .. Unsigned(broadcast) =
                      {Unsigned(x) : x \in {y \in Bits : InRange(y, cidrs[k])}}
  BY DEF EndsOfRange
<1> DEFINE cidr == cidrs[k]
<1>1. /\ cidr \in CIDR
      /\ network = First(cidr.addr, cidr.len)
      /\ broadcast = Last(cidr.addr, cidr.len)
  BY Compared
<1> HIDE DEF cidr
<1>2. Unsigned(network) .. Unsigned(broadcast) =
        {Unsigned(x) : x \in {y \in Bits : InRange(y, cidr)}}
  BY <1>1, BetweenEnds
<1>3. QED
  BY <1>2 DEF cidr
(* A remainder by p.                                                       *)
LEMMA Wrapped ==
    ASSUME NEW p \in Nat \ {0}, NEW r \in Nat, r < p
    PROVE  r % p = r /\ (r + p) % p = r /\ (r - p) % p = r
OBVIOUS

(* No power of two but the first two is below 4.                           *)
LEMMA PowFour ==
    ASSUME NEW n \in 0..Width, n # 1
    PROVE  Pow[n] = 1 \/ Pow[n] >= 4
<1>1. Width \in Nat
  BY WidthAssumption
<1>2. CASE n = 0
  BY <1>2, PowIs
<1>3. CASE n # 0
  <2>1. n \in 1..Width /\ n - 1 \in 1..Width /\ n - 2 \in 0..Width
    BY <1>1, <1>3
  <2>2. Pow[n] = 2 * Pow[n - 1] /\ Pow[n - 1] = 2 * Pow[n - 2]
    BY <2>1, PowIs
  <2>3. Pow[n - 2] \in Nat \ {0}
    BY <2>1, PowNat
  <2>4. QED
    BY <2>2, <2>3
<1>4. QED
  BY <1>2, <1>3

(* Of a range that begins above 1 the bounds compared with enclose nothing; *)
(* of another they are its last address.                                   *)
LEMMA HitIsInRange ==
    ASSUME RangeIInv, step = "compare",
           Low <= Unsigned(ip), Unsigned(ip) <= High
    PROVE  /\ InRange(ip, cidrs[k])
           /\ Unsigned(network) <= 1 /\ Unsigned(ip) = Unsigned(broadcast)
<1> DEFINE cidr == cidrs[k]
<1> DEFINE host == Pow[Width - cidr.len]
<1> DEFINE q == Unsigned(cidr.addr) \div host
<1> DEFINE lo == Unsigned(network)
<1> DEFINE hi == Unsigned(broadcast)
<1> DEFINE v == Unsigned(ip)
<1> DEFINE p == Pow[Width]
<1>1. /\ cidr \in CIDR
      /\ network = First(cidr.addr, cidr.len)
      /\ broadcast = Last(cidr.addr, cidr.len)
  BY Compared
<1>2. /\ cidr.addr \in Bits /\ cidr.len \in 0..Width /\ cidr.len # Width - 1
      /\ Width \in Nat \ {0} /\ Width \in 0..Width
      /\ Width - cidr.len \in 0..Width /\ Width - cidr.len # 1
  <2>1. cidr.addr \in Bits /\ cidr.len \in Lengths
    <3> HIDE DEF cidr
    <3>1. QED
      BY <1>1 DEF CIDR
  <2> HIDE DEF cidr
  <2>2. cidr.len \in 0..Width /\ cidr.len # Width - 1
    BY <2>1, WidthAssumption, LengthsAssumption
  <2>3. Width \in Nat \ {0}
    BY WidthAssumption
  <2>4. QED
    BY <2>1, <2>2, <2>3
<1>3. host \in Nat \ {0} /\ p \in Nat \ {0}
  BY <1>2, PowNat
<1>4. host = 1 \/ host >= 4
  BY <1>2, PowFour
<1>5. lo = host * q /\ hi = host * q + host - 1
  <2> HIDE DEF cidr
  <2>1. QED
    BY <1>1, <1>2, FirstAndLast
<1>6. \A x : Unsigned(x) \in Nat /\ Unsigned(x) < p
  BY <1>2, UptoBound DEF Unsigned
<1>7. lo \in Nat /\ hi \in Nat /\ v \in Nat /\ hi < p
  BY <1>6
<1>8. InRange(ip, cidr) <=> v \div host = q
  BY DEF InRange
<1>9. Unsigned(cidr.addr) \in Nat
  BY <1>6
<1>10. /\ Low = (hi - (IF lo > 1 THEN Signed(network) + 1 ELSE 0)) % p
       /\ High = (hi - (IF lo > 1 THEN Signed(broadcast) - 1 ELSE 0)) % p
  BY DEF Low, High
<1>11. /\ Signed(network) = lo \/ Signed(network) = lo - p
       /\ Signed(broadcast) = hi \/ Signed(broadcast) = hi - p
  BY <1>3, <1>7 DEF Signed
<1>12. Low <= v /\ v <= High
  OBVIOUS
<1> HIDE DEF cidr, host, q, lo, hi, v, p
<1>13. q \in Nat
  BY <1>3, <1>9, Remainder DEF q
<1>14. hi = lo + host - 1
  BY <1>3, <1>5, <1>7
<1>15. CASE lo > 1
  <2> DEFINE w == IF host = 1 THEN p - 1 ELSE host - 2
  <2>1. p > 2
    BY <1>3, <1>7, <1>14, <1>15
  <2>2. w \in Nat /\ w < p /\ w > 1
    BY <1>3, <1>4, <1>7, <1>14, <2>1
  <2>3. Low = w
    <3>1. \/ hi - (Signed(network) + 1) = w
          \/ hi - (Signed(network) + 1) = w + p
          \/ hi - (Signed(network) + 1) = w - p
      BY <1>3, <1>4, <1>7, <1>11, <1>14
    <3> HIDE DEF w
    <3>2. QED
      BY <1>3, <1>10, <1>15, <2>2, <3>1, Wrapped
  <2>4. High = 1
    <3>1. hi - (Signed(broadcast) - 1) = 1 \/ hi - (Signed(broadcast) - 1) = 1 + p
      BY <1>3, <1>7, <1>11
    <3>2. 1 \in Nat /\ 1 < p
      BY <1>3, <2>1
    <3>3. QED
      BY <1>3, <1>10, <1>15, <3>1, <3>2, Wrapped
  <2> HIDE DEF w
  <2>5. QED
    BY <1>7, <1>12, <2>2, <2>3, <2>4
<1>16. CASE ~(lo > 1)
  <2>1. Low = hi /\ High = hi
    <3>1. Low = hi % p /\ High = hi % p
      BY <1>7, <1>10, <1>16
    <3>2. QED
      BY <1>3, <1>7, <3>1, Wrapped
  <2>2. v = hi
    BY <1>7, <1>12, <2>1
  <2> DEFINE r == host - 1
  <2>3. r \in Nat /\ r < host /\ v = host * q + r
    BY <1>3, <1>5, <1>7, <1>14, <2>2
  <2> HIDE DEF r
  <2>4. v \div host = q
    BY <1>3, <1>13, <2>3, Quotient
  <2>5. QED
    BY <1>7, <1>8, <1>16, <2>2, <2>4 DEF cidr, lo, hi, v
<1>17. QED
  BY <1>15, <1>16

LEMMA InitRangeIInv == RangeInit => RangeIInv
<1> SUFFICES ASSUME RangeInit PROVE RangeIInv
  OBVIOUS
<1>1. 1 \in 1..(Entries + 1) /\ {} \in Bits
  BY WidthAssumption DEF Bits
<1>2. QED
  BY <1>1 DEF RangeInit, RangeIInv, RangeTypeOK, OnlyListed, FoundIsLast

(* The loop's head, the comparison and the end of the list.                *)
LEMMA NextRangeIInv == RangeIInv /\ [RangeNext]_rangeVars => RangeIInv'
<1> SUFFICES ASSUME RangeIInv, [RangeNext]_rangeVars PROVE RangeIInv'
  OBVIOUS
<1> USE WidthAssumption
<1>1. CASE OrIn
  <2>1. k \in 1..Entries /\ cidrs[k] \in CIDR
    BY <1>1 DEF RangeIInv, RangeTypeOK, OrIn
  <2>2. cidrs[k].addr \in Bits /\ cidrs[k].len \in 0..Width
    BY <2>1 DEF CIDR
  <2>3. {Width - 1 - j : j \in 0..(cidrs[k].len - 1)} = Mask(cidrs[k].len)
    <3> DEFINE len == cidrs[k].len
    <3>1. len \in 0..Width
      BY <2>2
    <3> HIDE DEF len
    <3>2. ASSUME NEW b \in Mask(len) PROVE \E j \in 0..(len - 1) : b = Width - 1 - j
      <4>1. Width - 1 - b \in 0..(len - 1) /\ b = Width - 1 - (Width - 1 - b)
        BY <3>1 DEF Mask
      <4>2. QED
        BY <4>1
    <3>3. {Width - 1 - j : j \in 0..(len - 1)} \subseteq Mask(len)
      BY <3>1 DEF Mask
    <3>4. {Width - 1 - j : j \in 0..(len - 1)} = Mask(len)
      BY <3>2, <3>3
    <3>5. QED
      BY <3>4 DEF len
  <2>4. address' = cidrs[k].addr /\ netmask' = Mask(cidrs[k].len)
    BY <1>1, <2>3 DEF RangeIInv, OrIn
  <2>5. Mask(cidrs[k].len) \in Bits
    BY <2>2 DEF Mask, Bits, Bit
  <2>6. step' = "compare" /\ UNCHANGED <<ip, cidrs, k, found>>
    BY <1>1 DEF OrIn
  <2>7. RangeTypeOK'
    BY <2>2, <2>4, <2>5, <2>6 DEF RangeIInv, RangeTypeOK
  <2>8. OnlyListed' /\ FoundIsLast'
    BY <2>6 DEF RangeIInv, OnlyListed, Listed, FoundIsLast
  <2>9. QED
    BY <2>1, <2>4, <2>6, <2>7, <2>8 DEF RangeIInv
<1>2. CASE Compare
  <2>1. step = "compare" /\ k \in 1..Entries /\ UNCHANGED <<ip, cidrs>>
    BY <1>2 DEF RangeIInv, RangeTypeOK, Compare
  <2>2. CASE Low <= Unsigned(ip) /\ Unsigned(ip) <= High
    <3>1. found' = TRUE /\ step' = "done" /\ UNCHANGED <<k, netmask, address>>
      BY <1>2, <2>2 DEF Compare
    <3>2. Listed
      BY <2>1, <2>2, HitIsInRange DEF Listed
    <3>3. OnlyListed'
      BY <2>1, <3>2 DEF OnlyListed, Listed
    <3>4. /\ Unsigned(First(cidrs[k].addr, cidrs[k].len)) <= 1
          /\ Unsigned(ip) = Unsigned(Last(cidrs[k].addr, cidrs[k].len))
      BY <2>1, <2>2, HitIsInRange, Compared
    <3>5. FoundIsLast'
      BY <2>1, <3>4 DEF FoundIsLast
    <3>6. RangeTypeOK'
      BY <2>1, <3>1 DEF RangeIInv, RangeTypeOK
    <3>7. QED
      BY <3>1, <3>3, <3>5, <3>6 DEF RangeIInv
  <2>3. CASE ~(Low <= Unsigned(ip) /\ Unsigned(ip) <= High)
    <3>1. k' = k + 1 /\ step' = "or" /\ netmask' = {} /\ address' = {} /\ UNCHANGED found
      BY <1>2, <2>3 DEF Compare
    <3>2. k + 1 \in 1..(Entries + 1) /\ {} \in Bits
      BY <2>1 DEF Bits
    <3>3. OnlyListed' /\ FoundIsLast'
      BY <2>1, <3>1 DEF RangeIInv, OnlyListed, Listed, FoundIsLast
    <3>4. RangeTypeOK'
      BY <2>1, <3>1, <3>2 DEF RangeIInv, RangeTypeOK
    <3>5. QED
      BY <3>1, <3>3, <3>4 DEF RangeIInv
  <2>4. QED
    BY <2>2, <2>3
<1>3. CASE Exhausted
  BY <1>3 DEF RangeIInv, RangeTypeOK, OnlyListed, FoundIsLast, Listed, Exhausted
<1>4. CASE UNCHANGED rangeVars
  BY <1>4 DEF RangeIInv, RangeTypeOK, OnlyListed, FoundIsLast, Listed, rangeVars
<1>5. QED
  BY <1>1, <1>2, <1>3, <1>4 DEF RangeNext

(* The inductive invariant holds of the loop over the list.                *)
THEOREM RangeInvariance == RangeSpec => []RangeIInv
BY InitRangeIInv, NextRangeIInv, PTL DEF RangeSpec

(* Every state of the loop has its type.                                   *)
THEOREM RangeTypeCorrect == RangeSpec => []RangeTypeOK
<1>1. RangeIInv => RangeTypeOK
  BY DEF RangeIInv
<1>2. QED
  BY <1>1, RangeInvariance, PTL

(* For words of any width and lists of any length: at the comparison       *)
(* network and broadcast are the ends of the entry's range.                *)
THEOREM EndsAreRight == RangeSpec => []EndsOfRange
BY EndsOfRangeHold, RangeInvariance, PTL

(* For words of any width and lists of any length without a range of two   *)
(* addresses: nothing goes around the proxy that no entry lists.           *)
THEOREM OnlyListedBypasses == RangeSpec => []OnlyListed
<1>1. RangeIInv => OnlyListed
  BY DEF RangeIInv
<1>2. QED
  BY <1>1, RangeInvariance, PTL

(* The general form of the violation of ListedIsFound: of a list without a *)
(* range of two addresses no address is found but the last one of a range  *)
(* that begins at 0 or 1.  In route_arrays.xml that is 0.0.0.0/8 alone.    *)
THEOREM NearlyNothingIsFound == RangeSpec => []FoundIsLast
<1>1. RangeIInv => FoundIsLast
  BY DEF RangeIInv
<1>2. QED
  BY <1>1, RangeInvariance, PTL
=============================================================================
