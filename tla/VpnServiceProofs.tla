-------------------------- MODULE VpnServiceProofs --------------------------
(***************************************************************************)
(* For any number of start calls, in any order with stop and revoke and    *)
(* however many workers overlap: the state stays well typed, conn never    *)
(* rests on a closed descriptor, and no field rests on a stopped SSRLocal, *)
(* pdnsd or tun2socks.  While no two starts overlap, besides: nothing that *)
(* runs is lost to its field, and an SSRLocal has its own start's profile. *)
(***************************************************************************)
EXTENDS VpnService, TLAPS

(* What the program counters say of the loop index k.                      *)
ThreadState == [pc : Pc, k : Nat, answer : Status \cup {"spawn"}]

RightIndex(r) ==
    /\ r.pc = "kill" => r.k \in 1..6
    /\ r.pc \in {"killStop", "killNull"} => r.k \in 1..5
    /\ r.pc = "store" => r.k \in Ref

Indexed == \A t \in Thread : RightIndex(thread[t])

(* Only the binder makes workers, and only at the end of killProcesses.    *)
Spawning ==
    /\ \A w \in Attempt : thread[w].answer # "spawn"
    /\ thread[Binder].answer = "spawn" => thread[Binder].pc \in {"kill", "killStop", "killNull"}

(* A start call names an attempt, and a worker at work has a connProfile.  *)
Profiled ==
    /\ \A i \in 1..Len(calls) : calls[i].op = "start" => calls[i].id \in 1..starts
    /\ profile \in 0..starts
    /\ thread[Binder].answer = "spawn" => profile # 0
    /\ \A w \in Attempt : thread[w].pc # "idle" => profile # 0

(* The worker of a start yet to be served, or being served, has not begun. *)
Fresh ==
    /\ \A w \in Attempt : w > starts => thread[w].pc = "idle"
    /\ \A i \in 1..Len(calls) : calls[i].op = "start" => thread[calls[i].id].pc = "idle"
    /\ thread[Binder].answer = "spawn" => thread[profile].pc = "idle"
    /\ \A i, j \in 1..Len(calls) :
          calls[i].op = "start" /\ calls[j].op = "start" /\ calls[i].id = calls[j].id => i = j
    /\ thread[Binder].answer = "spawn" =>
          \A i \in 1..Len(calls) : calls[i].op = "start" => calls[i].id # profile

Control == TypeOK /\ Indexed /\ Spawning /\ Profiled /\ Fresh
IInv == Control /\ ConnIsOpen /\ ReferredIsLive

USE BoundsAssumption, ClientAssumption, OpsAssumption DEF Attempt, Ref, Thread, Binder

(* The service's process as the system makes it: statuses for the clients  *)
(* may be under way from an earlier one.                                   *)
NewProcess ==
    /\ calls = <<>>
    /\ callback = NoClient
    /\ inbox \in Seq([to : Client, status : Status])
    /\ connected = FALSE
    /\ field = [f \in Field |-> 0]
    /\ obj = [f \in Field |-> [a \in Attempt |-> "none"]]
    /\ conn = 0
    /\ tun = {}
    /\ foreground = FALSE
    /\ profile = 0
    /\ server = [a \in Attempt |-> 0]
    /\ uses = [a \in Attempt |-> [profile |-> 0, address |-> 0]]
    /\ starts \in Ref
    /\ thread = [t \in Thread |-> Idle]
    /\ crashed = "no"

LEMMA NewProcessIInv == NewProcess => IInv
<1> SUFFICES ASSUME NewProcess PROVE IInv
  OBVIOUS
<1>1. \A t \in Thread : thread[t] = [pc |-> "idle", k |-> 0, answer |-> "FAILED"]
  BY DEF NewProcess, Idle
<1>2. /\ Len(calls) = 0 /\ calls \in Seq([op : Op, by : Client, id : Ref])
      /\ inbox \in Seq([to : Client, status : Status])
      /\ starts \in Ref /\ profile = 0
  BY DEF NewProcess
<1>3. TypeOK
  <2>1. thread \in [Thread -> ThreadState]
    BY DEF NewProcess, Idle, ThreadState, Pc, Status
  <2>2. field \in [Field -> Ref] /\ obj \in [Field -> [Attempt -> ObjState]]
    BY DEF NewProcess, ObjState
  <2>3. server \in [Attempt -> Ref] /\ uses \in [Attempt -> [profile : Ref, address : Ref]]
    BY DEF NewProcess
  <2>4. /\ callback \in Client \cup {NoClient} /\ connected \in BOOLEAN /\ conn \in Ref
        /\ tun \in SUBSET Attempt /\ foreground \in BOOLEAN /\ crashed \in Crash
    <3>1. callback = NoClient /\ conn = 0 /\ tun = {} /\ crashed = "no"
      BY DEF NewProcess
    <3>2. connected \in BOOLEAN /\ foreground \in BOOLEAN
      BY Zenon DEF NewProcess
    <3>3. QED
      BY <3>1, <3>2 DEF Crash
  <2>5. starts \in Ref /\ profile \in Ref
    BY <1>2
  <2>6. QED
    BY <1>2, <2>1, <2>2, <2>3, <2>4, <2>5 DEF TypeOK, ThreadState
<1>4. Indexed
  BY <1>1 DEF Indexed, RightIndex
<1>5. Spawning
  BY <1>1 DEF Spawning
<1>6. Profiled
  BY <1>1, <1>2 DEF Profiled
<1>7. Fresh
  BY <1>1, <1>2 DEF Fresh
<1>8. ConnIsOpen /\ ReferredIsLive
  BY DEF NewProcess, ConnIsOpen, ReferredIsLive, Field, Server
<1>9. QED
  BY <1>3, <1>4, <1>5, <1>6, <1>7, <1>8 DEF IInv, Control

(* The service as it is first made.                                        *)
LEMMA InitIInv == Init => IInv
<1>1. <<>> \in Seq([to : Client, status : Status])
  OBVIOUS
<1>2. Init => NewProcess
  BY <1>1 DEF Init, NewProcess
<1>3. QED
  BY <1>2, NewProcessIInv

-----------------------------------------------------------------------------
(* A step that only moves a thread already under way keeps what is said of *)
(* the control state.                                                      *)
LEMMA ThreadStep ==
    ASSUME Control, NEW t \in Thread, NEW r \in ThreadState,
           thread[t].pc # "idle",
           thread' = [thread EXCEPT ![t] = r],
           UNCHANGED <<calls, profile, starts>>,
           RightIndex(r),
           r.answer = "spawn" => /\ thread[t].answer = "spawn"
                                 /\ r.pc \in {"kill", "killStop", "killNull"}
    PROVE  thread' \in [Thread -> ThreadState] /\ Indexed' /\ Spawning' /\ Profiled' /\ Fresh'
<1>1. thread \in [Thread -> ThreadState] /\ starts \in Ref /\ calls \in Seq([op : Op, by : Client, id : Ref])
  BY DEF Control, TypeOK, ThreadState
<1>2. thread' \in [Thread -> ThreadState]
  BY <1>1
<1>3. thread'[t] = r /\ \A u \in Thread \ {t} : thread'[u] = thread[u]
  BY <1>1
<1>4. Indexed'
  BY <1>3 DEF Control, Indexed, RightIndex
<1>5. Spawning'
  BY <1>3 DEF Control, Spawning
<1>6. Profiled'
  BY <1>3 DEF Control, Spawning, Profiled
<1>7. Fresh'
  <2>1. \A i \in 1..Len(calls) : calls[i].op = "start" => calls[i].id \in Attempt \ {t}
    <3> SUFFICES ASSUME NEW i \in 1..Len(calls), calls[i].op = "start"
                 PROVE  calls[i].id \in Attempt \ {t}
      OBVIOUS
    <3>1. calls[i].id \in 1..starts /\ thread[calls[i].id].pc = "idle"
      BY DEF Control, Profiled, Fresh
    <3>2. QED
      BY <1>1, <3>1
  <2>2. thread'[Binder].answer = "spawn" => thread[Binder].answer = "spawn" /\ profile \in Attempt \ {t}
    BY <1>1, <1>3 DEF Control, Profiled, Fresh
  <2>3. \A w \in Attempt : w > starts => thread'[w].pc = "idle"
    BY <1>3 DEF Control, Fresh
  <2>4. QED
    BY <1>3, <2>1, <2>2, <2>3 DEF Control, Fresh
<1>8. QED
  BY <1>2, <1>4, <1>5, <1>6, <1>7

(* A step of t that leaves conn and tun alone, and is not the one that     *)
(* assigns null to conn.                                                   *)
LEMMA ConnKept ==
    ASSUME ConnIsOpen, thread \in [Thread -> ThreadState], NEW t \in Thread, NEW r,
           thread' = [thread EXCEPT ![t] = r],
           UNCHANGED <<conn, tun>>,
           thread[t].pc # "closeNull"
    PROVE  ConnIsOpen'
BY DEF ConnIsOpen

(* Likewise for the other fields and their objects.                        *)
LEMMA FieldsKept ==
    ASSUME ReferredIsLive, thread \in [Thread -> ThreadState], NEW t \in Thread, NEW r,
           thread' = [thread EXCEPT ![t] = r],
           UNCHANGED <<field, obj>>,
           thread[t].pc # "killNull"
    PROVE  ReferredIsLive'
BY DEF ReferredIsLive, KillingNow

(* What only TypeOK speaks of.                                             *)
Aside ==
    /\ callback \in Client \cup {NoClient}
    /\ inbox \in Seq([to : Client, status : Status])
    /\ connected \in BOOLEAN
    /\ foreground \in BOOLEAN
    /\ server \in [Attempt -> Ref]
    /\ uses \in [Attempt -> [profile : Ref, address : Ref]]
    /\ crashed \in Crash

Objects == field \in [Field -> Ref] /\ obj \in [Field -> [Attempt -> ObjState]]
Tun == conn \in Ref /\ tun \in SUBSET Attempt

(* The parts of the type invariant, one by one.                            *)
LEMMA TypeParts ==
    TypeOK <=> /\ Aside /\ Objects /\ Tun
               /\ calls \in Seq([op : Op, by : Client, id : Ref])
               /\ profile \in Ref /\ starts \in Ref
               /\ thread \in [Thread -> ThreadState]
BY DEF TypeOK, Aside, Objects, Tun, ThreadState

(* Thread t is under way and is given a state it may be in.                *)
Killing == {"kill", "killStop", "killNull"}
Moves(t) ==
    /\ thread[t].pc # "idle"
    /\ \E r \in ThreadState :
          /\ thread' = [thread EXCEPT ![t] = r]
          /\ RightIndex(r)
          /\ r.answer = "spawn" => thread[t].answer = "spawn" /\ r.pc \in Killing

(* A step of a thread under way, whatever it does to the objects, the tun  *)
(* and what lies aside, keeps the control state.                           *)
LEMMA ControlKept ==
    ASSUME Control, NEW t \in Thread, Moves(t),
           UNCHANGED <<calls, profile, starts>>,
           Aside', Objects', Tun'
    PROVE  Control'
<1>1. Indexed' /\ Spawning' /\ Profiled' /\ Fresh' /\ thread' \in [Thread -> ThreadState]
  BY ThreadStep DEF Moves, Killing
<1>2. /\ calls' \in Seq([op : Op, by : Client, id : Ref])
      /\ profile' \in Ref /\ starts' \in Ref
  BY DEF Control, TypeOK
<1>3. TypeOK'
  BY <1>1, <1>2 DEF TypeOK, Aside, Objects, Tun, ThreadState
<1>4. QED
  BY <1>1, <1>3 DEF Control

(* A step that moves a thread and changes nothing but what lies aside.     *)
LEMMA Moved ==
    ASSUME IInv, NEW t \in Thread, Moves(t),
           thread[t].pc \notin {"closeNull", "killNull"},
           UNCHANGED <<calls, profile, starts, field, obj, conn, tun>>,
           Aside'
    PROVE  IInv'
<1>1. Objects' /\ Tun' /\ thread \in [Thread -> ThreadState]
  BY DEF IInv, Control, TypeOK, Objects, Tun, ThreadState
<1>2. Control'
  BY <1>1, ControlKept DEF IInv
<1>3. ConnIsOpen' /\ ReferredIsLive'
  BY <1>1, ConnKept, FieldsKept DEF IInv, Moves
<1>4. QED
  BY <1>2, <1>3 DEF IInv

(* A thread that goes on to its next statement.                            *)
LEMMA GotoMoves ==
    ASSUME Control, NEW t \in Thread, thread[t].pc # "idle",
           NEW l \in Pc \ {"kill", "killStop", "killNull", "store"},
           thread[t].pc \notin Killing \/ thread[t].answer # "spawn",
           Goto(t, l)
    PROVE  Moves(t)
<1> DEFINE r == [thread[t] EXCEPT !.pc = l]
<1>1. thread \in [Thread -> ThreadState]
  BY DEF Control, TypeOK, ThreadState
<1>2. thread[t].answer # "spawn"
  BY DEF Control, Spawning, Killing
<1>3. r \in ThreadState /\ r.pc = l /\ r.answer # "spawn"
  BY <1>1, <1>2 DEF ThreadState
<1>4. thread' = [thread EXCEPT ![t] = r]
  BY <1>1 DEF Goto
<1>5. QED
  BY <1>3, <1>4 DEF Moves, RightIndex

(* A thread that goes on with a new loop index.                            *)
LEMMA CountMoves ==
    ASSUME Control, NEW t \in Thread, thread[t].pc # "idle",
           NEW l \in Pc, NEW n \in Nat, Count(t, l, n),
           l = "kill" => n \in 1..6,
           l \in {"killStop", "killNull"} => n \in 1..5,
           l = "store" => n \in Ref,
           l \in Killing \/ thread[t].pc \notin Killing
    PROVE  Moves(t)
<1> DEFINE r == [thread[t] EXCEPT !.pc = l, !.k = n]
<1>1. thread \in [Thread -> ThreadState]
  BY DEF Control, TypeOK, ThreadState
<1>2. r \in ThreadState /\ r.pc = l /\ r.k = n /\ r.answer = thread[t].answer
  BY <1>1 DEF ThreadState
<1>3. thread' = [thread EXCEPT ![t] = r]
  BY <1>1 DEF Count
<1>4. r.answer = "spawn" => r.pc \in Killing
  BY <1>2 DEF Control, Spawning, Killing
<1>5. QED
  BY <1>2, <1>3, <1>4 DEF Moves, RightIndex

(* A worker that enters stopRunner.                                        *)
LEMMA StopMoves ==
    ASSUME Control, NEW t \in Thread, thread[t].pc # "idle",
           NEW status \in Status, StopRunner(t, "reset", status)
    PROVE  Moves(t)
<1> DEFINE r == [pc |-> "reset", k |-> 0, answer |-> status]
<1>1. r \in ThreadState /\ r.answer # "spawn"
  BY DEF ThreadState, Pc, Status
<1>2. QED
  BY <1>1 DEF Moves, RightIndex, StopRunner

(* A thread that ends.                                                     *)
LEMMA IdleMoves ==
    ASSUME Control, NEW t \in Thread, thread[t].pc # "idle",
           thread' = [thread EXCEPT ![t] = Idle]
    PROVE  Moves(t)
<1>1. Idle \in ThreadState /\ Idle.pc = "idle" /\ Idle.answer # "spawn"
  BY DEF Idle, ThreadState, Pc, Status
<1>2. QED
  BY <1>1 DEF Moves, RightIndex

(* A thread that meets an exception.                                       *)
LEMMA ThrowMoves ==
    ASSUME Control, NEW t \in Thread, thread[t].pc # "idle",
           NEW why \in Crash, Throw(t, why)
    PROVE  Moves(t) /\ crashed' \in Crash
<1>1. thread \in [Thread -> ThreadState] /\ crashed \in Crash
  BY DEF Control, TypeOK, ThreadState
<1>2. CASE t = Binder
  BY <1>1, <1>2, IdleMoves DEF Throw
<1>3. CASE t # Binder
  <2> DEFINE r == thread[t]
  <2>1. r \in ThreadState /\ thread' = [thread EXCEPT ![t] = r] /\ crashed' \in Crash
    BY <1>1, <1>3 DEF Throw
  <2>2. RightIndex(r) /\ r.answer # "spawn"
    BY <1>3 DEF Control, Indexed, Spawning
  <2>3. QED
    BY <2>1, <2>2 DEF Moves
<1>4. QED
  BY <1>2, <1>3
(* A status on its way to the registered client.                           *)
LEMMA TellTyped ==
    ASSUME Aside, NEW status \in Status, Tell(status)
    PROVE  inbox' \in Seq([to : Client, status : Status])
<1>1. CASE callback = NoClient
  BY <1>1 DEF Aside, Tell
<1>2. CASE callback # NoClient
  <2>1. [to |-> callback, status |-> status] \in [to : Client, status : Status]
    BY <1>2 DEF Aside
  <2>2. inbox' = Append(inbox, [to |-> callback, status |-> status])
    BY <1>2 DEF Tell
  <2>3. QED
    BY <2>1, <2>2 DEF Aside
<1>3. QED
  BY <1>1, <1>2

(* What an inductive step starts from.                                     *)
LEMMA WhatHolds ==
    ASSUME IInv
    PROVE  Control /\ Aside /\ Objects /\ Tun /\ thread \in [Thread -> ThreadState]
BY TypeParts DEF IInv, Control

-----------------------------------------------------------------------------
(* stopRunner and killProcesses, an action at a time.                      *)
LEMMA StopMovesOnly ==
    ASSUME IInv, NEW t \in Thread,
           \/ Reset(t) \/ KillCheck(t) \/ StopForeground(t) \/ CloseCheck(t) \/ Answer(t)
    PROVE  IInv'
<1>1. Control /\ Aside /\ thread \in [Thread -> ThreadState] /\ RightIndex(thread[t])
  BY DEF IInv, Control, TypeOK, Aside, ThreadState, Indexed
<1>2. CASE Reset(t)
  <2>1. Moves(t)
    BY <1>1, <1>2, CountMoves DEF Reset, At, Pc, Killing
  <2>2. Aside'
    BY <1>1, <1>2 DEF Reset, Aside, io, plan
  <2>3. QED
    BY <1>2, <2>1, <2>2, Moved DEF Reset, At, io, plan
<1>3. CASE KillCheck(t)
  <2>1. thread[t].k \in 1..5 /\ thread[t].pc = "kill"
    BY <1>1, <1>3 DEF KillCheck, At, KillOrder, RightIndex
  <2>2. Moves(t)
    <3>1. CASE Count(t, "kill", thread[t].k + 1)
      BY <1>1, <2>1, <3>1, CountMoves DEF Pc, Killing
    <3>2. CASE Goto(t, "killStop")
      <4> DEFINE r == [thread[t] EXCEPT !.pc = "killStop"]
      <4>1. /\ r \in ThreadState /\ r.pc = "killStop" /\ r.k \in 1..5
            /\ r.answer = thread[t].answer /\ thread' = [thread EXCEPT ![t] = r]
        BY <1>1, <2>1, <3>2 DEF ThreadState, Pc, Goto
      <4>2. QED
        BY <2>1, <4>1 DEF Moves, RightIndex, Killing
    <3>3. QED
      BY <1>3, <3>1, <3>2 DEF KillCheck
  <2>3. QED
    BY <1>1, <1>3, <2>1, <2>2, Moved DEF KillCheck, io, data, plan, Aside
<1>4. CASE StopForeground(t)
  <2>1. Moves(t)
    BY <1>1, <1>4, GotoMoves DEF StopForeground, At, Pc, Killing
  <2>2. Aside'
    BY <1>1, <1>4 DEF StopForeground, Aside, io, plan
  <2>3. QED
    BY <1>4, <2>1, <2>2, Moved DEF StopForeground, At, io, plan
<1>5. CASE CloseCheck(t)
  <2>1. Moves(t)
    BY <1>1, <1>5, GotoMoves DEF CloseCheck, At, Pc, Killing
  <2>2. QED
    BY <1>1, <1>5, <2>1, Moved DEF CloseCheck, At, io, data, plan, Aside
<1>6. CASE Answer(t)
  <2>1. Moves(t)
    BY <1>1, <1>6, IdleMoves DEF Answer, At
  <2>2. thread[t].answer \in Status
    BY <1>1, <1>6 DEF Control, Spawning, Answer, At, ThreadState
  <2>3. Aside'
    BY <1>1, <1>6, <2>2, TellTyped DEF Answer, Aside, data, plan
  <2>4. QED
    BY <1>6, <2>1, <2>3, Moved DEF Answer, At, data, plan
<1>7. QED
  BY <1>2, <1>3, <1>4, <1>5, <1>6

(* killProcesses stops what a field refers to.                             *)
LEMMA KillStopStep ==
    ASSUME IInv, NEW t \in Thread, KillStop(t)
    PROVE  IInv'
<1> DEFINE f == KillOrder[thread[t].k]
<1>1. /\ Control /\ Aside /\ Objects /\ Tun /\ thread \in [Thread -> ThreadState]
      /\ thread[t].pc = "killStop" /\ thread[t].k \in 1..5 /\ f \in Field
  <2>1. thread[t].pc = "killStop" /\ thread[t].k \in 1..5
    BY WhatHolds DEF Control, Indexed, RightIndex, KillStop, At
  <2>2. QED
    BY <2>1, WhatHolds DEF KillOrder, Field, Server
<1>2. CASE Throw(t, "null") /\ UNCHANGED obj
  <2>1. Moves(t) /\ crashed' \in Crash
    BY <1>1, <1>2, ThrowMoves DEF Crash
  <2>2. QED
    BY <1>1, <1>2, <2>1, Moved DEF KillStop, io, plan, Aside
<1>3. CASE /\ field[f] # 0
           /\ obj' = [obj EXCEPT ![f][field[f]] = Stopped(obj[f][field[f]])]
           /\ IF f \in {"tunnel", "udprs"} /\ obj[f][field[f]] \in NotBegun
              THEN Throw(t, "noPool")
              ELSE Goto(t, "killNull") /\ UNCHANGED crashed
  <2>1. Moves(t) /\ crashed' \in Crash
    <3>1. CASE Throw(t, "noPool")
      BY <1>1, <3>1, ThrowMoves DEF Crash
    <3>2. CASE Goto(t, "killNull") /\ UNCHANGED crashed
      <4> DEFINE r == [thread[t] EXCEPT !.pc = "killNull"]
      <4>1. /\ r \in ThreadState /\ r.pc = "killNull" /\ r.k \in 1..5
            /\ r.answer = thread[t].answer /\ thread' = [thread EXCEPT ![t] = r]
        BY <1>1, <3>2 DEF ThreadState, Pc, Goto
      <4>2. QED
        BY <1>1, <3>2, <4>1 DEF Moves, RightIndex, Killing, Aside
    <3>3. QED
      BY <1>3, <3>1, <3>2
  <2>2. field[f] \in Attempt /\ \A s \in ObjState : Stopped(s) \in ObjState
    BY <1>1, <1>3 DEF Objects, Stopped, ObjState
  <2>3. Objects' /\ Tun' /\ Aside'
    BY <1>1, <1>3, <2>1, <2>2 DEF KillStop, Objects, Tun, Aside, io, plan
  <2>4. Control'
    BY <1>1, <2>1, <2>3, ControlKept DEF KillStop, io, plan
  <2>5. ConnIsOpen'
    BY <1>1, <2>1, ConnKept DEF IInv, Moves, KillStop
  <2>6. ReferredIsLive'
    <3> SUFFICES ASSUME NEW g \in {"local", "pdnsd", "tun2socks"}
                 PROVE  \/ field'[g] = 0
                        \/ obj'[g][field'[g]] \in {"new", "started", "running"}
                        \/ KillingNow(g)'
      BY DEF ReferredIsLive
    <3>1. UNCHANGED field
      BY DEF KillStop
    <3>2. CASE g = f
      <4>1. Goto(t, "killNull")
        BY <1>3, <3>2
      <4>2. thread'[t].pc = "killNull" /\ thread'[t].k = thread[t].k
        BY <1>1, <4>1 DEF Goto, ThreadState
      <4>3. QED
        BY <3>2, <4>2 DEF KillingNow
    <3>3. CASE g # f
      <4>1. g \in Field /\ obj'[g] = obj[g]
        BY <1>1, <1>3, <3>3 DEF Objects, Field, Server
      <4>2. KillingNow(g) => KillingNow(g)'
        BY <1>1, <2>1 DEF KillingNow, Moves
      <4>3. QED
        BY <3>1, <4>1, <4>2 DEF IInv, ReferredIsLive
    <3>4. QED
      BY <3>2, <3>3
  <2>7. QED
    BY <2>4, <2>5, <2>6 DEF IInv
<1>4. QED
  BY <1>2, <1>3 DEF KillStop

(* killProcesses assigns null to the field.                                *)
LEMMA KillNullStep ==
    ASSUME IInv, NEW t \in Thread, KillNull(t)
    PROVE  IInv'
<1> DEFINE f == KillOrder[thread[t].k]
<1>1. /\ Control /\ Aside /\ Objects /\ Tun /\ thread \in [Thread -> ThreadState]
      /\ thread[t].pc = "killNull" /\ thread[t].k \in 1..5 /\ f \in Field
  <2>1. thread[t].pc = "killNull" /\ thread[t].k \in 1..5
    BY WhatHolds DEF Control, Indexed, RightIndex, KillNull, At
  <2>2. QED
    BY <2>1, WhatHolds DEF KillOrder, Field, Server
<1>2. Moves(t)
  BY <1>1, CountMoves DEF KillNull, Pc, Killing
<1>3. Objects' /\ Tun' /\ Aside'
  <2>1. Objects'
    BY <1>1 DEF KillNull, Objects
  <2>2. Tun' /\ Aside'
    BY <1>1 DEF KillNull, Tun, Aside, io, plan
  <2>3. QED
    BY <2>1, <2>2
<1>4. Control'
  BY <1>1, <1>2, <1>3, ControlKept DEF KillNull, io, plan
<1>5. ConnIsOpen'
  BY <1>1, <1>2, ConnKept DEF IInv, Moves, KillNull
<1>6. ReferredIsLive'
  <2> SUFFICES ASSUME NEW g \in {"local", "pdnsd", "tun2socks"}, field'[g] # 0
               PROVE  \/ obj'[g][field'[g]] \in {"new", "started", "running"}
                      \/ KillingNow(g)'
    BY DEF ReferredIsLive
  <2>1. g # f /\ field'[g] = field[g]
    BY <1>1 DEF KillNull, Objects, Field, Server
  <2>2. KillingNow(g) => KillingNow(g)'
    BY <1>1, <1>2, <2>1 DEF KillingNow, Moves
  <2>3. QED
    BY <2>1, <2>2 DEF IInv, ReferredIsLive, KillNull
<1>7. QED
  BY <1>4, <1>5, <1>6 DEF IInv

(* The new worker had not begun, so none of what it might have been doing  *)
(* is lost.                                                                *)
LEMMA KillDoneStep ==
    ASSUME IInv, NEW t \in Thread, KillDone(t)
    PROVE  IInv'
<1>1. /\ Control /\ Aside /\ Objects /\ Tun /\ thread \in [Thread -> ThreadState]
      /\ thread[t].pc = "kill" /\ UNCHANGED <<io, data, starts, crashed>>
  BY WhatHolds DEF KillDone, At
<1>2. CASE thread[t].answer # "spawn"
  <2>1. Moves(t)
    BY <1>1, <1>2, GotoMoves DEF KillDone, Pc
  <2>2. QED
    BY <1>1, <2>1, Moved DEF io, data, plan, Aside
<1>3. CASE thread[t].answer = "spawn"
  <2>1. /\ t = Binder /\ profile \in Attempt /\ thread[profile].pc = "idle"
        /\ profile \in 1..starts /\ starts \in Ref
    BY <1>1, <1>3 DEF Control, TypeOK, Spawning, Profiled, Fresh
  <2> DEFINE r == [thread[profile] EXCEPT !.pc = "resolve"]
  <2>2. thread' = [thread EXCEPT ![t] = Idle, ![profile] = r]
    BY <1>1, <1>3, <2>1 DEF KillDone
  <2>3. /\ r \in ThreadState /\ r.pc = "resolve" /\ r.answer = thread[profile].answer
        /\ Idle \in ThreadState /\ Idle.pc = "idle" /\ Idle.answer # "spawn"
    BY <1>1, <2>1 DEF ThreadState, Pc, Idle, Status
  <2> HIDE DEF r
  <2>4. /\ thread' \in [Thread -> ThreadState] /\ thread'[t] = Idle /\ thread'[profile] = r
        /\ \A u \in Thread \ {t, profile} : thread'[u] = thread[u]
    BY <1>1, <2>1, <2>2, <2>3
  <2>5. Indexed'
    BY <1>1, <2>1, <2>3, <2>4 DEF Control, Indexed, RightIndex
  <2>6. Spawning'
    BY <1>1, <2>1, <2>3, <2>4 DEF Control, Spawning
  <2>7. Profiled'
    BY <1>1, <2>1, <2>4 DEF Control, Profiled, io, data, plan
  <2>8. Fresh'
    <3>1. \A w \in Attempt : w > starts => thread'[w].pc = "idle"
      BY <1>1, <2>1, <2>4 DEF Control, Fresh
    <3>2. ASSUME NEW i \in 1..Len(calls), calls[i].op = "start"
          PROVE  thread'[calls[i].id].pc = "idle"
      <4>1. calls[i].id \in 1..starts /\ calls[i].id # profile /\ thread[calls[i].id].pc = "idle"
        BY <1>1, <1>3, <2>1, <3>2 DEF Control, Profiled, Fresh
      <4>2. calls[i].id \in Thread \ {t, profile}
        BY <2>1, <4>1
      <4>3. QED
        BY <2>4, <4>1, <4>2
    <3>3. thread'[Binder].answer # "spawn"
      BY <2>1, <2>3, <2>4
    <3>4. QED
      BY <1>1, <3>1, <3>2, <3>3 DEF Control, Fresh, io, data, plan
  <2>9. TypeOK'
    BY <1>1, <2>4 DEF Control, TypeOK, ThreadState, io, data, plan
  <2>10. ConnIsOpen'
    BY <1>1, <2>1, <2>4 DEF IInv, ConnIsOpen, data
  <2>11. ReferredIsLive'
    BY <1>1, <2>1, <2>4 DEF IInv, ReferredIsLive, KillingNow, data
  <2>12. QED
    BY <2>5, <2>6, <2>7, <2>8, <2>9, <2>10, <2>11 DEF IInv, Control
<1>4. QED
  BY <1>2, <1>3

(* conn!!.close().                                                         *)
LEMMA CloseStep ==
    ASSUME IInv, NEW t \in Thread, CloseFd(t) \/ CloseNull(t)
    PROVE  IInv'
<1>1. /\ Control /\ Aside /\ Objects /\ Tun /\ thread \in [Thread -> ThreadState]
  BY WhatHolds
<1>2. CASE CloseFd(t)
  <2>1. Moves(t) /\ crashed' \in Crash
    <3>1. CASE Throw(t, "null")
      BY <1>1, <1>2, <3>1, ThrowMoves DEF CloseFd, At, Crash
    <3>2. CASE Goto(t, "closeNull") /\ UNCHANGED crashed
      BY <1>1, <1>2, <3>2, GotoMoves DEF CloseFd, At, Pc, Killing, Aside
    <3>3. QED
      BY <1>2, <3>1, <3>2 DEF CloseFd
  <2>2. Objects' /\ Tun' /\ Aside'
    BY <1>1, <1>2, <2>1 DEF CloseFd, Objects, Tun, Aside, io, plan
  <2>3. Control'
    BY <1>1, <1>2, <2>1, <2>2, ControlKept DEF CloseFd, io, plan
  <2>4. ConnIsOpen'
    <3>1. CASE conn = 0
      BY <1>2, <3>1 DEF CloseFd, ConnIsOpen
    <3>2. CASE conn # 0
      <4>1. thread'[t].pc = "closeNull"
        BY <1>1, <1>2, <3>2 DEF CloseFd, Goto, ThreadState
      <4>2. QED
        BY <4>1 DEF ConnIsOpen
    <3>3. QED
      BY <3>1, <3>2
  <2>5. ReferredIsLive'
    BY <1>1, <1>2, <2>1, FieldsKept DEF IInv, Moves, CloseFd, At
  <2>6. QED
    BY <2>3, <2>4, <2>5 DEF IInv
<1>3. CASE CloseNull(t)
  <2>1. Moves(t)
    BY <1>1, <1>3, GotoMoves DEF CloseNull, At, Pc, Killing
  <2>2. Objects' /\ Tun' /\ Aside'
    BY <1>1, <1>3 DEF CloseNull, Objects, Tun, Aside, io, plan
  <2>3. Control'
    BY <1>1, <1>3, <2>1, <2>2, ControlKept DEF CloseNull, io, plan
  <2>4. ConnIsOpen'
    BY <1>3 DEF CloseNull, ConnIsOpen
  <2>5. ReferredIsLive'
    BY <1>1, <1>3, <2>1, FieldsKept DEF IInv, Moves, CloseNull, At
  <2>6. QED
    BY <2>3, <2>4, <2>5 DEF IInv
<1>4. QED
  BY <1>2, <1>3
-----------------------------------------------------------------------------
(* The worker, an action at a time.                                        *)
LEMMA WorkMovesOnly ==
    ASSUME IInv, NEW w \in Attempt,
           \/ Resolve(w) \/ StoreAddress(w) \/ CheckConn(w) \/ Sleep(w) \/ SendFd(w)
           \/ SetConnected(w) \/ TellConnected(w) \/ StartForeground(w)
    PROVE  IInv'
<1>1. /\ Control /\ Aside /\ Objects /\ Tun /\ thread \in [Thread -> ThreadState]
      /\ w \in Thread /\ RightIndex(thread[w])
  BY WhatHolds DEF Control, Indexed
<1>2. CASE Resolve(w)
  <2>1. Moves(w)
    <3>1. CASE Goto(w, "newLocal")
      BY <1>1, <1>2, <3>1, GotoMoves DEF Resolve, At, Pc, Killing
    <3>2. CASE Count(w, "store", profile)
      <4>1. profile \in Ref
        BY <1>1 DEF Control, TypeOK
      <4>2. QED
        BY <1>1, <1>2, <3>2, <4>1, CountMoves DEF Resolve, At, Pc, Killing
    <3>3. CASE StopRunner(w, "reset", "FAILED")
      BY <1>1, <1>2, <3>3, StopMoves DEF Resolve, At, Status
    <3>4. QED
      BY <1>2, <3>1, <3>2, <3>3 DEF Resolve
  <2>2. QED
    BY <1>1, <1>2, <2>1, Moved DEF Resolve, At, io, data, plan, Aside
<1>3. CASE StoreAddress(w)
  <2>1. Moves(w)
    BY <1>1, <1>3, GotoMoves DEF StoreAddress, At, Pc, Killing
  <2>2. thread[w].k \in Ref
    BY <1>1, <1>3 DEF StoreAddress, At, RightIndex
  <2>3. Aside'
    BY <1>1, <1>3, <2>2 DEF StoreAddress, Aside, io
  <2>4. QED
    BY <1>1, <1>3, <2>1, <2>3, Moved DEF StoreAddress, At, io
<1>4. CASE CheckConn(w)
  <2>1. Moves(w)
    <3>1. CASE StopRunner(w, "reset", "FAILED")
      BY <1>1, <1>4, <3>1, StopMoves DEF CheckConn, At, Status
    <3>2. CASE Goto(w, "tun2socks")
      BY <1>1, <1>4, <3>2, GotoMoves DEF CheckConn, At, Pc, Killing
    <3>3. QED
      BY <1>4, <3>1, <3>2 DEF CheckConn
  <2>2. QED
    BY <1>1, <1>4, <2>1, Moved DEF CheckConn, At, io, data, plan, Aside
<1>5. CASE Sleep(w)
  <2>1. Moves(w)
    BY <1>1, <1>5, GotoMoves DEF Sleep, At, Pc, Killing
  <2>2. QED
    BY <1>1, <1>5, <2>1, Moved DEF Sleep, At, io, data, plan, Aside
<1>6. CASE SendFd(w)
  <2>1. Moves(w)
    <3>1. CASE Goto(w, "connected")
      BY <1>1, <1>6, <3>1, GotoMoves DEF SendFd, At, Pc, Killing
    <3>2. CASE Count(w, "sleep", thread[w].k + 1)
      <4>1. thread[w].k + 1 \in Nat
        BY <1>1 DEF ThreadState
      <4>2. QED
        BY <1>1, <1>6, <3>2, <4>1, CountMoves DEF SendFd, At, Pc, Killing
    <3>3. CASE StopRunner(w, "reset", "FAILED")
      BY <1>1, <1>6, <3>3, StopMoves DEF SendFd, At, Status
    <3>4. QED
      BY <1>6, <3>1, <3>2, <3>3 DEF SendFd
  <2>2. QED
    BY <1>1, <1>6, <2>1, Moved DEF SendFd, At, io, data, plan, Aside
<1>7. CASE SetConnected(w)
  <2>1. Moves(w)
    BY <1>1, <1>7, GotoMoves DEF SetConnected, At, Pc, Killing
  <2>2. Aside'
    BY <1>1, <1>7 DEF SetConnected, Aside, io, plan
  <2>3. QED
    BY <1>1, <1>7, <2>1, <2>2, Moved DEF SetConnected, At, io, plan
<1>8. CASE TellConnected(w)
  <2>1. Moves(w)
    BY <1>1, <1>8, GotoMoves DEF TellConnected, At, Pc, Killing
  <2>2. Aside'
    BY <1>1, <1>8, TellTyped DEF TellConnected, Aside, Status, data, plan
  <2>3. QED
    BY <1>1, <1>8, <2>1, <2>2, Moved DEF TellConnected, At, data, plan
<1>9. CASE StartForeground(w)
  <2>1. Moves(w)
    BY <1>1, <1>9, IdleMoves DEF StartForeground, At
  <2>2. Aside'
    BY <1>1, <1>9 DEF StartForeground, Aside, io, plan
  <2>3. QED
    BY <1>1, <1>9, <2>1, <2>2, Moved DEF StartForeground, At, io, plan
<1>10. QED
  BY <1>2, <1>3, <1>4, <1>5, <1>6, <1>7, <1>8, <1>9

(* A step of a thread under way that makes a component f of attempt w, or  *)
(* brings the one it refers to from one state to a later, live or already  *)
(* stopped one.                                                            *)
LEMMA ObjectStep ==
    ASSUME IInv, NEW t \in Thread, Moves(t), thread[t].pc \notin {"closeNull", "killNull"},
           UNCHANGED <<calls, profile, starts, conn, tun>>, Aside',
           NEW f \in Field, NEW a \in Attempt, NEW s \in ObjState,
           obj' = [obj EXCEPT ![f][a] = s],
           \/ field' = [field EXCEPT ![f] = a] /\ s \in {"new", "running"}
           \/ /\ UNCHANGED field
              /\ s \in {"started", "running"} \/ obj[f][a] \notin {"new", "started", "running"}
    PROVE  IInv'
<1>1. /\ Control /\ Aside /\ Objects /\ Tun /\ thread \in [Thread -> ThreadState]
  BY WhatHolds
<1>2. Objects' /\ Tun'
  <2>1. field' \in [Field -> Ref]
    BY <1>1 DEF Objects
  <2>2. obj' \in [Field -> [Attempt -> ObjState]]
    BY <1>1 DEF Objects
  <2>3. QED
    BY <1>1, <2>1, <2>2 DEF Objects, Tun
<1>3. Control'
  BY <1>1, <1>2, ControlKept
<1>4. ConnIsOpen'
  BY <1>1, ConnKept DEF IInv, Moves
<1>5. ReferredIsLive'
  <2> SUFFICES ASSUME NEW g \in {"local", "pdnsd", "tun2socks"}, field'[g] # 0,
                      ~KillingNow(g)'
               PROVE  obj'[g][field'[g]] \in {"new", "started", "running"}
    BY DEF ReferredIsLive
  <2>1. ~KillingNow(g)
    BY <1>1 DEF KillingNow, Moves
  <2>2. g \in Field /\ field \in [Field -> Ref] /\ obj \in [Field -> [Attempt -> ObjState]]
    BY <1>1 DEF Objects, Field, Server
  <2>3. field[g] = 0 \/ obj[g][field[g]] \in {"new", "started", "running"}
    BY <2>1 DEF IInv, ReferredIsLive
  <2>4. CASE g = f /\ field'[g] = a
    <3>1. obj'[g][field'[g]] = s
      BY <2>2, <2>4
    <3>2. QED
      BY <2>2, <2>3, <2>4, <3>1
  <2>5. CASE ~(g = f /\ field'[g] = a)
    <3>1. field'[g] = field[g]
      BY <2>2, <2>5
    <3>2. field[g] \in Attempt
      BY <2>2, <3>1
    <3>3. obj'[g][field[g]] = obj[g][field[g]]
      BY <2>2, <2>5, <3>1, <3>2
    <3>4. QED
      BY <2>3, <3>1, <3>3
  <2>6. QED
    BY <2>4, <2>5
<1>6. QED
  BY <1>3, <1>4, <1>5 DEF IInv
(* A worker makes a proxy server.                                          *)
LEMMA NewServerStep ==
    ASSUME IInv, NEW w \in Attempt, NEW l \in Pc, NEW f \in Server,
           NEW then \in Pc \ {"kill", "killStop", "killNull", "store"},
           l \notin {"idle", "kill", "killStop", "killNull", "closeNull"},
           NewServer(w, l, f, then)
    PROVE  IInv'
<1>1. /\ Control /\ Aside /\ thread[w].pc = l /\ w \in Thread /\ f \in Field
  BY WhatHolds DEF NewServer, At, Field
<1>2. Moves(w)
  BY <1>1, GotoMoves DEF NewServer, Killing
<1>3. profile \in Attempt
  <2>1. profile \in Ref
    BY <1>1 DEF Control, TypeOK
  <2>2. thread[w].pc # "idle"
    BY <1>1
  <2>3. profile # 0
    BY <1>1, <2>2 DEF Control, Profiled
  <2>4. QED
    BY <2>1, <2>3
<1>4. Aside'
  BY <1>1, <1>3 DEF NewServer, Aside, io
<1>5. "new" \in ObjState
  BY DEF ObjState
<1>6. QED
  BY <1>1, <1>2, <1>4, <1>5, ObjectStep DEF NewServer, io

(* A worker starts the server a field refers to.                           *)
LEMMA StartServerStep ==
    ASSUME IInv, NEW w \in Attempt, NEW l \in Pc, NEW f \in Server,
           NEW then \in Pc \ {"kill", "killStop", "killNull", "store"},
           l \notin {"idle", "kill", "killStop", "killNull", "closeNull"},
           StartServer(w, l, f, then)
    PROVE  IInv'
<1> DEFINE a == field[f]
<1>1. /\ Control /\ Aside /\ Objects /\ thread[w].pc = l /\ w \in Thread /\ f \in Field
  BY WhatHolds DEF StartServer, At, Field
<1>2. UNCHANGED <<io, connected, field, conn, tun, foreground, plan, starts>>
  BY DEF StartServer
<1>3. CASE UNCHANGED obj /\ (Throw(w, "null") \/ Throw(w, "restarted"))
  <2>1. Moves(w) /\ crashed' \in Crash
    BY <1>1, <1>3, ThrowMoves DEF Crash
  <2>2. QED
    BY <1>1, <1>2, <1>3, <2>1, Moved DEF io, plan, Aside
<1>4. CASE /\ a # 0 /\ obj[f][a] \in {"new", "cancelled"}
           /\ obj' = [obj EXCEPT ![f][a] = IF @ = "new" THEN "started" ELSE "doomed"]
           /\ Goto(w, then) /\ UNCHANGED crashed
  <2>1. Moves(w)
    BY <1>1, <1>4, GotoMoves DEF Killing
  <2>2. Aside'
    BY <1>1, <1>2, <1>4 DEF io, plan, Aside
  <2>3. a \in Attempt
    BY <1>1, <1>4 DEF Objects
  <2> DEFINE s == IF obj[f][a] = "new" THEN "started" ELSE "doomed"
  <2>4. /\ s \in ObjState /\ obj' = [obj EXCEPT ![f][a] = s]
        /\ s \in {"started", "running"} \/ obj[f][a] \notin {"new", "started", "running"}
    BY <1>1, <1>4, <2>3 DEF ObjState, Objects
  <2>5. QED
    BY <1>1, <1>2, <2>1, <2>2, <2>3, <2>4, ObjectStep DEF io, plan
<1>5. QED
  BY <1>3, <1>4 DEF StartServer

(* A worker starts a child process.                                        *)
LEMMA StartProcessStep ==
    ASSUME IInv, NEW w \in Attempt, NEW f \in Field, NEW then,
           thread[w].pc \in {"startPdnsd", "tun2socks"},
           then => Moves(w),
           StartProcess(w, f, then)
    PROVE  IInv'
<1>1. Control /\ Aside /\ w \in Thread
  BY WhatHolds
<1>2. UNCHANGED <<io, connected, conn, tun, foreground, plan, starts>>
  BY DEF StartProcess
<1>3. CASE /\ field' = [field EXCEPT ![f] = w]
           /\ obj' = [obj EXCEPT ![f][w] = "running"]
           /\ then
           /\ UNCHANGED crashed
  <2>1. Aside' /\ "running" \in ObjState
    BY <1>1, <1>2, <1>3 DEF Aside, ObjState, io, plan
  <2>2. QED
    BY <1>1, <1>2, <1>3, <2>1, ObjectStep DEF io, plan
<1>4. CASE Throw(w, "exec") /\ UNCHANGED <<field, obj>>
  <2>1. Moves(w) /\ crashed' \in Crash
    BY <1>1, <1>4, ThrowMoves DEF Crash
  <2>2. QED
    BY <1>1, <1>2, <1>4, <2>1, Moved DEF io, plan, Aside
<1>5. QED
  BY <1>3, <1>4 DEF StartProcess

(* A worker is given a tun, or none.                                       *)
LEMMA EstablishStep ==
    ASSUME IInv, NEW w \in Attempt, Establish(w)
    PROVE  IInv'
<1>1. /\ Control /\ Aside /\ Objects /\ Tun /\ thread \in [Thread -> ThreadState]
      /\ w \in Thread
  BY WhatHolds
<1>2. Moves(w)
  BY <1>1, GotoMoves DEF Establish, At, Pc, Killing
<1>3. Objects' /\ Tun' /\ Aside'
  <2>1. Objects' /\ Aside'
    BY <1>1 DEF Establish, Objects, Aside, io, plan
  <2>2. Tun'
    <3>1. CASE conn' = w /\ tun' = tun \cup {w}
      BY <1>1, <3>1 DEF Tun
    <3>2. CASE conn' = 0 /\ UNCHANGED tun
      BY <1>1, <3>2 DEF Tun
    <3>3. QED
      BY <3>1, <3>2 DEF Establish
  <2>3. QED
    BY <2>1, <2>2
<1>4. Control'
  BY <1>1, <1>2, <1>3, ControlKept DEF Establish, io, plan
<1>5. ConnIsOpen'
  BY DEF Establish, ConnIsOpen
<1>6. ReferredIsLive'
  BY <1>1, <1>2, FieldsKept DEF IInv, Moves, Establish, At
<1>7. QED
  BY <1>4, <1>5, <1>6 DEF IInv

(* A worker hands the tun to tun2socks.                                    *)
LEMMA StartTun2socksStep ==
    ASSUME IInv, NEW w \in Attempt, StartTun2socks(w)
    PROVE  IInv'
<1>1. /\ Control /\ Aside /\ thread[w].pc = "tun2socks" /\ w \in Thread
  BY WhatHolds DEF StartTun2socks, At
<1>2. CASE StartProcess(w, "tun2socks", Count(w, "sleep", 1))
  <2>1. Count(w, "sleep", 1) => Moves(w)
    BY <1>1, CountMoves DEF Pc, Killing
  <2>2. QED
    BY <1>1, <1>2, <2>1, StartProcessStep DEF Field
<1>3. CASE Throw(w, "null") /\ UNCHANGED <<io, data, starts>>
  <2>1. Moves(w) /\ crashed' \in Crash
    BY <1>1, <1>3, ThrowMoves DEF Crash
  <2>2. QED
    BY <1>1, <1>3, <2>1, Moved DEF io, data, plan, Aside
<1>4. QED
  BY <1>2, <1>3 DEF StartTun2socks

(* Every step of a worker in startRunner.                                  *)
LEMMA WorkStep ==
    ASSUME IInv, NEW w \in Attempt, Work(w)
    PROVE  IInv'
<1>1. CASE \/ Resolve(w) \/ StoreAddress(w) \/ CheckConn(w) \/ Sleep(w) \/ SendFd(w)
           \/ SetConnected(w) \/ TellConnected(w) \/ StartForeground(w)
  BY <1>1, WorkMovesOnly
<1>2. CASE StartLocal(w)
  BY <1>2, NewServerStep, StartServerStep DEF StartLocal, Pc, Server
<1>3. CASE StartUdp(w)
  BY <1>3, NewServerStep, StartServerStep DEF StartUdp, Pc, Server
<1>4. CASE StartTunnel(w)
  <2>1. ASSUME NEW l \in {"establish", "newTunnel"}, At(w, "ifTunnel"), Goto(w, l),
               UNCHANGED <<io, data, starts, crashed>>
        PROVE  IInv'
    <3>1. Control /\ Aside /\ w \in Thread /\ thread[w].pc = "ifTunnel" /\ l \in Pc
      BY <2>1, WhatHolds DEF At, Pc
    <3>2. Moves(w)
      BY <2>1, <3>1, GotoMoves DEF Killing
    <3>3. QED
      BY <2>1, <3>1, <3>2, Moved DEF io, data, plan, Aside
  <2>2. QED
    BY <1>4, <2>1, NewServerStep, StartServerStep DEF StartTunnel, IfTunnel, Pc, Server
<1>5. CASE StartDnsDaemon(w)
  <2>1. thread[w].pc = "startPdnsd" /\ StartProcess(w, "pdnsd", Goto(w, "establish"))
    BY <1>5 DEF StartDnsDaemon, At
  <2>2. Goto(w, "establish") => Moves(w)
    BY <2>1, WhatHolds, GotoMoves DEF Pc, Killing
  <2>3. QED
    BY <2>1, <2>2, StartProcessStep DEF Field
<1>6. CASE Establish(w)
  BY <1>6, EstablishStep
<1>7. CASE StartTun2socks(w)
  BY <1>7, StartTun2socksStep
<1>8. QED
  BY <1>1, <1>2, <1>3, <1>4, <1>5, <1>6, <1>7 DEF Work

-----------------------------------------------------------------------------
(* What is not a step of a thread under way.                               *)
LEMMA ServerBeginsStep ==
    ASSUME IInv, NEW f \in Server, NEW a \in Attempt, ServerBegins(f, a)
    PROVE  IInv'
<1>1. Control /\ Aside /\ Objects /\ Tun
  BY WhatHolds
<1>2. UNCHANGED <<io, connected, field, conn, tun, foreground, plan, starts, thread, crashed>>
  BY DEF ServerBegins
<1> DEFINE s == IF obj[f][a] = "started" THEN "running" ELSE "stopped"
<1>3. /\ obj[f][a] \in {"started", "doomed"} /\ f \in Field
      /\ obj' = [obj EXCEPT ![f][a] = s] /\ s \in ObjState
  BY <1>1 DEF ServerBegins, Objects, Field, ObjState
<1>4. obj' \in [Field -> [Attempt -> ObjState]]
  BY <1>1, <1>3 DEF Objects
<1>5. TypeOK'
  BY <1>1, <1>2, <1>4 DEF Control, TypeOK, io, plan
<1>6. Control'
  BY <1>1, <1>2, <1>5 DEF Control, Indexed, Spawning, Profiled, Fresh, io, plan
<1>7. ConnIsOpen'
  BY <1>2 DEF IInv, ConnIsOpen
<1>8. ReferredIsLive'
  <2> SUFFICES ASSUME NEW g \in {"local", "pdnsd", "tun2socks"}, field[g] # 0, ~KillingNow(g)
               PROVE  obj'[g][field[g]] \in {"new", "started", "running"}
    BY <1>2 DEF ReferredIsLive, KillingNow
  <2>1. obj[g][field[g]] \in {"new", "started", "running"} /\ g \in Field /\ field[g] \in Attempt
    BY <1>1 DEF IInv, ReferredIsLive, Objects, Field, Server
  <2>2. QED
    BY <1>1, <1>3, <2>1 DEF Objects
<1>9. QED
  BY <1>6, <1>7, <1>8 DEF IInv

Calls == [op : Op, by : Client, id : Ref]

(* A call joins the queue, whoever makes it.                               *)
LEMMA PostStep ==
    ASSUME IInv, NEW op \in Op, NEW c \in Client, Post(op, c),
           UNCHANGED <<callback, data, thread, crashed>>,
           inbox' \in Seq([to : Client, status : Status]),
           op = "start" => starts < MaxStarts
    PROVE  IInv'
<1> DEFINE call == [op |-> op, by |-> c, id |-> IF op = "start" THEN starts' ELSE 0]
<1>1. /\ Control /\ calls \in Seq(Calls) /\ starts \in Ref /\ profile \in Ref
      /\ UNCHANGED <<callback, data, thread, crashed>>
      /\ calls' = Append(calls, call)
      /\ starts' = IF op = "start" THEN starts + 1 ELSE starts
      /\ op = "start" => starts < MaxStarts
  BY WhatHolds DEF Control, TypeOK, Calls, Post
<1>2. starts' \in Ref /\ starts <= starts' /\ call \in Calls
  BY <1>1 DEF Calls, Op
<1>3. /\ calls' \in Seq(Calls) /\ Len(calls') = Len(calls) + 1 /\ Len(calls) \in Nat
      /\ \A i \in 1..Len(calls) : calls'[i] = calls[i]
      /\ calls'[Len(calls) + 1] = call
  <2> HIDE DEF call
  <2>1. QED
    BY <1>1, <1>2
<1>4. TypeOK'
  BY <1>1, <1>2, <1>3 DEF Control, TypeOK, Calls, data, plan
<1>5. Indexed' /\ Spawning'
  BY <1>1 DEF Control, Indexed, Spawning
<1>6. Profiled'
  <2>1. ASSUME NEW i \in 1..Len(calls'), calls'[i].op = "start"
        PROVE  calls'[i].id \in 1..starts'
    <3>1. CASE i \in 1..Len(calls)
      BY <1>1, <1>2, <1>3, <2>1, <3>1 DEF Control, Profiled
    <3>2. CASE i = Len(calls) + 1
      BY <1>1, <1>2, <1>3, <2>1, <3>2
    <3>3. QED
      BY <1>3, <3>1, <3>2
  <2>2. profile' \in 0..starts'
    BY <1>1, <1>2 DEF Control, Profiled, data, plan
  <2>3. QED
    BY <1>1, <2>1, <2>2 DEF Control, Profiled, data, plan
<1>7. Fresh'
  <2>1. \A u \in Attempt : u > starts' => thread'[u].pc = "idle"
    BY <1>1, <1>2 DEF Control, Fresh
  <2>2. \A i \in 1..Len(calls) : calls[i].op = "start" => calls[i].id \in 1..starts
    BY <1>1 DEF Control, Profiled
  <2>3. op = "start" => thread[starts + 1].pc = "idle"
    BY <1>1 DEF Control, Fresh
  <2>4. ASSUME NEW i \in 1..Len(calls'), calls'[i].op = "start"
        PROVE  /\ thread'[calls'[i].id].pc = "idle"
               /\ thread[Binder].answer = "spawn" => calls'[i].id # profile
    <3>1. CASE i \in 1..Len(calls)
      BY <1>1, <1>3, <2>4, <3>1 DEF Control, Fresh
    <3>2. CASE i = Len(calls) + 1
      BY <1>1, <1>3, <2>3, <2>4, <3>2 DEF Control, Profiled
    <3>3. QED
      BY <1>3, <3>1, <3>2
  <2>5. ASSUME NEW i \in 1..Len(calls'), NEW j \in 1..Len(calls'),
               calls'[i].op = "start", calls'[j].op = "start", calls'[i].id = calls'[j].id
        PROVE  i = j
    <3>1. CASE i \in 1..Len(calls) /\ j \in 1..Len(calls)
      BY <1>1, <1>3, <2>5, <3>1 DEF Control, Fresh
    <3>2. CASE i = Len(calls) + 1 /\ j \in 1..Len(calls)
      BY <1>1, <1>3, <2>2, <2>5, <3>2
    <3>3. CASE j = Len(calls) + 1 /\ i \in 1..Len(calls)
      BY <1>1, <1>3, <2>2, <2>5, <3>3
    <3>4. QED
      BY <1>3, <3>1, <3>2, <3>3
  <2>6. thread'[Binder].answer = "spawn" => thread'[profile'].pc = "idle"
    BY <1>1 DEF Control, Fresh, data, plan
  <2>7. QED
    BY <1>1, <2>1, <2>4, <2>5, <2>6 DEF Fresh, data, plan
<1>8. ConnIsOpen' /\ ReferredIsLive'
  BY <1>1 DEF IInv, ConnIsOpen, ReferredIsLive, KillingNow, data
<1>9. QED
  BY <1>4, <1>5, <1>6, <1>7, <1>8 DEF IInv, Control

(* A client or the system calls.                                           *)
LEMMA CallStep ==
    ASSUME IInv, NEW op \in Ops, NEW c \in Client, Call(op, c)
    PROVE  IInv'
<1>1. op \in Op
  BY DEF Op
<1>2. inbox' \in Seq([to : Client, status : Status])
  BY WhatHolds DEF Call, Aside
<1>3. QED
  BY <1>1, <1>2, PostStep DEF Call, MayCall

(* The statuses under way change, and nothing else.                        *)
LEMMA InboxStep ==
    ASSUME IInv, UNCHANGED <<calls, callback, data, starts, thread, crashed>>,
           inbox' \in Seq([to : Client, status : Status])
    PROVE  IInv'
<1>1. Control
  BY WhatHolds
<1>2. TypeOK'
  BY <1>1 DEF Control, TypeOK, data, plan
<1>3. Control'
  BY <1>1, <1>2 DEF Control, Indexed, Spawning, Profiled, Fresh, data, plan
<1>4. ConnIsOpen' /\ ReferredIsLive'
  BY DEF IInv, ConnIsOpen, ReferredIsLive, KillingNow, data
<1>5. QED
  BY <1>3, <1>4 DEF IInv

(* A client takes a status.                                                *)
LEMMA ReceiveStep ==
    ASSUME IInv, Receive
    PROVE  IInv'
<1>1. inbox \in Seq([to : Client, status : Status])
  BY WhatHolds DEF Aside
<1>2. inbox' \in Seq([to : Client, status : Status])
  BY <1>1 DEF Receive
<1>3. QED
  BY <1>2, InboxStep DEF Receive

(* The queue without its first call.                                       *)
LEMMA Served ==
    ASSUME Control, calls # <<>>, calls' = Tail(calls)
    PROVE  /\ calls' \in Seq(Calls) /\ Head(calls) = calls[1] /\ 1 \in 1..Len(calls)
           /\ Head(calls) \in Calls
           /\ \A i \in 1..Len(calls') : i \in Nat /\ i + 1 \in 1..Len(calls)
           /\ \A i \in 1..Len(calls') : i + 1 # 1 /\ calls'[i] = calls[i + 1]
<1>1. calls \in Seq(Calls)
  BY DEF Control, TypeOK, Calls
<1>2. QED
  BY <1>1

(* The binder thread serves a registration.                                *)
LEMMA ServeRegisterStep ==
    ASSUME IInv, ServeRegister
    PROVE  IInv'
<1>1. /\ Control /\ Aside /\ calls # <<>> /\ calls' = Tail(calls)
      /\ UNCHANGED <<inbox, data, starts, thread, crashed>>
  BY WhatHolds DEF ServeRegister, Serving
<1>2. callback' \in Client \cup {NoClient}
  BY <1>1, Served DEF ServeRegister, Calls
<1>3. calls' \in Seq([op : Op, by : Client, id : Ref])
  BY <1>1, Served DEF Calls
<1>4. TypeOK'
  BY <1>1, <1>2, <1>3 DEF Control, TypeOK, data, plan
<1>5. Indexed' /\ Spawning'
  BY <1>1 DEF Control, Indexed, Spawning
<1>6. Profiled'
  BY <1>1, Served DEF Control, Profiled, data, plan
<1>7. Fresh'
  <2>1. \A i \in 1..Len(calls') : i \in Nat /\ i + 1 \in 1..Len(calls) /\ calls'[i] = calls[i + 1]
    BY <1>1, Served
  <2>2. ASSUME NEW i \in 1..Len(calls'), NEW j \in 1..Len(calls'),
               calls'[i].op = "start", calls'[j].op = "start", calls'[i].id = calls'[j].id
        PROVE  i = j
    BY <1>1, <2>1, <2>2 DEF Control, Fresh
  <2>3. QED
    BY <1>1, <2>1, <2>2 DEF Control, Fresh, data, plan
<1>8. ConnIsOpen' /\ ReferredIsLive'
  BY <1>1 DEF IInv, ConnIsOpen, ReferredIsLive, KillingNow, data
<1>9. QED
  BY <1>4, <1>5, <1>6, <1>7, <1>8 DEF IInv, Control

(* The binder is idle: it may be given any state to begin a call with, and *)
(* a start's number is spent when its call is taken.                       *)
LEMMA ServeStep ==
    ASSUME IInv, calls # <<>>, calls' = Tail(calls), thread[Binder].pc = "idle",
           NEW r \in ThreadState, thread' = [thread EXCEPT ![Binder] = r],
           RightIndex(r),
           r.answer = "spawn" => r.pc \in Killing /\ profile' = Head(calls).id,
           \/ UNCHANGED profile
           \/ Head(calls).op = "start" /\ profile' = Head(calls).id,
           r.answer = "spawn" => Head(calls).op = "start",
           UNCHANGED <<callback, inbox, connected, field, obj, conn, tun, foreground,
                       uses, starts, crashed>>,
           server' \in [Attempt -> Ref]
    PROVE  IInv'
<1> DEFINE id == Head(calls).id
<1>1. Control /\ Aside /\ Objects /\ Tun /\ thread \in [Thread -> ThreadState] /\ starts \in Ref
  BY WhatHolds DEF Control, TypeOK
<1>2. /\ thread' \in [Thread -> ThreadState] /\ thread'[Binder] = r
      /\ \A u \in Thread \ {Binder} : thread'[u] = thread[u]
  BY <1>1
<1>3. /\ \A i \in 1..Len(calls') : i \in Nat /\ i + 1 \in 1..Len(calls) /\ calls'[i] = calls[i + 1]
      /\ calls' \in Seq(Calls) /\ Head(calls) = calls[1] /\ 1 \in 1..Len(calls)
  BY <1>1, Served
<1>4. Head(calls).op = "start" => id \in 1..starts /\ id \in Attempt /\ thread[id].pc = "idle"
  BY <1>1, <1>3 DEF Control, Profiled, Fresh
<1>5. profile' \in 0..starts /\ profile' \in Ref
  BY <1>1, <1>4 DEF Control, Profiled
<1>6. TypeOK'
  BY <1>1, <1>2, <1>3, <1>5 DEF Control, TypeOK, ThreadState, Calls
<1>7. Indexed'
  BY <1>1, <1>2 DEF Control, Indexed
<1>8. Spawning'
  BY <1>1, <1>2 DEF Control, Spawning, Killing
<1>9. \A i \in 1..Len(calls') : calls'[i].op = "start" =>
          /\ calls'[i].id \in 1..starts /\ calls'[i].id \in Attempt
          /\ thread[calls'[i].id].pc = "idle"
          /\ Head(calls).op = "start" => calls'[i].id # id
  <2> SUFFICES ASSUME NEW i \in 1..Len(calls'), calls'[i].op = "start"
               PROVE  /\ calls'[i].id \in 1..starts /\ calls'[i].id \in Attempt
                      /\ thread[calls'[i].id].pc = "idle"
                      /\ Head(calls).op = "start" => calls'[i].id # id
    OBVIOUS
  <2>1. i + 1 \in 1..Len(calls) /\ i + 1 # 1 /\ calls'[i] = calls[i + 1]
    BY <1>3
  <2>2. calls'[i].id \in 1..starts /\ thread[calls'[i].id].pc = "idle"
    BY <1>1, <2>1 DEF Control, Profiled, Fresh
  <2>3. Head(calls).op = "start" => calls'[i].id # id
    BY <1>1, <1>3, <2>1 DEF Control, Fresh
  <2>4. QED
    BY <1>1, <2>2, <2>3
<1>10. Profiled'
  <2>1. profile # 0 => profile' # 0
    BY <1>1, <1>4
  <2>2. r.answer = "spawn" => profile' # 0
    BY <1>1, <1>4
  <2>3. QED
    BY <1>1, <1>2, <1>5, <1>9, <2>1, <2>2 DEF Control, Profiled
<1>11. Fresh'
  <2>1. ASSUME NEW i \in 1..Len(calls'), NEW j \in 1..Len(calls'),
               calls'[i].op = "start", calls'[j].op = "start", calls'[i].id = calls'[j].id
        PROVE  i = j
    BY <1>1, <1>3, <2>1 DEF Control, Fresh
  <2>2. \A i \in 1..Len(calls') : calls'[i].op = "start" => thread'[calls'[i].id].pc = "idle"
    BY <1>2, <1>9
  <2>3. r.answer = "spawn" => thread'[profile'].pc = "idle"
    BY <1>2, <1>4
  <2>4. QED
    BY <1>1, <1>2, <1>9, <2>1, <2>2, <2>3 DEF Control, Fresh
<1>12. ConnIsOpen' /\ ReferredIsLive'
  <2>1. Binder \in Thread /\ thread[Binder].pc \notin {"closeNull", "killNull"}
    OBVIOUS
  <2>2. ConnIsOpen'
    BY <1>1, <2>1, ConnKept DEF IInv
  <2>3. ReferredIsLive'
    BY <1>1, <2>1, FieldsKept DEF IInv
  <2>4. QED
    BY <2>2, <2>3
<1>13. QED
  BY <1>6, <1>7, <1>8, <1>10, <1>11, <1>12 DEF IInv, Control

(* The binder thread serves a start.                                       *)
LEMMA ServeStartStep ==
    ASSUME IInv, ServeStart
    PROVE  IInv'
<1>1. Control /\ Aside /\ calls # <<>> /\ calls' = Tail(calls) /\ thread[Binder].pc = "idle"
  BY WhatHolds DEF ServeStart, Serving, At
<1>2. /\ Head(calls).op = "start" /\ profile' = Head(calls).id
      /\ UNCHANGED <<callback, inbox, connected, field, obj, conn, tun, foreground, uses,
                     starts, crashed>>
  BY DEF ServeStart, Serving
<1>3. server' \in [Attempt -> Ref]
  <2>1. PICK address \in {0, profile'} : server' = [server EXCEPT ![profile'] = address]
    BY DEF ServeStart
  <2>2. address \in Ref
    BY <1>1, <1>2, Served DEF Calls
  <2>3. QED
    BY <1>1, <2>1, <2>2 DEF Aside
<1>4. CASE thread' = [thread EXCEPT ![Binder] = [pc |-> "kill", k |-> 1, answer |-> "spawn"]]
  <2> DEFINE r == [pc |-> "kill", k |-> 1, answer |-> "spawn"]
  <2>1. r \in ThreadState /\ RightIndex(r) /\ r.pc \in Killing
    BY DEF ThreadState, Pc, RightIndex, Killing
  <2>2. thread' = [thread EXCEPT ![Binder] = r]
    BY <1>4
  <2> HIDE DEF r
  <2>3. QED
    BY <1>1, <1>2, <1>3, <2>1, <2>2, ServeStep
<1>5. CASE StopRunner(Binder, "answer", "FAILED")
  <2> DEFINE r == [pc |-> "answer", k |-> 0, answer |-> "FAILED"]
  <2>1. r \in ThreadState /\ RightIndex(r) /\ r.answer # "spawn"
    BY DEF ThreadState, Pc, Status, RightIndex
  <2>2. thread' = [thread EXCEPT ![Binder] = r]
    BY <1>5 DEF StopRunner
  <2> HIDE DEF r
  <2>3. QED
    BY <1>1, <1>2, <1>3, <2>1, <2>2, ServeStep
<1>6. QED
  BY <1>4, <1>5 DEF ServeStart

(* The binder thread serves a stop or a revoke.                            *)
LEMMA ServeStopStep ==
    ASSUME IInv, ServeStop
    PROVE  IInv'
<1>1. /\ Control /\ Aside /\ calls # <<>> /\ calls' = Tail(calls) /\ thread[Binder].pc = "idle"
      /\ UNCHANGED <<callback, inbox, data, starts, crashed>>
  BY WhatHolds DEF ServeStop, Serving, At
<1> DEFINE r == [pc |-> "reset", k |-> 0, answer |-> "DISCONNECTED"]
<1>2. r \in ThreadState /\ RightIndex(r) /\ r.answer # "spawn"
  BY DEF ThreadState, Pc, Status, RightIndex
<1>3. thread' = [thread EXCEPT ![Binder] = r]
  BY DEF ServeStop, StopRunner
<1> HIDE DEF r
<1>4. server' \in [Attempt -> Ref]
  BY <1>1 DEF Aside, data, plan
<1>5. QED
  BY <1>1, <1>2, <1>3, <1>4, ServeStep DEF data, plan

-----------------------------------------------------------------------------
(* Every step of the service and its clients.                              *)
LEMMA NextIInv ==
    ASSUME IInv, [Next]_vars
    PROVE  IInv'
<1>1. CASE UNCHANGED vars
  BY <1>1 DEF IInv, Control, TypeOK, Indexed, Spawning, Profiled, Fresh, ConnIsOpen,
              ReferredIsLive, KillingNow, vars, io, data, plan
<1>2. CASE \E c \in Client, op \in Ops : Call(op, c)
  BY <1>2, CallStep
<1>3. CASE Receive
  BY <1>3, ReceiveStep
<1>4. CASE ServeRegister \/ ServeStart \/ ServeStop
  BY <1>4, ServeRegisterStep, ServeStartStep, ServeStopStep
<1>5. CASE \E t \in Thread : KillOrStop(t)
  BY <1>5, StopMovesOnly, KillStopStep, KillNullStep, KillDoneStep, CloseStep DEF KillOrStop
<1>6. CASE \E w \in Attempt : Work(w)
  BY <1>6, WorkStep
<1>7. CASE \E f \in Server, a \in Attempt : ServerBegins(f, a)
  BY <1>7, ServerBeginsStep
<1>8. QED
  <2>1. Binder \in Thread /\ Attempt \subseteq Thread
    OBVIOUS
  <2>2. QED
    BY <1>1, <1>2, <1>3, <1>4, <1>5, <1>6, <1>7, <2>1
       DEF Next, ServiceNext, ServeNext, WorkerNext, ClientNext

(* The inductive invariant holds of SSRVPNService.                         *)
THEOREM Invariance == Spec => []IInv
<1>1. Init => IInv
  BY InitIInv
<1>2. IInv /\ [Next]_vars => IInv'
  BY NextIInv
<1>3. QED
  BY <1>1, <1>2, PTL DEF Spec

(* Every field of SSRVPNService stays within its type.                     *)
THEOREM TypeCorrect == Spec => []TypeOK
<1>1. IInv => TypeOK
  BY DEF IInv, Control
<1>2. QED
  BY <1>1, Invariance, PTL

(* conn!!.fd is only ever read off an open tun, but for the moment in      *)
(* which a stopRunner has closed it and not yet cleared conn: whatever     *)
(* calls and workers overlap.                                              *)
THEOREM ConnStaysOpen == Spec => []ConnIsOpen
<1>1. IInv => ConnIsOpen
  BY DEF IInv
<1>2. QED
  BY <1>1, Invariance, PTL

(* local, pdnsd and tun2socks never keep a reference to what               *)
(* killProcesses has stopped: whatever calls and workers overlap.          *)
THEOREM ReferencesStayLive == Spec => []ReferredIsLive
<1>1. IInv => ReferredIsLive
  BY DEF IInv
<1>2. QED
  BY <1>1, Invariance, PTL

-----------------------------------------------------------------------------
(* While no start is asked for before the one ahead of it is through: what *)
(* a worker may rely on although it shares every field with stopRunner.    *)

(* A worker at l has yet to make its component f.                          *)
Ahead(f, l) ==
    \/ l \in {"resolve", "store", "newLocal"}
    \/ l \in {"startLocal", "newUdp"} /\ f # "local"
    \/ l \in {"startUdp", "ifTunnel", "newTunnel"} /\ f \notin {"local", "udprs"}
    \/ l \in {"startTunnel", "startPdnsd"} /\ f \in {"pdnsd", "tun2socks"}
    \/ l \in {"establish", "checkConn", "tun2socks"} /\ f = "tun2socks"

Live == {"new", "started", "running"}
Busy(w) == thread[w].pc \notin {"idle", "foreground"}
StartQueued(i) == i \in 1..Len(calls) /\ calls[i].op = "start"
Spawns == thread[Binder].answer = "spawn"

(* There is at most one start: queued, being served, or in its worker.     *)
Alone ==
    /\ \A v, w \in Attempt : Busy(v) /\ Busy(w) => v = w
    /\ \A w \in Attempt : Busy(w) => ~Spawns
    /\ \A w \in Attempt, i \in 1..Len(calls) : Busy(w) => ~StartQueued(i)
    /\ \A i, j \in 1..Len(calls) : StartQueued(i) /\ StartQueued(j) => i = j
    /\ \A i \in 1..Len(calls) : StartQueued(i) => ~Spawns

(* connProfile is that worker's.                                           *)
Ours == \A w \in Attempt : Busy(w) => profile = w

Addresses ==
    /\ \A a \in Attempt : server[a] \in {0, a}
    /\ \A w \in Attempt : thread[w].pc = "store" => thread[w].k = w
    /\ \A w \in Attempt : thread[w].pc = "newLocal" => server[w] = w

(* A component yet to be made has a field that is null.                    *)
Unmade == \A w \in Attempt, f \in Field : Ahead(f, thread[w].pc) => field[f] = 0

(* killProcesses on the way to a worker leaves nulls behind it.            *)
Cleared == Spawns => \A i \in 1..5 : i < thread[Binder].k => field[KillOrder[i]] = 0

(* Between stopping a component and assigning null nothing of its kind is  *)
(* live, and no worker will make one.                                      *)
ToldOf(f) ==
    /\ \A a \in Attempt : obj[f][a] \notin Live
    /\ \A w \in Attempt : ~Ahead(f, thread[w].pc)
Told == \A t \in Thread : thread[t].pc = "killNull" => ToldOf(KillOrder[thread[t].k])

Kept == \A f \in Field, a \in Attempt : obj[f][a] \in Live => field[f] = a
Own == \A a \in Attempt : uses[a].profile # 0 => uses[a] = [profile |-> a, address |-> a]

Components == Unmade /\ Cleared /\ Told /\ Kept
OneInv == Alone /\ Ours /\ Addresses /\ Components /\ Own

(* The fields in the order of killProcesses.                               *)
LEMMA KillOrderIs ==
    /\ \A i \in 1..5 : KillOrder[i] \in Field
    /\ \A f \in Field : \E i \in 1..5 : f = KillOrder[i]
<1>1. /\ KillOrder[1] = "local" /\ KillOrder[2] = "tunnel" /\ KillOrder[3] = "udprs"
      /\ KillOrder[4] = "pdnsd" /\ KillOrder[5] = "tun2socks"
  BY DEF KillOrder
<1>2. \A i \in 1..5 : i = 1 \/ i = 2 \/ i = 3 \/ i = 4 \/ i = 5
  OBVIOUS
<1>3. QED
  BY <1>1, <1>2 DEF Field, Server

(* Thread t makes component f for itself.                                  *)
Makes(t, r, f) ==
    /\ t \in Attempt /\ Ahead(f, thread[t].pc) /\ ~Ahead(f, r.pc)
    /\ field'[f] = t

(* What a step of thread t, under way, does to the components.             *)
Handles(t, r) ==
    /\ thread' = [thread EXCEPT ![t] = r]
    /\ RightIndex(r)
    /\ \A f \in Field : Ahead(f, r.pc) => Ahead(f, thread[t].pc)
    /\ \A f \in Field :
          \/ field'[f] = field[f]
          \/ thread[t].pc = "killNull" /\ f = KillOrder[thread[t].k] /\ field'[f] = 0
          \/ Makes(t, r, f)
    /\ \A f \in Field, a \in Attempt :
          obj'[f][a] \in Live => obj[f][a] \in Live \/ (Makes(t, r, f) /\ a = t)
    /\ r.pc = "killNull" =>
          /\ \A a \in Attempt : obj'[KillOrder[r.k]][a] \notin Live
          /\ \A w \in Attempt : ~Ahead(KillOrder[r.k], thread[w].pc)
    /\ t = Binder /\ r.answer = "spawn" =>
          \A i \in 1..5 : i < r.k => field'[KillOrder[i]] = 0
    /\ r.answer = "spawn" => thread[t].answer = "spawn"
    /\ t \in Attempt => Busy(t) \/ r.pc = "idle"

(* Such a step adds no start and no worker.                                *)
LEMMA AloneKept ==
    ASSUME IInv, OneInv, NEW t \in Thread, NEW r \in ThreadState, Handles(t, r),
           UNCHANGED <<calls, profile>>
    PROVE  Alone' /\ Ours'
<1>1. thread \in [Thread -> ThreadState] /\ thread' = [thread EXCEPT ![t] = r]
  BY WhatHolds DEF Handles
<1>2. \A w \in Attempt : Busy(w)' => Busy(w)
  BY <1>1 DEF Busy, Handles
<1>3. Spawns' => Spawns
  BY <1>1 DEF Spawns, Handles
<1>4. \A i : StartQueued(i)' <=> StartQueued(i)
  BY DEF StartQueued
<1>5. QED
  BY <1>2, <1>3, <1>4 DEF OneInv, Alone, Ours

(* And the fields keep to the components.                                  *)
LEMMA ComponentsKept ==
    ASSUME IInv, OneInv, NEW t \in Thread, NEW r \in ThreadState, Handles(t, r)
    PROVE  Components'
<1>1. /\ thread \in [Thread -> ThreadState] /\ thread' = [thread EXCEPT ![t] = r]
      /\ thread'[t] = r /\ \A u \in Thread \ {t} : thread'[u] = thread[u]
      /\ \A u \in Thread : RightIndex(thread[u])
      /\ Attempt \subseteq Thread /\ Binder \in Thread
  BY WhatHolds DEF Handles, Control, Indexed
<1>2. ASSUME NEW f \in Field, Makes(t, r, f)
      PROVE  /\ field[f] = 0 /\ Busy(t) /\ t \in Attempt
             /\ \A a \in Attempt : obj[f][a] \notin Live
             /\ \A w \in Attempt : Ahead(f, thread[w].pc) => w = t
             /\ thread[t].pc # "killNull"
  <2>1. t \in Attempt /\ Ahead(f, thread[t].pc)
    BY <1>2 DEF Makes
  <2>2. \A w \in Attempt : Ahead(f, thread[w].pc) => Busy(w) /\ thread[w].pc # "killNull"
    BY DEF Ahead, Busy
  <2>3. field[f] = 0
    BY <2>1 DEF OneInv, Components, Unmade
  <2>4. \A a \in Attempt : obj[f][a] \notin Live
    BY <2>3 DEF OneInv, Components, Kept
  <2>5. \A w \in Attempt : Ahead(f, thread[w].pc) => w = t
    BY <2>1, <2>2 DEF OneInv, Alone
  <2>6. QED
    BY <2>1, <2>2, <2>3, <2>4, <2>5
<1>3. Unmade'
  <2> SUFFICES ASSUME NEW w \in Attempt, NEW f \in Field, Ahead(f, thread'[w].pc)
               PROVE  field'[f] = 0
    BY DEF Unmade
  <2>1. Ahead(f, thread[w].pc)
    BY <1>1 DEF Handles
  <2>2. field[f] = 0
    BY <2>1 DEF OneInv, Components, Unmade
  <2>3. ~Makes(t, r, f)
    BY <1>1, <1>2, <2>1 DEF Makes
  <2>4. QED
    BY <2>2, <2>3 DEF Handles
<1>4. Cleared'
  <2> SUFFICES ASSUME Spawns', NEW i \in 1..5, i < thread'[Binder].k
               PROVE  field'[KillOrder[i]] = 0
    BY DEF Cleared
  <2>1. CASE t = Binder
    BY <1>1, <2>1 DEF Handles, Spawns
  <2>2. CASE t # Binder
    <3>1. Spawns /\ i < thread[Binder].k
      BY <1>1, <2>2 DEF Spawns
    <3>2. field[KillOrder[i]] = 0 /\ KillOrder[i] \in Field
      BY <3>1, KillOrderIs DEF OneInv, Components, Cleared
    <3>3. t \in Attempt /\ ~Busy(t)
      BY <2>2, <3>1 DEF OneInv, Alone
    <3>4. ~Makes(t, r, KillOrder[i])
      BY <3>3 DEF Makes, Busy, Ahead
    <3>5. QED
      BY <3>2, <3>4 DEF Handles
  <2>3. QED
    BY <2>1, <2>2
<1>5. Told'
  <2> SUFFICES ASSUME NEW u \in Thread, thread'[u].pc = "killNull", NEW f,
                      f = KillOrder[thread'[u].k]
               PROVE  /\ \A a \in Attempt : obj'[f][a] \notin Live
                      /\ \A w \in Attempt : ~Ahead(f, thread'[w].pc)
    BY DEF Told, ToldOf
  <2>1. /\ \A a \in Attempt : obj'[f][a] \notin Live
        /\ \A w \in Attempt : ~Ahead(f, thread[w].pc)
        /\ f \in Field
    <3>1. CASE u = t
      <4>1. thread'[u].k \in 1..5
        BY <1>1, <3>1 DEF Handles, RightIndex
      <4>2. QED
        BY <1>1, <3>1, <4>1, KillOrderIs DEF Handles
    <3>2. CASE u # t
      <4>1. thread'[u] = thread[u] /\ thread[u].pc = "killNull" /\ thread[u].k \in 1..5
        BY <1>1, <3>2 DEF RightIndex
      <4>2. ToldOf(f) /\ f \in Field
        BY <4>1, KillOrderIs DEF OneInv, Components, Told
      <4>3. ~Makes(t, r, f)
        BY <4>2 DEF Makes, ToldOf
      <4>4. QED
        BY <4>2, <4>3 DEF Handles, ToldOf
    <3>3. QED
      BY <3>1, <3>2
  <2>2. \A w \in Attempt : ~Ahead(f, thread'[w].pc)
    BY <1>1, <2>1 DEF Handles
  <2>3. QED
    BY <2>1, <2>2
<1>6. Kept'
  <2> SUFFICES ASSUME NEW f \in Field, NEW a \in Attempt, obj'[f][a] \in Live
               PROVE  field'[f] = a
    BY DEF Kept
  <2>1. CASE Makes(t, r, f)
    <3>1. a = t
      BY <1>2, <2>1 DEF Handles
    <3>2. QED
      BY <2>1, <3>1 DEF Makes
  <2>2. CASE ~Makes(t, r, f)
    <3>1. obj[f][a] \in Live
      BY <2>2 DEF Handles
    <3>2. field[f] = a
      BY <3>1 DEF OneInv, Components, Kept
    <3>3. ~(thread[t].pc = "killNull" /\ f = KillOrder[thread[t].k])
      BY <3>1 DEF OneInv, Components, Told, ToldOf
    <3>4. QED
      BY <2>2, <3>2, <3>3 DEF Handles
  <2>3. QED
    BY <2>1, <2>2
<1>7. QED
  BY <1>3, <1>4, <1>5, <1>6 DEF Components

(* A step of a thread that leaves connProfile and SSRLocal's copy alone.   *)
LEMMA Still ==
    ASSUME IInv, OneInv, NEW t \in Thread, NEW r \in ThreadState, Handles(t, r),
           UNCHANGED <<calls, profile, server, uses>>,
           r.pc \notin {"store", "newLocal"}
    PROVE  OneInv'
<1>1. thread \in [Thread -> ThreadState] /\ thread' = [thread EXCEPT ![t] = r]
  BY WhatHolds DEF Handles
<1>2. Alone' /\ Ours' /\ Components'
  BY AloneKept, ComponentsKept
<1>3. Addresses' /\ Own'
  BY <1>1 DEF OneInv, Addresses, Own
<1>4. QED
  BY <1>2, <1>3 DEF OneInv

Quiet == UNCHANGED <<calls, profile, server, uses, field, obj>>

(* A thread goes on to its next statement and touches no component.        *)
LEMMA QuietGoto ==
    ASSUME IInv, OneInv, NEW t \in Thread, NEW l \in Pc \ (Killing \cup {"store", "newLocal"}),
           Goto(t, l), Quiet, thread[t].pc \notin {"idle", "foreground"},
           thread[t].pc \in Killing => thread[t].answer # "spawn",
           \A f \in Field : Ahead(f, l) => Ahead(f, thread[t].pc)
    PROVE  OneInv'
<1> DEFINE r == [thread[t] EXCEPT !.pc = l]
<1>1. thread \in [Thread -> ThreadState]
  BY WhatHolds
<1>2. thread[t].answer # "spawn"
  BY WhatHolds DEF Control, Spawning, Killing
<1>3. r \in ThreadState /\ r.pc = l /\ r.answer = thread[t].answer /\ RightIndex(r)
  BY <1>1 DEF ThreadState, RightIndex, Killing
<1>4. thread' = [thread EXCEPT ![t] = r]
  BY <1>1 DEF Goto
<1> HIDE DEF r
<1>5. Handles(t, r)
  BY <1>2, <1>3, <1>4 DEF Handles, Quiet, Busy, Killing
<1>6. QED
  BY <1>3, <1>5, Still DEF Quiet

(* A thread counts on and touches no component; killProcesses passes a     *)
(* null field.                                                             *)
LEMMA QuietCount ==
    ASSUME IInv, OneInv, NEW t \in Thread, NEW l \in {"kill", "sleep"}, NEW n \in Nat,
           Count(t, l, n), Quiet, thread[t].pc \notin {"idle", "foreground"},
           l = "kill" => /\ n \in 1..6
                         /\ thread[t].answer = "spawn" =>
                               \A i \in 1..5 : i < n => field[KillOrder[i]] = 0,
           l = "sleep" => thread[t].pc \notin Killing
    PROVE  OneInv'
<1> DEFINE r == [thread[t] EXCEPT !.pc = l, !.k = n]
<1>1. thread \in [Thread -> ThreadState]
  BY WhatHolds
<1>2. l = "sleep" => thread[t].answer # "spawn"
  BY WhatHolds DEF Control, Spawning, Killing
<1>3. r \in ThreadState /\ r.pc = l /\ r.k = n /\ r.answer = thread[t].answer /\ RightIndex(r)
  BY <1>1 DEF ThreadState, RightIndex, Pc
<1>4. thread' = [thread EXCEPT ![t] = r]
  BY <1>1 DEF Count
<1> HIDE DEF r
<1>5. \A f \in Field : ~Ahead(f, r.pc)
  BY <1>3 DEF Ahead
<1>6. Handles(t, r)
  BY <1>2, <1>3, <1>4, <1>5 DEF Handles, Quiet, Busy
<1>7. QED
  BY <1>3, <1>6, Still DEF Quiet

(* A thread enters stopRunner, or ends.                                    *)
LEMMA QuietEnd ==
    ASSUME IInv, OneInv, NEW t \in Thread, Quiet, thread[t].pc # "idle",
           \/ thread[t].pc # "foreground" /\ \E s \in Status : StopRunner(t, "reset", s)
           \/ thread' = [thread EXCEPT ![t] = Idle]
    PROVE  OneInv'
<1>1. PICK r \in ThreadState : /\ thread' = [thread EXCEPT ![t] = r]
                              /\ r.answer # "spawn" /\ RightIndex(r)
                              /\ \/ thread[t].pc # "foreground" /\ r.pc = "reset"
                                 \/ r.pc = "idle"
  <2>1. \A s \in Status : /\ [pc |-> "reset", k |-> 0, answer |-> s] \in ThreadState
                          /\ RightIndex([pc |-> "reset", k |-> 0, answer |-> s])
                          /\ s # "spawn"
    BY DEF ThreadState, Pc, Status, RightIndex
  <2>2. Idle \in ThreadState /\ Idle.pc = "idle" /\ Idle.answer # "spawn" /\ RightIndex(Idle)
    BY DEF Idle, ThreadState, Pc, Status, RightIndex
  <2>3. QED
    BY <2>1, <2>2 DEF StopRunner
<1>2. \A f \in Field : ~Ahead(f, r.pc)
  BY <1>1 DEF Ahead
<1>3. Handles(t, r)
  BY <1>1, <1>2 DEF Handles, Quiet, Busy
<1>4. QED
  BY <1>1, <1>3, Still DEF Quiet

(* A thread meets an exception, whatever it has told its components.       *)
LEMMA ThrowKept ==
    ASSUME IInv, OneInv, NEW t \in Thread, NEW why, Throw(t, why),
           thread[t].pc \notin {"idle", "killNull", "store", "newLocal", "foreground"},
           UNCHANGED <<calls, profile, server, uses, field>>,
           \A f \in Field, a \in Attempt : obj'[f][a] \in Live => obj[f][a] \in Live
    PROVE  OneInv'
<1>1. PICK r \in ThreadState : /\ thread' = [thread EXCEPT ![t] = r]
                              /\ r.answer # "spawn" /\ RightIndex(r)
                              /\ r.pc \in {thread[t].pc, "idle"}
  <2>1. Idle \in ThreadState /\ Idle.pc = "idle" /\ Idle.answer # "spawn" /\ RightIndex(Idle)
    BY DEF Idle, ThreadState, Pc, Status, RightIndex
  <2>2. CASE t = Binder
    BY <2>1, <2>2 DEF Throw
  <2>3. CASE t # Binder
    <3>1. /\ thread[t] \in ThreadState /\ RightIndex(thread[t]) /\ thread[t].answer # "spawn"
          /\ thread \in [Thread -> ThreadState]
      BY <2>3, WhatHolds DEF Control, Indexed, Spawning
    <3>2. thread' = [thread EXCEPT ![t] = thread[t]]
      BY <2>3, <3>1 DEF Throw
    <3>3. QED
      BY <3>1, <3>2
  <2>4. QED
    BY <2>2, <2>3
<1>2. \A f \in Field : Ahead(f, r.pc) => Ahead(f, thread[t].pc)
  BY <1>1 DEF Ahead
<1>3. Handles(t, r)
  BY <1>1, <1>2 DEF Handles, Busy
<1>4. QED
  BY <1>1, <1>3, Still

-----------------------------------------------------------------------------
(* stopRunner and killProcesses.                                           *)
LEMMA OneStopMoves ==
    ASSUME IInv, OneInv, NEW t \in Thread,
           \/ Reset(t) \/ StopForeground(t) \/ CloseCheck(t) \/ CloseFd(t) \/ CloseNull(t)
           \/ Answer(t)
    PROVE  OneInv'
<1>1. Quiet /\ thread[t].pc \notin Killing /\ thread[t].pc \notin {"idle", "foreground"}
  BY DEF Reset, StopForeground, CloseCheck, CloseFd, CloseNull, Answer, At, Quiet, Killing,
         io, data, plan
<1>2. CASE Reset(t)
  <2>1. Count(t, "kill", 1) /\ \A i \in 1..5 : ~(i < 1)
    BY <1>2 DEF Reset
  <2>2. QED
    BY <1>1, <2>1, QuietCount
<1>3. ASSUME NEW l \in {"close", "answer", "closeFd", "closeNull"}, Goto(t, l)
      PROVE  OneInv'
  <2>1. l \in Pc \ (Killing \cup {"store", "newLocal"}) /\ \A f \in Field : ~Ahead(f, l)
    BY DEF Pc, Killing, Ahead
  <2>2. QED
    BY <1>1, <1>3, <2>1, QuietGoto
<1>4. CASE StopForeground(t)
  BY <1>3, <1>4 DEF StopForeground
<1>5. CASE CloseCheck(t)
  BY <1>3, <1>5 DEF CloseCheck
<1>6. CASE CloseFd(t)
  <2>1. CASE Throw(t, "null")
    <3>1. thread[t].pc = "closeFd"
      BY <1>6 DEF CloseFd, At
    <3>2. QED
      BY <1>1, <2>1, <3>1, ThrowKept DEF Quiet
  <2>2. CASE Goto(t, "closeNull")
    BY <1>3, <2>2
  <2>3. QED
    BY <1>6, <2>1, <2>2 DEF CloseFd
<1>7. CASE CloseNull(t)
  BY <1>3, <1>7 DEF CloseNull
<1>8. CASE Answer(t)
  BY <1>1, <1>8, QuietEnd DEF Answer
<1>9. QED
  BY <1>2, <1>4, <1>5, <1>6, <1>7, <1>8

(* The worker that killProcesses makes way for finds every field null.     *)
LEMMA OneSpawn ==
    ASSUME IInv, OneInv, Spawns, thread[Binder].pc = "kill", thread[Binder].k = 6,
           thread' = [thread EXCEPT ![Binder] = Idle, ![profile].pc = "resolve"], Quiet
    PROVE  OneInv'
<1>1. /\ thread \in [Thread -> ThreadState] /\ profile \in Attempt /\ Binder \in Thread
      /\ Attempt \subseteq Thread
  BY WhatHolds DEF Control, TypeOK, Profiled, Spawns
<1>2. /\ thread'[Binder] = Idle /\ thread'[profile].pc = "resolve"
      /\ \A u \in Thread \ {Binder, profile} : thread'[u] = thread[u]
  BY <1>1
<1>3. \A w \in Attempt : ~Busy(w)
  BY DEF OneInv, Alone
<1>4. \A w \in Attempt : Busy(w)' => w = profile
  BY <1>2, <1>3 DEF Busy
<1>5. ~Spawns'
  BY <1>2 DEF Spawns, Idle
<1>6. Alone' /\ Ours'
  <2>1. \A i \in 1..Len(calls) : ~StartQueued(i)
    BY DEF OneInv, Alone
  <2>2. \A i \in 1..Len(calls) : ~StartQueued(i)'
    BY <2>1 DEF StartQueued, Quiet
  <2>3. UNCHANGED calls /\ UNCHANGED profile
    BY DEF Quiet
  <2>4. QED
    BY <1>4, <1>5, <2>2, <2>3 DEF Alone, Ours
<1>7. Addresses'
  BY <1>1, <1>2 DEF OneInv, Addresses, Quiet, Idle
<1>8. \A f \in Field : field[f] = 0
  <2>1. \A i \in 1..5 : field[KillOrder[i]] = 0
    BY DEF OneInv, Components, Cleared
  <2>2. QED
    BY <2>1, KillOrderIs
<1>9. Unmade' /\ Cleared' /\ Kept'
  BY <1>5, <1>8 DEF OneInv, Components, Unmade, Cleared, Kept, Quiet
<1>10. Told'
  <2> SUFFICES ASSUME NEW u \in Thread, thread'[u].pc = "killNull" PROVE FALSE
    BY DEF Told
  <2>1. u # Binder /\ u # profile
    BY <1>2 DEF Idle
  <2>2. Busy(u) /\ u \in Attempt
    <3>1. thread'[u] = thread[u]
      BY <1>2, <2>1
    <3>2. thread[u].pc = "killNull"
      BY <3>1
    <3>3. QED
      BY <2>1, <3>2 DEF Busy
  <2>3. QED
    BY <1>3, <2>2
<1>11. Own'
  BY DEF OneInv, Own, Quiet
<1>12. QED
  BY <1>6, <1>7, <1>9, <1>10, <1>11 DEF OneInv, Components

LEMMA OneKill ==
    ASSUME IInv, OneInv, NEW t \in Thread,
           KillCheck(t) \/ KillStop(t) \/ KillNull(t) \/ KillDone(t)
    PROVE  OneInv'
<1>1. /\ thread \in [Thread -> ThreadState] /\ RightIndex(thread[t]) /\ Objects
      /\ thread[t].pc \in Killing
      /\ thread[t].answer = "spawn" => t = Binder
  BY WhatHolds DEF Control, Indexed, Spawning, KillCheck, KillStop, KillNull, KillDone, At, Killing
<1>2. thread[t].answer = "spawn" =>
          \A i \in 1..5 : i < thread[t].k => field[KillOrder[i]] = 0
  BY <1>1 DEF OneInv, Components, Cleared, Spawns
<1>3. CASE KillCheck(t)
  <2>1. thread[t].k \in 1..5 /\ thread[t].pc = "kill" /\ Quiet
    BY <1>1, <1>3 DEF KillCheck, At, KillOrder, RightIndex, Quiet, io, data, plan
  <2>2. CASE field[KillOrder[thread[t].k]] = 0
    <3>1. Count(t, "kill", thread[t].k + 1)
      BY <1>3, <2>2 DEF KillCheck
    <3>2. \A i \in 1..5 : i < thread[t].k + 1 => i < thread[t].k \/ i = thread[t].k
      BY <2>1
    <3>3. QED
      BY <1>2, <2>1, <2>2, <3>1, <3>2, QuietCount
  <2>3. CASE field[KillOrder[thread[t].k]] # 0
    <3> DEFINE r == [thread[t] EXCEPT !.pc = "killStop"]
    <3>1. /\ r \in ThreadState /\ r.pc = "killStop" /\ r.k = thread[t].k
          /\ r.answer = thread[t].answer /\ thread' = [thread EXCEPT ![t] = r]
      BY <1>1, <1>3, <2>3 DEF KillCheck, ThreadState, Pc, Goto
    <3> HIDE DEF r
    <3>2. RightIndex(r) /\ \A f \in Field : ~Ahead(f, r.pc)
      BY <2>1, <3>1 DEF RightIndex, Ahead
    <3>3. Handles(t, r)
      BY <1>2, <2>1, <3>1, <3>2 DEF Handles, Busy, Quiet
    <3>4. QED
      BY <2>1, <3>1, <3>3, Still DEF Quiet
  <2>4. QED
    BY <2>2, <2>3
<1>4. CASE KillStop(t)
  <2>1. /\ thread[t].k \in 1..5 /\ thread[t].pc = "killStop"
        /\ UNCHANGED <<calls, profile, server, uses, field>>
    BY <1>1, <1>4 DEF KillStop, At, RightIndex, io, plan
  <2>2. PICK f \in Field : f = KillOrder[thread[t].k]
    BY <2>1, KillOrderIs
  <2>3. CASE UNCHANGED obj /\ Throw(t, "null")
    BY <2>1, <2>3, ThrowKept
  <2>4. CASE /\ field[f] # 0
             /\ obj' = [obj EXCEPT ![f][field[f]] = Stopped(obj[f][field[f]])]
             /\ Throw(t, "noPool") \/ Goto(t, "killNull")
    <3>1. field[f] \in Attempt
      BY <1>1, <2>4 DEF Objects
    <3>2. \A s : Stopped(s) \notin Live
      BY DEF Stopped, Live
    <3>3. /\ \A g \in Field, a \in Attempt : obj'[g][a] \in Live => obj[g][a] \in Live
          /\ obj'[f][field[f]] \notin Live
      BY <1>1, <2>4, <3>1, <3>2 DEF Objects
    <3>4. CASE Throw(t, "noPool")
      BY <2>1, <3>3, <3>4, ThrowKept
    <3>5. CASE Goto(t, "killNull")
      <4> DEFINE r == [thread[t] EXCEPT !.pc = "killNull"]
      <4>1. /\ r \in ThreadState /\ r.pc = "killNull" /\ r.k = thread[t].k
            /\ r.answer = thread[t].answer /\ thread' = [thread EXCEPT ![t] = r]
        BY <1>1, <3>5 DEF ThreadState, Pc, Goto
      <4> HIDE DEF r
      <4>2. RightIndex(r) /\ \A g \in Field : ~Ahead(g, r.pc)
        BY <2>1, <4>1 DEF RightIndex, Ahead
      <4>3. \A a \in Attempt : obj'[f][a] \notin Live
        BY <3>3 DEF OneInv, Components, Kept
      <4>4. \A w \in Attempt : ~Ahead(f, thread[w].pc)
        BY <2>4 DEF OneInv, Components, Unmade
      <4>5. Handles(t, r)
        BY <1>2, <2>1, <2>2, <3>3, <4>1, <4>2, <4>3, <4>4 DEF Handles, Busy
      <4>6. QED
        BY <2>1, <4>1, <4>5, Still
    <3>6. QED
      BY <2>4, <3>4, <3>5
  <2>5. QED
    BY <1>4, <2>2, <2>3, <2>4 DEF KillStop
<1>5. CASE KillNull(t)
  <2>1. /\ thread[t].k \in 1..5 /\ thread[t].pc = "killNull"
        /\ field' = [field EXCEPT ![KillOrder[thread[t].k]] = 0]
        /\ UNCHANGED <<calls, profile, server, uses, obj>>
    BY <1>1, <1>5 DEF KillNull, At, RightIndex, io, plan
  <2> DEFINE r == [thread[t] EXCEPT !.pc = "kill", !.k = thread[t].k + 1]
  <2>2. /\ r \in ThreadState /\ r.pc = "kill" /\ r.k = thread[t].k + 1
        /\ r.answer = thread[t].answer /\ thread' = [thread EXCEPT ![t] = r]
    BY <1>1, <1>5 DEF KillNull, ThreadState, Pc, Count
  <2> HIDE DEF r
  <2>3. RightIndex(r) /\ \A f \in Field : ~Ahead(f, r.pc)
    BY <2>1, <2>2 DEF RightIndex, Ahead
  <2> DEFINE g == KillOrder[thread[t].k]
  <2>4. g \in Field /\ field' = [field EXCEPT ![g] = 0]
    BY <2>1, KillOrderIs
  <2> HIDE DEF g
  <2>5. \A f \in Field : field'[f] = field[f] \/ (f = g /\ field'[f] = 0)
    BY <1>1, <2>4 DEF Objects
  <2>6. field'[g] = 0
    BY <1>1, <2>4 DEF Objects
  <2>7. r.answer = "spawn" => \A i \in 1..5 : i < r.k => field'[KillOrder[i]] = 0
    <3> SUFFICES ASSUME r.answer = "spawn", NEW i \in 1..5, i < r.k
                 PROVE  field'[KillOrder[i]] = 0
      OBVIOUS
    <3>1. i < thread[t].k \/ i = thread[t].k
      BY <2>1, <2>2
    <3>2. KillOrder[i] \in Field
      BY KillOrderIs
    <3>3. QED
      BY <1>2, <2>2, <2>5, <2>6, <3>1, <3>2 DEF g
  <2>8. Handles(t, r)
    BY <2>1, <2>2, <2>3, <2>5, <2>7 DEF Handles, Busy, g
  <2>9. QED
    BY <2>1, <2>2, <2>8, Still
<1>6. CASE KillDone(t)
  <2>1. thread[t].k = 6 /\ thread[t].pc = "kill" /\ Quiet
    BY <1>1, <1>6 DEF KillDone, At, KillOrder, RightIndex, Quiet, io, data, plan
  <2>2. CASE thread[t].answer = "spawn"
    <3>1. t = Binder /\ Spawns
      BY <1>1, <2>2 DEF Spawns
    <3>2. thread' = [thread EXCEPT ![t] = Idle, ![profile].pc = "resolve"]
      BY <1>6, <2>2 DEF KillDone
    <3>3. QED
      BY <2>1, <3>1, <3>2, OneSpawn
  <2>3. CASE thread[t].answer # "spawn"
    <3>1. /\ Goto(t, "unforeground") /\ \A f \in Field : ~Ahead(f, "unforeground")
          /\ "unforeground" \in Pc \ (Killing \cup {"store", "newLocal"})
      BY <1>6, <2>3 DEF KillDone, Ahead, Pc, Killing
    <3>2. QED
      BY <2>1, <2>3, <3>1, QuietGoto
  <2>4. QED
    BY <2>2, <2>3
<1>7. QED
  BY <1>3, <1>4, <1>5, <1>6

-----------------------------------------------------------------------------
(* The worker: connProfile and the address it finds there are its own.     *)
LEMMA OneResolve ==
    ASSUME IInv, OneInv, NEW w \in Attempt, Resolve(w) \/ StoreAddress(w)
    PROVE  OneInv'
<1>1. /\ thread \in [Thread -> ThreadState] /\ w \in Thread /\ thread[w].pc \in {"resolve", "store"}
      /\ thread[w].answer # "spawn" /\ server \in [Attempt -> Ref]
      /\ UNCHANGED <<calls, profile, uses, field, obj>>
  <2>1. thread \in [Thread -> ThreadState] /\ thread[w].answer # "spawn" /\ server \in [Attempt -> Ref]
    BY WhatHolds DEF Control, Spawning, Aside
  <2>2. thread[w].pc \in {"resolve", "store"} /\ UNCHANGED <<calls, profile, uses, field, obj>>
    BY DEF Resolve, StoreAddress, At, io, data, plan
  <2>3. QED
    BY <2>1, <2>2
<1>2. profile = w
  BY <1>1 DEF OneInv, Ours, Busy
<1>3. ASSUME NEW r \in ThreadState, thread' = [thread EXCEPT ![w] = r], RightIndex(r),
             r.pc \in {"store", "newLocal"}, r.answer = thread[w].answer,
             r.pc = "store" => UNCHANGED server /\ r.k = w,
             r.pc = "newLocal" => server' = [server EXCEPT ![w] = w]
      PROVE  OneInv'
  <2>1. \A f \in Field : Ahead(f, r.pc) /\ Ahead(f, thread[w].pc)
    BY <1>1, <1>3 DEF Ahead
  <2>2. Handles(w, r)
    BY <1>1, <1>3, <2>1 DEF Handles, Busy
  <2>3. Alone' /\ Ours' /\ Components'
    BY <1>1, <2>2, AloneKept, ComponentsKept
  <2>4. \A a \in Attempt : server'[a] \in {0, a}
    BY <1>1, <1>3 DEF OneInv, Addresses
  <2>5. /\ \A v \in Attempt : thread'[v].pc = "store" => thread'[v].k = v
        /\ \A v \in Attempt : thread'[v].pc = "newLocal" => server'[v] = v
    BY <1>1, <1>3 DEF OneInv, Addresses
  <2>6. Own'
    BY <1>1 DEF OneInv, Own
  <2>7. Addresses'
    BY <2>4, <2>5 DEF Addresses
  <2>8. QED
    BY <2>3, <2>6, <2>7 DEF OneInv
<1> DEFINE toLocal == [thread[w] EXCEPT !.pc = "newLocal"]
           toStore == [thread[w] EXCEPT !.pc = "store", !.k = w]
<1>4. /\ toLocal \in ThreadState /\ toLocal.pc = "newLocal" /\ RightIndex(toLocal)
      /\ toLocal.answer = thread[w].answer
      /\ toStore \in ThreadState /\ toStore.pc = "store" /\ toStore.k = w /\ RightIndex(toStore)
      /\ toStore.answer = thread[w].answer
  <2>1. thread[w] \in ThreadState /\ {"newLocal", "store"} \subseteq Pc /\ w \in Nat /\ w \in Ref
    BY <1>1 DEF Pc
  <2>2. toLocal \in ThreadState /\ toLocal.pc = "newLocal" /\ toLocal.answer = thread[w].answer
    BY <2>1 DEF ThreadState
  <2>3. /\ toStore \in ThreadState /\ toStore.pc = "store" /\ toStore.k = w
        /\ toStore.answer = thread[w].answer
    BY <2>1 DEF ThreadState
  <2>4. QED
    BY <2>2, <2>3 DEF RightIndex
<1>5. /\ Goto(w, "newLocal") => thread' = [thread EXCEPT ![w] = toLocal]
      /\ Count(w, "store", w) => thread' = [thread EXCEPT ![w] = toStore]
  BY <1>1 DEF Goto, Count
<1> HIDE DEF toLocal, toStore
<1>6. CASE Resolve(w)
  <2>1. UNCHANGED server /\ Quiet
    BY <1>1, <1>6 DEF Resolve, data, plan, Quiet
  <2>2. CASE server[w] # 0 /\ Goto(w, "newLocal")
    <3>1. server' = [server EXCEPT ![w] = w]
      BY <1>1, <2>1, <2>2 DEF OneInv, Addresses
    <3>2. QED
      BY <1>3, <1>4, <1>5, <2>2, <3>1
  <2>3. CASE Count(w, "store", w)
    BY <1>3, <1>4, <1>5, <2>1, <2>3
  <2>4. CASE StopRunner(w, "reset", "FAILED")
    BY <1>1, <2>1, <2>4, QuietEnd DEF Status
  <2>5. QED
    BY <1>2, <1>6, <2>2, <2>3, <2>4 DEF Resolve
<1>7. CASE StoreAddress(w)
  <2>1. thread[w].k = w
    BY <1>7 DEF StoreAddress, At, OneInv, Addresses
  <2>2. server' = [server EXCEPT ![w] = w] /\ Goto(w, "newLocal")
    BY <1>2, <1>7, <2>1 DEF StoreAddress
  <2>3. QED
    BY <1>3, <1>4, <1>5, <2>2
<1>8. QED
  BY <1>6, <1>7

(* A worker that makes a component for itself, and only its SSRLocal is    *)
(* given a profile.                                                        *)
LEMMA OneMakes ==
    ASSUME IInv, OneInv, NEW w \in Attempt, NEW f \in Field, NEW r \in ThreadState,
           NEW s \in ObjState, Ahead(f, thread[w].pc), ~Ahead(f, r.pc),
           thread' = [thread EXCEPT ![w] = r], RightIndex(r), r.answer # "spawn",
           r.pc \notin {"store", "newLocal", "killNull"},
           \A g \in Field : Ahead(g, r.pc) => Ahead(g, thread[w].pc),
           field' = [field EXCEPT ![f] = w],
           obj' = [obj EXCEPT ![f][w] = s],
           UNCHANGED <<calls, profile, server>>, Own'
    PROVE  OneInv'
<1>1. Objects /\ w \in Thread /\ w # Binder /\ thread \in [Thread -> ThreadState]
  BY WhatHolds
<1>2. Makes(w, r, f)
  BY <1>1 DEF Makes, Objects
<1>3. \A g \in Field : field'[g] = field[g] \/ Makes(w, r, g)
  BY <1>1, <1>2 DEF Objects
<1>4. \A g \in Field, a \in Attempt :
          obj'[g][a] \in Live => obj[g][a] \in Live \/ (Makes(w, r, g) /\ a = w)
  BY <1>1, <1>2 DEF Objects
<1>5. Busy(w)
  BY DEF Ahead, Busy
<1>6. Handles(w, r)
  BY <1>1, <1>3, <1>4, <1>5 DEF Handles
<1>7. Alone' /\ Ours' /\ Components'
  BY <1>1, <1>6, AloneKept, ComponentsKept
<1>8. Addresses'
  BY <1>1 DEF OneInv, Addresses
<1>9. QED
  BY <1>7, <1>8 DEF OneInv

(* A worker makes a proxy server.                                          *)
LEMMA OneNewServer ==
    ASSUME IInv, OneInv, NEW w \in Attempt, NEW l \in Pc, NEW f \in Server,
           NEW then \in Pc \ (Killing \cup {"store", "newLocal"}),
           NewServer(w, l, f, then),
           f = "local" => l = "newLocal",
           Ahead(f, l), ~Ahead(f, then),
           \A g \in Field : Ahead(g, then) => Ahead(g, l)
    PROVE  OneInv'
<1> DEFINE r == [thread[w] EXCEPT !.pc = then]
<1>1. /\ thread \in [Thread -> ThreadState] /\ thread[w].pc = l /\ thread[w].answer # "spawn"
      /\ f \in Field /\ uses \in [Attempt -> [profile : Ref, address : Ref]]
      /\ UNCHANGED <<calls, profile, server>>
  BY WhatHolds DEF Control, Spawning, Aside, NewServer, At, Field, io
<1>2. /\ r \in ThreadState /\ r.pc = then /\ r.answer # "spawn" /\ RightIndex(r)
      /\ thread' = [thread EXCEPT ![w] = r]
  BY <1>1 DEF NewServer, Goto, ThreadState, RightIndex, Killing
<1> HIDE DEF r
<1>3. Own'
  <2>1. CASE f = "local"
    <3>1. profile = w /\ server[w] = w
      BY <1>1, <2>1 DEF OneInv, Ours, Busy, Addresses
    <3>2. uses' = [uses EXCEPT ![w] = [profile |-> w, address |-> w]]
      BY <2>1, <3>1 DEF NewServer
    <3>3. QED
      BY <1>1, <3>2 DEF OneInv, Own
  <2>2. CASE f # "local"
    BY <2>2 DEF OneInv, Own, NewServer
  <2>3. QED
    BY <2>1, <2>2
<1>4. /\ field' = [field EXCEPT ![f] = w] /\ obj' = [obj EXCEPT ![f][w] = "new"]
      /\ "new" \in ObjState
  BY DEF NewServer, ObjState
<1>5. r.pc # "killNull"
  BY <1>2 DEF Killing
<1>6. QED
  BY <1>1, <1>2, <1>3, <1>4, <1>5, OneMakes

(* A worker starts the server a field refers to.                           *)
LEMMA OneStartServer ==
    ASSUME IInv, OneInv, NEW w \in Attempt, NEW l \in {"startLocal", "startUdp", "startTunnel"},
           NEW f \in Server, NEW then \in Pc \ (Killing \cup {"store", "newLocal"}),
           StartServer(w, l, f, then),
           \A g \in Field : Ahead(g, then) => Ahead(g, l)
    PROVE  OneInv'
<1>1. /\ thread \in [Thread -> ThreadState] /\ thread[w].pc = l /\ w \in Thread
      /\ thread[w].answer # "spawn" /\ f \in Field /\ Objects
      /\ UNCHANGED <<calls, profile, server, uses, field>>
  BY WhatHolds DEF Control, Spawning, StartServer, At, Field, io, plan
<1>2. CASE UNCHANGED obj /\ (Throw(w, "null") \/ Throw(w, "restarted"))
  BY <1>1, <1>2, ThrowKept
<1>3. CASE /\ field[f] # 0
           /\ obj' = [obj EXCEPT ![f][field[f]] = IF @ = "new" THEN "started" ELSE "doomed"]
           /\ Goto(w, then)
  <2> DEFINE r == [thread[w] EXCEPT !.pc = then]
  <2>1. /\ r \in ThreadState /\ r.pc = then /\ r.answer # "spawn" /\ RightIndex(r)
        /\ thread' = [thread EXCEPT ![w] = r] /\ r.pc # "killNull"
    BY <1>1, <1>3 DEF Goto, ThreadState, RightIndex, Killing
  <2> HIDE DEF r
  <2>2. field[f] \in Attempt
    BY <1>1, <1>3 DEF Objects
  <2>3. \A g \in Field, a \in Attempt : obj'[g][a] \in Live => obj[g][a] \in Live
    BY <1>1, <1>3, <2>2 DEF Objects, Live
  <2>4. Handles(w, r)
    BY <1>1, <2>1, <2>3 DEF Handles, Busy
  <2>5. QED
    BY <1>1, <2>1, <2>4, Still
<1>4. QED
  BY <1>2, <1>3 DEF StartServer

(* A worker starts a child process.                                        *)
LEMMA OneStartProcess ==
    ASSUME IInv, OneInv, NEW w \in Attempt, NEW f \in {"pdnsd", "tun2socks"}, NEW then,
           NEW r \in ThreadState, thread[w].pc \in {"startPdnsd", "tun2socks"},
           Ahead(f, thread[w].pc), ~Ahead(f, r.pc),
           \A g \in Field : Ahead(g, r.pc) => Ahead(g, thread[w].pc),
           RightIndex(r), r.answer # "spawn", r.pc \notin {"store", "newLocal", "killNull"},
           then => thread' = [thread EXCEPT ![w] = r],
           StartProcess(w, f, then)
    PROVE  OneInv'
<1>1. f \in Field /\ UNCHANGED <<calls, profile, server, uses>> /\ "running" \in ObjState /\ w \in Thread
  BY DEF StartProcess, Field, io, plan, ObjState
<1>2. Own'
  BY <1>1 DEF OneInv, Own
<1>3. CASE Throw(w, "exec") /\ UNCHANGED <<field, obj>>
  BY <1>1, <1>3, ThrowKept
<1>4. CASE /\ field' = [field EXCEPT ![f] = w] /\ obj' = [obj EXCEPT ![f][w] = "running"]
           /\ thread' = [thread EXCEPT ![w] = r]
  BY <1>1, <1>2, <1>4, OneMakes
<1>5. QED
  BY <1>3, <1>4 DEF StartProcess

(* Every step of a worker in startRunner.                                  *)
LEMMA OneWork ==
    ASSUME IInv, OneInv, NEW w \in Attempt, Work(w)
    PROVE  OneInv'
<1>1. /\ thread \in [Thread -> ThreadState] /\ w \in Thread /\ thread[w].answer # "spawn"
      /\ thread[w].k \in Nat
  BY WhatHolds DEF Control, Spawning, ThreadState
<1>2. ASSUME NEW l \in {"ifTunnel", "newTunnel", "establish", "checkConn", "tun2socks", "sendFd",
                       "connected", "tellConnected", "foreground"},
             Goto(w, l), Quiet, thread[w].pc \notin {"idle", "foreground"},
             \A f \in Field : Ahead(f, l) => Ahead(f, thread[w].pc)
      PROVE  OneInv'
  <2>1. l \in Pc \ (Killing \cup {"store", "newLocal"})
    BY <1>2 DEF Pc, Killing
  <2>2. QED
    BY <1>1, <1>2, <2>1, QuietGoto
<1>3. ASSUME StopRunner(w, "reset", "FAILED"), Quiet, thread[w].pc \notin {"idle", "foreground"}
      PROVE  OneInv'
  BY <1>1, <1>3, QuietEnd DEF Status
<1>4. CASE Resolve(w) \/ StoreAddress(w)
  BY <1>4, OneResolve
<1>5. CASE StartLocal(w)
  <2>1. CASE NewServer(w, "newLocal", "local", "startLocal")
    <3>1. /\ Ahead("local", "newLocal") /\ ~Ahead("local", "startLocal")
          /\ \A g \in Field : Ahead(g, "startLocal") => Ahead(g, "newLocal")
          /\ "newLocal" \in Pc /\ "startLocal" \in Pc \ (Killing \cup {"store", "newLocal"})
          /\ "local" \in Server
      BY DEF Ahead, Pc, Killing, Server
    <3>2. QED
      BY <2>1, <3>1, OneNewServer
  <2>2. ASSUME NEW then \in {"newUdp", "ifTunnel"}, StartServer(w, "startLocal", "local", then)
        PROVE  OneInv'
    <3>1. /\ \A g \in Field : Ahead(g, then) => Ahead(g, "startLocal")
          /\ then \in Pc \ (Killing \cup {"store", "newLocal"}) /\ "local" \in Server
      BY DEF Ahead, Pc, Killing, Server, Field
    <3>2. QED
      BY <2>2, <3>1, OneStartServer
  <2>3. QED
    BY <1>5, <2>1, <2>2 DEF StartLocal
<1>6. CASE StartUdp(w)
  <2>1. /\ Ahead("udprs", "newUdp") /\ ~Ahead("udprs", "startUdp") /\ "newUdp" \in Pc
        /\ {"startUdp", "ifTunnel"} \subseteq Pc \ (Killing \cup {"store", "newLocal"})
        /\ "udprs" \in Server
    BY DEF Ahead, Pc, Killing, Server
  <2>2. /\ \A g \in Field : Ahead(g, "startUdp") => Ahead(g, "newUdp")
        /\ \A g \in Field : Ahead(g, "ifTunnel") => Ahead(g, "startUdp")
    BY DEF Ahead
  <2>3. CASE NewServer(w, "newUdp", "udprs", "startUdp")
    BY <2>1, <2>2, <2>3, OneNewServer
  <2>4. CASE StartServer(w, "startUdp", "udprs", "ifTunnel")
    BY <2>1, <2>2, <2>4, OneStartServer
  <2>5. QED
    BY <1>6, <2>3, <2>4 DEF StartUdp
<1>7. CASE StartTunnel(w)
  <2>1. /\ Ahead("tunnel", "newTunnel") /\ ~Ahead("tunnel", "startTunnel") /\ "newTunnel" \in Pc
        /\ {"startTunnel", "startPdnsd"} \subseteq Pc \ (Killing \cup {"store", "newLocal"})
        /\ "tunnel" \in Server
    BY DEF Ahead, Pc, Killing, Server
  <2>2. /\ \A g \in Field : Ahead(g, "startTunnel") => Ahead(g, "newTunnel")
        /\ \A g \in Field : Ahead(g, "startPdnsd") => Ahead(g, "startTunnel")
        /\ \A g \in Field : Ahead(g, "newTunnel") => Ahead(g, "ifTunnel")
        /\ \A g \in Field : Ahead(g, "establish") => Ahead(g, "ifTunnel")
    BY DEF Ahead
  <2>3. CASE IfTunnel(w)
    <3>1. thread[w].pc = "ifTunnel" /\ Quiet /\ (Goto(w, "establish") \/ Goto(w, "newTunnel"))
      BY <2>3 DEF IfTunnel, At, Quiet, io, data, plan
    <3>2. QED
      BY <1>2, <2>2, <3>1
  <2>4. CASE NewServer(w, "newTunnel", "tunnel", "startTunnel")
    BY <2>1, <2>2, <2>4, OneNewServer
  <2>5. CASE StartServer(w, "startTunnel", "tunnel", "startPdnsd")
    BY <2>1, <2>2, <2>5, OneStartServer
  <2>6. QED
    BY <1>7, <2>3, <2>4, <2>5 DEF StartTunnel
<1>8. CASE StartDnsDaemon(w)
  <2> DEFINE r == [thread[w] EXCEPT !.pc = "establish"]
  <2>1. /\ r \in ThreadState /\ r.pc = "establish" /\ RightIndex(r) /\ r.answer # "spawn"
        /\ Goto(w, "establish") => thread' = [thread EXCEPT ![w] = r]
    BY <1>1 DEF ThreadState, Pc, RightIndex, Goto
  <2>2. thread[w].pc = "startPdnsd" /\ StartProcess(w, "pdnsd", Goto(w, "establish"))
    BY <1>8 DEF StartDnsDaemon, At
  <2> HIDE DEF r
  <2>3. /\ Ahead("pdnsd", thread[w].pc) /\ ~Ahead("pdnsd", r.pc)
        /\ \A g \in Field : Ahead(g, r.pc) => Ahead(g, thread[w].pc)
    BY <2>1, <2>2 DEF Ahead
  <2>4. QED
    BY <2>1, <2>2, <2>3, OneStartProcess
<1>9. CASE Establish(w)
  <2>1. /\ thread[w].pc = "establish" /\ Goto(w, "checkConn") /\ Quiet
        /\ \A g \in Field : Ahead(g, "checkConn") => Ahead(g, "establish")
    BY <1>9 DEF Establish, At, Quiet, io, plan, Ahead
  <2>2. QED
    BY <1>2, <2>1
<1>10. CASE CheckConn(w)
  <2>1. /\ thread[w].pc = "checkConn" /\ Quiet
        /\ \A g \in Field : Ahead(g, "tun2socks") => Ahead(g, "checkConn")
    BY <1>10 DEF CheckConn, At, Quiet, io, data, plan, Ahead
  <2>2. QED
    BY <1>2, <1>3, <1>10, <2>1 DEF CheckConn
<1>11. CASE StartTun2socks(w)
  <2>1. thread[w].pc = "tun2socks"
    BY <1>11 DEF StartTun2socks, At
  <2>2. CASE Throw(w, "null") /\ UNCHANGED <<io, data, starts>>
    BY <1>1, <2>1, <2>2, ThrowKept DEF io, data, plan
  <2>3. CASE StartProcess(w, "tun2socks", Count(w, "sleep", 1))
    <3> DEFINE r == [thread[w] EXCEPT !.pc = "sleep", !.k = 1]
    <3>1. /\ r \in ThreadState /\ r.pc = "sleep" /\ RightIndex(r) /\ r.answer # "spawn"
          /\ Count(w, "sleep", 1) => thread' = [thread EXCEPT ![w] = r]
      BY <1>1 DEF ThreadState, Pc, RightIndex, Count
    <3> HIDE DEF r
    <3>2. Ahead("tun2socks", thread[w].pc) /\ \A g \in Field : ~Ahead(g, r.pc)
      BY <2>1, <3>1 DEF Ahead
    <3>3. QED
      BY <2>1, <2>3, <3>1, <3>2, OneStartProcess DEF Field
  <2>4. QED
    BY <1>11, <2>2, <2>3 DEF StartTun2socks
<1>12. CASE Sleep(w) \/ SetConnected(w) \/ TellConnected(w)
  <2>1. /\ Quiet /\ thread[w].pc \in {"sleep", "connected", "tellConnected"}
        /\ \E l \in {"sendFd", "tellConnected", "foreground"} : Goto(w, l)
    BY <1>12 DEF Sleep, SetConnected, TellConnected, At, Quiet, io, data, plan
  <2>2. \A l \in {"sendFd", "tellConnected", "foreground"}, g \in Field : ~Ahead(g, l)
    BY DEF Ahead
  <2>3. QED
    BY <1>2, <2>1, <2>2
<1>13. CASE SendFd(w)
  <2>1. Quiet /\ thread[w].pc = "sendFd" /\ \A g \in Field : ~Ahead(g, "connected")
    BY <1>13 DEF SendFd, At, Quiet, io, data, plan, Ahead
  <2>2. CASE Count(w, "sleep", thread[w].k + 1)
    <3>1. thread[w].k + 1 \in Nat /\ thread[w].pc \notin Killing
      BY <1>1, <2>1 DEF Killing
    <3>2. QED
      BY <2>1, <2>2, <3>1, QuietCount
  <2>3. QED
    BY <1>2, <1>3, <1>13, <2>1, <2>2 DEF SendFd
<1>14. CASE StartForeground(w)
  <2>1. Quiet /\ thread[w].pc = "foreground" /\ thread' = [thread EXCEPT ![w] = Idle]
    BY <1>14 DEF StartForeground, At, Quiet, io, plan
  <2>2. QED
    BY <1>1, <2>1, QuietEnd
<1>15. QED
  BY <1>4, <1>5, <1>6, <1>7, <1>8, <1>9, <1>10, <1>11, <1>12, <1>13, <1>14 DEF Work

-----------------------------------------------------------------------------
(* What is not a step of a thread under way.                               *)
LEMMA OneServerBegins ==
    ASSUME IInv, OneInv, NEW f \in Server, NEW a \in Attempt, ServerBegins(f, a)
    PROVE  OneInv'
<1>1. Objects /\ f \in Field /\ UNCHANGED <<calls, profile, server, uses, field, thread>>
  BY WhatHolds DEF ServerBegins, Field, io, plan
<1>2. \A g \in Field, b \in Attempt : obj'[g][b] \in Live => obj[g][b] \in Live
  BY <1>1 DEF ServerBegins, Objects, Live
<1>3. Alone' /\ Ours' /\ Addresses' /\ Own' /\ Unmade' /\ Cleared'
  BY <1>1 DEF OneInv, Alone, StartQueued, Spawns, Busy, Ours, Addresses, Own, Components, Unmade, Cleared
<1>4. Kept'
  BY <1>1, <1>2 DEF OneInv, Components, Kept
<1>5. Told'
  <2> SUFFICES ASSUME NEW t \in Thread, thread[t].pc = "killNull", NEW g,
                      g = KillOrder[thread[t].k]
               PROVE  /\ \A b \in Attempt : obj'[g][b] \notin Live
                      /\ \A w \in Attempt : ~Ahead(g, thread[w].pc)
    BY <1>1 DEF Told, ToldOf
  <2>1. g \in Field
    BY KillOrderIs, WhatHolds DEF Control, Indexed, RightIndex
  <2>2. QED
    BY <1>2, <2>1 DEF OneInv, Components, Told, ToldOf
<1>6. QED
  BY <1>3, <1>4, <1>5 DEF OneInv, Components

(* A start is only asked for while none is under way.                      *)
LEMMA OnePost ==
    ASSUME IInv, OneInv, NEW op \in Op, NEW c \in Client, Post(op, c),
           UNCHANGED <<callback, data, thread, crashed>>,
           op = "start" => ~WorkerActive /\ ~StartAsked
    PROVE  OneInv'
<1>1. /\ Control /\ calls \in Seq(Calls) /\ starts \in Ref
      /\ UNCHANGED <<data, thread>>
  BY WhatHolds DEF Control, TypeOK, Calls
<1> DEFINE call == [op |-> op, by |-> c, id |-> IF op = "start" THEN starts' ELSE 0]
<1>2. calls' = Append(calls, call) /\ call.op = op
  BY DEF Post
<1> HIDE DEF call
<1>3. /\ Len(calls') = Len(calls) + 1 /\ Len(calls) \in Nat
      /\ \A i \in 1..Len(calls) : calls'[i] = calls[i]
      /\ calls'[Len(calls) + 1] = call
  BY <1>1, <1>2
<1>4. \A i : StartQueued(i)' => StartQueued(i) \/ (op = "start" /\ i = Len(calls) + 1)
  BY <1>2, <1>3 DEF StartQueued
<1>5. op = "start" => /\ \A w \in Attempt : ~Busy(w)
                      /\ ~Spawns
                      /\ \A i : ~StartQueued(i)
  <2> SUFFICES ASSUME op = "start"
               PROVE  /\ \A w \in Attempt : ~Busy(w)
                      /\ ~Spawns
                      /\ \A i : ~StartQueued(i)
    OBVIOUS
  <2>1. ~WorkerActive /\ ~StartAsked
    OBVIOUS
  <2>2. ~Spawns
    BY <1>1, <2>1 DEF StartAsked, Active, Spawns, Control, Spawning
  <2>3. QED
    BY <2>1, <2>2 DEF WorkerActive, Busy, StartAsked, StartQueued
<1>6. (\A w \in Attempt : Busy(w)' <=> Busy(w)) /\ (Spawns' <=> Spawns)
  BY <1>1 DEF Busy, Spawns
<1>7. \A i \in 1..Len(calls') : StartQueued(i)' => i \in 1..Len(calls) \/ op = "start"
  BY <1>4 DEF StartQueued
<1>8. Alone'
  <2>1. ASSUME NEW i, StartQueued(i)'
        PROVE  ~Spawns /\ \A w \in Attempt : ~Busy(w)
    <3>1. CASE StartQueued(i)
      BY <3>1 DEF OneInv, Alone, StartQueued
    <3>2. QED
      BY <1>4, <1>5, <2>1, <3>1
  <2>2. ASSUME NEW i, NEW j, StartQueued(i)', StartQueued(j)'
        PROVE  i = j
    <3>1. StartQueued(i) /\ StartQueued(j) => i = j
      BY DEF OneInv, Alone, StartQueued
    <3>2. QED
      BY <1>4, <1>5, <2>2, <3>1
  <2>3. QED
    BY <1>6, <2>1, <2>2 DEF OneInv, Alone
<1>9. Ours' /\ Addresses' /\ Components' /\ Own'
  BY <1>1 DEF OneInv, Busy, Ours, Addresses, Own, Components, Unmade, Cleared, Spawns, Told, ToldOf,
              Kept, data, plan
<1>10. QED
  BY <1>8, <1>9 DEF OneInv

(* The binder thread takes a call that is no start.                        *)
LEMMA OneTaken ==
    ASSUME IInv, OneInv, calls # <<>>, calls' = Tail(calls),
           UNCHANGED <<profile, server, uses, field, obj>>,
           \/ UNCHANGED thread
           \/ thread[Binder].pc = "idle" /\ StopRunner(Binder, "reset", "DISCONNECTED")
    PROVE  OneInv'
<1>1. Control /\ thread \in [Thread -> ThreadState]
  BY WhatHolds
<1>2. \A i \in 1..Len(calls') : i \in Nat /\ i + 1 \in 1..Len(calls) /\ calls'[i] = calls[i + 1]
  BY <1>1, Served
<1>3. \A i : StartQueued(i)' => i \in Nat /\ StartQueued(i + 1)
  BY <1>2 DEF StartQueued
<1>4. \A w \in Attempt : thread'[w] = thread[w] /\ (Busy(w)' <=> Busy(w))
  BY <1>1 DEF StopRunner, Busy
<1>5. /\ Spawns' => Spawns /\ thread'[Binder] = thread[Binder]
      /\ thread'[Binder] = thread[Binder] \/ thread'[Binder].pc = "reset"
  BY <1>1 DEF StopRunner, Spawns
<1>6. Alone'
  <2>1. ASSUME NEW i, StartQueued(i)'
        PROVE  ~Spawns /\ \A w \in Attempt : ~Busy(w)
    BY <1>3, <2>1 DEF OneInv, Alone, StartQueued
  <2>2. ASSUME NEW i, NEW j, StartQueued(i)', StartQueued(j)'
        PROVE  i = j
    <3>1. i + 1 = j + 1 /\ i \in Nat /\ j \in Nat
      BY <1>3, <2>2 DEF OneInv, Alone, StartQueued
    <3>2. QED
      BY <3>1
  <2>3. QED
    BY <1>4, <1>5, <2>1, <2>2 DEF OneInv, Alone
<1>7. Ours' /\ Addresses' /\ Own' /\ Unmade' /\ Kept'
  BY <1>4 DEF OneInv, Ours, Addresses, Own, Components, Unmade, Kept
<1>8. Cleared'
  BY <1>5 DEF OneInv, Components, Cleared
<1>9. Told'
  <2>1. \A t \in Thread : thread'[t] = thread[t] \/ thread'[t].pc = "reset"
    BY <1>4, <1>5
  <2>2. QED
    BY <1>4, <2>1 DEF OneInv, Components, Told, ToldOf
<1>10. QED
  BY <1>6, <1>7, <1>8, <1>9 DEF OneInv, Components

(* The binder thread takes the start.                                      *)
LEMMA OneServeStart ==
    ASSUME IInv, OneInv, ServeStart
    PROVE  OneInv'
<1>1. /\ Control /\ Aside /\ thread \in [Thread -> ThreadState]
      /\ calls # <<>> /\ calls' = Tail(calls) /\ thread[Binder].pc = "idle"
      /\ Head(calls).op = "start" /\ profile' = Head(calls).id
      /\ UNCHANGED <<uses, field, obj>>
  BY WhatHolds DEF ServeStart, Serving, At
<1>2. /\ \A i \in 1..Len(calls') : i \in Nat /\ i + 1 \in 1..Len(calls) /\ calls'[i] = calls[i + 1]
      /\ \A i \in 1..Len(calls') : i + 1 # 1
      /\ Head(calls) = calls[1] /\ 1 \in 1..Len(calls)
  BY <1>1, Served
<1>3. StartQueued(1)
  BY <1>1, <1>2 DEF StartQueued
<1>4. \A w \in Attempt : ~Busy(w)
  BY <1>2, <1>3 DEF OneInv, Alone
<1>5. \A i : ~StartQueued(i)'
  BY <1>2, <1>3 DEF OneInv, Alone, StartQueued
<1>6. /\ \A w \in Attempt : thread'[w] = thread[w]
      /\ thread'[Binder].pc \in {"kill", "answer"}
      /\ Spawns' => thread'[Binder].k = 1
  BY <1>1 DEF ServeStart, StopRunner, Spawns
<1>7. \A w \in Attempt : ~Busy(w)'
  BY <1>4, <1>6 DEF Busy
<1>8. Alone' /\ Ours'
  BY <1>5, <1>7 DEF Alone, Ours
<1>9. Addresses'
  <2>1. PICK address \in {0, profile'} : server' = [server EXCEPT ![profile'] = address]
    BY DEF ServeStart
  <2>2. \A a \in Attempt : server'[a] \in {0, a}
    BY <1>1, <2>1 DEF OneInv, Addresses, Aside
  <2>3. \A w \in Attempt : thread'[w].pc \notin {"store", "newLocal"}
    BY <1>7 DEF Busy
  <2>4. QED
    BY <2>2, <2>3 DEF Addresses
<1>10. Unmade'
  BY <1>7 DEF Unmade, Ahead, Busy
<1>11. Cleared'
  <2>1. \A i \in 1..5 : ~(i < 1)
    OBVIOUS
  <2>2. QED
    BY <1>6, <2>1 DEF Cleared
<1>12. Told'
  <2>1. \A t \in Thread : thread'[t].pc # "killNull"
    BY <1>6, <1>7 DEF Busy
  <2>2. QED
    BY <2>1 DEF Told
<1>13. Kept' /\ Own'
  BY <1>1 DEF OneInv, Components, Kept, Own
<1>14. QED
  BY <1>8, <1>9, <1>10, <1>11, <1>12, <1>13 DEF OneInv, Components

(* Every step of the service's own threads.                                *)
LEMMA OneServiceNext ==
    ASSUME IInv, OneInv, ServiceNext
    PROVE  OneInv'
<1>1. CASE ServeRegister \/ ServeStop
  <2>1. /\ calls # <<>> /\ calls' = Tail(calls)
        /\ UNCHANGED <<profile, server, uses, field, obj>>
        /\ \/ UNCHANGED thread
           \/ thread[Binder].pc = "idle" /\ StopRunner(Binder, "reset", "DISCONNECTED")
    BY <1>1 DEF ServeRegister, ServeStop, Serving, At, data, plan
  <2>2. QED
    BY <2>1, OneTaken
<1>2. CASE ServeStart
  BY <1>2, OneServeStart
<1>3. CASE \E t \in Thread : KillOrStop(t)
  BY <1>3, OneStopMoves, OneKill DEF KillOrStop
<1>4. CASE \E w \in Attempt : Work(w)
  BY <1>4, OneWork
<1>5. CASE \E f \in Server, a \in Attempt : ServerBegins(f, a)
  BY <1>5, OneServerBegins
<1>6. QED
  <2>1. Binder \in Thread /\ Attempt \subseteq Thread
    OBVIOUS
  <2>2. QED
    BY <1>1, <1>2, <1>3, <1>4, <1>5, <2>1 DEF ServiceNext, ServeNext, WorkerNext

(* A step that leaves the calls, the components and the threads alone.     *)
LEMMA OneStutter ==
    ASSUME OneInv, UNCHANGED <<calls, profile, server, uses, field, obj, thread>>
    PROVE  OneInv'
BY DEF OneInv, Alone, StartQueued, Spawns, Busy, Ours, Addresses, Own, Components, Unmade,
       Cleared, Told, ToldOf, Kept

(* Every step of the service and its clients.                              *)
LEMMA NextOneInv ==
    ASSUME OneWorker, IInv, OneInv, [Next]_vars
    PROVE  OneInv'
<1>1. CASE UNCHANGED vars \/ Receive
  BY <1>1, OneStutter DEF Receive, vars, io, data, plan
<1>2. ASSUME NEW c \in Client, NEW op \in Ops, Call(op, c)
      PROVE  OneInv'
  <2>1. op \in Op
    BY DEF Op
  <2>2. QED
    BY <1>2, <2>1, OnePost DEF Call, MayCall
<1>3. CASE ServiceNext
  BY <1>3, OneServiceNext
<1>4. QED
  BY <1>1, <1>2, <1>3 DEF Next, ClientNext

(* Nothing has begun.                                                      *)
LEMMA NewProcessOneInv == NewProcess => OneInv
<1> SUFFICES ASSUME NewProcess PROVE OneInv
  OBVIOUS
<1>1. /\ \A t \in Thread : thread[t] = Idle
      /\ \A i : ~StartQueued(i)
      /\ \A f \in Field, a \in Attempt : field[f] = 0 /\ obj[f][a] = "none"
      /\ \A a \in Attempt : server[a] = 0 /\ uses[a].profile = 0
  BY DEF NewProcess, StartQueued
<1>2. Idle.pc = "idle" /\ Idle.answer # "spawn"
  BY DEF Idle
<1>3. ~Spawns /\ \A w \in Attempt : ~Busy(w) /\ thread[w].pc = "idle"
  BY <1>1, <1>2 DEF Spawns, Busy
<1>4. QED
  BY <1>1, <1>2, <1>3 DEF OneInv, Alone, Ours, Addresses, Components, Unmade, Ahead, Cleared, Told,
                          Kept, Live, Own

(* While no two starts overlap.                                            *)
THEOREM OneAtATime == Spec => [](OneWorker => OneInv)
<1>1. Init => (OneWorker => OneInv)
  <2>1. <<>> \in Seq([to : Client, status : Status])
    OBVIOUS
  <2>2. Init => NewProcess
    BY <2>1 DEF Init, NewProcess
  <2>3. QED
    BY <2>2, NewProcessOneInv
<1>2. IInv /\ (OneWorker => OneInv) /\ [Next]_vars => (OneWorker => OneInv)'
  BY NextOneInv
<1>3. QED
  BY <1>1, <1>2, Invariance, PTL DEF Spec

(* Whatever stop, revoke and a failing worker do, a proxy server or child  *)
(* process that has been made and not stopped is the one its field refers  *)
(* to, so that killProcesses can stop it.                                  *)
THEOREM NothingIsLost == Spec => []NothingLost
<1>1. (OneWorker => OneInv) => NothingLost
  BY DEF OneInv, Components, Kept, Live, NothingLost
<1>2. QED
  BY <1>1, OneAtATime, PTL

(* An SSRLocal is built with the profile its own start brought and the     *)
(* address of that profile's server.                                       *)
THEOREM ProfileIsItsOwn == Spec => []OwnProfile
<1>1. (OneWorker => OneInv) => OwnProfile
  BY DEF OneInv, Own, OwnProfile
<1>2. QED
  BY <1>1, OneAtATime, PTL
=============================================================================
