------------------------- MODULE MainActivityProofs -------------------------
(***************************************************************************)
(* SSRVPNService with its real clients.  In every world the service keeps  *)
(* what VpnServiceProofs shows of it, through the ends of its process and  *)
(* of the instances.  In a serial world, where one instance of             *)
(* MainActivity after the other asks and nobody else does, the button and  *)
(* the wait dialog let no two starts overlap, so that the service also     *)
(* keeps what it promises only then, and a rested button tells the truth.  *)
(***************************************************************************)
EXTENDS MainActivity, VpnServiceProofs

USE BoundsAssumption, ClientAssumption, OpsAssumption DEF Attempt, Ref, Thread, Binder

UiTyped ==
    /\ act \in [Client -> Activity]
    /\ pd \in Client \cup {NoClient}
    /\ booted \in BOOLEAN
    /\ world \in Worlds

Statuses == [to : Client, status : Status]

(* What a step of the UI process is to the service.                        *)
Posts == \E op \in Op, c \in Client :
    /\ Post(op, c) /\ inbox' \in Seq(Statuses) /\ UNCHANGED <<callback, data, thread, crashed>>
    /\ op = "start" => starts < MaxStarts
Takes ==
    /\ UNCHANGED <<calls, callback, data, starts, thread, crashed>>
    /\ inbox' \in Seq(Statuses)

LEMMA InAWorld ==
    ASSUME UiTyped
    PROVE  world.starts \in 0..MaxStarts /\ world.activities \subseteq Client
BY WorldAssumption DEF UiTyped, WorldType

LEMMA StepsOfTheService ==
    ASSUME IInv, UiTyped, [UiNext]_allVars
    PROVE  UNCHANGED vars \/ Posts \/ Takes \/ OnServiceDisconnected \/ ServiceNext
<1>1. ASSUME NEW a \in Client, NEW op \in Op, Ask(op, a), op = "start" => starts < world.starts
      PROVE  Posts
  <2>0. inbox' \in Seq(Statuses)
    BY <1>1, WhatHolds DEF Ask, Aside, Statuses
  <2>1. op = "start" => starts < MaxStarts
    <3>1. starts \in Ref
      BY WhatHolds DEF Control, TypeOK
    <3>2. world.starts \in 0..MaxStarts
      BY InAWorld
    <3>3. QED
      BY <1>1, <3>1, <3>2
  <2>2. QED
    BY <1>1, <2>0, <2>1 DEF Posts, Ask
<1>2. inbox \in Seq(Statuses) /\ {"register", "unregister", "start", "stop", "revoke"} = Op
  BY WhatHolds DEF Aside, Statuses, Op
<1>3. ASSUME NEW a, UiEnds(a)
      PROVE  inbox' \in Seq(Statuses)
  <2>1. <<>> \in Seq(Statuses)
    OBVIOUS
  <2>2. inbox' = <<>>
    BY <1>3 DEF UiEnds
  <2>3. QED
    BY <2>1, <2>2
<1>4. ASSUME NEW a \in Client, ActivityNext(a)
      PROVE  UNCHANGED vars \/ Posts \/ Takes
  <2>1. ASSUME AskStart(a), starts < world.starts
        PROVE  UNCHANGED vars \/ Posts
    BY <1>1, <1>2, <2>1 DEF AskStart
  <2>2. CASE OnCreate(a) \/ Finish(a)
    BY <2>2 DEF OnCreate, Finish
  <2>3. CASE OnDestroy(a)
    <3>1. Ask("unregister", a) \/ UNCHANGED vars
      BY <2>3 DEF OnDestroy
    <3>2. QED
      BY <1>1, <1>2, <3>1
  <2>4. CASE OnServiceConnected(a)
    BY <1>1, <1>2, <2>4 DEF OnServiceConnected
  <2>5. CASE OnClickStop(a)
    BY <1>1, <1>2, <2>5 DEF OnClickStop
  <2>6. CASE OnClickStart(a)
    BY <2>1, <2>6 DEF OnClickStart
  <2>7. CASE OnActivityResult(a)
    BY <2>1, <2>7 DEF OnActivityResult
  <2>8. CASE UiDies(a)
    <3>1. inbox' \in Seq(Statuses)
      BY <1>3, <2>8 DEF UiDies
    <3>2. QED
      BY <2>8, <3>1 DEF UiDies, Takes
  <2>9. CASE OnClickFails(a)
    BY <2>9 DEF OnClickFails
  <2>10. CASE OnCreateSaved(a)
    <3>1. inbox' \in Seq(Statuses) /\ UNCHANGED <<callback, data, thread, crashed>>
      BY <1>3, <2>10 DEF OnCreateSaved
    <3>2. UNCHANGED <<calls, starts>> \/ Post("register", a)
      BY <2>10 DEF OnCreateSaved
    <3>3. QED
      BY <1>2, <3>1, <3>2 DEF Posts, Takes
  <2>11. QED
    BY <1>4, <2>2, <2>3, <2>4, <2>5, <2>6, <2>7, <2>8, <2>9, <2>10 DEF ActivityNext
<1>5. CASE OnStatusChanged \/ StatusIsLost
  BY <1>2, <1>5 DEF OnStatusChanged, StatusIsLost, Takes
<1>6. CASE OnStatusThrows
  <2>1. inbox' \in Seq(Statuses)
    BY <1>6, <1>3 DEF OnStatusThrows
  <2>2. QED
    BY <1>6, <2>1 DEF OnStatusThrows, Takes
<1>7. CASE StubStart
  BY <1>1, <1>2, <1>7, InAWorld DEF StubStart
<1>8. CASE Revoke
  BY <1>1, <1>2, <1>8, InAWorld DEF Revoke
<1>9. QED
  BY <1>4, <1>5, <1>6, <1>7, <1>8 DEF UiNext, allVars

(* The end of the service's process leaves a new one.                      *)
LEMMA Disconnected ==
    ASSUME IInv, OnServiceDisconnected
    PROVE  NewProcess'
<1>1. inbox \in Seq([to : Client, status : Status]) /\ starts \in Ref
  BY WhatHolds DEF Aside, Control, TypeOK
<1>2. UNCHANGED <<inbox, starts>>
  BY DEF OnServiceDisconnected
<1>3. QED
  BY <1>1, <1>2 DEF OnServiceDisconnected, NewProcess

(* The service's invariant withstands its clients.                         *)
LEMMA ServiceKept ==
    ASSUME IInv, UiTyped, [UiNext]_allVars
    PROVE  IInv'
<1>1. CASE UNCHANGED vars \/ ServiceNext
  BY <1>1, NextIInv DEF Next
<1>2. CASE Posts
  BY <1>2, PostStep DEF Posts, Statuses
<1>3. CASE Takes
  BY <1>3, InboxStep DEF Takes, Statuses
<1>4. CASE OnServiceDisconnected
  <2>1. NewProcess' => IInv'
    BY NewProcessIInv, PTL
  <2>2. QED
    BY <1>4, <2>1, Disconnected
<1>5. QED
  BY <1>1, <1>2, <1>3, <1>4, StepsOfTheService

(* An instance after its record is changed.                                *)
LEMMA ActivityTyped ==
    ASSUME NEW r \in Activity
    PROVE  /\ \A l \in Life : [r EXCEPT !.life = l] \in Activity
           /\ \A b \in BOOLEAN : [r EXCEPT !.bound = b] \in Activity
           /\ \A b \in BOOLEAN : [r EXCEPT !.fab = b] \in Activity
           /\ \A b \in BOOLEAN : [r EXCEPT !.consent = b] \in Activity
           /\ \A b \in BOOLEAN : SwitchUI(r, b) \in Activity
BY DEF Activity, SwitchUI

(* The end of the UI process leaves records of its instances.              *)
LEMMA EndTyped ==
    ASSUME act \in [Client -> Activity], NEW a, UiEnds(a)
    PROVE  act' \in [Client -> Activity] /\ pd' \in Client \cup {NoClient}
<1>1. \A b \in Client : /\ act[b] \in Activity
                       /\ [act[b] EXCEPT !.life = "gone", !.bound = FALSE, !.consent = FALSE] \in Activity
  BY DEF Activity, Life
<1>2. /\ act' = [b \in Client |->
                   IF act[b].life = "none" /\ b # a THEN act[b]
                   ELSE [act[b] EXCEPT !.life = "gone", !.bound = FALSE, !.consent = FALSE]]
      /\ pd' = NoClient
  BY DEF UiEnds
<1>3. QED
  BY <1>1, <1>2

(* The UI process stays well typed.                                        *)
LEMMA UiTypedKept ==
    ASSUME IInv, UiTyped, [UiNext]_allVars
    PROVE  UiTyped'
<1>1. act \in [Client -> Activity] /\ connected \in BOOLEAN
  BY WhatHolds DEF UiTyped, Aside
<1>2. ASSUME NEW a \in Client, NEW r \in Activity, act' = [act EXCEPT ![a] = r]
      PROVE  act' \in [Client -> Activity]
  BY <1>1, <1>2
<1>3. ASSUME NEW a \in Client, ActivityNext(a)
      PROVE  act' \in [Client -> Activity] /\ pd' \in Client \cup {NoClient} /\ UNCHANGED <<booted, world>>
  <2> DEFINE r == act[a]
  <2>1. /\ r \in Activity /\ SwitchUI(r, TRUE) \in Activity
        /\ SwitchUI(r, ~connected) \in Activity
    BY <1>1, ActivityTyped
  <2>2. /\ act' = [act EXCEPT ![a].life = "created"] => act' = [act EXCEPT ![a] = [r EXCEPT !.life = "created"]]
        /\ act' = [act EXCEPT ![a].life = "finishing"] => act' = [act EXCEPT ![a] = [r EXCEPT !.life = "finishing"]]
        /\ act' = [act EXCEPT ![a].fab = FALSE] => act' = [act EXCEPT ![a] = [r EXCEPT !.fab = FALSE]]
        /\ act' = [act EXCEPT ![a].consent = FALSE] => act' = [act EXCEPT ![a] = [r EXCEPT !.consent = FALSE]]
        /\ act' = [act EXCEPT ![a].life = "destroyed", ![a].bound = FALSE] =>
              act' = [act EXCEPT ![a] = [[r EXCEPT !.life = "destroyed"] EXCEPT !.bound = FALSE]]
        /\ act' = [act EXCEPT ![a].fab = FALSE, ![a].consent = TRUE] =>
              act' = [act EXCEPT ![a] = [[r EXCEPT !.fab = FALSE] EXCEPT !.consent = TRUE]]
        /\ act' = [act EXCEPT ![a].fab = FALSE, ![a].consent = FALSE] =>
              act' = [act EXCEPT ![a] = [[r EXCEPT !.fab = FALSE] EXCEPT !.consent = FALSE]]
        /\ act' = [act EXCEPT ![a] = [SwitchUI(@, TRUE) EXCEPT !.consent = FALSE]] =>
              act' = [act EXCEPT ![a] = [SwitchUI(r, TRUE) EXCEPT !.consent = FALSE]]
    BY <1>1
  <2> HIDE DEF r
  <2>3. /\ {"created", "finishing", "destroyed"} \subseteq Life
        /\ \A l \in Life : [r EXCEPT !.life = l] \in Activity
        /\ [[r EXCEPT !.life = "destroyed"] EXCEPT !.bound = FALSE] \in Activity
        /\ [r EXCEPT !.fab = FALSE] \in Activity
        /\ \A b \in BOOLEAN : [[r EXCEPT !.fab = FALSE] EXCEPT !.consent = b] \in Activity
        /\ [r EXCEPT !.consent = FALSE] \in Activity
        /\ [SwitchUI(r, TRUE) EXCEPT !.consent = FALSE] \in Activity
        /\ [SwitchUI(r, ~connected) EXCEPT !.bound = TRUE] \in Activity
    <3>1. {"created", "finishing", "destroyed"} \subseteq Life
      BY DEF Life
    <3>2. [r EXCEPT !.life = "destroyed"] \in Activity /\ [r EXCEPT !.fab = FALSE] \in Activity
      BY <2>1, <3>1, ActivityTyped
    <3>3. QED
      BY <2>1, <3>1, <3>2, ActivityTyped
  <2>4. pd \in Client \cup {NoClient}
    BY DEF UiTyped
  <2>5. ASSUME AskStart(a)
        PROVE  act' \in [Client -> Activity] /\ pd' \in Client \cup {NoClient}
    BY <1>2, <2>2, <2>3, <2>5 DEF AskStart
  <2>6. CASE OnCreate(a)
    BY <1>2, <2>2, <2>3, <2>4, <2>6 DEF OnCreate
  <2>7. CASE Finish(a)
    BY <1>2, <2>2, <2>3, <2>4, <2>7 DEF Finish
  <2>8. CASE OnDestroy(a)
    BY <1>2, <2>2, <2>3, <2>4, <2>8 DEF OnDestroy
  <2>9. CASE OnServiceConnected(a)
    <3>1. /\ act' = [act EXCEPT ![a] = [SwitchUI(@, ~connected) EXCEPT !.bound = TRUE]]
          /\ UNCHANGED <<pd, booted, world>>
      BY <2>9 DEF OnServiceConnected
    <3>2. act' = [act EXCEPT ![a] = [SwitchUI(r, ~connected) EXCEPT !.bound = TRUE]]
      BY <3>1 DEF r
    <3>3. act' \in [Client -> Activity]
      BY <1>2, <2>3, <3>2
    <3>4. QED
      BY <2>4, <3>1, <3>3
  <2>10. CASE OnClickStop(a)
    <3>1. act' = [act EXCEPT ![a].fab = FALSE] /\ pd' = a /\ UNCHANGED <<booted, world>>
      BY <2>10 DEF OnClickStop
    <3>2. QED
      BY <1>2, <2>2, <2>3, <3>1
  <2>11. CASE OnClickStart(a)
    BY <1>2, <2>2, <2>3, <2>4, <2>5, <2>11 DEF OnClickStart
  <2>12. CASE OnActivityResult(a)
    BY <1>2, <2>2, <2>3, <2>4, <2>5, <2>12 DEF OnActivityResult
  <2>13. CASE UiDies(a) \/ OnCreateSaved(a)
    <3>1. UiEnds(a) /\ UNCHANGED <<booted, world>>
      BY <2>13 DEF UiDies, OnCreateSaved
    <3>2. QED
      BY <1>1, <3>1, EndTyped
  <2>14. CASE OnClickFails(a)
    <3>1. /\ act' = [act EXCEPT ![a] = SwitchUI(@, TRUE)]
          /\ pd' \in {pd, a} /\ UNCHANGED <<booted, world>>
      BY <2>14 DEF OnClickFails, SetUI
    <3>2. act' = [act EXCEPT ![a] = SwitchUI(r, TRUE)]
      BY <1>1, <3>1 DEF r
    <3>3. QED
      BY <1>2, <2>1, <2>4, <3>1, <3>2
  <2>15. QED
    BY <1>3, <2>6, <2>7, <2>8, <2>9, <2>10, <2>11, <2>12, <2>13, <2>14 DEF ActivityNext
<1>4. CASE OnServiceDisconnected
  <2>1. \A b \in Client : act[b] \in Activity /\ SwitchUI(act[b], TRUE) \in Activity
    BY <1>1, ActivityTyped
  <2>2. \A b \in Client : [SwitchUI(act[b], TRUE) EXCEPT !.bound = FALSE] \in Activity
    BY <2>1, ActivityTyped
  <2>3. act' \in [Client -> Activity]
    BY <1>4, <2>1, <2>2 DEF OnServiceDisconnected
  <2>4. QED
    BY <1>4, <2>3 DEF OnServiceDisconnected, UiTyped
<1>5. CASE OnStatusChanged
  <2>1. Head(inbox) \in Statuses
    <3>1. inbox \in Seq(Statuses) /\ inbox # <<>>
      BY <1>5, WhatHolds DEF OnStatusChanged, Aside, Statuses
    <3>2. QED
      BY <3>1
  <2>2. ASSUME NEW a \in Client, NEW e \in BOOLEAN, SetUI(a, e)
        PROVE  act' \in [Client -> Activity]
    <3>1. SwitchUI(act[a], e) \in Activity
      BY <1>1, ActivityTyped
    <3>2. act' = [act EXCEPT ![a] = SwitchUI(act[a], e)]
      BY <1>1, <2>2 DEF SetUI
    <3>3. QED
      BY <1>2, <3>1, <3>2
  <2>3. act' \in [Client -> Activity]
    BY <1>5, <2>1, <2>2 DEF OnStatusChanged, Statuses
  <2>4. QED
    BY <1>5, <2>3 DEF OnStatusChanged, UiTyped
<1>6. CASE UNCHANGED <<act, pd, world>> /\ booted' \in BOOLEAN
  BY <1>6 DEF UiTyped
<1>7. QED
  <2>1. CASE \/ StubStart \/ Revoke \/ StatusIsLost
             \/ (ServiceNext /\ UNCHANGED uiVars) \/ UNCHANGED allVars
    BY <1>6, <2>1 DEF StubStart, Revoke, StatusIsLost, uiVars, allVars, UiTyped
  <2>2. CASE OnStatusThrows
    <3>1. UiEnds(pd) /\ UNCHANGED <<booted, world>>
      BY <2>2 DEF OnStatusThrows
    <3>2. QED
      BY <1>1, <3>1, EndTyped DEF UiTyped
  <2>3. QED
    BY <1>3, <1>4, <1>5, <2>1, <2>2 DEF UiNext, UiTyped

(* The type invariant and what the service's own proofs need, in every     *)
(* world.                                                                  *)
UiInv == IInv /\ UiTyped

LEMMA InitUiInv == UiInit => UiInv
<1> SUFFICES ASSUME UiInit PROVE UiInv
  OBVIOUS
<1>1. IInv
  BY InitIInv DEF UiInit
<1>2. [life |-> "none", bound |-> FALSE, fab |-> TRUE, icon |-> "play", consent |-> FALSE] \in Activity
  BY DEF Activity, Life
<1>3. act \in [Client -> Activity] /\ pd = NoClient /\ booted \in BOOLEAN /\ world \in Worlds
  BY <1>2 DEF UiInit
<1>4. QED
  BY <1>1, <1>3 DEF UiInv, UiTyped

LEMMA UiInvariance == UiSpec => []UiInv
<1>1. UiInv /\ [UiNext]_allVars => UiInv'
  BY ServiceKept, UiTypedKept DEF UiInv
<1>2. QED
  BY <1>1, InitUiInv, PTL DEF UiSpec

-----------------------------------------------------------------------------
(* A serial world: at most one errand is under way in the service, be it a *)
(* call in the queue, a thread at work or a status on its way back.        *)
Asked(i) == i \in 1..Len(calls) /\ calls[i].op \in {"start", "stop", "revoke"}
Errand == inbox # <<>> \/ (\E t \in Thread : Busy(t)) \/ (\E i \in 1..Len(calls) : Asked(i))

OnlyOne ==
    /\ \A t, u \in Thread : Busy(t) /\ Busy(u) => t = u
    /\ \A i, j \in 1..Len(calls) : Asked(i) /\ Asked(j) => i = j
    /\ \A t \in Thread, i \in 1..Len(calls) : ~(Busy(t) /\ Asked(i))
    /\ inbox # <<>> => \A t \in Thread : ~Busy(t)
    /\ inbox # <<>> => \A i \in 1..Len(calls) : ~Asked(i)

(* What a thread in state r has made of isVPNConnected.                    *)
InStep(r, c) ==
    r.pc \notin {"idle", "foreground"} =>
        /\ r.pc = "tellConnected" => c
        /\ r.pc \notin {"reset", "tellConnected"} => ~c

Errands ==
    /\ \A t \in Thread : thread[t].answer # "CONNECTED"
    /\ Len(inbox) <= 1
    /\ inbox # <<>> => ServiceUp /\ (Head(inbox).status = "CONNECTED" <=> connected)
    /\ ServiceUp =>
          /\ OnlyOne
          /\ \A t \in Thread : InStep(thread[t], connected)
          /\ \A i \in 1..Len(calls) : calls[i].op = "start" => ~connected

(* The thread that runs the errand goes on, or ends it with a status.      *)
LEMMA ErrandGoesOn ==
    ASSUME IInv, Errands, ServiceUp, NEW t \in Thread, Busy(t), NEW r,
           thread' = [thread EXCEPT ![t] = r], UNCHANGED calls,
           r.answer # "CONNECTED", InStep(r, connected'),
           \/ UNCHANGED inbox
           \/ /\ r.pc \in {"idle", "foreground"} /\ UNCHANGED crashed
              /\ \E m \in Statuses : /\ inbox' = Append(inbox, m)
                                    /\ (m.status = "CONNECTED" <=> connected')
    PROVE  Errands'
<1>1. /\ thread \in [Thread -> ThreadState] /\ OnlyOne /\ inbox \in Seq(Statuses)
      /\ thread'[t] = r /\ \A u \in Thread \ {t} : thread'[u] = thread[u]
  BY WhatHolds DEF Errands, Aside, Statuses
<1>2. /\ inbox = <<>>
      /\ \A u \in Thread : Busy(u)' => u = t
      /\ \A i \in 1..Len(calls) : ~Asked(i) /\ calls[i].op # "start"
  BY <1>1 DEF OnlyOne, Busy, Asked
<1>3. \A i \in 1..Len(calls') : ~Asked(i)' /\ calls'[i].op # "start"
  BY <1>2 DEF Asked
<1>4. /\ Len(inbox') <= 1
      /\ inbox' # <<>> => /\ r.pc \in {"idle", "foreground"} /\ UNCHANGED crashed
                          /\ (Head(inbox').status = "CONNECTED" <=> connected')
  <2>1. CASE UNCHANGED inbox
    BY <1>2, <2>1
  <2>2. CASE ~UNCHANGED inbox
    <3>1. PICK m \in Statuses : /\ inbox' = Append(inbox, m)
                               /\ (m.status = "CONNECTED" <=> connected')
      BY <2>2
    <3>2. Len(inbox') = 1 /\ Head(inbox') = m
      BY <1>2, <3>1
    <3>3. QED
      BY <2>2, <3>1, <3>2
  <2>3. QED
    BY <2>1, <2>2
<1>5. OnlyOne'
  <2>1. inbox' # <<>> => \A u \in Thread : ~Busy(u)'
    BY <1>1, <1>2, <1>4 DEF Busy
  <2>2. QED
    BY <1>2, <1>3, <2>1 DEF OnlyOne
<1>6. \A u \in Thread : thread'[u].answer # "CONNECTED" /\ InStep(thread'[u], connected')
  <2>1. \A u \in Thread \ {t} : thread'[u].pc \in {"idle", "foreground"}
    BY <1>2 DEF Busy
  <2>2. QED
    BY <1>1, <2>1 DEF Errands, InStep
<1>7. QED
  BY <1>3, <1>4, <1>5, <1>6 DEF Errands, ServiceUp

(* Most of its steps leave isVPNConnected false.                           *)
LEMMA ErrandMoves ==
    ASSUME IInv, Errands, ServiceUp, NEW t \in Thread, Busy(t),
           thread[t].pc # "tellConnected", connected' = FALSE, UNCHANGED <<calls, inbox>>,
           \/ \E l \in Pc \ {"tellConnected"} : Goto(t, l)
           \/ \E l \in Pc \ {"tellConnected"}, n \in Nat : Count(t, l, n)
           \/ \E status \in {"FAILED", "DISCONNECTED"} : StopRunner(t, "reset", status)
           \/ \E why \in Crash : Throw(t, why)
    PROVE  Errands'
<1>1. thread \in [Thread -> ThreadState] /\ thread[t].answer # "CONNECTED"
  BY WhatHolds DEF Errands
<1>2. PICK r : /\ thread' = [thread EXCEPT ![t] = r] /\ r.answer # "CONNECTED"
               /\ r.pc # "tellConnected"
  <2>1. ASSUME NEW l \in Pc \ {"tellConnected"}, Goto(t, l)
        PROVE  /\ thread' = [thread EXCEPT ![t] = [thread[t] EXCEPT !.pc = l]]
               /\ [thread[t] EXCEPT !.pc = l].answer # "CONNECTED"
               /\ [thread[t] EXCEPT !.pc = l].pc # "tellConnected"
    BY <1>1, <2>1 DEF Goto, ThreadState
  <2>2. ASSUME NEW l \in Pc \ {"tellConnected"}, NEW n \in Nat, Count(t, l, n)
        PROVE  /\ thread' = [thread EXCEPT ![t] = [thread[t] EXCEPT !.pc = l, !.k = n]]
               /\ [thread[t] EXCEPT !.pc = l, !.k = n].answer # "CONNECTED"
               /\ [thread[t] EXCEPT !.pc = l, !.k = n].pc # "tellConnected"
    BY <1>1, <2>2 DEF Count, ThreadState
  <2>3. ASSUME NEW status \in {"FAILED", "DISCONNECTED"}, StopRunner(t, "reset", status)
        PROVE  thread' = [thread EXCEPT ![t] = [pc |-> "reset", k |-> 0, answer |-> status]]
    BY <2>3 DEF StopRunner
  <2>4. ASSUME NEW why \in Crash, Throw(t, why)
        PROVE  \/ thread' = [thread EXCEPT ![t] = Idle]
               \/ thread' = [thread EXCEPT ![t] = thread[t]]
    BY <1>1, <2>4 DEF Throw
  <2>5. Idle.answer # "CONNECTED" /\ Idle.pc # "tellConnected"
    BY DEF Idle
  <2>6. CASE \E l \in Pc \ {"tellConnected"} : Goto(t, l)
    BY <2>1, <2>6
  <2>7. CASE \E l \in Pc \ {"tellConnected"}, n \in Nat : Count(t, l, n)
    BY <2>2, <2>7
  <2>8. CASE \E status \in {"FAILED", "DISCONNECTED"} : StopRunner(t, "reset", status)
    <3>1. PICK status \in {"FAILED", "DISCONNECTED"} : StopRunner(t, "reset", status)
      BY <2>8
    <3> DEFINE r == [pc |-> "reset", k |-> 0, answer |-> status]
    <3>2. r.answer # "CONNECTED" /\ r.pc # "tellConnected"
      OBVIOUS
    <3>3. QED
      BY <2>3, <3>1, <3>2
  <2>9. CASE \E why \in Crash : Throw(t, why)
    BY <1>1, <2>4, <2>5, <2>9
  <2>10. QED
    BY <2>6, <2>7, <2>8, <2>9
<1>3. InStep(r, connected')
  BY <1>2 DEF InStep
<1>4. QED
  BY <1>2, <1>3, ErrandGoesOn

(* A thread seen at its errand.                                            *)
LEMMA AtWork ==
    ASSUME IInv, Errands, NEW t \in Thread, NEW l \in Pc \ {"idle", "foreground"}, At(t, l)
    PROVE  /\ ServiceUp /\ Busy(t) /\ Errand
           /\ l = "tellConnected" => connected = TRUE
           /\ l \notin {"reset", "tellConnected"} => connected = FALSE
<1>1. ServiceUp /\ Busy(t) /\ thread[t].pc = l
  BY DEF At, ServiceUp, Busy
<1>2. InStep(thread[t], connected) /\ connected \in BOOLEAN
  BY <1>1, WhatHolds DEF Errands, Aside
<1>3. QED
  BY <1>1, <1>2 DEF InStep, Errand

(* startRunner's killProcesses leaves the errand to a worker of its own.   *)
LEMMA ErrandHandedOn ==
    ASSUME IInv, Errands, NEW t \in Thread, KillDone(t), thread[t].answer = "spawn"
    PROVE  Errands'
<1>1. /\ ServiceUp /\ Busy(t) /\ connected = FALSE
      /\ UNCHANGED <<calls, inbox, connected, crashed>>
      /\ thread' = [thread EXCEPT ![t] = Idle, ![profile].pc = "resolve"]
  <2>1. "kill" \in Pc \ {"idle", "foreground"}
    BY DEF Pc
  <2>2. At(t, "kill") /\ UNCHANGED <<io, data, starts, crashed>>
    BY DEF KillDone
  <2>3. ServiceUp /\ Busy(t) /\ connected = FALSE
    BY <2>1, <2>2, AtWork
  <2>4. QED
    BY <2>2, <2>3 DEF KillDone, io, data
<1>2. /\ thread \in [Thread -> ThreadState] /\ t = Binder /\ profile \in Attempt
      /\ OnlyOne
  <2>1. t = Binder
    BY WhatHolds DEF Control, Spawning
  <2>2. QED
    BY <1>1, <2>1, WhatHolds DEF Control, TypeOK, Profiled, Errands
<1>3. /\ thread'[t] = Idle /\ thread'[profile].pc = "resolve"
      /\ thread'[profile].answer = thread[profile].answer
      /\ \A u \in Thread \ {t, profile} : thread'[u] = thread[u]
  BY <1>1, <1>2 DEF ThreadState
<1>4. /\ inbox = <<>>
      /\ \A u \in Thread \ {t} : ~Busy(u)
      /\ \A i \in 1..Len(calls) : ~Asked(i) /\ calls[i].op # "start"
  BY <1>1, <1>2 DEF OnlyOne, Asked
<1>5. \A u \in Thread : (u # profile => ~Busy(u)') /\ (u = profile => thread'[u].pc = "resolve")
  BY <1>3, <1>4 DEF Busy, Idle
<1>6. OnlyOne'
  BY <1>1, <1>4, <1>5 DEF OnlyOne, Asked
<1>7. \A u \in Thread : InStep(thread'[u], connected')
  BY <1>1, <1>5 DEF InStep, Busy
<1>8. \A u \in Thread : thread'[u].answer # "CONNECTED"
  BY <1>2, <1>3 DEF Idle, Errands
<1>9. QED
  BY <1>1, <1>4, <1>6, <1>7, <1>8 DEF Errands, ServiceUp

(* A status on its way ends the errand.                                    *)
LEMMA ErrandAnswered ==
    ASSUME IInv, Errands, ServiceUp, NEW t \in Thread, Busy(t), NEW r,
           r.pc = "idle" \/ r.pc = "foreground", r.answer # "CONNECTED",
           thread' = [thread EXCEPT ![t] = r], UNCHANGED <<calls, connected, crashed>>,
           NEW status \in Status, Tell(status), connected = (status = "CONNECTED")
    PROVE  Errands'
<1>1. InStep(r, connected')
  BY DEF InStep
<1>2. UNCHANGED calls /\ UNCHANGED crashed /\ connected' = (status = "CONNECTED")
  OBVIOUS
<1>3. CASE callback = NoClient
  <2>1. UNCHANGED inbox
    BY <1>3 DEF Tell
  <2>2. QED
    BY <1>1, <1>2, <2>1, ErrandGoesOn
<1>4. CASE callback # NoClient
  <2> DEFINE m == [to |-> callback, status |-> status]
  <2>1. m \in Statuses
    BY <1>4, WhatHolds DEF Aside, Statuses
  <2>2. m.status = status /\ inbox' = Append(inbox, m)
    BY <1>4 DEF Tell
  <2> HIDE DEF m
  <2>3. (m.status = "CONNECTED") <=> connected'
    BY <1>2, <2>2
  <2>4. QED
    BY <1>1, <1>2, <2>1, <2>2, <2>3, ErrandGoesOn
<1>5. QED
  BY <1>3, <1>4

(* stopRunner and killProcesses.                                           *)
LEMMA ErrandsStopping ==
    ASSUME IInv, Errands, NEW t \in Thread, KillOrStop(t)
    PROVE  Errands' /\ Errand
<1>1. {"reset", "kill", "killStop", "killNull", "unforeground", "close", "closeFd",
       "closeNull", "answer"} \subseteq Pc \ {"idle", "foreground", "tellConnected"}
  BY DEF Pc
<1>2. thread \in [Thread -> ThreadState] /\ thread[t].k + 1 \in Nat
  BY WhatHolds DEF ThreadState
<1>3. {"null", "noPool"} \subseteq Crash
  BY DEF Crash
<1>4. ASSUME Reset(t)
      PROVE  Errands' /\ Errand
  <2>1. At(t, "reset") /\ connected' = FALSE /\ Count(t, "kill", 1) /\ UNCHANGED <<calls, inbox>>
    BY <1>4 DEF Reset, io
  <2>2. QED
    BY <1>1, <2>1, AtWork, ErrandMoves DEF At
<1>5. ASSUME KillCheck(t)
      PROVE  Errands' /\ Errand
  <2>1. /\ At(t, "kill") /\ UNCHANGED <<calls, inbox, connected>>
        /\ Count(t, "kill", thread[t].k + 1) \/ Goto(t, "killStop")
    BY <1>5 DEF KillCheck, io, data
  <2>2. /\ ServiceUp /\ Busy(t) /\ Errand /\ connected' = FALSE
        /\ thread[t].pc # "tellConnected"
    BY <1>1, <2>1, AtWork DEF At
  <2>3. QED
    BY <1>1, <1>2, <2>1, <2>2, ErrandMoves
<1>6. ASSUME KillStop(t)
      PROVE  Errands' /\ Errand
  <2>1. /\ At(t, "killStop") /\ UNCHANGED <<calls, inbox, connected>>
        /\ Throw(t, "null") \/ Throw(t, "noPool") \/ Goto(t, "killNull")
    BY <1>6 DEF KillStop, io
  <2>2. QED
    BY <1>1, <1>3, <2>1, AtWork, ErrandMoves DEF At
<1>7. ASSUME KillNull(t)
      PROVE  Errands' /\ Errand
  <2>1. /\ At(t, "killNull") /\ UNCHANGED <<calls, inbox, connected>>
        /\ Count(t, "kill", thread[t].k + 1)
    BY <1>7 DEF KillNull, io
  <2>2. /\ ServiceUp /\ Busy(t) /\ Errand /\ connected' = FALSE
        /\ thread[t].pc # "tellConnected"
    BY <1>1, <2>1, AtWork DEF At
  <2>3. QED
    BY <1>1, <1>2, <2>1, <2>2, ErrandMoves
<1>8. ASSUME KillDone(t)
      PROVE  Errands' /\ Errand
  <2>1. At(t, "kill") /\ UNCHANGED <<calls, inbox, connected>>
    BY <1>8 DEF KillDone, io, data
  <2>2. CASE thread[t].answer = "spawn"
    BY <1>1, <1>8, <2>1, <2>2, AtWork, ErrandHandedOn
  <2>3. CASE thread[t].answer # "spawn"
    <3>1. Goto(t, "unforeground")
      BY <1>8, <2>3 DEF KillDone
    <3>2. QED
      BY <1>1, <2>1, <3>1, AtWork, ErrandMoves DEF At
  <2>4. QED
    BY <2>2, <2>3
<1>9. ASSUME StopForeground(t) \/ CloseCheck(t) \/ CloseFd(t) \/ CloseNull(t)
      PROVE  Errands' /\ Errand
  <2>1. /\ At(t, "unforeground") \/ At(t, "close") \/ At(t, "closeFd") \/ At(t, "closeNull")
        /\ UNCHANGED <<calls, inbox, connected>>
        /\ \/ Goto(t, "close") \/ Goto(t, "answer") \/ Goto(t, "closeFd")
           \/ Goto(t, "closeNull") \/ Throw(t, "null")
    BY <1>9 DEF StopForeground, CloseCheck, CloseFd, CloseNull, io, data
  <2>2. ServiceUp /\ Busy(t) /\ Errand /\ connected = FALSE /\ thread[t].pc # "tellConnected"
    BY <1>1, <2>1, AtWork DEF At
  <2>3. QED
    BY <1>1, <1>3, <2>1, <2>2, ErrandMoves
<1>10. ASSUME Answer(t)
       PROVE  Errands' /\ Errand
  <2>1. /\ At(t, "answer") /\ Tell(thread[t].answer) /\ thread' = [thread EXCEPT ![t] = Idle]
        /\ UNCHANGED <<calls, connected, crashed>>
    BY <1>10 DEF Answer, data
  <2>2. ServiceUp /\ Busy(t) /\ Errand /\ connected = FALSE
    BY <1>1, <2>1, AtWork
  <2>3. thread[t].answer \in Status /\ connected = (thread[t].answer = "CONNECTED")
    <3>1. thread[t].answer # "spawn"
      BY <2>1, WhatHolds DEF Control, Spawning, At
    <3>2. QED
      BY <1>2, <2>2, <3>1 DEF ThreadState, Errands
  <2>4. Idle.pc = "idle" /\ Idle.answer # "CONNECTED"
    BY DEF Idle
  <2>5. Errands'
    BY <2>1, <2>2, <2>3, <2>4, ErrandAnswered
  <2>6. QED
    BY <2>2, <2>5
<1>11. QED
  BY <1>4, <1>5, <1>6, <1>7, <1>8, <1>9, <1>10 DEF KillOrStop

(* The statements of a worker that make something.                         *)
LEMMA WorkIs ==
    ASSUME IInv, NEW w \in Attempt,
           StartLocal(w) \/ StartUdp(w) \/ StartTunnel(w) \/ StartDnsDaemon(w) \/ StartTun2socks(w)
    PROVE  /\ UNCHANGED <<calls, inbox, connected>>
           /\ \E l \in Pc \ {"idle", "foreground", "reset", "tellConnected"} : At(w, l)
           /\ \/ \E l \in Pc \ {"tellConnected"} : Goto(w, l)
              \/ \E l \in Pc \ {"tellConnected"}, n \in Nat : Count(w, l, n)
              \/ \E why \in Crash : Throw(w, why)
<1>1. {"newLocal", "startLocal", "newUdp", "startUdp", "ifTunnel", "newTunnel", "startTunnel",
       "startPdnsd", "tun2socks", "establish", "sleep"}
         \subseteq Pc \ {"idle", "foreground", "reset", "tellConnected"}
  BY DEF Pc
<1>2. {"null", "restarted", "exec"} \subseteq Crash
  BY DEF Crash
<1>3. ASSUME NEW l, NEW f, NEW then \in Pc \ {"idle", "foreground", "reset", "tellConnected"},
             NewServer(w, l, f, then)
      PROVE  UNCHANGED <<calls, inbox, connected>> /\ At(w, l) /\ Goto(w, then)
  BY <1>3 DEF NewServer, io
<1>4. ASSUME NEW l, NEW f, NEW then \in Pc \ {"idle", "foreground", "reset", "tellConnected"},
             StartServer(w, l, f, then)
      PROVE  /\ UNCHANGED <<calls, inbox, connected>> /\ At(w, l)
             /\ Goto(w, then) \/ Throw(w, "null") \/ Throw(w, "restarted")
  BY <1>4 DEF StartServer, io
<1>5. CASE StartLocal(w)
  <2>1. CASE NewServer(w, "newLocal", "local", "startLocal")
    BY <1>1, <1>3, <2>1
  <2>2. ASSUME StartServer(w, "startLocal", "local", IF profile \in DnsForward THEN "newUdp" ELSE "ifTunnel")
        PROVE  /\ UNCHANGED <<calls, inbox, connected>> /\ At(w, "startLocal")
               /\ \/ Goto(w, "newUdp") \/ Goto(w, "ifTunnel")
                  \/ Throw(w, "null") \/ Throw(w, "restarted")
    BY <2>2 DEF StartServer, io
  <2>3. QED
    BY <1>1, <1>2, <1>5, <2>1, <2>2 DEF StartLocal
<1>6. CASE StartUdp(w)
  <2>1. CASE NewServer(w, "newUdp", "udprs", "startUdp")
    BY <1>1, <1>3, <2>1
  <2>2. CASE StartServer(w, "startUdp", "udprs", "ifTunnel")
    BY <1>1, <1>2, <1>4, <2>2
  <2>3. QED
    BY <1>6, <2>1, <2>2 DEF StartUdp
<1>7. CASE StartTunnel(w)
  <2>1. ASSUME IfTunnel(w)
        PROVE  /\ UNCHANGED <<calls, inbox, connected>> /\ At(w, "ifTunnel")
               /\ Goto(w, "establish") \/ Goto(w, "newTunnel")
    BY <2>1 DEF IfTunnel, io, data
  <2>2. CASE NewServer(w, "newTunnel", "tunnel", "startTunnel")
    BY <1>1, <1>3, <2>2
  <2>3. CASE StartServer(w, "startTunnel", "tunnel", "startPdnsd")
    BY <1>1, <1>2, <1>4, <2>3
  <2>4. QED
    BY <1>1, <1>7, <2>1, <2>2, <2>3 DEF StartTunnel
<1>8. CASE StartDnsDaemon(w)
  <2>1. /\ UNCHANGED <<calls, inbox, connected>> /\ At(w, "startPdnsd")
        /\ Goto(w, "establish") \/ Throw(w, "exec")
    BY <1>8 DEF StartDnsDaemon, StartProcess, io
  <2>2. QED
    BY <1>1, <1>2, <2>1
<1>9. CASE StartTun2socks(w)
  <2>1. /\ UNCHANGED <<calls, inbox, connected>> /\ At(w, "tun2socks")
        /\ Count(w, "sleep", 1) \/ Throw(w, "exec") \/ Throw(w, "null")
    BY <1>9 DEF StartTun2socks, StartProcess, io, data
  <2>2. QED
    BY <1>1, <1>2, <2>1
<1>10. QED
  BY <1>5, <1>6, <1>7, <1>8, <1>9

(* A worker in its start sequence, up to the notification.                 *)
LEMMA ErrandsWorking ==
    ASSUME IInv, Errands, NEW w \in Attempt, Work(w), ~StartForeground(w)
    PROVE  Errands' /\ Errand
<1>1. /\ {"resolve", "store", "establish", "checkConn", "sleep", "sendFd", "connected",
          "newLocal", "tun2socks"} \subseteq Pc \ {"idle", "foreground", "reset", "tellConnected"}
      /\ {"tellConnected"} \subseteq Pc \ {"idle", "foreground"}
  BY DEF Pc
<1>2. /\ thread \in [Thread -> ThreadState] /\ profile \in Nat /\ w \in Thread
      /\ thread[w].k + 1 \in Nat
  <2>1. /\ thread \in [Thread -> ThreadState] /\ profile \in Ref /\ w \in Thread
    BY WhatHolds DEF Control, TypeOK
  <2>2. thread[w].k \in Nat
    BY <2>1 DEF ThreadState
  <2>3. QED
    BY <2>1, <2>2
<1>3. ASSUME UNCHANGED <<calls, inbox, connected>>,
             NEW l \in Pc \ {"idle", "foreground", "reset", "tellConnected"}, At(w, l),
             \/ \E m \in Pc \ {"tellConnected"} : Goto(w, m)
             \/ \E m \in Pc \ {"tellConnected"}, n \in Nat : Count(w, m, n)
             \/ \E status \in {"FAILED", "DISCONNECTED"} : StopRunner(w, "reset", status)
             \/ \E why \in Crash : Throw(w, why)
      PROVE  Errands' /\ Errand
  <2>1. /\ ServiceUp /\ Busy(w) /\ Errand /\ connected' = FALSE
        /\ thread[w].pc # "tellConnected"
    BY <1>2, <1>3, AtWork DEF At
  <2>2. Errands'
    BY <1>2, <1>3, <2>1, ErrandMoves
  <2>3. QED
    BY <2>1, <2>2
<1>4. CASE Resolve(w)
  <2>1. /\ UNCHANGED <<calls, inbox, connected>> /\ At(w, "resolve")
        /\ Goto(w, "newLocal") \/ Count(w, "store", profile) \/ StopRunner(w, "reset", "FAILED")
    BY <1>4 DEF Resolve, io, data
  <2>2. QED
    BY <1>1, <1>2, <1>3, <2>1
<1>5. CASE StoreAddress(w) \/ Establish(w)
  <2>1. /\ UNCHANGED <<calls, inbox, connected>>
        /\ At(w, "store") \/ At(w, "establish")
        /\ Goto(w, "newLocal") \/ Goto(w, "checkConn")
    BY <1>5 DEF StoreAddress, Establish, io
  <2>2. QED
    BY <1>1, <1>3, <2>1
<1>6. CASE CheckConn(w) \/ Sleep(w)
  <2>1. /\ UNCHANGED <<calls, inbox, connected>>
        /\ At(w, "checkConn") \/ At(w, "sleep")
        /\ Goto(w, "tun2socks") \/ Goto(w, "sendFd") \/ StopRunner(w, "reset", "FAILED")
    BY <1>6 DEF CheckConn, Sleep, io, data
  <2>2. QED
    BY <1>1, <1>3, <2>1
<1>7. CASE SendFd(w)
  <2>1. /\ UNCHANGED <<calls, inbox, connected>> /\ At(w, "sendFd")
        /\ \/ Goto(w, "connected") \/ Count(w, "sleep", thread[w].k + 1)
           \/ StopRunner(w, "reset", "FAILED")
    BY <1>7 DEF SendFd, io, data
  <2>2. QED
    BY <1>1, <1>2, <1>3, <2>1
<1>8. CASE StartLocal(w) \/ StartUdp(w) \/ StartTunnel(w) \/ StartDnsDaemon(w) \/ StartTun2socks(w)
  BY <1>3, <1>8, WorkIs
<1>9. CASE SetConnected(w)
  <2>1. /\ At(w, "connected") /\ connected' = TRUE /\ UNCHANGED <<calls, inbox>>
        /\ Goto(w, "tellConnected")
    BY <1>9 DEF SetConnected, io
  <2>2. ServiceUp /\ Busy(w) /\ Errand
    BY <1>1, <1>2, <2>1, AtWork
  <2> DEFINE r == [thread[w] EXCEPT !.pc = "tellConnected"]
  <2>3. /\ thread' = [thread EXCEPT ![w] = r] /\ r.pc = "tellConnected"
        /\ r.answer = thread[w].answer
    BY <1>2, <2>1 DEF Goto, ThreadState
  <2> HIDE DEF r
  <2>4. r.answer # "CONNECTED" /\ InStep(r, connected')
    BY <1>2, <2>1, <2>3 DEF Errands, InStep
  <2>5. Errands'
    BY <1>2, <2>1, <2>2, <2>3, <2>4, ErrandGoesOn
  <2>6. QED
    BY <2>2, <2>5
<1>10. CASE TellConnected(w)
  <2>1. /\ At(w, "tellConnected") /\ Tell("CONNECTED") /\ Goto(w, "foreground")
        /\ UNCHANGED <<calls, connected, crashed>>
    BY <1>10 DEF TellConnected, data
  <2>2. ServiceUp /\ Busy(w) /\ Errand /\ connected = TRUE
    BY <1>1, <1>2, <2>1, AtWork
  <2> DEFINE r == [thread[w] EXCEPT !.pc = "foreground"]
  <2>3. /\ thread' = [thread EXCEPT ![w] = r] /\ r.pc = "foreground"
        /\ r.answer = thread[w].answer
    BY <1>2, <2>1 DEF Goto, ThreadState
  <2> HIDE DEF r
  <2>4. r.answer # "CONNECTED" /\ "CONNECTED" \in Status
    BY <1>2, <2>3 DEF Errands, Status
  <2>5. Errands'
    BY <1>2, <2>1, <2>2, <2>3, <2>4, ErrandAnswered
  <2>6. QED
    BY <2>2, <2>5
<1>11. QED
  BY <1>4, <1>5, <1>6, <1>7, <1>8, <1>9, <1>10 DEF Work

(* The binder takes the call that is the errand.                           *)
LEMMA ErrandTaken ==
    ASSUME IInv, Errands, ServiceUp, calls # <<>>, Asked(1), calls' = Tail(calls),
           NEW r, thread' = [thread EXCEPT ![Binder] = r],
           r.answer # "CONNECTED", InStep(r, connected),
           UNCHANGED <<inbox, connected, crashed>>
    PROVE  Errands' /\ Errand
<1>1. /\ thread \in [Thread -> ThreadState] /\ OnlyOne /\ Control
      /\ thread'[Binder] = r /\ \A u \in Thread \ {Binder} : thread'[u] = thread[u]
  BY WhatHolds DEF Errands
<1>2. /\ 1 \in 1..Len(calls)
      /\ \A i \in 1..Len(calls') : i \in Nat /\ i + 1 \in 1..Len(calls)
      /\ \A i \in 1..Len(calls') : i + 1 # 1 /\ calls'[i] = calls[i + 1]
  BY <1>1, Served
<1>3. /\ inbox = <<>>
      /\ \A u \in Thread : ~Busy(u)
      /\ \A i \in 1..Len(calls) : i # 1 => ~Asked(i)
  BY <1>1, <1>2 DEF OnlyOne
<1>4. \A i \in 1..Len(calls') : ~Asked(i)' /\ calls'[i].op # "start"
  BY <1>2, <1>3 DEF Asked
<1>5. \A u \in Thread : Busy(u)' => u = Binder
  BY <1>1, <1>3 DEF Busy
<1>6. OnlyOne'
  BY <1>3, <1>4, <1>5 DEF OnlyOne
<1>7. \A u \in Thread : InStep(thread'[u], connected') /\ thread'[u].answer # "CONNECTED"
  <2>1. \A u \in Thread \ {Binder} : thread'[u].pc \in {"idle", "foreground"}
    BY <1>5 DEF Busy
  <2>2. QED
    BY <1>1, <2>1 DEF InStep, Errands
<1>8. QED
  BY <1>2, <1>3, <1>4, <1>6, <1>7 DEF Errands, ServiceUp, Errand

(* Calls that ask for nothing may come and go.                             *)
LEMMA CallsAside ==
    ASSUME calls \in Seq(Calls),
           \/ UNCHANGED calls
           \/ calls # <<>> /\ calls' = Tail(calls) /\ ~Asked(1)
           \/ \E c \in Calls : calls' = Append(calls, c) /\ c.op \in {"register", "unregister"}
    PROVE  \E d \in {0, 1} : \A i \in 1..Len(calls') :
              /\ i \in Nat
              /\ Asked(i)' => Asked(i + d) /\ i + d \in 1..Len(calls)
              /\ calls'[i].op = "start" => Asked(i)' /\ calls[i + d].op = "start"
<1>1. CASE UNCHANGED calls
  <2>1. \A i \in 1..Len(calls') : i \in Nat /\ i + 0 = i
    BY <1>1
  <2>2. QED
    BY <1>1, <2>1 DEF Asked
<1>2. CASE calls # <<>> /\ calls' = Tail(calls) /\ ~Asked(1)
  <2>1. \A i \in 1..Len(calls') : i \in Nat /\ i + 1 \in 1..Len(calls) /\ calls'[i] = calls[i + 1]
    BY <1>2
  <2>2. QED
    BY <2>1 DEF Asked
<1>3. ASSUME NEW c \in Calls, calls' = Append(calls, c), c.op \in {"register", "unregister"}
      PROVE  \A i \in 1..Len(calls') :
              /\ i \in Nat
              /\ Asked(i)' => Asked(i + 0) /\ i + 0 \in 1..Len(calls)
              /\ calls'[i].op = "start" => Asked(i)' /\ calls[i + 0].op = "start"
  <2>1. \A i \in 1..Len(calls') :
           /\ i \in Nat /\ i + 0 = i
           /\ (i \in 1..Len(calls) /\ calls'[i] = calls[i]) \/ calls'[i] = c
    BY <1>3
  <2>2. QED
    BY <1>3, <2>1 DEF Asked
<1>4. QED
  BY <1>1, <1>2, <1>3

(* What leaves the errand alone, wherever it is.                           *)
LEMMA ErrandAside ==
    ASSUME Errands, ServiceUp, calls \in Seq(Calls),
           \/ UNCHANGED calls
           \/ calls # <<>> /\ calls' = Tail(calls) /\ ~Asked(1)
           \/ \E c \in Calls : calls' = Append(calls, c) /\ c.op \in {"register", "unregister"},
           \A u \in Thread : \/ thread'[u] = thread[u]
                             \/ ~Busy(u) /\ ~Busy(u)' /\ thread'[u].answer # "CONNECTED",
           UNCHANGED <<connected, inbox, crashed>>
    PROVE  Errands' /\ (Errand' => Errand)
<1>1. PICK d \in {0, 1} : \A i \in 1..Len(calls') :
              /\ i \in Nat
              /\ Asked(i)' => Asked(i + d) /\ i + d \in 1..Len(calls)
              /\ calls'[i].op = "start" => Asked(i)' /\ calls[i + d].op = "start"
  BY CallsAside
<1>2. \A u \in Thread : Busy(u)' <=> Busy(u)
  BY DEF Busy
<1>3. \A i \in Nat, j \in Nat : i + d = j + d => i = j
  OBVIOUS
<1>4. OnlyOne'
  BY <1>1, <1>2, <1>3 DEF Errands, OnlyOne
<1>5. \A u \in Thread : InStep(thread'[u], connected') /\ thread'[u].answer # "CONNECTED"
  BY DEF Errands, InStep, Busy
<1>6. \A i \in 1..Len(calls') : calls'[i].op = "start" => ~connected'
  BY <1>1 DEF Errands
<1>7. Errands'
  BY <1>4, <1>5, <1>6 DEF Errands, ServiceUp
<1>8. Errand' => Errand
  <2>1. \A i \in 1..Len(calls') : Asked(i)' => Errand
    BY <1>1 DEF Errand
  <2>2. QED
    BY <1>2, <2>1 DEF Errand
<1>9. QED
  BY <1>7, <1>8

(* Every step of the service: only an errand changes isVPNConnected, and   *)
(* the service never begins one itself.                                    *)
LEMMA ErrandsService ==
    ASSUME IInv, Errands, ServiceNext
    PROVE  Errands' /\ ServiceUp /\ (Errand \/ (UNCHANGED connected /\ ~Errand'))
<1>1. calls \in Seq(Calls) /\ thread \in [Thread -> ThreadState]
  BY WhatHolds DEF Control, TypeOK, Calls
<1>2. ASSUME NEW t \in Thread, KillOrStop(t)
      PROVE  ServiceUp
  BY <1>2 DEF KillOrStop, Reset, KillCheck, KillStop, KillNull, KillDone, StopForeground, CloseCheck,
              CloseFd, CloseNull, Answer, At, ServiceUp
<1>3. CASE ServeRegister
  <2>1. /\ ServiceUp /\ calls # <<>> /\ calls' = Tail(calls) /\ ~Asked(1)
        /\ UNCHANGED <<connected, inbox, thread, crashed>>
    BY <1>1, <1>3 DEF ServeRegister, Serving, At, ServiceUp, Asked, data
  <2>2. QED
    BY <1>1, <2>1, ErrandAside
<1>4. CASE ServeStart
  <2>1. /\ ServiceUp /\ calls # <<>> /\ calls' = Tail(calls) /\ Head(calls).op = "start"
        /\ UNCHANGED <<connected, inbox, crashed>>
        /\ \/ thread' = [thread EXCEPT ![Binder] = [pc |-> "kill", k |-> 1, answer |-> "spawn"]]
           \/ thread' = [thread EXCEPT ![Binder] = [pc |-> "answer", k |-> 0, answer |-> "FAILED"]]
    BY <1>4 DEF ServeStart, Serving, At, ServiceUp, StopRunner
  <2>2. Head(calls) = calls[1] /\ 1 \in 1..Len(calls)
    BY <1>1, <2>1
  <2>3. Asked(1) /\ ~connected
    BY <2>1, <2>2 DEF Asked, Errands
  <2>4. PICK r : /\ thread' = [thread EXCEPT ![Binder] = r] /\ r.answer # "CONNECTED"
                 /\ r.pc # "tellConnected"
    <3>1. /\ [pc |-> "kill", k |-> 1, answer |-> "spawn"].answer # "CONNECTED"
          /\ [pc |-> "kill", k |-> 1, answer |-> "spawn"].pc # "tellConnected"
          /\ [pc |-> "answer", k |-> 0, answer |-> "FAILED"].answer # "CONNECTED"
          /\ [pc |-> "answer", k |-> 0, answer |-> "FAILED"].pc # "tellConnected"
      OBVIOUS
    <3>2. QED
      BY <2>1, <3>1, Zenon
  <2>5. InStep(r, connected)
    BY <2>3, <2>4 DEF InStep
  <2>6. QED
    BY <2>1, <2>3, <2>4, <2>5, ErrandTaken
<1>5. CASE ServeStop
  <2> DEFINE r == [pc |-> "reset", k |-> 0, answer |-> "DISCONNECTED"]
  <2>1. /\ ServiceUp /\ calls # <<>> /\ calls' = Tail(calls) /\ Head(calls).op \in {"stop", "revoke"}
        /\ UNCHANGED <<connected, inbox, crashed>>
        /\ thread' = [thread EXCEPT ![Binder] = r]
    BY <1>5 DEF ServeStop, Serving, At, ServiceUp, StopRunner, data
  <2>2. Head(calls) = calls[1] /\ 1 \in 1..Len(calls)
    BY <1>1, <2>1
  <2>3. Asked(1) /\ r.answer # "CONNECTED" /\ InStep(r, connected)
    BY <2>1, <2>2 DEF Asked, InStep
  <2> HIDE DEF r
  <2>4. QED
    BY <2>1, <2>3, ErrandTaken
<1>6. ASSUME NEW w \in Attempt, Work(w)
      PROVE  Errands' /\ ServiceUp /\ (Errand \/ (UNCHANGED connected /\ ~Errand'))
  <2>1. CASE StartForeground(w)
    <3>1. /\ ServiceUp /\ thread[w].pc = "foreground" /\ thread' = [thread EXCEPT ![w] = Idle]
          /\ UNCHANGED <<calls, connected, inbox, crashed>>
      BY <2>1 DEF StartForeground, At, ServiceUp, io
    <3>2. \A u \in Thread : \/ thread'[u] = thread[u]
                            \/ ~Busy(u) /\ ~Busy(u)' /\ thread'[u].answer # "CONNECTED"
      BY <1>1, <3>1 DEF Busy, Idle
    <3>3. QED
      BY <1>1, <3>1, <3>2, ErrandAside
  <2>2. CASE ~StartForeground(w)
    <3>1. Errands' /\ Errand
      BY <1>6, <2>2, ErrandsWorking
    <3>2. ServiceUp
      <4>1. CASE StartLocal(w) \/ StartUdp(w) \/ StartTunnel(w) \/ StartDnsDaemon(w) \/ StartTun2socks(w)
        BY <4>1, WorkIs DEF At, ServiceUp
      <4>2. QED
        BY <1>6, <2>2, <4>1 DEF Work, Resolve, StoreAddress, Establish, CheckConn, Sleep, SendFd,
                                SetConnected, TellConnected, At, ServiceUp
    <3>3. QED
      BY <3>1, <3>2
  <2>3. QED
    BY <2>1, <2>2
<1>7. ASSUME NEW f \in Server, NEW a \in Attempt, ServerBegins(f, a)
      PROVE  Errands' /\ ServiceUp /\ (Errand \/ (UNCHANGED connected /\ ~Errand'))
  <2>1. ServiceUp /\ UNCHANGED <<calls, connected, inbox, thread, crashed>>
    BY <1>7 DEF ServerBegins, ServiceUp, io
  <2>2. QED
    BY <1>1, <2>1, ErrandAside
<1>8. \A w \in Attempt : w \in Thread
  OBVIOUS
<1>9. QED
  BY <1>2, <1>3, <1>4, <1>5, <1>6, <1>7, <1>8, ErrandsStopping DEF ServiceNext, ServeNext, WorkerNext

-----------------------------------------------------------------------------
(* What the screen shows meanwhile: one instance at a time, the wait       *)
(* dialog or a disabled button for as long as the errand lasts, and a      *)
(* button that says what isVPNConnected says when it can be clicked.       *)
OneAlive == \A a, b \in Client : Alive(a) /\ Alive(b) => a = b
Consents ==
    \A a \in Client : act[a].consent =>
        act[a].life = "created" /\ pd = NoClient /\ (ServiceUp => ~connected)
BoundAlive == \A a \in Client : act[a].bound => Alive(a)
Dialog == pd # NoClient => act[pd].life = "created"
Waits == ServiceUp /\ Errand => pd # NoClient /\ act[pd].bound /\ ~act[pd].fab
Truthful ==
    ServiceUp => \A a \in Client :
        act[a].bound /\ act[a].fab => (act[a].icon = "pause" <=> connected)
Screen == OneAlive /\ Consents /\ BoundAlive /\ Dialog /\ Waits /\ Truthful

(* A call that is an errand, made when there is none.                      *)
LEMMA ErrandAsked ==
    ASSUME IInv, Errands, ServiceUp, ~Errand, NEW op \in {"start", "stop"}, NEW a \in Client,
           Ask(op, a), op = "start" => ~connected
    PROVE  Errands' /\ ServiceUp' /\ UNCHANGED connected
<1>1. /\ calls \in Seq(Calls) /\ UNCHANGED <<connected, inbox, thread, crashed>>
      /\ \E c : calls' = Append(calls, c) /\ c.op = op
  <2> DEFINE c == [op |-> op, by |-> a, id |-> IF op = "start" THEN starts' ELSE 0]
  <2>1. calls \in Seq(Calls)
    BY WhatHolds DEF Control, TypeOK, Calls
  <2>2. UNCHANGED <<connected, inbox, thread, crashed>> /\ calls' = Append(calls, c)
    BY DEF Ask, Post, data
  <2>3. c.op = op
    OBVIOUS
  <2> HIDE DEF c
  <2>4. QED
    BY <2>1, <2>2, <2>3
<1>2. PICK c : calls' = Append(calls, c) /\ c.op = op
  BY <1>1
<1>3. /\ Len(calls') = Len(calls) + 1 /\ Len(calls) \in Nat
      /\ \A i \in 1..Len(calls) : calls'[i] = calls[i]
      /\ calls'[Len(calls) + 1] = c
  BY <1>1, <1>2
<1>4. /\ inbox = <<>> /\ \A u \in Thread : ~Busy(u)
      /\ \A i \in 1..Len(calls) : ~Asked(i)
  BY DEF Errand
<1>5. \A i \in 1..Len(calls') : i \in 1..Len(calls) \/ i = Len(calls) + 1
  BY <1>3
<1>6. \A i \in 1..Len(calls') : Asked(i)' => i = Len(calls) + 1
  BY <1>3, <1>4, <1>5 DEF Asked
<1>7. \A u \in Thread : ~Busy(u)'
  BY <1>1, <1>4 DEF Busy
<1>8. OnlyOne'
  BY <1>1, <1>4, <1>6, <1>7 DEF OnlyOne
<1>9. \A i \in 1..Len(calls') : calls'[i].op = "start" => ~connected'
  <2>1. \A i \in 1..Len(calls') : calls'[i].op = "start" => Asked(i)'
    BY DEF Asked
  <2>2. QED
    BY <1>1, <1>2, <1>3, <1>6, <2>1
<1>10. QED
  BY <1>1, <1>4, <1>8, <1>9 DEF Errands, ServiceUp

(* A call that is none.                                                    *)
LEMMA RegistrationAsked ==
    ASSUME IInv, Errands, ServiceUp, NEW op \in {"register", "unregister"}, NEW a \in Client,
           Ask(op, a)
    PROVE  Errands' /\ (Errand' => Errand) /\ ServiceUp' /\ UNCHANGED connected
<1> DEFINE c == [op |-> op, by |-> a, id |-> 0]
<1>1. /\ calls \in Seq(Calls) /\ UNCHANGED <<connected, inbox, thread, crashed>>
      /\ calls' = Append(calls, c)
  <2>1. calls \in Seq(Calls) /\ op # "start"
    BY WhatHolds DEF Control, TypeOK, Calls
  <2>2. QED
    BY <2>1 DEF Ask, Post, data
<1>2. c \in Calls /\ c.op \in {"register", "unregister"}
  BY DEF Calls, Op
<1>3. QED
  BY <1>1, <1>2, ErrandAside DEF ServiceUp

(* Nothing of the service changes.                                         *)
LEMMA ErrandsStutter ==
    ASSUME Errands, UNCHANGED vars
    PROVE  Errands' /\ (Errand' <=> Errand) /\ (ServiceUp' <=> ServiceUp) /\ UNCHANGED connected
<1>1. UNCHANGED <<calls, inbox, thread, connected, crashed>>
  BY DEF vars, io, data
<1>2. QED
  BY <1>1 DEF Errands, OnlyOne, InStep, Errand, Busy, Asked, ServiceUp

(* The steps of an instance that ask nothing of the service.               *)
LEMMA ScreenAlone ==
    ASSUME UiTyped, Serial, Errands, Screen, NEW a \in Client, OnCreate(a) \/ Finish(a)
    PROVE  Errands' /\ Screen'
<1>1. act \in [Client -> Activity] /\ "recreate" \notin world.may /\ "lateDestroy" \notin world.may
  BY DEF UiTyped, Serial
<1>2. Errands' /\ (Errand' <=> Errand) /\ (ServiceUp' <=> ServiceUp) /\ UNCHANGED <<connected, pd>>
  BY ErrandsStutter DEF OnCreate, Finish
<1>3. /\ \A b \in Client \ {a} : act'[b] = act[b]
      /\ act'[a].life \in {"created", "finishing"}
      /\ act'[a].bound = act[a].bound /\ act'[a].fab = act[a].fab
      /\ act'[a].icon = act[a].icon /\ act'[a].consent = act[a].consent
      /\ act[a].life = "created" => act'[a].life = "finishing" /\ ~act[a].consent /\ pd # a
      /\ act[a].life # "created" =>
            /\ act[a].life = "none" /\ act'[a].life = "created"
            /\ \A b \in Client \ {a} : act[b].life \in {"none", "destroyed", "gone"}
  BY <1>1 DEF OnCreate, Finish, Activity
<1>4. /\ OneAlive /\ Consents /\ BoundAlive /\ Dialog /\ Waits /\ Truthful
      /\ pd \in Client \cup {NoClient}
  BY DEF Screen, UiTyped
<1>5. OneAlive'
  BY <1>3, <1>4 DEF OneAlive, Alive
<1>6. Consents' /\ BoundAlive'
  BY <1>2, <1>3, <1>4 DEF OneAlive, Consents, BoundAlive, Alive
<1>7. pd = NoClient
  BY <1>3, <1>4 DEF OneAlive, Dialog, Alive
<1>8. Dialog' /\ Waits'
  BY <1>2, <1>4, <1>7 DEF Dialog, Waits
<1>9. Truthful'
  BY <1>2, <1>3, <1>4 DEF Truthful
<1>10. QED
  BY <1>2, <1>5, <1>6, <1>8, <1>9 DEF Screen

(* A bound instance leaves, or a new one binds: there is no errand then.   *)
LEMMA ScreenBinds ==
    ASSUME IInv, UiTyped, Serial, Errands, Screen, NEW a \in Client,
           OnDestroy(a) \/ OnServiceConnected(a)
    PROVE  Errands' /\ Screen'
<1>1. /\ act \in [Client -> Activity] /\ Alive(a) /\ connected \in BOOLEAN
      /\ pd \in Client \cup {NoClient}
      /\ OneAlive /\ Consents /\ BoundAlive /\ Dialog /\ Waits /\ Truthful
  BY WhatHolds DEF UiTyped, OnDestroy, OnServiceConnected, Alive, Screen, Aside
<1>2. /\ Errands' /\ (Errand' => Errand) /\ (ServiceUp' <=> ServiceUp) /\ UNCHANGED connected
  <2>1. \/ UNCHANGED vars
        \/ ServiceUp /\ \E op \in {"register", "unregister"} : Ask(op, a)
    BY DEF OnDestroy, OnServiceConnected
  <2>2. QED
    BY <2>1, ErrandsStutter, RegistrationAsked
<1>3. CASE OnDestroy(a)
  <2>1. /\ \A b \in Client \ {a} : act'[b] = act[b]
        /\ act[a].life = "finishing" /\ act'[a].life = "destroyed" /\ ~act'[a].bound
        /\ act'[a].consent = act[a].consent
        /\ UNCHANGED pd
    BY <1>1, <1>3 DEF OnDestroy, Activity
  <2>2. \A b \in Client : Alive(b)' => FALSE
    BY <1>1, <2>1 DEF OneAlive, Alive
  <2>3. pd = NoClient /\ pd' = NoClient
    BY <1>1, <2>1 DEF Dialog, OneAlive, Alive
  <2>4. OneAlive' /\ BoundAlive' /\ Dialog'
    <3>1. \A b \in Client : act'[b].bound => act[b].bound /\ b # a
      BY <2>1
    <3>2. \A b \in Client : ~act'[b].bound
      BY <1>1, <2>1, <3>1 DEF BoundAlive, OneAlive
    <3>3. QED
      BY <2>2, <2>3, <3>2 DEF OneAlive, BoundAlive, Dialog
  <2>5. Consents' /\ Truthful'
    <3>1. \A b \in Client : act[b].consent => b # a /\ Alive(b)
      BY <1>1, <2>1 DEF Consents, Alive
    <3>2. \A b \in Client : ~act'[b].consent
      BY <1>1, <2>1, <3>1 DEF OneAlive
    <3>3. \A b \in Client : ~act'[b].bound
      BY <2>2, <2>4 DEF BoundAlive
    <3>4. QED
      BY <3>2, <3>3 DEF Consents, Truthful
  <2>6. Waits'
    BY <1>1, <1>2, <2>3 DEF Waits
  <2>7. QED
    BY <1>2, <2>4, <2>5, <2>6 DEF Screen
<1>4. CASE OnServiceConnected(a)
  <2>1. /\ \A b \in Client \ {a} : act'[b] = act[b]
        /\ ServiceUp /\ ~act[a].bound
        /\ act'[a].bound /\ act'[a].life = act[a].life /\ act'[a].consent = act[a].consent
        /\ act'[a].icon = IF ~connected THEN "play" ELSE "pause"
        /\ UNCHANGED pd
    BY <1>1, <1>4 DEF OnServiceConnected, SwitchUI, Activity
  <2>2. \A b \in Client : Alive(b)' <=> Alive(b)
    BY <2>1 DEF Alive
  <2>3. OneAlive' /\ Consents' /\ Dialog'
    <3>1. OneAlive'
      BY <1>1, <2>2 DEF OneAlive
    <3>2. Consents'
      BY <1>1, <1>2, <2>1 DEF Consents
    <3>3. Dialog'
      BY <1>1, <2>1 DEF Dialog
    <3>4. QED
      BY <3>1, <3>2, <3>3
  <2>4. BoundAlive'
    BY <1>1, <2>1, <2>2 DEF BoundAlive
  <2>5. ~Errand
    <3>1. pd = NoClient \/ pd = a
      BY <1>1 DEF OneAlive, Dialog, Alive
    <3>2. QED
      BY <1>1, <2>1, <3>1 DEF Waits
  <2>6. Waits'
    BY <1>2, <2>5 DEF Waits
  <2>7. Truthful'
    BY <1>1, <1>2, <2>1 DEF Truthful
  <2>8. QED
    BY <1>2, <2>3, <2>4, <2>6, <2>7 DEF Screen
<1>5. QED
  BY <1>3, <1>4

(* The user, about to ask: no dialog, no errand.                           *)
LEMMA UserFree ==
    ASSUME UiTyped, Screen, NEW a \in Client, Clickable(a) \/ act[a].consent
    PROVE  /\ act[a].life = "created" /\ pd = NoClient /\ (ServiceUp => ~Errand)
           /\ \A b \in Client \ {a} : ~Alive(b) /\ ~act[b].bound /\ ~act[b].consent
<1>1. /\ OneAlive /\ Consents /\ BoundAlive /\ Dialog /\ Waits
      /\ pd \in Client \cup {NoClient}
  BY DEF Screen, UiTyped
<1>2. act[a].life = "created" /\ pd # a
  BY <1>1 DEF Clickable, Consents
<1>3. pd = NoClient
  BY <1>1, <1>2 DEF OneAlive, Dialog, Alive
<1>4. \A b \in Client \ {a} : ~Alive(b)
  BY <1>1, <1>2 DEF OneAlive, Alive
<1>5. \A b \in Client \ {a} : ~act[b].bound /\ ~act[b].consent
  BY <1>1, <1>4 DEF BoundAlive, Consents, Alive
<1>6. QED
  BY <1>1, <1>2, <1>3, <1>4, <1>5 DEF Waits

(* The instance that is on the screen, changed; the others stay as they    *)
(* were.                                                                   *)
LEMMA ScreenOf ==
    ASSUME NEW a \in Client,
           \A b \in Client \ {a} : ~Alive(b) /\ ~act[b].bound /\ ~act[b].consent,
           \A b \in Client \ {a} : act'[b] = act[b],
           act'[a].life = "created",
           pd' = a \/ pd' = NoClient,
           act'[a].consent => pd' = NoClient /\ (ServiceUp' => ~connected'),
           ServiceUp' /\ Errand' => pd' = a /\ pd' # NoClient /\ act'[a].bound /\ ~act'[a].fab,
           ServiceUp' /\ act'[a].bound /\ act'[a].fab => (act'[a].icon = "pause" <=> connected')
    PROVE  Screen'
<1>1. \A b \in Client \ {a} : ~Alive(b)' /\ ~act'[b].bound /\ ~act'[b].consent
  BY DEF Alive
<1>2. Alive(a)'
  BY DEF Alive
<1>3. OneAlive' /\ BoundAlive' /\ Dialog'
  BY <1>1, <1>2 DEF OneAlive, BoundAlive, Dialog
<1>4. Consents' /\ Waits' /\ Truthful'
  BY <1>1 DEF Consents, Waits, Truthful
<1>5. QED
  BY <1>3, <1>4 DEF Screen

(* start, asked by the instance on the screen.                             *)
LEMMA ScreenAsks ==
    ASSUME IInv, UiTyped, Errands, Screen, NEW a \in Client, Clickable(a) \/ act[a].consent,
           act[a].bound, ServiceUp => ~connected, AskStart(a)
    PROVE  Errands' /\ Screen'
<1>1. /\ act[a].life = "created" /\ pd = NoClient /\ (ServiceUp => ~Errand)
      /\ \A b \in Client \ {a} : ~Alive(b) /\ ~act[b].bound /\ ~act[b].consent
  BY UserFree
<1>2. act \in [Client -> Activity]
  BY DEF UiTyped
<1>3. CASE ServiceUp
  <2>1. /\ pd' = a /\ Ask("start", a) /\ act' = [act EXCEPT ![a].fab = FALSE, ![a].consent = FALSE]
    BY <1>3 DEF AskStart
  <2>2. Errands' /\ ServiceUp' /\ UNCHANGED connected
    BY <1>1, <1>3, <2>1, ErrandAsked
  <2>3. /\ \A b \in Client \ {a} : act'[b] = act[b]
        /\ act'[a].life = "created" /\ act'[a].bound /\ ~act'[a].fab /\ ~act'[a].consent
    BY <1>1, <1>2, <2>1 DEF Activity
  <2>4. pd' # NoClient
    BY <2>1
  <2>5. Screen'
    BY <1>1, <2>1, <2>3, <2>4, ScreenOf
  <2>6. QED
    BY <2>2, <2>5
<1>4. CASE ~ServiceUp
  <2>1. /\ pd' = NoClient /\ UNCHANGED vars
        /\ act' = [act EXCEPT ![a] = [SwitchUI(@, TRUE) EXCEPT !.consent = FALSE]]
    BY <1>4 DEF AskStart
  <2>2. Errands' /\ ~ServiceUp'
    BY <1>4, <2>1, ErrandsStutter
  <2>3. /\ \A b \in Client \ {a} : act'[b] = act[b]
        /\ act'[a].life = "created" /\ ~act'[a].consent
    BY <1>1, <1>2, <2>1 DEF Activity, SwitchUI
  <2>4. Screen'
    BY <1>1, <2>1, <2>2, <2>3, ScreenOf
  <2>5. QED
    BY <2>2, <2>4
<1>5. QED
  BY <1>3, <1>4

(* What the user does to the instance on the screen.                       *)
LEMMA ScreenUsed ==
    ASSUME IInv, UiTyped, Errands, Screen, NEW a \in Client,
           OnClickStop(a) \/ OnClickFails(a) \/ OnClickStart(a) \/ OnActivityResult(a)
    PROVE  Errands' /\ Screen'
<1>1. /\ act[a].life = "created" /\ pd = NoClient /\ (ServiceUp => ~Errand)
      /\ \A b \in Client \ {a} : ~Alive(b) /\ ~act[b].bound /\ ~act[b].consent
      /\ Clickable(a) \/ act[a].consent
  BY UserFree DEF OnClickStop, OnClickFails, OnClickStart, OnActivityResult
<1>2. act \in [Client -> Activity] /\ (act[a].consent => (ServiceUp => ~connected))
  BY DEF UiTyped, Screen, Consents
<1>3. CASE OnClickStop(a)
  <2>1. /\ act[a].bound /\ ServiceUp /\ pd' = a /\ Ask("stop", a)
        /\ act' = [act EXCEPT ![a].fab = FALSE] /\ ~act[a].consent
    BY <1>3 DEF OnClickStop, Clickable
  <2>2. Errands' /\ ServiceUp' /\ UNCHANGED connected
    BY <1>1, <2>1, ErrandAsked
  <2>3. /\ \A b \in Client \ {a} : act'[b] = act[b]
        /\ act'[a].life = "created" /\ act'[a].bound /\ ~act'[a].fab /\ ~act'[a].consent
    BY <1>1, <1>2, <2>1 DEF Activity
  <2>4. pd' # NoClient
    BY <2>1
  <2>5. Screen'
    BY <1>1, <2>1, <2>3, <2>4, ScreenOf
  <2>6. QED
    BY <2>2, <2>5
<1>4. CASE AskStart(a) /\ act[a].bound /\ (ServiceUp => ~connected)
  BY <1>1, <1>4, ScreenAsks
<1>5. CASE /\ UNCHANGED <<vars, pd>> /\ ServiceUp /\ ~connected
           /\ act' = [act EXCEPT ![a].fab = FALSE, ![a].consent = TRUE]
  <2>1. Errands' /\ ~Errand' /\ ~connected' /\ pd' = NoClient
    BY <1>1, <1>5, ErrandsStutter
  <2>2. /\ \A b \in Client \ {a} : act'[b] = act[b]
        /\ act'[a].life = "created" /\ ~act'[a].fab
    BY <1>1, <1>2, <1>5 DEF Activity
  <2>3. QED
    BY <1>1, <2>1, <2>2, ScreenOf
<1>6. CASE /\ UNCHANGED <<vars, pd>> /\ act[a].consent
           /\ act' = [act EXCEPT ![a] = [SwitchUI(@, TRUE) EXCEPT !.consent = FALSE]]
  <2>1. /\ Errands' /\ (ServiceUp' => ~Errand' /\ ~connected') /\ pd' = NoClient
    BY <1>1, <1>2, <1>6, ErrandsStutter
  <2>2. /\ \A b \in Client \ {a} : act'[b] = act[b]
        /\ act'[a].life = "created" /\ ~act'[a].consent /\ act'[a].icon = "play"
    BY <1>1, <1>2, <1>6 DEF Activity, SwitchUI
  <2>3. QED
    BY <1>1, <2>1, <2>2, ScreenOf
<1>7. CASE OnClickStart(a)
  <2>1. /\ act[a].bound /\ ServiceUp /\ ~connected
        /\ \/ AskStart(a)
           \/ /\ UNCHANGED <<vars, pd>>
              /\ act' = [act EXCEPT ![a].fab = FALSE, ![a].consent = TRUE]
    BY <1>7 DEF OnClickStart, Clickable
  <2>2. QED
    BY <1>4, <1>5, <2>1
<1>8. CASE OnActivityResult(a)
  <2>1. /\ act[a].consent
        /\ \/ AskStart(a) /\ act[a].bound
           \/ /\ UNCHANGED <<vars, pd>>
              /\ act' = [act EXCEPT ![a] = [SwitchUI(@, TRUE) EXCEPT !.consent = FALSE]]
    BY <1>8 DEF OnActivityResult
  <2>2. QED
    BY <1>2, <1>4, <1>6, <2>1
<1>9. CASE OnClickFails(a)
  <2>1. /\ UNCHANGED vars /\ ~ServiceUp /\ ~act[a].consent /\ pd' \in {NoClient, a}
        /\ act' = [act EXCEPT ![a] = SwitchUI(@, TRUE)]
    BY <1>1, <1>9 DEF OnClickFails, Clickable, SetUI
  <2>2. Errands' /\ ~ServiceUp'
    BY <2>1, ErrandsStutter
  <2>3. /\ \A b \in Client \ {a} : act'[b] = act[b]
        /\ act'[a].life = "created" /\ ~act'[a].consent
    BY <1>1, <1>2, <2>1 DEF Activity, SwitchUI
  <2>4. QED
    BY <1>1, <2>1, <2>2, <2>3, ScreenOf
<1>10. QED
  BY <1>3, <1>7, <1>8, <1>9

(* The UI process ends: nothing is left of it on the screen.               *)
LEMMA ScreenDies ==
    ASSUME IInv, UiTyped, Errands, Screen, NEW a \in Client, UiDies(a)
    PROVE  Errands' /\ Screen'
<1>1. /\ act \in [Client -> Activity] /\ act[a].consent
      /\ BoundAlive /\ Consents /\ UNCHANGED <<calls, connected, thread, crashed>>
      /\ inbox' = <<>> /\ pd' = NoClient
  BY DEF UiTyped, Screen, UiDies, UiEnds, data
<1>2. ServiceUp => ~Errand
  BY <1>1, UserFree
<1>3. Errands' /\ (ServiceUp' => ~Errand')
  <2>1. CASE ServiceUp
    <3>1. UNCHANGED inbox
      BY <1>1, <1>2, <2>1 DEF Errand
    <3>2. QED
      BY <1>1, <1>2, <3>1 DEF Errands, OnlyOne, InStep, Errand, Busy, Asked, ServiceUp
  <2>2. CASE ~ServiceUp
    <3>1. Len(inbox') = 0 /\ ~ServiceUp'
      BY <1>1, <2>2 DEF ServiceUp
    <3>2. QED
      BY <1>1, <3>1 DEF Errands
  <2>3. QED
    BY <2>1, <2>2
<1>4. \A b \in Client : ~Alive(b)' /\ ~act'[b].bound /\ ~act'[b].consent
  <2> SUFFICES ASSUME NEW b \in Client
               PROVE  ~Alive(b)' /\ ~act'[b].bound /\ ~act'[b].consent
    OBVIOUS
  <2>1. act'[b] = IF act[b].life = "none" /\ b # a THEN act[b]
                  ELSE [act[b] EXCEPT !.life = "gone", !.bound = FALSE, !.consent = FALSE]
    BY DEF UiDies, UiEnds
  <2>2. CASE act[b].life = "none" /\ b # a
    <3>1. act'[b] = act[b] /\ ~act[b].bound /\ ~act[b].consent
      BY <1>1, <2>1, <2>2 DEF BoundAlive, Consents, Alive
    <3>2. QED
      BY <2>2, <3>1 DEF Alive
  <2>3. CASE ~(act[b].life = "none" /\ b # a)
    <3>1. act'[b].life = "gone" /\ ~act'[b].bound /\ ~act'[b].consent
      BY <1>1, <2>1, <2>3 DEF Activity
    <3>2. QED
      BY <3>1 DEF Alive
  <2>4. QED
    BY <2>2, <2>3
<1>5. Screen'
  BY <1>1, <1>3, <1>4 DEF Screen, OneAlive, Consents, BoundAlive, Dialog, Waits, Truthful
<1>6. QED
  BY <1>3, <1>5

(* The answer arrives: the errand is over.                                 *)
LEMMA ScreenTold ==
    ASSUME IInv, UiTyped, Errands, Screen, OnStatusChanged
    PROVE  Errands' /\ Screen'
<1> DEFINE m == Head(inbox)
<1>1. /\ act \in [Client -> Activity] /\ inbox \in Seq(Statuses) /\ inbox # <<>>
      /\ OneAlive /\ Consents /\ BoundAlive /\ Dialog /\ Waits /\ Truthful
      /\ pd \in Client \cup {NoClient}
  BY WhatHolds DEF UiTyped, Screen, OnStatusChanged, Aside, Statuses
<1>2. /\ m.to \in Client
      /\ act' = [act EXCEPT ![m.to] = SwitchUI(@, m.status # "CONNECTED")]
      /\ inbox' = Tail(inbox) /\ pd' = NoClient
      /\ UNCHANGED <<calls, connected, thread, crashed>>
  <2>1. m \in Statuses
    BY <1>1
  <2>2. m.to \in Client
    BY <2>1 DEF Statuses
  <2>3. QED
    BY <2>2 DEF OnStatusChanged, SetUI, data
<1>3. ServiceUp /\ ((m.status = "CONNECTED") <=> connected) /\ Errand
  BY <1>1 DEF Errands, Errand
<1> HIDE DEF m
<1>4. inbox' = <<>> /\ (\A u \in Thread : ~Busy(u)) /\ (\A i \in 1..Len(calls) : ~Asked(i))
  BY <1>1, <1>2, <1>3 DEF Errands, OnlyOne
<1>5. Errands' /\ ~Errand' /\ ServiceUp'
  <2>1. Len(inbox') = 0
    BY <1>4
  <2>2. QED
    BY <1>2, <1>3, <1>4, <2>1 DEF Errands, OnlyOne, InStep, Errand, Busy, Asked, ServiceUp
<1>6. /\ pd \in Client /\ act[pd].life = "created" /\ act[pd].bound /\ ~act[pd].fab
      /\ \A b \in Client \ {pd} : ~act[b].bound
      /\ \A b \in Client : ~act[b].consent
  <2>1. pd \in Client /\ act[pd].life = "created" /\ act[pd].bound /\ ~act[pd].fab
    BY <1>1, <1>3 DEF Waits, Dialog
  <2>2. QED
    BY <1>1, <2>1 DEF OneAlive, BoundAlive, Consents, Alive
<1>7. /\ \A b \in Client \ {m.to} : act'[b] = act[b]
      /\ act'[m.to].life = act[m.to].life /\ act'[m.to].bound = act[m.to].bound
      /\ act'[m.to].consent = act[m.to].consent
      /\ act'[m.to].icon = IF m.status # "CONNECTED" THEN "play" ELSE "pause"
  BY <1>1, <1>2 DEF SwitchUI, Activity
<1>8. \A b \in Client : /\ Alive(b)' <=> Alive(b)
                       /\ act'[b].bound = act[b].bound
                       /\ ~act'[b].consent
  BY <1>6, <1>7 DEF Alive
<1>9. OneAlive' /\ Consents' /\ BoundAlive' /\ Dialog' /\ Waits'
  <2>1. OneAlive' /\ BoundAlive'
    BY <1>1, <1>8 DEF OneAlive, BoundAlive
  <2>2. Consents' /\ Dialog' /\ Waits'
    BY <1>2, <1>5, <1>8 DEF Consents, Dialog, Waits
  <2>3. QED
    BY <2>1, <2>2
<1>10. Truthful'
  <2> SUFFICES ASSUME NEW b \in Client, act'[b].bound, act'[b].fab
               PROVE  act'[b].icon = "pause" <=> connected'
    BY DEF Truthful
  <2>1. b = pd
    BY <1>6, <1>8
  <2>2. b = m.to
    BY <1>6, <1>7, <2>1
  <2>3. QED
    BY <1>2, <1>3, <1>7, <2>2
<1>11. QED
  BY <1>5, <1>9, <1>10 DEF Screen

(* The answer is for an instance that is gone: the errand is over as well, *)
(* and the dialog and the button stay as they are.                         *)
LEMMA ScreenUntold ==
    ASSUME IInv, UiTyped, Errands, Screen, StatusIsLost
    PROVE  Errands' /\ Screen'
<1>1. /\ inbox \in Seq(Statuses) /\ inbox # <<>> /\ inbox' = Tail(inbox)
      /\ OneAlive /\ Consents /\ BoundAlive /\ Dialog /\ Waits /\ Truthful
      /\ UNCHANGED <<calls, connected, thread, crashed, act, pd>>
  BY WhatHolds DEF Screen, StatusIsLost, Aside, Statuses, data, uiVars
<1>2. ServiceUp /\ Errand
  BY <1>1 DEF Errands, Errand
<1>3. inbox' = <<>> /\ (\A u \in Thread : ~Busy(u)) /\ (\A i \in 1..Len(calls) : ~Asked(i))
  BY <1>1, <1>2 DEF Errands, OnlyOne
<1>4. Errands' /\ ~Errand' /\ ServiceUp'
  <2>1. Len(inbox') = 0
    BY <1>3
  <2>2. QED
    BY <1>1, <1>2, <1>3, <2>1 DEF Errands, OnlyOne, InStep, Errand, Busy, Asked, ServiceUp
<1>5. OneAlive' /\ Consents' /\ BoundAlive' /\ Dialog' /\ Truthful'
  BY <1>1, <1>2, <1>4 DEF OneAlive, Consents, BoundAlive, Dialog, Truthful, Alive
<1>6. QED
  BY <1>4, <1>5 DEF Screen, Waits

(* The end of the service's process, seen on the screen.                   *)
LEMMA ScreenUnbound ==
    ASSUME IInv, UiTyped, Errands, Screen, OnServiceDisconnected
    PROVE  Errands' /\ Screen'
<1>1. /\ act \in [Client -> Activity]
      /\ OneAlive /\ Consents /\ Dialog /\ UNCHANGED <<pd, inbox>>
      /\ inbox \in Seq(Statuses) /\ connected' = FALSE
      /\ calls' = <<>> /\ thread' = [t \in Thread |-> Idle]
  BY WhatHolds DEF UiTyped, Screen, OnServiceDisconnected, Aside, Statuses
<1>2. inbox = <<>>
  BY DEF OnServiceDisconnected, Errands
<1>3. /\ \A u \in Thread : thread'[u] = Idle
      /\ Len(calls') = 0 /\ Len(inbox') = 0 /\ inbox' = <<>>
  BY <1>1, <1>2
<1>4. Errands' /\ ~Errand'
  <2>1. \A u \in Thread : thread'[u].answer # "CONNECTED" /\ thread'[u].pc = "idle"
    BY <1>3 DEF Idle
  <2>2. \A u \in Thread : ~Busy(u)' /\ InStep(thread'[u], connected')
    BY <2>1 DEF Busy, InStep
  <2>3. \A i \in 1..Len(calls') : FALSE
    BY <1>3
  <2>4. OnlyOne' /\ ~Errand'
    BY <1>3, <2>2, <2>3 DEF OnlyOne, Errand
  <2>5. QED
    BY <1>3, <2>1, <2>2, <2>3, <2>4 DEF Errands
<1>5. \A b \in Client : /\ act'[b].life = act[b].life /\ act'[b].consent = act[b].consent
                       /\ ~act'[b].bound
  <2> SUFFICES ASSUME NEW b \in Client
               PROVE  /\ act'[b].life = act[b].life /\ act'[b].consent = act[b].consent
                      /\ ~act'[b].bound
    OBVIOUS
  <2>1. act'[b] = IF act[b].bound THEN [SwitchUI(act[b], TRUE) EXCEPT !.bound = FALSE] ELSE act[b]
    BY DEF OnServiceDisconnected
  <2>2. act[b] \in Activity
    BY <1>1
  <2>3. QED
    BY <2>1, <2>2 DEF SwitchUI, Activity
<1>6. OneAlive' /\ Consents' /\ BoundAlive' /\ Dialog'
  <2>1. \A b \in Client : Alive(b)' <=> Alive(b)
    BY <1>5 DEF Alive
  <2>2. OneAlive' /\ BoundAlive' /\ Consents'
    BY <1>1, <1>5, <2>1 DEF OneAlive, BoundAlive, Consents
  <2>3. pd \in Client \cup {NoClient}
    BY DEF UiTyped
  <2>4. Dialog'
    BY <1>1, <1>5, <2>3 DEF Dialog
  <2>5. QED
    BY <2>2, <2>4
<1>7. Waits' /\ Truthful'
  BY <1>4, <1>5 DEF Waits, Truthful
<1>8. QED
  BY <1>4, <1>6, <1>7 DEF Screen

(* The service, behind the screen.                                         *)
LEMMA ScreenServes ==
    ASSUME IInv, UiTyped, Errands, Screen, ServiceNext, UNCHANGED uiVars
    PROVE  Errands' /\ Screen'
<1>1. /\ UNCHANGED <<act, pd>> /\ pd \in Client \cup {NoClient}
      /\ OneAlive /\ Consents /\ BoundAlive /\ Dialog /\ Waits /\ Truthful
  BY DEF uiVars, UiTyped, Screen
<1>2. Errands' /\ ServiceUp /\ (Errand \/ (UNCHANGED connected /\ ~Errand'))
  BY ErrandsService
<1>3. OneAlive' /\ BoundAlive' /\ Dialog'
  BY <1>1 DEF OneAlive, BoundAlive, Dialog, Alive
<1>4. CASE Errand
  <2>1. pd # NoClient /\ act[pd].bound /\ ~act[pd].fab
    BY <1>1, <1>2, <1>4 DEF Waits
  <2>2. \A b \in Client : act[b].bound => b = pd
    BY <1>1, <2>1 DEF OneAlive, BoundAlive
  <2>3. Consents' /\ Waits' /\ Truthful'
    BY <1>1, <2>1, <2>2 DEF Consents, Waits, Truthful
  <2>4. QED
    BY <1>2, <1>3, <2>3 DEF Screen
<1>5. CASE UNCHANGED connected /\ ~Errand'
  <2>1. Consents' /\ Waits' /\ Truthful'
    BY <1>1, <1>2, <1>5 DEF Consents, Waits, Truthful
  <2>2. QED
    BY <1>2, <1>3, <2>1 DEF Screen
<1>6. QED
  BY <1>2, <1>4, <1>5

(* Errands and screen together are kept by every step of a serial world.   *)
LEMMA SerialStep ==
    ASSUME IInv, UiTyped, Serial, Errands, Screen, [UiNext]_allVars
    PROVE  Errands' /\ Screen'
<1>1. CASE UNCHANGED allVars
  <2>1. UNCHANGED vars /\ UNCHANGED <<act, pd>>
    BY <1>1 DEF allVars, uiVars
  <2>2. QED
    BY <2>1, ErrandsStutter DEF Screen, OneAlive, Consents, BoundAlive, Dialog, Waits, Truthful, Alive
<1>2. ASSUME NEW a \in Client, ActivityNext(a)
      PROVE  Errands' /\ Screen'
  <2>1. ~OnCreateSaved(a)
    BY DEF Serial, OnCreateSaved
  <2>2. QED
    BY <1>2, <2>1, ScreenAlone, ScreenBinds, ScreenUsed, ScreenDies DEF ActivityNext
<1>3. ~StubStart /\ ~Revoke /\ ~OnStatusThrows
  BY DEF Serial, StubStart, Revoke, OnStatusThrows, Screen, Dialog
<1>4. QED
  BY <1>1, <1>2, <1>3, ScreenTold, ScreenUntold, ScreenUnbound, ScreenServes DEF UiNext

-----------------------------------------------------------------------------
(* A behaviour stays in its world.                                         *)
LEMMA WorldKept ==
    ASSUME [UiNext]_allVars
    PROVE  UNCHANGED world
BY DEF UiNext, allVars, uiVars, ActivityNext, OnCreate, OnCreateSaved, Finish, OnDestroy,
       OnServiceConnected, OnClickStop, OnClickFails, OnClickStart, OnActivityResult, UiDies,
       OnServiceDisconnected, OnStatusChanged, OnStatusThrows, StatusIsLost, StubStart, Revoke

SerialInv == Serial => Errands /\ Screen

LEMMA InitSerialInv == UiInit => SerialInv
<1> SUFFICES ASSUME UiInit PROVE Errands /\ Screen
  BY DEF SerialInv
<1>1. /\ \A t \in Thread : thread[t] = Idle
      /\ inbox = <<>> /\ calls = <<>> /\ connected = FALSE /\ pd = NoClient
      /\ \A a \in Client : act[a] = [life |-> "none", bound |-> FALSE, fab |-> TRUE,
                                     icon |-> "play", consent |-> FALSE]
  BY DEF UiInit, Init
<1>2. \A t \in Thread : /\ ~Busy(t) /\ thread[t].answer # "CONNECTED"
                       /\ InStep(thread[t], connected)
  <2>1. Idle.pc = "idle" /\ Idle.answer # "CONNECTED"
    BY DEF Idle
  <2>2. QED
    BY <1>1, <2>1 DEF Busy, InStep
<1>3. Len(inbox) = 0 /\ \A i \in 1..Len(calls) : FALSE
  BY <1>1
<1>4. Errands
  BY <1>1, <1>2, <1>3 DEF Errands, OnlyOne
<1>5. ~Errand
  BY <1>1, <1>2, <1>3 DEF Errand
<1>6. \A a \in Client : ~Alive(a) /\ ~act[a].bound /\ ~act[a].consent
  BY <1>1 DEF Alive
<1>7. Screen
  BY <1>1, <1>5, <1>6 DEF Screen, OneAlive, Consents, BoundAlive, Dialog, Waits, Truthful
<1>8. QED
  BY <1>4, <1>7

LEMMA SerialInvariance == UiSpec => [](UiInv /\ SerialInv)
<1>1. UiInv /\ SerialInv /\ [UiNext]_allVars => SerialInv'
  <2> SUFFICES ASSUME UiInv, SerialInv, [UiNext]_allVars, Serial'
               PROVE  Errands' /\ Screen'
    BY DEF SerialInv
  <2>1. Serial
    BY WorldKept DEF Serial
  <2>2. QED
    BY <2>1, SerialStep DEF SerialInv, UiInv
<1>2. QED
  BY <1>1, InitSerialInv, UiInvariance, PTL DEF UiSpec

(* Every state of the service and of its clients is well typed, in every   *)
(* world: instances made, bound, recreated and destroyed late, the UI      *)
(* process and the service's process ending at any time.                   *)
THEOREM UiTypeCorrect == UiSpec => []UiTypeOK
<1>1. UiInv => UiTypeOK
  BY WhatHolds DEF UiInv, UiTyped, UiTypeOK, Control
<1>2. QED
  BY <1>1, UiInvariance, PTL

(* With its real clients, and through every end of its process, the        *)
(* service's descriptor stays open and what its fields refer to stays live *)
(* (closing and killing excepted, as ConnIsOpen and ReferredIsLive say).   *)
THEOREM ServiceKeepsItsWord == UiSpec => [](ConnIsOpen /\ ReferredIsLive)
<1>1. UiInv => ConnIsOpen /\ ReferredIsLive
  BY DEF UiInv, IInv
<1>2. QED
  BY <1>1, UiInvariance, PTL

(* The button of a bound instance says what status() would say whenever it *)
(* can be clicked and nothing is under way, however many instances and     *)
(* starts have gone before.                                                *)
THEOREM ButtonTellsTheTruth == UiSpec => []UiTruthful
<1>1. SerialInv => UiTruthful
  <2> SUFFICES ASSUME SerialInv, AtRest, Serial, NEW a \in Client,
                      act[a].life = "created", act[a].bound, act[a].fab
               PROVE  act[a].icon = "pause" <=> connected
    BY DEF UiTruthful
  <2>1. Truthful /\ ServiceUp
    BY DEF SerialInv, Screen, AtRest
  <2>2. QED
    BY <2>1 DEF Truthful
<1>2. QED
  BY <1>1, SerialInvariance, PTL

(* A start is asked for only when no errand is under way.                  *)
LEMMA NoStartElsewhere ==
    ASSUME ServiceNext
    PROVE  UNCHANGED starts
<1>1. ASSUME NEW t \in Thread, KillOrStop(t)
      PROVE  UNCHANGED starts
  BY <1>1 DEF KillOrStop, Reset, KillCheck, KillStop, KillNull, KillDone, StopForeground, CloseCheck,
              CloseFd, CloseNull, Answer
<1>2. ASSUME NEW w \in Attempt, Work(w)
      PROVE  UNCHANGED starts
  <2>1. CASE StartLocal(w) \/ StartUdp(w) \/ StartTunnel(w)
    BY <2>1 DEF StartLocal, StartUdp, StartTunnel, IfTunnel, NewServer, StartServer
  <2>2. CASE StartDnsDaemon(w) \/ StartTun2socks(w)
    BY <2>2 DEF StartDnsDaemon, StartTun2socks, StartProcess
  <2>3. QED
    BY <1>2, <2>1, <2>2 DEF Work, Resolve, StoreAddress, Establish, CheckConn, Sleep, SendFd,
                            SetConnected, TellConnected, StartForeground
<1>3. QED
  BY <1>1, <1>2 DEF ServiceNext, ServeNext, WorkerNext, ServeRegister, ServeStart, ServeStop, ServerBegins

(* The errand that WorkerActive and StartAsked speak of.                   *)
LEMMA StartIsErrand ==
    ASSUME IInv, ~Errand
    PROVE  ~WorkerActive /\ ~StartAsked
<1>1. \A t \in Thread : ~Busy(t)
  BY DEF Errand
<1>2. ~WorkerActive
  BY <1>1 DEF WorkerActive, Busy
<1>3. thread[Binder].answer # "spawn"
  BY <1>1, WhatHolds DEF Control, Spawning, Busy
<1>4. \A i \in 1..Len(calls) : calls[i].op # "start"
  BY DEF Errand, Asked
<1>5. QED
  BY <1>2, <1>3, <1>4 DEF StartAsked

LEMMA StartsAloneStep ==
    ASSUME IInv, UiTyped, SerialInv, [UiNext]_allVars, starts' > starts, Serial
    PROVE  ~Errand
<1>1. starts \in Ref
  BY WhatHolds DEF Control, TypeOK
<1>2. ~(starts' = starts)
  BY <1>1
<1>3. ASSUME NEW op, NEW a, Ask(op, a), op # "start"
      PROVE  FALSE
  BY <1>2, <1>3 DEF Ask, Post
<1>4. ASSUME NEW a \in Client, ActivityNext(a)
      PROVE  ServiceUp /\ (Clickable(a) \/ act[a].consent)
  <2>1. UNCHANGED vars \/ UNCHANGED starts => FALSE
    BY <1>2 DEF vars
  <2>2. ~OnCreate(a) /\ ~OnCreateSaved(a) /\ ~Finish(a) /\ ~UiDies(a) /\ ~OnClickFails(a)
    BY <2>1 DEF OnCreate, OnCreateSaved, Finish, UiDies, OnClickFails, Serial
  <2>3. ~OnDestroy(a) /\ ~OnServiceConnected(a) /\ ~OnClickStop(a)
    BY <1>3, <2>1 DEF OnDestroy, OnServiceConnected, OnClickStop
  <2>4. CASE OnClickStart(a)
    BY <2>4 DEF OnClickStart
  <2>5. CASE OnActivityResult(a)
    <3>1. act[a].consent /\ (AskStart(a) \/ UNCHANGED vars)
      BY <2>5 DEF OnActivityResult
    <3>2. ServiceUp
      BY <2>1, <3>1 DEF AskStart
    <3>3. QED
      BY <3>1, <3>2
  <2>6. QED
    BY <1>4, <2>2, <2>3, <2>4, <2>5 DEF ActivityNext
<1>5. /\ ~StubStart /\ ~Revoke /\ ~OnServiceDisconnected
      /\ ~OnStatusChanged /\ ~OnStatusThrows /\ ~StatusIsLost
  BY <1>2 DEF Serial, StubStart, Revoke, OnServiceDisconnected, OnStatusChanged, OnStatusThrows,
              StatusIsLost
<1>6. ~ServiceNext /\ ~UNCHANGED allVars
  BY <1>2, NoStartElsewhere DEF allVars, vars
<1>7. PICK a \in Client : ActivityNext(a)
  BY <1>5, <1>6 DEF UiNext
<1>8. QED
  BY <1>4, <1>7, UserFree DEF SerialInv

(* The button alone keeps the promise the service relies on: no start is   *)
(* asked for while one is queued, being served or at work.                 *)
THEOREM ButtonSerialises == UiSpec => StartsAlone
<1>1. UiInv /\ SerialInv /\ [UiNext]_allVars
        => [starts' > starts /\ Serial => ~WorkerActive /\ ~StartAsked]_allVars
  BY StartsAloneStep, StartIsErrand DEF UiInv
<1>2. QED
  BY <1>1, SerialInvariance, PTL DEF StartsAlone, UiSpec

(* So the invariant that VpnServiceProofs has for a service whose clients  *)
(* never let two starts overlap is kept with the real clients as well.     *)
LEMMA OneStep ==
    ASSUME IInv, UiTyped, SerialInv, Serial, OneInv, [UiNext]_allVars
    PROVE  OneInv'
<1>1. CASE UNCHANGED vars \/ Takes
  BY <1>1, OneStutter DEF Takes, vars, io, data, plan
<1>2. CASE Posts
  <2>1. PICK op \in Op, c \in Client :
            Post(op, c) /\ UNCHANGED <<callback, data, thread, crashed>>
    BY <1>2 DEF Posts
  <2>2. op = "start" => ~WorkerActive /\ ~StartAsked
    <3>1. starts \in Ref
      BY WhatHolds DEF Control, TypeOK
    <3>2. op = "start" => starts' > starts
      BY <2>1, <3>1 DEF Post
    <3>3. QED
      BY <3>2, StartsAloneStep, StartIsErrand
  <2>3. QED
    BY <2>1, <2>2, OnePost
<1>3. CASE OnServiceDisconnected
  <2>1. NewProcess' => OneInv'
    BY NewProcessOneInv, PTL
  <2>2. QED
    BY <1>3, <2>1, Disconnected
<1>4. CASE ServiceNext
  BY <1>4, OneServiceNext
<1>5. QED
  BY <1>1, <1>2, <1>3, <1>4, StepsOfTheService

LEMMA SerialOneInvariance == UiSpec => [](Serial => OneInv)
<1>1. UiInit => OneInv
  <2>1. <<>> \in Seq([to : Client, status : Status])
    OBVIOUS
  <2>2. UiInit => NewProcess
    BY <2>1 DEF UiInit, Init, NewProcess
  <2>3. QED
    BY <2>2, NewProcessOneInv
<1>2. UiInv /\ SerialInv /\ (Serial => OneInv) /\ [UiNext]_allVars => (Serial => OneInv)'
  <2> SUFFICES ASSUME UiInv, SerialInv, Serial => OneInv, [UiNext]_allVars, Serial'
               PROVE  OneInv'
    OBVIOUS
  <2>1. Serial
    BY WorldKept DEF Serial
  <2>2. QED
    BY <2>1, OneStep DEF UiInv
<1>3. QED
  BY <1>1, <1>2, SerialInvariance, PTL DEF UiSpec

(* What NothingLost and OwnProfile assume OneWorker for holds in a serial  *)
(* world with no such assumption: whatever runs is what its field refers   *)
(* to, and an SSRLocal is built with its own start's profile and address.  *)
THEOREM SerialNothingLost == UiSpec => [](Serial => Kept /\ Own)
<1>1. OneInv => Kept /\ Own
  BY DEF OneInv, Components
<1>2. QED
  BY <1>1, SerialOneInvariance, PTL

-----------------------------------------------------------------------------
(* What there is of the VPN at each statement of the one errand.  A worker *)
(* w at l has made the components of its profile it has passed, and no     *)
(* others: each is new, or started and sooner or later running, and all    *)
(* are when it first tries to send the descriptor.                         *)
Starting(f, l) == <<f, l>> \in {<<"local", "startLocal">>, <<"udprs", "startUdp">>, <<"tunnel", "startTunnel">>}
Made(w, f, l) ==
    /\ field[f] = w
    /\ \/ obj[f][w] = "running"
       \/ obj[f][w] = "started" /\ f \in Server /\ l \notin {"sendFd", "connected", "tellConnected"}
       \/ obj[f][w] = "new" /\ Starting(f, l)
Making(w, l) ==
    \A f \in Field : IF f \in PartsOf(w) /\ ~Ahead(f, l) THEN Made(w, f, l) ELSE field[f] = 0
Route(w, l) ==
    /\ l \in {"newUdp", "startUdp"} => w \in DnsForward
    /\ l \in {"newTunnel", "startTunnel", "startPdnsd"} => w \notin DnsForward
OwnTun == tun = IF conn = 0 THEN {} ELSE {conn}
Opening(w, l) ==
    /\ OwnTun
    /\ conn = w \/ (conn = 0 /\ Ahead("tun2socks", l) /\ l # "tun2socks")
    /\ conn = 0 \/ ~Ahead("tun2socks", l) \/ l \in {"checkConn", "tun2socks"}
Building(w, l) == Making(w, l) /\ Route(w, l) /\ Opening(w, l)

Nulls == \A f \in Field : field[f] = 0
Down == Nulls /\ conn = 0 /\ tun = {}

(* killProcesses has passed nulls and stands on what it stops.  On the     *)
(* binder thread it only ever meets what is running, so that no shutdown() *)
(* throws half-way; and before a worker is made it meets nothing.          *)
Tearing(t, r) ==
    r.pc \in {"reset", "kill", "killStop", "killNull"} =>
        /\ OwnTun
        /\ r.pc # "reset" => \A i \in 1..5 : i < r.k => field[KillOrder[i]] = 0
        /\ r.pc \in {"killStop", "killNull"} => field[KillOrder[r.k]] # 0
        /\ t = Binder => \A f \in Field :
              \/ field[f] = 0 \/ obj[f][field[f]] = "running"
              \/ r.pc = "killNull" /\ f = KillOrder[r.k]
        /\ r.answer = "spawn" => Down
Closing(r) ==
    r.pc \in {"unforeground", "close", "closeFd", "closeNull", "answer"} =>
        /\ Nulls
        /\ r.pc = "answer" => conn = 0
        /\ r.pc = "closeFd" => conn # 0
        /\ IF r.pc = "closeNull" THEN tun = {} ELSE OwnTun
Working == {"resolve", "store", "newLocal", "startLocal", "newUdp", "startUdp", "ifTunnel",
            "newTunnel", "startTunnel", "startPdnsd", "establish", "checkConn", "tun2socks",
            "sleep", "sendFd", "connected", "tellConnected"}
Stage(t, r) ==
    /\ r.pc \in Working => t \in Attempt /\ Building(t, r.pc)
    /\ Tearing(t, r)
    /\ Closing(r)

(* With no errand under way the VPN is up as its worker left it, or down.  *)
Settled == IF connected THEN conn # 0 /\ Building(conn, "tellConnected") ELSE Down
Whole ==
    ServiceUp =>
        /\ \A t \in Thread : Busy(t) => Stage(t, thread[t])
        /\ (\A t \in Thread : ~Busy(t)) => Settled

(* The one thread at work moves on.                                        *)
LEMMA WholeMoves ==
    ASSUME IInv, Errands, ServiceUp, NEW t \in Thread, Busy(t), NEW r,
           thread' = [thread EXCEPT ![t] = r],
           ServiceUp' /\ r.pc \notin {"idle", "foreground"} => Stage(t, r)',
           ServiceUp' /\ r.pc \in {"idle", "foreground"} => Settled'
    PROVE  Whole'
<1>1. /\ thread \in [Thread -> ThreadState] /\ OnlyOne
      /\ thread'[t] = r /\ \A u \in Thread \ {t} : thread'[u] = thread[u] /\ ~Busy(u)
  BY WhatHolds DEF Errands, OnlyOne
<1>2. \A u \in Thread \ {t} : ~Busy(u)'
  BY <1>1 DEF Busy
<1>3. Busy(t)' <=> r.pc \notin {"idle", "foreground"}
  BY <1>1 DEF Busy
<1>4. Stage(t, r)' => Stage(t, thread[t])'
  BY <1>1 DEF Stage, Tearing, Closing
<1>5. QED
  BY <1>2, <1>3, <1>4 DEF Whole

(* A worker goes on.                                                       *)
LEMMA WorkMoves ==
    ASSUME IInv, Errands, ServiceUp, NEW w \in Attempt, Busy(w), NEW l \in Working,
           Goto(w, l) \/ \E n \in Nat : Count(w, l, n),
           Building(w, l)'
    PROVE  Whole'
<1>1. PICK r : thread' = [thread EXCEPT ![w] = r] /\ r.pc = l
  <2>1. thread \in [Thread -> ThreadState] /\ w \in Thread
    BY WhatHolds
  <2>2. CASE Goto(w, l)
    <3> DEFINE r == [thread[w] EXCEPT !.pc = l]
    <3>1. thread' = [thread EXCEPT ![w] = r] /\ r.pc = l
      BY <2>1, <2>2 DEF Goto, ThreadState
    <3> HIDE DEF r
    <3>2. QED
      BY <3>1
  <2>3. ASSUME NEW n \in Nat, Count(w, l, n)
        PROVE  \E r : thread' = [thread EXCEPT ![w] = r] /\ r.pc = l
    <3> DEFINE r == [thread[w] EXCEPT !.pc = l, !.k = n]
    <3>1. thread' = [thread EXCEPT ![w] = r]
      BY <2>1, <2>3 DEF Count
    <3>2. r.pc = l
      BY <2>1 DEF ThreadState
    <3> HIDE DEF r
    <3>3. QED
      BY <3>1, <3>2
  <2>4. QED
    BY <2>2, <2>3
<1>2. Stage(w, r)'
  BY <1>1 DEF Stage, Tearing, Closing, Working
<1>3. r.pc \notin {"idle", "foreground"}
  BY <1>1 DEF Working
<1>4. w \in Thread
  OBVIOUS
<1>5. QED
  BY <1>1, <1>2, <1>3, <1>4, WholeMoves

(* It fails: stopRunner has the tun and the components to itself, or the   *)
(* exception takes the process down.                                       *)
LEMMA WorkFails ==
    ASSUME IInv, Errands, ServiceUp, NEW w \in Attempt, Busy(w), OwnTun,
           \/ StopRunner(w, "reset", "FAILED") /\ UNCHANGED <<conn, tun>>
           \/ \E why \in Crash \ {"no"} : Throw(w, why)
    PROVE  Whole'
<1>1. CASE \E why \in Crash \ {"no"} : Throw(w, why)
  BY <1>1 DEF Throw, Whole, ServiceUp
<1>2. CASE StopRunner(w, "reset", "FAILED") /\ UNCHANGED <<conn, tun>>
  <2>1. PICK r : thread' = [thread EXCEPT ![w] = r] /\ r.pc = "reset" /\ r.answer = "FAILED"
    <3> DEFINE r == [pc |-> "reset", k |-> 0, answer |-> "FAILED"]
    <3>1. thread' = [thread EXCEPT ![w] = r] /\ r.pc = "reset" /\ r.answer = "FAILED"
      BY <1>2 DEF StopRunner
    <3> HIDE DEF r
    <3>2. QED
      BY <3>1
  <2>2. Stage(w, r)'
    BY <1>2, <2>1 DEF Stage, Working, Tearing, Closing, OwnTun
  <2>3. w \in Thread /\ r.pc \notin {"idle", "foreground"}
    BY <2>1
  <2>4. QED
    BY <2>1, <2>2, <2>3, WholeMoves
<1>3. QED
  BY <1>1, <1>2

LEMMA AtWorkOn ==
    ASSUME IInv, OneInv, Errands, Whole, NEW w \in Attempt, NEW l \in Working, At(w, l)
    PROVE  /\ ServiceUp /\ Busy(w) /\ w # 0 /\ profile = w
           /\ Making(w, l) /\ Route(w, l) /\ Opening(w, l) /\ OwnTun
<1>1. ServiceUp /\ Busy(w) /\ w # 0
  BY DEF At, ServiceUp, Busy, Working
<1>2. profile = w
  BY <1>1 DEF OneInv, Ours
<1>3. Building(w, l)
  BY <1>1 DEF At, Whole, Stage
<1>4. QED
  BY <1>1, <1>2, <1>3 DEF Building, Opening

(* From a statement to one that finds the same components made.            *)
LEMMA MakingOn ==
    ASSUME NEW w \in Attempt, NEW l, NEW m, Making(w, l), UNCHANGED <<field, obj>>,
           \A f \in PartsOf(w) : Ahead(f, l) <=> Ahead(f, m),
           \A f \in PartsOf(w) : ~Starting(f, l),
           m \in {"sendFd", "connected", "tellConnected"} =>
               \/ l \in {"sendFd", "connected", "tellConnected"}
               \/ \A f \in Server : obj[f][w] # "started"
    PROVE  Making(w, m)'
BY DEF Making, Made

LEMMA OpeningOn ==
    ASSUME NEW w \in Attempt, NEW l, NEW m, Opening(w, l), UNCHANGED <<conn, tun>>,
           Ahead("tun2socks", l) <=> Ahead("tun2socks", m),
           \/ conn = w \/ m # "tun2socks",
           \/ conn = 0 \/ l \notin {"checkConn", "tun2socks"} \/ m \in {"checkConn", "tun2socks"}
    PROVE  Opening(w, m)'
BY DEF Opening, OwnTun

LEMMA PartsAre ==
    ASSUME NEW w
    PROVE  /\ w \in DnsForward => \A f \in PartsOf(w) : f = "local" \/ f = "udprs" \/ f = "tun2socks"
           /\ w \notin DnsForward =>
                \A f \in PartsOf(w) : f = "local" \/ f = "tunnel" \/ f = "pdnsd" \/ f = "tun2socks"
BY DEF PartsOf

(* Statements that make nothing.                                           *)
LEMMA WholeGoesOn ==
    ASSUME IInv, OneInv, Errands, Whole, NEW w \in Attempt,
           Resolve(w) \/ StoreAddress(w) \/ IfTunnel(w) \/ CheckConn(w) \/ Sleep(w) \/ SendFd(w) \/ SetConnected(w)
    PROVE  Whole'
<1>1. {"resolve", "store", "newLocal", "ifTunnel", "newTunnel", "establish", "checkConn", "tun2socks",
       "sleep", "sendFd", "connected", "tellConnected"} \subseteq Working
  BY DEF Working
<1>2. UNCHANGED <<field, obj, conn, tun>>
  BY DEF Resolve, StoreAddress, IfTunnel, CheckConn, Sleep, SendFd, SetConnected, data
<1>3. profile \in Nat /\ thread[w].k + 1 \in Nat
  <2>1. thread \in [Thread -> ThreadState] /\ profile \in Ref /\ w \in Thread
    BY WhatHolds DEF Control, TypeOK
  <2>2. thread[w].k \in Nat
    BY <2>1 DEF ThreadState
  <2>3. QED
    BY <2>1, <2>2
<1>4. CASE Resolve(w)
  <2>1. /\ At(w, "resolve")
        /\ Goto(w, "newLocal") \/ Count(w, "store", profile) \/ StopRunner(w, "reset", "FAILED")
    BY <1>4 DEF Resolve
  <2>2. /\ ServiceUp /\ Busy(w) /\ OwnTun
        /\ Making(w, "resolve") /\ Route(w, "resolve") /\ Opening(w, "resolve")
    BY <1>1, <2>1, AtWorkOn
  <2>3. Building(w, "newLocal")' /\ Building(w, "store")'
    <3>1. Making(w, "newLocal")' /\ Making(w, "store")'
      BY <1>2, <2>2, MakingOn DEF Ahead, Starting
    <3>2. Opening(w, "newLocal")' /\ Opening(w, "store")'
      BY <1>2, <2>2, OpeningOn DEF Ahead
    <3>3. QED
      BY <3>1, <3>2 DEF Building, Route
  <2>4. QED
    BY <1>1, <1>2, <1>3, <2>1, <2>2, <2>3, WorkMoves, WorkFails
<1>5. CASE StoreAddress(w)
  <2>1. At(w, "store") /\ Goto(w, "newLocal")
    BY <1>5 DEF StoreAddress
  <2>2. /\ ServiceUp /\ Busy(w) /\ Making(w, "store") /\ Opening(w, "store")
    BY <1>1, <2>1, AtWorkOn
  <2>3. Building(w, "newLocal")'
    <3>1. Making(w, "newLocal")'
      BY <1>2, <2>2, MakingOn DEF Ahead, Starting
    <3>2. Opening(w, "newLocal")'
      BY <1>2, <2>2, OpeningOn DEF Ahead
    <3>3. QED
      BY <3>1, <3>2 DEF Building, Route
  <2>4. QED
    BY <1>1, <2>1, <2>2, <2>3, WorkMoves
<1>6. CASE IfTunnel(w)
  <2>1. At(w, "ifTunnel") /\ Goto(w, IF profile \in DnsForward THEN "establish" ELSE "newTunnel")
    BY <1>6 DEF IfTunnel
  <2>2. /\ ServiceUp /\ Busy(w) /\ profile = w /\ Making(w, "ifTunnel") /\ Opening(w, "ifTunnel")
    BY <1>1, <2>1, AtWorkOn
  <2>3. CASE w \in DnsForward
    <3>1. Making(w, "establish")'
      <4>1. \A f \in PartsOf(w) : Ahead(f, "ifTunnel") <=> Ahead(f, "establish")
        BY <2>3, PartsAre DEF Ahead
      <4>2. QED
        BY <1>2, <2>2, <4>1, MakingOn DEF Starting
    <3>2. Opening(w, "establish")'
      BY <1>2, <2>2, OpeningOn DEF Ahead
    <3>3. Building(w, "establish")'
      BY <3>1, <3>2 DEF Building, Route
    <3>4. QED
      BY <1>1, <2>1, <2>2, <2>3, <3>3, WorkMoves
  <2>4. CASE w \notin DnsForward
    <3>1. Making(w, "newTunnel")'
      BY <1>2, <2>2, MakingOn DEF Ahead, Starting
    <3>2. Opening(w, "newTunnel")'
      BY <1>2, <2>2, OpeningOn DEF Ahead
    <3>3. Building(w, "newTunnel")'
      BY <2>4, <3>1, <3>2 DEF Building, Route
    <3>4. QED
      BY <1>1, <2>1, <2>2, <2>4, <3>3, WorkMoves
  <2>5. QED
    BY <2>3, <2>4
<1>7. CASE CheckConn(w)
  <2>1. /\ At(w, "checkConn")
        /\ \/ StopRunner(w, "reset", "FAILED")
           \/ Goto(w, "tun2socks") /\ conn # 0
    BY <1>7 DEF CheckConn
  <2>2. /\ ServiceUp /\ Busy(w) /\ OwnTun /\ Making(w, "checkConn") /\ Opening(w, "checkConn")
    BY <1>1, <2>1, AtWorkOn
  <2>3. CASE Goto(w, "tun2socks") /\ conn # 0
    <3>1. Making(w, "tun2socks")'
      BY <1>2, <2>2, MakingOn DEF Ahead, Starting
    <3>2. Opening(w, "tun2socks")'
      <4>1. conn = w
        BY <2>2, <2>3 DEF Opening
      <4>2. QED
        BY <1>2, <2>2, <4>1, OpeningOn DEF Ahead
    <3>3. Building(w, "tun2socks")'
      BY <3>1, <3>2 DEF Building, Route
    <3>4. QED
      BY <1>1, <2>2, <2>3, <3>3, WorkMoves
  <2>4. QED
    BY <1>2, <2>1, <2>2, <2>3, WorkFails
<1>8. CASE Sleep(w)
  <2>1. At(w, "sleep") /\ Goto(w, "sendFd") /\ \A f \in Server : obj[f][w] # "started"
    BY <1>8 DEF Sleep
  <2>2. ServiceUp /\ Busy(w) /\ Making(w, "sleep") /\ Opening(w, "sleep")
    BY <1>1, <2>1, AtWorkOn
  <2>3. Building(w, "sendFd")'
    <3>1. Making(w, "sendFd")'
      BY <1>2, <2>1, <2>2, MakingOn DEF Ahead, Starting
    <3>2. Opening(w, "sendFd")'
      BY <1>2, <2>2, OpeningOn DEF Ahead
    <3>3. QED
      BY <3>1, <3>2 DEF Building, Route
  <2>4. QED
    BY <1>1, <2>1, <2>2, <2>3, WorkMoves
<1>9. CASE SendFd(w)
  <2>1. /\ At(w, "sendFd")
        /\ \/ Goto(w, "connected") \/ Count(w, "sleep", thread[w].k + 1)
           \/ StopRunner(w, "reset", "FAILED")
    BY <1>9 DEF SendFd
  <2>2. ServiceUp /\ Busy(w) /\ OwnTun /\ Making(w, "sendFd") /\ Opening(w, "sendFd")
    BY <1>1, <2>1, AtWorkOn
  <2>3. Building(w, "connected")' /\ Building(w, "sleep")'
    <3>1. Making(w, "connected")' /\ Making(w, "sleep")'
      BY <1>2, <2>2, MakingOn DEF Ahead, Starting
    <3>2. Opening(w, "connected")' /\ Opening(w, "sleep")'
      BY <1>2, <2>2, OpeningOn DEF Ahead
    <3>3. QED
      BY <3>1, <3>2 DEF Building, Route
  <2>4. QED
    BY <1>1, <1>2, <1>3, <2>1, <2>2, <2>3, WorkMoves, WorkFails
<1>10. CASE SetConnected(w)
  <2>1. At(w, "connected") /\ Goto(w, "tellConnected")
    BY <1>10 DEF SetConnected
  <2>2. ServiceUp /\ Busy(w) /\ Making(w, "connected") /\ Opening(w, "connected")
    BY <1>1, <2>1, AtWorkOn
  <2>3. Building(w, "tellConnected")'
    <3>1. Making(w, "tellConnected")'
      BY <1>2, <2>2, MakingOn DEF Ahead, Starting
    <3>2. Opening(w, "tellConnected")'
      BY <1>2, <2>2, OpeningOn DEF Ahead
    <3>3. QED
      BY <3>1, <3>2 DEF Building, Route
  <2>4. QED
    BY <1>1, <2>1, <2>2, <2>3, WorkMoves
<1>11. QED
  BY <1>4, <1>5, <1>6, <1>7, <1>8, <1>9, <1>10

(* A statement that makes component f, or starts the server it has made.   *)
LEMMA MakingMakes ==
    ASSUME IInv, NEW w \in Attempt, NEW l, NEW m, NEW f \in Field, NEW s, Making(w, l),
           \A g \in PartsOf(w) : g # f => (Ahead(g, l) <=> Ahead(g, m)),
           \A g \in PartsOf(w) : ~Starting(g, l),
           f \in PartsOf(w), ~Ahead(f, m), m \notin {"sendFd", "connected", "tellConnected"},
           field' = [field EXCEPT ![f] = w], obj' = [obj EXCEPT ![f][w] = s],
           s = "running" \/ (s = "new" /\ Starting(f, m))
    PROVE  Making(w, m)'
<1>1. /\ field'[f] = w /\ obj'[f][w] = s
      /\ \A g \in Field : g # f => field'[g] = field[g] /\ obj'[g] = obj[g]
  BY WhatHolds DEF Objects
<1>2. Made(w, f, m)'
  BY <1>1 DEF Made
<1>3. ASSUME NEW g \in Field, g # f
      PROVE  IF g \in PartsOf(w) /\ ~Ahead(g, m) THEN Made(w, g, m)' ELSE field'[g] = 0
  BY <1>1, <1>3 DEF Making, Made
<1>4. QED
  BY <1>2, <1>3 DEF Making

LEMMA MakingStarts ==
    ASSUME IInv, NEW w \in Attempt, NEW l, NEW m, NEW f \in Server, Making(w, l),
           \A g \in PartsOf(w) : Ahead(g, l) <=> Ahead(g, m),
           \A g \in PartsOf(w) : g # f => ~Starting(g, l),
           m \notin {"sendFd", "connected", "tellConnected"},
           UNCHANGED field, obj' = [obj EXCEPT ![f][w] = "started"]
    PROVE  Making(w, m)'
<1>1. /\ f \in Field /\ obj'[f][w] = "started"
      /\ \A g \in Field : g # f => obj'[g] = obj[g]
  BY WhatHolds DEF Objects, Field
<1>2. ASSUME NEW g \in Field
      PROVE  IF g \in PartsOf(w) /\ ~Ahead(g, m) THEN Made(w, g, m)' ELSE field'[g] = 0
  BY <1>1, <1>2 DEF Making, Made
<1>3. QED
  BY <1>2 DEF Making

LEMMA WholeNewServer ==
    ASSUME IInv, OneInv, Errands, Whole, NEW w \in Attempt,
           \/ NewServer(w, "newLocal", "local", "startLocal")
           \/ NewServer(w, "newUdp", "udprs", "startUdp")
           \/ NewServer(w, "newTunnel", "tunnel", "startTunnel")
    PROVE  Whole'
<1>1. {"newLocal", "startLocal", "newUdp", "startUdp", "newTunnel", "startTunnel"} \subseteq Working
  BY DEF Working
<1>2. {"local", "udprs", "tunnel"} \subseteq Field
  BY DEF Field, Server
<1>3. CASE NewServer(w, "newLocal", "local", "startLocal")
  <2>1. /\ At(w, "newLocal") /\ Goto(w, "startLocal") /\ UNCHANGED <<conn, tun>>
        /\ field' = [field EXCEPT !["local"] = w] /\ obj' = [obj EXCEPT !["local"][w] = "new"]
    BY <1>3 DEF NewServer
  <2>2. ServiceUp /\ Busy(w) /\ Making(w, "newLocal") /\ Opening(w, "newLocal")
    BY <1>1, <2>1, AtWorkOn
  <2>3. /\ \A g \in PartsOf(w) : g # "local" => (Ahead(g, "newLocal") <=> Ahead(g, "startLocal"))
        /\ \A g \in PartsOf(w) : ~Starting(g, "newLocal")
        /\ "local" \in PartsOf(w) /\ ~Ahead("local", "startLocal") /\ Starting("local", "startLocal")
    BY DEF PartsOf, Ahead, Starting
  <2>4. Making(w, "startLocal")'
    BY <1>2, <2>1, <2>2, <2>3, MakingMakes
  <2>5. Opening(w, "startLocal")'
    BY <2>1, <2>2, OpeningOn DEF Ahead
  <2>6. Building(w, "startLocal")'
    BY <2>4, <2>5 DEF Building, Route
  <2>7. QED
    BY <1>1, <2>1, <2>2, <2>6, WorkMoves
<1>4. CASE NewServer(w, "newUdp", "udprs", "startUdp")
  <2>1. /\ At(w, "newUdp") /\ Goto(w, "startUdp") /\ UNCHANGED <<conn, tun>>
        /\ field' = [field EXCEPT !["udprs"] = w] /\ obj' = [obj EXCEPT !["udprs"][w] = "new"]
    BY <1>4 DEF NewServer
  <2>2. /\ ServiceUp /\ Busy(w) /\ Making(w, "newUdp") /\ Opening(w, "newUdp")
        /\ w \in DnsForward
    BY <1>1, <2>1, AtWorkOn DEF Route
  <2>3. /\ \A g \in PartsOf(w) : g # "udprs" => (Ahead(g, "newUdp") <=> Ahead(g, "startUdp"))
        /\ \A g \in PartsOf(w) : ~Starting(g, "newUdp")
        /\ "udprs" \in PartsOf(w) /\ ~Ahead("udprs", "startUdp") /\ Starting("udprs", "startUdp")
    BY <2>2 DEF PartsOf, Ahead, Starting
  <2>4. Making(w, "startUdp")'
    BY <1>2, <2>1, <2>2, <2>3, MakingMakes
  <2>5. Opening(w, "startUdp")'
    BY <2>1, <2>2, OpeningOn DEF Ahead
  <2>6. Building(w, "startUdp")'
    BY <2>2, <2>4, <2>5 DEF Building, Route
  <2>7. QED
    BY <1>1, <2>1, <2>2, <2>6, WorkMoves
<1>5. CASE NewServer(w, "newTunnel", "tunnel", "startTunnel")
  <2>1. /\ At(w, "newTunnel") /\ Goto(w, "startTunnel") /\ UNCHANGED <<conn, tun>>
        /\ field' = [field EXCEPT !["tunnel"] = w] /\ obj' = [obj EXCEPT !["tunnel"][w] = "new"]
    BY <1>5 DEF NewServer
  <2>2. /\ ServiceUp /\ Busy(w) /\ Making(w, "newTunnel") /\ Opening(w, "newTunnel")
        /\ w \notin DnsForward
    BY <1>1, <2>1, AtWorkOn DEF Route
  <2>3. /\ \A g \in PartsOf(w) : g # "tunnel" => (Ahead(g, "newTunnel") <=> Ahead(g, "startTunnel"))
        /\ \A g \in PartsOf(w) : ~Starting(g, "newTunnel")
        /\ "tunnel" \in PartsOf(w) /\ ~Ahead("tunnel", "startTunnel") /\ Starting("tunnel", "startTunnel")
    BY <2>2 DEF PartsOf, Ahead, Starting
  <2>4. Making(w, "startTunnel")'
    BY <1>2, <2>1, <2>2, <2>3, MakingMakes
  <2>5. Opening(w, "startTunnel")'
    BY <2>1, <2>2, OpeningOn DEF Ahead
  <2>6. Building(w, "startTunnel")'
    BY <2>2, <2>4, <2>5 DEF Building, Route
  <2>7. QED
    BY <1>1, <2>1, <2>2, <2>6, WorkMoves
<1>6. QED
  BY <1>3, <1>4, <1>5

LEMMA WholeStartServer ==
    ASSUME IInv, OneInv, Errands, Whole, NEW w \in Attempt,
           \/ StartServer(w, "startLocal", "local", IF profile \in DnsForward THEN "newUdp" ELSE "ifTunnel")
           \/ StartServer(w, "startUdp", "udprs", "ifTunnel")
           \/ StartServer(w, "startTunnel", "tunnel", "startPdnsd")
    PROVE  Whole'
<1>1. {"startLocal", "newUdp", "startUdp", "ifTunnel", "startTunnel", "startPdnsd"} \subseteq Working
  BY DEF Working
<1>2. {"null", "restarted"} \subseteq Crash \ {"no"}
  BY DEF Crash
<1>3. ASSUME NEW l \in Working, NEW f \in Server, NEW m \in Working, StartServer(w, l, f, m),
             ~Ahead(f, l), f \in PartsOf(w), Starting(f, l),
             m \notin {"sendFd", "connected", "tellConnected", "tun2socks"},
             \A g \in PartsOf(w) : Ahead(g, l) <=> Ahead(g, m),
             \A g \in PartsOf(w) : g # f => ~Starting(g, l),
             Ahead("tun2socks", l), Ahead("tun2socks", m), l \notin {"checkConn", "tun2socks"},
             Route(w, m)'
      PROVE  Whole'
  <2>1. /\ At(w, l) /\ UNCHANGED <<field, conn, tun>>
        /\ \/ \E why \in Crash \ {"no"} : Throw(w, why)
           \/ /\ obj[f][field[f]] \in {"new", "cancelled"}
              /\ obj' = [obj EXCEPT ![f][field[f]] = IF @ = "new" THEN "started" ELSE "doomed"]
              /\ Goto(w, m)
    BY <1>2, <1>3 DEF StartServer
  <2>2. ServiceUp /\ Busy(w) /\ OwnTun /\ Making(w, l) /\ Opening(w, l)
    BY <2>1, AtWorkOn
  <2>3. CASE /\ obj[f][field[f]] \in {"new", "cancelled"}
             /\ obj' = [obj EXCEPT ![f][field[f]] = IF @ = "new" THEN "started" ELSE "doomed"]
             /\ Goto(w, m)
    <3>1. f \in Field
      BY DEF Field
    <3>2. field[f] = w /\ obj[f][w] \in {"running", "started", "new"}
      BY <1>3, <2>2, <3>1 DEF Making, Made
    <3>3. obj' = [obj EXCEPT ![f][w] = "started"]
      BY <2>3, <3>1, <3>2, WhatHolds DEF Objects
    <3>4. Making(w, m)'
      BY <1>3, <2>1, <2>2, <3>3, MakingStarts
    <3>5. Opening(w, m)'
      BY <1>3, <2>1, <2>2, OpeningOn
    <3>6. Building(w, m)'
      BY <1>3, <3>4, <3>5 DEF Building
    <3>7. QED
      BY <2>2, <2>3, <3>6, WorkMoves
  <2>4. QED
    BY <2>1, <2>2, <2>3, WorkFails
<1>4. CASE StartServer(w, "startLocal", "local", IF profile \in DnsForward THEN "newUdp" ELSE "ifTunnel")
  <2>1. profile = w
    <3>1. At(w, "startLocal")
      BY <1>4 DEF StartServer
    <3>2. QED
      BY <1>1, <3>1, AtWorkOn
  <2>2. "local" \in Server /\ "local" \in PartsOf(w) /\ ~Ahead("local", "startLocal")
        /\ Starting("local", "startLocal") /\ \A g \in PartsOf(w) : g # "local" => ~Starting(g, "startLocal")
    BY DEF Server, PartsOf, Ahead, Starting
  <2>3. CASE w \in DnsForward
    <3>1. StartServer(w, "startLocal", "local", "newUdp")
      BY <1>4, <2>1, <2>3
    <3>2. /\ \A g \in PartsOf(w) : Ahead(g, "startLocal") <=> Ahead(g, "newUdp")
          /\ Ahead("tun2socks", "startLocal") /\ Ahead("tun2socks", "newUdp")
      BY DEF Ahead
    <3>3. Route(w, "newUdp")'
      BY <2>3 DEF Route
    <3>4. QED
      BY <1>1, <1>3, <2>2, <3>1, <3>2, <3>3
  <2>4. CASE w \notin DnsForward
    <3>1. StartServer(w, "startLocal", "local", "ifTunnel")
      BY <1>4, <2>1, <2>4
    <3>2. /\ \A g \in PartsOf(w) : Ahead(g, "startLocal") <=> Ahead(g, "ifTunnel")
          /\ Ahead("tun2socks", "startLocal") /\ Ahead("tun2socks", "ifTunnel")
      BY <2>4, PartsAre DEF Ahead
    <3>3. Route(w, "ifTunnel")'
      BY DEF Route
    <3>4. QED
      BY <1>1, <1>3, <2>2, <3>1, <3>2, <3>3
  <2>5. QED
    BY <2>3, <2>4
<1>5. CASE StartServer(w, "startUdp", "udprs", "ifTunnel")
  <2>1. w \in DnsForward
    <3>1. At(w, "startUdp")
      BY <1>5 DEF StartServer
    <3>2. QED
      BY <1>1, <3>1, AtWorkOn DEF Route
  <2>2. "udprs" \in Server /\ "udprs" \in PartsOf(w) /\ ~Ahead("udprs", "startUdp")
        /\ Starting("udprs", "startUdp") /\ \A g \in PartsOf(w) : g # "udprs" => ~Starting(g, "startUdp")
    BY <2>1 DEF Server, PartsOf, Ahead, Starting
  <2>3. /\ \A g \in PartsOf(w) : Ahead(g, "startUdp") <=> Ahead(g, "ifTunnel")
        /\ Ahead("tun2socks", "startUdp") /\ Ahead("tun2socks", "ifTunnel")
    BY DEF Ahead
  <2>4. Route(w, "ifTunnel")'
    BY DEF Route
  <2>5. QED
    BY <1>1, <1>3, <1>5, <2>2, <2>3, <2>4
<1>6. CASE StartServer(w, "startTunnel", "tunnel", "startPdnsd")
  <2>1. w \notin DnsForward
    <3>1. At(w, "startTunnel")
      BY <1>6 DEF StartServer
    <3>2. QED
      BY <1>1, <3>1, AtWorkOn DEF Route
  <2>2. "tunnel" \in Server /\ "tunnel" \in PartsOf(w) /\ ~Ahead("tunnel", "startTunnel")
        /\ Starting("tunnel", "startTunnel") /\ \A g \in PartsOf(w) : g # "tunnel" => ~Starting(g, "startTunnel")
    BY <2>1 DEF Server, PartsOf, Ahead, Starting
  <2>3. /\ \A g \in PartsOf(w) : Ahead(g, "startTunnel") <=> Ahead(g, "startPdnsd")
        /\ Ahead("tun2socks", "startTunnel") /\ Ahead("tun2socks", "startPdnsd")
    BY DEF Ahead
  <2>4. Route(w, "startPdnsd")'
    BY <2>1 DEF Route
  <2>5. QED
    BY <1>1, <1>3, <1>6, <2>2, <2>3, <2>4
<1>7. QED
  BY <1>4, <1>5, <1>6

LEMMA WholeProcess ==
    ASSUME IInv, OneInv, Errands, Whole, NEW w \in Attempt, StartDnsDaemon(w) \/ StartTun2socks(w)
    PROVE  Whole'
<1>1. {"startPdnsd", "establish", "tun2socks", "sleep"} \subseteq Working
  BY DEF Working
<1>2. {"null", "exec"} \subseteq Crash \ {"no"} /\ 1 \in Nat
  BY DEF Crash
<1>3. "pdnsd" \in Field /\ "tun2socks" \in Field
  BY DEF Field
<1>4. CASE StartDnsDaemon(w)
  <2>1. /\ At(w, "startPdnsd") /\ UNCHANGED <<conn, tun>>
        /\ \/ \E why \in Crash \ {"no"} : Throw(w, why)
           \/ /\ Goto(w, "establish")
              /\ field' = [field EXCEPT !["pdnsd"] = w] /\ obj' = [obj EXCEPT !["pdnsd"][w] = "running"]
    BY <1>2, <1>4 DEF StartDnsDaemon, StartProcess
  <2>2. /\ ServiceUp /\ Busy(w) /\ OwnTun /\ Making(w, "startPdnsd") /\ Opening(w, "startPdnsd")
        /\ w \notin DnsForward
    BY <1>1, <2>1, AtWorkOn DEF Route
  <2>3. CASE /\ Goto(w, "establish")
             /\ field' = [field EXCEPT !["pdnsd"] = w] /\ obj' = [obj EXCEPT !["pdnsd"][w] = "running"]
    <3>1. /\ \A g \in PartsOf(w) : g # "pdnsd" => (Ahead(g, "startPdnsd") <=> Ahead(g, "establish"))
          /\ \A g \in PartsOf(w) : ~Starting(g, "startPdnsd")
          /\ "pdnsd" \in PartsOf(w) /\ ~Ahead("pdnsd", "establish")
      BY <2>2 DEF PartsOf, Ahead, Starting
    <3>2. Making(w, "establish")'
      BY <1>3, <2>2, <2>3, <3>1, MakingMakes
    <3>3. Opening(w, "establish")'
      BY <2>1, <2>2, OpeningOn DEF Ahead
    <3>4. Building(w, "establish")'
      BY <3>2, <3>3 DEF Building, Route
    <3>5. QED
      BY <1>1, <2>2, <2>3, <3>4, WorkMoves
  <2>4. QED
    BY <2>1, <2>2, <2>3, WorkFails
<1>5. CASE StartTun2socks(w)
  <2>1. /\ At(w, "tun2socks")
        /\ \/ \E why \in Crash \ {"no"} : Throw(w, why)
           \/ /\ Count(w, "sleep", 1) /\ UNCHANGED <<conn, tun>>
              /\ field' = [field EXCEPT !["tun2socks"] = w]
              /\ obj' = [obj EXCEPT !["tun2socks"][w] = "running"]
    BY <1>2, <1>5 DEF StartTun2socks, StartProcess
  <2>2. /\ ServiceUp /\ Busy(w) /\ OwnTun /\ Making(w, "tun2socks") /\ Opening(w, "tun2socks")
    BY <1>1, <2>1, AtWorkOn
  <2>3. CASE /\ Count(w, "sleep", 1) /\ UNCHANGED <<conn, tun>>
             /\ field' = [field EXCEPT !["tun2socks"] = w]
             /\ obj' = [obj EXCEPT !["tun2socks"][w] = "running"]
    <3>1. /\ \A g \in PartsOf(w) : g # "tun2socks" => (Ahead(g, "tun2socks") <=> Ahead(g, "sleep"))
          /\ \A g \in PartsOf(w) : ~Starting(g, "tun2socks")
          /\ "tun2socks" \in PartsOf(w) /\ ~Ahead("tun2socks", "sleep")
      BY <2>2 DEF PartsOf, Ahead, Starting
    <3>2. Making(w, "sleep")'
      BY <1>3, <2>2, <2>3, <3>1, MakingMakes
    <3>3. Opening(w, "sleep")'
      BY <2>2, <2>3 DEF Opening, OwnTun, Ahead
    <3>4. Building(w, "sleep")'
      BY <3>2, <3>3 DEF Building, Route
    <3>5. QED
      BY <1>1, <1>2, <2>2, <2>3, <3>4, WorkMoves
  <2>4. QED
    BY <2>1, <2>2, <2>3, WorkFails
<1>6. QED
  BY <1>4, <1>5

LEMMA WholeEstablish ==
    ASSUME IInv, OneInv, Errands, Whole, NEW w \in Attempt, Establish(w)
    PROVE  Whole'
<1>1. {"establish", "checkConn"} \subseteq Working
  BY DEF Working
<1>2. /\ At(w, "establish") /\ Goto(w, "checkConn") /\ UNCHANGED <<field, obj>>
      /\ (conn' = w /\ tun' = tun \cup {w}) \/ (conn' = 0 /\ UNCHANGED tun)
  BY DEF Establish
<1>3. ServiceUp /\ Busy(w) /\ w # 0 /\ Making(w, "establish") /\ Opening(w, "establish")
  BY <1>1, <1>2, AtWorkOn
<1>4. Making(w, "checkConn")'
  BY <1>2, <1>3, MakingOn DEF Ahead, Starting
<1>5. conn = 0 /\ tun = {}
  BY <1>3 DEF Opening, OwnTun, Ahead
<1>6. Opening(w, "checkConn")'
  BY <1>2, <1>3, <1>5 DEF Opening, OwnTun, Ahead
<1>7. QED
  BY <1>1, <1>2, <1>3, <1>4, <1>6, WorkMoves DEF Building, Route

(* What the errand has built stays when it has been told.                  *)
LEMMA WholeTold ==
    ASSUME IInv, OneInv, Errands, Whole, NEW w \in Attempt, TellConnected(w)
    PROVE  Whole'
<1>1. /\ At(w, "tellConnected") /\ Goto(w, "foreground")
      /\ UNCHANGED <<connected, field, obj, conn, tun>>
  BY DEF TellConnected, data
<1>2. "tellConnected" \in Working /\ "tellConnected" \in Pc \ {"idle", "foreground"} /\ w \in Thread
  BY DEF Working, Pc
<1>3. /\ ServiceUp /\ Busy(w) /\ w # 0 /\ connected = TRUE
      /\ Making(w, "tellConnected") /\ Route(w, "tellConnected") /\ Opening(w, "tellConnected")
  BY <1>1, <1>2, AtWork, AtWorkOn
<1>4. PICK r : thread' = [thread EXCEPT ![w] = r] /\ r.pc = "foreground"
  <2> DEFINE r == [thread[w] EXCEPT !.pc = "foreground"]
  <2>1. thread' = [thread EXCEPT ![w] = r] /\ r.pc = "foreground"
    BY <1>1, <1>2, WhatHolds DEF Goto, ThreadState
  <2> HIDE DEF r
  <2>2. QED
    BY <2>1
<1>5. conn = w
  BY <1>3 DEF Opening, Ahead
<1>6. Making(conn, "tellConnected") /\ Route(conn, "tellConnected") /\ Opening(conn, "tellConnected")
  BY <1>3, <1>5
<1>7. Settled
  BY <1>3, <1>5, <1>6 DEF Settled, Building
<1>8. Settled'
  BY <1>1, <1>7 DEF Settled, Building, Making, Made, Route, Opening, OwnTun, Down, Nulls
<1>9. QED
  BY <1>2, <1>3, <1>4, <1>8, WholeMoves

(* Steps that leave every errand where it is.                              *)
LEMMA WholeAside ==
    ASSUME Whole, \A t \in Thread : Busy(t) <=> Busy(t)',
           \A t \in Thread : Busy(t) => thread'[t] = thread[t],
           UNCHANGED <<connected, field, obj, conn, tun, crashed>>
    PROVE  Whole'
<1>1. ServiceUp' => ServiceUp
  BY DEF ServiceUp
<1>2. ASSUME NEW t \in Thread, Busy(t), Stage(t, thread[t])
      PROVE  Stage(t, thread[t])'
  BY <1>2 DEF Stage, Tearing, Closing, Building, Making, Made, Route, Opening, OwnTun, Down, Nulls
<1>3. Settled => Settled'
  BY DEF Settled, Building, Making, Made, Route, Opening, OwnTun, Down, Nulls
<1>4. QED
  BY <1>1, <1>2, <1>3 DEF Whole

(* A started server begins to run.                                         *)
LEMMA WholeBegins ==
    ASSUME IInv, Whole, NEW f \in Server, NEW a \in Attempt, ServerBegins(f, a)
    PROVE  Whole'
<1>1. /\ ServiceUp /\ UNCHANGED <<connected, field, conn, tun, thread>>
      /\ obj[f][a] \in {"started", "doomed"}
      /\ obj' = [obj EXCEPT ![f][a] = IF @ = "started" THEN "running" ELSE "stopped"]
      /\ f \in Field
  BY DEF ServerBegins, ServiceUp, io, Field
<1>2. \A g \in Field, b \in Attempt :
         \/ obj'[g][b] = obj[g][b]
         \/ obj[g][b] = "started" /\ obj'[g][b] = "running"
         \/ obj[g][b] = "doomed"
  BY <1>1, WhatHolds DEF Objects
<1>3. ASSUME NEW g \in Field, NEW w \in Attempt, NEW l, Made(w, g, l)
      PROVE  Made(w, g, l)'
  BY <1>1, <1>2, <1>3 DEF Made
<1>4. ASSUME NEW w \in Attempt, NEW l, Building(w, l)
      PROVE  Building(w, l)'
  BY <1>1, <1>3, <1>4 DEF Building, Making, Route, Opening, OwnTun
<1>5. ASSUME NEW t \in Thread, Stage(t, thread[t])
      PROVE  Stage(t, thread[t])'
  <2>1. thread[t].pc \in Working => t \in Attempt /\ Building(t, thread[t].pc)
    BY <1>5 DEF Stage
  <2>2. PICK l : l = thread[t].pc
    OBVIOUS
  <2>3. l \in Working => t \in Attempt /\ Building(t, l)'
    BY <1>4, <2>1, <2>2
  <2>4. thread'[t].pc \in Working => t \in Attempt /\ Building(t, thread[t].pc)'
    BY <1>1, <2>2, <2>3 DEF Building, Making, Made, Route, Opening
  <2>5. \A g \in Field : obj[g][field[g]] = "running" => field[g] = 0 \/ obj'[g][field[g]] = "running"
    BY <1>2, WhatHolds DEF Objects
  <2>6. Tearing(t, thread[t])'
    BY <1>1, <1>5, <2>5 DEF Stage, Tearing, OwnTun, Down, Nulls
  <2>7. Closing(thread[t])'
    BY <1>1, <1>5 DEF Stage, Closing, OwnTun, Nulls
  <2>8. QED
    BY <2>4, <2>6, <2>7 DEF Stage
<1>6. Settled => Settled'
  <2>1. ASSUME connected, Settled
        PROVE  conn # 0 /\ Building(conn, "tellConnected")'
    <3>1. PICK w : w = conn
      OBVIOUS
    <3>2. w \in Attempt /\ Building(w, "tellConnected")
      BY <2>1, <3>1, WhatHolds DEF Settled, Tun
    <3>3. Building(w, "tellConnected")'
      BY <1>4, <3>2
    <3>4. QED
      BY <1>1, <3>1, <3>2, <3>3 DEF Building, Making, Made, Route, Opening
  <2>2. QED
    BY <1>1, <2>1 DEF Settled, Down, Nulls
<1>7. QED
  BY <1>1, <1>5, <1>6 DEF Whole, Busy

(* A thread in stopRunner goes on.                                         *)
LEMMA StopGoesOn ==
    ASSUME IInv, Errands, ServiceUp, NEW t \in Thread, Busy(t), NEW l \in Pc, NEW n,
           (Goto(t, l) /\ n = thread[t].k) \/ Count(t, l, n),
           l \notin Working \cup {"idle", "foreground"},
           \A r : r.pc = l /\ r.k = n /\ r.answer = thread[t].answer => Tearing(t, r)' /\ Closing(r)'
    PROVE  Whole'
<1>1. PICK r : thread' = [thread EXCEPT ![t] = r] /\ r.pc = l /\ r.k = n /\ r.answer = thread[t].answer
  <2>1. thread \in [Thread -> ThreadState] /\ t \in Thread
    BY WhatHolds
  <2>2. CASE Goto(t, l) /\ n = thread[t].k
    <3> DEFINE r == [thread[t] EXCEPT !.pc = l]
    <3>1. thread' = [thread EXCEPT ![t] = r]
      BY <2>1, <2>2 DEF Goto
    <3>2. r.pc = l /\ r.k = n /\ r.answer = thread[t].answer
      BY <2>1, <2>2 DEF ThreadState
    <3> HIDE DEF r
    <3>3. QED
      BY <3>1, <3>2
  <2>3. CASE Count(t, l, n)
    <3> DEFINE r == [thread[t] EXCEPT !.pc = l, !.k = n]
    <3>1. thread' = [thread EXCEPT ![t] = r]
      BY <2>1, <2>3 DEF Count
    <3>2. r.pc = l /\ r.k = n /\ r.answer = thread[t].answer
      BY <2>1 DEF ThreadState
    <3> HIDE DEF r
    <3>3. QED
      BY <3>1, <3>2
  <2>4. QED
    BY <2>2, <2>3
<1>2. Stage(t, r)'
  BY <1>1 DEF Stage
<1>3. QED
  BY <1>1, <1>2, WholeMoves

LEMMA AtStop ==
    ASSUME IInv, Errands, Whole, NEW t \in Thread,
           NEW l \in {"reset", "kill", "killStop", "killNull", "unforeground", "close", "closeFd",
                      "closeNull", "answer"},
           At(t, l)
    PROVE  /\ ServiceUp /\ Busy(t) /\ thread[t].pc = l /\ thread \in [Thread -> ThreadState]
           /\ RightIndex(thread[t]) /\ Tearing(t, thread[t]) /\ Closing(thread[t])
<1>1. ServiceUp /\ Busy(t) /\ thread[t].pc = l
  BY DEF At, ServiceUp, Busy
<1>2. QED
  BY <1>1, WhatHolds DEF Whole, Stage, Control, Indexed

(* killProcesses passes a null field, or stops on one that is not.         *)
LEMMA WholeKillMoves ==
    ASSUME IInv, Errands, Whole, NEW t \in Thread, Reset(t) \/ KillCheck(t) \/ KillNull(t)
    PROVE  Whole'
<1>1. {"reset", "kill", "killStop", "killNull"} \subseteq Pc \ (Working \cup {"idle", "foreground"})
  BY DEF Pc, Working
<1>2. CASE Reset(t)
  <2>1. At(t, "reset") /\ Count(t, "kill", 1) /\ UNCHANGED <<field, obj, conn, tun>>
    BY <1>2 DEF Reset
  <2>2. ServiceUp /\ Busy(t) /\ thread[t].pc = "reset" /\ Tearing(t, thread[t])
    BY <2>1, AtStop
  <2>3. \A r : r.pc = "kill" /\ r.k = 1 /\ r.answer = thread[t].answer => Tearing(t, r)' /\ Closing(r)'
    <3>1. ASSUME NEW r, r.pc = "kill", r.k = 1, r.answer = thread[t].answer
          PROVE  Tearing(t, r)' /\ Closing(r)'
      BY <2>1, <2>2, <3>1 DEF Tearing, Closing, OwnTun, Down, Nulls
    <3>2. QED
      BY <3>1
  <2>4. QED
    BY <1>1, <2>1, <2>2, <2>3, StopGoesOn
<1>3. CASE KillCheck(t)
  <2>1. /\ At(t, "kill") /\ thread[t].k <= 5 /\ UNCHANGED <<field, obj, conn, tun>>
        /\ \/ field[KillOrder[thread[t].k]] = 0 /\ Count(t, "kill", thread[t].k + 1)
           \/ field[KillOrder[thread[t].k]] # 0 /\ Goto(t, "killStop")
    <3>1. Len(KillOrder) = 5
      BY DEF KillOrder
    <3>2. QED
      BY <1>3, <3>1 DEF KillCheck, data
  <2>2. /\ ServiceUp /\ Busy(t) /\ thread[t].pc = "kill" /\ Tearing(t, thread[t]) /\ thread[t].k \in 1..6
    BY <2>1, AtStop DEF RightIndex
  <2>3. CASE field[KillOrder[thread[t].k]] = 0 /\ Count(t, "kill", thread[t].k + 1)
    <3>1. \A r : r.pc = "kill" /\ r.k = thread[t].k + 1 /\ r.answer = thread[t].answer
                   => Tearing(t, r)' /\ Closing(r)'
      <4>1. \A i \in 1..5 : i < thread[t].k + 1 => field[KillOrder[i]] = 0
        <5>1. \A i \in 1..5 : i < thread[t].k + 1 => i < thread[t].k \/ i = thread[t].k
          BY <2>2
        <5>2. QED
          BY <2>2, <2>3, <5>1 DEF Tearing
      <4>2. ASSUME NEW r, r.pc = "kill", r.k = thread[t].k + 1, r.answer = thread[t].answer
            PROVE  Tearing(t, r)' /\ Closing(r)'
        BY <2>1, <2>2, <4>1, <4>2 DEF Tearing, Closing, OwnTun, Down, Nulls
      <4>3. QED
        BY <4>2
    <3>2. QED
      BY <1>1, <2>2, <2>3, <3>1, StopGoesOn
  <2>4. CASE field[KillOrder[thread[t].k]] # 0 /\ Goto(t, "killStop")
    <3>1. \A r : r.pc = "killStop" /\ r.k = thread[t].k /\ r.answer = thread[t].answer
                   => Tearing(t, r)' /\ Closing(r)'
      <4>1. ASSUME NEW r, r.pc = "killStop", r.k = thread[t].k, r.answer = thread[t].answer
            PROVE  Tearing(t, r)' /\ Closing(r)'
        BY <2>1, <2>2, <2>4, <4>1 DEF Tearing, Closing, OwnTun, Down, Nulls
      <4>2. QED
        BY <4>1
    <3>2. QED
      BY <1>1, <2>2, <2>4, <3>1, StopGoesOn
  <2>5. QED
    BY <2>1, <2>3, <2>4
<1>4. CASE KillNull(t)
  <2> DEFINE f == KillOrder[thread[t].k]
  <2>1. /\ At(t, "killNull") /\ UNCHANGED <<obj, conn, tun>>
        /\ field' = [field EXCEPT ![f] = 0] /\ Count(t, "kill", thread[t].k + 1)
    BY <1>4 DEF KillNull
  <2>2. /\ ServiceUp /\ Busy(t) /\ thread[t].pc = "killNull" /\ Tearing(t, thread[t])
        /\ thread[t].k \in 1..5 /\ f \in Field
    BY <2>1, AtStop, KillOrderIs DEF RightIndex
  <2>3. field'[f] = 0 /\ \A g \in Field : g # f => field'[g] = field[g]
    BY <2>1, <2>2, WhatHolds DEF Objects
  <2>4. \A i \in 1..5 : i < thread[t].k + 1 => field'[KillOrder[i]] = 0
    <3>1. \A i \in 1..5 : i < thread[t].k + 1 => i < thread[t].k \/ i = thread[t].k
      BY <2>2
    <3>2. \A i \in 1..5 : i < thread[t].k => field[KillOrder[i]] = 0
      BY <2>2 DEF Tearing
    <3>3. QED
      BY <2>3, <3>1, <3>2, KillOrderIs
  <2>5. ASSUME NEW r, r.pc = "kill", r.k = thread[t].k + 1, r.answer = thread[t].answer
        PROVE  Tearing(t, r)' /\ Closing(r)'
    <3>1. OwnTun'
      BY <2>1, <2>2 DEF Tearing, OwnTun
    <3>2. t = Binder => \A g \in Field : field'[g] = 0 \/ obj'[g][field'[g]] = "running"
      BY <2>1, <2>2, <2>3 DEF Tearing
    <3>3. r.answer # "spawn"
      BY <2>2, <2>5 DEF Tearing, Down, Nulls
    <3>4. QED
      BY <2>4, <2>5, <3>1, <3>2, <3>3 DEF Tearing, Closing
  <2>6. QED
    BY <1>1, <2>1, <2>2, <2>5, StopGoesOn
<1>5. QED
  BY <1>2, <1>3, <1>4

(* It stops what it stands on.  On the binder thread that runs, so that    *)
(* nothing is thrown; a worker that throws takes the process down.         *)
LEMMA WholeKillStop ==
    ASSUME IInv, Errands, Whole, NEW t \in Thread, KillStop(t)
    PROVE  Whole'
<1> DEFINE f == KillOrder[thread[t].k]
           a == field[f]
<1>1. "killNull" \in Pc \ (Working \cup {"idle", "foreground"})
  BY DEF Pc, Working
<1>2. At(t, "killStop") /\ UNCHANGED <<field, conn, tun>>
  BY DEF KillStop
<1>3. /\ ServiceUp /\ Busy(t) /\ thread[t].pc = "killStop" /\ Tearing(t, thread[t])
      /\ thread[t].k \in 1..5 /\ f \in Field
  BY <1>2, AtStop, KillOrderIs DEF RightIndex
<1>4. /\ a # 0 /\ a \in Attempt /\ thread[t].answer # "spawn"
      /\ t = Binder => obj[f][a] = "running"
  <2>1. a # 0 /\ t = Binder => obj[f][a] = "running"
    BY <1>3 DEF Tearing
  <2>2. a # 0 /\ thread[t].answer # "spawn"
    BY <1>3 DEF Tearing, Down, Nulls
  <2>3. a \in Ref
    BY <1>3, WhatHolds DEF Objects
  <2>4. QED
    BY <2>1, <2>2, <2>3
<1>5. \/ \E why \in Crash \ {"no"} : t # Binder /\ Throw(t, why)
      \/ Goto(t, "killNull") /\ obj' = [obj EXCEPT ![f][a] = Stopped(obj[f][a])]
  <2>1. "noPool" \in Crash \ {"no"} /\ "running" \notin NotBegun
    BY DEF Crash, NotBegun
  <2>2. QED
    BY <1>4, <2>1 DEF KillStop
<1>6. CASE \E why \in Crash \ {"no"} : t # Binder /\ Throw(t, why)
  BY <1>6 DEF Throw, Whole, ServiceUp
<1>7. CASE Goto(t, "killNull") /\ obj' = [obj EXCEPT ![f][a] = Stopped(obj[f][a])]
  <2>1. \A g \in Field : g # f => obj'[g] = obj[g]
    BY <1>7, WhatHolds DEF Objects
  <2>2. ASSUME NEW r, r.pc = "killNull", r.k = thread[t].k, r.answer = thread[t].answer
        PROVE  Tearing(t, r)' /\ Closing(r)'
    <3>1. OwnTun'
      BY <1>2, <1>3 DEF Tearing, OwnTun
    <3>2. \A i \in 1..5 : i < r.k => field'[KillOrder[i]] = 0
      BY <1>2, <1>3, <2>2 DEF Tearing
    <3>3. t = Binder => \A g \in Field : field'[g] = 0 \/ obj'[g][field'[g]] = "running" \/ g = f
      BY <1>2, <1>3, <2>1 DEF Tearing
    <3>4. QED
      BY <1>2, <1>4, <2>2, <3>1, <3>2, <3>3 DEF Tearing, Closing
  <2>3. QED
    BY <1>1, <1>3, <1>7, <2>2, StopGoesOn
<1>8. QED
  BY <1>5, <1>6, <1>7

(* killProcesses is through: what it leaves is null, and its worker is     *)
(* made, or the tun is closed.                                             *)
LEMMA WholeKillDone ==
    ASSUME IInv, Errands, Whole, NEW t \in Thread, KillDone(t)
    PROVE  Whole'
<1>1. /\ At(t, "kill") /\ thread[t].k > 5 /\ UNCHANGED <<field, obj, conn, tun, connected, crashed>>
      /\ IF thread[t].answer = "spawn"
         THEN thread' = [thread EXCEPT ![t] = Idle, ![profile].pc = "resolve"]
         ELSE Goto(t, "unforeground")
  <2>1. Len(KillOrder) = 5
    BY DEF KillOrder
  <2>2. QED
    BY <2>1 DEF KillDone, data
<1>2. /\ ServiceUp /\ Busy(t) /\ thread[t].pc = "kill" /\ thread \in [Thread -> ThreadState]
      /\ Tearing(t, thread[t]) /\ thread[t].k \in 1..6
  BY <1>1, AtStop DEF RightIndex
<1>3. Nulls /\ OwnTun
  <2>1. \A i \in 1..5 : i < thread[t].k
    BY <1>1, <1>2
  <2>2. \A i \in 1..5 : field[KillOrder[i]] = 0
    BY <1>2, <2>1 DEF Tearing
  <2>3. QED
    BY <1>2, <2>2, KillOrderIs DEF Nulls, Tearing
<1>4. CASE thread[t].answer = "spawn"
  <2>1. t = Binder /\ profile \in Attempt /\ Down /\ OnlyOne
    <3>1. t = Binder
      BY <1>4, WhatHolds DEF Control, Spawning
    <3>2. QED
      BY <1>2, <1>4, <3>1, WhatHolds DEF Control, TypeOK, Profiled, Errands, Tearing
  <2>2. /\ thread'[t] = Idle /\ thread'[profile].pc = "resolve"
        /\ \A u \in Thread \ {t, profile} : thread'[u] = thread[u]
    BY <1>1, <1>2, <1>4, <2>1 DEF ThreadState
  <2>3. \A u \in Thread : Busy(u)' => u = profile
    BY <1>2, <2>1, <2>2 DEF OnlyOne, Busy, Idle
  <2>4. profile \in Thread
    BY <2>1
  <2>5. PICK w \in Attempt : w = profile
    BY <2>1
  <2>6. Building(w, "resolve")'
    BY <1>1, <2>1 DEF Building, Making, Route, Opening, OwnTun, Down, Nulls, Ahead
  <2>7. PICK l : l = "resolve" /\ l = thread'[w].pc
    BY <2>2, <2>5
  <2>8. Stage(w, thread[w])'
    <3>1. Building(w, l)'
      BY <2>6, <2>7
    <3>2. Building(w, thread[w].pc)'
      BY <2>6, <2>7 DEF Building, Making, Made, Route, Opening
    <3>3. QED
      BY <2>7, <3>2 DEF Stage, Tearing, Closing
  <2>9. /\ \A u \in Thread : Busy(u)' => Stage(u, thread[u])'
        /\ ~(\A u \in Thread : ~Busy(u)')
    <3>1. \A u \in Thread : Busy(u)' => u = w
      BY <2>3, <2>5
    <3>2. w \in Thread /\ Busy(w)'
      BY <1>2, <2>2, <2>5 DEF Busy
    <3>3. QED
      BY <2>8, <3>1, <3>2
  <2>10. QED
    BY <2>9 DEF Whole
<1>5. CASE thread[t].answer # "spawn"
  <2>1. "unforeground" \in Pc \ (Working \cup {"idle", "foreground"})
    BY DEF Pc, Working
  <2>2. ASSUME NEW r, r.pc = "unforeground", r.k = thread[t].k, r.answer = thread[t].answer
        PROVE  Tearing(t, r)' /\ Closing(r)'
    BY <1>1, <1>3, <2>2 DEF Tearing, Closing, Nulls, OwnTun
  <2>3. QED
    BY <1>1, <1>2, <1>5, <2>1, <2>2, StopGoesOn
<1>6. QED
  BY <1>4, <1>5

(* The rest of stopRunner, up to its answer.                               *)
LEMMA WholeCloses ==
    ASSUME IInv, Errands, Whole, NEW t \in Thread,
           StopForeground(t) \/ CloseCheck(t) \/ CloseFd(t) \/ CloseNull(t) \/ Answer(t)
    PROVE  Whole'
<1>1. /\ {"unforeground", "close", "closeFd", "closeNull", "answer"}
            \subseteq Pc \ (Working \cup {"idle", "foreground"})
      /\ "answer" \in Pc \ {"idle", "foreground"} /\ "answer" \notin {"reset", "tellConnected"}
  BY DEF Pc, Working
<1>2. CASE StopForeground(t)
  <2>1. At(t, "unforeground") /\ Goto(t, "close") /\ UNCHANGED <<field, conn, tun>>
    BY <1>2 DEF StopForeground
  <2>2. ServiceUp /\ Busy(t) /\ thread[t].pc = "unforeground" /\ Closing(thread[t])
    BY <2>1, AtStop
  <2>3. ASSUME NEW r, r.pc = "close"
        PROVE  Tearing(t, r)' /\ Closing(r)'
    BY <2>1, <2>2, <2>3 DEF Tearing, Closing, Nulls, OwnTun
  <2>4. QED
    BY <1>1, <2>1, <2>2, <2>3, StopGoesOn
<1>3. CASE CloseCheck(t)
  <2>1. /\ At(t, "close") /\ UNCHANGED <<field, conn, tun>>
        /\ (conn = 0 /\ Goto(t, "answer")) \/ (conn # 0 /\ Goto(t, "closeFd"))
    BY <1>3 DEF CloseCheck, data
  <2>2. ServiceUp /\ Busy(t) /\ thread[t].pc = "close" /\ Closing(thread[t])
    BY <2>1, AtStop
  <2>3. CASE conn = 0 /\ Goto(t, "answer")
    <3>1. ASSUME NEW r, r.pc = "answer"
          PROVE  Tearing(t, r)' /\ Closing(r)'
      BY <2>1, <2>2, <2>3, <3>1 DEF Tearing, Closing, Nulls, OwnTun
    <3>2. QED
      BY <1>1, <2>2, <2>3, <3>1, StopGoesOn
  <2>4. CASE conn # 0 /\ Goto(t, "closeFd")
    <3>1. ASSUME NEW r, r.pc = "closeFd"
          PROVE  Tearing(t, r)' /\ Closing(r)'
      BY <2>1, <2>2, <2>4, <3>1 DEF Tearing, Closing, Nulls, OwnTun
    <3>2. QED
      BY <1>1, <2>2, <2>4, <3>1, StopGoesOn
  <2>5. QED
    BY <2>1, <2>3, <2>4
<1>4. CASE CloseFd(t)
  <2>1. At(t, "closeFd") /\ UNCHANGED <<field, conn>> /\ tun' = tun \ {conn}
    BY <1>4 DEF CloseFd
  <2>2. /\ ServiceUp /\ Busy(t) /\ thread[t].pc = "closeFd" /\ Closing(thread[t])
        /\ conn # 0 /\ tun = {conn}
    BY <2>1, AtStop DEF Closing, OwnTun
  <2>3. Goto(t, "closeNull") /\ tun' = {}
    BY <1>4, <2>1, <2>2 DEF CloseFd
  <2>4. ASSUME NEW r, r.pc = "closeNull"
        PROVE  Tearing(t, r)' /\ Closing(r)'
    BY <2>1, <2>2, <2>3, <2>4 DEF Tearing, Closing, Nulls
  <2>5. QED
    BY <1>1, <2>2, <2>3, <2>4, StopGoesOn
<1>5. CASE CloseNull(t)
  <2>1. At(t, "closeNull") /\ Goto(t, "answer") /\ UNCHANGED <<field, tun>> /\ conn' = 0
    BY <1>5 DEF CloseNull
  <2>2. ServiceUp /\ Busy(t) /\ thread[t].pc = "closeNull" /\ Closing(thread[t])
    BY <2>1, AtStop
  <2>3. ASSUME NEW r, r.pc = "answer"
        PROVE  Tearing(t, r)' /\ Closing(r)'
    BY <2>1, <2>2, <2>3 DEF Tearing, Closing, Nulls, OwnTun
  <2>4. QED
    BY <1>1, <2>1, <2>2, <2>3, StopGoesOn
<1>6. CASE Answer(t)
  <2>1. At(t, "answer") /\ thread' = [thread EXCEPT ![t] = Idle] /\ UNCHANGED <<connected, field, conn, tun>>
    BY <1>6 DEF Answer, data
  <2>2. ServiceUp /\ Busy(t) /\ thread[t].pc = "answer" /\ Closing(thread[t])
    BY <2>1, AtStop
  <2>3. connected = FALSE
    BY <1>1, <2>1, AtWork
  <2>4. Settled'
    BY <2>1, <2>2, <2>3 DEF Settled, Closing, Down, Nulls, OwnTun
  <2>5. PICK r : thread' = [thread EXCEPT ![t] = r] /\ r.pc = "idle"
    <3>1. Idle.pc = "idle"
      BY DEF Idle
    <3>2. QED
      BY <2>1, <3>1
  <2>6. QED
    BY <2>1, <2>2, <2>4, <2>5, WholeMoves
<1>7. QED
  BY <1>2, <1>3, <1>4, <1>5, <1>6

(* The binder thread takes a call when nothing is under way.               *)
LEMMA WholeTaken ==
    ASSUME IInv, ServiceUp, \A t \in Thread : ~Busy(t), NEW r,
           thread' = [thread EXCEPT ![Binder] = r],
           r.pc \notin Working \cup {"idle", "foreground"}, Tearing(Binder, r)', Closing(r)'
    PROVE  Whole'
<1>1. /\ thread'[Binder] = r /\ Binder \in Thread
      /\ \A u \in Thread \ {Binder} : ~Busy(u)'
  BY WhatHolds DEF Busy
<1>2. Busy(Binder)'
  BY <1>1 DEF Busy
<1>3. Stage(Binder, r)'
  BY DEF Stage
<1>4. Stage(Binder, thread[Binder])'
  BY <1>1, <1>3 DEF Stage, Tearing, Closing
<1>5. QED
  BY <1>1, <1>2, <1>4 DEF Whole

LEMMA WholeServes ==
    ASSUME IInv, Errands, Whole, ServeRegister \/ ServeStart \/ ServeStop
    PROVE  Whole'
<1>1. CASE ServeRegister
  <2>1. UNCHANGED <<connected, field, obj, conn, tun, thread, crashed>>
    BY <1>1 DEF ServeRegister, data
  <2>2. QED
    BY <2>1, WholeAside DEF Busy
<1>2. ASSUME Serving({"start"}) \/ Serving({"stop", "revoke"})
      PROVE  /\ ServiceUp /\ Settled /\ \A t \in Thread : ~Busy(t)
             /\ Head(calls).op = "start" => connected = FALSE
  <2>1. calls \in Seq(Calls)
    BY WhatHolds DEF Control, TypeOK, Calls
  <2>2. ServiceUp /\ calls # <<>> /\ Head(calls).op \in {"start", "stop", "revoke"}
    BY <1>2 DEF Serving, At, ServiceUp
  <2>3. Head(calls) = calls[1] /\ 1 \in 1..Len(calls)
    BY <2>1, <2>2
  <2>4. Asked(1)
    BY <2>2, <2>3 DEF Asked
  <2>5. \A t \in Thread : ~Busy(t)
    BY <2>2, <2>3, <2>4 DEF Errands, OnlyOne
  <2>6. connected \in BOOLEAN
    BY WhatHolds DEF Aside
  <2>7. QED
    BY <2>2, <2>3, <2>5, <2>6 DEF Whole, Errands
<1>3. CASE ServeStart
  <2>1. Serving({"start"}) /\ UNCHANGED <<field, obj, conn, tun>> /\ Head(calls).op = "start"
    BY <1>3 DEF ServeStart, Serving
  <2>2. ServiceUp /\ Down /\ \A t \in Thread : ~Busy(t)
    BY <1>2, <2>1 DEF Settled
  <2>3. PICK r : /\ thread' = [thread EXCEPT ![Binder] = r]
                 /\ (r.pc = "kill" /\ r.k = 1) \/ r.pc = "answer"
    <3>1. \/ thread' = [thread EXCEPT ![Binder] = [pc |-> "kill", k |-> 1, answer |-> "spawn"]]
          \/ thread' = [thread EXCEPT ![Binder] = [pc |-> "answer", k |-> 0, answer |-> "FAILED"]]
      BY <1>3 DEF ServeStart, StopRunner
    <3>2. /\ [pc |-> "kill", k |-> 1, answer |-> "spawn"].pc = "kill"
          /\ [pc |-> "kill", k |-> 1, answer |-> "spawn"].k = 1
          /\ [pc |-> "answer", k |-> 0, answer |-> "FAILED"].pc = "answer"
      OBVIOUS
    <3>3. QED
      BY <3>1, <3>2, Zenon
  <2>4. Down'
    BY <2>1, <2>2 DEF Down, Nulls
  <2>5. Tearing(Binder, r)' /\ Closing(r)'
    BY <2>3, <2>4 DEF Tearing, Closing, Down, Nulls, OwnTun
  <2>6. r.pc \notin Working \cup {"idle", "foreground"}
    BY <2>3 DEF Working
  <2>7. QED
    BY <2>2, <2>3, <2>5, <2>6, WholeTaken
<1>4. CASE ServeStop
  <2>1. Serving({"stop", "revoke"}) /\ UNCHANGED <<field, obj, conn, tun>>
    BY <1>4 DEF ServeStop, data
  <2>2. ServiceUp /\ Settled /\ \A t \in Thread : ~Busy(t)
    BY <1>2, <2>1
  <2>3. PICK r : thread' = [thread EXCEPT ![Binder] = r] /\ r.pc = "reset" /\ r.answer = "DISCONNECTED"
    <3> DEFINE r == [pc |-> "reset", k |-> 0, answer |-> "DISCONNECTED"]
    <3>1. thread' = [thread EXCEPT ![Binder] = r] /\ r.pc = "reset" /\ r.answer = "DISCONNECTED"
      BY <1>4 DEF ServeStop, StopRunner
    <3> HIDE DEF r
    <3>2. QED
      BY <3>1
  <2>4. OwnTun /\ \A f \in Field : field[f] = 0 \/ obj[f][field[f]] = "running"
    BY <2>2 DEF Settled, Building, Making, Made, Starting, Opening, Down, Nulls, OwnTun
  <2>5. Tearing(Binder, r)' /\ Closing(r)'
    BY <2>1, <2>3, <2>4 DEF Tearing, Closing, OwnTun
  <2>6. r.pc \notin Working \cup {"idle", "foreground"}
    BY <2>3 DEF Working
  <2>7. QED
    BY <2>2, <2>3, <2>5, <2>6, WholeTaken
<1>5. QED
  BY <1>1, <1>3, <1>4

(* Every step of the service.                                              *)
LEMMA WholeServiceNext ==
    ASSUME IInv, OneInv, Errands, Whole, ServiceNext
    PROVE  Whole'
<1>1. ASSUME NEW t \in Thread, KillOrStop(t)
      PROVE  Whole'
  BY <1>1, WholeKillMoves, WholeKillStop, WholeKillDone, WholeCloses DEF KillOrStop
<1>2. ASSUME NEW w \in Attempt, StartForeground(w)
      PROVE  Whole'
  <2>1. /\ thread[w].pc = "foreground" /\ thread' = [thread EXCEPT ![w] = Idle]
        /\ UNCHANGED <<connected, field, obj, conn, tun, crashed>>
    BY <1>2 DEF StartForeground, At
  <2>2. Idle.pc = "idle" /\ thread \in [Thread -> ThreadState] /\ w \in Thread
    BY WhatHolds DEF Idle
  <2>3. \A t \in Thread : (Busy(t) <=> Busy(t)') /\ (Busy(t) => thread'[t] = thread[t])
    BY <2>1, <2>2 DEF Busy
  <2>4. QED
    BY <2>1, <2>3, WholeAside
<1>3. ASSUME NEW w \in Attempt, Work(w)
      PROVE  Whole'
  <2>1. CASE StartLocal(w) \/ StartUdp(w) \/ StartTunnel(w)
    BY <2>1, WholeGoesOn, WholeNewServer, WholeStartServer DEF StartLocal, StartUdp, StartTunnel
  <2>2. QED
    BY <1>2, <1>3, <2>1, WholeGoesOn, WholeProcess, WholeEstablish, WholeTold DEF Work
<1>4. \A w \in Attempt : w \in Thread
  OBVIOUS
<1>5. QED
  BY <1>1, <1>3, <1>4, WholeServes, WholeBegins DEF ServiceNext, ServeNext, WorkerNext

LEMMA NewProcessWhole ==
    ASSUME NewProcess
    PROVE  Whole
<1>1. /\ connected = FALSE /\ conn = 0 /\ tun = {}
      /\ \A f \in Field : field[f] = 0
      /\ \A t \in Thread : thread[t] = Idle
  BY DEF NewProcess
<1>2. \A t \in Thread : ~Busy(t)
  BY <1>1 DEF Busy, Idle
<1>3. QED
  BY <1>1, <1>2 DEF Whole, Settled, Down, Nulls

LEMMA WholeStep ==
    ASSUME IInv, UiTyped, Errands, OneInv, Whole, [UiNext]_allVars
    PROVE  Whole'
<1>1. CASE UNCHANGED vars \/ Posts \/ Takes
  <2>1. UNCHANGED <<connected, field, obj, conn, tun, thread, crashed>>
    BY <1>1 DEF vars, Posts, Takes, data
  <2>2. QED
    BY <2>1, WholeAside DEF Busy
<1>2. CASE OnServiceDisconnected
  <2>1. NewProcess' => Whole'
    BY NewProcessWhole, PTL
  <2>2. QED
    BY <1>2, <2>1, Disconnected
<1>3. CASE ServiceNext
  BY <1>3, WholeServiceNext
<1>4. QED
  BY <1>1, <1>2, <1>3, StepsOfTheService

LEMMA SerialWholeInvariance == UiSpec => [](Serial => OneInv /\ Whole)
<1>1. UiInit => Whole
  <2>1. <<>> \in Seq([to : Client, status : Status])
    OBVIOUS
  <2>2. UiInit => NewProcess
    BY <2>1 DEF UiInit, Init, NewProcess
  <2>3. QED
    BY <2>2, NewProcessWhole
<1>2. /\ UiInv /\ SerialInv /\ (Serial => OneInv) /\ (Serial => Whole) /\ [UiNext]_allVars
      => (Serial => Whole)'
  <2> SUFFICES ASSUME UiInv, SerialInv, Serial => OneInv, Serial => Whole, [UiNext]_allVars, Serial'
               PROVE  Whole'
    OBVIOUS
  <2>1. Serial
    BY WorldKept DEF Serial
  <2>2. QED
    BY <2>1, WholeStep DEF UiInv, SerialInv
<1>3. QED
  BY <1>1, <1>2, SerialInvariance, SerialOneInvariance, PTL DEF UiSpec

(* In a serial world the service that rests is connected as a whole or not *)
(* at all: its own tun and every part of its own start, or nothing.        *)
THEOREM ConnectedIsWhole == UiSpec => []WholeOrNothing
<1>1. UiInv /\ (Serial => OneInv /\ Whole) => WholeOrNothing
  <2> SUFFICES ASSUME UiInv, OneInv, Whole, AtRest, Serial
               PROVE  IF connected
                      THEN /\ tun = {conn}
                           /\ \A f \in Field, w \in Attempt : Running(f, w) <=> f \in Parts /\ w = conn
                      ELSE /\ tun = {}
                           /\ \A f \in Field, w \in Attempt : ~Running(f, w)
    BY DEF WholeOrNothing
  <2>1. Settled
    BY DEF AtRest, Active, Busy, Whole
  <2>2. \A f \in Field, w \in Attempt : Running(f, w) => field[f] = w /\ w # 0
    BY DEF OneInv, Components, Kept, Running, Live
  <2>3. CASE connected
    <3>1. conn \in Attempt /\ Making(conn, "tellConnected") /\ tun = {conn}
      BY <2>1, <2>3, WhatHolds DEF UiInv, Settled, Building, Opening, OwnTun, Tun
    <3>2. Parts = PartsOf(conn)
      BY DEF Parts
    <3>3. ASSUME NEW f \in Field, f \in Parts
          PROVE  field[f] = conn /\ Running(f, conn)
      BY <3>1, <3>2, <3>3 DEF Making, Made, Starting, Ahead, Running
    <3>4. ASSUME NEW f \in Field, f \notin Parts
          PROVE  field[f] = 0
      BY <3>1, <3>2, <3>4 DEF Making
    <3>5. QED
      BY <2>2, <2>3, <3>1, <3>3, <3>4
  <2>4. CASE ~connected
    BY <2>1, <2>2, <2>4 DEF Settled, Down, Nulls
  <2>5. QED
    BY <2>3, <2>4
<1>2. QED
  BY <1>1, UiInvariance, SerialWholeInvariance, PTL

-----------------------------------------------------------------------------
(* The one lifecycle of a serial world.  connProfile is the start last     *)
(* asked for as soon as that is served, so its VPN is the one being made.  *)
Latest ==
    /\ \A i : StartQueued(i) => calls[i].id = starts
    /\ (\E i : StartQueued(i)) \/ profile \in {0, starts}

LEMMA LatestPosts ==
    ASSUME IInv, UiTyped, SerialInv, Serial, Latest, [UiNext]_allVars, Posts
    PROVE  Latest'
<1>1. PICK op \in Op, c \in Client :
          Post(op, c) /\ UNCHANGED <<callback, data, thread, crashed>>
  BY DEF Posts
<1>2. calls \in Seq(Calls) /\ starts \in Nat /\ UNCHANGED profile
  BY <1>1, WhatHolds DEF Control, TypeOK, Calls, data, plan
<1> DEFINE call == [op |-> op, by |-> c, id |-> IF op = "start" THEN starts' ELSE 0]
<1>3. /\ calls' = Append(calls, call) /\ call.op = op /\ (op = "start" => call.id = starts')
      /\ starts' = IF op = "start" THEN starts + 1 ELSE starts
  BY <1>1 DEF Post
<1> HIDE DEF call
<1>4. /\ Len(calls') = Len(calls) + 1 /\ Len(calls) \in Nat
      /\ \A i \in 1..Len(calls) : calls'[i] = calls[i]
      /\ calls'[Len(calls) + 1] = call
  BY <1>2, <1>3
<1>5. \A i \in 1..Len(calls') : i \in 1..Len(calls) \/ i = Len(calls) + 1
  BY <1>4
<1>6. CASE op = "start"
  <2>1. starts' > starts
    BY <1>2, <1>3, <1>6
  <2>2. ~Errand
    BY <2>1, StartsAloneStep
  <2>3. \A i : StartQueued(i)' => i = Len(calls) + 1
    BY <1>4, <1>5, <2>2 DEF StartQueued, Errand, Asked
  <2>4. PICK n : n = Len(calls) + 1
    OBVIOUS
  <2>5. StartQueued(n)'
    BY <1>3, <1>4, <1>6, <2>4 DEF StartQueued
  <2>6. QED
    BY <1>3, <1>4, <1>6, <2>3, <2>4, <2>5 DEF Latest
<1>7. CASE op # "start"
  <2>1. \A i : StartQueued(i)' => StartQueued(i) /\ calls'[i] = calls[i]
    BY <1>3, <1>4, <1>5, <1>7 DEF StartQueued
  <2>2. \A i : StartQueued(i) => StartQueued(i)'
    BY <1>4 DEF StartQueued
  <2>3. QED
    BY <1>2, <1>3, <1>7, <2>1, <2>2 DEF Latest
<1>8. QED
  BY <1>6, <1>7

LEMMA LatestServes ==
    ASSUME IInv, OneInv, Latest, ServeRegister \/ ServeStart \/ ServeStop
    PROVE  Latest'
<1>1. /\ Control /\ calls # <<>> /\ calls' = Tail(calls) /\ UNCHANGED starts
      /\ Head(calls).op = "start" => ServeStart
      /\ Head(calls).op # "start" => UNCHANGED profile
  BY WhatHolds DEF ServeRegister, ServeStart, ServeStop, Serving, data, plan
<1>2. /\ Head(calls) = calls[1] /\ 1 \in 1..Len(calls)
      /\ \A i \in 1..Len(calls') : i \in Nat /\ i + 1 \in 1..Len(calls) /\ calls'[i] = calls[i + 1]
      /\ \A i \in 1..Len(calls') : i + 1 # 1
  BY <1>1, Served
<1>3. CASE Head(calls).op = "start"
  <2>1. StartQueued(1) /\ profile' = starts
    BY <1>1, <1>2, <1>3 DEF StartQueued, ServeStart, Latest
  <2>2. \A i : ~StartQueued(i)'
    BY <1>2, <2>1 DEF OneInv, Alone, StartQueued
  <2>3. QED
    BY <1>1, <2>1, <2>2 DEF Latest
<1>4. CASE Head(calls).op # "start"
  <2>1. \A i : StartQueued(i)' => StartQueued(i + 1) /\ calls'[i] = calls[i + 1]
    BY <1>2 DEF StartQueued
  <2>2. ASSUME NEW i, StartQueued(i)
        PROVE  \E j : StartQueued(j)'
    <3>1. calls \in Seq(Calls)
      BY <1>1 DEF Control, TypeOK, Calls
    <3>2. i \in 1..Len(calls) /\ i # 1
      BY <1>2, <1>4, <2>2 DEF StartQueued
    <3>3. PICK j : j = i - 1
      OBVIOUS
    <3>4. j \in 1..Len(calls') /\ calls'[j] = calls[i]
      BY <1>1, <3>1, <3>2, <3>3
    <3>5. StartQueued(j)'
      BY <2>2, <3>4 DEF StartQueued
    <3>6. QED
      BY <3>5
  <2>3. QED
    BY <1>1, <1>4, <2>1, <2>2 DEF Latest
<1>5. QED
  BY <1>3, <1>4

(* A thread under way touches neither the queue nor connProfile.           *)
LEMMA OnlyServed ==
    ASSUME ServiceNext, ~ServeRegister, ~ServeStart, ~ServeStop
    PROVE  UNCHANGED <<calls, profile, starts>>
<1>1. UNCHANGED starts
  BY NoStartElsewhere
<1>2. ASSUME NEW t \in Thread, KillOrStop(t)
      PROVE  UNCHANGED <<calls, profile>>
  BY <1>2 DEF KillOrStop, Reset, KillCheck, KillStop, KillNull, KillDone, StopForeground, CloseCheck,
              CloseFd, CloseNull, Answer, io, data, plan
<1>3. ASSUME NEW w \in Attempt, Work(w)
      PROVE  UNCHANGED <<calls, profile>>
  <2>1. CASE StartLocal(w) \/ StartUdp(w) \/ StartTunnel(w)
    BY <2>1 DEF StartLocal, StartUdp, StartTunnel, IfTunnel, NewServer, StartServer, io, data, plan
  <2>2. CASE StartDnsDaemon(w) \/ StartTun2socks(w)
    BY <2>2 DEF StartDnsDaemon, StartTun2socks, StartProcess, io, data, plan
  <2>3. QED
    BY <1>3, <2>1, <2>2 DEF Work, Resolve, StoreAddress, Establish, CheckConn, Sleep, SendFd,
                            SetConnected, TellConnected, StartForeground, io, data, plan
<1>4. CASE \E f \in Server, a \in Attempt : ServerBegins(f, a)
  BY <1>4 DEF ServerBegins, io, plan
<1>5. QED
  <2>1. Binder \in Thread /\ Attempt \subseteq Thread
    OBVIOUS
  <2>2. QED
    BY <1>1, <1>2, <1>3, <1>4, <2>1 DEF ServiceNext, ServeNext, WorkerNext

LEMMA LatestStep ==
    ASSUME IInv, UiTyped, SerialInv, Serial, OneInv, Latest, [UiNext]_allVars
    PROVE  Latest'
<1>1. ASSUME UNCHANGED <<calls, profile, starts>>
      PROVE  Latest'
  BY <1>1 DEF Latest, StartQueued
<1>2. CASE UNCHANGED vars \/ Takes
  BY <1>1, <1>2 DEF Takes, vars, io, data, plan
<1>3. CASE OnServiceDisconnected
  <2>1. calls' = <<>> /\ profile' = 0
    BY <1>3 DEF OnServiceDisconnected
  <2>2. QED
    BY <2>1 DEF Latest, StartQueued
<1>4. CASE ServiceNext
  BY <1>1, <1>4, LatestServes, OnlyServed
<1>5. QED
  BY <1>2, <1>3, <1>4, LatestPosts, StepsOfTheService

LEMMA LatestInvariance == UiSpec => [](Serial => Latest)
<1>1. UiInit => Latest
  BY DEF UiInit, Init, Latest, StartQueued
<1>2. /\ UiInv /\ SerialInv /\ (Serial => OneInv) /\ (Serial => Latest) /\ [UiNext]_allVars
      => (Serial => Latest)'
  <2> SUFFICES ASSUME UiInv, SerialInv, Serial => OneInv, Serial => Latest, [UiNext]_allVars, Serial'
               PROVE  Latest'
    OBVIOUS
  <2>1. Serial
    BY WorldKept DEF Serial
  <2>2. QED
    BY <2>1, LatestStep DEF UiInv
<1>3. QED
  BY <1>1, <1>2, SerialInvariance, SerialOneInvariance, PTL DEF UiSpec

(* The phase is that of the errand, and without one as connected has it.   *)
PhaseOf(r) ==
    IF Undoing(r) THEN "stopping" ELSE IF r.pc = "tellConnected" THEN "up" ELSE "starting"
PhaseFits ==
    /\ ~ServiceUp => Phase = "dead"
    /\ ServiceUp =>
          /\ \A t \in Thread : Busy(t) => Phase = PhaseOf(thread[t])
          /\ \A i : Asked(i) => Phase = IF calls[i].op = "start" THEN "starting" ELSE "stopping"
          /\ ~(\E t \in Thread : Busy(t)) /\ ~(\E i : Asked(i)) =>
                Phase = IF connected THEN "up" ELSE "down"

(* A worker's VPN is a part of what it is to be, and complete at the end.  *)
OnFits ==
    /\ ServiceUp => \A w \in Attempt : thread[w].pc \in Working =>
          On \subseteq Shape(w) /\ (thread[w].pc = "connected" => On = Shape(w))
    /\ Nulls /\ tun = {} => On = {}

Fits == PhaseFits /\ OnFits

LEMMA PhaseAlwaysFits ==
    ASSUME IInv, Errands, Whole
    PROVE  PhaseFits
<1>1. ~ServiceUp => Phase = "dead"
  BY DEF Phase
<1>2. /\ thread \in [Thread -> ThreadState]
      /\ Spawning /\ connected \in BOOLEAN
      /\ ServiceUp => OnlyOne
  BY WhatHolds DEF Control, Errands, Aside
<1>3. \A t \in Thread : Undoing(thread[t]) => Busy(t)
  BY DEF Undoing, Busy
<1>4. Spawns => Busy(Binder) /\ ~Undoing(thread[Binder])
  BY <1>2 DEF Spawning, Spawns, Busy, Undoing
<1>5. WorkerActive <=> \E w \in Attempt : Busy(w)
  BY DEF WorkerActive, Busy
<1>6. StartAsked <=> Spawns \/ \E i \in 1..Len(calls) : calls[i].op = "start"
  BY <1>4 DEF StartAsked, Active, Busy, Spawns
<1>7. ASSUME ServiceUp, NEW t \in Thread, Busy(t)
      PROVE  Phase = PhaseOf(thread[t])
  <2>1. /\ \A i \in 1..Len(calls) : calls[i].op \notin {"start", "stop", "revoke"}
        /\ \A u \in Thread : Undoing(thread[u]) => u = t
    BY <1>2, <1>3, <1>7 DEF OnlyOne, Asked
  <2>2. CASE Undoing(thread[t])
    BY <1>7, <2>2 DEF Phase, PhaseOf
  <2>3. CASE ~Undoing(thread[t])
    <3>1. ~\E u \in Thread : Undoing(thread[u])
      BY <2>1, <2>3
    <3>2. Stage(t, thread[t]) /\ InStep(thread[t], connected)
      BY <1>7 DEF Whole, Errands
    <3>3. StartAsked \/ WorkerActive
      <4>1. CASE t = Binder
        <5>1. thread[t].answer = "spawn"
          <6>1. thread[t].pc \in Pc \ ({"idle", "foreground"} \cup Working)
            BY <1>2, <1>7, <3>2, <4>1 DEF Stage, Busy, ThreadState
          <6>2. QED
            BY <2>3, <6>1 DEF Pc, Working, Undoing
        <5>2. QED
          BY <1>6, <4>1, <5>1 DEF Spawns
      <4>2. QED
        BY <1>5, <1>7, <4>1
    <3>4. thread[t].pc # "reset"
      BY <1>2, <2>3 DEF Undoing, Spawning
    <3>5. connected <=> thread[t].pc = "tellConnected"
      BY <1>7, <3>2, <3>4 DEF InStep, Busy
    <3>6. QED
      BY <1>7, <2>1, <2>3, <3>1, <3>3, <3>5 DEF Phase, PhaseOf
  <2>4. QED
    BY <2>2, <2>3
<1>8. ASSUME ServiceUp, NEW i, Asked(i)
      PROVE  Phase = IF calls[i].op = "start" THEN "starting" ELSE "stopping"
  <2>1. /\ \A t \in Thread : ~Busy(t) /\ ~Undoing(thread[t])
        /\ i \in 1..Len(calls) /\ \A j \in 1..Len(calls) : Asked(j) => j = i
    BY <1>2, <1>3, <1>8 DEF OnlyOne, Asked
  <2>2. CASE calls[i].op = "start"
    <3>1. ~connected /\ StartAsked
      BY <1>6, <1>8, <2>1, <2>2 DEF Errands
    <3>2. ~\E j \in 1..Len(calls) : calls[j].op \in {"stop", "revoke"}
      BY <2>1, <2>2 DEF Asked
    <3>3. QED
      BY <1>8, <2>1, <2>2, <3>1, <3>2 DEF Phase
  <2>3. CASE calls[i].op # "start"
    BY <1>8, <2>1, <2>3 DEF Phase, Asked
  <2>4. QED
    BY <2>2, <2>3
<1>9. ASSUME ServiceUp, ~\E t \in Thread : Busy(t), ~\E i : Asked(i)
      PROVE  Phase = IF connected THEN "up" ELSE "down"
  <2>1. \A i \in 1..Len(calls) : calls[i].op \notin {"start", "stop", "revoke"}
    BY <1>9 DEF Asked
  <2>2. ~StartAsked /\ ~WorkerActive
    BY <1>4, <1>5, <1>6, <1>9, <2>1
  <2>3. QED
    BY <1>3, <1>9, <2>1, <2>2 DEF Phase
<1>10. QED
  BY <1>1, <1>7, <1>8, <1>9 DEF PhaseFits

LEMMA OnAlwaysFits ==
    ASSUME IInv, OneInv, Whole
    PROVE  OnFits
<1>1. \A f \in Field, a \in Attempt : Running(f, a) => field[f] = a /\ field[f] # 0
  BY DEF OneInv, Components, Kept, Running, Live
<1>2. ASSUME ServiceUp, NEW w \in Attempt, NEW l \in Working, thread[w].pc = l
      PROVE  On \subseteq Shape(w) /\ (l = "connected" => On = Shape(w))
  <2>0. Building(w, l)
    <3>1. w \in Thread /\ Busy(w)
      BY <1>2 DEF Busy, Working
    <3>2. QED
      BY <1>2, <3>1 DEF Whole, Stage
  <2>1. \A f \in Field, a \in Attempt : Running(f, a) => f \in PartsOf(w)
    BY <1>1, <2>0 DEF Building, Making
  <2>2. On \subseteq Shape(w)
    BY <2>1 DEF On, Shape
  <2>3. ASSUME l = "connected"
        PROVE  Shape(w) \subseteq On
    <3>1. tun # {}
      BY <2>0, <2>3 DEF Building, Opening, OwnTun, Ahead
    <3>2. \A f \in PartsOf(w) : f \in Field
      BY PartsAre DEF Field, Server
    <3>3. \A f \in PartsOf(w) : Running(f, w)
      BY <2>0, <2>3, <3>2 DEF Building, Making, Made, Starting, Ahead, Running
    <3>4. QED
      BY <3>1, <3>2, <3>3 DEF On, Shape
  <2>4. QED
    BY <2>2, <2>3
<1>3. Nulls /\ tun = {} => On = {}
  BY <1>1 DEF Nulls, On
<1>4. QED
  BY <1>2, <1>3 DEF OnFits


LEMMA OnGrows ==
    ASSUME tun \subseteq tun', \A f \in Field, a \in Attempt : Running(f, a) => Running(f, a)'
    PROVE  On \subseteq On'
BY DEF On

LEMMA OnShrinks ==
    ASSUME tun' \subseteq tun, \A f \in Field, a \in Attempt : Running(f, a)' => Running(f, a)
    PROVE  On' \subseteq On
BY DEF On

LEMMA OnStays ==
    ASSUME UNCHANGED <<obj, tun>>
    PROVE  UNCHANGED On
BY DEF On, Running

(* What a step of the service is to the VPN.                               *)
Turn ==
    \/ UNCHANGED <<Phase, On>>
    \/ Phase = "starting" /\ Phase' = "starting" /\ On \subseteq On' /\ On' \subseteq Shape(starts)
    \/ Phase = "starting" /\ Phase' = "up" /\ On = Shape(starts) /\ On' = On
    \/ Phase \in {"starting", "up"} /\ Phase' = "stopping" /\ On' = On
    \/ Phase = "stopping" /\ Phase' = "stopping" /\ On' \subseteq On
    \/ Phase = "stopping" /\ Phase' = "down" /\ On = {} /\ On' = On
    \/ Phase \in {"starting", "stopping"} /\ Phase' = "dead" /\ On' \subseteq On

(* A thread after its step.                                                *)
LEMMA After ==
    ASSUME IInv, NEW t \in Thread, NEW l
    PROVE  /\ Goto(t, l) => thread'[t].pc = l /\ thread'[t].answer = thread[t].answer
           /\ \A n : Count(t, l, n) => thread'[t].pc = l /\ thread'[t].answer = thread[t].answer
           /\ \A status : StopRunner(t, l, status) => thread'[t].pc = l /\ thread'[t].answer = status
<1>1. thread \in [Thread -> ThreadState]
  BY WhatHolds
<1>2. QED
  BY <1>1 DEF Goto, Count, StopRunner, ThreadState

(* A worker on its way adds to the VPN, or gives up, or dies.              *)
LEMMA WorkerTurns ==
    ASSUME IInv, OneInv, Latest, Errands, Whole, Fits, Fits',
           NEW w \in Attempt, NEW l \in Working \ {"tellConnected"}, At(w, l),
           \/ /\ \E m \in Working \ {"tellConnected"} : Goto(w, m) \/ \E n \in Nat : Count(w, m, n)
              /\ UNCHANGED crashed /\ tun \subseteq tun'
              /\ \A f \in Field, a \in Attempt : Running(f, a) => Running(f, a)'
           \/ StopRunner(w, "reset", "FAILED") /\ UNCHANGED <<obj, tun, crashed>>
           \/ (\E why \in Crash \ {"no"} : Throw(w, why)) /\ UNCHANGED <<obj, tun>>
    PROVE  Turn
<1>1. ServiceUp /\ Busy(w) /\ w # 0 /\ profile = w /\ w \in Thread /\ thread[w].pc = l
  BY AtWorkOn DEF At
<1>2. w = starts
  BY <1>1 DEF OneInv, Alone, Latest, StartQueued
<1>3. \A r : r.pc \in Working \ {"tellConnected"} => PhaseOf(r) = "starting"
  BY DEF PhaseOf, Undoing, Working
<1>4. Phase = "starting"
  BY <1>1, <1>3 DEF Fits, PhaseFits
<1>5. CASE /\ \E m \in Working \ {"tellConnected"} : Goto(w, m) \/ \E n \in Nat : Count(w, m, n)
           /\ UNCHANGED crashed /\ tun \subseteq tun'
           /\ \A f \in Field, a \in Attempt : Running(f, a) => Running(f, a)'
  <2>1. thread'[w].pc \in Working \ {"tellConnected"}
    BY <1>1, <1>5, After
  <2>2. ServiceUp' /\ Busy(w)'
    BY <1>1, <1>5, <2>1 DEF ServiceUp, Busy, Working
  <2>3. PhaseOf(thread'[w]) = "starting"
    BY <1>3, <2>1
  <2>4. Phase' = "starting"
    <3>1. Phase' = PhaseOf(thread[w])'
      BY <1>1, <2>2 DEF Fits, PhaseFits
    <3>2. QED
      BY <2>3, <3>1 DEF PhaseOf, Undoing
  <2>5. On' \subseteq Shape(w)
    BY <2>1, <2>2 DEF Fits, OnFits, Shape, PartsOf
  <2>6. QED
    BY <1>2, <1>4, <1>5, <2>4, <2>5, OnGrows DEF Turn
<1>6. CASE StopRunner(w, "reset", "FAILED") /\ UNCHANGED <<obj, tun, crashed>>
  <2>1. thread'[w].pc = "reset" /\ thread'[w].answer = "FAILED"
    BY <1>1, <1>6, After
  <2>2. ServiceUp' /\ Busy(w)' /\ PhaseOf(thread[w])' = "stopping"
    BY <1>1, <1>6, <2>1 DEF ServiceUp, Busy, PhaseOf, Undoing
  <2>3. Phase' = "stopping"
    BY <1>1, <2>2 DEF Fits, PhaseFits
  <2>4. QED
    BY <1>4, <1>6, <2>3, OnStays DEF Turn
<1>7. CASE (\E why \in Crash \ {"no"} : Throw(w, why)) /\ UNCHANGED <<obj, tun>>
  <2>1. ~ServiceUp'
    BY <1>1, <1>7 DEF Throw, ServiceUp
  <2>2. Phase' = "dead"
    BY <2>1 DEF Fits, PhaseFits
  <2>3. QED
    BY <1>4, <1>7, <2>2, OnStays DEF Turn
<1>8. QED
  BY <1>5, <1>6, <1>7

(* A thread in stopRunner takes from the VPN, or the worker in it dies.    *)
LEMMA StopTurns ==
    ASSUME IInv, Errands, Whole, Fits, Fits', NEW t \in Thread, ServiceUp, Undoing(thread[t]),
           tun' \subseteq tun, \A f \in Field, a \in Attempt : Running(f, a)' => Running(f, a),
           \/ Undoing(thread'[t]) /\ UNCHANGED crashed
           \/ t # Binder /\ \E why \in Crash \ {"no"} : Throw(t, why)
    PROVE  Turn
<1>1. Busy(t)
  BY DEF Undoing, Busy
<1>2. Phase = "stopping"
  BY <1>1 DEF Fits, PhaseFits, PhaseOf
<1>3. CASE Undoing(thread'[t]) /\ UNCHANGED crashed
  <2>1. Busy(t)' /\ ServiceUp' /\ PhaseOf(thread[t])' = "stopping"
    BY <1>3 DEF Undoing, Busy, ServiceUp, PhaseOf
  <2>2. Phase' = "stopping"
    BY <2>1 DEF Fits, PhaseFits
  <2>3. QED
    BY <1>2, <2>2, OnShrinks DEF Turn
<1>4. CASE t # Binder /\ \E why \in Crash \ {"no"} : Throw(t, why)
  <2>1. ~ServiceUp'
    BY <1>4 DEF Throw, ServiceUp
  <2>2. Phase' = "dead"
    BY <2>1 DEF Fits, PhaseFits
  <2>3. QED
    BY <1>2, <2>2, OnShrinks DEF Turn
<1>5. QED
  BY <1>3, <1>4

(* Steps that leave every errand where it is.                              *)
Queued(op) == \E i \in 1..Len(calls) : calls[i].op = op

LEMMA PhaseStays ==
    ASSUME IInv, IInv', UNCHANGED <<connected, crashed>>,
           \A op \in {"start", "stop", "revoke"} : Queued(op)' <=> Queued(op),
           \A t \in Thread : Busy(t) <=> Busy(t)',
           \A t \in Thread : Busy(t) => thread'[t] = thread[t]
    PROVE  UNCHANGED Phase
<1>1. /\ Undoing(thread[Binder])' <=> Undoing(thread[Binder])
      /\ \A t \in Thread : Undoing(thread[t])' <=> Undoing(thread[t])
  BY DEF Undoing, Busy
<1>2. /\ Active(Binder) /\ thread[Binder].answer = "spawn" <=> Busy(Binder) /\ thread[Binder].answer = "spawn"
      /\ (Active(Binder) /\ thread[Binder].answer = "spawn")'
            <=> Busy(Binder)' /\ thread'[Binder].answer = "spawn"
  <2>1. Spawning /\ Spawning'
    BY DEF IInv, Control
  <2>2. QED
    BY <2>1 DEF Spawning, Active, Busy
<1>3. StartAsked' <=> StartAsked
  BY <1>2 DEF StartAsked, Queued
<1>4. WorkerActive' <=> WorkerActive
  BY DEF WorkerActive, Busy
<1>5. /\ (\E i \in 1..Len(calls) : calls[i].op \in {"stop", "revoke"}) <=> Queued("stop") \/ Queued("revoke")
      /\ (\E i \in 1..Len(calls') : calls'[i].op \in {"stop", "revoke"}) <=> Queued("stop")' \/ Queued("revoke")'
  BY DEF Queued
<1>6. QED
  BY <1>1, <1>3, <1>4, <1>5 DEF Phase, ServiceUp

LEMMA WorkTurns ==
    ASSUME IInv, IInv', OneInv, Latest, Errands, Whole, Fits, Fits', NEW w \in Attempt, Work(w)
    PROVE  Turn
<1>1. \A f \in Field, a \in Attempt : UNCHANGED obj => (Running(f, a) <=> Running(f, a)')
  BY DEF Running
<1>2. /\ w \in Thread /\ thread \in [Thread -> ThreadState] /\ Objects
      /\ profile \in Nat /\ thread[w].k + 1 \in Nat
  <2>1. thread \in [Thread -> ThreadState] /\ Objects /\ profile \in Ref /\ w \in Thread
    BY WhatHolds DEF Control, TypeOK
  <2>2. thread[w].k \in Nat
    BY <2>1 DEF ThreadState
  <2>3. QED
    BY <2>1, <2>2
<1>3. /\ Working \ {"tellConnected"} =
           {"resolve", "store", "newLocal", "startLocal", "newUdp", "startUdp", "ifTunnel",
            "newTunnel", "startTunnel", "startPdnsd", "establish", "checkConn", "tun2socks",
            "sleep", "sendFd", "connected"}
      /\ "tellConnected" \in Pc \ {"idle", "foreground"} /\ "tellConnected" \in Working
      /\ {"null", "restarted", "exec"} \subseteq Crash \ {"no"}
  BY DEF Working, Pc, Crash
<1>4. ASSUME NEW l \in Working \ {"tellConnected"}, At(w, l), UNCHANGED <<obj, tun>>,
             \/ /\ \E m \in Working \ {"tellConnected"} : Goto(w, m) \/ \E n \in Nat : Count(w, m, n)
                /\ UNCHANGED crashed
             \/ StopRunner(w, "reset", "FAILED") /\ UNCHANGED crashed
             \/ \E why \in Crash \ {"no"} : Throw(w, why)
      PROVE  Turn
  BY <1>1, <1>4, WorkerTurns
<1>5. CASE Resolve(w) \/ StoreAddress(w) \/ IfTunnel(w)
  <2>1. /\ At(w, "resolve") \/ At(w, "store") \/ At(w, "ifTunnel")
        /\ UNCHANGED <<obj, tun, crashed>>
        /\ \/ Goto(w, "newLocal") \/ Goto(w, "establish") \/ Goto(w, "newTunnel")
           \/ Count(w, "store", profile) \/ StopRunner(w, "reset", "FAILED")
    BY <1>5 DEF Resolve, StoreAddress, IfTunnel, data
  <2>2. QED
    BY <1>2, <1>3, <1>4, <2>1
<1>6. CASE CheckConn(w) \/ Sleep(w) \/ SendFd(w)
  <2>1. /\ At(w, "checkConn") \/ At(w, "sleep") \/ At(w, "sendFd")
        /\ UNCHANGED <<obj, tun, crashed>>
        /\ \/ Goto(w, "tun2socks") \/ Goto(w, "sendFd") \/ Goto(w, "connected")
           \/ Count(w, "sleep", thread[w].k + 1) \/ StopRunner(w, "reset", "FAILED")
    BY <1>6 DEF CheckConn, Sleep, SendFd, data
  <2>2. QED
    BY <1>2, <1>3, <1>4, <2>1
<1>7. ASSUME NEW l \in Working \ {"tellConnected"}, NEW f \in Field,
             NEW then \in Working \ {"tellConnected"}, NewServer(w, l, f, then), Ahead(f, l)
      PROVE  Turn
  <2>1. /\ At(w, l) /\ obj' = [obj EXCEPT ![f][w] = "new"] /\ Goto(w, then)
        /\ UNCHANGED <<tun, crashed>>
    BY <1>7 DEF NewServer
  <2>2. field[f] = 0
    BY <1>7, <2>1 DEF OneInv, Components, Unmade, At
  <2>3. ~Running(f, w)
    BY <2>2 DEF OneInv, Components, Kept, Running, Live
  <2>4. \A g \in Field, a \in Attempt : Running(g, a) => obj'[g][a] = obj[g][a]
    BY <1>2, <2>1, <2>3 DEF Objects
  <2>5. \A g \in Field, a \in Attempt : Running(g, a) => Running(g, a)'
    BY <2>4 DEF Running
  <2>6. QED
    BY <1>7, <2>1, <2>5, WorkerTurns
<1>8. ASSUME NEW l \in Working \ {"tellConnected"}, NEW f \in Field,
             NEW then \in Working \ {"tellConnected"}, StartServer(w, l, f, then)
      PROVE  Turn
  <2> DEFINE a == field[f]
  <2>1. At(w, l) /\ UNCHANGED tun
    BY <1>8 DEF StartServer
  <2>2. \/ (Throw(w, "null") \/ Throw(w, "restarted")) /\ UNCHANGED obj
        \/ /\ a # 0 /\ obj[f][a] \in {"new", "cancelled"}
           /\ obj' = [obj EXCEPT ![f][a] = IF @ = "new" THEN "started" ELSE "doomed"]
           /\ Goto(w, then) /\ UNCHANGED crashed
    BY <1>8 DEF StartServer
  <2>3. CASE (Throw(w, "null") \/ Throw(w, "restarted")) /\ UNCHANGED obj
    BY <1>3, <1>4, <2>1, <2>3
  <2>4. CASE /\ a # 0 /\ obj[f][a] \in {"new", "cancelled"}
             /\ obj' = [obj EXCEPT ![f][a] = IF @ = "new" THEN "started" ELSE "doomed"]
             /\ Goto(w, then) /\ UNCHANGED crashed
    <3>1. ~Running(f, a)
      BY <2>4 DEF Running
    <3>2. \A g \in Field, b \in Attempt : Running(g, b) => obj'[g][b] = obj[g][b]
      BY <1>2, <2>4, <3>1 DEF Objects
    <3>3. \A g \in Field, b \in Attempt : Running(g, b) => Running(g, b)'
      BY <3>2 DEF Running
    <3>4. QED
      BY <1>8, <2>1, <2>4, <3>3, WorkerTurns
  <2>5. QED
    BY <2>2, <2>3, <2>4
<1>9. ASSUME NEW l \in Working \ {"tellConnected"}, NEW f \in Field, At(w, l), UNCHANGED tun,
             \/ /\ obj' = [obj EXCEPT ![f][w] = "running"] /\ UNCHANGED crashed
                /\ \E m \in Working \ {"tellConnected"} : Goto(w, m) \/ \E n \in Nat : Count(w, m, n)
             \/ UNCHANGED obj /\ \E why \in Crash \ {"no"} : Throw(w, why)
      PROVE  Turn
  <2>1. CASE obj' = [obj EXCEPT ![f][w] = "running"]
    <3>1. \A g \in Field, a \in Attempt : obj'[g][a] = obj[g][a] \/ obj'[g][a] = "running"
      BY <1>2, <2>1 DEF Objects
    <3>2. \A g \in Field, a \in Attempt : Running(g, a) => Running(g, a)'
      BY <3>1 DEF Running
    <3>3. QED
      BY <1>4, <1>9, <3>2, WorkerTurns
  <2>2. QED
    BY <1>4, <1>9, <2>1
<1>10. {"local", "tunnel", "udprs", "pdnsd", "tun2socks"} \subseteq Field
  BY DEF Field, Server
<1>11. CASE StartLocal(w)
  <2>1. CASE NewServer(w, "newLocal", "local", "startLocal")
    BY <1>3, <1>7, <1>10, <2>1 DEF Ahead
  <2>2. CASE StartServer(w, "startLocal", "local", IF profile \in DnsForward THEN "newUdp" ELSE "ifTunnel")
    BY <1>3, <1>8, <1>10, <2>2
  <2>3. QED
    BY <1>11, <2>1, <2>2 DEF StartLocal
<1>12. CASE StartUdp(w)
  <2>1. CASE NewServer(w, "newUdp", "udprs", "startUdp")
    BY <1>3, <1>7, <1>10, <2>1 DEF Ahead
  <2>2. CASE StartServer(w, "startUdp", "udprs", "ifTunnel")
    BY <1>3, <1>8, <1>10, <2>2
  <2>3. QED
    BY <1>12, <2>1, <2>2 DEF StartUdp
<1>13. CASE StartTunnel(w)
  <2>1. CASE NewServer(w, "newTunnel", "tunnel", "startTunnel")
    BY <1>3, <1>7, <1>10, <2>1 DEF Ahead
  <2>2. CASE StartServer(w, "startTunnel", "tunnel", "startPdnsd")
    BY <1>3, <1>8, <1>10, <2>2
  <2>3. QED
    BY <1>5, <1>13, <2>1, <2>2 DEF StartTunnel
<1>14. CASE StartDnsDaemon(w)
  <2>1. /\ At(w, "startPdnsd") /\ UNCHANGED tun
        /\ \/ obj' = [obj EXCEPT !["pdnsd"][w] = "running"] /\ UNCHANGED crashed /\ Goto(w, "establish")
           \/ UNCHANGED obj /\ Throw(w, "exec")
    BY <1>14 DEF StartDnsDaemon, StartProcess
  <2>2. QED
    BY <1>3, <1>9, <1>10, <2>1
<1>15. CASE StartTun2socks(w)
  <2>1. /\ At(w, "tun2socks") /\ UNCHANGED tun
        /\ \/ obj' = [obj EXCEPT !["tun2socks"][w] = "running"] /\ UNCHANGED crashed /\ Count(w, "sleep", 1)
           \/ UNCHANGED obj /\ (Throw(w, "exec") \/ Throw(w, "null"))
    BY <1>15 DEF StartTun2socks, StartProcess, data
  <2>2. QED
    BY <1>3, <1>9, <1>10, <2>1
<1>16. CASE Establish(w)
  <2>1. At(w, "establish") /\ Goto(w, "checkConn") /\ tun \subseteq tun' /\ UNCHANGED <<obj, crashed>>
    BY <1>16 DEF Establish
  <2>2. QED
    BY <1>1, <1>3, <2>1, WorkerTurns
<1>17. CASE SetConnected(w)
  <2>1. At(w, "connected") /\ Goto(w, "tellConnected") /\ UNCHANGED <<obj, tun, crashed>>
    BY <1>17 DEF SetConnected
  <2>2. ServiceUp /\ Busy(w) /\ profile = w /\ w # 0 /\ thread[w].pc = "connected"
    BY <1>3, <2>1, AtWorkOn DEF At
  <2>3. w = starts
    BY <2>2 DEF OneInv, Alone, Latest, StartQueued
  <2>4. Phase = "starting" /\ On = Shape(w)
    BY <1>2, <1>3, <2>2 DEF Fits, PhaseFits, OnFits, PhaseOf, Undoing
  <2>5. thread'[w].pc = "tellConnected"
    BY <1>2, <2>1, After
  <2>6. ServiceUp' /\ Busy(w)' /\ PhaseOf(thread[w])' = "up"
    BY <2>1, <2>2, <2>5 DEF ServiceUp, Busy, PhaseOf, Undoing
  <2>7. Phase' = "up"
    BY <1>2, <2>6 DEF Fits, PhaseFits
  <2>8. QED
    BY <2>1, <2>3, <2>4, <2>7, OnStays DEF Turn
<1>18. CASE TellConnected(w)
  <2>1. /\ At(w, "tellConnected") /\ Goto(w, "foreground")
        /\ UNCHANGED <<calls, connected, obj, tun, crashed>>
    BY <1>18 DEF TellConnected, data
  <2>2. ServiceUp /\ Busy(w) /\ connected = TRUE /\ thread[w].pc = "tellConnected"
    BY <1>2, <1>3, <2>1, AtWork DEF At
  <2>3. Phase = "up"
    BY <1>2, <2>2 DEF Fits, PhaseFits, PhaseOf, Undoing
  <2>4. thread'[w].pc = "foreground" /\ \A t \in Thread \ {w} : thread'[t] = thread[t]
    BY <1>2, <2>1, After DEF Goto
  <2>5. \A t \in Thread : ~Busy(t)'
    BY <1>2, <2>2, <2>4 DEF Errands, OnlyOne, Busy
  <2>6. \A i : ~Asked(i)'
    BY <1>2, <2>1, <2>2 DEF Errands, OnlyOne, Asked
  <2>7. Phase' = "up"
    BY <2>1, <2>2, <2>5, <2>6 DEF Fits, PhaseFits, ServiceUp
  <2>8. QED
    BY <2>1, <2>3, <2>7, OnStays DEF Turn
<1>19. CASE StartForeground(w)
  <2>1. /\ thread[w].pc = "foreground" /\ thread' = [thread EXCEPT ![w] = Idle]
        /\ UNCHANGED <<calls, connected, obj, tun, crashed>>
    BY <1>19 DEF StartForeground, At, io
  <2>2. Idle.pc = "idle"
    BY DEF Idle
  <2>3. \A t \in Thread : (Busy(t) <=> Busy(t)') /\ (Busy(t) => thread'[t] = thread[t])
    BY <1>2, <2>1, <2>2 DEF Busy
  <2>4. \A op : Queued(op)' <=> Queued(op)
    BY <2>1 DEF Queued
  <2>5. UNCHANGED Phase
    BY <2>1, <2>3, <2>4, PhaseStays
  <2>6. QED
    BY <2>1, <2>5, OnStays DEF Turn
<1>20. QED
  BY <1>5, <1>6, <1>11, <1>12, <1>13, <1>14, <1>15, <1>16, <1>17, <1>18, <1>19 DEF Work, StartTunnel

(* killProcesses on the way to a worker finds nothing to stop.             *)
LEMMA SpawnTurns ==
    ASSUME IInv, Errands, Whole, Fits, Fits', NEW t \in Thread, KillOrStop(t), thread[t].answer = "spawn"
    PROVE  Turn
<1>1. /\ t = Binder /\ thread[t].pc \in {"kill", "killStop", "killNull"}
      /\ thread \in [Thread -> ThreadState] /\ profile \in Attempt
      /\ RightIndex(thread[t])
  <2>1. /\ Spawning /\ Profiled /\ Indexed /\ thread \in [Thread -> ThreadState]
        /\ profile \in Ref
    BY WhatHolds DEF Control, TypeOK
  <2>2. t = Binder
    BY <2>1 DEF Spawning
  <2>3. QED
    BY <2>1, <2>2 DEF Spawning, Profiled, Indexed
<1>2. crashed = "no"
  BY DEF KillOrStop, Reset, KillCheck, KillStop, KillNull, KillDone, StopForeground, CloseCheck, CloseFd,
         CloseNull, Answer, At
<1>3. ServiceUp /\ Busy(t)
  BY <1>1, <1>2 DEF ServiceUp, Busy
<1>4. Tearing(t, thread[t]) /\ Nulls
  BY <1>1, <1>3 DEF Whole, Stage, Tearing, Down
<1>5. thread[t].pc = "kill"
  <2>1. \A i \in 1..5 : field[KillOrder[i]] = 0
    BY <1>4, KillOrderIs DEF Nulls
  <2>2. QED
    BY <1>1, <1>4, <2>1 DEF Tearing, RightIndex
<1>6. Phase = "starting"
  BY <1>1, <1>3, <1>5 DEF Fits, PhaseFits, PhaseOf, Undoing
<1>7. KillCheck(t) \/ KillDone(t)
  BY <1>5 DEF KillOrStop, Reset, KillStop, KillNull, StopForeground, CloseCheck, CloseFd, CloseNull, Answer, At
<1>8. UNCHANGED <<obj, tun, crashed>>
  BY <1>7 DEF KillCheck, KillDone, data
<1>9. \E u \in Thread : Busy(u)' /\ PhaseOf(thread[u])' = "starting"
  <2>1. CASE KillCheck(t)
    <3>1. /\ thread'[t].pc \in {"kill", "killStop"} /\ thread'[t].answer = "spawn"
      BY <1>1, <2>1, After DEF KillCheck
    <3>2. QED
      BY <3>1 DEF Busy, PhaseOf, Undoing
  <2>2. CASE KillDone(t)
    <3>1. thread' = [thread EXCEPT ![t] = Idle, ![profile].pc = "resolve"]
      BY <2>2 DEF KillDone
    <3>2. PICK w \in Attempt : w = profile
      BY <1>1
    <3>3. thread'[w].pc = "resolve" /\ w \in Thread
      BY <1>1, <3>1, <3>2 DEF ThreadState
    <3>4. Busy(w)' /\ PhaseOf(thread[w])' = "starting"
      BY <3>3 DEF Busy, PhaseOf, Undoing
    <3>5. QED
      BY <3>3, <3>4
  <2>3. QED
    BY <1>7, <2>1, <2>2
<1>10. Phase' = "starting"
  BY <1>2, <1>8, <1>9 DEF Fits, PhaseFits, ServiceUp
<1>11. QED
  BY <1>6, <1>8, <1>10, OnStays DEF Turn

(* What stopRunner stops is there, and the binder thread never throws.     *)
LEMMA KillStopIs ==
    ASSUME IInv, Errands, Whole, NEW t \in Thread, KillStop(t)
    PROVE  /\ UNCHANGED tun /\ \A f \in Field, a \in Attempt : Running(f, a)' => Running(f, a)
           /\ \/ t # Binder /\ \E why \in Crash \ {"no"} : Throw(t, why)
              \/ Goto(t, "killNull") /\ UNCHANGED crashed
<1> DEFINE f == KillOrder[thread[t].k]
           a == field[f]
<1>1. At(t, "killStop")
  BY DEF KillStop
<1>2. Tearing(t, thread[t]) /\ thread[t].k \in 1..5 /\ thread[t].pc = "killStop" /\ Objects
  BY <1>1, AtStop, WhatHolds DEF RightIndex
<1>3. f \in Field /\ a \in Attempt /\ (t = Binder => obj[f][a] = "running")
  <2>1. f \in Field
    BY <1>2, KillOrderIs
  <2>2. a \in Ref /\ a # 0
    BY <1>2, <2>1 DEF Tearing, Objects
  <2>3. QED
    BY <1>2, <2>1, <2>2 DEF Tearing
<1>4. /\ obj' = [obj EXCEPT ![f][a] = Stopped(obj[f][a])] /\ UNCHANGED tun
      /\ \/ Throw(t, "noPool") /\ obj[f][a] \in NotBegun
         \/ Goto(t, "killNull") /\ UNCHANGED crashed
  BY <1>3 DEF KillStop
<1>5. Stopped(obj[f][a]) \in {"started", "running"} => FALSE
  <2>1. obj[f][a] \in ObjState
    BY <1>2, <1>3 DEF Objects
  <2>2. QED
    BY <2>1 DEF Stopped, ObjState
<1>6. \A g \in Field, b \in Attempt : Running(g, b)' => Running(g, b)
  <2>1. \A g \in Field, b \in Attempt : obj'[g][b] = obj[g][b] \/ obj'[g][b] = Stopped(obj[f][a])
    BY <1>2, <1>3, <1>4 DEF Objects
  <2>2. QED
    BY <1>5, <2>1 DEF Running
<1>7. "noPool" \in Crash \ {"no"} /\ "running" \notin NotBegun
  BY DEF Crash, NotBegun
<1>8. QED
  BY <1>3, <1>4, <1>6, <1>7

LEMMA KillOrStopTurns ==
    ASSUME IInv, Errands, Whole, Fits, Fits', NEW t \in Thread, KillOrStop(t), thread[t].answer # "spawn"
    PROVE  Turn
<1>1. \A f \in Field, a \in Attempt : UNCHANGED obj => (Running(f, a) <=> Running(f, a)')
  BY DEF Running
<1>2. ASSUME NEW l, NEW m, At(t, l), Goto(t, m) \/ \E n : Count(t, m, n),
             {l, m} \subseteq {"reset", "kill", "killStop", "killNull", "unforeground", "close", "closeFd",
                               "closeNull", "answer"}
      PROVE  ServiceUp /\ Undoing(thread[t]) /\ Undoing(thread'[t])
  <2>1. thread[t].pc = l /\ ServiceUp
    BY <1>2 DEF At, ServiceUp
  <2>2. thread'[t].pc = m /\ thread'[t].answer # "spawn"
    <3>1. CASE Goto(t, m)
      BY <3>1, After
    <3>2. CASE \E n : Count(t, m, n)
      BY <3>2, After
    <3>3. QED
      BY <1>2, <3>1, <3>2
  <2>3. QED
    BY <1>2, <2>1, <2>2 DEF Undoing
<1>3. CASE Reset(t) \/ KillNull(t) \/ CloseNull(t) \/ StopForeground(t)
  <2>1. /\ UNCHANGED <<obj, tun, crashed>>
        /\ \/ At(t, "reset") /\ Count(t, "kill", 1)
           \/ At(t, "killNull") /\ Count(t, "kill", thread[t].k + 1)
           \/ At(t, "closeNull") /\ Goto(t, "answer")
           \/ At(t, "unforeground") /\ Goto(t, "close")
    BY <1>3 DEF Reset, KillNull, CloseNull, StopForeground
  <2>2. ServiceUp /\ Undoing(thread[t]) /\ Undoing(thread'[t])
    BY <1>2, <2>1
  <2>3. QED
    BY <1>1, <2>1, <2>2, StopTurns
<1>4. CASE KillCheck(t) \/ KillDone(t) \/ CloseCheck(t)
  <2>1. /\ UNCHANGED <<obj, tun, crashed>>
        /\ \/ At(t, "kill") /\ (Count(t, "kill", thread[t].k + 1) \/ Goto(t, "killStop") \/ Goto(t, "unforeground"))
           \/ At(t, "close") /\ (Goto(t, "answer") \/ Goto(t, "closeFd"))
    BY <1>4 DEF KillCheck, KillDone, CloseCheck, data
  <2>2. ServiceUp /\ Undoing(thread[t]) /\ Undoing(thread'[t])
    BY <1>2, <2>1
  <2>3. QED
    BY <1>1, <2>1, <2>2, StopTurns
<1>5. CASE KillStop(t)
  <2>1. At(t, "killStop")
    BY <1>5 DEF KillStop
  <2>2. ServiceUp /\ Undoing(thread[t])
    BY <2>1 DEF At, ServiceUp, Undoing
  <2>3. Goto(t, "killNull") => Undoing(thread'[t])
    BY <1>2, <2>1
  <2>4. QED
    BY <1>5, <2>2, <2>3, KillStopIs, StopTurns
<1>6. CASE CloseFd(t)
  <2>1. At(t, "closeFd")
    BY <1>6 DEF CloseFd
  <2>2. conn # 0
    BY <2>1, AtStop DEF Closing
  <2>3. Goto(t, "closeNull") /\ UNCHANGED <<crashed, obj>> /\ tun' \subseteq tun
    BY <1>6, <2>2 DEF CloseFd
  <2>4. ServiceUp /\ Undoing(thread[t]) /\ Undoing(thread'[t])
    BY <1>2, <2>1, <2>3
  <2>5. QED
    BY <1>1, <2>3, <2>4, StopTurns
<1>7. CASE Answer(t)
  <2>1. /\ At(t, "answer") /\ thread' = [thread EXCEPT ![t] = Idle]
        /\ UNCHANGED <<calls, connected, obj, tun, crashed>>
    BY <1>7 DEF Answer, data
  <2>2. "answer" \in Pc \ {"idle", "foreground"} /\ Idle.pc = "idle"
    BY DEF Pc, Idle
  <2>3. /\ ServiceUp /\ Busy(t) /\ thread[t].pc = "answer" /\ connected = FALSE /\ Closing(thread[t])
        /\ thread \in [Thread -> ThreadState]
    BY <2>1, <2>2, AtWork, AtStop
  <2>4. Phase = "stopping"
    BY <2>3 DEF Fits, PhaseFits, PhaseOf, Undoing
  <2>5. On = {}
    BY <2>3 DEF Closing, OwnTun, Fits, OnFits
  <2>6. \A u \in Thread : ~Busy(u)'
    BY <2>1, <2>2, <2>3 DEF Errands, OnlyOne, Busy
  <2>7. \A i : ~Asked(i)'
    BY <2>1, <2>3 DEF Errands, OnlyOne, Asked
  <2>8. Phase' = "down"
    BY <2>1, <2>3, <2>6, <2>7 DEF Fits, PhaseFits, ServiceUp
  <2>9. QED
    BY <2>1, <2>4, <2>5, <2>8, OnStays DEF Turn
<1>8. QED
  BY <1>3, <1>4, <1>5, <1>6, <1>7 DEF KillOrStop

(* The binder thread takes a call.                                         *)
LEMMA ServeTurns ==
    ASSUME IInv, IInv', Errands, Whole, Fits, Fits', ServeRegister \/ ServeStart \/ ServeStop
    PROVE  Turn
<1>1. /\ Control /\ calls # <<>> /\ calls' = Tail(calls) /\ calls \in Seq(Calls)
      /\ UNCHANGED <<connected, obj, tun, crashed>>
      /\ ServiceUp /\ ServiceUp' /\ thread \in [Thread -> ThreadState] /\ Binder \in Thread
  <2>1. Control /\ calls \in Seq(Calls) /\ thread \in [Thread -> ThreadState]
    BY WhatHolds DEF Control, TypeOK, Calls
  <2>2. /\ calls # <<>> /\ calls' = Tail(calls) /\ crashed = "no"
        /\ UNCHANGED <<connected, obj, tun, crashed>>
    BY DEF ServeRegister, ServeStart, ServeStop, Serving, At, data
  <2>3. QED
    BY <2>1, <2>2 DEF ServiceUp
<1>2. /\ Head(calls) = calls[1] /\ 1 \in 1..Len(calls)
      /\ \A i \in 1..Len(calls') : i \in Nat /\ i + 1 \in 1..Len(calls) /\ calls'[i] = calls[i + 1]
  BY <1>1, Served
<1>3. CASE ServeRegister
  <2>1. UNCHANGED thread /\ Head(calls).op \in {"register", "unregister"}
    BY <1>3 DEF ServeRegister, Serving
  <2>2. ASSUME NEW op \in {"start", "stop", "revoke"}
        PROVE  Queued(op)' <=> Queued(op)
    <3>1. Queued(op)' => Queued(op)
      BY <1>2 DEF Queued
    <3>2. ASSUME Queued(op)
          PROVE  Queued(op)'
      <4>1. PICK i \in 1..Len(calls) : calls[i].op = op
        BY <3>2 DEF Queued
      <4>2. i # 1
        BY <1>2, <2>1, <4>1
      <4>3. i - 1 \in 1..Len(calls') /\ calls'[i - 1] = calls[i]
        BY <1>1, <4>2
      <4>4. QED
        BY <4>1, <4>3 DEF Queued
    <3>3. QED
      BY <3>1, <3>2
  <2>3. \A t \in Thread : (Busy(t) <=> Busy(t)') /\ thread'[t] = thread[t]
    BY <2>1 DEF Busy
  <2>4. UNCHANGED Phase
    BY <1>1, <2>2, <2>3, PhaseStays
  <2>5. QED
    BY <1>1, <2>4, OnStays DEF Turn
<1>4. CASE ServeStart
  <2>1. Asked(1) /\ calls[1].op = "start"
    BY <1>2, <1>4 DEF ServeStart, Serving, Asked
  <2>2. Phase = "starting"
    BY <1>1, <2>1 DEF Fits, PhaseFits
  <2>3. \/ thread'[Binder].pc = "kill" /\ thread'[Binder].answer = "spawn"
        \/ thread'[Binder].pc = "answer" /\ thread'[Binder].answer = "FAILED"
    BY <1>1, <1>4 DEF ServeStart, StopRunner
  <2>4. Busy(Binder)' /\ PhaseOf(thread[Binder])' \in {"starting", "stopping"}
    BY <2>3 DEF Busy, PhaseOf, Undoing
  <2>5. Phase' \in {"starting", "stopping"}
    BY <1>1, <2>4 DEF Fits, PhaseFits
  <2>6. QED
    BY <1>1, <2>2, <2>5, OnStays DEF Turn
<1>5. CASE ServeStop
  <2>1. Asked(1) /\ calls[1].op # "start"
    BY <1>2, <1>5 DEF ServeStop, Serving, Asked
  <2>2. Phase = "stopping"
    BY <1>1, <2>1 DEF Fits, PhaseFits
  <2>3. thread'[Binder].pc = "reset" /\ thread'[Binder].answer = "DISCONNECTED"
    BY <1>1, <1>5 DEF ServeStop, StopRunner
  <2>4. Busy(Binder)' /\ PhaseOf(thread[Binder])' = "stopping"
    BY <2>3 DEF Busy, PhaseOf, Undoing
  <2>5. Phase' = "stopping"
    BY <1>1, <2>4 DEF Fits, PhaseFits
  <2>6. QED
    BY <1>1, <2>2, <2>5, OnStays DEF Turn
<1>6. QED
  BY <1>3, <1>4, <1>5

LEMMA ServiceTurns ==
    ASSUME IInv, IInv', OneInv, Latest, Errands, Whole, Fits, Fits', ServiceNext
    PROVE  Turn
<1>1. ASSUME NEW t \in Thread, KillOrStop(t)
      PROVE  Turn
  BY <1>1, SpawnTurns, KillOrStopTurns
<1>2. ASSUME NEW f \in Server, NEW a \in Attempt, ServerBegins(f, a)
      PROVE  Turn
  <2>1. /\ UNCHANGED <<calls, connected, tun, thread, crashed>>
        /\ obj[f][a] \in {"started", "doomed"}
        /\ obj' = [obj EXCEPT ![f][a] = IF @ = "started" THEN "running" ELSE "stopped"]
        /\ f \in Field /\ Objects
    BY <1>2, WhatHolds DEF ServerBegins, io, Field
  <2>2. \A g \in Field, b \in Attempt :
           \/ obj'[g][b] = obj[g][b]
           \/ obj[g][b] = "started" /\ obj'[g][b] = "running"
           \/ obj[g][b] = "doomed" /\ obj'[g][b] = "stopped"
    BY <2>1 DEF Objects
  <2>3. \A g \in Field, b \in Attempt : Running(g, b)' <=> Running(g, b)
    BY <2>2 DEF Running
  <2>4. UNCHANGED On
    BY <2>1, <2>3, OnGrows, OnShrinks
  <2>5. UNCHANGED Phase
    BY <2>1, PhaseStays DEF Queued, Busy
  <2>6. QED
    BY <2>4, <2>5 DEF Turn
<1>3. Binder \in Thread /\ Attempt \subseteq Thread
  OBVIOUS
<1>4. QED
  BY <1>1, <1>2, <1>3, ServeTurns, WorkTurns DEF ServiceNext, ServeNext, WorkerNext

(* What the instance on the screen asks for, and when.                     *)
LEMMA SerialAsks ==
    ASSUME UiTyped, SerialInv, Serial, NEW a \in Client, ActivityNext(a)
    PROVE  \/ UNCHANGED <<calls, connected, obj, tun, starts, thread, crashed>>
           \/ ServiceUp /\ \E op \in {"register", "unregister"} : Ask(op, a)
           \/ ServiceUp /\ ~Errand /\ connected /\ Ask("stop", a)
           \/ ServiceUp /\ ~Errand /\ ~connected /\ Ask("start", a)
<1>1. Screen
  BY DEF SerialInv
<1>2. UNCHANGED vars => UNCHANGED <<calls, connected, obj, tun, starts, thread, crashed>>
  BY DEF vars, io, data
<1>3. ASSUME AskStart(a)
      PROVE  UNCHANGED vars \/ (ServiceUp /\ Ask("start", a))
  BY <1>3 DEF AskStart
<1>4. CASE OnCreate(a) \/ Finish(a) \/ OnDestroy(a) \/ OnServiceConnected(a) \/ OnClickFails(a)
  BY <1>2, <1>4 DEF OnCreate, Finish, OnDestroy, OnServiceConnected, OnClickFails
<1>5. CASE OnClickStop(a)
  BY <1>1, <1>5, UserFree DEF OnClickStop
<1>6. CASE OnClickStart(a)
  <2>1. Clickable(a) /\ ServiceUp /\ ~connected /\ (AskStart(a) \/ UNCHANGED vars)
    BY <1>6 DEF OnClickStart
  <2>2. ~Errand
    BY <1>1, <2>1, UserFree
  <2>3. QED
    BY <1>2, <1>3, <2>1, <2>2
<1>7. CASE OnActivityResult(a)
  <2>1. act[a].consent /\ (AskStart(a) \/ UNCHANGED vars)
    BY <1>7 DEF OnActivityResult
  <2>2. (ServiceUp => ~Errand) /\ (ServiceUp => ~connected)
    BY <1>1, <2>1, UserFree DEF Screen, Consents
  <2>3. QED
    BY <1>2, <1>3, <2>1, <2>2
<1>8. CASE UiDies(a)
  <2>1. UNCHANGED <<calls, callback, data, starts, thread, crashed>>
    BY <1>8 DEF UiDies
  <2>2. QED
    BY <2>1 DEF data
<1>9. ~OnCreateSaved(a)
  BY DEF Serial, OnCreateSaved
<1>10. QED
  BY <1>4, <1>5, <1>6, <1>7, <1>8, <1>9 DEF ActivityNext

(* A call put into the queue is its last.                                  *)
LEMMA AskedLast ==
    ASSUME IInv, NEW op, NEW a \in Client, Ask(op, a)
    PROVE  /\ UNCHANGED <<connected, obj, tun, thread, crashed>>
           /\ \A o : Queued(o)' <=> Queued(o) \/ o = op
           /\ \E n \in 1..Len(calls') : calls'[n].op = op
           /\ op # "start" => UNCHANGED starts
<1> DEFINE call == [op |-> op, by |-> a, id |-> IF op = "start" THEN starts' ELSE 0]
<1>1. /\ calls' = Append(calls, call) /\ call.op = op /\ (op # "start" => UNCHANGED starts)
      /\ UNCHANGED <<connected, obj, tun, thread, crashed>>
  BY DEF Ask, Post, data
<1>2. calls \in Seq(Calls)
  BY WhatHolds DEF Control, TypeOK, Calls
<1> HIDE DEF call
<1>3. /\ Len(calls') = Len(calls) + 1 /\ Len(calls) \in Nat
      /\ \A i \in 1..Len(calls) : calls'[i] = calls[i]
      /\ calls'[Len(calls) + 1] = call
  BY <1>1, <1>2
<1>4. \A i \in 1..Len(calls') : i \in 1..Len(calls) \/ i = Len(calls) + 1
  BY <1>3
<1>5. \A o : Queued(o)' <=> Queued(o) \/ o = op
  BY <1>1, <1>3, <1>4 DEF Queued
<1>6. Len(calls) + 1 \in 1..Len(calls')
  BY <1>3
<1>7. QED
  BY <1>1, <1>3, <1>5, <1>6

(* Nothing is left of the VPN when the service's process has gone.         *)
LEMMA NewProcessRests ==
    ASSUME NewProcess
    PROVE  ServiceUp /\ Phase = "down" /\ On = {}
<1>1. /\ calls = <<>> /\ connected = FALSE /\ tun = {} /\ crashed = "no"
      /\ \A t \in Thread : thread[t] = Idle
      /\ \A f \in Field, a \in Attempt : obj[f][a] = "none"
  BY DEF NewProcess
<1>2. Idle.pc = "idle"
  BY DEF Idle
<1>3. ~WorkerActive /\ ~Active(Binder) /\ \A t \in Thread : ~Undoing(thread[t])
  BY <1>1, <1>2 DEF WorkerActive, Active, Undoing
<1>4. \A i \in 1..Len(calls) : FALSE
  BY <1>1
<1>5. ServiceUp /\ Phase = "down"
  BY <1>1, <1>3, <1>4 DEF ServiceUp, Phase, StartAsked
<1>6. On = {}
  BY <1>1 DEF On, Running
<1>7. QED
  BY <1>5, <1>6

(* Every step is one of the lifecycle, or none.                            *)
LEMMA LifecycleStep ==
    ASSUME IInv, IInv', UiTyped, SerialInv, Serial, Serial', OneInv, Latest, Errands, Whole, Fits, Fits',
           [UiNext]_allVars
    PROVE  [Vpn!LifecycleNext]_(Vpn!lifecycleVars)
<1>1. ASSUME UNCHANGED starts, Turn
      PROVE  [Vpn!LifecycleNext]_(Vpn!lifecycleVars)
  <2>1. Shape(starts)' = Shape(starts)
    BY <1>1 DEF Shape, PartsOf
  <2>2. QED
    BY <1>1, <2>1 DEF Turn, Vpn!LifecycleNext, Vpn!lifecycleVars, Vpn!Grow, Vpn!Complete, Vpn!GiveUp,
                      Vpn!Shrink, Vpn!Rest, Vpn!Die
<1>2. ASSUME UNCHANGED <<calls, connected, obj, tun, starts, thread, crashed>>
      PROVE  [Vpn!LifecycleNext]_(Vpn!lifecycleVars)
  <2>1. UNCHANGED Phase
    BY <1>2, PhaseStays DEF Queued, Busy
  <2>2. Turn
    BY <1>2, <2>1, OnStays DEF Turn
  <2>3. QED
    BY <1>1, <1>2, <2>2
<1>3. ASSUME NEW a \in Client, ActivityNext(a)
      PROVE  [Vpn!LifecycleNext]_(Vpn!lifecycleVars)
  <2>1. ASSUME NEW op \in {"register", "unregister"}, Ask(op, a)
        PROVE  [Vpn!LifecycleNext]_(Vpn!lifecycleVars)
    <3>1. UNCHANGED <<connected, obj, tun, thread, crashed, starts>>
      BY <2>1, AskedLast
    <3>2. \A o \in {"start", "stop", "revoke"} : Queued(o)' <=> Queued(o)
      BY <2>1, AskedLast
    <3>3. UNCHANGED Phase
      BY <3>1, <3>2, PhaseStays DEF Busy
    <3>4. QED
      BY <1>1, <3>1, <3>3, OnStays DEF Turn
  <2>2. ASSUME ServiceUp, ~Errand, NEW op \in {"start", "stop"}, Ask(op, a)
        PROVE  /\ Phase = IF connected THEN "up" ELSE "down"
               /\ Phase' = IF op = "start" THEN "starting" ELSE "stopping"
               /\ UNCHANGED On /\ (op # "start" => UNCHANGED starts)
    <3>1. (~\E t \in Thread : Busy(t)) /\ ~\E i : Asked(i)
      BY <2>2 DEF Errand, Asked
    <3>2. Phase = IF connected THEN "up" ELSE "down"
      BY <2>2, <3>1 DEF Fits, PhaseFits
    <3>3. /\ UNCHANGED <<connected, obj, tun, thread, crashed>>
          /\ op # "start" => UNCHANGED starts
      BY <2>2, AskedLast
    <3>4. PICK n \in 1..Len(calls') : calls'[n].op = op
      BY <2>2, AskedLast
    <3>5. Asked(n)' /\ ServiceUp'
      BY <2>2, <3>3, <3>4 DEF Asked, ServiceUp
    <3>6. Phase' = IF op = "start" THEN "starting" ELSE "stopping"
      BY <3>4, <3>5 DEF Fits, PhaseFits
    <3>7. QED
      BY <3>2, <3>3, <3>6, OnStays
  <2>3. CASE ServiceUp /\ ~Errand /\ connected /\ Ask("stop", a)
    <3>1. Phase = "up" /\ Phase' = "stopping" /\ UNCHANGED <<On, starts>>
      BY <2>2, <2>3
    <3>2. QED
      BY <1>1, <3>1 DEF Turn
  <2>4. CASE ServiceUp /\ ~Errand /\ ~connected /\ Ask("start", a)
    <3>1. Phase = "down" /\ Phase' = "starting" /\ UNCHANGED On
      BY <2>2, <2>4
    <3>2. starts' \in Ref
      BY DEF IInv, Control, TypeOK
    <3>3. Shape(starts)' \in {Shape(w) : w \in Ref}
      BY <3>2 DEF Shape, PartsOf
    <3>4. Vpn!Start
      BY <3>1, <3>3 DEF Vpn!Start
    <3>5. QED
      BY <3>4 DEF Vpn!LifecycleNext
  <2>5. QED
    BY <1>2, <1>3, <2>1, <2>3, <2>4, SerialAsks
<1>4. CASE UNCHANGED allVars \/ OnStatusChanged \/ StatusIsLost
  BY <1>2, <1>4 DEF allVars, vars, io, data, OnStatusChanged, StatusIsLost
<1>5. CASE OnServiceDisconnected
  <2>1. Phase = "dead" /\ UNCHANGED starts
    BY <1>5 DEF OnServiceDisconnected, Fits, PhaseFits
  <2>2. Phase' = "down" /\ On' = {}
    <3>1. NewProcess' => (ServiceUp /\ Phase = "down" /\ On = {})'
      BY NewProcessRests, PTL
    <3>2. QED
      BY <1>5, <3>1, Disconnected
  <2>3. Shape(starts)' = Shape(starts)
    BY <2>1 DEF Shape, PartsOf
  <2>4. Vpn!Recover
    BY <2>1, <2>2, <2>3 DEF Vpn!Recover
  <2>5. QED
    BY <2>4 DEF Vpn!LifecycleNext
<1>6. CASE ServiceNext
  BY <1>1, <1>6, ServiceTurns, NoStartElsewhere
<1>7. ~StubStart /\ ~Revoke /\ ~OnStatusThrows
  BY DEF Serial, StubStart, Revoke, OnStatusThrows, SerialInv, Screen, Dialog
<1>8. QED
  BY <1>3, <1>4, <1>5, <1>6, <1>7 DEF UiNext

(* In a serial world the service implements the lifecycle of one VPN: the  *)
(* statements of its threads, whichever of them runs stopRunner, and the   *)
(* end and the return of its process are steps of VpnLifecycle.            *)
THEOREM OneVpn == UiSpec => OneLifecycle
<1>1. UiInit => Vpn!LifecycleInit
  <2> SUFFICES ASSUME UiInit PROVE Vpn!LifecycleInit
    OBVIOUS
  <2>1. <<>> \in Seq([to : Client, status : Status])
    OBVIOUS
  <2>2. NewProcess /\ starts = 0
    BY <2>1 DEF UiInit, Init, NewProcess
  <2>3. Phase = "down" /\ On = {}
    BY <2>2, NewProcessRests
  <2>4. Shape(0) \in {Shape(w) : w \in Ref}
    OBVIOUS
  <2>5. QED
    BY <2>2, <2>3, <2>4 DEF Vpn!LifecycleInit
<1>2. UiInv /\ SerialInv /\ (Serial => OneInv /\ Whole) => (Serial => Fits)
  BY PhaseAlwaysFits, OnAlwaysFits DEF UiInv, SerialInv, Fits
<1>3. /\ UiInv /\ UiInv' /\ SerialInv /\ (Serial => OneInv /\ Whole) /\ (Serial => Latest)
      /\ (Serial => Fits) /\ (Serial => Fits)' /\ [UiNext]_allVars
      => [Vpn!LifecycleNext]_(Vpn!lifecycleVars)
  <2> SUFFICES ASSUME UiInv, UiInv', SerialInv, Serial => OneInv /\ Whole, Serial => Latest,
                      Serial => Fits, (Serial => Fits)', [UiNext]_allVars
               PROVE  [Vpn!LifecycleNext]_(Vpn!lifecycleVars)
    OBVIOUS
  <2>1. Serial' <=> Serial
    BY WorldKept DEF Serial
  <2>2. CASE Serial
    <3>1. IInv /\ IInv' /\ UiTyped /\ Errands /\ Fits /\ Fits' /\ Serial'
      BY <2>1, <2>2 DEF UiInv, SerialInv
    <3>2. QED
      BY <2>2, <3>1, LifecycleStep
  <2>3. CASE ~Serial
    BY <2>1, <2>3 DEF Vpn!lifecycleVars, Shape, PartsOf
  <2>4. QED
    BY <2>2, <2>3
<1>4. QED
  BY <1>1, <1>2, <1>3, SerialInvariance, SerialWholeInvariance, LatestInvariance, UiInvariance, PTL
     DEF UiSpec, OneLifecycle, Vpn!LifecycleSpec
=============================================================================
