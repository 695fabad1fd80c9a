---------------------------- MODULE MainActivity ----------------------------
(***************************************************************************)
(* The clients of SSRVPNService: the instances of MainActivity that follow *)
(* each other on the screen (jvmVer, VPN mode) and StubActivity, which     *)
(* connects after a boot.  They run in the UI process; what they ask of    *)
(* the service goes through the binder queue of VpnService, and what the   *)
(* service tells them comes back as statuses posted to the main thread.    *)
(* The floating button (fab) is the only lock of the protocol: a click     *)
(* disables it, switchUI enables it again.                                 *)
(***************************************************************************)
EXTENDS VpnService

(* A world: what the environment may do, and two bounds.                   *)
WorldType == [may : SUBSET {"revoke", "recreate", "lateDestroy", "boot"},
              starts : 0..MaxStarts, activities : SUBSET Client]

CONSTANTS
    Worlds     \* each behaviour is of one of them

ASSUME WorldAssumption == Worlds \subseteq WorldType

VARIABLES
    world,     \* of this behaviour
    act,       \* the instances of MainActivity
    pd,        \* DialogManager.pd: the instance that the wait dialog belongs to
    booted     \* StubActivity has asked for its start

uiVars == <<act, pd, booted, world>>
allVars == <<vars, uiVars>>

Life == {"none", "created", "finishing", "destroyed", "gone"}  \* "gone": with its process
Activity == [life : Life, bound : BOOLEAN, fab : BOOLEAN, icon : {"play", "pause"},
             consent : BOOLEAN]

UiTypeOK ==
    /\ TypeOK
    /\ act \in [Client -> Activity]
    /\ pd \in Client \cup {NoClient}
    /\ booted \in BOOLEAN
    /\ world \in Worlds

UiInit ==
    /\ Init
    /\ act = [a \in Client |-> [life |-> "none", bound |-> FALSE, fab |-> TRUE,
                                icon |-> "play", consent |-> FALSE]]
    /\ pd = NoClient
    /\ booted = FALSE
    /\ world \in Worlds

ServiceUp == crashed = "no"
Alive(a) == act[a].life \in {"created", "finishing"}
SwitchUI(r, enable) == [r EXCEPT !.fab = TRUE, !.icon = IF enable THEN "play" ELSE "pause"]
SetUI(a, enable) == act' = [act EXCEPT ![a] = SwitchUI(@, enable)]

(* An oneway call: the caller does not wait.                               *)
Ask(op, a) == Post(op, a) /\ UNCHANGED <<callback, inbox, data, thread, crashed>>

-----------------------------------------------------------------------------
(* The life of an instance.  A new one is made once no other is left, or,  *)
(* with lateDestroy, while a finishing one still waits for its onDestroy.  *)
OnCreate(a) ==
    /\ a \in world.activities
    /\ act[a].life = "none"
    /\ \A b \in Client \ {a} :
          \/ act[b].life \in {"none", "destroyed", "gone"}
          \/ act[b].life = "finishing" /\ "lateDestroy" \in world.may
    /\ act' = [act EXCEPT ![a].life = "created"]
    /\ UNCHANGED <<vars, pd, booted, world>>

(* An uncaught exception of instance a ends the UI process and all that is *)
(* in it.  The service keeps the callback it was given.                    *)
UiEnds(a) ==
    /\ act' = [b \in Client |->
                IF act[b].life = "none" /\ b # a THEN act[b]
                ELSE [act[b] EXCEPT !.life = "gone", !.bound = FALSE, !.consent = FALSE]]
    /\ pd' = NoClient
    /\ inbox' = <<>>

(* An instance that is made again from its saved state has no pref: the    *)
(* first selection of the spinner throws, or the switchUI that follows its *)
(* registration.                                                           *)
OnCreateSaved(a) ==
    /\ "recreate" \in world.may
    /\ a \in world.activities /\ act[a].life = "none"
    /\ \E b \in Client : act[b].life # "none"
    /\ \A b \in Client : act[b].life # "created"
    /\ UiEnds(a)
    /\ \/ UNCHANGED <<calls, starts>>
       \/ ServiceUp /\ Post("register", a)
    /\ UNCHANGED <<callback, data, thread, crashed, booted, world>>

(* Back: the wait dialog cannot be cancelled and takes the key.  Any other *)
(* end of an instance (recreate) may come at any time.                     *)
Finish(a) ==
    /\ act[a].life = "created"
    /\ ~act[a].consent
    /\ pd # a \/ "recreate" \in world.may
    /\ act' = [act EXCEPT ![a].life = "finishing"]
    /\ UNCHANGED <<vars, pd, booted, world>>

OnDestroy(a) ==
    /\ act[a].life = "finishing"
    /\ act' = [act EXCEPT ![a].life = "destroyed", ![a].bound = FALSE]
    /\ IF act[a].bound /\ ServiceUp THEN Ask("unregister", a) ELSE UNCHANGED vars
    /\ UNCHANGED <<pd, booted, world>>

(* Variant: status() is not asked.                                         *)
OnServiceConnectedBlind(a) ==
    /\ Alive(a)
    /\ ~act[a].bound
    /\ ServiceUp
    /\ Ask("register", a)
    /\ act' = [act EXCEPT ![a] = [SwitchUI(@, TRUE) EXCEPT !.bound = TRUE]]
    /\ UNCHANGED <<pd, booted, world>>

OnServiceConnected(a) ==
    /\ Alive(a)
    /\ ~act[a].bound
    /\ ServiceUp
    /\ Ask("register", a)
    /\ act' = [act EXCEPT ![a] = [SwitchUI(@, ~connected) EXCEPT !.bound = TRUE]]
    /\ UNCHANGED <<pd, booted, world>>

(* The service's process is gone: its threads and child processes with it. *)
(* Every bound instance hears of it; the binding makes a new process.      *)
OnServiceDisconnected ==
    /\ ~ServiceUp
    /\ act' = [a \in Client |->
                IF act[a].bound THEN [SwitchUI(act[a], TRUE) EXCEPT !.bound = FALSE]
                ELSE act[a]]
    /\ calls' = <<>>
    /\ callback' = NoClient
    /\ connected' = FALSE
    /\ field' = [f \in Field |-> 0]
    /\ obj' = [f \in Field |-> [w \in Attempt |-> "none"]]
    /\ conn' = 0
    /\ tun' = {}
    /\ foreground' = FALSE
    /\ profile' = 0
    /\ server' = [w \in Attempt |-> 0]
    /\ uses' = [w \in Attempt |-> [profile |-> 0, address |-> 0]]
    /\ thread' = [t \in Thread |-> Idle]
    /\ crashed' = "no"
    /\ UNCHANGED <<inbox, starts, pd, booted, world>>

-----------------------------------------------------------------------------
(* Variant: neither the button nor the dialog holds the user back.         *)
AskStartUnlocked(a) ==
    /\ ServiceUp
    /\ Ask("start", a)
    /\ act' = [act EXCEPT ![a].consent = FALSE]
    /\ UNCHANGED pd

(* start, once the user has allowed the VPN: the dialog is shown first.    *)
AskStart(a) ==
    IF ServiceUp
    THEN /\ pd' = a
         /\ Ask("start", a)
         /\ act' = [act EXCEPT ![a].fab = FALSE, ![a].consent = FALSE]
    ELSE /\ pd' = NoClient
         /\ act' = [act EXCEPT ![a] = [SwitchUI(@, TRUE) EXCEPT !.consent = FALSE]]
         /\ UNCHANGED vars

Clickable(a) ==
    /\ act[a].life = "created"
    /\ act[a].fab
    /\ act[a].bound
    /\ ~act[a].consent
    /\ pd # a

OnClickStop(a) ==
    /\ Clickable(a)
    /\ ServiceUp /\ connected
    /\ pd' = a
    /\ act' = [act EXCEPT ![a].fab = FALSE]
    /\ Ask("stop", a)
    /\ UNCHANGED <<booted, world>>

(* The service has died and onServiceDisconnected is still to come: found  *)
(* by status(), or by stop() when the dialog is already shown.             *)
OnClickFails(a) ==
    /\ Clickable(a)
    /\ ~ServiceUp
    /\ SetUI(a, TRUE)
    /\ pd' \in {pd, a}
    /\ UNCHANGED <<vars, booted, world>>

(* VpnService.prepare: the system asks the user, or has been told before.  *)
OnClickStart(a) ==
    /\ Clickable(a)
    /\ ServiceUp /\ ~connected
    /\ starts < world.starts
    /\ \/ AskStart(a)
       \/ /\ act' = [act EXCEPT ![a].fab = FALSE, ![a].consent = TRUE]
          /\ UNCHANGED <<vars, pd>>
    /\ UNCHANGED <<booted, world>>

(* Variant: the button stays disabled when the user declines.              *)
OnActivityResultKeeps(a) ==
    /\ act[a].consent
    /\ \/ /\ act[a].bound
          /\ starts < world.starts
          /\ AskStart(a)
       \/ /\ act' = [act EXCEPT ![a].consent = FALSE]
          /\ UNCHANGED <<vars, pd>>
    /\ UNCHANGED <<booted, world>>

OnActivityResult(a) ==
    /\ act[a].consent
    /\ \/ /\ act[a].bound
          /\ starts < world.starts
          /\ AskStart(a)
       \/ /\ act' = [act EXCEPT ![a] = [SwitchUI(@, TRUE) EXCEPT !.consent = FALSE]]
          /\ UNCHANGED <<vars, pd>>
    /\ UNCHANGED <<booted, world>>

(* The user allows the VPN when the service has gone: ssrs!! throws.       *)
UiDies(a) ==
    /\ act[a].consent
    /\ ~act[a].bound
    /\ UiEnds(a)
    /\ UNCHANGED <<calls, callback, data, starts, thread, crashed, booted, world>>

(* Variant: the dialog is left to itself.                                  *)
OnStatusKeepsDialog ==
    /\ inbox # <<>>
    /\ act[Head(inbox).to].life # "gone"
    /\ SetUI(Head(inbox).to, Head(inbox).status # "CONNECTED")
    /\ inbox' = Tail(inbox)
    /\ UNCHANGED <<calls, callback, data, starts, thread, crashed, pd, booted, world>>

(* The posted onStatusChanged, of an instance that may be destroyed by     *)
(* then.                                                                   *)
OnStatusChanged ==
    /\ inbox # <<>>
    /\ act[Head(inbox).to].life # "gone"
    /\ SetUI(Head(inbox).to, Head(inbox).status # "CONNECTED")
    /\ pd' = NoClient
    /\ inbox' = Tail(inbox)
    /\ UNCHANGED <<calls, callback, data, starts, thread, crashed, booted, world>>

(* onDestroy leaves the dialog alone, and its window goes with the         *)
(* activity: to dismiss it then may throw.                                 *)
OnStatusThrows ==
    /\ inbox # <<>>
    /\ act[Head(inbox).to].life # "gone"
    /\ pd # NoClient /\ act[pd].life = "destroyed"
    /\ UiEnds(pd)
    /\ UNCHANGED <<calls, callback, data, starts, thread, crashed, booted, world>>

(* A status for an instance whose process has ended reaches nobody.        *)
StatusIsLost ==
    /\ inbox # <<>>
    /\ act[Head(inbox).to].life = "gone"
    /\ inbox' = Tail(inbox)
    /\ UNCHANGED <<calls, callback, data, starts, thread, crashed, uiVars>>

(* StubActivity starts the VPN once after a boot and registers nothing.    *)
StubStart ==
    /\ "boot" \in world.may
    /\ ~booted
    /\ ServiceUp
    /\ starts < world.starts
    /\ booted' = TRUE
    /\ \E a \in world.activities : Ask("start", a)
    /\ UNCHANGED <<act, pd, world>>

(* The system takes the VPN away (its own dialog, or another VPN).         *)
Revoke ==
    /\ "revoke" \in world.may
    /\ ServiceUp
    /\ tun # {}
    /\ \A i \in 1..Len(calls) : calls[i].op # "revoke"
    /\ \E a \in world.activities : Ask("revoke", a)
    /\ UNCHANGED uiVars

-----------------------------------------------------------------------------
ActivityNext(a) ==
    \/ OnCreate(a) \/ OnCreateSaved(a) \/ Finish(a) \/ OnDestroy(a) \/ OnServiceConnected(a)
    \/ OnClickStop(a) \/ OnClickFails(a) \/ OnClickStart(a) \/ OnActivityResult(a) \/ UiDies(a)

UiNext ==
    \/ \E a \in Client : ActivityNext(a)
    \/ OnServiceDisconnected \/ OnStatusChanged \/ OnStatusThrows \/ StatusIsLost
    \/ StubStart \/ Revoke
    \/ ServiceNext /\ UNCHANGED uiVars

UiSpec == UiInit /\ [][UiNext]_allVars

(* The service's threads run, the main thread takes what is posted, the    *)
(* system delivers its callbacks and the user answers its dialogs.         *)
UiFairness ==
    /\ WF_allVars(ServeNext /\ UNCHANGED uiVars)
    /\ \A w \in Attempt : WF_allVars(WorkerNext(w) /\ UNCHANGED uiVars)
    /\ \A f \in Server, w \in Attempt : WF_allVars(ServerBegins(f, w) /\ UNCHANGED uiVars)
    /\ WF_allVars(OnStatusChanged \/ OnStatusThrows \/ StatusIsLost)
    /\ WF_allVars(OnServiceDisconnected)
    /\ \A a \in Client : WF_allVars(OnServiceConnected(a)) /\ WF_allVars(OnActivityResult(a))

LiveUiSpec == UiSpec /\ UiFairness

-----------------------------------------------------------------------------
(* Nothing is under way: what a user looking at the screen may rely on.    *)
AtRest ==
    /\ ServiceUp
    /\ calls = <<>> /\ inbox = <<>>
    /\ \A t \in Thread : ~Active(t)

Running(f, w) == obj[f][w] \in {"started", "running"}

PartsOf(w) == IF w \in DnsForward THEN {"local", "udprs", "tun2socks"}
              ELSE {"local", "tunnel", "pdnsd", "tun2socks"}
Parts == PartsOf(conn)

(* In a serial world one instance after the other asks, and nobody else.   *)
Serial == world.may = {}

(* At rest the service is connected as a whole or not at all: with its tun *)
(* open and every part running for it, or with nothing running and no tun. *)
(* A serial world is needed: a revoke breaks that up, and so does a second *)
(* start while the worker of the first is still at work, which an instance *)
(* made after a recreation, or after a boot's start, can ask for, for it   *)
(* finds the service not connected: two workers then share the fields.     *)
WholeOrNothing ==
    AtRest /\ Serial =>
        IF connected
        THEN /\ tun = {conn}
             /\ \A f \in Field, w \in Attempt : Running(f, w) <=> f \in Parts /\ w = conn
        ELSE /\ tun = {}
             /\ \A f \in Field, w \in Attempt : ~Running(f, w)

(* At rest the button of a bound instance shows what status() would say,   *)
(* in a serial world.                                                      *)
UiTruthful ==
    AtRest /\ Serial => \A a \in Client :
        act[a].life = "created" /\ act[a].bound /\ act[a].fab => (act[a].icon = "pause" <=> connected)

(* The button alone keeps the promise OneWorker makes to the service: no    *)
(* start is asked for while one is queued, being served or at work.        *)
StartsAlone ==
    [][starts' > starts /\ Serial => ~WorkerActive /\ ~StartAsked]_allVars

(* A button disabled by a click is enabled again while its instance lives, *)
(* unless another one, destroyed late, has taken its callback away.        *)
ButtonComesBack ==
    \A a \in Client :
        Alive(a) /\ ~act[a].fab /\ "lateDestroy" \notin world.may ~> ~Alive(a) \/ act[a].fab

(* The wait dialog of an unanswered click, which the user cannot cancel,   *)
(* goes away while its instance lives, unless the service's process dies   *)
(* meanwhile.                                                              *)
DialogCloses ==
    \A a \in Client :
        pd = a /\ Alive(a) /\ ~act[a].fab /\ "lateDestroy" \notin world.may
            ~> pd # a \/ ~Alive(a) \/ ~ServiceUp

-----------------------------------------------------------------------------
(* In a serial world the service is a VPN of one lifecycle, whichever of   *)
(* its threads is at work on it; any other world is left out.              *)
Undoing(r) ==
    /\ r.answer # "spawn"
    /\ r.pc \in {"reset", "kill", "killStop", "killNull", "unforeground", "close", "closeFd",
                 "closeNull", "answer"}

Phase ==
    IF ~ServiceUp THEN "dead"
    ELSE IF \/ \E i \in 1..Len(calls) : calls[i].op \in {"stop", "revoke"}
            \/ \E t \in Thread : Undoing(thread[t])
         THEN "stopping"
    ELSE IF connected THEN "up"
    ELSE IF StartAsked \/ WorkerActive THEN "starting"
    ELSE "down"

(* What the VPN of a start is made of, and what is there of any VPN.       *)
Shape(w) == PartsOf(w) \cup {"tun"}
On == {f \in Field : \E w \in Attempt : Running(f, w)} \cup IF tun = {} THEN {} ELSE {"tun"}

Vpn == INSTANCE VpnLifecycle WITH
    Shapes <- {Shape(w) : w \in Ref},
    phase <- IF Serial THEN Phase ELSE "down",
    shape <- IF Serial THEN Shape(starts) ELSE Shape(0),
    on <- IF Serial THEN On ELSE {}

(* A start only adds to the VPN, a stop only takes from it, no two of them *)
(* overlap, and the service says that it is connected exactly from when    *)
(* the VPN of the last start is complete until it is given up; at rest and *)
(* not connected, nothing of it is left.                                   *)
OneLifecycle == Vpn!LifecycleSpec
=============================================================================
