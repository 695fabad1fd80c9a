-------------------------- MODULE ProtocolChooser --------------------------
(***************************************************************************)
(* ProtocolChooser.getProtocol (jvmVer) gives the sessions of a SSRLocal   *)
(* the protocol plugin its profile names, one for all of them.  The        *)
(* default plugin changes nothing and has no state.  AuthSimpleProtocol    *)
(* frames its data with a VerifySimpleProtocol of its own: the frames of   *)
(* one session, any of them, are followed, while the others share its ids. *)
(***************************************************************************)
EXTENDS AuthSimple, VerifySimple

CONSTANTS
    Cuts,       \* randomInt(32) + findRightHeadSize: the data that goes with a head
    NoSession   \* no session's frames are followed

ASSUME CutsAssumption == Cuts \subseteq Nat
ASSUME NoSessionAssumption == NoSession \notin Session

VARIABLES
    protoName,
    followed,   \* the session whose vsp the variables of VerifySimple are
    given       \* sizes of the arrays its beforeEncrypt has yet to give to vsp

chooserVars == <<protoName, followed, given, vars, frameVars>>

ChooserInit ==
    /\ protoName \in {"auth_simple", "verify_simple"}
    /\ followed \in Session \cup {NoSession}
    /\ protoName = "verify_simple" => followed = NoSession
    /\ given = <<>>
    /\ Init /\ FramesInit

(* A head takes 12 bytes and the beginning of the data, the rest follows.  *)
HeadAndRest(size, cut) == <<12 + Least(size, cut), size - Least(size, cut)>>

(* What beforeEncrypt, called by s, gives to the vsp of s.                 *)
GiveToVsp(s) ==
    IF s = followed
    THEN /\ given = <<>> /\ Encoded
         /\ \E size \in Sizes, cut \in Cuts :
               given' = IF heads' # heads THEN HeadAndRest(size, cut) ELSE <<size>>
    ELSE UNCHANGED given

(* vsp.beforeEncrypt with the next of them.                                *)
VspEncrypt ==
    /\ given # <<>>
    /\ BeginEncrypt(Head(given))
    /\ given' = Tail(given)

AuthSimpleNext ==
    \/ /\ \E s \in Session :
             \/ NewPlugin(s) /\ UNCHANGED given
             \/ (BeforeEncrypt(s) \/ BeforeEncryptWrap(s)) /\ GiveToVsp(s)
       /\ UNCHANGED frameVars
    \/ VspEncrypt /\ UNCHANGED vars
    \/ followed # NoSession /\ FramesStep /\ UNCHANGED <<given, vars>>

ChooserNext ==
    /\ \/ protoName = "auth_simple" /\ AuthSimpleNext
       \/ protoName = "verify_simple" /\ FramesNext /\ UNCHANGED <<given, vars>>
    /\ UNCHANGED <<protoName, followed>>

ChooserSpec == ChooserInit /\ [][ChooserNext]_chooserVars
=============================================================================
