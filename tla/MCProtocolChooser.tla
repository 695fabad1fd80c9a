------------------------- MODULE MCProtocolChooser -------------------------
(* auth_simple: three sessions, an id space of six values and three client *)
(* ids, so that the limit is met twice while sessions that already sent a  *)
(* head go on.  With the frames of one session followed, that session      *)
(* alone: a head, the rest of its data and another array, in up to three   *)
(* frames.  verify_simple: arrays of the sizes around a unit, with the     *)
(* least and the most padding.                                             *)
EXTENDS ProtocolChooser, TLC

MaxHeads == 5
MaxMarks == 4
SessionSymmetry == Permutations(Session)
Bounded ==
    IF followed = NoSession
    THEN Len(heads) <= MaxHeads
    ELSE created \subseteq {followed} /\ Len(marks) <= MaxMarks
=============================================================================
