--------------------------- MODULE MCVerifySimple --------------------------
(* Arrays of the sizes around a unit, with the least and the most padding. *)
EXTENDS VerifySimple, TLC
=============================================================================
