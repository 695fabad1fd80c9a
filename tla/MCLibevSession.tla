--------------------------- MODULE MCLibevSession ---------------------------
(* A connection of either program, as the configuration bounds it.         *)
EXTENDS LibevSession
=============================================================================
