----------------------------- MODULE MCLibevUdp -----------------------------
(* The clients and the families, as the configuration names them.          *)
EXTENDS LibevUdp
=============================================================================
