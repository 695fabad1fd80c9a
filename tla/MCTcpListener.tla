--------------------------- MODULE MCTcpListener ---------------------------
(* Two servers one after the other on one port.                          *)
EXTENDS TcpListener, TLC
=============================================================================
