---------------------------- MODULE MCTcpSession ----------------------------
(* Small streams; a socket holds one unit, so that writes block.           *)
EXTENDS TcpSession
=============================================================================
