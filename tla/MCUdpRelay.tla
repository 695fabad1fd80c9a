----------------------------- MODULE MCUdpRelay -----------------------------
(* Two clients, and a cache that is full with one.                         *)
EXTENDS UdpRelay
=============================================================================
