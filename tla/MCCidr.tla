------------------------------- MODULE MCCidr -------------------------------
(* Four bits stand for 32; every list of two entries, of every length the  *)
(* assumption allows, from all addresses to a single one.                  *)
EXTENDS Cidr
=============================================================================
