---------------------------- MODULE MCVpnService ----------------------------
(* The service under any order of calls, with small bounds.                *)
EXTENDS VpnService, TLC
=============================================================================
