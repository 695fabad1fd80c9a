---------------------------- MODULE VpnLifecycle ----------------------------
(***************************************************************************)
(* What one who starts and stops the VPN from one screen is promised of    *)
(* it: a start only ever adds to what there is of it, a stop only ever     *)
(* takes from that, the two never overlap, and the VPN counts as up when   *)
(* it is complete and as down when nothing of it is left.                  *)
(***************************************************************************)
CONSTANT Shapes     \* what a VPN may be made of: sets of parts

VARIABLES
    phase,      \* of the VPN, "dead" while its process is gone
    shape,      \* what the VPN started last is to be made of
    on          \* the parts that are there

lifecycleVars == <<phase, shape, on>>

LifecycleInit == phase = "down" /\ shape \in Shapes /\ on = {}

Start ==
    /\ phase = "down" /\ phase' = "starting"
    /\ shape' \in Shapes
    /\ UNCHANGED on

Grow ==
    /\ phase = "starting"
    /\ on \subseteq on' /\ on' \subseteq shape
    /\ UNCHANGED <<phase, shape>>

Complete ==
    /\ phase = "starting" /\ phase' = "up"
    /\ on = shape
    /\ UNCHANGED <<shape, on>>

GiveUp ==
    /\ phase \in {"starting", "up"} /\ phase' = "stopping"
    /\ UNCHANGED <<shape, on>>

Shrink ==
    /\ phase = "stopping"
    /\ on' \subseteq on
    /\ UNCHANGED <<phase, shape>>

Rest ==
    /\ phase = "stopping" /\ phase' = "down"
    /\ on = {}
    /\ UNCHANGED <<shape, on>>

(* A VPN that is up does not die of itself.                                *)
Die ==
    /\ phase \in {"starting", "stopping"} /\ phase' = "dead"
    /\ on' \subseteq on
    /\ UNCHANGED shape

Recover ==
    /\ phase = "dead" /\ phase' = "down"
    /\ on' = {}
    /\ UNCHANGED shape

LifecycleNext ==
    Start \/ Grow \/ Complete \/ GiveUp \/ Shrink \/ Rest \/ Die \/ Recover

LifecycleSpec == LifecycleInit /\ [][LifecycleNext]_lifecycleVars
=============================================================================
