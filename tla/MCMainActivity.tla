--------------------------- MODULE MCMainActivity ---------------------------
(* Four worlds: one instance after the other, with two starts between      *)
(* them; instances that are recreated at any time, with a boot or with a   *)
(* late destruction; and a revoke at any time.                             *)
(* Only the first has two starts: with two, the others do not fit TLC.     *)
(* What a second start makes of the first is then not seen.  In the code   *)
(* it breaks WholeOrNothing, which asks for a serial world for that reason *)
(* and so do UiTruthful, OneLifecycle and StartsAlone; ButtonComesBack and *)
(* DialogCloses are checked of the other worlds for one start only.        *)
EXTENDS MainActivity

CONSTANTS a1, a2

MCWorlds ==
    {[may |-> {}, starts |-> 2, activities |-> {a1, a2}],
     [may |-> {"recreate", "boot"}, starts |-> 1, activities |-> {a1, a2}],
     [may |-> {"recreate", "lateDestroy"}, starts |-> 1, activities |-> {a1, a2}],
     [may |-> {"revoke", "boot"}, starts |-> 1, activities |-> {a1}]}
=============================================================================
