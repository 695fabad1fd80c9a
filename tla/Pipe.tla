-------------------------------- MODULE Pipe --------------------------------
(***************************************************************************)
(* What every relay of the repository promises for one direction of a      *)
(* session: whatever is taken from one socket is given to the other, all   *)
(* of it and once, and no more is taken before it has been given; so the   *)
(* relay never holds more than one read has brought.  It may end at any    *)
(* moment, and then nothing moves any more.                                *)
(***************************************************************************)
EXTENDS Naturals

VARIABLES
    taken,      \* units taken from the one socket
    given,      \* units given to the other
    over        \* the session has ended

pipeVars == <<taken, given, over>>

PipeInit == taken = 0 /\ given = 0 /\ ~over

(* A read, and what of it the other socket accepts at once.                *)
Take ==
    /\ ~over /\ ~over'
    /\ given = taken
    /\ taken' > taken
    /\ given' \in taken..taken'

Give ==
    /\ ~over /\ ~over'
    /\ taken' = taken
    /\ given' \in given + 1..taken

(* The last read may go with the session.                                  *)
End ==
    /\ ~over /\ over'
    /\ taken' >= taken
    /\ given' = given

PipeNext == Take \/ Give \/ End
PipeSpec == PipeInit /\ [][PipeNext]_pipeVars
=============================================================================
