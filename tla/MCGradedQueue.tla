--------------------------- MODULE MCGradedQueue ---------------------------
(***************************************************************************)
(* Finite instances of GradedQueue.                                        *)
(***************************************************************************)
EXTENDS GradedQueue, TLC

CONSTANTS t1, t2, r1, r2

\* An entry of one line is graded F, one with a file and its line C.
Bare == [paths |-> 0, lines |-> 0, vague |-> FALSE, criteria |-> 1, specific |-> 0,
         checked |-> FALSE, edges |-> 1, parts |-> 0, code |-> 0]
Placed == [Bare EXCEPT !.paths = 1, !.lines = 1, !.criteria = 0]
BareAndPlaced == {Bare, Placed}

RalphSymmetry == Permutations(Ralphs)
TaskSymmetry == Permutations(Tasks)
Symmetry == RalphSymmetry \cup TaskSymmetry
=============================================================================
