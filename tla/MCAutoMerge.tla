---------------------------- MODULE MCAutoMerge ----------------------------
(***************************************************************************)
(* Finite instances of AutoMerge.                                          *)
(***************************************************************************)
EXTENDS AutoMerge, TLC

CONSTANTS r1, r2, t1, t2, s1, s2

AllAuto == [r \in Ralph |-> "auto"]
AllSquash == [r \in Ralph |-> "squash"]
OneSquash == [r \in Ralph |-> IF r = r1 THEN "squash" ELSE "auto"]

\* Everybody's changes touch the same lines, or nobody's.
AllClash == Author \X Author
NoClash == {}

SessionSymmetry == Permutations({s1, s2})
MergeSymmetry == Permutations({r1, r2}) \cup SessionSymmetry
=============================================================================
