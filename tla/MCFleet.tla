------------------------------- MODULE MCFleet -------------------------------
(***************************************************************************)
(* Finite instances of Fleet.                                              *)
(***************************************************************************)
EXTENDS Fleet, TLC

CONSTANTS r1, r2, t1

\* Rows of one sync share created_at: with equal priority either comes first.
OneTask == t1 :> 1

RalphSymmetry == Permutations(Ralph)
=============================================================================
