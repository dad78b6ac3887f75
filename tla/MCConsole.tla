------------------------------ MODULE MCConsole ------------------------------
(***************************************************************************)
(* Finite instances of Console.                                            *)
(***************************************************************************)
EXTENDS Console, TLC

CONSTANTS r1, r2, alpha, beta

OneEach == (r1 :> alpha) @@ (r2 :> beta)
BetaFirst == <<beta, alpha>>

\* Every key that does something to instances, the wizard and the modes.
AllKeys ==
  {"j", "k", "z", "i", "p", "s", "x", "r", "P", "K", "n", "N", "h", "l", "S", "C", "d",
   "y", "q", "0", "1", "2", "3", "Enter", "ESCAPE", "^S", "^P", "^R"}
=============================================================================
