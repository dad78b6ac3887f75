---------------------------- MODULE MCDaemonGuard ----------------------------
(***************************************************************************)
(* A finite instance of DaemonGuard.                                       *)
(***************************************************************************)
EXTENDS DaemonGuard

CONSTANTS p1, p2, p3, s1
=============================================================================
