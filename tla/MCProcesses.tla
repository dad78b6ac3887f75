----------------------------- MODULE MCProcesses -----------------------------
(***************************************************************************)
(* Finite instances of Processes.                                          *)
(***************************************************************************)
EXTENDS Processes, TLC

CONSTANTS w1, w2, w3, d, c1, c2

\* Workers are alike, and so are consoles.
Alike == Permutations(Workers) \cup Permutations(Consoles)

\* The part of the system in which consoles race each other to the limit: the
\* daemon is down, so that they spawn themselves, nobody is at a stuck worker, and
\* the final status a worker writes is one of two.
Racing ==
  /\ Daemon \notin up
  /\ \A c \in Consoles : pc[c].op \notin {"stuckMarks", "terms", "waits"}
  /\ \A w \in Workers : said[w] \in {"none", "completed", "crashed"}
=============================================================================
