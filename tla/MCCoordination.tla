--------------------------- MODULE MCCoordination ---------------------------
(***************************************************************************)
(* Finite instances of Coordination: who calls what, for each question.    *)
(***************************************************************************)
EXTENDS Coordination, TLC

CONSTANTS r1, r2, t1, daemon, other

\* Rows of one sync share created_at: with equal priority either comes first.
OneTask == t1 :> 1

\* The daemon, which may die anywhere, next to the TUI and an operator's commands;
\* only the daemon claims and completes.
RaceCalls ==
  (daemon :> {"register", "claim_task", "complete_task", "mark_stale", "crash"}) @@
  (other  :> {"release_claim", "fail_task", "extend_claim", "mark_stale", "sync"})

\* Every call there is, next to a sync that parsed the plan earlier.
EveryCalls ==
  (daemon :> Op) @@ (other :> {"sync"})

\* The calls below are those of README 4.1, one definition for each row.

\* mark_stale of the daemon against the heartbeats the TUI sends.
StaleCalls ==
  (daemon :> {"register", "claim_task", "mark_stale"}) @@ (other :> {"heartbeat"})

\* complete_task from the daemon (outcome file) and from "wig complete".
TwiceCalls ==
  (daemon :> {"claim_task", "complete_task"}) @@ (other :> {"complete_task"})

\* The TUI's check_ralph_completions next to the daemon, which releases.
RefreshCalls ==
  (daemon :> {"register", "claim_task", "release_claim"}) @@
  (other  :> {"check_completions"})

\* complete_task after fail_task, as for a second outcome of one worker.
FailedCalls ==
  (daemon :> {"claim_task", "fail_task", "complete_task"}) @@ (other :> {})

\* Two claims of one task around a release.
CurrentCalls ==
  (daemon :> {"register", "claim_task"}) @@ (other :> {"claim_task", "release_claim"})

RalphSymmetry == Permutations(Ralph)
=============================================================================
