------------------------------ MODULE WorkQueue ------------------------------
(***************************************************************************)
(* What coordination.py promises its callers: a queue of tasks, each held  *)
(* by one ralph at a time under a lease.                                   *)
(*                                                                         *)
(*   open    waiting          closed  completed or failed, may reopen      *)
(*   held    worked on        final   recorded as completed, for good      *)
(***************************************************************************)
CONSTANTS Task, Ralph, NULL

VARIABLE queue  \* [Task -> entry]

Stage == {"absent", "open", "held", "closed", "final"}

Idle(stage) == [stage |-> stage, holder |-> NULL, live |-> FALSE]

HeldEntry(r, live) == [stage |-> "held", holder |-> r, live |-> live]

Init == queue \in [Task -> {Idle("absent"), Idle("open")}]

\* One task may go from entry e to entry f.
Add(e, f) == e.stage = "absent" /\ f \in {Idle("open"), Idle("closed")}

Take(e, f) == e.stage = "open" /\ \E r \in Ralph : f = HeldEntry(r, TRUE)

Retake(e, f) ==
  e.stage = "held" /\ ~e.live /\ \E r \in Ralph : f = HeldEntry(r, TRUE)

KeepHolding(e, f) ==  \* lease renewed, or lapsing
  e.stage = "held" /\ \E live \in BOOLEAN : f = HeldEntry(e.holder, live)

GiveBack(e, f) == e.stage = "held" /\ f = Idle("open")

Close(e, f) == e.stage \in {"open", "held"} /\ f = Idle("closed")

Reopen(e, f) == e.stage = "closed" /\ f = Idle("open")

Finalize(e, f) == e.stage = "closed" /\ f = Idle("final")

Move(e, f) ==
  \/ f = e
  \/ Add(e, f) \/ Take(e, f) \/ Retake(e, f) \/ KeepHolding(e, f)
  \/ GiveBack(e, f) \/ Close(e, f) \/ Reopen(e, f) \/ Finalize(e, f)

\* One step may move several tasks: a sweep releases all claims of a ralph.
Next ==
  /\ queue' \in [Task -> [stage : Stage, holder : Ralph \cup {NULL}, live : BOOLEAN]]
  /\ \A t \in Task : Move(queue[t], queue'[t])

Spec == Init /\ [][Next]_queue

=============================================================================
