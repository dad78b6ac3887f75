---------------------------- MODULE GradedQueue ----------------------------
(***************************************************************************)
(* The graded task queue: the table tasks, `wig sync --with-grading`,      *)
(* spawning a worker on a graded task, and what is made of its exit code.  *)
(* A claim here has no lease; a row is freed by the exit handler, by a     *)
(* failed launch, or by the next sync.                                     *)
(***************************************************************************)
EXTENDS PromptGrade

CONSTANTS
  Tasks,         \* entries of the plan
  Ralphs,        \* ids of workers, each for one at a time
  Entries        \* what an entry may say: subset of Entry

NoOne == "none"
NoTask == "no task"

ASSUME GradedAssumption ==
  /\ Entries \subseteq Entry
  /\ NoOne \notin Ralphs /\ NoTask \notin Tasks

VARIABLES
  plan,      \* @fix_plan.md: what each entry says, and whether it is ticked
  row,       \* the table tasks
  sync,      \* the sync in progress
  attempt,   \* the spawn in progress for each id
  worker,    \* each id's process, and its exit until that is handled
  overlap    \* history variable: a sync has run next to a claim

vars == <<plan, row, sync, attempt, worker, overlap>>

TaskStatus == {"pending", "active", "completed", "blocked", "needs_review"}
ExitKind == {"zero", "three", "other"}

Row == [status : TaskStatus, owner : Ralphs \cup {NoOne}, letter : {"A", "B", "C", "F"}]
NoRow == [status |-> "absent", owner |-> NoOne, letter |-> "?"]

IdleAttempt == [at |-> "idle", task |-> NoTask]
NoWorker == [at |-> "none", task |-> NoTask, exit |-> "zero"]
NoSync == [at |-> "idle", plan |-> <<>>, first |-> NoTask]

Alive(r) == worker[r].at = "alive"
\* No spawn holds a claim and no worker runs or waits for its exit to be handled.
Quiet == \A r \in Ralphs : attempt[r].at \in {"idle", "claim"} /\ worker[r].at = "none"

Init ==
  /\ plan \in [Tasks -> [says : Entries, done : {FALSE}]]
  /\ row = [t \in Tasks |-> NoRow]
  /\ sync = NoSync
  /\ attempt = [r \in Ralphs |-> IdleAttempt]
  /\ worker = [r \in Ralphs |-> NoWorker]
  /\ overlap = FALSE

-----------------------------------------------------------------------------
\* The user rewrites an entry.
EditPlan(t) ==
  /\ \E e \in Entries \ {plan[t].says} : plan' = [plan EXCEPT ![t].says = e]
  /\ UNCHANGED <<row, sync, attempt, worker, overlap>>

\* The worker's model ticks the entry it works on.
TickPlan(r) ==
  /\ Alive(r)
  /\ plan' = [plan EXCEPT ![worker[r].task].done = TRUE]
  /\ UNCHANGED <<row, sync, attempt, worker, overlap>>

\* A bad grade blocks even a ticked entry.
SyncedStatus(entry) ==
  CASE Letter(Score(entry.says)) = "F" -> "blocked"
    [] Letter(Score(entry.says)) # "F" /\ entry.done -> "completed"
    [] OTHER -> "pending"

\* Mutant of Synced: completed rows are written like the others.
SyncedAll(old, entry) ==
  [status |-> SyncedStatus(entry), owner |-> old.owner,
   letter |-> Letter(Score(entry.says))]

\* What a sync makes of a row: a completed one is left alone, any other takes
\* the status of its entry and keeps its owner.
Synced(old, entry) ==
  IF old.status = "completed" THEN old
  ELSE [status |-> SyncedStatus(entry), owner |-> old.owner,
        letter |-> Letter(Score(entry.says))]

\* parse_fix_plan
SyncRead ==
  /\ sync.at = "idle"
  /\ sync' = [at |-> "look", plan |-> plan, first |-> NoTask]
  /\ overlap' = (overlap \/ ~ Quiet)
  /\ UNCHANGED <<plan, row, attempt, worker>>

\* The SELECT of the first row that will be written runs before the transaction
\* begins; it is the first in the plan whose row is not completed.
SyncLook ==
  /\ sync.at = "look"
  /\ \/ \E t \in Tasks : /\ row[t].status # "completed"
                         /\ sync' = [sync EXCEPT !.at = "write", !.first = t]
     \/ (\A t \in Tasks : row[t].status = "completed") /\ sync' = NoSync
  /\ UNCHANGED <<plan, row, attempt, worker, overlap>>

\* The transaction: that row whatever it has become, the others as they are.
SyncWrite ==
  /\ sync.at = "write"
  /\ row' = [t \in Tasks |->
       IF t = sync.first THEN Synced([row[t] EXCEPT !.status = "pending"], sync.plan[t])
       ELSE Synced(row[t], sync.plan[t])]
  /\ sync' = NoSync
  /\ UNCHANGED <<plan, attempt, worker, overlap>>

-----------------------------------------------------------------------------
\* spawn_ralph_graded up to the claim: the row is read, with its prompt.  A row
\* in review is not refused here.
SpawnLook(r, t) ==
  /\ attempt[r].at = "idle"
  /\ \A u \in Tasks : row[u].owner # r
  /\ worker[r].at = "none"
  /\ row[t].status \in {"pending", "needs_review"}
  /\ attempt' = [attempt EXCEPT ![r] = [at |-> "claim", task |-> t]]
  /\ UNCHANGED <<plan, row, sync, worker, overlap>>

SpawnClaim(r) ==
  /\ attempt[r].at = "claim"
  /\ overlap' = (overlap \/ sync.at # "idle")
  /\ LET t == attempt[r].task
     IN  row' = IF row[t].status = "pending"
                THEN [row EXCEPT ![t].status = "active", ![t].owner = r] ELSE row
  /\ attempt' = [attempt EXCEPT ![r].at = "check"]
  /\ UNCHANGED <<plan, sync, worker>>

\* Mutant of SpawnCheck: the claim is not looked at again.
SpawnCheckNot(r) ==
  /\ attempt[r].at = "check"
  /\ attempt' = [attempt EXCEPT ![r].at = "launch"]
  /\ UNCHANGED <<plan, row, sync, worker, overlap>>

\* Whose row is it?
SpawnCheck(r) ==
  /\ attempt[r].at = "check"
  /\ attempt' = [attempt EXCEPT ![r] =
       IF row[@.task].owner = r THEN [@ EXCEPT !.at = "launch"] ELSE IdleAttempt]
  /\ UNCHANGED <<plan, row, sync, worker, overlap>>

\* spawn_ralph_daemon starts the process or fails.
SpawnLaunch(r) ==
  /\ attempt[r].at = "launch"
  /\ \/ /\ worker' = [worker EXCEPT ![r] =
             [at |-> "alive", task |-> attempt[r].task, exit |-> "zero"]]
        /\ attempt' = [attempt EXCEPT ![r] = IdleAttempt]
     \/ /\ attempt' = [attempt EXCEPT ![r].at = "unclaim"]
        /\ UNCHANGED worker
  /\ UNCHANGED <<plan, row, sync, overlap>>

\* Back to the queue, whoever has it.
Requeued(t) == [row EXCEPT ![t].status = "pending", ![t].owner = NoOne]

SpawnUnclaim(r) ==
  /\ attempt[r].at = "unclaim"
  /\ row' = Requeued(attempt[r].task)
  /\ attempt' = [attempt EXCEPT ![r] = IdleAttempt]
  /\ UNCHANGED <<plan, sync, worker, overlap>>

\* The spawning process dies; nothing remembers its claim but the row.
SpawnDies(r) ==
  /\ attempt[r].at # "idle"
  /\ attempt' = [attempt EXCEPT ![r] = IdleAttempt]
  /\ UNCHANGED <<plan, row, sync, worker, overlap>>

-----------------------------------------------------------------------------
WorkerExits(r) ==
  /\ Alive(r)
  /\ \E kind \in ExitKind : worker' = [worker EXCEPT ![r].at = "dead", ![r].exit = kind]
  /\ UNCHANGED <<plan, row, sync, attempt, overlap>>

\* on_ralph_exit is told the task, or looks for an active row of that id.  When
\* it finds none there is nothing more to do.
ExitFinds(r) ==
  /\ worker[r].at = "dead"
  /\ \/ worker' = [worker EXCEPT ![r].at = "ended"]
     \/ \E t \in Tasks : /\ row[t].owner = r /\ row[t].status = "active"
                         /\ worker' = [worker EXCEPT ![r].at = "ended", ![r].task = t]
     \/ /\ \A t \in Tasks : row[t].owner # r \/ row[t].status # "active"
        /\ worker' = [worker EXCEPT ![r] = NoWorker]
  /\ UNCHANGED <<plan, row, sync, attempt, overlap>>

\* Only the UPDATE for exit code 0 asks for the owner.
ExitWrites(r) ==
  /\ worker[r].at = "ended"
  /\ LET t == worker[r].task
         kind == worker[r].exit
     IN  \/ /\ kind = "zero"
            /\ row' = IF row[t].owner = r
                      THEN [row EXCEPT ![t].status = "completed"] ELSE row
         \/ /\ kind = "three"
            /\ row' = [row EXCEPT ![t].status = "needs_review", ![t].owner = NoOne]
         \/ /\ kind = "other"
            /\ row' = Requeued(t)
  /\ worker' = [worker EXCEPT ![r] = NoWorker]
  /\ UNCHANGED <<plan, sync, attempt, overlap>>

Next ==
  \/ SyncRead \/ SyncLook \/ SyncWrite
  \/ \E t \in Tasks : EditPlan(t) \/ \E r \in Ralphs : SpawnLook(r, t)
  \/ \E r \in Ralphs :
       \/ TickPlan(r) \/ WorkerExits(r) \/ ExitFinds(r) \/ ExitWrites(r)
       \/ SpawnClaim(r) \/ SpawnCheck(r) \/ SpawnLaunch(r) \/ SpawnUnclaim(r)
       \/ SpawnDies(r)

Spec == Init /\ [][Next]_vars

-----------------------------------------------------------------------------
\* Types of the plan, the table and every process at work on them.
TypeOK ==
  /\ plan \in [Tasks -> [says : Entries, done : BOOLEAN]]
  /\ row \in [Tasks -> Row \cup {NoRow}]
  /\ sync.at \in {"idle", "look", "write"} /\ sync.first \in Tasks \cup {NoTask}
  /\ attempt \in [Ralphs -> [at : {"idle", "claim", "check", "launch", "unclaim"},
                             task : Tasks \cup {NoTask}]]
  /\ worker \in [Ralphs -> [at : {"none", "alive", "dead", "ended"},
                            task : Tasks \cup {NoTask}, exit : ExitKind]]

\* Until a sync runs next to a claim or a worker, a worker's row is active and
\* names it, from its start to the handling of its exit: however several spawns
\* of one task interleave with each other, with launches that fail and with late
\* exits, two workers never share a task and none works on a task that may be
\* handed out.
LiveHoldsItsTask ==
  overlap \/ \A r \in Ralphs : worker[r].at # "none" =>
    row[worker[r].task].status = "active" /\ row[worker[r].task].owner = r

\* Until a sync runs next to a claim or a worker, what may be handed out has a
\* grade that is not F: neither an exit nor a failed launch puts a blocked task
\* back.
PendingIsGraded ==
  overlap \/ \A t \in Tasks : row[t].status \in {"pending", "active", "needs_review"} =>
    row[t].letter # "F"

\* Until a sync runs next to a claim or a worker, a completed task stays
\* completed: a sync of an older plan or a worse prompt leaves it, and no exit,
\* unclaim or spawn of another worker reopens it.
CompletedStays ==
  [][overlap \/ \A t \in Tasks :
       row[t].status = "completed" => row'[t].status = "completed"]_row
=============================================================================
