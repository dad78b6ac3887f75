-------------------------- MODULE GradedQueueProofs --------------------------
(***************************************************************************)
(* Who works on a graded task, and what may be handed out, for any number  *)
(* of tasks, workers and kinds of entries.                                 *)
(***************************************************************************)
EXTENDS GradedQueue, TLAPS

-----------------------------------------------------------------------------
(***************************************************************************)
(* Types.                                                                  *)
(***************************************************************************)
Plan == [Tasks -> [says : Entries, done : BOOLEAN]]
Attempt == [at : {"idle", "claim", "check", "launch", "unclaim"}, task : Tasks \cup {NoTask}]
Worker == [at : {"none", "alive", "dead", "ended"}, task : Tasks \cup {NoTask}, exit : ExitKind]

\* A task that is known to a spawn or a worker has a row.
Listed(t) == t \in Tasks /\ row[t] \in Row

SyncType ==
  /\ sync \in [at : {"idle", "look", "write"}, plan : Plan \cup {<<>>}, first : Tasks \cup {NoTask}]
  /\ sync.at # "idle" => sync.plan \in Plan
  /\ sync.at = "write" => sync.first \in Tasks

RowType == row \in [Tasks -> Row \cup {NoRow}]

HandsType ==
  /\ attempt \in [Ralphs -> Attempt] /\ worker \in [Ralphs -> Worker]
  /\ \A r \in Ralphs : attempt[r].at # "idle" => Listed(attempt[r].task)
  /\ \A r \in Ralphs : worker[r].at # "none" => Listed(worker[r].task)

TypeInv == plan \in Plan /\ overlap \in BOOLEAN /\ SyncType /\ RowType /\ HandsType

LEMMA TypeInvTypes == TypeInv => TypeOK
BY DEF TypeInv, TypeOK, Plan, Attempt, Worker, SyncType, RowType, HandsType

LEMMA InitTypes == Init => TypeInv
<1> SUFFICES ASSUME Init PROVE TypeInv
  OBVIOUS
<1>1. plan \in Plan /\ overlap \in BOOLEAN /\ SyncType /\ RowType
  BY DEF Init, Plan, SyncType, RowType, NoSync
<1>2. HandsType
  BY DEF Init, HandsType, Attempt, Worker, IdleAttempt, NoWorker, ExitKind
<1> QED BY <1>1, <1>2 DEF TypeInv

LEMMA LetterType == \A score : Letter(score) \in {"A", "B", "C", "F"}
BY DEF Letter

LEMMA SyncedType ==
  ASSUME NEW old \in Row \cup {NoRow}, NEW entry
  PROVE  /\ Synced(old, entry) \in Row
         /\ Synced([old EXCEPT !.status = "pending"], entry) \in Row
<1>1. SyncedStatus(entry) \in TaskStatus
  BY DEF SyncedStatus, TaskStatus
<1>2. old.owner \in Ralphs \cup {NoOne}
  BY DEF Row, NoRow
<1>3. old.status = "completed" => old \in Row
  BY DEF NoRow
<1>4. [old EXCEPT !.status = "pending"].owner = old.owner
      /\ [old EXCEPT !.status = "pending"].status = "pending"
  BY DEF Row, NoRow
<1> QED BY <1>1, <1>2, <1>3, <1>4, LetterType DEF Synced, Row

LEMMA RewrittenType ==
  ASSUME NEW old \in Row, NEW status \in TaskStatus, NEW owner \in Ralphs \cup {NoOne}
  PROVE  /\ [old EXCEPT !.status = status] \in Row
         /\ [old EXCEPT !.status = status, !.owner = owner] \in Row
BY DEF Row

\* A step that rewrites rows that are there, and touches no hands.
LEMMA RowsRewritten ==
  ASSUME RowType, HandsType, NEW t \in Tasks, row[t] \in Row, NEW new \in Row,
         row' = [row EXCEPT ![t] = new]
  PROVE  RowType' /\ \A u \in Tasks : row[u] \in Row => row'[u] \in Row
BY DEF RowType

-----------------------------------------------------------------------------
LEMMA SyncTypes == ASSUME TypeInv, SyncRead \/ SyncLook \/ SyncWrite PROVE TypeInv'
<1> USE DEF TypeInv
<1>1. CASE SyncRead
  <2>1. SyncType' /\ overlap' \in BOOLEAN
    BY <1>1 DEF SyncRead, SyncType, Quiet
  <2>2. RowType' /\ HandsType'
    BY <1>1 DEF SyncRead, RowType, HandsType, Listed
  <2> QED BY <1>1, <2>1, <2>2 DEF SyncRead
<1>2. CASE SyncLook
  <2>1. SyncType'
    <3>1. CASE sync' = NoSync
      BY <3>1 DEF SyncType, NoSync
    <3>2. ASSUME NEW t \in Tasks, sync' = [sync EXCEPT !.at = "write", !.first = t]
          PROVE  SyncType'
      BY <1>2, <3>2 DEF SyncLook, SyncType
    <3> QED BY <1>2, <3>1, <3>2 DEF SyncLook
  <2>2. RowType' /\ HandsType'
    BY <1>2 DEF SyncLook, RowType, HandsType, Listed
  <2> QED BY <1>2, <2>1, <2>2 DEF SyncLook
<1>3. CASE SyncWrite
  <2>1. SyncType'
    BY <1>3 DEF SyncWrite, SyncType, NoSync
  <2>2. row' \in [Tasks -> Row]
    BY <1>3, SyncedType DEF SyncWrite, RowType
  <2>3. RowType' /\ HandsType'
    BY <1>3, <2>2 DEF SyncWrite, RowType, HandsType, Listed
  <2> QED BY <1>3, <2>1, <2>3 DEF SyncWrite
<1> QED BY <1>1, <1>2, <1>3

LEMMA SpawnTypes ==
  ASSUME TypeInv, NEW r \in Ralphs,
         \/ (\E t \in Tasks : SpawnLook(r, t)) \/ SpawnClaim(r) \/ SpawnCheck(r)
         \/ SpawnLaunch(r) \/ SpawnUnclaim(r) \/ SpawnDies(r)
  PROVE  TypeInv'
<1> USE DEF TypeInv
<1>1. ASSUME NEW t \in Tasks, SpawnLook(r, t) PROVE TypeInv'
  <2>1. row[t] \in Row
    BY <1>1 DEF SpawnLook, RowType, NoRow
  <2>2. HandsType'
    BY <1>1, <2>1 DEF SpawnLook, HandsType, Attempt, Listed
  <2> QED BY <1>1, <2>2 DEF SpawnLook, SyncType, RowType
<1>2. CASE SpawnClaim(r)
  <2> DEFINE t == attempt[r].task
  <2>1. t \in Tasks /\ row[t] \in Row
    BY <1>2 DEF SpawnClaim, HandsType, Listed
  <2>2. RowType' /\ \A u \in Tasks : row[u] \in Row => row'[u] \in Row
    <3>1. [row[t] EXCEPT !.status = "active", !.owner = r] \in Row
      BY <2>1, RewrittenType DEF TaskStatus
    <3>2. row' \in {row, [row EXCEPT ![t] = [row[t] EXCEPT !.status = "active", !.owner = r]]}
      BY <1>2, <2>1 DEF SpawnClaim, RowType
    <3> QED BY <2>1, <3>1, <3>2, RowsRewritten DEF RowType
  <2>3. HandsType'
    BY <1>2, <2>2 DEF SpawnClaim, HandsType, Attempt, Listed
  <2> QED BY <1>2, <2>2, <2>3 DEF SpawnClaim, SyncType
<1>3. CASE SpawnCheck(r) \/ SpawnDies(r)
  <2>1. HandsType'
    BY <1>3 DEF SpawnCheck, SpawnDies, HandsType, Attempt, IdleAttempt, Listed
  <2> QED BY <1>3, <2>1 DEF SpawnCheck, SpawnDies, SyncType, RowType
<1>4. CASE SpawnLaunch(r)
  <2>1. HandsType'
    <3>1. CASE worker' = worker
      BY <1>4, <3>1 DEF SpawnLaunch, HandsType, Attempt, IdleAttempt, Listed
    <3>2. CASE worker' # worker
      <4>1. /\ worker' = [worker EXCEPT ![r] = [at |-> "alive", task |-> attempt[r].task, exit |-> "zero"]]
            /\ attempt' = [attempt EXCEPT ![r] = IdleAttempt] /\ row' = row
            /\ Listed(attempt[r].task)
        BY <1>4, <3>2 DEF SpawnLaunch, HandsType
      <4> QED BY <4>1 DEF HandsType, Attempt, Worker, ExitKind, IdleAttempt, Listed
    <3> QED BY <3>1, <3>2
  <2> QED BY <1>4, <2>1 DEF SpawnLaunch, SyncType, RowType
<1>5. CASE SpawnUnclaim(r)
  <2> DEFINE t == attempt[r].task
  <2>1. t \in Tasks /\ row[t] \in Row
    BY <1>5 DEF SpawnUnclaim, HandsType, Listed
  <2>2. RowType' /\ \A u \in Tasks : row[u] \in Row => row'[u] \in Row
    <3>1. [row[t] EXCEPT !.status = "pending", !.owner = NoOne] \in Row
      BY <2>1, RewrittenType DEF TaskStatus
    <3>2. row' = [row EXCEPT ![t] = [row[t] EXCEPT !.status = "pending", !.owner = NoOne]]
      BY <1>5, <2>1 DEF SpawnUnclaim, Requeued, RowType
    <3> QED BY <2>1, <3>1, <3>2, RowsRewritten
  <2>3. HandsType'
    BY <1>5, <2>2 DEF SpawnUnclaim, HandsType, Attempt, IdleAttempt, Listed
  <2> QED BY <1>5, <2>2, <2>3 DEF SpawnUnclaim, SyncType
<1> QED BY <1>1, <1>2, <1>3, <1>4, <1>5

LEMMA WorkerTypes ==
  ASSUME TypeInv, NEW r \in Ralphs, WorkerExits(r) \/ ExitFinds(r) \/ ExitWrites(r)
  PROVE  TypeInv'
<1> USE DEF TypeInv
<1>1. CASE WorkerExits(r)
  <2>1. PICK kind \in ExitKind : worker' = [worker EXCEPT ![r].at = "dead", ![r].exit = kind]
    BY <1>1 DEF WorkerExits
  <2>2. worker[r] \in Worker /\ worker[r].at # "none" /\ UNCHANGED <<row, attempt>>
    BY <1>1 DEF WorkerExits, Alive, HandsType
  <2>3. [worker[r] EXCEPT !.at = "dead", !.exit = kind] \in Worker
    BY <2>2 DEF Worker
  <2>4. worker' \in [Ralphs -> Worker]
    BY <2>1, <2>3 DEF HandsType
  <2>5. \A q \in Ralphs : worker'[q].at # "none" => worker[q].at # "none"
                                              /\ worker'[q].task = worker[q].task
    BY <2>1, <2>2 DEF HandsType, Worker
  <2>6. HandsType'
    BY <2>2, <2>4, <2>5 DEF HandsType, Listed
  <2> QED BY <1>1, <2>6 DEF WorkerExits, SyncType, RowType
<1>2. CASE ExitFinds(r)
  <2>1. \A t \in Tasks : row[t].status = "active" => row[t] \in Row
    BY DEF RowType, NoRow
  <2>2. HandsType'
    BY <1>2, <2>1 DEF ExitFinds, HandsType, Worker, NoWorker, ExitKind, Listed
  <2> QED BY <1>2, <2>2 DEF ExitFinds, SyncType, RowType
<1>3. CASE ExitWrites(r)
  <2> DEFINE t == worker[r].task
  <2>1. t \in Tasks /\ row[t] \in Row
    BY <1>3 DEF ExitWrites, HandsType, Listed
  <2>2. /\ [row[t] EXCEPT !.status = "completed"] \in Row
        /\ [row[t] EXCEPT !.status = "needs_review", !.owner = NoOne] \in Row
        /\ [row[t] EXCEPT !.status = "pending", !.owner = NoOne] \in Row
    BY <2>1, RewrittenType DEF TaskStatus
  <2>3. \/ row' = row
        \/ row' = [row EXCEPT ![t] = [row[t] EXCEPT !.status = "completed"]]
        \/ row' = [row EXCEPT ![t] = [row[t] EXCEPT !.status = "needs_review", !.owner = NoOne]]
        \/ row' = [row EXCEPT ![t] = [row[t] EXCEPT !.status = "pending", !.owner = NoOne]]
    BY <1>3, <2>1 DEF ExitWrites, Requeued, RowType
  <2>4. RowType' /\ \A u \in Tasks : row[u] \in Row => row'[u] \in Row
    BY <2>1, <2>2, <2>3, RowsRewritten DEF RowType
  <2>5. HandsType'
    BY <1>3, <2>4 DEF ExitWrites, HandsType, Worker, NoWorker, ExitKind, Listed
  <2> QED BY <1>3, <2>4, <2>5 DEF ExitWrites, SyncType
<1> QED BY <1>1, <1>2, <1>3

LEMMA PlanTypes ==
  ASSUME TypeInv, (\E t \in Tasks : EditPlan(t)) \/ (\E r \in Ralphs : TickPlan(r))
  PROVE  TypeInv'
<1>1. plan' \in Plan
  <2>1. ASSUME NEW t \in Tasks, EditPlan(t) PROVE plan' \in Plan
    BY <2>1 DEF TypeInv, EditPlan, Plan
  <2>2. ASSUME NEW r \in Ralphs, TickPlan(r) PROVE plan' \in Plan
    BY <2>2 DEF TypeInv, TickPlan, Plan
  <2> QED BY <2>1, <2>2
<1>2. UNCHANGED <<row, sync, attempt, worker, overlap>>
  BY DEF EditPlan, TickPlan
<1> QED BY <1>1, <1>2 DEF TypeInv, SyncType, RowType, HandsType, Listed

LEMMA NextTypes == TypeInv /\ [Next]_vars => TypeInv'
<1>1. TypeInv /\ UNCHANGED vars => TypeInv'
  BY DEF vars, TypeInv, SyncType, RowType, HandsType, Listed
<1> QED BY <1>1, SyncTypes, SpawnTypes, WorkerTypes, PlanTypes DEF Next

LEMMA AlwaysTyped == Spec => []TypeInv
BY InitTypes, NextTypes, PTL DEF Spec

\* Rows, plan and every process at work on them keep their types.
THEOREM TypeCorrect == Spec => []TypeOK
BY AlwaysTyped, TypeInvTypes, PTL

-----------------------------------------------------------------------------
(***************************************************************************)
(* Who holds what while no sync has run next to a claim or a worker.       *)
(***************************************************************************)
Holds(r, t) == row[t].status = "active" /\ row[t].owner = r

\* Without a row before its claim; with at most the claimed one before it is
\* checked; from then on with its row.
Claimant(r) ==
  /\ attempt[r].at = "claim" => \A u \in Tasks : row[u].owner # r
  /\ attempt[r].at = "check" =>
       \A u \in Tasks : row[u].owner = r => u = attempt[r].task /\ row[u].status = "active"
  /\ attempt[r].at \in {"launch", "unclaim"} => Holds(r, attempt[r].task)

\* Only an id that spawns nothing has a process.
Runner(r) ==
  worker[r].at # "none" => attempt[r].at = "idle" /\ Holds(r, worker[r].task)

Hands == \A r \in Ralphs : Claimant(r) /\ Runner(r)

Graded ==
  \A t \in Tasks : row[t].status \in {"pending", "active", "needs_review"} => row[t].letter # "F"

\* A sync that has begun is alone, and the row it will reopen is still open.
SyncAlone ==
  /\ sync.at # "idle" => Quiet
  /\ sync.at = "write" => row[sync.first].status # "completed"

CalmInv == overlap \/ (Hands /\ Graded /\ SyncAlone)

\* What a step may do to the rows: leave them, or change one that nobody but r
\* holds.
OneRow(r, t) ==
  /\ \A u \in Tasks \ {t} : row'[u] = row[u]
  /\ row[t].status = "pending" \/ Holds(r, t)

\* The hands of another id stay as they are.
LEMMA OthersHands ==
  ASSUME TypeInv, Hands, NEW r \in Ralphs, NEW t \in Tasks, NEW q \in Ralphs \ {r},
         OneRow(r, t), row'[t].owner \in {r, NoOne}, attempt'[q] = attempt[q], worker'[q] = worker[q]
  PROVE  Claimant(q)' /\ Runner(q)'
<1>1. q # NoOne
  BY GradedAssumption
<1>2. Claimant(q) /\ Runner(q)
  BY DEF Hands
<1>3. attempt[q].at \in {"launch", "unclaim"} => attempt[q].task \in Tasks
  BY DEF TypeInv, HandsType, Listed
<1>4. worker[q].at # "none" => worker[q].task \in Tasks
  BY DEF TypeInv, HandsType, Listed
<1>5. ~Holds(q, t) \/ row[t].owner = r
  BY DEF OneRow, Holds
<1>6. ~Holds(q, t)
  BY <1>5 DEF Holds
<1>7. Claimant(q)'
  BY <1>1, <1>2, <1>3, <1>6 DEF OneRow, Claimant, Holds
<1>8. Runner(q)'
  BY <1>2, <1>4, <1>6 DEF OneRow, Runner, Holds
<1> QED BY <1>7, <1>8

LEMMA InitCalm == Init => CalmInv
BY DEF Init, CalmInv, Hands, Claimant, Runner, Holds, Graded, SyncAlone, IdleAttempt, NoWorker, NoRow, NoSync

-----------------------------------------------------------------------------
\* A sync among claims and workers gives up the promise; alone, it grades.
LEMMA SyncCalm ==
  ASSUME TypeInv, CalmInv, SyncRead \/ SyncLook \/ SyncWrite PROVE CalmInv'
<1>1. CASE SyncRead
  <2>1. UNCHANGED <<row, attempt, worker>> /\ sync'.at = "look" /\ overlap' = (overlap \/ ~ Quiet)
    BY <1>1 DEF SyncRead
  <2>2. Quiet => SyncAlone'
    BY <2>1 DEF SyncAlone, Quiet
  <2>3. /\ Hands => Hands'
        /\ Graded => Graded'
    BY <2>1 DEF Hands, Claimant, Runner, Holds, Graded
  <2>4. CASE Quiet /\ ~ overlap
    BY <2>2, <2>3, <2>4 DEF CalmInv
  <2>5. CASE ~ Quiet \/ overlap
    BY <2>1, <2>5 DEF CalmInv
  <2> QED BY <2>4, <2>5
<1>2. CASE SyncLook
  <2>1. UNCHANGED <<row, attempt, worker>> /\ overlap' = overlap /\ sync.at # "idle"
    BY <1>2 DEF SyncLook
  <2>2. Quiet => Quiet'
    BY <2>1 DEF Quiet
  <2>3. sync'.at = "write" => row[sync'.first].status # "completed"
    <3>1. ASSUME NEW t \in Tasks, row[t].status # "completed",
                 sync' = [sync EXCEPT !.at = "write", !.first = t]
          PROVE  row[sync'.first].status # "completed"
      BY <3>1 DEF TypeInv, SyncType
    <3>2. CASE sync' = NoSync
      BY <3>2 DEF NoSync
    <3> QED BY <1>2, <3>1, <3>2 DEF SyncLook
  <2>4. SyncAlone => SyncAlone'
    BY <2>1, <2>2, <2>3 DEF SyncAlone
  <2>5. (Hands => Hands') /\ (Graded => Graded')
    BY <2>1 DEF Hands, Claimant, Runner, Holds, Graded
  <2>6. overlap => overlap'
    BY <2>1
  <2> QED BY <2>4, <2>5, <2>6 DEF CalmInv
<1>3. CASE SyncWrite /\ ~overlap
  <2>1. Quiet /\ Hands /\ UNCHANGED <<attempt, worker>>
    BY <1>3 DEF SyncWrite, CalmInv, SyncAlone
  <2>2. \A t \in Tasks : row'[t].owner = row[t].owner
    <3> SUFFICES ASSUME NEW t \in Tasks PROVE row'[t].owner = row[t].owner
      OBVIOUS
    <3>1. row[t] \in Row \cup {NoRow}
      BY DEF TypeInv, RowType
    <3>2. [row[t] EXCEPT !.status = "pending"].owner = row[t].owner
      BY <3>1 DEF Row, NoRow
    <3> QED BY <1>3, <3>2 DEF SyncWrite, Synced
  <2>3. Hands'
    BY <2>1, <2>2 DEF Quiet, Hands, Claimant, Runner, Holds
  <2>4. Graded'
    <3> SUFFICES ASSUME NEW t \in Tasks, row'[t].status # "completed", row'[t].status # "blocked"
                 PROVE  row'[t].letter # "F"
      BY DEF Graded
    <3>1. \A old : LET new == Synced(old, sync.plan[t])
                   IN  new.status \notin {"completed", "blocked"} => new.letter # "F"
      BY DEF Synced, SyncedStatus
    <3> QED BY <1>3, <3>1 DEF SyncWrite
  <2>5. SyncAlone'
    BY <1>3 DEF SyncWrite, SyncAlone, NoSync
  <2> QED BY <2>3, <2>4, <2>5 DEF CalmInv
<1>4. CASE SyncWrite /\ overlap
  BY <1>4 DEF SyncWrite, CalmInv
<1> QED BY <1>1, <1>2, <1>3, <1>4

\* Looking for a task, and dying, change no row.
LEMMA LookCalm ==
  ASSUME TypeInv, CalmInv, ~overlap, NEW r \in Ralphs,
         (\E t \in Tasks : SpawnLook(r, t)) \/ SpawnCheck(r) \/ SpawnLaunch(r) \/ SpawnDies(r)
  PROVE  CalmInv'
<1> USE DEF TypeInv, HandsType
<1>1. Hands /\ Graded /\ SyncAlone /\ UNCHANGED <<row, sync>>
  BY DEF CalmInv, SpawnLook, SpawnCheck, SpawnLaunch, SpawnDies
<1>2. ASSUME NEW q \in Ralphs \ {r} PROVE Claimant(q)' /\ Runner(q)'
  <2>1. attempt'[q] = attempt[q] /\ worker'[q] = worker[q]
    BY DEF SpawnLook, SpawnCheck, SpawnLaunch, SpawnDies
  <2> QED BY <1>1, <2>1 DEF Hands, Claimant, Runner, Holds
<1>3. Claimant(r)' /\ Runner(r)'
  <2>1. Claimant(r) /\ Runner(r)
    BY <1>1 DEF Hands
  <2>2. CASE \E t \in Tasks : SpawnLook(r, t)
    BY <1>1, <2>2 DEF SpawnLook, Claimant, Runner, Holds
  <2>3. CASE SpawnCheck(r)
    <3>1. attempt[r].at = "check" /\ attempt[r].task \in Tasks
      BY <2>3 DEF SpawnCheck, Listed
    <3>2. row[attempt[r].task].owner = r => Holds(r, attempt[r].task)
      BY <2>1, <3>1 DEF Claimant, Holds
    <3>3. worker' = worker /\ worker[r].at = "none"
      BY <2>1, <2>3, <3>1 DEF SpawnCheck, Runner
    <3>4. attempt' = [attempt EXCEPT ![r] = IF row[attempt[r].task].owner = r
                                            THEN [attempt[r] EXCEPT !.at = "launch"] ELSE IdleAttempt]
      BY <2>3 DEF SpawnCheck
    <3>5. attempt'[r] = IF row[attempt[r].task].owner = r
                        THEN [attempt[r] EXCEPT !.at = "launch"] ELSE IdleAttempt
      BY <3>4
    <3>6. CASE row[attempt[r].task].owner = r
      <4>1. attempt'[r].at = "launch" /\ attempt'[r].task = attempt[r].task
        BY <3>5, <3>6 DEF Attempt
      <4> QED BY <1>1, <3>2, <3>3, <3>6, <4>1 DEF Claimant, Runner, Holds
    <3>7. CASE row[attempt[r].task].owner # r
      <4>1. attempt'[r].at = "idle"
        BY <3>5, <3>7 DEF IdleAttempt
      <4> QED BY <3>3, <4>1 DEF Claimant, Runner
    <3> QED BY <3>6, <3>7
  <2>4. CASE SpawnLaunch(r)
    BY <1>1, <2>1, <2>4 DEF SpawnLaunch, Claimant, Runner, Holds, IdleAttempt, Attempt, Worker
  <2>5. CASE SpawnDies(r)
    BY <1>1, <2>1, <2>5 DEF SpawnDies, Claimant, Runner, Holds, IdleAttempt
  <2> QED BY <2>2, <2>3, <2>4, <2>5
<1>4. SyncAlone'
  <2>1. CASE SpawnLaunch(r) \/ SpawnCheck(r)
    <3>1. ~Quiet
      BY <2>1 DEF SpawnLaunch, SpawnCheck, Quiet
    <3> QED BY <1>1, <3>1 DEF SyncAlone
  <2>2. CASE (\E t \in Tasks : SpawnLook(r, t)) \/ SpawnDies(r)
    <3>1. Quiet => Quiet'
      BY <2>2 DEF SpawnLook, SpawnDies, Quiet, IdleAttempt
    <3> QED BY <1>1, <3>1 DEF SyncAlone
  <2> QED BY <2>1, <2>2
<1>5. Graded'
  BY <1>1 DEF Graded
<1> QED BY <1>2, <1>3, <1>4, <1>5 DEF CalmInv, Hands

\* The claim takes a pending row only, so nobody holds it.
LEMMA ClaimCalm ==
  ASSUME TypeInv, CalmInv, ~overlap, NEW r \in Ralphs, SpawnClaim(r) PROVE CalmInv'
<1> DEFINE t == attempt[r].task
<1> SUFFICES ASSUME sync.at = "idle" PROVE CalmInv'
  BY DEF SpawnClaim, CalmInv
<1>1. /\ attempt[r].at = "claim" /\ t \in Tasks /\ row[t] \in Row
      /\ attempt' = [attempt EXCEPT ![r].at = "check"] /\ UNCHANGED <<sync, worker>>
      /\ Hands /\ Graded
  BY DEF SpawnClaim, CalmInv, TypeInv, HandsType, Listed
<1>2. worker[r].at = "none" /\ \A u \in Tasks : row[u].owner # r
  BY <1>1 DEF Hands, Claimant, Runner
<1>3. attempt'[r].at = "check" /\ attempt'[r].task = t
  BY <1>1 DEF TypeInv, HandsType, Attempt
<1>4. SyncAlone'
  BY <1>1 DEF SyncAlone
<1>5. CASE row[t].status = "pending"
  <2>1. /\ \A u \in Tasks \ {t} : row'[u] = row[u]
        /\ row'[t].status = "active" /\ row'[t].owner = r /\ row'[t].letter = row[t].letter
    BY <1>1, <1>5 DEF SpawnClaim, TypeInv, RowType, Row
  <2>2. Claimant(r)' /\ Runner(r)'
    BY <1>1, <1>2, <1>3, <2>1 DEF Claimant, Runner
  <2>3. ASSUME NEW q \in Ralphs \ {r} PROVE Claimant(q)' /\ Runner(q)'
    BY <1>1, <1>5, <2>1, OthersHands DEF OneRow
  <2>4. Graded'
    BY <1>1, <1>5, <2>1 DEF Graded
  <2> QED BY <1>4, <2>2, <2>3, <2>4 DEF CalmInv, Hands
<1>6. CASE row[t].status # "pending"
  <2>1. row' = row
    BY <1>6 DEF SpawnClaim
  <2>2. Claimant(r)' /\ Runner(r)'
    BY <1>1, <1>2, <1>3, <2>1 DEF Claimant, Runner
  <2>3. ASSUME NEW q \in Ralphs \ {r} PROVE Claimant(q)' /\ Runner(q)'
    BY <1>1, <2>1 DEF Hands, Claimant, Runner, Holds
  <2> QED BY <1>1, <1>4, <2>1, <2>2, <2>3 DEF CalmInv, Hands, Graded
<1> QED BY <1>5, <1>6

\* A row is given back, or written for an exit, by the one that holds it.
LEMMA HolderCalm ==
  ASSUME TypeInv, CalmInv, ~overlap, NEW r \in Ralphs, SpawnUnclaim(r) \/ ExitWrites(r)
  PROVE  CalmInv' /\ \E t \in Tasks : Holds(r, t) /\ \A u \in Tasks \ {t} : row'[u] = row[u]
<1> DEFINE t == IF attempt[r].at = "unclaim" THEN attempt[r].task ELSE worker[r].task
<1>1. Hands /\ Graded /\ SyncAlone /\ UNCHANGED <<sync, overlap>>
  BY DEF CalmInv, SpawnUnclaim, ExitWrites
<1>2. t \in Tasks /\ Holds(r, t) /\ row[t] \in Row /\ ~Quiet
  <2>1. CASE SpawnUnclaim(r)
    BY <1>1, <2>1 DEF SpawnUnclaim, Hands, Claimant, TypeInv, HandsType, Listed, Quiet
  <2>2. CASE ExitWrites(r)
    BY <1>1, <2>2 DEF ExitWrites, Hands, Runner, TypeInv, HandsType, Listed, Quiet
  <2> QED BY <2>1, <2>2
<1>3. /\ attempt'[r].at = "idle" /\ worker'[r].at = "none"
      /\ \A q \in Ralphs \ {r} : attempt'[q] = attempt[q] /\ worker'[q] = worker[q]
  <2>1. CASE SpawnUnclaim(r)
    BY <1>1, <2>1 DEF SpawnUnclaim, IdleAttempt, Hands, Runner, TypeInv, HandsType
  <2>2. CASE ExitWrites(r)
    BY <1>1, <2>2 DEF ExitWrites, NoWorker, Hands, Runner, TypeInv, HandsType
  <2> QED BY <2>1, <2>2
<1>4. /\ \A u \in Tasks \ {t} : row'[u] = row[u]
      /\ row'[t].owner \in {r, NoOne} /\ row'[t].letter = row[t].letter
  <2>1. CASE SpawnUnclaim(r)
    BY <1>2, <2>1 DEF SpawnUnclaim, Requeued, TypeInv, RowType, Row
  <2>2. CASE ExitWrites(r)
    <3>1. worker[r].at # "none" /\ attempt[r].at = "idle"
      BY <1>1, <2>2 DEF ExitWrites, Hands, Runner
    <3> QED BY <1>2, <2>2, <3>1 DEF ExitWrites, Requeued, TypeInv, RowType, Row, Holds
  <2> QED BY <2>1, <2>2
<1> HIDE DEF t
<1>5. ASSUME NEW q \in Ralphs \ {r} PROVE Claimant(q)' /\ Runner(q)'
  BY <1>1, <1>2, <1>3, <1>4, OthersHands DEF OneRow
<1>6. Claimant(r)' /\ Runner(r)'
  BY <1>3 DEF Claimant, Runner
<1>7. Graded'
  BY <1>1, <1>2, <1>4 DEF Graded, Holds
<1>8. SyncAlone'
  BY <1>1, <1>2 DEF SyncAlone
<1> QED BY <1>2, <1>4, <1>5, <1>6, <1>7, <1>8 DEF CalmInv, Hands

\* A worker that exits, and whose exit is looked up.
LEMMA ExitCalm ==
  ASSUME TypeInv, CalmInv, ~overlap, NEW r \in Ralphs, WorkerExits(r) \/ ExitFinds(r)
  PROVE  CalmInv'
<1> USE DEF TypeInv, HandsType
<1>1. Hands /\ Graded /\ SyncAlone /\ UNCHANGED <<row, sync, attempt>> /\ worker[r].at # "none"
  BY DEF CalmInv, WorkerExits, ExitFinds, Alive
<1>2. \A q \in Ralphs \ {r} : worker'[q] = worker[q]
  BY DEF WorkerExits, ExitFinds
<1>3. attempt[r].at = "idle" /\ Holds(r, worker[r].task)
  BY <1>1 DEF Hands, Runner
<1>4. worker'[r].at # "none" => Holds(r, worker'[r].task)
  <2>1. CASE WorkerExits(r)
    BY <1>3, <2>1 DEF WorkerExits, Worker
  <2>2. CASE ExitFinds(r)
    BY <1>3, <2>2 DEF ExitFinds, Worker, NoWorker, Holds
  <2> QED BY <2>1, <2>2
<1>5. Hands'
  BY <1>1, <1>2, <1>3, <1>4 DEF Hands, Claimant, Runner, Holds
<1>6. SyncAlone'
  BY <1>1 DEF SyncAlone, Quiet
<1> QED BY <1>1, <1>5, <1>6 DEF CalmInv, Graded

LEMMA NextCalm == TypeInv /\ CalmInv /\ [Next]_vars => CalmInv'
<1> SUFFICES ASSUME TypeInv, CalmInv, [Next]_vars PROVE CalmInv'
  OBVIOUS
<1>1. CASE overlap
  <2>1. overlap'
    BY <1>1 DEF Next, vars, SyncRead, SyncLook, SyncWrite, EditPlan, SpawnLook, TickPlan, WorkerExits,
                ExitFinds, ExitWrites, SpawnClaim, SpawnCheck, SpawnLaunch, SpawnUnclaim, SpawnDies
  <2> QED BY <2>1 DEF CalmInv
<1>2. CASE ~overlap
  <2>1. CASE (\E t \in Tasks : EditPlan(t)) \/ (\E r \in Ralphs : TickPlan(r)) \/ UNCHANGED vars
    <3>1. UNCHANGED <<row, sync, attempt, worker>>
      BY <2>1 DEF EditPlan, TickPlan, vars
    <3>2. Hands /\ Graded /\ SyncAlone
      BY <1>2 DEF CalmInv
    <3>3. Hands' /\ Graded'
      BY <3>1, <3>2 DEF Hands, Claimant, Runner, Holds, Graded
    <3>4. SyncAlone'
      BY <3>1, <3>2 DEF SyncAlone, Quiet
    <3> QED BY <3>3, <3>4 DEF CalmInv
  <2> QED BY <1>2, <2>1, SyncCalm, LookCalm, ClaimCalm, HolderCalm, ExitCalm DEF Next
<1> QED BY <1>1, <1>2

LEMMA AlwaysCalm == Spec => [](TypeInv /\ CalmInv)
<1>1. Init => TypeInv /\ CalmInv
  BY InitTypes, InitCalm
<1>2. (TypeInv /\ CalmInv) /\ [Next]_vars => (TypeInv /\ CalmInv)'
  BY NextTypes, NextCalm
<1> QED BY <1>1, <1>2, PTL DEF Spec

\* Two workers never share a task, and none works on one that may be handed out,
\* until a sync runs next to them.
THEOREM WorkersHold == Spec => []LiveHoldsItsTask
<1>1. CalmInv => LiveHoldsItsTask
  BY DEF CalmInv, Hands, Runner, Holds, LiveHoldsItsTask
<1> QED BY AlwaysCalm, <1>1, PTL

\* Nothing graded F is handed out, until a sync runs next to a claim.
THEOREM HandedOutGraded == Spec => []PendingIsGraded
<1>1. CalmInv => PendingIsGraded
  BY DEF CalmInv, Graded, PendingIsGraded
<1> QED BY AlwaysCalm, <1>1, PTL

-----------------------------------------------------------------------------
LEMMA CompletedStep ==
  ASSUME TypeInv, CalmInv, ~overlap, Next, NEW t \in Tasks, row[t].status = "completed"
  PROVE  row'[t].status = "completed"
<1>1. CASE SyncWrite
  <2>1. sync.first # t
    BY <1>1 DEF SyncWrite, CalmInv, SyncAlone
  <2> QED BY <1>1, <2>1 DEF SyncWrite, Synced
<1>2. ASSUME NEW r \in Ralphs, SpawnClaim(r) PROVE row'[t] = row[t]
  BY <1>2 DEF SpawnClaim, TypeInv, RowType
<1>3. ASSUME NEW r \in Ralphs, SpawnUnclaim(r) \/ ExitWrites(r) PROVE row'[t] = row[t]
  BY <1>3, HolderCalm DEF Holds
<1>4. CASE row' = row
  BY <1>4
<1> QED BY <1>1, <1>2, <1>3, <1>4
        DEF Next, SyncRead, SyncLook, EditPlan, SpawnLook, TickPlan, WorkerExits, ExitFinds,
            SpawnCheck, SpawnLaunch, SpawnDies

\* A completed task stays completed, until a sync runs next to a claim.
THEOREM CompletedFinal == Spec => CompletedStays
<1>1. TypeInv /\ CalmInv /\ [Next]_vars =>
        [overlap \/ \A t \in Tasks :
           row[t].status = "completed" => row'[t].status = "completed"]_row
  BY CompletedStep DEF vars
<1> QED BY AlwaysCalm, <1>1, PTL DEF Spec, CompletedStays

=============================================================================
