------------------------------ MODULE TaskTable ------------------------------
(***************************************************************************)
(* The two tables every part of ChiefWiggum coordinates through, and the   *)
(* effect of each SQL statement coordination.py runs on them.              *)
(*                                                                         *)
(*   task_claims      one row per task of a fix plan: who holds it, until  *)
(*                    when, and how far it got                             *)
(*   ralph_instances  one row per registered worker ("ralph")              *)
(*                                                                         *)
(* database.py opens every connection in autocommit mode, so a statement   *)
(* outside BEGIN ... COMMIT is a transaction of its own: an operator below *)
(* is one atomic step of the modules that use it.                          *)
(***************************************************************************)
EXTENDS Integers

CONSTANTS
  Task,            \* task_id values
  Ralph,           \* ralph_id values
  NULL,            \* SQL NULL / Python None
  ClaimOrder,      \* rank of a task: PRIORITY_ORDER, then created_at
  CLAIM_EXPIRY,    \* clock ticks a claim lives (CLAIM_EXPIRY_MINUTES = 7)
  HEARTBEAT_STALE  \* clock ticks without heartbeat (HEARTBEAT_STALE_MINUTES = 10)

ASSUME TableAssumption ==
  /\ NULL \notin Task
  /\ NULL \notin Ralph
  /\ NULL \notin Nat
  /\ ClaimOrder \in [Task -> Nat]
  /\ CLAIM_EXPIRY \in Nat \ {0}
  /\ HEARTBEAT_STALE \in Nat \ {0}

-----------------------------------------------------------------------------
(***************************************************************************)
(* Rows.  A time column is kept as a distance from now: "lease" is how     *)
(* long expires_at is still ahead (0: it has passed, the SQL test is       *)
(* expires_at < now) and "age" how long ago last_heartbeat was (saturated  *)
(* at HEARTBEAT_STALE, where last_heartbeat < now - 10 minutes holds).     *)
(***************************************************************************)
ClaimStatus == {"absent", "pending", "in_progress", "completed", "failed", "archived"}
InstanceStatus == {"absent", "active", "idle", "paused", "stopped", "crashed"}

Claim == [status : ClaimStatus,
          owner  : Ralph \cup {NULL},              \* claimed_by_ralph_id
          lease  : (0 .. CLAIM_EXPIRY) \cup {NULL}, \* expires_at
          wt     : Ralph \cup {NULL},              \* worktree_path / _branch
          merged : BOOLEAN]                        \* merge_status = 'merged'

Instance == [status  : InstanceStatus,
             age     : 0 .. HEARTBEAT_STALE,
             current : Task \cup {NULL}]           \* current_task_id

NewClaim(status) ==
  [status |-> status, owner |-> NULL, lease |-> NULL, wt |-> NULL, merged |-> FALSE]

NoInstance == [status |-> "absent", age |-> 0, current |-> NULL]

Lapsed(row) == row.lease = 0

Held(row) == row.status = "in_progress"

\* A claim that is held and has not run out.
Live(row) == Held(row) /\ ~Lapsed(row)

HeldBy(tc, rs) == {t \in Task : Held(tc[t]) /\ tc[t].owner \in rs}

-----------------------------------------------------------------------------
(***************************************************************************)
(* task_claims statements.                                                 *)
(***************************************************************************)

\* Mutant of Claimable: expires_at < now is not asked for.
ClaimableUnexpired(row) ==
  \/ row.status = "pending" /\ row.owner = NULL
  \/ Held(row)

\* Mutant of Claimable: any status will do once the lease is over.
ClaimableAnyStatus(row) ==
  \/ row.status = "pending" /\ row.owner = NULL
  \/ Lapsed(row)

\* The WHERE clause of claim_task.
Claimable(row) ==
  /\ row.status = "pending" \/ (Held(row) /\ Lapsed(row))
  /\ row.owner = NULL \/ Lapsed(row)

ClaimableTasks(tc) == {t \in Task : Claimable(tc[t])}

\* The WHERE clause of complete_and_claim_next: it never takes a lapsed claim.
PendingTasks(tc) == {t \in Task : tc[t].status = "pending"}

\* for priority in PRIORITY_ORDER ... ORDER BY created_at LIMIT 1.  Rows of
\* one sync share created_at, and then either may come first.
First(S) == {t \in S : \A u \in S : ClaimOrder[t] <= ClaimOrder[u]}

Grant(row, r) ==
  [row EXCEPT !.status = "in_progress", !.owner = r, !.lease = CLAIM_EXPIRY]

\* Mutant of Relinquish: claimed_by_ralph_id is not reset.
RelinquishKeepingOwner(row) ==
  [row EXCEPT !.status = "pending", !.lease = NULL]

\* Back to the queue: every release path writes these four columns.
Relinquish(row) ==
  [row EXCEPT !.status = "pending", !.owner = NULL, !.lease = NULL]

ReleaseAll(tc, T) ==
  [t \in Task |-> IF t \in T THEN Relinquish(tc[t]) ELSE tc[t]]

-----------------------------------------------------------------------------
(***************************************************************************)
(* ralph_instances statements.  An UPDATE of a row that is not there       *)
(* changes nothing.                                                        *)
(***************************************************************************)
Registered(ri, r) == ri[r].status # "absent"

SetCurrent(ri, r, t) ==
  IF Registered(ri, r) THEN [ri EXCEPT ![r].current = t] ELSE ri

\* SET current_task_id = NULL WHERE current_task_id = t AND ralph_id != r
ClearOthers(ri, t, r) ==
  [q \in Ralph |-> IF q # r /\ ri[q].current = t
                     THEN [ri[q] EXCEPT !.current = NULL] ELSE ri[q]]

\* SET status = status, current_task_id = NULL WHERE ralph_id IN (rs)
Retire(ri, rs, status) ==
  [q \in Ralph |-> IF q \in rs /\ Registered(ri, q)
                     THEN [ri[q] EXCEPT !.status = status, !.current = NULL] ELSE ri[q]]

SetStatus(ri, rs, status) ==
  [q \in Ralph |-> IF q \in rs THEN [ri[q] EXCEPT !.status = status] ELSE ri[q]]

InStatus(ri, S) == {r \in Ralph : ri[r].status \in S}

StaleInstances(ri) ==
  {r \in Ralph : ri[r].status = "active" /\ ri[r].age = HEARTBEAT_STALE}

-----------------------------------------------------------------------------
(***************************************************************************)
(* The passing of one clock tick.                                          *)
(***************************************************************************)
AgeClaims(tc) ==
  [t \in Task |-> IF tc[t].lease = NULL \/ Lapsed(tc[t]) THEN tc[t]
                    ELSE [tc[t] EXCEPT !.lease = @ - 1]]

AgeInstances(ri) ==
  [r \in Ralph |-> IF ~Registered(ri, r) \/ ri[r].age = HEARTBEAT_STALE THEN ri[r]
                     ELSE [ri[r] EXCEPT !.age = @ + 1]]

=============================================================================
