---------------------------- MODULE Coordination ----------------------------
(***************************************************************************)
(* chiefwiggum/coordination.py: the claim life cycle as concurrent         *)
(* database sessions run it.                                               *)
(*                                                                         *)
(* A session is one process talking to the database (the daemon, the TUI,  *)
(* a "wig" command).  It runs one API call at a time; a call is a sequence *)
(* of statements, each its own transaction, and the statements of two      *)
(* sessions interleave.  frame[s] is what session s has on its stack: the  *)
(* statement it will run next and what it read so far.  A session killed   *)
(* between two statements (Crash) loses its frame and nothing else.        *)
(***************************************************************************)
EXTENDS TaskTable, FiniteSets

CONSTANTS
  Session,      \* database sessions
  Calls,        \* [Session -> set of the API calls that session makes]
  Listed,       \* tasks already synced when the model starts
  UseWorktree,  \* ralphs whose config.use_worktree is set
  PlanEdits,    \* tasks a worker may tick in the fix plan itself
  HistCap       \* bound on the "completed" history rows counted per task

Op == {"claim_task", "extend_claim", "complete_task", "check_completions",
       "fail_task", "release_claim", "archive_task", "register", "heartbeat",
       "shutdown_instance", "delete_instance", "mark_stale", "stop_all",
       "pause_instance", "resume_instance", "sync", "bulk_requeue", "crash"}

ASSUME SessionAssumption ==
  /\ Calls \in [Session -> SUBSET Op]
  /\ Listed \subseteq Task
  /\ UseWorktree \subseteq Ralph
  /\ PlanEdits \subseteq Task
  /\ HistCap \in Nat \ {0}

VARIABLES
  tc,     \* task_claims
  ri,     \* ralph_instances
  trees,  \* git: the task whose branch is checked out in .worktrees/<ralph>
  plan,   \* @fix_plan.md: the tasks it shows as complete
  hist,   \* task_history: number of "completed" rows of each task
  frame   \* what each session is in the middle of

vars == <<tc, ri, trees, plan, hist, frame>>

-----------------------------------------------------------------------------
(***************************************************************************)
(* Frames.                                                                 *)
(***************************************************************************)
Label ==
  {"idle",
   "claim.clear_others", "claim.worktree", "claim.set_current",
   "complete.update", "complete.merge", "complete.mark_merged", "complete.history",
   "complete.set_current", "complete.fix_plan",
   "complete.unwind", "complete.unwind_current",
   "fail.set_current", "release.set_current", "shutdown.stop",
   "stale.release", "stale.crash", "stale.worktrees",
   "stop_all.release", "stop_all.stop", "sync.read", "sync.write",
   "check.extend", "check.read", "check.row", "check.clear"}

Frame == [at   : Label,
          r    : Ralph \cup {NULL},  \* ralph_id argument
          t    : Task \cup {NULL},   \* task at hand; when idle, the task obtained
          rs   : SUBSET Ralph,       \* ralph ids a SELECT returned, or a row named
          rows : SUBSET (Ralph \X Task), \* (ralph, current task) rows still to check
          ts   : SUBSET Task,        \* tasks of the parsed plan still to sync
          done : SUBSET Task,        \* tasks the parsed plan shows as complete
          seen : ClaimStatus,        \* status a SELECT returned
          ok   : BOOLEAN]            \* when idle, the value returned

Idle == [at |-> "idle", r |-> NULL, t |-> NULL, rs |-> {}, rows |-> {}, ts |-> {},
         done |-> {}, seen |-> "absent", ok |-> FALSE]

\* Labels of calls made for one ralph and one task.
TaskCall ==
  {"claim.clear_others", "claim.worktree", "claim.set_current",
   "complete.update", "complete.merge", "complete.mark_merged", "complete.history",
   "complete.set_current", "complete.fix_plan",
   "complete.unwind", "complete.unwind_current",
   "fail.set_current", "release.set_current", "check.clear"}

At(s, label) == frame[s].at = label

May(s, op) == At(s, "idle") /\ op \in Calls[s]

Call(s, label, r, t) ==
  frame' = [frame EXCEPT ![s] = [Idle EXCEPT !.at = label, !.r = r, !.t = t]]

CallOn(s, label, rs) ==
  frame' = [frame EXCEPT ![s] = [Idle EXCEPT !.at = label, !.rs = rs]]

Goto(s, label) == frame' = [frame EXCEPT ![s].at = label]

GotoWith(s, label, rs) ==
  frame' = [frame EXCEPT ![s] = [@ EXCEPT !.at = label, !.rs = rs]]

Return(s, ok) == frame' = [frame EXCEPT ![s] = [Idle EXCEPT !.ok = ok]]

ReturnTask(s, t) ==
  frame' = [frame EXCEPT ![s] = [Idle EXCEPT !.ok = TRUE, !.t = t]]

\* _record_task_history(..., "completed"); HistCap bounds the count.
Record(t) == hist' = [hist EXCEPT ![t] = IF @ < HistCap THEN @ + 1 ELSE @]

\* Mutant of Holds: no AND status = 'in_progress'.
HoldsInAnyStatus(r, t) == tc[t].owner = r

\* WHERE task_id = t AND claimed_by_ralph_id = r AND status = 'in_progress'
Holds(r, t) == Held(tc[t]) /\ tc[t].owner = r

-----------------------------------------------------------------------------
(***************************************************************************)
(* claim_task: one BEGIN IMMEDIATE transaction takes the row, then three   *)
(* more statements tidy the instance rows and make the worktree.           *)
(***************************************************************************)
ClaimTask(s, r) ==
  /\ May(s, "claim_task")
  /\ \/ \E t \in First(ClaimableTasks(tc)) :
          /\ tc' = [tc EXCEPT ![t] = Grant(@, r)]
          /\ Call(s, "claim.clear_others", r, t)
     \/ /\ ClaimableTasks(tc) = {}
        /\ Return(s, FALSE)
        /\ UNCHANGED tc
  /\ UNCHANGED <<ri, trees, plan, hist>>

ClaimClearOthers(s) ==
  /\ At(s, "claim.clear_others")
  /\ ri' = ClearOthers(ri, frame[s].t, frame[s].r)
  /\ Goto(s, "claim.worktree")
  /\ UNCHANGED <<tc, trees, plan, hist>>

\* create_worktree replaces whatever .worktrees/<ralph> held; when git
\* refuses, the claim goes on in the shared workspace.
ClaimWorktree(s) ==
  /\ At(s, "claim.worktree")
  /\ LET r == frame[s].r
         t == frame[s].t
     IN  \/ /\ Registered(ri, r) /\ r \in UseWorktree
            /\ trees' = [trees EXCEPT ![r] = t]
            /\ tc' = [tc EXCEPT ![t].wt = r]
         \/ /\ Registered(ri, r) /\ r \in UseWorktree
            /\ trees' \in {trees, [trees EXCEPT ![r] = NULL]}
            /\ UNCHANGED tc
         \/ /\ ~(Registered(ri, r) /\ r \in UseWorktree)
            /\ UNCHANGED <<tc, trees>>
  /\ Goto(s, "claim.set_current")
  /\ UNCHANGED <<ri, plan, hist>>

ClaimSetCurrent(s) ==
  /\ At(s, "claim.set_current")
  /\ ri' = SetCurrent(ri, frame[s].r, frame[s].t)
  /\ ReturnTask(s, frame[s].t)
  /\ UNCHANGED <<tc, trees, plan, hist>>

ExtendClaim(s, r, t) ==
  /\ May(s, "extend_claim")
  /\ Holds(r, t)
  /\ tc' = [tc EXCEPT ![t].lease = CLAIM_EXPIRY]
  /\ Return(s, TRUE)
  /\ UNCHANGED <<ri, trees, plan, hist>>

-----------------------------------------------------------------------------
(***************************************************************************)
(* complete_task: read, update, merge, then the bookkeeping of a success   *)
(* or the unwinding of a failed merge.                                     *)
(***************************************************************************)
\* Mutant of CompleteTask: no early return for a completed task.
CompleteTaskAgain(s, r, t) ==
  /\ May(s, "complete_task")
  /\ \/ tc[t].owner \in {NULL, r} /\ Call(s, "complete.update", r, t)
     \/ tc[t].owner \notin {NULL, r} /\ Return(s, FALSE)
  /\ UNCHANGED <<tc, ri, trees, plan, hist>>

CompleteTask(s, r, t) ==
  /\ May(s, "complete_task")
  /\ LET row   == tc[t]
         wrong == row.status = "absent" \/ row.owner \notin {NULL, r}
     IN  \/ row.status = "completed" /\ Return(s, TRUE)
         \/ row.status # "completed" /\ wrong /\ Return(s, FALSE)
         \/ row.status # "completed" /\ ~wrong /\ Call(s, "complete.update", r, t)
  /\ UNCHANGED <<tc, ri, trees, plan, hist>>

\* The UPDATE asks for the owner again, but not for the status.
CompleteUpdate(s) ==
  /\ At(s, "complete.update")
  /\ LET t == frame[s].t
     IN  \/ /\ tc[t].owner = frame[s].r
            /\ tc' = [tc EXCEPT ![t].status = "completed"]
            /\ Goto(s, "complete.merge")
         \/ /\ tc[t].owner # frame[s].r
            /\ Return(s, FALSE)
            /\ UNCHANGED tc
  /\ UNCHANGED <<ri, trees, plan, hist>>

\* Mutant of CompleteMerge: a failed merge is recorded like a success.
CompleteMergeUnchecked(s) ==
  /\ At(s, "complete.merge")
  /\ LET w == tc[frame[s].t].wt
     IN  \/ w # NULL /\ trees[w] = frame[s].t /\ GotoWith(s, "complete.mark_merged", {w})
         \/ Goto(s, "complete.history")
  /\ UNCHANGED <<tc, ri, trees, plan, hist>>

\* get_task_claim, then attempt_merge of the branch the row names.  Any merge
\* may conflict; cleanup_worktree deletes the branch with the worktree, and a
\* branch that is gone never merges.
CompleteMerge(s) ==
  /\ At(s, "complete.merge")
  /\ LET t == frame[s].t
         w == tc[t].wt
     IN  \/ /\ w = NULL
            /\ Goto(s, "complete.history")
            /\ UNCHANGED trees
         \/ /\ w # NULL /\ trees[w] = t
            /\ GotoWith(s, "complete.mark_merged", {w})
            /\ UNCHANGED trees
         \/ /\ w # NULL
            /\ trees' \in {trees, [trees EXCEPT ![w] = NULL]}
            /\ Goto(s, "complete.unwind")
  /\ UNCHANGED <<tc, ri, plan, hist>>

CompleteMarkMerged(s) ==
  /\ At(s, "complete.mark_merged")
  /\ tc' = [tc EXCEPT ![frame[s].t].merged = TRUE]
  /\ trees' \in {trees, [r \in Ralph |-> IF r \in frame[s].rs THEN NULL ELSE trees[r]]}
  /\ Goto(s, "complete.history")
  /\ UNCHANGED <<ri, plan, hist>>

CompleteHistory(s) ==
  /\ At(s, "complete.history")
  /\ Record(frame[s].t)
  /\ Goto(s, "complete.set_current")
  /\ UNCHANGED <<tc, ri, trees, plan>>

CompleteSetCurrent(s) ==
  /\ At(s, "complete.set_current")
  /\ ri' = SetCurrent(ri, frame[s].r, NULL)
  /\ Goto(s, "complete.fix_plan")
  /\ UNCHANGED <<tc, trees, plan, hist>>

\* update_fix_plan_on_completion may not find the file or the task in it.
CompleteFixPlan(s) ==
  /\ At(s, "complete.fix_plan")
  /\ plan' \in {plan, plan \cup {frame[s].t}}
  /\ Return(s, TRUE)
  /\ UNCHANGED <<tc, ri, trees, hist>>

\* Merge failed: "release task back to queue", WHERE task_id = t only.
CompleteUnwind(s) ==
  /\ At(s, "complete.unwind")
  /\ tc' = [tc EXCEPT ![frame[s].t] = [Relinquish(@) EXCEPT !.merged = FALSE]]
  /\ Goto(s, "complete.unwind_current")
  /\ UNCHANGED <<ri, trees, plan, hist>>

CompleteUnwindCurrent(s) ==
  /\ At(s, "complete.unwind_current")
  /\ ri' = SetCurrent(ri, frame[s].r, NULL)
  /\ Return(s, FALSE)
  /\ UNCHANGED <<tc, trees, plan, hist>>

FailTask(s, r, t) ==
  /\ May(s, "fail_task")
  /\ \/ /\ Holds(r, t)
        /\ tc' = [tc EXCEPT ![t].status = "failed"]
        /\ Call(s, "fail.set_current", r, t)
     \/ /\ ~Holds(r, t)
        /\ Return(s, FALSE)
        /\ UNCHANGED tc
  /\ UNCHANGED <<ri, trees, plan, hist>>

FailSetCurrent(s) ==
  /\ At(s, "fail.set_current")
  /\ ri' = SetCurrent(ri, frame[s].r, NULL)
  /\ Return(s, TRUE)
  /\ UNCHANGED <<tc, trees, plan, hist>>

ReleaseClaim(s, r, t) ==
  /\ May(s, "release_claim")
  /\ \/ /\ Holds(r, t)
        /\ tc' = [tc EXCEPT ![t] = Relinquish(@)]
        /\ Call(s, "release.set_current", r, t)
     \/ /\ ~Holds(r, t)
        /\ Return(s, FALSE)
        /\ UNCHANGED tc
  /\ UNCHANGED <<ri, trees, plan, hist>>

ReleaseSetCurrent(s) ==
  /\ At(s, "release.set_current")
  /\ ri' = SetCurrent(ri, frame[s].r, NULL)
  /\ Return(s, TRUE)
  /\ UNCHANGED <<tc, trees, plan, hist>>

ArchiveTask(s, t) ==
  /\ May(s, "archive_task")
  /\ tc[t].status = "completed"
  /\ tc' = [tc EXCEPT ![t].status = "archived"]
  /\ Return(s, TRUE)
  /\ UNCHANGED <<ri, trees, plan, hist>>

\* TUI bulk mode "p": owner and status are reset, expires_at is not.
BulkRequeue(s, t) ==
  /\ May(s, "bulk_requeue")
  /\ tc[t].status # "absent"
  /\ tc' = [tc EXCEPT ![t].status = "pending", ![t].owner = NULL]
  /\ Return(s, TRUE)
  /\ UNCHANGED <<ri, trees, plan, hist>>

-----------------------------------------------------------------------------
(***************************************************************************)
(* Instance rows.                                                          *)
(***************************************************************************)

\* INSERT ... ON CONFLICT DO UPDATE: an old row keeps its current_task_id.
Register(s, r) ==
  /\ May(s, "register")
  /\ ri' = [ri EXCEPT ![r].status = "active", ![r].age = 0]
  /\ Return(s, TRUE)
  /\ UNCHANGED <<tc, trees, plan, hist>>

Heartbeat(s, r) ==
  /\ May(s, "heartbeat")
  /\ Registered(ri, r)
  /\ ri' = [ri EXCEPT ![r].age = 0]
  /\ Return(s, TRUE)
  /\ UNCHANGED <<tc, trees, plan, hist>>

PauseInstance(s, r) ==
  /\ May(s, "pause_instance")
  /\ ri[r].status = "active"
  /\ ri' = SetStatus(ri, {r}, "paused")
  /\ Return(s, TRUE)
  /\ UNCHANGED <<tc, trees, plan, hist>>

ResumeInstance(s, r) ==
  /\ May(s, "resume_instance")
  /\ ri[r].status = "paused"
  /\ ri' = SetStatus(ri, {r}, "active")
  /\ Return(s, TRUE)
  /\ UNCHANGED <<tc, trees, plan, hist>>

DeleteInstance(s, r) ==
  /\ May(s, "delete_instance")
  /\ Registered(ri, r)
  /\ ri' = [ri EXCEPT ![r] = NoInstance]
  /\ Return(s, TRUE)
  /\ UNCHANGED <<tc, trees, plan, hist>>

ShutdownInstance(s, r) ==
  /\ May(s, "shutdown_instance")
  /\ tc' = ReleaseAll(tc, HeldBy(tc, {r}))
  /\ Call(s, "shutdown.stop", r, NULL)
  /\ UNCHANGED <<ri, trees, plan, hist>>

ShutdownStop(s) ==
  /\ At(s, "shutdown.stop")
  /\ ri' = Retire(ri, {frame[s].r}, "stopped")
  /\ Return(s, TRUE)
  /\ UNCHANGED <<tc, trees, plan, hist>>

StopAll(s) ==
  /\ May(s, "stop_all")
  /\ LET rs == InStatus(ri, {"active", "paused", "idle"})
     IN  rs # {} /\ CallOn(s, "stop_all.release", rs)
  /\ UNCHANGED <<tc, ri, trees, plan, hist>>

StopAllRelease(s) ==
  /\ At(s, "stop_all.release")
  /\ tc' = ReleaseAll(tc, HeldBy(tc, frame[s].rs))
  /\ Goto(s, "stop_all.stop")
  /\ UNCHANGED <<ri, trees, plan, hist>>

StopAllStop(s) ==
  /\ At(s, "stop_all.stop")
  /\ ri' = Retire(ri, frame[s].rs, "stopped")
  /\ Return(s, TRUE)
  /\ UNCHANGED <<tc, trees, plan, hist>>

\* mark_stale_instances_crashed: the SELECT decides who crashed, the
\* statements after it act on that answer.
MarkStale(s) ==
  /\ May(s, "mark_stale")
  /\ StaleInstances(ri) # {}
  /\ CallOn(s, "stale.release", StaleInstances(ri))
  /\ UNCHANGED <<tc, ri, trees, plan, hist>>

StaleRelease(s) ==
  /\ At(s, "stale.release")
  /\ tc' = ReleaseAll(tc, HeldBy(tc, frame[s].rs))
  /\ Goto(s, "stale.crash")
  /\ UNCHANGED <<ri, trees, plan, hist>>

StaleCrash(s) ==
  /\ At(s, "stale.crash")
  /\ ri' = Retire(ri, frame[s].rs, "crashed")
  /\ Goto(s, "stale.worktrees")
  /\ UNCHANGED <<tc, trees, plan, hist>>

\* cleanup_stale_worktrees keeps the directories of rows that are not crashed;
\* git may refuse to remove some of the others.
StaleWorktrees(s) ==
  /\ At(s, "stale.worktrees")
  /\ LET keep == InStatus(ri, InstanceStatus \ {"absent", "crashed"})
     IN  \E gone \in SUBSET (Ralph \ keep) :
           trees' = [r \in Ralph |-> IF r \in gone THEN NULL ELSE trees[r]]
  /\ Return(s, TRUE)
  /\ UNCHANGED <<tc, ri, plan, hist>>

-----------------------------------------------------------------------------
(***************************************************************************)
(* check_ralph_completions, which every refresh of the TUI runs: renew     *)
(* what the running workers hold, SELECT the active rows with a current    *)
(* task, then for each row do what the worker's process and log call for.  *)
(* Which workers run and what their logs say is the environment's choice.  *)
(***************************************************************************)

\* One BEGIN EXCLUSIVE transaction.  The UPDATE that completes the task may
\* match no row; history is written anyway.
CompleteAndClaimNext(r, t) ==
  /\ LET done == IF Holds(r, t) THEN [tc EXCEPT ![t].status = "completed"] ELSE tc
         idle == SetCurrent(ri, r, NULL)
     IN  \/ \E n \in First(PendingTasks(done)) :
              /\ tc' = [done EXCEPT ![n] = Grant(@, r)]
              /\ ri' = SetCurrent(ClearOthers(idle, n, r), r, n)
         \/ /\ PendingTasks(done) = {}
            /\ tc' = done
            /\ ri' = idle
  /\ Record(t)

CheckCompletions(s, running) ==
  /\ May(s, "check_completions")
  /\ ri' = [r \in Ralph |-> IF r \in running /\ Registered(ri, r)
                              THEN [ri[r] EXCEPT !.age = 0] ELSE ri[r]]
  /\ CallOn(s, "check.extend", running)
  /\ UNCHANGED <<tc, trees, plan, hist>>

\* "to avoid re-animating claims that mark_stale_instances_crashed() has
\* already released"
CheckExtend(s) ==
  /\ At(s, "check.extend")
  /\ LET alive == frame[s].rs \ InStatus(ri, {"absent", "crashed", "stopped"})
     IN  tc' = [t \in Task |-> IF t \in HeldBy(tc, alive)
                                 THEN [tc[t] EXCEPT !.lease = CLAIM_EXPIRY] ELSE tc[t]]
  /\ Goto(s, "check.read")
  /\ UNCHANGED <<ri, trees, plan, hist>>

\* Go on with the rows left to check.
CheckNext(s, rows) ==
  frame' = [frame EXCEPT ![s] =
              IF rows = {} THEN [Idle EXCEPT !.ok = TRUE]
                ELSE [Idle EXCEPT !.at = "check.row", !.rs = frame[s].rs, !.rows = rows]]

CheckRead(s) ==
  /\ At(s, "check.read")
  /\ CheckNext(s, {row \in Ralph \X Task :
                     ri[row[1]].status = "active" /\ ri[row[1]].current = row[2]})
  /\ UNCHANGED <<tc, ri, trees, plan, hist>>

\* release_claim of a worker that died, or fail_task of one whose log says so:
\* the first statement here, the second in CheckClear.
CheckEnds(s, r, t, row) ==
  /\ tc' = [tc EXCEPT ![t] = row]
  /\ LET left == frame[s].rows \ {<<r, t>>}
     IN  frame' = [frame EXCEPT ![s] =
                     [@ EXCEPT !.at = "check.clear", !.r = r, !.t = t, !.rows = left]]
  /\ UNCHANGED <<ri, hist>>

CheckOne(s, r, t) ==
  LET died == r \notin frame[s].rs
      left == frame[s].rows \ {<<r, t>>}
  IN  \/ died /\ Holds(r, t) /\ CheckEnds(s, r, t, Relinquish(tc[t]))
      \/ ~died /\ Holds(r, t) /\ CheckEnds(s, r, t, [tc[t] EXCEPT !.status = "failed"])
      \/ ~died /\ CompleteAndClaimNext(r, t) /\ CheckNext(s, left)
      \/ /\ died => ~Holds(r, t)   \* nothing to release, or nothing in the log
         /\ CheckNext(s, left)
         /\ UNCHANGED <<tc, ri, hist>>

CheckRow(s) ==
  /\ At(s, "check.row")
  /\ \E r \in Ralph, t \in Task : <<r, t>> \in frame[s].rows /\ CheckOne(s, r, t)
  /\ UNCHANGED <<trees, plan>>

CheckClear(s) ==
  /\ At(s, "check.clear")
  /\ ri' = SetCurrent(ri, frame[s].r, NULL)
  /\ CheckNext(s, frame[s].rows)
  /\ UNCHANGED <<tc, trees, plan, hist>>

-----------------------------------------------------------------------------
(***************************************************************************)
(* sync_tasks_from_fix_plan: parse the file once, then for each task a     *)
(* SELECT and an UPDATE or INSERT.                                         *)
(***************************************************************************)
Sync(s) ==
  /\ May(s, "sync")
  /\ Task # {}
  /\ frame' = [frame EXCEPT ![s] = [Idle EXCEPT !.at = "sync.read", !.ts = Task, !.done = plan]]
  /\ UNCHANGED <<tc, ri, trees, plan, hist>>

SyncRead(s) ==
  /\ At(s, "sync.read")
  /\ \E t \in frame[s].ts :
       frame' = [frame EXCEPT ![s].at = "sync.write", ![s].t = t, ![s].seen = tc[t].status]
  /\ UNCHANGED <<tc, ri, trees, plan, hist>>

\* An INSERT of a row another sync inserted meanwhile raises and ends the call.
SyncWrite(s) ==
  /\ At(s, "sync.write")
  /\ LET t    == frame[s].t
         left == frame[s].ts \ {t}
         next == IF left = {} THEN Return(s, TRUE)
                   ELSE frame' = [frame EXCEPT ![s].at = "sync.read", ![s].ts = left]
         tick == t \in frame[s].done
     IN  \/ /\ frame[s].seen = "absent" /\ tc[t].status = "absent"
            /\ tc' = [tc EXCEPT ![t] = NewClaim(IF tick THEN "completed" ELSE "pending")]
            /\ next
         \/ /\ frame[s].seen = "absent" /\ tc[t].status # "absent"
            /\ Return(s, FALSE)
            /\ UNCHANGED tc
         \/ /\ frame[s].seen \notin {"absent", "completed"} /\ tick
            /\ tc' = [tc EXCEPT ![t].status = "completed"]
            /\ next
         \/ /\ frame[s].seen # "absent"
            /\ frame[s].seen = "completed" \/ ~tick
            /\ next
            /\ UNCHANGED tc
  /\ UNCHANGED <<ri, trees, plan, hist>>

-----------------------------------------------------------------------------
(***************************************************************************)
(* The environment: time, workers that tick the plan, killed processes.    *)
(***************************************************************************)
Tick ==
  /\ tc' = AgeClaims(tc)
  /\ ri' = AgeInstances(ri)
  /\ UNCHANGED <<trees, plan, hist, frame>>

WorkerTicksPlan(t) ==
  /\ t \in PlanEdits
  /\ Held(tc[t])
  /\ plan' = plan \cup {t}
  /\ UNCHANGED <<tc, ri, trees, hist, frame>>

Crash(s) ==
  /\ "crash" \in Calls[s]
  /\ ~At(s, "idle")
  /\ Return(s, FALSE)
  /\ UNCHANGED <<tc, ri, trees, plan, hist>>

-----------------------------------------------------------------------------
Init ==
  /\ tc = [t \in Task |-> NewClaim(IF t \in Listed THEN "pending" ELSE "absent")]
  /\ ri = [r \in Ralph |-> NoInstance]
  /\ trees = [r \in Ralph |-> NULL]
  /\ plan = {}
  /\ hist = [t \in Task |-> 0]
  /\ frame = [s \in Session |-> Idle]

\* Statements of a call that is under way.
Continue(s) ==
  \/ ClaimClearOthers(s) \/ ClaimWorktree(s) \/ ClaimSetCurrent(s)
  \/ CompleteUpdate(s) \/ CompleteMerge(s) \/ CompleteMarkMerged(s)
  \/ CompleteHistory(s) \/ CompleteSetCurrent(s) \/ CompleteFixPlan(s)
  \/ CompleteUnwind(s) \/ CompleteUnwindCurrent(s)
  \/ FailSetCurrent(s) \/ ReleaseSetCurrent(s) \/ ShutdownStop(s)
  \/ StopAllRelease(s) \/ StopAllStop(s)
  \/ StaleRelease(s) \/ StaleCrash(s) \/ StaleWorktrees(s)
  \/ SyncRead(s) \/ SyncWrite(s)
  \/ CheckExtend(s) \/ CheckRead(s) \/ CheckRow(s) \/ CheckClear(s)

\* The first statement of a call.
Start(s) ==
  \/ MarkStale(s) \/ StopAll(s) \/ Sync(s)
  \/ \E r \in Ralph :
       \/ ClaimTask(s, r) \/ Register(s, r) \/ Heartbeat(s, r)
       \/ PauseInstance(s, r) \/ ResumeInstance(s, r)
       \/ ShutdownInstance(s, r) \/ DeleteInstance(s, r)
  \/ \E r \in Ralph, t \in Task :
       \/ CompleteTask(s, r, t) \/ ExtendClaim(s, r, t)
       \/ FailTask(s, r, t) \/ ReleaseClaim(s, r, t)
  \/ \E t \in Task : ArchiveTask(s, t) \/ BulkRequeue(s, t)
  \/ \E running \in SUBSET Ralph : CheckCompletions(s, running)

Next ==
  \/ \E s \in Session : Start(s) \/ Continue(s) \/ Crash(s)
  \/ \E t \in Task : WorkerTicksPlan(t)
  \/ Tick

Spec == Init /\ [][Next]_vars

-----------------------------------------------------------------------------
(***************************************************************************)
(* Properties.                                                             *)
(***************************************************************************)

\* Every variable keeps its type.
TypeOK ==
  /\ tc \in [Task -> Claim]
  /\ ri \in [Ralph -> Instance]
  /\ trees \in [Ralph -> Task \cup {NULL}]
  /\ plan \subseteq Task
  /\ hist \in [Task -> 0 .. HistCap]
  /\ frame \in [Session -> Frame]
  /\ \A s \in Session :
       frame[s].at \in TaskCall => frame[s].r \in Ralph /\ frame[s].t \in Task

\* A row under work always names a holder and an expiry, and a row waiting in
\* the queue names no holder: otherwise no WHERE clause of claim_task would
\* ever match it again and the task would be stuck for good.
ClaimWellFormed ==
  \A t \in Task :
    /\ Held(tc[t]) => tc[t].owner # NULL /\ tc[t].lease # NULL
    /\ tc[t].status \in {"absent", "pending"} => tc[t].owner = NULL

\* The premise of the next two: one session completes, with complete_task,
\* and nothing else moves tasks out of "completed".
SoleCompleter ==
  /\ \A s \in Session :
       Calls[s] \cap {"check_completions", "archive_task", "bulk_requeue"} = {}
  /\ \A q, s \in Session :
       "complete_task" \in Calls[q] /\ "complete_task" \in Calls[s] => q = s

\* A completion written to task_history is final: the task is never handed
\* out, reopened or marked failed afterwards (complete_task writes history
\* only once the merge, the last thing that can fail, is through).
RecordedIsFinal ==
  \A t \in Task : hist[t] > 0 => tc[t].status \in {"completed", "archived"}

\* complete_task is idempotent: whatever is retried, restarted or raced by
\* releases and crash detection, history shows a task completed at most once.
RecordedOnce == \A t \in Task : hist[t] <= 1

\* What complete_task records as completed from a worktree has been merged.
RecordedWorkIsMerged ==
  \A t \in Task : hist[t] > 0 /\ tc[t].wt # NULL => tc[t].merged

\* "Instances marked as crashed after 10 minutes without heartbeat" (README):
\* an instance marked crashed has been silent until that very step.
CrashedOnlyIfSilent ==
  [][\A r \in Ralph :
       ri[r].status = "active" /\ ri'[r].status = "crashed"
         => ri[r].age = HEARTBEAT_STALE]_vars

\* "already in a terminal state (completed / failed) ... a no-op success"
\* (complete_task): a failed task does not become completed.
FailedIsTerminal ==
  [][\A t \in Task :
       tc[t].status = "failed" => tc'[t].status # "completed"]_vars

Quiet == \A s \in Session : At(s, "idle")

\* "Before marking task as complete ... attempts auto-merge" (worktree notes):
\* with no call under way, a completed task's worktree branch has been merged.
CompletedWorkIsMerged ==
  Quiet => \A t \in Task :
    tc[t].status = "completed" /\ tc[t].wt # NULL => tc[t].merged

\* "Clear any stale current_task_id from other Ralphs" (claim_task): with no
\* call under way, no two instance rows show the same current task.
OneCurrentPerTask ==
  Quiet => \A q, r \in Ralph :
    ri[q].current # NULL /\ ri[q].current = ri[r].current => q = r

\* Session s is, in this step, inside a call made for ralph r: a call with r
\* as its argument, or a sweep whose SELECT returned r.
ActsFor(s, r) ==
  /\ frame'[s] # frame[s]
  /\ \/ r \in {frame[s].r, frame'[s].r}
     \/ r \in frame[s].rs

\* While a claim has not lapsed its holder loses it only through a call made
\* for that holder: no statement of another ralph's call, however long ago it
\* read the row, releases or takes it.
LiveClaimProtected ==
  [][\A t \in Task :
       Live(tc[t]) /\ (tc'[t].owner # tc[t].owner)
         => \E s \in Session : ActsFor(s, tc[t].owner)]_vars

\* The queue the tables implement: the entry of a task with this row and this
\* many completions in history.
EntryOf(row, completions) ==
  LET final == completions > 0 /\ row.status \in {"completed", "archived"}
      stage == CASE row.status = "absent"      -> "absent"
                 [] row.status = "pending"     -> "open"
                 [] row.status = "in_progress" -> "held"
                 [] final                      -> "final"
                 [] OTHER                      -> "closed"
  IN  [stage  |-> stage,
       holder |-> IF stage = "held" THEN row.owner ELSE NULL,
       live   |-> stage = "held" /\ ~Lapsed(row)]

Queue == INSTANCE WorkQueue WITH queue <- [t \in Task |-> EntryOf(tc[t], hist[t])]

\* coordination.py implements the work queue: a task is handed out only from
\* the queue or from a holder whose lease ran out, and stays done once final.
ImplementsQueue == Queue!Spec

=============================================================================
