-------------------------------- MODULE Fleet --------------------------------
(***************************************************************************)
(* The daemon's reconcile loop (daemon.py) with the processes around it:   *)
(* the workers it spawns, the outcome files they leave, the requests users *)
(* queue, the TUI's refresh, the clock, and crashes of any of them.  One   *)
(* project.                                                                *)
(*                                                                         *)
(* The daemon may die between any two of the steps below.  A step is one   *)
(* API call of coordination.py, taken as a whole: how the statements of    *)
(* the calls interleave is the subject of Coordination.  The refresh,      *)
(* check_ralph_completions, makes such calls itself on what it has read    *)
(* before; it is split into its reads and those calls.                     *)
(***************************************************************************)
EXTENDS TaskTable, FiniteSets

CONSTANTS
  Env,          \* what may happen around the daemon in this instance
  Timely,       \* BOOLEAN: no lease runs out while its holder needs it
  TuiKeepsUp,   \* BOOLEAN: the TUI refreshes at least once per clock tick
  MaxRequests,  \* bound on unconsumed spawn requests
  MaxCrashes    \* bound on crashes of the daemon

EnvAction ==
  {"spawn", "cancel", "intent_expires", "tui", "killed", "gives_up",
   "reports_failed", "breaks_off", "ticks_plan", "wrong_task", "launch_fails",
   "prompt_fails", "apply_raises"}

ASSUME FleetAssumption ==
  /\ IsFiniteSet(Ralph)
  /\ Env \subseteq EnvAction
  /\ Timely \in BOOLEAN
  /\ TuiKeepsUp \in BOOLEAN
  /\ MaxRequests \in Nat \ {0}
  /\ MaxCrashes \in Nat

VARIABLES
  tc,        \* task_claims
  ri,        \* ralph_instances
  recorded,  \* tasks with a "completed" row in task_history
  plan,      \* tasks @fix_plan.md shows as complete
  work,      \* the worker processes: what each does
  out,       \* outcome files
  req,       \* number of unconsumed spawn_requests
  intent,    \* who has made a spawn_request in the last 7 days
  cancel,    \* unconsumed cancel_requests
  d,         \* the daemon: where it is in its tick, and its locals
  tui,       \* the TUI: where it is in a refresh, and what it has read
  crashes,   \* crashes of the daemon so far
  won        \* history variable: tasks some worker has reported done

vars == <<tc, ri, recorded, plan, work, out, req, intent, cancel, d, tui, crashes, won>>
tables == <<tc, ri, recorded, plan>>
procs == <<work, out, won>>
requests == <<req, intent, cancel>>
others == <<tui, crashes>>

-----------------------------------------------------------------------------
(***************************************************************************)
(* Processes, files and the daemon's stack.                                *)
(*                                                                         *)
(* A worker runs the model on its task; the model may print that a task,   *)
(* named by its id, is done or has failed.  A stopping worker has been     *)
(* signalled (its pid file is gone), a leaving one has broken out of its   *)
(* loop, and one that reported has written its outcome file.               *)
(***************************************************************************)
Worker == [phase : {"none", "working", "stopping", "leaving", "reported"},
           task  : Task \cup {NULL},
           says  : {"nothing", "done", "failed"},  \* marker in its log
           id    : Task \cup {NULL}]               \* the task the marker names
NoWorker == [phase |-> "none", task |-> NULL, says |-> "nothing", id |-> NULL]

Outcome == [status : {"none", "success", "failed", "other"}, task : Task \cup {NULL}]
NoOutcome == [status |-> "none", task |-> NULL]

In(r, phases) == work[r].phase \in phases

\* get_running_ralphs: a pid file whose process lives.
Running == {r \in Ralph : In(r, {"working", "leaving", "reported"})}

Step == {"down", "asleep", "outcomes", "apply", "retire", "consume", "autospawn",
         "fetch", "sync", "claim", "register", "current", "launch", "unclaim",
         "served", "cancel"}

Daemon == [at    : Step,
           r     : Ralph \cup {NULL},  \* ralph at hand
           t     : Task \cup {NULL},   \* task claimed for it
           files : SUBSET Ralph,       \* outcome files still to process
           todo  : 0 .. MaxRequests]   \* fetched requests still to serve

Down == [at |-> "down", r |-> NULL, t |-> NULL, files |-> {}, todo |-> 0]

Tui == [at      : {"idle", "renew", "select", "rows"},
        running : SUBSET Ralph,                \* running_ralph_ids
        rows    : [Ralph -> Task \cup {NULL}]] \* task of each row still to handle
NoRows == [r \in Ralph |-> NULL]
TuiIdle == [at |-> "idle", running |-> {}, rows |-> NoRows]

At(step) == d.at = step
Goto(step) == d' = [d EXCEPT !.at = step]

\* WHERE task_id = t AND claimed_by_ralph_id = r AND status = 'in_progress'
Holds(r, t) == Held(tc[t]) /\ tc[t].owner = r

-----------------------------------------------------------------------------
(***************************************************************************)
(* Calls of coordination.py as single steps.  On this path no claim has a  *)
(* worktree: the ralph is registered only after it has claimed.            *)
(***************************************************************************)
Release(r, t) ==
  IF Holds(r, t)
    THEN /\ tc' = [tc EXCEPT ![t] = Relinquish(@)]
         /\ ri' = SetCurrent(ri, r, NULL)
    ELSE UNCHANGED <<tc, ri>>

Fail(r, t) ==
  IF Holds(r, t)
    THEN /\ tc' = [tc EXCEPT ![t].status = "failed"]
         /\ ri' = SetCurrent(ri, r, NULL)
    ELSE UNCHANGED <<tc, ri>>

\* complete_task; what it rejects the daemon tries to release, which finds
\* nothing either.
Complete(r, t) ==
  IF tc[t].owner = r /\ tc[t].status # "completed"
    THEN /\ tc' = [tc EXCEPT ![t].status = "completed"]
         /\ ri' = SetCurrent(ri, r, NULL)
         /\ recorded' = recorded \cup {t}
         /\ plan' \in {plan, plan \cup {t}}
    ELSE UNCHANGED tables

\* mark_stale_instances_crashed.
MarkStale ==
  /\ tc' = ReleaseAll(tc, HeldBy(tc, StaleInstances(ri)))
  /\ ri' = Retire(ri, StaleInstances(ri), "crashed")

\* complete_and_claim_next.  It asks neither for the state of r's row nor, when
\* it records and claims, whether its UPDATE matched.
CompleteAndClaimNext(r, t) ==
  LET done == IF Holds(r, t) THEN [tc EXCEPT ![t].status = "completed"] ELSE tc
      idle == SetCurrent(ri, r, NULL)
  IN  /\ recorded' = recorded \cup {t}
      /\ \/ \E n \in First(PendingTasks(done)) :
              /\ tc' = [done EXCEPT ![n] = Grant(@, r)]
              /\ ri' = SetCurrent(ClearOthers(idle, n, r), r, n)
         \/ PendingTasks(done) = {} /\ tc' = done /\ ri' = idle

-----------------------------------------------------------------------------
(***************************************************************************)
(* One tick of the daemon.                                                 *)
(***************************************************************************)
Start ==
  /\ At("down")
  /\ Goto("asleep")
  /\ UNCHANGED <<tables, procs, requests, others>>

\* Mutant of Sweep: instances that have a task count as busy, however silent.
SweepTheIdle ==
  /\ At("asleep")
  /\ LET gone == {r \in StaleInstances(ri) : ri[r].current = NULL}
     IN  tc' = ReleaseAll(tc, HeldBy(tc, gone)) /\ ri' = Retire(ri, gone, "crashed")
  /\ Goto("outcomes")
  /\ UNCHANGED <<recorded, plan, procs, requests, others>>

\* Mutant of Sweep: a dead process is enough, whether or not it left an outcome.
SweepTheDead ==
  /\ At("asleep")
  /\ LET gone == StaleInstances(ri) \cup {r \in InStatus(ri, {"active"}) : In(r, {"none"})}
     IN  tc' = ReleaseAll(tc, HeldBy(tc, gone)) /\ ri' = Retire(ri, gone, "crashed")
  /\ Goto("outcomes")
  /\ UNCHANGED <<recorded, plan, procs, requests, others>>

\* cleanup_dead_ralphs touches pid and status files only; then
\* mark_stale_instances_crashed.
Sweep ==
  /\ At("asleep")
  /\ MarkStale
  /\ Goto("outcomes")
  /\ UNCHANGED <<recorded, plan, procs, requests, others>>

NextFile(files) ==
  d' = [d EXCEPT !.at = IF files = {} THEN "autospawn" ELSE "apply",
                 !.r = NULL, !.files = files]

ListOutcomes ==
  /\ At("outcomes")
  /\ NextFile({r \in Ralph : out[r].status # "none"})
  /\ UNCHANGED <<tables, procs, requests, others>>

\* An exception while an outcome is applied is logged, and the file still
\* consumed.
ApplyOutcome(r) ==
  /\ At("apply") /\ r \in d.files
  /\ LET t == out[r].task
     IN  \/ /\ out[r].status = "success" /\ t # NULL
            /\ Complete(r, t)
            /\ d' = [d EXCEPT !.at = "retire", !.r = r]
         \/ /\ out[r].status = "failed" /\ t # NULL
            /\ Fail(r, t)
            /\ d' = [d EXCEPT !.at = "retire", !.r = r]
            /\ UNCHANGED <<recorded, plan>>
         \/ /\ out[r].status = "other" \/ t = NULL
            /\ IF t = NULL THEN UNCHANGED <<tc, ri>> ELSE Release(r, t)
            /\ d' = [d EXCEPT !.at = "retire", !.r = r]
            /\ UNCHANGED <<recorded, plan>>
         \/ /\ "apply_raises" \in Env
            /\ d' = [d EXCEPT !.at = "consume", !.r = r]
            /\ UNCHANGED tables
  /\ UNCHANGED <<procs, requests, others>>

\* Mutant of RetireWorker: the row is stopped and its claims are kept.
RetireWorkerOnly ==
  /\ At("retire")
  /\ ri' = Retire(ri, {d.r}, "stopped")
  /\ Goto("consume")
  /\ UNCHANGED <<tc, recorded, plan, procs, requests, others>>

\* shutdown_instance, whatever the outcome.
RetireWorker ==
  /\ At("retire")
  /\ tc' = ReleaseAll(tc, HeldBy(tc, {d.r}))
  /\ ri' = Retire(ri, {d.r}, "stopped")
  /\ Goto("consume")
  /\ UNCHANGED <<recorded, plan, procs, requests, others>>

ConsumeOutcome ==
  /\ At("consume")
  /\ out' = [out EXCEPT ![d.r] = NoOutcome]
  /\ NextFile(d.files \ {d.r})
  /\ UNCHANGED <<tables, work, won, requests, others>>

\* Mutant of NeedsRalph: any row of a ralph counts as a worker.
NeedsFirstRalph ==
  /\ intent # {}
  /\ PendingTasks(tc) # {}
  /\ InStatus(ri, {"absent"}) = Ralph

\* projects_needing_ralphs
NeedsRalph ==
  /\ intent # {}
  /\ PendingTasks(tc) # {}
  /\ InStatus(ri, {"active", "idle"}) = {}

\* A request of the daemon is a row like any other: it counts as intent too.
Autospawn ==
  /\ At("autospawn")
  /\ IF NeedsRalph /\ req = 0
       THEN req' = 1 /\ intent' = intent \cup {"daemon"}
       ELSE UNCHANGED <<req, intent>>
  /\ Goto("fetch")
  /\ UNCHANGED <<tables, procs, cancel, others>>

NextRequest(todo) ==
  d' = [d EXCEPT !.at = IF todo = 0 THEN "cancel" ELSE "sync",
                 !.r = NULL, !.t = NULL, !.todo = todo]

\* A ralph id carries a uuid; here an id that nothing refers to any more
\* stands for a new one.
Fresh(r) ==
  /\ In(r, {"none"}) /\ out[r] = NoOutcome /\ r \notin cancel
  /\ ri[r].status \in {"absent", "stopped", "crashed"}
  /\ \A t \in Task : tc[t].owner = r => tc[t].status = "completed"
  /\ r \notin tui.running /\ tui.rows[r] = NULL

\* The LIMIT is 10; here also the number of new ids there are.
FetchRequests ==
  /\ At("fetch")
  /\ LET ids == Cardinality({r \in Ralph : Fresh(r)})
     IN  NextRequest(IF req <= ids THEN req ELSE ids)
  /\ UNCHANGED <<tables, procs, requests, others>>

\* spawn_ralph_with_task_claim: sync, claim, register, set the current task,
\* start the process.
SpawnSync ==
  /\ At("sync")
  /\ tc' = [t \in Task |-> IF t \in plan THEN [tc[t] EXCEPT !.status = "completed"]
                             ELSE tc[t]]
  /\ Goto("claim")
  /\ UNCHANGED <<ri, recorded, plan, procs, requests, others>>

SpawnClaim ==
  /\ At("claim")
  /\ \/ \E r \in Ralph, t \in First(ClaimableTasks(tc)) :
          /\ Fresh(r)
          /\ tc' = [tc EXCEPT ![t] = Grant(@, r)]
          /\ ri' = ClearOthers([ri EXCEPT ![r] = NoInstance], t, r)
          /\ d' = [d EXCEPT !.at = "register", !.r = r, !.t = t]
     \/ /\ ClaimableTasks(tc) = {}
        /\ Goto("served")
        /\ UNCHANGED <<tc, ri>>
  /\ UNCHANGED <<recorded, plan, procs, requests, others>>

\* The prompt is written before the ralph is registered; when that raises, the
\* request is consumed with an error and the claim stays.
SpawnRegister ==
  /\ At("register")
  /\ \/ /\ ri' = [ri EXCEPT ![d.r].status = "active", ![d.r].age = 0]
        /\ Goto("current")
     \/ /\ "prompt_fails" \in Env
        /\ Goto("served")
        /\ UNCHANGED ri
  /\ UNCHANGED <<tc, recorded, plan, procs, requests, others>>

SpawnSetCurrent ==
  /\ At("current")
  /\ ri' = SetCurrent(ri, d.r, d.t)
  /\ Goto("launch")
  /\ UNCHANGED <<tc, recorded, plan, procs, requests, others>>

\* The launch fails before there is a process, or the process is dead after
\* 0.2 seconds, and then its exit handler may have left an outcome.
SpawnLaunch ==
  /\ At("launch")
  /\ \/ /\ work' = [work EXCEPT ![d.r] = [NoWorker EXCEPT !.phase = "working", !.task = d.t]]
        /\ Goto("served")
        /\ UNCHANGED out
     \/ /\ "launch_fails" \in Env
        /\ out' \in {out, [out EXCEPT ![d.r].status = "other"]}
        /\ Goto("unclaim")
        /\ UNCHANGED work
  /\ UNCHANGED <<tables, won, requests, others>>

SpawnUnclaim ==
  /\ At("unclaim")
  /\ Release(d.r, d.t)
  /\ Goto("served")
  /\ UNCHANGED <<recorded, plan, procs, requests, others>>

ConsumeRequest ==
  /\ At("served")
  /\ req' = req - 1
  /\ NextRequest(d.todo - 1)
  /\ UNCHANGED <<tables, procs, intent, cancel, others>>

\* SIGTERM to each named ralph that runs; a repeated one changes nothing.
ServeCancels ==
  /\ At("cancel")
  /\ work' = [r \in Ralph |-> IF r \in cancel \cap Running /\ ~In(r, {"reported"})
                                THEN [work[r] EXCEPT !.phase = "stopping"] ELSE work[r]]
  /\ cancel' = {}
  /\ Goto("asleep")
  /\ UNCHANGED <<tables, out, won, req, intent, others>>

DaemonStep ==
  \/ Start \/ Sweep \/ ListOutcomes \/ RetireWorker \/ ConsumeOutcome
  \/ \E r \in Ralph : ApplyOutcome(r)
  \/ Autospawn \/ FetchRequests \/ SpawnSync \/ SpawnClaim \/ SpawnRegister
  \/ SpawnSetCurrent \/ SpawnLaunch \/ SpawnUnclaim \/ ConsumeRequest \/ ServeCancels

DaemonCrash ==
  /\ ~At("down") /\ crashes < MaxCrashes
  /\ crashes' = crashes + 1
  /\ d' = Down
  /\ UNCHANGED <<tables, procs, requests, tui>>

-----------------------------------------------------------------------------
(***************************************************************************)
(* The workers (ralph_loop.sh).                                            *)
(***************************************************************************)
SetPhase(r, phase) == work' = [work EXCEPT ![r].phase = phase]

\* The model prints its status block.  The id is whatever it wrote: its task,
\* another one or nothing known.
WorkerSays(r) ==
  /\ In(r, {"working"}) /\ work[r].says = "nothing"
  /\ \E says \in {"done"} \cup (IF "reports_failed" \in Env THEN {"failed"} ELSE {}),
        id \in {work[r].task} \cup (IF "wrong_task" \in Env THEN Task \cup {NULL} ELSE {}) :
       work' = [work EXCEPT ![r].says = says, ![r].id = id]
  /\ UNCHANGED <<tables, out, won, requests, d, others>>

Report(r, status, t) ==
  /\ out' = [out EXCEPT ![r] = [status |-> status, task |-> t]]
  /\ SetPhase(r, "reported")
  /\ UNCHANGED <<tables, requests, d, others>>

WorkerSucceeds(r) ==
  /\ In(r, {"working"}) /\ work[r].says = "done"
  /\ Report(r, "success", work[r].id)
  /\ won' = won \cup ({work[r].id} \cap {work[r].task})

\* ralph_loop.sh goes on after a failure marker; outcome_cli can report it.
WorkerFails(r) ==
  /\ In(r, {"working"}) /\ work[r].says = "failed"
  /\ Report(r, "failed", work[r].id)
  /\ UNCHANGED won

\* Signals, errors, timeouts.  The exit handlers ask "wig instances" for the
\* current task: there is no such command, so the outcome names no task.
WorkerGivesUp(r) ==
  /\ \/ In(r, {"working"}) /\ "gives_up" \in Env
     \/ In(r, {"stopping", "leaving"})
  /\ Report(r, "other", NULL)
  /\ UNCHANGED won

\* A cost limit or an open circuit ends the loop.  release_current_task comes
\* first, but runs "wig release <ralph>" where the command wants a task and
\* --ralph-id: it fails, and only a warning is logged.
WorkerBreaksOff(r) ==
  /\ "breaks_off" \in Env /\ In(r, {"working"})
  /\ SetPhase(r, "leaving")
  /\ UNCHANGED <<tables, out, won, requests, d, others>>

\* A refresh that began while r was running reads its log all the same.
Gone(r) ==
  IF r \in tui.running THEN [NoWorker EXCEPT !.says = work[r].says, !.id = work[r].id]
                       ELSE NoWorker

WorkerExits(r) ==
  /\ In(r, {"reported"})
  /\ work' = [work EXCEPT ![r] = Gone(r)]
  /\ UNCHANGED <<tables, out, won, requests, d, others>>

\* SIGKILL, out of memory, power: no outcome.
WorkerKilled(r) ==
  /\ "killed" \in Env /\ ~In(r, {"none"})
  /\ work' = [work EXCEPT ![r] = Gone(r)]
  /\ UNCHANGED <<tables, out, won, requests, d, others>>

WorkerTicksPlan(r) ==
  /\ "ticks_plan" \in Env /\ In(r, {"working"})
  /\ plan' = plan \cup {work[r].task}
  /\ UNCHANGED <<tc, ri, recorded, procs, requests, d, others>>

WorkerEnds(r) ==
  WorkerSays(r) \/ WorkerSucceeds(r) \/ WorkerFails(r) \/ WorkerGivesUp(r)
    \/ WorkerExits(r)

-----------------------------------------------------------------------------
(***************************************************************************)
(* Users, the TUI and the clock.                                           *)
(***************************************************************************)
SpawnRequest ==
  /\ "spawn" \in Env /\ req < MaxRequests
  /\ req' = req + 1
  /\ intent' = intent \cup {"user"}
  /\ UNCHANGED <<tables, procs, cancel, d, others>>

CancelRequest(r) ==
  /\ "cancel" \in Env /\ r \in Running
  /\ cancel' = cancel \cup {r}
  /\ UNCHANGED <<tables, procs, req, intent, d, others>>

\* The last request of one of them gets too old (AUTOSPAWN_REQUEST_TTL_DAYS).
IntentExpires ==
  /\ "intent_expires" \in Env
  /\ \E who \in intent : intent' = intent \ {who}
  /\ UNCHANGED <<tables, procs, req, cancel, d, others>>

\* update_dashboard: check_ralph_completions and then the sweep.  Everything
\* around the TUI goes on between any two of its steps.
elsewhere == <<plan, procs, requests, d, crashes>>

\* running_ralph_ids
TuiBegins ==
  /\ "tui" \in Env /\ tui.at = "idle"
  /\ tui' = [tui EXCEPT !.at = "renew", !.running = Running]
  /\ UNCHANGED <<tc, ri, recorded, elsewhere>>

\* Heartbeats and leases of what was running.
TuiRenews ==
  /\ tui.at = "renew"
  /\ ri' = [r \in Ralph |-> IF r \in tui.running /\ Registered(ri, r)
                              THEN [ri[r] EXCEPT !.age = 0] ELSE ri[r]]
  /\ LET alive == tui.running \ InStatus(ri, {"absent", "crashed", "stopped"})
     IN  tc' = [t \in Task |-> IF t \in HeldBy(tc, alive)
                                 THEN [tc[t] EXCEPT !.lease = CLAIM_EXPIRY] ELSE tc[t]]
  /\ tui' = [tui EXCEPT !.at = "select"]
  /\ UNCHANGED <<recorded, elsewhere>>

\* One SELECT: the active rows with a current task.
TuiSelects ==
  /\ tui.at = "select"
  /\ tui' = [tui EXCEPT !.at = "rows",
                        !.rows = [r \in Ralph |-> IF ri[r].status = "active"
                                                    THEN ri[r].current ELSE NULL]]
  /\ UNCHANGED <<tc, ri, recorded, elsewhere>>

\* One row of it.  Neither the row nor whether r runs is read again; the log is.
TuiActs(r) ==
  /\ tui.at = "rows" /\ tui.rows[r] # NULL
  /\ LET t == tui.rows[r]
         marked == work[r].id = t /\ work[r].says \in {"done", "failed"}
     IN  \/ r \notin tui.running /\ Release(r, t) /\ UNCHANGED recorded
         \/ /\ r \in tui.running /\ marked
            /\ \/ work[r].says = "done" /\ CompleteAndClaimNext(r, t)
               \/ work[r].says = "failed" /\ Fail(r, t) /\ UNCHANGED recorded
         \/ r \in tui.running /\ ~marked /\ UNCHANGED <<tc, ri, recorded>>
  /\ tui' = [tui EXCEPT !.rows[r] = NULL]
  /\ UNCHANGED elsewhere

\* mark_stale_instances_crashed ends the refresh.
TuiSweeps ==
  /\ tui.at = "rows" /\ tui.rows = NoRows
  /\ MarkStale
  /\ tui' = TuiIdle
  /\ UNCHANGED <<recorded, elsewhere>>

\* An exception, or the user quits.
TuiQuits ==
  /\ tui.at # "idle"
  /\ tui' = TuiIdle
  /\ UNCHANGED <<tc, ri, recorded, elsewhere>>

TuiGoesOn == TuiRenews \/ TuiSelects \/ TuiSweeps \/ TuiQuits \/ \E r \in Ralph : TuiActs(r)

\* A claim whose holder works, has just left its outcome or is being spawned.
Needed(t) ==
  LET r == tc[t].owner
  IN  r # NULL /\ (r = d.r \/ ~In(r, {"none"}) \/ out[r].status # "none")

Tick ==
  /\ Timely => \A t \in Task : Held(tc[t]) /\ tc[t].lease = 1 => ~Needed(t)
  /\ TuiKeepsUp => \A r \in Running : Registered(ri, r) => ri[r].age = 0
  /\ tc' = AgeClaims(tc)
  /\ ri' = AgeInstances(ri)
  /\ UNCHANGED <<recorded, plan, procs, requests, d, others>>

-----------------------------------------------------------------------------
Init ==
  /\ tc = [t \in Task |-> NewClaim("pending")]
  /\ ri = [r \in Ralph |-> NoInstance]
  /\ recorded = {} /\ plan = {} /\ won = {} /\ cancel = {}
  /\ work = [r \in Ralph |-> NoWorker]
  /\ out = [r \in Ralph |-> NoOutcome]
  /\ req = 1 /\ intent = {"user"}
  /\ d = Down /\ tui = TuiIdle /\ crashes = 0

Next ==
  \/ DaemonStep
  \/ DaemonCrash
  \/ \E r \in Ralph :
       \/ WorkerEnds(r) \/ WorkerBreaksOff(r) \/ WorkerKilled(r) \/ WorkerTicksPlan(r)
       \/ CancelRequest(r)
  \/ SpawnRequest \/ IntentExpires \/ TuiBegins \/ TuiGoesOn \/ Tick

Spec == Init /\ [][Next]_vars

\* The daemon keeps running (launchd restarts it), the clock goes
\* on, and every worker ends some day (loop limit, time limits).  A TUI may
\* refresh or not, but a refresh that has begun ends: it waits for nothing but
\* the database, and that not for ever.
Fairness ==
  /\ WF_vars(DaemonStep)
  /\ WF_vars(Tick)
  /\ \A r \in Ralph : WF_vars(WorkerEnds(r))
  /\ WF_vars(TuiGoesOn)

FairSpec == Spec /\ Fairness

-----------------------------------------------------------------------------
(***************************************************************************)
(* Properties.                                                             *)
(***************************************************************************)

\* Every variable keeps its type.
TypeOK ==
  /\ tc \in [Task -> Claim]
  /\ ri \in [Ralph -> Instance]
  /\ recorded \subseteq Task /\ plan \subseteq Task /\ won \subseteq Task
  /\ work \in [Ralph -> Worker]
  /\ out \in [Ralph -> Outcome]
  /\ req \in 0 .. MaxRequests
  /\ intent \subseteq {"user", "daemon"}
  /\ cancel \subseteq Ralph
  /\ d \in Daemon
  /\ tui \in Tui
  /\ crashes \in 0 .. MaxCrashes

\* "Task claiming ensures no two Ralphs work on the same thing" (README): no
\* two workers run the model on one task.
Exclusive ==
  \A q, r \in Ralph :
    In(q, {"working"}) /\ In(r, {"working"}) /\ work[q].task = work[r].task => q = r

\* A ralph that was retired, by its outcome or as crashed, holds no claim: a
\* claim left behind is not "pending", so nothing would respawn for it.  A
\* refresh of the TUI breaks this when it acts on a row that has been retired
\* since its SELECT.
RetiredHoldsNothing ==
  \A r \in Ralph :
    ri[r].status \in {"stopped", "crashed"} => HeldBy(tc, {r}) = {}

\* The premise that no refresh does so.  Nothing in the code sees to it: the
\* SELECT is at coordination.py:928, the calls follow one by one.
ActsOnOpenRows == [][\A r \in Ralph : TuiActs(r) => ri[r].status = "active"]_vars

\* "Each ralph is a single-task worker" (_autospawn_for_unattended_projects): no
\* ralph holds two claims, not even when a refresh completes, for a row it read
\* earlier, the task and claims the next one.
OneClaimEach ==
  \A r \in Ralph : Cardinality(HeldBy(tc, {r})) <= 1

\* A success that a claim's holder has reported, and that waits in its outcome
\* file, is not overtaken: the claim ends in completion and in no other way.
SuccessLands ==
  [][\A r \in Ralph, t \in Task :
       out[r] = [status |-> "success", task |-> t] /\ Holds(r, t) /\ ~Holds(r, t)'
         => tc'[t].status = "completed"]_vars

\* "prevents the autospawn from spawning a replacement worker onto a task that
\* was just completed" (_tick): no worker starts on a task that another has
\* reported done.
DoneOnce ==
  [][\A r \in Ralph :
       ~In(r, {"working"}) /\ In(r, {"working"})' => work'[r].task \notin won]_vars

\* "A user who ran `wig spawn` a month ago and forgot about it should not come
\* back to a surprise autorun" (projects_needing_ralphs): the daemon asks for a
\* worker only while a request of a user is recent.
NoSurpriseAutorun ==
  [][At("autospawn") /\ req' > req => "user" \in intent]_vars

\* "Task History - Audit log of all task state changes" (README): a completed
\* task has its row in the history once no worker is left to report it.
CompletedIsRecorded ==
  \A t \in Task :
    /\ tc[t].status = "completed" /\ At("asleep")
    /\ \A r \in Ralph : work[r].task # t /\ out[r].task # t
    => t \in recorded

\* release_current_task "should be called on all exit paths to ensure tasks
\* aren't left in claimed state" (ralph_loop.sh): a worker that has called it
\* and is leaving holds no claim.
LeavingHoldsNothing ==
  \A r \in Ralph : In(r, {"leaving"}) => HeldBy(tc, {r}) = {}

\* No ralph keeps a claim and an open row for ever: its task is completed, failed
\* or given back, or its row is retired, however the worker and its launch end and
\* whatever a refresh does late.  (What a late refresh claims for a row that is
\* retired already, nothing ends.)
ClaimEnds ==
  \A r \in Ralph, t \in Task : []<>(~ Holds(r, t) \/ ri[r].status # "active")

\* A pending task the user asked to have worked on does not stay pending: it is
\* claimed again and again, whatever became of earlier workers.
PendingIsServed ==
  \A t \in Task : []<>(tc[t].status # "pending" \/ intent = {})

\* "intents survive the TUI dying, the daemon restarting" (coordination.py): a
\* task that was asked for is eventually done, failed, or no longer wanted,
\* or some worker keeps being started on it.
IntentSurvives ==
  \A t \in Task :
    []<>(\/ tc[t].status \in {"completed", "failed"} \/ intent = {}
         \/ \E r \in Ralph : work[r].task = t)

=============================================================================
