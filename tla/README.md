# ChiefWiggum in TLA+

ChiefWiggum runs several autonomous coding workers ("ralphs") against the tasks
of a markdown fix plan. A daemon, a terminal UI and command-line tools share one
SQLite database; the workers are shell loops that leave outcome files behind.
Nothing but that database and a few files coordinates them, so what can go wrong
is what happens *between* two statements of two processes, or between a
statement and a crash. This directory models that, checks it with TLC and proves
the central results with TLAPS.

Source paths below are relative to `src/`.

## 1. Inventory

### 1.1 Components

| component | state it keeps | operations | who it talks to |
|---|---|---|---|
| tables (`chiefwiggum/database.py`, `models.py`) | `task_claims`, `ralph_instances`, `task_history`, `spawn_requests`, `cancel_requests`, `project_intents`, graded `tasks` | SQL statements, each its own transaction (autocommit, `database.py:44`) unless inside `BEGIN ... COMMIT` | everyone |
| claim coordination (`coordination.py`) | rows of the tables | claim, extend, complete, fail, release, archive, sync, complete-and-claim-next, register, heartbeat, pause, resume, shutdown, stop all, mark stale, check completions | database, git, the fix plan |
| worktrees and auto-merge (`worktree_manager.py`, `git_merge.py`) | `.worktrees/<ralph>` and a branch per task | create, clean up, clean up stale, attempt merge | called by claim, complete and mark stale; no worker enters a worktree |
| fix plan (`fix_plan_parser.py`, `fix_plan_writer.py`) | `@fix_plan.md` | parse, mark complete (lock file, rename) | read by sync, written by completion and by the workers |
| daemon (`daemon.py`) | pid and lock file; nothing in memory that matters | start, stop; reconcile tick: cleanup, mark stale, outcomes, autospawn, spawn, cancel | coordination, spawner, outcome files |
| spawner (`spawner.py`) | pid, status and log files per ralph | spawn with claim, stop, clean up dead ralphs, limits, status files | coordination, processes |
| worker loop (`scripts/ralph_loop.sh`, `scripts/lib/*.sh`, `outcome.py`) | bash variables, call counter, status and outcome file; per directory `.response_analysis`, `.exit_signals` | run the model, analyse its answer, decide whether to go on, write the outcome once | files only |
| circuit breaker (`scripts/lib/circuit_breaker.sh`) | a state file | record a loop, open, half-open, close | worker loop |
| graded queue (`coordination.py`, `prompt_grader.py`) | graded tasks | sync with grading, claim, on exit, reconcile | database |
| retry (`coordination.py`) | retry count and time | fail with retry (no caller), process retries | database |
| limits (`coordination.py`, `spawner.py`, `config.py`) | none | may spawn, should spawn, idle cleanup | database, pid files |
| caches (`cache.py`) | values with an expiry | get, set, invalidate | TUI |
| TUI (`tui/`) | mode, cursor, filters, wizard, the lists of the last refresh, what is drawn | keys, refresh every two seconds | coordination, spawner, daemon |
| CLI (`cli.py`) | none | subcommands | coordination, daemon |

### 1.2 Hard behaviours, and what makes each component correct

* **Several sessions, one database.** A call is a sequence of transactions.
  Between them another session may release, sweep, reclaim, complete or sync the
  same row. Correct: a task is handed out only when it is free or its lease has
  lapsed; a live claim is taken from its holder only by a call made for that
  holder; a recorded completion is final and single.
* **Crash between two statements.** `complete_task` writes the status, merges,
  writes history, clears the instance, ticks the plan. Correct: what history
  shows has been merged; a retry repairs or repeats nothing.
* **Answers that have gone stale.** `mark_stale_instances_crashed`,
  `stop_all_instances`, `check_ralph_completions` and the sync decide on a
  SELECT and act later. Correct: a row that changed in between is not harmed.
* **Timeouts.** A claim lives 7 minutes, an instance 10 minutes of silence.
  Correct: the late holder of a lapsed claim cannot hurt the new one.
* **Files shared without a server.** Outcome files, status files, the circuit
  breaker file, pid and lock files. Correct: one outcome per worker on every way
  out, applied once; one daemon at a time; a final status is not overwritten.
* **A shell script under `set -e`.** Signals arrive between any two statements, a
  helper's return code may end the script. Correct: every way out leaves a report
  by one contract, limits hold, the worker ends.
* **A screen over data others change.** Rows move and die between a refresh and a
  key. Correct: a key acts on what is shown, and on nothing that has ended.
* **The reconcile loop.** Correct: what failed or died is eventually swept and
  its task worked on again; two workers never run on one task.

`PROJECT.json` lists every hazard at its line with the properties that watch it.

## 2. Plan

| step | module | models | abstract specification | status |
|---|---|---|---|---|
| 1 | `TaskTable`, `Coordination` | the claim life cycle, statement by statement | `WorkQueue` | done, checked, proved |
| 2 | `Fleet` | daemon tick, workers, outcome files, spawn and cancel requests, crash and restart | exclusive work and its liveness under the tick's fairness | done, checked, safety proved |
| 3 | `CircuitBreaker`, `Response`, `Worker` | the worker loop, its breaker, what it makes of an answer | `OutcomeContract` | done, checked, safety and refinement proved |
| 4 | `PromptGrade`, `GradedQueue` | grades and the second queue: sync, spawn, exit | | done, checked, proved |
| 5 | `Console` | keys, modes and refresh of the TUI | | done, checked, proved |
| 6 | `Processes` | worker processes, pid and status files, the limit | | done, checked, safety proved |
| 7 | `DaemonGuard` | lock and pid file of the daemon | | done, checked, safety proved |
| 8 | `FixPlan` | the plan as a file: headings, numbers, ids, sync with renames, the writer, users who edit | | done, checked, proved |
| 9 | `AutoMerge` | worktrees and merges, git command by git command | | done, checked, proved |

The modules compose by what they share: `TaskTable` is under `Coordination` and
`Fleet`; `Worker` extends `CircuitBreaker` and `Response`; `GradedQueue` extends
`PromptGrade`. `Fleet` takes the worker as a process that leaves reports, and
`Worker` shows through `OutcomeContract` which reports those can be; `Fleet` takes
the daemon as one process that comes back, which is what `DaemonGuard` shows;
it takes launching and its pid file as one step, which `Processes` takes apart.
`Coordination` takes a merge and the making of a worktree for one step each, which
`AutoMerge` takes apart; that a ralph claims only when it has no claim, which is a guard
there, is `OneClaimEach` of `Fleet`, proved. `Coordination` and `Fleet` know of the
plan which tasks it shows; `FixPlan` has its lines.

Considered and not made: modules on retries and on caches (nothing reaches or reads
them).

What remains is liveness, which stays with TLC.

## 3. Modules

**`TaskTable`** holds the two row types and one operator per SQL statement
(`Claimable` is the WHERE clause of `claim_task`, `Relinquish` the four columns
every release writes, `Retire` the UPDATE of a stopped or crashed instance, and
so on). A time column is kept as its distance from now: `lease` is how far ahead
`expires_at` is, `age` how long ago `last_heartbeat` was, saturated where every
guard has stopped telling values apart; `Tick` moves both. Columns no guard
reads (titles, messages, categories, costs) are dropped. An UPDATE that matches
no row changes nothing, as in SQL.

**`Coordination`** runs the calls of `coordination.py` in any number of sessions.
`frame[s]` is the stack of session `s`: the next statement (`at`), the arguments
and what was read so far. The first statement of a call is an action of `Start`,
each later one an action of `Continue`; `Crash` drops a frame and nothing else.

| variable | in the code |
|---|---|
| `tc`, `ri` | the tables `task_claims`, `ralph_instances` |
| `hist` | how many "completed" rows `task_history` has of each task |
| `trees` | the task whose branch is checked out in `.worktrees/<ralph>` |
| `plan` | the tasks `@fix_plan.md` shows as complete |
| `frame` | where each process is in the call it is making |

| actions | function |
|---|---|
| `ClaimTask`, `ClaimClearOthers`, `ClaimWorktree`, `ClaimSetCurrent` | `claim_task` |
| `CompleteTask`, `CompleteUpdate`, `CompleteMerge`, `CompleteMarkMerged`, `CompleteHistory`, `CompleteSetCurrent`, `CompleteFixPlan`, `CompleteUnwind`, `CompleteUnwindCurrent` | `complete_task` |
| `FailTask`, `FailSetCurrent`; `ReleaseClaim`, `ReleaseSetCurrent`; `ExtendClaim`; `ArchiveTask` | the functions of those names |
| `Register`, `Heartbeat`, `PauseInstance`, `ResumeInstance`, `DeleteInstance`, `ShutdownInstance`/`ShutdownStop`, `StopAll`/`StopAllRelease`/`StopAllStop` | instance rows |
| `MarkStale`, `StaleRelease`, `StaleCrash`, `StaleWorktrees` | `mark_stale_instances_crashed` |
| `CheckCompletions`, `CheckExtend`, `CheckRead`, `CheckRow`, `CheckClear` with `CompleteAndClaimNext` | `check_ralph_completions`, `complete_and_claim_next` |
| `Sync`, `SyncRead`, `SyncWrite` | `sync_tasks_from_fix_plan` |
| `BulkRequeue` | mode "p" of the TUI's bulk action |
| `Tick`, `WorkerTicksPlan`, `Crash` | the clock, a worker editing the plan, a killed process |

Abstractions of note:

* `BEGIN ... COMMIT` blocks are one action; every other statement is one.
  `check_ralph_completions` loops over its running workers with one UPDATE each;
  each of these loops is one action, and the rows it selected are then taken in
  any order, each row a separate step (for a worker that died or failed, two).
* Git is what the callers can tell: a merge succeeds only if the branch exists;
  any merge may conflict; cleaning up a worktree deletes its branch and may fail.
* Which workers run, and what their logs say, is chosen freely when
  `check_ralph_completions` asks.
* The plan is parsed once per sync, as in the code. A task keeps its id here; renames
  through `stable_id` are the subject of `FixPlan`.

**`Fleet`** runs the daemon's reconcile loop among the processes it manages, for one
project. Here a call of `coordination.py` is one step (how its statements
interleave is `Coordination`'s subject); the daemon, though, may die between any two
of its steps, and workers, the TUI, users and the clock act in between. A refresh of the
TUI is cut where it has read something: which workers run, then which rows are active with
what task, then one call for each of those rows, none of which looks at the row again.

| variable | in the code |
|---|---|
| `tc`, `ri`, `plan` | as in `Coordination`; `recorded` is the set of tasks with a "completed" row |
| `work` | per ralph: its process (`working`; `stopping` once signalled, its pid file gone; `leaving` once it has broken out of its loop; `reported` once its outcome file is written), its task and the marker in its log |
| `out` | `<ralph>.outcome.json` |
| `req`, `cancel`, `intent` | unconsumed spawn requests, unconsumed cancel requests, and who has made a spawn request within the TTL of 7 days |
| `d` | where the daemon is in its tick, with its locals |
| `tui` | where a refresh is, `running_ralph_ids`, and the rows it has selected and not yet handled |
| `won` | history variable: tasks whose worker has reported success |

| actions | code |
|---|---|
| `Sweep` | `cleanup_dead_ralphs` (files only), `mark_stale_instances_crashed` |
| `ListOutcomes`, `ApplyOutcome`, `RetireWorker`, `ConsumeOutcome` | `_process_worker_outcomes` |
| `Autospawn` with `NeedsRalph` | `_autospawn_for_unattended_projects`, `projects_needing_ralphs` |
| `FetchRequests`, `ConsumeRequest` | `_process_spawn_requests` |
| `SpawnSync`, `SpawnClaim`, `SpawnRegister`, `SpawnSetCurrent`, `SpawnLaunch`, `SpawnUnclaim` | `spawn_ralph_with_task_claim` |
| `ServeCancels` | `_process_cancel_requests`, `stop_ralph_daemon` |
| `Start`, `DaemonCrash` | `run_forever`, its restart by launchd |
| `WorkerSays`, `WorkerSucceeds`, `WorkerFails`, `WorkerGivesUp`, `WorkerBreaksOff`, `WorkerExits`, `WorkerKilled`, `WorkerTicksPlan` | `ralph_loop.sh`, `outcome_cli.py`, and what a model or the system may do to a worker |
| `SpawnRequest`, `CancelRequest`, `IntentExpires` | the request tables |
| `TuiBegins`, `TuiRenews`, `TuiSelects`, `TuiActs`; `TuiSweeps`; `TuiQuits` | `check_ralph_completions`; `mark_stale_instances_crashed` after it; a TUI that is closed or raises |

Abstractions of note:

* A ralph id carries a uuid. `Fresh` lets an id that nothing refers to any more
  stand for a new one, so behaviours are unbounded with two ids.
* A task named by a model's status block may be the worker's own, another or
  unknown. The exit handlers always report no task: `get_current_task_id` asks
  `wig instances`, a command that does not exist, so the daemon relies on
  `shutdown_instance` to release the claim.
* A worker's log outlives it: `Gone` keeps the marker as long as a refresh that saw the
  worker run may still read it.
* SQL errors are left out: an exception while an outcome is applied, a prompt
  that cannot be written and a process that does not start are in.
* The launch and its pid file are one step.

**`WorkQueue`** is what coordination promises: a task is absent, open, held by one
ralph under a lease, closed, or final. It is taken when open, taken over only when
the lease is not live, and nothing leaves final. `Coordination` is shown to
implement it through the mapping `EntryOf(tc[t], hist[t])`: a completed row is
*closed* until history records it (a failed merge may still reopen it) and
*final* afterwards.

**`Worker`** is `ralph_loop.sh` as bash runs it: under `set -e` (line 6) a function
called as a plain command that returns non-zero ends the script, so that the
dispatch on `exec_result` (lines 1894-1985) is never reached with a failure and
the traps do all the reporting. The script is cut where another process, a signal or a
failure can tell: the top of the loop, waiting, the model's run, the signals, the
analysis, the outcome, the breaker's read, truncation and write, the synthetic
timeout and its mark, the exit trap and its mark.

| variable | in the code |
|---|---|
| `proc` | place in the script, `loop_count`, `OUTCOME_WRITTEN`, the exit code, `.call_count` and `.last_reset` |
| `reports`, `status` | outcomes written, status file |
| `dir` | `.circuit_breaker_state`, `.exit_signals`, `.response_analysis`, `.last_output_length`, the plan, the number of logs |
| `told` | history: what the model of this worker has said, what failed |

| actions | code |
|---|---|
| `Start`, `LoopTop` with `Entered` and `Verdict`, `LoopDone` | `main` |
| `WaitForReset`, `WaitFails` | `wait_for_reset` |
| `ModelAnswers`, `ModelFails`, `CountSignals`, `ReadAnalysis`, `ReportSuccess`, `Finish` | `execute_claude_code` |
| `ReadBreaker`, `TruncateBreaker`, `StoreBreaker` | `record_loop_result` |
| `ReportTimeout`, `MarkTimeout` | the graceful exit of `main` |
| `Terminated`; `OnExit`, `MarkExit`; `Killed` | the traps `cleanup` and `on_exit`; SIGKILL |

`Response` turns an answer (its format, its status block, its marker, its words) into
the analysis, and the analyses into the window of exit signals. `CircuitBreaker` is
the state file and `record_loop_result`. `OutcomeContract` is what the daemon
relies on: success is final, only "aborted" may replace another report, nothing
appears after the end.

**`GradedQueue`** has the table `tasks`: `EditPlan`, `TickPlan` (the plan),
`SyncRead`, `SyncLook`, `SyncWrite` (`sync_tasks_with_grading`), `SpawnLook` to
`SpawnUnclaim` (`spawn_ralph_for_graded_task`), `ExitFinds`, `ExitWrites`
(`on_ralph_exit`). Exit handler and graded spawn have no caller in the
repository but its tests; they are modelled as the functions are offered. The grade
of an entry is computed by `PromptGrade` from what the grader's patterns can
count, stock sections of the generated prompt included. `overlap` notes that a
sync ran next to a claim or a worker: the promises of section 4 are about histories
without that (see the table of what does not hold).

**`Console`** is the loop of `tui/app.py`: take a key, handle it (`handle_*` of
`tui/handlers.py`), draw, refresh if due. The
state has what the handlers keep (`ui`, `list`, `projects`), the database around it
and what is `drawn`, so that a property can speak of what the user sees. `drawn` has the
middle of the layout as the library keeps it: it may be split, and while it is, a panel it
is given stays behind the halves (`Painted`). A full drawing takes the split away when the
structure differs from the one of the last full drawing (`Rebuilt`); a fast one (`DrawFast`,
after j, k and z) never does. The list
of tasks is left out: its selection is by id, and only the bulk requeue writes
(in `Coordination`).

**`Processes`** has workers as processes with a parent: an ended one is a zombie
until its parent asks or dies. Daemon and consoles are sequential; each step is a
system call or a file operation another one can come between.

| actions | code |
|---|---|
| `Checks`, `Launches`, `OpensPid`, `WritesPid`, `Polls`, `NotesWork`, `GivesUp` | `can_spawn_ralph`, `spawn_ralph_daemon`, `spawn_ralph_with_task_claim` |
| `CleanLooks`, `CleanMarks` | `cleanup_dead_ralphs` with `get_process_health`, `reap_zombie_ralph` |
| `Stops`, `Forces`, `StuckLooks` to `StuckKills` | `stop_ralph_daemon`, `handle_stuck_ralph` |
| `Sweeps` | `get_running_ralphs` by a refresh |
| `Reports`, `Exits`, `Dies` | the worker, as `Worker` has it, and kills |

**`DaemonGuard`** has processes by pid, the flock, the pid file and `stop`. A pid that
has become free may be given to the next start or to a process that is no daemon
(`Reuses`). `Cleans` includes the double fork, after which the process goes on under
another pid. SIGTERM outside `asyncio.run` kills (`StopTerms`).

**`FixPlan`** has the plan of each project as a sequence of lines. What the parser
makes of them is in operators: which headings draw a number (`Counted`, `Number`), which
are tasks (`IsTask`), their ids (`IdOf`: number, title) and stable ids (`StableOf`:
section and place in it), and whether they are shown as complete (`Shown`).

| variable | in the code |
|---|---|
| `file` | `@fix_plan.md` of each project |
| `row` | `task_claims`: by task id, status, `stable_id` and project |
| `job` | ids that workers have been given and have not reported on |
| `lock` | the lock file of `fix_plan_writer.py` |
| `frame` | what each process is in the middle of, with its copy of the plan |
| `buffer` | what an editor or a model has read of each plan and may save later |
| `edits` | what the users of this run do, chosen at the start |
| `earned`, `told` | history: what was worked on or ticked by a user; what the writer has ticked |

| actions | code |
|---|---|
| `SyncRead`, `SyncLine` with `SyncTask` | `sync_tasks_from_fix_plan`, one heading in a step |
| `ClaimTask`, `CompleteTask` | a row changing hands, as `Coordination` has it |
| `Done`, `FindRow`, `TickRead`, `TickWrite` | `update_fix_plan_on_completion`, `update_task_completion_marker` |
| `Reconcile`, `ReconcileCheck` | `reconcile_completed_tasks` |
| `Crash` | a killed process; the system drops its lock |
| `Opens`; `Reword`, `UserTicks`, `Insert`, `RemoveLine` with `Saves` | users and models editing the file: each save is of the file as it is or, where users are "stale", of what was read at any time before |

A title is what it is about (`key`) and how it is worded: ids are built from titles, so
that two wordings are two ids of one task, and a property can tell the two apart. What
the patterns of the parser match is abstracted to the form of a heading.

**`AutoMerge`** has the ralphs' calls as sequences of git commands on one
repository. A commit is what it brings; a branch and main are sets of commits; a commit
brings pieces of work, each by a task or by the upstream.

| variable | in the code |
|---|---|
| `row` | `task_claims`: status, owner, and the ralph whose path is in `worktree_path` |
| `alive` | ralphs with an instance row that is not crashed |
| `tree`, `dirty` | what is checked out in `.worktrees/<ralph>`, and whether there are uncommitted changes |
| `branch`, `main`, `index`, `litter`, `count` | the repository: branches, main, what a command has left in the index or in the files of the project's checkout, commits so far |
| `frame` | where each session is: the git command, the ralph, the task, the ralph whose worktree it goes by, and what a success will owe |

| actions | code |
|---|---|
| `Claim`, `RecordTree` | `claim_task` |
| `Create`, `Add`, `AddOld` | `create_worktree` |
| `Status`, `Remove`, `Drop` (from `Clean`) | `cleanup_worktree` and its four callers |
| `Complete`, `ReadRow`, `Succeeded`, `Failed`, `ReleaseFailed` | `complete_task` |
| `Checkout`, `Pull`, `FastForward`, `MergeCommit`, `Squash`, `SquashCommit`, `DetectConflicts`, `Abort`, `ResetHead` | `attempt_merge`, a command each |
| `MarkCrashed`, `SweepList`, `SweepDirs`, `SweepNext` | `mark_stale_instances_crashed`, `cleanup_stale_worktrees` |
| `Register`, `Release` | the functions on the tables |
| `TimesOut`, `Killed` | timeouts of `attempt_merge`; a killed session |
| `WorkerEdits`, `WorkerCommits` | external: no code of `src/` works inside a worktree, so that work on a branch is as the tests of worktrees have it |

What a git command does, and what it leaves behind when it refuses or is stopped, was
taken from trials with git 2.39. `Clash` says whose changes touch the same lines.

The **`MC...`** modules give the finite instances: which session may make which
calls, ranks of tasks, the answers of a model, the keys, the plans. `Env` of `Fleet`
names what may happen around the daemon in an instance. **`CoordinationProofs`**,
**`FleetProofs`**, **`WorkerProofs`**, **`GradedQueueProofs`**, **`ConsoleProofs`**,
**`ProcessesProofs`** (with those of `DaemonGuard`), **`FixPlanProofs`** and
**`AutoMergeProofs`** hold the proofs.

## 4. Runs

A run asks TLC what is hard to see in one module and one instance. What TLAPS proves
for all constants and no instance shows better is not repeated by a run: the type
invariants of `Coordination`, `Fleet`, `Worker`, `GradedQueue`, `Processes`,
`DaemonGuard` and `AutoMerge`, `OneClaimEach`, `OneOverEach`, `PendingIsGraded` and `EscLeadsOut` are
left to section 6. Where a property has both, the run shows that it can be broken in the
instance, and the theorem that it is not in any.

| run | question | holds |
|---|---|---|
| `race` (`Coordination`) | daemon (register, claim, complete, mark stale, crash) against another client of the library (release, fail, extend, mark stale, sync), every statement interleaved, two ralphs with worktrees, merges that fail, a worker ticking the plan | `RecordedIsFinal`, `RecordedOnce`, `RecordedWorkIsMerged`, `LiveClaimProtected`, `ImplementsQueue` (refinement) |
| `every` (`Coordination`) | every call of one session against a sync of another | `ClaimWellFormed` |
| `timely` (`Fleet`) | everything around the daemon but the TUI, while no lease or heartbeat a claim's holder needs runs out | `Exclusive`, `RetiredHoldsNothing`, `SuccessLands` |
| `live` (`Fleet`) | workers that are killed or whose outcome cannot be applied, failing launches and prompts, the TUI's refresh, its reads and its calls each between any two steps of the others or not at all | `ClaimEnds`, `PendingIsServed` |
| `worker` | successive workers in one directory, nine kinds of answer, a failing model or writer, SIGTERM and SIGKILL anywhere, hours that pass | `EveryExitReports`, `BreakerAgrees`, `StopsWhenTold`, `CallsPerHour`, `ReportsByContract` (refinement), `Terminates` |
| `graded` | two entries rewritten and ticked, two workers, a sync, failing launches, dying spawners, late exits | `LiveHoldsItsTask`, `CompletedStays` |
| `console` | 28 keys in any order, two workers of two projects that start, beat and end meanwhile | `TypeOK`, `OnScreen`, `PlanOfProject`, `RetiredStays` |
| `processes` | the daemon and a console, two workers, limit 1, deaths of each between any two steps | `TestStillHolds`, `DeadForgotten` |
| `guard` (`DaemonGuard`) | three pids, launchd and users starting, one `stop` at a time, three faults, pids reused | `OneDaemon`, `PidNamesHolder`, `DaemonComesBack` |
| `plan` (`FixPlan`) | users who leave headings in place, who save late or who do neither, a sync, completions and a reconcile of two processes, crashes | `TypeOK`, `CompletedForReason`, `TicksSurvive`, `SyncCovers`, `RenamesAreRewordings` |
| `merges` (`AutoMerge`) | two sessions and two ralphs that claim and complete in one checkout, every change in conflict with every other, an upstream that moves | `SuccessInMain`, `CheckoutAttended`, `NothingDropped`, `Isolation` |
| `stopped_merges` (`AutoMerge`) | one session, hooks that refuse, timeouts, kills, a sweep, one of two ralphs squashing | `SuccessInMain` |

### 4.1 What the code does not satisfy

The modules state more properties that the code does not have, and some of section
4 have premises the code does not always meet. No listed run repeats them; adding the
property to the cfg of the module, with the instance named, makes TLC show the history.
`StaleCalls`, `TwiceCalls`, `RefreshCalls`, `FailedCalls` and `CurrentCalls` of
`MCCoordination`, `MixedPlan` and `TwoPlans` of `MCFixPlan`, `AllSquash` and `NoClash` of
`MCAutoMerge` are instances for this.

| property (module; instance) | what violates it |
|---|---|
| `RecordedOnce` (`Coordination`; two sessions with `CompleteTask`) | the daemon applying an outcome and an operator's `wig complete`, both past the idempotence check of `complete_task` ("Idempotent", `coordination.py:316`), which its UPDATE does not repeat: two history rows |
| `FailedIsTerminal` | `complete_task` after `fail_task`: the docstring (`coordination.py:318`) calls it a no-op, the UPDATE completes the task |
| `CrashedOnlyIfSilent` | a heartbeat between the SELECT and the UPDATE of `mark_stale_instances_crashed` |
| `OneCurrentPerTask` | release and second claim before the first claimer writes `current_task_id` (the comment at `coordination.py:223`) |
| `CompletedIsRecorded` | a worker ticks the plan, the sync of another spawn completes its task without history, its outcome meets the idempotence check ("Audit log of all task state changes", `README.md:24`) |
| `NoSurpriseAutorun` | the daemon's own spawn requests count as recent intent (`coordination.py:4113`) after the user's have expired, against the docstring above it |
| `RecordedIsFinal` with `CheckCompletions` (`Coordination`) | `complete_and_claim_next` (`coordination.py:704`) on a row the TUI read before the daemon released it: history is written although the UPDATE matched nothing, and the task is handed out again. `SoleCompleter`, the premise of section 6, excludes it |
| `CompletedWorkIsMerged` (`Coordination`, as `race`) | the process dies between the UPDATE to "completed" and the merge; a retry returns at the idempotence check (`WORKTREE_IMPLEMENTATION.md:105`) |
| `Exclusive` (`Fleet`, TUI closed, not `Timely`) | nothing renews lease and heartbeat of a worker that runs longer than 10 minutes: a second one is started on its task, against `daemon.py:3` |
| `Exclusive` (`Fleet`, TUI open) | a refresh between the instance row and the process of a new worker releases its claim as that of a dead one (`coordination.py:943`) |
| `DoneOnce` (`Fleet`, TUI open) | a refresh after a worker's exit and before the daemon reads its outcome releases the claim; the outcome is rejected and the task done again, against the comment at `daemon.py:373` |
| `RetiredHoldsNothing` (`Fleet`, TUI open) | a refresh selects the row of a worker that runs and says done; the sweep or the daemon retires that ralph; `complete_and_claim_next` then claims the next task for it (`coordination.py:669-761`), which asks neither for the state of the row nor whether its UPDATE matched |
| `ClaimEnds` without `status # "active"` (`Fleet`, TUI open) | that claim: no worker runs for it, no sweep visits a retired row, and a lapsed row is not "pending", so nobody is spawned for it |
| `IntentSurvives` (`Fleet`, a crash of the daemon) | dying between claim and registration; the request served again finds nothing to claim, and the lapsed row never counts as pending |
| `LeavingHoldsNothing` (`Fleet`) | `release_current_task` (`ralph_loop.sh:2093`) calls `wig release` without the task and `--ralph-id` that `cli.py:413` requires: the worker leaves with its claim, which the daemon's `shutdown_instance` releases later |
| `SuccessMeansComplete` (`Worker`) | a FAILED status block carries a TASK_ID like a COMPLETE one, and is reported as success (`outcome.py:38`) |
| `SuccessExitsZero` (`Worker`) | the `return 6` after a success ends the script with 6 and `on_exit` writes "crashed"; the spawner's exit code contract (`spawner.py:1746`) has 0 |
| `NothingElseWroteOne` (`Worker`) | SIGTERM between `OUTCOME_WRITTEN=true` (`ralph_loop.sh:1336`) and the writer |
| `WithinBudget` (`Worker`, `Budget = 1`) | `update_status` rewrites the status file without `cost_info`, so the cost is back at 0 whenever the budget is checked (lines 1695-1716) |
| `SuccessIsOwn` (`Worker`, two workers, `Sharing = TRUE`) | two workers in one directory share `.response_analysis`: one reports success for what the other's model said |
| `LiveHoldsItsTask` without `overlap` (`GradedQueue`) | a sync resets a claimed row to pending, and a second worker is started; `on_ralph_exit` then updates by id alone (`coordination.py:3851`) |
| `ViewIsShown` (`Console`) | z out of the split view: `update_display_only` draws the one list behind the two halves (`tui/dashboard.py:131`), which stay on the screen with the old highlight while Enter and x act on the row the cursor has moved to, against "just re-renders the view" (`:95`); a full drawing takes the halves away, unless the next row says otherwise |
| `RefreshShowsView` (`Console`) | z, a refresh, z once around (which makes the halves again), a refresh: the structure is the cached one (`tui/dashboard.py:422`), so the halves stay after a full drawing too |
| `BarIsCurrent` (`Console`) | the command bar is drawn again on a change of mode, message or focus only (`tui/dashboard.py:694`); "Select instance to shutdown" then numbers rows that have moved |
| `DetailIsOfRow` (`Console`) | the detail view names its instance by place (`tui/handlers.py:874`) and shows another one after a refresh |
| `LiveHasFile` (`Processes`) | a spawner dies between `Popen` and the pid file; or a reader finds the file opened and not yet written, takes it for stale and removes it (`spawner.py:972`): the worker counts for nothing and cannot be stopped |
| `DeadIsTold` (`Processes`) | `get_running_ralphs` removes the pid file of a gone worker, so no cleanup ever marks it; "working" stays |
| `TestStillHolds` (`Processes`, `PsFails = TRUE`) | a `ps` that times out makes a live worker look dead (`spawner.py:1070`, `:1577`) |
| `LoopIsNamed` (`DaemonGuard`) | a start that saw no daemon removes the pid file one has written since (`daemon.py:489`): a daemon nobody sees; `stop` says "not running", the TUI spawns by itself |
| `FinalStatusStays` (`Processes`) | a worker that ends while its spawner waits: the spawner then writes "working" without a guard (`spawner.py:1991`), against the comment of the guarded write, which "prevents race conditions where spawner overwrites ralph_loop.sh's final status" (`spawner.py:569`) |
| `RightHeading` (`FixPlan`, `MixedPlan`) | the writer looks for "### 2." with the number the parser's counter gave to an id heading, and ticks another task (`fix_plan_writer.py:57`, against "This function handles 3 task formats", `:85`, and `CHANGELOG.md:20`) |
| `RenamesAreRewordings`, `CompletedForReason` (`FixPlan`, two projects with `TwoPlans`) | the SELECT by `stable_id` does not ask for the project (`coordination.py:100`): the first task of one plan takes the row of the first task of another, completed or not, against "handles title renames" (`:97`) |
| `RightHeading` (`FixPlan`, two projects with `TwoPlans`) | a completion ticks the heading of the same number in the plan of the current directory, whatever project the task is of (`coordination.py:546`) |
| `TicksSurviveSaves` (`FixPlan`, as `plan`) | an editor or a model has read the plan, the writer ticks a heading and renames its copy over the file (`fix_plan_writer.py:159-171`), the editor saves: the tick is gone while row and history say completed |
| `SyncCovers` (`FixPlan`, `Syncers = {s1, s2}`) | a sync that has read the plan before a title was changed renames the row by its stable id while another, with the other title, has passed it (`coordination.py:100`): that one has to be synced again |
| `CompletedForReason` (`FixPlan`, without `InPlace`) | headings inserted or removed above move the stable ids below: the row of one task, completed or not, is inherited by its neighbour |
| `SuccessInMain` (`AutoMerge`, two sessions, `AllSquash`) | `git reset HEAD` after one merge (`git_merge.py:314`) takes another's squashed changes out of the index before its commit (`:283`), which then commits what a third call has staged since and counts as a success: a completion is recorded without its work, against "Only record completion if merge succeeded" (`coordination.py:457`) |
| `NothingDropped` (`AutoMerge`, two sessions, `AllSquash`, `NoClash`) | after the same reset the branch that alone has the work is deleted with its worktree (`coordination.py:424`, `worktree_manager.py:195`) |
| `SuccessInMain`, `Isolation` (`AutoMerge`, `Orderly = FALSE`) | a claim that is slow to make its worktree writes path and branch over the row of the next holder (`coordination.py:246`), which asks for the task only |
| `Isolation` (`AutoMerge`, `Sweepers = {s1}`) | who is active is selected at `coordination.py:1284`, the directories are removed one by one later: a ralph that registers and claims in between loses its worktree (`worktree_manager.py:280`, `WORKTREE_IMPLEMENTATION.md:177`) |
| `OnlyConflictsRelease` (`AutoMerge`, `Upstream` or `Stops`) | every failure of a merge, a refused checkout or a timeout included, is treated as a conflict: the branch goes by force and the task is requeued (`coordination.py:430`, `git_merge.py:96`) |
| `ResetLeavesClean` (`AutoMerge`, `AllSquash`) | `git reset HEAD` leaves the changes of a failed squash in the files of the project's checkout (`git_merge.py:313`) |

### 4.2 Read in the code while modelling

Behaviour the modules reproduce, or that lies beside them, and a maintainer may want
to know:

* Worker: the first `((removed_count++))` of the log cleanup has status 1 and ends
  the worker; a worker killed between truncation and write of the
  breaker's file leaves it empty, which disables the breaker for good (`TypeOK` allows
  this state, and `BreakerAgrees` says nothing of it); the length ratio divides by zero
  after an empty output; minutes
  and seconds 08 and 09 are no numbers to `wait_for_reset`. "halted", what a tripped
  breaker writes, is not in the spawner's list of terminal states (`spawner.py:582`),
  so a cleanup turns it into "crashed". Signals go to the shell only, not to the
  model's process.
* Processes: the daemon never asks `can_spawn_ralph`, so the limit holds for consoles
  only; zombies count toward it. A stuck worker's claim is released before it is
  killed, and its mark precedes its SIGTERM.
* Daemon: a stale pid file whose number has been given to another process, even to
  the starting daemon itself, makes `start` refuse; a forced stop removes a successor's
  pid file; SIGTERM before the handlers are installed leaves the pid file.
* Graded queue: a prompt with one or two inferred edge cases grades lower than one
  with none, as stock text stands in for none; `needs_review` is undone by the next
  sync; `depends_on` is read by nothing.
* TUI: `R` never shows its RECONCILE mode; the release table's numbers are not the
  digits it reads; bulk `p` requeues completed tasks too; the count that "stop
  all" asks to confirm is filtered while what it stops is not.
* Settings are loaded, changed and saved without a lock.
* Fix plan: the writer locks against other calls of itself only, so that an edit by a
  model or a user between its read and its rename is lost. "✗" is a marker for the
  writer and nothing to the parser. The form and the mark of a heading are computed from its
  title: with "complete", a tick or an emoji in it the task is complete
  (`fix_plan_parser.py:204`), with a colon at its end it is no task (`:178`), with
  "CRITICAL" or another word of a priority in it it begins a section (`:71`), and the
  stable ids below it change. `Reword` leaves such titles out; what they do to ids is what
  an insertion or a removal does. There is one buffer to a plan: an editor that brings back
  a heading which another has removed is left out. A plan in
  the current directory is ticked whatever project the task is of
  (`coordination.py:546`). A worker that reports under an id which a sync has renamed
  meanwhile is not found.
* Git: any failed merge, a timeout included, deletes worktree and branch
  (`git branch -D`). A session killed between a conflict and `merge --abort` leaves main
  unmerged: every later merge fails at its checkout, its branch is deleted by force, its
  task requeued. `git checkout main` forgets a merge that a hook refused but keeps its
  changes staged. With "squash", a branch with nothing to merge is reported as a failure
  as long as `.worktrees/` is not ignored (`git_merge.py:303`). A ralph without worktree
  that completes a task whose row still has the branch of an earlier holder
  (`coordination.py:845`) fails for ever once that branch is gone, and each failure
  removes the worktree of that earlier holder by force. Uncommitted work kept after a
  merge is removed by force at the ralph's next claim. As no worker of `src/` runs in its
  worktree, these branches have no work on them today.

## 5. Bounds and fairness

* Two ralphs and two sessions: every hazard listed is a race of two parties; a
  third ralph adds nothing a release and a second claim of the same one cannot do.
  In `every` one ralph is enough: it asks for the shape of rows, not for rivals.
* One task, in `race` and `every`. No statement of the life cycle but
  `First` compares two tasks; the proofs cover any number.
* `CLAIM_EXPIRY = 1`, `HEARTBEAT_STALE = 2`: the order 7 < 10 minutes is kept, so
  a lease may run out before, with or after the sweep that notices the silence.
* `HistCap = 2` counts "never, once, more than once".
* Each ralph may claim again and again: no bound on the length of behaviours.

`Fleet` has its own bounds. `MaxRequests` (1 or 2) bounds unconsumed spawn requests:
two are what it takes to spawn for a task twice at once. `MaxCrashes` (0 or 1)
bounds crashes of the daemon: a crash loses only its locals, so what a second one
could meet, one after a restart meets too. One task and two ids are enough for a
task to change hands; the proofs cover any number of both.

Two assumptions name what the code leaves to chance. `Timely` holds back the clock
while a lease is about to lapse whose holder works, has just reported or is being
spawned. It is what a TUI refreshing in time would give; without it the safety of
`timely` is lost (4.1). `TuiKeepsUp` lets the clock tick only after the
heartbeats of running workers have been renewed; with it the race of a refresh
and a spawn needs no timeout. No listed run assumes it, and the liveness run assumes
neither. `live` has no crash of the daemon: next to a TUI it makes the instance too large.
With a crash, workers that give up or break off too, cancels, `HEARTBEAT_STALE = 2` and no
TUI, TLC finds both properties to hold as well. Lease and silence are both 1 there, so that a claim may lapse and its
holder be swept between two steps of a refresh. A worker that gives up or breaks off leaves the
tables sooner than one that is killed, which has to be swept.

The other modules:

* `Worker`: one worker at a time, `MaxLoops = 7` (four done signals spread over a
  window of five, then one more loop; five errors to the threshold), three calls an
  hour so that the limit is met, a cleanup after four loops with four logs. The
  slot is used by one worker after another, so that each meets what the last
  one left in the directory. One answer for each kind analyser, counters and
  breaker tell apart.
* `GradedQueue`: two entries of two kinds (graded F and C), two workers; a worker's
  id is used again when its exit has been handled and no row names it.
* `Console`: two workers of two projects, one without a plan: enough for a row
  to move, vanish and be filtered, and for the wizard to carry something over. The
  screen refreshes after any key.
* `Processes`: in `processes` one console and the daemon are the two spawners and
  cleaners of two workers. Ids are not used again. `Max = 1`. `OneOverEach` is
  proved (`LimitHeld`) and in no run: two workers that are counted at once are what it
  allows to two consoles, so that it takes a third to violate it, and that instance, without
  a daemon (`Racing`) and up to symmetry (`Alike`), has 2.4 million states; TLC agrees there,
  and finds the bound reached.
* `DaemonGuard`: three pids: a holder, a rival and the pid of a fork or a stale file;
  three faults in all (deaths, stops, users' starts). Restarts by launchd are
  free.
* `FixPlan`: one project, a plan of one numbered task with a check box under it, one
  heading a user may add, two wordings, two processes. It takes one neighbour to
  inherit a row and one rename to miss one. Behaviours are of three kinds, chosen at the
  start: users who reword, tick and append (`Careful`), users who reword and append and save
  what they have read at any time before (`Late`), and users who insert and remove and
  save without heed of the lock (`Careless`). `CompletedForReason` and
  `RenamesAreRewordings` are about the first two (`InPlace`), `TicksSurvive` about the first and
  the last, the others about all. `Late` does without ticks of users, with which the run
  takes longer than it may; the proofs have them.
* `AutoMerge`: two ralphs, each of which may work on either of two tasks, and two
  sessions: a merge and another call in its middle. `MaxWork = 3` commits are one on
  each branch and one more, upstream or of a merge. `stopped_merges` has one session, so
  that what a stopped command leaves is met by the next call, one task and
  `MaxWork = 2`. All changes are in conflict, and `Clash` is a constant of the proofs.

Fairness is stated in `Fleet`, `Worker`, `Processes` and `DaemonGuard`. In `Worker`:
the script goes on, the model's runs are timed out, hours pass. In `Processes`:
launchd starts the daemon again, what the daemon has begun it goes on with, and each
tick begins with the cleanup of every pid file (strong, as the daemon is busy at
times and may die in between). In `DaemonGuard`: launchd starts the daemon, each
time with another pid (strong), what has begun goes on, and `init_db` does not
always fail.

In `FairSpec` of `Fleet`: the daemon goes on and is restarted
(`KeepAlive` of the launchd service; each step of its loop follows the
last), the clock ticks, a worker that was started ends in some way (call limits,
timeouts, the limit on loops). Nothing is assumed of users, of models saying they
are done (a worker may give up instead), of kills, of crashes or of the TUI, which
may be closed at any time: only a refresh that has begun ends, by its last statement or
because the TUI quits.

`RalphSymmetry` and the symmetries of `MCGradedQueue` are used in runs whose cfg
treats the ralphs alike and whose properties do not name one; the runs with
liveness properties use none. `ClaimEnds`, `PendingIsServed`, `Terminates`,
`DeadForgotten` and `DaemonComesBack` need fairness; all other properties are
safety properties. Deadlock is checked but in four runs, where the system may rest: the
user has left (`console`), a daemon runs and nobody stops it (`guard`, where
`DaemonComesBack` shows that nothing hangs), or all tasks are completed and the bound on
commits is reached (`merges`, `stopped_merges`).

## 6. Proofs

Every theorem is for all values of the constants that satisfy the named assumptions of
its module: any sets of ralphs, tasks, sessions, processes and pids, any bounds. Where
one has a premise of its own, the premise is in the statement, and section 4.1 says what
happens without it. TLC checked each inductive invariant on an instance first.
`PROJECT.json` lists the theorems.

### `Coordination`

`CoordinationProofs` proves `TypeCorrect` (`Spec => []TypeOK`). `TypeOK` is inductive
because it also types the frames: a frame at a statement made for a task names a
ralph and a task. It also proves

* `WellFormed`: `ClaimWellFormed`, from `TypeOK` and itself, without any premise.
* `RecordedFinal`, `RecordedAtMostOnce`, `QueueImplemented`, `ClaimProtected`,
  under `SoleCompleter`: one session completes, through `complete_task`, and no
  session makes the calls that move a task out of "completed". All other calls,
  crashes included, are free, in any number of sessions.

`RecordedIsFinal` is not inductive: from a state where history is written and the
completing session stands before its unwinding UPDATE, the next step breaks it. The
inductive invariant `FinalInv` adds what the code relies on without saying so:

* a session that has passed the idempotence check and not yet written history
  knows that the count is 0;
* from its UPDATE to its history row or its unwinding, the row says "completed",
  because every other statement that writes the row asks for "in_progress" or for a
  claimable row, and a completed row is neither;
* a pending INSERT or UPDATE of a sync cannot reopen such a row, because rows are
  never deleted and a sync only ever writes "completed" to an existing one;
* no session is inside `check_ralph_completions`.

The proof has a lemma per group of statements: `PlainStep` shows that statements
which leave completed rows alone keep `FinalInv`, `CompleteTaskFinal` to
`CompleteUnwindFinal` go through `complete_task` statement by statement, and
`NextFinal` puts them together. `QueueImplemented` reuses `FinalInv` and shows that
each step moves every entry by `Move` of `WorkQueue` or not at all;
`ClaimProtected` follows the same case split.

`RecordedMerged` (`RecordedWorkIsMerged`) needs one premise more, `SoleWorker`: who claims
also completes, as the daemon does. A claim another process has left half-way writes its
worktree over the row it finds, a finished one included. `MergeInv` says what the single
process relies on: that it has recorded no completion of the task it is claiming, and
that a row about to be recorded has no worktree or has been merged.

### `Fleet`

`FleetProofs` proves `TypeCorrect` and `OneClaim` (`OneClaimEach`) without any premise,
`RetiredFree` (`RetiredHoldsNothing`) under `ActsOnOpenRows`, and `WorkExclusive` and `SuccessKept` under `Leased`: `Timely`, no TUI refresh, and a lease no
longer than the silence a sweep waits for, which is 7 against 10 minutes in the code.
Without the last one a worker would be swept while its lease lasts; with a TUI a refresh
between a claim and its process releases the claim (4.1). `ActsOnOpenRows` is about
histories: no refresh acts on a row that has been retired since its SELECT. Nothing in the
code sees to it, and TLC finds the claim that is left behind without it (4.1); with no TUI open
it holds of itself.

* `TypeInv` adds to `TypeOK` what the daemon's place says of its locals.
* `HandInv` is for the claims: one claim each needs that the current task of an active row
  is the claimed one, that a row a refresh has still to handle names the only claim its
  ralph can have (`RowIsClaim`), that absent rows are blank (an id is used again), and that a
  ralph being spawned has neither process nor other claim, and is not one a refresh saw
  running. A retired row is free because every statement that retires one releases by
  owner, in whatever order, and because no other statement than that of a refresh gives a claim
  to a ralph whose row is retired.
* `LeaseInv` is for the leases. A worker at work has its row (`WorkersHave`), though a sync
  may have closed it; so has the ralph being spawned. An outcome is the last thing a
  worker leaves (`OutcomesLast`), its file is there while it is applied (`FilesThere`), and
  what was applied of a success is gone from the holder (`Applied`). `Ahead` is the
  arithmetic: heartbeat age and rest of the lease together are never more than a lease, so
  that the lease runs out before the sweep can notice, and `Timely` stops the clock
  before that.

### `Worker`

`WorkerProofs` proves `TypeCorrect`, `ExitsReport` (`EveryExitReports`), `CallsLimited`
(`CallsPerHour`) and the refinement `KeepsContract` (`ReportsByContract`) for any number of
workers, shared directories included; `BreakerConsistent` (`BreakerAgrees`), `DoneEnds`
(`StopsWhenTold`) and `SuccessNamed` (`SuccessIsOwn`) for one worker at a time in a directory
(`Sharing = FALSE`).

* `Counted`: a loop past the limit is never entered; together with `HourCounted`, which ties
  the history to `.call_count` and to the place of the increment after the call.
* `NotesTrue`: what the two flags of the history (a lost report, a signal in the gap) excuse.
* `SoloInv`: with nobody else in the directory, the breaker's file is what its counters call
  for at each of the three steps of its writer (`BreakerOf`), and what the model has said is
  counted in the window or in the analysis at hand (`DoneOf`). That also holds of the
  directory a dead worker left to the next one.
* `OnePen`: a report is written while `OUTCOME_WRITTEN` allows it or by the handlers after a
  failure of the writer, one at a time; `AllowedStep` shows that what one worker then does,
  while all others do nothing, is a step of `OutcomeContract`.

### `GradedQueue`

`GradedQueueProofs` proves `TypeCorrect`, `WorkersHold` (`LiveHoldsItsTask`), `HandedOutGraded`
(`PendingIsGraded`) and `CompletedFinal` (`CompletedStays`). The three are about histories in which
no sync ran next to a claim (`overlap`); `CalmInv` says who holds which row in those:
before its claim a spawner has none, then the one it will check, then its own (`Claimant`),
and an id has a process only when it spawns nothing (`Runner`). `SyncAlone` is why a row a
sync is about to write is still open.

### `Console`

`ConsoleProofs` proves `RetiredKept`, `ActsOnScreen` (`OnScreen`), `OwnPlan` (`PlanOfProject`) and
`EscLeads` (`EscLeadsOut`). `ScreenInv` adds to `OnScreen` that a wizard at its first page has no
plan yet, and that a fast drawing is due in normal mode only: the one way in which what is
drawn could miss a change of mode. What a refresh reads plays no part in it. A split that
is left over is excused by `OnScreen` itself (4.1 has how it comes about).

`TypeCorrect` (`TypeOK`) is about what a refresh reads: `FetchedRows` and `ReadProjects`
show that the lists have workers and projects for members, `FirstOrder` that a worker put
before the others leaves an order of all of them, and `Typed` that no key filters for
anything but a project of the list. That what a digit or the cursor picks exists follows.

### `Processes`

`ProcessesProofs` proves `TypeCorrect`, `LimitHeld` (`OneOverEach`) and `CleanupKeeps`
(`TestStillHolds`, while `ps` answers: `~PsFails`). `LimitInv` counts a console that has
looked and not yet written its pid file as a worker: consoles' workers that are counted
and consoles in hand are together at most `Max - 1` and one for each console. For that
`Consoles` is finite, and each worker in hand is its console's own (`Origins`).
`MarksInv`: between the test of a cleanup and its write the worker is dead, and only a live
one writes "completed" or "stopped".

### `DaemonGuard`

The last part of `ProcessesProofs` proves
`GuardTypeCorrect`, `OneDaemonOnly` (`[]OneDaemon`) and
`PidFileNames` (`[]PidNamesHolder`) for any pids, stoppers and bound on faults, from
`DaemonGuardAssumption`. `OneDaemon` is not inductive: that two processes are never
past the lock says nothing of a lock that is free while one of them is. `GuardKnows` adds
`HolderLocks`, a process is where the lock is held exactly when it holds it, and
`StopKnows`, a stopper past its read knows a pid, which its signals need.
`PidNamesHolder` follows from itself and `HolderLocks`: `Starts` passes through
`Cleans`, which empties the file, before a process can be where its own number in it
would mislead. `GoneStep` and `GoStep` treat the two ways a process moves; the steps
that touch the file have a case each.

### `AutoMerge`

`AutoMergeProofs` proves `TypeCorrect` without any premise and four theorems with premises,
for every mix of strategies:

| theorem | premise | inductive invariant |
|---|---|---|
| `CheckoutFreed` (`CheckoutAttended`) | git is not stopped (`~Stops`) | `CheckoutInv`: the index is clean, or somebody is on the way to clear it by the command its strategy has for what is there (`Attends`), since the strategy decides who comes to which command (`Chosen`) |
| `SuccessMerged` (`SuccessInMain`) | no release during a call of the same ralph (`Orderly`), `[]ResetsAlone`; stops, kills and sweeps are free | `SuccessInv`: what a call owes is on its branch until main has it or it is staged for the next commit (`Owed`, `InHand`). For that nobody may delete the branch meanwhile, so `CallsInv` says that a task being completed stays completed, has one completer, and that who makes a worktree holds its task |
| `WorktreesOwn` (`Isolation`) | `Tidy`: `Orderly`, `~Stops`, worktrees for all, no sweep | `TreesInv`: one call at a time for a ralph, which goes by its own worktree (`OneCall`, `OwnTree`), because the row it reads has it (`Recorded`, `ReadsOwn`) |
| `NothingLost` (`NothingDropped`) | `Tidy`, `[]ResetsAlone` | `DropInv`: the branch that is checked out is the one that is merged (`MergesOwn`), and main has all of it by the time it goes (`InMain`), since its ralph is not at work (`CompleterFree`) |

`ResetsAlone` says that no session is about to `git reset HEAD` while another's squash
awaits its commit. With the other premises that is the one step against the two properties
(4.1 has the histories):
`StaysInHand` shows that whatever else another session does in between, a second squash or
a commit of what the first has staged included, the changes stay in the index or
come to main. The premise is about histories; the corollaries `SuccessMergedAlways` and
`NothingLostAlways` have constants that ensure it: nobody squashes, or one session is there
(the premises of the two runs), and for `NothingLost` one ralph at most that squashes
(`AloneTidy`: two sessions do not work for it at once).

Lemmas `Moved`, `CallGoesOn` and `StepOfCall` say once where a step takes a call, so
that each invariant is proved by places and not by commands.

### `FixPlan`

`FixPlanProofs` proves `TypeCorrect` without any premise, and the properties of the run
under what they need of the plans:

| theorem | premise | inductive invariant |
|---|---|---|
| `WritersAlone` | none | `LockInv`: who is about to write has the lock of that plan, and its copy is the file, unless somebody edits without heed of the lock |
| `TicksKept` (`TicksSurvive`, which is about editors that save what they have just read) | `OwnKeys`, and one plan or users who heed the lock (`Heeded`) | `TickInv`: no task has two headings in the plans or in a copy, and what was ticked is shown as complete in both |
| `SyncKeepsRows` (`SyncCovers`) | `OneSyncer` | `CoverInv`: each heading dealt with has a row, and that row has the stable id of a heading dealt with, which no later one has (`StableApart`) |
| `RightHeadings` (a lemma: `RightHeading`, which does not hold of all plans, 4.1) | `NumbersName`: tasks have a number in front, and a number means one task | `HeadingInv`: an id, in the table, at work or in a process, has the number and the task of one heading |
| `RenamesKeepTasks` (`RenamesAreRewordings`) | `OneProject` | `PlaceInv`: while headings keep their places the stable id in a row is that of a heading of its task, and a copy that is older than the file agrees with it on every line it has |
| `CompletedForGood` (`CompletedForReason`) | `OneProject`, `NumbersName`, `OpenSpare`: what is added is not ticked | `ReasonInv`: what is shown as complete, or said to be, in file, copies and buffers, has been worked on or ticked by a user |

The premises hold of the plans of the run, and TLC finds a history without each of
them: the numbered task of another plan is ticked or takes a row over (`TwoPlans`: a number,
like a stable id, is one of its plan only, and the plan in the current directory is
looked at for any task), a heading with a counted number ticks another's (`MixedPlan`), a
sync that began earlier renames a row back or away under the later one, a heading added with a
tick completes itself. Two plans and users who save at any time lose a
tick only when a heading moves from one plan to the other while the second is being
written. An editor that saves late loses a tick in any plan (`TicksSurviveSaves`); the other
theorems are about such editors too.

`WriterHeadings` and its neighbours say once what a step makes of the plans and the copies
(a tick, a rewording, a line more or less). Then each invariant is proved by kinds of steps:
of the writer (`Finds`, `Writes`), of a sync (`LineKinds`), of a user (`UserKeeps`), and
those that touch neither file nor table (`Calm`).

### Only model-checked

* Liveness: `ClaimEnds`, `PendingIsServed`, `Terminates`, `DeadForgotten`,
  `DaemonComesBack`. Fairness and `ENABLED` are out of the provers' reach.

## 7. Not modelled

* **Some of git.** `AutoMerge` has a project that is a repository with main
  checked out and nothing else: no other branch there, no `index.lock` of two commands at
  once, no pull of a main that has commits of its own (git 2.33 and later refuse it, and the
  code goes on without). Reading `git rev-parse` and removing the worktree are one step.
  `list_active_worktrees` and `get_worktree_status` only read, and nothing calls them.
* **Retries.** `fail_task_with_retry` has no caller outside the tests, so
  `process_retry_tasks` never finds a row.
* **Auto-scaling.** `should_spawn_ralph` has no caller, and `cleanup_idle_ralphs` asks
  for a status nothing sets. The limit is in `Processes`.
* **Caches, alerts, monitoring.** For drawing and reports; no modelled guard reads
  them.
* **Drawing, wording and layout of the TUI, the list of tasks and its log panes;
  output of the CLI; paths, packaging and service files; prompt text; the pattern
  matching of `response_analyzer.sh`; token estimates**: input and output without
  shared state that a guard reads. What the matching can find is an input of
  `Response` and `PromptGrade`.
* **Pids of workers that are used again** (`Processes`): a file that names a foreign
  process is told from a live worker by nothing in the code.
* **Migrations, messages, SQL errors.** A statement that raises is modelled where the
  code handles it.

`PROJECT.json` gives the reason per component.
