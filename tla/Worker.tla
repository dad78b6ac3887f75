------------------------------- MODULE Worker -------------------------------
(***************************************************************************)
(* The worker process (ralph_loop.sh) and the files of its working         *)
(* directory.  The script runs under set -e: a function called as a plain  *)
(* command that returns non-zero ends it on the spot, so what main() does  *)
(* with the return codes of execute_claude_code never runs.                *)
(*                                                                         *)
(* `wig instances` and `wig release ID` do not exist: the task of the      *)
(* instance is never found, and no claim is released from here.            *)
(***************************************************************************)
EXTENDS CircuitBreaker, Response, Sequences

CONSTANTS
  Workers,       \* slots for worker processes, each a ralph id at a time
  Sharing,       \* BOOLEAN: several of them at a time in the directory
  Answers,       \* answers of the model considered
  MaxLoops,      \* MAX_LOOPS_SAFETY
  MaxCalls,      \* MAX_CALLS_PER_HOUR
  Budget,        \* COST_BUDGET_USD in runs of the model, 0 when unset
  KeepLogs,      \* logs auto_cleanup_logs keeps
  CleanEvery,    \* loops between two cleanups
  Faults         \* what may go wrong: subset of Fault

Fault == {"model_fails", "term", "kill", "writer_fails"}

ASSUME WorkerAssumption ==
  /\ Sharing \in BOOLEAN
  /\ Answers \subseteq Answer
  /\ {MaxLoops, MaxCalls, KeepLogs, CleanEvery} \subseteq Nat \ {0}
  /\ Budget \in Nat
  /\ Faults \subseteq Fault

VARIABLES
  proc,      \* each worker's place in the script and its bash variables
  reports,   \* the outcomes each worker has written; the last one is in its file
  status,    \* each worker's status file
  dir,       \* what the workers of the directory share
  told       \* history variable: what each worker's own model has said

vars == <<proc, reports, status, dir, told>>

Place == {"absent", "top", "waiting", "model", "signals", "report", "success",
          "finish", "breaker", "truncate", "store", "timeout", "mark", "exit",
          "exit_mark", "gone", "killed"}
\* OUTCOME_WRITTEN, the exit code, .call_count and whether .last_reset is the
\* present hour (a file each per worker), what the loop at hand saw of its own
\* output, and the contents of the breaker file record_loop_result has read.
Process == [at : Place, loop : 0 .. MaxLoops, written : BOOLEAN, rc : Nat,
            calls : 0 .. MaxCalls, current : BOOLEAN,
            files : BOOLEAN, error : BOOLEAN, read : Breaker]
Absent == [at |-> "absent", loop |-> 0, written |-> FALSE, rc |-> 0,
           calls |-> 0, current |-> FALSE,
           files |-> FALSE, error |-> FALSE, read |-> FreshBreaker]

Kind == {"success", "timeout", "crashed", "aborted", "no_task"}

\* .response_analysis.  The directory's other files: .circuit_breaker_state,
\* .exit_signals, .last_output_length (0 or not), the plan (every item done or
\* not) and the number of output logs.
NoAnalysis == [task |-> FALSE, done |-> FALSE, sure |-> FALSE, exit |-> FALSE,
               tests |-> FALSE, files |-> FALSE]
AnalysisFile == [task : BOOLEAN, done : BOOLEAN, sure : BOOLEAN, exit : BOOLEAN,
                 tests : BOOLEAN, files : BOOLEAN]
Directory == [breaker : Breaker, signals : Signals,
              present : BOOLEAN, analysis : AnalysisFile,
              silent : BOOLEAN, planDone : BOOLEAN, logs : 0 .. KeepLogs + 1]

\* History: runs of the model since the hour began; answers that said done
\* without naming a task; whether one named the task, and whether one said the
\* task complete; whether the writer has failed, and whether a signal
\* came between setting OUTCOME_WRITTEN and starting the writer.
Untold == [hourly |-> 0, done |-> 0,
           named |-> FALSE, complete |-> FALSE, lost |-> FALSE, cut |-> FALSE]

Alive == {w \in Workers : proc[w].at \notin {"absent", "gone", "killed"}}
At(w, place) == proc[w].at = place
Goto(w, place) == proc' = [proc EXCEPT ![w].at = place]
Die(w, code) == proc' = [proc EXCEPT ![w].at = "exit", ![w].rc = code]
Ended(w) == [Absent EXCEPT !.at = "gone", !.rc = proc[w].rc]

\* KeepLogs + 1 stands for every number above KeepLogs.
OneMore(logs) == IF logs > KeepLogs THEN logs ELSE logs + 1

NoStatus == [word |-> "none", cost |-> 0]
\* update_status rewrites the file, cost_info and all.
Show(w, word) == status' = [status EXCEPT ![w] = [word |-> word, cost |-> 0]]

\* outcome_cli exits 0 whether it has written the file or not.
WriterOK == IF "writer_fails" \in Faults THEN BOOLEAN ELSE {TRUE}
Write(w, kind) ==
  \E ok \in WriterOK :
    /\ reports' = IF ok THEN [reports EXCEPT ![w] = Append(@, kind)] ELSE reports
    /\ told' = [told EXCEPT ![w].lost = @ \/ ~ ok]

\* accumulate_cost_in_status: read, add, write to a temporary file, rename.
AccumulateCost(w) == [status EXCEPT ![w].cost = 1]

-----------------------------------------------------------------------------
Init ==
  /\ proc = [w \in Workers |-> Absent]
  /\ reports = [w \in Workers |-> <<>>]
  /\ status = [w \in Workers |-> NoStatus]
  /\ \E planDone \in BOOLEAN :
       dir = [breaker |-> FreshBreaker, signals |-> NoSignals, present |-> FALSE,
              analysis |-> NoAnalysis, silent |-> FALSE, planDone |-> planDone,
              logs |-> 0]
  /\ told = [w \in Workers |-> Untold]

\* main() up to the loop: what earlier loops left in the directory is cleared,
\* the breaker and the logs are not.
Start(w) ==
  /\ At(w, "absent")
  /\ Sharing \/ Alive = {}
  /\ Goto(w, "top")
  /\ dir' = [dir EXCEPT !.signals = NoSignals, !.present = FALSE, !.silent = FALSE]
  /\ UNCHANGED <<reports, status, told>>

\* Mutant of Entered: the loops, too, are counted from 1 in every hour.
EnteredRecounted(w) ==
  [proc[w] EXCEPT !.loop = IF proc[w].current THEN @ + 1 ELSE 1, !.current = TRUE,
                  !.calls = IF proc[w].current THEN @ ELSE 0]

\* Mutant of Entered: the calls start from 0 in every loop.
EnteredUncalled(w) ==
  [proc[w] EXCEPT !.loop = @ + 1, !.current = TRUE, !.calls = 0]

\* The loop counted, and the calls with init_call_tracking.
Entered(w) ==
  [proc[w] EXCEPT !.loop = @ + 1, !.current = TRUE,
                  !.calls = IF proc[w].current THEN @ ELSE 0]

\* Where the checks at the top of the loop send the worker.
Verdict(w, p) ==
  CASE p.loop >= MaxLoops -> "max_loops"
    [] p.loop < MaxLoops /\ Budget > 0 /\ status[w].cost >= Budget -> "cost_budget"
    [] OTHER ->
         IF Halts(dir.breaker) THEN "circuit_open"
         ELSE IF p.calls >= MaxCalls THEN "rate_limited"
         ELSE ExitReason(dir.signals, dir.present /\ dir.analysis.exit, dir.planDone)

LoopTop(w) ==
  /\ At(w, "top")
  /\ LET p == Entered(w)
         verdict == Verdict(w, p)
         leave == [p EXCEPT !.at = "exit", !.rc = 0]
     IN  \/ /\ verdict = "max_loops"
            /\ proc' = [proc EXCEPT ![w] = [proc[w] EXCEPT !.at = "exit",
                                         !.loop = p.loop, !.rc = 0]]
            /\ UNCHANGED <<status, told>>
         \/ /\ verdict \in {"cost_budget", "circuit_open"}
            /\ proc' = [proc EXCEPT ![w] = leave]
            /\ Show(w, IF verdict = "circuit_open" THEN "halted" ELSE "stopped")
            /\ UNCHANGED told
         \/ /\ verdict = "rate_limited"
            /\ proc' = [proc EXCEPT ![w] = [p EXCEPT !.at = "waiting"]]
            /\ UNCHANGED <<status, told>>
         \/ /\ verdict \in {"test_saturation", "completion_signals", "plan_complete"}
            /\ proc' = [proc EXCEPT ![w] = [p EXCEPT !.at = "timeout"]]
            /\ Show(w, "completed")
            /\ UNCHANGED told
         \/ /\ verdict = "none"
            /\ proc' = [proc EXCEPT ![w] = [p EXCEPT !.at = "model"]]
            /\ Show(w, "running")
            /\ told' = [told EXCEPT ![w].hourly = @ + 1]
  /\ UNCHANGED <<reports, dir>>

\* wait_for_reset: the next hour has come.
WaitForReset(w) ==
  /\ At(w, "waiting")
  /\ ~ proc[w].current
  /\ proc' = [proc EXCEPT ![w].at = "top", ![w].calls = 0, ![w].current = TRUE]
  /\ UNCHANGED <<reports, status, dir, told>>

\* The minute and the second of the clock are taken for numbers of the shell: 08
\* and 09 are none, and the error ends the script.
WaitFails(w) ==
  /\ At(w, "waiting")
  /\ Die(w, 1)
  /\ UNCHANGED <<reports, status, dir, told>>

\* execute_claude_code, the model exits with an error (or is timed out): `wait`
\* is a plain command and the script ends; the branch for failures is not reached.
ModelFails(w) ==
  /\ At(w, "model")
  /\ "model_fails" \in Faults
  /\ dir' = [dir EXCEPT !.logs = OneMore(@)]
  /\ Die(w, 1)
  /\ UNCHANGED <<reports, status, told>>

\* The model answers: the call is counted and the answer analysed.  After an
\* empty output the length ratio of a text answer divides by zero, which ends
\* the script.
ModelAnswers(w) ==
  /\ At(w, "model")
  /\ \E a \in Answers :
       LET divides == a.format # "json" /\ dir.silent
           counted == [proc[w] EXCEPT !.calls = @ + 1]
       IN  /\ proc' = [proc EXCEPT ![w] =
                 IF divides THEN [counted EXCEPT !.at = "exit", !.rc = 1]
                 ELSE [counted EXCEPT !.at = "signals", !.files = a.files,
                                      !.error = a.error]]
           /\ dir' = IF divides THEN [dir EXCEPT !.logs = OneMore(@)]
                     ELSE [dir EXCEPT !.logs = OneMore(@), !.present = TRUE,
                             !.analysis = Analysis(a),
                             !.silent = IF a.format = "json" THEN @ ELSE a.format = "empty"]
           /\ told' = [told EXCEPT
                 ![w].named = @ \/ (~ divides /\ CompletesTask(a)),
                 ![w].complete = @ \/ a.block = "complete" \/ a.marker # "none",
                 ![w].done = IF ~ divides /\ Done(a) /\ ~ CompletesTask(a)
                             THEN @ + 1 ELSE @]
  /\ UNCHANGED <<reports, status>>

\* update_exit_signals and the cost; both functions return 1 when another worker
\* has removed .response_analysis meanwhile.
CountSignals(w) ==
  /\ At(w, "signals")
  /\ IF dir.present
       THEN /\ Goto(w, "report")
            /\ dir' = [dir EXCEPT !.signals = Updated(@, dir.analysis)]
            /\ status' = AccumulateCost(w)
       ELSE Die(w, 1) /\ UNCHANGED <<dir, status>>
  /\ UNCHANGED <<reports, told>>

\* Mutant of ReadAnalysis: OUTCOME_WRITTEN is never set for a success.
ReadAnalysisUnmarked(w) ==
  /\ At(w, "report")
  /\ IF ~ dir.present THEN Die(w, 1)
     ELSE Goto(w, IF dir.analysis.task THEN "success" ELSE "breaker")
  /\ UNCHANGED <<reports, status, dir, told>>

\* log_analysis_summary, and the task read from .response_analysis.
\* OUTCOME_WRITTEN is set before the outcome is written.
ReadAnalysis(w) ==
  /\ At(w, "report")
  /\ IF ~ dir.present THEN Die(w, 1)
     ELSE IF dir.analysis.task
       THEN proc' = [proc EXCEPT ![w].at = "success", ![w].written = TRUE]
       ELSE Goto(w, "breaker")
  /\ UNCHANGED <<reports, status, dir, told>>

ReportSuccess(w) ==
  /\ At(w, "success")
  /\ Write(w, "success")
  /\ Goto(w, "finish")
  /\ UNCHANGED <<status, dir>>

\* update_status, and `return 6`, which ends the script with that code.
Finish(w) ==
  /\ At(w, "finish")
  /\ Show(w, "completed")
  /\ Die(w, 6)
  /\ UNCHANGED <<reports, dir, told>>

\* record_loop_result: read, compute, truncate, write.
ReadBreaker(w) ==
  /\ At(w, "breaker")
  /\ proc' = [proc EXCEPT ![w].at = "truncate", ![w].read = dir.breaker]
  /\ UNCHANGED <<reports, status, dir, told>>

TruncateBreaker(w) ==
  /\ At(w, "truncate")
  /\ dir' = [dir EXCEPT !.breaker = EmptyFile]
  /\ Goto(w, "store")
  /\ UNCHANGED <<reports, status, told>>

\* auto_cleanup_logs: its first ((removed_count++)) is a command of status 1.  The
\* log it archived is made good by the next run's, so logs need not go down.
CleansUp(w) ==
  proc[w].loop % CleanEvery = 0 /\ dir.logs > KeepLogs

\* What main() does after a result of 0, the cleanup included.
LoopDone(w) ==
  /\ Show(w, "success")
  /\ proc' = [proc EXCEPT ![w] =
        IF CleansUp(w) THEN [@ EXCEPT !.at = "exit", !.rc = 1]
        ELSE [@ EXCEPT !.at = "top", !.files = FALSE, !.error = FALSE,
                       !.read = FreshBreaker]]

\* The record written; a breaker that is open makes record_loop_result return 1,
\* and the script ends.  Otherwise the loop is over.
StoreBreaker(w) ==
  /\ At(w, "store")
  /\ LET cb == Recorded(proc[w].read, proc[w].files, proc[w].error)
     IN  /\ dir' = [dir EXCEPT !.breaker = cb]
         /\ \/ Halts(cb) /\ Die(w, 1) /\ UNCHANGED status
            \/ ~ Halts(cb) /\ LoopDone(w)
  /\ UNCHANGED <<reports, told>>

\* The synthetic outcome of a graceful exit, and then the note that it is written.
ReportTimeout(w) ==
  /\ At(w, "timeout")
  /\ Write(w, "timeout")
  /\ Goto(w, "mark")
  /\ UNCHANGED <<status, dir>>

MarkTimeout(w) ==
  /\ At(w, "mark")
  /\ proc' = [proc EXCEPT ![w].at = "exit", ![w].rc = 0, ![w].written = TRUE]
  /\ UNCHANGED <<reports, status, dir, told>>

\* Mutant of OnExit: a clean exit writes no outcome.
OnExitSilent(w) ==
  /\ At(w, "exit")
  /\ IF proc[w].rc # 0 THEN Show(w, "crashed") ELSE UNCHANGED status
  /\ IF proc[w].written \/ proc[w].rc = 0
       THEN proc' = [proc EXCEPT ![w] = Ended(w)] /\ UNCHANGED <<reports, told>>
       ELSE /\ Write(w, "crashed")
            /\ Goto(w, "exit_mark")
  /\ UNCHANGED dir

\* on_exit, the trap on EXIT.
OnExit(w) ==
  /\ At(w, "exit")
  /\ IF proc[w].rc # 0 THEN Show(w, "crashed") ELSE UNCHANGED status
  /\ IF proc[w].written
       THEN proc' = [proc EXCEPT ![w] = Ended(w)] /\ UNCHANGED <<reports, told>>
       ELSE /\ Write(w, IF proc[w].rc = 0 THEN "no_task" ELSE "crashed")
            /\ Goto(w, "exit_mark")
  /\ UNCHANGED dir

MarkExit(w) ==
  /\ At(w, "exit_mark")
  /\ proc' = [proc EXCEPT ![w] = Ended(w)]
  /\ UNCHANGED <<reports, status, dir, told>>

\* cleanup, the trap on SIGINT and SIGTERM, after the command at hand.  It ends
\* with `exit 0`: on_exit follows unless it is what was interrupted.
Terminated(w) ==
  /\ w \in Alive
  /\ "term" \in Faults
  /\ IF proc[w].written
       THEN /\ told' = [told EXCEPT ![w].cut = @ \/ At(w, "success")]
            /\ UNCHANGED reports
       ELSE Write(w, "aborted")
  /\ Show(w, "stopped")
  /\ proc' = [proc EXCEPT ![w] =
                 IF @.at = "exit_mark" THEN [Ended(w) EXCEPT !.rc = 0]
                 ELSE [@ EXCEPT !.at = "exit", !.rc = 0, !.written = TRUE]]
  /\ UNCHANGED dir

\* SIGKILL, or the machine goes down.
Killed(w) ==
  /\ w \in Alive
  /\ "kill" \in Faults
  /\ proc' = [proc EXCEPT ![w] = [Absent EXCEPT !.at = "killed"]]
  /\ UNCHANGED <<reports, status, dir, told>>

\* The daemon has consumed what an ended worker left and will use the slot for a
\* worker of a new id.
Collect(w) ==
  /\ proc[w].at \in {"gone", "killed"}
  /\ proc' = [proc EXCEPT ![w] = Absent]
  /\ reports' = [reports EXCEPT ![w] = <<>>]
  /\ status' = [status EXCEPT ![w] = NoStatus]
  /\ told' = [told EXCEPT ![w] = Untold]
  /\ UNCHANGED dir

\* The hour is over.
Tick ==
  /\ proc' = [w \in Workers |-> [proc[w] EXCEPT !.current = FALSE]]
  /\ told' = [w \in Workers |-> [told[w] EXCEPT !.hourly = 0]]
  /\ UNCHANGED <<reports, status, dir>>

\* A step the script takes by itself.
Run(w) ==
  \/ LoopTop(w) \/ WaitForReset(w) \/ WaitFails(w) \/ ModelFails(w) \/ ModelAnswers(w)
  \/ CountSignals(w) \/ ReadAnalysis(w) \/ ReportSuccess(w) \/ Finish(w)
  \/ ReadBreaker(w) \/ TruncateBreaker(w) \/ StoreBreaker(w)
  \/ ReportTimeout(w) \/ MarkTimeout(w) \/ OnExit(w) \/ MarkExit(w)

Next ==
  \/ Tick
  \/ \E w \in Workers : Start(w) \/ Run(w) \/ Terminated(w) \/ Killed(w) \/ Collect(w)

Spec == Init /\ [][Next]_vars

\* A live process runs on, the model's runs are timed out, and time passes.
FairSpec == Spec /\ WF_vars(Tick) /\ \A w \in Workers : WF_vars(Run(w))

-----------------------------------------------------------------------------
\* Types of everything the workers and the files of the directory hold.
TypeOK ==
  /\ proc \in [Workers -> Process]
  /\ \A w \in Workers : /\ reports[w] \in Seq(Kind)
                        /\ status[w].cost \in 0 .. 1
  /\ dir \in Directory

\* A worker that ends by itself or on SIGTERM leaves an outcome file on every
\* way out (the traps of ralph_loop.sh and OUTCOME_WRITTEN), but for two cases:
\* the writer failed, or the signal came just before it was to report success.
EveryExitReports ==
  \A w \in Workers : At(w, "gone") => reports[w] # <<>> \/ told[w].lost \/ told[w].cut

\* With one worker at a time in a directory, a worker that reports success has
\* read the task in an answer of its own model, not in what an earlier worker
\* left in .response_analysis.
SuccessIsOwn ==
  \A w \in Workers : \A i \in DOMAIN reports[w] :
    reports[w][i] = "success" => told[w].named

\* The state in the breaker's file agrees with its counters, however the loops of
\* successive workers, their deaths and the model's answers fall: open exactly
\* when a threshold was reached, monitoring exactly after two idle loops.  The
\* count of errors can pass its threshold by one, while the breaker is monitored.
BreakerAgrees ==
  LET cb == dir.breaker
  IN  /\ cb.state = "OPEN" =>
           cb.idle >= CB_NO_PROGRESS_THRESHOLD \/ cb.errors >= CB_SAME_ERROR_THRESHOLD
      /\ cb.state = "HALF_OPEN" => cb.idle = 2 /\ cb.errors < CB_SAME_ERROR_THRESHOLD
      /\ cb.state = "CLOSED" => cb.idle < 2 /\ cb.errors <= CB_SAME_ERROR_THRESHOLD

\* A worker alone in its directory does not run on after its model has said four
\* times that it is done, whatever lies between the four (the window of
\* .exit_signals and should_exit_gracefully).
StopsWhenTold ==
  \A w \in Workers : told[w].done <= MAX_CONSECUTIVE_DONE_SIGNALS

\* A worker starts at most MAX_CALLS_PER_HOUR runs of the model in one hour.
CallsPerHour == \A w \in Workers : told[w].hourly <= MaxCalls

\* A worker that was started ends: the loops are counted, waits included.
Terminates ==
  \A w \in Workers : At(w, "top") ~> proc[w].at \in {"gone", "killed"}

\* What the daemon relies on of the outcome files (OutcomeContract).
Outcome == INSTANCE OutcomeContract WITH
  phase <- [w \in Workers |->
              CASE At(w, "absent") -> "absent"
                [] proc[w].at \in {"gone", "killed"} -> "gone"
                [] OTHER -> "alive"],
  report <- [w \in Workers |->
               IF reports[w] = <<>> THEN "none" ELSE reports[w][Len(reports[w])]]

ReportsByContract == Outcome!Spec

-----------------------------------------------------------------------------
\* What docs and comments say and the script does not do.

\* outcome.py:38: success is "task completed cleanly (RALPH_STATUS COMPLETE)".
SuccessMeansComplete ==
  \A w \in Workers : \A i \in DOMAIN reports[w] :
    reports[w][i] = "success" => told[w].complete

\* ralph_loop.sh:50: the handlers "emit a 'crashed' outcome if nothing else wrote
\* one".
NothingElseWroteOne ==
  \A w \in Workers : At(w, "gone") => reports[w] # <<>> \/ told[w].lost

\* spawner.py: the exit code contract has 0 for "Success - task complete" and 3
\* for the circuit breaker.
SuccessExitsZero ==
  \A w \in Workers : At(w, "gone") /\ reports[w] # <<>> =>
    (reports[w][Len(reports[w])] = "success" => proc[w].rc = 0)

\* ralph_loop.sh: "Stopping Ralph to prevent exceeding budget"; a
\* run of the model costs 1, and no loop was spent waiting.
WithinBudget ==
  \A w \in Workers :
    At(w, "model") /\ Budget > 0 /\ MaxCalls >= MaxLoops => proc[w].loop <= Budget
=============================================================================
