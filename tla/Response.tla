------------------------------ MODULE Response ------------------------------
(***************************************************************************)
(* What ralph_loop.sh makes of one answer of the model                     *)
(* (response_analyzer.sh): which task the worker takes for completed, and  *)
(* which completion signals it counts.  The JSON path knows only the       *)
(* legacy TASK_COMPLETE marker; the text path takes the TASK_ID of any     *)
(* RALPH_STATUS block, whatever its STATUS, and failing that the task      *)
(* number in a recent commit message.                                      *)
(***************************************************************************)
EXTENDS Integers

Answer ==
  [format : {"json", "text", "empty"},
   block  : {"none", "progress", "failed", "complete"},  \* RALPH_STATUS printed
   marker : {"none", "task", "commit"},                  \* TASK_COMPLETE, with COMMIT
   recent : BOOLEAN,     \* HEAD is at most 5 minutes old and names a task
   words  : BOOLEAN,     \* completion or nothing-to-do keywords
   tests  : BOOLEAN,     \* test commands and no word of implementation
   files  : BOOLEAN,     \* git diff --name-only lists something
   error  : BOOLEAN]     \* an error pattern matches

\* The prompt's blocks (spawner.py): FAILED and COMPLETE carry EXIT_SIGNAL: true
\* and the TASK_ID, IN_PROGRESS carries EXIT_SIGNAL: false and no TASK_ID.
NamesTask(a) == a.block \in {"failed", "complete"}

NamedInText(a) ==
  \/ NamesTask(a)
  \/ a.block = "none" /\ a.marker # "none"
  \/ a.recent

\* analysis.completed_task_id is not empty.
CompletesTask(a) ==
  CASE a.format = "json" -> a.marker # "none"
    [] a.format = "text" -> NamedInText(a)
    [] a.format = "empty" -> a.recent

\* analysis.has_completion_signal
Done(a) ==
  CASE a.format = "json" -> NamesTask(a) \/ a.marker # "none"
    [] a.format = "text" -> \/ NamesTask(a)
                            \/ a.block = "none" /\ a.marker # "none"
                            \/ a.words
    [] a.format = "empty" -> FALSE

\* analysis.confidence_score >= 60.  A JSON answer of the Claude CLI has a
\* result field and reaches 70 by that alone.
Confident(a) == a.format = "json" \/ CompletesTask(a)

\* analysis.exit_signal (a declining output length adds to the confidence in the
\* code; it is left out here).
ExitSignal(a) ==
  CASE a.format = "json" -> NamesTask(a) \/ a.marker = "commit"
    [] a.format = "text" -> \/ NamesTask(a)
                            \/ a.block = "none" /\ (a.marker # "none" \/ (a.recent /\ (a.words \/ a.files)))
    [] a.format = "empty" -> a.recent /\ a.files

\* What stays in .response_analysis of an answer.
Analysis(a) ==
  [task |-> CompletesTask(a), done |-> Done(a), sure |-> Confident(a),
   exit |-> ExitSignal(a), tests |-> a.format = "text" /\ a.tests, files |-> a.files]

\* The arrays of .exit_signals are windows of the last five loops; what is read
\* of them is their length.
Window == 0 .. 5
Signals == [tests : Window, done : Window, sure : Window]
NoSignals == [tests |-> 0, done |-> 0, sure |-> 0]

Push(n) == IF n = 5 THEN 5 ELSE n + 1

\* Mutant of Updated: a loop without a completion signal clears the done signals.
UpdatedConsecutive(s, n) ==
  [tests |-> IF n.tests THEN Push(s.tests) ELSE IF n.files THEN 0 ELSE s.tests,
   done  |-> IF n.done THEN Push(s.done) ELSE 0,
   sure  |-> IF n.sure THEN Push(s.sure) ELSE s.sure]

\* update_exit_signals
Updated(s, n) ==
  [tests |-> IF n.tests THEN Push(s.tests) ELSE IF n.files THEN 0 ELSE s.tests,
   done  |-> IF n.done THEN Push(s.done) ELSE s.done,
   sure  |-> IF n.sure THEN Push(s.sure) ELSE s.sure]

MAX_CONSECUTIVE_TEST_LOOPS == 3
MAX_CONSECUTIVE_DONE_SIGNALS == 4

\* should_exit_gracefully, for a worker with a --ralph-id and an empty
\* completed_task_id: strong indicators never end it, but they return before the
\* plan is looked at.
ExitReason(s, exit, planDone) ==
  CASE s.tests >= MAX_CONSECUTIVE_TEST_LOOPS -> "test_saturation"
    [] s.tests < MAX_CONSECUTIVE_TEST_LOOPS
       /\ s.done >= MAX_CONSECUTIVE_DONE_SIGNALS -> "completion_signals"
    [] /\ s.tests < MAX_CONSECUTIVE_TEST_LOOPS
       /\ s.done < MAX_CONSECUTIVE_DONE_SIGNALS
       /\ ~ (s.sure = 5 \/ (s.sure >= 2 /\ exit))
       /\ planDone -> "plan_complete"
    [] OTHER -> "none"
=============================================================================
