------------------------------ MODULE MCWorker ------------------------------
(***************************************************************************)
(* Finite instances of Worker.                                             *)
(***************************************************************************)
EXTENDS Worker

CONSTANTS w1

Plain == [format |-> "json", block |-> "none", marker |-> "none", recent |-> FALSE,
          words |-> FALSE, tests |-> FALSE, files |-> TRUE, error |-> FALSE]

\* One answer of each kind that the analyzer, the counters or the breaker tell
\* from the others.
AnswersOfEachKind == {
  Plain,
  [Plain EXCEPT !.files = FALSE],
  [Plain EXCEPT !.error = TRUE],
  [Plain EXCEPT !.block = "complete"],
  [Plain EXCEPT !.marker = "commit"],
  [Plain EXCEPT !.format = "text", !.tests = TRUE, !.files = FALSE],
  [Plain EXCEPT !.format = "text", !.words = TRUE],
  [Plain EXCEPT !.format = "text", !.block = "failed"],
  [Plain EXCEPT !.format = "empty", !.files = FALSE]}
=============================================================================
