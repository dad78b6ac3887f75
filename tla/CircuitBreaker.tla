--------------------------- MODULE CircuitBreaker ---------------------------
(***************************************************************************)
(* The circuit breaker of a working directory (circuit_breaker.sh): the    *)
(* contents of .circuit_breaker_state and what one recorded loop makes of  *)
(* them.  The file is rewritten in place, so a reader may find it empty;   *)
(* an empty file passes the JSON check, reads as no state at all, and what *)
(* is then written has no state either.                                    *)
(***************************************************************************)
EXTENDS Integers

CB_NO_PROGRESS_THRESHOLD == 3
CB_SAME_ERROR_THRESHOLD == 5

CBState == {"CLOSED", "HALF_OPEN", "OPEN"}
NoState == "none"   \* jq prints nothing for an empty file

\* Only comparisons with the thresholds are made: CounterCap stands for every
\* larger count.
CounterCap == CB_SAME_ERROR_THRESHOLD + 1
PlusOne(n) == IF n = CounterCap THEN n ELSE n + 1

\* state, consecutive_no_progress and consecutive_same_error.
Breaker == [state : CBState \cup {NoState}, idle : 0 .. CounterCap,
            errors : 0 .. CounterCap]
FreshBreaker == [state |-> "CLOSED", idle |-> 0, errors |-> 0]
EmptyFile == [state |-> NoState, idle |-> 0, errors |-> 0]

\* Mutant of NextState: a closed breaker does not look at errors either.
NextStateNoErrors(state, idle, errors) ==
  CASE state = "CLOSED" ->
         IF idle >= CB_NO_PROGRESS_THRESHOLD THEN "OPEN"
           ELSE IF idle >= 2 THEN "HALF_OPEN" ELSE "CLOSED"
    [] state = "HALF_OPEN" ->
         IF idle = 0 THEN "CLOSED"
           ELSE IF idle >= CB_NO_PROGRESS_THRESHOLD THEN "OPEN" ELSE "HALF_OPEN"
    [] OTHER -> state

\* A monitored breaker does not look at errors; an open one stays open.
NextState(state, idle, errors) ==
  CASE state = "CLOSED" ->
         IF idle >= CB_NO_PROGRESS_THRESHOLD \/ errors >= CB_SAME_ERROR_THRESHOLD
           THEN "OPEN"
           ELSE IF idle >= 2 THEN "HALF_OPEN" ELSE "CLOSED"
    [] state = "HALF_OPEN" ->
         IF idle = 0 THEN "CLOSED"
           ELSE IF idle >= CB_NO_PROGRESS_THRESHOLD THEN "OPEN" ELSE "HALF_OPEN"
    [] OTHER -> state

\* record_loop_result: the contents written after a loop that changed files or
\* not, and had errors or not.
Recorded(cb, progress, error) ==
  LET idle == IF progress THEN 0 ELSE PlusOne(cb.idle)
      errors == IF error THEN PlusOne(cb.errors) ELSE 0
  IN  [state |-> NextState(cb.state, idle, errors), idle |-> idle, errors |-> errors]

\* should_halt_execution
Halts(cb) == cb.state = "OPEN"
=============================================================================
