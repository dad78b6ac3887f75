--------------------------- MODULE OutcomeContract ---------------------------
(***************************************************************************)
(* What the daemon may rely on of a worker's outcome file: it appears only *)
(* while the worker lives, a report of success is final, and the only      *)
(* report that may take the place of another is "aborted", written by a    *)
(* worker that was signalled between writing and noting that it had.       *)
(***************************************************************************)
CONSTANT Workers

VARIABLES phase, report

vars == <<phase, report>>

Unfinished == {"timeout", "crashed", "no_task"}
Final == {"success", "aborted"}

Init ==
  /\ phase = [w \in Workers |-> "absent"]
  /\ report = [w \in Workers |-> "none"]

Begin(w) ==
  /\ phase[w] = "absent"
  /\ phase' = [phase EXCEPT ![w] = "alive"]
  /\ UNCHANGED report

Report(w, kind) ==
  /\ phase[w] = "alive"
  /\ report[w] = "none" \/ (report[w] \in Unfinished /\ kind = "aborted")
  /\ report' = [report EXCEPT ![w] = kind]
  /\ phase' \in {phase, [phase EXCEPT ![w] = "gone"]}

End(w) ==
  /\ phase[w] = "alive"
  /\ phase' = [phase EXCEPT ![w] = "gone"]
  /\ UNCHANGED report

\* The daemon takes what is there.
Collect(w) ==
  /\ phase[w] = "gone"
  /\ phase' = [phase EXCEPT ![w] = "absent"]
  /\ report' = [report EXCEPT ![w] = "none"]

Next == \E w \in Workers : \/ Begin(w) \/ End(w) \/ Collect(w)
                           \/ \E kind \in Unfinished \cup Final : Report(w, kind)

Spec == Init /\ [][Next]_vars
=============================================================================
