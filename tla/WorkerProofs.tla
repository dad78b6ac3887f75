---------------------------- MODULE WorkerProofs ----------------------------
(***************************************************************************)
(* What the worker loop leaves behind and where it stops, for any number   *)
(* of workers, answers, loops, calls, logs and faults.                     *)
(***************************************************************************)
EXTENDS Worker, TLAPS

-----------------------------------------------------------------------------
(***************************************************************************)
(* Types.                                                                  *)
(***************************************************************************)
Story == [hourly : Nat, done : Nat, named : BOOLEAN, complete : BOOLEAN,
          lost : BOOLEAN, cut : BOOLEAN]
Word == {"none", "running", "success", "completed", "stopped", "halted", "crashed"}
Shown == [word : Word, cost : 0 .. 1]
Leaving == {"exit", "exit_mark", "gone", "killed"}

\* The last loop that is counted is not run; a run of the model is within the limit.
Counted(w) ==
  /\ proc[w].at \notin Leaving => proc[w].loop < MaxLoops
  /\ At(w, "model") => proc[w].calls < MaxCalls

TypeInv ==
  /\ proc \in [Workers -> Process]
  /\ reports \in [Workers -> Seq(Kind)]
  /\ status \in [Workers -> Shown]
  /\ told \in [Workers -> Story]
  /\ dir \in Directory
  /\ \A w \in Workers : Counted(w)

LEMMA Bounds ==
  /\ MaxLoops \in Nat /\ MaxLoops > 0 /\ MaxCalls \in Nat /\ MaxCalls > 0
  /\ KeepLogs \in Nat /\ KeepLogs > 0 /\ CleanEvery \in Nat /\ CleanEvery > 0
<1>1. {MaxLoops, MaxCalls, KeepLogs, CleanEvery} \subseteq Nat \ {0}
  BY WorkerAssumption
<1> QED BY <1>1

LEMMA TypeInvTypes == TypeInv => TypeOK
BY DEF TypeInv, TypeOK, Shown

LEMMA OneWorker ==
  ASSUME TypeInv, NEW w \in Workers
  PROVE  /\ proc[w] \in Process /\ told[w] \in Story /\ dir \in Directory /\ status[w] \in Shown
         /\ proc[w].at \in Place /\ proc[w].loop \in Nat /\ proc[w].calls \in Nat
         /\ proc[w].calls <= MaxCalls
         /\ proc[w].at \notin Leaving => proc[w].loop < MaxLoops
         /\ proc[w].at = "model" => proc[w].calls < MaxCalls
<1>1. proc[w] \in Process /\ told[w] \in Story /\ dir \in Directory /\ status[w] \in Shown /\ Counted(w)
  BY DEF TypeInv
<1> QED BY <1>1, Bounds DEF Counted, At, Process

LEMMA BreakerTypes ==
  /\ FreshBreaker \in Breaker /\ EmptyFile \in Breaker
  /\ \A cb \in Breaker, p \in BOOLEAN, e \in BOOLEAN : Recorded(cb, p, e) \in Breaker
<1>1. FreshBreaker \in Breaker /\ EmptyFile \in Breaker
  BY DEF FreshBreaker, EmptyFile, Breaker, CBState, CounterCap, CB_SAME_ERROR_THRESHOLD
<1>2. ASSUME NEW cb \in Breaker, NEW p \in BOOLEAN, NEW e \in BOOLEAN
      PROVE  Recorded(cb, p, e) \in Breaker
  <2>1. \A n \in 0 .. CounterCap : PlusOne(n) \in 0 .. CounterCap
    BY DEF PlusOne, CounterCap, CB_SAME_ERROR_THRESHOLD
  <2>2. 0 \in 0 .. CounterCap
    BY DEF CounterCap, CB_SAME_ERROR_THRESHOLD
  <2>3. cb.idle \in 0 .. CounterCap /\ cb.errors \in 0 .. CounterCap
        /\ cb.state \in CBState \cup {NoState}
    BY DEF Breaker
  <2>4. \A i, k : NextState(cb.state, i, k) \in CBState \cup {NoState}
    BY <2>3 DEF NextState, CBState
  <2> QED BY <2>1, <2>2, <2>3, <2>4 DEF Recorded, Breaker
<1> QED BY <1>1, <1>2

\* A step that touches its own worker only keeps the functions typed.
LEMMA Placed ==
  ASSUME TypeInv, NEW w \in Workers, NEW p \in Process, proc' = [proc EXCEPT ![w] = p],
         p.at \notin Leaving => p.loop < MaxLoops, p.at = "model" => p.calls < MaxCalls
  PROVE  proc' \in [Workers -> Process] /\ \A v \in Workers : Counted(v)'
BY DEF TypeInv, Counted, At

LEMMA AbsentType == Absent \in Process /\ Absent.loop = 0 /\ Absent.at = "absent"
BY BreakerTypes, WorkerAssumption DEF Absent, Process, Place

LEMMA StoryTypes ==
  /\ Untold \in Story
  /\ \A s \in Story : /\ \A b \in BOOLEAN : [s EXCEPT !.lost = b] \in Story
                      /\ \A b \in BOOLEAN : [s EXCEPT !.cut = b] \in Story
                      /\ [s EXCEPT !.hourly = @ + 1] \in Story
                      /\ [s EXCEPT !.hourly = 0] \in Story
BY DEF Untold, Story

\* A report is appended, or lost.
LEMMA WriteTypes ==
  ASSUME TypeInv, NEW w \in Workers, NEW kind \in Kind, Write(w, kind)
  PROVE  reports' \in [Workers -> Seq(Kind)] /\ told' \in [Workers -> Story]
<1>1. Append(reports[w], kind) \in Seq(Kind)
  BY DEF TypeInv
<1>2. told' \in [Workers -> Story]
  <2>1. PICK ok : told' = [told EXCEPT ![w].lost = @ \/ ~ ok]
    BY DEF Write
  <2>2. told[w] \in Story
    BY DEF TypeInv
  <2>3. [told[w] EXCEPT !.lost = told[w].lost \/ ~ ok] \in Story
    BY <2>2, StoryTypes
  <2> QED BY <2>1, <2>3 DEF TypeInv
<1> QED BY <1>1, <1>2 DEF Write, TypeInv

LEMMA ShowTypes ==
  ASSUME TypeInv, NEW w \in Workers, NEW word \in Word
  PROVE  /\ Show(w, word) => status' \in [Workers -> Shown]
         /\ AccumulateCost(w) \in [Workers -> Shown]
<1>1. \A s \in Shown : [s EXCEPT !.cost = 1] \in Shown
  BY DEF Shown
<1>2. [word |-> word, cost |-> 0] \in Shown
  BY DEF Shown
<1> QED BY <1>1, <1>2 DEF TypeInv, Show, AccumulateCost

LEMMA AnalysisTypes ==
  /\ NoAnalysis \in AnalysisFile
  /\ \A a \in Answer : Analysis(a) \in AnalysisFile
<1>1. NoAnalysis \in AnalysisFile
  BY DEF NoAnalysis, AnalysisFile
<1>2. ASSUME NEW a \in Answer PROVE Analysis(a) \in AnalysisFile
  <2>1. /\ CompletesTask(a) \in BOOLEAN /\ Done(a) \in BOOLEAN /\ Confident(a) \in BOOLEAN
        /\ ExitSignal(a) \in BOOLEAN /\ (a.format = "text" /\ a.tests) \in BOOLEAN
        /\ a.files \in BOOLEAN
    BY DEF Answer, CompletesTask, NamedInText, Done, Confident, ExitSignal, NamesTask
  <2> QED BY <2>1 DEF Analysis, AnalysisFile
<1> QED BY <1>1, <1>2

LEMMA SignalTypes ==
  /\ NoSignals \in Signals
  /\ \A s \in Signals : \A n : Updated(s, n) \in Signals
<1>1. \A n \in Window : Push(n) \in Window
  BY DEF Push, Window
<1> QED BY <1>1 DEF NoSignals, Signals, Updated, Window

LEMMA InitTypes == Init => TypeInv
<1> SUFFICES ASSUME Init PROVE TypeInv
  OBVIOUS
<1>1. proc \in [Workers -> Process] /\ \A w \in Workers : Counted(w)
  BY AbsentType, WorkerAssumption DEF Init, Counted, At
<1>2. reports \in [Workers -> Seq(Kind)] /\ status \in [Workers -> Shown]
  <2>1. NoStatus \in Shown
    BY DEF NoStatus, Shown, Word
  <2>2. << >> \in Seq(Kind)
    OBVIOUS
  <2> QED BY <2>1, <2>2 DEF Init
<1>3. told \in [Workers -> Story]
  BY StoryTypes DEF Init
<1>4. dir \in Directory
  BY BreakerTypes, SignalTypes, AnalysisTypes, WorkerAssumption DEF Init, Directory
<1> QED BY <1>1, <1>2, <1>3, <1>4 DEF TypeInv

-----------------------------------------------------------------------------
\* How a step changes the worker it is of.
LEMMA Going ==
  ASSUME TypeInv, NEW w \in Workers, NEW place \in Place \ {"model"}, Goto(w, place),
         ~ At(w, "absent"), proc[w].at \notin Leaving
  PROVE  proc' \in [Workers -> Process] /\ \A v \in Workers : Counted(v)'
<1>1. [proc[w] EXCEPT !.at = place] \in Process
      /\ [proc[w] EXCEPT !.at = place].loop < MaxLoops
      /\ [proc[w] EXCEPT !.at = place].at = place
  BY DEF TypeInv, Counted, Process
<1>2. proc' = [proc EXCEPT ![w] = [proc[w] EXCEPT !.at = place]]
  BY DEF Goto
<1> QED BY <1>1, <1>2, Placed

LEMMA Dying ==
  ASSUME TypeInv, NEW w \in Workers, NEW code \in Nat, Die(w, code)
  PROVE  proc' \in [Workers -> Process] /\ \A v \in Workers : Counted(v)'
<1> DEFINE p == [[proc[w] EXCEPT !.at = "exit"] EXCEPT !.rc = code]
<1>1. p \in Process /\ p.at = "exit"
  BY DEF TypeInv, Process, Place
<1>2. proc' = [proc EXCEPT ![w] = p]
  BY DEF Die
<1> HIDE DEF p
<1> QED BY <1>1, <1>2, Placed DEF Leaving

LEMMA Ending ==
  ASSUME TypeInv, NEW w \in Workers, NEW code \in Nat,
         proc' \in {[proc EXCEPT ![w] = Ended(w)], [proc EXCEPT ![w] = [Absent EXCEPT !.at = "killed"]],
                    [proc EXCEPT ![w] = [Ended(w) EXCEPT !.rc = code]]}
  PROVE  proc' \in [Workers -> Process] /\ \A v \in Workers : Counted(v)'
<1>1. /\ Ended(w) \in Process /\ Ended(w).at = "gone"
      /\ [Ended(w) EXCEPT !.rc = code] \in Process /\ [Ended(w) EXCEPT !.rc = code].at = "gone"
      /\ [Absent EXCEPT !.at = "killed"] \in Process /\ [Absent EXCEPT !.at = "killed"].at = "killed"
  BY AbsentType DEF TypeInv, Process, Place, Ended
<1> QED BY <1>1, Placed DEF Leaving

LEMMA StartTypes == ASSUME TypeInv, NEW w \in Workers, Start(w) PROVE TypeInv'
<1>1. [proc[w] EXCEPT !.at = "top"] \in Process /\ proc[w].loop < MaxLoops
      /\ [proc[w] EXCEPT !.at = "top"].at = "top"
      /\ [proc[w] EXCEPT !.at = "top"].loop = proc[w].loop
  BY DEF Start, TypeInv, Counted, Process, Place, At, Leaving
<1>2. proc' = [proc EXCEPT ![w] = [proc[w] EXCEPT !.at = "top"]]
  BY DEF Start, Goto
<1>3. proc' \in [Workers -> Process] /\ \A v \in Workers : Counted(v)'
  BY <1>1, <1>2, Placed
<1>4. dir' \in Directory
  BY SignalTypes DEF Start, TypeInv, Directory
<1> QED BY <1>3, <1>4 DEF Start, TypeInv

LEMMA LoopTopTypes == ASSUME TypeInv, NEW w \in Workers, LoopTop(w) PROVE TypeInv'
<1> DEFINE p == Entered(w)
           verdict == Verdict(w, p)
<1>0. p = [[[proc[w] EXCEPT !.loop = @ + 1] EXCEPT !.current = TRUE] EXCEPT !.calls = IF proc[w].current THEN @ ELSE 0]
  BY DEF Entered
<1>1. proc[w] \in Process /\ proc[w].loop < MaxLoops /\ proc[w].loop + 1 \in 0 .. MaxLoops
  <2>1. proc[w].at = "top"
    BY DEF LoopTop, At
  <2>2. proc[w].loop < MaxLoops
    BY <2>1, OneWorker DEF Leaving
  <2> QED BY <2>2, OneWorker, Bounds
<1>2. p \in Process /\ p.loop = proc[w].loop + 1 /\ p.calls \in 0 .. MaxCalls
  <2>1. (IF proc[w].current THEN proc[w].calls ELSE 0) \in 0 .. MaxCalls
    BY <1>1, Bounds DEF Process
  <2> QED BY <1>0, <1>1, <2>1 DEF Process
<1>3. verdict # "max_loops" => p.loop < MaxLoops
  BY <1>1, <1>2, Bounds DEF Verdict
<1>4. verdict = "none" => p.calls < MaxCalls
  BY <1>1, <1>2, Bounds DEF Verdict
<1> HIDE DEF p, verdict
<1>5. proc' \in [Workers -> Process] /\ \A v \in Workers : Counted(v)'
  <2> DEFINE Becomes(q) == /\ proc' = [proc EXCEPT ![w] = q]
                           /\ q.at \notin Leaving => q.loop < MaxLoops
                           /\ q.at = "model" => q.calls < MaxCalls
  <2>1. \E q \in Process : Becomes(q)
    <3>1. CASE verdict = "max_loops"
      <4> DEFINE q == [[[proc[w] EXCEPT !.at = "exit"] EXCEPT !.loop = p.loop] EXCEPT !.rc = 0]
      <4>1. q \in Process /\ q.at = "exit"
        BY <1>1, <1>2 DEF Process, Place
      <4>2. proc' = [proc EXCEPT ![w] = q]
        BY <3>1 DEF LoopTop, p, verdict
      <4> QED BY <4>1, <4>2 DEF Leaving
    <3>2. CASE verdict \in {"cost_budget", "circuit_open"}
      <4> DEFINE q == [[p EXCEPT !.at = "exit"] EXCEPT !.rc = 0]
      <4>1. q \in Process /\ q.at = "exit"
        BY <1>2 DEF Process, Place
      <4>2. proc' = [proc EXCEPT ![w] = q]
        BY <3>2 DEF LoopTop, p, verdict
      <4> QED BY <4>1, <4>2 DEF Leaving
    <3>3. ASSUME NEW place \in {"waiting", "timeout", "model"},
                 verdict # "max_loops", place = "model" => verdict = "none",
                 proc' = [proc EXCEPT ![w] = [p EXCEPT !.at = place]]
          PROVE  \E q \in Process : Becomes(q)
      <4>1. [p EXCEPT !.at = place] \in Process
            /\ [p EXCEPT !.at = place].at = place
            /\ [p EXCEPT !.at = place].loop = p.loop /\ [p EXCEPT !.at = place].calls = p.calls
        BY <1>2 DEF Process, Place
      <4> QED BY <1>3, <1>4, <3>3, <4>1
    <3>4. verdict \in {"rate_limited", "test_saturation", "completion_signals", "plan_complete", "none"} =>
            \E place \in {"waiting", "timeout", "model"} :
              (place = "model" => verdict = "none") /\ proc' = [proc EXCEPT ![w] = [p EXCEPT !.at = place]]
      BY DEF LoopTop, p, verdict
    <3>5. verdict \in {"max_loops", "cost_budget", "circuit_open", "rate_limited",
                       "test_saturation", "completion_signals", "plan_complete", "none"}
      BY DEF LoopTop, p, verdict
    <3> HIDE DEF Becomes
    <3> QED BY <3>1, <3>2, <3>3, <3>4, <3>5
  <2> QED BY <2>1, Placed
<1>6. status' \in [Workers -> Shown] /\ told' \in [Workers -> Story]
  <2>1. status' = status \/ \E word \in Word : Show(w, word)
    BY DEF LoopTop, Word
  <2>2. told' = told \/ told' = [told EXCEPT ![w].hourly = @ + 1]
    BY DEF LoopTop
  <2>3. told[w] \in Story
    BY DEF TypeInv
  <2>4. [told[w] EXCEPT !.hourly = told[w].hourly + 1] \in Story
    BY <2>3, StoryTypes
  <2>5. told' \in [Workers -> Story]
    BY <2>2, <2>4 DEF TypeInv
  <2> QED BY <2>1, <2>5, ShowTypes DEF TypeInv
<1> QED BY <1>5, <1>6 DEF LoopTop, TypeInv


\* What one turn of the loop does to its worker, and what it knows of the directory
\* before the model is run.
LEMMA LoopTopEffect ==
  ASSUME TypeInv, NEW w \in Workers, LoopTop(w)
  PROVE  /\ proc[w].at = "top" /\ proc'[w].at \in {"exit", "waiting", "timeout", "model"}
         /\ proc'[w].written = proc[w].written /\ reports' = reports /\ dir' = dir
         /\ proc'[w].at # "exit" => /\ proc'[w].current = TRUE
                                   /\ proc'[w].calls = IF proc[w].current THEN proc[w].calls ELSE 0
         /\ proc'[w].at # "model" => told' = told
         /\ proc'[w].at = "model" =>
              /\ told' = [told EXCEPT ![w].hourly = @ + 1]
              /\ proc'[w].calls < MaxCalls /\ ~ Halts(dir.breaker)
              /\ dir.signals.done < MAX_CONSECUTIVE_DONE_SIGNALS
<1> DEFINE p == Entered(w)
           verdict == Verdict(w, p)
<1>0. proc[w] \in Process
  BY OneWorker
<1>1. p = [[[proc[w] EXCEPT !.loop = @ + 1] EXCEPT !.current = TRUE] EXCEPT !.calls = IF proc[w].current THEN @ ELSE 0]
  BY DEF Entered
<1>2. /\ DOMAIN p = DOMAIN proc[w] /\ p.written = proc[w].written /\ p.current = TRUE
      /\ p.calls = IF proc[w].current THEN proc[w].calls ELSE 0
      /\ "at" \in DOMAIN p /\ "rc" \in DOMAIN p /\ "written" \in DOMAIN p /\ "loop" \in DOMAIN p
  BY <1>0, <1>1 DEF Process
<1>3. verdict = "none" =>
        /\ p.calls < MaxCalls /\ ~ Halts(dir.breaker)
        /\ dir.signals.done < MAX_CONSECUTIVE_DONE_SIGNALS
  <2>1. p.calls \in Int /\ dir.signals.done \in Int /\ MAX_CONSECUTIVE_DONE_SIGNALS \in Int
    <3>1. dir.signals.done \in Int /\ MAX_CONSECUTIVE_DONE_SIGNALS \in Int
      BY OneWorker DEF Directory, Signals, Window, MAX_CONSECUTIVE_DONE_SIGNALS
    <3> QED BY <1>2, <3>1, OneWorker
  <2>2. ASSUME verdict = "none"
        PROVE  /\ ~ Halts(dir.breaker) /\ ~ p.calls >= MaxCalls
               /\ ExitReason(dir.signals, dir.present /\ dir.analysis.exit, dir.planDone) = "none"
    BY <2>2 DEF Verdict
  <2>3. ExitReason(dir.signals, dir.present /\ dir.analysis.exit, dir.planDone) = "none"
          => ~ dir.signals.done >= MAX_CONSECUTIVE_DONE_SIGNALS
    BY <2>1, OneWorker DEF ExitReason, Directory, Signals, Window, MAX_CONSECUTIVE_TEST_LOOPS
  <2> QED BY <2>1, <2>2, <2>3, Bounds
<1>4. LoopTop(w) => /\ proc[w].at = "top" /\ reports' = reports /\ dir' = dir
  BY DEF LoopTop, At
<1> HIDE DEF p
<1>5. CASE verdict \in {"max_loops", "cost_budget", "circuit_open"}
  <2>1. proc' \in {[proc EXCEPT ![w] = [[[proc[w] EXCEPT !.at = "exit"] EXCEPT !.loop = p.loop] EXCEPT !.rc = 0]],
                   [proc EXCEPT ![w] = [[p EXCEPT !.at = "exit"] EXCEPT !.rc = 0]]}
        /\ told' = told
    BY <1>5 DEF LoopTop, p, verdict
  <2>2. proc'[w].at = "exit" /\ proc'[w].written = proc[w].written
    <3>1. \A x : /\ [[[proc[w] EXCEPT !.at = "exit"] EXCEPT !.loop = x] EXCEPT !.rc = 0].at = "exit"
                 /\ [[[proc[w] EXCEPT !.at = "exit"] EXCEPT !.loop = x] EXCEPT !.rc = 0].written = proc[w].written
      BY <1>0 DEF Process
    <3>2. /\ [[p EXCEPT !.at = "exit"] EXCEPT !.rc = 0].at = "exit"
          /\ [[p EXCEPT !.at = "exit"] EXCEPT !.rc = 0].written = proc[w].written
      BY <1>2
    <3> DEFINE r == [[[proc[w] EXCEPT !.at = "exit"] EXCEPT !.loop = p.loop] EXCEPT !.rc = 0]
               s == [[p EXCEPT !.at = "exit"] EXCEPT !.rc = 0]
    <3>3. r.at = "exit" /\ r.written = proc[w].written /\ s.at = "exit" /\ s.written = proc[w].written
      BY <3>1, <3>2
    <3>4. proc' = [proc EXCEPT ![w] = r] \/ proc' = [proc EXCEPT ![w] = s]
      BY <2>1
    <3> HIDE DEF r, s
    <3>5. proc'[w] = r \/ proc'[w] = s
      BY <3>4 DEF TypeInv
    <3> QED BY <3>3, <3>5
  <2> QED BY <1>4, <2>1, <2>2
<1>6. ASSUME NEW place \in {"waiting", "timeout", "model"},
             proc' = [proc EXCEPT ![w] = [p EXCEPT !.at = place]]
      PROVE  /\ proc'[w].at = place /\ proc'[w].written = proc[w].written
             /\ proc'[w].current = TRUE
             /\ proc'[w].calls = p.calls
  BY <1>0, <1>2, <1>6 DEF TypeInv
<1>7. CASE verdict \in {"rate_limited", "test_saturation", "completion_signals", "plan_complete"}
  <2>1. told' = told /\ \E place \in {"waiting", "timeout"} :
          proc' = [proc EXCEPT ![w] = [p EXCEPT !.at = place]]
    BY <1>7 DEF LoopTop, p, verdict
  <2> QED BY <1>2, <1>4, <1>6, <2>1
<1>8. CASE verdict = "none"
  <2>1. told' = [told EXCEPT ![w].hourly = @ + 1] /\ proc' = [proc EXCEPT ![w] = [p EXCEPT !.at = "model"]]
    BY <1>8 DEF LoopTop, p, verdict
  <2> HIDE DEF verdict
  <2> QED BY <1>2, <1>3, <1>4, <1>6, <1>8, <2>1
<1>9. verdict \in {"max_loops", "cost_budget", "circuit_open", "rate_limited",
                   "test_saturation", "completion_signals", "plan_complete", "none"}
  BY DEF LoopTop, p, verdict
<1> HIDE DEF verdict
<1> QED BY <1>5, <1>7, <1>8, <1>9

\* The end of a loop, or of the script.
LEMMA StoreEffect ==
  ASSUME TypeInv, NEW w \in Workers, Die(w, 1) \/ LoopDone(w)
  PROVE  /\ proc'[w].written = proc[w].written
         /\ \/ proc'[w].at = "exit"
            \/ /\ proc'[w].at = "top" /\ proc'[w].calls = proc[w].calls
               /\ proc'[w].current = proc[w].current
<1> DEFINE again == [[[[proc[w] EXCEPT !.at = "top"] EXCEPT !.files = FALSE] EXCEPT !.error = FALSE]
                       EXCEPT !.read = FreshBreaker]
           dead == [[proc[w] EXCEPT !.at = "exit"] EXCEPT !.rc = 1]
<1>1. /\ again.at = "top" /\ again.calls = proc[w].calls /\ again.current = proc[w].current
      /\ again.written = proc[w].written /\ dead.at = "exit" /\ dead.written = proc[w].written
  BY OneWorker DEF Process
<1>2. proc' = [proc EXCEPT ![w] = again] \/ proc' = [proc EXCEPT ![w] = dead]
  BY DEF LoopDone, Die
<1> HIDE DEF again, dead
<1>3. proc'[w] = again \/ proc'[w] = dead
  BY <1>2 DEF TypeInv
<1> QED BY <1>1, <1>3

LEMMA ModelTypes ==
  ASSUME TypeInv, NEW w \in Workers, ModelFails(w) \/ ModelAnswers(w)
  PROVE  TypeInv'
<1>0. \A logs \in 0 .. KeepLogs + 1 : OneMore(logs) \in 0 .. KeepLogs + 1
  BY Bounds DEF OneMore
<1>1. CASE ModelFails(w)
  <2>1. dir' \in Directory
    BY <1>0, <1>1 DEF ModelFails, TypeInv, Directory
  <2> QED BY <1>1, <2>1, Dying DEF ModelFails, TypeInv
<1>2. ASSUME NEW a \in Answers,
             LET divides == a.format # "json" /\ dir.silent
                 counted == [proc[w] EXCEPT !.calls = @ + 1]
             IN  /\ proc' = [proc EXCEPT ![w] =
                       IF divides THEN [counted EXCEPT !.at = "exit", !.rc = 1]
                       ELSE [counted EXCEPT !.at = "signals", !.files = a.files,
                                            !.error = a.error]]
                 /\ dir' = IF divides THEN [dir EXCEPT !.logs = OneMore(@)]
                           ELSE [dir EXCEPT !.logs = OneMore(@), !.present = TRUE,
                                   !.analysis = Analysis(a),
                                   !.silent = IF a.format = "json" THEN @ ELSE a.format = "empty"],
             At(w, "model"), told' \in [Workers -> Story],
             UNCHANGED <<reports, status>>
      PROVE  TypeInv'
  <2>1. a \in Answer /\ a.files \in BOOLEAN /\ a.error \in BOOLEAN
    BY WorkerAssumption DEF Answer
  <2>2. proc[w] \in Process /\ proc[w].calls + 1 \in 0 .. MaxCalls /\ proc[w].loop < MaxLoops
    <3>1. proc[w].at = "model"
      BY <1>2 DEF At
    <3>2. proc[w].loop < MaxLoops /\ proc[w].calls < MaxCalls
      BY <3>1, OneWorker DEF Leaving
    <3> QED BY <3>2, OneWorker, Bounds
  <2> DEFINE counted == [proc[w] EXCEPT !.calls = @ + 1]
  <2>3. counted \in Process /\ counted.loop = proc[w].loop
    BY <2>2 DEF Process
  <2>4. [[counted EXCEPT !.at = "exit"] EXCEPT !.rc = 1] \in Process
        /\ [[counted EXCEPT !.at = "exit"] EXCEPT !.rc = 1].at = "exit"
    BY <2>3 DEF Process, Place
  <2>5. [[[counted EXCEPT !.at = "signals"] EXCEPT !.files = a.files] EXCEPT !.error = a.error] \in Process
        /\ [[[counted EXCEPT !.at = "signals"] EXCEPT !.files = a.files] EXCEPT !.error = a.error].at = "signals"
        /\ [[[counted EXCEPT !.at = "signals"] EXCEPT !.files = a.files] EXCEPT !.error = a.error].loop = proc[w].loop
    BY <2>1, <2>3 DEF Process, Place
  <2>6. proc' \in [Workers -> Process] /\ \A v \in Workers : Counted(v)'
    <3>1. proc' = [proc EXCEPT ![w] =
                      [[[counted EXCEPT !.at = "signals"] EXCEPT !.files = a.files] EXCEPT !.error = a.error]]
          \/ proc' = [proc EXCEPT ![w] = [[counted EXCEPT !.at = "exit"] EXCEPT !.rc = 1]]
      BY <1>2
    <3> HIDE DEF counted
    <3> QED BY <2>2, <2>4, <2>5, <3>1, Placed DEF Leaving
  <2>7. dir' \in Directory
    <3>1. dir \in Directory
      BY DEF TypeInv
    <3>2. [dir EXCEPT !.logs = OneMore(@)] \in Directory
      BY <1>0, <3>1 DEF Directory
    <3>3. \A silent \in BOOLEAN :
            [[[[dir EXCEPT !.logs = OneMore(@)] EXCEPT !.present = TRUE] EXCEPT !.analysis = Analysis(a)]
               EXCEPT !.silent = silent] \in Directory
      BY <2>1, <3>2, AnalysisTypes DEF Directory
    <3>4. (IF a.format = "json" THEN dir.silent ELSE a.format = "empty") \in BOOLEAN
      BY <3>1 DEF Directory
    <3> QED BY <1>2, <3>2, <3>3, <3>4
  <2> QED BY <1>2, <2>6, <2>7 DEF TypeInv
<1>3. CASE ModelAnswers(w)
  <2>1. ASSUME NEW a \in Answers, NEW divides \in BOOLEAN,
               told' = [told EXCEPT
                 ![w].named = @ \/ (~ divides /\ CompletesTask(a)),
                 ![w].complete = @ \/ a.block = "complete" \/ a.marker # "none",
                 ![w].done = IF ~ divides /\ Done(a) /\ ~ CompletesTask(a)
                             THEN @ + 1 ELSE @]
        PROVE  told' \in [Workers -> Story]
    <3> DEFINE named == told[w].named \/ (~ divides /\ CompletesTask(a))
               complete == told[w].complete \/ a.block = "complete" \/ a.marker # "none"
               done == IF ~ divides /\ Done(a) /\ ~ CompletesTask(a) THEN told[w].done + 1 ELSE told[w].done
    <3>1. told[w] \in Story
      BY DEF TypeInv
    <3>2. named \in BOOLEAN /\ complete \in BOOLEAN
      OBVIOUS
    <3>3. done \in Nat
      BY <3>1 DEF Story
    <3>4. told' = [told EXCEPT ![w] =
                     [[[told[w] EXCEPT !.named = named] EXCEPT !.complete = complete] EXCEPT !.done = done]]
      BY <2>1, <3>1 DEF TypeInv, Story
    <3> HIDE DEF named, complete, done
    <3>5. [[[told[w] EXCEPT !.named = named] EXCEPT !.complete = complete] EXCEPT !.done = done] \in Story
      BY <3>1, <3>2, <3>3 DEF Story
    <3> QED BY <3>4, <3>5 DEF TypeInv
  <2>2. PICK a \in Answers : ModelAnswers(w)!2!(a)
    BY <1>3 DEF ModelAnswers
  <2>3. told' \in [Workers -> Story]
    BY <2>1, <2>2
  <2> QED BY <1>2, <1>3, <2>2, <2>3 DEF ModelAnswers
<1> QED BY <1>1, <1>2, <1>3


\* The worker is rewritten within its loop.
LEMMA Rewriting ==
  ASSUME TypeInv, NEW w \in Workers, NEW p \in Process, proc' = [proc EXCEPT ![w] = p],
         proc[w].at \notin Leaving, p.loop = proc[w].loop, p.at # "model"
  PROVE  proc' \in [Workers -> Process] /\ \A v \in Workers : Counted(v)'
BY OneWorker, Placed

LEMMA WaitTypes ==
  ASSUME TypeInv, NEW w \in Workers, WaitForReset(w) \/ WaitFails(w)
  PROVE  TypeInv'
<1>1. CASE WaitForReset(w)
  <2> DEFINE p == [[[proc[w] EXCEPT !.at = "top"] EXCEPT !.calls = 0] EXCEPT !.current = TRUE]
  <2>1. p \in Process /\ p.at = "top" /\ p.loop = proc[w].loop
    <3>1. proc[w] \in Process /\ 0 \in 0 .. MaxCalls /\ "top" \in Place
      BY OneWorker, Bounds DEF Place
    <3> QED BY <3>1 DEF Process
  <2>2. proc' = [proc EXCEPT ![w] = p] /\ proc[w].at \notin Leaving
    BY <1>1 DEF WaitForReset, At, Leaving
  <2> HIDE DEF p
  <2> QED BY <1>1, <2>1, <2>2, Rewriting DEF WaitForReset, TypeInv
<1>2. CASE WaitFails(w)
  BY <1>2, Dying DEF WaitFails, TypeInv
<1> QED BY <1>1, <1>2

LEMMA AnsweredTypes ==
  ASSUME TypeInv, NEW w \in Workers, CountSignals(w) \/ ReadAnalysis(w)
  PROVE  TypeInv'
<1>0. proc[w].at \in {"signals", "report"}
  BY DEF CountSignals, ReadAnalysis, At
<1>1. CASE CountSignals(w)
  <2>1. proc' \in [Workers -> Process] /\ \A v \in Workers : Counted(v)'
    BY <1>0, <1>1, Going, Dying DEF CountSignals, At, Leaving, Place
  <2>2. dir' \in Directory
    BY <1>1, OneWorker, SignalTypes DEF CountSignals, Directory
  <2>3. AccumulateCost(w) \in [Workers -> Shown]
    BY ShowTypes DEF Word
  <2> QED BY <1>1, <2>1, <2>2, <2>3 DEF CountSignals, TypeInv
<1>2. CASE ReadAnalysis(w)
  <2> DEFINE p == [[proc[w] EXCEPT !.at = "success"] EXCEPT !.written = TRUE]
  <2>1. p \in Process /\ p.at = "success" /\ p.loop = proc[w].loop
    BY OneWorker DEF Process, Place
  <2>2. \/ Die(w, 1) \/ Goto(w, "breaker")
        \/ proc' = [proc EXCEPT ![w] = p]
    BY <1>2 DEF ReadAnalysis
  <2> HIDE DEF p
  <2>3. proc' \in [Workers -> Process] /\ \A v \in Workers : Counted(v)'
    BY <1>0, <2>1, <2>2, Going, Dying, Rewriting DEF At, Leaving, Place
  <2> QED BY <1>2, <2>3 DEF ReadAnalysis, TypeInv
<1> QED BY <1>1, <1>2

LEMMA BreakerStepTypes ==
  ASSUME TypeInv, NEW w \in Workers, ReadBreaker(w) \/ TruncateBreaker(w) \/ StoreBreaker(w)
  PROVE  TypeInv'
<1>0. proc[w].at \in {"breaker", "truncate", "store"} /\ proc[w].at \notin Leaving
  BY DEF ReadBreaker, TruncateBreaker, StoreBreaker, At, Leaving
<1>1. CASE ReadBreaker(w)
  <2> DEFINE p == [[proc[w] EXCEPT !.at = "truncate"] EXCEPT !.read = dir.breaker]
  <2>1. dir.breaker \in Breaker
    BY OneWorker DEF Directory
  <2>2. p \in Process /\ p.at = "truncate" /\ p.loop = proc[w].loop
    BY <2>1, OneWorker DEF Process, Place
  <2>3. proc' = [proc EXCEPT ![w] = p]
    BY <1>1 DEF ReadBreaker
  <2> HIDE DEF p
  <2> QED BY <1>0, <1>1, <2>2, <2>3, Rewriting DEF ReadBreaker, TypeInv
<1>2. CASE TruncateBreaker(w)
  <2>1. proc' \in [Workers -> Process] /\ \A v \in Workers : Counted(v)'
    BY <1>0, <1>2, Going DEF TruncateBreaker, At, Place
  <2>2. dir' \in Directory
    BY <1>2, OneWorker, BreakerTypes DEF TruncateBreaker, Directory
  <2> QED BY <1>2, <2>1, <2>2 DEF TruncateBreaker, TypeInv
<1>3. CASE StoreBreaker(w)
  <2> DEFINE cb == Recorded(proc[w].read, proc[w].files, proc[w].error)
  <2>1. cb \in Breaker
    BY OneWorker, BreakerTypes DEF Process
  <2>2. dir' = [dir EXCEPT !.breaker = cb]
    BY <1>3 DEF StoreBreaker
  <2>3. dir' \in Directory
    BY <2>1, <2>2, OneWorker DEF Directory
  <2>4. (Die(w, 1) /\ UNCHANGED status) \/ LoopDone(w)
    BY <1>3 DEF StoreBreaker
  <2>5. CASE LoopDone(w)
    <3> DEFINE p == [[[[proc[w] EXCEPT !.at = "top"] EXCEPT !.files = FALSE] EXCEPT !.error = FALSE]
                       EXCEPT !.read = FreshBreaker]
    <3>1. p \in Process /\ p.at = "top" /\ p.loop = proc[w].loop
      BY OneWorker, BreakerTypes DEF Process, Place
    <3>2. Die(w, 1) \/ proc' = [proc EXCEPT ![w] = p]
      BY <2>5 DEF LoopDone, Die
    <3> HIDE DEF p
    <3>3. proc' \in [Workers -> Process] /\ \A v \in Workers : Counted(v)'
      BY <1>0, <3>1, <3>2, Dying, Rewriting
    <3>4. status' \in [Workers -> Shown]
      BY <2>5, ShowTypes DEF LoopDone, Word
    <3> QED BY <1>3, <2>3, <3>3, <3>4 DEF StoreBreaker, TypeInv
  <2>6. CASE Die(w, 1) /\ UNCHANGED status
    BY <1>3, <2>3, <2>6, Dying DEF StoreBreaker, TypeInv
  <2> QED BY <2>4, <2>5, <2>6
<1> QED BY <1>1, <1>2, <1>3

LEMMA ReportTypes ==
  ASSUME TypeInv, NEW w \in Workers,
         ReportSuccess(w) \/ ReportTimeout(w) \/ MarkTimeout(w) \/ Finish(w)
  PROVE  TypeInv'
<1>0. proc[w].at \in {"success", "timeout", "mark", "finish"} /\ proc[w].at \notin Leaving
  BY DEF ReportSuccess, ReportTimeout, MarkTimeout, Finish, At, Leaving
<1>1. CASE ReportSuccess(w) \/ ReportTimeout(w)
  <2>1. proc' \in [Workers -> Process] /\ \A v \in Workers : Counted(v)'
    BY <1>0, <1>1, Going DEF ReportSuccess, ReportTimeout, At, Place
  <2>2. reports' \in [Workers -> Seq(Kind)] /\ told' \in [Workers -> Story]
    BY <1>1, WriteTypes DEF ReportSuccess, ReportTimeout, Kind
  <2> QED BY <1>1, <2>1, <2>2 DEF ReportSuccess, ReportTimeout, TypeInv
<1>2. CASE MarkTimeout(w)
  <2> DEFINE p == [[[proc[w] EXCEPT !.at = "exit"] EXCEPT !.rc = 0] EXCEPT !.written = TRUE]
  <2>1. p \in Process /\ p.at = "exit" /\ p.loop = proc[w].loop
    BY OneWorker DEF Process, Place
  <2>2. proc' = [proc EXCEPT ![w] = p]
    BY <1>2 DEF MarkTimeout
  <2> HIDE DEF p
  <2> QED BY <1>0, <1>2, <2>1, <2>2, Rewriting DEF MarkTimeout, TypeInv
<1>3. CASE Finish(w)
  <2>1. status' \in [Workers -> Shown]
    BY <1>3, ShowTypes DEF Finish, Word
  <2> QED BY <1>3, <2>1, Dying DEF Finish, TypeInv
<1> QED BY <1>1, <1>2, <1>3

LEMMA ExitTypes ==
  ASSUME TypeInv, NEW w \in Workers, OnExit(w) \/ MarkExit(w)
  PROVE  TypeInv'
<1>1. CASE OnExit(w)
  <2>1. status' \in [Workers -> Shown]
    BY <1>1, ShowTypes DEF OnExit, Word, TypeInv
  <2>2. CASE proc[w].written
    BY <1>1, <2>1, <2>2, Ending DEF OnExit, TypeInv
  <2>3. CASE ~ proc[w].written
    <3>1. reports' \in [Workers -> Seq(Kind)] /\ told' \in [Workers -> Story]
      BY <1>1, <2>3, WriteTypes DEF OnExit, Kind
    <3>2. [proc[w] EXCEPT !.at = "exit_mark"] \in Process
          /\ [proc[w] EXCEPT !.at = "exit_mark"].at = "exit_mark"
      BY OneWorker DEF Process, Place
    <3>3. proc' = [proc EXCEPT ![w] = [proc[w] EXCEPT !.at = "exit_mark"]]
      BY <1>1, <2>3 DEF OnExit, Goto
    <3>4. proc' \in [Workers -> Process] /\ \A v \in Workers : Counted(v)'
      BY <3>2, <3>3, Placed DEF Leaving
    <3> QED BY <1>1, <2>1, <3>1, <3>4 DEF OnExit, TypeInv
  <2> QED BY <2>2, <2>3
<1>2. CASE MarkExit(w)
  BY <1>2, Ending DEF MarkExit, TypeInv
<1> QED BY <1>1, <1>2

LEMMA OutsideTypes ==
  ASSUME TypeInv, NEW w \in Workers, Terminated(w) \/ Killed(w) \/ Collect(w)
  PROVE  TypeInv'
<1>1. CASE Terminated(w)
  <2>1. status' \in [Workers -> Shown]
    BY <1>1, ShowTypes DEF Terminated, Word
  <2>2. reports' \in [Workers -> Seq(Kind)] /\ told' \in [Workers -> Story]
    <3>1. CASE proc[w].written
      <4>1. [told[w] EXCEPT !.cut = told[w].cut \/ At(w, "success")] \in Story
        BY OneWorker, StoryTypes
      <4> QED BY <1>1, <3>1, <4>1 DEF Terminated, TypeInv
    <3>2. CASE ~ proc[w].written
      BY <1>1, <3>2, WriteTypes DEF Terminated, Kind
    <3> QED BY <3>1, <3>2
  <2>3. proc' \in [Workers -> Process] /\ \A v \in Workers : Counted(v)'
    <3> DEFINE p == [[[proc[w] EXCEPT !.at = "exit"] EXCEPT !.rc = 0] EXCEPT !.written = TRUE]
    <3>1. p \in Process /\ p.at = "exit"
      BY OneWorker DEF Process, Place
    <3>2. proc' = [proc EXCEPT ![w] = p] \/ proc' = [proc EXCEPT ![w] = [Ended(w) EXCEPT !.rc = 0]]
      BY <1>1 DEF Terminated, TypeInv
    <3> HIDE DEF p
    <3> QED BY <3>1, <3>2, Placed, Ending DEF Leaving
  <2> QED BY <1>1, <2>1, <2>2, <2>3 DEF Terminated, TypeInv
<1>2. CASE Killed(w)
  BY <1>2, Ending DEF Killed, TypeInv
<1>3. CASE Collect(w)
  <2>1. proc' \in [Workers -> Process] /\ \A v \in Workers : Counted(v)'
    BY <1>3, AbsentType, Bounds, Placed DEF Collect
  <2>2. NoStatus \in Shown
    BY DEF NoStatus, Shown, Word
  <2>3. << >> \in Seq(Kind)
    OBVIOUS
  <2>4. status' \in [Workers -> Shown] /\ told' \in [Workers -> Story]
    BY <1>3, <2>2, StoryTypes DEF Collect, TypeInv
  <2>5. reports' \in [Workers -> Seq(Kind)]
    BY <1>3, <2>3 DEF Collect, TypeInv
  <2> QED BY <1>3, <2>1, <2>4, <2>5 DEF Collect, TypeInv
<1> QED BY <1>1, <1>2, <1>3

LEMMA TickTypes == ASSUME TypeInv, Tick PROVE TypeInv'
<1>1. \A w \in Workers : /\ [proc[w] EXCEPT !.current = FALSE] \in Process
                         /\ [proc[w] EXCEPT !.current = FALSE].at = proc[w].at
                         /\ [proc[w] EXCEPT !.current = FALSE].loop = proc[w].loop
                         /\ [proc[w] EXCEPT !.current = FALSE].calls = proc[w].calls
  BY OneWorker DEF Process
<1>2. proc' \in [Workers -> Process]
  BY <1>1 DEF Tick
<1>3. \A w \in Workers : Counted(w)'
  BY <1>1, OneWorker DEF Tick, Counted, At
<1>4. told' \in [Workers -> Story]
  BY StoryTypes, OneWorker DEF Tick
<1> QED BY <1>2, <1>3, <1>4 DEF Tick, TypeInv

LEMMA NextTypes == TypeInv /\ [Next]_vars => TypeInv'
<1> SUFFICES ASSUME TypeInv, [Next]_vars PROVE TypeInv'
  OBVIOUS
<1>1. CASE UNCHANGED vars
  BY <1>1 DEF vars, TypeInv, Counted, At
<1>2. CASE Tick
  BY <1>2, TickTypes
<1>3. ASSUME NEW w \in Workers, Run(w) PROVE TypeInv'
  BY <1>3, LoopTopTypes, WaitTypes, ModelTypes, AnsweredTypes, BreakerStepTypes, ReportTypes, ExitTypes
     DEF Run
<1>4. ASSUME NEW w \in Workers, Start(w) \/ Terminated(w) \/ Killed(w) \/ Collect(w) PROVE TypeInv'
  BY <1>4, StartTypes, OutsideTypes
<1> QED BY <1>1, <1>2, <1>3, <1>4 DEF Next

LEMMA AlwaysTyped == Spec => []TypeInv
BY InitTypes, NextTypes, PTL DEF Spec

\* Every file and every bash variable of the workers stays within its type: the
\* loops and the calls within their limits, the outcomes among the five kinds.
THEOREM TypeCorrect == Spec => []TypeOK
BY AlwaysTyped, TypeInvTypes, PTL


-----------------------------------------------------------------------------
(***************************************************************************)
(* Outcome files: what a worker has noted of its reports, and has written. *)
(***************************************************************************)
Reported(w) == reports[w] # << >> \/ told[w].lost \/ told[w].cut

\* A worker that takes its outcome for written has written one, but for the two
\* excuses and the moment between the note and the report of a success.
NotesTrue(w) ==
  /\ proc[w].written => Reported(w) \/ At(w, "success")
  /\ proc[w].at \in {"finish", "mark", "exit_mark", "gone"} => Reported(w)

LEMMA WriteReports ==
  ASSUME TypeInv, NEW w \in Workers, NEW kind \in Kind, Write(w, kind)
  PROVE  Reported(w)'
<1>1. CASE reports' = [reports EXCEPT ![w] = Append(@, kind)]
  <2>1. reports'[w] = Append(reports[w], kind) /\ reports[w] \in Seq(Kind)
    BY <1>1 DEF TypeInv
  <2>2. reports'[w] # << >>
    BY <2>1
  <2> QED BY <2>2 DEF Reported
<1>2. CASE told' = [told EXCEPT ![w].lost = TRUE]
  <2>1. told'[w].lost = TRUE
    BY <1>2, OneWorker DEF TypeInv, Story
  <2> QED BY <2>1 DEF Reported
<1>3. PICK ok \in BOOLEAN : /\ reports' = IF ok THEN [reports EXCEPT ![w] = Append(@, kind)] ELSE reports
                            /\ told' = [told EXCEPT ![w].lost = @ \/ ~ ok]
  BY DEF Write, WriterOK
<1> QED BY <1>1, <1>2, <1>3

\* Nothing but Collect takes a report or an excuse back.
LEMMA ReportsStay ==
  ASSUME TypeInv, NEW w \in Workers, NEW v \in Workers,
         \/ reports' = reports /\ told' = told
         \/ \E kind \in Kind : Write(w, kind)
  PROVE  Reported(v) => Reported(v)'
<1>1. CASE reports' = reports /\ told' = told
  BY <1>1 DEF Reported
<1>2. ASSUME NEW kind \in Kind, Write(w, kind) PROVE Reported(v) => Reported(v)'
  <2>1. CASE v = w
    BY <1>2, <2>1, WriteReports
  <2>2. CASE v # w
    <3>1. reports'[v] = reports[v] /\ told'[v] = told[v]
      BY <1>2, <2>2 DEF Write, TypeInv
    <3> QED BY <3>1 DEF Reported
  <2> QED BY <2>1, <2>2
<1> QED BY <1>1, <1>2

\* A step of one worker leaves what the others have.
Apart(w) == \A v \in Workers \ {w} : /\ proc'[v] = proc[v] /\ reports'[v] = reports[v]
                                     /\ told'[v] = told[v]

LEMMA StepApart ==
  ASSUME TypeInv, NEW w \in Workers,
         Start(w) \/ Run(w) \/ Terminated(w) \/ Killed(w) \/ Collect(w)
  PROVE  Apart(w)
<1> USE DEF TypeInv, Apart
<1>1. CASE Start(w) \/ WaitForReset(w) \/ WaitFails(w) \/ ModelFails(w) \/ CountSignals(w)
           \/ ReadAnalysis(w) \/ Finish(w)
  BY <1>1 DEF Start, WaitForReset, WaitFails, ModelFails, CountSignals, ReadAnalysis, Finish, Goto, Die
<1>2. CASE ReadBreaker(w) \/ TruncateBreaker(w) \/ StoreBreaker(w) \/ MarkTimeout(w) \/ MarkExit(w)
           \/ Killed(w) \/ Collect(w)
  BY <1>2 DEF ReadBreaker, TruncateBreaker, StoreBreaker, LoopDone, MarkTimeout, MarkExit, Killed,
              Collect, Goto, Die
<1>3. CASE ReportSuccess(w) \/ ReportTimeout(w)
  BY <1>3 DEF ReportSuccess, ReportTimeout, Write, Goto
<1>4. CASE OnExit(w)
  BY <1>4 DEF OnExit, Write, Goto
<1>5. CASE Terminated(w)
  BY <1>5 DEF Terminated, Write
<1>6. CASE LoopTop(w)
  BY <1>6 DEF LoopTop
<1>7. CASE ModelAnswers(w)
  BY <1>7 DEF ModelAnswers
<1> QED BY <1>1, <1>2, <1>3, <1>4, <1>5, <1>6, <1>7 DEF Run


\* What is noted, and what was reported, outlives the hour.
LEMMA TickNotes == ASSUME TypeInv, Tick, NEW w \in Workers PROVE NotesTrue(w) => NotesTrue(w)'
<1>1. /\ proc'[w].at = proc[w].at /\ proc'[w].written = proc[w].written
      /\ told'[w].lost = told[w].lost /\ told'[w].cut = told[w].cut /\ reports'[w] = reports[w]
  BY OneWorker DEF Tick, Process, Story
<1> QED BY <1>1 DEF NotesTrue, Reported, At

LEMMA NotesStep ==
  ASSUME TypeInv, NEW w \in Workers, NotesTrue(w),
         Start(w) \/ Run(w) \/ Terminated(w) \/ Killed(w) \/ Collect(w)
  PROVE  NotesTrue(w)'
<1> DEFINE p == proc[w]
           q == proc'[w]
<1>0. p \in Process /\ told[w] \in Story
  BY OneWorker
<1>1. CASE /\ reports' = reports /\ told'[w].lost = told[w].lost /\ told'[w].cut = told[w].cut
           /\ q.written = p.written /\ ~ At(w, "success")
           /\ q.at \in {"finish", "mark", "exit_mark", "gone"} => Reported(w)
  BY <1>1 DEF NotesTrue, Reported, At
<1>2. CASE Start(w) \/ WaitForReset(w) \/ WaitFails(w) \/ ModelFails(w) \/ CountSignals(w)
           \/ ReadBreaker(w) \/ TruncateBreaker(w) \/ Finish(w)
  <2>1. /\ reports' = reports /\ told' = told /\ q.written = p.written /\ ~ At(w, "success")
        /\ q.at \notin {"finish", "mark", "exit_mark", "gone"}
    BY <1>0, <1>2 DEF TypeInv, Process, Start, WaitForReset, WaitFails, ModelFails, CountSignals,
       ReadBreaker, TruncateBreaker, Finish, Goto, Die, At
  <2> QED BY <1>1, <2>1
<1>3. CASE LoopTop(w)
  <2>1. /\ reports' = reports /\ q.written = p.written /\ ~ At(w, "success")
        /\ q.at \notin {"finish", "mark", "exit_mark", "gone"}
    BY <1>3, LoopTopEffect DEF At
  <2>2. told'[w].lost = told[w].lost /\ told'[w].cut = told[w].cut
    <3>1. told' = told \/ told' = [told EXCEPT ![w].hourly = @ + 1]
      BY <1>3, LoopTopEffect
    <3> QED BY <1>0, <3>1 DEF TypeInv, Story
  <2> QED BY <1>1, <2>1, <2>2
<1>4. CASE ModelAnswers(w)
  <2>1. /\ reports' = reports /\ q.written = p.written /\ ~ At(w, "success")
        /\ q.at \notin {"finish", "mark", "exit_mark", "gone"}
    BY <1>0, <1>4 DEF TypeInv, Process, ModelAnswers, At
  <2>2. told'[w].lost = told[w].lost /\ told'[w].cut = told[w].cut
    BY <1>0, <1>4 DEF TypeInv, Story, ModelAnswers
  <2> QED BY <1>1, <2>1, <2>2
<1>5. CASE ReadAnalysis(w)
  <2>1. /\ reports' = reports /\ told' = told /\ ~ At(w, "success")
        /\ q.at \notin {"finish", "mark", "exit_mark", "gone"}
        /\ q.written # p.written => q.at = "success"
    BY <1>0, <1>5 DEF TypeInv, Process, ReadAnalysis, Goto, Die, At
  <2> QED BY <2>1 DEF NotesTrue, Reported, At
<1>6. CASE StoreBreaker(w)
  <2>1. /\ reports' = reports /\ told' = told /\ q.written = p.written /\ ~ At(w, "success")
        /\ q.at \notin {"finish", "mark", "exit_mark", "gone"}
    <3>1. reports' = reports /\ told' = told /\ ~ At(w, "success") /\ (Die(w, 1) \/ LoopDone(w))
      BY <1>6 DEF StoreBreaker, At
    <3>2. q.at \in {"exit", "top"} /\ q.written = p.written
      BY <1>0, <3>1 DEF TypeInv, Process, LoopDone, Die
    <3> QED BY <3>1, <3>2
  <2> QED BY <1>1, <2>1
<1>7. CASE ReportSuccess(w) \/ ReportTimeout(w)
  BY <1>7, WriteReports DEF ReportSuccess, ReportTimeout, Kind, NotesTrue
<1>8. CASE MarkTimeout(w) \/ MarkExit(w)
  <2>1. Reported(w) /\ reports' = reports /\ told' = told
    BY <1>8 DEF MarkTimeout, MarkExit, NotesTrue, At
  <2> QED BY <2>1 DEF NotesTrue, Reported
<1>9. CASE OnExit(w)
  <2>1. CASE p.written
    <3>1. Reported(w) /\ reports' = reports /\ told' = told
      BY <1>9, <2>1 DEF OnExit, NotesTrue, At
    <3> QED BY <3>1 DEF NotesTrue, Reported
  <2>2. CASE ~ p.written
    BY <1>9, <2>2, WriteReports DEF OnExit, Kind, NotesTrue
  <2> QED BY <2>1, <2>2
<1>10. CASE Terminated(w)
  <2>1. Reported(w)'
    <3>1. CASE p.written
      <4>1. reports' = reports /\ told' = [told EXCEPT ![w].cut = told[w].cut \/ At(w, "success")]
        BY <1>10, <3>1 DEF Terminated
      <4>2. told'[w].lost = told[w].lost /\ (told'[w].cut <=> told[w].cut \/ At(w, "success"))
        BY <1>0, <4>1 DEF TypeInv, Story
      <4> QED BY <3>1, <4>1, <4>2 DEF NotesTrue, Reported
    <3>2. CASE ~ p.written
      BY <1>10, <3>2, WriteReports DEF Terminated, Kind
    <3> QED BY <3>1, <3>2
  <2> QED BY <2>1 DEF NotesTrue
<1>11. CASE Killed(w) \/ Collect(w)
  <2>1. q.written = FALSE /\ q.at \in {"killed", "absent"}
    BY <1>11 DEF TypeInv, Killed, Collect, Absent
  <2> QED BY <2>1 DEF NotesTrue
<1> QED BY <1>2, <1>3, <1>4, <1>5, <1>6, <1>7, <1>8, <1>9, <1>10, <1>11 DEF Run

LEMMA NotesAlways == Spec => [](TypeInv /\ \A w \in Workers : NotesTrue(w))
<1>1. Init => TypeInv /\ \A w \in Workers : NotesTrue(w)
  <2>1. Absent.written = FALSE /\ Absent.at = "absent"
    BY DEF Absent
  <2> QED BY <2>1, InitTypes DEF Init, NotesTrue
<1>2. ASSUME TypeInv, \A w \in Workers : NotesTrue(w), [Next]_vars
      PROVE  (TypeInv /\ \A w \in Workers : NotesTrue(w))'
  <2>1. TypeInv'
    BY <1>2, NextTypes
  <2>2. CASE UNCHANGED vars
    BY <1>2, <2>1, <2>2 DEF vars, NotesTrue, Reported, At
  <2>3. CASE Tick
    BY <1>2, <2>1, <2>3, TickNotes
  <2>4. ASSUME NEW w \in Workers,
               Start(w) \/ Run(w) \/ Terminated(w) \/ Killed(w) \/ Collect(w),
               NEW v \in Workers
        PROVE  NotesTrue(v)'
    <3>1. CASE v = w
      BY <1>2, <2>4, <3>1, NotesStep
    <3>2. CASE v # w
      <4>1. proc'[v] = proc[v] /\ reports'[v] = reports[v] /\ told'[v] = told[v]
        BY <1>2, <2>4, <3>2, StepApart DEF Apart
      <4> QED BY <1>2, <4>1 DEF NotesTrue, Reported, At
    <3> QED BY <3>1, <3>2
  <2> QED BY <1>2, <2>1, <2>2, <2>3, <2>4 DEF Next
<1> QED BY <1>1, <1>2, PTL DEF Spec

\* No way out of the script, clean, failed or interrupted, leaves the daemon
\* without an outcome file, but for a failed writer and a signal between
\* OUTCOME_WRITTEN and the report of a success.
THEOREM ExitsReport == Spec => []EveryExitReports
<1>1. (TypeInv /\ \A w \in Workers : NotesTrue(w)) => EveryExitReports
  BY DEF NotesTrue, Reported, EveryExitReports, At
<1> QED BY NotesAlways, <1>1, PTL


-----------------------------------------------------------------------------
(***************************************************************************)
(* Calls: what .call_count and .last_reset know of the hour's runs.        *)
(***************************************************************************)
\* The run at hand is counted when the model has answered.
Runs(w) == IF At(w, "model") THEN proc[w].calls + 1 ELSE proc[w].calls

HourCounted(w) ==
  /\ told[w].hourly <= MaxCalls
  /\ proc[w].at \notin Leaving =>
       /\ told[w].hourly <= Runs(w)
       /\ ~ proc[w].current => told[w].hourly = 0

LEMMA TickHour == ASSUME TypeInv, Tick, NEW w \in Workers PROVE HourCounted(w)'
<1>1. told'[w].hourly = 0
  BY OneWorker DEF Tick, Story
<1>2. proc'[w].calls = proc[w].calls
  BY OneWorker DEF Tick, Process
<1> QED BY <1>1, <1>2, OneWorker, Bounds DEF HourCounted, Runs

\* A report says nothing of the hour.
LEMMA WriteHour ==
  ASSUME TypeInv, NEW w \in Workers, NEW kind, Write(w, kind)
  PROVE  told'[w].hourly = told[w].hourly /\ told'[w].done = told[w].done
         /\ told'[w].named = told[w].named
<1>1. PICK ok \in BOOLEAN : told' = [told EXCEPT ![w].lost = @ \/ ~ ok]
  BY DEF Write, WriterOK
<1> QED BY <1>1, OneWorker DEF TypeInv, Story

LEMMA HourStep ==
  ASSUME TypeInv, NEW w \in Workers, HourCounted(w),
         Start(w) \/ Run(w) \/ Terminated(w) \/ Killed(w) \/ Collect(w)
  PROVE  HourCounted(w)'
<1> DEFINE p == proc[w]
           q == proc'[w]
<1>0. p \in Process /\ told[w] \in Story /\ told[w].hourly \in Nat /\ p.calls \in Nat
  BY OneWorker DEF Story
<1>1. CASE told'[w].hourly = told[w].hourly /\ q.at \in Leaving
  BY <1>1 DEF HourCounted
<1>2. CASE /\ told'[w].hourly = told[w].hourly /\ q.calls = p.calls /\ q.current = p.current
           /\ q.at # "model" /\ p.at # "model" /\ p.at \notin Leaving
  BY <1>2 DEF HourCounted, Runs, At
<1>3. CASE Start(w) \/ CountSignals(w) \/ ReadAnalysis(w) \/ ReadBreaker(w) \/ TruncateBreaker(w)
  <2>1. /\ told' = told /\ q.calls = p.calls /\ q.current = p.current
        /\ q.at # "model" /\ p.at # "model" /\ p.at \notin Leaving
    BY <1>0, <1>3 DEF TypeInv, Process, Start, CountSignals, ReadAnalysis, ReadBreaker, TruncateBreaker,
       Goto, Die, At, Leaving
  <2> QED BY <1>2, <2>1
<1>4. CASE ReportSuccess(w) \/ ReportTimeout(w)
  <2>1. told'[w].hourly = told[w].hourly
    BY <1>4, WriteHour DEF ReportSuccess, ReportTimeout
  <2>2. /\ q.calls = p.calls /\ q.current = p.current
        /\ q.at # "model" /\ p.at # "model" /\ p.at \notin Leaving
    BY <1>0, <1>4 DEF TypeInv, Process, ReportSuccess, ReportTimeout, Goto, At, Leaving
  <2> QED BY <1>2, <2>1, <2>2
<1>5. CASE StoreBreaker(w)
  <2>1. told' = told /\ (Die(w, 1) \/ LoopDone(w)) /\ p.at = "store"
    BY <1>5 DEF StoreBreaker, At
  <2>2. q.at = "exit" \/ (q.at = "top" /\ q.calls = p.calls /\ q.current = p.current)
    BY <2>1, StoreEffect
  <2> QED BY <1>1, <1>2, <2>1, <2>2 DEF Leaving
<1>6. CASE WaitForReset(w)
  <2>1. told' = told /\ told[w].hourly = 0
    BY <1>6 DEF WaitForReset, HourCounted, At, Leaving
  <2>2. q.at = "top" /\ q.calls = 0
    BY <1>0, <1>6 DEF TypeInv, Process, WaitForReset
  <2> QED BY <2>1, <2>2, Bounds DEF HourCounted, Runs, At
<1>7. CASE WaitFails(w) \/ ModelFails(w) \/ Finish(w) \/ MarkTimeout(w) \/ MarkExit(w)
  <2>1. told' = told
    BY <1>7 DEF WaitFails, ModelFails, Finish, MarkTimeout, MarkExit
  <2>2. CASE WaitFails(w) \/ ModelFails(w) \/ Finish(w)
    BY <1>1, <2>1, <2>2 DEF TypeInv, WaitFails, ModelFails, Finish, Die, Leaving, Process
  <2>3. CASE MarkTimeout(w) \/ MarkExit(w)
    BY <1>1, <2>1, <2>3 DEF TypeInv, MarkTimeout, MarkExit, Ended, Absent, Leaving, Process
  <2> QED BY <1>7, <2>2, <2>3
<1>8. CASE LoopTop(w)
  <2>1. CASE q.at = "exit"
    BY <1>1, <1>8, <2>1, LoopTopEffect DEF Leaving
  <2>2. CASE q.at # "exit"
    <3>1. p.at = "top" /\ q.current = TRUE /\ q.calls = IF p.current THEN p.calls ELSE 0
      BY <1>8, <2>2, LoopTopEffect
    <3>2. told[w].hourly <= q.calls
      BY <1>0, <3>1 DEF HourCounted, Runs, At, Leaving
    <3>3. CASE q.at # "model"
      <4>1. told' = told
        BY <1>8, <3>3, LoopTopEffect
      <4> QED BY <3>1, <3>2, <3>3, <4>1 DEF HourCounted, Runs, At
    <3>4. CASE q.at = "model"
      <4>1. told' = [told EXCEPT ![w].hourly = @ + 1] /\ q.calls < MaxCalls
        BY <1>8, <3>4, LoopTopEffect
      <4>2. told'[w].hourly = told[w].hourly + 1
        BY <1>0, <4>1 DEF TypeInv, Story
      <4>3. q.calls \in Nat
        BY <1>0, <3>1
      <4> QED BY <1>0, <3>1, <3>2, <3>4, <4>1, <4>2, <4>3, Bounds DEF HourCounted, Runs, At
    <3> QED BY <3>3, <3>4
  <2> QED BY <2>1, <2>2
<1>9. CASE ModelAnswers(w)
  <2>1. told'[w].hourly = told[w].hourly
    BY <1>0, <1>9 DEF TypeInv, Story, ModelAnswers
  <2>2. p.at = "model" /\ (q.at = "exit" \/ (q.at = "signals" /\ q.calls = p.calls + 1 /\ q.current = p.current))
    BY <1>0, <1>9 DEF TypeInv, Process, ModelAnswers, At
  <2> QED BY <1>0, <2>1, <2>2 DEF HourCounted, Runs, At, Leaving
<1>10. CASE OnExit(w)
  <2>1. told' = told \/ \E kind : Write(w, kind)
    BY <1>10 DEF OnExit
  <2>2. told'[w].hourly = told[w].hourly
    BY <2>1, WriteHour
  <2>3. q.at \in Leaving
    <3>1. CASE Goto(w, "exit_mark")
      BY <1>0, <3>1 DEF TypeInv, Process, Goto, Leaving
    <3>2. CASE proc' = [proc EXCEPT ![w] = Ended(w)]
      BY <3>2 DEF TypeInv, Ended, Absent, Leaving
    <3> QED BY <1>10, <3>1, <3>2 DEF OnExit
  <2> QED BY <1>1, <2>2, <2>3
<1>11. CASE Terminated(w)
  <2>1. told'[w].hourly = told[w].hourly
    <3>1. CASE told' = [told EXCEPT ![w].cut = told[w].cut \/ At(w, "success")]
      BY <1>0, <3>1 DEF TypeInv, Story
    <3>2. CASE Write(w, "aborted")
      BY <3>2, WriteHour
    <3> QED BY <1>11, <3>1, <3>2 DEF Terminated
  <2>2. q.at \in Leaving
    BY <1>0, <1>11 DEF TypeInv, Process, Terminated, Ended, Absent, Leaving
  <2> QED BY <1>1, <2>1, <2>2
<1>12. CASE Killed(w)
  BY <1>1, <1>12 DEF TypeInv, Killed, Absent, Leaving
<1>13. CASE Collect(w)
  BY <1>13, Bounds DEF TypeInv, Collect, Absent, Untold, HourCounted, Runs, At
<1> QED BY <1>3, <1>4, <1>5, <1>6, <1>7, <1>8, <1>9, <1>10, <1>11, <1>12, <1>13 DEF Run

LEMMA HourAlways == Spec => [](TypeInv /\ \A w \in Workers : HourCounted(w))
<1>1. Init => TypeInv /\ \A w \in Workers : HourCounted(w)
  <2>1. Absent.calls = 0 /\ Absent.at = "absent" /\ Untold.hourly = 0
    BY DEF Absent, Untold
  <2>2. Init => \A w \in Workers : proc[w].calls = 0 /\ proc[w].at = "absent" /\ told[w].hourly = 0
    BY <2>1 DEF Init
  <2> QED BY <2>2, InitTypes, Bounds DEF HourCounted, Runs, At
<1>2. ASSUME TypeInv, \A w \in Workers : HourCounted(w), [Next]_vars
      PROVE  (TypeInv /\ \A w \in Workers : HourCounted(w))'
  <2>1. TypeInv'
    BY <1>2, NextTypes
  <2>2. CASE UNCHANGED vars
    BY <1>2, <2>1, <2>2 DEF vars, HourCounted, Runs, At
  <2>3. CASE Tick
    BY <1>2, <2>1, <2>3, TickHour
  <2>4. ASSUME NEW w \in Workers,
               Start(w) \/ Run(w) \/ Terminated(w) \/ Killed(w) \/ Collect(w),
               NEW v \in Workers
        PROVE  HourCounted(v)'
    <3>1. CASE v = w
      BY <1>2, <2>4, <3>1, HourStep
    <3>2. CASE v # w
      <4>1. proc'[v] = proc[v] /\ told'[v] = told[v]
        BY <1>2, <2>4, <3>2, StepApart DEF Apart
      <4> QED BY <1>2, <4>1 DEF HourCounted, Runs, At
    <3> QED BY <3>1, <3>2
  <2> QED BY <1>2, <2>1, <2>2, <2>3, <2>4 DEF Next
<1> QED BY <1>1, <1>2, PTL DEF Spec

\* No order of loops, waits, failures and ends of the hour starts more than
\* MAX_CALLS_PER_HOUR runs of the model in one hour, whatever the limit is.
THEOREM CallsLimited == Spec => []CallsPerHour
<1>1. (TypeInv /\ \A w \in Workers : HourCounted(w)) => CallsPerHour
  BY DEF HourCounted, CallsPerHour
<1> QED BY HourAlways, <1>1, PTL


-----------------------------------------------------------------------------
(***************************************************************************)
(* A worker alone in its directory (Sharing = FALSE): the files it finds   *)
(* there while it runs are its own.                                        *)
(***************************************************************************)
Alone == \A v, w \in Alive : v = w

\* BreakerAgrees of any contents of the file.
Agrees(cb) ==
  /\ cb.state = "OPEN" =>
       cb.idle >= CB_NO_PROGRESS_THRESHOLD \/ cb.errors >= CB_SAME_ERROR_THRESHOLD
  /\ cb.state = "HALF_OPEN" => cb.idle = 2 /\ cb.errors < CB_SAME_ERROR_THRESHOLD
  /\ cb.state = "CLOSED" => cb.idle < 2 /\ cb.errors <= CB_SAME_ERROR_THRESHOLD

\* An open breaker that recorded a loop would lose its reason; no loop is run then.
BreakerOf(w) ==
  /\ proc[w].at \in {"model", "signals", "report", "breaker"} => ~ Halts(dir.breaker)
  /\ proc[w].at \in {"truncate", "store"} => Agrees(proc[w].read) /\ ~ Halts(proc[w].read)

\* What the model has said is in the window, or in the analysis at hand.
DoneOf(w) ==
  /\ told[w].done <= MAX_CONSECUTIVE_DONE_SIGNALS
  /\ At(w, "absent") => told[w].done = 0
  /\ proc[w].at \in {"top", "waiting", "model", "report", "success", "breaker", "truncate", "store"} =>
       told[w].done <= dir.signals.done
  /\ proc[w].at \in {"model", "signals"} => dir.signals.done < MAX_CONSECUTIVE_DONE_SIGNALS
  /\ At(w, "signals") =>
       told[w].done <= IF dir.analysis.done THEN dir.signals.done + 1 ELSE dir.signals.done

\* A task read in the analysis is one that the worker's own model named.
OwnOf(w) ==
  /\ proc[w].at \in {"signals", "report"} => dir.present /\ (dir.analysis.task => told[w].named)
  /\ At(w, "success") => told[w].named
  /\ \A i \in DOMAIN reports[w] : reports[w][i] = "success" => told[w].named

DirInv == Agrees(dir.breaker) /\ \A w \in Workers : BreakerOf(w) /\ DoneOf(w) /\ OwnOf(w)
SoloInv == Alone /\ DirInv

LEMMA AgreesRecorded ==
  ASSUME NEW cb \in Breaker, Agrees(cb), ~ Halts(cb), NEW progress \in BOOLEAN, NEW error \in BOOLEAN
  PROVE  Agrees(Recorded(cb, progress, error))
<1> DEFINE i == IF progress THEN 0 ELSE PlusOne(cb.idle)
           k == IF error THEN PlusOne(cb.errors) ELSE 0
           new == Recorded(cb, progress, error)
<1>1. cb.idle \in Int /\ cb.errors \in Int /\ cb.state \in {"CLOSED", "HALF_OPEN", NoState}
  <2>1. cb.idle \in 0 .. 6 /\ cb.errors \in 0 .. 6
    BY DEF Breaker, CounterCap, CB_SAME_ERROR_THRESHOLD
  <2>2. cb.state \in {"CLOSED", "HALF_OPEN", "OPEN", NoState} /\ cb.state # "OPEN"
    BY DEF Breaker, CBState, Halts
  <2> QED BY <2>1, <2>2
<1>2. /\ i \in Int /\ k \in Int
      /\ i = 0 \/ i = cb.idle + 1 \/ (i = cb.idle /\ i = 6)
      /\ k = 0 \/ k = cb.errors + 1 \/ (k = cb.errors /\ k = 6)
  <2>1. \A n \in Int : PlusOne(n) = n + 1 \/ (PlusOne(n) = n /\ n = 6)
    BY DEF PlusOne, CounterCap, CB_SAME_ERROR_THRESHOLD
  <2>2. PlusOne(cb.idle) \in Int /\ PlusOne(cb.errors) \in Int
    BY <1>1, <2>1
  <2>3. i = 0 \/ i = PlusOne(cb.idle)
    OBVIOUS
  <2>4. k = 0 \/ k = PlusOne(cb.errors)
    OBVIOUS
  <2> HIDE DEF i, k
  <2> QED BY <1>1, <2>1, <2>2, <2>3, <2>4
<1>3. new.state = NextState(cb.state, i, k) /\ new.idle = i /\ new.errors = k
  BY DEF Recorded
<1> HIDE DEF i, k, new
<1>4. CASE cb.state = "CLOSED"
  <2>1. i <= 2 /\ k <= 6
    BY <1>1, <1>2, <1>4 DEF Agrees, CB_SAME_ERROR_THRESHOLD
  <2>2. new.state = IF i >= 3 \/ k >= 5 THEN "OPEN" ELSE IF i >= 2 THEN "HALF_OPEN" ELSE "CLOSED"
    BY <1>3, <1>4 DEF NextState, CB_NO_PROGRESS_THRESHOLD, CB_SAME_ERROR_THRESHOLD
  <2> QED BY <1>2, <1>3, <2>1, <2>2 DEF Agrees, new, CB_NO_PROGRESS_THRESHOLD, CB_SAME_ERROR_THRESHOLD
<1>5. CASE cb.state = "HALF_OPEN"
  <2>1. (i = 0 \/ i = 3) /\ k <= 5
    BY <1>1, <1>2, <1>5 DEF Agrees, CB_SAME_ERROR_THRESHOLD
  <2>2. new.state = IF i = 0 THEN "CLOSED" ELSE IF i >= 3 THEN "OPEN" ELSE "HALF_OPEN"
    BY <1>3, <1>5 DEF NextState, CB_NO_PROGRESS_THRESHOLD
  <2> QED BY <1>2, <1>3, <2>1, <2>2 DEF Agrees, new, CB_NO_PROGRESS_THRESHOLD, CB_SAME_ERROR_THRESHOLD
<1>6. CASE cb.state = NoState
  <2>1. new.state = NoState
    BY <1>3, <1>6 DEF NextState, NoState
  <2> QED BY <2>1 DEF Agrees, new, NoState
<1> QED BY <1>1, <1>4, <1>5, <1>6

LEMMA AloneStep ==
  ASSUME TypeInv, Alone, Sharing = FALSE, NEW w \in Workers,
         Start(w) \/ Run(w) \/ Terminated(w) \/ Killed(w) \/ Collect(w)
  PROVE  Alone'
<1>1. Apart(w)
  BY StepApart
<1>2. CASE Start(w)
  <2>1. Alive = {}
    BY <1>2 DEF Start
  <2>2. \A v \in Workers \ {w} : proc[v].at \in {"absent", "gone", "killed"}
    BY <2>1 DEF Alive
  <2> QED BY <1>1, <2>2 DEF Alone, Alive, Apart
<1>3. CASE w \in Alive
  BY <1>1, <1>3 DEF Alone, Alive, Apart
<1>4. CASE Collect(w)
  <2>1. w \notin Alive'
    BY <1>4 DEF TypeInv, Collect, Alive, Absent
  <2> QED BY <1>1, <2>1 DEF Alone, Alive, Apart
<1>5. Run(w) \/ Terminated(w) \/ Killed(w) => w \in Alive
  BY DEF Run, LoopTop, WaitForReset, WaitFails, ModelFails, ModelAnswers, CountSignals, ReadAnalysis,
     ReportSuccess, Finish, ReadBreaker, TruncateBreaker, StoreBreaker, ReportTimeout, MarkTimeout,
     OnExit, MarkExit, Terminated, Killed, At, Alive
<1> QED BY <1>2, <1>3, <1>4, <1>5


\* Places in which a worker no longer looks at what it has counted.
Past == Leaving \cup {"finish", "mark", "timeout"}

\* A step on the way out keeps what is known of the story.
LEMMA PastSolo ==
  ASSUME NEW w \in Workers, DoneOf(w), OwnOf(w), proc'[w].at \in Past,
         reports' = reports, told'[w].done = told[w].done, told[w].named => told'[w].named
  PROVE  BreakerOf(w)' /\ DoneOf(w)' /\ OwnOf(w)'
BY DEF BreakerOf, DoneOf, OwnOf, Past, Leaving, At

\* A report that is not of a success, and one of a success whose task is named.
LEMMA WriteSolo ==
  ASSUME TypeInv, NEW w \in Workers, OwnOf(w), NEW kind \in Kind, Write(w, kind),
         kind = "success" => told[w].named
  PROVE  \A i \in DOMAIN reports'[w] : reports'[w][i] = "success" => told'[w].named
<1>1. told'[w].named = told[w].named
  BY WriteHour
<1>2. CASE reports' = reports
  BY <1>1, <1>2 DEF OwnOf
<1>3. CASE reports' = [reports EXCEPT ![w] = Append(@, kind)]
  <2>1. reports[w] \in Seq(Kind) /\ reports'[w] = Append(reports[w], kind)
    BY <1>3 DEF TypeInv
  <2>2. ASSUME NEW i \in DOMAIN reports'[w], reports'[w][i] = "success"
        PROVE  told'[w].named
    <3>1. i \in 1 .. Len(reports[w]) + 1
      BY <2>1, <2>2
    <3>2. CASE i = Len(reports[w]) + 1
      BY <1>1, <2>1, <2>2, <3>2
    <3>3. CASE i \in 1 .. Len(reports[w])
      BY <1>1, <2>1, <2>2, <3>3 DEF OwnOf
    <3> QED BY <3>1, <3>2, <3>3, <2>1
  <2> QED BY <2>2
<1> QED BY <1>2, <1>3 DEF Write

LEMMA TopSolo ==
  ASSUME TypeInv, NEW w \in Workers, BreakerOf(w), DoneOf(w), OwnOf(w),
         Start(w) \/ LoopTop(w) \/ WaitForReset(w) \/ WaitFails(w) \/ ModelFails(w)
  PROVE  BreakerOf(w)' /\ DoneOf(w)' /\ OwnOf(w)' /\ dir'.breaker = dir.breaker
<1> DEFINE p == proc[w]
           q == proc'[w]
<1>0. p \in Process /\ told[w] \in Story /\ dir \in Directory
  BY OneWorker
<1>1. CASE Start(w)
  <2>1. p.at = "absent" /\ q.at = "top" /\ told' = told /\ reports' = reports
    BY <1>0, <1>1 DEF TypeInv, Start, Goto, At, Process
  <2>2. dir'.breaker = dir.breaker /\ dir'.signals = NoSignals
    BY <1>0, <1>1 DEF Start, Directory
  <2> QED BY <2>1, <2>2 DEF BreakerOf, DoneOf, OwnOf, At, NoSignals
<1>2. CASE LoopTop(w)
  <2>1. told'[w].done = told[w].done /\ told'[w].named = told[w].named
    <3>1. told' = told \/ told' = [told EXCEPT ![w].hourly = @ + 1]
      BY <1>2, LoopTopEffect
    <3> QED BY <1>0, <3>1 DEF TypeInv, Story
  <2>2. /\ p.at = "top" /\ q.at \in {"exit", "waiting", "timeout", "model"}
        /\ dir' = dir /\ reports' = reports
        /\ q.at = "model" => ~ Halts(dir.breaker) /\ dir.signals.done < MAX_CONSECUTIVE_DONE_SIGNALS
    BY <1>2, LoopTopEffect
  <2> QED BY <2>1, <2>2 DEF BreakerOf, DoneOf, OwnOf, At
<1>3. CASE WaitForReset(w)
  <2>1. p.at = "waiting" /\ q.at = "top" /\ told' = told /\ reports' = reports /\ dir' = dir
    BY <1>0, <1>3 DEF TypeInv, WaitForReset, At, Process
  <2> QED BY <2>1 DEF BreakerOf, DoneOf, OwnOf, At
<1>4. CASE WaitFails(w) \/ ModelFails(w)
  <2>1. q.at \in Past /\ told' = told /\ reports' = reports
    BY <1>0, <1>4 DEF TypeInv, WaitFails, ModelFails, Die, Process, Past, Leaving
  <2>2. dir'.breaker = dir.breaker
    BY <1>0, <1>4 DEF WaitFails, ModelFails, Directory
  <2> QED BY <2>1, <2>2, PastSolo
<1> QED BY <1>1, <1>2, <1>3, <1>4

\* The next answer: what it says is in the analysis, and the story knows of it.
LEMMA AnswerSolo ==
  ASSUME TypeInv, NEW w \in Workers, BreakerOf(w), DoneOf(w), OwnOf(w), ModelAnswers(w)
  PROVE  BreakerOf(w)' /\ DoneOf(w)' /\ OwnOf(w)' /\ dir'.breaker = dir.breaker
<1> DEFINE p == proc[w]
           q == proc'[w]
<1>0. p \in Process /\ told[w] \in Story /\ dir \in Directory /\ told[w].done \in Int
      /\ p.at = "model" /\ reports' = reports /\ dir.signals.done \in Int
  BY OneWorker DEF Story, ModelAnswers, At, Directory, Signals, Window
<1>1. PICK a \in Answers : ModelAnswers(w)!2!(a)
  BY DEF ModelAnswers
<1> DEFINE divides == a.format # "json" /\ dir.silent
<1>2. CASE divides
  <2>1. q.at = "exit"
    BY <1>0, <1>1, <1>2 DEF TypeInv, Process
  <2>2. told'[w].done = told[w].done /\ (told[w].named => told'[w].named)
    BY <1>0, <1>1, <1>2 DEF TypeInv, Story
  <2>3. dir'.breaker = dir.breaker
    BY <1>0, <1>1, <1>2 DEF Directory
  <2> QED BY <1>0, <2>1, <2>2, <2>3, PastSolo DEF Past, Leaving
<1>3. CASE ~ divides
  <2>1. q.at = "signals"
    BY <1>0, <1>1, <1>3 DEF TypeInv, Process
  <2>2. /\ told'[w].named <=> (told[w].named \/ CompletesTask(a))
        /\ told'[w].done = IF Done(a) /\ ~ CompletesTask(a) THEN told[w].done + 1 ELSE told[w].done
    BY <1>0, <1>1, <1>3 DEF TypeInv, Story
  <2>3. dir'.breaker = dir.breaker /\ dir'.signals = dir.signals /\ dir'.present /\ dir'.analysis = Analysis(a)
    BY <1>0, <1>1, <1>3 DEF Directory
  <2>4. (Analysis(a).done <=> Done(a)) /\ (Analysis(a).task <=> CompletesTask(a))
    BY DEF Analysis
  <2>5. /\ told[w].done <= dir.signals.done /\ dir.signals.done < MAX_CONSECUTIVE_DONE_SIGNALS
        /\ ~ Halts(dir.breaker) /\ \A i \in DOMAIN reports[w] : reports[w][i] = "success" => told[w].named
    BY <1>0 DEF BreakerOf, DoneOf, OwnOf, At
  <2>6. BreakerOf(w)' /\ OwnOf(w)'
    BY <1>0, <2>1, <2>2, <2>3, <2>4, <2>5 DEF BreakerOf, OwnOf, At
  <2>7. DoneOf(w)'
    BY <1>0, <2>1, <2>2, <2>3, <2>4, <2>5 DEF DoneOf, At, MAX_CONSECUTIVE_DONE_SIGNALS
  <2> QED BY <2>3, <2>6, <2>7
<1> QED BY <1>2, <1>3

LEMMA CountSolo ==
  ASSUME TypeInv, NEW w \in Workers, BreakerOf(w), DoneOf(w), OwnOf(w), CountSignals(w) \/ ReadAnalysis(w)
  PROVE  BreakerOf(w)' /\ DoneOf(w)' /\ OwnOf(w)' /\ dir'.breaker = dir.breaker
<1> DEFINE p == proc[w]
           q == proc'[w]
<1>0. p \in Process /\ told[w] \in Story /\ dir \in Directory /\ told[w].done \in Int
      /\ dir.signals.done \in 0 .. 5
  BY OneWorker DEF Story, Directory, Signals, Window
<1>1. told' = told /\ reports' = reports
  BY DEF CountSignals, ReadAnalysis
<1>2. CASE CountSignals(w)
  <2>1. p.at = "signals" /\ dir.present /\ q.at = "report" /\ dir' = [dir EXCEPT !.signals = Updated(@, dir.analysis)]
    BY <1>0, <1>2 DEF TypeInv, Process, OwnOf, CountSignals, Goto, At
  <2>2. /\ dir'.breaker = dir.breaker /\ dir'.present = dir.present /\ dir'.analysis = dir.analysis
        /\ dir'.signals = Updated(dir.signals, dir.analysis)
    BY <1>0, <2>1 DEF Directory
  <2>3. dir'.signals.done = IF dir.analysis.done THEN dir.signals.done + 1 ELSE dir.signals.done
    BY <1>0, <2>1, <2>2 DEF DoneOf, Updated, Push, MAX_CONSECUTIVE_DONE_SIGNALS
  <2> QED BY <1>0, <1>1, <2>1, <2>2, <2>3 DEF BreakerOf, DoneOf, OwnOf, At
<1>3. CASE ReadAnalysis(w)
  <2>1. /\ p.at = "report" /\ dir.present /\ dir' = dir
        /\ q.at = IF dir.analysis.task THEN "success" ELSE "breaker"
    BY <1>0, <1>3 DEF TypeInv, Process, OwnOf, ReadAnalysis, Goto, At
  <2> QED BY <1>0, <1>1, <2>1 DEF BreakerOf, DoneOf, OwnOf, At
<1> QED BY <1>2, <1>3


LEMMA BreakerSolo ==
  ASSUME TypeInv, NEW w \in Workers, Agrees(dir.breaker), BreakerOf(w), DoneOf(w), OwnOf(w),
         ReadBreaker(w) \/ TruncateBreaker(w) \/ StoreBreaker(w)
  PROVE  BreakerOf(w)' /\ DoneOf(w)' /\ OwnOf(w)' /\ Agrees(dir'.breaker)
<1> DEFINE p == proc[w]
           q == proc'[w]
<1>0. p \in Process /\ dir \in Directory /\ told' = told /\ reports' = reports
  BY OneWorker DEF ReadBreaker, TruncateBreaker, StoreBreaker
<1>1. CASE ReadBreaker(w)
  <2>1. p.at = "breaker" /\ q.at = "truncate" /\ q.read = dir.breaker /\ dir' = dir
    BY <1>0, <1>1 DEF TypeInv, Process, ReadBreaker, At
  <2> QED BY <1>0, <2>1 DEF BreakerOf, DoneOf, OwnOf, At
<1>2. CASE TruncateBreaker(w)
  <2>1. p.at = "truncate" /\ q.at = "store" /\ q.read = p.read
    BY <1>0, <1>2 DEF TypeInv, Process, TruncateBreaker, Goto, At
  <2>2. dir'.breaker = EmptyFile /\ dir'.signals = dir.signals
    BY <1>0, <1>2 DEF Directory, TruncateBreaker
  <2>3. Agrees(EmptyFile)
    BY DEF Agrees, EmptyFile, NoState
  <2> QED BY <1>0, <2>1, <2>2, <2>3 DEF BreakerOf, DoneOf, OwnOf, At
<1>3. CASE StoreBreaker(w)
  <2>1. p.at = "store" /\ (Die(w, 1) \/ LoopDone(w))
        /\ dir' = [dir EXCEPT !.breaker = Recorded(p.read, p.files, p.error)]
    BY <1>3 DEF StoreBreaker, At
  <2>2. q.at \in {"exit", "top"}
    BY <2>1, StoreEffect
  <2>3. dir'.breaker = Recorded(p.read, p.files, p.error) /\ dir'.signals = dir.signals
    BY <1>0, <2>1 DEF Directory
  <2>4. Agrees(dir'.breaker)
    <3>1. p.read \in Breaker /\ p.files \in BOOLEAN /\ p.error \in BOOLEAN
      BY <1>0 DEF Process
    <3> QED BY <2>1, <2>3, <3>1, AgreesRecorded DEF BreakerOf
  <2> QED BY <1>0, <2>1, <2>2, <2>3, <2>4 DEF BreakerOf, DoneOf, OwnOf, At
<1> QED BY <1>1, <1>2, <1>3

LEMMA ReportSolo ==
  ASSUME TypeInv, NEW w \in Workers, BreakerOf(w), DoneOf(w), OwnOf(w),
         \/ ReportSuccess(w) \/ ReportTimeout(w) \/ Finish(w) \/ MarkTimeout(w)
         \/ OnExit(w) \/ MarkExit(w) \/ Terminated(w) \/ Killed(w) \/ Collect(w)
  PROVE  BreakerOf(w)' /\ DoneOf(w)' /\ OwnOf(w)'
<1> DEFINE p == proc[w]
           q == proc'[w]
<1>0. p \in Process /\ told[w] \in Story
  BY OneWorker
<1>1. ASSUME NEW kind \in Kind, Write(w, kind), q.at \in Past, kind = "success" => At(w, "success")
      PROVE  BreakerOf(w)' /\ DoneOf(w)' /\ OwnOf(w)'
  <2>1. told'[w].done = told[w].done
    BY <1>1, WriteHour
  <2>2. \A i \in DOMAIN reports'[w] : reports'[w][i] = "success" => told'[w].named
    BY <1>1, WriteSolo DEF OwnOf
  <2> QED BY <1>1, <2>1, <2>2 DEF BreakerOf, DoneOf, OwnOf, Past, Leaving, At
<1>2. CASE ReportSuccess(w) \/ ReportTimeout(w)
  <2>1. q.at \in Past
    BY <1>0, <1>2 DEF TypeInv, Process, ReportSuccess, ReportTimeout, Goto, Past
  <2> QED BY <1>1, <1>2, <2>1 DEF ReportSuccess, ReportTimeout, Kind
<1>3. CASE Finish(w) \/ MarkTimeout(w) \/ MarkExit(w) \/ Killed(w)
  <2>1. q.at \in Past
    <3>1. CASE Finish(w) \/ MarkTimeout(w)
      BY <3>1 DEF TypeInv, Process, Finish, MarkTimeout, Die, Past, Leaving
    <3>2. CASE MarkExit(w) \/ Killed(w)
      BY <3>2 DEF TypeInv, MarkExit, Killed, Ended, Absent, Past, Leaving
    <3> QED BY <1>3, <3>1, <3>2
  <2> QED BY <1>3, <2>1, PastSolo DEF Finish, MarkTimeout, MarkExit, Killed
<1>4. CASE OnExit(w)
  <2>1. q.at \in Past
    <3>1. CASE Goto(w, "exit_mark")
      BY <1>0, <3>1 DEF TypeInv, Process, Goto, Past, Leaving
    <3>2. CASE proc' = [proc EXCEPT ![w] = Ended(w)]
      BY <3>2 DEF TypeInv, Ended, Absent, Past, Leaving
    <3> QED BY <1>4, <3>1, <3>2 DEF OnExit
  <2>2. (reports' = reports /\ told' = told) \/ \E kind \in Kind \ {"success"} : Write(w, kind)
    BY <1>4 DEF OnExit, Kind
  <2> QED BY <1>1, <2>1, <2>2, PastSolo
<1>5. CASE Terminated(w)
  <2>1. q.at \in Past
    BY <1>0, <1>5 DEF TypeInv, Process, Terminated, Ended, Absent, Past, Leaving
  <2>2. CASE p.written
    <3>1. reports' = reports /\ told' = [told EXCEPT ![w].cut = told[w].cut \/ At(w, "success")]
      BY <1>5, <2>2 DEF Terminated
    <3>2. told'[w].done = told[w].done /\ told'[w].named = told[w].named
      BY <1>0, <3>1 DEF TypeInv, Story
    <3> QED BY <2>1, <3>1, <3>2, PastSolo
  <2>3. CASE ~ p.written
    BY <1>1, <1>5, <2>1, <2>3 DEF Terminated, Kind
  <2> QED BY <2>2, <2>3
<1>6. CASE Collect(w)
  <2>1. q.at = "absent" /\ told'[w].done = 0 /\ reports'[w] = << >>
    BY <1>6 DEF TypeInv, Collect, Absent, Untold
  <2> QED BY <2>1 DEF BreakerOf, DoneOf, OwnOf, At, MAX_CONSECUTIVE_DONE_SIGNALS
<1> QED BY <1>2, <1>3, <1>4, <1>5, <1>6

\* Only a worker that is alive, and alone, changes the directory.
LEMMA OtherSolo ==
  ASSUME TypeInv, SoloInv, NEW w \in Workers,
         Start(w) \/ Run(w) \/ Terminated(w) \/ Killed(w) \/ Collect(w), Sharing = FALSE,
         NEW v \in Workers \ {w}
  PROVE  BreakerOf(v)' /\ DoneOf(v)' /\ OwnOf(v)'
<1>1. proc'[v] = proc[v] /\ reports'[v] = reports[v] /\ told'[v] = told[v]
  BY StepApart DEF Apart
<1>2. BreakerOf(v) /\ DoneOf(v) /\ OwnOf(v)
  BY DEF SoloInv, DirInv
<1>3. CASE dir' = dir
  BY <1>1, <1>2, <1>3 DEF BreakerOf, DoneOf, OwnOf, At
<1>4. CASE v \notin Alive
  <2>1. proc[v].at \in {"absent", "gone", "killed"}
    BY <1>4 DEF Alive
  <2> QED BY <1>1, <1>2, <2>1 DEF BreakerOf, DoneOf, OwnOf, At
<1>5. CASE Start(w)
  BY <1>4, <1>5 DEF Start
<1>6. Run(w) \/ Terminated(w) \/ Killed(w) => w \in Alive
  BY DEF Run, LoopTop, WaitForReset, WaitFails, ModelFails, ModelAnswers, CountSignals, ReadAnalysis,
     ReportSuccess, Finish, ReadBreaker, TruncateBreaker, StoreBreaker, ReportTimeout, MarkTimeout,
     OnExit, MarkExit, Terminated, Killed, At, Alive
<1>7. w \in Alive => v \notin Alive
  BY DEF SoloInv, Alone
<1> QED BY <1>3, <1>4, <1>5, <1>6, <1>7 DEF Collect

LEMMA SoloStep ==
  ASSUME TypeInv, SoloInv, [Next]_vars, Sharing = FALSE
  PROVE  SoloInv'
<1>1. CASE UNCHANGED vars
  BY <1>1 DEF vars, SoloInv, Alone, Alive, DirInv, BreakerOf, DoneOf, OwnOf, At
<1>2. CASE Tick
  <2>1. \A w \in Workers : /\ proc'[w].at = proc[w].at /\ proc'[w].read = proc[w].read
                           /\ told'[w].done = told[w].done /\ told'[w].named = told[w].named
    BY <1>2, OneWorker DEF Tick, Process, Story
  <2>2. dir' = dir /\ reports' = reports
    BY <1>2 DEF Tick
  <2> QED BY <2>1, <2>2 DEF SoloInv, Alone, Alive, DirInv, BreakerOf, DoneOf, OwnOf, At
<1>3. ASSUME NEW w \in Workers, Start(w) \/ Run(w) \/ Terminated(w) \/ Killed(w) \/ Collect(w)
      PROVE  SoloInv'
  <2>1. Alone'
    BY <1>3, AloneStep DEF SoloInv
  <2>2. BreakerOf(w) /\ DoneOf(w) /\ OwnOf(w) /\ Agrees(dir.breaker)
    BY DEF SoloInv, DirInv
  <2>3. BreakerOf(w)' /\ DoneOf(w)' /\ OwnOf(w)' /\ Agrees(dir'.breaker)
    <3>1. CASE Start(w) \/ LoopTop(w) \/ WaitForReset(w) \/ WaitFails(w) \/ ModelFails(w)
      BY <2>2, <3>1, TopSolo
    <3>2. CASE ModelAnswers(w)
      BY <2>2, <3>2, AnswerSolo
    <3>3. CASE CountSignals(w) \/ ReadAnalysis(w)
      BY <2>2, <3>3, CountSolo
    <3>4. CASE ReadBreaker(w) \/ TruncateBreaker(w) \/ StoreBreaker(w)
      BY <2>2, <3>4, BreakerSolo
    <3>5. CASE \/ ReportSuccess(w) \/ ReportTimeout(w) \/ Finish(w) \/ MarkTimeout(w)
               \/ OnExit(w) \/ MarkExit(w) \/ Terminated(w) \/ Killed(w) \/ Collect(w)
      <4>1. dir' = dir
        BY <3>5 DEF ReportSuccess, ReportTimeout, Finish, MarkTimeout, OnExit, MarkExit, Terminated,
           Killed, Collect
      <4> QED BY <2>2, <3>5, <4>1, ReportSolo
    <3> QED BY <1>3, <3>1, <3>2, <3>3, <3>4, <3>5 DEF Run
  <2>4. \A v \in Workers \ {w} : BreakerOf(v)' /\ DoneOf(v)' /\ OwnOf(v)'
    BY <1>3, OtherSolo
  <2> QED BY <2>1, <2>3, <2>4 DEF SoloInv, DirInv
<1> QED BY <1>1, <1>2, <1>3 DEF Next

LEMMA InitSolo == Init => SoloInv
<1> SUFFICES ASSUME Init PROVE SoloInv
  OBVIOUS
<1>1. \A w \in Workers : proc[w].at = "absent" /\ told[w].done = 0 /\ reports[w] = << >>
  BY DEF Init, Absent, Untold
<1>2. dir.breaker = FreshBreaker
  BY DEF Init
<1>3. Agrees(FreshBreaker)
  BY DEF Agrees, FreshBreaker, CB_SAME_ERROR_THRESHOLD
<1> QED BY <1>1, <1>2, <1>3
        DEF SoloInv, Alone, Alive, DirInv, BreakerOf, DoneOf, OwnOf, At, MAX_CONSECUTIVE_DONE_SIGNALS

LEMMA SoloAlways == ASSUME Sharing = FALSE PROVE Spec => [](TypeInv /\ SoloInv)
<1>1. Init => TypeInv /\ SoloInv
  BY InitTypes, InitSolo
<1>2. (TypeInv /\ SoloInv) /\ [Next]_vars => (TypeInv /\ SoloInv)'
  BY NextTypes, SoloStep
<1> QED BY <1>1, <1>2, PTL DEF Spec

\* The breaker a worker finds, an earlier worker's included, is open, monitoring
\* or closed as its counters say, wherever workers die in their loops: no two of
\* them may run in the directory at once.
THEOREM BreakerConsistent == ASSUME Sharing = FALSE PROVE Spec => []BreakerAgrees
<1>1. SoloInv => BreakerAgrees
  BY DEF SoloInv, DirInv, Agrees, BreakerAgrees
<1> QED BY SoloAlways, <1>1, PTL

\* A worker alone in its directory ends after four answers that said done.
THEOREM DoneEnds == ASSUME Sharing = FALSE PROVE Spec => []StopsWhenTold
<1>1. SoloInv => StopsWhenTold
  BY DEF SoloInv, DirInv, DoneOf, StopsWhenTold
<1> QED BY SoloAlways, <1>1, PTL

\* A worker alone in its directory reports success only for a task that its own
\* model has named.
THEOREM SuccessNamed == ASSUME Sharing = FALSE PROVE Spec => []SuccessIsOwn
<1>1. SoloInv => SuccessIsOwn
  BY DEF SoloInv, DirInv, OwnOf, SuccessIsOwn
<1> QED BY SoloAlways, <1>1, PTL


-----------------------------------------------------------------------------
(***************************************************************************)
(* The worker keeps the contract of its outcome files.                     *)
(***************************************************************************)
\* What OutcomeContract sees of a worker.
Phase(w) == CASE At(w, "absent") -> "absent"
              [] proc[w].at \in {"gone", "killed"} -> "gone"
              [] OTHER -> "alive"
Last(w) == IF reports[w] = << >> THEN "none" ELSE reports[w][Len(reports[w])]

\* A second outcome is written only by a signal between a report and the note that
\* it was written: everywhere else OUTCOME_WRITTEN is set, or no report is there.
OnePen(w) ==
  /\ proc[w].written => proc[w].at \in {"success", "finish", "exit"}
  /\ proc[w].at \in {"success", "finish"} => proc[w].written
  /\ ~ proc[w].written /\ proc[w].at \notin {"mark", "exit_mark", "gone", "killed"} => reports[w] = << >>
  /\ At(w, "success") => reports[w] = << >>
  /\ proc[w].at \in {"mark", "exit_mark"} => Last(w) \in {"none"} \cup Outcome!Unfinished

\* The steps of the contract, as one worker sees them.
Allowed(w) ==
  \/ Phase(w)' = Phase(w) /\ Last(w)' = Last(w)
  \/ Phase(w) = "absent" /\ Phase(w)' = "alive" /\ Last(w)' = Last(w)
  \/ Phase(w) = "alive" /\ Phase(w)' = "gone" /\ Last(w)' = Last(w)
  \/ /\ Phase(w) = "alive" /\ Phase(w)' \in {"alive", "gone"}
     /\ Last(w)' \in Outcome!Unfinished \cup Outcome!Final
     /\ Last(w) = "none" \/ (Last(w) \in Outcome!Unfinished /\ Last(w)' = "aborted")
  \/ Phase(w) = "gone" /\ Phase(w)' = "absent" /\ Last(w)' = "none"

LEMMA WriteLast ==
  ASSUME TypeInv, NEW w \in Workers, NEW kind \in Kind, Write(w, kind)
  PROVE  reports'[w] = reports[w] \/ (Last(w)' = kind /\ reports'[w] # << >>)
<1>1. CASE reports' = reports
  BY <1>1
<1>2. CASE reports' = [reports EXCEPT ![w] = Append(@, kind)]
  <2>1. reports[w] \in Seq(Kind) /\ reports'[w] = Append(reports[w], kind)
    BY <1>2 DEF TypeInv
  <2>2. reports'[w] # << >> /\ reports'[w][Len(reports'[w])] = kind
    BY <2>1
  <2> QED BY <2>2 DEF Last
<1> QED BY <1>1, <1>2 DEF Write

\* The places between a start and an end are alike.
LEMMA PhaseOf ==
  ASSUME NEW w \in Workers
  PROVE  /\ proc[w].at = "absent" => Phase(w) = "absent"
         /\ proc[w].at \in {"gone", "killed"} => Phase(w) = "gone"
         /\ proc[w].at \notin {"absent", "gone", "killed"} => Phase(w) = "alive"
         /\ proc'[w].at = "absent" => Phase(w)' = "absent"
         /\ proc'[w].at \in {"gone", "killed"} => Phase(w)' = "gone"
         /\ proc'[w].at \notin {"absent", "gone", "killed"} => Phase(w)' = "alive"
BY DEF Phase, At

\* Places where OUTCOME_WRITTEN is not set and nothing is reported yet.
Early == {"top", "waiting", "model", "signals", "report", "breaker", "truncate", "store", "timeout"}

LEMMA EarlyStep ==
  ASSUME TypeInv, NEW w \in Workers, OnePen(w), reports' = reports,
         proc[w].at \in Early \cup {"absent"}, proc'[w].at \in Early \cup {"exit"},
         proc'[w].written = proc[w].written
  PROVE  OnePen(w)' /\ Allowed(w)
<1>1. Last(w)' = Last(w) /\ ~ proc[w].written /\ reports[w] = << >>
  BY DEF OnePen, Last, Early
<1>2. Phase(w)' = "alive" /\ Phase(w) \in {"absent", "alive"}
  BY PhaseOf DEF Early
<1>3. OnePen(w)'
  BY <1>1 DEF OnePen, Early, At
<1> QED BY <1>1, <1>2, <1>3 DEF Allowed

LEMMA PenStep ==
  ASSUME TypeInv, NEW w \in Workers, OnePen(w),
         Start(w) \/ Run(w) \/ Terminated(w) \/ Killed(w) \/ Collect(w)
  PROVE  OnePen(w)' /\ Allowed(w)
<1> DEFINE p == proc[w]
           q == proc'[w]
<1>0. p \in Process /\ Outcome!Unfinished = {"timeout", "crashed", "no_task"}
      /\ Outcome!Final = {"success", "aborted"}
  BY OneWorker DEF Outcome!Unfinished, Outcome!Final
<1>1. CASE Start(w) \/ WaitForReset(w) \/ WaitFails(w) \/ ModelFails(w) \/ CountSignals(w)
           \/ ReadBreaker(w) \/ TruncateBreaker(w)
  <2>1. /\ reports' = reports /\ p.at \in Early \cup {"absent"} /\ q.at \in Early \cup {"exit"}
        /\ q.written = p.written
    BY <1>0, <1>1 DEF TypeInv, Process, Start, WaitForReset, WaitFails, ModelFails, CountSignals,
       ReadBreaker, TruncateBreaker, Goto, Die, At, Early
  <2> QED BY <2>1, EarlyStep
<1>2. CASE LoopTop(w)
  BY <1>2, LoopTopEffect, EarlyStep DEF Early
<1>3. CASE ModelAnswers(w)
  <2>1. /\ reports' = reports /\ p.at = "model" /\ q.at \in {"signals", "exit"} /\ q.written = p.written
    BY <1>0, <1>3 DEF TypeInv, Process, ModelAnswers, At
  <2> QED BY <2>1, EarlyStep DEF Early
<1>4. CASE StoreBreaker(w)
  <2>1. reports' = reports /\ p.at = "store" /\ (Die(w, 1) \/ LoopDone(w))
    BY <1>4 DEF StoreBreaker, At
  <2> QED BY <2>1, StoreEffect, EarlyStep DEF Early
<1>5. CASE ReadAnalysis(w)
  <2>1. reports' = reports /\ p.at = "report"
    BY <1>5 DEF ReadAnalysis, At
  <2>2. \/ q.at \in {"exit", "breaker"} /\ q.written = p.written
        \/ q.at = "success" /\ q.written
    BY <1>0, <1>5 DEF TypeInv, Process, ReadAnalysis, Goto, Die
  <2>3. CASE q.at = "success" /\ q.written
    <3>1. reports[w] = << >> /\ Last(w)' = Last(w)
      BY <2>1 DEF OnePen, Last
    <3>2. Phase(w) = "alive" /\ Phase(w)' = "alive"
      BY <2>1, <2>3, PhaseOf
    <3> QED BY <2>1, <2>3, <3>1, <3>2 DEF OnePen, Allowed, At
  <2> QED BY <2>1, <2>2, <2>3, EarlyStep DEF Early
<1>6. ASSUME NEW kind \in Kind, Write(w, kind), Last(w) = "none" \/ Last(w) \in Outcome!Unfinished,
             Last(w) = "none" \/ kind = "aborted",
             p.at \notin {"absent", "gone", "killed"}, q.at # "absent"
      PROVE  Allowed(w)
  <2>1. Phase(w) = "alive" /\ Phase(w)' \in {"alive", "gone"}
    BY <1>6, PhaseOf
  <2>2. Last(w)' = Last(w) \/ Last(w)' = kind
    BY <1>6, WriteLast DEF Last
  <2> QED BY <1>0, <1>6, <2>1, <2>2 DEF Allowed, Kind
<1>7. CASE ReportSuccess(w) \/ ReportTimeout(w)
  <2>1. /\ p.at \in {"success", "timeout"} /\ q.at = (IF p.at = "success" THEN "finish" ELSE "mark")
        /\ q.written = p.written
    BY <1>0, <1>7 DEF TypeInv, Process, ReportSuccess, ReportTimeout, Goto, At
  <2>2. reports[w] = << >> /\ Last(w) = "none" /\ (p.written <=> p.at = "success")
    BY <2>1 DEF OnePen, Last, At
  <2>3. PICK kind \in {"success", "timeout"} : Write(w, kind) /\ (kind = "success" <=> p.at = "success")
    BY <1>7, <2>1 DEF ReportSuccess, ReportTimeout, At
  <2>4. Allowed(w)
    BY <1>6, <2>1, <2>2, <2>3 DEF Kind
  <2>5. Last(w)' \in {"none", kind}
    BY <2>2, <2>3, WriteLast DEF Last, Kind
  <2> QED BY <1>0, <2>1, <2>2, <2>3, <2>4, <2>5 DEF OnePen, At
<1>8. CASE Finish(w) \/ MarkTimeout(w)
  <2>1. reports' = reports /\ p.at \in {"finish", "mark"} /\ q.at = "exit"
    BY <1>0, <1>8 DEF TypeInv, Process, Finish, MarkTimeout, Die, At
  <2>2. q.written
    BY <1>0, <1>8 DEF TypeInv, Process, Finish, MarkTimeout, Die, OnePen, At
  <2>3. Phase(w) = "alive" /\ Phase(w)' = "alive" /\ Last(w)' = Last(w)
    BY <2>1, PhaseOf DEF Last
  <2> QED BY <2>1, <2>2, <2>3 DEF OnePen, Allowed, At
<1>9. ASSUME reports' = reports, p.at \notin {"absent", "gone", "killed"},
             q.at \in {"gone", "killed"}, ~ q.written
      PROVE  OnePen(w)' /\ Allowed(w)
  <2>1. Phase(w) = "alive" /\ Phase(w)' = "gone" /\ Last(w)' = Last(w)
    BY <1>9, PhaseOf DEF Last
  <2> QED BY <1>9, <2>1 DEF OnePen, Allowed, At
<1>10. Ended(w).at = "gone" /\ ~ Ended(w).written /\ [Ended(w) EXCEPT !.rc = 0].at = "gone"
       /\ ~ [Ended(w) EXCEPT !.rc = 0].written
  BY DEF Ended, Absent
<1>11. CASE OnExit(w)
  <2>1. p.at = "exit"
    BY <1>11 DEF OnExit, At
  <2>2. CASE p.written
    <3>1. q = Ended(w) /\ reports' = reports
      BY <1>11, <2>2 DEF TypeInv, OnExit
    <3> QED BY <1>9, <1>10, <2>1, <3>1
  <2>3. CASE ~ p.written
    <3>1. q.at = "exit_mark" /\ ~ q.written
      BY <1>0, <1>11, <2>3 DEF TypeInv, Process, OnExit, Goto
    <3>2. reports[w] = << >> /\ Last(w) = "none"
      BY <2>1, <2>3 DEF OnePen, Last
    <3>3. PICK kind \in {"no_task", "crashed"} : Write(w, kind)
      BY <1>11, <2>3 DEF OnExit
    <3>4. Allowed(w)
      BY <1>6, <2>1, <3>1, <3>2, <3>3 DEF Kind
    <3>5. Last(w)' \in {"none", kind}
      BY <3>2, <3>3, WriteLast DEF Last, Kind
    <3> QED BY <1>0, <3>1, <3>4, <3>5 DEF OnePen, At
  <2> QED BY <2>2, <2>3
<1>12. CASE MarkExit(w) \/ Killed(w)
  <2>1. reports' = reports /\ p.at \notin {"absent", "gone", "killed"}
    BY <1>12 DEF MarkExit, Killed, At, Alive
  <2>2. q.at \in {"gone", "killed"} /\ ~ q.written
    BY <1>10, <1>12 DEF TypeInv, MarkExit, Killed, Absent
  <2> QED BY <1>9, <2>1, <2>2
<1>13. CASE Terminated(w)
  <2>1. p.at \notin {"absent", "gone", "killed"}
    BY <1>13 DEF Terminated, Alive
  <2>2. q.at \in {"gone", "exit"} /\ (q.at = "exit" => q.written) /\ (q.at = "gone" => ~ q.written)
    <3>1. CASE p.at = "exit_mark"
      <4>1. q = [Ended(w) EXCEPT !.rc = 0]
        BY <1>13, <3>1 DEF TypeInv, Terminated
      <4> QED BY <1>10, <4>1
    <3>2. CASE p.at # "exit_mark"
      BY <1>0, <1>13, <3>2 DEF TypeInv, Process, Terminated
    <3> QED BY <3>1, <3>2
  <2>3. OnePen(w)'
    BY <2>2 DEF OnePen, At
  <2>4. CASE p.written
    <3>1. reports' = reports
      BY <1>13, <2>4 DEF Terminated
    <3>2. Phase(w) = "alive" /\ Phase(w)' \in {"alive", "gone"} /\ Last(w)' = Last(w)
      BY <2>1, <2>2, <3>1, PhaseOf DEF Last
    <3> QED BY <2>3, <3>2 DEF Allowed
  <2>5. CASE ~ p.written
    <3>1. Write(w, "aborted")
      BY <1>13, <2>5 DEF Terminated
    <3>2. Last(w) = "none" \/ Last(w) \in Outcome!Unfinished
      BY <2>1, <2>5 DEF OnePen, Last
    <3> QED BY <1>6, <2>1, <2>2, <2>3, <3>1, <3>2 DEF Kind
  <2> QED BY <2>4, <2>5
<1>14. CASE Collect(w)
  <2>1. q.at = "absent" /\ ~ q.written /\ reports'[w] = << >> /\ p.at \in {"gone", "killed"}
    BY <1>14 DEF TypeInv, Collect, Absent
  <2>2. Phase(w) = "gone" /\ Phase(w)' = "absent" /\ Last(w)' = "none"
    BY <2>1, PhaseOf DEF Last
  <2> QED BY <2>1, <2>2 DEF OnePen, Allowed, At
<1> QED BY <1>1, <1>2, <1>3, <1>4, <1>5, <1>7, <1>8, <1>11, <1>12, <1>13, <1>14 DEF Run


\* A step that every worker takes for an allowed one, and that all but one take for
\* none at all, is a step of the contract.
LEMMA AllowedStep ==
  ASSUME NEW w \in Workers, Allowed(w),
         \A v \in Workers \ {w} : Phase(v)' = Phase(v) /\ Last(v)' = Last(v)
  PROVE  Outcome!Next \/ (\A v \in Workers : Phase(v)' = Phase(v) /\ Last(v)' = Last(v))
<1> DEFINE phase == [v \in Workers |-> Phase(v)]
           report == [v \in Workers |-> Last(v)]
<1>2. /\ phase[w] = Phase(w) /\ report[w] = Last(w)
      /\ phase' = [phase EXCEPT ![w] = Phase(w)'] /\ report' = [report EXCEPT ![w] = Last(w)']
  OBVIOUS
<1> HIDE DEF phase, report
<1>3. CASE Phase(w)' = Phase(w) /\ Last(w)' = Last(w)
  BY <1>3
<1>4. CASE Phase(w) = "absent" /\ Phase(w)' = "alive" /\ Last(w)' = Last(w)
  <2>1. report' = report
    BY <1>2, <1>4 DEF report
  <2>2. phase[w] = "absent" /\ phase' = [phase EXCEPT ![w] = "alive"] /\ report' = report
    BY <1>2, <1>4, <2>1
  <2>3. Outcome!Begin(w)
    BY <2>2 DEF Outcome!Begin, phase, report, Phase, Last
  <2> QED BY <2>3 DEF Outcome!Next
<1>5. CASE Phase(w) = "alive" /\ Phase(w)' = "gone" /\ Last(w)' = Last(w)
  <2>1. report' = report
    BY <1>2, <1>5 DEF report
  <2>2. phase[w] = "alive" /\ phase' = [phase EXCEPT ![w] = "gone"] /\ report' = report
    BY <1>2, <1>5, <2>1
  <2>3. Outcome!End(w)
    BY <2>2 DEF Outcome!End, phase, report, Phase, Last
  <2> QED BY <2>3 DEF Outcome!Next
<1>6. CASE /\ Phase(w) = "alive" /\ Phase(w)' \in {"alive", "gone"}
           /\ Last(w)' \in Outcome!Unfinished \cup Outcome!Final
           /\ Last(w) = "none" \/ (Last(w) \in Outcome!Unfinished /\ Last(w)' = "aborted")
  <2>1. phase' = phase \/ phase' = [phase EXCEPT ![w] = "gone"]
    BY <1>2, <1>6 DEF phase
  <2>2. PICK kind \in Outcome!Unfinished \cup Outcome!Final : kind = Last(w)'
    BY <1>6
  <2>3. /\ phase[w] = "alive" /\ phase' \in {phase, [phase EXCEPT ![w] = "gone"]}
        /\ report[w] = "none" \/ (report[w] \in Outcome!Unfinished /\ kind = "aborted")
        /\ report' = [report EXCEPT ![w] = kind]
    BY <1>2, <1>6, <2>1, <2>2
  <2>4. Outcome!Report(w, kind)
    BY <2>3 DEF Outcome!Report, phase, report, Phase, Last
  <2> QED BY <2>2, <2>4 DEF Outcome!Next
<1>7. CASE Phase(w) = "gone" /\ Phase(w)' = "absent" /\ Last(w)' = "none"
  <2>1. phase[w] = "gone" /\ phase' = [phase EXCEPT ![w] = "absent"] /\ report' = [report EXCEPT ![w] = "none"]
    BY <1>2, <1>7
  <2>2. Outcome!Collect(w)
    BY <2>1 DEF Outcome!Collect, phase, report, Phase, Last
  <2> QED BY <2>2 DEF Outcome!Next
<1> QED BY <1>3, <1>4, <1>5, <1>6, <1>7 DEF Allowed

PenInv == TypeInv /\ \A w \in Workers : OnePen(w)

LEMMA PenTick ==
  ASSUME TypeInv, Tick \/ UNCHANGED vars, NEW w \in Workers
  PROVE  Phase(w)' = Phase(w) /\ Last(w)' = Last(w) /\ (OnePen(w) => OnePen(w)')
<1>1. proc'[w].at = proc[w].at /\ proc'[w].written = proc[w].written /\ reports' = reports
  BY OneWorker DEF Tick, vars, Process
<1> QED BY <1>1 DEF Phase, Last, OnePen, At

LEMMA PenNext ==
  ASSUME PenInv, [Next]_vars
  PROVE  PenInv' /\ (Outcome!Next \/ (\A v \in Workers : Phase(v)' = Phase(v) /\ Last(v)' = Last(v)))
<1>1. TypeInv'
  BY NextTypes DEF PenInv
<1>2. CASE Tick \/ UNCHANGED vars
  BY <1>1, <1>2, PenTick DEF PenInv
<1>3. ASSUME NEW w \in Workers, Start(w) \/ Run(w) \/ Terminated(w) \/ Killed(w) \/ Collect(w)
      PROVE  /\ \A v \in Workers : OnePen(v)'
             /\ Outcome!Next \/ (\A v \in Workers : Phase(v)' = Phase(v) /\ Last(v)' = Last(v))
  <2>1. OnePen(w)' /\ Allowed(w)
    BY <1>3, PenStep DEF PenInv
  <2>2. \A v \in Workers \ {w} : proc'[v] = proc[v] /\ reports'[v] = reports[v]
    BY <1>3, StepApart DEF PenInv, Apart
  <2>3. \A v \in Workers \ {w} : OnePen(v)' /\ Phase(v)' = Phase(v) /\ Last(v)' = Last(v)
    BY <2>2 DEF PenInv, OnePen, Phase, Last, At
  <2> QED BY <2>1, <2>3, AllowedStep
<1> QED BY <1>1, <1>2, <1>3 DEF Next, PenInv

\* The daemon may rely on the outcome files as OutcomeContract says: one report of
\* each worker, final when it is a success, and replaced only by "aborted".
THEOREM KeepsContract == Spec => ReportsByContract
<1>1. Init => PenInv /\ Outcome!Init
  <2> SUFFICES ASSUME Init PROVE PenInv /\ Outcome!Init
    OBVIOUS
  <2>1. \A w \in Workers : proc[w].at = "absent" /\ ~ proc[w].written /\ reports[w] = << >>
    BY DEF Init, Absent
  <2>2. PenInv
    BY <2>1, InitTypes DEF PenInv, OnePen, At
  <2>3. Outcome!Init
    BY <2>1 DEF Outcome!Init, At
  <2> QED BY <2>2, <2>3
<1>2. PenInv /\ [Next]_vars => PenInv' /\ [Outcome!Next]_(Outcome!vars)
  <2> SUFFICES ASSUME PenInv, [Next]_vars PROVE PenInv' /\ [Outcome!Next]_(Outcome!vars)
    OBVIOUS
  <2>1. (\A v \in Workers : Phase(v)' = Phase(v) /\ Last(v)' = Last(v)) => UNCHANGED Outcome!vars
    BY DEF Phase, Last, Outcome!vars
  <2> QED BY <2>1, PenNext
<1> QED BY <1>1, <1>2, PTL DEF Spec, ReportsByContract, Outcome!Spec

=============================================================================
