-------------------------- MODULE AutoMergeProofs --------------------------
(***************************************************************************)
(* What the merges of any number of sessions do to one checkout, for any   *)
(* ralphs, tasks, conflicts and commits.                                   *)
(***************************************************************************)
EXTENDS AutoMerge, FiniteSetTheorems, TLAPS

-----------------------------------------------------------------------------
(***************************************************************************)
(* Types.                                                                  *)
(***************************************************************************)
Making == {"create", "add", "add_old", "record"}
Cleaning == {"status", "remove", "drop"}
AtMerge == {"checkout", "pull", "ff", "noff", "squash", "commit", "detect", "abort",
            "reset", "succeeded", "failed"}
Sweeping == {"list", "dirs", "sweep"}
Place == {"idle", "read", "release"} \cup Making \cup Cleaning \cup AtMerge \cup Sweeping

Frame == [at : Place, ralph : Ralph \cup {NoRalph}, task : Task \cup {NoTask},
          wt : Ralph \cup {NoRalph}, for : Cleaner, drop : Task \cup {NoTask},
          todo : SUBSET Ralph, conflict : BOOLEAN, owed : SUBSET Work]
Claims == [status : {"pending", "in_progress", "completed"},
           owner : Ralph \cup {NoRalph}, wt : Ralph \cup {NoRalph}]

\* A session makes a worktree, or completes a task.
Makes(f) == f.at \in Making \/ (f.at \in Cleaning /\ f.for = "create")
Completes(f) ==
  \/ f.at \in AtMerge \cup {"read", "release"}
  \/ f.at \in Cleaning /\ f.for \in {"merged", "failed"}

Named(f) ==
  /\ Makes(f) \/ Completes(f) => f.ralph \in Ralph /\ f.task \in Task
  /\ f.at \in Making \cup Cleaning \cup AtMerge => f.wt \in Ralph
  /\ f.at \in Making => f.for = "create"
  /\ f.at = "drop" => f.drop \in Task

Repository ==
  /\ alive \subseteq Ralph
  /\ tree \in [Ralph -> Task \cup {NoTask}] /\ dirty \subseteq Ralph
  /\ DOMAIN branch \subseteq Branch /\ branch \in [DOMAIN branch -> SUBSET Commit]
  /\ main \subseteq Commit /\ count \in Nat /\ litter \in BOOLEAN
  /\ index \in [kind : Kind, of : SUBSET Commit]

Frames == frame \in [Session -> Frame] /\ \A s \in Session : Named(frame[s])

TypeInv == row \in [Task -> Claims] /\ Repository /\ Frames

\* The steps of one session within a call, and a step of the program.
Step(s) ==
  \/ Create(s) \/ Add(s) \/ AddOld(s) \/ RecordTree(s)
  \/ Status(s) \/ Remove(s) \/ Drop(s)
  \/ ReadRow(s) \/ Checkout(s) \/ Pull(s) \/ FastForward(s) \/ MergeCommit(s)
  \/ Squash(s) \/ SquashCommit(s) \/ DetectConflicts(s) \/ Abort(s) \/ ResetHead(s)
  \/ Succeeded(s) \/ Failed(s) \/ ReleaseFailed(s)
  \/ SweepList(s) \/ SweepDirs(s) \/ SweepNext(s) \/ TimesOut(s) \/ Killed(s)

LEMMA NextSteps ==
  ASSUME [Next]_vars
  PROVE  \/ \E s \in Session : Step(s)
         \/ \E s \in Session, r \in Ralph : MarkCrashed(s, r)
         \/ \E s \in Session, r \in Ralph, t \in Task : Claim(s, r, t) \/ Complete(s, r, t)
         \/ \E r \in Ralph : Register(r)
         \/ \E r \in Ralph, t \in Task : WorkerEdits(r, t) \/ WorkerCommits(r, t)
         \/ \E t \in Task : Release(t)
         \/ UNCHANGED vars
BY Zenon DEF Next, Step

LEMMA TypeInvTypes == TypeInv => TypeOK
BY DEF TypeInv, TypeOK, Repository, Frames, Frame, Claims

LEMMA IdleFrame == Idle \in Frame /\ Named(Idle) /\ ~ Makes(Idle) /\ ~ Completes(Idle)
BY DEF Idle, Frame, Named, Makes, Completes, Place, Making, Cleaning, AtMerge, Cleaner

LEMMA IdleFields ==
  Idle.at = "idle" /\ Idle.ralph = NoRalph /\ Idle.wt = NoRalph /\ Idle.for = "create"
BY DEF Idle

LEMMA InitTypes == Init => TypeInv
<1> SUFFICES ASSUME Init PROVE TypeInv
  OBVIOUS
<1>1. Frames
  BY IdleFrame DEF Init, Frames
<1>2. row \in [Task -> Claims]
  BY DEF Init, Claims
<1>3. branch = [b \in {} |-> {}] /\ DOMAIN branch = {}
  BY DEF Init
<1>4. index \in [kind : Kind, of : SUBSET Commit]
  BY DEF Init, CleanIndex, Index, Kind
<1> QED BY <1>1, <1>2, <1>3, <1>4 DEF Init, TypeInv, Repository

\* One session moves on, and the others stay where they are.
LEMMA GotoFrame ==
  ASSUME frame \in [Session -> Frame], NEW s \in Session, NEW place \in Place, Goto(s, place)
  PROVE  /\ frame' = [frame EXCEPT ![s] = [frame[s] EXCEPT !.at = place]]
         /\ [frame[s] EXCEPT !.at = place] \in Frame
         /\ frame' \in [Session -> Frame]
         /\ frame'[s].at = place /\ frame'[s].ralph = frame[s].ralph
         /\ frame'[s].task = frame[s].task /\ frame'[s].wt = frame[s].wt
         /\ frame'[s].for = frame[s].for /\ frame'[s].drop = frame[s].drop
         /\ frame'[s].todo = frame[s].todo /\ frame'[s].owed = frame[s].owed
         /\ \A x \in Session : x # s => frame'[x] = frame[x]
<1>1. frame[s] \in Frame
  OBVIOUS
<1>2. frame' = [frame EXCEPT ![s] = [frame[s] EXCEPT !.at = place]]
  BY DEF Goto
<1>3. [frame[s] EXCEPT !.at = place] \in Frame
  BY <1>1 DEF Frame
<1>4. frame'[s] = [frame[s] EXCEPT !.at = place]
  BY <1>2
<1> QED BY <1>1, <1>2, <1>3, <1>4 DEF Frame

LEMMA ReturnFrame ==
  ASSUME frame \in [Session -> Frame], NEW s \in Session, Return(s)
  PROVE  /\ frame' = [frame EXCEPT ![s] = Idle]
         /\ frame' \in [Session -> Frame] /\ frame'[s] = Idle
         /\ \A x \in Session : x # s => frame'[x] = frame[x]
BY IdleFrame DEF Return

LEMMA CleanFrame ==
  ASSUME frame \in [Session -> Frame], NEW s \in Session, NEW for \in Cleaner, Clean(s, for)
  PROVE  /\ frame' \in [Session -> Frame]
         /\ frame'[s].at = IF for = "merged" THEN "status" ELSE "remove"
         /\ frame'[s].ralph = frame[s].ralph
         /\ frame'[s].task = frame[s].task /\ frame'[s].wt = frame[s].wt
         /\ frame'[s].for = for /\ frame'[s].owed = frame[s].owed
         /\ \A x \in Session : x # s => frame'[x] = frame[x]
<1>1. frame[s] \in Frame
  OBVIOUS
<1> DEFINE place == IF for = "merged" THEN "status" ELSE "remove"
           f == [frame[s] EXCEPT !.at = place]
<1>2. place \in Place
  BY DEF Place, Cleaning
<1>3. f \in Frame /\ f.ralph = frame[s].ralph /\ f.task = frame[s].task /\ f.at = place
      /\ f.wt = frame[s].wt /\ f.owed = frame[s].owed
  BY <1>1, <1>2 DEF Frame
<1>4. frame' = [frame EXCEPT ![s] = [f EXCEPT !.for = for]]
  BY <1>1 DEF Clean
<1> HIDE DEF f
<1>5. [f EXCEPT !.for = for] \in Frame
  BY <1>3 DEF Frame
<1>6. frame'[s] = [f EXCEPT !.for = for]
  BY <1>4
<1> QED BY <1>3, <1>4, <1>5, <1>6 DEF Frame

LEMMA OneFrame ==
  ASSUME Frames, NEW s \in Session, frame' \in [Session -> Frame], Named(frame'[s]),
         \A x \in Session : x # s => frame'[x] = frame[x]
  PROVE  Frames'
BY DEF Frames

LEMMA AfterFrame ==
  ASSUME Frames, NEW s \in Session, NEW ok, frame[s].at \in Cleaning, After(s, ok)
  PROVE  /\ Frames' /\ \A x \in Session : x # s => frame'[x] = frame[x]
         /\ \/ /\ frame'[s] = Idle
               /\ frame[s].for = "create" => ~ ok
            \/ /\ \/ frame[s].for = "create" /\ ok /\ frame'[s].at = "add"
                  \/ frame[s].for = "failed" /\ frame'[s].at = "release"
                  \/ frame[s].for = "sweep" /\ frame'[s].at = "sweep"
               /\ frame'[s].ralph = frame[s].ralph /\ frame'[s].task = frame[s].task
               /\ frame'[s].wt = frame[s].wt /\ frame'[s].for = frame[s].for
               /\ frame'[s].owed = frame[s].owed
<1> frame \in [Session -> Frame] /\ frame[s] \in Frame /\ Named(frame[s])
  BY DEF Frames
<1> frame[s].for \in Cleaner
  BY DEF Frame
<1> "add" \in Place /\ "release" \in Place /\ "sweep" \in Place
  BY DEF Place, Making, Sweeping
<1>1. CASE Return(s)
  <2>1. frame[s].for = "create" => ~ ok
    <3>1. CASE frame[s].for = "create" /\ ok
      <4>1. Goto(s, "add")
        BY <3>1 DEF After
      <4>2. frame'[s].at = "add" /\ frame'[s].at = Idle.at
        BY <1>1, <4>1, GotoFrame, ReturnFrame
      <4> QED BY <4>2 DEF Idle
    <3> QED BY <3>1
  <2> QED BY <1>1, <2>1, ReturnFrame, IdleFrame, OneFrame
<1>2. CASE frame[s].for = "create" /\ ok /\ Goto(s, "add")
  <2>1. Named(frame'[s])
    BY <1>2, GotoFrame DEF Named, Makes, Completes, Making, Cleaning, AtMerge
  <2> QED BY <1>2, <2>1, GotoFrame, OneFrame
<1>3. CASE frame[s].for = "failed" /\ Goto(s, "release")
  <2>1. Named(frame'[s])
    BY <1>3, GotoFrame DEF Named, Makes, Completes, Making, Cleaning, AtMerge
  <2> QED BY <1>3, <2>1, GotoFrame, OneFrame
<1>4. CASE frame[s].for = "sweep" /\ Goto(s, "sweep")
  <2>1. Named(frame'[s])
    BY <1>4, GotoFrame DEF Named, Makes, Completes, Making, Cleaning, AtMerge
  <2> QED BY <1>4, <2>1, GotoFrame, OneFrame
<1> QED BY <1>1, <1>2, <1>3, <1>4 DEF After, Cleaner

-----------------------------------------------------------------------------

LEMMA CreateTypes ==
  ASSUME TypeInv, NEW s \in Session,
         Create(s) \/ Add(s) \/ AddOld(s) \/ RecordTree(s)
  PROVE  TypeInv'
<1> frame \in [Session -> Frame] /\ frame[s] \in Frame /\ Named(frame[s])
  BY DEF TypeInv, Frames
<1> Frames /\ {"add", "remove", "add_old", "record"} \subseteq Place
  BY DEF TypeInv, Place, Making, Cleaning
<1>0. /\ frame[s].at \in Making /\ Makes(frame[s]) /\ frame[s].wt \in Ralph
      /\ frame[s].ralph \in Ralph /\ frame[s].task \in Task
  BY DEF Create, Add, AddOld, RecordTree, At, Makes, Named, Making
<1>1. CASE Create(s)
  <2>1. Goto(s, "add") \/ Goto(s, "remove")
    BY <1>1 DEF Create
  <2>2. Frames'
    BY <1>0, <2>1, GotoFrame, OneFrame DEF Named, Makes, Completes, Making, Cleaning, AtMerge
  <2> QED BY <1>1, <2>2 DEF Create, TypeInv, Repository, git
<1>2. CASE Add(s)
  <2> DEFINE b == <<frame[s].ralph, frame[s].task>>
  <2>1. Goto(s, "record") \/ Goto(s, "add_old")
    BY <1>2 DEF Add
  <2>2. Frames'
    BY <1>0, <2>1, GotoFrame, OneFrame DEF Named, Makes, Completes, Making, Cleaning, AtMerge
  <2>3. b \in Branch
    BY <1>0 DEF Branch
  <2>4. /\ tree' \in [Ralph -> Task \cup {NoTask}]
        /\ DOMAIN branch' \subseteq Branch /\ branch' \in [DOMAIN branch' -> SUBSET Commit]
    <3>1. CASE UNCHANGED <<tree, branch>>
      BY <3>1 DEF TypeInv, Repository
    <3>2. CASE /\ tree' = [tree EXCEPT ![frame[s].ralph] = frame[s].task]
               /\ branch' = [c \in DOMAIN branch \cup {b} |-> IF c = b THEN main ELSE branch[c]]
      BY <1>0, <2>3, <3>2 DEF TypeInv, Repository
    <3> QED BY <1>2, <3>1, <3>2 DEF Add
  <2> QED BY <1>2, <2>2, <2>4 DEF Add, TypeInv, Repository
<1>3. CASE AddOld(s)
  <2>1. Goto(s, "record") \/ Return(s)
    BY <1>3 DEF AddOld
  <2>2. Frames'
    <3>1. CASE Return(s)
      BY <3>1, ReturnFrame, IdleFrame, OneFrame
    <3>2. CASE Goto(s, "record")
      BY <1>0, <3>2, GotoFrame, OneFrame DEF Named, Makes, Completes, Making, Cleaning, AtMerge
    <3> QED BY <2>1, <3>1, <3>2
  <2>3. tree' \in [Ralph -> Task \cup {NoTask}]
    BY <1>0, <1>3 DEF AddOld, TypeInv, Repository
  <2> QED BY <1>3, <2>2, <2>3 DEF AddOld, TypeInv, Repository
<1>4. CASE RecordTree(s)
  <2>1. Frames'
    BY <1>4, ReturnFrame, IdleFrame, OneFrame DEF RecordTree
  <2>2. row' \in [Task -> Claims]
    BY <1>0, <1>4 DEF RecordTree, TypeInv, Claims
  <2> QED BY <1>4, <2>1, <2>2 DEF RecordTree, TypeInv, Repository, git
<1> QED BY <1>1, <1>2, <1>3, <1>4

LEMMA CleanTypes ==
  ASSUME TypeInv, NEW s \in Session, Status(s) \/ Remove(s) \/ Drop(s)
  PROVE  TypeInv'
<1> frame \in [Session -> Frame] /\ frame[s] \in Frame /\ Named(frame[s])
  BY DEF TypeInv, Frames
<1> Frames
  BY DEF TypeInv
<1>0. frame[s].at \in Cleaning /\ frame[s].wt \in Ralph
  BY DEF Status, Remove, Drop, At, Named, Cleaning
<1>1. CASE Status(s)
  <2>1. CASE After(s, FALSE)
    BY <1>0, <1>1, <2>1, AfterFrame DEF Status, TypeInv, Repository, git
  <2>2. CASE Goto(s, "remove")
    <3> "remove" \in Place
      BY DEF Place, Cleaning
    <3>1. Frames'
      BY <1>0, <2>2, GotoFrame, OneFrame DEF Named, Makes, Completes, Making, Cleaning, AtMerge
    <3> QED BY <1>1, <3>1 DEF Status, TypeInv, Repository, git
  <2> QED BY <1>1, <2>1, <2>2 DEF Status
<1>2. CASE Remove(s)
  <2> DEFINE w == frame[s].wt
  <2>1. CASE (After(s, TRUE) \/ After(s, FALSE)) /\ UNCHANGED <<tree, dirty>>
    BY <1>0, <1>2, <2>1, AfterFrame DEF Remove, TypeInv, Repository
  <2>2. CASE /\ tree[w] # NoTask /\ tree' = [tree EXCEPT ![w] = NoTask] /\ dirty' = dirty \ {w}
             /\ frame' = [frame EXCEPT ![s].at = "drop", ![s].drop = tree[w]]
    <3> DEFINE f == [frame[s] EXCEPT !.at = "drop"]
    <3>1. tree[w] \in Task
      BY <1>0, <2>2 DEF TypeInv, Repository
    <3>2. f \in Frame /\ f.wt = w /\ f.at = "drop" /\ f.for = frame[s].for
          /\ f.ralph = frame[s].ralph /\ f.task = frame[s].task
      BY DEF Frame, Place, Cleaning
    <3>3. frame' = [frame EXCEPT ![s] = [f EXCEPT !.drop = tree[w]]]
      BY <2>2 DEF Frame
    <3> HIDE DEF f
    <3> DEFINE g == [f EXCEPT !.drop = tree[w]]
    <3>4. g \in Frame /\ g.wt = w /\ g.at = "drop" /\ g.for = frame[s].for /\ g.drop \in Task
          /\ g.ralph = frame[s].ralph /\ g.task = frame[s].task
      BY <3>1, <3>2 DEF Frame
    <3> HIDE DEF g
    <3>5. Named(g)
      BY <1>0, <3>4 DEF Named, Makes, Completes, Making, Cleaning, AtMerge
    <3>6. Frames'
      BY <3>3, <3>4, <3>5, OneFrame DEF g
    <3>7. tree' \in [Ralph -> Task \cup {NoTask}] /\ dirty' \subseteq Ralph
      BY <2>2 DEF TypeInv, Repository
    <3> QED BY <1>2, <3>6, <3>7 DEF Remove, TypeInv, Repository
  <2> QED BY <1>2, <2>1, <2>2 DEF Remove
<1>3. CASE Drop(s)
  <2> DEFINE kept == {c \in DOMAIN branch :
                c = <<frame[s].wt, frame[s].drop>> => tree[frame[s].wt] = frame[s].drop}
  <2>1. branch' = [b \in kept |-> branch[b]] /\ kept \subseteq DOMAIN branch
    BY <1>3 DEF Drop
  <2>2. DOMAIN branch' \subseteq Branch /\ branch' \in [DOMAIN branch' -> SUBSET Commit]
    BY <2>1 DEF TypeInv, Repository
  <2>3. Frames'
    BY <1>0, <1>3, AfterFrame DEF Drop
  <2> QED BY <1>3, <2>2, <2>3 DEF Drop, TypeInv, Repository
<1> QED BY <1>1, <1>2, <1>3

LEMMA ClaimTypes ==
  ASSUME TypeInv, NEW s \in Session, NEW r \in Ralph, NEW t \in Task,
         Claim(s, r, t) \/ Complete(s, r, t)
  PROVE  TypeInv'
<1> frame \in [Session -> Frame] /\ frame[s] \in Frame /\ Named(frame[s]) /\ Frames
  BY DEF TypeInv, Frames
<1>1. CASE Claim(s, r, t)
  <2>1. row' \in [Task -> Claims]
    BY <1>1 DEF Claim, TypeInv, Claims
  <2>2. Frames'
    <3>1. CASE UNCHANGED frame
      BY <3>1 DEF Frames
    <3>2. CASE frame' = [frame EXCEPT ![s] = [Idle EXCEPT
                 !.at = "create", !.ralph = r, !.task = t, !.wt = r]]
      <4> DEFINE f == [Idle EXCEPT !.at = "create", !.ralph = r, !.task = t, !.wt = r]
      <4>1. f \in Frame /\ f.at = "create" /\ f.ralph = r /\ f.task = t /\ f.wt = r /\ f.for = "create"
        BY DEF Idle, Frame, Place, Making, Cleaner
      <4> HIDE DEF f
      <4>2. Named(f)
        BY <4>1 DEF Named, Makes, Completes, Making, Cleaning, AtMerge
      <4> QED BY <3>2, <4>1, <4>2, OneFrame DEF f
    <3> QED BY <1>1, <3>1, <3>2 DEF Claim
  <2> QED BY <1>1, <2>1, <2>2 DEF Claim, TypeInv, Repository, git
<1>2. CASE Complete(s, r, t)
  <2>1. row' \in [Task -> Claims]
    BY <1>2 DEF Complete, TypeInv, Claims
  <2> DEFINE f == [Idle EXCEPT !.at = "read", !.ralph = r, !.task = t]
  <2>2. f \in Frame /\ f.at = "read" /\ f.ralph = r /\ f.task = t
    BY DEF Idle, Frame, Place, Cleaner
  <2>3. frame' = [frame EXCEPT ![s] = f]
    BY <1>2 DEF Complete
  <2> HIDE DEF f
  <2>4. Named(f)
    BY <2>2 DEF Named, Makes, Completes, Making, Cleaning, AtMerge
  <2>5. Frames'
    BY <2>2, <2>3, <2>4, OneFrame
  <2> QED BY <1>2, <2>1, <2>5 DEF Complete, TypeInv, Repository, git
<1> QED BY <1>1, <1>2

LEMMA ContentType == \A c \in SUBSET Commit : Content(c) \subseteq Work
BY DEF Content, Commit

LEMMA NewCommitType ==
  ASSUME count \in Nat, NEW w \in SUBSET Work
  PROVE  NewCommit(w) \in Commit
BY DEF NewCommit, Commit

\* Where a session stands after a step of attempt_merge.
LEMMA MergeMove ==
  ASSUME Frames, NEW s \in Session, frame[s].at \in AtMerge, NEW place \in AtMerge, Goto(s, place)
  PROVE  Frames'
<1> frame \in [Session -> Frame] /\ frame[s] \in Frame /\ Named(frame[s]) /\ place \in Place
  BY DEF Frames, Place
<1>1. /\ frame[s].wt \in Ralph /\ frame[s].ralph \in Ralph /\ frame[s].task \in Task
  BY DEF Named, Completes
<1>2. Named(frame'[s])
  BY <1>1, GotoFrame DEF Named, Makes, Completes, Making, Cleaning, AtMerge
<1> QED BY <1>2, GotoFrame, OneFrame

LEMMA ReadTypes ==
  ASSUME TypeInv, NEW s \in Session, ReadRow(s)
  PROVE  TypeInv'
<1> frame \in [Session -> Frame] /\ frame[s] \in Frame /\ Named(frame[s]) /\ Frames
  BY DEF TypeInv, Frames
<1> DEFINE t == frame[s].task
           w == row[t].wt
           b == <<w, t>>
           theirs == IF b \in DOMAIN branch THEN Content(branch[b]) ELSE {}
<1>1. t \in Task /\ frame[s].ralph \in Ralph
  BY DEF ReadRow, At, Named, Completes
<1>2. Frames'
  <2>1. CASE Return(s)
    BY <2>1, ReturnFrame, IdleFrame, OneFrame
  <2>2. CASE /\ w # NoRalph
             /\ frame' = [frame EXCEPT ![s].at = "checkout", ![s].wt = w, ![s].owed = theirs]
    <3>1. w \in Ralph
      BY <1>1, <2>2 DEF TypeInv, Claims
    <3>2. theirs \in SUBSET Work
      BY ContentType DEF TypeInv, Repository
    <3> DEFINE f == [frame[s] EXCEPT !.at = "checkout"]
    <3>3. f \in Frame /\ f.at = "checkout" /\ f.ralph = frame[s].ralph /\ f.task = t
      BY DEF Frame, Place, AtMerge
    <3>4. frame' = [frame EXCEPT ![s] = [[f EXCEPT !.wt = w] EXCEPT !.owed = theirs]]
      BY <2>2 DEF Frame
    <3> HIDE DEF f
    <3> DEFINE g == [f EXCEPT !.wt = w]
    <3>5. g \in Frame /\ g.at = "checkout" /\ g.ralph = frame[s].ralph /\ g.task = t /\ g.wt = w
      BY <3>1, <3>3 DEF Frame
    <3>6. frame' = [frame EXCEPT ![s] = [g EXCEPT !.owed = theirs]]
      BY <3>4
    <3> HIDE DEF g, theirs
    <3> DEFINE h == [g EXCEPT !.owed = theirs]
    <3>7. h \in Frame /\ h.at = "checkout" /\ h.ralph = frame[s].ralph /\ h.task = t /\ h.wt = w
      BY <3>2, <3>5 DEF Frame
    <3> HIDE DEF h
    <3>8. Named(h)
      BY <1>1, <3>1, <3>7 DEF Named, Makes, Completes, Making, Cleaning, AtMerge
    <3> QED BY <3>6, <3>7, <3>8, OneFrame DEF h
  <2> QED BY <2>1, <2>2 DEF ReadRow
<1> QED BY <1>2 DEF ReadRow, TypeInv, Repository, git

Indices == [kind : Kind, of : SUBSET Commit]

LEMMA IndexTypes ==
  /\ CleanIndex \in Indices
  /\ \A kind \in Kind, of \in SUBSET Commit : Index(kind, of) \in Indices
  /\ \A of \in SUBSET Commit : Staged(of) \in Indices
BY DEF CleanIndex, Index, Staged, Indices, Kind

LEMMA AdvanceTypes ==
  ASSUME TypeInv, NEW s \in Session, frame[s].at \in AtMerge,
         NEW commits \in SUBSET Commit, NEW new \in SUBSET Commit,
         new = {} \/ \E c : new = {c}, Advance(s, commits, new)
  PROVE  main' \subseteq Commit /\ count' \in Nat /\ Frames'
<1>1. Cardinality(new) \in Nat
  <2>1. CASE new = {}
    BY <2>1, FS_EmptySet
  <2>2. CASE \E c : new = {c}
    BY <2>2, FS_Singleton
  <2> QED BY <2>1, <2>2
<1>2. Frames'
  BY MergeMove DEF Advance, TypeInv, AtMerge
<1> QED BY <1>1, <1>2 DEF Advance, TypeInv, Repository

LEMMA FirstTryTypes == \A strategy \in {"auto", "fast-forward", "regular", "squash"} :
                         FirstTry(strategy) \in AtMerge
BY DEF FirstTry, AtMerge

LEMMA MergeTypes ==
  ASSUME TypeInv, NEW s \in Session,
         \/ Checkout(s) \/ Pull(s) \/ FastForward(s) \/ MergeCommit(s) \/ Squash(s)
         \/ SquashCommit(s) \/ Abort(s) \/ ResetHead(s)
  PROVE  TypeInv'
<1> frame \in [Session -> Frame] /\ frame[s] \in Frame /\ Named(frame[s]) /\ Frames
  BY DEF TypeInv, Frames
<1>0. frame[s].at \in AtMerge /\ frame[s].wt \in Ralph /\ frame[s].task \in Task
  BY DEF Checkout, Pull, FastForward, MergeCommit, Squash, SquashCommit, Abort, ResetHead, At,
         AtMerge, Named, Completes
<1> DEFINE b == Merged(s)
<1>a. index \in Indices /\ index.of \subseteq Commit /\ main \subseteq Commit /\ count \in Nat
      /\ litter \in BOOLEAN
  BY DEF TypeInv, Repository, Indices
<1>b. b \in DOMAIN branch => branch[b] \subseteq Commit
  BY DEF TypeInv, Repository
<1>c. Strategy[frame[s].wt] \in {"auto", "fast-forward", "regular", "squash"}
  BY <1>0, AutoMergeAssumption
<1>d. {"failed", "pull", "succeeded", "noff", "detect", "commit", "reset"} \subseteq AtMerge
  BY DEF AtMerge
<1>1. CASE Checkout(s)
  <2>1. index' \in Indices
    BY <1>1, <1>a, IndexTypes DEF Checkout
  <2>2. Frames'
    BY <1>0, <1>1, <1>d, MergeMove DEF Checkout
  <2> QED BY <1>1, <2>1, <2>2 DEF Checkout, TypeInv, Repository, Indices
<1>2. CASE Pull(s)
  <2>1. Frames'
    BY <1>0, <1>2, <1>c, FirstTryTypes, MergeMove DEF Pull
  <2>2. NewCommit({<<Origin, count + 1>>}) \in Commit
    BY <1>a, NewCommitType DEF Work, Author
  <2>3. main' \subseteq Commit /\ count' \in Nat
    <3>1. \/ UNCHANGED <<main, count>>
          \/ main' = main \cup {NewCommit({<<Origin, count + 1>>})} /\ count' = count + 1
      BY <1>2 DEF Pull
    <3> DEFINE new == NewCommit({<<Origin, count + 1>>})
    <3>2. new \in Commit
      BY <2>2
    <3> HIDE DEF new
    <3>3. CASE UNCHANGED <<main, count>>
      BY <1>a, <3>3
    <3>4. CASE main' = main \cup {new} /\ count' = count + 1
      BY <1>a, <3>2, <3>4
    <3> QED BY <3>1, <3>3, <3>4 DEF new
  <2> QED BY <1>2, <2>1, <2>3 DEF Pull, TypeInv, Repository
<1>3. CASE FastForward(s)
  <2>1. main' \subseteq Commit /\ count' \in Nat /\ Frames'
    <3>1. CASE Goto(s, "succeeded") /\ UNCHANGED <<main, count>>
      BY <1>0, <1>a, <1>d, <3>1, MergeMove
    <3>2. CASE Straight(b) /\ Advance(s, branch[b], {})
      BY <1>0, <1>b, <3>2, AdvanceTypes DEF Straight, Ahead, Mergeable
    <3>3. CASE Goto(s, IF Strategy[frame[s].wt] = "auto" THEN "noff" ELSE "failed")
               /\ UNCHANGED <<main, count>>
      BY <1>0, <1>a, <1>d, <3>3, MergeMove
    <3> QED BY <1>3, <3>1, <3>2, <3>3 DEF FastForward
  <2> QED BY <1>3, <2>1 DEF FastForward, TypeInv, Repository
<1>4. CASE MergeCommit(s)
  <2>1. index' \in Indices /\ main' \subseteq Commit /\ count' \in Nat /\ Frames'
    <3>1. CASE Goto(s, "succeeded") /\ UNCHANGED <<main, index, count>>
      BY <1>0, <1>a, <1>d, <3>1, MergeMove
    <3>2. CASE Ahead(b) /\ Advance(s, main \cup branch[b], {NewCommit({})}) /\ UNCHANGED index
      <4>1. NewCommit({}) \in Commit
        BY <1>a, NewCommitType
      <4>2. main \cup branch[b] \in SUBSET Commit
        BY <1>a, <1>b, <3>2 DEF Ahead, Mergeable
      <4>3. {NewCommit({})} \in SUBSET Commit
        BY <4>1
      <4> QED BY <1>0, <1>a, <3>2, <4>2, <4>3, AdvanceTypes
    <3>3. CASE /\ Ahead(b) /\ UNCHANGED <<main, count>> /\ Goto(s, "detect")
               /\ index' = Index("merging", branch[b]) \/ index' = Index("halted", branch[b])
      <4>1. index' \in Indices
        BY <1>b, <3>3, IndexTypes DEF Ahead, Mergeable, Kind
      <4> QED BY <1>0, <1>a, <1>d, <3>3, <4>1, MergeMove
    <3>4. CASE Goto(s, "detect") /\ UNCHANGED <<main, index, count>>
      BY <1>0, <1>a, <1>d, <3>4, MergeMove
    <3> QED BY <1>4, <3>1, <3>2, <3>3, <3>4 DEF MergeCommit
  <2> QED BY <1>4, <2>1 DEF MergeCommit, TypeInv, Repository, Indices
<1>5. CASE Squash(s)
  <2>1. index' \in Indices
    <3>1. CASE Ahead(b)
      <4>1. index.of \cup (branch[b] \ main) \in SUBSET Commit /\ branch[b] \in SUBSET Commit
        BY <1>a, <1>b, <3>1 DEF Ahead, Mergeable
      <4> QED BY <1>5, <1>a, <4>1, IndexTypes DEF Squash, Kind
    <3>2. CASE ~ Ahead(b)
      BY <1>5, <1>a, <3>2 DEF Squash
    <3> QED BY <3>1, <3>2
  <2>2. Frames'
    BY <1>0, <1>5, <1>d, MergeMove DEF Squash
  <2> QED BY <1>5, <2>1, <2>2 DEF Squash, TypeInv, Repository, Indices
<1>6. CASE SquashCommit(s)
  <2>1. index' \in Indices /\ main' \subseteq Commit /\ count' \in Nat /\ Frames'
    <3>1. CASE /\ Advance(s, main \cup IF index.kind = "halted" THEN index.of ELSE {},
                          {NewCommit(Content(index.of))})
               /\ index' = CleanIndex
      <4>1. NewCommit(Content(index.of)) \in Commit
        BY <1>a, ContentType, NewCommitType
      <4>2. main \cup (IF index.kind = "halted" THEN index.of ELSE {}) \in SUBSET Commit
        BY <1>a
      <4> QED BY <1>0, <3>1, <4>1, <4>2, AdvanceTypes, IndexTypes
    <3>2. CASE (Goto(s, "succeeded") \/ Goto(s, "reset")) /\ UNCHANGED <<main, index, count>>
      BY <1>0, <1>a, <1>d, <3>2, MergeMove
    <3> QED BY <1>6, <3>1, <3>2 DEF SquashCommit
  <2> QED BY <1>6, <2>1 DEF SquashCommit, TypeInv, Repository, Indices
<1>7. CASE Abort(s) \/ ResetHead(s)
  <2>1. index' \in Indices /\ litter' \in BOOLEAN
    BY <1>7, <1>a, IndexTypes DEF Abort, ResetHead
  <2>2. Frames'
    BY <1>0, <1>7, <1>d, MergeMove DEF Abort, ResetHead
  <2>3. UNCHANGED <<row, alive, tree, dirty, branch, main, count>>
    BY <1>7 DEF Abort, ResetHead
  <2> QED BY <2>1, <2>2, <2>3 DEF TypeInv, Repository, Indices
<1> QED BY <1>1, <1>2, <1>3, <1>4, <1>5, <1>6, <1>7

LEMMA OutcomeTypes ==
  ASSUME TypeInv, NEW s \in Session,
         DetectConflicts(s) \/ Succeeded(s) \/ Failed(s) \/ ReleaseFailed(s)
  PROVE  TypeInv'
<1> frame \in [Session -> Frame] /\ frame[s] \in Frame /\ Named(frame[s]) /\ Frames
  BY DEF TypeInv, Frames
<1>1. CASE DetectConflicts(s)
  <2> DEFINE place == IF Unresolved THEN IF Strategy[frame[s].wt] = "squash" THEN "reset" ELSE "abort"
                      ELSE "failed"
             f == [frame[s] EXCEPT !.at = place]
  <2>1. /\ frame[s].at = "detect" /\ frame[s].wt \in Ralph /\ frame[s].ralph \in Ralph
        /\ frame[s].task \in Task
    BY <1>1 DEF DetectConflicts, At, Named, Completes, AtMerge
  <2>2. place \in AtMerge /\ place \in Place /\ Unresolved \in BOOLEAN
    BY DEF AtMerge, Place, Unresolved
  <2>3. f \in Frame /\ f.at = place /\ f.wt = frame[s].wt /\ f.ralph = frame[s].ralph
        /\ f.task = frame[s].task
    BY <2>2 DEF Frame
  <2>4. frame' = [frame EXCEPT ![s] = [f EXCEPT !.conflict = Unresolved]]
    BY <1>1 DEF DetectConflicts, Frame
  <2> HIDE DEF f, place
  <2> DEFINE g == [f EXCEPT !.conflict = Unresolved]
  <2>5. g \in Frame /\ g.at = place /\ g.wt = frame[s].wt /\ g.ralph = frame[s].ralph
        /\ g.task = frame[s].task
    BY <2>2, <2>3 DEF Frame
  <2> HIDE DEF g
  <2>6. Named(g)
    BY <2>1, <2>2, <2>5 DEF Named, Makes, Completes, Making, Cleaning, AtMerge
  <2>7. Frames'
    BY <2>4, <2>5, <2>6, OneFrame DEF g
  <2> QED BY <1>1, <2>7 DEF DetectConflicts, TypeInv, Repository, git
<1>2. CASE Succeeded(s) \/ Failed(s)
  <2>1. frame[s].wt \in Ralph /\ frame[s].ralph \in Ralph /\ frame[s].task \in Task
    BY <1>2 DEF Succeeded, Failed, At, Named, Completes, AtMerge
  <2>2. {"merged", "failed"} \subseteq Cleaner
    BY DEF Cleaner
  <2>3. Clean(s, "merged") \/ Clean(s, "failed")
    BY <1>2 DEF Succeeded, Failed
  <2>4. Frames'
    BY <2>1, <2>2, <2>3, CleanFrame, OneFrame DEF Named, Makes, Completes, Making, Cleaning, AtMerge
  <2> QED BY <1>2, <2>4 DEF Succeeded, Failed, TypeInv, Repository, git
<1>3. CASE ReleaseFailed(s)
  <2>1. row' \in [Task -> Claims]
    BY <1>3 DEF ReleaseFailed, Relinquished, TypeInv, Claims
  <2>2. Frames'
    BY <1>3, ReturnFrame, IdleFrame, OneFrame DEF ReleaseFailed
  <2> QED BY <1>3, <2>1, <2>2 DEF ReleaseFailed, TypeInv, Repository, git
<1> QED BY <1>1, <1>2, <1>3

\* The frame of a sweep names no task.
LEMMA SweepFrame ==
  ASSUME Frames, NEW s \in Session, NEW place \in Sweeping, NEW todo \in SUBSET Ralph,
         frame' = [frame EXCEPT ![s].at = place, ![s].todo = todo]
  PROVE  Frames' /\ frame'[s].at = place /\ \A x \in Session : x # s => frame'[x] = frame[x]
<1> DEFINE f == [frame[s] EXCEPT !.at = place]
<1>1. frame \in [Session -> Frame] /\ frame[s] \in Frame /\ place \in Place
  BY DEF Frames, Place
<1>2. f \in Frame /\ f.at = place
  BY <1>1 DEF Frame
<1>3. frame' = [frame EXCEPT ![s] = [f EXCEPT !.todo = todo]]
  BY <1>1 DEF Frame
<1> HIDE DEF f
<1> DEFINE g == [f EXCEPT !.todo = todo]
<1>4. g \in Frame /\ g.at = place
  BY <1>2 DEF Frame
<1> HIDE DEF g
<1>5. Named(g)
  BY <1>4 DEF Named, Makes, Completes, Making, Cleaning, AtMerge, Sweeping
<1>6. frame' = [frame EXCEPT ![s] = g]
  BY <1>3 DEF g
<1>7. /\ frame' \in [Session -> Frame] /\ frame'[s] = g
      /\ \A x \in Session : x # s => frame'[x] = frame[x]
  BY <1>1, <1>4, <1>6
<1>8. Frames'
  BY <1>5, <1>7, OneFrame
<1> QED BY <1>4, <1>7, <1>8

LEMMA SweepTypes ==
  ASSUME TypeInv, NEW s \in Session,
         \/ SweepList(s) \/ SweepDirs(s) \/ SweepNext(s)
         \/ \E r \in Ralph : MarkCrashed(s, r)
  PROVE  TypeInv'
<1> frame \in [Session -> Frame] /\ frame[s] \in Frame /\ Named(frame[s]) /\ Frames
  BY DEF TypeInv, Frames
<1> {"list", "dirs", "sweep"} \subseteq Sweeping /\ {"list", "dirs", "sweep"} \subseteq Place
  BY DEF Sweeping, Place
<1>1. CASE SweepList(s)
  <2> DEFINE dead == Ralph \ alive
  <2>1. dead \in SUBSET Ralph
    OBVIOUS
  <2>2. frame' = [frame EXCEPT ![s].at = "dirs", ![s].todo = dead]
    BY <1>1 DEF SweepList
  <2> HIDE DEF dead
  <2>3. Frames'
    BY <2>1, <2>2, SweepFrame
  <2> QED BY <1>1, <2>3 DEF SweepList, TypeInv, Repository, git
<1>2. CASE SweepDirs(s)
  <2> DEFINE left == {r \in frame[s].todo : tree[r] # NoTask}
  <2>1. left \in SUBSET Ralph
    BY DEF Frame
  <2>2. frame' = [frame EXCEPT ![s].at = "sweep", ![s].todo = left]
    BY <1>2 DEF SweepDirs, Frame
  <2> HIDE DEF left
  <2>3. Frames'
    BY <2>1, <2>2, SweepFrame
  <2> QED BY <1>2, <2>3 DEF SweepDirs, TypeInv, Repository, git
<1>3. CASE SweepNext(s)
  <2>1. CASE Return(s)
    BY <1>3, <2>1, ReturnFrame, IdleFrame, OneFrame DEF SweepNext, TypeInv, Repository, git
  <2>2. ASSUME NEW r \in frame[s].todo,
               frame' = [frame EXCEPT ![s] = [Idle EXCEPT !.at = "remove", !.wt = r,
                                    !.for = "sweep", !.todo = frame[s].todo \ {r}]]
        PROVE  TypeInv'
    <3> DEFINE f == [Idle EXCEPT !.at = "remove", !.wt = r, !.for = "sweep",
                                 !.todo = frame[s].todo \ {r}]
    <3>1. r \in Ralph /\ frame[s].todo \ {r} \subseteq Ralph
      BY DEF Frame
    <3>2. f \in Frame /\ f.at = "remove" /\ f.wt = r /\ f.for = "sweep"
      BY <3>1 DEF Idle, Frame, Place, Cleaning, Cleaner
    <3>3. frame' = [frame EXCEPT ![s] = f]
      BY <2>2
    <3> HIDE DEF f
    <3>4. Named(f)
      BY <3>1, <3>2 DEF Named, Makes, Completes, Making, Cleaning, AtMerge
    <3>5. Frames'
      BY <3>2, <3>3, <3>4, OneFrame
    <3> QED BY <1>3, <3>5 DEF SweepNext, TypeInv, Repository, git
  <2> QED BY <1>3, <2>1, <2>2 DEF SweepNext
<1>4. ASSUME NEW r \in Ralph, MarkCrashed(s, r) PROVE TypeInv'
  <2>0. Goto(s, "list") /\ "list" \in Place
    BY <1>4 DEF MarkCrashed
  <2>a. /\ frame' \in [Session -> Frame] /\ frame'[s].at = "list"
        /\ \A x \in Session : x # s => frame'[x] = frame[x]
    BY <2>0, GotoFrame
  <2>b. Named(frame'[s])
    BY <2>a DEF Named, Makes, Completes, Making, Cleaning, AtMerge
  <2>1. Frames'
    BY <2>a, <2>b, OneFrame
  <2>2. row' \in [Task -> Claims]
    BY <1>4 DEF MarkCrashed, Relinquished, TypeInv, Claims
  <2> QED BY <1>4, <2>1, <2>2 DEF MarkCrashed, TypeInv, Repository, git
<1> QED BY <1>1, <1>2, <1>3, <1>4

LEMMA StopTypes ==
  ASSUME TypeInv, NEW s \in Session, TimesOut(s) \/ Killed(s)
  PROVE  TypeInv'
<1> frame \in [Session -> Frame] /\ frame[s] \in Frame /\ Named(frame[s]) /\ Frames
  BY DEF TypeInv, Frames
<1>1. Frames'
  <2>1. CASE Return(s)
    BY <2>1, ReturnFrame, IdleFrame, OneFrame
  <2>2. CASE frame[s].at \in Merging \cup {"detect"} /\ Goto(s, "failed")
    <3>1. frame[s].at \in AtMerge /\ "failed" \in AtMerge
      BY <2>2 DEF Merging, AtMerge
    <3> QED BY <2>2, <3>1, MergeMove
  <2>3. CASE frame[s].at \in {"status", "remove", "drop"} /\ After(s, FALSE)
    <3>1. frame[s].at \in Cleaning
      BY <2>3 DEF Cleaning
    <3>2. After(s, FALSE)
      BY <2>3
    <3> QED BY <3>1, <3>2, AfterFrame
  <2> QED BY <2>1, <2>2, <2>3 DEF TimesOut, Killed, At
<1>2. UNCHANGED <<row, alive, git>>
  BY DEF TimesOut, Killed
<1> QED BY <1>1, <1>2 DEF TypeInv, Repository, git

LEMMA RegisterTypes ==
  ASSUME TypeInv, NEW r \in Ralph, Register(r)
  PROVE  TypeInv'
BY DEF Register, TypeInv, Repository, Frames, git

LEMMA ReleaseTypes ==
  ASSUME TypeInv, NEW t \in Task, Release(t)
  PROVE  TypeInv'
<1>1. row' \in [Task -> Claims]
  BY DEF Release, Relinquished, TypeInv, Claims
<1> QED BY <1>1 DEF Release, TypeInv, Repository, Frames, git

LEMMA WorkerTypes ==
  ASSUME TypeInv, NEW r \in Ralph, NEW t \in Task, WorkerEdits(r, t) \/ WorkerCommits(r, t)
  PROVE  TypeInv'
<1>1. CASE WorkerEdits(r, t)
  BY <1>1 DEF WorkerEdits, TypeInv, Repository, Frames
<1>2. CASE WorkerCommits(r, t)
  <2> DEFINE b == <<r, t>>
             new == NewCommit({<<t, count + 1>>})
  <2>1. count \in Nat /\ b \in DOMAIN branch /\ branch[b] \subseteq Commit
    BY <1>2 DEF WorkerCommits, TypeInv, Repository
  <2>2. new \in Commit
    BY <2>1, NewCommitType DEF Work, Author
  <2>3. branch' = [branch EXCEPT ![b] = branch[b] \cup {new}] /\ count' = count + 1
        /\ dirty' = dirty \ {r}
    BY <1>2 DEF WorkerCommits
  <2> HIDE DEF new, b
  <2>4. DOMAIN branch' = DOMAIN branch /\ branch' \in [DOMAIN branch' -> SUBSET Commit]
    BY <2>1, <2>2, <2>3 DEF TypeInv, Repository
  <2>5. UNCHANGED <<row, alive, tree, main, index, litter, frame>>
    BY <1>2 DEF WorkerCommits
  <2> QED BY <2>1, <2>3, <2>4, <2>5 DEF TypeInv, Repository, Frames
<1> QED BY <1>1, <1>2

LEMMA NextTypes == TypeInv /\ [Next]_vars => TypeInv'
<1> SUFFICES ASSUME TypeInv, [Next]_vars PROVE TypeInv'
  OBVIOUS
<1>1. ASSUME NEW s \in Session, Step(s) PROVE TypeInv'
  BY <1>1, CreateTypes, CleanTypes, ReadTypes, MergeTypes, OutcomeTypes, SweepTypes, StopTypes
     DEF Step
<1>2. ASSUME NEW s \in Session, NEW r \in Ralph, MarkCrashed(s, r) PROVE TypeInv'
  BY <1>2, SweepTypes
<1>3. ASSUME NEW s \in Session, NEW r \in Ralph, NEW t \in Task,
             Claim(s, r, t) \/ Complete(s, r, t)
      PROVE  TypeInv'
  BY <1>3, ClaimTypes
<1>4. CASE UNCHANGED vars
  BY <1>4 DEF vars, git, TypeInv, Repository, Frames
<1> QED BY <1>1, <1>2, <1>3, <1>4, RegisterTypes, ReleaseTypes, WorkerTypes, NextSteps

LEMMA Typed == Spec => []TypeInv
BY InitTypes, NextTypes, PTL DEF Spec

\* The table, the repository and what each session keeps have their types,
\* whatever the sessions run into.
THEOREM TypeCorrect == Spec => []TypeOK
BY Typed, TypeInvTypes, PTL


-----------------------------------------------------------------------------
(***************************************************************************)
(* Steps.  A call makes or completes for one ralph and one task, and a     *)
(* step of one session leaves the frames of all others alone.              *)
(***************************************************************************)

Same(s) ==
  /\ frame'[s].ralph = frame[s].ralph /\ frame'[s].task = frame[s].task
  /\ frame'[s].wt = frame[s].wt /\ frame'[s].owed = frame[s].owed
Sweeps(f) == f.at \in Sweeping \/ (f.at \in Cleaning /\ f.for = "sweep")

\* Where a step takes a call, and what it keeps.
OnItsWay(s) ==
  \/ frame'[s] = Idle
  \/ Makes(frame[s]) /\ Makes(frame'[s]) /\ frame'[s].at # "status" /\ Same(s)
  \/ /\ frame[s].at = "read" /\ frame'[s].at = "checkout"
     /\ frame'[s].ralph = frame[s].ralph /\ frame'[s].task = frame[s].task
  \/ frame[s].at \in AtMerge /\ frame'[s].at \in AtMerge /\ Same(s)
  \/ frame[s].at = "succeeded" /\ frame'[s].at = "status" /\ frame'[s].for = "merged" /\ Same(s)
  \/ frame[s].at = "failed" /\ frame'[s].at = "remove" /\ frame'[s].for = "failed" /\ Same(s)
  \/ /\ frame[s].at \in Cleaning /\ frame'[s].at \in {"remove", "drop"}
     /\ frame'[s].for = frame[s].for /\ Same(s)
  \/ /\ frame[s].at \in Cleaning /\ frame[s].for = "failed"
     /\ frame'[s].at = "release" /\ Same(s)
  \/ Sweeps(frame[s]) /\ Sweeps(frame'[s])

MovesAlone(s) ==
  /\ frame' \in [Session -> Frame]
  /\ \A x \in Session : x # s => frame'[x] = frame[x]

LEMMA GotoMoves ==
  ASSUME TypeInv, NEW s \in Session, NEW place \in Place, Goto(s, place)
  PROVE  MovesAlone(s) /\ Same(s) /\ frame'[s].at = place /\ frame'[s].for = frame[s].for
         /\ frame'[s].drop = frame[s].drop
BY GotoFrame DEF TypeInv, Frames, MovesAlone, Same

LEMMA ReturnMoves ==
  ASSUME TypeInv, NEW s \in Session, Return(s)
  PROVE  MovesAlone(s) /\ frame'[s] = Idle /\ frame'[s].at = "idle"
<1>1. MovesAlone(s) /\ frame'[s] = Idle
  BY ReturnFrame DEF TypeInv, Frames, MovesAlone
<1> QED BY <1>1 DEF Idle

LEMMA AfterMoves ==
  ASSUME TypeInv, NEW s \in Session, NEW ok \in BOOLEAN, frame[s].at \in Cleaning, After(s, ok)
  PROVE  /\ MovesAlone(s) /\ OnItsWay(s)
         /\ \/ frame'[s] = Idle /\ (frame[s].for = "create" => ~ ok)
            \/ frame[s].for = "create" /\ ok /\ frame'[s].at = "add"
            \/ frame[s].for = "failed" /\ frame'[s].at = "release"
            \/ frame[s].for = "sweep" /\ frame'[s].at = "sweep"
<1> Frames
  BY DEF TypeInv
<1>1. MovesAlone(s)
  BY AfterFrame DEF MovesAlone, Frames
<1>2. \/ frame'[s] = Idle /\ (frame[s].for = "create" => ~ ok)
      \/ frame[s].for = "create" /\ ok /\ frame'[s].at = "add" /\ Same(s)
      \/ frame[s].for = "failed" /\ frame'[s].at = "release" /\ Same(s)
      \/ frame[s].for = "sweep" /\ frame'[s].at = "sweep"
  BY AfterFrame DEF Same
<1> QED BY <1>1, <1>2 DEF OnItsWay, Makes, Making, Sweeps, Sweeping

LEMMA ReadMoves ==
  ASSUME TypeInv, NEW s \in Session, ReadRow(s)
  PROVE  /\ MovesAlone(s) /\ OnItsWay(s)
         /\ frame'[s].at \in {"idle", "checkout"}
         /\ frame'[s].at = "checkout" =>
              LET t == frame[s].task
                  w == row[t].wt
              IN  /\ frame'[s].task = t /\ frame'[s].ralph = frame[s].ralph /\ frame'[s].wt = w
                  /\ frame'[s].owed =
                       IF <<w, t>> \in DOMAIN branch THEN Content(branch[<<w, t>>]) ELSE {}
<1> frame \in [Session -> Frame] /\ frame[s] \in Frame /\ Named(frame[s])
  BY DEF TypeInv, Frames
<1> frame' \in [Session -> Frame]
  BY ReadTypes DEF TypeInv, Frames
<1> DEFINE t == frame[s].task
           w == row[t].wt
           owed == IF <<w, t>> \in DOMAIN branch THEN Content(branch[<<w, t>>]) ELSE {}
           f == [frame[s] EXCEPT !.at = "checkout"]
<1>0. At(s, "read")
  BY DEF ReadRow
<1>1. CASE Return(s)
  BY <1>1, ReturnMoves DEF OnItsWay
<1>2. CASE frame' = [frame EXCEPT ![s].at = "checkout", ![s].wt = w, ![s].owed = owed]
  <2>1. f.at = "checkout" /\ f.ralph = frame[s].ralph /\ f.task = t
    BY DEF Frame
  <2>2. f \in Frame
    BY DEF Frame, Place, AtMerge
  <2>3. frame' = [frame EXCEPT ![s] = [[f EXCEPT !.wt = w] EXCEPT !.owed = owed]]
    BY <1>2 DEF Frame
  <2> HIDE DEF f, w, owed, t
  <2> DEFINE g == [f EXCEPT !.wt = w]
  <2>4. g.at = "checkout" /\ g.ralph = frame[s].ralph /\ g.task = t /\ g.wt = w
        /\ DOMAIN g = DOMAIN f
    BY <2>1, <2>2 DEF Frame
  <2>5. "at" \in DOMAIN g /\ "ralph" \in DOMAIN g /\ "task" \in DOMAIN g /\ "wt" \in DOMAIN g
        /\ "owed" \in DOMAIN g
    BY <2>2, <2>4 DEF Frame
  <2> HIDE DEF g
  <2>6. frame'[s] = [g EXCEPT !.owed = owed] /\ \A x \in Session : x # s => frame'[x] = frame[x]
    BY <2>3 DEF g
  <2>7. /\ frame'[s].at = "checkout" /\ frame'[s].ralph = frame[s].ralph /\ frame'[s].task = t
        /\ frame'[s].wt = w /\ frame'[s].owed = owed
    BY <2>4, <2>5, <2>6
  <2>8. OnItsWay(s)
    BY <1>0, <2>7 DEF OnItsWay, At, t
  <2> QED BY <2>6, <2>7, <2>8 DEF MovesAlone, t, w, owed
<1> QED BY <1>1, <1>2 DEF ReadRow

LEMMA RemoveMoves ==
  ASSUME TypeInv, NEW s \in Session, Remove(s)
  PROVE  /\ MovesAlone(s) /\ OnItsWay(s)
         /\ \/ /\ frame'[s].at # "drop" /\ UNCHANGED <<tree, dirty>>
               /\ \/ After(s, TRUE) /\ tree[frame[s].wt] = NoTask
                  \/ frame[s].for = "merged" /\ frame'[s] = Idle
            \/ /\ frame'[s].at = "drop" /\ frame'[s].drop = tree[frame[s].wt] /\ Same(s)
               /\ frame'[s].for = frame[s].for
               /\ tree' = [tree EXCEPT ![frame[s].wt] = NoTask]
<1> frame \in [Session -> Frame] /\ frame[s] \in Frame /\ Named(frame[s])
  BY DEF TypeInv, Frames
<1> frame' \in [Session -> Frame]
  BY CleanTypes DEF TypeInv, Frames
<1>0. frame[s].at \in Cleaning
  BY DEF Remove, At, Cleaning
<1>1. CASE UNCHANGED <<tree, dirty>> /\ After(s, TRUE) /\ tree[frame[s].wt] = NoTask
  <2>1. frame'[s].at # "drop"
    BY <1>0, <1>1, IdleFields, AfterMoves
  <2> QED BY <1>0, <1>1, <2>1, AfterMoves
<1>2. CASE UNCHANGED <<tree, dirty>> /\ ~ Forced(s) /\ After(s, FALSE)
           /\ tree[frame[s].wt] # NoTask
  <2>1. frame[s].for = "merged"
    BY <1>2 DEF Forced
  <2>2. frame'[s] = Idle /\ MovesAlone(s) /\ OnItsWay(s)
    BY <1>0, <1>2, <2>1, AfterMoves
  <2>3. frame'[s].at # "drop"
    BY <2>2 DEF Idle
  <2> QED BY <1>2, <2>1, <2>2, <2>3
<1>3. CASE /\ tree' = [tree EXCEPT ![frame[s].wt] = NoTask]
           /\ frame' = [frame EXCEPT ![s].at = "drop", ![s].drop = tree[frame[s].wt]]
  <2> DEFINE w == tree[frame[s].wt]
             f == [frame[s] EXCEPT !.at = "drop"]
  <2>1. f.at = "drop" /\ f.ralph = frame[s].ralph /\ f.task = frame[s].task
        /\ f.wt = frame[s].wt /\ f.owed = frame[s].owed /\ f.for = frame[s].for
    BY DEF Frame
  <2>2. f \in Frame
    BY DEF Frame, Place, Cleaning
  <2>3. frame' = [frame EXCEPT ![s] = [f EXCEPT !.drop = w]]
    BY <1>3 DEF Frame
  <2> HIDE DEF f, w
  <2>4. frame'[s] = [f EXCEPT !.drop = w] /\ \A x \in Session : x # s => frame'[x] = frame[x]
    BY <2>3
  <2>5. /\ frame'[s].at = "drop" /\ frame'[s].drop = w /\ frame'[s].for = frame[s].for
        /\ Same(s)
    BY <2>1, <2>2, <2>4 DEF Frame, Same
  <2>6. OnItsWay(s)
    BY <1>0, <2>5 DEF OnItsWay, Cleaning
  <2> QED BY <1>3, <2>4, <2>5, <2>6 DEF MovesAlone, w
<1> QED BY <1>1, <1>2, <1>3 DEF Remove

LEMMA DetectMoves ==
  ASSUME TypeInv, NEW s \in Session, DetectConflicts(s)
  PROVE  /\ MovesAlone(s) /\ Same(s)
         /\ frame'[s].at = IF Unresolved
                           THEN IF Strategy[frame[s].wt] = "squash" THEN "reset" ELSE "abort"
                           ELSE "failed"
<1> frame \in [Session -> Frame] /\ frame[s] \in Frame
  BY DEF TypeInv, Frames
<1> frame' \in [Session -> Frame]
  BY OutcomeTypes DEF TypeInv, Frames
<1> DEFINE place == IF Unresolved
                    THEN IF Strategy[frame[s].wt] = "squash" THEN "reset" ELSE "abort"
                    ELSE "failed"
           f == [frame[s] EXCEPT !.at = place]
<1>1. f.at = place /\ f.ralph = frame[s].ralph /\ f.task = frame[s].task
      /\ f.wt = frame[s].wt /\ f.owed = frame[s].owed
  BY DEF Frame
<1>2. DOMAIN f = DOMAIN frame[s]
  BY DEF Frame
<1>3. frame' = [frame EXCEPT ![s] = [f EXCEPT !.conflict = Unresolved]]
  BY DEF DetectConflicts, Frame
<1> HIDE DEF f, place
<1>4. frame'[s] = [f EXCEPT !.conflict = Unresolved] /\ \A x \in Session : x # s => frame'[x] = frame[x]
  BY <1>3
<1>5. Same(s) /\ frame'[s].at = place
  BY <1>1, <1>2, <1>4 DEF Frame, Same
<1> QED BY <1>4, <1>5 DEF MovesAlone, place

LEMMA SweepMoves ==
  ASSUME TypeInv, NEW s \in Session, SweepList(s) \/ SweepDirs(s) \/ SweepNext(s)
  PROVE  MovesAlone(s) /\ OnItsWay(s)
<1> frame \in [Session -> Frame] /\ frame[s] \in Frame /\ Frames
  BY DEF TypeInv, Frames
<1> frame' \in [Session -> Frame]
  BY SweepTypes DEF TypeInv, Frames
<1>0. Sweeps(frame[s])
  BY DEF SweepList, SweepDirs, SweepNext, At, Sweeps, Sweeping
<1>a. "dirs" \in Sweeping /\ "sweep" \in Sweeping
  BY DEF Sweeping
<1>1. CASE SweepList(s)
  <2> DEFINE dead == Ralph \ alive
  <2>1. dead \in SUBSET Ralph
    OBVIOUS
  <2>2. frame' = [frame EXCEPT ![s].at = "dirs", ![s].todo = dead]
    BY <1>1 DEF SweepList
  <2> HIDE DEF dead
  <2> QED BY <1>0, <1>a, <2>1, <2>2, SweepFrame DEF MovesAlone, OnItsWay, Sweeps
<1>2. CASE SweepDirs(s)
  <2> DEFINE left == {r \in frame[s].todo : tree[r] # NoTask}
  <2>1. left \in SUBSET Ralph
    BY DEF Frame
  <2>2. frame' = [frame EXCEPT ![s].at = "sweep", ![s].todo = left]
    BY <1>2 DEF SweepDirs, Frame
  <2> HIDE DEF left
  <2> QED BY <1>0, <1>a, <2>1, <2>2, SweepFrame DEF MovesAlone, OnItsWay, Sweeps
<1>3. CASE SweepNext(s)
  <2>1. CASE Return(s)
    BY <2>1, ReturnMoves DEF OnItsWay
  <2>2. ASSUME NEW r \in frame[s].todo,
               frame' = [frame EXCEPT ![s] = [Idle EXCEPT !.at = "remove", !.wt = r,
                                    !.for = "sweep", !.todo = frame[s].todo \ {r}]]
        PROVE  MovesAlone(s) /\ OnItsWay(s)
    <3>1. frame'[s].at = "remove" /\ frame'[s].for = "sweep"
          /\ \A x \in Session : x # s => frame'[x] = frame[x]
      BY <2>2 DEF Idle
    <3>2. Sweeps(frame'[s])
      BY <3>1 DEF Sweeps, Cleaning
    <3> QED BY <1>0, <3>1, <3>2 DEF MovesAlone, OnItsWay
  <2> QED BY <1>3, <2>1, <2>2 DEF SweepNext
<1> QED BY <1>1, <1>2, <1>3

LEMMA MergeMoves ==
  ASSUME TypeInv, NEW s \in Session,
         \/ Checkout(s) \/ Pull(s) \/ FastForward(s) \/ MergeCommit(s) \/ Squash(s)
         \/ SquashCommit(s) \/ Abort(s) \/ ResetHead(s)
  PROVE  /\ frame[s].at \in AtMerge /\ Named(frame[s])
         /\ MovesAlone(s) /\ Same(s) /\ frame'[s].at \in AtMerge
         /\ Checkout(s) => frame'[s].at \in {"failed", "pull"}
         /\ Pull(s) => frame'[s].at = FirstTry(Strategy[frame[s].wt])
         /\ FastForward(s) => frame'[s].at \in {"succeeded", "noff", "failed"}
         /\ MergeCommit(s) => frame'[s].at \in {"succeeded", "detect"}
         /\ Squash(s) => frame'[s].at \in {"commit", "detect"}
         /\ SquashCommit(s) => frame'[s].at \in {"succeeded", "reset"}
         /\ Abort(s) \/ ResetHead(s) => frame'[s].at = "failed"
<1>1. frame[s].at \in AtMerge /\ Named(frame[s]) /\ frame[s].wt \in Ralph
  BY DEF Checkout, Pull, FastForward, MergeCommit, Squash, SquashCommit, Abort, ResetHead, At,
         AtMerge, Named, Completes, TypeInv, Frames
<1>2. Strategy[frame[s].wt] \in {"auto", "fast-forward", "regular", "squash"}
  BY <1>1, AutoMergeAssumption
<1>3. /\ {"failed", "pull", "succeeded", "noff", "detect", "commit", "reset"} \subseteq AtMerge
      /\ FirstTry(Strategy[frame[s].wt]) \in AtMerge /\ AtMerge \subseteq Place
  BY <1>2, FirstTryTypes DEF AtMerge, Place
<1>4. ASSUME NEW place \in AtMerge, Goto(s, place)
      PROVE  MovesAlone(s) /\ Same(s) /\ frame'[s].at = place
  BY <1>3, <1>4, GotoMoves
<1>5. Checkout(s) => Goto(s, "failed") \/ Goto(s, "pull")
  BY DEF Checkout
<1>6. Pull(s) => Goto(s, FirstTry(Strategy[frame[s].wt]))
  BY DEF Pull
<1>7. FastForward(s) => Goto(s, "succeeded") \/ Goto(s, "noff") \/ Goto(s, "failed")
  BY DEF FastForward, Advance
<1>8. MergeCommit(s) => Goto(s, "succeeded") \/ Goto(s, "detect")
  BY DEF MergeCommit, Advance
<1>9. Squash(s) => Goto(s, "commit") \/ Goto(s, "detect")
  BY DEF Squash
<1>10. SquashCommit(s) => Goto(s, "succeeded") \/ Goto(s, "reset")
  BY DEF SquashCommit, Advance
<1>11. Abort(s) \/ ResetHead(s) => Goto(s, "failed")
  BY DEF Abort, ResetHead
<1> QED BY <1>1, <1>3, <1>4, <1>5, <1>6, <1>7, <1>8, <1>9, <1>10, <1>11

LEMMA Moved ==
  ASSUME TypeInv, NEW s \in Session, Step(s)
  PROVE  MovesAlone(s) /\ OnItsWay(s)
<1> frame \in [Session -> Frame] /\ frame[s] \in Frame /\ Named(frame[s])
  BY DEF TypeInv, Frames
<1>0. /\ {"add", "remove", "add_old", "record", "status", "failed"} \subseteq Place
      /\ {"add", "add_old", "record"} \subseteq Making /\ {"remove"} \subseteq Cleaning
      /\ "failed" \in AtMerge
  BY DEF Place, Making, Cleaning, AtMerge
<1>1. CASE Create(s) \/ Add(s) \/ AddOld(s) \/ RecordTree(s)
  <2>1. frame[s].at \in Making /\ frame[s].for = "create"
    BY <1>1 DEF Create, Add, AddOld, RecordTree, At, Making, Named
  <2>2. \/ Goto(s, "add") \/ Goto(s, "remove") \/ Goto(s, "record") \/ Goto(s, "add_old")
        \/ Return(s)
    BY <1>1 DEF Create, Add, AddOld, RecordTree
  <2> QED BY <1>0, <2>1, <2>2, GotoMoves, ReturnMoves DEF OnItsWay, Makes
<1>2. CASE Status(s) \/ Drop(s)
  <2>1. frame[s].at \in Cleaning
    BY <1>2 DEF Status, Drop, At, Cleaning
  <2>2. After(s, TRUE) \/ After(s, FALSE) \/ Goto(s, "remove")
    BY <1>2 DEF Status, Drop
  <2> QED BY <1>0, <2>1, <2>2, GotoMoves, AfterMoves DEF OnItsWay
<1>3. CASE Remove(s)
  BY <1>3, RemoveMoves
<1>4. CASE ReadRow(s)
  BY <1>4, ReadMoves
<1>5. CASE \/ Checkout(s) \/ Pull(s) \/ FastForward(s) \/ MergeCommit(s) \/ Squash(s)
           \/ SquashCommit(s) \/ Abort(s) \/ ResetHead(s)
  BY <1>5, MergeMoves DEF OnItsWay
<1>6. CASE DetectConflicts(s)
  <2>1. frame[s].at \in AtMerge /\ {"failed", "reset", "abort"} \subseteq AtMerge
    BY <1>6 DEF DetectConflicts, At, AtMerge
  <2> QED BY <1>6, <2>1, DetectMoves DEF OnItsWay
<1>7. CASE Succeeded(s)
  BY <1>7, CleanFrame DEF Succeeded, At, OnItsWay, MovesAlone, Same, Cleaner
<1>8. CASE Failed(s)
  BY <1>8, CleanFrame DEF Failed, At, OnItsWay, MovesAlone, Same, Cleaner
<1>9. CASE ReleaseFailed(s)
  BY <1>9, ReturnMoves DEF ReleaseFailed, OnItsWay
<1>10. CASE SweepList(s) \/ SweepDirs(s) \/ SweepNext(s)
  BY <1>10, SweepMoves
<1>11. CASE TimesOut(s) \/ Killed(s)
  <2>1. CASE Return(s)
    BY <2>1, ReturnMoves DEF OnItsWay
  <2>2. CASE frame[s].at \in Merging \cup {"detect"} /\ Goto(s, "failed")
    <3>1. frame[s].at \in AtMerge
      BY <2>2 DEF Merging, AtMerge
    <3> QED BY <1>0, <2>2, <3>1, GotoMoves DEF OnItsWay
  <2>3. CASE frame[s].at \in {"status", "remove", "drop"} /\ After(s, FALSE)
    <3>1. frame[s].at \in Cleaning
      BY <2>3 DEF Cleaning
    <3>2. After(s, FALSE)
      BY <2>3
    <3> QED BY <3>1, <3>2, AfterMoves
  <2> QED BY <1>11, <2>1, <2>2, <2>3 DEF TimesOut, Killed, At
<1> QED BY <1>1, <1>2, <1>3, <1>4, <1>5, <1>6, <1>7, <1>8, <1>9, <1>10, <1>11 DEF Step

\* A session makes or completes after a step only if it did before.
LEMMA CallGoesOn ==
  ASSUME TypeInv, NEW s \in Session, Step(s)
  PROVE  /\ Makes(frame'[s]) => Makes(frame[s]) /\ Same(s)
         /\ Completes(frame'[s]) =>
              /\ Completes(frame[s])
              /\ frame'[s].ralph = frame[s].ralph /\ frame'[s].task = frame[s].task
         /\ frame'[s].at \in AtMerge => frame[s].at \in AtMerge \cup {"read"}
BY Moved, IdleFrame
   DEF OnItsWay, Makes, Completes, Making, Cleaning, AtMerge, Sweeping, Sweeps, Same, Idle

\* What a call begins with.
LEMMA MarkMoves ==
  ASSUME TypeInv, NEW s \in Session, NEW r \in Ralph, MarkCrashed(s, r)
  PROVE  /\ MovesAlone(s) /\ frame[s].at = "idle" /\ frame'[s].at = "list" /\ UNCHANGED git
BY GotoMoves DEF MarkCrashed, At, Place, Sweeping

LEMMA ClaimMoves ==
  ASSUME TypeInv, NEW s \in Session, NEW r \in Ralph, NEW t \in Task, Claim(s, r, t)
  PROVE  /\ MovesAlone(s) /\ frame[s].at = "idle" /\ UNCHANGED git
         /\ \/ UNCHANGED frame /\ r \notin UseWorktree /\ frame'[s].at = "idle"
            \/ /\ r \in UseWorktree
               /\ frame'[s].at = "create" /\ frame'[s].ralph = r /\ frame'[s].task = t
               /\ frame'[s].wt = r /\ frame'[s].for = "create"
<1> frame \in [Session -> Frame] /\ frame[s].at = "idle" /\ UNCHANGED git
  BY DEF TypeInv, Frames, Claim, At
<1> frame' \in [Session -> Frame]
  BY ClaimTypes DEF TypeInv, Frames
<1>1. CASE r \notin UseWorktree
  BY <1>1 DEF Claim, MovesAlone
<1>2. CASE r \in UseWorktree
  <2>1. frame' = [frame EXCEPT ![s] = [Idle EXCEPT
                 !.at = "create", !.ralph = r, !.task = t, !.wt = r]]
    BY <1>2 DEF Claim
  <2>2. frame'[s] = [Idle EXCEPT !.at = "create", !.ralph = r, !.task = t, !.wt = r]
    BY <2>1
  <2>3. /\ frame'[s].at = "create" /\ frame'[s].ralph = r /\ frame'[s].task = t
        /\ frame'[s].wt = r /\ frame'[s].for = "create"
    BY <2>2 DEF Idle
  <2> QED BY <1>2, <2>1, <2>3 DEF MovesAlone
<1> QED BY <1>1, <1>2

LEMMA CompleteMoves ==
  ASSUME TypeInv, NEW s \in Session, NEW r \in Ralph, NEW t \in Task, Complete(s, r, t)
  PROVE  /\ MovesAlone(s) /\ frame[s].at = "idle" /\ UNCHANGED git
         /\ frame'[s].at = "read" /\ frame'[s].ralph = r /\ frame'[s].task = t
         /\ frame'[s].wt = NoRalph /\ frame'[s].for = "create"
<1> frame \in [Session -> Frame] /\ frame[s].at = "idle" /\ UNCHANGED git
  BY DEF TypeInv, Frames, Complete, At
<1> frame' \in [Session -> Frame]
  BY ClaimTypes DEF TypeInv, Frames
<1>1. frame' = [frame EXCEPT ![s] = [Idle EXCEPT !.at = "read", !.ralph = r, !.task = t]]
  BY DEF Complete
<1>2. frame'[s] = [Idle EXCEPT !.at = "read", !.ralph = r, !.task = t]
  BY <1>1
<1>3. /\ frame'[s].at = "read" /\ frame'[s].ralph = r /\ frame'[s].task = t
      /\ frame'[s].wt = NoRalph /\ frame'[s].for = "create"
  BY <1>2 DEF Idle
<1> QED BY <1>1, <1>3 DEF MovesAlone

-----------------------------------------------------------------------------
(***************************************************************************)
(* The checkout.                                                           *)
(***************************************************************************)
Squashing == {"squash", "commit", "reset"}

\* The strategy decides which commands a session comes to.
Chosen ==
  \A s \in Session :
    /\ frame[s].at \in Squashing => Strategy[frame[s].wt] = "squash"
    /\ frame[s].at \in {"ff", "noff", "abort"} => Strategy[frame[s].wt] # "squash"

\* Whoever has left something in the index is on the way to clear it.
Attends(s) ==
  \/ /\ index.kind = "merging" /\ frame[s].at \in {"detect", "abort"}
     /\ Strategy[frame[s].wt] # "squash"
  \/ /\ index.kind = "unmerged" /\ frame[s].at \in {"detect", "reset"}
     /\ Strategy[frame[s].wt] = "squash"
  \/ index.kind = "staged" /\ frame[s].at = "commit"
Attended == index # CleanIndex => \E s \in Session : Attends(s)

CheckoutInv == TypeInv /\ Chosen /\ Attended

LEMMA InitCheckout == Init => CheckoutInv
BY InitTypes, IdleFields DEF Init, CheckoutInv, Chosen, Squashing, Attended

LEMMA StepChosen ==
  ASSUME TypeInv, NEW s \in Session, Step(s), Chosen
  PROVE  Chosen'
<1> DEFINE Fits(f) ==
      /\ f.at \in Squashing => Strategy[f.wt] = "squash"
      /\ f.at \in {"ff", "noff", "abort"} => Strategy[f.wt] # "squash"
<1> Named(frame[s]) /\ Fits(frame[s])
  BY DEF TypeInv, Frames, Chosen
<1>1. frame[s].at \in AtMerge =>
        Strategy[frame[s].wt] \in {"auto", "fast-forward", "regular", "squash"}
  BY AutoMergeAssumption DEF Named
<1>2. Fits(frame'[s])
  <2>1. CASE frame[s].at \in AtMerge
    <3>1. CASE Checkout(s) \/ MergeCommit(s) \/ Abort(s) \/ ResetHead(s)
      BY <3>1, MergeMoves DEF Squashing
    <3>2. CASE Pull(s)
      BY <1>1, <2>1, <3>2, MergeMoves DEF Squashing, FirstTry, Same
    <3>3. CASE FastForward(s)
      BY <3>3, MergeMoves DEF Squashing, FastForward, At, Same
    <3>4. CASE Squash(s) \/ SquashCommit(s)
      BY <3>4, MergeMoves DEF Squashing, Squash, SquashCommit, At, Same
    <3>5. CASE DetectConflicts(s)
      BY <3>5, DetectMoves DEF Squashing, Same
    <3>6. CASE Goto(s, "failed") \/ Return(s)
      BY <3>6, GotoMoves, ReturnMoves DEF Squashing, Place, AtMerge
    <3>7. CASE Succeeded(s) \/ Failed(s)
      BY <3>7, CleanFrame DEF Succeeded, Failed, Squashing, Cleaner, TypeInv, Frames
    <3> QED
      BY <2>1, <3>1, <3>2, <3>3, <3>4, <3>5, <3>6, <3>7
         DEF Step, Create, Add, AddOld, RecordTree, Status, Remove, Drop, ReadRow,
             ReleaseFailed, SweepList, SweepDirs, SweepNext, TimesOut, Killed, At, AtMerge
  <2>2. CASE frame[s].at \notin AtMerge
    BY <2>2, Moved, IdleFields
       DEF OnItsWay, Makes, Making, Cleaning, Sweeps, Sweeping, AtMerge, Squashing
  <2> QED BY <2>1, <2>2
<1> HIDE DEF Fits
<1>3. \A x \in Session : Fits(frame'[x])
  BY <1>2, Moved DEF MovesAlone, Fits, Chosen
<1> QED BY <1>3 DEF Fits, Chosen

\* The strategies are constants: other steps take no session to a merge.
LEMMA OthersChosen ==
  ASSUME TypeInv, Chosen, [Next]_vars, \A s \in Session : ~ Step(s)
  PROVE  Chosen'
<1>1. ASSUME NEW s \in Session, MovesAlone(s), frame'[s].at \in {"idle", "list", "create", "read"}
      PROVE  Chosen'
  BY <1>1 DEF Chosen, MovesAlone, Squashing
<1>2. CASE UNCHANGED frame
  BY <1>2 DEF Chosen
<1>3. ASSUME NEW s \in Session, NEW r \in Ralph, MarkCrashed(s, r) PROVE Chosen'
  BY <1>1, <1>3, MarkMoves
<1>4. ASSUME NEW s \in Session, NEW r \in Ralph, NEW t \in Task, Claim(s, r, t) \/ Complete(s, r, t)
      PROVE  Chosen'
  BY <1>1, <1>2, <1>4, ClaimMoves, CompleteMoves
<1> QED
  BY <1>2, <1>3, <1>4, NextSteps DEF Register, Release, WorkerEdits, WorkerCommits, vars

\* The steps that leave the index as it is.
LEMMA IndexKept ==
  ASSUME NEW s \in Session, Step(s),
         frame[s].at \notin {"checkout", "noff", "abort"} \cup Squashing
  PROVE  UNCHANGED index
BY DEF Step, Create, Add, AddOld, RecordTree, Status, Remove, Drop, ReadRow, Checkout, Pull,
       FastForward, MergeCommit, Squash, SquashCommit, DetectConflicts, Abort, ResetHead,
       Succeeded, Failed, ReleaseFailed, SweepList, SweepDirs, SweepNext, TimesOut, Killed,
       At, Squashing, git

LEMMA StepAttended ==
  ASSUME ~ Stops, CheckoutInv, NEW s \in Session, Step(s)
  PROVE  Attended'
<1> TypeInv /\ Named(frame[s]) /\ Chosen /\ Attended
  BY DEF CheckoutInv, TypeInv, Frames
<1>1. \A x \in Session : x # s => frame'[x] = frame[x]
  BY Moved DEF MovesAlone
\* What another session attends to it still does.
<1>2. ASSUME UNCHANGED index, NEW x \in Session, x # s, Attends(x) PROVE Attended'
  BY <1>1, <1>2 DEF Attended, Attends
<1>3. CASE UNCHANGED index /\ ~ Attends(s)
  BY <1>2, <1>3 DEF Attended, CleanIndex
<1>4. CASE index' = CleanIndex
  BY <1>4 DEF Attended, CleanIndex
<1>5. CASE Checkout(s)
  <2>1. UNCHANGED index /\ frame[s].at = "checkout"
    BY <1>5 DEF Checkout, At, Attended, Attends, CleanIndex, Index
  <2> QED BY <1>3, <2>1 DEF Attends
<1>6. CASE MergeCommit(s)
  <2>1. frame[s].at = "noff" /\ Strategy[frame[s].wt] # "squash"
    BY <1>6 DEF MergeCommit, At, Chosen
  <2>2. CASE UNCHANGED index
    BY <1>3, <2>1, <2>2 DEF Attends
  <2>3. CASE index' = Index("merging", branch[Merged(s)]) /\ Goto(s, "detect")
    <3>1. frame'[s].at = "detect" /\ frame'[s].wt = frame[s].wt
      BY <2>3, GotoMoves DEF Place, AtMerge, Same
    <3> QED BY <2>1, <2>3, <3>1 DEF Attended, Attends, Index
  <2> QED BY <1>6, <2>2, <2>3 DEF MergeCommit
<1>7. CASE Squash(s)
  <2>1. frame[s].at = "squash" /\ Strategy[frame[s].wt] = "squash" /\ "squash" \in AtMerge
    BY <1>7 DEF Squash, At, Chosen, Squashing, AtMerge
  <2>2. CASE UNCHANGED index
    BY <1>3, <2>1, <2>2 DEF Attends
  <2>3. ASSUME NEW commits, index' = Staged(commits), Goto(s, "commit") PROVE Attended'
    <3>1. frame'[s].at = "commit"
      BY <2>3, GotoMoves DEF Place, AtMerge
    <3>2. index' = CleanIndex \/ index'.kind = "staged"
      BY <2>3 DEF Staged, Index
    <3> QED BY <1>4, <3>1, <3>2 DEF Attended, Attends
  <2>4. CASE index' = Index("unmerged", branch[Merged(s)]) /\ Goto(s, "detect")
    <3>1. frame'[s].at = "detect" /\ frame'[s].wt = frame[s].wt
      BY <2>4, GotoMoves DEF Place, AtMerge, Same
    <3> QED BY <2>1, <2>4, <3>1 DEF Attended, Attends, Index
  <2> QED BY <1>7, <2>2, <2>3, <2>4 DEF Squash
<1>8. CASE SquashCommit(s)
  <2>1. CASE Attends(s)
    <3>1. index.kind = "staged"
      BY <1>8, <2>1 DEF SquashCommit, At, Attends
    <3>2. index' = CleanIndex
      BY <1>8, <3>1 DEF SquashCommit, NothingToCommit, Unresolved, CleanIndex, Index
    <3> QED BY <1>4, <3>2
  <2>2. CASE ~ Attends(s)
    <3>1. index' = CleanIndex \/ UNCHANGED index
      BY <1>8 DEF SquashCommit
    <3> QED BY <1>3, <1>4, <2>2, <3>1
  <2> QED BY <2>1, <2>2
<1>9. CASE DetectConflicts(s)
  <2>1. UNCHANGED index /\ frame[s].at = "detect"
    BY <1>9 DEF DetectConflicts, At, git
  <2>2. CASE Attends(s)
    <3>1. Unresolved
      BY <2>1, <2>2 DEF Attends, Unresolved
    <3>2. /\ frame'[s].at = IF Strategy[frame[s].wt] = "squash" THEN "reset" ELSE "abort"
          /\ frame'[s].wt = frame[s].wt
      BY <1>9, <3>1, DetectMoves DEF Same
    <3> QED BY <2>1, <2>2, <3>2 DEF Attended, Attends
  <2> QED BY <1>3, <2>1, <2>2
<1>10. CASE Abort(s)
  <2>1. CASE index.kind \in {"merging", "halted"}
    BY <1>4, <1>10, <2>1 DEF Abort
  <2>2. CASE index.kind \notin {"merging", "halted"}
    BY <1>3, <1>10, <2>2 DEF Abort, Attends, At
  <2> QED BY <2>1, <2>2
<1>11. CASE ResetHead(s)
  BY <1>4, <1>11 DEF ResetHead
<1>12. CASE frame[s].at \notin {"checkout", "noff", "detect", "abort"} \cup Squashing
  BY <1>3, <1>12, IndexKept DEF Attends, Squashing
<1> QED
  BY <1>5, <1>6, <1>7, <1>8, <1>9, <1>10, <1>11, <1>12
     DEF Step, Create, Add, AddOld, RecordTree, Status, Remove, Drop, ReadRow, Pull,
         FastForward, Succeeded, Failed, ReleaseFailed, SweepList, SweepDirs, SweepNext,
         TimesOut, Killed, At, Squashing

\* Unless git is stopped, no call returns with the checkout in the middle of a
\* merge, whatever conflicts, whoever squashes and whoever else merges.
THEOREM CheckoutFreed == ASSUME ~ Stops PROVE Spec => []CheckoutAttended
<1>1. CheckoutInv /\ [Next]_vars => CheckoutInv'
  <2> SUFFICES ASSUME CheckoutInv, [Next]_vars PROVE Attended'
    BY NextTypes, StepChosen, OthersChosen DEF CheckoutInv
  <2> TypeInv
    BY DEF CheckoutInv
  <2>1. ASSUME NEW s \in Session, Step(s) PROVE Attended'
    BY <2>1, StepAttended
  <2>2. ASSUME NEW s \in Session, MovesAlone(s), frame[s].at = "idle", UNCHANGED index
        PROVE  Attended'
    BY <2>2 DEF CheckoutInv, Attended, Attends, MovesAlone
  <2>3. CASE UNCHANGED <<index, frame>>
    BY <2>3 DEF CheckoutInv, Attended, Attends
  <2>4. ASSUME NEW s \in Session, NEW r \in Ralph, MarkCrashed(s, r) PROVE Attended'
    BY <2>2, <2>4, MarkMoves DEF git
  <2>5. ASSUME NEW s \in Session, NEW r \in Ralph, NEW t \in Task,
               Claim(s, r, t) \/ Complete(s, r, t)
        PROVE  Attended'
    BY <2>2, <2>3, <2>5, ClaimMoves, CompleteMoves DEF git
  <2> QED
    BY <2>1, <2>3, <2>4, <2>5, NextSteps DEF Register, Release, WorkerEdits, WorkerCommits, vars, git
<1>2. CheckoutInv => CheckoutAttended
  BY DEF CheckoutInv, Attended, Attends, CheckoutAttended
<1> QED BY <1>1, <1>2, InitCheckout, PTL DEF Spec

-----------------------------------------------------------------------------
(***************************************************************************)
(* What a success says.                                                    *)
(***************************************************************************)
CompletedRow ==
  \A s \in Session : Completes(frame[s]) => row[frame[s].task].status = "completed"
OneCompleter ==
  \A s, x \in Session :
    s # x /\ Completes(frame[s]) /\ Completes(frame[x]) => frame[s].task # frame[x].task
MakerHolds == \A s \in Session : Makes(frame[s]) => Holds(frame[s].ralph, frame[s].task)
CallsInv == CompletedRow /\ OneCompleter /\ MakerHolds

LEMMA StepRows ==
  ASSUME NEW s \in Session, Step(s)
  PROVE  \/ UNCHANGED row
         \/ RecordTree(s)
         \/ ReleaseFailed(s)
BY DEF Step, Create, Add, AddOld, Status, Remove, Drop, ReadRow, Checkout, Pull,
       FastForward, MergeCommit, Squash, SquashCommit, DetectConflicts, Abort, ResetHead,
       Succeeded, Failed, SweepList, SweepDirs, SweepNext, TimesOut, Killed

\* No step of a call changes who holds what, but the release of its own task.
LEMMA StepHolds ==
  ASSUME TypeInv, CallsInv, NEW s \in Session, Step(s)
  PROVE  /\ \A t \in Task : \/ row'[t].status = row[t].status /\ row'[t].owner = row[t].owner
                            \/ Completes(frame[s]) /\ t = frame[s].task
         /\ \A t \in Task, r \in Ralph : Holds(r, t)' = Holds(r, t)
<1> row \in [Task -> Claims] /\ Named(frame[s])
  BY DEF TypeInv, Frames
<1>1. CASE UNCHANGED row
  BY <1>1 DEF Holds
<1>2. CASE RecordTree(s)
  BY <1>2 DEF RecordTree, Holds, Claims
<1>3. CASE ReleaseFailed(s)
  <2>1. Completes(frame[s]) /\ frame[s].task \in Task
    BY <1>3 DEF ReleaseFailed, At, Completes, Named
  <2>2. row[frame[s].task].status = "completed"
    BY <2>1 DEF CallsInv, CompletedRow
  <2>3. row' = [row EXCEPT ![frame[s].task] = Relinquished(row[frame[s].task])]
    BY <1>3 DEF ReleaseFailed
  <2>4. row'[frame[s].task].status = "pending"
    BY <2>1, <2>3 DEF Relinquished, Claims
  <2> QED BY <2>1, <2>2, <2>3, <2>4 DEF Holds
<1> QED BY <1>1, <1>2, <1>3, StepRows

LEMMA StepCalls ==
  ASSUME TypeInv, CallsInv, NEW s \in Session, Step(s)
  PROVE  CallsInv'
<1> \A x \in Session : Named(frame[x])
  BY DEF TypeInv, Frames
<1>1. \A x \in Session : x # s => frame'[x] = frame[x]
  BY Moved DEF MovesAlone
<1>2. \A x \in Session : Completes(frame'[x]) => Completes(frame[x]) /\ frame'[x].task = frame[x].task
  BY <1>1, CallGoesOn
<1>3. \A x \in Session : Makes(frame'[x]) => /\ Makes(frame[x])
                                            /\ frame'[x].task = frame[x].task
                                            /\ frame'[x].ralph = frame[x].ralph
  BY <1>1, CallGoesOn DEF Same
<1>4. OneCompleter'
  BY <1>2 DEF OneCompleter, CallsInv
<1>5. MakerHolds'
  BY <1>3, StepHolds DEF MakerHolds, CallsInv, Named
<1>6. CompletedRow'
  <2> SUFFICES ASSUME NEW x \in Session, Completes(frame'[x])
               PROVE  row'[frame'[x].task].status = "completed"
    BY DEF CompletedRow
  <2>1. Completes(frame[x]) /\ frame'[x].task = frame[x].task /\ frame[x].task \in Task
        /\ row[frame[x].task].status = "completed"
    BY <1>2 DEF CallsInv, CompletedRow, Named
  <2>2. CASE x = s
    <3>1. ~ ReleaseFailed(s)
      <4>1. ReleaseFailed(s) => frame'[s] = Idle
        BY ReturnMoves DEF ReleaseFailed
      <4> QED BY <2>2, <4>1, IdleFrame
    <3>2. CASE RecordTree(s)
      BY <2>1, <3>2 DEF RecordTree, TypeInv, Claims
    <3> QED BY <2>1, <3>1, <3>2, StepRows
  <2>3. CASE x # s
    BY <2>1, <2>3, StepHolds DEF CallsInv, OneCompleter
  <2> QED BY <2>2, <2>3
<1> QED BY <1>4, <1>5, <1>6 DEF CallsInv

LEMMA MarkCalls ==
  ASSUME Orderly, TypeInv, CallsInv, NEW s \in Session, NEW r \in Ralph, MarkCrashed(s, r)
  PROVE  CallsInv'
<1> \A x \in Session : Named(frame[x])
  BY DEF TypeInv, Frames
<1>1. /\ \A x \in Session : x # s => frame'[x] = frame[x]
      /\ frame'[s].at = "list"
  BY MarkMoves DEF MovesAlone
<1>2. ~ Makes(frame'[s]) /\ ~ Completes(frame'[s])
  BY <1>1 DEF Makes, Completes, Making, Cleaning, AtMerge
<1>3. \A x \in Session : frame[x].ralph # r
  BY DEF MarkCrashed, Busy
<1>4. row' = [t \in Task |-> IF Holds(r, t) THEN Relinquished(row[t]) ELSE row[t]]
  BY DEF MarkCrashed
<1>5. OneCompleter'
  BY <1>1, <1>2 DEF OneCompleter, CallsInv
<1>6. CompletedRow'
  BY <1>1, <1>2, <1>4 DEF CompletedRow, CallsInv, Named, Holds
<1>7. MakerHolds'
  BY <1>1, <1>2, <1>3, <1>4 DEF MakerHolds, CallsInv, Named, Holds
<1> QED BY <1>5, <1>6, <1>7 DEF CallsInv

LEMMA ReleaseCalls ==
  ASSUME Orderly, TypeInv, CallsInv, NEW t \in Task, Release(t)
  PROVE  CallsInv'
<1> \A x \in Session : Named(frame[x])
  BY DEF TypeInv, Frames
<1>1. UNCHANGED frame /\ row[t].status = "in_progress" /\ ~ Busy(row[t].owner)
  BY DEF Release
<1>2. \A u \in Task : u # t => row'[u] = row[u]
  BY DEF Release, TypeInv
<1>3. OneCompleter'
  BY <1>1 DEF OneCompleter, CallsInv
<1>4. CompletedRow'
  BY <1>1, <1>2 DEF CompletedRow, CallsInv, Named
<1>5. MakerHolds'
  BY <1>1, <1>2 DEF MakerHolds, CallsInv, Named, Holds, Busy
<1> QED BY <1>3, <1>4, <1>5 DEF CallsInv

LEMMA ClaimCalls ==
  ASSUME TypeInv, CallsInv, NEW s \in Session, NEW r \in Ralph, NEW t \in Task, Claim(s, r, t)
  PROVE  CallsInv' /\ Holds(r, t)' /\ \A u \in Task : u # t => row'[u] = row[u]
<1> \A x \in Session : Named(frame[x])
  BY DEF TypeInv, Frames
<1>1. /\ \A x \in Session : x # s => frame'[x] = frame[x]
      /\ ~ Completes(frame'[s])
      /\ Makes(frame'[s]) => frame'[s].ralph = r /\ frame'[s].task = t
  BY ClaimMoves DEF MovesAlone, Makes, Completes, Making, Cleaning, AtMerge
<1>2. /\ row[t].status = "pending"
      /\ Holds(r, t)' /\ \A u \in Task : u # t => row'[u] = row[u]
  BY DEF Claim, TypeInv, Claims, Holds
<1>3. OneCompleter'
  BY <1>1 DEF OneCompleter, CallsInv
<1>4. CompletedRow'
  BY <1>1, <1>2 DEF CompletedRow, CallsInv, Named
<1>5. MakerHolds'
  BY <1>1, <1>2 DEF MakerHolds, CallsInv, Named, Holds
<1> QED BY <1>2, <1>3, <1>4, <1>5 DEF CallsInv

LEMMA CompleteCalls ==
  ASSUME TypeInv, CallsInv, NEW s \in Session, NEW r \in Ralph, NEW t \in Task, Complete(s, r, t)
  PROVE  /\ CallsInv' /\ Holds(r, t) /\ row'[t].status = "completed" /\ row'[t].wt = row[t].wt
         /\ ~ Busy(r) /\ \A u \in Task : u # t => row'[u] = row[u]
<1> \A x \in Session : Named(frame[x])
  BY DEF TypeInv, Frames
<1>1. /\ \A x \in Session : x # s => frame'[x] = frame[x]
      /\ frame'[s].at = "read" /\ frame'[s].task = t
      /\ ~ Makes(frame'[s]) /\ Completes(frame'[s])
  BY CompleteMoves DEF MovesAlone, Makes, Completes, Making, Cleaning, AtMerge
<1>2. /\ Holds(r, t) /\ ~ Busy(r) /\ row'[t].status = "completed" /\ row'[t].wt = row[t].wt
      /\ \A u \in Task : u # t => row'[u] = row[u]
  BY DEF Complete, TypeInv, Claims
<1>3. OneCompleter'
  BY <1>1, <1>2 DEF OneCompleter, CompletedRow, CallsInv, Holds
<1>4. CompletedRow'
  BY <1>1, <1>2 DEF CompletedRow, CallsInv, Named
<1>5. MakerHolds'
  BY <1>1, <1>2 DEF MakerHolds, CallsInv, Named, Holds, Busy
<1> QED BY <1>2, <1>3, <1>4, <1>5 DEF CallsInv

BeforeMerge == {"checkout", "pull", "ff", "noff", "squash"}

\* What main has, and what the next commit of a squash brings it.
InHand == Content(main) \cup IF index.kind = "staged" THEN Content(index.of) ELSE {}

\* git reset HEAD takes what is staged out of the index, whoever has staged it.
ResetsAlone == \A s, x \in Session : s # x /\ At(x, "commit") => ~ At(s, "reset")

NoSquash == \A r \in Ralph : Strategy[r] # "squash"
OneSession == \A s, x \in Session : s = x

Owed ==
  \A s \in Session :
    /\ frame[s].at \in BeforeMerge /\ Merged(s) \in DOMAIN branch
         => frame[s].owed \subseteq Content(branch[Merged(s)])
    /\ At(s, "commit") => frame[s].owed \subseteq InHand
    /\ At(s, "succeeded") => frame[s].owed \subseteq Content(main)

SuccessInv == TypeInv /\ CallsInv /\ Owed

\* Without a ralph that squashes nobody resets, and one session is alone.
LEMMA Alone == ASSUME NoSquash \/ OneSession PROVE Spec => []ResetsAlone
<1>1. Init => TypeInv /\ Chosen
  BY InitCheckout DEF CheckoutInv
<1>2. (TypeInv /\ Chosen) /\ [Next]_vars => (TypeInv /\ Chosen)'
  BY NextTypes, StepChosen, OthersChosen
<1>3. TypeInv /\ Chosen => ResetsAlone
  <2> SUFFICES ASSUME TypeInv, Chosen, NEW s \in Session, NEW x \in Session, s # x, At(x, "commit")
               PROVE  FALSE
    BY DEF ResetsAlone
  <2>1. Strategy[frame[x].wt] = "squash" /\ frame[x].wt \in Ralph
    BY DEF TypeInv, Frames, Named, AtMerge, Chosen, Squashing, At
  <2> QED BY <2>1 DEF NoSquash, OneSession
<1> QED BY <1>1, <1>2, <1>3, PTL DEF Spec

LEMMA InitCalls == Init => CallsInv
BY IdleFrame DEF Init, CallsInv, CompletedRow, OneCompleter, MakerHolds

LEMMA ContentGrows ==
  ASSUME NEW old, NEW new, old \subseteq new
  PROVE  Content(old) \subseteq Content(new)
BY DEF Content

LEMMA ContentParts ==
  /\ Content({}) = {}
  /\ \A old, new : Content(old \cup new) = Content(old) \cup Content(new)
  /\ \A brings : Content({NewCommit(brings)}) = brings
BY DEF Content, NewCommit

\* Whatever a step does, main loses no commit.
LEMMA MainGrows ==
  ASSUME NEW s \in Session, Step(s)
  PROVE  main \subseteq main'
<1>1. CASE Pull(s)
  BY <1>1 DEF Pull
<1>2. CASE FastForward(s)
  BY <1>2 DEF FastForward, Advance, Straight
<1>3. CASE MergeCommit(s)
  BY <1>3 DEF MergeCommit, Advance
<1>4. CASE SquashCommit(s)
  BY <1>4 DEF SquashCommit, Advance
<1>5. CASE ~ (Pull(s) \/ FastForward(s) \/ MergeCommit(s) \/ SquashCommit(s))
  BY <1>5 DEF Step, Create, Add, AddOld, RecordTree, Status, Remove, Drop, ReadRow, Checkout,
       Squash, DetectConflicts, Abort, ResetHead, Succeeded, Failed, ReleaseFailed, SweepList,
       SweepDirs, SweepNext, TimesOut, Killed, git
<1> QED BY <1>1, <1>2, <1>3, <1>4, <1>5

\* A session comes to a success by a merge, which has the branch in main, or by
\* the commit of what is staged.
LEMMA ToSuccess ==
  ASSUME TypeInv, NEW s \in Session, Step(s), At(s, "succeeded")'
  PROVE  /\ Same(s) /\ Merged(s)' = Merged(s) /\ UNCHANGED branch
         /\ \/ /\ frame[s].at \in {"ff", "noff"}
               /\ Merged(s) \in DOMAIN branch
               /\ Content(branch[Merged(s)]) \subseteq Content(main')
            \/ At(s, "commit") /\ InHand \subseteq Content(main')
<1> frame'[s].at = "succeeded"
  BY DEF At
<1> DEFINE Merges ==
      /\ Same(s) /\ UNCHANGED branch
      /\ \/ /\ frame[s].at \in {"ff", "noff"}
            /\ Merged(s) \in DOMAIN branch
            /\ Content(branch[Merged(s)]) \subseteq Content(main')
         \/ At(s, "commit") /\ InHand \subseteq Content(main')
<1> SUFFICES Merges
  BY DEF Merged, Same
<1>1. CASE Checkout(s) \/ Squash(s) \/ Abort(s) \/ ResetHead(s)
  BY <1>1, MergeMoves
<1>2. CASE Pull(s)
  BY <1>2, AutoMergeAssumption, MergeMoves DEF FirstTry, Named
<1>3. CASE FastForward(s)
  <2>1. CASE UpToDate(Merged(s)) /\ UNCHANGED main
    BY <1>3, <2>1, MergeMoves, ContentGrows DEF FastForward, UpToDate, Mergeable, At
  <2>2. CASE Straight(Merged(s)) /\ main' = branch[Merged(s)]
    BY <1>3, <2>2, MergeMoves DEF FastForward, Straight, Ahead, Mergeable, At
  <2>3. CASE Goto(s, IF Strategy[frame[s].wt] = "auto" THEN "noff" ELSE "failed")
    <3>1. "noff" \in Place /\ "failed" \in Place
      BY DEF Place, AtMerge
    <3> QED BY <2>3, <3>1, GotoMoves
  <2> QED BY <1>3, <2>1, <2>2, <2>3 DEF FastForward, Advance
<1>4. CASE MergeCommit(s)
  <2>1. CASE UpToDate(Merged(s)) /\ UNCHANGED main
    BY <1>4, <2>1, MergeMoves, ContentGrows DEF MergeCommit, UpToDate, Mergeable, At
  <2>2. CASE Ahead(Merged(s)) /\ main' = (main \cup branch[Merged(s)]) \cup {NewCommit({})}
    <3>1. branch[Merged(s)] \subseteq main'
      BY <2>2
    <3> QED
      BY <1>4, <2>2, <3>1, MergeMoves, ContentGrows DEF MergeCommit, Ahead, Mergeable, At
  <2>3. CASE Goto(s, "detect")
    <3>1. "detect" \in Place
      BY DEF Place, AtMerge
    <3> QED BY <2>3, <3>1, GotoMoves
  <2> QED BY <1>4, <2>1, <2>2, <2>3 DEF MergeCommit, Advance
<1>5. CASE SquashCommit(s)
  <2>1. At(s, "commit") /\ Same(s) /\ UNCHANGED branch
    BY <1>5, MergeMoves DEF SquashCommit
  <2>2. ASSUME NEW merges,
               main' = (main \cup merges) \cup {NewCommit(Content(index.of))}
        PROVE  Merges
    <3>1. Content(main) \subseteq Content(main \cup merges)
      BY ContentGrows
    <3>2. Content(main') = Content(main \cup merges) \cup Content({NewCommit(Content(index.of))})
      BY <2>2, ContentParts
    <3>3. Content({NewCommit(Content(index.of))}) = Content(index.of)
      BY ContentParts
    <3> QED BY <2>1, <3>1, <3>2, <3>3 DEF InHand
  <2>3. CASE UNCHANGED main /\ index = CleanIndex
    <3>1. InHand = Content(main')
      BY <2>3 DEF InHand, CleanIndex, Index
    <3> QED BY <2>1, <3>1
  <2>4. CASE Goto(s, "reset")
    <3>1. "reset" \in Place
      BY DEF Place, AtMerge
    <3> QED BY <2>4, <3>1, GotoMoves
  <2> QED BY <1>5, <2>2, <2>3, <2>4 DEF SquashCommit, Advance, NothingToCommit
<1>6. CASE DetectConflicts(s)
  BY <1>6, DetectMoves
<1>7. CASE Goto(s, "failed") \/ Return(s)
  BY <1>7, GotoMoves, ReturnMoves DEF Place, AtMerge
<1>8. CASE Succeeded(s) \/ Failed(s)
  BY <1>8, CleanFrame DEF Succeeded, Failed, Cleaner, TypeInv, Frames
<1>9. CASE frame[s].at \notin AtMerge
  BY <1>9, Moved, IdleFields
     DEF OnItsWay, Makes, Making, Cleaning, Sweeps, Sweeping, AtMerge
<1> QED
  BY <1>1, <1>2, <1>3, <1>4, <1>5, <1>6, <1>7, <1>8, <1>9
     DEF Step, Create, Add, AddOld, RecordTree, Status, Remove, Drop, ReadRow, ReleaseFailed,
         SweepList, SweepDirs, SweepNext, TimesOut, Killed, At, AtMerge

\* A squash that comes to its commit has staged what main lacks of the branch.
LEMMA ToCommit ==
  ASSUME TypeInv, NEW s \in Session, Step(s), At(s, "commit")'
  PROVE  /\ Same(s) /\ Merged(s)' = Merged(s) /\ UNCHANGED branch
         /\ frame[s].at = "squash" /\ Merged(s) \in DOMAIN branch
         /\ Content(branch[Merged(s)]) \subseteq InHand'
<1> frame'[s].at = "commit"
  BY DEF At
<1> DEFINE Staging ==
      /\ Same(s) /\ UNCHANGED branch
      /\ frame[s].at = "squash" /\ Merged(s) \in DOMAIN branch
      /\ Content(branch[Merged(s)]) \subseteq InHand'
<1> SUFFICES Staging
  BY DEF Merged, Same
<1>1. CASE \/ Checkout(s) \/ FastForward(s) \/ MergeCommit(s) \/ SquashCommit(s)
           \/ Abort(s) \/ ResetHead(s)
  BY <1>1, MergeMoves
<1>2. CASE Pull(s)
  BY <1>2, AutoMergeAssumption, MergeMoves DEF FirstTry, Named
<1>3. CASE Squash(s)
  <2> DEFINE b == Merged(s)
             commits == index.of \cup (branch[b] \ main)
  <2>1. Same(s) /\ UNCHANGED <<branch, main>> /\ frame[s].at = "squash"
    BY <1>3, MergeMoves DEF Squash, At
  <2>2. CASE UpToDate(b)
    <3>1. Content(branch[b]) \subseteq Content(main)
      BY <2>2, ContentGrows DEF UpToDate
    <3> QED BY <2>1, <2>2, <3>1 DEF UpToDate, Mergeable, InHand
  <2>3. CASE Ahead(b) /\ index' = Staged(commits)
    <3>1. Content(branch[b]) \subseteq Content(main \cup commits)
      BY ContentGrows
    <3>2. Content(branch[b]) \subseteq Content(main) \cup Content(commits)
      BY <3>1, ContentParts
    <3>3. \/ Content(commits) \subseteq Content(main)
          \/ index'.kind = "staged" /\ index'.of = commits
      BY <2>3 DEF Staged, Index
    <3>4. Content(branch[b]) \subseteq InHand'
      BY <2>1, <3>2, <3>3 DEF InHand
    <3> QED BY <2>1, <2>3, <3>4 DEF Ahead, Mergeable
  <2>4. CASE Goto(s, "detect")
    <3>1. "detect" \in Place
      BY DEF Place, AtMerge
    <3> QED BY <2>4, <3>1, GotoMoves
  <2> QED BY <1>3, <2>2, <2>3, <2>4 DEF Squash
<1>4. CASE DetectConflicts(s)
  BY <1>4, DetectMoves
<1>5. CASE Goto(s, "failed") \/ Return(s)
  BY <1>5, GotoMoves, ReturnMoves DEF Place, AtMerge
<1>6. CASE Succeeded(s) \/ Failed(s)
  BY <1>6, CleanFrame DEF Succeeded, Failed, Cleaner, TypeInv, Frames
<1>7. CASE frame[s].at \notin AtMerge
  BY <1>7, Moved, IdleFields
     DEF OnItsWay, Makes, Making, Cleaning, Sweeps, Sweeping, AtMerge
<1> QED
  BY <1>1, <1>2, <1>3, <1>4, <1>5, <1>6, <1>7
     DEF Step, Create, Add, AddOld, RecordTree, Status, Remove, Drop, ReadRow, ReleaseFailed,
         SweepList, SweepDirs, SweepNext, TimesOut, Killed, At, AtMerge

\* Nothing but a reset takes out of the index what is staged and not in main:
\* another squash adds to it, and another commit brings it to main.
LEMMA StaysInHand ==
  ASSUME TypeInv, NEW s \in Session, Step(s), ~ At(s, "reset")
  PROVE  InHand \subseteq InHand'
<1>1. Content(main) \subseteq Content(main')
  BY MainGrows, ContentGrows
<1>2. CASE UNCHANGED index \/ index.kind # "staged"
  BY <1>1, <1>2 DEF InHand
<1>3. CASE Checkout(s) \/ MergeCommit(s) \/ Abort(s)
  <2>1. UNCHANGED index \/ index.kind # "staged"
    BY <1>3 DEF Checkout, MergeCommit, Abort, CleanIndex, Index
  <2> QED BY <1>2, <2>1
<1>4. CASE Squash(s)
  <2> DEFINE more == branch[Merged(s)] \ main
             commits == index.of \cup more
  <2>1. CASE index' = Staged(commits)
    <3>1. Content(index.of) \subseteq Content(commits)
      BY ContentGrows
    <3>2. \/ Content(commits) \subseteq Content(main)
          \/ index'.kind = "staged" /\ index'.of = commits
      BY <2>1 DEF Staged, Index
    <3> HIDE DEF commits
    <3> QED BY <1>1, <3>1, <3>2 DEF InHand
  <2>2. CASE index = CleanIndex
    BY <1>2, <2>2 DEF CleanIndex, Index
  <2> QED BY <1>2, <1>4, <2>1, <2>2 DEF Squash
<1>5. CASE SquashCommit(s)
  <2>1. CASE UNCHANGED index
    BY <1>2, <2>1
  <2>2. ASSUME NEW merges, main' = (main \cup merges) \cup {NewCommit(Content(index.of))}
        PROVE  InHand \subseteq InHand'
    <3>1. Content(main') = Content(main \cup merges) \cup Content({NewCommit(Content(index.of))})
      BY <2>2, ContentParts
    <3>2. Content({NewCommit(Content(index.of))}) = Content(index.of)
      BY ContentParts
    <3> QED BY <1>1, <3>1, <3>2 DEF InHand
  <2> QED BY <1>5, <2>1, <2>2 DEF SquashCommit, Advance
<1>6. CASE frame[s].at \notin {"checkout", "noff", "abort"} \cup Squashing
  BY <1>2, <1>6, IndexKept
<1>7. CASE TimesOut(s) \/ Killed(s)
  BY <1>2, <1>7 DEF TimesOut, Killed, git
<1> QED
  BY <1>3, <1>4, <1>5, <1>6, <1>7
     DEF Step, Create, Add, AddOld, RecordTree, Status, Remove, Drop, ReadRow, Pull,
         FastForward, DetectConflicts, ResetHead, Succeeded, Failed, ReleaseFailed, SweepList,
         SweepDirs, SweepNext, At, Squashing

\* The branch of a task that is completed is left alone until it is deleted.
LEMMA BranchKept ==
  ASSUME TypeInv, CallsInv, NEW s \in Session, Step(s),
         NEW w \in Ralph, NEW t \in Task, row[t].status = "completed",
         <<w, t>> \in DOMAIN branch'
  PROVE  <<w, t>> \in DOMAIN branch /\ branch'[<<w, t>>] = branch[<<w, t>>]
<1> Named(frame[s])
  BY DEF TypeInv, Frames
<1>1. CASE Add(s)
  <2>1. Makes(frame[s]) /\ frame[s].ralph \in Ralph /\ frame[s].task \in Task
    BY <1>1 DEF Add, At, Makes, Making, Named
  <2>2. frame[s].task # t
    BY <2>1 DEF CallsInv, MakerHolds, Holds
  <2>3. <<w, t>> # <<frame[s].ralph, frame[s].task>>
    BY <2>2
  <2>4. CASE UNCHANGED branch
    BY <2>4
  <2>5. CASE branch' = [b \in DOMAIN branch \cup {<<frame[s].ralph, frame[s].task>>} |->
                 IF b = <<frame[s].ralph, frame[s].task>> THEN main ELSE branch[b]]
    BY <2>3, <2>5
  <2> QED BY <1>1, <2>4, <2>5 DEF Add
<1>2. CASE Drop(s)
  BY <1>2 DEF Drop
<1>3. CASE ~ Add(s) /\ ~ Drop(s)
  <2>1. UNCHANGED branch
    BY <1>3 DEF Step, Create, AddOld, RecordTree, Status, Remove, ReadRow, Checkout, Pull,
       FastForward, MergeCommit, Squash, SquashCommit, DetectConflicts, Abort, ResetHead,
       Succeeded, Failed, ReleaseFailed, SweepList, SweepDirs, SweepNext, TimesOut, Killed, git
  <2> QED BY <2>1
<1> QED BY <1>1, <1>2, <1>3

\* How a session comes to a merge.
LEMMA ToMerge ==
  ASSUME TypeInv, NEW s \in Session, Step(s), frame'[s].at \in BeforeMerge
  PROVE  UNCHANGED branch /\ \/ ReadRow(s)
                             \/ frame[s].at \in {"checkout", "pull", "ff"} /\ Same(s)
<1> USE DEF BeforeMerge
<1>1. CASE ReadRow(s)
  BY <1>1 DEF ReadRow, git
<1>2. CASE Checkout(s) \/ Pull(s) \/ FastForward(s)
  <2>1. UNCHANGED branch /\ frame[s].at \in {"checkout", "pull", "ff"}
    BY <1>2 DEF Checkout, Pull, FastForward, At
  <2> QED BY <1>2, <2>1, MergeMoves
<1>3. CASE MergeCommit(s) \/ Squash(s) \/ SquashCommit(s) \/ Abort(s) \/ ResetHead(s)
  BY <1>3, MergeMoves
<1>4. CASE DetectConflicts(s)
  BY <1>4, DetectMoves
<1>5. CASE Goto(s, "failed") \/ Return(s)
  BY <1>5, GotoMoves, ReturnMoves DEF Place, AtMerge
<1>6. CASE Succeeded(s) \/ Failed(s)
  BY <1>6, CleanFrame DEF Succeeded, Failed, Cleaner, TypeInv, Frames
<1>7. CASE frame[s].at \notin AtMerge \cup {"read"}
  BY <1>7, Moved, IdleFields
     DEF OnItsWay, Makes, Making, Cleaning, Sweeps, Sweeping, AtMerge
<1> QED
  BY <1>1, <1>2, <1>3, <1>4, <1>5, <1>6, <1>7
     DEF Step, Create, Add, AddOld, RecordTree, Status, Remove, Drop, ReleaseFailed,
         SweepList, SweepDirs, SweepNext, TimesOut, Killed, At, AtMerge

LEMMA StepOwed ==
  ASSUME SuccessInv, ResetsAlone, NEW s \in Session, Step(s)
  PROVE  Owed'
<1> TypeInv /\ CallsInv /\ Owed
  BY DEF SuccessInv
<1> DEFINE Due(x) ==
      /\ frame[x].at \in BeforeMerge /\ Merged(x) \in DOMAIN branch
           => frame[x].owed \subseteq Content(branch[Merged(x)])
      /\ At(x, "commit") => frame[x].owed \subseteq InHand
      /\ At(x, "succeeded") => frame[x].owed \subseteq Content(main)
<1>1. ASSUME NEW x \in Session, x # s PROVE Due(x)'
  <2>1. frame'[x] = frame[x] /\ Merged(x)' = Merged(x)
    BY <1>1, Moved DEF MovesAlone, Merged
  <2>2. ASSUME frame[x].at \in BeforeMerge, Merged(x) \in DOMAIN branch'
        PROVE  frame[x].owed \subseteq Content(branch'[Merged(x)])
    <3>1. Completes(frame[x]) /\ frame[x].wt \in Ralph /\ frame[x].task \in Task
      BY <2>2 DEF BeforeMerge, Completes, AtMerge, TypeInv, Frames, Named
    <3>2. row[frame[x].task].status = "completed"
      BY <3>1 DEF CallsInv, CompletedRow
    <3>3. Merged(x) \in DOMAIN branch /\ branch'[Merged(x)] = branch[Merged(x)]
      BY <2>2, <3>1, <3>2, BranchKept DEF Merged
    <3> QED BY <2>2, <3>3 DEF Owed
  <2>3. At(x, "commit") => frame[x].owed \subseteq InHand'
    BY <1>1, StaysInHand DEF Owed, ResetsAlone
  <2>4. At(x, "succeeded") => frame[x].owed \subseteq Content(main')
    BY MainGrows, ContentGrows DEF Owed
  <2> QED BY <2>1, <2>2, <2>3, <2>4 DEF At
<1>2. Due(s)'
  <2>1. ASSUME frame'[s].at \in BeforeMerge, Merged(s)' \in DOMAIN branch'
        PROVE  frame'[s].owed \subseteq Content(branch'[Merged(s)'])
    <3>1. CASE ReadRow(s)
      BY <2>1, <3>1, ReadMoves, ToMerge DEF Merged, BeforeMerge
    <3>2. CASE frame[s].at \in {"checkout", "pull", "ff"} /\ Same(s)
      BY <2>1, <3>2, ToMerge DEF Merged, Same, Owed, BeforeMerge
    <3> QED BY <2>1, <3>1, <3>2, ToMerge
  <2>2. ASSUME At(s, "commit")' PROVE frame'[s].owed \subseteq InHand'
    <3>1. frame[s].owed \subseteq Content(branch[Merged(s)])
      BY <2>2, ToCommit DEF Owed, BeforeMerge
    <3> QED BY <2>2, <3>1, ToCommit DEF Same
  <2>3. ASSUME At(s, "succeeded")' PROVE frame'[s].owed \subseteq Content(main')
    <3>1. CASE frame[s].at \in {"ff", "noff"}
      <4>1. ~ At(s, "commit")
        BY <3>1 DEF At
      <4>2. Merged(s) \in DOMAIN branch /\ Content(branch[Merged(s)]) \subseteq Content(main')
        BY <2>3, <4>1, ToSuccess
      <4>3. frame[s].owed \subseteq Content(branch[Merged(s)])
        BY <3>1, <4>2 DEF Owed, BeforeMerge
      <4>4. frame'[s].owed = frame[s].owed
        BY <2>3, ToSuccess DEF Same
      <4> QED BY <4>2, <4>3, <4>4
    <3>2. CASE At(s, "commit")
      BY <2>3, <3>2, ToSuccess DEF Same, At, Owed
    <3> QED BY <2>3, <3>1, <3>2, ToSuccess
  <2> QED BY <2>1, <2>2, <2>3
<1> QED BY <1>1, <1>2 DEF Owed

\* What the workers and the other calls do to a branch.
LEMMA OthersOwed ==
  ASSUME SuccessInv, UNCHANGED <<main, index, frame>>,
         \A w \in Ralph, t \in Task : <<w, t>> \in DOMAIN branch' =>
           /\ <<w, t>> \in DOMAIN branch
           /\ row[t].status = "completed" => branch'[<<w, t>>] = branch[<<w, t>>]
  PROVE  Owed'
<1> SUFFICES ASSUME NEW x \in Session, frame[x].at \in BeforeMerge,
                    Merged(x) \in DOMAIN branch'
             PROVE  frame[x].owed \subseteq Content(branch'[Merged(x)])
  BY DEF Owed, SuccessInv, Merged, At, InHand
<1>1. Completes(frame[x]) /\ frame[x].wt \in Ralph /\ frame[x].task \in Task
  BY DEF BeforeMerge, Completes, AtMerge, SuccessInv, TypeInv, Frames, Named
<1>2. row[frame[x].task].status = "completed"
  BY <1>1 DEF SuccessInv, CallsInv, CompletedRow
<1> QED BY <1>1, <1>2 DEF SuccessInv, Owed, Merged

\* Every merge that is reported as a success has brought what its branch had
\* when the merge began, if calls of one ralph do not overlap and nobody resets
\* the index while another session's squash awaits its commit: sessions may time
\* out or be killed, and ralphs be swept, anywhere.
THEOREM SuccessMerged ==
  ASSUME Orderly PROVE Spec /\ []ResetsAlone => []SuccessInMain
<1>1. Init => SuccessInv
  BY InitTypes, InitCalls, IdleFields DEF Init, SuccessInv, Owed, BeforeMerge, At
<1>2. SuccessInv /\ ResetsAlone /\ [Next]_vars => SuccessInv'
  <2> SUFFICES ASSUME SuccessInv, ResetsAlone, [Next]_vars PROVE CallsInv' /\ Owed'
    BY NextTypes DEF SuccessInv
  <2> TypeInv /\ CallsInv /\ Owed
    BY DEF SuccessInv
  <2>1. ASSUME NEW s \in Session, Step(s) PROVE CallsInv' /\ Owed'
    BY <2>1, StepCalls, StepOwed
  <2>2. ASSUME NEW s \in Session, MovesAlone(s), UNCHANGED git,
               frame'[s].at \in {"idle", "list", "create", "read"}
        PROVE  Owed'
    BY <2>2 DEF Owed, BeforeMerge, At, InHand, Merged, MovesAlone, git
  <2>3. ASSUME NEW s \in Session, NEW r \in Ralph, MarkCrashed(s, r)
        PROVE  CallsInv' /\ Owed'
    BY <2>2, <2>3, MarkMoves, MarkCalls
  <2>4. ASSUME NEW s \in Session, NEW r \in Ralph, NEW t \in Task, Claim(s, r, t)
        PROVE  CallsInv' /\ Owed'
    BY <2>2, <2>4, ClaimMoves, ClaimCalls DEF Owed, At, InHand, Merged, git
  <2>5. ASSUME NEW s \in Session, NEW r \in Ralph, NEW t \in Task, Complete(s, r, t)
        PROVE  CallsInv' /\ Owed'
    BY <2>2, <2>5, CompleteMoves, CompleteCalls
  <2>6. ASSUME NEW t \in Task, Release(t) PROVE CallsInv' /\ Owed'
    <3>1. CallsInv' /\ UNCHANGED <<frame, main, index, branch>>
      BY <2>6, ReleaseCalls DEF Release, git
    <3> QED BY <3>1 DEF Owed, At, InHand, Merged
  <2>7. ASSUME UNCHANGED <<row, frame, main, index, branch>>
        PROVE  CallsInv' /\ Owed'
    BY <2>7 DEF CallsInv, CompletedRow, OneCompleter, MakerHolds, Holds, Owed, At, InHand, Merged
  <2>8. ASSUME NEW r \in Ralph, NEW t \in Task, WorkerCommits(r, t)
        PROVE  CallsInv' /\ Owed'
    <3>1. /\ UNCHANGED <<row, main, index, frame>> /\ row[t].status = "in_progress"
          /\ DOMAIN branch' = DOMAIN branch
          /\ \A b \in DOMAIN branch : b # <<r, t>> => branch'[b] = branch[b]
      BY <2>8 DEF WorkerCommits, TypeInv, Repository
    <3>2. Owed'
      BY <3>1, OthersOwed
    <3> QED BY <3>1, <3>2 DEF CallsInv, CompletedRow, OneCompleter, MakerHolds, Holds
  <2> QED
    BY <2>1, <2>3, <2>4, <2>5, <2>6, <2>7, <2>8, NextSteps
       DEF Register, WorkerEdits, vars, git
<1>3. SuccessInv => SuccessInMain
  BY DEF SuccessInv, Owed, SuccessInMain
<1> QED BY <1>1, <1>2, <1>3, PTL DEF Spec

\* So it is for the strategies that do not squash, and for one session.
COROLLARY SuccessMergedAlways ==
  ASSUME Orderly, NoSquash \/ OneSession PROVE Spec => []SuccessInMain
BY Alone, SuccessMerged, PTL

-----------------------------------------------------------------------------
(***************************************************************************)
(* Worktrees.                                                              *)
(***************************************************************************)
Tidy == Orderly /\ ~ Stops /\ UseWorktree = Ralph /\ Sweepers = {}

NoSweep == \A s \in Session : ~ Sweeps(frame[s])
StatusMerged == \A s \in Session : At(s, "status") => frame[s].for = "merged"
OneCall ==
  \A s, x \in Session :
    frame[s].ralph \in Ralph /\ frame[s].ralph = frame[x].ralph => s = x
OwnTree == \A s \in Session : frame[s].wt \in {NoRalph, frame[s].ralph}
MakesFor(r, t) == \E s \in Session : Makes(frame[s]) /\ frame[s].ralph = r /\ frame[s].task = t
Recorded == \A r \in Ralph, t \in Task : Holds(r, t) => row[t].wt = r \/ MakesFor(r, t)
ReadsOwn == \A s \in Session : At(s, "read") => row[frame[s].task].wt = frame[s].ralph
Trees ==
  \A s \in Session :
    /\ frame[s].at \in {"add", "add_old"} => tree[frame[s].ralph] = NoTask
    /\ frame[s].at = "add_old" => <<frame[s].ralph, frame[s].task>> \in DOMAIN branch
    /\ frame[s].at = "record" => tree[frame[s].ralph] = frame[s].task
    /\ frame[s].at = "drop" => tree[frame[s].wt] = NoTask

TreesInv == /\ TypeInv /\ CallsInv
            /\ NoSweep /\ StatusMerged /\ OneCall /\ OwnTree /\ Recorded /\ ReadsOwn /\ Trees

\* Every step of a call is one of a claim or a completion, for its own ralph.
LEMMA StepOfCall ==
  ASSUME TypeInv, NoSweep, NEW s \in Session, Step(s)
  PROVE  /\ Makes(frame[s]) \/ Completes(frame[s])
         /\ frame[s].ralph \in Ralph /\ frame[s].task \in Task
         /\ frame[s].at \in Making \cup Cleaning \cup AtMerge => frame[s].wt \in Ralph
<1> Named(frame[s]) /\ frame[s] \in Frame /\ ~ Sweeps(frame[s])
  BY DEF TypeInv, Frames, NoSweep
<1>1. frame[s].at # "idle"
  BY DEF Step, Create, Add, AddOld, RecordTree, Status, Remove, Drop, ReadRow, Checkout, Pull,
     FastForward, MergeCommit, Squash, SquashCommit, DetectConflicts, Abort, ResetHead,
     Succeeded, Failed, ReleaseFailed, SweepList, SweepDirs, SweepNext, TimesOut, Killed, At,
     Merging
<1>2. Makes(frame[s]) \/ Completes(frame[s])
  BY <1>1 DEF Makes, Completes, Sweeps, Frame, Place, Cleaner
<1> QED BY <1>2 DEF Named

LEMMA TreeChanges ==
  ASSUME TypeInv, NEW s \in Session, Step(s)
  PROVE  \/ UNCHANGED tree
         \/ Add(s) /\ tree' = [tree EXCEPT ![frame[s].ralph] = frame[s].task]
         \/ AddOld(s) /\ tree' = [tree EXCEPT ![frame[s].ralph] = frame[s].task]
         \/ Remove(s) /\ tree' = [tree EXCEPT ![frame[s].wt] = NoTask]
BY DEF Step, Create, Add, AddOld, RecordTree, Status, Remove, Drop, ReadRow, Checkout, Pull,
   FastForward, MergeCommit, Squash, SquashCommit, DetectConflicts, Abort, ResetHead,
   Succeeded, Failed, ReleaseFailed, SweepList, SweepDirs, SweepNext, TimesOut, Killed, git

\* A call does nothing to the worktrees of other ralphs.
LEMMA TreesAlone ==
  ASSUME TypeInv, NoSweep, OwnTree, NEW s \in Session, Step(s),
         NEW r \in Ralph, frame[s].ralph # r
  PROVE  /\ tree'[r] = tree[r]
         /\ \A t \in Task : <<r, t>> \in DOMAIN branch => <<r, t>> \in DOMAIN branch'
<1> tree \in [Ralph -> Task \cup {NoTask}]
  BY DEF TypeInv, Repository
<1>1. Remove(s) \/ Drop(s) => frame[s].wt = frame[s].ralph
  BY StepOfCall, AutoMergeAssumption DEF Remove, Drop, At, Cleaning, OwnTree
<1>2. tree'[r] = tree[r]
  BY <1>1, TreeChanges
<1>3. CASE Add(s)
  BY <1>2, <1>3 DEF Add
<1>4. CASE Drop(s)
  BY <1>1, <1>2, <1>4 DEF Drop
<1>5. CASE ~ Add(s) /\ ~ Drop(s)
  <2>1. UNCHANGED branch
    BY <1>5 DEF Step, Create, AddOld, RecordTree, Status, Remove, ReadRow, Checkout, Pull,
       FastForward, MergeCommit, Squash, SquashCommit, DetectConflicts, Abort, ResetHead,
       Succeeded, Failed, ReleaseFailed, SweepList, SweepDirs, SweepNext, TimesOut, Killed, git
  <2> QED BY <1>2, <2>1
<1> QED BY <1>3, <1>4, <1>5

\* A worktree is made: no claim gives up.
LEMMA MakerGoesOn ==
  ASSUME ~ Stops, TreesInv, NEW s \in Session, Step(s), Makes(frame[s])
  PROVE  \/ Makes(frame'[s]) /\ Same(s)
         \/ RecordTree(s) /\ frame'[s] = Idle
<1> TypeInv /\ Named(frame[s]) /\ Trees /\ StatusMerged
  BY DEF TreesInv, TypeInv, Frames
<1>0. frame[s].at \in Making \/ (frame[s].at \in Cleaning /\ frame[s].for = "create")
  BY DEF Makes
<1>1. CASE Create(s)
  <2>1. Goto(s, "add") \/ Goto(s, "remove")
    BY <1>1 DEF Create
  <2>2. frame[s].for = "create"
    BY <1>1 DEF Create, At, Named, Making
  <2>3. {"add", "remove"} \subseteq Place
    BY DEF Place, Making, Cleaning
  <2> QED BY <2>1, <2>2, <2>3, GotoMoves DEF Makes, Making, Cleaning
<1>2. CASE Add(s)
  <2>1. Goto(s, "record") \/ Goto(s, "add_old")
    BY <1>2 DEF Add
  <2>2. {"record", "add_old"} \subseteq Place
    BY DEF Place, Making
  <2> QED BY <2>1, <2>2, GotoMoves DEF Makes, Making
<1>3. CASE AddOld(s)
  <2>1. tree[frame[s].ralph] = NoTask /\ <<frame[s].ralph, frame[s].task>> \in DOMAIN branch
    BY <1>3 DEF AddOld, At, Trees
  <2>2. Goto(s, "record")
    BY <1>3, <2>1 DEF AddOld
  <2> QED BY <2>2, GotoMoves DEF Makes, Making, Place
<1>4. CASE RecordTree(s)
  BY <1>4, ReturnMoves DEF RecordTree
<1>5. CASE Remove(s)
  <2>1. frame[s].at \in Cleaning /\ frame[s].for = "create"
    BY <1>0, <1>5 DEF Remove, At, Making, Cleaning
  <2>2. CASE After(s, TRUE)
    BY <2>1, <2>2, AfterMoves, IdleFrame DEF OnItsWay, Makes, Making, Cleaning, Sweeps, Sweeping, AtMerge
  <2>3. CASE ~ After(s, TRUE)
    BY <1>5, <2>1, <2>3, RemoveMoves DEF Makes, Cleaning
  <2> QED BY <2>2, <2>3
<1>6. CASE Drop(s)
  <2>1. frame[s].at \in Cleaning /\ frame[s].for = "create" /\ After(s, TRUE)
    BY <1>0, <1>6 DEF Drop, At, Making, Cleaning
  <2> QED
    BY <2>1, AfterMoves, IdleFrame DEF OnItsWay, Makes, Making, Cleaning, Sweeps, Sweeping, AtMerge
<1>7. frame[s].at # "status"
  BY <1>0 DEF StatusMerged, At, Making
<1> QED
  BY <1>0, <1>1, <1>2, <1>3, <1>4, <1>5, <1>6, <1>7
     DEF Step, Status, ReadRow, Checkout, Pull, FastForward, MergeCommit, Squash, SquashCommit,
         DetectConflicts, Abort, ResetHead, Succeeded, Failed, ReleaseFailed, SweepList,
         SweepDirs, SweepNext, TimesOut, Killed, At, Making, Cleaning

LEMMA InitTrees == Init => TreesInv
<1> SUFFICES ASSUME Init PROVE TreesInv
  OBVIOUS
<1>1. \A s \in Session : frame[s] = Idle
  BY DEF Init
<1>2. \A s \in Session : /\ frame[s].at = "idle" /\ frame[s].ralph = NoRalph
                         /\ frame[s].wt = NoRalph
  BY <1>1, IdleFields
<1>3. TypeInv /\ CallsInv
  BY InitTypes, InitCalls
<1>4. NoSweep /\ StatusMerged /\ OneCall /\ OwnTree /\ ReadsOwn /\ Trees
  BY <1>2, AutoMergeAssumption
     DEF NoSweep, Sweeps, Sweeping, Cleaning, StatusMerged, OneCall, OwnTree, ReadsOwn, Trees, At
<1>5. Recorded
  BY DEF Init, Recorded, Holds
<1> QED BY <1>3, <1>4, <1>5 DEF TreesInv

\* The claim of a step's session is recorded with the worktree of its ralph.
LEMMA RowsOfStep ==
  ASSUME TypeInv, NEW s \in Session, Step(s), NEW t \in Task
  PROVE  \/ row'[t].wt = row[t].wt
         \/ RecordTree(s) /\ t = frame[s].task /\ row'[t].wt = frame[s].wt
<1> row \in [Task -> Claims]
  BY DEF TypeInv
<1>1. CASE RecordTree(s)
  BY <1>1 DEF RecordTree, Claims
<1>2. CASE ReleaseFailed(s)
  BY <1>2 DEF ReleaseFailed, Relinquished, Claims
<1> QED BY <1>1, <1>2, StepRows

LEMMA StepFrames ==
  ASSUME TreesInv, NEW s \in Session, Step(s)
  PROVE  NoSweep' /\ StatusMerged' /\ OneCall' /\ OwnTree'
<1> TypeInv /\ NoSweep /\ OneCall /\ OwnTree /\ ReadsOwn /\ StatusMerged
  BY DEF TreesInv
<1>0. /\ ~ Sweeps(frame[s]) /\ ~ Sweeps(Idle)
      /\ \A x \in Session : x # s => frame'[x] = frame[x]
      /\ OnItsWay(s)
  BY IdleFields, Moved DEF NoSweep, Sweeps, Sweeping, Cleaning, MovesAlone
<1>1. ~ Sweeps(frame'[s])
  BY <1>0 DEF OnItsWay, Sweeps, Makes, Making, Cleaning, AtMerge, Sweeping
<1>2. frame'[s].ralph \in {frame[s].ralph, NoRalph}
  BY <1>0, IdleFields DEF OnItsWay, Same
<1>3. frame'[s].wt \in {NoRalph, frame'[s].ralph}
  <2>1. CASE frame'[s] = Idle
    BY <2>1, IdleFields
  <2>2. CASE Same(s)
    BY <2>2 DEF Same, OwnTree
  <2>3. CASE frame[s].at = "read" /\ frame'[s].at = "checkout"
    <3>0. ~ Return(s)
      BY <2>3, ReturnMoves
    <3>1. ReadRow(s)
      BY <2>3, <3>0 DEF Step, Create, Add, AddOld, RecordTree, Status, Remove, Drop, Checkout, Pull,
       FastForward, MergeCommit, Squash, SquashCommit, DetectConflicts, Abort, ResetHead,
       Succeeded, Failed, ReleaseFailed, SweepList, SweepDirs, SweepNext, TimesOut, Killed, At,
       Merging
    <3> QED BY <2>3, <3>1, ReadMoves DEF ReadsOwn, At
  <2> QED BY <1>0, <2>1, <2>2, <2>3 DEF OnItsWay
<1>4. frame'[s].at = "status" => frame'[s].for = "merged"
  BY <1>0, IdleFields DEF OnItsWay, Makes, AtMerge, StatusMerged
<1>5. OneCall'
  BY <1>0, <1>2, AutoMergeAssumption DEF OneCall
<1> QED BY <1>0, <1>1, <1>3, <1>4, <1>5 DEF NoSweep, OwnTree, StatusMerged, At

LEMMA StepRecords ==
  ASSUME ~ Stops, TreesInv, NEW s \in Session, Step(s)
  PROVE  Recorded' /\ ReadsOwn'
<1> /\ TypeInv /\ CallsInv /\ NoSweep /\ OneCall /\ OwnTree /\ Recorded /\ ReadsOwn
    /\ \A x \in Session : Named(frame[x])
  BY DEF TreesInv, TypeInv, Frames
<1>0. \A x \in Session : x # s => frame'[x] = frame[x]
  BY Moved DEF MovesAlone
<1>1. RecordTree(s) => /\ Makes(frame[s]) /\ frame[s].wt = frame[s].ralph
                       /\ Holds(frame[s].ralph, frame[s].task)
  <2>1. RecordTree(s) => Makes(frame[s]) /\ frame[s].at \in Making
    BY DEF RecordTree, At, Makes, Making
  <2> QED BY <2>1, StepOfCall, AutoMergeAssumption DEF OwnTree, CallsInv, MakerHolds
<1>2. Recorded'
  <2> SUFFICES ASSUME NEW r \in Ralph, NEW t \in Task, Holds(r, t)'
               PROVE  row'[t].wt = r \/ MakesFor(r, t)'
    BY DEF Recorded
  <2>1. Holds(r, t)
    BY StepHolds
  <2>2. CASE row[t].wt = r
    <3>1. RecordTree(s) /\ t = frame[s].task => frame[s].wt = r
      BY <1>1, <2>1 DEF Holds
    <3> QED BY <2>2, <3>1, RowsOfStep
  <2>3. ASSUME NEW x \in Session, Makes(frame[x]), frame[x].ralph = r, frame[x].task = t
        PROVE  row'[t].wt = r \/ MakesFor(r, t)'
    <3>1. CASE x # s
      BY <1>0, <2>3, <3>1 DEF MakesFor
    <3>2. CASE x = s /\ Makes(frame'[s]) /\ Same(s)
      BY <2>3, <3>2 DEF MakesFor, Same
    <3>3. CASE x = s /\ RecordTree(s)
      <4>1. row'[t].wt = frame[s].wt
        BY <2>3, <3>3 DEF RecordTree, TypeInv, Claims
      <4> QED BY <1>1, <2>3, <3>3, <4>1
    <3> QED BY <2>3, <3>1, <3>2, <3>3, MakerGoesOn
  <2> QED BY <2>1, <2>2, <2>3 DEF Recorded, MakesFor
<1>3. ReadsOwn'
  <2> SUFFICES ASSUME NEW x \in Session, frame'[x].at = "read"
               PROVE  row'[frame'[x].task].wt = frame'[x].ralph
    BY DEF ReadsOwn, At
  <2>1. x # s
    BY Moved, IdleFields DEF OnItsWay, Makes, Making, Cleaning, Sweeps, Sweeping, AtMerge
  <2>2. frame'[x] = frame[x] /\ Completes(frame[x]) /\ frame[x].task \in Task
    BY <1>0, <2>1 DEF Completes, Named
  <2>3. row[frame[x].task].wt = frame[x].ralph /\ row[frame[x].task].status = "completed"
    BY <2>2 DEF ReadsOwn, At, CallsInv, CompletedRow
  <2>4. RecordTree(s) => frame[x].task # frame[s].task
    BY <1>1, <2>3 DEF Holds
  <2> QED BY <2>2, <2>3, <2>4, RowsOfStep
<1> QED BY <1>2, <1>3

\* Who comes to the places of which Trees speaks.
LEMMA ToTree ==
  ASSUME ~ Stops, TreesInv, NEW s \in Session, Step(s)
  PROVE  /\ frame'[s].at = "add" =>
              \/ Create(s) \/ Drop(s)
              \/ Remove(s) /\ UNCHANGED tree /\ tree[frame[s].wt] = NoTask
         /\ frame'[s].at = "add_old" => Add(s) /\ UNCHANGED tree /\ UNCHANGED branch
         /\ frame'[s].at = "record" =>
              /\ Add(s) \/ AddOld(s)
              /\ tree' = [tree EXCEPT ![frame[s].ralph] = frame[s].task]
         /\ frame'[s].at = "drop" =>
              /\ Remove(s) /\ tree' = [tree EXCEPT ![frame[s].wt] = NoTask]
              /\ frame'[s].drop = tree[frame[s].wt]
<1> TypeInv /\ NoSweep /\ Named(frame[s])
  BY DEF TreesInv, TypeInv, Frames
<1> {"add", "remove", "record", "add_old"} \subseteq Place
  BY DEF Place, Making, Cleaning
<1>1. CASE Create(s)
  <2>1. Goto(s, "add") \/ Goto(s, "remove")
    BY <1>1 DEF Create
  <2> QED BY <1>1, <2>1, GotoMoves
<1>2. CASE Add(s)
  <2>1. CASE Goto(s, "record") /\ tree' = [tree EXCEPT ![frame[s].ralph] = frame[s].task]
    BY <1>2, <2>1, GotoMoves
  <2>2. CASE Goto(s, "add_old") /\ UNCHANGED <<tree, branch>>
    BY <1>2, <2>2, GotoMoves
  <2> QED BY <1>2, <2>1, <2>2 DEF Add
<1>3. CASE AddOld(s)
  <2>1. CASE Goto(s, "record") /\ tree' = [tree EXCEPT ![frame[s].ralph] = frame[s].task]
    BY <1>3, <2>1, GotoMoves
  <2>2. CASE Return(s)
    BY <2>2, ReturnMoves
  <2> QED BY <1>3, <2>1, <2>2 DEF AddOld
<1>4. CASE Remove(s)
  <2>1. CASE frame'[s].at = "drop"
    BY <1>4, <2>1, RemoveMoves
  <2>2. CASE frame'[s].at # "drop"
    <3>1. frame[s].at \in Cleaning
      BY <1>4 DEF Remove, At, Cleaning
    <3>2. \/ After(s, TRUE) /\ tree[frame[s].wt] = NoTask /\ UNCHANGED tree
          \/ frame'[s] = Idle
      BY <1>4, <2>2, RemoveMoves
    <3> QED BY <1>4, <2>2, <3>1, <3>2, AfterMoves, IdleFields
  <2> QED BY <2>1, <2>2
<1>5. CASE Drop(s)
  <2>1. frame[s].at \in Cleaning /\ After(s, TRUE)
    BY <1>5 DEF Drop, At, Cleaning
  <2> QED BY <1>5, <2>1, AfterMoves, IdleFields
<1>6. CASE RecordTree(s)
  BY <1>6, ReturnMoves DEF RecordTree
<1>7. CASE Status(s)
  <2>1. frame[s].at \in Cleaning /\ frame[s].for = "merged"
    BY <1>7 DEF Status, At, Cleaning, TreesInv, StatusMerged
  <2>2. After(s, FALSE) \/ Goto(s, "remove")
    BY <1>7 DEF Status
  <2> QED BY <2>1, <2>2, AfterMoves, GotoMoves, IdleFields
<1>8. CASE ~ (\/ Create(s) \/ Add(s) \/ AddOld(s) \/ RecordTree(s) \/ Status(s) \/ Remove(s)
              \/ Drop(s))
  <2>1. frame[s].at \notin Making \cup Cleaning
    BY <1>8 DEF Step, ReadRow, Checkout, Pull, FastForward, MergeCommit, Squash, SquashCommit,
         DetectConflicts, Abort, ResetHead, Succeeded, Failed, ReleaseFailed, SweepList,
         SweepDirs, SweepNext, TimesOut, Killed, At, Making, Cleaning
  <2> QED BY <2>1, Moved, IdleFields DEF OnItsWay, Makes, Making, Cleaning, Sweeps, Sweeping,
                  AtMerge, NoSweep
<1> QED BY <1>1, <1>2, <1>3, <1>4, <1>5, <1>6, <1>7, <1>8

LEMMA StepTrees ==
  ASSUME ~ Stops, TreesInv, NEW s \in Session, Step(s)
  PROVE  Trees'
<1> /\ TypeInv /\ NoSweep /\ OneCall /\ OwnTree /\ Trees
    /\ \A x \in Session : Named(frame[x])
    /\ tree \in [Ralph -> Task \cup {NoTask}]
  BY DEF TreesInv, TypeInv, Frames, Repository
<1> DEFINE Right(x) ==
      /\ frame[x].at \in {"add", "add_old"} => tree[frame[x].ralph] = NoTask
      /\ frame[x].at = "add_old" => <<frame[x].ralph, frame[x].task>> \in DOMAIN branch
      /\ frame[x].at = "record" => tree[frame[x].ralph] = frame[x].task
      /\ frame[x].at = "drop" => tree[frame[x].wt] = NoTask
<1>1. ASSUME NEW x \in Session, x # s PROVE Right(x)'
  <2>1. frame'[x] = frame[x]
    BY <1>1, Moved DEF MovesAlone
  <2>2. \A r \in Ralph : frame[x].ralph = r =>
          /\ tree'[r] = tree[r]
          /\ \A t \in Task : <<r, t>> \in DOMAIN branch => <<r, t>> \in DOMAIN branch'
    BY <1>1, TreesAlone DEF OneCall
  <2>3. frame[x].at \in Making => frame[x].ralph \in Ralph /\ frame[x].task \in Task
    BY DEF Named, Makes
  <2>4. frame[x].at = "drop" => frame[x].wt \in Ralph /\ frame[x].ralph = frame[x].wt
    BY AutoMergeAssumption DEF Named, Cleaning, OwnTree
  <2> QED BY <2>1, <2>2, <2>3, <2>4 DEF Trees, Making
<1>2. Right(s)'
  <2>0. frame[s].ralph \in Ralph /\ frame[s].task \in Task
    BY StepOfCall
  <2>1. frame'[s].at \in {"add", "add_old", "record", "drop"} => Same(s)
    BY Moved, IdleFields DEF OnItsWay, Sweeps, Making, Cleaning, Sweeping, AtMerge, NoSweep
  <2>2. frame[s].at \in Making \cup Cleaning => frame[s].wt = frame[s].ralph
    BY StepOfCall, AutoMergeAssumption DEF OwnTree
  <2>3. CASE frame'[s].at = "add"
    <3>1. CASE Create(s)
      <4>1. UNCHANGED tree /\ frame[s].at \in Making
            /\ Goto(s, IF tree[frame[s].wt] = NoTask THEN "add" ELSE "remove")
        BY <3>1 DEF Create, At, Making, git
      <4>2. tree[frame[s].wt] = NoTask
        BY <2>3, <4>1, GotoMoves DEF Place, Cleaning
      <4> QED BY <2>1, <2>2, <2>3, <4>1, <4>2 DEF Same
    <3>2. CASE Drop(s)
      <4>1. UNCHANGED tree /\ frame[s].at \in Cleaning /\ tree[frame[s].wt] = NoTask
        BY <3>2 DEF Drop, At, Cleaning, Trees
      <4> QED BY <2>1, <2>2, <2>3, <4>1 DEF Same
    <3>3. CASE Remove(s) /\ UNCHANGED tree /\ tree[frame[s].wt] = NoTask
      <4>1. frame[s].at \in Cleaning
        BY <3>3 DEF Remove, At, Cleaning
      <4> QED BY <2>1, <2>2, <2>3, <3>3, <4>1 DEF Same
    <3> QED BY <2>3, <3>1, <3>2, <3>3, ToTree
  <2>4. CASE frame'[s].at = "add_old"
    <3>1. Add(s) /\ UNCHANGED tree /\ UNCHANGED branch /\ Same(s)
      BY <2>1, <2>4, ToTree
    <3>2. tree[frame[s].ralph] = NoTask
      BY <3>1 DEF Add, At, Trees
    <3>3. <<frame[s].ralph, frame[s].task>> \in DOMAIN branch
      <4>1. CASE tree' = [tree EXCEPT ![frame[s].ralph] = frame[s].task]
        BY <2>0, <3>1, <3>2, <4>1, AutoMergeAssumption
      <4> QED BY <3>1, <3>2, <4>1 DEF Add
    <3> QED BY <2>4, <3>1, <3>2, <3>3 DEF Same
  <2>5. CASE frame'[s].at = "record"
    BY <2>0, <2>1, <2>5, ToTree DEF Same
  <2>6. CASE frame'[s].at = "drop"
    <3>1. Remove(s) /\ tree' = [tree EXCEPT ![frame[s].wt] = NoTask] /\ Same(s)
      BY <2>1, <2>6, ToTree
    <3>2. frame[s].wt \in Ralph
      BY <3>1, StepOfCall DEF Remove, At, Cleaning
    <3> QED BY <2>6, <3>1, <3>2 DEF Same
  <2> QED BY <2>3, <2>4, <2>5, <2>6
<1> QED BY <1>1, <1>2 DEF Trees

\* A claim starts to make a worktree for a ralph that has no call under way.
LEMMA ClaimTrees ==
  ASSUME Tidy, TreesInv, NEW s \in Session, NEW r \in Ralph, NEW t \in Task, Claim(s, r, t)
  PROVE  TreesInv'
<1> /\ TypeInv /\ CallsInv /\ \A x \in Session : Named(frame[x])
    /\ NoSweep /\ StatusMerged /\ OneCall /\ OwnTree /\ Recorded /\ ReadsOwn /\ Trees
  BY DEF TreesInv, TypeInv, Frames
<1>0. TypeInv'
  BY NextTypes DEF Next
<1>1. /\ \A x \in Session : x # s => frame'[x] = frame[x]
      /\ UNCHANGED git /\ frame[s].at = "idle"
      /\ frame'[s].at = "create" /\ frame'[s].ralph = r /\ frame'[s].task = t
      /\ frame'[s].wt = r
  BY ClaimMoves DEF Tidy, MovesAlone
<1>2. ~ Busy(r) /\ row[t].status = "pending"
  BY DEF Claim
<1>3. CallsInv' /\ Holds(r, t)' /\ \A u \in Task : u # t => row'[u] = row[u]
  BY ClaimCalls
<1>4. Makes(frame'[s])
  BY <1>1 DEF Makes, Making
<1>5. NoSweep' /\ StatusMerged' /\ OwnTree'
  BY <1>1 DEF NoSweep, Sweeps, Sweeping, Cleaning, StatusMerged, OwnTree, At
<1>6. OneCall'
  BY <1>1, <1>2 DEF OneCall, Busy
<1>7. Recorded'
  <2> SUFFICES ASSUME NEW q \in Ralph, NEW u \in Task, Holds(q, u)'
               PROVE  row'[u].wt = q \/ MakesFor(q, u)'
    BY DEF Recorded
  <2>1. CASE u = t
    <3>1. q = r
      BY <1>3, <2>1 DEF Holds
    <3> QED BY <1>1, <1>4, <2>1, <3>1 DEF MakesFor
  <2>2. CASE u # t
    <3>1. Holds(q, u) /\ row'[u].wt = row[u].wt
      BY <1>3, <2>2 DEF Holds
    <3>2. ASSUME NEW x \in Session, Makes(frame[x]), frame[x].ralph = q, frame[x].task = u
          PROVE  MakesFor(q, u)'
      <4>1. x # s
        BY <1>1, <3>2 DEF Makes, Making, Cleaning
      <4> QED BY <1>1, <3>2, <4>1 DEF MakesFor
    <3> QED BY <3>1, <3>2 DEF Recorded, MakesFor
  <2> QED BY <2>1, <2>2
<1>8. ReadsOwn'
  <2> SUFFICES ASSUME NEW x \in Session, frame'[x].at = "read"
               PROVE  row'[frame'[x].task].wt = frame'[x].ralph
    BY DEF ReadsOwn, At
  <2>1. frame'[x] = frame[x] /\ Completes(frame[x]) /\ frame[x].task \in Task
    BY <1>1 DEF Completes, Named
  <2>2. frame[x].task # t
    BY <1>2, <2>1 DEF CallsInv, CompletedRow
  <2> QED BY <1>3, <2>1, <2>2 DEF ReadsOwn, At
<1>9. Trees'
  BY <1>1 DEF Trees, git
<1> QED BY <1>0, <1>3, <1>5, <1>6, <1>7, <1>8, <1>9 DEF TreesInv

\* A completion finds the worktree of its claim on record.
LEMMA CompleteTrees ==
  ASSUME TreesInv, NEW s \in Session, NEW r \in Ralph, NEW t \in Task, Complete(s, r, t)
  PROVE  TreesInv'
<1> /\ TypeInv /\ CallsInv /\ \A x \in Session : Named(frame[x])
    /\ NoSweep /\ StatusMerged /\ OneCall /\ OwnTree /\ Recorded /\ ReadsOwn /\ Trees
  BY DEF TreesInv, TypeInv, Frames
<1>0. TypeInv'
  BY NextTypes DEF Next
<1>1. /\ \A x \in Session : x # s => frame'[x] = frame[x]
      /\ UNCHANGED git /\ frame[s].at = "idle"
      /\ frame'[s].at = "read" /\ frame'[s].ralph = r /\ frame'[s].task = t
      /\ frame'[s].wt = NoRalph
  BY CompleteMoves DEF MovesAlone
<1>2. /\ CallsInv' /\ Holds(r, t) /\ row'[t].status = "completed" /\ row'[t].wt = row[t].wt
      /\ ~ Busy(r) /\ \A u \in Task : u # t => row'[u] = row[u]
  BY CompleteCalls
<1>3. NoSweep' /\ StatusMerged' /\ OwnTree'
  BY <1>1 DEF NoSweep, Sweeps, Sweeping, Cleaning, StatusMerged, OwnTree, At
<1>4. OneCall'
  BY <1>1, <1>2 DEF OneCall, Busy
<1>5. Recorded'
  <2> SUFFICES ASSUME NEW q \in Ralph, NEW u \in Task, Holds(q, u)'
               PROVE  row'[u].wt = q \/ MakesFor(q, u)'
    BY DEF Recorded
  <2>1. u # t
    BY <1>2 DEF Holds
  <2>2. Holds(q, u) /\ row'[u].wt = row[u].wt
    BY <1>2, <2>1 DEF Holds
  <2>3. ASSUME NEW x \in Session, Makes(frame[x]), frame[x].ralph = q, frame[x].task = u
        PROVE  MakesFor(q, u)'
    <3>1. x # s
      BY <1>1, <2>3 DEF Makes, Making, Cleaning
    <3> QED BY <1>1, <2>3, <3>1 DEF MakesFor
  <2> QED BY <2>2, <2>3 DEF Recorded, MakesFor
<1>6. row'[t].wt = r
  BY <1>2 DEF Recorded, MakesFor, Busy
<1>7. ReadsOwn'
  <2> SUFFICES ASSUME NEW x \in Session, x # s, frame[x].at = "read"
               PROVE  row'[frame[x].task].wt = frame[x].ralph
    BY <1>1, <1>6 DEF ReadsOwn, At
  <2>1. Completes(frame[x]) /\ frame[x].task \in Task
    BY DEF Completes, Named
  <2>2. frame[x].task # t
    BY <1>2, <2>1 DEF CallsInv, CompletedRow, Holds
  <2> QED BY <1>2, <2>1, <2>2 DEF ReadsOwn, At
<1>8. Trees'
  BY <1>1 DEF Trees, git
<1> QED BY <1>0, <1>2, <1>3, <1>4, <1>5, <1>7, <1>8 DEF TreesInv

LEMMA ReleaseTrees ==
  ASSUME Tidy, TreesInv, NEW t \in Task, Release(t)
  PROVE  TreesInv'
<1> TypeInv /\ CallsInv /\ \A x \in Session : Named(frame[x])
  BY DEF TreesInv, TypeInv, Frames
<1>1. TypeInv' /\ CallsInv'
  BY ReleaseTypes, ReleaseCalls DEF Tidy
<1>2. UNCHANGED <<frame, git>>
  BY DEF Release
<1>3. row' = [row EXCEPT ![t] = Relinquished(row[t])]
  BY DEF Release
<1>4. \A u \in Task : row'[u].wt = row[u].wt
  BY <1>3 DEF Relinquished, TypeInv, Claims
<1>5. \A u \in Task, r \in Ralph : Holds(r, u)' => Holds(r, u)
  BY <1>3 DEF Relinquished, TypeInv, Claims, Holds
<1>6. Recorded'
  BY <1>2, <1>4, <1>5 DEF TreesInv, Recorded, MakesFor
<1>7. ReadsOwn'
  BY <1>2, <1>4 DEF TreesInv, ReadsOwn, At, Named, Completes
<1> QED BY <1>1, <1>2, <1>6, <1>7
        DEF TreesInv, NoSweep, StatusMerged, OneCall, OwnTree, Trees, git, At

LEMMA NextTrees ==
  ASSUME Tidy, TreesInv, [Next]_vars
  PROVE  TreesInv'
<1> TypeInv /\ CallsInv /\ TypeInv'
  BY NextTypes DEF TreesInv
<1>1. ASSUME NEW s \in Session, Step(s) PROVE TreesInv'
  BY <1>1, StepCalls, StepFrames, StepRecords, StepTrees DEF TreesInv, Tidy
<1>2. ASSUME NEW s \in Session, NEW r \in Ralph, MarkCrashed(s, r) PROVE TreesInv'
  BY <1>2 DEF MarkCrashed, Tidy
<1>3. CASE UNCHANGED <<row, frame, tree>> /\ DOMAIN branch' = DOMAIN branch
  BY <1>3 DEF TreesInv, CallsInv, CompletedRow, OneCompleter, MakerHolds, Holds, NoSweep,
     StatusMerged, OneCall, OwnTree, Recorded, MakesFor, ReadsOwn, Trees, At
<1>4. ASSUME NEW r \in Ralph, NEW t \in Task, WorkerEdits(r, t) \/ WorkerCommits(r, t)
      PROVE  TreesInv'
  BY <1>3, <1>4 DEF WorkerEdits, WorkerCommits
<1> QED
  BY <1>1, <1>2, <1>3, <1>4, ClaimTrees, CompleteTrees, ReleaseTrees, NextSteps
     DEF Register, vars, git

LEMMA TreesKept == ASSUME Tidy PROVE Spec => []TreesInv
<1>1. TreesInv /\ [Next]_vars => TreesInv'
  BY NextTrees
<1> QED BY <1>1, InitTrees, PTL DEF Spec

\* With a worktree for everybody and no sweep, the worktree of a ralph at work
\* is its own, however many others claim, merge and clean up.
THEOREM WorktreesOwn == ASSUME Tidy PROVE Spec => Isolation
<1>1. TreesInv /\ [Next]_vars => [\A r \in Ralph : Working(r) => tree'[r] = tree[r]]_vars
  <2> SUFFICES ASSUME TreesInv, [Next]_vars, NEW r \in Ralph, Working(r)
               PROVE  tree'[r] = tree[r]
    OBVIOUS
  <2> TypeInv /\ NoSweep /\ OwnTree
    BY DEF TreesInv
  <2>1. ASSUME NEW s \in Session, Step(s) PROVE tree'[r] = tree[r]
    <3>1. frame[s].ralph # r
      BY DEF Working, Busy
    <3> QED BY <2>1, <3>1, TreesAlone
  <2>2. ASSUME NEW s \in Session, NEW q \in Ralph, MarkCrashed(s, q) PROVE UNCHANGED tree
    BY <2>2 DEF MarkCrashed, git
  <2>3. ASSUME NEW s \in Session, NEW q \in Ralph, NEW t \in Task,
               Claim(s, q, t) \/ Complete(s, q, t)
        PROVE  UNCHANGED tree
    BY <2>3 DEF Claim, Complete, git
  <2>4. ASSUME NEW q \in Ralph, NEW t \in Task, WorkerEdits(q, t) \/ WorkerCommits(q, t)
        PROVE  UNCHANGED tree
    BY <2>4 DEF WorkerEdits, WorkerCommits
  <2> QED BY <2>1, <2>2, <2>3, <2>4, NextSteps DEF Register, Release, vars, git
<1> QED BY <1>1, TreesKept, PTL DEF Spec, Isolation

-----------------------------------------------------------------------------
(***************************************************************************)
(* What a removal takes along.                                             *)
(***************************************************************************)
OneTask == \A r \in Ralph, t, u \in Task : Holds(r, t) /\ Holds(r, u) => t = u
Checked == \A r \in Ralph, t \in Task : Holds(r, t) => tree[r] = t \/ MakesFor(r, t)
CompleterFree ==
  \A s \in Session, t \in Task : Completes(frame[s]) => ~ Holds(frame[s].ralph, t)
Ending(s) == frame[s].for = "merged" /\ frame[s].at \in Cleaning
MergesOwn ==
  \A s \in Session :
    /\ frame[s].at \in AtMerge \cup {"read"} \/ (Ending(s) /\ frame[s].at # "drop")
         => tree[frame[s].ralph] = frame[s].task
    /\ Ending(s) /\ At(s, "drop") => frame[s].drop = frame[s].task
InMain ==
  \A s \in Session : Merged(s) \in DOMAIN branch =>
    /\ At(s, "succeeded") \/ Ending(s) => Content(branch[Merged(s)]) \subseteq Content(main)
    /\ At(s, "commit") => Content(branch[Merged(s)]) \subseteq InHand

DropInv == TreesInv /\ OneTask /\ Checked /\ CompleterFree /\ MergesOwn /\ InMain

LEMMA InitDrop == Init => DropInv
<1> SUFFICES ASSUME Init PROVE DropInv
  OBVIOUS
<1>1. \A s \in Session : frame[s] = Idle
  BY DEF Init
<1>2. \A s \in Session : frame[s].at = "idle" /\ ~ Completes(frame[s])
  BY <1>1, IdleFields, IdleFrame
<1>3. OneTask /\ Checked
  BY DEF Init, OneTask, Checked, Holds
<1>4. CompleterFree /\ MergesOwn /\ InMain
  BY <1>2 DEF CompleterFree, MergesOwn, InMain, Ending, Cleaning, AtMerge, At
<1> QED BY <1>3, <1>4, InitTrees DEF DropInv

LEMMA StepChecked ==
  ASSUME Tidy, DropInv, NEW s \in Session, Step(s)
  PROVE  OneTask' /\ Checked' /\ CompleterFree'
<1> /\ TreesInv /\ TypeInv /\ CallsInv /\ NoSweep /\ OwnTree /\ Trees /\ ~ Stops
    /\ OneTask /\ Checked /\ CompleterFree
    /\ \A x \in Session : Named(frame[x])
  BY DEF DropInv, TreesInv, TypeInv, Frames, Tidy
<1>0. \A x \in Session : x # s => frame'[x] = frame[x]
  BY Moved DEF MovesAlone
<1>1. \A r \in Ralph, t \in Task : Holds(r, t)' = Holds(r, t)
  BY StepHolds
<1>2. OneTask'
  BY <1>1 DEF OneTask
<1>3. CompleterFree'
  <2>1. \A x \in Session : Completes(frame'[x]) =>
          Completes(frame[x]) /\ frame'[x].ralph = frame[x].ralph
    BY <1>0, CallGoesOn
  <2> QED BY <1>1, <2>1 DEF CompleterFree, Named
<1>4. Checked'
  <2> SUFFICES ASSUME NEW r \in Ralph, NEW t \in Task, Holds(r, t)'
               PROVE  tree'[r] = t \/ MakesFor(r, t)'
    BY DEF Checked
  <2>1. Holds(r, t)
    BY <1>1
  <2>2. ASSUME Makes(frame[s]), frame[s].ralph = r, frame[s].task = t
        PROVE  tree'[r] = t \/ MakesFor(r, t)'
    <3>1. CASE Makes(frame'[s]) /\ Same(s)
      BY <2>2, <3>1 DEF MakesFor, Same
    <3>2. CASE RecordTree(s)
      BY <2>2, <3>2 DEF RecordTree, At, Trees, git
    <3> QED BY <2>2, <3>1, <3>2, MakerGoesOn
  <2>3. CASE frame[s].ralph = r
    <3>1. Makes(frame[s])
      BY <2>1, <2>3, StepOfCall DEF CompleterFree
    <3>2. frame[s].task \in Task /\ Holds(r, frame[s].task)
      BY <2>3, <3>1 DEF CallsInv, MakerHolds, Named
    <3>3. frame[s].task = t
      BY <2>1, <3>2 DEF OneTask
    <3> QED BY <2>2, <2>3, <3>1, <3>3
  <2>4. CASE frame[s].ralph # r
    <3>1. tree'[r] = tree[r]
      BY <2>4, TreesAlone
    <3>2. ASSUME NEW x \in Session, Makes(frame[x]), frame[x].ralph = r, frame[x].task = t
          PROVE  MakesFor(r, t)'
      BY <1>0, <2>4, <3>2 DEF MakesFor
    <3> QED BY <2>1, <3>1, <3>2 DEF Checked, MakesFor
  <2> QED BY <2>3, <2>4
<1> QED BY <1>2, <1>3, <1>4

LEMMA StepMergesOwn ==
  ASSUME Tidy, DropInv, NEW s \in Session, Step(s)
  PROVE  MergesOwn'
<1> /\ TreesInv /\ TypeInv /\ NoSweep /\ OneCall /\ OwnTree /\ StatusMerged /\ MergesOwn
    /\ ~ Stops
    /\ \A x \in Session : Named(frame[x])
  BY DEF DropInv, TreesInv, TypeInv, Frames, Tidy
<1> DEFINE Own(x) ==
      /\ frame[x].at \in AtMerge \cup {"read"} \/ (Ending(x) /\ frame[x].at # "drop")
           => tree[frame[x].ralph] = frame[x].task
      /\ Ending(x) /\ At(x, "drop") => frame[x].drop = frame[x].task
<1>1. ASSUME NEW x \in Session, x # s PROVE Own(x)'
  <2>1. frame'[x] = frame[x]
    BY <1>1, Moved DEF MovesAlone
  <2>2. frame[x].ralph \in Ralph => tree'[frame[x].ralph] = tree[frame[x].ralph]
    BY <1>1, TreesAlone DEF OneCall
  <2>3. frame[x].at \in AtMerge \cup {"read"} \/ Ending(x) => frame[x].ralph \in Ralph
    BY DEF Ending, Named, Completes
  <2> QED BY <2>1, <2>2, <2>3 DEF MergesOwn, Ending, At
<1>2. Own(s)'
  <2>1. CASE frame'[s].at = "drop"
    <3>1. Remove(s) /\ frame'[s].drop = tree[frame[s].wt] /\ frame[s].at = "remove"
      BY <2>1, ToTree DEF Remove, At
    <3>2. frame[s].wt = frame[s].ralph
      BY <3>1, StepOfCall, AutoMergeAssumption DEF OwnTree, Cleaning
    <3>3. frame'[s].for = frame[s].for /\ frame'[s].task = frame[s].task
      BY <2>1, <3>1, RemoveMoves DEF Same
    <3> QED BY <2>1, <3>1, <3>2, <3>3 DEF MergesOwn, Ending, At, Cleaning, AtMerge
  <2>2. CASE frame'[s].at \in AtMerge
    <3>1. frame[s].at \in AtMerge \cup {"read"}
      BY <2>2, CallGoesOn
    <3>2. UNCHANGED tree
      BY <3>1, TreeChanges DEF Add, AddOld, Remove, At, AtMerge
    <3>3. frame'[s].ralph = frame[s].ralph /\ frame'[s].task = frame[s].task
      BY <2>2, CallGoesOn DEF Completes
    <3> QED BY <2>2, <3>1, <3>2, <3>3 DEF MergesOwn, AtMerge, At
  <2>3. CASE Ending(s)' /\ frame'[s].at # "drop"
    <3>1. Same(s) /\ (frame[s].at = "succeeded" \/ (Ending(s) /\ frame'[s].at = "remove"))
      BY <2>3, Moved, IdleFields
         DEF OnItsWay, Ending, Makes, Making, Cleaning, AtMerge, Sweeps, Sweeping, NoSweep
    <3>2. frame[s].at \in {"succeeded", "status"}
      <4>1. CASE Remove(s)
        <5>1. frame[s].at = "remove" /\ frame[s].at \in Cleaning
          BY <4>1 DEF Remove, At, Cleaning
        <5>2. frame[s].for = "merged"
          BY <3>1, <5>1 DEF Ending
        <5>3. frame'[s] = Idle
          BY <2>3, <4>1, <5>1, <5>2, RemoveMoves, AfterMoves
        <5> QED BY <2>3, <5>3, IdleFields DEF Ending, Cleaning
      <4>2. CASE Drop(s)
        <5>1. frame[s].at = "drop" /\ frame[s].at \in Cleaning /\ After(s, TRUE)
          BY <4>2 DEF Drop, At, Cleaning
        <5>2. frame[s].for = "merged"
          BY <3>1, <5>1 DEF Ending
        <5>3. frame'[s] = Idle
          BY <5>1, <5>2, AfterMoves
        <5> QED BY <2>3, <5>3, IdleFields DEF Ending, Cleaning
      <4>3. CASE ~ Remove(s) /\ ~ Drop(s)
        BY <3>1, <4>3
           DEF Step, Create, Add, AddOld, RecordTree, Status, ReadRow, Checkout, Pull, FastForward,
               MergeCommit, Squash, SquashCommit, DetectConflicts, Abort, ResetHead, Succeeded,
               Failed, ReleaseFailed, SweepList, SweepDirs, SweepNext, TimesOut, Killed, At,
               Ending, Cleaning
      <4> QED BY <4>1, <4>2, <4>3
    <3>3. UNCHANGED tree
      BY <3>2, TreeChanges DEF Add, AddOld, Remove, At
    <3> QED BY <2>3, <3>1, <3>2, <3>3 DEF MergesOwn, Ending, Same, AtMerge, At, Cleaning
  <2>4. frame'[s].at # "read"
    BY Moved, IdleFields DEF OnItsWay, Makes, Making, Cleaning, Sweeps, Sweeping, AtMerge
  <2> QED BY <2>1, <2>2, <2>3, <2>4 DEF At
<1> QED BY <1>1, <1>2 DEF MergesOwn

LEMMA StepInMain ==
  ASSUME ResetsAlone, DropInv, NEW s \in Session, Step(s)
  PROVE  InMain'
<1> /\ TypeInv /\ CallsInv /\ NoSweep /\ InMain
    /\ \A x \in Session : Named(frame[x])
  BY DEF DropInv, TreesInv, TypeInv, Frames
\* The branch of a completion is left alone, and main grows.
<1>1. ASSUME NEW x \in Session, At(x, "succeeded") \/ Ending(x) \/ At(x, "commit"),
             Merged(x) \in DOMAIN branch'
      PROVE  Merged(x) \in DOMAIN branch /\ branch'[Merged(x)] = branch[Merged(x)]
  <2>1. Completes(frame[x]) /\ frame[x].task \in Task /\ frame[x].wt \in Ralph
    BY <1>1 DEF At, Ending, Completes, Named, AtMerge
  <2>2. row[frame[x].task].status = "completed"
    BY <2>1 DEF CallsInv, CompletedRow
  <2> QED BY <1>1, <2>1, <2>2, BranchKept DEF Merged
<1>2. Content(main) \subseteq Content(main')
  BY MainGrows, ContentGrows
<1>3. ASSUME NEW x \in Session, At(x, "succeeded")' \/ Ending(x)', Merged(x)' \in DOMAIN branch'
      PROVE  Content(branch'[Merged(x)']) \subseteq Content(main')
  <2>1. CASE x # s
    <3>1. frame'[x] = frame[x] /\ Merged(x)' = Merged(x)
      BY <2>1, Moved DEF MovesAlone, Merged
    <3>2. At(x, "succeeded") \/ Ending(x)
      BY <1>3, <3>1 DEF At, Ending
    <3> QED BY <1>1, <1>2, <1>3, <3>1, <3>2 DEF InMain
  <2>2. CASE x = s /\ At(s, "succeeded")'
    <3>1. CASE At(s, "commit")
      BY <1>3, <2>2, <3>1, ToSuccess DEF InMain, At
    <3>2. CASE ~ At(s, "commit")
      BY <2>2, <3>2, ToSuccess
    <3> QED BY <3>1, <3>2
  <2>3. CASE x = s /\ Ending(s)'
    <3>1. Same(s) /\ (At(s, "succeeded") \/ Ending(s))
      BY <2>3, Moved, IdleFields
         DEF OnItsWay, Ending, Makes, Making, Cleaning, AtMerge, Sweeps, Sweeping, NoSweep, At
    <3>2. Merged(s)' = Merged(s)
      BY <3>1 DEF Merged, Same
    <3> QED BY <1>1, <1>2, <1>3, <2>3, <3>1, <3>2 DEF InMain
  <2> QED BY <1>3, <2>1, <2>2, <2>3
<1>4. ASSUME NEW x \in Session, At(x, "commit")', Merged(x)' \in DOMAIN branch'
      PROVE  Content(branch'[Merged(x)']) \subseteq InHand'
  <2>1. CASE x # s
    <3>1. frame'[x] = frame[x] /\ Merged(x)' = Merged(x)
      BY <2>1, Moved DEF MovesAlone, Merged
    <3>2. At(x, "commit")
      BY <1>4, <3>1 DEF At
    <3>3. Content(branch[Merged(x)]) \subseteq InHand /\ branch'[Merged(x)'] = branch[Merged(x)]
      BY <1>1, <1>4, <3>1, <3>2 DEF InMain
    <3> QED BY <2>1, <3>2, <3>3, StaysInHand DEF ResetsAlone
  <2>2. CASE x = s
    BY <1>4, <2>2, ToCommit
  <2> QED BY <2>1, <2>2
<1> QED BY <1>3, <1>4 DEF InMain

LEMMA ClaimChecked ==
  ASSUME Tidy, DropInv, NEW s \in Session, NEW r \in Ralph, NEW t \in Task, Claim(s, r, t)
  PROVE  OneTask' /\ Checked' /\ CompleterFree' /\ MergesOwn' /\ InMain'
<1> /\ TypeInv /\ CallsInv /\ OneTask /\ Checked /\ CompleterFree /\ MergesOwn /\ InMain
    /\ \A x \in Session : Named(frame[x])
  BY DEF DropInv, TreesInv, TypeInv, Frames
<1>1. /\ \A x \in Session : x # s => frame'[x] = frame[x]
      /\ UNCHANGED git /\ frame[s].at = "idle"
      /\ frame'[s].at = "create" /\ frame'[s].ralph = r /\ frame'[s].task = t
  BY ClaimMoves DEF Tidy, MovesAlone
<1>2. ~ Busy(r) /\ \A u \in Task : ~ Holds(r, u)
  BY DEF Claim
<1>3. Holds(r, t)' /\ \A u \in Task : u # t => row'[u] = row[u]
  BY ClaimCalls
<1>4. Makes(frame'[s]) /\ ~ Completes(frame'[s]) /\ ~ Ending(s)'
  BY <1>1 DEF Makes, Making, Completes, Cleaning, AtMerge, Ending
<1>5. \A q \in Ralph, u \in Task : Holds(q, u)' => (q = r /\ u = t) \/ Holds(q, u)
  BY <1>3 DEF Holds
<1>6. OneTask'
  BY <1>2, <1>5 DEF OneTask
<1>7. Checked'
  <2> SUFFICES ASSUME NEW q \in Ralph, NEW u \in Task, Holds(q, u)'
               PROVE  tree'[q] = u \/ MakesFor(q, u)'
    BY DEF Checked
  <2>1. CASE q = r /\ u = t
    BY <1>1, <1>4, <2>1 DEF MakesFor
  <2>2. CASE Holds(q, u)
    <3>1. ASSUME NEW x \in Session, Makes(frame[x]), frame[x].ralph = q, frame[x].task = u
          PROVE  MakesFor(q, u)'
      <4>1. x # s
        BY <1>1, <3>1 DEF Makes, Making, Cleaning
      <4> QED BY <1>1, <3>1, <4>1 DEF MakesFor
    <3> QED BY <1>1, <2>2, <3>1 DEF Checked, MakesFor, git
  <2> QED BY <1>5, <2>1, <2>2
<1>8. CompleterFree'
  <2> SUFFICES ASSUME NEW x \in Session, NEW u \in Task, Completes(frame'[x])
               PROVE  ~ Holds(frame[x].ralph, u)'
    BY DEF CompleterFree, Holds
  <2>1. x # s /\ frame'[x] = frame[x] /\ frame[x].ralph \in Ralph
    BY <1>1, <1>4 DEF Named
  <2>2. frame[x].ralph # r
    BY <1>2 DEF Busy
  <2>3. ~ Holds(frame[x].ralph, u)
    BY <2>1 DEF CompleterFree
  <2> QED BY <1>3, <2>1, <2>2, <2>3 DEF Holds
<1>9. MergesOwn'
  BY <1>1, <1>4 DEF MergesOwn, Ending, At, AtMerge, git
<1>10. InMain'
  BY <1>1, <1>4 DEF InMain, InHand, Ending, At, Merged, git
<1> QED BY <1>6, <1>7, <1>8, <1>9, <1>10

LEMMA CompleteChecked ==
  ASSUME DropInv, NEW s \in Session, NEW r \in Ralph, NEW t \in Task, Complete(s, r, t)
  PROVE  OneTask' /\ Checked' /\ CompleterFree' /\ MergesOwn' /\ InMain'
<1> /\ TypeInv /\ CallsInv /\ OneTask /\ Checked /\ CompleterFree /\ MergesOwn /\ InMain
    /\ \A x \in Session : Named(frame[x])
  BY DEF DropInv, TreesInv, TypeInv, Frames
<1>1. /\ \A x \in Session : x # s => frame'[x] = frame[x]
      /\ UNCHANGED git /\ frame[s].at = "idle"
      /\ frame'[s].at = "read" /\ frame'[s].ralph = r /\ frame'[s].task = t
  BY CompleteMoves DEF MovesAlone
<1>2. /\ Holds(r, t) /\ row'[t].status = "completed"
      /\ ~ Busy(r) /\ \A u \in Task : u # t => row'[u] = row[u]
  BY CompleteCalls
<1>3. \A q \in Ralph, u \in Task : Holds(q, u)' => u # t /\ Holds(q, u)
  BY <1>2 DEF Holds
<1>4. OneTask'
  BY <1>3 DEF OneTask
<1>5. Checked'
  <2> SUFFICES ASSUME NEW q \in Ralph, NEW u \in Task, Holds(q, u)'
               PROVE  tree'[q] = u \/ MakesFor(q, u)'
    BY DEF Checked
  <2>1. ASSUME NEW x \in Session, Makes(frame[x]), frame[x].ralph = q, frame[x].task = u
        PROVE  MakesFor(q, u)'
    <3>1. x # s
      BY <1>1, <2>1 DEF Makes, Making, Cleaning
    <3> QED BY <1>1, <2>1, <3>1 DEF MakesFor
  <2> QED BY <1>1, <1>3, <2>1 DEF Checked, MakesFor, git
<1>6. CompleterFree'
  <2> SUFFICES ASSUME NEW x \in Session, NEW u \in Task, Completes(frame'[x])
               PROVE  ~ Holds(frame[x].ralph, u)'
    BY DEF CompleterFree, Holds
  <2>1. CASE x = s
    <3>1. Holds(r, u)' => FALSE
      BY <1>2, <1>3 DEF OneTask
    <3> QED BY <1>1, <2>1, <3>1 DEF Holds
  <2>2. CASE x # s
    <3>1. frame'[x] = frame[x] /\ frame[x].ralph \in Ralph
      BY <1>1, <2>2 DEF Named
    <3>2. ~ Holds(frame[x].ralph, u)
      BY <3>1 DEF CompleterFree
    <3> QED BY <1>2, <3>1, <3>2 DEF Holds
  <2> QED BY <2>1, <2>2
<1>7. tree'[r] = t
  BY <1>1, <1>2 DEF Checked, MakesFor, Busy, git
<1>8. MergesOwn'
  BY <1>1, <1>7 DEF MergesOwn, Ending, At, AtMerge, Cleaning, git
<1>9. InMain'
  BY <1>1 DEF InMain, InHand, Ending, At, Cleaning, Merged, git
<1> QED BY <1>4, <1>5, <1>6, <1>8, <1>9

\* What the workers and the other calls do to a branch.
LEMMA OthersInMain ==
  ASSUME DropInv, UNCHANGED <<main, index, frame>>,
         \A w \in Ralph, t \in Task : <<w, t>> \in DOMAIN branch' =>
           /\ <<w, t>> \in DOMAIN branch
           /\ row[t].status = "completed" => branch'[<<w, t>>] = branch[<<w, t>>]
  PROVE  InMain'
<1> SUFFICES ASSUME NEW x \in Session, At(x, "succeeded") \/ Ending(x) \/ At(x, "commit"),
                    Merged(x) \in DOMAIN branch'
             PROVE  Merged(x) \in DOMAIN branch /\ branch'[Merged(x)] = branch[Merged(x)]
  BY DEF DropInv, InMain, Merged, At, Ending, InHand
<1>1. Completes(frame[x]) /\ frame[x].wt \in Ralph /\ frame[x].task \in Task
  BY DEF Completes, AtMerge, Ending, At, DropInv, TreesInv, TypeInv, Frames, Named
<1>2. row[frame[x].task].status = "completed"
  BY <1>1 DEF DropInv, TreesInv, CallsInv, CompletedRow
<1> QED BY <1>1, <1>2 DEF Merged

\* Cleaning up after a success deletes the branch that was merged, and no other:
\* nothing that a worker has committed is lost, unless somebody resets the index
\* while another session's squash awaits its commit.
THEOREM NothingLost == ASSUME Tidy PROVE Spec /\ []ResetsAlone => []NothingDropped
<1>1. DropInv /\ ResetsAlone /\ [Next]_vars => DropInv'
  <2> SUFFICES ASSUME DropInv, ResetsAlone, [Next]_vars PROVE DropInv'
    OBVIOUS
  <2> DEFINE Rest == OneTask /\ Checked /\ CompleterFree /\ MergesOwn /\ InMain
  <2> TreesInv /\ TypeInv /\ CallsInv /\ Rest
    BY DEF DropInv, TreesInv
  <2>1. ASSUME NEW s \in Session, Step(s) PROVE Rest'
    BY <2>1, StepChecked, StepMergesOwn, StepInMain
  <2>2. ASSUME NEW s \in Session, NEW r \in Ralph, MarkCrashed(s, r) PROVE Rest'
    BY <2>2 DEF MarkCrashed, Tidy
  <2>3. ASSUME NEW s \in Session, NEW r \in Ralph, NEW t \in Task, Claim(s, r, t) PROVE Rest'
    BY <2>3, ClaimChecked
  <2>4. ASSUME NEW s \in Session, NEW r \in Ralph, NEW t \in Task, Complete(s, r, t) PROVE Rest'
    BY <2>4, CompleteChecked
  <2>5. ASSUME UNCHANGED <<frame, tree>>, InMain',
               \A q \in Ralph, u \in Task : Holds(q, u)' => Holds(q, u)
        PROVE  Rest'
    <3>1. CompleterFree'
      <4> SUFFICES ASSUME NEW x \in Session, NEW u \in Task, Completes(frame[x])
                   PROVE  ~ Holds(frame[x].ralph, u)'
        BY <2>5 DEF CompleterFree, Holds
      <4>1. frame[x].ralph \in Ralph /\ ~ Holds(frame[x].ralph, u)
        BY DEF CompleterFree, TypeInv, Frames, Named
      <4> QED BY <2>5, <4>1
    <3> QED BY <2>5, <3>1 DEF OneTask, Checked, MakesFor, MergesOwn, Ending, At
  <2>6. ASSUME NEW t \in Task, Release(t) PROVE Rest'
    <3>1. /\ UNCHANGED <<frame, git>>
          /\ \A q \in Ralph, u \in Task : Holds(q, u)' => Holds(q, u)
      BY <2>6 DEF Release, Relinquished, TypeInv, Claims, Holds
    <3> QED BY <2>5, <3>1, OthersInMain DEF git
  <2>7. ASSUME UNCHANGED <<row, frame, tree, branch, main, index>> PROVE Rest'
    BY <2>5, <2>7, OthersInMain DEF Holds
  <2>8. ASSUME NEW r \in Ralph, NEW t \in Task, WorkerCommits(r, t) PROVE Rest'
    <3>1. /\ UNCHANGED <<row, main, index, frame, tree>> /\ row[t].status = "in_progress"
          /\ DOMAIN branch' = DOMAIN branch
          /\ \A b \in DOMAIN branch : b # <<r, t>> => branch'[b] = branch[b]
      BY <2>8 DEF WorkerCommits, TypeInv, Repository
    <3>2. InMain'
      BY <3>1, OthersInMain
    <3> QED BY <2>5, <3>1, <3>2 DEF Holds
  <2>9. Rest'
    BY <2>1, <2>2, <2>3, <2>4, <2>6, <2>7, <2>8, NextSteps
       DEF Register, WorkerEdits, vars, git
  <2> QED BY <2>9, NextTrees DEF DropInv
<1>2. DropInv => NothingDropped
  <2> SUFFICES ASSUME DropInv, NEW s \in Session, At(s, "drop"), ~ Forced(s)
               PROVE  LET b == <<frame[s].wt, frame[s].drop>>
                      IN  b \in DOMAIN branch => Content(branch[b]) \subseteq Content(main)
    BY DEF NothingDropped
  <2>1. Ending(s)
    BY DEF Forced, At, Ending, Cleaning
  <2>2. frame[s].drop = frame[s].task
    BY <2>1 DEF DropInv, MergesOwn
  <2> QED BY <2>1, <2>2 DEF DropInv, InMain, Merged
<1> QED BY <1>1, <1>2, InitDrop, PTL DEF Spec

\* Two sessions that squash work for one ralph, which makes one call at a time.
OneSquasher == \A q, r \in Ralph : Strategy[q] = "squash" /\ Strategy[r] = "squash" => q = r

LEMMA AloneTidy == ASSUME Tidy, OneSquasher PROVE Spec => []ResetsAlone
<1>1. Init => Chosen
  BY InitCheckout DEF CheckoutInv
<1>2. TypeInv /\ Chosen /\ [Next]_vars => Chosen'
  BY StepChosen, OthersChosen
<1>3. TreesInv /\ Chosen => ResetsAlone
  <2> SUFFICES ASSUME TreesInv, Chosen, NEW s \in Session, NEW x \in Session, s # x,
                      At(x, "commit"), At(s, "reset")
               PROVE  FALSE
    BY DEF ResetsAlone
  <2>1. \A y \in {s, x} : /\ Strategy[frame[y].wt] = "squash"
                          /\ frame[y].wt \in Ralph /\ frame[y].wt = frame[y].ralph
    BY AutoMergeAssumption
       DEF TreesInv, TypeInv, Frames, Named, AtMerge, Chosen, Squashing, At, OwnTree
  <2>2. frame[s].ralph = frame[x].ralph
    BY <2>1 DEF OneSquasher
  <2> QED BY <2>1, <2>2 DEF TreesInv, OneCall
<1>4. TreesInv => TypeInv
  BY DEF TreesInv
<1> QED BY <1>1, <1>2, <1>3, <1>4, TreesKept, PTL DEF Spec

\* So it is with one ralph at most that squashes, and with one session.
COROLLARY NothingLostAlways ==
  ASSUME Tidy, OneSquasher \/ OneSession PROVE Spec => []NothingDropped
<1>1. CASE OneSession
  BY <1>1, Alone, NothingLost, PTL
<1>2. CASE OneSquasher
  BY <1>2, AloneTidy, NothingLost, PTL
<1> QED BY <1>1, <1>2

=============================================================================
