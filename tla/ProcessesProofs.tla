--------------------------- MODULE ProcessesProofs ---------------------------
(***************************************************************************)
(* The limit on workers and what a cleanup overwrites, for any number of   *)
(* workers and consoles; and one daemon at a time, for any number of pids. *)
(***************************************************************************)
EXTENDS Processes, DaemonGuard, FiniteSetTheorems, TLAPS

-----------------------------------------------------------------------------
(***************************************************************************)
(* Types.  TypeOK, cut by who writes what, with the two facts it needs to  *)
(* be inductive: parents have a type, and an actor in the middle of        *)
(* something knows the worker it is about.                                 *)
(***************************************************************************)
Children ==
  /\ proc \in [Workers -> {"unborn", "up", "zombie", "gone"}]
  /\ parent \in [Workers -> Actors \cup {None}]
  /\ by \in [Workers -> Actors \cup {None}]
  /\ code \in [Workers -> {"none", "zero", "error"}]
  /\ told \subseteq Workers
  /\ said \in [Workers -> Final \cup {"none"}]

Lineage == \A w \in Workers : parent[w] \in {None, by[w]} /\ (parent[w] # None => parent[w] \in up)

Codes == \A w \in Workers : code[w] # "none" <=> Dead(w)

Files ==
  /\ pidf \in [Workers -> {"none", "empty", "pid"}]
  /\ stat \in [Workers -> Final \cup {"busy"}]

Places ==
  /\ up \subseteq Actors
  /\ pc \in [Actors -> [op : Ops, w : Workers \cup {None}]]
  /\ \A a \in Actors \ up : pc[a] = Idle
  /\ \A a \in Actors : pc[a].op \notin {"idle", "may"} => pc[a].w \in Workers

TypeInv == Children /\ Lineage /\ Codes /\ Files /\ Places

LEMMA TypeInvTypes == TypeInv => TypeOK
BY DEF TypeInv, Children, Lineage, Codes, Files, Places, TypeOK, Dead

LEMMA InitTypes == Init => TypeInv
<1> SUFFICES ASSUME Init PROVE TypeInv
  OBVIOUS
<1>1. Children
  BY DEF Init, Children, Final
<1>2. Lineage
  BY DEF Init, Lineage
<1>3. Codes
  BY DEF Init, Codes, Dead
<1>4. Files
  BY DEF Init, Files, Final
<1>5. Places
  BY DEF Init, Places, Idle, Ops
<1> QED BY <1>1, <1>2, <1>3, <1>4, <1>5 DEF TypeInv

\* An actor that goes on with the worker it has, ...
LEMMA StepPlaces ==
  ASSUME Places, NEW a \in up, NEW op \in Ops, Step(a, op), up' = up, pc[a].w \in Workers
  PROVE  Places'
BY DEF Places, Step

\* ... takes one in hand, ...
LEMMA BeginPlaces ==
  ASSUME Places, NEW a \in up, NEW op \in Ops, NEW w \in Workers, Begin(a, op, w), up' = up
  PROVE  Places'
BY DEF Places, Begin

\* ... or has done with it.
LEMMA DonePlaces ==
  ASSUME Places, NEW a \in up, Done(a), up' = up
  PROVE  Places'
BY DEF Places, Done, Idle, Ops

LEMMA StandPlaces == ASSUME Places, UNCHANGED <<up, pc>> PROVE Places'
BY DEF Places

\* A step that leaves the processes alone.
LEMMA ChildStays ==
  ASSUME Children, Lineage, Codes, UNCHANGED <<child, up>>
  PROVE  Children' /\ Lineage' /\ Codes'
BY DEF Children, Lineage, Codes, child, Dead

\* A process that ends.
LEMMA EndsTypes ==
  ASSUME Children, Lineage, Codes, NEW w \in Workers, NEW c \in {"zero", "error"},
         Ends(w, c), UNCHANGED <<parent, by, said, up>>
  PROVE  Children' /\ Lineage' /\ Codes'
<1>1. Children'
  BY DEF Children, Ends
<1>2. Lineage'
  BY DEF Lineage, Ends
<1>3. Codes'
  BY DEF Children, Codes, Ends, Dead
<1> QED BY <1>1, <1>2, <1>3

\* A process that is reaped, or stays.
LEMMA ReapTypes ==
  ASSUME Children, Lineage, Codes, NEW w \in Workers, Dead(w) \/ proc' = proc,
         proc' \in {proc, [proc EXCEPT ![w] = "gone"]},
         UNCHANGED <<parent, by, code, told, said, up>>
  PROVE  Children' /\ Lineage' /\ Codes'
<1>1. Children'
  BY DEF Children
<1>2. Lineage'
  BY DEF Lineage
<1>3. Codes'
  BY DEF Children, Codes, Dead
<1> QED BY <1>1, <1>2, <1>3

LEMMA ReapedIs ==
  ASSUME Children, NEW a, NEW w \in Workers
  PROVE  /\ Reaped(a, w) \in {proc, [proc EXCEPT ![w] = "gone"]}
         /\ Dead(w) \/ Reaped(a, w) = proc
BY DEF Children, Reaped, Dead

-----------------------------------------------------------------------------
\* The worker's own steps.
LEMMA WorkerTypes ==
  ASSUME TypeInv, NEW w \in Workers, (\E s \in Final : Reports(w, s)) \/ Exits(w) \/ Dies(w)
  PROVE  TypeInv'
<1> USE DEF TypeInv
<1>1. CASE \E s \in Final : Reports(w, s)
  <2>1. PICK s \in Final : Reports(w, s)
    BY <1>1
  <2>2. Children' /\ Lineage' /\ Codes'
    BY <2>1 DEF Children, Lineage, Codes, Reports, Dead
  <2>3. Files'
    BY <2>1 DEF Files, Reports
  <2> QED BY <2>1, <2>2, <2>3, StandPlaces DEF Reports
<1>2. CASE Exits(w)
  <2>1. Children' /\ Lineage' /\ Codes'
    BY <1>2, EndsTypes DEF Exits
  <2> QED BY <1>2, <2>1, StandPlaces DEF Exits, Files
<1>3. CASE Dies(w)
  <2>1. Children' /\ Lineage' /\ Codes'
    BY <1>3, EndsTypes DEF Dies
  <2> QED BY <1>3, <2>1, StandPlaces DEF Dies, Files
<1> QED BY <1>1, <1>2, <1>3

LEMMA SpawningTypes == ASSUME TypeInv, NEW a \in Actors, Spawning(a) PROVE TypeInv'
<1> USE DEF TypeInv
<1>1. ASSUME NEW w \in Workers, Launches(a, w) PROVE TypeInv'
  <2>1. a \in up /\ proc[w] = "unborn" /\ UNCHANGED <<code, told, said, pidf, stat, up>>
    BY <1>1 DEF Launches, At
  <2>2. Children'
    BY <1>1, <2>1 DEF Children, Launches
  <2>3. Lineage'
    BY <1>1, <2>1 DEF Children, Lineage, Launches
  <2>4. Codes'
    BY <1>1, <2>1 DEF Children, Codes, Launches, Dead
  <2>5. Places'
    BY <1>1, <2>1, BeginPlaces DEF Launches, Ops
  <2> QED BY <2>1, <2>2, <2>3, <2>4, <2>5 DEF Files
<1>2. CASE OpensPid(a)
  <2>1. a \in up /\ pc[a].w \in Workers
    BY <1>2 DEF OpensPid, At, Places
  <2>2. Files' /\ Places'
    BY <1>2, <2>1, StepPlaces DEF OpensPid, Files, Ops
  <2> QED BY <1>2, <2>2, ChildStays DEF OpensPid
<1>3. CASE WritesPid(a)
  <2>1. a \in up /\ pc[a].w \in Workers
    BY <1>3 DEF WritesPid, At, Places
  <2>2. Files' /\ Places'
    BY <1>3, <2>1, StepPlaces DEF WritesPid, Files, Ops
  <2> QED BY <1>3, <2>2, ChildStays DEF WritesPid
<1>4. CASE Polls(a)
  <2> DEFINE w == pc[a].w
  <2>1. a \in up /\ w \in Workers
    BY <1>4 DEF Polls, At, Places
  <2>2. Children' /\ Lineage' /\ Codes'
    <3>1. proc' \in {proc, [proc EXCEPT ![w] = "gone"]} /\ (Dead(w) \/ proc' = proc)
      BY <1>4, <2>1 DEF Polls, Children
    <3>2. UNCHANGED <<parent, by, code, told, said, up>>
      BY <1>4 DEF Polls
    <3> HIDE DEF w
    <3> QED BY <2>1, <3>1, <3>2, ReapTypes
  <2>3. Files'
    BY <1>4, <2>1 DEF Polls, Files, Final
  <2>4. Places'
    BY <1>4, <2>1, StepPlaces, DonePlaces DEF Polls, Ops
  <2> QED BY <2>2, <2>3, <2>4
<1>5. CASE NotesWork(a)
  <2>1. a \in up /\ pc[a].w \in Workers
    BY <1>5 DEF NotesWork, At, Places
  <2>2. Files' /\ Places'
    BY <1>5, <2>1, DonePlaces DEF NotesWork, Files
  <2> QED BY <1>5, <2>2, ChildStays DEF NotesWork
<1> QED BY <1>1, <1>2, <1>3, <1>4, <1>5 DEF Spawning

LEMMA CleaningTypes ==
  ASSUME TypeInv, NEW a \in Actors, Cleaning(a) \/ (\E w \in Workers : Stops(a, w))
  PROVE  TypeInv'
<1> USE DEF TypeInv
<1>1. ASSUME NEW w \in Workers, CleanLooks(a, w) PROVE TypeInv'
  <2>1. a \in up /\ proc' = Reaped(a, w) /\ UNCHANGED <<parent, by, code, told, said, stat, up>>
    BY <1>1 DEF CleanLooks, CleansUp, At
  <2>2. Children' /\ Lineage' /\ Codes'
    BY <2>1, ReapedIs, ReapTypes
  <2>3. Files' /\ Places'
    BY <1>1, <2>1, BeginPlaces, StandPlaces DEF CleanLooks, CleansUp, Files, Ops
  <2> QED BY <2>2, <2>3
<1>2. CASE CleanMarks(a)
  <2>1. a \in up /\ pc[a].w \in Workers
    BY <1>2 DEF CleanMarks, At, Places
  <2>2. Files' /\ Places'
    BY <1>2, <2>1, DonePlaces DEF CleanMarks, Files, Final
  <2> QED BY <1>2, <2>2, ChildStays DEF CleanMarks
<1>3. ASSUME NEW w \in Workers, Stops(a, w) PROVE TypeInv'
  <2>1. Children' /\ Lineage' /\ Codes'
    BY <1>3 DEF Stops, Children, Lineage, Codes, Dead
  <2>2. Files'
    BY <1>3 DEF Stops, Files
  <2> QED BY <1>3, <2>1, <2>2, StandPlaces DEF Stops
<1> QED BY <1>1, <1>2, <1>3 DEF Cleaning

LEMMA LifeTypes ==
  ASSUME TypeInv, NEW a \in Actors, ActorDies(a) \/ ActorStarts(a)
  PROVE  TypeInv'
<1> USE DEF TypeInv
<1>1. CASE ActorDies(a)
  <2>1. Children'
    BY <1>1 DEF ActorDies, Children
  <2>2. Lineage'
    BY <1>1 DEF ActorDies, Lineage
  <2>3. Codes'
    BY <1>1 DEF ActorDies, Children, Codes, Dead
  <2>4. Places'
    BY <1>1 DEF ActorDies, Places, Idle, Ops
  <2> QED BY <1>1, <2>1, <2>2, <2>3, <2>4 DEF ActorDies, Files
<1>2. CASE ActorStarts(a)
  <2>1. Children' /\ Lineage' /\ Codes'
    BY <1>2 DEF ActorStarts, child, Children, Lineage, Codes, Dead
  <2>2. Places'
    BY <1>2 DEF ActorStarts, Places
  <2> QED BY <1>2, <2>1, <2>2 DEF ActorStarts, Files
<1> QED BY <1>1, <1>2

LEMMA ConsoleTypes == ASSUME TypeInv, NEW c \in Consoles, ConsoleActs(c) PROVE TypeInv'
<1> USE DEF TypeInv
<1>0. c \in Actors
  BY DEF Actors
<1>1. CASE Sweeps(c) \/ Checks(c)
  <2>1. Files'
    BY <1>1 DEF Sweeps, Checks, Files, Swept
  <2>2. Places'
    BY <1>0, <1>1 DEF Sweeps, Checks, Begin, At, Places, Ops
  <2> QED BY <1>1, <2>1, <2>2, ChildStays DEF Sweeps, Checks
<1>2. CASE GivesUp(c)
  BY <1>2, ChildStays, DonePlaces DEF GivesUp, At, Files
<1>3. ASSUME NEW w \in Workers, Forces(c, w) PROVE TypeInv'
  <2>1. Children' /\ Lineage' /\ Codes'
    BY <1>3, EndsTypes DEF Forces
  <2>2. Files'
    BY <1>3 DEF Forces, Files
  <2> QED BY <1>3, <2>1, <2>2, StandPlaces DEF Forces
<1>4. ASSUME NEW w \in Workers, StuckLooks(c, w) PROVE TypeInv'
  <2>1. c \in up /\ proc' = Reaped(c, w) /\ UNCHANGED <<parent, by, code, told, said, pidf, stat, up>>
    BY <1>4 DEF StuckLooks, At
  <2>2. Children' /\ Lineage' /\ Codes'
    BY <2>1, ReapedIs, ReapTypes
  <2>3. Places'
    BY <1>4, <2>1, BeginPlaces DEF StuckLooks, Ops
  <2> QED BY <2>1, <2>2, <2>3 DEF Files
<1>5. CASE StuckMarks(c)
  <2>1. c \in up /\ pc[c].w \in Workers
    BY <1>0, <1>5 DEF StuckMarks, At, Places
  <2>2. Files' /\ Places'
    BY <1>5, <2>1, StepPlaces DEF StuckMarks, Files, Final, Ops
  <2> QED BY <1>5, <2>2, ChildStays DEF StuckMarks
<1>6. CASE StuckTerms(c)
  <2>1. c \in up /\ pc[c].w \in Workers
    BY <1>0, <1>6 DEF StuckTerms, At, Places
  <2>2. Children' /\ Lineage' /\ Codes'
    BY <1>6, <2>1 DEF StuckTerms, Children, Lineage, Codes, Dead
  <2>3. Files' /\ Places'
    BY <1>6, <2>1, StepPlaces, DonePlaces DEF StuckTerms, Files, Ops
  <2> QED BY <2>2, <2>3
<1>7. CASE StuckKills(c)
  <2>1. c \in up /\ pc[c].w \in Workers
    BY <1>0, <1>7 DEF StuckKills, At, Places
  <2>2. Children' /\ Lineage' /\ Codes'
    <3>1. CASE proc[pc[c].w] = "up"
      BY <1>7, <2>1, <3>1, EndsTypes DEF StuckKills
    <3>2. CASE proc[pc[c].w] # "up"
      BY <1>7, <3>2 DEF StuckKills, Children, Lineage, Codes, Dead
    <3> QED BY <3>1, <3>2
  <2>3. Files' /\ Places'
    BY <1>7, <2>1, DonePlaces DEF StuckKills, Files
  <2> QED BY <2>2, <2>3
<1> QED BY <1>1, <1>2, <1>3, <1>4, <1>5, <1>6, <1>7 DEF ConsoleActs

LEMMA NextTypes == TypeInv /\ [Next]_vars => TypeInv'
<1> SUFFICES ASSUME TypeInv, [Next]_vars PROVE TypeInv'
  OBVIOUS
<1>1. ASSUME NEW a \in Actors, Acts(a) PROVE TypeInv'
  BY <1>1, SpawningTypes, CleaningTypes, LifeTypes DEF Acts
<1>2. CASE UNCHANGED vars
  BY <1>2, ChildStays, StandPlaces DEF vars, TypeInv, Files
<1> QED BY <1>1, <1>2, WorkerTypes, ConsoleTypes DEF Next

LEMMA AlwaysTyped == Spec => []TypeInv
BY InitTypes, NextTypes, PTL DEF Spec

\* Every state is of its type: actors that are down do nothing, processes are
\* children of the living, and exactly the ended ones have an exit code.
THEOREM TypeCorrect == Spec => []TypeOK
BY AlwaysTyped, TypeInvTypes, PTL

-----------------------------------------------------------------------------
(***************************************************************************)
(* The limit.  A console that has looked and has not yet written the pid   *)
(* file is worth one worker: counted with those, the sum never exceeds     *)
(* what one look by each console allows.                                   *)
(***************************************************************************)
ByConsole == {w \in Counted : by[w] \in Consoles}
InHand == {c \in Consoles : pc[c].op \in {"may", "launched", "opened"}}

Numbers ==
  /\ IsFiniteSet(Counted)
  /\ Cardinality(ByConsole) + Cardinality(InHand) <= Max - 1 + Cardinality(Consoles)

\* A worker in hand is one's own, and born; the others have no pid file yet.
Origins ==
  /\ \A a \in Actors : pc[a].op \in {"launched", "opened"} =>
       by[pc[a].w] = a /\ proc[pc[a].w] # "unborn"
  /\ \A w \in Workers : proc[w] = "unborn" => pidf[w] = "none"

LimitInv == Numbers /\ Origins

LEMMA FiniteHands ==
  ASSUME IsFiniteSet(Counted)
  PROVE  /\ IsFiniteSet(ByConsole) /\ Cardinality(ByConsole) \in Nat
         /\ Cardinality(ByConsole) <= Cardinality(Counted)
         /\ IsFiniteSet(InHand) /\ Cardinality(InHand) \in Nat
         /\ Cardinality(InHand) <= Cardinality(Consoles)
         /\ Cardinality(Counted) \in Nat /\ Cardinality(Consoles) \in Nat
<1>1. IsFiniteSet(Consoles)
  BY ProcessesAssumption
<1>2. ByConsole \in SUBSET Counted /\ InHand \in SUBSET Consoles
  BY DEF ByConsole, InHand
<1>3. IsFiniteSet(ByConsole) /\ Cardinality(ByConsole) <= Cardinality(Counted)
  BY <1>2, FS_Subset
<1>4. IsFiniteSet(InHand) /\ Cardinality(InHand) <= Cardinality(Consoles)
  BY <1>1, <1>2, FS_Subset
<1> QED BY <1>1, <1>3, <1>4, FS_CardinalityType

LEMMA LimitImplied == LimitInv => OneOverEach
<1> SUFFICES ASSUME LimitInv PROVE OneOverEach
  OBVIOUS
<1>1. Cardinality(ByConsole) <= Max - 1 + Cardinality(Consoles)
  BY FiniteHands, ProcessesAssumption DEF LimitInv, Numbers
<1> QED BY <1>1 DEF OneOverEach, ByConsole

\* Fewer workers, fewer spawns in hand.
LEMMA Shrinks ==
  ASSUME Numbers, Counted' \subseteq Counted, ByConsole' \subseteq ByConsole,
         InHand' \subseteq InHand
  PROVE  Numbers'
<1>1. IsFiniteSet(Counted')
  BY FS_Subset DEF Numbers
<1>2. Cardinality(ByConsole') <= Cardinality(ByConsole) /\ Cardinality(InHand') <= Cardinality(InHand)
  BY FiniteHands, FS_Subset DEF Numbers
<1>3. Cardinality(ByConsole') \in Nat /\ Cardinality(InHand') \in Nat
  <2>1. IsFiniteSet(ByConsole') /\ IsFiniteSet(InHand')
    BY FiniteHands, FS_Subset DEF Numbers
  <2> QED BY <2>1, FS_CardinalityType
<1> QED BY <1>1, <1>2, <1>3, FiniteHands, ProcessesAssumption DEF Numbers

\* No launch, no pid: processes only end, files are removed or opened, and no
\* spawn begins.
Quiet ==
  /\ by' = by
  /\ \A w \in Workers : proc'[w] = proc[w] \/ (proc[w] \notin {"unborn", "gone"} /\ proc'[w] \in {"zombie", "gone"})
  /\ \A w \in Workers :
       \/ pidf'[w] \in {pidf[w], "none"}
       \/ proc[w] # "unborn" /\ pidf'[w] = "empty"
  /\ \A a \in Actors :
       \/ pc'[a] = pc[a]
       \/ pc'[a].op \notin {"may", "launched", "opened"}
       \/ pc[a].op = "launched" /\ pc'[a].op = "opened" /\ pc'[a].w = pc[a].w

LEMMA QuietSteps == ASSUME TypeInv, LimitInv, Quiet PROVE LimitInv'
<1>1. Counted' \subseteq Counted
  <2> SUFFICES ASSUME NEW w \in Workers, pidf'[w] = "pid", proc'[w] \in {"up", "zombie"}
               PROVE  pidf[w] = "pid" /\ proc[w] \in {"up", "zombie"}
    BY DEF Counted, Exists
  <2>1. pidf[w] = "pid"
    BY DEF Quiet
  <2>2. proc[w] # "gone"
    BY DEF Quiet, TypeInv, Children
  <2>3. proc[w] # "unborn"
    BY <2>1 DEF LimitInv, Origins
  <2> QED BY <2>1, <2>2, <2>3 DEF TypeInv, Children
<1>2. ByConsole' \subseteq ByConsole
  BY <1>1 DEF ByConsole, Quiet
<1>3. InHand' \subseteq InHand
  BY DEF InHand, Quiet, Actors
<1>4. Origins'
  BY DEF Quiet, LimitInv, Origins, TypeInv, Places
<1> QED BY <1>1, <1>2, <1>3, <1>4, Shrinks DEF LimitInv

LEMMA WorkerQuiet ==
  ASSUME TypeInv, NEW w \in Workers, (\E s \in Final : Reports(w, s)) \/ Exits(w) \/ Dies(w)
  PROVE  Quiet
BY DEF TypeInv, Children, Reports, Exits, Dies, Ends, Quiet

LEMMA ActorQuiet ==
  ASSUME TypeInv, LimitInv, NEW a \in Actors,
         \/ OpensPid(a) \/ Polls(a) \/ NotesWork(a) \/ Cleaning(a)
         \/ (\E w \in Workers : Stops(a, w)) \/ ActorDies(a) \/ ActorStarts(a)
  PROVE  Quiet
<1> USE DEF TypeInv, Quiet
<1>1. CASE OpensPid(a)
  BY <1>1 DEF OpensPid, At, Step, child, Places, Files, LimitInv, Origins
<1>2. CASE Polls(a)
  BY <1>2 DEF Polls, At, Step, Done, Idle, Dead, Children, Places, Files
<1>3. CASE NotesWork(a)
  BY <1>3 DEF NotesWork, Done, Idle, child, Places
<1>4. ASSUME NEW w \in Workers, CleanLooks(a, w) PROVE Quiet
  BY <1>4 DEF CleanLooks, CleansUp, Reaped, Begin, Children, Places, Files
<1>5. CASE CleanMarks(a)
  BY <1>5 DEF CleanMarks, Done, Idle, child, Places
<1>6. ASSUME NEW w \in Workers, Stops(a, w) PROVE Quiet
  BY <1>6 DEF Stops, Files
<1>7. CASE ActorDies(a)
  BY <1>7 DEF ActorDies, Idle, Children, Places
<1>8. CASE ActorStarts(a)
  BY <1>8 DEF ActorStarts, child
<1> QED BY <1>1, <1>2, <1>3, <1>4, <1>5, <1>6, <1>7, <1>8 DEF Cleaning

LEMMA ConsoleQuiet ==
  ASSUME TypeInv, NEW c \in Consoles, ConsoleActs(c), ~Checks(c)
  PROVE  Quiet
<1> USE DEF TypeInv, Quiet
<1>1. CASE Sweeps(c)
  BY <1>1 DEF Sweeps, Swept, child
<1>2. CASE GivesUp(c)
  BY <1>2 DEF GivesUp, Done, Idle, child, Places
<1>3. ASSUME NEW w \in Workers, Forces(c, w) PROVE Quiet
  BY <1>3 DEF Forces, Ends, Children, Files
<1>4. ASSUME NEW w \in Workers, StuckLooks(c, w) PROVE Quiet
  BY <1>4 DEF StuckLooks, Reaped, Begin, Children, Places
<1>5. CASE StuckMarks(c)
  BY <1>5 DEF StuckMarks, Step, child, Places
<1>6. CASE StuckTerms(c)
  BY <1>6 DEF StuckTerms, Step, Done, Idle, Places, Files
<1>7. CASE StuckKills(c)
  BY <1>7 DEF StuckKills, Ends, Done, Idle, Children, Places, Files
<1> QED BY <1>1, <1>2, <1>3, <1>4, <1>5, <1>6, <1>7 DEF ConsoleActs

-----------------------------------------------------------------------------
\* The look: fewer than Max are counted, and each console may have one in hand.
LEMMA ChecksLimit == ASSUME TypeInv, LimitInv, NEW c \in Consoles, Checks(c) PROVE LimitInv'
<1>1. Cardinality(Counted) < Max /\ c \in up /\ UNCHANGED <<proc, by>>
  BY DEF Checks, BelowLimit, At, child
<1>2. Counted' \subseteq Counted
  BY DEF Counted, Exists, Checks, Swept, child
<1>3. IsFiniteSet(Counted') /\ Cardinality(Counted') <= Cardinality(Counted)
  BY <1>2, FS_Subset DEF LimitInv, Numbers
<1>4. IsFiniteSet(ByConsole') /\ Cardinality(ByConsole') <= Cardinality(Counted')
  <2>1. ByConsole' \in SUBSET Counted'
    BY DEF ByConsole
  <2> QED BY <2>1, <1>3, FS_Subset
<1>5. IsFiniteSet(InHand') /\ Cardinality(InHand') <= Cardinality(Consoles)
  <2>1. InHand' \in SUBSET Consoles /\ IsFiniteSet(Consoles)
    BY ProcessesAssumption DEF InHand
  <2> QED BY <2>1, FS_Subset
<1>6. Numbers'
  <2>1. /\ Cardinality(ByConsole') \in Nat /\ Cardinality(InHand') \in Nat
        /\ Cardinality(Counted) \in Nat /\ Cardinality(Counted') \in Nat
        /\ Cardinality(Consoles) \in Nat
    BY <1>3, <1>4, <1>5, FS_CardinalityType, FiniteHands DEF LimitInv, Numbers
  <2> QED BY <1>1, <1>3, <1>4, <1>5, <2>1, ProcessesAssumption DEF Numbers
<1>7. Origins'
  <2>1. \A w \in Workers : pidf'[w] \in {pidf[w], "none"}
    BY DEF Checks, Swept
  <2>2. \A a \in Actors : pc'[a] = pc[a] \/ pc'[a].op = "may"
    BY DEF Checks, Begin, TypeInv, Places
  <2> QED BY <1>1, <2>1, <2>2 DEF LimitInv, Origins
<1> QED BY <1>6, <1>7 DEF LimitInv

\* A launch changes who is in hand, and not how many.
LEMMA LaunchesLimit ==
  ASSUME TypeInv, LimitInv, NEW a \in Actors, NEW w \in Workers, Launches(a, w)
  PROVE  LimitInv'
<1>1. /\ proc[w] = "unborn" /\ pidf[w] = "none" /\ pidf' = pidf
      /\ proc' = [proc EXCEPT ![w] = "up"] /\ by' = [by EXCEPT ![w] = a]
      /\ pc' = [pc EXCEPT ![a] = [op |-> "launched", w |-> w]]
      /\ pc[a].op = IF a = Daemon THEN "idle" ELSE "may"
  BY DEF Launches, LimitInv, Origins, Begin, At
<1>2. Counted' \subseteq Counted
  BY <1>1 DEF Counted, Exists, TypeInv, Children
<1>3. ByConsole' \subseteq ByConsole
  BY <1>1, <1>2 DEF ByConsole, Counted, TypeInv, Children
<1>4. InHand' \subseteq InHand
  BY <1>1, ProcessesAssumption DEF InHand, Actors, TypeInv, Places
<1>5. Origins'
  BY <1>1 DEF LimitInv, Origins, TypeInv, Children, Places
<1> QED BY <1>2, <1>3, <1>4, <1>5, Shrinks DEF LimitInv

\* The pid: one more that counts, and if a console wrote it, one less in hand.
LEMMA WritesPidLimit == ASSUME TypeInv, LimitInv, NEW a \in Actors, WritesPid(a) PROVE LimitInv'
<1> DEFINE w == pc[a].w
<1>1. /\ w \in Workers /\ by[w] = a /\ pc[a].op = "opened" /\ UNCHANGED <<proc, by>>
      /\ pidf' = [pidf EXCEPT ![w] = IF @ = "empty" THEN "pid" ELSE @]
      /\ pc' = [pc EXCEPT ![a].op = "written"]
  BY DEF WritesPid, At, Step, child, LimitInv, Origins, TypeInv, Places
<1> HIDE DEF w
<1>2. Counted' \subseteq Counted \cup {w}
  BY <1>1 DEF Counted, Exists, TypeInv, Files
<1>3. IsFiniteSet(Counted')
  <2>1. IsFiniteSet(Counted \cup {w})
    BY FS_AddElement DEF LimitInv, Numbers
  <2> QED BY <1>2, <2>1, FS_Subset
<1>4. Numbers'
  <2>1. CASE a = Daemon
    <3>1. ByConsole' \subseteq ByConsole
      BY <1>1, <1>2, <2>1, ProcessesAssumption DEF ByConsole
    <3>2. InHand' \subseteq InHand
      BY <1>1 DEF InHand, TypeInv, Places, Actors
    <3>3. IsFiniteSet(ByConsole) /\ IsFiniteSet(InHand)
      BY FiniteHands DEF LimitInv, Numbers
    <3>4. /\ IsFiniteSet(ByConsole') /\ Cardinality(ByConsole') <= Cardinality(ByConsole)
          /\ IsFiniteSet(InHand') /\ Cardinality(InHand') <= Cardinality(InHand)
      BY <3>1, <3>2, <3>3, FS_Subset
    <3>5. Cardinality(ByConsole') \in Nat /\ Cardinality(InHand') \in Nat
      BY <3>4, FS_CardinalityType
    <3> QED BY <1>3, <3>4, <3>5, FiniteHands, ProcessesAssumption DEF LimitInv, Numbers
  <2>2. CASE a # Daemon
    <3>1. a \in InHand
      BY <1>1, <2>2 DEF InHand, Actors
    <3>2. InHand' \subseteq InHand \ {a}
      BY <1>1, <2>2 DEF InHand, TypeInv, Places, Actors
    <3>3. ByConsole' \subseteq ByConsole \cup {w}
      BY <1>1, <1>2 DEF ByConsole
    <3>4. IsFiniteSet(ByConsole) /\ IsFiniteSet(InHand)
      BY FiniteHands DEF LimitInv, Numbers
    <3>5. /\ IsFiniteSet(InHand \ {a}) /\ Cardinality(InHand \ {a}) = Cardinality(InHand) - 1
          /\ IsFiniteSet(ByConsole \cup {w})
          /\ Cardinality(ByConsole \cup {w}) \in {Cardinality(ByConsole), Cardinality(ByConsole) + 1}
      BY <3>1, <3>4, FS_RemoveElement, FS_AddElement
    <3>6. /\ IsFiniteSet(InHand') /\ Cardinality(InHand') <= Cardinality(InHand \ {a})
          /\ IsFiniteSet(ByConsole') /\ Cardinality(ByConsole') <= Cardinality(ByConsole \cup {w})
      BY <3>2, <3>3, <3>5, FS_Subset
    <3>7. Cardinality(ByConsole') \in Nat /\ Cardinality(InHand') \in Nat
      BY <3>6, FS_CardinalityType
    <3> QED BY <1>3, <3>5, <3>6, <3>7, FiniteHands, ProcessesAssumption DEF LimitInv, Numbers
  <2> QED BY <2>1, <2>2
<1>5. Origins'
  BY <1>1 DEF LimitInv, Origins, TypeInv, Places, Files
<1> QED BY <1>4, <1>5 DEF LimitInv

LEMMA InitLimit == Init => LimitInv
<1> SUFFICES ASSUME Init PROVE LimitInv
  OBVIOUS
<1>1. Counted = {} /\ ByConsole = {} /\ InHand = {}
  BY DEF Init, Counted, Exists, ByConsole, InHand, Idle, Actors
<1>2. Cardinality(Consoles) \in Nat
  BY ProcessesAssumption, FS_CardinalityType
<1>3. Numbers
  BY <1>1, <1>2, FS_EmptySet, ProcessesAssumption DEF Numbers
<1>4. Origins
  BY DEF Init, Origins, Idle
<1> QED BY <1>3, <1>4 DEF LimitInv

LEMMA NextLimit == TypeInv /\ LimitInv /\ [Next]_vars => LimitInv'
<1> SUFFICES ASSUME TypeInv, LimitInv, [Next]_vars PROVE LimitInv'
  OBVIOUS
<1>1. ASSUME NEW a \in Actors, Acts(a) PROVE LimitInv'
  BY <1>1, LaunchesLimit, WritesPidLimit, ActorQuiet, QuietSteps DEF Acts, Spawning
<1>2. ASSUME NEW c \in Consoles, ConsoleActs(c) PROVE LimitInv'
  BY <1>2, ChecksLimit, ConsoleQuiet, QuietSteps
<1>3. CASE UNCHANGED vars
  BY <1>3, QuietSteps DEF vars, child, Quiet
<1> QED BY <1>1, <1>2, <1>3, WorkerQuiet, QuietSteps DEF Next

\* Whatever spawns, dies and is cleaned up in between, the consoles' own workers
\* exceed the limit by no more than one for each other console.
THEOREM LimitHeld == Spec => []OneOverEach
<1>1. Spec => []LimitInv
  BY AlwaysTyped, InitLimit, NextLimit, PTL DEF Spec
<1> QED BY <1>1, LimitImplied, PTL

-----------------------------------------------------------------------------
(***************************************************************************)
(* What a cleanup overwrites.  Between its test and its write the worker   *)
(* is dead, and only a live worker writes "completed" or "stopped".        *)
(***************************************************************************)
Marks(a) == pc[a].op = "marks" => Dead(pc[a].w) /\ stat[pc[a].w] \notin {"completed", "stopped"}

MarksInv == \A a \in Actors : Marks(a)

\* The dead stay dead, and nobody turns a status into "completed" or "stopped".
Settled ==
  /\ \A w \in Workers : Dead(w) => Dead(w)'
  /\ \A w \in Workers : Dead(w) =>
       stat'[w] = stat[w] \/ stat'[w] \notin {"completed", "stopped"}

LEMMA DeadStays == TypeInv /\ [Next]_vars => Settled
<1> SUFFICES ASSUME TypeInv, [Next]_vars PROVE Settled
  OBVIOUS
<1> USE DEF TypeInv, Settled, Dead
<1>1. ASSUME NEW w \in Workers, (\E s \in Final : Reports(w, s)) \/ Exits(w) \/ Dies(w)
      PROVE  Settled
  BY <1>1 DEF Reports, Exits, Dies, Ends, Children, Files
<1>2. ASSUME NEW a \in Actors, Spawning(a) PROVE Settled
  <2>1. ASSUME NEW w \in Workers, Launches(a, w) PROVE Settled
    BY <2>1 DEF Launches, Children
  <2>2. CASE OpensPid(a) \/ WritesPid(a)
    BY <2>2 DEF OpensPid, WritesPid, child
  <2>3. CASE Polls(a)
    BY <2>3 DEF Polls, Children, Files
  <2>4. CASE NotesWork(a)
    BY <2>4 DEF NotesWork, child, Files
  <2> QED BY <1>2, <2>1, <2>2, <2>3, <2>4 DEF Spawning
<1>3. ASSUME NEW a \in Actors, Cleaning(a) \/ (\E w \in Workers : Stops(a, w)) PROVE Settled
  <2>1. ASSUME NEW w \in Workers, CleanLooks(a, w) PROVE Settled
    BY <2>1 DEF CleanLooks, CleansUp, Reaped, Children
  <2>2. CASE CleanMarks(a)
    BY <2>2 DEF CleanMarks, child, Files
  <2>3. ASSUME NEW w \in Workers, Stops(a, w) PROVE Settled
    BY <2>3 DEF Stops
  <2> QED BY <1>3, <2>1, <2>2, <2>3 DEF Cleaning
<1>4. ASSUME NEW a \in Actors, ActorDies(a) \/ ActorStarts(a) PROVE Settled
  BY <1>4 DEF ActorDies, ActorStarts, child, Children
<1>5. ASSUME NEW c \in Consoles, ConsoleActs(c) PROVE Settled
  <2>1. CASE Sweeps(c) \/ Checks(c) \/ GivesUp(c)
    BY <2>1 DEF Sweeps, Checks, GivesUp, child
  <2>2. ASSUME NEW w \in Workers, Forces(c, w) \/ StuckLooks(c, w) PROVE Settled
    BY <2>2 DEF Forces, StuckLooks, Ends, Reaped, Children
  <2>3. CASE StuckMarks(c)
    BY <2>3 DEF StuckMarks, child, Files
  <2>4. CASE StuckTerms(c)
    BY <2>4 DEF StuckTerms
  <2>5. CASE StuckKills(c)
    BY <2>5 DEF StuckKills, Ends, Children
  <2> QED BY <1>5, <2>1, <2>2, <2>3, <2>4, <2>5 DEF ConsoleActs
<1>6. CASE UNCHANGED vars
  BY <1>6 DEF vars, child
<1> QED BY <1>1, <1>2, <1>3, <1>4, <1>5, <1>6 DEF Next, Acts

\* An actor comes to its mark by looking only.
LEMMA MarksBegin ==
  ASSUME TypeInv, [Next]_vars, NEW a \in Actors, pc'[a].op = "marks"
  PROVE  pc'[a] = pc[a] \/ \E w \in Workers : CleanLooks(a, w)
<1> USE DEF TypeInv, Places, Idle
<1>1. ASSUME NEW w \in Workers, (\E s \in Final : Reports(w, s)) \/ Exits(w) \/ Dies(w)
      PROVE  pc' = pc
  BY <1>1 DEF Reports, Exits, Dies
<1>2. ASSUME NEW b \in Actors, Acts(b), \A w \in Workers : ~CleanLooks(b, w)
      PROVE  pc'[a] = pc[a] \/ (a = b /\ pc'[a].op # "marks")
  <2>1. CASE Spawning(b)
    BY <2>1 DEF Spawning, Launches, OpensPid, WritesPid, Polls, NotesWork, Begin, Step, Done
  <2>2. CASE CleanMarks(b) \/ (\E w \in Workers : Stops(b, w))
    BY <2>2 DEF CleanMarks, Stops, Done
  <2>3. CASE ActorDies(b) \/ ActorStarts(b)
    BY <2>3 DEF ActorDies, ActorStarts
  <2> QED BY <1>2, <2>1, <2>2, <2>3 DEF Acts, Cleaning
<1>3. ASSUME NEW b \in Actors, NEW w \in Workers, CleanLooks(b, w)
      PROVE  pc'[a] = pc[a] \/ a = b
  BY <1>3 DEF CleanLooks, CleansUp, Begin
<1>4. ASSUME NEW c \in Consoles, ConsoleActs(c)
      PROVE  pc'[a] = pc[a] \/ (a = c /\ pc'[a].op # "marks")
  <2>1. CASE Sweeps(c) \/ Checks(c) \/ GivesUp(c)
    BY <2>1 DEF Sweeps, Checks, GivesUp, Begin, Done, Actors
  <2>2. ASSUME NEW w \in Workers, Forces(c, w) \/ StuckLooks(c, w)
        PROVE  pc'[a] = pc[a] \/ (a = c /\ pc'[a].op # "marks")
    BY <2>2 DEF Forces, StuckLooks, Begin, Actors
  <2>3. CASE StuckMarks(c) \/ StuckTerms(c) \/ StuckKills(c)
    BY <2>3 DEF StuckMarks, StuckTerms, StuckKills, Step, Done, Actors
  <2> QED BY <1>4, <2>1, <2>2, <2>3 DEF ConsoleActs
<1>5. CASE UNCHANGED vars
  BY <1>5 DEF vars
<1>6. ASSUME NEW b \in Actors, Acts(b)
      PROVE  pc'[a] = pc[a] \/ \E w \in Workers : CleanLooks(a, w)
  BY <1>2, <1>3, <1>6
<1> QED BY <1>1, <1>4, <1>5, <1>6 DEF Next

LEMMA LooksMark ==
  ASSUME ~PsFails, TypeInv, NEW a \in Actors, NEW w \in Workers, CleanLooks(a, w)
  PROVE  Marks(a)'
<1>1. Dead(w) /\ stat' = stat /\ proc' = Reaped(a, w)
  BY DEF CleanLooks, CleansUp
<1>2. Dead(w)'
  BY <1>1 DEF Dead, Reaped, TypeInv, Children
<1>3. pc'[a].op = "marks" => pc'[a].w = w /\ stat[w] \notin Terminal
  BY DEF CleanLooks, CleansUp, Begin, At, TypeInv, Places
<1> QED BY <1>1, <1>2, <1>3 DEF Marks, Terminal, Dead

LEMMA NextMarks == ~PsFails /\ TypeInv /\ MarksInv /\ [Next]_vars => MarksInv'
<1> SUFFICES ASSUME ~PsFails, TypeInv, MarksInv, [Next]_vars, NEW a \in Actors, pc'[a].op = "marks"
             PROVE  Marks(a)'
  BY DEF MarksInv, Marks
<1>1. CASE pc'[a] = pc[a]
  <2>1. pc[a].w \in Workers /\ Dead(pc[a].w) /\ stat[pc[a].w] \notin {"completed", "stopped"}
    BY <1>1 DEF MarksInv, Marks, TypeInv, Places
  <2> QED BY <1>1, <2>1, DeadStays DEF Settled, Marks, Dead
<1>2. CASE \E w \in Workers : CleanLooks(a, w)
  BY <1>2, LooksMark
<1> QED BY <1>1, <1>2, MarksBegin

\* While `ps` answers, no cleanup overwrites the "completed" or the "stopped" of a
\* worker, although it tests first and writes later.
THEOREM CleanupKeeps == ASSUME ~PsFails PROVE Spec => []TestStillHolds
<1>1. Init => MarksInv
  BY DEF Init, MarksInv, Marks, Idle
<1>2. TypeInv /\ MarksInv /\ [Next]_vars => MarksInv'
  BY NextMarks
<1>3. MarksInv => TestStillHolds
  BY DEF MarksInv, Marks, TestStillHolds
<1> QED BY AlwaysTyped, <1>1, <1>2, <1>3, PTL DEF Spec

-----------------------------------------------------------------------------
(***************************************************************************)
(* The daemon's own process (DaemonGuard): mutual exclusion of daemons and *)
(* the meaning of the pid file, for any number of pids, stoppers and       *)
(* faults.  Its definitions have names of their own, so that both modules  *)
(* are at hand; the two share no variable.                                 *)
(***************************************************************************)
GuardPlaces == {"free", "other"} \cup Starting \cup Holding
StopFrame == [op : {"idle", "probes", "terms", "waits", "removes"}, pid : Pids \cup {NoPid}]

\* The parts of GuardTypeOK that a step changes one at a time.
GuardTypes ==
  /\ at \in [Pids -> GuardPlaces]
  /\ lock \in Pids \cup {NoPid}
  /\ file \in Pids \cup {NoPid, Empty}
  /\ seen \in [Pids -> Pids \cup {NoPid}]
  /\ stop \in [Stoppers -> StopFrame]
  /\ agent \in Pids \cup {NoPid}
  /\ left \in 0 .. Faults

\* Whoever is where the lock is held holds it, and nobody else.
HolderLocks == \A p \in Pids : at[p] \in Holding <=> lock = p
AgentLives == agent # NoPid => at[agent] \in Starting \cup Holding

GuardInv == GuardTypes /\ HolderLocks /\ AgentLives /\ PidNamesHolder

\* A stopper between its steps knows a process.
StopKnows == \A s \in Stoppers : stop[s].op # "idle" => stop[s].pid \in Pids

GuardKnows == GuardInv /\ StopKnows

LEMMA GuardConstants ==
  /\ NoPid \notin Pids /\ Empty \notin Pids /\ NoPid # Empty /\ Faults \in Nat
BY DaemonGuardAssumption

LEMMA GuardTyped == GuardKnows => GuardTypeOK
<1> SUFFICES ASSUME GuardKnows PROVE GuardTypeOK
  OBVIOUS
<1>1. lock # NoPid => at[lock] \in Holding
  BY DEF GuardKnows, GuardInv, GuardTypes, HolderLocks
<1> QED BY <1>1 DEF GuardKnows, GuardInv, GuardTypes, AgentLives, GuardTypeOK, GuardPlaces, StopFrame

LEMMA GuardExcludes == GuardKnows => OneDaemon
BY DEF GuardKnows, GuardInv, HolderLocks, OneDaemon

-----------------------------------------------------------------------------
(***************************************************************************)
(* Kinds of steps.                                                         *)
(***************************************************************************)
\* A process that ends takes its lock with it.
LEMMA GoneStep ==
  ASSUME GuardInv, NEW p \in Pids, Gone(p), file' = file,
         stop' \in [Stoppers -> StopFrame], left' \in 0 .. Faults
  PROVE  GuardInv'
<1>1. GuardTypes'
  BY DEF GuardInv, GuardTypes, Gone, Forgotten, GuardPlaces
<1>2. HolderLocks'
  BY GuardConstants DEF GuardInv, GuardTypes, HolderLocks, Gone, Forgotten, Starting, Holding
<1>3. AgentLives'
  BY DEF GuardInv, GuardTypes, AgentLives, Gone, Forgotten
<1>4. PidNamesHolder'
  BY DEF GuardInv, GuardTypes, PidNamesHolder, Alive, Gone, Forgotten, Starting, Holding
<1> QED BY <1>1, <1>2, <1>3, <1>4 DEF GuardInv

\* A process that goes on, on the same side of the lock, in the same part of its
\* life for the pid file.
LEMMA GoStep ==
  ASSUME GuardInv, NEW p \in Pids, NEW here, NEW there \in GuardPlaces, Go(p, here, there),
         lock' = lock, file' = file, stop' \in [Stoppers -> StopFrame],
         seen' \in [Pids -> Pids \cup {NoPid}], left' \in 0 .. Faults,
         here \in Holding <=> there \in Holding,
         here \in Starting \cup Holding => there \in Starting \cup Holding,
         here \in {"written", "loop", "ending", "removes"}
           => there \in {"written", "loop", "ending", "removes"},
         here \in {"free", "reads", "probes", "cleans", "other"}
           => there \in {"reads", "probes", "cleans", "other"},
         here = "locks" => there = "locks",
         here = "locked" => there = "locked",
         here = "opened" => there = "opened",
         here = "closes" => there = "closes"
  PROVE  GuardInv'
<1>1. GuardTypes'
  BY DEF GuardInv, GuardTypes, Go
<1>2. HolderLocks'
  BY DEF GuardInv, GuardTypes, HolderLocks, Go
<1>3. AgentLives'
  BY GuardConstants DEF GuardInv, GuardTypes, AgentLives, Go
<1>4. PidNamesHolder'
  BY DEF GuardInv, GuardTypes, PidNamesHolder, Alive, Go, GuardPlaces, Starting, Holding
<1> QED BY <1>1, <1>2, <1>3, <1>4 DEF GuardInv

-----------------------------------------------------------------------------
(***************************************************************************)
(* The steps of a process.                                                 *)
(***************************************************************************)
\* A start: what it reads, probes and takes.
LEMMA StartSteps ==
  ASSUME GuardKnows, NEW p \in Pids, AgentStarts(p) \/ UserStarts(p) \/ Reads(p) \/ Probes(p) \/ Locks(p)
  PROVE  GuardInv' /\ stop' = stop
<1> USE DEF GuardKnows
<1>1. CASE AgentStarts(p)
  <2>1. GuardTypes'
    BY <1>1 DEF GuardInv, GuardTypes, AgentStarts, GuardPlaces, Starting
  <2>2. HolderLocks' /\ AgentLives'
    BY <1>1 DEF GuardInv, GuardTypes, HolderLocks, AgentLives, AgentStarts, Starting, Holding
  <2>3. PidNamesHolder'
    BY <1>1 DEF GuardInv, GuardTypes, PidNamesHolder, Alive, AgentStarts
  <2> QED BY <1>1, <2>1, <2>2, <2>3 DEF GuardInv, AgentStarts
<1>2. CASE UserStarts(p)
  <2>1. left' \in 0 .. Faults
    BY <1>2, GuardConstants DEF GuardInv, GuardTypes, UserStarts
  <2> QED BY <1>2, <2>1, GoStep DEF GuardInv, GuardTypes, UserStarts, GuardPlaces, Starting, Holding
<1>3. CASE Reads(p)
  <2>1. CASE file \in Pids
    BY <1>3, <2>1, GoStep DEF GuardInv, GuardTypes, Reads, GuardPlaces, Starting, Holding
  <2>2. CASE file \notin Pids
    BY <1>3, <2>2, GoStep DEF GuardInv, GuardTypes, Reads, GuardPlaces, Starting, Holding
  <2> QED BY <2>1, <2>2
<1>4. CASE Probes(p)
  <2>1. CASE Alive(seen[p]) /\ Gone(p)
    BY <1>4, <2>1, GoneStep DEF GuardInv, GuardTypes, Probes
  <2>2. CASE ~(Alive(seen[p]) /\ Gone(p))
    BY <1>4, <2>2, GoStep DEF GuardInv, GuardTypes, Probes, GuardPlaces, Starting, Holding
  <2> QED BY <2>1, <2>2
<1>5. CASE Locks(p)
  <2>1. CASE lock = NoPid /\ Go(p, "locks", "locked") /\ lock' = p /\ UNCHANGED seen
    <3>1. GuardTypes'
      BY <1>5, <2>1 DEF GuardInv, GuardTypes, Locks, Go, GuardPlaces, Holding
    <3>2. HolderLocks' /\ AgentLives'
      BY <1>5, <2>1, GuardConstants DEF GuardInv, GuardTypes, HolderLocks, AgentLives, Locks, Go, Starting, Holding
    <3>3. PidNamesHolder'
      BY <1>5, <2>1, GuardConstants DEF GuardInv, GuardTypes, HolderLocks, PidNamesHolder, Alive, Locks, Go, Holding
    <3> QED BY <1>5, <3>1, <3>2, <3>3 DEF GuardInv, Locks
  <2>2. CASE lock # NoPid /\ Gone(p)
    BY <1>5, <2>2, GoneStep DEF GuardInv, GuardTypes, Locks
  <2> QED BY <1>5, <2>1, <2>2 DEF Locks
<1> QED BY <1>1, <1>2, <1>3, <1>4, <1>5

\* The steps that write the pid file or remove it, by a process.
LEMMA FileSteps ==
  ASSUME GuardKnows, NEW p \in Pids, Cleans(p) \/ OpensFile(p) \/ WritesFile(p) \/ Removes(p)
  PROVE  GuardInv' /\ stop' = stop
<1> USE DEF GuardKnows
<1>1. CASE Cleans(p)
  <2>1. PICK q \in Pids :
          /\ q = p \/ (~Alive(q) /\ p # agent)
          /\ at' = [at EXCEPT ![p] = "free", ![q] = "locks"]
    BY <1>1 DEF Cleans
  <2>2. at[p] = "cleans" /\ file' = NoPid /\ UNCHANGED <<lock, seen, stop, agent, left>>
    BY <1>1 DEF Cleans
  <2>3. GuardTypes'
    BY <2>1, <2>2 DEF GuardInv, GuardTypes, GuardPlaces, Starting
  <2>4. at[q] \notin Holding /\ at'[q] = "locks" /\ (q # p => at'[p] = "free")
        /\ \A r \in Pids \ {p, q} : at'[r] = at[r]
    BY <2>1, <2>2 DEF GuardInv, GuardTypes, Alive, Holding
  <2>5. HolderLocks'
    BY <2>2, <2>4 DEF GuardInv, HolderLocks, Holding
  <2>6. AgentLives'
    BY <2>1, <2>2, <2>4, GuardConstants DEF GuardInv, GuardTypes, AgentLives, Alive, Starting, Holding
  <2>7. PidNamesHolder'
    BY <2>2, GuardConstants DEF PidNamesHolder
  <2> QED BY <2>2, <2>3, <2>5, <2>6, <2>7 DEF GuardInv
<1>2. CASE OpensFile(p)
  <2>1. GuardTypes'
    BY <1>2 DEF GuardInv, GuardTypes, OpensFile, Go, GuardPlaces, Holding
  <2>2. HolderLocks' /\ AgentLives'
    BY <1>2, GuardConstants DEF GuardInv, GuardTypes, HolderLocks, AgentLives, OpensFile, Go, Starting, Holding
  <2>3. PidNamesHolder'
    BY <1>2, GuardConstants DEF PidNamesHolder, OpensFile
  <2> QED BY <1>2, <2>1, <2>2, <2>3 DEF GuardInv, OpensFile
<1>3. CASE WritesFile(p)
  <2>1. GuardTypes'
    BY <1>3 DEF GuardInv, GuardTypes, WritesFile, Go, GuardPlaces, Holding
  <2>2. HolderLocks' /\ AgentLives'
    BY <1>3, GuardConstants DEF GuardInv, GuardTypes, HolderLocks, AgentLives, WritesFile, Go, Starting, Holding
  <2>3. lock = p
    BY <1>3 DEF GuardInv, HolderLocks, WritesFile, Go, Holding
  <2>4. PidNamesHolder'
    BY <1>3, <2>3, GuardConstants DEF GuardInv, GuardTypes, PidNamesHolder, Alive, WritesFile, Go
  <2> QED BY <1>3, <2>1, <2>2, <2>4 DEF GuardInv, WritesFile
<1>4. CASE Removes(p)
  <2>1. GuardTypes'
    BY <1>4 DEF GuardInv, GuardTypes, Removes, Go, GuardPlaces, Holding
  <2>2. HolderLocks' /\ AgentLives'
    BY <1>4, GuardConstants DEF GuardInv, GuardTypes, HolderLocks, AgentLives, Removes, Go, Starting, Holding
  <2>3. PidNamesHolder'
    BY <1>4, GuardConstants DEF PidNamesHolder, Removes
  <2> QED BY <1>4, <2>1, <2>2, <2>3 DEF GuardInv, Removes
<1> QED BY <1>1, <1>2, <1>3, <1>4

\* The loop, its end, a death, and a number given to another process.
LEMMA RunSteps ==
  ASSUME GuardKnows, NEW p \in Pids, Enters(p) \/ EndsLoop(p) \/ Closes(p) \/ Crashes(p) \/ Reuses(p)
  PROVE  GuardInv' /\ stop' = stop
<1> USE DEF GuardKnows
<1>1. CASE Enters(p)
  BY <1>1, GoStep DEF GuardInv, GuardTypes, Enters, GuardPlaces, Starting, Holding
<1>2. CASE EndsLoop(p)
  BY <1>2, GoStep DEF GuardInv, GuardTypes, EndsLoop, GuardPlaces, Starting, Holding
<1>3. CASE Closes(p)
  BY <1>3, GoneStep DEF GuardInv, GuardTypes, Closes
<1>4. CASE Crashes(p)
  <2>1. left' \in 0 .. Faults
    BY <1>4, GuardConstants DEF GuardInv, GuardTypes, Crashes
  <2> QED BY <1>4, <2>1, GoneStep DEF GuardInv, GuardTypes, Crashes
<1>5. CASE Reuses(p)
  BY <1>5, GoStep DEF GuardInv, GuardTypes, Reuses, GuardPlaces, Starting, Holding
<1> QED BY <1>1, <1>2, <1>3, <1>4, <1>5

-----------------------------------------------------------------------------
(***************************************************************************)
(* The steps of a stopper.                                                 *)
(***************************************************************************)
\* What a stopper goes on to knows the same process.
LEMMA Knows ==
  ASSUME GuardKnows, NEW s \in Stoppers, NEW there \in {"idle", "terms", "waits", "removes"},
         stop[s].op # "idle", Goes(s, there)
  PROVE  StopKnows' /\ stop' \in [Stoppers -> StopFrame]
<1>1. stop \in [Stoppers -> StopFrame] /\ stop[s].pid \in Pids
  BY DEF GuardKnows, GuardInv, GuardTypes, StopKnows
<1>2. CASE there = "idle"
  BY <1>1, <1>2 DEF GuardKnows, StopKnows, Goes, NoStop, StopFrame
<1>3. CASE there # "idle"
  BY <1>1, <1>3 DEF GuardKnows, StopKnows, Goes, StopFrame
<1> QED BY <1>2, <1>3

\* A step of a stopper that leaves the processes and the file alone.
LEMMA StandStep ==
  ASSUME GuardInv, stop' \in [Stoppers -> StopFrame], left' \in 0 .. Faults,
         UNCHANGED <<at, lock, file, seen, agent>>
  PROVE  GuardInv'
BY DEF GuardInv, GuardTypes, HolderLocks, AgentLives, PidNamesHolder, Alive

LEMMA StopSteps == ASSUME GuardKnows, NEW s \in Stoppers, Stopping(s) PROVE GuardKnows'
<1> USE DEF GuardKnows
<1>1. CASE StopReads(s)
  <2>1. stop' \in [Stoppers -> StopFrame] /\ StopKnows'
    BY <1>1 DEF GuardInv, GuardTypes, StopKnows, StopReads, StopFrame
  <2>2. left' \in 0 .. Faults
    BY <1>1, GuardConstants DEF GuardInv, GuardTypes, StopReads
  <2> QED BY <1>1, <2>1, <2>2, StandStep DEF StopReads
<1>2. CASE StopProbes(s)
  <2>1. StopKnows' /\ stop' \in [Stoppers -> StopFrame]
    BY <1>2, Knows DEF StopProbes
  <2> QED BY <1>2, <2>1, StandStep DEF GuardInv, GuardTypes, StopProbes
<1>3. CASE StopTerms(s)
  <2> DEFINE p == stop[s].pid
  <2>1. StopKnows' /\ stop' \in [Stoppers -> StopFrame]
    BY <1>3, Knows DEF StopTerms
  <2>2. p \in Pids /\ file' = file /\ left' \in 0 .. Faults
    BY <1>3 DEF GuardInv, GuardTypes, StopKnows, StopTerms
  <2>3. CASE Go(p, "loop", "ending") /\ UNCHANGED <<lock, seen>>
    BY <2>1, <2>2, <2>3, GoStep DEF GuardInv, GuardTypes, GuardPlaces, Starting, Holding
  <2>4. CASE UNCHANGED <<at, lock, seen, agent>>
    BY <2>1, <2>2, <2>4, StandStep
  <2>5. CASE Gone(p)
    BY <2>1, <2>2, <2>5, GoneStep
  <2> QED BY <1>3, <2>3, <2>4, <2>5 DEF StopTerms
<1>4. CASE StopSees(s)
  <2>1. StopKnows' /\ stop' \in [Stoppers -> StopFrame]
    BY <1>4, Knows DEF StopSees
  <2> QED BY <1>4, <2>1, StandStep DEF GuardInv, GuardTypes, StopSees
<1>5. CASE StopKills(s)
  <2>1. StopKnows' /\ stop' \in [Stoppers -> StopFrame]
    BY <1>5, Knows DEF StopKills
  <2>2. stop[s].pid \in Pids /\ file' = file /\ left' \in 0 .. Faults /\ Gone(stop[s].pid)
    BY <1>5 DEF GuardInv, GuardTypes, StopKnows, StopKills
  <2> QED BY <2>1, <2>2, GoneStep
<1>6. CASE StopRemoves(s)
  <2>1. StopKnows' /\ stop' \in [Stoppers -> StopFrame]
    BY <1>6, Knows DEF StopRemoves
  <2> QED BY <1>6, <2>1, GuardConstants DEF StopRemoves, GuardInv, GuardTypes, HolderLocks, AgentLives, PidNamesHolder
<1> QED BY <1>1, <1>2, <1>3, <1>4, <1>5, <1>6 DEF Stopping

-----------------------------------------------------------------------------
(***************************************************************************)
(* The invariant and the theorems.                                         *)
(***************************************************************************)
LEMMA GuardBegins == GuardInit => GuardKnows
<1> SUFFICES ASSUME GuardInit PROVE GuardKnows
  OBVIOUS
<1>1. GuardTypes
  BY GuardConstants DEF GuardInit, GuardTypes, GuardPlaces, StopFrame, NoStop
<1>2. HolderLocks /\ AgentLives
  BY GuardConstants DEF GuardInit, HolderLocks, AgentLives, Holding
<1>3. PidNamesHolder
  BY DEF GuardInit, PidNamesHolder, Alive
<1>4. StopKnows
  BY DEF GuardInit, StopKnows, NoStop
<1> QED BY <1>1, <1>2, <1>3, <1>4 DEF GuardKnows, GuardInv

LEMMA GuardKept == GuardKnows /\ [GuardNext]_guardVars => GuardKnows'
<1> SUFFICES ASSUME GuardKnows, [GuardNext]_guardVars PROVE GuardKnows'
  OBVIOUS
<1>1. ASSUME NEW p \in Pids,
             AgentStarts(p) \/ UserStarts(p) \/ Starts(p) \/ Runs(p) \/ Crashes(p) \/ Reuses(p)
      PROVE  GuardKnows'
  <2>1. GuardInv' /\ stop' = stop
    BY <1>1, StartSteps, FileSteps, RunSteps DEF Starts, Runs
  <2> QED BY <2>1 DEF GuardKnows, StopKnows
<1>2. ASSUME NEW s \in Stoppers, Stopping(s) PROVE GuardKnows'
  BY <1>2, StopSteps
<1>3. CASE UNCHANGED guardVars
  BY <1>3 DEF guardVars, GuardKnows, GuardInv, GuardTypes, HolderLocks, AgentLives, PidNamesHolder, Alive, StopKnows
<1> QED BY <1>1, <1>2, <1>3 DEF GuardNext

LEMMA AlwaysGuarded == GuardSpec => []GuardKnows
BY GuardBegins, GuardKept, PTL DEF GuardSpec

\* Every state of every run is of its type; the lock's holder is where the lock
\* is held, and the process launchd keeps is one that has not ended.
THEOREM GuardTypeCorrect == GuardSpec => []GuardTypeOK
BY AlwaysGuarded, GuardTyped, PTL

\* Never two daemons between taking the lock and releasing it, for any number
\* of processes, stoppers, deaths and starts.
THEOREM OneDaemonOnly == GuardSpec => []OneDaemon
BY AlwaysGuarded, GuardExcludes, PTL

\* A live process the pid file names is the daemon that holds the lock, or one
\* whose number was in the file before it began.
THEOREM PidFileNames == GuardSpec => []PidNamesHolder
<1>1. GuardKnows => PidNamesHolder
  BY DEF GuardKnows, GuardInv
<1> QED BY AlwaysGuarded, <1>1, PTL

=============================================================================
