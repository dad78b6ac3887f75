---------------------------- MODULE FixPlanProofs ----------------------------
(***************************************************************************)
(* The plan as a file, for any number of projects, processes, headings and *)
(* edits: no tick of the writer is lost, and, from what the headings are   *)
(* assumed to look like, the ticks and the completed rows are those of the *)
(* right tasks.                                                            *)
(***************************************************************************)
EXTENDS FixPlan, SequenceTheorems, FiniteSetTheorems, TLAPS

-----------------------------------------------------------------------------
(***************************************************************************)
(* The operators of the parser.                                            *)
(***************************************************************************)
LEMMA CountIsNat ==
  ASSUME NEW n \in Nat, NEW P, P \subseteq 1 .. n
  PROVE  IsFiniteSet(P) /\ Cardinality(P) \in Nat
<1>1. IsFiniteSet(1 .. n)
  BY FS_Interval
<1> QED BY <1>1, FS_Subset, FS_CardinalityType

LEMMA ParsedTypes ==
  ASSUME NEW lines \in Seq(Line), NEW i \in DOMAIN lines
  PROVE  /\ lines[i] \in Line
         /\ i \in Nat
         /\ IdOf(lines, i) \in Id
         /\ StableOf(lines, i) \in Stable
<1>1. lines[i] \in Line /\ i \in Nat /\ i - 1 \in Nat
  BY LenProperties, ElementOfSeq
<1>2. Counter(lines, i) \in Nat
  BY <1>1, CountIsNat DEF Counter
<1>3. Number(lines, i) \in Nat
  BY <1>1, <1>2 DEF Number, Line
<1>4. SectionOf(lines, i) \in Nat
  BY <1>1, CountIsNat DEF SectionOf
<1>5. Cardinality({j \in 1 .. i - 1 : IsTask(lines, j) /\ SectionOf(lines, j) = SectionOf(lines, i)}) \in Nat
  BY <1>1, CountIsNat
<1>6. StableOf(lines, i) \in Stable
  BY <1>4, <1>5 DEF StableOf, Stable
<1> QED BY <1>1, <1>3, <1>6 DEF IdOf, Id, Line

\* Two tasks of a plan never have the same stable id: the later one of a section
\* counts the earlier one.
LEMMA StableApart ==
  ASSUME NEW lines \in Seq(Line), NEW i \in DOMAIN lines, NEW j \in DOMAIN lines,
         IsTask(lines, i), IsTask(lines, j), StableOf(lines, i) = StableOf(lines, j)
  PROVE  i = j
<1>1. ASSUME NEW k \in DOMAIN lines, NEW m \in DOMAIN lines, k < m, IsTask(lines, k),
             StableOf(lines, k) = StableOf(lines, m)
      PROVE  FALSE
  <2> DEFINE Before(n) == {x \in 1 .. n - 1 : IsTask(lines, x)
                                              /\ SectionOf(lines, x) = SectionOf(lines, n)}
  <2>1. k \in Nat \ {0} /\ m \in Nat \ {0} /\ k - 1 \in Nat /\ m - 1 \in Nat
    BY LenProperties
  <2>2. SectionOf(lines, k) = SectionOf(lines, m) /\ Cardinality(Before(k)) = Cardinality(Before(m))
    BY <1>1 DEF StableOf
  <2>3. IsFiniteSet(Before(k)) /\ IsFiniteSet(Before(m))
    BY <2>1, CountIsNat
  <2>4. k \notin Before(k) /\ Before(k) \cup {k} \subseteq Before(m)
    BY <1>1, <2>1, <2>2
  <2>5. Cardinality(Before(k) \cup {k}) = Cardinality(Before(k)) + 1
    BY <2>3, <2>4, FS_AddElement
  <2>6. Cardinality(Before(k) \cup {k}) <= Cardinality(Before(m))
    BY <2>3, <2>4, FS_Subset
  <2>7. Cardinality(Before(k)) \in Nat
    BY <2>3, FS_CardinalityType
  <2> QED BY <2>2, <2>5, <2>6, <2>7
<1>2. i \in Nat /\ j \in Nat
  BY LenProperties
<1>3. CASE i < j
  BY <1>1, <1>3
<1>4. CASE j < i
  BY <1>1, <1>4
<1> QED BY <1>2, <1>3, <1>4

\* A plan and a longer one that has the same headings, up to their wording and
\* ticks, in the same places.
Agree(short, long) ==
  /\ Len(short) <= Len(long)
  /\ \A i \in DOMAIN short :
       /\ short[i].form = long[i].form
       /\ short[i].num = long[i].num
       /\ short[i].key = long[i].key

LEMMA AgreeParsed ==
  ASSUME NEW short \in Seq(Line), NEW long \in Seq(Line), Agree(short, long), NEW i \in DOMAIN short
  PROVE  /\ i \in DOMAIN long
         /\ IsTask(short, i) = IsTask(long, i)
         /\ Number(short, i) = Number(long, i)
         /\ StableOf(short, i) = StableOf(long, i)
<1>1. DOMAIN short = 1 .. Len(short) /\ DOMAIN long = 1 .. Len(long) /\ Len(short) \in Nat /\ Len(long) \in Nat
  BY LenProperties
<1>2. \A j \in 1 .. i : j \in DOMAIN short /\ short[j].form = long[j].form
  BY <1>1 DEF Agree
<1>3. ASSUME NEW j \in 1 .. i
      PROVE  /\ SectionOf(short, j) = SectionOf(long, j)
             /\ Number(short, j) = Number(long, j)
             /\ IsTask(short, j) = IsTask(long, j)
  <2>1. \A k \in 1 .. j : k \in 1 .. i /\ 1 .. k \subseteq 1 .. i
    BY <1>1
  <2>2. {k \in 1 .. j : short[k].form = "section"} = {k \in 1 .. j : long[k].form = "section"}
    BY <1>2, <2>1
  <2>3. SectionOf(short, j) = SectionOf(long, j)
    BY <2>2 DEF SectionOf
  <2>4. \A k \in 1 .. j : Counted(short, k) = Counted(long, k)
    <3> SUFFICES ASSUME NEW k \in 1 .. j PROVE Counted(short, k) = Counted(long, k)
      OBVIOUS
    <3>1. short[k].form = long[k].form
      BY <1>2, <2>1
    <3>2. (\E x \in 1 .. k : short[x].form = "section") <=> (\E x \in 1 .. k : long[x].form = "section")
      BY <1>2, <2>1
    <3> QED BY <3>1, <3>2 DEF Counted
  <2>5. {k \in 1 .. j : Counted(short, k)} = {k \in 1 .. j : Counted(long, k)}
    BY <2>4
  <2>6. short[j].form = long[j].form /\ short[j].num = long[j].num
    BY <1>2 DEF Agree
  <2>7. Number(short, j) = Number(long, j)
    BY <2>5, <2>6 DEF Number, Counter
  <2> QED BY <2>3, <2>6, <2>7 DEF IsTask
<1>4. i \in 1 .. i /\ 1 .. i - 1 \subseteq 1 .. i
  BY <1>1
<1>5. {j \in 1 .. i - 1 : IsTask(short, j) /\ SectionOf(short, j) = SectionOf(short, i)}
        = {j \in 1 .. i - 1 : IsTask(long, j) /\ SectionOf(long, j) = SectionOf(long, i)}
  BY <1>3, <1>4
<1>6. StableOf(short, i) = StableOf(long, i)
  BY <1>3, <1>4, <1>5 DEF StableOf
<1> QED BY <1>1, <1>3, <1>4, <1>6 DEF Agree

-----------------------------------------------------------------------------
(***************************************************************************)
(* What an edit makes of a sequence.                                       *)
(***************************************************************************)
LEMMA Ticked ==
  ASSUME NEW lines \in Seq(Line), NEW i \in DOMAIN lines, NEW line \in Line
  PROVE  LET new == [lines EXCEPT ![i] = line]
         IN  /\ new \in Seq(Line) /\ DOMAIN new = DOMAIN lines /\ Len(new) = Len(lines)
             /\ new[i] = line
             /\ \A j \in DOMAIN lines \ {i} : new[j] = lines[j]
<1>1. DOMAIN lines = 1 .. Len(lines)
  BY LenProperties
<1> QED BY <1>1, ExceptSeq, LenProperties

Into(lines, i, line) == SubSeq(lines, 1, i - 1) \o <<line>> \o SubSeq(lines, i, Len(lines))
Without(lines, i) == SubSeq(lines, 1, i - 1) \o SubSeq(lines, i + 1, Len(lines))

LEMMA Part ==
  ASSUME NEW lines \in Seq(Line), NEW m \in Nat \ {0}, NEW n \in Nat, n <= Len(lines), m <= n + 1
  PROVE  /\ SubSeq(lines, m, n) \in Seq(Line)
         /\ Len(SubSeq(lines, m, n)) = n - m + 1
         /\ \A j \in 1 .. n - m + 1 : SubSeq(lines, m, n)[j] = lines[m + j - 1]
<1>1. Len(lines) \in Nat /\ \A j \in m .. n : lines[j] \in Line
  BY LenProperties, ElementOfSeq
<1> DEFINE part == SubSeq(lines, m, n)
<1>2. /\ part \in Seq(Line)
      /\ Len(part) = IF m <= n THEN n - m + 1 ELSE 0
      /\ \A j \in 1 .. n - m + 1 : part[j] = lines[m + j - 1]
  BY <1>1, SubSeqProperties
<1> HIDE DEF part
<1>3. Len(part) = n - m + 1
  BY <1>1, <1>2
<1> QED BY <1>2, <1>3 DEF part

LEMMA Inserted ==
  ASSUME NEW lines \in Seq(Line), NEW i \in 1 .. Len(lines) + 1, NEW line \in Line
  PROVE  /\ Into(lines, i, line) \in Seq(Line)
         /\ Len(Into(lines, i, line)) = Len(lines) + 1
         /\ \A j \in 1 .. Len(lines) + 1 :
              Into(lines, i, line)[j] = IF j < i THEN lines[j] ELSE IF j = i THEN line ELSE lines[j - 1]
<1>1. Len(lines) \in Nat /\ i \in Nat \ {0} /\ i - 1 \in Nat /\ i - 1 <= Len(lines)
  BY LenProperties
<1> DEFINE before == SubSeq(lines, 1, i - 1)
           after == SubSeq(lines, i, Len(lines))
           head == before \o <<line>>
<1>2. before \in Seq(Line) /\ Len(before) = i - 1 /\ \A j \in 1 .. i - 1 : before[j] = lines[j]
  <2>1. before \in Seq(Line) /\ Len(before) = (i - 1) - 1 + 1
        /\ \A j \in 1 .. (i - 1) - 1 + 1 : before[j] = lines[1 + j - 1]
    BY <1>1, Part
  <2> HIDE DEF before
  <2> QED BY <1>1, <2>1
<1>3. after \in Seq(Line) /\ Len(after) = Len(lines) - i + 1
      /\ \A j \in 1 .. Len(lines) - i + 1 : after[j] = lines[i + j - 1]
  BY <1>1, Part
<1>4. <<line>> \in Seq(Line) /\ Len(<<line>>) = 1 /\ <<line>>[1] = line
  OBVIOUS
<1> HIDE DEF before, after
<1>5. /\ head \in Seq(Line) /\ Len(head) = Len(before) + Len(<<line>>)
      /\ \A j \in 1 .. Len(before) + Len(<<line>>) :
           head[j] = IF j <= Len(before) THEN before[j] ELSE <<line>>[j - Len(before)]
  BY <1>2, <1>4, ConcatProperties
<1> HIDE DEF head
<1>6. Len(head) = i /\ \A j \in 1 .. i : head[j] = IF j < i THEN lines[j] ELSE line
  <2>1. Len(head) = i
    BY <1>1, <1>2, <1>4, <1>5
  <2>2. ASSUME NEW j \in 1 .. i PROVE head[j] = IF j < i THEN lines[j] ELSE line
    <3>1. CASE j < i
      BY <1>1, <1>2, <1>4, <1>5, <3>1
    <3>2. CASE j = i
      <4>1. ~(j <= Len(before)) /\ j - Len(before) = 1 /\ j \in 1 .. Len(before) + Len(<<line>>)
        BY <1>1, <1>2, <1>4, <3>2
      <4> QED BY <1>4, <1>5, <3>2, <4>1
    <3> QED BY <1>1, <3>1, <3>2
  <2> QED BY <2>1, <2>2
<1> DEFINE all == head \o after
<1>7. /\ all \in Seq(Line) /\ Len(all) = Len(head) + Len(after)
      /\ \A j \in 1 .. Len(head) + Len(after) :
           all[j] = IF j <= Len(head) THEN head[j] ELSE after[j - Len(head)]
  <2>1. head \in Seq(Line) /\ after \in Seq(Line)
    BY <1>3, <1>5
  <2> QED BY <2>1, ConcatProperties
<1> HIDE DEF all
<1>8. Len(head) + Len(after) = Len(lines) + 1
  BY <1>1, <1>3, <1>6
<1>9. ASSUME NEW j \in 1 .. Len(lines) + 1
      PROVE  all[j] = IF j < i THEN lines[j] ELSE IF j = i THEN line ELSE lines[j - 1]
  <2>1. CASE j <= i
    BY <1>1, <1>6, <1>7, <1>8, <2>1
  <2>2. CASE j > i
    <3>1. j - i \in 1 .. Len(lines) - i + 1 /\ i + (j - i) - 1 = j - 1
      BY <1>1, <2>2
    <3>2. all[j] = after[j - i]
      BY <1>1, <1>6, <1>7, <1>8, <2>2
    <3> QED BY <1>1, <1>3, <2>2, <3>1, <3>2
  <2> QED BY <1>1, <2>1, <2>2
<1> QED BY <1>7, <1>8, <1>9 DEF Into, before, after, head, all

LEMMA Removed ==
  ASSUME NEW lines \in Seq(Line), NEW i \in DOMAIN lines
  PROVE  /\ Without(lines, i) \in Seq(Line)
         /\ Len(Without(lines, i)) = Len(lines) - 1
         /\ \A j \in 1 .. Len(lines) - 1 :
              Without(lines, i)[j] = IF j < i THEN lines[j] ELSE lines[j + 1]
<1>1. Len(lines) \in Nat /\ i \in 1 .. Len(lines) /\ i \in Nat \ {0} /\ i - 1 \in Nat /\ i + 1 \in Nat \ {0}
  BY LenProperties
<1> DEFINE before == SubSeq(lines, 1, i - 1)
           after == SubSeq(lines, i + 1, Len(lines))
<1>2. before \in Seq(Line) /\ Len(before) = i - 1 /\ \A j \in 1 .. i - 1 : before[j] = lines[j]
  <2>1. before \in Seq(Line) /\ Len(before) = (i - 1) - 1 + 1
        /\ \A j \in 1 .. (i - 1) - 1 + 1 : before[j] = lines[1 + j - 1]
    BY <1>1, Part
  <2> HIDE DEF before
  <2> QED BY <1>1, <2>1
<1>3. after \in Seq(Line) /\ Len(after) = Len(lines) - i
      /\ \A j \in 1 .. Len(lines) - i : after[j] = lines[i + j]
  <2>1. after \in Seq(Line) /\ Len(after) = Len(lines) - (i + 1) + 1
        /\ \A j \in 1 .. Len(lines) - (i + 1) + 1 : after[j] = lines[i + 1 + j - 1]
    BY <1>1, Part
  <2> HIDE DEF after
  <2>2. Len(after) = Len(lines) - i
    BY <1>1, <2>1
  <2>3. ASSUME NEW j \in 1 .. Len(lines) - i PROVE after[j] = lines[i + j]
    <3>1. j \in 1 .. Len(lines) - (i + 1) + 1 /\ i + 1 + j - 1 = i + j
      BY <1>1
    <3> QED BY <2>1, <3>1
  <2> QED BY <2>1, <2>2, <2>3
<1> HIDE DEF before, after
<1> DEFINE all == before \o after
<1>4. /\ all \in Seq(Line) /\ Len(all) = Len(before) + Len(after)
      /\ \A j \in 1 .. Len(before) + Len(after) :
           all[j] = IF j <= Len(before) THEN before[j] ELSE after[j - Len(before)]
  BY <1>2, <1>3, ConcatProperties
<1> HIDE DEF all
<1>5. Len(before) + Len(after) = Len(lines) - 1
  BY <1>1, <1>2, <1>3
<1>6. ASSUME NEW j \in 1 .. Len(lines) - 1
      PROVE  all[j] = IF j < i THEN lines[j] ELSE lines[j + 1]
  <2>1. CASE j < i
    BY <1>1, <1>2, <1>4, <1>5, <2>1
  <2>2. CASE ~(j < i)
    <3>1. j - (i - 1) \in 1 .. Len(lines) - i /\ i + (j - (i - 1)) = j + 1
      BY <1>1, <2>2
    <3>2. all[j] = after[j - (i - 1)]
      <4>1. Len(before) = i - 1 /\ j \in 1 .. Len(before) + Len(after) /\ ~(j <= Len(before))
        BY <1>1, <1>2, <1>5, <2>2
      <4>2. all[j] = after[j - Len(before)]
        BY <1>4, <4>1
      <4> QED BY <4>1, <4>2
    <3> QED BY <1>1, <1>3, <2>2, <3>1, <3>2
  <2> QED BY <2>1, <2>2
<1> QED BY <1>4, <1>5, <1>6 DEF Without, before, after, all

-----------------------------------------------------------------------------
(***************************************************************************)
(* Types.  What is missing from TypeOK to be inductive: a process that     *)
(* does something knows the plan, and a writer the line.                   *)
(***************************************************************************)
Frame ==
  [at : {"idle", "sync", "find", "tick", "write", "check"},
   project : Project \cup {NoProject}, id : Id,
   copy : Seq(Line), line : Nat, todo : SUBSET Id]

Placed(f) ==
  /\ f.at # "idle" => f.project \in Project
  /\ f.at = "write" => f.line \in DOMAIN f.copy

TypeInv == TypeOK /\ \A s \in Proc : Placed(frame[s])

LEMMA Constants ==
  /\ Here \in Project \cup {NoProject} /\ NoProject \notin Project
  /\ Syncers \subseteq Proc /\ Consoles \subseteq Proc /\ Nobody \notin Proc
  /\ NoKey \notin Key /\ Wording # {}
  /\ FirstPlans \in [Project -> Seq(Line)]
  /\ Spare \subseteq Line
  /\ Habits \subseteq SUBSET EditKind
BY FixPlanAssumption

LEMMA IdleFrame == Idle \in Frame /\ Placed(Idle)
<1>1. (CHOOSE w \in Wording : TRUE) \in Wording
  BY Constants
<1>2. NoId \in Id
  BY <1>1 DEF NoId, Id
<1>3. <<>> \in Seq(Line)
  OBVIOUS
<1> QED BY <1>2, <1>3 DEF Idle, Frame, Placed

\* A step of one process that touches nothing but what it keeps and the lock.
LEMMA FrameTypes ==
  ASSUME TypeInv, NEW s \in Proc, NEW f \in Frame, Placed(f),
         frame' = [frame EXCEPT ![s] = f]
  PROVE  frame' \in [Proc -> Frame] /\ \A r \in Proc : Placed(frame'[r])
BY DEF TypeInv, TypeOK, Frame

LEMMA DoneTypes ==
  ASSUME TypeInv, NEW s \in Proc, frame[s].at # "idle", Done(s)
  PROVE  \E f \in Frame : Placed(f) /\ f.at \in {"idle", "check"}
                          /\ frame' = [frame EXCEPT ![s] = f]
<1>1. frame[s] \in Frame /\ frame[s].project \in Project
  BY DEF TypeInv, TypeOK, Frame, Placed
<1>2. CASE frame[s].todo = {}
  BY <1>2, IdleFrame DEF Done, Idle
<1>3. CASE frame[s].todo # {}
  <2> DEFINE f == [Idle EXCEPT !.at = "check", !.project = frame[s].project, !.todo = frame[s].todo]
  <2>1. f \in Frame /\ f.at = "check" /\ f.project = frame[s].project
    BY <1>1, IdleFrame DEF Frame
  <2>2. Placed(f)
    BY <1>1, <2>1 DEF Placed
  <2>3. frame' = [frame EXCEPT ![s] = f]
    BY <1>3 DEF Done
  <2> QED BY <2>1, <2>2, <2>3
<1> QED BY <1>2, <1>3

LEMMA LockTypes ==
  ASSUME TypeInv, NEW s \in Proc
  PROVE  Unlocked(s) \in [Project -> Proc \cup {Nobody}]
BY DEF TypeInv, TypeOK, Unlocked

\* A step that leaves alone what it does not name.
LEMMA TypesFrom ==
  ASSUME file' \in [Project -> Seq(Line)], buffer' \in [Project -> Seq(Line)],
         DOMAIN row' \subseteq Id, row' \in [DOMAIN row' -> Row], job' \subseteq Id,
         lock' \in [Project -> Proc \cup {Nobody}],
         frame' \in [Proc -> Frame], \A r \in Proc : Placed(frame'[r]),
         edits' \subseteq EditKind,
         earned' \subseteq Key \cup {NoKey}, told' \subseteq Key \cup {NoKey}
  PROVE  TypeInv'
BY DEF TypeInv, TypeOK, Frame

-----------------------------------------------------------------------------
(***************************************************************************)
(* What the sync of one heading does to the table.                         *)
(***************************************************************************)
LEMMA MatchedRow ==
  ASSUME NEW old \in Row, NEW line, NEW stable \in Stable
  PROVE  /\ Matched(old, line, stable) \in Row
         /\ Matched(old, line, stable).stable = stable
         /\ Matched(old, line, stable).status = "completed" => Shown(line) \/ old.status = "completed"
BY DEF Matched, Row, RowStatus

LEMMA SyncTaskRows ==
  ASSUME TypeInv, NEW lines \in Seq(Line), NEW i \in DOMAIN lines, NEW p \in Project,
         SyncTask(lines, i, p)
  PROVE  LET id == IdOf(lines, i)
             stable == StableOf(lines, i)
         IN  /\ id \in DOMAIN row' /\ DOMAIN row' \subseteq DOMAIN row \cup {id}
             /\ row' \in [DOMAIN row' -> Row]
             /\ row'[id].stable = stable
             /\ row'[id].status = "completed" =>
                  \/ Shown(lines[i])
                  \/ id \in DOMAIN row /\ row[id].status = "completed"
                  \/ \E old \in Namesakes(stable) : row[old].status = "completed"
             /\ \A x \in DOMAIN row' \ {id} : x \in DOMAIN row /\ row'[x] = row[x]
             /\ \A x \in DOMAIN row \ DOMAIN row' : x \in Namesakes(stable) /\ id \notin DOMAIN row
<1> DEFINE id == IdOf(lines, i)
           stable == StableOf(lines, i)
<1>1. id \in Id /\ stable \in Stable /\ lines[i] \in Line
  BY ParsedTypes
<1>2. row \in [DOMAIN row -> Row]
  BY DEF TypeInv, TypeOK
<1> HIDE DEF id, stable
<1>3. CASE id \in DOMAIN row /\ row' = [row EXCEPT ![id] = Matched(@, lines[i], stable)]
  <2>1. row[id] \in Row
    BY <1>2, <1>3
  <2>2. DOMAIN row' = DOMAIN row /\ row'[id] = Matched(row[id], lines[i], stable)
        /\ \A x \in DOMAIN row \ {id} : row'[x] = row[x]
    BY <1>2, <1>3
  <2>3. row' \in [DOMAIN row' -> Row]
    BY <1>1, <1>2, <1>3, <2>1, MatchedRow
  <2> QED BY <1>1, <1>3, <2>1, <2>2, <2>3, MatchedRow DEF id, stable
<1>4. ASSUME id \notin DOMAIN row, NEW old \in Namesakes(stable),
             row' = [Renamed(old, id) EXCEPT ![id] = Matched(@, lines[i], stable)]
      PROVE  /\ id \in DOMAIN row' /\ DOMAIN row' \subseteq DOMAIN row \cup {id}
             /\ row' \in [DOMAIN row' -> Row]
             /\ row'[id].stable = stable
             /\ row'[id].status = "completed" =>
                  \/ Shown(lines[i])
                  \/ \E x \in Namesakes(stable) : row[x].status = "completed"
             /\ \A x \in DOMAIN row' \ {id} : x \in DOMAIN row /\ row'[x] = row[x]
             /\ \A x \in DOMAIN row \ DOMAIN row' : x \in Namesakes(stable)
  <2>1. old \in DOMAIN row /\ row[old] \in Row
    BY <1>2, <1>4 DEF Namesakes
  <2>2. DOMAIN row' = (DOMAIN row \ {old}) \cup {id} /\ row'[id] = Matched(row[old], lines[i], stable)
        /\ \A x \in DOMAIN row' \ {id} : row'[x] = row[x]
    BY <1>4 DEF Renamed
  <2>3. /\ row'[id] \in Row /\ row'[id].stable = stable
        /\ row'[id].status = "completed" => Shown(lines[i]) \/ row[old].status = "completed"
    BY <1>1, <2>1, <2>2, MatchedRow
  <2>4. row' = [x \in DOMAIN row' |-> row'[x]]
    BY <1>4 DEF Renamed
  <2>5. \A x \in DOMAIN row' : row'[x] \in Row
    BY <1>2, <2>2, <2>3
  <2>6. row' \in [DOMAIN row' -> Row]
    BY <2>4, <2>5
  <2> QED BY <1>4, <2>1, <2>2, <2>3, <2>6
<1>5. CASE /\ id \notin DOMAIN row
           /\ row' = [x \in DOMAIN row \cup {id} |-> IF x = id THEN NewRow(lines[i], stable, p) ELSE row[x]]
  <2>1. /\ NewRow(lines[i], stable, p) \in Row /\ NewRow(lines[i], stable, p).stable = stable
        /\ NewRow(lines[i], stable, p).status = "completed" => Shown(lines[i])
    BY <1>1 DEF NewRow, Row, RowStatus
  <2>2. DOMAIN row' = DOMAIN row \cup {id} /\ row'[id] = NewRow(lines[i], stable, p)
        /\ \A x \in DOMAIN row : row'[x] = row[x]
    BY <1>5
  <2>3. row' \in [DOMAIN row' -> Row]
    BY <1>2, <1>5, <2>1
  <2> QED BY <1>2, <1>5, <2>1, <2>2, <2>3 DEF id, stable
<1> QED BY <1>3, <1>4, <1>5 DEF SyncTask, id, stable

-----------------------------------------------------------------------------
(***************************************************************************)
(* Every step keeps the types.                                             *)
(***************************************************************************)
LEMMA TypesNow ==
  ASSUME TypeInv
  PROVE  /\ file \in [Project -> Seq(Line)] /\ buffer \in [Project -> Seq(Line)]
         /\ DOMAIN row \subseteq Id /\ row \in [DOMAIN row -> Row] /\ job \subseteq Id
         /\ lock \in [Project -> Proc \cup {Nobody}]
         /\ frame \in [Proc -> Frame]
         /\ \A r \in Proc : Placed(frame[r])
         /\ edits \subseteq EditKind
         /\ earned \subseteq Key \cup {NoKey} /\ told \subseteq Key \cup {NoKey}
BY DEF TypeInv, TypeOK, Frame

\* What an action says of a line of the plan it works on.
LEMMA WorkingOn ==
  ASSUME TypeInv, NEW s \in Proc, frame[s].at # "idle"
  PROVE  /\ frame[s] \in Frame /\ Placed(frame[s])
         /\ frame[s].project \in Project /\ file[frame[s].project] \in Seq(Line)
         /\ frame[s].copy \in Seq(Line) /\ frame[s].line \in Nat /\ frame[s].id \in Id
         /\ frame[s].todo \subseteq Id
         /\ frame[s].at = "write" =>
              frame[s].line \in DOMAIN frame[s].copy /\ frame[s].copy[frame[s].line] \in Line
<1>1. frame[s] \in Frame /\ Placed(frame[s])
  BY TypesNow
<1>2. frame[s].project \in Project /\ frame[s].copy \in Seq(Line)
  BY <1>1 DEF Frame, Placed
<1>3. frame[s].at = "write" => frame[s].line \in DOMAIN frame[s].copy /\ frame[s].copy[frame[s].line] \in Line
  BY <1>1, <1>2, ElementOfSeq, LenProperties DEF Placed
<1> QED BY <1>1, <1>2, <1>3, TypesNow DEF Frame

LEMMA SyncTypes ==
  ASSUME TypeInv, NEW s \in Proc, SyncLine(s) \/ \E p \in Project : SyncRead(s, p)
  PROVE  TypeInv'
<1>1. ASSUME NEW p \in Project, SyncRead(s, p) PROVE TypeInv'
  <2> DEFINE f == [Idle EXCEPT !.at = "sync", !.project = p, !.copy = file[p], !.line = 1]
  <2>1. f \in Frame /\ f.at = "sync" /\ f.project = p
    BY <1>1, IdleFrame, TypesNow DEF Frame
  <2>2. Placed(f)
    BY <2>1 DEF Placed
  <2>3. frame' = [frame EXCEPT ![s] = f] /\ UNCHANGED <<file, buffer, row, job, lock, earned, told, edits>>
    BY <1>1 DEF SyncRead
  <2> HIDE DEF f
  <2> QED BY <2>1, <2>2, <2>3, FrameTypes, TypesNow, TypesFrom
<1>2. CASE SyncLine(s)
  <2>1. frame[s].at = "sync" /\ UNCHANGED <<file, buffer, job, lock, earned, told, edits>>
    BY <1>2 DEF SyncLine, At
  <2>2. frame[s] \in Frame /\ frame[s].project \in Project /\ frame[s].copy \in Seq(Line) /\ frame[s].line \in Nat
    BY <2>1, WorkingOn
  <2>3. CASE /\ frame[s].line \in DOMAIN frame[s].copy
             /\ IF IsTask(frame[s].copy, frame[s].line)
                THEN SyncTask(frame[s].copy, frame[s].line, frame[s].project) ELSE UNCHANGED row
             /\ frame' = [frame EXCEPT ![s].line = @ + 1]
    <3>1. DOMAIN row' \subseteq Id /\ row' \in [DOMAIN row' -> Row]
      <4>1. CASE UNCHANGED row
        BY <4>1, TypesNow
      <4>2. CASE SyncTask(frame[s].copy, frame[s].line, frame[s].project)
        <5>1. IdOf(frame[s].copy, frame[s].line) \in Id
          BY <2>2, <2>3, ParsedTypes
        <5> QED BY <2>2, <2>3, <4>2, <5>1, SyncTaskRows, TypesNow
      <4> QED BY <2>3, <4>1, <4>2
    <3> DEFINE f == [frame[s] EXCEPT !.line = @ + 1]
    <3>2. f \in Frame /\ f.at = "sync" /\ f.project = frame[s].project
      BY <2>1, <2>2 DEF Frame
    <3>3. Placed(f)
      BY <2>2, <3>2 DEF Placed
    <3>4. frame' = [frame EXCEPT ![s] = f]
      BY <2>3, TypesNow
    <3> HIDE DEF f
    <3>5. frame' \in [Proc -> Frame] /\ \A r \in Proc : Placed(frame'[r])
      BY <3>2, <3>3, <3>4, FrameTypes
    <3> QED BY <2>1, <3>1, <3>5, TypesNow, TypesFrom
  <2>4. CASE frame' = [frame EXCEPT ![s] = Idle] /\ UNCHANGED row
    <3>1. frame' \in [Proc -> Frame] /\ \A r \in Proc : Placed(frame'[r])
      BY <2>4, IdleFrame, FrameTypes
    <3> QED BY <2>1, <2>4, <3>1, TypesNow, TypesFrom
  <2> QED BY <1>2, <2>3, <2>4 DEF SyncLine
<1> QED BY <1>1, <1>2

LEMMA ClaimTypes == ASSUME TypeInv, NEW id \in DOMAIN row, ClaimTask(id) PROVE TypeInv'
<1>1. row' = [row EXCEPT ![id].status = "in_progress"] /\ job' = job \cup {id}
      /\ UNCHANGED <<file, buffer, lock, frame, earned, told, edits>>
  BY DEF ClaimTask
<1>2. row' \in [DOMAIN row' -> Row] /\ DOMAIN row' = DOMAIN row
  BY <1>1, TypesNow DEF Row, RowStatus
<1> QED BY <1>1, <1>2, TypesNow, TypesFrom

LEMMA CompleteTypes == ASSUME TypeInv, NEW s \in Proc, NEW id \in job, CompleteTask(s, id) PROVE TypeInv'
<1>1. job' = job \ {id} /\ earned' = earned \cup {id.key} /\ UNCHANGED <<file, buffer, lock, told, edits>>
  BY DEF CompleteTask
<1>2. id \in Id /\ id.key \in Key \cup {NoKey}
  BY TypesNow DEF Id
<1>3. CASE UNCHANGED <<row, frame>>
  BY <1>1, <1>2, <1>3, TypesNow, TypesFrom
<1>4. CASE /\ id \in InProgress
           /\ row' = [row EXCEPT ![id].status = "completed"]
           /\ frame' = [frame EXCEPT ![s] = [Idle EXCEPT
                          !.at = "find", !.project = PlanOf(row[id].project), !.id = id]]
  <2>1. row[id] \in Row /\ PlanOf(row[id].project) \in Project
    BY <1>4, TypesNow, Constants DEF InProgress, Row, PlanOf
  <2> DEFINE f == [Idle EXCEPT !.at = "find", !.project = PlanOf(row[id].project), !.id = id]
  <2>2. f \in Frame /\ f.at = "find" /\ f.project \in Project
    BY <1>2, <2>1, IdleFrame DEF Frame
  <2>3. Placed(f)
    BY <2>2 DEF Placed
  <2>4. frame' = [frame EXCEPT ![s] = f]
    BY <1>4
  <2> HIDE DEF f
  <2>5. frame' \in [Proc -> Frame] /\ \A r \in Proc : Placed(frame'[r])
    BY <2>2, <2>3, <2>4, FrameTypes
  <2>6. row' \in [DOMAIN row' -> Row] /\ DOMAIN row' = DOMAIN row
    BY <1>4, TypesNow DEF Row, RowStatus
  <2> QED BY <1>1, <1>2, <2>5, <2>6, TypesNow, TypesFrom
<1> QED BY <1>3, <1>4 DEF CompleteTask

LEMMA FoundInPlan ==
  ASSUME NEW lines \in Seq(Line), NEW id, NEW i \in Unmarked(lines, id)
  PROVE  /\ i \in DOMAIN lines /\ i \in Nat /\ lines[i] \in Line
         /\ lines[i].form = "numbered" /\ lines[i].num = id.num
BY LenProperties, ElementOfSeq DEF Unmarked, Found, Candidates

LEMMA WriterTypes ==
  ASSUME TypeInv, NEW s \in Proc, FindRow(s) \/ TickRead(s) \/ TickWrite(s)
  PROVE  TypeInv'
<1>1. frame[s].at # "idle"
  BY DEF FindRow, TickRead, TickWrite, At
<1>2. CASE FindRow(s)
  <2>1. UNCHANGED <<file, buffer, row, job, lock, earned, told, edits>>
    BY <1>2 DEF FindRow
  <2>2. \E f \in Frame : Placed(f) /\ frame' = [frame EXCEPT ![s] = f]
    <3>1. CASE frame' = [frame EXCEPT ![s].at = "tick"]
      <4> DEFINE f == [frame[s] EXCEPT !.at = "tick"]
      <4>1. f \in Frame /\ Placed(f)
        BY <1>1, WorkingOn DEF Frame, Placed
      <4>2. frame' = [frame EXCEPT ![s] = f]
        BY <3>1, TypesNow
      <4> QED BY <4>1, <4>2
    <3>2. CASE Done(s)
      BY <1>1, <3>2, DoneTypes
    <3> QED BY <1>2, <3>1, <3>2 DEF FindRow
  <2>3. frame' \in [Proc -> Frame] /\ \A r \in Proc : Placed(frame'[r])
    BY <2>2, FrameTypes
  <2> QED BY <2>1, <2>3, TypesNow, TypesFrom
<1>3. CASE TickRead(s)
  <2> DEFINE lines == file[frame[s].project]
  <2>1. UNCHANGED <<file, buffer, row, job, earned, told, edits>>
    BY <1>3 DEF TickRead
  <2>2. lines \in Seq(Line) /\ frame[s] \in Frame /\ frame[s].project \in Project
    BY <1>1, WorkingOn
  <2>3. ASSUME NEW i \in Unmarked(lines, frame[s].id),
               lock' = [lock EXCEPT ![frame[s].project] = s],
               frame' = [frame EXCEPT ![s].at = "write", ![s].copy = lines, ![s].line = i]
        PROVE  TypeInv'
    <3>1. i \in DOMAIN lines /\ i \in Nat
      BY <2>2, FoundInPlan
    <3> HIDE DEF lines
    <3> DEFINE f == [frame[s] EXCEPT !.at = "write", !.copy = lines, !.line = i]
    <3>2. f \in Frame /\ f.at = "write" /\ f.project = frame[s].project /\ f.copy = lines /\ f.line = i
      BY <2>2, <3>1 DEF Frame
    <3>3. Placed(f)
      BY <2>2, <3>1, <3>2 DEF Placed
    <3>4. frame' = [frame EXCEPT ![s] = f]
      BY <2>3, TypesNow
    <3> HIDE DEF f
    <3>5. frame' \in [Proc -> Frame] /\ \A r \in Proc : Placed(frame'[r])
      BY <3>2, <3>3, <3>4, FrameTypes
    <3>6. lock' \in [Project -> Proc \cup {Nobody}]
      BY <2>3, TypesNow
    <3> QED BY <2>1, <3>5, <3>6, TypesNow, TypesFrom
  <2>4. CASE Done(s) /\ UNCHANGED lock
    <3>1. frame' \in [Proc -> Frame] /\ \A r \in Proc : Placed(frame'[r])
      BY <1>1, <2>4, DoneTypes, FrameTypes
    <3> QED BY <2>1, <2>4, <3>1, TypesNow, TypesFrom
  <2> QED BY <1>3, <2>3, <2>4 DEF TickRead
<1>4. CASE TickWrite(s)
  <2>1. frame[s].at = "write" /\ lock' = Unlocked(s) /\ Done(s) /\ UNCHANGED <<buffer, row, job, earned, edits>>
    BY <1>4 DEF TickWrite, At
  <2>2. frame' \in [Proc -> Frame] /\ \A r \in Proc : Placed(frame'[r])
    BY <1>1, <2>1, DoneTypes, FrameTypes
  <2>3. lock' \in [Project -> Proc \cup {Nobody}]
    BY <2>1, LockTypes
  <2> DEFINE f == frame[s]
  <2>4. f.project \in Project /\ f.copy \in Seq(Line) /\ f.line \in DOMAIN f.copy /\ f.copy[f.line] \in Line
    BY <2>1, WorkingOn
  <2>5. file' \in [Project -> Seq(Line)] /\ told' \subseteq Key \cup {NoKey}
    <3>1. CASE UNCHANGED <<file, told>>
      BY <3>1, TypesNow
    <3>2. CASE /\ file' = [file EXCEPT ![f.project] = [f.copy EXCEPT ![f.line].mark = "check"]]
               /\ told' = told \cup {f.copy[f.line].key}
      <4>1. [f.copy[f.line] EXCEPT !.mark = "check"] \in Line
        BY <2>4 DEF Line, Mark
      <4>2. [f.copy EXCEPT ![f.line].mark = "check"] \in Seq(Line)
        BY <2>4, <4>1, Ticked
      <4> QED BY <2>4, <3>2, <4>2, TypesNow DEF Line
    <3> QED BY <1>4, <3>1, <3>2 DEF TickWrite
  <2> QED BY <2>1, <2>2, <2>3, <2>5, TypesNow, TypesFrom
<1> QED BY <1>2, <1>3, <1>4

LEMMA ReconcileTypes ==
  ASSUME TypeInv, NEW s \in Proc,
         ReconcileCheck(s) \/ Crash(s) \/ \E filter \in Project \cup {NoProject} : Reconcile(s, filter)
  PROVE  TypeInv'
<1>1. CASE ReconcileCheck(s)
  <2>1. frame[s].at = "check" /\ UNCHANGED <<file, buffer, row, job, lock, earned, told, edits>>
    BY <1>1 DEF ReconcileCheck, At
  <2>2. frame[s] \in Frame /\ Placed(frame[s]) /\ frame[s].todo \subseteq Id
    BY <2>1, WorkingOn
  <2>3. PICK id \in frame[s].todo :
          LET left == frame[s].todo \ {id}
          IN  \/ frame' = [frame EXCEPT ![s].at = "tick", ![s].id = id, ![s].todo = left]
              \/ frame' = [frame EXCEPT ![s] = IF left = {} THEN Idle ELSE [frame[s] EXCEPT !.todo = left]]
    BY <1>1 DEF ReconcileCheck
  <2> DEFINE left == frame[s].todo \ {id}
             f == [frame[s] EXCEPT !.at = "tick", !.id = id, !.todo = left]
             g == IF left = {} THEN Idle ELSE [frame[s] EXCEPT !.todo = left]
  <2>4. f \in Frame /\ Placed(f)
    BY <2>1, <2>2 DEF Frame, Placed
  <2>5. g \in Frame /\ Placed(g)
    BY <2>1, <2>2, IdleFrame DEF Frame, Placed
  <2>6. frame' = [frame EXCEPT ![s] = f] \/ frame' = [frame EXCEPT ![s] = g]
    BY <2>3, TypesNow
  <2> HIDE DEF f, g
  <2>7. frame' \in [Proc -> Frame] /\ \A r \in Proc : Placed(frame'[r])
    BY <2>4, <2>5, <2>6, FrameTypes
  <2> QED BY <2>1, <2>7, TypesNow, TypesFrom
<1>2. CASE Crash(s)
  <2>1. frame' = [frame EXCEPT ![s] = Idle] /\ lock' = Unlocked(s)
        /\ UNCHANGED <<file, buffer, row, job, earned, told, edits>>
    BY <1>2 DEF Crash
  <2>2. frame' \in [Proc -> Frame] /\ \A r \in Proc : Placed(frame'[r])
    BY <2>1, IdleFrame, FrameTypes
  <2>3. lock' \in [Project -> Proc \cup {Nobody}]
    BY <2>1, LockTypes
  <2> QED BY <2>1, <2>2, <2>3, TypesNow, TypesFrom
<1>3. ASSUME NEW filter \in Project \cup {NoProject}, Reconcile(s, filter) PROVE TypeInv'
  <2> DEFINE found == {id \in DOMAIN row : row[id].status = "completed"
                                           /\ filter \in {NoProject, row[id].project}}
             f == [Idle EXCEPT !.at = "check", !.project = PlanOf(filter), !.todo = found]
  <2>1. frame' = [frame EXCEPT ![s] = f] /\ UNCHANGED <<file, buffer, row, job, lock, earned, told, edits>>
    BY <1>3 DEF Reconcile
  <2>2. PlanOf(filter) \in Project /\ found \subseteq Id
    BY <1>3, Constants, TypesNow DEF Reconcile, PlanOf
  <2>3. f \in Frame /\ f.at = "check" /\ f.project \in Project
    BY <2>2, IdleFrame DEF Frame
  <2>4. Placed(f)
    BY <2>3 DEF Placed
  <2> HIDE DEF f
  <2>5. frame' \in [Proc -> Frame] /\ \A r \in Proc : Placed(frame'[r])
    BY <2>1, <2>3, <2>4, FrameTypes
  <2> QED BY <2>1, <2>5, TypesNow, TypesFrom
<1> QED BY <1>1, <1>2, <1>3

\* What an editor works on.
LEMMA SeenTypes ==
  ASSUME TypeInv, NEW p \in Project, NEW lines \in Seen(p)
  PROVE  /\ lines \in Seq(Line) /\ Len(lines) \in Nat /\ DOMAIN lines = 1 .. Len(lines)
         /\ \A i \in DOMAIN lines : lines[i] \in Line
         /\ "stale" \notin edits => lines = file[p]
<1>1. lines \in Seq(Line)
  BY TypesNow DEF Seen
<1> QED BY <1>1, ElementOfSeq, LenProperties DEF Seen

LEMMA FileSeen == \A p \in Project : file[p] \in Seen(p)
BY DEF Seen

\* What a save leaves.
LEMMA SavesTypes ==
  ASSUME TypeInv, NEW p \in Project, NEW new \in Seq(Line), Saves(p, new)
  PROVE  /\ file' \in [Project -> Seq(Line)] /\ buffer' \in [Project -> Seq(Line)]
         /\ file'[p] = new /\ (\A q \in Project \ {p} : file'[q] = file[q] /\ buffer'[q] = buffer[q])
         /\ buffer'[p] = IF "stale" \in edits THEN new ELSE buffer[p]
BY TypesNow DEF Saves

\* An edit changes the plan and a history.
LEMMA EditTypes ==
  ASSUME TypeInv, NEW p \in Project, NEW new \in Seq(Line), Saves(p, new),
         UNCHANGED <<row, job, lock, frame, edits>>,
         earned' \subseteq Key \cup {NoKey}, told' \subseteq Key \cup {NoKey}
  PROVE  TypeInv'
BY SavesTypes, TypesNow, TypesFrom

\* The lines an editor makes.
LEMMA Edited ==
  ASSUME TypeInv, NEW p \in Project, NEW lines \in Seen(p), NEW i \in DOMAIN lines
  PROVE  /\ \A w \in Wording : Reword(p, lines, i, w) =>
              \E line \in Line :
                /\ line.form = lines[i].form /\ line.num = lines[i].num /\ line.key = lines[i].key
                /\ Shown(line) = Shown(lines[i])
                /\ Saves(p, [lines EXCEPT ![i] = line])
         /\ UserTicks(p, lines, i) =>
              \E line \in Line :
                /\ line.form = lines[i].form /\ line.num = lines[i].num /\ line.key = lines[i].key
                /\ Shown(line)
                /\ Saves(p, [lines EXCEPT ![i] = line])
<1>1. lines \in Seq(Line) /\ lines[i] \in Line
  BY SeenTypes
<1>2. ASSUME NEW w \in Wording, Reword(p, lines, i, w)
      PROVE  \E line \in Line :
               /\ line.form = lines[i].form /\ line.num = lines[i].num /\ line.key = lines[i].key
               /\ Shown(line) = Shown(lines[i])
               /\ Saves(p, [lines EXCEPT ![i] = line])
  <2> DEFINE line == [lines[i] EXCEPT !.wording = w]
  <2>1. line \in Line
    BY <1>1 DEF Line
  <2>2. [lines EXCEPT ![i].wording = w] = [lines EXCEPT ![i] = line]
    BY <1>1
  <2>3. Saves(p, [lines EXCEPT ![i] = line])
    BY <1>2, <2>2 DEF Reword
  <2>4. /\ line.form = lines[i].form /\ line.num = lines[i].num /\ line.key = lines[i].key
        /\ Shown(line) = Shown(lines[i])
    BY <1>1 DEF Line, Shown
  <2> HIDE DEF line
  <2> QED BY <2>1, <2>3, <2>4
<1>3. ASSUME UserTicks(p, lines, i)
      PROVE  \E line \in Line :
               /\ line.form = lines[i].form /\ line.num = lines[i].num /\ line.key = lines[i].key
               /\ Shown(line)
               /\ Saves(p, [lines EXCEPT ![i] = line])
  <2> DEFINE emoji == [lines[i] EXCEPT !.mark = "emoji"]
             done == [lines[i] EXCEPT !.subs = "done"]
  <2>1. emoji \in Line /\ done \in Line
    BY <1>1 DEF Line, Mark, Subtasks
  <2>2. Shown(emoji) /\ Shown(done)
    BY <1>1 DEF Shown, Line
  <2>3. /\ [lines EXCEPT ![i].mark = "emoji"] = [lines EXCEPT ![i] = emoji]
        /\ [lines EXCEPT ![i].subs = "done"] = [lines EXCEPT ![i] = done]
    BY <1>1
  <2>4. Saves(p, [lines EXCEPT ![i] = emoji]) \/ Saves(p, [lines EXCEPT ![i] = done])
    BY <1>3, <2>3 DEF UserTicks
  <2> QED BY <1>1, <2>1, <2>2, <2>4 DEF Line
<1> QED BY <1>2, <1>3

LEMMA UserTypes ==
  ASSUME TypeInv, NEW p \in Project, NEW lines \in Seen(p), Edits(p, lines)
  PROVE  TypeInv'
<1>1. lines \in Seq(Line) /\ \A i \in DOMAIN lines : lines[i] \in Line
  BY SeenTypes
<1>2. ASSUME NEW i \in DOMAIN lines, UserTicks(p, lines, i) PROVE TypeInv'
  <2>1. PICK line \in Line : Saves(p, [lines EXCEPT ![i] = line])
    BY <1>2, Edited
  <2>2. [lines EXCEPT ![i] = line] \in Seq(Line)
    BY <1>1, Ticked
  <2>3. earned' \subseteq Key \cup {NoKey}
    BY <1>1, <1>2, TypesNow DEF UserTicks, Line
  <2> QED BY <1>2, <2>1, <2>2, <2>3, EditTypes, TypesNow DEF UserTicks
<1>3. ASSUME NEW i \in DOMAIN lines, NEW w \in Wording, Reword(p, lines, i, w) PROVE TypeInv'
  <2>1. PICK line \in Line : Saves(p, [lines EXCEPT ![i] = line])
    BY <1>3, Edited
  <2>2. [lines EXCEPT ![i] = line] \in Seq(Line)
    BY <1>1, Ticked
  <2> QED BY <1>3, <2>1, <2>2, EditTypes, TypesNow DEF Reword
<1>4. ASSUME NEW i \in DOMAIN lines, RemoveLine(p, lines, i) PROVE TypeInv'
  <2>1. Saves(p, Without(lines, i))
    BY <1>4 DEF RemoveLine, Without
  <2>2. Without(lines, i) \in Seq(Line)
    BY <1>1, Removed
  <2>3. told' \subseteq Key \cup {NoKey}
    BY <1>4, TypesNow DEF RemoveLine
  <2> QED BY <1>4, <2>1, <2>2, <2>3, EditTypes, TypesNow DEF RemoveLine
<1>5. ASSUME NEW i \in 1 .. Len(lines) + 1, NEW line \in Spare, Insert(p, lines, i, line) PROVE TypeInv'
  <2>1. Saves(p, Into(lines, i, line))
    BY <1>5 DEF Insert, Into
  <2>2. Into(lines, i, line) \in Seq(Line)
    BY <1>1, Inserted, Constants
  <2> QED BY <1>5, <2>1, <2>2, EditTypes, TypesNow DEF Insert
<1> QED BY <1>2, <1>3, <1>4, <1>5 DEF Edits

LEMMA OpensTypes == ASSUME TypeInv, NEW p \in Project, Opens(p) PROVE TypeInv'
<1>1. buffer' \in [Project -> Seq(Line)] /\ UNCHANGED <<file, row, job, lock, frame, earned, told, edits>>
  BY TypesNow DEF Opens
<1> QED BY <1>1, TypesNow, TypesFrom

\* The steps of Next, by who takes them.
ProcStep(s) ==
  \/ SyncLine(s) \/ FindRow(s) \/ TickRead(s) \/ TickWrite(s)
  \/ ReconcileCheck(s) \/ Crash(s) \/ Reconcile(s, NoProject)
  \/ \E p \in Project : SyncRead(s, p) \/ Reconcile(s, p)
  \/ \E id \in job : CompleteTask(s, id)

UserStep(p) == Opens(p) \/ \E lines \in Seen(p) : Edits(p, lines)

LEMMA Steps ==
  Next <=> \/ \E s \in Proc : ProcStep(s)
           \/ \E id \in DOMAIN row : ClaimTask(id)
           \/ \E p \in Project : UserStep(p)
BY DEF Next, ProcStep, UserStep

LEMMA InitTypes == Init => TypeInv
<1> SUFFICES ASSUME Init PROVE TypeInv
  OBVIOUS
<1>1. file \in [Project -> Seq(Line)] /\ buffer \in [Project -> Seq(Line)]
  BY Constants DEF Init
<1>2. DOMAIN row = {} /\ row \in [DOMAIN row -> Row] /\ job = {}
  BY DEF Init
<1>3. lock \in [Project -> Proc \cup {Nobody}] /\ edits \subseteq EditKind
  BY Constants DEF Init
<1>4. frame \in [Proc -> Frame] /\ \A r \in Proc : Placed(frame[r])
  BY IdleFrame DEF Init
<1>5. \A p \in Project : ShownIn(FirstPlans[p]) \subseteq Key \cup {NoKey}
  <2> SUFFICES ASSUME NEW p \in Project PROVE ShownIn(FirstPlans[p]) \subseteq Key \cup {NoKey}
    OBVIOUS
  <2>1. FirstPlans[p] \in Seq(Line)
    BY Constants
  <2>2. \A i \in DOMAIN FirstPlans[p] : FirstPlans[p][i] \in Line
    BY <2>1, ElementOfSeq, LenProperties
  <2> QED BY <2>2 DEF ShownIn, Line
<1>6. earned \subseteq Key \cup {NoKey} /\ told \subseteq Key \cup {NoKey}
  BY <1>5 DEF Init
<1> QED BY <1>1, <1>2, <1>3, <1>4, <1>6 DEF TypeInv, TypeOK, Frame

LEMMA NextTypes == TypeInv /\ [Next]_vars => TypeInv'
<1> SUFFICES ASSUME TypeInv, [Next]_vars PROVE TypeInv'
  OBVIOUS
<1>1. ASSUME NEW s \in Proc, ProcStep(s) PROVE TypeInv'
  BY <1>1, SyncTypes, WriterTypes, ReconcileTypes, CompleteTypes DEF ProcStep
<1>2. ASSUME NEW id \in DOMAIN row, ClaimTask(id) PROVE TypeInv'
  BY <1>2, ClaimTypes
<1>3. ASSUME NEW p \in Project, UserStep(p) PROVE TypeInv'
  BY <1>3, UserTypes, OpensTypes DEF UserStep
<1>4. CASE UNCHANGED vars
  BY <1>4, TypesNow, TypesFrom DEF vars
<1> QED BY <1>1, <1>2, <1>3, <1>4, Steps

LEMMA AlwaysTyped == Spec => []TypeInv
BY InitTypes, NextTypes, PTL DEF Spec

\* Every state of every run is of its type: whatever users make of the plans, what
\* is read from them, kept by a process and written back are plans, and the table
\* has rows of known ids only.
THEOREM TypeCorrect == Spec => []TypeOK
BY AlwaysTyped, PTL DEF TypeInv

-----------------------------------------------------------------------------
(***************************************************************************)
(* The lock.  Whoever is about to write holds the lock of the plan, so     *)
(* nobody else is; and unless an editor has no heed of it, what is about   *)
(* to be written back is what is there.                                    *)
(***************************************************************************)
Writing(s) == frame[s].at = "write"

\* A writer has the lock, and has found a heading by its number.
Locked(s) ==
  /\ lock[frame[s].project] = s
  /\ frame[s].copy[frame[s].line].form = "numbered"
  /\ frame[s].copy[frame[s].line].num = frame[s].id.num

UpToDate(s) == "heedless" \in edits \/ frame[s].copy = file[frame[s].project]

LockInv == TypeInv /\ \A s \in Proc : Writing(s) => Locked(s) /\ UpToDate(s)

\* A step of a process that neither finds a line to tick nor writes.
Calm(s) ==
  /\ frame'[s].at # "write" /\ \A r \in Proc \ {s} : frame'[r] = frame[r]
  /\ lock' = lock \/ lock' = Unlocked(s)
  /\ UNCHANGED <<file, buffer, told, edits>>

\* The two others.
Finds(s) ==
  /\ lock[frame[s].project] = Nobody
  /\ \E i \in Unmarked(file[frame[s].project], frame[s].id) :
       /\ lock' = [lock EXCEPT ![frame[s].project] = s]
       /\ frame' = [frame EXCEPT ![s].at = "write", ![s].copy = file[frame[s].project], ![s].line = i]
  /\ UNCHANGED <<file, buffer, row, job, earned, told, edits>>

Writes(s) ==
  /\ frame[s].at = "write"
  /\ file' = [file EXCEPT ![frame[s].project] = [frame[s].copy EXCEPT ![frame[s].line].mark = "check"]]
  /\ told' = told \cup {frame[s].copy[frame[s].line].key}
  /\ frame'[s].at \in {"idle", "check"} /\ \A r \in Proc \ {s} : frame'[r] = frame[r]
  /\ lock' = Unlocked(s)
  /\ UNCHANGED <<buffer, row, job, earned, edits>>

LEMMA DoneCalm ==
  ASSUME TypeInv, NEW s \in Proc, Done(s)
  PROVE  frame'[s].at \in {"idle", "check"} /\ \A r \in Proc \ {s} : frame'[r] = frame[r]
<1>1. frame \in [Proc -> Frame]
  BY TypesNow
<1> QED BY <1>1 DEF Done, Idle

LEMMA Kinds ==
  ASSUME TypeInv, NEW s \in Proc, ProcStep(s)
  PROVE  Calm(s) \/ (frame[s].at # "idle" /\ Finds(s)) \/ Writes(s)
<1>1. frame \in [Proc -> Frame]
  BY TypesNow
<1>2. CASE SyncLine(s) \/ \E p \in Project : SyncRead(s, p)
  <2>1. UNCHANGED <<file, buffer, lock, told, edits>>
    BY <1>2 DEF SyncLine, SyncRead
  <2>2. CASE SyncLine(s)
    <3>1. frame[s] \in Frame /\ frame[s].at = "sync"
      BY <1>1, <2>2 DEF SyncLine, At
    <3>2. frame' = [frame EXCEPT ![s].line = @ + 1] \/ frame' = [frame EXCEPT ![s] = Idle]
      BY <2>2 DEF SyncLine
    <3>3. frame'[s].at # "write" /\ \A r \in Proc \ {s} : frame'[r] = frame[r]
      BY <1>1, <3>1, <3>2 DEF Frame, Idle
    <3> QED BY <2>1, <3>3 DEF Calm
  <2>3. CASE \E p \in Project : SyncRead(s, p)
    <3>1. frame'[s].at # "write" /\ \A r \in Proc \ {s} : frame'[r] = frame[r]
      BY <1>1, <2>3 DEF SyncRead, Idle
    <3> QED BY <2>1, <3>1 DEF Calm
  <2> QED BY <1>2, <2>2, <2>3
<1>3. CASE FindRow(s)
  <2>1. CASE Done(s)
    BY <1>3, <2>1, DoneCalm DEF FindRow, Calm
  <2>2. CASE ~ Done(s)
    BY <1>1, <1>3, <2>2 DEF FindRow, Frame, Calm
  <2> QED BY <2>1, <2>2
<1>4. CASE TickRead(s)
  <2>1. CASE Done(s) /\ UNCHANGED lock
    BY <1>4, <2>1, DoneCalm DEF TickRead, Calm
  <2>2. CASE ~(Done(s) /\ UNCHANGED lock)
    BY <1>4, <2>2 DEF TickRead, At, Finds
  <2> QED BY <2>1, <2>2
<1>5. CASE TickWrite(s)
  <2>1. Done(s) /\ lock' = Unlocked(s) /\ frame[s].at = "write"
    BY <1>5 DEF TickWrite, At
  <2>2. CASE UNCHANGED <<file, told>>
    BY <1>5, <2>1, <2>2, DoneCalm DEF TickWrite, Calm
  <2>3. CASE ~ UNCHANGED <<file, told>>
    BY <1>5, <2>1, <2>3, DoneCalm DEF TickWrite, Writes
  <2> QED BY <2>2, <2>3
<1>6. CASE ReconcileCheck(s)
  <2>1. PICK id \in frame[s].todo :
          LET left == frame[s].todo \ {id}
          IN  \/ frame' = [frame EXCEPT ![s].at = "tick", ![s].id = id, ![s].todo = left]
              \/ frame' = [frame EXCEPT ![s] = IF left = {} THEN Idle ELSE [frame[s] EXCEPT !.todo = left]]
    BY <1>6 DEF ReconcileCheck
  <2>2. frame[s].at = "check" /\ UNCHANGED <<file, buffer, row, job, lock, earned, told, edits>>
    BY <1>6 DEF ReconcileCheck, At
  <2>3. frame'[s].at # "write" /\ \A r \in Proc \ {s} : frame'[r] = frame[r]
    <3>1. CASE frame' = [frame EXCEPT ![s].at = "tick", ![s].id = id, ![s].todo = frame[s].todo \ {id}]
      BY <1>1, <3>1 DEF Frame
    <3>2. CASE frame' = [frame EXCEPT ![s] = IF frame[s].todo \ {id} = {} THEN Idle
                                              ELSE [frame[s] EXCEPT !.todo = frame[s].todo \ {id}]]
      BY <1>1, <2>2, <3>2 DEF Frame, Idle
    <3> QED BY <2>1, <3>1, <3>2
  <2> QED BY <2>2, <2>3 DEF Calm
<1>7. CASE Crash(s)
  BY <1>1, <1>7 DEF Crash, Idle, Calm
<1>8. CASE \E filter \in Project \cup {NoProject} : Reconcile(s, filter)
  BY <1>1, <1>8 DEF Reconcile, Idle, Calm
<1>9. CASE \E id \in job : CompleteTask(s, id)
  <2>1. PICK id \in job : CompleteTask(s, id)
    BY <1>9
  <2>2. CASE UNCHANGED <<row, frame>>
    BY <1>1, <2>1, <2>2 DEF CompleteTask, At, Calm
  <2>3. CASE ~ UNCHANGED <<row, frame>>
    BY <1>1, <2>1, <2>3 DEF CompleteTask, Idle, Calm
  <2> QED BY <2>2, <2>3
<1> QED BY <1>2, <1>3, <1>4, <1>5, <1>6, <1>7, <1>8, <1>9 DEF ProcStep

\* An edit without heed of the lock is by a user who edits so.
UserKept(p) ==
  /\ UNCHANGED <<row, job, lock, frame, edits>>
  /\ \A q \in Project \ {p} : file'[q] = file[q]
  /\ "heedless" \in edits \/ lock[p] = Nobody

LEMMA UserKeeps ==
  ASSUME TypeInv, NEW p \in Project, UserStep(p)
  PROVE  /\ UNCHANGED <<row, job, lock, frame, edits>>
         /\ \A q \in Project \ {p} : file'[q] = file[q]
         /\ file' = file \/ "heedless" \in edits \/ lock[p] = Nobody
<1>1. file \in [Project -> Seq(Line)]
  BY TypesNow
<1>2. ASSUME NEW lines \in Seen(p), NEW i \in DOMAIN lines, UserTicks(p, lines, i)
      PROVE  UserKept(p)
  BY <1>1, <1>2 DEF UserTicks, MayEdit, Saves, UserKept
<1>3. ASSUME NEW lines \in Seen(p), NEW i \in DOMAIN lines, RemoveLine(p, lines, i)
      PROVE  UserKept(p)
  BY <1>1, <1>3 DEF RemoveLine, MayEdit, Saves, UserKept
<1>4. ASSUME NEW lines \in Seen(p), NEW i \in DOMAIN lines, NEW w \in Wording, Reword(p, lines, i, w)
      PROVE  UserKept(p)
  BY <1>1, <1>4 DEF Reword, MayEdit, Saves, UserKept
<1>5. ASSUME NEW lines \in Seen(p), NEW i \in 1 .. Len(lines) + 1, NEW line \in Spare, Insert(p, lines, i, line)
      PROVE  UserKept(p)
  BY <1>1, <1>5 DEF Insert, MayEdit, Saves, UserKept
<1>6. CASE Opens(p)
  BY <1>6 DEF Opens
<1> QED BY <1>2, <1>3, <1>4, <1>5, <1>6 DEF UserStep, Edits, UserKept

LEMMA LockKept == LockInv /\ [Next]_vars => LockInv'
<1> SUFFICES ASSUME LockInv, [Next]_vars PROVE LockInv'
  OBVIOUS
<1>1. TypeInv /\ TypeInv' /\ Nobody \notin Proc
  BY NextTypes, Constants DEF LockInv
<1>2. /\ frame \in [Proc -> Frame] /\ lock \in [Project -> Proc \cup {Nobody}]
      /\ file \in [Project -> Seq(Line)]
      /\ \A r \in Proc : Writing(r) => frame[r].project \in Project
  BY <1>1, TypesNow DEF Writing, Placed
<1> SUFFICES ASSUME NEW r \in Proc, Writing(r)' PROVE Locked(r)' /\ UpToDate(r)'
  BY <1>1 DEF LockInv
<1>3. ASSUME NEW s \in Proc, ProcStep(s) PROVE Locked(r)' /\ UpToDate(r)'
  <2>1. CASE Calm(s)
    <3>1. r # s /\ frame'[r] = frame[r] /\ Writing(r)
      BY <2>1 DEF Calm, Writing
    <3>2. lock'[frame[r].project] = lock[frame[r].project]
      BY <1>2, <2>1, <3>1 DEF LockInv, Locked, Calm, Unlocked
    <3> QED BY <2>1, <3>1, <3>2 DEF LockInv, Locked, UpToDate, Calm
  <2>2. CASE frame[s].at # "idle" /\ Finds(s)
    <3>1. frame[s] \in Frame /\ frame[s].project \in Project /\ file[frame[s].project] \in Seq(Line)
      BY <1>1, <2>2, WorkingOn
    <3>2. PICK i \in Unmarked(file[frame[s].project], frame[s].id) :
            /\ lock' = [lock EXCEPT ![frame[s].project] = s]
            /\ frame' = [frame EXCEPT ![s].at = "write", ![s].copy = file[frame[s].project], ![s].line = i]
      BY <2>2 DEF Finds
    <3>3. CASE r = s
      <4>1. /\ frame'[s].project = frame[s].project /\ frame'[s].id = frame[s].id
            /\ frame'[s].copy = file[frame[s].project] /\ frame'[s].line = i
        BY <1>2, <3>1, <3>2 DEF Frame
      <4>2. lock'[frame[s].project] = s /\ file' = file
        BY <1>2, <2>2, <3>1, <3>2 DEF Finds
      <4>3. file[frame[s].project][i].form = "numbered" /\ file[frame[s].project][i].num = frame[s].id.num
        BY <3>1, <3>2, FoundInPlan
      <4> QED BY <3>3, <4>1, <4>2, <4>3 DEF Locked, UpToDate
    <3>4. CASE r # s
      <4>1. frame'[r] = frame[r] /\ Writing(r)
        BY <1>2, <3>2, <3>4 DEF Writing
      <4>2. frame[r].project # frame[s].project
        BY <1>1, <2>2, <4>1 DEF LockInv, Locked, Finds
      <4>3. lock'[frame[r].project] = lock[frame[r].project] /\ file' = file /\ edits' = edits
        BY <1>2, <2>2, <3>2, <4>1, <4>2 DEF Finds
      <4> QED BY <4>1, <4>3 DEF LockInv, Locked, UpToDate
    <3> QED BY <3>3, <3>4
  <2>3. CASE Writes(s)
    <3>1. r # s /\ frame'[r] = frame[r] /\ Writing(r) /\ Writing(s)
      BY <2>3 DEF Writes, Writing
    <3>2. frame[r].project # frame[s].project
      BY <3>1 DEF LockInv, Locked
    <3>3. lock'[frame[r].project] = lock[frame[r].project]
      BY <1>2, <2>3, <3>1 DEF LockInv, Locked, Writes, Unlocked
    <3>4. file'[frame[r].project] = file[frame[r].project] /\ edits' = edits
      BY <1>2, <2>3, <3>1, <3>2 DEF Writes
    <3> QED BY <3>1, <3>3, <3>4 DEF LockInv, Locked, UpToDate
  <2> QED BY <1>1, <1>3, <2>1, <2>2, <2>3, Kinds
<1>4. ASSUME NEW id \in DOMAIN row, ClaimTask(id) PROVE Locked(r)' /\ UpToDate(r)'
  BY <1>4 DEF ClaimTask, LockInv, Writing, Locked, UpToDate
<1>5. ASSUME NEW p \in Project, UserStep(p) PROVE Locked(r)' /\ UpToDate(r)'
  <2>1. Writing(r) /\ Locked(r)' /\ frame' = frame /\ edits' = edits
    BY <1>1, <1>5, UserKeeps DEF LockInv, Writing, Locked
  <2>2. "heedless" \notin edits => file' = file \/ frame[r].project # p
    BY <1>1, <1>5, <2>1, UserKeeps DEF LockInv, Locked
  <2>3. "heedless" \notin edits => file'[frame[r].project] = file[frame[r].project]
    BY <1>1, <1>2, <1>5, <2>1, <2>2, UserKeeps DEF LockInv, UpToDate
  <2> QED BY <2>1, <2>3 DEF LockInv, UpToDate
<1>6. CASE UNCHANGED vars
  BY <1>6 DEF vars, LockInv, Writing, Locked, UpToDate
<1> QED BY <1>3, <1>4, <1>5, <1>6, Steps

LEMMA LockInit == Init => LockInv
<1> SUFFICES ASSUME Init PROVE LockInv
  OBVIOUS
<1>1. \A s \in Proc : ~ Writing(s)
  BY DEF Init, Writing, Idle
<1> QED BY <1>1, InitTypes DEF LockInv

LEMMA AlwaysLocked == Spec => []LockInv
BY LockInit, LockKept, PTL DEF Spec

\* Two processes are never about to write the same plan, and what one is about to
\* write back is what is in the file, but for its tick, unless users edit without
\* heed of the lock file (update_task_completion_marker).
THEOREM WritersAlone ==
  Spec => [](/\ \A r, s \in Proc :
                  Writing(r) /\ Writing(s) /\ frame[r].project = frame[s].project => r = s
             /\ "heedless" \notin edits =>
                  \A s \in Proc : Writing(s) => frame[s].copy = file[frame[s].project])
<1>1. LockInv => /\ \A r, s \in Proc :
                      Writing(r) /\ Writing(s) /\ frame[r].project = frame[s].project => r = s
                 /\ "heedless" \notin edits =>
                      \A s \in Proc : Writing(s) => frame[s].copy = file[frame[s].project]
  BY DEF LockInv, Locked, UpToDate
<1> QED BY <1>1, AlwaysLocked, PTL

-----------------------------------------------------------------------------
(***************************************************************************)
(* Ticks survive.  What the headings are assumed to look like: what a      *)
(* heading with a number of its own is about is named, and no two headings *)
(* of the plans at the start are about the same.  And users who edit       *)
(* without heed of the lock have but one plan: they could otherwise bring  *)
(* a heading, with no tick, from the plan somebody is about to write to    *)
(* another.  Editors that save what they have read some time ago take      *)
(* ticks away: nothing is said of them here.                               *)
(***************************************************************************)
Named(line) == line.form = "numbered" => line.key # NoKey

OwnKeys ==
  /\ \A line \in Spare : Named(line)
  /\ \A p \in Project : \A i \in DOMAIN FirstPlans[p] : Named(FirstPlans[p][i])
  /\ \A p, q \in Project : \A i \in DOMAIN FirstPlans[p], j \in DOMAIN FirstPlans[q] :
       FirstPlans[p][i].key = FirstPlans[q][j].key /\ FirstPlans[p][i].key # NoKey
         => p = q /\ i = j

OneProject == \A p, q \in Project : p = q
Heeded == \A habits \in Habits : "heedless" \notin habits

\* The same of lines that are in a file or about to be.
Once(lines) ==
  \A i, j \in DOMAIN lines : lines[i].key = lines[j].key /\ lines[i].key # NoKey => i = j
AllNamed(lines) == \A i \in DOMAIN lines : Named(lines[i])
Kept(lines, ticks) == \A i \in DOMAIN lines : lines[i].key \in ticks => Shown(lines[i])

Keys(lines) == {lines[i].key : i \in DOMAIN lines}
KeysApart == \A p, q \in Project : p # q => Keys(file[p]) \cap Keys(file[q]) \subseteq {NoKey}
AllKeys == UNION {Keys(file[p]) : p \in Project}

TickInv ==
  /\ OneProject \/ "heedless" \notin edits
  /\ NoKey \notin told /\ told \subseteq AllKeys
  /\ KeysApart
  /\ \A p \in Project : Once(file[p]) /\ AllNamed(file[p]) /\ Kept(file[p], told)
  /\ \A s \in Proc : Writing(s) =>
       /\ Once(frame[s].copy) /\ AllNamed(frame[s].copy) /\ Kept(frame[s].copy, told)
       /\ OneProject => told \subseteq Keys(frame[s].copy)

\* Lines that have been reworded and ticked.
LEMMA SameHeadings ==
  ASSUME NEW old, NEW new, DOMAIN new = DOMAIN old,
         \A i \in DOMAIN old : /\ new[i].key = old[i].key /\ new[i].form = old[i].form
                               /\ Shown(old[i]) => Shown(new[i])
  PROVE  /\ Keys(new) = Keys(old)
         /\ Once(old) => Once(new)
         /\ AllNamed(old) => AllNamed(new)
         /\ (\A ticks : Kept(old, ticks) => Kept(new, ticks))
BY DEF Keys, Once, AllNamed, Named, Kept

LEMMA TickInit == OwnKeys /\ (OneProject \/ Heeded) /\ Init => TickInv
<1> SUFFICES ASSUME OwnKeys, OneProject \/ Heeded, Init PROVE TickInv
  OBVIOUS
<1>1. edits \in Habits /\ told = {} /\ file = FirstPlans /\ \A s \in Proc : ~ Writing(s)
  BY DEF Init, Writing, Idle
<1>2. OneProject \/ "heedless" \notin edits
  BY <1>1 DEF Heeded
<1>3. KeysApart
  BY <1>1 DEF OwnKeys, KeysApart, Keys
<1>4. \A p \in Project : Once(file[p]) /\ AllNamed(file[p]) /\ Kept(file[p], told)
  BY <1>1 DEF OwnKeys, Once, AllNamed, Kept
<1> QED BY <1>1, <1>2, <1>3, <1>4 DEF TickInv

-----------------------------------------------------------------------------
\* What a writer does to the plan it writes.
LEMMA WriterLines ==
  ASSUME TypeInv, LockInv, TickInv, NEW s \in Proc, Writes(s)
  PROVE  LET copy == frame[s].copy
             new == file'[frame[s].project]
             key == copy[frame[s].line].key
         IN  /\ new \in Seq(Line) /\ Keys(new) = Keys(copy)
             /\ key # NoKey /\ key \in Keys(copy) /\ told' = told \cup {key}
             /\ Once(new) /\ AllNamed(new)
             /\ Kept(new, told')
             /\ \A q \in Project \ {frame[s].project} : file'[q] = file[q]
<1> DEFINE copy == frame[s].copy
           i == frame[s].line
           line == [copy[i] EXCEPT !.mark = "check"]
           new == [copy EXCEPT ![i] = line]
<1>1. Writing(s) /\ copy \in Seq(Line) /\ i \in DOMAIN copy /\ copy[i] \in Line /\ frame[s].project \in Project
  BY WorkingOn DEF Writes, Writing
<1>2. Once(copy) /\ AllNamed(copy) /\ Kept(copy, told) /\ copy[i].form = "numbered"
  BY <1>1 DEF TickInv, LockInv, Locked
<1>3. line \in Line /\ line.key = copy[i].key /\ line.form = copy[i].form /\ Shown(line)
  BY <1>1 DEF Line, Mark, Shown
<1>4. file'[frame[s].project] = new /\ \A q \in Project \ {frame[s].project} : file'[q] = file[q]
  BY <1>1, TypesNow DEF Writes
<1>5. new \in Seq(Line) /\ DOMAIN new = DOMAIN copy /\ new[i] = line
      /\ \A j \in DOMAIN copy \ {i} : new[j] = copy[j]
  BY <1>1, <1>3, Ticked
<1>6. copy[i].key # NoKey /\ copy[i].key \in Keys(copy) /\ told' = told \cup {copy[i].key}
  BY <1>1, <1>2 DEF AllNamed, Named, Keys, Writes
<1> HIDE DEF new, line
<1>7. Keys(new) = Keys(copy) /\ Once(new) /\ AllNamed(new) /\ Kept(new, told)
  <2>1. \A j \in DOMAIN copy : /\ new[j].key = copy[j].key /\ new[j].form = copy[j].form
                               /\ Shown(copy[j]) => Shown(new[j])
    BY <1>1, <1>3, <1>5
  <2> QED BY <1>2, <1>5, <2>1, SameHeadings
<1>8. ASSUME NEW j \in DOMAIN new, new[j].key \in told' PROVE Shown(new[j])
  <2>1. CASE j = i
    BY <1>3, <1>5, <2>1
  <2>2. CASE j # i
    <3>1. new[j].key # copy[i].key
      BY <1>1, <1>2, <1>5, <1>6, <2>2 DEF Once
    <3> QED BY <1>6, <1>7, <1>8, <3>1 DEF Kept
  <2> QED BY <2>1, <2>2
<1>9. Kept(new, told')
  BY <1>8 DEF Kept
<1> QED BY <1>4, <1>5, <1>6, <1>7, <1>9

LEMMA TickWrites ==
  ASSUME LockInv, TickInv, NEW s \in Proc, Writes(s) PROVE TickInv'
<1> DEFINE copy == frame[s].copy
           home == frame[s].project
           key == copy[frame[s].line].key
<1>1. TypeInv /\ Writing(s) /\ home \in Project
  BY WorkingOn DEF LockInv, Writes, Writing
<1>2. /\ file'[home] \in Seq(Line) /\ Keys(file'[home]) = Keys(copy)
      /\ key # NoKey /\ key \in Keys(copy) /\ told' = told \cup {key}
      /\ Once(file'[home]) /\ AllNamed(file'[home])
      /\ Kept(file'[home], told')
      /\ \A q \in Project \ {home} : file'[q] = file[q]
  BY <1>1, WriterLines
<1>3. OneProject \/ ("heedless" \notin edits /\ copy = file[home])
  BY <1>1 DEF TickInv, LockInv, UpToDate
<1>4. \A q \in Project \ {home} : key \notin Keys(file[q])
  BY <1>1, <1>2, <1>3 DEF OneProject, TickInv, KeysApart
<1>5. edits' = edits
  BY DEF Writes
<1>6. KeysApart'
  <2>1. CASE OneProject
    BY <2>1 DEF OneProject, KeysApart
  <2>2. CASE copy = file[home]
    <3>1. \A q \in Project : Keys(file'[q]) = Keys(file[q])
      BY <1>2, <2>2
    <3> QED BY <3>1 DEF TickInv, KeysApart
  <2> QED BY <1>3, <2>1, <2>2
<1>7. NoKey \notin told' /\ told' \subseteq AllKeys'
  <2>1. \A p \in Project : Keys(file'[p]) \subseteq AllKeys'
    BY DEF AllKeys
  <2>2. key \in AllKeys'
    BY <1>1, <1>2, <2>1
  <2>3. ASSUME NEW k \in told PROVE k \in AllKeys'
    <3>1. CASE OneProject
      BY <1>1, <1>2, <2>1, <2>3, <3>1 DEF TickInv
    <3>2. CASE copy = file[home]
      <4>1. PICK p \in Project : k \in Keys(file[p])
        BY <2>3 DEF TickInv, AllKeys
      <4>2. k \in Keys(file'[p])
        BY <1>2, <3>2, <4>1
      <4> QED BY <2>1, <4>2
    <3> QED BY <1>3, <3>1, <3>2
  <2> QED BY <1>2, <2>2, <2>3 DEF TickInv
<1>8. ASSUME NEW p \in Project PROVE Once(file'[p]) /\ AllNamed(file'[p]) /\ Kept(file'[p], told')
  <2>1. CASE p = home
    BY <1>2, <2>1
  <2>2. CASE p # home
    <3>1. file'[p] = file[p] /\ key \notin Keys(file[p])
      BY <1>2, <1>4, <2>2
    <3> QED BY <1>2, <3>1 DEF TickInv, Kept, Keys
  <2> QED BY <2>1, <2>2
<1>9. ASSUME NEW r \in Proc, Writing(r)'
      PROVE  /\ Once(frame'[r].copy) /\ AllNamed(frame'[r].copy) /\ Kept(frame'[r].copy, told')
             /\ OneProject => told' \subseteq Keys(frame'[r].copy)
  <2>1. r # s /\ frame'[r] = frame[r] /\ Writing(r)
    BY <1>9 DEF Writes, Writing
  <2>2. frame[r].project \in Project /\ frame[r].project # home
    BY <1>1, <2>1, WorkingOn DEF LockInv, Locked, Writing
  <2>3. ~ OneProject /\ frame[r].copy = file[frame[r].project]
    BY <1>1, <1>3, <2>1, <2>2 DEF OneProject, LockInv, UpToDate, TickInv
  <2>4. key \notin Keys(frame[r].copy)
    BY <1>4, <2>2, <2>3
  <2>5. Once(frame[r].copy) /\ AllNamed(frame[r].copy) /\ Kept(frame[r].copy, told)
    BY <2>1 DEF TickInv
  <2>6. Kept(frame[r].copy, told')
    BY <1>2, <2>4, <2>5 DEF Kept, Keys
  <2> QED BY <2>1, <2>3, <2>5, <2>6
<1>10. OneProject \/ "heedless" \notin edits'
  BY <1>5 DEF TickInv
<1>11. (OneProject' <=> OneProject)
  BY DEF OneProject
<1> QED BY <1>6, <1>7, <1>8, <1>9, <1>10, <1>11 DEF TickInv

LEMMA TickFinds ==
  ASSUME LockInv, TickInv, NEW s \in Proc, frame[s].at # "idle", Finds(s) PROVE TickInv'
<1>1. frame \in [Proc -> Frame] /\ frame[s].project \in Project
  BY WorkingOn, TypesNow DEF LockInv
<1>2. UNCHANGED <<file, buffer, told, edits>>
  BY DEF Finds
<1>3. ASSUME NEW r \in Proc, Writing(r)'
      PROVE  /\ Once(frame'[r].copy) /\ AllNamed(frame'[r].copy) /\ Kept(frame'[r].copy, told')
             /\ OneProject => told' \subseteq Keys(frame'[r].copy)
  <2>1. CASE r = s
    <3>1. frame'[s].copy = file[frame[s].project]
      BY <1>1 DEF Finds, Frame
    <3>2. OneProject => told \subseteq Keys(file[frame[s].project])
      BY <1>1 DEF TickInv, AllKeys, OneProject
    <3> QED BY <1>1, <1>2, <2>1, <3>1, <3>2 DEF TickInv
  <2>2. CASE r # s
    <3>1. frame'[r] = frame[r] /\ Writing(r)
      BY <1>1, <1>3, <2>2 DEF Finds, Writing
    <3> QED BY <1>2, <3>1 DEF TickInv
  <2> QED BY <2>1, <2>2
<1>4. KeysApart' /\ AllKeys' = AllKeys /\ (OneProject' <=> OneProject)
  BY <1>2 DEF TickInv, KeysApart, AllKeys, OneProject
<1> QED BY <1>2, <1>3, <1>4 DEF TickInv

\* A plan edited into one with the same headings, or fewer, or a new one.
LEMMA TickEdits ==
  ASSUME TypeInv, TickInv, NEW p \in Project, NEW new, file'[p] = new,
         \A q \in Project \ {p} : file'[q] = file[q],
         UNCHANGED <<frame, edits>>, told' \subseteq told, told' \subseteq AllKeys',
         Once(new), AllNamed(new), Kept(new, told'),
         \A q \in Project \ {p} : Keys(new) \cap Keys(file[q]) \subseteq {NoKey}
  PROVE  TickInv'
<1>1. KeysApart'
  <2> SUFFICES ASSUME NEW q \in Project, NEW r \in Project, q # r
               PROVE  Keys(file'[q]) \cap Keys(file'[r]) \subseteq {NoKey}
    BY DEF KeysApart
  <2> QED BY DEF TickInv, KeysApart
<1>2. ASSUME NEW q \in Project PROVE Once(file'[q]) /\ AllNamed(file'[q]) /\ Kept(file'[q], told')
  <2>1. CASE q = p
    BY <2>1
  <2>2. CASE q # p
    <3>1. Once(file[q]) /\ AllNamed(file[q]) /\ Kept(file[q], told)
      BY DEF TickInv
    <3>2. Kept(file[q], told')
      BY <3>1 DEF Kept
    <3> QED BY <2>2, <3>1, <3>2
  <2> QED BY <2>1, <2>2
<1>3. ASSUME NEW r \in Proc, Writing(r)'
      PROVE  /\ Once(frame'[r].copy) /\ AllNamed(frame'[r].copy) /\ Kept(frame'[r].copy, told')
             /\ OneProject => told' \subseteq Keys(frame'[r].copy)
  <2>1. Writing(r) /\ frame'[r] = frame[r]
    BY <1>3 DEF Writing
  <2>2. /\ Once(frame[r].copy) /\ AllNamed(frame[r].copy) /\ Kept(frame[r].copy, told)
        /\ OneProject => told \subseteq Keys(frame[r].copy)
    BY <2>1 DEF TickInv
  <2>3. Kept(frame[r].copy, told')
    BY <2>2 DEF Kept
  <2> QED BY <2>1, <2>2, <2>3
<1>4. (OneProject' <=> OneProject) /\ edits' = edits
  BY DEF OneProject
<1> QED BY <1>1, <1>2, <1>3, <1>4 DEF TickInv

\* Ticks and new words change no heading.
LEMMA TickRewords ==
  ASSUME TypeInv, TickInv, NEW p \in Project, NEW i \in DOMAIN file[p],
         UserTicks(p, file[p], i) \/ \E w \in Wording : Reword(p, file[p], i, w)
  PROVE  TickInv'
<1>1. file[p] \in Seq(Line) /\ file[p][i] \in Line /\ file \in [Project -> Seq(Line)]
  BY TypesNow, ElementOfSeq, LenProperties
<1>2. UNCHANGED <<frame, edits, told>>
  BY DEF UserTicks, Reword
<1>3. PICK line \in Line :
        /\ file' = [file EXCEPT ![p] = [file[p] EXCEPT ![i] = line]]
        /\ line.key = file[p][i].key /\ line.form = file[p][i].form
        /\ Shown(file[p][i]) => Shown(line)
  <2>1. CASE UserTicks(p, file[p], i)
    BY <2>1, FileSeen, Edited DEF Saves
  <2>2. ASSUME NEW w \in Wording, Reword(p, file[p], i, w)
        PROVE  \E line \in Line :
                 /\ file' = [file EXCEPT ![p] = [file[p] EXCEPT ![i] = line]]
                 /\ line.key = file[p][i].key /\ line.form = file[p][i].form
                 /\ Shown(file[p][i]) => Shown(line)
    BY <2>2, FileSeen, Edited DEF Saves
  <2> QED BY <2>1, <2>2
<1> DEFINE new == [file[p] EXCEPT ![i] = line]
<1>4. DOMAIN new = DOMAIN file[p] /\ new[i] = line /\ \A j \in DOMAIN file[p] \ {i} : new[j] = file[p][j]
  BY <1>1, <1>3, Ticked
<1>5. file'[p] = new /\ \A q \in Project \ {p} : file'[q] = file[q]
  BY <1>1, <1>3
<1> HIDE DEF new
<1>6. \A j \in DOMAIN file[p] : /\ new[j].key = file[p][j].key /\ new[j].form = file[p][j].form
                                /\ Shown(file[p][j]) => Shown(new[j])
  BY <1>3, <1>4
<1>7. Keys(new) = Keys(file[p]) /\ Once(new) /\ AllNamed(new) /\ Kept(new, told)
  BY <1>4, <1>6, SameHeadings DEF TickInv
<1>8. AllKeys' = AllKeys
  <2>1. \A q \in Project : Keys(file'[q]) = Keys(file[q])
    BY <1>5, <1>7
  <2> QED BY <2>1 DEF AllKeys
<1>9. \A q \in Project \ {p} : Keys(new) \cap Keys(file[q]) \subseteq {NoKey}
  BY <1>7 DEF TickInv, KeysApart
<1>10. told' \subseteq AllKeys'
  BY <1>2, <1>8 DEF TickInv
<1> QED BY <1>2, <1>5, <1>7, <1>9, <1>10, TickEdits

LEMMA TickRemoves ==
  ASSUME TypeInv, TickInv, NEW p \in Project, NEW i \in DOMAIN file[p], RemoveLine(p, file[p], i)
  PROVE  TickInv'
<1> DEFINE new == Without(file[p], i)
           key == file[p][i].key
<1>1. file[p] \in Seq(Line) /\ Len(file[p]) \in Nat /\ i \in 1 .. Len(file[p]) /\ DOMAIN file[p] = 1 .. Len(file[p])
      /\ file \in [Project -> Seq(Line)]
  BY TypesNow, LenProperties
<1>2. told' = told \ {key} /\ UNCHANGED <<frame, edits>> /\ file' = [file EXCEPT ![p] = new]
  BY DEF RemoveLine, Without, Saves
<1>3. /\ new \in Seq(Line) /\ Len(new) = Len(file[p]) - 1
      /\ \A j \in 1 .. Len(file[p]) - 1 : new[j] = IF j < i THEN file[p][j] ELSE file[p][j + 1]
  BY <1>1, Removed
<1>4. DOMAIN new = 1 .. Len(file[p]) - 1
  BY <1>3, LenProperties
<1>5. file'[p] = new /\ \A q \in Project \ {p} : file'[q] = file[q]
  BY <1>1, <1>2
<1> HIDE DEF new
<1> DEFINE from(j) == IF j < i THEN j ELSE j + 1
<1>6. \A j \in DOMAIN new : from(j) \in DOMAIN file[p] /\ new[j] = file[p][from(j)]
  BY <1>1, <1>3, <1>4
<1>7. \A j, k \in DOMAIN new : from(j) = from(k) => j = k
  BY <1>1, <1>4
<1>8. ASSUME NEW k \in DOMAIN file[p], k # i PROVE \E j \in DOMAIN new : from(j) = k
  <2>1. CASE k < i
    BY <1>1, <1>4, <2>1
  <2>2. CASE ~(k < i)
    <3>1. k - 1 \in DOMAIN new /\ from(k - 1) = k
      BY <1>1, <1>4, <1>8, <2>2
    <3> QED BY <3>1
  <2> QED BY <2>1, <2>2
<1> HIDE DEF from
<1>9. Once(new) /\ AllNamed(new) /\ Kept(new, told')
  BY <1>2, <1>6, <1>7 DEF TickInv, Once, AllNamed, Kept
<1>10. Keys(new) \subseteq Keys(file[p]) /\ Keys(file[p]) \subseteq Keys(new) \cup {key}
  BY <1>6, <1>8 DEF Keys
<1>11. \A q \in Project \ {p} : Keys(new) \cap Keys(file[q]) \subseteq {NoKey}
  BY <1>10 DEF TickInv, KeysApart
<1>12. told' \subseteq AllKeys'
  <2>1. \A q \in Project : Keys(file'[q]) \subseteq AllKeys' /\ Keys(file[q]) \subseteq Keys(file'[q]) \cup {key}
    BY <1>5, <1>10 DEF AllKeys
  <2> QED BY <1>2, <2>1 DEF TickInv, AllKeys
<1> QED BY <1>2, <1>5, <1>9, <1>11, <1>12, TickEdits

LEMMA TickInserts ==
  ASSUME OwnKeys, TypeInv, TickInv, NEW p \in Project, NEW i \in 1 .. Len(file[p]) + 1, NEW line \in Spare,
         Insert(p, file[p], i, line)
  PROVE  TickInv'
<1> DEFINE new == Into(file[p], i, line)
<1>1. file[p] \in Seq(Line) /\ Len(file[p]) \in Nat /\ DOMAIN file[p] = 1 .. Len(file[p])
      /\ file \in [Project -> Seq(Line)] /\ line \in Line
  BY TypesNow, LenProperties, Constants
<1>2. told' = told /\ UNCHANGED <<frame, edits>> /\ file' = [file EXCEPT ![p] = new]
  BY DEF Insert, Into, Saves
<1>3. /\ new \in Seq(Line) /\ Len(new) = Len(file[p]) + 1
      /\ \A j \in 1 .. Len(file[p]) + 1 :
           new[j] = IF j < i THEN file[p][j] ELSE IF j = i THEN line ELSE file[p][j - 1]
  <2> DEFINE old == file[p]
  <2>1. old \in Seq(Line) /\ line \in Line /\ i \in 1 .. Len(old) + 1
    BY <1>1
  <2> HIDE DEF old
  <2>2. /\ Into(old, i, line) \in Seq(Line) /\ Len(Into(old, i, line)) = Len(old) + 1
        /\ \A j \in 1 .. Len(old) + 1 :
             Into(old, i, line)[j] = IF j < i THEN old[j] ELSE IF j = i THEN line ELSE old[j - 1]
    BY <2>1, Inserted
  <2> QED BY <2>2 DEF old
<1>4. DOMAIN new = 1 .. Len(file[p]) + 1
  BY <1>3, LenProperties
<1>5. file'[p] = new /\ \A q \in Project \ {p} : file'[q] = file[q]
  BY <1>1, <1>2
<1>6. \A q \in Project : line.key \notin Keys(file[q])
  BY DEF Insert, New, Keys
<1>7. line.key \notin told
  BY <1>6 DEF TickInv, AllKeys
<1>8. Named(line)
  BY DEF OwnKeys
<1> HIDE DEF new
<1> DEFINE from(j) == IF j < i THEN j ELSE j - 1
<1>9. /\ \A j \in DOMAIN new \ {i} : from(j) \in DOMAIN file[p] /\ new[j] = file[p][from(j)]
      /\ i \in DOMAIN new /\ new[i] = line
  BY <1>1, <1>3, <1>4
<1>10. \A j, k \in DOMAIN new \ {i} : from(j) = from(k) => j = k
  BY <1>1, <1>4
<1>11. ASSUME NEW k \in DOMAIN file[p] PROVE \E j \in DOMAIN new \ {i} : from(j) = k
  <2>1. CASE k < i
    BY <1>1, <1>4, <2>1
  <2>2. CASE ~(k < i)
    <3>1. k + 1 \in DOMAIN new \ {i} /\ from(k + 1) = k
      BY <1>1, <1>4, <2>2
    <3> QED BY <3>1
  <2> QED BY <2>1, <2>2
<1> HIDE DEF from
<1>12. /\ \A k \in DOMAIN file[p] : \E j \in DOMAIN new \ {i} : new[j] = file[p][k]
       /\ Once(file[p]) /\ AllNamed(file[p]) /\ Kept(file[p], told)
  BY <1>9, <1>11 DEF TickInv
<1>13. \A j \in DOMAIN new \ {i} : new[j].key # line.key
  BY <1>6, <1>9 DEF Keys
<1>14. Once(new)
  BY <1>9, <1>10, <1>12, <1>13 DEF Once
<1>15. AllNamed(new) /\ Kept(new, told')
  BY <1>2, <1>7, <1>8, <1>9, <1>12 DEF AllNamed, Kept
<1>16. Keys(new) \subseteq Keys(file[p]) \cup {line.key} /\ Keys(file[p]) \subseteq Keys(new)
  BY <1>9, <1>12 DEF Keys
<1>17. \A q \in Project \ {p} : Keys(new) \cap Keys(file[q]) \subseteq {NoKey}
  BY <1>6, <1>16 DEF TickInv, KeysApart
<1>18. told' \subseteq AllKeys'
  <2>1. \A q \in Project : Keys(file'[q]) \subseteq AllKeys' /\ Keys(file[q]) \subseteq Keys(file'[q])
    BY <1>5, <1>16 DEF AllKeys
  <2> QED BY <1>2, <2>1 DEF TickInv, AllKeys
<1> QED BY <1>2, <1>5, <1>14, <1>15, <1>17, <1>18, TickEdits

LEMMA TickKept == OwnKeys /\ LockInv /\ "stale" \notin edits /\ TickInv /\ [Next]_vars => TickInv'
<1> SUFFICES ASSUME OwnKeys, LockInv, "stale" \notin edits, TickInv, [Next]_vars PROVE TickInv'
  OBVIOUS
<1>1. TypeInv
  BY DEF LockInv
<1>2. ASSUME UNCHANGED <<file, buffer, told, edits>>, \A r \in Proc : Writing(r)' => Writing(r) /\ frame'[r] = frame[r]
      PROVE  TickInv'
  <2>1. KeysApart' /\ AllKeys' = AllKeys /\ (OneProject' <=> OneProject)
    BY <1>2 DEF TickInv, KeysApart, AllKeys, OneProject
  <2>2. \A r \in Proc : Writing(r)' => frame'[r].copy = frame[r].copy /\ Writing(r)
    BY <1>2
  <2> QED BY <1>2, <2>1, <2>2 DEF TickInv
<1>3. ASSUME NEW s \in Proc, ProcStep(s) PROVE TickInv'
  <2>1. CASE Calm(s)
    BY <1>2, <2>1 DEF Calm, Writing
  <2> QED BY <1>1, <1>3, <2>1, Kinds, TickFinds, TickWrites
<1>4. ASSUME NEW id \in DOMAIN row, ClaimTask(id) PROVE TickInv'
  BY <1>2, <1>4 DEF ClaimTask, Writing
<1>5. ASSUME NEW p \in Project, UserStep(p) PROVE TickInv'
  <2>1. Edits(p, file[p])
    BY <1>1, <1>5, SeenTypes DEF UserStep, Opens
  <2> QED BY <1>1, <2>1, TickRewords, TickRemoves, TickInserts DEF Edits
<1>6. CASE UNCHANGED vars
  BY <1>2, <1>6 DEF vars, Writing
<1> QED BY <1>3, <1>4, <1>5, <1>6, Steps

LEMMA EditsStay == TypeInv /\ [Next]_vars => edits' = edits
<1> SUFFICES ASSUME TypeInv, [Next]_vars PROVE edits' = edits
  OBVIOUS
<1>1. \A s \in Proc : ProcStep(s) => edits' = edits
  BY Kinds DEF Calm, Finds, Writes
<1> QED BY <1>1, Steps, UserKeeps DEF ClaimTask, vars

\* What the writer has ticked stays ticked until a user removes it, whatever the
\* number of writers, as long as editors save what they have just read: in any
\* number of plans if they heed the lock, in a single plan even if they do not
\* (update_task_completion_marker).
THEOREM TicksKept == OwnKeys /\ (OneProject \/ Heeded) => (Spec => []TicksSurvive)
<1> SUFFICES ASSUME OwnKeys, OneProject \/ Heeded PROVE Spec => []TicksSurvive
  OBVIOUS
<1> DEFINE KeptSoFar == "stale" \in edits \/ TickInv
<1>1. Init => KeptSoFar
  BY TickInit
<1>2. LockInv /\ KeptSoFar /\ [Next]_vars => KeptSoFar'
  BY TickKept, EditsStay DEF LockInv
<1>3. KeptSoFar => TicksSurvive
  BY DEF TickInv, TicksSurvive, Kept
<1> HIDE DEF KeptSoFar
<1> QED BY <1>1, <1>2, <1>3, AlwaysLocked, PTL DEF Spec

-----------------------------------------------------------------------------
(***************************************************************************)
(* A sync that is alone.  Of a heading it has dealt with there is a row,   *)
(* and the row has the stable id of that heading or of a later one that    *)
(* has the same id: no heading still to come has that one.                 *)
(***************************************************************************)
\* What a process knows of tasks it works for: ids it has been given.
Ticking == {"find", "tick", "write"}

\* A step of a process, but for the sync of a line, as the table sees it.
LEMMA OtherKinds ==
  ASSUME TypeInv, NEW s \in Proc, ProcStep(s)
  PROVE  \/ SyncLine(s)
         \/ /\ DOMAIN row' = DOMAIN row
            /\ \A id \in DOMAIN row : row'[id].stable = row[id].stable
            /\ \A id \in DOMAIN row : row'[id].status = "completed" =>
                 row[id].status = "completed" \/ id.key \in earned'
            /\ \A r \in Proc \ {s} : frame'[r] = frame[r]
            /\ frame'[s].at = "sync" =>
                 /\ s \in Syncers /\ frame'[s].line = 1 /\ frame'[s].project \in Project
                 /\ frame'[s].copy = file[frame'[s].project]
            /\ frame'[s].at \in Ticking =>
                 \/ frame[s].at \in Ticking /\ frame'[s].id = frame[s].id
                 \/ frame'[s].id \in frame[s].todo
                 \/ frame'[s].id \in DOMAIN row /\ frame'[s].id.key \in earned'
            /\ frame'[s].todo \subseteq frame[s].todo \cup {id \in DOMAIN row : row[id].status = "completed"}
<1>1. frame \in [Proc -> Frame] /\ row \in [DOMAIN row -> Row] /\ file \in [Project -> Seq(Line)]
  BY TypesNow
<1> DEFINE Rows == /\ DOMAIN row' = DOMAIN row
                   /\ \A id \in DOMAIN row : row'[id].stable = row[id].stable
                   /\ \A id \in DOMAIN row : row'[id].status = "completed" =>
                        row[id].status = "completed" \/ id.key \in earned'
           Frames == /\ \A r \in Proc \ {s} : frame'[r] = frame[r]
                     /\ frame'[s].at = "sync" =>
                          /\ s \in Syncers /\ frame'[s].line = 1 /\ frame'[s].project \in Project
                          /\ frame'[s].copy = file[frame'[s].project]
                     /\ frame'[s].at \in Ticking =>
                          \/ frame[s].at \in Ticking /\ frame'[s].id = frame[s].id
                          \/ frame'[s].id \in frame[s].todo
                          \/ frame'[s].id \in DOMAIN row /\ frame'[s].id.key \in earned'
                     /\ frame'[s].todo \subseteq frame[s].todo \cup {id \in DOMAIN row : row[id].status = "completed"}
<1>2. UNCHANGED row => Rows
  OBVIOUS
<1>3. Done(s) => Frames
  BY <1>1 DEF Done, Idle, Ticking, Frame
<1>4. CASE \E p \in Project : SyncRead(s, p)
  <2>1. PICK p \in Project : SyncRead(s, p)
    BY <1>4
  <2>2. UNCHANGED row
    BY <2>1 DEF SyncRead
  <2>3. Frames
    BY <1>1, <2>1 DEF SyncRead, Idle, Ticking
  <2> QED BY <1>2, <2>2, <2>3
<1>5. CASE FindRow(s)
  <2>1. UNCHANGED row /\ frame[s].at = "find"
    BY <1>5 DEF FindRow, At
  <2>2. CASE Done(s)
    BY <1>2, <1>3, <2>1, <2>2
  <2>3. CASE frame' = [frame EXCEPT ![s].at = "tick"]
    <3>1. Frames
      BY <1>1, <2>1, <2>3 DEF Frame, Ticking
    <3> QED BY <1>2, <2>1, <3>1
  <2> QED BY <1>5, <2>2, <2>3 DEF FindRow
<1>6. CASE TickRead(s)
  <2>1. UNCHANGED row /\ frame[s].at = "tick"
    BY <1>6 DEF TickRead, At
  <2>2. CASE Done(s)
    BY <1>2, <1>3, <2>1, <2>2
  <2>3. CASE \E i \in Unmarked(file[frame[s].project], frame[s].id) :
               frame' = [frame EXCEPT ![s].at = "write", ![s].copy = file[frame[s].project], ![s].line = i]
    <3>1. Frames
      BY <1>1, <2>1, <2>3 DEF Frame, Ticking
    <3> QED BY <1>2, <2>1, <3>1
  <2> QED BY <1>6, <2>2, <2>3 DEF TickRead
<1>7. CASE TickWrite(s)
  BY <1>2, <1>3, <1>7 DEF TickWrite
<1>8. CASE ReconcileCheck(s)
  <2>1. PICK id \in frame[s].todo :
          LET left == frame[s].todo \ {id}
          IN  \/ frame' = [frame EXCEPT ![s].at = "tick", ![s].id = id, ![s].todo = left]
              \/ frame' = [frame EXCEPT ![s] = IF left = {} THEN Idle ELSE [frame[s] EXCEPT !.todo = left]]
    BY <1>8 DEF ReconcileCheck
  <2>2. frame[s].at = "check" /\ UNCHANGED row
    BY <1>8 DEF ReconcileCheck, At
  <2>3. CASE frame' = [frame EXCEPT ![s].at = "tick", ![s].id = id, ![s].todo = frame[s].todo \ {id}]
    <3>1. Frames
      BY <1>1, <2>2, <2>3 DEF Frame, Ticking
    <3> QED BY <1>2, <2>2, <3>1
  <2>4. CASE frame' = [frame EXCEPT ![s] = IF frame[s].todo \ {id} = {} THEN Idle
                                            ELSE [frame[s] EXCEPT !.todo = frame[s].todo \ {id}]]
    <3>1. Frames
      BY <1>1, <2>2, <2>4 DEF Frame, Ticking, Idle
    <3> QED BY <1>2, <2>2, <3>1
  <2> QED BY <2>1, <2>3, <2>4
<1>9. CASE Crash(s)
  <2>1. Frames
    BY <1>1, <1>9 DEF Crash, Idle, Ticking
  <2> QED BY <1>2, <1>9, <2>1 DEF Crash
<1>10. CASE \E filter \in Project \cup {NoProject} : Reconcile(s, filter)
  <2>1. Frames
    BY <1>1, <1>10 DEF Reconcile, Idle, Ticking
  <2> QED BY <1>2, <1>10, <2>1 DEF Reconcile
<1>11. CASE \E id \in job : CompleteTask(s, id)
  <2>1. PICK id \in job : CompleteTask(s, id)
    BY <1>11
  <2>2. frame[s].at = "idle" /\ id.key \in earned'
    BY <2>1 DEF CompleteTask, At
  <2>3. CASE UNCHANGED <<row, frame>>
    BY <1>1, <2>2, <2>3 DEF Ticking
  <2>4. CASE /\ id \in InProgress
             /\ row' = [row EXCEPT ![id].status = "completed"]
             /\ frame' = [frame EXCEPT ![s] = [Idle EXCEPT
                            !.at = "find", !.project = PlanOf(row[id].project), !.id = id]]
    <3>1. Rows
      BY <1>1, <2>2, <2>4 DEF Row
    <3>2. Frames
      BY <1>1, <2>2, <2>4 DEF Idle, Ticking, InProgress
    <3> QED BY <3>1, <3>2
  <2> QED BY <2>1, <2>3, <2>4 DEF CompleteTask
<1> QED BY <1>4, <1>5, <1>6, <1>7, <1>8, <1>9, <1>10, <1>11 DEF ProcStep

\* The sync of a line.
LEMMA LineKinds ==
  ASSUME TypeInv, NEW s \in Proc, SyncLine(s)
  PROVE  /\ frame[s].at = "sync" /\ UNCHANGED <<file, buffer, job, lock, earned, told, edits>>
         /\ \A r \in Proc \ {s} : frame'[r] = frame[r]
         /\ \/ /\ frame[s].line \in DOMAIN frame[s].copy
               /\ \/ ~ IsTask(frame[s].copy, frame[s].line) /\ UNCHANGED row
                  \/ /\ IsTask(frame[s].copy, frame[s].line)
                     /\ SyncTask(frame[s].copy, frame[s].line, frame[s].project)
               /\ frame'[s] = [frame[s] EXCEPT !.line = @ + 1]
            \/ frame'[s] = Idle /\ UNCHANGED row
<1>1. frame \in [Proc -> Frame]
  BY TypesNow
<1> QED BY <1>1 DEF SyncLine, At

OneSyncer == \A r, s \in Syncers : r = s

Covered(f) ==
  \A i \in DOMAIN f.copy : i < f.line /\ IsTask(f.copy, i) =>
    /\ IdOf(f.copy, i) \in DOMAIN row
    /\ \E j \in DOMAIN f.copy :
         /\ j < f.line /\ IsTask(f.copy, j) /\ IdOf(f.copy, j) = IdOf(f.copy, i)
         /\ row[IdOf(f.copy, i)].stable = StableOf(f.copy, j)

CoverInv == \A s \in Proc : frame[s].at = "sync" => s \in Syncers /\ Covered(frame[s])

LEMMA CoversLine ==
  ASSUME TypeInv, NEW s \in Proc, SyncLine(s), Covered(frame[s]), frame'[s].at = "sync"
  PROVE  \A i \in DOMAIN frame[s].copy : i < frame[s].line + 1 /\ IsTask(frame[s].copy, i) =>
           /\ IdOf(frame[s].copy, i) \in DOMAIN row'
           /\ \E j \in DOMAIN frame[s].copy :
                /\ j < frame[s].line + 1 /\ IsTask(frame[s].copy, j)
                /\ IdOf(frame[s].copy, j) = IdOf(frame[s].copy, i)
                /\ row'[IdOf(frame[s].copy, i)].stable = StableOf(frame[s].copy, j)
<1> DEFINE copy == frame[s].copy
           here == frame[s].line
<1>1. copy \in Seq(Line) /\ here \in Nat /\ frame[s].project \in Project /\ DOMAIN copy = 1 .. Len(copy)
  BY LineKinds, WorkingOn, LenProperties
<1>2. here \in DOMAIN copy
      /\ (\/ ~ IsTask(copy, here) /\ UNCHANGED row
          \/ IsTask(copy, here) /\ SyncTask(copy, here, frame[s].project))
  <2>1. frame'[s] # Idle
    BY DEF Idle
  <2>2. \/ /\ frame[s].line \in DOMAIN frame[s].copy
           /\ \/ ~ IsTask(frame[s].copy, frame[s].line) /\ UNCHANGED row
              \/ /\ IsTask(frame[s].copy, frame[s].line)
                 /\ SyncTask(frame[s].copy, frame[s].line, frame[s].project)
        \/ frame'[s] = Idle
    BY LineKinds
  <2> QED BY <2>1, <2>2
<1> SUFFICES ASSUME NEW i \in DOMAIN copy, i < here + 1, IsTask(copy, i)
             PROVE  /\ IdOf(copy, i) \in DOMAIN row'
                    /\ \E j \in DOMAIN copy :
                         /\ j < here + 1 /\ IsTask(copy, j) /\ IdOf(copy, j) = IdOf(copy, i)
                         /\ row'[IdOf(copy, i)].stable = StableOf(copy, j)
  OBVIOUS
<1>3. i < here \/ i = here
  BY <1>1
<1>4. i < here =>
        /\ IdOf(copy, i) \in DOMAIN row
        /\ \E j \in DOMAIN copy :
             /\ j < here /\ IsTask(copy, j) /\ IdOf(copy, j) = IdOf(copy, i)
             /\ row[IdOf(copy, i)].stable = StableOf(copy, j)
  BY DEF Covered
<1>5. \A j \in DOMAIN copy : j < here => j < here + 1
  BY <1>1
<1> HIDE DEF copy, here
<1>6. CASE ~ IsTask(copy, here) /\ UNCHANGED row
  BY <1>3, <1>4, <1>5, <1>6
<1>7. CASE IsTask(copy, here) /\ SyncTask(copy, here, frame[s].project)
  <2>1. /\ IdOf(copy, here) \in DOMAIN row'
        /\ row'[IdOf(copy, here)].stable = StableOf(copy, here)
        /\ \A x \in DOMAIN row' \ {IdOf(copy, here)} : x \in DOMAIN row /\ row'[x] = row[x]
        /\ \A x \in DOMAIN row \ DOMAIN row' : x \in Namesakes(StableOf(copy, here))
    BY <1>1, <1>2, <1>7, SyncTaskRows
  <2>2. here < here + 1
    BY <1>1
  <2>3. CASE IdOf(copy, i) = IdOf(copy, here)
    BY <1>2, <1>7, <2>1, <2>2, <2>3
  <2>4. CASE IdOf(copy, i) # IdOf(copy, here)
    <3>1. i < here
      BY <1>3, <2>4
    <3>2. PICK j \in DOMAIN copy :
            /\ j < here /\ IsTask(copy, j) /\ IdOf(copy, j) = IdOf(copy, i)
            /\ row[IdOf(copy, i)].stable = StableOf(copy, j)
      BY <1>4, <3>1
    <3>3. StableOf(copy, j) # StableOf(copy, here)
      <4>1. j # here
        BY <1>1, <3>2
      <4> QED BY <1>1, <1>2, <1>7, <3>2, <4>1, StableApart
    <3>4. IdOf(copy, i) \in DOMAIN row /\ IdOf(copy, i) \notin Namesakes(StableOf(copy, here))
      BY <1>4, <3>1, <3>2, <3>3 DEF Namesakes
    <3>5. IdOf(copy, i) \in DOMAIN row' /\ row'[IdOf(copy, i)] = row[IdOf(copy, i)]
      BY <2>1, <2>4, <3>4
    <3> QED BY <1>5, <3>2, <3>5
  <2> QED BY <2>3, <2>4
<1> QED BY <1>2, <1>6, <1>7

LEMMA CoverKept == OneSyncer /\ TypeInv /\ CoverInv /\ [Next]_vars => CoverInv'
<1> SUFFICES ASSUME OneSyncer, TypeInv, CoverInv, [Next]_vars,
                    NEW r \in Proc, frame'[r].at = "sync"
             PROVE  r \in Syncers /\ Covered(frame[r])'
  BY DEF CoverInv
<1>1. ASSUME DOMAIN row' = DOMAIN row, \A id \in DOMAIN row : row'[id].stable = row[id].stable,
             frame'[r] = frame[r]
      PROVE  r \in Syncers /\ Covered(frame[r])'
  <2>1. r \in Syncers /\ Covered(frame[r])
    BY <1>1 DEF CoverInv
  <2> QED BY <1>1, <2>1 DEF Covered
<1>2. ASSUME NEW s \in Proc, ProcStep(s) PROVE r \in Syncers /\ Covered(frame[r])'
  <2>1. CASE SyncLine(s)
    <3>1. CASE r = s
      <4>1. s \in Syncers /\ Covered(frame[s])
        BY <2>1, LineKinds DEF CoverInv
      <4>2. frame[s] \in Frame /\ frame'[s] = [frame[s] EXCEPT !.line = @ + 1]
        BY <2>1, <3>1, LineKinds, TypesNow DEF Idle
      <4>3. frame'[s].copy = frame[s].copy /\ frame'[s].line = frame[s].line + 1
        BY <4>2 DEF Frame
      <4> QED BY <2>1, <3>1, <4>1, <4>3, CoversLine DEF Covered
    <3>2. CASE r # s
      <4>1. frame'[r] = frame[r] /\ frame[s].at = "sync"
        BY <2>1, <3>2, LineKinds
      <4> QED BY <3>2, <4>1 DEF CoverInv, OneSyncer
    <3> QED BY <3>1, <3>2
  <2>2. CASE ~ SyncLine(s)
    <3>1. /\ DOMAIN row' = DOMAIN row /\ \A id \in DOMAIN row : row'[id].stable = row[id].stable
          /\ \A q \in Proc \ {s} : frame'[q] = frame[q]
          /\ frame'[s].at = "sync" => /\ s \in Syncers /\ frame'[s].line = 1 /\ frame'[s].project \in Project
                                      /\ frame'[s].copy = file[frame'[s].project]
      BY <1>2, <2>2, OtherKinds
    <3>2. CASE r = s
      <4>1. s \in Syncers /\ frame'[s].line = 1 /\ frame'[s].copy \in Seq(Line)
        BY <3>1, <3>2, TypesNow
      <4>2. \A i \in DOMAIN frame'[s].copy : ~(i < 1)
        BY <4>1, LenProperties
      <4> QED BY <3>2, <4>1, <4>2 DEF Covered
    <3> QED BY <1>1, <3>1, <3>2
  <2> QED BY <2>1, <2>2
<1>3. ASSUME NEW id \in DOMAIN row, ClaimTask(id) PROVE r \in Syncers /\ Covered(frame[r])'
  <2>1. row' = [row EXCEPT ![id].status = "in_progress"] /\ frame' = frame
    BY <1>3 DEF ClaimTask
  <2>2. DOMAIN row' = DOMAIN row /\ \A x \in DOMAIN row : row'[x].stable = row[x].stable
    BY <2>1, TypesNow DEF Row
  <2> QED BY <1>1, <2>1, <2>2
<1>4. ASSUME NEW p \in Project, UserStep(p) PROVE r \in Syncers /\ Covered(frame[r])'
  BY <1>1, <1>4, UserKeeps
<1>5. CASE UNCHANGED vars
  BY <1>1, <1>5 DEF vars
<1> QED BY <1>2, <1>3, <1>4, <1>5, Steps

\* While one process at a time syncs, no heading it has dealt with is without a
\* row when it goes on: a later heading takes by its stable id no row that an
\* earlier one has (sync_tasks_from_fix_plan).
THEOREM SyncKeepsRows == OneSyncer => (Spec => []SyncCovers)
<1> SUFFICES ASSUME OneSyncer PROVE Spec => []SyncCovers
  OBVIOUS
<1>1. Init => CoverInv
  BY DEF Init, CoverInv, Idle
<1>2. TypeInv /\ CoverInv /\ [Next]_vars => CoverInv'
  BY CoverKept
<1>3. CoverInv => SyncCovers
  BY DEF CoverInv, Covered, SyncCovers, At
<1> QED BY <1>1, <1>2, <1>3, AlwaysTyped, PTL DEF Spec

-----------------------------------------------------------------------------
(***************************************************************************)
(* The right heading.  What the headings are assumed to look like: those   *)
(* that are tasks have a number in front, and a number stands for one      *)
(* task.  Every id that is in the table, or that a process works for, is   *)
(* then one of a heading that has its number.                              *)
(***************************************************************************)
FirstLines == Spare \cup UNION {{FirstPlans[p][i] : i \in DOMAIN FirstPlans[p]} : p \in Project}

NumbersName ==
  /\ \A line \in FirstLines : line.form \in {"section", "label", "numbered"}
  /\ \A line, other \in FirstLines :
       line.form = "numbered" /\ other.form = "numbered" /\ line.num = other.num => line.key = other.key

\* A line that one of these has become.
Known(line) ==
  \E first \in FirstLines : line.form = first.form /\ line.num = first.num /\ line.key = first.key
AllKnown(lines) == \A i \in DOMAIN lines : Known(lines[i])

KnownId(id) ==
  \E first \in FirstLines : first.form = "numbered" /\ id.num = first.num /\ id.key = first.key

HeadingInv ==
  /\ \A p \in Project : AllKnown(file[p]) /\ AllKnown(buffer[p])
  /\ \A id \in DOMAIN row : KnownId(id)
  /\ \A s \in Proc :
       /\ Writing(s) \/ frame[s].at = "sync" => AllKnown(frame[s].copy)
       /\ frame[s].at \in Ticking => KnownId(frame[s].id)
       /\ \A id \in frame[s].todo : KnownId(id)

-----------------------------------------------------------------------------
(***************************************************************************)
(* Places.  While headings keep their places, a plan only grows at its     *)
(* end, an editor's buffer has the headings of the plan, and the row of a  *)
(* heading has its stable id, whatever becomes of its title.               *)
(***************************************************************************)
\* A heading of this place is about this key.
HasHeading(lines, stable, key) ==
  \E i \in DOMAIN lines :
    IsTask(lines, i) /\ stable = StableOf(lines, i) /\ key = lines[i].key

\* Two versions of a plan with the same headings.
Alike(lines, others) == Agree(lines, others) /\ Agree(others, lines)

PlaceInv ==
  InPlace =>
    /\ "stale" \in edits => \A p \in Project : Alike(buffer[p], file[p])
    /\ \A s \in Proc : Writing(s) \/ frame[s].at = "sync" => Agree(frame[s].copy, file[frame[s].project])
    /\ \A id \in DOMAIN row : \E p \in Project : HasHeading(file[p], row[id].stable, id.key)

-----------------------------------------------------------------------------
(***************************************************************************)
(* Reasons.  While headings keep their places and are added without a      *)
(* tick, what shows a tick has been earned, wherever it has been read.     *)
(***************************************************************************)
OpenSpare == \A line \in Spare : ~ Shown(line)

Earned(lines, keys) == \A i \in DOMAIN lines : Shown(lines[i]) => lines[i].key \in keys

ReasonInv ==
  InPlace =>
    /\ \A p \in Project : Earned(file[p], earned) /\ Earned(buffer[p], earned)
    /\ \A id \in DOMAIN row : row[id].status = "completed" => id.key \in earned
    /\ \A s \in Proc :
         /\ Writing(s) \/ frame[s].at = "sync" => Earned(frame[s].copy, earned)
         /\ frame[s].at \in Ticking => frame[s].id.key \in earned
         /\ \A id \in frame[s].todo : id.key \in earned

-----------------------------------------------------------------------------
(***************************************************************************)
(* What a step makes of the plans, of the copies and of the ids at work.   *)
(***************************************************************************)
\* A tick of the writer is one of the line it has found.
LEMMA WriterHeadings ==
  ASSUME TypeInv, NEW s \in Proc, Writes(s)
  PROVE  LET copy == frame[s].copy
             new == file'[frame[s].project]
         IN  /\ frame[s].project \in Project /\ copy \in Seq(Line)
             /\ new \in Seq(Line) /\ DOMAIN new = DOMAIN copy /\ Agree(copy, new) /\ Agree(new, copy)
             /\ \A j \in DOMAIN copy : /\ new[j].form = copy[j].form /\ new[j].num = copy[j].num
                                       /\ new[j].key = copy[j].key
                                       /\ Shown(new[j]) => Shown(copy[j]) \/ j = frame[s].line
             /\ \A q \in Project \ {frame[s].project} : file'[q] = file[q]
<1> DEFINE copy == frame[s].copy
           i == frame[s].line
           line == [copy[i] EXCEPT !.mark = "check"]
           new == [copy EXCEPT ![i] = line]
<1>1. copy \in Seq(Line) /\ i \in DOMAIN copy /\ copy[i] \in Line /\ frame[s].project \in Project
  BY WorkingOn DEF Writes
<1>2. line \in Line /\ line.key = copy[i].key /\ line.form = copy[i].form /\ line.num = copy[i].num
  BY <1>1 DEF Line, Mark
<1>3. file'[frame[s].project] = new /\ \A q \in Project \ {frame[s].project} : file'[q] = file[q]
  BY <1>1, TypesNow DEF Writes
<1>4. new \in Seq(Line) /\ DOMAIN new = DOMAIN copy /\ Len(new) = Len(copy) /\ new[i] = line
      /\ \A j \in DOMAIN copy \ {i} : new[j] = copy[j]
  BY <1>1, <1>2, Ticked
<1>5. Len(copy) \in Nat
  BY <1>1, LenProperties
<1> HIDE DEF new, line
<1>6. \A j \in DOMAIN copy : /\ new[j].form = copy[j].form /\ new[j].num = copy[j].num
                             /\ new[j].key = copy[j].key
                             /\ Shown(new[j]) => Shown(copy[j]) \/ j = i
  BY <1>2, <1>4
<1>7. Agree(copy, new) /\ Agree(new, copy)
  BY <1>4, <1>5, <1>6 DEF Agree
<1> QED BY <1>1, <1>3, <1>4, <1>6, <1>7

\* What a user leaves: the same headings, one fewer, or one more.
LEMMA UserHeadings ==
  ASSUME TypeInv, NEW p \in Project, NEW lines \in Seen(p), Edits(p, lines)
  PROVE  /\ lines \in Seq(Line) /\ file'[p] \in Seq(Line)
         /\ \A q \in Project \ {p} : file'[q] = file[q] /\ buffer'[q] = buffer[q]
         /\ buffer'[p] = IF "stale" \in edits THEN file'[p] ELSE buffer[p]
         /\ \/ /\ DOMAIN file'[p] = DOMAIN lines /\ Agree(lines, file'[p])
               /\ \A j \in DOMAIN lines :
                    /\ file'[p][j].form = lines[j].form /\ file'[p][j].num = lines[j].num
                    /\ file'[p][j].key = lines[j].key
                    /\ Shown(file'[p][j]) => Shown(lines[j]) \/ lines[j].key \in earned'
            \/ /\ "remove" \in edits
               /\ \A j \in DOMAIN file'[p] : \E k \in DOMAIN lines : file'[p][j] = lines[k]
            \/ \E line \in Spare :
                 /\ \A j \in DOMAIN file'[p] : file'[p][j] = line \/ \E k \in DOMAIN lines : file'[p][j] = lines[k]
                 /\ "insert" \in edits \/ Agree(lines, file'[p])
<1>1. lines \in Seq(Line) /\ Len(lines) \in Nat /\ DOMAIN lines = 1 .. Len(lines)
      /\ \A i \in DOMAIN lines : lines[i] \in Line
  BY SeenTypes
<1>2. /\ file'[p] \in Seq(Line)
      /\ \A q \in Project \ {p} : file'[q] = file[q] /\ buffer'[q] = buffer[q]
      /\ buffer'[p] = IF "stale" \in edits THEN file'[p] ELSE buffer[p]
  <2>1. TypeInv' /\ file \in [Project -> Seq(Line)] /\ buffer \in [Project -> Seq(Line)]
    BY UserTypes, TypesNow
  <2>2. file'[p] \in Seq(Line)
    BY <2>1 DEF TypeInv, TypeOK
  <2>3. \A new : Saves(p, new) =>
          /\ \A q \in Project \ {p} : file'[q] = file[q] /\ buffer'[q] = buffer[q]
          /\ buffer'[p] = IF "stale" \in edits THEN file'[p] ELSE buffer[p]
    BY <2>1 DEF Saves
  <2>4. \E new : Saves(p, new)
    <3>1. ASSUME NEW i \in DOMAIN lines, UserTicks(p, lines, i) PROVE \E new : Saves(p, new)
      BY <3>1 DEF UserTicks
    <3>2. ASSUME NEW i \in DOMAIN lines, RemoveLine(p, lines, i) PROVE \E new : Saves(p, new)
      BY <3>2 DEF RemoveLine
    <3>3. ASSUME NEW i \in DOMAIN lines, NEW w \in Wording, Reword(p, lines, i, w) PROVE \E new : Saves(p, new)
      BY <3>3 DEF Reword
    <3>4. ASSUME NEW i \in 1 .. Len(lines) + 1, NEW line \in Spare, Insert(p, lines, i, line)
          PROVE  \E new : Saves(p, new)
      BY <3>4 DEF Insert
    <3> QED BY <3>1, <3>2, <3>3, <3>4 DEF Edits
  <2> QED BY <2>2, <2>3, <2>4
<1>10. \A new \in Seq(Line) : Saves(p, new) => file'[p] = new
  BY SavesTypes
<1>3. ASSUME NEW i \in DOMAIN lines, NEW line \in Line,
             line.form = lines[i].form, line.num = lines[i].num, line.key = lines[i].key,
             Shown(line) => Shown(lines[i]) \/ lines[i].key \in earned',
             Saves(p, [lines EXCEPT ![i] = line])
      PROVE  /\ DOMAIN file'[p] = DOMAIN lines /\ Agree(lines, file'[p])
             /\ \A j \in DOMAIN lines :
                  /\ file'[p][j].form = lines[j].form /\ file'[p][j].num = lines[j].num
                  /\ file'[p][j].key = lines[j].key
                  /\ Shown(file'[p][j]) => Shown(lines[j]) \/ lines[j].key \in earned'
  <2> DEFINE new == [lines EXCEPT ![i] = line]
  <2>1. new \in Seq(Line) /\ DOMAIN new = DOMAIN lines /\ Len(new) = Len(lines) /\ new[i] = line
        /\ \A j \in DOMAIN lines \ {i} : new[j] = lines[j]
    BY <1>1, Ticked
  <2>2. file'[p] = new
    BY <1>3, <1>10, <2>1
  <2> HIDE DEF new
  <2>3. \A j \in DOMAIN lines :
          /\ new[j].form = lines[j].form /\ new[j].num = lines[j].num /\ new[j].key = lines[j].key
          /\ Shown(new[j]) => Shown(lines[j]) \/ lines[j].key \in earned'
    BY <1>3, <2>1
  <2>4. Agree(lines, new)
    BY <1>1, <2>1, <2>3 DEF Agree
  <2> QED BY <2>1, <2>2, <2>3, <2>4
<1>4. ASSUME NEW i \in DOMAIN lines, UserTicks(p, lines, i)
      PROVE  \E line \in Line :
               /\ line.form = lines[i].form /\ line.num = lines[i].num /\ line.key = lines[i].key
               /\ Saves(p, [lines EXCEPT ![i] = line])
               /\ lines[i].key \in earned'
  BY <1>4, Edited DEF UserTicks
<1>5. ASSUME NEW i \in DOMAIN lines, NEW w \in Wording, Reword(p, lines, i, w)
      PROVE  \E line \in Line :
               /\ line.form = lines[i].form /\ line.num = lines[i].num /\ line.key = lines[i].key
               /\ Shown(line) => Shown(lines[i])
               /\ Saves(p, [lines EXCEPT ![i] = line])
  BY <1>5, Edited
<1>6. ASSUME NEW i \in DOMAIN lines, RemoveLine(p, lines, i)
      PROVE  /\ "remove" \in edits
             /\ \A j \in DOMAIN file'[p] : \E k \in DOMAIN lines : file'[p][j] = lines[k]
  <2>1. file'[p] = Without(lines, i) /\ "remove" \in edits
    <3>1. Saves(p, Without(lines, i)) /\ "remove" \in edits
      BY <1>6 DEF RemoveLine, Without, MayEdit
    <3> QED BY <1>1, <1>10, <3>1, Removed
  <2>2. /\ Len(file'[p]) = Len(lines) - 1
        /\ \A j \in 1 .. Len(lines) - 1 : file'[p][j] = IF j < i THEN lines[j] ELSE lines[j + 1]
    <3>1. /\ Len(Without(lines, i)) = Len(lines) - 1
          /\ \A j \in 1 .. Len(lines) - 1 :
               Without(lines, i)[j] = IF j < i THEN lines[j] ELSE lines[j + 1]
      BY <1>1, Removed
    <3> QED BY <2>1, <3>1
  <2>3. DOMAIN file'[p] = 1 .. Len(lines) - 1
    BY <1>1, <1>2, <2>2, LenProperties
  <2>4. \A j \in DOMAIN file'[p] : j \in DOMAIN lines /\ j + 1 \in DOMAIN lines
    BY <1>1, <2>3
  <2> QED BY <2>1, <2>2, <2>3, <2>4
<1>7. ASSUME NEW i \in 1 .. Len(lines) + 1, NEW line \in Spare, Insert(p, lines, i, line)
      PROVE  /\ \A j \in DOMAIN file'[p] : file'[p][j] = line \/ \E k \in DOMAIN lines : file'[p][j] = lines[k]
             /\ "insert" \in edits \/ Agree(lines, file'[p])
  <2>1. /\ file'[p] = Into(lines, i, line)
        /\ "insert" \in edits \/ i > Len(lines)
    <3>1. Saves(p, Into(lines, i, line)) /\ ("insert" \in edits \/ i > Len(lines))
      BY <1>1, <1>7 DEF Insert, Into, MayEdit
    <3>2. Into(lines, i, line) \in Seq(Line)
      BY <1>1, Inserted, Constants
    <3> QED BY <1>10, <3>1, <3>2
  <2>2. /\ Len(file'[p]) = Len(lines) + 1
        /\ \A j \in 1 .. Len(lines) + 1 :
             file'[p][j] = IF j < i THEN lines[j] ELSE IF j = i THEN line ELSE lines[j - 1]
    <3> DEFINE old == lines
    <3>1. old \in Seq(Line) /\ line \in Line /\ i \in 1 .. Len(old) + 1
      BY <1>1, Constants
    <3> HIDE DEF old
    <3>2. /\ Len(Into(old, i, line)) = Len(old) + 1
          /\ \A j \in 1 .. Len(old) + 1 :
               Into(old, i, line)[j] = IF j < i THEN old[j] ELSE IF j = i THEN line ELSE old[j - 1]
      BY <3>1, Inserted
    <3> QED BY <2>1, <3>2 DEF old
  <2>3. DOMAIN file'[p] = 1 .. Len(lines) + 1
    BY <1>1, <2>2, LenProperties
  <2>4. ASSUME NEW j \in DOMAIN file'[p], file'[p][j] # line
        PROVE  \E k \in DOMAIN lines : file'[p][j] = lines[k]
    <3>1. CASE j < i
      BY <1>1, <2>2, <2>3, <3>1
    <3>2. CASE ~(j < i)
      <4>1. j - 1 \in DOMAIN lines /\ file'[p][j] = lines[j - 1]
        BY <1>1, <2>2, <2>3, <2>4, <3>2
      <4> QED BY <4>1
    <3> QED BY <3>1, <3>2
  <2>5. ASSUME i > Len(lines) PROVE Agree(lines, file'[p])
    <3>1. \A j \in DOMAIN lines : file'[p][j] = lines[j]
      BY <1>1, <2>2, <2>5
    <3> QED BY <1>1, <2>2, <3>1 DEF Agree
  <2> QED BY <2>1, <2>4, <2>5
<1>8. CASE \E i \in DOMAIN lines : UserTicks(p, lines, i)
  BY <1>1, <1>2, <1>3, <1>4, <1>8
<1>9. CASE \E i \in DOMAIN lines, w \in Wording : Reword(p, lines, i, w)
  BY <1>1, <1>2, <1>3, <1>5, <1>9
<1> QED BY <1>1, <1>2, <1>6, <1>7, <1>8, <1>9 DEF Edits

\* A copy is one that was there, or the file.
LEMMA Copies ==
  ASSUME TypeInv, NEW s \in Proc, ProcStep(s), NEW r \in Proc, Writing(r)' \/ frame'[r].at = "sync"
  PROVE  \/ /\ Writing(r) \/ frame[r].at = "sync"
            /\ frame'[r].copy = frame[r].copy /\ frame'[r].project = frame[r].project
         \/ /\ file' = file /\ frame'[r].project \in Project
            /\ frame'[r].copy = file[frame'[r].project]
<1>1. frame \in [Proc -> Frame]
  BY TypesNow
<1>2. CASE SyncLine(s)
  <2>1. CASE r = s
    <3>1. frame'[s] = Idle \/ frame'[s] = [frame[s] EXCEPT !.line = @ + 1]
      BY <1>2, LineKinds
    <3>2. frame'[s] # Idle
      BY <2>1 DEF Writing, Idle
    <3>3. frame'[s].copy = frame[s].copy /\ frame'[s].project = frame[s].project
      BY <1>1, <3>1, <3>2 DEF Frame
    <3> QED BY <1>2, <2>1, <3>3, LineKinds
  <2>2. CASE r # s
    BY <1>2, <2>2, LineKinds DEF Writing
  <2> QED BY <2>1, <2>2
<1>3. CASE ~ SyncLine(s)
  <2>1. /\ \A q \in Proc \ {s} : frame'[q] = frame[q]
        /\ frame'[s].at = "sync" => /\ frame'[s].project \in Project
                                    /\ frame'[s].copy = file[frame'[s].project]
    BY <1>3, OtherKinds
  <2>2. CASE r # s
    BY <2>1, <2>2 DEF Writing
  <2>3. CASE r = s /\ frame'[s].at = "write"
    <3>1. Finds(s) /\ frame[s].at # "idle"
      BY <2>3, Kinds DEF Calm, Writes
    <3>2. frame[s].project \in Project /\ frame[s] \in Frame
      BY <3>1, WorkingOn
    <3>3. frame'[s].project = frame[s].project /\ frame'[s].copy = file[frame[s].project] /\ file' = file
      BY <1>1, <3>1, <3>2 DEF Finds, Frame
    <3> QED BY <2>3, <3>2, <3>3
  <2>4. CASE r = s /\ frame'[s].at = "sync"
    <3>1. ~ Writes(s)
      BY <2>4 DEF Writes
    <3>2. file' = file
      BY <3>1, Kinds DEF Calm, Finds
    <3> QED BY <2>1, <2>4, <3>2
  <2> QED BY <2>2, <2>3, <2>4 DEF Writing
<1> QED BY <1>2, <1>3

\* An id at work is one that was, or that of a row.
LEMMA IdsAtWork ==
  ASSUME TypeInv, NEW s \in Proc, ProcStep(s), NEW r \in Proc
  PROVE  /\ frame'[r].at \in Ticking =>
              \/ frame[r].at \in Ticking /\ frame'[r].id = frame[r].id
              \/ frame'[r].id \in frame[r].todo
              \/ frame'[r].id \in DOMAIN row /\ frame'[r].id.key \in earned'
         /\ frame'[r].todo \subseteq frame[r].todo \cup {id \in DOMAIN row : row[id].status = "completed"}
<1>1. frame \in [Proc -> Frame]
  BY TypesNow
<1>2. CASE SyncLine(s)
  <2>1. CASE r = s
    <3>1. frame'[s] = Idle \/ frame'[s] = [frame[s] EXCEPT !.line = @ + 1]
      BY <1>2, LineKinds
    <3>2. frame[s].at = "sync"
      BY <1>2, LineKinds
    <3> QED BY <1>1, <2>1, <3>1, <3>2 DEF Frame, Idle, Ticking
  <2>2. CASE r # s
    BY <1>2, <2>2, LineKinds
  <2> QED BY <2>1, <2>2
<1>3. CASE ~ SyncLine(s)
  BY <1>3, OtherKinds
<1> QED BY <1>2, <1>3

-----------------------------------------------------------------------------
\* A heading that is a task is one with its number in front.
LEMMA KnownTask ==
  ASSUME NumbersName, NEW lines \in Seq(Line), AllKnown(lines), NEW i \in DOMAIN lines, IsTask(lines, i)
  PROVE  KnownId(IdOf(lines, i)) /\ lines[i].form = "numbered"
<1>1. PICK first \in FirstLines :
        lines[i].form = first.form /\ lines[i].num = first.num /\ lines[i].key = first.key
  BY DEF AllKnown, Known
<1>2. lines[i].form = "numbered"
  BY <1>1 DEF NumbersName, IsTask
<1> QED BY <1>1, <1>2 DEF KnownId, IdOf, Number

LEMMA HeadingInit == Init => HeadingInv
<1> SUFFICES ASSUME Init PROVE HeadingInv
  OBVIOUS
<1>1. file = FirstPlans /\ buffer = FirstPlans /\ DOMAIN row = {} /\ \A s \in Proc : frame[s] = Idle
  BY DEF Init
<1>2. \A p \in Project : AllKnown(FirstPlans[p])
  BY DEF AllKnown, Known, FirstLines
<1> QED BY <1>1, <1>2 DEF HeadingInv, Idle, Writing, Ticking

LEMMA HeadingKept == NumbersName /\ TypeInv /\ HeadingInv /\ [Next]_vars => HeadingInv'
<1> SUFFICES ASSUME NumbersName, TypeInv, HeadingInv, [Next]_vars PROVE HeadingInv'
  OBVIOUS
<1>1. ASSUME \A p \in Project : AllKnown(file'[p]) /\ AllKnown(buffer'[p]),
             DOMAIN row' = DOMAIN row, UNCHANGED frame
      PROVE  HeadingInv'
  BY <1>1 DEF HeadingInv, Writing
<1>2. ASSUME NEW s \in Proc, ProcStep(s) PROVE HeadingInv'
  <2>1. ASSUME NEW p \in Project PROVE AllKnown(file'[p])
    <3>1. CASE file' = file
      BY <3>1 DEF HeadingInv
    <3>2. CASE Writes(s)
      <4>1. AllKnown(frame[s].copy)
        BY <3>2 DEF HeadingInv, Writes, Writing
      <4>2. /\ DOMAIN file'[frame[s].project] = DOMAIN frame[s].copy
            /\ \A j \in DOMAIN frame[s].copy :
                 /\ file'[frame[s].project][j].form = frame[s].copy[j].form
                 /\ file'[frame[s].project][j].num = frame[s].copy[j].num
                 /\ file'[frame[s].project][j].key = frame[s].copy[j].key
            /\ \A q \in Project \ {frame[s].project} : file'[q] = file[q]
        BY <3>2, WriterHeadings
      <4>3. AllKnown(file'[frame[s].project])
        BY <4>1, <4>2 DEF AllKnown, Known
      <4> QED BY <4>2, <4>3 DEF HeadingInv
    <3> QED BY <1>2, <3>1, <3>2, Kinds DEF Calm, Finds
  <2>2. ASSUME NEW id \in DOMAIN row' PROVE KnownId(id)
    <3>1. CASE id \in DOMAIN row
      BY <3>1 DEF HeadingInv
    <3>2. CASE id \notin DOMAIN row
      <4> DEFINE copy == frame[s].copy
                 i == frame[s].line
      <4>1. SyncLine(s)
        BY <1>2, <2>2, <3>2, OtherKinds
      <4>2. frame[s].at = "sync" /\ i \in DOMAIN copy /\ IsTask(copy, i) /\ SyncTask(copy, i, frame[s].project)
        BY <2>2, <3>2, <4>1, LineKinds
      <4>3. copy \in Seq(Line) /\ frame[s].project \in Project /\ AllKnown(copy)
        BY <4>2, WorkingOn DEF HeadingInv
      <4> HIDE DEF copy, i
      <4>4. id = IdOf(copy, i)
        BY <2>2, <3>2, <4>2, <4>3, SyncTaskRows
      <4> QED BY <4>2, <4>3, <4>4, KnownTask
    <3> QED BY <3>1, <3>2
  <2>3. ASSUME NEW r \in Proc, Writing(r)' \/ frame'[r].at = "sync" PROVE AllKnown(frame'[r].copy)
    BY <1>2, <2>3, Copies DEF HeadingInv
  <2>4. ASSUME NEW r \in Proc
        PROVE  /\ frame'[r].at \in Ticking => KnownId(frame'[r].id)
               /\ \A id \in frame'[r].todo : KnownId(id)
    BY <1>2, IdsAtWork DEF HeadingInv
  <2>5. buffer' = buffer
    BY <1>2, Kinds DEF Calm, Finds, Writes
  <2> QED BY <2>1, <2>2, <2>3, <2>4, <2>5 DEF HeadingInv
<1>3. ASSUME NEW id \in DOMAIN row, ClaimTask(id) PROVE HeadingInv'
  BY <1>1, <1>3, TypesNow DEF ClaimTask, HeadingInv
<1>4. ASSUME NEW p \in Project, Opens(p) PROVE HeadingInv'
  <2>1. \A q \in Project : AllKnown(file'[q]) /\ AllKnown(buffer'[q])
    BY <1>4, TypesNow DEF Opens, HeadingInv
  <2> QED BY <1>1, <1>4, <2>1 DEF Opens
<1>6. ASSUME NEW p \in Project, NEW lines \in Seen(p), Edits(p, lines) PROVE HeadingInv'
  <2>1. UNCHANGED <<row, frame>>
    BY <1>6, UserKeeps DEF UserStep
  <2>2. AllKnown(lines)
    BY DEF HeadingInv, Seen
  <2>3. \A line \in Spare : Known(line)
    BY DEF Known, FirstLines
  <2>4. AllKnown(file'[p])
    <3>1. CASE /\ DOMAIN file'[p] = DOMAIN lines
               /\ \A j \in DOMAIN lines :
                    /\ file'[p][j].form = lines[j].form /\ file'[p][j].num = lines[j].num
                    /\ file'[p][j].key = lines[j].key
      BY <2>2, <3>1 DEF AllKnown, Known
    <3>2. CASE \A j \in DOMAIN file'[p] :
                 file'[p][j] \in Spare \/ \E k \in DOMAIN lines : file'[p][j] = lines[k]
      BY <2>2, <2>3, <3>2 DEF AllKnown
    <3> QED BY <1>6, <3>1, <3>2, UserHeadings
  <2>5. \A q \in Project : AllKnown(file'[q]) /\ AllKnown(buffer'[q])
    <3>1. /\ \A q \in Project \ {p} : file'[q] = file[q] /\ buffer'[q] = buffer[q]
          /\ buffer'[p] = IF "stale" \in edits THEN file'[p] ELSE buffer[p]
      BY <1>6, UserHeadings
    <3> QED BY <2>4, <3>1 DEF HeadingInv
  <2> QED BY <1>1, <2>1, <2>5
<1>5. CASE UNCHANGED vars
  BY <1>1, <1>5 DEF vars, HeadingInv
<1> QED BY <1>2, <1>3, <1>4, <1>5, <1>6, Steps DEF UserStep

\* The writer ticks the heading of the task it has been called for, as long as
\* headings that are tasks have their number in front and no two have the same
\* one: the number is all it looks for (_find_task_line), and it is what the parser
\* put into the id.
LEMMA RightHeadings == NumbersName => (Spec => []RightHeading)
<1> SUFFICES ASSUME NumbersName PROVE Spec => []RightHeading
  OBVIOUS
<1>1. Init => HeadingInv
  BY HeadingInit
<1>2. TypeInv /\ HeadingInv /\ [Next]_vars => HeadingInv'
  BY HeadingKept
<1>3. LockInv /\ HeadingInv => RightHeading
  <2> SUFFICES ASSUME LockInv, HeadingInv, NEW s \in Proc, frame[s].at = "write"
               PROVE  frame[s].copy[frame[s].line].key = frame[s].id.key
    BY DEF RightHeading, At
  <2> DEFINE line == frame[s].copy[frame[s].line]
  <2>1. frame[s].line \in DOMAIN frame[s].copy
    BY WorkingOn DEF LockInv
  <2>2. line.form = "numbered" /\ line.num = frame[s].id.num
    BY DEF LockInv, Locked, Writing
  <2>3. Known(line) /\ KnownId(frame[s].id)
    BY <2>1 DEF HeadingInv, AllKnown, Writing, Ticking
  <2> HIDE DEF line
  <2>4. line.key = frame[s].id.key
    BY <2>2, <2>3 DEF Known, KnownId, NumbersName
  <2> QED BY <2>4 DEF line
<1> QED BY <1>1, <1>2, <1>3, AlwaysTyped, AlwaysLocked, PTL DEF Spec

-----------------------------------------------------------------------------
LEMMA AgreeTypes ==
  ASSUME NEW p \in Seq(Line), NEW q \in Seq(Line), NEW r \in Seq(Line)
  PROVE  /\ Agree(p, p)
         /\ Agree(p, q) /\ Agree(q, r) => Agree(p, r)
<1>1. /\ DOMAIN p = 1 .. Len(p) /\ DOMAIN q = 1 .. Len(q)
      /\ Len(p) \in Nat /\ Len(q) \in Nat /\ Len(r) \in Nat
  BY LenProperties
<1>2. Agree(p, p)
  BY <1>1 DEF Agree
<1>3. ASSUME Agree(p, q), Agree(q, r) PROVE Agree(p, r)
  <2>1. DOMAIN p \subseteq DOMAIN q /\ Len(p) <= Len(r)
    BY <1>1, <1>3 DEF Agree
  <2> QED BY <1>3, <2>1 DEF Agree
<1> QED BY <1>2, <1>3

LEMMA StillHasHeading ==
  ASSUME NEW short \in Seq(Line), NEW long \in Seq(Line), Agree(short, long),
         NEW stable, NEW key, HasHeading(short, stable, key)
  PROVE  HasHeading(long, stable, key)
<1>1. PICK i \in DOMAIN short :
        IsTask(short, i) /\ stable = StableOf(short, i) /\ key = short[i].key
  BY DEF HasHeading
<1>2. i \in DOMAIN long /\ IsTask(long, i) /\ stable = StableOf(long, i) /\ key = long[i].key
  BY <1>1, AgreeParsed DEF Agree
<1> QED BY <1>2 DEF HasHeading

\* While headings keep their places a plan grows at its end, or not at all, and so
\* does what is in an editor.
LEMMA PlansGrow ==
  ASSUME LockInv, PlaceInv, InPlace, [Next]_vars, NEW p \in Project
  PROVE  /\ file[p] \in Seq(Line) /\ file'[p] \in Seq(Line) /\ Agree(file[p], file'[p])
         /\ "stale" \in edits => Alike(buffer'[p], file'[p])
<1>1. TypeInv /\ TypeInv' /\ "heedless" \notin edits /\ "insert" \notin edits /\ "remove" \notin edits
  BY NextTypes DEF LockInv, InPlace
<1>2. file[p] \in Seq(Line) /\ file'[p] \in Seq(Line) /\ buffer[p] \in Seq(Line) /\ buffer'[p] \in Seq(Line)
  BY <1>1 DEF TypeInv, TypeOK
<1>3. "stale" \in edits => Alike(buffer[p], file[p])
  BY DEF PlaceInv
<1>4. ASSUME file'[p] = file[p], buffer'[p] = buffer[p] \/ buffer'[p] = file[p]
      PROVE  Agree(file[p], file'[p]) /\ ("stale" \in edits => Alike(buffer'[p], file'[p]))
  BY <1>2, <1>3, <1>4, AgreeTypes DEF Alike
<1>5. ASSUME NEW s \in Proc, ProcStep(s)
      PROVE  Agree(file[p], file'[p]) /\ ("stale" \in edits => Alike(buffer'[p], file'[p]))
  <2>1. CASE Writes(s)
    <3>1. frame[s].copy = file[frame[s].project] /\ buffer' = buffer
      BY <1>1, <2>1 DEF LockInv, UpToDate, Writing, Writes
    <3>2. Alike(frame[s].copy, file'[frame[s].project])
          /\ \A q \in Project \ {frame[s].project} : file'[q] = file[q]
      BY <1>1, <2>1, WriterHeadings DEF Alike
    <3>3. CASE p = frame[s].project
      <4>1. Alike(file[p], file'[p])
        BY <3>1, <3>2, <3>3
      <4> QED BY <1>2, <1>3, <3>1, <4>1, AgreeTypes DEF Alike
    <3>4. CASE p # frame[s].project
      BY <1>4, <3>1, <3>2, <3>4
    <3> QED BY <3>3, <3>4
  <2>2. CASE ~ Writes(s)
    <3>1. file' = file /\ buffer' = buffer
      BY <1>1, <1>5, <2>2, Kinds DEF Calm, Finds
    <3> QED BY <1>4, <3>1
  <2> QED BY <2>1, <2>2
<1>6. ASSUME NEW id \in DOMAIN row, ClaimTask(id)
      PROVE  Agree(file[p], file'[p]) /\ ("stale" \in edits => Alike(buffer'[p], file'[p]))
  BY <1>4, <1>6 DEF ClaimTask
<1>7. ASSUME NEW q \in Project, Opens(q)
      PROVE  Agree(file[p], file'[p]) /\ ("stale" \in edits => Alike(buffer'[p], file'[p]))
  <2>1. file' = file /\ (buffer'[p] = buffer[p] \/ buffer'[p] = file[p])
    BY <1>1, <1>7, TypesNow DEF Opens
  <2> QED BY <1>4, <2>1
<1>8. ASSUME NEW q \in Project, NEW lines \in Seen(q), Edits(q, lines)
      PROVE  Agree(file[p], file'[p]) /\ ("stale" \in edits => Alike(buffer'[p], file'[p]))
  <2>1. /\ \A r \in Project \ {q} : file'[r] = file[r] /\ buffer'[r] = buffer[r]
        /\ buffer'[q] = IF "stale" \in edits THEN file'[q] ELSE buffer[q]
    BY <1>1, <1>8, UserHeadings
  <2>2. CASE p = q
    <3>1. lines \in Seq(Line) /\ Agree(lines, file'[p])
      BY <1>1, <1>8, <2>2, UserHeadings
    <3>2. Agree(file[p], lines)
      BY <1>2, <1>3, <2>2, AgreeTypes DEF Seen, Alike
    <3>3. Agree(file[p], file'[p])
      BY <1>2, <3>1, <3>2, AgreeTypes
    <3>4. "stale" \in edits => buffer'[p] = file'[p]
      BY <2>1, <2>2
    <3> QED BY <1>2, <3>3, <3>4, AgreeTypes DEF Alike
  <2>3. CASE p # q
    BY <1>4, <2>1, <2>3
  <2> QED BY <2>2, <2>3
<1>9. CASE UNCHANGED vars
  BY <1>2, <1>4, <1>9 DEF vars
<1> QED BY <1>2, <1>5, <1>6, <1>7, <1>8, <1>9, Steps DEF UserStep

LEMMA PlaceKept == LockInv /\ PlaceInv /\ [Next]_vars => PlaceInv'
<1> SUFFICES ASSUME LockInv, PlaceInv, [Next]_vars, InPlace' PROVE PlaceInv'
  BY DEF PlaceInv
<1>1. TypeInv
  BY DEF LockInv
<1>2. edits' = edits
  BY <1>1, EditsStay
<1>3. InPlace
  BY <1>2 DEF InPlace
<1>4. \A p \in Project :
        /\ file[p] \in Seq(Line) /\ file'[p] \in Seq(Line) /\ Agree(file[p], file'[p])
        /\ "stale" \in edits' => Alike(buffer'[p], file'[p])
  BY <1>2, <1>3, PlansGrow
<1>5. ASSUME NEW r \in Proc, Writing(r)' \/ frame'[r].at = "sync",
             Writing(r) \/ frame[r].at = "sync",
             frame'[r].copy = frame[r].copy, frame'[r].project = frame[r].project
      PROVE  Agree(frame'[r].copy, file'[frame'[r].project])
  <2>1. frame[r].at # "idle"
    BY <1>5 DEF Writing
  <2>2. frame[r].copy \in Seq(Line) /\ frame[r].project \in Project
    BY <1>1, <2>1, WorkingOn
  <2>3. Agree(frame[r].copy, file[frame[r].project])
    BY <1>3, <1>5 DEF PlaceInv
  <2> QED BY <1>4, <1>5, <2>2, <2>3, AgreeTypes
<1>6. ASSUME NEW id \in DOMAIN row, NEW stable, stable = row[id].stable
      PROVE  \E p \in Project : HasHeading(file'[p], stable, id.key)
  <2>1. PICK p \in Project : HasHeading(file[p], stable, id.key)
    BY <1>3, <1>6 DEF PlaceInv
  <2> QED BY <1>4, <2>1, StillHasHeading
<1>7. ASSUME DOMAIN row' = DOMAIN row, \A id \in DOMAIN row : row'[id].stable = row[id].stable
      PROVE  \A id \in DOMAIN row' : \E p \in Project : HasHeading(file'[p], row'[id].stable, id.key)
  BY <1>6, <1>7
<1>8. ASSUME UNCHANGED frame, DOMAIN row' = DOMAIN row, \A id \in DOMAIN row : row'[id].stable = row[id].stable
      PROVE  PlaceInv'
  <2>1. ASSUME NEW r \in Proc, Writing(r)' \/ frame'[r].at = "sync"
        PROVE  Agree(frame'[r].copy, file'[frame'[r].project])
    BY <1>5, <1>8, <2>1 DEF Writing
  <2> QED BY <1>4, <1>7, <1>8, <2>1 DEF PlaceInv
<1>9. ASSUME NEW s \in Proc, ProcStep(s) PROVE PlaceInv'
  <2>1. ASSUME NEW r \in Proc, Writing(r)' \/ frame'[r].at = "sync"
        PROVE  Agree(frame'[r].copy, file'[frame'[r].project])
    <3>1. CASE /\ file' = file /\ frame'[r].project \in Project
               /\ frame'[r].copy = file[frame'[r].project]
      BY <1>4, <3>1, AgreeTypes
    <3> QED BY <1>1, <1>5, <1>9, <2>1, <3>1, Copies
  <2>2. ASSUME NEW id \in DOMAIN row'
        PROVE  \E p \in Project : HasHeading(file'[p], row'[id].stable, id.key)
    <3>1. CASE SyncLine(s) /\ row' # row
      <4> DEFINE copy == frame[s].copy
                 i == frame[s].line
      <4>1. frame[s].at = "sync" /\ i \in DOMAIN copy /\ IsTask(copy, i) /\ SyncTask(copy, i, frame[s].project)
            /\ file' = file
        BY <1>1, <3>1, LineKinds
      <4>2. copy \in Seq(Line) /\ frame[s].project \in Project /\ Agree(copy, file[frame[s].project])
        BY <1>1, <1>3, <4>1, WorkingOn DEF PlaceInv
      <4> HIDE DEF copy, i
      <4>3. /\ row'[IdOf(copy, i)].stable = StableOf(copy, i)
            /\ \A x \in DOMAIN row' \ {IdOf(copy, i)} : x \in DOMAIN row /\ row'[x] = row[x]
        BY <1>1, <4>1, <4>2, SyncTaskRows
      <4>4. CASE id = IdOf(copy, i)
        <5>1. HasHeading(copy, row'[id].stable, id.key)
          BY <4>1, <4>3, <4>4 DEF HasHeading, IdOf
        <5> QED BY <1>4, <4>1, <4>2, <5>1, StillHasHeading
      <4>5. CASE id # IdOf(copy, i)
        BY <1>6, <2>2, <4>3, <4>5
      <4> QED BY <4>4, <4>5
    <3>2. CASE row' = row
      BY <1>6, <2>2, <3>2
    <3>3. CASE ~ SyncLine(s)
      BY <1>1, <1>7, <1>9, <2>2, <3>3, OtherKinds
    <3> QED BY <3>1, <3>2, <3>3
  <2> QED BY <1>4, <2>1, <2>2 DEF PlaceInv
<1>10. ASSUME NEW id \in DOMAIN row, ClaimTask(id) PROVE PlaceInv'
  <2>1. row' = [row EXCEPT ![id].status = "in_progress"] /\ frame' = frame
    BY <1>10 DEF ClaimTask
  <2>2. DOMAIN row' = DOMAIN row /\ \A x \in DOMAIN row : row'[x].stable = row[x].stable
    BY <1>1, <2>1, TypesNow DEF Row
  <2> QED BY <1>8, <2>1, <2>2
<1>11. ASSUME NEW p \in Project, UserStep(p) PROVE PlaceInv'
  BY <1>1, <1>8, <1>11, UserKeeps
<1>12. CASE UNCHANGED vars
  BY <1>8, <1>12 DEF vars
<1> QED BY <1>9, <1>10, <1>11, <1>12, Steps

LEMMA AlwaysPlaced == Spec => []PlaceInv
<1>1. Init => PlaceInv
  <2>1. Init => DOMAIN row = {} /\ \A s \in Proc : frame[s].at = "idle"
    BY DEF Init, Idle
  <2>2. Init => \A p \in Project : Alike(buffer[p], file[p])
    <3> SUFFICES ASSUME Init, NEW p \in Project PROVE Alike(buffer[p], file[p])
      OBVIOUS
    <3>1. buffer[p] = file[p] /\ file[p] \in Seq(Line)
      BY InitTypes, TypesNow DEF Init
    <3> QED BY <3>1, AgreeTypes DEF Alike
  <2> QED BY <2>1, <2>2 DEF PlaceInv, Writing
<1> QED BY <1>1, PlaceKept, AlwaysLocked, PTL DEF Spec

\* The row a sync finds by the stable id of a heading is one of a heading that was
\* about the same.
LEMMA SameTask ==
  ASSUME OneProject, TypeInv, PlaceInv, InPlace, NEW s \in Proc, frame[s].at = "sync",
         NEW i \in DOMAIN frame[s].copy, IsTask(frame[s].copy, i),
         NEW old \in Namesakes(StableOf(frame[s].copy, i))
  PROVE  old.key = frame[s].copy[i].key
<1> DEFINE copy == frame[s].copy
           plan == file[frame[s].project]
<1>1. copy \in Seq(Line) /\ plan \in Seq(Line) /\ frame[s].project \in Project /\ Agree(copy, plan)
  BY WorkingOn DEF PlaceInv
<1>2. HasHeading(plan, StableOf(copy, i), old.key)
  <2>1. old \in DOMAIN row /\ row[old].stable = StableOf(copy, i)
    BY DEF Namesakes
  <2>2. PICK p \in Project : HasHeading(file[p], row[old].stable, old.key)
    BY <2>1 DEF PlaceInv
  <2> QED BY <1>1, <2>1, <2>2 DEF OneProject
<1> HIDE DEF plan
<1>3. PICK j \in DOMAIN plan : IsTask(plan, j) /\ StableOf(copy, i) = StableOf(plan, j) /\ old.key = plan[j].key
  BY <1>2 DEF HasHeading
<1>4. i \in DOMAIN plan /\ IsTask(plan, i) /\ StableOf(copy, i) = StableOf(plan, i)
  BY <1>1, AgreeParsed
<1>5. i = j
  BY <1>1, <1>3, <1>4, StableApart
<1> QED BY <1>1, <1>3, <1>5 DEF Agree

\* A rename keeps to the task: while headings keep their places, with one plan, the
\* row that goes is that of a heading whose title has been reworded
\* (sync_tasks_from_fix_plan).
THEOREM RenamesKeepTasks == OneProject => (Spec => RenamesAreRewordings)
<1> SUFFICES ASSUME OneProject PROVE Spec => RenamesAreRewordings
  OBVIOUS
<1>1. ASSUME TypeInv, PlaceInv, [Next]_vars, InPlace, NEW id \in DOMAIN row \ DOMAIN row'
      PROVE  \E new \in DOMAIN row' \ DOMAIN row : new.key = id.key
  <2>1. PICK s \in Proc : SyncLine(s)
    <3>1. DOMAIN row' # DOMAIN row
      BY <1>1
    <3>2. \A x \in DOMAIN row : ~ ClaimTask(x)
      BY <1>1, <3>1, TypesNow DEF ClaimTask
    <3>3. \A p \in Project : ~ UserStep(p)
      BY <1>1, <3>1, UserKeeps
    <3>4. PICK s \in Proc : ProcStep(s)
      BY <1>1, <3>1, <3>2, <3>3, Steps DEF vars
    <3> QED BY <1>1, <3>1, <3>4, OtherKinds
  <2> DEFINE copy == frame[s].copy
             i == frame[s].line
  <2>2. frame[s].at = "sync" /\ i \in DOMAIN copy /\ IsTask(copy, i) /\ SyncTask(copy, i, frame[s].project)
    BY <1>1, <2>1, LineKinds
  <2>3. copy \in Seq(Line) /\ frame[s].project \in Project
    BY <1>1, <2>2, WorkingOn
  <2>4. /\ IdOf(copy, i) \in DOMAIN row' \ DOMAIN row
        /\ id \in Namesakes(StableOf(copy, i))
    BY <1>1, <2>2, <2>3, SyncTaskRows
  <2>5. id.key = copy[i].key
    BY <1>1, <2>2, <2>4, SameTask
  <2> QED BY <2>4, <2>5 DEF IdOf
<1>2. TypeInv /\ PlaceInv /\ [Next]_vars =>
        [InPlace => \A id \in DOMAIN row \ DOMAIN row' :
           \E new \in DOMAIN row' \ DOMAIN row : new.key = id.key]_row
  BY <1>1
<1> QED BY <1>2, AlwaysTyped, AlwaysPlaced, PTL DEF Spec, RenamesAreRewordings

-----------------------------------------------------------------------------
LEMMA EarnedGrows == [Next]_vars => earned \subseteq earned'
<1> SUFFICES ASSUME [Next]_vars PROVE earned \subseteq earned'
  OBVIOUS
<1>1. ASSUME NEW s \in Proc, ProcStep(s) PROVE earned \subseteq earned'
  <2>1. CASE SyncLine(s) \/ FindRow(s) \/ TickRead(s) \/ TickWrite(s)
    BY <2>1 DEF SyncLine, FindRow, TickRead, TickWrite
  <2>2. CASE ReconcileCheck(s) \/ Crash(s) \/ Reconcile(s, NoProject)
    BY <2>2 DEF ReconcileCheck, Crash, Reconcile
  <2>3. CASE \E p \in Project : SyncRead(s, p) \/ Reconcile(s, p)
    BY <2>3 DEF SyncRead, Reconcile
  <2>4. CASE \E id \in job : CompleteTask(s, id)
    BY <2>4 DEF CompleteTask
  <2> QED BY <1>1, <2>1, <2>2, <2>3, <2>4 DEF ProcStep
<1>2. ASSUME NEW id \in DOMAIN row, ClaimTask(id) PROVE earned \subseteq earned'
  BY <1>2 DEF ClaimTask
<1>3. ASSUME NEW p \in Project, UserStep(p) PROVE earned \subseteq earned'
  BY <1>3 DEF UserStep, Opens, Edits, UserTicks, RemoveLine, Reword, Insert
<1> QED BY <1>1, <1>2, <1>3, Steps DEF vars

LEMMA EarnedMore ==
  ASSUME NEW lines, NEW few, NEW many, few \subseteq many, Earned(lines, few)
  PROVE  Earned(lines, many)
BY DEF Earned

\* The plans of a step: a tick of the writer is on the heading of a task that has
\* been completed.
LEMMA EarnedPlans ==
  ASSUME OpenSpare, LockInv, RightHeading, ReasonInv, InPlace, [Next]_vars, NEW p \in Project
  PROVE  Earned(file'[p], earned') /\ Earned(buffer'[p], earned')
<1>1. TypeInv /\ Earned(file[p], earned) /\ Earned(buffer[p], earned) /\ earned \subseteq earned'
  BY EarnedGrows DEF LockInv, ReasonInv
<1>2. ASSUME file'[p] = file[p] PROVE Earned(file'[p], earned')
  BY <1>1, <1>2, EarnedMore
<1>3. ASSUME file'[p] = file[p], buffer'[p] = buffer[p] \/ buffer'[p] = file[p]
      PROVE  Earned(file'[p], earned') /\ Earned(buffer'[p], earned')
  BY <1>1, <1>3, EarnedMore
<1>4. ASSUME NEW s \in Proc, ProcStep(s) PROVE Earned(file'[p], earned') /\ Earned(buffer'[p], earned')
  <2>1. ASSUME Writes(s) PROVE Earned(file'[p], earned')
    <3> DEFINE copy == frame[s].copy
               new == file'[frame[s].project]
    <3>1. /\ DOMAIN new = DOMAIN copy
          /\ \A j \in DOMAIN copy : /\ new[j].key = copy[j].key
                                    /\ Shown(new[j]) => Shown(copy[j]) \/ j = frame[s].line
          /\ \A q \in Project \ {frame[s].project} : file'[q] = file[q]
      BY <1>1, <2>1, WriterHeadings
    <3>2. Earned(copy, earned) /\ frame[s].id.key \in earned /\ copy[frame[s].line].key = frame[s].id.key
      BY <2>1 DEF ReasonInv, Writes, Writing, Ticking, RightHeading, At
    <3> HIDE DEF copy, new
    <3>3. Earned(new, earned')
      BY <1>1, <3>1, <3>2 DEF Earned
    <3>4. CASE p = frame[s].project
      BY <3>3, <3>4 DEF new
    <3>5. CASE p # frame[s].project
      BY <1>2, <3>1, <3>5
    <3> QED BY <3>4, <3>5
  <2>2. CASE Writes(s)
    <3>1. Earned(buffer'[p], earned')
      BY <1>1, <2>2, EarnedMore DEF Writes
    <3> QED BY <2>1, <2>2, <3>1
  <2>3. CASE ~ Writes(s)
    BY <1>1, <1>3, <1>4, <2>3, Kinds DEF Calm, Finds
  <2> QED BY <2>2, <2>3
<1>5. ASSUME NEW q \in Project, Opens(q) PROVE Earned(file'[p], earned') /\ Earned(buffer'[p], earned')
  <2>1. file' = file /\ (buffer'[p] = buffer[p] \/ buffer'[p] = file[p])
    BY <1>1, <1>5, TypesNow DEF Opens
  <2> QED BY <1>3, <2>1
<1>6. ASSUME NEW q \in Project, NEW lines \in Seen(q), Edits(q, lines)
      PROVE  Earned(file'[p], earned') /\ Earned(buffer'[p], earned')
  <2>1. /\ \A r \in Project \ {q} : file'[r] = file[r] /\ buffer'[r] = buffer[r]
        /\ buffer'[q] = IF "stale" \in edits THEN file'[q] ELSE buffer[q]
    BY <1>1, <1>6, UserHeadings
  <2>2. CASE p # q
    BY <1>3, <2>1, <2>2
  <2>3. CASE p = q
    <3>1. Earned(lines, earned)
      BY <1>1, <2>3 DEF Seen
    <3>2. ASSUME DOMAIN file'[p] = DOMAIN lines,
                 \A j \in DOMAIN lines :
                   /\ file'[p][j].key = lines[j].key
                   /\ Shown(file'[p][j]) => Shown(lines[j]) \/ lines[j].key \in earned'
          PROVE  Earned(file'[p], earned')
      BY <1>1, <3>1, <3>2 DEF Earned
    <3>3. ASSUME \A j \in DOMAIN file'[p] :
                   file'[p][j] \in Spare \/ \E k \in DOMAIN lines : file'[p][j] = lines[k]
          PROVE  Earned(file'[p], earned')
      BY <1>1, <3>1, <3>3 DEF Earned, OpenSpare
    <3>4. Earned(file'[p], earned')
      <4> DEFINE new == file'[p]
      <4>1. \/ /\ DOMAIN new = DOMAIN lines
               /\ \A j \in DOMAIN lines :
                    /\ new[j].key = lines[j].key
                    /\ Shown(new[j]) => Shown(lines[j]) \/ lines[j].key \in earned'
            \/ \A j \in DOMAIN new : \E k \in DOMAIN lines : new[j] = lines[k]
            \/ \E line \in Spare : \A j \in DOMAIN new :
                 new[j] = line \/ \E k \in DOMAIN lines : new[j] = lines[k]
        <5>1. lines \in Seen(p) /\ Edits(p, lines)
          BY <1>6, <2>3
        <5> QED BY <1>1, <5>1, UserHeadings
      <4> HIDE DEF new
      <4>2. CASE \E line \in Spare : \A j \in DOMAIN new :
                   new[j] = line \/ \E k \in DOMAIN lines : new[j] = lines[k]
        <5>1. \A j \in DOMAIN new : new[j] \in Spare \/ \E k \in DOMAIN lines : new[j] = lines[k]
          BY <4>2
        <5> QED BY <3>3, <5>1 DEF new
      <4>3. CASE \A j \in DOMAIN new : \E k \in DOMAIN lines : new[j] = lines[k]
        BY <3>3, <4>3 DEF new
      <4> QED BY <3>2, <4>1, <4>2, <4>3 DEF new
    <3>5. Earned(buffer[p], earned')
      BY <1>1, EarnedMore
    <3> QED BY <2>1, <2>3, <3>4, <3>5
  <2> QED BY <2>2, <2>3
<1>7. ASSUME NEW id \in DOMAIN row, ClaimTask(id) PROVE Earned(file'[p], earned') /\ Earned(buffer'[p], earned')
  BY <1>3, <1>7 DEF ClaimTask
<1>8. CASE UNCHANGED vars
  BY <1>3, <1>8 DEF vars
<1> QED BY <1>4, <1>5, <1>6, <1>7, <1>8, Steps DEF UserStep

\* The rows of a step: a sync completes a row by a tick, or by giving it the row of
\* the same heading.
LEMMA EarnedRows ==
  ASSUME OneProject, TypeInv, PlaceInv, ReasonInv, InPlace, [Next]_vars,
         NEW id \in DOMAIN row', row'[id].status = "completed"
  PROVE  id.key \in earned'
<1>1. earned \subseteq earned' /\ \A x \in DOMAIN row : row[x].status = "completed" => x.key \in earned
  BY EarnedGrows DEF ReasonInv
<1>2. ASSUME DOMAIN row' = DOMAIN row,
             \A x \in DOMAIN row : row'[x].status = "completed" =>
               row[x].status = "completed" \/ x.key \in earned'
      PROVE  id.key \in earned'
  BY <1>1, <1>2
<1>3. ASSUME NEW s \in Proc, ProcStep(s) PROVE id.key \in earned'
  <2>1. CASE SyncLine(s) /\ row' # row
    <3> DEFINE copy == frame[s].copy
               i == frame[s].line
    <3>1. frame[s].at = "sync" /\ i \in DOMAIN copy /\ IsTask(copy, i) /\ SyncTask(copy, i, frame[s].project)
      BY <2>1, LineKinds
    <3>2. copy \in Seq(Line) /\ frame[s].project \in Project
      BY <3>1, WorkingOn
    <3>3. Earned(copy, earned)
      BY <3>1 DEF ReasonInv
    <3>4. /\ row'[IdOf(copy, i)].status = "completed" =>
               \/ Shown(copy[i])
               \/ IdOf(copy, i) \in DOMAIN row /\ row[IdOf(copy, i)].status = "completed"
               \/ \E old \in Namesakes(StableOf(copy, i)) : row[old].status = "completed"
          /\ \A x \in DOMAIN row' \ {IdOf(copy, i)} : x \in DOMAIN row /\ row'[x] = row[x]
      BY <3>1, <3>2, SyncTaskRows
    <3>5. \A old \in Namesakes(StableOf(copy, i)) : old \in DOMAIN row /\ old.key = copy[i].key
      BY <3>1, SameTask DEF Namesakes
    <3> HIDE DEF copy, i
    <3>6. IdOf(copy, i).key = copy[i].key
      BY DEF IdOf
    <3>7. CASE id = IdOf(copy, i)
      BY <1>1, <3>1, <3>3, <3>4, <3>5, <3>6, <3>7 DEF Earned
    <3>8. CASE id # IdOf(copy, i)
      BY <1>1, <3>4, <3>8
    <3> QED BY <3>7, <3>8
  <2>2. CASE row' = row
    BY <1>2, <2>2
  <2>3. CASE ~ SyncLine(s)
    BY <1>2, <1>3, <2>3, OtherKinds
  <2> QED BY <2>1, <2>2, <2>3
<1>4. ASSUME NEW x \in DOMAIN row, ClaimTask(x) PROVE id.key \in earned'
  <2>1. row' = [row EXCEPT ![x].status = "in_progress"]
    BY <1>4 DEF ClaimTask
  <2>2. DOMAIN row' = DOMAIN row /\ \A y \in DOMAIN row : row'[y].status = "completed" => row[y].status = "completed"
    BY <2>1, TypesNow DEF Row
  <2> QED BY <1>2, <2>2
<1>5. ASSUME NEW p \in Project, UserStep(p) PROVE id.key \in earned'
  BY <1>2, <1>5, UserKeeps
<1>6. CASE UNCHANGED vars
  BY <1>2, <1>6 DEF vars
<1> QED BY <1>3, <1>4, <1>5, <1>6, Steps

\* What the processes of a step know.
LEMMA EarnedFrames ==
  ASSUME TypeInv, ReasonInv, InPlace, [Next]_vars, NEW r \in Proc
  PROVE  /\ Writing(r)' \/ frame'[r].at = "sync" => Earned(frame'[r].copy, earned')
         /\ frame'[r].at \in Ticking => frame'[r].id.key \in earned'
         /\ \A id \in frame'[r].todo : id.key \in earned'
<1>1. /\ earned \subseteq earned'
      /\ \A p \in Project : Earned(file[p], earned)
      /\ \A x \in DOMAIN row : row[x].status = "completed" => x.key \in earned
      /\ Writing(r) \/ frame[r].at = "sync" => Earned(frame[r].copy, earned)
      /\ frame[r].at \in Ticking => frame[r].id.key \in earned
      /\ \A id \in frame[r].todo : id.key \in earned
  BY EarnedGrows DEF ReasonInv
<1>2. CASE UNCHANGED frame
  BY <1>1, <1>2, EarnedMore DEF Writing
<1>3. ASSUME NEW s \in Proc, ProcStep(s)
      PROVE  /\ Writing(r)' \/ frame'[r].at = "sync" => Earned(frame'[r].copy, earned')
             /\ frame'[r].at \in Ticking => frame'[r].id.key \in earned'
             /\ \A id \in frame'[r].todo : id.key \in earned'
  <2>1. ASSUME Writing(r)' \/ frame'[r].at = "sync" PROVE Earned(frame'[r].copy, earned')
    <3>1. Earned(frame'[r].copy, earned)
      BY <1>1, <1>3, <2>1, Copies
    <3> QED BY <1>1, <3>1, EarnedMore
  <2>2. /\ frame'[r].at \in Ticking => frame'[r].id.key \in earned'
        /\ \A id \in frame'[r].todo : id.key \in earned'
    BY <1>1, <1>3, IdsAtWork
  <2> QED BY <2>1, <2>2
<1> QED BY <1>2, <1>3, Steps, UserKeeps DEF ClaimTask, vars

\* A completed row is one whose worker has reported success, or whose heading a user
\* has ticked, while headings keep their places: with one plan, in which headings
\* have numbers of their own, and new ones are added without a tick.
THEOREM CompletedForGood ==
  OneProject /\ NumbersName /\ OpenSpare => (Spec => []CompletedForReason)
<1> SUFFICES ASSUME OneProject, NumbersName, OpenSpare PROVE Spec => []CompletedForReason
  OBVIOUS
<1>1. Init => ReasonInv
  <2> SUFFICES ASSUME Init PROVE ReasonInv
    OBVIOUS
  <2>1. /\ file = FirstPlans /\ buffer = FirstPlans /\ DOMAIN row = {} /\ \A s \in Proc : frame[s] = Idle
        /\ \A p \in Project : ShownIn(FirstPlans[p]) \subseteq earned
    BY DEF Init
  <2>2. \A p \in Project : Earned(file[p], earned) /\ Earned(buffer[p], earned)
    BY <2>1 DEF Earned, ShownIn
  <2> QED BY <2>1, <2>2 DEF ReasonInv, Idle, Writing, Ticking
<1>2. LockInv /\ PlaceInv /\ RightHeading /\ ReasonInv /\ [Next]_vars => ReasonInv'
  <2> SUFFICES ASSUME LockInv, PlaceInv, RightHeading, ReasonInv, [Next]_vars, InPlace' PROVE ReasonInv'
    BY DEF ReasonInv
  <2>1. TypeInv
    BY DEF LockInv
  <2>2. InPlace
    BY <2>1, EditsStay DEF InPlace
  <2>3. \A p \in Project : Earned(file'[p], earned') /\ Earned(buffer'[p], earned')
    BY <2>2, EarnedPlans
  <2>4. \A id \in DOMAIN row' : row'[id].status = "completed" => id.key \in earned'
    BY <2>1, <2>2, EarnedRows
  <2>5. \A r \in Proc :
          /\ Writing(r)' \/ frame'[r].at = "sync" => Earned(frame'[r].copy, earned')
          /\ frame'[r].at \in Ticking => frame'[r].id.key \in earned'
          /\ \A id \in frame'[r].todo : id.key \in earned'
    BY <2>1, <2>2, EarnedFrames
  <2> QED BY <2>3, <2>4, <2>5 DEF ReasonInv
<1>3. ReasonInv => CompletedForReason
  BY DEF ReasonInv, CompletedForReason
<1> QED BY <1>1, <1>2, <1>3, RightHeadings, AlwaysLocked, AlwaysPlaced, PTL DEF Spec

=============================================================================
