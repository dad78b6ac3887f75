------------------------------ MODULE FixPlan ------------------------------
(***************************************************************************)
(* The fix plan as a file: what its parser makes of the headings, how a    *)
(* sync matches them with rows of task_claims (fix_plan_parser.py,         *)
(* sync_tasks_from_fix_plan), and how a completion finds its way back into *)
(* the file (fix_plan_writer.py, update_fix_plan_on_completion,            *)
(* reconcile_completed_tasks), while users and models edit the same file.  *)
(* Claims and their leases are the subject of Coordination: here a row is  *)
(* pending, in progress or completed, and one heading is synced in one     *)
(* step.                                                                   *)
(***************************************************************************)
EXTENDS Naturals, Sequences, FiniteSets

CONSTANTS
  Project,    \* directories with a plan
  Here,       \* the one the processes run in, or NoProject
  Proc,       \* daemon, TUI, command line
  Syncers,    \* those of them that sync
  Consoles,   \* those that reconcile: TUIs
  Key,        \* what a heading is about, whatever its wording
  Wording,    \* wordings of a title
  FirstPlans, \* per project, the plan at the start
  Spare,      \* headings a user may add
  Habits,     \* what the users of an instance may do: sets of EditKind
  NoProject, NoKey, Nobody

Form == {"section", "numbered", "id", "tier", "plain", "label"}
Mark == {"none", "check", "cross", "COMPLETE", "emoji"}
Subtasks == {"none", "open", "done"}
\* heedless: also while a writer holds the lock; stale: from what was read earlier.
EditKind == {"reword", "tick", "append", "insert", "remove", "heedless", "stale"}

\* A line of the plan; subs stands for the check boxes the parser gives to it.
Line == [form : Form, num : Nat, key : Key \cup {NoKey}, wording : Wording,
         mark : Mark, subs : Subtasks]

ASSUME FixPlanAssumption ==
  /\ Here \in Project \cup {NoProject} /\ NoProject \notin Project
  /\ Syncers \subseteq Proc /\ Consoles \subseteq Proc /\ Nobody \notin Proc
  /\ NoKey \notin Key /\ Wording # {}
  /\ FirstPlans \in [Project -> Seq(Line)]
  /\ Spare \subseteq Line
  /\ Habits \subseteq SUBSET EditKind

VARIABLES
  file,     \* the plan of each project
  buffer,   \* what the editor of each plan has read or saved last
  row,      \* task_claims: by task id, status, stable_id and project
  job,      \* ids workers have been given and have not reported on
  lock,     \* who holds the lock file of each plan
  frame,    \* what each process is doing
  edits,    \* what the users of this run do: one of Habits, for good
  earned,   \* history: what a worker has completed or a user has ticked
  told      \* history: what the writer has ticked and no user has removed

vars == <<file, buffer, row, job, lock, frame, edits, earned, told>>

-----------------------------------------------------------------------------
(* parse_fix_plan *)

\* Headings of these forms draw the next number of the counter.  A label (a
\* plain heading that ends in a colon) draws one too, and is then rejected;
\* tier and plain headings are seen below a section only.
Counted(lines, i) ==
  \/ lines[i].form = "id"
  \/ /\ lines[i].form \in {"tier", "plain", "label"}
     /\ \E j \in 1 .. i : lines[j].form = "section"

Counter(lines, i) == Cardinality({j \in 1 .. i : Counted(lines, j)})

Number(lines, i) ==
  IF lines[i].form = "numbered" THEN lines[i].num ELSE Counter(lines, i)

\* 0 before the first section.
SectionOf(lines, i) == Cardinality({j \in 1 .. i : lines[j].form = "section"})

\* Without a section there is no priority, and 0 is no task number.
IsTask(lines, i) ==
  /\ lines[i].form \notin {"section", "label"}
  /\ SectionOf(lines, i) > 0
  /\ Number(lines, i) # 0

\* "task-<number>-<slug of the title>": marks are taken off before.
IdOf(lines, i) ==
  [num |-> Number(lines, i), key |-> lines[i].key, wording |-> lines[i].wording]

Id == [num : Nat, key : Key \cup {NoKey}, wording : Wording]

\* Mutant of StableOf: the place is not counted on.
StableOfFirst(lines, i) == <<SectionOf(lines, i), 0>>

\* "s<section>-t<place in it>"
StableOf(lines, i) ==
  <<SectionOf(lines, i),
    Cardinality({j \in 1 .. i - 1 : IsTask(lines, j)
                                    /\ SectionOf(lines, j) = SectionOf(lines, i)})>>

Stable == Nat \X Nat

\* A cross means nothing to the parser.
Shown(line) == line.mark \in {"check", "COMPLETE", "emoji"} \/ line.subs = "done"

ShownIn(lines) == {lines[i].key : i \in {j \in DOMAIN lines : Shown(lines[j])}}

-----------------------------------------------------------------------------
(* fix_plan_writer.py *)

\* Mutant of Candidates: any numbered heading will do.
CandidatesAny(lines, id) == {i \in DOMAIN lines : lines[i].form = "numbered"}

\* The callers pass the id of a row and the number in it.  The id never equals
\* the "PF-1" of an id heading and is in no title, so numbered headings only are
\* found, tasks or not, and the first of a number.
Candidates(lines, id) ==
  {i \in DOMAIN lines : lines[i].form = "numbered" /\ lines[i].num = id.num}

Found(lines, id) ==
  {i \in Candidates(lines, id) : \A j \in Candidates(lines, id) : i <= j}

\* The emoji is not among the writer's markers, the cross is.
HasMarker(line) == line.mark \in {"check", "cross", "COMPLETE"}

Unmarked(lines, id) == {i \in Found(lines, id) : ~ HasMarker(lines[i])}

\* The plan in the current directory, whatever the project, before that of the
\* project.
PlanOf(p) == IF Here # NoProject THEN Here ELSE p

-----------------------------------------------------------------------------
RowStatus == {"pending", "in_progress", "completed"}
Row == [status : RowStatus, stable : Stable, project : Project]

NoId == [num |-> 0, key |-> NoKey, wording |-> CHOOSE w \in Wording : TRUE]
Idle == [at |-> "idle", project |-> NoProject, id |-> NoId, copy |-> <<>>, line |-> 0,
         todo |-> {}]

Init ==
  /\ file = FirstPlans /\ buffer = FirstPlans
  /\ row = [id \in {} |-> Idle]
  /\ job = {}
  /\ lock = [p \in Project |-> Nobody]
  /\ frame = [s \in Proc |-> Idle]
  /\ edits \in Habits
  /\ earned = UNION {ShownIn(FirstPlans[p]) : p \in Project}
  /\ told = {}
-----------------------------------------------------------------------------
(* sync_tasks_from_fix_plan *)

At(s, where) == frame[s].at = where

SyncRead(s, p) ==
  /\ At(s, "idle") /\ s \in Syncers
  /\ frame' = [frame EXCEPT ![s] = [Idle EXCEPT !.at = "sync", !.project = p,
                                               !.copy = file[p], !.line = 1]]
  /\ UNCHANGED <<file, buffer, row, job, lock, earned, told, edits>>

\* The row of a heading, known by its id: a tick completes it, nothing reopens it.
Matched(old, line, stable) ==
  [old EXCEPT !.stable = stable, !.status = IF Shown(line) THEN "completed" ELSE @]

\* Mutant of NewRow: a ticked heading is written as "done".
NewRowDone(line, stable, p) ==
  [status |-> IF Shown(line) THEN "done" ELSE "pending", stable |-> stable,
   project |-> p]

NewRow(line, stable, p) ==
  [status |-> IF Shown(line) THEN "completed" ELSE "pending", stable |-> stable,
   project |-> p]

\* The table with the row of one id given to another.
Renamed(old, new) ==
  [id \in (DOMAIN row \ {old}) \cup {new} |-> IF id = new THEN row[old] ELSE row[id]]

\* Mutant of Namesakes: only the section is compared.
NamesakesOfSection(stable) == {id \in DOMAIN row : row[id].stable[1] = stable[1]}

\* Rows of this stable id, in whatever project.
Namesakes(stable) == {id \in DOMAIN row : row[id].stable = stable}

\* One heading: its row by task_id, else any row by stable_id, which is renamed,
\* else a new one.
SyncTask(lines, i, p) ==
  LET id == IdOf(lines, i)
      stable == StableOf(lines, i)
  IN  \/ /\ id \in DOMAIN row
         /\ row' = [row EXCEPT ![id] = Matched(@, lines[i], stable)]
      \/ /\ id \notin DOMAIN row
         /\ \E old \in Namesakes(stable) :
              row' = [Renamed(old, id) EXCEPT ![id] = Matched(@, lines[i], stable)]
      \/ /\ id \notin DOMAIN row /\ Namesakes(stable) = {}
         /\ row' = [x \in DOMAIN row \cup {id} |->
                       IF x = id THEN NewRow(lines[i], stable, p) ELSE row[x]]

SyncLine(s) ==
  /\ At(s, "sync")
  /\ LET f == frame[s]
     IN  \/ /\ f.line \in DOMAIN f.copy
            /\ IF IsTask(f.copy, f.line) THEN SyncTask(f.copy, f.line, f.project)
               ELSE UNCHANGED row
            /\ frame' = [frame EXCEPT ![s].line = @ + 1]
         \/ /\ f.line \notin DOMAIN f.copy
            /\ frame' = [frame EXCEPT ![s] = Idle]
            /\ UNCHANGED row
  /\ UNCHANGED <<file, buffer, job, lock, earned, told, edits>>

-----------------------------------------------------------------------------
(* claim_task, complete_task: what this module needs of them *)

ClaimTask(id) ==
  /\ id \in DOMAIN row /\ row[id].status = "pending"
  /\ row' = [row EXCEPT ![id].status = "in_progress"]
  /\ job' = job \cup {id}
  /\ UNCHANGED <<file, buffer, lock, frame, earned, told, edits>>

InProgress == {id \in DOMAIN row : row[id].status = "in_progress"}

\* A worker reports success under the id it was given.  A row that has been
\* renamed meanwhile is not found, a completed one left alone.
CompleteTask(s, id) ==
  /\ At(s, "idle") /\ id \in job
  /\ job' = job \ {id}
  /\ \/ /\ id \in InProgress
        /\ row' = [row EXCEPT ![id].status = "completed"]
        /\ frame' = [frame EXCEPT ![s] = [Idle EXCEPT
                        !.at = "find", !.project = PlanOf(row[id].project), !.id = id]]
     \/ /\ id \notin InProgress
        /\ UNCHANGED <<row, frame>>
  /\ earned' = earned \cup {id.key}
  /\ UNCHANGED <<file, buffer, lock, told, edits>>

-----------------------------------------------------------------------------
(* update_task_completion_marker, called by a completion and by a reconcile *)

\* The call is over; a reconcile goes on with its next row.
Done(s) ==
  LET f == frame[s]
  IN  frame' = [frame EXCEPT ![s] =
        IF f.todo = {} THEN Idle
        ELSE [Idle EXCEPT !.at = "check", !.project = f.project, !.todo = f.todo]]

\* update_fix_plan_on_completion asks for the row first; it may have been renamed.
FindRow(s) ==
  /\ At(s, "find")
  /\ IF frame[s].id \in DOMAIN row THEN frame' = [frame EXCEPT ![s].at = "tick"]
     ELSE Done(s)
  /\ UNCHANGED <<file, buffer, row, job, lock, earned, told, edits>>

\* Mutant of TickRead: the plan is read without the lock.
TickReadUnlocked(s) ==
  /\ At(s, "tick")
  /\ LET f == frame[s]
         lines == file[f.project]
     IN  \/ \E i \in Unmarked(lines, f.id) :
              frame' = [frame EXCEPT ![s].at = "write", ![s].copy = lines, ![s].line = i]
         \/ Unmarked(lines, f.id) = {} /\ Done(s)
  /\ UNCHANGED <<file, buffer, row, job, lock, earned, told, edits>>

\* With the lock held: no line, or one with a marker, and the call is over.
TickRead(s) ==
  /\ At(s, "tick") /\ lock[frame[s].project] = Nobody
  /\ LET f == frame[s]
         lines == file[f.project]
     IN  \/ \E i \in Unmarked(lines, f.id) :
              /\ lock' = [lock EXCEPT ![f.project] = s]
              /\ frame' = [frame EXCEPT ![s].at = "write", ![s].copy = lines, ![s].line = i]
         \/ Unmarked(lines, f.id) = {} /\ Done(s) /\ UNCHANGED lock
  /\ UNCHANGED <<file, buffer, row, job, earned, told, edits>>

\* The lock ends with the call or the process.
Unlocked(s) == [p \in Project |-> IF lock[p] = s THEN Nobody ELSE lock[p]]

\* The temporary file is moved over the plan, or could not be written.
TickWrite(s) ==
  /\ At(s, "write")
  /\ LET f == frame[s]
     IN  \/ /\ file' = [file EXCEPT ![f.project] = [f.copy EXCEPT ![f.line].mark = "check"]]
            /\ told' = told \cup {f.copy[f.line].key}
         \/ UNCHANGED <<file, told>>
  /\ lock' = Unlocked(s)
  /\ Done(s)
  /\ UNCHANGED <<buffer, row, job, earned, edits>>

-----------------------------------------------------------------------------
(* reconcile_completed_tasks: key R of the TUI, with or without a filter *)

Reconcile(s, filter) ==
  /\ At(s, "idle") /\ s \in Consoles
  /\ filter # NoProject \/ Here # NoProject
  /\ LET found == {id \in DOMAIN row : row[id].status = "completed"
                                      /\ filter \in {NoProject, row[id].project}}
     IN  /\ found # {}
         /\ frame' = [frame EXCEPT ![s] = [Idle EXCEPT
                         !.at = "check", !.project = PlanOf(filter), !.todo = found]]
  /\ UNCHANGED <<file, buffer, row, job, lock, earned, told, edits>>

\* check_task_marked_complete reads the plan without the lock; a commit that is
\* not found ends it for this row.
ReconcileCheck(s) ==
  /\ At(s, "check")
  /\ \E id \in frame[s].todo :
       LET f == frame[s]
           lines == file[f.project]
           marked == \E i \in Found(lines, id) : HasMarker(lines[i])
           left == f.todo \ {id}
       IN  \/ /\ ~ marked
              /\ frame' = [frame EXCEPT ![s].at = "tick", ![s].id = id, ![s].todo = left]
           \/ frame' = [frame EXCEPT ![s] = IF left = {} THEN Idle ELSE [f EXCEPT !.todo = left]]
  /\ UNCHANGED <<file, buffer, row, job, lock, earned, told, edits>>

Crash(s) ==
  /\ ~ At(s, "idle")
  /\ frame' = [frame EXCEPT ![s] = Idle]
  /\ lock' = Unlocked(s)
  /\ UNCHANGED <<file, buffer, row, job, earned, told, edits>>

-----------------------------------------------------------------------------
(* A user, or a worker's model, in an editor that knows of no lock.  All    *)
(* edits of a plan are made in one buffer: what two of them lose of each    *)
(* other's headings is a removal and an insertion here.                     *)

MayEdit(p, how) == how \in edits /\ ("heedless" \in edits \/ lock[p] = Nobody)

\* What is edited: the plan as it is, or as it was when it was opened.
Seen(p) == {file[p]} \cup IF "stale" \in edits THEN {buffer[p]} ELSE {}

Opens(p) ==
  /\ "stale" \in edits
  /\ buffer' = [buffer EXCEPT ![p] = file[p]]
  /\ UNCHANGED <<file, row, job, lock, frame, earned, told, edits>>

Saves(p, lines) ==
  /\ file' = [file EXCEPT ![p] = lines]
  /\ buffer' = [buffer EXCEPT ![p] = IF "stale" \in edits THEN lines ELSE @]

\* The new title has the old one's form and mark: no "complete", no tick or emoji
\* in it, no colon at its end, and no word the parser takes for a priority.
Reword(p, lines, i, w) ==
  /\ MayEdit(p, "reword") /\ i \in DOMAIN lines /\ lines[i].key # NoKey
  /\ Saves(p, [lines EXCEPT ![i].wording = w])
  /\ UNCHANGED <<row, job, lock, frame, earned, told, edits>>

UserTicks(p, lines, i) ==
  /\ MayEdit(p, "tick") /\ i \in DOMAIN lines /\ lines[i].key # NoKey
  /\ ~ Shown(lines[i])
  /\ \/ Saves(p, [lines EXCEPT ![i].mark = "emoji"])
     \/ lines[i].subs = "open" /\ Saves(p, [lines EXCEPT ![i].subs = "done"])
  /\ earned' = earned \cup {lines[i].key}
  /\ UNCHANGED <<row, job, lock, frame, told, edits>>

\* Something new: in no plan and no row.
New(line) ==
  /\ \A p \in Project : \A i \in DOMAIN file[p] : file[p][i].key # line.key
  /\ \A id \in DOMAIN row : id.key # line.key

Insert(p, lines, i, line) ==
  /\ New(line) /\ i \in 1 .. Len(lines) + 1
  /\ MayEdit(p, IF i > Len(lines) THEN "append" ELSE "insert")
  /\ Saves(p, SubSeq(lines, 1, i - 1) \o <<line>> \o SubSeq(lines, i, Len(lines)))
  /\ UNCHANGED <<row, job, lock, frame, earned, told, edits>>

RemoveLine(p, lines, i) ==
  /\ MayEdit(p, "remove") /\ i \in DOMAIN lines /\ lines[i].key # NoKey
  /\ Saves(p, SubSeq(lines, 1, i - 1) \o SubSeq(lines, i + 1, Len(lines)))
  /\ told' = told \ {lines[i].key}
  /\ UNCHANGED <<row, job, lock, frame, earned, edits>>

Edits(p, lines) ==
  \/ \E i \in DOMAIN lines :
       UserTicks(p, lines, i) \/ RemoveLine(p, lines, i) \/ \E w \in Wording : Reword(p, lines, i, w)
  \/ \E i \in 1 .. Len(lines) + 1, line \in Spare : Insert(p, lines, i, line)

Next ==
  \/ \E s \in Proc :
       \/ SyncLine(s) \/ FindRow(s) \/ TickRead(s) \/ TickWrite(s)
       \/ ReconcileCheck(s) \/ Crash(s) \/ Reconcile(s, NoProject)
       \/ \E p \in Project : SyncRead(s, p) \/ Reconcile(s, p)
       \/ \E id \in job : CompleteTask(s, id)
  \/ \E id \in DOMAIN row : ClaimTask(id)
  \/ \E p \in Project : Opens(p) \/ \E lines \in Seen(p) : Edits(p, lines)

Spec == Init /\ [][Next]_vars

-----------------------------------------------------------------------------
\* Types of the plans, the table and what each process keeps.
TypeOK ==
  /\ file \in [Project -> Seq(Line)] /\ buffer \in [Project -> Seq(Line)]
  /\ DOMAIN row \subseteq Id
  /\ row \in [DOMAIN row -> Row]
  /\ job \subseteq Id
  /\ lock \in [Project -> Proc \cup {Nobody}]
  /\ frame \in [Proc -> [at : {"idle", "sync", "find", "tick", "write", "check"},
                         project : Project \cup {NoProject}, id : Id,
                         copy : Seq(Line), line : Nat, todo : SUBSET Id]]
  /\ edits \subseteq EditKind
  /\ earned \subseteq Key \cup {NoKey} /\ told \subseteq Key \cup {NoKey}

\* No heading moves to another's place: headings are reworded, ticked, appended.
InPlace == edits \subseteq {"reword", "tick", "append", "stale"}

\* A completed row is one whose worker reported success or whose heading a user
\* ticked: neither a rename by stable id (sync_tasks_from_fix_plan) nor a tick of
\* the writer on another heading, read back by the next sync, completes a task
\* nobody has worked on, while headings keep their places.
CompletedForReason ==
  InPlace => \A id \in DOMAIN row : row[id].status = "completed" => id.key \in earned

\* What the writer has ticked stays ticked until a user removes it: writers that
\* read, compute and move the file over, in any number, never lose a tick (the lock
\* file of update_task_completion_marker), nor do editors that save what they have
\* just read.
TicksSurvive ==
  "stale" \notin edits =>
    \A p \in Project : \A i \in DOMAIN file[p] :
      file[p][i].key \in told => Shown(file[p][i])

\* The same of editors that save what they have read some time ago.  The code does
\* not satisfy it: their save brings the heading back without its tick.
TicksSurviveSaves ==
  \A p \in Project : \A i \in DOMAIN file[p] :
    file[p][i].key \in told => Shown(file[p][i])

\* A sync that is alone takes no row away from a heading it has dealt with: its
\* later renames find rows of other stable ids only, because each row it meets is
\* given the new one at once.
SyncCovers ==
  \A s \in Proc : At(s, "sync") =>
    \A i \in DOMAIN frame[s].copy :
      i < frame[s].line /\ IsTask(frame[s].copy, i) => IdOf(frame[s].copy, i) \in DOMAIN row

\* The heading the writer is about to tick is that of the completed task, found by
\* the number in its id.  The code satisfies it only where headings have numbers of
\* their own: update_task_completion_marker "handles 3 task formats", but a number
\* the parser has counted is in front of no heading, or of another one.
RightHeading ==
  \A s \in Proc : At(s, "write") =>
    frame[s].copy[frame[s].line].key = frame[s].id.key

\* While headings keep their places, a row changes its id only when its title has
\* been reworded ("handles title renames", sync_tasks_from_fix_plan).
RenamesAreRewordings ==
  [][InPlace => \A id \in DOMAIN row \ DOMAIN row' :
       \E new \in DOMAIN row' \ DOMAIN row : new.key = id.key]_row
=============================================================================
