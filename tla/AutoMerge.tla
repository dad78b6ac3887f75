----------------------------- MODULE AutoMerge -----------------------------
(***************************************************************************)
(* Worktrees and automatic merges, git command by git command:             *)
(* worktree_manager.py and git_merge.py as claim_task, complete_task and   *)
(* the crash sweep of coordination.py call them.  Several processes do so  *)
(* at once in one checkout of the project, whose branch, index and files   *)
(* they share.  Coordination has the statements of these calls and takes   *)
(* a merge for one step; here the claim is one step and the merge is many. *)
(***************************************************************************)
EXTENDS Naturals, FiniteSets

CONSTANTS
  Ralph, Task,
  Session,      \* processes that claim, complete and sweep
  Strategy,     \* config.merge_strategy of each ralph
  UseWorktree,  \* ralphs whose config.use_worktree is set
  Sweepers,     \* sessions that look for crashed ralphs
  Clash,        \* pairs of authors whose changes touch the same lines
  Ignored,      \* the project's .gitignore names .worktrees
  Upstream,     \* the checkout has an origin that others push to
  Orderly,      \* no task is released while a call of its ralph is under way
  Stops,        \* hooks refuse, git times out, sessions are killed
  MaxWork,      \* bound on commits
  NoRalph, NoTask, Origin

Branch == Ralph \X Task
Author == Task \cup {Origin}
Work == Author \X Nat
Commit == [no : Nat, brings : SUBSET Work]

ASSUME AutoMergeAssumption ==
  /\ Strategy \in [Ralph -> {"auto", "fast-forward", "regular", "squash"}]
  /\ UseWorktree \subseteq Ralph /\ Sweepers \subseteq Session
  /\ Clash \subseteq Author \X Author
  /\ {Ignored, Upstream, Orderly, Stops} \subseteq BOOLEAN
  /\ MaxWork \in Nat
  /\ NoRalph \notin Ralph /\ NoTask \notin Task /\ Origin \notin Task

VARIABLES
  row,     \* task_claims: status, owner, and the ralph of worktree_path
  alive,   \* ralphs with a row that is not crashed
  tree,    \* the task whose branch is checked out in .worktrees/<ralph>
  dirty,   \* worktrees with uncommitted changes
  branch,  \* the commits of each ralph-<ralph>-<task> there is
  main,    \* the commits of main, checked out in the project
  index,   \* what a git command has left in the project's index
  litter,  \* changes in the project's files that are in no index
  count,   \* commits so far
  frame    \* what each session is in the middle of

git == <<tree, dirty, branch, main, index, litter, count>>
vars == <<row, alive, git, frame>>

\* merging: a conflict, MERGE_HEAD there; unmerged: one of a squash, without
\* it; halted: MERGE_HEAD, nothing in conflict; staged: changes, no MERGE_HEAD.
Kind == {"clean", "merging", "unmerged", "halted", "staged"}
Index(kind, of) == [kind |-> kind, of |-> of]
CleanIndex == Index("clean", {})
Unresolved == index.kind \in {"merging", "unmerged"}

Content(commits) == UNION {c.brings : c \in commits}
NewCommit(brings) == [no |-> count + 1, brings |-> brings]

Cleaner == {"create", "merged", "failed", "sweep"}
Idle == [at |-> "idle", ralph |-> NoRalph, task |-> NoTask, wt |-> NoRalph,
         for |-> "create", drop |-> NoTask, todo |-> {}, conflict |-> FALSE, owed |-> {}]

At(s, place) == frame[s].at = place
Goto(s, place) == frame' = [frame EXCEPT ![s].at = place]
Return(s) == frame' = [frame EXCEPT ![s] = Idle]

Init ==
  /\ row = [t \in Task |-> [status |-> "pending", owner |-> NoRalph, wt |-> NoRalph]]
  /\ alive = Ralph
  /\ tree = [r \in Ralph |-> NoTask] /\ dirty = {}
  /\ branch = [b \in {} |-> {}]
  /\ main = {} /\ index = CleanIndex /\ litter = FALSE /\ count = 0
  /\ frame = [s \in Session |-> Idle]

-----------------------------------------------------------------------------
(* create_worktree, called by claim_task *)

Busy(r) == \E s \in Session : frame[s].ralph = r
Holds(r, t) == row[t].status = "in_progress" /\ row[t].owner = r

\* A ralph without a task takes one (Fleet!OneClaimEach).
Claim(s, r, t) ==
  /\ At(s, "idle") /\ r \in alive /\ ~ Busy(r) /\ \A u \in Task : ~ Holds(r, u)
  /\ row[t].status = "pending"
  /\ row' = [row EXCEPT ![t].status = "in_progress", ![t].owner = r]
  /\ IF r \in UseWorktree
     THEN frame' = [frame EXCEPT ![s] = [Idle EXCEPT
                      !.at = "create", !.ralph = r, !.task = t, !.wt = r]]
     ELSE UNCHANGED frame
  /\ UNCHANGED <<alive, git>>

\* What an earlier task left in the directory is removed by force.
Create(s) ==
  /\ At(s, "create")
  /\ Goto(s, IF tree[frame[s].wt] = NoTask THEN "add" ELSE "remove")
  /\ UNCHANGED <<row, alive, git>>

\* git worktree add -b: a new branch at main.
Add(s) ==
  /\ At(s, "add")
  /\ LET r == frame[s].ralph
         t == frame[s].task
     IN  \/ /\ tree[r] = NoTask /\ <<r, t>> \notin DOMAIN branch
            /\ tree' = [tree EXCEPT ![r] = t]
            /\ branch' = [b \in DOMAIN branch \cup {<<r, t>>} |->
                            IF b = <<r, t>> THEN main ELSE branch[b]]
            /\ Goto(s, "record")
         \/ /\ tree[r] # NoTask \/ <<r, t>> \in DOMAIN branch
            /\ Goto(s, "add_old")
            /\ UNCHANGED <<tree, branch>>
  /\ UNCHANGED <<row, alive, dirty, main, index, litter, count>>

\* "already exists": once more, with the branch there is.
AddOld(s) ==
  /\ At(s, "add_old")
  /\ LET r == frame[s].ralph
         t == frame[s].task
     IN  \/ /\ tree[r] = NoTask /\ <<r, t>> \in DOMAIN branch
            /\ tree' = [tree EXCEPT ![r] = t]
            /\ Goto(s, "record")
         \/ /\ tree[r] # NoTask \/ <<r, t>> \notin DOMAIN branch
            /\ Return(s)
            /\ UNCHANGED tree
  /\ UNCHANGED <<row, alive, dirty, branch, main, index, litter, count>>

\* Mutant of RecordTree: a worktree on record is kept.
RecordTreeOnce(s) ==
  /\ At(s, "record")
  /\ row' = [row EXCEPT ![frame[s].task].wt = IF @ = NoRalph THEN frame[s].wt ELSE @]
  /\ Return(s)
  /\ UNCHANGED <<alive, git>>

\* WHERE task_id = ?, whoever holds the task by now.
RecordTree(s) ==
  /\ At(s, "record")
  /\ row' = [row EXCEPT ![frame[s].task].wt = frame[s].wt]
  /\ Return(s)
  /\ UNCHANGED <<alive, git>>

-----------------------------------------------------------------------------
(* cleanup_worktree *)

Forced(s) == frame[s].for # "merged"

\* Where its caller goes on: a failure matters to create_worktree only.
After(s, ok) ==
  CASE frame[s].for = "create" -> IF ok THEN Goto(s, "add") ELSE Return(s)
    [] frame[s].for = "merged" -> Return(s)
    [] frame[s].for = "failed" -> Goto(s, "release")
    [] frame[s].for = "sweep"  -> Goto(s, "sweep")

Clean(s, for) ==
  frame' = [frame EXCEPT ![s].at = IF for = "merged" THEN "status" ELSE "remove",
                         ![s].for = for]

\* git status --porcelain, unless forced.
Status(s) ==
  /\ At(s, "status")
  /\ IF frame[s].wt \in dirty THEN After(s, FALSE) ELSE Goto(s, "remove")
  /\ UNCHANGED <<row, alive, git>>

\* git worktree remove, which refuses uncommitted changes unless forced.  The
\* branch to delete is the one that is checked out.
Remove(s) ==
  /\ At(s, "remove")
  /\ LET w == frame[s].wt
     IN  \/ /\ tree[w] = NoTask
            /\ After(s, TRUE)
            /\ UNCHANGED <<tree, dirty>>
         \/ /\ tree[w] # NoTask /\ w \in dirty /\ ~ Forced(s)
            /\ After(s, FALSE)
            /\ UNCHANGED <<tree, dirty>>
         \/ /\ tree[w] # NoTask /\ (w \notin dirty \/ Forced(s))
            /\ tree' = [tree EXCEPT ![w] = NoTask]
            /\ dirty' = dirty \ {w}
            /\ frame' = [frame EXCEPT ![s].at = "drop", ![s].drop = tree[w]]
  /\ UNCHANGED <<row, alive, branch, main, index, litter, count>>

\* git branch -D, which refuses a branch that is checked out again.
Drop(s) ==
  /\ At(s, "drop")
  /\ LET w == frame[s].wt
         t == frame[s].drop
     IN  branch' = [b \in {c \in DOMAIN branch : c = <<w, t>> => tree[w] = t} |-> branch[b]]
  /\ After(s, TRUE)
  /\ UNCHANGED <<row, alive, tree, dirty, main, index, litter, count>>

-----------------------------------------------------------------------------
(* complete_task and attempt_merge *)

\* The bookkeeping of a completion is in Coordination.
Complete(s, r, t) ==
  /\ At(s, "idle") /\ Holds(r, t) /\ ~ Busy(r)
  /\ row' = [row EXCEPT ![t].status = "completed"]
  /\ frame' = [frame EXCEPT ![s] = [Idle EXCEPT !.at = "read", !.ralph = r, !.task = t]]
  /\ UNCHANGED <<alive, git>>

Merged(s) == <<frame[s].wt, frame[s].task>>

\* get_task_claim after the UPDATE.
ReadRow(s) ==
  /\ At(s, "read")
  /\ LET t == frame[s].task
         w == row[t].wt
     IN  IF w = NoRalph THEN Return(s)
         ELSE frame' = [frame EXCEPT ![s].at = "checkout", ![s].wt = w, ![s].owed =
                IF <<w, t>> \in DOMAIN branch THEN Content(branch[<<w, t>>]) ELSE {}]
  /\ UNCHANGED <<row, alive, git>>

\* Changes that main has already are none.
Staged(commits) ==
  IF Content(commits) \subseteq Content(main) THEN CleanIndex ELSE Index("staged", commits)

\* git checkout main, which an unresolved index refuses; on main already, it
\* forgets a MERGE_HEAD and keeps what is staged.
Checkout(s) ==
  /\ At(s, "checkout")
  /\ Goto(s, IF Unresolved THEN "failed" ELSE "pull")
  /\ index' = IF index.kind = "halted" THEN Staged(index.of) ELSE index
  /\ UNCHANGED <<row, alive, tree, dirty, branch, main, litter, count>>

FirstTry(strategy) ==
  CASE strategy \in {"auto", "fast-forward"} -> "ff"
    [] strategy = "regular" -> "noff"
    [] strategy = "squash" -> "squash"

\* git pull, whatever comes of it: it can fast-forward while main has nothing of
\* its own, and nothing is ever pushed.
Pull(s) ==
  /\ At(s, "pull")
  /\ \/ UNCHANGED <<main, count>>
     \/ /\ Upstream /\ index = CleanIndex /\ count < MaxWork
        /\ Content(main) \subseteq {Origin} \X Nat
        /\ main' = main \cup {NewCommit({<<Origin, count + 1>>})}
        /\ count' = count + 1
  /\ Goto(s, FirstTry(Strategy[frame[s].wt]))
  /\ UNCHANGED <<row, alive, tree, dirty, branch, index, litter>>

\* No merge starts with MERGE_HEAD or conflicts about, or without a branch.
Mergeable(b) == b \in DOMAIN branch /\ index.kind \in {"clean", "staged"}
UpToDate(b) == Mergeable(b) /\ branch[b] \subseteq main
Ahead(b) == Mergeable(b) /\ ~ branch[b] \subseteq main
Straight(b) == Ahead(b) /\ main \subseteq branch[b]

\* Files with changes that are not committed may be in the way of a merge.
InTheWay == litter \/ index.kind = "staged"

Conflicting(b) ==
  \E w \in Content(branch[b]) \ Content(main), v \in Content(main) \ Content(branch[b]) :
    <<w[1], v[1]>> \in Clash

Advance(s, commits, new) ==
  /\ main' = commits \cup new
  /\ count' = count + Cardinality(new)
  /\ Goto(s, "succeeded")

\* Mutant of FastForward: the return code is not looked at.
FastForwardUnchecked(s) ==
  /\ At(s, "ff")
  /\ Goto(s, "succeeded")
  /\ UNCHANGED <<row, alive, git>>

\* git merge --ff-only
FastForward(s) ==
  /\ At(s, "ff")
  /\ LET b == Merged(s)
         next == IF Strategy[frame[s].wt] = "auto" THEN "noff" ELSE "failed"
     IN  \/ /\ UpToDate(b)
            /\ Goto(s, "succeeded")
            /\ UNCHANGED <<main, count>>
         \/ /\ Straight(b)
            /\ Advance(s, branch[b], {})
         \/ /\ ~ UpToDate(b) /\ (~ Straight(b) \/ InTheWay)
            /\ Goto(s, next)
            /\ UNCHANGED <<main, count>>
  /\ UNCHANGED <<row, alive, tree, dirty, branch, index, litter>>

\* git merge --no-ff: a commit that brings nothing of its own.  A hook that
\* refuses it leaves MERGE_HEAD and no conflict.
MergeCommit(s) ==
  /\ At(s, "noff")
  /\ LET b == Merged(s)
     IN  \/ /\ UpToDate(b)
            /\ Goto(s, "succeeded")
            /\ UNCHANGED <<main, index, count>>
         \/ /\ Ahead(b) /\ index = CleanIndex /\ ~ Conflicting(b)
            /\ Advance(s, main \cup branch[b], {NewCommit({})})
            /\ UNCHANGED index
         \/ /\ Ahead(b) /\ index = CleanIndex
            /\ \/ Conflicting(b) /\ index' = Index("merging", branch[b])
               \/ Stops /\ ~ Conflicting(b) /\ index' = Index("halted", branch[b])
            /\ Goto(s, "detect")
            /\ UNCHANGED <<main, count>>
         \/ /\ ~ UpToDate(b) /\ (~ Mergeable(b) \/ InTheWay)
            /\ Goto(s, "detect")
            /\ UNCHANGED <<main, index, count>>
  /\ UNCHANGED <<row, alive, tree, dirty, branch, litter>>

\* git merge --squash
Squash(s) ==
  /\ At(s, "squash")
  /\ LET b == Merged(s)
     IN  \/ /\ UpToDate(b)
            /\ Goto(s, "commit")
            /\ UNCHANGED index
         \/ /\ Ahead(b) /\ ~ Conflicting(b)
            /\ index.kind = "clean" \/ Straight(b)
            /\ index' = Staged(index.of \cup (branch[b] \ main))
            /\ Goto(s, "commit")
         \/ /\ Ahead(b) /\ index = CleanIndex /\ Conflicting(b)
            /\ index' = Index("unmerged", branch[b])
            /\ Goto(s, "detect")
         \/ /\ ~ UpToDate(b) /\ (~ Mergeable(b) \/ InTheWay)
            /\ Goto(s, "detect")
            /\ UNCHANGED index
  /\ UNCHANGED <<row, alive, tree, dirty, branch, main, litter, count>>

\* git says "nothing to commit" of a checkout with no changes and no untracked
\* files: with either it says "no changes added" or "nothing added".
NothingToCommit ==
  /\ index = CleanIndex /\ ~ litter
  /\ Ignored \/ \A r \in Ralph : tree[r] = NoTask

\* git commit, of whatever is staged, and of a merge if there is MERGE_HEAD.
SquashCommit(s) ==
  /\ At(s, "commit")
  /\ \/ /\ index.kind \in {"staged", "halted"}
        /\ Advance(s, main \cup IF index.kind = "halted" THEN index.of ELSE {},
                   {NewCommit(Content(index.of))})
        /\ index' = CleanIndex
     \/ /\ NothingToCommit
        /\ Goto(s, "succeeded")
        /\ UNCHANGED <<main, index, count>>
     \/ /\ (index = CleanIndex /\ ~ NothingToCommit) \/ Unresolved \/ Stops
        /\ Goto(s, "reset")
        /\ UNCHANGED <<main, index, count>>
  /\ UNCHANGED <<row, alive, tree, dirty, branch, litter>>

\* git diff --diff-filter=U, which a session's own merge has left, or another's.
DetectConflicts(s) ==
  /\ At(s, "detect")
  /\ LET next == IF Strategy[frame[s].wt] = "squash" THEN "reset" ELSE "abort"
     IN  frame' = [frame EXCEPT ![s].at = IF Unresolved THEN next ELSE "failed",
                                ![s].conflict = Unresolved]
  /\ UNCHANGED <<row, alive, git>>

\* Mutant of Abort: the merge is left as it is.
AbortNot(s) ==
  /\ At(s, "abort")
  /\ Goto(s, "failed")
  /\ UNCHANGED <<row, alive, git>>

\* git merge --abort, which needs MERGE_HEAD.
Abort(s) ==
  /\ At(s, "abort")
  /\ index' = IF index.kind \in {"merging", "halted"} THEN CleanIndex ELSE index
  /\ Goto(s, "failed")
  /\ UNCHANGED <<row, alive, tree, dirty, branch, main, litter, count>>

\* git reset HEAD: the index only; the files keep the changes and the markers.
ResetHead(s) ==
  /\ At(s, "reset")
  /\ index' = CleanIndex
  /\ litter' = (litter \/ index # CleanIndex)
  /\ Goto(s, "failed")
  /\ UNCHANGED <<row, alive, tree, dirty, branch, main, count>>

\* merge_status = 'merged', then the worktree unless it has changes.
Succeeded(s) ==
  /\ At(s, "succeeded")
  /\ Clean(s, "merged")
  /\ UNCHANGED <<row, alive, git>>

\* Whatever failed: the worktree and the branch by force, then the task.
Failed(s) ==
  /\ At(s, "failed")
  /\ Clean(s, "failed")
  /\ UNCHANGED <<row, alive, git>>

Relinquished(claim) == [claim EXCEPT !.status = "pending", !.owner = NoRalph]

ReleaseFailed(s) ==
  /\ At(s, "release")
  /\ row' = [row EXCEPT ![frame[s].task] = Relinquished(@)]
  /\ Return(s)
  /\ UNCHANGED <<alive, git>>

-----------------------------------------------------------------------------
(* mark_stale_instances_crashed, cleanup_stale_worktrees *)

MarkCrashed(s, r) ==
  /\ At(s, "idle") /\ s \in Sweepers /\ r \in alive
  /\ Orderly => ~ Busy(r)
  /\ alive' = alive \ {r}
  /\ row' = [t \in Task |-> IF Holds(r, t) THEN Relinquished(row[t]) ELSE row[t]]
  /\ Goto(s, "list")
  /\ UNCHANGED git

\* SELECT the rows that are not crashed.
SweepList(s) ==
  /\ At(s, "list")
  /\ frame' = [frame EXCEPT ![s].at = "dirs", ![s].todo = Ralph \ alive]
  /\ UNCHANGED <<row, alive, git>>

\* The directories of all other names.
SweepDirs(s) ==
  /\ At(s, "dirs")
  /\ frame' = [frame EXCEPT ![s].at = "sweep", ![s].todo = {r \in @ : tree[r] # NoTask}]
  /\ UNCHANGED <<row, alive, git>>

SweepNext(s) ==
  /\ At(s, "sweep")
  /\ \/ \E r \in frame[s].todo :
          frame' = [frame EXCEPT ![s] = [Idle EXCEPT !.at = "remove", !.wt = r,
                                    !.for = "sweep", !.todo = frame[s].todo \ {r}]]
     \/ frame[s].todo = {} /\ Return(s)
  /\ UNCHANGED <<row, alive, git>>

-----------------------------------------------------------------------------
(* Other calls, the workers in their worktrees, and what may go wrong. *)

Register(r) ==
  /\ r \notin alive
  /\ alive' = alive \cup {r}
  /\ UNCHANGED <<row, git, frame>>

\* Failed, released, or claimed by another after its lease has lapsed.
Release(t) ==
  /\ row[t].status = "in_progress"
  /\ Orderly => ~ Busy(row[t].owner)
  /\ row' = [row EXCEPT ![t] = Relinquished(@)]
  /\ UNCHANGED <<alive, git, frame>>

\* The branch of a task in progress.
WorkerEdits(r, t) ==
  /\ tree[r] = t /\ row[t].status = "in_progress"
  /\ dirty' = dirty \cup {r}
  /\ UNCHANGED <<row, alive, tree, branch, main, index, litter, count, frame>>

WorkerCommits(r, t) ==
  /\ tree[r] = t /\ row[t].status = "in_progress" /\ <<r, t>> \in DOMAIN branch
  /\ count < MaxWork
  /\ branch' = [branch EXCEPT ![<<r, t>>] = @ \cup {NewCommit({<<t, count + 1>>})}]
  /\ count' = count + 1
  /\ dirty' = dirty \ {r}
  /\ UNCHANGED <<row, alive, tree, main, index, litter, frame>>

\* A git command that times out, before or after it has done its work, ends
\* attempt_merge without another look, and a cleanup or a creation likewise.
Merging == {"checkout", "pull", "ff", "noff", "squash", "commit", "abort", "reset", "succeeded"}
TimesOut(s) ==
  /\ Stops
  /\ \/ frame[s].at \in Merging /\ Goto(s, "failed")
     \/ At(s, "detect") /\ Goto(s, "failed")
     \/ frame[s].at \in {"status", "remove", "drop"} /\ After(s, FALSE)
     \/ frame[s].at \in {"add", "add_old"} /\ Return(s)
  /\ UNCHANGED <<row, alive, git>>

Killed(s) ==
  /\ Stops /\ ~ At(s, "idle")
  /\ Return(s)
  /\ UNCHANGED <<row, alive, git>>

Next ==
  \/ \E s \in Session :
       \/ Create(s) \/ Add(s) \/ AddOld(s) \/ RecordTree(s)
       \/ Status(s) \/ Remove(s) \/ Drop(s)
       \/ ReadRow(s) \/ Checkout(s) \/ Pull(s) \/ FastForward(s) \/ MergeCommit(s)
       \/ Squash(s) \/ SquashCommit(s) \/ DetectConflicts(s) \/ Abort(s) \/ ResetHead(s)
       \/ Succeeded(s) \/ Failed(s) \/ ReleaseFailed(s)
       \/ SweepList(s) \/ SweepDirs(s) \/ SweepNext(s) \/ TimesOut(s) \/ Killed(s)
       \/ \E r \in Ralph :
            \/ MarkCrashed(s, r)
            \/ \E t \in Task : Claim(s, r, t) \/ Complete(s, r, t)
  \/ \E r \in Ralph : Register(r) \/ \E t \in Task : WorkerEdits(r, t) \/ WorkerCommits(r, t)
  \/ \E t \in Task : Release(t)

Spec == Init /\ [][Next]_vars
-----------------------------------------------------------------------------
\* Types of the table, the repository and what the sessions keep.
TypeOK ==
  /\ row \in [Task -> [status : {"pending", "in_progress", "completed"},
                       owner : Ralph \cup {NoRalph}, wt : Ralph \cup {NoRalph}]]
  /\ alive \subseteq Ralph
  /\ tree \in [Ralph -> Task \cup {NoTask}] /\ dirty \subseteq Ralph
  /\ DOMAIN branch \subseteq Branch
  /\ \A b \in DOMAIN branch : branch[b] \subseteq Commit
  /\ main \subseteq Commit /\ count \in Nat /\ litter \in BOOLEAN
  /\ index.kind \in Kind /\ index.of \subseteq Commit
  /\ DOMAIN frame = Session
  /\ \A s \in Session :
       /\ frame[s].ralph \in Ralph \cup {NoRalph} /\ frame[s].wt \in Ralph \cup {NoRalph}
       /\ frame[s].task \in Task \cup {NoTask} /\ frame[s].drop \in Task \cup {NoTask}
       /\ frame[s].for \in Cleaner /\ frame[s].todo \subseteq Ralph
       /\ frame[s].conflict \in BOOLEAN /\ frame[s].owed \subseteq Work

\* A merge that is reported as a success has everything of the branch in main,
\* also a squash that found nothing to commit because another session's commit
\* had taken what it staged (attempt_merge).
SuccessInMain ==
  \A s \in Session : At(s, "succeeded") => frame[s].owed \subseteq Content(main)

\* The project's checkout is in the middle of a merge only while a session is
\* there to end it: no call returns and leaves it so (git merge --abort).
CheckoutAttended ==
  index # CleanIndex => \E s \in Session : frame[s].at \in {"detect", "abort", "commit", "reset"}

\* A worktree removed after a success takes no commit with it that main lacks,
\* although the branch deleted is whatever is checked out there by then
\* (cleanup_worktree without force).
NothingDropped ==
  \A s \in Session :
    LET b == <<frame[s].wt, frame[s].drop>>
    IN  At(s, "drop") /\ ~ Forced(s) /\ b \in DOMAIN branch
          => Content(branch[b]) \subseteq Content(main)

Working(r) == tree[r] # NoTask /\ Holds(r, tree[r]) /\ ~ Busy(r)

\* The worktree of a ralph that works on its task is left alone by every claim,
\* completion and cleanup of the others ("each Ralph works in isolation").
Isolation == [][\A r \in Ralph : Working(r) => tree'[r] = tree[r]]_vars

\* "Merge failed with conflicts - RELEASE TASK", has_conflict = 1.
OnlyConflictsRelease ==
  \A s \in Session : At(s, "release") => frame[s].conflict

\* "reset staged changes to leave repo clean"
ResetLeavesClean == ~ litter
=============================================================================
