------------------------- MODULE CoordinationProofs -------------------------
(***************************************************************************)
(* Theorems about Coordination, for every value of its constants: types,   *)
(* the shape of rows for every mix of calls, and, when one session does    *)
(* the completing, that the tables implement WorkQueue, that a recorded    *)
(* completion is final, single and merged, and that live claims are safe.  *)
(***************************************************************************)
EXTENDS Coordination, TLAPS

-----------------------------------------------------------------------------
(***************************************************************************)
(* The statements keep the rows well typed.                                *)
(***************************************************************************)

LEMMA GrantType ==
  ASSUME NEW row \in Claim, NEW r \in Ralph
  PROVE  Grant(row, r) \in Claim
<1>1. CLAIM_EXPIRY \in 0 .. CLAIM_EXPIRY
  BY TableAssumption
<1> QED BY <1>1 DEF Grant, Claim, ClaimStatus

LEMMA RelinquishType ==
  ASSUME NEW row \in Claim
  PROVE  Relinquish(row) \in Claim
BY DEF Relinquish, Claim, ClaimStatus

LEMMA ReleaseAllType ==
  ASSUME tc \in [Task -> Claim], NEW T
  PROVE  ReleaseAll(tc, T) \in [Task -> Claim]
BY RelinquishType DEF ReleaseAll

LEMMA NewClaimType ==
  ASSUME NEW status \in ClaimStatus
  PROVE  NewClaim(status) \in Claim
BY DEF NewClaim, Claim

LEMMA AgeClaimsType ==
  ASSUME tc \in [Task -> Claim]
  PROVE  AgeClaims(tc) \in [Task -> Claim]
<1> SUFFICES ASSUME NEW t \in Task, tc[t].lease # NULL, tc[t].lease # 0
             PROVE  [tc[t] EXCEPT !.lease = @ - 1] \in Claim
  BY DEF AgeClaims, Lapsed
<1>1. tc[t].lease \in 1 .. CLAIM_EXPIRY
  BY TableAssumption DEF Claim
<1>2. tc[t].lease - 1 \in 0 .. CLAIM_EXPIRY
  BY <1>1, TableAssumption
<1> QED BY <1>2 DEF Claim

LEMMA AgeInstancesType ==
  ASSUME ri \in [Ralph -> Instance]
  PROVE  AgeInstances(ri) \in [Ralph -> Instance]
<1> SUFFICES ASSUME NEW r \in Ralph, ri[r].age # HEARTBEAT_STALE
             PROVE  [ri[r] EXCEPT !.age = @ + 1] \in Instance
  BY DEF AgeInstances
<1> QED BY TableAssumption DEF Instance

LEMMA ActivateType ==
  ASSUME NEW row \in Instance
  PROVE  [row EXCEPT !.status = "active", !.age = 0] \in Instance
<1>1. 0 \in 0 .. HEARTBEAT_STALE
  BY TableAssumption
<1> QED BY <1>1 DEF Instance, InstanceStatus

LEMMA SetCurrentType ==
  ASSUME NEW ri0 \in [Ralph -> Instance], NEW r, NEW t \in Task \cup {NULL}
  PROVE  SetCurrent(ri0, r, t) \in [Ralph -> Instance]
BY DEF SetCurrent, Instance

LEMMA ClearOthersType ==
  ASSUME NEW ri0 \in [Ralph -> Instance], NEW r, NEW t
  PROVE  ClearOthers(ri0, t, r) \in [Ralph -> Instance]
BY DEF ClearOthers, Instance

LEMMA RetireType ==
  ASSUME ri \in [Ralph -> Instance], NEW rs, NEW status \in InstanceStatus
  PROVE  Retire(ri, rs, status) \in [Ralph -> Instance]
BY DEF Retire, Instance

LEMMA SetStatusType ==
  ASSUME ri \in [Ralph -> Instance], NEW rs, NEW status \in InstanceStatus
  PROVE  SetStatus(ri, rs, status) \in [Ralph -> Instance]
BY DEF SetStatus, Instance

-----------------------------------------------------------------------------
(***************************************************************************)
(* The frame operators keep the frames well typed.  FrameOK is the part of *)
(* TypeOK that is about frames.                                            *)
(***************************************************************************)

FrameOK ==
  /\ frame \in [Session -> Frame]
  /\ \A s \in Session :
       frame[s].at \in TaskCall => frame[s].r \in Ralph /\ frame[s].t \in Task

LEMMA IdleType == Idle \in Frame /\ Idle.at \notin TaskCall
BY DEF Idle, Frame, Label, ClaimStatus, TaskCall

LEMMA SetFrame ==
  ASSUME FrameOK, NEW s \in Session, NEW f \in Frame,
         f.at \in TaskCall => f.r \in Ralph /\ f.t \in Task,
         frame' = [frame EXCEPT ![s] = f]
  PROVE  FrameOK'
BY DEF FrameOK

LEMMA CallType ==
  ASSUME FrameOK, NEW s \in Session, NEW label \in Label, NEW r \in Ralph,
         NEW t \in Task \cup {NULL}, label \in TaskCall => t \in Task,
         Call(s, label, r, t)
  PROVE  FrameOK'
<1> DEFINE f == [Idle EXCEPT !.at = label, !.r = r, !.t = t]
<1>1. f \in Frame /\ f.at = label /\ f.r = r /\ f.t = t
  BY IdleType DEF Frame
<1>2. frame' = [frame EXCEPT ![s] = f]
  BY DEF Call
<1> QED BY <1>1, <1>2, SetFrame

LEMMA CallOnType ==
  ASSUME FrameOK, NEW s \in Session, NEW label \in Label \ TaskCall,
         NEW rs \in SUBSET Ralph, CallOn(s, label, rs)
  PROVE  FrameOK'
<1> DEFINE f == [Idle EXCEPT !.at = label, !.rs = rs]
<1>1. f \in Frame /\ f.at = label
  BY IdleType DEF Frame
<1>2. frame' = [frame EXCEPT ![s] = f]
  BY DEF CallOn
<1> QED BY <1>1, <1>2, SetFrame

\* A call for a task moves on to a statement for the same task, or to any
\* statement that is not about one task.
LEMMA GotoType ==
  ASSUME FrameOK, NEW s \in Session, NEW label \in Label,
         label \in TaskCall => frame[s].at \in TaskCall, Goto(s, label)
  PROVE  FrameOK'
<1> DEFINE f == [frame[s] EXCEPT !.at = label]
<1>1. f \in Frame /\ f.at = label /\ f.r = frame[s].r /\ f.t = frame[s].t
  BY DEF Frame, FrameOK
<1>2. frame' = [frame EXCEPT ![s] = f]
  BY DEF Goto
<1>3. f.at \in TaskCall => f.r \in Ralph /\ f.t \in Task
  BY <1>1 DEF FrameOK
<1> QED BY <1>1, <1>2, <1>3, SetFrame

LEMMA GotoWithType ==
  ASSUME FrameOK, NEW s \in Session, NEW label \in Label, NEW rs \in SUBSET Ralph,
         label \in TaskCall => frame[s].at \in TaskCall, GotoWith(s, label, rs)
  PROVE  FrameOK'
<1> DEFINE f == [frame[s] EXCEPT !.at = label, !.rs = rs]
<1>1. f \in Frame /\ f.at = label /\ f.r = frame[s].r /\ f.t = frame[s].t
  BY DEF Frame, FrameOK
<1>2. frame' = [frame EXCEPT ![s] = f]
  BY DEF GotoWith
<1>3. f.at \in TaskCall => f.r \in Ralph /\ f.t \in Task
  BY <1>1 DEF FrameOK
<1> QED BY <1>1, <1>2, <1>3, SetFrame

LEMMA ReturnType ==
  ASSUME FrameOK, NEW s \in Session, NEW ok \in BOOLEAN, Return(s, ok)
  PROVE  FrameOK'
<1> DEFINE f == [Idle EXCEPT !.ok = ok]
<1>1. f \in Frame /\ f.at \notin TaskCall
  BY IdleType DEF Frame
<1>2. frame' = [frame EXCEPT ![s] = f]
  BY DEF Return
<1> QED BY <1>1, <1>2, SetFrame

LEMMA ReturnTaskType ==
  ASSUME FrameOK, NEW s \in Session, NEW t \in Task, ReturnTask(s, t)
  PROVE  FrameOK'
<1> DEFINE f == [Idle EXCEPT !.ok = TRUE, !.t = t]
<1>1. f \in Frame /\ f.at \notin TaskCall
  BY IdleType DEF Frame
<1>2. frame' = [frame EXCEPT ![s] = f]
  BY DEF ReturnTask
<1> QED BY <1>1, <1>2, SetFrame

-----------------------------------------------------------------------------
(***************************************************************************)
(* Type correctness, one lemma per group of actions.                       *)
(***************************************************************************)

\* The part of TypeOK that is about the database, git and the fix plan.
DataOK ==
  /\ tc \in [Task -> Claim]
  /\ ri \in [Ralph -> Instance]
  /\ trees \in [Ralph -> Task \cup {NULL}]
  /\ plan \subseteq Task
  /\ hist \in [Task -> 0 .. HistCap]

LEMMA TypeParts == TypeOK <=> DataOK /\ FrameOK
BY DEF TypeOK, DataOK, FrameOK

LEMMA TypePartsPrime == TypeOK' <=> DataOK' /\ FrameOK'
BY DEF TypeOK, DataOK, FrameOK

LEMMA RecordType ==
  ASSUME hist \in [Task -> 0 .. HistCap], NEW t, Record(t)
  PROVE  hist' \in [Task -> 0 .. HistCap]
<1>1. \A n \in 0 .. HistCap : (IF n < HistCap THEN n + 1 ELSE n) \in 0 .. HistCap
  BY SessionAssumption
<1> QED BY <1>1 DEF Record

\* Calls that claim, extend, fail, release, archive or requeue one task.
LEMMA ClaimTypes ==
  ASSUME TypeOK, NEW s \in Session,
         \/ \E r \in Ralph : ClaimTask(s, r)
         \/ ClaimClearOthers(s) \/ ClaimWorktree(s) \/ ClaimSetCurrent(s)
         \/ \E r \in Ralph, t \in Task :
              ExtendClaim(s, r, t) \/ FailTask(s, r, t) \/ ReleaseClaim(s, r, t)
         \/ FailSetCurrent(s) \/ ReleaseSetCurrent(s)
         \/ \E t \in Task : ArchiveTask(s, t) \/ BulkRequeue(s, t)
  PROVE  TypeOK'
<1> USE TypeParts, TypePartsPrime DEF DataOK
<1> USE DEF Label, TaskCall
<1>1. ASSUME NEW r \in Ralph, ClaimTask(s, r)  PROVE TypeOK'
  <2>1. CASE \E t \in First(ClaimableTasks(tc)) :
               /\ tc' = [tc EXCEPT ![t] = Grant(@, r)]
               /\ Call(s, "claim.clear_others", r, t)
    <3>1. PICK t \in Task : /\ tc' = [tc EXCEPT ![t] = Grant(@, r)]
                            /\ Call(s, "claim.clear_others", r, t)
      BY <2>1 DEF First, ClaimableTasks
    <3>2. tc' \in [Task -> Claim]
      BY <3>1, GrantType
    <3>3. FrameOK'
      BY <3>1, CallType
    <3> QED BY <1>1, <3>2, <3>3 DEF ClaimTask
  <2>2. CASE Return(s, FALSE) /\ UNCHANGED tc
    BY <1>1, <2>2, ReturnType DEF ClaimTask
  <2> QED BY <1>1, <2>1, <2>2 DEF ClaimTask
<1>2. ASSUME ClaimClearOthers(s)  PROVE TypeOK'
  BY <1>2, GotoType, ClearOthersType DEF ClaimClearOthers, At
<1>3. ASSUME ClaimWorktree(s)  PROVE TypeOK'
  <2>1. frame[s].r \in Ralph /\ frame[s].t \in Task
    BY <1>3 DEF ClaimWorktree, At, FrameOK
  <2>2. [tc EXCEPT ![frame[s].t].wt = frame[s].r] \in [Task -> Claim]
    BY <2>1 DEF Claim
  <2>3. tc' \in [Task -> Claim] /\ trees' \in [Ralph -> Task \cup {NULL}]
    BY <1>3, <2>1, <2>2 DEF ClaimWorktree
  <2>4. FrameOK'
    BY <1>3, GotoType DEF ClaimWorktree, At
  <2> QED BY <1>3, <2>3, <2>4 DEF ClaimWorktree
<1>4. ASSUME ClaimSetCurrent(s)  PROVE TypeOK'
  <2>1. frame[s].t \in Task
    BY <1>4 DEF ClaimSetCurrent, At, FrameOK
  <2> QED BY <1>4, <2>1, SetCurrentType, ReturnTaskType DEF ClaimSetCurrent
<1>5. ASSUME NEW r \in Ralph, NEW t \in Task, ExtendClaim(s, r, t)  PROVE TypeOK'
  <2>1. CLAIM_EXPIRY \in 0 .. CLAIM_EXPIRY
    BY TableAssumption
  <2>2. [tc EXCEPT ![t].lease = CLAIM_EXPIRY] \in [Task -> Claim]
    BY <2>1 DEF Claim
  <2> QED BY <1>5, <2>2, ReturnType DEF ExtendClaim
<1>6. ASSUME NEW r \in Ralph, NEW t \in Task, FailTask(s, r, t)  PROVE TypeOK'
  <2>1. [tc EXCEPT ![t].status = "failed"] \in [Task -> Claim]
    BY DEF Claim, ClaimStatus
  <2> QED BY <1>6, <2>1, CallType, ReturnType DEF FailTask
<1>7. ASSUME NEW r \in Ralph, NEW t \in Task, ReleaseClaim(s, r, t)  PROVE TypeOK'
  <2>1. [tc EXCEPT ![t] = Relinquish(@)] \in [Task -> Claim]
    BY RelinquishType
  <2> QED BY <1>7, <2>1, CallType, ReturnType DEF ReleaseClaim
<1>8. ASSUME FailSetCurrent(s)  PROVE TypeOK'
  BY <1>8, SetCurrentType, ReturnType DEF FailSetCurrent
<1>9. ASSUME ReleaseSetCurrent(s)  PROVE TypeOK'
  BY <1>9, SetCurrentType, ReturnType DEF ReleaseSetCurrent
<1>10. ASSUME NEW t \in Task, ArchiveTask(s, t)  PROVE TypeOK'
  <2>1. [tc EXCEPT ![t].status = "archived"] \in [Task -> Claim]
    BY DEF Claim, ClaimStatus
  <2> QED BY <1>10, <2>1, ReturnType DEF ArchiveTask
<1>11. ASSUME NEW t \in Task, BulkRequeue(s, t)  PROVE TypeOK'
  <2>1. [tc EXCEPT ![t].status = "pending", ![t].owner = NULL] \in [Task -> Claim]
    BY DEF Claim, ClaimStatus
  <2> QED BY <1>11, <2>1, ReturnType DEF BulkRequeue
<1> QED
  BY <1>1, <1>2, <1>3, <1>4, <1>5, <1>6, <1>7, <1>8, <1>9, <1>10, <1>11

\* complete_task.
LEMMA CompleteTypes ==
  ASSUME TypeOK, NEW s \in Session,
         \/ \E r \in Ralph, t \in Task : CompleteTask(s, r, t)
         \/ CompleteUpdate(s) \/ CompleteMerge(s) \/ CompleteMarkMerged(s)
         \/ CompleteHistory(s) \/ CompleteSetCurrent(s) \/ CompleteFixPlan(s)
         \/ CompleteUnwind(s) \/ CompleteUnwindCurrent(s)
  PROVE  TypeOK'
<1> USE TypeParts, TypePartsPrime DEF DataOK
<1> USE DEF Label, TaskCall
<1>1. ASSUME NEW r \in Ralph, NEW t \in Task, CompleteTask(s, r, t)  PROVE TypeOK'
  BY <1>1, CallType, ReturnType DEF CompleteTask
<1>2. ASSUME CompleteUpdate(s)  PROVE TypeOK'
  <2>1. [tc EXCEPT ![frame[s].t].status = "completed"] \in [Task -> Claim]
    BY DEF Claim, ClaimStatus
  <2> QED BY <1>2, <2>1, GotoType, ReturnType DEF CompleteUpdate, At
<1>3. ASSUME CompleteMerge(s)  PROVE TypeOK'
  <2>1. trees' \in [Ralph -> Task \cup {NULL}]
    BY <1>3 DEF CompleteMerge
  <2>2. FrameOK'
    <3>1. CASE \E label \in {"complete.history", "complete.unwind"} : Goto(s, label)
      BY <1>3, <3>1, GotoType DEF CompleteMerge, At
    <3>2. CASE /\ tc[frame[s].t].wt # NULL
               /\ GotoWith(s, "complete.mark_merged", {tc[frame[s].t].wt})
      <4>1. frame[s].t \in Task
        BY <1>3 DEF CompleteMerge, At, FrameOK
      <4>2. {tc[frame[s].t].wt} \in SUBSET Ralph
        BY <3>2, <4>1 DEF Claim
      <4> QED BY <1>3, <3>2, <4>2, GotoWithType DEF CompleteMerge, At
    <3> QED BY <1>3, <3>1, <3>2 DEF CompleteMerge
  <2> QED BY <1>3, <2>1, <2>2 DEF CompleteMerge
<1>4. ASSUME CompleteMarkMerged(s)  PROVE TypeOK'
  <2>1. [tc EXCEPT ![frame[s].t].merged = TRUE] \in [Task -> Claim]
    BY DEF Claim
  <2>2. trees' \in [Ralph -> Task \cup {NULL}]
    BY <1>4 DEF CompleteMarkMerged
  <2>3. FrameOK'
    BY <1>4, GotoType DEF CompleteMarkMerged, At
  <2> QED BY <1>4, <2>1, <2>2, <2>3 DEF CompleteMarkMerged
<1>5. ASSUME CompleteHistory(s)  PROVE TypeOK'
  BY <1>5, RecordType, GotoType DEF CompleteHistory, At
<1>6. ASSUME CompleteSetCurrent(s)  PROVE TypeOK'
  BY <1>6, SetCurrentType, GotoType DEF CompleteSetCurrent, At
<1>7. ASSUME CompleteFixPlan(s)  PROVE TypeOK'
  <2>1. frame[s].t \in Task
    BY <1>7 DEF CompleteFixPlan, At, FrameOK
  <2> QED BY <1>7, <2>1, ReturnType DEF CompleteFixPlan
<1>8. ASSUME CompleteUnwind(s)  PROVE TypeOK'
  <2>1. \A row \in Claim : [Relinquish(row) EXCEPT !.merged = FALSE] \in Claim
    BY RelinquishType DEF Claim
  <2>2. tc' \in [Task -> Claim]
    BY <1>8, <2>1 DEF CompleteUnwind
  <2> QED BY <1>8, <2>2, GotoType DEF CompleteUnwind, At
<1>9. ASSUME CompleteUnwindCurrent(s)  PROVE TypeOK'
  BY <1>9, SetCurrentType, ReturnType DEF CompleteUnwindCurrent
<1> QED
  BY <1>1, <1>2, <1>3, <1>4, <1>5, <1>6, <1>7, <1>8, <1>9

\* check_ralph_completions and the complete_and_claim_next inside it.
LEMMA CheckNextType ==
  ASSUME FrameOK, NEW s \in Session, NEW rows \in SUBSET (Ralph \X Task),
         CheckNext(s, rows)
  PROVE  FrameOK'
<1> DEFINE f == [Idle EXCEPT !.at = "check.row", !.rs = frame[s].rs, !.rows = rows]
<1> DEFINE g == [Idle EXCEPT !.ok = TRUE]
<1>1. f \in Frame /\ f.at \notin TaskCall
  <2>1. frame[s].rs \in SUBSET Ralph
    BY DEF FrameOK, Frame
  <2> QED BY <2>1, IdleType DEF Frame, Label, TaskCall
<1>2. g \in Frame /\ g.at \notin TaskCall
  BY IdleType DEF Frame
<1>3. frame' = [frame EXCEPT ![s] = f] \/ frame' = [frame EXCEPT ![s] = g]
  BY DEF CheckNext
<1> QED BY <1>1, <1>2, <1>3, SetFrame

LEMMA CheckEndsType ==
  ASSUME FrameOK, NEW s \in Session, NEW r \in Ralph, NEW t \in Task, NEW row,
         CheckEnds(s, r, t, row)
  PROVE  FrameOK'
<1> DEFINE left == frame[s].rows \ {<<r, t>>}
<1> DEFINE f == [frame[s] EXCEPT !.at = "check.clear", !.r = r, !.t = t, !.rows = left]
<1>1. frame[s] \in Frame /\ left \in SUBSET (Ralph \X Task)
  BY DEF Frame, FrameOK
<1>2. frame' = [frame EXCEPT ![s] = f]
  BY DEF CheckEnds
<1>3. f \in Frame /\ f.r = r /\ f.t = t
  <2> HIDE DEF left
  <2>1. "check.clear" \in Label
    BY DEF Label
  <2> QED BY <1>1, <2>1 DEF Frame
<1> QED BY <1>2, <1>3, SetFrame

LEMMA CompleteAndClaimNextTypes ==
  ASSUME TypeOK, NEW r \in Ralph, NEW t \in Task, CompleteAndClaimNext(r, t)
  PROVE  /\ tc' \in [Task -> Claim]
         /\ ri' \in [Ralph -> Instance]
         /\ hist' \in [Task -> 0 .. HistCap]
<1> USE TypeParts DEF DataOK
<1> DEFINE done == IF Holds(r, t) THEN [tc EXCEPT ![t].status = "completed"] ELSE tc
<1> DEFINE idle == SetCurrent(ri, r, NULL)
<1>1. done \in [Task -> Claim]
  BY DEF Claim, ClaimStatus
<1>2. idle \in [Ralph -> Instance]
  BY SetCurrentType
<1>3. hist' \in [Task -> 0 .. HistCap]
  BY RecordType DEF CompleteAndClaimNext
<1>4. ASSUME NEW n \in Task, tc' = [done EXCEPT ![n] = Grant(@, r)],
             ri' = SetCurrent(ClearOthers(idle, n, r), r, n)
      PROVE  tc' \in [Task -> Claim] /\ ri' \in [Ralph -> Instance]
  <2>1. tc' \in [Task -> Claim]
    BY <1>1, <1>4, GrantType
  <2>2. ri' \in [Ralph -> Instance]
    BY <1>2, <1>4, ClearOthersType, SetCurrentType
  <2> QED BY <2>1, <2>2
<1> QED BY <1>1, <1>2, <1>3, <1>4 DEF CompleteAndClaimNext, First, PendingTasks

LEMMA CheckTypes ==
  ASSUME TypeOK, NEW s \in Session,
         \/ \E running \in SUBSET Ralph : CheckCompletions(s, running)
         \/ CheckExtend(s) \/ CheckRead(s) \/ CheckRow(s) \/ CheckClear(s)
  PROVE  TypeOK'
<1> USE TypeParts, TypePartsPrime DEF DataOK
<1>1. ASSUME NEW running \in SUBSET Ralph, CheckCompletions(s, running)  PROVE TypeOK'
  <2>1. \A row \in Instance : [row EXCEPT !.age = 0] \in Instance
    BY TableAssumption DEF Instance
  <2>2. ri' \in [Ralph -> Instance]
    BY <1>1, <2>1 DEF CheckCompletions
  <2>3. "check.extend" \in Label \ TaskCall
    BY DEF Label, TaskCall
  <2> QED BY <1>1, <2>2, <2>3, CallOnType DEF CheckCompletions
<1>2. ASSUME CheckExtend(s)  PROVE TypeOK'
  <2>1. CLAIM_EXPIRY \in 0 .. CLAIM_EXPIRY
    BY TableAssumption
  <2>2. \A row \in Claim : [row EXCEPT !.lease = CLAIM_EXPIRY] \in Claim
    BY <2>1 DEF Claim
  <2>3. tc' \in [Task -> Claim]
    BY <1>2, <2>2 DEF CheckExtend
  <2>4. "check.read" \in Label \ TaskCall
    BY DEF Label, TaskCall
  <2> QED BY <1>2, <2>3, <2>4, GotoType DEF CheckExtend
<1>3. ASSUME CheckRead(s)  PROVE TypeOK'
  <2> DEFINE rows == {row \in Ralph \X Task :
                       ri[row[1]].status = "active" /\ ri[row[1]].current = row[2]}
  <2>1. rows \in SUBSET (Ralph \X Task)
    OBVIOUS
  <2>2. CheckNext(s, rows)
    BY <1>3 DEF CheckRead
  <2> HIDE DEF rows
  <2>3. FrameOK'
    BY <2>1, <2>2, CheckNextType
  <2> QED BY <1>3, <2>3 DEF CheckRead
<1>4. ASSUME CheckRow(s)  PROVE TypeOK'
  <2>1. PICK r \in Ralph, t \in Task : <<r, t>> \in frame[s].rows /\ CheckOne(s, r, t)
    BY <1>4 DEF CheckRow
  <2> DEFINE left == frame[s].rows \ {<<r, t>>}
  <2>2. left \in SUBSET (Ralph \X Task)
    BY DEF FrameOK, Frame
  <2>3. ASSUME NEW row \in Claim, CheckEnds(s, r, t, row)
        PROVE  FrameOK' /\ tc' \in [Task -> Claim] /\ UNCHANGED <<ri, hist>>
    BY <2>3, CheckEndsType DEF CheckEnds
  <2>4. Relinquish(tc[t]) \in Claim /\ [tc[t] EXCEPT !.status = "failed"] \in Claim
    BY RelinquishType DEF Claim, ClaimStatus
  <2>5. CASE CompleteAndClaimNext(r, t) /\ CheckNext(s, left)
    BY <1>4, <2>2, <2>5, CompleteAndClaimNextTypes, CheckNextType DEF CheckRow
  <2>6. CASE CheckNext(s, left) /\ UNCHANGED <<tc, ri, hist>>
    BY <1>4, <2>2, <2>6, CheckNextType DEF CheckRow
  <2>7. CASE \E row \in Claim : CheckEnds(s, r, t, row)
    BY <1>4, <2>3, <2>7 DEF CheckRow
  <2> QED BY <2>1, <2>4, <2>5, <2>6, <2>7 DEF CheckOne
<1>5. ASSUME CheckClear(s)  PROVE TypeOK'
  <2>1. frame[s].rows \in SUBSET (Ralph \X Task)
    BY DEF FrameOK, Frame
  <2> QED BY <1>5, <2>1, SetCurrentType, CheckNextType DEF CheckClear
<1> QED BY <1>1, <1>2, <1>3, <1>4, <1>5

\* Calls on instance rows, and the sweeps over several of them.
LEMMA InstanceTypes ==
  ASSUME TypeOK, NEW s \in Session,
         \/ \E r \in Ralph :
              \/ Register(s, r) \/ Heartbeat(s, r) \/ PauseInstance(s, r)
              \/ ResumeInstance(s, r) \/ DeleteInstance(s, r) \/ ShutdownInstance(s, r)
         \/ ShutdownStop(s) \/ StopAll(s) \/ StopAllRelease(s) \/ StopAllStop(s)
         \/ MarkStale(s) \/ StaleRelease(s) \/ StaleCrash(s) \/ StaleWorktrees(s)
  PROVE  TypeOK'
<1> USE TypeParts, TypePartsPrime DEF DataOK
<1> USE DEF Label, TaskCall
<1>1. ASSUME NEW r \in Ralph, Register(s, r)  PROVE TypeOK'
  <2> DEFINE row == [ri[r] EXCEPT !.status = "active", !.age = 0]
  <2>1. row \in Instance
    BY ActivateType
  <2>2. ri' = [ri EXCEPT ![r] = row]
    BY <1>1 DEF Register
  <2> HIDE DEF row
  <2> QED BY <1>1, <2>1, <2>2, ReturnType DEF Register
<1>2. ASSUME NEW r \in Ralph, Heartbeat(s, r)  PROVE TypeOK'
  <2>1. [ri EXCEPT ![r].age = 0] \in [Ralph -> Instance]
    BY TableAssumption DEF Instance
  <2> QED BY <1>2, <2>1, ReturnType DEF Heartbeat
<1>3. ASSUME NEW r \in Ralph, PauseInstance(s, r)  PROVE TypeOK'
  BY <1>3, SetStatusType, ReturnType DEF PauseInstance, InstanceStatus
<1>4. ASSUME NEW r \in Ralph, ResumeInstance(s, r)  PROVE TypeOK'
  BY <1>4, SetStatusType, ReturnType DEF ResumeInstance, InstanceStatus
<1>5. ASSUME NEW r \in Ralph, DeleteInstance(s, r)  PROVE TypeOK'
  <2>1. NoInstance \in Instance
    BY TableAssumption DEF NoInstance, Instance, InstanceStatus
  <2> QED BY <1>5, <2>1, ReturnType DEF DeleteInstance
<1>6. ASSUME NEW r \in Ralph, ShutdownInstance(s, r)  PROVE TypeOK'
  BY <1>6, ReleaseAllType, CallType DEF ShutdownInstance
<1>7. ASSUME ShutdownStop(s)  PROVE TypeOK'
  BY <1>7, RetireType, ReturnType DEF ShutdownStop, InstanceStatus
<1>8. ASSUME StopAll(s)  PROVE TypeOK'
  BY <1>8, CallOnType DEF StopAll, InStatus
<1>9. ASSUME StopAllRelease(s)  PROVE TypeOK'
  BY <1>9, ReleaseAllType, GotoType DEF StopAllRelease
<1>10. ASSUME StopAllStop(s)  PROVE TypeOK'
  BY <1>10, RetireType, ReturnType DEF StopAllStop, InstanceStatus
<1>11. ASSUME MarkStale(s)  PROVE TypeOK'
  BY <1>11, CallOnType DEF MarkStale, StaleInstances
<1>12. ASSUME StaleRelease(s)  PROVE TypeOK'
  BY <1>12, ReleaseAllType, GotoType DEF StaleRelease
<1>13. ASSUME StaleCrash(s)  PROVE TypeOK'
  BY <1>13, RetireType, GotoType DEF StaleCrash, InstanceStatus
<1>14. ASSUME StaleWorktrees(s)  PROVE TypeOK'
  <2>1. trees' \in [Ralph -> Task \cup {NULL}]
    BY <1>14 DEF StaleWorktrees
  <2> QED BY <1>14, <2>1, ReturnType DEF StaleWorktrees
<1> QED
  BY <1>1, <1>2, <1>3, <1>4, <1>5, <1>6, <1>7, <1>8, <1>9, <1>10, <1>11, <1>12,
     <1>13, <1>14

\* sync_tasks_from_fix_plan, the clock, the fix plan and a killed process.
LEMMA EnvironmentTypes ==
  ASSUME TypeOK,
         \/ \E s \in Session : Sync(s) \/ SyncRead(s) \/ SyncWrite(s) \/ Crash(s)
         \/ \E t \in Task : WorkerTicksPlan(t)
         \/ Tick
  PROVE  TypeOK'
<1> USE TypeParts, TypePartsPrime DEF DataOK
<1> USE DEF Label, TaskCall
<1>1. ASSUME NEW s \in Session, Sync(s)  PROVE TypeOK'
  <2> DEFINE f == [Idle EXCEPT !.at = "sync.read", !.ts = Task, !.done = plan]
  <2>1. f \in Frame /\ f.at \notin TaskCall
    BY IdleType DEF Frame
  <2>2. frame' = [frame EXCEPT ![s] = f]
    BY <1>1 DEF Sync
  <2> QED BY <1>1, <2>1, <2>2, SetFrame DEF Sync
<1>2. ASSUME NEW s \in Session, SyncRead(s)  PROVE TypeOK'
  <2>1. PICK t \in frame[s].ts :
          frame' = [frame EXCEPT ![s].at = "sync.write", ![s].t = t, ![s].seen = tc[t].status]
    BY <1>2 DEF SyncRead
  <2> DEFINE f == [frame[s] EXCEPT !.at = "sync.write", !.t = t, !.seen = tc[t].status]
  <2>2. f \in Frame /\ f.at \notin TaskCall
    <3>1. frame[s] \in Frame /\ t \in Task
      BY DEF FrameOK, Frame
    <3>2. tc[t].status \in ClaimStatus
      BY <3>1 DEF Claim
    <3> QED BY <3>1, <3>2 DEF Frame
  <2>3. frame' = [frame EXCEPT ![s] = f]
    BY <2>1 DEF FrameOK
  <2> QED BY <1>2, <2>2, <2>3, SetFrame DEF SyncRead
<1>3. ASSUME NEW s \in Session, SyncWrite(s)  PROVE TypeOK'
  <2> DEFINE t == frame[s].t
  <2> DEFINE left == frame[s].ts \ {t}
  <2> DEFINE next == IF left = {} THEN Return(s, TRUE)
                       ELSE frame' = [frame EXCEPT ![s].at = "sync.read", ![s].ts = left]
  <2>1. ASSUME next  PROVE FrameOK'
    <3> DEFINE f == [frame[s] EXCEPT !.at = "sync.read", !.ts = left]
    <3>1. f \in Frame /\ f.at \notin TaskCall
      <4>1. frame[s] \in Frame /\ left \in SUBSET Task
        BY DEF FrameOK, Frame
      <4> HIDE DEF left
      <4> QED BY <4>1 DEF Frame
    <3>2. left # {} => frame' = [frame EXCEPT ![s] = f]
      BY <2>1 DEF FrameOK
    <3> QED BY <2>1, <3>1, <3>2, SetFrame, ReturnType
  <2>2. FrameOK'
    BY <1>3, <2>1, ReturnType DEF SyncWrite
  <2>3. \A status \in {"completed", "pending"} :
          [tc EXCEPT ![t] = NewClaim(status)] \in [Task -> Claim]
    BY NewClaimType DEF ClaimStatus
  <2>4. [tc EXCEPT ![t].status = "completed"] \in [Task -> Claim]
    BY DEF Claim, ClaimStatus
  <2>5. tc' \in [Task -> Claim]
    BY <1>3, <2>3, <2>4 DEF SyncWrite
  <2> QED BY <1>3, <2>2, <2>5 DEF SyncWrite
<1>4. ASSUME NEW s \in Session, Crash(s)  PROVE TypeOK'
  BY <1>4, ReturnType DEF Crash
<1>5. ASSUME NEW t \in Task, WorkerTicksPlan(t)  PROVE TypeOK'
  BY <1>5 DEF WorkerTicksPlan, FrameOK
<1>6. ASSUME Tick  PROVE TypeOK'
  BY <1>6, AgeClaimsType, AgeInstancesType DEF Tick, FrameOK
<1> QED BY <1>1, <1>2, <1>3, <1>4, <1>5, <1>6

LEMMA InitTypes == Init => TypeOK
<1> SUFFICES ASSUME Init PROVE TypeOK
  OBVIOUS
<1>1. tc \in [Task -> Claim]
  BY NewClaimType DEF Init, ClaimStatus
<1>2. NoInstance \in Instance
  BY TableAssumption DEF NoInstance, Instance, InstanceStatus
<1>3. hist \in [Task -> 0 .. HistCap]
  BY SessionAssumption DEF Init
<1>4. FrameOK
  BY IdleType DEF Init, FrameOK
<1> QED BY <1>1, <1>2, <1>3, <1>4 DEF Init, TypeOK, FrameOK

LEMMA NextTypes == TypeOK /\ [Next]_vars => TypeOK'
<1> SUFFICES ASSUME TypeOK, [Next]_vars PROVE TypeOK'
  OBVIOUS
<1>1. CASE Next
  BY <1>1, ClaimTypes, CompleteTypes, CheckTypes, InstanceTypes, EnvironmentTypes
     DEF Next, Start, Continue
<1>2. CASE UNCHANGED vars
  BY <1>2 DEF vars, TypeOK
<1> QED BY <1>1, <1>2

\* Whatever the sessions call and however their statements interleave, every
\* row, frame and counter keeps its type.
THEOREM TypeCorrect == Spec => []TypeOK
BY InitTypes, NextTypes, PTL DEF Spec

-----------------------------------------------------------------------------
(***************************************************************************)
(* Well-formed rows.                                                       *)
(***************************************************************************)
WellFormedRow(row) ==
  /\ Held(row) => row.owner # NULL /\ row.lease # NULL
  /\ row.status \in {"absent", "pending"} => row.owner = NULL

LEMMA WellFormedRows == ClaimWellFormed <=> \A t \in Task : WellFormedRow(tc[t])
BY DEF ClaimWellFormed, WellFormedRow

LEMMA GrantWellFormed ==
  ASSUME NEW row \in Claim, NEW r \in Ralph
  PROVE  WellFormedRow(Grant(row, r))
<1>1. r # NULL /\ CLAIM_EXPIRY # NULL
  BY TableAssumption
<1> QED BY <1>1 DEF Grant, WellFormedRow, Held, Claim

LEMMA RelinquishWellFormed ==
  ASSUME NEW row \in Claim
  PROVE  WellFormedRow(Relinquish(row))
BY DEF Relinquish, WellFormedRow, Held, Claim

LEMMA ReleaseAllWellFormed ==
  ASSUME tc \in [Task -> Claim], ClaimWellFormed, NEW T, tc' = ReleaseAll(tc, T)
  PROVE  ClaimWellFormed'
BY RelinquishWellFormed, WellFormedRows DEF ReleaseAll, ClaimWellFormed, WellFormedRow

\* A statement that writes one row keeps all rows well formed if it keeps
\* that one.
LEMMA OneRowWellFormed ==
  ASSUME tc \in [Task -> Claim], ClaimWellFormed, NEW t, NEW row,
         t \in Task => WellFormedRow(row), tc' = [tc EXCEPT ![t] = row]
  PROVE  ClaimWellFormed'
BY DEF ClaimWellFormed, WellFormedRow

\* A row that leaves the queue for good, or changes only its git columns.
LEMMA ClosedWellFormed ==
  ASSUME NEW row \in Claim, NEW status \in {"completed", "failed", "archived"}
  PROVE  WellFormedRow([row EXCEPT !.status = status])
BY DEF WellFormedRow, Held, Claim

LEMMA AgeClaimsWellFormed ==
  ASSUME tc \in [Task -> Claim], ClaimWellFormed, tc' = AgeClaims(tc)
  PROVE  ClaimWellFormed'
<1> SUFFICES ASSUME NEW t \in Task PROVE WellFormedRow(tc'[t])
  BY DEF ClaimWellFormed, WellFormedRow
<1>1. CASE tc[t].lease = NULL \/ Lapsed(tc[t])
  BY <1>1 DEF AgeClaims, ClaimWellFormed, WellFormedRow
<1>2. CASE ~(tc[t].lease = NULL \/ Lapsed(tc[t]))
  <2>1. tc[t].lease - 1 # NULL
    <3>1. tc[t].lease - 1 \in Nat
      BY <1>2, TableAssumption DEF Claim, Lapsed
    <3> QED BY <3>1, TableAssumption
  <2>2. tc'[t] = [tc[t] EXCEPT !.lease = @ - 1]
    BY <1>2 DEF AgeClaims
  <2> QED BY <2>1, <2>2 DEF ClaimWellFormed, WellFormedRow, Claim, Held
<1> QED BY <1>1, <1>2

LEMMA ClaimNextWellFormed ==
  ASSUME tc \in [Task -> Claim], ClaimWellFormed, NEW r \in Ralph, NEW t \in Task,
         CompleteAndClaimNext(r, t)
  PROVE  ClaimWellFormed'
<1> DEFINE done == IF Holds(r, t) THEN [tc EXCEPT ![t].status = "completed"] ELSE tc
<1>1. done \in [Task -> Claim]
  BY DEF Claim, ClaimStatus
<1>2. \A u \in Task : WellFormedRow(done[u])
  BY WellFormedRows, ClosedWellFormed
<1>3. ASSUME NEW n \in Task, tc' = [done EXCEPT ![n] = Grant(@, r)]
      PROVE  ClaimWellFormed'
  <2>1. WellFormedRow(Grant(done[n], r))
    BY <1>1, GrantWellFormed
  <2>2. \A u \in Task : WellFormedRow(tc'[u])
    BY <1>1, <1>2, <1>3, <2>1
  <2> QED BY <2>2 DEF ClaimWellFormed, WellFormedRow
<1>4. CASE tc' = done
  BY <1>2, <1>4 DEF ClaimWellFormed, WellFormedRow
<1> QED BY <1>3, <1>4 DEF CompleteAndClaimNext, First, PendingTasks

\* The statements that write task_claims, whichever session runs them.
LEMMA WritesWellFormed ==
  ASSUME TypeOK, ClaimWellFormed, NEW s \in Session,
         \/ \E r \in Ralph : ClaimTask(s, r) \/ ShutdownInstance(s, r)
         \/ \E r \in Ralph, t \in Task :
              ExtendClaim(s, r, t) \/ FailTask(s, r, t) \/ ReleaseClaim(s, r, t)
         \/ \E t \in Task : ArchiveTask(s, t) \/ BulkRequeue(s, t)
         \/ ClaimWorktree(s) \/ CompleteUpdate(s) \/ CompleteMarkMerged(s)
         \/ CompleteUnwind(s) \/ StopAllRelease(s) \/ StaleRelease(s) \/ SyncWrite(s)
         \/ CheckExtend(s) \/ CheckRow(s)
  PROVE  ClaimWellFormed'
<1>1. tc \in [Task -> Claim]
  BY DEF TypeOK
<1>2. ASSUME UNCHANGED tc  PROVE ClaimWellFormed'
  BY <1>2 DEF ClaimWellFormed
<1>3. ASSUME NEW r \in Ralph, ClaimTask(s, r)  PROVE ClaimWellFormed'
  <2>1. ASSUME NEW t \in Task, tc' = [tc EXCEPT ![t] = Grant(@, r)]
        PROVE  ClaimWellFormed'
    BY <1>1, <2>1, GrantWellFormed, OneRowWellFormed
  <2> QED BY <1>2, <1>3, <2>1 DEF ClaimTask, First, ClaimableTasks
<1>4. ASSUME NEW r \in Ralph, ShutdownInstance(s, r)  PROVE ClaimWellFormed'
  BY <1>1, <1>4, ReleaseAllWellFormed DEF ShutdownInstance
<1>5. ASSUME NEW r \in Ralph, NEW t \in Task, ExtendClaim(s, r, t)
      PROVE  ClaimWellFormed'
  <2> DEFINE row == [tc[t] EXCEPT !.lease = CLAIM_EXPIRY]
  <2>1. CLAIM_EXPIRY # NULL /\ r # NULL
    BY TableAssumption
  <2>2. WellFormedRow(row)
    BY <1>1, <1>5, <2>1 DEF ExtendClaim, Holds, Held, WellFormedRow, Claim
  <2> QED BY <1>1, <1>5, <2>2, OneRowWellFormed DEF ExtendClaim
<1>6. ASSUME CheckExtend(s)  PROVE ClaimWellFormed'
  <2>1. CLAIM_EXPIRY # NULL
    BY TableAssumption
  <2>2. \A t \in Task : WellFormedRow(tc'[t])
    BY <1>1, <1>6, <2>1 DEF CheckExtend, ClaimWellFormed, WellFormedRow, Held, HeldBy, Claim
  <2> QED BY <2>2 DEF ClaimWellFormed, WellFormedRow
<1>7. ASSUME NEW r \in Ralph, NEW t \in Task, FailTask(s, r, t)
      PROVE  ClaimWellFormed'
  BY <1>1, <1>2, <1>7, ClosedWellFormed, OneRowWellFormed DEF FailTask
<1>8. ASSUME NEW r \in Ralph, NEW t \in Task, ReleaseClaim(s, r, t)
      PROVE  ClaimWellFormed'
  BY <1>1, <1>2, <1>8, RelinquishWellFormed, OneRowWellFormed DEF ReleaseClaim
<1>9. ASSUME NEW t \in Task, ArchiveTask(s, t)  PROVE ClaimWellFormed'
  BY <1>1, <1>9, ClosedWellFormed, OneRowWellFormed DEF ArchiveTask
<1>10. ASSUME NEW t \in Task, BulkRequeue(s, t)  PROVE ClaimWellFormed'
  <2> DEFINE row == [tc[t] EXCEPT !.status = "pending", !.owner = NULL]
  <2>1. WellFormedRow(row)
    BY <1>1 DEF WellFormedRow, Held, Claim
  <2>2. tc' = [tc EXCEPT ![t] = row]
    BY <1>10 DEF BulkRequeue
  <2> QED BY <1>1, <2>1, <2>2, OneRowWellFormed
<1>11. ASSUME ClaimWorktree(s)  PROVE ClaimWellFormed'
  <2>1. \A t \in Task : \A w : WellFormedRow([tc[t] EXCEPT !.wt = w])
    BY <1>1 DEF ClaimWellFormed, WellFormedRow, Held, Claim
  <2> QED BY <1>1, <1>2, <1>11, <2>1, OneRowWellFormed DEF ClaimWorktree
<1>12. ASSUME CompleteUpdate(s)  PROVE ClaimWellFormed'
  BY <1>1, <1>2, <1>12, ClosedWellFormed, OneRowWellFormed DEF CompleteUpdate
<1>13. ASSUME CompleteMarkMerged(s)  PROVE ClaimWellFormed'
  <2>1. \A t \in Task : WellFormedRow([tc[t] EXCEPT !.merged = TRUE])
    BY <1>1 DEF ClaimWellFormed, WellFormedRow, Held, Claim
  <2> QED BY <1>1, <1>13, <2>1, OneRowWellFormed DEF CompleteMarkMerged
<1>14. ASSUME CompleteUnwind(s)  PROVE ClaimWellFormed'
  <2>1. \A t \in Task : WellFormedRow([Relinquish(tc[t]) EXCEPT !.merged = FALSE])
    BY <1>1 DEF Relinquish, WellFormedRow, Held, Claim
  <2> QED BY <1>1, <1>14, <2>1, OneRowWellFormed DEF CompleteUnwind
<1>15. ASSUME StopAllRelease(s) \/ StaleRelease(s)  PROVE ClaimWellFormed'
  BY <1>1, <1>15, ReleaseAllWellFormed DEF StopAllRelease, StaleRelease
<1>16. ASSUME SyncWrite(s)  PROVE ClaimWellFormed'
  <2>1. \A status \in {"completed", "pending"} : WellFormedRow(NewClaim(status))
    BY DEF NewClaim, WellFormedRow, Held
  <2> QED BY <1>1, <1>2, <1>16, <2>1, ClosedWellFormed, OneRowWellFormed DEF SyncWrite
<1>17. ASSUME CheckRow(s)  PROVE ClaimWellFormed'
  <2>1. PICK r \in Ralph, t \in Task : CheckOne(s, r, t)
    BY <1>17 DEF CheckRow
  <2>2. ASSUME NEW row, WellFormedRow(row), CheckEnds(s, r, t, row)
        PROVE  ClaimWellFormed'
    BY <1>1, <2>2, OneRowWellFormed DEF CheckEnds
  <2>3. /\ WellFormedRow(Relinquish(tc[t]))
        /\ WellFormedRow([tc[t] EXCEPT !.status = "failed"])
    BY <1>1, RelinquishWellFormed, ClosedWellFormed
  <2> QED BY <1>1, <1>2, <2>1, <2>2, <2>3, ClaimNextWellFormed DEF CheckOne
<1> QED BY <1>3, <1>4, <1>5, <1>6, <1>7, <1>8, <1>9, <1>10, <1>11, <1>12, <1>13,
           <1>14, <1>15, <1>16, <1>17

\* All the others leave task_claims alone, except the clock.
LEMMA NextWellFormed == TypeOK /\ ClaimWellFormed /\ [Next]_vars => ClaimWellFormed'
<1> SUFFICES ASSUME TypeOK, ClaimWellFormed, [Next]_vars PROVE ClaimWellFormed'
  OBVIOUS
<1>1. ASSUME UNCHANGED tc  PROVE ClaimWellFormed'
  BY <1>1 DEF ClaimWellFormed
<1>2. ASSUME NEW s \in Session, Start(s)  PROVE ClaimWellFormed'
  <2>1. CASE MarkStale(s) \/ StopAll(s) \/ Sync(s)
    BY <1>1, <2>1 DEF MarkStale, StopAll, Sync
  <2>2. ASSUME NEW r \in Ralph,
               \/ Register(s, r) \/ Heartbeat(s, r) \/ PauseInstance(s, r)
               \/ ResumeInstance(s, r) \/ DeleteInstance(s, r)
        PROVE  ClaimWellFormed'
    BY <1>1, <2>2
       DEF Register, Heartbeat, PauseInstance, ResumeInstance, DeleteInstance
  <2>3. ASSUME NEW r \in Ralph, NEW t \in Task, CompleteTask(s, r, t)
        PROVE  ClaimWellFormed'
    BY <1>1, <2>3 DEF CompleteTask
  <2>4. ASSUME NEW running \in SUBSET Ralph, CheckCompletions(s, running)
        PROVE  ClaimWellFormed'
    BY <1>1, <2>4 DEF CheckCompletions
  <2> QED BY <1>2, <2>1, <2>2, <2>3, <2>4, WritesWellFormed DEF Start
<1>3. ASSUME NEW s \in Session, Continue(s) \/ Crash(s)  PROVE ClaimWellFormed'
  BY <1>1, <1>3, WritesWellFormed
     DEF Continue, Crash, ClaimClearOthers, ClaimSetCurrent, CompleteMerge,
         CompleteHistory, CompleteSetCurrent, CompleteFixPlan, CompleteUnwindCurrent,
         FailSetCurrent, ReleaseSetCurrent, ShutdownStop, StopAllStop, StaleCrash,
         StaleWorktrees, SyncRead, CheckRead, CheckClear
<1>4. CASE Tick
  BY <1>4, AgeClaimsWellFormed DEF Tick, TypeOK
<1>5. ASSUME NEW t \in Task, WorkerTicksPlan(t)  PROVE ClaimWellFormed'
  BY <1>1, <1>5 DEF WorkerTicksPlan
<1>6. CASE UNCHANGED vars
  BY <1>1, <1>6 DEF vars
<1> QED BY <1>2, <1>3, <1>4, <1>5, <1>6 DEF Next

\* Whatever is called, a task under work names a holder and an expiry, and a
\* waiting task names no holder: claim_task can always reach it again.
THEOREM WellFormed == Spec => []ClaimWellFormed
<1>1. ASSUME Init  PROVE ClaimWellFormed
  <2>1. \A status \in {"absent", "pending"} : WellFormedRow(NewClaim(status))
    BY DEF WellFormedRow, NewClaim, Held
  <2>2. \A t \in Task : WellFormedRow(tc[t])
    BY <1>1, <2>1 DEF Init
  <2> QED BY <2>2, WellFormedRows
<1> QED BY <1>1, TypeCorrect, NextWellFormed, PTL DEF Spec

-----------------------------------------------------------------------------
(***************************************************************************)
(* The inductive invariant behind the remaining theorems.  Under           *)
(* SoleCompleter the session inside complete_task knows, from its own      *)
(* reads, things no other session can undo:                                *)
(*   - until it writes history, history does not show the task;            *)
(*   - after its UPDATE and until it unwinds, the row says "completed".    *)
(* A sync that saw a row relies on rows never being deleted.               *)
(***************************************************************************)
Unrecorded ==  \* statements of complete_task that come before history
  {"complete.update", "complete.merge", "complete.mark_merged", "complete.history",
   "complete.unwind"}

RecordOK(t) == hist[t] > 0 => hist[t] = 1 /\ tc[t].status = "completed"

CompleterOK(s) ==
  frame[s].at \in Unrecorded =>
    /\ "complete_task" \in Calls[s]
    /\ hist[frame[s].t] = 0
    /\ frame[s].at # "complete.update" => tc[frame[s].t].status = "completed"

SyncOK(s) ==
  frame[s].at = "sync.write" /\ frame[s].seen # "absent"
    => frame[s].t \in Task /\ tc[frame[s].t].status # "absent"

Checking == {"check.extend", "check.read", "check.row", "check.clear"}

Checks(s) == frame[s].at \in Checking

FinalInv ==
  /\ \A t \in Task : RecordOK(t)
  /\ \A s \in Session : CompleterOK(s) /\ SyncOK(s) /\ ~Checks(s)

\* What a statement may do to the row of task t, and to its history.
Kept(t) == tc'[t].status = tc[t].status /\ tc'[t].owner = tc[t].owner

Taken(t) == Claimable(tc[t]) /\ \E r \in Ralph : tc'[t] = Grant(tc[t], r)

GivenBack(t) ==
  /\ Held(tc[t]) /\ tc'[t] = Relinquish(tc[t])
  /\ \E s \in Session : ActsFor(s, tc[t].owner)

Failed(t) ==
  /\ Held(tc[t])
  /\ tc'[t].status = "failed" /\ tc'[t].owner = tc[t].owner

Completed(t) ==
  /\ tc[t].status # "absent"
  /\ tc'[t].status = "completed" /\ tc'[t].owner = tc[t].owner

Inserted(t) ==
  /\ tc[t].status = "absent"
  /\ tc'[t] \in {NewClaim("pending"), NewClaim("completed")}

\* A step of any call but complete_task.
Plain(t) ==
  /\ hist'[t] = hist[t]
  /\ \/ Kept(t) \/ Taken(t) \/ GivenBack(t)
     \/ Failed(t) \/ Completed(t) \/ Inserted(t)

Unwound(t) ==
  /\ tc[t].status = "completed" /\ hist[t] = 0
  /\ tc'[t].status = "pending" /\ hist'[t] = 0

Recorded(t) ==
  /\ tc[t].status = "completed" /\ hist[t] = 0
  /\ tc'[t] = tc[t] /\ hist'[t] = 1

\* What the frame operators leave on each session's stack.
LEMMA FrameAfter ==
  ASSUME TypeOK, NEW s \in Session
  PROVE  /\ \A q \in Session \ {s} :
              (\/ \E label, r, t : Call(s, label, r, t)
               \/ \E label : Goto(s, label)
               \/ \E label, rs : GotoWith(s, label, rs)
               \/ \E ok : Return(s, ok)) => frame'[q] = frame[q]
         /\ \A label, r, t : Call(s, label, r, t) =>
              frame'[s].at = label /\ frame'[s].t = t /\ frame'[s].r = r
         /\ \A label : Goto(s, label) =>
              frame'[s].at = label /\ frame'[s].t = frame[s].t
         /\ \A label, rs : GotoWith(s, label, rs) =>
              frame'[s].at = label /\ frame'[s].t = frame[s].t
         /\ \A ok : Return(s, ok) => frame'[s].at = "idle"
<1>1. frame \in [Session -> Frame]
  BY DEF TypeOK
<1>2. ASSUME NEW label, NEW r, NEW t, Call(s, label, r, t)
      PROVE  /\ frame'[s].at = label /\ frame'[s].t = t /\ frame'[s].r = r
             /\ \A q \in Session \ {s} : frame'[q] = frame[q]
  BY <1>1, <1>2 DEF Call, Idle
<1>3. ASSUME NEW label, Goto(s, label)
      PROVE  /\ frame'[s].at = label /\ frame'[s].t = frame[s].t
             /\ \A q \in Session \ {s} : frame'[q] = frame[q]
  BY <1>1, <1>3 DEF Goto, Frame
<1>4. ASSUME NEW ok, Return(s, ok)
      PROVE  frame'[s].at = "idle" /\ \A q \in Session \ {s} : frame'[q] = frame[q]
  BY <1>1, <1>4 DEF Return, Idle
<1>5. ASSUME NEW label, NEW rs, GotoWith(s, label, rs)
      PROVE  /\ frame'[s].at = label /\ frame'[s].t = frame[s].t
             /\ \A q \in Session \ {s} : frame'[q] = frame[q]
  BY <1>1, <1>5 DEF GotoWith, Frame
<1> QED BY <1>2, <1>3, <1>4, <1>5

LEMMA CallActsFor ==
  ASSUME TypeOK, NEW s \in Session, frame[s].at = "idle",
         NEW label \in Label \ {"idle"}, NEW r \in Ralph, NEW t, Call(s, label, r, t)
  PROVE  ActsFor(s, r)
BY FrameAfter DEF ActsFor

\* The rows under the calls that touch them.
LEMMA PlainRows ==
  ASSUME TypeOK, FinalInv, NEW s \in Session,
         \/ \E r \in Ralph : ClaimTask(s, r) \/ ShutdownInstance(s, r)
         \/ \E r \in Ralph, t \in Task :
              ExtendClaim(s, r, t) \/ FailTask(s, r, t) \/ ReleaseClaim(s, r, t)
         \/ ClaimWorktree(s) \/ StopAllRelease(s) \/ StaleRelease(s) \/ SyncWrite(s),
         NEW u \in Task
  PROVE  Plain(u)
<1>1. tc \in [Task -> Claim]
  BY DEF TypeOK
<1>2. ASSUME UNCHANGED <<tc, hist>>  PROVE Plain(u)
  BY <1>2 DEF Plain, Kept
<1>3. ASSUME NEW rs, tc' = ReleaseAll(tc, HeldBy(tc, rs)), UNCHANGED hist,
             \A r \in rs : ActsFor(s, r)
      PROVE  Plain(u)
  BY <1>3 DEF Plain, Kept, GivenBack, ReleaseAll, HeldBy
<1>4. ASSUME NEW r \in Ralph, ClaimTask(s, r)  PROVE Plain(u)
  <2>1. ASSUME NEW t \in Task, Claimable(tc[t]), tc' = [tc EXCEPT ![t] = Grant(@, r)]
        PROVE  Kept(u) \/ Taken(u)
    BY <1>1, <2>1 DEF Kept, Taken
  <2> QED BY <1>2, <1>4, <2>1 DEF ClaimTask, First, ClaimableTasks, Plain
<1>5. ASSUME NEW r \in Ralph, ShutdownInstance(s, r)  PROVE Plain(u)
  <2>1. ActsFor(s, r)
    BY <1>5, CallActsFor DEF ShutdownInstance, May, At, Label
  <2> QED BY <1>3, <1>5, <2>1 DEF ShutdownInstance
<1>6. ASSUME NEW r \in Ralph, NEW t \in Task, ExtendClaim(s, r, t)  PROVE Plain(u)
  BY <1>1, <1>6 DEF ExtendClaim, Plain, Kept, Claim
<1>7. ASSUME NEW r \in Ralph, NEW t \in Task, FailTask(s, r, t)  PROVE Plain(u)
  BY <1>1, <1>2, <1>7 DEF FailTask, Plain, Kept, Failed, Holds, Claim
<1>8. ASSUME NEW r \in Ralph, NEW t \in Task, ReleaseClaim(s, r, t)  PROVE Plain(u)
  <2>1. Call(s, "release.set_current", r, t) => ActsFor(s, r)
    BY <1>8, CallActsFor DEF ReleaseClaim, May, At, Label
  <2> QED BY <1>1, <1>2, <1>8, <2>1 DEF ReleaseClaim, Plain, Kept, GivenBack, Holds
<1>9. ASSUME ClaimWorktree(s)  PROVE Plain(u)
  BY <1>1, <1>9 DEF ClaimWorktree, Plain, Kept, Claim
<1>10. ASSUME StopAllRelease(s) \/ StaleRelease(s)  PROVE Plain(u)
  <2>1. \A r \in frame[s].rs : ActsFor(s, r)
    BY <1>10, FrameAfter DEF StopAllRelease, StaleRelease, At, ActsFor
  <2> QED BY <1>3, <1>10, <2>1 DEF StopAllRelease, StaleRelease
<1>11. ASSUME SyncWrite(s)  PROVE Plain(u)
  <2> DEFINE t == frame[s].t
  <2>1. ASSUME NEW status \in {"completed", "pending"}, tc[t].status = "absent",
               tc' = [tc EXCEPT ![t] = NewClaim(status)]
        PROVE  Kept(u) \/ Inserted(u)
    BY <1>1, <2>1 DEF Kept, Inserted
  <2>2. ASSUME At(s, "sync.write"), frame[s].seen # "absent",
               tc' = [tc EXCEPT ![t].status = "completed"]
        PROVE  Kept(u) \/ Completed(u)
    BY <1>1, <2>2 DEF FinalInv, SyncOK, At, Kept, Completed, Claim
  <2>3. Kept(u) \/ Inserted(u) \/ Completed(u)
    BY <1>11, <2>1, <2>2 DEF SyncWrite, Kept
  <2> QED BY <1>11, <2>3 DEF SyncWrite, Plain
<1> QED BY <1>4, <1>5, <1>6, <1>7, <1>8, <1>9, <1>10, <1>11

\* A step that leaves no session in complete_task, before a sync's write or
\* in check_ralph_completions that was not there already.
Watched == Unrecorded \cup {"sync.write"} \cup Checking

PlainFrames ==
  \A q \in Session : frame'[q].at \in Watched => frame'[q] = frame[q]

LEMMA SetFrames ==
  ASSUME TypeOK, NEW s \in Session, NEW f, f.at \notin Watched,
         frame' = [frame EXCEPT ![s] = f]
  PROVE  PlainFrames
BY DEF PlainFrames, TypeOK

LEMMA CallFrames ==
  ASSUME TypeOK, NEW s \in Session,
         NEW label \in Label \ Watched,
         \/ \E r, t : Call(s, label, r, t)
         \/ \E rs : CallOn(s, label, rs)
         \/ Goto(s, label)
  PROVE  PlainFrames
<1>1. frame \in [Session -> Frame]
  BY DEF TypeOK
<1>2. ASSUME NEW r, NEW t, Call(s, label, r, t)  PROVE PlainFrames
  BY <1>1, <1>2 DEF PlainFrames, Call, Idle
<1>3. ASSUME NEW rs, CallOn(s, label, rs)  PROVE PlainFrames
  BY <1>1, <1>3 DEF PlainFrames, CallOn, Idle
<1>4. ASSUME Goto(s, label)  PROVE PlainFrames
  BY <1>1, <1>4 DEF PlainFrames, Goto, Frame
<1> QED BY <1>2, <1>3, <1>4

LEMMA ReturnFrames ==
  ASSUME TypeOK, NEW s \in Session,
         (\E ok \in BOOLEAN : Return(s, ok)) \/ (\E t : ReturnTask(s, t))
  PROVE  PlainFrames
<1>1. frame \in [Session -> Frame]
  BY DEF TypeOK
<1>2. ASSUME NEW ok, Return(s, ok)  PROVE PlainFrames
  BY <1>1, <1>2 DEF PlainFrames, Return, Idle, Watched, Unrecorded, Checking
<1>3. ASSUME NEW t, ReturnTask(s, t)  PROVE PlainFrames
  BY <1>1, <1>3 DEF PlainFrames, ReturnTask, Idle, Watched, Unrecorded, Checking
<1> QED BY <1>2, <1>3

\* Plain rows and plain frames keep FinalInv.
LEMMA PlainStep ==
  ASSUME TypeOK, FinalInv, \A t \in Task : Plain(t), PlainFrames
  PROVE  FinalInv'
<1>1. ASSUME NEW t \in Task  PROVE RecordOK(t)'
  BY DEF FinalInv, RecordOK, Plain, Kept, Taken, GivenBack, Failed, Completed,
         Inserted, Claimable, Held
<1>2. ASSUME NEW t \in Task
      PROVE  /\ tc[t].status = "completed" => tc'[t].status = "completed"
             /\ tc[t].status # "absent" => tc'[t].status # "absent"
  BY DEF Plain, Kept, Taken, GivenBack, Failed, Completed, Inserted, Claimable, Held,
         Grant, Relinquish, TypeOK, Claim
<1>3. ASSUME NEW s \in Session  PROVE CompleterOK(s)' /\ SyncOK(s)' /\ ~Checks(s)'
  <2>1. CASE frame'[s] = frame[s]
    <3>1. frame[s].at \in Unrecorded => frame[s].t \in Task
      BY DEF TypeOK, Unrecorded, TaskCall
    <3>2. CompleterOK(s) /\ SyncOK(s) /\ ~Checks(s)
      BY DEF FinalInv
    <3> QED BY <1>2, <2>1, <3>1, <3>2 DEF CompleterOK, SyncOK, Checks, Plain
  <2>2. CASE frame'[s].at \notin Watched
    BY <2>2 DEF CompleterOK, SyncOK, Checks, Watched
  <2> QED BY <2>1, <2>2 DEF PlainFrames
<1> QED BY <1>1, <1>3 DEF FinalInv

\* The calls that are not complete_task, first statement.
LEMMA StartPlain ==
  ASSUME TypeOK, FinalInv, SoleCompleter, NEW s \in Session, Start(s),
         ~\E r \in Ralph, t \in Task : CompleteTask(s, r, t)
  PROVE  PlainFrames /\ \A u \in Task : Plain(u)
<1> USE DEF Label, Watched, Unrecorded, Checking
<1>1. ASSUME UNCHANGED <<tc, hist>>  PROVE \A u \in Task : Plain(u)
  BY <1>1 DEF Plain, Kept
<1>2. CASE MarkStale(s) \/ StopAll(s)
  BY <1>1, <1>2, CallFrames, ReturnFrames DEF MarkStale, StopAll
<1>3. CASE Sync(s)
  BY <1>1, <1>3 DEF Sync, PlainFrames, Idle, TypeOK, Frame
<1>4. ASSUME NEW r \in Ralph,
             \/ Register(s, r) \/ Heartbeat(s, r) \/ PauseInstance(s, r)
             \/ ResumeInstance(s, r) \/ DeleteInstance(s, r)
      PROVE  PlainFrames /\ \A u \in Task : Plain(u)
  BY <1>1, <1>4, CallFrames, ReturnFrames
     DEF Register, Heartbeat, PauseInstance, ResumeInstance, DeleteInstance
<1>5. ASSUME NEW r \in Ralph, ClaimTask(s, r) \/ ShutdownInstance(s, r)
      PROVE  PlainFrames /\ \A u \in Task : Plain(u)
  BY <1>5, PlainRows, CallFrames, ReturnFrames DEF ClaimTask, ShutdownInstance
<1>6. ASSUME NEW r \in Ralph, NEW t \in Task,
             ExtendClaim(s, r, t) \/ FailTask(s, r, t) \/ ReleaseClaim(s, r, t)
      PROVE  PlainFrames /\ \A u \in Task : Plain(u)
  BY <1>6, PlainRows, CallFrames, ReturnFrames DEF ExtendClaim, FailTask, ReleaseClaim
<1>7. ASSUME NEW t \in Task, ArchiveTask(s, t) \/ BulkRequeue(s, t)
      PROVE  FALSE
  BY <1>7 DEF ArchiveTask, BulkRequeue, May, SoleCompleter
<1>8. ASSUME NEW running \in SUBSET Ralph, CheckCompletions(s, running)
      PROVE  FALSE
  BY <1>8 DEF CheckCompletions, May, SoleCompleter
<1> QED BY <1>2, <1>3, <1>4, <1>5, <1>6, <1>7, <1>8 DEF Start

\* Their later statements, and a killed process.
LEMMA ContinuePlain ==
  ASSUME TypeOK, FinalInv, NEW s \in Session, Continue(s) \/ Crash(s),
         frame[s].at \notin Unrecorded, ~SyncRead(s)
  PROVE  PlainFrames /\ \A u \in Task : Plain(u)
<1> USE DEF Label, Watched, Unrecorded, Checking
<1>1. ASSUME UNCHANGED <<tc, hist>>  PROVE \A u \in Task : Plain(u)
  BY <1>1 DEF Plain, Kept
<1>2. CASE ClaimClearOthers(s) \/ ClaimSetCurrent(s) \/ CompleteSetCurrent(s)
  BY <1>1, <1>2, CallFrames, ReturnFrames
     DEF ClaimClearOthers, ClaimSetCurrent, CompleteSetCurrent
<1>3. CASE CompleteFixPlan(s) \/ CompleteUnwindCurrent(s) \/ FailSetCurrent(s)
  BY <1>1, <1>3, CallFrames, ReturnFrames
     DEF CompleteFixPlan, CompleteUnwindCurrent, FailSetCurrent
<1>4. CASE ReleaseSetCurrent(s) \/ ShutdownStop(s) \/ StopAllStop(s)
  BY <1>1, <1>4, CallFrames, ReturnFrames DEF ReleaseSetCurrent, ShutdownStop, StopAllStop
<1>5. CASE StaleCrash(s) \/ StaleWorktrees(s) \/ Crash(s)
  BY <1>1, <1>5, CallFrames, ReturnFrames DEF StaleCrash, StaleWorktrees, Crash
<1>6. CASE ClaimWorktree(s) \/ StopAllRelease(s) \/ StaleRelease(s)
  BY <1>6, PlainRows, CallFrames, ReturnFrames DEF ClaimWorktree, StopAllRelease, StaleRelease
<1>7. CASE SyncWrite(s)
  <2> DEFINE left == frame[s].ts \ {frame[s].t}
  <2>1. ASSUME frame' = [frame EXCEPT ![s].at = "sync.read", ![s].ts = left]
        PROVE  PlainFrames
    <3>1. frame[s] \in Frame /\ frame \in [Session -> Frame]
      BY DEF TypeOK
    <3> DEFINE f == [frame[s] EXCEPT !.at = "sync.read", !.ts = left]
    <3>2. f.at = "sync.read"
      BY <3>1 DEF Frame
    <3>3. frame' = [frame EXCEPT ![s] = f]
      BY <2>1, <3>1
    <3>4. f.at \notin Watched
      BY <3>2
    <3> HIDE DEF f
    <3> QED BY <3>3, <3>4, SetFrames
  <2>2. ASSUME NEW ok \in BOOLEAN, Return(s, ok)  PROVE PlainFrames
    BY <2>2, CallFrames, ReturnFrames
  <2>3. PlainFrames
    BY <1>7, <2>1, <2>2 DEF SyncWrite
  <2> QED BY <1>7, <2>3, PlainRows
<1>8. CASE CompleteUpdate(s) \/ CompleteMerge(s) \/ CompleteMarkMerged(s)
           \/ CompleteHistory(s) \/ CompleteUnwind(s)
  BY <1>8 DEF CompleteUpdate, CompleteMerge, CompleteMarkMerged, CompleteHistory,
              CompleteUnwind, At
<1>9. CASE CheckExtend(s) \/ CheckRead(s) \/ CheckRow(s) \/ CheckClear(s)
  BY <1>9 DEF CheckExtend, CheckRead, CheckRow, CheckClear, At, FinalInv, Checks
<1> QED BY <1>2, <1>3, <1>4, <1>5, <1>6, <1>7, <1>8, <1>9 DEF Continue

-----------------------------------------------------------------------------
(***************************************************************************)
(* complete_task.  While its session is inside, no other session is.       *)
(***************************************************************************)
LEMMA CompleterStep ==
  ASSUME TypeOK, FinalInv, SoleCompleter, NEW s \in Session, "complete_task" \in Calls[s],
         \A q \in Session \ {s} : frame'[q] = frame[q],
         frame'[s].at \notin {"sync.write"} \cup Checking, CompleterOK(s)',
         \A t \in Task : RecordOK(t)',
         \A t \in Task : tc[t].status # "absent" => tc'[t].status # "absent"
  PROVE  FinalInv'
<1>1. ASSUME NEW q \in Session \ {s}  PROVE CompleterOK(q)' /\ SyncOK(q)' /\ ~Checks(q)'
  <2>1. CompleterOK(q) /\ SyncOK(q) /\ ~Checks(q)
    BY DEF FinalInv
  <2>2. frame[q].at \notin Unrecorded
    BY <2>1 DEF CompleterOK, SoleCompleter
  <2> QED BY <2>1, <2>2 DEF CompleterOK, SyncOK, Checks
<1>2. SyncOK(s)' /\ ~Checks(s)'
  BY DEF SyncOK, Checks
<1> QED BY <1>1, <1>2 DEF FinalInv

Moved(t) == Plain(t) \/ Unwound(t) \/ Recorded(t)

LEMMA CompleteTaskFinal ==
  ASSUME TypeOK, FinalInv, SoleCompleter, NEW s \in Session,
         NEW r \in Ralph, NEW t \in Task, CompleteTask(s, r, t)
  PROVE  FinalInv' /\ \A u \in Task : Moved(u)
<1>1. "complete_task" \in Calls[s] /\ UNCHANGED <<tc, hist>>
  BY DEF CompleteTask, May
<1>2. \A u \in Task : Moved(u)
  BY <1>1 DEF Moved, Plain, Kept
<1>3. \A u \in Task : RecordOK(u)'
  BY <1>1 DEF FinalInv, RecordOK
<1>4. hist[t] \in 0 .. HistCap /\ RecordOK(t)
  BY DEF TypeOK, FinalInv
<1>5. CASE \E ok : Return(s, ok)
  <2>1. frame'[s].at = "idle" /\ \A q \in Session \ {s} : frame'[q] = frame[q]
    BY <1>5, FrameAfter
  <2>2. CompleterOK(s)'
    BY <2>1 DEF CompleterOK, Unrecorded
  <2> QED BY <1>1, <1>2, <1>3, <2>1, <2>2, CompleterStep DEF Checking
<1>6. CASE tc[t].status # "completed" /\ Call(s, "complete.update", r, t)
  <2>1. /\ frame'[s].at = "complete.update" /\ frame'[s].t = t
        /\ \A q \in Session \ {s} : frame'[q] = frame[q]
    BY <1>6, FrameAfter
  <2>2. hist[t] = 0
    BY <1>4, <1>6, SessionAssumption DEF RecordOK
  <2>3. CompleterOK(s)'
    BY <1>1, <2>1, <2>2 DEF CompleterOK
  <2> QED BY <1>1, <1>2, <1>3, <2>1, <2>3, CompleterStep DEF Checking
<1> QED BY <1>5, <1>6 DEF CompleteTask

LEMMA CompleteUpdateFinal ==
  ASSUME TypeOK, ClaimWellFormed, FinalInv, SoleCompleter, NEW s \in Session,
         CompleteUpdate(s)
  PROVE  FinalInv' /\ \A u \in Task : Moved(u)
<1> DEFINE t == frame[s].t
<1>1. frame[s].at = "complete.update" /\ UNCHANGED hist
  BY DEF CompleteUpdate, At
<1>2. t \in Task /\ frame[s].r \in Ralph
  BY <1>1 DEF TypeOK, TaskCall
<1>3. "complete_task" \in Calls[s] /\ hist[t] = 0
  BY <1>1 DEF FinalInv, CompleterOK, Unrecorded
<1>4. tc \in [Task -> Claim]
  BY DEF TypeOK
<1>5. CASE tc[t].owner = frame[s].r /\ tc' = [tc EXCEPT ![t].status = "completed"]
           /\ Goto(s, "complete.merge")
  <2>1. tc[t].status # "absent"
    BY <1>2, <1>5, TableAssumption DEF ClaimWellFormed
  <2>2. \A u \in Task : Kept(u) \/ Completed(u)
    BY <1>2, <1>4, <1>5, <2>1 DEF Kept, Completed, Claim
  <2>3. \A u \in Task : Plain(u)
    BY <1>1, <2>2 DEF Plain
  <2>4. \A u \in Task : RecordOK(u)'
    BY <1>1, <2>2 DEF FinalInv, RecordOK, Kept, Completed
  <2>5. /\ frame'[s].at = "complete.merge" /\ frame'[s].t = t
        /\ \A q \in Session \ {s} : frame'[q] = frame[q]
    BY <1>5, FrameAfter
  <2>6. tc'[t].status = "completed"
    BY <1>2, <1>4, <1>5 DEF Claim
  <2>7. CompleterOK(s)'
    BY <1>1, <1>3, <2>5, <2>6 DEF CompleterOK
  <2>8. \A u \in Task : tc[u].status # "absent" => tc'[u].status # "absent"
    BY <2>2 DEF Kept, Completed
  <2> QED BY <1>3, <2>3, <2>4, <2>5, <2>7, <2>8, CompleterStep DEF Moved, Checking
<1>6. CASE Return(s, FALSE) /\ UNCHANGED tc
  <2>1. frame'[s].at = "idle" /\ \A q \in Session \ {s} : frame'[q] = frame[q]
    BY <1>6, FrameAfter
  <2>2. CompleterOK(s)'
    BY <2>1 DEF CompleterOK, Unrecorded
  <2>3. \A u \in Task : Plain(u) /\ RecordOK(u)'
    BY <1>1, <1>6 DEF FinalInv, RecordOK, Plain, Kept
  <2> QED BY <1>3, <1>6, <2>1, <2>2, <2>3, CompleterStep DEF Moved, Checking
<1> QED BY <1>5, <1>6 DEF CompleteUpdate

LEMMA CompleteMergeFinal ==
  ASSUME TypeOK, FinalInv, SoleCompleter, NEW s \in Session,
         CompleteMerge(s) \/ CompleteMarkMerged(s)
  PROVE  FinalInv' /\ \A u \in Task : Moved(u)
<1> DEFINE t == frame[s].t
<1>1. /\ UNCHANGED hist
      /\ frame[s].at \in {"complete.merge", "complete.mark_merged"}
  BY DEF CompleteMerge, CompleteMarkMerged, At
<1>2. t \in Task
  BY <1>1 DEF TypeOK, TaskCall
<1>3. "complete_task" \in Calls[s] /\ hist[t] = 0 /\ tc[t].status = "completed"
  BY <1>1 DEF FinalInv, CompleterOK, Unrecorded
<1>4. \A u \in Task : Kept(u)
  BY DEF CompleteMerge, CompleteMarkMerged, Kept, TypeOK, Claim
<1>5. \A u \in Task : Plain(u) /\ RecordOK(u)'
  BY <1>1, <1>4 DEF FinalInv, RecordOK, Plain, Kept
<1>6. PICK label \in {"complete.history", "complete.mark_merged", "complete.unwind"} :
        Goto(s, label) \/ \E rs : GotoWith(s, label, rs)
  BY DEF CompleteMerge, CompleteMarkMerged
<1>7. /\ frame'[s].at = label /\ frame'[s].t = t
      /\ \A q \in Session \ {s} : frame'[q] = frame[q]
  BY <1>6, FrameAfter
<1>8. CompleterOK(s)'
  BY <1>1, <1>2, <1>3, <1>4, <1>7 DEF CompleterOK, Kept
<1>9. \A u \in Task : tc[u].status # "absent" => tc'[u].status # "absent"
  BY <1>4 DEF Kept
<1> QED BY <1>3, <1>5, <1>7, <1>8, <1>9, CompleterStep DEF Moved, Checking

LEMMA CompleteHistoryFinal ==
  ASSUME TypeOK, FinalInv, SoleCompleter, NEW s \in Session, CompleteHistory(s)
  PROVE  FinalInv' /\ \A u \in Task : Moved(u)
<1> DEFINE t == frame[s].t
<1>1. UNCHANGED tc /\ frame[s].at = "complete.history"
  BY DEF CompleteHistory, At
<1>2. t \in Task
  BY <1>1 DEF TypeOK, TaskCall
<1>3. "complete_task" \in Calls[s] /\ hist[t] = 0 /\ tc[t].status = "completed"
  BY <1>1 DEF FinalInv, CompleterOK, Unrecorded
<1>4. hist' = [hist EXCEPT ![t] = 1]
  <2>1. 0 < HistCap
    BY SessionAssumption
  <2>2. (IF hist[t] < HistCap THEN hist[t] + 1 ELSE hist[t]) = 1
    BY <1>3, <2>1
  <2> QED BY <2>2 DEF CompleteHistory, Record
<1>5. \A u \in Task : IF u = t THEN Recorded(u) ELSE Plain(u)
  BY <1>1, <1>2, <1>3, <1>4 DEF Recorded, Plain, Kept, TypeOK
<1>6. \A u \in Task : RecordOK(u)'
  BY <1>1, <1>5 DEF FinalInv, RecordOK, Recorded, Plain
<1>7. /\ frame'[s].at = "complete.set_current"
      /\ \A q \in Session \ {s} : frame'[q] = frame[q]
  BY FrameAfter DEF CompleteHistory
<1>8. CompleterOK(s)'
  BY <1>7 DEF CompleterOK, Unrecorded
<1> QED BY <1>1, <1>3, <1>5, <1>6, <1>7, <1>8, CompleterStep DEF Moved, Checking

LEMMA CompleteUnwindFinal ==
  ASSUME TypeOK, FinalInv, SoleCompleter, NEW s \in Session, CompleteUnwind(s)
  PROVE  FinalInv' /\ \A u \in Task : Moved(u)
<1> DEFINE t == frame[s].t
<1>1. UNCHANGED hist /\ frame[s].at = "complete.unwind"
  BY DEF CompleteUnwind, At
<1>2. t \in Task
  BY <1>1 DEF TypeOK, TaskCall
<1>3. "complete_task" \in Calls[s] /\ hist[t] = 0 /\ tc[t].status = "completed"
  BY <1>1 DEF FinalInv, CompleterOK, Unrecorded
<1>4. /\ tc'[t].status = "pending"
      /\ \A u \in Task \ {t} : tc'[u] = tc[u]
  <2>1. tc \in [Task -> Claim]
    BY DEF TypeOK
  <2>2. [Relinquish(tc[t]) EXCEPT !.merged = FALSE].status = "pending"
    BY <1>2, <2>1 DEF Relinquish, Claim
  <2> QED BY <1>2, <2>1, <2>2 DEF CompleteUnwind
<1>5. \A u \in Task : IF u = t THEN Unwound(u) ELSE Plain(u)
  BY <1>1, <1>3, <1>4 DEF Unwound, Plain, Kept
<1>6. \A u \in Task : RecordOK(u)'
  BY <1>1, <1>3, <1>4 DEF FinalInv, RecordOK
<1>7. /\ frame'[s].at = "complete.unwind_current"
      /\ \A q \in Session \ {s} : frame'[q] = frame[q]
  BY FrameAfter DEF CompleteUnwind
<1>8. CompleterOK(s)'
  BY <1>7 DEF CompleterOK, Unrecorded
<1>9. \A u \in Task : tc[u].status # "absent" => tc'[u].status # "absent"
  BY <1>4
<1> QED BY <1>3, <1>5, <1>6, <1>7, <1>8, <1>9, CompleterStep DEF Moved, Checking

\* Every step keeps FinalInv and moves every task in one of the ways above.
LEMMA NextFinal ==
  ASSUME TypeOK, ClaimWellFormed, FinalInv, SoleCompleter, [Next]_vars
  PROVE  FinalInv' /\ \A u \in Task : Moved(u)
<1>1. ASSUME PlainFrames, \A u \in Task : Plain(u)
      PROVE  FinalInv' /\ \A u \in Task : Moved(u)
  BY <1>1, PlainStep DEF Moved
<1>2. ASSUME NEW s \in Session, Start(s)
      PROVE  FinalInv' /\ \A u \in Task : Moved(u)
  <2>1. CASE \E r \in Ralph, t \in Task : CompleteTask(s, r, t)
    BY <2>1, CompleteTaskFinal
  <2>2. CASE ~\E r \in Ralph, t \in Task : CompleteTask(s, r, t)
    BY <1>1, <1>2, <2>2, StartPlain
  <2> QED BY <2>1, <2>2
<1>3. ASSUME NEW s \in Session, SyncRead(s)
      PROVE  FinalInv' /\ \A u \in Task : Moved(u)
  <2>1. UNCHANGED <<tc, hist>>
    BY <1>3 DEF SyncRead
  <2>2. \A u \in Task : Plain(u) /\ RecordOK(u)'
    BY <2>1 DEF Plain, Kept, FinalInv, RecordOK
  <2>3. frame \in [Session -> Frame] /\ frame[s].ts \subseteq Task
    BY DEF TypeOK, Frame
  <2>4. PICK t \in frame[s].ts :
          frame' = [frame EXCEPT ![s].at = "sync.write", ![s].t = t, ![s].seen = tc[t].status]
    BY <1>3 DEF SyncRead
  <2> DEFINE f == [frame[s] EXCEPT !.at = "sync.write", !.t = t, !.seen = tc[t].status]
  <2>5. frame' = [frame EXCEPT ![s] = f]
    BY <2>3, <2>4
  <2>6. f.at = "sync.write" /\ f.t = t /\ f.seen = tc[t].status
    BY <2>3 DEF Frame
  <2> HIDE DEF f
  <2>7. CompleterOK(s)' /\ SyncOK(s)' /\ ~Checks(s)'
    BY <2>1, <2>3, <2>4, <2>5, <2>6
       DEF CompleterOK, SyncOK, Checks, Unrecorded, Checking
  <2>8. ASSUME NEW q \in Session \ {s}  PROVE CompleterOK(q)' /\ SyncOK(q)' /\ ~Checks(q)'
    BY <2>1, <2>3, <2>5 DEF FinalInv, CompleterOK, SyncOK, Checks
  <2> QED BY <2>2, <2>7, <2>8 DEF FinalInv, Moved
<1>4. ASSUME NEW s \in Session, Continue(s), ~SyncRead(s), frame[s].at \in Unrecorded
      PROVE  FinalInv' /\ \A u \in Task : Moved(u)
  <2>1. \/ CompleteUpdate(s) \/ CompleteMerge(s) \/ CompleteMarkMerged(s)
        \/ CompleteHistory(s) \/ CompleteUnwind(s)
    BY <1>4 DEF Continue, Unrecorded, At, ClaimClearOthers, ClaimWorktree,
         ClaimSetCurrent, CompleteSetCurrent, CompleteFixPlan, CompleteUnwindCurrent,
         FailSetCurrent, ReleaseSetCurrent, ShutdownStop, StopAllRelease, StopAllStop,
         StaleRelease, StaleCrash, StaleWorktrees, SyncWrite, CheckExtend, CheckRead,
         CheckRow, CheckClear
  <2> QED BY <2>1, CompleteUpdateFinal, CompleteMergeFinal, CompleteHistoryFinal,
             CompleteUnwindFinal
<1>5. ASSUME NEW s \in Session, Crash(s)
      PROVE  FinalInv' /\ \A u \in Task : Moved(u)
  <2>1. PlainFrames
    BY <1>5, ReturnFrames DEF Crash
  <2>2. \A u \in Task : Plain(u)
    BY <1>5 DEF Crash, Plain, Kept
  <2> QED BY <1>1, <2>1, <2>2
<1>6. ASSUME NEW s \in Session, Continue(s), ~SyncRead(s), frame[s].at \notin Unrecorded
      PROVE  FinalInv' /\ \A u \in Task : Moved(u)
  BY <1>1, <1>6, ContinuePlain
<1>7. CASE Tick
  <2>1. \A u \in Task : Plain(u)
    BY <1>7 DEF Tick, AgeClaims, Plain, Kept, TypeOK, Claim
  <2> QED BY <1>1, <1>7, <2>1 DEF Tick, PlainFrames
<1>8. ASSUME UNCHANGED <<tc, hist, frame>>
      PROVE  FinalInv' /\ \A u \in Task : Moved(u)
  BY <1>1, <1>8 DEF PlainFrames, Plain, Kept
<1> QED BY <1>2, <1>3, <1>4, <1>5, <1>6, <1>7, <1>8 DEF Next, WorkerTicksPlan, vars

LEMMA InitFinal == ASSUME Init PROVE FinalInv
<1>1. ASSUME NEW t \in Task  PROVE RecordOK(t)
  <2>1. hist[t] = 0
    BY DEF Init
  <2> QED BY <2>1 DEF RecordOK
<1>2. \A s \in Session : frame[s].at = "idle"
  BY DEF Init, Idle
<1> QED BY <1>1, <1>2 DEF FinalInv, CompleterOK, SyncOK, Checks, Unrecorded, Checking

\* The inductive invariant, put together.
LEMMA Final == ASSUME SoleCompleter PROVE Spec => []FinalInv
<1>1. TypeOK /\ ClaimWellFormed /\ FinalInv /\ [Next]_vars => FinalInv'
  BY NextFinal
<1> QED BY <1>1, InitFinal, TypeCorrect, WellFormed, PTL DEF Spec

\* A completion written to task_history is final: no release, crash sweep,
\* claim, sync or failed merge of any session reopens the task.
THEOREM RecordedFinal == ASSUME SoleCompleter PROVE Spec => []RecordedIsFinal
<1>1. FinalInv => RecordedIsFinal
  BY DEF FinalInv, RecordOK, RecordedIsFinal
<1> QED BY <1>1, Final, PTL

\* complete_task is idempotent: retried and raced, it writes history once.
THEOREM RecordedAtMostOnce == ASSUME SoleCompleter PROVE Spec => []RecordedOnce
<1>1. FinalInv /\ TypeOK => RecordedOnce
  <2>1. \A n \in 0 .. HistCap : (n > 0 => n = 1) => n <= 1
    BY SessionAssumption
  <2> QED BY <2>1 DEF FinalInv, RecordOK, RecordedOnce, TypeOK
<1> QED BY <1>1, Final, TypeCorrect, PTL

-----------------------------------------------------------------------------
(***************************************************************************)
(* The tables implement the queue.                                         *)
(***************************************************************************)
\* The entry of a row, by its status.
LEMMA EntryByStatus ==
  ASSUME NEW row, NEW n
  PROVE  /\ row.status = "absent" => EntryOf(row, n) = Queue!Idle("absent")
         /\ row.status = "pending" => EntryOf(row, n) = Queue!Idle("open")
         /\ row.status = "failed" => EntryOf(row, n) = Queue!Idle("closed")
         /\ row.status = "completed" /\ ~(n > 0) => EntryOf(row, n) = Queue!Idle("closed")
         /\ row.status = "completed" /\ n > 0 => EntryOf(row, n) = Queue!Idle("final")
         /\ Held(row) => EntryOf(row, n) = Queue!HeldEntry(row.owner, ~Lapsed(row))
<1>1. row.status = "absent" => EntryOf(row, n) = Queue!Idle("absent")
  BY DEF EntryOf, Queue!Idle
<1>2. row.status = "pending" => EntryOf(row, n) = Queue!Idle("open")
  BY DEF EntryOf, Queue!Idle
<1>3. row.status = "failed" => EntryOf(row, n) = Queue!Idle("closed")
  BY DEF EntryOf, Queue!Idle
<1>4. row.status = "completed" /\ ~(n > 0) => EntryOf(row, n) = Queue!Idle("closed")
  BY DEF EntryOf, Queue!Idle
<1>5. row.status = "completed" /\ n > 0 => EntryOf(row, n) = Queue!Idle("final")
  BY DEF EntryOf, Queue!Idle
<1>6. Held(row) => EntryOf(row, n) = Queue!HeldEntry(row.owner, ~Lapsed(row))
  BY DEF Held, EntryOf, Queue!HeldEntry
<1> QED BY <1>1, <1>2, <1>3, <1>4, <1>5, <1>6

LEMMA EntryType ==
  ASSUME NEW row \in Claim, NEW n
  PROVE  EntryOf(row, n) \in [stage : Queue!Stage, holder : Ralph \cup {NULL}, live : BOOLEAN]
<1> DEFINE T == [stage : Queue!Stage, holder : Ralph \cup {NULL}, live : BOOLEAN]
<1>1. \A stage \in Queue!Stage : Queue!Idle(stage) \in T
  BY DEF Queue!Idle
<1>2. \A r \in Ralph \cup {NULL}, live \in BOOLEAN : Queue!HeldEntry(r, live) \in T
  BY DEF Queue!HeldEntry, Queue!Stage
<1>3. CASE Held(row)
  <2>1. row.owner \in Ralph \cup {NULL}
    BY DEF Claim
  <2>2. \E live \in BOOLEAN : EntryOf(row, n) = Queue!HeldEntry(row.owner, live)
    BY <1>3, EntryByStatus DEF Queue!HeldEntry
  <2> QED BY <1>2, <2>1, <2>2
<1>4. CASE ~Held(row)
  <2>1. \E stage \in Queue!Stage : EntryOf(row, n) = Queue!Idle(stage)
    BY <1>4 DEF Claim, ClaimStatus, Held, EntryOf, Queue!Idle, Queue!Stage
  <2> QED BY <1>1, <2>1
<1> QED BY <1>3, <1>4

\* Each way a row may move is a move of the queue.
LEMMA MovedIsMove ==
  ASSUME TypeOK, TypeOK', FinalInv, NEW t \in Task, Moved(t)
  PROVE  Queue!Move(EntryOf(tc[t], hist[t]), EntryOf(tc'[t], hist'[t]))
<1> DEFINE e == EntryOf(tc[t], hist[t])
<1> DEFINE f == EntryOf(tc'[t], hist'[t])
<1> SUFFICES Queue!Move(e, f)
  OBVIOUS
<1>1. tc[t] \in Claim /\ tc'[t] \in Claim /\ RecordOK(t)
  BY DEF TypeOK, FinalInv
<1>2. CASE Unwound(t)
  <2>1. e = Queue!Idle("closed") /\ f = Queue!Idle("open")
    BY <1>2, EntryByStatus DEF Unwound
  <2> QED BY <2>1 DEF Queue!Move, Queue!Reopen, Queue!Idle
<1>3. CASE Recorded(t)
  <2>1. e = Queue!Idle("closed") /\ f = Queue!Idle("final")
    BY <1>3, EntryByStatus DEF Recorded
  <2> QED BY <2>1 DEF Queue!Move, Queue!Finalize, Queue!Idle
<1>4. CASE Plain(t)
  <2>1. hist'[t] = hist[t]
    BY <1>4 DEF Plain
  <2>2. CASE Kept(t) /\ Held(tc[t])
    <3>1. e = Queue!HeldEntry(tc[t].owner, ~Lapsed(tc[t]))
      BY <2>2, EntryByStatus
    <3>2. f = Queue!HeldEntry(tc[t].owner, ~Lapsed(tc'[t]))
      BY <2>2, EntryByStatus DEF Kept, Held
    <3> HIDE DEF e, f
    <3> QED BY <3>1, <3>2 DEF Queue!Move, Queue!KeepHolding, Queue!HeldEntry
  <2>3. CASE Kept(t) /\ ~Held(tc[t])
    <3>1. f = e
      BY <2>1, <2>3 DEF Kept, Held, EntryOf
    <3> QED BY <3>1 DEF Queue!Move
  <2>4. CASE Taken(t)
    <3>1. PICK r \in Ralph : tc'[t] = Grant(tc[t], r)
      BY <2>4 DEF Taken
    <3>2. Held(tc'[t]) /\ tc'[t].owner = r /\ ~Lapsed(tc'[t])
      BY <1>1, <3>1, TableAssumption DEF Grant, Claim, Held, Lapsed
    <3>3. f = Queue!HeldEntry(r, TRUE)
      BY <3>2, EntryByStatus DEF Queue!HeldEntry
    <3>4. CASE tc[t].status = "pending"
      <4>1. e = Queue!Idle("open")
        BY <3>4, EntryByStatus
      <4> HIDE DEF e, f
      <4> QED BY <3>3, <4>1 DEF Queue!Move, Queue!Take, Queue!Idle
    <3>5. CASE Held(tc[t]) /\ Lapsed(tc[t])
      <4>1. e = Queue!HeldEntry(tc[t].owner, FALSE)
        BY <3>5, EntryByStatus DEF Queue!HeldEntry
      <4> HIDE DEF e, f
      <4> QED BY <3>3, <4>1 DEF Queue!Move, Queue!Retake, Queue!HeldEntry
    <3> QED BY <2>4, <3>4, <3>5 DEF Taken, Claimable
  <2>5. CASE GivenBack(t) \/ Failed(t)
    <3>1. e = Queue!HeldEntry(tc[t].owner, ~Lapsed(tc[t]))
      BY <2>5, EntryByStatus DEF GivenBack, Failed
    <3>2. tc'[t].status \in {"pending", "failed"}
      BY <1>1, <2>5 DEF GivenBack, Failed, Relinquish, Claim
    <3>3. f \in {Queue!Idle("open"), Queue!Idle("closed")}
      BY <3>2, EntryByStatus
    <3> QED BY <3>1, <3>3 DEF Queue!Move, Queue!GiveBack, Queue!Close, Queue!HeldEntry
  <2>6. CASE Completed(t)
    <3>1. CASE hist[t] > 0
      BY <1>1, <2>1, <2>6, <3>1, EntryByStatus DEF RecordOK, Completed, Queue!Move
    <3>2. CASE ~(hist[t] > 0)
      <4>1. f = Queue!Idle("closed")
        BY <2>1, <2>6, <3>2, EntryByStatus DEF Completed
      <4>2. e.stage \in {"open", "held", "closed"}
        BY <1>1, <2>6, <3>2 DEF Completed, Claim, ClaimStatus, EntryOf
      <4>3. e.stage = "closed" => e = f
        BY <4>1 DEF EntryOf, Queue!Idle
      <4> QED BY <4>1, <4>2, <4>3 DEF Queue!Move, Queue!Close
    <3> QED BY <3>1, <3>2
  <2>7. CASE Inserted(t)
    <3>1. ~(hist[t] > 0) /\ e = Queue!Idle("absent")
      BY <1>1, <2>7, EntryByStatus DEF Inserted, RecordOK
    <3>2. tc'[t].status \in {"pending", "completed"}
      BY <2>7 DEF Inserted, NewClaim
    <3>3. f \in {Queue!Idle("open"), Queue!Idle("closed")}
      BY <2>1, <3>1, <3>2, EntryByStatus
    <3> QED BY <3>1, <3>3 DEF Queue!Move, Queue!Add, Queue!Idle
  <2> QED BY <1>4, <2>2, <2>3, <2>4, <2>5, <2>6, <2>7 DEF Plain
<1> QED BY <1>2, <1>3, <1>4 DEF Moved

\* coordination.py implements the work queue: a task is handed out only from
\* the queue or from a holder whose lease ran out, and stays done once final.
THEOREM QueueImplemented == ASSUME SoleCompleter PROVE Spec => ImplementsQueue
<1>1. Init => Queue!Init
  <2> SUFFICES ASSUME Init, NEW t \in Task
               PROVE  EntryOf(tc[t], hist[t]) \in {Queue!Idle("absent"), Queue!Idle("open")}
    BY DEF Queue!Init
  <2>1. tc[t].status \in {"absent", "pending"}
    BY DEF Init, NewClaim
  <2> QED BY <2>1, EntryByStatus
<1>2. /\ TypeOK /\ TypeOK' /\ ClaimWellFormed /\ FinalInv /\ [Next]_vars
      => Queue!Next
  <2> SUFFICES ASSUME TypeOK, TypeOK', ClaimWellFormed, FinalInv, [Next]_vars
               PROVE  Queue!Next
    OBVIOUS
  <2>1. \A t \in Task : Queue!Move(EntryOf(tc[t], hist[t]), EntryOf(tc'[t], hist'[t]))
    BY NextFinal, MovedIsMove
  <2>2. \A t \in Task :
          EntryOf(tc'[t], hist'[t]) \in
            [stage : Queue!Stage, holder : Ralph \cup {NULL}, live : BOOLEAN]
    BY EntryType DEF TypeOK
  <2> QED BY <2>1, <2>2 DEF Queue!Next
<1> QED BY <1>1, <1>2, TypeCorrect, WellFormed, Final, PTL
        DEF Spec, ImplementsQueue, Queue!Spec

-----------------------------------------------------------------------------
\* While a claim has not lapsed its holder loses it only through a call made
\* for that holder.
THEOREM ClaimProtected == ASSUME SoleCompleter PROVE Spec => LiveClaimProtected
<1>1. TypeOK /\ ClaimWellFormed /\ FinalInv /\ [Next]_vars
      => \A t \in Task :
           Live(tc[t]) /\ (tc'[t].owner # tc[t].owner)
             => \E s \in Session : ActsFor(s, tc[t].owner)
  <2> SUFFICES ASSUME TypeOK, ClaimWellFormed, FinalInv, [Next]_vars, NEW t \in Task,
                      Live(tc[t]), tc'[t].owner # tc[t].owner
               PROVE  \E s \in Session : ActsFor(s, tc[t].owner)
    OBVIOUS
  <2>1. Held(tc[t]) /\ ~Lapsed(tc[t])
    BY DEF Live
  <2>2. ~Unwound(t) /\ ~Recorded(t) /\ ~Inserted(t) /\ ~Taken(t)
    BY <2>1 DEF Held, Unwound, Recorded, Inserted, Taken, Claimable
  <2>3. ~Kept(t) /\ ~Failed(t) /\ ~Completed(t)
    BY DEF Kept, Failed, Completed
  <2>4. GivenBack(t)
    BY <2>2, <2>3, NextFinal DEF Moved, Plain
  <2> QED BY <2>4 DEF GivenBack
<1> QED BY <1>1, TypeCorrect, WellFormed, Final, PTL DEF Spec, LiveClaimProtected

-----------------------------------------------------------------------------
(***************************************************************************)
(* Merged work.  The process that completes is here also the one that      *)
(* claims, as the daemon is: a session that claims knows that no           *)
(* completion of its task is recorded before it has written where the      *)
(* worktree is.  (Of a claim left half way by another process nothing of   *)
(* the kind can be said: its worktree is written over a finished row.)     *)
(***************************************************************************)
SoleWorker ==
  /\ SoleCompleter
  /\ \A s \in Session : "claim_task" \in Calls[s] => "complete_task" \in Calls[s]

Claiming == {"claim.clear_others", "claim.worktree"}

MergedRow(row) == row.wt # NULL => row.merged

ClaimerOK(s) ==
  frame[s].at \in Claiming => "claim_task" \in Calls[s] /\ hist[frame[s].t] = 0

MergeInv ==
  /\ \A t \in Task : hist[t] > 0 => MergedRow(tc[t])
  /\ \A s \in Session :
       /\ frame[s].at = "complete.history" => MergedRow(tc[frame[s].t])
       /\ ClaimerOK(s)

\* What most statements do to the worktree columns of a row.
TreeKept(u) == tc'[u].wt = NULL \/ (tc'[u].wt = tc[u].wt /\ tc'[u].merged = tc[u].merged)

TreesKept == \A u \in Task : TreeKept(u)

LEMMA OneTree ==
  ASSUME TypeOK, NEW t \in Task, NEW row, tc' = [tc EXCEPT ![t] = row],
         row.wt = NULL \/ (row.wt = tc[t].wt /\ row.merged = tc[t].merged)
  PROVE  TreesKept
BY DEF TypeOK, TreesKept, TreeKept

LEMMA RowsKeepTrees ==
  ASSUME NEW row \in Claim
  PROVE  /\ \A r \in Ralph :
              Grant(row, r).wt = row.wt /\ Grant(row, r).merged = row.merged
         /\ Relinquish(row).wt = row.wt /\ Relinquish(row).merged = row.merged
         /\ \A st : [row EXCEPT !.status = st].wt = row.wt
                    /\ [row EXCEPT !.status = st].merged = row.merged
         /\ \A n : [row EXCEPT !.lease = n].wt = row.wt
                   /\ [row EXCEPT !.lease = n].merged = row.merged
         /\ \A st : NewClaim(st).wt = NULL
BY DEF Claim, Grant, Relinquish, NewClaim

LEMMA StatusKeepsTrees ==
  ASSUME TypeOK, NEW t, NEW status, tc' = [tc EXCEPT ![t].status = status]
  PROVE  TreesKept
<1>1. tc \in [Task -> Claim]
  BY DEF TypeOK
<1>2. ASSUME NEW u \in Task  PROVE TreeKept(u)
  <2>1. CASE u = t
    BY <1>1, <2>1, RowsKeepTrees DEF TreeKept
  <2>2. CASE u # t
    BY <1>1, <2>2 DEF TreeKept
  <2> QED BY <2>1, <2>2
<1> QED BY <1>2 DEF TreesKept

LEMMA InsertKeepsTrees ==
  ASSUME TypeOK, NEW t, NEW status, tc' = [tc EXCEPT ![t] = NewClaim(status)]
  PROVE  TreesKept
<1>1. tc \in [Task -> Claim]
  BY DEF TypeOK
<1> QED BY <1>1 DEF TreesKept, TreeKept, NewClaim

LEMMA ReleaseKeepsTrees ==
  ASSUME TypeOK, NEW T, tc' = ReleaseAll(tc, T)
  PROVE  TreesKept
<1>1. tc \in [Task -> Claim]
  BY DEF TypeOK
<1> QED BY <1>1, RowsKeepTrees DEF ReleaseAll, TreesKept, TreeKept

LEMMA SameTrees == ASSUME UNCHANGED tc PROVE TreesKept
BY DEF TreesKept, TreeKept

\* No call but claim_task and complete_task touches the worktree columns.
LEMMA StartKeepsTrees ==
  ASSUME TypeOK, SoleCompleter, NEW s \in Session, Start(s)
  PROVE  TreesKept
<1>1. tc \in [Task -> Claim]
  BY DEF TypeOK
<1>2. CASE MarkStale(s) \/ StopAll(s) \/ Sync(s)
  BY <1>2, SameTrees DEF MarkStale, StopAll, Sync
<1>3. ASSUME NEW r \in Ralph,
             \/ Register(s, r) \/ Heartbeat(s, r) \/ PauseInstance(s, r)
             \/ ResumeInstance(s, r) \/ DeleteInstance(s, r)
      PROVE  TreesKept
  BY <1>3, SameTrees
     DEF Register, Heartbeat, PauseInstance, ResumeInstance, DeleteInstance
<1>4. ASSUME NEW r \in Ralph, ClaimTask(s, r)  PROVE TreesKept
  <2>1. ASSUME NEW t \in Task, tc' = [tc EXCEPT ![t] = Grant(@, r)]  PROVE TreesKept
    BY <1>1, <2>1, OneTree, RowsKeepTrees
  <2> QED BY <1>4, <2>1, SameTrees DEF ClaimTask, First, ClaimableTasks
<1>5. ASSUME NEW r \in Ralph, ShutdownInstance(s, r)  PROVE TreesKept
  BY <1>5, ReleaseKeepsTrees DEF ShutdownInstance
<1>6. ASSUME NEW r \in Ralph, NEW t \in Task, CompleteTask(s, r, t)  PROVE TreesKept
  BY <1>6, SameTrees DEF CompleteTask
<1>7. ASSUME NEW r \in Ralph, NEW t \in Task, ExtendClaim(s, r, t)  PROVE TreesKept
  <2>1. tc' = [tc EXCEPT ![t] = [tc[t] EXCEPT !.lease = CLAIM_EXPIRY]]
    BY <1>1, <1>7 DEF ExtendClaim
  <2> QED BY <1>1, <2>1, OneTree, RowsKeepTrees
<1>8. ASSUME NEW r \in Ralph, NEW t \in Task, FailTask(s, r, t)  PROVE TreesKept
  BY <1>8, SameTrees, StatusKeepsTrees DEF FailTask
<1>9. ASSUME NEW r \in Ralph, NEW t \in Task, ReleaseClaim(s, r, t)  PROVE TreesKept
  <2>1. \/ UNCHANGED tc
        \/ tc' = [tc EXCEPT ![t] = Relinquish(tc[t])]
    BY <1>1, <1>9 DEF ReleaseClaim
  <2> QED BY <1>1, <2>1, SameTrees, OneTree, RowsKeepTrees
<1>10. ASSUME NEW t \in Task, ArchiveTask(s, t) \/ BulkRequeue(s, t)  PROVE FALSE
  BY <1>10 DEF ArchiveTask, BulkRequeue, May, SoleCompleter
<1>11. ASSUME NEW running \in SUBSET Ralph, CheckCompletions(s, running)  PROVE FALSE
  BY <1>11 DEF CheckCompletions, May, SoleCompleter
<1> QED BY <1>2, <1>3, <1>4, <1>5, <1>6, <1>7, <1>8, <1>9, <1>10, <1>11 DEF Start

LEMMA ContinueKeepsTrees ==
  ASSUME TypeOK, FinalInv, NEW s \in Session, Continue(s) \/ Crash(s),
         ~ClaimWorktree(s), ~CompleteMarkMerged(s), ~CompleteUnwind(s)
  PROVE  TreesKept
<1>1. CASE ClaimClearOthers(s) \/ ClaimSetCurrent(s) \/ CompleteSetCurrent(s)
           \/ CompleteMerge(s) \/ CompleteHistory(s)
  BY <1>1, SameTrees DEF ClaimClearOthers, ClaimSetCurrent, CompleteSetCurrent,
                         CompleteMerge, CompleteHistory
<1>2. CASE CompleteFixPlan(s) \/ CompleteUnwindCurrent(s) \/ FailSetCurrent(s)
           \/ ReleaseSetCurrent(s) \/ ShutdownStop(s) \/ StopAllStop(s)
  BY <1>2, SameTrees DEF CompleteFixPlan, CompleteUnwindCurrent, FailSetCurrent,
                         ReleaseSetCurrent, ShutdownStop, StopAllStop
<1>3. CASE StaleCrash(s) \/ StaleWorktrees(s) \/ Crash(s) \/ SyncRead(s)
  BY <1>3, SameTrees DEF StaleCrash, StaleWorktrees, Crash, SyncRead
<1>4. CASE StopAllRelease(s) \/ StaleRelease(s)
  BY <1>4, ReleaseKeepsTrees DEF StopAllRelease, StaleRelease
<1>5. CASE CompleteUpdate(s)
  BY <1>5, SameTrees, StatusKeepsTrees DEF CompleteUpdate
<1>6. CASE SyncWrite(s)
  BY <1>6, SameTrees, StatusKeepsTrees, InsertKeepsTrees DEF SyncWrite
<1>7. CASE CheckExtend(s) \/ CheckRead(s) \/ CheckRow(s) \/ CheckClear(s)
  BY <1>7 DEF CheckExtend, CheckRead, CheckRow, CheckClear, At, FinalInv, Checks, Checking
<1> QED BY <1>1, <1>2, <1>3, <1>4, <1>5, <1>6, <1>7 DEF Continue

\* No other statement brings a session into a claim.
ClaimOutside ==
  \A q \in Session : frame'[q].at \in Claiming => frame'[q] = frame[q]

LEMMA CallOutside ==
  ASSUME TypeOK, NEW s \in Session, NEW label \in Label \ Claiming,
         \/ \E r, t : Call(s, label, r, t)
         \/ \E rs : CallOn(s, label, rs) \/ GotoWith(s, label, rs)
         \/ Goto(s, label)
  PROVE  ClaimOutside
<1>1. frame \in [Session -> Frame]
  BY DEF TypeOK
<1>2. ASSUME NEW r, NEW t, Call(s, label, r, t)  PROVE ClaimOutside
  BY <1>1, <1>2 DEF ClaimOutside, Call, Idle
<1>3. ASSUME NEW rs, CallOn(s, label, rs)  PROVE ClaimOutside
  BY <1>1, <1>3 DEF ClaimOutside, CallOn, Idle
<1>4. ASSUME NEW rs, GotoWith(s, label, rs)  PROVE ClaimOutside
  BY <1>1, <1>4 DEF ClaimOutside, GotoWith, Frame
<1>5. ASSUME Goto(s, label)  PROVE ClaimOutside
  BY <1>1, <1>5 DEF ClaimOutside, Goto, Frame
<1> QED BY <1>2, <1>3, <1>4, <1>5

LEMMA ReturnOutside ==
  ASSUME TypeOK, NEW s \in Session,
         (\E ok \in BOOLEAN : Return(s, ok)) \/ (\E t : ReturnTask(s, t))
  PROVE  ClaimOutside
<1>1. frame \in [Session -> Frame]
  BY DEF TypeOK
<1>2. ASSUME NEW ok, Return(s, ok)  PROVE ClaimOutside
  BY <1>1, <1>2 DEF ClaimOutside, Return, Idle, Claiming
<1>3. ASSUME NEW t, ReturnTask(s, t)  PROVE ClaimOutside
  BY <1>1, <1>3 DEF ClaimOutside, ReturnTask, Idle, Claiming
<1> QED BY <1>2, <1>3

LEMMA StartOutside ==
  ASSUME TypeOK, SoleCompleter, NEW s \in Session, Start(s),
         ~\E r \in Ralph : ClaimTask(s, r)
  PROVE  ClaimOutside
<1> USE DEF Label, Claiming
<1>1. CASE MarkStale(s) \/ StopAll(s)
  BY <1>1, CallOutside DEF MarkStale, StopAll
<1>2. CASE Sync(s)
  BY <1>2 DEF Sync, ClaimOutside, Idle, TypeOK, Frame
<1>3. ASSUME NEW r \in Ralph,
             \/ Register(s, r) \/ Heartbeat(s, r) \/ PauseInstance(s, r)
             \/ ResumeInstance(s, r) \/ DeleteInstance(s, r) \/ ShutdownInstance(s, r)
      PROVE  ClaimOutside
  BY <1>3, CallOutside, ReturnOutside DEF Register, Heartbeat, PauseInstance,
     ResumeInstance, DeleteInstance, ShutdownInstance
<1>4. ASSUME NEW r \in Ralph, NEW t \in Task,
             CompleteTask(s, r, t) \/ ExtendClaim(s, r, t)
      PROVE  ClaimOutside
  BY <1>4, CallOutside, ReturnOutside DEF CompleteTask, ExtendClaim
<1>5. ASSUME NEW r \in Ralph, NEW t \in Task, FailTask(s, r, t) \/ ReleaseClaim(s, r, t)
      PROVE  ClaimOutside
  BY <1>5, CallOutside, ReturnOutside DEF FailTask, ReleaseClaim
<1>6. ASSUME NEW t \in Task, ArchiveTask(s, t) \/ BulkRequeue(s, t)  PROVE FALSE
  BY <1>6 DEF ArchiveTask, BulkRequeue, May, SoleCompleter
<1>7. ASSUME NEW running \in SUBSET Ralph, CheckCompletions(s, running)  PROVE FALSE
  BY <1>7 DEF CheckCompletions, May, SoleCompleter
<1> QED BY <1>1, <1>2, <1>3, <1>4, <1>5, <1>6, <1>7 DEF Start

LEMMA ContinueOutside ==
  ASSUME TypeOK, FinalInv, NEW s \in Session, Continue(s) \/ Crash(s), ~ClaimClearOthers(s)
  PROVE  ClaimOutside
<1> USE DEF Label, Claiming
<1>1. CASE ClaimWorktree(s) \/ ClaimSetCurrent(s) \/ CompleteUpdate(s)
           \/ CompleteMerge(s) \/ CompleteMarkMerged(s)
  BY <1>1, CallOutside, ReturnOutside DEF ClaimWorktree, ClaimSetCurrent, CompleteUpdate,
     CompleteMerge, CompleteMarkMerged
<1>2. CASE CompleteHistory(s) \/ CompleteSetCurrent(s) \/ CompleteFixPlan(s)
           \/ CompleteUnwind(s) \/ CompleteUnwindCurrent(s)
  BY <1>2, CallOutside, ReturnOutside DEF CompleteHistory, CompleteSetCurrent,
     CompleteFixPlan, CompleteUnwind, CompleteUnwindCurrent
<1>3. CASE FailSetCurrent(s) \/ ReleaseSetCurrent(s) \/ ShutdownStop(s)
           \/ StopAllRelease(s) \/ StopAllStop(s)
  BY <1>3, CallOutside, ReturnOutside DEF FailSetCurrent, ReleaseSetCurrent,
     ShutdownStop, StopAllRelease, StopAllStop
<1>4. CASE StaleRelease(s) \/ StaleCrash(s) \/ StaleWorktrees(s) \/ Crash(s)
  BY <1>4, CallOutside, ReturnOutside DEF StaleRelease, StaleCrash, StaleWorktrees, Crash
<1>5. ASSUME NEW f, frame' = [frame EXCEPT ![s] = f], f.at \notin Claiming
      PROVE  ClaimOutside
  BY <1>5 DEF ClaimOutside, TypeOK
<1>6. frame \in [Session -> Frame] /\ frame[s] \in Frame
  BY DEF TypeOK
<1>7. CASE SyncRead(s)
  <2>1. PICK t \in frame[s].ts :
          frame' = [frame EXCEPT ![s].at = "sync.write", ![s].t = t, ![s].seen = tc[t].status]
    BY <1>7 DEF SyncRead
  <2> DEFINE f == [frame[s] EXCEPT !.at = "sync.write", !.t = t, !.seen = tc[t].status]
  <2>2. frame' = [frame EXCEPT ![s] = f] /\ f.at = "sync.write"
    BY <1>6, <2>1 DEF Frame
  <2> HIDE DEF f
  <2> QED BY <1>5, <2>2
<1>8. CASE SyncWrite(s)
  <2> DEFINE left == frame[s].ts \ {frame[s].t}
             f    == [frame[s] EXCEPT !.at = "sync.read", !.ts = left]
  <2>1. f.at = "sync.read"
    BY <1>6 DEF Frame
  <2>2. ASSUME frame' = [frame EXCEPT ![s].at = "sync.read", ![s].ts = left]
        PROVE  ClaimOutside
    <3>1. frame' = [frame EXCEPT ![s] = f]
      BY <1>6, <2>2
    <3> HIDE DEF f
    <3> QED BY <1>5, <2>1, <3>1
  <2> QED BY <1>8, <2>2, ReturnOutside DEF SyncWrite
<1>9. CASE CheckExtend(s) \/ CheckRead(s) \/ CheckRow(s) \/ CheckClear(s)
  BY <1>9 DEF CheckExtend, CheckRead, CheckRow, CheckClear, At, FinalInv, Checks, Checking
<1> QED BY <1>1, <1>2, <1>3, <1>4, <1>7, <1>8, <1>9 DEF Continue

\* A step that keeps rows, history and the frames in question keeps MergeInv.
LEMMA TreeStep ==
  ASSUME TypeOK, MergeInv, TreesKept, \A t \in Task : hist'[t] = hist[t], ClaimOutside,
         \A q \in Session : frame'[q].at = "complete.history" => frame'[q] = frame[q]
  PROVE  MergeInv'
<1>1. ASSUME NEW t \in Task, MergedRow(tc[t])  PROVE MergedRow(tc'[t])
  BY <1>1 DEF TreesKept, TreeKept, MergedRow
<1>2. ASSUME NEW q \in Session, frame'[q].at = "complete.history"
      PROVE  MergedRow(tc'[frame'[q].t])
  <2>1. frame'[q] = frame[q] /\ frame[q].at = "complete.history"
    BY <1>2
  <2>2. frame[q].t \in Task
    BY <2>1 DEF TypeOK, TaskCall
  <2> QED BY <1>1, <2>1, <2>2 DEF MergeInv
<1>3. ASSUME NEW q \in Session  PROVE ClaimerOK(q)'
  <2>1. frame[q].at \in Claiming => frame[q].t \in Task
    BY DEF TypeOK, TaskCall, Claiming
  <2> QED BY <2>1 DEF MergeInv, ClaimerOK, ClaimOutside
<1> QED BY <1>1, <1>2, <1>3 DEF MergeInv

LEMMA ClaimMerge ==
  ASSUME TypeOK, FinalInv, MergeInv, SoleWorker, NEW s \in Session,
         \/ \E r \in Ralph : ClaimTask(s, r)
         \/ ClaimClearOthers(s) \/ ClaimWorktree(s)
  PROVE  MergeInv'
<1>1. UNCHANGED hist
  BY DEF ClaimTask, ClaimClearOthers, ClaimWorktree
<1>2. CASE \E r \in Ralph : ClaimTask(s, r)
  <2>1. PICK r \in Ralph : ClaimTask(s, r)
    BY <1>2
  <2>2. TreesKept
    BY <2>1, StartKeepsTrees DEF Start, SoleWorker
  <2>3. CASE \E t \in First(ClaimableTasks(tc)) : Call(s, "claim.clear_others", r, t)
    <3>1. PICK t \in First(ClaimableTasks(tc)) : Call(s, "claim.clear_others", r, t)
      BY <2>3
    <3>2. t \in Task /\ tc[t].status # "completed" /\ "claim_task" \in Calls[s]
      BY <2>1 DEF First, ClaimableTasks, Claimable, Held, ClaimTask, May
    <3>3. hist[t] = 0
      BY <3>2 DEF FinalInv, RecordOK, TypeOK
    <3>4. /\ frame'[s].at = "claim.clear_others" /\ frame'[s].t = t
          /\ \A q \in Session \ {s} : frame'[q] = frame[q]
      BY <3>1, FrameAfter
    <3>5. \A q \in Session : ClaimerOK(q)'
      BY <1>1, <3>2, <3>3, <3>4 DEF MergeInv, ClaimerOK
    <3>6. \A t1 \in Task : MergedRow(tc[t1]) => MergedRow(tc'[t1])
      BY <2>2 DEF TreesKept, TreeKept, MergedRow
    <3>7. ASSUME NEW q \in Session, frame'[q].at = "complete.history"
          PROVE  MergedRow(tc'[frame'[q].t])
      <4>1. frame'[q] = frame[q]
        BY <3>4, <3>7
      <4>2. frame[q].t \in Task
        BY <3>7, <4>1 DEF TypeOK, TaskCall
      <4> QED BY <3>6, <3>7, <4>1, <4>2 DEF MergeInv
    <3> QED BY <1>1, <3>5, <3>6, <3>7 DEF MergeInv
  <2>4. CASE Return(s, FALSE)
    <3>1. frame'[s].at = "idle" /\ \A q \in Session \ {s} : frame'[q] = frame[q]
      BY <2>4, FrameAfter
    <3>2. ClaimOutside
      BY <3>1 DEF ClaimOutside, Claiming
    <3> QED BY <1>1, <2>2, <3>1, <3>2, TreeStep
  <2> QED BY <2>1, <2>3, <2>4 DEF ClaimTask
<1>3. CASE ClaimClearOthers(s)
  <2>1. UNCHANGED tc /\ frame[s].at = "claim.clear_others"
    BY <1>3 DEF ClaimClearOthers, At
  <2>2. /\ frame'[s].at = "claim.worktree" /\ frame'[s].t = frame[s].t
        /\ \A q \in Session \ {s} : frame'[q] = frame[q]
    BY <1>3, FrameAfter DEF ClaimClearOthers
  <2> QED BY <1>1, <2>1, <2>2 DEF MergeInv, ClaimerOK, Claiming
<1>4. CASE ClaimWorktree(s)
  <2> DEFINE t == frame[s].t
  <2>1. frame[s].at = "claim.worktree"
    BY <1>4 DEF ClaimWorktree, At
  <2>2. hist[t] = 0 /\ "complete_task" \in Calls[s]
    BY <2>1 DEF MergeInv, ClaimerOK, Claiming, SoleWorker
  <2>3. /\ frame'[s].at = "claim.set_current"
        /\ \A q \in Session \ {s} : frame'[q] = frame[q]
    BY <1>4, FrameAfter DEF ClaimWorktree
  <2>4. \A u \in Task \ {t} : tc'[u] = tc[u]
    BY <1>4 DEF ClaimWorktree, TypeOK
  <2>5. \A q \in Session \ {s} : frame[q].at # "complete.history"
    BY <2>2 DEF FinalInv, CompleterOK, Unrecorded, SoleWorker, SoleCompleter
  <2>6. \A u \in Task : hist'[u] > 0 => MergedRow(tc'[u])
    BY <1>1, <2>2, <2>4 DEF MergeInv
  <2>7. \A q \in Session : ClaimerOK(q)'
    BY <1>1, <2>3 DEF MergeInv, ClaimerOK, Claiming
  <2> QED BY <2>3, <2>5, <2>6, <2>7 DEF MergeInv
<1> QED BY <1>2, <1>3, <1>4

LEMMA CompleteMergeInv ==
  ASSUME TypeOK, FinalInv, MergeInv, SoleWorker, NEW s \in Session,
         \/ CompleteUpdate(s) \/ CompleteMerge(s) \/ CompleteMarkMerged(s)
         \/ CompleteHistory(s) \/ CompleteUnwind(s)
  PROVE  MergeInv'
<1> DEFINE t == frame[s].t
<1>1. frame[s].at \in Unrecorded
  BY DEF CompleteUpdate, CompleteMerge, CompleteMarkMerged, CompleteHistory,
         CompleteUnwind, At, Unrecorded
<1>2. t \in Task /\ tc \in [Task -> Claim] /\ hist \in [Task -> 0 .. HistCap]
  BY <1>1 DEF TypeOK, TaskCall, Unrecorded
<1>3. "complete_task" \in Calls[s] /\ hist[t] = 0
  BY <1>1 DEF FinalInv, CompleterOK
<1>4. \A q \in Session \ {s} : frame[q].at \notin Claiming \cup {"complete.history"}
  BY <1>3 DEF FinalInv, CompleterOK, Unrecorded, MergeInv, ClaimerOK, SoleWorker, SoleCompleter
<1>5. ASSUME NEW label \in Label \ Claiming,
             frame'[s].at = label, \A q \in Session \ {s} : frame'[q] = frame[q],
             \A u \in Task \ {t} : tc'[u] = tc[u] /\ hist'[u] = hist[u],
             hist'[t] > 0 => MergedRow(tc'[t]),
             label = "complete.history" => frame'[s].t = t /\ MergedRow(tc'[t])
      PROVE  MergeInv'
  <2>1. \A u \in Task : hist'[u] > 0 => MergedRow(tc'[u])
    BY <1>5 DEF MergeInv
  <2>2. \A q \in Session : ClaimerOK(q)'
    BY <1>4, <1>5 DEF ClaimerOK
  <2>3. \A q \in Session : frame'[q].at = "complete.history" => MergedRow(tc'[frame'[q].t])
    BY <1>4, <1>5
  <2> QED BY <2>1, <2>2, <2>3 DEF MergeInv
<1>6. CASE CompleteUpdate(s)
  <2>1. UNCHANGED hist /\ \A u \in Task \ {t} : tc'[u] = tc[u]
    BY <1>2, <1>6 DEF CompleteUpdate
  <2>2. \E label \in {"complete.merge", "idle"} :
          frame'[s].at = label /\ \A q \in Session \ {s} : frame'[q] = frame[q]
    BY <1>6, FrameAfter DEF CompleteUpdate
  <2> QED BY <1>3, <1>5, <2>1, <2>2 DEF Label, Claiming
<1>7. CASE CompleteMerge(s)
  <2>1. UNCHANGED <<hist, tc>>
    BY <1>7 DEF CompleteMerge
  <2>2. PICK label \in {"complete.history", "complete.mark_merged", "complete.unwind"} :
          /\ Goto(s, label) \/ \E rs : GotoWith(s, label, rs)
          /\ label = "complete.history" => tc[t].wt = NULL
    BY <1>7 DEF CompleteMerge
  <2>3. /\ frame'[s].at = label /\ frame'[s].t = t
        /\ \A q \in Session \ {s} : frame'[q] = frame[q]
    BY <2>2, FrameAfter
  <2> QED BY <1>3, <1>5, <2>1, <2>2, <2>3 DEF Label, Claiming, MergedRow
<1>8. CASE CompleteMarkMerged(s)
  <2>1. UNCHANGED hist /\ tc' = [tc EXCEPT ![t].merged = TRUE]
    BY <1>8 DEF CompleteMarkMerged
  <2>2. MergedRow(tc'[t]) /\ \A u \in Task \ {t} : tc'[u] = tc[u]
    BY <1>2, <2>1 DEF MergedRow, Claim
  <2>3. /\ frame'[s].at = "complete.history" /\ frame'[s].t = t
        /\ \A q \in Session \ {s} : frame'[q] = frame[q]
    BY <1>8, FrameAfter DEF CompleteMarkMerged
  <2> QED BY <1>3, <1>5, <2>1, <2>2, <2>3 DEF Label, Claiming
<1>9. CASE CompleteHistory(s)
  <2>1. UNCHANGED tc /\ \A u \in Task \ {t} : hist'[u] = hist[u]
    BY <1>2, <1>9 DEF CompleteHistory, Record
  <2>2. MergedRow(tc[t])
    BY <1>9 DEF CompleteHistory, At, MergeInv
  <2>3. /\ frame'[s].at = "complete.set_current"
        /\ \A q \in Session \ {s} : frame'[q] = frame[q]
    BY <1>9, FrameAfter DEF CompleteHistory
  <2> QED BY <1>5, <2>1, <2>2, <2>3 DEF Label, Claiming
<1>10. CASE CompleteUnwind(s)
  <2>1. UNCHANGED hist /\ \A u \in Task \ {t} : tc'[u] = tc[u]
    BY <1>2, <1>10 DEF CompleteUnwind
  <2>2. /\ frame'[s].at = "complete.unwind_current"
        /\ \A q \in Session \ {s} : frame'[q] = frame[q]
    BY <1>10, FrameAfter DEF CompleteUnwind
  <2> QED BY <1>3, <1>5, <2>1, <2>2 DEF Label, Claiming
<1> QED BY <1>6, <1>7, <1>8, <1>9, <1>10

LEMMA NextMerge ==
  ASSUME TypeOK, FinalInv, MergeInv, SoleWorker, [Next]_vars
  PROVE  MergeInv'
<1>1. SoleCompleter
  BY DEF SoleWorker
<1>2. ASSUME PlainFrames, \A u \in Task : Plain(u), TreesKept, ClaimOutside
      PROVE  MergeInv'
  <2>1. \A u \in Task : hist'[u] = hist[u]
    BY <1>2 DEF Plain
  <2> QED BY <1>2, <2>1, TreeStep DEF PlainFrames, Watched, Unrecorded
<1>3. ASSUME NEW s \in Session, Start(s)  PROVE MergeInv'
  <2>1. CASE \E r \in Ralph, t \in Task : CompleteTask(s, r, t)
    <3>1. PICK r \in Ralph, t \in Task : CompleteTask(s, r, t)
      BY <2>1
    <3>2. UNCHANGED <<tc, hist>>
      BY <3>1 DEF CompleteTask
    <3>3. ClaimOutside
      BY <3>1, CallOutside, ReturnOutside DEF CompleteTask, Label, Claiming
    <3>4. \A q \in Session : frame'[q].at = "complete.history" => frame'[q] = frame[q]
      <4>1. (\E ok : Return(s, ok)) \/ Call(s, "complete.update", r, t)
        BY <3>1 DEF CompleteTask
      <4>2. /\ frame'[s].at \in {"idle", "complete.update"}
            /\ \A q \in Session \ {s} : frame'[q] = frame[q]
        BY <4>1, FrameAfter
      <4> QED BY <4>2
    <3> QED BY <3>2, <3>3, <3>4, SameTrees, TreeStep
  <2>2. CASE \E r \in Ralph : ClaimTask(s, r)
    BY <2>2, ClaimMerge
  <2>3. CASE /\ ~\E r \in Ralph, t \in Task : CompleteTask(s, r, t)
             /\ ~\E r \in Ralph : ClaimTask(s, r)
    BY <1>1, <1>2, <1>3, <2>3, StartPlain, StartKeepsTrees, StartOutside
  <2> QED BY <2>1, <2>2, <2>3
<1>4. ASSUME NEW s \in Session, Continue(s) \/ Crash(s)  PROVE MergeInv'
  <2>1. CASE \/ CompleteUpdate(s) \/ CompleteMerge(s) \/ CompleteMarkMerged(s)
             \/ CompleteHistory(s) \/ CompleteUnwind(s)
    BY <2>1, CompleteMergeInv
  <2>2. CASE ClaimClearOthers(s) \/ ClaimWorktree(s)
    BY <2>2, ClaimMerge
  <2>3. CASE SyncRead(s)
    <3>1. UNCHANGED <<tc, hist>>
      BY <2>3 DEF SyncRead
    <3>2. \A q \in Session : frame'[q].at = "complete.history" => frame'[q] = frame[q]
      BY <2>3 DEF SyncRead, TypeOK, Frame
    <3>3. ClaimOutside
      BY <2>3, ContinueOutside DEF Continue, SyncRead, ClaimClearOthers, At
    <3> QED BY <3>1, <3>2, <3>3, SameTrees, TreeStep
  <2>4. CASE Crash(s)
    <3>1. UNCHANGED <<tc, hist>>
      BY <2>4 DEF Crash
    <3>2. /\ \A q \in Session : frame'[q].at = "complete.history" => frame'[q] = frame[q]
          /\ ClaimOutside
      BY <2>4, FrameAfter, ReturnOutside DEF Crash
    <3> QED BY <3>1, <3>2, SameTrees, TreeStep
  <2>5. CASE /\ ~(CompleteUpdate(s) \/ CompleteMerge(s) \/ CompleteMarkMerged(s))
             /\ ~(CompleteHistory(s) \/ CompleteUnwind(s))
             /\ ~(ClaimClearOthers(s) \/ ClaimWorktree(s)) /\ ~SyncRead(s) /\ Continue(s)
    <3>1. frame[s].at \notin Unrecorded
      BY <2>5 DEF Continue, Unrecorded, At,
           ClaimSetCurrent, CompleteSetCurrent, CompleteFixPlan, CompleteUnwindCurrent,
           FailSetCurrent, ReleaseSetCurrent, ShutdownStop, StopAllRelease, StopAllStop,
           StaleRelease, StaleCrash, StaleWorktrees, SyncWrite, CheckExtend, CheckRead,
           CheckRow, CheckClear
    <3> QED BY <1>2, <2>5, <3>1, ContinuePlain, ContinueKeepsTrees, ContinueOutside
  <2> QED BY <1>4, <2>1, <2>2, <2>3, <2>4, <2>5
<1>5. CASE Tick
  <2>1. TreesKept
    BY <1>5, RowsKeepTrees DEF Tick, AgeClaims, TreesKept, TreeKept, TypeOK
  <2> QED BY <1>5, <2>1, TreeStep DEF Tick, ClaimOutside
<1>6. ASSUME UNCHANGED <<tc, hist, frame>>  PROVE MergeInv'
  BY <1>6, SameTrees, TreeStep DEF ClaimOutside
<1> QED BY <1>3, <1>4, <1>5, <1>6 DEF Next, WorkerTicksPlan, vars

\* What history shows as completed from a worktree is merged: no sweep, release,
\* takeover or death of the completing process in its merge brings a completion
\* of unmerged work into history.
THEOREM RecordedMerged == ASSUME SoleWorker PROVE Spec => []RecordedWorkIsMerged
<1>1. SoleCompleter
  BY DEF SoleWorker
<1>2. Init => MergeInv
  <2>1. ASSUME Init  PROVE MergeInv
    <3>1. \A s \in Session : frame[s].at = "idle"
      BY <2>1 DEF Init, Idle
    <3>2. \A t \in Task : hist[t] = 0
      BY <2>1 DEF Init
    <3> QED BY <3>1, <3>2 DEF MergeInv, ClaimerOK, Claiming
  <2> QED BY <2>1
<1>3. TypeOK /\ FinalInv /\ MergeInv /\ [Next]_vars => MergeInv'
  BY NextMerge
<1>4. MergeInv => RecordedWorkIsMerged
  BY DEF MergeInv, MergedRow, RecordedWorkIsMerged
<1> QED BY <1>1, <1>2, <1>3, <1>4, Final, TypeCorrect, PTL DEF Spec

=============================================================================
