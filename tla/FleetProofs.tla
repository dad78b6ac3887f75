----------------------------- MODULE FleetProofs -----------------------------
(***************************************************************************)
(* What the daemon's loop keeps true for any number of tasks, workers,     *)
(* requests and crashes, and what it keeps true while no claim runs out    *)
(* under its holder.                                                       *)
(***************************************************************************)
EXTENDS Fleet, FiniteSetTheorems, TLAPS

USE DEF others, elsewhere

-----------------------------------------------------------------------------
(***************************************************************************)
(* Types.  The daemon's locals are set where its steps use them, and it    *)
(* never serves more requests than there are.                              *)
(***************************************************************************)
Spawning == {"register", "current", "launch", "unclaim"}
Applying == {"retire", "consume"}

Rows == tc \in [Task -> Claim] /\ ri \in [Ralph -> Instance]

Crew ==
  /\ work \in [Ralph -> Worker]
  /\ \A r \in Ralph : In(r, {"working"}) => work[r].task \in Task
  /\ out \in [Ralph -> Outcome]

Records == recorded \subseteq Task /\ plan \subseteq Task /\ won \subseteq Task

Asked ==
  /\ req \in 0 .. MaxRequests
  /\ intent \subseteq {"user", "daemon"}
  /\ cancel \subseteq Ralph
  /\ crashes \in 0 .. MaxCrashes

Desk ==
  /\ d \in Daemon
  /\ d.at \in Spawning \cup Applying => d.r \in Ralph
  /\ d.at \in Spawning => d.t \in Task
  /\ d.at \in Spawning \cup {"sync", "claim", "served"} => d.todo > 0

TypeInv == Rows /\ Crew /\ Records /\ Asked /\ Desk /\ d.todo <= req /\ tui \in Tui

-----------------------------------------------------------------------------
(***************************************************************************)
(* One claim each.                                                         *)
(***************************************************************************)
SingleClaim == \A r \in Ralph, t, u \in Task : Holds(r, t) /\ Holds(r, u) => t = u

\* The claim of a ralph that shows one as its current task is that one.
CurrentIsClaim ==
  \A r \in Ralph, t \in Task :
    ri[r].status = "active" /\ ri[r].current # NULL /\ Holds(r, t) => ri[r].current = t

AbsentIsBlank == \A r \in Ralph : ri[r].status = "absent" => ri[r].current = NULL

\* A row that a refresh has still to handle names the only claim its ralph can
\* have.
RowIsClaim ==
  \A r \in Ralph, t \in Task : tui.rows[r] # NULL /\ Holds(r, t) => tui.rows[r] = t

\* The ralph being spawned has no process yet, not for a refresh under way
\* either, and no claim but the new one.
SpawnedIsNew ==
  d.at \in Spawning =>
    /\ In(d.r, {"none"}) /\ d.r \notin tui.running
    /\ \A t \in Task : Holds(d.r, t) => t = d.t
    /\ At("register") => ri[d.r].status = "absent"

HandInv == SingleClaim /\ CurrentIsClaim /\ RowIsClaim /\ AbsentIsBlank /\ SpawnedIsNew

-----------------------------------------------------------------------------
(***************************************************************************)
(* While leases last.                                                      *)
(***************************************************************************)
\* r has the row of t, though the row may be closed already.
Has(r, t) == tc[t].owner = r /\ tc[t].status \in {"in_progress", "completed", "failed"}

WorkersHave == \A r \in Ralph : In(r, {"working"}) => Has(r, work[r].task)

SpawnedHas ==
  d.at \in Spawning =>
    /\ Has(d.r, d.t)
    /\ out[d.r].status \in IF At("unclaim") THEN {"none", "other"} ELSE {"none"}

\* An outcome is the last thing a worker leaves, and one that is neither
\* success nor failure names no task.
OutcomesLast ==
  \A r \in Ralph :
    /\ out[r].status # "none" => In(r, {"none", "reported"})
    /\ out[r].status \in {"none", "other"} => out[r].task = NULL

FilesThere ==
  /\ \A r \in d.files : out[r].status # "none"
  /\ d.at \in Applying => d.r \in d.files

\* What the daemon has applied of a success is applied.
Applied ==
  At("retire") /\ out[d.r].status = "success" /\ out[d.r].task # NULL
    => ~Holds(d.r, out[d.r].task)

\* A needed claim has not run out, and its holder's heartbeat is younger than
\* the claim.
Ahead ==
  \A t \in Task :
    Held(tc[t]) /\ Needed(t) =>
      /\ tc[t].lease \in 1 .. CLAIM_EXPIRY
      /\ ri[tc[t].owner].status = "active"
           => ri[tc[t].owner].age + tc[t].lease <= CLAIM_EXPIRY

LeaseInv ==
  WorkersHave /\ SpawnedHas /\ OutcomesLast /\ FilesThere /\ Applied /\ Ahead

-----------------------------------------------------------------------------
(***************************************************************************)
(* The statements keep the rows well typed.                                *)
(***************************************************************************)
LEMMA GrantType ==
  ASSUME NEW row \in Claim, NEW r \in Ralph
  PROVE  /\ Grant(row, r) \in Claim
         /\ Grant(row, r).status = "in_progress" /\ Grant(row, r).owner = r
         /\ Grant(row, r).lease = CLAIM_EXPIRY
<1>1. CLAIM_EXPIRY \in 0 .. CLAIM_EXPIRY
  BY TableAssumption
<1> QED BY <1>1 DEF Grant, Claim, ClaimStatus

LEMMA RelinquishType ==
  ASSUME NEW row \in Claim
  PROVE  Relinquish(row) \in Claim /\ Relinquish(row).status = "pending"
BY DEF Relinquish, Claim, ClaimStatus

LEMMA ClosedType ==
  ASSUME NEW row \in Claim, NEW status \in {"completed", "failed"}
  PROVE  /\ [row EXCEPT !.status = status] \in Claim
         /\ [row EXCEPT !.status = status].status = status
         /\ [row EXCEPT !.status = status].owner = row.owner
BY DEF Claim, ClaimStatus

LEMMA ReleaseAllType ==
  ASSUME Rows, NEW T
  PROVE  ReleaseAll(tc, T) \in [Task -> Claim]
BY RelinquishType DEF ReleaseAll, Rows

LEMMA CurrentType ==
  ASSUME NEW row \in Instance, NEW t \in Task \cup {NULL}
  PROVE  /\ [row EXCEPT !.current = t] \in Instance
         /\ [row EXCEPT !.current = t].status = row.status
         /\ [row EXCEPT !.current = t].age = row.age
         /\ [row EXCEPT !.current = t].current = t
BY DEF Instance

LEMMA ActivateType ==
  ASSUME NEW row \in Instance
  PROVE  [row EXCEPT !.status = "active", !.age = 0] \in Instance
<1>1. 0 \in 0 .. HEARTBEAT_STALE
  BY TableAssumption
<1> QED BY <1>1 DEF Instance, InstanceStatus

LEMMA SetCurrentType ==
  ASSUME NEW ri0 \in [Ralph -> Instance], NEW r, NEW t \in Task \cup {NULL}
  PROVE  SetCurrent(ri0, r, t) \in [Ralph -> Instance]
BY CurrentType DEF SetCurrent

LEMMA ClearOthersType ==
  ASSUME NEW ri0 \in [Ralph -> Instance], NEW r, NEW t
  PROVE  ClearOthers(ri0, t, r) \in [Ralph -> Instance]
BY CurrentType DEF ClearOthers

LEMMA RetireType ==
  ASSUME Rows, NEW rs, NEW status \in InstanceStatus
  PROVE  Retire(ri, rs, status) \in [Ralph -> Instance]
BY DEF Retire, Instance, Rows

LEMMA ReleaseTypes ==
  ASSUME Rows, NEW r \in Ralph, NEW t \in Task, Release(r, t)
  PROVE  Rows'
BY RelinquishType, SetCurrentType DEF Release, Rows

LEMMA FailTypes ==
  ASSUME Rows, NEW r \in Ralph, NEW t \in Task, Fail(r, t)
  PROVE  Rows'
<1>1. [tc[t] EXCEPT !.status = "failed"] \in Claim
  BY ClosedType DEF Rows
<1> QED BY <1>1, SetCurrentType DEF Fail, Rows

LEMMA CompleteTypes ==
  ASSUME Rows, Records, NEW r \in Ralph, NEW t \in Task, Complete(r, t), won' = won
  PROVE  Rows' /\ Records'
<1>1. [tc[t] EXCEPT !.status = "completed"] \in Claim
  BY ClosedType DEF Rows
<1>2. CASE tc[t].owner = r /\ tc[t].status # "completed"
  BY <1>1, <1>2, SetCurrentType DEF Complete, Rows, Records
<1>3. CASE ~(tc[t].owner = r /\ tc[t].status # "completed")
  BY <1>3 DEF Complete, Rows, Records, tables
<1> QED BY <1>2, <1>3

LEMMA CompleteAndClaimNextTypes ==
  ASSUME Rows, NEW r \in Ralph, NEW t \in Task, CompleteAndClaimNext(r, t)
  PROVE  Rows' /\ recorded' = recorded \cup {t}
<1> DEFINE done == IF Holds(r, t) THEN [tc EXCEPT ![t].status = "completed"] ELSE tc
           idle == SetCurrent(ri, r, NULL)
<1>1. done \in [Task -> Claim] /\ idle \in [Ralph -> Instance]
  <2>1. [tc[t] EXCEPT !.status = "completed"] \in Claim
    BY ClosedType DEF Rows
  <2> QED BY <2>1, SetCurrentType DEF Rows
<1>2. \/ \E n \in First(PendingTasks(done)) :
           tc' = [done EXCEPT ![n] = Grant(@, r)]
             /\ ri' = SetCurrent(ClearOthers(idle, n, r), r, n)
      \/ tc' = done /\ ri' = idle
  BY DEF CompleteAndClaimNext
<1> HIDE DEF done, idle
<1>3. ASSUME NEW n \in First(PendingTasks(done)),
             tc' = [done EXCEPT ![n] = Grant(@, r)],
             ri' = SetCurrent(ClearOthers(idle, n, r), r, n)
      PROVE  Rows'
  <2>1. n \in Task
    BY DEF First, PendingTasks
  <2> QED BY <1>1, <1>3, <2>1, GrantType, ClearOthersType, SetCurrentType DEF Rows
<1>4. ASSUME tc' = done, ri' = idle PROVE Rows'
  BY <1>1, <1>4 DEF Rows
<1> QED BY <1>2, <1>3, <1>4 DEF CompleteAndClaimNext

LEMMA TickTypes ==
  ASSUME Rows
  PROVE  AgeClaims(tc) \in [Task -> Claim] /\ AgeInstances(ri) \in [Ralph -> Instance]
<1>1. ASSUME NEW t \in Task, tc[t].lease # NULL, tc[t].lease # 0
      PROVE  [tc[t] EXCEPT !.lease = @ - 1] \in Claim
  <2>1. tc[t].lease \in 1 .. CLAIM_EXPIRY
    BY <1>1, TableAssumption DEF Rows, Claim
  <2>2. tc[t].lease - 1 \in 0 .. CLAIM_EXPIRY
    BY <2>1, TableAssumption
  <2> QED BY <2>2 DEF Claim, Rows
<1>2. ASSUME NEW r \in Ralph, ri[r].age # HEARTBEAT_STALE
      PROVE  [ri[r] EXCEPT !.age = @ + 1] \in Instance
  BY <1>2, TableAssumption DEF Rows, Instance
<1> QED BY <1>1, <1>2 DEF AgeClaims, AgeInstances, Lapsed, Rows

-----------------------------------------------------------------------------
(***************************************************************************)
(* Every step keeps the types.                                             *)
(***************************************************************************)
LEMMA InitTypes == Init => TypeInv
<1> SUFFICES ASSUME Init PROVE TypeInv
  OBVIOUS
<1>1. NewClaim("pending") \in Claim /\ NoInstance \in Instance
  BY TableAssumption DEF NewClaim, NoInstance, Claim, ClaimStatus, Instance, InstanceStatus
<1>2. Rows
  BY <1>1 DEF Init, Rows
<1>3. Crew
  BY DEF Init, Crew, Worker, NoWorker, Outcome, NoOutcome, In
<1>4. Asked
  BY FleetAssumption DEF Init, Asked
<1>5. Desk /\ d.todo <= req
  BY FleetAssumption DEF Init, Desk, Down, Daemon, Step, Spawning, Applying
<1>6. tui \in Tui
  BY DEF Init, Tui, TuiIdle, NoRows
<1> QED BY <1>2, <1>3, <1>4, <1>5, <1>6 DEF Init, TypeInv, Records

\* The daemon moves on with its locals as they are.
LEMMA GotoDesk ==
  ASSUME Desk, NEW step \in Step, Goto(step),
         step \in Spawning \cup Applying => d.r \in Ralph,
         step \in Spawning => d.t \in Task,
         step \in Spawning \cup {"sync", "claim", "served"} => d.todo > 0
  PROVE  /\ Desk'
         /\ d'.at = step /\ d'.r = d.r /\ d'.t = d.t /\ d'.files = d.files /\ d'.todo = d.todo
BY DEF Desk, Goto, Daemon

LEMMA NextFileDesk ==
  ASSUME Desk, NEW files \in SUBSET Ralph, NextFile(files)
  PROVE  /\ Desk' /\ d'.todo = d.todo /\ d'.files = files /\ d'.r = NULL
         /\ d'.at \in {"autospawn", "apply"}
BY DEF Desk, NextFile, Daemon, Spawning, Applying, Step

LEMMA NextRequestDesk ==
  ASSUME Desk, NEW todo \in 0 .. MaxRequests, NextRequest(todo)
  PROVE  /\ Desk' /\ d'.todo = todo /\ d'.files = d.files /\ d'.r = NULL
         /\ d'.at \in {"cancel", "sync"}
<1>1. todo # 0 => todo > 0
  BY FleetAssumption
<1> QED BY <1>1 DEF Desk, NextRequest, Daemon, Spawning, Applying, Step

LEMMA BeginTypes ==
  ASSUME TypeInv, Start \/ Sweep \/ ListOutcomes
  PROVE  TypeInv'
<1> USE DEF TypeInv
<1>1. CASE Start
  <2>1. Desk' /\ d'.todo = d.todo
    BY <1>1, GotoDesk DEF Start, At, Step, Spawning, Applying
  <2> QED BY <1>1, <2>1
      DEF Start, tables, procs, requests, Rows, Crew, In, Records, Asked
<1>2. CASE Sweep
  <2>1. Desk' /\ d'.todo = d.todo
    BY <1>2, GotoDesk DEF Sweep, MarkStale, At, Step, Spawning, Applying
  <2>2. Rows'
    BY <1>2, ReleaseAllType, RetireType DEF Sweep, MarkStale, Rows, InstanceStatus
  <2> QED BY <1>2, <2>1, <2>2 DEF Sweep, MarkStale, procs, requests, Crew, In, Records, Asked
<1>3. CASE ListOutcomes
  <2>1. Desk' /\ d'.todo = d.todo
    BY <1>3, NextFileDesk DEF ListOutcomes
  <2> QED BY <1>3, <2>1
      DEF ListOutcomes, tables, procs, requests, Rows, Crew, In, Records, Asked
<1> QED BY <1>1, <1>2, <1>3

LEMMA ApplyDesk ==
  ASSUME TypeInv, NEW r \in Ralph, ApplyOutcome(r)
  PROVE  /\ Desk' /\ d'.todo = d.todo /\ d'.files = d.files /\ d'.r = r
         /\ d'.at \in {"retire", "consume"}
<1>1. \/ d' = [d EXCEPT !.at = "retire", !.r = r]
      \/ d' = [d EXCEPT !.at = "consume", !.r = r]
  BY DEF ApplyOutcome
<1> QED BY <1>1 DEF TypeInv, Desk, Daemon, Step, Spawning, Applying

LEMMA ApplyTypes ==
  ASSUME TypeInv, NEW r \in Ralph, ApplyOutcome(r)
  PROVE  TypeInv'
<1>1. out[r].task \in Task \cup {NULL}
  BY DEF TypeInv, Crew, Outcome
<1>2. Rows' /\ Records'
  <2>1. won' = won
    BY DEF ApplyOutcome, procs
  <2>2. CASE out[r].task \in Task /\ Complete(r, out[r].task)
    BY <2>1, <2>2, CompleteTypes DEF TypeInv
  <2>3. CASE out[r].task \in Task /\ Fail(r, out[r].task) /\ UNCHANGED <<recorded, plan>>
    BY <2>1, <2>3, FailTypes DEF TypeInv, Records
  <2>4. CASE out[r].task \in Task /\ Release(r, out[r].task) /\ UNCHANGED <<recorded, plan>>
    BY <2>1, <2>4, ReleaseTypes DEF TypeInv, Records
  <2>5. CASE UNCHANGED tables
    BY <2>1, <2>5 DEF TypeInv, tables, Rows, Records
  <2> QED BY <1>1, <2>2, <2>3, <2>4, <2>5 DEF ApplyOutcome, tables
<1>3. Crew' /\ Asked' /\ req' = req
  BY DEF TypeInv, ApplyOutcome, procs, requests, Crew, In, Asked
<1>4. tui' \in Tui
  BY DEF TypeInv, ApplyOutcome
<1> QED BY <1>2, <1>3, <1>4, ApplyDesk DEF TypeInv

LEMMA OutcomeTypes ==
  ASSUME TypeInv, RetireWorker \/ ConsumeOutcome
  PROVE  TypeInv'
<1> USE DEF TypeInv
<1>1. CASE RetireWorker
  <2>1. Desk' /\ d'.todo = d.todo
    BY <1>1, GotoDesk DEF RetireWorker, At, Step, Spawning, Applying, Desk
  <2>2. Rows'
    BY <1>1, ReleaseAllType, RetireType DEF RetireWorker, Rows, InstanceStatus
  <2> QED BY <1>1, <2>1, <2>2 DEF RetireWorker, procs, requests, Crew, In, Records, Asked
<1>2. CASE ConsumeOutcome
  <2>1. d.files \ {d.r} \in SUBSET Ralph
    BY DEF Desk, Daemon
  <2>2. Desk' /\ d'.todo = d.todo
    BY <1>2, <2>1, NextFileDesk DEF ConsumeOutcome
  <2>3. Crew'
    BY <1>2 DEF ConsumeOutcome, Crew, In, Outcome, NoOutcome
  <2> QED BY <1>2, <2>2, <2>3 DEF ConsumeOutcome, tables, requests, Rows, Records, Asked
<1> QED BY <1>1, <1>2

LEMMA FetchTypes ==
  ASSUME TypeInv, Autospawn \/ FetchRequests
  PROVE  TypeInv'
<1> USE DEF TypeInv
<1>1. CASE Autospawn
  <2>1. Desk' /\ d'.todo = d.todo
    BY <1>1, GotoDesk DEF Autospawn, At, Step, Spawning, Applying
  <2>2. Asked' /\ d'.todo <= req'
    <3>1. d.todo \in 0 .. MaxRequests
      BY DEF Desk, Daemon
    <3>2. CASE req = 0 /\ req' = 1 /\ intent' = intent \cup {"daemon"}
      BY <1>1, <2>1, <3>1, <3>2, FleetAssumption DEF Autospawn, Asked
    <3>3. CASE UNCHANGED <<req, intent>>
      BY <1>1, <2>1, <3>3 DEF Autospawn, Asked
    <3> QED BY <1>1, <3>2, <3>3 DEF Autospawn
  <2> QED BY <1>1, <2>1, <2>2 DEF Autospawn, tables, procs, Rows, Crew, In, Records
<1>2. CASE FetchRequests
  <2> DEFINE ids == Cardinality({r \in Ralph : Fresh(r)})
             todo == IF req <= ids THEN req ELSE ids
  <2>1. ids \in Nat
    BY FleetAssumption, FS_Subset, FS_CardinalityType
  <2>2. todo \in 0 .. MaxRequests /\ todo <= req
    BY <2>1, FleetAssumption DEF Asked
  <2>3. NextRequest(todo)
    BY <1>2 DEF FetchRequests
  <2> HIDE DEF todo
  <2>4. Desk' /\ d'.todo = todo
    BY <2>2, <2>3, NextRequestDesk
  <2> QED BY <1>2, <2>2, <2>4
      DEF FetchRequests, tables, procs, requests, Rows, Crew, In, Records, Asked
<1> QED BY <1>1, <1>2

LEMMA SpawnClaimRows ==
  ASSUME Rows, NEW r \in Ralph, NEW t \in Task,
         tc' = [tc EXCEPT ![t] = Grant(@, r)],
         ri' = ClearOthers([ri EXCEPT ![r] = NoInstance], t, r)
  PROVE  Rows'
<1>1. NoInstance \in Instance
  BY TableAssumption DEF NoInstance, Instance, InstanceStatus
<1>2. [ri EXCEPT ![r] = NoInstance] \in [Ralph -> Instance]
  BY <1>1 DEF Rows
<1> QED BY <1>2, GrantType, ClearOthersType DEF Rows

LEMMA SpawnClaimTypes == ASSUME TypeInv, SpawnClaim PROVE TypeInv'
<1> USE DEF TypeInv
<1>1. Rows' /\ Desk' /\ d'.todo = d.todo
  <2>1. ASSUME NEW r \in Ralph, NEW t \in First(ClaimableTasks(tc)),
               tc' = [tc EXCEPT ![t] = Grant(@, r)],
               ri' = ClearOthers([ri EXCEPT ![r] = NoInstance], t, r),
               d' = [d EXCEPT !.at = "register", !.r = r, !.t = t]
        PROVE  Rows' /\ Desk' /\ d'.todo = d.todo
    <3>1. t \in Task
      BY DEF First, ClaimableTasks
    <3>2. Desk' /\ d'.todo = d.todo
      BY <2>1, <3>1 DEF SpawnClaim, At, Desk, Daemon, Step, Spawning, Applying
    <3> QED BY <2>1, <3>1, <3>2, SpawnClaimRows
  <2>2. ASSUME Goto("served"), UNCHANGED <<tc, ri>>
        PROVE  Rows' /\ Desk' /\ d'.todo = d.todo
    <3>1. d.todo > 0
      BY DEF SpawnClaim, At, Desk
    <3> QED BY <2>2, <3>1, GotoDesk DEF Step, Spawning, Applying, Rows
  <2> QED BY <2>1, <2>2 DEF SpawnClaim
<1> QED BY <1>1 DEF SpawnClaim, procs, requests, Crew, In, Records, Asked

LEMMA SpawnTypes ==
  ASSUME TypeInv, SpawnSync \/ SpawnRegister \/ SpawnSetCurrent \/ SpawnUnclaim
  PROVE  TypeInv'
<1> USE DEF TypeInv
<1>1. Desk' /\ d'.todo = d.todo
  <2>1. d.at \in Spawning \cup {"sync"}
    BY DEF SpawnSync, SpawnRegister, SpawnSetCurrent, SpawnUnclaim, At, Spawning
  <2>2. d.todo > 0 /\ (~At("sync") => d.r \in Ralph /\ d.t \in Task)
    BY <2>1 DEF Desk, At
  <2>3. \E step \in {"claim", "current", "served", "launch"} :
          Goto(step) /\ (step \in {"current", "launch"} => ~At("sync"))
    BY DEF SpawnSync, SpawnRegister, SpawnSetCurrent, SpawnUnclaim, At
  <2> QED BY <2>2, <2>3, GotoDesk DEF Step, Spawning, Applying
<1>2. Rows'
  <2>1. CASE SpawnSync
    <3>1. \A t \in Task : [tc[t] EXCEPT !.status = "completed"] \in Claim
      BY ClosedType DEF Rows
    <3> QED BY <2>1, <3>1 DEF SpawnSync, Rows
  <2>2. CASE SpawnRegister
    <3>1. d.r \in Ralph
      BY <2>2 DEF SpawnRegister, At, Desk, Spawning
    <3>2. [ri[d.r] EXCEPT !.status = "active", !.age = 0] \in Instance
      BY <3>1, ActivateType DEF Rows
    <3>3. ri' \in {ri, [ri EXCEPT ![d.r] = [ri[d.r] EXCEPT !.status = "active", !.age = 0]]}
      BY <2>2, <3>1 DEF SpawnRegister, Rows
    <3> QED BY <2>2, <3>2, <3>3 DEF SpawnRegister, Rows
  <2>3. CASE SpawnSetCurrent
    BY <2>3, SetCurrentType DEF SpawnSetCurrent, At, Desk, Spawning, Rows
  <2>4. CASE SpawnUnclaim
    BY <2>4, ReleaseTypes DEF SpawnUnclaim, At, Desk, Spawning
  <2> QED BY <2>1, <2>2, <2>3, <2>4
<1> QED BY <1>1, <1>2 DEF SpawnSync, SpawnRegister, SpawnSetCurrent, SpawnUnclaim,
                          procs, requests, Crew, In, Records, Asked

LEMMA LaunchTypes == ASSUME TypeInv, SpawnLaunch PROVE TypeInv'
<1> USE DEF TypeInv
<1>1. d.r \in Ralph /\ d.t \in Task /\ d.todo > 0
  BY DEF SpawnLaunch, At, Desk, Spawning
<1>2. Desk' /\ d'.todo = d.todo
  BY <1>1, GotoDesk DEF SpawnLaunch, Step, Spawning, Applying
<1>3. Crew'
  <2>1. CASE /\ work' = [work EXCEPT ![d.r] = [NoWorker EXCEPT !.phase = "working", !.task = d.t]]
             /\ UNCHANGED out
    BY <1>1, <2>1 DEF Crew, In, Worker, NoWorker
  <2>2. CASE out' \in {out, [out EXCEPT ![d.r].status = "other"]} /\ UNCHANGED work
    BY <1>1, <2>2 DEF Crew, In, Outcome
  <2> QED BY <2>1, <2>2 DEF SpawnLaunch
<1> QED BY <1>2, <1>3 DEF SpawnLaunch, tables, requests, Rows, Records, Asked

LEMMA ServeTypes ==
  ASSUME TypeInv, ConsumeRequest \/ ServeCancels \/ DaemonCrash
  PROVE  TypeInv'
<1> USE DEF TypeInv
<1>1. CASE ConsumeRequest
  <2>1. req \in 0 .. MaxRequests /\ d.todo \in 0 .. MaxRequests /\ d.todo > 0
    BY <1>1 DEF ConsumeRequest, At, Desk, Daemon, Asked
  <2>2. d.todo - 1 \in 0 .. MaxRequests /\ req - 1 \in 0 .. MaxRequests /\ d.todo - 1 <= req - 1
    BY <2>1, FleetAssumption
  <2>3. Desk' /\ d'.todo = d.todo - 1
    BY <1>1, <2>2, NextRequestDesk DEF ConsumeRequest
  <2> QED BY <1>1, <2>2, <2>3
      DEF ConsumeRequest, tables, procs, Rows, Crew, In, Records, Asked
<1>2. CASE ServeCancels
  <2>1. Desk' /\ d'.todo = d.todo
    BY <1>2, GotoDesk DEF ServeCancels, At, Step, Spawning, Applying
  <2>2. Crew'
    BY <1>2 DEF ServeCancels, Crew, In, Worker
  <2> QED BY <1>2, <2>1, <2>2 DEF ServeCancels, tables, Rows, Records, Asked
<1>3. CASE DaemonCrash
  <2>1. Desk' /\ d'.todo <= req
    BY <1>3, FleetAssumption DEF DaemonCrash, Down, Desk, Daemon, Step, Spawning, Applying, Asked
  <2> QED BY <1>3, <2>1, FleetAssumption
      DEF DaemonCrash, tables, procs, requests, Rows, Crew, In, Records, Asked
<1> QED BY <1>1, <1>2, <1>3

\* What a worker does by itself touches the worker, its outcome and the plan.
WorkerActs(r) ==
  \/ WorkerEnds(r) \/ WorkerBreaksOff(r) \/ WorkerKilled(r) \/ WorkerTicksPlan(r)

LEMMA ReportTypes ==
  ASSUME Crew, NEW r \in Ralph, NEW status \in {"success", "failed", "other"},
         NEW t \in Task \cup {NULL}, Report(r, status, t)
  PROVE  Crew'
<1>1. [status |-> status, task |-> t] \in Outcome
  BY DEF Outcome
<1>2. [work[r] EXCEPT !.phase = "reported"] \in Worker
  BY DEF Crew, Worker
<1>3. work' = [work EXCEPT ![r] = [work[r] EXCEPT !.phase = "reported"]]
  BY DEF Report, SetPhase
<1>4. [work[r] EXCEPT !.phase = "reported"].phase = "reported"
  BY DEF Crew, Worker
<1> QED BY <1>1, <1>2, <1>3, <1>4 DEF Report, Crew, In

\* What is left of a worker that has gone.
LEMMA GoneType ==
  ASSUME Crew, NEW r \in Ralph
  PROVE  Gone(r) \in Worker /\ Gone(r).phase = "none" /\ Gone(r).task = NULL
BY DEF Crew, Gone, Worker, NoWorker

LEMMA WorkerTypes ==
  ASSUME TypeInv, NEW r \in Ralph, WorkerActs(r)
  PROVE  TypeInv'
<1> USE DEF TypeInv
<1>1. work[r].id \in Task \cup {NULL}
  BY DEF Crew, Worker
<1>2. CASE WorkerSays(r)
  <2>1. PICK says \in {"done", "failed"}, id \in Task \cup {NULL} :
          work' = [work EXCEPT ![r].says = says, ![r].id = id]
    BY <1>2 DEF WorkerSays, Crew, Worker
  <2>2. Crew'
    <3> DEFINE one == [work[r] EXCEPT !.says = says, !.id = id]
    <3>1. one \in Worker /\ one.phase = work[r].phase /\ one.task = work[r].task
      BY DEF Crew, Worker
    <3>2. work' = [work EXCEPT ![r] = one]
      BY <2>1 DEF Crew
    <3> HIDE DEF one
    <3>3. out' = out
      BY <1>2 DEF WorkerSays
    <3> QED BY <3>1, <3>2, <3>3 DEF Crew, In
  <2> QED BY <1>2, <2>2 DEF WorkerSays, tables, requests, Rows, Records, Asked, Desk
<1>3. CASE WorkerSucceeds(r)
  <2>1. Crew'
    BY <1>1, <1>3, ReportTypes DEF WorkerSucceeds
  <2>2. Records'
    BY <1>3 DEF WorkerSucceeds, Report, tables, Records, Crew, In
  <2> QED BY <1>3, <2>1, <2>2 DEF WorkerSucceeds, Report, tables, requests, Rows, Asked, Desk
<1>4. CASE WorkerFails(r) \/ WorkerGivesUp(r)
  <2>1. Crew'
    BY <1>1, <1>4, ReportTypes DEF WorkerFails, WorkerGivesUp
  <2> QED BY <1>4, <2>1 DEF WorkerFails, WorkerGivesUp, Report, tables, requests, Rows,
                            Records, Asked, Desk
<1>5. CASE WorkerBreaksOff(r) \/ WorkerExits(r) \/ WorkerKilled(r)
  <2>1. Crew'
    <3>1. CASE WorkerBreaksOff(r)
      BY <3>1 DEF WorkerBreaksOff, SetPhase, Crew, In, Worker
    <3>2. CASE WorkerExits(r) \/ WorkerKilled(r)
      BY <3>2, GoneType DEF WorkerExits, WorkerKilled, Crew, In
    <3> QED BY <1>5, <3>1, <3>2
  <2> QED BY <1>5, <2>1 DEF WorkerBreaksOff, WorkerExits, WorkerKilled, tables, requests,
                            Rows, Records, Asked, Desk
<1>6. CASE WorkerTicksPlan(r)
  BY <1>6 DEF WorkerTicksPlan, procs, requests, Rows, Crew, In, Records, Asked, Desk
<1> QED BY <1>2, <1>3, <1>4, <1>5, <1>6 DEF WorkerActs, WorkerEnds

LEMMA RequestTypes ==
  ASSUME TypeInv, SpawnRequest \/ IntentExpires \/ \E r \in Ralph : CancelRequest(r)
  PROVE  TypeInv'
<1> USE DEF TypeInv
<1>1. Rows' /\ Crew' /\ Records' /\ Desk'
  BY DEF SpawnRequest, IntentExpires, CancelRequest, tables, procs, Rows, Crew, In, Records, Desk
<1>2. CASE SpawnRequest
  <2>1. req' \in 0 .. MaxRequests /\ d'.todo <= req'
    BY <1>2, FleetAssumption DEF SpawnRequest, Asked, Desk, Daemon
  <2> QED BY <1>1, <1>2, <2>1 DEF SpawnRequest, Asked
<1>3. CASE IntentExpires \/ \E r \in Ralph : CancelRequest(r)
  BY <1>1, <1>3 DEF IntentExpires, CancelRequest, Asked, Running
<1> QED BY <1>2, <1>3

LEMMA OutsideTypes ==
  ASSUME TypeInv, TuiBegins \/ TuiGoesOn \/ Tick
  PROVE  TypeInv'
<1> USE DEF TypeInv
<1>1. Crew' /\ Asked' /\ Desk' /\ d'.todo <= req'
  BY DEF TuiBegins, TuiGoesOn, TuiRenews, TuiSelects, TuiActs, TuiSweeps, TuiQuits, Tick, procs,
         requests, Crew, In, Asked, Desk
<1>2. Rows' /\ Records'
  <2>1. CASE TuiRenews
    <3>1. \A r \in Ralph : [ri[r] EXCEPT !.age = 0] \in Instance
      BY TableAssumption DEF Rows, Instance
    <3>2. \A t \in Task : [tc[t] EXCEPT !.lease = CLAIM_EXPIRY] \in Claim
      BY TableAssumption DEF Rows, Claim
    <3> QED BY <2>1, <3>1, <3>2 DEF TuiRenews, procs, Rows, Records
  <2>2. ASSUME NEW r \in Ralph, TuiActs(r) PROVE Rows' /\ Records'
    <3>1. tui.rows[r] \in Task
      BY <2>2 DEF TuiActs, Tui
    <3>2. CASE Release(r, tui.rows[r]) /\ UNCHANGED recorded
      BY <2>2, <3>1, <3>2, ReleaseTypes DEF TuiActs, procs, Records
    <3>3. CASE CompleteAndClaimNext(r, tui.rows[r])
      BY <2>2, <3>1, <3>3, CompleteAndClaimNextTypes DEF TuiActs, procs, Records
    <3>4. CASE Fail(r, tui.rows[r]) /\ UNCHANGED recorded
      BY <2>2, <3>1, <3>4, FailTypes DEF TuiActs, procs, Records
    <3>5. CASE UNCHANGED <<tc, ri, recorded>>
      BY <2>2, <3>5 DEF TuiActs, procs, Rows, Records
    <3> QED BY <2>2, <3>2, <3>3, <3>4, <3>5 DEF TuiActs
  <2>3. CASE TuiBegins \/ TuiSelects \/ TuiQuits
    BY <2>3 DEF TuiBegins, TuiSelects, TuiQuits, procs, Rows, Records
  <2>4. CASE TuiSweeps
    BY <2>4, ReleaseAllType, RetireType
       DEF TuiSweeps, MarkStale, procs, Rows, Records, InstanceStatus
  <2>5. CASE Tick
    BY <2>5, TickTypes DEF Tick, procs, Rows, Records
  <2> QED BY <2>1, <2>2, <2>3, <2>4, <2>5 DEF TuiGoesOn
<1>3. tui' \in Tui
  <2>1. CASE TuiBegins \/ TuiRenews
    BY <2>1 DEF TuiBegins, TuiRenews, Tui, Running
  <2>2. CASE TuiSelects
    <3>1. [r \in Ralph |-> IF ri[r].status = "active" THEN ri[r].current ELSE NULL]
            \in [Ralph -> Task \cup {NULL}]
      BY DEF Rows, Instance
    <3> QED BY <2>2, <3>1 DEF TuiSelects, Tui
  <2>3. ASSUME NEW r \in Ralph, TuiActs(r) PROVE tui' \in Tui
    BY <2>3 DEF TuiActs, Tui
  <2>4. CASE TuiSweeps \/ TuiQuits
    BY <2>4 DEF TuiSweeps, TuiQuits, Tui, TuiIdle, NoRows
  <2>5. CASE Tick
    BY <2>5 DEF Tick
  <2> QED BY <2>1, <2>2, <2>3, <2>4, <2>5 DEF TuiGoesOn
<1> QED BY <1>1, <1>2, <1>3

LEMMA NextTypes == TypeInv /\ [Next]_vars => TypeInv'
<1> SUFFICES ASSUME TypeInv, [Next]_vars PROVE TypeInv'
  OBVIOUS
<1>1. CASE DaemonStep
  BY <1>1, BeginTypes, ApplyTypes, OutcomeTypes, FetchTypes, SpawnClaimTypes, SpawnTypes,
     LaunchTypes, ServeTypes
     DEF DaemonStep
<1>2. CASE DaemonCrash \/ SpawnRequest \/ IntentExpires \/ \E r \in Ralph : CancelRequest(r)
  BY <1>2, ServeTypes, RequestTypes
<1>3. ASSUME NEW r \in Ralph, WorkerActs(r) PROVE TypeInv'
  BY <1>3, WorkerTypes
<1>4. CASE TuiBegins \/ TuiGoesOn \/ Tick
  BY <1>4, OutsideTypes
<1>5. CASE UNCHANGED vars
  BY <1>5 DEF vars, TypeInv, Rows, Crew, In, Records, Asked, Desk
<1> QED BY <1>1, <1>2, <1>3, <1>4, <1>5 DEF Next, WorkerActs

LEMMA AlwaysTyped == Spec => []TypeInv
<1> QED BY InitTypes, NextTypes, PTL DEF Spec

\* Every variable of the fleet keeps its type: the daemon serves no request it
\* has not fetched, and no worker works on no task.
THEOREM TypeCorrect == Spec => []TypeOK
<1>1. TypeInv => TypeOK
  BY DEF TypeInv, TypeOK, Rows, Crew, Records, Asked, Desk
<1> QED BY <1>1, AlwaysTyped, PTL

-----------------------------------------------------------------------------
(***************************************************************************)
(* Claims and instances.  Most steps give claims away, show a current task *)
(* less, and retire an instance only together with its claims.             *)
(***************************************************************************)
\* RetiredHoldsNothing, ralph by ralph and task by task.
Freed ==
  \A r \in Ralph, t \in Task : ri[r].status \in {"stopped", "crashed"} => ~Holds(r, t)

GivesClaims == \A r \in Ralph, t \in Task : Holds(r, t)' => Holds(r, t)

ShowsLess == \A r \in Ralph : ri'[r].current \in {NULL, ri[r].current}

RetiresFreed ==
  \A r \in Ralph :
    \/ ri'[r].status = ri[r].status
    \/ /\ Registered(ri, r) /\ ri'[r].status \in {"stopped", "crashed"}
       /\ \A t \in Task : ~Holds(r, t)'

Gives == GivesClaims /\ ShowsLess /\ RetiresFreed

\* The spawn at hand, if there is one, is the one there was.
SpawnGoesOn ==
  d'.at \in Spawning =>
    /\ d.at \in Spawning /\ d'.r = d.r /\ d'.t = d.t
    /\ d'.at = "register" => d.at = "register"
    /\ In(d.r, {"none"}) => work'[d.r].phase = "none"

\* A refresh takes no further row up and finds no further ralph running.
RefreshGoesOn ==
  /\ tui'.running \subseteq tui.running
  /\ \A r \in Ralph : tui'.rows[r] \in {NULL, tui.rows[r]}

HandKept == HandInv' /\ (Freed => Freed')

LEMMA RetiredFreed == RetiredHoldsNothing <=> Freed
BY DEF RetiredHoldsNothing, Freed, HeldBy, Holds

LEMMA GivesHand ==
  ASSUME TypeInv, HandInv, Gives, SpawnGoesOn, RefreshGoesOn
  PROVE  HandKept
<1> USE DEF Gives, GivesClaims, ShowsLess, RetiresFreed, HandInv
<1>1. Freed => Freed'
  BY DEF Freed
<1>2. SingleClaim'
  BY DEF SingleClaim
<1>3. CurrentIsClaim' /\ RowIsClaim'
  BY DEF CurrentIsClaim, RowIsClaim, RefreshGoesOn
<1>4. AbsentIsBlank'
  BY DEF AbsentIsBlank, Registered
<1>5. SpawnedIsNew'
  <2>1. SUFFICES ASSUME d'.at \in Spawning PROVE SpawnedIsNew'
    BY DEF SpawnedIsNew
  <2>2. d.at \in Spawning /\ d.r \in Ralph /\ d'.r = d.r /\ d'.t = d.t
    BY <2>1 DEF SpawnGoesOn, TypeInv, Desk
  <2>3. In(d.r, {"none"}) /\ work'[d.r].phase = "none" /\ d.r \notin tui'.running
    BY <2>1, <2>2 DEF SpawnGoesOn, SpawnedIsNew, RefreshGoesOn
  <2>4. \A t \in Task : Holds(d.r, t)' => t = d.t
    BY <2>2 DEF SpawnedIsNew, Holds
  <2>5. d'.at = "register" => ri'[d.r].status = "absent"
    BY <2>1, <2>2 DEF SpawnGoesOn, SpawnedIsNew, At, Registered
  <2> QED BY <2>2, <2>3, <2>4, <2>5 DEF SpawnedIsNew, In, At, Holds
<1> QED BY <1>1, <1>2, <1>3, <1>4, <1>5 DEF HandKept

LEMMA StandRefresh == ASSUME tui' = tui PROVE RefreshGoesOn
BY DEF RefreshGoesOn

LEMMA StandGives == ASSUME UNCHANGED <<tc, ri>> PROVE Gives
BY DEF Gives, GivesClaims, ShowsLess, RetiresFreed, Holds

LEMMA SetCurrentShows ==
  ASSUME Rows, NEW r \in Ralph, ri' = SetCurrent(ri, r, NULL)
  PROVE  ShowsLess /\ \A q \in Ralph : ri'[q].status = ri[q].status
BY CurrentType DEF SetCurrent, Rows, ShowsLess, Instance

LEMMA ReleaseGives ==
  ASSUME TypeInv, NEW r \in Ralph, NEW t \in Task, Release(r, t)
  PROVE  Gives
<1>1. CASE Holds(r, t)
  <2>1. GivesClaims
    BY <1>1, RelinquishType DEF Release, TypeInv, Rows, GivesClaims, Holds, Held
  <2> QED BY <1>1, <2>1, SetCurrentShows DEF Release, TypeInv, Gives, RetiresFreed
<1>2. CASE ~Holds(r, t)
  BY <1>2, StandGives DEF Release
<1> QED BY <1>1, <1>2

LEMMA CloseGives ==
  ASSUME TypeInv, NEW r \in Ralph, NEW t \in Task, NEW status \in {"completed", "failed"},
         tc' = [tc EXCEPT ![t].status = status], ri' = SetCurrent(ri, r, NULL)
  PROVE  Gives
<1>1. GivesClaims
  BY ClosedType DEF TypeInv, Rows, GivesClaims, Holds, Held
<1> QED BY <1>1, SetCurrentShows DEF TypeInv, Gives, RetiresFreed

LEMMA RetireGives ==
  ASSUME TypeInv, NEW rs, NEW status \in {"stopped", "crashed"},
         tc' = ReleaseAll(tc, HeldBy(tc, rs)), ri' = Retire(ri, rs, status)
  PROVE  Gives
<1>1. \A r \in Ralph, t \in Task : Holds(r, t)' => Holds(r, t) /\ r \notin rs
  BY RelinquishType DEF TypeInv, Rows, ReleaseAll, HeldBy, Holds, Held
<1>2. \A r \in Ralph :
        IF r \in rs /\ Registered(ri, r)
          THEN ri'[r].status = status /\ ri'[r].current = NULL
          ELSE ri'[r] = ri[r]
  BY DEF Retire, TypeInv, Rows, Instance
<1> QED BY <1>1, <1>2 DEF Gives, GivesClaims, ShowsLess, RetiresFreed

LEMMA ApplyGives ==
  ASSUME TypeInv, NEW r \in Ralph, ApplyOutcome(r)
  PROVE  Gives
<1>1. out[r].task \in Task \cup {NULL}
  BY DEF TypeInv, Crew, Outcome
<1>2. ASSUME NEW t \in Task, Complete(r, t) PROVE Gives
  BY <1>2, CloseGives, StandGives DEF Complete, tables
<1>3. ASSUME NEW t \in Task, Fail(r, t) PROVE Gives
  BY <1>3, CloseGives, StandGives DEF Fail
<1> QED BY <1>1, <1>2, <1>3, ReleaseGives, StandGives DEF ApplyOutcome, tables

LEMMA SyncGives == ASSUME TypeInv, SpawnSync PROVE Gives
<1>1. GivesClaims
  BY ClosedType DEF SpawnSync, TypeInv, Rows, GivesClaims, Holds, Held
<1> QED BY <1>1 DEF SpawnSync, Gives, ShowsLess, RetiresFreed

LEMMA TickGives == ASSUME TypeInv, Tick PROVE Gives
<1>1. \A t \in Task : tc'[t].status = tc[t].status /\ tc'[t].owner = tc[t].owner
  BY DEF Tick, AgeClaims, TypeInv, Rows, Claim
<1>2. \A r \in Ralph : ri'[r].status = ri[r].status /\ ri'[r].current = ri[r].current
  BY DEF Tick, AgeInstances, TypeInv, Rows, Instance
<1> QED BY <1>1, <1>2 DEF Gives, GivesClaims, ShowsLess, RetiresFreed, Holds, Held

LEMMA RenewGives == ASSUME TypeInv, TuiRenews PROVE Gives
<1>1. \A t \in Task : tc'[t].status = tc[t].status /\ tc'[t].owner = tc[t].owner
  BY DEF TuiRenews, TypeInv, Rows, Claim
<1>2. \A r \in Ralph : ri'[r].status = ri[r].status /\ ri'[r].current = ri[r].current
  BY DEF TuiRenews, TypeInv, Rows, Instance
<1> QED BY <1>1, <1>2 DEF Gives, GivesClaims, ShowsLess, RetiresFreed, Holds, Held

\* Steps of the daemon that begin or end no spawn.
DaemonHand ==
  \/ Start \/ Sweep \/ ListOutcomes \/ RetireWorker \/ ConsumeOutcome
  \/ \E r \in Ralph : ApplyOutcome(r)
  \/ Autospawn \/ FetchRequests \/ SpawnSync \/ ConsumeRequest \/ ServeCancels
  \/ DaemonCrash

LEMMA DaemonGives ==
  ASSUME TypeInv, DaemonHand
  PROVE  Gives /\ d'.at \notin Spawning
<1> USE DEF TypeInv
<1>1. CASE Start \/ Sweep \/ ListOutcomes
  <2>1. Gives
    BY <1>1, StandGives, RetireGives DEF Start, Sweep, MarkStale, ListOutcomes, tables
  <2>2. \/ d'.at \in {"asleep", "outcomes"}
        \/ \E files \in SUBSET Ralph : NextFile(files)
    BY <1>1 DEF Start, Sweep, ListOutcomes, Goto, Desk, Daemon
  <2> QED BY <2>1, <2>2, NextFileDesk DEF Spawning
<1>2. CASE RetireWorker
  BY <1>2, RetireGives DEF RetireWorker, Goto, Desk, Daemon, Spawning
<1>3. CASE ConsumeOutcome
  <2>1. d.files \ {d.r} \in SUBSET Ralph
    BY DEF Desk, Daemon
  <2> QED BY <1>3, <2>1, StandGives, NextFileDesk DEF ConsumeOutcome, tables, Spawning
<1>4. ASSUME NEW r \in Ralph, ApplyOutcome(r) PROVE Gives /\ d'.at \notin Spawning
  BY <1>4, ApplyGives, ApplyDesk DEF Spawning
<1>5. CASE Autospawn
  BY <1>5, StandGives DEF Autospawn, tables, Goto, Desk, Daemon, Spawning
<1>6. CASE FetchRequests \/ ConsumeRequest
  <2>1. d'.at \in {"cancel", "sync"}
    BY <1>6 DEF FetchRequests, ConsumeRequest, NextRequest, Desk, Daemon
  <2> QED BY <1>6, <2>1, StandGives DEF FetchRequests, ConsumeRequest, tables, Spawning
<1>7. CASE SpawnSync
  BY <1>7, SyncGives DEF SpawnSync, Goto, Desk, Daemon, Spawning
<1>8. CASE ServeCancels
  BY <1>8, StandGives DEF ServeCancels, tables, Goto, Desk, Daemon, Spawning
<1>9. CASE DaemonCrash
  BY <1>9, StandGives DEF DaemonCrash, tables, Down, Spawning
<1> QED BY <1>1, <1>2, <1>3, <1>4, <1>5, <1>6, <1>7, <1>8, <1>9 DEF DaemonHand

\* A worker that is not there does nothing.
LEMMA WorkerIsThere ==
  ASSUME TypeInv, NEW r \in Ralph, WorkerActs(r)
  PROVE  \A q \in Ralph : In(q, {"none"}) => work'[q] = work[q]
<1>1. ~In(r, {"none"}) /\ \A q \in Ralph \ {r} : work'[q] = work[q]
  <2>1. CASE WorkerSays(r)
    <3>1. PICK says \in {"done", "failed"}, id \in Task \cup {NULL} :
            work' = [work EXCEPT ![r].says = says, ![r].id = id]
      BY <2>1 DEF WorkerSays, TypeInv, Crew, Worker
    <3> QED BY <2>1, <3>1 DEF WorkerSays, TypeInv, Crew, In
  <2>2. CASE WorkerSucceeds(r) \/ WorkerFails(r) \/ WorkerGivesUp(r)
    BY <2>2 DEF WorkerSucceeds, WorkerFails, WorkerGivesUp, Report, SetPhase, TypeInv, Crew, In
  <2>3. CASE WorkerBreaksOff(r) \/ WorkerExits(r) \/ WorkerKilled(r) \/ WorkerTicksPlan(r)
    BY <2>3 DEF WorkerBreaksOff, WorkerExits, WorkerKilled, WorkerTicksPlan, SetPhase, procs,
                TypeInv, Crew, In
  <2> QED BY <2>1, <2>2, <2>3 DEF WorkerActs, WorkerEnds
<1> QED BY <1>1

LEMMA OutsideGives ==
  ASSUME TypeInv,
         \/ SpawnRequest \/ IntentExpires \/ Tick \/ UNCHANGED vars
         \/ \E r \in Ralph : WorkerActs(r) \/ CancelRequest(r)
  PROVE  Gives /\ SpawnGoesOn /\ tui' = tui
<1>1. CASE SpawnRequest \/ IntentExpires \/ UNCHANGED vars \/ \E r \in Ralph : CancelRequest(r)
  BY <1>1, StandGives
     DEF SpawnRequest, IntentExpires, CancelRequest, vars, tables, procs, SpawnGoesOn, In
<1>2. ASSUME NEW r \in Ralph, WorkerActs(r) PROVE Gives /\ SpawnGoesOn /\ tui' = tui
  <2>1. UNCHANGED <<tc, ri, d, tui>>
    BY <1>2 DEF WorkerActs, WorkerEnds, WorkerSays, WorkerSucceeds, WorkerFails, WorkerGivesUp,
                WorkerBreaksOff, WorkerExits, WorkerKilled, WorkerTicksPlan, Report, tables
  <2> QED BY <1>2, <2>1, StandGives, WorkerIsThere DEF SpawnGoesOn, In, TypeInv, Desk
<1>3. CASE Tick
  BY <1>3, TickGives DEF Tick, procs, SpawnGoesOn, In
<1> QED BY <1>1, <1>2, <1>3

LEMMA ClaimHand == ASSUME TypeInv, HandInv, SpawnClaim PROVE HandKept
<1>1. CASE Goto("served") /\ UNCHANGED <<tc, ri>>
  <2>1. SpawnGoesOn
    BY <1>1 DEF Goto, TypeInv, Desk, Daemon, Spawning, SpawnGoesOn
  <2>2. tui' = tui
    BY DEF SpawnClaim
  <2> QED BY <1>1, <2>1, <2>2, StandGives, StandRefresh, GivesHand
<1>2. ASSUME NEW r \in Ralph, NEW t \in First(ClaimableTasks(tc)), Fresh(r),
             tc' = [tc EXCEPT ![t] = Grant(@, r)],
             ri' = ClearOthers([ri EXCEPT ![r] = NoInstance], t, r),
             d' = [d EXCEPT !.at = "register", !.r = r, !.t = t]
      PROVE  HandKept
  <2>1. /\ t \in Task /\ In(r, {"none"}) /\ \A u \in Task : ~Holds(r, u)
        /\ r \notin tui.running /\ tui.rows[r] = NULL
    BY <1>2 DEF First, ClaimableTasks, Fresh, Holds, Held
  <2>2. \A q \in Ralph, u \in Task :
          Holds(q, u)' => IF u = t THEN q = r ELSE Holds(q, u)
    BY <1>2, <2>1, GrantType DEF TypeInv, Rows, Holds, Held
  <2>3. ri'[r] = NoInstance
    BY <1>2 DEF ClearOthers, TypeInv, Rows
  <2>4. \A q \in Ralph \ {r} :
          ri'[q].status = ri[q].status /\ ri'[q].current \in {NULL, ri[q].current}
    BY <1>2 DEF ClearOthers, TypeInv, Rows, Instance
  <2>5. d'.at = "register" /\ d'.r = r /\ d'.t = t /\ work' = work /\ tui' = tui
    BY <1>2 DEF SpawnClaim, procs, TypeInv, Desk, Daemon
  <2> USE DEF HandInv
  <2>6. Freed => Freed'
    BY <2>2, <2>3, <2>4 DEF Freed, NoInstance
  <2>7. SingleClaim'
    BY <2>1, <2>2 DEF SingleClaim
  <2>8. CurrentIsClaim' /\ RowIsClaim'
    BY <2>1, <2>2, <2>3, <2>4, <2>5 DEF CurrentIsClaim, RowIsClaim, NoInstance
  <2>9. AbsentIsBlank'
    BY <2>3, <2>4 DEF AbsentIsBlank, NoInstance
  <2>10. SpawnedIsNew'
    <3>1. \A u \in Task : Holds(r, u)' => u = t
      BY <2>1, <2>2
    <3> QED BY <2>1, <2>3, <2>5, <3>1 DEF SpawnedIsNew, In, At, Holds, NoInstance
  <2> QED BY <2>6, <2>7, <2>8, <2>9, <2>10 DEF HandKept
<1> QED BY <1>1, <1>2 DEF SpawnClaim

LEMMA RegisterHand == ASSUME TypeInv, HandInv, SpawnRegister PROVE HandKept
<1>1. CASE Goto("served") /\ UNCHANGED ri
  <2>1. SpawnGoesOn
    BY <1>1 DEF Goto, TypeInv, Desk, Daemon, Spawning, SpawnGoesOn
  <2> QED BY <1>1, <2>1, StandGives, StandRefresh, GivesHand DEF SpawnRegister
<1>2. CASE /\ ri' = [ri EXCEPT ![d.r].status = "active", ![d.r].age = 0]
           /\ Goto("current")
  <2>1. d.r \in Ralph /\ ri[d.r].current = NULL /\ d.at \in Spawning
    BY DEF SpawnRegister, At, TypeInv, Desk, Spawning, HandInv, SpawnedIsNew, AbsentIsBlank
  <2>2. /\ tc' = tc /\ work' = work /\ tui' = tui
        /\ d'.at = "current" /\ d'.r = d.r /\ d'.t = d.t
    BY <1>2 DEF SpawnRegister, procs, Goto, TypeInv, Desk, Daemon
  <2>3. /\ ri'[d.r].status = "active" /\ ri'[d.r].current = NULL
        /\ \A q \in Ralph \ {d.r} : ri'[q] = ri[q]
    BY <1>2, <2>1 DEF TypeInv, Rows, Instance
  <2>4. (Freed => Freed') /\ SingleClaim'
    BY <2>2, <2>3 DEF HandInv, Freed, SingleClaim, Holds
  <2>5. CurrentIsClaim' /\ RowIsClaim' /\ AbsentIsBlank'
    BY <2>2, <2>3 DEF HandInv, CurrentIsClaim, RowIsClaim, AbsentIsBlank, Holds
  <2>6. SpawnedIsNew'
    BY <2>1, <2>2 DEF HandInv, SpawnedIsNew, In, At, Holds
  <2> QED BY <2>4, <2>5, <2>6 DEF HandInv, HandKept
<1> QED BY <1>1, <1>2 DEF SpawnRegister

LEMMA SetCurrentHand == ASSUME TypeInv, HandInv, SpawnSetCurrent PROVE HandKept
<1>1. d.r \in Ralph /\ d.t \in Task /\ d.at \in Spawning
  BY DEF SpawnSetCurrent, At, TypeInv, Desk, Spawning
<1>2. /\ tc' = tc /\ work' = work /\ tui' = tui
      /\ d'.at = "launch" /\ d'.r = d.r /\ d'.t = d.t
  BY DEF SpawnSetCurrent, procs, Goto, TypeInv, Desk, Daemon
<1>3. \A q \in Ralph :
        /\ ri'[q].status = ri[q].status
        /\ ri'[q].current \in {ri[q].current} \cup (IF q = d.r THEN {d.t} ELSE {})
        /\ ri[q].status = "absent" => ri'[q] = ri[q]
  BY <1>1 DEF SpawnSetCurrent, SetCurrent, Registered, TypeInv, Rows, Instance
<1>4. (Freed => Freed') /\ SingleClaim' /\ RowIsClaim'
  BY <1>2, <1>3 DEF HandInv, Freed, SingleClaim, RowIsClaim, Holds
<1>5. CurrentIsClaim' /\ AbsentIsBlank'
  BY <1>1, <1>2, <1>3 DEF HandInv, CurrentIsClaim, AbsentIsBlank, SpawnedIsNew, Holds
<1>6. SpawnedIsNew'
  BY <1>1, <1>2 DEF HandInv, SpawnedIsNew, In, At, Holds
<1> QED BY <1>4, <1>5, <1>6 DEF HandInv, HandKept

LEMMA LaunchHand ==
  ASSUME TypeInv, HandInv, SpawnLaunch \/ SpawnUnclaim
  PROVE  HandKept
<1>1. d.r \in Ralph /\ d.t \in Task /\ d.at \in Spawning
  BY DEF SpawnLaunch, SpawnUnclaim, At, TypeInv, Desk, Spawning
<1>2. d'.r = d.r /\ d'.t = d.t /\ d'.at \in {"served", "unclaim"}
      /\ (d'.at = "unclaim" => work' = work)
  BY DEF SpawnLaunch, SpawnUnclaim, procs, Goto, TypeInv, Desk, Daemon
<1>3. SpawnGoesOn
  BY <1>1, <1>2 DEF SpawnGoesOn, Spawning, In
<1>4. Gives
  BY <1>1, StandGives, ReleaseGives DEF SpawnLaunch, SpawnUnclaim, tables
<1>5. RefreshGoesOn
  BY StandRefresh DEF SpawnLaunch, SpawnUnclaim
<1> QED BY <1>3, <1>4, <1>5, GivesHand

\* A worker the TUI finds done goes from its claim to the next one.
LEMMA ClaimNextHand ==
  ASSUME TypeInv, HandInv, NEW r \in Ralph, r \in tui.running, UNCHANGED <<work, d>>,
         NEW t \in Task, tui.rows[r] = t, CompleteAndClaimNext(r, t),
         RefreshGoesOn, tui'.rows[r] = NULL
  PROVE  HandInv' /\ (Freed /\ ri[r].status = "active" => Freed')
<1> DEFINE done == IF Holds(r, t) THEN [tc EXCEPT ![t].status = "completed"] ELSE tc
           idle == SetCurrent(ri, r, NULL)
<1>1. t # NULL
  BY TableAssumption
<1>2. done \in [Task -> Claim]
  BY ClosedType DEF TypeInv, Rows
<1>3. \A q \in Ralph, u \in Task :
        Held(done[u]) /\ done[u].owner = q => Holds(q, u) /\ q # r
  BY <1>1, ClosedType DEF HandInv, RowIsClaim, TypeInv, Rows, Holds, Held
<1>4. /\ idle \in [Ralph -> Instance]
      /\ \A q \in Ralph : idle[q].status = ri[q].status /\ idle[q].current \in {NULL, ri[q].current}
  BY SetCurrentType DEF SetCurrent, TypeInv, Rows, Instance
<1>5. SpawnGoesOn
  BY DEF SpawnGoesOn, In
<1>6. CASE tc' = done /\ ri' = idle
  <2>1. Gives
    BY <1>3, <1>4, <1>6 DEF Gives, GivesClaims, ShowsLess, RetiresFreed, Holds
  <2> QED BY <1>5, <2>1, GivesHand DEF HandKept
<1>7. ASSUME NEW n \in First(PendingTasks(done)), tc' = [done EXCEPT ![n] = Grant(@, r)],
             ri' = SetCurrent(ClearOthers(idle, n, r), r, n)
      PROVE  HandInv' /\ (Freed /\ ri[r].status = "active" => Freed')
  <2>1. n \in Task
    BY <1>7 DEF First, PendingTasks
  <2> HIDE DEF done, idle
  <2>2. \A q \in Ralph, u \in Task :
          Holds(q, u)' => IF u = n THEN q = r ELSE Holds(q, u) /\ q # r
    BY <1>2, <1>3, <1>7, <2>1, GrantType DEF Holds, Held
  <2>3. /\ ClearOthers(idle, n, r) \in [Ralph -> Instance]
        /\ \A q \in Ralph : /\ ClearOthers(idle, n, r)[q].status = ri[q].status
                            /\ ClearOthers(idle, n, r)[q].current \in {NULL, ri[q].current}
    <3>1. ClearOthers(idle, n, r) \in [Ralph -> Instance]
      BY <1>4, ClearOthersType
    <3>2. ASSUME NEW q \in Ralph
          PROVE  /\ ClearOthers(idle, n, r)[q].status = idle[q].status
                 /\ ClearOthers(idle, n, r)[q].current \in {NULL, idle[q].current}
      <4>1. idle[q] \in Instance
        BY <1>4
      <4> QED BY <4>1, CurrentType DEF ClearOthers
    <3> QED BY <1>4, <3>1, <3>2
  <2>4. \A q \in Ralph :
          /\ ri'[q].status = ri[q].status
          /\ IF q = r /\ Registered(ri, r) THEN ri'[q].current = n
                                          ELSE ri'[q].current \in {NULL, ri[q].current}
    BY <1>7, <2>1, <2>3, CurrentType DEF SetCurrent, Registered
  <2> USE DEF HandInv
  <2>5. (Freed /\ ri[r].status = "active" => Freed') /\ SingleClaim'
    BY <2>2, <2>4 DEF Freed, SingleClaim
  <2>6. CurrentIsClaim' /\ AbsentIsBlank'
    BY <2>2, <2>4 DEF CurrentIsClaim, AbsentIsBlank, Registered
  <2>7. RowIsClaim'
    BY <2>2 DEF RowIsClaim, RefreshGoesOn
  <2>8. SpawnedIsNew'
    <3>1. SUFFICES ASSUME d.at \in Spawning PROVE SpawnedIsNew'
      BY DEF SpawnedIsNew
    <3>2. d.r # r /\ d.r \in Ralph /\ d.r \notin tui'.running
      BY <3>1 DEF SpawnedIsNew, RefreshGoesOn, TypeInv, Desk
    <3> QED BY <2>2, <2>4, <3>2 DEF SpawnedIsNew, In, At, Holds
  <2> QED BY <2>5, <2>6, <2>7, <2>8
<1> QED BY <1>6, <1>7 DEF CompleteAndClaimNext

\* One row: whatever became of the ralph since the SELECT, it ends with one
\* claim; but with none if it is retired, only while nobody claims for it.
LEMMA TuiHand ==
  ASSUME TypeInv, HandInv, NEW r \in Ralph, TuiActs(r)
  PROVE  HandInv' /\ (Freed /\ ri[r].status = "active" => Freed')
<1> DEFINE t == tui.rows[r]
<1>1. t \in Task /\ UNCHANGED <<work, d>>
  BY DEF TuiActs, TypeInv, Tui, procs
<1>2. RefreshGoesOn /\ tui'.rows[r] = NULL
  BY DEF TuiActs, RefreshGoesOn, TypeInv, Tui
<1>3. SpawnGoesOn
  BY <1>1 DEF SpawnGoesOn, In
<1>4. CASE Release(r, t) \/ Fail(r, t) \/ UNCHANGED <<tc, ri>>
  <2>1. Gives
    BY <1>1, <1>4, ReleaseGives, CloseGives, StandGives DEF Fail
  <2> QED BY <1>2, <1>3, <2>1, GivesHand DEF HandKept
<1>5. CASE r \in tui.running /\ CompleteAndClaimNext(r, t)
  BY <1>1, <1>2, <1>5, ClaimNextHand
<1> QED BY <1>4, <1>5 DEF TuiActs

\* What a refresh reads is what is so.
LEMMA TuiReadsHand ==
  ASSUME TypeInv, HandInv, TuiBegins \/ TuiSelects
  PROVE  HandKept
<1>1. UNCHANGED <<tc, ri, work, d>>
  BY DEF TuiBegins, TuiSelects, procs
<1>2. (Freed => Freed') /\ SingleClaim' /\ CurrentIsClaim' /\ AbsentIsBlank'
  BY <1>1 DEF HandInv, Freed, SingleClaim, CurrentIsClaim, AbsentIsBlank, Holds
<1>3. RowIsClaim'
  <2>1. CASE TuiBegins
    BY <1>1, <2>1 DEF TuiBegins, HandInv, RowIsClaim, Holds, TypeInv, Tui
  <2>2. CASE TuiSelects
    BY <1>1, <2>2 DEF TuiSelects, HandInv, CurrentIsClaim, RowIsClaim, Holds, TypeInv, Tui
  <2> QED BY <2>1, <2>2
<1>4. SpawnedIsNew'
  <2>1. d.at \in Spawning => d.r \notin tui'.running
    BY DEF TuiBegins, TuiSelects, HandInv, SpawnedIsNew, Running, In, TypeInv, Tui
  <2> QED BY <1>1, <2>1 DEF HandInv, SpawnedIsNew, In, At, Holds
<1> QED BY <1>2, <1>3, <1>4 DEF HandInv, HandKept

LEMMA TuiEndsHand ==
  ASSUME TypeInv, HandInv, TuiRenews \/ TuiSweeps \/ TuiQuits
  PROVE  HandKept
<1>1. Gives
  <2>1. CASE TuiSweeps
    BY <2>1, RetireGives DEF TuiSweeps, MarkStale
  <2> QED BY <2>1, RenewGives, StandGives DEF TuiQuits
<1>2. RefreshGoesOn
  BY DEF TuiRenews, TuiSweeps, TuiQuits, RefreshGoesOn, TuiIdle, NoRows, TypeInv, Tui
<1>3. SpawnGoesOn
  BY DEF TuiRenews, TuiSweeps, TuiQuits, procs, SpawnGoesOn, In
<1> QED BY <1>1, <1>2, <1>3, GivesHand

\* A refresh claims for no ralph that has been retired.
RefreshActsOnOpen == \A r \in Ralph : TuiActs(r) => ri[r].status = "active"

LEMMA NextHand ==
  TypeInv /\ HandInv /\ [Next]_vars => HandInv' /\ (Freed /\ RefreshActsOnOpen => Freed')
<1> SUFFICES ASSUME TypeInv, HandInv, [Next]_vars
             PROVE  HandInv' /\ (Freed /\ RefreshActsOnOpen => Freed')
  OBVIOUS
<1>1. CASE DaemonHand
  <2>1. tui' = tui
    BY <1>1 DEF DaemonHand, Start, Sweep, ListOutcomes, RetireWorker, ConsumeOutcome, ApplyOutcome,
                Autospawn, FetchRequests, SpawnSync, ConsumeRequest, ServeCancels, DaemonCrash
  <2> QED BY <1>1, <2>1, DaemonGives, StandRefresh, GivesHand DEF SpawnGoesOn, HandKept
<1>2. CASE SpawnClaim \/ SpawnRegister \/ SpawnSetCurrent \/ SpawnLaunch \/ SpawnUnclaim
  BY <1>2, ClaimHand, RegisterHand, SetCurrentHand, LaunchHand DEF HandKept
<1>3. CASE \/ SpawnRequest \/ IntentExpires \/ Tick \/ UNCHANGED vars
           \/ \E r \in Ralph : WorkerActs(r) \/ CancelRequest(r)
  BY <1>3, OutsideGives, StandRefresh, GivesHand DEF HandKept
<1>4. CASE TuiBegins \/ TuiSelects \/ TuiRenews \/ TuiSweeps \/ TuiQuits
  BY <1>4, TuiReadsHand, TuiEndsHand DEF HandKept
<1>5. ASSUME NEW r \in Ralph, TuiActs(r)
      PROVE  HandInv' /\ (Freed /\ RefreshActsOnOpen => Freed')
  BY <1>5, TuiHand DEF RefreshActsOnOpen
<1> QED BY <1>1, <1>2, <1>3, <1>4, <1>5 DEF Next, DaemonStep, DaemonHand, WorkerActs, TuiGoesOn

LEMMA InitHand == Init => HandInv /\ Freed
BY DEF Init, HandInv, Freed, SingleClaim, CurrentIsClaim, RowIsClaim, AbsentIsBlank, SpawnedIsNew,
       Down, Spawning, Holds, Held, NewClaim, NoInstance

LEMMA HandAlways == Spec => [](TypeInv /\ HandInv)
<1>1. TypeInv /\ HandInv /\ [Next]_vars => (TypeInv /\ HandInv)'
  BY NextTypes, NextHand
<1> QED BY <1>1, InitTypes, InitHand, PTL DEF Spec

\* A retired ralph holds no claim, as long as no refresh of the TUI completes
\* and claims for a row that was retired after its SELECT: every statement that
\* retires a row releases what it holds, no other step hands a claim to a ralph
\* whose row says it has stopped or crashed, and so the refresh's call is the
\* only way to a claim that no sweep will end.
THEOREM RetiredFree == Spec /\ ActsOnOpenRows => []RetiredHoldsNothing
<1>1. TypeInv /\ HandInv /\ Freed /\ [Next]_vars /\ [RefreshActsOnOpen]_vars => Freed'
  <2> SUFFICES ASSUME TypeInv, HandInv, Freed, [Next]_vars, [RefreshActsOnOpen]_vars PROVE Freed'
    OBVIOUS
  <2>1. CASE UNCHANGED vars
    BY <2>1 DEF vars, Freed, Holds
  <2>2. CASE RefreshActsOnOpen
    BY <2>2, NextHand
  <2> QED BY <2>1, <2>2
<1>2. ActsOnOpenRows <=> [][RefreshActsOnOpen]_vars
  BY DEF ActsOnOpenRows, RefreshActsOnOpen
<1> QED BY <1>1, <1>2, HandAlways, InitHand, RetiredFreed, PTL DEF Spec

\* No ralph ever holds two claims, though the spawner and the TUI's refresh both
\* claim for it, and the refresh on a row it read earlier: the ralph may have
\* been swept, retired or stripped of its task since.
THEOREM OneClaim == Spec => []OneClaimEach
<1>1. HandInv => OneClaimEach
  <2> SUFFICES ASSUME HandInv, NEW r \in Ralph PROVE Cardinality(HeldBy(tc, {r})) <= 1
    BY DEF OneClaimEach
  <2>1. CASE HeldBy(tc, {r}) = {}
    BY <2>1, FS_EmptySet
  <2>2. ASSUME NEW t \in HeldBy(tc, {r}) PROVE Cardinality(HeldBy(tc, {r})) <= 1
    <3>1. HeldBy(tc, {r}) = {t}
      BY <2>2 DEF HandInv, SingleClaim, HeldBy, Holds
    <3> QED BY <3>1, FS_Singleton
  <2> QED BY <2>1, <2>2
<1> QED BY <1>1, HandAlways, PTL

-----------------------------------------------------------------------------
(***************************************************************************)
(* While leases last: no claim runs out that its holder needs, a claim is  *)
(* no longer than a heartbeat may be late (in coordination.py seven        *)
(* minutes and ten), and no TUI looks in while a ralph has its row and not *)
(* yet its process.                                                        *)
(***************************************************************************)
Leased == Timely /\ "tui" \notin Env /\ CLAIM_EXPIRY <= HEARTBEAT_STALE

\* A step that leaves the needed claims, and the active instances, as they are.
LEMMA AheadStays ==
  ASSUME Ahead,
         \A t \in Task : Held(tc[t])' /\ Needed(t)' =>
           /\ Held(tc[t]) /\ Needed(t)
           /\ tc'[t].lease = tc[t].lease /\ tc'[t].owner = tc[t].owner,
         \A r \in Ralph : ri'[r].status = "active" =>
           ri[r].status = "active" /\ ri'[r].age = ri[r].age,
         TypeInv
  PROVE  Ahead'
<1>1. \A t \in Task : Needed(t) => tc[t].owner \in Ralph
  BY DEF Needed, TypeInv, Rows, Claim
<1> QED BY <1>1 DEF Ahead

LEMMA SameAhead ==
  ASSUME Ahead, TypeInv, UNCHANGED <<tc, ri>>, \A t \in Task : Needed(t)' => Needed(t)
  PROVE  Ahead'
BY AheadStays

\* What a worker's own steps may do to it and to its outcome.
LEMMA WorkerEffect ==
  ASSUME TypeInv, NEW r \in Ralph, WorkerActs(r)
  PROVE  /\ UNCHANGED <<tc, ri, d>>
         /\ \A q \in Ralph \ {r} : work'[q] = work[q] /\ out'[q] = out[q]
         /\ ~In(r, {"none"})
         /\ work'[r].phase = "working" => In(r, {"working"}) /\ work'[r].task = work[r].task
         /\ In(r, {"reported"}) => work'[r].phase = "none" /\ out'[r] = out[r]
         /\ \/ out'[r] = out[r]
            \/ /\ work'[r].phase = "reported"
               /\ out'[r].status \in {"success", "failed", "other"}
               /\ out'[r].status = "other" => out'[r].task = NULL
<1>1. CASE WorkerSays(r)
  <2>1. PICK says \in {"done", "failed"}, id \in Task \cup {NULL} :
          work' = [work EXCEPT ![r].says = says, ![r].id = id]
    BY <1>1 DEF WorkerSays, TypeInv, Crew, Worker
  <2>2. /\ \A q \in Ralph \ {r} : work'[q] = work[q]
        /\ work'[r].phase = work[r].phase /\ work'[r].task = work[r].task
    BY <2>1 DEF TypeInv, Crew, Worker
  <2> QED BY <1>1, <2>2 DEF WorkerSays, tables, In
<1>2. ASSUME NEW status \in {"success", "failed", "other"}, NEW t,
             Report(r, status, t), status = "other" => t = NULL,
             In(r, {"working", "stopping", "leaving"})
      PROVE  /\ UNCHANGED <<tc, ri, d>>
             /\ \A q \in Ralph \ {r} : work'[q] = work[q] /\ out'[q] = out[q]
             /\ work'[r].phase = "reported"
             /\ out'[r].status \in {"success", "failed", "other"}
             /\ out'[r].status = "other" => out'[r].task = NULL
  <2>1. work'[r].phase = "reported" /\ \A q \in Ralph \ {r} : work'[q] = work[q]
    BY <1>2 DEF Report, SetPhase, TypeInv, Crew, Worker
  <2>2. out'[r] = [status |-> status, task |-> t] /\ \A q \in Ralph \ {r} : out'[q] = out[q]
    BY <1>2 DEF Report, TypeInv, Crew
  <2> QED BY <1>2, <2>1, <2>2 DEF Report, tables
<1>3. CASE WorkerSucceeds(r) \/ WorkerFails(r)
  <2>1. \E status \in {"success", "failed"} : Report(r, status, work[r].id)
    BY <1>3 DEF WorkerSucceeds, WorkerFails
  <2>2. In(r, {"working"})
    BY <1>3 DEF WorkerSucceeds, WorkerFails
  <2> QED BY <1>2, <2>1, <2>2 DEF In
<1>4. CASE WorkerGivesUp(r)
  <2>1. Report(r, "other", NULL) /\ In(r, {"working", "stopping", "leaving"})
    BY <1>4 DEF WorkerGivesUp, In
  <2> QED BY <1>2, <2>1 DEF In
<1>5. CASE WorkerBreaksOff(r) \/ WorkerTicksPlan(r)
  BY <1>5 DEF WorkerBreaksOff, WorkerTicksPlan, SetPhase, tables, procs, In, TypeInv, Crew, Worker
<1>6. CASE WorkerExits(r) \/ WorkerKilled(r)
  <2>1. ~In(r, {"none"}) /\ work' = [work EXCEPT ![r] = Gone(r)]
        /\ UNCHANGED <<tc, ri, d, out>>
    BY <1>6 DEF WorkerExits, WorkerKilled, tables, In
  <2> QED BY <2>1, GoneType DEF In, TypeInv, Crew
<1> QED BY <1>1, <1>3, <1>4, <1>5, <1>6 DEF WorkerActs, WorkerEnds

LEMMA WorkerLease ==
  ASSUME TypeInv, HandInv, LeaseInv, NEW r \in Ralph, WorkerActs(r)
  PROVE  LeaseInv'
<1> USE WorkerEffect DEF LeaseInv
<1>1. d.at \in Spawning => d.r \in Ralph /\ d.r # r
  BY DEF HandInv, SpawnedIsNew, In, TypeInv, Desk
<1>2. \A q \in Ralph : out[q].status # "none" => out'[q] = out[q]
  BY DEF OutcomesLast, In
<1>3. WorkersHave'
  BY DEF WorkersHave, In, Has
<1>4. SpawnedHas'
  BY <1>1 DEF SpawnedHas, Has, At
<1>5. OutcomesLast'
  BY DEF OutcomesLast, In
<1>6. FilesThere' /\ Applied'
  <2>1. d.files \subseteq Ralph
    BY DEF TypeInv, Desk, Daemon
  <2> QED BY <1>2, <2>1 DEF FilesThere, Applied, Holds, At, Applying
<1>7. Ahead'
  <2>1. \A t \in Task : Needed(t)' => Needed(t)
    BY DEF Needed, In, TypeInv, Rows, Claim
  <2> QED BY <2>1, SameAhead
<1> QED BY <1>3, <1>4, <1>5, <1>6, <1>7

\* The daemon goes on to a step that neither spawns nor applies an outcome.
LEMMA DeskLease ==
  ASSUME TypeInv, LeaseInv, UNCHANGED <<tc, ri, work, out>>,
         d'.at \notin Spawning \cup Applying, d'.r \in {NULL, d.r},
         \A r \in d'.files : out[r].status # "none"
  PROVE  LeaseInv'
<1> USE DEF LeaseInv
<1>1. WorkersHave' /\ OutcomesLast' /\ FilesThere'
  BY DEF WorkersHave, Has, In, OutcomesLast, FilesThere
<1>2. SpawnedHas' /\ Applied'
  BY DEF SpawnedHas, Applied, At, Applying
<1>3. Ahead'
  <2>1. \A t \in Task : Needed(t)' => Needed(t)
    BY DEF Needed, In
  <2> QED BY <2>1, SameAhead
<1> QED BY <1>1, <1>2, <1>3

\* Steps that write no row and no file.
Moves ==
  \/ Start \/ ListOutcomes \/ Autospawn \/ FetchRequests \/ ConsumeRequest \/ DaemonCrash
  \/ (SpawnClaim \/ SpawnRegister) /\ Goto("served") /\ UNCHANGED <<tc, ri>>

LEMMA MovesLease == ASSUME TypeInv, LeaseInv, Moves PROVE LeaseInv'
<1> USE DEF Moves
<1>1. UNCHANGED <<tc, ri, work, out>>
  BY DEF Start, ListOutcomes, Autospawn, FetchRequests, ConsumeRequest, DaemonCrash, SpawnClaim,
         SpawnRegister, tables, procs
<1>2. d'.at \notin Spawning \cup Applying /\ d'.r \in {NULL, d.r}
      /\ \A r \in d'.files : out[r].status # "none"
  <2>1. \A r \in d.files : out[r].status # "none"
    BY DEF LeaseInv, FilesThere
  <2>2. CASE \E step \in {"asleep", "fetch", "served"} : Goto(step)
    BY <2>1, <2>2 DEF Goto, TypeInv, Desk, Daemon, Spawning, Applying
  <2>3. CASE ListOutcomes
    <3>1. {r \in Ralph : out[r].status # "none"} \in SUBSET Ralph
      OBVIOUS
    <3> QED BY <2>3, <3>1, NextFileDesk DEF ListOutcomes, TypeInv, Spawning, Applying
  <2>4. CASE FetchRequests \/ ConsumeRequest
    BY <2>1, <2>4 DEF FetchRequests, ConsumeRequest, NextRequest, TypeInv, Desk, Daemon, Spawning,
                      Applying
  <2>5. CASE DaemonCrash
    BY <2>5 DEF DaemonCrash, Down, Spawning, Applying
  <2> QED BY <2>2, <2>3, <2>4, <2>5 DEF Start, Autospawn
<1> QED BY <1>1, <1>2, DeskLease

\* Who is retired works on nothing it holds.
LEMMA RetireLease ==
  ASSUME TypeInv, LeaseInv, NEW rs, NEW status \in {"stopped", "crashed"},
         tc' = ReleaseAll(tc, HeldBy(tc, rs)), ri' = Retire(ri, rs, status),
         \A r \in Ralph, t \in Task : r \in rs /\ Holds(r, t) => ~In(r, {"working"}),
         UNCHANGED <<work, out>>, d'.r = d.r, d'.files = d.files,
         d'.at \notin Spawning \cup {"retire"}, d'.at \in Applying => d.at \in Applying
  PROVE  LeaseInv'
<1> USE DEF LeaseInv
<1>1. \A t \in Task :
        IF Held(tc[t]) /\ tc[t].owner \in rs
          THEN tc'[t].status = "pending"
          ELSE tc'[t] = tc[t]
  BY RelinquishType DEF ReleaseAll, HeldBy, TypeInv, Rows
<1>2. \A r \in Ralph : ri'[r].status = "active" => ri'[r] = ri[r]
  BY DEF Retire, TypeInv, Rows, Instance
<1>3. WorkersHave'
  BY <1>1 DEF WorkersHave, In, Has, Holds, Held, TypeInv, Crew
<1>4. SpawnedHas' /\ Applied'
  BY DEF SpawnedHas, Applied, At
<1>5. OutcomesLast' /\ FilesThere'
  BY DEF OutcomesLast, FilesThere, In
<1>6. Ahead'
  <2>1. \A t \in Task : Held(tc[t])' => tc'[t] = tc[t]
    BY <1>1 DEF Held
  <2>2. \A t \in Task : tc'[t] = tc[t] /\ Needed(t)' => Needed(t)
    BY DEF Needed, In
  <2> QED BY <1>2, <2>1, <2>2, AheadStays
<1> QED BY <1>3, <1>4, <1>5, <1>6

LEMMA NeededHolder ==
  ASSUME TypeInv, NEW r \in Ralph, NEW t \in Task, Holds(r, t),
         r = d.r \/ ~In(r, {"none"}) \/ out[r].status # "none"
  PROVE  Held(tc[t]) /\ Needed(t)
BY TableAssumption DEF Holds, Needed

LEMMA FreshAge ==
  ASSUME Leased, TypeInv, Ahead, NEW t \in Task, Held(tc[t]), Needed(t)
  PROVE  tc[t].owner \notin StaleInstances(ri) /\ ~Lapsed(tc[t])
<1> DEFINE r == tc[t].owner
<1>1. tc[t].lease \in 1 .. CLAIM_EXPIRY
      /\ (ri[r].status = "active" => ri[r].age + tc[t].lease <= CLAIM_EXPIRY)
  BY DEF Ahead
<1>2. r \in Ralph /\ ri[r].age \in 0 .. HEARTBEAT_STALE
  BY DEF Needed, TypeInv, Rows, Claim, Instance
<1>3. ri[r].status = "active" => ri[r].age # HEARTBEAT_STALE
  BY <1>1, <1>2, TableAssumption DEF Leased
<1>4. tc[t].lease # 0
  BY <1>1, TableAssumption
<1> QED BY <1>3, <1>4 DEF StaleInstances, Lapsed

LEMMA SweepLease == ASSUME Leased, TypeInv, LeaseInv, Sweep PROVE LeaseInv'
<1>1. \A r \in Ralph, t \in Task : r \in StaleInstances(ri) /\ Holds(r, t) => ~In(r, {"working"})
  BY NeededHolder, FreshAge DEF LeaseInv, Holds, In
<1>2. d'.at = "outcomes" /\ d'.r = d.r /\ d'.files = d.files /\ UNCHANGED <<work, out>>
  BY DEF Sweep, MarkStale, Goto, procs, TypeInv, Desk, Daemon
<1> QED BY <1>1, <1>2, RetireLease DEF Sweep, MarkStale, Spawning, Applying

LEMMA RetireWorkerLease == ASSUME TypeInv, LeaseInv, RetireWorker PROVE LeaseInv'
<1>1. d.r \in Ralph /\ ~In(d.r, {"working"})
  BY DEF RetireWorker, At, TypeInv, Desk, Applying, LeaseInv, FilesThere, OutcomesLast, In
<1>2. /\ d'.at = "consume" /\ d'.r = d.r /\ d'.files = d.files /\ UNCHANGED <<work, out>>
      /\ d.at \in Applying
  BY DEF RetireWorker, Goto, procs, TypeInv, Desk, Daemon, At, Applying
<1> QED BY <1>1, <1>2, RetireLease DEF RetireWorker, Spawning

LEMMA ConsumeLease == ASSUME TypeInv, LeaseInv, ConsumeOutcome PROVE LeaseInv'
<1> USE DEF LeaseInv
<1>1. d.r \in Ralph /\ In(d.r, {"none", "reported"}) /\ d.files \subseteq Ralph
  BY DEF ConsumeOutcome, At, TypeInv, Desk, Daemon, Applying, FilesThere, OutcomesLast
<1>2. /\ d'.files = d.files \ {d.r} /\ d'.r = NULL /\ d'.at \in {"autospawn", "apply"}
      /\ UNCHANGED <<tc, ri, work>>
  BY <1>1, NextFileDesk DEF ConsumeOutcome, TypeInv, tables
<1>3. out'[d.r] = NoOutcome /\ \A r \in Ralph \ {d.r} : out'[r] = out[r]
  BY <1>1 DEF ConsumeOutcome, TypeInv, Crew
<1>4. WorkersHave'
  BY <1>2 DEF WorkersHave, In, Has
<1>5. SpawnedHas' /\ Applied' /\ FilesThere'
  BY <1>1, <1>2, <1>3 DEF SpawnedHas, Applied, FilesThere, At, Spawning, Applying
<1>6. OutcomesLast'
  BY <1>2, <1>3 DEF OutcomesLast, In, NoOutcome
<1>7. Ahead'
  <2>1. \A t \in Task : Needed(t)' => Needed(t)
    BY <1>2, <1>3 DEF Needed, In, NoOutcome, TypeInv, Rows, Claim
  <2> QED BY <1>2, <2>1, SameAhead
<1> QED BY <1>4, <1>5, <1>6, <1>7

\* Applying an outcome closes a claim of the ralph that left it, or nothing.
LEMMA ApplyEffect ==
  ASSUME TypeInv, LeaseInv, NEW r \in Ralph, ApplyOutcome(r)
  PROVE  /\ UNCHANGED <<work, out>>
         /\ \A t \in Task :
              \/ tc'[t] = tc[t]
              \/ /\ t = out[r].task /\ tc[t].owner = r /\ tc'[t].owner = r
                 /\ tc'[t].status \in {"completed", "failed"}
                 /\ out[r].status = "success" => tc'[t].status = "completed"
         /\ \A q \in Ralph : ri'[q].status = ri[q].status /\ ri'[q].age = ri[q].age
         /\ d'.at = "retire" /\ out[r].status = "success" /\ out[r].task # NULL
              => tc'[out[r].task].owner # r \/ tc'[out[r].task].status = "completed"
<1> DEFINE t == out[r].task
<1>1. t \in Task \cup {NULL} /\ (out[r].status = "other" => t = NULL)
  BY DEF TypeInv, Crew, Outcome, LeaseInv, OutcomesLast
<1>2. UNCHANGED <<work, out>>
  BY DEF ApplyOutcome, procs
<1>3. ASSUME ri' = ri \/ ri' = SetCurrent(ri, r, NULL)
      PROVE  \A q \in Ralph : ri'[q].status = ri[q].status /\ ri'[q].age = ri[q].age
  BY <1>3 DEF SetCurrent, TypeInv, Rows, Instance
<1>4. ASSUME t \in Task, NEW status \in {"completed", "failed"},
             tc' = [tc EXCEPT ![t].status = status]
      PROVE  /\ \A u \in Task \ {t} : tc'[u] = tc[u]
             /\ tc'[t].status = status /\ tc'[t].owner = tc[t].owner
  BY <1>4, ClosedType DEF TypeInv, Rows
<1>5. CASE out[r].status = "success" /\ t # NULL /\ Complete(r, t)
  <2>1. CASE tc[t].owner = r /\ tc[t].status # "completed"
    BY <1>1, <1>2, <1>3, <1>4, <1>5, <2>1 DEF Complete
  <2>2. CASE ~(tc[t].owner = r /\ tc[t].status # "completed")
    BY <1>1, <1>2, <1>3, <1>5, <2>2 DEF Complete, tables
  <2> QED BY <2>1, <2>2
<1>6. CASE out[r].status = "failed" /\ t # NULL /\ Fail(r, t)
  <2>1. CASE Holds(r, t)
    BY <1>1, <1>2, <1>3, <1>4, <1>6, <2>1 DEF Fail, Holds
  <2>2. CASE ~Holds(r, t)
    BY <1>1, <1>2, <1>3, <1>6, <2>2 DEF Fail
  <2> QED BY <2>1, <2>2
<1>7. CASE t = NULL /\ UNCHANGED <<tc, ri>>
  BY <1>1, <1>2, <1>3, <1>7
<1>8. CASE d' = [d EXCEPT !.at = "consume", !.r = r] /\ UNCHANGED tables
  BY <1>2, <1>3, <1>8 DEF tables, TypeInv, Desk, Daemon
<1> QED BY <1>1, <1>5, <1>6, <1>7, <1>8 DEF ApplyOutcome

LEMMA ApplyLease ==
  ASSUME TypeInv, LeaseInv, NEW r \in Ralph, ApplyOutcome(r)
  PROVE  LeaseInv'
<1> USE ApplyEffect, ApplyDesk DEF LeaseInv
<1>1. r \in d.files /\ out[r].status # "none"
  BY DEF ApplyOutcome, FilesThere
<1>2. WorkersHave'
  BY DEF WorkersHave, In, Has, TypeInv, Crew
<1>3. SpawnedHas' /\ OutcomesLast' /\ FilesThere'
  BY <1>1 DEF SpawnedHas, OutcomesLast, FilesThere, In, Spawning
<1>4. Applied'
  <2>1. out[r].task \in Task \cup {NULL}
    BY DEF TypeInv, Crew, Outcome
  <2> QED BY <2>1 DEF Applied, Holds, Held, At
<1>5. Ahead'
  <2>1. \A t \in Task : Held(tc[t])' => tc'[t] = tc[t]
    BY DEF Held
  <2>2. \A t \in Task : tc'[t] = tc[t] /\ Needed(t)' => Needed(t)
    BY <1>1 DEF Needed, In
  <2> QED BY <2>1, <2>2, AheadStays
<1> QED BY <1>2, <1>3, <1>4, <1>5

LEMMA SyncLease == ASSUME TypeInv, LeaseInv, SpawnSync PROVE LeaseInv'
<1> USE DEF LeaseInv
<1>1. \A t \in Task :
        \/ tc'[t] = tc[t]
        \/ tc'[t].status = "completed" /\ tc'[t].owner = tc[t].owner
  BY ClosedType DEF SpawnSync, TypeInv, Rows
<1>2. /\ d'.at = "claim" /\ d'.r = d.r /\ d'.files = d.files
      /\ UNCHANGED <<ri, work, out>>
  BY DEF SpawnSync, Goto, procs, TypeInv, Desk, Daemon
<1>3. WorkersHave'
  BY <1>1, <1>2 DEF WorkersHave, In, Has, TypeInv, Crew
<1>4. SpawnedHas' /\ Applied' /\ OutcomesLast' /\ FilesThere'
  BY <1>2 DEF SpawnedHas, Applied, OutcomesLast, FilesThere, At, In, Spawning, Applying
<1>5. Ahead'
  <2>1. \A t \in Task : Held(tc[t])' => tc'[t] = tc[t]
    BY <1>1 DEF Held
  <2>2. \A t \in Task : tc'[t] = tc[t] /\ Needed(t)' => Needed(t)
    BY <1>2 DEF Needed, In
  <2> QED BY <1>2, <2>1, <2>2, AheadStays
<1> QED BY <1>3, <1>4, <1>5

\* No claim a worker has is there to be taken.
LEMMA ClaimLease ==
  ASSUME Leased, TypeInv, LeaseInv,
         NEW r \in Ralph, NEW t \in First(ClaimableTasks(tc)), Fresh(r),
         tc' = [tc EXCEPT ![t] = Grant(@, r)],
         ri' = ClearOthers([ri EXCEPT ![r] = NoInstance], t, r),
         d' = [d EXCEPT !.at = "register", !.r = r, !.t = t], UNCHANGED <<work, out>>
  PROVE  LeaseInv'
<1> USE DEF LeaseInv
<1>1. t \in Task /\ Claimable(tc[t])
  BY DEF First, ClaimableTasks
<1>2. /\ out[r].status = "none" /\ In(r, {"none"})
      /\ \A u \in Task : Held(tc[u]) => tc[u].owner # r
  BY DEF Fresh, NoOutcome, Held
<1>3. /\ tc'[t].status = "in_progress" /\ tc'[t].owner = r /\ tc'[t].lease = CLAIM_EXPIRY
      /\ \A u \in Task \ {t} : tc'[u] = tc[u]
  BY <1>1, GrantType DEF TypeInv, Rows
<1>4. /\ ri'[r].status = "absent"
      /\ \A q \in Ralph \ {r} : ri'[q].status = ri[q].status /\ ri'[q].age = ri[q].age
  BY DEF ClearOthers, NoInstance, TypeInv, Rows, Instance
<1>5. d'.at = "register" /\ d'.r = r /\ d'.t = t /\ d'.files = d.files
  BY DEF TypeInv, Desk, Daemon
<1>6. WorkersHave'
  <2>1. ASSUME NEW q \in Ralph, In(q, {"working"}) PROVE work[q].task \in Task \ {t}
    <3>1. work[q].task \in Task /\ Has(q, work[q].task)
      BY <2>1 DEF WorkersHave, TypeInv, Crew
    <3>2. ASSUME Holds(q, t) PROVE FALSE
      <4>1. Held(tc[t]) /\ Needed(t)
        BY <1>1, <2>1, <3>2, NeededHolder DEF In
      <4>2. ~Lapsed(tc[t])
        BY <1>1, <4>1, FreshAge
      <4> QED BY <1>1, <3>2, <4>2 DEF Claimable, Holds, Held
    <3> QED BY <1>1, <3>1, <3>2 DEF Has, Claimable, Holds, Held
  <2> QED BY <1>3, <2>1 DEF WorkersHave, In, Has
<1>7. SpawnedHas' /\ Applied'
  BY <1>2, <1>3, <1>5 DEF SpawnedHas, Applied, Has, At
<1>8. OutcomesLast' /\ FilesThere'
  BY <1>5 DEF OutcomesLast, FilesThere, In, Applying
<1>9. Ahead'
  <2>1. ASSUME NEW u \in Task, Held(tc[u])', Needed(u)', u # t
        PROVE  /\ tc'[u].lease \in 1 .. CLAIM_EXPIRY
               /\ ri'[tc'[u].owner].status = "active"
                    => ri'[tc'[u].owner].age + tc'[u].lease <= CLAIM_EXPIRY
    <3>1. tc'[u] = tc[u] /\ Held(tc[u]) /\ tc[u].owner # r
      BY <1>2, <1>3, <2>1
    <3>2. Needed(u) /\ tc[u].owner \in Ralph \ {r}
      BY <1>5, <2>1, <3>1 DEF Needed, In, TypeInv, Rows, Claim
    <3> QED BY <1>4, <3>1, <3>2 DEF Ahead
  <2>2. CLAIM_EXPIRY \in 1 .. CLAIM_EXPIRY
    BY TableAssumption
  <2> QED BY <1>3, <1>4, <2>1, <2>2 DEF Ahead
<1> QED BY <1>6, <1>7, <1>8, <1>9

LEMMA RegisterLease ==
  ASSUME TypeInv, LeaseInv, SpawnRegister \/ SpawnSetCurrent
  PROVE  LeaseInv'
<1> USE DEF LeaseInv
<1>1. CASE Goto("served") /\ UNCHANGED ri
  BY <1>1, MovesLease DEF Moves, SpawnRegister, SpawnSetCurrent, Goto, TypeInv, Desk, Daemon
<1>2. CASE ~(Goto("served") /\ UNCHANGED ri)
  <2>1. d.at \in {"register", "current"} /\ d.r \in Ralph /\ d.t \in Task
    BY DEF SpawnRegister, SpawnSetCurrent, At, TypeInv, Desk, Spawning
  <2>2. /\ d'.at \in {"current", "launch"} /\ d'.r = d.r /\ d'.t = d.t /\ d'.files = d.files
        /\ UNCHANGED <<tc, work, out>>
    BY <1>2 DEF SpawnRegister, SpawnSetCurrent, Goto, procs, TypeInv, Desk, Daemon
  <2>3. \A q \in Ralph :
          \/ ri'[q].status = ri[q].status /\ ri'[q].age = ri[q].age
          \/ q = d.r /\ ri'[q].age = 0
    <3>1. CASE ri' = [ri EXCEPT ![d.r].status = "active", ![d.r].age = 0]
      BY <2>1, <3>1 DEF TypeInv, Rows, Instance
    <3>2. CASE ri' = SetCurrent(ri, d.r, d.t)
      BY <2>1, <3>2 DEF SetCurrent, TypeInv, Rows, Instance
    <3> QED BY <1>2, <3>1, <3>2 DEF SpawnRegister, SpawnSetCurrent
  <2>4. WorkersHave' /\ OutcomesLast' /\ FilesThere'
    BY <2>1, <2>2 DEF WorkersHave, Has, OutcomesLast, FilesThere, In, Applying
  <2>5. SpawnedHas' /\ Applied'
    BY <2>1, <2>2 DEF SpawnedHas, Applied, Has, At, Spawning
  <2>6. Ahead'
    <3>1. ASSUME NEW u \in Task, Held(tc[u]), Needed(u)'
          PROVE  /\ tc[u].lease \in 1 .. CLAIM_EXPIRY
                 /\ ri'[tc[u].owner].status = "active"
                      => ri'[tc[u].owner].age + tc[u].lease <= CLAIM_EXPIRY
      <4>1. Needed(u) /\ tc[u].owner \in Ralph
        BY <2>2, <3>1 DEF Needed, In, TypeInv, Rows, Claim
      <4>2. tc[u].lease \in 1 .. CLAIM_EXPIRY
            /\ (ri[tc[u].owner].status = "active"
                  => ri[tc[u].owner].age + tc[u].lease <= CLAIM_EXPIRY)
        BY <3>1, <4>1 DEF Ahead
      <4> QED BY <2>3, <4>1, <4>2, TableAssumption
    <3> QED BY <2>2, <3>1 DEF Ahead
  <2> QED BY <2>4, <2>5, <2>6
<1> QED BY <1>1, <1>2

LEMMA LaunchLease == ASSUME TypeInv, HandInv, LeaseInv, SpawnLaunch PROVE LeaseInv'
<1> USE DEF LeaseInv
<1>1. /\ At("launch") /\ d.r \in Ralph /\ d.t \in Task
      /\ Has(d.r, d.t) /\ out[d.r].status = "none" /\ In(d.r, {"none"})
  BY DEF SpawnLaunch, At, TypeInv, Desk, Spawning, SpawnedHas, HandInv, SpawnedIsNew
<1>2. /\ d'.r = d.r /\ d'.t = d.t /\ d'.files = d.files /\ UNCHANGED <<tc, ri>>
      /\ \/ d'.at = "served" /\ out' = out
            /\ work' = [work EXCEPT ![d.r] = [NoWorker EXCEPT !.phase = "working", !.task = d.t]]
         \/ d'.at = "unclaim" /\ work' = work
            /\ out' \in {out, [out EXCEPT ![d.r].status = "other"]}
  BY DEF SpawnLaunch, Goto, tables, TypeInv, Desk, Daemon
<1>3. \A t \in Task : Needed(t)' => Needed(t)
  BY <1>1, <1>2 DEF Needed, In, TypeInv, Rows, Claim, Crew
<1>4. Ahead'
  BY <1>2, <1>3, SameAhead
<1>5. CASE d'.at = "served" /\ out' = out
           /\ work' = [work EXCEPT ![d.r] = [NoWorker EXCEPT !.phase = "working", !.task = d.t]]
  <2>1. /\ work'[d.r].task = d.t /\ work'[d.r].phase = "working"
        /\ \A q \in Ralph \ {d.r} : work'[q] = work[q]
    BY <1>1, <1>5 DEF TypeInv, Crew, NoWorker
  <2>2. WorkersHave'
    BY <1>1, <1>2, <2>1 DEF WorkersHave, In, Has
  <2>3. OutcomesLast' /\ FilesThere' /\ SpawnedHas' /\ Applied'
    BY <1>1, <1>2, <1>5, <2>1
       DEF OutcomesLast, FilesThere, SpawnedHas, Applied, In, At, Spawning, Applying
  <2> QED BY <1>4, <2>2, <2>3
<1>6. CASE d'.at = "unclaim" /\ work' = work
           /\ out' \in {out, [out EXCEPT ![d.r].status = "other"]}
  <2>1. /\ out'[d.r].status \in {"none", "other"} /\ out'[d.r].task = NULL
        /\ \A q \in Ralph \ {d.r} : out'[q] = out[q]
    BY <1>1, <1>6 DEF TypeInv, Crew, Outcome, OutcomesLast
  <2>2. WorkersHave'
    BY <1>2, <1>6 DEF WorkersHave, In, Has
  <2>3. OutcomesLast' /\ FilesThere'
    <3>1. d.files \subseteq Ralph \ {d.r}
      BY <1>1 DEF FilesThere, TypeInv, Desk, Daemon
    <3> QED BY <1>1, <1>2, <1>6, <2>1, <3>1 DEF OutcomesLast, FilesThere, In, Applying
  <2>4. SpawnedHas' /\ Applied'
    BY <1>1, <1>2, <1>6, <2>1 DEF SpawnedHas, Applied, Has, At
  <2> QED BY <1>4, <2>2, <2>3, <2>4
<1> QED BY <1>2, <1>5, <1>6

LEMMA UnclaimLease == ASSUME TypeInv, HandInv, LeaseInv, SpawnUnclaim PROVE LeaseInv'
<1> USE DEF LeaseInv
<1>1. d.r \in Ralph /\ d.t \in Task /\ In(d.r, {"none"})
  BY DEF SpawnUnclaim, At, TypeInv, Desk, Spawning, HandInv, SpawnedIsNew
<1>2. /\ d'.at = "served" /\ d'.r = d.r /\ d'.files = d.files /\ UNCHANGED <<work, out>>
  BY DEF SpawnUnclaim, Goto, procs, TypeInv, Desk, Daemon
<1>3. \A t \in Task :
        tc'[t] = tc[t] \/ (Holds(d.r, t) /\ tc'[t].status = "pending")
  BY <1>1, RelinquishType DEF SpawnUnclaim, Release, TypeInv, Rows
<1>4. \A q \in Ralph : ri'[q].status = ri[q].status /\ ri'[q].age = ri[q].age
  BY <1>1 DEF SpawnUnclaim, Release, SetCurrent, TypeInv, Rows, Instance
<1>5. WorkersHave'
  BY <1>1, <1>2, <1>3 DEF WorkersHave, In, Has, Holds, TypeInv, Crew
<1>6. SpawnedHas' /\ Applied' /\ OutcomesLast' /\ FilesThere'
  BY <1>2 DEF SpawnedHas, Applied, OutcomesLast, FilesThere, In, At, Spawning, Applying
<1>7. Ahead'
  <2>1. \A t \in Task : Held(tc[t])' => tc'[t] = tc[t]
    BY <1>3 DEF Held
  <2>2. \A t \in Task : tc'[t] = tc[t] /\ Needed(t)' => Needed(t)
    BY <1>2 DEF Needed, In
  <2> QED BY <1>4, <2>1, <2>2, AheadStays
<1> QED BY <1>5, <1>6, <1>7

LEMMA CancelsLease == ASSUME TypeInv, LeaseInv, ServeCancels PROVE LeaseInv'
<1> USE DEF LeaseInv
<1>1. /\ d'.at = "asleep" /\ d'.r = d.r /\ d'.files = d.files /\ UNCHANGED <<tc, ri, out>>
  BY DEF ServeCancels, Goto, tables, TypeInv, Desk, Daemon
<1>2. \A r \in Ralph :
        \/ work'[r] = work[r]
        \/ work'[r].phase = "stopping" /\ ~In(r, {"none", "reported"})
  BY DEF ServeCancels, Running, In, TypeInv, Crew, Worker
<1>3. WorkersHave' /\ OutcomesLast' /\ FilesThere'
  BY <1>1, <1>2 DEF WorkersHave, Has, OutcomesLast, FilesThere, In, Applying
<1>4. SpawnedHas' /\ Applied'
  BY <1>1 DEF SpawnedHas, Applied, At, Spawning
<1>5. Ahead'
  <2>1. \A t \in Task : Needed(t)' => Needed(t)
    BY <1>1, <1>2 DEF Needed, In, TypeInv, Rows, Claim
  <2> QED BY <1>1, <2>1, SameAhead
<1> QED BY <1>3, <1>4, <1>5

LEMMA StandLease ==
  ASSUME LeaseInv, UNCHANGED <<tc, ri, work, out, d>>
  PROVE  LeaseInv'
<1> USE DEF LeaseInv
<1>1. WorkersHave' /\ SpawnedHas' /\ OutcomesLast' /\ FilesThere' /\ Applied'
  BY DEF WorkersHave, SpawnedHas, OutcomesLast, FilesThere, Applied, Has, Holds, In, At
<1>2. Ahead'
  BY DEF Ahead, Needed, In
<1> QED BY <1>1, <1>2

\* A tick leaves a needed claim at least one more, and the heartbeat grows no
\* older than the claim grows shorter.
LEMMA TickLease == ASSUME Leased, TypeInv, LeaseInv, Tick PROVE LeaseInv'
<1> USE DEF LeaseInv
<1>1. UNCHANGED <<work, out, d>>
  BY DEF Tick, procs
<1>2. \A t \in Task : tc'[t].status = tc[t].status /\ tc'[t].owner = tc[t].owner
  BY DEF Tick, AgeClaims, TypeInv, Rows, Claim
<1>3. WorkersHave' /\ SpawnedHas' /\ OutcomesLast' /\ FilesThere' /\ Applied'
  BY <1>1, <1>2
     DEF WorkersHave, SpawnedHas, OutcomesLast, FilesThere, Applied, Has, Holds, Held, In, At,
         TypeInv, Crew, Desk, Outcome, Applying
<1>4. Ahead'
  <2>1. ASSUME NEW t \in Task, Held(tc[t]), Needed(t)
        PROVE  /\ tc'[t].lease \in 1 .. CLAIM_EXPIRY
               /\ ri'[tc[t].owner].status = "active"
                    => ri'[tc[t].owner].age + tc'[t].lease <= CLAIM_EXPIRY
    <3> DEFINE r == tc[t].owner
    <3>1. r \in Ralph /\ ri[r].age \in 0 .. HEARTBEAT_STALE
      BY <2>1 DEF Needed, TypeInv, Rows, Claim, Instance
    <3>2. /\ tc[t].lease \in 1 .. CLAIM_EXPIRY
          /\ ri[r].status = "active" => ri[r].age + tc[t].lease <= CLAIM_EXPIRY
      BY <2>1 DEF Ahead
    <3>3. tc[t].lease # 1
      BY <2>1 DEF Tick, Leased
    <3>4. tc[t].lease # NULL /\ ~Lapsed(tc[t])
      BY <3>2, TableAssumption DEF Lapsed
    <3>5. tc'[t].lease = tc[t].lease - 1
      BY <3>4 DEF Tick, AgeClaims, TypeInv, Rows, Claim
    <3>6. /\ ri'[r].status = ri[r].status
          /\ ri'[r].age = ri[r].age \/ ri'[r].age = ri[r].age + 1
      BY <3>1 DEF Tick, AgeInstances, TypeInv, Rows, Instance
    <3> HIDE DEF r
    <3>7. tc'[t].lease \in 1 .. CLAIM_EXPIRY
      BY <3>2, <3>3, <3>5, TableAssumption
    <3>8. ri'[r].status = "active" => ri'[r].age + tc'[t].lease <= CLAIM_EXPIRY
      BY <3>1, <3>2, <3>5, <3>6, TableAssumption
    <3> QED BY <3>7, <3>8 DEF r
  <2>2. \A t \in Task : (Held(tc[t])' <=> Held(tc[t])) /\ (Needed(t)' <=> Needed(t))
    BY <1>1, <1>2 DEF Held, Needed, In
  <2> QED BY <1>2, <2>1, <2>2 DEF Ahead
<1> QED BY <1>3, <1>4

\* Without a TUI no refresh begins.
NoRefresh == tui.at = "idle"

LEMMA NextNoRefresh ==
  ASSUME Leased PROVE TypeInv /\ NoRefresh /\ [Next]_vars => NoRefresh'
<1> SUFFICES ASSUME TypeInv, NoRefresh, [Next]_vars PROVE NoRefresh'
  OBVIOUS
<1>1. CASE DaemonStep
  BY <1>1 DEF NoRefresh, DaemonStep, Start, Sweep, ListOutcomes, RetireWorker, ConsumeOutcome,
              ApplyOutcome, Autospawn, FetchRequests, SpawnSync, SpawnClaim, SpawnRegister,
              SpawnSetCurrent, SpawnLaunch, SpawnUnclaim, ConsumeRequest, ServeCancels
<1>2. CASE DaemonCrash
  BY <1>2 DEF NoRefresh, DaemonCrash
<1>3. CASE \/ SpawnRequest \/ IntentExpires \/ Tick \/ UNCHANGED vars
           \/ \E r \in Ralph : WorkerActs(r) \/ CancelRequest(r)
  BY <1>3, OutsideGives DEF NoRefresh
<1>4. CASE TuiBegins \/ TuiGoesOn
  BY <1>4 DEF NoRefresh, Leased, TuiBegins, TuiGoesOn, TuiRenews, TuiSelects, TuiActs, TuiSweeps,
              TuiQuits
<1> QED BY <1>1, <1>2, <1>3, <1>4 DEF Next, WorkerActs

LEMMA NextLease ==
  Leased /\ NoRefresh /\ TypeInv /\ HandInv /\ LeaseInv /\ [Next]_vars => LeaseInv'
<1> SUFFICES ASSUME Leased, NoRefresh, TypeInv, HandInv, LeaseInv, [Next]_vars PROVE LeaseInv'
  OBVIOUS
<1>1. CASE Start \/ ListOutcomes \/ Autospawn \/ FetchRequests \/ ConsumeRequest \/ DaemonCrash
  BY <1>1, MovesLease DEF Moves
<1>2. CASE Sweep \/ RetireWorker \/ ConsumeOutcome
  BY <1>2, SweepLease, RetireWorkerLease, ConsumeLease
<1>3. CASE \E r \in Ralph : ApplyOutcome(r)
  BY <1>3, ApplyLease
<1>4. CASE SpawnClaim
  BY <1>4, MovesLease, ClaimLease DEF Moves, SpawnClaim, procs
<1>5. CASE SpawnSync \/ SpawnRegister \/ SpawnSetCurrent \/ SpawnLaunch \/ SpawnUnclaim
  BY <1>5, SyncLease, RegisterLease, LaunchLease, UnclaimLease
<1>6. CASE ServeCancels
  BY <1>6, CancelsLease
<1>7. ASSUME NEW r \in Ralph, WorkerActs(r) PROVE LeaseInv'
  BY <1>7, WorkerLease
<1>8. CASE SpawnRequest \/ IntentExpires \/ UNCHANGED vars \/ \E r \in Ralph : CancelRequest(r)
  BY <1>8, StandLease DEF SpawnRequest, IntentExpires, CancelRequest, vars, tables, procs
<1>9. CASE TuiBegins \/ TuiGoesOn
  BY <1>9 DEF TuiBegins, TuiGoesOn, TuiRenews, TuiSelects, TuiActs, TuiSweeps, TuiQuits, NoRefresh,
              Leased
<1>10. CASE Tick
  BY <1>10, TickLease
<1> QED BY <1>1, <1>2, <1>3, <1>4, <1>5, <1>6, <1>7, <1>8, <1>9, <1>10
    DEF Next, DaemonStep, WorkerActs

LEMMA InitLease == Init => LeaseInv
BY DEF Init, LeaseInv, WorkersHave, SpawnedHas, OutcomesLast, FilesThere, Applied, Ahead, Down,
       Spawning, Applying, Held, NewClaim, NoWorker, NoOutcome, In, At

LeasedInv == TypeInv /\ HandInv /\ NoRefresh /\ LeaseInv

LEMMA LeaseAlways == ASSUME Leased PROVE Spec => []LeasedInv
<1>1. LeasedInv /\ [Next]_vars => LeasedInv'
  BY NextTypes, NextHand, NextNoRefresh, NextLease DEF LeasedInv
<1>2. Init => LeasedInv
  <2>1. Init => NoRefresh
    BY DEF Init, TuiIdle, NoRefresh
  <2> QED BY <2>1, InitTypes, InitHand, InitLease DEF LeasedInv
<1> QED BY <1>1, <1>2, PTL DEF Spec

\* No two workers run the model on one task, however the daemon, the workers
\* and the users' requests come together, and whenever the daemon dies.
THEOREM WorkExclusive == ASSUME Leased PROVE Spec => []Exclusive
<1>1. LeasedInv => Exclusive
  BY DEF LeasedInv, LeaseInv, WorkersHave, Exclusive, Has
<1> QED BY <1>1, LeaseAlways, PTL

\* What a holder's success file says is what becomes of its claim: no sweep,
\* takeover or retirement comes before it is applied.
THEOREM SuccessKept == ASSUME Leased PROVE Spec => SuccessLands
<1> DEFINE Lands ==
      \A r \in Ralph, t \in Task :
        out[r] = [status |-> "success", task |-> t] /\ Holds(r, t) /\ ~Holds(r, t)'
          => tc'[t].status = "completed"
<1>1. LeasedInv /\ [Next]_vars => Lands
  <2> SUFFICES ASSUME TypeInv, HandInv, NoRefresh, LeaseInv, [Next]_vars,
                      NEW r \in Ralph, NEW t \in Task,
                      out[r].status = "success", out[r].task = t, Holds(r, t), ~Holds(r, t)'
               PROVE  tc'[t].status = "completed"
    BY DEF LeasedInv
  <2>1. t # NULL /\ Held(tc[t]) /\ Needed(t) /\ tc[t].owner = r
    BY NeededHolder, TableAssumption DEF Holds
  <2>2. ASSUME tc'[t].status = tc[t].status, tc'[t].owner = tc[t].owner PROVE FALSE
    BY <2>2 DEF Holds, Held
  <2>3. CASE Sweep
    <3>1. t \notin HeldBy(tc, StaleInstances(ri))
      BY <2>1, FreshAge DEF LeaseInv, HeldBy
    <3> QED BY <2>2, <2>3, <3>1 DEF Sweep, MarkStale, ReleaseAll
  <2>4. CASE RetireWorker
    <3>1. d.r # r
      BY <2>1, <2>4 DEF RetireWorker, LeaseInv, Applied
    <3> QED BY <2>1, <2>2, <2>4, <3>1 DEF RetireWorker, ReleaseAll, HeldBy
  <2>5. ASSUME NEW q \in Ralph, ApplyOutcome(q) PROVE tc'[t].status = "completed"
    BY <2>1, <2>2, <2>5, ApplyEffect DEF LeaseInv
  <2>6. CASE SpawnSync
    BY <2>2, <2>6, ClosedType DEF SpawnSync, TypeInv, Rows
  <2>7. CASE SpawnClaim
    <3>1. t \notin ClaimableTasks(tc)
      BY <2>1, FreshAge DEF LeaseInv, ClaimableTasks, Claimable, Held
    <3>2. tc'[t] = tc[t]
      BY <2>7, <3>1 DEF SpawnClaim, First, TypeInv, Rows
    <3> QED BY <2>2, <3>2
  <2>8. CASE SpawnUnclaim
    <3>1. d.r # r
      BY <2>8 DEF SpawnUnclaim, LeaseInv, SpawnedHas, At, Spawning
    <3>2. ~(Holds(d.r, d.t) /\ d.t = t)
      BY <2>1, <3>1 DEF Holds
    <3>3. tc'[t] = tc[t]
      BY <2>8, <3>2 DEF SpawnUnclaim, Release, TypeInv, Rows
    <3> QED BY <2>2, <3>3
  <2>9. CASE Tick
    <3>1. tc'[t].status = tc[t].status /\ tc'[t].owner = tc[t].owner
      BY <2>9 DEF Tick, AgeClaims, TypeInv, Rows, Claim
    <3> QED BY <2>2, <3>1
  <2>10. CASE TuiBegins \/ TuiGoesOn
    BY <2>10 DEF TuiBegins, TuiGoesOn, TuiRenews, TuiSelects, TuiActs, TuiSweeps, TuiQuits,
                 NoRefresh, Leased
  <2>11. CASE tc' = tc
    BY <2>2, <2>11
  <2>12. ASSUME NEW q \in Ralph, WorkerActs(q) PROVE tc' = tc
    BY <2>12, WorkerEffect
  <2>13. CASE \/ Start \/ ListOutcomes \/ ConsumeOutcome \/ Autospawn \/ FetchRequests
              \/ SpawnRegister \/ SpawnSetCurrent \/ SpawnLaunch \/ ConsumeRequest
              \/ ServeCancels \/ DaemonCrash \/ SpawnRequest \/ IntentExpires \/ UNCHANGED vars
              \/ \E q \in Ralph : CancelRequest(q)
    BY <2>11, <2>13
       DEF Start, ListOutcomes, ConsumeOutcome, Autospawn, FetchRequests, SpawnRegister,
           SpawnSetCurrent, SpawnLaunch, ConsumeRequest, ServeCancels, DaemonCrash,
           SpawnRequest, IntentExpires, CancelRequest, vars, tables
  <2> QED BY <2>3, <2>4, <2>5, <2>6, <2>7, <2>8, <2>9, <2>10, <2>11, <2>12, <2>13
      DEF Next, DaemonStep, WorkerActs
<1>2. LeasedInv /\ [Next]_vars => [Lands]_vars
  BY <1>1
<1> QED BY <1>2, LeaseAlways, PTL DEF Spec, SuccessLands

=============================================================================
