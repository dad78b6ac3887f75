---------------------------- MODULE ConsoleProofs ----------------------------
(***************************************************************************)
(* What a key of the console acts on, and what it leaves alone, for any    *)
(* number of workers and projects and any keys; and the types of what the  *)
(* refreshes read.                                                         *)
(***************************************************************************)
EXTENDS Console, FiniteSetTheorems, SequenceTheorems, TLAPS

-----------------------------------------------------------------------------
(***************************************************************************)
(* What is retired stays retired.                                          *)
(***************************************************************************)
Instances == [status : {"unborn"} \cup Live \cup Retired, task : BOOLEAN]

Rows == db \in [Ralphs -> Instances]

\* No row goes from a retired status to another.
StayRetired == \A r \in Ralphs : db[r].status \in Retired => db'[r].status \in Retired

RowsKept == Rows' /\ StayRetired

LEMMA StandRows == ASSUME Rows, db' = db PROVE RowsKept
BY DEF Rows, RowsKept, StayRetired

LEMMA SetRows ==
  ASSUME Rows, NEW r, NEW status \in Retired, db' = Set(r, status)
  PROVE  RowsKept
BY DEF Set, Rows, Instances, RowsKept, StayRetired, Retired

LEMMA PauseRows == ASSUME Rows, NEW row, PauseOrResume(row) PROVE RowsKept
<1>1. \/ db' = db
      \/ \E from, to \in Live :
           db[row.id].status = from /\ db' = [db EXCEPT ![row.id].status = to]
  BY DEF PauseOrResume, Live
<1>2. ASSUME NEW from \in Live, NEW to \in Live, db[row.id].status = from,
             db' = [db EXCEPT ![row.id].status = to]
      PROVE  RowsKept
  BY <1>2 DEF Rows, Instances, RowsKept, StayRetired, Live, Retired
<1> QED BY <1>1, <1>2, StandRows

LEMMA TurnRows == ASSUME Rows, NEW from \in Live, NEW to \in Live, TurnAll(from, to) PROVE RowsKept
BY DEF TurnAll, Rows, Instances, RowsKept, StayRetired, Live, Retired

LEMMA StopRows == ASSUME Rows, StopAll PROVE RowsKept
BY DEF StopAll, Rows, Instances, RowsKept, StayRetired, Live, Retired

LEMMA WorkerRows ==
  ASSUME Rows, NEW r \in Ralphs,
         Starts(r) \/ Beats(r) \/ \E status \in {"stopped", "crashed"} : Ends(r, status)
  PROVE  RowsKept
<1>1. CASE Starts(r)
  BY <1>1 DEF Starts, Rows, Instances, RowsKept, StayRetired, Live, Retired
<1>2. CASE Beats(r)
  BY <1>2, StandRows DEF Beats
<1>3. CASE \E status \in {"stopped", "crashed"} : Ends(r, status)
  BY <1>3 DEF Ends, Rows, Instances, RowsKept, StayRetired, Live, Retired
<1> QED BY <1>1, <1>2, <1>3

LEMMA KeyRows == ASSUME Rows, NEW k, Press(k) PROVE RowsKept
<1>1. ASSUME NEW u, Keep(u) PROVE RowsKept
  BY <1>1, StandRows DEF Keep, tables
<1>2. CASE InNormal(k)
  <2>1. CASE Opens(k) \/ OpensWizard(k) \/ Moves(k)
    BY <1>1, <2>1 DEF Opens, OpensWizard, Moves
  <2>2. CASE OnRow(k)
    BY <1>1, <2>2, SetRows DEF OnRow, Retired
  <2>3. CASE Quickstart(k)
    BY <2>3, StandRows DEF Quickstart, tables
  <2>4. CASE ResumesAll(k)
    BY <2>4, TurnRows DEF ResumesAll, Live
  <2> QED BY <1>2, <2>1, <2>2, <2>3, <2>4 DEF InNormal
<1>3. CASE Closes(k) \/ Filters(k)
  BY <1>1, <1>3 DEF Closes, Filters
<1>4. CASE ShutsDown(k)
  BY <1>1, <1>4, SetRows DEF ShutsDown, Shutdown, Retired
<1>5. CASE InBulk(k)
  BY <1>1, <1>5, StopRows, TurnRows DEF InBulk, Live
<1>6. CASE InWizard(k)
  BY <1>1, <1>6, StandRows DEF InWizard, tables
<1>7. CASE InDetail(k)
  <2>1. CASE LeavesDetail(k) \/ BrowsesDetail(k)
    BY <1>1, <2>1 DEF LeavesDetail, BrowsesDetail
  <2>2. CASE ActsInDetail(k)
    <3> DEFINE row == list[ui.idx]
    <3>1. CASE db' = [db EXCEPT ![row.id].task = FALSE]
      BY <3>1 DEF Rows, Instances, RowsKept, StayRetired
    <3>2. CASE PauseOrResume(row)
      BY <3>2, PauseRows
    <3>3. CASE Shutdown(row.id) \/ Kill(row.id) \/ db' = Set(row.id, "deleted")
      BY <3>3, SetRows DEF Shutdown, Kill, Retired
    <3> QED BY <2>2, <3>1, <3>2, <3>3 DEF ActsInDetail
  <2> QED BY <1>7, <2>1, <2>2 DEF InDetail
<1> QED BY <1>2, <1>3, <1>4, <1>5, <1>6, <1>7 DEF Press

LEMMA NextRows == Rows /\ [Next]_vars => RowsKept
<1> SUFFICES ASSUME Rows, [Next]_vars PROVE RowsKept
  OBVIOUS
<1>1. CASE Refresh \/ DrawFast \/ Quit \/ UNCHANGED vars
  BY <1>1, StandRows DEF Refresh, DrawFast, Quit, vars, tables
<1> QED BY <1>1, KeyRows, WorkerRows DEF Next

LEMMA RowsAlways == Spec => []Rows
<1>1. Init => Rows
  BY DEF Init, Rows, Instances
<1>2. Rows /\ [Next]_vars => Rows'
  BY NextRows DEF RowsKept
<1> QED BY <1>1, <1>2, PTL DEF Spec

\* No key brings a stopped, crashed or deleted instance back, however old the
\* row is that the key went by.
THEOREM RetiredKept == Spec => RetiredStays
<1>1. Rows /\ [Next]_vars => [StayRetired]_db
  BY NextRows DEF RowsKept
<1> QED BY <1>1, RowsAlways, PTL DEF Spec, RetiredStays, StayRetired

-----------------------------------------------------------------------------
(***************************************************************************)
(* The console's own state.  What the lists hold plays no part: whatever a *)
(* refresh reads, the screen is drawn from it and the keys go by it.       *)
(***************************************************************************)
SpawnOwn(spawn) ==
  /\ spawn = [project |-> spawn.project, plan |-> spawn.plan]
  /\ spawn.plan \in {None, spawn.project}

UiOk(u) ==
  /\ u = [mode |-> u.mode, focus |-> u.focus, showAll |-> u.showAll, filter |-> u.filter,
          idx |-> u.idx, tab |-> u.tab, dataOf |-> u.dataOf, stale |-> u.stale,
          spawn |-> u.spawn]
  /\ u.mode \in Mode
  /\ u.idx \in Nat \ {0}
  /\ SpawnOwn(u.spawn)

\* A wizard begins without a plan.
Sound(u) == UiOk(u) /\ (u.mode = "SPAWN_PROJECT" => u.spawn.plan = None)

ScreenOk(screen) ==
  screen = [split |-> screen.split, top |-> screen.top, cached |-> screen.cached,
            menu |-> screen.menu, bar |-> screen.bar, key |-> screen.key]

DrawnOk == ScreenOk(drawn)

\* A fast drawing is due in normal mode only.
FastIsNormal == at = "fast" => ui.mode = "NORMAL"

ScreenInv == Sound(ui) /\ DrawnOk /\ SpawnOwn(asked) /\ FastIsNormal /\ OnScreen

\* One field after another.
LEMMA FieldOk ==
  ASSUME NEW u, Sound(u)
  PROVE  /\ \A idx \in Nat \ {0} : Sound([u EXCEPT !.idx = idx])
         /\ \A f : Sound([u EXCEPT !.filter = f])
         /\ \A f : Sound([u EXCEPT !.focus = f])
         /\ \A s : Sound([u EXCEPT !.showAll = s])
         /\ \A t : Sound([u EXCEPT !.tab = t])
         /\ \A s : Sound([u EXCEPT !.stale = s])
         /\ \A d : Sound([u EXCEPT !.dataOf = d])
BY DEF UiOk, Sound

\* Another mode; the wizard is opened in a way of its own.
LEMMA GoOk ==
  ASSUME Sound(ui), NEW mode \in Mode
  PROVE  /\ UiOk(Go(mode)) /\ Go(mode).mode = mode /\ Go(mode).spawn = ui.spawn
         /\ mode # "SPAWN_PROJECT" => Sound(Go(mode))
BY DEF UiOk, Sound, Go

LEMMA LeaveOk ==
  ASSUME Sound(ui), NEW mode \in Mode, mode # "SPAWN_PROJECT"
  PROVE  Sound(Leave(mode)) /\ Leave(mode).mode = mode /\ Leave(mode).idx = ui.idx
<1>1. Sound(Go(mode)) /\ Go(mode).mode = mode
  BY GoOk
<1>2. Sound([Go(mode) EXCEPT !.tab = 1])
  BY <1>1, FieldOk
<1>3. Sound([[Go(mode) EXCEPT !.tab = 1] EXCEPT !.dataOf = None])
  BY <1>2, FieldOk
<1>4. Sound([[[Go(mode) EXCEPT !.tab = 1] EXCEPT !.dataOf = None] EXCEPT !.stale = TRUE])
  BY <1>3, FieldOk
<1>5. Sound(Leave(mode))
  BY <1>4 DEF Leave, Go
<1>6. Leave(mode).mode = mode /\ Leave(mode).idx = ui.idx
  BY DEF Leave, Sound, UiOk
<1> QED BY <1>5, <1>6

LEMMA ModeNames ==
  /\ DOMAIN Overlay = {"HELP", "STATS", "HISTORY", "LOG_VIEW", "LOG_STREAM", "TASK_DETAIL"}
  /\ DOMAIN Overlay \subseteq Mode /\ Wizard \subseteq Mode
  /\ {"NORMAL", "PROJECT_FILTER", "SHUTDOWN", "SETTINGS", "SETTINGS_EDIT",
      "CONFIRM_BULK_STOP", "CONFIRM_BULK_PAUSE", "INSTANCE_DETAIL",
      "INSTANCE_ERROR_DETAIL", "CLEANUP_CONFIRM"} \subseteq Mode
  /\ DOMAIN Digit = {"1", "2", "3"}
BY DEF Overlay, Mode, Wizard, Digit

LEMMA NoSpawnOwn == SpawnOwn(NoSpawn) /\ NoSpawn.project = None /\ NoSpawn.plan = None
BY DEF SpawnOwn, NoSpawn

\* What a key leaves of the console's own state is sound.
KeyOk == Sound(ui') /\ SpawnOwn(asked')

LEMMA KeepOk ==
  ASSUME ScreenInv, NEW u, Sound(u), Keep(u)
  PROVE  KeyOk
BY DEF ScreenInv, Keep, KeyOk

LEMMA NormalOk == ASSUME ScreenInv, NEW k, InNormal(k) PROVE KeyOk
<1>1. Sound(ui) /\ SpawnOwn(asked)
  BY DEF ScreenInv
<1>2. CASE Opens(k)
  <2>1. ASSUME NEW m \in DOMAIN Overlay, Keep([Go(m) EXCEPT !.idx = 1]) PROVE KeyOk
    <3>1. Sound(Go(m))
      BY <1>1, ModeNames, GoOk
    <3>2. Sound([Go(m) EXCEPT !.idx = 1])
      BY <3>1, FieldOk
    <3> QED BY <2>1, <3>2, KeepOk
  <2>2. ASSUME NEW m \in Mode \ {"SPAWN_PROJECT"}, Keep(Go(m)) PROVE KeyOk
    BY <1>1, <2>2, GoOk, KeepOk
  <2> QED BY <1>2, <2>1, <2>2, ModeNames DEF Opens
<1>3. CASE OpensWizard(k)
  <2>1. Sound([Go("SPAWN_PROJECT") EXCEPT !.spawn = NoSpawn])
    <3>1. UiOk(Go("SPAWN_PROJECT"))
      BY <1>1, GoOk, ModeNames DEF Wizard
    <3> QED BY <3>1, NoSpawnOwn DEF Sound, UiOk
  <2> QED BY <1>3, <2>1, KeepOk DEF OpensWizard
<1>4. CASE Moves(k)
  <2>1. Sound([ui EXCEPT !.showAll = ~ @])
    BY <1>1, FieldOk
  <2>2. Sound([ui EXCEPT !.focus = CASE @ = "BOTH" -> "TASKS" [] @ = "TASKS" -> "INSTANCES"
                                     [] OTHER -> "BOTH"])
    BY <1>1, FieldOk
  <2>3. Sound([ui EXCEPT !.idx = @ + 1]) /\ (ui.idx > 1 => Sound([ui EXCEPT !.idx = @ - 1]))
    <3>1. ui.idx + 1 \in Nat \ {0} /\ (ui.idx > 1 => ui.idx - 1 \in Nat \ {0})
      BY <1>1 DEF Sound, UiOk
    <3> QED BY <1>1, <3>1, FieldOk
  <2> QED BY <1>4, <2>1, <2>2, <2>3, KeepOk DEF Moves
<1>5. CASE OnRow(k)
  <2>1. Sound([Go("INSTANCE_DETAIL") EXCEPT !.tab = 1, !.stale = TRUE])
    <3>1. Sound(Go("INSTANCE_DETAIL"))
      BY <1>1, GoOk, ModeNames
    <3>2. Sound([Go("INSTANCE_DETAIL") EXCEPT !.tab = 1])
      BY <3>1, FieldOk
    <3>3. Sound([[Go("INSTANCE_DETAIL") EXCEPT !.tab = 1] EXCEPT !.stale = TRUE])
      BY <3>2, FieldOk
    <3> QED BY <3>3
  <2>2. Sound(AfterRemoval(ui))
    <3>1. ui.idx > 1 => ui.idx - 1 \in Nat \ {0}
      BY <1>1 DEF Sound, UiOk
    <3> QED BY <1>1, <3>1, FieldOk DEF AfterRemoval
  <2> QED BY <1>1, <1>5, <2>1, <2>2, KeepOk DEF OnRow, KeyOk
<1>6. CASE Quickstart(k)
  <2>1. \A p : SpawnOwn([project |-> p, plan |-> p])
    BY DEF SpawnOwn
  <2> QED BY <1>1, <1>6, <2>1 DEF Quickstart, KeyOk
<1>7. CASE ResumesAll(k)
  BY <1>1, <1>7 DEF ResumesAll, KeyOk
<1> QED BY <1>2, <1>3, <1>4, <1>5, <1>6, <1>7 DEF InNormal

LEMMA ClosesOk ==
  ASSUME ScreenInv, NEW k, Closes(k) \/ Filters(k) \/ ShutsDown(k) \/ InBulk(k)
  PROVE  KeyOk
<1>1. Sound(ui) /\ SpawnOwn(asked) /\ Sound(Go("NORMAL")) /\ Sound(Go("SETTINGS"))
      /\ Sound(Go("SETTINGS_EDIT"))
  BY GoOk, ModeNames DEF ScreenInv
<1>2. CASE Closes(k)
  BY <1>1, <1>2, KeepOk DEF Closes
<1>3. CASE Filters(k)
  BY <1>1, <1>3, KeepOk, FieldOk DEF Filters
<1>4. CASE ShutsDown(k) \/ InBulk(k)
  BY <1>1, <1>4, KeepOk DEF ShutsDown, InBulk, KeyOk
<1> QED BY <1>2, <1>3, <1>4

\* The first step of the wizard names a project, and its plan or none.
LEMMA WizardOk == ASSUME ScreenInv, NEW k, InWizard(k) PROVE KeyOk
<1>1. Sound(ui) /\ SpawnOwn(asked) /\ UiOk(Go("SPAWN_PRIORITY"))
      /\ Go("SPAWN_PRIORITY").mode = "SPAWN_PRIORITY" /\ Go("SPAWN_PRIORITY").spawn = ui.spawn
      /\ \A m \in {"NORMAL", "SPAWN_CATEGORY", "SPAWN_MODEL", "SPAWN_SESSION", "SPAWN_CONFIRM"} :
           Sound(Go(m))
  BY GoOk, ModeNames DEF ScreenInv, Wizard
<1>2. ASSUME NEW p, ui.mode = "SPAWN_PROJECT",
             Keep([Go("SPAWN_PRIORITY") EXCEPT !.spawn =
                     [project |-> p, plan |-> IF p \in Planned THEN p ELSE @.plan]])
      PROVE  KeyOk
  <2> DEFINE spawn == [project |-> p, plan |-> IF p \in Planned THEN p ELSE ui.spawn.plan]
  <2>1. SpawnOwn(spawn)
    BY <1>1, <1>2 DEF Sound, SpawnOwn
  <2>2. Keep([Go("SPAWN_PRIORITY") EXCEPT !.spawn = spawn])
    BY <1>1, <1>2
  <2> HIDE DEF spawn
  <2>3. Sound([Go("SPAWN_PRIORITY") EXCEPT !.spawn = spawn])
    BY <1>1, <2>1 DEF Sound, UiOk
  <2> QED BY <2>2, <2>3, KeepOk
<1>3. CASE ui.mode = "SPAWN_CONFIRM" /\ k = "Enter" /\ ui' = Go("NORMAL")
           /\ (asked' = ui.spawn \/ UNCHANGED asked)
  BY <1>1, <1>3 DEF KeyOk, Sound, UiOk
<1>4. ASSUME NEW m \in {"NORMAL", "SPAWN_CATEGORY", "SPAWN_MODEL", "SPAWN_SESSION",
                        "SPAWN_CONFIRM"}, Keep(Go(m))
      PROVE  KeyOk
  BY <1>1, <1>4, KeepOk
<1> QED BY <1>2, <1>3, <1>4 DEF InWizard

LEMMA DetailOk == ASSUME ScreenInv, NEW k, InDetail(k) PROVE KeyOk
<1>1. Sound(ui) /\ SpawnOwn(asked) /\ Sound(Leave("NORMAL")) /\ Sound(Leave("TASK_DETAIL"))
      /\ Sound(Go("INSTANCE_DETAIL")) /\ Sound(Go("INSTANCE_ERROR_DETAIL"))
  BY GoOk, LeaveOk, ModeNames DEF ScreenInv
<1>2. CASE LeavesDetail(k)
  BY <1>1, <1>2, KeepOk DEF LeavesDetail
<1>3. CASE BrowsesDetail(k)
  <2>1. ASSUME NEW idx \in Nat \ {0} PROVE Sound([ui EXCEPT !.idx = idx, !.stale = TRUE])
    <3>1. Sound([[ui EXCEPT !.idx = idx] EXCEPT !.stale = TRUE])
      BY <1>1, FieldOk
    <3> QED BY <3>1
  <2>2. ui.idx + 1 \in Nat \ {0} /\ (ui.idx > 1 => ui.idx - 1 \in Nat \ {0})
    BY <1>1 DEF Sound, UiOk
  <2>3. CASE k = "j" /\ Keep([ui EXCEPT !.idx = @ + 1, !.stale = TRUE])
    BY <2>1, <2>2, <2>3, KeepOk
  <2>4. CASE k = "k" /\ ui.idx > 1 /\ Keep([ui EXCEPT !.idx = @ - 1, !.stale = TRUE])
    BY <2>1, <2>2, <2>4, KeepOk
  <2> QED BY <1>1, <1>3, <2>3, <2>4, FieldOk, KeepOk DEF BrowsesDetail
<1>4. CASE ActsInDetail(k) /\ UNCHANGED <<recent, asked>>
  BY <1>1, <1>4 DEF ActsInDetail, KeyOk
<1> QED BY <1>2, <1>3, <1>4 DEF InDetail

LEMMA PressOk == ASSUME ScreenInv, NEW k, Press(k) PROVE ScreenInv'
<1>1. KeyOk
  BY NormalOk, ClosesOk, WizardOk, DetailOk DEF Press
<1>2. at' \in {"fast", "full"} /\ (at' = "fast" => ui'.mode = "NORMAL") /\ drawn' = drawn
  BY DEF Press, FastPath
<1>3. FastIsNormal' /\ OnScreen'
  BY <1>2 DEF FastIsNormal, OnScreen
<1>4. DrawnOk'
  BY <1>2 DEF ScreenInv, DrawnOk, ScreenOk
<1> QED BY <1>1, <1>3, <1>4 DEF ScreenInv, KeyOk

\* A panel that is painted is on top, or a split that was there hides it.
LEMMA PaintedOk ==
  ASSUME NEW screen, ScreenOk(screen), NEW view, NEW row
  PROVE  /\ ScreenOk(Painted(screen, view, row))
         /\ \/ Painted(screen, view, row).top = Panel(view, row)
            \/ Painted(screen, view, row).split /\ view # "BOTH"
         /\ Painted(screen, view, row).top \in {screen.top, Panel(view, row)}
BY DEF Painted, Panel, ScreenOk

LEMMA RebuiltOk ==
  ASSUME DrawnOk, NEW u
  PROVE  ScreenOk(Rebuilt(u)) /\ Rebuilt(u).top \in {drawn.top, Panel("older", None)}
<1>1. ASSUME NEW split, NEW top, NEW cached
      PROVE  /\ ScreenOk([drawn EXCEPT !.split = split, !.top = top, !.cached = cached])
             /\ [drawn EXCEPT !.split = split, !.top = top, !.cached = cached].top = top
  <2>1. ASSUME NEW screen, ScreenOk(screen)
        PROVE  /\ \A v : ScreenOk([screen EXCEPT !.split = v])
               /\ \A v : ScreenOk([screen EXCEPT !.top = v])
               /\ \A v : ScreenOk([screen EXCEPT !.cached = v])
    BY <2>1 DEF ScreenOk
  <2>2. ScreenOk([[[drawn EXCEPT !.split = split] EXCEPT !.top = top] EXCEPT !.cached = cached])
    BY <2>1 DEF DrawnOk
  <2>3. [drawn EXCEPT !.split = split, !.top = top, !.cached = cached].top = top
    BY DEF DrawnOk, ScreenOk
  <2> QED BY <2>2, <2>3
<1>2. CASE drawn.cached = Structure(u)
  BY <1>2 DEF Rebuilt, DrawnOk
<1>3. CASE drawn.cached # Structure(u)
  <2>1. Rebuilt(u) = [drawn EXCEPT !.split = Structure(u) = "BOTH", !.top = Panel("older", None),
                                   !.cached = Structure(u)]
    BY <1>3 DEF Rebuilt
  <2> DEFINE new(split) == [drawn EXCEPT !.split = split, !.top = Panel("older", None),
                                         !.cached = Structure(u)]
  <2>2. \A split : ScreenOk(new(split)) /\ new(split).top = Panel("older", None)
    BY <1>1
  <2>3. Rebuilt(u) = new(Structure(u) = "BOTH")
    BY <2>1
  <2> HIDE DEF new
  <2> QED BY <2>2, <2>3
<1> QED BY <1>2, <1>3

LEMMA DrawFastOk == ASSUME ScreenInv, DrawFast PROVE ScreenInv'
<1>1. /\ at' = "wait" /\ ui.mode = "NORMAL" /\ UNCHANGED <<ui, list, asked>>
      /\ drawn' = Painted(drawn, ui.focus, Highlighted(list, ui))
  BY DEF DrawFast, ScreenInv, FastIsNormal
<1>2. ScreenOk(drawn)
  BY DEF ScreenInv, DrawnOk
<1>3. /\ ScreenOk(drawn')
      /\ \/ drawn'.top = Panel(ui.focus, Highlighted(list, ui))
         \/ drawn'.split /\ ui.focus # "BOTH"
  BY <1>1, <1>2, PaintedOk
<1>4. Structure(ui) = ui.focus
  BY <1>1 DEF Structure
<1>5. ByPlace /\ HasRow(list, ui) => Highlighted(list, ui) = list[ui.idx].id
  BY <1>1, <1>4 DEF ByPlace, Highlighted
<1>6. OnScreen'
  BY <1>1, <1>3, <1>4, <1>5 DEF OnScreen, ByPlace, Leftover, HasRow, Structure
<1> QED BY <1>1, <1>3, <1>6 DEF ScreenInv, DrawnOk, FastIsNormal

LEMMA RefreshOk == ASSUME ScreenInv, Refresh PROVE ScreenInv'
<1> DEFINE detail == ui.mode = "INSTANCE_DETAIL"
           leaves == detail /\ ~ HasRow(list', ui)
<1>1. Sound(ui)
  BY DEF ScreenInv
<1>2. /\ at' = "wait" /\ asked' = NoSpawn
      /\ \/ leaves /\ ui' = Leave("NORMAL")
         \/ detail /\ ~leaves
              /\ ui' = [ui EXCEPT !.dataOf = list'[ui.idx].id, !.stale = FALSE]
         \/ ~leaves /\ ui' = ui
      /\ \E news \in BOOLEAN :
           drawn' = [(IF leaves THEN Rebuilt(ui)
                      ELSE Painted(Rebuilt(ui), Structure(ui), Highlighted(list', ui)))
                       EXCEPT !.menu = Menu(ui), !.bar = Bar(ui', news),
                              !.key = <<ui'.mode, ui'.focus>>]
  BY DEF Refresh
<1>3. Sound(ui') /\ ui'.idx = ui.idx
      /\ (IF leaves THEN ui'.mode = "NORMAL" ELSE ui'.mode = ui.mode /\ ui'.focus = ui.focus)
  <2>1. CASE leaves /\ ui' = Leave("NORMAL")
    BY <1>1, <2>1, LeaveOk, ModeNames
  <2>2. CASE ~leaves /\ ui' = [ui EXCEPT !.dataOf = list'[ui.idx].id, !.stale = FALSE]
    <3>1. Sound([[ui EXCEPT !.dataOf = list'[ui.idx].id] EXCEPT !.stale = FALSE])
      BY <1>1, FieldOk
    <3>2. Sound(ui')
      BY <2>2, <3>1
    <3>3. ui'.idx = ui.idx /\ ui'.mode = ui.mode /\ ui'.focus = ui.focus
      BY <1>1, <2>2 DEF Sound, UiOk
    <3> QED BY <2>2, <3>2, <3>3
  <2>3. CASE ~leaves /\ ui' = ui
    BY <1>1, <2>3
  <2> QED BY <1>2, <2>1, <2>2, <2>3
<1>4. /\ DrawnOk' /\ drawn'.menu = Menu(ui)
      /\ ~leaves => \/ drawn'.top = Panel(Structure(ui), Highlighted(list', ui))
                    \/ drawn'.split /\ Structure(ui) # "BOTH"
  <2> DEFINE new == IF leaves THEN Rebuilt(ui)
                    ELSE Painted(Rebuilt(ui), Structure(ui), Highlighted(list', ui))
  <2>2. ScreenOk(Rebuilt(ui))
    BY RebuiltOk DEF ScreenInv
  <2>3. /\ ScreenOk(new)
        /\ ~leaves => \/ new.top = Panel(Structure(ui), Highlighted(list', ui))
                      \/ new.split /\ Structure(ui) # "BOTH"
    BY <2>2, PaintedOk
  <2>4. \E bar, key : drawn' = [new EXCEPT !.menu = Menu(ui), !.bar = bar, !.key = key]
    BY <1>2
  <2> HIDE DEF new
  <2> QED BY <2>3, <2>4 DEF DrawnOk, ScreenOk
<1>5. OnScreen'
  <2>1. CASE leaves
    BY <1>3, <2>1 DEF OnScreen, HasRow, Menu
  <2>2. CASE ~leaves
    <3>1. ui'.mode = "SPAWN_PROJECT" => drawn'.menu = projects'
      BY <1>3, <1>4, <2>2 DEF Menu
    <3>2. ByPlace' /\ HasRow(list', ui') => Highlighted(list', ui) = list'[ui'.idx].id
      BY <1>3, <2>2 DEF ByPlace, Highlighted, Structure, HasRow
    <3>3. Structure(ui') = Structure(ui)
      BY <1>3, <2>2 DEF Structure
    <3> QED BY <1>4, <2>2, <3>1, <3>2, <3>3 DEF OnScreen, HasRow, Leftover
  <2> QED BY <2>1, <2>2
<1> QED BY <1>2, <1>3, <1>4, <1>5, NoSpawnOwn DEF ScreenInv, FastIsNormal

LEMMA NextOk == ScreenInv /\ [Next]_vars => ScreenInv'
<1> SUFFICES ASSUME ScreenInv, [Next]_vars PROVE ScreenInv'
  OBVIOUS
<1>1. CASE UNCHANGED <<ui, list, projects, drawn, asked>> /\ at' \in {at, "quit"}
  BY <1>1 DEF ScreenInv, Sound, UiOk, DrawnOk, ScreenOk, FastIsNormal, OnScreen, ByPlace, Leftover,
              Structure, HasRow
<1>2. CASE Quit \/ UNCHANGED vars
  BY <1>1, <1>2 DEF Quit, vars
<1>3. ASSUME NEW r \in Ralphs,
             Starts(r) \/ Beats(r) \/ \E status \in {"stopped", "crashed"} : Ends(r, status)
      PROVE  ScreenInv'
  BY <1>1, <1>3 DEF Starts, Beats, Ends
<1> QED BY <1>2, <1>3, PressOk, DrawFastOk, RefreshOk DEF Next

LEMMA InitOk == Init => ScreenInv
BY NoSpawnOwn, ModeNames
   DEF Init, ScreenInv, Sound, UiOk, DrawnOk, ScreenOk, FastIsNormal, OnScreen

LEMMA ScreenAlways == Spec => []ScreenInv
<1> QED BY InitOk, NextOk, PTL DEF Spec

\* What a key will act on is what is on the screen, whatever the last refresh
\* has read and however the rows have moved since, unless a split that no drawing
\* took away hides it.
THEOREM ActsOnScreen == Spec => []OnScreen
<1>1. ScreenInv => OnScreen
  BY DEF ScreenInv
<1> QED BY <1>1, ScreenAlways, PTL

\* The plan a worker is asked for with is its project's own or none: no wizard
\* passes on what an earlier one had chosen.
THEOREM OwnPlan == Spec => []PlanOfProject
<1>1. ScreenInv => PlanOfProject
  BY DEF ScreenInv, SpawnOwn, PlanOfProject
<1> QED BY <1>1, ScreenAlways, PTL

\* Esc leads nearer to normal mode from every other one.
THEOREM EscLeads == Spec => EscLeadsOut
<1> DEFINE Nearer == Press("ESCAPE") /\ ui.mode # "NORMAL" => Depth(ui'.mode) < Depth(ui.mode)
<1>1. ScreenInv => Nearer
  <2> SUFFICES ASSUME ScreenInv, Press("ESCAPE"), ui.mode # "NORMAL"
               PROVE  Depth(ui'.mode) < Depth(ui.mode)
    OBVIOUS
  <2>1. /\ Go("NORMAL").mode = "NORMAL" /\ Go("SETTINGS").mode = "SETTINGS"
        /\ Go("INSTANCE_DETAIL").mode = "INSTANCE_DETAIL" /\ Leave("NORMAL").mode = "NORMAL"
    BY GoOk, LeaveOk, ModeNames DEF ScreenInv
  <2>2. \/ ui'.mode = "NORMAL"
        \/ ui.mode = "SETTINGS_EDIT" /\ ui'.mode = "SETTINGS"
        \/ ui.mode = "INSTANCE_ERROR_DETAIL" /\ ui'.mode = "INSTANCE_DETAIL"
    <3>1. CASE Closes("ESCAPE") \/ Filters("ESCAPE")
      BY <2>1, <3>1, ModeNames DEF Closes, Filters, Keep
    <3>2. CASE ShutsDown("ESCAPE") \/ InBulk("ESCAPE")
      BY <2>1, <3>2, ModeNames DEF ShutsDown, InBulk, Keep
    <3>3. CASE InWizard("ESCAPE")
      BY <2>1, <3>3, ModeNames DEF InWizard, Keep
    <3>4. CASE InDetail("ESCAPE")
      BY <2>1, <3>4, ModeNames DEF InDetail, LeavesDetail, BrowsesDetail, ActsInDetail, Keep
    <3> QED BY <3>1, <3>2, <3>3, <3>4 DEF Press, InNormal
  <2> QED BY <2>2 DEF Depth
<1>2. ScreenInv /\ [Next]_vars => [Nearer]_vars
  BY <1>1
<1> QED BY <1>2, ScreenAlways, PTL DEF Spec, EscLeadsOut

-----------------------------------------------------------------------------
(***************************************************************************)
(* Types.  A refresh reads sequences of workers and of projects, the       *)
(* cursor and the digits pick their members.                               *)
(***************************************************************************)
Row == [id : Ralphs, status : {"unborn"} \cup Live \cup Retired, task : BOOLEAN]

Typed ==
  /\ recent \in Orders(Ralphs) /\ running \subseteq Ralphs
  /\ list \in Seq(Row) /\ projects \in Seq(Projects)
  /\ ui.filter \in Projects \cup {None}
  /\ drawn.top.row \in Ralphs \cup {None}

LEMMA Constants ==
  /\ IsFiniteSet(Ralphs) /\ IsFiniteSet(Projects)
  /\ ProjectOf \in [Ralphs -> Projects]
<1>1. /\ Len(ProjectOrder) \in Nat /\ DOMAIN ProjectOrder = 1 .. Len(ProjectOrder)
      /\ ProjectOrder \in [1 .. Len(ProjectOrder) -> Projects]
  BY ConsoleAssumption, LenProperties
<1>2. IsFiniteSet(Projects)
  <2>1. ProjectOrder \in Surjection(1 .. Len(ProjectOrder), Projects)
    BY <1>1 DEF Surjection, Projects
  <2>2. IsFiniteSet(1 .. Len(ProjectOrder))
    BY <1>1, FS_Interval
  <2> QED BY <2>1, <2>2, FS_Surjection
<1> QED BY <1>2, ConsoleAssumption

\* An order of a finite set is a sequence of its members.
LEMMA OrderSeq ==
  ASSUME NEW S, IsFiniteSet(S), NEW s \in Orders(S)
  PROVE  /\ Cardinality(S) \in Nat /\ s \in Seq(S) /\ Len(s) = Cardinality(S)
         /\ \A i, j \in 1 .. Cardinality(S) : i # j => s[i] # s[j]
<1>1. Cardinality(S) \in Nat
  BY FS_CardinalityType
<1>2. s \in [1 .. Cardinality(S) -> S] /\ \A i, j \in DOMAIN s : i # j => s[i] # s[j]
  BY DEF Orders
<1>3. s \in Seq(S) /\ Len(s) = Cardinality(S)
  BY <1>1, <1>2
<1> QED BY <1>1, <1>2, <1>3

\* Putting one worker before the others leaves all of them in an order.
LEMMA FirstOrder ==
  ASSUME NEW r \in Ralphs
  PROVE  First(r) \subseteq Orders(Ralphs)
<1> DEFINE S == Ralphs \ {r}
           n == Cardinality(S)
<1>1. IsFiniteSet(S) /\ Cardinality(Ralphs) = n + 1 /\ n \in Nat
  <2>1. IsFiniteSet(S) /\ n = Cardinality(Ralphs) - 1
    BY Constants, FS_RemoveElement
  <2>2. Cardinality(Ralphs) \in Nat /\ n \in Nat
    BY <2>1, Constants, FS_CardinalityType
  <2> HIDE DEF n
  <2> QED BY <2>1, <2>2
<1>2. ASSUME NEW s \in Orders(S) PROVE <<r>> \o s \in Orders(Ralphs)
  <2> DEFINE t == <<r>> \o s
  <2>1. s \in Seq(S) /\ Len(s) = n /\ \A i, j \in 1 .. n : i # j => s[i] # s[j]
    BY <1>1, OrderSeq
  <2>2. s \in Seq(Ralphs) /\ <<r>> \in Seq(Ralphs) /\ Len(<<r>>) = 1
    BY <2>1
  <2> HIDE DEF n
  <2>8. /\ t \in Seq(Ralphs) /\ Len(t) = 1 + n
        /\ \A i \in 1 .. 1 + n : t[i] = IF i <= 1 THEN <<r>>[i] ELSE s[i - 1]
    BY <2>1, <2>2, ConcatProperties
  <2> HIDE DEF t
  <2>3. /\ t \in Seq(Ralphs) /\ Len(t) = n + 1 /\ t[1] = r
        /\ \A i \in 2 .. n + 1 : i - 1 \in 1 .. n /\ t[i] = s[i - 1]
    BY <1>1, <2>8
  <2>4. \A i \in 2 .. n + 1 : t[i] \in S
    BY <1>1, <2>1, <2>3, ElementOfSeq
  <2>5. \A i, j \in 1 .. n + 1 : i # j => t[i] # t[j]
    <3> SUFFICES ASSUME NEW i \in 1 .. n + 1, NEW j \in 1 .. n + 1, i # j PROVE t[i] # t[j]
      OBVIOUS
    <3>1. CASE i = 1
      BY <1>1, <2>3, <2>4, <3>1
    <3>2. CASE j = 1
      BY <1>1, <2>3, <2>4, <3>2
    <3>3. CASE i # 1 /\ j # 1
      <4>1. i \in 2 .. n + 1 /\ j \in 2 .. n + 1
        BY <1>1, <3>3
      <4>2. i - 1 \in 1 .. n /\ j - 1 \in 1 .. n /\ i - 1 # j - 1
        BY <1>1, <4>1
      <4> QED BY <2>1, <2>3, <4>1, <4>2
    <3> QED BY <3>1, <3>2, <3>3
  <2>6. t \in [1 .. n + 1 -> Ralphs] /\ DOMAIN t = 1 .. n + 1
    BY <1>1, <2>3
  <2>7. t \in Orders(Ralphs)
    BY <1>1, <2>5, <2>6 DEF Orders
  <2> QED BY <2>7 DEF t
<1> QED BY <1>2 DEF First, InOrder

\* The list a refresh reads.
LEMMA FetchedRows == ASSUME Rows PROVE Fetched \subseteq Seq(Row)
<1> DEFINE S == {r \in Ralphs : Shown(r)}
           rows(ids) == [i \in DOMAIN ids |-> [id |-> ids[i], status |-> db[ids[i]].status,
                                              task |-> db[ids[i]].task]]
<1>1. IsFiniteSet(S)
  BY Constants, FS_Subset
<1>2. ASSUME NEW ids \in InOrder(S, recent) PROVE rows(ids) \in Seq(Row)
  <2>1. ids \in Seq(S) /\ Len(ids) \in Nat
    BY <1>1, <1>2, OrderSeq DEF InOrder
  <2>2. DOMAIN ids = 1 .. Len(ids) /\ \A i \in 1 .. Len(ids) : ids[i] \in Ralphs
    BY <2>1, ElementOfSeq
  <2>3. rows(ids) \in [1 .. Len(ids) -> Row]
    BY <2>2 DEF Row, Rows, Instances
  <2> QED BY <2>1, <2>3
<1> QED BY <1>2 DEF Fetched

\* The projects a refresh reads.
LEMMA ReadProjects ==
  ASSUME NEW S \in SUBSET Projects, NEW ps \in InOrder(S, ProjectOrder)
  PROVE  ps \in Seq(Projects)
<1>1. IsFiniteSet(S)
  BY Constants, FS_Subset
<1>2. ps \in Seq(S)
  BY <1>1, OrderSeq DEF InOrder
<1> QED BY <1>2

\* The row under the cursor is one of the list.
LEMMA HighlightedRow ==
  ASSUME NEW rows \in Seq(Row), NEW u, u.idx \in Nat \ {0}
  PROVE  Highlighted(rows, u) \in Ralphs \cup {None}
<1>1. CASE ~ HasRow(rows, u)
  BY <1>1 DEF Highlighted
<1>2. CASE HasRow(rows, u)
  <2>1. u.idx \in 1 .. Len(rows)
    BY <1>2 DEF HasRow
  <2>2. rows[u.idx] \in Row
    BY <2>1, ElementOfSeq
  <2> QED BY <2>2 DEF Highlighted, Row
<1> QED BY <1>1, <1>2

\* A key leaves the order of the workers, starts none, and filters for a project
\* that is on the list.
KeyTyped ==
  /\ recent' = recent /\ running' \subseteq running
  /\ ui'.filter \in Projects \cup {None}

LEMMA KeepTyped ==
  ASSUME Typed, NEW u, Keep(u), u.filter \in Projects \cup {None}
  PROVE  KeyTyped
BY DEF Keep, tables, KeyTyped

\* Another field, another mode: the filter stays.
LEMMA FilterStays ==
  ASSUME Sound(ui), Typed
  PROVE  /\ \A m : Go(m).filter = ui.filter /\ Leave(m).filter = ui.filter
         /\ \A m, i : [Go(m) EXCEPT !.idx = i].filter = ui.filter
         /\ \A m, t, s : [Go(m) EXCEPT !.tab = t, !.stale = s].filter = ui.filter
         /\ \A m, s : [Go(m) EXCEPT !.spawn = s].filter = ui.filter
         /\ \A m, f : [Go(m) EXCEPT !.filter = f].filter = f
         /\ \A f : [ui EXCEPT !.showAll = f].filter = ui.filter
         /\ \A f : [ui EXCEPT !.focus = f].filter = ui.filter
         /\ \A f : [ui EXCEPT !.tab = f].filter = ui.filter
         /\ \A f : [ui EXCEPT !.idx = f].filter = ui.filter
         /\ \A f, s : [ui EXCEPT !.idx = f, !.stale = s].filter = ui.filter
         /\ \A f, s : [ui EXCEPT !.dataOf = f, !.stale = s].filter = ui.filter
         /\ AfterRemoval(ui).filter = ui.filter
BY DEF Sound, UiOk, Go, Leave, AfterRemoval

LEMMA NormalTyped == ASSUME Sound(ui), Typed, NEW k, InNormal(k) PROVE KeyTyped
<1>1. ui.filter \in Projects \cup {None} /\ running \subseteq running
  BY DEF Typed
<1>2. CASE Opens(k)
  <2>1. ASSUME NEW m, Keep(Go(m)) PROVE KeyTyped
    BY <1>1, <2>1, FilterStays, KeepTyped
  <2>2. ASSUME NEW m, Keep([Go(m) EXCEPT !.idx = 1]) PROVE KeyTyped
    <3>1. [Go(m) EXCEPT !.idx = 1].filter = ui.filter
      BY FilterStays
    <3> QED BY <1>1, <2>2, <3>1, KeepTyped
  <2> QED BY <1>2, <2>1, <2>2 DEF Opens
<1>3. CASE OpensWizard(k)
  BY <1>1, <1>3, FilterStays, KeepTyped DEF OpensWizard
<1>4. CASE Moves(k)
  BY <1>1, <1>4, FilterStays, KeepTyped DEF Moves
<1>5. CASE OnRow(k)
  <2>1. ASSUME NEW t, NEW s, Keep([Go("INSTANCE_DETAIL") EXCEPT !.tab = t, !.stale = s])
        PROVE  KeyTyped
    <3>1. [Go("INSTANCE_DETAIL") EXCEPT !.tab = t, !.stale = s].filter = ui.filter
      BY FilterStays
    <3> QED BY <1>1, <2>1, <3>1, KeepTyped
  <2>2. ASSUME ui' = AfterRemoval(ui), UNCHANGED <<recent, running>> PROVE KeyTyped
    BY <1>1, <2>2, FilterStays DEF KeyTyped
  <2> QED BY <1>5, <2>1, <2>2 DEF OnRow
<1>6. CASE Quickstart(k) \/ ResumesAll(k)
  BY <1>1, <1>6 DEF Quickstart, ResumesAll, tables, KeyTyped
<1> QED BY <1>2, <1>3, <1>4, <1>5, <1>6 DEF InNormal

LEMMA ClosesTyped ==
  ASSUME Sound(ui), Typed, NEW k, Closes(k) \/ Filters(k) \/ ShutsDown(k) \/ InBulk(k)
  PROVE  KeyTyped
<1>1. ui.filter \in Projects \cup {None} /\ running \subseteq running
  BY DEF Typed
<1>2. CASE Closes(k)
  BY <1>1, <1>2, FilterStays, KeepTyped DEF Closes
<1>3. CASE Filters(k)
  <2>1. ASSUME k \in DOMAIN Digit, Digit[k] <= Len(projects)
        PROVE  projects[Digit[k]] \in Projects
    <3>1. Digit[k] \in {1, 2, 3}
      BY <2>1, ModeNames DEF Digit
    <3>2. Digit[k] \in 1 .. Len(projects)
      BY <2>1, <3>1 DEF Typed
    <3> QED BY <3>2, ElementOfSeq DEF Typed
  <2>2. ASSUME NEW f \in Projects \cup {None}, Keep([Go("NORMAL") EXCEPT !.filter = f])
        PROVE  KeyTyped
    BY <2>2, FilterStays, KeepTyped
  <2>3. ASSUME Keep(Go("NORMAL")) PROVE KeyTyped
    BY <1>1, <2>3, FilterStays, KeepTyped
  <2> QED BY <1>3, <2>1, <2>2, <2>3 DEF Filters
<1>4. CASE ShutsDown(k)
  BY <1>1, <1>4, FilterStays, KeepTyped DEF ShutsDown, Shutdown, KeyTyped
<1>5. CASE InBulk(k)
  BY <1>1, <1>5, FilterStays, KeepTyped DEF InBulk, StopAll, KeyTyped
<1> QED BY <1>2, <1>3, <1>4, <1>5

LEMMA WizardTyped == ASSUME Sound(ui), Typed, NEW k, InWizard(k) PROVE KeyTyped
<1>1. ui.filter \in Projects \cup {None} /\ running \subseteq running
  BY DEF Typed
<1>2. ASSUME NEW m, NEW s, Keep([Go(m) EXCEPT !.spawn = s]) PROVE KeyTyped
  BY <1>1, <1>2, FilterStays, KeepTyped
<1>3. ASSUME NEW m, Keep(Go(m)) PROVE KeyTyped
  BY <1>1, <1>3, FilterStays, KeepTyped
<1>4. ASSUME ui' = Go("NORMAL"), UNCHANGED tables PROVE KeyTyped
  BY <1>1, <1>4, FilterStays DEF tables, KeyTyped
<1>5. ASSUME NEW p, Keep([Go("SPAWN_PRIORITY") EXCEPT !.spawn =
                            [project |-> p, plan |-> IF p \in Planned THEN p ELSE @.plan]])
      PROVE  KeyTyped
  BY <1>2, <1>5
<1> QED BY <1>3, <1>4, <1>5 DEF InWizard

LEMMA DetailTyped == ASSUME Sound(ui), Typed, NEW k, InDetail(k) PROVE KeyTyped
<1>1. ui.filter \in Projects \cup {None} /\ running \subseteq running
  BY DEF Typed
<1>2. CASE LeavesDetail(k)
  BY <1>1, <1>2, FilterStays, KeepTyped DEF LeavesDetail
<1>3. CASE BrowsesDetail(k)
  BY <1>1, <1>3, FilterStays, KeepTyped DEF BrowsesDetail
<1>4. CASE ActsInDetail(k) /\ UNCHANGED <<recent, asked>>
  BY <1>1, <1>4, FilterStays DEF ActsInDetail, Shutdown, Kill, KeyTyped
<1> QED BY <1>2, <1>3, <1>4 DEF InDetail

LEMMA PressTyped == ASSUME Sound(ui), Typed, NEW k, Press(k) PROVE Typed'
<1>1. KeyTyped
  BY NormalTyped, ClosesTyped, WizardTyped, DetailTyped DEF Press
<1>2. UNCHANGED <<list, projects, drawn>>
  BY DEF Press
<1> QED BY <1>1, <1>2 DEF Typed, KeyTyped

LEMMA RefreshTyped == ASSUME ScreenInv, Rows, Typed, Refresh PROVE Typed'
<1>1. list' \in Seq(Row)
  BY FetchedRows DEF Refresh
<1>2. projects' \in Seq(Projects)
  BY ReadProjects DEF Refresh
<1>3. recent' = recent /\ running' = running
  BY DEF Refresh, tables
<1>4. ui'.filter = ui.filter
  BY FilterStays DEF Refresh, ScreenInv
<1>5. Highlighted(list', ui) \in Ralphs \cup {None}
  BY <1>1, HighlightedRow DEF ScreenInv, Sound, UiOk
<1>6. drawn'.top \in {drawn.top, Panel("older", None), Panel(Structure(ui), Highlighted(list', ui))}
  <2> DEFINE leaves == ui.mode = "INSTANCE_DETAIL" /\ ~ HasRow(list', ui)
             new == IF leaves THEN Rebuilt(ui)
                    ELSE Painted(Rebuilt(ui), Structure(ui), Highlighted(list', ui))
  <2>1. ScreenOk(Rebuilt(ui)) /\ Rebuilt(ui).top \in {drawn.top, Panel("older", None)}
    BY RebuiltOk DEF ScreenInv
  <2>2. /\ ScreenOk(new)
        /\ new.top \in {drawn.top, Panel("older", None), Panel(Structure(ui), Highlighted(list', ui))}
    BY <2>1, PaintedOk
  <2>3. \E bar, key : drawn' = [new EXCEPT !.menu = Menu(ui), !.bar = bar, !.key = key]
    BY DEF Refresh
  <2> HIDE DEF new
  <2> QED BY <2>2, <2>3 DEF ScreenOk
<1> QED BY <1>1, <1>2, <1>3, <1>4, <1>5, <1>6 DEF Typed, Panel

LEMMA DrawFastTyped == ASSUME ScreenInv, Typed, DrawFast PROVE Typed'
<1>1. drawn' = Painted(drawn, ui.focus, Highlighted(list, ui))
      /\ UNCHANGED <<recent, running, ui, list, projects>>
  BY DEF DrawFast, tables
<1>2. drawn'.top \in {drawn.top, Panel(ui.focus, Highlighted(list, ui))}
  BY <1>1, PaintedOk DEF ScreenInv, DrawnOk
<1>3. Highlighted(list, ui) \in Ralphs \cup {None}
  BY HighlightedRow DEF ScreenInv, Sound, UiOk, Typed
<1> QED BY <1>1, <1>2, <1>3 DEF Typed, Panel

LEMMA NextTyped == ScreenInv /\ Rows /\ Typed /\ [Next]_vars => Typed'
<1> SUFFICES ASSUME ScreenInv, Rows, Typed, [Next]_vars PROVE Typed'
  OBVIOUS
<1>1. Sound(ui)
  BY DEF ScreenInv
<1>2. CASE Quit \/ UNCHANGED vars
  BY <1>2 DEF Quit, vars, tables, Typed
<1>3. ASSUME NEW r \in Ralphs, Starts(r) \/ Beats(r) PROVE Typed'
  BY <1>3, FirstOrder DEF Starts, Beats, Typed
<1>4. ASSUME NEW r \in Ralphs, NEW status, Ends(r, status) PROVE Typed'
  BY <1>4 DEF Ends, Typed
<1> QED BY <1>1, <1>2, <1>3, <1>4, PressTyped, RefreshTyped, DrawFastTyped DEF Next

LEMMA InitTyped == Init => Typed
BY DEF Init, Typed, Panel

\* Every row, order and cursor of the console has its type: what the keys pick
\* out of the lists is a worker or a project that exists.
THEOREM TypeCorrect == Spec => []TypeOK
<1>1. Rows /\ ScreenInv /\ Typed => TypeOK
  <2> SUFFICES ASSUME Rows, ScreenInv, Typed PROVE TypeOK
    OBVIOUS
  <2>1. \A i \in DOMAIN list : list[i] \in Row
    BY ElementOfSeq DEF Typed
  <2>2. \A i \in DOMAIN list : list[i].id \in Ralphs
    BY <2>1 DEF Row
  <2> QED BY <2>2 DEF TypeOK, Typed, Rows, Instances, ScreenInv, DrawnOk, ScreenOk, Sound, UiOk
<1>2. Spec => []Typed
  BY InitTyped, NextTyped, RowsAlways, ScreenAlways, PTL DEF Spec
<1> QED BY <1>1, <1>2, RowsAlways, ScreenAlways, PTL

=============================================================================
