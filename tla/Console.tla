------------------------------- MODULE Console -------------------------------
(***************************************************************************)
(* The text console over the workers (tui/app.py, tui/handlers.py,         *)
(* tui/dashboard.py): one loop that takes a key, handles it against the    *)
(* lists of the last refresh, and draws again.  Other processes change the *)
(* tables in between; the list is ordered by heartbeat and a row is chosen *)
(* by its place.  The list of tasks is left out.                           *)
(***************************************************************************)
EXTENDS Integers, Sequences, FiniteSets

CONSTANTS
  Ralphs,        \* ids of workers; each is registered once
  ProjectOrder,  \* the projects, in the order in which a set of them is listed
  ProjectOf,     \* the project of each worker
  Planned,       \* projects with a fix plan where the console looks for it
  Keys,          \* keys the user presses
  None

Projects == {ProjectOrder[i] : i \in DOMAIN ProjectOrder}

ASSUME ConsoleAssumption ==
  /\ ProjectOrder \in Seq(Projects)
  /\ ProjectOf \in [Ralphs -> Projects]
  /\ Planned \subseteq Projects
  /\ IsFiniteSet(Ralphs)
  /\ None \notin Projects \cup Ralphs

VARIABLES
  db,        \* ralph_instances: status, and whether a task is claimed
  recent,    \* Ralphs, the latest heartbeat first
  running,   \* workers whose process runs
  ui,        \* TUIState: mode, filters, cursor, wizard
  list,      \* TUIState.instances: rows as they were at the last refresh
  projects,  \* TUIState.projects
  drawn,     \* what is on the screen
  at,        \* what the loop does next
  asked      \* the request for a worker that the last key made

tables == <<db, recent, running>>
vars == <<db, recent, running, ui, list, projects, drawn, at, asked>>

Live == {"active", "paused"}
Retired == {"stopped", "crashed", "deleted"}
Digit == [d \in {"1", "2", "3"} |-> CASE d = "1" -> 1 [] d = "2" -> 2 [] d = "3" -> 3]

\* Modes that only show something, and the key that opens and closes them.
Overlay == [HELP |-> "h", STATS |-> "t", HISTORY |-> "H", LOG_VIEW |-> "l",
            LOG_STREAM |-> "v", TASK_DETAIL |-> "d"]
Wizard == {"SPAWN_PROJECT", "SPAWN_PRIORITY", "SPAWN_CATEGORY", "SPAWN_MODEL",
           "SPAWN_SESSION", "SPAWN_CONFIRM"}
Mode == {"NORMAL", "PROJECT_FILTER", "SHUTDOWN", "SETTINGS", "SETTINGS_EDIT",
         "CONFIRM_BULK_STOP", "CONFIRM_BULK_PAUSE", "INSTANCE_DETAIL",
         "INSTANCE_ERROR_DETAIL", "CLEANUP_CONFIRM"} \cup DOMAIN Overlay \cup Wizard

NoSpawn == [project |-> None, plan |-> None]

-----------------------------------------------------------------------------
\* The list a refresh reads: list_all_instances, filtered.
Shown(r) ==
  /\ IF ui.showAll THEN db[r].status \notin {"unborn", "deleted"}
                   ELSE db[r].status = "active"
  /\ ui.filter \in {None, ProjectOf[r]}

\* The orders of a set, and the one in which its members come as in a longer one.
Orders(S) ==
  {s \in [1 .. Cardinality(S) -> S] : \A i, j \in DOMAIN s : i # j => s[i] # s[j]}

Place(order, e) == CHOOSE i \in DOMAIN order : order[i] = e
InOrder(S, order) ==
  {s \in Orders(S) : \A i, j \in DOMAIN s : i < j => Place(order, s[i]) < Place(order, s[j])}

Fetched ==
  {[i \in DOMAIN ids |-> [id |-> ids[i], status |-> db[ids[i]].status, task |-> db[ids[i]].task]] :
     ids \in InOrder({r \in Ralphs : Shown(r)}, recent)}

\* state.projects is a list made of a set.  A project is known when tasks of it
\* were synced, here: since the first worker of it.
Known(p) == \E r \in Ralphs : ProjectOf[r] = p /\ db[r].status # "unborn"

\* What the middle of the screen has to show: the lists, side by side ("BOTH") or
\* one of them, or a panel of the mode's own.
Structure(u) == IF u.mode \in {"NORMAL", "PROJECT_FILTER", "SHUTDOWN"} THEN u.focus ELSE u.mode

\* The row under the cursor, as long as there is one.
HasRow(rows, u) == u.idx <= Len(rows)
Highlighted(rows, u) ==
  IF Structure(u) \in {"INSTANCE_DETAIL", "INSTANCES", "BOTH"} /\ HasRow(rows, u)
  THEN rows[u.idx].id ELSE None

Panel(view, row) == [view |-> view, row |-> row]

\* layout["main"] holds a panel and may be split in two; while it is, its halves
\* are what one sees, and a panel it is given lies behind them.
Painted(screen, view, row) ==
  CASE view = "BOTH" -> [screen EXCEPT !.split = TRUE, !.top = Panel(view, row)]
    [] view # "BOTH" /\ ~ screen.split -> [screen EXCEPT !.top = Panel(view, row)]
    [] OTHER -> screen

Init ==
  /\ db = [r \in Ralphs |-> [status |-> "unborn", task |-> FALSE]]
  /\ recent \in Orders(Ralphs)
  /\ running = {}
  /\ ui = [mode |-> "NORMAL", focus |-> "BOTH", showAll |-> FALSE, filter |-> None,
           idx |-> 1, tab |-> 1, dataOf |-> None, stale |-> TRUE, spawn |-> NoSpawn]
  /\ list = <<>> /\ projects = <<>>
  /\ drawn = [split |-> TRUE, top |-> Panel("BOTH", None), cached |-> "none",
              menu |-> <<>>, bar |-> <<>>, key |-> <<>>]
  /\ at = "full"
  /\ asked = NoSpawn

-----------------------------------------------------------------------------
(***************************************************************************)
(* The other processes.                                                    *)
(***************************************************************************)
First(r) == {<<r>> \o others : others \in InOrder(Ralphs \ {r}, recent)}

Starts(r) ==
  /\ db[r].status = "unborn"
  /\ db' = [db EXCEPT ![r] = [status |-> "active", task |-> TRUE]]
  /\ recent' \in First(r)
  /\ running' = running \cup {r}
  /\ UNCHANGED <<ui, list, projects, drawn, at, asked>>

\* The daemon or a refresh notes that the worker lives.
Beats(r) ==
  /\ r \in running /\ db[r].status \in Live
  /\ recent[1] # r
  /\ recent' \in First(r)
  /\ UNCHANGED <<db, running, ui, list, projects, drawn, at, asked>>

\* A worker is done, or breaks off, and is marked; its claim goes with it.
Ends(r, status) ==
  /\ r \in running
  /\ running' = running \ {r}
  /\ db' = IF db[r].status \in Live
           THEN [db EXCEPT ![r] = [status |-> status, task |-> FALSE]] ELSE db
  /\ UNCHANGED <<recent, ui, list, projects, drawn, at, asked>>

-----------------------------------------------------------------------------
(***************************************************************************)
(* What the console does to the tables.                                    *)
(***************************************************************************)
Set(r, status) ==
  IF db[r].status = "deleted" THEN db
  ELSE [db EXCEPT ![r] = [status |-> status, task |-> FALSE]]

\* Only the console itself.
Keep(u) == ui' = u /\ UNCHANGED <<tables, asked>>
Go(mode) == [ui EXCEPT !.mode = mode]
\* Out of the detail view.  Only the next entry sets the tab and asks for fresh
\* data in the code; as nothing reads them before, they are forgotten here.
Leave(mode) ==
  [ui EXCEPT !.mode = mode, !.tab = 1, !.dataOf = None, !.stale = TRUE]

\* shutdown_instance, then SIGTERM.
Shutdown(r) == db' = Set(r, "stopped") /\ running' = running \ {r}

\* K: a worker found stuck is marked crashed, any other stopped; both are killed.
Kill(r) ==
  /\ \E status \in {"crashed", "stopped"} : db' = Set(r, status)
  /\ running' = running \ {r}

\* Mutant of PauseOrResume: the UPDATE does not ask for the status it changes.
PauseBlindly(row) ==
  db' = CASE row.status = "active" /\ db[row.id].status # "deleted" ->
               [db EXCEPT ![row.id].status = "paused"]
          [] OTHER -> db

\* pause_instance and resume_instance go by the row of the last refresh, their
\* UPDATEs by the table.
PauseOrResume(row) ==
  db' = CASE row.status = "active" /\ db[row.id].status = "active" ->
               [db EXCEPT ![row.id].status = "paused"]
          [] row.status = "paused" /\ db[row.id].status = "paused" ->
               [db EXCEPT ![row.id].status = "active"]
          [] OTHER -> db

StopAll ==
  /\ db' = [r \in Ralphs |->
       IF db[r].status \in Live THEN [status |-> "stopped", task |-> FALSE] ELSE db[r]]
  /\ running' = {}

\* pause_all_instances, resume_all_instances
TurnAll(from, to) ==
  db' = [r \in Ralphs |-> IF db[r].status = from THEN [db[r] EXCEPT !.status = to] ELSE db[r]]

Deletable(row) == row.status \in {"stopped", "crashed"}

-----------------------------------------------------------------------------
(***************************************************************************)
(* Keys in normal mode.                                                    *)
(***************************************************************************)
\* handle_normal_mode: what opens another mode.
Opens(k) ==
  \/ \E m \in {"HELP", "STATS", "HISTORY"} : k = Overlay[m] /\ Keep(Go(m))
  \/ k = "S" /\ Keep(Go("SETTINGS"))
  \/ k = "C" /\ Keep(Go("CLEANUP_CONFIRM"))
  \/ k = "p" /\ projects # <<>> /\ Keep(Go("PROJECT_FILTER"))
  \/ k = "s" /\ list # <<>> /\ Keep(Go("SHUTDOWN"))
  \/ k = "^S" /\ list # <<>> /\ Keep(Go("CONFIRM_BULK_STOP"))
  \/ k = "^P" /\ Keep(Go("CONFIRM_BULK_PAUSE"))
     /\ \E i \in DOMAIN list : list[i].status = "active"
  \/ /\ list # <<>>
     /\ \E m \in {"LOG_VIEW", "LOG_STREAM"} :
          k = Overlay[m] /\ Keep([Go(m) EXCEPT !.idx = 1])

\* Mutant of OpensWizard: the configuration of the last spawn is kept.
OpensWizardAgain(k) ==
  k = "n" /\ projects # <<>> /\ Keep(Go("SPAWN_PROJECT"))

OpensWizard(k) ==
  k = "n" /\ projects # <<>> /\ Keep([Go("SPAWN_PROJECT") EXCEPT !.spawn = NoSpawn])

\* Zoom, scope and cursor.
Moves(k) ==
  \/ k = "i" /\ Keep([ui EXCEPT !.showAll = ~ @])
  \/ k = "z" /\ Keep([ui EXCEPT !.focus =
       CASE @ = "BOTH" -> "TASKS" [] @ = "TASKS" -> "INSTANCES" [] OTHER -> "BOTH"])
  \/ ui.focus = "INSTANCES" /\ k = "j" /\ ui.idx < Len(list) /\ Keep([ui EXCEPT !.idx = @ + 1])
  \/ ui.focus = "INSTANCES" /\ k = "k" /\ ui.idx > 1 /\ Keep([ui EXCEPT !.idx = @ - 1])

\* Mutant of AfterRemoval: the cursor steps back from the first row too.
BeforeFirst(u) == IF u.idx >= Len(list) THEN [u EXCEPT !.idx = @ - 1] ELSE u

\* The cursor when the row under it goes.
AfterRemoval(u) == IF u.idx >= Len(list) /\ u.idx > 1 THEN [u EXCEPT !.idx = @ - 1] ELSE u

\* Enter and x on the row under the cursor.
OnRow(k) ==
  /\ ui.focus = "INSTANCES" /\ HasRow(list, ui)
  /\ \/ /\ k = "Enter"
        /\ Keep([Go("INSTANCE_DETAIL") EXCEPT !.tab = 1, !.stale = TRUE])
     \/ /\ k = "x" /\ Deletable(list[ui.idx])
        /\ db' = Set(list[ui.idx].id, "deleted")
        /\ ui' = AfterRemoval(ui)
        /\ UNCHANGED <<recent, running, asked>>

\* N: can_spawn_ralph may refuse.  The filter, or the directory, says the project.
Quickstart(k) ==
  /\ k = "N"
  /\ \/ \E p \in Planned : /\ ui.filter \in {None, p}
                           /\ asked' = [project |-> p, plan |-> p]
     \/ UNCHANGED asked
  /\ UNCHANGED <<ui, tables>>

ResumesAll(k) ==
  /\ k = "^R" /\ TurnAll("paused", "active")
  /\ UNCHANGED <<recent, running, ui, asked>>

InNormal(k) ==
  /\ ui.mode = "NORMAL"
  /\ Opens(k) \/ OpensWizard(k) \/ Moves(k) \/ OnRow(k) \/ Quickstart(k) \/ ResumesAll(k)

-----------------------------------------------------------------------------
(***************************************************************************)
(* Keys in the other modes.                                                *)
(***************************************************************************)
Closes(k) ==
  \/ ui.mode \in DOMAIN Overlay /\ k \in {Overlay[ui.mode], "q", "ESCAPE"} /\ Keep(Go("NORMAL"))
  \/ ui.mode = "SETTINGS" /\ k \in {"S", "ESCAPE"} /\ Keep(Go("NORMAL"))
  \/ ui.mode = "SETTINGS" /\ k = "Enter" /\ Keep(Go("SETTINGS_EDIT"))
  \/ ui.mode = "SETTINGS_EDIT" /\ k \in {"Enter", "ESCAPE"} /\ Keep(Go("SETTINGS"))
  \/ ui.mode = "CLEANUP_CONFIRM" /\ k \in {"y", "n", "ESCAPE"} /\ Keep(Go("NORMAL"))

Filters(k) ==
  /\ ui.mode = "PROJECT_FILTER"
  /\ \/ k = "ESCAPE" /\ Keep(Go("NORMAL"))
     \/ k = "0" /\ Keep([Go("NORMAL") EXCEPT !.filter = None])
     \/ /\ k \in DOMAIN Digit /\ Digit[k] <= Len(projects)
        /\ Keep([Go("NORMAL") EXCEPT !.filter = projects[Digit[k]]])

\* The digit counts in the list of the last refresh.
ShutsDown(k) ==
  /\ ui.mode = "SHUTDOWN"
  /\ \/ k = "ESCAPE" /\ Keep(Go("NORMAL"))
     \/ /\ k \in DOMAIN Digit /\ Digit[k] <= Len(list)
        /\ Shutdown(list[Digit[k]].id)
        /\ ui' = Go("NORMAL")
        /\ UNCHANGED <<recent, asked>>

InBulk(k) ==
  /\ ui.mode \in {"CONFIRM_BULK_STOP", "CONFIRM_BULK_PAUSE"}
  /\ \/ k \in {"n", "ESCAPE"} /\ Keep(Go("NORMAL"))
     \/ /\ k = "y"
        /\ \/ ui.mode = "CONFIRM_BULK_STOP" /\ StopAll
           \/ ui.mode = "CONFIRM_BULK_PAUSE" /\ TurnAll("active", "paused") /\ UNCHANGED running
        /\ ui' = Go("NORMAL")
        /\ UNCHANGED <<recent, asked>>

\* handle_spawn
InWizard(k) ==
  /\ ui.mode \in Wizard
  /\ \/ k = "ESCAPE" /\ Keep(Go("NORMAL"))
     \/ /\ ui.mode = "SPAWN_PROJECT"
        /\ k \in DOMAIN Digit /\ Digit[k] <= Len(projects)
        /\ LET p == projects[Digit[k]]
           IN  Keep([Go("SPAWN_PRIORITY") EXCEPT !.spawn =
                       [project |-> p, plan |-> IF p \in Planned THEN p ELSE @.plan]])
     \/ ui.mode = "SPAWN_PRIORITY" /\ k \in DOMAIN Digit /\ Keep(Go("SPAWN_CATEGORY"))
     \/ ui.mode = "SPAWN_CATEGORY" /\ k \in DOMAIN Digit \cup {"0"} /\ Keep(Go("SPAWN_MODEL"))
     \/ ui.mode = "SPAWN_MODEL" /\ k \in DOMAIN Digit /\ Keep(Go("SPAWN_SESSION"))
     \/ ui.mode = "SPAWN_SESSION" /\ k = "Enter" /\ Keep(Go("SPAWN_CONFIRM"))
     \/ /\ ui.mode = "SPAWN_CONFIRM" /\ k = "Enter"
        /\ asked' = ui.spawn \/ UNCHANGED asked     \* can_spawn_ralph may refuse
        /\ ui' = Go("NORMAL")
        /\ UNCHANGED tables

LeavesDetail(k) ==
  \/ ~ HasRow(list, ui) /\ Keep(Leave("NORMAL"))
  \/ /\ k = "ESCAPE" /\ HasRow(list, ui)
     /\ Keep(IF ui.mode = "INSTANCE_ERROR_DETAIL" THEN Go("INSTANCE_DETAIL") ELSE Leave("NORMAL"))

\* Tabs, neighbours, the overlay of an error and the task at hand.
BrowsesDetail(k) ==
  \/ k \in DOMAIN Digit /\ Keep([ui EXCEPT !.tab = Digit[k]])
  \/ k = "j" /\ ui.idx < Len(list) /\ Keep([ui EXCEPT !.idx = @ + 1, !.stale = TRUE])
  \/ k = "k" /\ ui.idx > 1 /\ Keep([ui EXCEPT !.idx = @ - 1, !.stale = TRUE])
  \/ k = "Enter" /\ ui.tab = 3 /\ Keep(Go("INSTANCE_ERROR_DETAIL"))
  \/ k = "Enter" /\ ui.tab = 1 /\ list[ui.idx].task /\ Keep(Leave("TASK_DETAIL"))

\* The keys that act on the instance; they work under the overlay too.
ActsInDetail(k) ==
  LET row == list[ui.idx]
  IN  \/ /\ k = "r" /\ row.task
         /\ db' = [db EXCEPT ![row.id].task = FALSE]
         /\ UNCHANGED <<ui, running>>
      \/ k = "P" /\ PauseOrResume(row) /\ UNCHANGED <<ui, running>>
      \/ k = "s" /\ Shutdown(row.id) /\ ui' = Leave("NORMAL")
      \/ k = "K" /\ Kill(row.id) /\ UNCHANGED ui
      \/ /\ k = "x" /\ Deletable(row)
         /\ db' = Set(row.id, "deleted") /\ ui' = Leave("NORMAL") /\ UNCHANGED running

InDetail(k) ==
  /\ ui.mode \in {"INSTANCE_DETAIL", "INSTANCE_ERROR_DETAIL"}
  /\ \/ LeavesDetail(k)
     \/ HasRow(list, ui) /\ BrowsesDetail(k)
     \/ HasRow(list, ui) /\ ActsInDetail(k) /\ UNCHANGED <<recent, asked>>

-----------------------------------------------------------------------------
(***************************************************************************)
(* The loop.                                                               *)
(***************************************************************************)
\* Mutant of FastPath: navigation is drawn from the cache without a look at the mode.
FastAnywhere(k, mode) == k \in {"j", "k", "z"}

\* A key of navigation in normal mode is drawn from the cached lists.
FastPath(k, mode) == mode = "NORMAL" /\ k \in {"j", "k", "z"}

Press(k) ==
  /\ at = "wait"
  /\ InNormal(k) \/ Closes(k) \/ Filters(k) \/ ShutsDown(k) \/ InBulk(k) \/ InWizard(k) \/ InDetail(k)
  /\ at' = IF FastPath(k, ui'.mode) THEN "fast" ELSE "full"
  /\ UNCHANGED <<list, projects, drawn>>

Quit ==
  /\ at = "wait" /\ ui.mode = "NORMAL" /\ "q" \in Keys
  /\ at' = "quit"
  /\ UNCHANGED <<tables, ui, list, projects, drawn, asked>>

\* create_command_bar: what the digits mean.
Numbers(u) ==
  CASE u.mode = "SHUTDOWN" -> [i \in DOMAIN list' |-> list'[i].id]
    [] u.mode = "PROJECT_FILTER" -> projects'
    [] OTHER -> <<>>

\* The bar is made again when the mode, the zoom or the message has changed.
Bar(u, news) ==
  IF news \/ drawn.key # <<u.mode, u.focus>> THEN Numbers(u) ELSE drawn.bar

\* create_spawn_panel: the projects of the wizard's first step.
Menu(u) == IF u.mode = "SPAWN_PROJECT" THEN projects' ELSE <<>>

\* update_display_only: the middle, nothing is read.  It never takes a split away.
DrawFast ==
  /\ at = "fast"
  /\ drawn' = Painted(drawn, ui.focus, Highlighted(list, ui))
  /\ at' = "wait"
  /\ UNCHANGED <<tables, ui, list, projects, asked>>

\* The layout is rebuilt when the structure is another one than at the last refresh
\* (cached_layout_structure), whatever was drawn in between.  Until it is painted
\* it shows some older panel.
Rebuilt(u) ==
  IF drawn.cached = Structure(u) THEN drawn
  ELSE [drawn EXCEPT !.split = Structure(u) = "BOTH", !.top = Panel("older", None),
                     !.cached = Structure(u)]

\* update_dashboard, after a key or every two seconds: the lists are read, the
\* detail view loads the data of its instance if it was told to, and is left
\* when there is none.
Refresh ==
  /\ at \in {"full", "wait"}
  /\ list' \in Fetched
  /\ projects' \in InOrder({p \in Projects : Known(p)}, ProjectOrder)
  /\ LET detail == ui.mode = "INSTANCE_DETAIL"
         loads == detail /\ HasRow(list', ui) /\ ui.stale
         leaves == detail /\ ~ HasRow(list', ui)
     IN  /\ ui' = CASE leaves -> Leave("NORMAL")
                    [] loads -> [ui EXCEPT !.dataOf = list'[ui.idx].id, !.stale = FALSE]
                    [] OTHER -> ui
         /\ \E news \in BOOLEAN :
              drawn' = [(IF leaves THEN Rebuilt(ui)
                         ELSE Painted(Rebuilt(ui), Structure(ui), Highlighted(list', ui)))
                          EXCEPT !.menu = Menu(ui),
                                 !.bar = Bar(ui', news),
                                 !.key = <<ui'.mode, ui'.focus>>]
  /\ at' = "wait" /\ asked' = NoSpawn
  /\ UNCHANGED tables

Next ==
  \/ Refresh \/ DrawFast \/ Quit
  \/ \E k \in Keys : Press(k)
  \/ \E r \in Ralphs :
       Starts(r) \/ Beats(r) \/ \E status \in {"stopped", "crashed"} : Ends(r, status)

Spec == Init /\ [][Next]_vars

-----------------------------------------------------------------------------
\* Types of the tables, the console's state and the screen.
TypeOK ==
  /\ db \in [Ralphs -> [status : {"unborn"} \cup Live \cup Retired, task : BOOLEAN]]
  /\ recent \in Orders(Ralphs) /\ running \subseteq Ralphs
  /\ ui.mode \in Mode /\ ui.idx \in Nat \ {0} /\ ui.filter \in Projects \cup {None}
  /\ \A i \in DOMAIN list : list[i].id \in Ralphs
  /\ drawn.top.row \in Ralphs \cup {None}

\* A split that is on the screen though another view was chosen.
Leftover == drawn.split /\ Structure(ui) # "BOTH"

\* Keys that act on an instance by its place.
ByPlace == ui.mode = "INSTANCE_DETAIL" \/ (ui.mode = "NORMAL" /\ ui.focus = "INSTANCES")

\* Whenever the console waits for a key, the instance the key would act on is
\* the one that is highlighted or whose detail is on the screen, and the
\* projects of the wizard are numbered as its digits will be read, whatever
\* heartbeats, deaths, pauses and filters have done to the order of the list,
\* and in whatever order fast and full drawings came; all unless a left-over
\* split hides what was drawn.
OnScreen ==
  at = "wait" =>
    /\ ByPlace /\ HasRow(list, ui) =>
         Leftover \/ drawn.top = Panel(Structure(ui), list[ui.idx].id)
    /\ ui.mode = "SPAWN_PROJECT" => drawn.menu = projects

\* "just re-renders the view" (update_display_only): after a key the view that was
\* chosen is on the screen.  The code does not satisfy it: zooming out of the
\* split view draws behind the halves.
ViewIsShown == at = "wait" => ~ Leftover

\* A refresh at least shows it.  The code does not satisfy this either: zoomed once
\* around, from one list to both and on to the same list, the structure is the
\* cached one and the halves made in between stay.
RefreshShowsView == [][Refresh => ~ Leftover']_vars

\* No instance that is stopped, crashed or deleted becomes active or paused
\* again: the console's keys go by rows that may be two seconds old, and the
\* worker may have ended or been stopped by another process since.
RetiredStays ==
  [][\A r \in Ralphs : db[r].status \in Retired => db'[r].status \in Retired]_db

\* A worker is asked for with the plan of its own project or with none, however
\* many wizards were started and given up before.
PlanOfProject == asked.plan \in {None, asked.project}

\* Esc leads out: help promises "Cancel / return to normal mode".
Depth(mode) ==
  CASE mode = "NORMAL" -> 0
    [] mode \in {"SETTINGS_EDIT", "INSTANCE_ERROR_DETAIL"} -> 2
    [] OTHER -> 1

\* From every mode Esc leads nearer to normal mode, also when the lists have
\* changed under it: no mode is a trap.
EscLeadsOut ==
  [][Press("ESCAPE") /\ ui.mode # "NORMAL" => Depth(ui'.mode) < Depth(ui.mode)]_vars

\* The bar under the screen numbers what a digit will be taken for.  The code
\* does not satisfy it: the bar is made again only when mode, zoom or message
\* change, while every refresh may reorder the list.
BarIsCurrent ==
  at = "wait" =>
    /\ ui.mode = "SHUTDOWN" => drawn.bar = [i \in DOMAIN list |-> list[i].id]
    /\ ui.mode = "PROJECT_FILTER" => drawn.bar = projects

\* The detail view shows the data of the instance it names and acts on.  The
\* code does not satisfy it: the data are loaded once, the row is looked up by
\* place at every refresh.
DetailIsOfRow ==
  at = "wait" /\ ui.mode = "INSTANCE_DETAIL" => ui.dataOf = list[ui.idx].id
=============================================================================
