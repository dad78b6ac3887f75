------------------------------ MODULE Processes ------------------------------
(***************************************************************************)
(* Worker processes and the two files kept for each of them (spawner.py):  *)
(* the pid file, by which every other program knows that a worker lives,   *)
(* and the status file, which the worker and everybody else writes.  The   *)
(* daemon and any number of consoles spawn, clean up, stop and kill; each  *)
(* of them is one sequential process that may die between two steps.  A    *)
(* worker's id is made for one spawn and not used again.  Process ids are  *)
(* taken not to be reused while a file still names them.                   *)
(***************************************************************************)
EXTENDS Integers, FiniteSets

CONSTANTS
  Workers,    \* ids of workers
  Daemon,     \* the daemon
  Consoles,   \* running or startable consoles
  Max,        \* max_concurrent_ralphs
  PsFails,    \* whether `ps` may time out for a live process
  None

Actors == {Daemon} \cup Consoles

ASSUME ProcessesAssumption ==
  /\ Max \in Nat \ {0}
  /\ PsFails \in BOOLEAN
  /\ IsFiniteSet(Consoles) /\ Daemon \notin Consoles
  /\ None \notin Actors \cup Workers

VARIABLES
  proc,     \* the process of each worker
  parent,   \* the actor it is a child of; None once that has died
  by,       \* who launched it, for the properties only
  code,     \* its exit code
  told,     \* workers sent SIGTERM
  said,     \* the final status the worker itself wrote last
  pidf,     \* pid file: none, empty (opened, not written), pid
  stat,     \* status file: busy when it is missing or not final
  up,       \* actors that run
  pc        \* what each actor is at, and with which worker

child == <<proc, parent, by, code, told, said>>
vars == <<child, pidf, stat, up, pc>>

Final == {"completed", "stopped", "halted", "crashed"}
\* write_ralph_status_if_not_terminal; what a tripped breaker writes is not among them.
Terminal == {"completed", "stopped", "crashed"}

Exists(w) == proc[w] \in {"up", "zombie"}      \* os.kill(pid, 0) finds it
Dead(w) == proc[w] \in {"zombie", "gone"}

Idle == [op |-> "idle", w |-> None]
At(a, op) == a \in up /\ pc[a].op = op
Step(a, op) == pc' = [pc EXCEPT ![a].op = op]
Begin(a, op, w) == pc' = [pc EXCEPT ![a] = [op |-> op, w |-> w]]
Done(a) == pc' = [pc EXCEPT ![a] = Idle]

Init ==
  /\ proc = [w \in Workers |-> "unborn"]
  /\ parent = [w \in Workers |-> None]
  /\ by = [w \in Workers |-> None]
  /\ code = [w \in Workers |-> "none"]
  /\ told = {}
  /\ said = [w \in Workers |-> "none"]
  /\ pidf = [w \in Workers |-> "none"]
  /\ stat = [w \in Workers |-> "busy"]
  /\ up \in SUBSET Actors
  /\ pc = [a \in Actors |-> Idle]

-----------------------------------------------------------------------------
(***************************************************************************)
(* The worker.                                                             *)
(***************************************************************************)
\* update_status: the end of the task, the open breaker, the trap of SIGTERM, and
\* on_exit, which also follows the end of a task, as that returns 6.
Reports(w, s) ==
  /\ proc[w] = "up"
  /\ \/ said[w] = "none" /\ s \in {"completed", "halted", "crashed"}
     \/ said[w] = "completed" /\ s = "crashed"
     \/ w \in told /\ said[w] # "stopped" /\ s = "stopped"
  /\ said' = [said EXCEPT ![w] = s]
  /\ stat' = [stat EXCEPT ![w] = s]
  /\ UNCHANGED <<proc, parent, by, code, told, pidf, up, pc>>

\* A process that ends is a zombie until its parent asks, or goes at once.
Ends(w, c) ==
  /\ proc' = [proc EXCEPT ![w] = IF parent[w] = None THEN "gone" ELSE "zombie"]
  /\ code' = [code EXCEPT ![w] = c]
  /\ told' = told \ {w}

Exits(w) ==
  /\ proc[w] = "up" /\ said[w] # "none"
  /\ Ends(w, IF said[w] = "crashed" THEN "error" ELSE "zero")
  /\ UNCHANGED <<parent, by, said, pidf, stat, up, pc>>

\* SIGKILL from elsewhere.
Dies(w) ==
  /\ proc[w] = "up"
  /\ Ends(w, "error")
  /\ UNCHANGED <<parent, by, said, pidf, stat, up, pc>>

-----------------------------------------------------------------------------
(***************************************************************************)
(* Who asks whether a worker runs.                                         *)
(***************************************************************************)
\* is_ralph_running takes a file it cannot parse, or whose process is gone, away.
Swept(w) ==
  IF pidf[w] = "empty" \/ (pidf[w] = "pid" /\ proc[w] = "gone") THEN "none" ELSE pidf[w]

\* get_running_ralphs
Counted == {w \in Workers : pidf[w] = "pid" /\ Exists(w)}

Sweeps(c) ==
  /\ At(c, "idle")
  /\ pidf' = [w \in Workers |-> Swept(w)]
  /\ UNCHANGED <<child, stat, up, pc>>

-----------------------------------------------------------------------------
(***************************************************************************)
(* Spawning.                                                               *)
(***************************************************************************)
BelowLimit == Cardinality(Counted) < Max

\* A console: can_spawn_ralph, then is_daemon_running; a daemon that runs gets a
\* request instead.
Checks(c) ==
  /\ At(c, "idle")
  /\ BelowLimit /\ Daemon \notin up
  /\ pidf' = [w \in Workers |-> Swept(w)]
  /\ Begin(c, "may", None)
  /\ UNCHANGED <<child, stat, up>>

\* spawn_ralph_daemon up to Popen.  The daemon does not ask for the limit.
Launches(a, w) ==
  /\ At(a, IF a = Daemon THEN "idle" ELSE "may")
  /\ proc[w] = "unborn"
  /\ proc' = [proc EXCEPT ![w] = "up"]
  /\ parent' = [parent EXCEPT ![w] = a]
  /\ by' = [by EXCEPT ![w] = a]
  /\ Begin(a, "launched", w)
  /\ UNCHANGED <<code, told, said, pidf, stat, up>>

\* No task to claim, no plan, no CLI.
GivesUp(c) ==
  /\ At(c, "may") /\ Done(c)
  /\ UNCHANGED <<child, pidf, stat, up>>

\* write_text: open, then write.
OpensPid(a) ==
  /\ At(a, "launched")
  /\ pidf' = [pidf EXCEPT ![pc[a].w] = "empty"]
  /\ Step(a, "opened")
  /\ UNCHANGED <<child, stat, up>>

\* A file unlinked in between is written all the same, and lost.
WritesPid(a) ==
  /\ At(a, "opened")
  /\ pidf' = [pidf EXCEPT ![pc[a].w] = IF @ = "empty" THEN "pid" ELSE @]
  /\ Step(a, "written")
  /\ UNCHANGED <<child, stat, up>>

\* poll() 0.2 seconds later.  A worker that failed has its pid file removed and
\* is marked; an exit code of 0 and a completed task count as spawned.
Polls(a) ==
  LET w == pc[a].w
      failed == Dead(w) /\ code[w] = "error" /\ stat[w] # "completed"
  IN  /\ At(a, "written")
      /\ proc' = [proc EXCEPT ![w] = IF Dead(w) THEN "gone" ELSE @]
      /\ IF failed
         THEN /\ pidf' = [pidf EXCEPT ![w] = "none"]
              /\ stat' = [stat EXCEPT ![w] = "crashed"]
              /\ Done(a)
         ELSE Step(a, "spawned") /\ UNCHANGED <<pidf, stat>>
      /\ UNCHANGED <<parent, by, code, told, said, up>>

\* spawn_ralph_with_task_claim writes "working".
NotesWork(a) ==
  /\ At(a, "spawned")
  /\ stat' = [stat EXCEPT ![pc[a].w] = "busy"]
  /\ Done(a)
  /\ UNCHANGED <<child, pidf, up>>

-----------------------------------------------------------------------------
(***************************************************************************)
(* cleanup_dead_ralphs: at each tick of the daemon and each refresh of a   *)
(* console.                                                                *)
(***************************************************************************)
\* Asking `ps` reaps one's own children.
Reaped(a, w) == [proc EXCEPT ![w] = IF @ = "zombie" /\ parent[w] = a THEN "gone" ELSE @]

\* get_process_health removes the file of a process that is dead or a zombie, or
\* for which `ps` did not answer; write_ralph_status_if_not_terminal then tests,
\* and writes.
CleansUp(a, w) ==
  /\ At(a, "idle") /\ pidf[w] = "pid"
  /\ proc' = Reaped(a, w)
  /\ pidf' = [pidf EXCEPT ![w] = "none"]
  /\ IF stat[w] \in Terminal THEN UNCHANGED pc ELSE Begin(a, "marks", w)
  /\ UNCHANGED <<parent, by, code, told, said, stat, up>>

\* Mutant of CleanLooks: another's zombie is left to its parent.
CleanLooksOwn(a, w) ==
  /\ proc[w] = "gone" \/ (proc[w] = "zombie" /\ parent[w] = a)
  /\ CleansUp(a, w)

\* Mutant of CleanLooks: the file of a live worker that is being stopped goes too.
CleanLooksStopping(a, w) == (Dead(w) \/ said[w] # "none") /\ CleansUp(a, w)

CleanLooks(a, w) ==
  /\ Dead(w) \/ (PsFails /\ proc[w] = "up")
  /\ CleansUp(a, w)

CleanMarks(a) ==
  /\ At(a, "marks")
  /\ stat' = [stat EXCEPT ![pc[a].w] = "crashed"]
  /\ Done(a)
  /\ UNCHANGED <<child, pidf, up>>

-----------------------------------------------------------------------------
(***************************************************************************)
(* Stopping.                                                               *)
(***************************************************************************)
\* stop_ralph_daemon
Stops(a, w) ==
  /\ At(a, "idle") /\ pidf[w] # "none"
  /\ told' = IF pidf[w] = "pid" /\ proc[w] = "up" THEN told \cup {w} ELSE told
  /\ pidf' = [pidf EXCEPT ![w] = "none"]
  /\ UNCHANGED <<proc, parent, by, code, said, stat, up, pc>>

\* ... with force
Forces(c, w) ==
  /\ At(c, "idle") /\ pidf[w] = "pid" /\ proc[w] = "up"
  /\ Ends(w, "error")
  /\ pidf' = [pidf EXCEPT ![w] = "none"]
  /\ UNCHANGED <<parent, by, said, stat, up, pc>>

\* is_ralph_stuck: a live worker too when its log and its status are old.
\* handle_stuck_ralph: the mark, with the same test, ...
StuckLooks(c, w) ==
  /\ At(c, "idle") /\ pidf[w] = "pid"
  /\ proc' = Reaped(c, w)
  /\ Begin(c, IF stat[w] \in Terminal THEN "terms" ELSE "stuckMarks", w)
  /\ UNCHANGED <<parent, by, code, told, said, pidf, stat, up>>

StuckMarks(c) ==
  /\ At(c, "stuckMarks")
  /\ stat' = [stat EXCEPT ![pc[c].w] = "crashed"]
  /\ Step(c, "terms")
  /\ UNCHANGED <<child, pidf, up>>

\* ... SIGTERM if there is such a process, ...
StuckTerms(c) ==
  LET w == pc[c].w
  IN  /\ At(c, "terms")
      /\ pidf' = [pidf EXCEPT ![w] = IF proc[w] = "gone" THEN "none" ELSE @]
      /\ IF pidf[w] = "pid" /\ Exists(w)
         THEN told' = told \cup ({w} \cap {x \in Workers : proc[x] = "up"}) /\ Step(c, "waits")
         ELSE UNCHANGED told /\ Done(c)
      /\ UNCHANGED <<proc, parent, by, code, said, stat, up>>

\* ... and two seconds later SIGKILL.
StuckKills(c) ==
  LET w == pc[c].w
  IN  /\ At(c, "waits")
      /\ IF proc[w] = "up" THEN Ends(w, "error") ELSE UNCHANGED <<proc, code, told>>
      /\ pidf' = [pidf EXCEPT ![w] = "none"]
      /\ Done(c)
      /\ UNCHANGED <<parent, by, said, stat, up>>

-----------------------------------------------------------------------------
\* An actor dies, or ends: init takes its children over.
ActorDies(a) ==
  /\ a \in up
  /\ up' = up \ {a}
  /\ pc' = [pc EXCEPT ![a] = Idle]
  /\ proc' = [w \in Workers |-> IF parent[w] = a /\ proc[w] = "zombie" THEN "gone" ELSE proc[w]]
  /\ parent' = [w \in Workers |-> IF parent[w] = a THEN None ELSE parent[w]]
  /\ UNCHANGED <<by, code, told, said, pidf, stat>>

ActorStarts(a) ==
  /\ a \notin up
  /\ up' = up \cup {a}
  /\ UNCHANGED <<child, pidf, stat, pc>>

Spawning(a) ==
  \/ \E w \in Workers : Launches(a, w)
  \/ OpensPid(a) \/ WritesPid(a) \/ Polls(a) \/ NotesWork(a)

Cleaning(a) ==
  (\E w \in Workers : CleanLooks(a, w)) \/ CleanMarks(a)

Acts(a) ==
  Spawning(a) \/ Cleaning(a) \/ (\E w \in Workers : Stops(a, w)) \/ ActorDies(a) \/ ActorStarts(a)

ConsoleActs(c) ==
  \/ Sweeps(c) \/ Checks(c) \/ GivesUp(c)
  \/ \E w \in Workers : Forces(c, w) \/ StuckLooks(c, w)
  \/ StuckMarks(c) \/ StuckTerms(c) \/ StuckKills(c)

Next ==
  \/ \E w \in Workers : (\E s \in Final : Reports(w, s)) \/ Exits(w) \/ Dies(w)
  \/ \E a \in Actors : Acts(a)
  \/ \E c \in Consoles : ConsoleActs(c)

\* launchd starts the daemon again, and each tick begins with a cleanup of every
\* pid file; nothing is assumed of workers, consoles and users.
Fairness ==
  /\ WF_vars(ActorStarts(Daemon))
  /\ WF_vars(OpensPid(Daemon)) /\ WF_vars(WritesPid(Daemon))
  /\ WF_vars(Polls(Daemon)) /\ WF_vars(NotesWork(Daemon))
  /\ WF_vars(CleanMarks(Daemon))
  /\ \A w \in Workers : SF_vars(CleanLooks(Daemon, w))

Spec == Init /\ [][Next]_vars /\ Fairness

-----------------------------------------------------------------------------
Ops == {"idle", "may", "launched", "opened", "written", "spawned", "marks",
        "stuckMarks", "terms", "waits"}

\* Types, and what goes with what: an actor that is down does nothing, a process
\* is a child of the one that launched it or of nobody, only an ended one has an
\* exit code.
TypeOK ==
  /\ proc \in [Workers -> {"unborn", "up", "zombie", "gone"}]
  /\ by \in [Workers -> Actors \cup {None}]
  /\ \A w \in Workers : parent[w] \in {None, by[w]} /\ (parent[w] # None => parent[w] \in up)
  /\ code \in [Workers -> {"none", "zero", "error"}]
  /\ \A w \in Workers : (code[w] # "none") = Dead(w)
  /\ told \subseteq Workers
  /\ said \in [Workers -> Final \cup {"none"}]
  /\ pidf \in [Workers -> {"none", "empty", "pid"}]
  /\ stat \in [Workers -> Final \cup {"busy"}]
  /\ up \subseteq Actors
  /\ pc \in [Actors -> [op : Ops, w : Workers \cup {None}]]
  /\ \A a \in Actors \ up : pc[a] = Idle

\* The consoles never have more workers running than the limit and one for each
\* other console: each looks before it spawns and has one spawn at a time in
\* hand, though looks and spawns of different consoles interleave, and workers
\* and consoles die in between.
OneOverEach ==
  Cardinality({w \in Counted : by[w] \in Consoles}) <= Max - 1 + Cardinality(Consoles)

\* When a cleanup writes "crashed" into a status file, its test of a moment
\* before still holds, although others write that file in between: neither
\* the worker's own "completed" nor its "stopped" is lost to a cleanup.
TestStillHolds ==
  \A a \in Actors : pc[a].op = "marks" => stat[pc[a].w] \notin {"completed", "stopped"}

\* A worker that is dead does not count for ever: while daemons come back, every
\* pid file of a dead process goes away, whoever the parent of the zombie is,
\* also when spawners and cleaners die halfway.
DeadForgotten ==
  \A w \in Workers : (Dead(w) /\ pidf[w] = "pid") ~> (pidf[w] # "pid")

\* The last status a worker itself wrote stays.  spawner.py says of its guarded
\* write that it "prevents race conditions where spawner overwrites
\* ralph_loop.sh's final status"; the spawner's own write of "working" has no
\* guard, and a stuck worker's mark is tested before it is written.
FinalStatusStays ==
  [][\A w \in Workers : said[w] # "none" /\ stat[w] = said[w] /\ said'[w] = said[w]
                          => stat'[w] = stat[w]]_vars

\* A live worker nobody has told to stop, and that nobody is just spawning, has
\* its pid file.  The code does not satisfy it: spawners die between Popen and
\* the write, and an empty file is removed by whoever looks at that moment.
LiveHasFile ==
  \A w \in Workers :
    proc[w] = "up" /\ w \notin told /\ (\A a \in Actors : pc[a].w # w) => pidf[w] = "pid"

\* A dead worker's status file comes to say how it ended.  The code does not
\* satisfy it: "working" may be written when the pid file is already gone.
DeadIsTold ==
  \A w \in Workers : (proc[w] = "gone") ~> (stat[w] \in Final)
=============================================================================
