----------------------------- MODULE DaemonGuard -----------------------------
(***************************************************************************)
(* How many daemons run, and who can tell (daemon.py).  A daemon excludes  *)
(* others by an flock that the system frees when it dies; everybody else   *)
(* (`start`, `stop`, the consoles) judges by a pid file.  Processes are    *)
(* named by their pid, and a pid that has become free may be given to      *)
(* another start or to a process that is no daemon.                        *)
(***************************************************************************)
CONSTANTS
  Pids,
  Stoppers,   \* runs of `wig daemon stop`
  Faults,     \* bound: deaths, stops and starts by users
  NoPid,
  Empty       \* the pid file when opened and not yet written

LOCAL INSTANCE Naturals

ASSUME DaemonGuardAssumption ==
  /\ Faults \in Nat
  /\ NoPid \notin Pids /\ Empty \notin Pids /\ NoPid # Empty

VARIABLES
  at,     \* what each process does; free: there is no such process
  lock,   \* who holds the flock
  file,   \* the pid file
  seen,   \* the pid a process has read from it and is about to look up
  stop,   \* what each stopper does, and to which process
  agent,  \* the process launchd has started, while it lives
  left    \* deaths, stops and users' starts still to come

guardVars == <<at, lock, file, seen, stop, agent, left>>

NoStop == [op |-> "idle", pid |-> NoPid]

GuardInit ==
  /\ at \in [Pids -> {"free", "other"}]
  /\ \A p, q \in Pids : at[p] = "other" /\ at[q] = "other" => p = q
  /\ lock = NoPid
  /\ file \in Pids \cup {NoPid}
  /\ seen = [p \in Pids |-> NoPid]
  /\ stop = [s \in Stoppers |-> NoStop]
  /\ agent = NoPid
  /\ left = Faults

Starting == {"reads", "probes", "cleans", "locks"}
\* From the lock to its release.
Holding == {"locked", "opened", "written", "loop", "ending", "removes", "closes"}

Alive(p) == at[p] # "free"
Go(p, here, there) ==
  /\ at[p] = here /\ at' = [at EXCEPT ![p] = there]
  /\ UNCHANGED agent

Forgotten(p) ==
  /\ at' = [at EXCEPT ![p] = "free"]
  /\ seen' = [seen EXCEPT ![p] = NoPid]
  /\ agent' = IF agent = p THEN NoPid ELSE agent

\* The end of a process, whatever it did, frees its lock.
Gone(p) == Forgotten(p) /\ lock' = IF lock = p THEN NoPid ELSE lock

-----------------------------------------------------------------------------
(***************************************************************************)
(* start_daemon.                                                           *)
(***************************************************************************)
\* launchd keeps one process of its own alive.
AgentStarts(p) ==
  /\ agent = NoPid /\ agent' = p
  /\ at[p] = "free" /\ at' = [at EXCEPT ![p] = "reads"]
  /\ UNCHANGED <<lock, file, seen, stop, left>>

UserStarts(p) ==
  /\ left > 0 /\ left' = left - 1
  /\ Go(p, "free", "reads")
  /\ UNCHANGED <<lock, file, seen, stop>>

\* is_daemon_running: the file, ...
Reads(p) ==
  /\ IF file \in Pids
     THEN Go(p, "reads", "probes") /\ seen' = [seen EXCEPT ![p] = file]
     ELSE Go(p, "reads", "cleans") /\ UNCHANGED seen
  /\ UNCHANGED <<lock, file, stop, left>>

\* Mutant of Probes: the file is believed.
ProbesNot(p) ==
  /\ at[p] = "probes" /\ Gone(p)
  /\ UNCHANGED <<file, stop, left>>

\* ... and the process: any process by that number will do, this one too.
Probes(p) ==
  /\ at[p] = "probes"
  /\ \/ Alive(seen[p]) /\ Gone(p)
     \/ /\ ~Alive(seen[p]) /\ Go(p, "probes", "cleans")
        /\ seen' = [seen EXCEPT ![p] = NoPid]
        /\ UNCHANGED lock
  /\ UNCHANGED <<file, stop, left>>

\* The file is removed, whichever it is by now; started by a user, the process
\* may go on as a grandchild.
Cleans(p) ==
  /\ at[p] = "cleans"
  /\ \E q \in Pids :
       /\ q = p \/ (~Alive(q) /\ p # agent)
       /\ at' = [at EXCEPT ![p] = "free", ![q] = "locks"]
  /\ file' = NoPid
  /\ UNCHANGED <<lock, seen, stop, agent, left>>

\* Mutant of Locks: without a pid file the lock is not respected.
LocksOrTrusts(p) ==
  /\ Go(p, "locks", "locked")
  /\ lock = NoPid \/ file = NoPid
  /\ lock' = p
  /\ UNCHANGED <<file, seen, stop, left>>

Locks(p) ==
  /\ at[p] = "locks"
  /\ \/ lock = NoPid /\ Go(p, "locks", "locked") /\ lock' = p /\ UNCHANGED seen
     \/ lock # NoPid /\ Gone(p)
  /\ UNCHANGED <<file, stop, left>>

\* _write_pid_file: open, then write; what was unlinked in between is lost.
OpensFile(p) ==
  /\ Go(p, "locked", "opened")
  /\ file' = Empty
  /\ UNCHANGED <<lock, seen, stop, left>>

WritesFile(p) ==
  /\ Go(p, "opened", "written")
  /\ file' = IF file = Empty THEN p ELSE file
  /\ UNCHANGED <<lock, seen, stop, left>>

-----------------------------------------------------------------------------
(***************************************************************************)
(* run_forever and what follows it.                                        *)
(***************************************************************************)
\* The handlers of the signals are there; init_db may fail.
Enters(p) ==
  /\ Go(p, "written", "loop") \/ Go(p, "written", "removes")
  /\ UNCHANGED <<lock, file, seen, stop, left>>

\* The tick in hand is finished first.
EndsLoop(p) ==
  /\ Go(p, "ending", "removes")
  /\ UNCHANGED <<lock, file, seen, stop, left>>

\* Mutant of Removes: the lock is released before the file is removed.
RemovesLast(p) ==
  /\ Go(p, "removes", "closes")
  /\ lock' = NoPid
  /\ UNCHANGED <<file, seen, stop, left>>

Removes(p) ==
  /\ Go(p, "removes", "closes")
  /\ file' = NoPid
  /\ UNCHANGED <<lock, seen, stop, left>>

Closes(p) ==
  /\ at[p] = "closes"
  /\ Gone(p)
  /\ UNCHANGED <<file, stop, left>>

-----------------------------------------------------------------------------
(***************************************************************************)
(* stop_daemon.                                                            *)
(***************************************************************************)
StopReads(s) ==
  /\ stop[s].op = "idle" /\ file \in Pids
  /\ left > 0 /\ left' = left - 1
  /\ stop' = [stop EXCEPT ![s] = [op |-> "probes", pid |-> file]]
  /\ UNCHANGED <<at, lock, file, seen, agent>>

Goes(s, there) == stop' = [stop EXCEPT ![s] = IF there = "idle" THEN NoStop ELSE [@ EXCEPT !.op = there]]

StopProbes(s) ==
  /\ stop[s].op = "probes"
  /\ Goes(s, IF Alive(stop[s].pid) THEN "terms" ELSE "idle")
  /\ UNCHANGED <<at, lock, file, seen, agent, left>>

\* SIGTERM ends the loop at its next turn; asyncio.run has the handler installed
\* for no longer than the loop, and everywhere else the signal kills.
StopTerms(s) ==
  LET p == stop[s].pid
  IN  /\ stop[s].op = "terms"
      /\ Goes(s, IF Alive(p) THEN "waits" ELSE "idle")
      /\ \/ Go(p, "loop", "ending") /\ UNCHANGED <<lock, seen>>
         \/ at[p] \in {"free", "ending"} /\ UNCHANGED <<at, lock, seen, agent>>
         \/ at[p] \notin {"free", "loop", "ending"} /\ Gone(p)
      /\ UNCHANGED <<file, left>>

\* The process is gone within ten seconds, ...
StopSees(s) ==
  /\ stop[s].op = "waits" /\ ~Alive(stop[s].pid)
  /\ Goes(s, "idle")
  /\ UNCHANGED <<at, lock, file, seen, agent, left>>

\* ... or is killed, ...
StopKills(s) ==
  /\ stop[s].op = "waits" /\ Alive(stop[s].pid)
  /\ Goes(s, "removes")
  /\ Gone(stop[s].pid)
  /\ UNCHANGED <<file, left>>

\* ... and the pid file, whosever it is by now, removed.
StopRemoves(s) ==
  /\ stop[s].op = "removes"
  /\ Goes(s, "idle")
  /\ file' = NoPid
  /\ UNCHANGED <<at, lock, seen, agent, left>>

-----------------------------------------------------------------------------
\* A crash, SIGKILL, a restart of the machine for this process.
Crashes(p) ==
  /\ Alive(p) /\ left > 0
  /\ left' = left - 1
  /\ Gone(p)
  /\ UNCHANGED <<file, stop>>

\* One process at a time that is no daemon, for the number in the file.
Reuses(p) ==
  /\ file = p /\ \A q \in Pids : at[q] # "other"
  /\ Go(p, "free", "other")
  /\ UNCHANGED <<lock, file, seen, stop, left>>

Starts(p) == Reads(p) \/ Probes(p) \/ Cleans(p) \/ Locks(p) \/ OpensFile(p) \/ WritesFile(p)
Runs(p) == Enters(p) \/ EndsLoop(p) \/ Removes(p) \/ Closes(p)
Stopping(s) ==
  \/ StopReads(s) \/ StopProbes(s) \/ StopTerms(s)
  \/ StopSees(s) \/ StopKills(s) \/ StopRemoves(s)

GuardNext ==
  \/ \E p \in Pids : AgentStarts(p) \/ UserStarts(p) \/ Starts(p) \/ Runs(p) \/ Crashes(p) \/ Reuses(p)
  \/ \E s \in Stoppers : Stopping(s)

\* launchd starts the daemon whenever it does not run, each time with another
\* pid; a process that has begun goes on; init_db does not always fail.
GuardFairness ==
  \A p \in Pids :
    /\ SF_guardVars(AgentStarts(p))
    /\ WF_guardVars(Starts(p)) /\ WF_guardVars(Runs(p))
    /\ SF_guardVars(Enters(p) /\ at'[p] = "loop")

GuardSpec == GuardInit /\ [][GuardNext]_guardVars /\ GuardFairness

-----------------------------------------------------------------------------
\* Types; the lock has a holder that lives and is where the lock is held.
GuardTypeOK ==
  /\ at \in [Pids -> {"free", "other"} \cup Starting \cup Holding]
  /\ lock \in Pids \cup {NoPid} /\ (lock # NoPid => at[lock] \in Holding)
  /\ file \in Pids \cup {NoPid, Empty}
  /\ seen \in [Pids -> Pids \cup {NoPid}]
  /\ stop \in [Stoppers -> [op : {"idle", "probes", "terms", "waits", "removes"}, pid : Pids \cup {NoPid}]]
  /\ agent \in Pids \cup {NoPid} /\ (agent # NoPid => at[agent] \in Starting \cup Holding)
  /\ left \in 0..Faults

\* At most one process is between taking the lock and releasing it, so that one
\* daemon at a time reconciles, whatever the pid file says, and whoever removes
\* it, dies or is killed.
OneDaemon == \A p, q \in Pids : at[p] \in Holding /\ at[q] \in Holding => p = q

\* When the pid file names a live process, that is the daemon that holds the lock,
\* after it has written its number and before it has removed it, or one whose
\* number was in the file before it began: no rival that lost and no daemon that
\* has left is taken for the daemon, whoever else writes and removes the file.
PidNamesHolder ==
  file \in Pids /\ Alive(file) =>
    \/ at[file] \in {"written", "loop", "ending", "removes"} /\ lock = file
    \/ at[file] \in {"reads", "probes", "cleans", "other"}

\* After the last crash and the last stop a daemon runs: no stale pid file,
\* no lock and no lost race keeps it out, except that the number in the file
\* has been given to a process that is no daemon.
DaemonComesBack ==
  []<>(\/ \E p \in Pids : at[p] = "loop"
       \/ file \in Pids /\ at[file] = "other")

\* A daemon in its loop is named by the pid file.  The code does not satisfy it:
\* a start that saw no daemon removes the file that one has written since.
LoopIsNamed == \A p \in Pids : at[p] = "loop" => file = p
=============================================================================
