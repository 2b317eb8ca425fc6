---------------------------- MODULE HotplugNotify ----------------------------
(***************************************************************************)
(* Interface events.  Each event starts one process (hotplug_notify) that  *)
(* records it and tries to create the debounce marker, a directory beside  *)
(* the state file.  The process that creates it waits out the debounce     *)
(* window and a bounded time for the writer lock, removes the marker, reads *)
(* the live state, probes the exit of its event and reconciles; every other *)
(* one leaves its event to that run.  The watchdog reconciles by itself.   *)
(*                                                                         *)
(* What a pass does with the exits is in Reconcile; here a pass is what it *)
(* has seen (the events before its snapshot) and what it has probed.  One  *)
(* action is one operation on the marker, which other processes see        *)
(* between; the lock is reduced to mutual exclusion (WriterLock).          *)
(***************************************************************************)
EXTENDS NetmodeTypes

CONSTANTS
    Proc,          \* processes, one for each interface event
    Abouts,        \* what the events may be about (functions on Proc)
    Watch,         \* the watchdog
    Switch,        \* another writer: a switch or an alignment
    LockRetry,     \* NOTIFY_LOCK_RETRY_S, in attempts
    MaxSwitches,   \* bound: times the other writer takes the lock
    MaxCrashes     \* bound: processes killed

\* What an interface is to the program: a section of one of the exits, or "other".
Role == Group \cup {"other"}

ASSUME NotifyAssumption ==
    /\ Abouts \subseteq [Proc -> Role]
    /\ LockRetry \in Nat
    /\ MaxSwitches \in Nat
    /\ MaxCrashes \in Nat
    /\ Watch \notin Proc /\ Switch \notin Proc /\ Watch # Switch
    /\ {"gone", "empty", "none"} \cap (Proc \cup {Watch, Switch}) = {}

VARIABLES
    marker,    \* the directory: gone, without a pid file, or naming a process
    expired,   \* it is older than 4 * hotplug_debounce + 10 seconds
    lock,      \* the holder of the writer lock, or "none"
    force,     \* health_force of the state file
    due,       \* the interval since the last health round is over
    about,     \* about[p]: the exit whose interface its event is of
    pc,        \* where each process is
    got,       \* it holds the lock
    waited,    \* its lock attempts so far
    seen,      \* the events before the snapshot of the pass that runs
    switches,  \* bound
    \* history
    unserved,  \* events that no pass has seen
    unprobed,  \* events whose exit no round after them has probed
    reaped,    \* the marker of a process that lives was taken for stale
    given_up,  \* some run was dropped for want of the lock
    killed     \* processes killed

history == <<unserved, unprobed, reaped, given_up, killed>>
vars == <<marker, expired, lock, force, due, about, pc, got, waited, seen,
          switches, history>>

Runner == Proc \cup {Watch}

\* Debouncing or waiting for the lock: the run other events are left to.
Scheduled == {"pid", "retry", "unlink_own", "rmdir_own"}

PC == {"out", "judge", "unlink", "rmdir", "create", "snapshot", "probe",
       "consume", "health", "done", "dead"} \cup Scheduled

Alive(p) == pc[p] \notin {"done", "dead"}

GoTo(p, where) == pc' = [pc EXCEPT ![p] = where]

-----------------------------------------------------------------------------
(***************************************************************************)
(* The event and the marker                                                *)
(***************************************************************************)

\* An interface changes; its process records the event and raises
\* health_force.
Event(p) ==
    /\ pc[p] = "out"
    /\ force' = TRUE
    /\ unserved' = unserved \cup {p}
    /\ unprobed' = IF about[p] \in Group THEN unprobed \cup {p} ELSE unprobed
    /\ GoTo(p, "judge")
    /\ UNCHANGED <<about, marker, expired, lock, due, got, waited, seen,
                   switches, reaped, given_up, killed>>

\* clear_stale_marker: no readable pid, no such process, or too old.
Stale == marker = "empty" \/ (marker \in Proc /\ (~Alive(marker) \/ expired))

Judge(p) ==
    /\ pc[p] = "judge"
    /\ GoTo(p, IF Stale THEN "unlink" ELSE "create")
    /\ reaped' = (reaped \/ (Stale /\ \E q \in Proc : pc[q] \in Scheduled))
    /\ UNCHANGED <<about, marker, expired, lock, force, due, got, waited, seen,
                   switches, unserved, unprobed, given_up, killed>>

\* remove_dir_all: the pid file, then the directory if it is still empty.
Unlink(p, from, to) ==
    /\ pc[p] = from
    /\ marker' = IF marker = "gone" THEN "gone" ELSE "empty"
    /\ GoTo(p, to)
    /\ UNCHANGED <<about, expired, lock, force, due, got, waited, seen,
                   switches, history>>

Rmdir(p, from, to) ==
    /\ pc[p] = from
    /\ marker' = IF marker = "empty" THEN "gone" ELSE marker
    /\ expired' = (expired /\ marker' # "gone")
    /\ GoTo(p, to)
    /\ UNCHANGED <<about, lock, force, due, got, waited, seen, switches,
                   history>>

Reap(p) == Unlink(p, "unlink", "rmdir") \/ Rmdir(p, "rmdir", "create")

\* Mutant of Create: create_dir_all, which also succeeds on an existing one.
CreateAll(p) ==
    /\ pc[p] = "create"
    /\ marker' = IF marker = "gone" THEN "empty" ELSE marker
    /\ expired' = FALSE
    /\ GoTo(p, "pid")
    /\ UNCHANGED <<about, lock, force, due, got, waited, seen, switches,
                   history>>

\* create_dir: the marker is there already, and the event is left to its run.
Create(p) ==
    /\ pc[p] = "create"
    /\ \/ /\ marker = "gone"
          /\ marker' = "empty"
          /\ expired' = FALSE
          /\ GoTo(p, "pid")
       \/ /\ marker # "gone"
          /\ GoTo(p, "done")
          /\ UNCHANGED <<marker, expired>>
    /\ UNCHANGED <<about, lock, force, due, got, waited, seen, switches,
                   history>>

WritePid(p) ==
    /\ pc[p] = "pid"
    /\ marker' = IF marker = "gone" THEN "gone" ELSE p
    /\ GoTo(p, "retry")
    /\ UNCHANGED <<about, expired, lock, force, due, got, waited, seen,
                   switches, history>>

\* Mutants of Retry: the attempts are not bounded, and the marker is not removed
\* before the live state is read.
RetryUnbounded(p) ==
    /\ pc[p] = "retry"
    /\ \/ /\ lock = "none"
          /\ lock' = p
          /\ got' = [got EXCEPT ![p] = TRUE]
          /\ waited' = [waited EXCEPT ![p] = 0]
          /\ GoTo(p, "unlink_own")
       \/ /\ lock # "none"
          /\ waited' = [waited EXCEPT ![p] = @ + 1]
          /\ UNCHANGED <<lock, got, pc>>
    /\ UNCHANGED <<about, marker, expired, force, due, seen, switches,
                   history>>

RetryKeepsMarker(p) ==
    /\ pc[p] = "retry"
    /\ lock = "none"
    /\ lock' = p
    /\ got' = [got EXCEPT ![p] = TRUE]
    /\ waited' = [waited EXCEPT ![p] = 0]
    /\ GoTo(p, "snapshot")
    /\ UNCHANGED <<about, marker, expired, force, due, seen, switches,
                   history>>

\* The debounce window is over: acquire_lock(1), tried again until the retry
\* budget is spent.
Retry(p) ==
    /\ pc[p] = "retry"
    /\ \/ /\ lock = "none" /\ waited[p] < LockRetry
          /\ lock' = p
          /\ got' = [got EXCEPT ![p] = TRUE]
          /\ waited' = [waited EXCEPT ![p] = 0]
          /\ GoTo(p, "unlink_own")
       \/ /\ lock # "none" /\ waited[p] < LockRetry
          /\ waited' = [waited EXCEPT ![p] = @ + 1]
          /\ UNCHANGED <<lock, got, pc>>
       \/ /\ waited[p] >= LockRetry
          /\ waited' = [waited EXCEPT ![p] = 0]
          /\ GoTo(p, "unlink_own")
          /\ UNCHANGED <<lock, got>>
    /\ UNCHANGED <<about, marker, expired, force, due, seen, switches,
                   history>>

\* The marker goes, whether or not the lock was taken, and whoever it names.
UnlinkOwn(p) == Unlink(p, "unlink_own", "rmdir_own")

RmdirOwn(p) ==
    /\ pc[p] = "rmdir_own"
    /\ marker' = IF marker = "empty" THEN "gone" ELSE marker
    /\ expired' = (expired /\ marker' # "gone")
    /\ GoTo(p, IF got[p] THEN "snapshot" ELSE "done")
    /\ given_up' = (given_up \/ ~got[p])
    /\ UNCHANGED <<about, lock, force, due, got, waited, seen, switches,
                   unserved, unprobed, reaped, killed>>

-----------------------------------------------------------------------------
(***************************************************************************)
(* The pass                                                                *)
(***************************************************************************)

\* A round on this pass's snapshot has probed the exits in G.
Probed(G) == {p \in unprobed : ~(p \in seen /\ about[p] \in G)}

Occurred == {p \in Proc : pc[p] # "out"}

\* read_live_state, after the marker is gone.
TakeSnapshot(r, from, to) ==
    /\ pc[r] = from
    /\ seen' = Occurred
    /\ unserved' = {}
    /\ GoTo(r, to)
    /\ UNCHANGED <<about, marker, expired, force, due, got, waited, unprobed,
                   reaped, given_up, killed>>

\* An event of neither exit has nothing to probe, and leaves health_force alone.
Snapshot(p) ==
    /\ TakeSnapshot(p, "snapshot", IF about[p] \in Group THEN "probe" ELSE "health")
    /\ UNCHANGED <<lock, switches>>

\* The targeted round, which starts the interval of the next one.
Probe(p) ==
    /\ pc[p] = "probe"
    /\ unprobed' = Probed({about[p]})
    /\ due' = FALSE
    /\ GoTo(p, "consume")
    /\ UNCHANGED <<about, marker, expired, lock, force, got, waited, seen,
                   switches, unserved, reaped, given_up, killed>>

\* health_force=0, the events of the other exit included.
Consume(p) ==
    /\ pc[p] = "consume"
    /\ force' = FALSE
    /\ GoTo(p, "health")
    /\ UNCHANGED <<about, marker, expired, lock, due, got, waited, seen,
                   switches, history>>

\* What the pass does with the exits, release_lock, and the watchdog sleeps.
EndPass(r) ==
    /\ lock' = "none"
    /\ seen' = {}
    /\ got' = [got EXCEPT ![r] = FALSE]
    /\ GoTo(r, IF r = Watch THEN "out" ELSE "done")

\* Mutant of Health: only a forced round is made.
HealthForcedOnly(r) ==
    /\ pc[r] = "health"
    /\ IF force
       THEN unprobed' = Probed(Group) /\ due' = FALSE
       ELSE UNCHANGED <<unprobed, due>>
    /\ force' = FALSE
    /\ EndPass(r)
    /\ UNCHANGED <<about, marker, expired, waited, switches, unserved, reaped,
                   given_up, killed>>

\* reconcile_body: a round of both exits if one is forced or due.
Health(r) ==
    /\ pc[r] = "health"
    /\ IF force \/ due
       THEN unprobed' = Probed(Group) /\ due' = FALSE
       ELSE UNCHANGED <<unprobed, due>>
    /\ force' = FALSE
    /\ EndPass(r)
    /\ UNCHANGED <<about, marker, expired, waited, switches, unserved, reaped,
                   given_up, killed>>

\* Mutant of Tick: the watchdog evaluates the live state it started with.
TickFrozen ==
    /\ pc[Watch] = "out"
    /\ lock = "none"
    /\ lock' = Watch
    /\ GoTo(Watch, "health")
    /\ UNCHANGED <<about, marker, expired, force, due, got, waited, seen,
                   switches, history>>

\* watch_tick: skipped while another writer holds the lock.
Tick ==
    /\ lock = "none"
    /\ lock' = Watch
    /\ UNCHANGED switches
    /\ TakeSnapshot(Watch, "out", "health")

Notify(p) ==
    \/ Judge(p) \/ Reap(p) \/ Create(p) \/ WritePid(p) \/ Retry(p)
    \/ UnlinkOwn(p) \/ RmdirOwn(p) \/ Snapshot(p) \/ Probe(p) \/ Consume(p)

-----------------------------------------------------------------------------
(***************************************************************************)
(* Time, the other writer, and crashes                                     *)
(***************************************************************************)

\* A marker outlives its limit: its process waits for the lock longer than
\* that, or is dead.
MarkerAges ==
    /\ ~expired
    /\ marker \in Proc
    /\ expired' = TRUE
    /\ UNCHANGED <<about, marker, lock, force, due, pc, got, waited, seen,
                   switches, history>>

IntervalOver ==
    /\ ~due
    /\ due' = TRUE
    /\ UNCHANGED <<about, marker, expired, lock, force, pc, got, waited, seen,
                   switches, history>>

SwitchStarts ==
    /\ lock = "none"
    /\ switches < MaxSwitches
    /\ switches' = switches + 1
    /\ lock' = Switch
    /\ UNCHANGED <<about, marker, expired, force, due, pc, got, waited, seen,
                   history>>

SwitchEnds ==
    /\ lock = Switch
    /\ lock' = "none"
    /\ UNCHANGED <<about, marker, expired, force, due, pc, got, waited, seen,
                   switches, history>>

\* A process is killed; the lock it held is reclaimed by the next writer.
Crash(p) ==
    /\ killed < MaxCrashes
    /\ pc[p] \notin {"out", "done", "dead"}
    /\ killed' = killed + 1
    /\ GoTo(p, "dead")
    /\ lock' = IF lock = p THEN "none" ELSE lock
    /\ UNCHANGED <<about, marker, expired, force, due, got, waited, seen,
                   switches, unserved, unprobed, reaped, given_up>>

Init ==
    /\ marker = "gone" /\ expired = FALSE
    /\ lock = "none"
    /\ force = FALSE /\ due = FALSE
    /\ about \in Abouts
    /\ pc = [r \in Runner |-> "out"]
    /\ got = [r \in Runner |-> FALSE]
    /\ waited = [p \in Proc |-> 0]
    /\ seen = {}
    /\ switches = 0
    /\ unserved = {} /\ unprobed = {}
    /\ reaped = FALSE /\ given_up = FALSE /\ killed = 0

Next ==
    \/ \E p \in Proc : Event(p) \/ Notify(p) \/ Crash(p)
    \/ \E r \in Runner : Health(r)
    \/ Tick \/ MarkerAges \/ IntervalOver \/ SwitchStarts \/ SwitchEnds

Spec == Init /\ [][Next]_vars

\* Processes that live go on, the watchdog wakes every interval, time passes,
\* and the other writer ends.  Events and crashes need not happen.
FairSpec ==
    /\ Spec
    /\ \A p \in Proc : WF_vars(Notify(p))
    /\ \A r \in Runner : WF_vars(Health(r))
    /\ WF_vars(Tick) /\ WF_vars(IntervalOver) /\ WF_vars(SwitchEnds)

-----------------------------------------------------------------------------
(***************************************************************************)
(* Properties                                                              *)
(***************************************************************************)

\* Every variable stays within its type.
TypeOK ==
    /\ marker \in Proc \cup {"gone", "empty"}
    /\ expired \in BOOLEAN
    /\ lock \in Runner \cup {Switch, "none"}
    /\ force \in BOOLEAN
    /\ due \in BOOLEAN
    /\ about \in [Proc -> Role]
    /\ pc \in [Runner -> PC]
    /\ got \in [Runner -> BOOLEAN]
    /\ waited \in [Proc -> 0..LockRetry]
    /\ seen \in SUBSET Proc
    /\ switches \in Nat
    /\ unserved \in SUBSET Proc
    /\ unprobed \in SUBSET Proc
    /\ reaped \in BOOLEAN
    /\ given_up \in BOOLEAN
    /\ killed \in Nat

\* A run that is still to read the live state.
Upcoming(q) == pc[q] \in Scheduled \cup {"snapshot"}

\* No event is lost by coalescing: while an event its process has left to
\* another run is unserved, some run is still to read the live state, whatever
\* markers were taken for stale or removed by others; a run that gave up the
\* lock or was killed is the only exception.
CoalescedIsServed ==
    \A p \in unserved :
        pc[p] = "done" => (\E q \in Proc : Upcoming(q)) \/ given_up \/ killed > 0

\* A burst of events makes one run: two processes wait side by side only after
\* a marker was taken for stale while its process lived.
OneRunPerBurst ==
    \A p, q \in Proc :
        pc[p] \in Scheduled /\ pc[q] \in Scheduled /\ ~reaped /\ killed = 0
        => p = q

\* The watchdog makes up for dropped and killed runs: every event is followed
\* by a pass that has read the live state after it.
EventServed == \A p \in Proc : p \in unserved ~> p \notin unserved

\* The exit of every event is probed after it, also when the run its event was
\* left to probed the other exit and consumed the request.
EventProbed == \A p \in Proc : p \in unprobed ~> p \notin unprobed
=============================================================================
