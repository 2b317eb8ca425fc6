# Formal model of the h5000m exit switcher

`luci-app-h5000m-netmode` decides which of two uplinks of an OpenWrt router, the
Ethernet WAN or the cellular modem, carries the traffic.  Its Rust backend moves
the default routes of both address families between the two exits, keeps the
idle exit warm on a second route, and repairs the result when the network moves
under it.  This directory holds TLA+ modules of that backend, the TLC
configurations that check them on small instances, and proofs for every value
of the constants.

    tlc -config MCSwitchTransaction.cfg MCSwitchTransaction
    tlapm SwitchTransactionProofs.tla

Section 1 is the inventory, 2 the modules and their correspondence to the code,
3 the runs with their bounds and fairness, 4 the proofs, 5 the behaviours a user
of the results should know, 6 what is not modelled.

## 1. Inventory

Paths are relative to the repository's root; the crate is in `src/`.

| Component | State it keeps | Operations | Hard because |
|---|---|---|---|
| Exit policy (`types/mod.rs`, `switch/transaction.rs:17-36`) | none | mode -> primary exit, metric, `defaultroute` | it has to agree with what the routes say |
| Routes (`network/routes.rs`, `network/netlink.rs`) | the kernel's default routes, shared with netifd | dump, replace by metric, delete | a replace is keyed on the metric: it overwrites whoever holds the slot |
| Live state (`network/mod.rs`, `network/sysfs.rs`) | a snapshot, refreshed at fixed points | read, readiness predicates, slot owner | it is stale as soon as it is taken |
| Switch transaction (`switch/mod.rs`, `switch/transaction.rs`) | phase, the snapshot, what was committed so far | prepare, wait, probe, write the plan, commit IPv4, commit IPv6, park, verify, settle, roll back, converge | many steps, no atomicity over the two families; failure at any of them |
| Writer lock (`state.rs:127-216`) | a directory with a pid file | `acquire_lock`, `release_lock` | staleness is judged by others; owners die |
| State file (`state.rs:40-125`, `233-244`) | key/value file: gen, requested and applied mode, task state, pid, remembered next hops | `kv_write` (read all, rename), `switch_in_progress` | read-modify-write without a lock |
| Requests and worker (`rpc.rs:125-309`) | gen and mode a process runs for, configuration loaded at start | `set`, `align`, switch worker (three runs), align worker | newest request wins, across processes |
| Reconciler (`reconcile.rs`, `rpc.rs:450-618`) | candidate since, last align, warm routes | watchdog tick, candidate, cooldown, `align_to`, orphan routes | acts on verdicts and routes that others change |
| Health (`health/*.rs`) | verdicts, streaks, last round | throttled round, streaks, `group_degraded` | two writers of one file, hysteresis |
| Hotplug (`rpc.rs:334-449`) | the debounce marker | notify, debounce, stale marker | coalescing must not lose the last event |
| Configuration (`config/*.rs`) | a parse cache | load, clamp, cached parse | the cache's stamp |
| Probes (`probe/*.rs`) | none | ICMP, TCP, per device | pure I/O |
| Status (`status.rs`, `bin/h5000m-netmode-status.rs`) | a cached JSON text with a mark | report, serve from cache | the mark is taken around the snapshot |
| Budget (`switch/budget.rs`) | a deadline | left, bounded sleep | - |
| LuCI page (`htdocs/.../netmode.js`) | view state | poll, submit | presentation |

**How they interact.**  `set` writes a request (a higher `gen` and the mode) to
the state file and, unless a task is in progress, starts a worker process.  The
worker takes the writer lock, runs `switch_run` for the request, looks in the
state file for a newer one, runs that, and reconciles before it releases the
lock.  The watchdog, the hotplug handler and `align` take the same lock and move
exits by `align_to`.  `switch_run` looks at `gen` between its phases and gives up
for a newer request until its commit begins.  netifd and the kernel change routes
at any time, without the lock.

**What makes each correct.**

* Transaction: a family that has a route never loses its last one by the
  program's hand; the live exit is left alone until the commit; a switch that
  reports ok has verified both families on the target after the settle window; one that fails restores the old
  exit and the old plan; it ends.
* Lock: one holder; every call ends; a dead owner blocks nobody.
* Requests: the newest is in force, or a failure was reported, when all is quiet;
  an overtaken worker never commits over a newer one; a request is only left to a
  task that really runs.
* Reconciler: it does not flap, it converges on the policy, it leaves a primary
  exit only for probes that failed in a row, it spaces its attempts, a failed one puts the exit
  back, and a successful one keeps the exit it leaves warm.
* Hotplug: after the last event of a burst, some reconcile reads the live state and
  probes the exit the event was about, if it was about one.
* Caches: nothing older than the last change the cache can tell is served after it,
  and nothing for ever.

## 2. Modules

| Module | Models | Uses |
|---|---|---|
| `NetmodeTypes` | modes, groups, families, the plan a mode assigns | - |
| `Fib` | the default routes of one family, `route_replace_slot`, winners and owners | `NetmodeTypes` |
| `Network` | the two exits, the routes, the plan, the remembered next hops; snapshots and predicates; the route writes of both writers | `Fib` |
| `SwitchTransaction` | `switch_run` with everything it calls that changes state, and its environment | extends `Network` |
| `SwitchContract` | what a switch promises, without routes or probes: the abstract specification | `NetmodeTypes` |
| `Reconcile` | a reconcile pass: health, warming, decision, `align_to`, and its environment | extends `Network` |
| `RequestQueue` | `set`, `align`, the switch worker, the align worker, the watchdog as a writer, over the state file | `NetmodeTypes` |
| `WriterLock` | `acquire_lock`, `release_lock`, by system call | - |
| `HotplugNotify` | `hotplug_notify`, `clear_stale_marker`, by operation on the debounce marker | `NetmodeTypes` |
| `ReaderCaches` | the parse cache of the configuration, the snapshot file of the status command | `NetmodeTypes` |

`MCSwitchTransaction`, `MCReconcile`, `MCRequestQueue` and `MCHotplugNotify` hold
the instances for TLC.  Each module named `...Proofs` holds the theorems about the
module it extends.

**How the modules compose.**  `Network` is the shared part of the two writers of
the routes: `SwitchTransaction` and `Reconcile` extend it and use the same
snapshot, the same predicates and the same route writes, so a lemma about a route
write (`NetworkProofs`) serves both.  `SwitchTransaction` implements
`SwitchContract`: it instantiates it under a refinement mapping, and `KeepsContract`
is the contract's specification under that mapping.  The other modules see a neighbour
through what it promises: `RequestQueue` cuts a switch down to gate, plan write and
outcome (which are the contract's `Decide`, `Restore` and ends), and it and
`HotplugNotify` take the lock as mutual exclusion, which `WriterLock` studies by
system call.

### The network

| Variable | Code |
|---|---|
| `fib[f]` | the kernel's default routes: a set of (exit, metric, restricted to a source prefix or not).  Next hop and device are functions of the exit |
| `link`, `addr` | the exit's device exists; the families it holds an address in |
| `conf` | the settings and the sections that exist, fixed during a behaviour |
| `plan` | `network.<section>.metric` and `.defaultroute` |
| `rt` | the remembered next hops `rt_<group><family>` of the state file |

A snapshot (`Live`) copies the routes and the addresses; links are asked for live,
as the code does.  The predicates (`GroupComplete`, `Ready`, ...) take a snapshot
as a parameter, so that a stale one can be told from a fresh one.

netifd may install an exit's IPv6 default only for packets from its own prefix
(`conf.sourced`).  `Winners` is the code's `winning_default`: such a route loses
against an unrestricted one of its metric, is counted only among its own kind
(`EqualMetricCount`), and is an exit's own route only where there is no other.  The
program's writes name no source prefix, so neither a replace nor a deletion meets one
(`Slot`, `RouteDel`).  IPv4 has none.

Abstractions: a probe's answer is a choice, possible only with a device and an
address; a route write fails without a device, and may fail without an address;
default routes over tunnels that belong to no exit are not represented, other
unmanaged ones are (`ForeignMetrics`); netifd adds its route beside one of another
exit with the same metric.

### The switch transaction

| Variable | Code |
|---|---|
| `mode` | `h5000m_netmode.settings.mode` |
| `newer` | the live `gen` is above the worker's |
| `result` | the state file's `result` |
| `phase`, `fam` | the place in `switch_run` and the family it handles there |
| `cfgMode`, `prev`, `snap` | `cfg.mode`, `previous_group`, the `LiveSnapshot` |
| `failure`, `superseded`, `planWritten`, `committed` | the locals of the same names (`committed4`, `committed6`) |

One action is one stretch of `switch_run` between two places where the rest of the
system can show: a snapshot, a route write, a UCI write, a look at `gen`, a sleep.
`Promote` and `Demote` are the two netlink writes of `commit_family`, so everything
can happen between them.  The end of a successful switch is three stretches: `Settle`
(the snapshot after the settle window and the second verification), `Confirm` (the
closing probes, seconds each, one action per family) and `Report` (`applied_mode` and
the result).  `steady` is a history variable: nothing has changed in the network since
that verification.  `Start` covers a fresh worker process and the loop of the
same worker, which keeps the configuration it loaded.

The environment does what the program cannot prevent: a device goes away with its
routes, a section comes up with an address and with or without its route (at the
metric the plan gives it), a route is withdrawn, a newer request arrives, the worker
is killed.  Time is a choice to run out at any iteration of a wait; UCI writes fail
only where the code looks at the result (`policy_write_failed`), and then all of
them; the converge step reads the tables as they are, not the short-lived route
cache.

**The contract.**  `SwitchContract` has no routes: a switch prepares, may be
superseded until it decides, then moves its families, IPv4 first, and reports ok
when every required one has moved, or puts the policy back and reports the failure.
The mapping takes `committed` for the moved families, the plan write for the
decision, and the families the target's deployment requires for `required`.

### The reconciler

A pass is `Enter` (lock and snapshot), `TargetedHealth` for a hotplug pass, `Health`,
`KeepWarm`, `Decide`, and, when the exit has to move, the steps of `align_to`:
`Probe`, `Promote` and `Demote` per family, `Holes`, `Verify`, and after a failure
`Restore` and `Converge`; `End` writes the audit.  The watchdog runs one each
interval, a hotplug event one for its group, `align` a forced one and the
`reconcile` command an unforced one.  Passes exclude each other, since all of them
hold the writer lock.

`verdict`, `streak`, `healthAge` are the health file, `tryAge`, `cand`, `hits` the
alignment keys of the state file.  `misses` counts, per exit and family, the rounds
that probed it without an answer since the last one that had one; only the property
`PrimaryKept` reads it, so that a verdict "unknown" is not taken for a failed probe.  Time is counted in watchdog intervals; a time
stamp is represented by its age, which stops counting where the code's comparison no
longer tells ages apart, and can become negative when the clock is set back.
`sinceTry` is the true age, which only the property reads, and `unstamped` records that
the stamp was lost or that a clock set forward made it old.

The environment (`Disturbances`): a network change (device, address, route, or
whether an exit answers), a hotplug or align or reconcile pass, a health round of
another process or a switch that moved things between passes, a clock set back or
forward, the loss of the attempt's stamp to an unlocked rewrite of the state file, a
killed pass.

### The writer lock

One action per system call on the lock directory: mkdir, write of the pid, read
back, staleness check, unlink, rmdir.  A process may die after any of them.
Process ids are not reused, and the write of the pid file is one step (an empty
file reads as no owner, like a missing one).  `stolen` is a history variable: it
records that somebody removed a claim of a live process.

### Requests

`kv_write` is two steps, the read of the whole file and the rename of the changed
copy; reads of single keys are one step each.  The file keeps the keys that the
protocol reads back; the progress texts (`task_phase`, messages, audit fields) are
written with the same unlocked `kv_write`, and add no kind of loss that the modelled
writes do not have.  Processes do not crash here (the transaction and the lock have
the crashes).  A watchdog tick and an align worker hold the lock for one reconcile,
which moves the exits or finds nothing to do; `MaxAligns` bounds how often exits are
moved.

`mishap` records, when it happens, each way in which this protocol goes wrong: an
update lost by an unlocked write, a generation used twice, a request left to an
alignment, mode and generation read of two different requests, a configuration
that is no longer the one in force, a request adopted after the third run.
`LatestServed` and `NewestStays` are then claims of completeness: there is no
further way to lose a request.

### Hotplug notifications

One process per interface event; the interface belongs to one of the exits or to
neither (`Role`), and for one of neither nothing is probed and `health_force` is left
alone.  `Event` records the event and raises
`health_force`; the marker is a directory that is created, given a pid, judged,
and removed in separate steps, each of which other processes can see.  A pass is
reduced to what it has seen (`seen`, the events before its snapshot) and what it has
probed.  `unserved` and `unprobed` are history variables: the events that no pass has
read the live state after, and those whose exit no round has probed since.  The age
rule of `clear_stale_marker` is the choice `expired`, which can become true as soon
as the marker stands: the clock may jump, and a slow owner may outlast the limit.

### The caches

Contents are versions: a write of the configuration file, or a change of the exits,
makes the next one.  A foreign write soon after the last one and of the same length
may leave the stamp as it was.  The load is two steps (parse, then stamp), the
status command's cold path too (the backend's report, then the mark).  `confused` and
`torn` record the two races that the code cannot see.  The mark is the pair of `gen`
and the name of the applied mode, as in the code: a switch to the mode that is applied
already, which undoes a fail-over, ends with the mark it began with.  `requested` and
`settled` are the exits as the last request found them and as the last successful
switch left them; `reapplied` records that it went to the mode applied before.

## 3. What the runs check

| Run | Instance | Shows |
|---|---|---|
| `switch_transaction` | six deployments, every rest state, every target, one event anywhere, an unmanaged modem route at metric 30 | `NeverBlackholes`, `LiveExitUntouched`, `CommittedExit`, `OldExitKept`, `RollbackRestores`, `SupersededBeforeCommit`, the refinement `KeepsContract`, types |
| `switch_liveness` | strict dual-stack, one event, fair worker | `Terminates` |
| `reconcile` | four deployments, one with source-restricted routes, one event of any kind at any step | `NeverBlackholes`, `AttemptsSpaced`, `PrimaryKept`, `FailedAlignRestores`, `OtherExitKept`, types |
| `reconcile_liveness` | strict dual-stack, one killed pass or hotplug event, fair watchdog | `Recovers`, `FailsBack`, `Settles` |
| `request_queue` | three requests, modes or aligns, and the watchdog | `LatestServed`, `NewestStays`, `BusyMeansWriter`, types |
| `writer_lock` | three processes, one call each, one death | `ExclusiveUnlessStolen`, `CallEnds`, `DeadOwnerReclaimed`, types |
| `hotplug` | an event for each exit, or for one and for neither, the watchdog, another writer, one death, expiring markers | `CoalescedIsServed`, `OneRunPerBurst`, `EventServed`, `EventProbed`, types |
| `reader_caches` | two polls, one switch to the applied mode or another, one change from outside | `ConfigCurrent`, `SnapshotAfterSwitch`, `StatusFollows`, types |

Properties in words:

* `NeverBlackholes` (both writers): no step of the program empties a family's table
  that the target can carry.
* `LiveExitUntouched`: before the commit, no step changes the winning routes of a
  family that runs over a slot better than standby.
* `CommittedExit`: on ok, the plan puts the target into the active slot in each gating
  family; and if nothing has changed in the network since the verification after the
  settle window, each of them runs over the target alone and the other exit is below
  it, whatever happened before and during the window.
* `OldExitKept`: after ok, an old exit that had a route and an address still has a
  route in each family the target carries.
* `RollbackRestores`: after a failure, an old exit that carried both families and
  whose IPv4 route has a next hop carries again each one in which its route has one.
* `SupersededBeforeCommit`: a superseded switch committed nothing.
* `KeepsContract`: every step of the transaction is one of `SwitchContract` or
  invisible in it.
* `AttemptsSpaced`: alignments nobody asked for begin at least `switch_cooldown`
  apart, across restarts and clocks set back, unless the stamp was lost or a clock set
  forward made it old.
* `PrimaryKept`: a pass that finds both families on the primary exit moves them only
  when, in some family, `probe_fail_streak` health rounds probed it without an answer
  and no round has had one since; rounds that did not probe it do not count.
* `FailedAlignRestores`: a failed alignment puts back an exit that held every family
  with a route, if it has addresses and nothing interfered.
* `OtherExitKept`: a successful alignment leaves the exit it came from a route in each
  family the new one carries and the old one had a route and an address in.
* `Recovers`, `FailsBack`, `Settles`: the traffic of two dual-stack exits ends on the
  one that works, on the primary when that is healthy, and then stops moving.
* `ExclusiveUnlessStolen`: two holders need the removal of a live claim.
* `CallEnds`, `DeadOwnerReclaimed`: every lock call ends; a lone caller gets past
  whatever a dead process left.
* `LatestServed`: when all is quiet, the newest request is in force or its failure
  was recorded, unless a mishap was.  `NewestStays`: an overtaken worker never writes
  its plan over a newer one's.  `BusyMeansWriter`: a task shown in progress holds the
  lock.
* `CoalescedIsServed`, `OneRunPerBurst`: a coalesced event always has a run that is
  still to read the live state; a burst makes one run.  `EventServed`, `EventProbed`:
  in the end every event is seen, and its exit probed, if it is about one.
* `ConfigCurrent`: a load of the settings is not older than its own start.
  `SnapshotAfterSwitch`: nothing from before the last request is served, and nothing
  from before the last successful switch either if that changed the applied mode.
  `StatusFollows`: the page catches up.

### Where code and documentation disagree

Four runs expect a violation; each checks one sentence of a comment or document.

| Run | What happens |
|---|---|
| `two_lock_holders` | a claim is removed between mkdir and the write of its pid; both processes confirm |
| `exit_flaps` | with `strict_dual_stack=0`, failing IPv6 probes demote the primary and do not keep it from being taken back: the exit goes back and forth |
| `no_failover_without_ipv6` | a family without any default route stops the reconciler, so IPv4-only exits are never failed over |
| `split_not_repaired` | the repair of a split aims at a primary it has not probed, is aborted by the probe, and aims at it again |

The three reconciler runs have fair watchdogs and their counterexamples are cycles of
complete passes, not a program that stops.

### Bounds, and why they are enough

* `switch_transaction`: one switch, one event.  The properties speak of one switch
  from its start state; the start states are all rest states (either exit active,
  each family's routes present or not, each address present or not) that one
  earlier switch or netifd can leave, under the policy `wan_first`.  The policy in
  force decides only between a switch and a no-op and what a rollback writes back;
  which exit holds the routes is free of it.  The deployments: loose dual-stack; strict
  dual-stack with a source-restricted IPv6 default on the wired exit; a loose
  single-stack modem with and without such a default on the other exit; a strict modem
  whose route has no next hop in one family.  `WaitLimit` 1 and `NoAddrCap` 0 tell an
  iteration from none and the two caps from each other; the bodies of further
  iterations are the same, but for the third, which reads the live state again after
  its `ifup` (`IfupAt`) and writes no route.
* `switch_liveness`: `WaitLimit` is 3, so that the third iteration happens.  Liveness needs no variety of deployments, since the control
  structure is the same; strict is the one with the longer waits.
* `reconcile`: `Cooldown`, `HealthInterval`, `ProbeFailStreak` and `AlignConfirm` are
  2, the least at which "not yet" and "now" differ and a first and a further round
  are distinct.  Behaviours are not bounded in length: the watchdog ticks for ever,
  and the ages saturate.  One event is enough for each property, because every rest
  state, with every combination of what the exits answer, is a start state; the event
  is what happens in the middle of a pass.
* `reconcile_liveness`: the event is restricted to crashes and hotplug passes, after
  which the network stays as it is; the properties begin with `<>[]`, so an earlier
  change of the network only moves the start.
* `AnswerSets` leaves out an exit that reaches out over IPv6 alone: `GroupComplete`
  always asks for IPv4, so such an exit counts like one that does not answer.
* `writer_lock`: the code's limits of 3 stale removals and 8 lost claims are 1 and
  1 here.  They only bound retries, and an iteration does not depend on how many
  are left.  `two_lock_holders` keeps 3 and 8.  Three processes are the least that
  can remove, claim and confirm at once.
* `request_queue`: three requests are an old worker, a newer one and a third that
  arrives between them; two modes besides the one in force make old and new differ.
  `LockRounds` is 1; a further round repeats the same two actions.  The constraint
  counts an automatic alignment as one of the three.  The requests are
  interchangeable, so symmetry is sound; no liveness is checked under it.
  `MishapFree` stops at the first mishap: it stays recorded, and the properties speak
  of behaviours without one.
* `hotplug`: two events for different exits are the least at which coalescing can
  lose one and a round of one exit can consume the other's request; an event of neither
  exit can be coalesced with one that needs a probe.
* `reader_caches`: the switch and the change from outside can fall before, between
  and after every two steps of a load and of two polls.
* `CHECK_DEADLOCK FALSE` only where the system is meant to come to rest (switch,
  requests, lock).  The reconciler, the hotplug model and the caches run for ever, and
  the runs check that they never block.

### Fairness

`switch_liveness` assumes that the worker process keeps running unless it is
killed: the code of a switch is straight-line code of one process, each step of
which is enabled until it is taken.  `writer_lock` assumes that each process that
is inside the lock's code or the critical section runs on.  The reconciler's runs
assume that procd keeps the watchdog running: it wakes every interval, and a pass that
has begun goes on.  `hotplug` assumes the same of its processes and of the watchdog,
that an interval ends, and that another writer releases the lock (which
`switch_liveness` shows of a switch).  `reader_caches` assumes that the page keeps
polling, that time passes, and that a worker ends.  No run assumes that a request is
made, an event happens, an exit answers or a process dies.

## 4. What is proved

All theorems hold for every value of the constants that the module's named
assumption admits; the assumptions only say what kind of values the constants are.

**`SwitchTransactionProofs`**, for every deployment, set of unmanaged routes, wait
limit and number of switches and events: `TypeCorrect`, `SupersededSafe`,
`NoBlackhole`, `LiveExitSafe`, `CommitMeansTarget` (the properties `TypeOK`,
`SupersededBeforeCommit`, `NeverBlackholes`, `LiveExitUntouched`, `CommittedExit`).
They rest on `Inductive`, the invariant `IInv`: the types, `DemotesOldExit` (the
demote step is only reached with an old exit that is not the target),
`NothingWritten` (until the last gate nothing is committed and no plan is written)
and `Unreported` (while a switch runs, no earlier report stands).  `TypeOK` alone is
not enough for any of them: that a superseded switch wrote nothing needs to know
where it stood.  `NoBlackhole` goes through the operators that write routes, one
lemma each: each puts a route in before it takes one out; parking is the one step that
only deletes, and it deletes in families the target cannot carry.  `CommitMeansTarget`
adds two invariants: `PlanInForce` (from the plan write to the report the target's
sections hold the active metric) and `TargetCarries` (in the closing probes and at the
report, if nothing has changed since the verification, the target owns every gating
family with the other exit below), for which it shows that the checks of
`verify_commit`, the excuses of a lenient configuration included, are enough.

`OldExitKeptSafe` and `RollbackRestoresSafe` compare the end of a switch with the
tables it started from, across everything in between.  Neither property is inductive,
and `ExitInv` is the chain that leads there; each link speaks of a quiet network:

* `Consistent`: routes belong to exits that can carry the family, also in the
  snapshots; every next hop is remembered; an address needs a device.
* `CommitOrder`: IPv4 is committed before IPv6, and nothing is parked before a commit.
* `Preparing`: until the commit a table, in the kernel or in the snapshot in hand, is
  the one at the start, or that one with the target warmed in a family where it had
  no route.
* `OldExitStays`: from the commit on, the old exit has a route in each family the
  target carries, except between the two writes of that family's commit.
* `Untouched`: until the rollback reaches a family the old exit held, that exit can
  reclaim it, and still owns it where nothing was committed.
* `Restoring`: where the rollback has been, the old exit owns the family again, and
  the convergence goes onto no other exit.

The idea that carries the last two is `Reclaimable(table, g)` (`NetworkProofs`):
either `g` has a route better than the active slot and than everybody else's, or
nothing is better than the active slot and that holds one route at most; in both
cases a write of `g` into the active slot makes `g` the owner.  The sole owner of
a family can reclaim it (`OwnedReclaimable`), no write of either writer takes that
away (`WriteKeepsReclaimable`, `CommitKeepsReclaimable`), and a commit that is not
refused cashes it in (`ClaimOwns`, `CommitReclaims`).  It is what makes the theorems
hold with unmanaged routes at any metric, where "the old exit's route is the best one"
would not be preserved.

**`SwitchContractProofs`**: `ContractKept`, the refinement, `Spec => KeepsContract`.
Initial states map to initial states, every step of the worker or the environment to a
step of the contract or a stutter.  Its invariant relates the phase to `committed`,
`planWritten` and the mode in force.

**`ReconcileProofs`**, for every cooldown, streak length, confirmation count,
deployment and number of events: `ReconcileTypeSafe`; `AlignmentsSpaced`, from the
invariant that `tryAge`, unless the stamp was lost or made old, never exceeds the true
age as far as it is counted; `ReconcileNeverBlackholes`, from the route lemmas of
`NetworkProofs`; `PrimaryIsKept`, from the invariant that a streak of the health file,
which decides, is never above the count of rounds that really probed without an
answer (`StreakCounts`).

`FailedAlignRestoresSafe` and `OtherExitKeptSafe` compare the end of an alignment with
the snapshot its pass began with.  Their invariant is `AlignInv`, again for a quiet
network: `Consistent`, as above; `SnapCurrent`, the snapshot's addresses are the live
ones, so that no write for the other exit is refused; `DestCarried`, the destination
had an IPv4 route, because every decision that starts an alignment asks for a complete
exit (`DecideComplete`); `Reclaims`, whoever owned a family alone can reclaim it,
whatever the pass has written since; and `Restored`, the families the restore has been
through are the other exit's again, and the convergence goes onto it.  `OtherStays`
adds that an exit with a route at the start of the pass still has one, except between
the promotion and the demotion of a family.

**`RequestQueueProofs`**, for any number of requests and any limits: `QueueTypeSafe`,
`BusyMeansWriterSafe`, `NewestSafe`, `LatestServedSafe`.  The invariant has five
parts: the types; what the locals of a process are, by where it is (`Control`); who
holds the lock, by where everybody is (`Holders`); and, as long as no mishap was recorded, that the file names
a process in the middle of its task (`Published`) and that no generation in use is
above the file's (`Generations`).  The last two rest on `RenameClean`: a write that
records no mishap changes the keys it names and no others, although it puts back a
whole copy.  `LatestServedSafe` adds five facts that hold as long as no mishap was
recorded: the file names the newest request (`Asked`); a process at the newest
generation runs for it (`Current`); a switch past its outcome was carried out or its
failure recorded (`InForce`); the recorded mode is the policy in force except while a
switch changes it (`AppliedInForce`); and until the newest request is served, some
process that is not finished is responsible for it (`Answered`), which is what is
missing when everything is quiet and nothing was served.

**`WriterLockProofs`**: `ExclusiveSafe`, from `ClaimInv` (unless a claim was stolen, a
process past its mkdir owns the directory alone), and `CallsBounded`, that no call
exceeds its wait, its stale removals or its lost claims, for any number of processes.

**`HotplugNotifyProofs`**, for any number of events: `NotifyTypeSafe`;
`CoalescingSafe`, from the invariant that a marker stands only for a run that is
still to come; `BurstSafe`.

**`ReaderCachesProofs`**, for any number of polls, switches and changes:
`CacheTypeSafe`; `ConfigCurrentSafe`, from the invariant that, while nothing was
confused, a document under the file's own stamp is the file; `SnapshotSafe`, from two facts:
a request makes a mark that nothing bears yet (`NotAhead`), and a switch that changes
the applied mode ends with yet another one; so an untorn snapshot that bears the
present mark was collected after the request, and after the switch (`Fresh`).

`NetworkProofs` holds the lemmas about route writes and predicates that the two
writers share: what a write adds and takes, whose a family is before and after it,
that it empties no table, that it fits the deployment.

Every invariant and every step property that a run checks is stated by a theorem.

**Only model-checked**: liveness (`Terminates`, `Recovers`, `FailsBack`, `Settles`, `CallEnds`,
`DeadOwnerReclaimed`, `EventServed`, `EventProbed`, `StatusFollows`): liveness under
fairness is out of the prover's reach.

## 5. Behaviours to know

The properties have preconditions; behind each stands a behaviour of the code that a
reader may not expect.  None of them is checked as a violation.

Switch:

* Warming replaces the standby slot also when a family's only, live route sits at
  metric 50 (`transaction.rs:112-140`, also `maintain_warm_routes`);
  `LiveExitUntouched` speaks of slots above standby.
* A previous exit whose default route has no next hop is not restored by a rollback;
  `RollbackRestores` asks for `conf.gateway`.  If only its IPv4 route lacks one, IPv6
  is lost as well: the rollback restores IPv6 and skips IPv4, and
  `post_failure_converge` then commits IPv6 onto the exit IPv4 stayed on, the failed
  target (`transaction.rs:442`, `:660`), although `README.md:161`
  promises both families back.
* The result of a demotion is ignored (`transaction.rs:384`).  An old exit that has a
  route but no address may have it refused; after the promotion has overwritten its
  route it then has none.  `OldExitKept` and `OtherExitKept` ask for an address.
* The promotion takes the place of one route in the active slot and the demotion takes
  the standby slot.  Where no route of a family was better than standby, warming the
  target can have overwritten the old exit's, so both properties ask for one above it.
* After a failed switch the families can stay on different exits, when one of them has
  no route to restore; a later pass of the reconciler has to bring them together.
* With `strict_dual_stack=1` a target without an IPv6 section fails at its IPv6
  commit.
* A worker that loops compares every further request with the mode it loaded at first
  (`cfg.mode`), and a rollback writes that mode back: the mishap `stale_config`.
* A request made while the watchdog aligns is answered busy, and nobody runs it: the
  mishap `align_queued`.
* The closing probes take seconds, and the tables are not read again after them: a
  route change that falls into them is not noticed before ok is reported (`steady`).

Reconciler:

* Under `strict_dual_stack=1` a failover onto an exit without IPv6 is always rolled
  back: the verification uses the snapshot from before the commit
  (`reconcile.rs:181`), in which the parked family still shows the old exit.
* A failed alignment puts the other exit back in both families whether it answers or
  not (`reconcile.rs:206`).
* A round for one exit (`refresh_health_targeted`) writes the other exit's verdicts as
  unknown and starts the throttle again, although `health/mod.rs:49-53` speaks of a
  round of its own.  Streaks keep their values through an unknown verdict, and the
  decision asks the streaks, so `PrimaryKept` holds.
* The stamp of an alignment lives in the state file, which `set` and the hotplug
  handler rewrite as a whole without the lock: it can be lost, and the next alignment
  then does not wait for `switch_cooldown`.  A clock set forward has the same effect.
* The hits of an align candidate survive passes that find no exit or a split.
* Warming one family of an idle exit can create a split, if the other family's route
  is gone.

Notifications and caches:

* Between its creation and the write of its pid the marker reads as dead and can be
  removed (`reaped`); the owner later removes whoever's marker stands.  Coalescing
  survives both.
* The targeted round of one exit resets a `health_force` that an event of the other
  exit raised; the next round due by the interval makes up for it (`EventProbed`).
* The watchdog loads its settings before it waits for the lock (`rpc.rs:472`), so a
  switch that commits meanwhile is evaluated with the old policy for one tick.
* A parsed configuration is stamped after it was read (`uci.rs:102`), and a report of
  the status command is marked after it was collected (`h5000m-netmode-status.rs:125`):
  a change between the two is served until the next one (`confused`, `torn`).
* The status mark names the mode and not the switch.  A switch to the mode that is
  applied already, which undoes a fail-over, ends with the mark it began with: a
  snapshot collected in its midst is served after it until `status_cache` seconds are
  over (`reapplied`).
* While a worker runs, a snapshot is served at any age.

## 6. Not modelled

* The first-install `apply`, which runs a reconcile pass without the lock, once, from
  the package's install script.  The unlocked `health` command is an event of the
  reconciler's environment; that its write of the health file may overwrite a pass's
  is not represented.
* `health_check=0`, under which nothing is probed (`EventProbed` is a statement about
  `health_check=1`), and the layered health score, which is reported and never decides.
* Lost updates of the state file outside the request protocol, except for the stamp of
  an alignment: a remembered next hop or the align candidate can be lost the same way.
* The health round after a switch's report, in `SwitchTransaction`; for the reconciler
  it is the round of another process.
* The UCI parser and the clamps of `AppConfig`, the JSON of the status report:
  formatting.
* Probe packets and sockets, process spawning, clocks, logging, sysfs reads: pure
  I/O; a probe is its outcome.
* The switch budget, a wall-clock deadline: waits may run out at any iteration in the
  model, which covers every value of it.  (A budget that has run out during the
  worker's final reconcile limits probes to one attempt, which the free choice of a
  probe's answer covers.)
* Process ids are not reused; the kernel's and netifd's own decisions are events.
* The LuCI page (presentation), mocks and build scripts.
