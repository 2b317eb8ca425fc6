---------------------------- MODULE RequestQueue ----------------------------
(***************************************************************************)
(* How requests reach the switch.  "set" writes a higher gen and the mode  *)
(* asked for to the state file, and starts a worker unless a task is in    *)
(* progress; the worker takes the writer lock, runs up to LoopLimit        *)
(* switches, each for the newest request it has seen, reconciles, and      *)
(* releases the lock.  "align" and the watchdog move exits under the same  *)
(* lock.                                                                   *)
(*                                                                         *)
(* The state file is shared without a lock: kv_write reads all of it, puts *)
(* its own keys in and renames the result into place, in two steps here.   *)
(* The switch is reduced to its gate, its plan write and its outcome       *)
(* (SwitchTransaction has the rest), the lock to mutual exclusion          *)
(* (WriterLock has the rest).                                              *)
(***************************************************************************)
EXTENDS NetmodeTypes, FiniteSets

CONSTANTS
    Request,       \* processes that run set or align
    Asks,          \* what they ask for: modes, or "align"
    InitMode,      \* the policy in force at first
    LoopLimit,     \* switches one worker runs: 3
    LockRounds,    \* SWITCH_LOCK_RETRY_ROUNDS: 3
    MaxAligns,     \* bound: automatic alignments
    Watch          \* the watchdog process

ASSUME QueueAssumption ==
    /\ Asks \subseteq Mode \cup {"align"}
    /\ InitMode \in Mode
    /\ LoopLimit \in Nat \ {0}
    /\ LockRounds \in Nat \ {0}
    /\ MaxAligns \in Nat
    /\ Watch \notin Request
    /\ "none" \notin Request \cup {Watch}

Proc == Request \cup {Watch}

VARIABLES
    file,      \* the state file
    lock,      \* the holder of the writer lock, or "none"
    mode,      \* the policy in force: h5000m_netmode.settings.mode
    pc,        \* where each process is
    ask,       \* what each request asks for
    buf,       \* the copy of the state file a kv_write has read
    gen,       \* the generation a process runs for
    task,      \* the mode a worker applies
    cfg,       \* cfg.mode as the worker loaded it when it started
    out,       \* how its current switch ended
    pending,   \* requested_mode as the worker read it after a switch
    rounds, loops, aligns,   \* rounds and switches of a worker; bound
    latest,    \* history: the process whose request was written last
    failed,    \* history: modes whose switch failed since
    before,    \* history: the policy in force when the plan was written
    newest,    \* history: the highest generation whose plan was written
    mishap     \* history: what went wrong with the protocol

locals  == <<gen, task, cfg, out, pending, rounds, loops>>
history == <<latest, failed, before, newest>>
vars    == <<file, lock, mode, pc, ask, buf, locals, aligns, history, mishap>>

Keys == {"gen", "requested", "applied", "state", "pid"}

Mishap == {"lost_update",    \* a kv_write dropped a change made since it read
           "gen_reused",     \* a request's gen is not above the live one
           "align_queued",   \* a request was left to a task that is no switch
           "torn_read",      \* mode and gen of two requests were mixed
           "stale_config",   \* a mode was taken for the one in force
           "loop_exhausted"} \* a newer request, and no switch left for it

PC == {"ask", "set_read", "set_write", "check", "lock", "defer", "busy_read",
       "busy_write", "take", "begin_read", "begin_write", "gate", "switching",
       "applied_read", "applied_write", "finish_read", "finish_write",
       "pending", "newer", "reconcile", "align_lock", "align_read",
       "align_write", "aligned_read", "aligned_write", "exit", "done"}

Aligning == {"align_write", "aligned_read", "aligned_write"}

-----------------------------------------------------------------------------
(***************************************************************************)
(* The state file                                                          *)
(***************************************************************************)
EmptyFile == [gen |-> 0, requested |-> "none", applied |-> "none",
              state |-> "ended", pid |-> "none"]

GoTo(p, where) == pc' = [pc EXCEPT ![p] = where]

\* The process ends, and its memory with it.
Quit(p) ==
    /\ GoTo(p, "done")
    /\ gen' = [gen EXCEPT ![p] = 0]
    /\ task' = [task EXCEPT ![p] = "none"]
    /\ cfg' = [cfg EXCEPT ![p] = InitMode]
    /\ out' = [out EXCEPT ![p] = "none"]
    /\ pending' = [pending EXCEPT ![p] = "none"]
    /\ rounds' = [rounds EXCEPT ![p] = 0]
    /\ loops' = [loops EXCEPT ![p] = 0]

\* kv_write, first half: everything is read.
Read(p, from, where) ==
    /\ pc[p] = from
    /\ buf' = [buf EXCEPT ![p] = file]
    /\ GoTo(p, where)
    /\ UNCHANGED <<file, lock, mode, ask, locals, aligns, history, mishap>>

\* Changes made since the read, to keys the write does not name.
Overwrites(p, pairs) ==
    {k \in Keys \ DOMAIN pairs : file[k] # buf[p][k]}

\* kv_write, second half: the copy, with the pairs put in, replaces the file.
Rename(p, pairs, also) ==
    /\ buf' = [buf EXCEPT ![p] = EmptyFile]
    /\ file' = [k \in Keys |-> IF k \in DOMAIN pairs THEN pairs[k] ELSE buf[p][k]]
    /\ mishap' = mishap \cup also
                   \cup (IF Overwrites(p, pairs) # {} THEN {"lost_update"} ELSE {})

Alive(p) == pc[p] # "done"

\* switch_in_progress: a task that has not ended, of a process that lives.
InProgress == file.state = "running" /\ file.pid \in Proc /\ Alive(file.pid)

\* The task in progress is an alignment, which looks at no newer request.
LeftToAlign ==
    IF InProgress /\ pc[file.pid] \in Aligning THEN {"align_queued"} ELSE {}

-----------------------------------------------------------------------------
(***************************************************************************)
(* set and align                                                           *)
(***************************************************************************)

\* gen is read, to be written one higher.
Ask(p) ==
    /\ pc[p] = "ask"
    /\ p \in Request
    /\ \E a \in Asks : ask' = [ask EXCEPT ![p] = a]
    /\ gen' = [gen EXCEPT ![p] = file.gen + 1]
    /\ GoTo(p, "set_read")
    /\ UNCHANGED <<file, lock, mode, buf, task, cfg, out, pending, rounds, loops,
                   aligns, history, mishap>>

\* The request is written: its gen, and a mode if it asks for one.
SetWrite(p) ==
    /\ pc[p] = "set_write"
    /\ LET reused == IF gen[p] <= file.gen THEN {"gen_reused"} ELSE {} IN
       IF ask[p] = "align"
       THEN /\ Rename(p, [gen |-> gen[p]], reused)
            /\ UNCHANGED <<latest, failed>>
       ELSE /\ Rename(p, [gen |-> gen[p], requested |-> ask[p]], reused)
            /\ latest' = p
            /\ failed' = {}
    /\ GoTo(p, "check")
    /\ UNCHANGED <<lock, mode, ask, locals, aligns, before, newest>>

\* A task in progress is trusted to pick the request up; otherwise a worker
\* process is started, which loads the configuration.
Check(p) ==
    /\ pc[p] = "check"
    /\ \/ /\ InProgress
          /\ Quit(p)
          /\ mishap' = mishap \cup LeftToAlign
       \/ /\ ~InProgress
          /\ GoTo(p, IF ask[p] = "align" THEN "align_lock" ELSE "lock")
          /\ task' = [task EXCEPT ![p] = ask[p]]
          /\ cfg' = [cfg EXCEPT ![p] = mode]
          /\ UNCHANGED <<gen, out, pending, rounds, loops, mishap>>
    /\ UNCHANGED <<file, lock, mode, ask, buf, aligns, history>>

-----------------------------------------------------------------------------
(***************************************************************************)
(* The worker                                                              *)
(***************************************************************************)

\* One bounded call of acquire_lock.
Lock(p) ==
    /\ pc[p] = "lock"
    /\ \/ lock = "none" /\ lock' = p /\ GoTo(p, "take") /\ UNCHANGED rounds
       \/ /\ lock # "none" /\ UNCHANGED lock
          /\ rounds' = [rounds EXCEPT ![p] = @ + 1]
          /\ GoTo(p, "defer")
    /\ UNCHANGED <<file, mode, ask, buf, gen, task, cfg, out, pending, loops,
                   aligns, history, mishap>>

\* Mutant of Defer: one round more than SWITCH_LOCK_RETRY_ROUNDS.
DeferOnceMore(p) ==
    /\ pc[p] = "defer"
    /\ \/ /\ InProgress
          /\ Quit(p)
          /\ mishap' = mishap \cup LeftToAlign
       \/ /\ ~InProgress
          /\ GoTo(p, IF rounds[p] <= LockRounds THEN "lock" ELSE "busy_read")
          /\ UNCHANGED <<locals, mishap>>
    /\ UNCHANGED <<file, lock, mode, ask, buf, aligns, history>>

\* The lock was busy: with a task, which is trusted with the request; or with
\* another writer, which is waited for again.
Defer(p) ==
    /\ pc[p] = "defer"
    /\ \/ /\ InProgress
          /\ Quit(p)
          /\ mishap' = mishap \cup LeftToAlign
       \/ /\ ~InProgress
          /\ GoTo(p, IF rounds[p] < LockRounds THEN "lock" ELSE "busy_read")
          /\ UNCHANGED <<locals, mishap>>
    /\ UNCHANGED <<file, lock, mode, ask, buf, aligns, history>>

\* The request is dropped and reported, under the worker's own gen.
LockBusy(p) ==
    /\ pc[p] = "busy_write"
    /\ Rename(p, [gen |-> gen[p], state |-> "ended", pid |-> "none"],
              IF gen[p] < file.gen THEN {"gen_reused"} ELSE {})
    /\ failed' = failed \cup {task[p]}
    /\ Quit(p)
    /\ UNCHANGED <<lock, mode, ask, aligns, latest, before, newest>>

\* switch_run decides whether the mode already governs: by the mode loaded
\* when the worker started, and by the exit that holds the routes now, which
\* is up to the network as well.
Take(p) ==
    /\ pc[p] = "take"
    /\ loops' = [loops EXCEPT ![p] = @ + 1]
    /\ \/ /\ cfg[p] = task[p]
          /\ out' = [out EXCEPT ![p] = "ok"]
          /\ mishap' = mishap \cup (IF mode # task[p] THEN {"stale_config"} ELSE {})
       \/ out' = [out EXCEPT ![p] = "none"] /\ UNCHANGED mishap
    /\ GoTo(p, "begin_read")
    /\ UNCHANGED <<file, lock, mode, ask, buf, gen, task, cfg, pending, rounds,
                   aligns, history>>

\* task_begin.
Begin(p) ==
    /\ pc[p] = "begin_write"
    /\ Rename(p, [state |-> "running", pid |-> p], {})
    /\ GoTo(p, IF out[p] = "ok" THEN "applied_read" ELSE "gate")
    /\ UNCHANGED <<lock, mode, ask, locals, aligns, history>>

\* Mutant of Superseded: the generations are not compared.
SupersededNever(p) == FALSE

\* superseded: a higher gen, and a mode was ever asked for.
Superseded(p) == file.gen > gen[p] /\ file.requested \in Mode

\* Up to the last gate the switch can fail (also after it was superseded, on
\* the gateway) or be superseded; past it, the plan is written.
Gate(p) ==
    /\ pc[p] = "gate"
    /\ \/ /\ ~Superseded(p)
          /\ mode' = task[p]
          /\ before' = mode
          /\ newest' = IF gen[p] > newest THEN gen[p] ELSE newest
          /\ GoTo(p, "switching")
          /\ UNCHANGED <<out, failed>>
       \/ /\ Superseded(p)
          /\ out' = [out EXCEPT ![p] = "superseded"]
          /\ GoTo(p, "finish_read")
          /\ UNCHANGED <<mode, before, newest, failed>>
       \/ /\ out' = [out EXCEPT ![p] = "failed"]
          /\ failed' = failed \cup {task[p]}
          /\ GoTo(p, "finish_read")
          /\ UNCHANGED <<mode, before, newest>>
    /\ UNCHANGED <<file, lock, ask, buf, gen, task, cfg, pending, rounds, loops,
                   aligns, latest, mishap>>

\* The commit ends well, or the rollback writes back the mode of the worker's
\* configuration.
Outcome(p) ==
    /\ pc[p] = "switching"
    /\ \/ /\ out' = [out EXCEPT ![p] = "ok"]
          /\ GoTo(p, "applied_read")
          /\ UNCHANGED <<mode, failed, mishap>>
       \/ /\ out' = [out EXCEPT ![p] = "failed"]
          /\ mode' = cfg[p]
          /\ failed' = failed \cup {task[p]}
          /\ mishap' = mishap \cup (IF cfg[p] # before THEN {"stale_config"} ELSE {})
          /\ GoTo(p, "finish_read")
    /\ before' = InitMode
    /\ UNCHANGED <<file, lock, ask, buf, gen, task, cfg, pending, rounds, loops,
                   aligns, latest, newest>>

\* applied_mode is written by a switch that ends well.
Applied(p) ==
    /\ pc[p] = "applied_write"
    /\ Rename(p, [applied |-> task[p]], {})
    /\ GoTo(p, "finish_read")
    /\ UNCHANGED <<lock, mode, ask, locals, aligns, history>>

\* Mutant of Finish: the task is not reported ended.
FinishSilent(p) ==
    /\ pc[p] = "finish_write"
    /\ Rename(p, [applied |-> file.applied], {})
    /\ GoTo(p, "pending")
    /\ UNCHANGED <<lock, mode, ask, locals, aligns, history>>

\* task_finish.
Finish(p) ==
    /\ pc[p] = "finish_write"
    /\ Rename(p, [state |-> "ended", pid |-> "none"], {})
    /\ GoTo(p, "pending")
    /\ UNCHANGED <<lock, mode, ask, locals, aligns, history>>

\* After a switch the worker looks for a newer request: the mode first ...
Pending(p) ==
    /\ pc[p] = "pending"
    /\ pending' = [pending EXCEPT ![p] = file.requested]
    /\ GoTo(p, "newer")
    /\ UNCHANGED <<file, lock, mode, ask, buf, gen, task, cfg, out, rounds, loops,
                   aligns, history, mishap>>

\* Mutant of Newer: only a generation two above the worker's counts.
NewerOffByOne(p) == /\ file.gen > gen[p] + 1
                    /\ pending[p] \in Mode
                    /\ pending[p] # file.applied

Newer(p) == /\ file.gen > gen[p]
            /\ pending[p] \in Mode
            /\ pending[p] # file.applied

Adopt(p) ==
    /\ task' = [task EXCEPT ![p] = pending[p]]
    /\ gen' = [gen EXCEPT ![p] = file.gen]

\* ... then applied_mode and gen; a newer one is taken up, if any run is left.
NextRequest(p) ==
    /\ pc[p] = "newer"
    /\ \/ /\ Newer(p)
          /\ Adopt(p)
          /\ GoTo(p, IF loops[p] < LoopLimit THEN "take" ELSE "reconcile")
          /\ mishap' = mishap
                \cup (IF loops[p] < LoopLimit THEN {} ELSE {"loop_exhausted"})
                \cup (IF pending[p] # file.requested THEN {"torn_read"} ELSE {})
       \/ /\ ~Newer(p)
          /\ GoTo(p, "reconcile")
          /\ UNCHANGED <<task, gen, mishap>>
    /\ UNCHANGED <<file, lock, mode, ask, buf, cfg, out, pending, rounds, loops,
                   aligns, history>>

\* The watchdog goes on; any other process ends.
Leave(p) == GoTo(p, IF p = Watch THEN "ask" ELSE "exit")

\* reconcile_body may align the exits with the policy; either way the lock is
\* released after it.
Reconcile(p) ==
    /\ pc[p] = "reconcile"
    /\ \/ Leave(p) /\ lock' = "none" /\ UNCHANGED aligns
       \/ /\ aligns < MaxAligns /\ aligns' = aligns + 1
          /\ GoTo(p, "align_read")
          /\ UNCHANGED lock
    /\ UNCHANGED <<file, mode, ask, buf, locals, history, mishap>>

\* The process has released the lock; then it is gone.
Exit(p) ==
    /\ pc[p] = "exit"
    /\ Quit(p)
    /\ UNCHANGED <<file, lock, mode, ask, buf, aligns, history, mishap>>

-----------------------------------------------------------------------------
(***************************************************************************)
(* Alignments                                                              *)
(***************************************************************************)

\* The watchdog, with a second's wait for the lock; a busy lock is left alone.
WatchTick ==
    /\ pc[Watch] = "ask"
    /\ lock = "none"
    /\ lock' = Watch
    /\ GoTo(Watch, "reconcile")
    /\ UNCHANGED <<file, mode, ask, buf, locals, aligns, history, mishap>>

\* cmd_align_worker: one bounded call of acquire_lock.
AlignLock(p) ==
    /\ pc[p] = "align_lock"
    /\ \/ lock = "none" /\ lock' = p /\ GoTo(p, "reconcile") /\ UNCHANGED locals
       \/ lock # "none" /\ UNCHANGED lock /\ Quit(p)
    /\ UNCHANGED <<file, mode, ask, buf, aligns, history, mishap>>

\* align_to reports itself like a switch.
AlignBegin(p) ==
    /\ pc[p] = "align_write"
    /\ Rename(p, [state |-> "running", pid |-> p], {})
    /\ GoTo(p, "aligned_read")
    /\ UNCHANGED <<lock, mode, ask, locals, aligns, history>>

AlignEnd(p) ==
    /\ pc[p] = "aligned_write"
    /\ Rename(p, [state |-> "ended", pid |-> "none"], {})
    /\ lock' = "none"
    /\ Leave(p)
    /\ UNCHANGED <<mode, ask, locals, aligns, history>>

-----------------------------------------------------------------------------

ReadStep(p) ==
    \/ Read(p, "set_read", "set_write")
    \/ Read(p, "busy_read", "busy_write")
    \/ Read(p, "begin_read", "begin_write")
    \/ Read(p, "applied_read", "applied_write")
    \/ Read(p, "finish_read", "finish_write")
    \/ Read(p, "align_read", "align_write")
    \/ Read(p, "aligned_read", "aligned_write")

Step(p) ==
    \/ ReadStep(p)
    \/ Ask(p) \/ SetWrite(p) \/ Check(p)
    \/ Lock(p) \/ Defer(p) \/ LockBusy(p)
    \/ Take(p) \/ Begin(p) \/ Gate(p) \/ Outcome(p) \/ Applied(p) \/ Finish(p)
    \/ Pending(p) \/ NextRequest(p) \/ Reconcile(p) \/ Exit(p)
    \/ AlignLock(p) \/ AlignBegin(p) \/ AlignEnd(p)

Init ==
    /\ file = EmptyFile
    /\ lock = "none"
    /\ mode = InitMode
    /\ pc = [p \in Proc |-> "ask"]
    /\ ask = [p \in Proc |-> "none"]
    /\ buf = [p \in Proc |-> EmptyFile]
    /\ gen = [p \in Proc |-> 0]
    /\ task = [p \in Proc |-> "none"]
    /\ cfg = [p \in Proc |-> InitMode]
    /\ out = [p \in Proc |-> "none"]
    /\ pending = [p \in Proc |-> "none"]
    /\ rounds = [p \in Proc |-> 0] /\ loops = [p \in Proc |-> 0]
    /\ aligns = 0
    /\ latest = Watch /\ failed = {} /\ before = InitMode /\ newest = 0
    /\ mishap = {}

Next == WatchTick \/ \E p \in Proc : Step(p)

Spec == Init /\ [][Next]_vars

-----------------------------------------------------------------------------
(***************************************************************************)
(* Properties                                                              *)
(***************************************************************************)
File == [gen : Nat, requested : Mode \cup {"none"}, applied : Mode \cup {"none"},
         state : {"running", "ended"}, pid : Proc \cup {"none"}]

\* Every variable stays within its type, and no worker exceeds its bounds.
TypeOK ==
    /\ file \in File
    /\ lock \in Proc \cup {"none"}
    /\ mode \in Mode
    /\ pc \in [Proc -> PC]
    /\ ask \in [Proc -> Asks \cup {"none"}]
    /\ buf \in [Proc -> File]
    /\ gen \in [Proc -> Nat]
    /\ task \in [Proc -> Mode \cup {"align", "none"}]
    /\ cfg \in [Proc -> Mode]
    /\ out \in [Proc -> {"none", "ok", "failed", "superseded"}]
    /\ pending \in [Proc -> Mode \cup {"none"}]
    /\ rounds \in [Proc -> 0..LockRounds]
    /\ loops \in [Proc -> 0..LoopLimit]
    /\ aligns \in 0..MaxAligns
    /\ latest \in Proc /\ failed \subseteq Mode
    /\ before \in Mode /\ newest \in Nat
    /\ mishap \subseteq Mishap

Quiet == lock = "none" /\ \A p \in Request : pc[p] \in {"ask", "done"}

\* The last request is in force, or a switch to its mode failed since.
Served == latest \in Request => mode = ask[latest] \/ ask[latest] \in failed

\* When nothing runs any more, the newest request was served, however requests,
\* workers and alignments overlapped: nothing but one of the named mishaps
\* loses a request.
LatestServed == Quiet /\ mishap = {} => Served

\* A worker that was overtaken never writes the plan of an older request over
\* a newer one's.
NewestStays ==
    [][\A p \in Proc :
          pc[p] = "gate" /\ pc'[p] = "switching"
          => gen[p] >= newest \/ mishap # {}]_vars

\* A request is only ever left to a process that holds the lock: what the
\* state file shows in progress is.
BusyMeansWriter ==
    InProgress /\ mishap = {} => lock = file.pid
=============================================================================
