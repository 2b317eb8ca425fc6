----------------------------- MODULE WriterLock -----------------------------
(***************************************************************************)
(* The writer lock: a directory whose creation is the claim and whose file *)
(* "pid" names the owner.  Every writer of routes and configuration takes  *)
(* it (switch workers, aligns, hotplug passes, watchdog ticks).  One action *)
(* is one system call on the directory, so that claims, staleness checks   *)
(* and removals of several processes, and the death of any of them,        *)
(* interleave as they can in the file system.                              *)
(*                                                                         *)
(* fs::write of the pid file is one step: a file opened and not yet written *)
(* reads as no owner, exactly like a missing one.  Process ids are not     *)
(* reused.                                                                 *)
(***************************************************************************)
EXTENDS Naturals

CONSTANTS
    Proc,          \* processes that take the lock
    Waits,         \* wait_s of their calls
    StaleLimit,    \* stale directories one call removes: 3
    ClaimLimit,    \* lost claims one call tolerates: 8
    MaxCalls,      \* bound: calls of acquire_lock of one process
    MaxCrashes     \* bound: processes that die

ASSUME LockAssumption ==
    /\ Waits \subseteq Nat
    /\ StaleLimit \in Nat
    /\ ClaimLimit \in Nat
    /\ MaxCalls \in Nat
    /\ MaxCrashes \in Nat
    /\ Proc \cap {"gone", "empty"} = {}

VARIABLES
    dir,       \* the directory: gone, without a pid file, or naming a process
    pc,        \* where each process is
    wait,      \* wait_s of its call
    waited, staleRounds, claims,    \* the locals of acquire_lock
    calls, crashes,                 \* bounds
    stolen     \* history: a live claim was removed from under its owner

locals == <<wait, waited, staleRounds, claims>>
vars   == <<dir, pc, locals, calls, crashes, stolen>>

PC == {"out", "create", "write", "confirm", "judge", "unlink", "rmdir",
       "held", "release", "released", "dead"}

Alive(p) == pc[p] # "dead"

\* Mutant of OwnerAlive: a directory without a pid file passes for owned.
OwnerAliveOrUnknown == dir = "empty" \/ (dir \in Proc /\ Alive(dir))

\* lock_owner_alive: no directory, no readable pid, or a dead process: FALSE.
OwnerAlive == dir \in Proc /\ Alive(dir)

GoTo(p, where) == pc' = [pc EXCEPT ![p] = where]

\* The call is over, and its locals with it.
Return(p, where) ==
    /\ GoTo(p, where)
    /\ wait' = [wait EXCEPT ![p] = 0]
    /\ waited' = [waited EXCEPT ![p] = 0]
    /\ staleRounds' = [staleRounds EXCEPT ![p] = 0]
    /\ claims' = [claims EXCEPT ![p] = 0]

-----------------------------------------------------------------------------

\* A process calls acquire_lock.
Call(p) ==
    /\ pc[p] = "out"
    /\ calls[p] < MaxCalls
    /\ calls' = [calls EXCEPT ![p] = @ + 1]
    /\ \E w \in Waits : wait' = [wait EXCEPT ![p] = w]
    /\ GoTo(p, "create")
    /\ UNCHANGED <<dir, waited, staleRounds, claims, crashes, stolen>>

\* Mutant of Create: create_dir_all, which also succeeds on an existing one.
CreateAll(p) ==
    /\ pc[p] = "create"
    /\ dir' = IF dir = "gone" THEN "empty" ELSE dir
    /\ GoTo(p, "write")
    /\ UNCHANGED <<locals, calls, crashes, stolen>>

\* mkdir: the claim.
Create(p) ==
    /\ pc[p] = "create"
    /\ \/ dir = "gone" /\ dir' = "empty" /\ GoTo(p, "write")
       \/ dir # "gone" /\ UNCHANGED dir /\ GoTo(p, "judge")
    /\ UNCHANGED <<locals, calls, crashes, stolen>>

\* The pid is written; into a directory that is gone it cannot be.
WritePid(p) ==
    /\ pc[p] = "write"
    /\ dir' = IF dir = "gone" THEN "gone" ELSE p
    /\ GoTo(p, "confirm")
    /\ UNCHANGED <<locals, calls, crashes, stolen>>

\* The pid is read back; a lost claim is retried, a bounded number of times.
Confirm(p) ==
    /\ pc[p] = "confirm"
    /\ \/ dir = p /\ Return(p, "held")
       \/ dir # p /\ claims[p] >= ClaimLimit /\ Return(p, "out")
       \/ /\ dir # p /\ claims[p] < ClaimLimit
          /\ claims' = [claims EXCEPT ![p] = @ + 1]
          /\ GoTo(p, "create")
          /\ UNCHANGED <<wait, waited, staleRounds>>
    /\ UNCHANGED <<dir, calls, crashes, stolen>>

\* Mutants of Judge: the seconds slept are not compared with wait_s, or not
\* counted.
JudgeUnbounded(p) ==
    /\ pc[p] = "judge"
    /\ \/ /\ ~OwnerAlive /\ staleRounds[p] < StaleLimit
          /\ staleRounds' = [staleRounds EXCEPT ![p] = @ + 1]
          /\ GoTo(p, "unlink")
          /\ UNCHANGED <<wait, waited, claims>>
       \/ /\ OwnerAlive \/ staleRounds[p] >= StaleLimit
          /\ waited' = [waited EXCEPT ![p] = @ + 1]
          /\ GoTo(p, "create")
          /\ UNCHANGED <<wait, staleRounds, claims>>
    /\ UNCHANGED <<dir, calls, crashes, stolen>>

JudgeUncounted(p) ==
    /\ pc[p] = "judge"
    /\ \/ /\ ~OwnerAlive /\ staleRounds[p] < StaleLimit
          /\ staleRounds' = [staleRounds EXCEPT ![p] = @ + 1]
          /\ GoTo(p, "unlink")
       \/ /\ OwnerAlive \/ staleRounds[p] >= StaleLimit
          /\ GoTo(p, "create")
          /\ UNCHANGED staleRounds
    /\ UNCHANGED <<dir, wait, waited, claims, calls, crashes, stolen>>

\* The directory exists: a stale one is removed; otherwise the call sleeps a
\* second and tries again, until its wait is over.
Judge(p) ==
    /\ pc[p] = "judge"
    /\ \/ /\ ~OwnerAlive /\ staleRounds[p] < StaleLimit
          /\ staleRounds' = [staleRounds EXCEPT ![p] = @ + 1]
          /\ GoTo(p, "unlink")
          /\ UNCHANGED <<wait, waited, claims>>
       \/ /\ OwnerAlive \/ staleRounds[p] >= StaleLimit
          /\ waited[p] < wait[p]
          /\ waited' = [waited EXCEPT ![p] = @ + 1]
          /\ GoTo(p, "create")
          /\ UNCHANGED <<wait, staleRounds, claims>>
       \/ /\ OwnerAlive \/ staleRounds[p] >= StaleLimit
          /\ waited[p] >= wait[p]
          /\ Return(p, "out")
    /\ UNCHANGED <<dir, calls, crashes, stolen>>

\* remove_dir_all, first the pid file, then the directory if it is still empty.
Unlink(p, next, end) ==
    /\ dir' = IF dir \in Proc THEN "empty" ELSE dir
    /\ stolen' = (stolen \/ (OwnerAlive /\ dir # p))
    /\ GoTo(p, IF dir = "gone" THEN end ELSE next)
    /\ UNCHANGED <<locals, calls, crashes>>

Rmdir(p, end) ==
    /\ dir' = IF dir = "empty" THEN "gone" ELSE dir
    /\ stolen' = (stolen \/ (dir = "empty" /\ \E q \in Proc : pc[q] = "write"))
    /\ GoTo(p, end)
    /\ UNCHANGED <<locals, calls, crashes>>

RemoveStale(p) ==
    \/ pc[p] = "unlink" /\ Unlink(p, "rmdir", "create")
    \/ pc[p] = "rmdir" /\ Rmdir(p, "create")

\* release_lock removes the directory, whomever it names.
Release(p) ==
    \/ pc[p] = "release" /\ Unlink(p, "released", "out")
    \/ pc[p] = "released" /\ Rmdir(p, "out")

\* The critical section ends.
Leave(p) ==
    /\ pc[p] = "held"
    /\ GoTo(p, "release")
    /\ UNCHANGED <<dir, locals, calls, crashes, stolen>>

\* A process dies, with or without the lock.
Crash(p) ==
    /\ pc[p] \notin {"out", "dead"}
    /\ crashes < MaxCrashes
    /\ crashes' = crashes + 1
    /\ Return(p, "dead")
    /\ UNCHANGED <<dir, calls, stolen>>

Step(p) ==
    \/ Create(p) \/ WritePid(p) \/ Confirm(p) \/ Judge(p) \/ RemoveStale(p)
    \/ Leave(p) \/ Release(p)

Init ==
    /\ dir = "gone"
    /\ pc = [p \in Proc |-> "out"]
    /\ wait = [p \in Proc |-> 0] /\ waited = [p \in Proc |-> 0]
    /\ staleRounds = [p \in Proc |-> 0] /\ claims = [p \in Proc |-> 0]
    /\ calls = [p \in Proc |-> 0]
    /\ crashes = 0
    /\ stolen = FALSE

Next == \E p \in Proc : Call(p) \/ Step(p) \/ Crash(p)

Spec == Init /\ [][Next]_vars

\* The scheduler runs every process that is inside acquire_lock, the critical
\* section or release_lock; calls and deaths need not happen.
FairSpec == Spec /\ \A p \in Proc : WF_vars(Step(p))

-----------------------------------------------------------------------------
(***************************************************************************)
(* Properties                                                              *)
(***************************************************************************)

\* Every variable stays within its type, and no call exceeds its bounds.
TypeOK ==
    /\ dir \in Proc \cup {"gone", "empty"}
    /\ pc \in [Proc -> PC]
    /\ wait \in [Proc -> Waits \cup {0}]
    /\ waited \in [Proc -> Nat]
    /\ \A p \in Proc : waited[p] <= wait[p]
    /\ staleRounds \in [Proc -> 0..StaleLimit]
    /\ claims \in [Proc -> 0..ClaimLimit]
    /\ calls \in [Proc -> 0..MaxCalls]
    /\ crashes \in 0..MaxCrashes
    /\ stolen \in BOOLEAN

\* A process that acquire_lock told it holds the lock, until its release.
Holds(p) == pc[p] \in {"held", "release"}

\* One writer at a time, as long as nobody removed a live claim: the loss of
\* exclusion needs a removal, never two successful claims of one directory.
ExclusiveUnlessStolen ==
    ~stolen => \A p, q \in Proc : Holds(p) /\ Holds(q) => p = q

\* Every call ends, with the lock or without: the retries after lost claims,
\* stale directories and waits are all bounded.
CallEnds ==
    \A p \in Proc : pc[p] = "create" ~> pc[p] \in {"held", "out", "dead"}

\* Nobody else is inside the lock's code.
Alone(p) == \A q \in Proc \ {p} : pc[q] \in {"out", "dead"}

\* What a dead process left behind never blocks a lone caller, whichever of
\* its steps the process died in.
DeadOwnerReclaimed ==
    \A p \in Proc :
        pc[p] = "create" /\ staleRounds[p] = 0 /\ claims[p] = 0 /\ Alone(p)
        ~> pc[p] \in {"held", "dead"} \/ ~Alone(p)

\* README: all writers share one lock.  state.rs: a claim is confirmed before
\* it is used, so that there are never two holders.
MutualExclusion == \A p, q \in Proc : Holds(p) /\ Holds(q) => p = q
=============================================================================
