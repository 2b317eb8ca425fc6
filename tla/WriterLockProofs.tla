-------------------------- MODULE WriterLockProofs --------------------------
(***************************************************************************)
(* Proofs about WriterLock, for every set of processes and every bound.    *)
(***************************************************************************)
EXTENDS WriterLock, TLAPS

\* A live claim that nobody removed: the directory is the claimant's, without
\* a pid before it is written and naming the claimant after.
ClaimInv ==
    ~stolen =>
        /\ \A p \in Proc : pc[p] = "write" => dir = "empty"
        /\ \A p \in Proc : pc[p] \in {"confirm", "held", "release"} => dir = p
        /\ \A p, q \in Proc : pc[p] = "write" /\ pc[q] = "write" => p = q

\* The program counters, the only part of the types the proof needs.
PCType == pc \in [Proc -> PC]

\* Every action leaves the program counters well typed.
LEMMA PCStep == PCType /\ [Next]_vars => PCType'
  <1> SUFFICES ASSUME PCType, [Next]_vars PROVE PCType'
    OBVIOUS
  <1>1. CASE UNCHANGED vars
    BY <1>1 DEF vars, PCType
  <1>2. ASSUME NEW p \in Proc, Call(p) \/ Step(p) \/ Crash(p)
        PROVE  PCType'
    <2>1. \E w \in PC : pc' = [pc EXCEPT ![p] = w]
      BY <1>2 DEF Call, Step, Crash, Create, WritePid, Confirm, Judge,
                  RemoveStale, Leave, Release, Unlink, Rmdir, GoTo, Return, PC
    <2>2. QED
      BY <2>1 DEF PCType
  <1>3. QED
    BY <1>1, <1>2 DEF Next

\* Every action keeps the claims of live processes, or records the theft.
LEMMA ClaimStep == PCType /\ ClaimInv /\ [Next]_vars => ClaimInv'
  <1> SUFFICES ASSUME PCType, ClaimInv, [Next]_vars, ~stolen' PROVE ClaimInv'
    BY DEF ClaimInv
  <1>1. CASE UNCHANGED vars
    BY <1>1 DEF vars, ClaimInv
  <1>2. ASSUME NEW p \in Proc, Call(p) \/ Step(p) \/ Crash(p)
        PROVE  ClaimInv'
    <2> USE LockAssumption DEF PCType, ClaimInv, GoTo, Return
    <2>0. ~stolen
      BY <1>2 DEF Call, Step, Crash, Create, WritePid, Confirm, Judge,
                  RemoveStale, Leave, Release, Unlink, Rmdir
    <2>1. CASE Call(p)
      BY <2>0, <2>1 DEF Call
    <2>2. CASE Create(p)
      BY <2>0, <2>2 DEF Create
    <2>3. CASE WritePid(p)
      BY <2>0, <2>3 DEF WritePid
    <2>4. CASE Confirm(p)
      BY <2>0, <2>4 DEF Confirm
    <2>5. CASE Judge(p)
      BY <2>0, <2>5 DEF Judge
    <2>6. CASE RemoveStale(p)
      BY <2>0, <2>6 DEF RemoveStale, Unlink, Rmdir, OwnerAlive, Alive
    <2>7. CASE Leave(p)
      BY <2>0, <2>7 DEF Leave
    <2>8. CASE Release(p)
      BY <2>0, <2>8 DEF Release, Unlink, Rmdir, OwnerAlive, Alive
    <2>9. CASE Crash(p)
      BY <2>0, <2>9 DEF Crash
    <2>10. QED
      BY <1>2, <2>1, <2>2, <2>3, <2>4, <2>5, <2>6, <2>7, <2>8, <2>9 DEF Step
  <1>3. QED
    BY <1>1, <1>2 DEF Next

\* acquire_lock never gives one claim to two processes: two holders need the
\* removal of a live claim, for any number of processes, retries and deaths.
THEOREM ExclusiveSafe == Spec => []ExclusiveUnlessStolen
  <1>1. Init => PCType /\ ClaimInv
    BY DEF Init, PCType, ClaimInv, PC
  <1>2. PCType /\ ClaimInv /\ [Next]_vars => (PCType /\ ClaimInv)'
    BY PCStep, ClaimStep
  <1>3. ClaimInv => ExclusiveUnlessStolen
    BY DEF ClaimInv, ExclusiveUnlessStolen, Holds
  <1>4. QED
    BY <1>1, <1>2, <1>3, PTL DEF Spec

-----------------------------------------------------------------------------
(***************************************************************************)
(* Bounded calls                                                           *)
(***************************************************************************)

\* Outside the loop of acquire_lock the count of slept seconds is zero, so
\* that the next call starts from zero whatever its wait is.
OutsideLoop == {"out", "held", "release", "released", "dead"}

Rested == \A p \in Proc : pc[p] \in OutsideLoop => waited[p] = 0

\* A call that returns leaves its locals at zero.
LEMMA ReturnType ==
    ASSUME TypeOK, NEW p \in Proc, NEW w \in PC, Return(p, w)
    PROVE  /\ pc' \in [Proc -> PC]
           /\ wait' \in [Proc -> Waits \cup {0}]
           /\ waited' \in [Proc -> Nat]
           /\ \A q \in Proc : waited'[q] <= wait'[q]
           /\ staleRounds' \in [Proc -> 0..StaleLimit]
           /\ claims' \in [Proc -> 0..ClaimLimit]
  <1>1. pc' \in [Proc -> PC]
    BY DEF TypeOK, Return, GoTo
  <1>2. wait' \in [Proc -> Waits \cup {0}] /\ waited' \in [Proc -> Nat]
    BY DEF TypeOK, Return
  <1>3. \A q \in Proc : waited'[q] <= wait'[q]
    BY DEF TypeOK, Return
  <1>4. staleRounds' \in [Proc -> 0..StaleLimit] /\ claims' \in [Proc -> 0..ClaimLimit]
    BY LockAssumption DEF TypeOK, Return
  <1>5. QED
    BY <1>1, <1>2, <1>3, <1>4

\* Every action keeps the types and the bounds of the calls.
LEMMA TypeStep == TypeOK /\ Rested /\ [Next]_vars => TypeOK'
  <1> SUFFICES ASSUME TypeOK, Rested, [Next]_vars PROVE TypeOK'
    OBVIOUS
  <1>1. CASE UNCHANGED vars
    BY <1>1 DEF vars, locals, TypeOK
  <1>2. ASSUME NEW p \in Proc, Call(p) \/ Step(p) \/ Crash(p)
        PROVE  TypeOK'
    <2>1. CASE Call(p)
      <3>1. PICK w \in Waits : wait' = [wait EXCEPT ![p] = w]
        BY <2>1 DEF Call
      <3>2. waited[p] = 0
        BY <2>1 DEF Call, Rested, OutsideLoop
      <3>3. pc' \in [Proc -> PC]
        BY <2>1 DEF Call, GoTo, TypeOK, PC
      <3>4. calls' \in [Proc -> 0..MaxCalls]
        BY <2>1, LockAssumption DEF Call, TypeOK
      <3>5. wait' \in [Proc -> Waits \cup {0}]
        BY <3>1 DEF TypeOK
      <3>6. \A q \in Proc : waited'[q] <= wait'[q]
        BY <3>1, <3>2, <2>1, LockAssumption DEF Call, TypeOK
      <3>7. QED
        BY <2>1, <3>3, <3>4, <3>5, <3>6 DEF Call, TypeOK
    <2>2. CASE Create(p)
      BY <2>2 DEF Create, GoTo, locals, TypeOK, PC
    <2>3. CASE WritePid(p)
      <3>1. pc' \in [Proc -> PC] /\ dir' \in Proc \cup {"gone", "empty"}
        BY <2>3 DEF WritePid, GoTo, TypeOK, PC
      <3>2. QED
        BY <2>3, <3>1 DEF WritePid, locals, TypeOK
    <2>4. CASE Confirm(p)
      <3>1. CASE Return(p, "held") \/ Return(p, "out")
        BY <2>4, <3>1, ReturnType DEF Confirm, TypeOK, PC
      <3>2. CASE ~(Return(p, "held") \/ Return(p, "out"))
        <4>1. claims' \in [Proc -> 0..ClaimLimit]
          BY <2>4, <3>2, LockAssumption DEF Confirm, TypeOK
        <4>2. pc' \in [Proc -> PC]
          BY <2>4, <3>2 DEF Confirm, GoTo, TypeOK, PC
        <4>3. QED
          BY <2>4, <3>2, <4>1, <4>2 DEF Confirm, TypeOK
      <3>3. QED
        BY <3>1, <3>2
    <2>5. CASE Judge(p)
      <3>1. CASE Return(p, "out")
        BY <2>5, <3>1, ReturnType DEF Judge, TypeOK, PC
      <3>2. CASE /\ staleRounds[p] < StaleLimit
                 /\ staleRounds' = [staleRounds EXCEPT ![p] = @ + 1]
                 /\ GoTo(p, "unlink")
                 /\ UNCHANGED <<wait, waited, claims>>
        <4>1. staleRounds' \in [Proc -> 0..StaleLimit]
          BY <3>2, LockAssumption DEF TypeOK
        <4>2. pc' \in [Proc -> PC]
          BY <3>2 DEF GoTo, TypeOK, PC
        <4>3. QED
          BY <2>5, <3>2, <4>1, <4>2 DEF Judge, TypeOK
      <3>3. CASE /\ waited[p] < wait[p]
                 /\ waited' = [waited EXCEPT ![p] = @ + 1]
                 /\ GoTo(p, "create")
                 /\ UNCHANGED <<wait, staleRounds, claims>>
        <4>1. waited[p] + 1 \in Nat
          BY DEF TypeOK
        <4>2. waited' \in [Proc -> Nat]
          BY <3>3, <4>1 DEF TypeOK
        <4>3. Waits \cup {0} \subseteq Nat
          BY LockAssumption
        <4>4. wait \in [Proc -> Waits \cup {0}]
          BY DEF TypeOK
        <4>5. \A q \in Proc : wait[q] \in Nat
          BY <4>3, <4>4
        <4>6. \A q \in Proc : waited'[q] <= wait'[q]
          BY <3>3, <4>5 DEF TypeOK
        <4>7. pc' \in [Proc -> PC]
          BY <3>3 DEF GoTo, TypeOK, PC
        <4>8. QED
          BY <2>5, <3>3, <4>2, <4>6, <4>7 DEF Judge, TypeOK
      <3>4. QED
        BY <2>5, <3>1, <3>2, <3>3 DEF Judge
    <2>6. CASE RemoveStale(p)
      BY <2>6 DEF RemoveStale, Unlink, Rmdir, GoTo, locals, TypeOK, PC, OwnerAlive, Alive
    <2>7. CASE Leave(p)
      BY <2>7 DEF Leave, GoTo, locals, TypeOK, PC
    <2>8. CASE Release(p)
      BY <2>8 DEF Release, Unlink, Rmdir, GoTo, locals, TypeOK, PC, OwnerAlive, Alive
    <2>9. CASE Crash(p)
      <3>1. crashes' \in 0..MaxCrashes
        BY <2>9, LockAssumption DEF Crash, TypeOK
      <3>2. Return(p, "dead") /\ UNCHANGED <<dir, calls, stolen>>
        BY <2>9 DEF Crash
      <3>3. QED
        BY <3>1, <3>2, ReturnType DEF TypeOK, PC
    <2>10. QED
      BY <1>2, <2>1, <2>2, <2>3, <2>4, <2>5, <2>6, <2>7, <2>8, <2>9 DEF Step
  <1>3. QED
    BY <1>1, <1>2 DEF Next

\* Every exit from the loop of acquire_lock resets the count.
LEMMA RestedStep == TypeOK /\ Rested /\ [Next]_vars => Rested'
  <1> SUFFICES ASSUME TypeOK, Rested, [Next]_vars PROVE Rested'
    OBVIOUS
  <1> USE DEF Rested, OutsideLoop, TypeOK
  <1>1. CASE UNCHANGED vars
    BY <1>1 DEF vars, locals
  <1>2. ASSUME NEW p \in Proc, Call(p) \/ Step(p) \/ Crash(p)
        PROVE  Rested'
    <2>1. CASE Call(p)
      BY <2>1 DEF Call, GoTo
    <2>2. CASE Create(p)
      BY <2>2 DEF Create, GoTo, locals
    <2>3. CASE WritePid(p)
      BY <2>3 DEF WritePid, GoTo, locals
    <2>4. CASE Confirm(p)
      BY <2>4 DEF Confirm, Return, GoTo
    <2>5. CASE Judge(p)
      BY <2>5 DEF Judge, Return, GoTo
    <2>6. CASE RemoveStale(p)
      BY <2>6 DEF RemoveStale, Unlink, Rmdir, GoTo, locals
    <2>7. CASE Leave(p)
      BY <2>7 DEF Leave, GoTo, locals
    <2>8. CASE Release(p)
      BY <2>8 DEF Release, Unlink, Rmdir, GoTo, locals
    <2>9. CASE Crash(p)
      BY <2>9 DEF Crash, Return, GoTo
    <2>10. QED
      BY <1>2, <2>1, <2>2, <2>3, <2>4, <2>5, <2>6, <2>7, <2>8, <2>9 DEF Step
  <1>3. QED
    BY <1>1, <1>2 DEF Next

\* No call of acquire_lock ever sleeps, retries a claim or removes a stale
\* directory more often than its limits say, for any number of processes.
THEOREM CallsBounded == Spec => []TypeOK
  <1>1. Init => TypeOK /\ Rested
    <2> SUFFICES ASSUME Init PROVE TypeOK /\ Rested
      OBVIOUS
    <2>1. /\ dir \in Proc \cup {"gone", "empty"} /\ pc \in [Proc -> PC]
          /\ stolen \in BOOLEAN
      BY DEF Init, PC
    <2>2. /\ wait \in [Proc -> Waits \cup {0}] /\ waited \in [Proc -> Nat]
          /\ \A p \in Proc : waited[p] <= wait[p]
      BY DEF Init
    <2>3. /\ staleRounds \in [Proc -> 0..StaleLimit]
          /\ claims \in [Proc -> 0..ClaimLimit]
      BY LockAssumption DEF Init
    <2>4. calls \in [Proc -> 0..MaxCalls] /\ crashes \in 0..MaxCrashes
      BY LockAssumption DEF Init
    <2>5. Rested
      BY DEF Init, Rested
    <2>6. QED
      BY <2>1, <2>2, <2>3, <2>4, <2>5 DEF TypeOK
  <1>2. QED
    BY <1>1, TypeStep, RestedStep, PTL DEF Spec
=============================================================================
