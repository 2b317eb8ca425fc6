------------------------- MODULE HotplugNotifyProofs ------------------------
(***************************************************************************)
(* Proofs about HotplugNotify, for every number of events, every bound and *)
(* every assignment of events to the exits, or to neither.                 *)
(***************************************************************************)
EXTENDS HotplugNotify, TLAPS

\* Every action keeps every variable within its type.
LEMMA TypeStep == TypeOK /\ [Next]_vars => TypeOK'
  <1> SUFFICES ASSUME TypeOK, [Next]_vars PROVE TypeOK'
    OBVIOUS
  <1> USE NotifyAssumption DEF TypeOK, GoTo, Runner
  <1>1. CASE UNCHANGED vars
    BY <1>1 DEF vars, history
  <1>2. ASSUME NEW p \in Proc, Event(p) PROVE TypeOK'
    BY <1>2 DEF Event, PC
  <1>3. ASSUME NEW p \in Proc, Judge(p) PROVE TypeOK'
    BY <1>3 DEF Judge, PC
  <1>4. ASSUME NEW p \in Proc, Reap(p) PROVE TypeOK'
    BY <1>4 DEF Reap, Unlink, Rmdir, PC, history
  <1>5. ASSUME NEW p \in Proc, Create(p) PROVE TypeOK'
    BY <1>5 DEF Create, PC, Scheduled, history
  <1>6. ASSUME NEW p \in Proc, WritePid(p) PROVE TypeOK'
    BY <1>6 DEF WritePid, PC, Scheduled, history
  <1>7. ASSUME NEW p \in Proc, Retry(p) PROVE TypeOK'
    <2>1. pc' \in [Runner -> PC] /\ got' \in [Runner -> BOOLEAN]
      BY <1>7 DEF Retry, PC, Scheduled
    <2>2. waited' \in [Proc -> 0..LockRetry]
      BY <1>7 DEF Retry
    <2>3. lock' \in Runner \cup {Switch, "none"}
      BY <1>7 DEF Retry
    <2>4. QED
      BY <1>7, <2>1, <2>2, <2>3 DEF Retry, history
  <1>8. ASSUME NEW p \in Proc, UnlinkOwn(p) PROVE TypeOK'
    BY <1>8 DEF UnlinkOwn, Unlink, PC, Scheduled, history
  <1>9. ASSUME NEW p \in Proc, RmdirOwn(p) PROVE TypeOK'
    BY <1>9 DEF RmdirOwn, PC
  <1>10. ASSUME NEW p \in Proc, Snapshot(p) PROVE TypeOK'
    BY <1>10 DEF Snapshot, TakeSnapshot, Occurred, PC
  <1>11. ASSUME NEW p \in Proc, Probe(p) PROVE TypeOK'
    BY <1>11 DEF Probe, Probed, PC
  <1>12. ASSUME NEW p \in Proc, Consume(p) PROVE TypeOK'
    BY <1>12 DEF Consume, PC, history
  <1>13. ASSUME NEW p \in Proc, Crash(p) PROVE TypeOK'
    BY <1>13 DEF Crash, PC
  <1>14. ASSUME NEW r \in Runner, Health(r) PROVE TypeOK'
    BY <1>14 DEF Health, EndPass, Probed, PC
  <1>15. CASE Tick
    BY <1>15 DEF Tick, TakeSnapshot, Occurred, PC
  <1>16. CASE MarkerAges \/ IntervalOver
    BY <1>16 DEF MarkerAges, IntervalOver, history
  <1>17. CASE SwitchStarts \/ SwitchEnds
    BY <1>17 DEF SwitchStarts, SwitchEnds, history
  <1>18. QED
    BY <1>1, <1>2, <1>3, <1>4, <1>5, <1>6, <1>7, <1>8, <1>9, <1>10, <1>11,
       <1>12, <1>13, <1>14, <1>15, <1>16, <1>17 DEF Next, Notify

\* The initial states are well typed.
LEMMA TypeInit == Init => TypeOK
  <1> SUFFICES ASSUME Init PROVE TypeOK
    OBVIOUS
  <1>1. pc \in [Runner -> PC] /\ got \in [Runner -> BOOLEAN]
    BY DEF Init, PC
  <1>2. waited \in [Proc -> 0..LockRetry]
    BY NotifyAssumption DEF Init
  <1>3. about \in [Proc -> Role]
    BY NotifyAssumption DEF Init
  <1>4. QED
    BY <1>1, <1>2, <1>3 DEF Init, TypeOK

\* Every reachable state is well typed.
THEOREM NotifyTypeSafe == Spec => []TypeOK
  BY TypeInit, TypeStep, PTL DEF Spec

-----------------------------------------------------------------------------
(***************************************************************************)
(* Why no event is lost.  As long as nobody is killed, a marker stands for *)
(* a scheduled run: the process it names is waiting, and one without a pid *)
(* was left by a process that is about to write it or to remove it.  So an *)
(* event that finds the marker finds a run that has not read the live      *)
(* state yet.                                                              *)
(***************************************************************************)
MarkerNamesARun ==
    marker \in Proc => pc[marker] \in {"retry", "unlink_own"}

MarkerMeansARun ==
    marker # "gone" => \E q \in Proc : pc[q] \in Scheduled

\* A process past its snapshot has served its own event.
OwnEventSeen ==
    \A p \in Proc : pc[p] \in {"probe", "consume", "health"} => p \notin unserved

ServedInv ==
    /\ killed = 0 => MarkerNamesARun /\ MarkerMeansARun
    /\ OwnEventSeen
    /\ CoalescedIsServed

\* Nothing takes back a death.
LEMMA KilledStays == TypeOK /\ [Next]_vars /\ killed' = 0 => killed = 0
  <1>1. ASSUME NEW p \in Proc, Crash(p) PROVE killed' = killed + 1
    BY <1>1 DEF Crash
  <1>2. ASSUME NEW p \in Proc, Event(p) \/ Notify(p) PROVE killed' = killed
    BY <1>2 DEF Event, Notify, Judge, Reap, Unlink, Rmdir, Create, WritePid,
                Retry, UnlinkOwn, RmdirOwn, Snapshot, TakeSnapshot, Probe,
                Consume, history
  <1>3. ASSUME NEW r \in Runner, Health(r) PROVE killed' = killed
    BY <1>3 DEF Health
  <1>4. CASE Tick \/ MarkerAges \/ IntervalOver \/ SwitchStarts \/ SwitchEnds
    BY <1>4 DEF Tick, TakeSnapshot, MarkerAges, IntervalOver, SwitchStarts,
                SwitchEnds, history
  <1>5. QED
    BY <1>1, <1>2, <1>3, <1>4 DEF TypeOK, Next, vars, history

\* Every action keeps the marker a sign of a scheduled run.
LEMMA MarkerStep ==
    TypeOK /\ MarkerNamesARun /\ MarkerMeansARun /\ [Next]_vars /\ killed' = 0
    => (MarkerNamesARun /\ MarkerMeansARun)'
  <1> SUFFICES ASSUME TypeOK, MarkerNamesARun, MarkerMeansARun, [Next]_vars,
                      killed' = 0
               PROVE  (MarkerNamesARun /\ MarkerMeansARun)'
    OBVIOUS
  <1> USE NotifyAssumption
      DEF TypeOK, MarkerNamesARun, MarkerMeansARun, GoTo, Runner, Scheduled
  <1>1. CASE UNCHANGED vars
    BY <1>1 DEF vars
  <1>2. ASSUME NEW p \in Proc, Event(p) PROVE (MarkerNamesARun /\ MarkerMeansARun)'
    BY <1>2 DEF Event
  <1>3. ASSUME NEW p \in Proc, Judge(p) PROVE (MarkerNamesARun /\ MarkerMeansARun)'
    BY <1>3 DEF Judge
  <1>4. ASSUME NEW p \in Proc, Reap(p) PROVE (MarkerNamesARun /\ MarkerMeansARun)'
    BY <1>4 DEF Reap, Unlink, Rmdir
  <1>5. ASSUME NEW p \in Proc, Create(p) PROVE (MarkerNamesARun /\ MarkerMeansARun)'
    BY <1>5 DEF Create
  <1>6. ASSUME NEW p \in Proc, WritePid(p) PROVE (MarkerNamesARun /\ MarkerMeansARun)'
    BY <1>6 DEF WritePid
  <1>7. ASSUME NEW p \in Proc, Retry(p) PROVE (MarkerNamesARun /\ MarkerMeansARun)'
    BY <1>7 DEF Retry
  <1>8. ASSUME NEW p \in Proc, UnlinkOwn(p)
        PROVE  (MarkerNamesARun /\ MarkerMeansARun)'
    BY <1>8 DEF UnlinkOwn, Unlink
  <1>9. ASSUME NEW p \in Proc, RmdirOwn(p)
        PROVE  (MarkerNamesARun /\ MarkerMeansARun)'
    <2>1. CASE marker \in Proc
      BY <1>9, <2>1 DEF RmdirOwn
    <2>2. CASE marker \notin Proc
      BY <1>9, <2>2 DEF RmdirOwn
    <2>3. QED
      BY <2>1, <2>2
  <1>10. ASSUME NEW p \in Proc, Snapshot(p) \/ Probe(p) \/ Consume(p)
         PROVE  (MarkerNamesARun /\ MarkerMeansARun)'
    BY <1>10 DEF Snapshot, TakeSnapshot, Probe, Consume
  <1>11. ASSUME NEW p \in Proc, Crash(p)
         PROVE  (MarkerNamesARun /\ MarkerMeansARun)'
    BY <1>11 DEF Crash
  <1>12. ASSUME NEW r \in Runner, Health(r)
         PROVE  (MarkerNamesARun /\ MarkerMeansARun)'
    BY <1>12 DEF Health, EndPass
  <1>13. CASE Tick
    BY <1>13 DEF Tick, TakeSnapshot
  <1>14. CASE MarkerAges \/ IntervalOver \/ SwitchStarts \/ SwitchEnds
    BY <1>14 DEF MarkerAges, IntervalOver, SwitchStarts, SwitchEnds
  <1>15. QED
    BY <1>1, <1>2, <1>3, <1>4, <1>5, <1>6, <1>7, <1>8, <1>9, <1>10, <1>11,
       <1>12, <1>13, <1>14 DEF Next, Notify

\* Every action keeps every coalesced event in front of a run to come.
LEMMA ServedStep == TypeOK /\ ServedInv /\ [Next]_vars => ServedInv'
  <1> SUFFICES ASSUME TypeOK, ServedInv, [Next]_vars PROVE ServedInv'
    OBVIOUS
  <1>1. (killed = 0 => MarkerNamesARun /\ MarkerMeansARun)'
    BY KilledStays, MarkerStep DEF ServedInv
  <1>2. (OwnEventSeen /\ CoalescedIsServed)'
    <2> USE NotifyAssumption
        DEF TypeOK, ServedInv, OwnEventSeen, CoalescedIsServed, Upcoming,
            Scheduled, GoTo, Runner
    <2>1. CASE UNCHANGED vars
      BY <2>1 DEF vars, history
    <2>2. ASSUME NEW p \in Proc, Event(p)
          PROVE  (OwnEventSeen /\ CoalescedIsServed)'
      BY <2>2 DEF Event
    <2>3. ASSUME NEW p \in Proc, Judge(p) \/ Reap(p)
          PROVE  (OwnEventSeen /\ CoalescedIsServed)'
      BY <2>3 DEF Judge, Reap, Unlink, Rmdir, history
    <2>4. ASSUME NEW p \in Proc, Create(p)
          PROVE  (OwnEventSeen /\ CoalescedIsServed)'
      BY <2>4 DEF Create, MarkerMeansARun, history
    <2>5. ASSUME NEW p \in Proc, WritePid(p) \/ Retry(p) \/ UnlinkOwn(p)
          PROVE  (OwnEventSeen /\ CoalescedIsServed)'
      BY <2>5 DEF WritePid, Retry, UnlinkOwn, Unlink, history
    <2>6. ASSUME NEW p \in Proc, RmdirOwn(p)
          PROVE  (OwnEventSeen /\ CoalescedIsServed)'
      BY <2>6 DEF RmdirOwn
    <2>7. ASSUME NEW p \in Proc, Snapshot(p)
          PROVE  (OwnEventSeen /\ CoalescedIsServed)'
      BY <2>7 DEF Snapshot, TakeSnapshot
    <2>8. ASSUME NEW p \in Proc, Probe(p) \/ Consume(p)
          PROVE  (OwnEventSeen /\ CoalescedIsServed)'
      BY <2>8 DEF Probe, Consume, history
    <2>9. ASSUME NEW p \in Proc, Crash(p)
          PROVE  (OwnEventSeen /\ CoalescedIsServed)'
      BY <2>9 DEF Crash
    <2>10. ASSUME NEW r \in Runner, Health(r)
           PROVE  (OwnEventSeen /\ CoalescedIsServed)'
      BY <2>10 DEF Health, EndPass
    <2>11. CASE Tick
      BY <2>11 DEF Tick, TakeSnapshot
    <2>12. CASE MarkerAges \/ IntervalOver \/ SwitchStarts \/ SwitchEnds
      BY <2>12 DEF MarkerAges, IntervalOver, SwitchStarts, SwitchEnds, history
    <2>13. QED
      BY <2>1, <2>2, <2>3, <2>4, <2>5, <2>6, <2>7, <2>8, <2>9, <2>10, <2>11,
         <2>12 DEF Next, Notify
  <1>3. QED
    BY <1>1, <1>2 DEF ServedInv

\* No event is lost by coalescing, whatever the number of events and however
\* the markers of their processes are reaped or overwritten.
THEOREM CoalescingSafe == Spec => []CoalescedIsServed
  <1>1. Init => ServedInv
    BY NotifyAssumption
       DEF Init, ServedInv, MarkerNamesARun, MarkerMeansARun, OwnEventSeen,
           CoalescedIsServed
  <1>2. TypeOK /\ ServedInv /\ [Next]_vars => (TypeOK /\ ServedInv)'
    BY TypeStep, ServedStep
  <1>3. ServedInv => CoalescedIsServed
    BY DEF ServedInv
  <1>4. QED
    BY TypeInit, <1>1, <1>2, <1>3, PTL DEF Spec

-----------------------------------------------------------------------------
(***************************************************************************)
(* Why a burst makes one run.  Until a marker is reaped, a scheduled run   *)
(* keeps its marker in place, nobody is reaping, and so nobody else gets   *)
(* past the creation of the directory.                                     *)
(***************************************************************************)
BurstInv ==
    ~reaped /\ killed = 0 =>
        /\ \A p \in Proc : pc[p] \notin {"unlink", "rmdir"}
        /\ \A p \in Proc : pc[p] \in Scheduled => marker # "gone"
        /\ \A p, q \in Proc : pc[p] \in Scheduled /\ pc[q] \in Scheduled => p = q

\* Every action keeps a scheduled run the only one.
LEMMA BurstStep ==
    TypeOK /\ ServedInv /\ BurstInv /\ [Next]_vars => BurstInv'
  <1> SUFFICES ASSUME TypeOK, ServedInv, BurstInv, [Next]_vars,
                      ~reaped', killed' = 0
               PROVE  BurstInv'
    BY DEF BurstInv
  <1>0. killed = 0 /\ MarkerMeansARun /\ MarkerNamesARun
    BY KilledStays DEF ServedInv
  <1> USE <1>0, NotifyAssumption
      DEF TypeOK, BurstInv, Scheduled, GoTo, Runner, history
  <1>1. CASE UNCHANGED vars
    BY <1>1 DEF vars
  <1>2. ASSUME NEW p \in Proc, Event(p) PROVE BurstInv'
    BY <1>2 DEF Event
  <1>3. ASSUME NEW p \in Proc, Judge(p) PROVE BurstInv'
    <2>1. ~Stale
      BY <1>3 DEF Judge, Stale, MarkerMeansARun
    <2>2. QED
      BY <1>3, <2>1 DEF Judge
  <1>4. ASSUME NEW p \in Proc, Reap(p) PROVE BurstInv'
    BY <1>4 DEF Reap, Unlink, Rmdir
  <1>5. ASSUME NEW p \in Proc, Create(p) PROVE BurstInv'
    BY <1>5 DEF Create
  <1>6. ASSUME NEW p \in Proc, WritePid(p) PROVE BurstInv'
    BY <1>6 DEF WritePid
  <1>7. ASSUME NEW p \in Proc, Retry(p) PROVE BurstInv'
    BY <1>7 DEF Retry
  <1>8. ASSUME NEW p \in Proc, UnlinkOwn(p) PROVE BurstInv'
    BY <1>8 DEF UnlinkOwn, Unlink
  <1>9. ASSUME NEW p \in Proc, RmdirOwn(p) PROVE BurstInv'
    BY <1>9 DEF RmdirOwn
  <1>10. ASSUME NEW p \in Proc, Snapshot(p) \/ Probe(p) \/ Consume(p)
         PROVE  BurstInv'
    BY <1>10 DEF Snapshot, TakeSnapshot, Probe, Consume
  <1>11. ASSUME NEW p \in Proc, Crash(p) PROVE BurstInv'
    BY <1>11 DEF Crash
  <1>12. ASSUME NEW r \in Runner, Health(r) PROVE BurstInv'
    BY <1>12 DEF Health, EndPass
  <1>13. CASE Tick
    BY <1>13 DEF Tick, TakeSnapshot
  <1>14. CASE MarkerAges \/ IntervalOver \/ SwitchStarts \/ SwitchEnds
    BY <1>14 DEF MarkerAges, IntervalOver, SwitchStarts, SwitchEnds
  <1>15. QED
    BY <1>1, <1>2, <1>3, <1>4, <1>5, <1>6, <1>7, <1>8, <1>9, <1>10, <1>11,
       <1>12, <1>13, <1>14 DEF Next, Notify

\* A burst of any number of events makes one run, unless the marker of a
\* process that lives is taken for stale.
THEOREM BurstSafe == Spec => []OneRunPerBurst
  <1>1. Init => ServedInv /\ BurstInv
    BY NotifyAssumption
       DEF Init, Runner, ServedInv, MarkerNamesARun, MarkerMeansARun,
           OwnEventSeen, CoalescedIsServed, BurstInv, Scheduled
  <1>2. TypeOK /\ ServedInv /\ BurstInv /\ [Next]_vars
        => (TypeOK /\ ServedInv /\ BurstInv)'
    BY TypeStep, ServedStep, BurstStep
  <1>3. BurstInv => OneRunPerBurst
    BY DEF BurstInv, OneRunPerBurst
  <1>4. QED
    BY TypeInit, <1>1, <1>2, <1>3, PTL DEF Spec
=============================================================================
