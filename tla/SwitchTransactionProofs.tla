----------------------- MODULE SwitchTransactionProofs ----------------------
(***************************************************************************)
(* Proofs about SwitchTransaction, for every deployment, every set of      *)
(* unmanaged routes and every bound.                                       *)
(***************************************************************************)
EXTENDS SwitchTransaction, NetworkProofs

\* The network's part of the types.
LEMMA NetworkTyped == TypeOK => NetworkType
  BY DEF TypeOK, NetworkType

\* rollback_family leaves a table of routes, and never empties it.
LEMMA RollbackTablesResult ==
    ASSUME TypeOK, prev \in Group, NEW s, NEW f \in Family,
           NEW t \in RollbackTables(s, f)
    PROVE  /\ t \in SUBSET Route
           /\ fib[f] # {} => t # {}
  <1>1. fib[f] \in SUBSET Route /\ target \in Group
    BY Groups DEF TypeOK, Tables, target
  <1>2. CASE t = fib[f]
    BY <1>1, <1>2
  <1>3. CASE \E p \in ReplaceSlot(fib[f], prev, ActiveMetric) :
                \/ t \in BestEffort(p, target, f, StandbyMetric)
                \/ t = p
    <2>1. PICK p \in ReplaceSlot(fib[f], prev, ActiveMetric) :
                \/ t \in BestEffort(p, target, f, StandbyMetric)
                \/ t = p
      BY <1>3
    <2>2. p \in SUBSET Route /\ p # {}
      BY <1>1, ReplaceSlotResult, SlotMetrics
    <2>3. QED
      BY <1>1, <2>1, <2>2, BestEffortResult, SlotMetrics
  <1>4. QED
    BY <1>2, <1>3 DEF RollbackTables

\* apply_policy writes a plan.
LEMMA PolicyPlanType ==
    ASSUME TypeOK, NEW m \in Mode
    PROVE  PolicyPlan(m) \in [Group -> [Family -> SectionPlan]]
  <1>1. \A g \in Group : PolicyMetric(m, g) \in {ActiveMetric, StandbyMetric}
                        /\ PolicyDefaultRoute(m, g) \in {0, 1}
    BY DEF PolicyMetric, PolicyDefaultRoute
  <1>2. QED
    BY <1>1 DEF PolicyPlan, TypeOK, SectionPlan

-----------------------------------------------------------------------------
(***************************************************************************)
(* The inductive invariant                                                 *)
(***************************************************************************)

\* Only an exit that owned the slot is put on standby.
DemotesOldExit == phase = "demote" => prev = Other(target)

\* Before the commit nothing of it is done.
NothingWritten == phase \in BeforeCommit => committed = {} /\ ~planWritten

\* A running switch has not reported a result.
Unreported == phase # "idle" => result = "none"

IInv == TypeOK /\ DemotesOldExit /\ NothingWritten /\ Unreported
             /\ SupersededBeforeCommit

-----------------------------------------------------------------------------
(***************************************************************************)
(* Type correctness, action by action                                      *)
(***************************************************************************)

\* The initial states are well typed: the tables hold managed and unmanaged
\* routes only.
LEMMA TypeInit == Init => TypeOK
  <1> SUFFICES ASSUME Init PROVE TypeOK
    OBVIOUS
  <1>1. mode \in Mode /\ NetworkType
    BY SwitchAssumption, AtRestType DEF Init, Unrestricted
  <1>2. snap \in Snapshot /\ start \in [fib : Tables, mode : Mode, rt : SUBSET Hop]
    BY <1>1 DEF Init, Snapshot, NetworkType
  <1>3. /\ newer \in BOOLEAN /\ result = "none" /\ phase \in Phase /\ fam \in Family
        /\ cfgMode \in Mode /\ tmode \in Mode /\ prev = "none"
        /\ waited \in Nat /\ failure \in Failure
        /\ superseded \in BOOLEAN /\ planWritten \in BOOLEAN
        /\ committed \subseteq Family /\ chosen = "none"
        /\ switches \in Nat /\ events \in Nat /\ quiet \in BOOLEAN
        /\ steady \in BOOLEAN
    BY <1>1 DEF Init, Phase, Family, Failure
  <1>4. QED
    BY <1>1, <1>2, <1>3 DEF TypeOK, NetworkType

\* prepare_group writes a well-typed plan and well-typed tables.
LEMMA TypePrepare == TypeOK /\ Prepare => TypeOK'
  BY Groups, NetworkTyped, WarmGroupRouteResult
     DEF TypeOK, target, Phase, Family, GoTo, netVars, fileVars, runVars, flagVars,
        histVars, Prepare, SectionPlan, PolicyMetric

\* Entering a wait moves only the control state.
LEMMA TypeEnterWait == TypeOK /\ EnterWait => TypeOK'
  <1> SUFFICES ASSUME TypeOK, EnterWait PROVE TypeOK'
    OBVIOUS
  <1>1. phase' \in Phase /\ fam' \in Family
    BY DEF TypeOK, EnterWait, AfterWait, GateShut, GoTo, Phase, Family
  <1>2. /\ failure' \in Failure /\ superseded' \in BOOLEAN
        /\ planWritten' = planWritten /\ committed' = committed /\ chosen' = chosen
    BY DEF TypeOK, EnterWait, GateShut, flagVars
  <1>3. QED
    BY <1>1, <1>2 DEF TypeOK, EnterWait, netVars, fileVars, runVars, histVars

\* A wait that finds the family ready takes a fresh snapshot.
LEMMA TypePollReady == TypeOK /\ PollReady => TypeOK'
  BY Groups, NetworkTyped, LiveType
     DEF TypeOK, target, Phase, Family, GoTo, netVars, fileVars, runVars, flagVars,
        histVars, PollReady, AfterWait

\* A wait that runs out of time moves only the control state.
LEMMA TypePollGiveUp == TypeOK /\ PollGiveUp => TypeOK'
  <1> SUFFICES ASSUME TypeOK, PollGiveUp PROVE TypeOK'
    OBVIOUS
  <1>1. phase' \in Phase /\ fam' \in Family
    BY DEF TypeOK, PollGiveUp, AfterWait, GateShut, Fail, GoTo, Phase, Family
  <1>2. /\ failure' \in Failure /\ superseded' \in BOOLEAN
        /\ planWritten' = planWritten /\ committed' = committed /\ chosen' = chosen
    BY DEF TypeOK, PollGiveUp, GateShut, Fail, Failure
  <1>3. QED
    BY <1>1, <1>2 DEF TypeOK, PollGiveUp, netVars, fileVars, runVars, histVars

\* Another wait iteration may warm the target.
LEMMA TypePollAgain == TypeOK /\ PollAgain => TypeOK'
  BY Groups, NetworkTyped, LiveType, WarmGroupRouteResult
     DEF TypeOK, target, Phase, Family, GoTo, netVars, fileVars, runVars, flagVars,
        histVars, PollAgain

\* After the sleep the worker takes a fresh snapshot.
LEMMA TypeRefresh == TypeOK /\ Refresh => TypeOK'
  BY Groups, NetworkTyped, LiveType
     DEF TypeOK, target, Phase, Family, GoTo, netVars, fileVars, runVars, flagVars,
        histVars, Refresh

\* Probing moves only the control state.
LEMMA TypeVerify == TypeOK /\ Verify => TypeOK'
  <1> SUFFICES ASSUME TypeOK, Verify PROVE TypeOK'
    OBVIOUS
  <1>1. phase' \in Phase /\ fam' \in Family
    BY DEF TypeOK, Verify, AfterVerify, GateShut, Fail, GoTo, Phase, Family
  <1>2. /\ failure' \in Failure /\ superseded' \in BOOLEAN
        /\ planWritten' = planWritten /\ committed' = committed /\ chosen' = chosen
    BY DEF TypeOK, Verify, GateShut, Fail, Failure
  <1>3. QED
    BY <1>1, <1>2 DEF TypeOK, Verify, netVars, fileVars, runVars, histVars

\* So does the gateway check.
LEMMA TypeGateway == TypeOK /\ Gateway => TypeOK'
  BY Groups
     DEF TypeOK, target, Phase, Family, GoTo, netVars, fileVars, runVars, flagVars,
        histVars, Gateway, Fail, Failure

\* The last gate may write the new policy's plan and mode.
LEMMA TypeSwitching == TypeOK /\ Switching => TypeOK'
  <1> SUFFICES ASSUME TypeOK, Switching PROVE TypeOK'
    OBVIOUS
  <1>1. phase' \in Phase /\ fam' \in Family
    BY DEF TypeOK, Switching, Fail, GoTo, Phase, Family
  <1>2. plan' \in [Group -> [Family -> SectionPlan]] /\ mode' \in Mode
    BY PolicyPlanType DEF TypeOK, Switching
  <1>3. /\ failure' \in Failure /\ superseded' \in BOOLEAN
        /\ planWritten' \in BOOLEAN
        /\ result' \in {result, "superseded"}
    BY DEF TypeOK, Switching, Fail, Failure
  <1>4. QED
    BY <1>1, <1>2, <1>3 DEF TypeOK, Switching, netVars, runVars, histVars

\* The first write of commit_family leaves well-typed tables.
LEMMA TypePromote == TypeOK /\ Promote => TypeOK'
  BY Groups, ReplaceSlotResult, SlotMetrics
     DEF TypeOK, target, Phase, Family, GoTo, netVars, fileVars, runVars, flagVars,
        histVars, Promote, AfterCommit, Tables

\* A commit that fails leaves the tables alone.
LEMMA TypePromoteFails == TypeOK /\ PromoteFails => TypeOK'
  BY Groups
     DEF TypeOK, target, Phase, Family, GoTo, netVars, fileVars, runVars, flagVars,
        histVars, PromoteFails, AfterCommit, Fail, Failure

\* The second write of commit_family needs an old exit to demote.
LEMMA TypeDemote == TypeOK /\ DemotesOldExit /\ Demote => TypeOK'
  <1> SUFFICES ASSUME TypeOK, DemotesOldExit, Demote PROVE TypeOK'
    OBVIOUS
  <1>0. prev \in Group
    BY Groups DEF TypeOK, DemotesOldExit, Demote, target
  <1>1. phase' \in Phase /\ fam' \in Family
    BY DEF TypeOK, Demote, AfterCommit, GoTo, Phase, Family
  <1>2. fib' \in Tables
    BY <1>0, BestEffortResult, SlotMetrics DEF TypeOK, Demote, Tables
  <1>3. QED
    BY <1>1, <1>2 DEF TypeOK, Demote, netVars, fileVars, runVars, flagVars, histVars

\* Parking the standby writes its sections and removes its routes.
LEMMA TypeParkHoles == TypeOK /\ ParkHoles => TypeOK'
  <1> SUFFICES ASSUME TypeOK, ParkHoles PROVE TypeOK'
    OBVIOUS
  <1>1. plan' \in [Group -> [Family -> SectionPlan]] /\ fib' \in Tables
    BY Groups, NetworkTyped, ParkStandbyResult DEF TypeOK, ParkHoles, target
  <1>2. phase' \in Phase /\ fam' \in Family
    BY DEF ParkHoles, GoTo, Phase, Family
  <1>3. QED
    BY <1>1, <1>2 DEF TypeOK, ParkHoles, netVars, runVars, flagVars, histVars

\* Verifying the commit takes a fresh snapshot.
LEMMA TypeVerifyTarget == TypeOK /\ VerifyTarget => TypeOK'
  BY Groups, NetworkTyped, LiveType
     DEF TypeOK, target, Phase, Family, GoTo, netVars, fileVars, runVars, flagVars,
        histVars, VerifyTarget, Fail, Failure

\* The check after the settle window moves only the control state.
LEMMA TypeSettle == TypeOK /\ Settle => TypeOK'
  <1> SUFFICES ASSUME TypeOK, Settle PROVE TypeOK'
    OBVIOUS
  <1>1. /\ phase' \in Phase /\ fam' \in Family /\ failure' \in Failure
        /\ steady' \in BOOLEAN
    BY DEF TypeOK, Settle, Fail, GoTo, Phase, Family, Failure
  <1>2. QED
    BY <1>1 DEF TypeOK, Settle, netVars, fileVars, runVars

\* So do the closing probes.
LEMMA TypeConfirm == TypeOK /\ Confirm => TypeOK'
  <1> SUFFICES ASSUME TypeOK, Confirm PROVE TypeOK'
    OBVIOUS
  <1>1. phase' \in Phase /\ fam' \in Family /\ failure' \in Failure
    BY DEF TypeOK, Confirm, AfterConfirm, Fail, GoTo, Phase, Family, Failure
  <1>2. QED
    BY <1>1 DEF TypeOK, Confirm, netVars, fileVars, runVars, histVars

\* The end of a switch that succeeds only reports it.
LEMMA TypeReport == TypeOK /\ Report => TypeOK'
  BY DEF TypeOK, Phase, Family, GoTo, netVars, fileVars, runVars, flagVars,
        histVars, Report

\* A rollback puts the plan of the worker's mode back.
LEMMA TypeRollback == TypeOK /\ Rollback => TypeOK'
  BY Groups, PolicyPlanType
     DEF TypeOK, target, Phase, Family, GoTo, netVars, fileVars, runVars, flagVars,
        histVars, Rollback

\* rollback_family leaves well-typed tables.
LEMMA TypeUndo == TypeOK /\ Undo => TypeOK'
  BY Groups, RollbackTablesResult
     DEF TypeOK, target, Phase, Family, GoTo, netVars, fileVars, runVars, flagVars,
        histVars, Undo, Tables

\* post_failure_converge chooses an exit and leaves well-typed tables.
LEMMA TypeConverge == TypeOK /\ Converge => TypeOK'
  <1> SUFFICES ASSUME TypeOK, Converge PROVE TypeOK'
    OBVIOUS
  <1>1. PICK s4 \in Owners(fib["v4"]), s6 \in Owners(fib["v6"]) :
          LET onto == IF fam = "v6" THEN chosen
                      ELSE IF s4 = s6 THEN "none"
                      ELSE IF s4 # "none" THEN s4 ELSE s6
          IN  /\ chosen' = onto
              /\ IF onto = "none"
                 THEN UNCHANGED fib
                 ELSE \E t \in CommitTables(snap, fam, onto) :
                          fib' = [fib EXCEPT ![fam] = t]
              /\ IF fam = "v4" /\ onto # "none"
                 THEN GoTo("converge", "v6") ELSE GoTo("finish", "v4")
    BY DEF Converge, ConvergeOwners
  <1>2. /\ s4 \in Group \cup {"none"} /\ s6 \in Group \cup {"none"}
        /\ chosen \in Group \cup {"none"}
    BY OwnersType DEF TypeOK, Tables, Family
  <1>3. chosen' \in Group \cup {"none"}
    BY <1>1, <1>2
  <1>4. fib' \in Tables
    <2>1. CASE chosen' = "none"
      BY <1>1, <2>1 DEF TypeOK
    <2>2. CASE chosen' \in Group
      <3>1. chosen' # "none"
        BY <2>2 DEF Group
      <3>2. PICK t \in CommitTables(snap, fam, chosen') :
              fib' = [fib EXCEPT ![fam] = t]
        BY <1>1, <3>1
      <3>3. t \in SUBSET Route
        BY <2>2, CommitTablesResult DEF TypeOK
      <3>4. QED
        BY <3>2, <3>3 DEF TypeOK, Tables
    <2>3. QED
      BY <1>3, <2>1, <2>2
  <1>5. phase' \in Phase /\ fam' \in Family
    BY <1>1 DEF GoTo, Phase, Family
  <1>6. QED
    BY <1>3, <1>4, <1>5
       DEF TypeOK, Converge, netVars, fileVars, runVars, histVars,
        ConvergeOwners

\* The end of a failed switch only reports it.
LEMMA TypeFinish == TypeOK /\ Finish => TypeOK'
  BY Groups
     DEF TypeOK, target, Phase, Family, GoTo, netVars, fileVars, runVars, flagVars,
        histVars, Finish

\* A switch starts on a well-typed snapshot of the network.
LEMMA TypeStart ==
    ASSUME NEW m \in Mode, NEW fresh \in BOOLEAN
    PROVE  TypeOK /\ Start(m, fresh) => TypeOK'
  <1> SUFFICES ASSUME TypeOK, Start(m, fresh) PROVE TypeOK'
    OBVIOUS
  <1>1. prev' \in Group \cup {"none"}
    BY SlotOwnersType DEF TypeOK, Start
  <1>2. snap' \in Snapshot
    BY NetworkTyped, LiveType DEF Start
  <1>3. start' \in [fib : Tables, mode : Mode, rt : SUBSET Hop]
    BY DEF TypeOK, Start
  <1>4. /\ phase' \in Phase /\ fam' \in Family
        /\ result' \in {"none", "ok", "failed", "superseded", "crashed"}
    BY DEF Start, GoTo, Phase, Family
  <1>5. cfgMode' \in Mode /\ tmode' \in Mode
    <2>1. cfgMode' = mode \/ cfgMode' = cfgMode
      BY DEF Start
    <2>2. QED
      BY <2>1 DEF TypeOK, Start
  <1>6. /\ newer' = FALSE /\ waited' = 0 /\ failure' = "none"
        /\ superseded' = FALSE /\ planWritten' = FALSE
        /\ committed' = {} /\ chosen' = "none" /\ quiet' = TRUE /\ steady' = FALSE
        /\ switches' = switches + 1
    BY DEF Start
  <1>7. UNCHANGED <<netVars, fib, plan, mode, rt, events>>
    BY DEF Start
  <1>8. /\ switches' \in Nat /\ newer' \in BOOLEAN /\ waited' \in Nat
        /\ failure' \in Failure /\ superseded' \in BOOLEAN
        /\ planWritten' \in BOOLEAN /\ committed' \subseteq Family
        /\ chosen' \in Group \cup {"none"} /\ quiet' \in BOOLEAN
        /\ steady' \in BOOLEAN
    <2>1. switches \in Nat
      BY DEF TypeOK
    <2>2. switches' \in Nat
      BY <1>6, <2>1
    <2>3. QED
      BY <1>6, <2>2, Zenon DEF Failure
  <1>9. QED
    BY <1>1, <1>2, <1>3, <1>4, <1>5, <1>7, <1>8 DEF TypeOK, netVars

\* An event leaves everything the worker knows alone.
LEMMA TypeEvent ==
    ASSUME TypeOK, Event,
           link' \in [Group -> BOOLEAN], addr' \in [Group -> SUBSET Family],
           fib' \in Tables, newer' \in BOOLEAN, quiet' \in BOOLEAN,
           steady' \in BOOLEAN, result' = result
    PROVE  TypeOK'
  BY DEF TypeOK, Event, runVars, flagVars

\* Events of the network and the user, and crashes, keep the types.
LEMMA TypeEnvironment == TypeOK /\ Environment => TypeOK'
  <1> SUFFICES ASSUME TypeOK, Environment PROVE TypeOK'
    OBVIOUS
  <1> USE DEF TypeOK
  <1>1. CASE \E g \in Group : LinkDown(g)
    <2>1. PICK g \in Group : LinkDown(g)
      BY <1>1
    <2>2. /\ fib' \in Tables
          /\ link' \in [Group -> BOOLEAN] /\ addr' \in [Group -> SUBSET Family]
      BY <2>1, NetworkTyped, LoseLinkType DEF LinkDown
    <2>4. /\ Event /\ newer' \in BOOLEAN /\ quiet' \in BOOLEAN
          /\ steady' \in BOOLEAN /\ result' = result
      BY <2>1 DEF LinkDown, LoseLink
    <2>5. QED
      BY <2>2, <2>4, TypeEvent
  <1>2. CASE \E g \in Group, f \in Family : SectionUp(g, f)
    <2>1. PICK g \in Group, f \in Family : SectionUp(g, f)
      BY <1>2
    <2>2. /\ fib' \in Tables
          /\ link' \in [Group -> BOOLEAN] /\ addr' \in [Group -> SUBSET Family]
      BY <2>1, NetworkTyped, RaiseSectionType DEF SectionUp
    <2>5. /\ Event /\ newer' \in BOOLEAN /\ quiet' \in BOOLEAN
          /\ steady' \in BOOLEAN /\ result' = result
      BY <2>1 DEF SectionUp, RaiseSection
    <2>6. QED
      BY <2>2, <2>5, TypeEvent
  <1>3. CASE \E g \in Group, f \in Family : RouteWithdrawn(g, f)
    <2>1. PICK g \in Group, f \in Family : RouteWithdrawn(g, f)
      BY <1>3
    <2>2. fib' \in Tables
      BY <2>1, NetworkTyped, WithdrawRouteType DEF RouteWithdrawn
    <2>3. /\ Event /\ newer' \in BOOLEAN /\ quiet' \in BOOLEAN
          /\ steady' \in BOOLEAN /\ result' = result /\ UNCHANGED <<link, addr>>
      BY <2>1 DEF RouteWithdrawn, WithdrawRoute
    <2>4. QED
      BY <2>2, <2>3, TypeEvent
  <1>4. CASE NewRequest
    BY <1>4, TypeEvent DEF NewRequest
  <1>5. CASE Crash
    <2>1. /\ result' = "crashed" /\ newer' = FALSE /\ events' = events + 1
          /\ phase' = "idle" /\ fam' = "v4"
          /\ UNCHANGED <<conf, link, addr, fib, plan, mode, rt, cfgMode, tmode,
                         prev, snap, waited, switches, start, quiet, steady>>
      BY <1>5 DEF Crash, GoTo, netVars, runVars
    <2>2. UNCHANGED <<failure, superseded, planWritten, committed, chosen>>
      BY <1>5 DEF Crash, flagVars
    <2>3. events \in Nat
      OBVIOUS
    <2>4. events' \in Nat
      BY <2>1, <2>3
    <2>5. /\ phase' \in Phase /\ fam' \in Family /\ newer' \in BOOLEAN
          /\ result' \in {"none", "ok", "failed", "superseded", "crashed"}
      BY <2>1, Zenon DEF Phase, Family
    <2>6. QED
      BY <2>1, <2>2, <2>4, <2>5
  <1>6. QED
    BY <1>1, <1>2, <1>3, <1>4, <1>5 DEF Environment

\* Every step keeps the types, given that only an old exit is demoted.
LEMMA TypeStep == TypeOK /\ DemotesOldExit /\ [Next]_vars => TypeOK'
  <1> SUFFICES ASSUME TypeOK, DemotesOldExit, [Next]_vars PROVE TypeOK'
    OBVIOUS
  <1>1. CASE \E m \in Mode, fresh \in BOOLEAN : Start(m, fresh)
    BY <1>1, TypeStart
  <1>2. CASE Worker
    BY <1>2, TypePrepare, TypeEnterWait, TypePollReady, TypePollGiveUp,
       TypePollAgain, TypeRefresh, TypeVerify, TypeGateway, TypeSwitching,
       TypePromote, TypePromoteFails, TypeDemote, TypeParkHoles,
       TypeVerifyTarget, TypeSettle, TypeConfirm, TypeReport, TypeRollback,
       TypeUndo, TypeConverge, TypeFinish
       DEF Worker
  <1>3. CASE Environment
    BY <1>3, TypeEnvironment
  <1>4. CASE UNCHANGED vars
    BY <1>4 DEF TypeOK, vars, netVars, fileVars, runVars, flagVars, histVars
  <1>5. QED
    BY <1>1, <1>2, <1>3, <1>4 DEF Next

-----------------------------------------------------------------------------
(***************************************************************************)
(* The control invariants, action by action                                *)
(***************************************************************************)

\* The conjuncts of IInv about where the worker is and what it has done.
Control == DemotesOldExit /\ NothingWritten /\ Unreported /\ SupersededBeforeCommit

\* The worker starts with nothing done.
LEMMA ControlInit == Init => Control
  BY DEF Init, Control, DemotesOldExit, NothingWritten, Unreported,
         SupersededBeforeCommit, BeforeCommit, AtRest

\* No step of the worker reaches demote without an old exit, touches the plan
\* or a slot before the last gate, or reports before it ends.
LEMMA ControlWorker == Control /\ Worker => Control'
  <1> SUFFICES ASSUME Control, Worker PROVE Control'
    OBVIOUS
  <1> USE DEF Control, DemotesOldExit, NothingWritten, Unreported,
              SupersededBeforeCommit, BeforeCommit, GoTo,
              fileVars, runVars, flagVars, target
  <1>1. CASE Prepare
    BY <1>1 DEF Prepare
  <1>2. CASE EnterWait
    BY <1>2 DEF EnterWait, AfterWait, GateShut
  <1>3. CASE PollReady
    BY <1>3 DEF PollReady, AfterWait
  <1>4. CASE PollGiveUp
    BY <1>4 DEF PollGiveUp, AfterWait, GateShut, Fail
  <1>5. CASE PollAgain
    BY <1>5 DEF PollAgain
  <1>6. CASE Refresh
    BY <1>6 DEF Refresh
  <1>7. CASE Verify
    BY <1>7 DEF Verify, AfterVerify, GateShut, Fail
  <1>8. CASE Gateway
    BY <1>8 DEF Gateway, Fail
  <1>9. CASE Switching
    BY <1>9 DEF Switching, Fail
  <1>10. CASE Promote
    BY <1>10 DEF Promote, AfterCommit
  <1>11. CASE PromoteFails
    BY <1>11 DEF PromoteFails, AfterCommit, Fail
  <1>12. CASE Demote
    BY <1>12 DEF Demote, AfterCommit
  <1>13. CASE ParkHoles
    BY <1>13 DEF ParkHoles, ParkStandby
  <1>14. CASE VerifyTarget
    BY <1>14 DEF VerifyTarget, Fail
  <1>15. CASE Settle \/ Confirm \/ Report
    BY <1>15 DEF Settle, Confirm, Report, AfterConfirm, Fail
  <1>16. CASE Rollback
    BY <1>16 DEF Rollback
  <1>17. CASE Undo
    BY <1>17 DEF Undo
  <1>18. CASE Converge
    BY <1>18 DEF Converge, ConvergeOwners
  <1>19. CASE Finish
    BY <1>19 DEF Finish
  <1>20. QED
    BY <1>1, <1>2, <1>3, <1>4, <1>5, <1>6, <1>7, <1>8, <1>9, <1>10, <1>11,
       <1>12, <1>13, <1>14, <1>15, <1>16, <1>17, <1>18, <1>19 DEF Worker

\* Nor does the network, the user or a crash.
LEMMA ControlStep == Control /\ [Next]_vars => Control'
  <1> SUFFICES ASSUME Control, [Next]_vars PROVE Control'
    OBVIOUS
  <1>1. CASE \E m \in Mode, fresh \in BOOLEAN : Start(m, fresh)
    <2>1. /\ phase' \in {"idle", "prepare"}
          /\ committed' = {} /\ planWritten' = FALSE
          /\ phase' = "prepare" => result' = "none"
      BY <1>1 DEF Start, GoTo
    <2>2. QED
      BY <2>1 DEF Control, DemotesOldExit, NothingWritten, Unreported,
                  SupersededBeforeCommit
  <1>2. CASE Worker
    BY <1>2, ControlWorker
  <1>3. CASE Environment
    <2>1. CASE Crash
      BY <2>1 DEF Crash, GoTo, Control, DemotesOldExit, NothingWritten,
                  Unreported, SupersededBeforeCommit, BeforeCommit
    <2>2. CASE ~Crash
      <3>1. Event /\ result' = result
        BY <1>3, <2>2 DEF Environment, LinkDown, SectionUp, RouteWithdrawn,
                          NewRequest, LoseLink, RaiseSection, WithdrawRoute
      <3>2. QED
        BY <3>1 DEF Event, runVars, flagVars, target, Control, DemotesOldExit,
                    NothingWritten, Unreported, SupersededBeforeCommit
    <2>3. QED
      BY <2>1, <2>2
  <1>4. CASE UNCHANGED vars
    BY <1>4 DEF vars, runVars, flagVars, target, Control, DemotesOldExit,
                NothingWritten, Unreported, SupersededBeforeCommit
  <1>5. QED
    BY <1>1, <1>2, <1>3, <1>4 DEF Next

-----------------------------------------------------------------------------
(***************************************************************************)
(* The theorems                                                            *)
(***************************************************************************)

\* IInv is an inductive invariant of the transaction.
THEOREM Inductive == Spec => []IInv
  <1>1. Init => IInv
    BY TypeInit, ControlInit DEF IInv, Control
  <1>2. IInv /\ [Next]_vars => IInv'
    BY TypeStep, ControlStep DEF IInv, Control
  <1>3. QED
    BY <1>1, <1>2, PTL DEF Spec

\* Every variable of the transaction keeps its type, in every deployment and
\* with any unmanaged routes beside the program's own.
THEOREM TypeCorrect == Spec => []TypeOK
  <1>1. IInv => TypeOK
    BY DEF IInv
  <1>2. QED
    BY <1>1, Inductive, PTL

\* A switch that ends superseded has written neither an active slot nor the
\* plan: the gates of switch_run all lie before its commit.
THEOREM SupersededSafe == Spec => []SupersededBeforeCommit
  <1>1. IInv => SupersededBeforeCommit
    BY DEF IInv
  <1>2. QED
    BY <1>1, Inductive, PTL

\* No step of the worker takes the last default route of a family the target
\* can carry.
LEMMA WorkerKeepsRoute ==
    ASSUME IInv, Worker, NEW f \in Family, fib[f] # {}, Capable(target, f)
    PROVE  fib'[f] # {}
  <1> USE DEF IInv
  <1>1. CASE Prepare \/ PollAgain
    <2>1. CASE UNCHANGED <<fib, rt>>
      BY <2>1
    <2>2. CASE WarmGroupRoute(snap, target)
      BY <2>2, Groups, NetworkTyped, WarmGroupRouteResult DEF TypeOK, target
    <2>3. QED
      BY <1>1, <2>1, <2>2 DEF Prepare, PollAgain
  <1>2. CASE Promote
    <2>1. PICK t \in ReplaceSlot(fib[fam], target, ActiveMetric) :
              fib' = [fib EXCEPT ![fam] = t]
      BY <1>2 DEF Promote
    <2>2. t # {}
      BY <2>1, Groups, ReplaceSlotResult, SlotMetrics DEF TypeOK, Tables, target
    <2>3. QED
      BY <2>1, <2>2 DEF TypeOK, Tables
  <1>3. CASE Demote
    <2>1. prev \in Group
      BY <1>3, Groups DEF TypeOK, DemotesOldExit, Demote, target
    <2>2. PICK t \in BestEffort(fib[fam], prev, fam, StandbyMetric) :
              fib' = [fib EXCEPT ![fam] = t]
      BY <1>3 DEF Demote
    <2>3. fib[fam] # {} => t # {}
      BY <2>1, <2>2, BestEffortResult, SlotMetrics DEF TypeOK, Tables
    <2>4. QED
      BY <2>2, <2>3 DEF TypeOK, Tables
  <1>4. CASE ParkHoles
    BY <1>4 DEF ParkHoles, HoleFamilies, Capable, ParkStandby
  <1>5. CASE Undo
    <2>1. PICK t \in IF fam \in committed /\ prev = Other(target)
                     THEN RollbackTables(snap, fam) ELSE {fib[fam]} :
              fib' = [fib EXCEPT ![fam] = t]
      BY <1>5 DEF Undo
    <2>2. fib[fam] # {} => t # {}
      <3>1. CASE fam \in committed /\ prev = Other(target)
        BY <2>1, <3>1, Groups, RollbackTablesResult DEF TypeOK, target
      <3>2. CASE ~(fam \in committed /\ prev = Other(target))
        BY <2>1, <3>2
      <3>3. QED
        BY <3>1, <3>2
    <2>3. QED
      BY <2>1, <2>2 DEF TypeOK, Tables
  <1>6. CASE Converge
    <2>1. chosen' \in Group \cup {"none"}
      BY <1>6, TypeConverge DEF TypeOK
    <2>2. CASE UNCHANGED fib
      BY <2>2
    <2>3. CASE chosen' # "none"
      <3>1. PICK t \in CommitTables(snap, fam, chosen') :
                fib' = [fib EXCEPT ![fam] = t]
        BY <1>6, <2>3 DEF Converge, ConvergeOwners
      <3>2. fib[fam] # {} => t # {}
        BY <2>1, <2>3, <3>1, CommitTablesResult DEF TypeOK
      <3>3. QED
        BY <3>1, <3>2 DEF TypeOK, Tables
    <2>4. QED
      BY <1>6, <2>2, <2>3 DEF Converge, ConvergeOwners
  <1>7. CASE UNCHANGED fib
    BY <1>7
  <1>8. QED
    BY <1>1, <1>2, <1>3, <1>4, <1>5, <1>6, <1>7
       DEF Worker, EnterWait, PollReady, PollGiveUp, Refresh, Verify, Gateway,
           Switching, PromoteFails, VerifyTarget, Settle, Confirm, Report,
           Rollback, Finish

\* No step of the program, in whatever order the network, newer requests and
\* crashes fall between its steps, takes the last default route of a family
\* the target can carry.
THEOREM NoBlackhole == Spec => NeverBlackholes
  <1>1. IInv /\ [Next]_vars =>
          [OwnStep => \A f \in Family :
              fib[f] # {} /\ Capable(target, f) => fib'[f] # {}]_vars
    <2> SUFFICES ASSUME IInv, Next, OwnStep, NEW f \in Family,
                        fib[f] # {}, Capable(target, f)
                 PROVE  fib'[f] # {}
      OBVIOUS
    <2>1. CASE \E m \in Mode, fresh \in BOOLEAN : Start(m, fresh)
      BY <2>1 DEF Start
    <2>2. CASE Worker
      BY <2>2, WorkerKeepsRoute
    <2>3. ~Environment
      BY DEF Environment, LinkDown, SectionUp, RouteWithdrawn, NewRequest,
             Crash, Event, OwnStep, IInv, TypeOK,
        LoseLink, RaiseSection, WithdrawRoute
    <2>4. QED
      BY <2>1, <2>2, <2>3 DEF Next
  <1>2. QED
    BY <1>1, Inductive, PTL DEF Spec, NeverBlackholes

\* Warming an exit leaves the winners of a family that runs over a slot better
\* than standby as they are, whether its route write succeeds or not.
LEMMA WarmKeepsWinners ==
    ASSUME TypeOK, NEW s, NEW g \in Group, WarmGroupRoute(s, g),
           NEW f \in Family, AboveStandby(fib[f])
    PROVE  Winners(fib'[f]) = Winners(fib[f])
  <1>1. PICK t4 \in WarmTables(s, g, "v4"), t6 \in WarmTables(s, g, "v6") :
            fib' = [h \in Family |-> IF h = "v4" THEN t4 ELSE t6]
    BY DEF WarmGroupRoute
  <1>2. fib'[f] \in WarmTables(s, g, f)
    BY <1>1 DEF Family
  <1>3. fib'[f] = fib[f] \/ fib'[f] \in ReplaceSlot(fib[f], g, StandbyMetric)
    BY <1>2 DEF WarmTables, BestEffort
  <1>4. QED
    BY <1>3, StandbyWriteKeepsWinners DEF TypeOK, Tables, AboveStandby

\* Up to the commit no step of the program changes the routes of a family that
\* runs over a slot better than standby: preparing, waiting and probing leave
\* the live exit alone, in every deployment.
THEOREM LiveExitSafe == Spec => LiveExitUntouched
  <1>1. TypeOK /\ [Next]_vars =>
          [OwnStep /\ phase \in BeforeCommit => \A f \in Family :
              AboveStandby(fib[f]) => Winners(fib'[f]) = Winners(fib[f])]_vars
    <2> SUFFICES ASSUME TypeOK, Next, OwnStep, phase \in BeforeCommit,
                        NEW f \in Family, AboveStandby(fib[f])
                 PROVE  Winners(fib'[f]) = Winners(fib[f])
      OBVIOUS
    <2>1. ~Environment
      BY DEF Environment, LinkDown, SectionUp, RouteWithdrawn, NewRequest,
             Crash, Event, OwnStep, TypeOK,
        LoseLink, RaiseSection, WithdrawRoute
    <2>2. CASE \E m \in Mode, fresh \in BOOLEAN : Start(m, fresh)
      BY <2>2 DEF Start
    <2>3. CASE Prepare \/ PollAgain
      <3>1. CASE UNCHANGED <<fib, rt>>
        BY <3>1
      <3>2. CASE WarmGroupRoute(snap, target)
        BY <3>2, Groups, WarmKeepsWinners DEF TypeOK, target
      <3>3. QED
        BY <2>3, <3>1, <3>2 DEF Prepare, PollAgain
    <2>4. CASE UNCHANGED fib
      BY <2>4
    <2>5. CASE Promote \/ Demote \/ ParkHoles \/ Undo \/ Converge
      BY <2>5 DEF Promote, Demote, ParkHoles, Undo, Converge, BeforeCommit,
        ParkStandby, ConvergeOwners
    <2>6. CASE Worker
      BY <2>3, <2>4, <2>5, <2>6
         DEF Worker, EnterWait, PollReady, PollGiveUp, Refresh, Verify, Gateway,
             Switching, PromoteFails, VerifyTarget, Settle, Confirm, Report,
             Rollback, Finish
    <2>7. QED
      BY <2>1, <2>2, <2>6 DEF Next
  <1>2. QED
    BY <1>1, TypeCorrect, PTL DEF Spec, LiveExitUntouched
-----------------------------------------------------------------------------
(***************************************************************************)
(* What becomes of the old exit.  Both properties relate the end of a      *)
(* switch to its start, so the invariant says, phase by phase, how far the *)
(* tables can be from those the switch started with as long as the network *)
(* was quiet.                                                              *)
(***************************************************************************)

\* The network agrees with the deployment, and so do the snapshot in hand and
\* the tables the switch started with.
Consistent ==
    /\ NetworkConsistent
    /\ \A f \in Family : Fits(snap.fib[f], f) /\ Fits(start.fib[f], f)
    /\ phase = "demote" => fam \in conf.capable[prev]

Committing == {"promote", "demote", "holes", "verify_target", "settle",
               "confirm", "report"}
Undoing    == {"rollback", "undo", "converge", "finish"}

\* IPv4 is committed first, and the standby is only parked after a commit.
CommitOrder ==
    /\ committed # {} => "v4" \in committed
    /\ \/ phase = "promote" /\ fam = "v6"
       \/ phase \in {"holes", "verify_target", "settle", "confirm", "report"}
       => committed # {}
    /\ phase = "demote" => fam \in committed
    /\ committed \subseteq conf.capable[target]

\* A step that writes no route, and no snapshot but a fresh one.
LEMMA SilentConsistent ==
    ASSUME Consistent, UNCHANGED <<conf, link, addr, fib, rt>>,
           snap' \in {snap, Live}, start' = start \/ start'.fib = fib,
           phase' # "demote"
    PROVE  Consistent'
  BY DEF Consistent, NetworkConsistent, HopsKnown, Fits, Live

\* A step that writes the routes of the family in hand.
LEMMA WriteConsistent ==
    ASSUME TypeOK, Consistent, UNCHANGED <<conf, link, addr, rt, snap, start>>,
           NEW t, Fits(t, fam), fib' = [fib EXCEPT ![fam] = t],
           phase' = "demote" => fam' \in conf.capable[prev] /\ prev' = prev
    PROVE  Consistent'
  <1>1. \A f \in Family : Fits(fib'[f], f)
    BY DEF Consistent, NetworkConsistent, TypeOK, Tables
  <1>2. QED
    BY <1>1 DEF Consistent, NetworkConsistent, HopsKnown, Fits

\* Every step keeps the network in agreement with the deployment.
LEMMA ConsistentStep ==
    ASSUME TypeOK, DemotesOldExit, Consistent, [Next]_vars
    PROVE  Consistent'
  <1>0. /\ NetworkType /\ target \in Group /\ fam \in Family
        /\ \A f \in Family : Fits(fib[f], f) /\ Fits(snap.fib[f], f)
        /\ HopsKnown
    BY NetworkTyped, Groups DEF TypeOK, target, Consistent, NetworkConsistent
  <1>1. CASE UNCHANGED vars
    BY <1>1 DEF vars, netVars, fileVars, runVars, histVars, Consistent,
                NetworkConsistent, HopsKnown, Fits
  <1>2. CASE \E m \in Mode, fresh \in BOOLEAN : Start(m, fresh)
    BY <1>2, SilentConsistent DEF Start, GoTo, netVars, histVars
  <1>3. CASE Prepare \/ PollAgain
    <2>1. UNCHANGED <<conf, link, addr, start>> /\ phase' # "demote"
      BY <1>3 DEF Prepare, PollAgain, GoTo, netVars, histVars
    <2>2. snap' = snap \/ snap' = Live
      BY <1>3 DEF Prepare, PollAgain
    <2>3. (\A f \in Family : Fits(fib'[f], f)) /\ rt' = rt
      <3>1. CASE UNCHANGED <<fib, rt>>
        BY <1>0, <3>1
      <3>2. CASE WarmGroupRoute(snap, target)
        BY <1>0, <3>2, WarmFits DEF Consistent
      <3>3. QED
        BY <1>3, <3>1, <3>2 DEF Prepare, PollAgain
    <2>4. QED
      BY <2>1, <2>2, <2>3 DEF Consistent, NetworkConsistent, HopsKnown, Fits, Live
  <1>4. CASE \/ EnterWait \/ PollReady \/ PollGiveUp \/ Refresh \/ Verify
             \/ Gateway \/ Switching \/ PromoteFails \/ VerifyTarget
             \/ Settle \/ Confirm \/ Report \/ Rollback \/ Finish
    <2>1. UNCHANGED <<conf, link, addr, fib, rt, start>> /\ snap' \in {snap, Live}
      BY <1>4 DEF EnterWait, PollReady, PollGiveUp, Refresh, Verify, Gateway,
                  Switching, PromoteFails, VerifyTarget, Settle, Confirm, Report,
                  Rollback, Finish, netVars, fileVars, histVars
    <2>2. phase' # "demote"
      BY <1>4 DEF EnterWait, PollReady, PollGiveUp, Refresh, Verify, Gateway,
                  Switching, PromoteFails, VerifyTarget, Settle, Confirm, Report,
                  Rollback, Finish, AfterWait, AfterVerify, AfterConfirm, AfterCommit, GateShut, Fail, GoTo
    <2>3. QED
      BY <2>1, <2>2, SilentConsistent
  <1>5. CASE Promote
    <2>1. PICK t \in ReplaceSlot(fib[fam], target, ActiveMetric) :
            fib' = [fib EXCEPT ![fam] = t]
      BY <1>5 DEF Promote
    <2>2. Fits(t, fam)
      BY <1>0, <1>5, <2>1, HopFits, WriteFits DEF Promote
    <2>3. phase' = "demote" => fam' \in conf.capable[prev] /\ prev' = prev
      BY <1>0, <1>5, ShownFits DEF Promote, AfterCommit, GoTo, runVars
    <2>4. UNCHANGED <<conf, link, addr, rt, snap, start>>
      BY <1>5 DEF Promote, netVars, fileVars, histVars
    <2>5. QED
      BY <2>1, <2>2, <2>3, <2>4, WriteConsistent
  <1>6. CASE Demote
    <2>1. PICK t \in BestEffort(fib[fam], prev, fam, StandbyMetric) :
            fib' = [fib EXCEPT ![fam] = t]
      BY <1>6 DEF Demote
    <2>2. Fits(t, fam)
      BY <1>0, <1>6, <2>1, EffortFits DEF Demote, Consistent
    <2>3. phase' # "demote" /\ UNCHANGED <<conf, link, addr, rt, snap, start>>
      BY <1>6 DEF Demote, AfterCommit, GoTo, netVars, fileVars, histVars
    <2>4. QED
      BY <2>1, <2>2, <2>3, WriteConsistent
  <1>7. CASE ParkHoles
    <2>1. \A f \in Family : fib'[f] \subseteq fib[f]
      BY <1>7 DEF ParkHoles, ParkStandby, RouteDel
    <2>2. UNCHANGED <<conf, link, addr, rt, snap, start>> /\ phase' # "demote"
      BY <1>7 DEF ParkHoles, GoTo, netVars, histVars
    <2>3. QED
      BY <1>0, <2>1, <2>2 DEF Consistent, NetworkConsistent, HopsKnown, Fits
  <1>8. CASE Undo
    <2>1. PICK t \in IF fam \in committed /\ prev = Other(target)
                     THEN RollbackTables(snap, fam) ELSE {fib[fam]} :
            fib' = [fib EXCEPT ![fam] = t]
      BY <1>8 DEF Undo
    <2>2. Fits(t, fam)
      <3>1. CASE t = fib[fam]
        BY <1>0, <3>1
      <3>2. CASE ~(t = fib[fam])
        <4>1. /\ t \in RollbackTables(snap, fam)
              /\ GroupRoute(snap, prev, fam) # {}
          BY <2>1, <3>2 DEF RollbackTables
        <4>2. PICK p \in ReplaceSlot(fib[fam], prev, ActiveMetric) :
                \/ /\ t \in BestEffort(p, target, fam, StandbyMetric)
                   /\ GroupRoute(snap, target, fam) # {}
                \/ t = p
          BY <3>2, <4>1 DEF RollbackTables
        <4>3. Fits(p, fam)
          BY <1>0, <4>1, <4>2, ShownFits, WriteFits
        <4>4. QED
          BY <1>0, <4>2, <4>3, ShownFits, EffortFits
      <3>3. QED
        BY <3>1, <3>2
    <2>3. phase' # "demote" /\ UNCHANGED <<conf, link, addr, rt, snap, start>>
      BY <1>8 DEF Undo, GoTo, netVars, fileVars, histVars
    <2>4. QED
      BY <2>1, <2>2, <2>3, WriteConsistent
  <1>9. CASE Converge
    <2>1. \E t : Fits(t, fam) /\ fib' = [fib EXCEPT ![fam] = t]
      <3>1. CASE UNCHANGED fib
        BY <1>0, <3>1 DEF TypeOK, Tables
      <3>2. CASE ~(UNCHANGED fib)
        <4>1. PICK t \in CommitTables(snap, fam, chosen') :
                fib' = [fib EXCEPT ![fam] = t]
          BY <1>9, <3>2 DEF Converge
        <4>2. QED
          BY <1>0, <4>1, CommitFits
      <3>3. QED
        BY <3>1, <3>2
    <2>2. phase' # "demote" /\ UNCHANGED <<conf, link, addr, rt, snap, start>>
      BY <1>9 DEF Converge, GoTo, netVars, fileVars, histVars
    <2>3. QED
      BY <2>1, <2>2, WriteConsistent
  <1>10. CASE Environment
    <2>1. /\ UNCHANGED <<conf, rt, prev, snap, tmode, start>>
          /\ (UNCHANGED <<phase, fam>>) \/ phase' = "idle"
      BY <1>10 DEF Environment, LinkDown, SectionUp, RouteWithdrawn, NewRequest,
                   Crash, Event, GoTo, netVars, runVars
    <2>2. NetworkConsistent'
      <3>1. CASE \E g \in Group, f \in Family :
                    LoseLink(g) \/ RaiseSection(g, f) \/ WithdrawRoute(g, f)
        BY <1>0, <2>1, <3>1, OutsideFits DEF Consistent
      <3>2. CASE UNCHANGED <<link, addr, fib>>
        BY <2>1, <3>2 DEF Consistent, NetworkConsistent, HopsKnown, Fits
      <3>3. QED
        BY <1>10, <3>1, <3>2
           DEF Environment, LinkDown, SectionUp, RouteWithdrawn, NewRequest,
               Crash, netVars, Family
    <2>3. QED
      BY <2>1, <2>2 DEF Consistent, Fits
  <1>11. QED
    BY <1>1, <1>2, <1>3, <1>4, <1>5, <1>6, <1>7, <1>8, <1>9, <1>10
       DEF Next, Worker

\* So does the order of the commits.
LEMMA CommitOrderStep ==
    ASSUME TypeOK, NothingWritten, Consistent, CommitOrder, [Next]_vars
    PROVE  CommitOrder'
  <1>0. fam \in Family /\ target \in Group
    BY Groups DEF TypeOK, target
  <1>1. CASE UNCHANGED vars
    BY <1>1 DEF vars, netVars, runVars, flagVars, CommitOrder, target
  <1>2. CASE \E m \in Mode, fresh \in BOOLEAN : Start(m, fresh)
    BY <1>2 DEF Start, GoTo, CommitOrder
  <1>3. CASE Environment
    BY <1>3 DEF Environment, LinkDown, SectionUp, RouteWithdrawn, NewRequest,
                Crash, Event, GoTo, netVars, runVars, flagVars, CommitOrder, target
  <1>4. CASE Promote
    <2>1. fam \in conf.capable[target]
      BY <1>0, <1>4, HopFits DEF Promote, Consistent, NetworkConsistent
    <2>2. committed' = committed \cup {fam} /\ UNCHANGED <<conf, target>>
      BY <1>4 DEF Promote, netVars, runVars, target
    <2>3. \/ phase' = "demote" /\ fam' = fam
          \/ phase' = "promote" /\ fam' = "v6"
          \/ phase' = "holes"
      BY <1>4 DEF Promote, AfterCommit, GoTo
    <2>4. phase = "promote" /\ (fam = "v4" \/ fam = "v6")
      BY <1>0, <1>4 DEF Promote, Family
    <2>5. QED
      BY <2>1, <2>2, <2>3, <2>4 DEF CommitOrder
  <1>5. CASE PromoteFails \/ Demote
    <2>1. UNCHANGED <<committed, conf, target>>
      BY <1>5 DEF PromoteFails, Demote, netVars, runVars, flagVars, target
    <2>2. \/ phase' = "promote" /\ fam' = "v6" /\ fam = "v4" /\ phase = "demote"
          \/ phase' = "promote" /\ fam' = "v6" /\ fam = "v4" /\ ~Gates(fam)
          \/ phase' = "holes" /\ fam = "v6"
          \/ phase' = "rollback"
      BY <1>0, <1>5 DEF PromoteFails, Demote, AfterCommit, Fail, GoTo, Family
    <2>3. phase = "demote" \/ phase = "promote"
      BY <1>5 DEF PromoteFails, Demote
    <2>4. QED
      BY <2>1, <2>2, <2>3 DEF CommitOrder, Gates
  <1>6. CASE ParkHoles \/ VerifyTarget \/ Settle \/ Confirm \/ Report
    BY <1>6 DEF ParkHoles, VerifyTarget, Settle, Confirm, Report, AfterConfirm,
                Fail, GoTo, netVars, runVars,
                flagVars, CommitOrder, target
  <1>7. CASE Rollback \/ Undo \/ Converge \/ Finish
    BY <1>7 DEF Rollback, Undo, Converge, Finish, GoTo, netVars, runVars,
                flagVars, CommitOrder, target
  <1>8. CASE \/ Prepare \/ EnterWait \/ PollReady \/ PollGiveUp \/ PollAgain
             \/ Refresh \/ Verify \/ Gateway \/ Switching
    <2>1. /\ UNCHANGED <<committed, conf, target>> /\ phase \in BeforeCommit
          /\ phase' \notin {"demote", "holes", "verify_target", "settle",
                         "confirm", "report"}
          /\ phase' = "promote" => fam' = "v4"
      BY <1>8 DEF Prepare, EnterWait, PollReady, PollGiveUp, PollAgain, Refresh,
                  Verify, Gateway, Switching, AfterWait, AfterVerify, GateShut,
                  Fail, GoTo, BeforeCommit, netVars, runVars, flagVars, target
    <2>2. QED
      BY <2>1 DEF CommitOrder
  <1>9. QED
    BY <1>1, <1>2, <1>3, <1>4, <1>5, <1>6, <1>7, <1>8 DEF Next, Worker
\* A table while the switch prepares: as it was, or with the target warmed into
\* the standby slot of a family in which it had no route.
Warmed(table, f) ==
    \/ table = start.fib[f]
    \/ /\ ~Shows(start.fib[f], target)
       /\ table \in ReplaceSlot(start.fib[f], target, StandbyMetric)

Preparing ==
    quiet /\ phase \in BeforeCommit
    => \A f \in Family : Warmed(fib[f], f) /\ Warmed(snap.fib[f], f)

\* Warming twice is warming once: the second time finds the route.
LEMMA WarmAgain ==
    ASSUME TypeOK, NEW f \in Family, Warmed(fib[f], f), Warmed(snap.fib[f], f),
           NEW t \in WarmTables(snap, target, f)
    PROVE  Warmed(t, f)
  <1>0. /\ fib[f] \in SUBSET Route /\ snap.fib[f] \in SUBSET Route
        /\ start.fib[f] \in SUBSET Route /\ target \in Group
    BY Groups DEF TypeOK, Tables, Snapshot, target
  <1>1. CASE t = fib[f]
    BY <1>1
  <1>2. CASE ~(t = fib[f])
    <2>1. /\ ~Shows(snap.fib[f], target)
          /\ t \in ReplaceSlot(fib[f], target, StandbyMetric)
      BY <1>0, <1>2, ShowsRoute DEF WarmTables, BestEffort, Warmable, GroupRoute
    <2>2. snap.fib[f] = start.fib[f]
      <3>1. \A r \in ReplaceSlot(start.fib[f], target, StandbyMetric) :
                Shows(r, target)
        BY <1>0, SlotMetrics, ReplaceSlotElements DEF Shows
      <3>2. QED
        BY <2>1, <3>1 DEF Warmed
    <2>3. CASE fib[f] = start.fib[f]
      BY <2>1, <2>2, <2>3 DEF Warmed
    <2>4. CASE fib[f] \in ReplaceSlot(start.fib[f], target, StandbyMetric)
      <3>1. RouteOf(target, StandbyMetric) \in fib[f]
        BY <1>0, <2>4, SlotMetrics, ReplaceSlotElements
      <3>2. t = fib[f]
        BY <2>1, <3>1 DEF ReplaceSlot
      <3>3. QED
        BY <1>2, <3>2
    <2>5. QED
      BY <2>3, <2>4 DEF Warmed
  <1>3. QED
    BY <1>1, <1>2

\* Nothing before the commit goes further than that.
LEMMA PreparingStep ==
    ASSUME TypeOK, Preparing, [Next]_vars
    PROVE  Preparing'
  <1>1. CASE UNCHANGED vars
    BY <1>1 DEF vars, runVars, histVars, Preparing, Warmed, target
  <1>2. CASE \E m \in Mode, fresh \in BOOLEAN : Start(m, fresh)
    BY <1>2 DEF Start, Preparing, Warmed, Live
  <1>3. CASE Environment
    <2>1. /\ UNCHANGED <<start, snap, tmode>>
          /\ \/ quiet' = FALSE
             \/ phase' = "idle"
             \/ UNCHANGED <<fib, quiet, phase>>
      BY <1>3 DEF Environment, LinkDown, SectionUp, RouteWithdrawn, NewRequest,
                  Crash, Event, GoTo, runVars
    <2>2. QED
      BY <2>1 DEF Preparing, Warmed, target, BeforeCommit
  <1>4. CASE Prepare \/ PollAgain
    <2>1. UNCHANGED <<start, tmode, quiet>> /\ phase \in BeforeCommit
      BY <1>4 DEF Prepare, PollAgain, runVars, histVars, BeforeCommit
    <2>2. snap' = snap \/ (snap' = Live /\ fib' = fib)
      BY <1>4 DEF Prepare, PollAgain, IfupAt
    <2>3. ASSUME Preparing, quiet, NEW f \in Family
          PROVE  Warmed(fib'[f], f)
      <3>1. Warmed(fib[f], f) /\ Warmed(snap.fib[f], f)
        BY <2>1, <2>3 DEF Preparing
      <3>2. CASE UNCHANGED fib
        BY <3>1, <3>2
      <3>3. CASE WarmGroupRoute(snap, target)
        <4>1. fib'[f] \in WarmTables(snap, target, f)
          BY <3>3 DEF WarmGroupRoute, Family
        <4>2. QED
          BY <3>1, <4>1, WarmAgain
      <3>4. QED
        BY <1>4, <3>2, <3>3 DEF Prepare, PollAgain
    <2>4. QED
      BY <2>1, <2>2, <2>3 DEF Preparing, Warmed, target, Live
  <1>5. CASE \/ EnterWait \/ PollReady \/ PollGiveUp \/ Refresh \/ Verify
             \/ Gateway \/ Switching
    <2>1. /\ UNCHANGED <<start, fib, tmode, quiet>> /\ phase \in BeforeCommit
          /\ snap' = snap \/ snap'.fib = fib
      BY <1>5 DEF EnterWait, PollReady, PollGiveUp, Refresh, Verify, Gateway,
                  Switching, runVars, histVars, BeforeCommit, Live
    <2>2. QED
      BY <2>1 DEF Preparing, Warmed, target
  <1>6. CASE Promote \/ PromoteFails \/ Demote \/ ParkHoles \/ VerifyTarget
             \/ Settle \/ Confirm \/ Report \/ Rollback \/ Undo \/ Converge \/ Finish
    <2>1. phase' \notin BeforeCommit
      BY <1>6 DEF Promote, PromoteFails, Demote, ParkHoles, VerifyTarget, Settle,
                  Confirm, Report, Rollback, Undo, Converge, Finish, AfterCommit,
                  AfterConfirm, Fail, GoTo,
                  BeforeCommit
    <2>2. QED
      BY <2>1 DEF Preparing
  <1>7. QED
    BY <1>1, <1>2, <1>3, <1>4, <1>5, <1>6 DEF Next, Worker

\* So when the commit begins, an exit that owned a family above the standby
\* slot still does, and an old exit that had a route beside has kept one.
LEMMA PreparedKeeps ==
    ASSUME TypeOK, NEW f \in Family, NEW table, Warmed(table, f),
           prev \in Group, AboveStandby(start.fib[f])
    PROVE  /\ Owners(start.fib[f]) = {prev} => Owners(table) = {prev}
           /\ prev = Other(target) /\ Shows(start.fib[f], prev)
              => Shows(table, prev)
  <1>0. start.fib[f] \in SUBSET Route /\ target \in Group
    BY Groups DEF TypeOK, Tables, target
  <1>1. CASE table = start.fib[f]
    BY <1>1
  <1>2. CASE /\ ~Shows(start.fib[f], target)
             /\ table \in ReplaceSlot(start.fib[f], target, StandbyMetric)
    <2>1. Owners(table) = Owners(start.fib[f])
      BY <1>0, <1>2, StandbyWriteKeepsWinners DEF AboveStandby
    <2>2. PICK r \in start.fib[f] : r.metric < StandbyMetric
      BY DEF AboveStandby
    <2>3. r \in table
      <3>1. r.metric # StandbyMetric
        BY <2>2 DEF StandbyMetric
      <3>2. QED
        BY <1>0, <1>2, <3>1, SlotMetrics, ReplaceSlotElements
    <2>4. prev = Other(target) => r.grp = prev
      <3>1. r.grp \in Group /\ r.grp # target
        BY <1>0, <1>2, MetricsAreNumbers DEF Shows
      <3>2. QED
        BY <1>0, <3>1 DEF Other, Group
    <2>5. QED
      BY <2>1, <2>3, <2>4 DEF Shows
  <1>3. QED
    BY <1>1, <1>2 DEF Warmed

-----------------------------------------------------------------------------
(***************************************************************************)
(* The old exit of a switch that succeeds                                  *)
(***************************************************************************)

\* The old exit had a route of the family, which ran above the standby slot,
\* and can be given another.
OldRoute(f) ==
    Shows(start.fib[f], prev) /\ AboveStandby(start.fib[f]) /\ f \in addr[prev]

\* From the commit on, the snapshot in hand shows a route of the old exit in
\* every family the target can carry, and until the rollback the table has
\* one, except between the two writes of the commit.
OldExitStays ==
    quiet /\ phase \in Committing \cup Undoing /\ prev = Other(target)
    => \A f \in conf.capable[target] : OldRoute(f) =>
            /\ Shows(snap.fib[f], prev)
            /\ phase \in Committing
               => Shows(fib[f], prev) \/ (phase = "demote" /\ fam = f)

\* What a step of the switch leaves alone.
LEMMA WorkerFrame ==
    ASSUME Worker
    PROVE  UNCHANGED <<conf, link, addr, start, quiet, prev, tmode, events>>
  BY DEF Worker, Prepare, EnterWait, PollReady, PollGiveUp, PollAgain, Refresh,
         Verify, Gateway, Switching, Promote, PromoteFails, Demote, ParkHoles,
         VerifyTarget, Settle, Confirm, Report, Rollback, Undo, Converge, Finish, netVars,
         runVars, histVars

\* An event ends the quiet, or the switch, or leaves the routes alone.
LEMMA EventFrame ==
    ASSUME Environment
    PROVE  /\ UNCHANGED <<conf, start, prev, tmode, snap, committed, chosen>>
           /\ \/ quiet' = FALSE
              \/ phase' = "idle" /\ result' = "crashed"
              \/ /\ UNCHANGED <<link, addr, fib, quiet, phase, fam, result>>
                 /\ phase # "idle"
  BY DEF Environment, LinkDown, SectionUp, RouteWithdrawn, NewRequest, Crash,
         Event, GoTo, netVars, runVars, flagVars

LEMMA OldExitStaysStep ==
    ASSUME TypeOK, Consistent, Preparing, OldExitStays, [Next]_vars
    PROVE  OldExitStays'
  <1>0. /\ target \in Group /\ fam \in Family /\ fib \in Tables
        /\ \A f \in Family : fib[f] \in SUBSET Route /\ snap.fib[f] \in SUBSET Route
        /\ conf.capable[target] \subseteq Family
    BY Groups DEF TypeOK, Tables, Snapshot, target, Config
  <1>1. CASE UNCHANGED vars
    BY <1>1 DEF vars, netVars, runVars, flagVars, histVars, OldExitStays, OldRoute,
                target
  <1>2. CASE \E m \in Mode, fresh \in BOOLEAN : Start(m, fresh)
    BY <1>2 DEF Start, GoTo, OldExitStays, Committing, Undoing
  <1>3. CASE Environment
    BY <1>3, EventFrame DEF OldExitStays, OldRoute, target, Committing, Undoing
  <1>4. CASE Worker
    <2> SUFFICES ASSUME quiet, phase' \in Committing \cup Undoing,
                        prev = Other(target), NEW f \in conf.capable[target],
                        OldRoute(f)
                 PROVE  /\ Shows(snap'.fib[f], prev)
                        /\ phase' \in Committing
                           => Shows(fib'[f], prev) \/ (phase' = "demote" /\ fam' = f)
      BY <1>4, WorkerFrame DEF OldExitStays, OldRoute, target
    <2>0. f \in Family /\ prev \in Group
      BY <1>0, Groups
    <2>1. CASE \/ Prepare \/ EnterWait \/ PollReady \/ PollGiveUp \/ PollAgain
               \/ Refresh \/ Verify \/ Gateway \/ Switching
      <3>1. phase \in BeforeCommit /\ UNCHANGED <<fib, snap>>
        BY <2>1 DEF Prepare, EnterWait, PollReady, PollGiveUp, PollAgain, Refresh,
                    Verify, Gateway, Switching, AfterWait, AfterVerify, GateShut,
                    Fail, GoTo, BeforeCommit, Committing, Undoing
      <3>2. Warmed(fib[f], f) /\ Warmed(snap.fib[f], f)
        BY <2>0, <3>1 DEF Preparing
      <3>3. QED
        BY <2>0, <3>1, <3>2, PreparedKeeps DEF OldRoute
    <2>2. CASE Promote
      <3>1. /\ phase = "promote" /\ snap' = snap /\ fib' = [fib EXCEPT ![fam] = fib'[fam]]
            /\ GroupRoute(snap, prev, fam) # {} => phase' = "demote" /\ fam' = fam
        BY <1>0, <2>2 DEF Promote, GoTo, Tables
      <3>2. Shows(snap.fib[f], prev) /\ Shows(fib[f], prev)
        BY <3>1 DEF OldExitStays, Committing
      <3>3. CASE f = fam
        BY <1>0, <2>0, <3>1, <3>2, <3>3, ShowsRoute DEF GroupRoute
      <3>4. CASE f # fam
        BY <2>0, <3>1, <3>2, <3>4 DEF TypeOK, Tables
      <3>5. QED
        BY <3>3, <3>4
    <2>3. CASE Demote
      <3>1. PICK t \in BestEffort(fib[fam], prev, fam, StandbyMetric) :
                fib' = [fib EXCEPT ![fam] = t]
        BY <2>3 DEF Demote
      <3>2. phase = "demote" /\ snap' = snap
        BY <2>3 DEF Demote
      <3>3. Shows(snap.fib[f], prev) /\ (Shows(fib[f], prev) \/ fam = f)
        BY <3>2 DEF OldExitStays, Committing
      <3>4. CASE f = fam
        <4>1. ~Refusable(prev, fam)
          BY <2>0, <3>4 DEF Refusable, OldRoute, Consistent, NetworkConsistent
        <4>2. t \in ReplaceSlot(fib[fam], prev, StandbyMetric)
          BY <4>1 DEF BestEffort
        <4>3. Shows(t, prev)
          BY <1>0, <2>0, <4>2, SlotMetrics, ReplaceSlotElements DEF Shows
        <4>4. QED
          BY <1>0, <3>1, <3>2, <3>3, <3>4, <4>3 DEF Tables
      <3>5. CASE f # fam
        BY <2>0, <3>1, <3>2, <3>3, <3>5 DEF TypeOK, Tables
      <3>6. QED
        BY <3>4, <3>5
    <2>4. CASE ParkHoles
      <3>1. phase = "holes" /\ snap' = snap
        BY <2>4 DEF ParkHoles
      <3>2. fib'[f] = fib[f]
        BY <1>0, <2>0, <2>4, NetworkTyped, ParkStandbyResult DEF ParkHoles, Capable
      <3>3. QED
        BY <3>1, <3>2 DEF OldExitStays, Committing
    <2>5. CASE PromoteFails \/ VerifyTarget \/ Settle \/ Confirm \/ Report
      <3>1. /\ phase \in {"promote", "verify_target", "settle", "confirm", "report"}
            /\ fib' = fib
            /\ snap' = snap \/ snap' = Live
        BY <2>5 DEF PromoteFails, VerifyTarget, Settle, Confirm, Report
      <3>2. Shows(snap.fib[f], prev) /\ Shows(fib[f], prev)
        BY <3>1 DEF OldExitStays, Committing
      <3>3. QED
        BY <3>1, <3>2 DEF Live
    <2>6. CASE Rollback \/ Undo \/ Converge \/ Finish
      <3>1. phase \in Undoing /\ phase' \notin Committing /\ snap' = snap
        BY <2>6 DEF Rollback, Undo, Converge, Finish, GoTo, Undoing, Committing
      <3>2. QED
        BY <3>1 DEF OldExitStays
    <2>7. QED
      BY <1>4, <2>1, <2>2, <2>3, <2>4, <2>5, <2>6 DEF Worker
  <1>5. QED
    BY <1>1, <1>2, <1>3, <1>4 DEF Next

\* It is still there when success is reported.
LEMMA OldExitKeptStep ==
    ASSUME TypeOK, Unreported, OldExitStays, OldExitKept, [Next]_vars
    PROVE  OldExitKept'
  <1>1. CASE UNCHANGED vars
    BY <1>1 DEF vars, netVars, runVars, flagVars, histVars, OldExitKept, target
  <1>2. CASE \E m \in Mode, fresh \in BOOLEAN : Start(m, fresh)
    BY <1>2, Groups DEF Start, GoTo, OldExitKept, target, Other, Group
  <1>3. CASE Environment
    BY <1>3, EventFrame DEF OldExitKept
  <1>4. CASE Worker
    <2>1. phase # "idle" /\ result = "none"
      BY <1>4 DEF Worker, Prepare, EnterWait, PollReady, PollGiveUp, PollAgain,
                  Refresh, Verify, Gateway, Switching, Promote, PromoteFails,
                  Demote, ParkHoles, VerifyTarget, Settle, Confirm, Report, Rollback, Undo,
                  Converge, Finish, Unreported
    <2>2. CASE Report
      <3>1. /\ phase = "report" /\ fib' = fib
            /\ UNCHANGED <<conf, addr, start, quiet, prev, target>>
        BY <1>4, <2>2, WorkerFrame DEF Report, target
      <3>2. \A f \in conf.capable[target] :
                /\ f \in Family /\ start.fib[f] \in SUBSET Route
                /\ fib[f] \in SUBSET Route
        BY Groups DEF TypeOK, Config, target, Tables
      <3>3. QED
        BY <3>1, <3>2, ShowsRoute
           DEF OldExitKept, OldExitStays, OldRoute, Committing
    <2>3. CASE ~Report
      <3>1. result' # "ok"
        BY <1>4, <2>1, <2>3
           DEF Worker, Prepare, EnterWait, PollReady, PollGiveUp, PollAgain,
               Refresh, Verify, Gateway, Switching, Promote, PromoteFails,
               Demote, ParkHoles, VerifyTarget, Settle, Confirm, Rollback, Undo,
               Converge, Finish
      <3>2. QED
        BY <3>1 DEF OldExitKept
    <2>4. QED
      BY <2>2, <2>3
  <1>5. QED
    BY <1>1, <1>2, <1>3, <1>4 DEF Next

-----------------------------------------------------------------------------
(***************************************************************************)
(* The old exit of a switch that fails                                     *)
(***************************************************************************)

\* An exit that held a family owned its route, which belongs to a section.
LEMMA HeldExit ==
    ASSUME TypeOK, Consistent, NEW f \in Family, OldExitHeld(f)
    PROVE  /\ prev \in Group /\ OldRoute(f) /\ f \in conf.capable[prev]
           /\ ~Refusable(prev, f)
  <1>1. start.fib[f] \in SUBSET Route /\ start.fib[f] # {}
    BY DEF TypeOK, Tables, OldExitHeld, AboveStandby
  <1>2. Shows(start.fib[f], prev)
    BY <1>1, WinnerExists DEF OldExitHeld, Owners, Winners, Shows
  <1>3. PICK r \in start.fib[f] : r.grp = prev
    BY <1>2 DEF Shows
  <1>4. prev \in Group /\ f \in conf.capable[prev]
    BY <1>1, <1>3, MetricsAreNumbers DEF Consistent, Fits
  <1>5. QED
    BY <1>2, <1>4
       DEF OldExitHeld, OldRoute, Refusable, Consistent, NetworkConsistent

\* rollback_family onto a previous exit with a route, a next hop and an address
\* makes it the owner again, and parking the target below it keeps it so.
LEMMA RollbackReclaims ==
    ASSUME TypeOK, prev \in Group, NEW f \in Family, Shows(snap.fib[f], prev),
           f \in conf.gateway[prev], ~Refusable(prev, f),
           Reclaimable(fib[f], prev), NEW t \in RollbackTables(snap, f)
    PROVE  Owners(t) = {prev}
  <1>1. /\ fib[f] \in SUBSET Route /\ snap.fib[f] \in SUBSET Route
        /\ target \in Group
    BY Groups DEF TypeOK, Tables, Snapshot, target
  <1>2. GroupRoute(snap, prev, f) # {}
    BY <1>1, ShowsRoute DEF GroupRoute
  <1>3. PICK p \in ReplaceSlot(fib[f], prev, ActiveMetric) :
            t \in BestEffort(p, target, f, StandbyMetric) \/ t = p
    BY <1>2 DEF RollbackTables, Refusable, Writable
  <1>4. /\ Owners(p) = {prev} /\ \E r \in p : r.metric < StandbyMetric
        /\ p \in SUBSET Route
    BY <1>1, SlotMetrics, ClaimOwns, ReplaceSlotResult
  <1>5. QED
    BY <1>1, <1>3, <1>4, StandbyEffortKeepsOwner

\* From the commit to its rollback the old exit can reclaim what it held, and
\* still owns it where nothing was committed, or onto itself.
Untouched ==
    quiet /\ phase \in Committing \cup {"rollback", "undo"}
    => \A f \in Family :
        OldExitHeld(f) /\ ~(phase = "undo" /\ fam = "v6" /\ f = "v4") =>
            /\ Reclaimable(fib[f], prev)
            /\ prev = target \/ committed = {} => Owners(fib[f]) = {prev}
            /\ f \notin committed /\ f \in conf.capable[target]
               => Owners(fib[f]) = {prev}

LEMMA UntouchedStep ==
    ASSUME TypeOK, DemotesOldExit, NothingWritten, Consistent, CommitOrder,
           Preparing, Untouched, [Next]_vars
    PROVE  Untouched'
  <1>0. /\ target \in Group /\ fam \in Family /\ fib \in Tables
        /\ \A f \in Family : fib[f] \in SUBSET Route
        /\ conf.capable[target] \subseteq Family
    BY Groups DEF TypeOK, Tables, target, Config
  <1>1. CASE UNCHANGED vars
    BY <1>1 DEF vars, netVars, runVars, flagVars, histVars, Untouched,
                OldExitHeld, target
  <1>2. CASE \E m \in Mode, fresh \in BOOLEAN : Start(m, fresh)
    BY <1>2 DEF Start, GoTo, Untouched, Committing
  <1>3. CASE Environment
    BY <1>3, EventFrame DEF Untouched, OldExitHeld, target, Committing
  <1>4. CASE Worker
    <2> SUFFICES ASSUME quiet, phase' \in Committing \cup {"rollback", "undo"},
                        NEW f \in Family, OldExitHeld(f),
                        ~(phase' = "undo" /\ fam' = "v6" /\ f = "v4")
                 PROVE  /\ Reclaimable(fib'[f], prev)
                        /\ prev = target \/ committed' = {}
                           => Owners(fib'[f]) = {prev}
                        /\ f \notin committed' /\ f \in conf.capable[target]
                           => Owners(fib'[f]) = {prev}
      BY <1>4, WorkerFrame DEF Untouched, OldExitHeld, target
    <2>0. prev \in Group /\ f \in conf.capable[prev]
      BY HeldExit
    <2>1. CASE \/ Prepare \/ EnterWait \/ PollReady \/ PollGiveUp \/ PollAgain
               \/ Refresh \/ Verify \/ Gateway \/ Switching
      <3>1. phase \in BeforeCommit /\ UNCHANGED fib
        BY <2>1 DEF Prepare, EnterWait, PollReady, PollGiveUp, PollAgain, Refresh,
                    Verify, Gateway, Switching, AfterWait, AfterVerify, GateShut,
                    Fail, GoTo, BeforeCommit, Committing
      <3>2. Warmed(fib[f], f)
        BY <3>1 DEF Preparing
      <3>3. Owners(fib[f]) = {prev}
        BY <2>0, <3>2, PreparedKeeps DEF OldExitHeld
      <3>4. QED
        BY <1>0, <2>0, <3>1, <3>3, OwnedReclaimable
    <2>2. CASE Promote
      <3>1. PICK t \in ReplaceSlot(fib[fam], target, ActiveMetric) :
                fib' = [fib EXCEPT ![fam] = t]
        BY <2>2 DEF Promote
      <3>2. phase = "promote" /\ committed' = committed \cup {fam}
        BY <2>2 DEF Promote
      <3>3. /\ Reclaimable(fib[f], prev)
            /\ prev = target => Owners(fib[f]) = {prev}
            /\ f \notin committed /\ f \in conf.capable[target]
               => Owners(fib[f]) = {prev}
        BY <3>2 DEF Untouched, Committing
      <3>4. CASE f = fam
        <4>1. fib'[f] = t
          BY <1>0, <3>1, <3>4 DEF Tables
        <4>2. Reclaimable(t, prev)
          BY <1>0, <2>0, <3>1, <3>3, <3>4, WriteKeepsReclaimable
        <4>3. prev = target => Owners(t) = {prev}
          BY <1>0, <3>1, <3>3, <3>4, ClaimOwns
        <4>4. QED
          BY <3>2, <3>4, <4>1, <4>2, <4>3
      <3>5. CASE f # fam
        <4>1. fib'[f] = fib[f]
          BY <1>0, <3>1, <3>5 DEF Tables
        <4>2. QED
          BY <3>2, <3>3, <4>1
      <3>6. QED
        BY <3>4, <3>5
    <2>3. CASE Demote
      <3>1. PICK t \in BestEffort(fib[fam], prev, fam, StandbyMetric) :
                fib' = [fib EXCEPT ![fam] = t]
        BY <2>3 DEF Demote
      <3>2. /\ phase = "demote" /\ committed' = committed /\ fam \in committed
            /\ prev # target
        BY <1>0, <2>3 DEF Demote, flagVars, CommitOrder, DemotesOldExit, Other, Group
      <3>3. /\ Reclaimable(fib[f], prev)
            /\ f \notin committed /\ f \in conf.capable[target]
               => Owners(fib[f]) = {prev}
        BY <3>2 DEF Untouched, Committing
      <3>4. CASE f = fam
        <4>1. fib'[f] = t
          BY <1>0, <3>1, <3>4 DEF Tables
        <4>2. Reclaimable(t, prev)
          BY <1>0, <2>0, <3>1, <3>3, <3>4, WriteKeepsReclaimable DEF BestEffort
        <4>3. QED
          BY <3>2, <3>4, <4>1, <4>2
      <3>5. CASE f # fam
        <4>1. fib'[f] = fib[f]
          BY <1>0, <3>1, <3>5 DEF Tables
        <4>2. QED
          BY <3>2, <3>3, <4>1
      <3>6. QED
        BY <3>4, <3>5
    <2>4. CASE ParkHoles
      <3>1. /\ phase = "holes" /\ committed' = committed /\ committed # {}
            /\ fib'[f] \subseteq fib[f]
            /\ f \in conf.capable[target] => fib'[f] = fib[f]
        BY <2>4 DEF ParkHoles, ParkStandby, RouteDel, HoleFamilies, flagVars,
                    CommitOrder
      <3>2. CASE f \in conf.capable[target]
        BY <3>1, <3>2 DEF Untouched, Committing
      <3>3. CASE f \notin conf.capable[target]
        <4>1. prev # target /\ \A r \in fib[f] : r.grp # target
          BY <2>0, <3>3 DEF Consistent, NetworkConsistent, Fits
        <4>2. \A r \in fib'[f] : r.grp = prev
          BY <1>0, <2>0, <3>1, <4>1, MetricsAreNumbers DEF Group
        <4>3. fib'[f] \in SUBSET Route
          BY <1>0, <3>1
        <4>4. Reclaimable(fib'[f], prev)
          BY <2>0, <4>2, <4>3, AloneReclaimable
        <4>5. QED
          BY <3>1, <3>3, <4>1, <4>4
      <3>4. QED
        BY <3>2, <3>3
    <2>5. CASE PromoteFails \/ VerifyTarget \/ Settle \/ Confirm \/ Report \/ Rollback
      <3>1. /\ phase \in {"promote", "verify_target", "settle", "confirm", "report",
                          "rollback"}
            /\ UNCHANGED <<fib, committed>>
        BY <2>5 DEF PromoteFails, VerifyTarget, Settle, Confirm, Report, Rollback, flagVars
      <3>2. QED
        BY <3>1 DEF Untouched, Committing
    <2>6. CASE Undo
      <3>1. phase = "undo" /\ fam = "v4" /\ f = "v6" /\ committed' = committed
        BY <1>0, <2>6 DEF Undo, GoTo, Family, Committing, flagVars
      <3>2. fib'[f] = fib[f]
        BY <1>0, <2>6, <3>1 DEF Undo, Tables
      <3>3. QED
        BY <3>1, <3>2 DEF Untouched
    <2>7. CASE Converge \/ Finish
      <3>1. FALSE
        BY <2>7 DEF Converge, Finish, GoTo, Committing
      <3>2. QED
        BY <3>1
    <2>8. QED
      BY <1>4, <2>1, <2>2, <2>3, <2>4, <2>5, <2>6, <2>7 DEF Worker
  <1>5. QED
    BY <1>1, <1>2, <1>3, <1>4 DEF Next

\* Where the rollback has been, the old exit carries the family again.  A
\* family the target has no section for may be left, with the old exit's
\* routes alone, for the convergence, which then goes onto the old exit.
Restoring ==
    quiet /\ OldExitHeld("v4") /\ "v4" \in conf.gateway[prev]
    => /\ \/ phase = "undo" /\ fam = "v6"
          \/ phase \in {"converge", "finish"}
          => Owners(fib["v4"]) = {prev}
       /\ phase = "converge" /\ fam = "v6" => chosen = prev
       /\ OldExitHeld("v6") /\ "v6" \in conf.gateway[prev]
          => /\ phase = "converge"
                => Owners(fib["v6"]) = {prev} \/ "v6" \notin conf.capable[target]
             /\ phase = "finish" => Owners(fib["v6"]) = {prev}

\* In a family the target has no section for, the old exit is alone.
LEMMA AloneInHole ==
    ASSUME TypeOK, Consistent, OldExitHeld("v6"), "v6" \notin conf.capable[target]
    PROVE  /\ prev # target /\ \A r \in fib["v6"] : r.grp = prev
           /\ Reclaimable(fib["v6"], prev)
           /\ fib["v6"] # {} => Owners(fib["v6"]) = {prev}
  <1>0. /\ "v6" \in Family /\ target \in Group /\ fib["v6"] \in SUBSET Route
    BY Groups DEF TypeOK, Tables, target, Family
  <1>1. prev \in Group /\ prev # target
    BY <1>0, HeldExit
  <1>2. \A r \in fib["v6"] : r.grp = prev
    <2> SUFFICES ASSUME NEW r \in fib["v6"] PROVE r.grp = prev
      OBVIOUS
    <2>1. r.grp \in Group /\ r.grp # target
      BY <1>0, MetricsAreNumbers DEF Consistent, NetworkConsistent, Fits
    <2>2. QED
      BY <1>0, <1>1, <2>1 DEF Group
  <1>3. Reclaimable(fib["v6"], prev)
    BY <1>0, <1>1, <1>2, AloneReclaimable
  <1>4. fib["v6"] # {} => Owners(fib["v6"]) = {prev}
    <2>1. \A w \in Winners(fib["v6"]) : w.grp = prev
      BY <1>2 DEF Winners
    <2>2. QED
      BY <1>0, <2>1, OwnerByWinners
  <1>5. QED
    BY <1>1, <1>2, <1>3, <1>4

\* The step of the rollback that handles family f leaves it with the old exit,
\* or has nothing to undo there.
LEMMA UndoRestores ==
    ASSUME TypeOK, Consistent, CommitOrder, OldExitStays, Untouched, quiet,
           Undo, OldExitHeld(fam), fam \in conf.gateway[prev]
    PROVE  \/ Owners(fib'[fam]) = {prev}
           \/ committed # {} /\ fam \notin conf.capable[target]
  <1>0. /\ fam \in Family /\ fib \in Tables /\ phase = "undo"
        /\ prev \in Group /\ OldRoute(fam) /\ ~Refusable(prev, fam)
        /\ target \in Group
    BY HeldExit, Groups DEF TypeOK, Undo, target
  <1>1. /\ Reclaimable(fib[fam], prev)
        /\ prev = target \/ committed = {} => Owners(fib[fam]) = {prev}
        /\ fam \notin committed /\ fam \in conf.capable[target]
           => Owners(fib[fam]) = {prev}
    BY <1>0 DEF Untouched, Family
  <1>2. PICK t \in IF fam \in committed /\ prev = Other(target)
                   THEN RollbackTables(snap, fam) ELSE {fib[fam]} :
            fib' = [fib EXCEPT ![fam] = t]
    BY DEF Undo
  <1>3. fib'[fam] = t
    BY <1>0, <1>2 DEF Tables
  <1>4. CASE fam \in committed /\ prev = Other(target)
    <2>1. fam \in conf.capable[target]
      BY <1>4 DEF CommitOrder
    <2>2. Shows(snap.fib[fam], prev)
      BY <1>0, <1>4, <2>1 DEF OldExitStays, Undoing
    <2>3. QED
      BY <1>0, <1>1, <1>2, <1>3, <1>4, <2>2, RollbackReclaims
  <1>5. CASE ~(fam \in committed /\ prev = Other(target))
    <2>1. fib'[fam] = fib[fam]
      BY <1>2, <1>3, <1>5
    <2>2. prev = target \/ fam \notin committed
      BY <1>0, <1>5 DEF Other, Group
    <2>3. QED
      BY <1>1, <2>1, <2>2
  <1>6. QED
    BY <1>4, <1>5

\* The convergence of family v4 keeps it, and goes onto the old exit or leaves
\* the families as they are; that of v6 gives it the family as well.
LEMMA ConvergeRestores ==
    ASSUME TypeOK, Consistent, Restoring, quiet, OldExitHeld("v4"),
           "v4" \in conf.gateway[prev], Converge
    PROVE  /\ Owners(fib'["v4"]) = {prev}
           /\ phase' = "converge" => fib'["v6"] = fib["v6"] /\ chosen' = prev
           /\ phase' = "finish" /\ OldExitHeld("v6") /\ "v6" \in conf.gateway[prev]
              => Owners(fib'["v6"]) = {prev}
  <1>0. /\ fib \in Tables /\ phase = "converge" /\ "v4" \in Family /\ "v6" \in Family
        /\ prev \in Group /\ prev # "none" /\ Owners(fib["v4"]) = {prev}
        /\ fam \in Family /\ conf.capable[prev] \subseteq Family
    BY HeldExit DEF TypeOK, Converge, Restoring, Family, Group, Config
  <1>1. PICK s6 \in Owners(fib["v6"]) :
          LET onto == IF fam = "v6" THEN chosen
                      ELSE IF prev = s6 THEN "none" ELSE prev
          IN  /\ chosen' = onto
              /\ IF onto = "none"
                 THEN UNCHANGED fib
                 ELSE \E t \in CommitTables(snap, fam, onto) :
                          fib' = [fib EXCEPT ![fam] = t]
              /\ IF fam = "v4" /\ onto # "none"
                 THEN GoTo("converge", "v6") ELSE GoTo("finish", "v4")
    BY <1>0 DEF Converge, ConvergeOwners
  <1>2. CASE fam = "v4" /\ prev = s6
    <2>1. fib' = fib
      BY <1>1, <1>2
    <2>2. phase' = "finish"
      BY <1>1, <1>2 DEF GoTo
    <2>3. ASSUME OldExitHeld("v6"), "v6" \in conf.gateway[prev]
          PROVE  Owners(fib["v6"]) = {prev}
      <3>1. Owners(fib["v6"]) = {prev} \/ "v6" \notin conf.capable[target]
        BY <1>0, <2>3 DEF Restoring
      <3>2. fib["v6"] # {}
        BY <1>0, <1>2 DEF Owners
      <3>3. QED
        BY <2>3, <3>1, <3>2, AloneInHole
    <2>4. QED
      BY <1>0, <2>1, <2>2, <2>3
  <1>3. CASE fam = "v4" /\ prev # s6
    <2>1. /\ chosen' = prev /\ phase' = "converge"
          /\ \E t \in CommitTables(snap, "v4", prev) :
                fib' = [fib EXCEPT !["v4"] = t]
      BY <1>0, <1>1, <1>3 DEF GoTo
    <2>2. PICK t \in CommitTables(snap, "v4", prev) :
                fib' = [fib EXCEPT !["v4"] = t]
      BY <2>1
    <2>3. Owners(t) = {prev}
      BY <1>0, <2>2, CommitKeepsOwner
    <2>4. fib'["v4"] = t /\ fib'["v6"] = fib["v6"]
      BY <1>0, <2>2 DEF Tables
    <2>5. QED
      BY <2>1, <2>3, <2>4
  <1>4. CASE fam = "v6"
    <2>1. chosen = prev
      BY <1>0, <1>4 DEF Restoring
    <2>2. PICK t \in CommitTables(snap, "v6", prev) :
                fib' = [fib EXCEPT !["v6"] = t]
      BY <1>0, <1>1, <1>4, <2>1
    <2>3. fib'["v6"] = t /\ fib'["v4"] = fib["v4"]
      BY <1>0, <2>2 DEF Tables
    <2>4. phase' = "finish"
      BY <1>1, <1>4 DEF GoTo
    <2>5. ASSUME OldExitHeld("v6"), "v6" \in conf.gateway[prev]
          PROVE  Owners(t) = {prev}
      <3>1. CASE Owners(fib["v6"]) = {prev}
        BY <1>0, <2>2, <3>1, CommitKeepsOwner
      <3>2. CASE "v6" \notin conf.capable[target]
        <4>1. Reclaimable(fib["v6"], prev)
          BY <2>5, <3>2, AloneInHole
        <4>2. "v6" \in conf.capable[prev] /\ ~Refusable(prev, "v6")
          BY <1>0, <2>5, HeldExit
        <4>3. HasHop(snap, prev, "v6")
          <5>1. <<prev, "v6">> \in Hop
            BY <1>0 DEF Hop
          <5>2. QED
            BY <2>5, <4>2, <5>1 DEF HasHop, Consistent, NetworkConsistent, HopsKnown
        <4>4. QED
          BY <1>0, <2>2, <4>1, <4>2, <4>3, CommitReclaims
      <3>3. QED
        BY <1>0, <2>5, <3>1, <3>2 DEF Restoring
    <2>6. QED
      BY <1>0, <2>3, <2>4, <2>5
  <1>5. QED
    BY <1>0, <1>2, <1>3, <1>4 DEF Family

LEMMA RestoringStep ==
    ASSUME TypeOK, Consistent, CommitOrder, OldExitStays, Untouched, Restoring,
           [Next]_vars
    PROVE  Restoring'
  <1>0. /\ target \in Group /\ fam \in Family /\ fib \in Tables
        /\ "v4" \in Family /\ "v6" \in Family
    BY Groups DEF TypeOK, target, Family
  <1>1. CASE UNCHANGED vars
    BY <1>1 DEF vars, netVars, runVars, flagVars, histVars, Restoring,
                OldExitHeld, target
  <1>2. CASE \E m \in Mode, fresh \in BOOLEAN : Start(m, fresh)
    BY <1>2 DEF Start, GoTo, Restoring
  <1>3. CASE Environment
    BY <1>3, EventFrame DEF Restoring, OldExitHeld, target
  <1>4. CASE Worker
    <2> SUFFICES ASSUME quiet, OldExitHeld("v4"), "v4" \in conf.gateway[prev]
                 PROVE  /\ \/ phase' = "undo" /\ fam' = "v6"
                           \/ phase' \in {"converge", "finish"}
                           => Owners(fib'["v4"]) = {prev}
                        /\ phase' = "converge" /\ fam' = "v6" => chosen' = prev
                        /\ OldExitHeld("v6") /\ "v6" \in conf.gateway[prev]
                           => /\ phase' = "converge"
                                 => \/ Owners(fib'["v6"]) = {prev}
                                    \/ "v6" \notin conf.capable[target]
                              /\ phase' = "finish" => Owners(fib'["v6"]) = {prev}
      BY <1>4, WorkerFrame DEF Restoring, OldExitHeld, target
    <2>1. CASE Undo /\ fam = "v4"
      <3>1. phase = "undo" /\ phase' = "undo" /\ fam' = "v6"
        BY <2>1 DEF Undo, GoTo
      <3>2. \/ Owners(fib'["v4"]) = {prev}
            \/ committed # {} /\ "v4" \notin conf.capable[target]
        BY <2>1, UndoRestores
      <3>3. committed # {} => "v4" \in conf.capable[target]
        BY DEF CommitOrder
      <3>4. QED
        BY <3>1, <3>2, <3>3
    <2>2. CASE Undo /\ fam = "v6"
      <3>1. /\ phase = "undo" /\ phase' = IF committed # {} THEN "converge" ELSE "finish"
            /\ fam' = "v4"
        BY <2>2 DEF Undo, GoTo
      <3>2. fib'["v4"] = fib["v4"] /\ Owners(fib["v4"]) = {prev}
        BY <1>0, <2>2, <3>1 DEF Undo, Tables, Restoring
      <3>3. OldExitHeld("v6") /\ "v6" \in conf.gateway[prev]
            => \/ Owners(fib'["v6"]) = {prev}
               \/ committed # {} /\ "v6" \notin conf.capable[target]
        BY <2>2, UndoRestores
      <3>4. QED
        BY <3>1, <3>2, <3>3
    <2>3. CASE Converge
      <3>1. phase = "converge" /\ phase' \in {"converge", "finish"}
        BY <2>3 DEF Converge, GoTo
      <3>2. OldExitHeld("v6") /\ "v6" \in conf.gateway[prev]
            => Owners(fib["v6"]) = {prev} \/ "v6" \notin conf.capable[target]
        BY <3>1 DEF Restoring
      <3>3. QED
        BY <2>3, <3>1, <3>2, ConvergeRestores
    <2>4. CASE ~Undo /\ ~Converge
      <3>1. /\ phase' \notin {"converge", "finish"}
            /\ phase' = "undo" => fam' = "v4"
        BY <1>4, <2>4
           DEF Worker, Prepare, EnterWait, PollReady, PollGiveUp, PollAgain,
               Refresh, Verify, Gateway, Switching, Promote, PromoteFails,
               Demote, ParkHoles, VerifyTarget, Settle, Confirm, Report, Rollback, Finish,
               AfterWait, AfterVerify, AfterCommit, AfterConfirm, GateShut,
               Fail, GoTo
      <3>2. QED
        BY <3>1
    <2>5. QED
      BY <1>0, <2>1, <2>2, <2>3, <2>4 DEF Family
  <1>5. QED
    BY <1>1, <1>2, <1>3, <1>4 DEF Next

\* It still does when the failure is reported.
LEMMA RollbackRestoresStep ==
    ASSUME TypeOK, Unreported, Restoring, RollbackRestores, [Next]_vars
    PROVE  RollbackRestores'
  <1>1. CASE UNCHANGED vars
    BY <1>1 DEF vars, netVars, runVars, flagVars, histVars, RollbackRestores,
                OldExitHeldBoth, OldExitHeld
  <1>2. CASE \E m \in Mode, fresh \in BOOLEAN : Start(m, fresh)
    BY <1>2 DEF Start, GoTo, RollbackRestores
  <1>3. CASE Environment
    BY <1>3, EventFrame DEF RollbackRestores
  <1>4. CASE Worker
    <2>1. phase # "idle" /\ result = "none"
      BY <1>4 DEF Worker, Prepare, EnterWait, PollReady, PollGiveUp, PollAgain,
                  Refresh, Verify, Gateway, Switching, Promote, PromoteFails,
                  Demote, ParkHoles, VerifyTarget, Settle, Confirm, Report, Rollback, Undo,
                  Converge, Finish, Unreported
    <2>2. CASE Finish
      <3>1. /\ phase = "finish" /\ fib' = fib
            /\ UNCHANGED <<conf, addr, start, quiet, prev>>
        BY <1>4, <2>2, WorkerFrame DEF Finish
      <3>2. SUFFICES ASSUME quiet, OldExitHeldBoth, "v4" \in conf.gateway[prev],
                            NEW f \in conf.gateway[prev],
                            Owners(start.fib[f]) = {prev}
                     PROVE  Owners(fib[f]) = {prev}
        BY <3>1 DEF RollbackRestores, OldExitHeldBoth, OldExitHeld
      <3>3. f \in Family /\ prev \in Group /\ OldExitHeld("v4")
        BY <3>2 DEF TypeOK, Config, OldExitHeldBoth, Family
      <3>4. CASE f = "v4"
        BY <3>1, <3>2, <3>3, <3>4 DEF Restoring
      <3>5. CASE f = "v6"
        <4>1. start.fib["v6"] # {}
          BY <3>2, <3>3, <3>5 DEF Owners, Group
        <4>2. OldExitHeld("v6")
          BY <3>2, <3>5, <4>1 DEF OldExitHeldBoth, Family
        <4>3. QED
          BY <3>1, <3>2, <3>3, <3>5, <4>2 DEF Restoring
      <3>6. QED
        BY <3>3, <3>4, <3>5 DEF Family
    <2>3. CASE ~Finish
      <3>1. result' # "failed"
        BY <1>4, <2>1, <2>3
           DEF Worker, Prepare, EnterWait, PollReady, PollGiveUp, PollAgain,
               Refresh, Verify, Gateway, Switching, Promote, PromoteFails,
               Demote, ParkHoles, VerifyTarget, Settle, Confirm, Report, Rollback, Undo, Converge
      <3>2. QED
        BY <3>1 DEF RollbackRestores
    <2>4. QED
      BY <2>2, <2>3
  <1>5. QED
    BY <1>1, <1>2, <1>3, <1>4 DEF Next

-----------------------------------------------------------------------------
(***************************************************************************)
(* The theorems about the old exit                                         *)
(***************************************************************************)

\* How far the tables can be from those the switch started with.
ExitInv == Consistent /\ CommitOrder /\ Preparing /\ OldExitStays /\ Untouched
                      /\ Restoring

\* The network at rest agrees with the deployment, and no switch runs.
LEMMA ExitInit == Init => ExitInv /\ OldExitKept /\ RollbackRestores
  <1> SUFFICES ASSUME Init PROVE ExitInv /\ OldExitKept /\ RollbackRestores
    OBVIOUS
  <1>1. NetworkConsistent
    BY SwitchAssumption, AtRestConsistent DEF Init
  <1>2. /\ phase = "idle" /\ committed = {} /\ result = "none"
        /\ snap.fib = fib /\ start.fib = fib
    BY DEF Init
  <1>3. Consistent
    BY <1>1, <1>2 DEF Consistent, NetworkConsistent
  <1>4. QED
    BY <1>2, <1>3
       DEF ExitInv, CommitOrder, Preparing, OldExitStays, Untouched, Restoring,
           OldExitKept, RollbackRestores, Committing, Undoing, BeforeCommit

\* It is an invariant of the transaction.
LEMMA ExitInvariant == Spec => []ExitInv
  <1>1. Init => ExitInv
    BY ExitInit
  <1>2. IInv /\ ExitInv /\ [Next]_vars => ExitInv'
    BY ConsistentStep, CommitOrderStep, PreparingStep, OldExitStaysStep,
       UntouchedStep, RestoringStep DEF IInv, ExitInv
  <1>3. QED
    BY <1>1, <1>2, Inductive, PTL DEF Spec

\* A committed switch leaves the old exit a default route in every family it
\* carried and the target can carry, in every deployment and for any number of
\* switches before it: what the next switch or a failover falls back on.
THEOREM OldExitKeptSafe == Spec => []OldExitKept
  <1>1. Init => OldExitKept
    BY ExitInit
  <1>2. IInv /\ ExitInv /\ OldExitKept /\ [Next]_vars => OldExitKept'
    BY OldExitKeptStep DEF IInv, ExitInv
  <1>3. QED
    BY <1>1, <1>2, Inductive, ExitInvariant, PTL DEF Spec

\* A failed switch gives both families back to the exit that held them, at
\* whatever step it failed and whether or not the refused writes of its own
\* rollback of the target succeed.
THEOREM RollbackRestoresSafe == Spec => []RollbackRestores
  <1>1. Init => RollbackRestores
    BY ExitInit
  <1>2. IInv /\ ExitInv /\ RollbackRestores /\ [Next]_vars => RollbackRestores'
    BY RollbackRestoresStep DEF IInv, ExitInv
  <1>3. QED
    BY <1>1, <1>2, Inductive, ExitInvariant, PTL DEF Spec
-----------------------------------------------------------------------------
(***************************************************************************)
(* What a reported commit means                                            *)
(***************************************************************************)

\* From the plan write to the report, the target's sections hold the metric of
\* the active slot.
PlanInForce ==
    phase \in Committing
    => \A f \in conf.capable[target] :
            plan[target][f].metric = ActiveMetric
            /\ plan[target][f].defaultroute = 1

\* From the end of the settle window to the report, the target carries what
\* gates the switch as long as the network is steady.
TargetCarries ==
    phase \in {"confirm", "report"} /\ steady
    => \A f \in conf.capable[target] : Gates(f) =>
            Owners(fib[f]) = {target} /\ StandbyBelow(target, f)

\* Where no route is restricted to a source prefix, the other exit is strictly
\* below the one that owns the slot: it loses on its metric.
LEMMA OwnerAboveStandby ==
    ASSUME fib \in Tables, NEW g \in Group, NEW f \in Family,
           \A r \in fib[f] : ~r.src, Owners(fib[f]) = {g}
    PROVE  StandbyBelow(g, f)
  <1>1. \A w \in Winners(fib[f]) : w.grp = g
    BY DEF Owners, Group
  <1>2. ASSUME NEW r \in GroupDefaultRoute(fib[f], Other(g)),
               NEW w \in Winners(fib[f])
        PROVE  r.metric > w.metric
    <2>1. r \in fib[f] /\ r.grp # g /\ w \in fib[f]
      <3>1. r \in fib[f] /\ r.grp = Other(g) /\ w \in fib[f]
        BY DEF GroupDefaultRoute, Winners
      <3>2. QED
        BY <3>1 DEF Other, Group
    <2>2. \A s \in fib[f] : s \in Route /\ s.metric \in Nat /\ ~s.src
      BY MetricsAreNumbers DEF Tables
    <2>3. \A s \in fib[f] : Rank(s) = 2 * s.metric
      BY <2>2 DEF Rank
    <2>4. r \notin Winners(fib[f])
      BY <1>1, <2>1
    <2>5. PICK s \in fib[f] : ~(Rank(r) <= Rank(s))
      BY <2>1, <2>4 DEF Winners
    <2>6. Rank(w) <= Rank(s)
      BY <2>5 DEF Winners
    <2>7. QED
      BY <2>1, <2>2, <2>3, <2>5, <2>6
  <1>3. QED
    BY <1>2 DEF StandbyBelow

\* A family that gates the target, as verify_commit leaves it when it succeeds:
\* it runs over the target alone, and the other exit is strictly below.  IPv6
\* gates only where every check must pass; in IPv4 the owner check must, and
\* the rest follows.
LEMMA VerifiedFamily ==
    ASSUME TypeOK, NEW s, NEW g \in Group, VerifyCommit(s, g),
           NEW f \in conf.capable[g], Gates(f), Fits(fib[f], f)
    PROVE  Owners(fib[f]) = {g} /\ StandbyBelow(g, f)
  <1>1. f \in Family
    BY DEF TypeOK, Config
  <1>2. CASE f = "v4"
    <2>1. 1 \notin FailedChecks(s, g)
      <3>1. CASE FailedChecks(s, g) = {}
        BY <3>1
      <3>2. CASE FailedChecks(s, g) # {}
        <4>1. PICK i \in FailedChecks(s, g) :
                  i % 2 = 0 /\ \A j \in FailedChecks(s, g) : i <= j
          BY <3>2 DEF VerifyCommit
        <4>2. i \in 1..6 /\ i # 1
          BY <4>1 DEF FailedChecks
        <4>3. QED
          BY <4>1, <4>2
      <3>3. QED
        BY <3>1, <3>2
    <2>2. OwnsSlot(g, f)
      BY <1>2, <2>1 DEF FailedChecks
    <2>3. Owners(fib[f]) = {g}
      BY <2>2 DEF OwnsSlot, Capable
    <2>4. \A r \in fib[f] : ~r.src
      BY <1>2 DEF Fits
    <2>5. QED
      BY <1>1, <2>3, <2>4, OwnerAboveStandby DEF TypeOK
  <1>3. CASE f = "v6"
    <2>1. FailedChecks(s, g) = {}
      BY <1>3 DEF VerifyCommit, Gates
    <2>2. OwnsSlot(g, f)
      <3>1. 2 \notin FailedChecks(s, g)
        BY <2>1
      <3>2. QED
        BY <1>3, <3>1 DEF FailedChecks
    <2>3. StandbyBelow(g, f)
      <3>1. 4 \notin FailedChecks(s, g)
        BY <2>1
      <3>2. QED
        BY <1>3, <3>1 DEF FailedChecks
    <2>4. QED
      BY <2>2, <2>3 DEF OwnsSlot, Capable
  <1>4. QED
    BY <1>1, <1>2, <1>3 DEF Family

\* No step after the plan write changes what it wrote for the target, until
\* the switch is rolled back or ends.
LEMMA PlanStep == TypeOK /\ PlanInForce /\ [Next]_vars => PlanInForce'
  <1> SUFFICES ASSUME TypeOK, PlanInForce, [Next]_vars PROVE PlanInForce'
    OBVIOUS
  <1>1. CASE \E m \in Mode, fresh \in BOOLEAN : Start(m, fresh)
    BY <1>1 DEF Start, GoTo, PlanInForce, Committing
  <1>2. CASE Environment
    BY <1>2 DEF Environment, LinkDown, SectionUp, RouteWithdrawn, NewRequest,
                Crash, GoTo, Event, runVars, netVars, target, PlanInForce,
                Committing, LoseLink, RaiseSection, WithdrawRoute
  <1>3. CASE UNCHANGED vars
    BY <1>3 DEF vars, netVars, fileVars, runVars, target, PlanInForce
  <1>4. CASE Worker
    <2> USE DEF GoTo, netVars, fileVars, runVars, target, PlanInForce,
            Committing
    <2>1. CASE Switching
      <3>1. CASE phase' = "promote"
        <4>1. plan' = PolicyPlan(tmode) /\ conf' = conf /\ tmode' = tmode
          BY <2>1, <3>1 DEF Switching, Fail
        <4>2. \A f \in conf.capable[target] : f \in Family
          BY Groups DEF TypeOK, Config
        <4>3. /\ PolicyMetric(tmode, target) = ActiveMetric
              /\ PolicyDefaultRoute(tmode, target) = 1
          BY DEF PolicyMetric, PolicyDefaultRoute
        <4>4. target \in Group
          BY Groups DEF TypeOK
        <4>5. \A f \in conf.capable[target] :
                 plan'[target][f] = [metric |-> ActiveMetric, defaultroute |-> 1]
          BY <4>1, <4>2, <4>3, <4>4 DEF PolicyPlan, Capable
        <4>6. QED
          BY <4>1, <4>5
      <3>2. CASE phase' # "promote"
        BY <2>1, <3>2 DEF Switching, Fail
      <3>3. QED
        BY <3>1, <3>2
    <2>2. CASE ParkHoles
      <3>1. plan'[target] = plan[target] /\ conf' = conf /\ tmode' = tmode
        BY <2>2, Groups DEF ParkHoles, TypeOK, Other, Group, ParkStandby
      <3>2. phase = "holes"
        BY <2>2 DEF ParkHoles, ParkStandby
      <3>3. QED
        BY <3>1, <3>2
    <2>3. CASE \/ Promote \/ PromoteFails \/ Demote \/ VerifyTarget \/ Settle
               \/ Confirm \/ Report
      BY <2>3 DEF Promote, PromoteFails, Demote, VerifyTarget, Settle, Confirm,
                  Report, AfterCommit, AfterConfirm, Fail
    <2>4. CASE \/ Prepare \/ EnterWait \/ PollReady \/ PollGiveUp \/ PollAgain
               \/ Refresh \/ Verify \/ Gateway
      BY <2>4 DEF Prepare, EnterWait, PollReady, PollGiveUp, PollAgain, Refresh,
                  Verify, Gateway, AfterWait, AfterVerify, GateShut, Fail
    <2>5. CASE Rollback \/ Undo \/ Converge \/ Finish
      BY <2>5 DEF Rollback, Undo, Converge, Finish, ConvergeOwners
    <2>6. QED
      BY <1>4, <2>1, <2>2, <2>3, <2>4, <2>5 DEF Worker
  <1>5. QED
    BY <1>1, <1>2, <1>3, <1>4 DEF Next

\* While the target is probed once more the tables are the verified ones, or
\* the network was not steady.
LEMMA CarriesStep ==
    ASSUME TypeOK, Consistent, TargetCarries, [Next]_vars
    PROVE  TargetCarries'
  <1>1. CASE UNCHANGED vars
    BY <1>1 DEF vars, netVars, runVars, histVars, TargetCarries, StandbyBelow,
                Gates, target
  <1>2. CASE \E m \in Mode, fresh \in BOOLEAN : Start(m, fresh)
    BY <1>2 DEF Start, TargetCarries
  <1>3. CASE Environment
    <2>1. \/ steady' = FALSE
          \/ phase' = "idle"
          \/ UNCHANGED <<conf, fib, phase, tmode, steady>>
      BY <1>3 DEF Environment, LinkDown, SectionUp, RouteWithdrawn, NewRequest,
                  Crash, Event, GoTo, runVars
    <2>2. QED
      BY <2>1 DEF TargetCarries, StandbyBelow, Gates, target
  <1>4. CASE Settle
    <2>1. /\ VerifyCommit(Live, target) \/ phase' = "rollback"
          /\ UNCHANGED <<conf, fib, tmode>>
      BY <1>4 DEF Settle, Fail, GoTo, netVars, runVars
    <2>2. \A f \in conf.capable[target] : f \in Family /\ Fits(fib[f], f)
      BY Groups DEF TypeOK, Config, target, Consistent, NetworkConsistent
    <2>3. CASE VerifyCommit(Live, target)
      <3>1. \A f \in conf.capable[target] : Gates(f) =>
                Owners(fib[f]) = {target} /\ StandbyBelow(target, f)
        BY <2>2, <2>3, Groups, VerifiedFamily DEF TypeOK, target
      <3>2. QED
        BY <2>1, <3>1 DEF TargetCarries, StandbyBelow, Gates, target
    <2>4. QED
      BY <2>1, <2>3 DEF TargetCarries
  <1>5. CASE Confirm \/ Report
    <2>1. /\ phase \in {"confirm", "report"}
          /\ UNCHANGED <<conf, fib, tmode, steady>>
      BY <1>5 DEF Confirm, Report, netVars, runVars, histVars
    <2>2. QED
      BY <2>1 DEF TargetCarries, StandbyBelow, Gates, target
  <1>6. CASE Worker /\ ~Settle /\ ~Confirm /\ ~Report
    <2>1. phase' \notin {"confirm", "report"}
      BY <1>6 DEF Worker, Prepare, EnterWait, PollReady, PollGiveUp, PollAgain,
                  Refresh, Verify, Gateway, Switching, Promote, PromoteFails,
                  Demote, ParkHoles, VerifyTarget, Rollback, Undo, Converge,
                  Finish, AfterWait, AfterVerify, AfterCommit, GateShut, Fail,
                  GoTo
    <2>2. QED
      BY <2>1 DEF TargetCarries
  <1>7. QED
    BY <1>1, <1>2, <1>3, <1>4, <1>5, <1>6 DEF Next

\* A switch reports ok only with the target's sections at the metric of the
\* active slot in every family that gates it; and each of these families runs
\* over the target alone, the other exit strictly below, unless the network
\* changed after the settle window ended.
THEOREM CommitMeansTarget == Spec => CommittedExit
  <1>1. Init => PlanInForce /\ TargetCarries
    BY DEF Init, PlanInForce, TargetCarries, Committing, AtRest
  <1>2. IInv /\ ExitInv /\ PlanInForce /\ TargetCarries /\ [Next]_vars
        => (PlanInForce /\ TargetCarries)'
    BY PlanStep, CarriesStep DEF IInv, ExitInv
  <1>3. IInv /\ PlanInForce /\ TargetCarries /\ [Next]_vars =>
          [phase = "report" /\ result' = "ok" =>
            \A f \in conf.capable[target] : Gates(f) =>
                /\ plan'[target][f].metric = ActiveMetric
                /\ plan'[target][f].defaultroute = 1
                /\ steady => /\ Owners(fib'[f]) = {target}
                             /\ StandbyBelow(target, f)']_vars
    <2> SUFFICES ASSUME IInv, PlanInForce, TargetCarries, Next,
                        phase = "report", result' = "ok",
                        NEW f \in conf.capable[target], Gates(f)
                 PROVE  /\ plan'[target][f].metric = ActiveMetric
                        /\ plan'[target][f].defaultroute = 1
                        /\ steady => /\ Owners(fib'[f]) = {target}
                                     /\ StandbyBelow(target, f)'
      OBVIOUS
    <2>1. /\ plan[target][f].metric = ActiveMetric
          /\ plan[target][f].defaultroute = 1
          /\ steady => Owners(fib[f]) = {target} /\ StandbyBelow(target, f)
      BY DEF PlanInForce, Committing, TargetCarries
    <2>2. Worker
      <3>1. result = "none"
        BY DEF IInv, Unreported
      <3>2. ~Environment
        BY <3>1 DEF Environment, LinkDown, SectionUp, RouteWithdrawn, NewRequest,
                    Crash, LoseLink, RaiseSection, WithdrawRoute
      <3>3. ~\E m \in Mode, fresh \in BOOLEAN : Start(m, fresh)
        BY DEF Start
      <3>4. QED
        BY <3>2, <3>3 DEF Next
    <2>3. Report
      BY <2>2 DEF Worker, Prepare, EnterWait, PollReady, PollGiveUp, PollAgain,
                  Refresh, Verify, Gateway, Switching, Promote, PromoteFails,
                  Demote, ParkHoles, VerifyTarget, Settle, Confirm, Rollback,
                  Undo, Converge, Finish
    <2>4. UNCHANGED <<fib, plan, tmode>>
      BY <2>3 DEF Report, fileVars, runVars
    <2>5. QED
      BY <2>1, <2>4 DEF StandbyBelow, target
  <1>4. QED
    BY <1>1, <1>2, <1>3, Inductive, ExitInvariant, PTL DEF Spec, CommittedExit
=============
