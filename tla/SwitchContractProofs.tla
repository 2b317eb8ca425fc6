------------------------ MODULE SwitchContractProofs ------------------------
(***************************************************************************)
(* Every behaviour of SwitchTransaction is one of SwitchContract, for      *)
(* every deployment and every bound: waits, probes, single route writes    *)
(* and changes of the network are stutters of the contract.                *)
(***************************************************************************)
EXTENDS SwitchTransactionProofs

Deciding == {"promote", "demote", "holes", "verify_target", "settle", "confirm",
             "report"}
PutBack  == {"undo", "converge", "finish"}

\* What the latch, the plan and the list of committed families say where the
\* worker is; a step cannot be mapped to the contract without it.
CInv ==
    /\ phase # "idle" /\ superseded => newer
    /\ phase \in Deciding => planWritten
    /\ phase # "idle" /\ ~planWritten => committed = {}
    /\ phase \in PutBack /\ planWritten => mode = cfgMode
    /\ phase = "promote" /\ fam = "v6" => "v4" \in committed
    /\ phase = "demote" => "v4" \in committed /\ fam \in committed
    /\ phase = "promote" => fam \in Family
    /\ phase \in {"holes", "verify_target", "settle", "confirm", "report"} =>
            \A f \in Family : Gates(f) => f \in committed

\* The worker starts idle.
LEMMA CInvInit == Init => CInv
  BY DEF Init, CInv, Deciding, PutBack

\* Every step of the worker keeps CInv.
LEMMA CInvWorker == TypeOK /\ NothingWritten /\ CInv /\ Worker => CInv'
  <1> SUFFICES ASSUME TypeOK, NothingWritten, CInv, Worker PROVE CInv'
    OBVIOUS
  <1> USE DEF CInv, NothingWritten, BeforeCommit, Deciding, PutBack, GoTo, Gates,
              netVars, fileVars, runVars, flagVars
  <1>1. CASE Prepare
    BY <1>1 DEF Prepare
  <1>2. CASE EnterWait
    BY <1>2 DEF EnterWait, AfterWait, GateShut, GateOpen
  <1>3. CASE PollReady
    BY <1>3 DEF PollReady, AfterWait
  <1>4. CASE PollGiveUp
    BY <1>4 DEF PollGiveUp, AfterWait, GateShut, GateOpen, Fail
  <1>5. CASE PollAgain
    BY <1>5 DEF PollAgain
  <1>6. CASE Refresh
    BY <1>6 DEF Refresh
  <1>7. CASE Verify
    BY <1>7 DEF Verify, AfterVerify, GateShut, GateOpen, Fail
  <1>8. CASE Gateway
    BY <1>8 DEF Gateway, Fail
  <1>9. CASE Switching
    BY <1>9 DEF Switching, Fail, GateOpen, Family
  <1>10. CASE Promote
    BY <1>10 DEF Promote, AfterCommit, TypeOK, Family
  <1>11. CASE PromoteFails
    BY <1>11 DEF PromoteFails, AfterCommit, Fail, TypeOK, Family
  <1>12. CASE Demote
    BY <1>12 DEF Demote, AfterCommit, TypeOK, Family
  <1>13. CASE ParkHoles
    BY <1>13 DEF ParkHoles, ParkStandby
  <1>14. CASE VerifyTarget
    BY <1>14 DEF VerifyTarget, Fail
  <1>15. CASE Settle \/ Confirm \/ Report
    BY <1>15 DEF Settle, Confirm, Report, AfterConfirm, Fail
  <1>16. CASE Rollback
    BY <1>16 DEF Rollback
  <1>17. CASE Undo
    BY <1>17 DEF Undo
  <1>18. CASE Converge
    BY <1>18 DEF Converge
  <1>19. CASE Finish
    BY <1>19 DEF Finish
  <1>20. QED
    BY <1>1, <1>2, <1>3, <1>4, <1>5, <1>6, <1>7, <1>8, <1>9, <1>10, <1>11,
       <1>12, <1>13, <1>14, <1>15, <1>16, <1>17, <1>18, <1>19 DEF Worker

\* So does everything else.
LEMMA CInvStep == TypeOK /\ NothingWritten /\ CInv /\ [Next]_vars => CInv'
  <1> SUFFICES ASSUME TypeOK, NothingWritten, CInv, [Next]_vars PROVE CInv'
    OBVIOUS
  <1>1. CASE \E m \in Mode, fresh \in BOOLEAN : Start(m, fresh)
    BY <1>1 DEF Start, GoTo, CInv, Deciding, PutBack
  <1>2. CASE Worker
    BY <1>2, CInvWorker
  <1>3. CASE Environment
    <2>1. CASE Crash
      BY <2>1 DEF Crash, GoTo, CInv, Deciding, PutBack
    <2>2. CASE ~Crash
      BY <1>3, <2>2 DEF Environment, LinkDown, SectionUp, RouteWithdrawn,
         NewRequest, Event, runVars, flagVars, CInv, Deciding, PutBack, Gates
    <2>3. QED
      BY <2>1, <2>2
  <1>4. CASE UNCHANGED vars
    BY <1>4 DEF vars, netVars, fileVars, runVars, flagVars, CInv, Deciding,
                PutBack, Gates
  <1>5. QED
    BY <1>1, <1>2, <1>3, <1>4 DEF Next

\* CInv holds throughout.
LEMMA CInvAlways == Spec => [](IInv /\ CInv)
  <1>1. Init => IInv /\ CInv
    BY TypeInit, ControlInit, CInvInit DEF IInv, Control
  <1>2. IInv /\ CInv /\ [Next]_vars => IInv' /\ CInv'
    BY TypeStep, ControlStep, CInvStep DEF IInv, Control
  <1>3. QED
    BY <1>1, <1>2, PTL DEF Spec

-----------------------------------------------------------------------------
(***************************************************************************)
(* The refinement mapping                                                  *)
(***************************************************************************)

Required == {f \in Family : Gates(f)}

\* Where the worker is decides the stage.
LEMMA StageIs ==
    /\ phase = "idle" => Stage = "idle"
    /\ phase \in BeforeCommit => Stage = "preparing"
    /\ phase \in Deciding => Stage = "committing"
    /\ phase \in {"rollback"} \cup PutBack => Stage = "undoing"
  BY DEF Stage, BeforeCommit, Deciding, PutBack

\* So it does after a step.
LEMMA StageIsNext ==
    /\ phase' = "idle" => Stage' = "idle"
    /\ phase' \in BeforeCommit => Stage' = "preparing"
    /\ phase' \in Deciding => Stage' = "committing"
    /\ phase' \in {"rollback"} \cup PutBack => Stage' = "undoing"
  BY DEF Stage, BeforeCommit, Deciding, PutBack

\* A step that changes neither the stage nor what the contract speaks of.
LEMMA Stutter ==
    ASSUME UNCHANGED <<conf, mode, tmode, cfgMode, newer, planWritten, committed,
                       result>>,
           Stage' = Stage
    PROVE  UNCHANGED Contract!vars
  BY DEF Contract!vars, Gates

\* The initial states are initial states of the contract.
LEMMA ContractInit == Init => Contract!Init
  BY StageIs, SwitchAssumption
  DEF Init, AtRest, Contract!Init, Contract!Mode, Mode, Contract!Family, Family

\* The deployment, and with it what is required, never changes.
LEMMA ConfFixed == [Next]_vars => UNCHANGED conf
  BY DEF Next, Start, Worker, Environment, Prepare, EnterWait, PollReady,
         PollGiveUp, PollAgain, Refresh, Verify, Gateway, Switching, Promote,
         PromoteFails, Demote, ParkHoles, VerifyTarget, Settle, Confirm, Report,
         Rollback, Undo, Converge, Finish, LinkDown, SectionUp, RouteWithdrawn, NewRequest,
         Crash, Event, vars, netVars

\* The steps of the worker map to steps of the contract, or to none.
LEMMA ContractWorker ==
    IInv /\ CInv /\ Worker => [Contract!Next]_(Contract!vars)
  <1> SUFFICES ASSUME IInv, CInv, Worker PROVE [Contract!Next]_(Contract!vars)
    OBVIOUS
  <1>0. UNCHANGED conf /\ UNCHANGED Required
    BY ConfFixed DEF Next, Required, Gates
  <1> USE StageIs, StageIsNext
      DEF BeforeCommit, Deciding, PutBack, GoTo, netVars, fileVars, runVars,
          flagVars
  <1>a. ASSUME UNCHANGED <<mode, tmode, cfgMode, newer, planWritten, committed,
                           result>>,
               Stage \in {"preparing", "committing"}, Stage' \in {Stage, "undoing"}
        PROVE  [Contract!Next]_(Contract!vars)
    <2>1. CASE Stage' = Stage
      BY <1>0, <1>a, <2>1, Stutter
    <2>2. CASE Stage' = "undoing"
      <3>1. Contract!GiveUp
        BY <1>0, <1>a, <2>2 DEF Contract!GiveUp, Required
      <3>2. QED
        BY <3>1 DEF Contract!Next
    <2>3. QED
      BY <1>a, <2>1, <2>2
  <1>1. CASE Prepare
    BY <1>1, <1>a DEF Prepare
  <1>2. CASE EnterWait
    BY <1>2, <1>a DEF EnterWait, AfterWait, GateShut
  <1>3. CASE PollReady
    BY <1>3, <1>a DEF PollReady, AfterWait
  <1>4. CASE PollGiveUp
    BY <1>4, <1>a DEF PollGiveUp, AfterWait, GateShut, Fail
  <1>5. CASE PollAgain
    BY <1>5, <1>a DEF PollAgain
  <1>6. CASE Refresh
    BY <1>6, <1>a DEF Refresh
  <1>7. CASE Verify
    BY <1>7, <1>a DEF Verify, AfterVerify, GateShut, Fail
  <1>8. CASE Gateway
    BY <1>8, <1>a DEF Gateway, Fail
  <1>9. CASE Switching
    <2>1. CASE GateOpen /\ mode' = tmode /\ planWritten' = TRUE /\ phase' = "promote"
               /\ result' = result
      <3>1. Contract!Decide
        BY <1>0, <1>9, <2>1 DEF Switching, Contract!Decide, GateOpen, Required
      <3>2. QED
        BY <3>1 DEF Contract!Next
    <2>2. CASE phase' = "rollback" /\ UNCHANGED <<mode, planWritten, result>>
      BY <1>9, <2>2, <1>a DEF Switching
    <2>3. CASE /\ ~GateOpen /\ phase' = "idle" /\ result' = "superseded"
               /\ UNCHANGED <<mode, planWritten>>
      <3>1. Contract!Supersede
        BY <1>0, <1>9, <2>3 DEF Switching, Contract!Supersede, GateOpen, Required,
                                CInv
      <3>2. QED
        BY <3>1 DEF Contract!Next
    <2>4. QED
      BY <1>9, <2>1, <2>2, <2>3 DEF Switching, Fail
  <1>10. CASE Promote
    <2>1. Contract!Move(fam)
      BY <1>0, <1>10 DEF Promote, AfterCommit, Contract!Move, CInv, Required
    <2>2. fam \in Family
      BY DEF IInv, TypeOK
    <2>3. QED
      BY <2>1, <2>2 DEF Contract!Next, Contract!Family, Family
  <1>11. CASE PromoteFails
    BY <1>11, <1>a DEF PromoteFails, AfterCommit, Fail
  <1>12. CASE Demote
    BY <1>12, <1>a DEF Demote, AfterCommit
  <1>13. CASE ParkHoles
    BY <1>13, <1>a DEF ParkHoles
  <1>14. CASE VerifyTarget
    BY <1>14, <1>a DEF VerifyTarget, Fail
  <1>15. CASE Settle \/ Confirm \/ Report
    <2>1. CASE Settle
      BY <2>1, <1>a DEF Settle, Fail
    <2>2. CASE Confirm
      BY <2>2, <1>a DEF Confirm, AfterConfirm, Fail
    <2>3. CASE Report
      <3>1. Required \subseteq committed
        BY <2>3 DEF Report, CInv, Required
      <3>2. Contract!Succeed
        BY <1>0, <2>3, <3>1 DEF Report, Contract!Succeed, Required
      <3>3. QED
        BY <3>2 DEF Contract!Next
    <2>4. QED
      BY <1>15, <2>1, <2>2, <2>3
  <1>16. CASE Rollback
    <2>1. CASE planWritten
      <3>1. Contract!Restore
        BY <1>0, <1>16, <2>1 DEF Rollback, Contract!Restore, Required
      <3>2. QED
        BY <3>1 DEF Contract!Next
    <2>2. CASE ~planWritten
      BY <1>0, <1>16, <2>2, Stutter DEF Rollback
    <2>3. QED
      BY <2>1, <2>2
  <1>17. CASE Undo
    BY <1>0, <1>17, Stutter DEF Undo
  <1>18. CASE Converge
    BY <1>0, <1>18, Stutter DEF Converge
  <1>19. CASE Finish
    <2>1. Contract!Failed
      BY <1>0, <1>19 DEF Finish, Contract!Failed, CInv, Required
    <2>2. QED
      BY <2>1 DEF Contract!Next
  <1>20. QED
    BY <1>1, <1>2, <1>3, <1>4, <1>5, <1>6, <1>7, <1>8, <1>9, <1>10, <1>11,
       <1>12, <1>13, <1>14, <1>15, <1>16, <1>17, <1>18, <1>19 DEF Worker

\* A request taken up, a newer one, a crash and the network do too.
LEMMA ContractStep ==
    IInv /\ CInv /\ [Next]_vars => [Contract!Next]_(Contract!vars)
  <1> SUFFICES ASSUME IInv, CInv, [Next]_vars
               PROVE  [Contract!Next]_(Contract!vars)
    OBVIOUS
  <1>0. UNCHANGED conf /\ UNCHANGED Required
    BY ConfFixed DEF Required, Gates
  <1>1. CASE \E m \in Mode, fresh \in BOOLEAN : Start(m, fresh)
    <2>1. PICK m \in Mode, fresh \in BOOLEAN : Start(m, fresh)
      BY <1>1
    <2>2. Contract!Request(m)
      BY <1>0, <2>1, StageIs, StageIsNext
         DEF Start, GoTo, Contract!Request, BeforeCommit, Required
    <2>3. QED
      BY <2>2 DEF Contract!Next, Contract!Mode, Mode
  <1>2. CASE Worker
    BY <1>2, ContractWorker
  <1>3. CASE Environment
    <2>1. CASE Crash
      <3>1. Contract!Crash
        BY <1>0, <2>1, StageIs, StageIsNext
           DEF Crash, GoTo, Contract!Crash, Required, runVars, flagVars, IInv,
               TypeOK, Phase, BeforeCommit, Deciding, PutBack
      <3>2. QED
        BY <3>1 DEF Contract!Next
    <2>2. CASE NewRequest
      <3>1. Stage' = Stage /\ Stage # "idle"
        BY <2>2, StageIs DEF NewRequest, Event, Stage, IInv, TypeOK, Phase,
                             BeforeCommit, Deciding, PutBack
      <3>2. Contract!Arrive
        BY <1>0, <2>2, <3>1
           DEF NewRequest, Event, Contract!Arrive, Required, runVars, flagVars
      <3>3. QED
        BY <3>2 DEF Contract!Next
    <2>3. CASE ~Crash /\ ~NewRequest
      <3>1. Event /\ UNCHANGED <<newer, result>>
        BY <1>3, <2>3 DEF Environment, LinkDown, SectionUp, RouteWithdrawn
      <3>2. QED
        BY <1>0, <3>1, Stutter DEF Event, runVars, flagVars, Stage
    <2>4. QED
      BY <2>1, <2>2, <2>3
  <1>4. CASE UNCHANGED vars
    BY <1>0, <1>4, Stutter
       DEF vars, netVars, fileVars, runVars, flagVars, Stage
  <1>5. QED
    BY <1>1, <1>2, <1>3, <1>4 DEF Next

\* The transaction implements the contract.
THEOREM ContractKept == Spec => KeepsContract
  <1>1. Init => Contract!Init
    BY ContractInit
  <1>2. IInv /\ CInv /\ [Next]_vars => [Contract!Next]_(Contract!vars)
    BY ContractStep
  <1>3. QED
    BY <1>1, <1>2, CInvAlways, PTL DEF Spec, KeepsContract, Contract!Spec
=============================================================================
