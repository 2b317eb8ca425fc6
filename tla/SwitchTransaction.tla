-------------------------- MODULE SwitchTransaction -------------------------
(***************************************************************************)
(* One switch worker running switch_run: it prepares the target exit, waits *)
(* for it, probes it, moves the default route of each family with one       *)
(* netlink replace, verifies the result, and commits or rolls back.  The    *)
(* worker is one process; between any two of its steps the network may      *)
(* change under it (netifd and the kernel), a newer request may arrive, and *)
(* the worker may be killed.                                                *)
(*                                                                          *)
(* Wall-clock time is abstracted: a wait iteration either continues or has  *)
(* run out of its cap or of the switch budget.                              *)
(***************************************************************************)
EXTENDS Network

CONSTANTS
    Configs,       \* the deployments considered (Config records)
    InitModes,     \* policies in force when the worker starts
    InitForeign,   \* sets of unmanaged routes that may be in the IPv4 table
    WaitLimit,     \* wait iterations of one family (switch_wait_ipv4/6)
    NoAddrCap,     \* the same for an IPv6 family without an address
    MaxSwitches,   \* bound: switches run in one behaviour
    MaxEvents      \* bound: environment events in one behaviour

ASSUME SwitchAssumption ==
    /\ Configs \subseteq Config
    /\ InitModes \subseteq Mode
    /\ InitForeign \subseteq SUBSET Unrestricted
    /\ WaitLimit \in Nat
    /\ NoAddrCap \in Nat
    /\ MaxSwitches \in Nat
    /\ MaxEvents \in Nat

VARIABLES
    \* persisted configuration and state file
    mode,        \* h5000m_netmode.settings.mode
    newer,       \* the live gen is above the worker's, with a valid mode
    result,      \* the state file's result of the last switch
    \* the worker
    phase, fam,  \* where switch_run is, and the family it handles there
    cfgMode,     \* cfg.mode as loaded when the worker process started
    tmode,       \* the mode being switched to
    prev,        \* slot_owner of the snapshot the switch started from
    snap,        \* the LiveSnapshot in hand
    waited,      \* iterations of the current wait
    failure, superseded, planWritten, committed, chosen,
    \* bounds and history
    switches, events,
    start,       \* the network and the mode when the switch started
    quiet,       \* no environment event since then
    steady       \* nor since the settle window ended

fileVars == <<plan, mode, rt, newer>>
runVars  == <<cfgMode, tmode, prev>>
flagVars == <<failure, superseded, planWritten, committed, chosen>>
histVars == <<switches, events, start, quiet, steady>>
vars     == <<netVars, fib, fileVars, result, phase, fam, runVars, snap,
              waited, flagVars, histVars>>

target == PrimaryGroup(tmode)

(***************************************************************************)
(* Values                                                                  *)
(***************************************************************************)

Phase == {"idle", "prepare", "wait", "poll", "sleep", "verify", "gateway",
          "switching", "promote", "demote", "holes", "verify_target",
          "settle", "confirm", "report", "rollback", "undo", "converge", "finish"}

Failure == {"none", "not_ready", "unreachable", "gateway_unreachable",
            "policy_write_failed", "commit_failed", "verify_failed"}

\* The phases before the transaction may write the active slot.
BeforeCommit ==
    {"prepare", "wait", "poll", "sleep", "verify", "gateway", "switching"}

-----------------------------------------------------------------------------
(***************************************************************************)
(* The worker                                                              *)
(***************************************************************************)

\* Mutant of RollbackTables: the old exit comes back into the standby slot.
RollbackTablesStandby(s, f) ==
    IF GroupRoute(s, prev, f) = {} \/ ~Writable(prev)
    THEN {fib[f]}
    ELSE ReplaceSlot(fib[f], prev, StandbyMetric)

\* rollback_family: only onto a previous exit that still has a next hop in the
\* snapshot and a device; then the target is parked on the standby slot.
RollbackTables(s, f) ==
    LET parked(t) == IF GroupRoute(s, target, f) # {}
                     THEN BestEffort(t, target, f, StandbyMetric)
                     ELSE {t}
    IN  IF \/ GroupRoute(s, prev, f) = {}
           \/ f \notin conf.gateway[prev]
           \/ ~Writable(prev)
        THEN {fib[f]}
        ELSE (UNION {parked(t) : t \in ReplaceSlot(fib[f], prev, ActiveMetric)})
             \cup (IF Refusable(prev, f) THEN {fib[f]} ELSE {})

GoTo(p, f) == phase' = p /\ fam' = f

Fail(why) == failure' = why /\ GoTo("rollback", "v4")

\* superseded_check: latches the flag when a newer request has arrived.
GateOpen == ~superseded /\ ~newer
GateShut ==
    /\ ~GateOpen
    /\ superseded' = TRUE
    /\ GoTo("gateway", "v4")
    /\ UNCHANGED <<failure, planWritten, committed, chosen>>

\* A worker takes up a request: a fresh process loads the configuration; the
\* loop of the same worker, adopting a newer request, keeps the one it has.
Start(m, fresh) ==
    /\ phase = "idle"
    /\ switches < MaxSwitches
    /\ fresh \/ (newer /\ ~(result = "ok" /\ m = tmode))
    /\ cfgMode' = IF fresh THEN mode ELSE cfgMode
    /\ tmode' = m
    /\ prev' \in SlotOwners
    /\ snap' = Live
    /\ newer' = FALSE
    /\ waited' = 0
    /\ failure' = "none" /\ superseded' = FALSE /\ planWritten' = FALSE
    /\ committed' = {} /\ chosen' = "none"
    /\ switches' = switches + 1
    /\ start' = [fib |-> fib, mode |-> mode, rt |-> rt]
    /\ quiet' = TRUE /\ steady' = FALSE
    /\ IF /\ cfgMode' = m
          /\ prev' = PrimaryGroup(m)
          /\ GroupComplete(Live, PrimaryGroup(m))
          /\ VerifyCommit(Live, PrimaryGroup(m))
       THEN result' = "ok" /\ GoTo("idle", "v4")
       ELSE result' = "none" /\ GoTo("prepare", "v4")
    /\ UNCHANGED <<netVars, fib, plan, mode, rt, events>>

\* prepare_group: the target's own sections get the new policy's metric.
Prepare ==
    /\ phase = "prepare"
    /\ plan' = [plan EXCEPT ![target] = [f \in Family |->
                   IF Capable(target, f)
                   THEN [metric |-> PolicyMetric(tmode, target),
                         defaultroute |-> 1]
                   ELSE @[f]]]
    /\ WarmGroupRoute(snap, target)
    /\ GoTo("wait", "v4")
    /\ UNCHANGED <<netVars, mode, newer, result, runVars, snap, waited,
                   flagVars, histVars>>

AfterWait == IF fam = "v4" THEN GoTo("wait", "v6") ELSE GoTo("verify", "v4")

EnterWait ==
    /\ phase = "wait"
    /\ waited' = 0
    /\ \/ /\ GateOpen
          /\ IF Capable(target, fam) THEN GoTo("poll", fam) ELSE AfterWait
          /\ UNCHANGED flagVars
       \/ GateShut
    /\ UNCHANGED <<netVars, fib, fileVars, result, runVars, snap, histVars>>

WaitCap ==
    IF ~conf.strict /\ fam = "v6" /\ fam \notin snap.addr[target]
       /\ NoAddrCap < WaitLimit
    THEN NoAddrCap ELSE WaitLimit

PollReady ==
    /\ phase = "poll"
    /\ Ready(snap, target, fam)
    /\ snap' = Live
    /\ AfterWait
    /\ UNCHANGED <<netVars, fib, fileVars, result, runVars, waited, flagVars,
                   histVars>>

\* Out of time (the cap, or earlier the switch budget, also in the middle of
\* an iteration, with the old snapshot) or superseded.
PollGiveUp ==
    /\ phase \in {"poll", "sleep"}
    /\ ~Ready(snap, target, fam)
    /\ \/ GateShut
       \/ /\ GateOpen
          /\ IF Gates(fam)
             THEN Fail("not_ready")
             ELSE AfterWait /\ UNCHANGED failure
          /\ UNCHANGED <<superseded, planWritten, committed, chosen>>
    /\ UNCHANGED <<netVars, fib, fileVars, result, runVars, snap, waited,
                   histVars>>

\* The iteration that retries ifup.
IfupAt == 2

\* Another iteration: the first one warms the target once more, the third one
\* retries ifup and reads the live state again.  What that ifup brings up is
\* the environment's SectionUp.
PollAgain ==
    /\ phase = "poll"
    /\ ~Ready(snap, target, fam)
    /\ GateOpen
    /\ waited < WaitCap
    /\ IF waited = 0 THEN WarmGroupRoute(snap, target) ELSE UNCHANGED <<fib, rt>>
    /\ snap' = IF waited = IfupAt THEN Live ELSE snap
    /\ waited' = waited + 1
    /\ GoTo("sleep", fam)
    /\ UNCHANGED <<netVars, plan, mode, newer, result, runVars, flagVars,
                   histVars>>

\* Mutant of Refresh: the wait counter starts over.
RefreshRestartsWait ==
    /\ phase = "sleep"
    /\ snap' = Live
    /\ waited' = 0
    /\ GoTo("poll", fam)
    /\ UNCHANGED <<netVars, fib, fileVars, result, runVars, flagVars, histVars>>

Refresh ==
    /\ phase = "sleep"
    /\ snap' = Live
    /\ GoTo("poll", fam)
    /\ UNCHANGED <<netVars, fib, fileVars, result, runVars, waited, flagVars,
                   histVars>>

AfterVerify ==
    IF fam = "v4" THEN GoTo("verify", "v6") ELSE GoTo("gateway", "v4")

Verify ==
    /\ phase = "verify"
    /\ \/ GateShut
       \/ /\ GateOpen
          /\ \/ /\ Capable(target, fam) => MayAnswer(target, fam)
                /\ AfterVerify /\ UNCHANGED failure
             \/ /\ Capable(target, fam)
                /\ IF Gates(fam)
                   THEN Fail("unreachable")
                   ELSE AfterVerify /\ UNCHANGED failure
          /\ UNCHANGED <<superseded, planWritten, committed, chosen>>
    /\ UNCHANGED <<netVars, fib, fileVars, result, runVars, snap, waited,
                   histVars>>

\* The gateway check runs even for a superseded switch.
Gateway ==
    /\ phase = "gateway"
    /\ \/ /\ GoTo("switching", "v4") /\ UNCHANGED failure
       \/ /\ conf.gwRequired
          /\ GroupRoute(snap, target, "v4") # {} /\ "v4" \in conf.gateway[target]
          /\ Fail("gateway_unreachable")
    /\ UNCHANGED <<netVars, fib, fileVars, result, runVars, snap, waited,
                   superseded, planWritten, committed, chosen, histVars>>

\* The last gate.  Past it the switch runs to the end; before it a newer
\* request ends it here, with nothing of the commit done.
Switching ==
    /\ phase = "switching"
    /\ \/ /\ GateOpen
          /\ plan' = PolicyPlan(tmode)
          /\ mode' = tmode
          /\ planWritten' = TRUE
          /\ GoTo("promote", "v4")
          /\ UNCHANGED <<failure, superseded, result>>
       \/ /\ GateOpen
          /\ Fail("policy_write_failed")
          /\ UNCHANGED <<plan, mode, planWritten, superseded, result>>
       \/ /\ ~GateOpen
          /\ superseded' = TRUE
          /\ result' = "superseded"
          /\ GoTo("idle", "v4")
          /\ UNCHANGED <<plan, mode, planWritten, failure>>
    /\ UNCHANGED <<netVars, fib, rt, newer, runVars, snap, waited, committed,
                   chosen, histVars>>

\* Mutant of AfterCommit: a newer request is honoured between the families.
AfterCommitGated ==
    IF fam = "v6" THEN GoTo("holes", "v4")
    ELSE IF newer THEN GoTo("switching", "v4") ELSE GoTo("promote", "v6")

AfterCommit == IF fam = "v4" THEN GoTo("promote", "v6") ELSE GoTo("holes", "v4")

\* commit_family, first write: the target into the active slot.
Promote ==
    /\ phase = "promote"
    /\ HasHop(snap, target, fam)
    /\ Writable(target)
    /\ \E t \in ReplaceSlot(fib[fam], target, ActiveMetric) :
            fib' = [fib EXCEPT ![fam] = t]
    /\ committed' = committed \cup {fam}
    /\ IF prev = Other(target) /\ GroupRoute(snap, prev, fam) # {}
       THEN GoTo("demote", fam) ELSE AfterCommit
    /\ UNCHANGED <<netVars, fileVars, result, runVars, snap, waited, failure,
                   superseded, planWritten, chosen, histVars>>

PromoteFails ==
    /\ phase = "promote"
    /\ ~HasHop(snap, target, fam) \/ Refusable(target, fam)
    /\ IF Gates(fam)
       THEN Fail("commit_failed")
       ELSE AfterCommit /\ UNCHANGED failure
    /\ UNCHANGED <<netVars, fib, fileVars, result, runVars, snap, waited,
                   superseded, planWritten, committed, chosen, histVars>>

\* Mutant of Demote: the previous owner is not put on standby.
DemoteSkipped ==
    /\ phase = "demote"
    /\ AfterCommit
    /\ UNCHANGED <<netVars, fib, fileVars, result, runVars, snap, waited,
                   flagVars, histVars>>

\* commit_family, second write: the previous owner into the standby slot.
Demote ==
    /\ phase = "demote"
    /\ \E t \in BestEffort(fib[fam], prev, fam, StandbyMetric) :
            fib' = [fib EXCEPT ![fam] = t]
    /\ AfterCommit
    /\ UNCHANGED <<netVars, fileVars, result, runVars, snap, waited, flagVars,
                   histVars>>

ParkHoles ==
    /\ phase = "holes"
    /\ ParkStandby(snap, target)
    /\ GoTo("verify_target", "v4")
    /\ UNCHANGED <<netVars, mode, rt, newer, result, runVars, snap, waited,
                   flagVars, histVars>>

VerifyTarget ==
    /\ phase = "verify_target"
    /\ snap' = Live
    /\ IF VerifyCommit(Live, target)
       THEN GoTo("settle", "v4") /\ UNCHANGED failure
       ELSE Fail("verify_failed")
    /\ UNCHANGED <<netVars, fib, fileVars, result, runVars, waited, superseded,
                   planWritten, committed, chosen, histVars>>

\* Mutant of Settle: the second verification is left out.
SettleTrusting ==
    /\ phase = "settle"
    /\ GoTo("confirm", "v4")
    /\ steady' = TRUE
    /\ UNCHANGED <<netVars, fib, fileVars, result, runVars, snap, waited,
                   flagVars, switches, events, start, quiet>>

\* After the settle window: verified again, on the tables as they are then.
\* The fresh snapshot replaces the one in hand only if the switch succeeds, and
\* then only the health round that follows the report reads it.
Settle ==
    /\ phase = "settle"
    /\ IF VerifyCommit(Live, target)
       THEN GoTo("confirm", "v4") /\ steady' = TRUE /\ UNCHANGED failure
       ELSE Fail("verify_failed") /\ UNCHANGED steady
    /\ UNCHANGED <<netVars, fib, fileVars, result, runVars, snap, waited,
                   superseded, planWritten, committed, chosen, switches, events,
                   start, quiet>>

AfterConfirm ==
    IF fam = "v4" THEN GoTo("confirm", "v6") ELSE GoTo("report", "v4")

\* The target is probed once more, a family at a time; the probes take seconds.
Confirm ==
    /\ phase = "confirm"
    /\ \/ /\ Capable(target, fam) => MayAnswer(target, fam)
          /\ AfterConfirm /\ UNCHANGED failure
       \/ /\ Capable(target, fam)
          /\ IF Gates(fam)
             THEN Fail("verify_failed")
             ELSE AfterConfirm /\ UNCHANGED failure
    /\ UNCHANGED <<netVars, fib, fileVars, result, runVars, snap, waited,
                   superseded, planWritten, committed, chosen, histVars>>

\* The success is written to the state file; the tables are not read again.
Report ==
    /\ phase = "report"
    /\ result' = "ok"
    /\ GoTo("idle", "v4")
    /\ UNCHANGED <<netVars, fib, fileVars, runVars, snap, waited, flagVars,
                   histVars>>

\* Mutant of Rollback: the metrics are put back, the mode is not.
RollbackKeepsMode ==
    /\ phase = "rollback"
    /\ IF planWritten THEN plan' = PolicyPlan(cfgMode) ELSE UNCHANGED plan
    /\ GoTo("undo", "v4")
    /\ UNCHANGED <<netVars, fib, mode, rt, newer, result, runVars, snap, waited,
                   flagVars, histVars>>

\* Undo only what the switch changed: the plan, if it was written.
Rollback ==
    /\ phase = "rollback"
    /\ IF planWritten
       THEN plan' = PolicyPlan(cfgMode) /\ mode' = cfgMode
       ELSE UNCHANGED <<plan, mode>>
    /\ GoTo("undo", "v4")
    /\ UNCHANGED <<netVars, fib, rt, newer, result, runVars, snap, waited,
                   flagVars, histVars>>

Undo ==
    /\ phase = "undo"
    /\ \E t \in IF fam \in committed /\ prev = Other(target)
                THEN RollbackTables(snap, fam) ELSE {fib[fam]} :
            fib' = [fib EXCEPT ![fam] = t]
    /\ IF fam = "v4" THEN GoTo("undo", "v6")
       ELSE IF committed # {} THEN GoTo("converge", "v4")
       ELSE GoTo("finish", "v4")
    /\ UNCHANGED <<netVars, fileVars, result, runVars, snap, waited, flagVars,
                   histVars>>

\* post_failure_converge, one family at a time.
Converge ==
    /\ phase = "converge"
    /\ \E owner \in ConvergeOwners :
        LET onto == IF fam = "v6" THEN chosen ELSE owner
        IN  /\ chosen' = onto
            /\ IF onto = "none"
               THEN UNCHANGED fib
               ELSE \E t \in CommitTables(snap, fam, onto) :
                        fib' = [fib EXCEPT ![fam] = t]
            /\ IF fam = "v4" /\ onto # "none"
               THEN GoTo("converge", "v6") ELSE GoTo("finish", "v4")
    /\ UNCHANGED <<netVars, fileVars, result, runVars, snap, waited, failure,
                   superseded, planWritten, committed, histVars>>

Finish ==
    /\ phase = "finish"
    /\ result' = "failed"
    /\ GoTo("idle", "v4")
    /\ UNCHANGED <<netVars, fib, fileVars, runVars, snap, waited, flagVars,
                   histVars>>

Worker ==
    \/ Prepare \/ EnterWait \/ PollReady \/ PollGiveUp \/ PollAgain \/ Refresh
    \/ Verify \/ Gateway \/ Switching
    \/ Promote \/ PromoteFails \/ Demote \/ ParkHoles
    \/ VerifyTarget \/ Settle \/ Confirm \/ Report
    \/ Rollback \/ Undo \/ Converge \/ Finish

-----------------------------------------------------------------------------
(***************************************************************************)
(* The environment                                                         *)
(***************************************************************************)

Event ==
    /\ events < MaxEvents
    /\ events' = events + 1
    /\ UNCHANGED <<conf, plan, mode, rt, phase, fam, runVars, snap, waited,
                   flagVars, switches, start>>

LinkDown(g) ==
    /\ Event
    /\ LoseLink(g)
    /\ quiet' = FALSE /\ steady' = FALSE
    /\ UNCHANGED <<newer, result>>

SectionUp(g, f) ==
    /\ Event
    /\ RaiseSection(g, f)
    /\ quiet' = FALSE /\ steady' = FALSE
    /\ UNCHANGED <<newer, result>>

RouteWithdrawn(g, f) ==
    /\ Event
    /\ WithdrawRoute(g, f)
    /\ quiet' = FALSE /\ steady' = FALSE
    /\ UNCHANGED <<newer, result>>

\* cmd_set writes a higher gen and another mode to the state file.
NewRequest ==
    /\ Event
    /\ ~newer /\ phase # "idle"
    /\ newer' = TRUE
    /\ UNCHANGED <<link, addr, fib, quiet, steady, result>>

\* The worker is killed: what it wrote stays, what it knew is gone.
Crash ==
    /\ phase # "idle"
    /\ events < MaxEvents
    /\ events' = events + 1
    /\ result' = "crashed"
    /\ newer' = FALSE
    /\ GoTo("idle", "v4")
    /\ UNCHANGED <<netVars, fib, plan, mode, rt, runVars, snap, waited,
                   flagVars, switches, start, quiet, steady>>

Environment ==
    \/ \E g \in Group : LinkDown(g)
    \/ \E g \in Group, f \in Family : SectionUp(g, f) \/ RouteWithdrawn(g, f)
    \/ NewRequest
    \/ Crash

\* The network at rest under the policy in force, and no worker.
Init ==
    /\ mode \in InitModes
    /\ AtRest(Configs, mode, InitForeign)
    /\ newer = FALSE /\ result = "none"
    /\ phase = "idle" /\ fam = "v4"
    /\ cfgMode = mode /\ tmode = mode /\ prev = "none"
    /\ snap = [fib |-> fib, addr |-> addr]
    /\ waited = 0
    /\ failure = "none" /\ superseded = FALSE /\ planWritten = FALSE
    /\ committed = {} /\ chosen = "none"
    /\ switches = 0 /\ events = 0
    /\ start = [fib |-> fib, mode |-> mode, rt |-> rt]
    /\ quiet = TRUE /\ steady = FALSE

Next ==
    \/ \E m \in Mode, fresh \in BOOLEAN : Start(m, fresh)
    \/ Worker
    \/ Environment

Spec == Init /\ [][Next]_vars

\* The worker process keeps running unless it is killed; requests, events and
\* crashes need not happen.
FairSpec == Spec /\ WF_vars(Worker)

-----------------------------------------------------------------------------
(***************************************************************************)
(* Properties                                                              *)
(***************************************************************************)

\* Every variable stays within its type.
TypeOK ==
    /\ conf \in Config
    /\ link \in [Group -> BOOLEAN]
    /\ addr \in [Group -> SUBSET Family]
    /\ fib \in Tables
    /\ plan \in [Group -> [Family -> SectionPlan]]
    /\ mode \in Mode
    /\ rt \subseteq Hop
    /\ newer \in BOOLEAN
    /\ result \in {"none", "ok", "failed", "superseded", "crashed"}
    /\ phase \in Phase
    /\ fam \in Family
    /\ cfgMode \in Mode
    /\ tmode \in Mode
    /\ prev \in Group \cup {"none"}
    /\ snap \in Snapshot
    /\ waited \in Nat
    /\ failure \in Failure
    /\ superseded \in BOOLEAN
    /\ planWritten \in BOOLEAN
    /\ committed \subseteq Family
    /\ chosen \in Group \cup {"none"}
    /\ switches \in Nat
    /\ events \in Nat
    /\ start \in [fib : Tables, mode : Mode, rt : SUBSET Hop]
    /\ quiet \in BOOLEAN
    /\ steady \in BOOLEAN

\* A step of the program, not of the network: the environment counts events.
OwnStep == events' = events

\* The family runs over a slot better than the warm standby slot.
AboveStandby(table) == \E r \in table : r.metric < StandbyMetric

\* No step of the program takes the last default route of a family the target
\* can carry: the active slot is moved by one replace, the old exit is demoted
\* and never removed, in the switch as in its rollback.
NeverBlackholes ==
    [][OwnStep => \A f \in Family :
            fib[f] # {} /\ Capable(target, f) => fib'[f] # {}]_vars

\* Before the commit no step of the program changes the routes a family uses,
\* as long as the live exit holds a slot better than standby: preparing,
\* waiting and probing leave the live exit alone.
LiveExitUntouched ==
    [][OwnStep /\ phase \in BeforeCommit => \A f \in Family :
            AboveStandby(fib[f]) => Winners(fib'[f]) = Winners(fib[f])]_vars

\* A superseded switch ended before the commit: no active slot was written,
\* and the plan and the mode in force were not replaced.
SupersededBeforeCommit ==
    result = "superseded" => committed = {} /\ ~planWritten

\* When a switch reports ok, the persisted plan gives the target the metric of
\* the active slot in each family that gates the switch, and netifd's next
\* announcement of it lands there; and unless the network has changed since the
\* settle window ended, each of these families runs over the target alone, with
\* the other exit strictly below, whatever happened before and during the
\* window.  A change that falls into the closing probes is not noticed.
CommittedExit ==
    [][phase = "report" /\ result' = "ok" =>
        \A f \in conf.capable[target] : Gates(f) =>
            /\ plan'[target][f].metric = ActiveMetric
            /\ plan'[target][f].defaultroute = 1
            /\ steady => /\ Owners(fib'[f]) = {target}
                         /\ StandbyBelow(target, f)']_vars

\* A committed switch never takes the old exit down: in each family the target
\* can carry, an old exit that had a route and has an address still has a
\* route, demoted.
OldExitKept ==
    phase = "idle" /\ result = "ok" /\ quiet /\ prev = Other(target)
    => \A f \in conf.capable[target] :
            /\ GroupDefaultRoute(start.fib[f], prev) # {}
            /\ AboveStandby(start.fib[f])
            /\ f \in addr[prev]
            => GroupDefaultRoute(fib[f], prev) # {}

\* The old exit carried family f when the switch started, from a slot above
\* standby and with an address.
OldExitHeld(f) ==
    /\ Owners(start.fib[f]) = {prev}
    /\ AboveStandby(start.fib[f])
    /\ f \in addr[prev]

\* It carried IPv4, and IPv6 if that had a default route.
OldExitHeldBoth ==
    /\ prev \in Group
    /\ \A f \in Family : OldExitHeld(f) \/ (f = "v6" /\ start.fib[f] = {})

\* A failed switch restores the old exit: if it held both families and its
\* IPv4 route has a next hop, it carries again each family in which its route
\* has one, also after the standby was parked and after one family's commit
\* failed.
RollbackRestores ==
    phase = "idle" /\ result = "failed" /\ quiet
    /\ OldExitHeldBoth /\ "v4" \in conf.gateway[prev]
    => \A f \in conf.gateway[prev] :
            Owners(start.fib[f]) = {prev} => Owners(fib[f]) = {prev}

\* Every switch ends: all waits are bounded.
Terminates == (phase # "idle") ~> (phase = "idle")

(***************************************************************************)
(* What the switch promises, as SwitchContract states it                   *)
(***************************************************************************)
Stage ==
    CASE phase = "idle" -> "idle"
      [] phase \in BeforeCommit -> "preparing"
      [] phase \in {"promote", "demote", "holes", "verify_target", "settle",
                    "confirm", "report"} -> "committing"
      [] OTHER -> "undoing"

Contract == INSTANCE SwitchContract WITH
    stage <- Stage, required <- {f \in Family : Gates(f)}, asked <- tmode,
    base <- cfgMode, decided <- planWritten, moved <- committed,
    report <- result

\* Whatever the network does meanwhile, the worker's steps are those of the
\* contract: one decision, which a newer request precedes or no longer stops;
\* success only with every required family moved; a failure reported with the
\* policy put back, or nothing of it replaced and no family moved.
KeepsContract == Contract!Spec
=============================================================================
