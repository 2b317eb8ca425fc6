--------------------------- MODULE ReconcileProofs --------------------------
(***************************************************************************)
(* Proofs about Reconcile, for every deployment, whatever the exits answer, *)
(* every cooldown, streak and confirmation length, and any disturbances.   *)
(***************************************************************************)
EXTENDS Reconcile, NetworkProofs

\* The network's part of the types.
LEMMA NetworkTyped == TypeOK => NetworkType
  BY DEF TypeOK, NetworkType

-----------------------------------------------------------------------------
(***************************************************************************)
(* Helpers of the pass                                                     *)
(***************************************************************************)

\* A health round writes verdicts and bounded streaks.
LEMMA HealthRoundType ==
    ASSUME TypeOK, NEW s, NEW S, HealthRound(s, S)
    PROVE  /\ verdict' \in [Group -> [Family -> Verdict]]
           /\ streak' \in [Group -> [Family -> 0..ProbeFailStreak]]
           /\ misses' \in [Group -> [Family -> 0..ProbeFailStreak]]
           /\ healthAge' \in Int
  <1>1. verdict' \in [Group -> [Family -> Verdict]]
    BY DEF HealthRound, Outcome, Verdict
  <1>2. \A n \in 0..ProbeFailStreak, v \in Verdict :
            NextStreak(n, v) \in 0..ProbeFailStreak
    BY ReconcileAssumption DEF NextStreak, Verdict
  <1>3. streak' = [g \in Group |-> [f \in Family |->
                    NextStreak(streak[g][f], verdict'[g][f])]]
    BY DEF HealthRound
  <1>4. \A g \in Group, f \in Family :
            verdict'[g][f] \in Verdict /\ streak[g][f] \in 0..ProbeFailStreak
    BY <1>1 DEF TypeOK
  <1>5. streak' \in [Group -> [Family -> 0..ProbeFailStreak]]
    BY <1>2, <1>3, <1>4
  <1>6. misses' \in [Group -> [Family -> 0..ProbeFailStreak]]
    <2>1. \A g \in Group, f \in Family :
            /\ misses[g][f] \in 0..ProbeFailStreak
            /\ Older(misses[g][f], ProbeFailStreak) \in 0..ProbeFailStreak
            /\ 0 \in 0..ProbeFailStreak
      BY ReconcileAssumption DEF TypeOK, Older
    <2>2. QED
      BY <2>1 DEF HealthRound
  <1>7. QED
    BY <1>1, <1>5, <1>6 DEF HealthRound

\* Every policy prefers one of the exits.
LEMMA PrimaryType == TypeOK => primary \in Group
  BY Groups DEF TypeOK, primary

\* An alignment begins with an exit, or does not begin.
LEMMA AlignToResult ==
    ASSUME TypeOK, NEW g \in Group, NEW force \in BOOLEAN, AlignTo(g, force)
    PROVE  /\ dest' \in Group \cup {"none"}
           /\ tryAge' \in Int /\ sinceTry' \in Nat
           /\ phase' \in {"probe", "end"} /\ fam' = "v4"
           /\ phase' = "probe" => dest' \in Group
           /\ phase' = "probe" => force \/ tryAge >= Cooldown
           /\ \/ tryAge' = 0 /\ sinceTry' = 0 /\ unstamped' = FALSE
              \/ UNCHANGED tryVars
  BY DEF AlignTo, CooldownOk, StampAttempt, Stay, GoTo, TypeOK, tryVars

\* The same of a pass that leaves things alone.
LEMMA StayResult ==
    ASSUME TypeOK, Stay
    PROVE  /\ dest' \in Group \cup {"none"}
           /\ tryAge' \in Int /\ sinceTry' \in Nat
           /\ phase' = "end" /\ fam' = "v4"
           /\ UNCHANGED tryVars
  BY DEF Stay, GoTo, TypeOK, tryVars

\* The decision, whichever branch it takes: only a forced pass, or one whose
\* cooldown is over, begins an alignment.
LEMMA DecideResult ==
    ASSUME TypeOK, Decide
    PROVE  /\ dest' \in Group \cup {"none"}
           /\ tryAge' \in Int /\ sinceTry' \in Nat
           /\ cand' \in Group \cup {"none"} /\ hits' \in Nat
           /\ owner' \in Group \cup {"none", "split"}
           /\ phase' \in {"probe", "end"} /\ fam' = "v4"
           /\ phase' = "probe" => dest' \in Group
           /\ phase' = "probe" => forced \/ tryAge >= Cooldown
           /\ \/ tryAge' = 0 /\ sinceTry' = 0 /\ unstamped' = FALSE
              \/ UNCHANGED tryVars
  <1> DEFINE Result ==
           /\ dest' \in Group \cup {"none"}
           /\ tryAge' \in Int /\ sinceTry' \in Nat
           /\ phase' \in {"probe", "end"} /\ fam' = "v4"
           /\ phase' = "probe" => dest' \in Group
           /\ phase' = "probe" => forced \/ tryAge >= Cooldown
           /\ \/ tryAge' = 0 /\ sinceTry' = 0 /\ unstamped' = FALSE
              \/ UNCHANGED tryVars
  <1>0. forced \in BOOLEAN /\ primary \in Group
    BY PrimaryType DEF TypeOK
  <1>1. \A g \in Group : AlignTo(g, FALSE) => Result
    BY AlignToResult
  <1>2. \A g \in Group : AlignTo(g, forced) => Result
    BY <1>0, AlignToResult
  <1>3. forced /\ AlignTo(primary, TRUE) => Result
    BY <1>0, <1>2
  <1>4. Stay => Result
    BY StayResult
  <1>5. ASSUME NEW P, AlignPreferred(P)
        PROVE  Result /\ UNCHANGED <<cand, hits>>
    <2>1. Preferred(P) \in Group
      BY <1>0, Groups DEF Preferred
    <2>2. QED
      BY <1>2, <1>4, <1>5, <2>1 DEF AlignPreferred
  <1>6. ASSUME NEW g \in Group, DecideExit(g)
        PROVE  Result /\ cand' \in Group \cup {"none"} /\ hits' \in Nat
    <2>1. Other(g) \in Group
      BY <1>6, Groups
    <2>2. \/ AlignTo(Other(g), FALSE) /\ UNCHANGED <<cand, hits>>
          \/ forced /\ AlignTo(primary, TRUE) /\ UNCHANGED <<cand, hits>>
          \/ Confirm(primary) /\ AlignTo(primary, FALSE)
          \/ Confirm(primary) /\ Stay
          \/ Stay /\ ClearCandidate
      BY <1>6 DEF DecideExit
    <2>3. Result
      BY <1>0, <1>1, <1>3, <1>4, <2>1, <2>2
    <2>4. cand' \in Group \cup {"none"} /\ hits' \in Nat
      <3>1. hits \in Nat /\ cand \in Group \cup {"none"}
        BY DEF TypeOK
      <3>2. Older(hits, AlignConfirm) \in Nat
        BY <3>1, ReconcileAssumption DEF Older
      <3>3. Confirm(primary) \/ ClearCandidate \/ UNCHANGED <<cand, hits>>
        BY <2>2
      <3>4. CASE Confirm(primary)
        BY <1>0, <3>2, <3>4 DEF Confirm
      <3>5. CASE ClearCandidate
        BY <3>1, <3>5 DEF ClearCandidate
      <3>6. CASE UNCHANGED <<cand, hits>>
        BY <3>1, <3>6
      <3>7. QED
        BY <3>3, <3>4, <3>5, <3>6
    <2>5. QED
      BY <2>3, <2>4
  <1>7. \A f \in Family : Seen[f] \in SUBSET Route
    BY DEF Seen, TypeOK, Tables, Snapshot
  <1>8. PICK s4 \in Owners(Seen["v4"]), s6 \in Owners(Seen["v6"]) :
        \/ /\ s4 = s6 /\ s4 # "none"
           /\ owner' = s4
           /\ DecideExit(s4)
        \/ /\ s4 = s6 /\ s4 = "none"
           /\ owner' = "none"
           /\ AlignPreferred({g \in Group : CompleteOnline(snap, g)})
        \/ /\ s4 # s6 /\ "none" \in {s4, s6}
           /\ owner' = IF s4 # "none" THEN s4 ELSE s6
           /\ Stay /\ UNCHANGED <<cand, hits>>
        \/ /\ s4 # s6 /\ "none" \notin {s4, s6}
           /\ owner' = "split"
           /\ AlignPreferred({g \in Group : GroupComplete(snap, g)})
    BY DEF Decide
  <1>9. s4 \in Group \cup {"none"} /\ s6 \in Group \cup {"none"}
    BY <1>7, <1>8, OwnersType DEF Family
  <1>10. Result
    BY <1>4, <1>5, <1>6, <1>8, <1>9
  <1>11. cand' \in Group \cup {"none"} /\ hits' \in Nat
    BY <1>5, <1>6, <1>8, <1>9 DEF TypeOK
  <1>12. owner' \in Group \cup {"none", "split"}
    BY <1>8, <1>9
  <1>13. QED
    BY <1>10, <1>11, <1>12

\* Warming keeps the standby's route writes best-effort.
LEMMA KeepWarmResult ==
    ASSUME TypeOK, KeepWarm
    PROVE  /\ fib' \in Tables /\ rt' \subseteq Hop /\ dropped' \in BOOLEAN
           /\ \A f \in Family : fib[f] # {} => fib'[f] # {}
  <1>1. rt' \subseteq Hop
    BY DEF KeepWarm, Remembered, TypeOK
  <1>2. CASE UNCHANGED <<fib, dropped>>
    BY <1>1, <1>2 DEF TypeOK
  <1>3. CASE \E g \in Group :
               /\ \E t4 \in WarmTables(snap, g, "v4"), t6 \in WarmTables(snap, g, "v6") :
                     fib' = [f \in Family |-> IF f = "v4" THEN t4 ELSE t6]
               /\ dropped' = (Writable(g) /\ \E f \in Family : Warmable(snap, g, f))
    <2>1. PICK g \in Group :
               /\ \E t4 \in WarmTables(snap, g, "v4"), t6 \in WarmTables(snap, g, "v6") :
                     fib' = [f \in Family |-> IF f = "v4" THEN t4 ELSE t6]
               /\ dropped' = (Writable(g) /\ \E f \in Family : Warmable(snap, g, f))
      BY <1>3
    <2>2. PICK t4 \in WarmTables(snap, g, "v4"), t6 \in WarmTables(snap, g, "v6") :
              fib' = [f \in Family |-> IF f = "v4" THEN t4 ELSE t6]
      BY <2>1
    <2>3. /\ t4 \in SUBSET Route /\ (fib["v4"] # {} => t4 # {})
          /\ t6 \in SUBSET Route /\ (fib["v6"] # {} => t6 # {})
      BY WarmTablesResult DEF TypeOK, Family
    <2>4. fib' \in Tables /\ \A f \in Family : fib[f] # {} => fib'[f] # {}
      BY <2>2, <2>3 DEF Tables, Family
    <2>5. dropped' \in BOOLEAN
      BY <2>1
    <2>6. QED
      BY <1>1, <2>4, <2>5
  <1>4. QED
    <2>1. PICK o \in SnapOwners :
            LET g == Other(o)
                warm == o # "none" /\ Cold(g) /\ PolicyDefaultRoute(mode, g) = 1
            IN  IF ~warm THEN UNCHANGED <<fib, dropped>>
                ELSE /\ \E t4 \in WarmTables(snap, g, "v4"),
                           t6 \in WarmTables(snap, g, "v6") :
                          fib' = [f \in Family |-> IF f = "v4" THEN t4 ELSE t6]
                     /\ dropped' = (Writable(g)
                                    /\ \E f \in Family : Warmable(snap, g, f))
      BY DEF KeepWarm
    <2>2. Other(o) \in Group
      BY DEF Other, Group
    <2>3. QED
      BY <1>2, <1>3, <2>1, <2>2

-----------------------------------------------------------------------------
(***************************************************************************)
(* Type correctness, action by action                                      *)
(***************************************************************************)

\* A route write of the pass leaves tables, and empties none.
LEMMA FamilyWrite ==
    ASSUME TypeOK, NEW t \in SUBSET Route, fib[fam] # {} => t # {},
           fib' = [fib EXCEPT ![fam] = t]
    PROVE  fib' \in Tables /\ \A f \in Family : fib[f] # {} => fib'[f] # {}
  BY DEF TypeOK, Tables

\* Committing a family onto an exit is such a write.
LEMMA CommitWrite ==
    ASSUME TypeOK, NEW g \in Group,
           \E t \in CommitTables(snap, fam, g) : fib' = [fib EXCEPT ![fam] = t]
    PROVE  fib' \in Tables /\ \A f \in Family : fib[f] # {} => fib'[f] # {}
  BY CommitTablesResult, FamilyWrite DEF TypeOK

\* Promoting the destination is one.
LEMMA PromoteWrite ==
    ASSUME TypeOK, Promote
    PROVE  fib' \in Tables /\ \A f \in Family : fib[f] # {} => fib'[f] # {}
  <1>1. CASE UNCHANGED fib
    BY <1>1 DEF TypeOK
  <1>2. CASE \E t \in ReplaceSlot(fib[fam], dest, ActiveMetric) :
                fib' = [fib EXCEPT ![fam] = t]
    <2>1. PICK t \in ReplaceSlot(fib[fam], dest, ActiveMetric) :
                fib' = [fib EXCEPT ![fam] = t]
      BY <1>2
    <2>2. fib[fam] \in SUBSET Route /\ dest \in Group
      BY DEF TypeOK, Tables, Promote
    <2>3. t \in SUBSET Route /\ t # {}
      BY <2>1, <2>2, ReplaceSlotResult, SlotMetrics
    <2>4. QED
      BY <2>1, <2>3, FamilyWrite
  <1>3. QED
    BY <1>1, <1>2 DEF Promote

\* Demoting the other exit is one.
LEMMA DemoteWrite ==
    ASSUME TypeOK, Demote
    PROVE  fib' \in Tables /\ \A f \in Family : fib[f] # {} => fib'[f] # {}
  <1>1. PICK t \in BestEffort(fib[fam], Other(dest), fam, StandbyMetric) :
                fib' = [fib EXCEPT ![fam] = t]
    BY DEF Demote
  <1>2. fib[fam] \in SUBSET Route /\ Other(dest) \in Group /\ fam \in Family
    BY Groups DEF TypeOK, Tables, Demote
  <1>3. t \in SUBSET Route /\ (fib[fam] # {} => t # {})
    BY <1>1, <1>2, BestEffortResult, SlotMetrics
  <1>4. QED
    BY <1>1, <1>3, FamilyWrite

\* Restoring the other exit is one.
LEMMA RestoreWrite ==
    ASSUME TypeOK, Restore
    PROVE  fib' \in Tables /\ \A f \in Family : fib[f] # {} => fib'[f] # {}
  <1>1. Other(dest) \in Group
    BY Groups DEF TypeOK, Restore
  <1>2. QED
    BY <1>1, CommitWrite DEF Restore

\* So is converging, or nothing is written.
LEMMA ConvergeWrite ==
    ASSUME TypeOK, Converge
    PROVE  /\ fib' \in Tables /\ \A f \in Family : fib[f] # {} => fib'[f] # {}
           /\ chosen' \in Group \cup {"none"}
  <1>1. chosen' \in Group \cup {"none"}
    BY ConvergeOwnersType DEF Converge, TypeOK
  <1>2. CASE chosen' = "none"
    BY <1>2 DEF Converge, TypeOK
  <1>3. CASE chosen' # "none"
    <2>1. \E t \in CommitTables(snap, fam, chosen') : fib' = [fib EXCEPT ![fam] = t]
      BY <1>3 DEF Converge
    <2>2. chosen' \in Group
      BY <1>1, <1>3
    <2>3. QED
      BY <1>1, <2>1, <2>2, CommitWrite
  <1>4. QED
    BY <1>1, <1>2, <1>3

\* The initial states are well typed.
LEMMA TypeInit == Init => TypeOK
  <1> SUFFICES ASSUME Init PROVE TypeOK
    OBVIOUS
  <1>1. mode \in Mode /\ NetworkType
    <2>1. {{}} \in SUBSET SUBSET Route
      OBVIOUS
    <2>2. QED
      BY <2>1, ReconcileAssumption, AtRestType DEF Init
  <1>2. snap \in Snapshot
    BY <1>1, LiveType DEF Init
  <1>3. answers \in [Group -> SUBSET Family]
    BY ReconcileAssumption DEF Init
  <1>4. /\ healthAge \in Int /\ tryAge \in Int /\ sinceTry \in Nat
        /\ streak \in [Group -> [Family -> 0..ProbeFailStreak]]
        /\ misses \in [Group -> [Family -> 0..ProbeFailStreak]]
    BY ReconcileAssumption DEF Init
  <1>5. QED
    BY <1>1, <1>2, <1>3, <1>4
       DEF Init, TypeOK, NetworkType, Verdict, Phase, Family, Group

\* Entering a pass reads a well-typed snapshot.
LEMMA EnterType ==
    ASSUME TypeOK, NEW force \in BOOLEAN, NEW g \in Group \cup {"none"},
           Enter(force, g),
           healthForce' \in BOOLEAN, healthAge' \in Int, tryAge' \in Int,
           sinceTry' \in Nat, events' \in Nat
    PROVE  TypeOK'
  <1>1. snap' \in Snapshot
    BY NetworkTyped, LiveType DEF Enter
  <1>2. phase' \in Phase /\ fam' \in Family
        /\ phase' \in {"targeted", "health"}
        /\ (phase' = "targeted" => scope' \in Group)
    BY DEF Enter, GoTo, Phase, Family
  <1>3. QED
    BY <1>1, <1>2 DEF Enter, TypeOK, netVars, fileVars

\* A step that writes the health file and goes on keeps the types.
LEMMA HealthStepType ==
    ASSUME TypeOK,
           verdict' \in [Group -> [Family -> Verdict]],
           streak' \in [Group -> [Family -> 0..ProbeFailStreak]],
           misses' \in [Group -> [Family -> 0..ProbeFailStreak]],
           healthAge' \in Int, healthForce' \in BOOLEAN,
           phase' \in {"health", "warm"}, fam' \in Family,
           UNCHANGED <<netVars, fib, fileVars, answers, alignVars, result, audit,
                       passVars, dropped, moveVars, events, quiet>>
    PROVE  TypeOK'
  <1>1. NetworkType' /\ mode' \in Mode /\ answers' \in [Group -> SUBSET Family]
    BY DEF TypeOK, NetworkType, netVars, fileVars
  <1>2. /\ tryAge' \in Int /\ sinceTry' \in Nat /\ unstamped' \in BOOLEAN
        /\ cand' \in Group \cup {"none"} /\ hits' \in Nat
    BY DEF TypeOK, alignVars, tryVars
  <1>3. /\ result' \in {"none", "ok", "failed", "killed"}
        /\ audit' \in Group \cup {"none", "split"}
        /\ phase' \in Phase
        /\ forced' \in BOOLEAN /\ scope' \in Group \cup {"none"}
        /\ snap' \in Snapshot /\ dropped' \in BOOLEAN
    BY DEF TypeOK, Phase, passVars
  <1>4. /\ dest' \in Group \cup {"none"} /\ committed' \in BOOLEAN
        /\ chosen' \in Group \cup {"none"}
        /\ owner' \in Group \cup {"none", "split"}
        /\ events' \in Nat /\ quiet' \in BOOLEAN
    BY DEF TypeOK, moveVars
  <1>5. QED
    BY <1>1, <1>2, <1>3, <1>4 DEF TypeOK, NetworkType

\* So does one beside the pass that changes the network, or ends the pass.
LEMMA AsideType ==
    ASSUME TypeOK,
           link' \in [Group -> BOOLEAN], addr' \in [Group -> SUBSET Family],
           fib' \in Tables, answers' \in [Group -> SUBSET Family],
           result' \in {result, "killed"}, phase' \in {phase, "idle"},
           fam' \in Family, events' \in Nat, quiet' \in BOOLEAN,
           UNCHANGED <<conf, plan, rt, mode, healthVars, healthForce, alignVars,
                       audit, passVars, dropped, moveVars>>
    PROVE  TypeOK'
  <1>1. NetworkType' /\ mode' \in Mode
    BY DEF TypeOK, NetworkType
  <1>2. /\ verdict' \in [Group -> [Family -> Verdict]]
        /\ streak' \in [Group -> [Family -> 0..ProbeFailStreak]]
        /\ misses' \in [Group -> [Family -> 0..ProbeFailStreak]]
        /\ healthAge' \in Int /\ healthForce' \in BOOLEAN
    BY DEF TypeOK, healthVars
  <1>3. /\ tryAge' \in Int /\ sinceTry' \in Nat /\ unstamped' \in BOOLEAN
        /\ cand' \in Group \cup {"none"} /\ hits' \in Nat
    BY DEF TypeOK, alignVars, tryVars
  <1>4. /\ result' \in {"none", "ok", "failed", "killed"}
        /\ audit' \in Group \cup {"none", "split"}
        /\ phase' \in Phase
        /\ forced' \in BOOLEAN /\ scope' \in Group \cup {"none"}
        /\ snap' \in Snapshot /\ dropped' \in BOOLEAN
        /\ phase' = "targeted" => scope' \in Group
    BY DEF TypeOK, Phase, passVars
  <1>5. /\ dest' \in Group \cup {"none"} /\ committed' \in BOOLEAN
        /\ chosen' \in Group \cup {"none"}
        /\ owner' \in Group \cup {"none", "split"}
        /\ phase' \in {"probe", "promote", "demote", "holes", "verify", "restore"}
           => dest' \in Group
    BY DEF TypeOK, moveVars
  <1>6. QED
    BY <1>1, <1>2, <1>3, <1>4, <1>5 DEF TypeOK, NetworkType

\* Each step of a pass keeps the types.
LEMMA TypeSteps == TypeOK /\ Step => TypeOK'
  <1> SUFFICES ASSUME TypeOK, Step PROVE TypeOK'
    OBVIOUS
  <1> USE DEF netVars, fileVars, healthVars, alignVars, tryVars, passVars, moveVars,
              GoTo
  <1>1. CASE TargetedHealth
    <2>1. /\ verdict' \in [Group -> [Family -> Verdict]]
          /\ streak' \in [Group -> [Family -> 0..ProbeFailStreak]]
          /\ misses' \in [Group -> [Family -> 0..ProbeFailStreak]]
          /\ healthAge' \in Int
      BY <1>1, HealthRoundType DEF TargetedHealth
    <2>2. QED
      BY <1>1, <2>1, HealthStepType DEF TargetedHealth, Family
  <1>2. CASE Health
    <2>1. /\ verdict' \in [Group -> [Family -> Verdict]]
          /\ streak' \in [Group -> [Family -> 0..ProbeFailStreak]]
          /\ misses' \in [Group -> [Family -> 0..ProbeFailStreak]]
          /\ healthAge' \in Int
      <3>1. CASE HealthRound(snap, Group)
        BY <3>1, HealthRoundType
      <3>2. CASE UNCHANGED healthVars
        BY <3>2 DEF TypeOK
      <3>3. QED
        BY <1>2, <3>1, <3>2 DEF Health
    <2>2. QED
      BY <1>2, <2>1, HealthStepType DEF Health, Family
  <1>3. CASE KeepWarm
    <2>1. fib' \in Tables /\ rt' \subseteq Hop /\ dropped' \in BOOLEAN
      BY <1>3, KeepWarmResult
    <2>2. QED
      BY <1>3, <2>1 DEF KeepWarm, TypeOK, Phase, Family
  <1>4. CASE Decide
    <2>1. /\ dest' \in Group \cup {"none"}
          /\ tryAge' \in Int /\ sinceTry' \in Nat /\ unstamped' \in BOOLEAN
          /\ cand' \in Group \cup {"none"} /\ hits' \in Nat
          /\ owner' \in Group \cup {"none", "split"}
          /\ phase' \in {"probe", "end"} /\ fam' = "v4"
          /\ phase' = "probe" => dest' \in Group
      BY <1>4, DecideResult DEF TypeOK
    <2>2. QED
      BY <1>4, <2>1 DEF Decide, TypeOK, Phase, Family
  <1>5. CASE Probe
    BY <1>5 DEF Probe, TypeOK, Phase, Family
  <1>6. CASE SkipFamily
    BY <1>6 DEF SkipFamily, AfterCommit, TypeOK, Phase, Family
  <1>7. CASE Promote
    <2>1. fib' \in Tables
      BY <1>7, PromoteWrite
    <2>2. /\ phase' \in {"promote", "demote", "holes"} /\ fam' \in Family
          /\ committed' \in BOOLEAN
      BY <1>7 DEF Promote, AfterCommit, TypeOK, Family
    <2>3. QED
      BY <1>7, <2>1, <2>2 DEF Promote, TypeOK, Phase
  <1>8. CASE Demote
    <2>1. fib' \in Tables
      BY <1>8, DemoteWrite
    <2>2. QED
      BY <1>8, <2>1 DEF Demote, AfterCommit, TypeOK, Phase, Family
  <1>9. CASE Holes
    <2>1. fib' \in Tables /\ plan' \in [Group -> [Family -> SectionPlan]]
      BY <1>9, NetworkTyped, ParkStandbyResult DEF Holes, TypeOK
    <2>2. QED
      BY <1>9, <2>1 DEF Holes, TypeOK, Phase, Family
  <1>10. CASE Verify
    BY <1>10 DEF Verify, ClearCandidate, TypeOK, Phase, Family
  <1>11. CASE Restore
    <2>1. fib' \in Tables
      BY <1>11, RestoreWrite
    <2>2. QED
      BY <1>11, <2>1 DEF Restore, TypeOK, Phase, Family
  <1>12. CASE Converge
    <2>1. fib' \in Tables /\ chosen' \in Group \cup {"none"}
      BY <1>12, ConvergeWrite
    <2>2. /\ phase' \in {"converge", "end"} /\ fam' \in Family
          /\ result' \in {"none", "ok", "failed", "killed"}
      BY <1>12 DEF Converge, TypeOK, Family
    <2>3. QED
      BY <1>12, <2>1, <2>2 DEF Converge, TypeOK, Phase
  <1>13. CASE End
    BY <1>13 DEF End, TypeOK, Phase, Family
  <1>14. QED
    BY <1>1, <1>2, <1>3, <1>4, <1>5, <1>6, <1>7, <1>8, <1>9, <1>10, <1>11,
       <1>12, <1>13 DEF Step

\* The watchdog, the network, other processes and crashes keep the types.
LEMMA TypeStep == TypeOK /\ [Next]_vars => TypeOK'
  <1> SUFFICES ASSUME TypeOK, [Next]_vars PROVE TypeOK'
    OBVIOUS
  <1>0. /\ Older(healthAge, HealthInterval) \in Int /\ Older(tryAge, Cooldown) \in Int
        /\ Older(sinceTry, Cooldown) \in Nat
    BY ReconcileAssumption DEF Older, TypeOK
  <1>a. events + 1 \in Nat
    <2>1. events \in Nat
      BY DEF TypeOK
    <2>2. QED
      BY <2>1
  <1>1. CASE Watch
    BY <1>0, <1>1, EnterType DEF Watch, TypeOK
  <1>2. CASE Step
    BY <1>2, TypeSteps
  <1>3. CASE (\E g \in Group : Hotplug(g)) \/ Align \/ ReconcileNow
    <2>1. events' \in Nat
      BY <1>a, <1>3 DEF Hotplug, Align, ReconcileNow, Event
    <2>2. CASE \E g \in Group : Hotplug(g)
      BY <2>1, <2>2, EnterType DEF Hotplug, TypeOK
    <2>3. CASE Align
      BY <2>1, <2>3, EnterType DEF Align, TypeOK
    <2>4. CASE ReconcileNow
      BY <2>1, <2>4, EnterType DEF ReconcileNow, TypeOK
    <2>5. QED
      BY <1>3, <2>2, <2>3, <2>4
  <1>4. CASE NetworkEvent
    <2>1. /\ fib' \in Tables /\ answers' \in [Group -> SUBSET Family]
          /\ link' \in [Group -> BOOLEAN] /\ addr' \in [Group -> SUBSET Family]
      <3>1. CASE /\ \/ \E g \in Group : LoseLink(g)
                    \/ \E g \in Group, f \in Family :
                          RaiseSection(g, f) \/ WithdrawRoute(g, f)
                 /\ UNCHANGED answers
        BY <3>1, NetworkTyped, LoseLinkType, RaiseSectionType, WithdrawRouteType
           DEF TypeOK
      <3>2. CASE /\ \E g \in Group : \E F \in AnswerSets :
                      answers' = [answers EXCEPT ![g] = F]
                 /\ UNCHANGED <<link, addr, fib>>
        BY <3>2, ReconcileAssumption DEF TypeOK
      <3>3. QED
        BY <1>4, <3>1, <3>2 DEF NetworkEvent
    <2>2. /\ events' \in Nat /\ quiet' \in BOOLEAN
          /\ UNCHANGED <<conf, plan, rt, mode, healthVars, healthForce, alignVars,
                         result, audit, phase, fam, passVars, dropped, moveVars>>
      BY <1>a, <1>4 DEF NetworkEvent, Event, fileVars
    <2>3. result' = result /\ phase' = phase /\ fam' \in Family
      BY <2>2 DEF TypeOK
    <2>4. QED
      BY <2>1, <2>2, <2>3, AsideType
  <1>5. CASE OutsideEvent
    <2>1. /\ verdict' \in [Group -> [Family -> Verdict]]
          /\ streak' \in [Group -> [Family -> 0..ProbeFailStreak]]
          /\ misses' \in [Group -> [Family -> 0..ProbeFailStreak]]
          /\ healthAge' \in Int /\ tryAge' \in Int /\ healthForce' \in BOOLEAN
      <3>1. CASE HealthRound(Live, Group) /\ UNCHANGED <<healthForce, tryAge>>
        BY <3>1, HealthRoundType DEF TypeOK
      <3>2. CASE healthForce' = TRUE /\ UNCHANGED <<healthVars, tryAge>>
        BY <3>2 DEF TypeOK, healthVars
      <3>3. CASE /\ healthAge' = healthAge - 1 /\ tryAge' = tryAge - 1
                 /\ UNCHANGED <<verdict, streak, misses, healthForce>>
        BY <3>3 DEF TypeOK
      <3>4. CASE /\ tryAge' = Cooldown
                 /\ healthAge' \in {healthAge, HealthInterval}
                 /\ UNCHANGED <<verdict, streak, misses, healthForce>>
        BY <3>4, ReconcileAssumption DEF TypeOK
      <3>5. QED
        BY <1>5, <3>1, <3>2, <3>3, <3>4 DEF OutsideEvent
    <2>2. /\ UNCHANGED <<netVars, fib, fileVars, answers, cand, hits, sinceTry,
                         result, audit, phase, fam, passVars, dropped, moveVars,
                         quiet>>
          /\ events' \in Nat
      BY <1>a, <1>5 DEF OutsideEvent, Event
    <2>3. NetworkType' /\ mode' \in Mode /\ answers' \in [Group -> SUBSET Family]
      BY <2>2 DEF TypeOK, NetworkType, netVars, fileVars
    <2>a. unstamped' \in BOOLEAN
      BY <1>5 DEF OutsideEvent, TypeOK
    <2>4. /\ sinceTry' \in Nat /\ cand' \in Group \cup {"none"} /\ hits' \in Nat
          /\ result' \in {"none", "ok", "failed", "killed"}
          /\ audit' \in Group \cup {"none", "split"}
          /\ phase' \in Phase /\ fam' \in Family /\ quiet' \in BOOLEAN
      BY <2>2 DEF TypeOK
    <2>5. /\ forced' \in BOOLEAN /\ scope' \in Group \cup {"none"}
          /\ snap' \in Snapshot /\ dropped' \in BOOLEAN
          /\ dest' \in Group \cup {"none"} /\ committed' \in BOOLEAN
          /\ chosen' \in Group \cup {"none"}
          /\ owner' \in Group \cup {"none", "split"}
          /\ phase' = "targeted" => scope' \in Group
          /\ phase' \in {"probe", "promote", "demote", "holes", "verify", "restore"}
             => dest' \in Group
      BY <2>2 DEF TypeOK, passVars, moveVars
    <2>6. QED
      BY <2>1, <2>2, <2>3, <2>a, <2>4, <2>5 DEF TypeOK, NetworkType
  <1>6. CASE Crash
    <2>1. /\ phase' = "idle" /\ fam' \in Family /\ result' = "killed"
          /\ events' \in Nat /\ quiet' \in BOOLEAN
          /\ UNCHANGED <<netVars, fib, fileVars, answers, healthVars, healthForce,
                         alignVars, audit, passVars, dropped, moveVars>>
      BY <1>a, <1>6 DEF Crash, Event, GoTo, Family
    <2>2. /\ link' \in [Group -> BOOLEAN] /\ addr' \in [Group -> SUBSET Family]
          /\ fib' \in Tables /\ answers' \in [Group -> SUBSET Family]
          /\ UNCHANGED <<conf, plan, rt, mode>>
      BY <2>1 DEF TypeOK, netVars, fileVars
    <2>3. QED
      BY <2>1, <2>2, AsideType
  <1>7. CASE UNCHANGED vars
    BY <1>7 DEF vars, TypeOK, netVars, fileVars, healthVars, alignVars, tryVars,
                passVars, moveVars
  <1>8. QED
    BY <1>1, <1>2, <1>3, <1>4, <1>5, <1>6, <1>7 DEF Next, Environment

-----------------------------------------------------------------------------
(***************************************************************************)
(* The theorems                                                            *)
(***************************************************************************)

\* Every variable keeps its type.
THEOREM ReconcileTypeSafe == Spec => []TypeOK
  BY TypeInit, TypeStep, PTL DEF Spec

\* The recorded age of the last attempt is never above its true age, unless its
\* stamp is no longer its own: a stamp is only ever renewed, by a success too, and
\* a clock set back makes it younger.
Spaced == unstamped \/ tryAge <= sinceTry

\* Spaced is kept by every step.
LEMMA SpacedStep == TypeOK /\ Spaced /\ [Next]_vars => Spaced'
  <1> SUFFICES ASSUME TypeOK, Spaced, [Next]_vars PROVE Spaced'
    OBVIOUS
  <1> USE DEF Spaced
  <1>0. tryAge \in Int /\ sinceTry \in Nat /\ Cooldown \in Nat
    BY ReconcileAssumption DEF TypeOK
  <1>1. CASE Watch
    <2>1. unstamped' = unstamped
      BY <1>1 DEF Watch, Enter
    <2>2. /\ tryAge' = Older(tryAge, Cooldown)
          /\ sinceTry' = Older(sinceTry, Cooldown)
      BY <1>1 DEF Watch
    <2>3. tryAge <= sinceTry => tryAge' <= sinceTry'
      BY <1>0, <2>2 DEF Older
    <2>4. QED
      BY <2>1, <2>3
  <1>2. CASE Decide
    <2>1. CASE tryAge' = 0 /\ sinceTry' = 0
      BY <2>1
    <2>2. CASE UNCHANGED tryVars
      BY <2>2 DEF tryVars
    <2>3. QED
      BY <1>2, <2>1, <2>2, DecideResult
  <1>3. CASE Verify
    BY <1>0, <1>3 DEF Verify
  <1>4. CASE OutsideEvent
    <2>1. tryAge' \in Int /\ sinceTry' = sinceTry
      BY <1>0, <1>4 DEF OutsideEvent
    <2>2. ~unstamped' => ~unstamped /\ ~(tryAge' > tryAge)
      BY <1>4 DEF OutsideEvent
    <2>3. ~(tryAge' > tryAge) /\ tryAge <= sinceTry => tryAge' <= sinceTry'
      BY <1>0, <2>1
    <2>4. QED
      BY <2>2, <2>3
  <1>5. CASE UNCHANGED tryVars
    BY <1>5 DEF tryVars
  <1>6. QED
    BY <1>1, <1>2, <1>3, <1>4, <1>5
       DEF Next, Step, Environment, TargetedHealth, Health, KeepWarm, Probe,
           SkipFamily, Promote, Demote, Holes, Restore, Converge, End, Hotplug,
           Align, ReconcileNow, NetworkEvent, Crash, Enter, alignVars, tryVars, vars

\* Automatic alignments are spaced by the cooldown, whatever ends a pass, as long
\* as the stamp of the last one is its own.
THEOREM AlignmentsSpaced == Spec => AttemptsSpaced
  <1>1. Init => Spaced
    BY ReconcileAssumption DEF Init, Spaced
  <1>2. TypeOK /\ Spaced /\ [Next]_vars =>
          [phase = "decide" /\ phase' = "probe" /\ ~forced /\ ~unstamped
             => sinceTry >= Cooldown]_vars
    <2> SUFFICES ASSUME TypeOK, Spaced, Next, phase = "decide", phase' = "probe",
                        ~forced, ~unstamped
                 PROVE  sinceTry >= Cooldown
      OBVIOUS
    <2>1. Decide
      BY DEF Next, Step, Environment, Watch, Enter, TargetedHealth, Health,
             KeepWarm, Probe, SkipFamily, Promote, Demote, Holes, Verify, Restore,
             Converge, End, Hotplug, Align, ReconcileNow, NetworkEvent,
             OutsideEvent, Crash, GoTo
    <2>2. tryAge >= Cooldown
      BY <2>1, DecideResult
    <2>3. QED
      BY <2>2, ReconcileAssumption DEF Spaced, TypeOK
  <1>3. QED
    BY <1>1, <1>2, SpacedStep, ReconcileTypeSafe, PTL DEF Spec, AttemptsSpaced

\* No step of the reconciler takes the last default route of a family the exit
\* it moves to can carry.
THEOREM ReconcileNeverBlackholes == Spec => NeverBlackholes
  <1>1. TypeOK /\ [Next]_vars =>
          [OwnStep => \A f \in Family :
              fib[f] # {} /\ fib'[f] = {} =>
                  phase = "holes" /\ ~Capable(dest, f)]_vars
    <2> SUFFICES ASSUME TypeOK, Next, OwnStep, NEW f \in Family, fib[f] # {},
                        fib'[f] = {}
                 PROVE  phase = "holes" /\ ~Capable(dest, f)
      OBVIOUS
    <2>1. ~Environment
      <3>1. Environment => events' = events + 1
        BY DEF Environment, Event, Hotplug, Align, ReconcileNow, NetworkEvent,
               OutsideEvent, Crash
      <3>2. events \in Nat /\ events' = events
        BY DEF TypeOK, OwnStep
      <3>3. QED
        BY <3>1, <3>2
    <2>2. ~Watch
      BY DEF Watch, Enter
    <2>3. CASE KeepWarm
      BY <2>3, KeepWarmResult
    <2>4. CASE Promote
      BY <2>4, PromoteWrite
    <2>5. CASE Demote
      BY <2>5, DemoteWrite
    <2>6. CASE Restore
      BY <2>6, RestoreWrite
    <2>7. CASE Converge
      BY <2>7, ConvergeWrite
    <2>8. CASE Holes
      <3>1. dest \in Group
        BY <2>8 DEF Holes, TypeOK
      <3>2. QED
        BY <2>8, <3>1, NetworkTyped, ParkStandbyResult DEF Holes
    <2>9. QED
      BY <2>1, <2>2, <2>3, <2>4, <2>5, <2>6, <2>7, <2>8
         DEF Next, Step, TargetedHealth, Health, Decide, Probe, SkipFamily, Verify,
             End
  <1>2. QED
    BY <1>1, ReconcileTypeSafe, PTL DEF Spec, NeverBlackholes

\* A streak counts no more than the probes that went out and were not answered.
StreakCounts ==
    \A g \in Group, f \in Family : streak[g][f] <= misses[g][f]

\* A health round keeps it, whatever part of the exits it probes.
LEMMA RoundCounts ==
    ASSUME TypeOK, StreakCounts, NEW s, NEW S, HealthRound(s, S)
    PROVE  StreakCounts'
  <1> SUFFICES ASSUME NEW g \in Group, NEW f \in Family
               PROVE  streak'[g][f] <= misses'[g][f]
    BY DEF StreakCounts
  <1> DEFINE seen == IF g \in S THEN Outcome(s, g, f) ELSE "unknown"
  <1>1. /\ streak'[g][f] = NextStreak(streak[g][f], seen)
        /\ misses'[g][f] = IF g \notin S \/ ~Ready(s, g, f) THEN misses[g][f]
                            ELSE IF Answers(g, f) THEN 0
                            ELSE Older(misses[g][f], ProbeFailStreak)
    BY DEF HealthRound
  <1>2. /\ streak[g][f] \in 0..ProbeFailStreak /\ misses[g][f] \in 0..ProbeFailStreak
        /\ streak[g][f] <= misses[g][f]
    BY DEF TypeOK, StreakCounts
  <1>3. CASE g \notin S \/ ~Ready(s, g, f)
    <2>1. seen = "unknown"
      BY <1>3 DEF Outcome
    <2>2. QED
      BY <1>1, <1>2, <1>3, <2>1 DEF NextStreak
  <1>4. CASE g \in S /\ Ready(s, g, f) /\ Answers(g, f)
    <2>1. seen = "up"
      BY <1>4 DEF Outcome
    <2>2. QED
      BY <1>1, <1>4, <2>1 DEF NextStreak
  <1>5. CASE g \in S /\ Ready(s, g, f) /\ ~Answers(g, f)
    <2>1. seen = "down"
      BY <1>5 DEF Outcome
    <2> HIDE DEF seen
    <2>2. QED
      BY <1>1, <1>2, <1>5, <2>1, ReconcileAssumption DEF NextStreak, Older
  <1>6. QED
    BY <1>3, <1>4, <1>5

\* So does every other step.
LEMMA StreakStep == TypeOK /\ StreakCounts /\ [Next]_vars => StreakCounts'
  <1> SUFFICES ASSUME TypeOK, StreakCounts, [Next]_vars PROVE StreakCounts'
    OBVIOUS
  <1>1. \A s, S : HealthRound(s, S) => StreakCounts'
    BY RoundCounts
  <1>2. CASE UNCHANGED <<streak, misses>>
    BY <1>2 DEF StreakCounts
  <1>3. QED
    BY <1>1, <1>2
       DEF Next, Step, Environment, Watch, Enter, TargetedHealth, Health, KeepWarm,
           Decide, Probe, SkipFamily, Promote, Demote, Holes, Verify, Restore,
           Converge, End, Hotplug, Align, ReconcileNow, NetworkEvent, OutsideEvent, Crash,
           healthVars, vars

\* The policy's primary exit is left only when probe_fail_streak of its probes
\* have gone unanswered since the last answer, or when it does not hold both
\* families.
THEOREM PrimaryIsKept == Spec => PrimaryKept
  <1>1. Init => StreakCounts
    BY DEF Init, StreakCounts
  <1>2. TypeOK /\ StreakCounts /\ [Next]_vars =>
          [phase = "decide" /\ phase' = "probe" /\ dest' # primary
             => \/ \E f \in conf.capable[primary] :
                      misses[primary][f] >= ProbeFailStreak
                \/ \E f \in Family : Owners(Seen[f]) # {primary}]_vars
    <2> SUFFICES ASSUME TypeOK, StreakCounts, Next, phase = "decide",
                        phase' = "probe", dest' # primary,
                        \A f \in Family : Owners(Seen[f]) = {primary}
                 PROVE  \E f \in conf.capable[primary] :
                            misses[primary][f] >= ProbeFailStreak
      OBVIOUS
    <2>1. Decide
      BY DEF Next, Step, Environment, Watch, Enter, TargetedHealth, Health,
             KeepWarm, Probe, SkipFamily, Promote, Demote, Holes, Verify, Restore,
             Converge, End, Hotplug, Align, ReconcileNow, NetworkEvent,
             OutsideEvent, Crash, GoTo
    <2>2. primary \in Group /\ primary # "none"
      BY PrimaryType DEF Group
    <2>3. DecideExit(primary)
      BY <2>1, <2>2 DEF Decide, Family
    <2>4. Degraded(snap, primary)
      <3>1. ASSUME NEW force, AlignTo(primary, force) PROVE FALSE
        BY <3>1 DEF AlignTo, Stay, GoTo
      <3>2. ~Stay
        BY DEF Stay, GoTo
      <3>3. QED
        BY <2>3, <3>1, <3>2 DEF DecideExit
    <2>5. PICK f \in conf.capable[primary] : streak[primary][f] >= ProbeFailStreak
      BY <2>4 DEF Degraded
    <2>6. f \in Family
      BY <2>2 DEF TypeOK, Config
    <2>7. /\ streak[primary][f] <= misses[primary][f]
          /\ streak[primary][f] \in Int /\ misses[primary][f] \in Int
      BY <2>2, <2>6 DEF StreakCounts, TypeOK
    <2>8. misses[primary][f] >= ProbeFailStreak
      BY <2>5, <2>7, ReconcileAssumption
    <2>9. QED
      BY <2>8
  <1>3. QED
    BY <1>1, <1>2, StreakStep, ReconcileTypeSafe, PTL DEF Spec, PrimaryKept

-----------------------------------------------------------------------------
(***************************************************************************)
(* What becomes of the exit an alignment fails to leave.  The invariant    *)
(* relates the tables to the snapshot of the pass, as long as the network  *)
(* was quiet.                                                              *)
(***************************************************************************)

\* The network and the snapshot agree with the deployment, and an exit that is
\* demoted can carry the family.
Consistent ==
    /\ NetworkConsistent
    /\ \A f \in Family : Fits(snap.fib[f], f)
    /\ phase = "demote" => fam \in conf.capable[Other(dest)]

\* The addresses of the snapshot are those of the network.
SnapCurrent == quiet => snap.addr = addr

\* An exit that is aligned to had an IPv4 route, if it can carry IPv4.
DestCarried ==
    phase \in {"probe", "promote", "demote", "holes", "verify", "restore", "converge"}
    => dest \in Group /\ ("v4" \in conf.capable[dest] => snap.fib["v4"] # {})

\* Whoever carried a family when the pass began can reclaim it.
Reclaims ==
    quiet => \A f \in Family, g \in Group :
                Owners(snap.fib[f]) = {g} => Reclaimable(fib[f], g)

\* The other exit held every family that had a default route.
Held ==
    \A f \in Family :
        snap.fib[f] # {} => /\ Owners(snap.fib[f]) = {Other(dest)}
                           /\ f \in snap.addr[Other(dest)]

HeldAgain(f) == snap.fib[f] # {} => Owners(fib[f]) = {Other(dest)}

\* The families the restore has been through are its again, and the
\* convergence goes onto it.
Restored ==
    quiet /\ Held
    => /\ phase = "restore" /\ fam = "v6" => HeldAgain("v4")
       /\ phase = "converge" => HeldAgain("v4") /\ HeldAgain("v6")
       /\ phase = "converge" /\ fam = "v6" /\ snap.fib["v6"] # {}
          => chosen = Other(dest)

\* What a step of the pass leaves alone.
LEMMA StepFrame ==
    ASSUME Step
    PROVE  UNCHANGED <<conf, link, addr, snap, quiet>> /\ phase # "idle"
  BY DEF Step, TargetedHealth, Health, KeepWarm, Decide, Probe, SkipFamily,
         Promote, Demote, Holes, Verify, Restore, Converge, End, netVars, passVars

\* Any other step begins a pass, ends the quiet, or leaves the pass alone.
LEMMA AsideFrame ==
    ASSUME [Next]_vars, ~Step
    PROVE  \/ /\ snap' = Live /\ UNCHANGED <<conf, link, addr, fib, rt>>
              /\ phase' \in {"targeted", "health"}
           \/ /\ quiet' = FALSE /\ UNCHANGED <<conf, rt, snap, dest>>
              /\ phase' = "idle" \/ UNCHANGED <<phase, fam>>
              /\ \/ UNCHANGED <<link, addr, fib>>
                 \/ \E g \in Group, f \in Family :
                        LoseLink(g) \/ RaiseSection(g, f) \/ WithdrawRoute(g, f)
           \/ UNCHANGED <<conf, link, addr, fib, rt, snap, quiet, phase, fam, dest,
                          chosen>>
  <1>1. CASE Watch \/ (\E g \in Group : Hotplug(g)) \/ Align \/ ReconcileNow
    BY <1>1 DEF Watch, Hotplug, Align, ReconcileNow, Enter, GoTo, netVars, fileVars
  <1>2. CASE NetworkEvent
    BY <1>2 DEF NetworkEvent, fileVars, passVars, moveVars, Family
  <1>3. CASE Crash
    BY <1>3 DEF Crash, GoTo, netVars, fileVars, passVars, moveVars
  <1>4. CASE OutsideEvent \/ UNCHANGED vars
    BY <1>4 DEF OutsideEvent, vars, netVars, fileVars, passVars, moveVars
  <1>5. QED
    BY <1>1, <1>2, <1>3, <1>4 DEF Next, Environment

\* KeepWarm writes the standby slot of one exit, in families it can carry and
\* has no route in, or nothing.
LEMMA KeepWarmWrites ==
    ASSUME TypeOK, KeepWarm, NEW f \in Family
    PROVE  \/ fib'[f] = fib[f]
           \/ \E g \in Group : /\ f \in conf.capable[g] /\ GroupRoute(snap, g, f) = {}
                              /\ fib'[f] \in ReplaceSlot(fib[f], g, StandbyMetric)
  <1>1. CASE UNCHANGED fib
    BY <1>1
  <1>2. CASE ~(UNCHANGED fib)
    <2>1. PICK o \in SnapOwners :
            \E t4 \in WarmTables(snap, Other(o), "v4"),
               t6 \in WarmTables(snap, Other(o), "v6") :
                fib' = [h \in Family |-> IF h = "v4" THEN t4 ELSE t6]
      BY <1>2 DEF KeepWarm
    <2>2. Other(o) \in Group
      BY DEF Other, Group
    <2>3. fib'[f] \in WarmTables(snap, Other(o), f)
      BY <2>1 DEF Family
    <2>4. QED
      BY <2>2, <2>3 DEF WarmTables, BestEffort, Warmable, Capable
  <1>3. QED
    BY <1>1, <1>2

\* It remembers no next hop but those of the deployment.
LEMMA KeepWarmHops ==
    ASSUME TypeOK, Consistent, KeepWarm
    PROVE  rt' = rt
  <1>1. ASSUME NEW h \in Hop, h[2] \in conf.gateway[h[1]],
               GroupRoute(snap, h[1], h[2]) # {}
        PROVE  h \in rt
    <2>1. h[1] \in Group /\ h[2] \in Family
      BY <1>1 DEF Hop
    <2>2. h[2] \in conf.capable[h[1]]
      BY <1>1, <2>1, ShownFits DEF Consistent
    <2>3. QED
      BY <1>1, <2>2 DEF Consistent, NetworkConsistent, HopsKnown
  <1>2. QED
    BY <1>1 DEF KeepWarm, Remembered

\* The writes of the pass fit the deployment.
LEMMA ConsistentStep ==
    ASSUME TypeOK, Consistent, [Next]_vars
    PROVE  Consistent'
  <1>0. /\ NetworkType /\ fam \in Family
        /\ \A f \in Family : Fits(fib[f], f) /\ Fits(snap.fib[f], f)
        /\ HopsKnown
    BY NetworkTyped DEF TypeOK, Consistent, NetworkConsistent
  <1>1. CASE ~Step
    <2>1. CASE /\ snap' = Live /\ UNCHANGED <<conf, link, addr, fib, rt>>
               /\ phase' \in {"targeted", "health"}
      BY <2>1 DEF Consistent, NetworkConsistent, HopsKnown, Fits, Live
    <2>2. CASE /\ UNCHANGED <<conf, rt, snap, dest>>
               /\ phase' = "idle" \/ UNCHANGED <<phase, fam>>
               /\ \/ UNCHANGED <<link, addr, fib>>
                  \/ \E g \in Group, f \in Family :
                        LoseLink(g) \/ RaiseSection(g, f) \/ WithdrawRoute(g, f)
      <3>1. NetworkConsistent'
        <4>1. CASE UNCHANGED <<link, addr, fib>>
          BY <2>2, <4>1 DEF Consistent, NetworkConsistent, HopsKnown, Fits
        <4>2. CASE \E g \in Group, f \in Family :
                        LoseLink(g) \/ RaiseSection(g, f) \/ WithdrawRoute(g, f)
          BY <1>0, <2>2, <4>2, OutsideFits DEF Consistent
        <4>3. QED
          BY <2>2, <4>1, <4>2
      <3>2. QED
        BY <2>2, <3>1 DEF Consistent, Fits
    <2>3. CASE UNCHANGED <<conf, link, addr, fib, rt, snap, quiet, phase, fam, dest,
                           chosen>>
      BY <2>3 DEF Consistent, NetworkConsistent, HopsKnown, Fits
    <2>4. QED
      BY <1>1, <2>1, <2>2, <2>3, AsideFrame
  <1>2. CASE Step
    <2>0. UNCHANGED <<conf, link, addr, snap>>
      BY <1>2, StepFrame
    <2> DEFINE Good == /\ \A f \in Family : Fits(fib'[f], f)
                       /\ rt' = rt
                       /\ phase' = "demote" => fam' \in conf.capable[Other(dest')]
    <2>1. CASE KeepWarm
      <3>1. phase' # "demote"
        BY <2>1 DEF KeepWarm, GoTo
      <3>2. \A f \in Family : Fits(fib'[f], f)
        BY <1>0, <2>1, KeepWarmWrites, WriteFits
      <3>3. Good
        BY <2>1, <3>1, <3>2, KeepWarmHops
      <3>4. QED
        BY <2>0, <3>3 DEF Consistent, NetworkConsistent, HopsKnown, Fits
    <2>2. ASSUME NEW t, Fits(t, fam), fib' = [fib EXCEPT ![fam] = t], rt' = rt,
                 phase' = "demote" => fam' \in conf.capable[Other(dest')]
          PROVE  Consistent'
      <3>1. \A f \in Family : Fits(fib'[f], f)
        BY <1>0, <2>2 DEF TypeOK, Tables
      <3>2. QED
        BY <2>0, <2>2, <3>1 DEF Consistent, NetworkConsistent, HopsKnown, Fits
    <2>3. CASE Promote
      <3>1. rt' = rt /\ dest' = dest
        BY <2>3 DEF Promote, fileVars
      <3>2. phase' = "demote" => fam' = fam /\ GroupRoute(snap, Other(dest), fam) # {}
        BY <2>3 DEF Promote, AfterCommit, GoTo
      <3>3. phase' = "demote" => fam' \in conf.capable[Other(dest')]
        BY <1>0, <3>1, <3>2, ShownFits
      <3>4. CASE UNCHANGED fib
        <4>1. fib' = [fib EXCEPT ![fam] = fib[fam]]
          BY <3>4 DEF TypeOK, Tables
        <4>2. QED
          BY <1>0, <2>2, <3>1, <3>3, <4>1
      <3>5. CASE ~(UNCHANGED fib)
        <4>1. PICK t \in ReplaceSlot(fib[fam], dest, ActiveMetric) :
                fib' = [fib EXCEPT ![fam] = t]
          BY <2>3, <3>5 DEF Promote
        <4>2. Fits(t, fam)
          BY <1>0, <2>3, <4>1, WriteFits DEF Promote, Capable
        <4>3. QED
          BY <2>2, <3>1, <3>3, <4>1, <4>2
      <3>6. QED
        BY <3>4, <3>5
    <2>4. CASE Demote
      <3>1. PICK t \in BestEffort(fib[fam], Other(dest), fam, StandbyMetric) :
                fib' = [fib EXCEPT ![fam] = t]
        BY <2>4 DEF Demote
      <3>2. Fits(t, fam)
        BY <1>0, <2>4, <3>1, EffortFits DEF Demote, Consistent
      <3>3. rt' = rt /\ phase' # "demote"
        BY <2>4 DEF Demote, AfterCommit, GoTo, fileVars
      <3>4. QED
        BY <2>2, <3>1, <3>2, <3>3
    <2>5. CASE Restore
      <3>1. PICK t \in CommitTables(snap, fam, Other(dest)) :
                fib' = [fib EXCEPT ![fam] = t]
        BY <2>5 DEF Restore
      <3>2. Fits(t, fam)
        BY <1>0, <3>1, CommitFits
      <3>3. rt' = rt /\ phase' # "demote"
        BY <2>5 DEF Restore, GoTo, fileVars
      <3>4. QED
        BY <2>2, <3>1, <3>2, <3>3
    <2>6. CASE Converge
      <3>1. rt' = rt /\ phase' # "demote"
        BY <2>6 DEF Converge, GoTo, fileVars
      <3>2. CASE UNCHANGED fib
        <4>1. fib' = [fib EXCEPT ![fam] = fib[fam]]
          BY <3>2 DEF TypeOK, Tables
        <4>2. QED
          BY <1>0, <2>2, <3>1, <4>1
      <3>3. CASE ~(UNCHANGED fib)
        <4>1. PICK t \in CommitTables(snap, fam, chosen') :
                fib' = [fib EXCEPT ![fam] = t]
          BY <2>6, <3>3 DEF Converge
        <4>2. Fits(t, fam)
          BY <1>0, <4>1, CommitFits
        <4>3. QED
          BY <2>2, <3>1, <4>1, <4>2
      <3>4. QED
        BY <3>2, <3>3
    <2>7. CASE Holes
      <3>1. \A f \in Family : fib'[f] \subseteq fib[f]
        BY <2>7 DEF Holes, ParkStandby, RouteDel
      <3>2. rt' = rt /\ phase' # "demote"
        BY <2>7 DEF Holes, GoTo
      <3>3. QED
        BY <1>0, <2>0, <3>1, <3>2 DEF Consistent, NetworkConsistent, HopsKnown, Fits
    <2>8. CASE \/ TargetedHealth \/ Health \/ Decide \/ Probe \/ SkipFamily
               \/ Verify \/ End
      <3>1. UNCHANGED <<fib, rt>>
        BY <2>8 DEF TargetedHealth, Health, Decide, Probe, SkipFamily, Verify, End,
                    fileVars
      <3>2. phase' # "demote"
        <4>1. CASE Decide
          BY <4>1, DecideResult
        <4>2. CASE TargetedHealth \/ Health \/ Probe \/ SkipFamily \/ Verify \/ End
          BY <4>2 DEF TargetedHealth, Health, Probe, SkipFamily, Verify, End,
                      AfterCommit, GoTo
        <4>3. QED
          BY <2>8, <4>1, <4>2
      <3>3. QED
        BY <2>0, <3>1, <3>2 DEF Consistent, NetworkConsistent, HopsKnown, Fits
    <2>9. QED
      BY <1>2, <2>1, <2>3, <2>4, <2>5, <2>6, <2>7, <2>8 DEF Step
  <1>3. QED
    BY <1>1, <1>2

\* A quiet network keeps the addresses the pass has read.
LEMMA SnapCurrentStep ==
    ASSUME SnapCurrent, [Next]_vars
    PROVE  SnapCurrent'
  <1>1. CASE Step
    BY <1>1, StepFrame DEF SnapCurrent
  <1>2. CASE ~Step
    <2>1. \/ snap' = Live /\ addr' = addr
          \/ quiet' = FALSE
          \/ UNCHANGED <<snap, addr, quiet>>
      BY <1>2, AsideFrame
    <2>2. CASE snap' = Live /\ addr' = addr
      BY <2>2 DEF SnapCurrent, Live
    <2>3. CASE quiet' = FALSE
      BY <2>3 DEF SnapCurrent
    <2>4. CASE UNCHANGED <<snap, addr, quiet>>
      BY <2>4 DEF SnapCurrent
    <2>5. QED
      BY <2>1, <2>2, <2>3, <2>4
  <1>3. QED
    BY <1>1, <1>2

\* Whatever the pass writes, who carried a family can reclaim it.
LEMMA ReclaimsStep ==
    ASSUME TypeOK, Consistent, Reclaims, [Next]_vars
    PROVE  Reclaims'
  <1>0. /\ \A f \in Family : fib[f] \in SUBSET Route
        /\ fib \in Tables /\ fam \in Family
    BY DEF TypeOK, Tables
  <1>1. CASE ~Step
    <2>1. CASE snap' = Live /\ fib' = fib
      BY <1>0, <2>1, OwnedReclaimable DEF Reclaims, Live
    <2>2. CASE UNCHANGED <<fib, snap, quiet>>
      BY <2>2 DEF Reclaims
    <2>3. CASE quiet' = FALSE
      BY <2>3 DEF Reclaims
    <2>4. QED
      BY <1>1, <2>1, <2>2, <2>3, AsideFrame
  <1>2. CASE Step
    <2> SUFFICES ASSUME quiet, NEW f \in Family, NEW g \in Group,
                        Owners(snap.fib[f]) = {g}
                 PROVE  Reclaimable(fib'[f], g)
      BY <1>2, StepFrame DEF Reclaims
    <2>0. Reclaimable(fib[f], g)
      BY DEF Reclaims
    <2>1. CASE fib'[f] = fib[f]
      BY <2>0, <2>1
    <2>2. CASE KeepWarm
      BY <1>0, <2>0, <2>2, KeepWarmWrites, WriteKeepsReclaimable
    <2>3. ASSUME NEW t, Reclaimable(fib[fam], g) => Reclaimable(t, g),
                 fib' = [fib EXCEPT ![fam] = t]
          PROVE  Reclaimable(fib'[f], g)
      BY <1>0, <2>0, <2>3 DEF Tables
    <2>4. CASE Promote
      <3>1. CASE UNCHANGED fib
        BY <2>1, <3>1
      <3>2. CASE ~(UNCHANGED fib)
        <4>1. PICK t \in ReplaceSlot(fib[fam], dest, ActiveMetric) :
                fib' = [fib EXCEPT ![fam] = t]
          BY <2>4, <3>2 DEF Promote
        <4>2. dest \in Group
          BY <2>4 DEF Promote, TypeOK
        <4>3. Reclaimable(fib[fam], g) => Reclaimable(t, g)
          BY <1>0, <4>1, <4>2, WriteKeepsReclaimable
        <4>4. QED
          BY <2>3, <4>1, <4>3
      <3>3. QED
        BY <3>1, <3>2
    <2>5. CASE Demote
      <3>1. PICK t \in BestEffort(fib[fam], Other(dest), fam, StandbyMetric) :
                fib' = [fib EXCEPT ![fam] = t]
        BY <2>5 DEF Demote
      <3>2. Other(dest) \in Group
        BY DEF Other, Group
      <3>3. Reclaimable(fib[fam], g) => Reclaimable(t, g)
        BY <1>0, <3>1, <3>2, EffortKeepsReclaimable
      <3>4. QED
        BY <2>3, <3>1, <3>3
    <2>6. CASE Restore
      <3>1. PICK t \in CommitTables(snap, fam, Other(dest)) :
                fib' = [fib EXCEPT ![fam] = t]
        BY <2>6 DEF Restore
      <3>2. Other(dest) \in Group
        BY DEF Other, Group
      <3>3. Reclaimable(fib[fam], g) => Reclaimable(t, g)
        BY <1>0, <3>1, <3>2, CommitKeepsReclaimable
      <3>4. QED
        BY <2>3, <3>1, <3>3
    <2>7. CASE Converge
      <3>1. CASE UNCHANGED fib
        BY <2>1, <3>1
      <3>2. CASE ~(UNCHANGED fib)
        <4>1. chosen' # "none" /\ chosen' \in Group \cup {"none"}
          BY <2>7, <3>2, ConvergeWrite DEF Converge
        <4>2. PICK t \in CommitTables(snap, fam, chosen') :
                fib' = [fib EXCEPT ![fam] = t]
          BY <2>7, <3>2 DEF Converge
        <4>3. Reclaimable(fib[fam], g) => Reclaimable(t, g)
          BY <1>0, <4>1, <4>2, CommitKeepsReclaimable
        <4>4. QED
          BY <2>3, <4>2, <4>3
      <3>3. QED
        BY <3>1, <3>2
    <2>8. CASE Holes
      <3>1. dest \in Group /\ fib'[f] \subseteq fib[f]
            /\ (f \in conf.capable[dest] => fib'[f] = fib[f])
        BY <2>8 DEF Holes, TypeOK, ParkStandby, RouteDel, HoleFamilies
      <3>2. CASE f \in conf.capable[dest]
        BY <2>1, <3>1, <3>2
      <3>3. CASE f \notin conf.capable[dest]
        <4>1. snap.fib[f] \in SUBSET Route
          BY DEF TypeOK, Snapshot, Tables
        <4>2. f \in conf.capable[g]
          BY <4>1, OwnedReclaimable DEF Consistent, Fits, Shows
        <4>3. \A r \in fib'[f] : r.grp \in Group /\ r.grp # dest
          BY <1>0, <3>1, <3>3, MetricsAreNumbers DEF Consistent, NetworkConsistent, Fits
        <4>4. \A r \in fib'[f] : r.grp = g
          BY <3>1, <3>3, <4>2, <4>3 DEF Group
        <4>5. fib'[f] \in SUBSET Route
          BY <1>0, <3>1
        <4>6. QED
          BY <4>4, <4>5, AloneReclaimable
      <3>4. QED
        BY <3>2, <3>3
    <2>9. QED
      BY <1>2, <2>1, <2>2, <2>4, <2>5, <2>6, <2>7, <2>8
         DEF Step, TargetedHealth, Health, Decide, Probe, SkipFamily, Verify, End
  <1>3. QED
    BY <1>1, <1>2

\* An alignment goes to an exit that is complete in the snapshot.
LEMMA DecideComplete ==
    ASSUME TypeOK, Decide, phase' = "probe"
    PROVE  dest' \in Group /\ GroupComplete(snap, dest')
  <1>0. dest' \in Group
    BY DecideResult
  <1>1. \A g, force : AlignTo(g, force) => dest' = g
    BY DEF AlignTo, Stay, GoTo
  <1>2. ~Stay
    BY DEF Stay, GoTo
  <1>3. ASSUME NEW g, DecideExit(g)
        PROVE  GroupComplete(snap, dest')
    <2>1. CASE /\ CompleteOnline(snap, Other(g)) /\ AlignTo(Other(g), FALSE)
      BY <1>1, <2>1 DEF CompleteOnline
    <2>2. CASE /\ CompleteOnline(snap, primary)
               /\ \E force : AlignTo(primary, force)
      BY <1>1, <2>2 DEF CompleteOnline
    <2>3. QED
      BY <1>2, <1>3, <2>1, <2>2 DEF DecideExit
  <1>4. ASSUME NEW P, P \subseteq {g \in Group : GroupComplete(snap, g)},
               AlignPreferred(P)
        PROVE  GroupComplete(snap, dest')
    <2>1. P # {} /\ dest' = Preferred(P)
      BY <1>1, <1>2, <1>4 DEF AlignPreferred
    <2>2. Preferred(P) \in P
      BY <1>4, <2>1, PrimaryType DEF Preferred, Other, Group
    <2>3. QED
      BY <1>4, <2>1, <2>2
  <1>5. {g \in Group : CompleteOnline(snap, g)}
        \subseteq {g \in Group : GroupComplete(snap, g)}
    BY DEF CompleteOnline
  <1>6. QED
    BY <1>0, <1>2, <1>3, <1>4, <1>5 DEF Decide

\* So it had an IPv4 route, if it can carry IPv4.
LEMMA DestCarriedStep ==
    ASSUME TypeOK, DestCarried, [Next]_vars
    PROVE  DestCarried'
  <1>1. CASE ~Step
    <2>1. \/ phase' \in {"targeted", "health", "idle"}
          \/ UNCHANGED <<conf, snap, dest, phase>>
      BY <1>1, AsideFrame
    <2>2. QED
      BY <2>1 DEF DestCarried
  <1>2. CASE Decide
    <2>1. UNCHANGED <<conf, snap>>
      BY <1>2 DEF Decide, netVars, passVars
    <2>2. CASE phase' = "probe"
      <3>1. dest' \in Group /\ GroupComplete(snap, dest')
        BY <1>2, <2>2, DecideComplete
      <3>2. "v4" \in conf.capable[dest'] => GroupRoute(snap, dest', "v4") # {}
        BY <3>1 DEF GroupComplete, Gates, Ready
      <3>3. "v4" \in conf.capable[dest'] => snap.fib["v4"] # {}
        BY <3>2, GroupRouteType
      <3>4. QED
        BY <2>1, <3>1, <3>3 DEF DestCarried
    <2>3. CASE phase' = "end"
      BY <2>3 DEF DestCarried
    <2>4. QED
      BY <1>2, <2>2, <2>3, DecideResult
  <1>3. CASE \/ Probe \/ SkipFamily \/ Promote \/ Demote \/ Holes \/ Verify
             \/ Restore \/ Converge
    <2>1. /\ UNCHANGED <<conf, snap, dest>>
          /\ phase \in {"probe", "promote", "demote", "holes", "verify", "restore",
                        "converge"}
      BY <1>3 DEF Probe, SkipFamily, Promote, Demote, Holes, Verify, Restore,
                  Converge, netVars, passVars, moveVars
    <2>2. QED
      BY <2>1 DEF DestCarried
  <1>4. CASE TargetedHealth \/ Health \/ KeepWarm \/ End
    BY <1>4 DEF TargetedHealth, Health, KeepWarm, End, GoTo, DestCarried
  <1>5. QED
    BY <1>1, <1>2, <1>3, <1>4 DEF Step

\* What committing family f onto the exit that held it makes of it.
LEMMA HeldCommit ==
    ASSUME TypeOK, Consistent, SnapCurrent, Reclaims, quiet, dest \in Group, Held,
           NEW f \in Family, snap.fib[f] # {},
           NEW t \in CommitTables(snap, f, Other(dest))
    PROVE  Owners(t) = {Other(dest)}
  <1>1. /\ Owners(snap.fib[f]) = {Other(dest)} /\ f \in addr[Other(dest)]
        /\ Other(dest) \in Group /\ snap.fib[f] \in SUBSET Route /\ fib \in Tables
    BY Groups DEF Held, SnapCurrent, TypeOK, Snapshot, Tables
  <1>2. HasHop(snap, Other(dest), f)
    BY <1>1, OwnedReclaimable, ShowsRoute DEF HasHop, GroupRoute
  <1>3. ~Refusable(Other(dest), f)
    BY <1>1 DEF Refusable, Consistent, NetworkConsistent
  <1>4. Reclaimable(fib[f], Other(dest))
    BY <1>1 DEF Reclaims
  <1>5. QED
    BY <1>1, <1>2, <1>3, <1>4, CommitReclaims

\* What the convergence makes of the families that were restored.
LEMMA HeldConverge ==
    ASSUME TypeOK, Consistent, DestCarried, Restored, quiet, Held, Converge
    PROVE  /\ snap.fib["v4"] # {} => Owners(fib'["v4"]) = {Other(dest)}
           /\ snap.fib["v6"] # {} => Owners(fib'["v6"]) = {Other(dest)}
           /\ phase' = "converge" /\ snap.fib["v6"] # {} => chosen' = Other(dest)
  <1> DEFINE old == Other(dest)
  <1>0. /\ phase = "converge" /\ dest \in Group /\ old \in Group /\ old # "none"
        /\ fib \in Tables /\ fam \in Family /\ "v4" \in Family /\ "v6" \in Family
        /\ fib["v4"] \in SUBSET Route
    BY Groups DEF Converge, DestCarried, TypeOK, Family, Group, Tables
  <1>1. /\ snap.fib["v4"] # {} => Owners(fib["v4"]) = {old}
        /\ snap.fib["v6"] # {} => Owners(fib["v6"]) = {old}
    BY <1>0 DEF Restored, HeldAgain
  <1>2. Owners(fib["v4"]) \subseteq {"none", old}
    <2>1. CASE snap.fib["v4"] # {}
      BY <1>1, <2>1
    <2>2. CASE snap.fib["v4"] = {}
      <3>1. \A r \in fib["v4"] : r.grp \in Group /\ r.grp # dest
        BY <1>0, <2>2, MetricsAreNumbers
           DEF DestCarried, Consistent, NetworkConsistent, Fits
      <3>2. \A r \in fib["v4"] : r.grp = old
        BY <1>0, <3>1 DEF Other, Group
      <3>3. QED
        BY <3>2 DEF Owners, Winners
    <2>3. QED
      BY <2>1, <2>2
  <1>3. PICK s4 \in Owners(fib["v4"]), s6 \in Owners(fib["v6"]) :
          LET onto == IF fam = "v6" THEN chosen
                      ELSE IF s4 = s6 THEN "none"
                      ELSE IF s4 # "none" THEN s4 ELSE s6
          IN  /\ chosen' = onto
              /\ IF onto = "none"
                 THEN UNCHANGED fib
                 ELSE \E t \in CommitTables(snap, fam, onto) :
                          fib' = [fib EXCEPT ![fam] = t]
              /\ IF fam = "v4" /\ onto # "none"
                 THEN GoTo("converge", "v6") ELSE GoTo("end", "v4")
    BY DEF Converge, ConvergeOwners
  <1>4. /\ s4 \in {"none", old}
        /\ snap.fib["v4"] # {} => s4 = old
        /\ snap.fib["v6"] # {} => s6 = old
    BY <1>1, <1>2, <1>3
  <1> HIDE DEF old
  <1>5. CASE UNCHANGED fib
    <2>1. phase' = "converge" => fam = "v4" /\ chosen' # "none"
      BY <1>3 DEF GoTo
    <2>2. phase' = "converge" /\ snap.fib["v6"] # {} => chosen' = old
      BY <1>0, <1>3, <1>4, <2>1
    <2>3. QED
      BY <1>1, <1>5, <2>2 DEF old
  <1>6. CASE ~(UNCHANGED fib)
    <2>1. PICK t \in CommitTables(snap, fam, chosen') :
              fib' = [fib EXCEPT ![fam] = t]
      BY <1>3, <1>6
    <2>2. fib'[fam] = t /\ \A f \in Family : f # fam => fib'[f] = fib[f]
      BY <1>0, <2>1 DEF Tables
    <2>3. CASE fam = "v4"
      <3>1. /\ snap.fib["v4"] # {} => chosen' = old
            /\ snap.fib["v6"] # {} => chosen' = old
        BY <1>0, <1>3, <1>4, <1>6, <2>3
      <3>2. snap.fib["v4"] # {} => Owners(t) = {old}
        BY <1>0, <1>1, <2>1, <2>3, <3>1, CommitKeepsOwner
      <3>3. fib'["v4"] = t /\ fib'["v6"] = fib["v6"]
        BY <1>0, <2>2, <2>3
      <3>4. QED
        BY <1>1, <3>1, <3>2, <3>3 DEF old
    <2>4. CASE fam = "v6"
      <3>1. phase' # "converge"
        BY <1>3, <2>4 DEF GoTo
      <3>2. snap.fib["v6"] # {} => chosen' = old
        BY <1>0, <1>3, <2>4 DEF Restored, old
      <3>3. snap.fib["v6"] # {} => Owners(t) = {old}
        BY <1>0, <1>1, <2>1, <2>4, <3>2, CommitKeepsOwner
      <3>4. fib'["v6"] = t /\ fib'["v4"] = fib["v4"]
        BY <1>0, <2>2, <2>4
      <3>5. QED
        BY <1>1, <3>1, <3>3, <3>4 DEF old
    <2>5. QED
      BY <1>0, <2>3, <2>4 DEF Family
  <1>7. QED
    BY <1>5, <1>6

\* So the restore gives the families back, one after the other.
LEMMA RestoredStep ==
    ASSUME TypeOK, Consistent, SnapCurrent, DestCarried, Reclaims, Restored,
           [Next]_vars
    PROVE  Restored'
  <1>0. "v4" \in Family /\ "v6" \in Family /\ fam \in Family /\ fib \in Tables
    BY DEF Family, TypeOK
  <1>1. CASE ~Step
    <2>1. \/ phase' \in {"targeted", "health"}
          \/ quiet' = FALSE
          \/ UNCHANGED <<snap, fib, quiet, phase, fam, dest, chosen>>
      BY <1>1, AsideFrame
    <2>2. QED
      BY <2>1 DEF Restored, Held, HeldAgain
  <1>2. CASE Restore
    <2>0. /\ UNCHANGED <<snap, quiet, dest>> /\ phase = "restore" /\ dest \in Group
          /\ IF fam = "v4" THEN phase' = "restore" /\ fam' = "v6"
             ELSE phase' = "converge" /\ fam' = "v4"
      BY <1>2 DEF Restore, GoTo, TypeOK, passVars, moveVars
    <2>1. SUFFICES ASSUME quiet, Held PROVE Restored'
      BY <2>0 DEF Restored, Held
    <2>2. PICK t \in CommitTables(snap, fam, Other(dest)) :
              fib' = [fib EXCEPT ![fam] = t]
      BY <1>2 DEF Restore
    <2>3. snap.fib[fam] # {} => Owners(t) = {Other(dest)}
      BY <1>0, <2>0, <2>1, <2>2, HeldCommit
    <2>4. fib'[fam] = t /\ \A f \in Family : f # fam => fib'[f] = fib[f]
      BY <1>0, <2>2 DEF Tables
    <2>5. fam = "v6" => HeldAgain("v4")
      BY <2>0, <2>1 DEF Restored
    <2>6. QED
      BY <1>0, <2>0, <2>3, <2>4, <2>5 DEF Restored, HeldAgain, Family
  <1>3. CASE Converge
    <2>0. UNCHANGED <<snap, quiet, dest>> /\ phase' \in {"converge", "end"}
      BY <1>3 DEF Converge, GoTo, passVars
    <2>1. SUFFICES ASSUME quiet, Held PROVE Restored'
      BY <2>0 DEF Restored, Held
    <2>2. QED
      BY <1>3, <2>0, <2>1, HeldConverge DEF Restored, HeldAgain
  <1>4. CASE Decide
    <2>1. phase' \in {"probe", "end"}
      BY <1>4, DecideResult
    <2>2. QED
      BY <2>1 DEF Restored
  <1>5. CASE \/ TargetedHealth \/ Health \/ KeepWarm \/ Probe \/ SkipFamily
             \/ Promote \/ Demote \/ Holes \/ Verify \/ End
    <2>1. phase' # "converge" /\ (phase' = "restore" => fam' = "v4")
      BY <1>5 DEF TargetedHealth, Health, KeepWarm, Probe, SkipFamily, Promote,
                  Demote, Holes, Verify, End, AfterCommit, GoTo
    <2>2. QED
      BY <2>1 DEF Restored
  <1>6. QED
    BY <1>1, <1>2, <1>3, <1>4, <1>5 DEF Step

\* The tables against the snapshot of the pass.
AlignInv == Consistent /\ SnapCurrent /\ DestCarried /\ Reclaims /\ Restored

\* The first pass has not begun, and its snapshot is the network.
LEMMA AlignInit == Init => AlignInv
  <1> SUFFICES ASSUME Init PROVE AlignInv
    OBVIOUS
  <1>1. {{}} \in SUBSET SUBSET Route /\ mode \in Mode
    BY ReconcileAssumption DEF Init
  <1>2. NetworkConsistent
    BY <1>1, ReconcileAssumption, AtRestConsistent DEF Init
  <1>3. phase = "idle" /\ snap = Live /\ snap.fib = fib /\ snap.addr = addr
    BY DEF Init, Live
  <1>4. Consistent
    BY <1>2, <1>3 DEF Consistent, NetworkConsistent
  <1>5. Reclaims
    <2>1. \A f \in Family : fib[f] \in SUBSET Route
      BY TypeInit DEF TypeOK, Tables
    <2>2. QED
      BY <1>3, <2>1, OwnedReclaimable DEF Reclaims
  <1>6. QED
    BY <1>3, <1>4, <1>5 DEF AlignInv, SnapCurrent, DestCarried, Restored

\* It is an invariant of the reconciler.
LEMMA AlignInvariant == Spec => []AlignInv
  <1>1. TypeOK /\ AlignInv /\ [Next]_vars => AlignInv'
    BY ConsistentStep, SnapCurrentStep, DestCarriedStep, ReclaimsStep, RestoredStep
       DEF AlignInv
  <1>2. QED
    BY <1>1, AlignInit, ReconcileTypeSafe, PTL DEF Spec

\* An alignment that fails gives every family that had a default route back to
\* the exit that held them, at whatever write it failed, with any unmanaged
\* routes beside, and whichever of its own demotions were refused.
THEOREM FailedAlignRestoresSafe == Spec => FailedAlignRestores
  <1>1. TypeOK /\ AlignInv /\ [Next]_vars =>
          [/\ phase = "converge" /\ phase' = "end" /\ quiet
           /\ \A f \in Family :
                snap.fib[f] # {} => /\ Owners(snap.fib[f]) = {Other(dest)}
                                   /\ f \in snap.addr[Other(dest)]
           => \A f \in Family :
                snap.fib[f] # {} => Owners(fib'[f]) = {Other(dest)}]_vars
    <2> SUFFICES ASSUME TypeOK, AlignInv, Next, phase = "converge", phase' = "end",
                        quiet, Held, NEW f \in Family, snap.fib[f] # {}
                 PROVE  Owners(fib'[f]) = {Other(dest)}
      BY DEF Held
    <2>1. Converge
      BY DEF Next, Step, Environment, Watch, Enter, TargetedHealth, Health,
             KeepWarm, Decide, Probe, SkipFamily, Promote, Demote, Holes, Verify,
             Restore, End, Hotplug, Align, ReconcileNow, NetworkEvent,
             OutsideEvent, Crash, GoTo
    <2>2. QED
      BY <2>1, HeldConverge DEF AlignInv, Family
  <1>2. QED
    BY <1>1, AlignInvariant, ReconcileTypeSafe, PTL DEF Spec, FailedAlignRestores

-----------------------------------------------------------------------------
(***************************************************************************)
(* What becomes of the exit a successful alignment leaves.                 *)
(***************************************************************************)

\* When the pass began exit g could be kept warm in family f: it had a route
\* and an address, and the family had a route above the standby slot.
WasWarm(g, f) ==
    /\ Shows(snap.fib[f], g)
    /\ \E r \in snap.fib[f] : r.metric < StandbyMetric
    /\ f \in snap.addr[g]

\* The standby write of KeepWarm takes no such route; the promotion may take
\* it, in the family the demotion then writes.
OtherStays ==
    quiet =>
    /\ phase \in {"targeted", "health", "warm"} => fib = snap.fib
    /\ phase = "decide" =>
         \A g \in Group, f \in Family : WasWarm(g, f) => Shows(fib[f], g)
    /\ phase \in {"probe", "promote", "demote", "holes", "verify"} =>
         \A f \in conf.capable[dest] :
            WasWarm(Other(dest), f)
            => Shows(fib[f], Other(dest)) \/ (phase = "demote" /\ fam = f)

\* KeepWarm leaves every exit that was warm a route.
LEMMA KeepWarmKeeps ==
    ASSUME TypeOK, KeepWarm, fib = snap.fib, NEW g \in Group, NEW f \in Family,
           WasWarm(g, f)
    PROVE  Shows(fib'[f], g)
  <1>1. fib[f] \in SUBSET Route /\ Shows(fib[f], g)
    BY DEF TypeOK, Tables, WasWarm
  <1>2. CASE fib'[f] = fib[f]
    BY <1>1, <1>2
  <1>3. CASE \E h \in Group : /\ GroupRoute(snap, h, f) = {}
                             /\ fib'[f] \in ReplaceSlot(fib[f], h, StandbyMetric)
    <2>1. PICK h \in Group : /\ GroupRoute(snap, h, f) = {}
                             /\ fib'[f] \in ReplaceSlot(fib[f], h, StandbyMetric)
      BY <1>3
    <2>2. ~Shows(fib[f], h)
      BY <1>1, <2>1, ShowsRoute DEF GroupRoute
    <2>3. PICK r \in fib[f] : r.metric < StandbyMetric
      BY DEF WasWarm
    <2>4. r.grp \in Group /\ r.grp # h /\ g # h
      BY <1>1, <2>2, <2>3, MetricsAreNumbers DEF Shows
    <2>5. r.grp = g
      BY <2>1, <2>4 DEF Group
    <2>6. r.metric # StandbyMetric
      BY <2>3 DEF StandbyMetric
    <2>7. r \in fib'[f]
      BY <1>1, <2>1, <2>3, <2>6, SlotMetrics, ReplaceSlotElements
    <2>8. QED
      BY <2>5, <2>7 DEF Shows
  <1>4. QED
    BY <1>2, <1>3, KeepWarmWrites

\* A demotion that finds the address of the snapshot is not refused.
LEMMA DemoteShows ==
    ASSUME TypeOK, Consistent, SnapCurrent, quiet, Demote, dest \in Group,
           WasWarm(Other(dest), fam)
    PROVE  Shows(fib'[fam], Other(dest))
  <1>1. PICK t \in BestEffort(fib[fam], Other(dest), fam, StandbyMetric) :
            fib' = [fib EXCEPT ![fam] = t]
    BY DEF Demote
  <1>2. Other(dest) \in Group /\ fam \in Family /\ fib[fam] \in SUBSET Route
        /\ fib \in Tables
    BY Groups DEF TypeOK, Tables
  <1>3. ~Refusable(Other(dest), fam)
    BY <1>2 DEF WasWarm, SnapCurrent, Refusable, Consistent, NetworkConsistent
  <1>4. t \in ReplaceSlot(fib[fam], Other(dest), StandbyMetric)
    BY <1>1, <1>3 DEF BestEffort, Refusable
  <1>5. RouteOf(Other(dest), StandbyMetric) \in t
    BY <1>2, <1>4, SlotMetrics, ReplaceSlotElements
  <1>6. fib'[fam] = t
    BY <1>1, <1>2 DEF Tables
  <1>7. QED
    BY <1>5, <1>6 DEF Shows, RouteOf

\* Every step keeps it.
LEMMA OtherStaysStep ==
    ASSUME TypeOK, Consistent, SnapCurrent, DestCarried, OtherStays, [Next]_vars
    PROVE  OtherStays'
  <1> DEFINE Kept(f) == WasWarm(Other(dest), f) => Shows(fib[f], Other(dest))
  <1>0. fam \in Family /\ fib \in Tables
        /\ \A g \in Group : conf.capable[g] \subseteq Family
    BY DEF TypeOK, Config
  <1>1. CASE ~Step
    <2>1. CASE snap' = Live /\ fib' = fib /\ phase' \in {"targeted", "health"}
      BY <2>1 DEF OtherStays, Live
    <2>2. CASE quiet' = FALSE
      BY <2>2 DEF OtherStays
    <2>3. CASE UNCHANGED <<conf, snap, fib, quiet, phase, fam, dest>>
      BY <2>3 DEF OtherStays, WasWarm
    <2>4. QED
      BY <1>1, <2>1, <2>2, <2>3, AsideFrame
  <1>2. CASE Step
    <2>0. UNCHANGED <<conf, snap, quiet>>
      BY <1>2, StepFrame
    <2>00. \A g, f : WasWarm(g, f)' <=> WasWarm(g, f)
      BY <2>0 DEF WasWarm
    <2> SUFFICES ASSUME quiet PROVE OtherStays'
      BY <2>0 DEF OtherStays
    <2>1. CASE TargetedHealth \/ Health
      <3>1. fib = snap.fib /\ fib' = fib /\ phase' \in {"health", "warm"}
        BY <2>1 DEF TargetedHealth, Health, GoTo, OtherStays
      <3>2. QED
        BY <2>0, <3>1 DEF OtherStays
    <2>2. CASE KeepWarm
      <3>1. fib = snap.fib /\ phase' = "decide"
        BY <2>2 DEF KeepWarm, GoTo, OtherStays
      <3>2. \A g \in Group, f \in Family : WasWarm(g, f) => Shows(fib'[f], g)
        BY <2>2, <3>1, KeepWarmKeeps
      <3>3. QED
        BY <2>00, <3>1, <3>2 DEF OtherStays
    <2>3. CASE Decide
      <3>1. /\ fib' = fib /\ phase' \in {"probe", "end"}
            /\ phase' = "probe" => dest' \in Group
            /\ \A g \in Group, f \in Family : WasWarm(g, f) => Shows(fib[f], g)
        BY <2>3, DecideResult DEF Decide, OtherStays
      <3>2. phase' = "probe" => Other(dest') \in Group
        BY <3>1, Groups
      <3>3. QED
        BY <1>0, <2>0, <2>00, <3>1, <3>2 DEF OtherStays
    <2>4. CASE \/ Probe \/ SkipFamily \/ Promote \/ Demote \/ Holes \/ Verify
      <3>0. /\ dest' = dest /\ dest \in Group /\ Other(dest) \in Group
            /\ phase' \in {"promote", "demote", "holes", "verify", "end", "restore"}
            /\ phase \in {"probe", "promote", "demote", "holes", "verify"}
        BY <2>4, Groups
           DEF Probe, SkipFamily, Promote, Demote, Holes, Verify, AfterCommit, GoTo,
               moveVars, DestCarried
      <3>1. \A f \in conf.capable[dest] :
              WasWarm(Other(dest), f)
              => Shows(fib[f], Other(dest)) \/ (phase = "demote" /\ fam = f)
        BY <3>0 DEF OtherStays
      <3>2. SUFFICES ASSUME NEW f \in conf.capable[dest], WasWarm(Other(dest), f)
                     PROVE  \/ Shows(fib'[f], Other(dest))
                            \/ phase' = "demote" /\ fam' = f
        BY <2>0, <2>00, <3>0 DEF OtherStays
      <3>3. f \in Family
        BY <1>0, <3>0
      <3>4. CASE Probe \/ SkipFamily \/ Verify
        BY <3>1, <3>2, <3>4 DEF Probe, SkipFamily, Verify
      <3>5. CASE Promote
        <4>1. Shows(fib[f], Other(dest))
          BY <3>1, <3>2, <3>5 DEF Promote
        <4>2. CASE fib' = fib \/ f # fam
          BY <1>0, <3>3, <3>5, <4>1, <4>2 DEF Promote, Tables
        <4>3. CASE f = fam /\ fib' # fib
          <5>1. snap.fib[f] \in SUBSET Route
            BY <3>3 DEF TypeOK, Snapshot, Tables
          <5>2. GroupRoute(snap, Other(dest), fam) # {}
            BY <3>2, <4>3, <5>1, ShowsRoute DEF WasWarm, GroupRoute
          <5>3. GoTo("demote", fam)
            BY <3>5, <4>3, <5>2 DEF Promote
          <5>4. QED
            BY <4>3, <5>3 DEF GoTo
        <4>4. QED
          BY <4>2, <4>3
      <3>6. CASE Demote
        <4>1. CASE f = fam
          BY <3>0, <3>2, <3>6, <4>1, DemoteShows
        <4>2. CASE f # fam
          BY <1>0, <3>1, <3>2, <3>3, <3>6, <4>2 DEF Demote, Tables
        <4>3. QED
          BY <4>1, <4>2
      <3>7. CASE Holes
        <4>1. fib'[f] = fib[f]
          BY <3>3, <3>7 DEF Holes, ParkStandby, HoleFamilies
        <4>2. phase # "demote"
          BY <3>7 DEF Holes
        <4>3. QED
          BY <3>1, <3>2, <4>1, <4>2
      <3>8. QED
        BY <2>4, <3>4, <3>5, <3>6, <3>7
    <2>5. CASE Restore \/ Converge \/ End
      BY <2>5 DEF Restore, Converge, End, GoTo, OtherStays
    <2>6. QED
      BY <1>2, <2>1, <2>2, <2>3, <2>4, <2>5 DEF Step
  <1>3. QED
    BY <1>1, <1>2

\* A successful alignment leaves the exit it came from a route in every family
\* it was warm in: what the promotion overwrites the demotion writes again, and
\* neither the warming before nor the parking after takes another one.
THEOREM OtherExitKeptSafe == Spec => OtherExitKept
  <1>1. Init => OtherStays
    BY DEF Init, OtherStays
  <1>2. TypeOK /\ AlignInv /\ OtherStays /\ [Next]_vars => OtherStays'
    BY OtherStaysStep DEF AlignInv
  <1>3. TypeOK /\ AlignInv /\ OtherStays /\ [Next]_vars =>
          [phase = "verify" /\ phase' = "end" /\ quiet
           => \A f \in conf.capable[dest] :
                /\ GroupRoute(snap, Other(dest), f) # {}
                /\ \E r \in snap.fib[f] : r.metric < StandbyMetric
                /\ f \in snap.addr[Other(dest)]
                => GroupDefaultRoute(fib'[f], Other(dest)) # {}]_vars
    <2> SUFFICES ASSUME TypeOK, AlignInv, OtherStays, Next, phase = "verify",
                        phase' = "end", quiet,
                        NEW f \in conf.capable[dest],
                        GroupRoute(snap, Other(dest), f) # {},
                        \E r \in snap.fib[f] : r.metric < StandbyMetric,
                        f \in snap.addr[Other(dest)]
                 PROVE  GroupDefaultRoute(fib'[f], Other(dest)) # {}
      OBVIOUS
    <2>1. Verify
      BY DEF Next, Step, Environment, Watch, Enter, TargetedHealth, Health,
             KeepWarm, Decide, Probe, SkipFamily, Promote, Demote, Holes, Restore,
             Converge, End, Hotplug, Align, ReconcileNow, NetworkEvent,
             OutsideEvent, Crash, GoTo
    <2>2. dest \in Group /\ f \in Family /\ fib \in Tables
      BY DEF AlignInv, DestCarried, TypeOK, Config
    <2>3. snap.fib[f] \in SUBSET Route /\ fib[f] \in SUBSET Route /\ fib' = fib
      BY <2>1, <2>2 DEF Verify, TypeOK, Snapshot, Tables
    <2>4. WasWarm(Other(dest), f)
      BY <2>3, ShowsRoute DEF WasWarm, GroupRoute
    <2>5. Shows(fib[f], Other(dest))
      BY <2>4 DEF OtherStays
    <2>6. QED
      BY <2>3, <2>5, ShowsRoute
  <1>4. QED
    BY <1>1, <1>2, <1>3, AlignInvariant, ReconcileTypeSafe, PTL
       DEF Spec, OtherExitKept
=============================================================================
