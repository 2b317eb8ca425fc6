------------------------------ MODULE Reconcile -----------------------------
(***************************************************************************)
(* The reconciler: one evaluation of the exits under the writer lock, as   *)
(* the watchdog runs it every interval, a hotplug notification after its   *)
(* debounce, and the user's one-click alignment at once.  A pass probes    *)
(* what is due, keeps the standby warm, decides whether the exit has to    *)
(* move, and moves it (align_to).  Passes exclude each other (WriterLock); *)
(* the network changes between any two steps of a pass, and the process    *)
(* may be killed.                                                          *)
(*                                                                         *)
(* Time is counted in watchdog intervals: a time stamp of the state or     *)
(* health file is represented by its age, which stops counting where the   *)
(* code's comparison no longer tells ages apart.                           *)
(***************************************************************************)
EXTENDS Network, Integers

CONSTANTS
    Configs,         \* the deployments considered (Config records)
    InitModes,       \* policies in force
    AnswerSets,     \* families in which each exit may really reach out
    Cooldown,        \* switch_cooldown, in watchdog intervals
    HealthInterval,  \* health_probe_interval, in watchdog intervals
    ProbeFailStreak, \* probe_fail_streak
    AlignConfirm,    \* align_confirm
    Disturbances,    \* the kinds of environment events considered
    MaxEvents        \* bound: environment events in one behaviour

ASSUME ReconcileAssumption ==
    /\ Configs \subseteq Config
    /\ InitModes \subseteq Mode
    /\ AnswerSets \subseteq SUBSET Family
    /\ Cooldown \in Nat
    /\ HealthInterval \in Nat \ {0}
    /\ ProbeFailStreak \in Nat \ {0}
    /\ AlignConfirm \in Nat \ {0}
    /\ Disturbances \subseteq {"hotplug", "align", "network", "outside", "crash"}
    /\ MaxEvents \in Nat

VARIABLES
    answers,     \* answers[g]: families in which exit g really reaches out
    mode,        \* h5000m_netmode.settings.mode
    \* the health file
    verdict,     \* verdict[g][f] of the last round
    streak,      \* streak[g][f]: its failed rounds, up to ProbeFailStreak
    healthAge,   \* age of its ts
    \* the state file
    healthForce, \* health_force
    tryAge,      \* age of last_align_attempt_ts
    cand, hits,  \* align_candidate and align_candidate_hits
    result,      \* result of the last alignment
    audit,       \* UCI: ipv6_owner
    \* the pass
    phase, fam,  \* where the pass is, and the family it handles there
    forced,      \* started by the user
    scope,       \* the group of the hotplug event it serves, or "none"
    snap,        \* the LiveSnapshot in hand
    dropped,     \* the route cache of that snapshot was dropped by a write
    dest,        \* the exit being aligned to
    committed,   \* no family's commit has failed
    chosen,      \* the exit post_failure_converge committed onto
    owner,       \* the value ipv6_owner gets
    \* bounds and history
    events,
    sinceTry,    \* true age of the last alignment attempt
    unstamped,   \* its stamp was lost, or made old by the clock
    misses,      \* misses[g][f]: health rounds that probed without an answer
                 \* since the last answered one, up to ProbeFailStreak
    quiet        \* no environment event since the pass started

healthVars == <<verdict, streak, misses, healthAge>>
fileVars   == <<plan, rt, mode>>
tryVars    == <<tryAge, sinceTry, unstamped>>
alignVars  == <<tryVars, cand, hits>>
passVars   == <<forced, scope, snap>>
moveVars   == <<dest, committed, chosen, owner>>
vars == <<netVars, fib, fileVars, answers, healthVars, healthForce, alignVars,
          result, audit, phase, fam, passVars, dropped, moveVars, events, quiet>>

primary == PrimaryGroup(mode)

Phase == {"idle", "targeted", "health", "warm", "decide", "probe", "promote",
          "demote", "holes", "verify", "restore", "converge", "end"}

Verdict == {"up", "down", "unknown"}
\* An age or a count that stops at its limit.
Older(age, limit) == IF age < limit THEN age + 1 ELSE age

-----------------------------------------------------------------------------
(***************************************************************************)
(* Health                                                                  *)
(***************************************************************************)

Answers(g, f) == f \in answers[g] /\ MayAnswer(g, f)

\* A family that cannot answer is unknown, never a failure.
Outcome(s, g, f) ==
    IF ~Ready(s, g, f) THEN "unknown"
    ELSE IF Answers(g, f) THEN "up" ELSE "down"

\* Mutant of NextStreak: a round that did not probe the family counts as failed.
NextStreakUnknownFails(n, v) ==
    IF v = "up" THEN 0 ELSE IF n < ProbeFailStreak THEN n + 1 ELSE n

NextStreak(n, v) ==
    CASE v = "up"      -> 0
      [] v = "down"    -> IF n < ProbeFailStreak THEN n + 1 ELSE n
      [] v = "unknown" -> n

\* refresh_health_scope past its throttle: the groups in S are probed, and the
\* verdicts of both groups are written.
HealthRound(s, S) ==
    LET seen(g, f) == IF g \in S THEN Outcome(s, g, f) ELSE "unknown" IN
    /\ verdict' = [g \in Group |-> [f \in Family |-> seen(g, f)]]
    /\ streak' = [g \in Group |->
                    [f \in Family |-> NextStreak(streak[g][f], seen(g, f))]]
    /\ misses' = [g \in Group |-> [f \in Family |->
                    IF g \notin S \/ ~Ready(s, g, f) THEN misses[g][f]
                    ELSE IF Answers(g, f) THEN 0
                    ELSE Older(misses[g][f], ProbeFailStreak)]]
    /\ healthAge' = 0

ThrottleOk(force) == force \/ healthAge >= HealthInterval

\* group_complete_online: complete, and the cached verdicts are up.
CompleteOnline(s, g) ==
    /\ GroupComplete(s, g)
    /\ \A f \in conf.capable[g] : Gates(f) => verdict[g][f] = "up"

\* group_degraded: a complete group some family of which keeps failing.
Degraded(s, g) ==
    /\ GroupComplete(s, g)
    /\ \E f \in conf.capable[g] : streak[g][f] >= ProbeFailStreak

-----------------------------------------------------------------------------
(***************************************************************************)
(* A pass                                                                  *)
(***************************************************************************)

GoTo(p, f) == phase' = p /\ fam' = f

\* The tables the oracles return: one parse per snapshot, until the program's
\* own route write drops it.
Seen == IF dropped THEN fib ELSE snap.fib

\* The lock is taken and the live state read.
Enter(force, g) ==
    /\ phase = "idle"
    /\ forced' = force
    /\ scope' = g
    /\ snap' = Live
    /\ dropped' = FALSE
    /\ dest' = "none" /\ committed' = TRUE
    /\ chosen' = "none" /\ owner' = "none"
    /\ quiet' = TRUE
    /\ GoTo(IF g = "none" THEN "health" ELSE "targeted", "v4")
    /\ UNCHANGED <<netVars, fib, fileVars, answers, verdict, streak, misses, cand,
                   hits, unstamped, result, audit>>

\* watch_tick: the watchdog has slept one interval.
Watch ==
    /\ Enter(FALSE, "none")
    /\ healthAge' = Older(healthAge, HealthInterval)
    /\ tryAge' = Older(tryAge, Cooldown)
    /\ sinceTry' = Older(sinceTry, Cooldown)
    /\ UNCHANGED <<healthForce, events>>

\* hotplug_notify: only the event's group is probed, ahead of the pass.
TargetedHealth ==
    /\ phase = "targeted"
    /\ HealthRound(snap, {scope})
    /\ healthForce' = FALSE
    /\ GoTo("health", "v4")
    /\ UNCHANGED <<netVars, fib, fileVars, answers, alignVars, result, audit,
                   passVars, dropped, moveVars, events, quiet>>

Health ==
    /\ phase = "health"
    /\ IF ThrottleOk(forced \/ healthForce)
       THEN HealthRound(snap, Group) ELSE UNCHANGED healthVars
    /\ healthForce' = FALSE
    /\ GoTo("warm", "v4")
    /\ UNCHANGED <<netVars, fib, fileVars, answers, alignVars, result, audit,
                   passVars, dropped, moveVars, events, quiet>>

\* slot_owner of the snapshot.
SnapOwners ==
    IF snap.fib["v4"] # {} THEN Owners(snap.fib["v4"]) ELSE Owners(snap.fib["v6"])

\* The standby lacks a route it could have, in a family that has an exit.
Cold(g) ==
    \E f \in conf.capable[g] :
        /\ snap.fib[f] # {}
        /\ GroupRoute(snap, g, f) = {}
        /\ f \in snap.addr[g]

Remembered ==
    rt \cup {h \in Hop : /\ h[2] \in conf.gateway[h[1]]
                         /\ GroupRoute(snap, h[1], h[2]) # {}}

\* remember_routes and maintain_warm_routes: the latter never warms the exit
\* that is in use, nor one the policy keeps without a route.
KeepWarm ==
    /\ phase = "warm"
    /\ rt' = Remembered
    /\ \E o \in SnapOwners :
        LET g == Other(o)
            warm == o # "none" /\ Cold(g) /\ PolicyDefaultRoute(mode, g) = 1
        IN  IF ~warm THEN UNCHANGED <<fib, dropped>>
            ELSE /\ \E t4 \in WarmTables(snap, g, "v4"),
                       t6 \in WarmTables(snap, g, "v6") :
                      fib' = [f \in Family |-> IF f = "v4" THEN t4 ELSE t6]
                 /\ dropped' = (Writable(g) /\ \E f \in Family : Warmable(snap, g, f))
    /\ GoTo("decide", "v4")
    /\ UNCHANGED <<netVars, plan, mode, answers, healthVars, healthForce,
                   alignVars, result, audit, passVars, moveVars, events, quiet>>

(***************************************************************************)
(* The decision                                                            *)
(***************************************************************************)

Stay == GoTo("end", "v4") /\ UNCHANGED <<dest, tryVars>>

\* Mutant of StampAttempt: only a successful alignment is stamped.
StampAttemptNot == UNCHANGED tryAge

\* mark_align_attempt: a failed attempt consumes the cooldown too.
StampAttempt == tryAge' = 0

CooldownOk(force) == force \/ tryAge >= Cooldown

\* Mutant of AlignTo: the exit to align to is not noted.
AlignToNowhere(g, force) ==
    IF CooldownOk(force)
    THEN /\ UNCHANGED dest
         /\ StampAttempt
         /\ sinceTry' = 0 /\ unstamped' = FALSE
         /\ GoTo("probe", "v4")
    ELSE Stay

\* The head of align_to.
AlignTo(g, force) ==
    IF CooldownOk(force)
    THEN /\ dest' = g
         /\ StampAttempt
         /\ sinceTry' = 0 /\ unstamped' = FALSE
         /\ GoTo("probe", "v4")
    ELSE Stay

\* Mutant of Confirm: every sighting counts as the first.
ConfirmFirst(g) == cand' = g /\ hits' = 1

\* confirm_candidate
Confirm(g) ==
    /\ cand' = g
    /\ hits' = IF cand = g THEN Older(hits, AlignConfirm) ELSE 1

ClearCandidate == hits' = 0 /\ UNCHANGED cand

\* Both families run over exit g.
DecideExit(g) ==
    LET failover == Degraded(snap, g) /\ CompleteOnline(snap, Other(g))
        failback == g # primary /\ CompleteOnline(snap, primary)
    IN  \/ failover /\ AlignTo(Other(g), FALSE) /\ UNCHANGED <<cand, hits>>
        \/ /\ ~failover /\ failback
           /\ IF forced THEN AlignTo(primary, TRUE) /\ UNCHANGED <<cand, hits>>
              ELSE /\ Confirm(primary)
                   /\ IF hits' >= AlignConfirm
                      THEN AlignTo(primary, FALSE) ELSE Stay
        \/ ~failover /\ ~failback /\ Stay /\ ClearCandidate

\* Mutant of Preferred: the backup is never considered.
PreferredPrimary(P) == primary

\* The preferred one of the exits of which P holds.
Preferred(P) == IF primary \in P THEN primary ELSE Other(primary)

AlignPreferred(P) ==
    /\ IF P = {} THEN Stay ELSE AlignTo(Preferred(P), forced)
    /\ UNCHANGED <<cand, hits>>

\* reconcile_align: a rescue asks for an exit that is online, the repair of a
\* split for one that is complete.
Decide ==
    /\ phase = "decide"
    /\ \E s4 \in Owners(Seen["v4"]), s6 \in Owners(Seen["v6"]) :
        \/ /\ s4 = s6 /\ s4 # "none"
           /\ owner' = s4
           /\ DecideExit(s4)
        \/ /\ s4 = s6 /\ s4 = "none"
           /\ owner' = "none"
           /\ AlignPreferred({g \in Group : CompleteOnline(snap, g)})
        \/ /\ s4 # s6 /\ "none" \in {s4, s6}
           /\ owner' = IF s4 # "none" THEN s4 ELSE s6
           /\ Stay /\ UNCHANGED <<cand, hits>>
        \/ /\ s4 # s6 /\ "none" \notin {s4, s6}
           /\ owner' = "split"
           /\ AlignPreferred({g \in Group : GroupComplete(snap, g)})
    /\ UNCHANGED <<netVars, fib, fileVars, answers, healthVars, healthForce,
                   result, audit, passVars, dropped, committed, chosen, events,
                   quiet>>

(***************************************************************************)
(* align_to                                                                *)
(***************************************************************************)

\* verify_group_online: nothing is written before the exit has answered.
Probe ==
    /\ phase = "probe"
    /\ IF \A f \in conf.capable[dest] : Gates(f) => Answers(dest, f)
       THEN GoTo("promote", "v4") /\ result' = "none"
       ELSE GoTo("end", "v4") /\ UNCHANGED result
    /\ UNCHANGED <<netVars, fib, fileVars, answers, healthVars, healthForce,
                   alignVars, audit, passVars, dropped, moveVars, events, quiet>>

AfterCommit == IF fam = "v4" THEN GoTo("promote", "v6") ELSE GoTo("holes", "v4")

SkipFamily ==
    /\ phase = "promote"
    /\ ~Capable(dest, fam)
    /\ AfterCommit
    /\ UNCHANGED <<netVars, fib, fileVars, answers, healthVars, healthForce,
                   alignVars, result, audit, passVars, dropped, moveVars, events,
                   quiet>>

\* commit_family, first write: the destination into the active slot.
Promote ==
    /\ phase = "promote"
    /\ Capable(dest, fam)
    /\ \/ /\ HasHop(snap, dest, fam) /\ Writable(dest)
          /\ \E t \in ReplaceSlot(fib[fam], dest, ActiveMetric) :
                fib' = [fib EXCEPT ![fam] = t]
          /\ IF GroupRoute(snap, Other(dest), fam) # {}
             THEN GoTo("demote", fam) ELSE AfterCommit
          /\ UNCHANGED committed
       \/ /\ ~HasHop(snap, dest, fam) \/ Refusable(dest, fam)
          /\ IF Gates(fam)
             THEN committed' = FALSE /\ GoTo("holes", "v4")
             ELSE AfterCommit /\ UNCHANGED committed
          /\ UNCHANGED fib
    /\ UNCHANGED <<netVars, fileVars, answers, healthVars, healthForce, alignVars,
                   result, audit, passVars, dropped, dest, chosen, owner, events,
                   quiet>>

\* Mutant of Demote: the other exit is not put on standby.
DemoteSkipped ==
    /\ phase = "demote"
    /\ AfterCommit
    /\ UNCHANGED <<netVars, fib, fileVars, answers, healthVars, healthForce,
                   alignVars, result, audit, passVars, dropped, moveVars, events,
                   quiet>>

\* commit_family, second write: the other exit into the standby slot.
Demote ==
    /\ phase = "demote"
    /\ \E t \in BestEffort(fib[fam], Other(dest), fam, StandbyMetric) :
            fib' = [fib EXCEPT ![fam] = t]
    /\ AfterCommit
    /\ UNCHANGED <<netVars, fileVars, answers, healthVars, healthForce, alignVars,
                   result, audit, passVars, dropped, moveVars, events, quiet>>

\* The standby is parked even after a failed commit.
Holes ==
    /\ phase = "holes"
    /\ ParkStandby(snap, dest)
    /\ GoTo("verify", "v4")
    /\ UNCHANGED <<netVars, rt, mode, answers, healthVars, healthForce, alignVars,
                   result, audit, passVars, dropped, moveVars, events, quiet>>

\* The commit is verified with the snapshot taken before it.  The closing
\* refresh_health is throttled: the pass has just had its round.
Verify ==
    /\ phase = "verify"
    /\ IF committed /\ VerifyCommit(snap, dest)
       THEN /\ tryAge' = 0
            /\ result' = "ok"
            /\ owner' = dest
            /\ ClearCandidate
            /\ GoTo("end", "v4")
       ELSE GoTo("restore", "v4") /\ UNCHANGED <<tryAge, result, owner, cand, hits>>
    /\ UNCHANGED <<netVars, fib, fileVars, answers, healthVars, healthForce,
                   sinceTry, unstamped, audit, passVars, dropped, dest, committed,
                   chosen, events, quiet>>

\* Mutant of Restore: the two exits of the commit are swapped.
RestoreSwapped ==
    /\ phase = "restore"
    /\ \E t \in CommitTables(snap, fam, dest) :
            fib' = [fib EXCEPT ![fam] = t]
    /\ IF fam = "v4" THEN GoTo("restore", "v6") ELSE GoTo("converge", "v4")
    /\ UNCHANGED <<netVars, fileVars, answers, healthVars, healthForce, alignVars,
                   result, audit, passVars, dropped, moveVars, events, quiet>>

\* A failed alignment commits both families onto the other exit.
Restore ==
    /\ phase = "restore"
    /\ \E t \in CommitTables(snap, fam, Other(dest)) :
            fib' = [fib EXCEPT ![fam] = t]
    /\ IF fam = "v4" THEN GoTo("restore", "v6") ELSE GoTo("converge", "v4")
    /\ UNCHANGED <<netVars, fileVars, answers, healthVars, healthForce, alignVars,
                   result, audit, passVars, dropped, moveVars, events, quiet>>

\* post_failure_converge, one family at a time.
Converge ==
    /\ phase = "converge"
    /\ \E o \in ConvergeOwners :
        LET onto == IF fam = "v6" THEN chosen ELSE o
        IN  /\ chosen' = onto
            /\ IF onto = "none"
               THEN UNCHANGED fib
               ELSE \E t \in CommitTables(snap, fam, onto) :
                        fib' = [fib EXCEPT ![fam] = t]
            /\ IF fam = "v4" /\ onto # "none"
               THEN GoTo("converge", "v6") /\ UNCHANGED result
               ELSE GoTo("end", "v4") /\ result' = "failed"
    /\ UNCHANGED <<netVars, fileVars, answers, healthVars, healthForce, alignVars,
                   audit, passVars, dropped, dest, committed, owner, events, quiet>>

\* write_ipv6_owner, and the lock is released.  No route points at a missing
\* device here (the kernel drops them), so reap_orphan_routes finds nothing.
End ==
    /\ phase = "end"
    /\ audit' = owner
    /\ GoTo("idle", "v4")
    /\ UNCHANGED <<netVars, fib, fileVars, answers, healthVars, healthForce,
                   alignVars, result, passVars, dropped, moveVars, events, quiet>>

Step ==
    \/ TargetedHealth \/ Health \/ KeepWarm \/ Decide
    \/ Probe \/ SkipFamily \/ Promote \/ Demote \/ Holes \/ Verify
    \/ Restore \/ Converge \/ End

-----------------------------------------------------------------------------
(***************************************************************************)
(* The environment                                                         *)
(***************************************************************************)

Event(kind) ==
    /\ kind \in Disturbances
    /\ events < MaxEvents
    /\ events' = events + 1

\* A pass that serves a hotplug event, the user's alignment, or the reconcile
\* command.
Hotplug(g) ==
    /\ Event("hotplug")
    /\ Enter(FALSE, g)
    /\ healthForce' = TRUE
    /\ UNCHANGED <<healthAge, tryAge, sinceTry>>

Align ==
    /\ Event("align")
    /\ Enter(TRUE, "none")
    /\ UNCHANGED <<healthForce, healthAge, tryAge, sinceTry>>

ReconcileNow ==
    /\ Event("align")
    /\ Enter(FALSE, "none")
    /\ UNCHANGED <<healthForce, healthAge, tryAge, sinceTry>>

NetworkEvent ==
    /\ Event("network")
    /\ quiet' = FALSE
    /\ \/ /\ \/ \E g \in Group : LoseLink(g)
             \/ \E g \in Group, f \in Family :
                    RaiseSection(g, f) \/ WithdrawRoute(g, f)
          /\ UNCHANGED answers
       \/ /\ \E g \in Group : \E F \in AnswerSets :
                F \subseteq conf.capable[g] /\ answers' = [answers EXCEPT ![g] = F]
          /\ UNCHANGED <<link, addr, fib>>
    /\ UNCHANGED <<conf, fileVars, healthVars, healthForce, alignVars, result,
                   audit, phase, fam, passVars, dropped, moveVars>>

\* What other processes do beside the pass: the health command probes without
\* the lock, a coalesced notification raises health_force, and the wall clock
\* is set back by one interval, or so far forward that the stamps are too old
\* to count; and a rewrite of the whole state file that began before the attempt
\* was stamped loses the stamp.
OutsideEvent ==
    /\ Event("outside")
    /\ \/ /\ HealthRound(Live, Group)
          /\ UNCHANGED <<healthForce, tryAge>>
       \/ /\ healthForce' = TRUE
          /\ UNCHANGED <<healthVars, tryAge>>
       \/ /\ healthAge' = healthAge - 1
          /\ tryAge' = tryAge - 1
          /\ UNCHANGED <<verdict, streak, misses, healthForce>>
       \/ /\ tryAge < Cooldown /\ tryAge' = Cooldown
          /\ healthAge' \in {healthAge, HealthInterval}
          /\ UNCHANGED <<verdict, streak, misses, healthForce>>
    /\ unstamped' = (unstamped \/ tryAge' > tryAge)
    /\ UNCHANGED <<netVars, fib, fileVars, answers, cand, hits, sinceTry, result,
                   audit, phase, fam, passVars, dropped, moveVars, quiet>>

\* The process is killed; procd starts the watchdog again.
Crash ==
    /\ Event("crash")
    /\ phase # "idle"
    /\ GoTo("idle", "v4")
    /\ quiet' = FALSE
    /\ result' = "killed"
    /\ UNCHANGED <<netVars, fib, fileVars, answers, healthVars, healthForce,
                   alignVars, audit, passVars, dropped, moveVars>>

Environment ==
    \/ \E g \in Group : Hotplug(g)
    \/ Align \/ ReconcileNow \/ NetworkEvent \/ OutsideEvent \/ Crash

\* The network at rest, each exit reaching out or not, before the first pass.
Init ==
    /\ mode \in InitModes
    /\ AtRest(Configs, mode, {{}})
    /\ answers \in [Group -> AnswerSets]
    /\ \A g \in Group : answers[g] \subseteq conf.capable[g]
    /\ verdict = [g \in Group |-> [f \in Family |-> "unknown"]]
    /\ streak = [g \in Group |-> [f \in Family |-> 0]]
    /\ healthAge = HealthInterval /\ healthForce = FALSE
    /\ misses = [g \in Group |-> [f \in Family |-> 0]]
    /\ tryAge = Cooldown /\ sinceTry = Cooldown /\ unstamped = FALSE
    /\ cand = "none" /\ hits = 0
    /\ result = "none" /\ audit = "none"
    /\ phase = "idle" /\ fam = "v4"
    /\ forced = FALSE /\ scope = "none" /\ snap = Live /\ dropped = FALSE
    /\ dest = "none" /\ committed = TRUE /\ chosen = "none" /\ owner = "none"
    /\ events = 0 /\ quiet = TRUE

Next == Watch \/ Step \/ Environment

Spec == Init /\ [][Next]_vars

\* procd keeps the watchdog running: it wakes every interval, and a pass that
\* has begun goes on.  Nothing is assumed of the environment.
FairSpec == Spec /\ WF_vars(Watch \/ Step)

-----------------------------------------------------------------------------
(***************************************************************************)
(* Properties                                                              *)
(***************************************************************************)

\* Every variable stays within its type.
TypeOK ==
    /\ conf \in Config
    /\ link \in [Group -> BOOLEAN]
    /\ addr \in [Group -> SUBSET Family]
    /\ fib \in Tables
    /\ plan \in [Group -> [Family -> SectionPlan]]
    /\ rt \subseteq Hop
    /\ mode \in Mode
    /\ answers \in [Group -> SUBSET Family]
    /\ verdict \in [Group -> [Family -> Verdict]]
    /\ streak \in [Group -> [Family -> 0..ProbeFailStreak]]
    /\ healthAge \in Int
    /\ healthForce \in BOOLEAN
    /\ tryAge \in Int
    /\ sinceTry \in Nat
    /\ unstamped \in BOOLEAN
    /\ misses \in [Group -> [Family -> 0..ProbeFailStreak]]
    /\ cand \in Group \cup {"none"}
    /\ hits \in Nat
    /\ result \in {"none", "ok", "failed", "killed"}
    /\ audit \in Group \cup {"none", "split"}
    /\ phase \in Phase
    /\ fam \in Family
    /\ forced \in BOOLEAN
    /\ scope \in Group \cup {"none"}
    /\ snap \in Snapshot
    /\ dropped \in BOOLEAN
    /\ dest \in Group \cup {"none"}
    /\ committed \in BOOLEAN
    /\ chosen \in Group \cup {"none"}
    /\ owner \in Group \cup {"none", "split"}
    /\ events \in Nat
    /\ quiet \in BOOLEAN
    /\ phase = "targeted" => scope \in Group
    /\ phase \in {"probe", "promote", "demote", "holes", "verify", "restore"}
       => dest \in Group

\* A step of the program, not of the network.
OwnStep == events' = events

\* No step of the reconciler takes the last default route of a family, unless
\* it parks a family the exit it aligns to cannot carry.
NeverBlackholes ==
    [][OwnStep => \A f \in Family :
            fib[f] # {} /\ fib'[f] = {} =>
                phase = "holes" /\ ~Capable(dest, f)]_vars

\* Automatic alignments are spaced: one that nobody asked for begins no sooner
\* than switch_cooldown after the last one began, however that one ended, also
\* across a restart of the watchdog and a clock that was set back, unless the
\* stamp of the last one was lost or a clock set forward has made it old.
AttemptsSpaced ==
    [][phase = "decide" /\ phase' = "probe" /\ ~forced /\ ~unstamped
       => sinceTry >= Cooldown]_vars

\* The exit is never taken from an exit that works: a pass that finds both
\* families on the policy's primary exit moves them only when, in some family,
\* probe_fail_streak health rounds probed that exit without an answer, and no
\* round has had one since: rounds that did not probe it, or found no route to
\* probe over, do not count, across hotplug rounds, restarts and health rounds
\* of other processes.
PrimaryKept ==
    [][phase = "decide" /\ phase' = "probe" /\ dest' # primary
       => \/ \E f \in conf.capable[primary] :
                misses[primary][f] >= ProbeFailStreak
          \/ \E f \in Family : Owners(Seen[f]) # {primary}]_vars

\* A failed alignment puts things back: when the other exit held every family
\* that had a default route, with an address, and nothing interfered, it holds
\* them again when the pass has converged.
FailedAlignRestores ==
    [][/\ phase = "converge" /\ phase' = "end" /\ quiet
       /\ \A f \in Family :
            snap.fib[f] # {} => /\ Owners(snap.fib[f]) = {Other(dest)}
                               /\ f \in snap.addr[Other(dest)]
       => \A f \in Family :
            snap.fib[f] # {} => Owners(fib'[f]) = {Other(dest)}]_vars

\* A successful alignment keeps the exit it leaves warm: if that exit had a route
\* and an address in a family the new exit can carry, and some route of the
\* family stood above the standby slot, it still has a route, for the failback
\* or the next failover.
OtherExitKept ==
    [][phase = "verify" /\ phase' = "end" /\ quiet
       => \A f \in conf.capable[dest] :
            /\ GroupRoute(snap, Other(dest), f) # {}
            /\ \E r \in snap.fib[f] : r.metric < StandbyMetric
            /\ f \in snap.addr[Other(dest)]
            => GroupDefaultRoute(fib'[f], Other(dest)) # {}]_vars

\* Exit g can carry every family of its deployment: routes, addresses, and an
\* answer from outside.
Healthy(g) ==
    \A f \in conf.capable[g] : Ready(Live, g, f) /\ Answers(g, f)

DualStack == \A g \in Group : conf.capable[g] = Family

Carries(g) == \A f \in conf.capable[g] : Owners(fib[f]) = {g}

\* The watchdog finds the exit that works: with both exits dual stack, when one
\* of them is healthy for good and the other one never reaches out over IPv4,
\* the traffic of both families ends up on the healthy one and stays there,
\* unless a pass was killed.
Recovers ==
    \A g \in Group :
        /\ DualStack
        /\ [](result # "killed")
        /\ <>[](Healthy(g) /\ ~Answers(Other(g), "v4"))
        => <>[]Carries(g)

\* Failback: an exit the policy prefers that is healthy for good gets the
\* traffic back, and keeps it.
FailsBack == DualStack /\ <>[]Healthy(primary) => <>[]Carries(primary)

\* Anti-oscillation: with strict dual stack and both exits dual stack, the
\* watchdog eventually stops moving the exit.
Settles ==
    conf.strict /\ DualStack => <>[](phase \notin {"promote", "restore"})

(***************************************************************************)
(* What the documentation promises and the code does not keep              *)
(***************************************************************************)

\* README: the exit does not flap, and with strict_dual_stack=0 IPv6 never
\* stands in the way of a switch between the exits.
SettlesAlways == <>[](phase \notin {"promote", "restore"})

\* CHANGELOG v1.8.3: the watchdog fails over and rescues between exits that
\* have IPv4 only.
RecoversAlways ==
    \A g \in Group :
        <>[](Healthy(g) /\ ~Answers(Other(g), "v4")) => <>[]Carries(g)

\* README: families found on different exits are brought together, here for
\* two dual-stack exits one of which is healthy for good.
SplitRepaired ==
    (\E g \in Group : <>[]Healthy(g))
    => []<>(\E g \in Group : \A f \in Family : Owners(fib[f]) \subseteq {g})
=============================================================================
