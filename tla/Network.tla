------------------------------- MODULE Network ------------------------------
(***************************************************************************)
(* The network both writers work on: the two exits, the default routes of  *)
(* the two families, the persisted plan and the remembered next hops; what *)
(* a writer reads of it (a snapshot, the predicates of an exit, the        *)
(* verification of a commit) and the route writes it is changed by.        *)
(***************************************************************************)
EXTENDS Fib

Config == [ strict     : BOOLEAN,                 \* strict_dual_stack
            gwRequired : BOOLEAN,                 \* gw_required
            capable    : [Group -> SUBSET Family],\* families with a section
            gateway    : [Group -> SUBSET Family],\* default has a next hop
            sourced    : SUBSET Group ]           \* netifd restricts its IPv6
                                                  \* default to a source prefix

VARIABLES
    conf,        \* the deployment, fixed
    link,        \* link[g]: the device of exit g exists
    addr,        \* addr[g]: families in which that device holds an address
    fib,         \* fib[f]: the default routes of family f
    plan,        \* plan[g][f]: metric and defaultroute of the UCI section
    rt           \* remembered next hops (rt_<group><family>)

netVars == <<conf, link, addr>>

SectionPlan == [metric : {ActiveMetric, StandbyMetric}, defaultroute : {0, 1}]
Tables      == [Family -> SUBSET Route]
Snapshot    == [fib : Tables, addr : [Group -> SUBSET Family]]
Hop         == Group \X Family

-----------------------------------------------------------------------------
(***************************************************************************)
(* What the worker reads                                                   *)
(***************************************************************************)

\* read_live_state and refresh_routing: the routing-derived fields.
Live == [fib |-> fib, addr |-> addr]

Capable(g, f) == f \in conf.capable[g]

GroupRoute(s, g, f) == GroupDefaultRoute(s.fib[f], g)

Ready(s, g, f) ==
    /\ Capable(g, f)
    /\ GroupRoute(s, g, f) # {}
    /\ f \in s.addr[g]

\* Mutant of Gates: IPv6 is not asked for under strict_dual_stack=1 either.
GatesIPv4Only(f) == f = "v4"

\* Under strict_dual_stack=0 IPv6 never gates a group predicate.
Gates(f) == f = "v4" \/ conf.strict

GroupComplete(s, g) ==
    \A f \in conf.capable[g] : Gates(f) => Ready(s, g, f)

\* Mutant of HoleFamilies: a family without an address is taken for absent.
HoleFamiliesNoAddress(g) ==
    {f \in Family : f \notin conf.capable[g] \/ f \notin addr[g]}

HoleFamilies(g) == Family \ conf.capable[g]

\* slot_owner: the owner of the IPv4 winner, else of the IPv6 winner.
SlotOwners == IF fib["v4"] # {} THEN Owners(fib["v4"]) ELSE Owners(fib["v6"])

HasHop(s, g, f) == GroupRoute(s, g, f) # {} \/ <<g, f>> \in rt

(***************************************************************************)
(* Verification of the committed exit.  verify_group_priority reads the    *)
(* live tables, verify_excluded_families the snapshot; the first failing   *)
(* check decides, and one about IPv6 is only a warning unless strict.      *)
(***************************************************************************)
OwnsSlot(g, f) ==
    IF fib[f] = {} THEN ~Capable(g, f)
    ELSE /\ Owners(fib[f]) = {g}
         /\ \A w \in Winners(fib[f]) : EqualMetricCount(fib[f], w) = 1

StandbyBelow(g, f) ==
    \A r \in GroupDefaultRoute(fib[f], Other(g)), w \in Winners(fib[f]) :
        r.metric > w.metric

NoLeak(s, g, f) == f \in HoleFamilies(g) => GroupRoute(s, Other(g), f) = {}

\* The checks of one family in the order they run: 1 owner, 3 standby, 5 leak
\* for IPv4, and 2, 4, 6 for IPv6.
FailedChecks(s, g) ==
    {i \in 1..6 :
        LET f == IF i % 2 = 1 THEN "v4" ELSE "v6" IN
        ~ CASE i \in {1, 2} -> OwnsSlot(g, f)
            [] i \in {3, 4} -> StandbyBelow(g, f)
            [] i \in {5, 6} -> NoLeak(s, g, f)}

VerifyCommit(s, g) ==
    \/ FailedChecks(s, g) = {}
    \/ /\ ~conf.strict
       /\ \E i \in FailedChecks(s, g) :
            /\ i % 2 = 0
            /\ \A j \in FailedChecks(s, g) : i <= j

\* A probe is bound to the device and needs an address on it.
MayAnswer(g, f) == link[g] /\ f \in addr[g]

(***************************************************************************)
(* What the worker writes                                                  *)
(***************************************************************************)

\* A route write fails when the device has no ifindex; the kernel may also
\* refuse a next hop on a device that lost its address.
Writable(g)    == link[g]
Refusable(g, f) == ~link[g] \/ f \notin addr[g]

\* The tables a route write whose result is ignored can leave behind.
BestEffort(table, g, f, m) ==
    (IF Writable(g) THEN ReplaceSlot(table, g, m) ELSE {})
    \cup (IF Refusable(g, f) THEN {table} ELSE {})

PolicyPlan(m) ==
    [g \in Group |-> [f \in Family |->
        IF Capable(g, f)
        THEN [metric |-> PolicyMetric(m, g),
              defaultroute |-> PolicyDefaultRoute(m, g)]
        ELSE plan[g][f]]]

\* The exit lacks the family's route, and its next hop is remembered.
Warmable(s, g, f) ==
    /\ Capable(g, f)
    /\ GroupRoute(s, g, f) = {}
    /\ f \in s.addr[g]
    /\ <<g, f>> \in rt

\* Mutant of WarmTables: the standby is warmed into the active slot.
WarmTablesActive(s, g, f) ==
    IF Warmable(s, g, f)
    THEN BestEffort(fib[f], g, f, ActiveMetric)
    ELSE {fib[f]}

\* warm_group_route: the tables it can leave for family f.
WarmTables(s, g, f) ==
    IF Warmable(s, g, f)
    THEN BestEffort(fib[f], g, f, StandbyMetric)
    ELSE {fib[f]}

WarmGroupRoute(s, g) ==
    /\ \E t4 \in WarmTables(s, g, "v4"), t6 \in WarmTables(s, g, "v6") :
            fib' = [f \in Family |-> IF f = "v4" THEN t4 ELSE t6]
    /\ rt' = rt \cup {<<g, f>> : f \in
                        {f \in conf.capable[g] \cap conf.gateway[g] :
                            GroupRoute(s, g, f) # {}}}

\* commit_family with its results ignored, as post_failure_converge calls it.
CommitTables(s, f, g) ==
    LET demoted(t) == IF GroupRoute(s, Other(g), f) # {}
                      THEN BestEffort(t, Other(g), f, StandbyMetric)
                      ELSE {t}
    IN  (IF HasHop(s, g, f) /\ Writable(g)
         THEN UNION {demoted(t) : t \in ReplaceSlot(fib[f], g, ActiveMetric)}
         ELSE {})
        \cup (IF ~HasHop(s, g, f) \/ Refusable(g, f) THEN {fib[f]} ELSE {})

\* apply_group_holes: the standby is parked where the exit has no section.
ParkStandby(s, g) ==
    /\ plan' = [plan EXCEPT ![Other(g)] = [f \in Family |->
                   IF f \in HoleFamilies(g) /\ Capable(Other(g), f)
                   THEN [@[f] EXCEPT !.defaultroute = 0]
                   ELSE @[f]]]
    /\ fib' = [f \in Family |->
                   IF f \in HoleFamilies(g)
                   THEN RouteDel(fib[f], GroupRoute(s, Other(g), f))
                   ELSE fib[f]]

\* post_failure_converge: the exit both families are committed onto when
\* their owners differ: the IPv4 owner, the IPv6 one when IPv4 has none.
ConvergeOwners ==
    {IF s4 = s6 THEN "none" ELSE IF s4 # "none" THEN s4 ELSE s6 :
        s4 \in Owners(fib["v4"]), s6 \in Owners(fib["v6"])}

-----------------------------------------------------------------------------
(***************************************************************************)
(* What changes it from outside: netifd and the kernel                     *)
(***************************************************************************)

\* The device goes away; the kernel drops its routes.
LoseLink(g) ==
    /\ link[g]
    /\ link' = [link EXCEPT ![g] = FALSE]
    /\ addr' = [addr EXCEPT ![g] = {}]
    /\ fib' = [f \in Family |-> {r \in fib[f] : r.grp # g}]

\* The default route netifd installs for a section.
NetifdRoute(g, f, m) ==
    [RouteOf(g, m) EXCEPT !.src = (f = "v6" /\ g \in conf.sourced)]

\* netifd brings a section up: device and address, and the default route at
\* the section's metric if the plan lets it have one.
RaiseSection(g, f) ==
    /\ Capable(g, f)
    /\ link' = [link EXCEPT ![g] = TRUE]
    /\ addr' = [addr EXCEPT ![g] = @ \cup {f}]
    /\ \/ UNCHANGED fib
       \/ /\ plan[g][f].defaultroute = 1
          /\ fib' = [fib EXCEPT ![f] = @ \cup {NetifdRoute(g, f, plan[g][f].metric)}]

\* A default route is withdrawn while the address stays.
WithdrawRoute(g, f) ==
    /\ \E r \in fib[f] : r.grp = g /\ fib' = [fib EXCEPT ![f] = @ \ {r}]
    /\ UNCHANGED <<link, addr>>

(***************************************************************************)
(* At rest: the live exit holds the active slot, the other one the standby *)
(* slot, either route may be missing, and every exit with a route has a    *)
(* device and an address.  Unmanaged routes sit beside them in IPv4, and in *)
(* IPv6 netifd's restricted ones, at the metric of this or a former policy. *)
(***************************************************************************)
RestTables(active) ==
    [Family -> SUBSET {RouteOf(active, ActiveMetric),
                       RouteOf(Other(active), StandbyMetric)}]

RestrictedTables ==
    {T \in SUBSET {NetifdRoute(g, "v6", m) :
                      g \in conf.sourced, m \in {ActiveMetric, StandbyMetric}} :
        \A r, s \in T : r.grp = s.grp => r = s}

AtRest(deployments, mode, foreigns) ==
    /\ conf \in deployments
    /\ plan = [g \in Group |-> [f \in Family |->
                 [metric |-> PolicyMetric(mode, g),
                  defaultroute |-> PolicyDefaultRoute(mode, g)]]]
    /\ \E active \in Group, foreign \in foreigns :
         \E rest \in RestTables(active), restricted \in RestrictedTables :
            fib = [f \in Family |->
                     rest[f] \cup (IF f = "v4" THEN foreign ELSE restricted)]
    /\ addr \in [Group -> SUBSET Family]
    /\ \A g \in Group : addr[g] \subseteq conf.capable[g]
    /\ \A f \in Family : \A r \in fib[f] : f \in addr[r.grp]
    /\ link = [g \in Group |-> addr[g] # {}]
    /\ rt = {h \in Hop : h[2] \in conf.capable[h[1]] \cap conf.gateway[h[1]]}
=============================================================================
