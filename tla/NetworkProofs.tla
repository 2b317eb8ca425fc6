---------------------------- MODULE NetworkProofs ----------------------------
(***************************************************************************)
(* Lemmas about the operators of Network that both writers are built from. *)
(***************************************************************************)
EXTENDS Network, WellFoundedInduction, TLAPS

\* The types of the network's variables.
NetworkType ==
    /\ conf \in Config
    /\ link \in [Group -> BOOLEAN]
    /\ addr \in [Group -> SUBSET Family]
    /\ fib \in Tables
    /\ plan \in [Group -> [Family -> SectionPlan]]
    /\ rt \subseteq Hop

-----------------------------------------------------------------------------
(***************************************************************************)
(* Route writes                                                            *)
(***************************************************************************)

\* The two slots are metrics of the table.
LEMMA SlotMetrics == ActiveMetric \in Metric /\ StandbyMetric \in Metric
  BY DEF Metric

\* Every policy has a primary exit, and every exit another one.
LEMMA Groups ==
    /\ \A g \in Group : Other(g) \in Group
    /\ \A m \in Mode : PrimaryGroup(m) \in Group
  BY DEF Group, Mode, Other, PrimaryGroup

\* route_replace_slot leaves a table of routes that holds the new one.
LEMMA ReplaceSlotResult ==
    ASSUME NEW table \in SUBSET Route, NEW g \in Group, NEW m \in Metric,
           NEW t \in ReplaceSlot(table, g, m)
    PROVE  t \in SUBSET Route /\ RouteOf(g, m) \in t
  <1>1. RouteOf(g, m) \in Route
    BY DEF RouteOf, Route
  <1>2. QED
    BY <1>1 DEF ReplaceSlot, Slot

\* A best-effort route write leaves a table of routes, and never empties it.
LEMMA BestEffortResult ==
    ASSUME NEW table \in SUBSET Route, NEW g \in Group, NEW f \in Family,
           NEW m \in Metric, NEW t \in BestEffort(table, g, f, m)
    PROVE  /\ t \in SUBSET Route
           /\ table # {} => t # {}
  <1>1. CASE t \in ReplaceSlot(table, g, m)
    BY <1>1, ReplaceSlotResult
  <1>2. CASE t = table
    BY <1>2
  <1>3. QED
    BY <1>1, <1>2 DEF BestEffort

\* The owner of a table is an exit, or nobody.
LEMMA OwnersType ==
    ASSUME NEW table \in SUBSET Route
    PROVE  Owners(table) \subseteq Group \cup {"none"}
  BY DEF Owners, Winners, Route

\* slot_owner returns an exit, or nobody.
LEMMA SlotOwnersType ==
    ASSUME fib \in Tables
    PROVE  SlotOwners \subseteq Group \cup {"none"}
  <1>1. \A f \in Family : fib[f] \in SUBSET Route
    BY DEF Tables
  <1>2. QED
    BY <1>1, OwnersType DEF SlotOwners, Family

\* A route a snapshot shows is a route of its table.
LEMMA GroupRouteType ==
    ASSUME NEW s, NEW g, NEW f
    PROVE  GroupRoute(s, g, f) \subseteq s.fib[f]
  BY DEF GroupRoute, GroupDefaultRoute, Winners

\* Warming a family leaves a table of routes, and never empties it.
LEMMA WarmTablesResult ==
    ASSUME fib \in Tables, NEW s, NEW g \in Group, NEW f \in Family,
           NEW t \in WarmTables(s, g, f)
    PROVE  /\ t \in SUBSET Route
           /\ fib[f] # {} => t # {}
  <1>1. fib[f] \in SUBSET Route
    BY DEF Tables
  <1>2. CASE t \in BestEffort(fib[f], g, f, StandbyMetric)
    BY <1>1, <1>2, BestEffortResult, SlotMetrics
  <1>3. CASE t = fib[f]
    BY <1>1, <1>3
  <1>4. QED
    BY <1>2, <1>3 DEF WarmTables

\* So does warming an exit in both families, which remembers hops.
LEMMA WarmGroupRouteResult ==
    ASSUME NetworkType, NEW s, NEW g \in Group, WarmGroupRoute(s, g)
    PROVE  /\ fib' \in Tables
           /\ rt' \subseteq Hop
           /\ \A f \in Family : fib[f] # {} => fib'[f] # {}
  <1>1. PICK t4 \in WarmTables(s, g, "v4"), t6 \in WarmTables(s, g, "v6") :
            fib' = [f \in Family |-> IF f = "v4" THEN t4 ELSE t6]
    BY DEF WarmGroupRoute
  <1>2. /\ t4 \in SUBSET Route /\ (fib["v4"] # {} => t4 # {})
        /\ t6 \in SUBSET Route /\ (fib["v6"] # {} => t6 # {})
    BY <1>1, WarmTablesResult DEF NetworkType, Family
  <1>3. fib' \in Tables /\ \A f \in Family : fib[f] # {} => fib'[f] # {}
    BY <1>1, <1>2 DEF Tables, Family
  <1>4. rt' \subseteq Hop
    BY DEF WarmGroupRoute, NetworkType, Config, Hop
  <1>5. QED
    BY <1>3, <1>4

\* commit_family leaves a table of routes, and never empties it.
LEMMA CommitTablesResult ==
    ASSUME fib \in Tables, NEW s, NEW f \in Family, NEW g \in Group,
           NEW t \in CommitTables(s, f, g)
    PROVE  /\ t \in SUBSET Route
           /\ fib[f] # {} => t # {}
  <1>1. fib[f] \in SUBSET Route
    BY DEF Tables
  <1>2. CASE t = fib[f]
    BY <1>1, <1>2
  <1>3. CASE \E p \in ReplaceSlot(fib[f], g, ActiveMetric) :
                \/ t \in BestEffort(p, Other(g), f, StandbyMetric)
                \/ t = p
    <2>1. PICK p \in ReplaceSlot(fib[f], g, ActiveMetric) :
                \/ t \in BestEffort(p, Other(g), f, StandbyMetric)
                \/ t = p
      BY <1>3
    <2>2. p \in SUBSET Route /\ p # {}
      BY <1>1, ReplaceSlotResult, SlotMetrics
    <2>3. QED
      BY <2>1, <2>2, BestEffortResult, SlotMetrics, Groups
  <1>4. QED
    BY <1>2, <1>3 DEF CommitTables

\* What read_live_state returns is a snapshot.
LEMMA LiveType ==
    ASSUME NetworkType
    PROVE  Live \in Snapshot
  BY DEF NetworkType, Live, Snapshot

\* apply_group_holes leaves a plan and tables, and empties no family the exit
\* has a section for.
LEMMA ParkStandbyResult ==
    ASSUME NetworkType, NEW s, NEW g \in Group, ParkStandby(s, g)
    PROVE  /\ plan' \in [Group -> [Family -> SectionPlan]]
           /\ fib' \in Tables
           /\ \A f \in Family : Capable(g, f) => fib'[f] = fib[f]
  <1>1. plan' \in [Group -> [Family -> SectionPlan]]
    BY Groups DEF ParkStandby, NetworkType, SectionPlan
  <1>2. fib' \in Tables
    BY DEF ParkStandby, NetworkType, Tables, RouteDel
  <1>3. \A f \in Family : Capable(g, f) => fib'[f] = fib[f]
    BY DEF ParkStandby, HoleFamilies, Capable
  <1>4. QED
    BY <1>1, <1>2, <1>3

\* post_failure_converge chooses an exit, or none.
LEMMA ConvergeOwnersType ==
    ASSUME fib \in Tables
    PROVE  ConvergeOwners \subseteq Group \cup {"none"}
  <1>1. /\ Owners(fib["v4"]) \subseteq Group \cup {"none"}
        /\ Owners(fib["v6"]) \subseteq Group \cup {"none"}
    BY OwnersType DEF Tables, Family
  <1>2. QED
    BY <1>1 DEF ConvergeOwners

-----------------------------------------------------------------------------
(***************************************************************************)
(* Who carries a family                                                    *)
(***************************************************************************)

\* An exit has a default route of the family.
Shows(table, g) == \E r \in table : r.grp = g

\* Writing exit g into the active slot makes it the only owner: either it has
\* a better route than everybody else, or nothing lies above the active slot
\* and that holds one route at most.
Reclaimable(table, g) ==
    \/ \E r \in table : /\ r.grp = g /\ r.metric < ActiveMetric
                        /\ \A s \in table : s.grp # g => Rank(r) < Rank(s)
    \/ /\ \A s \in table : ActiveMetric <= s.metric
       /\ \A r, s \in Slot(table, ActiveMetric) : r = s

\* Metrics are numbers.
LEMMA MetricsAreNumbers ==
    /\ Metric \subseteq Nat
    /\ \A r \in Route : r.metric \in Nat /\ r.grp \in Group
  <1>1. Metric \subseteq Nat
    BY ForeignMetricsAssumption DEF Metric, ActiveMetric, StandbyMetric
  <1>2. QED
    BY <1>1 DEF Route

\* Routes are ordered by metric first.
LEMMA RankOrder ==
    ASSUME NEW r \in Route, NEW s \in Route
    PROVE  /\ Rank(r) \in Nat /\ Rank(s) \in Nat
           /\ r.metric < s.metric => Rank(r) < Rank(s)
           /\ Rank(r) <= Rank(s) => r.metric <= s.metric
  BY MetricsAreNumbers DEF Rank

\* A write of the program beats a restricted route of its metric.
LEMMA RankOfWrite ==
    ASSUME NEW g \in Group, NEW m \in Metric, NEW s \in Route, m <= s.metric
    PROVE  /\ Rank(RouteOf(g, m)) <= Rank(s)
           /\ ~(s.metric = m /\ ~s.src) => Rank(RouteOf(g, m)) < Rank(s)
  <1>1. m \in Nat /\ s.metric \in Nat /\ s.src \in BOOLEAN
    BY MetricsAreNumbers DEF Route
  <1>2. Rank(RouteOf(g, m)) = 2 * m
    BY <1>1 DEF Rank, RouteOf
  <1>3. CASE s.src
    BY <1>1, <1>2, <1>3 DEF Rank
  <1>4. CASE ~s.src
    BY <1>1, <1>2, <1>4 DEF Rank
  <1>5. QED
    BY <1>1, <1>3, <1>4

\* A set of numbers has a least one.
LEMMA LeastNumber ==
    ASSUME NEW S \in SUBSET Nat, S # {}
    PROVE  \E n \in S : \A m \in S : n <= m
  <1>1. PICK n \in S : \A m \in S : ~(<<m, n>> \in OpToRel(<, Nat))
    BY WFMin, NatLessThanWellFounded, Zenon
  <1>2. \A m \in S : ~(m < n)
    BY <1>1, Zenon DEF OpToRel
  <1>3. QED
    BY <1>2

\* A family with a default route has one the kernel uses.
LEMMA WinnerExists ==
    ASSUME NEW table \in SUBSET Route, table # {}
    PROVE  Winners(table) # {}
  <1> DEFINE S == {Rank(r) : r \in table}
  <1>1. S \in SUBSET Nat /\ S # {}
    BY RankOrder
  <1>2. PICK n \in S : \A m \in S : n <= m
    BY <1>1, LeastNumber
  <1>3. PICK r \in table : Rank(r) = n
    BY <1>2
  <1>4. \A s \in table : Rank(r) <= Rank(s)
    BY <1>2, <1>3
  <1>5. QED
    BY <1>4 DEF Winners

\* An exit owns a family alone when the best routes are all its own.
LEMMA OwnerByWinners ==
    ASSUME NEW table \in SUBSET Route, NEW g, table # {},
           \A w \in Winners(table) : w.grp = g
    PROVE  Owners(table) = {g}
  BY WinnerExists DEF Owners

\* What a route write adds and takes away.
LEMMA ReplaceSlotElements ==
    ASSUME NEW table \in SUBSET Route, NEW h \in Group, NEW m \in Metric,
           NEW t \in ReplaceSlot(table, h, m)
    PROVE  /\ \A r \in t : r \in table \/ r = RouteOf(h, m)
           /\ \A r \in table : r \in t \/ r.metric = m
           /\ RouteOf(h, m) \in t
           /\ RouteOf(h, m).grp = h /\ RouteOf(h, m).metric = m
  BY DEF ReplaceSlot, Slot, RouteOf

\* The active slot holds no more routes after a write of it than before.
LEMMA ReplaceSlotSingle ==
    ASSUME NEW table \in SUBSET Route, NEW h \in Group, NEW m \in Metric,
           NEW t \in ReplaceSlot(table, h, m),
           \A r, s \in Slot(table, m) : r = s
    PROVE  \A r \in Slot(t, m) : r = RouteOf(h, m)
  <1> SUFFICES ASSUME NEW r \in t, r.metric = m, ~r.src
               PROVE  r = RouteOf(h, m)
    BY DEF Slot
  <1>1. CASE Slot(table, m) = {} \/ RouteOf(h, m) \in table
    <2>1. t = table \cup {RouteOf(h, m)}
      BY <1>1 DEF ReplaceSlot
    <2>2. RouteOf(h, m).metric = m /\ ~RouteOf(h, m).src
      BY DEF RouteOf
    <2>3. QED
      BY <1>1, <2>1, <2>2 DEF Slot
  <1>2. CASE ~(Slot(table, m) = {} \/ RouteOf(h, m) \in table)
    <2>1. PICK old \in Slot(table, m) : t = (table \ {old}) \cup {RouteOf(h, m)}
      BY <1>2 DEF ReplaceSlot
    <2>2. QED
      BY <2>1 DEF Slot
  <1>3. QED
    BY <1>1, <1>2

\* A table shows an exit when it has a default route of its own.
LEMMA ShowsRoute ==
    ASSUME NEW table \in SUBSET Route, NEW g
    PROVE  Shows(table, g) <=> GroupDefaultRoute(table, g) # {}
  <1>1. {r \in table : r.grp = g} \in SUBSET Route
    OBVIOUS
  <1>2. QED
    BY <1>1, WinnerExists DEF Shows, GroupDefaultRoute, Winners

\* The sole owner of a family can always reclaim it.
LEMMA OwnedReclaimable ==
    ASSUME NEW table \in SUBSET Route, NEW g \in Group, Owners(table) = {g}
    PROVE  Reclaimable(table, g) /\ Shows(table, g)
  <1>1. table # {} /\ \A w \in Winners(table) : w.grp = g
    BY DEF Owners, Group
  <1>2. PICK w \in Winners(table) : w.grp = g
    BY <1>1 DEF Owners
  <1>3. w \in table /\ \A s \in table : Rank(w) <= Rank(s)
    BY DEF Winners
  <1>4. \A s \in table : /\ s.metric \in Nat /\ Rank(s) \in Nat
                         /\ w.metric <= s.metric
    BY <1>3, MetricsAreNumbers, RankOrder
  <1>5. \A s \in table : s.grp # g => Rank(w) < Rank(s)
    <2> SUFFICES ASSUME NEW s \in table, s.grp # g, ~(Rank(w) < Rank(s))
                 PROVE  FALSE
      OBVIOUS
    <2>1. Rank(s) = Rank(w)
      BY <1>3, <1>4
    <2>2. s \in Winners(table)
      BY <1>3, <2>1 DEF Winners
    <2>3. QED
      BY <1>1, <2>2
  <1>6. CASE w.metric < ActiveMetric
    BY <1>2, <1>3, <1>5, <1>6 DEF Reclaimable, Shows
  <1>7. CASE ~(w.metric < ActiveMetric)
    <2>1. \A s \in table : ActiveMetric <= s.metric
      BY <1>3, <1>4, <1>7 DEF ActiveMetric
    <2>2. \A r \in Slot(table, ActiveMetric) : r = RouteOf(g, ActiveMetric)
      <3> SUFFICES ASSUME NEW r \in table, r.metric = ActiveMetric, ~r.src
                   PROVE  r = RouteOf(g, ActiveMetric)
        BY DEF Slot
      <3>1. /\ r \in Route /\ w \in Route
            /\ r = RouteOf(r.grp, ActiveMetric)
        BY <1>3 DEF Route, RouteOf
      <3>2. Rank(r) <= Rank(w)
        BY <1>3, <2>1, <3>1, SlotMetrics, RankOfWrite DEF Route
      <3>3. r.grp = g
        BY <1>3, <1>4, <1>5, <3>2
      <3>4. QED
        BY <3>1, <3>3
    <2>3. QED
      BY <1>2, <1>3, <2>1, <2>2 DEF Reclaimable, Shows
  <1>8. QED
    BY <1>6, <1>7

\* An exit that is alone can, too, whatever was taken out.
LEMMA AloneReclaimable ==
    ASSUME NEW table \in SUBSET Route, NEW g \in Group,
           \A r \in table : r.grp = g
    PROVE  Reclaimable(table, g)
  <1>1. \A s \in table : s.metric \in Nat /\ s \in Route
    BY MetricsAreNumbers
  <1>2. CASE \E r \in table : r.metric < ActiveMetric
    BY <1>2 DEF Reclaimable
  <1>3. CASE \A r \in table : ~(r.metric < ActiveMetric)
    <2>1. \A r \in table : ActiveMetric <= r.metric
      BY <1>1, <1>3 DEF ActiveMetric
    <2>2. \A r, s \in Slot(table, ActiveMetric) : r = s
      BY <1>1 DEF Slot, Route
    <2>3. QED
      BY <2>1, <2>2 DEF Reclaimable
  <1>4. QED
    BY <1>2, <1>3

\* No write of either slot, of whatever exit, takes that away.
LEMMA WriteKeepsReclaimable ==
    ASSUME NEW table \in SUBSET Route, NEW g \in Group, NEW h \in Group,
           NEW m \in {ActiveMetric, StandbyMetric},
           NEW t \in ReplaceSlot(table, h, m), Reclaimable(table, g)
    PROVE  Reclaimable(t, g)
  <1>0. m \in Metric /\ m \in Nat /\ ActiveMetric <= m
    BY SlotMetrics DEF ActiveMetric, StandbyMetric
  <1> DEFINE new == RouteOf(h, m)
  <1>1. /\ \A r \in t : r \in table \/ r = new
        /\ \A r \in table : r \in t \/ r.metric = m
        /\ new \in t /\ new.grp = h /\ new.metric = m
    BY <1>0, ReplaceSlotElements
  <1>2. \A s \in table : s.metric \in Nat
    BY MetricsAreNumbers
  <1> HIDE DEF new
  <1>3. CASE \E r \in table : /\ r.grp = g /\ r.metric < ActiveMetric
                              /\ \A s \in table : s.grp # g => Rank(r) < Rank(s)
    <2>1. PICK r \in table : /\ r.grp = g /\ r.metric < ActiveMetric
                             /\ \A s \in table : s.grp # g => Rank(r) < Rank(s)
      BY <1>3
    <2>2. r \in t
      BY <1>0, <1>1, <1>2, <2>1 DEF ActiveMetric
    <2>3. r.metric < new.metric /\ r \in Route /\ new \in Route
      BY <1>0, <1>1, <1>2, <2>1, ReplaceSlotResult DEF ActiveMetric, new
    <2>4. ASSUME NEW s \in t, s.grp # g PROVE Rank(r) < Rank(s)
      <3>1. CASE s \in table
        BY <2>1, <2>4, <3>1
      <3>2. CASE s = new
        BY <2>3, <3>2, RankOrder
      <3>3. QED
        BY <1>1, <3>1, <3>2
    <2>5. QED
      BY <2>1, <2>2, <2>4 DEF Reclaimable
  <1>4. CASE /\ \A s \in table : ActiveMetric <= s.metric
             /\ \A r, s \in Slot(table, ActiveMetric) : r = s
    <2>1. \A s \in t : ActiveMetric <= s.metric
      BY <1>0, <1>1, <1>4
    <2>2. \A r, s \in Slot(t, ActiveMetric) : r = s
      <3>1. CASE m = ActiveMetric
        BY <1>0, <1>4, <3>1, ReplaceSlotSingle
      <3>2. CASE m = StandbyMetric
        <4>1. Slot(t, ActiveMetric) \subseteq Slot(table, ActiveMetric)
          BY <1>1, <3>2 DEF Slot, ActiveMetric, StandbyMetric
        <4>2. QED
          BY <1>4, <4>1
      <3>3. QED
        BY <3>1, <3>2
    <2>3. QED
      BY <2>1, <2>2 DEF Reclaimable
  <1>5. QED
    BY <1>3, <1>4 DEF Reclaimable

\* Nor does a write that may fail.
LEMMA EffortKeepsReclaimable ==
    ASSUME NEW table \in SUBSET Route, NEW g \in Group, NEW h \in Group,
           NEW f \in Family, NEW m \in {ActiveMetric, StandbyMetric},
           NEW t \in BestEffort(table, h, f, m), Reclaimable(table, g)
    PROVE  Reclaimable(t, g)
  BY WriteKeepsReclaimable DEF BestEffort

\* Nor does commit_family.
LEMMA CommitKeepsReclaimable ==
    ASSUME fib \in Tables, NEW s, NEW f \in Family, NEW h \in Group,
           NEW t \in CommitTables(s, f, h), NEW g \in Group,
           Reclaimable(fib[f], g)
    PROVE  Reclaimable(t, g)
  <1>1. fib[f] \in SUBSET Route
    BY DEF Tables
  <1>2. CASE t = fib[f]
    BY <1>2
  <1>3. CASE \E p \in ReplaceSlot(fib[f], h, ActiveMetric) :
                \/ t \in BestEffort(p, Other(h), f, StandbyMetric)
                \/ t = p
    <2>1. PICK p \in ReplaceSlot(fib[f], h, ActiveMetric) :
                \/ t \in BestEffort(p, Other(h), f, StandbyMetric)
                \/ t = p
      BY <1>3
    <2>2. p \in SUBSET Route /\ Reclaimable(p, g)
      BY <1>1, SlotMetrics, ReplaceSlotResult, WriteKeepsReclaimable
    <2>3. QED
      BY <2>1, <2>2, Groups, EffortKeepsReclaimable
  <1>4. QED
    BY <1>2, <1>3 DEF CommitTables

\* And a write of the exit's own into the active slot reclaims the family.
LEMMA ClaimOwns ==
    ASSUME NEW table \in SUBSET Route, NEW g \in Group,
           NEW t \in ReplaceSlot(table, g, ActiveMetric), Reclaimable(table, g)
    PROVE  Owners(t) = {g} /\ \E r \in t : r.metric < StandbyMetric
  <1> DEFINE new == RouteOf(g, ActiveMetric)
  <1>1. /\ \A r \in t : r \in table \/ r = new
        /\ \A r \in table : r \in t \/ r.metric = ActiveMetric
        /\ new \in t /\ new.grp = g /\ new.metric = ActiveMetric
    BY SlotMetrics, ReplaceSlotElements
  <1>2. \A s \in table : s.metric \in Nat
    BY MetricsAreNumbers
  <1> HIDE DEF new
  <1>3. t \in SUBSET Route /\ t # {}
    BY <1>1, SlotMetrics, ReplaceSlotResult
  <1>4. ASSUME NEW w \in Winners(t)
        PROVE  w.grp = g
    <2>0. w \in t /\ w \in Route /\ \A s \in t : Rank(w) <= Rank(s)
      BY <1>3 DEF Winners
    <2>1. CASE \E r \in table : /\ r.grp = g /\ r.metric < ActiveMetric
                                /\ \A s \in table : s.grp # g => Rank(r) < Rank(s)
      <3>1. PICK r \in table : /\ r.grp = g /\ r.metric < ActiveMetric
                               /\ \A s \in table : s.grp # g => Rank(r) < Rank(s)
        BY <2>1
      <3>2. r \in t
        BY <1>1, <1>2, <3>1 DEF ActiveMetric
      <3>3. Rank(w) <= Rank(r) /\ \A s \in Route : Rank(s) \in Nat
        BY <2>0, <3>2, RankOrder
      <3>4. \A s \in table : s.grp # g => s # w
        BY <2>0, <3>1, <3>3
      <3>5. QED
        BY <1>1, <2>0, <3>4
    <2>2. CASE /\ \A s \in table : ActiveMetric <= s.metric
               /\ \A r, s \in Slot(table, ActiveMetric) : r = s
      <3>1. \A r \in Slot(t, ActiveMetric) : r = new
        BY <2>2, SlotMetrics, ReplaceSlotSingle DEF new
      <3>2. ActiveMetric <= w.metric /\ Rank(w) <= Rank(new)
        BY <1>1, <2>0, <2>2 DEF ActiveMetric
      <3>3. w.metric = ActiveMetric /\ ~w.src
        <4>1. new \in Route
          BY <1>1, <1>3
        <4>2. Rank(w) \in Nat /\ Rank(new) \in Nat
          BY <2>0, <4>1, RankOrder
        <4>3. ~(Rank(new) < Rank(w))
          BY <3>2, <4>2
        <4>4. QED
          BY <2>0, <3>2, <4>3, SlotMetrics, RankOfWrite DEF new
      <3>4. QED
        BY <1>1, <2>0, <3>1, <3>3 DEF Slot
    <2>3. QED
      BY <2>1, <2>2 DEF Reclaimable
  <1>5. Owners(t) = {g}
    BY <1>3, <1>4, OwnerByWinners
  <1>6. new.metric < StandbyMetric
    BY <1>1 DEF ActiveMetric, StandbyMetric
  <1>7. QED
    BY <1>1, <1>5, <1>6

\* A write of the standby slot leaves the winners of a family that runs over a
\* better one as they are.
LEMMA StandbyWriteKeepsWinners ==
    ASSUME NEW table \in SUBSET Route, NEW g \in Group,
           NEW t \in ReplaceSlot(table, g, StandbyMetric),
           \E r \in table : r.metric < StandbyMetric
    PROVE  /\ Winners(t) = Winners(table) /\ Owners(t) = Owners(table)
           /\ \E r \in t : r.metric < StandbyMetric
  <1> DEFINE new == RouteOf(g, StandbyMetric)
  <1>1. PICK r \in table : r.metric < StandbyMetric
    OBVIOUS
  <1>2. new.metric = StandbyMetric
    BY DEF RouteOf
  <1>3. /\ \A s \in t : s \in table \/ s = new
        /\ \A s \in table : s \in t \/ s.metric = StandbyMetric
    BY DEF ReplaceSlot, Slot
  <1>4. r \in t
    BY <1>1, <1>3 DEF StandbyMetric
  <1>5. new \in Route
    BY SlotMetrics DEF RouteOf, Route
  <1>6. \A s \in table \cup t : s.metric \in Nat
    <2>1. Metric \subseteq Nat
      BY ForeignMetricsAssumption DEF Metric, ActiveMetric, StandbyMetric
    <2>2. \A s \in table \cup t : s \in Route
      BY <1>3, <1>5
    <2>3. QED
      BY <2>1, <2>2 DEF Route
  <1>7. ASSUME NEW w \in Winners(table) PROVE w \in Winners(t)
    <2>1. w \in table /\ w.metric < StandbyMetric
      <3>1. w \in table /\ Rank(w) <= Rank(r)
        BY <1>1 DEF Winners
      <3>2. w \in Route /\ r \in Route
        BY <1>1, <3>1
      <3>3. w.metric <= r.metric
        BY <3>1, <3>2, RankOrder
      <3>4. QED
        BY <1>1, <1>6, <3>1, <3>3 DEF StandbyMetric
    <2>2. w \in t /\ w \in Route
      BY <1>3, <1>6, <2>1 DEF StandbyMetric
    <2>3. Rank(w) < Rank(new) /\ Rank(w) \in Nat /\ Rank(new) \in Nat
      <3>1. w.metric < new.metric
        BY <1>2, <2>1
      <3>2. QED
        BY <1>5, <2>2, <3>1, RankOrder
    <2>4. \A s \in t : Rank(w) <= Rank(s)
      BY <1>3, <2>3 DEF Winners
    <2>5. QED
      BY <2>2, <2>4 DEF Winners
  <1>8. ASSUME NEW w \in Winners(t) PROVE w \in Winners(table)
    <2>1. w \in t /\ w \in Route /\ w.metric < StandbyMetric
      <3>1. w \in t /\ w \in Route /\ Rank(w) <= Rank(r)
        BY <1>3, <1>4, <1>5 DEF Winners
      <3>2. r \in Route
        BY <1>1
      <3>3. w.metric <= r.metric
        BY <3>1, <3>2, RankOrder
      <3>4. QED
        BY <1>1, <1>6, <3>1, <3>3 DEF StandbyMetric
    <2>2. w \in table
      BY <1>2, <1>3, <1>6, <2>1 DEF StandbyMetric
    <2>3. ASSUME NEW s \in table PROVE Rank(w) <= Rank(s)
      <3>1. CASE s \in t
        BY <3>1 DEF Winners
      <3>2. CASE s.metric = StandbyMetric
        <4>1. s \in Route /\ w \in Route /\ w.metric < s.metric
          BY <2>1, <3>2
        <4>2. Rank(w) < Rank(s) /\ Rank(w) \in Nat /\ Rank(s) \in Nat
          BY <4>1, RankOrder
        <4>3. QED
          BY <4>2
      <3>3. QED
        BY <1>3, <3>1, <3>2
    <2>4. QED
      BY <2>2, <2>3 DEF Winners
  <1>9. Winners(t) \subseteq t /\ Winners(table) \subseteq table
    BY DEF Winners
  <1>10. Winners(t) = Winners(table) /\ table # {} /\ t # {}
    BY <1>1, <1>4, <1>7, <1>8
  <1>11. QED
    BY <1>1, <1>4, <1>10 DEF Owners

\* The same of a write that may fail.
LEMMA StandbyEffortKeepsOwner ==
    ASSUME NEW table \in SUBSET Route, NEW g \in Group, NEW f \in Family,
           NEW t \in BestEffort(table, g, f, StandbyMetric),
           \E r \in table : r.metric < StandbyMetric
    PROVE  Owners(t) = Owners(table) /\ \E r \in t : r.metric < StandbyMetric
  BY StandbyWriteKeepsWinners DEF BestEffort

\* commit_family onto an exit that has a next hop, a device and an address
\* makes it the owner.
LEMMA CommitReclaims ==
    ASSUME fib \in Tables, NEW s, NEW f \in Family, NEW g \in Group,
           NEW t \in CommitTables(s, f, g),
           HasHop(s, g, f), ~Refusable(g, f), Reclaimable(fib[f], g)
    PROVE  Owners(t) = {g}
  <1>1. fib[f] \in SUBSET Route
    BY DEF Tables
  <1>2. PICK p \in ReplaceSlot(fib[f], g, ActiveMetric) :
                \/ t \in BestEffort(p, Other(g), f, StandbyMetric)
                \/ t = p
    BY DEF CommitTables
  <1>3. /\ Owners(p) = {g} /\ \E r \in p : r.metric < StandbyMetric
        /\ p \in SUBSET Route
    BY <1>1, SlotMetrics, ClaimOwns, ReplaceSlotResult
  <1>4. QED
    BY <1>2, <1>3, Groups, StandbyEffortKeepsOwner

\* commit_family onto the owner leaves it the owner, whether or not its writes
\* succeed.
LEMMA CommitKeepsOwner ==
    ASSUME fib \in Tables, NEW s, NEW f \in Family, NEW g \in Group,
           NEW t \in CommitTables(s, f, g), Owners(fib[f]) = {g}
    PROVE  Owners(t) = {g}
  <1>1. fib[f] \in SUBSET Route
    BY DEF Tables
  <1>2. CASE t = fib[f]
    BY <1>2
  <1>3. CASE \E p \in ReplaceSlot(fib[f], g, ActiveMetric) :
                \/ t \in BestEffort(p, Other(g), f, StandbyMetric)
                \/ t = p
    <2>1. PICK p \in ReplaceSlot(fib[f], g, ActiveMetric) :
                \/ t \in BestEffort(p, Other(g), f, StandbyMetric)
                \/ t = p
      BY <1>3
    <2>2. /\ Owners(p) = {g} /\ \E r \in p : r.metric < StandbyMetric
          /\ p \in SUBSET Route
      BY <1>1, SlotMetrics, OwnedReclaimable, ClaimOwns, ReplaceSlotResult
    <2>3. QED
      BY <2>1, <2>2, Groups, StandbyEffortKeepsOwner
  <1>4. QED
    BY <1>2, <1>3 DEF CommitTables

-----------------------------------------------------------------------------
(***************************************************************************)
(* The environment                                                         *)
(***************************************************************************)

\* A device that goes away leaves well-typed tables.
LEMMA LoseLinkType ==
    ASSUME NetworkType, NEW g \in Group, LoseLink(g)
    PROVE  /\ link' \in [Group -> BOOLEAN] /\ addr' \in [Group -> SUBSET Family]
           /\ fib' \in Tables
  BY DEF NetworkType, LoseLink, Tables

\* What netifd installs is a route of the section's exit.
LEMMA NetifdRouteType ==
    ASSUME NEW g \in Group, NEW f, NEW m \in Metric
    PROVE  /\ NetifdRoute(g, f, m) \in Route
           /\ NetifdRoute(g, f, m).grp = g
           /\ f = "v4" => ~NetifdRoute(g, f, m).src
  BY DEF NetifdRoute, RouteOf, Route

\* So does a section that comes up: the plan holds metrics of the table.
LEMMA RaiseSectionType ==
    ASSUME NetworkType, NEW g \in Group, NEW f \in Family, RaiseSection(g, f)
    PROVE  /\ link' \in [Group -> BOOLEAN] /\ addr' \in [Group -> SUBSET Family]
           /\ fib' \in Tables
  <1>1. plan[g][f].metric \in Metric
    <2>1. plan[g][f] \in SectionPlan
      BY DEF NetworkType
    <2>2. QED
      BY <2>1, SlotMetrics DEF SectionPlan
  <1>2. NetifdRoute(g, f, plan[g][f].metric) \in Route
    BY <1>1, NetifdRouteType
  <1>3. \/ fib' = fib
        \/ fib' = [fib EXCEPT ![f] =
                     @ \cup {NetifdRoute(g, f, plan[g][f].metric)}]
    BY DEF RaiseSection
  <1>4. fib' \in Tables
    BY <1>2, <1>3 DEF NetworkType, Tables
  <1>5. QED
    BY <1>4 DEF NetworkType, RaiseSection

\* And a route that is withdrawn.
LEMMA WithdrawRouteType ==
    ASSUME NetworkType, NEW g \in Group, NEW f \in Family, WithdrawRoute(g, f)
    PROVE  fib' \in Tables /\ UNCHANGED <<link, addr>>
  BY DEF NetworkType, WithdrawRoute, Tables

\* The network at rest is well typed, with whatever unmanaged routes.
LEMMA AtRestType ==
    ASSUME NEW C \in SUBSET Config, NEW m \in Mode,
           NEW F \in SUBSET SUBSET Route, AtRest(C, m, F)
    PROVE  NetworkType
  <1>1. PICK active \in Group, foreign \in F :
          \E rest \in RestTables(active), restricted \in RestrictedTables :
            fib = [f \in Family |->
                     rest[f] \cup (IF f = "v4" THEN foreign ELSE restricted)]
    BY DEF AtRest
  <1>2. PICK rest \in RestTables(active), restricted \in RestrictedTables :
            fib = [f \in Family |->
                     rest[f] \cup (IF f = "v4" THEN foreign ELSE restricted)]
    BY <1>1
  <1>3. RouteOf(active, ActiveMetric) \in Route
        /\ RouteOf(Other(active), StandbyMetric) \in Route
    BY SlotMetrics, Groups DEF RouteOf, Route
  <1>4. \A f \in Family : rest[f] \in SUBSET Route
    BY <1>2, <1>3 DEF RestTables
  <1>5. restricted \in SUBSET Route
    <2>1. conf.sourced \subseteq Group
      BY DEF AtRest, Config
    <2>2. QED
      BY <2>1, SlotMetrics, NetifdRouteType DEF RestrictedTables
  <1>6. fib \in Tables
    BY <1>2, <1>4, <1>5 DEF Tables
  <1>7. plan \in [Group -> [Family -> SectionPlan]]
    BY DEF AtRest, PolicyMetric, PolicyDefaultRoute, SectionPlan
  <1>8. /\ conf \in Config /\ rt \subseteq Hop
        /\ addr \in [Group -> SUBSET Family] /\ link \in [Group -> BOOLEAN]
    BY DEF AtRest
  <1>9. QED
    BY <1>6, <1>7, <1>8 DEF NetworkType
-----------------------------------------------------------------------------
(***************************************************************************)
(* The network agrees with the deployment                                  *)
(***************************************************************************)

\* Every route belongs to an exit that can carry the family, and no IPv4 route
\* is restricted to a source prefix.
Fits(table, f) ==
    \A r \in table : f \in conf.capable[r.grp] /\ (f = "v4" => ~r.src)

\* Every next hop an exit can have is remembered.
HopsKnown ==
    rt = {h \in Hop : h[2] \in conf.capable[h[1]] \cap conf.gateway[h[1]]}

\* Routes fit, next hops are known, and an address needs a device.
NetworkConsistent ==
    /\ \A f \in Family : Fits(fib[f], f)
    /\ HopsKnown
    /\ \A g \in Group : addr[g] # {} => link[g]

\* An exit whose route a table shows can carry the family.
LEMMA ShownFits ==
    ASSUME NEW s, NEW g, NEW f, Fits(s.fib[f], f), GroupRoute(s, g, f) # {}
    PROVE  f \in conf.capable[g]
  BY DEF Fits, GroupRoute, GroupDefaultRoute, Winners

\* So can one that has a next hop.
LEMMA HopFits ==
    ASSUME NEW s, NEW g, NEW f, Fits(s.fib[f], f), HopsKnown, HasHop(s, g, f)
    PROVE  f \in conf.capable[g]
  <1>1. CASE GroupRoute(s, g, f) # {}
    BY <1>1, ShownFits
  <1>2. CASE <<g, f>> \in rt
    BY <1>2 DEF HopsKnown
  <1>3. QED
    BY <1>1, <1>2 DEF HasHop

\* A write for an exit that can carry the family fits.
LEMMA WriteFits ==
    ASSUME NEW table, NEW f, NEW h, NEW m, NEW t \in ReplaceSlot(table, h, m),
           Fits(table, f), f \in conf.capable[h]
    PROVE  Fits(t, f)
  BY DEF Fits, ReplaceSlot, RouteOf

LEMMA EffortFits ==
    ASSUME NEW table, NEW f, NEW h, NEW m, NEW t \in BestEffort(table, h, f, m),
           Fits(table, f), f \in conf.capable[h]
    PROVE  Fits(t, f)
  BY WriteFits DEF BestEffort

\* What commit_family writes fits.
LEMMA CommitFits ==
    ASSUME NEW s, NEW g, NEW f, NEW t \in CommitTables(s, f, g),
           Fits(fib[f], f), Fits(s.fib[f], f), HopsKnown
    PROVE  Fits(t, f)
  <1>1. CASE t = fib[f]
    BY <1>1
  <1>2. CASE ~(t = fib[f])
    <2>1. PICK p \in ReplaceSlot(fib[f], g, ActiveMetric) :
                \/ /\ t \in BestEffort(p, Other(g), f, StandbyMetric)
                   /\ GroupRoute(s, Other(g), f) # {}
                \/ t = p
      BY <1>2 DEF CommitTables
    <2>2. HasHop(s, g, f)
      BY <1>2 DEF CommitTables
    <2>3. Fits(p, f)
      BY <2>1, <2>2, HopFits, WriteFits
    <2>4. CASE t = p
      BY <2>3, <2>4
    <2>5. CASE /\ t \in BestEffort(p, Other(g), f, StandbyMetric)
               /\ GroupRoute(s, Other(g), f) # {}
      BY <2>3, <2>5, ShownFits, EffortFits
    <2>6. QED
      BY <2>1, <2>4, <2>5
  <1>3. QED
    BY <1>1, <1>2

\* So does what warming writes, and it learns no new next hop.
LEMMA WarmFits ==
    ASSUME NetworkType, NetworkConsistent, NEW s, NEW g \in Group,
           WarmGroupRoute(s, g)
    PROVE  /\ \A f \in Family : Fits(fib'[f], f)
           /\ rt' = rt
  <1>1. PICK t4 \in WarmTables(s, g, "v4"), t6 \in WarmTables(s, g, "v6") :
            fib' = [f \in Family |-> IF f = "v4" THEN t4 ELSE t6]
    BY DEF WarmGroupRoute
  <1>2. \A f \in Family : fib'[f] \in WarmTables(s, g, f)
    BY <1>1 DEF Family
  <1>3. ASSUME NEW f \in Family PROVE Fits(fib'[f], f)
    <2>1. CASE fib'[f] = fib[f]
      BY <2>1 DEF NetworkConsistent
    <2>2. CASE ~(fib'[f] = fib[f])
      <3>1. /\ fib'[f] \in BestEffort(fib[f], g, f, StandbyMetric)
            /\ Warmable(s, g, f)
        BY <1>2, <2>2 DEF WarmTables
      <3>2. f \in conf.capable[g] /\ Fits(fib[f], f)
        BY <3>1 DEF Warmable, Capable, NetworkConsistent
      <3>3. QED
        BY <3>1, <3>2, EffortFits
    <2>3. QED
      BY <2>1, <2>2
  <1>4. rt' = rt
    <2>1. rt' = rt \cup {<<g, f>> : f \in
                        {f \in conf.capable[g] \cap conf.gateway[g] :
                            GroupRoute(s, g, f) # {}}}
      BY DEF WarmGroupRoute
    <2>2. conf.capable[g] \cap conf.gateway[g] \subseteq Family
      BY DEF NetworkType, Config
    <2>3. \A f \in conf.capable[g] \cap conf.gateway[g] : <<g, f>> \in rt
      BY <2>2 DEF NetworkConsistent, HopsKnown, Hop
    <2>4. QED
      BY <2>1, <2>3
  <1>5. QED
    BY <1>3, <1>4

\* netifd and the kernel keep it so.
LEMMA OutsideFits ==
    ASSUME NetworkType, NetworkConsistent, UNCHANGED <<conf, rt>>,
           NEW g \in Group, NEW f \in Family,
           \/ LoseLink(g)
           \/ RaiseSection(g, f)
           \/ WithdrawRoute(g, f)
    PROVE  NetworkConsistent'
  <1>1. HopsKnown'
    BY DEF NetworkConsistent, HopsKnown
  <1>2. CASE LoseLink(g)
    BY <1>1, <1>2 DEF LoseLink, NetworkConsistent, NetworkType, Fits
  <1>3. CASE RaiseSection(g, f)
    <2>1. \A h \in Group : addr'[h] # {} => link'[h]
      BY <1>3 DEF RaiseSection, NetworkConsistent, NetworkType
    <2>2. ASSUME NEW h \in Family, NEW r \in fib'[h]
          PROVE  h \in conf.capable[r.grp] /\ (h = "v4" => ~r.src)
      <3>0. plan[g][f] \in SectionPlan
        BY DEF NetworkType
      <3>1. \/ fib' = fib
            \/ fib' = [fib EXCEPT ![f] =
                         @ \cup {NetifdRoute(g, f, plan[g][f].metric)}]
        BY <1>3 DEF RaiseSection
      <3>2. f \in conf.capable[g]
        BY <1>3 DEF RaiseSection, Capable
      <3>3. r \in fib[h] \/ (h = f /\ r.grp = g /\ (f = "v4" => ~r.src))
        BY <3>0, <3>1, SlotMetrics, NetifdRouteType
           DEF NetworkType, Tables, SectionPlan
      <3>4. QED
        BY <3>2, <3>3 DEF NetworkConsistent, Fits
    <2>3. QED
      BY <1>1, <2>1, <2>2 DEF NetworkConsistent, Fits
  <1>4. CASE WithdrawRoute(g, f)
    BY <1>1, <1>4 DEF WithdrawRoute, NetworkConsistent, NetworkType, Tables, Fits
  <1>5. QED
    BY <1>2, <1>3, <1>4

\* It is so at rest.
LEMMA AtRestConsistent ==
    ASSUME NEW C \in SUBSET Config, NEW m \in Mode,
           NEW F \in SUBSET SUBSET Unrestricted, AtRest(C, m, F)
    PROVE  NetworkConsistent
  <1>1. NetworkType
    BY AtRestType DEF Unrestricted
  <1>2. \A f \in Family : Fits(fib[f], f)
    <2> SUFFICES ASSUME NEW f \in Family, NEW r \in fib[f]
                 PROVE  f \in conf.capable[r.grp] /\ (f = "v4" => ~r.src)
      BY DEF Fits
    <2>1. r.grp \in Group
      BY <1>1, MetricsAreNumbers DEF NetworkType, Tables
    <2>2. f \in conf.capable[r.grp]
      BY <2>1 DEF AtRest
    <2>3. f = "v4" => ~r.src
      <3>1. PICK active \in Group, foreign \in F : \E rest \in RestTables(active) :
                fib["v4"] = rest["v4"] \cup foreign
        BY DEF AtRest, Family
      <3>2. QED
        BY <3>1 DEF RestTables, RouteOf, Unrestricted, Family
    <2>4. QED
      BY <2>2, <2>3
  <1>3. HopsKnown
    BY DEF AtRest, HopsKnown
  <1>4. \A g \in Group : addr[g] # {} => link[g]
    BY DEF AtRest
  <1>5. QED
    BY <1>2, <1>3, <1>4 DEF NetworkConsistent
=============================================================================
