--------------------------------- MODULE Fib --------------------------------
(***************************************************************************)
(* The default routes of one address family, as a set of routes.  A route  *)
(* is reduced to the exit group its device belongs to, its metric and      *)
(* whether it is restricted to a source prefix (IPv6 only); the next hop   *)
(* and the device are functions of the group.  Tunnel devices that belong  *)
(* to no group are not represented.                                        *)
(***************************************************************************)
EXTENDS NetmodeTypes, FiniteSets

CONSTANT ForeignMetrics    \* metrics of default routes the program never writes

ASSUME ForeignMetricsAssumption == ForeignMetrics \subseteq Nat

Metric == ForeignMetrics \cup {ActiveMetric, StandbyMetric}
Route  == [grp : Group, metric : Metric, src : BOOLEAN]

\* The routes IPv4 has: none names a source prefix.
Unrestricted == {r \in Route : ~r.src}

\* A route as the program writes it.
RouteOf(g, m) == [grp |-> g, metric |-> m, src |-> FALSE]

\* The routes a write of the slot can meet: the netlink message names no source
\* prefix, and the kernel keeps the restricted routes apart.
Slot(table, m) == {r \in table : r.metric = m /\ ~r.src}

\* A restricted route loses against an unrestricted one of its metric.
Rank(r) == 2 * r.metric + (IF r.src THEN 1 ELSE 0)

\* winning_default: the routes ordinary traffic may use.  Among equals it is the
\* first in table order, which the program does not control: any of them.
Winners(table) == {r \in table : \A s \in table : Rank(r) <= Rank(s)}

Owners(table) ==
    IF table = {} THEN {"none"} ELSE {r.grp : r \in Winners(table)}

\* The routes of w's metric and class, itself included.
EqualMetricCount(table, w) ==
    Cardinality({r \in table : r.metric = w.metric /\ r.src = w.src})

\* The group's own default route: its lowest-metric unrestricted one, else its
\* lowest-metric one ({} when it has none).
GroupDefaultRoute(table, g) ==
    LET own  == {r \in table : r.grp = g}
        open == {r \in own : ~r.src}
    IN  Winners(IF open # {} THEN open ELSE own)

\* Mutants of ReplaceSlot: the metric is one too high; the occupant is deleted
\* and the new route lost.
ReplaceSlotOffByOne(table, g, m) ==
    {(table \ Slot(table, m)) \cup {RouteOf(g, m + 1)}}

ReplaceSlotDeletes(table, g, m) ==
    IF Slot(table, m) = {} THEN {table \cup {RouteOf(g, m)}}
    ELSE {table \ Slot(table, m)}

\* NLM_F_CREATE | NLM_F_REPLACE is keyed on the metric, not on the device: it
\* overwrites whatever occupies the slot, and creates the route if nothing does.
ReplaceSlot(table, g, m) ==
    LET new == RouteOf(g, m) IN
    IF Slot(table, m) = {} \/ new \in table
    THEN {table \cup {new}}
    ELSE {(table \ {old}) \cup {new} : old \in Slot(table, m)}

\* A deletion does not meet a restricted route either.
RouteDel(table, routes) == table \ {r \in routes : ~r.src}

=============================================================================
