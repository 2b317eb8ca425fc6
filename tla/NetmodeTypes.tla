---------------------------- MODULE NetmodeTypes ----------------------------
(***************************************************************************)
(* The vocabulary every component shares: the two exit groups, the two     *)
(* address families, the four exit policies, and the metric and            *)
(* defaultroute values a policy assigns to a group's interface sections.   *)
(***************************************************************************)
EXTENDS Naturals

Group  == {"wan", "modem"}
Family == {"v4", "v6"}
Mode   == {"wan_first", "modem_first", "wan_only", "modem_only"}

Other(g) == IF g = "wan" THEN "modem" ELSE "wan"

PrimaryGroup(mode) ==
    IF mode \in {"wan_first", "wan_only"} THEN "wan" ELSE "modem"

IsOnly(mode) == mode \in {"wan_only", "modem_only"}

\* The metric of the slot the kernel uses, and of the warm standby slot.
ActiveMetric  == 10
StandbyMetric == 50

PolicyMetric(mode, g) ==
    IF PrimaryGroup(mode) = g THEN ActiveMetric ELSE StandbyMetric

\* 1: netifd may install a default route for the section, 0: it may not.
PolicyDefaultRoute(mode, g) ==
    IF IsOnly(mode) /\ PrimaryGroup(mode) # g THEN 0 ELSE 1

=============================================================================
