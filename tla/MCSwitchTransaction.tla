------------------------- MODULE MCSwitchTransaction ------------------------
(***************************************************************************)
(* Instances of SwitchTransaction for TLC.                                 *)
(***************************************************************************)
EXTENDS SwitchTransaction

Deployment(strict, gw, modemFamilies, modemHops) ==
    [strict |-> strict, gwRequired |-> gw,
     capable |-> [g \in Group |-> IF g = "wan" THEN Family ELSE modemFamilies],
     gateway |-> [g \in Group |-> IF g = "wan" THEN Family ELSE modemHops],
     sourced |-> {}]

\* Both exits carry both families and have next hops.
DualStack == {Deployment(s, s, Family, Family) : s \in BOOLEAN}

\* netifd restricts the IPv6 default of the wired exit to its prefix, and the
\* modem carries both families or IPv4 only.
SourcedWan ==
    {[Deployment(TRUE, F = Family, F, F) EXCEPT !.sourced = {"wan"}] :
        F \in {Family, {"v4"}}}

\* The modem carries IPv4 only.
SingleStackModem == {Deployment(FALSE, FALSE, {"v4"}, {"v4"})}

\* One of the modem's routes is scoped to the device: it has no next hop.
ScopedModem == {Deployment(TRUE, FALSE, Family, {f}) : f \in Family}

StrictDualStack == {d \in DualStack : d.strict}

AllDeployments ==
    (DualStack \ StrictDualStack) \cup SourcedWan \cup SingleStackModem
    \cup ScopedModem

WanFirst  == {"wan_first"}
NoForeign == {{}}
\* The modem's own static default route, which the program does not manage.
ModemForeign == {{}, {RouteOf("modem", 30)}}
=============================================================================
