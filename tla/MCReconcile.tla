----------------------------- MODULE MCReconcile ----------------------------
(***************************************************************************)
(* Instances of Reconcile for TLC.                                         *)
(***************************************************************************)
EXTENDS Reconcile

Deployment(strict, modemFamilies) ==
    [strict |-> strict, gwRequired |-> FALSE,
     capable |-> [g \in Group |-> IF g = "wan" THEN Family ELSE modemFamilies],
     gateway |-> [g \in Group |-> IF g = "wan" THEN Family ELSE modemFamilies],
     sourced |-> {}]

StrictDualStack == {Deployment(TRUE, Family)}
LooseDualStack  == {Deployment(FALSE, Family)}
SingleStackModem == {Deployment(s, {"v4"}) : s \in BOOLEAN}
\* netifd restricts the IPv6 default of the wired exit to its prefix.
SourcedWan == {[d EXCEPT !.sourced = {"wan"}] : d \in StrictDualStack}
AllDeployments ==
    SourcedWan \cup LooseDualStack \cup SingleStackModem

IPv4Only ==
    {[strict |-> FALSE, gwRequired |-> FALSE,
      capable |-> [g \in Group |-> {"v4"}], gateway |-> [g \in Group |-> {"v4"}],
      sourced |-> {}]}

\* No exit reaches out over IPv6 alone.
IPv4Leads == {{}, {"v4"}, Family}

WanFirst == {"wan_first"}
=============================================================================
