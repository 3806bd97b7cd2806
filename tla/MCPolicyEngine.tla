-------------------------- MODULE MCPolicyEngine --------------------------
(* A site, a name below it and their "www." forms; two devices; schedules  *)
(* that cross midnight and the end of the week, and two that meet.         *)
EXTENDS PolicyEngine, TLC

CONSTANTS d1, d2

Site == <<"x">>
Www == <<"www">>

MCRuleName == {Site, Www \o Site, Www \o Www \o Site, <<"*">> \o Site}
MCQueryName == {Site, <<"a">> \o Site, Www \o Site}
MCDevice == {d1, d2}

Block(days, start, end, device) ==
  [domain |-> Site, action |-> "block", days |-> days, start |-> start,
   end |-> end, device |-> device]

SaturdayNight == Block({6}, 2, 1, Network)
SundayNoon == Block({0}, 1, 2, Network)
SundayFree == [domain |-> <<"*">> \o Site, action |-> "allow", days |-> {0},
               start |-> 1, end |-> 1, device |-> d1]

MCPlan == {SaturdayNight, SundayNoon, SundayFree}

File(plans) ==
  [New EXCEPT !.schedules =
     [i \in DOMAIN plans |-> [id |-> i, enabled |-> TRUE] @@ plans[i]]]

MCFirstFile ==
  {NoFile, File(<<SundayNoon, SaturdayNight>>), File(<<SundayFree, SaturdayNight>>),
   [File(<<SundayNoon>>) EXCEPT !.emergency = TRUE],
   [File(<<>>) EXCEPT !.temporary = {Site}, !.deny[Network] = {Site}]}
MCLegacyAllow == {Site}
MCLegacyDeny == {Www \o Site}
=============================================================================
