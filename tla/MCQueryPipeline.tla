-------------------------- MODULE MCQueryPipeline --------------------------
(* A small instance of QueryPipeline: one external name with an alias and  *)
(* one local name with an action.                                          *)
EXTENDS QueryPipeline

CONSTANTS c1, site, alias, zone

MCClient == {c1}
MCDomain == {site, alias, zone}
MCAlias == {alias}
MCLocal == {zone}
MCSafeSearch == {site}
MCTypo == {}
MCTracking == {alias}
MCHighRisk == {alias}
=============================================================================
