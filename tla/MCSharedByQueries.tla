-------------------------- MODULE MCSharedByQueries --------------------------
(* What queries share besides the stores, side by side: the sockets of an  *)
(* upstream, and the permits and the cache of the alerts they raise.       *)
(* `scene` says which of the two is followed; the other rests.             *)
(*                                                                         *)
(* Three calls on two slots, so that the first slot is reused; two IDs and *)
(* two questions, so that IDs collide with and without equal questions.    *)
(* Three queries that end at the same time for two permits; two alerts for *)
(* a cache with room for one.                                              *)
EXTENDS UpstreamExchange, TelegramAlerts, TLC

VARIABLE scene

Symmetries == Permutations(Call) \cup Permutations(Caller)

MCInit ==
  scene \in {"sockets", "alerts"} /\ Init /\ AlertInit

MCNext ==
  \/ scene = "sockets" /\ Next /\ UNCHANGED <<scene, alertVars>>
  \/ scene = "alerts" /\ AlertNext /\ UNCHANGED <<scene, vars>>

MCSpec == MCInit /\ [][MCNext]_<<scene, vars, alertVars>>
=============================================================================
