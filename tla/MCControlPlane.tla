---------------------------- MODULE MCControlPlane ---------------------------
(* Six parts that share no state, each on an instance of its own: `scene`*)
(* says whose behaviour is followed, and the others stay as they began.    *)
EXTENDS AtomicFile, ResolverSupervisor, ActionStore, ActionRun, FastFlux,
        OpenRoot, TLC

VARIABLE scene

MCNet == [a \in Address |-> IF a = 3 THEN "m" ELSE "n"]
MCResolved == {<<1>>, <<1, 3>>}

MCBelow == {<<"nas.lan", "lan">>}
MCCanonical == "NAS" :> "nas.lan" @@ "nas" :> "nas.lan" @@ "com" :> "example.com"
MCWritten ==
  {<<>>, "nas" :> "1", "nas" :> "1" @@ "NAS" :> "2", "nas" :> "no address",
   "nas" :> "2" @@ "com" :> "1"}

others(acting) ==
  /\ scene = acting /\ UNCHANGED scene
  /\ acting # "files" => UNCHANGED fileVars
  /\ acting # "settings" => UNCHANGED supervisorVars
  /\ acting # "actions" => UNCHANGED actionVars
  /\ acting # "runs" => UNCHANGED runVars
  /\ acting # "flux" => UNCHANGED fluxVars
  /\ acting # "zones" => UNCHANGED zoneVars

MCInit ==
  /\ scene \in {"files", "settings", "actions", "runs", "flux", "zones"}
  /\ FileInit /\ SupervisorInit /\ ActionInit /\ RunInit /\ FluxInit /\ ZoneInit
  /\ scene # "settings" => kind = "privacy" /\ file = Default
  /\ scene # "zones" => zoneFile = NoFile

MCNext ==
  \/ FileNext /\ others("files")
  \/ SupervisorNext /\ others("settings")
  \/ ActionNext /\ others("actions")
  \/ RunNext /\ others("runs")
  \/ FluxNext /\ others("flux")
  \/ ZoneNext /\ others("zones")

mcVars ==
  <<scene, fileVars, supervisorVars, actionVars, runVars, fluxVars, zoneVars>>

(* SupervisorFairness and ZoneFairness, each in its scene.                 *)
MCFairness ==
  /\ WF_mcVars(LoadInitial /\ others("settings"))
  /\ WF_mcVars((Spawn \/ StartFails) /\ others("settings"))
  /\ WF_mcVars(Poll /\ others("settings"))
  /\ WF_mcVars(Paused /\ others("settings"))
  /\ WF_mcVars(LoadZones /\ others("zones"))
  /\ WF_mcVars(Bind /\ others("zones"))
  /\ WF_mcVars(ReadFile /\ others("zones"))
  /\ WF_mcVars(Apply /\ others("zones"))

MCSpec == MCInit /\ [][MCNext]_mcVars /\ MCFairness
=============================================================================
