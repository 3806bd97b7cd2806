------------------------- MODULE ResolverSupervisor -------------------------
(***************************************************************************)
(* The task of crates/daemon/src/main.rs that runs Unbound, with           *)
(* UnboundManager::start (crates/resolver/src/lib.rs), beside the handler  *)
(* that saves upstream.json. It reads the file twice before Unbound runs:  *)
(* once to have something to compare with, once for Unbound's own file.    *)
(***************************************************************************)
EXTENDS Settings

CONSTANTS
  NoChild,
  MaxFaults  \* bound: starts that fail and exits of Unbound

ASSUME ChildAssumption == NoChild \notin Setting /\ MaxFaults \in Nat

VARIABLES
  task,      \* "load", "start", "watch" or "pause"
  initial,   \* the setting when the task last came round
  child,     \* the setting Unbound runs with, or NoChild
  faults,
  crossed    \* history: upstream.json was saved while Unbound was starting

supervisorVars == <<settingVars, task, initial, child, faults, crossed>>

SupervisorTypeOK ==
  /\ SettingTypeOK
  /\ task \in {"load", "start", "watch", "pause"}
  /\ initial \in Setting /\ child \in Setting \cup {NoChild}
  /\ faults \in 0..MaxFaults /\ crossed \in BOOLEAN

SupervisorInit ==
  /\ SettingInit
  /\ task = "load" /\ initial = Default /\ child = NoChild
  /\ faults = 0 /\ crossed = FALSE

-----------------------------------------------------------------------------
LoadInitial ==
  /\ kind = "upstream" /\ task = "load"
  /\ initial' = Loaded(file) /\ crossed' = FALSE
  /\ task' = "start"
  /\ UNCHANGED <<settingVars, child, faults>>

(* The second reading; an invalid file means local recursion, as there.    *)
Spawn ==
  /\ task = "start"
  /\ child' = Loaded(file)
  /\ task' = "watch"
  /\ UNCHANGED <<settingVars, initial, faults, crossed>>

(* No trust anchor, no configuration written, or nothing spawned.          *)
StartFails ==
  /\ task = "start" /\ faults < MaxFaults /\ faults' = faults + 1
  /\ task' = "pause"
  /\ UNCHANGED <<settingVars, initial, child, crossed>>

UnboundExits ==
  /\ task = "watch" /\ faults < MaxFaults /\ faults' = faults + 1
  /\ child' = NoChild /\ task' = "pause"
  /\ UNCHANGED <<settingVars, initial, crossed>>

(* Every two seconds; a file that cannot be loaded changes nothing.        *)
(* Seeded defect: the file is compared with what Unbound runs as far as it   *)
(* has been enabled, so that switching forwarding off goes unnoticed.          *)
PollEnabledOnly ==
  /\ task = "watch" /\ Bad \notin file.entries
  /\ file.entries # {} /\ file # initial
  /\ child' = NoChild /\ task' = "pause"
  /\ UNCHANGED <<settingVars, initial, faults, crossed>>

Poll ==
  /\ task = "watch" /\ Bad \notin file.entries /\ file # initial
  /\ child' = NoChild /\ task' = "pause"
  /\ UNCHANGED <<settingVars, initial, faults, crossed>>

Paused ==
  /\ task = "pause" /\ task' = "load"
  /\ UNCHANGED <<settingVars, initial, child, faults, crossed>>

(* A save beside the supervisor, and a restart of both.                    *)
Save ==
  /\ SettingStep
  /\ crossed' = (crossed \/ (task = "start" /\ file' # file))
  /\ UNCHANGED <<task, initial, child, faults>>

Restart ==
  /\ Reboot
  /\ task' = "load" /\ child' = NoChild /\ crossed' = FALSE
  /\ UNCHANGED <<initial, faults>>

SupervisorNext ==
  \/ LoadInitial \/ Spawn \/ StartFails \/ UnboundExits \/ Poll \/ Paused
  \/ Save \/ Restart

(* The task runs on, whatever becomes of Unbound: timers fire, start()     *)
(* ends, with or without a child.                                          *)
SupervisorFairness ==
  /\ WF_supervisorVars(LoadInitial)
  /\ WF_supervisorVars(Spawn \/ StartFails)
  /\ WF_supervisorVars(Poll)
  /\ WF_supervisorVars(Paused)

SupervisorSpec ==
  SupervisorInit /\ [][SupervisorNext]_supervisorVars /\ SupervisorFairness

-----------------------------------------------------------------------------
(* "Saved. Validating resolver will restart": the resolver comes to run    *)
(* the setting that was saved, through exits, failed starts and restarts,  *)
(* unless a later save replaces it. Not promised of a setting saved while  *)
(* Unbound was starting: see README for what can happen then.              *)
ResolverCatchesUp ==
  \A entries \in SUBSET Entry :
    LET s == [entries |-> entries, token |-> NoToken]
    IN  (kind = "upstream" /\ Loaded(file) = s)
          ~> (child = s \/ Loaded(file) # s \/ crossed)
=============================================================================
