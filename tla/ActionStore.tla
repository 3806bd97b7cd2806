----------------------------- MODULE ActionStore -----------------------------
(***************************************************************************)
(* One action domain: its row in SQLite, the set of action domains that    *)
(* DNS answers are decided by, the cache of actions, and the requests that *)
(* run the action (crates/daemon/src/actions.rs; start_action_server,      *)
(* action_admission, post_action and delete_action of web.rs; the queries  *)
(* of crates/analytics). Handlers run on several threads, so that their    *)
(* steps interleave where they do not wait as well.                        *)
(***************************************************************************)
EXTENDS Integers

CONSTANTS
  Request,      \* permits of action_admission (32)
  Editor,       \* dashboard requests at the same time
  TTL,          \* of the cache, in ticks (30 s)
  Deadline,     \* of a request (20 s)
  MaxEdits,     \* bound: saves of a behaviour
  MaxRestarts,  \* bound: restarts of the process
  LastTick      \* bound: of the clock

ASSUME ActionAssumption ==
  /\ TTL \in Nat \ {0} /\ Deadline \in Nat \ {0}
  /\ MaxEdits \in Nat /\ MaxRestarts \in Nat /\ LastTick \in Nat

VARIABLES
  clock,
  row,      \* version of the row, or None
  listed,   \* the domain is in ActionDomains
  cache,    \* what the cache holds, and since when
  edits,    \* versions so far
  editor,   \* per editor: what it still has to do, and to list or unlist
  request,  \* per permit: where its request is, since when, with what
  restarts,
  retired,  \* history: when each version ceased to be the row
  lastRun   \* history: latest arrival of those that ran a retired version

actionVars == <<clock, row, listed, cache, edits, editor, request, restarts,
                retired, lastRun>>

None == 0
Never == LastTick + 1
Version == 1..MaxEdits

Quiet == [pc |-> "idle", list |-> FALSE]
NoRequest == [pc |-> "idle", at |-> 0, v |-> None]
Empty == [full |-> FALSE, v |-> None, at |-> 0]

ActionTypeOK ==
  /\ clock \in 0..LastTick /\ row \in 0..edits /\ listed \in BOOLEAN
  /\ cache \in [full : BOOLEAN, v : 0..edits, at : 0..clock]
  /\ edits \in 0..MaxEdits
  /\ editor \in [Editor -> [pc : {"idle", "invalidate", "list"}, list : BOOLEAN]]
  /\ request \in [Request -> [pc : {"idle", "lookup", "read", "insert", "found", "run"},
                              at : 0..clock, v : 0..edits]]
  /\ restarts \in 0..MaxRestarts
  /\ retired \in [Version -> 0..Never]
  /\ lastRun \in [Version -> -1..clock]

ActionInit ==
  /\ clock = 0 /\ row = None /\ listed = FALSE /\ cache = Empty /\ edits = 0
  /\ editor = [e \in Editor |-> Quiet]
  /\ request = [r \in Request |-> NoRequest]
  /\ restarts = 0
  /\ retired = [v \in Version |-> Never] /\ lastRun = [v \in Version |-> -1]

-----------------------------------------------------------------------------
(* post_action and delete_action: the row first; a failure ends them there.*)
Replace(e, new, list) ==
  /\ editor[e].pc = "idle"
  /\ row' = new
  /\ retired' = [v \in Version |-> IF v = row THEN clock ELSE retired[v]]
  /\ editor' = [editor EXCEPT ![e] = [pc |-> "invalidate", list |-> list]]
  /\ UNCHANGED <<clock, listed, cache, request, restarts, lastRun>>

PostAction(e) ==
  edits < MaxEdits /\ edits' = edits + 1 /\ Replace(e, edits + 1, TRUE)

DeleteAction(e) ==
  UNCHANGED edits /\ Replace(e, None, FALSE)

Invalidate(e) ==
  /\ editor[e].pc = "invalidate"
  /\ cache' = Empty
  /\ editor' = [editor EXCEPT ![e].pc = "list"]
  /\ UNCHANGED <<clock, row, listed, edits, request, restarts, retired, lastRun>>

List(e) ==
  /\ editor[e].pc = "list"
  /\ listed' = editor[e].list
  /\ editor' = [editor EXCEPT ![e] = Quiet]
  /\ UNCHANGED <<clock, row, cache, edits, request, restarts, retired, lastRun>>

-----------------------------------------------------------------------------
(* A request for the domain, from its admission on.                        *)
RequestAt(r, pc) == request[r].pc = pc
GoOn(r, pc, v) == request' = [request EXCEPT ![r] = [@ EXCEPT !.pc = pc, !.v = v]]

Admit(r) ==
  /\ RequestAt(r, "idle")
  /\ request' = [request EXCEPT ![r] = [pc |-> "lookup", at |-> clock, v |-> None]]
  /\ UNCHANGED <<clock, row, listed, cache, edits, editor, restarts, retired, lastRun>>

Live == cache.full /\ clock - cache.at < TTL

(* Seeded defect: time_to_idle instead of time_to_live; a look restarts it.  *)
LookupIdle(r) ==
  /\ RequestAt(r, "lookup")
  /\ IF Live THEN GoOn(r, "found", cache.v) /\ cache' = [cache EXCEPT !.at = clock]
             ELSE GoOn(r, "read", None) /\ UNCHANGED cache
  /\ UNCHANGED <<clock, row, listed, edits, editor, restarts, retired, lastRun>>

Lookup(r) ==
  /\ RequestAt(r, "lookup")
  /\ IF Live THEN GoOn(r, "found", cache.v) ELSE GoOn(r, "read", None)
  /\ UNCHANGED <<clock, row, listed, cache, edits, editor, restarts, retired, lastRun>>

(* get_action on a blocking thread, which the request waits for.           *)
Read(r) ==
  /\ RequestAt(r, "read")
  /\ GoOn(r, "insert", row)
  /\ UNCHANGED <<clock, row, listed, cache, edits, editor, restarts, retired, lastRun>>

Fill(r) ==
  /\ RequestAt(r, "insert")
  /\ cache' = [full |-> TRUE, v |-> request[r].v, at |-> clock]
  /\ GoOn(r, "found", request[r].v)
  /\ UNCHANGED <<clock, row, listed, edits, editor, restarts, retired, lastRun>>

(* The cache holds a thousand domains; others take the place.              *)
EvictAction ==
  /\ cache.full /\ cache' = Empty
  /\ UNCHANGED <<clock, row, listed, edits, editor, request, restarts, retired, lastRun>>

(* The token is right and one of the execution permits is free; when none  *)
(* is, the request leaves.                                                 *)
Run(r) ==
  /\ RequestAt(r, "found") /\ request[r].v # None
  /\ lastRun' = [lastRun EXCEPT ![request[r].v] =
                   IF retired[request[r].v] # Never /\ @ < request[r].at
                   THEN request[r].at ELSE @]
  /\ GoOn(r, "run", request[r].v)
  /\ UNCHANGED <<clock, row, listed, cache, edits, editor, restarts, retired>>

(* Answered: not found, not authorised, too many, done or failed; or the   *)
(* deadline has passed, wherever the request is, or its client has gone.   *)
Leave(r) ==
  /\ ~RequestAt(r, "idle")
  /\ request' = [request EXCEPT ![r] = NoRequest]
  /\ UNCHANGED <<clock, row, listed, cache, edits, editor, restarts, retired, lastRun>>

(* The deadline is polled with the request: none outlives it by a tick.    *)
ActionTick ==
  /\ clock < LastTick /\ clock' = clock + 1
  /\ \A r \in Request : ~RequestAt(r, "idle") => clock - request[r].at < Deadline
  /\ UNCHANGED <<row, listed, cache, edits, editor, request, restarts, retired, lastRun>>

ActionRestart ==
  /\ restarts < MaxRestarts /\ restarts' = restarts + 1
  /\ listed' = (row # None) /\ cache' = Empty
  /\ editor' = [e \in Editor |-> Quiet]
  /\ request' = [r \in Request |-> NoRequest]
  /\ UNCHANGED <<clock, row, edits, retired, lastRun>>

ActionNext ==
  \/ \E e \in Editor : PostAction(e) \/ DeleteAction(e) \/ Invalidate(e) \/ List(e)
  \/ \E r \in Request :
       Admit(r) \/ Lookup(r) \/ Read(r) \/ Fill(r) \/ Run(r) \/ Leave(r)
  \/ EvictAction \/ ActionTick \/ ActionRestart

ActionSpec == ActionInit /\ [][ActionNext]_actionVars

-----------------------------------------------------------------------------
(* An action that was replaced or deleted is not run by a request that     *)
(* arrives later than the cache and a request that was under way can       *)
(* account for, though a reading from before the edit may be put into the  *)
(* cache after the edit has emptied it.                                    *)
ReplacedActionsExpire ==
  \A v \in Version : retired[v] # Never => lastRun[v] < retired[v] + Deadline + TTL
=============================================================================
