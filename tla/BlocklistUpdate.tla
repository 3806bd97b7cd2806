--------------------------- MODULE BlocklistUpdate ---------------------------
(***************************************************************************)
(* How the blocklist snapshot is replaced: the refresher of main.rs, the   *)
(* dashboard handlers post_blocklist and delete_blocklist of web.rs, and   *)
(* BlocklistManager::download_lists, which both of them run under          *)
(* UPDATE_LOCK.  A publication is written to disk by a blocking task and   *)
(* then put in memory, where DNS queries read it; the handler that awaits  *)
(* the blocking task may be gone (170 s deadline, closed connection) by    *)
(* the time the task writes.                                               *)
(*                                                                         *)
(* A list is its source; a snapshot says which lists are enabled, which    *)
(* local files are marked disabled, and for which lists it holds rules.    *)
(***************************************************************************)
EXTENDS Sequences, SequencesExt, FiniteSets

CONSTANTS Remote,      \* https sources an administrator may add
          Local,       \* *.txt files that may lie in the blocklists directory
          Handler,     \* concurrent dashboard requests
          Refresher    \* the background task of main.rs

ASSUME SourcesAssumption == Remote \cap Local = {}
ASSUME TaskAssumption == Refresher \notin Handler

Source == Remote \cup Local
Task == Handler \cup {Refresher}

VARIABLES
  folder,     \* local files now in the blocklists directory
  disk,       \* blocklist-snapshot.json
  memory,     \* the BlocklistManager that DNS queries read
  queue,      \* UPDATE_LOCK, first come first served: the head holds it
  pc,         \* where each task is
  request,    \* what each handler was asked
  draft,      \* the snapshot a task is preparing, or has handed to be written
  told,       \* what the last answer about each source let its reader conclude
  stray       \* the last write to disk was never put in memory

vars == <<folder, disk, memory, queue, pc, request, draft, told, stray>>

Snapshot == [enabled : SUBSET Source, disabled : SUBSET Local,
             rules : SUBSET Source]
NoSnapshot == [enabled |-> {}, disabled |-> {}, rules |-> {}]

Requests == [kind : {"add"}, source : Remote]
              \cup [kind : {"delete"}, source : Source]
NoRequest == [kind |-> "none"]

\* Seeded defects: updates that do not take UPDATE_LOCK; a lock that wakes any waiter.
HoldsAnyway(t) == t \in ToSet(queue)
HoldsUnfairly(t) ==
  \A u \in Task : pc[u] \notin {"download", "write", "apply"}
Holds(t) == queue # <<>> /\ Head(queue) = t
Leave(t) ==
  IF t \in ToSet(queue)
  THEN RemoveAt(queue, CHOOSE i \in DOMAIN queue : queue[i] = t)
  ELSE queue

(***************************************************************************)
(* Answers.  "told" is the reader's knowledge: a source has just been      *)
(* reported present or absent, and nobody has asked for a change since.    *)
(***************************************************************************)
Asked(s) == {h \in Handler : /\ pc[h] \in {"wait", "download", "write", "apply"}
                             /\ request[h].source = s}

Status(snapshot, s) ==
  IF s \in snapshot.enabled THEN "present"
  ELSE IF s \in Local \ snapshot.disabled THEN "unknown" ELSE "absent"

\* Success says what was asked for is so; a refusal or a failure says that what
\* is in force stays so.
Done(t) == IF request[t].kind = "add" THEN "present" ELSE "absent"
Retained(t) == Status(memory, request[t].source)

Answered(t, answer(_)) ==
  IF t \in Handler /\ Asked(request[t].source) = {t}
  THEN [told EXCEPT ![request[t].source] = answer(t)]
  ELSE told

\* Task t is over: it leaves the lock (or its place in the line for it), and
\* of what it held only a write that goes on without it remains.
Ends(t, next) ==
  /\ pc' = [pc EXCEPT ![t] = next]
  /\ queue' = Leave(t)
  /\ request' = [request EXCEPT ![t] = NoRequest]
  /\ draft' = [draft EXCEPT ![t] = IF next = "orphan" THEN @ ELSE NoSnapshot]

(***************************************************************************)
(* The two ways in.                                                        *)
(***************************************************************************)
Request(h, r) ==
  /\ pc[h] = "idle"
  /\ request' = [request EXCEPT ![h] = r]
  /\ pc' = [pc EXCEPT ![h] = "wait"]
  /\ queue' = Append(queue, h)
  /\ told' = [told EXCEPT ![r.source] = "unknown"]
  /\ UNCHANGED <<folder, disk, memory, draft, stray>>

\* Boot, or six hours since the last round.
Refresh ==
  /\ pc[Refresher] = "idle"
  /\ pc' = [pc EXCEPT ![Refresher] = "wait"]
  /\ queue' = Append(queue, Refresher)
  /\ UNCHANGED <<folder, disk, memory, request, draft, told, stray>>

\* Five seconds in line: "Another blocklist update is already running".
LockTimeout(h) ==
  /\ pc[h] = "wait"
  /\ Ends(h, "idle")
  /\ UNCHANGED <<folder, disk, memory, told, stray>>

(***************************************************************************)
(* With the lock: the lists to publish are those in memory, edited; the    *)
(* directory scan adds files nobody has marked; the rules to fall back on  *)
(* are those on disk.                                                      *)
(***************************************************************************)
Scanned(lists) ==
  [lists EXCEPT !.enabled = @ \cup (folder \ lists.disabled)]

Prepared(lists) == [Scanned(lists) EXCEPT !.rules = disk.rules]

\* Seeded defect: a local file is forgotten, not marked, and the next scan re-adds it.
DeletedUnmarked(lists, s) == [lists EXCEPT !.enabled = @ \ {s}]
Deleted(lists, s) ==
  IF s \in Local
  THEN [lists EXCEPT !.enabled = @ \ {s}, !.disabled = @ \cup {s}]
  ELSE [lists EXCEPT !.enabled = @ \ {s}]

Edited(lists, r) ==
  CASE r.kind = "add" -> [lists EXCEPT !.enabled = @ \cup {r.source}]
    [] r.kind = "delete" -> Deleted(lists, r.source)
    [] r.kind = "none" -> lists

\* "Blocklist already exists" / "List not found".
Refusable(r) ==
  CASE r.kind = "add" -> r.source \in memory.enabled
    [] r.kind = "delete" -> r.source \notin memory.enabled \cup memory.disabled
    [] r.kind = "none" -> FALSE

Refuse(h) ==
  /\ pc[h] = "wait" /\ Holds(h)
  /\ Refusable(request[h])
  /\ Ends(h, "idle")
  /\ told' = Answered(h, Retained)
  /\ UNCHANGED <<folder, disk, memory, stray>>

Begin(t) ==
  /\ pc[t] = "wait" /\ Holds(t)
  /\ ~Refusable(request[t])
  /\ draft' = [draft EXCEPT ![t] = Prepared(Edited(memory, request[t]))]
  /\ pc' = [pc EXCEPT ![t] = "download"]
  /\ UNCHANGED <<folder, disk, memory, queue, request, told, stray>>

(***************************************************************************)
(* Every enabled list is fetched (usable) or falls back on the rules that  *)
(* were on disk; a list with neither fails the whole publication.          *)
(***************************************************************************)
Fetchable(t) == draft[t].enabled \cap (Remote \cup folder)

\* Each of them may turn out unreachable, too large, redirected or without rules.
Fetched(t) == SUBSET Fetchable(t)

\* Seeded defects: an unusable download erases the list's rules; a list with nothing
\* to fall back on is skipped instead of failing the publication.
CompiledFresh(snapshot, usable) == snapshot.enabled \cap usable
CompleteAnyway(snapshot, usable) == TRUE

\* The rules to publish when exactly the lists in usable could be fetched.
Compiled(snapshot, usable) == snapshot.enabled \cap (usable \cup snapshot.rules)

Complete(snapshot, usable) == snapshot.enabled \subseteq usable \cup snapshot.rules

Download(t) ==
  /\ pc[t] = "download"
  /\ \E usable \in Fetched(t) :
       /\ Complete(draft[t], usable)
       /\ draft' = [draft EXCEPT ![t].rules = Compiled(draft[t], usable)]
  /\ pc' = [pc EXCEPT ![t] = "write"]
  /\ UNCHANGED <<folder, disk, memory, queue, request, told, stray>>

\* "Existing protection retained", for a fetch, the directory or the write.
Fail(t) ==
  /\ pc[t] \in {"download", "write"}
  /\ Ends(t, "idle")
  /\ told' = Answered(t, Retained)
  /\ UNCHANGED <<folder, disk, memory, stray>>

(***************************************************************************)
(* The blocking write replaces the file whole, whether or not anybody      *)
(* still waits for it.                                                     *)
(***************************************************************************)
Write(t) ==
  /\ pc[t] = "write"
  /\ disk' = draft[t]
  /\ stray' = FALSE
  /\ pc' = [pc EXCEPT ![t] = "apply"]
  /\ UNCHANGED <<folder, memory, queue, request, draft, told>>

\* The file is in place but its directory cannot be synced: an error, although
\* the next start will load it.
WriteUnsynced(t) ==
  /\ pc[t] = "write"
  /\ disk' = draft[t]
  /\ stray' = TRUE
  /\ Ends(t, "idle")
  /\ told' = Answered(t, Retained)
  /\ UNCHANGED <<folder, memory>>

OrphanWrites(h) ==
  /\ pc[h] = "orphan"
  /\ disk' = draft[h]
  /\ stray' = TRUE
  /\ pc' = [pc EXCEPT ![h] = "idle"]
  /\ draft' = [draft EXCEPT ![h] = NoSnapshot]
  /\ UNCHANGED <<folder, memory, queue, request, told>>

OrphanFails(h) ==
  /\ pc[h] = "orphan"
  /\ pc' = [pc EXCEPT ![h] = "idle"]
  /\ draft' = [draft EXCEPT ![h] = NoSnapshot]
  /\ UNCHANGED <<folder, disk, memory, queue, request, told, stray>>

\* apply_update, the answer, and the release of the lock.
Apply(t) ==
  /\ pc[t] = "apply"
  /\ memory' = draft[t]
  /\ Ends(t, "idle")
  /\ told' = Answered(t, Done)
  /\ UNCHANGED <<folder, disk, stray>>

(***************************************************************************)
(* The handler's future is dropped, at its deadline (with an answer) or    *)
(* with its connection (without); a write it has started goes on.          *)
(***************************************************************************)
Abandoned(h) == IF pc[h] = "write" THEN "orphan" ELSE "idle"

DownloadTimeout(h) ==
  /\ pc[h] \in {"download", "write"}
  /\ Ends(h, Abandoned(h))
  /\ told' = Answered(h, Retained)
  /\ UNCHANGED <<folder, disk, memory, stray>>

Disconnect(h) ==
  /\ pc[h] \in {"wait", "download", "write", "apply"}
  /\ Ends(h, Abandoned(h))
  /\ stray' = (stray \/ pc[h] = "apply")
  /\ UNCHANGED <<folder, disk, memory, told>>

(***************************************************************************)
(* The process stops and starts again: new() loads the file.  Answers      *)
(* given before a stray write no longer bind what it loads.                *)
(***************************************************************************)
Restart ==
  /\ memory' = disk
  /\ queue' = <<>>
  /\ pc' = [t \in Task |-> "idle"]
  /\ stray' = FALSE
  /\ told' = IF stray THEN [s \in Source |-> "unknown"] ELSE told
  /\ request' = [t \in Task |-> NoRequest]
  /\ draft' = [t \in Task |-> NoSnapshot]
  /\ UNCHANGED <<folder, disk>>

\* The operator puts a file in the directory or takes one away.
ChangeFolder(f) ==
  /\ folder' = IF f \in folder THEN folder \ {f} ELSE folder \cup {f}
  /\ UNCHANGED <<disk, memory, queue, pc, request, draft, told, stray>>

Init ==
  /\ folder \in SUBSET Local
  /\ disk = NoSnapshot
  /\ memory = NoSnapshot
  /\ queue = <<>>
  /\ pc = [t \in Task |-> "idle"]
  /\ request = [t \in Task |-> NoRequest]
  /\ draft = [t \in Task |-> NoSnapshot]
  /\ told = [s \in Source |-> "unknown"]
  /\ stray = FALSE

Publishes(t) ==
  Begin(t) \/ Download(t) \/ Fail(t) \/ Write(t) \/ WriteUnsynced(t) \/ Apply(t)

Next ==
  \/ Refresh \/ Restart
  \/ \E f \in Local : ChangeFolder(f)
  \/ \E t \in Task : Publishes(t)
  \/ \E h \in Handler :
       \/ \E r \in Requests : Request(h, r)
       \/ LockTimeout(h) \/ Refuse(h) \/ DownloadTimeout(h) \/ Disconnect(h)
       \/ OrphanWrites(h) \/ OrphanFails(h)

\* Downloads have deadlines, blocking writes end, and the executor polls
\* every task that can go on.  Nobody is obliged to ask, leave or crash.
Fairness == \A t \in Task : WF_vars(Publishes(t) \/ (t \in Handler /\ Refuse(t)))

Spec == Init /\ [][Next]_vars /\ Fairness

(***************************************************************************)
(* Properties.                                                             *)
(***************************************************************************)
TypeOK ==
  /\ folder \in SUBSET Local
  /\ disk \in Snapshot /\ memory \in Snapshot
  /\ queue \in Seq(Task) /\ IsInjective(queue)
  /\ pc \in [Task -> {"idle", "wait", "download", "write", "apply", "orphan"}]
  /\ request \in [Task -> Requests \cup {NoRequest}]
  /\ draft \in [Task -> Snapshot]
  /\ told \in [Source -> {"unknown", "present", "absent"}]
  /\ stray \in BOOLEAN
  /\ ToSet(queue) = {t \in Task : pc[t] \notin {"idle", "orphan"}}

\* No failed fetch, missing file or half-finished update ever leaves an enabled
\* list without rules in what DNS queries read, or rules without their list:
\* lists, domains and exceptions are replaced together (apply_update) and a
\* list that cannot be fetched keeps its last-known-good rules.
Protected == memory.enabled = memory.rules

\* What an answer of the dashboard said of a list stays true of the rules in
\* force until somebody asks for another change: updates under UPDATE_LOCK
\* start from the lists in memory, so neither the refresher nor a concurrent
\* request loses an acknowledged addition or resurrects a deleted list.
Agrees(snapshot) ==
  \A s \in Source :
    /\ told[s] = "present" => s \in snapshot.rules
    /\ told[s] = "absent" => s \notin snapshot.enabled \cup snapshot.rules

AnswersHold == Agrees(memory)

\* ... and it would survive a restart, as long as the last write to disk was
\* not one whose handler had gone.
AnswersSurviveRestart == ~stray => Agrees(disk)

\* The rules of a list leave memory only through a request to delete that very
\* list, or when a restart loads a file that a departed handler left behind.
LossIsAsked ==
  \A s \in memory.rules \ memory'.rules :
    \/ stray
    \/ \E h \in Handler : /\ pc[h] = "apply"
                         /\ request[h] = [kind |-> "delete", source |-> s]

\* See LossIsAsked: every step of every behaviour of the blocklists.
LostOnlyOnRequest == [][LossIsAsked]_vars

\* The refresher is never starved of UPDATE_LOCK: a round that has asked for it
\* ends, however many requests time out, fail or are abandoned around it.
RefreshEnds == pc[Refresher] = "wait" ~> pc[Refresher] = "idle"

\* web.rs:444-446 says the operation is stopped before the deadline is reported,
\* so that no unseen update continues in the background, and web.rs:453 answers
\* "existing protection was retained": so nothing that ends after its handler
\* has gone may turn a file that says what was answered into one that does not.
RetainedMeansRetained ==
  [][(\E h \in Handler : pc[h] = "orphan" /\ pc'[h] = "idle")
       => (Agrees(disk) => Agrees(disk)')]_vars
=============================================================================
