----------------------- MODULE BlocklistUpdateProofs -----------------------
(***************************************************************************)
(* Proofs about BlocklistUpdate, for any lists and any number of dashboard *)
(* requests: the rules in force are those of the enabled lists, they leave *)
(* memory only on request, and what the dashboard was told stays true, in  *)
(* memory and in the file.                                                 *)
(*                                                                         *)
(* All need to know that the task that publishes started from the lists   *)
(* still in memory, which is what UPDATE_LOCK is for (Exclusive), and that *)
(* unless a write has strayed the file is what memory is or is about to    *)
(* become (FileFollowsMemory).                                             *)
(***************************************************************************)
EXTENDS BlocklistUpdate, TLAPS

Publishing == {"download", "write", "apply"}

Shape ==
  /\ folder \in SUBSET Local
  /\ disk \in Snapshot /\ memory \in Snapshot
  /\ queue \in Seq(Task)
  /\ pc \in [Task -> {"idle", "wait", "download", "write", "apply", "orphan"}]
  /\ request \in [Task -> Requests \cup {NoRequest}]
  /\ draft \in [Task -> Snapshot]
  /\ stray \in BOOLEAN
  /\ request[Refresher] = NoRequest

Exclusive == \A t \in Task : pc[t] \in Publishing => Holds(t)

Consistent(snapshot) == snapshot.enabled = snapshot.rules

Consistency ==
  /\ Consistent(disk) /\ Consistent(memory)
  /\ \A t \in Task : pc[t] \in {"write", "apply", "orphan"} => Consistent(draft[t])

\* The enabled lists that the snapshot of t leaves out are those it was asked
\* to delete.
DropsOnRequest(t) ==
  \A s \in memory.enabled \ draft[t].enabled :
    t \in Handler /\ request[t] = [kind |-> "delete", source |-> s]

DraftsFollowMemory ==
  \A t \in Task : pc[t] \in Publishing => DropsOnRequest(t)

FileFollowsMemory ==
  ~stray => /\ disk = memory \/ \E t \in Task : pc[t] = "apply"
            /\ \A t \in Task : pc[t] = "apply" => disk = draft[t]

IInv == Shape /\ Exclusive /\ Consistency /\ DraftsFollowMemory /\ FileFollowsMemory

-----------------------------------------------------------------------------
(* The lock. *)

\* Leaving the line does not take the lock from whoever holds it.
LEMMA LeaveKeepsHolder ==
  ASSUME queue \in Seq(Task), NEW u \in Task
  PROVE  /\ Leave(u) \in Seq(Task)
         /\ \A t \in Task \ {u} : Holds(t) => Leave(u) # <<>> /\ Head(Leave(u)) = t
<1> DEFINE i == CHOOSE k \in DOMAIN queue : queue[k] = u
<1>1. CASE u \notin ToSet(queue)
  BY <1>1 DEF Leave, Holds
<1>2. CASE u \in ToSet(queue)
  <2>1. i \in 1..Len(queue) /\ queue[i] = u
    BY <1>2 DEF ToSet
  <2>2. Leave(u) = SubSeq(queue, 1, i - 1) \o SubSeq(queue, i + 1, Len(queue))
    BY <1>2 DEF Leave, RemoveAt
  <2> HIDE DEF i
  <2>3. Leave(u) \in Seq(Task)
    BY <2>1, <2>2
  <2>4. ASSUME NEW t \in Task \ {u}, Holds(t)
        PROVE  Leave(u) # <<>> /\ Head(Leave(u)) = t
    <3>1. i # 1
      BY <2>1, <2>4 DEF Holds
    <3> DEFINE front == SubSeq(queue, 1, i - 1)
               back == SubSeq(queue, i + 1, Len(queue))
    <3>2. front \in Seq(Task) /\ back \in Seq(Task) /\ Len(front) = i - 1
      BY <2>1
    <3>3. front[1] = t
      BY <2>1, <2>4, <3>1 DEF Holds
    <3>4. Len(front) >= 1
      BY <2>1, <3>1, <3>2
    <3>5. Leave(u) = front \o back
      BY <2>2
    <3> HIDE DEF front, back
    <3>6. Len(front \o back) >= 1 /\ (front \o back)[1] = front[1]
      BY <3>2, <3>4
    <3> QED  BY <2>3, <3>3, <3>5, <3>6
  <2> QED  BY <2>3, <2>4
<1> QED  BY <1>1, <1>2

\* A request to join the line does not take it either.
LEMMA JoinKeepsHolder ==
  ASSUME queue \in Seq(Task), NEW u \in Task, NEW t \in Task, Holds(t)
  PROVE  Append(queue, u) # <<>> /\ Head(Append(queue, u)) = t
BY DEF Holds

\* What is left when task t is over.
LEMMA EndsFrame ==
  ASSUME Shape, Exclusive, NEW t \in Task, NEW next \in {"idle", "orphan"}, Ends(t, next)
  PROVE  /\ queue' \in Seq(Task)
         /\ pc' \in [Task -> {"idle", "wait", "download", "write", "apply", "orphan"}]
         /\ request' \in [Task -> Requests \cup {NoRequest}]
         /\ draft' \in [Task -> Snapshot]
         /\ request'[Refresher] = NoRequest
         /\ Exclusive'
         /\ \A u \in Task \ {t} : /\ pc'[u] = pc[u] /\ request'[u] = request[u]
                                  /\ draft'[u] = draft[u]
         /\ pc'[t] = next
         /\ next = "orphan" => draft'[t] = draft[t]
<1>1. NoSnapshot \in Snapshot
  BY DEF NoSnapshot, Snapshot
<1>2. /\ pc' = [pc EXCEPT ![t] = next]
      /\ queue' = Leave(t)
      /\ request' = [request EXCEPT ![t] = NoRequest]
      /\ draft' = [draft EXCEPT ![t] = IF next = "orphan" THEN draft[t] ELSE NoSnapshot]
  BY DEF Ends
<1>3. Refresher \in Task
  BY DEF Task
<1>4. /\ queue' \in Seq(Task)
      /\ \A u \in Task \ {t} : Holds(u) => queue' # <<>> /\ Head(queue') = u
  BY <1>2, LeaveKeepsHolder DEF Shape
<1>5. Exclusive'
  BY <1>2, <1>4 DEF Exclusive, Holds, Publishing, Shape
<1> QED  BY <1>1, <1>2, <1>3, <1>4, <1>5 DEF Shape

\* Only one task publishes at a time.
LEMMA OnePublishes ==
  ASSUME Exclusive, NEW t \in Task, pc[t] \in Publishing,
         NEW u \in Task, pc[u] \in Publishing
  PROVE  u = t
BY DEF Exclusive, Holds

-----------------------------------------------------------------------------
(* The invariant. *)

LEMMA InitInv == Init => IInv
<1> SUFFICES ASSUME Init PROVE IInv
  OBVIOUS
<1>1. NoSnapshot \in Snapshot /\ Consistent(NoSnapshot) /\ Refresher \in Task
  BY DEF NoSnapshot, Snapshot, Consistent, Task
<1>2. Shape
  <2>1. queue \in Seq(Task)
    BY DEF Init
  <2>2. request \in [Task -> Requests \cup {NoRequest}]
    BY DEF Init
  <2>3. request[Refresher] = NoRequest /\ stray \in BOOLEAN
    BY <1>1 DEF Init
  <2> QED  BY <1>1, <2>1, <2>2, <2>3 DEF Init, Shape
<1>3. \A t \in Task : pc[t] = "idle"
  BY DEF Init
<1> QED
  BY <1>1, <1>2, <1>3 DEF Init, IInv, Exclusive, Consistency, DraftsFollowMemory,
     FileFollowsMemory, Publishing

\* What a task that ends, for whatever reason, keeps when it changes neither
\* copy: its place in the argument is simply gone.
LEMMA EndsUnchanged ==
  ASSUME IInv, NEW t \in Task, NEW next \in {"idle", "orphan"}, Ends(t, next),
         next = "orphan" => pc[t] = "write",
         UNCHANGED <<folder, disk, memory>>, stray' \in BOOLEAN,
         pc[t] = "apply" => stray', stray => stray'
  PROVE  IInv'
<1>1. /\ queue' \in Seq(Task)
      /\ pc' \in [Task -> {"idle", "wait", "download", "write", "apply", "orphan"}]
      /\ request' \in [Task -> Requests \cup {NoRequest}]
      /\ draft' \in [Task -> Snapshot]
      /\ request'[Refresher] = NoRequest
      /\ Exclusive'
      /\ \A u \in Task \ {t} : /\ pc'[u] = pc[u] /\ request'[u] = request[u]
                               /\ draft'[u] = draft[u]
      /\ pc'[t] = next
      /\ next = "orphan" => draft'[t] = draft[t]
  BY EndsFrame DEF IInv
<1>2. Shape'
  BY <1>1 DEF IInv, Shape
<1>3. Consistency'
  BY <1>1 DEF IInv, Consistency, Consistent
<1>4. DraftsFollowMemory'
  BY <1>1 DEF IInv, DraftsFollowMemory, DropsOnRequest, Publishing
<1>5. FileFollowsMemory'
  BY <1>1 DEF IInv, FileFollowsMemory
<1> QED  BY <1>1, <1>2, <1>3, <1>4, <1>5 DEF IInv

LEMMA RequestInv ==
  ASSUME IInv, NEW h \in Handler, NEW r \in Requests, Request(h, r) PROVE IInv'
<1>1. h \in Task /\ h # Refresher
  BY TaskAssumption DEF Task
<1>2. \A u \in Task \ {h} : pc'[u] = pc[u] /\ request'[u] = request[u]
  BY <1>1 DEF Request, IInv, Shape
<1>3. pc[h] = "idle" /\ pc'[h] = "wait"
  BY <1>1 DEF Request, IInv, Shape
<1>4. Shape'
  BY <1>1 DEF Request, IInv, Shape
<1>5. Exclusive'
  BY <1>1, <1>2, <1>3, JoinKeepsHolder DEF Request, IInv, Shape, Exclusive, Publishing, Holds
<1>6. Consistency'
  BY <1>2, <1>3 DEF Request, IInv, Consistency
<1>7. DraftsFollowMemory'
  BY <1>2, <1>3 DEF Request, IInv, DraftsFollowMemory, DropsOnRequest, Publishing
<1>8. FileFollowsMemory'
  BY <1>2, <1>3 DEF Request, IInv, FileFollowsMemory
<1> QED  BY <1>4, <1>5, <1>6, <1>7, <1>8 DEF IInv

LEMMA RefreshInv == ASSUME IInv, Refresh PROVE IInv'
<1>1. Refresher \in Task
  BY DEF Task
<1>2. \A u \in Task \ {Refresher} : pc'[u] = pc[u]
  BY <1>1 DEF Refresh, IInv, Shape
<1>3. pc[Refresher] = "idle" /\ pc'[Refresher] = "wait"
  BY <1>1 DEF Refresh, IInv, Shape
<1>4. Shape'
  BY <1>1 DEF Refresh, IInv, Shape
<1>5. Exclusive'
  BY <1>1, <1>2, <1>3, JoinKeepsHolder DEF Refresh, IInv, Shape, Exclusive, Publishing, Holds
<1>6. Consistency'
  BY <1>2, <1>3 DEF Refresh, IInv, Consistency
<1>7. DraftsFollowMemory'
  BY <1>2, <1>3 DEF Refresh, IInv, DraftsFollowMemory, DropsOnRequest, Publishing
<1>8. FileFollowsMemory'
  BY <1>2, <1>3 DEF Refresh, IInv, FileFollowsMemory
<1> QED  BY <1>4, <1>5, <1>6, <1>7, <1>8 DEF IInv

\* The draft starts from the lists in memory: the scan only adds, and an edit
\* takes out at most the list it names.
LEMMA PreparedDrops ==
  ASSUME Shape, NEW t \in Task
  PROVE  LET d == Prepared(Edited(memory, request[t])) IN
         /\ d \in Snapshot
         /\ \A s \in memory.enabled \ d.enabled :
              t \in Handler /\ request[t] = [kind |-> "delete", source |-> s]
<1> DEFINE r == request[t]
           lists == Edited(memory, r)
           d == Prepared(lists)
<1>1. memory \in Snapshot /\ disk \in Snapshot /\ folder \in SUBSET Local
  BY DEF Shape
<1>2. lists \in Snapshot => d \in Snapshot /\ lists.enabled \subseteq d.enabled
  BY <1>1 DEF Prepared, Scanned, Snapshot, Source
<1>3. r = NoRequest \/ r \in [kind : {"add"}, source : Remote]
        \/ r \in [kind : {"delete"}, source : Source]
  BY DEF Shape, Requests
<1>4. CASE r = NoRequest
  <2>1. lists = memory
    BY <1>4 DEF Edited, NoRequest
  <2> QED  BY <1>1, <1>2, <2>1
<1>5. CASE r \in [kind : {"add"}, source : Remote]
  <2>1. lists = [memory EXCEPT !.enabled = @ \cup {r.source}] /\ r.source \in Source
    BY <1>5 DEF Edited, Source
  <2>2. lists \in Snapshot /\ memory.enabled \subseteq lists.enabled
    BY <1>1, <2>1 DEF Snapshot
  <2> QED  BY <1>2, <2>2
<1>6. CASE r \in [kind : {"delete"}, source : Source]
  <2>1. r.kind = "delete" /\ r.source \in Source
    BY <1>6
  <2>2. lists = Deleted(memory, r.source)
    BY <2>1 DEF Edited
  <2>3. ASSUME NEW s \in Source
        PROVE  /\ Deleted(memory, s) \in Snapshot
               /\ memory.enabled \ {s} \subseteq Deleted(memory, s).enabled
    <3>1. CASE s \in Local
      BY <1>1, <3>1 DEF Deleted, Snapshot
    <3>2. CASE s \notin Local
      BY <1>1, <3>2 DEF Deleted, Snapshot
    <3> QED  BY <3>1, <3>2
  <2>4. t \in Handler
    BY <2>1 DEF Shape, Task, NoRequest
  <2>5. \A s \in {r.source} : r = [kind |-> "delete", source |-> s]
    BY <1>6
  <2> QED  BY <1>2, <2>1, <2>2, <2>3, <2>4, <2>5
<1> QED  BY <1>3, <1>4, <1>5, <1>6

LEMMA BeginInv == ASSUME IInv, NEW t \in Task, Begin(t) PROVE IInv'
<1> DEFINE d == Prepared(Edited(memory, request[t]))
<1>1. /\ d \in Snapshot
      /\ \A s \in memory.enabled \ d.enabled :
           t \in Handler /\ request[t] = [kind |-> "delete", source |-> s]
  BY PreparedDrops DEF IInv
<1>2. draft' = [draft EXCEPT ![t] = d]
  BY DEF Begin
<1> HIDE DEF d
<1>3. /\ pc[t] = "wait" /\ pc'[t] = "download" /\ Holds(t) /\ draft'[t] = d
      /\ \A u \in Task \ {t} : pc'[u] = pc[u] /\ draft'[u] = draft[u]
      /\ UNCHANGED <<folder, disk, memory, queue, request, stray>>
  BY <1>2 DEF Begin, IInv, Shape
<1>4. Shape'
  BY <1>1, <1>2 DEF Begin, IInv, Shape
<1>5. Exclusive'
  BY <1>3 DEF IInv, Exclusive, Publishing, Holds
<1>6. Consistency'
  BY <1>3 DEF IInv, Consistency
<1>7. DraftsFollowMemory'
  BY <1>1, <1>3 DEF IInv, DraftsFollowMemory, DropsOnRequest, Publishing
<1>8. FileFollowsMemory'
  BY <1>3 DEF IInv, FileFollowsMemory
<1> QED  BY <1>4, <1>5, <1>6, <1>7, <1>8 DEF IInv

LEMMA DownloadInv == ASSUME IInv, NEW t \in Task, Download(t) PROVE IInv'
<1>1. PICK usable \in Fetched(t) :
        /\ Complete(draft[t], usable)
        /\ draft' = [draft EXCEPT ![t].rules = Compiled(draft[t], usable)]
  BY DEF Download
<1>2. draft[t] \in Snapshot
  BY DEF IInv, Shape
<1>3. Compiled(draft[t], usable) = draft[t].enabled
  BY <1>1 DEF Compiled, Complete
<1>4. draft' = [draft EXCEPT ![t] = [draft[t] EXCEPT !.rules = draft[t].enabled]]
  BY <1>1, <1>3
<1>5. /\ [draft[t] EXCEPT !.rules = draft[t].enabled] \in Snapshot
      /\ Consistent([draft[t] EXCEPT !.rules = draft[t].enabled])
      /\ [draft[t] EXCEPT !.rules = draft[t].enabled].enabled = draft[t].enabled
  BY <1>2 DEF Snapshot, Consistent
<1>6. /\ pc[t] = "download" /\ pc'[t] = "write"
      /\ Consistent(draft'[t]) /\ draft'[t].enabled = draft[t].enabled
      /\ \A u \in Task \ {t} : pc'[u] = pc[u] /\ draft'[u] = draft[u]
      /\ UNCHANGED <<folder, disk, memory, queue, request, stray>>
  BY <1>4, <1>5 DEF Download, IInv, Shape
<1>7. Shape'
  BY <1>4, <1>5 DEF Download, IInv, Shape
<1>8. Exclusive'
  BY <1>6 DEF IInv, Exclusive, Publishing, Holds
<1>9. Consistency'
  BY <1>6 DEF IInv, Consistency, Consistent
<1>10. DraftsFollowMemory'
  BY <1>6 DEF IInv, DraftsFollowMemory, DropsOnRequest, Publishing
<1>11. FileFollowsMemory'
  BY <1>6 DEF IInv, FileFollowsMemory
<1> QED  BY <1>7, <1>8, <1>9, <1>10, <1>11 DEF IInv

LEMMA WriteInv == ASSUME IInv, NEW t \in Task, Write(t) PROVE IInv'
<1>1. /\ pc[t] = "write" /\ pc'[t] = "apply" /\ disk' = draft[t] /\ stray' = FALSE
      /\ \A u \in Task \ {t} : pc'[u] = pc[u]
      /\ UNCHANGED <<folder, memory, queue, request, draft>>
  BY DEF Write, IInv, Shape
<1>2. Shape'
  <2>1. pc' \in [Task -> {"idle", "wait", "download", "write", "apply", "orphan"}]
    BY DEF Write, IInv, Shape
  <2>2. stray' \in BOOLEAN
    BY <1>1
  <2>3. disk' \in Snapshot
    BY <1>1 DEF IInv, Shape
  <2> QED  BY <1>1, <2>1, <2>2, <2>3 DEF IInv, Shape
<1>3. Exclusive'
  BY <1>1 DEF IInv, Exclusive, Publishing, Holds
<1>4. Consistency'
  BY <1>1 DEF IInv, Consistency, Consistent
<1>5. DraftsFollowMemory'
  BY <1>1 DEF IInv, DraftsFollowMemory, DropsOnRequest, Publishing
<1>6. \A u \in Task : pc'[u] = "apply" => u = t
  BY <1>1, OnePublishes DEF IInv, Publishing
<1>7. FileFollowsMemory'
  BY <1>1, <1>6 DEF FileFollowsMemory
<1> QED  BY <1>2, <1>3, <1>4, <1>5, <1>7 DEF IInv

LEMMA WriteUnsyncedInv == ASSUME IInv, NEW t \in Task, WriteUnsynced(t) PROVE IInv'
<1>1. pc[t] = "write" /\ disk' = draft[t] /\ stray' = TRUE /\ Ends(t, "idle")
      /\ UNCHANGED <<folder, memory>>
  BY DEF WriteUnsynced
<1>2. /\ Shape' /\ Exclusive' /\ pc'[t] = "idle"
      /\ \A u \in Task \ {t} : /\ pc'[u] = pc[u] /\ request'[u] = request[u]
                               /\ draft'[u] = draft[u]
  BY <1>1, EndsFrame DEF IInv, Shape
<1>3. Consistency'
  BY <1>1, <1>2 DEF IInv, Consistency, Consistent
<1>4. DraftsFollowMemory'
  BY <1>1, <1>2 DEF IInv, DraftsFollowMemory, DropsOnRequest, Publishing
<1> QED  BY <1>1, <1>2, <1>3, <1>4 DEF IInv, FileFollowsMemory

LEMMA ApplyInv == ASSUME IInv, NEW t \in Task, Apply(t) PROVE IInv'
<1>1. pc[t] = "apply" /\ memory' = draft[t] /\ Ends(t, "idle")
      /\ UNCHANGED <<folder, disk, stray>>
  BY DEF Apply
<1>2. /\ Shape' /\ Exclusive' /\ pc'[t] = "idle"
      /\ \A u \in Task \ {t} : /\ pc'[u] = pc[u] /\ request'[u] = request[u]
                               /\ draft'[u] = draft[u]
  BY <1>1, EndsFrame DEF IInv, Shape
<1>3. \A u \in Task : pc'[u] \notin Publishing
  BY <1>1, <1>2, OnePublishes DEF IInv, Publishing
<1>4. Consistency'
  BY <1>1, <1>2 DEF IInv, Consistency, Consistent
<1>5. DraftsFollowMemory'
  BY <1>3 DEF DraftsFollowMemory
<1>6. FileFollowsMemory'
  BY <1>1, <1>3 DEF IInv, FileFollowsMemory, Publishing
<1> QED  BY <1>2, <1>4, <1>5, <1>6 DEF IInv

LEMMA OrphanInv ==
  ASSUME IInv, NEW h \in Handler, OrphanWrites(h) \/ OrphanFails(h) PROVE IInv'
<1>1. h \in Task /\ NoSnapshot \in Snapshot
  BY DEF Task, NoSnapshot, Snapshot
<1>2. /\ pc[h] = "orphan" /\ pc'[h] = "idle"
      /\ draft' = [draft EXCEPT ![h] = NoSnapshot]
      /\ \A u \in Task \ {h} : pc'[u] = pc[u] /\ draft'[u] = draft[u]
      /\ UNCHANGED <<folder, memory, queue, request>>
      /\ (disk' = draft[h] /\ stray' = TRUE) \/ (UNCHANGED <<disk, stray>>)
  BY <1>1 DEF OrphanWrites, OrphanFails, IInv, Shape
<1>3. pc' \in [Task -> {"idle", "wait", "download", "write", "apply", "orphan"}]
  BY DEF OrphanWrites, OrphanFails, IInv, Shape
<1>4. Shape'
  <2>1. stray' \in BOOLEAN
    BY <1>2 DEF IInv, Shape
  <2>2. disk' \in Snapshot
    BY <1>1, <1>2 DEF IInv, Shape
  <2>3. draft' \in [Task -> Snapshot]
    BY <1>1, <1>2 DEF IInv, Shape
  <2> QED  BY <1>2, <1>3, <2>1, <2>2, <2>3 DEF IInv, Shape
<1>5. Exclusive'
  BY <1>2 DEF IInv, Exclusive, Publishing, Holds
<1>6. Consistency'
  BY <1>1, <1>2 DEF IInv, Consistency, Consistent
<1>7. DraftsFollowMemory'
  BY <1>2 DEF IInv, DraftsFollowMemory, DropsOnRequest, Publishing
<1>8. FileFollowsMemory'
  BY <1>2 DEF IInv, FileFollowsMemory
<1> QED  BY <1>4, <1>5, <1>6, <1>7, <1>8 DEF IInv

LEMMA RestartInv == ASSUME IInv, Restart PROVE IInv'
<1>1. NoSnapshot \in Snapshot /\ Refresher \in Task
  BY DEF NoSnapshot, Snapshot, Task
<1>2. /\ memory' = disk /\ disk' = disk /\ folder' = folder /\ stray' = FALSE
      /\ queue' = <<>> /\ pc' = [t \in Task |-> "idle"]
      /\ request' = [t \in Task |-> NoRequest] /\ draft' = [t \in Task |-> NoSnapshot]
  BY DEF Restart
<1>3. Shape'
  <2>1. queue' \in Seq(Task)
    BY <1>2
  <2>2. request' \in [Task -> Requests \cup {NoRequest}]
    BY <1>2
  <2>3. request'[Refresher] = NoRequest /\ stray' \in BOOLEAN
    BY <1>1, <1>2
  <2> QED  BY <1>1, <1>2, <2>1, <2>2, <2>3 DEF IInv, Shape
<1> QED
  BY <1>2, <1>3 DEF IInv, Exclusive, Consistency, DraftsFollowMemory,
     FileFollowsMemory, Publishing

LEMMA ChangeFolderInv == ASSUME IInv, NEW f \in Local, ChangeFolder(f) PROVE IInv'
BY DEF ChangeFolder, IInv, Shape, Exclusive, Holds, Consistency, DraftsFollowMemory,
   DropsOnRequest, FileFollowsMemory

\* The tasks that end without touching either copy.
LEMMA DepartInv ==
  ASSUME IInv, NEW t \in Task,
         \/ Fail(t)
         \/ t \in Handler /\ (LockTimeout(t) \/ Refuse(t) \/ DownloadTimeout(t) \/ Disconnect(t))
  PROVE  IInv'
<1>1. stray \in BOOLEAN
  BY DEF IInv, Shape
<1>2. CASE Fail(t)
  BY <1>1, <1>2, EndsUnchanged DEF Fail
<1>3. CASE LockTimeout(t)
  BY <1>1, <1>3, EndsUnchanged DEF LockTimeout
<1>4. CASE Refuse(t)
  BY <1>1, <1>4, EndsUnchanged DEF Refuse
<1>5. CASE DownloadTimeout(t)
  BY <1>1, <1>5, EndsUnchanged DEF DownloadTimeout, Abandoned
<1>6. CASE Disconnect(t)
  BY <1>1, <1>6, EndsUnchanged DEF Disconnect, Abandoned
<1> QED  BY <1>2, <1>3, <1>4, <1>5, <1>6

LEMMA NextInv == IInv /\ [Next]_vars => IInv'
<1> SUFFICES ASSUME IInv, [Next]_vars PROVE IInv'
  OBVIOUS
<1>1. Handler \subseteq Task
  BY DEF Task
<1>2. CASE UNCHANGED vars
  BY <1>2 DEF vars, IInv, Shape, Exclusive, Holds, Consistency, DraftsFollowMemory,
     DropsOnRequest, FileFollowsMemory
<1>3. CASE Refresh \/ Restart \/ \E f \in Local : ChangeFolder(f)
  BY <1>3, RefreshInv, RestartInv, ChangeFolderInv
<1>4. CASE \E t \in Task : Publishes(t)
  BY <1>4, BeginInv, DownloadInv, DepartInv, WriteInv, WriteUnsyncedInv, ApplyInv
     DEF Publishes
<1>5. CASE \E h \in Handler :
             \/ \E r \in Requests : Request(h, r)
             \/ LockTimeout(h) \/ Refuse(h) \/ DownloadTimeout(h) \/ Disconnect(h)
             \/ OrphanWrites(h) \/ OrphanFails(h)
  BY <1>1, <1>5, RequestInv, DepartInv, OrphanInv
<1> QED  BY <1>2, <1>3, <1>4, <1>5 DEF Next

LEMMA Invariance == Spec => []IInv
BY InitInv, NextInv, PTL DEF Spec

-----------------------------------------------------------------------------
(* The results. *)

\* The lists in force and the rules in force always match: no failed fetch,
\* missing file, deadline, closed connection or restart separates them.
THEOREM RulesMatchLists == Spec => []Protected
<1>1. IInv => Protected
  BY DEF IInv, Consistency, Consistent, Protected
<1> QED  BY <1>1, Invariance, PTL

\* Rules leave memory only when their list is deleted by the request that is
\* being published, or when a restart loads what a departed handler wrote.
THEOREM RulesLeaveOnRequest == Spec => LostOnlyOnRequest
<1> DEFINE Lost(s) ==
      \/ stray
      \/ \E h \in Handler : /\ pc[h] = "apply"
                            /\ request[h] = [kind |-> "delete", source |-> s]
<1>1. ASSUME IInv, [Next]_vars, NEW s \in memory.rules \ memory'.rules
      PROVE  Lost(s)
  <2>1. s \in memory.enabled /\ Consistent(disk)
    BY <1>1 DEF IInv, Consistency, Consistent
  <2>2. ASSUME NEW t \in Task, pc[t] = "apply", s \notin draft[t].rules
        PROVE  Lost(s)
    <3>1. DropsOnRequest(t) /\ draft[t].enabled = draft[t].rules
      BY <1>1, <2>2 DEF IInv, DraftsFollowMemory, Publishing, Consistency, Consistent
    <3> QED  BY <2>1, <2>2, <3>1 DEF DropsOnRequest
  <2>3. CASE \E t \in Task : Apply(t)
    BY <1>1, <2>2, <2>3 DEF Apply
  <2>4. CASE Restart
    <3>1. CASE stray
      BY <3>1
    <3>2. CASE ~stray
      <4>1. disk # memory
        BY <1>1, <2>4 DEF Restart
      <4>2. PICK t \in Task : pc[t] = "apply" /\ disk = draft[t]
        BY <1>1, <3>2, <4>1 DEF IInv, FileFollowsMemory
      <4> QED  BY <1>1, <2>2, <2>4, <4>2 DEF Restart
    <3> QED  BY <3>1, <3>2
  <2>5. CASE UNCHANGED memory
    BY <1>1, <2>5
  <2> QED
    BY <1>1, <2>3, <2>4, <2>5 DEF Next, vars, Publishes, Refresh, ChangeFolder, Begin,
       Download, Fail, Write, WriteUnsynced, Request, LockTimeout, Refuse,
       DownloadTimeout, Disconnect, OrphanWrites, OrphanFails
<1>2. IInv /\ [Next]_vars => [LossIsAsked]_vars
  BY <1>1 DEF LossIsAsked
<1> QED  BY <1>2, Invariance, PTL DEF Spec, LostOnlyOnRequest

-----------------------------------------------------------------------------
(* What the dashboard was told. *)

Active == {"wait", "download", "write", "apply"}

\* The snapshot does what was last said of list s, and goes on to do so after
\* a scan of the directory.
Settled(s, snapshot) ==
  /\ told[s] = "present" => s \in snapshot.enabled
  /\ told[s] = "absent" => /\ s \notin snapshot.enabled
                           /\ s \in Local => s \in snapshot.disabled

\* Nothing is said of a list while a request about it is under way.
SilentWhileAsked ==
  \A h \in Handler :
    pc[h] \in Active => request[h] \in Requests /\ told[request[h].source] = "unknown"

\* What t was asked is done in its draft.
DoesAsAsked(t) ==
  t \in Handler =>
    LET s == request[t].source IN
    /\ request[t].kind = "add" => s \in draft[t].enabled
    /\ request[t].kind = "delete" => /\ s \notin draft[t].enabled
                                     /\ s \in Local => s \in draft[t].disabled

Knowledge ==
  /\ told \in [Source -> {"unknown", "present", "absent"}]
  /\ SilentWhileAsked
  /\ \A s \in Source : Settled(s, memory)
  /\ \A t \in Task : pc[t] \in Publishing =>
       DoesAsAsked(t) /\ \A s \in Source : Settled(s, draft[t])

LEMMA KnowledgeStarts == Init => Knowledge
<1> SUFFICES ASSUME Init PROVE Knowledge
  OBVIOUS
<1>1. told \in [Source -> {"unknown", "present", "absent"}]
  BY DEF Init
<1>2. \A s \in Source : told[s] = "unknown"
  BY DEF Init
<1>3. \A t \in Task : pc[t] = "idle"
  BY DEF Init
<1> QED BY <1>1, <1>2, <1>3 DEF Knowledge, SilentWhileAsked, Settled, Active, Publishing, Task

\* A step that neither says anything nor publishes, and after which no task
\* does what it did not do before.
LEMMA NothingSaid ==
  ASSUME Knowledge,
         told' = told, memory' = memory,
         \A h \in Handler : pc'[h] \in Active => pc[h] \in Active /\ request'[h] = request[h],
         \A t \in Task : pc'[t] \in Publishing =>
           pc[t] \in Publishing /\ request'[t] = request[t]
             /\ draft'[t].enabled = draft[t].enabled
             /\ draft'[t].disabled = draft[t].disabled
  PROVE  Knowledge'
<1>1. SilentWhileAsked'
  BY DEF Knowledge, SilentWhileAsked
<1>2. \A s \in Source : Settled(s, memory)'
  BY DEF Knowledge, Settled
<1>3. ASSUME NEW t \in Task, pc'[t] \in Publishing
      PROVE  DoesAsAsked(t)' /\ \A s \in Source : Settled(s, draft[t])'
  BY <1>3 DEF Knowledge, DoesAsAsked, Settled
<1> QED BY <1>1, <1>2, <1>3 DEF Knowledge

\* The answer of the task that ends with the lock.
LEMMA Said ==
  ASSUME IInv, Knowledge, NEW t \in Task, Holds(t), pc[t] \in Active,
         NEW next \in {"idle", "orphan"}, Ends(t, next),
         NEW value \in {"unknown", "present", "absent"},
         \/ told' = told
         \/ /\ t \in Handler /\ Asked(request[t].source) = {t}
            /\ told' = [told EXCEPT ![request[t].source] = value],
         \A s \in Source : Settled(s, memory)'
  PROVE  Knowledge'
<1>1. /\ \A u \in Task \ {t} : pc'[u] = pc[u] /\ request'[u] = request[u]
      /\ pc'[t] = next
  BY EndsFrame DEF IInv
<1>2. \A u \in Task : pc'[u] \notin Publishing
  <2> SUFFICES ASSUME NEW u \in Task, pc'[u] \in Publishing PROVE FALSE
    OBVIOUS
  <2>1. u # t
    BY <1>1 DEF Publishing
  <2>2. Holds(u)
    BY <1>1, <2>1 DEF IInv, Exclusive
  <2> QED BY <2>1, <2>2 DEF Holds
<1>3. told' \in [Source -> {"unknown", "present", "absent"}]
  BY DEF Knowledge
<1>4. SilentWhileAsked'
  <2> SUFFICES ASSUME NEW h \in Handler, pc'[h] \in Active
               PROVE  request'[h] \in Requests /\ told'[request'[h].source] = "unknown"
    BY DEF SilentWhileAsked
  <2>1. h \in Task /\ h # t
    BY <1>1 DEF Active, Task
  <2>2. request'[h] = request[h] /\ pc[h] \in Active
    BY <1>1, <2>1
  <2>3. request[h] \in Requests /\ told[request[h].source] = "unknown"
    BY <2>2 DEF Knowledge, SilentWhileAsked
  <2>4. CASE told' = told
    BY <2>2, <2>3, <2>4
  <2>5. CASE /\ Asked(request[t].source) = {t}
             /\ told' = [told EXCEPT ![request[t].source] = value]
    <3>1. request[h].source # request[t].source
      BY <2>1, <2>2, <2>5 DEF Asked, Active
    <3> QED BY <2>2, <2>3, <2>5, <3>1 DEF Knowledge
  <2> QED BY <2>4, <2>5
<1> QED BY <1>2, <1>3, <1>4 DEF Knowledge

\* What is said on a refusal or a failure is so in memory.
LEMMA SaidOfMemory ==
  ASSUME IInv, Knowledge, NEW t \in Task, Holds(t), pc[t] \in Active,
         NEW next \in {"idle", "orphan"}, Ends(t, next),
         told' = Answered(t, Retained), memory' = memory
  PROVE  Knowledge'
<1> DEFINE x == request[t].source
<1>1. \A s \in Source : Settled(s, memory)
  BY DEF Knowledge
<1>2. CASE told' = told
  BY <1>1, <1>2, Said DEF Settled
<1>3. CASE /\ t \in Handler /\ Asked(x) = {t}
           /\ told' = [told EXCEPT ![x] = Status(memory, x)]
  <2>1. Status(memory, x) \in {"unknown", "present", "absent"}
    BY DEF Status
  <2>2. ASSUME NEW s \in Source PROVE Settled(s, memory)'
    <3>1. CASE s = x
      <4>1. told'[s] = Status(memory, s)
        BY <1>3, <3>1 DEF Knowledge
      <4> QED BY <4>1 DEF Settled, Status
    <3>2. CASE s # x
      <4>1. told'[s] = told[s]
        BY <1>3, <3>2 DEF Knowledge
      <4> QED BY <1>1, <4>1 DEF Settled
    <3> QED BY <3>1, <3>2
  <2> HIDE DEF x
  <2> QED BY <1>3, <2>1, <2>2, Said DEF x
<1> QED BY <1>2, <1>3 DEF Answered, Retained

LEMMA PublishersHold ==
  ASSUME IInv, NEW t \in Task, pc[t] \in {"download", "write", "apply"}
  PROVE  Holds(t) /\ pc[t] \in Active
BY DEF IInv, Exclusive, Publishing, Active

LEMMA RequestKnows ==
  ASSUME IInv, Knowledge, NEW h \in Handler, NEW r \in Requests, Request(h, r)
  PROVE  Knowledge'
<1>1. h \in Task /\ r.source \in Source
  BY DEF Task, Requests, Source
<1>2. /\ pc[h] = "idle" /\ pc' = [pc EXCEPT ![h] = "wait"]
      /\ request' = [request EXCEPT ![h] = r]
      /\ told' = [told EXCEPT ![r.source] = "unknown"]
      /\ memory' = memory /\ draft' = draft
  BY DEF Request
<1>3. /\ pc'[h] = "wait" /\ request'[h] = r
      /\ \A u \in Task \ {h} : pc'[u] = pc[u] /\ request'[u] = request[u]
  BY <1>1, <1>2 DEF IInv, Shape
<1>4. /\ told' \in [Source -> {"unknown", "present", "absent"}]
      /\ \A s \in Source : told'[s] = told[s] \/ told'[s] = "unknown"
      /\ told'[r.source] = "unknown"
  BY <1>1, <1>2 DEF Knowledge
<1>5. SilentWhileAsked'
  <2> SUFFICES ASSUME NEW u \in Handler, pc'[u] \in Active
               PROVE  request'[u] \in Requests /\ told'[request'[u].source] = "unknown"
    BY DEF SilentWhileAsked
  <2>1. CASE u = h
    BY <1>3, <1>4, <2>1
  <2>2. CASE u # h
    <3>1. pc[u] \in Active /\ request'[u] = request[u]
      BY <1>3, <2>2 DEF Task
    <3>2. request[u] \in Requests /\ told[request[u].source] = "unknown"
      BY <3>1 DEF Knowledge, SilentWhileAsked
    <3>3. request[u].source \in Source
      BY <3>2 DEF Requests, Source
    <3> QED BY <1>4, <3>1, <3>2, <3>3
  <2> QED BY <2>1, <2>2
<1>6. \A s \in Source : Settled(s, memory)'
  BY <1>2, <1>4 DEF Knowledge, Settled
<1>7. ASSUME NEW t \in Task, pc'[t] \in Publishing
      PROVE  DoesAsAsked(t)' /\ \A s \in Source : Settled(s, draft[t])'
  <2>1. t # h
    BY <1>3, <1>7 DEF Publishing
  <2>2. pc[t] \in Publishing /\ request'[t] = request[t] /\ draft' = draft
    BY <1>2, <1>3, <1>7, <2>1
  <2> QED BY <1>4, <2>2 DEF Knowledge, DoesAsAsked, Settled
<1> QED BY <1>4, <1>5, <1>6, <1>7 DEF Knowledge

LEMMA DeletedLists ==
  ASSUME NEW lists \in Snapshot, NEW s \in Source
  PROVE  LET d == Deleted(lists, s) IN
         /\ d \in Snapshot
         /\ d.enabled = lists.enabled \ {s}
         /\ lists.disabled \subseteq d.disabled
         /\ s \in Local => s \in d.disabled
<1>1. CASE s \in Local
  <2>1. Deleted(lists, s) = [enabled |-> lists.enabled \ {s},
                             disabled |-> lists.disabled \cup {s},
                             rules |-> lists.rules]
    BY <1>1 DEF Deleted, Snapshot
  <2> QED BY <1>1, <2>1 DEF Snapshot
<1>2. CASE s \notin Local
  BY <1>2 DEF Deleted, Snapshot
<1> QED BY <1>1, <1>2

\* A scan keeps what is settled.
LEMMA ScanKeeps ==
  ASSUME Shape, NEW lists \in Snapshot, NEW x \in Source, Settled(x, lists)
  PROVE  Settled(x, Prepared(lists))
BY DEF Shape, Settled, Prepared, Scanned, Snapshot

\* The scan and the edit leave alone what was said of other lists, and do
\* what was asked.
LEMMA PreparedKnows ==
  ASSUME IInv, Knowledge, NEW t \in Task,
         t \in Handler => request[t] \in Requests
  PROVE  LET d == Prepared(Edited(memory, request[t]))
             s == request[t].source
         IN  /\ \A x \in Source :
                  (t \notin Handler \/ x # s) /\ Settled(x, memory) => Settled(x, d)
             /\ t \in Handler =>
                  /\ request[t].kind = "add" => s \in d.enabled
                  /\ request[t].kind = "delete" =>
                       s \notin d.enabled /\ (s \in Local => s \in d.disabled)
<1> DEFINE r == request[t]
           lists == Edited(memory, r)
           d == Prepared(lists)
<1> SUFFICES /\ \A x \in Source :
                  (t \notin Handler \/ x # r.source) /\ Settled(x, memory) => Settled(x, d)
             /\ t \in Handler =>
                  /\ r.kind = "add" => r.source \in d.enabled
                  /\ r.kind = "delete" =>
                       /\ r.source \notin d.enabled
                       /\ r.source \in Local => r.source \in d.disabled
  OBVIOUS
<1>1. memory \in Snapshot /\ disk \in Snapshot /\ folder \in SUBSET Local
  BY DEF IInv, Shape
<1>2. lists \in Snapshot => /\ d.enabled = lists.enabled \cup (folder \ lists.disabled)
                            /\ d.disabled = lists.disabled
  BY DEF Prepared, Scanned, Snapshot
<1>3. CASE t \notin Handler
  <2>1. r = NoRequest
    BY <1>3 DEF IInv, Shape, Task
  <2>2. lists = memory
    BY <2>1 DEF Edited, NoRequest
  <2> QED BY <1>1, <1>2, <1>3, <2>2 DEF Settled
<1>4. CASE t \in Handler /\ r \in [kind : {"add"}, source : Remote]
  <2>1. lists = [memory EXCEPT !.enabled = @ \cup {r.source}] /\ r.source \in Source
        /\ r.kind = "add"
    BY <1>4 DEF Edited, Source
  <2>2. lists \in Snapshot /\ lists.enabled = memory.enabled \cup {r.source}
        /\ lists.disabled = memory.disabled
    BY <1>1, <2>1 DEF Snapshot
  <2>3. ASSUME NEW x \in Source, x # r.source, Settled(x, memory)
        PROVE  Settled(x, d)
    <3>1. Settled(x, lists)
      BY <2>2, <2>3 DEF Settled
    <3> HIDE DEF lists
    <3> QED BY <2>2, <3>1, ScanKeeps DEF IInv
  <2>4. r.source \in d.enabled
    BY <1>2, <2>2
  <2> HIDE DEF d
  <2> QED BY <1>4, <2>1, <2>3, <2>4
<1>5. CASE t \in Handler /\ r \in [kind : {"delete"}, source : Source]
  <2>1. r.kind = "delete" /\ r.source \in Source /\ lists = Deleted(memory, r.source)
    BY <1>5 DEF Edited
  <2>2. /\ lists \in Snapshot
        /\ lists.enabled = memory.enabled \ {r.source}
        /\ memory.disabled \subseteq lists.disabled
        /\ r.source \in Local => r.source \in lists.disabled
    BY <1>1, <2>1, DeletedLists
  <2>3. ASSUME NEW x \in Source, x # r.source, Settled(x, memory)
        PROVE  Settled(x, d)
    <3>1. Settled(x, lists)
      BY <2>2, <2>3 DEF Settled
    <3> HIDE DEF lists
    <3> QED BY <2>2, <3>1, ScanKeeps DEF IInv
  <2>4. r.source \notin d.enabled /\ (r.source \in Local => r.source \in d.disabled)
    <3>1. r.source \in Local \/ r.source \notin folder
      BY <1>1
    <3> QED BY <1>2, <2>2, <3>1
  <2> HIDE DEF d
  <2> QED BY <1>5, <2>1, <2>3, <2>4
<1> QED BY <1>3, <1>4, <1>5 DEF Requests

LEMMA BeginKnows ==
  ASSUME IInv, Knowledge, NEW t \in Task, Begin(t)
  PROVE  Knowledge'
<1> DEFINE d == Prepared(Edited(memory, request[t]))
<1>1. draft' = [draft EXCEPT ![t] = d]
  BY DEF Begin
<1>2. t \in Handler => /\ request[t] \in Requests
                       /\ told[request[t].source] = "unknown"
  BY DEF Begin, Knowledge, SilentWhileAsked, Active
<1>3. /\ \A x \in Source : (t \notin Handler \/ x # request[t].source) => Settled(x, d)
      /\ t \in Handler =>
           /\ request[t].kind = "add" => request[t].source \in d.enabled
           /\ request[t].kind = "delete" =>
                /\ request[t].source \notin d.enabled
                /\ request[t].source \in Local => request[t].source \in d.disabled
  BY <1>2, PreparedKnows DEF Knowledge
<1> HIDE DEF d
<1>4. \A x \in Source : Settled(x, d)
  BY <1>2, <1>3 DEF Settled
<1>5. /\ pc[t] = "wait" /\ pc'[t] = "download" /\ draft'[t] = d
      /\ \A u \in Task \ {t} : pc'[u] = pc[u] /\ draft'[u] = draft[u]
      /\ UNCHANGED <<memory, request, told>>
  BY <1>1 DEF Begin, IInv, Shape
<1>6. SilentWhileAsked'
  <2>1. \A h \in Handler : pc'[h] \in Active => pc[h] \in Active
    BY <1>5 DEF Active, Task
  <2> QED BY <1>5, <2>1 DEF Knowledge, SilentWhileAsked
<1>7. \A s \in Source : Settled(s, memory)'
  BY <1>5 DEF Knowledge, Settled
<1>8. ASSUME NEW u \in Task, pc'[u] \in Publishing
      PROVE  DoesAsAsked(u)' /\ \A s \in Source : Settled(s, draft[u])'
  <2>1. CASE u = t
    BY <1>3, <1>4, <1>5, <2>1 DEF DoesAsAsked, Settled
  <2>2. CASE u # t
    BY <1>5, <1>8, <2>2 DEF Knowledge, DoesAsAsked, Settled
  <2> QED BY <2>1, <2>2
<1> QED BY <1>5, <1>6, <1>7, <1>8 DEF Knowledge

LEMMA ApplyKnows ==
  ASSUME IInv, Knowledge, NEW t \in Task, Apply(t)
  PROVE  Knowledge'
<1> DEFINE x == request[t].source
<1>1. pc[t] = "apply" /\ memory' = draft[t] /\ Ends(t, "idle") /\ told' = Answered(t, Done)
  BY DEF Apply
<1>2. Holds(t) /\ pc[t] \in Active
  BY <1>1, PublishersHold
<1>3. DoesAsAsked(t) /\ \A s \in Source : Settled(s, draft[t])
  BY <1>1 DEF Knowledge, Publishing
<1>4. CASE told' = told
  <2>1. \A s \in Source : Settled(s, memory)'
    BY <1>1, <1>3, <1>4 DEF Settled
  <2> QED BY <1>1, <1>2, <1>4, <2>1, Said
<1>5. CASE /\ t \in Handler /\ Asked(x) = {t}
           /\ told' = [told EXCEPT ![x] = Done(t)]
  <2>1. Done(t) \in {"unknown", "present", "absent"}
    BY DEF Done
  <2>2. request[t] \in Requests
    BY <1>2, <1>5 DEF Knowledge, SilentWhileAsked
  <2>3. ASSUME NEW s \in Source PROVE Settled(s, memory)'
    <3>1. CASE s = x
      <4>1. told'[s] = Done(t)
        BY <1>5, <3>1 DEF Knowledge
      <4>2. request[t].kind = "add" \/ request[t].kind = "delete"
        BY <2>2 DEF Requests
      <4> QED BY <1>1, <1>3, <1>5, <3>1, <4>1, <4>2 DEF Settled, Done, DoesAsAsked
    <3>2. CASE s # x
      <4>1. told'[s] = told[s]
        BY <1>5, <3>2 DEF Knowledge
      <4> QED BY <1>1, <1>3, <4>1 DEF Settled
    <3> QED BY <3>1, <3>2
  <2> HIDE DEF x
  <2> QED BY <1>1, <1>2, <1>5, <2>1, <2>3, Said DEF x
<1> QED BY <1>1, <1>4, <1>5 DEF Answered

\* What the file says when no write has strayed is settled as well.
LEMMA FileKnows ==
  ASSUME IInv, Knowledge, ~stray, NEW s \in Source
  PROVE  Settled(s, disk)
<1>1. CASE disk = memory
  BY <1>1 DEF Knowledge
<1>2. CASE disk # memory
  <2>1. PICK t \in Task : pc[t] = "apply" /\ disk = draft[t]
    BY <1>2 DEF IInv, FileFollowsMemory
  <2> QED BY <2>1 DEF Knowledge, Publishing
<1> QED BY <1>1, <1>2

LEMMA RestartKnows ==
  ASSUME IInv, Knowledge, Restart
  PROVE  Knowledge'
<1>1. /\ memory' = disk /\ \A t \in Task : pc'[t] = "idle"
      /\ told' = IF stray THEN [s \in Source |-> "unknown"] ELSE told
  BY DEF Restart
<1>2. told' \in [Source -> {"unknown", "present", "absent"}]
  BY <1>1 DEF Knowledge
<1>3. \A s \in Source : Settled(s, memory)'
  <2>1. CASE stray
    BY <1>1, <2>1 DEF Settled
  <2>2. CASE ~stray
    BY <1>1, <2>2, FileKnows DEF Settled
  <2> QED BY <2>1, <2>2
<1>4. SilentWhileAsked'
  BY <1>1 DEF SilentWhileAsked, Active, Task
<1> QED BY <1>1, <1>2, <1>3, <1>4 DEF Knowledge, Publishing

LEMMA DownloadKnows ==
  ASSUME IInv, Knowledge, NEW t \in Task, Download(t)
  PROVE  Knowledge'
<1>1. PICK usable \in Fetched(t) :
        draft' = [draft EXCEPT ![t].rules = Compiled(draft[t], usable)]
  BY DEF Download
<1>2. /\ pc[t] = "download" /\ pc' = [pc EXCEPT ![t] = "write"]
      /\ UNCHANGED <<memory, request, told>>
  BY DEF Download
<1>3. \A u \in Task : draft'[u].enabled = draft[u].enabled
                      /\ draft'[u].disabled = draft[u].disabled
  BY <1>1 DEF IInv, Shape, Snapshot
<1>4. \A u \in Task : pc'[u] = pc[u] \/ (pc[u] = "download" /\ pc'[u] = "write")
  BY <1>2 DEF IInv, Shape
<1> QED BY <1>2, <1>3, <1>4, NothingSaid DEF Active, Publishing, Task

LEMMA WriteKnows ==
  ASSUME IInv, Knowledge, NEW t \in Task, Write(t)
  PROVE  Knowledge'
<1>1. /\ pc[t] = "write" /\ pc' = [pc EXCEPT ![t] = "apply"]
      /\ UNCHANGED <<memory, request, told, draft>>
  BY DEF Write
<1>2. \A u \in Task : pc'[u] = pc[u] \/ (pc[u] = "write" /\ pc'[u] = "apply")
  BY <1>1 DEF IInv, Shape
<1> QED BY <1>1, <1>2, NothingSaid DEF Active, Publishing, Task

\* Who ends without an answer, or was gone.
LEMMA SilentEnd ==
  ASSUME IInv, Knowledge, NEW h \in Handler,
         LockTimeout(h) \/ Disconnect(h) \/ OrphanWrites(h) \/ OrphanFails(h)
  PROVE  Knowledge'
<1>1. h \in Task
  BY DEF Task
<1>2. told' = told /\ memory' = memory
  BY DEF LockTimeout, Disconnect, OrphanWrites, OrphanFails
<1>3. /\ pc'[h] \in {"idle", "orphan"}
      /\ \A u \in Task \ {h} : pc'[u] = pc[u] /\ request'[u] = request[u] /\ draft'[u] = draft[u]
  <2>1. CASE LockTimeout(h) \/ Disconnect(h)
    <3>1. PICK next \in {"idle", "orphan"} : Ends(h, next)
      BY <2>1 DEF LockTimeout, Disconnect, Abandoned
    <3> QED BY <1>1, <3>1, EndsFrame DEF IInv
  <2>2. CASE OrphanWrites(h) \/ OrphanFails(h)
    BY <1>1, <2>2 DEF OrphanWrites, OrphanFails, IInv, Shape
  <2> QED BY <2>1, <2>2
<1> QED BY <1>1, <1>2, <1>3, NothingSaid DEF Active, Publishing, Task

LEMMA AnsweredEnd ==
  ASSUME IInv, Knowledge, NEW t \in Task,
         Fail(t) \/ WriteUnsynced(t) \/ (t \in Handler /\ (Refuse(t) \/ DownloadTimeout(t)))
  PROVE  Knowledge'
<1>1. PICK next \in {"idle", "orphan"} : Ends(t, next)
  BY DEF Fail, WriteUnsynced, Refuse, DownloadTimeout, Abandoned
<1>2. told' = Answered(t, Retained) /\ memory' = memory
  BY DEF Fail, WriteUnsynced, Refuse, DownloadTimeout
<1>3. Holds(t) /\ pc[t] \in Active
  <2>1. CASE Refuse(t)
    BY <2>1 DEF Refuse, Active
  <2>2. CASE Fail(t) \/ WriteUnsynced(t) \/ DownloadTimeout(t)
    BY <2>2, PublishersHold DEF Fail, WriteUnsynced, DownloadTimeout
  <2> QED BY <2>1, <2>2
<1> QED BY <1>1, <1>2, <1>3, SaidOfMemory

LEMMA KnowledgeStep == IInv /\ Knowledge /\ [Next]_vars => Knowledge'
<1> SUFFICES ASSUME IInv, Knowledge, [Next]_vars PROVE Knowledge'
  OBVIOUS
<1>1. Handler \subseteq Task
  BY DEF Task
<1>2. CASE UNCHANGED vars
  BY <1>2, NothingSaid DEF vars
<1>3. ASSUME NEW f \in Local, ChangeFolder(f) PROVE Knowledge'
  BY <1>3, NothingSaid DEF ChangeFolder
<1>4. CASE Refresh
  <2>1. /\ pc' = [pc EXCEPT ![Refresher] = "wait"] /\ Refresher \notin Handler
        /\ UNCHANGED <<memory, told, request, draft>>
    BY <1>4, TaskAssumption DEF Refresh
  <2>2. \A u \in Task : pc'[u] = pc[u] \/ (u = Refresher /\ pc'[u] = "wait")
    BY <2>1 DEF IInv, Shape
  <2> QED BY <1>1, <2>1, <2>2, NothingSaid DEF Active, Publishing
<1>5. CASE Restart
  BY <1>5, RestartKnows
<1>6. ASSUME NEW t \in Task, Publishes(t) PROVE Knowledge'
  BY <1>6, BeginKnows, DownloadKnows, AnsweredEnd, WriteKnows, ApplyKnows DEF Publishes
<1>7. ASSUME NEW h \in Handler,
             \/ \E r \in Requests : Request(h, r)
             \/ LockTimeout(h) \/ Refuse(h) \/ DownloadTimeout(h) \/ Disconnect(h)
             \/ OrphanWrites(h) \/ OrphanFails(h)
      PROVE  Knowledge'
  BY <1>1, <1>7, RequestKnows, SilentEnd, AnsweredEnd
<1> QED BY <1>2, <1>3, <1>4, <1>5, <1>6, <1>7 DEF Next

LEMMA KnowledgeHolds == Spec => [](IInv /\ Knowledge)
<1>1. Init => Knowledge
  BY KnowledgeStarts
<1>2. IInv /\ Knowledge /\ [Next]_vars => Knowledge'
  BY KnowledgeStep
<1> QED BY <1>1, <1>2, Invariance, PTL DEF Spec

\* A settled snapshot whose rules are those of its lists agrees with the answers.
LEMMA SettledAgrees ==
  ASSUME NEW snapshot, Consistent(snapshot), \A s \in Source : Settled(s, snapshot)
  PROVE  Agrees(snapshot)
BY DEF Agrees, Settled, Consistent

\* Whatever the number of requests, lists and restarts, what the dashboard
\* last said of a list is true of the rules in force until somebody asks for
\* a change of that list.
THEOREM AnswersStayTrue == Spec => []AnswersHold
<1>1. IInv /\ Knowledge => AnswersHold
  BY SettledAgrees DEF IInv, Consistency, Knowledge, AnswersHold
<1> QED BY <1>1, KnowledgeHolds, PTL

\* ... and of the file the next start loads, unless the last write was that of
\* a handler that had gone or of a directory that could not be synced.
THEOREM AnswersOutliveRestarts == Spec => []AnswersSurviveRestart
<1>1. IInv /\ Knowledge => AnswersSurviveRestart
  BY SettledAgrees, FileKnows DEF IInv, Consistency, AnswersSurviveRestart
<1> QED BY <1>1, KnowledgeHolds, PTL
-----------------------------------------------------------------------------
(* The line for the lock. *)

LEMMA RemovedFromLine ==
  ASSUME NEW S, NEW q \in Seq(S), IsInjective(q), NEW i \in 1..Len(q)
  PROVE  /\ RemoveAt(q, i) \in Seq(S)
         /\ IsInjective(RemoveAt(q, i))
         /\ ToSet(RemoveAt(q, i)) = ToSet(q) \ {q[i]}
<1> DEFINE front == SubSeq(q, 1, i - 1)
           back == SubSeq(q, i + 1, Len(q))
           p == front \o back
<1>1. RemoveAt(q, i) = p
  BY DEF RemoveAt
<1>2. front \in Seq(S) /\ Len(front) = i - 1 /\ \A k \in 1..(i - 1) : front[k] = q[k]
  OBVIOUS
<1>3. back \in Seq(S) /\ Len(back) = Len(q) - i
      /\ \A k \in 1..(Len(q) - i) : back[k] = q[i + k]
  OBVIOUS
<1> HIDE DEF front, back
<1>4. p \in Seq(S) /\ Len(p) = Len(q) - 1
  BY <1>2, <1>3
<1>5. \A k \in 1..(Len(q) - 1) : p[k] = IF k < i THEN q[k] ELSE q[k + 1]
  BY <1>2, <1>3
<1> HIDE DEF p
<1>6. \A j, k \in 1..Len(q) : q[j] = q[k] => j = k
  BY DEF IsInjective
<1>7. IsInjective(p)
  <2> SUFFICES ASSUME NEW j \in 1..(Len(q) - 1), NEW k \in 1..(Len(q) - 1), p[j] = p[k]
               PROVE  j = k
    BY <1>4 DEF IsInjective
  <2> DEFINE up(n) == IF n < i THEN n ELSE n + 1
  <2>1. up(j) \in 1..Len(q) /\ up(k) \in 1..Len(q)
    OBVIOUS
  <2>2. p[j] = q[up(j)] /\ p[k] = q[up(k)]
    BY <1>5
  <2>3. up(j) = up(k)
    <3> HIDE DEF up
    <3> QED BY <1>6, <2>1, <2>2
  <2> QED BY <2>3
<1>8. ASSUME NEW x \in ToSet(p) PROVE x \in ToSet(q) \ {q[i]}
  <2>1. PICK k \in 1..(Len(q) - 1) : x = p[k]
    BY <1>4 DEF ToSet
  <2>2. \E j \in 1..Len(q) : j # i /\ x = q[j]
    BY <1>5, <2>1
  <2> QED BY <1>6, <2>2 DEF ToSet
<1>9. ASSUME NEW x \in ToSet(q) \ {q[i]} PROVE x \in ToSet(p)
  <2>1. PICK j \in 1..Len(q) : x = q[j] /\ j # i
    BY DEF ToSet
  <2>2. CASE j < i
    <3>1. j \in 1..(Len(q) - 1) /\ p[j] = x
      BY <1>5, <2>1, <2>2
    <3> QED BY <1>4, <3>1 DEF ToSet
  <2>3. CASE j > i
    <3>1. j - 1 \in 1..(Len(q) - 1) /\ p[j - 1] = x
      BY <1>5, <2>1, <2>3
    <3> QED BY <1>4, <3>1 DEF ToSet
  <2> QED BY <2>1, <2>2, <2>3
<1> QED BY <1>1, <1>4, <1>7, <1>8, <1>9

LEMMA LeaveLine ==
  ASSUME queue \in Seq(Task), IsInjective(queue), NEW t \in Task
  PROVE  IsInjective(Leave(t)) /\ ToSet(Leave(t)) = ToSet(queue) \ {t}
<1>1. CASE t \notin ToSet(queue)
  BY <1>1 DEF Leave
<1>2. CASE t \in ToSet(queue)
  <2> DEFINE i == CHOOSE k \in DOMAIN queue : queue[k] = t
  <2>1. i \in 1..Len(queue) /\ queue[i] = t
    BY <1>2 DEF ToSet
  <2>2. Leave(t) = RemoveAt(queue, i)
    BY <1>2 DEF Leave
  <2> HIDE DEF i
  <2> QED BY <2>1, <2>2, RemovedFromLine
<1> QED BY <1>1, <1>2

LEMMA JoinLine ==
  ASSUME queue \in Seq(Task), IsInjective(queue), NEW t \in Task, t \notin ToSet(queue)
  PROVE  IsInjective(Append(queue, t)) /\ ToSet(Append(queue, t)) = ToSet(queue) \cup {t}
<1> DEFINE q == Append(queue, t)
<1>1. q \in Seq(Task) /\ Len(q) = Len(queue) + 1 /\ q[Len(queue) + 1] = t
      /\ \A k \in 1..Len(queue) : q[k] = queue[k]
  OBVIOUS
<1> HIDE DEF q
<1>2. \A k \in 1..Len(queue) : queue[k] # t
  BY DEF ToSet
<1>3. \A j, k \in 1..Len(queue) : queue[j] = queue[k] => j = k
  BY DEF IsInjective
<1>4. IsInjective(q)
  <2> SUFFICES ASSUME NEW j \in 1..(Len(queue) + 1), NEW k \in 1..(Len(queue) + 1), q[j] = q[k]
               PROVE  j = k
    BY <1>1 DEF IsInjective
  <2> QED BY <1>1, <1>2, <1>3
<1>5. ToSet(q) = ToSet(queue) \cup {t}
  <2>1. \A x \in ToSet(q) : x \in ToSet(queue) \cup {t}
    BY <1>1 DEF ToSet
  <2>2. \A x \in ToSet(queue) \cup {t} : x \in ToSet(q)
    BY <1>1 DEF ToSet
  <2> QED BY <2>1, <2>2
<1> QED BY <1>4, <1>5 DEF q

\* In the line are exactly the tasks that wait for the lock or hold it.
InLine == {t \in Task : pc[t] \notin {"idle", "orphan"}}
Line == IsInjective(queue) /\ ToSet(queue) = InLine

LEMMA JoinStep ==
  ASSUME IInv, Line, NEW t \in Task, pc[t] = "idle",
         pc' = [pc EXCEPT ![t] = "wait"], queue' = Append(queue, t)
  PROVE  Line'
<1>1. t \notin ToSet(queue)
  BY DEF Line, InLine
<1>2. IsInjective(queue') /\ ToSet(queue') = ToSet(queue) \cup {t}
  BY <1>1, JoinLine DEF IInv, Shape, Line
<1>3. InLine' = InLine \cup {t}
  BY DEF InLine, IInv, Shape
<1> QED BY <1>2, <1>3 DEF Line

LEMMA EndStep ==
  ASSUME IInv, Line, NEW t \in Task, NEW next \in {"idle", "orphan"}, Ends(t, next)
  PROVE  Line'
<1>1. pc' = [pc EXCEPT ![t] = next] /\ queue' = Leave(t)
  BY DEF Ends
<1>2. IsInjective(queue') /\ ToSet(queue') = ToSet(queue) \ {t}
  BY <1>1, LeaveLine DEF IInv, Shape, Line
<1>3. InLine' = InLine \ {t}
  BY <1>1 DEF InLine, IInv, Shape
<1> QED BY <1>2, <1>3 DEF Line

\* A task that goes on keeps its place.
LEMMA StayStep ==
  ASSUME IInv, Line, queue' = queue,
         \A t \in Task : pc'[t] = pc[t]
                         \/ (pc[t] \notin {"idle", "orphan"} /\ pc'[t] \notin {"idle", "orphan"})
                         \/ (pc[t] = "orphan" /\ pc'[t] = "idle")
  PROVE  Line'
<1>1. InLine' = InLine
  BY DEF InLine
<1> QED BY <1>1 DEF Line

LEMMA LineStep == IInv /\ Line /\ [Next]_vars => Line'
<1> SUFFICES ASSUME IInv, Line, [Next]_vars PROVE Line'
  OBVIOUS
<1>0. pc \in [Task -> {"idle", "wait", "download", "write", "apply", "orphan"}]
      /\ Handler \subseteq Task /\ Refresher \in Task
  BY DEF IInv, Shape, Task
<1>1. CASE UNCHANGED vars
  BY <1>1, StayStep DEF vars
<1>2. ASSUME NEW f \in Local, ChangeFolder(f) PROVE Line'
  BY <1>2, StayStep DEF ChangeFolder
<1>3. CASE Refresh
  BY <1>0, <1>3, JoinStep DEF Refresh
<1>4. CASE Restart
  <2>1. queue' = <<>> /\ pc' = [t \in Task |-> "idle"]
    BY <1>4 DEF Restart
  <2>2. InLine' = {}
    BY <2>1 DEF InLine
  <2>3. IsInjective(<<>>) /\ ToSet(<<>>) = {}
    BY DEF IsInjective, ToSet
  <2> QED BY <2>1, <2>2, <2>3 DEF Line
<1>5. ASSUME NEW t \in Task, Publishes(t) PROVE Line'
  <2>1. CASE Begin(t) \/ Download(t) \/ Write(t)
    BY <1>0, <2>1, StayStep DEF Begin, Download, Write
  <2>2. CASE Fail(t) \/ WriteUnsynced(t) \/ Apply(t)
    BY <2>2, EndStep DEF Fail, WriteUnsynced, Apply
  <2> QED BY <1>5, <2>1, <2>2 DEF Publishes
<1>6. ASSUME NEW h \in Handler, NEW r \in Requests, Request(h, r) PROVE Line'
  BY <1>0, <1>6, JoinStep DEF Request
<1>7. ASSUME NEW h \in Handler, LockTimeout(h) \/ Refuse(h) PROVE Line'
  BY <1>0, <1>7, EndStep DEF LockTimeout, Refuse
<1>8. ASSUME NEW h \in Handler, DownloadTimeout(h) \/ Disconnect(h) PROVE Line'
  BY <1>0, <1>8, EndStep DEF DownloadTimeout, Disconnect, Abandoned
<1>9. ASSUME NEW h \in Handler, OrphanWrites(h) \/ OrphanFails(h) PROVE Line'
  BY <1>0, <1>9, StayStep DEF OrphanWrites, OrphanFails
<1> QED BY <1>1, <1>2, <1>3, <1>4, <1>5, <1>6, <1>7, <1>8, <1>9 DEF Next

\* Type correctness of the publication of blocklists; the line for
\* UPDATE_LOCK holds every waiting or publishing task once, and nobody else.
THEOREM TypeCorrect == Spec => []TypeOK
<1>1. Init => Line
  <2> SUFFICES ASSUME Init PROVE Line
    OBVIOUS
  <2>1. InLine = {} /\ queue = <<>>
    BY DEF Init, InLine
  <2>2. IsInjective(<<>>) /\ ToSet(<<>>) = {}
    BY DEF IsInjective, ToSet
  <2> QED BY <2>1, <2>2 DEF Line
<1>2. IInv /\ Line /\ [Next]_vars => Line'
  BY LineStep
<1>3. IInv /\ Knowledge /\ Line => TypeOK
  BY DEF IInv, Shape, Knowledge, Line, InLine, TypeOK
<1> QED BY <1>1, <1>2, <1>3, KnowledgeHolds, PTL DEF Spec
=============================================================================
