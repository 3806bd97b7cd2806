--------------------------- MODULE AnalyticsStore ---------------------------
(***************************************************************************)
(* The query log of AegisDNS (crates/analytics/src/lib.rs): the bounded    *)
(* channel the resolver path writes to without waiting, the worker that    *)
(* batches what it receives and inserts a batch in one transaction, the    *)
(* flush of a graceful shutdown, the deletion of logs from the dashboard   *)
(* and the daily retention.  A query is its serial number; `sent` tells    *)
(* what it was.  The two tables number their rows as SQLite does.          *)
(***************************************************************************)
EXTENDS Integers, Sequences, FiniteSets, SequencesExt

CONSTANTS
  Event,       \* the kinds of query there are
  Edge,        \* relationship observations
  What,        \* what a query of each kind leaves: device, edges, failed
  MaxQuery,    \* bound: queries of a behaviour
  QueueCap,    \* messages the channel holds (10,000)
  BatchSize,   \* a batch of this size is written at once (100)
  BatchMax,    \* a batch of this size receives nothing more (10,000)
  RowCap,      \* MAX_QUERY_ROWS
  RelCap,      \* MAX_RELATIONSHIP_ROWS
  Retention,   \* ticks of the retention window (30 days)
  Timeframe,   \* windows of "1h", "24h", "7d" and "all", in ticks
  Horizon,     \* bound: last tick of the clock
  MaxBoots     \* bound: starts of the process

ASSUME SizeAssumption ==
  /\ {MaxQuery, QueueCap, BatchSize, BatchMax, RowCap, RelCap, MaxBoots}
       \subseteq Nat \ {0}
  /\ Retention \in Nat /\ Horizon \in Nat /\ Timeframe \subseteq Nat

(* What the resolver reports: failed is a SERVFAIL, logged without edges.  *)
ASSUME EventAssumption ==
  \A ev \in Event : What[ev].failed \in BOOLEAN /\ What[ev].edges \in Seq(Edge)

VARIABLES
  now,         \* wall clock
  mode,        \* "up", "stopping" (services have ended, flush under way), "down"
  boots,
  sent,        \* the events recorded so far, with the time of the call
  queue,       \* the channel: serial numbers, or Flush
  batch,       \* the worker's batch
  rows,        \* table queries
  rels,        \* table dns_relationships
  flush,       \* the flush of this shutdown: "none", "waiting", "ok", "failed"
  covered,     \* history: queries recorded when that flush was sent
  dropped,     \* refused by a full channel (dropped_events)
  saved,       \* history: committed at some time
  lost,        \* history: in memory when a process ended
  removed      \* history: deleted or trimmed, the query or an edge of it

storeVars == <<now, mode, boots, sent, queue, batch, rows, rels, flush,
               covered, dropped, saved, lost, removed>>

Flush == 0
Serial == 1..Len(sent)
Queued == {queue[i] : i \in DOMAIN queue} \ {Flush}
Batched == {batch[i] : i \in DOMAIN batch}

StoreTypeOK ==
  /\ now \in 0..Horizon
  /\ mode \in {"up", "stopping", "down"}
  /\ boots \in 1..MaxBoots
  /\ sent \in Seq([ev : Event, at : 0..Horizon])
  /\ queue \in Seq(Serial \cup {Flush})
  /\ batch \in Seq(Serial)
  /\ rows \subseteq [id : Nat \ {0}, n : Serial, at : 0..Horizon]
  /\ rels \subseteq [id : Nat \ {0}, n : Serial, edge : Edge, at : 0..Horizon]
  /\ flush \in {"none", "waiting", "ok", "failed"} /\ covered \in 0..Len(sent)
  /\ {dropped, saved, lost, removed} \subseteq SUBSET Serial

StoreInit ==
  /\ now = 0 /\ mode = "up" /\ boots = 1
  /\ sent = <<>> /\ queue = <<>> /\ batch = <<>>
  /\ rows = {} /\ rels = {}
  /\ flush = "none" /\ covered = 0
  /\ dropped = {} /\ saved = {} /\ lost = {} /\ removed = {}

-----------------------------------------------------------------------------
(* The tables. An INTEGER PRIMARY KEY is one more than the largest in use. *)

Highest(table) ==
  IF table = {} THEN 0
  ELSE (CHOOSE t \in table : \A r \in table : r.id <= t.id).id

NextId(table) == Highest(table) + 1

InsertedRows(b) ==
  rows \cup {[id |-> NextId(rows) + i - 1, n |-> b[i], at |-> now] : i \in DOMAIN b}

(* The edges of a batch in the order of the two nested loops.              *)
EdgesOf(b) ==
  FlattenSeq([i \in DOMAIN b |->
    LET edges == What[sent[b[i]].ev].edges
    IN  [j \in DOMAIN edges |-> [n |-> b[i], edge |-> edges[j]]]])

InsertedRels(b) ==
  LET edges == EdgesOf(b)
  IN  rels \cup {[id |-> NextId(rels) + i - 1, n |-> edges[i].n,
                  edge |-> edges[i].edge, at |-> now] : i \in DOMAIN edges}

(* persist_batch: one transaction for both tables, after which the batch   *)
(* is cleared; an error at any point leaves the tables and keeps the batch.*)
Persist(b) ==
  /\ rows' = InsertedRows(b)
  /\ rels' = InsertedRels(b)
  /\ saved' = saved \cup {b[i] : i \in DOMAIN b}
  /\ batch' = <<>>

(* Seeded defect: the rows are inserted without a transaction, and the       *)
(* failure comes after the first table.                                      *)
RetainHalfWritten(b) ==
  /\ batch' = b /\ rows' = InsertedRows(b)
  /\ saved' = saved \cup {b[i] : i \in DOMAIN b} /\ UNCHANGED rels

Retain(b) == batch' = b /\ UNCHANGED <<rows, rels, saved>>

-----------------------------------------------------------------------------
(* record_query_with_relationships, record_failure: try_send. The queries  *)
(* of a proxy that has ended are aborted but not waited for: one that is   *)
(* being polled meanwhile still comes to this.                             *)
Running == mode # "down"

Record(ev) ==
  LET n == Len(sent) + 1
      full == Len(queue) >= QueueCap
  IN  /\ Running /\ n <= MaxQuery
      /\ sent' = Append(sent, [ev |-> ev, at |-> now])
      /\ queue' = IF full THEN queue ELSE Append(queue, n)
      /\ dropped' = IF full THEN dropped \cup {n} ELSE dropped
      /\ UNCHANGED <<now, mode, boots, batch, rows, rels, flush, covered, saved,
                     lost, removed>>

(* The worker takes the oldest message while its batch has room.           *)
Receiving == Running /\ queue # <<>> /\ Len(batch) < BatchMax

ReceiveQuery ==
  /\ Receiving /\ Head(queue) # Flush
  /\ LET b == Append(batch, Head(queue))
     IN  IF Len(b) >= BatchSize THEN Persist(b) \/ Retain(b) ELSE Retain(b)
  /\ queue' = Tail(queue)
  /\ UNCHANGED <<now, mode, boots, sent, flush, covered, dropped, lost, removed>>

(* The reply of a flush is the result of writing the batch; a caller that  *)
(* has timed out no longer listens.                                        *)
(* Seeded defect: the flush is answered at once, the batch left to the timer.  *)
ReceiveFlushEarly ==
  /\ Receiving /\ Head(queue) = Flush
  /\ flush' = IF flush = "waiting" THEN "ok" ELSE flush
  /\ queue' = Tail(queue)
  /\ UNCHANGED <<now, mode, boots, sent, batch, rows, rels, covered, dropped, saved,
                 lost, removed>>

ReceiveFlush ==
  /\ Receiving /\ Head(queue) = Flush
  /\ \/ Persist(batch) /\ flush' = IF flush = "waiting" THEN "ok" ELSE flush
     \/ batch # <<>> /\ Retain(batch)
        /\ flush' = IF flush = "waiting" THEN "failed" ELSE flush
  /\ queue' = Tail(queue)
  /\ UNCHANGED <<now, mode, boots, sent, covered, dropped, lost, removed>>

(* The 500 ms timer retries a batch that was retained.                     *)
TimerPersist ==
  /\ Running /\ batch # <<>> /\ Persist(batch)
  /\ UNCHANGED <<now, mode, boots, sent, queue, flush, covered, dropped, lost, removed>>

-----------------------------------------------------------------------------
(* Deletion and retention, in one transaction over both tables.            *)

Keep(keptRows, keptRels) ==
  /\ rows' = keptRows /\ rels' = keptRels
  /\ removed' = removed \cup {r.n : r \in rows \ keptRows}
                        \cup {r.n : r \in rels \ keptRels}
  /\ UNCHANGED <<now, mode, boots, sent, queue, batch, flush, covered, dropped,
                 saved, lost>>

Older(table, window) == {r \in table : r.at < now - window}

DeleteLogs(window) == Running /\ Keep(Older(rows, window), Older(rels, window))

Unexpired(table) == {r \in table : r.at >= now - Retention}

(* trim_to_row_cap: the cut-off is computed from the largest id alone.     *)
(* Seeded defect: the cut-off itself is kept.                                *)
TrimmedAbove(table, cap) == {r \in table : r.id >= Highest(table) - cap}

Trimmed(table, cap) == {r \in table : r.id > Highest(table) - cap}

Cleanup ==
  Running /\ Keep(Trimmed(Unexpired(rows), RowCap), Trimmed(Unexpired(rels), RelCap))

-----------------------------------------------------------------------------
(* Shutdown: main aborts its services and waits for them, which drops the  *)
(* sets of queries they started, aborting these without waiting for them;  *)
(* then it flushes and returns.                                            *)

BeginStop ==
  /\ mode = "up" /\ boots < MaxBoots
  /\ mode' = "stopping"
  /\ UNCHANGED <<now, boots, sent, queue, batch, rows, rels, flush, covered, dropped,
                 saved, lost, removed>>

SendFlush ==
  /\ mode = "stopping" /\ flush = "none" /\ Len(queue) < QueueCap
  /\ queue' = Append(queue, Flush) /\ flush' = "waiting" /\ covered' = Len(sent)
  /\ UNCHANGED <<now, mode, boots, sent, batch, rows, rels, dropped, saved, lost, removed>>

FlushTimeout ==
  /\ mode = "stopping" /\ flush \in {"none", "waiting"}
  /\ flush' = "failed"
  /\ UNCHANGED <<now, mode, boots, sent, queue, batch, rows, rels, covered, dropped,
                 saved, lost, removed>>

(* The process ends: what is in memory is gone.                            *)
End ==
  /\ mode' = "down"
  /\ lost' = lost \cup Queued \cup Batched
  /\ queue' = <<>> /\ batch' = <<>>
  /\ UNCHANGED <<now, boots, sent, rows, rels, flush, covered, dropped, saved, removed>>

Exit == mode = "stopping" /\ flush \in {"ok", "failed"} /\ End
Crash == Running /\ boots < MaxBoots /\ End

Boot ==
  /\ mode = "down"
  /\ mode' = "up" /\ boots' = boots + 1 /\ flush' = "none" /\ covered' = 0
  /\ UNCHANGED <<now, sent, queue, batch, rows, rels, dropped, saved, lost, removed>>

Tick ==
  /\ now < Horizon /\ now' = now + 1
  /\ UNCHANGED <<mode, boots, sent, queue, batch, rows, rels, flush, covered, dropped,
                 saved, lost, removed>>

(* The steps that involve the log alone.                                   *)
StoreStep ==
  \/ ReceiveQuery \/ ReceiveFlush \/ TimerPersist
  \/ \E window \in Timeframe : DeleteLogs(window)
  \/ Cleanup
  \/ BeginStop \/ SendFlush \/ FlushTimeout
  \/ Tick

-----------------------------------------------------------------------------
(* Every recorded query is in exactly one place: refused, in the channel,  *)
(* in the batch, committed, or lost with a process. No retry of a batch    *)
(* that failed commits a query twice, and none vanishes on the way.        *)
EveryQueryOnce ==
  LET places == <<dropped, Queued, Batched, saved, lost>>
  IN  /\ UNION {places[i] : i \in DOMAIN places} = Serial
      /\ \A i, j \in DOMAIN places : i # j => places[i] \cap places[j] = {}
      /\ Len(batch) = Cardinality(Batched)
      /\ \A r, s \in rows : r.n = s.n => r = s

(* A shutdown whose flush succeeded leaves in memory nothing that was      *)
(* recorded before the flush was sent, however full the channel was and    *)
(* whichever writes failed before. Only a query that was being polled when *)
(* it was aborted may come after the flush, and is lost with the process.  *)
FlushMeansSaved ==
  flush = "ok" => \A n \in Queued \cup Batched : n > covered

(* Retention by the largest id keeps exactly the newest RowCap rows that   *)
(* are not expired: deletions of a window never leave holes that would     *)
(* make the cut-off take younger rows than it should.                      *)
Newest(table, cap) ==
  {r \in table : Cardinality({s \in table : s.id > r.id}) < cap}

RetentionKeepsNewest ==
  /\ Trimmed(Unexpired(rows), RowCap) = Newest(Unexpired(rows), RowCap)
  /\ Trimmed(Unexpired(rels), RelCap) = Newest(Unexpired(rels), RelCap)
=============================================================================
