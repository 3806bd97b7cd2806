------------------------- MODULE PrivacyBudgetProofs -------------------------
(***************************************************************************)
(* Proofs about the query log and the privacy guard that is rebuilt from it*)
(* (PrivacyBudget): every query is in one place, a flush that succeeded    *)
(* left nothing behind, every query is charged once, a budget that is spent*)
(* stays spent, and the retention keeps exactly the newest rows, for any   *)
(* sizes of channel, batch and tables, any number of queries, days, starts.*)
(***************************************************************************)
EXTENDS PrivacyBudget, FiniteSetTheorems, TLAPS

Queries(q) == {q[i] : i \in DOMAIN q} \ {Flush}

(* No query is twice in a sequence of messages.                            *)
Distinct(q) == \A i, j \in DOMAIN q : q[i] = q[j] /\ q[i] # Flush => i = j

(* The five places a query can be in.                                      *)
Apart(d, q, b, s, l) ==
  /\ d \cap q = {} /\ d \cap b = {} /\ d \cap s = {} /\ d \cap l = {}
  /\ q \cap b = {} /\ q \cap s = {} /\ q \cap l = {}
  /\ b \cap s = {} /\ b \cap l = {} /\ s \cap l = {}

LogTypes ==
  /\ now \in Nat /\ sent \in Seq([ev : Event, at : Nat])
  /\ queue \in Seq(Nat) /\ batch \in Seq(Nat \ {0})

BatchCounted ==
  /\ Distinct(batch) /\ IsFiniteSet(Queries(batch))
  /\ Len(batch) = Cardinality(Queries(batch))

RowsOnce ==
  /\ \A r \in rows : r.n \in saved
  /\ \A r, s \in rows : r.n = s.n => r = s

Placed ==
  /\ Apart(dropped, Queries(queue), Queries(batch), saved, lost)
  /\ dropped \cup Queries(queue) \cup Queries(batch) \cup saved \cup lost = 1..Len(sent)

(* All that was recorded before the flush was sent is in front of it in    *)
(* the channel; behind it are only queries that were aborted while polled. *)
FlushAt(k) ==
  /\ \A i \in DOMAIN queue : queue[i] = Flush <=> i = k
  /\ \A i \in DOMAIN queue : i > k => queue[i] > covered

FlushInOrder ==
  /\ covered \in Nat /\ covered <= Len(sent)
  /\ mode = "up" => flush = "none"
  /\ mode = "down" => queue = <<>> /\ batch = <<>>
  /\ flush = "none" => \A i \in DOMAIN queue : queue[i] # Flush
  /\ flush = "waiting" /\ mode # "down" => \E k \in DOMAIN queue : FlushAt(k)
  /\ flush = "ok" => \A n \in Queries(queue) \cup Queries(batch) : n > covered

LogInv ==
  /\ LogTypes /\ Distinct(queue) /\ BatchCounted /\ RowsOnce /\ Placed
  /\ FlushInOrder

-----------------------------------------------------------------------------
(* Sequences of messages.                                                  *)

LEMMA NoMessage == Queries(<<>>) = {} /\ Distinct(<<>>)
BY DEF Queries, Distinct

LEMMA Appended ==
  ASSUME NEW q \in Seq(Nat), NEW n \in Nat
  PROVE  /\ Append(q, n) \in Seq(Nat) /\ Len(Append(q, n)) = Len(q) + 1
         /\ Queries(Append(q, n)) = IF n = Flush THEN Queries(q) ELSE Queries(q) \cup {n}
         /\ Distinct(q) /\ n \notin Queries(q) => Distinct(Append(q, n))
<1> DEFINE p == Append(q, n)
<1>1. /\ p \in Seq(Nat) /\ Len(p) = Len(q) + 1 /\ Len(q) \in Nat
      /\ DOMAIN q = 1..Len(q) /\ DOMAIN p = 1..Len(q) + 1
      /\ p[Len(q) + 1] = n /\ \A i \in 1..Len(q) : p[i] = q[i]
  OBVIOUS
<1> HIDE DEF p
<1>2. {p[i] : i \in DOMAIN p} = {q[i] : i \in DOMAIN q} \cup {n}
  <2>1. ASSUME NEW i \in DOMAIN p PROVE p[i] = n \/ (i \in DOMAIN q /\ p[i] = q[i])
    <3>1. i = Len(q) + 1 \/ i \in 1..Len(q)
      BY <1>1, <2>1
    <3> QED  BY <1>1, <3>1
  <2>2. Len(q) + 1 \in DOMAIN p
    BY <1>1
  <2>3. ASSUME NEW i \in DOMAIN q PROVE i \in DOMAIN p /\ p[i] = q[i]
    BY <1>1, <2>3
  <2> QED  BY <1>1, <2>1, <2>2, <2>3
<1>3. ASSUME Distinct(q), n \notin Queries(q) PROVE Distinct(p)
  <2>1. \A i \in 1..Len(q) : q[i] = n => n = Flush
    BY <1>1, <1>3 DEF Queries
  <2>2. ASSUME NEW i \in 1..Len(q) + 1, NEW j \in 1..Len(q) + 1, p[i] = p[j], p[i] # Flush
        PROVE  i = j
    <3>1. CASE i \in 1..Len(q) /\ j \in 1..Len(q)
      <4>1. q[i] = q[j] /\ q[i] # Flush
        BY <1>1, <2>2, <3>1
      <4> QED  BY <1>1, <1>3, <3>1, <4>1 DEF Distinct
    <3>2. CASE i \in 1..Len(q) /\ j = Len(q) + 1
      BY <1>1, <2>1, <2>2, <3>2
    <3>3. CASE i = Len(q) + 1 /\ j \in 1..Len(q)
      BY <1>1, <2>1, <2>2, <3>3
    <3> QED  BY <1>1, <3>1, <3>2, <3>3
  <2> QED  BY <1>1, <2>2 DEF Distinct
<1> QED  BY <1>1, <1>2, <1>3 DEF Queries, p

LEMMA Taken ==
  ASSUME NEW q \in Seq(Nat), q # <<>>
  PROVE  /\ Tail(q) \in Seq(Nat) /\ Head(q) \in Nat /\ Len(Tail(q)) = Len(q) - 1
         /\ \A i \in DOMAIN Tail(q) : i + 1 \in DOMAIN q /\ Tail(q)[i] = q[i + 1]
         /\ 1 \in DOMAIN q /\ q[1] = Head(q)
         /\ Distinct(q) => /\ Distinct(Tail(q))
                           /\ Queries(Tail(q)) = Queries(q) \ {Head(q)}
                           /\ Head(q) # Flush => Head(q) \in Queries(q)
<1> DEFINE t == Tail(q)
<1>1. /\ t \in Seq(Nat) /\ Len(t) = Len(q) - 1 /\ Len(q) \in Nat \ {0}
      /\ DOMAIN q = 1..Len(q) /\ DOMAIN t = 1..Len(q) - 1
      /\ \A i \in 1..Len(q) - 1 : t[i] = q[i + 1]
      /\ Head(q) = q[1] /\ Head(q) \in Nat
  OBVIOUS
<1> HIDE DEF t
<1>2. ASSUME Distinct(q)
      PROVE  /\ Distinct(t) /\ Queries(t) = Queries(q) \ {q[1]}
             /\ q[1] # Flush => q[1] \in Queries(q)
  <2>0. \A i \in 1..Len(q) - 1 : i + 1 \in DOMAIN q /\ t[i] = q[i + 1]
    BY <1>1
  <2>1. Distinct(t)
    <3>1. ASSUME NEW i \in 1..Len(q) - 1, NEW j \in 1..Len(q) - 1, t[i] = t[j], t[i] # Flush
          PROVE  i = j
      <4>1. q[i + 1] = q[j + 1] /\ q[i + 1] # Flush
        BY <2>0, <3>1
      <4>2. i + 1 = j + 1
        BY <1>2, <2>0, <4>1 DEF Distinct
      <4> QED  BY <1>1, <4>2
    <3> QED  BY <1>1, <3>1 DEF Distinct
  <2>2. ASSUME NEW x \in Queries(t) PROVE x \in Queries(q) /\ x # q[1]
    <3>1. PICK i \in 1..Len(q) - 1 : t[i] = x /\ x # Flush
      BY <1>1 DEF Queries
    <3>2. i + 1 \in DOMAIN q /\ q[i + 1] = x /\ 1 \in DOMAIN q /\ i + 1 # 1
      BY <1>1, <2>0, <3>1
    <3>3. x # q[1]
      BY <1>2, <3>1, <3>2 DEF Distinct
    <3> QED  BY <3>1, <3>2, <3>3 DEF Queries
  <2>3. ASSUME NEW x \in Queries(q), x # q[1] PROVE x \in Queries(t)
    <3>1. PICK i \in 1..Len(q) : q[i] = x
      BY <1>1 DEF Queries
    <3>2. i - 1 \in DOMAIN t /\ t[i - 1] = x
      BY <1>1, <2>3, <3>1
    <3> QED  BY <2>3, <3>2 DEF Queries
  <2>4. q[1] # Flush => q[1] \in Queries(q)
    <3>1. 1 \in DOMAIN q
      BY <1>1
    <3> QED  BY <3>1 DEF Queries
  <2> QED  BY <2>1, <2>2, <2>3, <2>4
<1> QED  BY <1>1, <1>2 DEF t

LEMMA LogInitInv == Init => LogInv
<1> SUFFICES ASSUME Init PROVE LogInv
  OBVIOUS
<1>1. /\ now = 0 /\ mode = "up" /\ sent = <<>> /\ queue = <<>> /\ batch = <<>> /\ rows = {}
      /\ flush = "none" /\ covered = 0 /\ dropped = {} /\ saved = {} /\ lost = {}
  BY DEF Init, StoreInit
<1>2. /\ Len(sent) = 0 /\ queue \in Seq(Nat) /\ batch \in Seq(Nat \ {0}) /\ DOMAIN queue = {}
      /\ Len(batch) = 0 /\ sent \in Seq([ev : Event, at : Nat])
  BY <1>1
<1>3. IsFiniteSet({}) /\ Cardinality({}) = 0
  BY FS_EmptySet
<1>4. BatchCounted
  BY <1>1, <1>2, <1>3, NoMessage DEF BatchCounted
<1>5. Placed
  BY <1>1, <1>2, NoMessage DEF Placed, Apart
<1>6. FlushInOrder
  BY <1>1, <1>2 DEF FlushInOrder
<1> QED  BY <1>1, <1>2, <1>4, <1>5, <1>6, NoMessage DEF LogInv, LogTypes, RowsOnce

-----------------------------------------------------------------------------
(* A batch is written, or kept.                                            *)
LEMMA Persisted ==
  ASSUME NEW b \in Seq(Nat \ {0}), Distinct(b), RowsOnce, Queries(b) \cap saved = {}, Persist(b)
  PROVE  /\ RowsOnce' /\ saved' = saved \cup Queries(b) /\ batch' = <<>>
<1>1. /\ rows' = rows \cup {[id |-> NextId(rows) + i - 1, n |-> b[i], at |-> now] : i \in DOMAIN b}
      /\ saved' = saved \cup {b[i] : i \in DOMAIN b} /\ batch' = <<>>
  BY DEF Persist, InsertedRows
<1>2. /\ \A i \in DOMAIN b : b[i] # Flush
      /\ \A i, j \in DOMAIN b : b[i] = b[j] => i = j
  BY DEF Distinct, Flush
<1>3. Queries(b) = {b[i] : i \in DOMAIN b}
  BY <1>2 DEF Queries
<1> DEFINE new(i) == [id |-> NextId(rows) + i - 1, n |-> b[i], at |-> now]
<1>4. \A r \in rows' : r \in rows \/ \E i \in DOMAIN b : r = new(i)
  BY <1>1
<1>5. \A i \in DOMAIN b : new(i).n = b[i]
  OBVIOUS
<1> HIDE DEF new
<1>6. \A r \in rows' : r.n \in saved'
  BY <1>1, <1>4, <1>5 DEF RowsOnce
<1>7. ASSUME NEW r \in rows', NEW s \in rows', r.n = s.n PROVE r = s
  <2>1. CASE r \in rows /\ s \in rows
    BY <1>7, <2>1 DEF RowsOnce
  <2>2. CASE r \in rows /\ s \notin rows
    <3>1. PICK i \in DOMAIN b : s = new(i)
      BY <1>4, <2>2
    <3> QED  BY <1>3, <1>5, <1>7, <2>2, <3>1 DEF RowsOnce
  <2>3. CASE r \notin rows /\ s \in rows
    <3>1. PICK i \in DOMAIN b : r = new(i)
      BY <1>4, <2>3
    <3> QED  BY <1>3, <1>5, <1>7, <2>3, <3>1 DEF RowsOnce
  <2>4. CASE r \notin rows /\ s \notin rows
    <3>1. PICK i \in DOMAIN b, j \in DOMAIN b : r = new(i) /\ s = new(j)
      BY <1>4, <2>4
    <3> QED  BY <1>2, <1>5, <1>7, <3>1
  <2> QED  BY <2>1, <2>2, <2>3, <2>4
<1> QED  BY <1>1, <1>3, <1>6, <1>7 DEF RowsOnce

LEMMA EmptyBatch ==
  ASSUME batch' = <<>>
  PROVE  BatchCounted' /\ batch' \in Seq(Nat \ {0}) /\ Queries(batch)' = {}
<1>1. Queries(batch)' = {} /\ Distinct(batch)' /\ Len(batch') = 0 /\ batch' \in Seq(Nat \ {0})
  BY NoMessage DEF Queries, Distinct
<1> QED  BY <1>1, FS_EmptySet DEF BatchCounted

LEMMA RecordKeeps ==
  ASSUME LogInv, NEW ev \in Event, Record(ev)
  PROVE  LogInv'
<1> DEFINE n == Len(sent) + 1
           m == [ev |-> ev, at |-> now]
<1>1. /\ sent' = Append(sent, m) /\ mode # "down"
      /\ \/ queue' = queue /\ dropped' = dropped \cup {n}
         \/ queue' = Append(queue, n) /\ dropped' = dropped
      /\ UNCHANGED <<now, mode, boots, batch, rows, rels, flush, covered, saved, lost, removed>>
  BY DEF Record, Running
<1>2. /\ sent \in Seq([ev : Event, at : Nat]) /\ m \in [ev : Event, at : Nat]
      /\ queue \in Seq(Nat) /\ batch \in Seq(Nat \ {0}) /\ now \in Nat
  BY DEF LogInv, LogTypes
<1> HIDE DEF m
<1>3. /\ sent' \in Seq([ev : Event, at : Nat]) /\ Len(sent') = n /\ n \in Nat \ {0}
      /\ 1..Len(sent') = 1..Len(sent) \cup {n} /\ n \notin 1..Len(sent)
  BY <1>1, <1>2
<1> HIDE DEF n
<1>4. n # Flush /\ n \notin dropped /\ n \notin Queries(queue) /\ n \notin Queries(batch)
      /\ n \notin saved /\ n \notin lost
  BY <1>3 DEF LogInv, Placed, Flush
<1>5. /\ queue' \in Seq(Nat) /\ Distinct(queue')
      /\ \/ Queries(queue') = Queries(queue) /\ dropped' = dropped \cup {n}
         \/ Queries(queue') = Queries(queue) \cup {n} /\ dropped' = dropped
      /\ \A i \in DOMAIN queue' : \/ i \in DOMAIN queue /\ queue'[i] = queue[i]
                                  \/ i \notin DOMAIN queue /\ queue'[i] = n
      /\ \A i \in DOMAIN queue : i \in DOMAIN queue' /\ queue'[i] = queue[i]
  <2>1. CASE queue' = queue /\ dropped' = dropped \cup {n}
    <3>1. Distinct(queue)
      BY DEF LogInv
    <3>2. queue' \in Seq(Nat) /\ Distinct(queue') /\ Queries(queue') = Queries(queue)
      BY <1>2, <2>1, <3>1
    <3>3. /\ \A i \in DOMAIN queue' : i \in DOMAIN queue /\ queue'[i] = queue[i]
          /\ \A i \in DOMAIN queue : i \in DOMAIN queue' /\ queue'[i] = queue[i]
      BY <2>1
    <3> QED  BY <2>1, <3>2, <3>3
  <2>2. CASE queue' = Append(queue, n) /\ dropped' = dropped
    <3>1. /\ queue' \in Seq(Nat) /\ Queries(queue') = Queries(queue) \cup {n}
          /\ Distinct(queue')
      BY <1>2, <1>3, <1>4, <2>2, Appended DEF LogInv
    <3>2. /\ \A i \in DOMAIN queue' : \/ i \in DOMAIN queue /\ queue'[i] = queue[i]
                                      \/ i \notin DOMAIN queue /\ queue'[i] = n
          /\ \A i \in DOMAIN queue : i \in DOMAIN queue' /\ queue'[i] = queue[i]
      <4>1. PICK q \in Seq(Nat), x \in Nat : q = queue /\ x = n
        BY <1>2, <1>3
      <4>2. /\ DOMAIN q = 1..Len(q) /\ DOMAIN Append(q, x) = 1..Len(q) + 1
            /\ Len(q) \in Nat /\ Append(q, x)[Len(q) + 1] = x
            /\ \A i \in 1..Len(q) : Append(q, x)[i] = q[i]
        OBVIOUS
      <4>3. queue' = Append(q, x)
        BY <2>2, <4>1
      <4>4. /\ DOMAIN queue = 1..Len(queue) /\ DOMAIN queue' = 1..Len(queue) + 1
            /\ Len(queue) \in Nat /\ queue'[Len(queue) + 1] = n
            /\ \A i \in 1..Len(queue) : queue'[i] = queue[i]
        BY <4>1, <4>2, <4>3
      <4> QED  BY <4>4
    <3> QED  BY <2>2, <3>1, <3>2
  <2> QED  BY <1>1, <2>1, <2>2
<1>6. Placed'
  <2>1. Queries(queue)' = Queries(queue') /\ Queries(batch)' = Queries(batch)
    BY <1>1 DEF Queries
  <2>2. Placed
    BY DEF LogInv
  <2> QED  BY <1>1, <1>3, <1>4, <1>5, <2>1, <2>2 DEF Placed, Apart
<1>7. FlushInOrder'
  <2>1. FlushInOrder /\ Len(sent) \in Nat /\ n = Len(sent) + 1
    BY <1>2 DEF LogInv, n
  <2>2. covered' = covered /\ covered \in Nat /\ covered <= Len(sent') /\ n > covered
    BY <1>1, <1>3, <2>1 DEF FlushInOrder
  <2>3. ASSUME flush = "none" PROVE \A i \in DOMAIN queue' : queue'[i] # Flush
    BY <1>4, <1>5, <2>1, <2>3 DEF FlushInOrder
  <2>4. ASSUME flush = "waiting" PROVE \E k \in DOMAIN queue' : FlushAt(k)'
    <3>1. PICK k \in DOMAIN queue : FlushAt(k)
      BY <1>1, <2>1, <2>4 DEF FlushInOrder
    <3>2. k \in DOMAIN queue' /\ FlushAt(k)'
      BY <1>4, <1>5, <2>2, <3>1 DEF FlushAt
    <3> QED BY <3>2
  <2>5. ASSUME flush = "ok" PROVE \A x \in Queries(queue)' \cup Queries(batch)' : x > covered
    <3>1. Queries(queue)' \subseteq Queries(queue) \cup {n} /\ Queries(batch)' = Queries(batch)
      BY <1>1, <1>5 DEF Queries
    <3> QED BY <2>1, <2>2, <2>5, <3>1 DEF FlushInOrder
  <2> QED BY <1>1, <2>1, <2>2, <2>3, <2>4, <2>5 DEF FlushInOrder
<1> QED
  BY <1>1, <1>2, <1>3, <1>5, <1>6, <1>7
  DEF LogInv, LogTypes, BatchCounted, RowsOnce, Distinct, Queries

(* A query moves from the channel to the batch, or with it to the tables.  *)
LEMMA ReceiveQueryKeeps ==
  ASSUME LogInv, ReceiveQuery
  PROVE  LogInv'
<1>0. PICK n : n = Head(queue)
  OBVIOUS
<1> DEFINE b == Append(batch, n)
<1>1. /\ queue # <<>> /\ n # Flush /\ mode # "down" /\ queue' = Tail(queue)
      /\ Persist(b) \/ Retain(b)
      /\ UNCHANGED <<now, mode, boots, sent, flush, covered, dropped, lost, removed>>
  BY <1>0 DEF ReceiveQuery, Receiving, Running
<1>2. /\ queue \in Seq(Nat) /\ batch \in Seq(Nat \ {0}) /\ Distinct(queue)
      /\ BatchCounted /\ RowsOnce /\ Placed /\ FlushInOrder
  BY DEF LogInv, LogTypes
<1>3. /\ queue' \in Seq(Nat) /\ Distinct(queue') /\ n \in Nat \ {0}
      /\ Queries(queue') = Queries(queue) \ {n} /\ n \in Queries(queue)
      /\ Len(queue') = Len(queue) - 1
      /\ \A i \in DOMAIN queue' : i + 1 \in DOMAIN queue /\ queue'[i] = queue[i + 1]
      /\ 1 \in DOMAIN queue /\ queue[1] = n
  BY <1>0, <1>1, <1>2, Taken DEF Flush
<1>4. n \notin Queries(batch) /\ n \notin saved
  BY <1>2, <1>3 DEF Placed, Apart
<1>5. /\ b \in Seq(Nat \ {0}) /\ Len(b) = Len(batch) + 1
      /\ Queries(b) = Queries(batch) \cup {n} /\ Distinct(b)
  <2>1. batch \in Seq(Nat)
    BY <1>2
  <2>2. b \in Seq(Nat \ {0})
    BY <1>2, <1>3
  <2> QED  BY <1>1, <1>2, <1>3, <1>4, <2>1, <2>2, Appended DEF BatchCounted
<1> HIDE DEF b
<1>6. /\ batch' \in Seq(Nat \ {0}) /\ BatchCounted' /\ RowsOnce'
      /\ \/ saved' = saved \cup Queries(batch) \cup {n} /\ Queries(batch)' = {}
         \/ saved' = saved /\ Queries(batch)' = Queries(batch) \cup {n}
  <2>1. CASE Persist(b)
    <3>1. Queries(b) \cap saved = {}
      BY <1>2, <1>4, <1>5 DEF Placed, Apart
    <3>2. RowsOnce' /\ saved' = saved \cup Queries(b) /\ batch' = <<>>
      BY <1>2, <1>5, <2>1, <3>1, Persisted
    <3> QED  BY <1>5, <3>2, EmptyBatch
  <2>2. CASE Retain(b)
    <3>1. batch' = b /\ rows' = rows /\ saved' = saved
      BY <2>2 DEF Retain
    <3>2. IsFiniteSet(Queries(b)) /\ Cardinality(Queries(b)) = Cardinality(Queries(batch)) + 1
      BY <1>2, <1>4, <1>5, FS_AddElement DEF BatchCounted
    <3>5. Queries(batch)' = Queries(b) /\ Distinct(batch)'
      BY <1>5, <3>1 DEF Queries, Distinct
    <3>3. BatchCounted'
      BY <1>2, <1>5, <3>1, <3>2, <3>5 DEF BatchCounted
    <3>4. RowsOnce'
      BY <1>2, <3>1 DEF RowsOnce
    <3> QED  BY <1>5, <3>1, <3>3, <3>4, <3>5
  <2> QED  BY <1>1, <2>1, <2>2
<1>7. Placed'
  <2>1. Queries(queue)' = Queries(queue) \ {n}
    BY <1>3 DEF Queries
  <2> QED  BY <1>1, <1>2, <1>3, <1>4, <1>6, <2>1 DEF Placed, Apart
<1>8. FlushInOrder'
  <2>1. mode' = mode /\ flush' = flush /\ covered' = covered /\ sent' = sent
    BY <1>1
  <2>2. ASSUME flush = "waiting" PROVE \E k \in DOMAIN queue' : FlushAt(k)'
    <3>1. PICK k \in DOMAIN queue : FlushAt(k)
      BY <1>1, <1>2, <2>2 DEF FlushInOrder
    <3>2. k # 1 /\ k \in Nat /\ k - 1 \in DOMAIN queue'
      <4>1. queue[1] # Flush /\ 1 \in DOMAIN queue
        BY <1>1, <1>3
      <4>2. k # 1
        BY <3>1, <4>1 DEF FlushAt
      <4>3. DOMAIN queue = 1..Len(queue) /\ DOMAIN queue' = 1..Len(queue) - 1 /\ Len(queue) \in Nat
        BY <1>2, <1>3
      <4> QED  BY <3>1, <4>2, <4>3
    <3>3. ASSUME NEW i \in DOMAIN queue'
          PROVE  (queue'[i] = Flush <=> i = k - 1) /\ (i > k - 1 => queue'[i] > covered)
      <4>1. /\ i \in Nat /\ i + 1 \in DOMAIN queue /\ queue'[i] = queue[i + 1]
            /\ queue[i + 1] = Flush <=> i + 1 = k
            /\ i + 1 > k => queue[i + 1] > covered
        BY <1>3, <3>1 DEF FlushAt
      <4> QED  BY <3>2, <4>1
    <3>4. FlushAt(k - 1)'
      BY <2>1, <3>3 DEF FlushAt
    <3> QED  BY <3>2, <3>4
  <2>3. ASSUME flush = "ok" PROVE \A x \in Queries(queue)' \cup Queries(batch)' : x > covered
    <3>1. Queries(queue)' \subseteq Queries(queue) /\ Queries(batch)' \subseteq Queries(batch) \cup {n}
      BY <1>3, <1>6 DEF Queries
    <3> QED  BY <1>2, <1>3, <2>3, <3>1 DEF FlushInOrder
  <2>4. ASSUME flush = "none" PROVE \A i \in DOMAIN queue' : queue'[i] # Flush
    BY <1>2, <1>3, <2>4 DEF FlushInOrder
  <2> QED  BY <1>1, <1>2, <2>1, <2>2, <2>3, <2>4 DEF FlushInOrder
<1>9. LogTypes' /\ Distinct(queue)'
  BY <1>1, <1>3, <1>6 DEF LogInv, LogTypes, Distinct
<1> QED  BY <1>6, <1>7, <1>8, <1>9 DEF LogInv

(* What is written leaves the batch for the tables.                        *)
LEMMA BatchWritten ==
  ASSUME LogInv, Persist(batch)
  PROVE  /\ batch' = <<>> /\ batch' \in Seq(Nat \ {0}) /\ BatchCounted' /\ RowsOnce'
         /\ saved' = saved \cup Queries(batch) /\ Queries(batch)' = {}
<1>1. /\ batch \in Seq(Nat \ {0}) /\ Distinct(batch) /\ RowsOnce
      /\ Queries(batch) \cap saved = {}
  BY DEF LogInv, LogTypes, BatchCounted, Placed, Apart
<1> QED  BY <1>1, Persisted, EmptyBatch

LEMMA BatchKept ==
  ASSUME LogInv, UNCHANGED <<batch, rows, saved>>
  PROVE  /\ batch' \in Seq(Nat \ {0}) /\ BatchCounted' /\ RowsOnce'
         /\ Queries(batch)' = Queries(batch)
<1>1. Queries(batch)' = Queries(batch) /\ (Distinct(batch)' <=> Distinct(batch))
  BY DEF Queries, Distinct
<1>2. RowsOnce'
  BY DEF LogInv, RowsOnce
<1> QED  BY <1>1, <1>2 DEF LogInv, LogTypes, BatchCounted

LEMMA ReceiveFlushKeeps ==
  ASSUME LogInv, ReceiveFlush
  PROVE  LogInv'
<1>1. /\ queue # <<>> /\ Head(queue) = Flush /\ mode # "down" /\ queue' = Tail(queue)
      /\ UNCHANGED <<now, mode, boots, sent, covered, dropped, lost, removed>>
  BY DEF ReceiveFlush, Receiving, Running
<1>2. /\ queue \in Seq(Nat) /\ Distinct(queue) /\ Placed /\ FlushInOrder
  BY DEF LogInv, LogTypes
<1>3. /\ queue' \in Seq(Nat) /\ Distinct(queue') /\ Queries(queue') = Queries(queue) \ {Flush}
      /\ \A i \in DOMAIN queue' : i + 1 \in DOMAIN queue /\ queue'[i] = queue[i + 1]
      /\ 1 \in DOMAIN queue /\ queue[1] = Flush /\ Len(queue') = Len(queue) - 1
  BY <1>1, <1>2, Taken
<1>4. Queries(queue') = Queries(queue)
  BY <1>3 DEF Queries
<1>5. /\ flush # "none"
      /\ flush = "waiting" => \A x \in Queries(queue') : x > covered
  <2>1. flush # "none"
    BY <1>1, <1>2, <1>3 DEF FlushInOrder
  <2>2. ASSUME flush = "waiting", NEW x \in Queries(queue') PROVE x > covered
    <3>1. PICK k \in DOMAIN queue : FlushAt(k)
      BY <1>1, <1>2, <2>2 DEF FlushInOrder
    <3>2. k = 1
      BY <1>3, <3>1 DEF FlushAt
    <3>3. PICK i \in DOMAIN queue' : queue'[i] = x
      BY <2>2 DEF Queries
    <3>4. DOMAIN queue' = 1..Len(queue')
      BY <1>3
    <3>5. i + 1 \in DOMAIN queue /\ queue[i + 1] = x /\ i + 1 > k
      BY <1>3, <3>2, <3>3, <3>4
    <3> QED  BY <3>1, <3>5 DEF FlushAt
  <2> QED  BY <2>1, <2>2
<1>6. /\ batch' \in Seq(Nat \ {0}) /\ BatchCounted' /\ RowsOnce'
      /\ \/ /\ saved' = saved \cup Queries(batch) /\ Queries(batch)' = {} /\ batch' = <<>>
            /\ flush' = IF flush = "waiting" THEN "ok" ELSE flush
         \/ /\ saved' = saved /\ Queries(batch)' = Queries(batch)
            /\ flush' = IF flush = "waiting" THEN "failed" ELSE flush
  <2>1. CASE Persist(batch) /\ flush' = IF flush = "waiting" THEN "ok" ELSE flush
    BY <2>1, BatchWritten
  <2>2. CASE Retain(batch) /\ flush' = IF flush = "waiting" THEN "failed" ELSE flush
    BY <2>2, BatchKept DEF Retain
  <2> QED  BY <2>1, <2>2 DEF ReceiveFlush
<1>7. Placed'
  <2>1. Queries(queue)' = Queries(queue)
    BY <1>4 DEF Queries
  <2> QED  BY <1>1, <1>2, <1>6, <2>1 DEF Placed, Apart
<1>8. FlushInOrder'
  <2>1. Queries(queue)' = Queries(queue) /\ Queries(queue') = Queries(queue)
    BY <1>4 DEF Queries
  <2>2. CASE flush = "waiting"
    <3>1. (flush' = "ok" /\ Queries(batch)' = {}) \/ flush' = "failed"
      BY <1>6, <2>2
    <3> QED  BY <1>1, <1>2, <1>5, <2>1, <2>2, <3>1 DEF FlushInOrder
  <2>3. CASE flush # "waiting"
    <3>1. flush' = flush /\ (Queries(batch)' = {} \/ Queries(batch)' = Queries(batch))
      BY <1>6, <2>3
    <3> QED  BY <1>1, <1>2, <1>5, <2>1, <2>3, <3>1 DEF FlushInOrder
  <2> QED  BY <2>2, <2>3
<1>9. LogTypes' /\ Distinct(queue)'
  BY <1>1, <1>3, <1>6 DEF LogInv, LogTypes, Distinct
<1> QED  BY <1>6, <1>7, <1>8, <1>9 DEF LogInv

LEMMA TimerKeeps ==
  ASSUME LogInv, TimerPersist
  PROVE  LogInv'
<1>1. /\ mode # "down" /\ batch # <<>> /\ Persist(batch)
      /\ UNCHANGED <<now, mode, boots, sent, queue, flush, covered, dropped, lost, removed>>
  BY DEF TimerPersist, Running
<1>2. /\ batch' = <<>> /\ batch' \in Seq(Nat \ {0}) /\ BatchCounted' /\ RowsOnce'
      /\ saved' = saved \cup Queries(batch) /\ Queries(batch)' = {}
  BY <1>1, BatchWritten
<1>3. Queries(queue)' = Queries(queue) /\ Distinct(queue)'
  BY <1>1 DEF LogInv, Queries, Distinct
<1>4. Placed'
  BY <1>1, <1>2, <1>3 DEF LogInv, Placed, Apart
<1>5. FlushInOrder'
  <2>1. \A k : FlushAt(k)' <=> FlushAt(k)
    BY <1>1 DEF FlushAt
  <2> QED  BY <1>1, <1>2, <1>3, <2>1 DEF LogInv, FlushInOrder
<1> QED  BY <1>1, <1>2, <1>3, <1>4, <1>5 DEF LogInv, LogTypes

(* What is in order stays so while channel, batch and flush stay.          *)
LEMMA OrderStays ==
  ASSUME FlushInOrder, UNCHANGED <<sent, queue, batch, mode, flush, covered>>
  PROVE  FlushInOrder'
<1>1. /\ Queries(queue)' = Queries(queue) /\ Queries(batch)' = Queries(batch)
      /\ \A k : FlushAt(k)' <=> FlushAt(k)
  BY DEF Queries, FlushAt
<1> QED  BY <1>1 DEF FlushInOrder

(* Rows are deleted or trimmed: none appears.                              *)
LEMMA KeepKeeps ==
  ASSUME LogInv, NEW keptRows \in SUBSET rows, NEW keptRels, Keep(keptRows, keptRels)
  PROVE  LogInv'
<1>1. /\ rows' = keptRows
      /\ UNCHANGED <<now, mode, boots, sent, queue, batch, flush, covered, dropped, saved, lost>>
  BY DEF Keep
<1>2. RowsOnce'
  BY <1>1 DEF LogInv, RowsOnce
<1>3. /\ Queries(queue)' = Queries(queue) /\ Distinct(queue)'
      /\ Queries(batch)' = Queries(batch) /\ Distinct(batch)'
  BY <1>1 DEF LogInv, BatchCounted, Queries, Distinct
<1>4. BatchCounted' /\ Placed' /\ LogTypes'
  BY <1>1, <1>3 DEF LogInv, LogTypes, BatchCounted, Placed, Apart
<1>5. FlushInOrder'
  BY <1>1, OrderStays DEF LogInv
<1> QED  BY <1>2, <1>3, <1>4, <1>5 DEF LogInv

(* Channel, batch and tables stay; the order of the flush is kept.         *)
LEMMA LogStays ==
  ASSUME LogInv, UNCHANGED <<sent, queue, batch, rows, saved, dropped, lost>>,
         now' \in Nat, FlushInOrder'
  PROVE  LogInv'
<1>1. /\ Queries(queue)' = Queries(queue) /\ Distinct(queue)'
      /\ Queries(batch)' = Queries(batch) /\ Distinct(batch)'
  BY DEF LogInv, BatchCounted, Queries, Distinct
<1>2. BatchCounted' /\ Placed' /\ RowsOnce' /\ LogTypes'
  BY <1>1 DEF LogInv, LogTypes, BatchCounted, Placed, Apart, RowsOnce
<1> QED  BY <1>1, <1>2 DEF LogInv

LEMMA SendFlushKeeps ==
  ASSUME LogInv, SendFlush
  PROVE  LogInv'
<1>1. /\ mode = "stopping" /\ flush = "none" /\ queue' = Append(queue, Flush)
      /\ flush' = "waiting" /\ mode' = mode /\ covered' = Len(sent)
      /\ UNCHANGED <<now, sent, batch, rows, dropped, saved, lost>>
  BY DEF SendFlush
<1>2. /\ queue \in Seq(Nat) /\ Flush \in Nat /\ Distinct(queue) /\ FlushInOrder /\ Placed
      /\ Len(sent) \in Nat
  BY DEF LogInv, LogTypes, Flush
<1>3. Flush \notin Queries(queue)
  BY DEF Queries
<1>4. /\ queue' \in Seq(Nat) /\ Distinct(queue') /\ Queries(queue') = Queries(queue)
      /\ Len(queue') = Len(queue) + 1
  BY <1>1, <1>2, <1>3, Appended
<1>5. FlushInOrder'
  <2>1. \A i \in DOMAIN queue' : queue'[i] = Flush <=> i = Len(queue')
    <3>1. /\ DOMAIN queue' = 1..Len(queue) + 1 /\ queue'[Len(queue) + 1] = Flush
          /\ DOMAIN queue = 1..Len(queue) /\ Len(queue) \in Nat
          /\ \A i \in 1..Len(queue) : queue'[i] = queue[i]
      BY <1>1, <1>2
    <3>2. \A i \in 1..Len(queue) : queue'[i] # Flush
      BY <1>1, <1>2, <3>1 DEF FlushInOrder
    <3> QED  BY <1>4, <3>1, <3>2
  <2>2. Len(queue') \in DOMAIN queue' /\ \A i \in DOMAIN queue' : ~(i > Len(queue'))
    BY <1>2, <1>4
  <2>3. PICK k : k = Len(queue')
    OBVIOUS
  <2>4. k \in DOMAIN queue' /\ FlushAt(k)'
    BY <2>1, <2>2, <2>3 DEF FlushAt
  <2> QED  BY <1>1, <1>2, <2>4 DEF FlushInOrder
<1>6. batch' \in Seq(Nat \ {0}) /\ BatchCounted' /\ RowsOnce' /\ Queries(batch)' = Queries(batch)
  BY <1>1, BatchKept
<1>7. Placed'
  <2>1. Queries(queue)' = Queries(queue)
    BY <1>4 DEF Queries
  <2> QED  BY <1>1, <1>2, <1>6, <2>1 DEF Placed, Apart
<1>8. LogTypes' /\ Distinct(queue)'
  BY <1>1, <1>4, <1>6 DEF LogInv, LogTypes, Distinct
<1> QED  BY <1>5, <1>6, <1>7, <1>8 DEF LogInv

(* The process ends with what it has in memory.                            *)
LEMMA EndKeeps ==
  ASSUME LogInv, End
  PROVE  LogInv'
<1>1. /\ mode' = "down" /\ lost' = lost \cup Queued \cup Batched
      /\ queue' = <<>> /\ batch' = <<>>
      /\ UNCHANGED <<now, sent, rows, flush, covered, dropped, saved>>
  BY DEF End
<1>2. Queued = Queries(queue) /\ Batched = Queries(batch)
  <2>1. \A i \in DOMAIN batch : batch[i] # Flush
    BY DEF LogInv, LogTypes, Flush
  <2> QED  BY <2>1 DEF Queued, Batched, Queries
<1>3. queue' \in Seq(Nat) /\ Queries(queue)' = {} /\ Distinct(queue)'
  BY <1>1, NoMessage DEF Queries, Distinct
<1>4. BatchCounted' /\ batch' \in Seq(Nat \ {0}) /\ Queries(batch)' = {}
  BY <1>1, EmptyBatch
<1>5. Placed'
  BY <1>1, <1>2, <1>3, <1>4 DEF LogInv, Placed, Apart
<1>6. FlushInOrder'
  BY <1>1, <1>3, <1>4 DEF LogInv, FlushInOrder
<1> QED  BY <1>1, <1>3, <1>4, <1>5, <1>6 DEF LogInv, LogTypes, RowsOnce

LEMMA LogNextInv == LogInv /\ [Next]_vars => LogInv'
<1> SUFFICES ASSUME LogInv, [Next]_vars PROVE LogInv'
  OBVIOUS
<1>1. /\ now \in Nat /\ FlushInOrder /\ Len(sent) \in Nat
      /\ UNCHANGED <<queue, batch>> => /\ Queries(queue)' = Queries(queue)
                                      /\ Queries(batch)' = Queries(batch)
  BY DEF LogInv, LogTypes, Queries
<1>2. ASSUME UNCHANGED storeVars PROVE LogInv'
  <2>1. FlushInOrder'
    BY <1>1, <1>2, OrderStays DEF storeVars
  <2> QED  BY <1>1, <1>2, <2>1, LogStays DEF storeVars
<1>3. ASSUME NEW window, DeleteLogs(window) PROVE LogInv'
  <2>1. Older(rows, window) \in SUBSET rows
    BY DEF Older
  <2> QED  BY <1>3, <2>1, KeepKeeps DEF DeleteLogs
<1>4. ASSUME Cleanup PROVE LogInv'
  <2>1. Trimmed(Unexpired(rows), RowCap) \in SUBSET rows
    BY DEF Trimmed, Unexpired
  <2> QED  BY <1>4, <2>1, KeepKeeps DEF Cleanup
<1>5. ASSUME BeginStop PROVE LogInv'
  <2>1. FlushInOrder'
    BY <1>1, <1>5 DEF BeginStop, FlushInOrder
  <2> QED  BY <1>1, <1>5, <2>1, LogStays DEF BeginStop
<1>6. ASSUME FlushTimeout PROVE LogInv'
  <2>1. FlushInOrder'
    BY <1>1, <1>6 DEF FlushTimeout, FlushInOrder
  <2> QED  BY <1>1, <1>6, <2>1, LogStays DEF FlushTimeout
<1>7. ASSUME Tick PROVE LogInv'
  <2>1. FlushInOrder' /\ now' \in Nat
    BY <1>1, <1>7, OrderStays DEF Tick
  <2> QED  BY <1>7, <2>1, LogStays DEF Tick
<1>8. ASSUME Boot PROVE LogInv'
  <2>1. FlushInOrder'
    BY <1>1, <1>8 DEF Boot, FlushInOrder
  <2> QED  BY <1>1, <1>8, <2>1, LogStays DEF Boot
<1>9. ASSUME StoreStep PROVE LogInv'
  BY <1>3, <1>4, <1>5, <1>6, <1>7, <1>9, ReceiveQueryKeeps, ReceiveFlushKeeps, TimerKeeps,
     SendFlushKeeps DEF StoreStep
<1> QED
  BY <1>2, <1>8, <1>9, RecordKeeps, EndKeeps
  DEF Next, Decide, Finish, Start, Exit, Crash, vars

(* A flush of the shutdown that succeeded leaves in the channel and the    *)
(* batch nothing that was recorded before it was sent, whatever failed     *)
(* before: all of it was in front of the flush (flush, run_event_worker).  *)
THEOREM FlushSaves == Spec => []FlushMeansSaved
<1>1. LogInv => FlushMeansSaved
  <2> SUFFICES ASSUME LogInv PROVE FlushMeansSaved
    OBVIOUS
  <2>1. Queued = Queries(queue) /\ Batched = Queries(batch)
    <3>1. \A i \in DOMAIN batch : batch[i] # Flush
      BY DEF LogInv, LogTypes, Flush
    <3> QED  BY <3>1 DEF Queued, Batched, Queries
  <2> QED  BY <2>1 DEF LogInv, FlushInOrder, FlushMeansSaved
<1> QED  BY <1>1, LogInitInv, LogNextInv, PTL DEF Spec

(* Every query is in exactly one place: refused, queued, batched, committed*)
(* once, or lost with a process; retries commit none twice.                *)
THEOREM QueriesOnce == Spec => []EveryQueryOnce
<1>1. LogInv => EveryQueryOnce
  <2> SUFFICES ASSUME LogInv PROVE EveryQueryOnce
    OBVIOUS
  <2> DEFINE places == <<dropped, Queued, Batched, saved, lost>>
  <2>1. Queued = Queries(queue) /\ Batched = Queries(batch)
    <3>1. \A i \in DOMAIN batch : batch[i] # Flush
      BY DEF LogInv, LogTypes, Flush
    <3> QED  BY <3>1 DEF Queued, Batched, Queries
  <2>2. /\ DOMAIN places = {1, 2, 3, 4, 5}
        /\ places[1] = dropped /\ places[2] = Queued /\ places[3] = Batched
        /\ places[4] = saved /\ places[5] = lost
    OBVIOUS
  <2> HIDE DEF places
  <2>3. UNION {places[i] : i \in DOMAIN places} = Serial
    <3>1. {places[i] : i \in DOMAIN places} = {dropped, Queued, Batched, saved, lost}
      BY <2>2
    <3> QED  BY <2>1, <3>1 DEF LogInv, Placed, Serial
  <2>4. \A i, j \in DOMAIN places : i # j => places[i] \cap places[j] = {}
    BY <2>1, <2>2 DEF LogInv, Placed, Apart
  <2>5. Len(batch) = Cardinality(Batched) /\ \A r, s \in rows : r.n = s.n => r = s
    BY <2>1 DEF LogInv, BatchCounted, RowsOnce
  <2> QED  BY <2>3, <2>4, <2>5 DEF EveryQueryOnce, places
<1> QED  BY <1>1, LogInitInv, LogNextInv, PTL DEF Spec

-----------------------------------------------------------------------------
(* Every query is charged once. What this process has seen is younger than *)
(* what the persisted score stands for: when the score was read, the       *)
(* channel and the batch were empty, so that no query of an earlier process*)
(* is written any more. Nothing that is due is missing, because a row is   *)
(* written no earlier than its query was made, and today's rows are those  *)
(* the score was read from, unless a table of devices was full.            *)

DayOf(n) == sent[n].at \div Day
Users == {Dev(n) : n \in Serial}

Kept ==
  /\ \A n \in Serial : sent[n].at <= now
  /\ \A n \in saved \ removed :
       \E r \in rows : r.n = n /\ r.at \in Nat /\ sent[n].at <= r.at /\ r.at <= now

Entry(e) ==
  /\ e = [day |-> e.day, seen |-> e.seen, edges |-> e.edges]
  /\ e.day \in Nat /\ e.day <= Today

Sides ==
  /\ served \in Nat /\ served <= Len(sent)
  /\ \A n \in Queries(queue) \cup Queries(batch) : n > served
  /\ IsFiniteSet(DOMAIN activity) /\ IsFiniteSet(Users)
  /\ \A d \in DOMAIN activity :
       Entry(activity[d]) /\ \A n \in Serials(activity[d]) : n \in Nat /\ n > served
  /\ \A d \in DOMAIN baseline :
       Entry(baseline[d]) /\ \A n \in Serials(baseline[d]) : n \in Nat /\ n <= served

CountsIn(table, n) ==
  /\ Dev(n) \in DOMAIN table /\ table[Dev(n)].day >= DayOf(n)
  /\ table[Dev(n)].day = DayOf(n) => n \in Serials(table[Dev(n)])

NewCovered ==
  \A n \in Serial : n > served /\ ~What[sent[n].ev].failed => CountsIn(activity, n)

OldCovered ==
  \A n \in saved \ removed :
    n <= served /\ ~What[sent[n].ev].failed /\ DayOf(n) = Today => CountsIn(baseline, n)

GuardInv ==
  Kept /\ Sides /\ (Tracked => NewCovered /\ OldCovered)

LEMMA Quotient ==
  ASSUME NEW a \in Nat, NEW b \in Nat, a <= b
  PROVE  a \div Day \in Nat /\ b \div Day \in Nat /\ a \div Day <= b \div Day
<1> DEFINE x == a \div Day
           y == b \div Day
<1>1. x \in Int /\ Day * x <= a /\ a < Day * (x + 1)
  BY BudgetAssumption
<1>2. y \in Int /\ Day * y <= b /\ b < Day * (y + 1)
  BY BudgetAssumption
<1> HIDE DEF x, y
<1>3. x < y + 1
  <2>1. Day * x < Day * (y + 1)
    BY <1>1, <1>2, BudgetAssumption
  <2> QED  BY <1>1, <1>2, <2>1, BudgetAssumption
<1>4. 0 < x + 1 /\ 0 < y + 1
  BY <1>1, <1>2, BudgetAssumption
<1>5. x \in Nat /\ y \in Nat /\ x <= y
  BY <1>1, <1>2, <1>3, <1>4
<1> QED  BY <1>5 DEF x, y

LEMMA SentTyped ==
  ASSUME LogInv, NEW n \in Serial
  PROVE  sent[n].ev \in Event /\ sent[n].at \in Nat
<1> DEFINE R == [ev : Event, at : Nat]
<1>1. n \in 1..Len(sent) /\ sent \in Seq(R)
  BY DEF Serial, LogInv, LogTypes
<1> HIDE DEF R
<1>2. sent[n] \in R
  BY <1>1
<1> QED  BY <1>2 DEF R

(* The day of a query is a number, and not one to come.                    *)
LEMMA DaysPassed ==
  ASSUME LogInv, Kept
  PROVE  /\ Today \in Nat
         /\ \A n \in Serial : sent[n].at \in Nat /\ DayOf(n) \in Nat /\ DayOf(n) <= Today
<1>1. now \in Nat /\ sent \in Seq([ev : Event, at : Nat])
  BY DEF LogInv, LogTypes
<1>2. Today \in Nat
  BY <1>1, Quotient DEF Today
<1>3. ASSUME NEW n \in Serial
      PROVE  sent[n].at \in Nat /\ DayOf(n) \in Nat /\ DayOf(n) <= Today
  <2>1. sent[n].at \in Nat /\ sent[n].at <= now
    BY <1>3, SentTyped DEF Kept
  <2> QED  BY <1>1, <2>1, Quotient DEF DayOf, Today
<1> QED  BY <1>2, <1>3

LEMMA InSerial ==
  ASSUME LogInv
  PROVE  /\ Len(sent) \in Nat /\ Serial = 1..Len(sent) /\ saved \subseteq Serial
         /\ Queries(queue) \subseteq Serial /\ Queries(batch) \subseteq Serial
         /\ \A r \in rows : r.n \in saved
BY DEF LogInv, LogTypes, Placed, RowsOnce, Serial

(* ChargedOnce follows.                                                    *)
LEMMA ChargedOnceHolds == LogInv /\ GuardInv => ChargedOnce
<1> SUFFICES ASSUME LogInv, GuardInv, NEW d \in Device
             PROVE  LET old == Serials(TodayOf(baseline, d))
                        new == Serials(TodayOf(activity, d))
                    IN  /\ old \cap new = {}
                        /\ Tracked => Due(d) \subseteq old \cup new
  BY DEF ChargedOnce
<1> DEFINE old == Serials(TodayOf(baseline, d))
           new == Serials(TodayOf(activity, d))
<1>1. served \in Nat /\ Sides
  BY DEF GuardInv, Sides
<1>2. Serials(Nothing) = {}
  BY DEF Serials, Nothing
<1>3. \A n \in old : n \in Nat /\ n <= served
  BY <1>1, <1>2 DEF TodayOf, Sides
<1>4. \A n \in new : n \in Nat /\ n > served
  BY <1>1, <1>2 DEF TodayOf, Sides
<1>5. old \cap new = {}
  BY <1>1, <1>3, <1>4
<1>6. ASSUME Tracked, NEW n \in Due(d) PROVE n \in old \cup new
  <2>1. /\ n \in Serial /\ Dev(n) = d /\ ~What[sent[n].ev].failed /\ DayOf(n) = Today
        /\ n > served \/ n \in saved \ removed
    BY DEF Due, DayOf
  <2>2. Today \in Nat /\ n \in Nat
    BY <2>1, DaysPassed, InSerial DEF GuardInv
  <2>3. CASE n > served
    <3>1. CountsIn(activity, n)
      BY <1>6, <2>1, <2>3 DEF GuardInv, NewCovered
    <3>2. activity[d].day \in Nat /\ activity[d].day <= Today
      BY <1>1, <2>1, <3>1 DEF Sides, Entry, CountsIn
    <3>3. d \in DOMAIN activity /\ activity[d].day = Today /\ n \in Serials(activity[d])
      BY <2>1, <2>2, <3>1, <3>2 DEF CountsIn
    <3> QED  BY <3>3 DEF TodayOf
  <2>4. CASE n <= served
    <3>1. CountsIn(baseline, n)
      BY <1>1, <1>6, <2>1, <2>2, <2>4 DEF GuardInv, OldCovered
    <3>2. baseline[d].day \in Nat /\ baseline[d].day <= Today
      BY <1>1, <2>1, <3>1 DEF Sides, Entry, CountsIn
    <3>3. d \in DOMAIN baseline /\ baseline[d].day = Today /\ n \in Serials(baseline[d])
      BY <2>1, <2>2, <3>1, <3>2 DEF CountsIn
    <3> QED  BY <3>3 DEF TodayOf
  <2> QED  BY <1>1, <2>2, <2>3, <2>4
<1> QED  BY <1>5, <1>6

LEMMA GuardInitInv == Init => GuardInv
<1> SUFFICES ASSUME Init PROVE GuardInv
  OBVIOUS
<1>1. /\ sent = <<>> /\ queue = <<>> /\ batch = <<>> /\ saved = {} /\ served = 0
      /\ activity = NoEntries /\ baseline = NoEntries
  BY DEF Init, StoreInit
<1>2. Len(sent) = 0 /\ Serial = {} /\ Users = {}
  BY <1>1 DEF Serial, Users
<1>3. DOMAIN activity = {} /\ DOMAIN baseline = {}
  BY <1>1 DEF NoEntries
<1>4. Sides
  BY <1>1, <1>2, <1>3, NoMessage, FS_EmptySet DEF Sides
<1> QED  BY <1>1, <1>2, <1>4 DEF GuardInv, Kept, NewCovered, OldCovered

-----------------------------------------------------------------------------
(* The log works while the guard stays as it is.                           *)

(* A batch is written: its queries have rows of now.                       *)
LEMMA RowsWritten ==
  ASSUME NEW b \in Seq(Nat \ {0}), Persist(b)
  PROVE  /\ rows \subseteq rows' /\ saved' = saved \cup Queries(b)
         /\ \A n \in Queries(b) : \E r \in rows' : r.n = n /\ r.at = now
<1> DEFINE new(i) == [id |-> NextId(rows) + i - 1, n |-> b[i], at |-> now]
<1>1. /\ rows' = rows \cup {new(i) : i \in DOMAIN b}
      /\ saved' = saved \cup {b[i] : i \in DOMAIN b}
  BY DEF Persist, InsertedRows
<1>2. \A i \in DOMAIN b : b[i] # Flush
  BY DEF Flush
<1>3. Queries(b) = {b[i] : i \in DOMAIN b}
  BY <1>2 DEF Queries
<1>4. \A i \in DOMAIN b : new(i).n = b[i] /\ new(i).at = now
  OBVIOUS
<1> HIDE DEF new
<1> QED  BY <1>1, <1>3, <1>4

(* What becomes of Kept when rows are written, when the clock moves, and   *)
(* when rows go.                                                           *)
LEMMA KeptWhenWritten ==
  ASSUME LogInv, Kept, NEW b \in Seq(Nat \ {0}), Queries(b) \subseteq Serial,
         Persist(b) \/ Retain(b), UNCHANGED <<now, sent, removed>>
  PROVE  Kept'
<1>1. now \in Nat /\ Serial' = Serial
  BY DEF LogInv, LogTypes, Serial
<1>2. CASE Retain(b)
  BY <1>1, <1>2 DEF Retain, Kept
<1>3. CASE Persist(b)
  <2>1. ASSUME NEW n \in saved' \ removed'
        PROVE  \E r \in rows' : r.n = n /\ r.at \in Nat /\ sent'[n].at <= r.at /\ r.at <= now'
    <3>1. CASE n \in saved
      BY <1>3, <2>1, <3>1, RowsWritten DEF Kept
    <3>2. CASE n \in Queries(b)
      <4>1. PICK r \in rows' : r.n = n /\ r.at = now
        BY <1>3, <3>2, RowsWritten
      <4>2. sent[n].at <= now
        BY <3>2 DEF Kept
      <4> QED  BY <1>1, <4>1, <4>2
    <3> QED  BY <1>3, <2>1, <3>1, <3>2, RowsWritten
  <2> QED  BY <1>1, <2>1 DEF Kept
<1> QED  BY <1>2, <1>3

LEMMA KeptWhenLater ==
  ASSUME LogInv, Kept, UNCHANGED <<sent, rows, saved, removed>>, now' \in Nat, now <= now'
  PROVE  Kept'
<1>1. now \in Nat /\ Serial' = Serial
  BY DEF LogInv, LogTypes, Serial
<1>2. \A n \in Serial : sent[n].at \in Nat
  BY DaysPassed
<1>3. ASSUME NEW n \in saved \ removed
      PROVE  \E r \in rows : r.n = n /\ r.at \in Nat /\ sent[n].at <= r.at /\ r.at <= now'
  <2>1. PICK r \in rows : r.n = n /\ r.at \in Nat /\ sent[n].at <= r.at /\ r.at <= now
    BY <1>3 DEF Kept
  <2> QED  BY <1>1, <2>1
<1> QED  BY <1>1, <1>2, <1>3 DEF Kept

LEMMA KeptWhenTrimmed ==
  ASSUME LogInv, Kept, NEW keptRows \in SUBSET rows, NEW keptRels, Keep(keptRows, keptRels)
  PROVE  Kept'
<1>1. /\ rows' = keptRows /\ UNCHANGED <<now, sent, saved>>
      /\ \A r \in rows \ keptRows : r.n \in removed'
      /\ removed \subseteq removed'
  BY DEF Keep
<1>2. ASSUME NEW n \in saved \ removed'
      PROVE  \E r \in keptRows : r.n = n /\ r.at \in Nat /\ sent[n].at <= r.at /\ r.at <= now
  <2>1. PICK r \in rows : r.n = n /\ r.at \in Nat /\ sent[n].at <= r.at /\ r.at <= now
    BY <1>1, <1>2 DEF Kept
  <2>2. r \in keptRows
    BY <1>1, <1>2, <2>1
  <2> QED  BY <2>1, <2>2
<1> QED  BY <1>1, <1>2 DEF Kept, Serial

(* A step of the log alone, as the guard sees it.                          *)
LogStep ==
  /\ now' \in Nat /\ now <= now' /\ UNCHANGED <<sent, dropped>>
  /\ saved \subseteq saved' /\ lost \subseteq lost' /\ removed \subseteq removed'
  /\ Kept'

LEMMA LogSteps ==
  ASSUME LogInv, Kept, StoreStep \/ Exit \/ Crash
  PROVE  LogStep
<1>1. now \in Nat /\ queue \in Seq(Nat) /\ batch \in Seq(Nat \ {0})
      /\ Queries(queue) \subseteq Serial /\ Queries(batch) \subseteq Serial
  BY InSerial DEF LogInv, LogTypes
<1>2. now' = now \/ Tick
  BY DEF StoreStep, ReceiveQuery, ReceiveFlush, TimerPersist, DeleteLogs, Cleanup, Keep,
         BeginStop, SendFlush, FlushTimeout, Exit, Crash, End
<1>3. now' \in Nat /\ now <= now'
  BY <1>1, <1>2 DEF Tick
<1>4. ASSUME NEW b \in Seq(Nat \ {0}), Queries(b) \subseteq Serial, Persist(b) \/ Retain(b),
             UNCHANGED <<now, sent, dropped, lost, removed>>
      PROVE  LogStep
  <2>1. saved \subseteq saved'
    BY <1>4 DEF Persist, Retain
  <2> QED  BY <1>3, <1>4, <2>1, KeptWhenWritten DEF LogStep
<1>5. CASE ReceiveQuery
  <2> DEFINE b == Append(batch, Head(queue))
  <2>1. /\ queue # <<>> /\ Head(queue) # Flush
        /\ Persist(b) \/ Retain(b)
        /\ UNCHANGED <<now, sent, dropped, lost, removed>>
    BY <1>5 DEF ReceiveQuery, Receiving
  <2>2. Head(queue) \in Nat \ {0} /\ Head(queue) \in Queries(queue)
    <3>1. queue \in Seq(Nat) /\ queue # <<>> /\ Distinct(queue)
      BY <1>1, <2>1 DEF LogInv
    <3> QED  BY <2>1, <3>1, Taken DEF Flush
  <2>3. b \in Seq(Nat \ {0}) /\ Queries(b) = Queries(batch) \cup {Head(queue)}
    <3>1. batch \in Seq(Nat \ {0})
      BY <1>1
    <3>2. batch \in Seq(Nat)
      BY <3>1
    <3>3. b \in Seq(Nat \ {0})
      BY <2>2, <3>1
    <3> QED  BY <2>1, <2>2, <3>2, <3>3, Appended
  <2> QED  BY <1>1, <1>4, <2>1, <2>2, <2>3
<1>6. CASE ReceiveFlush
  <2>1. (Persist(batch) \/ Retain(batch)) /\ UNCHANGED <<now, sent, dropped, lost, removed>>
    BY <1>6 DEF ReceiveFlush
  <2> QED  BY <1>1, <1>4, <2>1
<1>7. CASE TimerPersist
  BY <1>1, <1>4, <1>7 DEF TimerPersist
<1>8. ASSUME NEW keptRows \in SUBSET rows, NEW keptRels, Keep(keptRows, keptRels)
      PROVE  LogStep
  BY <1>3, <1>8, KeptWhenTrimmed DEF LogStep, Keep
<1>9. ASSUME NEW window, DeleteLogs(window) PROVE LogStep
  <2>1. Older(rows, window) \in SUBSET rows
    BY DEF Older
  <2> QED  BY <1>8, <1>9, <2>1 DEF DeleteLogs
<1>10. CASE Cleanup
  <2>1. Trimmed(Unexpired(rows), RowCap) \in SUBSET rows
    BY DEF Trimmed, Unexpired
  <2> QED  BY <1>8, <1>10, <2>1 DEF Cleanup
<1>11. CASE BeginStop \/ SendFlush \/ FlushTimeout \/ Tick \/ Exit \/ Crash
  <2>1. /\ UNCHANGED <<sent, rows, saved, removed, dropped>> /\ lost \subseteq lost'
    BY <1>11 DEF BeginStop, SendFlush, FlushTimeout, Tick, Exit, Crash, End
  <2> QED  BY <1>3, <2>1, KeptWhenLater DEF LogStep
<1> QED
  BY <1>5, <1>6, <1>7, <1>9, <1>10, <1>11 DEF StoreStep

LEMMA GuardWaits ==
  ASSUME LogInv, LogInv', GuardInv, LogStep, UNCHANGED guardVars
  PROVE  GuardInv'
<1>1. /\ UNCHANGED <<sent, dropped, activity, baseline, served, seeded>> /\ Kept'
      /\ now \in Nat /\ now' \in Nat /\ now <= now'
      /\ saved \subseteq saved' /\ lost \subseteq lost' /\ removed \subseteq removed'
  BY DEF LogStep, guardVars, LogInv, LogTypes
<1>2. Kept /\ Sides /\ (Tracked => NewCovered /\ OldCovered)
  BY DEF GuardInv
<1>3. Serial' = Serial /\ Users' = Users /\ \A n : Dev(n)' = Dev(n) /\ DayOf(n)' = DayOf(n)
  BY <1>1 DEF Serial, Users, Dev, DayOf
<1>4. Today \in Nat /\ Today' \in Nat /\ Today <= Today'
  BY <1>1, Quotient DEF Today
<1>5. /\ (Queries(queue) \cup Queries(batch))' \subseteq Queries(queue) \cup Queries(batch)
      /\ saved' \subseteq saved \cup Queries(queue) \cup Queries(batch)
  <2>1. Placed /\ Placed'
    BY DEF LogInv
  <2> QED  BY <1>1, <2>1 DEF Placed, Apart
<1>6. Sides'
  <2>1. /\ \A d \in DOMAIN activity : Entry(activity[d])' /\ Serials(activity[d])' = Serials(activity[d])
        /\ \A d \in DOMAIN baseline : Entry(baseline[d])' /\ Serials(baseline[d])' = Serials(baseline[d])
    BY <1>1, <1>2, <1>4 DEF Sides, Entry, Serials
  <2> QED  BY <1>1, <1>2, <1>3, <1>5, <2>1 DEF Sides
<1>7. Tracked' => Tracked
  BY <1>1 DEF Tracked, Serial, Dev
<1>8. ASSUME Tracked PROVE NewCovered'
  <2>1. \A n \in Serial : CountsIn(activity, n)' <=> CountsIn(activity, n)
    BY <1>1, <1>3 DEF CountsIn, Serials
  <2> QED  BY <1>1, <1>2, <1>3, <1>8, <2>1 DEF NewCovered
<1>9. ASSUME Tracked PROVE OldCovered'
  <2> SUFFICES ASSUME NEW n \in saved' \ removed', n <= served, ~What[sent[n].ev].failed,
                      DayOf(n) = Today'
               PROVE  CountsIn(baseline, n)'
    BY <1>1, <1>3 DEF OldCovered
  <2>1. n \in saved \ removed
    BY <1>1, <1>2, <1>5, InSerial DEF Sides
  <2>2. DayOf(n) = Today
    BY <1>2, <1>4, <2>1, DaysPassed, InSerial
  <2>3. CountsIn(baseline, n)
    BY <1>2, <1>9, <2>1, <2>2 DEF OldCovered
  <2> QED  BY <1>1, <1>3, <2>3 DEF CountsIn, Serials
<1> QED  BY <1>1, <1>6, <1>7, <1>8, <1>9 DEF GuardInv

-----------------------------------------------------------------------------
(* A device gets an entry, or another one for today.                       *)
LEMMA EntryMade ==
  ASSUME LogInv, GuardInv, NEW d, NEW e,
         Entry(e), e.day = Today, Serials(TodayOf(activity, d)) \subseteq Serials(e),
         activity' = Entered(d, e), now' = now
  PROVE  /\ DOMAIN activity' = DOMAIN activity \cup {d} /\ IsFiniteSet(DOMAIN activity')
         /\ activity'[d] = e /\ \A c \in DOMAIN activity : c # d => activity'[c] = activity[c]
         /\ \A c \in DOMAIN activity' : Entry(activity[c])'
         /\ \A n \in Serial : CountsIn(activity, n) /\ Dev(n)' = Dev(n) /\ DayOf(n)' = DayOf(n)
              => CountsIn(activity, n)'
<1>1. Kept /\ Sides
  BY DEF GuardInv
<1>2. /\ DOMAIN activity' = DOMAIN activity \cup {d} /\ activity'[d] = e
      /\ \A c \in DOMAIN activity : c # d => activity'[c] = activity[c]
  BY DEF Entered
<1>3. IsFiniteSet(DOMAIN activity')
  BY <1>1, <1>2, FS_AddElement DEF Sides
<1>4. Today' = Today
  BY DEF Today
<1>5. \A c \in DOMAIN activity' : Entry(activity[c])'
  BY <1>1, <1>2, <1>4 DEF Sides, Entry
<1>6. ASSUME NEW n \in Serial, CountsIn(activity, n), Dev(n)' = Dev(n), DayOf(n)' = DayOf(n)
      PROVE  CountsIn(activity, n)'
  <2>1. /\ Dev(n) \in DOMAIN activity /\ activity[Dev(n)].day >= DayOf(n)
        /\ activity[Dev(n)].day = DayOf(n) => n \in Serials(activity[Dev(n)])
    BY <1>6 DEF CountsIn
  <2>2. CASE Dev(n) # d
    BY <1>2, <1>6, <2>1, <2>2 DEF CountsIn, Serials
  <2>3. CASE Dev(n) = d
    <3>1. Today \in Nat /\ DayOf(n) \in Nat /\ DayOf(n) <= Today
      BY <1>1, DaysPassed
    <3>2. activity[d].day \in Nat /\ activity[d].day <= Today
      BY <1>1, <2>1, <2>3 DEF Sides, Entry
    <3>3. ASSUME DayOf(n) = Today PROVE n \in Serials(e)
      <4>1. TodayOf(activity, d) = activity[d] /\ n \in Serials(activity[d])
        BY <2>1, <2>3, <3>1, <3>2, <3>3 DEF TodayOf
      <4> QED  BY <4>1
    <3>4. (activity[d])' = e /\ Serials(activity[d])' = Serials(e)
      BY <1>2 DEF Serials
    <3> QED  BY <1>2, <1>6, <2>3, <3>1, <3>3, <3>4 DEF CountsIn, Serials
  <2> QED  BY <2>2, <2>3
<1> QED  BY <1>2, <1>3, <1>5, <1>6

(* More devices never make a full table roomy.                             *)
LEMMA TrackedBefore ==
  ASSUME IsFiniteSet(DOMAIN activity'), IsFiniteSet(Users'), seeded' = seeded,
         DOMAIN activity \subseteq DOMAIN activity', Users \subseteq Users', Tracked'
  PROVE  Tracked
<1> DEFINE S == DOMAIN activity \cup Users
           T == DOMAIN activity' \cup Users'
<1>1. IsFiniteSet(T) /\ S \in SUBSET T
  BY FS_Union
<1>2. /\ IsFiniteSet(S) /\ Cardinality(S) <= Cardinality(T)
      /\ Cardinality(S) \in Nat /\ Cardinality(T) \in Nat
  <2> HIDE DEF S, T
  <2> QED  BY <1>1, FS_Subset, FS_CardinalityType
<1>3. Cardinality(T) <= DeviceCap /\ seeded'
  BY DEF Tracked, Users
<1>4. Cardinality(S) <= DeviceCap /\ seeded
  <2> HIDE DEF S, T
  <2> QED  BY <1>2, <1>3, BudgetAssumption
<1> QED  BY <1>4 DEF Tracked, Users

LEMMA TodaysEntry ==
  ASSUME LogInv, GuardInv, NEW d
  PROVE  /\ Entry(TodayOf(activity, d)) /\ TodayOf(activity, d).day = Today
         /\ \A n \in Serials(TodayOf(activity, d)) : n \in Nat /\ n > served
<1>1. Kept /\ Sides
  BY DEF GuardInv
<1>2. Today \in Nat
  BY <1>1, DaysPassed
<1>3. Entry(Nothing) /\ Nothing.day = Today /\ Serials(Nothing) = {}
  BY <1>2 DEF Entry, Nothing, Serials
<1>4. \/ TodayOf(activity, d) = Nothing
      \/ /\ d \in DOMAIN activity /\ activity[d].day = Today
         /\ TodayOf(activity, d) = activity[d]
  BY DEF TodayOf
<1> QED  BY <1>1, <1>3, <1>4 DEF Sides

LEMMA DecideKeeps ==
  ASSUME LogInv, GuardInv, NEW ev \in Event, Decide(ev)
  PROVE  GuardInv'
<1> DEFINE d == What[ev].dev
<1>0. PICK e : e = TodayOf(activity, d)
  OBVIOUS
<1>1. /\ activity' = Entered(d, e)
      /\ UNCHANGED <<now, sent, queue, batch, rows, saved, removed, baseline, served, seeded>>
  BY <1>0 DEF Decide, storeVars
<1>2. Kept /\ Sides /\ (Tracked => NewCovered /\ OldCovered)
  BY DEF GuardInv
<1>3. Entry(e) /\ e.day = Today /\ \A n \in Serials(e) : n \in Nat /\ n > served
  BY <1>0, TodaysEntry
<1>4. /\ Serial' = Serial /\ Users' = Users /\ Today' = Today
      /\ \A n : Dev(n)' = Dev(n) /\ DayOf(n)' = DayOf(n)
  BY <1>1 DEF Serial, Users, Dev, DayOf, Today
<1> HIDE DEF d
<1>5. /\ DOMAIN activity' = DOMAIN activity \cup {d} /\ IsFiniteSet(DOMAIN activity')
      /\ activity'[d] = e /\ \A c \in DOMAIN activity : c # d => activity'[c] = activity[c]
      /\ \A c \in DOMAIN activity' : Entry(activity[c])'
      /\ \A n \in Serial : CountsIn(activity, n) /\ Dev(n)' = Dev(n) /\ DayOf(n)' = DayOf(n)
              => CountsIn(activity, n)'
  <2>1. Serials(TodayOf(activity, d)) \subseteq Serials(e)
    BY <1>0
  <2> QED  BY <1>1, <1>3, <2>1, EntryMade
<1>6. Sides'
  <2>1. \A c \in DOMAIN activity' : \A n \in Serials(activity[c])' : n \in Nat /\ n > served
    BY <1>2, <1>3, <1>5 DEF Sides, Serials
  <2>2. \A c \in DOMAIN baseline : Entry(baseline[c])' /\ Serials(baseline[c])' = Serials(baseline[c])
    BY <1>1, <1>2, <1>4 DEF Sides, Entry, Serials
  <2>3. Queries(queue)' = Queries(queue) /\ Queries(batch)' = Queries(batch)
    BY <1>1 DEF Queries
  <2> QED  BY <1>1, <1>2, <1>4, <1>5, <2>1, <2>2, <2>3 DEF Sides
<1>7. Kept'
  BY <1>1, <1>2, <1>4 DEF Kept
<1>8. ASSUME Tracked' PROVE NewCovered' /\ OldCovered'
  <2>1. Tracked
    BY <1>1, <1>4, <1>5, <1>6, <1>8, TrackedBefore DEF Sides
  <2>2. NewCovered'
    BY <1>1, <1>2, <1>4, <1>5, <2>1 DEF NewCovered
  <2>3. \A n : CountsIn(baseline, n)' <=> CountsIn(baseline, n)
    BY <1>1, <1>4 DEF CountsIn, Serials
  <2> QED  BY <1>1, <1>2, <1>4, <2>1, <2>2, <2>3 DEF OldCovered
<1> QED  BY <1>6, <1>7, <1>8 DEF GuardInv

(* A query ends: it is charged, or it failed, or the table is full; in the *)
(* last case the devices are too many for the table.                       *)
LEMMA FinishKeeps ==
  ASSUME LogInv, GuardInv, NEW ev \in Event, Finish(ev)
  PROVE  GuardInv'
<1> DEFINE d == What[ev].dev
<1>0. PICK N, m, before :
        N = Len(sent) + 1 /\ m = [ev |-> ev, at |-> now] /\ before = TodayOf(activity, d)
  OBVIOUS
<1>1. PICK e, B :
        /\ sent' = Append(sent, m)
        /\ queue' = queue \/ queue' = Append(queue, N)
        /\ activity' = IF Charged(ev) THEN Entered(d, e) ELSE activity
        /\ UNCHANGED <<now, batch, rows, saved, removed, baseline, served, seeded>>
        /\ e = [before EXCEPT !.seen = @ \cup {<<N, now>>}, !.edges = @ \cup B]
  <2>1. Record(ev) /\ activity' = IF Charged(ev) THEN Charge(ev) ELSE activity
    BY DEF Finish
  <2>2. PICK B : Charge(ev) = Entered(d, [before EXCEPT !.seen = @ \cup {<<N, now>>},
                                                      !.edges = @ \cup B])
    BY <1>0 DEF Charge
  <2>3. PICK e : e = [before EXCEPT !.seen = @ \cup {<<N, now>>}, !.edges = @ \cup B]
    OBVIOUS
  <2>4. Charge(ev) = Entered(d, e)
    BY <2>2, <2>3
  <2>5. UNCHANGED <<baseline, served, seeded>>
    BY DEF Finish
  <2>6. /\ sent' = Append(sent, m) /\ (queue' = queue \/ queue' = Append(queue, N))
        /\ UNCHANGED <<now, batch, rows, saved, removed>>
    BY <1>0, <2>1 DEF Record
  <2> QED  BY <2>1, <2>3, <2>4, <2>5, <2>6
<1>2. Kept /\ Sides /\ (Tracked => NewCovered /\ OldCovered)
  BY DEF GuardInv
<1>3. /\ Entry(before) /\ before.day = Today
      /\ \A n \in Serials(before) : n \in Nat /\ n > served
  BY <1>0, TodaysEntry
<1>4. /\ sent \in Seq([ev : Event, at : Nat]) /\ now \in Nat /\ queue \in Seq(Nat)
      /\ Len(sent) \in Nat /\ Serial = 1..Len(sent) /\ served \in Nat /\ served <= Len(sent)
  BY <1>2, InSerial DEF LogInv, LogTypes, Sides
<1>5. /\ Len(sent') = N /\ N \in Nat \ {0} /\ N > served /\ N > Len(sent) /\ sent'[N] = m
      /\ Serial' = Serial \cup {N} /\ N \notin Serial
      /\ \A n \in Serial : sent'[n] = sent[n]
  BY <1>0, <1>1, <1>4 DEF Serial
<1>6. m.ev = ev /\ m.at = now
  BY <1>0
<1>7. /\ Today \in Nat /\ Today' = Today /\ Dev(N)' = d /\ DayOf(N)' = Today
      /\ \A n \in Serial : Dev(n)' = Dev(n) /\ DayOf(n)' = DayOf(n)
      /\ Users' = Users \cup {d}
  <2>1. Today \in Nat /\ Today' = Today
    BY <1>1, <1>2, DaysPassed DEF Today
  <2>2. Dev(N)' = d /\ DayOf(N)' = Today
    BY <1>5, <1>6 DEF Dev, DayOf, Today
  <2>3. \A n \in Serial : Dev(n)' = Dev(n) /\ DayOf(n)' = DayOf(n)
    BY <1>5 DEF Dev, DayOf
  <2>4. Users' = Users \cup {d}
    BY <1>5, <2>2, <2>3 DEF Users
  <2> QED  BY <2>1, <2>2, <2>3, <2>4
<1>8. /\ Entry(e) /\ e.day = Today
      /\ e.seen = before.seen \cup {<<N, now>>}
  <2> DEFINE A == {<<N, now>>}
  <2>1. before = [day |-> Today, seen |-> before.seen, edges |-> before.edges] /\ Today \in Nat
    BY <1>3, <1>7 DEF Entry
  <2>2. PICK y, z : before = [day |-> Today, seen |-> y, edges |-> z]
    BY <2>1
  <2>3. e = [before EXCEPT !.seen = @ \cup A, !.edges = @ \cup B]
    BY <1>1
  <2> HIDE DEF A
  <2>4. e = [day |-> Today, seen |-> y \cup A, edges |-> z \cup B]
    BY <2>2, <2>3
  <2>5. e.day = Today /\ e.seen = y \cup A /\ e.edges = z \cup B /\ before.seen = y
    BY <2>2, <2>4
  <2> QED  BY <2>1, <2>4, <2>5 DEF Entry, A
<1>9. Serials(e) = Serials(before) \cup {N}
  <2>1. <<N, now>>[1] = N
    OBVIOUS
  <2> QED  BY <1>8, <2>1 DEF Serials
<1>10. /\ IsFiniteSet(DOMAIN activity') /\ DOMAIN activity \subseteq DOMAIN activity'
       /\ \A c \in DOMAIN activity' :
            Entry(activity[c])' /\ \A n \in Serials(activity[c])' : n \in Nat /\ n > served
       /\ \A n \in Serial : CountsIn(activity, n) => CountsIn(activity, n)'
       /\ Charged(ev) => d \in DOMAIN activity' /\ activity'[d] = e
       /\ ~Charged(ev) => activity' = activity
  <2>1. CASE Charged(ev)
    <3>1. activity' = Entered(d, e) /\ Serials(TodayOf(activity, d)) \subseteq Serials(e)
      BY <1>0, <1>1, <1>9, <2>1
    <3> HIDE DEF d
    <3>2. /\ DOMAIN activity' = DOMAIN activity \cup {d} /\ IsFiniteSet(DOMAIN activity')
          /\ activity'[d] = e /\ \A c \in DOMAIN activity : c # d => activity'[c] = activity[c]
          /\ \A c \in DOMAIN activity' : Entry(activity[c])'
          /\ \A n \in Serial : CountsIn(activity, n) /\ Dev(n)' = Dev(n) /\ DayOf(n)' = DayOf(n)
               => CountsIn(activity, n)'
      BY <1>1, <1>8, <3>1, EntryMade
    <3>3. \A c \in DOMAIN activity' : \A n \in Serials(activity[c])' : n \in Nat /\ n > served
      BY <1>2, <1>3, <1>5, <1>9, <3>2 DEF Sides, Serials
    <3> QED  BY <1>7, <2>1, <3>2, <3>3
  <2>2. CASE ~Charged(ev)
    <3>1. activity' = activity
      BY <1>1, <2>2
    <3>2. \A c \in DOMAIN activity : Entry(activity[c])' /\ Serials(activity[c])' = Serials(activity[c])
      BY <1>2, <1>7, <3>1 DEF Sides, Entry, Serials
    <3>3. \A n \in Serial : CountsIn(activity, n) => CountsIn(activity, n)'
      BY <1>7, <3>1 DEF CountsIn, Serials
    <3> QED  BY <1>2, <2>2, <3>1, <3>2, <3>3 DEF Sides
  <2> QED  BY <2>1, <2>2
<1>11. Sides'
  <2>1. Queries(queue)' \subseteq Queries(queue) \cup {N}
    <3>1. CASE queue' = queue
      BY <3>1 DEF Queries
    <3>2. CASE queue' = Append(queue, N)
      <4>1. Queries(Append(queue, N)) \subseteq Queries(queue) \cup {N}
        BY <1>4, <1>5, Appended
      <4>2. Queries(queue)' = Queries(queue')
        BY DEF Queries
      <4> QED  BY <3>2, <4>1, <4>2
    <3> QED  BY <1>1, <3>1, <3>2
  <2>2. Queries(batch)' = Queries(batch)
    BY <1>1 DEF Queries
  <2>3. \A c \in DOMAIN baseline : Entry(baseline[c])' /\ Serials(baseline[c])' = Serials(baseline[c])
    BY <1>1, <1>2, <1>7 DEF Sides, Entry, Serials
  <2>4. IsFiniteSet(Users')
    BY <1>2, <1>7, FS_AddElement DEF Sides
  <2>5. served <= Len(sent')
    BY <1>4, <1>5
  <2>6. \A n \in Queries(queue)' \cup Queries(batch)' : n > served
    BY <1>2, <1>5, <2>1, <2>2 DEF Sides
  <2> QED  BY <1>1, <1>2, <1>10, <2>3, <2>4, <2>5, <2>6 DEF Sides
<1>12. Kept'
  <2>1. saved \subseteq Serial
    BY InSerial
  <2>2. \A n \in Serial' : sent'[n].at <= now
    <3>1. now <= now
      BY <1>4
    <3> QED  BY <1>2, <1>5, <1>6, <3>1 DEF Kept
  <2>3. \A n \in saved \ removed :
          \E r \in rows : r.n = n /\ r.at \in Nat /\ sent'[n].at <= r.at /\ r.at <= now
    BY <1>2, <1>5, <2>1 DEF Kept
  <2> QED  BY <1>1, <2>2, <2>3 DEF Kept
<1>13. ASSUME Tracked' PROVE NewCovered' /\ OldCovered'
  <2>1. Tracked
    BY <1>1, <1>7, <1>10, <1>11, <1>13, TrackedBefore DEF Sides
  <2>2. ASSUME ~What[ev].failed PROVE CountsIn(activity, N)'
    <3>1. Charged(ev)
      <4> SUFFICES ASSUME ~Charged(ev) PROVE FALSE
        OBVIOUS
      <4>1. /\ ~(Cardinality(DOMAIN activity) < DeviceCap)
            /\ d \notin DOMAIN activity /\ activity' = activity
        BY <1>10, <2>2 DEF Charged
      <4> HIDE DEF d
      <4> DEFINE S == DOMAIN activity \cup {d}
                 T == DOMAIN activity' \cup Users'
      <4>2. /\ Cardinality(DOMAIN activity) \in Nat
            /\ IsFiniteSet(S) /\ Cardinality(S) = Cardinality(DOMAIN activity) + 1
        BY <1>2, <4>1, FS_AddElement, FS_CardinalityType DEF Sides
      <4>3. IsFiniteSet(T) /\ S \in SUBSET T
        BY <1>7, <1>10, <1>11, <4>1, FS_Union DEF Sides
      <4>4. Cardinality(S) <= Cardinality(T) /\ Cardinality(T) \in Nat
        <5> HIDE DEF S, T
        <5> QED  BY <4>3, FS_Subset, FS_CardinalityType
      <4>5. Cardinality(T) <= DeviceCap
        BY <1>13 DEF Tracked, Users
      <4> HIDE DEF S, T
      <4> QED  BY <4>1, <4>2, <4>4, <4>5, BudgetAssumption
    <3>2. Dev(N)' \in DOMAIN activity' /\ activity'[Dev(N)'] = e
      BY <1>7, <1>10, <3>1
    <3>3. Serials(activity[Dev(N)])' = Serials(e)
      BY <3>2 DEF Serials
    <3>4. /\ Dev(N)' \in DOMAIN activity' /\ (activity[Dev(N)])'.day >= DayOf(N)'
          /\ N \in Serials(activity[Dev(N)])'
      <4>1. e.day >= Today
        BY <1>7, <1>8
      <4> QED  BY <1>7, <1>8, <1>9, <3>2, <3>3, <4>1
    <3> QED  BY <3>4 DEF CountsIn
  <2>3. NewCovered'
    <3> SUFFICES ASSUME NEW n \in Serial', n > served, ~What[sent'[n].ev].failed
                 PROVE  CountsIn(activity, n)'
      BY <1>1 DEF NewCovered
    <3>1. CASE n = N
      <4>1. ~What[ev].failed
        BY <1>5, <1>6, <3>1
      <4> QED  BY <2>2, <3>1, <4>1
    <3>2. CASE n \in Serial
      <4>1. CountsIn(activity, n)
        BY <1>2, <1>5, <2>1, <3>2 DEF NewCovered
      <4> QED  BY <1>10, <3>2, <4>1
    <3> QED  BY <1>5, <3>1, <3>2
  <2>4. OldCovered'
    <3> SUFFICES ASSUME NEW n \in saved \ removed, n <= served, ~What[sent'[n].ev].failed,
                        DayOf(n)' = Today
                 PROVE  CountsIn(baseline, n)'
      BY <1>1, <1>7 DEF OldCovered
    <3>1. n \in Serial /\ ~What[sent[n].ev].failed /\ DayOf(n) = Today
      BY <1>5, <1>7, InSerial
    <3>2. CountsIn(baseline, n)
      BY <1>2, <2>1, <3>1 DEF OldCovered
    <3> QED  BY <1>1, <1>7, <3>1, <3>2 DEF CountsIn, Serials
  <2> QED  BY <2>3, <2>4
<1> QED  BY <1>11, <1>12, <1>13 DEF GuardInv

(* A start: the log is read, or cannot be.                                 *)
LEMMA StartKeeps ==
  ASSUME LogInv, GuardInv, Start
  PROVE  GuardInv'
<1>1. /\ mode = "down" /\ activity' = NoEntries /\ served' = Len(sent)
      /\ UNCHANGED <<now, sent, queue, batch, rows, saved, removed>>
  BY DEF Start, Boot
<1>2. PICK D \in SUBSET Device :
        \/ seeded' = TRUE /\ Summarised(D) /\ baseline' = [d \in D |-> Summary(d)]
        \/ seeded' = FALSE /\ D = {} /\ baseline' = [d \in D |-> Nothing]
  <2>1. CASE seeded' = FALSE /\ baseline' = NoEntries
    BY <2>1 DEF NoEntries
  <2> QED  BY <2>1 DEF Start
<1>3. Kept /\ Sides /\ queue = <<>> /\ batch = <<>>
  BY <1>1 DEF GuardInv, LogInv, FlushInOrder
<1>4. /\ Len(sent) \in Nat /\ Serial = 1..Len(sent) /\ saved \subseteq Serial
      /\ \A r \in rows : r.n \in Serial
  BY InSerial
<1>5. /\ Serial' = Serial /\ Users' = Users /\ Today' = Today /\ Today \in Nat
      /\ \A n : Dev(n)' = Dev(n) /\ DayOf(n)' = DayOf(n)
  BY <1>1, <1>3, DaysPassed DEF Serial, Users, Dev, DayOf, Today
<1>6. /\ DOMAIN baseline' = D
      /\ \A d \in D : /\ seeded' = TRUE /\ baseline'[d] = Summary(d)
  BY <1>2
<1>7. \A d \in D : Serials(baseline[d])' = {r.n : r \in RowsOf(d)}
  <2> SUFFICES ASSUME NEW d \in D PROVE Serials(baseline[d])' = {r.n : r \in RowsOf(d)}
    OBVIOUS
  <2>1. Serials(baseline[d])' = {s[1] : s \in {<<r.n, r.at>> : r \in RowsOf(d)}}
    BY <1>6 DEF Serials, Summary
  <2>2. \A r : <<r.n, r.at>>[1] = r.n
    OBVIOUS
  <2> QED  BY <2>1, <2>2
<1>8. \A d \in D : RowsOf(d) \subseteq rows
  BY DEF RowsOf, Of
<1>9. Sides'
  <2>1. Queries(queue)' = {} /\ Queries(batch)' = {}
    BY <1>1, <1>3, NoMessage DEF Queries
  <2>2. DOMAIN activity' = {}
    BY <1>1 DEF NoEntries
  <2>3. ASSUME NEW d \in D PROVE Entry(baseline[d])'
    BY <1>5, <1>6 DEF Entry, Summary
  <2>4. ASSUME NEW d \in D, NEW n \in Serials(baseline[d])' PROVE n \in Nat /\ n <= served'
    BY <1>1, <1>4, <1>7, <1>8
  <2> QED  BY <1>1, <1>3, <1>4, <1>5, <1>6, <2>1, <2>2, <2>3, <2>4, FS_EmptySet DEF Sides
<1>10. Kept'
  BY <1>1, <1>3, <1>5 DEF Kept
<1>11. NewCovered'
  BY <1>1, <1>4, <1>5 DEF NewCovered
<1>12. ASSUME Tracked' PROVE OldCovered'
  <2> DEFINE S == {d \in Device : RowsOf(d) # {}}
  <2>1. seeded' = TRUE /\ Summarised(D)
    BY <1>2, <1>12 DEF Tracked
  <2>2. S \in SUBSET Users
    <3>1. \A d \in S : \E r \in rows : Dev(r.n) = d
      BY DEF RowsOf, Of
    <3> QED  BY <1>4, <3>1 DEF Users
  <2>3. IsFiniteSet(Users) /\ Cardinality(Users) \in Nat /\ Cardinality(Users) <= DeviceCap
    <3>1. DOMAIN activity' \cup Users' = Users
      BY <1>1, <1>5 DEF NoEntries
    <3>2. Cardinality(DOMAIN activity' \cup Users') <= DeviceCap
      BY <1>12 DEF Tracked, Users
    <3> QED  BY <1>3, <3>1, <3>2, FS_CardinalityType DEF Sides
  <2>4. D \subseteq S /\ Cardinality(D) = AtMost(DeviceCap, Cardinality(S))
    BY <2>1 DEF Summarised
  <2> HIDE DEF S
  <2>5. IsFiniteSet(S) /\ Cardinality(S) \in Nat /\ Cardinality(S) <= DeviceCap
    BY <2>2, <2>3, FS_Subset, FS_CardinalityType, BudgetAssumption
  <2>6. Cardinality(D) = Cardinality(S)
    BY <2>4, <2>5, BudgetAssumption DEF AtMost
  <2>7. D = S
    BY <2>4, <2>5, <2>6, FS_Subset
  <2> SUFFICES ASSUME NEW n \in saved \ removed, DayOf(n) = Today
               PROVE  CountsIn(baseline, n)'
    BY <1>1, <1>5 DEF OldCovered
  <2>8. PICK r \in rows : r.n = n /\ r.at \in Nat /\ sent[n].at <= r.at /\ r.at <= now
    BY <1>3 DEF Kept
  <2>9. r.at \div Day = Today
    <3>1. now \in Nat /\ sent[n].at \in Nat
      BY <1>3, <1>4, DaysPassed DEF LogInv, LogTypes
    <3>2. /\ sent[n].at \div Day <= r.at \div Day /\ r.at \div Day <= now \div Day
          /\ r.at \div Day \in Nat
      BY <2>8, <3>1, Quotient
    <3> QED  BY <1>5, <3>2 DEF DayOf, Today
  <2>10. r \in RowsOf(Dev(n))
    BY <2>8, <2>9 DEF RowsOf, Of
  <2>11. Dev(n) \in D
    <3>1. sent[n].ev \in Event
      BY <1>4, SentTyped
    <3>2. Dev(n) \in Device
      BY <3>1, BudgetAssumption DEF Dev
    <3> QED  BY <2>7, <2>10, <3>2 DEF S
  <2>12. n \in Serials(baseline[Dev(n)])'
    <3>1. PICK d \in D : d = Dev(n)
      BY <2>11
    <3>2. n \in Serials(baseline[d])'
      BY <1>7, <2>8, <2>10, <3>1
    <3> QED  BY <1>5, <3>1, <3>2 DEF Serials
  <2>13. baseline'[Dev(n)].day = Today
    BY <1>6, <2>11 DEF Summary
  <2> QED  BY <1>5, <1>6, <2>11, <2>12, <2>13 DEF CountsIn, Serials
<1> QED  BY <1>9, <1>10, <1>11, <1>12 DEF GuardInv

LEMMA GuardNextInv == LogInv /\ LogInv' /\ GuardInv /\ [Next]_vars => GuardInv'
<1> SUFFICES ASSUME LogInv, LogInv', GuardInv, [Next]_vars PROVE GuardInv'
  OBVIOUS
<1>1. CASE UNCHANGED vars
  <2>1. UNCHANGED storeVars /\ UNCHANGED guardVars
    BY <1>1 DEF vars
  <2>2. LogStep
    <3>1. now \in Nat /\ now <= now /\ Kept
      BY DEF LogInv, LogTypes, GuardInv
    <3>2. UNCHANGED <<now, sent, rows, saved, removed, lost, dropped>>
      BY <2>1 DEF storeVars
    <3> QED  BY <3>1, <3>2, KeptWhenLater DEF LogStep
  <2> QED  BY <2>1, <2>2, GuardWaits
<1>2. CASE (StoreStep \/ Exit \/ Crash) /\ UNCHANGED guardVars
  <2>1. LogStep
    BY <1>2, LogSteps DEF GuardInv
  <2> QED  BY <1>2, <2>1, GuardWaits
<1> QED
  BY <1>1, <1>2, DecideKeeps, FinishKeeps, StartKeeps DEF Next

(* "So a daemon restart cannot silently restore tracking access": every    *)
(* query is charged to its device once, before or after a restart, and     *)
(* nothing that is due is left out (record, should_block, and the seeding  *)
(* from privacy_summaries in main.rs).                                     *)
THEOREM QueriesChargedOnce == Spec => []ChargedOnce
<1>1. Spec => []LogInv
  BY LogInitInv, LogNextInv, PTL DEF Spec
<1>2. Spec => []GuardInv
  BY <1>1, GuardInitInv, GuardNextInv, PTL DEF Spec
<1> QED  BY <1>1, <1>2, ChargedOnceHolds, PTL

-----------------------------------------------------------------------------
(* Retention. The ids of a table are an interval in the order of time:     *)
(* rows are numbered from the largest id in use, written with the time of  *)
(* the clock, and taken away from either end alone.                        *)

Stacked(table) ==
  /\ \A r \in table : r.id \in Nat \ {0} /\ r.at \in Nat /\ r.at <= now
  /\ \E top \in Nat : \A r \in table : r.id <= top
  /\ \A r, s \in table : r.id = s.id => r = s
  /\ \A r, s \in table : r.id <= s.id => r.at <= s.at
  /\ \A r, s \in table : \A k \in r.id..s.id : \E t \in table : t.id = k

LEMMA SmallestOf ==
  ASSUME NEW T, T \subseteq Nat, T # {}
  PROVE  \E m \in T : \A x \in T : m <= x
<1>1. PICK m \in T : \A x \in T : ~(<<x, m>> \in OpToRel(<, Nat))
  BY NatLessThanWellFounded, WFMin
<1>2. ASSUME NEW x \in T PROVE m <= x
  <2>1. x \in Nat /\ m \in Nat
    OBVIOUS
  <2>2. x < m => <<x, m>> \in OpToRel(<, Nat)
    BY <2>1 DEF OpToRel
  <2>3. ~(x < m)
    BY <1>1, <2>2
  <2> QED  BY <2>1, <2>3
<1> QED  BY <1>2

LEMMA LargestOf ==
  ASSUME NEW T, T \subseteq Nat, T # {}, NEW top \in Nat, \A x \in T : x <= top
  PROVE  \E m \in T : \A x \in T : x <= m
<1> DEFINE below == {top - x : x \in T}
<1>1. below \subseteq Nat /\ below # {}
  <2>1. ASSUME NEW x \in T PROVE top - x \in Nat
    <3>1. x \in Nat /\ x <= top
      OBVIOUS
    <3> QED  BY <3>1
  <2>2. PICK x \in T : TRUE
    OBVIOUS
  <2> QED  BY <2>1, <2>2
<1>2. PICK d \in below : \A y \in below : d <= y
  <2> HIDE DEF below
  <2> QED  BY <1>1, SmallestOf
<1>3. PICK m \in T : d = top - m
  OBVIOUS
<1>4. ASSUME NEW x \in T PROVE x <= m
  <2>1. top - x \in below
    OBVIOUS
  <2>2. top - m <= top - x
    BY <1>2, <1>3, <2>1
  <2>3. x \in Nat /\ m \in Nat
    OBVIOUS
  <2> QED  BY <2>2, <2>3
<1> QED  BY <1>4

(* The largest id of a table in use, from which the next is counted.       *)
LEMMA HighestId ==
  ASSUME NEW table, Stacked(table)
  PROVE  /\ Highest(table) \in Nat
         /\ \A r \in table : r.id \in Nat /\ r.id <= Highest(table)
         /\ table # {} => \E r \in table : r.id = Highest(table)
<1>1. CASE table = {}
  BY <1>1 DEF Highest
<1>2. CASE table # {}
  <2> DEFINE ids == {r.id : r \in table}
  <2>1. PICK top \in Nat : \A r \in table : r.id <= top
    BY DEF Stacked
  <2>2. ids \subseteq Nat /\ ids # {} /\ \A x \in ids : x <= top
    BY <1>2, <2>1 DEF Stacked
  <2>3. PICK m \in ids : \A x \in ids : x <= m
    <3> HIDE DEF ids
    <3> QED  BY <2>2, LargestOf
  <2>4. \E t \in table : \A r \in table : r.id <= t.id
    BY <2>3
  <2> DEFINE h == CHOOSE t \in table : \A r \in table : r.id <= t.id
  <2>5. h \in table /\ \A r \in table : r.id <= h.id
    BY <2>4
  <2>6. Highest(table) = h.id
    BY <1>2 DEF Highest
  <2> HIDE DEF h, ids
  <2> QED  BY <2>5, <2>6 DEF Stacked
<1> QED  BY <1>1, <1>2

(* What is left when rows go from both ends.                               *)
LEMMA StackedPart ==
  ASSUME NEW table, Stacked(table), NEW part \in SUBSET table,
         \A r, s \in part : \A t \in table : r.id <= t.id /\ t.id <= s.id => t \in part
  PROVE  Stacked(part)
<1>1. ASSUME NEW r \in part, NEW s \in part, NEW k \in r.id..s.id
      PROVE  \E t \in part : t.id = k
  <2>1. PICK t \in table : t.id = k
    BY DEF Stacked
  <2> QED  BY <2>1
<1>2. \E top \in Nat : \A r \in part : r.id <= top
  BY DEF Stacked
<1> QED  BY <1>1, <1>2 DEF Stacked

LEMMA StackedOlder ==
  ASSUME now \in Nat, NEW table, Stacked(table), NEW window \in Nat
  PROVE  Stacked(Older(table, window))
<1>1. ASSUME NEW s \in Older(table, window), NEW t \in table, t.id <= s.id
      PROVE  t \in Older(table, window)
  <2>1. t.at <= s.at /\ t.at \in Nat /\ s.at \in Nat /\ s.at < now - window
    BY <1>1 DEF Older, Stacked
  <2>2. t.at < now - window
    BY <2>1
  <2> QED  BY <2>2 DEF Older
<1>2. Older(table, window) \in SUBSET table
  BY DEF Older
<1> QED  BY <1>1, <1>2, StackedPart

LEMMA StackedUnexpired ==
  ASSUME now \in Nat, NEW table, Stacked(table)
  PROVE  Stacked(Unexpired(table))
<1>1. ASSUME NEW r \in Unexpired(table), NEW t \in table, r.id <= t.id
      PROVE  t \in Unexpired(table)
  <2>1. r.at <= t.at /\ t.at \in Nat /\ r.at \in Nat /\ r.at >= now - Retention
    BY <1>1 DEF Unexpired, Stacked
  <2>2. t.at >= now - Retention
    BY <2>1, SizeAssumption
  <2> QED  BY <2>2 DEF Unexpired
<1>2. Unexpired(table) \in SUBSET table
  BY DEF Unexpired
<1> QED  BY <1>1, <1>2, StackedPart

LEMMA StackedTrimmed ==
  ASSUME NEW table, Stacked(table), NEW cap \in Nat
  PROVE  Stacked(Trimmed(table, cap))
<1>1. ASSUME NEW r \in Trimmed(table, cap), NEW t \in table, r.id <= t.id
      PROVE  t \in Trimmed(table, cap)
  <2>1. /\ r.id \in Nat /\ t.id \in Nat /\ Highest(table) \in Nat
        /\ r.id > Highest(table) - cap
    BY <1>1, HighestId DEF Trimmed
  <2>2. t.id > Highest(table) - cap
    BY <1>1, <2>1
  <2> QED  BY <2>2 DEF Trimmed
<1>2. Trimmed(table, cap) \in SUBSET table
  BY DEF Trimmed
<1> QED  BY <1>1, <1>2, StackedPart

(* Above a row lie as many as its distance from the largest id.            *)
LEMMA CountAbove ==
  ASSUME NEW table, Stacked(table), NEW r \in table
  PROVE  Cardinality({s \in table : s.id > r.id}) = Highest(table) - r.id
<1> DEFINE above == {s \in table : s.id > r.id}
           places == (r.id + 1)..Highest(table)
           at == [k \in places |-> CHOOSE s \in table : s.id = k]
<1>1. Highest(table) \in Nat /\ r.id \in Nat /\ r.id <= Highest(table)
  BY HighestId
<1>2. PICK h \in table : h.id = Highest(table)
  BY HighestId
<1>3. ASSUME NEW k \in places PROVE at[k] \in above /\ at[k].id = k
  <2>1. k \in r.id..h.id /\ k > r.id
    BY <1>1, <1>2
  <2>2. \E s \in table : s.id = k
    BY <2>1 DEF Stacked
  <2>3. at[k] \in table /\ at[k].id = k
    BY <2>2
  <2> QED  BY <2>1, <2>3
<1>4. ASSUME NEW s \in above PROVE \E k \in places : at[k] = s
  <2>1. s.id \in places
    BY <1>1, HighestId
  <2>2. at[s.id] \in table /\ at[s.id].id = s.id
    BY <1>3, <2>1
  <2>3. at[s.id] = s
    BY <2>2 DEF Stacked
  <2> QED  BY <2>1, <2>3
<1>5. at \in Bijection(places, above)
  <2>1. at \in [places -> above]
    BY <1>3
  <2>2. \A a, b \in places : at[a] = at[b] => a = b
    <3>1. SUFFICES ASSUME NEW a \in places, NEW b \in places, at[a] = at[b] PROVE a = b
      OBVIOUS
    <3> HIDE DEF at, places
    <3> QED  BY <3>1, <1>3
  <2> HIDE DEF at, places, above
  <2>3. at \in Injection(places, above) /\ at \in Surjection(places, above)
    BY <1>4, <2>1, <2>2 DEF Injection, IsInjective, Surjection
  <2> QED  BY <2>3 DEF Bijection
<1>6. IsFiniteSet(places) /\ Cardinality(places) = Highest(table) - r.id
  <2>1. r.id + 1 \in Int /\ Highest(table) \in Int
    BY <1>1
  <2>2. /\ IsFiniteSet(places)
        /\ Cardinality(places)
             = IF r.id + 1 > Highest(table) THEN 0 ELSE Highest(table) - (r.id + 1) + 1
    BY <2>1, FS_Interval
  <2> QED  BY <1>1, <2>2
<1> HIDE DEF at, places, above
<1>7. ExistsBijection(places, above)
  BY <1>5 DEF ExistsBijection
<1>8. Cardinality(above) = Cardinality(places)
  BY <1>6, <1>7, FS_Bijection
<1> QED  BY <1>6, <1>8 DEF above

LEMMA TrimmedIsNewest ==
  ASSUME NEW table, Stacked(table), NEW cap \in Nat
  PROVE  Trimmed(table, cap) = Newest(table, cap)
<1>1. ASSUME NEW r \in table
      PROVE  (r.id > Highest(table) - cap)
               <=> Cardinality({s \in table : s.id > r.id}) < cap
  <2>1. Highest(table) \in Nat /\ r.id \in Nat
    BY HighestId
  <2>2. Cardinality({s \in table : s.id > r.id}) = Highest(table) - r.id
    BY CountAbove
  <2> QED  BY <2>1, <2>2
<1> QED  BY <1>1 DEF Trimmed, Newest

(* Rows that are added take the next ids and the time of the clock.        *)
Numbered(table, more, k) ==
  /\ \A r \in more : r.at = now /\ r.id \in NextId(table)..(NextId(table) + k - 1)
  /\ \A j \in NextId(table)..(NextId(table) + k - 1) : \E r \in more : r.id = j
  /\ \A r, s \in more : r.id = s.id => r = s

LEMMA StackedMore ==
  ASSUME now \in Nat, NEW table, Stacked(table), NEW k \in Nat, NEW more, Numbered(table, more, k)
  PROVE  Stacked(table \cup more)
<1> DEFINE h == Highest(table)
           all == table \cup more
<1>1. h \in Nat /\ \A r \in table : r.id \in Nat \ {0} /\ r.id <= h
  BY HighestId DEF Stacked
<1>2. /\ \A r \in more : r.at = now /\ r.id \in (h + 1)..(h + k)
      /\ \A j \in (h + 1)..(h + k) : \E r \in more : r.id = j
      /\ \A r, s \in more : r.id = s.id => r = s
  <2>1. NextId(table) = h + 1 /\ NextId(table) + k - 1 = h + k
    BY <1>1 DEF NextId
  <2> QED  BY <2>1 DEF Numbered
<1> HIDE DEF h
<1>3. \A r \in table : r.at \in Nat /\ r.at <= now
  BY DEF Stacked
<1>4. ASSUME NEW r \in all PROVE r.id \in Nat \ {0} /\ r.at \in Nat /\ r.at <= now
  BY <1>1, <1>2, <1>3
<1>5. \E top \in Nat : \A r \in all : r.id <= top
  <2>1. h + k \in Nat /\ \A r \in all : r.id <= h + k
    BY <1>1, <1>2
  <2> QED  BY <2>1
<1>6. ASSUME NEW r \in all, NEW s \in all PROVE r.id = s.id => r = s
  <2>1. CASE r \in table /\ s \in table
    BY <2>1 DEF Stacked
  <2>2. CASE r \in more /\ s \in more
    BY <1>2, <2>2
  <2>3. CASE (r \in table /\ s \in more) \/ (r \in more /\ s \in table)
    BY <1>1, <1>2, <2>3
  <2> QED  BY <2>1, <2>2, <2>3
<1>7. ASSUME NEW r \in all, NEW s \in all, r.id <= s.id PROVE r.at <= s.at
  <2>1. CASE s \in more
    BY <1>2, <1>4, <2>1
  <2>2. CASE r \in table /\ s \in table
    BY <1>7, <2>2 DEF Stacked
  <2>3. CASE r \in more /\ s \in table
    BY <1>1, <1>2, <1>7, <2>3
  <2> QED  BY <2>1, <2>2, <2>3
<1>8. ASSUME NEW r \in all, NEW s \in all, NEW j \in r.id..s.id
      PROVE  \E t \in all : t.id = j
  <2>1. j \in Nat /\ r.id <= j /\ j <= s.id /\ s.id <= h + k
    BY <1>1, <1>2, <1>4
  <2>2. CASE j > h
    BY <1>1, <1>2, <2>1, <2>2
  <2>3. CASE j <= h
    <3>1. r \in table
      BY <1>1, <1>2, <2>1, <2>3
    <3>2. PICK top \in table : top.id = h
      BY <3>1, HighestId DEF h
    <3>3. j \in r.id..top.id
      BY <2>1, <2>3, <3>2, <1>1
    <3>4. \E t \in table : t.id = j
      BY <3>1, <3>3 DEF Stacked
    <3> QED  BY <3>4
  <2> QED  BY <1>1, <2>1, <2>2, <2>3
<1> HIDE DEF all
<1>9. Stacked(all)
  BY <1>4, <1>5, <1>6, <1>7, <1>8 DEF Stacked
<1> QED  BY <1>9 DEF all

(* Records that are numbered one by one.                                   *)
LEMMA NumberedOneByOne ==
  ASSUME NEW table, Stacked(table), NEW k \in Nat, NEW f, NEW more,
         \A i \in 1..k : f[i] \in more /\ f[i].id = NextId(table) + i - 1 /\ f[i].at = now,
         \A r \in more : \E i \in 1..k : r = f[i]
  PROVE  Numbered(table, more, k)
<1> DEFINE m == NextId(table)
<1>1. m \in Nat
  BY HighestId DEF NextId
<1>2. \A i \in 1..k : f[i].id = m + i - 1 /\ f[i].at = now
  OBVIOUS
<1> HIDE DEF m
<1>3. \A i \in 1..k : f[i].id \in m..(m + k - 1)
  BY <1>1, <1>2
<1>4. ASSUME NEW j \in m..(m + k - 1) PROVE \E i \in 1..k : f[i].id = j
  <2>1. j - m + 1 \in 1..k /\ m + (j - m + 1) - 1 = j
    BY <1>1
  <2> QED  BY <1>2, <2>1
<1>5. \A i, j \in 1..k : f[i].id = f[j].id => i = j
  BY <1>1, <1>2
<1>6. \A i \in 1..k : f[i].at = now
  BY <1>2
<1> QED  BY <1>3, <1>4, <1>5, <1>6 DEF Numbered, m

-----------------------------------------------------------------------------
(* FlattenSeq concatenates. Its recursion is solved, and its solution       *)
(* described, by looking at the first length at which that would fail.     *)

Flattening(f, seqs, n) ==
  f = [i \in 1..n |-> IF i = 1 THEN seqs[i] ELSE f[i - 1] \o seqs[i]]

LEMMA FlatteningExists ==
  ASSUME NEW seqs, NEW N \in Nat
  PROVE  \E f : Flattening(f, seqs, N)
<1> DEFINE bad == {n \in Nat : ~\E f : Flattening(f, seqs, n)}
<1> SUFFICES ASSUME N \in bad PROVE FALSE
  OBVIOUS
<1>1. PICK n \in bad : \A m \in bad : n <= m
  <2>1. bad \subseteq Nat /\ bad # {}
    OBVIOUS
  <2> HIDE DEF bad
  <2> QED  BY <2>1, SmallestOf
<1>2. n # 0
  <2>1. ASSUME n = 0 PROVE Flattening(<<>>, seqs, n)
    <3>1. 1..n = {}
      BY <2>1
    <3> QED  BY <3>1 DEF Flattening
  <2> QED  BY <2>1
<1>3. n \in Nat /\ n - 1 \in Nat /\ ~(n <= n - 1)
  BY <1>2
<1>4. PICK f : Flattening(f, seqs, n - 1)
  BY <1>1, <1>3
<1> DEFINE g == [i \in 1..n |-> IF i = n THEN IF n = 1 THEN seqs[n] ELSE f[n - 1] \o seqs[n]
                                ELSE f[i]]
<1>5. \A i \in 1..(n - 1) : f[i] = IF i = 1 THEN seqs[i] ELSE f[i - 1] \o seqs[i]
  BY <1>4 DEF Flattening
<1>6. ASSUME NEW i \in 1..n
      PROVE  g[i] = IF i = 1 THEN seqs[i] ELSE g[i - 1] \o seqs[i]
  <2>1. CASE i = n
    BY <1>3, <2>1
  <2>2. CASE i # n
    <3>1. i \in 1..(n - 1) /\ g[i] = f[i]
      BY <1>3, <2>2
    <3>2. i # 1 => i - 1 \in 1..(n - 1) /\ i - 1 # n /\ i - 1 \in 1..n
      BY <1>3, <3>1
    <3>3. i # 1 => g[i - 1] = f[i - 1]
      BY <3>2
    <3> QED  BY <1>5, <3>1, <3>3
  <2> QED  BY <2>1, <2>2
<1>7. Flattening(g, seqs, n)
  <2>1. g = [i \in 1..n |-> g[i]]
    OBVIOUS
  <2> HIDE DEF g
  <2> QED  BY <1>6, <2>1 DEF Flattening
<1> HIDE DEF g
<1> QED  BY <1>7

LEMMA Concatenated ==
  ASSUME NEW S, NEW s \in Seq(S), NEW t \in Seq(S)
  PROVE  s \o t \in Seq(S) /\ Range(s \o t) = Range(s) \cup Range(t)
<1>1. /\ s \o t \in Seq(S) /\ Len(s \o t) = Len(s) + Len(t)
      /\ Len(s) \in Nat /\ Len(t) \in Nat
  OBVIOUS
<1>2. /\ \A i \in 1..Len(s) : (s \o t)[i] = s[i]
      /\ \A i \in 1..Len(t) : (s \o t)[Len(s) + i] = t[i]
  BY <1>1
<1>3. DOMAIN s = 1..Len(s) /\ DOMAIN t = 1..Len(t) /\ DOMAIN (s \o t) = 1..(Len(s) + Len(t))
  BY <1>1
<1>4. ASSUME NEW i \in 1..(Len(s) + Len(t)) PROVE (s \o t)[i] \in Range(s) \cup Range(t)
  <2>1. CASE i \in 1..Len(s)
    BY <1>2, <1>3, <2>1 DEF Range
  <2>2. CASE i \notin 1..Len(s)
    <3>1. i - Len(s) \in 1..Len(t) /\ Len(s) + (i - Len(s)) = i
      BY <1>1, <2>2
    <3>2. (s \o t)[i] = t[i - Len(s)]
      BY <1>2, <3>1
    <3> QED  BY <1>3, <3>1, <3>2 DEF Range
  <2> QED  BY <2>1, <2>2
<1>5. ASSUME NEW x \in Range(s) PROVE x \in Range(s \o t)
  <2>1. PICK i \in 1..Len(s) : x = s[i]
    BY <1>3 DEF Range
  <2>2. i \in 1..(Len(s) + Len(t))
    BY <1>1
  <2> QED  BY <1>2, <1>3, <2>1, <2>2 DEF Range
<1>6. ASSUME NEW x \in Range(t) PROVE x \in Range(s \o t)
  <2>1. PICK i \in 1..Len(t) : x = t[i]
    BY <1>3 DEF Range
  <2>2. Len(s) + i \in 1..(Len(s) + Len(t))
    BY <1>1
  <2>3. x = (s \o t)[Len(s) + i]
    BY <1>2, <2>1
  <2> QED  BY <1>3, <2>2, <2>3 DEF Range
<1>7. \A x \in Range(s \o t) : x \in Range(s) \cup Range(t)
  BY <1>3, <1>4 DEF Range
<1> QED  BY <1>1, <1>5, <1>6, <1>7

LEMMA Flattened ==
  ASSUME NEW S, NEW seqs \in Seq(Seq(S))
  PROVE  /\ FlattenSeq(seqs) \in Seq(S)
         /\ \A i \in DOMAIN seqs : Range(seqs[i]) \subseteq Range(FlattenSeq(seqs))
<1> DEFINE N == Len(seqs)
<1>1. N \in Nat /\ DOMAIN seqs = 1..N /\ \A i \in 1..N : seqs[i] \in Seq(S)
  OBVIOUS
<1>2. CASE N = 0
  <2>1. FlattenSeq(seqs) = seqs
    BY <1>2, Zenon DEF FlattenSeq
  <2>2. DOMAIN seqs = {} /\ seqs = <<>>
    BY <1>1, <1>2
  <2>3. <<>> \in Seq(S)
    OBVIOUS
  <2> QED  BY <2>1, <2>2, <2>3, Zenon
<1>3. CASE N # 0
  <2> DEFINE f == CHOOSE g : g = [i \in 1..N |-> IF i = 1 THEN seqs[i] ELSE g[i - 1] \o seqs[i]]
  <2>1. FlattenSeq(seqs) = f[N]
    BY <1>3, Zenon DEF FlattenSeq
  <2>2. f = [i \in 1..N |-> IF i = 1 THEN seqs[i] ELSE f[i - 1] \o seqs[i]]
    <3>1. \E g : g = [i \in 1..N |-> IF i = 1 THEN seqs[i] ELSE g[i - 1] \o seqs[i]]
      <4> HIDE DEF N
      <4> QED  BY <1>1, FlatteningExists DEF Flattening
    <3> QED  BY <3>1, Zenon
  <2> HIDE DEF f
  <2> DEFINE Good(n) == /\ f[n] \in Seq(S)
                        /\ \A i \in 1..n : Range(seqs[i]) \subseteq Range(f[n])
             bad == {n \in 1..N : ~Good(n)}
  <2>3. \A i \in 1..N : f[i] = IF i = 1 THEN seqs[i] ELSE f[i - 1] \o seqs[i]
    <3> HIDE DEF N
    <3> QED  BY <2>2
  <2>4. bad = {}
    <3> SUFFICES ASSUME bad # {} PROVE FALSE
      OBVIOUS
    <3> HIDE DEF N, Good
    <3>1. PICK n \in bad : \A m \in bad : n <= m
      <4>1. bad \subseteq Nat
        BY <1>1
      <4> HIDE DEF bad
      <4> QED  BY <4>1, SmallestOf
    <3>2. n \in 1..N /\ n \in Nat /\ ~Good(n)
      BY <1>1, <3>1
    <3>3. n # 1
      <4>1. ASSUME n = 1 PROVE Good(n)
        <5>1. f[n] = seqs[n] /\ 1..n = {n}
          BY <2>3, <3>2, <4>1
        <5> QED  BY <1>1, <3>2, <5>1 DEF Good
      <4> QED  BY <3>2, <4>1
    <3>4. n - 1 \in 1..N /\ ~(n <= n - 1) /\ 1..n = 1..(n - 1) \cup {n}
      BY <1>1, <3>2, <3>3
    <3>5. Good(n - 1)
      BY <3>1, <3>4
    <3>6. f[n] = f[n - 1] \o seqs[n]
      BY <2>3, <3>2, <3>3
    <3>7. f[n] \in Seq(S) /\ Range(f[n]) = Range(f[n - 1]) \cup Range(seqs[n])
      <4>1. f[n - 1] \in Seq(S) /\ seqs[n] \in Seq(S)
        BY <1>1, <3>2, <3>5 DEF Good
      <4> QED  BY <3>6, <4>1, Concatenated
    <3>8. Good(n)
      BY <3>4, <3>5, <3>7 DEF Good
    <3> QED  BY <3>2, <3>8
  <2>5. Good(N)
    <3> HIDE DEF Good
    <3> QED  BY <1>1, <1>3, <2>4
  <2> QED  BY <1>1, <2>1, <2>5
<1> QED  BY <1>2, <1>3

-----------------------------------------------------------------------------
(* The steps of the log, by what they do to the tables.                    *)

(* A query that was committed, and of which nothing was removed, has a row *)
(* for each of its edges.                                                  *)
EdgesKept ==
  \A n \in saved \ removed : \A e \in EdgesSet(n) :
    \E r \in rels : /\ r.n = n /\ r.edge = e
                    /\ r.at \in Nat /\ sent[n].at <= r.at /\ r.at <= now

TableInv == Stacked(rows) /\ Stacked(rels) /\ EdgesKept

Written(b) ==
  b \in Seq(Serial) /\ Persist(b) /\ UNCHANGED <<now, sent, removed>>

TablesRest ==
  /\ UNCHANGED <<rows, rels, saved, removed>>
  /\ now' \in Nat /\ now <= now'
  /\ sent' = sent \/ \E m \in [ev : Event, at : Nat] : sent' = Append(sent, m)

LEMMA OfSerials ==
  ASSUME NEW b \in Seq(Nat \ {0}), Queries(b) \subseteq Serial
  PROVE  b \in Seq(Serial)
<1>1. \A i \in DOMAIN b : b[i] \in Serial
  BY DEF Queries, Flush
<1> QED  BY <1>1

LEMMA TableSteps ==
  ASSUME LogInv, [Next]_vars
  PROVE  \/ \E b \in Seq(Serial) : Written(b)
         \/ \E window \in Timeframe : DeleteLogs(window)
         \/ Cleanup
         \/ TablesRest
<1>1. /\ now \in Nat /\ queue \in Seq(Nat) /\ batch \in Seq(Nat \ {0})
      /\ sent \in Seq([ev : Event, at : Nat])
      /\ Queries(queue) \subseteq Serial /\ Queries(batch) \subseteq Serial
  BY InSerial DEF LogInv, LogTypes
<1>2. now <= now
  BY <1>1
<1>3. CASE UNCHANGED <<now, sent, rows, rels, saved, removed>>
  BY <1>1, <1>2, <1>3 DEF TablesRest
<1>4. CASE ReceiveQuery
  <2> DEFINE b == Append(batch, Head(queue))
  <2>1. /\ queue # <<>> /\ Head(queue) # Flush
        /\ Persist(b) \/ Retain(b)
        /\ UNCHANGED <<now, sent, removed>>
    BY <1>4 DEF ReceiveQuery, Receiving
  <2>2. Head(queue) \in Nat \ {0} /\ Head(queue) \in Queries(queue)
    <3>1. queue \in Seq(Nat) /\ queue # <<>> /\ Distinct(queue)
      BY <1>1, <2>1 DEF LogInv
    <3> QED  BY <2>1, <3>1, Taken DEF Flush
  <2>3. b \in Seq(Nat \ {0}) /\ Queries(b) = Queries(batch) \cup {Head(queue)}
    <3>1. batch \in Seq(Nat \ {0}) /\ batch \in Seq(Nat)
      BY <1>1
    <3>2. b \in Seq(Nat \ {0})
      BY <2>2, <3>1
    <3> QED  BY <2>1, <2>2, <3>1, <3>2, Appended
  <2>4. b \in Seq(Serial)
    BY <1>1, <2>2, <2>3, OfSerials
  <2>5. CASE Persist(b)
    <3> HIDE DEF b
    <3> QED  BY <2>1, <2>4, <2>5 DEF Written
  <2>6. CASE Retain(b)
    BY <1>3, <2>1, <2>6 DEF Retain
  <2> QED  BY <2>1, <2>5, <2>6
<1>5. CASE ReceiveFlush
  <2>1. (Persist(batch) \/ Retain(batch)) /\ UNCHANGED <<now, sent, removed>>
    BY <1>5 DEF ReceiveFlush
  <2>2. batch \in Seq(Serial)
    BY <1>1, OfSerials
  <2>3. CASE Retain(batch)
    BY <1>3, <2>1, <2>3 DEF Retain
  <2> QED  BY <2>1, <2>2, <2>3 DEF Written
<1>6. CASE TimerPersist
  <2>1. batch \in Seq(Serial)
    BY <1>1, OfSerials
  <2> QED  BY <1>6, <2>1 DEF TimerPersist, Written
<1>7. CASE BeginStop \/ SendFlush \/ FlushTimeout
  BY <1>3, <1>7 DEF BeginStop, SendFlush, FlushTimeout
<1>8. CASE Tick
  <2>1. now' \in Nat /\ now <= now' /\ UNCHANGED <<sent, rows, rels, saved, removed>>
    BY <1>1, <1>8 DEF Tick
  <2> QED  BY <2>1 DEF TablesRest
<1>9. CASE Start \/ Exit \/ Crash
  BY <1>3, <1>9 DEF Start, Boot, Exit, Crash, End
<1>10. ASSUME NEW ev \in Event, Finish(ev) PROVE TablesRest
  <2>1. UNCHANGED <<now, rows, rels, saved, removed>> /\ sent' = Append(sent, [ev |-> ev, at |-> now])
    BY <1>10 DEF Finish, Record
  <2>2. [ev |-> ev, at |-> now] \in [ev : Event, at : Nat]
    BY <1>1
  <2> QED  BY <1>1, <1>2, <2>1, <2>2 DEF TablesRest
<1>11. ASSUME NEW ev \in Event, Decide(ev) PROVE UNCHANGED <<now, sent, rows, rels, saved, removed>>
  BY <1>11 DEF Decide, storeVars
<1>12. CASE UNCHANGED vars
  BY <1>3, <1>12 DEF vars, storeVars
<1> QED
  BY <1>3, <1>4, <1>5, <1>6, <1>7, <1>8, <1>9, <1>10, <1>11, <1>12 DEF Next, StoreStep

(* The edges of a batch: as many as its queries have, each with its query. *)
LEMMA BatchEdges ==
  ASSUME LogInv, NEW b \in Seq(Serial)
  PROVE  /\ EdgesOf(b) \in Seq([n : Serial, edge : Edge])
         /\ \A i \in DOMAIN b : \A e \in EdgesSet(b[i]) :
              \E j \in DOMAIN EdgesOf(b) : EdgesOf(b)[j] = [n |-> b[i], edge |-> e]
<1> DEFINE S == [n : Serial, edge : Edge]
           edges(i) == What[sent[b[i]].ev].edges
           pairs(i) == [j \in DOMAIN edges(i) |-> [n |-> b[i], edge |-> edges(i)[j]]]
           all == [i \in DOMAIN b |-> pairs(i)]
<1>1. EdgesOf(b) = FlattenSeq(all)
  BY DEF EdgesOf
<1>2. ASSUME NEW i \in DOMAIN b
      PROVE  /\ b[i] \in Serial /\ edges(i) \in Seq(Edge) /\ EdgesSet(b[i]) = Range(edges(i))
             /\ pairs(i) \in Seq(S)
             /\ \A e \in EdgesSet(b[i]) : [n |-> b[i], edge |-> e] \in Range(pairs(i))
  <2>1. b[i] \in Serial
    OBVIOUS
  <2>2. sent[b[i]].ev \in Event
    BY <2>1, SentTyped
  <2>3. edges(i) \in Seq(Edge) /\ EdgesSet(b[i]) = Range(edges(i))
    <3>1. What[sent[b[i]].ev].edges \in Seq(Edge)
      BY <2>2, EventAssumption
    <3> QED  BY <3>1 DEF EdgesSet
  <2>4. PICK es \in Seq(Edge) : es = edges(i)
    BY <2>3
  <2>5. [j \in DOMAIN es |-> [n |-> b[i], edge |-> es[j]]] \in Seq(S)
    <3>1. DOMAIN es = 1..Len(es) /\ Len(es) \in Nat /\ \A j \in 1..Len(es) : es[j] \in Edge
      OBVIOUS
    <3>2. \A j \in 1..Len(es) : [n |-> b[i], edge |-> es[j]] \in S
      BY <2>1, <3>1
    <3> HIDE DEF S
    <3> QED  BY <3>1, <3>2
  <2>6. \A e \in Range(es) :
          [n |-> b[i], edge |-> e] \in Range([j \in DOMAIN es |-> [n |-> b[i], edge |-> es[j]]])
    BY DEF Range
  <2>7. pairs(i) = [j \in DOMAIN es |-> [n |-> b[i], edge |-> es[j]]]
    BY <2>4
  <2> HIDE DEF pairs, edges, S
  <2> QED  BY <2>1, <2>3, <2>4, <2>5, <2>6, <2>7
<1>3. all \in Seq(Seq(S)) /\ DOMAIN all = DOMAIN b /\ \A i \in DOMAIN b : all[i] = pairs(i)
  <2> HIDE DEF pairs, S
  <2>1. DOMAIN b = 1..Len(b) /\ Len(b) \in Nat
    OBVIOUS
  <2>2. \A i \in DOMAIN b : pairs(i) \in Seq(S)
    BY <1>2
  <2> QED  BY <2>1, <2>2
<1>4. /\ EdgesOf(b) \in Seq(S)
      /\ \A i \in DOMAIN b : Range(pairs(i)) \subseteq Range(EdgesOf(b))
  <2> HIDE DEF all, pairs, S
  <2> QED  BY <1>1, <1>3, Flattened
<1>5. ASSUME NEW i \in DOMAIN b, NEW e \in EdgesSet(b[i])
      PROVE  \E j \in DOMAIN EdgesOf(b) : EdgesOf(b)[j] = [n |-> b[i], edge |-> e]
  <2>1. [n |-> b[i], edge |-> e] \in Range(EdgesOf(b))
    <3> HIDE DEF pairs, edges
    <3> QED  BY <1>2, <1>4
  <2> QED  BY <2>1 DEF Range
<1> QED  BY <1>4, <1>5

LEMMA TablesWritten ==
  ASSUME LogInv, Kept, TableInv, NEW b \in Seq(Serial), Written(b)
  PROVE  TableInv'
<1>1. /\ now \in Nat /\ now' = now /\ sent' = sent /\ removed' = removed
      /\ rows' = InsertedRows(b) /\ rels' = InsertedRels(b)
      /\ saved' = saved \cup {b[i] : i \in DOMAIN b}
  BY DEF Written, Persist, LogInv, LogTypes
<1>2. PICK es \in Seq([n : Serial, edge : Edge]) : es = EdgesOf(b)
  BY BatchEdges
<1>3. Len(b) \in Nat /\ DOMAIN b = 1..Len(b) /\ Len(es) \in Nat /\ DOMAIN es = 1..Len(es)
  OBVIOUS
<1> DEFINE f == [i \in 1..Len(b) |-> [id |-> NextId(rows) + i - 1, n |-> b[i], at |-> now]]
           g == [i \in 1..Len(es) |-> [id |-> NextId(rels) + i - 1, n |-> es[i].n,
                                       edge |-> es[i].edge, at |-> now]]
<1>4. rows' = rows \cup {f[i] : i \in 1..Len(b)} /\ rels' = rels \cup {g[i] : i \in 1..Len(es)}
  BY <1>1, <1>2, <1>3 DEF InsertedRows, InsertedRels
<1>5. /\ \A i \in 1..Len(b) : f[i].id = NextId(rows) + i - 1 /\ f[i].at = now
      /\ \A i \in 1..Len(es) : /\ g[i].id = NextId(rels) + i - 1 /\ g[i].at = now
                               /\ g[i].n = es[i].n /\ g[i].edge = es[i].edge
  OBVIOUS
<1> HIDE DEF f, g
<1>6. PICK R, Q : R = {f[i] : i \in 1..Len(b)} /\ Q = {g[i] : i \in 1..Len(es)}
  OBVIOUS
<1>7. Stacked(rows)' /\ Stacked(rels)'
  <2>1. Stacked(rows) /\ Stacked(rels)
    BY DEF TableInv
  <2>2. Numbered(rows, R, Len(b)) /\ Numbered(rels, Q, Len(es))
    <3>1. \A i \in 1..Len(b) : f[i] \in R /\ f[i].id = NextId(rows) + i - 1 /\ f[i].at = now
      BY <1>5, <1>6
    <3>2. \A i \in 1..Len(es) : g[i] \in Q /\ g[i].id = NextId(rels) + i - 1 /\ g[i].at = now
      BY <1>5, <1>6
    <3>3. /\ \A r \in R : \E i \in 1..Len(b) : r = f[i]
          /\ \A r \in Q : \E i \in 1..Len(es) : r = g[i]
      BY <1>6
    <3> QED  BY <1>3, <2>1, <3>1, <3>2, <3>3, NumberedOneByOne
  <2>3. Stacked(rows \cup R) /\ Stacked(rels \cup Q)
    BY <1>1, <1>3, <2>1, <2>2, StackedMore
  <2>4. rows' = rows \cup R /\ rels' = rels \cup Q /\ now' = now
    BY <1>1, <1>4, <1>6
  <2>5. (Stacked(rows)' <=> Stacked(rows \cup R)) /\ (Stacked(rels)' <=> Stacked(rels \cup Q))
    BY <2>4 DEF Stacked
  <2> QED  BY <2>3, <2>5
<1>8. \A n : EdgesSet(n)' = EdgesSet(n)
  BY <1>1 DEF EdgesSet
<1>9. ASSUME NEW n \in saved' \ removed, NEW e \in EdgesSet(n)
      PROVE  \E r \in rels' : /\ r.n = n /\ r.edge = e
                              /\ r.at \in Nat /\ sent[n].at <= r.at /\ r.at <= now
  <2>1. CASE n \in saved
    <3>1. PICK r \in rels : /\ r.n = n /\ r.edge = e
                            /\ r.at \in Nat /\ sent[n].at <= r.at /\ r.at <= now
      BY <1>9, <2>1 DEF TableInv, EdgesKept
    <3> QED  BY <1>4, <3>1
  <2>2. CASE n \notin saved
    <3>1. PICK i \in DOMAIN b : n = b[i]
      BY <1>1, <2>2
    <3>2. PICK j \in DOMAIN es : es[j] = [n |-> b[i], edge |-> e]
      BY <1>2, <1>9, <3>1, BatchEdges
    <3>3. es[j].n = n /\ es[j].edge = e
      BY <3>1, <3>2
    <3>4. g[j] \in rels' /\ g[j].n = n /\ g[j].edge = e /\ g[j].at = now
      BY <1>3, <1>4, <1>5, <3>3
    <3>5. n \in Serial /\ sent[n].at <= now
      BY <3>1 DEF Kept
    <3>6. now <= now
      BY <1>1
    <3> QED  BY <1>1, <3>4, <3>5, <3>6
  <2> QED  BY <2>1, <2>2
<1>10. EdgesKept'
  BY <1>1, <1>8, <1>9 DEF EdgesKept
<1> QED  BY <1>7, <1>10 DEF TableInv

LEMMA TablesCut ==
  ASSUME LogInv, TableInv, NEW keptRows, NEW keptRels \in SUBSET rels,
         Keep(keptRows, keptRels), Stacked(keptRows), Stacked(keptRels)
  PROVE  TableInv'
<1>1. /\ rows' = keptRows /\ rels' = keptRels /\ UNCHANGED <<now, sent, saved>>
      /\ \A r \in rels \ keptRels : r.n \in removed'
      /\ removed \subseteq removed'
  BY DEF Keep
<1>2. Stacked(rows)' /\ Stacked(rels)'
  BY <1>1 DEF Stacked
<1>3. ASSUME NEW n \in saved \ removed', NEW e \in EdgesSet(n)
      PROVE  \E r \in keptRels : /\ r.n = n /\ r.edge = e
                                 /\ r.at \in Nat /\ sent[n].at <= r.at /\ r.at <= now
  <2>1. PICK r \in rels : /\ r.n = n /\ r.edge = e
                          /\ r.at \in Nat /\ sent[n].at <= r.at /\ r.at <= now
    BY <1>1, <1>3 DEF TableInv, EdgesKept
  <2>2. r \in keptRels
    BY <1>1, <1>3, <2>1
  <2> QED  BY <2>1, <2>2
<1>4. \A n : EdgesSet(n)' = EdgesSet(n)
  BY <1>1 DEF EdgesSet
<1>5. EdgesKept'
  BY <1>1, <1>3, <1>4 DEF EdgesKept
<1> QED  BY <1>2, <1>5 DEF TableInv

LEMMA TablesResting ==
  ASSUME LogInv, TableInv, TablesRest
  PROVE  TableInv'
<1>1. /\ now \in Nat /\ now' \in Nat /\ now <= now'
      /\ rows' = rows /\ rels' = rels /\ saved' = saved /\ removed' = removed
  BY DEF TablesRest, LogInv, LogTypes
<1>2. ASSUME NEW table, Stacked(table) PROVE \A r \in table : r.at <= now'
  BY <1>1, <1>2 DEF Stacked
<1>3. Stacked(rows)' /\ Stacked(rels)'
  BY <1>1, <1>2 DEF Stacked, TableInv
<1>4. \A n \in Serial : sent'[n] = sent[n]
  <2>1. sent \in Seq([ev : Event, at : Nat]) /\ Serial = 1..Len(sent)
    BY InSerial DEF LogInv, LogTypes
  <2> QED  BY <2>1 DEF TablesRest
<1>5. saved \subseteq Serial
  BY InSerial
<1>6. ASSUME NEW n \in saved \ removed, NEW e \in EdgesSet(n)
      PROVE  \E r \in rels : /\ r.n = n /\ r.edge = e
                             /\ r.at \in Nat /\ sent'[n].at <= r.at /\ r.at <= now'
  <2>1. PICK r \in rels : /\ r.n = n /\ r.edge = e
                          /\ r.at \in Nat /\ sent[n].at <= r.at /\ r.at <= now
    BY <1>6 DEF TableInv, EdgesKept
  <2>2. r.at <= now' /\ sent'[n].at = sent[n].at
    BY <1>1, <1>4, <1>5, <2>1
  <2> QED  BY <2>1, <2>2
<1>7. \A n \in Serial : EdgesSet(n)' = EdgesSet(n)
  BY <1>4 DEF EdgesSet
<1>8. EdgesKept'
  BY <1>1, <1>5, <1>6, <1>7 DEF EdgesKept
<1> QED  BY <1>3, <1>8 DEF TableInv

LEMMA TableNextInv ==
  ASSUME LogInv, Kept, TableInv, [Next]_vars
  PROVE  TableInv'
<1>1. now \in Nat
  BY DEF LogInv, LogTypes
<1>2. ASSUME NEW window \in Timeframe, DeleteLogs(window) PROVE TableInv'
  <2>1. window \in Nat
    BY SizeAssumption
  <2>2. Stacked(Older(rows, window)) /\ Stacked(Older(rels, window))
    BY <1>1, <2>1, StackedOlder DEF TableInv
  <2>3. Older(rels, window) \in SUBSET rels
    BY DEF Older
  <2> QED  BY <1>2, <2>2, <2>3, TablesCut DEF DeleteLogs
<1>3. CASE Cleanup
  <2>1. RowCap \in Nat /\ RelCap \in Nat
    BY SizeAssumption
  <2>2. Stacked(Unexpired(rows)) /\ Stacked(Unexpired(rels))
    BY <1>1, StackedUnexpired DEF TableInv
  <2>3. /\ Stacked(Trimmed(Unexpired(rows), RowCap)) /\ Stacked(Trimmed(Unexpired(rels), RelCap))
    BY <2>1, <2>2, StackedTrimmed
  <2>4. Trimmed(Unexpired(rels), RelCap) \in SUBSET rels
    BY DEF Trimmed, Unexpired
  <2> QED  BY <1>3, <2>3, <2>4, TablesCut DEF Cleanup
<1> QED  BY <1>2, <1>3, TableSteps, TablesWritten, TablesResting

LEMMA TableInitInv == Init => TableInv
<1> SUFFICES ASSUME Init PROVE rows = {} /\ rels = {} /\ saved = {}
  BY DEF TableInv, Stacked, EdgesKept
<1> QED  BY DEF Init, StoreInit

LEMMA TablesInOrder == Spec => []TableInv
<1>1. GuardInv => Kept
  BY DEF GuardInv
<1>2. LogInv /\ GuardInv /\ TableInv /\ [Next]_vars => TableInv'
  BY <1>1, TableNextInv
<1>3. Spec => []LogInv
  BY LogInitInv, LogNextInv, PTL DEF Spec
<1>4. Spec => []GuardInv
  BY <1>3, GuardInitInv, GuardNextInv, PTL DEF Spec
<1> QED  BY <1>2, <1>3, <1>4, TableInitInv, PTL DEF Spec

(* trim_to_row_cap computes its cut-off from the largest id alone, and yet *)
(* keeps exactly the newest rows up to the cap: whatever was deleted, and  *)
(* however many batches were written between, the ids have no gaps.        *)
THEOREM RetentionIsExact == Spec => []RetentionKeepsNewest
<1>1. LogInv /\ TableInv => RetentionKeepsNewest
  <2> SUFFICES ASSUME LogInv, TableInv PROVE RetentionKeepsNewest
    OBVIOUS
  <2>1. now \in Nat /\ RowCap \in Nat /\ RelCap \in Nat
    BY SizeAssumption DEF LogInv, LogTypes
  <2>2. Stacked(Unexpired(rows)) /\ Stacked(Unexpired(rels))
    BY <2>1, StackedUnexpired DEF TableInv
  <2> QED  BY <2>1, <2>2, TrimmedIsNewest DEF RetentionKeepsNewest
<1>2. Spec => []LogInv
  BY LogInitInv, LogNextInv, PTL DEF Spec
<1> QED  BY <1>1, <1>2, TablesInOrder, PTL

-----------------------------------------------------------------------------
(* A budget that is spent stays spent. What a device did today is in the   *)
(* activity of this process or in the score persisted before, each with    *)
(* all its edges, and the points of a union are at most those of both.     *)

LEMMA ImageFinite ==
  ASSUME NEW S, IsFiniteSet(S), NEW f, NEW T, \A y \in T : \E x \in S : y = f[x]
  PROVE  IsFiniteSet(T)
<1> DEFINE g == [x \in S |-> f[x]]
           I == {g[x] : x \in S}
<1>1. g \in Surjection(S, I)
  BY DEF Surjection
<1>2. IsFiniteSet(I)
  <2> HIDE DEF g, I
  <2> QED  BY <1>1, FS_Surjection
<1>3. T \in SUBSET I
  OBVIOUS
<1> HIDE DEF I
<1> QED  BY <1>2, <1>3, FS_Subset

LEMMA TableFinite ==
  ASSUME NEW table, Stacked(table)
  PROVE  IsFiniteSet(table)
<1> DEFINE ids == {r.id : r \in table}
           f == [i \in ids |-> CHOOSE r \in table : r.id = i]
<1>1. PICK top \in Nat : \A r \in table : r.id <= top
  BY DEF Stacked
<1>2. ids \in SUBSET Nat /\ \A i \in ids : i <= top
  BY <1>1 DEF Stacked
<1>3. IsFiniteSet(ids)
  <2> HIDE DEF ids
  <2> QED  BY <1>2, FS_BoundedSetOfNaturals
<1>4. ASSUME NEW r \in table PROVE \E i \in ids : r = f[i]
  <2>1. f[r.id] \in table /\ f[r.id].id = r.id
    OBVIOUS
  <2>2. r = f[r.id]
    BY <2>1 DEF Stacked
  <2> QED  BY <2>2
<1> HIDE DEF ids, f
<1> QED  BY <1>3, <1>4, ImageFinite

LEMMA EdgesFinite ==
  ASSUME NEW ev \in Event
  PROVE  IsFiniteSet(Range(What[ev].edges))
<1>1. PICK es \in Seq(Edge) : es = What[ev].edges
  BY EventAssumption
<1>2. Len(es) \in Nat /\ DOMAIN es = 1..Len(es)
  OBVIOUS
<1>3. IsFiniteSet(1..Len(es))
  BY <1>2, FS_Interval
<1>4. \A e \in Range(es) : \E i \in 1..Len(es) : e = es[i]
  BY <1>2 DEF Range
<1> QED  BY <1>1, <1>3, <1>4, ImageFinite

Finite(e) == IsFiniteSet(e.seen) /\ IsFiniteSet(e.edges)

SpentInv ==
  /\ \A d \in DOMAIN activity :
       /\ Finite(activity[d])
       /\ \A n \in Serials(activity[d]) : n \in Serial /\ EdgesSet(n) \subseteq activity[d].edges
  /\ \A d \in DOMAIN baseline :
       /\ Finite(baseline[d])
       /\ \A n \in Serials(baseline[d]) :
            /\ n \in Serial
            /\ n \notin removed /\ DayOf(n) = baseline[d].day =>
                 EdgesSet(n) \subseteq baseline[d].edges

LEMMA NothingSeen == Finite(Nothing) /\ Serials(Nothing) = {}
BY FS_EmptySet DEF Finite, Nothing, Serials

LEMMA SpentInitInv == Init => SpentInv
<1> SUFFICES ASSUME Init PROVE DOMAIN activity = {} /\ DOMAIN baseline = {}
  BY DEF SpentInv
<1> QED  BY DEF Init, NoEntries

LEMMA TodayKnown ==
  ASSUME NEW d
  PROVE  \/ TodayOf(activity, d) = Nothing
         \/ d \in DOMAIN activity /\ TodayOf(activity, d) = activity[d]
BY DEF TodayOf

(* Neither the guard nor the queries change.                               *)
LEMMA SpentWaits ==
  ASSUME SpentInv, UNCHANGED <<sent, activity, baseline>>, removed \subseteq removed'
  PROVE  SpentInv'
<1>1. Serial' = Serial /\ \A n : EdgesSet(n)' = EdgesSet(n) /\ DayOf(n)' = DayOf(n)
  BY DEF Serial, EdgesSet, DayOf
<1>2. /\ \A d \in DOMAIN activity : Serials(activity[d])' = Serials(activity[d])
      /\ \A d \in DOMAIN baseline : Serials(baseline[d])' = Serials(baseline[d])
  BY DEF Serials
<1> QED  BY <1>1, <1>2 DEF SpentInv

(* A device gets another entry; queries may have been added.               *)
LEMMA SpentEntered ==
  ASSUME LogInv, Sides, SpentInv, NEW d, NEW e, activity' = Entered(d, e),
         Finite(e), \A n \in Serials(e) : n \in Serial' /\ EdgesSet(n)' \subseteq e.edges,
         Serial \subseteq Serial', \A n \in Serial : sent'[n] = sent[n],
         UNCHANGED <<baseline, removed>>
  PROVE  SpentInv'
<1>1. \A n \in Serial : EdgesSet(n)' = EdgesSet(n) /\ DayOf(n)' = DayOf(n)
  BY DEF EdgesSet, DayOf
<1>2. DOMAIN activity' = DOMAIN activity \cup {d} /\ activity'[d] = e
      /\ \A c \in DOMAIN activity : c # d => activity'[c] = activity[c]
  BY DEF Entered
<1>3. ASSUME NEW c \in DOMAIN activity'
      PROVE  /\ Finite(activity[c])'
             /\ \A n \in Serials(activity[c])' : n \in Serial' /\ EdgesSet(n)' \subseteq (activity[c].edges)'
  <2>1. CASE c = d
    <3>1. Serials(activity[c])' = Serials(e) /\ (activity[c].edges)' = e.edges
          /\ (Finite(activity[c])' <=> Finite(e))
      BY <1>2, <2>1 DEF Serials, Finite
    <3> QED  BY <3>1
  <2>2. CASE c # d
    <3>1. c \in DOMAIN activity /\ activity'[c] = activity[c]
      BY <1>2, <2>2
    <3>2. Serials(activity[c])' = Serials(activity[c]) /\ (activity[c].edges)' = activity[c].edges
          /\ (Finite(activity[c])' <=> Finite(activity[c]))
      BY <3>1 DEF Serials, Finite
    <3>3. /\ Finite(activity[c])
          /\ \A n \in Serials(activity[c]) : n \in Serial /\ EdgesSet(n) \subseteq activity[c].edges
      BY <3>1 DEF SpentInv
    <3> QED  BY <1>1, <3>2, <3>3
  <2> QED  BY <2>1, <2>2
<1>4. ASSUME NEW c \in DOMAIN baseline
      PROVE  /\ Finite(baseline[c])'
             /\ \A n \in Serials(baseline[c])' :
                  /\ n \in Serial'
                  /\ n \notin removed' /\ DayOf(n)' = (baseline[c].day)' =>
                       EdgesSet(n)' \subseteq (baseline[c].edges)'
  <2>1. /\ Serials(baseline[c])' = Serials(baseline[c])
        /\ (Finite(baseline[c])' <=> Finite(baseline[c]))
    BY DEF Serials, Finite
  <2>2. /\ Finite(baseline[c])
        /\ \A n \in Serials(baseline[c]) :
             /\ n \in Serial
             /\ n \notin removed /\ DayOf(n) = baseline[c].day =>
                  EdgesSet(n) \subseteq baseline[c].edges
    BY DEF SpentInv
  <2> QED  BY <1>1, <2>1, <2>2
<1> QED  BY <1>3, <1>4 DEF SpentInv

LEMMA SpentDecides ==
  ASSUME LogInv, Sides, SpentInv, NEW ev \in Event, Decide(ev)
  PROVE  SpentInv'
<1> DEFINE d == What[ev].dev
<1>1. PICK e : e = TodayOf(activity, d)
  OBVIOUS
<1>2. activity' = Entered(d, e) /\ UNCHANGED <<sent, baseline, removed>>
  BY <1>1 DEF Decide, storeVars
<1>3. \/ e = Nothing
      \/ d \in DOMAIN activity /\ e = activity[d]
  <2> HIDE DEF d
  <2> QED  BY <1>1, TodayKnown
<1> HIDE DEF d
<1>4. Finite(e) /\ \A n \in Serials(e) : n \in Serial /\ EdgesSet(n) \subseteq e.edges
  BY <1>3, NothingSeen DEF SpentInv
<1>5. Serial' = Serial /\ \A n : EdgesSet(n)' = EdgesSet(n)
  BY <1>2 DEF Serial, EdgesSet
<1> QED  BY <1>2, <1>4, <1>5, SpentEntered

LEMMA SpentFinishes ==
  ASSUME LogInv, Sides, SpentInv, NEW ev \in Event, Finish(ev)
  PROVE  SpentInv'
<1> DEFINE d == What[ev].dev
<1>1. PICK N, m, before, B : /\ N = Len(sent) + 1 /\ m = [ev |-> ev, at |-> now]
                             /\ before = TodayOf(activity, d) /\ B = Range(What[ev].edges)
  OBVIOUS
<1>2. PICK e : e = [before EXCEPT !.seen = @ \cup {<<N, now>>}, !.edges = @ \cup B]
  OBVIOUS
<1>3. /\ sent' = Append(sent, m) /\ UNCHANGED <<baseline, removed>>
      /\ (activity' = Entered(d, e) \/ activity' = activity)
  BY <1>1, <1>2 DEF Finish, Record, Charge
<1>4. \/ before = Nothing
      \/ d \in DOMAIN activity /\ before = activity[d]
  <2> HIDE DEF d
  <2> QED  BY <1>1, TodayKnown
<1> HIDE DEF d
<1>5. /\ Finite(before)
      /\ \A n \in Serials(before) : n \in Serial /\ EdgesSet(n) \subseteq before.edges
  BY <1>4, NothingSeen DEF SpentInv
<1>6. PICK day, y, z : before = [day |-> day, seen |-> y, edges |-> z]
  <2>1. d \in DOMAIN activity => activity[d] = [day |-> activity[d].day, seen |-> activity[d].seen,
                                                edges |-> activity[d].edges]
    BY DEF Sides, Entry
  <2> QED  BY <1>4, <2>1 DEF Nothing
<1>7. e.seen = y \cup {<<N, now>>} /\ e.edges = z \cup B /\ before.seen = y /\ before.edges = z
  <2> DEFINE A == {<<N, now>>}
  <2>1. e = [before EXCEPT !.seen = @ \cup A, !.edges = @ \cup B]
    BY <1>2
  <2> HIDE DEF A
  <2>2. e = [day |-> day, seen |-> y \cup A, edges |-> z \cup B]
    BY <1>6, <2>1
  <2>3. e.seen = y \cup A /\ e.edges = z \cup B /\ before.seen = y /\ before.edges = z
    BY <1>6, <2>2
  <2> QED  BY <2>3 DEF A
<1>8. IsFiniteSet(B)
  BY <1>1, EdgesFinite
<1>9. Finite(e)
  <2>1. IsFiniteSet(y) /\ IsFiniteSet(z)
    BY <1>5, <1>7 DEF Finite
  <2>2. IsFiniteSet(y \cup {<<N, now>>})
    BY <2>1, FS_AddElement
  <2>3. IsFiniteSet(z \cup B)
    BY <1>8, <2>1, FS_Union
  <2> QED  BY <1>7, <2>2, <2>3 DEF Finite
<1>10. Serials(e) = Serials(before) \cup {N}
  <2>1. <<N, now>>[1] = N
    OBVIOUS
  <2> QED  BY <1>7, <2>1 DEF Serials
<1>11. /\ Serial' = Serial \cup {N} /\ sent'[N] = m
       /\ \A n \in Serial : sent'[n] = sent[n]
  <2>1. sent \in Seq([ev : Event, at : Nat]) /\ Len(sent) \in Nat /\ Serial = 1..Len(sent)
    BY InSerial DEF LogInv, LogTypes
  <2>2. Len(sent') = Len(sent) + 1 /\ sent'[N] = m /\ \A n \in 1..Len(sent) : sent'[n] = sent[n]
    BY <1>1, <1>3, <2>1
  <2> QED  BY <1>1, <2>1, <2>2 DEF Serial
<1>12. EdgesSet(N)' = B /\ \A n \in Serial : EdgesSet(n)' = EdgesSet(n)
  <2>1. m.ev = ev
    BY <1>1
  <2> QED  BY <1>1, <1>11, <2>1 DEF EdgesSet
<1>13. \A n \in Serials(e) : n \in Serial' /\ EdgesSet(n)' \subseteq e.edges
  <2>1. \A n \in Serials(before) : n \in Serial /\ EdgesSet(n) \subseteq e.edges
    BY <1>5, <1>7
  <2> QED  BY <1>7, <1>10, <1>11, <1>12, <2>1
<1>14. CASE activity' = Entered(d, e)
  BY <1>3, <1>9, <1>11, <1>13, <1>14, SpentEntered
<1>15. CASE activity' = activity
  <2>1. /\ \A c \in DOMAIN activity : Serials(activity[c])' = Serials(activity[c])
        /\ \A c \in DOMAIN baseline : Serials(baseline[c])' = Serials(baseline[c])
    BY <1>3, <1>15 DEF Serials
  <2>2. \A n \in Serial : DayOf(n)' = DayOf(n)
    BY <1>11 DEF DayOf
  <2> QED  BY <1>3, <1>11, <1>12, <1>15, <2>1, <2>2 DEF SpentInv
<1> QED  BY <1>3, <1>14, <1>15

(* The score that is read at a start stands for all edges of the queries   *)
(* that were made today: their rows were written today as well.            *)
LEMMA SpentStarts ==
  ASSUME LogInv, Kept, TableInv, Start
  PROVE  SpentInv'
<1>1. /\ activity' = NoEntries
      /\ UNCHANGED <<now, sent, rows, rels, saved, removed>>
  BY DEF Start, Boot
<1>2. PICK D \in SUBSET Device :
        \/ baseline' = [d \in D |-> Summary(d)]
        \/ D = {} /\ baseline' = [d \in D |-> Nothing]
  <2>1. CASE seeded' = FALSE /\ baseline' = NoEntries
    BY <2>1 DEF NoEntries
  <2> QED  BY <2>1 DEF Start
<1>3. DOMAIN baseline' = D /\ \A d \in D : baseline'[d] = Summary(d)
  BY <1>2
<1>4. Serial' = Serial /\ \A n : EdgesSet(n)' = EdgesSet(n) /\ DayOf(n)' = DayOf(n)
  BY <1>1 DEF Serial, EdgesSet, DayOf
<1>5. IsFiniteSet(rows) /\ IsFiniteSet(rels)
  BY TableFinite DEF TableInv
<1>6. /\ now \in Nat /\ saved \subseteq Serial /\ \A r \in rows : r.n \in saved
      /\ Today \in Nat
  BY InSerial, DaysPassed DEF LogInv, LogTypes
<1>7. ASSUME NEW d \in D
      PROVE  /\ Finite(Summary(d)) /\ Summary(d).day = Today
             /\ \A n \in Serials(Summary(d)) :
                  /\ n \in Serial
                  /\ n \notin removed /\ DayOf(n) = Today => EdgesSet(n) \subseteq Summary(d).edges
  <2>1. /\ Summary(d).seen = {<<r.n, r.at>> : r \in RowsOf(d)}
        /\ Summary(d).edges = {r.edge : r \in Of(rels, d)}
        /\ Summary(d).day = Today
    BY DEF Summary
  <2>2. Finite(Summary(d))
    <3>1. RowsOf(d) \in SUBSET rows /\ Of(rels, d) \in SUBSET rels
      BY DEF RowsOf, Of
    <3>2. IsFiniteSet(RowsOf(d)) /\ IsFiniteSet(Of(rels, d))
      BY <1>5, <3>1, FS_Subset
    <3> DEFINE f == [r \in RowsOf(d) |-> <<r.n, r.at>>]
               g == [r \in Of(rels, d) |-> r.edge]
    <3>3. /\ \A y \in Summary(d).seen : \E r \in RowsOf(d) : y = f[r]
          /\ \A y \in Summary(d).edges : \E r \in Of(rels, d) : y = g[r]
      BY <2>1
    <3> HIDE DEF f, g
    <3> QED  BY <3>2, <3>3, ImageFinite DEF Finite
  <2>3. ASSUME NEW n \in Serials(Summary(d))
        PROVE  n \in saved /\ Dev(n) = d
    <3>1. PICK r \in RowsOf(d) : n = <<r.n, r.at>>[1]
      BY <2>1 DEF Serials
    <3>2. n = r.n
      BY <3>1
    <3> QED  BY <1>6, <3>2 DEF RowsOf, Of
  <2>4. ASSUME NEW n \in Serials(Summary(d)), n \notin removed, DayOf(n) = Today, NEW x \in EdgesSet(n)
        PROVE  x \in Summary(d).edges
    <3>1. PICK r \in rels : /\ r.n = n /\ r.edge = x
                            /\ r.at \in Nat /\ sent[n].at <= r.at /\ r.at <= now
      BY <2>3, <2>4 DEF TableInv, EdgesKept
    <3>2. sent[n].at \in Nat
      BY <1>6, <2>3, SentTyped
    <3>3. /\ sent[n].at \div Day <= r.at \div Day /\ r.at \div Day <= now \div Day
          /\ r.at \div Day \in Nat
      BY <1>6, <3>1, <3>2, Quotient
    <3>4. r.at \div Day = Today
      BY <1>6, <2>4, <3>3 DEF DayOf, Today
    <3>5. r \in Of(rels, d)
      BY <2>3, <3>1, <3>4 DEF Of
    <3> QED  BY <2>1, <3>1, <3>5
  <2> QED  BY <1>6, <2>1, <2>2, <2>3, <2>4
<1>8. ASSUME NEW d \in D
      PROVE  /\ Finite(baseline[d])' /\ Serials(baseline[d])' = Serials(Summary(d))
             /\ (baseline[d].day)' = Summary(d).day /\ (baseline[d].edges)' = Summary(d).edges
  <2>1. PICK s : s = Summary(d)
    OBVIOUS
  <2>2. baseline'[d] = s
    BY <1>3, <2>1
  <2>3. Finite(s)
    BY <1>7, <2>1
  <2> QED  BY <2>1, <2>2, <2>3 DEF Finite, Serials
<1>9. DOMAIN activity' = {}
  BY <1>1 DEF NoEntries
<1> QED  BY <1>1, <1>3, <1>4, <1>7, <1>8, <1>9 DEF SpentInv

LEMMA SpentNextInv ==
  ASSUME LogInv, GuardInv, TableInv, SpentInv, [Next]_vars
  PROVE  SpentInv'
<1>1. Kept /\ Sides
  BY DEF GuardInv
<1>2. CASE (StoreStep \/ Exit \/ Crash) /\ UNCHANGED guardVars
  <2>1. LogStep
    BY <1>1, <1>2, LogSteps
  <2> QED  BY <1>2, <2>1, SpentWaits DEF LogStep, guardVars
<1>3. CASE UNCHANGED vars
  BY <1>3, SpentWaits DEF vars, guardVars, storeVars
<1> QED  BY <1>1, <1>2, <1>3, SpentDecides, SpentFinishes, SpentStarts DEF Next

(* The points of the edges of two evidences are at most those of both.     *)

LEMMA CountedCovered ==
  ASSUME NEW A, NEW B, NEW E, IsFiniteSet(A), IsFiniteSet(B), E \subseteq A \cup B,
         NEW kind, NEW k \in Nat
  PROVE  /\ Counted(A, kind, k) \in Nat /\ Counted(B, kind, k) \in Nat
         /\ Counted(E, kind, k) \in Nat
         /\ Counted(E, kind, k) <= Counted(A, kind, k) + Counted(B, kind, k)
<1> DEFINE of(S) == {e \in S : Kind[e] = kind}
           a == Cardinality(of(A))
           b == Cardinality(of(B))
           c == Cardinality(of(E))
<1>1. of(A) \in SUBSET A /\ of(B) \in SUBSET B /\ of(E) \in SUBSET (of(A) \cup of(B))
  OBVIOUS
<1>2. /\ Counted(A, kind, k) = AtMost(k, a) /\ Counted(B, kind, k) = AtMost(k, b)
      /\ Counted(E, kind, k) = AtMost(k, c)
  BY DEF Counted
<1> HIDE DEF of
<1>3. IsFiniteSet(of(A)) /\ IsFiniteSet(of(B))
  BY <1>1, FS_Subset
<1>4. /\ IsFiniteSet(of(A) \cup of(B)) /\ IsFiniteSet(of(A) \cap of(B))
      /\ Cardinality(of(A) \cup of(B)) = a + b - Cardinality(of(A) \cap of(B))
  <2>1. of(A) \cap of(B) \in SUBSET of(A)
    OBVIOUS
  <2> QED  BY <1>3, <2>1, FS_Union, FS_Subset
<1>5. IsFiniteSet(of(E)) /\ c <= Cardinality(of(A) \cup of(B))
  BY <1>1, <1>4, FS_Subset
<1>6. a \in Nat /\ b \in Nat /\ c \in Nat /\ Cardinality(of(A) \cap of(B)) \in Nat
  BY <1>3, <1>4, <1>5, FS_CardinalityType
<1> HIDE DEF a, b, c
<1>7. c <= a + b
  BY <1>4, <1>5, <1>6
<1> QED  BY <1>2, <1>6, <1>7 DEF AtMost

LEMMA PointsCovered ==
  ASSUME NEW A, NEW B, NEW E, IsFiniteSet(A), IsFiniteSet(B), E \subseteq A \cup B
  PROVE  /\ Points(A) \in Nat /\ Points(B) \in Nat
         /\ Points(E) \in Nat /\ Points(E) <= Points(A) + Points(B)
<1> DEFINE bounded(kind, k) ==
             /\ Counted(A, kind, k) \in Nat /\ Counted(B, kind, k) \in Nat
             /\ Counted(E, kind, k) \in Nat
             /\ Counted(E, kind, k) <= Counted(A, kind, k) + Counted(B, kind, k)
<1>1. /\ bounded("company", 4) /\ bounded("identifier", 20) /\ bounded("application", 5)
      /\ bounded("network", 7) /\ bounded("country", 5)
  BY CountedCovered
<1> QED  BY <1>1 DEF Points

LEMMA QuotientNat ==
  ASSUME NEW a \in Nat, NEW b \in Nat \ {0}
  PROVE  a \div b \in Nat
<1> DEFINE x == a \div b
<1>1. x \in Int /\ a < b * (x + 1)
  OBVIOUS
<1> HIDE DEF x
<1>2. 0 < x + 1
  BY <1>1
<1>3. x \in Nat
  BY <1>1, <1>2
<1> QED  BY <1>3 DEF x

(* A score is at least the points, up to a hundred.                        *)
LEMMA ScoreOfPoints ==
  ASSUME NEW e, Finite(e), Points(e.edges) \in Nat
  PROVE  Score(e) \in Nat /\ AtMost(100, Points(e.edges)) <= Score(e)
<1> DEFINE seen == e.seen
           D == {What[sent[s[1]].ev].dom : s \in seen}
           Q == {s \in seen : 4 * (s[2] % Day) < Day}
           f == [s \in seen |-> What[sent[s[1]].ev].dom]
           total == Cardinality(seen)
           domains == Cardinality(D)
           quiet == Cardinality(Q)
<1>1. IsFiniteSet(seen)
  BY DEF Finite
<1>2. IsFiniteSet(D)
  <2>1. \A y \in D : \E s \in seen : y = f[s]
    OBVIOUS
  <2> HIDE DEF D, f, seen
  <2> QED  BY <1>1, <2>1, ImageFinite
<1>3. IsFiniteSet(Q)
  <2>1. Q \in SUBSET seen
    OBVIOUS
  <2> HIDE DEF Q, seen
  <2> QED  BY <1>1, <2>1, FS_Subset
<1>4. Ratios(seen) = IF total = 0 THEN 0
                     ELSE (36 * domains + 20 * quiet + total) \div (2 * total)
  BY DEF Ratios
<1>5. total \in Nat /\ domains \in Nat /\ quiet \in Nat
  <2> HIDE DEF seen, D, Q
  <2> QED  BY <1>1, <1>2, <1>3, FS_CardinalityType
<1>6. PICK r : r = Ratios(e.seen)
  OBVIOUS
<1> HIDE DEF total, domains, quiet
<1>7. r \in Nat
  <2>1. CASE total = 0
    BY <1>4, <1>6, <2>1
  <2>2. CASE total # 0
    <3>1. 36 * domains + 20 * quiet + total \in Nat /\ 2 * total \in Nat \ {0}
      BY <1>5, <2>2
    <3> QED  BY <1>4, <1>6, <2>2, <3>1, QuotientNat
  <2> QED  BY <2>1, <2>2
<1>8. Score(e) = AtMost(100, Points(e.edges) + r)
  BY <1>6 DEF Score
<1>9. PICK p \in Nat : p = Points(e.edges)
  OBVIOUS
<1> QED  BY <1>7, <1>8, <1>9 DEF AtMost

(* What is due of a device today has left its edges in one of the scores.  *)
LEMMA DueCovered ==
  ASSUME LogInv, GuardInv, SpentInv, Running, Tracked, NEW d \in Device, NEW n \in Due(d)
  PROVE  EdgesSet(n) \subseteq TodayOf(baseline, d).edges \cup TodayOf(activity, d).edges
<1>1. n \in Serials(TodayOf(baseline, d)) \/ n \in Serials(TodayOf(activity, d))
  BY ChargedOnceHolds DEF ChargedOnce
<1>2. DayOf(n) = Today /\ (n > served \/ n \in saved \ removed)
  BY DEF Due, DayOf
<1>3. ASSUME n \in Serials(TodayOf(activity, d))
      PROVE  EdgesSet(n) \subseteq TodayOf(activity, d).edges
  <2>1. d \in DOMAIN activity /\ TodayOf(activity, d) = activity[d]
    BY <1>3, NothingSeen DEF TodayOf
  <2> QED  BY <1>3, <2>1 DEF SpentInv
<1>4. ASSUME n \in Serials(TodayOf(baseline, d))
      PROVE  EdgesSet(n) \subseteq TodayOf(baseline, d).edges
  <2>1. /\ d \in DOMAIN baseline /\ TodayOf(baseline, d) = baseline[d]
        /\ baseline[d].day = Today
    BY <1>4, NothingSeen DEF TodayOf
  <2>2. n \in Nat /\ n <= served /\ served \in Nat
    BY <1>4, <2>1 DEF GuardInv, Sides
  <2>3. n \notin removed
    BY <1>2, <2>2
  <2> QED  BY <1>2, <1>4, <2>1, <2>3 DEF SpentInv
<1> QED  BY <1>1, <1>3, <1>4

LEMMA StaysSpentHolds == LogInv /\ GuardInv /\ SpentInv => StaysSpent
<1> SUFFICES ASSUME LogInv, GuardInv, SpentInv, Running, Tracked, NEW d \in Device,
                    Points(UNION {EdgesSet(n) : n \in Due(d)}) >= Budget
             PROVE  OverBudget(d)
  BY DEF StaysSpent
<1>1. PICK E : E = UNION {EdgesSet(n) : n \in Due(d)}
  OBVIOUS
<1>2. PICK old, new : old = TodayOf(baseline, d) /\ new = TodayOf(activity, d)
  OBVIOUS
<1>3. E \subseteq old.edges \cup new.edges
  BY <1>1, <1>2, DueCovered
<1>4. Finite(old) /\ Finite(new)
  BY <1>2, NothingSeen DEF TodayOf, SpentInv
<1>5. IsFiniteSet(old.edges) /\ IsFiniteSet(new.edges)
  BY <1>4 DEF Finite
<1>6. PICK a, b, c : a = Points(old.edges) /\ b = Points(new.edges) /\ c = Points(E)
  OBVIOUS
<1>7. a \in Nat /\ b \in Nat /\ c \in Nat /\ c <= a + b
  BY <1>3, <1>5, <1>6, PointsCovered
<1>8. PICK x, y : x = Score(old) /\ y = Score(new)
  OBVIOUS
<1>9. x \in Nat /\ y \in Nat /\ AtMost(100, a) <= x /\ AtMost(100, b) <= y
  BY <1>4, <1>6, <1>7, <1>8, ScoreOfPoints
<1>10. Budget \in 1..100 /\ c >= Budget
  BY <1>1, <1>6, BudgetAssumption
<1>11. x + y >= Budget
  BY <1>7, <1>9, <1>10 DEF AtMost
<1>12. AtMost(100, x + y) >= Budget
  BY <1>9, <1>10, <1>11 DEF AtMost
<1> QED  BY <1>2, <1>8, <1>12 DEF OverBudget

(* Once the distinct companies, identifiers, applications, networks and    *)
(* countries of a day amount to the budget, the device stays over it,      *)
(* however the day is cut by restarts and crashes (score, seed).           *)
THEOREM BudgetStaysSpent == Spec => []StaysSpent
<1>1. Spec => []LogInv
  BY LogInitInv, LogNextInv, PTL DEF Spec
<1>2. Spec => []GuardInv
  BY <1>1, GuardInitInv, GuardNextInv, PTL DEF Spec
<1>3. Spec => []SpentInv
  BY <1>1, <1>2, TablesInOrder, SpentInitInv, SpentNextInv, PTL DEF Spec
<1> QED  BY <1>1, <1>2, <1>3, StaysSpentHolds, PTL
=============================================================================
