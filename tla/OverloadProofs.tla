---------------------------- MODULE OverloadProofs --------------------------
(***************************************************************************)
(* Proofs about the two defences against overload: Admission, for any      *)
(* number of clients, tasks and permits, and AnomalyGuard, for any number  *)
(* of queries, any limit, window and delay.                                *)
(***************************************************************************)
EXTENDS Admission, AnomalyGuard, FiniteSetTheorems, TLAPS

(***************************************************************************)
(* Admission.                                                              *)
(***************************************************************************)

\* Who runs holds a permit of its client's semaphore, evicted or not.
Owned == \A t \in Task : tasks[t].pc = "none" <=> tasks[t].share = "none"

IInv == TypeOK /\ PermitsAccounted /\ Owned

WorkingPc == {"udp", "process", "write"}

One(condition) == IF condition THEN 1 ELSE 0

LEMMA Counted ==
  ASSUME NEW S \in SUBSET Task
  PROVE  IsFiniteSet(S) /\ Cardinality(S) \in Nat
  BY TaskAssumption, FS_Subset, FS_CardinalityType

\* A set that gains or loses at most the element t.
LEMMA OneMoreOrLess ==
  ASSUME NEW S \in SUBSET Task, NEW T \in SUBSET Task, NEW t \in Task,
         \A u \in Task \ {t} : u \in S <=> u \in T
  PROVE  Cardinality(T) = Cardinality(S) + One(t \in T) - One(t \in S)
<1>1. IsFiniteSet(S) /\ Cardinality(S) \in Nat
  BY Counted
<1>2. CASE t \in T
  <2>1. T = S \cup {t}
    BY <1>2
  <2> QED BY <1>1, <1>2, <2>1, FS_AddElement DEF One
<1>3. CASE t \notin T
  <2>1. T = S \ {t}
    BY <1>3
  <2> QED BY <1>1, <1>3, <2>1, FS_RemoveElement DEF One
<1> QED BY <1>2, <1>3

\* What the change of one slot does to the three counts.
LEMMA SlotChange ==
  ASSUME TypeOK, NEW t \in Task, NEW r \in TaskState,
         tasks' = [tasks EXCEPT ![t] = r]
  PROVE  /\ tasks' \in [Task -> TaskState]
         /\ Cardinality(Working') = Cardinality(Working)
              + One(r.pc \in WorkingPc) - One(tasks[t].pc \in WorkingPc)
         /\ Cardinality(Connected') = Cardinality(Connected)
              + One(r.pc \in Tcp) - One(tasks[t].pc \in Tcp)
         /\ \A c \in Client : Cardinality(Sharing(c)') = Cardinality(Sharing(c))
              + One(r.share = "held" /\ r.client = c)
              - One(tasks[t].share = "held" /\ tasks[t].client = c)
<1>1. tasks \in [Task -> TaskState]
  BY DEF TypeOK
<1>2. tasks' \in [Task -> TaskState]
  BY <1>1
<1>3. tasks'[t] = r /\ \A u \in Task \ {t} : tasks'[u] = tasks[u]
  BY <1>1
<1>4. Cardinality(Working') = Cardinality(Working) + One(t \in Working') - One(t \in Working)
  <2>1. \A u \in Task \ {t} : u \in Working <=> u \in Working'
    BY <1>3 DEF Working
  <2> QED BY <2>1, OneMoreOrLess DEF Working
<1>5. Cardinality(Connected') = Cardinality(Connected) + One(t \in Connected') - One(t \in Connected)
  <2>1. \A u \in Task \ {t} : u \in Connected <=> u \in Connected'
    BY <1>3 DEF Connected
  <2> QED BY <2>1, OneMoreOrLess DEF Connected
<1>6. ASSUME NEW c \in Client
      PROVE  Cardinality(Sharing(c)') = Cardinality(Sharing(c))
               + One(t \in Sharing(c)') - One(t \in Sharing(c))
  <2>1. \A u \in Task \ {t} : u \in Sharing(c) <=> u \in Sharing(c)'
    BY <1>3 DEF Sharing
  <2> QED BY <2>1, OneMoreOrLess DEF Sharing
<1>7. /\ t \in Working' <=> r.pc \in WorkingPc
      /\ t \in Working <=> tasks[t].pc \in WorkingPc
      /\ t \in Connected' <=> r.pc \in Tcp
      /\ t \in Connected <=> tasks[t].pc \in Tcp
  BY <1>3 DEF Working, WorkingPc, Connected
<1>8. \A c \in Client : /\ t \in Sharing(c)' <=> r.share = "held" /\ r.client = c
                        /\ t \in Sharing(c) <=> tasks[t].share = "held" /\ tasks[t].client = c
  BY <1>3 DEF Sharing
<1> QED BY <1>2, <1>4, <1>5, <1>6, <1>7, <1>8 DEF One

\* The counts are numbers.
LEMMA Sizes ==
  /\ Cardinality(Working) \in Nat
  /\ Cardinality(Connected) \in Nat
  /\ \A c \in Client : Cardinality(Sharing(c)) \in Nat
BY Counted DEF Working, Connected, Sharing

\* What PermitsAccounted says after a step bounds the free permits.
LEMMA Bounded ==
  ASSUME PermitsAccounted', admission' \in Nat, connections' \in Nat,
         limits' \in [Client -> Nat],
         tasks' \in [Task -> TaskState],
         listener' \in {"receive", "overloaded", "refusing", "down"}
  PROVE  TypeOK'
<1>1. /\ Cardinality(Working') \in Nat
      /\ Cardinality(Connected') \in Nat
      /\ \A c \in Client : Cardinality(Sharing(c)') \in Nat
  BY Counted DEF Working, Connected, Sharing
<1>2. admission' \in 0..Global /\ connections' \in 0..Connections
  BY <1>1, LimitAssumption DEF PermitsAccounted
<1>3. \A c \in Client : limits'[c] \in 0..PerClient
  BY <1>1, LimitAssumption DEF PermitsAccounted
<1> QED BY <1>2, <1>3 DEF TypeOK

-----------------------------------------------------------------------------
LEMMA Starts == Init => IInv
<1> SUFFICES ASSUME Init PROVE IInv
  OBVIOUS
<1>1. NoTask \in TaskState
  BY ClientAssumption DEF NoTask, TaskState
<1>2. \A t \in Task : tasks[t].pc = "none" /\ tasks[t].share = "none"
  BY DEF Init, NoTask
<1>3. Working = {} /\ Connected = {} /\ \A c \in Client : Sharing(c) = {}
  BY <1>2 DEF Working, Connected, Tcp, Sharing
<1>4. TypeOK
  BY <1>1, LimitAssumption DEF Init, TypeOK
<1>5. PermitsAccounted
  BY <1>3, FS_EmptySet, LimitAssumption DEF Init, PermitsAccounted
<1> QED BY <1>2, <1>4, <1>5 DEF IInv, Owned

-----------------------------------------------------------------------------
\* A task is started with a share of its client.
LEMMA AdmitStep ==
  ASSUME IInv, NEW t \in Task, NEW c \in Client, UdpAdmit(t, c) \/ TcpAccept(t, c)
  PROVE  IInv'
<1> USE DEF IInv
<1>1. PICK pc \in {"udp", "read"} :
        /\ tasks' = [tasks EXCEPT ![t] = NewTask(pc, c)]
        /\ admission' = admission - One(pc = "udp")
        /\ connections' = connections - One(pc = "read")
        /\ admission >= One(pc = "udp") /\ connections >= One(pc = "read")
  BY DEF UdpAdmit, TcpAccept, One, TypeOK
<1>2. Free(t) /\ limits[c] > 0 /\ limits' = [limits EXCEPT ![c] = @ - 1]
      /\ listener' = listener
  BY DEF UdpAdmit, TcpAccept
<1>3. NewTask(pc, c) \in TaskState /\ NewTask(pc, c).pc = pc
      /\ NewTask(pc, c).share = "held" /\ NewTask(pc, c).client = c
  BY DEF NewTask, TaskState, Udp, Tcp
<1>4. tasks[t].pc = "none" /\ tasks[t].share = "none"
  BY <1>2 DEF Free, Owned
<1>5. /\ tasks' \in [Task -> TaskState]
      /\ Cardinality(Working') = Cardinality(Working) + One(pc = "udp")
      /\ Cardinality(Connected') = Cardinality(Connected) + One(pc = "read")
      /\ \A d \in Client : Cardinality(Sharing(d)') = Cardinality(Sharing(d)) + One(c = d)
  <2> DEFINE r == NewTask(pc, c)
  <2>1. r \in TaskState /\ tasks' = [tasks EXCEPT ![t] = r] /\ TypeOK
    BY <1>1, <1>3
  <2> HIDE DEF r
  <2>2. /\ tasks' \in [Task -> TaskState]
        /\ Cardinality(Working') = Cardinality(Working)
             + One(r.pc \in WorkingPc) - One(tasks[t].pc \in WorkingPc)
        /\ Cardinality(Connected') = Cardinality(Connected)
             + One(r.pc \in Tcp) - One(tasks[t].pc \in Tcp)
        /\ \A d \in Client : Cardinality(Sharing(d)') = Cardinality(Sharing(d))
             + One(r.share = "held" /\ r.client = d)
             - One(tasks[t].share = "held" /\ tasks[t].client = d)
    BY <2>1, SlotChange
  <2>3. r.pc = pc /\ r.share = "held" /\ r.client = c
    BY <1>3 DEF r
  <2>4. /\ One(r.pc \in WorkingPc) = One(pc = "udp")
        /\ One(r.pc \in Tcp) = One(pc = "read")
        /\ One(tasks[t].pc \in WorkingPc) = 0
        /\ One(tasks[t].pc \in Tcp) = 0
    BY <1>4, <2>3 DEF One, WorkingPc, Tcp
  <2>5. \A d \in Client : /\ One(r.share = "held" /\ r.client = d) = One(c = d)
                          /\ One(tasks[t].share = "held" /\ tasks[t].client = d) = 0
    BY <1>4, <2>3 DEF One
  <2> QED BY <2>2, <2>4, <2>5, Sizes DEF One
<1>6. PermitsAccounted'
  BY <1>1, <1>2, <1>5, Sizes, LimitAssumption DEF PermitsAccounted, One, TypeOK
<1>7. TypeOK'
  <2>1. limits' \in [Client -> Nat]
    BY <1>2, LimitAssumption DEF TypeOK
  <2>2. admission' \in Nat /\ connections' \in Nat
    BY <1>1 DEF TypeOK, One
  <2> QED BY <1>2, <1>5, <1>6, <2>1, <2>2, Bounded DEF TypeOK
<1>8. Owned'
  BY <1>1, <1>3 DEF Owned, TypeOK
<1> QED BY <1>6, <1>7, <1>8

\* A connection passes from one await to the next.
LEMMA ConnectionStep ==
  ASSUME IInv, NEW t \in Task,
         TcpFrame(t) \/ TcpApologised(t) \/ TcpProcessed(t) \/ TcpWritten(t)
  PROVE  IInv'
<1> USE DEF IInv
<1>1. PICK pc \in Tcp :
        /\ GoTo(t, pc)
        /\ admission' = admission + One(tasks[t].pc \in WorkingPc) - One(pc \in WorkingPc)
        /\ admission' >= 0 /\ admission' \in Int
  BY DEF TcpFrame, TcpApologised, TcpProcessed, TcpWritten, At, One, WorkingPc, Tcp, TypeOK
<1>2. tasks[t].pc \in Tcp /\ UNCHANGED <<connections, limits, listener>>
  BY DEF TcpFrame, TcpApologised, TcpProcessed, TcpWritten, At, Tcp
<1> DEFINE r == [tasks[t] EXCEPT !.pc = pc]
<1>3. tasks[t] \in TaskState /\ r \in TaskState
  BY DEF TypeOK, TaskState
<1>4. r.pc = pc /\ r.share = tasks[t].share /\ r.client = tasks[t].client
  BY <1>3 DEF TaskState
<1>5. tasks' = [tasks EXCEPT ![t] = r]
  BY <1>1 DEF GoTo, TypeOK
<1> HIDE DEF r
<1>6. /\ tasks' \in [Task -> TaskState]
      /\ Cardinality(Working') = Cardinality(Working)
           + One(pc \in WorkingPc) - One(tasks[t].pc \in WorkingPc)
      /\ Cardinality(Connected') = Cardinality(Connected)
      /\ \A c \in Client : Cardinality(Sharing(c)') = Cardinality(Sharing(c))
  <2>1. TypeOK /\ r \in TaskState
    BY <1>3
  <2>2. /\ tasks' \in [Task -> TaskState]
        /\ Cardinality(Working') = Cardinality(Working)
             + One(r.pc \in WorkingPc) - One(tasks[t].pc \in WorkingPc)
        /\ Cardinality(Connected') = Cardinality(Connected)
             + One(r.pc \in Tcp) - One(tasks[t].pc \in Tcp)
        /\ \A c \in Client : Cardinality(Sharing(c)') = Cardinality(Sharing(c))
             + One(r.share = "held" /\ r.client = c)
             - One(tasks[t].share = "held" /\ tasks[t].client = c)
    BY <1>5, <2>1, SlotChange
  <2>3. One(r.pc \in Tcp) = One(tasks[t].pc \in Tcp)
    BY <1>2, <1>4 DEF One
  <2>4. \A c \in Client : One(r.share = "held" /\ r.client = c)
                            = One(tasks[t].share = "held" /\ tasks[t].client = c)
    BY <1>4
  <2> QED BY <1>4, <2>2, <2>3, <2>4, Sizes DEF One
<1>7. PermitsAccounted'
  BY <1>1, <1>2, <1>6, Sizes, LimitAssumption DEF PermitsAccounted, One, TypeOK
<1>8. TypeOK'
  BY <1>1, <1>2, <1>6, <1>7, Bounded DEF TypeOK
<1>9. Owned'
  BY <1>2, <1>4, <1>5 DEF Owned, TypeOK, Tcp
<1> QED BY <1>7, <1>8, <1>9

\* A task ends.
LEMMA EndStep ==
  ASSUME IInv, NEW t \in Task, Ends(t)
  PROVE  IInv'
<1> USE DEF IInv
<1>1. Release(t)
  BY DEF Ends, UdpDone, TcpEnd, Dropped
<1>2. NoTask \in TaskState /\ NoTask.pc = "none" /\ NoTask.share = "none"
  BY ClientAssumption DEF NoTask, TaskState
<1>3. tasks[t] \in TaskState
  BY DEF TypeOK
<1>4. /\ tasks' \in [Task -> TaskState]
      /\ Cardinality(Working') = Cardinality(Working) - One(tasks[t].pc \in WorkingPc)
      /\ Cardinality(Connected') = Cardinality(Connected) - One(tasks[t].pc \in Tcp)
      /\ \A c \in Client : Cardinality(Sharing(c)') = Cardinality(Sharing(c))
           - One(tasks[t].share = "held" /\ tasks[t].client = c)
  <2> DEFINE r == NoTask
  <2>1. r \in TaskState /\ tasks' = [tasks EXCEPT ![t] = r] /\ TypeOK
    BY <1>1, <1>2 DEF Release
  <2>2. r.pc = "none" /\ r.share = "none"
    BY <1>2
  <2> HIDE DEF r
  <2>3. /\ tasks' \in [Task -> TaskState]
        /\ Cardinality(Working') = Cardinality(Working)
             + One(r.pc \in WorkingPc) - One(tasks[t].pc \in WorkingPc)
        /\ Cardinality(Connected') = Cardinality(Connected)
             + One(r.pc \in Tcp) - One(tasks[t].pc \in Tcp)
        /\ \A c \in Client : Cardinality(Sharing(c)') = Cardinality(Sharing(c))
             + One(r.share = "held" /\ r.client = c)
             - One(tasks[t].share = "held" /\ tasks[t].client = c)
    BY <2>1, SlotChange
  <2>4. /\ One(r.pc \in WorkingPc) = 0 /\ One(r.pc \in Tcp) = 0
        /\ \A c \in Client : One(r.share = "held" /\ r.client = c) = 0
    BY <2>2 DEF One, WorkingPc, Tcp
  <2> QED BY <2>3, <2>4, Sizes DEF One
<1>5. /\ admission' = admission + One(tasks[t].pc \in WorkingPc)
      /\ connections' = connections + One(tasks[t].pc \in Tcp)
      /\ listener' = listener
  BY <1>1 DEF Release, Working, Connected, WorkingPc, One, TypeOK
<1>6. /\ limits' \in [Client -> Nat]
      /\ \A c \in Client :
           limits'[c] = limits[c] + One(tasks[t].share = "held" /\ tasks[t].client = c)
  <2>1. CASE tasks[t].share = "held"
    <3>1. limits' = [limits EXCEPT ![tasks[t].client] = @ + 1]
      BY <1>1, <2>1 DEF Release
    <3>2. tasks[t].client \in Client
      BY <1>3 DEF TaskState
    <3> QED BY <2>1, <3>1, <3>2 DEF One, TypeOK
  <2>2. CASE tasks[t].share # "held"
    <3>1. limits' = limits
      BY <1>1, <2>2 DEF Release
    <3> QED BY <2>2, <3>1 DEF One, TypeOK
  <2> QED BY <2>1, <2>2
<1>7. PermitsAccounted'
  BY <1>4, <1>5, <1>6, Sizes, LimitAssumption DEF PermitsAccounted, One, TypeOK
<1>8. TypeOK'
  BY <1>4, <1>5, <1>6, <1>7, Bounded DEF TypeOK, One
<1>9. Owned'
  BY <1>1, <1>2 DEF Owned, Release, TypeOK
<1> QED BY <1>7, <1>8, <1>9

\* A semaphore leaves the cache.
LEMMA EvictStep ==
  ASSUME IInv, NEW c \in Client, Evict(c)
  PROVE  IInv'
<1> USE DEF IInv
<1>1. tasks' \in [Task -> TaskState]
  BY DEF Evict, TypeOK, TaskState
<1>2. \A t \in Task : /\ tasks'[t].pc = tasks[t].pc
                      /\ tasks'[t].client = tasks[t].client
                      /\ tasks'[t].share = IF t \in Sharing(c) THEN "evicted"
                                           ELSE tasks[t].share
  BY DEF Evict, TypeOK, TaskState
<1>3. Working' = Working /\ Connected' = Connected
  BY <1>2 DEF Working, Connected
<1>4. \A d \in Client : Sharing(d)' = IF d = c THEN {} ELSE Sharing(d)
  BY <1>2 DEF Sharing
<1>5. PermitsAccounted'
  <2>1. limits' = [limits EXCEPT ![c] = PerClient]
        /\ UNCHANGED <<admission, connections, listener>>
    BY DEF Evict
  <2>2. ASSUME NEW d \in Client
        PROVE  limits'[d] + Cardinality(Sharing(d)') = PerClient
    <3>1. CASE d = c
      <4>1. Cardinality(Sharing(d)') = 0
        BY <1>4, <3>1, FS_EmptySet
      <4> QED BY <2>1, <3>1, <4>1, LimitAssumption DEF TypeOK
    <3>2. CASE d # c
      <4>1. Sharing(d)' = Sharing(d) /\ limits'[d] = limits[d]
        BY <1>4, <2>1, <3>2 DEF TypeOK
      <4> QED BY <4>1 DEF PermitsAccounted
    <3> QED BY <3>1, <3>2
  <2> QED BY <1>3, <2>1, <2>2 DEF PermitsAccounted
<1>6. TypeOK'
  BY <1>1, LimitAssumption DEF TypeOK, Evict
<1>7. Owned'
  BY <1>2 DEF Owned, Sharing
<1> QED BY <1>5, <1>6, <1>7

\* The listener answers by itself, fails or returns.
LEMMA ListenerStep ==
  ASSUME IInv,
         UdpOverload \/ UdpSent \/ (\E c \in Client : UdpRefuse(c)) \/ Fail \/ Rebind
  PROVE  IInv'
<1> USE DEF IInv
<1>1. tasks' \in [Task -> TaskState] /\ UNCHANGED <<connections, limits>>
  <2>1. tasks \in [Task -> TaskState]
    BY DEF TypeOK
  <2>2. CASE Fail
    <3>1. \A t \in Task : [tasks[t] EXCEPT !.aborted = TRUE] \in TaskState
      BY <2>1 DEF TaskState
    <3> QED BY <2>1, <2>2, <3>1 DEF Fail
  <2>3. CASE UdpOverload \/ UdpSent \/ (\E c \in Client : UdpRefuse(c)) \/ Rebind
    BY <2>1, <2>3 DEF UdpOverload, UdpSent, UdpRefuse, Rebind
  <2> QED BY <2>2, <2>3
<1>2. \A t \in Task : /\ tasks'[t].pc = tasks[t].pc
                      /\ tasks'[t].client = tasks[t].client
                      /\ tasks'[t].share = tasks[t].share
  BY DEF UdpOverload, UdpSent, UdpRefuse, Fail, Rebind, TypeOK, TaskState, Free
<1>3. Working' = Working /\ Connected' = Connected
      /\ \A c \in Client : Sharing(c)' = Sharing(c)
  BY <1>2 DEF Working, Connected, Sharing
<1>4. /\ admission' + One(listener' = "refusing") = admission + One(listener = "refusing")
      /\ admission' \in Nat
      /\ listener' \in {"receive", "overloaded", "refusing", "down"}
  BY DEF UdpOverload, UdpSent, UdpRefuse, Fail, Rebind, One, TypeOK
<1>5. PermitsAccounted'
  <2>1. admission' + Cardinality(Working) + One(listener' = "refusing") = Global
    <3>1. admission + Cardinality(Working) + One(listener = "refusing") = Global
      BY DEF PermitsAccounted, One
    <3>2. One(listener = "refusing") \in Int /\ One(listener' = "refusing") \in Int
      BY DEF One
    <3>3. admission \in Int /\ Cardinality(Working) \in Int
      BY Sizes DEF TypeOK
    <3> HIDE DEF IInv
    <3> QED BY <1>4, <3>1, <3>2, <3>3
  <2> QED BY <1>1, <1>3, <2>1 DEF PermitsAccounted, One
<1>6. TypeOK'
  BY <1>1, <1>4, <1>5, Bounded DEF TypeOK
<1>7. Owned'
  BY <1>2 DEF Owned
<1> QED BY <1>5, <1>6, <1>7

LEMMA Steps == IInv /\ [Next]_vars => IInv'
<1> SUFFICES ASSUME IInv, [Next]_vars PROVE IInv'
  OBVIOUS
<1>1. CASE \E t \in Task, c \in Client : UdpAdmit(t, c) \/ TcpAccept(t, c)
  BY <1>1, AdmitStep
<1>2. CASE \E c \in Client : Evict(c)
  BY <1>2, EvictStep
<1>3. CASE UdpOverload \/ UdpSent \/ (\E c \in Client : UdpRefuse(c)) \/ Fail \/ Rebind
  BY <1>3, ListenerStep
<1>4. CASE \E t \in Task :
             TcpFrame(t) \/ TcpApologised(t) \/ TcpProcessed(t) \/ TcpWritten(t)
  BY <1>4, ConnectionStep
<1>5. CASE \E t \in Task : Ends(t)
  BY <1>5, EndStep
<1>6. CASE UNCHANGED vars
  BY <1>6 DEF vars, IInv, TypeOK, PermitsAccounted, Owned, Working, Connected, Sharing
<1> QED BY <1>1, <1>2, <1>3, <1>4, <1>5, <1>6 DEF Next

LEMMA Invariant == Spec => []IInv
BY Starts, Steps, PTL DEF Spec

\* Every permit is free, or with a running task or the listener, for any number
\* of permits, clients and tasks, through failures of the listener and evictions.
THEOREM PermitsReturn == Spec => []PermitsAccounted
<1>1. IInv => PermitsAccounted
  BY DEF IInv
<1> QED BY <1>1, Invariant, PTL

-----------------------------------------------------------------------------
\* Tasks of c that count against a limit are covered by the shares of c.
LEMMA Covered ==
  ASSUME IInv, NEW c \in Client, NEW S \in SUBSET Task,
         \A t \in S : tasks[t].pc # "none",
         \A t \in Task : tasks[t].client = c => tasks[t].share # "evicted"
  PROVE  LET others == S \ {t \in Task : tasks[t].client = c} IN
         Cardinality(S) <= Cardinality(others) + PerClient
<1> DEFINE own == {t \in Task : tasks[t].client = c}
           others == S \ own
           mine == S \cap own
<1>1. mine \subseteq Sharing(c)
  <2> SUFFICES ASSUME NEW t \in mine PROVE t \in Sharing(c)
    OBVIOUS
  <2>1. tasks[t].client = c /\ tasks[t].share \notin {"none", "evicted"}
    BY DEF IInv, Owned
  <2>2. tasks[t].share \in {"none", "held", "evicted"}
    BY DEF IInv, TypeOK, TaskState
  <2> QED BY <2>1, <2>2 DEF Sharing
<1>2. Cardinality(mine) <= PerClient
  <2>1. Cardinality(mine) <= Cardinality(Sharing(c))
    BY <1>1, Counted, FS_Subset DEF Sharing
  <2>2. Cardinality(Sharing(c)) <= PerClient
    BY Sizes, LimitAssumption DEF IInv, PermitsAccounted, TypeOK
  <2>3. Cardinality(mine) \in Nat
    BY Counted
  <2> QED BY <2>1, <2>2, <2>3, Sizes, LimitAssumption
<1>3. Cardinality(S) = Cardinality(others) + Cardinality(mine)
  <2>1. IsFiniteSet(S) /\ IsFiniteSet(own)
    BY Counted
  <2>2. Cardinality(S) = Cardinality(S \ own) + Cardinality(S \cap own)
    <3>1. Cardinality(S \ own) = Cardinality(S) - Cardinality(S \cap own)
      BY <2>1, FS_Difference
    <3>2. Cardinality(S) \in Nat /\ Cardinality(S \cap own) \in Nat
      BY Counted
    <3> QED BY <3>1, <3>2
  <2> QED BY <2>2
<1>4. Cardinality(others) \in Nat /\ Cardinality(mine) \in Nat
  BY Counted
<1> QED BY <1>2, <1>3, <1>4, LimitAssumption

\* For any limits: a client whose semaphore was not evicted in use finds permits
\* exhausted only when other clients hold all but its own share of them.
THEOREM OthersOverload == Spec => []OverloadByOthers
<1>1. IInv => OverloadByOthers
  <2> SUFFICES ASSUME IInv, NEW c \in Client,
                      \A t \in {t \in Task : tasks[t].client = c} : tasks[t].share # "evicted"
               PROVE  LET own == {t \in Task : tasks[t].client = c} IN
                      /\ admission = 0 =>
                           Cardinality(Working \ own) + One(listener = "refusing")
                             >= Global - PerClient
                      /\ connections = 0 =>
                           Cardinality(Connected \ own) >= Connections - PerClient
    BY DEF OverloadByOthers, One
  <2> DEFINE own == {t \in Task : tasks[t].client = c}
  <2>1. Cardinality(Working) <= Cardinality(Working \ own) + PerClient
    <3>1. \A t \in Working : tasks[t].pc # "none"
      BY DEF Working
    <3> QED BY <3>1, Covered DEF Working
  <2>2. Cardinality(Connected) <= Cardinality(Connected \ own) + PerClient
    <3>1. \A t \in Connected : tasks[t].pc # "none"
      BY DEF Connected, Tcp
    <3> QED BY <3>1, Covered DEF Connected
  <2>3. /\ admission + Cardinality(Working) + One(listener = "refusing") = Global
        /\ connections + Cardinality(Connected) = Connections
    BY DEF IInv, PermitsAccounted, One
  <2>4. Cardinality(Working \ own) \in Nat /\ Cardinality(Connected \ own) \in Nat
    BY Counted DEF Working, Connected
  <2> QED BY <2>1, <2>2, <2>3, <2>4, Sizes, LimitAssumption DEF One
<1> QED BY <1>1, Invariant, PTL

-----------------------------------------------------------------------------
(***************************************************************************)
(* AnomalyGuard.  The invariant splits the queries a window let through    *)
(* into those of its present counting window and the old ones, and says    *)
(* between which moments each window was in the cache.                     *)
(***************************************************************************)
(* A span in which RateBound counts. *)
Span(a) == a..(a + Window - 2 * MaxDelay)

(* The windows the client has had; the moment before which one was not in  *)
(* the cache, and the last one at which it was.                            *)
Begun(g) == g \in DOMAIN dropped \/ g = current
Begin(g) == IF g - 1 \in DOMAIN dropped THEN dropped[g - 1] ELSE 0
End(g) == IF g \in DOMAIN dropped THEN dropped[g] ELSE now

(* Old: the queries let through before the window began to count anew.  The*)
(* others are those it counted, or counted when its quarantine began.  The *)
(* window came to the cache at b or later.                                 *)
Split(P, w, Old, b) ==
  LET New == P \ Old IN
  /\ \A q \in Old : q.at < w.started
  /\ \A q \in New : q.at >= w.started - MaxDelay
  /\ w.until = 0 => /\ Cardinality(New) = w.count
                    /\ \A q \in New : q.at < w.started + Window
  /\ w.until # 0 => /\ Cardinality(New) = Limit
                    /\ w.until >= w.started + Window - MaxDelay
                    /\ \A q \in New : /\ q.at > w.until - 2 * Window - MaxDelay
                                      /\ q.at <= w.until - Window + MaxDelay
  /\ \A a \in Time :
       /\ Cardinality(During(Old, Span(a))) <= 2 * Limit
       /\ (a < b \/ a + Window - 2 * MaxDelay >= w.started - MaxDelay)
            => Cardinality(During(Old, Span(a))) <= Limit
  /\ w.started >= b - MaxDelay
  /\ Old # {} => w.started >= b + Window - MaxDelay
  /\ w.until # 0 => w.until >= b + Window - MaxDelay

(* The queries of P are told apart: each has its number.                   *)
Numbered(P) ==
  IsFiniteSet(P) /\ \A q \in P : q.n <= Cardinality(During(P, {q.at}))

(* A call came no earlier than the delay before its window did, and found  *)
(* the window in the cache.                                                *)
Timely ==
  \A t \in Query :
    /\ call[t].gen # 0 <=> Is(t, "check")
    /\ ~Is(t, "idle") => call[t].at <= now /\ now <= call[t].at + MaxDelay
    /\ Is(t, "check") => /\ Begun(call[t].gen)
                         /\ call[t].at >= Begin(call[t].gen) - MaxDelay
                         /\ call[t].at <= End(call[t].gen)

(* A window that began after b and was last in the cache at n.             *)
WindowSound(w, P, b, n) ==
  /\ w.started <= n
  /\ \A q \in P : q.at <= n /\ q.at >= b - MaxDelay
  /\ Numbered(P)
  /\ \E Old \in SUBSET P : Split(P, w, Old, b)

WindowsSound ==
  \A g \in Generation :
    /\ Begun(g) => WindowSound(window[g], passed[g], Begin(g), End(g))
    /\ ~Begun(g) => window[g] = NewWindow /\ passed[g] = {}

(* The windows follow each other. *)
InOrder ==
  /\ current # 0 => current = Len(dropped) + 1
  /\ \A g \in DOMAIN dropped : dropped[g] <= now
  /\ \A g, h \in DOMAIN dropped : g <= h => dropped[g] <= dropped[h]

Quarantined == current # 0 /\ window[current].until # 0

DashboardFollows ==
  clean =>
    /\ ~releasing
    /\ \A t \in Query : Is(t, "check") => call[t].gen = current
    /\ \A t, u \in Updating : t = u
    /\ \A t \in Updating : Is(t, "insert") <=> Quarantined
    /\ Updating = {} => (listed <=> Quarantined)

RateInv == RateTypeOK /\ InOrder /\ Timely /\ WindowsSound /\ DashboardFollows

-----------------------------------------------------------------------------
LEMMA Constants ==
  Window \in Nat /\ Window > 0 /\ MaxDelay \in Nat /\ MaxDelay < Window
  /\ Limit \in Nat /\ Limit > 0 /\ Horizon \in Nat /\ MaxDrops \in Nat
BY RateAssumption, ClockAssumption

\* Sizes of finite sets of passages.
LEMMA PartSize ==
  ASSUME NEW P, IsFiniteSet(P), NEW Q \in SUBSET P
  PROVE  /\ IsFiniteSet(Q) /\ Cardinality(Q) \in Nat
         /\ Cardinality(Q) <= Cardinality(P) /\ Cardinality(P) \in Nat
BY FS_Subset, FS_CardinalityType

LEMMA DisjointSizes ==
  ASSUME NEW P, IsFiniteSet(P), NEW Old \in SUBSET P, NEW S
  PROVE  Cardinality(During(P, S))
           = Cardinality(During(Old, S)) + Cardinality(During(P \ Old, S))
<1> DEFINE A == During(Old, S)
           B == During(P \ Old, S)
<1>1. A \in SUBSET P /\ B \in SUBSET P /\ A \cap B = {} /\ During(P, S) = A \cup B
  BY DEF During
<1>2. IsFiniteSet(A) /\ IsFiniteSet(B) /\ Cardinality(A) \in Nat /\ Cardinality(B) \in Nat
  BY <1>1, PartSize
<1>3. Cardinality(A \cap B) = 0
  BY <1>1, FS_EmptySet
<1> HIDE DEF A, B
<1>4. Cardinality(A \cup B) = Cardinality(A) + Cardinality(B) - Cardinality(A \cap B)
  BY <1>2, FS_Union
<1>5. Cardinality(A \cup B) = Cardinality(A) + Cardinality(B)
  BY <1>2, <1>3, <1>4
<1> QED BY <1>1, <1>5 DEF A, B

\* A passage is within a span, or its arrival is before or after it.
LEMMA InSpan ==
  ASSUME NEW a \in Time, NEW q \in Passage
  PROVE  q.at \in Span(a) <=> q.at >= a /\ q.at <= a + Window - 2 * MaxDelay
BY Constants DEF Span, Passage, Time

LEMMA CountedSize ==
  ASSUME NEW P \in SUBSET Passage, IsFiniteSet(P), NEW w \in ClientWindow,
         NEW Old \in SUBSET P, NEW b \in Time, Split(P, w, Old, b)
  PROVE  /\ Cardinality(P \ Old) <= Limit
         /\ \A S : Cardinality(During(P \ Old, S)) <= Limit
<1> DEFINE New == P \ Old
<1>1. IsFiniteSet(New) /\ Cardinality(New) \in Nat
  BY PartSize
<1>2. Cardinality(New) <= Limit
  <2>1. CASE w.until = 0
    BY <2>1, Constants DEF Split, ClientWindow
  <2>2. CASE w.until # 0
    BY <2>2, Constants DEF Split
  <2> QED BY <2>1, <2>2
<1>3. ASSUME NEW S PROVE Cardinality(During(New, S)) <= Limit
  <2>1. During(New, S) \in SUBSET New
    BY DEF During
  <2> HIDE DEF New
  <2>2. Cardinality(During(New, S)) <= Cardinality(New) /\ Cardinality(During(New, S)) \in Nat
    BY <1>1, <2>1, PartSize
  <2> QED BY <1>1, <1>2, <2>2, Constants
<1> QED BY <1>2, <1>3

\* At most twice the limit passes in a span.
LEMMA SpanBound ==
  ASSUME NEW P \in SUBSET Passage, IsFiniteSet(P), NEW w \in ClientWindow,
         NEW Old \in SUBSET P, NEW b \in Time, Split(P, w, Old, b), NEW a \in Time
  PROVE  Cardinality(During(P, Span(a))) <= 2 * Limit
<1> DEFINE New == P \ Old
           x == Cardinality(During(Old, Span(a)))
           y == Cardinality(During(New, Span(a)))
<1>1. Cardinality(During(P, Span(a))) = x + y
  BY DisjointSizes
<1>2. x \in Nat /\ y \in Nat
  <2>1. During(Old, Span(a)) \in SUBSET P /\ During(New, Span(a)) \in SUBSET P
    BY DEF During
  <2> QED BY <2>1, PartSize
<1>3. y <= Limit
  BY CountedSize
<1>4. CASE a + Window - 2 * MaxDelay >= w.started - MaxDelay
  <2>1. x <= Limit
    BY <1>4 DEF Split
  <2> HIDE DEF x, y
  <2> QED BY <1>1, <1>2, <1>3, <2>1, Constants
<1>5. CASE ~(a + Window - 2 * MaxDelay >= w.started - MaxDelay)
  <2>1. x <= 2 * Limit
    BY DEF Split
  <2>2. ASSUME NEW q \in New PROVE q.at \notin Span(a)
    <3>1. q \in Passage /\ q.at >= w.started - MaxDelay
      BY DEF Split
    <3>2. q.at \in Nat /\ w.started \in Nat /\ a \in Nat
      BY <3>1 DEF Passage, Time, ClientWindow
    <3> QED BY <1>5, <3>1, <3>2, InSpan, Constants
  <2>3. y = 0
    BY <2>2, FS_EmptySet DEF During
  <2> HIDE DEF x, y
  <2> QED BY <1>1, <1>2, <2>1, <2>3, Constants
<1> QED BY <1>4, <1>5

\* Less passes in a span that began before the window.
LEMMA BornBound ==
  ASSUME NEW P \in SUBSET Passage, IsFiniteSet(P), NEW w \in ClientWindow,
         NEW Old \in SUBSET P, NEW b \in Time, Split(P, w, Old, b),
         NEW a \in Time, a < b
  PROVE  Cardinality(During(P, Span(a))) <= Limit
<1>1. CASE Old = {}
  <2>1. P \ Old = P
    BY <1>1
  <2> QED BY <2>1, CountedSize
<1>2. CASE Old # {}
  <2>1. w.started >= b + Window - MaxDelay
    BY <1>2 DEF Split
  <2>2. w.started \in Nat /\ a \in Nat /\ b \in Nat
    BY DEF ClientWindow, Time
  <2>3. ASSUME NEW q \in P \ Old PROVE q.at \notin Span(a)
    <3>1. q \in Passage /\ q.at \in Nat /\ q.at >= w.started - MaxDelay
      BY DEF Split, Passage, Time
    <3> QED BY <2>1, <2>2, <3>1, InSpan, Constants
  <2>4. During(P, Span(a)) = During(Old, Span(a))
    BY <2>3 DEF During
  <2> QED BY <2>4 DEF Split
<1> QED BY <1>1, <1>2

\* And in a span that begins when the window has begun to count anew.
LEMMA LateBound ==
  ASSUME NEW P \in SUBSET Passage, IsFiniteSet(P), NEW w \in ClientWindow,
         NEW Old \in SUBSET P, NEW b \in Time, Split(P, w, Old, b),
         NEW a \in Time, w.started <= a
  PROVE  Cardinality(During(P, Span(a))) <= Limit
<1>1. ASSUME NEW q \in Old PROVE q.at \notin Span(a)
  <2>1. q \in Passage /\ q.at \in Nat /\ q.at < w.started
    BY DEF Split, Passage, Time
  <2>2. w.started \in Nat /\ a \in Nat
    BY DEF ClientWindow, Time
  <2> QED BY <2>1, <2>2, InSpan
<1>2. During(P, Span(a)) = During(P \ Old, Span(a))
  BY <1>1 DEF During
<1> QED BY <1>2, CountedSize

\* When the window begins anew, all that passed is old.
LEMMA SplitRenewed ==
  ASSUME NEW P \in SUBSET Passage, IsFiniteSet(P), NEW w \in ClientWindow,
         NEW Old \in SUBSET P, NEW b \in Time, Split(P, w, Old, b), NEW s \in Time,
         s >= b - MaxDelay,
         \/ w.until # 0 /\ w.until <= s
         \/ w.until = 0 /\ s - w.started >= Window
  PROVE  Split(P, [started |-> s, count |-> 0, until |-> 0], P, b)
<1> DEFINE New == P \ Old
           v == [started |-> s, count |-> 0, until |-> 0]
<1>0. w.started \in Nat /\ w.until \in Nat /\ s \in Nat /\ b \in Nat
  BY DEF ClientWindow, Time
<1>1. s >= w.started + Window - MaxDelay
  BY <1>0, Constants DEF Split
<1>2. ASSUME NEW q \in P PROVE q.at < s
  <2>0. q.at \in Nat
    BY DEF Passage, Time
  <2>1. CASE q \in Old
    BY <1>0, <1>1, <2>0, <2>1, Constants DEF Split
  <2>2. CASE q \in New /\ w.until = 0
    BY <1>0, <2>0, <2>2, Constants DEF Split
  <2>3. CASE q \in New /\ w.until # 0
    <3>1. q.at <= w.until - Window + MaxDelay /\ w.until <= s
      BY <2>3 DEF Split
    <3> QED BY <1>0, <2>0, <3>1, Constants
  <2> QED BY <2>1, <2>2, <2>3
<1>3. P \ P = {} /\ Cardinality(P \ P) = 0
  BY FS_EmptySet
<1>4. ASSUME NEW a \in Time, a + Window - 2 * MaxDelay >= s - MaxDelay \/ a < b
      PROVE  Cardinality(During(P, Span(a))) <= Limit
  <2> SUFFICES ASSUME ~(a < b) PROVE Cardinality(During(P, Span(a))) <= Limit
    BY BornBound
  <2>0. a \in Nat
    BY DEF Time
  <2>1. a >= w.started
    BY <1>0, <1>1, <1>4, <2>0, Constants
  <2>2. ASSUME NEW q \in Old PROVE q.at \notin Span(a)
    <3>1. q \in Passage /\ q.at < w.started
      BY DEF Split
    <3>2. q.at \in Nat
      BY <3>1 DEF Passage, Time
    <3> QED BY <1>0, <2>0, <2>1, <3>1, <3>2, InSpan
  <2>3. During(P, Span(a)) = During(New, Span(a))
    BY <2>2 DEF During
  <2> QED BY <2>3, CountedSize
<1>5. \A a \in Time : Cardinality(During(P, Span(a))) <= 2 * Limit
  BY SpanBound
<1>6. v.started = s /\ v.count = 0 /\ v.until = 0
  OBVIOUS
<1>7. s >= b + Window - MaxDelay
  <2>1. w.until # 0 => w.until >= b + Window - MaxDelay
    BY DEF Split
  <2>2. w.started >= b - MaxDelay
    BY DEF Split
  <2> QED BY <1>0, <2>1, <2>2, Constants
<1> HIDE DEF v
<1>8. Split(P, v, P, b)
  BY <1>2, <1>3, <1>4, <1>5, <1>6, <1>7 DEF Split
<1> QED BY <1>8 DEF v

\* One more passage is counted by the window.
LEMMA SplitCounts ==
  ASSUME NEW P \in SUBSET Passage, IsFiniteSet(P), NEW w \in ClientWindow,
         NEW Old \in SUBSET P, NEW b \in Time, Split(P, w, Old, b), w.until = 0,
         NEW p \in Passage, p \notin P,
         p.at >= w.started - MaxDelay, p.at < w.started + Window
  PROVE  Split(P \cup {p}, [w EXCEPT !.count = @ + 1], Old, b)
<1> DEFINE New == P \ Old
           v == [w EXCEPT !.count = @ + 1]
<1>1. (P \cup {p}) \ Old = New \cup {p} /\ p \notin New
  OBVIOUS
<1>2. IsFiniteSet(New) /\ Cardinality(New) = w.count
  BY PartSize DEF Split
<1>3. Cardinality(New \cup {p}) = w.count + 1
  BY <1>1, <1>2, FS_AddElement
<1>4. v.started = w.started /\ v.until = 0 /\ v.count = w.count + 1
  BY DEF ClientWindow
<1> HIDE DEF v
<1>5. Split(P \cup {p}, v, Old, b)
  BY <1>1, <1>3, <1>4 DEF Split
<1> QED BY <1>5 DEF v

\* A full window becomes a quarantine.
LEMMA SplitBlocked ==
  ASSUME NEW P \in SUBSET Passage, IsFiniteSet(P), NEW w \in ClientWindow,
         NEW Old \in SUBSET P, NEW b \in Time, Split(P, w, Old, b), w.until = 0, w.count = Limit,
         NEW s \in Time, s >= w.started - MaxDelay, s < w.started + Window,
         s >= b - MaxDelay,
         \A q \in P : q.at <= s + MaxDelay
  PROVE  Split(P, [w EXCEPT !.count = 0, !.until = s + Window], Old, b)
<1> DEFINE New == P \ Old
           v == [w EXCEPT !.count = 0, !.until = s + Window]
<1>0. w.started \in Nat /\ s \in Nat
  BY DEF ClientWindow, Time
<1>1. v.started = w.started /\ v.until = s + Window /\ v.until # 0
  BY <1>0, Constants DEF ClientWindow
<1>2. Cardinality(New) = Limit
  BY DEF Split
<1>3. v.until >= v.started + Window - MaxDelay
  BY <1>0, <1>1, Constants
<1>4. ASSUME NEW q \in New
      PROVE  q.at > v.until - 2 * Window - MaxDelay /\ q.at <= v.until - Window + MaxDelay
  <2>1. q.at \in Nat /\ q.at >= w.started - MaxDelay /\ q.at <= s + MaxDelay
    BY DEF Split, Passage, Time
  <2> HIDE DEF v
  <2> QED BY <1>0, <1>1, <2>1, Constants
<1>5. v.until >= b + Window - MaxDelay
  <2>1. b \in Nat
    BY DEF Time
  <2> HIDE DEF v
  <2> QED BY <1>0, <1>1, <2>1, Constants
<1> HIDE DEF v
<1>6. Split(P, v, Old, b)
  BY <1>1, <1>2, <1>3, <1>4, <1>5 DEF Split
<1> QED BY <1>6 DEF v

\* A passage with the next number is new, and keeps the set numbered.
LEMMA NumberedGrows ==
  ASSUME NEW P \in SUBSET Passage, Numbered(P), NEW t \in Query, call[t].at \in Time
  PROVE  /\ Pass(t, P) \in Passage
         /\ Pass(t, P) \notin P
         /\ Numbered(P \cup {Pass(t, P)})
<1> DEFINE p == Pass(t, P)
           R == P \cup {p}
           k == Cardinality(During(P, {call[t].at}))
<1>1. IsFiniteSet(P) /\ IsFiniteSet(R)
  BY FS_AddElement DEF Numbered
<1>2. k \in Nat
  <2>1. During(P, {call[t].at}) \in SUBSET P
    BY DEF During
  <2> QED BY <1>1, <2>1, PartSize
<1>3. p \in Passage /\ p.at = call[t].at /\ p.n = k + 1
  BY <1>2 DEF Pass, Passage
<1>4. p \notin P
  BY <1>2, <1>3 DEF Numbered
<1>5. ASSUME NEW q \in R PROVE q.n <= Cardinality(During(R, {q.at}))
  <2>1. CASE q.at # p.at
    <3>1. During(R, {q.at}) = During(P, {q.at}) /\ q \in P
      BY <2>1 DEF During
    <3> QED BY <3>1 DEF Numbered
  <2>2. CASE q.at = p.at
    <3>1. During(R, {q.at}) = During(P, {p.at}) \cup {p} /\ p \notin During(P, {p.at})
      BY <1>4, <2>2 DEF During
    <3>2. IsFiniteSet(During(P, {p.at}))
      <4>1. During(P, {p.at}) \in SUBSET P
        BY DEF During
      <4> QED BY <1>1, <4>1, PartSize
    <3>3. Cardinality(During(R, {q.at})) = k + 1
      BY <1>3, <3>1, <3>2, FS_AddElement
    <3>4. q.n <= k \/ q.n = k + 1
      BY <1>3, <2>2 DEF Numbered
    <3>5. q.n \in Nat
      BY <1>3 DEF Passage
    <3> HIDE DEF k
    <3> QED BY <1>2, <3>3, <3>4, <3>5
  <2> QED BY <2>1, <2>2
<1> QED BY <1>1, <1>3, <1>4, <1>5 DEF Numbered
-----------------------------------------------------------------------------
LEMMA FreshSound ==
  ASSUME NEW s \in Nat, NEW n \in Nat, s <= n, NEW b \in Nat, s >= b - MaxDelay
  PROVE  WindowSound([started |-> s, count |-> 0, until |-> 0], {}, b, n)
<1> DEFINE w == [started |-> s, count |-> 0, until |-> 0]
<1>1. Split({}, w, {}, b)
  <2>1. \A S : During({}, S) = {}
    BY DEF During
  <2>2. Cardinality({}) = 0 /\ {} \ {} = {}
    BY FS_EmptySet
  <2> QED BY <2>1, <2>2, Constants DEF Split
<1>2. Numbered({})
  BY FS_EmptySet DEF Numbered
<1> QED BY <1>1, <1>2 DEF WindowSound

\* Time passes.
LEMMA SoundLater ==
  ASSUME NEW w \in ClientWindow, NEW P \in SUBSET Passage, NEW b, NEW n \in Nat,
         WindowSound(w, P, b, n)
  PROVE  WindowSound(w, P, b, n + 1)
<1>1. w.started \in Nat /\ \A q \in P : q.at \in Nat
  BY DEF ClientWindow, Passage, Time
<1> QED BY <1>1 DEF WindowSound

LEMMA RateTyped ==
  ASSUME RateInv
  PROVE  /\ now \in Nat
         /\ \A g \in Generation : window[g] \in ClientWindow /\ passed[g] \in SUBSET Passage
         /\ \A t \in Query : /\ call[t] \in CallState /\ call[t].at \in Time
                             /\ call[t].at \in Nat
                             /\ Is(t, "check") => call[t].gen \in Generation
                             /\ ~Is(t, "check") => call[t].gen = 0
<1>1. now \in Nat
  BY DEF RateInv, RateTypeOK, Time
<1>2. \A g \in Generation : window[g] \in ClientWindow /\ passed[g] \in SUBSET Passage
  BY DEF RateInv, RateTypeOK
<1>3. ASSUME NEW t \in Query
      PROVE  /\ call[t] \in CallState /\ call[t].at \in Time /\ call[t].at \in Nat
             /\ Is(t, "check") => call[t].gen \in Generation
             /\ ~Is(t, "check") => call[t].gen = 0
  <2>1. call[t] \in CallState
    BY DEF RateInv, RateTypeOK
  <2>2. call[t].gen \in {0} \cup Generation /\ call[t].at \in Time /\ call[t].at \in Nat
    BY <2>1 DEF CallState, Time
  <2>3. call[t].gen # 0 <=> Is(t, "check")
    BY DEF RateInv, Timely
  <2> QED BY <2>1, <2>2, <2>3
<1> QED BY <1>1, <1>2, <1>3

\* The windows of the client are 1..Len(dropped) and the one in the cache.
LEMMA Numbers ==
  ASSUME RateInv
  PROVE  /\ Len(dropped) \in Nat /\ Len(dropped) <= MaxDrops
         /\ DOMAIN dropped = 1..Len(dropped)
         /\ \A g \in DOMAIN dropped : dropped[g] \in Time /\ dropped[g] \in Nat
         /\ Len(dropped) + 1 \in Generation
         /\ \A g \in Generation : g \in Nat /\ g # 0
         /\ current \in {0} \cup Generation
         /\ current \notin DOMAIN dropped
<1>1. dropped \in Seq(Time) /\ Len(dropped) <= MaxDrops /\ current \in {0} \cup Generation
  BY DEF RateInv, RateTypeOK
<1>2. /\ Len(dropped) \in Nat /\ DOMAIN dropped = 1..Len(dropped)
      /\ \A g \in DOMAIN dropped : dropped[g] \in Time
  BY <1>1
<1>3. \A g \in DOMAIN dropped : dropped[g] \in Nat
  BY <1>2 DEF Time
<1>4. Len(dropped) + 1 \in Generation /\ \A g \in Generation : g \in Nat /\ g # 0
  BY <1>1, <1>2, Constants DEF Generation
<1>5. current \notin DOMAIN dropped
  BY <1>2 DEF RateInv, InOrder
<1> QED BY <1>1, <1>2, <1>3, <1>4, <1>5

LEMMA Lifetimes ==
  ASSUME RateInv, NEW g \in Generation
  PROVE  /\ Begin(g) \in Time /\ Begin(g) \in Nat /\ Begin(g) <= now
         /\ End(g) \in Time /\ End(g) \in Nat /\ End(g) <= now
<1>1. now \in Time /\ now \in Nat /\ 0 \in Time /\ 0 <= now
  BY Constants DEF RateInv, RateTypeOK, Time
<1>2. \A h \in DOMAIN dropped : dropped[h] \in Time /\ dropped[h] \in Nat /\ dropped[h] <= now
  BY Numbers DEF RateInv, InOrder
<1> QED BY <1>1, <1>2 DEF Begin, End

\* What a query finds under the lock.
LEMMA FoundSound ==
  ASSUME RateInv, NEW t \in Query, Is(t, "check")
  PROVE  LET g == call[t].gen
             P == passed[g]
             w == Found(t)
         IN  /\ g \in Generation /\ Begun(g)
             /\ w \in ClientWindow
             /\ P \in SUBSET Passage
             /\ WindowSound(w, P, Begin(g), End(g))
             /\ call[t].at >= w.started - MaxDelay
             /\ call[t].at >= Begin(g) - MaxDelay /\ call[t].at <= End(g)
             /\ w.until = 0 => call[t].at < w.started + Window
             /\ w.until # 0 => w.until > call[t].at
             /\ \A q \in P : q.at <= call[t].at + MaxDelay
             /\ w.until # 0 \/ w.count # 0 => w = window[g]
<1> DEFINE g == call[t].gen
           P == passed[g]
           b == Begin(g)
           n == End(g)
           old == window[g]
           w == Found(t)
           over == Expired(old, t) \/ (old.until = 0 /\ call[t].at - old.started >= Window)
           new == [started |-> call[t].at, count |-> 0, until |-> 0]
<1>1. g \in Generation /\ old \in ClientWindow /\ P \in SUBSET Passage
      /\ call[t].at \in Time /\ call[t].at \in Nat /\ now \in Nat
  BY RateTyped
<1>2. /\ Begun(g) /\ call[t].at >= b - MaxDelay /\ call[t].at <= n
      /\ b \in Time /\ b \in Nat /\ n \in Nat /\ n <= now
  BY <1>1, Lifetimes DEF RateInv, Timely
<1>3. WindowSound(old, P, b, n)
  BY <1>1, <1>2 DEF RateInv, WindowsSound
<1>4. old.started \in Nat /\ old.until \in Nat
  BY <1>1 DEF ClientWindow, Time
<1>5. call[t].at <= now /\ now <= call[t].at + MaxDelay
  BY DEF RateInv, Timely, Is
<1> HIDE DEF b, n
<1>6. \A q \in P : q.at \in Nat /\ q.at <= n /\ q.at >= b - MaxDelay
  BY <1>1, <1>3 DEF WindowSound, Passage, Time
<1>7. \A q \in P : q.at <= call[t].at + MaxDelay
  <2> HIDE DEF P
  <2> QED BY <1>1, <1>2, <1>5, <1>6, Constants
<1>8. IsFiniteSet(P) /\ Numbered(P)
  BY <1>3 DEF WindowSound, Numbered
<1>9. CASE over
  <2>1. w = new
    BY <1>9 DEF Found, Refreshed
  <2>2. new \in ClientWindow /\ new.started = call[t].at /\ new.until = 0 /\ new.count = 0
    BY <1>1, Constants DEF ClientWindow, Time
  <2>3. PICK Old \in SUBSET P : Split(P, old, Old, b)
    BY <1>3 DEF WindowSound
  <2>4. \/ old.until # 0 /\ old.until <= call[t].at
        \/ old.until = 0 /\ call[t].at - old.started >= Window
    BY <1>9 DEF Expired
  <2> HIDE DEF P, old
  <2>5. Split(P, new, P, b)
    BY <1>1, <1>2, <1>8, <2>3, <2>4, SplitRenewed
  <2>6. WindowSound(new, P, b, n)
    BY <1>2, <1>6, <1>8, <2>2, <2>5 DEF WindowSound
  <2> HIDE DEF new
  <2> QED BY <1>1, <1>2, <1>7, <2>1, <2>2, <2>6, Constants DEF P, b, n
<1>10. CASE ~over
  <2>1. w = old
    BY <1>10 DEF Found, Refreshed
  <2>2. old.until = 0 => call[t].at < old.started + Window
    <3>1. old.until = 0 => ~(call[t].at - old.started >= Window)
      BY <1>10
    <3> HIDE DEF old
    <3> QED BY <1>1, <1>4, <3>1, Constants
  <2>3. old.until # 0 => old.until > call[t].at
    <3>1. old.until # 0 => ~(old.until <= call[t].at)
      BY <1>10 DEF Expired
    <3> HIDE DEF old
    <3> QED BY <1>1, <1>4, <3>1
  <2>4. old.started <= n
    BY <1>3 DEF WindowSound
  <2>5. call[t].at >= old.started - MaxDelay
    <3> HIDE DEF old
    <3> QED BY <1>1, <1>2, <1>4, <1>5, <2>4, Constants
  <2> QED BY <1>1, <1>2, <1>3, <1>7, <2>1, <2>2, <2>3, <2>5 DEF b, n
<1> QED BY <1>9, <1>10

-----------------------------------------------------------------------------
LEMMA StartsRate == RateInit => RateInv
<1> SUFFICES ASSUME RateInit PROVE RateInv
  OBVIOUS
<1>1. 0 \in Time /\ NewWindow \in ClientWindow
  BY Constants DEF Time, NewWindow, ClientWindow
<1>2. Idle \in CallState
  BY <1>1 DEF Idle, CallState
<1>3. dropped = <<>> /\ dropped \in Seq(Time) /\ Len(dropped) = 0 /\ DOMAIN dropped = {}
  BY DEF RateInit
<1>4. RateTypeOK
  <2>1. window \in [Generation -> ClientWindow] /\ call \in [Query -> CallState]
    BY <1>1, <1>2 DEF RateInit
  <2>2. passed \in [Generation -> SUBSET Passage]
    BY DEF RateInit
  <2>3. now \in Time /\ current \in {0} \cup Generation /\ Len(dropped) <= MaxDrops
    BY <1>1, <1>3, Constants DEF RateInit
  <2>4. listed \in BOOLEAN /\ releasing \in BOOLEAN /\ clean \in BOOLEAN
    BY DEF RateInit
  <2> QED BY <1>3, <2>1, <2>2, <2>3, <2>4 DEF RateTypeOK
<1>5. Timely /\ InOrder
  BY <1>3 DEF RateInit, Timely, Is, Idle, InOrder
<1>6. WindowsSound
  <2>1. \A g \in Generation : ~Begun(g)
    BY <1>3, Constants DEF RateInit, Begun, Generation
  <2> QED BY <2>1 DEF RateInit, WindowsSound
<1>7. Updating = {} /\ ~Quarantined
  BY DEF RateInit, Updating, Quarantined, Idle
<1>8. DashboardFollows
  BY <1>7 DEF RateInit, DashboardFollows, Is, Idle
<1> QED BY <1>4, <1>5, <1>6, <1>8 DEF RateInv

-----------------------------------------------------------------------------
\* A query comes.
LEMMA ArriveStep ==
  ASSUME RateInv, NEW t \in Query, Arrive(t)
  PROVE  RateInv'
<1> DEFINE r == [pc |-> "lookup", at |-> now, gen |-> 0]
<1>1. call' = [call EXCEPT ![t] = r] /\ Is(t, "idle")
      /\ now' = now /\ current' = current /\ window' = window /\ passed' = passed
      /\ dropped' = dropped
      /\ listed' = listed /\ releasing' = releasing /\ clean' = clean
  BY DEF Arrive
<1>2. now \in Time /\ now \in Nat /\ call \in [Query -> CallState] /\ call[t].gen = 0
  BY <1>1, RateTyped DEF RateInv, RateTypeOK, Is
<1>3. r \in CallState
  BY <1>2 DEF CallState
<1>4. call'[t] = r /\ \A u \in Query \ {t} : call'[u] = call[u]
  BY <1>1, <1>2
<1>5. RateTypeOK' /\ InOrder'
  BY <1>1, <1>2, <1>3 DEF RateInv, RateTypeOK, InOrder
<1>6. \A g : (Begun(g)' <=> Begun(g)) /\ Begin(g)' = Begin(g) /\ End(g)' = End(g)
  BY <1>1 DEF Begun, Begin, End
<1>7. Timely'
  <2> SUFFICES ASSUME NEW u \in Query
               PROVE  /\ call'[u].gen # 0 <=> call'[u].pc = "check"
                      /\ call'[u].pc # "idle" =>
                           call'[u].at <= now /\ now <= call'[u].at + MaxDelay
                      /\ call'[u].pc = "check" =>
                           /\ Begun(call'[u].gen)
                           /\ call'[u].at >= Begin(call'[u].gen) - MaxDelay
                           /\ call'[u].at <= End(call'[u].gen)
    BY <1>1, <1>6 DEF Timely, Is, Begun, Begin, End
  <2>1. CASE u # t
    BY <1>4, <2>1 DEF RateInv, Timely, Is
  <2>2. CASE u = t
    BY <1>2, <1>4, <2>2, Constants
  <2> QED BY <2>1, <2>2
<1>8. WindowsSound'
  BY <1>1, <1>6 DEF RateInv, WindowsSound
<1>9. DashboardFollows'
  <2>1. Updating' = Updating
    BY <1>1, <1>4 DEF Updating, Is
  <2>2. \A u \in Updating : u \in Query \ {t}
    BY <1>1 DEF Updating, Is
  <2>3. \A u \in Query : Is(u, "check")' => u # t
    BY <1>4 DEF Is
  <2>4. Quarantined' <=> Quarantined
    BY <1>1 DEF Quarantined
  <2> QED BY <1>1, <1>4, <2>1, <2>2, <2>3, <2>4 DEF RateInv, DashboardFollows, Is
<1> QED BY <1>5, <1>7, <1>8, <1>9 DEF RateInv

\* It fetches the window of its client, or begins one.
LEMMA LookupStep ==
  ASSUME RateInv, NEW t \in Query, Lookup(t)
  PROVE  RateInv'
<1> DEFINE g == IF current # 0 THEN current ELSE Len(dropped) + 1
<1>1. /\ Is(t, "lookup") /\ current' = g
      /\ window' = IF current # 0 THEN window
                   ELSE [window EXCEPT ![g].started = call[t].at]
      /\ call' = [call EXCEPT ![t].pc = "check", ![t].gen = g]
      /\ now' = now /\ passed' = passed /\ dropped' = dropped
      /\ listed' = listed /\ releasing' = releasing /\ clean' = clean
  BY DEF Lookup
<1>2. /\ g \in Generation /\ g = Len(dropped) + 1 /\ g \notin DOMAIN dropped /\ g # 0
      /\ current # 0 => g = current
  BY Numbers DEF RateInv, InOrder
<1>3. now \in Nat /\ call \in [Query -> CallState] /\ call[t].gen = 0
      /\ call[t] \in CallState /\ call[t].at \in Time /\ call[t].at \in Nat
      /\ call[t].at <= now /\ now <= call[t].at + MaxDelay
  BY <1>1, RateTyped DEF RateInv, RateTypeOK, Timely, Is
<1>4. current = 0 => ~Begun(g)
  BY <1>2 DEF Begun
<1> HIDE DEF g
<1>5. /\ call'[t] = [pc |-> "check", at |-> call[t].at, gen |-> g]
      /\ call'[t] \in CallState
      /\ \A u \in Query \ {t} : call'[u] = call[u]
  BY <1>1, <1>2, <1>3 DEF CallState
<1>6. current = 0 =>
        /\ passed[g] = {}
        /\ window'[g] = [started |-> call[t].at, count |-> 0, until |-> 0]
        /\ window' \in [Generation -> ClientWindow]
        /\ \A h \in Generation \ {g} : window'[h] = window[h]
  <2> SUFFICES ASSUME current = 0
               PROVE  /\ passed[g] = {}
                      /\ window'[g] = [started |-> call[t].at, count |-> 0, until |-> 0]
                      /\ window' \in [Generation -> ClientWindow]
                      /\ \A h \in Generation \ {g} : window'[h] = window[h]
    OBVIOUS
  <2>1. window[g] = NewWindow /\ passed[g] = {}
    BY <1>2, <1>4 DEF RateInv, WindowsSound
  <2>2. window \in [Generation -> ClientWindow]
    BY DEF RateInv, RateTypeOK
  <2>3. window' = [window EXCEPT ![g] = [started |-> call[t].at, count |-> 0, until |-> 0]]
    <3>1. window' = [window EXCEPT ![g].started = call[t].at]
      BY <1>1
    <3>2. window' = [window EXCEPT ![g] = [window[g] EXCEPT !.started = call[t].at]]
      BY <1>2, <2>2, <3>1
    <3>3. [NewWindow EXCEPT !.started = call[t].at]
            = [started |-> call[t].at, count |-> 0, until |-> 0]
      BY DEF NewWindow
    <3> QED BY <2>1, <3>2, <3>3
  <2>4. [started |-> call[t].at, count |-> 0, until |-> 0] \in ClientWindow
    BY <1>3, Constants DEF ClientWindow, Time
  <2> QED BY <1>2, <2>1, <2>2, <2>3, <2>4
<1>7. RateTypeOK' /\ InOrder'
  <2>1. window' \in [Generation -> ClientWindow]
    BY <1>1, <1>6 DEF RateInv, RateTypeOK
  <2>2. call' \in [Query -> CallState]
    BY <1>1, <1>3, <1>5
  <2> QED BY <1>1, <1>2, <2>1, <2>2 DEF RateInv, RateTypeOK, InOrder
<1>8. /\ \A h : Begun(h)' <=> h = g \/ h \in DOMAIN dropped
      /\ \A h \in Generation : Begun(h) => Begun(h)'
      /\ \A h \in Generation : h # g => (Begun(h)' <=> Begun(h))
      /\ \A h : Begin(h)' = Begin(h) /\ End(h)' = End(h)
      /\ End(g) = now /\ Begin(g) \in Nat /\ Begin(g) <= now
  <2>1. \A h \in Generation : h # 0
    BY Numbers
  <2>2. \A h \in Generation : Begun(h) => h \in DOMAIN dropped \/ h = g
    BY <1>2, <2>1 DEF Begun
  <2>3. \A h : Begun(h)' <=> h = g \/ h \in DOMAIN dropped
    BY <1>1 DEF Begun
  <2>4. \A h \in Generation : h # g => (Begun(h) <=> h \in DOMAIN dropped)
    BY <2>2 DEF Begun
  <2>5. \A h : Begin(h)' = Begin(h) /\ End(h)' = End(h)
    BY <1>1 DEF Begin, End
  <2>6. End(g) = now
    BY <1>2 DEF End
  <2> QED BY <1>2, <2>2, <2>3, <2>4, <2>5, <2>6, Lifetimes
<1>9. Timely'
  <2> SUFFICES ASSUME NEW u \in Query
               PROVE  /\ call'[u].gen # 0 <=> call'[u].pc = "check"
                      /\ call'[u].pc # "idle" =>
                           call'[u].at <= now /\ now <= call'[u].at + MaxDelay
                      /\ call'[u].pc = "check" =>
                           /\ call'[u].gen = g \/ call'[u].gen \in DOMAIN dropped
                           /\ call'[u].at >= Begin(call'[u].gen) - MaxDelay
                           /\ call'[u].at <= End(call'[u].gen)
    <3>1. ASSUME NEW u \in Query
          PROVE  /\ Is(u, "check")' <=> call'[u].pc = "check"
                 /\ Is(u, "idle")' <=> call'[u].pc = "idle"
                 /\ Begun(call[u].gen)'
                      <=> call'[u].gen = g \/ call'[u].gen \in DOMAIN dropped
                 /\ Begin(call[u].gen)' = Begin(call'[u].gen)
                 /\ End(call[u].gen)' = End(call'[u].gen)
      BY <1>1 DEF Is, Begun, Begin, End
    <3> QED BY <1>1, <3>1 DEF Timely
  <2>1. CASE u # t
    <3>1. call[u].pc = "check" => call[u].gen \in Generation /\ Begun(call[u].gen)
      BY RateTyped DEF RateInv, Timely, Is
    <3>2. call[u].pc = "check" => call[u].gen = g \/ call[u].gen \in DOMAIN dropped
      BY <1>2, <3>1, Numbers DEF Begun
    <3> QED BY <1>5, <2>1, <3>2 DEF RateInv, Timely, Is
  <2>2. CASE u = t
    BY <1>2, <1>3, <1>5, <1>8, <2>2, Constants
  <2> QED BY <2>1, <2>2
<1>10. WindowsSound'
  <2> SUFFICES ASSUME NEW h \in Generation
               PROVE  /\ Begun(h)' => WindowSound(window'[h], passed[h], Begin(h), End(h))
                      /\ ~Begun(h)' => window'[h] = NewWindow /\ passed[h] = {}
    BY <1>1, <1>8 DEF WindowsSound
  <2>1. CASE h = g /\ current = 0
    <3>1. call[t].at >= Begin(g) - MaxDelay
      BY <1>3, <1>8, Constants
    <3>2. WindowSound(window'[h], {}, Begin(h), End(h))
      BY <1>3, <1>6, <1>8, <2>1, <3>1, FreshSound
    <3> QED BY <1>6, <1>8, <2>1, <3>2
  <2>2. CASE h = g /\ current # 0
    <3>1. Begun(h) /\ window' = window
      BY <1>1, <1>2, <2>2 DEF Begun
    <3> QED BY <1>8, <2>2, <3>1 DEF RateInv, WindowsSound
  <2>3. CASE h # g
    <3>1. window'[h] = window[h]
      BY <1>1, <1>6, <2>3
    <3> QED BY <1>8, <2>3, <3>1 DEF RateInv, WindowsSound
  <2> QED BY <2>1, <2>2, <2>3
<1>11. DashboardFollows'
  <2>1. Updating' = Updating /\ t \notin Updating
    <3>1. t \notin Updating /\ call'[t].pc = "check"
      BY <1>1, <1>5 DEF Updating, Is
    <3>2. t \notin Updating'
      BY <3>1 DEF Updating
    <3>3. \A u \in Query \ {t} : u \in Updating' <=> u \in Updating
      BY <1>5 DEF Updating
    <3> QED BY <3>1, <3>2, <3>3 DEF Updating
  <2>2. current' # 0 /\ (Quarantined' <=> Quarantined)
    BY <1>1, <1>2, <1>6 DEF Quarantined
  <2>3. clean => \A u \in Query : Is(u, "check")' => call'[u].gen = current'
    <3> SUFFICES ASSUME clean, NEW u \in Query, Is(u, "check")'
                 PROVE  call'[u].gen = g
      BY <1>1
    <3>1. CASE u = t
      BY <1>5, <3>1
    <3>2. CASE u # t
      <4>1. Is(u, "check") /\ call'[u] = call[u]
        BY <1>5, <3>2 DEF Is
      <4>2. call[u].gen = current /\ call[u].gen # 0
        BY <4>1 DEF RateInv, DashboardFollows, Timely
      <4> QED BY <1>2, <4>1, <4>2
    <3> QED BY <3>1, <3>2
  <2>4. \A u \in Updating : Is(u, "insert")' <=> Is(u, "insert")
    BY <1>5, <2>1 DEF Is, Updating
  <2> QED BY <1>1, <2>1, <2>2, <2>3, <2>4 DEF RateInv, DashboardFollows
<1> QED BY <1>7, <1>9, <1>10, <1>11 DEF RateInv

\* What the locked section leaves in the call's window.
LEMMA StoreStep ==
  ASSUME RateInv, NEW t \in Query, Is(t, "check"), NEW w \in ClientWindow,
         NEW Q \in SUBSET Passage, Store(t, w, Q),
         WindowSound(w, passed[call[t].gen] \cup Q, Begin(call[t].gen), End(call[t].gen)),
         NEW r \in CallState, r.gen = 0, r.pc # "check",
         r.pc # "idle" => r.at = call[t].at,
         call' = [call EXCEPT ![t] = r],
         now' = now, current' = current, dropped' = dropped, listed' = listed,
         releasing' = releasing, clean' \in BOOLEAN
  PROVE  /\ RateTypeOK' /\ InOrder' /\ Timely' /\ WindowsSound'
         /\ call'[t] = r /\ \A u \in Query \ {t} : call'[u] = call[u]
         /\ call[t].gen = current => window'[current] = w
<1> DEFINE g == call[t].gen
<1>1. g \in Generation /\ passed[g] \in SUBSET Passage /\ Begun(g)
      /\ window \in [Generation -> ClientWindow]
      /\ passed \in [Generation -> SUBSET Passage]
      /\ call \in [Query -> CallState]
  BY RateTyped DEF RateInv, RateTypeOK, Timely
<1>2. call'[t] = r /\ \A u \in Query \ {t} : call'[u] = call[u]
  BY <1>1
<1>3. /\ window' = [window EXCEPT ![g] = w]
      /\ passed' = [passed EXCEPT ![g] = @ \cup Q]
  BY DEF Store
<1>4. RateTypeOK' /\ InOrder'
  <2>1. window' \in [Generation -> ClientWindow] /\ passed' \in [Generation -> SUBSET Passage]
    BY <1>1, <1>3
  <2>2. call' \in [Query -> CallState]
    BY <1>1
  <2> QED BY <2>1, <2>2 DEF RateInv, RateTypeOK, InOrder
<1>5. \A h : (Begun(h)' <=> Begun(h)) /\ Begin(h)' = Begin(h) /\ End(h)' = End(h)
  BY DEF Begun, Begin, End
<1>6. Timely'
  <2> SUFFICES ASSUME NEW u \in Query
               PROVE  /\ call'[u].gen # 0 <=> call'[u].pc = "check"
                      /\ call'[u].pc # "idle" =>
                           call'[u].at <= now /\ now <= call'[u].at + MaxDelay
                      /\ call'[u].pc = "check" =>
                           /\ Begun(call'[u].gen)
                           /\ call'[u].at >= Begin(call'[u].gen) - MaxDelay
                           /\ call'[u].at <= End(call'[u].gen)
    BY <1>5 DEF Timely, Is, Begun, Begin, End
  <2>1. CASE u # t
    BY <1>2, <2>1 DEF RateInv, Timely, Is
  <2>2. CASE u = t
    BY <1>2, <2>2 DEF RateInv, Timely, Is
  <2> QED BY <2>1, <2>2
<1>7. WindowsSound'
  <2> SUFFICES ASSUME NEW h \in Generation
               PROVE  /\ Begun(h) => WindowSound(window'[h], passed'[h], Begin(h), End(h))
                      /\ ~Begun(h) => window'[h] = NewWindow /\ passed'[h] = {}
    BY <1>5 DEF WindowsSound
  <2>1. CASE h # g
    BY <1>1, <1>3, <2>1 DEF RateInv, WindowsSound
  <2>2. CASE h = g
    BY <1>1, <1>3, <2>2
  <2> QED BY <2>1, <2>2
<1> QED BY <1>1, <1>2, <1>3, <1>4, <1>6, <1>7

\* How the locked section concludes.
LEMMA ConcludeState ==
  ASSUME RateInv, NEW t \in Query, NEW pc \in {"idle", "insert", "remove"}, Conclude(t, pc)
  PROVE  \E r \in CallState :
           /\ call' = [call EXCEPT ![t] = r] /\ r.pc = pc /\ r.gen = 0
           /\ pc # "idle" => r.at = call[t].at
<1>1. call[t] \in CallState /\ call \in [Query -> CallState]
  BY RateTyped DEF RateInv, RateTypeOK
<1>2. CASE pc = "idle"
  <2>1. Idle \in CallState /\ Idle.pc = pc /\ Idle.gen = 0
    BY <1>2, Constants DEF Idle, CallState, Time
  <2> QED BY <1>2, <2>1 DEF Conclude
<1>3. CASE pc # "idle"
  <2> DEFINE r == [call[t] EXCEPT !.pc = pc, !.gen = 0]
  <2>1. r \in CallState /\ r.pc = pc /\ r.gen = 0 /\ r.at = call[t].at
    <3>1. 0 \in {0} \cup Generation /\ pc \in {"idle", "lookup", "check", "insert", "remove"}
      OBVIOUS
    <3> QED BY <1>1, <3>1 DEF CallState
  <2>2. call' = [call EXCEPT ![t] = r]
    BY <1>1, <1>3 DEF Conclude
  <2> HIDE DEF r
  <2> QED BY <2>1, <2>2
<1> QED BY <1>2, <1>3

\* The updates of `quarantined` after the section follow the window.
LEMMA CheckDashboard ==
  ASSUME RateInv, NEW t \in Query, Is(t, "check"),
         NEW w, NEW pc \in {"idle", "insert", "remove"},
         call'[t].pc = pc, \A u \in Query \ {t} : call'[u] = call[u],
         call[t].gen = current => window'[current] = w,
         current' = current, listed' = listed, releasing' = releasing,
         clean' = (clean /\ (pc # "idle" => Updating = {})),
         pc = "insert" => w.until # 0,
         pc = "remove" => w.until = 0,
         pc = "idle" => (w.until # 0 <=> window[call[t].gen].until # 0)
  PROVE  DashboardFollows'
<1> SUFFICES ASSUME clean'
             PROVE  /\ ~releasing'
                    /\ \A u \in Query : Is(u, "check")' => call'[u].gen = current
                    /\ \A u, v \in Updating' : u = v
                    /\ \A u \in Updating' : Is(u, "insert")' <=> Quarantined'
                    /\ Updating' = {} => (listed' <=> Quarantined')
  BY DEF DashboardFollows
<1>1. /\ ~releasing
      /\ \A u \in Query : Is(u, "check") => call[u].gen = current
      /\ \A u, v \in Updating : u = v
      /\ \A u \in Updating : Is(u, "insert") <=> Quarantined
      /\ Updating = {} => (listed <=> Quarantined)
  BY DEF RateInv, DashboardFollows
<1>2. call[t].gen = current /\ current # 0 /\ window'[current] = w
  BY <1>1, RateTyped, Constants DEF Generation
<1>3. \A u \in Query : Is(u, "check")' => call'[u].gen = current
  BY <1>1 DEF Is
<1>4. t \notin Updating
  BY DEF Updating, Is
<1>5. Quarantined' <=> w.until # 0
  BY <1>2 DEF Quarantined
<1>6. Quarantined <=> window[call[t].gen].until # 0
  BY <1>2 DEF Quarantined
<1>7. CASE pc = "idle"
  <2>1. t \notin Updating'
    BY <1>7 DEF Updating
  <2>2. Updating' = Updating
    BY <1>4, <2>1 DEF Updating
  <2>3. Quarantined' <=> Quarantined
    BY <1>5, <1>6, <1>7
  <2>4. \A u \in Updating : Is(u, "insert")' <=> Is(u, "insert")
    BY <1>4 DEF Is, Updating
  <2> QED BY <1>1, <1>3, <2>2, <2>3, <2>4
<1>8. CASE pc # "idle"
  <2>1. Updating = {}
    BY <1>8
  <2>2. Updating' = {t}
    <3>1. t \in Updating'
      BY <1>8 DEF Updating
    <3>2. \A u \in Query \ {t} : u \notin Updating'
      BY <2>1 DEF Updating
    <3> QED BY <3>1, <3>2 DEF Updating
  <2>3. Is(t, "insert")' <=> Quarantined'
    BY <1>5, <1>8 DEF Is
  <2> QED BY <1>1, <1>3, <2>2, <2>3
<1> QED BY <1>7, <1>8

\* The section under the window's lock.
LEMMA CheckStep ==
  ASSUME RateInv, NEW t \in Query, Check(t)
  PROVE  RateInv'
<1> DEFINE g == call[t].gen
           P == passed[g]
           w == Found(t)
           b == Begin(g)
           n == End(g)
<1>1. Is(t, "check") /\ now' = now /\ current' = current /\ dropped' = dropped
      /\ listed' = listed /\ releasing' = releasing
  BY DEF Check
<1>2. /\ g \in Generation /\ w \in ClientWindow /\ P \in SUBSET Passage
      /\ WindowSound(w, P, b, n) /\ b \in Time /\ b \in Nat
      /\ call[t].at >= b - MaxDelay /\ call[t].at <= n
      /\ call[t].at >= w.started - MaxDelay
      /\ w.until = 0 => call[t].at < w.started + Window
      /\ w.until # 0 => w.until > call[t].at
      /\ \A q \in P : q.at <= call[t].at + MaxDelay
      /\ w.until # 0 \/ w.count # 0 => w = window[g]
  BY <1>1, FoundSound, Lifetimes
<1>3. call[t].at \in Time /\ call[t].at \in Nat /\ call[t].at <= now /\ clean \in BOOLEAN
  BY <1>1, RateTyped DEF RateInv, RateTypeOK, Timely, Is
<1>4. IsFiniteSet(P) /\ Numbered(P)
  BY <1>2 DEF WindowSound, Numbered
<1>5. PICK v \in ClientWindow, Q \in SUBSET Passage, pc \in {"idle", "insert", "remove"} :
        /\ Store(t, v, Q) /\ Conclude(t, pc)
        /\ WindowSound(v, P \cup Q, b, n)
        /\ pc = "insert" => v.until # 0
        /\ pc = "remove" => v.until = 0
        /\ pc = "idle" => (v.until # 0 <=> window[g].until # 0)
  <2>1. CASE w.until # 0 /\ Store(t, w, {}) /\ Conclude(t, "idle")
    <3>1. P \cup {} = P
      OBVIOUS
    <3>2. w = window[g]
      BY <1>2, <2>1
    <3> HIDE DEF w, P, b, n
    <3> QED BY <1>2, <2>1, <3>1, <3>2
  <2>2. CASE /\ Full(t)
             /\ Store(t, [w EXCEPT !.count = 0, !.until = call[t].at + Window], {})
             /\ Conclude(t, "insert")
    <3> DEFINE v == [w EXCEPT !.count = 0, !.until = call[t].at + Window]
    <3>1. w.until = 0 /\ w.count = Limit
      BY <2>2 DEF Full
    <3>2. PICK Old \in SUBSET P : Split(P, w, Old, b)
      BY <1>2 DEF WindowSound
    <3>3. v \in ClientWindow /\ v.started = w.started /\ v.until # 0
      <4>1. 0 \in 0..Limit /\ call[t].at + Window \in 0..(Horizon + Window)
            /\ call[t].at + Window # 0
        BY <1>3, Constants DEF Time
      <4> HIDE DEF w
      <4> QED BY <1>2, <4>1 DEF ClientWindow
    <3>4. Split(P, v, Old, b)
      <4> HIDE DEF w, P, b, n
      <4> QED BY <1>2, <1>3, <1>4, <3>1, <3>2, SplitBlocked
    <3>5. P \cup {} = P
      OBVIOUS
    <3>6. WindowSound(v, P \cup {}, b, n)
      <4> HIDE DEF v, w, P, b, n
      <4> QED BY <1>2, <3>2, <3>3, <3>4, <3>5 DEF WindowSound
    <3>7. Store(t, v, {}) /\ Conclude(t, "insert")
      BY <2>2
    <3> HIDE DEF v, w, P, b, n
    <3> QED BY <3>3, <3>6, <3>7
  <2>3. CASE /\ ~Refused(t)
             /\ Store(t, [w EXCEPT !.count = @ + 1], {Pass(t, P)})
             /\ Conclude(t, IF Expired(window[g], t) THEN "remove" ELSE "idle")
    <3> DEFINE v == [w EXCEPT !.count = @ + 1]
               p == Pass(t, P)
               pc == IF Expired(window[g], t) THEN "remove" ELSE "idle"
    <3>1. w.until = 0 /\ w.count # Limit
      BY <2>3 DEF Refused, Full
    <3>2. PICK Old \in SUBSET P : Split(P, w, Old, b)
      BY <1>2 DEF WindowSound
    <3>3. v \in ClientWindow /\ v.started = w.started /\ v.until = 0
      BY <1>2, <3>1, Constants DEF ClientWindow
    <3>4. p \in Passage /\ p \notin P /\ Numbered(P \cup {p}) /\ p.at = call[t].at
      <4>1. p.at = call[t].at
        BY DEF Pass
      <4> HIDE DEF P
      <4> QED BY <1>2, <1>3, <1>4, <4>1, NumberedGrows
    <3>5. Split(P \cup {p}, v, Old, b)
      <4> HIDE DEF w, P, p, b, n
      <4> QED BY <1>2, <1>3, <1>4, <3>1, <3>2, <3>4, SplitCounts
    <3>6. WindowSound(v, P \cup {p}, b, n)
      <4>1. Old \in SUBSET (P \cup {p})
        OBVIOUS
      <4> HIDE DEF v, w, P, p, b, n
      <4> QED BY <1>2, <1>3, <3>3, <3>4, <3>5, <4>1 DEF WindowSound
    <3>7. pc \in {"idle", "insert", "remove"} /\ pc # "insert"
      OBVIOUS
    <3>8. pc = "idle" => window[g].until = 0
      <4>1. window[g].until # 0 /\ ~Expired(window[g], t) => w = window[g]
        BY DEF Found, Refreshed
      <4> QED BY <3>1, <4>1
    <3>9. Store(t, v, {p}) /\ Conclude(t, pc)
      BY <2>3
    <3>10. {p} \in SUBSET Passage
      BY <3>4
    <3> HIDE DEF v, w, P, p, pc, b, n
    <3> QED BY <3>3, <3>6, <3>7, <3>8, <3>9, <3>10
  <2> QED BY <2>1, <2>2, <2>3 DEF Check
<1>6. PICK r \in CallState :
        /\ call' = [call EXCEPT ![t] = r] /\ r.pc = pc /\ r.gen = 0
        /\ pc # "idle" => r.at = call[t].at
  BY <1>5, ConcludeState
<1>7. clean' = (clean /\ (pc # "idle" => Updating = {}))
  BY <1>5 DEF Conclude
<1>8. /\ RateTypeOK' /\ InOrder' /\ Timely' /\ WindowsSound'
      /\ call'[t] = r /\ \A u \in Query \ {t} : call'[u] = call[u]
      /\ g = current => window'[current] = v
  <2>1. clean' \in BOOLEAN
    BY <1>7
  <2>2. r.pc # "check" /\ (r.pc # "idle" => r.at = call[t].at)
    BY <1>6
  <2> QED BY <1>1, <1>5, <1>6, <2>1, <2>2, StoreStep
<1>9. DashboardFollows'
  BY <1>1, <1>5, <1>6, <1>7, <1>8, CheckDashboard
<1> QED BY <1>8, <1>9 DEF RateInv
\* The write lock of `quarantined` is granted.
LEMMA UpdateSetStep ==
  ASSUME RateInv, NEW t \in Query, UpdateSet(t)
  PROVE  RateInv'
<1>1. t \in Updating /\ call' = [call EXCEPT ![t] = Idle] /\ listed' = Is(t, "insert")
      /\ now' = now /\ current' = current /\ window' = window /\ passed' = passed
      /\ dropped' = dropped /\ releasing' = releasing /\ clean' = clean
  BY DEF UpdateSet
<1>2. call \in [Query -> CallState] /\ call[t].gen = 0
  BY <1>1, RateTyped DEF RateInv, RateTypeOK, Is, Updating
<1>3. Idle \in CallState /\ Idle.gen = 0 /\ Idle.pc = "idle"
  BY Constants DEF Idle, CallState, Time
<1>4. call'[t] = Idle /\ \A u \in Query \ {t} : call'[u] = call[u]
  BY <1>1, <1>2
<1>5. RateTypeOK' /\ InOrder'
  <2>1. call' \in [Query -> CallState] /\ listed' \in BOOLEAN
    BY <1>1, <1>2, <1>3 DEF Is
  <2> QED BY <1>1, <2>1 DEF RateInv, RateTypeOK, InOrder
<1>6. \A h : (Begun(h)' <=> Begun(h)) /\ Begin(h)' = Begin(h) /\ End(h)' = End(h)
  BY <1>1 DEF Begun, Begin, End
<1>7. Timely' /\ WindowsSound'
  <2>1. Timely'
    <3> SUFFICES ASSUME NEW u \in Query
                 PROVE  /\ call'[u].gen # 0 <=> call'[u].pc = "check"
                        /\ call'[u].pc # "idle" =>
                             call'[u].at <= now /\ now <= call'[u].at + MaxDelay
                        /\ call'[u].pc = "check" =>
                             /\ Begun(call'[u].gen)
                             /\ call'[u].at >= Begin(call'[u].gen) - MaxDelay
                             /\ call'[u].at <= End(call'[u].gen)
      BY <1>1, <1>6 DEF Timely, Is, Begun, Begin, End
    <3>1. CASE u # t
      BY <1>4, <3>1 DEF RateInv, Timely, Is
    <3>2. CASE u = t
      BY <1>3, <1>4, <3>2
    <3> QED BY <3>1, <3>2
  <2>2. WindowsSound'
    BY <1>1, <1>6 DEF RateInv, WindowsSound
  <2> QED BY <2>1, <2>2
<1>8. DashboardFollows'
  <2> SUFFICES ASSUME clean
               PROVE  /\ ~releasing
                      /\ \A u \in Query : Is(u, "check")' => call'[u].gen = current
                      /\ \A u, v \in Updating' : u = v
                      /\ \A u \in Updating' : Is(u, "insert")' <=> Quarantined
                      /\ listed' <=> Quarantined
    BY <1>1 DEF DashboardFollows, Quarantined
  <2>1. /\ ~releasing
        /\ \A u \in Query : Is(u, "check") => call[u].gen = current
        /\ \A u \in Updating : u = t
        /\ Is(t, "insert") <=> Quarantined
    BY <1>1 DEF RateInv, DashboardFollows
  <2>2. Updating' = {}
    BY <1>3, <1>4, <2>1 DEF Updating
  <2>3. \A u \in Query : Is(u, "check")' => call'[u].gen = current
    BY <1>3, <1>4, <2>1 DEF Is
  <2> QED BY <1>1, <2>1, <2>2, <2>3
<1> QED BY <1>5, <1>7, <1>8 DEF RateInv

\* The window is dropped from the cache.
LEMMA DropStep ==
  ASSUME RateInv, Drop,
         listed' \in BOOLEAN, releasing' \in BOOLEAN, clean' \in BOOLEAN
  PROVE  /\ RateTypeOK' /\ InOrder' /\ Timely' /\ WindowsSound'
         /\ current' = 0 /\ call' = call
<1>1. /\ current' = 0 /\ now' = now /\ window' = window /\ call' = call
      /\ passed' = passed
      /\ \/ current = 0 /\ dropped' = dropped
         \/ /\ current # 0 /\ Len(dropped) < MaxDrops
            /\ dropped' = Append(dropped, now)
  BY DEF Drop
<1>2. now \in Time /\ now \in Nat /\ dropped \in Seq(Time)
  BY RateTyped DEF RateInv, RateTypeOK
<1>3. /\ Len(dropped) \in Nat /\ DOMAIN dropped = 1..Len(dropped)
      /\ \A g \in DOMAIN dropped : dropped[g] \in Nat /\ dropped[g] <= now
      /\ \A g, h \in DOMAIN dropped : g <= h => dropped[g] <= dropped[h]
      /\ current # 0 => current = Len(dropped) + 1
  BY Numbers DEF RateInv, InOrder
<1>4. current # 0 =>
        /\ dropped' \in Seq(Time) /\ Len(dropped') = current
        /\ DOMAIN dropped' = DOMAIN dropped \cup {current}
        /\ \A g \in DOMAIN dropped : dropped'[g] = dropped[g]
        /\ dropped'[current] = now
  <2> SUFFICES ASSUME current # 0
               PROVE  /\ dropped' \in Seq(Time) /\ Len(dropped') = current
                      /\ DOMAIN dropped' = DOMAIN dropped \cup {current}
                      /\ \A g \in DOMAIN dropped : dropped'[g] = dropped[g]
                      /\ dropped'[current] = now
    OBVIOUS
  <2>1. dropped' = Append(dropped, now) /\ current = Len(dropped) + 1
    BY <1>1, <1>3
  <2>2. dropped' \in Seq(Time) /\ Len(dropped') = current
    BY <1>2, <1>3, <2>1
  <2>3. DOMAIN dropped' = 1..(Len(dropped) + 1)
    BY <2>1, <2>2
  <2>4. 1..(Len(dropped) + 1) = (1..Len(dropped)) \cup {Len(dropped) + 1}
    BY <1>3
  <2>5. \A g \in 1..Len(dropped) : dropped'[g] = dropped[g]
    BY <1>2, <2>1
  <2>6. dropped'[current] = now
    BY <1>2, <1>3, <2>1
  <2> QED BY <1>3, <2>1, <2>2, <2>3, <2>4, <2>5, <2>6
<1>5. RateTypeOK'
  <2>1. dropped' \in Seq(Time) /\ Len(dropped') <= MaxDrops
    BY <1>1, <1>2, <1>3, <1>4, Constants DEF RateInv, RateTypeOK
  <2> QED BY <1>1, <2>1 DEF RateInv, RateTypeOK
<1>6. InOrder'
  <2>1. CASE current = 0
    BY <1>1, <1>3, <2>1 DEF InOrder
  <2>2. CASE current # 0
    <3>1. ASSUME NEW g \in DOMAIN dropped' PROVE dropped'[g] <= now'
      BY <1>1, <1>2, <1>3, <1>4, <2>2, <3>1
    <3>2. ASSUME NEW g \in DOMAIN dropped', NEW h \in DOMAIN dropped', g <= h
          PROVE  dropped'[g] <= dropped'[h]
      <4>1. CASE h = current
        BY <1>1, <1>4, <2>2, <3>1, <4>1
      <4>2. CASE h # current
        <5>1. h \in DOMAIN dropped /\ g \in DOMAIN dropped
          BY <1>3, <1>4, <2>2, <3>2, <4>2
        <5> QED BY <1>3, <1>4, <2>2, <3>2, <5>1
      <4> QED BY <4>1, <4>2
    <3> QED BY <1>1, <3>1, <3>2 DEF InOrder
  <2> QED BY <2>1, <2>2
<1>7. ASSUME NEW g \in Generation
      PROVE  /\ Begun(g)' <=> Begun(g)
             /\ Begun(g) => Begin(g)' = Begin(g) /\ End(g)' = End(g)
  <2>1. g \in Nat /\ g # 0
    BY Numbers
  <2>2. CASE current = 0
    BY <1>1, <2>1, <2>2 DEF Begun, Begin, End
  <2>3. CASE current # 0
    <3>1. Begun(g)' <=> Begun(g)
      BY <1>1, <1>4, <2>1, <2>3 DEF Begun
    <3>2. Begun(g) => End(g)' = End(g)
      <4>1. CASE g = current
        <5>1. g \notin DOMAIN dropped
          BY <4>1, Numbers
        <5> QED BY <1>1, <1>4, <2>3, <4>1, <5>1 DEF End
      <4>2. CASE g # current
        BY <1>1, <1>4, <2>3, <4>2 DEF End
      <4> QED BY <4>1, <4>2
    <3>3. Begun(g) => Begin(g)' = Begin(g)
      <4>1. Begun(g) => g - 1 # current
        BY <1>3, <2>1, <2>3 DEF Begun
      <4> QED BY <1>4, <2>3, <4>1 DEF Begin
    <3> QED BY <3>1, <3>2, <3>3
  <2> QED BY <2>2, <2>3
<1>8. Timely'
  <2> SUFFICES ASSUME NEW u \in Query
               PROVE  /\ call[u].gen # 0 <=> call[u].pc = "check"
                      /\ call[u].pc # "idle" =>
                           call[u].at <= now /\ now <= call[u].at + MaxDelay
                      /\ call[u].pc = "check" =>
                           /\ Begun(call[u].gen)'
                           /\ call[u].at >= Begin(call[u].gen)' - MaxDelay
                           /\ call[u].at <= End(call[u].gen)'
    BY <1>1 DEF Timely, Is
  <2>1. call[u].pc = "check" => call[u].gen \in Generation
    BY RateTyped DEF Is
  <2> QED BY <1>1, <1>7, <2>1 DEF RateInv, Timely, Is
<1>9. WindowsSound'
  BY <1>1, <1>7 DEF RateInv, WindowsSound
<1> QED BY <1>1, <1>5, <1>6, <1>8, <1>9

LEMMA UnquarantineStep ==
  ASSUME RateInv, Unquarantine
  PROVE  RateInv'
<1>1. Drop /\ listed' = listed /\ releasing' = TRUE
      /\ clean' = FALSE
  BY DEF Unquarantine
<1>2. listed' \in BOOLEAN
  BY <1>1 DEF RateInv, RateTypeOK
<1> QED BY <1>1, <1>2, DropStep DEF RateInv, DashboardFollows

LEMMA EvictWindowStep ==
  ASSUME RateInv, EvictWindow
  PROVE  RateInv'
<1>1. Drop /\ listed' = listed /\ releasing' = releasing
      /\ clean' = (clean /\ Quiet /\ ~listed)
  BY DEF EvictWindow
<1>2. listed' \in BOOLEAN /\ releasing' \in BOOLEAN /\ clean' \in BOOLEAN
  BY <1>1 DEF RateInv, RateTypeOK
<1>3. RateTypeOK' /\ InOrder' /\ Timely' /\ WindowsSound' /\ current' = 0 /\ call' = call
  BY <1>1, <1>2, DropStep
<1>4. DashboardFollows'
  <2> SUFFICES ASSUME clean'
               PROVE  /\ ~releasing'
                      /\ \A u \in Query : Is(u, "check")' => call'[u].gen = current'
                      /\ \A u, v \in Updating' : u = v
                      /\ \A u \in Updating' : Is(u, "insert")' <=> Quarantined'
                      /\ Updating' = {} => (listed' <=> Quarantined')
    BY DEF DashboardFollows
  <2>1. clean /\ Quiet /\ ~listed
    BY <1>1
  <2>2. Updating' = {} /\ \A u \in Query : ~Is(u, "check")'
    BY <1>1, <1>3, <2>1 DEF Quiet, Is, Updating
  <2>3. ~Quarantined'
    BY <1>3 DEF Quarantined
  <2> QED BY <1>1, <2>1, <2>2, <2>3 DEF RateInv, DashboardFollows
<1> QED BY <1>3, <1>4 DEF RateInv

LEMMA FinishReleaseStep ==
  ASSUME RateInv, FinishRelease
  PROVE  RateInv'
<1>1. now' = now /\ call' = call /\ current' = current /\ window' = window
      /\ dropped' = dropped /\ passed' = passed /\ releasing' = FALSE /\ listed' = FALSE
      /\ clean' = (Quiet /\ current = 0)
  BY DEF FinishRelease
<1>2. RateTypeOK' /\ InOrder'
  BY <1>1 DEF RateInv, RateTypeOK, InOrder
<1>3. Timely' /\ WindowsSound'
  BY <1>1 DEF RateInv, Timely, WindowsSound, Is, Begun, Begin, End
<1>4. DashboardFollows'
  <2>1. clean' => Updating' = {} /\ \A u \in Query : ~Is(u, "check")'
    BY <1>1 DEF Quiet, Is, Updating
  <2>2. clean' => ~Quarantined'
    BY <1>1 DEF Quarantined
  <2> QED BY <1>1, <2>1, <2>2 DEF DashboardFollows
<1> QED BY <1>2, <1>3, <1>4 DEF RateInv

LEMMA TickStep ==
  ASSUME RateInv, Tick
  PROVE  RateInv'
<1>1. now < Horizon /\ now' = now + 1
      /\ call' = call /\ current' = current /\ window' = window /\ passed' = passed
      /\ dropped' = dropped
      /\ listed' = listed /\ releasing' = releasing /\ clean' = clean
      /\ \A t \in Query : Is(t, "idle") \/ now - call[t].at < MaxDelay
  BY DEF Tick
<1>2. now \in Nat /\ \A t \in Query : call[t].at \in Nat
  BY RateTyped
<1>3. RateTypeOK' /\ InOrder'
  <2>1. now' \in Time
    BY <1>1, <1>2, Constants DEF Time
  <2>2. \A g \in DOMAIN dropped : dropped[g] \in Nat /\ dropped[g] <= now
    BY Numbers DEF RateInv, InOrder
  <2>3. \A g \in DOMAIN dropped : dropped[g] <= now + 1
    BY <1>2, <2>2
  <2> QED BY <1>1, <2>1, <2>3 DEF RateInv, RateTypeOK, InOrder
<1>4. ASSUME NEW g \in Generation
      PROVE  /\ (Begun(g)' <=> Begun(g)) /\ Begin(g)' = Begin(g)
             /\ End(g)' = End(g) \/ (End(g) = now /\ End(g)' = now + 1)
             /\ End(g) \in Nat /\ End(g) <= End(g)'
  <2>1. (Begun(g)' <=> Begun(g)) /\ Begin(g)' = Begin(g)
    BY <1>1 DEF Begun, Begin
  <2>2. End(g)' = End(g) \/ (End(g) = now /\ End(g)' = now + 1)
    <3>1. CASE g \in DOMAIN dropped
      BY <1>1, <3>1 DEF End
    <3>2. CASE g \notin DOMAIN dropped
      BY <1>1, <3>2 DEF End
    <3> QED BY <3>1, <3>2
  <2>3. End(g) \in Nat
    BY Lifetimes
  <2> QED BY <1>2, <2>1, <2>2, <2>3
<1>5. Timely'
  <2> SUFFICES ASSUME NEW t \in Query
               PROVE  /\ call[t].gen # 0 <=> Is(t, "check")
                      /\ ~Is(t, "idle") =>
                           call[t].at <= now + 1 /\ now + 1 <= call[t].at + MaxDelay
                      /\ Is(t, "check") =>
                           /\ Begun(call[t].gen)'
                           /\ call[t].at >= Begin(call[t].gen)' - MaxDelay
                           /\ call[t].at <= End(call[t].gen)'
    BY <1>1 DEF Timely, Is
  <2>1. call[t].gen # 0 <=> Is(t, "check")
    BY DEF RateInv, Timely
  <2>2. ~Is(t, "idle") => call[t].at <= now
    BY DEF RateInv, Timely
  <2>3. Is(t, "check") =>
          /\ Begun(call[t].gen) /\ call[t].gen \in Generation
          /\ call[t].at >= Begin(call[t].gen) - MaxDelay
          /\ call[t].at <= End(call[t].gen)
    BY RateTyped DEF RateInv, Timely
  <2>4. Is(t, "check") =>
          /\ Begun(call[t].gen)'
          /\ call[t].at >= Begin(call[t].gen)' - MaxDelay
          /\ call[t].at <= End(call[t].gen)'
    BY <1>1, <1>2, <1>4, <2>3
  <2> QED BY <1>1, <1>2, <2>1, <2>2, <2>4, Constants
<1>6. WindowsSound'
  <2> SUFFICES ASSUME NEW g \in Generation
               PROVE  /\ Begun(g) => WindowSound(window[g], passed[g], Begin(g), End(g)')
                      /\ ~Begun(g) => window[g] = NewWindow /\ passed[g] = {}
    BY <1>1, <1>4 DEF WindowsSound
  <2>1. ASSUME Begun(g) PROVE WindowSound(window[g], passed[g], Begin(g), End(g)')
    <3>1. WindowSound(window[g], passed[g], Begin(g), End(g))
      BY <2>1 DEF RateInv, WindowsSound
    <3>2. WindowSound(window[g], passed[g], Begin(g), End(g) + 1)
      BY <1>4, <3>1, RateTyped, SoundLater
    <3> QED BY <1>4, <3>1, <3>2
  <2> QED BY <2>1 DEF RateInv, WindowsSound
<1>7. DashboardFollows'
  BY <1>1 DEF RateInv, DashboardFollows, Is, Updating, Quarantined
<1> QED BY <1>3, <1>5, <1>6, <1>7 DEF RateInv

LEMMA RateStep == RateInv /\ [RateNext]_rateVars => RateInv'
<1> SUFFICES ASSUME RateInv, [RateNext]_rateVars PROVE RateInv'
  OBVIOUS
<1>1. ASSUME NEW t \in Query, Arrive(t) PROVE RateInv'
  BY <1>1, ArriveStep
<1>2. ASSUME NEW t \in Query, Lookup(t) PROVE RateInv'
  BY <1>2, LookupStep
<1>3. ASSUME NEW t \in Query, Check(t) PROVE RateInv'
  BY <1>3, CheckStep
<1>4. ASSUME NEW t \in Query, UpdateSet(t) PROVE RateInv'
  BY <1>4, UpdateSetStep
<1>5. CASE Unquarantine
  BY <1>5, UnquarantineStep
<1>6. CASE FinishRelease
  BY <1>6, FinishReleaseStep
<1>7. CASE EvictWindow
  BY <1>7, EvictWindowStep
<1>8. CASE Tick
  BY <1>8, TickStep
<1>9. CASE UNCHANGED rateVars
  BY <1>9 DEF RateInv, RateTypeOK, Timely, WindowsSound, DashboardFollows,
              InOrder, Is, Begun, Begin, End, Updating, Quarantined, rateVars
<1> QED BY <1>1, <1>2, <1>3, <1>4, <1>5, <1>6, <1>7, <1>8, <1>9 DEF RateNext

-----------------------------------------------------------------------------
\* What one window let through in a span: when, and how much.
LEMMA WindowShare ==
  ASSUME RateInv, NEW a \in Time, NEW g \in Generation,
         NEW X, X = During(passed[g], Span(a))
  PROVE  /\ IsFiniteSet(X) /\ Cardinality(X) \in Nat /\ Cardinality(X) <= 2 * Limit
         /\ X # {} => Begun(g) /\ End(g) >= a /\ Begin(g) <= a + Window - MaxDelay
         /\ Cardinality(X) > Limit => Begin(g) <= a /\ a < End(g)
<1> DEFINE P == passed[g]
           w == window[g]
<1>1. w \in ClientWindow /\ P \in SUBSET Passage
  BY RateTyped
<1>2. CASE ~Begun(g)
  <2>1. X = {}
    BY <1>2 DEF RateInv, WindowsSound, During
  <2>2. IsFiniteSet(X) /\ Cardinality(X) = 0
    BY <2>1, FS_EmptySet
  <2> QED BY <2>1, <2>2, Constants
<1>3. CASE Begun(g)
  <2> DEFINE b == Begin(g)
             n == End(g)
  <2>1. WindowSound(w, P, b, n) /\ b \in Time
    BY <1>3, Lifetimes DEF RateInv, WindowsSound
  <2>2. b \in Nat /\ n \in Nat /\ a \in Nat /\ w.started \in Nat
    BY <1>1, Lifetimes DEF ClientWindow, Time
  <2> HIDE DEF P, w, b, n
  <2>3. PICK Old \in SUBSET P : Split(P, w, Old, b)
    BY <2>1 DEF WindowSound
  <2>4. IsFiniteSet(P) /\ w.started <= n
    BY <2>1 DEF WindowSound, Numbered
  <2>5. X \in SUBSET P /\ X = During(P, Span(a))
    BY DEF During, P
  <2>6. IsFiniteSet(X) /\ Cardinality(X) \in Nat
    BY <2>4, <2>5, PartSize
  <2>7. Cardinality(X) <= 2 * Limit
    BY <1>1, <2>1, <2>3, <2>4, <2>5, SpanBound
  <2>8. ASSUME X # {} PROVE n >= a /\ b <= a + Window - MaxDelay
    <3>1. PICK q \in X : TRUE
      BY <2>8
    <3>2. q \in Passage /\ q.at \in Nat /\ q.at \in Span(a) /\ q \in P
      BY <1>1, <2>5, <3>1 DEF During, Passage, Time
    <3>3. q.at <= n /\ q.at >= b - MaxDelay
      BY <2>1, <3>2 DEF WindowSound
    <3> QED BY <2>2, <3>2, <3>3, InSpan, Constants
  <2>9. ASSUME Cardinality(X) > Limit PROVE b <= a /\ a < n
    <3>1. ~(a < b)
      BY <1>1, <2>1, <2>3, <2>4, <2>5, <2>6, <2>9, BornBound, Constants
    <3>2. ~(w.started <= a)
      BY <1>1, <2>1, <2>3, <2>4, <2>5, <2>6, <2>9, LateBound, Constants
    <3> QED BY <2>2, <2>4, <3>1, <3>2
  <2> QED BY <1>3, <2>6, <2>7, <2>8, <2>9 DEF b, n
<1> QED BY <1>2, <1>3

\* Of two windows, the earlier was dropped before the later began.
LEMMA Successive ==
  ASSUME RateInv, NEW g \in Generation, NEW h \in Generation, g < h, Begun(h)
  PROVE  g \in DOMAIN dropped /\ dropped[g] = End(g) /\ End(g) <= Begin(h)
<1>1. /\ g \in Nat /\ g # 0 /\ h \in Nat
      /\ Len(dropped) \in Nat /\ DOMAIN dropped = 1..Len(dropped)
  BY Numbers
<1>2. h <= Len(dropped) + 1
  BY <1>1 DEF Begun, RateInv, InOrder
<1>3. g \in DOMAIN dropped /\ h - 1 \in DOMAIN dropped /\ g <= h - 1
  BY <1>1, <1>2
<1>4. dropped[g] <= dropped[h - 1]
  BY <1>3 DEF RateInv, InOrder
<1> QED BY <1>3, <1>4 DEF End, Begin

\* Two passages charged to the same place are the same of their windows.
LEMMA Charged ==
  ASSUME NEW s, NEW t, s # -1, t # -1, NEW k \in Nat, NEW l \in Nat,
         (IF k <= Limit THEN <<s, k>> ELSE <<-1, k - Limit>>)
           = (IF l <= Limit THEN <<t, l>> ELSE <<-1, l - Limit>>)
  PROVE  k = l /\ (k <= Limit => s = t)
<1>1. CASE k <= Limit /\ l <= Limit
  BY <1>1
<1>2. CASE ~(k <= Limit) /\ ~(l <= Limit)
  <2>1. k - Limit = l - Limit
    BY <1>2
  <2> QED BY <1>2, <2>1, Constants
<1>3. CASE k <= Limit /\ ~(l <= Limit)
  <2>1. s = -1
    BY <1>3
  <2> QED BY <2>1
<1>4. CASE ~(k <= Limit) /\ l <= Limit
  <2>1. t = -1
    BY <1>4
  <2> QED BY <2>1
<1> QED BY <1>1, <1>2, <1>3, <1>4

\* All windows together: each passage is numbered among those of its window;
\* the first Limit of a window are charged to its drop, or to the one window
\* that was not dropped in time (0), and the others to the one window that
\* was in the cache when the span began (-1).
LEMMA BoundHolds ==
  ASSUME RateInv
  PROVE  RateBound
<1> SUFFICES ASSUME NEW a \in Time
             PROVE  Cardinality(Passages(Span(a)))
                      <= (2 + Cardinality(Drops(a..(a + Window - MaxDelay)))) * Limit
  BY DEF RateBound, Span
<1> DEFINE X(g) == During(passed[g], Span(a))
           D == Drops(a..(a + Window - MaxDelay))
           U == Passages(Span(a))
           slot(g) == IF g \in D THEN g ELSE 0
           B(g) == Bijection(X(g), 1..Cardinality(X(g)))
           num == [g \in Generation |-> CHOOSE f : f \in B(g)]
           T == (D \cup {0, -1}) \X (1..Limit)
           F == [u \in U |-> LET k == num[u[1]][u[2]] IN
                   IF k <= Limit THEN <<slot(u[1]), k>> ELSE <<-1, k - Limit>>]
<1>1. a \in Nat
  BY DEF Time
<1>2. ASSUME NEW g \in Generation
      PROVE  /\ IsFiniteSet(X(g)) /\ Cardinality(X(g)) \in Nat
             /\ Cardinality(X(g)) <= 2 * Limit
             /\ X(g) # {} => Begun(g) /\ End(g) >= a /\ Begin(g) <= a + Window - MaxDelay
             /\ Cardinality(X(g)) > Limit => Begin(g) <= a /\ a < End(g)
  BY WindowShare
<1>3. ASSUME NEW g \in Generation
      PROVE  /\ num[g] \in B(g)
             /\ \A p \in X(g) : num[g][p] \in 1..Cardinality(X(g))
             /\ \A p, r \in X(g) : num[g][p] = num[g][r] => p = r
  <2>1. IsFiniteSet(1..Cardinality(X(g))) /\ Cardinality(1..Cardinality(X(g))) = Cardinality(X(g))
    BY <1>2, FS_Interval
  <2>2. ExistsBijection(X(g), 1..Cardinality(X(g)))
    BY <1>2, <2>1, FS_SameCardinalityBij
  <2>3. num[g] \in B(g)
    BY <2>2 DEF ExistsBijection
  <2> QED BY <2>3 DEF Bijection, Injection, Surjection, IsInjective
<1> HIDE DEF X, num
<1>4. ASSUME NEW u \in U
      PROVE  u[1] \in Generation /\ u[2] \in X(u[1]) /\ u = <<u[1], u[2]>>
  BY DEF Passages, X
<1>5. /\ IsFiniteSet(D) /\ Cardinality(D) \in Nat /\ 0 \notin D /\ -1 \notin D
      /\ IsFiniteSet(D \cup {0, -1}) /\ Cardinality(D \cup {0, -1}) = Cardinality(D) + 2
  <2>1. D \in SUBSET (1..Len(dropped)) /\ Len(dropped) \in Nat
    BY Numbers DEF Drops
  <2> HIDE DEF D
  <2>2. IsFiniteSet(D) /\ 0 \notin D /\ -1 \notin D
    <3>1. IsFiniteSet(1..Len(dropped))
      BY <2>1, FS_Interval
    <3>2. IsFiniteSet(D)
      BY <2>1, <3>1, FS_Subset
    <3> QED BY <2>1, <3>2
  <2>3. IsFiniteSet(D \cup {0}) /\ Cardinality(D \cup {0}) = Cardinality(D) + 1
    BY <2>2, FS_AddElement
  <2>4. /\ IsFiniteSet((D \cup {0}) \cup {-1})
        /\ Cardinality((D \cup {0}) \cup {-1}) = Cardinality(D \cup {0}) + 1
    <3>1. -1 \notin D \cup {0}
      BY <2>2
    <3> DEFINE E == D \cup {0}
    <3>2. IsFiniteSet(E) /\ -1 \notin E
      BY <2>3, <3>1
    <3> HIDE DEF E
    <3>3. IsFiniteSet(E \cup {-1}) /\ Cardinality(E \cup {-1}) = Cardinality(E) + 1
      BY <3>2, FS_AddElement
    <3> QED BY <3>3 DEF E
  <2>5. (D \cup {0}) \cup {-1} = D \cup {0, -1} /\ Cardinality(D) \in Nat
    BY <2>2, FS_CardinalityType
  <2> QED BY <2>2, <2>3, <2>4, <2>5
<1>6. IsFiniteSet(T) /\ Cardinality(T) = (2 + Cardinality(D)) * Limit
  <2>1. IsFiniteSet(1..Limit) /\ Cardinality(1..Limit) = Limit
    BY Constants, FS_Interval
  <2> DEFINE slots == D \cup {0, -1}
             firsts == 1..Limit
  <2> HIDE DEF D, slots, firsts
  <2>2. /\ IsFiniteSet(slots \X firsts)
        /\ Cardinality(slots \X firsts) = Cardinality(slots) * Cardinality(firsts)
    BY <1>5, <2>1, FS_Product DEF slots, firsts
  <2>3. Cardinality(slots) = 2 + Cardinality(D) /\ Cardinality(firsts) = Limit
    BY <1>5, <2>1 DEF slots, firsts
  <2>4. T = slots \X firsts
    BY DEF slots, firsts
  <2> HIDE DEF T
  <2> QED BY <2>2, <2>3, <2>4
\* The slot tells the window.
<1>7. ASSUME NEW g \in Generation, NEW h \in Generation, X(g) # {}, X(h) # {}, g < h
      PROVE  g \in D
  <2>1. /\ g \in DOMAIN dropped /\ dropped[g] = End(g) /\ End(g) <= Begin(h)
        /\ dropped[g] \in Nat /\ Begin(h) \in Nat
    BY <1>2, <1>7, Successive, Numbers, Lifetimes
  <2>2. dropped[g] >= a /\ dropped[g] <= a + Window - MaxDelay
    BY <1>1, <1>2, <1>7, <2>1, Constants
  <2> QED BY <1>1, <2>1, <2>2, Constants DEF Drops
<1>8. ASSUME NEW g \in Generation, NEW h \in Generation, X(g) # {}, X(h) # {},
             slot(g) = slot(h)
      PROVE  g = h
  <2>1. g \in Nat /\ h \in Nat
    BY Numbers
  <2>2. g = h \/ g < h \/ h < g
    BY <2>1
  <2> HIDE DEF D
  <2> QED BY <1>5, <1>7, <1>8, <2>2
<1>9. ASSUME NEW g \in Generation, NEW h \in Generation,
             Cardinality(X(g)) > Limit, Cardinality(X(h)) > Limit
      PROVE  g = h
  <2>1. g \in Nat /\ h \in Nat
    BY Numbers
  <2>2. X(g) # {} /\ X(h) # {}
    BY <1>9, FS_EmptySet, Constants
  <2>3. ASSUME NEW i \in Generation, NEW j \in Generation, i < j, X(j) # {},
               Cardinality(X(i)) > Limit, Cardinality(X(j)) > Limit
        PROVE  FALSE
    <3>1. End(i) <= Begin(j) /\ a < End(i) /\ Begin(j) <= a
      BY <1>2, <2>3, Successive
    <3>2. End(i) \in Nat /\ Begin(j) \in Nat
      BY Lifetimes
    <3> QED BY <1>1, <3>1, <3>2
  <2> QED BY <1>9, <2>1, <2>2, <2>3
<1>10. ASSUME NEW u \in U
       PROVE  F[u] \in T
  <2> DEFINE k == num[u[1]][u[2]]
  <2>1. k \in Nat /\ 1 <= k /\ k <= 2 * Limit
    BY <1>2, <1>3, <1>4, Constants
  <2>2. slot(u[1]) \in D \cup {0, -1}
    OBVIOUS
  <2>3. F[u] = IF k <= Limit THEN <<slot(u[1]), k>> ELSE <<-1, k - Limit>>
    OBVIOUS
  <2> HIDE DEF k, D, F, slot
  <2>4. CASE k <= Limit
    BY <2>1, <2>2, <2>3, <2>4, Constants
  <2>5. CASE ~(k <= Limit)
    <3>1. k - Limit \in 1..Limit
      BY <2>1, <2>5, Constants
    <3> QED BY <2>3, <2>5, <3>1
  <2> QED BY <2>4, <2>5
<1>11. ASSUME NEW u \in U, NEW v \in U, F[u] = F[v]
       PROVE  u = v
  <2> DEFINE k == num[u[1]][u[2]]
             l == num[v[1]][v[2]]
  <2>1. /\ k \in 1..Cardinality(X(u[1])) /\ l \in 1..Cardinality(X(v[1]))
        /\ u[1] \in Generation /\ v[1] \in Generation
        /\ u[2] \in X(u[1]) /\ v[2] \in X(v[1])
        /\ Cardinality(X(u[1])) \in Nat /\ Cardinality(X(v[1])) \in Nat
    BY <1>2, <1>3, <1>4
  <2>2. /\ F[u] = IF k <= Limit THEN <<slot(u[1]), k>> ELSE <<-1, k - Limit>>
        /\ F[v] = IF l <= Limit THEN <<slot(v[1]), l>> ELSE <<-1, l - Limit>>
    OBVIOUS
  <2>3. slot(u[1]) # -1 /\ slot(v[1]) # -1
    <3> HIDE DEF D
    <3> QED BY <1>5
  <2>4. k = l /\ (k <= Limit => slot(u[1]) = slot(v[1]))
    <3> HIDE DEF F, D, slot, k, l
    <3>1. k \in Nat /\ l \in Nat
      BY <2>1
    <3>2. (IF k <= Limit THEN <<slot(u[1]), k>> ELSE <<-1, k - Limit>>)
            = (IF l <= Limit THEN <<slot(v[1]), l>> ELSE <<-1, l - Limit>>)
      BY <1>11, <2>2
    <3> QED BY <2>3, <3>1, <3>2, Charged
  <2>5. u[1] = v[1]
    <3>1. CASE k <= Limit
      <4>1. slot(u[1]) = slot(v[1])
        BY <2>4, <3>1
      <4>2. X(u[1]) # {} /\ X(v[1]) # {}
        BY <2>1
      <4> HIDE DEF slot, k, l
      <4> QED BY <1>8, <2>1, <4>1, <4>2
    <3>2. CASE ~(k <= Limit)
      <4> HIDE DEF k, l
      <4>1. Cardinality(X(u[1])) > Limit /\ Cardinality(X(v[1])) > Limit
        BY <2>1, <2>4, <3>2, Constants
      <4> QED BY <1>9, <2>1, <4>1
    <3> QED BY <3>1, <3>2
  <2>6. u[2] = v[2]
    BY <1>3, <2>1, <2>4, <2>5
  <2>7. u = <<u[1], u[2]>> /\ v = <<v[1], v[2]>>
    BY <1>4
  <2> QED BY <2>6, <2>7, <2>5
<1>12. F \in Injection(U, T)
  <2>1. F \in [U -> T]
    <3>1. \A u \in U : F[u] \in T
      BY <1>10
    <3> HIDE DEF U, T
    <3> QED BY <3>1
  <2> HIDE DEF F, U, T
  <2> QED BY <1>11, <2>1 DEF Injection, IsInjective
<1>13. Cardinality(U) <= Cardinality(T)
  <2> HIDE DEF F, U, T
  <2> QED BY <1>6, <1>12, FS_Injection
<1> QED BY <1>6, <1>13

\* The queries a refusing window counted are those of the burst.
LEMMA BurstPassed ==
  ASSUME RateInv, NEW t \in Query, Is(t, "check"), Refused(t),
         NEW reach, reach = IF Full(t) THEN Window ELSE 2 * Window
  PROVE  Cardinality(During(passed[call[t].gen],
           (call[t].at - reach - MaxDelay + 1)..(call[t].at + MaxDelay))) >= Limit
<1> DEFINE P == passed[call[t].gen]
           w == Found(t)
           at == call[t].at
           S == (at - reach - MaxDelay + 1)..(at + MaxDelay)
<1>1. /\ w \in ClientWindow /\ P \in SUBSET Passage
      /\ WindowSound(w, P, Begin(call[t].gen), End(call[t].gen))
      /\ w.until = 0 => at < w.started + Window
      /\ w.until # 0 => w.until > at
      /\ \A q \in P : q.at <= at + MaxDelay
  BY FoundSound
<1>2. at \in Nat /\ w.started \in Nat /\ w.until \in Nat
  BY <1>1, RateTyped DEF ClientWindow, Time
<1>3. PICK Old \in SUBSET P : Split(P, w, Old, Begin(call[t].gen))
  BY <1>1 DEF WindowSound
<1>4. IsFiniteSet(P)
  BY <1>1 DEF WindowSound, Numbered
<1>5. Full(t) => w.until = 0 /\ w.count = Limit /\ reach = Window
  BY DEF Full
<1>6. ~Full(t) => w.until # 0 /\ reach = 2 * Window
  BY DEF Refused
<1> HIDE DEF w, P, at
<1>7. Cardinality(P \ Old) = Limit
  BY <1>3, <1>5, <1>6 DEF Split
<1>8. ASSUME NEW q \in P \ Old PROVE q.at \in S
  <2>1. q.at \in Nat /\ q.at <= at + MaxDelay
    BY <1>1 DEF Passage, Time
  <2>2. q.at >= at - reach - MaxDelay + 1
    <3>1. CASE Full(t)
      <4>1. q.at >= w.started - MaxDelay
        BY <1>3 DEF Split
      <4> QED BY <1>1, <1>2, <1>5, <2>1, <3>1, <4>1, Constants
    <3>2. CASE ~Full(t)
      <4>1. q.at > w.until - 2 * Window - MaxDelay
        BY <1>3, <1>6, <3>2 DEF Split
      <4> QED BY <1>1, <1>2, <1>6, <2>1, <3>2, <4>1, Constants
    <3> QED BY <3>1, <3>2
  <2>3. reach \in Nat
    BY <1>5, <1>6, Constants
  <2> QED BY <1>2, <2>1, <2>2, <2>3, Constants
<1> HIDE DEF S
<1>9. P \ Old \in SUBSET During(P, S) /\ During(P, S) \in SUBSET P
  BY <1>8 DEF During
<1>10. IsFiniteSet(During(P, S))
  BY <1>4, <1>9, PartSize
<1>11. Cardinality(P \ Old) <= Cardinality(During(P, S))
  BY <1>9, <1>10, PartSize
<1> QED BY <1>7, <1>11 DEF P, S, at

LEMMA RateInvHolds ==
  ASSUME RateInv
  PROVE  OnlyFloodersBlocked /\ DashboardAgrees
<1>1. OnlyFloodersBlocked
  BY BurstPassed DEF OnlyFloodersBlocked
<1>2. DashboardAgrees
  <2>1. Quiet => Updating = {}
    BY DEF Quiet, Updating, Is
  <2> QED BY <2>1 DEF RateInv, DashboardFollows, DashboardAgrees, Quarantined
<1> QED BY <1>1, <1>2

LEMMA RateAlways == RateSpec => []RateInv
<1>1. RateInit => RateInv
  BY StartsRate
<1>2. RateInv /\ [RateNext]_rateVars => RateInv'
  BY RateStep
<1> QED BY <1>1, <1>2, PTL DEF RateSpec

\* Type correctness of the rate guard of a client.
THEOREM RateGuardTyped == RateSpec => []RateTypeOK
<1>1. RateInv => RateTypeOK
  BY DEF RateInv
<1> QED BY <1>1, RateAlways, PTL

\* Whatever the limit, the window, and the number of queries in flight: all
\* windows the client has had together let at most two windows' worth of its
\* queries pass check_and_record in any span of a window less twice the delay
\* of a call, and one more for each time its window was dropped meanwhile, by
\* a release or an eviction; fixed counting windows, late counts, quarantines
\* and calls that still count in a dropped window included.
THEOREM RateIsBounded == RateSpec => []RateBound
<1>1. RateInv => RateBound
  BY BoundHolds
<1> QED BY <1>1, RateAlways, PTL

\* A client is refused only for a burst of Limit queries of its own.
THEOREM SlowClientsPass == RateSpec => []OnlyFloodersBlocked
<1>1. RateInv => OnlyFloodersBlocked
  BY RateInvHolds
<1> QED BY <1>1, RateAlways, PTL

\* When no call is under way and none overtook another, the dashboard's set
\* agrees with the window.
THEOREM DashboardIsRight == RateSpec => []DashboardAgrees
<1>1. RateInv => DashboardAgrees
  BY RateInvHolds
<1> QED BY <1>1, RateAlways, PTL
=============================================================================
