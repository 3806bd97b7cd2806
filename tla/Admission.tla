----------------------------- MODULE Admission ------------------------------
(***************************************************************************)
(* Admission of DNS queries: run, run_udp and run_tcp of DnsProxy          *)
(* (crates/daemon/src/proxy.rs), and the loop of crates/daemon/src/main.rs *)
(* that runs the listener again after a failure.                           *)
(*                                                                         *)
(* Three kinds of semaphores are taken without waiting.  Tasks give their  *)
(* permits back when they end, however they end.  The semaphore of a       *)
(* client lives in a cache, which may drop it while permits of it are out: *)
(* those permits then go back to a semaphore that nobody asks any more.    *)
(*                                                                         *)
(* Arrivals that change nothing are not actions: packets and connections   *)
(* from outside the local networks, overload that is not answered because  *)
(* the query cannot be parsed, and connections closed for want of a permit.*)
(***************************************************************************)
EXTENDS Integers, FiniteSets

CONSTANTS
  Client,       \* IP addresses
  Task,         \* slots for tasks; there is always a free one
  Global,       \* queries processed at once: 256 in the code
  Connections,  \* TCP connections: 128
  PerClient     \* UDP queries and TCP connections of one address: 32

ASSUME TaskAssumption ==
  IsFiniteSet(Task) /\ Cardinality(Task) >= Global + Connections
ASSUME ClientAssumption == Client # {}
ASSUME LimitAssumption ==
  /\ Global \in Nat \ {0}
  /\ Connections \in Nat \ {0}
  /\ PerClient \in Nat \ {0}

VARIABLES
  admission,    \* free permits of the three kinds
  connections,
  limits,       \* the semaphore in the cache, for each client; one that is
                \* not in the cache is created with all its permits
  tasks,        \* the JoinSets of both listeners
  listener      \* "receive"; "overloaded" or "refusing" while run_udp sends
                \* SERVFAIL, without or with a permit for the query; "down"

vars == <<admission, connections, limits, tasks, listener>>

Udp == {"udp"}
Tcp == {"read", "process", "write", "apologise"}

\* share: the task's permit of its client's semaphore, held of the one in the
\* cache or of one that was evicted.
TaskState == [pc : {"none"} \cup Udp \cup Tcp, client : Client,
              share : {"none", "held", "evicted"}, aborted : BOOLEAN]

NoTask == [pc |-> "none", client |-> CHOOSE c \in Client : TRUE,
           share |-> "none", aborted |-> FALSE]

NewTask(pc, c) == [pc |-> pc, client |-> c, share |-> "held", aborted |-> FALSE]

\* Tasks that hold a permit to process a query, a connection, or a share of c.
Working == {t \in Task : tasks[t].pc \in {"udp", "process", "write"}}
Connected == {t \in Task : tasks[t].pc \in Tcp}
Sharing(c) == {t \in Task : tasks[t].share = "held" /\ tasks[t].client = c}

TypeOK ==
  /\ admission \in 0..Global
  /\ connections \in 0..Connections
  /\ limits \in [Client -> 0..PerClient]
  /\ tasks \in [Task -> TaskState]
  /\ listener \in {"receive", "overloaded", "refusing", "down"}

Init ==
  /\ admission = Global
  /\ connections = Connections
  /\ limits = [c \in Client |-> PerClient]
  /\ tasks = [t \in Task |-> NoTask]
  /\ listener = "receive"

Free(t) == tasks[t].pc = "none"

\* A task runs on until it is aborted.
At(t, pc) == tasks[t].pc = pc /\ ~tasks[t].aborted

GoTo(t, pc) == tasks' = [tasks EXCEPT ![t].pc = pc]

-----------------------------------------------------------------------------
(* run_udp. *)

\* A query is taken on.
UdpAdmit(t, c) ==
  /\ listener = "receive" /\ Free(t)
  /\ admission > 0 /\ limits[c] > 0
  /\ admission' = admission - 1
  /\ limits' = [limits EXCEPT ![c] = @ - 1]
  /\ tasks' = [tasks EXCEPT ![t] = NewTask("udp", c)]
  /\ UNCHANGED <<connections, listener>>

\* All permits are out: the listener itself answers SERVFAIL.
UdpOverload ==
  /\ listener = "receive" /\ admission = 0
  /\ listener' = "overloaded"
  /\ UNCHANGED <<admission, connections, limits, tasks>>

\* The share of c is used up: the listener answers, keeping the permit it has
\* taken until the answer is sent.
UdpRefuse(c) ==
  /\ listener = "receive" /\ admission > 0 /\ limits[c] = 0
  /\ admission' = admission - 1
  /\ listener' = "refusing"
  /\ UNCHANGED <<connections, limits, tasks>>

UdpSent ==
  /\ listener \in {"overloaded", "refusing"}
  /\ listener' = "receive"
  /\ admission' = IF listener = "refusing" THEN admission + 1 ELSE admission
  /\ UNCHANGED <<connections, limits, tasks>>

-----------------------------------------------------------------------------
(* run_tcp. *)

\* Seeded defect: the client's permit is bound to "_" and dropped at once.
TcpAcceptUnshared(t, c) ==
  /\ listener # "down" /\ Free(t)
  /\ connections > 0 /\ limits[c] > 0
  /\ connections' = connections - 1
  /\ tasks' = [tasks EXCEPT ![t] = [NewTask("read", c) EXCEPT !.share = "none"]]
  /\ UNCHANGED <<admission, limits, listener>>

TcpAccept(t, c) ==
  /\ listener # "down" /\ Free(t)
  /\ connections > 0 /\ limits[c] > 0
  /\ connections' = connections - 1
  /\ limits' = [limits EXCEPT ![c] = @ - 1]
  /\ tasks' = [tasks EXCEPT ![t] = NewTask("read", c)]
  /\ UNCHANGED <<admission, listener>>

\* A frame was read: it is processed, or answered with SERVFAIL.
TcpFrame(t) ==
  /\ At(t, "read")
  /\ \/ admission > 0 /\ admission' = admission - 1 /\ GoTo(t, "process")
     \/ admission = 0 /\ GoTo(t, "apologise") /\ UNCHANGED admission
  /\ UNCHANGED <<connections, limits, listener>>

\* Whether or not the SERVFAIL could be written, the next frame is read.
TcpApologised(t) ==
  /\ At(t, "apologise")
  /\ GoTo(t, "read")
  /\ UNCHANGED <<admission, connections, limits, listener>>

TcpProcessed(t) ==
  /\ At(t, "process")
  /\ GoTo(t, "write")
  /\ UNCHANGED <<admission, connections, limits, listener>>

TcpWritten(t) ==
  /\ At(t, "write")
  /\ GoTo(t, "read")
  /\ admission' = admission + 1
  /\ UNCHANGED <<connections, limits, listener>>

-----------------------------------------------------------------------------
(* The end of tasks. *)

\* Seeded defect: a share goes back to the client's present semaphore.
ReleaseByAddress(t) ==
  /\ admission' = IF t \in Working THEN admission + 1 ELSE admission
  /\ connections' = IF t \in Connected THEN connections + 1 ELSE connections
  /\ limits' = [limits EXCEPT ![tasks[t].client] = @ + 1]
  /\ tasks' = [tasks EXCEPT ![t] = NoTask]
  /\ UNCHANGED listener

\* All permits of the task go back.
Release(t) ==
  /\ admission' = IF t \in Working THEN admission + 1 ELSE admission
  /\ connections' = IF t \in Connected THEN connections + 1 ELSE connections
  /\ limits' = IF tasks[t].share = "held"
               THEN [limits EXCEPT ![tasks[t].client] = @ + 1] ELSE limits
  /\ tasks' = [tasks EXCEPT ![t] = NoTask]
  /\ UNCHANGED listener

\* The query was processed, and answered if there was an answer.
UdpDone(t) == At(t, "udp") /\ Release(t)

\* Seeded defect: nothing ends a connection but silence between two frames.
TcpEndIdle(t) == At(t, "read") /\ Release(t)

\* The client closes or says nothing for 10 s, sends a frame that is too short
\* or has no answer, does not take the answer within 5 s; or 120 s have passed.
TcpEnd(t) == (\E pc \in Tcp : At(t, pc)) /\ Release(t)

\* A task that was aborted is dropped at its next turn.
Dropped(t) == tasks[t].aborted /\ Release(t)

\* The cache is full and drops a client's semaphore while permits are out.
Evict(c) ==
  /\ Sharing(c) # {}
  /\ limits' = [limits EXCEPT ![c] = PerClient]
  /\ tasks' = [t \in Task |-> IF t \in Sharing(c)
                              THEN [tasks[t] EXCEPT !.share = "evicted"]
                              ELSE tasks[t]]
  /\ UNCHANGED <<admission, connections, listener>>

-----------------------------------------------------------------------------
(* Failure and return of the listener. *)

\* Receiving or accepting fails.  Both loops are dropped, and their JoinSets
\* abort what runs.
Fail ==
  /\ listener # "down"
  /\ listener' = "down"
  /\ admission' = IF listener = "refusing" THEN admission + 1 ELSE admission
  /\ tasks' = [t \in Task |-> IF Free(t) THEN tasks[t]
                              ELSE [tasks[t] EXCEPT !.aborted = TRUE]]
  /\ UNCHANGED <<connections, limits>>

\* The supervisor tries every 2 s, with the same semaphores.  The UDP port can
\* be bound only when no task holds the old socket.
Rebind ==
  /\ listener = "down"
  /\ \A t \in Task : tasks[t].pc # "udp"
  /\ listener' = "receive"
  /\ UNCHANGED <<admission, connections, limits, tasks>>

-----------------------------------------------------------------------------
Ends(t) == UdpDone(t) \/ TcpEnd(t) \/ Dropped(t)

Next ==
  \/ \E t \in Task, c \in Client : UdpAdmit(t, c) \/ TcpAccept(t, c)
  \/ \E c \in Client : UdpRefuse(c) \/ Evict(c)
  \/ UdpOverload \/ UdpSent
  \/ \E t \in Task :
       TcpFrame(t) \/ TcpApologised(t) \/ TcpProcessed(t) \/ TcpWritten(t)
  \/ \E t \in Task : Ends(t)
  \/ Fail \/ Rebind

\* process() ends, by its own deadlines; a connection has 120 s; what is aborted
\* is dropped; the listener's answer is sent; binding is tried again and again.
Fairness ==
  /\ \A t \in Task : WF_vars(Ends(t))
  /\ WF_vars(UdpSent)
  /\ WF_vars(Rebind)

Spec == Init /\ [][Next]_vars /\ Fairness

-----------------------------------------------------------------------------
\* Every permit is free or with a task that is running, or with the listener's
\* present refusal: none is lost or given back twice by a failing exchange, an
\* idle or slow connection, a failure of the listener with all its tasks, or an
\* eviction (after which the new semaphore owes nothing to the old one).
PermitsAccounted ==
  /\ admission + Cardinality(Working) + (IF listener = "refusing" THEN 1 ELSE 0)
       = Global
  /\ connections + Cardinality(Connected) = Connections
  /\ \A c \in Client : limits[c] + Cardinality(Sharing(c)) = PerClient

\* No client is turned away because of its own load alone: when the permits for
\* queries, or those for connections, are used up, the tasks of other clients
\* hold all but one client's share of them, and all but the one that run_udp may
\* hold while it refuses.  This rests on a connection's queries being covered
\* by the share its client holds for the connection.  It does not hold for a
\* client whose semaphore was evicted while it was in use.
OverloadByOthers ==
  \A c \in Client :
    LET own == {t \in Task : tasks[t].client = c} IN
    (\A t \in own : tasks[t].share # "evicted") =>
      /\ admission = 0 =>
           Cardinality(Working \ own) + (IF listener = "refusing" THEN 1 ELSE 0)
             >= Global - PerClient
      /\ connections = 0 => Cardinality(Connected \ own) >= Connections - PerClient

\* Nothing stays exhausted: whatever clients send or leave unsent, permits of
\* each kind come free again, and the listener receives again, after sending a
\* refusal as after a failure.
ServiceReturns ==
  /\ []<>(admission > 0)
  /\ []<>(connections > 0)
  /\ \A c \in Client : []<>(limits[c] > 0)
  /\ []<>(listener = "receive")
=============================================================================
