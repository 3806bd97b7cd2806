------------------------------ MODULE ActionRun ------------------------------
(***************************************************************************)
(* Requests that run actions, by their admission permits: the deadline     *)
(* over the whole request, the fewer permits of those that execute, the    *)
(* process group of an executable action with its time limit and its two   *)
(* signals, and the two calls of a webhook (start_action_server and        *)
(* action_admission of crates/daemon/src/web.rs, execute of actions.rs).   *)
(* Which version of an action runs is the matter of ActionStore; whether a *)
(* request is found, authorised and valid is a choice here, and so is what *)
(* the processes of a group do. The log of actions is left out.            *)
(***************************************************************************)
EXTENDS Integers, FiniteSets

CONSTANTS
  Slot,       \* permits of admission_limits (32)
  Executions, \* permits of execution_limits (8)
  Allowed,    \* of a whole request, in ticks (20 s)
  ShellLimit, \* of the direct child (15 s)
  Grace,      \* from SIGTERM to SIGKILL (100 ms)
  Reaping,    \* wait for a child that was killed (2 s)
  Resolving,  \* lookup of a webhook's host (5 s)
  Sending     \* request of a webhook (10 s)

ASSUME RunAssumption ==
  /\ IsFiniteSet(Slot) /\ Executions \in Nat \ {0}
  /\ {Allowed, ShellLimit, Grace, Reaping, Resolving, Sending} \subseteq Nat
  /\ ShellLimit + Grace < Allowed

VARIABLES
  run,   \* per permit: where its request is, its age, the ticks it has been
         \* there, its age when it spawned, and its live processes
  left   \* history: how requests ended that left live processes behind

runVars == <<run, left>>

NotRunning == [pc |-> "idle", age |-> 0, here |-> 0, spawned |-> 0, group |-> {}]

Place == {"idle", "body", "wait", "term", "kill", "reap", "resolve", "send"}

RunTypeOK ==
  /\ run \in [Slot -> [pc : Place, age : 0..Allowed, here : 0..Allowed,
                       spawned : 0..Allowed, group : SUBSET {"child", "other"}]]
  /\ left \subseteq {"done", "cut", "late", "gone"}

RunInit == run = [s \in Slot |-> NotRunning] /\ left = {}

-----------------------------------------------------------------------------
In(s, pc) == run[s].pc = pc
Executing == {s \in Slot : run[s].pc \notin {"idle", "body"}}

(* The request goes on at pc, with a group of processes.                   *)
Enter(s, pc, group) ==
  /\ run' = [run EXCEPT ![s].pc = pc, ![s].here = 0, ![s].group = group]
  /\ UNCHANGED left

(* The permits are released; what is still alive in the group is on its own*)
Ended(s, group, how) ==
  /\ run' = [run EXCEPT ![s] = NotRunning]
  /\ left' = IF group = {} THEN left ELSE left \cup {how}

(* Admission; the body is read and the action looked up.                   *)
AdmitRun(s) == In(s, "idle") /\ Enter(s, "body", {})

(* Unknown, not authorised, too many running, invalid, a page to show, or  *)
(* an executable that cannot be spawned.                                   *)
AnswerAtOnce(s) == In(s, "body") /\ Ended(s, {}, "done")

(* From the permit to the child nothing waits.                             *)
SpawnChild(s) ==
  /\ In(s, "body") /\ Cardinality(Executing) < Executions
  /\ run' = [run EXCEPT ![s].pc = "wait", ![s].here = 0, ![s].group = {"child"},
                        ![s].spawned = run[s].age]
  /\ UNCHANGED left

(* A look-up of the webhook's host, and its request; every failure ends it.*)
LookUpHost(s) ==
  In(s, "body") /\ Cardinality(Executing) < Executions /\ Enter(s, "resolve", {})
SendWebhook(s) == In(s, "resolve") /\ Enter(s, "send", {})
EndWebhook(s) == (In(s, "resolve") \/ In(s, "send")) /\ Ended(s, {}, "done")

-----------------------------------------------------------------------------
(* What processes do: start others, exit.                                  *)
Fork(s) ==
  /\ run[s].group # {} /\ "other" \notin run[s].group
  /\ run' = [run EXCEPT ![s].group = @ \cup {"other"}] /\ UNCHANGED left

ProcessExits(s, p) ==
  /\ p \in run[s].group
  /\ run' = [run EXCEPT ![s].group = @ \ {p}] /\ UNCHANGED left

(* Seeded defect: the group is left alone when its first process has exited.  *)
WaitedOnly(s) ==
  /\ In(s, "wait") /\ "child" \notin run[s].group
  /\ Ended(s, run[s].group, "done")

(* child.wait() has an answer, or fails while the child runs: in both cases*)
(* terminate_process_group sends SIGTERM, which a process may not obey.    *)
Waited(s) ==
  /\ In(s, "wait")
  /\ \E obeyed \in SUBSET run[s].group : Enter(s, "term", run[s].group \ obeyed)

OutOfTime(s) ==
  /\ In(s, "wait") /\ run[s].here = ShellLimit
  /\ \E obeyed \in SUBSET run[s].group : Enter(s, "kill", run[s].group \ obeyed)

(* SIGKILL, which all obey; a child that ran out of time is waited for.    *)
Kill(s) ==
  \/ In(s, "term") /\ Ended(s, {}, "done")
  \/ In(s, "kill") /\ Enter(s, "reap", {})

Reaped(s) == In(s, "reap") /\ Ended(s, {}, "done")

(* The handler is dropped where it waits: at the deadline, or because the  *)
(* client has closed the connection. kill_on_drop reaches the child alone. *)
Late(s) == run[s].spawned >= Allowed - ShellLimit - Grace

CutOff(s) ==
  /\ ~In(s, "idle") /\ run[s].age = Allowed
  /\ Ended(s, run[s].group \ {"child"}, IF Late(s) THEN "late" ELSE "cut")

ClientGone(s) ==
  ~In(s, "idle") /\ Ended(s, run[s].group \ {"child"}, "gone")

(* Timers are polled: none is missed by a tick.                            *)
TimeLimit(s) ==
  CASE In(s, "wait") -> ShellLimit
    [] In(s, "term") \/ In(s, "kill") -> Grace
    [] In(s, "reap") -> Reaping
    [] In(s, "resolve") -> Resolving
    [] In(s, "send") -> Sending
    [] OTHER -> Allowed

RunTick ==
  /\ \A s \in Slot : run[s].age < Allowed /\ run[s].here < TimeLimit(s)
  /\ run' = [s \in Slot |-> IF In(s, "idle") THEN run[s]
                            ELSE [run[s] EXCEPT !.age = @ + 1, !.here = @ + 1]]
  /\ UNCHANGED left

RunNext ==
  \/ \E s \in Slot :
       \/ AdmitRun(s) \/ AnswerAtOnce(s) \/ SpawnChild(s)
       \/ LookUpHost(s) \/ SendWebhook(s) \/ EndWebhook(s)
       \/ Fork(s) \/ \E p \in {"child", "other"} : ProcessExits(s, p)
       \/ Waited(s) \/ OutOfTime(s) \/ Kill(s) \/ Reaped(s)
       \/ CutOff(s) \/ ClientGone(s)
  \/ RunTick

RunSpec == RunInit /\ [][RunNext]_runVars

-----------------------------------------------------------------------------
(* "Always close the entire group before releasing the action request's    *)
(* concurrency permit": a request that ends by itself, or that the deadline*)
(* cuts off, leaves no process of its group behind, whatever the processes *)
(* do, if it spawned early enough for the limits to add up. The README     *)
(* tells of the two cases left out: the client hangs up, or body and       *)
(* look-up took almost five of the twenty seconds.                         *)
GroupsClosed == left \subseteq {"late", "gone"}
=============================================================================
