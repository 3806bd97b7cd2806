-------------------------- MODULE ControlPlaneProofs --------------------------
(***************************************************************************)
(* Proofs about the parts of the control plane, each for its own           *)
(* specification: the processes that actions run (ActionRun), the cache of *)
(* actions (ActionStore), repeated alerts (TelegramAlerts), the saved      *)
(* settings beside the supervisor of Unbound (ResolverSupervisor), the     *)
(* replacement of a file (AtomicFile), and what the detector of fast flux  *)
(* forgets (FastFlux).                                                     *)
(***************************************************************************)
EXTENDS ActionRun, ActionStore, TelegramAlerts, ResolverSupervisor, AtomicFile,
        FastFlux, FiniteSetTheorems, TLAPS

-----------------------------------------------------------------------------
(* Action runs. A request has live processes only while it waits for its   *)
(* child or lets the group end, and how old it is then follows from its    *)
(* age when it spawned and the limits of the two phases.                   *)

Timed(r) ==
  /\ r.here <= r.age
  /\ r.pc \in {"idle", "body", "reap", "resolve", "send"} => r.group = {}
  /\ r.pc = "wait" => r.age = r.spawned + r.here /\ r.here <= ShellLimit
  /\ r.pc \in {"term", "kill"} =>
       r.age <= r.spawned + ShellLimit + r.here /\ r.here <= Grace

RunInv ==
  /\ RunTypeOK
  /\ \A s \in Slot : Timed(run[s])
  /\ GroupsClosed

RunRecord == [pc : Place, age : 0..Allowed, here : 0..Allowed,
              spawned : 0..Allowed, group : SUBSET {"child", "other"}]

(* One request takes a step: the others are as they were.                  *)
LEMMA OneRequest ==
  ASSUME RunInv, NEW s \in Slot, NEW r \in RunRecord, Timed(r),
         run' = [run EXCEPT ![s] = r],
         left' \subseteq {"late", "gone"}
  PROVE  RunInv'
<1>1. run \in [Slot -> RunRecord]
  BY DEF RunInv, RunTypeOK, RunRecord
<1>2. run' \in [Slot -> RunRecord]
  BY <1>1
<1>3. ASSUME NEW x \in Slot PROVE Timed(run'[x])
  <2>1. CASE x = s
    BY <2>1, <1>1
  <2>2. CASE x # s
    BY <2>2, <1>1 DEF RunInv
  <2> QED  BY <2>1, <2>2
<1>4. \A x \in Slot : Timed(run[x])'
  BY <1>3 DEF Timed
<1>5. GroupsClosed'
  BY DEF GroupsClosed
<1> QED  BY <1>2, <1>4, <1>5 DEF RunInv, RunTypeOK, RunRecord

LEMMA RunInitInv == RunInit => RunInv
<1> SUFFICES ASSUME RunInit PROVE RunInv
  OBVIOUS
<1>1. Allowed \in Nat
  BY RunAssumption
<1>2. NotRunning \in RunRecord /\ Timed(NotRunning)
  BY <1>1 DEF NotRunning, RunRecord, Timed, Place
<1> QED
  BY <1>2 DEF RunInit, RunInv, RunTypeOK, RunRecord, GroupsClosed

LEMMA FieldChanged ==
  ASSUME NEW r \in RunRecord
  PROVE  /\ \A pc \in Place : [r EXCEPT !.pc = pc] \in RunRecord
         /\ \A n \in 0..Allowed : /\ [r EXCEPT !.age = n] \in RunRecord
                                 /\ [r EXCEPT !.here = n] \in RunRecord
                                 /\ [r EXCEPT !.spawned = n] \in RunRecord
         /\ \A g \in SUBSET {"child", "other"} : [r EXCEPT !.group = g] \in RunRecord
BY DEF RunRecord

(* Going on elsewhere, and ending.                                         *)
LEMMA EnterKeeps ==
  ASSUME RunInv, NEW s \in Slot, NEW pc \in Place, NEW group \in SUBSET {"child", "other"},
         pc \in {"idle", "body", "reap", "resolve", "send"} => group = {},
         pc # "wait",
         pc \in {"term", "kill"} => In(s, "wait"),
         Enter(s, pc, group)
  PROVE  RunInv'
<1> DEFINE r1 == [run[s] EXCEPT !.pc = pc]
           r2 == [r1 EXCEPT !.here = 0]
           r3 == [r2 EXCEPT !.group = group]
           r == [run[s] EXCEPT !.pc = pc, !.here = 0, !.group = group]
<1>1. run[s] \in RunRecord /\ Timed(run[s]) /\ Allowed \in Nat /\ ShellLimit \in Nat /\ Grace \in Nat
  BY RunAssumption DEF RunInv, RunTypeOK, RunRecord
<1>2. r \in RunRecord
  <2>1. 0 \in 0..Allowed
    BY <1>1
  <2>2. r1 \in RunRecord
    BY <1>1, FieldChanged
  <2> HIDE DEF r1
  <2>3. r2 \in RunRecord
    BY <2>1, <2>2, FieldChanged
  <2> HIDE DEF r2
  <2>4. r3 \in RunRecord
    BY <2>3, FieldChanged
  <2>5. r = r3
    BY DEF r1, r2
  <2> QED  BY <2>4, <2>5
<1>3. r.pc = pc /\ r.here = 0 /\ r.group = group /\ r.age = run[s].age /\ r.spawned = run[s].spawned
  BY <1>1 DEF RunRecord
<1>4. run[s].age \in Nat /\ run[s].here \in Nat /\ run[s].spawned \in Nat
  BY <1>1 DEF RunRecord
<1>5. Timed(r)
  BY <1>1, <1>3, <1>4 DEF Timed, In
<1>6. run' = [run EXCEPT ![s] = r]
  BY DEF Enter
<1>7. left' \subseteq {"late", "gone"}
  BY DEF Enter, RunInv, GroupsClosed
<1> QED  BY <1>2, <1>5, <1>6, <1>7, OneRequest

LEMMA EndedKeeps ==
  ASSUME RunInv, NEW s \in Slot, NEW group, NEW how,
         group = {} \/ how \in {"late", "gone"}, Ended(s, group, how)
  PROVE  RunInv'
<1>1. Allowed \in Nat
  BY RunAssumption
<1>2. NotRunning \in RunRecord /\ Timed(NotRunning)
  BY <1>1 DEF NotRunning, RunRecord, Timed, Place
<1>3. left' \subseteq {"late", "gone"}
  BY DEF Ended, RunInv, GroupsClosed
<1> QED  BY <1>2, <1>3, OneRequest DEF Ended

LEMMA ChildKeeps ==
  ASSUME RunInv, NEW s \in Slot, SpawnChild(s)
  PROVE  RunInv'
<1> DEFINE r1 == [run[s] EXCEPT !.pc = "wait"]
           r2 == [r1 EXCEPT !.here = 0]
           r3 == [r2 EXCEPT !.group = {"child"}]
           r4 == [r3 EXCEPT !.spawned = run[s].age]
           r == [run[s] EXCEPT !.pc = "wait", !.here = 0, !.group = {"child"},
                               !.spawned = run[s].age]
<1>1. run[s] \in RunRecord /\ Allowed \in Nat /\ ShellLimit \in Nat
  BY RunAssumption DEF RunInv, RunTypeOK, RunRecord
<1>2. r \in RunRecord
  <2>1. 0 \in 0..Allowed /\ run[s].age \in 0..Allowed /\ "wait" \in Place
    BY <1>1 DEF RunRecord, Place
  <2>2. r1 \in RunRecord
    BY <1>1, <2>1, FieldChanged
  <2> HIDE DEF r1
  <2>3. r2 \in RunRecord
    BY <2>1, <2>2, FieldChanged
  <2> HIDE DEF r2
  <2>4. r3 \in RunRecord
    BY <2>3, FieldChanged
  <2> HIDE DEF r3
  <2>5. r4 \in RunRecord
    BY <2>1, <2>4, FieldChanged
  <2>6. r = r4
    BY DEF r1, r2, r3
  <2> QED  BY <2>5, <2>6
<1>3. r.pc = "wait" /\ r.here = 0 /\ r.age = run[s].age /\ r.spawned = run[s].age
      /\ run[s].age \in Nat
  BY <1>1 DEF RunRecord
<1>4. Timed(r)
  BY <1>1, <1>3 DEF Timed
<1>5. run' = [run EXCEPT ![s] = r]
  BY DEF SpawnChild
<1>6. left' \subseteq {"late", "gone"}
  BY DEF SpawnChild, RunInv, GroupsClosed
<1> QED  BY <1>2, <1>4, <1>5, <1>6, OneRequest

(* Processes start and exit: only the group changes, where there is one.   *)
LEMMA GroupKeeps ==
  ASSUME RunInv, NEW s \in Slot, NEW group \in SUBSET {"child", "other"},
         run[s].group # {}, run' = [run EXCEPT ![s].group = group], UNCHANGED left
  PROVE  RunInv'
<1> DEFINE r == [run[s] EXCEPT !.group = group]
<1>1. run[s] \in RunRecord /\ Timed(run[s])
  BY DEF RunInv, RunTypeOK, RunRecord
<1>2. r \in RunRecord
  BY <1>1 DEF RunRecord
<1>3. r.pc = run[s].pc /\ r.here = run[s].here /\ r.age = run[s].age /\ r.spawned = run[s].spawned
  BY <1>1 DEF RunRecord
<1>4. Timed(r)
  BY <1>1, <1>3 DEF Timed
<1>5. run' = [run EXCEPT ![s] = r]
  OBVIOUS
<1>6. left' \subseteq {"late", "gone"}
  BY DEF RunInv, GroupsClosed
<1> QED  BY <1>2, <1>4, <1>5, <1>6, OneRequest

(* At the deadline the limits have either run out, or the spawn was late.  *)
LEMMA CutOffKeeps ==
  ASSUME RunInv, NEW s \in Slot, CutOff(s)
  PROVE  RunInv'
<1>1. run[s] \in RunRecord /\ Timed(run[s]) /\ run[s].age = Allowed
  BY DEF RunInv, RunTypeOK, RunRecord, CutOff
<1>2. /\ Allowed \in Nat /\ ShellLimit \in Nat /\ Grace \in Nat /\ ShellLimit + Grace < Allowed
      /\ run[s].spawned \in Nat /\ run[s].here \in Nat
  BY <1>1, RunAssumption DEF RunRecord
<1>3. CASE Late(s)
  <2>1. Ended(s, run[s].group \ {"child"}, "late")
    BY <1>3 DEF CutOff
  <2> QED  BY <2>1, EndedKeeps
<1>4. CASE ~Late(s)
  <2>1. run[s].spawned < Allowed - ShellLimit - Grace
    BY <1>2, <1>4 DEF Late
  <2>2. run[s].pc \notin {"wait", "term", "kill"}
    BY <1>1, <1>2, <2>1 DEF Timed
  <2>3. run[s].group = {}
    BY <1>1, <2>2 DEF Timed, RunRecord, Place
  <2>4. run[s].group \ {"child"} = {}
    BY <2>3
  <2>5. Ended(s, run[s].group \ {"child"}, "cut")
    BY <1>4 DEF CutOff
  <2> QED  BY <2>4, <2>5, EndedKeeps
<1> QED  BY <1>3, <1>4

LEMMA TickKeeps ==
  ASSUME RunInv, RunTick
  PROVE  RunInv'
<1> DEFINE grown(s) == [run[s] EXCEPT !.age = run[s].age + 1]
           older(s) == [run[s] EXCEPT !.age = run[s].age + 1, !.here = run[s].here + 1]
<1>1. /\ {Allowed, ShellLimit, Grace} \subseteq Nat
  BY RunAssumption
<1>2. run' = [s \in Slot |-> IF In(s, "idle") THEN run[s] ELSE older(s)]
  BY DEF RunTick
<1>3. ASSUME NEW s \in Slot PROVE run'[s] \in RunRecord /\ Timed(run'[s])
  <2>1. run[s] \in RunRecord /\ Timed(run[s]) /\ run[s].age < Allowed /\ run[s].here < TimeLimit(s)
    BY DEF RunInv, RunTypeOK, RunRecord, RunTick
  <2>2. run[s].age \in Nat /\ run[s].here \in Nat /\ run[s].spawned \in Nat /\ run[s].here <= run[s].age
    BY <2>1 DEF RunRecord, Timed
  <2>3. CASE In(s, "idle")
    BY <1>2, <2>1, <2>3
  <2>4. CASE ~In(s, "idle")
    <3>1. run'[s] = older(s)
      BY <1>2, <2>4
    <3>2. older(s) \in RunRecord
      <4>1. run[s].age + 1 \in 0..Allowed /\ run[s].here + 1 \in 0..Allowed
        BY <1>1, <2>1, <2>2
      <4>2. grown(s) \in RunRecord
        BY <2>1, <4>1, FieldChanged
      <4>3. [grown(s) EXCEPT !.here = run[s].here + 1] \in RunRecord
        <5> HIDE DEF grown
        <5> QED  BY <4>1, <4>2, FieldChanged
      <4>4. older(s) = [grown(s) EXCEPT !.here = run[s].here + 1]
        OBVIOUS
      <4> QED  BY <4>3, <4>4
    <3>3. /\ older(s).pc = run[s].pc /\ older(s).group = run[s].group
          /\ older(s).spawned = run[s].spawned
          /\ older(s).age = run[s].age + 1 /\ older(s).here = run[s].here + 1
      BY <2>1 DEF RunRecord
    <3>4. /\ run[s].pc = "wait" => run[s].here < ShellLimit
          /\ run[s].pc \in {"term", "kill"} => run[s].here < Grace
      BY <2>1 DEF TimeLimit, In
    <3>5. Timed(older(s))
      BY <1>1, <2>1, <2>2, <3>3, <3>4 DEF Timed
    <3> QED  BY <3>1, <3>2, <3>5
  <2> QED  BY <2>3, <2>4
<1>4. run' \in [Slot -> RunRecord]
  <2>1. DOMAIN run' = Slot /\ run' = [s \in Slot |-> run'[s]]
    BY <1>2
  <2> QED  BY <1>3, <2>1
<1>5. \A s \in Slot : Timed(run[s])'
  BY <1>3 DEF Timed
<1>6. left' = left
  BY DEF RunTick
<1> QED  BY <1>4, <1>5, <1>6 DEF RunInv, RunTypeOK, RunRecord, GroupsClosed

LEMMA RunNextInv == RunInv /\ [RunNext]_runVars => RunInv'
<1> SUFFICES ASSUME RunInv, [RunNext]_runVars PROVE RunInv'
  OBVIOUS
<1>1. ASSUME NEW s \in Slot, AdmitRun(s) PROVE RunInv'
  BY <1>1, EnterKeeps DEF AdmitRun, Place
<1>2. ASSUME NEW s \in Slot, AnswerAtOnce(s) \/ EndWebhook(s) \/ Reaped(s) PROVE RunInv'
  BY <1>2, EndedKeeps DEF AnswerAtOnce, EndWebhook, Reaped
<1>3. ASSUME NEW s \in Slot, SpawnChild(s) PROVE RunInv'
  BY <1>3, ChildKeeps
<1>4. ASSUME NEW s \in Slot, LookUpHost(s) \/ SendWebhook(s) PROVE RunInv'
  BY <1>4, EnterKeeps DEF LookUpHost, SendWebhook, Place
<1>5. ASSUME NEW s \in Slot, Fork(s) PROVE RunInv'
  <2>1. run[s].group \cup {"other"} \in SUBSET {"child", "other"}
    BY DEF RunInv, RunTypeOK
  <2>2. run' = [run EXCEPT ![s].group = run[s].group \cup {"other"}]
    BY <1>5 DEF Fork
  <2> QED  BY <1>5, <2>1, <2>2, GroupKeeps DEF Fork
<1>6. ASSUME NEW s \in Slot, NEW p \in {"child", "other"}, ProcessExits(s, p) PROVE RunInv'
  <2>1. run[s].group \ {p} \in SUBSET {"child", "other"}
    BY DEF RunInv, RunTypeOK
  <2>2. run' = [run EXCEPT ![s].group = run[s].group \ {p}]
    BY <1>6 DEF ProcessExits
  <2> QED  BY <1>6, <2>1, <2>2, GroupKeeps DEF ProcessExits
<1>7. ASSUME NEW s \in Slot, Waited(s) \/ OutOfTime(s) PROVE RunInv'
  <2>1. run[s].group \in SUBSET {"child", "other"}
    BY DEF RunInv, RunTypeOK
  <2>2. PICK pc \in {"term", "kill"}, obeyed \in SUBSET run[s].group :
            In(s, "wait") /\ Enter(s, pc, run[s].group \ obeyed)
    BY <1>7 DEF Waited, OutOfTime
  <2>3. run[s].group \ obeyed \in SUBSET {"child", "other"}
    BY <2>1
  <2> QED  BY <2>2, <2>3, EnterKeeps DEF Place
<1>8. ASSUME NEW s \in Slot, Kill(s) PROVE RunInv'
  <2>1. CASE Ended(s, {}, "done")
    BY <2>1, EndedKeeps
  <2>2. CASE Enter(s, "reap", {})
    BY <2>2, EnterKeeps DEF Place
  <2> QED  BY <1>8, <2>1, <2>2 DEF Kill
<1>9. ASSUME NEW s \in Slot, CutOff(s) PROVE RunInv'
  BY <1>9, CutOffKeeps
<1>10. ASSUME NEW s \in Slot, ClientGone(s) PROVE RunInv'
  BY <1>10, EndedKeeps DEF ClientGone
<1>11. ASSUME RunTick PROVE RunInv'
  BY <1>11, TickKeeps
<1>12. ASSUME UNCHANGED runVars PROVE RunInv'
  BY <1>12 DEF runVars, RunInv, RunTypeOK, GroupsClosed, Timed
<1> QED
  BY <1>1, <1>2, <1>3, <1>4, <1>5, <1>6, <1>7, <1>8, <1>9, <1>10, <1>11, <1>12 DEF RunNext

(* Whatever the processes of an action do, and whatever the limits are as  *)
(* long as the child's and the grace fit into the request's: an executable *)
(* action that spawned in time leaves nothing of its group behind when its *)
(* permit is released, unless its client hung up meanwhile (execute,       *)
(* "Always close the entire group").                                       *)
THEOREM GroupsStayClosed == RunSpec => []GroupsClosed
<1>1. RunInv => GroupsClosed
  BY DEF RunInv
<1> QED  BY <1>1, RunInitInv, RunNextInv, PTL DEF RunSpec

(* Permits, ages and groups keep their types.                              *)
THEOREM RunTypeCorrect == RunSpec => []RunTypeOK
<1>1. RunInv => RunTypeOK
  BY DEF RunInv
<1> QED  BY <1>1, RunInitInv, RunNextInv, PTL DEF RunSpec

-----------------------------------------------------------------------------
(* Repeated alerts. Callers that found an alert absent at the same time    *)
(* all hold permits; once the first of them has put it into the cache, the *)
(* copies passed on at this moment and those still to come do not grow,    *)
(* until the alert is evicted. Each eviction opens the cache once more.    *)

Inserting(a) == {c \in Caller : CallerAt(c, "insert") /\ caller[c].alert = a}

(* As many copies as permits for each of e rounds.                         *)
Fits(copies, e) == copies <= Permits * e

Quieted(a) ==
  /\ Fits(passed[a][moment] + Cardinality(Inserting(a)), 1 + evicted[a][moment])
  /\ ~InCache(a) => Fits(passed[a][moment], evicted[a][moment])
  /\ Inserting(a) # {} /\ InCache(a) => recent[a] = moment
  /\ \A m \in 0..LastMoment :
       /\ passed[a][m] > 0 => /\ m <= moment
                              /\ \/ recent[a] # Absent /\ m <= recent[a]
                                 \/ \E t \in m..moment : evicted[a][t] > 0
       /\ m > moment => evicted[a][m] = 0
  /\ recent[a] # Absent => passed[a][recent[a]] > 0

AlertInv ==
  /\ AlertTypeOK
  /\ Cardinality(Holding) <= Permits
  /\ \A a \in Alert : Quieted(a)
  /\ CopiesBounded

LEMMA CallersFinite ==
  /\ IsFiniteSet(Holding) /\ Cardinality(Holding) \in Nat
  /\ \A a : /\ IsFiniteSet(Inserting(a)) /\ Cardinality(Inserting(a)) \in Nat
            /\ Cardinality(Inserting(a)) <= Cardinality(Holding)
<1>1. IsFiniteSet(Caller)
  BY AlertAssumption
<1>2. IsFiniteSet(Holding)
  BY <1>1, FS_Subset DEF Holding
<1>3. ASSUME NEW a
      PROVE  /\ IsFiniteSet(Inserting(a))
             /\ Cardinality(Inserting(a)) <= Cardinality(Holding)
  <2>1. Inserting(a) \in SUBSET Holding
    BY DEF Inserting, Holding, CallerAt
  <2> QED  BY <1>2, <2>1, FS_Subset
<1> QED  BY <1>2, <1>3, FS_CardinalityType

LEMMA Fitting ==
  ASSUME NEW i \in Nat, NEW k \in Nat, NEW e \in Nat, Fits(i, e)
  PROVE  /\ k <= Permits => Fits(i + k, 1 + e)
         /\ k <= i => Fits(k, e)
<1>1. PICK x \in Nat : x = Permits * e /\ Permits \in Nat
  BY AlertAssumption
<1>2. Permits * (1 + e) = x + Permits
  BY <1>1
<1>3. i <= x
  BY <1>1 DEF Fits
<1>4. ASSUME k <= Permits PROVE Fits(i + k, 1 + e)
  <2>1. i + k <= x + Permits
    BY <1>1, <1>3, <1>4
  <2> QED  BY <1>2, <2>1 DEF Fits
<1>5. ASSUME k <= i PROVE Fits(k, e)
  <2>1. k <= x
    BY <1>1, <1>3, <1>5
  <2> QED  BY <1>1, <2>1 DEF Fits
<1> QED  BY <1>4, <1>5

LEMMA NoneFits == Fits(0, 0) /\ Fits(0, 1 + 0)
<1>1. Permits \in Nat
  BY AlertAssumption
<1>2. Permits * 0 = 0 /\ Permits * (1 + 0) = Permits
  BY <1>1
<1> QED  BY <1>1, <1>2 DEF Fits

LEMMA RestingType ==
  Resting \in [pc : {"idle", "check", "insert", "send"}, alert : Alert]
BY AlertAssumption DEF Resting

LEMMA AlertInitInv == AlertInit => AlertInv
<1> SUFFICES ASSUME AlertInit PROVE AlertInv
  OBVIOUS
<1>1. moment = 0 /\ LastMoment \in Nat /\ Permits \in Nat
  BY AlertAssumption DEF AlertInit
<1>2. AlertTypeOK
  BY <1>1, RestingType DEF AlertInit, AlertTypeOK, Absent
<1>3. \A c \in Caller : caller[c].pc = "idle"
  BY DEF AlertInit, Resting
<1>4. Holding = {} /\ \A a : Inserting(a) = {}
  BY <1>3 DEF Holding, Inserting, CallerAt
<1>5. \A a \in Alert : /\ recent[a] = Absent
                       /\ \A m \in 0..LastMoment : passed[a][m] = 0 /\ evicted[a][m] = 0
  BY DEF AlertInit
<1>6. Cardinality({}) = 0
  BY FS_EmptySet
<1>7. ASSUME NEW a \in Alert PROVE Quieted(a)
  <2>0. moment \in 0..LastMoment /\ Inserting(a) = {}
    BY <1>1, <1>4
  <2>1. Cardinality(Inserting(a)) = 0 /\ passed[a][moment] = 0 /\ evicted[a][moment] = 0
    BY <2>0, <1>5, <1>6
  <2>2. passed[a][moment] + Cardinality(Inserting(a)) = 0
    BY <2>1
  <2>3. /\ Fits(passed[a][moment] + Cardinality(Inserting(a)), 1 + evicted[a][moment])
        /\ Fits(passed[a][moment], evicted[a][moment])
    BY <2>1, <2>2, NoneFits
  <2>4. \A m \in 0..LastMoment : ~(passed[a][m] > 0) /\ evicted[a][m] = 0
    BY <1>5
  <2> QED  BY <1>4, <1>5, <2>3, <2>4 DEF Quieted
<1>8. CopiesBounded
  <2>1. ASSUME NEW a \in Alert, NEW m \in 0..LastMoment
        PROVE  passed[a][m] <= Permits * (1 + evicted[a][m]) /\ ~(passed[a][m] > 0)
    <3>1. passed[a][m] = 0 /\ evicted[a][m] = 0
      BY <1>5
    <3> QED  BY <3>1, NoneFits DEF Fits
  <2> QED  BY <2>1 DEF CopiesBounded
<1> QED  BY <1>1, <1>2, <1>4, <1>6, <1>7, <1>8 DEF AlertInv

(* Callers move, the cache and what was passed on stay: nobody comes to    *)
(* insert an alert that the cache has.                                     *)
LEMMA CallersMove ==
  ASSUME AlertInv, UNCHANGED <<moment, recent, passed, evicted>>,
         caller' \in [Caller -> [pc : {"idle", "check", "insert", "send"}, alert : Alert]],
         Cardinality(Holding') <= Permits,
         \A a \in Alert : Inserting(a)' \subseteq Inserting(a) \/ ~InCache(a)
  PROVE  AlertInv'
<1>1. /\ moment \in 0..LastMoment /\ LastMoment \in Nat
      /\ Permits \in Nat /\ Silence \in Nat \ {0}
      /\ recent \in [Alert -> {Absent} \cup (0..moment)]
      /\ passed \in [Alert -> [0..LastMoment -> Nat]]
      /\ evicted \in [Alert -> [0..LastMoment -> Nat]]
  BY AlertAssumption DEF AlertInv, AlertTypeOK
<1>2. AlertTypeOK'
  BY DEF AlertInv, AlertTypeOK
<1>3. CopiesBounded'
  BY DEF AlertInv, CopiesBounded
<1>4. ASSUME NEW a \in Alert PROVE Quieted(a)'
  <2>1. Quieted(a) /\ recent[a] \in {Absent} \cup (0..moment) /\ (InCache(a)' <=> InCache(a))
    BY <1>1 DEF AlertInv, InCache
  <2>2. /\ Cardinality(Inserting(a)) \in Nat /\ IsFiniteSet(Inserting(a))
        /\ Cardinality(Inserting(a)') \in Nat
        /\ Cardinality(Inserting(a)') <= Cardinality(Holding')
        /\ Cardinality(Holding') \in Nat
    <3>1. CallersFinite'
      BY CallersFinite, PTL
    <3> QED  BY <3>1, CallersFinite
  <2>5. PICK p \in Nat, e \in Nat : p = passed[a][moment] /\ e = evicted[a][moment]
    BY <1>1
  <2>6. PICK i \in Nat, j \in Nat : i = Cardinality(Inserting(a)) /\ j = Cardinality(Inserting(a)')
    BY <2>2
  <2>7. Fits(p + j, 1 + e)
    <3>1. CASE Inserting(a)' \subseteq Inserting(a)
      <4>1. j <= i
        BY <2>2, <2>6, <3>1, FS_Subset
      <4>2. Fits(p + i, 1 + e)
        BY <2>1, <2>5, <2>6 DEF Quieted
      <4>3. p + j \in Nat /\ p + i \in Nat /\ p + j <= p + i /\ 1 + e \in Nat
        BY <4>1
      <4> QED  BY <4>2, <4>3, Fitting
    <3>2. CASE ~InCache(a)
      <4>1. Fits(p, e)
        BY <2>1, <2>5, <3>2 DEF Quieted
      <4>2. j <= Permits
        BY <1>1, <2>2, <2>6
      <4> QED  BY <4>1, <4>2, Fitting
    <3> QED  BY <3>1, <3>2
  <2>8. Inserting(a)' # {} /\ InCache(a) => recent[a] = moment
    BY <2>1 DEF Quieted
  <2> QED  BY <2>1, <2>5, <2>6, <2>7, <2>8 DEF Quieted
<1> QED  BY <1>2, <1>3, <1>4 DEF AlertInv

LEMMA RaiseKeeps ==
  ASSUME AlertInv, NEW c \in Caller, NEW a \in Alert, Raise(c, a)
  PROVE  AlertInv'
<1>1. caller \in [Caller -> [pc : {"idle", "check", "insert", "send"}, alert : Alert]]
  BY DEF AlertInv, AlertTypeOK
<1>2. caller' = [caller EXCEPT ![c] = [pc |-> "check", alert |-> a]]
  BY DEF Raise
<1>3. caller' \in [Caller -> [pc : {"idle", "check", "insert", "send"}, alert : Alert]]
  BY <1>1, <1>2
<1>4. \A x \in Caller : caller'[x] = IF x = c THEN [pc |-> "check", alert |-> a] ELSE caller[x]
  BY <1>1, <1>2
<1>5. \A x : Inserting(x)' \subseteq Inserting(x)
  BY <1>4 DEF Inserting, CallerAt
<1>6. Holding' = Holding \cup {c}
  BY <1>4 DEF Holding, CallerAt
<1>7. Cardinality(Holding') <= Permits
  <2>0. Cardinality(Holding \cup {c}) =
          IF c \in Holding THEN Cardinality(Holding) ELSE Cardinality(Holding) + 1
    BY CallersFinite, FS_AddElement
  <2>1. Cardinality(Holding') <= Cardinality(Holding) + 1
    BY <1>6, <2>0, CallersFinite
  <2>2. Cardinality(Holding) < Permits
    BY DEF Raise
  <2>3. Cardinality(Holding') \in Nat
    BY <1>6, CallersFinite, FS_AddElement, FS_CardinalityType
  <2> QED  BY <2>1, <2>2, <2>3, CallersFinite, AlertAssumption
<1> QED  BY <1>3, <1>5, <1>7, CallersMove DEF Raise

LEMMA CheckKeeps ==
  ASSUME AlertInv, NEW c \in Caller, Check(c)
  PROVE  AlertInv'
<1>1. caller \in [Caller -> [pc : {"idle", "check", "insert", "send"}, alert : Alert]]
  BY DEF AlertInv, AlertTypeOK
<1> DEFINE a == caller[c].alert
           next == IF InCache(a) THEN Resting ELSE [caller[c] EXCEPT !.pc = "insert"]
<1>2. caller' = [caller EXCEPT ![c] = next]
  BY DEF Check
<1>3. next \in [pc : {"idle", "check", "insert", "send"}, alert : Alert]
  BY <1>1, RestingType
<1>4. next.pc # "insert" \/ (next.alert = a /\ ~InCache(a))
  <2>1. CASE InCache(a)
    BY <2>1 DEF Resting
  <2>2. CASE ~InCache(a)
    <3>1. [caller[c] EXCEPT !.pc = "insert"].alert = a
      BY <1>1
    <3> QED  BY <2>2, <3>1
  <2> QED  BY <2>1, <2>2
<1> HIDE DEF next
<1>5. caller' \in [Caller -> [pc : {"idle", "check", "insert", "send"}, alert : Alert]]
  BY <1>1, <1>2, <1>3
<1>6. \A x \in Caller : caller'[x] = IF x = c THEN next ELSE caller[x]
  BY <1>1, <1>2
<1>7. \A x \in Alert : Inserting(x)' \subseteq Inserting(x) \/ ~InCache(x)
  BY <1>4, <1>6 DEF Inserting, CallerAt
<1>8. Holding' \subseteq Holding
  BY <1>6 DEF Holding, CallerAt, Check
<1>9. Cardinality(Holding') <= Permits
  <2>1. /\ Cardinality(Holding') <= Cardinality(Holding)
        /\ IsFiniteSet(Holding')
    BY <1>8, CallersFinite, FS_Subset
  <2>2. Cardinality(Holding') \in Nat
    BY <2>1, FS_CardinalityType
  <2> QED  BY <2>1, <2>2, CallersFinite, AlertAssumption DEF AlertInv
<1> QED  BY <1>5, <1>7, <1>9, CallersMove DEF Check

LEMMA SendAlertKeeps ==
  ASSUME AlertInv, NEW c \in Caller, SendAlert(c)
  PROVE  AlertInv'
<1>1. caller \in [Caller -> [pc : {"idle", "check", "insert", "send"}, alert : Alert]]
  BY DEF AlertInv, AlertTypeOK
<1>2. caller' \in [Caller -> [pc : {"idle", "check", "insert", "send"}, alert : Alert]]
  BY <1>1, RestingType DEF SendAlert
<1>3. \A x \in Caller : caller'[x].pc = IF x = c THEN "idle" ELSE caller[x].pc
  BY <1>1 DEF SendAlert, Resting
<1>4. \A x \in Caller : x # c => caller'[x] = caller[x]
  BY <1>1 DEF SendAlert
<1>5. \A x : Inserting(x)' \subseteq Inserting(x)
  BY <1>3, <1>4 DEF Inserting, CallerAt
<1>6. Holding' \subseteq Holding
  BY <1>3 DEF Holding, CallerAt
<1>7. Cardinality(Holding') <= Permits
  <2>1. /\ Cardinality(Holding') <= Cardinality(Holding)
        /\ IsFiniteSet(Holding')
    BY <1>6, CallersFinite, FS_Subset
  <2>2. Cardinality(Holding') \in Nat
    BY <2>1, FS_CardinalityType
  <2> QED  BY <2>1, <2>2, CallersFinite, AlertAssumption DEF AlertInv
<1> QED  BY <1>2, <1>5, <1>7, CallersMove DEF SendAlert

LEMMA RememberKeeps ==
  ASSUME AlertInv, NEW c \in Caller, Remember(c)
  PROVE  AlertInv'
<1>0. PICK a \in Alert : a = caller[c].alert
  BY DEF AlertInv, AlertTypeOK
<1>1. /\ moment \in 0..LastMoment /\ LastMoment \in Nat
      /\ Permits \in Nat /\ Silence \in Nat \ {0}
      /\ caller \in [Caller -> [pc : {"idle", "check", "insert", "send"}, alert : Alert]]
      /\ recent \in [Alert -> {Absent} \cup (0..moment)]
      /\ passed \in [Alert -> [0..LastMoment -> Nat]]
      /\ evicted \in [Alert -> [0..LastMoment -> Nat]]
      /\ a \in Alert /\ moment' = moment /\ evicted' = evicted /\ c \in Inserting(a)
  BY <1>0, AlertAssumption DEF AlertInv, AlertTypeOK, Remember, Inserting
<1>2. recent' = [recent EXCEPT ![a] = moment]
  BY <1>0 DEF Remember
<1>3. /\ passed' \in [Alert -> [0..LastMoment -> Nat]]
      /\ \A m \in 0..LastMoment :
           passed'[a][m] = IF m = moment THEN passed[a][m] + 1 ELSE passed[a][m]
      /\ \A x \in Alert : x # a => passed'[x] = passed[x]
  <2>1. passed' = [passed EXCEPT ![a] = [passed[a] EXCEPT ![moment] = passed[a][moment] + 1]]
    BY <1>0 DEF Remember
  <2>2. /\ passed[a] \in [0..LastMoment -> Nat] /\ moment \in 0..LastMoment
        /\ passed[a][moment] + 1 \in Nat
    BY <1>1
  <2>3. [passed[a] EXCEPT ![moment] = passed[a][moment] + 1] \in [0..LastMoment -> Nat]
    BY <2>2
  <2> QED  BY <1>1, <2>1, <2>2, <2>3
<1>4. /\ caller' \in [Caller -> [pc : {"idle", "check", "insert", "send"}, alert : Alert]]
      /\ \A x \in Caller : /\ caller'[x].pc = IF x = c THEN "send" ELSE caller[x].pc
                           /\ caller'[x].alert = caller[x].alert
  BY <1>1 DEF Remember
<1>5. AlertTypeOK'
  <2>1. recent' \in [Alert -> {Absent} \cup (0..moment)]
    BY <1>1, <1>2
  <2> QED  BY <1>1, <1>3, <1>4, <2>1 DEF AlertTypeOK
<1>6. Holding' = Holding
  BY <1>1, <1>4 DEF Holding, Inserting, CallerAt
<1>7. \A x \in Alert : /\ x # a => Inserting(x)' = Inserting(x)
                       /\ Inserting(a)' = Inserting(a) \ {c}
  BY <1>0, <1>1, <1>4 DEF Inserting, CallerAt
<1>8. /\ Cardinality(Inserting(a)) \in Nat /\ Cardinality(Inserting(a)') \in Nat
      /\ Cardinality(Inserting(a)') = Cardinality(Inserting(a)) - 1
  <2>1. IsFiniteSet(Inserting(a)) /\ Cardinality(Inserting(a)) \in Nat
    BY CallersFinite
  <2>2. Cardinality(Inserting(a) \ {c}) = Cardinality(Inserting(a)) - 1
    BY <1>1, <2>1, FS_RemoveElement
  <2>3. Cardinality(Inserting(a) \ {c}) \in Nat
    BY <2>1, FS_RemoveElement, FS_CardinalityType
  <2> QED  BY <1>1, <1>7, <2>1, <2>2, <2>3
<1>9. Quieted(a) /\ recent[a] \in {Absent} \cup (0..moment)
  BY <1>1 DEF AlertInv
<1>10. PICK p \in Nat, e \in Nat, j \in Nat :
         /\ p = passed[a][moment] /\ e = evicted[a][moment]
         /\ j = Cardinality(Inserting(a)')
  BY <1>1, <1>8
<1>11. /\ recent'[a] = moment /\ passed'[a][moment] = p + 1 /\ InCache(a)'
       /\ Fits(p + 1 + j, 1 + e) /\ Fits(p + 1, 1 + e)
  <2>1. recent'[a] = moment /\ passed'[a][moment] = p + 1
    BY <1>1, <1>2, <1>3, <1>10
  <2>2. InCache(a)'
    BY <1>1, <2>1 DEF InCache, Absent
  <2>3. Cardinality(Inserting(a)) = j + 1
    BY <1>8, <1>10
  <2>4. Fits(p + (j + 1), 1 + e)
    BY <1>9, <1>10, <2>3 DEF Quieted
  <2>5. /\ p + (j + 1) = p + 1 + j /\ p + 1 <= p + 1 + j
        /\ p + 1 + j \in Nat /\ p + 1 \in Nat /\ 1 + e \in Nat
    OBVIOUS
  <2>6. Fits(p + 1 + j, 1 + e)
    BY <2>4, <2>5
  <2> QED  BY <2>1, <2>2, <2>5, <2>6, Fitting
<1>12. Quieted(a)'
  <2>1. ASSUME NEW m \in 0..LastMoment
        PROVE  (passed'[a][m] > 0 => m <= moment) /\ (m > moment => evicted[a][m] = 0)
    <3>1. CASE m = moment
      BY <1>1, <3>1
    <3>2. CASE m # moment
      <4>1. passed'[a][m] = passed[a][m]
        BY <1>3, <3>2
      <4> QED  BY <1>9, <4>1 DEF Quieted
    <3> QED  BY <3>1, <3>2
  <2>2. recent'[a] # Absent /\ passed'[a][recent'[a]] > 0 /\ moment # Absent
    <3>1. p + 1 > 0 /\ moment # Absent
      BY <1>1 DEF Absent
    <3> QED  BY <1>11, <3>1
  <2> QED  BY <1>1, <1>10, <1>11, <2>1, <2>2 DEF Quieted
<1>13. ASSUME NEW y \in Alert, y # a PROVE Quieted(y)'
  <2>1. /\ Quieted(y) /\ recent'[y] = recent[y] /\ passed'[y] = passed[y]
        /\ Inserting(y)' = Inserting(y)
    BY <1>1, <1>2, <1>3, <1>7, <1>13 DEF AlertInv
  <2>2. InCache(y)' <=> InCache(y)
    BY <1>1, <2>1 DEF InCache
  <2> QED  BY <1>1, <2>1, <2>2 DEF Quieted
<1>14. ASSUME NEW y \in Alert, NEW m \in 0..LastMoment
       PROVE  passed'[y][m] <= Permits * (1 + evicted[y][m])
  <2>1. CASE y = a /\ m = moment
    BY <1>10, <1>11, <2>1 DEF Fits
  <2>2. CASE y # a \/ m # moment
    <3>1. passed'[y][m] = passed[y][m]
      BY <1>3, <2>2
    <3> QED  BY <3>1 DEF AlertInv, CopiesBounded
  <2> QED  BY <2>1, <2>2
<1>15. ASSUME NEW y \in Alert, NEW m \in 0..LastMoment, NEW n \in (m + 1)..LastMoment,
              passed'[y][m] > 0, passed'[y][n] > 0, n - m < Silence
       PROVE  \E t \in m..n : evicted[y][t] > 0
  <2>0. n \in 0..LastMoment /\ m < n
    BY <1>1
  <2>1. CASE y # a \/ (m # moment /\ n # moment)
    <3>1. passed'[y][m] = passed[y][m]
      BY <1>3, <2>1
    <3>2. passed'[y][n] = passed[y][n]
      BY <1>3, <2>0, <2>1
    <3> QED  BY <1>15, <3>1, <3>2 DEF AlertInv, CopiesBounded
  <2>2. CASE y = a /\ m = moment
    <3>0. n # moment
      BY <1>1, <2>0, <2>2
    <3>3. passed'[a][n] = passed[a][n]
      BY <1>3, <2>0, <3>0
    <3>1. passed[a][n] > 0
      BY <1>15, <2>2, <3>3
    <3>2. n <= moment
      BY <1>9, <2>0, <3>1 DEF Quieted
    <3> QED  BY <1>1, <2>0, <2>2, <3>2
  <2>3. CASE y = a /\ m # moment /\ n = moment
    <3>1. passed[a][m] > 0
      BY <1>3, <1>15, <2>3
    <3>2. CASE \E t \in m..moment : evicted[a][t] > 0
      BY <2>3, <3>2
    <3>3. CASE recent[a] # Absent /\ m <= recent[a]
      <4>1. InCache(a)
        BY <1>1, <1>9, <1>15, <2>3, <3>3 DEF InCache, Absent
      <4>2. recent[a] = moment
        BY <1>1, <1>9, <4>1 DEF Quieted
      <4>3. passed[a][moment] > 0
        BY <1>9, <3>3, <4>2 DEF Quieted
      <4> QED  BY <1>1, <1>15, <2>3, <3>1, <4>3 DEF AlertInv, CopiesBounded
    <3> QED  BY <1>9, <3>1, <3>2, <3>3 DEF Quieted
  <2> QED  BY <2>1, <2>2, <2>3
<1>16. CopiesBounded'
  BY <1>1, <1>14, <1>15 DEF CopiesBounded
<1> QED  BY <1>5, <1>6, <1>12, <1>13, <1>16 DEF AlertInv

(* An eviction opens the cache for another round.                          *)
LEMMA EvictKeeps ==
  ASSUME AlertInv, NEW a \in Alert, EvictAlert(a)
  PROVE  AlertInv'
<1>1. /\ moment \in 0..LastMoment /\ LastMoment \in Nat
      /\ Permits \in Nat /\ Silence \in Nat \ {0}
      /\ recent \in [Alert -> {Absent} \cup (0..moment)]
      /\ passed \in [Alert -> [0..LastMoment -> Nat]]
      /\ evicted \in [Alert -> [0..LastMoment -> Nat]]
      /\ UNCHANGED <<moment, caller, passed>>
      /\ recent' = [recent EXCEPT ![a] = Absent]
  BY AlertAssumption DEF AlertInv, AlertTypeOK, EvictAlert
<1>2. /\ evicted' \in [Alert -> [0..LastMoment -> Nat]]
      /\ \A m \in 0..LastMoment :
           evicted'[a][m] = IF m = moment THEN evicted[a][m] + 1 ELSE evicted[a][m]
      /\ \A y \in Alert : y # a => evicted'[y] = evicted[y]
  <2>1. evicted' = [evicted EXCEPT ![a] = [evicted[a] EXCEPT ![moment] = evicted[a][moment] + 1]]
    BY DEF EvictAlert
  <2>2. [evicted[a] EXCEPT ![moment] = evicted[a][moment] + 1] \in [0..LastMoment -> Nat]
    BY <1>1
  <2> QED  BY <1>1, <2>1, <2>2
<1>3. AlertTypeOK'
  <2>1. recent' \in [Alert -> {Absent} \cup (0..moment)]
    BY <1>1
  <2> QED  BY <1>1, <1>2, <2>1 DEF AlertInv, AlertTypeOK
<1>4. Holding' = Holding /\ \A y : Inserting(y)' = Inserting(y)
  BY <1>1 DEF Holding, Inserting, CallerAt
<1>5. PICK p \in Nat, e \in Nat, i \in Nat :
        p = passed[a][moment] /\ e = evicted[a][moment] /\ i = Cardinality(Inserting(a))
  BY <1>1, CallersFinite
<1>6. Quieted(a) /\ Fits(p + i, 1 + e)
  BY <1>5 DEF AlertInv, Quieted
<1>7. /\ evicted'[a][moment] = 1 + e
      /\ Fits(p, 1 + e) /\ Fits(p + i, 1 + (1 + e)) /\ Fits(p, 1 + (1 + e))
  <2>1. evicted'[a][moment] = 1 + e
    <3>1. evicted'[a][moment] = e + 1
      BY <1>1, <1>2, <1>5
    <3> QED  BY <3>1
  <2>2. p + i \in Nat /\ p <= p + i /\ 1 + e \in Nat /\ 0 \in Nat
    OBVIOUS
  <2>3. Fits(p, 1 + e)
    BY <1>6, <2>2, Fitting
  <2>4. 0 <= Permits /\ p + i + 0 = p + i /\ p + 0 = p
    BY <1>1
  <2>5. Fits(p + i + 0, 1 + (1 + e)) /\ Fits(p + 0, 1 + (1 + e))
    BY <1>6, <2>2, <2>3, <2>4, Fitting
  <2> QED  BY <2>1, <2>3, <2>4, <2>5
<1>8. Quieted(a)'
  <2>1. recent'[a] = Absent /\ ~InCache(a)'
    BY <1>1 DEF InCache
  <2>2. ASSUME NEW m \in 0..LastMoment
        PROVE  /\ passed[a][m] > 0 => m <= moment /\ moment \in m..moment /\ evicted'[a][moment] > 0
               /\ m > moment => evicted'[a][m] = 0
    <3>1. passed[a][m] > 0 => m <= moment
      BY <1>6 DEF Quieted
    <3>2. m <= moment => moment \in m..moment
      BY <1>1
    <3>3. evicted'[a][moment] > 0
      BY <1>7
    <3>4. ASSUME m > moment PROVE evicted'[a][m] = 0
      <4>1. evicted'[a][m] = evicted[a][m]
        BY <1>1, <1>2, <3>4
      <4> QED  BY <1>6, <3>4, <4>1 DEF Quieted
    <3> QED  BY <3>1, <3>2, <3>3, <3>4
  <2> QED  BY <1>1, <1>4, <1>5, <1>7, <2>1, <2>2 DEF Quieted
<1>9. ASSUME NEW y \in Alert, y # a PROVE Quieted(y)'
  <2>1. Quieted(y) /\ recent'[y] = recent[y] /\ evicted'[y] = evicted[y]
    BY <1>1, <1>2, <1>9 DEF AlertInv
  <2>2. InCache(y)' <=> InCache(y)
    BY <1>1, <2>1 DEF InCache
  <2> QED  BY <1>1, <1>4, <2>1, <2>2 DEF Quieted
<1>10. ASSUME NEW y \in Alert, NEW m \in 0..LastMoment
       PROVE  /\ passed[y][m] <= Permits * (1 + evicted'[y][m])
              /\ evicted[y][m] > 0 => evicted'[y][m] > 0
  <2>1. CASE y = a /\ m = moment
    <3>1. passed[y][m] = p /\ evicted'[y][m] = 1 + e /\ 1 + e > 0
      BY <1>5, <1>7, <2>1
    <3> QED  BY <1>7, <3>1 DEF Fits
  <2>2. CASE y # a \/ m # moment
    <3>1. evicted'[y][m] = evicted[y][m]
      BY <1>2, <2>2
    <3> QED  BY <3>1 DEF AlertInv, CopiesBounded
  <2> QED  BY <2>1, <2>2
<1>11. CopiesBounded'
  <2>1. ASSUME NEW y \in Alert, NEW m \in 0..LastMoment, NEW n \in (m + 1)..LastMoment,
               passed[y][m] > 0, passed[y][n] > 0, n - m < Silence
        PROVE  \E t \in m..n : evicted'[y][t] > 0
    <3>1. PICK t \in m..n : evicted[y][t] > 0
      BY <2>1 DEF AlertInv, CopiesBounded
    <3>2. t \in 0..LastMoment
      BY <1>1
    <3> QED  BY <1>10, <3>1, <3>2
  <2> QED  BY <1>1, <1>10, <2>1 DEF CopiesBounded
<1> QED  BY <1>3, <1>4, <1>8, <1>9, <1>11 DEF AlertInv

LEMMA AlertTickKeeps ==
  ASSUME AlertInv, AlertTick
  PROVE  AlertInv'
<1>1. /\ moment \in 0..LastMoment /\ LastMoment \in Nat
      /\ Permits \in Nat /\ Silence \in Nat \ {0}
      /\ recent \in [Alert -> {Absent} \cup (0..moment)]
      /\ passed \in [Alert -> [0..LastMoment -> Nat]]
      /\ evicted \in [Alert -> [0..LastMoment -> Nat]]
      /\ moment' = moment + 1 /\ moment' \in 0..LastMoment
      /\ UNCHANGED <<caller, recent, passed, evicted>>
  BY AlertAssumption DEF AlertInv, AlertTypeOK, AlertTick
<1>2. AlertTypeOK'
  <2>1. recent \in [Alert -> {Absent} \cup (0..moment + 1)]
    BY <1>1
  <2> QED  BY <1>1, <2>1 DEF AlertInv, AlertTypeOK
<1>3. Holding' = Holding /\ \A a : Inserting(a)' = {}
  BY <1>1 DEF Holding, Inserting, CallerAt, AlertTick
<1>4. CopiesBounded'
  BY <1>1 DEF AlertInv, CopiesBounded
<1>5. ASSUME NEW a \in Alert PROVE Quieted(a)'
  <2>1. Quieted(a) /\ recent[a] \in {Absent} \cup (0..moment)
    BY <1>1 DEF AlertInv
  <2>2. passed[a][moment + 1] = 0 /\ evicted[a][moment + 1] = 0
    BY <1>1, <2>1 DEF Quieted
  <2>3. Cardinality({}) = 0 /\ 0 + 0 = 0
    BY FS_EmptySet
  <2>4. /\ passed'[a][moment'] = 0 /\ evicted'[a][moment'] = 0
        /\ Cardinality(Inserting(a)') = 0 /\ Inserting(a)' = {}
    BY <1>1, <1>3, <2>2, <2>3
  <2>5. ASSUME NEW m \in 0..LastMoment
        PROVE  /\ passed[a][m] > 0 => /\ m <= moment + 1
                                      /\ \/ recent[a] # Absent /\ m <= recent[a]
                                         \/ \E t \in m..moment + 1 : evicted[a][t] > 0
               /\ m > moment + 1 => evicted[a][m] = 0
    <3>1. m..moment \subseteq m..moment + 1
      BY <1>1
    <3> QED  BY <1>1, <2>1, <3>1 DEF Quieted
  <2>6. recent[a] # Absent => passed[a][recent[a]] > 0
    BY <2>1 DEF Quieted
  <2>7. /\ Fits(passed'[a][moment'] + Cardinality(Inserting(a)'), 1 + evicted'[a][moment'])
        /\ Fits(passed'[a][moment'], evicted'[a][moment'])
    BY <2>3, <2>4, NoneFits
  <2> QED  BY <1>1, <2>4, <2>5, <2>6, <2>7 DEF Quieted
<1> QED  BY <1>2, <1>3, <1>4, <1>5 DEF AlertInv

LEMMA AlertNextInv == AlertInv /\ [AlertNext]_alertVars => AlertInv'
<1> SUFFICES ASSUME AlertInv, [AlertNext]_alertVars PROVE AlertInv'
  OBVIOUS
<1>1. ASSUME UNCHANGED alertVars PROVE AlertInv'
  BY <1>1 DEF alertVars, AlertInv, AlertTypeOK, Holding, Inserting, CallerAt, Quieted,
     InCache, CopiesBounded
<1> QED
  BY <1>1, RaiseKeeps, CheckKeeps, RememberKeeps, EvictKeeps, SendAlertKeeps, AlertTickKeeps
  DEF AlertNext

(* "Repeated copies ... are quieted for five minutes": for any numbers of  *)
(* alerts, callers, permits and places in the cache, at most as many       *)
(* copies as permits are passed on at one moment, as many again with each  *)
(* eviction of the alert at that moment, and none again within the silence *)
(* unless the alert was evicted meanwhile.                                 *)
THEOREM CopiesStayBounded == AlertSpec => []CopiesBounded
<1>1. AlertInv => CopiesBounded
  BY DEF AlertInv
<1> QED  BY <1>1, AlertInitInv, AlertNextInv, PTL DEF AlertSpec

-----------------------------------------------------------------------------
(* The cache of actions. A version that ceased to be the row is in the     *)
(* hands of requests that arrived before that, or in the cache since at    *)
(* most a request's deadline after it.                                     *)

RequestRecord ==
  [pc : {"idle", "lookup", "read", "insert", "found", "run"}, at : 0..clock, v : 0..edits]
CacheRecord == [full : BOOLEAN, v : 0..edits, at : 0..clock]

InTime(q) == q.pc # "idle" => clock - q.at <= Deadline

(* What a request that has version v may still do with it.                 *)
HeldInTime(q, v) ==
  q.v = v =>
    /\ q.pc = "insert" => q.at <= retired[v]
    /\ q.pc \in {"found", "run"} => q.at < retired[v] + Deadline + TTL

Expiring(v) ==
  retired[v] # Never =>
    /\ retired[v] <= clock /\ v # row /\ v <= edits
    /\ \A r \in Request : HeldInTime(request[r], v)
    /\ cache.full /\ cache.v = v => cache.at <= retired[v] + Deadline
    /\ lastRun[v] < retired[v] + Deadline + TTL

ActionInv ==
  /\ ActionTypeOK
  /\ \A r \in Request : InTime(request[r])
  /\ \A v \in Version : Expiring(v)

LEMMA ActionBounds ==
  /\ TTL \in Nat \ {0} /\ Deadline \in Nat \ {0} /\ LastTick \in Nat
  /\ MaxEdits \in Nat /\ MaxRestarts \in Nat /\ Never \in Nat
BY ActionAssumption DEF Never

LEMMA ActionInitInv == ActionInit => ActionInv
<1> SUFFICES ASSUME ActionInit PROVE ActionInv
  OBVIOUS
<1> USE ActionBounds
<1>1. \A r \in Request : request[r].pc = "idle"
  BY DEF ActionInit, NoRequest
<1>2. \A v \in Version : retired[v] = Never
  BY DEF ActionInit
<1>3. ActionTypeOK
  <2>1. clock = 0 /\ row = 0 /\ edits = 0 /\ restarts = 0
    BY DEF ActionInit, None
  <2>2. /\ cache \in [full : BOOLEAN, v : 0..0, at : 0..0]
        /\ request \in [Request -> [pc : {"idle", "lookup", "read", "insert", "found", "run"},
                                    at : 0..0, v : 0..0]]
        /\ editor \in [Editor -> [pc : {"idle", "invalidate", "list"}, list : BOOLEAN]]
    BY DEF ActionInit, Empty, NoRequest, Quiet, None
  <2>3. retired \in [Version -> 0..Never] /\ lastRun \in [Version -> -1..0]
    BY DEF ActionInit
  <2>4. /\ cache \in [full : BOOLEAN, v : 0..edits, at : 0..clock]
        /\ request \in [Request -> [pc : {"idle", "lookup", "read", "insert", "found", "run"},
                                    at : 0..clock, v : 0..edits]]
        /\ lastRun \in [Version -> -1..clock]
    BY <2>1, <2>2, <2>3
  <2>5. /\ clock \in 0..LastTick /\ row \in 0..edits /\ edits \in 0..MaxEdits
        /\ restarts \in 0..MaxRestarts
    BY <2>1
  <2>6. listed \in BOOLEAN
    BY DEF ActionInit
  <2> QED  BY <2>2, <2>3, <2>4, <2>5, <2>6 DEF ActionTypeOK
<1> QED  BY <1>1, <1>2, <1>3 DEF ActionInv, InTime, Expiring

(* A step of one request, and what it does to the cache and the runs.      *)
LEMMA RequestStep ==
  ASSUME ActionInv, NEW r \in Request, NEW q \in RequestRecord,
         request' = [request EXCEPT ![r] = q],
         UNCHANGED <<clock, row, listed, edits, editor, restarts, retired>>,
         InTime(q),
         \A v \in Version : retired[v] # Never => HeldInTime(q, v),
         cache' \in CacheRecord,
         \A v \in Version : retired[v] # Never /\ cache'.full /\ cache'.v = v
                              => cache'.at <= retired[v] + Deadline,
         lastRun' \in [Version -> -1..clock],
         \A v \in Version : retired[v] # Never
                              => lastRun'[v] < retired[v] + Deadline + TTL
  PROVE  ActionInv'
<1>1. request \in [Request -> RequestRecord]
  BY DEF ActionInv, ActionTypeOK, RequestRecord
<1>2. request' \in [Request -> RequestRecord]
  BY <1>1
<1>3. ActionTypeOK'
  BY <1>2 DEF ActionInv, ActionTypeOK, RequestRecord, CacheRecord
<1>4. \A x \in Request : request'[x] = IF x = r THEN q ELSE request[x]
  BY <1>1
<1>5. \A x \in Request : InTime(request[x])'
  BY <1>4 DEF ActionInv, InTime
<1>6. ASSUME NEW v \in Version PROVE Expiring(v)'
  <2>1. CASE retired[v] = Never
    BY <2>1 DEF Expiring, Never
  <2>2. CASE retired[v] # Never
    <3>1. Expiring(v)
      BY DEF ActionInv
    <3>2. \A x \in Request : HeldInTime(request[x], v)'
      BY <1>4, <2>2, <3>1 DEF Expiring, HeldInTime
    <3> QED  BY <2>2, <3>1, <3>2 DEF Expiring, Never
  <2> QED  BY <2>1, <2>2
<1> QED  BY <1>3, <1>5, <1>6 DEF ActionInv

(* The same when the cache and the runs stay as they are.                  *)
LEMMA RequestMoves ==
  ASSUME ActionInv, NEW r \in Request, NEW q \in RequestRecord,
         request' = [request EXCEPT ![r] = q],
         UNCHANGED <<clock, row, listed, cache, edits, editor, restarts, retired, lastRun>>,
         InTime(q),
         \A v \in Version : retired[v] # Never => HeldInTime(q, v)
  PROVE  ActionInv'
<1>1. cache \in CacheRecord /\ lastRun \in [Version -> -1..clock]
  BY DEF ActionInv, ActionTypeOK, CacheRecord
<1>2. \A v \in Version : Expiring(v)
  BY DEF ActionInv
<1> QED  BY <1>1, <1>2, RequestStep DEF Expiring

LEMMA GoneOn ==
  ASSUME NEW r \in Request, request[r] \in RequestRecord, NEW v \in 0..edits,
         NEW pc \in {"idle", "lookup", "read", "insert", "found", "run"},
         GoOn(r, pc, v)
  PROVE  \E q \in RequestRecord :
           /\ request' = [request EXCEPT ![r] = q]
           /\ q.pc = pc /\ q.v = v /\ q.at = request[r].at
<1> DEFINE p == [request[r] EXCEPT !.pc = pc]
           q == [request[r] EXCEPT !.pc = pc, !.v = v]
<1>1. p \in RequestRecord
  BY DEF RequestRecord
<1>2. [p EXCEPT !.v = v] \in RequestRecord
  <2> HIDE DEF p
  <2> QED  BY <1>1 DEF RequestRecord
<1>3. q = [p EXCEPT !.v = v]
  OBVIOUS
<1>4. q.pc = pc /\ q.v = v /\ q.at = request[r].at
  BY DEF RequestRecord
<1>5. request' = [request EXCEPT ![r] = q]
  BY DEF GoOn
<1>6. q \in RequestRecord
  BY <1>2, <1>3
<1> HIDE DEF q
<1> QED  BY <1>4, <1>5, <1>6

LEMMA AdmitKeeps ==
  ASSUME ActionInv, NEW r \in Request, Admit(r)
  PROVE  ActionInv'
<1> DEFINE q == [pc |-> "lookup", at |-> clock, v |-> None]
<1>1. clock \in Nat /\ edits \in Nat
  BY ActionBounds DEF ActionInv, ActionTypeOK
<1>2. q \in RequestRecord
  BY <1>1 DEF RequestRecord, None
<1>3. InTime(q)
  BY <1>1, ActionBounds DEF InTime
<1>4. \A v : HeldInTime(q, v)
  BY DEF HeldInTime
<1> QED  BY <1>2, <1>3, <1>4, RequestMoves DEF Admit

LEMMA LookupKeeps ==
  ASSUME ActionInv, NEW r \in Request, Lookup(r)
  PROVE  ActionInv'
<1>1. /\ request[r] \in RequestRecord /\ cache \in CacheRecord /\ InTime(request[r])
      /\ clock \in Nat /\ edits \in Nat /\ None \in 0..edits
      /\ request[r].at \in 0..clock /\ request[r].pc # "idle"
  BY ActionBounds DEF ActionInv, ActionTypeOK, RequestRecord, CacheRecord, None, Lookup, RequestAt
<1>2. CASE Live
  <2>1. cache.v \in 0..edits /\ cache.at \in 0..clock
    BY <1>1 DEF CacheRecord
  <2>2. GoOn(r, "found", cache.v) /\ UNCHANGED cache
    BY <1>2 DEF Lookup
  <2>3. PICK q \in RequestRecord :
          /\ request' = [request EXCEPT ![r] = q]
          /\ q.pc = "found" /\ q.v = cache.v /\ q.at = request[r].at
    BY <1>1, <2>1, <2>2, GoneOn
  <2>4. ASSUME NEW v \in Version, retired[v] # Never PROVE HeldInTime(q, v)
    <3>1. cache.v = v => cache.at <= retired[v] + Deadline
      BY <1>2, <2>4 DEF ActionInv, Expiring, Live
    <3>2. retired[v] \in Nat
      BY ActionBounds DEF ActionInv, ActionTypeOK
    <3>3. clock - cache.at < TTL
      BY <1>2 DEF Live
    <3> QED  BY <1>1, <2>1, <2>3, <3>1, <3>2, <3>3, ActionBounds DEF HeldInTime
  <2>5. InTime(q)
    BY <1>1, <2>3 DEF InTime
  <2> QED  BY <2>2, <2>3, <2>4, <2>5, RequestMoves DEF Lookup
<1>3. CASE ~Live
  <2>1. GoOn(r, "read", None) /\ UNCHANGED cache
    BY <1>3 DEF Lookup
  <2>2. PICK q \in RequestRecord :
          /\ request' = [request EXCEPT ![r] = q]
          /\ q.pc = "read" /\ q.at = request[r].at
    BY <1>1, <2>1, GoneOn
  <2>3. InTime(q) /\ \A v : HeldInTime(q, v)
    BY <1>1, <2>2 DEF InTime, HeldInTime
  <2> QED  BY <2>1, <2>2, <2>3, RequestMoves DEF Lookup
<1> QED  BY <1>2, <1>3

LEMMA ReadKeeps ==
  ASSUME ActionInv, NEW r \in Request, Read(r)
  PROVE  ActionInv'
<1>1. /\ request[r] \in RequestRecord /\ InTime(request[r]) /\ row \in 0..edits
      /\ request[r].pc # "idle"
  BY DEF ActionInv, ActionTypeOK, RequestRecord, Read, RequestAt
<1>2. GoOn(r, "insert", row)
  BY DEF Read
<1>3. PICK q \in RequestRecord :
        /\ request' = [request EXCEPT ![r] = q]
        /\ q.pc = "insert" /\ q.v = row /\ q.at = request[r].at
  BY <1>1, <1>2, GoneOn
<1>4. \A v \in Version : retired[v] # Never => HeldInTime(q, v)
  BY <1>3 DEF ActionInv, Expiring, HeldInTime
<1>5. InTime(q)
  BY <1>1, <1>3 DEF InTime
<1> QED  BY <1>3, <1>4, <1>5, RequestMoves DEF Read

LEMMA FillKeeps ==
  ASSUME ActionInv, NEW r \in Request, Fill(r)
  PROVE  ActionInv'
<1>1. /\ request[r] \in RequestRecord /\ InTime(request[r]) /\ request[r].pc = "insert"
      /\ request[r].v \in 0..edits /\ request[r].at \in 0..clock
      /\ clock \in Nat /\ lastRun \in [Version -> -1..clock]
  BY ActionBounds DEF ActionInv, ActionTypeOK, RequestRecord, Fill, RequestAt
<1>2. GoOn(r, "found", request[r].v)
  BY DEF Fill
<1>3. PICK q \in RequestRecord :
        /\ request' = [request EXCEPT ![r] = q]
        /\ q.pc = "found" /\ q.v = request[r].v /\ q.at = request[r].at
  BY <1>1, <1>2, GoneOn
<1>4. /\ cache' = [full |-> TRUE, v |-> request[r].v, at |-> clock]
      /\ cache' \in CacheRecord
  BY <1>1 DEF Fill, CacheRecord
<1>5. ASSUME NEW v \in Version, retired[v] # Never
      PROVE  /\ request[r].v = v => request[r].at <= retired[v]
             /\ retired[v] \in Nat
             /\ lastRun[v] < retired[v] + Deadline + TTL
  BY <1>1, <1>5, ActionBounds DEF ActionInv, ActionTypeOK, Expiring, HeldInTime
<1>6. clock - request[r].at <= Deadline
  BY <1>1 DEF InTime
<1>7. \A v \in Version : retired[v] # Never => HeldInTime(q, v)
  BY <1>1, <1>3, <1>5, ActionBounds DEF HeldInTime
<1>8. \A v \in Version : retired[v] # Never /\ cache'.full /\ cache'.v = v
                           => cache'.at <= retired[v] + Deadline
  BY <1>1, <1>4, <1>5, <1>6, ActionBounds
<1>9. InTime(q)
  BY <1>3, <1>6 DEF InTime
<1> QED  BY <1>1, <1>3, <1>4, <1>5, <1>7, <1>8, <1>9, RequestStep DEF Fill

LEMMA RunKeeps ==
  ASSUME ActionInv, NEW r \in Request, Run(r)
  PROVE  ActionInv'
<1> DEFINE w == request[r].v
<1>1. /\ request[r] \in RequestRecord /\ InTime(request[r]) /\ request[r].pc = "found"
      /\ w \in 0..edits /\ request[r].at \in 0..clock
      /\ clock \in Nat /\ lastRun \in [Version -> -1..clock] /\ cache \in CacheRecord
      /\ w # None /\ edits \in 0..MaxEdits
  BY ActionBounds DEF ActionInv, ActionTypeOK, RequestRecord, CacheRecord, Run, RequestAt
<1>10. w \in Version
  BY <1>1, ActionBounds DEF Version, None
<1>2. GoOn(r, "run", w)
  BY DEF Run
<1>3. PICK q \in RequestRecord :
        /\ request' = [request EXCEPT ![r] = q]
        /\ q.pc = "run" /\ q.v = w /\ q.at = request[r].at
  BY <1>1, <1>2, GoneOn
<1>4. lastRun' = [lastRun EXCEPT ![w] =
                    IF retired[w] # Never /\ lastRun[w] < request[r].at
                    THEN request[r].at ELSE lastRun[w]]
  BY DEF Run
<1> HIDE DEF w
<1>5. \A v \in Version : Expiring(v)
  BY DEF ActionInv
<1>6. ASSUME NEW v \in Version, retired[v] # Never PROVE HeldInTime(q, v)
  BY <1>1, <1>3, <1>5, <1>6 DEF Expiring, HeldInTime, w
<1>7. /\ lastRun' \in [Version -> -1..clock]
      /\ \A v \in Version : v # w => lastRun'[v] = lastRun[v]
      /\ lastRun'[w] \in {lastRun[w], request[r].at}
  <2>1. request[r].at \in -1..clock
    BY <1>1
  <2> QED  BY <1>1, <1>4, <1>10, <2>1
<1>8. ASSUME NEW v \in Version, retired[v] # Never
      PROVE  lastRun'[v] < retired[v] + Deadline + TTL
  <2>1. q.v = v => request[r].at < retired[v] + Deadline + TTL
    BY <1>3, <1>6, <1>8 DEF HeldInTime
  <2> QED  BY <1>3, <1>5, <1>7, <1>8, <2>1 DEF Expiring
<1>9. InTime(q)
  BY <1>1, <1>3 DEF InTime
<1> QED  BY <1>1, <1>3, <1>5, <1>6, <1>7, <1>8, <1>9, RequestStep DEF Run, Expiring

LEMMA LeaveKeeps ==
  ASSUME ActionInv, NEW r \in Request, Leave(r)
  PROVE  ActionInv'
<1>1. clock \in Nat /\ edits \in Nat
  BY ActionBounds DEF ActionInv, ActionTypeOK
<1>2. NoRequest \in RequestRecord /\ NoRequest.pc = "idle"
  BY <1>1 DEF RequestRecord, NoRequest, None
<1>3. InTime(NoRequest) /\ \A v : HeldInTime(NoRequest, v)
  BY <1>2 DEF InTime, HeldInTime
<1> QED  BY <1>2, <1>3, RequestMoves DEF Leave

(* A version ceases to be the row: whoever has it arrived before.          *)
LEMMA ReplaceKeeps ==
  ASSUME ActionInv, edits' \in {edits, edits + 1}, edits' <= MaxEdits,
         row' \in 0..edits', row' # None => row' > edits,
         retired' = [v \in Version |-> IF v = row THEN clock ELSE retired[v]],
         editor' \in [Editor -> [pc : {"idle", "invalidate", "list"}, list : BOOLEAN]],
         UNCHANGED <<clock, listed, cache, request, restarts, lastRun>>
  PROVE  ActionInv'
<1>1. /\ clock \in 0..LastTick /\ edits \in Nat /\ row \in 0..edits /\ edits <= MaxEdits
      /\ edits' \in Nat /\ edits' >= edits
      /\ request \in [Request -> RequestRecord] /\ cache \in CacheRecord
      /\ retired \in [Version -> 0..Never] /\ lastRun \in [Version -> -1..clock]
  BY ActionBounds DEF ActionInv, ActionTypeOK, RequestRecord, CacheRecord
<1>2. /\ UNCHANGED <<clock, listed, cache, request, restarts, lastRun>>
      /\ retired' = [v \in Version |-> IF v = row THEN clock ELSE retired[v]]
  OBVIOUS
<1>3. ActionTypeOK'
  <2>1. retired' \in [Version -> 0..Never]
    BY <1>1, <1>2, ActionBounds DEF Never
  <2>2. 0..edits \subseteq 0..edits'
    BY <1>1
  <2>3. request' \in [Request -> RequestRecord']
    BY <1>1, <1>2, <2>2 DEF RequestRecord
  <2>4. cache' \in CacheRecord'
    BY <1>1, <1>2, <2>2 DEF CacheRecord
  <2>6. /\ clock \in 0..LastTick /\ listed \in BOOLEAN /\ restarts \in 0..MaxRestarts
    BY DEF ActionInv, ActionTypeOK
  <2>7. edits' \in 0..MaxEdits
    BY <1>1, ActionBounds
  <2> QED
    BY <1>1, <1>2, <2>1, <2>3, <2>4, <2>6, <2>7 DEF ActionTypeOK, RequestRecord, CacheRecord
<1>4. \A r \in Request : InTime(request[r])'
  BY <1>2 DEF ActionInv, InTime
<1>5. ASSUME NEW v \in Version PROVE Expiring(v)'
  <2>1. v \in Nat \ {0} /\ clock # Never
    BY <1>1, ActionBounds DEF Version, Never
  <2>2. CASE v = row
    <3>1. retired'[v] = clock /\ v # row' /\ v <= edits'
      BY <1>1, <1>2, <2>1, <2>2 DEF None
    <3>2. ASSUME NEW r \in Request PROVE HeldInTime(request[r], v)'
      <4>1. request[r].at \in 0..clock
        BY <1>1 DEF RequestRecord
      <4> QED  BY <1>1, <1>2, <3>1, <4>1, ActionBounds DEF HeldInTime
    <3>3. cache.at \in 0..clock /\ lastRun[v] \in -1..clock
      BY <1>1 DEF CacheRecord
    <3>4. cache'.at <= retired'[v] + Deadline /\ lastRun'[v] < retired'[v] + Deadline + TTL
      BY <1>1, <1>2, <3>1, <3>3, ActionBounds
    <3>5. retired'[v] <= clock'
      BY <1>1, <1>2, <3>1
    <3> QED  BY <3>1, <3>2, <3>4, <3>5 DEF Expiring
  <2>3. CASE v # row
    <3>1. retired'[v] = retired[v] /\ Expiring(v)
      BY <1>1, <1>2, <2>3 DEF ActionInv
    <3>2. CASE retired[v] = Never
      BY <3>1, <3>2 DEF Expiring, Never
    <3>3. CASE retired[v] # Never
      <4>1. v <= edits' /\ v # row'
        BY <1>1, <1>2, <2>1, <3>1, <3>3 DEF Expiring, None
      <4>2. \A r \in Request : HeldInTime(request[r], v)'
        BY <1>2, <3>1, <3>3 DEF Expiring, HeldInTime
      <4> QED  BY <1>2, <3>1, <3>3, <4>1, <4>2 DEF Expiring, Never
    <3> QED  BY <3>2, <3>3
  <2> QED  BY <2>2, <2>3
<1> QED  BY <1>3, <1>4, <1>5 DEF ActionInv

(* The cache is emptied, editors and the set of domains move, the process  *)
(* starts anew: nothing that an expiring version depends on appears.       *)
LEMMA LettingGo ==
  ASSUME ActionInv, ActionTypeOK',
         UNCHANGED <<clock, row, edits, retired, lastRun>>,
         cache' \in {cache, Empty},
         \A r \in Request : request'[r] \in {request[r], NoRequest}
  PROVE  ActionInv'
<1>1. NoRequest.pc = "idle" /\ ~Empty.full
  BY DEF NoRequest, Empty
<1>2. \A r \in Request : InTime(request[r])'
  BY <1>1 DEF ActionInv, InTime
<1>3. ASSUME NEW v \in Version PROVE Expiring(v)'
  <2>1. Expiring(v)
    BY DEF ActionInv
  <2>2. retired[v] # Never => \A r \in Request : HeldInTime(request[r], v)'
    BY <1>1, <2>1 DEF Expiring, HeldInTime
  <2> QED  BY <1>1, <2>1, <2>2 DEF Expiring, Never
<1> QED  BY <1>2, <1>3 DEF ActionInv

LEMMA ActionTickKeeps ==
  ASSUME ActionInv, ActionTick
  PROVE  ActionInv'
<1>1. /\ clock \in 0..LastTick /\ clock' = clock + 1 /\ clock' \in 0..LastTick
      /\ UNCHANGED <<row, listed, cache, edits, editor, request, restarts, retired, lastRun>>
      /\ request \in [Request -> RequestRecord]
  BY ActionBounds DEF ActionInv, ActionTypeOK, ActionTick, RequestRecord
<1>2. ActionTypeOK'
  <2>1. 0..clock \subseteq 0..clock + 1 /\ -1..clock \subseteq -1..clock + 1
    BY <1>1
  <2>2. request' \in [Request -> RequestRecord']
    BY <1>1, <2>1 DEF RequestRecord
  <2>3. cache' \in CacheRecord'
    BY <1>1, <2>1 DEF ActionInv, ActionTypeOK, CacheRecord
  <2>4. lastRun' \in [Version -> -1..clock']
    BY <1>1, <2>1 DEF ActionInv, ActionTypeOK
  <2> QED  BY <1>1, <2>2, <2>3, <2>4 DEF ActionInv, ActionTypeOK, RequestRecord, CacheRecord, Version, Never
<1>3. ASSUME NEW r \in Request PROVE InTime(request[r])'
  <2>1. request[r].at \in 0..clock
    BY <1>1 DEF RequestRecord
  <2>2. request[r].pc # "idle" => clock - request[r].at < Deadline
    BY DEF ActionTick, RequestAt
  <2> QED  BY <1>1, <2>1, <2>2, ActionBounds DEF InTime
<1>4. ASSUME NEW v \in Version PROVE Expiring(v)'
  <2>1. Expiring(v) /\ retired[v] \in Nat
    BY ActionBounds DEF ActionInv, ActionTypeOK
  <2>2. retired[v] # Never => \A r \in Request : HeldInTime(request[r], v)'
    BY <1>1, <2>1 DEF Expiring, HeldInTime
  <2> QED  BY <1>1, <2>1, <2>2 DEF Expiring, Never
<1> QED  BY <1>2, <1>3, <1>4 DEF ActionInv

LEMMA ActionNextInv == ActionInv /\ [ActionNext]_actionVars => ActionInv'
<1> SUFFICES ASSUME ActionInv, [ActionNext]_actionVars PROVE ActionInv'
  OBVIOUS
<1>0. edits \in Nat /\ edits <= MaxEdits /\ clock \in Nat
  BY ActionBounds DEF ActionInv, ActionTypeOK
<1> DEFINE Editing == [pc : {"idle", "invalidate", "list"}, list : BOOLEAN]
<1>8. editor \in [Editor -> Editing]
  BY DEF ActionInv, ActionTypeOK
<1>1. ASSUME NEW e \in Editor, PostAction(e) PROVE ActionInv'
  <2>1. editor' = [editor EXCEPT ![e] = [pc |-> "invalidate", list |-> TRUE]]
    BY <1>1 DEF PostAction, Replace
  <2>2. editor' \in [Editor -> Editing]
    BY <1>8, <2>1
  <2>3. edits' = edits + 1 /\ edits < MaxEdits /\ row' = edits + 1
    BY <1>1 DEF PostAction, Replace
  <2>4. /\ retired' = [v \in Version |-> IF v = row THEN clock ELSE retired[v]]
        /\ UNCHANGED <<clock, listed, cache, request, restarts, lastRun>>
    BY <1>1 DEF PostAction, Replace
  <2> QED  BY <1>0, <2>2, <2>3, <2>4, ActionBounds, ReplaceKeeps
<1>2. ASSUME NEW e \in Editor, DeleteAction(e) PROVE ActionInv'
  <2>1. editor' = [editor EXCEPT ![e] = [pc |-> "invalidate", list |-> FALSE]]
    BY <1>2 DEF DeleteAction, Replace
  <2>2. editor' \in [Editor -> Editing]
    BY <1>8, <2>1
  <2>3. edits' = edits /\ row' = None
    BY <1>2 DEF DeleteAction, Replace
  <2>4. /\ retired' = [v \in Version |-> IF v = row THEN clock ELSE retired[v]]
        /\ UNCHANGED <<clock, listed, cache, request, restarts, lastRun>>
    BY <1>2 DEF DeleteAction, Replace
  <2> QED  BY <1>0, <2>2, <2>3, <2>4, ActionBounds, ReplaceKeeps DEF None
<1>3. ASSUME NEW e \in Editor, Invalidate(e) PROVE ActionInv'
  <2>1. Empty \in CacheRecord
    BY <1>0 DEF Empty, CacheRecord, None
  <2>2. editor' \in [Editor -> Editing]
    BY <1>3, <1>8 DEF Invalidate
  <2>3. ActionTypeOK'
    BY <1>3, <2>1, <2>2 DEF Invalidate, ActionInv, ActionTypeOK, CacheRecord
  <2> QED  BY <1>3, <2>3, LettingGo DEF Invalidate
<1>4. ASSUME NEW e \in Editor, List(e) PROVE ActionInv'
  <2>1. ActionTypeOK'
    BY <1>4 DEF List, ActionInv, ActionTypeOK, Quiet, Version, Never
  <2> QED  BY <1>4, <2>1, LettingGo DEF List
<1>5. ASSUME EvictAction PROVE ActionInv'
  <2>1. ActionTypeOK'
    BY <1>0, <1>5 DEF EvictAction, ActionInv, ActionTypeOK, Empty, None, Version, Never
  <2> QED  BY <1>5, <2>1, LettingGo DEF EvictAction
<1>6. ASSUME ActionRestart PROVE ActionInv'
  <2>1. ActionTypeOK'
    BY <1>0, <1>6, ActionBounds
    DEF ActionRestart, ActionInv, ActionTypeOK, Empty, Quiet, NoRequest, None, Version, Never
  <2>2. \A r \in Request : request'[r] = NoRequest
    BY <1>6 DEF ActionRestart
  <2> QED  BY <1>6, <2>1, <2>2, LettingGo DEF ActionRestart
<1>7. ASSUME UNCHANGED actionVars PROVE ActionInv'
  <2>1. ActionTypeOK'
    BY <1>7 DEF actionVars, ActionInv, ActionTypeOK, Version, Never
  <2> QED  BY <1>7, <2>1, LettingGo DEF actionVars
<1> QED
  BY <1>1, <1>2, <1>3, <1>4, <1>5, <1>6, <1>7, AdmitKeeps, LookupKeeps, ReadKeeps,
     FillKeeps, RunKeeps, LeaveKeeps, ActionTickKeeps DEF ActionNext

(* A replaced or deleted action is not run by requests that arrive later   *)
(* than a deadline and a cache lifetime after it, for any number of        *)
(* editors, requests, evictions and restarts, although a reading from      *)
(* before the edit may be cached after it.                                 *)
THEOREM ReplacedActionsDoExpire == ActionSpec => []ReplacedActionsExpire
<1>1. ActionInv => ReplacedActionsExpire
  BY DEF ActionInv, Expiring, ReplacedActionsExpire
<1> QED  BY <1>1, ActionInitInv, ActionNextInv, PTL DEF ActionSpec

-----------------------------------------------------------------------------
(* Settings. While no save met another one or was cut short, a single      *)
(* handler is between file and memory, with what the file holds.           *)

HandlerRecord == [pc : {"idle", "write", "publish"}, new : Setting]

InStep ==
  ~blurred =>
    /\ Publishing = {} => memory = Loaded(file)
    /\ \A h \in Publishing : Publishing = {h} /\ file = handler[h].new

SettingInv ==
  /\ SettingTypeOK
  /\ kind = "devices" => \A h \in Handler : HandlerAt(h, "idle")
  /\ InStep

LEMMA SettingsLoad ==
  /\ Default \in Setting
  /\ \A s \in Setting : Loaded(s) = s
  /\ \A f \in Setting \cup {Garbage} : Loaded(f) \in Setting
<1>1. Default \in Setting
  BY DEF Default, Setting
<1>2. ASSUME NEW s \in Setting PROVE Loaded(s) = s
  <2>1. Bad \notin s.entries
    BY SettingAssumption DEF Setting
  <2> QED  BY <2>1 DEF Loaded
<1>3. Loaded(Garbage) = Default
  BY DEF Loaded, Garbage
<1> QED  BY <1>1, <1>2, <1>3

(* One handler takes a step.                                               *)
LEMMA BecomeType ==
  ASSUME SettingInv, NEW h \in Handler, NEW new \in Setting,
         NEW pc \in {"idle", "write", "publish"}, Become(h, pc, new)
  PROVE  /\ handler' \in [Handler -> HandlerRecord]
         /\ handler'[h].pc = pc /\ handler'[h].new = new
         /\ \A x \in Handler : x # h => handler'[x] = handler[x]
         /\ pc # "publish" => Publishing' = Publishing \ {h}
         /\ pc = "publish" => Publishing' = Publishing \cup {h}
<1>1. handler \in [Handler -> HandlerRecord]
  BY DEF SettingInv, SettingTypeOK, HandlerRecord
<1>2. [pc |-> pc, new |-> new] \in HandlerRecord
  BY DEF HandlerRecord
<1>3. handler' = [handler EXCEPT ![h] = [pc |-> pc, new |-> new]]
  BY DEF Become
<1>4. handler' \in [Handler -> HandlerRecord]
  BY <1>1, <1>2, <1>3
<1>5. handler'[h].pc = pc /\ handler'[h].new = new
  BY <1>1, <1>3
<1>6. \A x \in Handler : x # h => handler'[x] = handler[x]
  BY <1>1, <1>3
<1> QED  BY <1>4, <1>5, <1>6 DEF Publishing, HandlerAt

LEMMA SettingInitInv == SupervisorInit => SettingInv
<1> SUFFICES ASSUME SupervisorInit PROVE SettingInv
  OBVIOUS
<1>1. SettingInit
  BY DEF SupervisorInit
<1>2. file \in Setting \cup {Garbage} /\ memory = Loaded(file)
  BY <1>1, SettingsLoad DEF SettingInit
<1>3. handler \in [Handler -> HandlerRecord] /\ \A h \in Handler : handler[h].pc = "idle"
  BY <1>1, SettingsLoad DEF SettingInit, HandlerRecord, Waiting
<1>4. saves \in 0..MaxSaves /\ starts \in 1..MaxBoots
  BY <1>1, SettingAssumption DEF SettingInit
<1>5. kind \in Kind /\ blurred \in BOOLEAN
  BY <1>1 DEF SettingInit
<1>6. Publishing = {}
  BY <1>3 DEF Publishing, HandlerAt
<1>7. SettingTypeOK
  BY <1>2, <1>3, <1>4, <1>5, SettingsLoad DEF SettingTypeOK, HandlerRecord
<1> QED  BY <1>2, <1>3, <1>6, <1>7 DEF SettingInv, InStep, HandlerAt

LEMMA SaveRequestKeeps ==
  ASSUME SettingInv, NEW h \in Handler, NEW entries \in SUBSET Entry,
         NEW token \in Token \cup {NoToken}, SaveRequest(h, entries, token)
  PROVE  SettingInv'
<1> DEFINE new == [entries |-> entries,
                   token |-> IF token = NoToken THEN memory.token ELSE token]
<1>1. new \in Setting
  BY DEF SettingInv, SettingTypeOK, Setting
<1>2. Become(h, "write", new) /\ kind # "devices"
  BY DEF SaveRequest
<1> HIDE DEF new
<1>3. h \notin Publishing
  BY DEF SaveRequest, HandlerAt, Publishing
<1>4. /\ handler' \in [Handler -> HandlerRecord] /\ Publishing' = Publishing
      /\ \A x \in Publishing : handler'[x] = handler[x]
  BY <1>1, <1>2, <1>3, BecomeType DEF Publishing
<1>5. saves' \in 0..MaxSaves
  BY SettingAssumption DEF SaveRequest, SettingInv, SettingTypeOK
<1>6. UNCHANGED <<kind, file, memory, starts, blurred>>
  BY DEF SaveRequest
<1>7. SettingTypeOK'
  BY <1>4, <1>5, <1>6 DEF SettingInv, SettingTypeOK, HandlerRecord
<1>8. InStep'
  BY <1>4, <1>6 DEF SettingInv, InStep, Loaded
<1> QED  BY <1>2, <1>6, <1>7, <1>8 DEF SettingInv

LEMMA WriteKeeps ==
  ASSUME SettingInv, NEW h \in Handler, Write(h)
  PROVE  SettingInv'
<1> DEFINE new == handler[h].new
<1>1. new \in Setting /\ h \notin Publishing /\ kind # "devices"
  BY DEF SettingInv, SettingTypeOK, Write, HandlerAt, Publishing
<1>2. /\ Become(h, "publish", new) /\ file' = new /\ blurred' = (Publishing # {})
      /\ UNCHANGED <<kind, memory, saves, starts>>
  BY DEF Write
<1> HIDE DEF new
<1>3. /\ handler' \in [Handler -> HandlerRecord] /\ Publishing' = Publishing \cup {h}
      /\ handler'[h].new = new
  BY <1>1, <1>2, BecomeType
<1>4. SettingTypeOK'
  <2>1. blurred' \in BOOLEAN
    BY <1>2
  <2> QED  BY <1>1, <1>2, <1>3, <2>1 DEF SettingInv, SettingTypeOK, HandlerRecord
<1>5. InStep'
  <2>1. CASE Publishing = {}
    BY <1>2, <1>3, <2>1 DEF InStep
  <2>2. CASE Publishing # {}
    BY <1>2, <2>2 DEF InStep
  <2> QED  BY <2>1, <2>2
<1> QED  BY <1>1, <1>2, <1>4, <1>5 DEF SettingInv

(* A handler that has not published yet ends, or its client has gone.      *)
LEMMA GivingUpKeeps ==
  ASSUME SettingInv, NEW h \in Handler, WriteFails(h) \/ Disconnect(h)
  PROVE  SettingInv'
<1>1. /\ handler[h].new \in Setting /\ kind # "devices" /\ Become(h, "idle", Default)
      /\ UNCHANGED <<kind, memory, saves, starts>>
  BY DEF SettingInv, SettingTypeOK, WriteFails, Disconnect, HandlerAt
<1>2. /\ handler' \in [Handler -> HandlerRecord] /\ Publishing' = Publishing \ {h}
      /\ \A x \in Handler : x # h => handler'[x] = handler[x]
  BY <1>1, SettingsLoad, BecomeType
<1>3. CASE blurred'
  <2>1. file' \in Setting \cup {Garbage}
    BY <1>1 DEF SettingInv, SettingTypeOK, WriteFails, Disconnect
  <2>2. blurred' \in BOOLEAN
    BY DEF SettingInv, SettingTypeOK, WriteFails, Disconnect
  <2>3. SettingTypeOK'
    BY <1>1, <1>2, <2>1, <2>2 DEF SettingInv, SettingTypeOK, HandlerRecord
  <2> QED  BY <1>1, <1>3, <2>3 DEF SettingInv, InStep
<1>4. CASE ~blurred'
  <2>1. UNCHANGED <<file, blurred>> /\ h \notin Publishing
    BY <1>4 DEF WriteFails, Disconnect, Publishing, HandlerAt
  <2>2. Publishing' = Publishing /\ \A x \in Publishing : handler'[x] = handler[x]
    BY <1>2, <2>1 DEF Publishing
  <2>3. SettingTypeOK'
    BY <1>1, <1>2, <2>1 DEF SettingInv, SettingTypeOK, HandlerRecord
  <2>4. InStep'
    BY <1>1, <2>1, <2>2 DEF SettingInv, InStep, Loaded
  <2> QED  BY <1>1, <2>3, <2>4 DEF SettingInv
<1> QED  BY <1>3, <1>4

LEMMA PublishKeeps ==
  ASSUME SettingInv, NEW h \in Handler, Publish(h)
  PROVE  SettingInv'
<1> DEFINE new == handler[h].new
<1>1. /\ new \in Setting /\ h \in Publishing /\ kind # "devices" /\ Become(h, "idle", Default)
      /\ memory' = new /\ UNCHANGED <<kind, file, saves, starts, blurred>>
  BY DEF SettingInv, SettingTypeOK, Publish, HandlerAt, Publishing
<1> HIDE DEF new
<1>2. handler' \in [Handler -> HandlerRecord] /\ Publishing' = Publishing \ {h}
  BY <1>1, SettingsLoad, BecomeType
<1>3. SettingTypeOK'
  BY <1>1, <1>2 DEF SettingInv, SettingTypeOK, HandlerRecord
<1>4. InStep'
  <2>1. SUFFICES ASSUME ~blurred PROVE Publishing' = {} /\ memory' = Loaded(file')
    BY <1>1, <2>1 DEF InStep
  <2>2. Publishing = {h} /\ file = new
    BY <1>1, <2>1 DEF SettingInv, InStep, new
  <2> QED  BY <1>1, <1>2, <2>2, SettingsLoad
<1> QED  BY <1>1, <1>3, <1>4 DEF SettingInv

LEMMA EditKeeps ==
  ASSUME SettingInv, NEW entries \in SUBSET Entry, Edit(entries)
  PROVE  SettingInv'
<1> DEFINE new == [memory EXCEPT !.entries = entries]
<1>1. new \in Setting
  BY DEF SettingInv, SettingTypeOK, Setting
<1>2. /\ kind = "devices" /\ UNCHANGED <<kind, handler, starts>>
      /\ \/ memory' = new /\ file' = new /\ blurred' = FALSE
         \/ UNCHANGED <<memory, file, blurred>>
         \/ UNCHANGED memory /\ file' = new /\ blurred' = TRUE
  BY DEF Edit
<1> HIDE DEF new
<1>3. Publishing = {} /\ Publishing' = {} /\ (\A h \in Handler : HandlerAt(h, "idle"))'
  BY <1>2 DEF SettingInv, Publishing, HandlerAt
<1>4. saves' \in 0..MaxSaves
  BY SettingAssumption DEF Edit, SettingInv, SettingTypeOK
<1>5. SettingTypeOK'
  <2>1. blurred' \in BOOLEAN
    BY <1>2 DEF SettingInv, SettingTypeOK
  <2>2. memory' \in Setting /\ file' \in Setting \cup {Garbage}
    BY <1>1, <1>2 DEF SettingInv, SettingTypeOK
  <2> QED  BY <1>2, <1>4, <2>1, <2>2 DEF SettingInv, SettingTypeOK
<1>6. InStep'
  <2>1. CASE memory' = new /\ file' = new
    BY <1>1, <1>3, <2>1, SettingsLoad DEF InStep
  <2>2. CASE UNCHANGED <<memory, file, blurred>>
    BY <1>3, <2>2 DEF SettingInv, InStep, Loaded
  <2>3. CASE blurred' = TRUE
    BY <2>3 DEF InStep
  <2> QED  BY <1>2, <2>1, <2>2, <2>3
<1> QED  BY <1>3, <1>5, <1>6 DEF SettingInv

LEMMA RebootKeeps ==
  ASSUME SettingInv, Reboot
  PROVE  SettingInv'
<1>1. memory' = Loaded(file) /\ UNCHANGED <<kind, file, saves>> /\ blurred' = FALSE
  BY DEF Reboot
<1>2. handler' \in [Handler -> HandlerRecord] /\ \A h \in Handler : handler'[h].pc = "idle"
  BY SettingsLoad DEF Reboot, HandlerRecord, Waiting
<1>3. starts' \in 1..MaxBoots
  BY SettingAssumption DEF Reboot, SettingInv, SettingTypeOK
<1>4. memory' \in Setting /\ file \in Setting \cup {Garbage}
  BY <1>1, SettingsLoad DEF SettingInv, SettingTypeOK
<1>5. Publishing' = {}
  BY <1>2 DEF Publishing, HandlerAt
<1>6. blurred' \in BOOLEAN
  BY <1>1
<1>7. SettingTypeOK'
  BY <1>1, <1>2, <1>3, <1>4, <1>6 DEF SettingInv, SettingTypeOK, HandlerRecord
<1>8. InStep'
  BY <1>1, <1>5 DEF InStep, Loaded
<1> QED  BY <1>2, <1>7, <1>8 DEF SettingInv, HandlerAt

LEMMA SettingNextInv == SettingInv /\ [SupervisorNext]_supervisorVars => SettingInv'
<1> SUFFICES ASSUME SettingInv, [SupervisorNext]_supervisorVars PROVE SettingInv'
  OBVIOUS
<1>1. ASSUME UNCHANGED settingVars PROVE SettingInv'
  BY <1>1 DEF settingVars, SettingInv, SettingTypeOK, InStep, Publishing, HandlerAt, Loaded
<1>2. ASSUME EditDevices PROVE SettingInv'
  <2>1. memory.entries \in SUBSET Entry
    BY DEF SettingInv, SettingTypeOK, Setting
  <2>2. PICK e \in Entry : Edit(memory.entries \cup {e}) \/ Edit(memory.entries \ {e})
    BY <1>2 DEF EditDevices
  <2>3. memory.entries \cup {e} \in SUBSET Entry /\ memory.entries \ {e} \in SUBSET Entry
    BY <2>1
  <2> QED  BY <2>2, <2>3, EditKeeps
<1>3. ASSUME SettingStep PROVE SettingInv'
  BY <1>2, <1>3, SaveRequestKeeps, WriteKeeps, GivingUpKeeps, PublishKeeps DEF SettingStep
<1> QED
  BY <1>1, <1>3, RebootKeeps
  DEF SupervisorNext, LoadInitial, Spawn, StartFails, UnboundExits, Poll, Paused, Save,
      Restart, supervisorVars

(* What the dashboard shows and the daemon uses is what the next start     *)
(* will load, unless a save met another one, lost its client half way or   *)
(* failed after its rename: for any number of handlers, settings, tokens   *)
(* and restarts, beside the supervisor.                                    *)
THEOREM SettingsShown == SupervisorSpec => []SavedIsShown
<1>1. SettingInv => SavedIsShown
  BY DEF SettingInv, InStep, SavedIsShown
<1> QED  BY <1>1, SettingInitInv, SettingNextInv, PTL DEF SupervisorSpec

-----------------------------------------------------------------------------
(* Atomic writes. A file is synced before it is renamed, and nobody writes *)
(* to it later, so that every directory a power failure may bring back has *)
(* a synced target; and it is not older than any acknowledged call, since  *)
(* an acknowledgement forgets the directories before it. Both need that a  *)
(* thread finds its own file under its temporary name, which the counter   *)
(* gives within a process and create_new across processes.                 *)

WriterRecord ==
  [pc : {"idle", "open", "write", "sync", "rename", "syncdir"},
   file : 0..MaxWrites, tmp : (Pid \cup {0}) \X (0..MaxWrites)]

Names == (Pid \cup {0}) \X (0..MaxWrites)
Directory == UNION {[D -> 0..MaxWrites] : D \in SUBSET Names}

Renamed == {renames[i] : i \in DOMAIN renames}

(* f became the target no later than g.                                    *)
Before(f, g) ==
  \E i, j \in DOMAIN renames : i <= j /\ renames[i] = f /\ renames[j] = g

Types ==
  /\ writer \in [Writer -> WriterRecord]
  /\ calls \in 0..MaxWrites /\ counter \in 0..calls /\ pid \in Pid
  /\ content \in [0..calls -> {"none", "part", "whole", "synced", "torn"}]
  /\ trail \in Seq(Directory) /\ Len(trail) > 0
  /\ renames \in Seq(0..calls)
  /\ acked \subseteq 1..calls /\ stops \in 0..MaxStops

(* A thread in a call has a file and a name of its own.                    *)
Owns(w) ==
  ~Doing(w, "idle") =>
    /\ writer[w].file \in 1..calls
    /\ \E n \in 0..counter - 1 : writer[w].tmp = <<pid, n>>
    /\ writer[w].pc \in {"write", "sync", "rename"} =>
         writer[w].tmp \in DOMAIN Dir /\ Dir[writer[w].tmp] = writer[w].file
    /\ writer[w].pc # "syncdir" => writer[w].file \notin Renamed
    /\ writer[w].pc = "rename" => content[writer[w].file] = "synced"
    /\ writer[w].pc = "syncdir" => Before(writer[w].file, Dir[Target])

Apart ==
  \A v, w \in Writer :
    v # w /\ ~Doing(v, "idle") /\ ~Doing(w, "idle") =>
      writer[v].file # writer[w].file /\ writer[v].tmp # writer[w].tmp

(* Every directory that may come back has a good target.                   *)
GoodTarget(d) ==
  /\ Target \in DOMAIN d /\ d[Target] \in Renamed
  /\ \A f \in acked : Before(f, d[Target])

Lasting ==
  /\ \A i \in DOMAIN trail : GoodTarget(trail[i])
  /\ \A f \in Renamed : content[f] = "synced"
  /\ \A i, j \in DOMAIN renames : renames[i] = renames[j] => i = j

FileInv ==
  /\ Types /\ Apart /\ Lasting
  /\ \A w \in Writer : Owns(w)

-----------------------------------------------------------------------------
LEMMA Bounds == MaxWrites \in Nat /\ MaxStops \in Nat /\ Pid \subseteq Nat \ {0}
BY FileAssumption

LEMMA NoWriter == Idle \in WriterRecord /\ Idle.pc = "idle"
BY Bounds DEF Idle, WriterRecord, Target

LEMMA DirIsLast ==
  ASSUME FileInv
  PROVE  Dir \in Directory /\ GoodTarget(Dir) /\ Len(trail) \in DOMAIN trail
BY DEF FileInv, Types, Lasting, Dir

LEMMA FileInitInv == FileInit => FileInv
<1> SUFFICES ASSUME FileInit PROVE FileInv
  OBVIOUS
<1> DEFINE d == [n \in {Target} |-> 0]
<1>1. \A w \in Writer : writer[w].pc = "idle"
  BY NoWriter DEF FileInit
<1>2. d \in Directory
  <2>1. {Target} \in SUBSET Names
    BY Bounds DEF Target, Names
  <2>2. d \in [{Target} -> 0..MaxWrites]
    BY Bounds
  <2> QED  BY <2>1, <2>2 DEF Directory
<1>3. Target \in DOMAIN d /\ d[Target] = 0
  OBVIOUS
<1>4. trail = <<d>> /\ renames = <<0>> /\ acked = {} /\ calls = 0
  BY DEF FileInit
<1> HIDE DEF d
<1>5. trail \in Seq(Directory) /\ Len(trail) = 1 /\ \A i \in DOMAIN trail : trail[i] = d
  BY <1>2, <1>4
<1>6. renames \in Seq(0..calls) /\ DOMAIN renames = {1} /\ renames[1] = 0
  BY <1>4
<1>7. Types
  BY <1>4, <1>5, <1>6, NoWriter, Bounds DEF FileInit, Types
<1>8. Renamed = {0}
  BY <1>6 DEF Renamed
<1>9. \A i \in DOMAIN trail : GoodTarget(trail[i])
  BY <1>3, <1>4, <1>5, <1>8 DEF GoodTarget
<1>10. content[0] = "synced"
  BY DEF FileInit
<1>11. Lasting
  BY <1>6, <1>8, <1>9, <1>10 DEF Lasting
<1> QED  BY <1>1, <1>7, <1>11 DEF FileInv, Owns, Apart, Doing

-----------------------------------------------------------------------------
(* A thread that is in a call goes on in it.                               *)
LEMMA GoesOn ==
  ASSUME FileInv, NEW w \in Writer, ~Doing(w, "idle"),
         NEW pc \in {"open", "write", "sync", "rename", "syncdir"}, Then(w, pc)
  PROVE  /\ writer' \in [Writer -> WriterRecord]
         /\ writer'[w].pc = pc
         /\ \A x \in Writer : /\ writer'[x].file = writer[x].file
                              /\ writer'[x].tmp = writer[x].tmp
                              /\ x # w => writer'[x].pc = writer[x].pc
         /\ Apart'
<1>1. writer \in [Writer -> WriterRecord]
  BY DEF FileInv, Types
<1>2. writer' = [writer EXCEPT ![w].pc = pc]
  BY DEF Then
<1>3. writer' \in [Writer -> WriterRecord]
  BY <1>1, <1>2 DEF WriterRecord
<1>4. writer'[w].pc = pc
  BY <1>1, <1>2 DEF WriterRecord
<1>5. \A x \in Writer : /\ writer'[x].file = writer[x].file
                        /\ writer'[x].tmp = writer[x].tmp
                        /\ x # w => writer'[x].pc = writer[x].pc
  BY <1>1, <1>2 DEF WriterRecord
<1>6. \A x \in Writer : Doing(x, "idle")' <=> Doing(x, "idle")
  BY <1>4, <1>5 DEF Doing
<1>7. Apart'
  BY <1>5, <1>6 DEF FileInv, Apart
<1> QED  BY <1>3, <1>4, <1>5, <1>7

(* A thread leaves its call.                                               *)
LEMMA Leaves ==
  ASSUME FileInv, NEW w \in Writer, writer' = [writer EXCEPT ![w] = Idle]
  PROVE  /\ writer' \in [Writer -> WriterRecord]
         /\ writer'[w].pc = "idle"
         /\ \A x \in Writer : x # w => writer'[x] = writer[x]
         /\ Apart'
<1>1. writer \in [Writer -> WriterRecord]
  BY DEF FileInv, Types
<1>2. writer' \in [Writer -> WriterRecord]
  BY <1>1, NoWriter
<1>3. writer'[w].pc = "idle" /\ \A x \in Writer : x # w => writer'[x] = writer[x]
  BY <1>1, NoWriter
<1>4. Apart'
  BY <1>3 DEF FileInv, Apart, Doing
<1> QED  BY <1>2, <1>3, <1>4

(* A change of the directory.                                              *)
LEMMA Changed ==
  ASSUME FileInv, NEW d \in Directory, Change(d)
  PROVE  /\ trail' \in Seq(Directory) /\ Len(trail') > 0 /\ Dir' = d
         /\ \A i \in DOMAIN trail' : trail'[i] = d \/ \E j \in DOMAIN trail : trail'[i] = trail[j]
<1>1. trail \in Seq(Directory) /\ trail' = Append(trail, d)
  BY DEF FileInv, Types, Change
<1>2. /\ trail' \in Seq(Directory) /\ Len(trail') = Len(trail) + 1 /\ Len(trail) \in Nat
      /\ trail'[Len(trail) + 1] = d
      /\ \A i \in 1..Len(trail) : trail'[i] = trail[i]
  BY <1>1
<1>3. Dir' = d
  BY <1>2 DEF Dir
<1>4. DOMAIN trail' = 1..Len(trail) + 1 /\ DOMAIN trail = 1..Len(trail)
  BY <1>1, <1>2
<1>5. ASSUME NEW i \in DOMAIN trail'
      PROVE  trail'[i] = d \/ \E j \in DOMAIN trail : trail'[i] = trail[j]
  <2>1. CASE i = Len(trail) + 1
    BY <1>2, <2>1
  <2>2. CASE i # Len(trail) + 1
    <3>1. i \in 1..Len(trail)
      BY <1>2, <1>4, <2>2
    <3> QED  BY <1>2, <1>4, <3>1
  <2> QED  BY <2>1, <2>2
<1> QED  BY <1>2, <1>3, <1>5

(* A change of names other than the target's.                              *)
LEMMA TargetKept ==
  ASSUME FileInv, NEW d \in Directory, Change(d), Target \in DOMAIN d, d[Target] = Dir[Target],
         UNCHANGED <<renames, acked>>
  PROVE  (\A i \in DOMAIN trail : GoodTarget(trail[i]))' /\ Dir'[Target] = Dir[Target]
<1>1. GoodTarget(d)
  BY DirIsLast DEF GoodTarget
<1>2. \A i \in DOMAIN trail' : GoodTarget(trail'[i])
  BY <1>1, Changed DEF FileInv, Lasting
<1>3. renames' = renames /\ acked' = acked
  OBVIOUS
<1>4. (\A i \in DOMAIN trail : GoodTarget(trail[i]))'
  BY <1>2, <1>3 DEF GoodTarget, Renamed, Before
<1> QED  BY <1>4, Changed

(* Steps within a call that leave the directory as it is.                  *)
LEMMA CallKeeps ==
  ASSUME FileInv, NEW w \in Writer, Call(w)
  PROVE  FileInv'
<1> DEFINE r == [pc |-> "open", file |-> calls + 1, tmp |-> <<pid, counter>>]
<1>1. /\ writer \in [Writer -> WriterRecord]
      /\ calls \in 0..MaxWrites /\ calls < MaxWrites /\ calls' = calls + 1
      /\ counter \in 0..calls /\ counter' = counter + 1 /\ pid \in Pid
      /\ content \in [0..calls -> {"none", "part", "whole", "synced", "torn"}]
      /\ renames \in Seq(0..calls) /\ acked \subseteq 1..calls
      /\ UNCHANGED <<pid, trail, renames, acked, stops>>
  BY Bounds DEF FileInv, Types, Call
<1>2. r \in WriterRecord
  BY <1>1, Bounds DEF WriterRecord
<1>3. writer' = [writer EXCEPT ![w] = r]
  BY DEF Call
<1>4. r.pc = "open" /\ r.file = calls + 1 /\ r.tmp = <<pid, counter>>
  OBVIOUS
<1> HIDE DEF r
<1>5. /\ writer' \in [Writer -> WriterRecord] /\ writer'[w] = r
      /\ \A x \in Writer : x # w => writer'[x] = writer[x]
  BY <1>1, <1>2, <1>3
<1>6. /\ content' \in [0..calls' -> {"none", "part", "whole", "synced", "torn"}]
      /\ \A f \in 0..calls : content'[f] = content[f]
  <2>1. content' = [f \in 0..calls + 1 |-> IF f = calls + 1 THEN "none" ELSE content[f]]
    BY DEF Call
  <2> QED  BY <1>1, <2>1, Bounds
<1>7. Renamed \subseteq 0..calls
  BY <1>1 DEF Renamed
<1>8. Types'
  <2>1. renames' \in Seq(0..calls')
    <3>1. 0..calls \subseteq 0..calls'
      BY <1>1
    <3> QED  BY <1>1, <3>1
  <2>2. counter' \in 0..calls' /\ calls' \in 0..MaxWrites /\ acked' \subseteq 1..calls'
    BY <1>1, Bounds
  <2> QED  BY <1>1, <1>5, <1>6, <2>1, <2>2 DEF FileInv, Types
<1>9. ASSUME NEW x \in Writer, x # w, ~Doing(x, "idle")
      PROVE  writer[x].file \in 1..calls /\ \E n \in 0..counter - 1 : writer[x].tmp = <<pid, n>>
  BY <1>9 DEF FileInv, Owns
<1>10. ASSUME NEW x \in Writer, x # w, ~Doing(x, "idle")
       PROVE  writer[x].file # r.file /\ writer[x].tmp # r.tmp
  BY <1>1, <1>4, <1>9, <1>10
<1>11. Apart'
  BY <1>5, <1>10 DEF FileInv, Apart, Doing
<1>12. Lasting'
  <2>1. \A f \in Renamed : content'[f] = "synced"
    BY <1>6, <1>7 DEF FileInv, Lasting
  <2>2. Renamed' = Renamed
    BY <1>1 DEF Renamed
  <2>3. (\A i \in DOMAIN trail : GoodTarget(trail[i]))'
    BY <1>1 DEF FileInv, Lasting, GoodTarget, Before, Renamed
  <2> QED  BY <1>1, <2>1, <2>2, <2>3 DEF FileInv, Lasting
<1>13. ASSUME NEW x \in Writer PROVE Owns(x)'
  <2>1. CASE x = w
    <3>1. writer'[x].file \in 1..calls' /\ writer'[x].file \notin Renamed
      BY <1>1, <1>4, <1>5, <1>7, <2>1
    <3>2. counter \in 0..counter' - 1 /\ writer'[x].tmp = <<pid', counter>>
      BY <1>1, <1>4, <1>5, <2>1
    <3>3. writer'[x].pc = "open"
      BY <1>4, <1>5, <2>1
    <3> QED  BY <1>1, <3>1, <3>2, <3>3 DEF Owns, Renamed
  <2>2. CASE x # w /\ ~Doing(x, "idle")
    <3>1. writer'[x] = writer[x] /\ Owns(x)
      BY <1>5, <2>2 DEF FileInv
    <3>2. writer[x].file \in 1..calls'
      BY <1>1, <1>9, <2>2
    <3>3. \E n \in 0..counter' - 1 : writer[x].tmp = <<pid', n>>
      BY <1>1, <1>9, <2>2
    <3>4. writer[x].pc = "rename" => content'[writer[x].file] = "synced"
      BY <1>1, <1>6, <1>9, <2>2, <3>1 DEF Owns
    <3> QED  BY <1>1, <2>2, <3>1, <3>2, <3>3, <3>4 DEF Owns, Doing, Renamed, Before, Dir
  <2>3. CASE x # w /\ Doing(x, "idle")
    BY <1>5, <2>3 DEF Owns, Doing
  <2> QED  BY <2>1, <2>2, <2>3
<1> QED  BY <1>8, <1>11, <1>12, <1>13 DEF FileInv

(* A thread opens, writes or syncs its own file: those that were the       *)
(* target and those of other threads stay as they are.                     *)
LEMMA OwnContent ==
  ASSUME FileInv, NEW w \in Writer, NEW c \in {"part", "whole", "synced"},
         writer[w].pc \in {"open", "write", "sync"},
         content' = [content EXCEPT ![writer[w].file] = c],
         UNCHANGED calls
  PROVE  /\ content' \in [0..calls' -> {"none", "part", "whole", "synced", "torn"}]
         /\ content'[writer[w].file] = c
         /\ \A f \in Renamed : content'[f] = "synced"
         /\ \A x \in Writer : x # w /\ ~Doing(x, "idle") =>
               content'[writer[x].file] = content[writer[x].file]
<1>1. /\ content \in [0..calls -> {"none", "part", "whole", "synced", "torn"}]
      /\ renames \in Seq(0..calls) /\ calls \in Nat
  BY Bounds DEF FileInv, Types
<1>2. writer[w].file \in 1..calls /\ writer[w].file \notin Renamed /\ ~Doing(w, "idle")
  BY DEF FileInv, Owns, Doing
<1>3. Renamed \subseteq 0..calls
  BY <1>1 DEF Renamed
<1>4. \A f \in Renamed : content'[f] = "synced"
  BY <1>1, <1>2, <1>3 DEF FileInv, Lasting
<1>5. ASSUME NEW x \in Writer, x # w, ~Doing(x, "idle")
      PROVE  content'[writer[x].file] = content[writer[x].file]
  <2>1. writer[x].file \in 1..calls /\ writer[x].file # writer[w].file
    BY <1>2, <1>5 DEF FileInv, Owns, Apart
  <2> QED  BY <1>1, <2>1
<1> QED  BY <1>1, <1>2, <1>4, <1>5

LEMMA WriteAndSyncKeep ==
  ASSUME FileInv, NEW w \in Writer, WriteAll(w) \/ SyncFile(w)
  PROVE  FileInv'
<1>1. PICK pc \in {"sync", "rename"}, c \in {"whole", "synced"} :
        /\ Then(w, pc) /\ content' = [content EXCEPT ![writer[w].file] = c]
        /\ pc = "rename" => c = "synced"
        /\ writer[w].pc \in {"write", "sync"}
        /\ UNCHANGED <<counter, pid, calls, trail, renames, acked, stops>>
  BY DEF WriteAll, SyncFile, Doing
<1>2. ~Doing(w, "idle")
  BY <1>1 DEF Doing
<1>3. /\ writer' \in [Writer -> WriterRecord] /\ writer'[w].pc = pc
      /\ \A x \in Writer : /\ writer'[x].file = writer[x].file
                           /\ writer'[x].tmp = writer[x].tmp
                           /\ x # w => writer'[x].pc = writer[x].pc
      /\ Apart'
  BY <1>1, <1>2, GoesOn
<1>4. /\ content' \in [0..calls' -> {"none", "part", "whole", "synced", "torn"}]
      /\ content'[writer[w].file] = c
      /\ \A f \in Renamed : content'[f] = "synced"
      /\ \A x \in Writer : x # w /\ ~Doing(x, "idle") =>
            content'[writer[x].file] = content[writer[x].file]
  BY <1>1, OwnContent
<1>5. Types'
  BY <1>1, <1>3, <1>4 DEF FileInv, Types
<1>6. Lasting'
  BY <1>1, <1>4 DEF FileInv, Lasting, GoodTarget, Before, Renamed
<1>7. ASSUME NEW x \in Writer PROVE Owns(x)'
  <2>1. Owns(x)
    BY DEF FileInv
  <2>2. CASE x = w
    BY <1>1, <1>3, <1>4, <2>1, <2>2 DEF Owns, Doing, Renamed, Dir
  <2>3. CASE x # w
    BY <1>1, <1>3, <1>4, <2>1, <2>3 DEF Owns, Doing, Renamed, Before, Dir
  <2> QED  BY <2>2, <2>3
<1> QED  BY <1>3, <1>5, <1>6, <1>7 DEF FileInv

LEMMA OpenKeeps ==
  ASSUME FileInv, NEW w \in Writer, Open(w)
  PROVE  FileInv'
<1> DEFINE tmp == writer[w].tmp
           d == [n \in DOMAIN Dir \cup {tmp} |-> IF n = tmp THEN writer[w].file ELSE Dir[n]]
<1>1. /\ Then(w, "write") /\ content' = [content EXCEPT ![writer[w].file] = "part"]
      /\ writer[w].pc = "open" /\ ~Doing(w, "idle") /\ tmp \notin DOMAIN Dir
      /\ Change(d) /\ UNCHANGED <<counter, pid, calls, renames, acked, stops>>
  BY DEF Open, Doing
<1>2. /\ writer[w] \in WriterRecord /\ Dir \in Directory /\ Target \in DOMAIN Dir
      /\ writer[w].file \in 0..MaxWrites /\ tmp \in Names
  BY DirIsLast DEF FileInv, Types, WriterRecord, GoodTarget, Names
<1>3. d \in Directory /\ Target \in DOMAIN d /\ d[Target] = Dir[Target]
  <2>1. PICK D \in SUBSET Names : Dir \in [D -> 0..MaxWrites]
    BY <1>2 DEF Directory
  <2>2. D \cup {tmp} \in SUBSET Names
    BY <1>2
  <2>3. d \in [D \cup {tmp} -> 0..MaxWrites]
    BY <1>2, <2>1
  <2> QED  BY <1>1, <1>2, <2>2, <2>3 DEF Directory
<1>4. d[tmp] = writer[w].file /\ tmp \in DOMAIN d
      /\ \A n \in DOMAIN Dir : n \in DOMAIN d /\ d[n] = Dir[n]
  BY <1>1
<1> HIDE DEF d
<1>5. /\ writer' \in [Writer -> WriterRecord] /\ writer'[w].pc = "write"
      /\ \A x \in Writer : /\ writer'[x].file = writer[x].file
                           /\ writer'[x].tmp = writer[x].tmp
                           /\ x # w => writer'[x].pc = writer[x].pc
      /\ Apart'
  BY <1>1, GoesOn
<1>6. /\ content' \in [0..calls' -> {"none", "part", "whole", "synced", "torn"}]
      /\ \A f \in Renamed : content'[f] = "synced"
      /\ \A x \in Writer : x # w /\ ~Doing(x, "idle") =>
            content'[writer[x].file] = content[writer[x].file]
  BY <1>1, OwnContent
<1>7. trail' \in Seq(Directory) /\ Len(trail') > 0 /\ Dir' = d
  BY <1>1, <1>3, Changed
<1>8. (\A i \in DOMAIN trail : GoodTarget(trail[i]))' /\ Dir'[Target] = Dir[Target]
  BY <1>1, <1>3, TargetKept
<1>9. Types'
  BY <1>1, <1>5, <1>6, <1>7 DEF FileInv, Types
<1>10. Lasting'
  BY <1>1, <1>6, <1>8 DEF FileInv, Lasting, Renamed
<1>11. ASSUME NEW x \in Writer PROVE Owns(x)'
  <2>1. Owns(x)
    BY DEF FileInv
  <2>2. CASE x = w
    BY <1>1, <1>4, <1>5, <1>7, <2>1, <2>2 DEF Owns, Doing, Renamed
  <2>3. CASE x # w
    BY <1>1, <1>4, <1>5, <1>6, <1>7, <1>8, <2>1, <2>3 DEF Owns, Doing, Renamed, Before
  <2> QED  BY <2>2, <2>3
<1> QED  BY <1>5, <1>9, <1>10, <1>11 DEF FileInv

(* The renamed file is the last of the list of targets.                    *)
LEMMA RenameKeeps ==
  ASSUME FileInv, NEW w \in Writer, Rename(w)
  PROVE  FileInv'
<1>0. PICK f, tmp : f = writer[w].file /\ tmp = writer[w].tmp
  OBVIOUS
<1> DEFINE d == [Without(Dir, tmp) EXCEPT ![Target] = f]
<1>1. /\ writer[w].pc = "rename" /\ ~Doing(w, "idle") /\ Then(w, "syncdir")
      /\ tmp \in DOMAIN Dir /\ Dir[tmp] = f /\ f \in 1..calls /\ f \notin Renamed
      /\ content[f] = "synced" /\ \E n \in 0..counter - 1 : tmp = <<pid, n>>
  BY <1>0 DEF Rename, Doing, FileInv, Owns
<1>2. /\ Change(d) /\ renames' = Append(renames, f)
      /\ UNCHANGED <<counter, pid, calls, content, acked, stops>>
  BY <1>0, <1>1 DEF Rename
<1>3. tmp # Target /\ \A x \in Writer : x # w /\ ~Doing(x, "idle") =>
                         writer[x].tmp # tmp /\ writer[x].tmp # Target
  <2>1. pid # 0
    BY Bounds DEF FileInv, Types
  <2>2. tmp # Target
    BY <1>1, <2>1 DEF Target
  <2>3. ASSUME NEW x \in Writer, x # w, ~Doing(x, "idle")
        PROVE  writer[x].tmp # tmp /\ writer[x].tmp # Target
    <3>1. \E n \in 0..counter - 1 : writer[x].tmp = <<pid, n>>
      BY <2>3 DEF FileInv, Owns
    <3>2. writer[x].tmp # Target
      BY <2>1, <3>1 DEF Target
    <3> QED  BY <1>0, <1>1, <2>3, <3>2 DEF FileInv, Apart
  <2> QED  BY <2>2, <2>3
<1>4. Dir \in Directory /\ GoodTarget(Dir) /\ calls \in 0..MaxWrites /\ renames \in Seq(0..calls)
  BY DirIsLast DEF FileInv, Types
<1>5. /\ d \in Directory /\ Target \in DOMAIN d /\ d[Target] = f
      /\ \A n \in DOMAIN Dir : n # tmp /\ n # Target => n \in DOMAIN d /\ d[n] = Dir[n]
  <2>1. PICK D \in SUBSET Names : Dir \in [D -> 0..MaxWrites]
    BY <1>4 DEF Directory
  <2>2. Without(Dir, tmp) \in [D \ {tmp} -> 0..MaxWrites]
    BY <2>1 DEF Without
  <2>3. /\ Target \in D \ {tmp}
        /\ \A n \in D \ {tmp} : Without(Dir, tmp)[n] = Dir[n]
    BY <1>3, <1>4, <2>1 DEF Without, GoodTarget
  <2>4. f \in 0..MaxWrites
    BY <1>1, <1>4, Bounds
  <2>5. d \in [D \ {tmp} -> 0..MaxWrites]
    BY <2>2, <2>4
  <2>6. D \ {tmp} \in SUBSET Names
    OBVIOUS
  <2>7. d \in Directory
    BY <2>5, <2>6 DEF Directory
  <2> QED  BY <2>1, <2>2, <2>3, <2>5, <2>7
<1> HIDE DEF d
<1>6. /\ Len(renames) \in Nat /\ DOMAIN renames = 1..Len(renames)
      /\ DOMAIN renames' = 1..Len(renames) + 1 /\ renames'[Len(renames) + 1] = f
      /\ \A i \in 1..Len(renames) : renames'[i] = renames[i]
      /\ renames' \in Seq(0..calls)
  <2>1. f \in 0..calls
    BY <1>1, <1>4, Bounds
  <2> QED  BY <1>2, <1>4, <2>1
<1>7. Renamed' = Renamed \cup {f}
  BY <1>6 DEF Renamed
<1>8. \A g \in Renamed' : Before(g, f)'
  <2>1. ASSUME NEW g \in Renamed' PROVE Before(g, f)'
    <3>1. PICK i \in DOMAIN renames' : renames'[i] = g
      BY DEF Renamed
    <3>2. i <= Len(renames) + 1 /\ Len(renames) + 1 \in DOMAIN renames'
      BY <1>6
    <3> QED  BY <1>6, <3>1, <3>2 DEF Before
  <2> QED  BY <2>1
<1>9. \A g, h : Before(g, h) => Before(g, h)'
  <2>1. ASSUME NEW g, NEW h, Before(g, h) PROVE Before(g, h)'
    <3>1. PICK i \in 1..Len(renames), j \in 1..Len(renames) :
            i <= j /\ renames[i] = g /\ renames[j] = h
      BY <1>6, <2>1 DEF Before
    <3>2. i \in DOMAIN renames' /\ j \in DOMAIN renames'
          /\ renames'[i] = g /\ renames'[j] = h
      BY <1>6, <3>1
    <3> QED  BY <3>1, <3>2 DEF Before
  <2> QED  BY <2>1
<1>10. /\ trail' \in Seq(Directory) /\ Len(trail') > 0 /\ Dir' = d
       /\ \A i \in DOMAIN trail' : trail'[i] = d \/ \E j \in DOMAIN trail : trail'[i] = trail[j]
  BY <1>2, <1>5, Changed
<1>11. acked \subseteq Renamed
  BY <1>4 DEF GoodTarget, Before, Renamed
<1>12. ASSUME NEW i \in DOMAIN trail' PROVE GoodTarget(trail[i])'
  <2>1. CASE trail'[i] = d
    BY <1>2, <1>5, <1>7, <1>8, <1>11, <2>1 DEF GoodTarget
  <2>2. CASE \E j \in DOMAIN trail : trail'[i] = trail[j]
    <3>1. PICK j \in DOMAIN trail : trail'[i] = trail[j]
      BY <2>2
    <3>2. GoodTarget(trail[j])
      BY DEF FileInv, Lasting
    <3>3. Target \in DOMAIN trail'[i] /\ trail'[i][Target] \in Renamed'
      BY <1>7, <3>1, <3>2 DEF GoodTarget
    <3>4. \A g \in acked : Before(g, trail[j][Target])
      BY <3>2 DEF GoodTarget
    <3>5. \A g \in acked' : Before(g, trail[i][Target])'
      BY <1>2, <1>9, <3>1, <3>4 DEF Before
    <3> QED  BY <3>3, <3>5 DEF GoodTarget
  <2> QED  BY <1>10, <2>1, <2>2
<1>13. Lasting'
  <2>1. \A g \in Renamed' : content'[g] = "synced"
    BY <1>1, <1>2, <1>7 DEF FileInv, Lasting
  <2>2. ASSUME NEW i \in DOMAIN renames', NEW j \in DOMAIN renames', renames'[i] = renames'[j]
        PROVE  i = j
    <3>1. \A k \in 1..Len(renames) : renames[k] # f
      BY <1>1, <1>6 DEF Renamed
    <3> QED  BY <1>6, <2>2, <3>1 DEF FileInv, Lasting
  <2> QED  BY <1>12, <2>1, <2>2 DEF Lasting
<1>14. /\ writer' \in [Writer -> WriterRecord] /\ writer'[w].pc = "syncdir"
       /\ \A x \in Writer : /\ writer'[x].file = writer[x].file
                            /\ writer'[x].tmp = writer[x].tmp
                            /\ x # w => writer'[x].pc = writer[x].pc
       /\ Apart'
  BY <1>1, GoesOn
<1>15. Types'
  BY <1>2, <1>6, <1>10, <1>14 DEF FileInv, Types
<1>16. ASSUME NEW x \in Writer PROVE Owns(x)'
  <2>1. Owns(x)
    BY DEF FileInv
  <2>2. CASE x = w
    <3>1. Before(f, f)' /\ Dir'[Target] = f /\ writer'[x].file = f
      BY <1>0, <1>5, <1>7, <1>8, <1>10, <1>14, <2>2
    <3>2. Before(writer[x].file, Dir[Target])'
      BY <3>1 DEF Before
    <3> QED  BY <1>1, <1>2, <1>14, <2>1, <2>2, <3>2 DEF Owns, Doing
  <2>3. CASE x # w /\ Doing(x, "idle")
    BY <1>14, <2>3 DEF Owns, Doing
  <2>4. CASE x # w /\ ~Doing(x, "idle")
    <3>1. writer[x].file # f /\ writer[x].tmp # tmp /\ writer[x].tmp # Target
      BY <1>0, <1>1, <1>3, <2>4 DEF FileInv, Apart
    <3>2. writer[x].pc # "syncdir" => writer[x].file \notin Renamed'
      BY <1>7, <2>1, <2>4, <3>1 DEF Owns
    <3>3. writer[x].pc \in {"write", "sync", "rename"} =>
            writer[x].tmp \in DOMAIN d /\ d[writer[x].tmp] = writer[x].file
      BY <1>5, <2>1, <2>4, <3>1 DEF Owns
    <3>4. writer[x].pc = "syncdir" => Before(writer[x].file, Dir[Target])'
      <4>1. ASSUME writer[x].pc = "syncdir" PROVE writer[x].file \in Renamed'
        BY <1>7, <2>1, <2>4, <4>1 DEF Owns, Before, Renamed
      <4>2. Dir'[Target] = f /\ writer'[x].file = writer[x].file
        BY <1>5, <1>10, <1>14
      <4> QED  BY <1>8, <4>1, <4>2 DEF Before
    <3> QED
      BY <1>2, <1>10, <1>14, <2>1, <2>4, <3>2, <3>3, <3>4 DEF Owns, Doing
  <2> QED  BY <2>2, <2>3, <2>4
<1> QED  BY <1>13, <1>14, <1>15, <1>16 DEF FileInv

LEMMA SyncDirKeeps ==
  ASSUME FileInv, NEW w \in Writer, SyncDir(w)
  PROVE  FileInv'
<1>1. /\ writer[w].pc = "syncdir" /\ trail' = <<Dir>>
      /\ acked' = acked \cup {writer[w].file}
      /\ writer' = [writer EXCEPT ![w] = Idle]
      /\ UNCHANGED <<counter, pid, calls, content, renames, stops>>
  BY DEF SyncDir, Doing
<1>2. writer[w].file \in 1..calls /\ Before(writer[w].file, Dir[Target])
  BY <1>1 DEF FileInv, Owns, Doing
<1>3. Dir \in Directory /\ GoodTarget(Dir)
  BY DirIsLast
<1>4. /\ trail' \in Seq(Directory) /\ Len(trail') = 1
      /\ \A i \in DOMAIN trail' : trail'[i] = Dir
  BY <1>1, <1>3
<1>5. Dir' = Dir
  BY <1>4 DEF Dir
<1>6. /\ writer' \in [Writer -> WriterRecord] /\ writer'[w].pc = "idle"
      /\ \A x \in Writer : x # w => writer'[x] = writer[x]
      /\ Apart'
  BY <1>1, Leaves
<1>7. Types'
  <2>1. acked' \subseteq 1..calls
    BY <1>1, <1>2 DEF FileInv, Types
  <2>2. trail' \in Seq(Directory) /\ Len(trail') > 0
    BY <1>4
  <2> QED  BY <1>1, <1>6, <2>1, <2>2 DEF FileInv, Types
<1>8. Lasting'
  <2>1. (\A i \in DOMAIN trail : GoodTarget(trail[i]))'
    BY <1>1, <1>2, <1>3, <1>4 DEF GoodTarget, Renamed, Before
  <2> QED  BY <1>1, <2>1 DEF FileInv, Lasting, Renamed
<1>9. ASSUME NEW x \in Writer PROVE Owns(x)'
  <2>1. CASE x = w
    BY <1>6, <2>1 DEF Owns, Doing
  <2>2. CASE x # w
    <3>1. Owns(x) /\ writer'[x] = writer[x]
      BY <1>6, <2>2 DEF FileInv
    <3>2. Doing(x, "idle")' <=> Doing(x, "idle")
      BY <3>1 DEF Doing
    <3>3. writer[x].pc = "syncdir" =>
            (Before(writer[x].file, Dir[Target]) => Before(writer[x].file, Dir[Target])')
      BY <1>1, <1>5, <3>1 DEF Before
    <3> QED  BY <1>1, <1>5, <3>1, <3>2, <3>3 DEF Owns, Renamed
  <2> QED  BY <2>1, <2>2
<1> QED  BY <1>6, <1>7, <1>8, <1>9 DEF FileInv

(* A call that fails removes a name that no other thread has.              *)
LEMMA CallFailsKeeps ==
  ASSUME FileInv, NEW w \in Writer, CallFails(w)
  PROVE  FileInv'
<1>0. PICK tmp : tmp = writer[w].tmp
  OBVIOUS
<1> DEFINE d == Without(Dir, tmp)
<1>1. /\ ~Doing(w, "idle") /\ writer' = [writer EXCEPT ![w] = Idle]
      /\ (tmp \in DOMAIN Dir /\ Change(d)) \/ UNCHANGED trail
      /\ UNCHANGED <<counter, pid, calls, content, renames, acked, stops>>
  BY <1>0 DEF CallFails
<1>2. tmp # Target
  <2>1. pid # 0
    BY Bounds DEF FileInv, Types
  <2>2. \E n \in 0..counter - 1 : tmp = <<pid, n>>
    BY <1>0, <1>1 DEF FileInv, Owns
  <2> QED  BY <2>1, <2>2 DEF Target
<1>3. /\ writer' \in [Writer -> WriterRecord] /\ writer'[w].pc = "idle"
      /\ \A x \in Writer : x # w => writer'[x] = writer[x]
      /\ Apart'
  BY <1>1, Leaves
<1>4. /\ trail' \in Seq(Directory) /\ Len(trail') > 0
      /\ (\A i \in DOMAIN trail : GoodTarget(trail[i]))'
      /\ Dir'[Target] = Dir[Target]
      /\ \A n \in DOMAIN Dir : n # tmp => n \in DOMAIN Dir' /\ Dir'[n] = Dir[n]
  <2>1. CASE Change(d)
    <3>1. Dir \in Directory /\ GoodTarget(Dir)
      BY DirIsLast
    <3>2. PICK D \in SUBSET Names : Dir \in [D -> 0..MaxWrites]
      BY <3>1 DEF Directory
    <3>3. d \in [D \ {tmp} -> 0..MaxWrites] /\ D \ {tmp} \in SUBSET Names
      BY <3>2 DEF Without
    <3>4. d \in Directory
      BY <3>3 DEF Directory
    <3>5. \A n \in DOMAIN Dir : n # tmp => n \in DOMAIN d /\ d[n] = Dir[n]
      BY <3>2 DEF Without
    <3>6. Target \in DOMAIN d /\ d[Target] = Dir[Target]
      BY <1>2, <3>1, <3>5 DEF GoodTarget
    <3> HIDE DEF d
    <3>7. renames' = renames /\ acked' = acked
      BY <1>1
    <3> QED  BY <2>1, <3>4, <3>5, <3>6, <3>7, Changed, TargetKept
  <2>2. CASE UNCHANGED trail
    <3>1. Dir' = Dir
      BY <2>2 DEF Dir
    <3>2. trail' \in Seq(Directory) /\ Len(trail') > 0
      BY <2>2 DEF FileInv, Types
    <3>3. (\A i \in DOMAIN trail : GoodTarget(trail[i]))'
      BY <1>1, <2>2 DEF FileInv, Lasting, GoodTarget, Renamed, Before
    <3> QED  BY <3>1, <3>2, <3>3
  <2> QED  BY <1>1, <2>1, <2>2
<1>5. Types'
  BY <1>1, <1>3, <1>4 DEF FileInv, Types
<1>6. Lasting'
  BY <1>1, <1>4 DEF FileInv, Lasting, Renamed
<1>7. ASSUME NEW x \in Writer PROVE Owns(x)'
  <2>1. CASE x = w
    BY <1>3, <2>1 DEF Owns, Doing
  <2>2. CASE x # w /\ Doing(x, "idle")
    BY <1>3, <2>2 DEF Owns, Doing
  <2>3. CASE x # w /\ ~Doing(x, "idle")
    <3>1. Owns(x) /\ writer'[x] = writer[x]
      BY <1>3, <2>3 DEF FileInv
    <3>2. writer[x].tmp # tmp
      BY <1>0, <1>1, <2>3 DEF FileInv, Apart
    <3>3. writer[x].pc = "syncdir" => Before(writer[x].file, Dir[Target])'
      BY <1>1, <1>4, <2>3, <3>1 DEF Owns, Before
    <3> QED  BY <1>1, <1>4, <2>3, <3>1, <3>2, <3>3 DEF Owns, Renamed
  <2> QED  BY <2>1, <2>2, <2>3
<1> QED  BY <1>3, <1>5, <1>6, <1>7 DEF FileInv

(* The process ends; after a power failure an earlier directory is back,   *)
(* and what was not synced is damaged.                                     *)
LEMMA RestartKeeps ==
  ASSUME FileInv, Killed \/ PowerLoss
  PROVE  FileInv'
<1>1. /\ writer' = [w \in Writer |-> Idle] /\ counter' = 0 /\ pid' \in Pid
      /\ stops' = stops + 1 /\ stops < MaxStops
      /\ UNCHANGED <<calls, renames, acked>>
  BY DEF Killed, PowerLoss, Restarted
<1>2. /\ content \in [0..calls -> {"none", "part", "whole", "synced", "torn"}]
      /\ trail \in Seq(Directory) /\ Len(trail) > 0 /\ stops \in 0..MaxStops
      /\ renames \in Seq(0..calls) /\ calls \in Nat
  BY Bounds DEF FileInv, Types
<1>3. Renamed \subseteq 0..calls /\ \A f \in Renamed : content[f] = "synced"
  BY <1>2 DEF FileInv, Lasting, Renamed
<1>4. /\ content' \in [0..calls -> {"none", "part", "whole", "synced", "torn"}]
      /\ \A f \in Renamed : content'[f] = "synced"
  <2>1. CASE Killed
    BY <1>2, <1>3, <2>1 DEF Killed
  <2>2. CASE PowerLoss
    <3>1. PICK Torn \in SUBSET Unsynced :
            content' = [f \in DOMAIN content |-> IF f \in Torn THEN "torn" ELSE content[f]]
      BY <2>2 DEF PowerLoss
    <3>2. \A f \in Renamed : f \notin Torn
      BY <1>3, <3>1 DEF Unsynced
    <3> QED  BY <1>2, <1>3, <3>1, <3>2
  <2> QED  BY <2>1, <2>2
<1>5. /\ trail' \in Seq(Directory) /\ Len(trail') > 0
      /\ \A i \in DOMAIN trail' : \E j \in DOMAIN trail : trail'[i] = trail[j]
  <2>1. CASE Killed
    BY <1>2, <2>1 DEF Killed
  <2>2. CASE PowerLoss
    <3>1. PICK j \in DOMAIN trail : trail' = <<trail[j]>>
      BY <2>2 DEF PowerLoss
    <3>2. trail[j] \in Directory
      BY <1>2
    <3>3. trail' \in Seq(Directory) /\ Len(trail') = 1 /\ \A i \in DOMAIN trail' : trail'[i] = trail[j]
      BY <3>1, <3>2
    <3> QED  BY <3>1, <3>3
  <2> QED  BY <2>1, <2>2
<1>6. \A w \in Writer : writer'[w].pc = "idle"
  BY <1>1, NoWriter
<1>7. Types'
  <2>1. writer' \in [Writer -> WriterRecord]
    BY <1>1, NoWriter
  <2>2. stops' \in 0..MaxStops /\ counter' \in 0..calls'
    BY <1>1, <1>2, Bounds
  <2> QED  BY <1>1, <1>4, <1>5, <2>1, <2>2 DEF FileInv, Types
<1>8. Lasting'
  <2>1. (\A i \in DOMAIN trail : GoodTarget(trail[i]))'
    BY <1>1, <1>5 DEF FileInv, Lasting, GoodTarget, Renamed, Before
  <2> QED  BY <1>1, <1>4, <2>1 DEF FileInv, Lasting, Renamed
<1> QED  BY <1>6, <1>7, <1>8 DEF FileInv, Owns, Apart, Doing

LEMMA FileNextInv == FileInv /\ [FileNext]_fileVars => FileInv'
<1> SUFFICES ASSUME FileInv, [FileNext]_fileVars PROVE FileInv'
  OBVIOUS
<1>1. ASSUME UNCHANGED fileVars PROVE FileInv'
  BY <1>1
  DEF fileVars, FileInv, Types, Apart, Lasting, Owns, Doing, Dir, Renamed, Before, GoodTarget
<1> QED
  BY <1>1, CallKeeps, OpenKeeps, WriteAndSyncKeep, RenameKeeps, SyncDirKeeps, CallFailsKeeps,
     RestartKeeps DEF FileNext

-----------------------------------------------------------------------------
LEMMA PositionsOrdered ==
  ASSUME FileInv, NEW f, NEW g, Before(f, g)
  PROVE  Position(f) <= Position(g)
<1>1. PICK i \in DOMAIN renames, j \in DOMAIN renames :
        i <= j /\ renames[i] = f /\ renames[j] = g
  BY DEF Before
<1>2. \A k \in DOMAIN renames : (renames[k] = f => k = i) /\ (renames[k] = g => k = j)
  BY <1>1 DEF FileInv, Lasting
<1>3. Position(f) = i
  BY <1>1, <1>2 DEF Position
<1>4. Position(g) = j
  BY <1>1, <1>2 DEF Position
<1> QED  BY <1>1, <1>3, <1>4

(* "A crash cannot leave a partially truncated config": whatever threads,  *)
(* failures, leftovers and power losses there are, the target is a whole   *)
(* file and not older than any call that returned Ok (atomic_write).       *)
THEOREM AlwaysWholeFile == FileSpec => []WholeFile
<1>1. FileInv => WholeFile
  <2> SUFFICES ASSUME FileInv PROVE WholeFile
    OBVIOUS
  <2>1. GoodTarget(Dir)
    BY DirIsLast
  <2>2. content[Dir[Target]] = "synced"
    BY <2>1 DEF FileInv, Lasting, GoodTarget
  <2>3. \A f \in acked : Position(f) <= Position(Dir[Target])
    BY <2>1, PositionsOrdered DEF GoodTarget
  <2> QED  BY <2>2, <2>3 DEF WholeFile
<1> QED  BY <1>1, FileInitInv, FileNextInv, PTL DEF FileSpec

-----------------------------------------------------------------------------
(* The detector of fast flux forgets by age, at the cap of the resolutions *)
(* of a domain and at the cap of the domains. What it holds of a domain is *)
(* the end of what was recorded of it (Copies), and what it does not hold  *)
(* is old, or there was no room for it (Excused).                          *)

LEMMA SmallestOf ==
  ASSUME NEW T, T \subseteq Nat, T # {}
  PROVE  \E m \in T : \A x \in T : m <= x
<1>1. PICK m \in T : \A x \in T : ~(<<x, m>> \in OpToRel(<, Nat))
  BY NatLessThanWellFounded, WFMin
<1>2. ASSUME NEW x \in T PROVE m <= x
  <2>1. x \in Nat /\ m \in Nat
    OBVIOUS
  <2>2. x < m => <<x, m>> \in OpToRel(<, Nat)
    BY <2>1 DEF OpToRel
  <2>3. ~(x < m)
    BY <1>1, <2>2
  <2> QED  BY <2>1, <2>3
<1> QED  BY <1>2

Resolution == [at : Nat, ip : Address]
Recorded == [dom : Domain, ip : Address, at : Nat]

(* The resolutions rs are the last of those recorded of d, in their order. *)
Copies(rs, d, lg, f) ==
  /\ f \in [DOMAIN rs -> DOMAIN lg]
  /\ \A j \in DOMAIN rs : lg[f[j]] = [dom |-> d, ip |-> rs[j].ip, at |-> rs[j].at]
  /\ \A j, k \in DOMAIN rs : j < k => f[j] < f[k]
  /\ \A i \in DOMAIN lg, j \in DOMAIN rs :
       lg[i].dom = d /\ f[j] <= i => \E k \in DOMAIN rs : f[k] = i

Rest(rs, n) == [j \in 1..(Len(rs) - n) |-> rs[j + n]]

LEMMA RestTyped ==
  ASSUME NEW S, NEW rs \in Seq(S), NEW n \in 0..Len(rs)
  PROVE  /\ Rest(rs, n) \in Seq(S) /\ DOMAIN Rest(rs, n) = 1..(Len(rs) - n)
         /\ Len(Rest(rs, n)) = Len(rs) - n
         /\ \A j \in 1..(Len(rs) - n) : j + n \in DOMAIN rs /\ Rest(rs, n)[j] = rs[j + n]
<1>1. Len(rs) \in Nat /\ n \in Nat /\ Len(rs) - n \in Nat /\ DOMAIN rs = 1..Len(rs)
  OBVIOUS
<1>2. \A j \in 1..(Len(rs) - n) : j + n \in 1..Len(rs) /\ rs[j + n] \in S
  BY <1>1
<1> QED  BY <1>1, <1>2 DEF Rest

LEMMA TailIsRest ==
  ASSUME NEW S, NEW rs \in Seq(S), rs # <<>>
  PROVE  Tail(rs) = Rest(rs, 1) /\ 1 \in 0..Len(rs)
<1>1. /\ Len(rs) \in Nat \ {0} /\ Tail(rs) \in Seq(S) /\ Len(Tail(rs)) = Len(rs) - 1
      /\ \A j \in 1..(Len(rs) - 1) : Tail(rs)[j] = rs[j + 1]
  OBVIOUS
<1>2. /\ Rest(rs, 1) \in Seq(S) /\ DOMAIN Rest(rs, 1) = 1..(Len(rs) - 1)
      /\ Len(Rest(rs, 1)) = Len(rs) - 1
      /\ \A j \in 1..(Len(rs) - 1) : Rest(rs, 1)[j] = rs[j + 1]
  <2>1. 1 \in 0..Len(rs)
    BY <1>1
  <2> QED  BY <2>1, RestTyped
<1> QED  BY <1>1, <1>2

LEMMA SubSeqIsRest ==
  ASSUME NEW S, NEW rs \in Seq(S), NEW n \in 0..Len(rs)
  PROVE  SubSeq(rs, n + 1, Len(rs)) = Rest(rs, n)
<1>1. Len(rs) \in Nat /\ n \in Nat /\ n <= Len(rs)
  OBVIOUS
<1>2. SubSeq(rs, n + 1, Len(rs)) = [j \in 1..(Len(rs) - (n + 1) + 1) |-> rs[j + (n + 1) - 1]]
  BY <1>1
<1>3. Len(rs) - (n + 1) + 1 = Len(rs) - n /\ \A j \in Nat : j + (n + 1) - 1 = j + n
  BY <1>1
<1> QED  BY <1>1, <1>2, <1>3 DEF Rest

(* Popping from the front.                                                 *)
LEMMA CopiesRest ==
  ASSUME NEW rs \in Seq(Resolution), NEW lg \in Seq(Recorded), NEW d, NEW f, Copies(rs, d, lg, f),
         NEW n \in 0..Len(rs)
  PROVE  \E g : /\ Copies(Rest(rs, n), d, lg, g)
                /\ \A j \in DOMAIN rs : j > n => \E k \in DOMAIN Rest(rs, n) : g[k] = f[j]
<1> DEFINE q == Rest(rs, n)
           g == [j \in 1..(Len(rs) - n) |-> f[j + n]]
<1>1. /\ Len(rs) \in Nat /\ n \in Nat /\ DOMAIN rs = 1..Len(rs) /\ DOMAIN q = 1..(Len(rs) - n)
      /\ \A j \in 1..(Len(rs) - n) : j + n \in DOMAIN rs /\ q[j] = rs[j + n] /\ g[j] = f[j + n]
  BY RestTyped
<1>2. DOMAIN lg \subseteq Nat
  OBVIOUS
<1>3. g \in [DOMAIN q -> DOMAIN lg]
  <2>1. \A j \in 1..(Len(rs) - n) : f[j + n] \in DOMAIN lg
    BY <1>1 DEF Copies
  <2> QED  BY <1>1, <2>1
<1> HIDE DEF q, g
<1>4. ASSUME NEW j \in DOMAIN q PROVE lg[g[j]] = [dom |-> d, ip |-> q[j].ip, at |-> q[j].at]
  <2>1. j + n \in DOMAIN rs /\ q[j] = rs[j + n] /\ g[j] = f[j + n]
    BY <1>1
  <2>2. lg[f[j + n]] = [dom |-> d, ip |-> rs[j + n].ip, at |-> rs[j + n].at]
    BY <2>1 DEF Copies
  <2> QED  BY <2>1, <2>2
<1>5. ASSUME NEW j \in DOMAIN q, NEW k \in DOMAIN q, j < k PROVE g[j] < g[k]
  <2>1. j + n \in DOMAIN rs /\ k + n \in DOMAIN rs /\ j + n < k + n
    BY <1>1, <1>5
  <2>2. f[j + n] < f[k + n]
    BY <2>1 DEF Copies
  <2> QED  BY <1>1, <2>2
<1>6. ASSUME NEW j \in DOMAIN rs, j > n PROVE \E k \in DOMAIN q : g[k] = f[j]
  <2>1. j - n \in DOMAIN q /\ (j - n) + n = j
    BY <1>1, <1>6
  <2>2. g[j - n] = f[j]
    BY <1>1, <2>1
  <2> QED  BY <2>1, <2>2
<1>7. ASSUME NEW i \in DOMAIN lg, NEW j \in DOMAIN q, lg[i].dom = d, g[j] <= i
      PROVE  \E k \in DOMAIN q : g[k] = i
  <2>1. j + n \in DOMAIN rs /\ f[j + n] <= i
    BY <1>1, <1>7
  <2>2. PICK k \in DOMAIN rs : f[k] = i
    BY <1>7, <2>1 DEF Copies
  <2>3. ~(k < j + n)
    <3>1. k < j + n => f[k] < f[j + n]
      BY <2>1 DEF Copies
    <3>2. f[k] \in Nat /\ f[j + n] \in Nat
      BY <1>2, <2>1 DEF Copies
    <3> QED  BY <2>1, <2>2, <3>1, <3>2
  <2>4. k > n
    BY <1>1, <2>3
  <2> QED  BY <1>6, <2>2, <2>4
<1>8. Copies(q, d, lg, g)
  BY <1>3, <1>4, <1>5, <1>7 DEF Copies
<1> QED  BY <1>6, <1>8 DEF q

(* Something is recorded: of the domain itself, or of another one.         *)
LEMMA CopiesMore ==
  ASSUME NEW rs \in Seq(Resolution), NEW lg \in Seq(Recorded), NEW d, NEW f, Copies(rs, d, lg, f),
         NEW ip, NEW at
  PROVE  \E g : /\ Copies(Append(rs, [at |-> at, ip |-> ip]), d,
                          Append(lg, [dom |-> d, ip |-> ip, at |-> at]), g)
                /\ \A j \in DOMAIN rs : g[j] = f[j]
                /\ g[Len(rs) + 1] = Len(lg) + 1
<1> DEFINE r == [at |-> at, ip |-> ip]
           m == [dom |-> d, ip |-> ip, at |-> at]
           L == Len(rs)
           N == Len(lg) + 1
           p == Append(rs, r)
           l == Append(lg, m)
           g == [j \in 1..L + 1 |-> IF j = L + 1 THEN N ELSE f[j]]
<1>1. /\ L \in Nat /\ N \in Nat /\ DOMAIN rs = 1..L /\ DOMAIN lg = 1..N - 1
      /\ DOMAIN p = 1..L + 1 /\ DOMAIN l = 1..N
  OBVIOUS
<1>2. /\ \A j \in 1..L : p[j] = rs[j]
      /\ \A i \in 1..N - 1 : l[i] = lg[i]
      /\ p[L + 1] = r /\ l[N] = m
  OBVIOUS
<1>3. \A j \in 1..L : f[j] \in 1..N - 1
  BY <1>1 DEF Copies
<1>4. g[L + 1] = N /\ \A j \in 1..L : g[j] = f[j] /\ j \in 1..L + 1
  BY <1>1
<1>5. g \in [1..L + 1 -> 1..N]
  BY <1>1, <1>3
<1>6. \A j \in 1..L + 1 : j \in 1..L \/ j = L + 1
  BY <1>1
<1>7. m = [dom |-> d, ip |-> r.ip, at |-> r.at]
  OBVIOUS
<1> HIDE DEF g, p, l, m, r, L, N
<1>8. ASSUME NEW j \in 1..L + 1 PROVE l[g[j]] = [dom |-> d, ip |-> p[j].ip, at |-> p[j].at]
  <2>1. CASE j \in 1..L
    <3>1. lg[f[j]] = [dom |-> d, ip |-> rs[j].ip, at |-> rs[j].at]
      BY <1>1, <2>1 DEF Copies
    <3> QED  BY <1>2, <1>3, <1>4, <2>1, <3>1
  <2>2. CASE j = L + 1
    BY <1>2, <1>4, <1>7, <2>2
  <2> QED  BY <1>6, <2>1, <2>2
<1>9. ASSUME NEW j \in 1..L + 1, NEW k \in 1..L + 1, j < k PROVE g[j] < g[k]
  <2>1. j \in 1..L
    BY <1>1, <1>9
  <2>2. CASE k \in 1..L
    BY <1>1, <1>4, <1>9, <2>1, <2>2 DEF Copies
  <2>3. CASE k = L + 1
    BY <1>1, <1>3, <1>4, <2>1, <2>3
  <2> QED  BY <1>6, <2>2, <2>3
<1>10. ASSUME NEW i \in 1..N, NEW j \in 1..L + 1, l[i].dom = d, g[j] <= i
       PROVE  \E k \in 1..L + 1 : g[k] = i
  <2>1. CASE i = N
    BY <1>1, <1>4, <2>1
  <2>2. CASE i \in 1..N - 1
    <3>1. j \in 1..L
      <4>1. ~(N <= i)
        BY <1>1, <2>2
      <4> QED  BY <1>4, <1>6, <1>10, <4>1
    <3>2. lg[i].dom = d /\ f[j] <= i
      BY <1>2, <1>4, <1>10, <2>2, <3>1
    <3>3. PICK k \in 1..L : f[k] = i
      BY <1>1, <2>2, <3>1, <3>2 DEF Copies
    <3> QED  BY <1>4, <3>3
  <2> QED  BY <1>1, <2>1, <2>2
<1>11. Copies(p, d, l, g)
  BY <1>1, <1>5, <1>8, <1>9, <1>10 DEF Copies
<1> QED  BY <1>1, <1>4, <1>11 DEF p, l, r, m, L, N

LEMMA CopiesOther ==
  ASSUME NEW rs \in Seq(Resolution), NEW lg \in Seq(Recorded), NEW d, NEW f, Copies(rs, d, lg, f),
         NEW m \in Recorded, m.dom # d
  PROVE  Copies(rs, d, Append(lg, m), f)
<1> DEFINE N == Len(lg) + 1
           l == Append(lg, m)
<1>1. /\ N \in Nat /\ DOMAIN lg = 1..N - 1 /\ DOMAIN l = 1..N
      /\ l[N] = m /\ \A i \in 1..N - 1 : l[i] = lg[i]
  OBVIOUS
<1> HIDE DEF l, N
<1>2. f \in [DOMAIN rs -> DOMAIN lg] /\ DOMAIN lg \subseteq DOMAIN l
  BY <1>1 DEF Copies
<1>3. \A j \in DOMAIN rs : f[j] \in DOMAIN lg /\ l[f[j]] = lg[f[j]]
  BY <1>1, <1>2
<1>4. ASSUME NEW i \in DOMAIN l, l[i].dom = d PROVE i \in DOMAIN lg /\ lg[i].dom = d
  <2>1. i # N
    BY <1>1, <1>4
  <2>2. i \in 1..N - 1
    BY <1>1, <2>1
  <2> QED  BY <1>1, <1>4, <2>2
<1>5. f \in [DOMAIN rs -> DOMAIN l]
  BY <1>2
<1>6. Copies(rs, d, l, f)
  BY <1>3, <1>4, <1>5 DEF Copies
<1> QED  BY <1>6 DEF l

LEMMA CopiesFirst ==
  ASSUME NEW lg \in Seq(Recorded), NEW d, NEW ip, NEW at
  PROVE  \E f : Copies(<<[at |-> at, ip |-> ip]>>, d, Append(lg, [dom |-> d, ip |-> ip, at |-> at]), f)
<1> DEFINE r == [at |-> at, ip |-> ip]
           m == [dom |-> d, ip |-> ip, at |-> at]
           N == Len(lg) + 1
           l == Append(lg, m)
           p == <<r>>
           f == [j \in {1} |-> N]
<1>1. /\ N \in Nat /\ DOMAIN l = 1..N /\ l[N] = m /\ DOMAIN p = {1} /\ p[1] = r /\ N \in 1..N
  OBVIOUS
<1>2. m = [dom |-> d, ip |-> r.ip, at |-> r.at]
  OBVIOUS
<1>3. f \in [{1} -> 1..N] /\ f[1] = N
  BY <1>1
<1> HIDE DEF r, m, N, l, p, f
<1>4. \A i \in 1..N : N <= i => i = N
  BY <1>1
<1>5. Copies(p, d, l, f)
  BY <1>1, <1>2, <1>3, <1>4 DEF Copies
<1> QED  BY <1>5 DEF p, l, r, m

FluxTypes ==
  /\ second \in Nat /\ sequence \in Nat /\ log \in Seq(Recorded)
  /\ Tracked \subseteq Domain
  /\ \A d \in Tracked :
       history[d] \in [resolutions : Seq(Resolution), last_seen : Nat, sequence : Nat]
  /\ locked \in [dom : Domain \cup {NoDomain}, todo : Seq(Address)]
  /\ locked.todo # <<>> => locked.dom \in Domain

LogInOrder ==
  /\ \A i \in DOMAIN log : log[i].at <= second
  /\ \A i, j \in DOMAIN log : i <= j => log[i].at <= log[j].at

(* When a domain was last seen, and that the index follows it.             *)
LastSeen(d) ==
  /\ \E i \in DOMAIN log : log[i].dom = d /\ log[i].at = history[d].last_seen
  /\ \A i \in DOMAIN log : log[i].dom = d => log[i].at <= history[d].last_seen

IndexInOrder ==
  /\ \A d \in Tracked : history[d].sequence <= sequence
  /\ \A d, e \in Tracked :
       history[d].sequence <= history[e].sequence => history[d].last_seen <= history[e].last_seen

(* There have been too many domains at some time since.                    *)
Crowded(from) == \E t \in from..second : Cardinality(Active(t)) > DomainCap
Young(i) == second - log[i].at < Window

Excused(i, f) ==
  LET d == log[i].dom
  IN  \/ Crowded(log[i].at)
      \/ Len(history[d].resolutions) >= Keep
      \/ \E j \in DOMAIN history[d].resolutions : f[j] = i

Mirrored(d) ==
  \E f : /\ Copies(history[d].resolutions, d, log, f)
         /\ \A i \in DOMAIN log : log[i].dom = d /\ Young(i) => Excused(i, f)

Histories ==
  /\ \A d \in Tracked : LastSeen(d) /\ Mirrored(d)
  /\ \A i \in DOMAIN log : log[i].dom \notin Tracked /\ Young(i) => Crowded(log[i].at)

FluxInv ==
  /\ FluxTypes /\ LogInOrder /\ IndexExact /\ IndexInOrder /\ Histories
  /\ locked # Nobody => verdict = NoVerdict

LEMMA FluxInitInv == FluxInit => FluxInv
<1> SUFFICES ASSUME FluxInit PROVE FluxInv
  OBVIOUS
<1>1. Tracked = {} /\ log = <<>> /\ DOMAIN log = {} /\ second = 0 /\ sequence = 0 /\ least_recent = {}
  BY DEF FluxInit, Tracked
<1>2. locked = [dom |-> NoDomain, todo |-> <<>>] /\ locked = Nobody
  BY DEF FluxInit, Nobody
<1>3. FluxTypes
  BY <1>1, <1>2 DEF FluxTypes
<1>4. IndexExact
  BY <1>1 DEF IndexExact
<1> QED  BY <1>1, <1>2, <1>3, <1>4 DEF FluxInv, LogInOrder, IndexInOrder, Histories

(* The domains active at a time are finitely many, and grow with the log.  *)
LEMMA FewActive ==
  ASSUME NEW lg \in Seq(Recorded), NEW t
  PROVE  IsFiniteSet({lg[i].dom : i \in {j \in DOMAIN lg : lg[j].at <= t /\ t - lg[j].at < Window}})
<1> DEFINE S == {j \in DOMAIN lg : lg[j].at <= t /\ t - lg[j].at < Window}
           A == {lg[i].dom : i \in S}
           f == [i \in S |-> lg[i].dom]
<1>1. DOMAIN lg = 1..Len(lg) /\ Len(lg) \in Nat
  OBVIOUS
<1>2. IsFiniteSet(1..Len(lg))
  BY <1>1, FS_Interval
<1>3. IsFiniteSet(S)
  <2>1. S \in SUBSET (1..Len(lg))
    BY <1>1
  <2> HIDE DEF S
  <2> QED  BY <1>2, <2>1, FS_Subset
<1>4. f \in Surjection(S, A)
  <2> HIDE DEF S
  <2> QED  BY DEF Surjection
<1>5. IsFiniteSet(A)
  <2> HIDE DEF S, A, f
  <2> QED  BY <1>3, <1>4, FS_Surjection
<1> QED  BY <1>5

LEMMA ActiveGrows ==
  ASSUME log \in Seq(Recorded), NEW m \in Recorded, log' = Append(log, m), NEW t
  PROVE  /\ Cardinality(Active(t)) <= Cardinality(Active(t)')
         /\ Cardinality(Active(t)) \in Nat /\ Cardinality(Active(t)') \in Nat
         /\ IsFiniteSet(Active(t)') /\ Active(t) \subseteq Active(t)'
         /\ m.at <= t /\ t - m.at < Window => m.dom \in Active(t)'
<1>1. /\ DOMAIN log' = 1..Len(log) + 1 /\ DOMAIN log = 1..Len(log) /\ Len(log) \in Nat
      /\ log'[Len(log) + 1] = m /\ \A i \in DOMAIN log : log'[i] = log[i] /\ i \in DOMAIN log'
      /\ log' \in Seq(Recorded)
  OBVIOUS
<1>2. Active(t) \in SUBSET Active(t)'
  <2> SUFFICES ASSUME NEW d \in Active(t) PROVE d \in Active(t)'
    OBVIOUS
  <2>1. PICK i \in DOMAIN log : log[i].dom = d /\ log[i].at <= t /\ t - log[i].at < Window
    BY DEF Active
  <2>2. i \in DOMAIN log' /\ log'[i] = log[i]
    BY <1>1, <2>1
  <2> QED  BY <2>1, <2>2 DEF Active
<1>3. /\ IsFiniteSet(Active(t)) /\ Cardinality(Active(t)) \in Nat
      /\ IsFiniteSet(Active(t)') /\ Cardinality(Active(t)') \in Nat
  <2>1. IsFiniteSet(Active(t)) /\ IsFiniteSet(Active(t)')
    BY <1>1, FewActive DEF Active
  <2> QED  BY <2>1, FS_CardinalityType
<1>4. m.at <= t /\ t - m.at < Window => m.dom \in Active(t)'
  BY <1>1 DEF Active
<1> QED  BY <1>2, <1>3, <1>4, FS_Subset

(* What the clock and the log change of the excuses.                       *)
LEMMA CrowdedGrows ==
  ASSUME FluxTypes, NEW m \in Recorded, log' = Append(log, m), second' = second, NEW from, Crowded(from)
  PROVE  Crowded(from)'
<1>1. PICK t \in from..second : Cardinality(Active(t)) > DomainCap
  BY DEF Crowded
<1>2. /\ Cardinality(Active(t)) <= Cardinality(Active(t)')
      /\ Cardinality(Active(t)) \in Nat /\ Cardinality(Active(t)') \in Nat
  BY ActiveGrows DEF FluxTypes
<1>3. Cardinality(Active(t)') > DomainCap
  BY <1>1, <1>2, FluxAssumption
<1> QED  BY <1>1, <1>3 DEF Crowded

LEMMA CrowdedStays ==
  ASSUME FluxTypes, log' = log, second' \in Nat, second <= second', NEW from \in Nat, Crowded(from)
  PROVE  Crowded(from)'
<1>1. PICK t \in from..second : Cardinality(Active(t)) > DomainCap
  BY DEF Crowded
<1>2. Active(t)' = Active(t)
  BY DEF Active
<1>3. t \in from..second'
  BY <1>1 DEF FluxTypes
<1> QED  BY <1>1, <1>2, <1>3 DEF Crowded

(* Aging takes the domains that are expired, all of them and no other.     *)
LEMMA Aging ==
  ASSUME FluxInv
  PROVE  /\ Kept \subseteq Tracked
         /\ Unexpired = {<<history[e].sequence, e>> : e \in Kept}
         /\ \A e \in Tracked \ Kept : Expired(e)
         /\ \A e \in Kept : ~Expired(e)
<1>1. /\ least_recent = {<<history[d].sequence, d>> : d \in Tracked}
      /\ second \in Nat
      /\ \A d \in Tracked : history[d].last_seen \in Nat /\ history[d].sequence \in Nat
      /\ \A d, e \in Tracked :
           history[d].sequence <= history[e].sequence => history[d].last_seen <= history[e].last_seen
  BY DEF FluxInv, FluxTypes, IndexExact, IndexInOrder
<1>2. \A p \in least_recent : p[2] \in Tracked /\ p = <<history[p[2]].sequence, p[2]>>
  BY <1>1
<1>3. \A e \in Tracked : <<history[e].sequence, e>> \in least_recent
  BY <1>1
<1>4. Aged \subseteq least_recent
  BY DEF Aged
<1>5. ASSUME NEW p \in Unexpired PROVE \E e \in Kept : p = <<history[e].sequence, e>>
  <2>1. p \in least_recent /\ p \notin Aged
    BY DEF Unexpired
  <2>2. p[2] \in Kept
    <3>1. ASSUME NEW q \in Aged, q[2] = p[2] PROVE FALSE
      <4>1. q = <<history[p[2]].sequence, p[2]>>
        BY <1>2, <1>4, <3>1
      <4> QED  BY <1>2, <2>1, <3>1, <4>1
    <3> QED  BY <1>2, <2>1, <3>1 DEF Kept
  <2> QED  BY <1>2, <2>1, <2>2
<1>6. ASSUME NEW e \in Kept PROVE <<history[e].sequence, e>> \in Unexpired
  <2>1. e \in Tracked /\ \A q \in Aged : q[2] # e
    BY DEF Kept
  <2>2. <<history[e].sequence, e>>[2] = e
    OBVIOUS
  <2> QED  BY <1>3, <2>1, <2>2 DEF Unexpired
<1>7. ASSUME NEW e \in Tracked \ Kept PROVE Expired(e)
  <2>1. PICK p \in Aged : p[2] = e
    BY DEF Kept
  <2>2. \A q \in least_recent : q[1] <= p[1] /\ q[2] \in Tracked => Expired(q[2])
    BY <2>1 DEF Aged
  <2>3. p \in least_recent /\ p[1] \in Nat
    BY <1>1, <1>2, <1>4, <2>1
  <2>4. p[1] <= p[1]
    BY <2>3
  <2> QED  BY <2>1, <2>2, <2>3, <2>4
<1>8. ASSUME NEW e \in Kept PROVE ~Expired(e)
  <2> DEFINE p == <<history[e].sequence, e>>
  <2>1. e \in Tracked /\ p \in least_recent /\ p \notin Aged
    BY <1>6 DEF Kept, Unexpired
  <2>2. PICK q \in least_recent : q[1] <= p[1] /\ q[2] \in Tracked /\ ~Expired(q[2])
    BY <2>1 DEF Aged
  <2>3. PICK c \in Tracked : c = q[2]
    BY <2>2
  <2>4. q[1] = history[c].sequence
    BY <1>2, <2>3
  <2>5. history[c].sequence <= history[e].sequence
    BY <2>2, <2>4
  <2>6. history[c].last_seen <= history[e].last_seen
    BY <1>1, <2>1, <2>5
  <2>7. ~(second - history[c].last_seen >= Window)
    BY <2>2, <2>3 DEF Expired
  <2>8. history[c].last_seen \in Nat /\ history[e].last_seen \in Nat /\ Window \in Nat
    BY <1>1, <2>1, FluxAssumption
  <2>9. ~(second - history[e].last_seen >= Window)
    BY <1>1, <2>6, <2>7, <2>8
  <2> QED  BY <2>9 DEF Expired
<1> QED  BY <1>5, <1>6, <1>7, <1>8 DEF Kept

(* A resolution is recorded; T are the other domains that stay.            *)
LEMMA ResolutionRecorded ==
  ASSUME FluxInv, NEW d \in Domain, NEW m \in Recorded, m.dom = d, m.at = second,
         log' = Append(log, m), second' = second, sequence' = sequence + 1,
         NEW T \in SUBSET Kept, NEW rs \in Seq(Resolution),
         DOMAIN history' = T \cup {d}, \A e \in T : e # d => history'[e] = history[e],
         history'[d] = [resolutions |-> rs, last_seen |-> second, sequence |-> sequence + 1],
         least_recent' = {<<history[e].sequence, e>> : e \in T \ {d}} \cup {<<sequence + 1, d>>},
         T \cup {d} # Kept \cup {d} => Cardinality(Active(second)') > DomainCap,
         Mirrored(d)',
         locked' \in [dom : Domain \cup {NoDomain}, todo : Seq(Address)], locked'.dom \in Domain,
         verdict' = NoVerdict
  PROVE  FluxInv'
<1> DEFINE N == Len(log) + 1
<1>1. /\ FluxTypes /\ LogInOrder /\ IndexInOrder /\ Histories /\ log \in Seq(Recorded)
      /\ second \in Nat /\ sequence \in Nat
  BY DEF FluxInv, FluxTypes
<1>2. /\ N \in Nat /\ DOMAIN log' = 1..N /\ DOMAIN log = 1..N - 1 /\ log' \in Seq(Recorded)
      /\ log'[N] = m /\ \A i \in 1..N - 1 : log'[i] = log[i]
  BY <1>1
<1> HIDE DEF N
<1>3. /\ T \subseteq Tracked /\ Tracked \subseteq Domain
      /\ \A e \in Tracked :
           /\ history[e] \in [resolutions : Seq(Resolution), last_seen : Nat, sequence : Nat]
           /\ history[e].sequence <= sequence
           /\ LastSeen(e) /\ Mirrored(e)
  BY <1>1, Aging DEF FluxTypes, IndexInOrder, Histories
<1>4. \A i \in 1..N - 1 : i \in DOMAIN log /\ log[i].at \in Nat /\ log[i].at <= second
  <2>1. \A i \in 1..N - 1 : log[i] \in Recorded /\ i \in DOMAIN log
    <3> HIDE DEF Recorded
    <3> QED  BY <1>1, <1>2
  <2> QED  BY <1>1, <2>1 DEF LogInOrder, Recorded
<1>5. Tracked' = T \cup {d}
  BY DEF Tracked
<1>6. FluxTypes'
  <2>1. history'[d] \in [resolutions : Seq(Resolution), last_seen : Nat, sequence : Nat]
    BY <1>1
  <2>2. ASSUME NEW e \in T \cup {d}
        PROVE  e \in Domain
               /\ history'[e] \in [resolutions : Seq(Resolution), last_seen : Nat, sequence : Nat]
    BY <1>3, <2>1
  <2>3. sequence' \in Nat /\ second' \in Nat
    BY <1>1
  <2> QED  BY <1>2, <1>5, <2>2, <2>3 DEF FluxTypes
<1>7. LogInOrder'
  <2>1. \A i \in 1..N : log'[i].at <= second
    BY <1>1, <1>2, <1>4
  <2>2. ASSUME NEW i \in 1..N, NEW j \in 1..N, i <= j PROVE log'[i].at <= log'[j].at
    <3>1. CASE j = N
      BY <1>2, <2>1, <3>1
    <3>2. CASE j \in 1..N - 1
      <4>1. i \in 1..N - 1
        BY <1>2, <2>2, <3>2
      <4> QED  BY <1>1, <1>2, <2>2, <3>2, <4>1 DEF LogInOrder
    <3> QED  BY <1>2, <3>1, <3>2
  <2> QED  BY <1>2, <2>1, <2>2 DEF LogInOrder
<1>8. IndexExact'
  <2>1. \A e \in T \ {d} : history'[e].sequence = history[e].sequence
    OBVIOUS
  <2>2. history'[d].sequence = sequence + 1
    OBVIOUS
  <2>3. least_recent' = {<<history'[e].sequence, e>> : e \in T \cup {d}}
    <3>1. ASSUME NEW p \in least_recent' PROVE \E e \in T \cup {d} : p = <<history'[e].sequence, e>>
      BY <2>1, <2>2
    <3>2. ASSUME NEW e \in T \cup {d} PROVE <<history'[e].sequence, e>> \in least_recent'
      BY <2>1, <2>2
    <3> QED  BY <3>1, <3>2
  <2> QED  BY <1>5, <2>3 DEF IndexExact
<1>9. \A e \in Tracked : history[e].last_seen <= second
  BY <1>1, <1>3 DEF LastSeen, LogInOrder
<1>10. IndexInOrder'
  <2>1. \A e \in T \ {d} : /\ history'[e] = history[e]
                           /\ history[e].sequence \in Nat /\ history[e].sequence <= sequence
                           /\ history[e].last_seen \in Nat /\ history[e].last_seen <= second
    BY <1>3, <1>9
  <2>2. history'[d].sequence = sequence + 1 /\ history'[d].last_seen = second
    OBVIOUS
  <2>3. \A e \in T \cup {d} : history'[e].sequence <= sequence + 1
    BY <1>1, <2>1, <2>2
  <2>4. ASSUME NEW c \in T \cup {d}, NEW e \in T \cup {d}, history'[c].sequence <= history'[e].sequence
        PROVE  history'[c].last_seen <= history'[e].last_seen
    <3>1. CASE c # d /\ e # d
      <4>1. history[c].sequence <= history[e].sequence
        BY <2>1, <2>4, <3>1
      <4>2. history[c].last_seen <= history[e].last_seen
        BY <1>1, <1>3, <3>1, <4>1 DEF IndexInOrder
      <4> QED  BY <2>1, <3>1, <4>2
    <3>2. CASE c # d /\ e = d
      BY <2>1, <2>2, <3>2
    <3>3. CASE c = d /\ e # d
      <4>1. sequence + 1 <= history[e].sequence /\ history[e].sequence <= sequence
        BY <2>1, <2>2, <2>4, <3>3
      <4> QED  BY <1>1, <2>1, <3>3, <4>1
    <3>4. CASE c = d /\ e = d
      BY <1>1, <2>2, <3>4
    <3> QED  BY <3>1, <3>2, <3>3, <3>4
  <2> QED  BY <1>5, <2>3, <2>4 DEF IndexInOrder
<1>11. \A i \in 1..N - 1 : Young(i)' = Young(i) /\ (log[i].at)' = log[i].at
                           /\ (Crowded(log[i].at) => Crowded(log[i].at)')
  <2> SUFFICES ASSUME NEW i \in 1..N - 1
               PROVE  Young(i)' = Young(i) /\ (log[i].at)' = log[i].at
                      /\ (Crowded(log[i].at) => Crowded(log[i].at)')
    OBVIOUS
  <2>1. log'[i].at = log[i].at
    BY <1>2
  <2>2. PICK from : from = log[i].at
    OBVIOUS
  <2>3. Crowded(from) => Crowded(from)'
    BY <1>1, CrowdedGrows
  <2>4. Crowded(log[i].at)' <=> Crowded(from)'
    BY <2>1, <2>2 DEF Crowded
  <2> QED  BY <2>1, <2>2, <2>3, <2>4 DEF Young
<1>12. LastSeen(d)'
  <2>1. N \in DOMAIN log' /\ log'[N].dom = d /\ log'[N].at = second
    BY <1>2
  <2>2. \A i \in DOMAIN log' : log'[i].at <= second
    BY <1>7 DEF LogInOrder
  <2> QED  BY <2>1, <2>2 DEF LastSeen
<1>13. ASSUME NEW e \in T, e # d PROVE LastSeen(e)' /\ Mirrored(e)'
  <2>1. LastSeen(e) /\ Mirrored(e) /\ history'[e] = history[e]
        /\ history[e].resolutions \in Seq(Resolution)
    BY <1>3, <1>13
  <2>2. \A i \in 1..N : log'[i].dom = e => i \in 1..N - 1 /\ log[i].dom = e
    BY <1>2, <1>13
  <2>3. LastSeen(e)'
    <3>1. PICK i \in DOMAIN log : log[i].dom = e /\ log[i].at = history[e].last_seen
      BY <2>1 DEF LastSeen
    <3>2. i \in DOMAIN log' /\ log'[i].dom = e /\ log'[i].at = history'[e].last_seen
      BY <1>2, <2>1, <3>1
    <3>3. \A k \in DOMAIN log' : log'[k].dom = e => log'[k].at <= history'[e].last_seen
      BY <1>2, <2>1, <2>2 DEF LastSeen
    <3> QED  BY <3>2, <3>3 DEF LastSeen
  <2>4. PICK f : /\ Copies(history[e].resolutions, e, log, f)
                 /\ \A i \in DOMAIN log : log[i].dom = e /\ Young(i) => Excused(i, f)
    BY <2>1 DEF Mirrored
  <2>5. Copies(history[e].resolutions, e, Append(log, m), f)
    BY <1>1, <1>13, <2>1, <2>4, CopiesOther
  <2>6. ASSUME NEW i \in DOMAIN log', log'[i].dom = e, Young(i)' PROVE Excused(i, f)'
    <3>1. i \in 1..N - 1 /\ log[i].dom = e /\ Young(i)
      BY <1>2, <1>11, <2>2, <2>6
    <3>2. \/ Crowded(log[i].at) \/ Len(history[e].resolutions) >= Keep
          \/ \E j \in DOMAIN history[e].resolutions : f[j] = i
      BY <1>2, <2>4, <3>1 DEF Excused
    <3>3. Crowded(log[i].at) => Crowded(log[i].at)'
      BY <1>11, <3>1
    <3> QED  BY <2>1, <2>6, <3>2, <3>3 DEF Excused
  <2>7. Mirrored(e)'
    BY <2>1, <2>5, <2>6 DEF Mirrored
  <2> QED  BY <2>3, <2>7
<1>14. ASSUME NEW i \in DOMAIN log', log'[i].dom \notin T \cup {d}, Young(i)'
       PROVE  Crowded(log[i].at)'
  <2>1. i \in 1..N - 1
    BY <1>2, <1>14
  <2>2. PICK e : e = log[i].dom
    OBVIOUS
  <2>3. e \notin T \cup {d} /\ Young(i)
    BY <1>2, <1>11, <1>14, <2>1, <2>2
  <2>4. CASE e \in Kept
    <3>1. Cardinality(Active(second)') > DomainCap
      BY <2>3, <2>4
    <3>2. (log[i].at)' = log[i].at /\ second \in log[i].at..second
      BY <1>1, <1>4, <1>11, <2>1
    <3>3. PICK t : t = second
      OBVIOUS
    <3>4. Active(t)' = Active(second)'
      BY <3>3 DEF Active
    <3> QED  BY <3>1, <3>2, <3>3, <3>4 DEF Crowded
  <2>5. CASE e \in Tracked \ Kept
    <3>1. second - history[e].last_seen >= Window /\ history[e].last_seen \in Nat
      BY <1>3, <2>5, Aging DEF Expired
    <3>2. log[i].at <= history[e].last_seen /\ log[i].at \in Nat
      BY <1>3, <1>4, <2>1, <2>2, <2>5 DEF LastSeen
    <3>3. second - log[i].at < Window
      BY <2>3 DEF Young
    <3> QED  BY <1>1, <3>1, <3>2, <3>3, FluxAssumption
  <2>6. CASE e \notin Tracked
    <3>1. Crowded(log[i].at)
      BY <1>1, <1>4, <2>1, <2>2, <2>3, <2>6 DEF Histories
    <3> QED  BY <1>11, <2>1, <3>1
  <2> QED  BY <2>4, <2>5, <2>6
<1>15. Histories'
  BY <1>5, <1>12, <1>13, <1>14 DEF Histories
<1> QED  BY <1>6, <1>7, <1>8, <1>10, <1>15 DEF FluxInv

Taken(d, m, r) ==
  /\ second \in Nat /\ sequence \in Nat /\ log \in Seq(Recorded)
  /\ d \in Domain /\ d = locked.dom
  /\ m \in Recorded /\ m = [dom |-> d, ip |-> r.ip, at |-> second]
  /\ r \in Resolution /\ r = [at |-> second, ip |-> Head(locked.todo)]
  /\ log' = Append(log, m) /\ second' = second /\ sequence' = sequence + 1
  /\ locked' \in [dom : Domain \cup {NoDomain}, todo : Seq(Address)] /\ locked'.dom \in Domain
  /\ verdict' = NoVerdict

LEMMA AddressTaken ==
  ASSUME FluxInv, RecordResolution
  PROVE  \E d, m, r : Taken(d, m, r)
<1>1. PICK d, ip : d = locked.dom /\ ip = Head(locked.todo)
  OBVIOUS
<1>2. PICK m : m = [dom |-> d, ip |-> ip, at |-> second]
  OBVIOUS
<1>3. PICK r : r = [at |-> second, ip |-> ip]
  OBVIOUS
<1>4. /\ second \in Nat /\ sequence \in Nat /\ log \in Seq(Recorded)
      /\ locked.todo \in Seq(Address) /\ locked.todo # <<>>
      /\ locked \in [dom : Domain \cup {NoDomain}, todo : Seq(Address)]
      /\ d \in Domain /\ ip \in Address /\ Tail(locked.todo) \in Seq(Address)
  BY <1>1 DEF FluxInv, FluxTypes, RecordResolution
<1>5. m \in Recorded /\ m.dom = d /\ m.at = second /\ r \in Resolution
  BY <1>2, <1>3, <1>4 DEF Recorded, Resolution
<1>6. /\ log' = Append(log, m) /\ second' = second /\ sequence' = sequence + 1
      /\ verdict' = verdict
  BY <1>1, <1>2 DEF RecordResolution
<1>7. /\ locked' \in [dom : Domain \cup {NoDomain}, todo : Seq(Address)] /\ locked'.dom \in Domain
  <2>1. locked' = [locked EXCEPT !.todo = Tail(@)]
    BY DEF RecordResolution
  <2>2. locked = [dom |-> d, todo |-> locked.todo]
    BY <1>1, <1>4
  <2>3. locked' = [dom |-> d, todo |-> Tail(locked.todo)]
    <3>1. PICK l : l = locked.todo
      OBVIOUS
    <3>2. locked = [dom |-> d, todo |-> l]
      BY <2>2, <3>1
    <3>3. locked' = [dom |-> d, todo |-> Tail(l)]
      BY <2>1, <3>2
    <3> QED  BY <3>1, <3>3
  <2> QED  BY <1>4, <2>3
<1>8. verdict' = NoVerdict
  <2>1. locked # Nobody
    BY <1>4 DEF Nobody
  <2> QED  BY <1>6, <2>1 DEF FluxInv
<1>9. m = [dom |-> d, ip |-> r.ip, at |-> second] /\ r = [at |-> second, ip |-> Head(locked.todo)]
  BY <1>1, <1>2, <1>3
<1> QED  BY <1>1, <1>4, <1>5, <1>6, <1>7, <1>8, <1>9 DEF Taken

LEMMA RefreshKeeps ==
  ASSUME FluxInv, RecordResolution, Refresh(locked.dom, Head(locked.todo))
  PROVE  FluxInv'
<1>1. PICK d, m, r : Taken(d, m, r)
  BY AddressTaken
<1>2. PICK ip : ip = r.ip
  OBVIOUS
<1>4. /\ second \in Nat /\ sequence \in Nat /\ log \in Seq(Recorded) /\ d \in Domain
      /\ m \in Recorded /\ m.dom = d /\ m.at = second /\ r \in Resolution
      /\ m = [dom |-> d, ip |-> ip, at |-> second] /\ r = [at |-> second, ip |-> ip]
      /\ log' = Append(log, m) /\ second' = second /\ sequence' = sequence + 1
  BY <1>1, <1>2 DEF Taken
<1>6. d \in Kept
  BY <1>1 DEF Taken, Refresh
<1>9. PICK q : q = history[d].resolutions
  OBVIOUS
<1>10. PICK rs : rs = Latest(Append(q, r))
  OBVIOUS
<1>11. d \in Tracked /\ Kept \subseteq Tracked /\ q \in Seq(Resolution)
       /\ \A e \in Tracked : history[e].sequence \in Nat
  BY <1>6, <1>9, Aging DEF FluxInv, FluxTypes
<1>12. PICK f : /\ Copies(q, d, log, f)
                /\ \A i \in DOMAIN log : log[i].dom = d /\ Young(i) => Excused(i, f)
  BY <1>9, <1>11 DEF FluxInv, Histories, Mirrored
<1>13. PICK g : /\ Copies(Append(q, r), d, log', g)
                /\ \A j \in DOMAIN q : g[j] = f[j]
                /\ g[Len(q) + 1] = Len(log) + 1
  BY <1>4, <1>11, <1>12, CopiesMore
<1>14. /\ Append(q, r) \in Seq(Resolution) /\ Len(Append(q, r)) = Len(q) + 1 /\ Len(q) \in Nat
       /\ DOMAIN q = 1..Len(q) /\ DOMAIN Append(q, r) = 1..Len(q) + 1
       /\ log' \in Seq(Recorded) /\ DOMAIN log' = 1..Len(log) + 1 /\ DOMAIN log = 1..Len(log)
       /\ Len(log) \in Nat /\ \A i \in 1..Len(log) : log'[i] = log[i]
  BY <1>4, <1>11
<1>15. history' = [e \in Kept |-> IF e # d THEN history[e]
                     ELSE [resolutions |-> rs, last_seen |-> second, sequence |-> sequence + 1]]
  BY <1>1, <1>9, <1>10 DEF Taken, Refresh
<1>16. ASSUME Len(q) + 1 > Keep PROVE rs \in Seq(Resolution) /\ Mirrored(d)'
  <2>1. rs = Tail(Append(q, r)) /\ Append(q, r) # <<>>
    BY <1>10, <1>14, <1>16 DEF Latest
  <2>2. rs = Rest(Append(q, r), 1) /\ 1 \in 0..Len(Append(q, r))
    BY <1>14, <2>1, TailIsRest
  <2>3. rs \in Seq(Resolution) /\ Len(rs) = Len(q)
    <3>1. PICK p \in Seq(Resolution) : p = Append(q, r)
      BY <1>14
    <3>2. Rest(p, 1) \in Seq(Resolution) /\ Len(Rest(p, 1)) = Len(p) - 1
      BY <2>2, <3>1, RestTyped
    <3>3. Len(p) = Len(q) + 1 /\ rs = Rest(p, 1)
      BY <1>14, <2>2, <3>1
    <3> QED  BY <1>14, <3>2, <3>3
  <2>4. \E h : Copies(rs, d, log', h)
    BY <1>13, <1>14, <2>2, CopiesRest
  <2>5. Len(rs) >= Keep
    BY <1>14, <1>16, <2>3, FluxAssumption
  <2>6. history'[d].resolutions = rs
    BY <1>6, <1>15
  <2>7. \A i, h : log'[i].dom = d => Excused(i, h)'
    BY <2>5, <2>6 DEF Excused
  <2>8. Mirrored(d)'
    BY <2>4, <2>6, <2>7 DEF Mirrored
  <2> QED  BY <2>3, <2>8
<1>17. ASSUME ~(Len(q) + 1 > Keep) PROVE rs \in Seq(Resolution) /\ Mirrored(d)'
  <2>1. rs = Append(q, r)
    BY <1>10, <1>14, <1>17 DEF Latest
  <2>2. history'[d].resolutions = rs
    BY <1>6, <1>15
  <2>3. ASSUME NEW i \in DOMAIN log', log'[i].dom = d, Young(i)' PROVE Excused(i, g)'
    <3>1. CASE i = Len(log) + 1
      <4>1. Len(q) + 1 \in DOMAIN rs /\ g[Len(q) + 1] = i
        BY <1>13, <1>14, <2>1, <3>1
      <4> QED  BY <2>2, <2>3, <4>1 DEF Excused
    <3>2. CASE i \in 1..Len(log)
      <4>1. log[i].dom = d /\ Young(i)
        BY <1>4, <1>14, <2>3, <3>2 DEF Young
      <4>2. Crowded(log[i].at) \/ Len(q) >= Keep \/ \E j \in DOMAIN q : f[j] = i
        BY <1>9, <1>12, <1>14, <3>2, <4>1 DEF Excused
      <4>3. CASE Crowded(log[i].at)
        <5>1. PICK from : from = log[i].at
          OBVIOUS
        <5>2. Crowded(from)'
          BY <1>4, <4>3, <5>1, CrowdedGrows DEF FluxInv
        <5>3. log'[i].at = from
          BY <1>14, <3>2, <5>1
        <5>4. Crowded(log[i].at)'
          BY <5>2, <5>3 DEF Crowded
        <5> QED  BY <5>4 DEF Excused
      <4>4. CASE Len(q) >= Keep
        BY <1>14, <1>17, <4>4, FluxAssumption
      <4>5. CASE \E j \in DOMAIN q : f[j] = i
        <5>1. PICK j \in DOMAIN q : f[j] = i
          BY <4>5
        <5>2. j \in DOMAIN rs /\ g[j] = i
          BY <1>13, <1>14, <2>1, <5>1
        <5> QED  BY <2>2, <2>3, <5>2 DEF Excused
      <4> QED  BY <4>2, <4>3, <4>4, <4>5
    <3> QED  BY <1>14, <3>1, <3>2
  <2>4. Mirrored(d)'
    BY <1>13, <2>1, <2>2, <2>3 DEF Mirrored
  <2> QED  BY <1>14, <2>1, <2>4
<1>18. rs \in Seq(Resolution) /\ Mirrored(d)'
  BY <1>16, <1>17
<1>19. /\ DOMAIN history' = Kept \cup {d} /\ \A e \in Kept : e # d => history'[e] = history[e]
       /\ history'[d] = [resolutions |-> rs, last_seen |-> second, sequence |-> sequence + 1]
  BY <1>6, <1>15
<1>20. least_recent' = {<<history[e].sequence, e>> : e \in Kept \ {d}} \cup {<<sequence + 1, d>>}
  <2>1. least_recent' = (Unexpired \ {<<history[d].sequence, d>>}) \cup {<<sequence + 1, d>>}
    BY <1>1 DEF Taken, Refresh
  <2>2. Unexpired = {<<history[e].sequence, e>> : e \in Kept}
    BY Aging
  <2>3. Unexpired \ {<<history[d].sequence, d>>} = {<<history[e].sequence, e>> : e \in Kept \ {d}}
    BY <2>2
  <2> QED  BY <2>1, <2>3
<1> QED  BY <1>1, <1>4, <1>18, <1>19, <1>20, ResolutionRecorded DEF Taken

LEMMA TrackKeeps ==
  ASSUME FluxInv, RecordResolution, Track(locked.dom, Head(locked.todo))
  PROVE  FluxInv'
<1>1. PICK d, m, r : Taken(d, m, r)
  BY AddressTaken
<1>2. /\ second \in Nat /\ sequence \in Nat /\ log \in Seq(Recorded) /\ d \in Domain
      /\ m \in Recorded /\ m.dom = d /\ m.at = second /\ r \in Resolution
      /\ m = [dom |-> d, ip |-> r.ip, at |-> second] /\ r = [at |-> second, ip |-> r.ip]
      /\ log' = Append(log, m) /\ second' = second /\ sequence' = sequence + 1
  BY <1>1 DEF Taken
<1>3. /\ Kept \subseteq Tracked
      /\ Unexpired = {<<history[e].sequence, e>> : e \in Kept}
      /\ \A e \in Tracked \ Kept : Expired(e)
      /\ \A e \in Kept : ~Expired(e)
      /\ \A e \in Tracked : history[e].sequence \in Nat /\ history[e].last_seen \in Nat /\ LastSeen(e)
  BY Aging DEF FluxInv, FluxTypes, Histories
<1>4. PICK rs : rs = <<r>>
  OBVIOUS
<1>5. PICK T : T = Kept \ {p[2] : p \in Evicted}
  OBVIOUS
<1>6. /\ d \notin Kept
      /\ history' = [e \in T \cup {d} |->
                       IF e # d THEN history[e]
                       ELSE [resolutions |-> rs, last_seen |-> second, sequence |-> sequence + 1]]
      /\ least_recent' = (Unexpired \ Evicted) \cup {<<sequence + 1, d>>}
  BY <1>1, <1>4, <1>5 DEF Track, Taken
<1>7. /\ DOMAIN log' = 1..Len(log) + 1 /\ DOMAIN log = 1..Len(log) /\ Len(log) \in Nat
      /\ log'[Len(log) + 1] = m /\ \A i \in 1..Len(log) : log'[i] = log[i]
  BY <1>2
<1>8. Mirrored(d)'
  <2>1. PICK f : Copies(rs, d, log', f)
    BY <1>2, <1>4, CopiesFirst
  <2>2. DOMAIN rs = {1} /\ history'[d].resolutions = rs
    BY <1>4, <1>6
  <2>3. ASSUME NEW i \in DOMAIN log', log'[i].dom = d, Young(i)' PROVE Excused(i, f)'
    <3>1. CASE i = Len(log) + 1
      <4>1. f[1] \in 1..Len(log) + 1
        BY <1>7, <2>1, <2>2 DEF Copies
      <4>2. f[1] <= i
        BY <1>7, <3>1, <4>1
      <4>3. \E k \in DOMAIN rs : f[k] = i
        BY <2>1, <2>2, <2>3, <4>2 DEF Copies
      <4> QED  BY <2>2, <2>3, <4>3 DEF Excused
    <3>2. CASE i \in 1..Len(log)
      <4>1. log[i].dom = d /\ Young(i) /\ log'[i].at = log[i].at
        BY <1>2, <1>7, <2>3, <3>2 DEF Young
      <4>2. d \notin Tracked
        <5> SUFFICES ASSUME d \in Tracked PROVE FALSE
          OBVIOUS
        <5>1. second - history[d].last_seen >= Window /\ history[d].last_seen \in Nat
          BY <1>3, <1>6 DEF Expired
        <5>2. log[i].at <= history[d].last_seen /\ second - log[i].at < Window
          BY <1>3, <1>7, <3>2, <4>1 DEF LastSeen, Young
        <5>3. log[i].at \in Nat
          <6>1. log[i] \in Recorded
            BY <1>2, <3>2
          <6> QED  BY <6>1 DEF Recorded
        <5>4. second \in Nat /\ Window \in Nat
          BY <1>2, FluxAssumption
        <5> QED  BY <5>1, <5>2, <5>3, <5>4
      <4>3. PICK from : from = log[i].at
        OBVIOUS
      <4>4. Crowded(from)
        BY <1>7, <3>2, <4>1, <4>2, <4>3 DEF FluxInv, Histories
      <4>5. Crowded(from)'
        BY <1>2, <4>4, CrowdedGrows DEF FluxInv
      <4>6. Crowded(log[i].at)'
        BY <4>1, <4>3, <4>5 DEF Crowded
      <4> QED  BY <4>6 DEF Excused
    <3> QED  BY <1>7, <3>1, <3>2
  <2> QED  BY <2>1, <2>2, <2>3 DEF Mirrored
<1>9. rs \in Seq(Resolution)
  BY <1>2, <1>4
<1>10. /\ DOMAIN history' = T \cup {d} /\ \A e \in T : e # d => history'[e] = history[e]
       /\ history'[d] = [resolutions |-> rs, last_seen |-> second, sequence |-> sequence + 1]
       /\ T \in SUBSET Kept /\ T \ {d} = T
  BY <1>5, <1>6
<1>11. ASSUME Evicted = {}
       PROVE  /\ least_recent' = {<<history[e].sequence, e>> : e \in T \ {d}} \cup {<<sequence + 1, d>>}
              /\ T \cup {d} # Kept \cup {d} => Cardinality(Active(second)') > DomainCap
  <2>1. T = Kept
    BY <1>5, <1>11
  <2>2. least_recent' = {<<history[e].sequence, e>> : e \in T \ {d}} \cup {<<sequence + 1, d>>}
    BY <1>3, <1>6, <1>10, <1>11, <2>1
  <2> QED  BY <2>1, <2>2
<1>12. ASSUME Evicted # {}
       PROVE  /\ least_recent' = {<<history[e].sequence, e>> : e \in T \ {d}} \cup {<<sequence + 1, d>>}
              /\ T \cup {d} # Kept \cup {d} => Cardinality(Active(second)') > DomainCap
  <2>1. PICK o : /\ Evicted = {o} /\ o = Oldest(Unexpired)
                 /\ Cardinality(Kept) >= DomainCap /\ Unexpired # {}
    BY <1>12 DEF Evicted
  <2>2. o \in Unexpired
    <3> DEFINE S == {history[e].sequence : e \in Kept}
    <3>1. S \subseteq Nat /\ S # {}
      BY <1>3, <2>1
    <3>2. PICK n \in S : \A x \in S : n <= x
      <4> HIDE DEF S
      <4> QED  BY <3>1, SmallestOf
    <3>3. PICK c \in Kept : n = history[c].sequence
      OBVIOUS
    <3>4. /\ <<history[c].sequence, c>> \in Unexpired
          /\ \A q \in Unexpired : <<history[c].sequence, c>>[1] <= q[1]
      BY <1>3, <3>2, <3>3
    <3> QED  BY <2>1, <3>4 DEF Oldest
  <2>3. PICK c \in Kept : o = <<history[c].sequence, c>>
    BY <1>3, <2>2
  <2>4. T = Kept \ {c}
    BY <1>5, <2>1, <2>3
  <2>5. least_recent' = {<<history[e].sequence, e>> : e \in T \ {d}} \cup {<<sequence + 1, d>>}
    <3>1. Unexpired \ Evicted = {<<history[e].sequence, e>> : e \in T}
      BY <1>3, <2>1, <2>3, <2>4
    <3> QED  BY <1>6, <1>10, <3>1
  <2>6. Cardinality(Active(second)') > DomainCap
    <3>1. PICK t : t = second
      OBVIOUS
    <3>2. Kept \subseteq Active(t)
      <4> SUFFICES ASSUME NEW e \in Kept PROVE e \in Active(t)
        OBVIOUS
      <4>1. PICK i \in DOMAIN log : log[i].dom = e /\ log[i].at = history[e].last_seen
        BY <1>3 DEF LastSeen
      <4>2. log[i].at <= t /\ t - log[i].at < Window
        <5>1. ~(second - history[e].last_seen >= Window) /\ history[e].last_seen \in Nat
          BY <1>3 DEF Expired
        <5>2. log[i].at <= second
          BY DEF FluxInv, LogInOrder
        <5> QED  BY <1>2, <3>1, <4>1, <5>1, <5>2, FluxAssumption
      <4> QED  BY <4>1, <4>2 DEF Active
    <3>3. /\ IsFiniteSet(Active(t)') /\ Active(t) \subseteq Active(t)'
          /\ Cardinality(Active(t)') \in Nat
          /\ m.at <= t /\ t - m.at < Window => m.dom \in Active(t)'
      BY <1>2, ActiveGrows
    <3>4. d \in Active(t)'
      BY <1>2, <3>1, <3>3, FluxAssumption
    <3>5. PICK A : A = Active(t)'
      OBVIOUS
    <3>6. Kept \cup {d} \in SUBSET A /\ IsFiniteSet(A) /\ Kept \in SUBSET A
      BY <3>2, <3>3, <3>4, <3>5
    <3>7. Cardinality(Kept \cup {d}) <= Cardinality(A) /\ IsFiniteSet(Kept)
      BY <3>6, FS_Subset
    <3>8. Cardinality(Kept \cup {d}) = Cardinality(Kept) + 1 /\ Cardinality(Kept) \in Nat
      BY <1>6, <3>7, FS_AddElement, FS_CardinalityType
    <3>9. Cardinality(A) > DomainCap
      BY <2>1, <3>3, <3>5, <3>7, <3>8, FluxAssumption
    <3>10. A = Active(second)'
      BY <1>2, <3>1, <3>5 DEF Active
    <3> QED  BY <3>9, <3>10
  <2> QED  BY <2>5, <2>6
<1>13. /\ locked' \in [dom : Domain \cup {NoDomain}, todo : Seq(Address)] /\ locked'.dom \in Domain
       /\ verdict' = NoVerdict
  BY <1>1 DEF Taken
<1> QED  BY <1>2, <1>8, <1>9, <1>10, <1>11, <1>12, <1>13, ResolutionRecorded

(* The clock advances, when nobody holds the lock.                         *)
LEMMA FluxTickKeeps ==
  ASSUME FluxInv, FluxTick
  PROVE  FluxInv'
<1>1. /\ second \in Nat /\ second' = second + 1 /\ verdict' = NoVerdict
      /\ UNCHANGED <<history, least_recent, sequence, locked, log>>
      /\ FluxTypes /\ LogInOrder /\ Histories
  BY DEF FluxTick, FluxInv, FluxTypes
<1>2. Tracked' = Tracked
  BY <1>1 DEF Tracked
<1>3. ASSUME NEW i \in DOMAIN log
      PROVE  /\ log[i].at \in Nat /\ log[i].at <= second'
             /\ Young(i)' => Young(i)
             /\ Crowded(log[i].at) => Crowded(log[i].at)'
  <2>1. log[i].at \in Nat /\ log[i].at <= second
    <3>1. log[i] \in Recorded
      BY <1>1 DEF FluxTypes
    <3> QED  BY <1>1, <3>1 DEF Recorded, LogInOrder
  <2>2. Young(i)' => Young(i)
    BY <1>1, <2>1, FluxAssumption DEF Young
  <2>3. PICK from \in Nat : from = log[i].at
    BY <2>1
  <2>4. Crowded(from) => Crowded(from)'
    BY <1>1, CrowdedStays
  <2>5. Crowded(log[i].at)' <=> Crowded(from)'
    BY <1>1, <2>3 DEF Crowded
  <2> QED  BY <1>1, <2>1, <2>2, <2>3, <2>4, <2>5
<1>4. FluxTypes' /\ LogInOrder' /\ IndexExact' /\ IndexInOrder'
  <2>1. FluxTypes'
    BY <1>1, <1>2 DEF FluxTypes
  <2>2. LogInOrder'
    BY <1>1, <1>3 DEF LogInOrder
  <2>3. IndexExact' /\ IndexInOrder'
    BY <1>1, <1>2 DEF FluxInv, IndexExact, IndexInOrder
  <2> QED  BY <2>1, <2>2, <2>3
<1>5. ASSUME NEW d \in Tracked PROVE LastSeen(d)' /\ Mirrored(d)'
  <2>1. LastSeen(d)'
    BY <1>1 DEF Histories, LastSeen
  <2>2. PICK f : /\ Copies(history[d].resolutions, d, log, f)
                 /\ \A i \in DOMAIN log : log[i].dom = d /\ Young(i) => Excused(i, f)
    BY <1>1 DEF Histories, Mirrored
  <2>3. ASSUME NEW i \in DOMAIN log, log[i].dom = d, Young(i)' PROVE Excused(i, f)'
    <3>1. Excused(i, f)
      BY <1>3, <2>2, <2>3
    <3> QED  BY <1>1, <1>3, <3>1 DEF Excused
  <2> QED  BY <1>1, <2>1, <2>2, <2>3 DEF Mirrored
<1>6. \A i \in DOMAIN log : log[i].dom \notin Tracked /\ Young(i)' => Crowded(log[i].at)'
  BY <1>1, <1>3 DEF Histories
<1>7. Histories'
  BY <1>1, <1>2, <1>5, <1>6 DEF Histories
<1> QED  BY <1>1, <1>4, <1>7 DEF FluxInv

(* Neither the histories nor the clock changes.                            *)
LEMMA FluxRests ==
  ASSUME FluxInv, UNCHANGED <<second, history, least_recent, sequence, log>>,
         locked' \in [dom : Domain \cup {NoDomain}, todo : Seq(Address)],
         locked'.todo # <<>> => locked'.dom \in Domain,
         locked' # Nobody => verdict' = NoVerdict
  PROVE  FluxInv'
<1>1. Tracked' = Tracked
  BY DEF Tracked
<1>2. FluxTypes' /\ LogInOrder' /\ IndexExact' /\ IndexInOrder'
  BY <1>1 DEF FluxInv, FluxTypes, LogInOrder, IndexExact, IndexInOrder
<1>3. \A t : Active(t)' = Active(t)
  BY DEF Active
<1>4. \A i : /\ Young(i)' = Young(i)
             /\ Crowded(log[i].at)' <=> Crowded(log[i].at)
  BY <1>3 DEF Young, Crowded
<1>5. \A i, f : Excused(i, f)' <=> Excused(i, f)
  BY <1>4 DEF Excused
<1>6. Histories'
  BY <1>1, <1>4, <1>5 DEF FluxInv, Histories, LastSeen, Mirrored
<1> QED  BY <1>2, <1>6 DEF FluxInv

LEMMA AnswerKeeps ==
  ASSUME FluxInv, NEW d \in Domain, NEW ips \in Resolved, Answer(d, ips)
  PROVE  FluxInv'
<1>1. ips \in Seq(Address)
  BY FluxAssumption
<1>2. /\ locked' = [dom |-> d, todo |-> ips] /\ verdict' = NoVerdict
      /\ UNCHANGED <<second, history, least_recent, sequence, log>>
  BY DEF Answer
<1> QED  BY <1>1, <1>2, FluxRests

(* What is left after popping is recent, and what is popped is not.        *)
LEMMA RecentIsRest ==
  ASSUME second \in Nat, NEW rs \in Seq(Resolution)
  PROVE  \E n \in 0..Len(rs) :
           /\ Recent(rs) = Rest(rs, n)
           /\ \A i \in 1..n : second - rs[i].at > Window
           /\ n < Len(rs) => second - rs[n + 1].at <= Window
<1> DEFINE L == Len(rs)
           S == {k \in 1..L + 1 : k = L + 1 \/ second - rs[k].at <= Window}
           front(n) == /\ \A i \in 1..n : second - rs[i].at > Window
                       /\ n < L => second - rs[n + 1].at <= Window
<1>1. L \in Nat
  OBVIOUS
<1>2. PICK k \in S : \A x \in S : k <= x
  <2>1. S \subseteq Nat /\ L + 1 \in S
    BY <1>1
  <2> HIDE DEF S
  <2> QED  BY <2>1, SmallestOf
<1>3. \A i \in 1..L : rs[i].at \in Nat
  <2>1. \A i \in 1..L : rs[i] \in Resolution
    <3> HIDE DEF Resolution
    <3> QED  OBVIOUS
  <2> QED  BY <2>1 DEF Resolution
<1>4. k - 1 \in 0..L /\ front(k - 1)
  <2>1. k \in 1..L + 1 /\ k - 1 \in 0..L /\ (k - 1) + 1 = k
    BY <1>1
  <2>2. ASSUME NEW i \in 1..k - 1 PROVE second - rs[i].at > Window
    <3>1. i \in 1..L + 1 /\ i # L + 1 /\ i \in 1..L /\ ~(k <= i)
      BY <1>1, <2>1
    <3>2. ~(second - rs[i].at <= Window)
      BY <1>2, <3>1
    <3> QED  BY <1>3, <3>1, <3>2, FluxAssumption
  <2>3. k - 1 < L => second - rs[k].at <= Window
    BY <1>1, <2>1
  <2> QED  BY <2>1, <2>2, <2>3
<1>5. Popped(rs) = CHOOSE n \in 0..L : front(n)
  BY DEF Popped
<1> HIDE DEF front, L
<1>6. Popped(rs) \in 0..L /\ front(Popped(rs))
  BY <1>4, <1>5
<1>7. Recent(rs) = Rest(rs, Popped(rs))
  <2>1. PICK n \in 0..Len(rs) : n = Popped(rs)
    BY <1>6 DEF L
  <2> QED  BY <2>1, SubSeqIsRest DEF Recent
<1> QED  BY <1>6, <1>7 DEF L, front

Forgets(d, n) ==
  LET rs == history[d].resolutions
  IN  /\ n \in 0..Len(rs) /\ Recent(rs) = Rest(rs, n)
      /\ \A i \in 1..n : second - rs[i].at > Window
      /\ n < Len(rs) => second - rs[n + 1].at <= Window

(* What is popped is not young; and if there is a young one that the cap   *)
(* has taken before, all that is held is younger, and none is popped.      *)
LEMMA MirrorPopped ==
  ASSUME FluxInv, NEW d \in Tracked, NEW n, Forgets(d, n)
  PROVE  \E g : /\ Copies(Recent(history[d].resolutions), d, log, g)
                /\ \A i \in DOMAIN log : log[i].dom = d /\ Young(i) =>
                     \/ Crowded(log[i].at)
                     \/ Len(Recent(history[d].resolutions)) >= Keep
                     \/ \E j \in DOMAIN Recent(history[d].resolutions) : g[j] = i
<1>1. PICK rs \in Seq(Resolution) : rs = history[d].resolutions
  BY DEF FluxInv, FluxTypes
<1>2. PICK f : /\ Copies(rs, d, log, f)
               /\ \A i \in DOMAIN log : log[i].dom = d /\ Young(i) => Excused(i, f)
  BY <1>1 DEF FluxInv, Histories, Mirrored
<1>3. /\ n \in 0..Len(rs) /\ Recent(rs) = Rest(rs, n)
      /\ \A i \in 1..n : second - rs[i].at > Window
  BY <1>1 DEF Forgets
<1>4. /\ second \in Nat /\ log \in Seq(Recorded) /\ Window \in Nat
      /\ \A i, j \in DOMAIN log : i <= j => log[i].at <= log[j].at
      /\ DOMAIN log \subseteq Nat
  BY FluxAssumption DEF FluxInv, FluxTypes, LogInOrder
<1>5. \A i \in DOMAIN log : log[i].at \in Nat
  <2>1. \A i \in DOMAIN log : log[i] \in Recorded
    BY <1>4
  <2> QED  BY <2>1 DEF Recorded
<1>6. PICK g : /\ Copies(Rest(rs, n), d, log, g)
               /\ \A j \in DOMAIN rs : j > n => \E k \in DOMAIN Rest(rs, n) : g[k] = f[j]
  BY <1>2, <1>3, <1>4, CopiesRest
<1>7. ASSUME NEW i \in DOMAIN log, log[i].dom = d, Young(i)
      PROVE  \/ Crowded(log[i].at) \/ Len(Rest(rs, n)) >= Keep
             \/ \E j \in DOMAIN Rest(rs, n) : g[j] = i
  <2>1. Crowded(log[i].at) \/ Len(rs) >= Keep \/ \E j \in DOMAIN rs : f[j] = i
    BY <1>1, <1>2, <1>7 DEF Excused
  <2>2. Len(rs) \in Nat /\ DOMAIN rs = 1..Len(rs)
    OBVIOUS
  <2>3. ASSUME NEW j \in DOMAIN rs, i <= f[j] PROVE j > n
    <3>1. f[j] \in DOMAIN log /\ log[f[j]].at = rs[j].at
      <4>1. f \in [DOMAIN rs -> DOMAIN log]
        BY <1>2 DEF Copies
      <4>2. log[f[j]] = [dom |-> d, ip |-> rs[j].ip, at |-> rs[j].at]
        BY <1>2 DEF Copies
      <4> QED  BY <4>1, <4>2
    <3>2. log[i].at <= rs[j].at /\ rs[j].at \in Nat /\ log[i].at \in Nat
      BY <1>4, <1>5, <2>3, <3>1
    <3>3. second - log[i].at < Window
      BY <1>7 DEF Young
    <3>4. ~(second - rs[j].at > Window)
      BY <1>4, <3>2, <3>3
    <3>5. j \notin 1..n
      BY <1>3, <3>4
    <3> QED  BY <1>3, <2>2, <3>5
  <2>4. CASE \E j \in DOMAIN rs : f[j] = i
    <3>1. PICK j \in DOMAIN rs : f[j] = i
      BY <2>4
    <3>2. j > n
      BY <1>4, <2>3, <3>1
    <3> QED  BY <1>6, <3>1, <3>2
  <2>5. CASE Len(rs) >= Keep /\ ~\E j \in DOMAIN rs : f[j] = i
    <3>1. n = 0
      <4> SUFFICES ASSUME n # 0 PROVE FALSE
        OBVIOUS
      <4>1. n \in DOMAIN rs
        BY <1>3, <2>2
      <4>2. ~(i <= f[n])
        <5>1. n \in Nat /\ ~(n > n)
          BY <1>3
        <5> QED  BY <2>3, <4>1, <5>1
      <4>3. f[n] \in Nat /\ i \in Nat
        BY <1>2, <1>4, <4>1 DEF Copies
      <4>4. f[n] <= i
        BY <4>2, <4>3
      <4>5. \E k \in DOMAIN rs : f[k] = i
        BY <1>2, <1>7, <4>1, <4>4 DEF Copies
      <4> QED  BY <2>5, <4>5
    <3>2. Len(Rest(rs, n)) = Len(rs) - n
      BY <1>3, RestTyped
    <3> QED  BY <2>2, <2>5, <3>1, <3>2
  <2> QED  BY <2>1, <2>4, <2>5
<1> QED  BY <1>1, <1>3, <1>6, <1>7

LEMMA JudgementKeeps ==
  ASSUME FluxInv, IsFastFlux
  PROVE  FluxInv'
<1>1. PICK d : d = locked.dom
  OBVIOUS
<1>2. /\ locked' = Nobody /\ UNCHANGED <<second, least_recent, sequence, log>>
  BY DEF IsFastFlux
<1>3. locked' \in [dom : Domain \cup {NoDomain}, todo : Seq(Address)] /\ locked'.todo = <<>>
  BY <1>2 DEF Nobody
<1>4. \A e \in Tracked :
        history[e] \in [resolutions : Seq(Resolution), last_seen : Nat, sequence : Nat]
  BY DEF FluxInv, FluxTypes
<1>5. /\ DOMAIN history' = Tracked
      /\ \A e \in Tracked : e # d => history'[e] = history[e]
      /\ d \in Tracked => history'[d] = [resolutions |-> Recent(history[d].resolutions),
                                         last_seen |-> history[d].last_seen,
                                         sequence |-> history[d].sequence]
  <2>1. history' = [e \in Tracked |->
                      IF e = d THEN [history[e] EXCEPT !.resolutions =
                                       IF d \in Tracked THEN Recent(history[d].resolutions) ELSE <<>>]
                      ELSE history[e]]
    BY <1>1 DEF IsFastFlux
  <2>2. ASSUME d \in Tracked
        PROVE  history'[d] = [resolutions |-> Recent(history[d].resolutions),
                              last_seen |-> history[d].last_seen,
                              sequence |-> history[d].sequence]
    <3>1. PICK h, q : h = history[d] /\ q = Recent(history[d].resolutions)
      OBVIOUS
    <3>2. h \in [resolutions : Seq(Resolution), last_seen : Nat, sequence : Nat]
      BY <1>4, <2>2, <3>1
    <3>3. history'[d] = [h EXCEPT !.resolutions = q]
      BY <2>1, <2>2, <3>1
    <3>4. [h EXCEPT !.resolutions = q] =
            [resolutions |-> q, last_seen |-> h.last_seen, sequence |-> h.sequence]
      BY <3>2
    <3> QED  BY <3>1, <3>3, <3>4
  <2> QED  BY <2>1, <2>2
<1>6. Tracked' = Tracked
  BY <1>5 DEF Tracked
<1>7. \A e \in Tracked : /\ history'[e].last_seen = history[e].last_seen
                         /\ history'[e].sequence = history[e].sequence
  BY <1>5
<1>8. IndexExact' /\ IndexInOrder' /\ LogInOrder' /\ \A e \in Tracked : LastSeen(e)'
  <2>1. IndexExact'
    BY <1>2, <1>6, <1>7 DEF FluxInv, IndexExact
  <2>2. IndexInOrder'
    BY <1>2, <1>6, <1>7 DEF FluxInv, IndexInOrder
  <2>3. LogInOrder'
    BY <1>2 DEF FluxInv, LogInOrder
  <2>4. \A e \in Tracked : LastSeen(e)'
    BY <1>2, <1>7 DEF FluxInv, Histories, LastSeen
  <2> QED  BY <2>1, <2>2, <2>3, <2>4
<1>9. \A t : Active(t)' = Active(t)
  BY <1>2 DEF Active
<1>10. \A i : /\ Young(i)' = Young(i)
              /\ Crowded(log[i].at)' <=> Crowded(log[i].at)
  BY <1>2, <1>9 DEF Young, Crowded
<1>11. ASSUME NEW e \in Tracked, e # d PROVE Mirrored(e)'
  <2>1. history'[e] = history[e] /\ Mirrored(e)
    BY <1>5, <1>11 DEF FluxInv, Histories
  <2>2. PICK f : /\ Copies(history[e].resolutions, e, log, f)
                 /\ \A i \in DOMAIN log : log[i].dom = e /\ Young(i) => Excused(i, f)
    BY <2>1 DEF Mirrored
  <2>3. ASSUME NEW i \in DOMAIN log, log[i].dom = e, Young(i)' PROVE Excused(i, f)'
    <3>1. Excused(i, f)
      BY <1>10, <2>2, <2>3
    <3> QED  BY <1>2, <1>10, <2>1, <2>3, <3>1 DEF Excused
  <2> QED  BY <1>2, <2>1, <2>2, <2>3 DEF Mirrored
<1>12. ASSUME d \in Tracked
       PROVE  Mirrored(d)' /\ Recent(history[d].resolutions) \in Seq(Resolution)
  <2>1. PICK rs \in Seq(Resolution) : rs = history[d].resolutions
    BY <1>4, <1>12
  <2>2. PICK n : Forgets(d, n)
    BY <2>1, RecentIsRest DEF Forgets, FluxInv, FluxTypes
  <2>3. PICK q : q = Recent(history[d].resolutions)
    OBVIOUS
  <2>4. PICK g : /\ Copies(q, d, log, g)
                 /\ \A i \in DOMAIN log : log[i].dom = d /\ Young(i) =>
                      Crowded(log[i].at) \/ Len(q) >= Keep \/ \E j \in DOMAIN q : g[j] = i
    BY <1>12, <2>2, <2>3, MirrorPopped
  <2>5. history'[d].resolutions = q
    BY <1>5, <1>12, <2>3
  <2>6. ASSUME NEW i \in DOMAIN log, log[i].dom = d, Young(i)' PROVE Excused(i, g)'
    <3>1. Crowded(log[i].at) \/ Len(q) >= Keep \/ \E j \in DOMAIN q : g[j] = i
      BY <1>10, <2>4, <2>6
    <3> QED  BY <1>2, <1>10, <2>5, <2>6, <3>1 DEF Excused
  <2>7. Mirrored(d)'
    BY <1>2, <2>4, <2>5, <2>6 DEF Mirrored
  <2>8. q \in Seq(Resolution)
    BY <2>1, <2>2, <2>3, RestTyped DEF Forgets
  <2> QED  BY <2>3, <2>7, <2>8
<1>13. Histories'
  BY <1>2, <1>6, <1>8, <1>10, <1>11, <1>12 DEF FluxInv, Histories
<1>14. FluxTypes'
  <2>1. ASSUME NEW e \in Tracked
        PROVE  history'[e] \in [resolutions : Seq(Resolution), last_seen : Nat, sequence : Nat]
    <3>1. CASE e # d
      BY <1>4, <1>5, <3>1
    <3>2. CASE e = d
      BY <1>4, <1>5, <1>12, <3>2
    <3> QED  BY <3>1, <3>2
  <2> QED  BY <1>2, <1>3, <1>6, <2>1 DEF FluxInv, FluxTypes
<1> QED  BY <1>2, <1>8, <1>13, <1>14 DEF FluxInv

LEMMA FluxNextInv ==
  ASSUME FluxInv, [FluxNext]_fluxVars
  PROVE  FluxInv'
<1>1. CASE RecordResolution
  <2>1. Refresh(locked.dom, Head(locked.todo)) \/ Track(locked.dom, Head(locked.todo))
    BY <1>1 DEF RecordResolution
  <2> QED  BY <1>1, <2>1, RefreshKeeps, TrackKeeps
<1>2. CASE UNCHANGED fluxVars
  <2>1. /\ UNCHANGED <<second, history, least_recent, sequence, log>>
        /\ locked' = locked /\ verdict' = verdict
    BY <1>2 DEF fluxVars
  <2> QED  BY <2>1, FluxRests DEF FluxInv, FluxTypes
<1> QED  BY <1>1, <1>2, AnswerKeeps, JudgementKeeps, FluxTickKeeps DEF FluxNext

-----------------------------------------------------------------------------
(* The judgement: who has enough addresses has them among more as well.    *)
LEMMA MoreSuspicious ==
  ASSUME NEW S, NEW T, S \subseteq T, IsFiniteSet(T), Suspicious(S)
  PROVE  Suspicious(T)
<1>1. S \in SUBSET T
  OBVIOUS
<1>2. IsFiniteSet(S) /\ Cardinality(S) <= Cardinality(T)
  BY <1>1, FS_Subset
<1>3. Cardinality(S) \in Nat /\ Cardinality(T) \in Nat
  BY <1>2, FS_CardinalityType
<1>4. Cardinality(T) >= Many
  BY <1>2, <1>3, FluxAssumption DEF Suspicious
<1> QED  BY <1>1, <1>4 DEF Suspicious

LEMMA SeenFinite ==
  ASSUME log \in Seq(Recorded), NEW d, NEW age
  PROVE  IsFiniteSet(Within(d, age)) /\ IsFiniteSet(Seen(d, age))
<1> DEFINE f == [i \in Within(d, age) |-> log[i].ip]
<1>1. IsFiniteSet(1..Len(log)) /\ DOMAIN log = 1..Len(log)
  <2>1. Len(log) \in Nat /\ DOMAIN log = 1..Len(log)
    OBVIOUS
  <2> QED  BY <2>1, FS_Interval
<1>2. IsFiniteSet(Within(d, age))
  <2>1. Within(d, age) \in SUBSET (1..Len(log))
    BY <1>1 DEF Within
  <2> QED  BY <1>1, <2>1, FS_Subset
<1>3. f \in Surjection(Within(d, age), Seen(d, age))
  BY DEF Surjection, Seen
<1> HIDE DEF f
<1> QED  BY <1>2, <1>3, FS_Surjection

LEMMA AddressesFinite ==
  ASSUME NEW S, NEW rs \in Seq(S)
  PROVE  IsFiniteSet(Addresses(rs))
<1> DEFINE f == [i \in 1..Len(rs) |-> rs[i].ip]
<1>1. IsFiniteSet(1..Len(rs)) /\ DOMAIN rs = 1..Len(rs)
  <2>1. Len(rs) \in Nat /\ DOMAIN rs = 1..Len(rs)
    OBVIOUS
  <2> QED  BY <2>1, FS_Interval
<1>2. f \in Surjection(1..Len(rs), Addresses(rs))
  BY <1>1 DEF Surjection, Addresses
<1> HIDE DEF f
<1> QED  BY <1>1, <1>2, FS_Surjection

LEMMA CopyOf ==
  ASSUME NEW rs, NEW d, NEW lg, NEW f, Copies(rs, d, lg, f), NEW j \in DOMAIN rs
  PROVE  /\ f[j] \in DOMAIN lg /\ lg[f[j]].dom = d
         /\ lg[f[j]].ip = rs[j].ip /\ lg[f[j]].at = rs[j].at
<1>1. f[j] \in DOMAIN lg /\ lg[f[j]] = [dom |-> d, ip |-> rs[j].ip, at |-> rs[j].at]
  BY DEF Copies
<1> QED  BY <1>1

(* More than Keep resolutions within the window, if one of them was taken  *)
(* at the cap.                                                             *)
LEMMA CapTakesOne ==
  ASSUME log \in Seq(Recorded), NEW d, NEW rs \in Seq(Resolution), NEW g, Copies(rs, d, log, g),
         \A j \in DOMAIN rs : second - rs[j].at <= Window, Len(rs) >= Keep,
         NEW i \in Within(d, Window), \A j \in DOMAIN rs : g[j] # i
  PROVE  ~(Cardinality(Within(d, Window)) <= Keep)
<1> DEFINE W == Within(d, Window)
<1>1. Len(rs) \in Nat /\ DOMAIN rs = 1..Len(rs) /\ DOMAIN log \subseteq Nat
  OBVIOUS
<1>2. ASSUME NEW j \in DOMAIN rs PROVE g[j] \in W \ {i}
  <2>1. g[j] \in DOMAIN log /\ log[g[j]] = [dom |-> d, ip |-> rs[j].ip, at |-> rs[j].at]
    BY DEF Copies
  <2>2. log[g[j]].dom = d /\ log[g[j]].at = rs[j].at
    BY <2>1
  <2> QED  BY <2>1, <2>2 DEF Within
<1>3. ASSUME NEW j \in DOMAIN rs, NEW k \in DOMAIN rs, g[j] = g[k] PROVE j = k
  <2>1. g[j] \in Nat /\ g[k] \in Nat
    BY <1>1 DEF Copies
  <2>2. (j < k => g[j] < g[k]) /\ (k < j => g[k] < g[j])
    BY DEF Copies
  <2> QED  BY <1>1, <1>3, <2>1, <2>2
<1>4. IsFiniteSet(W) /\ IsFiniteSet(W \ {i})
  BY SeenFinite, FS_RemoveElement
<1>5. g \in Injection(DOMAIN rs, W \ {i})
  <2>1. g \in [DOMAIN rs -> W \ {i}]
    <3>1. g \in [DOMAIN rs -> DOMAIN log]
      BY DEF Copies
    <3> HIDE DEF W
    <3> QED  BY <1>2, <3>1
  <2> HIDE DEF W
  <2> QED  BY <1>3, <2>1 DEF Injection, IsInjective
<1>6. Cardinality(DOMAIN rs) <= Cardinality(W \ {i}) /\ Cardinality(DOMAIN rs) = Len(rs)
  <2>1. \A n \in Nat : Cardinality(1..n) = n
    BY FS_Interval
  <2> HIDE DEF W
  <2> QED  BY <1>1, <1>4, <1>5, <2>1, FS_Injection
<1>7. Cardinality(W) = Cardinality(W \ {i}) + 1 /\ Cardinality(W \ {i}) \in Nat
  <2>1. Cardinality(W \ {i}) = Cardinality(W) - 1 /\ Cardinality(W) \in Nat
        /\ Cardinality(W \ {i}) \in Nat
    BY <1>4, FS_RemoveElement, FS_CardinalityType
  <2> QED  BY <2>1
<1> HIDE DEF W
<1>8. ~(Cardinality(W) <= Keep)
  BY <1>1, <1>6, <1>7, FluxAssumption
<1> QED  BY <1>8 DEF W

LEMMA NotCrowded ==
  ASSUME FluxInv, Roomy, NEW i \in DOMAIN log, Young(i)
  PROVE  ~Crowded(log[i].at)
<1> SUFFICES ASSUME Crowded(log[i].at) PROVE FALSE
  OBVIOUS
<1>1. log[i].at \in Nat /\ second \in Nat /\ Window \in Nat /\ log \in Seq(Recorded)
  <2>1. log[i] \in Recorded
    BY DEF FluxInv, FluxTypes
  <2> QED  BY <2>1, FluxAssumption DEF FluxInv, FluxTypes, Recorded
<1>2. PICK t \in log[i].at..second : Cardinality(Active(t)) > DomainCap
  BY DEF Crowded
<1>3. t \in 0..second /\ second - t <= Window
  BY <1>1 DEF Young
<1>4. Cardinality(Active(t)) <= DomainCap
  BY <1>3 DEF Roomy
<1>5. Cardinality(Active(t)) \in Nat
  <2>1. IsFiniteSet(Active(t))
    BY <1>1, FewActive DEF Active
  <2> QED  BY <2>1, FS_CardinalityType
<1> QED  BY <1>2, <1>4, <1>5, FluxAssumption

LEMMA YoungIsHeld ==
  ASSUME FluxInv, Roomy, NEW d, Cardinality(Within(d, Window)) <= Keep,
         NEW q \in Seq(Resolution), NEW g, Copies(q, d, log, g),
         \A j \in DOMAIN q : second - q[j].at <= Window,
         NEW i \in DOMAIN log, i \in Within(d, Window), Young(i),
         Crowded(log[i].at) \/ Len(q) >= Keep \/ \E j \in DOMAIN q : g[j] = i
  PROVE  \E j \in DOMAIN q : g[j] = i
<1> SUFFICES ASSUME \A j \in DOMAIN q : g[j] # i PROVE FALSE
  OBVIOUS
<1>1. ~Crowded(log[i].at)
  BY NotCrowded
<1>2. Len(q) >= Keep
  BY <1>1
<1>3. log \in Seq(Recorded)
  BY DEF FluxInv, FluxTypes
<1> QED  BY <1>2, <1>3, CapTakesOne

(* The addresses a judgement counts are among those of the window, and all *)
(* of them if there was room.                                              *)
LEMMA JudgedBySeen ==
  ASSUME FluxInv, NEW d, NEW q,
         q = IF d \in Tracked THEN Recent(history[d].resolutions) ELSE <<>>
  PROVE  /\ IsFiniteSet(Addresses(q)) /\ Addresses(q) \subseteq Seen(d, Window)
         /\ Roomy /\ Cardinality(Within(d, Window)) <= Keep =>
              Seen(d, Window - 1) \subseteq Addresses(q)
<1>1. /\ second \in Nat /\ log \in Seq(Recorded) /\ Window \in Nat \ {0}
      /\ \A i, j \in DOMAIN log : i <= j => log[i].at <= log[j].at
  BY FluxAssumption DEF FluxInv, FluxTypes, LogInOrder
<1>2. \A i \in DOMAIN log : log[i].at \in Nat
  <2>1. \A i \in DOMAIN log : log[i] \in Recorded
    BY <1>1
  <2> QED  BY <2>1 DEF Recorded
<1>3. ASSUME NEW x \in Seen(d, Window - 1)
      PROVE  \E i \in DOMAIN log : /\ log[i].dom = d /\ log[i].ip = x /\ Young(i)
                                   /\ i \in Within(d, Window)
  <2>1. PICK i \in Within(d, Window - 1) : x = log[i].ip
    BY DEF Seen
  <2>2. i \in DOMAIN log /\ log[i].dom = d /\ second - log[i].at <= Window - 1
    BY <2>1 DEF Within
  <2>3. second - log[i].at < Window /\ second - log[i].at <= Window
    BY <1>1, <1>2, <2>2
  <2> QED  BY <2>1, <2>2, <2>3 DEF Within, Young
<1>4. CASE d \in Tracked
  <2>1. PICK rs \in Seq(Resolution) : rs = history[d].resolutions
    BY <1>4 DEF FluxInv, FluxTypes
  <2>2. PICK n : Forgets(d, n)
    BY <1>1, <2>1, RecentIsRest DEF Forgets
  <2>3. PICK g : /\ Copies(q, d, log, g)
                 /\ \A i \in DOMAIN log : log[i].dom = d /\ Young(i) =>
                      Crowded(log[i].at) \/ Len(q) >= Keep \/ \E j \in DOMAIN q : g[j] = i
    BY <1>4, <2>2, MirrorPopped
  <2>4. /\ n \in 0..Len(rs) /\ q = Rest(rs, n)
        /\ n < Len(rs) => second - rs[n + 1].at <= Window
    BY <1>4, <2>1, <2>2 DEF Forgets
  <2>5. q \in Seq(Resolution)
    BY <2>4, RestTyped
  <2>7. \A j \in DOMAIN q : /\ g[j] \in DOMAIN log /\ log[g[j]].dom = d
                            /\ log[g[j]].ip = q[j].ip /\ log[g[j]].at = q[j].at
    BY <2>3, CopyOf
  <2>8. ASSUME NEW j \in DOMAIN q PROVE second - q[j].at <= Window
    <3>1. /\ Len(rs) \in Nat /\ DOMAIN q = 1..(Len(rs) - n) /\ n < Len(rs) /\ 1 \in DOMAIN q
          /\ q[1] = rs[1 + n] /\ 1 + n = n + 1 /\ 1 <= j /\ j \in Nat
      <4>1. /\ Len(rs) \in Nat /\ DOMAIN q = 1..(Len(rs) - n) /\ n \in 0..Len(rs)
            /\ \A k \in 1..(Len(rs) - n) : q[k] = rs[k + n]
        <5>1. /\ DOMAIN Rest(rs, n) = 1..(Len(rs) - n)
              /\ \A k \in 1..(Len(rs) - n) : Rest(rs, n)[k] = rs[k + n]
          BY <2>4, RestTyped, Zenon
        <5>2. Len(rs) \in Nat
          OBVIOUS
        <5> QED  BY <2>4, <5>1, <5>2
      <4>2. j \in 1..(Len(rs) - n)
        BY <2>8, <4>1
      <4>3. n < Len(rs) /\ 1 \in 1..(Len(rs) - n) /\ 1 + n = n + 1 /\ 1 <= j /\ j \in Nat
        BY <4>1, <4>2
      <4> QED  BY <4>1, <4>3
    <3>2. second - q[1].at <= Window
      BY <2>4, <3>1
    <3>3. g[1] <= g[j]
      <4>1. CASE j = 1
        <5>1. g[1] \in Nat
          BY <1>1, <2>7, <3>1
        <5> QED  BY <4>1, <5>1
      <4>2. CASE 1 < j
        <5>1. g[1] < g[j]
          BY <2>3, <3>1, <4>2 DEF Copies
        <5>2. g[1] \in Nat /\ g[j] \in Nat
          BY <1>1, <2>7, <3>1
        <5> QED  BY <5>1, <5>2
      <4> QED  BY <3>1, <4>1, <4>2
    <3>4. q[1].at <= q[j].at /\ q[1].at \in Nat /\ q[j].at \in Nat
      BY <1>1, <1>2, <2>7, <3>1, <3>3
    <3> QED  BY <1>1, <3>2, <3>4
  <2>9. ASSUME NEW x \in Addresses(q) PROVE x \in Seen(d, Window)
    <3>1. PICK j \in DOMAIN q : x = q[j].ip
      BY DEF Addresses
    <3>2. g[j] \in Within(d, Window)
      BY <2>7, <2>8, <3>1 DEF Within
    <3> QED  BY <2>7, <3>1, <3>2 DEF Seen
  <2>10. ASSUME Roomy, Cardinality(Within(d, Window)) <= Keep, NEW x \in Seen(d, Window - 1)
         PROVE  x \in Addresses(q)
    <3>1. PICK i \in DOMAIN log : /\ log[i].dom = d /\ log[i].ip = x /\ Young(i)
                                  /\ i \in Within(d, Window)
      BY <1>3, <2>10
    <3>2. \E j \in DOMAIN q : g[j] = i
      <4>1. PICK p \in Seq(Resolution) : p = q
        BY <2>5
      <4>2. /\ Copies(p, d, log, g) /\ \A j \in DOMAIN p : second - p[j].at <= Window
            /\ Crowded(log[i].at) \/ Len(p) >= Keep \/ \E j \in DOMAIN p : g[j] = i
        BY <2>3, <2>8, <3>1, <4>1
      <4>3. \E j \in DOMAIN p : g[j] = i
        BY <2>10, <3>1, <4>2, YoungIsHeld
      <4> QED  BY <4>1, <4>3
    <3> QED  BY <2>7, <3>1, <3>2 DEF Addresses
  <2> QED  BY <2>5, <2>9, <2>10, AddressesFinite
<1>5. CASE d \notin Tracked
  <2>1. q = <<>> /\ Addresses(q) = {}
    BY <1>5 DEF Addresses
  <2>2. ASSUME Roomy, NEW x \in Seen(d, Window - 1) PROVE FALSE
    <3>1. PICK i \in DOMAIN log : log[i].dom = d /\ Young(i)
      BY <1>3, <2>2
    <3>2. Crowded(log[i].at)
      BY <1>5, <3>1 DEF FluxInv, Histories
    <3> QED  BY <2>2, <3>1, <3>2, NotCrowded
  <2> QED  BY <2>1, <2>2, FS_EmptySet
<1> QED  BY <1>4, <1>5

LEMMA FluxInitExact == FluxInit => FluxExact
BY DEF FluxInit, FluxExact

LEMMA FluxStaysExact ==
  ASSUME FluxExact, UNCHANGED <<verdict, second, log>>
  PROVE  FluxExact'
<1>1. \A d, age : Within(d, age)' = Within(d, age) /\ Seen(d, age)' = Seen(d, age)
  BY DEF Within, Seen
<1>2. Roomy' = Roomy
  <2>1. \A t : Active(t)' = Active(t)
    BY DEF Active
  <2> QED  BY <2>1 DEF Roomy
<1> QED  BY <1>1, <1>2 DEF FluxExact, NoVerdict

LEMMA FluxNextExact ==
  ASSUME FluxInv, FluxExact, [FluxNext]_fluxVars
  PROVE  FluxExact'
<1>1. CASE verdict' = NoVerdict
  BY <1>1 DEF FluxExact, NoVerdict
<1>2. CASE IsFastFlux
  <2>1. PICK d, q : /\ d = locked.dom
                    /\ q = IF d \in Tracked THEN Recent(history[d].resolutions) ELSE <<>>
    OBVIOUS
  <2>2. verdict' = [dom |-> d, flux |-> Suspicious(Addresses(q))] /\ UNCHANGED <<second, log>>
    BY <1>2, <2>1 DEF IsFastFlux
  <2>3. /\ IsFiniteSet(Addresses(q)) /\ Addresses(q) \subseteq Seen(d, Window)
        /\ Roomy /\ Cardinality(Within(d, Window)) <= Keep =>
             Seen(d, Window - 1) \subseteq Addresses(q)
    BY <2>1, JudgedBySeen
  <2>4. IsFiniteSet(Seen(d, Window))
    BY SeenFinite DEF FluxInv, FluxTypes
  <2>5. \A age : Within(d, age)' = Within(d, age) /\ Seen(d, age)' = Seen(d, age)
    BY <2>2 DEF Within, Seen
  <2>6. Roomy' = Roomy
    <3>1. \A t : Active(t)' = Active(t)
      BY <2>2 DEF Active
    <3> QED  BY <2>2, <3>1 DEF Roomy
  <2>7. Suspicious(Addresses(q)) => Suspicious(Seen(d, Window))
    BY <2>3, <2>4, MoreSuspicious
  <2>8. Roomy /\ Cardinality(Within(d, Window)) <= Keep /\ Suspicious(Seen(d, Window - 1))
          => Suspicious(Addresses(q))
    BY <2>3, MoreSuspicious
  <2>9. verdict'.dom = d /\ verdict'.flux = Suspicious(Addresses(q))
    BY <2>2
  <2> QED  BY <2>2, <2>5, <2>6, <2>7, <2>8, <2>9 DEF FluxExact
<1>3. CASE RecordResolution
  <2>1. locked # Nobody /\ verdict' = verdict
    BY <1>3 DEF RecordResolution, Nobody
  <2> QED  BY <1>1, <2>1 DEF FluxInv
<1>4. CASE UNCHANGED fluxVars
  BY <1>4, FluxStaysExact DEF fluxVars
<1>5. CASE (\E d \in Domain, ips \in Resolved : Answer(d, ips)) \/ FluxTick
  BY <1>1, <1>5 DEF Answer, FluxTick
<1> QED  BY <1>2, <1>3, <1>4, <1>5 DEF FluxNext

(* "Increased from 5 to 10 to account for standard multi-CDN round-robin": *)
(* a domain is judged by what was seen of it over the window; what the     *)
(* detector forgets to stay within its bounds neither makes it suspicious  *)
(* nor hides that it is, unless there was no room (FastFluxDetector).      *)
THEOREM FluxIsExact == FluxSpec => []FluxExact
<1>1. FluxSpec => []FluxInv
  BY FluxInitInv, FluxNextInv, PTL DEF FluxSpec
<1> QED  BY <1>1, FluxInitExact, FluxNextExact, PTL DEF FluxSpec

(* The index by which the detector forgets holds every tracked domain once,*)
(* at its present sequence, and nothing else: no entry leaks, and none is  *)
(* lost that must expire (record_resolution).                              *)
THEOREM IndexIsExact == FluxSpec => []IndexExact
<1>1. FluxSpec => []FluxInv
  BY FluxInitInv, FluxNextInv, PTL DEF FluxSpec
<1>2. FluxInv => IndexExact
  BY DEF FluxInv
<1> QED  BY <1>1, <1>2, PTL
=============================================================================
