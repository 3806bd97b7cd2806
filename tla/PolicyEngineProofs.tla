------------------------- MODULE PolicyEngineProofs -------------------------
(***************************************************************************)
(* Proofs about PolicyEngine, for days of any length, any schedules and    *)
(* any names:                                                              *)
(*  - active_at is true exactly inside the windows the dashboard describes; *)
(*  - reading the clock anew for every schedule is harmless except at a     *)
(*    minute at which two schedules change;                                *)
(*  - what is in memory, and what a restart would load, decides as the     *)
(*    answers to all edits promised, and an edit changes only what it says. *)
(***************************************************************************)
EXTENDS PolicyEngine, SequenceTheorems, WellFoundedInduction, TLAPS

-----------------------------------------------------------------------------
(* Windows. *)

LEMMA DayAndMinute ==
  ASSUME NEW t \in Time
  PROVE  /\ t \div Minutes \in Days /\ t % Minutes \in 0..Minutes - 1
         /\ t = (t \div Minutes) * Minutes + (t % Minutes)
<1>1. t \in Nat /\ t < 7 * Minutes /\ Minutes \in Nat \ {0}
  BY MinutesAssumption DEF Time, Week
<1> DEFINE d == t \div Minutes
           m == t % Minutes
<1>2. d \in Int /\ m \in 0..Minutes - 1 /\ t = d * Minutes + m
  BY <1>1
<1>3. d >= 0
  <2>1. SUFFICES ASSUME d <= -1 PROVE FALSE
    BY <1>2
  <2>2. d * Minutes <= (-1) * Minutes
    BY <2>1, <1>1, <1>2
  <2> QED BY <2>2, <1>1, <1>2
<1>4. d <= 6
  <2>1. SUFFICES ASSUME d >= 7 PROVE FALSE
    BY <1>2
  <2>2. d * Minutes >= 7 * Minutes
    BY <2>1, <1>1, <1>2
  <2> QED BY <2>2, <1>1, <1>2
<1> QED BY <1>2, <1>3, <1>4 DEF Days

\* Minutes from the opening of a window on day s to minute m of day d.
LEMMA Elapsed ==
  ASSUME NEW d \in Days, NEW s \in Days, NEW m \in 0..Minutes - 1,
         NEW o \in 0..Minutes - 1, NEW length \in 1..Minutes
  PROVE  ((d * Minutes + m) - (s * Minutes + o)) % Week < length
         <=> \/ d = s /\ m - o \in 0..length - 1
             \/ d = (s + 1) % 7 /\ m - o + Minutes < length
<1> QED BY MinutesAssumption DEF Days, Week

\* active_at agrees with what the dashboard says of schedules, on every minute
\* of the week: overnight schedules belong to their starting day, also from
\* Saturday to Sunday, and equal times mean all day.
THEOREM ActiveInWindow ==
  ASSUME NEW r \in Schedule, NEW t \in Time
  PROVE  ActiveAt(r, t \div Minutes, t % Minutes) <=> InWindow(r, t)
<1> DEFINE d == t \div Minutes
           m == t % Minutes
           opens == IF r.start = r.end THEN 0 ELSE r.start
           length == IF r.start = r.end THEN Minutes ELSE (r.end - r.start) % Minutes
<1>1. /\ d \in Days /\ m \in 0..Minutes - 1 /\ t = d * Minutes + m
      /\ r.start \in 0..Minutes - 1 /\ r.end \in 0..Minutes - 1
      /\ r.days \subseteq Days
  BY DayAndMinute DEF Schedule
<1>2. /\ opens \in 0..Minutes - 1
      /\ length = IF r.start < r.end THEN r.end - r.start
                  ELSE r.end - r.start + Minutes
      /\ length \in 1..Minutes
  BY <1>1, MinutesAssumption
<1>3. ASSUME NEW s \in Days
      PROVE  (t - (s * Minutes + opens)) % Week < length
             <=> \/ d = s /\ m - opens \in 0..length - 1
                 \/ d = (s + 1) % 7 /\ m - opens + Minutes < length
  <2> HIDE DEF d, m, opens, length
  <2> QED BY <1>1, <1>2, <1>3, Elapsed
<1>4. \A s \in Days : d = (s + 1) % 7 <=> s = (d + 6) % 7
  BY <1>1 DEF Days
<1>5. (d + 6) % 7 \in Days
  BY <1>1 DEF Days
<1>6. InWindow(r, t) <=> \/ d \in r.days /\ m - opens \in 0..length - 1
                         \/ (d + 6) % 7 \in r.days /\ m - opens + Minutes < length
  <2>1. InWindow(r, t) <=> \E s \in r.days : (t - (s * Minutes + opens)) % Week < length
    BY DEF InWindow
  <2> HIDE DEF d, m, opens, length
  <2> QED BY <2>1, <1>1, <1>3, <1>4, <1>5
<1>7. ActiveAt(r, d, m) <=> \/ d \in r.days /\ m - opens \in 0..length - 1
                            \/ (d + 6) % 7 \in r.days /\ m - opens + Minutes < length
  <2>1. CASE r.start = r.end
    <3>1. opens = 0 /\ length = Minutes
      BY <2>1
    <3> HIDE DEF d, m, opens, length
    <3> QED BY <3>1, <2>1, <1>1, MinutesAssumption DEF ActiveAt
  <2>2. CASE r.start < r.end
    <3>1. opens = r.start /\ length = r.end - r.start
      BY <2>2, <1>1, <1>2
    <3> HIDE DEF d, m, opens, length
    <3> QED BY <3>1, <2>2, <1>1, MinutesAssumption DEF ActiveAt
  <2>3. CASE r.start > r.end
    <3>1. opens = r.start /\ length = r.end - r.start + Minutes
      BY <2>3, <1>1, <1>2
    <3> HIDE DEF d, m, opens, length
    <3> QED BY <3>1, <2>3, <1>1, MinutesAssumption DEF ActiveAt
  <2> QED BY <2>1, <2>2, <2>3, <1>1
<1> QED BY <1>6, <1>7

-----------------------------------------------------------------------------
(* The list of schedules stays a sequence. *)

Listed(p) ==
  p \in [allow : {p.allow}, deny : {p.deny}, temporary : {p.temporary},
         schedules : Seq(Schedule), emergency : {p.emergency}]

Lists == Listed(memory) /\ (disk = NoFile \/ Listed(disk))

LEMMA ReplacedLists ==
  ASSUME NEW p, Listed(p), NEW a, NEW d, NEW l \in Seq(Schedule)
  PROVE  /\ Listed([p EXCEPT !.allow = a, !.deny = d])
         /\ Listed([p EXCEPT !.deny = d, !.allow = a])
         /\ Listed([p EXCEPT !.schedules = l])
<1>1. Listed([p EXCEPT !.allow = a, !.deny = d])
  BY DEF Listed
<1>2. Listed([p EXCEPT !.deny = d, !.allow = a])
  BY DEF Listed
<1>3. Listed([p EXCEPT !.schedules = l])
  BY DEF Listed
<1> QED BY <1>1, <1>2, <1>3

LEMMA RulesKeepLists ==
  ASSUME NEW p, Listed(p), NEW s \in Scope, NEW n \in RuleName
  PROVE  Listed(Allow(p, s, n)) /\ Listed(Deny(p, s, n)) /\ Listed(RemoveRule(p, s, n))
<1> DEFINE with(f) == [f EXCEPT ![s] = @ \cup {Stripped(n)}]
           less(f) == [f EXCEPT ![s] = @ \ {Stripped(n)}]
<1>1. /\ Allow(p, s, n) = [p EXCEPT !.allow = with(p.allow), !.deny = less(p.deny)]
      /\ Deny(p, s, n) = [p EXCEPT !.deny = with(p.deny), !.allow = less(p.allow)]
      /\ RemoveRule(p, s, n) = [p EXCEPT !.allow = less(p.allow), !.deny = less(p.deny)]
  BY DEF Allow, Deny, RemoveRule, Listed
<1> HIDE DEF with, less
<1>2. Listed(Allow(p, s, n))
  BY <1>1 DEF Listed
<1>3. Listed(Deny(p, s, n))
  BY <1>1 DEF Listed
<1>4. Listed(RemoveRule(p, s, n))
  BY <1>1 DEF Listed
<1> QED BY <1>2, <1>3, <1>4

LEMMA WithoutIsList ==
  ASSUME NEW l \in Seq(Schedule), NEW id
  PROVE  Without(l, id) \in Seq(Schedule)
<1>1. CASE \E i \in DOMAIN l : l[i].id = id
  <2>1. PICK i \in DOMAIN l : Without(l, id) = RemoveAt(l, i)
    BY <1>1 DEF Without
  <2>2. SubSeq(l, 1, i - 1) \in Seq(Schedule) /\ SubSeq(l, i + 1, Len(l)) \in Seq(Schedule)
    BY SubSeqProperties
  <2> QED BY <2>1, <2>2, ConcatProperties DEF RemoveAt
<1> QED BY <1>1 DEF Without

LEMMA SchedulesKeepLists ==
  ASSUME NEW p, Listed(p), NEW id
  PROVE  /\ \A r \in Schedule : Listed(AddSchedule(p, r))
         /\ Listed(RemoveSchedule(p, id))
         /\ \A b \in BOOLEAN : Listed(ToggleSchedule(p, id, b))
<1>1. ASSUME NEW r \in Schedule PROVE Listed(AddSchedule(p, r))
  <2>1. Append(Without(p.schedules, r.id), r) \in Seq(Schedule)
    BY WithoutIsList, AppendProperties DEF Listed
  <2> QED BY <2>1, ReplacedLists DEF AddSchedule
<1>2. Listed(RemoveSchedule(p, id))
  <2>1. Without(p.schedules, id) \in Seq(Schedule)
    BY WithoutIsList DEF Listed
  <2> QED BY <2>1, ReplacedLists DEF RemoveSchedule
<1>3. ASSUME NEW b \in BOOLEAN PROVE Listed(ToggleSchedule(p, id, b))
  <2> DEFINE l == p.schedules
             t == [i \in DOMAIN l |-> IF l[i].id = id THEN [l[i] EXCEPT !.enabled = b]
                                      ELSE l[i]]
  <2>1. l \in Seq(Schedule) /\ DOMAIN l = 1..Len(l) /\ Len(l) \in Nat
    BY DEF Listed
  <2>2. ASSUME NEW i \in 1..Len(l)
        PROVE  (IF l[i].id = id THEN [l[i] EXCEPT !.enabled = b] ELSE l[i]) \in Schedule
    <3>1. l[i] \in Schedule
      BY <2>1, ElementOfSeq
    <3> QED BY <3>1 DEF Schedule
  <2>3. t \in Seq(Schedule)
    <3> HIDE DEF l
    <3> QED BY <2>1, <2>2, IsASeq
  <2>4. ToggleSchedule(p, id, b) = [p EXCEPT !.schedules = t]
    BY DEF ToggleSchedule
  <2> HIDE DEF t
  <2> QED BY <2>3, <2>4, ReplacedLists
<1> QED BY <1>1, <1>2, <1>3

LEMMA FilesAreLists ==
  /\ Listed(New) /\ Listed(Migrated)
  /\ \A f \in FirstFile : f = NoFile \/ Listed(f)
  /\ \A p : Listed(p) => Listed(Load(p))
<1>1. Listed(New)
  BY EmptySeq DEF Listed, New
<1>2. Listed(Migrated)
  <2> DEFINE denied == {Stripped(n) : n \in LegacyDeny}
             allowed == {Stripped(n) : n \in LegacyAllow} \ denied
  <2>1. Migrated = [New EXCEPT !.allow[Network] = allowed, !.deny[Network] = denied]
    BY DEF Migrated
  <2> HIDE DEF denied, allowed
  <2> QED BY <1>1, <2>1 DEF Listed
<1>3. \A f \in FirstFile : f = NoFile \/ Listed(f)
  BY FileAssumption DEF Policy, Listed
<1>4. ASSUME NEW p, Listed(p) PROVE Listed(Load(p))
  <2> DEFINE bare(set) == {Bare(n) : n \in set}
             allow == [s \in Scope |-> bare(p.allow[s])]
             deny == [s \in Scope |-> bare(p.deny[s])]
             temporary == bare(p.temporary)
  <2>1. Load(p) = [p EXCEPT !.allow = allow, !.deny = deny, !.temporary = temporary]
    BY DEF Load
  <2> HIDE DEF allow, deny, temporary
  <2> QED BY <1>4, <2>1 DEF Listed
<1> QED BY <1>1, <1>2, <1>3, <1>4

-----------------------------------------------------------------------------
(* The walk over the schedules. *)

\* Schedule i decides about the name under evaluation at time t.
Hit(i, t) == Decides(memory.schedules[i], eval.device, eval.name, t)

\* Of two schedules passed, the one further down was looked at later: it cannot
\* decide now if the other decided from the start.
Passed ==
  \A i, j \in DOMAIN memory.schedules :
    i <= j /\ j < eval.next => ~(Hit(i, eval.from) /\ Hit(j, eval.now))

Walk == eval.pc = "walk" => ~memory.emergency /\ eval.next # 0 /\ Passed

Reading ==
  eval \in [pc : {"idle", "walk", "done"}, device : {eval.device},
           name : {eval.name}, from : {eval.from}, now : {eval.now},
           next : Nat, verdict : {eval.verdict}]

\* Verdict v may be returned now.
Defensible(v) ==
  \/ \E t \in {eval.from, eval.now} : v = Verdict(memory, eval.device, eval.name, t)
  \/ \E i, j \in DOMAIN memory.schedules : i < j /\ Starts(i) /\ Changes(j)

IInv == Lists /\ Reading /\ (eval.pc # "idle" => up) /\ Walk /\ VerdictOfSomeMoment

LEMMA FirstDecides ==
  ASSUME NEW p, Listed(p), ~p.emergency, NEW d, NEW n, NEW t,
         NEW k \in DOMAIN p.schedules, Decides(p.schedules[k], d, n, t),
         \A i \in DOMAIN p.schedules : i < k => ~Decides(p.schedules[i], d, n, t)
  PROVE  Verdict(p, d, n, t) = p.schedules[k].action
<1> DEFINE D == {i \in DOMAIN p.schedules : Decides(p.schedules[i], d, n, t)}
<1>1. D \subseteq Nat /\ k \in D /\ \A i \in D : k <= i
  BY DEF Listed
<1>2. Min(D) = k
  <2> HIDE DEF D
  <2>1. \E x \in D : \A y \in D : x =< y
    BY <1>1
  <2>2. Min(D) \in D /\ \A y \in D : Min(D) =< y
    BY <2>1 DEF Min
  <2>3. k \in Nat /\ Min(D) \in Nat /\ Min(D) =< k /\ k =< Min(D)
    BY <1>1, <2>2
  <2> HIDE DEF Min
  <2> QED BY <2>3
<1> QED BY <1>1, <1>2 DEF Verdict

LEMMA NoneDecides ==
  ASSUME NEW p, ~p.emergency, NEW d, NEW n, NEW t,
         \A i \in DOMAIN p.schedules : ~Decides(p.schedules[i], d, n, t)
  PROVE  Verdict(p, d, n, t) = ByRules(p, d, n)
BY DEF Verdict

\* An earlier schedule that decides now, and a later one that decided then.
LEMMA Crossing ==
  ASSUME Listed(memory), Passed, NEW i \in DOMAIN memory.schedules,
         NEW j \in DOMAIN memory.schedules, i < eval.next, j < eval.next,
         Hit(i, eval.from), Hit(j, eval.now)
  PROVE  j < i /\ Starts(j) /\ Changes(i)
<1>1. i \in Nat /\ j \in Nat
  BY DEF Listed
<1>2. ~(i <= j)
  BY DEF Passed
<1>3. ~Hit(i, eval.now) /\ ~Hit(j, eval.from)
  BY <1>1 DEF Passed
<1> QED BY <1>1, <1>2, <1>3 DEF Starts, Changes, Hit

\* A schedule decides that was reached and looked at now.
LEMMA DecidedBySchedule ==
  ASSUME Listed(memory), ~memory.emergency, Passed,
         NEW k \in DOMAIN memory.schedules, k = eval.next, Hit(k, eval.now)
  PROVE  Defensible(memory.schedules[k].action)
<1>1. \A i \in DOMAIN memory.schedules : i \in Nat
  BY DEF Listed
<1>2. CASE \A j \in DOMAIN memory.schedules : j < k => ~Hit(j, eval.now)
  BY <1>2, FirstDecides DEF Hit, Defensible
<1>3. ASSUME NEW j \in DOMAIN memory.schedules, j < k, Hit(j, eval.now)
      PROVE  Defensible(memory.schedules[k].action)
  <2>1. ~Hit(j, eval.from)
    BY <1>1, <1>3 DEF Passed
  <2>2. Starts(j)
    BY <1>3, <2>1 DEF Starts, Hit
  <2>3. CASE ~Hit(k, eval.from)
    BY <1>3, <2>2, <2>3 DEF Hit, Changes, Defensible
  <2>4. CASE Hit(k, eval.from) /\ \A i \in DOMAIN memory.schedules : i < k => ~Hit(i, eval.from)
    BY <2>4, FirstDecides DEF Hit, Defensible
  <2>5. ASSUME NEW i \in DOMAIN memory.schedules, i < k, Hit(i, eval.from)
        PROVE  Defensible(memory.schedules[k].action)
    BY <1>3, <2>5, Crossing DEF Defensible
  <2> QED BY <2>3, <2>4, <2>5
<1> QED BY <1>2, <1>3

\* No schedule decided when it was looked at.
LEMMA DecidedByRules ==
  ASSUME Listed(memory), ~memory.emergency, Passed, eval.next \in Nat \ {0},
         eval.next \notin DOMAIN memory.schedules
  PROVE  Defensible(ByRules(memory, eval.device, eval.name))
<1>1. \A i \in DOMAIN memory.schedules : i < eval.next
  BY DEF Listed
<1>2. CASE \E t \in {eval.from, eval.now} :
             \A i \in DOMAIN memory.schedules : ~Hit(i, t)
  BY <1>2, NoneDecides DEF Hit, Defensible
<1>3. ASSUME NEW i \in DOMAIN memory.schedules, Hit(i, eval.from),
             NEW j \in DOMAIN memory.schedules, Hit(j, eval.now)
      PROVE  Defensible(ByRules(memory, eval.device, eval.name))
  BY <1>1, <1>3, Crossing DEF Defensible
<1> QED BY <1>2, <1>3

-----------------------------------------------------------------------------
(* Every step keeps the invariant. *)

LEMMA Publication ==
  ASSUME IInv, NEW next, Listed(next), NEW told, Publish(next, told)
  PROVE  IInv'
<1>1. Lists'
  BY DEF IInv, Lists, Publish
<1>2. eval' = eval /\ eval.pc = "idle"
  BY DEF Publish
<1>3. Reading'
  BY <1>2 DEF IInv, Reading
<1> QED BY <1>1, <1>2, <1>3 DEF IInv, Walk, VerdictOfSomeMoment

LEMMA EditStep ==
  ASSUME IInv, Edit
  PROVE  IInv'
<1>1. Listed(memory)
  BY DEF IInv, Lists
<1>2. ASSUME NEW s \in Scope, NEW n \in RuleName, NEW action \in {"allow", "deny", "none"},
             UpdateRule(s, n, action)
      PROVE  IInv'
  <2>1. PICK next : /\ Publish(next, [promise EXCEPT !.rule[s][Stripped(n)] = action])
                    /\ next \in {Allow(memory, s, n), Deny(memory, s, n), RemoveRule(memory, s, n)}
    BY <1>2 DEF UpdateRule
  <2> QED BY <1>1, <2>1, RulesKeepLists, Publication
<1>3. ASSUME NEW id \in ScheduleId, NEW plan \in Plan, PostSchedule(id, plan)
      PROVE  IInv'
  <2> DEFINE r == [id |-> id, enabled |-> TRUE, domain |-> plan.domain,
                   action |-> plan.action, days |-> plan.days, start |-> plan.start,
                   end |-> plan.end, device |-> plan.device]
  <2>1. r \in Schedule
    BY PlanAssumption DEF Schedule
  <2>2. Publish(AddSchedule(memory, r), [promise EXCEPT !.plans = @ \cup {r}])
    BY <1>3 DEF PostSchedule
  <2>3. Listed(AddSchedule(memory, r))
    BY <1>1, <2>1, SchedulesKeepLists
  <2> QED BY <2>2, <2>3, Publication
<1>4. ASSUME NEW id \in ScheduleId, DeleteSchedule(id)
      PROVE  IInv'
  BY <1>1, <1>4, SchedulesKeepLists, Publication DEF DeleteSchedule
<1>5. ASSUME NEW id \in ScheduleId, NEW b \in BOOLEAN, PutScheduleToggle(id, b)
      PROVE  IInv'
  <2>1. Listed(ToggleSchedule(memory, id, b))
    BY <1>1, SchedulesKeepLists
  <2> QED BY <1>5, <2>1, Publication DEF PutScheduleToggle
<1> QED BY <1>2, <1>3, <1>4, <1>5 DEF Edit

LEMMA EvaluationStep ==
  ASSUME IInv, Evaluate
  PROVE  IInv'
<1>1. Lists' /\ memory' = memory /\ up'
  BY DEF IInv, Lists, Evaluate, Begin, Look, ApplyRules, Tick, Return
<1>2. \A i \in DOMAIN memory.schedules : i \in Nat \ {0}
  BY DEF IInv, Lists, Listed
<1>3. ASSUME NEW d \in Device, NEW n \in QueryName, NEW t \in Time, Begin(d, n, t)
      PROVE  IInv'
  <2>1. Reading'
    BY <1>3 DEF Begin, Reading
  <2>2. Walk'
    BY <1>1, <1>2, <1>3 DEF Begin, Walk, Passed
  <2>3. VerdictOfSomeMoment'
    BY <1>3 DEF Begin, VerdictOfSomeMoment, Verdict
  <2> QED BY <1>1, <2>1, <2>2, <2>3 DEF IInv
<1>4. ASSUME Look, Decides(memory.schedules[eval.next], eval.device, eval.name, eval.now)
      PROVE  IInv'
  <2> DEFINE v == memory.schedules[eval.next].action
  <2>1. eval' = [eval EXCEPT !.pc = "done", !.verdict = v]
    BY <1>4 DEF Look
  <2>2. Reading' /\ eval'.pc = "done" /\ eval'.verdict = v
        /\ eval'.device = eval.device /\ eval'.name = eval.name
        /\ eval'.from = eval.from /\ eval'.now = eval.now
    BY <2>1 DEF IInv, Reading
  <2>3. Defensible(v)
    BY <1>4, DecidedBySchedule DEF IInv, Lists, Walk, Look, Hit
  <2>4. VerdictOfSomeMoment'
    BY <1>1, <2>2, <2>3 DEF VerdictOfSomeMoment, Defensible, Starts, Changes
  <2> QED BY <1>1, <2>2, <2>4 DEF IInv, Walk
<1>5. ASSUME Look, ~Decides(memory.schedules[eval.next], eval.device, eval.name, eval.now)
      PROVE  IInv'
  <2>1. eval' = [eval EXCEPT !.next = @ + 1] /\ eval.pc = "walk"
    BY <1>5 DEF Look
  <2>2. Reading' /\ eval'.pc = "walk" /\ eval'.next = eval.next + 1
        /\ eval'.device = eval.device /\ eval'.name = eval.name
        /\ eval'.from = eval.from /\ eval'.now = eval.now /\ eval.next \in Nat
    BY <2>1 DEF IInv, Reading
  <2>3. Passed'
    BY <1>1, <1>2, <1>5, <2>1, <2>2 DEF IInv, Walk, Passed, Hit
  <2> QED BY <1>1, <2>1, <2>2, <2>3 DEF IInv, Walk, VerdictOfSomeMoment
<1>6. ASSUME ApplyRules
      PROVE  IInv'
  <2> DEFINE v == ByRules(memory, eval.device, eval.name)
  <2>1. eval' = [eval EXCEPT !.pc = "done", !.verdict = v]
    BY <1>6 DEF ApplyRules
  <2>2. Reading' /\ eval'.pc = "done" /\ eval'.verdict = v
        /\ eval'.device = eval.device /\ eval'.name = eval.name
        /\ eval'.from = eval.from /\ eval'.now = eval.now /\ eval.next \in Nat
    BY <2>1 DEF IInv, Reading
  <2>3. Defensible(v)
    BY <1>6, <2>2, DecidedByRules DEF IInv, Lists, Walk, ApplyRules
  <2>4. VerdictOfSomeMoment'
    BY <1>1, <2>2, <2>3 DEF VerdictOfSomeMoment, Defensible, Starts, Changes
  <2> QED BY <1>1, <2>2, <2>4 DEF IInv, Walk
<1>7. ASSUME Tick
      PROVE  IInv'
  <2>1. eval' = [eval EXCEPT !.now = (@ + 1) % Week] /\ eval.pc = "walk" /\ eval.now = eval.from
    BY <1>7 DEF Tick
  <2>2. Reading' /\ eval'.pc = "walk" /\ eval'.next = eval.next
        /\ eval'.device = eval.device /\ eval'.name = eval.name /\ eval'.from = eval.from
    BY <2>1 DEF IInv, Reading
  <2>3. \A i \in DOMAIN memory.schedules : i < eval.next => ~Hit(i, eval.from)
    BY <1>2, <2>1 DEF IInv, Walk, Passed
  <2>4. eval.next \in Nat
    BY DEF IInv, Reading
  <2>5. \A i, j \in DOMAIN memory.schedules :
          i <= j /\ j < eval.next => ~Hit(i, eval.from)
    BY <1>2, <2>3, <2>4
  <2>6. Passed'
    BY <1>1, <2>2, <2>5 DEF Passed, Hit
  <2> QED BY <1>1, <2>1, <2>2, <2>6 DEF IInv, Walk, VerdictOfSomeMoment
<1>8. ASSUME Return
      PROVE  IInv'
  BY <1>1, <1>8 DEF Return, NoEvaluation, IInv, Reading, Walk, VerdictOfSomeMoment
<1> QED BY <1>3, <1>4, <1>5, <1>6, <1>7, <1>8 DEF Evaluate

\* A verdict is that of one moment of its evaluation, unless one schedule starts
\* and a later one changes at the minute that begins meanwhile.
THEOREM OneMoment == Spec => []VerdictOfSomeMoment
<1>1. Init => IInv
  BY FilesAreLists DEF Init, IInv, Lists, Reading, Walk, VerdictOfSomeMoment, NoEvaluation
<1>2. IInv /\ [Next]_vars => IInv'
  <2> SUFFICES ASSUME IInv, [Next]_vars
               PROVE  IInv'
    OBVIOUS
  <2>1. CASE Start
    BY <2>1, FilesAreLists DEF Start, IInv, Lists, Reading, Walk, VerdictOfSomeMoment
  <2>2. CASE FirstStart
    BY <2>2, FilesAreLists DEF FirstStart, IInv, Lists, Reading, Walk, VerdictOfSomeMoment
  <2>3. CASE Crash
    BY <2>3, FilesAreLists
    DEF Crash, NoEvaluation, IInv, Lists, Reading, Walk, VerdictOfSomeMoment
  <2>4. CASE Edit
    BY <2>4, EditStep
  <2>5. CASE Evaluate
    BY <2>5, EvaluationStep
  <2>6. CASE UNCHANGED vars
    BY <2>6 DEF vars, IInv, Lists, Reading, Walk, Passed, Hit, VerdictOfSomeMoment,
                Starts, Changes
  <2> QED BY <2>1, <2>2, <2>3, <2>4, <2>5, <2>6 DEF Next
<1> QED BY <1>1, <1>2, PTL DEF Spec, IInv

-----------------------------------------------------------------------------
(* Names: what load_or_default makes of a rule's name. *)

LEMMA SmallestExists ==
  ASSUME NEW T, T \subseteq Nat, T # {}
  PROVE  Min(T) \in T /\ \A x \in T : Min(T) <= x
<1>1. PICK m \in T : \A x \in T : ~(<<x, m>> \in OpToRel(<, Nat))
  BY NatLessThanWellFounded, WFMin
<1>2. \A x \in T : m <= x
  <2>1. ASSUME NEW x \in T PROVE m <= x
    <3>1. x \in Nat /\ m \in Nat
      OBVIOUS
    <3>2. x < m => <<x, m>> \in OpToRel(<, Nat)
      BY <3>1 DEF OpToRel
    <3>3. ~(x < m)
      BY <1>1, <3>2
    <3> QED BY <3>1, <3>3
  <2> QED BY <2>1
<1> QED BY <1>2 DEF Min

Names == Seq(STRING) \ {<<>>}

\* A name that Bare leaves alone.
Headed(n) == n \in Names /\ (n[1] # "www" \/ Len(n) = 1)

LEMMA NameFacts ==
  ASSUME NEW n \in Names
  PROVE  /\ Len(n) \in Nat \ {0} /\ DOMAIN n = 1..Len(n)
         /\ \A i \in 1..Len(n) : n[i] \in STRING
BY EmptySeq, LenProperties, ElementOfSeq DEF Names

\* Where a name's own labels begin.
LEMMA BareStarts ==
  ASSUME NEW n \in Names, NEW f \in 1..Len(n),
         n[f] # "www" \/ f = Len(n),
         \A i \in 1..f - 1 : n[i] = "www"
  PROVE  Bare(n) = SubSeq(n, f, Len(n))
<1> DEFINE T == {i \in DOMAIN n : n[i] # "www" \/ i = Len(n)}
<1>1. Len(n) \in Nat \ {0} /\ DOMAIN n = 1..Len(n)
  BY NameFacts
<1>2. f \in T /\ \A x \in T : f <= x
  <2>1. f \in T
    BY <1>1
  <2>2. ASSUME NEW x \in T, ~(f <= x) PROVE FALSE
    <3>1. x \in 1..Len(n) /\ (n[x] # "www" \/ x = Len(n))
      BY <1>1
    <3> HIDE DEF T
    <3>6. Len(n) \in Nat
      BY <1>1
    <3>4. Len(n) \in Nat /\ f \in Nat /\ f <= Len(n)
      BY <3>6
    <3>5. x \in Nat /\ 1 <= x
      BY <3>1, <3>4
    <3>2. x < f
      BY <2>2, <3>4, <3>5
    <3>3. x \in 1..f - 1 /\ x # Len(n)
      BY <3>2, <3>4, <3>5
    <3> QED BY <3>1, <3>3
  <2> QED BY <2>1, <2>2
<1>3. T \subseteq Nat /\ T # {}
  BY <1>1, <1>2
<1>4. Min(T) = f
  <2> HIDE DEF T
  <2>1. Min(T) \in T /\ Min(T) <= f /\ f <= Min(T) /\ Min(T) \in Nat /\ f \in Nat
    BY <1>2, <1>3, SmallestExists
  <2> QED BY <2>1
<1> QED BY <1>4 DEF Bare

LEMMA FirstLabel ==
  ASSUME NEW n \in Names
  PROVE  \E f \in 1..Len(n) : /\ n[f] # "www" \/ f = Len(n)
                              /\ \A i \in 1..f - 1 : n[i] = "www"
<1> DEFINE T == {i \in DOMAIN n : n[i] # "www" \/ i = Len(n)}
<1>1. Len(n) \in Nat \ {0} /\ DOMAIN n = 1..Len(n)
  BY NameFacts
<1>2. Len(n) \in T /\ T \subseteq Nat
  BY <1>1
<1>3. Min(T) \in T /\ \A x \in T : Min(T) <= x
  <2> HIDE DEF T
  <2> QED BY <1>2, SmallestExists
<1> DEFINE f == Min(T)
<1>4. f \in 1..Len(n) /\ (n[f] # "www" \/ f = Len(n))
  BY <1>1, <1>3
<1>5. ASSUME NEW i \in 1..f - 1 PROVE n[i] = "www"
  <2>1. i \in 1..Len(n) /\ i < f
    BY <1>1, <1>4
  <2>2. i \in T => f <= i
    BY <1>3
  <2>3. i \notin T
    <3>1. ~(f <= i)
      BY <2>1, <1>4, <1>1
    <3> QED BY <2>2, <3>1
  <2> QED BY <2>1, <2>3, <1>1
<1> HIDE DEF f
<1> QED BY <1>4, <1>5

\* Bare takes a name to one that it leaves alone.
LEMMA BareSettles ==
  /\ \A n \in Names : Headed(Bare(n))
  /\ \A n : Headed(n) => Bare(n) = n
<1>1. ASSUME NEW n, Headed(n) PROVE Bare(n) = n
  <2>1. n \in Names /\ 1 \in 1..Len(n)
    BY <1>1, NameFacts DEF Headed
  <2>2. Bare(n) = SubSeq(n, 1, Len(n))
    BY <1>1, <2>1, BareStarts DEF Headed
  <2> QED BY <2>1, <2>2, SubSeqFull DEF Names
<1>2. ASSUME NEW n \in Names PROVE Headed(Bare(n))
  <2>1. Len(n) \in Nat \ {0} /\ \A i \in 1..Len(n) : n[i] \in STRING
    BY NameFacts
  <2>2. PICK f \in 1..Len(n) : /\ n[f] # "www" \/ f = Len(n)
                               /\ \A i \in 1..f - 1 : n[i] = "www"
    BY FirstLabel
  <2> DEFINE b == SubSeq(n, f, Len(n))
  <2>3. Bare(n) = b
    BY <2>2, BareStarts
  <2>4. /\ b \in Seq(STRING) /\ Len(b) = Len(n) - f + 1
        /\ \A i \in 1..Len(n) - f + 1 : b[i] = n[f + i - 1]
    BY <2>1, SubSeqProperties
  <2> HIDE DEF b
  <2>5. 1 \in 1..Len(n) - f + 1 /\ f + 1 - 1 = f
    BY <2>1
  <2>6. b[1] = n[f] /\ Len(b) # 0 /\ (f = Len(n) => Len(b) = 1)
    BY <2>1, <2>4, <2>5
  <2>7. b # <<>>
    BY <2>6, EmptySeq
  <2> QED BY <2>2, <2>3, <2>4, <2>6, <2>7 DEF Headed, Names
<1> QED BY <1>1, <1>2

\* To strip one "www." first makes no difference to Bare.
LEMMA BareOfStripped ==
  ASSUME NEW n \in Names
  PROVE  Stripped(n) \in Names /\ Bare(Stripped(n)) = Bare(n)
<1>1. Len(n) \in Nat \ {0} /\ DOMAIN n = 1..Len(n) /\ n # <<>> /\ n \in Seq(STRING)
  BY NameFacts DEF Names
<1>2. CASE ~(Len(n) > 1 /\ n[1] = "www")
  BY <1>2 DEF Stripped
<1>3. CASE Len(n) > 1 /\ n[1] = "www"
  <2> DEFINE m == Tail(n)
  <2>1. Stripped(n) = m
    BY <1>3 DEF Stripped
  <2>2. /\ m \in Seq(STRING) /\ Len(m) = Len(n) - 1
        /\ \A i \in 1..Len(m) : m[i] = n[i + 1]
        /\ m = SubSeq(n, 2, Len(n))
    BY <1>1, HeadTailProperties, TailIsSubSeq
  <2> HIDE DEF m
  <2>3. m \in Names
    <3>1. Len(m) # 0
      BY <1>1, <1>3, <2>2
    <3> QED BY <2>2, <3>1, EmptySeq DEF Names
  <2>4. PICK f \in 1..Len(m) : /\ m[f] # "www" \/ f = Len(m)
                               /\ \A i \in 1..f - 1 : m[i] = "www"
    BY <2>3, FirstLabel
  <2>5. Bare(m) = SubSeq(m, f, Len(m))
    BY <2>3, <2>4, BareStarts
  <2>6. f + 1 \in 1..Len(n) /\ (n[f + 1] # "www" \/ f + 1 = Len(n))
    <3>3. Len(n) \in Nat /\ Len(m) = Len(n) - 1 /\ f \in Nat /\ f <= Len(m)
      BY <1>1, <2>2
    <3>1. f + 1 \in 1..Len(n) /\ (f = Len(m) => f + 1 = Len(n))
      BY <3>3
    <3>2. m[f] = n[f + 1]
      BY <2>2
    <3> QED BY <2>4, <3>1, <3>2
  <2>7. ASSUME NEW i \in 1..f PROVE n[i] = "www"
    <3>1. CASE i = 1
      BY <1>3, <3>1
    <3>2. CASE i # 1
      <4>1. i - 1 \in 1..f - 1 /\ i - 1 \in 1..Len(m)
        BY <3>2, <1>1, <2>2
      <4>2. m[i - 1] = "www"
        BY <4>1, <2>4
      <4>3. m[i - 1] = n[(i - 1) + 1]
        BY <4>1, <2>2
      <4>4. (i - 1) + 1 = i
        OBVIOUS
      <4> QED BY <4>2, <4>3, <4>4
    <3> QED BY <3>1, <3>2
  <2>8. Bare(n) = SubSeq(n, f + 1, Len(n))
    <3>1. (f + 1) - 1 = f
      OBVIOUS
    <3> QED BY <2>6, <2>7, <3>1, BareStarts
  <2>9. SubSeq(m, f, Len(m)) = SubSeq(n, f + 1, Len(n))
    <3>1. /\ 2 \in 1..Len(n) /\ Len(n) \in 1..Len(n)
          /\ f \in 1..Len(n) - 2 + 1 /\ Len(m) \in 1..Len(n) - 2 + 1
          /\ 2 + f - 1 = f + 1 /\ 2 + Len(m) - 1 = Len(n)
      BY <1>1, <1>3, <2>2
    <3>2. SubSeq(SubSeq(n, 2, Len(n)), f, Len(m)) = SubSeq(n, 2 + f - 1, 2 + Len(m) - 1)
      BY <1>1, <3>1, SubSeqOfSubSeq
    <3> QED BY <2>2, <3>1, <3>2
  <2> QED BY <2>1, <2>3, <2>5, <2>8, <2>9
<1> QED BY <1>2, <1>3

\* The names rules are kept under.
LEMMA KeyFacts ==
  /\ \A n \in RuleName : n \in Names /\ Stripped(n) \in Key /\ Bare(n) \in Key
  /\ \A k \in Key : k \in Names /\ Bare(k) \in Key /\ Headed(Bare(k))
<1>1. \A n \in RuleName : n \in Names /\ Stripped(n) \in Key /\ Bare(n) \in Key
  BY NameAssumption DEF Names, Key
<1>2. ASSUME NEW k \in Key PROVE k \in Names /\ Bare(k) \in Key
  <2>1. PICK n \in RuleName : k = Stripped(n) \/ k = Bare(n)
    BY DEF Key
  <2>2. n \in Names
    BY <1>1
  <2>3. CASE k = Stripped(n)
    BY <1>1, <2>2, <2>3, BareOfStripped
  <2>4. CASE k = Bare(n)
    <3>1. Headed(k) /\ Bare(k) = k
      BY <2>2, <2>4, BareSettles
    <3> QED BY <3>1 DEF Headed
  <2> QED BY <2>1, <2>3, <2>4
<1> QED BY <1>1, <1>2, BareSettles

-----------------------------------------------------------------------------
(* Edits keep a policy a policy, and a restart changes nothing in one whose *)
(* names are bare already.                                                  *)

Edited(p, s, n, action) ==
  CASE action = "allow" -> Allow(p, s, n)
    [] action = "deny" -> Deny(p, s, n)
    [] action = "none" -> RemoveRule(p, s, n)

\* No rule is for a name that load_or_default would strip.
Plain(p) ==
  /\ \A s \in Scope : \A k \in p.allow[s] \cup p.deny[s] : Bare(k) = k
  /\ \A k \in p.temporary : Bare(k) = k

\* What a rule edit does to the rules of one scope.
LEMMA EditedRules ==
  ASSUME NEW p \in Policy, NEW s \in Scope, NEW n \in RuleName,
         NEW action \in {"allow", "deny", "none"}
  PROVE  LET q == Edited(p, s, n, action)
             k == Stripped(n) IN
         /\ q \in Policy
         /\ q.temporary = p.temporary /\ q.schedules = p.schedules
         /\ q.emergency = p.emergency
         /\ \A c \in Scope \ {s} : q.allow[c] = p.allow[c] /\ q.deny[c] = p.deny[c]
         /\ q.allow[s] = (IF action = "allow" THEN p.allow[s] \cup {k} ELSE p.allow[s] \ {k})
         /\ q.deny[s] = (IF action = "deny" THEN p.deny[s] \cup {k} ELSE p.deny[s] \ {k})
<1> DEFINE k == Stripped(n)
           with(f) == [f EXCEPT ![s] = @ \cup {k}]
           less(f) == [f EXCEPT ![s] = @ \ {k}]
<1>1. k \in Key
  BY KeyFacts
<1>2. p.allow \in [Scope -> SUBSET Key] /\ p.deny \in [Scope -> SUBSET Key]
  BY DEF Policy
<1>3. ASSUME NEW f \in [Scope -> SUBSET Key]
      PROVE  /\ with(f) \in [Scope -> SUBSET Key] /\ less(f) \in [Scope -> SUBSET Key]
             /\ \A c \in Scope \ {s} : with(f)[c] = f[c] /\ less(f)[c] = f[c]
             /\ with(f)[s] = f[s] \cup {k} /\ less(f)[s] = f[s] \ {k}
  BY <1>1
<1> DEFINE q == Edited(p, s, n, action)
<1>4. CASE action = "allow"
  <2>1. q = [p EXCEPT !.allow = with(p.allow), !.deny = less(p.deny)]
    BY <1>4 DEF Edited, Allow, Policy
  <2>2. with(p.allow) \in [Scope -> SUBSET Key] /\ less(p.deny) \in [Scope -> SUBSET Key]
    BY <1>2, <1>3
  <2> HIDE DEF with, less, k, q
  <2>3. /\ q \in Policy /\ q.allow = with(p.allow) /\ q.deny = less(p.deny)
        /\ q.temporary = p.temporary /\ q.schedules = p.schedules /\ q.emergency = p.emergency
    BY <2>1, <2>2 DEF Policy
  <2> QED BY <2>3, <1>2, <1>3, <1>4 DEF k, q
<1>5. CASE action = "deny"
  <2>1. q = [p EXCEPT !.deny = with(p.deny), !.allow = less(p.allow)]
    BY <1>5 DEF Edited, Deny, Policy
  <2>2. with(p.deny) \in [Scope -> SUBSET Key] /\ less(p.allow) \in [Scope -> SUBSET Key]
    BY <1>2, <1>3
  <2> HIDE DEF with, less, k, q
  <2>3. /\ q \in Policy /\ q.allow = less(p.allow) /\ q.deny = with(p.deny)
        /\ q.temporary = p.temporary /\ q.schedules = p.schedules /\ q.emergency = p.emergency
    BY <2>1, <2>2 DEF Policy
  <2> QED BY <2>3, <1>2, <1>3, <1>5 DEF k, q
<1>6. CASE action = "none"
  <2>1. q = [p EXCEPT !.allow = less(p.allow), !.deny = less(p.deny)]
    BY <1>6 DEF Edited, RemoveRule, Policy
  <2>2. less(p.deny) \in [Scope -> SUBSET Key] /\ less(p.allow) \in [Scope -> SUBSET Key]
    BY <1>2, <1>3
  <2> HIDE DEF with, less, k, q
  <2>3. /\ q \in Policy /\ q.allow = less(p.allow) /\ q.deny = less(p.deny)
        /\ q.temporary = p.temporary /\ q.schedules = p.schedules /\ q.emergency = p.emergency
    BY <2>1, <2>2 DEF Policy
  <2> QED BY <2>3, <1>2, <1>3, <1>6 DEF k, q
<1> QED BY <1>4, <1>5, <1>6

\* load_or_default: a policy again, with bare names, and unchanged if they were.
LEMMA Loading ==
  ASSUME NEW p \in Policy
  PROVE  /\ Load(p) \in Policy /\ Plain(Load(p))
         /\ Load(p).schedules = p.schedules /\ Load(p).emergency = p.emergency
         /\ Plain(p) => Load(p) = p
<1> DEFINE bare(set) == {Bare(n) : n \in set}
           allow == [s \in Scope |-> bare(p.allow[s])]
           deny == [s \in Scope |-> bare(p.deny[s])]
           temporary == bare(p.temporary)
<1>1. Load(p) = [p EXCEPT !.allow = allow, !.deny = deny, !.temporary = temporary]
  BY DEF Load
<1>2. /\ p.allow \in [Scope -> SUBSET Key] /\ p.deny \in [Scope -> SUBSET Key]
      /\ p.temporary \subseteq Key /\ p.schedules \in Seq(Schedule) /\ p.emergency \in BOOLEAN
      /\ p = [allow |-> p.allow, deny |-> p.deny, temporary |-> p.temporary,
              schedules |-> p.schedules, emergency |-> p.emergency]
  BY DEF Policy
<1>3. ASSUME NEW set \in SUBSET Key
      PROVE  /\ bare(set) \subseteq Key /\ \A k \in bare(set) : Bare(k) = k
             /\ (\A k \in set : Bare(k) = k) => bare(set) = set
  <2>1. \A k \in Key : Bare(k) \in Key /\ Bare(Bare(k)) = Bare(k)
    BY KeyFacts, BareSettles
  <2> QED BY <2>1
<1>4. /\ allow \in [Scope -> SUBSET Key] /\ deny \in [Scope -> SUBSET Key]
      /\ \A s \in Scope : allow[s] = bare(p.allow[s]) /\ deny[s] = bare(p.deny[s])
      /\ temporary \subseteq Key
  <2>1. \A s \in Scope : bare(p.allow[s]) \subseteq Key /\ bare(p.deny[s]) \subseteq Key
    BY <1>2, <1>3
  <2>2. temporary \subseteq Key
    BY <1>2, <1>3
  <2> HIDE DEF bare
  <2> QED BY <2>1, <2>2
<1>5. /\ Load(p) = [allow |-> allow, deny |-> deny, temporary |-> temporary,
                    schedules |-> p.schedules, emergency |-> p.emergency]
  <2> HIDE DEF allow, deny, temporary
  <2> QED BY <1>1, <1>2
<1>6. Load(p) \in Policy
  <2> HIDE DEF allow, deny, temporary
  <2> QED BY <1>2, <1>4, <1>5 DEF Policy
<1>7. Plain(Load(p))
  <2>1. ASSUME NEW s \in Scope, NEW k \in allow[s] \cup deny[s] PROVE Bare(k) = k
    <3>1. p.allow[s] \in SUBSET Key /\ p.deny[s] \in SUBSET Key
      BY <1>2
    <3>2. k \in bare(p.allow[s]) \/ k \in bare(p.deny[s])
      BY <1>4
    <3> HIDE DEF bare
    <3> QED BY <1>3, <3>1, <3>2
  <2>2. \A k \in temporary : Bare(k) = k
    BY <1>2, <1>3
  <2> HIDE DEF allow, deny, temporary
  <2> QED BY <1>5, <2>1, <2>2 DEF Plain
<1>8. ASSUME Plain(p) PROVE Load(p) = p
  <2>1. \A s \in Scope : bare(p.allow[s]) = p.allow[s] /\ bare(p.deny[s]) = p.deny[s]
    <3>1. SUFFICES ASSUME NEW s \in Scope
                   PROVE  bare(p.allow[s]) = p.allow[s] /\ bare(p.deny[s]) = p.deny[s]
      OBVIOUS
    <3>2. p.allow[s] \in SUBSET Key /\ p.deny[s] \in SUBSET Key
      BY <1>2
    <3>3. \A k \in p.allow[s] \cup p.deny[s] : Bare(k) = k
      BY <1>8 DEF Plain
    <3> HIDE DEF bare
    <3> QED BY <1>3, <3>2, <3>3
  <2>2. temporary = p.temporary
    BY <1>2, <1>3, <1>8 DEF Plain
  <2>3. allow = p.allow /\ deny = p.deny
    <3> HIDE DEF bare
    <3> QED BY <1>2, <2>1
  <2> HIDE DEF allow, deny, temporary
  <2> QED BY <1>2, <1>5, <2>2, <2>3
<1>9. Load(p).schedules = p.schedules /\ Load(p).emergency = p.emergency
  BY <1>5
<1> QED BY <1>6, <1>7, <1>8, <1>9

LEMMA EditedIsPlain ==
  ASSUME NEW p \in Policy, Plain(p), NEW s \in Scope, NEW n \in RuleName,
         NEW action \in {"allow", "deny", "none"}, Bare(n) = Stripped(n)
  PROVE  Plain(Edited(p, s, n, action))
<1> DEFINE q == Edited(p, s, n, action)
           k == Stripped(n)
<1>1. Bare(k) = k
  BY KeyFacts, BareOfStripped
<1>2. \A c \in Scope : q.allow[c] \subseteq p.allow[c] \cup {k} /\ q.deny[c] \subseteq p.deny[c] \cup {k}
  <2>1. \A c \in Scope \ {s} : q.allow[c] = p.allow[c] /\ q.deny[c] = p.deny[c]
    BY EditedRules
  <2>2. q.allow[s] = p.allow[s] \cup {k} \/ q.allow[s] = p.allow[s] \ {k}
    BY EditedRules
  <2>3. q.deny[s] = p.deny[s] \cup {k} \/ q.deny[s] = p.deny[s] \ {k}
    BY EditedRules
  <2> HIDE DEF q, k
  <2> QED BY <2>1, <2>2, <2>3
<1>3. q.temporary = p.temporary
  BY EditedRules
<1> HIDE DEF q, k
<1>4. Plain(q)
  BY <1>1, <1>2, <1>3 DEF Plain
<1> QED BY <1>4 DEF q

-----------------------------------------------------------------------------
(* The list of schedules, with its ids. *)

Sound(p) == p \in Policy /\ UniqueIds(p)

LEMMA SoundIsListed ==
  ASSUME NEW p \in Policy
  PROVE  /\ Listed(p) /\ p.schedules \in Seq(Schedule) /\ Len(p.schedules) \in Nat
         /\ DOMAIN p.schedules = 1..Len(p.schedules)
         /\ \A i \in DOMAIN p.schedules : p.schedules[i] \in Schedule
<1>1. p.schedules \in Seq(Schedule)
  BY DEF Policy
<1>2. Listed(p)
  BY DEF Policy, Listed
<1> QED BY <1>1, <1>2, LenProperties, ElementOfSeq

LEMMA OtherSchedules ==
  ASSUME NEW p \in Policy, NEW l \in Seq(Schedule)
  PROVE  LET q == [p EXCEPT !.schedules = l] IN
         /\ q \in Policy /\ q.allow = p.allow /\ q.deny = p.deny
         /\ q.temporary = p.temporary /\ q.emergency = p.emergency /\ q.schedules = l
         /\ Plain(p) => Plain(q)
<1>1. LET q == [p EXCEPT !.schedules = l] IN
      /\ q \in Policy /\ q.allow = p.allow /\ q.deny = p.deny
      /\ q.temporary = p.temporary /\ q.emergency = p.emergency /\ q.schedules = l
  BY DEF Policy
<1> QED BY <1>1 DEF Plain

\* retain: what Without leaves, and where.
LEMMA WithoutAt ==
  ASSUME NEW p, Sound(p), NEW i \in DOMAIN p.schedules
  PROVE  LET l == p.schedules
             w == Without(l, l[i].id) IN
         /\ w \in Seq(Schedule) /\ Len(w) = Len(l) - 1
         /\ \A j \in DOMAIN w : w[j] = IF j < i THEN l[j] ELSE l[j + 1]
         /\ \A j \in DOMAIN l : j < i => j \in DOMAIN w
         /\ \A j \in DOMAIN l : j > i => j - 1 \in DOMAIN w
<1> DEFINE l == p.schedules
           a == SubSeq(l, 1, i - 1)
           b == SubSeq(l, i + 1, Len(l))
           w == Without(l, l[i].id)
<1>1. l \in Seq(Schedule) /\ Len(l) \in Nat /\ DOMAIN l = 1..Len(l)
      /\ \A j \in 1..Len(l) : l[j] \in Schedule
  BY SoundIsListed DEF Sound
<1>2. i \in 1..Len(l) /\ i \in Nat /\ i <= Len(l) /\ i >= 1
  BY <1>1
<1>3. w = RemoveAt(l, i)
  <2>1. \A j \in DOMAIN l : l[j].id = l[i].id <=> j = i
    BY DEF Sound, UniqueIds
  <2>2. i = CHOOSE j \in DOMAIN l : l[j].id = l[i].id
    BY <2>1
  <2> QED BY <2>1, <2>2 DEF Without
<1>4. w = a \o b
  BY <1>3 DEF RemoveAt
<1>5. /\ a \in Seq(Schedule) /\ Len(a) = i - 1 /\ \A j \in 1..i - 1 : a[j] = l[j]
  <2>1. (i - 1) - 1 + 1 = i - 1 /\ (1 <= i - 1 \/ i - 1 = 0)
    BY <1>2
  <2>2. \A j \in 1..i - 1 : l[j] \in Schedule /\ 1 + j - 1 = j
    BY <1>1, <1>2
  <2> HIDE DEF l
  <2> QED BY <1>2, <2>1, <2>2, SubSeqProperties
<1>6. /\ b \in Seq(Schedule) /\ Len(b) = Len(l) - i
      /\ \A j \in 1..Len(l) - i : b[j] = l[i + j]
  <2>1. Len(l) - (i + 1) + 1 = Len(l) - i /\ (i + 1 <= Len(l) \/ Len(l) - i = 0)
    BY <1>1, <1>2
  <2>2. \A j \in i + 1..Len(l) : l[j] \in Schedule
    BY <1>1, <1>2
  <2>3. \A j \in 1..Len(l) - i : (i + 1) + j - 1 = i + j
    BY <1>1, <1>2
  <2> HIDE DEF l
  <2> QED BY <1>1, <1>2, <2>1, <2>2, <2>3, SubSeqProperties
<1> HIDE DEF l, a, b, w
<1>7. /\ w \in Seq(Schedule) /\ Len(w) = Len(l) - 1
      /\ \A j \in 1..Len(l) - 1 : w[j] = IF j <= i - 1 THEN a[j] ELSE b[j - (i - 1)]
  <2>1. Len(a) + Len(b) = Len(l) - 1
    BY <1>1, <1>2, <1>5, <1>6
  <2> QED BY <1>4, <1>5, <1>6, <2>1, ConcatProperties
<1>8. DOMAIN w = 1..Len(l) - 1
  BY <1>7, LenProperties
<1>9. ASSUME NEW j \in DOMAIN w PROVE w[j] = IF j < i THEN l[j] ELSE l[j + 1]
  <2>1. j \in 1..Len(l) - 1 /\ j \in Nat
    BY <1>8
  <2>2. CASE j < i
    <3>1. j <= i - 1 /\ j \in 1..i - 1
      BY <1>2, <2>1, <2>2
    <3> QED BY <1>5, <1>7, <2>1, <2>2, <3>1
  <2>3. CASE ~(j < i)
    <3>1. ~(j <= i - 1) /\ j - (i - 1) \in 1..Len(l) - i /\ i + (j - (i - 1)) = j + 1
      BY <1>1, <1>2, <2>1, <2>3
    <3>2. w[j] = b[j - (i - 1)]
      BY <1>7, <2>1, <3>1
    <3>3. b[j - (i - 1)] = l[i + (j - (i - 1))]
      BY <1>6, <3>1
    <3> QED BY <2>3, <3>1, <3>2, <3>3
  <2> QED BY <2>2, <2>3
<1>10. \A j \in DOMAIN l : (j < i => j \in DOMAIN w) /\ (j > i => j - 1 \in DOMAIN w)
  BY <1>1, <1>2, <1>8
<1> QED BY <1>7, <1>9, <1>10 DEF w, l

-----------------------------------------------------------------------------
(* What the dashboard shows is what is decided. *)

LEMMA MatchesOne ==
  ASSUME NEW n, NEW set
  PROVE  Matches(n, set) <=> \E k \in set : Matches(n, {k})
BY DEF Matches

\* The list has a first schedule that decides, or none.
LEMMA FirstOrNone ==
  ASSUME NEW p \in Policy, NEW d, NEW n, NEW t
  PROVE  \/ \A i \in DOMAIN p.schedules : ~Decides(p.schedules[i], d, n, t)
         \/ \E k \in DOMAIN p.schedules :
              /\ Decides(p.schedules[k], d, n, t)
              /\ \A i \in DOMAIN p.schedules : i < k => ~Decides(p.schedules[i], d, n, t)
<1> DEFINE T == {i \in DOMAIN p.schedules : Decides(p.schedules[i], d, n, t)}
<1>1. T \subseteq Nat
  BY SoundIsListed
<1>2. CASE T = {}
  BY <1>2
<1>3. CASE T # {}
  <2> DEFINE k == Min(T)
  <2>1. k \in T /\ \A x \in T : k <= x
    <3> HIDE DEF T
    <3> QED BY <1>1, <1>3, SmallestExists
  <2>2. ASSUME NEW i \in DOMAIN p.schedules, i < k PROVE i \notin T
    <3>1. i \in Nat /\ k \in Nat
      BY <1>1, <2>1, SoundIsListed
    <3>2. ~(k <= i)
      BY <2>2, <3>1
    <3> QED BY <2>1, <3>2
  <2> HIDE DEF k
  <2> QED BY <2>1, <2>2
<1> QED BY <1>2, <1>3

\* Rules, read as the dashboard shows them.
LEMMA ShownRule ==
  ASSUME NEW p \in Policy, NEW s \in Scope, NEW k \in Key
  PROVE  /\ Shown(p).rule[s][k] = "allow" <=> k \in p.allow[s]
         /\ Shown(p).rule[s][k] = "deny" <=> k \in p.deny[s] \ p.allow[s]
         /\ Shown(p).rule[s][k] \in {"allow", "deny", "none"}
<1>1. Shown(p).rule[s][k] = CASE k \in p.allow[s] -> "allow"
                              [] k \in p.deny[s] \ p.allow[s] -> "deny"
                              [] OTHER -> "none"
  BY DEF Shown
<1>2. CASE k \in p.allow[s]
  BY <1>1, <1>2
<1>3. CASE k \in p.deny[s] \ p.allow[s]
  BY <1>1, <1>3
<1>4. CASE k \notin p.allow[s] /\ k \notin p.deny[s]
  BY <1>1, <1>4
<1> QED BY <1>2, <1>3, <1>4

\* Whoever answers by the rules and schedules shown keeps what they promise:
\* the windows, the precedence and the spellings are those of the dashboard.
LEMMA ShownIsDecided ==
  ASSUME NEW p \in Policy, promise = Shown(p)
  PROVE  AsPromised(p)
<1> SUFFICES ASSUME ~p.emergency, p.temporary = {},
                    NEW d \in Device, NEW n \in QueryName, NEW t \in Time
             PROVE  Verdict(p, d, n, t) \in Promised(d, n, t)
  BY DEF AsPromised
<1> DEFINE active == {r \in promise.plans :
                        /\ r.enabled /\ r.device \in {Network, d}
                        /\ MatchesPattern(n, r.domain) /\ InWindow(r, t)}
           said(s) == {promise.rule[s][k] : k \in {k \in Key : Matches(n, {k})}}
           by(s) == IF "allow" \in said(s) THEN "allow" ELSE "block"
           ruling == {s \in Scope : said(s) \cap {"allow", "deny"} # {}}
<1>1. Promised(d, n, t) = IF active # {} THEN {r.action : r \in active}
                          ELSE IF d \in ruling THEN {by(d)}
                          ELSE IF Network \in ruling THEN {by(Network)}
                          ELSE {"normal"}
  BY DEF Promised
<1>2. ASSUME NEW i \in DOMAIN p.schedules
      PROVE  Decides(p.schedules[i], d, n, t) <=> p.schedules[i] \in active
  <2>1. p.schedules[i] \in Schedule /\ p.schedules[i] \in ToSet(p.schedules)
    BY SoundIsListed DEF ToSet
  <2>2. promise.plans = ToSet(p.schedules)
    BY DEF Shown
  <2> QED BY <2>1, <2>2, ActiveInWindow DEF Decides, IsActiveNow
<1>3. \A r \in active : \E i \in DOMAIN p.schedules : r = p.schedules[i]
  BY DEF Shown, ToSet
<1>4. ASSUME NEW s \in Scope
      PROVE  /\ "allow" \in said(s) <=> Matches(n, p.allow[s])
             /\ s \in ruling <=> Matches(n, p.allow[s]) \/ Matches(n, p.deny[s])
  <2>1. p.allow[s] \subseteq Key /\ p.deny[s] \subseteq Key
    BY DEF Policy
  <2> DEFINE shown(k) == promise.rule[s][k]
  <2>7. \A k \in Key : /\ shown(k) = "allow" <=> k \in p.allow[s]
                       /\ shown(k) = "deny" <=> k \in p.deny[s] \ p.allow[s]
    BY ShownRule
  <2>8. \A x : x \in said(s) <=> \E k \in Key : Matches(n, {k}) /\ shown(k) = x
    BY Zenon
  <2>2. "allow" \in said(s) <=> \E k \in Key : Matches(n, {k}) /\ k \in p.allow[s]
    <3>1. "allow" \in said(s) <=> \E k \in Key : Matches(n, {k}) /\ shown(k) = "allow"
      BY <2>8
    <3> HIDE DEF said, shown
    <3> QED BY <2>7, <3>1
  <2>3. "deny" \in said(s) <=> \E k \in Key : Matches(n, {k}) /\ k \in p.deny[s] \ p.allow[s]
    <3>1. "deny" \in said(s) <=> \E k \in Key : Matches(n, {k}) /\ shown(k) = "deny"
      BY <2>8
    <3> HIDE DEF said, shown
    <3> QED BY <2>7, <3>1
  <2>4. Matches(n, p.allow[s]) <=> \E k \in Key : Matches(n, {k}) /\ k \in p.allow[s]
    BY <2>1, MatchesOne
  <2>5. Matches(n, p.deny[s]) <=> \E k \in Key : Matches(n, {k}) /\ k \in p.deny[s]
    BY <2>1, MatchesOne
  <2>6. s \in ruling <=> "allow" \in said(s) \/ "deny" \in said(s)
    OBVIOUS
  <2> HIDE DEF said, ruling
  <2> QED BY <2>2, <2>3, <2>4, <2>5, <2>6
<1>5. CASE \A i \in DOMAIN p.schedules : ~Decides(p.schedules[i], d, n, t)
  <2>1. Verdict(p, d, n, t) = ByRules(p, d, n)
    BY <1>5, NoneDecides
  <2>2. active = {}
    BY <1>2, <1>3, <1>5
  <2>3. d \in Scope /\ Network \in Scope /\ p.allow[Network] \cup p.temporary = p.allow[Network]
    BY DEF Scope
  <2>4. /\ "allow" \in said(d) <=> Matches(n, p.allow[d])
        /\ d \in ruling <=> Matches(n, p.allow[d]) \/ Matches(n, p.deny[d])
        /\ "allow" \in said(Network) <=> Matches(n, p.allow[Network])
        /\ Network \in ruling <=> Matches(n, p.allow[Network]) \/ Matches(n, p.deny[Network])
    BY <1>4, <2>3
  <2> HIDE DEF active, said, ruling
  <2>5. ByRules(p, d, n) = IF Matches(n, p.allow[d]) THEN "allow"
                           ELSE IF Matches(n, p.deny[d]) THEN "block"
                           ELSE IF Matches(n, p.allow[Network]) THEN "allow"
                           ELSE IF Matches(n, p.deny[Network]) THEN "block"
                           ELSE "normal"
    BY <2>3 DEF ByRules
  <2> QED BY <1>1, <2>1, <2>2, <2>4, <2>5
<1>6. ASSUME NEW k \in DOMAIN p.schedules, Decides(p.schedules[k], d, n, t),
             \A i \in DOMAIN p.schedules : i < k => ~Decides(p.schedules[i], d, n, t)
      PROVE  Verdict(p, d, n, t) \in Promised(d, n, t)
  <2>1. Verdict(p, d, n, t) = p.schedules[k].action
    BY <1>6, SoundIsListed, FirstDecides
  <2>2. p.schedules[k] \in active
    BY <1>2, <1>6
  <2> HIDE DEF active
  <2> QED BY <1>1, <2>1, <2>2
<1> QED BY <1>5, <1>6, FirstOrNone

-----------------------------------------------------------------------------
(* Edits change what is shown as they say. *)

LEMMA EditIsShown ==
  ASSUME NEW p \in Policy, NEW s \in Scope, NEW n \in RuleName,
         NEW action \in {"allow", "deny", "none"}
  PROVE  Shown(Edited(p, s, n, action)) = [Shown(p) EXCEPT !.rule[s][Stripped(n)] = action]
<1> DEFINE q == Edited(p, s, n, action)
           k == Stripped(n)
           rule(r) == [c \in Scope |-> [x \in Key |->
                        CASE x \in r.allow[c] -> "allow"
                          [] x \in r.deny[c] \ r.allow[c] -> "deny"
                          [] OTHER -> "none"]]
<1>1. k \in Key /\ q.schedules = p.schedules
  BY KeyFacts, EditedRules
<1>2. /\ \A c \in Scope \ {s} : q.allow[c] = p.allow[c] /\ q.deny[c] = p.deny[c]
      /\ action = "allow" => q.allow[s] = p.allow[s] \cup {k} /\ q.deny[s] = p.deny[s] \ {k}
      /\ action = "deny" => q.allow[s] = p.allow[s] \ {k} /\ q.deny[s] = p.deny[s] \cup {k}
      /\ action = "none" => q.allow[s] = p.allow[s] \ {k} /\ q.deny[s] = p.deny[s] \ {k}
  <2>1. \A c \in Scope \ {s} : q.allow[c] = p.allow[c] /\ q.deny[c] = p.deny[c]
    BY EditedRules
  <2>2. ASSUME action = "allow" PROVE q.allow[s] = p.allow[s] \cup {k} /\ q.deny[s] = p.deny[s] \ {k}
    BY <2>2, EditedRules
  <2>3. ASSUME action = "deny" PROVE q.allow[s] = p.allow[s] \ {k} /\ q.deny[s] = p.deny[s] \cup {k}
    BY <2>3, EditedRules
  <2>4. ASSUME action = "none" PROVE q.allow[s] = p.allow[s] \ {k} /\ q.deny[s] = p.deny[s] \ {k}
    BY <2>4, EditedRules
  <2> HIDE DEF q, k
  <2> QED BY <2>1, <2>2, <2>3, <2>4
<1>3. Shown(q) = [rule |-> rule(q), plans |-> ToSet(p.schedules)]
      /\ Shown(p) = [rule |-> rule(p), plans |-> ToSet(p.schedules)]
  BY <1>1 DEF Shown
<1>4. ASSUME NEW c \in Scope \ {s} PROVE rule(q)[c] = rule(p)[c]
  BY <1>2
<1>5. ASSUME NEW x \in Key \ {k} PROVE rule(q)[s][x] = rule(p)[s][x]
  <2> HIDE DEF q, k
  <2>1. (x \in q.allow[s] <=> x \in p.allow[s]) /\ (x \in q.deny[s] <=> x \in p.deny[s])
    BY <1>2
  <2> QED BY <2>1
<1>6. rule(q)[s][k] = action
  <2> HIDE DEF q, k
  <2>1. CASE action = "allow"
    BY <1>1, <1>2, <2>1
  <2>2. CASE action = "deny"
    <3>1. k \in q.deny[s] /\ k \notin q.allow[s]
      BY <1>2, <2>2
    <3> QED BY <1>1, <2>2, <3>1
  <2>3. CASE action = "none"
    <3>1. k \notin q.deny[s] /\ k \notin q.allow[s]
      BY <1>2, <2>3
    <3> QED BY <1>1, <2>3, <3>1
  <2> QED BY <2>1, <2>2, <2>3
<1>7. rule(q) = [rule(p) EXCEPT ![s][k] = action]
  <2>1. \A c \in Scope : DOMAIN rule(p)[c] = Key /\ DOMAIN rule(q)[c] = Key
    OBVIOUS
  <2>2. rule(q)[s] = [rule(p)[s] EXCEPT ![k] = action]
    <3>1. \A x \in Key : rule(q)[s][x] = [rule(p)[s] EXCEPT ![k] = action][x]
      <4> HIDE DEF k
      <4> QED BY <1>5, <1>6, <2>1
    <3> HIDE DEF k
    <3> QED BY <3>1, <2>1
  <2> HIDE DEF k
  <2> QED BY <1>4, <2>2
<1> HIDE DEF q, k, rule
<1>8. Shown(q) = [Shown(p) EXCEPT !.rule[s][k] = action]
  BY <1>3, <1>7
<1> QED BY <1>8 DEF q, k

LEMMA ShownSchedules ==
  ASSUME NEW p \in Policy, NEW l \in Seq(Schedule)
  PROVE  Shown([p EXCEPT !.schedules = l]) = [Shown(p) EXCEPT !.plans = ToSet(l)]
<1> DEFINE q == [p EXCEPT !.schedules = l]
<1>1. q.allow = p.allow /\ q.deny = p.deny /\ q.schedules = l
  BY OtherSchedules
<1> HIDE DEF q
<1> DEFINE rule(r) == [c \in Scope |-> [x \in Key |->
                        CASE x \in r.allow[c] -> "allow"
                          [] x \in r.deny[c] \ r.allow[c] -> "deny"
                          [] OTHER -> "none"]]
<1>2. Shown(q) = [Shown(p) EXCEPT !.plans = ToSet(l)]
  <2>1. Shown(q) = [rule |-> rule(q), plans |-> ToSet(l)]
    BY <1>1 DEF Shown
  <2>2. Shown(p) = [rule |-> rule(p), plans |-> ToSet(p.schedules)]
    BY DEF Shown
  <2>3. rule(q) = rule(p)
    BY <1>1
  <2> HIDE DEF rule
  <2> QED BY <2>1, <2>2, <2>3
<1> QED BY <1>2 DEF q

\* A schedule under a new id goes to the end.
LEMMA Added ==
  ASSUME NEW p, Sound(p), NEW r \in Schedule,
         \A i \in DOMAIN p.schedules : p.schedules[i].id # r.id
  PROVE  /\ AddSchedule(p, r) = [p EXCEPT !.schedules = Append(p.schedules, r)]
         /\ Sound(AddSchedule(p, r)) /\ (Plain(p) => Plain(AddSchedule(p, r)))
         /\ Shown(AddSchedule(p, r)) = [Shown(p) EXCEPT !.plans = @ \cup {r}]
<1> DEFINE l == p.schedules
           a == Append(l, r)
           q == [p EXCEPT !.schedules = a]
<1>1. p \in Policy /\ l \in Seq(Schedule) /\ Len(l) \in Nat /\ DOMAIN l = 1..Len(l)
  BY SoundIsListed DEF Sound
<1>2. AddSchedule(p, r) = q
  BY DEF AddSchedule, Without
<1>3. /\ a \in Seq(Schedule) /\ Len(a) = Len(l) + 1
      /\ \A i \in 1..Len(l) : a[i] = l[i]
      /\ a[Len(l) + 1] = r
  BY <1>1, AppendProperties
<1>4. DOMAIN a = 1..Len(l) + 1
  BY <1>3, LenProperties
<1> HIDE DEF a
<1>5. q \in Policy /\ q.schedules = a /\ (Plain(p) => Plain(q))
  BY <1>1, <1>3, OtherSchedules
<1>6. UniqueIds(q)
  <2> HIDE DEF q
  <2>1. SUFFICES ASSUME NEW i \in 1..Len(l) + 1, NEW j \in 1..Len(l) + 1, a[i].id = a[j].id
                 PROVE  i = j
    BY <1>4, <1>5 DEF UniqueIds
  <2>2. \A x \in 1..Len(l) + 1 : x \in 1..Len(l) \/ x = Len(l) + 1
    BY <1>1
  <2>3. \A x \in 1..Len(l) : a[x] = l[x] /\ l[x].id # r.id
    BY <1>1, <1>3
  <2>4. CASE i \in 1..Len(l) /\ j \in 1..Len(l)
    BY <1>1, <2>1, <2>3, <2>4 DEF Sound, UniqueIds
  <2> QED BY <1>3, <2>1, <2>2, <2>3, <2>4
<1>7. ToSet(a) = ToSet(l) \cup {r}
  <2>1. \A x \in 1..Len(l) + 1 : x \in 1..Len(l) \/ x = Len(l) + 1
    BY <1>1
  <2>2. 1..Len(l) \subseteq 1..Len(l) + 1 /\ Len(l) + 1 \in 1..Len(l) + 1
    BY <1>1
  <2> QED BY <1>1, <1>3, <1>4, <2>1, <2>2 DEF ToSet
<1>8. Shown(q) = [Shown(p) EXCEPT !.plans = @ \cup {r}]
  <2>1. Shown(q) = [Shown(p) EXCEPT !.plans = ToSet(a)]
    BY <1>1, <1>3, ShownSchedules
  <2>2. Shown(p).plans = ToSet(l)
    BY DEF Shown
  <2> QED BY <1>7, <2>1, <2>2
<1> QED BY <1>2, <1>5, <1>6, <1>8 DEF Sound, a

LEMMA Removed ==
  ASSUME NEW p, Sound(p), NEW id
  PROVE  /\ Sound(RemoveSchedule(p, id)) /\ (Plain(p) => Plain(RemoveSchedule(p, id)))
         /\ Shown(RemoveSchedule(p, id)) = [Shown(p) EXCEPT !.plans = {r \in @ : r.id # id}]
<1> DEFINE l == p.schedules
           w == Without(l, id)
           q == [p EXCEPT !.schedules = w]
<1>1. p \in Policy /\ l \in Seq(Schedule) /\ Len(l) \in Nat /\ DOMAIN l = 1..Len(l)
  BY SoundIsListed DEF Sound
<1>2. RemoveSchedule(p, id) = q
  BY DEF RemoveSchedule
<1>3. w \in Seq(Schedule)
  BY <1>1, WithoutIsList
<1>4. q \in Policy /\ q.schedules = w /\ (Plain(p) => Plain(q))
  BY <1>1, <1>3, OtherSchedules
<1>5. /\ UniqueIds(q)
      /\ ToSet(w) = {r \in ToSet(l) : r.id # id}
  <2>1. CASE \A i \in DOMAIN l : l[i].id # id
    <3>1. w = l
      BY <2>1 DEF Without
    <3> HIDE DEF q, w
    <3> QED BY <1>4, <2>1, <3>1 DEF Sound, UniqueIds, ToSet
  <2>2. ASSUME NEW i \in DOMAIN l, l[i].id = id
        PROVE  UniqueIds(q) /\ ToSet(w) = {r \in ToSet(l) : r.id # id}
    <3>1. /\ \A j \in DOMAIN w : w[j] = IF j < i THEN l[j] ELSE l[j + 1]
          /\ \A j \in DOMAIN l : j < i => j \in DOMAIN w
          /\ \A j \in DOMAIN l : j > i => j - 1 \in DOMAIN w
          /\ Len(w) = Len(l) - 1
      BY <2>2, WithoutAt
    <3>2. DOMAIN w = 1..Len(l) - 1
      BY <1>3, <3>1, LenProperties
    <3> HIDE DEF q, w
    <3> DEFINE from(j) == IF j < i THEN j ELSE j + 1
    <3>3. \A j \in DOMAIN w : from(j) \in DOMAIN l /\ from(j) # i
      BY <1>1, <3>2
    <3>4. \A j \in DOMAIN w : w[j] = l[from(j)]
      BY <3>1
    <3>5. \A j, k \in DOMAIN w : from(j) = from(k) => j = k
      BY <1>1, <3>2
    <3>6. \A j \in DOMAIN l \ {i} : \E k \in DOMAIN w : from(k) = j
      <4>1. SUFFICES ASSUME NEW j \in DOMAIN l \ {i} PROVE \E k \in DOMAIN w : from(k) = j
        OBVIOUS
      <4>2. j \in Nat /\ i \in Nat
        BY <1>1
      <4>3. CASE j < i
        BY <3>1, <4>3
      <4>4. CASE j > i
        <5>1. j - 1 \in DOMAIN w /\ ~(j - 1 < i) /\ (j - 1) + 1 = j
          BY <3>1, <4>2, <4>4
        <5> QED BY <5>1
      <4> QED BY <4>2, <4>3, <4>4
    <3>7. \A j \in DOMAIN l : l[j].id = id <=> j = i
      BY <2>2 DEF Sound, UniqueIds
    <3> HIDE DEF from
    <3>8. UniqueIds(q)
      <4>1. SUFFICES ASSUME NEW j \in DOMAIN w, NEW k \in DOMAIN w, w[j].id = w[k].id
                     PROVE  j = k
        BY <1>4 DEF UniqueIds
      <4>2. from(j) = from(k)
        BY <3>3, <3>4, <4>1 DEF Sound, UniqueIds
      <4> QED BY <3>5, <4>2
    <3>9. ToSet(w) = {r \in ToSet(l) : r.id # id}
      <4>1. ToSet(w) = {w[j] : j \in DOMAIN w} /\ ToSet(l) = {l[j] : j \in DOMAIN l}
        BY DEF ToSet
      <4>2. ASSUME NEW r \in ToSet(w) PROVE r \in ToSet(l) /\ r.id # id
        <5>1. PICK j \in DOMAIN w : r = w[j]
          BY <4>1
        <5> QED BY <3>3, <3>4, <3>7, <4>1, <5>1
      <4>3. ASSUME NEW r \in ToSet(l), r.id # id PROVE r \in ToSet(w)
        <5>1. PICK j \in DOMAIN l : r = l[j]
          BY <4>1
        <5>2. PICK k \in DOMAIN w : from(k) = j
          BY <3>6, <3>7, <4>3, <5>1
        <5> QED BY <3>4, <4>1, <5>1, <5>2
      <4> QED BY <4>2, <4>3
    <3> QED BY <3>8, <3>9
  <2> QED BY <2>1, <2>2
<1>6. Shown(q) = [Shown(p) EXCEPT !.plans = {r \in @ : r.id # id}]
  <2>1. Shown(q) = [Shown(p) EXCEPT !.plans = ToSet(w)]
    BY <1>1, <1>3, ShownSchedules
  <2>2. Shown(p).plans = ToSet(l)
    BY DEF Shown
  <2> HIDE DEF q, w
  <2> QED BY <1>5, <2>1, <2>2
<1> HIDE DEF q
<1> QED BY <1>2, <1>4, <1>5, <1>6 DEF Sound

\* The toggled schedule keeps its place.
LEMMA Toggled ==
  ASSUME NEW p, Sound(p), NEW id, NEW b \in BOOLEAN
  PROVE  LET q == ToggleSchedule(p, id, b)
             flip(r) == IF r.id = id THEN [r EXCEPT !.enabled = b] ELSE r IN
         /\ Sound(q) /\ (Plain(p) => Plain(q))
         /\ q = [p EXCEPT !.schedules = q.schedules]
         /\ DOMAIN q.schedules = DOMAIN p.schedules
         /\ \A i \in DOMAIN p.schedules : q.schedules[i] = flip(p.schedules[i])
         /\ Shown(q) = [Shown(p) EXCEPT !.plans = {flip(r) : r \in @}]
<1> DEFINE l == p.schedules
           flip(r) == IF r.id = id THEN [r EXCEPT !.enabled = b] ELSE r
           t == [i \in DOMAIN l |-> flip(l[i])]
           q == [p EXCEPT !.schedules = t]
<1>1. p \in Policy /\ l \in Seq(Schedule) /\ Len(l) \in Nat /\ DOMAIN l = 1..Len(l)
      /\ \A i \in DOMAIN l : l[i] \in Schedule
  BY SoundIsListed DEF Sound
<1>2. ToggleSchedule(p, id, b) = q
  BY DEF ToggleSchedule
<1>3. \A r \in Schedule : flip(r) \in Schedule /\ flip(r).id = r.id
  BY DEF Schedule
<1> HIDE DEF flip
<1>4. t \in Seq(Schedule) /\ DOMAIN t = DOMAIN l /\ \A i \in DOMAIN l : t[i] = flip(l[i])
  <2>1. \A i \in 1..Len(l) : flip(l[i]) \in Schedule
    BY <1>1, <1>3
  <2>2. t = [i \in 1..Len(l) |-> flip(l[i])]
    BY <1>1
  <2>3. t \in Seq(Schedule)
    BY <1>1, <2>1, <2>2, IsASeq
  <2> QED BY <2>3
<1> HIDE DEF t
<1>5. q \in Policy /\ q.schedules = t /\ (Plain(p) => Plain(q))
  BY <1>1, <1>4, OtherSchedules
<1>6. UniqueIds(q)
  <2> HIDE DEF q
  <2> QED BY <1>1, <1>3, <1>4, <1>5 DEF Sound, UniqueIds
<1>7. ToSet(t) = {flip(r) : r \in ToSet(l)}
  BY <1>4 DEF ToSet
<1>8. Shown(q) = [Shown(p) EXCEPT !.plans = {flip(r) : r \in @}]
  <2>1. Shown(q) = [Shown(p) EXCEPT !.plans = ToSet(t)]
    BY <1>1, <1>4, ShownSchedules
  <2>2. Shown(p).plans = ToSet(l)
    BY DEF Shown
  <2> HIDE DEF q
  <2> QED BY <1>7, <2>1, <2>2
<1>9. q = [p EXCEPT !.schedules = q.schedules]
  BY <1>5
<1> HIDE DEF q
<1> QED BY <1>2, <1>4, <1>5, <1>6, <1>8, <1>9 DEF Sound, flip

-----------------------------------------------------------------------------
(* Across edits, failed saves, crashes and restarts. *)

\* What is in memory, in the file, and what the answers promised.
Kept ==
  /\ Sound(memory) /\ (disk = NoFile \/ Sound(disk))
  /\ ~nested => /\ Plain(memory)
                /\ up => promise = Shown(memory)
                /\ ~stray /\ disk # NoFile => promise = Shown(Load(disk))

LEMMA LoadIsSound ==
  ASSUME NEW p, Sound(p)
  PROVE  Sound(Load(p)) /\ Plain(Load(p)) /\ (Plain(p) => Load(p) = p)
BY Loading DEF Sound, UniqueIds

LEMMA BeginningsAreSound ==
  /\ Sound(New) /\ Plain(New) /\ Sound(Migrated)
  /\ \A f \in FirstFile : f = NoFile \/ Sound(f)
<1>1. Sound(New) /\ Plain(New)
  BY EmptySeq DEF New, Sound, Policy, UniqueIds, Plain
<1>2. Sound(Migrated)
  <2> DEFINE denied == {Stripped(n) : n \in LegacyDeny}
             allowed == {Stripped(n) : n \in LegacyAllow} \ denied
  <2>1. Migrated = [New EXCEPT !.allow[Network] = allowed, !.deny[Network] = denied]
    BY DEF Migrated
  <2>2. allowed \subseteq Key /\ denied \subseteq Key
    BY NameAssumption, KeyFacts
  <2> HIDE DEF denied, allowed
  <2>3. Migrated \in Policy /\ Migrated.schedules = <<>>
    BY <1>1, <2>1, <2>2 DEF Sound, Policy, New
  <2> QED BY <2>3 DEF Sound, UniqueIds
<1>3. \A f \in FirstFile : f = NoFile \/ Sound(f)
  BY FileAssumption DEF Sound
<1> QED BY <1>1, <1>2, <1>3

LEMMA PublicationKeeps ==
  ASSUME Kept, NEW next, Sound(next), NEW told, Publish(next, told),
         ~nested' => ~nested /\ Plain(next),
         ~nested' /\ promise = Shown(memory) => told = Shown(next)
  PROVE  Kept'
<1>1. disk' = next /\ (memory' = next \/ memory' = memory) /\ up' = up /\ up
  BY DEF Publish
<1>2. Sound(memory)' /\ Sound(disk')
  BY <1>1 DEF Kept
<1>3. ASSUME ~nested'
      PROVE  /\ Plain(memory') /\ (up' => promise' = Shown(memory'))
             /\ ~stray' => promise' = Shown(Load(disk'))
  BY <1>1, <1>3, LoadIsSound DEF Kept, Publish
<1> QED BY <1>2, <1>3 DEF Kept

LEMMA EditKeeps ==
  ASSUME Kept, Edit
  PROVE  Kept'
<1>1. Sound(memory) /\ memory \in Policy
  BY DEF Kept, Sound
<1>2. ASSUME NEW s \in Scope, NEW n \in RuleName, NEW action \in {"allow", "deny", "none"},
             UpdateRule(s, n, action)
      PROVE  Kept'
  <2> DEFINE next == Edited(memory, s, n, action)
             told == [promise EXCEPT !.rule[s][Stripped(n)] = action]
  <2>1. Publish(next, told) /\ nested' = (nested \/ Bare(n) # Stripped(n))
    BY <1>2 DEF UpdateRule, Edited
  <2>2. Sound(next)
    BY <1>1, EditedRules DEF Sound, UniqueIds
  <2>3. ~nested' => ~nested /\ Plain(next)
    BY <1>1, <2>1, EditedIsPlain DEF Kept
  <2>4. promise = Shown(memory) => told = Shown(next)
    BY <1>1, EditIsShown
  <2> HIDE DEF next, told
  <2> QED BY <2>1, <2>2, <2>3, <2>4, PublicationKeeps
<1>3. ASSUME NEW id \in ScheduleId, NEW plan \in Plan, PostSchedule(id, plan)
      PROVE  Kept'
  <2> DEFINE r == [id |-> id, enabled |-> TRUE, domain |-> plan.domain,
                   action |-> plan.action, days |-> plan.days, start |-> plan.start,
                   end |-> plan.end, device |-> plan.device]
             next == AddSchedule(memory, r)
             told == [promise EXCEPT !.plans = @ \cup {r}]
  <2>1. r \in Schedule /\ r.id = id
    BY PlanAssumption DEF Schedule
  <2>2. /\ Publish(next, told) /\ nested' = nested
        /\ \A i \in DOMAIN memory.schedules : memory.schedules[i].id # r.id
    BY <1>3 DEF PostSchedule
  <2> HIDE DEF r
  <2>3. Sound(next) /\ (Plain(memory) => Plain(next))
        /\ Shown(next) = [Shown(memory) EXCEPT !.plans = @ \cup {r}]
    BY <1>1, <2>1, <2>2, Added
  <2>4. promise = Shown(memory) => told = Shown(next)
    BY <2>3
  <2> HIDE DEF next, told
  <2> QED BY <2>2, <2>3, <2>4, PublicationKeeps DEF Kept
<1>4. ASSUME NEW id \in ScheduleId, DeleteSchedule(id)
      PROVE  Kept'
  <2> DEFINE next == RemoveSchedule(memory, id)
             told == [promise EXCEPT !.plans = {r \in @ : r.id # id}]
  <2>1. Publish(next, told) /\ nested' = nested
    BY <1>4 DEF DeleteSchedule
  <2>2. Sound(next) /\ (Plain(memory) => Plain(next))
        /\ Shown(next) = [Shown(memory) EXCEPT !.plans = {r \in @ : r.id # id}]
    BY <1>1, Removed
  <2>3. promise = Shown(memory) => told = Shown(next)
    BY <2>2
  <2> HIDE DEF next, told
  <2> QED BY <2>1, <2>2, <2>3, PublicationKeeps DEF Kept
<1>5. ASSUME NEW id \in ScheduleId, NEW b \in BOOLEAN, PutScheduleToggle(id, b)
      PROVE  Kept'
  <2> DEFINE next == ToggleSchedule(memory, id, b)
             told == [promise EXCEPT !.plans =
                        {IF r.id = id THEN [r EXCEPT !.enabled = b] ELSE r : r \in @}]
  <2>1. Publish(next, told) /\ nested' = nested
    BY <1>5 DEF PutScheduleToggle
  <2>2. Sound(next) /\ (Plain(memory) => Plain(next))
        /\ Shown(next) = [Shown(memory) EXCEPT !.plans =
                            {IF r.id = id THEN [r EXCEPT !.enabled = b] ELSE r : r \in @}]
    BY <1>1, Toggled
  <2>3. promise = Shown(memory) => told = Shown(next)
    BY <2>2
  <2> HIDE DEF next, told
  <2> QED BY <2>1, <2>2, <2>3, PublicationKeeps DEF Kept
<1> QED BY <1>2, <1>3, <1>4, <1>5 DEF Edit

LEMMA KeptAlways == Spec => []Kept
<1>1. Init => Kept
  BY BeginningsAreSound DEF Init, Kept
<1>2. Kept /\ [Next]_vars => Kept'
  <2> SUFFICES ASSUME Kept, [Next]_vars
               PROVE  Kept'
    OBVIOUS
  <2>1. CASE Start
    <3>1. memory' = Load(disk) /\ disk' = disk /\ Sound(disk) /\ nested' = nested /\ stray' = FALSE
          /\ promise' = IF stray THEN Shown(Load(disk)) ELSE promise
      BY <2>1 DEF Start, Kept
    <3>2. Sound(Load(disk)) /\ Plain(Load(disk))
      BY <3>1, LoadIsSound
    <3>3. ~nested => promise' = Shown(Load(disk))
      BY <2>1, <3>1 DEF Kept, Start
    <3> QED BY <3>1, <3>2, <3>3 DEF Kept
  <2>2. CASE FirstStart
    <3>1. PICK p \in {Migrated, New} :
            /\ disk' = p /\ promise' = Shown(p)
            /\ nested' = (nested \/ Load(p) # p)
            /\ memory' = p \/ (up' = up /\ memory' = memory)
      BY <2>2 DEF FirstStart
    <3>2. Sound(p) /\ Plain(Load(p))
      BY BeginningsAreSound, LoadIsSound
    <3>3. ~up /\ (~nested' => ~nested /\ Load(p) = p /\ Plain(p))
      BY <2>2, <3>1, <3>2 DEF FirstStart
    <3> QED BY <3>1, <3>2, <3>3 DEF Kept
  <2>3. CASE Crash
    BY <2>3, BeginningsAreSound DEF Crash, Kept
  <2>4. CASE Edit
    BY <2>4, EditKeeps
  <2>5. CASE Evaluate
    BY <2>5 DEF Evaluate, Begin, Look, ApplyRules, Tick, Return, Kept
  <2>6. CASE UNCHANGED vars
    BY <2>6 DEF vars, Kept
  <2> QED BY <2>1, <2>2, <2>3, <2>4, <2>5, <2>6 DEF Next
<1> QED BY <1>1, <1>2, PTL DEF Spec

\* At every time of the week every device gets for every name what the answers
\* to all edits so far promised, whatever was saved, lost or restarted between.
THEOREM PromisesKept == Spec => []VerdictAsPromised
<1>1. Kept => VerdictAsPromised
  BY ShownIsDecided DEF Kept, VerdictAsPromised, AsPromised, Sound
<1> QED BY <1>1, KeptAlways, PTL

\* The file promises the same to the next start, unless the last save failed
\* after the file was in place.
THEOREM PromisesOutliveRestarts == Spec => []PromiseSurvivesRestart
<1>1. Kept => PromiseSurvivesRestart
  <2> SUFFICES ASSUME Kept, disk # NoFile, ~stray
               PROVE  AsPromised(Load(disk))
    BY DEF PromiseSurvivesRestart
  <2>1. Load(disk) \in Policy
    BY LoadIsSound DEF Kept, Sound
  <2>2. CASE nested
    BY <2>2 DEF AsPromised
  <2>3. CASE ~nested
    BY <2>1, <2>3, ShownIsDecided DEF Kept
  <2> QED BY <2>2, <2>3
<1> QED BY <1>1, KeptAlways, PTL

-----------------------------------------------------------------------------
(* Edits are narrow. *)

\* ChangedTowards, of the answers before and after.
Towards(o, w, d, n, v) ==
  LET action == IF v = "block" THEN "deny" ELSE "allow" IN
  \/ \E s \in {d, Network}, k \in Key :
       /\ Matches(n, {k}) /\ o.rule[s][k] # w.rule[s][k]
       /\ (w.rule[s][k] = action \/ o.rule[s][k] \in {"allow", "deny"} \ {action})
  \/ \E r \in o.plans \cup w.plans :
       /\ r.device \in {Network, d} /\ MatchesPattern(n, r.domain)
       /\ IF r \in w.plans \ o.plans THEN r.enabled = (r.action = v)
          ELSE r \notin w.plans /\ r.enabled = (r.action # v)

\* The direction of a change of verdict.
Way(old, new) == IF new = "block" \/ old = "allow" THEN "block" ELSE "allow"

\* From policy p to q, no verdict changes but as the answers say.
Narrow(p, q, w) ==
  \A d \in Device, n \in QueryName, t \in Time :
    LET old == Verdict(p, d, n, t)
        new == Verdict(q, d, n, t)
    IN old # new => Towards(Shown(p), w, d, n, Way(old, new))

\* Schedules that agree decide alike, and leave the rest to the rules.
LEMMA SameSchedules ==
  ASSUME NEW p \in Policy, NEW q \in Policy, q.schedules = p.schedules,
         q.emergency = p.emergency, NEW d, NEW n, NEW t,
         Verdict(p, d, n, t) # Verdict(q, d, n, t)
  PROVE  /\ Verdict(p, d, n, t) = ByRules(p, d, n)
         /\ Verdict(q, d, n, t) = ByRules(q, d, n)
BY DEF Verdict

\* Which rules of a scope match, before and after an edit of one of them.
LEMMA EditedMatches ==
  ASSUME NEW p \in Policy, NEW s \in Scope, NEW n \in RuleName,
         NEW action \in {"allow", "deny", "none"}, NEW m
  PROVE  LET q == Edited(p, s, n, action)
             k == Stripped(n) IN
         /\ \A c \in Scope \ {s} : q.allow[c] = p.allow[c] /\ q.deny[c] = p.deny[c]
         /\ ~Matches(m, {k}) => /\ Matches(m, q.allow[s]) <=> Matches(m, p.allow[s])
                                /\ Matches(m, q.deny[s]) <=> Matches(m, p.deny[s])
         /\ Matches(m, q.allow[s]) => Matches(m, p.allow[s]) \/ action = "allow"
         /\ Matches(m, q.deny[s]) => Matches(m, p.deny[s]) \/ action = "deny"
         /\ Matches(m, p.allow[s]) => Matches(m, q.allow[s]) \/ (action # "allow" /\ k \in p.allow[s])
         /\ Matches(m, p.deny[s]) => Matches(m, q.deny[s]) \/ (action # "deny" /\ k \in p.deny[s])
<1> DEFINE q == Edited(p, s, n, action)
           k == Stripped(n)
<1>1. \A c \in Scope \ {s} : q.allow[c] = p.allow[c] /\ q.deny[c] = p.deny[c]
  BY EditedRules
<1>2. /\ action = "allow" => q.allow[s] = p.allow[s] \cup {k} /\ q.deny[s] = p.deny[s] \ {k}
      /\ action = "deny" => q.allow[s] = p.allow[s] \ {k} /\ q.deny[s] = p.deny[s] \cup {k}
      /\ action = "none" => q.allow[s] = p.allow[s] \ {k} /\ q.deny[s] = p.deny[s] \ {k}
  <2>2. ASSUME action = "allow" PROVE q.allow[s] = p.allow[s] \cup {k} /\ q.deny[s] = p.deny[s] \ {k}
    BY <2>2, EditedRules
  <2>3. ASSUME action = "deny" PROVE q.allow[s] = p.allow[s] \ {k} /\ q.deny[s] = p.deny[s] \cup {k}
    BY <2>3, EditedRules
  <2>4. ASSUME action = "none" PROVE q.allow[s] = p.allow[s] \ {k} /\ q.deny[s] = p.deny[s] \ {k}
    BY <2>4, EditedRules
  <2> HIDE DEF q, k
  <2> QED BY <2>2, <2>3, <2>4
<1> HIDE DEF q, k
<1>3. ASSUME NEW a, NEW b, b = a \cup {k}
      PROVE  /\ Matches(m, a) => Matches(m, b)
             /\ Matches(m, b) => Matches(m, a) \/ Matches(m, {k})
  BY <1>3 DEF Matches
<1>4. ASSUME NEW a, NEW b, b = a \ {k}
      PROVE  /\ Matches(m, b) => Matches(m, a)
             /\ Matches(m, a) => Matches(m, b) \/ (k \in a /\ Matches(m, {k}))
  BY <1>4 DEF Matches
<1>5. /\ ~Matches(m, {k}) => /\ Matches(m, q.allow[s]) <=> Matches(m, p.allow[s])
                             /\ Matches(m, q.deny[s]) <=> Matches(m, p.deny[s])
      /\ Matches(m, q.allow[s]) => Matches(m, p.allow[s]) \/ action = "allow"
      /\ Matches(m, q.deny[s]) => Matches(m, p.deny[s]) \/ action = "deny"
      /\ Matches(m, p.allow[s]) => Matches(m, q.allow[s]) \/ (action # "allow" /\ k \in p.allow[s])
      /\ Matches(m, p.deny[s]) => Matches(m, q.deny[s]) \/ (action # "deny" /\ k \in p.deny[s])
  <2>1. CASE action = "allow"
    BY <1>2, <1>3, <1>4, <2>1
  <2>2. CASE action = "deny"
    BY <1>2, <1>3, <1>4, <2>2
  <2>3. CASE action = "none"
    BY <1>2, <1>3, <1>4, <2>3
  <2> QED BY <2>1, <2>2, <2>3
<1> QED BY <1>1, <1>5 DEF q, k

LEMMA RulesAreNarrow ==
  ASSUME NEW p \in Policy, NEW s \in Scope, NEW n \in RuleName,
         NEW action \in {"allow", "deny", "none"}
  PROVE  Narrow(p, Edited(p, s, n, action), [Shown(p) EXCEPT !.rule[s][Stripped(n)] = action])
<1> DEFINE q == Edited(p, s, n, action)
           k == Stripped(n)
           o == Shown(p)
           w == [o EXCEPT !.rule[s][k] = action]
<1>1. /\ k \in Key /\ q \in Policy /\ q.schedules = p.schedules
      /\ q.emergency = p.emergency /\ q.temporary = p.temporary
  BY KeyFacts, EditedRules
<1>2. SUFFICES ASSUME NEW d \in Device, NEW m \in QueryName, NEW t \in Time,
                      Verdict(p, d, m, t) # Verdict(q, d, m, t)
               PROVE  Towards(o, w, d, m, Way(Verdict(p, d, m, t), Verdict(q, d, m, t)))
  BY DEF Narrow
<1> DEFINE v == Way(Verdict(p, d, m, t), Verdict(q, d, m, t))
           act == IF v = "block" THEN "deny" ELSE "allow"
           old == ByRules(p, d, m)
           new == ByRules(q, d, m)
<1>3. old # new /\ v = Way(old, new)
  BY <1>1, <1>2, SameSchedules
<1>4. d \in Scope /\ Network \in Scope /\ d # Network
  BY DeviceAssumption DEF Scope
<1> DEFINE aD(r) == Matches(m, r.allow[d])
           dD(r) == Matches(m, r.deny[d])
           aN(r) == Matches(m, r.allow[Network] \cup r.temporary)
           dN(r) == Matches(m, r.deny[Network])
<1>5. \A r \in {p, q} : ByRules(r, d, m) = IF aD(r) THEN "allow" ELSE IF dD(r) THEN "block"
                                           ELSE IF aN(r) THEN "allow" ELSE IF dN(r) THEN "block"
                                           ELSE "normal"
  BY DEF ByRules
<1>6. \A r \in {p, q} : aN(r) <=> Matches(m, r.allow[Network]) \/ Matches(m, p.temporary)
  BY <1>1 DEF Matches
<1>7. /\ \A c \in Scope \ {s} : q.allow[c] = p.allow[c] /\ q.deny[c] = p.deny[c]
      /\ ~Matches(m, {k}) => /\ Matches(m, q.allow[s]) <=> Matches(m, p.allow[s])
                             /\ Matches(m, q.deny[s]) <=> Matches(m, p.deny[s])
      /\ Matches(m, q.allow[s]) => Matches(m, p.allow[s]) \/ action = "allow"
      /\ Matches(m, q.deny[s]) => Matches(m, p.deny[s]) \/ action = "deny"
      /\ Matches(m, p.allow[s]) => Matches(m, q.allow[s]) \/ (action # "allow" /\ k \in p.allow[s])
      /\ Matches(m, p.deny[s]) => Matches(m, q.deny[s]) \/ (action # "deny" /\ k \in p.deny[s])
  BY EditedMatches
<1>8. /\ o.rule[s][k] = "allow" <=> k \in p.allow[s]
      /\ o.rule[s][k] = "deny" <=> k \in p.deny[s] \ p.allow[s]
      /\ o.rule[s][k] \in {"allow", "deny", "none"}
  BY <1>1, ShownRule
<1>9. w.rule[s][k] = action
  <2>1. o.rule \in [Scope -> [Key -> {o.rule[c][x] : c \in Scope, x \in Key}]] /\ DOMAIN o = {"rule", "plans"}
    BY DEF Shown
  <2> HIDE DEF o, k
  <2> QED BY <1>1, <2>1
<1>10. Matches(m, {k}) /\ k \in p.allow[s] => Matches(m, p.allow[s])
  BY DEF Matches
<1>11. Matches(m, {k}) /\ k \in p.deny[s] => Matches(m, p.deny[s])
  BY DEF Matches
<1>13. /\ action = "allow" => k \in q.allow[s]
       /\ action = "deny" => k \in q.deny[s]
  <2>1. ASSUME action = "allow" PROVE k \in q.allow[s]
    BY <2>1, EditedRules
  <2>2. ASSUME action = "deny" PROVE k \in q.deny[s]
    BY <2>2, EditedRules
  <2> QED BY <2>1, <2>2
<1>14. /\ Matches(m, {k}) /\ action = "allow" => Matches(m, q.allow[s])
       /\ Matches(m, {k}) /\ action = "deny" => Matches(m, q.deny[s])
  BY <1>13 DEF Matches
<1>12. SUFFICES /\ s \in {d, Network} /\ Matches(m, {k}) /\ o.rule[s][k] # w.rule[s][k]
                /\ w.rule[s][k] = act \/ o.rule[s][k] \in {"allow", "deny"} \ {act}
  <2> HIDE DEF o, w, k, v
  <2>1. Towards(o, w, d, m, v)
    BY <1>1 DEF Towards
  <2> QED BY <2>1 DEF v
<1>15. act = (IF new = "block" \/ old = "allow" THEN "deny" ELSE "allow")
  BY <1>3 DEF Way
<1>16. CASE s = d
  <2>1. q.allow[Network] = p.allow[Network] /\ q.deny[Network] = p.deny[Network]
    BY <1>4, <1>7, <1>16
  <2>2. (aN(q) <=> aN(p)) /\ (dN(q) <=> dN(p))
    BY <1>1, <2>1
  <2>3. /\ old = IF Matches(m, p.allow[s]) THEN "allow" ELSE IF Matches(m, p.deny[s]) THEN "block"
                 ELSE IF aN(p) THEN "allow" ELSE IF dN(p) THEN "block" ELSE "normal"
        /\ new = IF Matches(m, q.allow[s]) THEN "allow" ELSE IF Matches(m, q.deny[s]) THEN "block"
                 ELSE IF aN(p) THEN "allow" ELSE IF dN(p) THEN "block" ELSE "normal"
    BY <1>5, <1>16, <2>2
  <2> HIDE DEF q, k, o, w, v, act, old, new, aD, dD, aN, dN
  <2>4. Matches(m, {k})
    BY <1>3, <1>7, <2>3
  <2>5. CASE action = "allow"
    BY <1>3, <1>7, <1>8, <1>9, <1>10, <1>11, <1>14, <1>15, <1>16, <2>3, <2>4, <2>5
  <2>6. CASE action = "deny"
    BY <1>3, <1>7, <1>8, <1>9, <1>10, <1>11, <1>14, <1>15, <1>16, <2>3, <2>4, <2>6
  <2>7. CASE action = "none"
    BY <1>3, <1>7, <1>8, <1>9, <1>10, <1>11, <1>14, <1>15, <1>16, <2>3, <2>4, <2>7
  <2> QED BY <2>5, <2>6, <2>7
<1>17. CASE s = Network
  <2>1. q.allow[d] = p.allow[d] /\ q.deny[d] = p.deny[d]
    BY <1>4, <1>7, <1>17
  <2>2. (aD(q) <=> aD(p)) /\ (dD(q) <=> dD(p))
    BY <2>1
  <2>3. /\ old = IF aD(p) THEN "allow" ELSE IF dD(p) THEN "block"
                 ELSE IF Matches(m, p.allow[s]) \/ Matches(m, p.temporary) THEN "allow"
                 ELSE IF Matches(m, p.deny[s]) THEN "block" ELSE "normal"
        /\ new = IF aD(p) THEN "allow" ELSE IF dD(p) THEN "block"
                 ELSE IF Matches(m, q.allow[s]) \/ Matches(m, p.temporary) THEN "allow"
                 ELSE IF Matches(m, q.deny[s]) THEN "block" ELSE "normal"
    <3> HIDE DEF aD, aN, dD, q
    <3> QED BY <1>5, <1>6, <1>17, <2>2
  <2> HIDE DEF q, k, o, w, v, act, old, new, aD, dD, aN, dN
  <2>4. Matches(m, {k})
    BY <1>3, <1>7, <2>3
  <2>5. CASE action = "allow"
    BY <1>3, <1>7, <1>8, <1>9, <1>10, <1>11, <1>14, <1>15, <1>17, <2>3, <2>4, <2>5
  <2>6. CASE action = "deny"
    BY <1>3, <1>7, <1>8, <1>9, <1>10, <1>11, <1>14, <1>15, <1>17, <2>3, <2>4, <2>6
  <2>7. CASE action = "none"
    BY <1>3, <1>7, <1>8, <1>9, <1>10, <1>11, <1>14, <1>15, <1>17, <2>3, <2>4, <2>7
  <2> QED BY <2>5, <2>6, <2>7
<1>18. CASE s \notin {d, Network}
  <2>1. /\ q.allow[d] = p.allow[d] /\ q.deny[d] = p.deny[d]
        /\ q.allow[Network] = p.allow[Network] /\ q.deny[Network] = p.deny[Network]
    BY <1>4, <1>7, <1>18
  <2>2. old = new
    BY <1>1, <2>1 DEF ByRules
  <2> QED BY <1>3, <2>2
<1> QED BY <1>16, <1>17, <1>18

\* List m is list l but for schedule i of it, which is gone (shift 1) or silent
\* about (d, n) at time t (shift 0).
AllBut(i, shift, l, m, d, n, t) ==
  /\ \A j \in DOMAIN l : j < i => j \in DOMAIN m /\ m[j] = l[j]
  /\ \A j \in DOMAIN l : j > i => j - shift \in DOMAIN m /\ m[j - shift] = l[j]
  /\ \A j \in DOMAIN m :
       \/ j < i /\ j \in DOMAIN l
       \/ j + shift > i /\ j + shift \in DOMAIN l
       \/ ~Decides(m[j], d, n, t)

\* A verdict that differs between such lists was that schedule's.
LEMMA OnlyThatSchedule ==
  ASSUME NEW p \in Policy, NEW q \in Policy,
         q.allow = p.allow, q.deny = p.deny, q.temporary = p.temporary,
         q.emergency = p.emergency,
         NEW i \in DOMAIN p.schedules, NEW shift \in {0, 1}, NEW d, NEW n, NEW t,
         AllBut(i, shift, p.schedules, q.schedules, d, n, t),
         Verdict(p, d, n, t) # Verdict(q, d, n, t)
  PROVE  /\ Decides(p.schedules[i], d, n, t)
         /\ Verdict(p, d, n, t) = p.schedules[i].action
<1> DEFINE l == p.schedules
           m == q.schedules
           D(r) == Decides(r, d, n, t)
<1>1. /\ Listed(p) /\ Listed(q)
      /\ \A j \in DOMAIN l : j \in Nat
      /\ \A j \in DOMAIN m : j \in Nat
  BY SoundIsListed
<1>6. /\ \A j \in DOMAIN l : j < i => j \in DOMAIN m /\ m[j] = l[j]
      /\ \A j \in DOMAIN l : j > i => j - shift \in DOMAIN m /\ m[j - shift] = l[j]
      /\ \A j \in DOMAIN m :
           \/ j < i /\ j \in DOMAIN l
           \/ j + shift > i /\ j + shift \in DOMAIN l
           \/ ~D(m[j])
  BY DEF AllBut
<1>2. ~p.emergency /\ ~q.emergency
  BY DEF Verdict
<1>3. ASSUME NEW j \in DOMAIN m, D(m[j])
      PROVE  \/ j < i /\ j \in DOMAIN l /\ m[j] = l[j]
             \/ j + shift > i /\ j + shift \in DOMAIN l /\ m[j] = l[j + shift]
  <2>1. (j + shift) - shift = j
    BY <1>1
  <2> QED BY <1>3, <1>6, <2>1
<1>4. CASE \A j \in DOMAIN l : ~D(l[j])
  <2>1. \A j \in DOMAIN m : ~D(m[j])
    BY <1>3, <1>4
  <2>2. Verdict(p, d, n, t) = ByRules(p, d, n) /\ Verdict(q, d, n, t) = ByRules(q, d, n)
    BY <1>2, <1>4, <2>1, NoneDecides
  <2> QED BY <2>2 DEF ByRules
<1>5. ASSUME NEW k \in DOMAIN l, D(l[k]), \A j \in DOMAIN l : j < k => ~D(l[j])
      PROVE  D(l[i]) /\ Verdict(p, d, n, t) = l[i].action
  <2>1. Verdict(p, d, n, t) = l[k].action
    BY <1>1, <1>2, <1>5, FirstDecides
  <2>2. k \in Nat /\ i \in Nat
    BY <1>1
  <2>3. CASE k < i
    <3>1. k \in DOMAIN m /\ m[k] = l[k]
      BY <1>6, <2>3
    <3>2. \A j \in DOMAIN m : j < k => ~D(m[j])
      <4>1. SUFFICES ASSUME NEW j \in DOMAIN m, j < k, D(m[j]) PROVE FALSE
        OBVIOUS
      <4>2. ~(j + shift > i)
        BY <1>1, <2>2, <2>3, <4>1
      <4> QED BY <1>3, <1>5, <4>1, <4>2
    <3>4. /\ k \in DOMAIN q.schedules /\ Decides(q.schedules[k], d, n, t)
          /\ \A j \in DOMAIN q.schedules : j < k => ~Decides(q.schedules[j], d, n, t)
      BY <1>5, <3>1, <3>2
    <3>3. Verdict(q, d, n, t) = q.schedules[k].action
      BY <1>1, <1>2, <3>4, FirstDecides
    <3> QED BY <2>1, <3>1, <3>3
  <2>4. CASE k > i
    <3>1. k - shift \in DOMAIN m /\ m[k - shift] = l[k]
      BY <1>6, <2>4
    <3>2. \A j \in DOMAIN m : j < k - shift => ~D(m[j])
      <4>1. SUFFICES ASSUME NEW j \in DOMAIN m, j < k - shift, D(m[j]) PROVE FALSE
        OBVIOUS
      <4>2. (j < i => j < k) /\ j + shift < k
        BY <1>1, <2>2, <2>4, <4>1
      <4> QED BY <1>3, <1>5, <4>1, <4>2
    <3>3. Verdict(q, d, n, t) = m[k - shift].action
      BY <1>1, <1>2, <1>5, <3>1, <3>2, FirstDecides
    <3> QED BY <2>1, <3>1, <3>3
  <2>5. CASE k = i
    BY <1>5, <2>1, <2>5
  <2> QED BY <2>2, <2>3, <2>4, <2>5
<1> QED BY <1>4, <1>5, FirstOrNone

\* A schedule that comes is heard in its own direction ...
LEMMA Comes ==
  ASSUME NEW p, NEW w, NEW r \in Schedule, r \in w.plans, r \notin Shown(p).plans, r.enabled,
         NEW d, NEW n, NEW t, Decides(r, d, n, t), NEW old, NEW new,
         old # new, new = r.action
  PROVE  Towards(Shown(p), w, d, n, Way(old, new))
<1> DEFINE v == Way(old, new)
<1>1. r.action = v
  BY DEF Schedule, Way
<1>2. r.device \in {Network, d} /\ MatchesPattern(n, r.domain)
  BY DEF Decides, IsActiveNow
<1>3. r \in Shown(p).plans \cup w.plans /\ r \in w.plans \ Shown(p).plans /\ r.enabled = (r.action = v)
  BY <1>1 DEF Schedule
<1> HIDE DEF v
<1>4. Towards(Shown(p), w, d, n, v)
  BY <1>2, <1>3 DEF Towards
<1> QED BY <1>4 DEF v

\* ... and one that goes in the other.
LEMMA Goes ==
  ASSUME NEW p, NEW w, NEW r \in Schedule, r \in Shown(p).plans, r \notin w.plans,
         NEW d, NEW n, NEW t, Decides(r, d, n, t), NEW old, NEW new,
         old # new, old = r.action
  PROVE  Towards(Shown(p), w, d, n, Way(old, new))
<1> DEFINE v == Way(old, new)
<1>1. r.action # v
  BY DEF Schedule, Way
<1>2. r.enabled /\ r.device \in {Network, d} /\ MatchesPattern(n, r.domain)
  BY DEF Decides, IsActiveNow
<1>3. r \in Shown(p).plans \cup w.plans /\ r \notin w.plans \ Shown(p).plans
      /\ r.enabled = (r.action # v)
  BY <1>1, <1>2 DEF Schedule
<1> HIDE DEF v
<1>4. Towards(Shown(p), w, d, n, v)
  BY <1>2, <1>3 DEF Towards
<1> QED BY <1>4 DEF v

LEMMA PostIsNarrow ==
  ASSUME NEW p, Sound(p), NEW r \in Schedule, r.enabled,
         \A i \in DOMAIN p.schedules : p.schedules[i].id # r.id
  PROVE  Narrow(p, AddSchedule(p, r), [Shown(p) EXCEPT !.plans = @ \cup {r}])
<1> DEFINE l == p.schedules
           a == Append(l, r)
           q == AddSchedule(p, r)
           w == [Shown(p) EXCEPT !.plans = @ \cup {r}]
<1>1. p \in Policy /\ l \in Seq(Schedule) /\ Len(l) \in Nat /\ DOMAIN l = 1..Len(l)
  BY SoundIsListed DEF Sound
<1>2. q = [p EXCEPT !.schedules = a] /\ q \in Policy
  BY Added DEF Sound
<1>3. /\ a \in Seq(Schedule) /\ Len(a) = Len(l) + 1 /\ DOMAIN a = 1..Len(l) + 1
      /\ \A i \in 1..Len(l) : a[i] = l[i]
      /\ a[Len(l) + 1] = r
  BY <1>1, AppendProperties, LenProperties
<1>4. /\ q.schedules = a /\ q.allow = p.allow /\ q.deny = p.deny
      /\ q.temporary = p.temporary /\ q.emergency = p.emergency
  <2> HIDE DEF a
  <2> QED BY <1>1, <1>2, <1>3, OtherSchedules
<1>5. r \in w.plans /\ r \notin Shown(p).plans
  BY DEF Shown, ToSet
<1> HIDE DEF q, a, w
<1>6. ASSUME NEW d \in Device, NEW n \in QueryName, NEW t \in Time,
             Verdict(p, d, n, t) # Verdict(q, d, n, t)
      PROVE  Decides(r, d, n, t) /\ Verdict(q, d, n, t) = r.action
  <2> DEFINE i == Len(l) + 1
  <2>1. i \in DOMAIN q.schedules /\ q.schedules[i] = r
    BY <1>1, <1>3, <1>4
  <2>2. \A j \in DOMAIN q.schedules :
          /\ j < i => j \in DOMAIN l /\ l[j] = q.schedules[j]
          /\ ~(j > i)
    BY <1>1, <1>3, <1>4
  <2>3. \A j \in DOMAIN l : j < i /\ j \in DOMAIN q.schedules
    BY <1>1, <1>3, <1>4
  <2>4. AllBut(i, 1, q.schedules, p.schedules, d, n, t)
    BY <2>2, <2>3 DEF AllBut
  <2>5. /\ p.allow = q.allow /\ p.deny = q.deny
        /\ p.temporary = q.temporary /\ p.emergency = q.emergency
    BY <1>4
  <2>6. /\ Verdict(q, d, n, t) # Verdict(p, d, n, t) /\ 1 \in {0, 1}
        /\ p \in Policy /\ q \in Policy
    BY <1>1, <1>2, <1>6
  <2> HIDE DEF i, l
  <2>7. /\ Decides(q.schedules[i], d, n, t)
        /\ Verdict(q, d, n, t) = q.schedules[i].action
    BY <2>1, <2>4, <2>5, <2>6, OnlyThatSchedule
  <2> QED BY <2>1, <2>7
<1>7. Narrow(p, q, w)
  BY <1>5, <1>6, Comes DEF Narrow
<1> QED BY <1>7 DEF q, w

LEMMA DeleteIsNarrow ==
  ASSUME NEW p, Sound(p), NEW id
  PROVE  Narrow(p, RemoveSchedule(p, id), [Shown(p) EXCEPT !.plans = {r \in @ : r.id # id}])
<1> DEFINE l == p.schedules
           q == RemoveSchedule(p, id)
           w == [Shown(p) EXCEPT !.plans = {r \in @ : r.id # id}]
<1>1. p \in Policy /\ l \in Seq(Schedule) /\ Len(l) \in Nat /\ DOMAIN l = 1..Len(l)
      /\ \A i \in DOMAIN l : l[i] \in Schedule
  BY SoundIsListed DEF Sound
<1>2. q \in Policy
  BY Removed DEF Sound
<1>3. Without(l, id) \in Seq(Schedule)
  BY <1>1, WithoutIsList
<1>4. /\ q.schedules = Without(l, id) /\ q.allow = p.allow /\ q.deny = p.deny
      /\ q.temporary = p.temporary /\ q.emergency = p.emergency
  BY <1>1, <1>3, OtherSchedules DEF RemoveSchedule
<1>5. w.plans = {r \in ToSet(l) : r.id # id} /\ Shown(p).plans = ToSet(l)
  BY DEF Shown
<1> HIDE DEF q, w
<1>6. ASSUME NEW d \in Device, NEW n \in QueryName, NEW t \in Time,
             Verdict(p, d, n, t) # Verdict(q, d, n, t)
      PROVE  Towards(Shown(p), w, d, n, Way(Verdict(p, d, n, t), Verdict(q, d, n, t)))
  <2>1. PICK i \in DOMAIN l : l[i].id = id
    <3>1. CASE \A j \in DOMAIN l : l[j].id # id
      <4>1. q.schedules = l
        BY <1>4, <3>1 DEF Without
      <4> QED BY <1>4, <1>6, <4>1 DEF Verdict, ByRules
    <3> QED BY <3>1
  <2> DEFINE m == q.schedules
  <2>2. /\ \A j \in DOMAIN m : m[j] = IF j < i THEN l[j] ELSE l[j + 1]
        /\ \A j \in DOMAIN l : j < i => j \in DOMAIN m
        /\ \A j \in DOMAIN l : j > i => j - 1 \in DOMAIN m
        /\ Len(m) = Len(l) - 1 /\ m \in Seq(Schedule)
    BY <1>4, <2>1, WithoutAt
  <2>3. DOMAIN m = 1..Len(l) - 1
    BY <2>2, LenProperties
  <2> HIDE DEF m
  <2>4. \A j \in DOMAIN l : j < i => j \in DOMAIN m /\ m[j] = l[j]
    BY <2>2
  <2>5. ASSUME NEW j \in DOMAIN l, j > i PROVE j - 1 \in DOMAIN m /\ m[j - 1] = l[j]
    <3>1. ~(j - 1 < i) /\ (j - 1) + 1 = j
      BY <1>1, <2>1, <2>5
    <3> QED BY <2>2, <2>5, <3>1
  <2>6. \A j \in DOMAIN m : (j < i /\ j \in DOMAIN l) \/ (j + 1 > i /\ j + 1 \in DOMAIN l)
    BY <1>1, <2>1, <2>3
  <2>7. Decides(l[i], d, n, t) /\ Verdict(p, d, n, t) = l[i].action
    <3>1. AllBut(i, 1, p.schedules, q.schedules, d, n, t)
      BY <2>4, <2>5, <2>6 DEF m, AllBut
    <3> QED BY <1>1, <1>2, <1>4, <1>6, <3>1, OnlyThatSchedule
  <2>8. l[i] \in Shown(p).plans /\ l[i] \notin w.plans
    BY <1>5, <2>1 DEF ToSet
  <2> QED BY <1>1, <1>6, <2>1, <2>7, <2>8, Goes
<1>7. Narrow(p, q, w)
  BY <1>6 DEF Narrow
<1> QED BY <1>7 DEF q, w

LEMMA ToggleIsNarrow ==
  ASSUME NEW p, Sound(p), NEW id, NEW b \in BOOLEAN
  PROVE  Narrow(p, ToggleSchedule(p, id, b),
                [Shown(p) EXCEPT !.plans =
                   {IF r.id = id THEN [r EXCEPT !.enabled = b] ELSE r : r \in @}])
<1> DEFINE l == p.schedules
           q == ToggleSchedule(p, id, b)
           m == q.schedules
           flip(r) == IF r.id = id THEN [r EXCEPT !.enabled = b] ELSE r
           w == [Shown(p) EXCEPT !.plans = {flip(r) : r \in @}]
<1>1. p \in Policy /\ l \in Seq(Schedule) /\ DOMAIN l = 1..Len(l)
      /\ \A i \in DOMAIN l : l[i] \in Schedule /\ i \in Nat
  BY SoundIsListed DEF Sound
<1>2. /\ q \in Policy /\ q = [p EXCEPT !.schedules = m] /\ DOMAIN m = DOMAIN l
      /\ \A i \in DOMAIN l : m[i] = flip(l[i])
  BY Toggled DEF Sound
<1>3. /\ q.allow = p.allow /\ q.deny = p.deny
      /\ q.temporary = p.temporary /\ q.emergency = p.emergency
  <2>1. m \in Seq(Schedule)
    BY <1>2, SoundIsListed
  <2> HIDE DEF m, q
  <2> QED BY <1>1, <1>2, <2>1, OtherSchedules
<1>4. w.plans = {flip(r) : r \in ToSet(l)} /\ Shown(p).plans = ToSet(l)
  BY DEF Shown
<1>5. ToSet(l) = {l[j] : j \in DOMAIN l}
  BY DEF ToSet
<1>6. \A r \in Schedule : /\ flip(r) \in Schedule /\ flip(r).id = r.id
                          /\ r.id # id => flip(r) = r
                          /\ r.id = id => flip(r).enabled = b
                          /\ r.id = id /\ r.enabled = b => flip(r) = r
  BY DEF Schedule
<1> HIDE DEF q, m, w, flip
<1>7. ASSUME NEW d \in Device, NEW n \in QueryName, NEW t \in Time,
             Verdict(p, d, n, t) # Verdict(q, d, n, t)
      PROVE  Towards(Shown(p), w, d, n, Way(Verdict(p, d, n, t), Verdict(q, d, n, t)))
  <2>1. PICK i \in DOMAIN l : l[i].id = id /\ l[i].enabled # b
    <3>1. CASE \A j \in DOMAIN l : l[j].id = id => l[j].enabled = b
      <4>1. \A j \in DOMAIN l : m[j] = l[j]
        BY <1>1, <1>2, <1>6, <3>1
      <4>2. q.schedules = l
        <5>1. Len(m) = Len(l) /\ m \in Seq(Schedule)
          BY <1>1, <1>2, SoundIsListed, LenProperties DEF m
        <5> QED BY <1>1, <4>1, <5>1, SeqEqual DEF m
      <4> QED BY <1>3, <1>7, <4>2 DEF Verdict, ByRules
    <3> QED BY <3>1
  <2>2. \A j \in DOMAIN l : l[j].id = id <=> j = i
    BY <2>1 DEF Sound, UniqueIds
  <2>3. \A j \in DOMAIN l : j # i => m[j] = l[j]
    BY <1>1, <1>2, <1>6, <2>2
  <2>4. m[i] = flip(l[i]) /\ m[i].enabled = b /\ m[i] \in Schedule /\ l[i] \in Schedule
        /\ l[i].enabled \in BOOLEAN
    BY <1>1, <1>2, <1>6, <2>1 DEF Schedule
  <2>5. \A j \in DOMAIN l : j + 0 = j /\ j - 0 = j /\ (j < i \/ j > i \/ j = i)
    BY <1>1
  <2>6. CASE b
    <3>1. ~l[i].enabled
      BY <2>1, <2>4, <2>6
    <3>2. ~Decides(l[i], d, n, t)
      BY <3>1 DEF Decides, IsActiveNow
    <3>3. Decides(m[i], d, n, t) /\ Verdict(q, d, n, t) = m[i].action
      <4>1. AllBut(i, 0, q.schedules, p.schedules, d, n, t)
        BY <1>1, <1>2, <2>3, <2>5, <3>2 DEF m, AllBut
      <4> QED BY <1>1, <1>2, <1>3, <1>7, <4>1, OnlyThatSchedule DEF m
    <3>4. m[i] \in w.plans /\ m[i] \notin Shown(p).plans
      <4>1. m[i] \in w.plans
        BY <1>4, <1>5, <2>4
      <4>2. \A j \in DOMAIN l : m[i] # l[j]
        BY <1>1, <1>6, <2>1, <2>2, <2>4
      <4> QED BY <1>4, <1>5, <4>1, <4>2
    <3> QED BY <1>7, <2>4, <2>6, <3>3, <3>4, Comes
  <2>7. CASE ~b
    <3>1. ~Decides(m[i], d, n, t)
      BY <2>4, <2>7 DEF Decides, IsActiveNow
    <3>2. Decides(l[i], d, n, t) /\ Verdict(p, d, n, t) = l[i].action
      <4>1. AllBut(i, 0, p.schedules, q.schedules, d, n, t)
        BY <1>1, <1>2, <2>3, <2>5, <3>1 DEF m, AllBut
      <4>2. p \in Policy /\ q \in Policy /\ 0 \in {0, 1} /\ i \in DOMAIN p.schedules
        BY <1>1, <1>2
      <4>3. /\ Decides(p.schedules[i], d, n, t)
            /\ Verdict(p, d, n, t) = p.schedules[i].action
        <5> HIDE DEF l
        <5> QED BY <1>3, <1>7, <4>1, <4>2, OnlyThatSchedule
      <4> QED BY <4>3
    <3>3. l[i] \in Shown(p).plans /\ l[i] \notin w.plans
      <4>1. l[i] \in Shown(p).plans
        BY <1>4, <1>5
      <4>2. \A j \in DOMAIN l : flip(l[j]) # l[i]
        BY <1>1, <1>6, <2>1, <2>2, <2>4
      <4> QED BY <1>4, <1>5, <4>1, <4>2
    <3> QED BY <1>7, <2>4, <3>2, <3>3, Goes
  <2> QED BY <2>6, <2>7
<1>8. Narrow(p, q, w)
  BY <1>7 DEF Narrow
<1> QED BY <1>8 DEF q, w, flip

\* An edit changes no verdict, blocked, filtered or exempt, of another device,
\* none about another name, and none against its own direction, at any time of
\* the week.
THEOREM EditsStayNarrow == Spec => EditsAreNarrow
<1> DEFINE AsTold == Narrow(memory, memory', promise')
           Applies == up /\ up' /\ ~nested /\ memory # memory'
           Goal == \A d \in Device, n \in QueryName, t \in Time :
                     LET old == Verdict(memory, d, n, t)
                         new == Verdict(memory', d, n, t)
                     IN old # new =>
                          ChangedTowards(d, n, IF new = "block" \/ old = "allow" THEN "block"
                                               ELSE "allow")
<1>1. ASSUME Kept, [Next]_vars, Applies
      PROVE  Goal
  <2>1. promise = Shown(memory) /\ Sound(memory) /\ memory \in Policy
    BY <1>1 DEF Kept, Sound
  <2>2. Edit
    BY <1>1 DEF Next, vars, Start, FirstStart, Crash, Evaluate, Begin, Look,
                ApplyRules, Tick, Return
  <2>3. ASSUME NEW s \in Scope, NEW n \in RuleName, NEW action \in {"allow", "deny", "none"},
               UpdateRule(s, n, action)
        PROVE  AsTold
    <3>1. memory' = Edited(memory, s, n, action)
          /\ promise' = [Shown(memory) EXCEPT !.rule[s][Stripped(n)] = action]
      BY <1>1, <2>1, <2>3 DEF UpdateRule, Publish, Edited
    <3> QED BY <2>1, <3>1, RulesAreNarrow
  <2>4. ASSUME NEW id \in ScheduleId, NEW plan \in Plan, PostSchedule(id, plan)
        PROVE  AsTold
    <3> DEFINE r == [id |-> id, enabled |-> TRUE, domain |-> plan.domain,
                     action |-> plan.action, days |-> plan.days, start |-> plan.start,
                     end |-> plan.end, device |-> plan.device]
    <3>1. r \in Schedule /\ r.id = id /\ r.enabled
      BY PlanAssumption DEF Schedule
    <3>2. /\ memory' = AddSchedule(memory, r)
          /\ promise' = [Shown(memory) EXCEPT !.plans = @ \cup {r}]
          /\ \A i \in DOMAIN memory.schedules : memory.schedules[i].id # r.id
      BY <1>1, <2>1, <2>4 DEF PostSchedule, Publish
    <3> HIDE DEF r
    <3> QED BY <2>1, <3>1, <3>2, PostIsNarrow
  <2>5. ASSUME NEW id \in ScheduleId, DeleteSchedule(id)
        PROVE  AsTold
    <3>1. /\ memory' = RemoveSchedule(memory, id)
          /\ promise' = [Shown(memory) EXCEPT !.plans = {r \in @ : r.id # id}]
      BY <1>1, <2>1, <2>5 DEF DeleteSchedule, Publish
    <3> QED BY <2>1, <3>1, DeleteIsNarrow
  <2>6. ASSUME NEW id \in ScheduleId, NEW b \in BOOLEAN, PutScheduleToggle(id, b)
        PROVE  AsTold
    <3>1. /\ memory' = ToggleSchedule(memory, id, b)
          /\ promise' = [Shown(memory) EXCEPT !.plans =
                           {IF r.id = id THEN [r EXCEPT !.enabled = b] ELSE r : r \in @}]
      BY <1>1, <2>1, <2>6 DEF PutScheduleToggle, Publish
    <3> QED BY <2>1, <3>1, ToggleIsNarrow
  <2>7. AsTold
    BY <2>2, <2>3, <2>4, <2>5, <2>6 DEF Edit
  <2>8. ASSUME NEW d, NEW n, NEW v, Towards(Shown(memory), promise', d, n, v)
        PROVE  ChangedTowards(d, n, v)
    <3>1. Towards(promise, promise', d, n, v)
      BY <2>1, <2>8
    <3> QED BY <3>1 DEF Towards, ChangedTowards
  <2> QED BY <2>7, <2>8 DEF Narrow, Way
<1>2. Kept /\ [Next]_vars => [Applies => Goal]_vars
  BY <1>1
<1> QED BY <1>2, KeptAlways, PTL DEF Spec, EditsAreNarrow

-----------------------------------------------------------------------------
(* Types. *)

Told == /\ promise \in Promise /\ up \in BOOLEAN /\ stray \in BOOLEAN
        /\ nested \in BOOLEAN /\ edits \in 0..MaxEdits

LEMMA ShownIsPromise ==
  ASSUME NEW p \in Policy
  PROVE  Shown(p) \in Promise
<1>1. ASSUME NEW s \in Scope, NEW k \in Key
      PROVE  (CASE k \in p.allow[s] -> "allow"
                [] k \in p.deny[s] \ p.allow[s] -> "deny"
                [] OTHER -> "none") \in {"allow", "deny", "none"}
  <2>1. CASE k \in p.allow[s]
    BY <2>1
  <2>2. CASE k \in p.deny[s] \ p.allow[s]
    BY <2>2
  <2>3. CASE k \notin p.allow[s] /\ k \notin p.deny[s]
    BY <2>3
  <2> QED BY <2>1, <2>2, <2>3
<1>2. ToSet(p.schedules) \subseteq Schedule
  BY SoundIsListed DEF ToSet
<1> QED BY <1>1, <1>2 DEF Shown, Promise

LEMMA AnswersAreTyped ==
  ASSUME Kept, Told, Edit
  PROVE  Told'
<1>1. promise = [rule |-> promise.rule, plans |-> promise.plans]
      /\ promise.rule \in [Scope -> [Key -> {"allow", "deny", "none"}]]
      /\ promise.plans \subseteq Schedule
  BY DEF Told, Promise
<1>2. ASSUME NEW next, NEW told, Publish(next, told), told \in Promise, nested' \in BOOLEAN
      PROVE  Told'
  <2>1. promise' \in Promise
    BY <1>2 DEF Publish, Told
  <2>2. up' \in BOOLEAN
    BY <1>2 DEF Publish, Told
  <2>3. stray' \in BOOLEAN
    BY <1>2 DEF Publish
  <2>4. edits' \in 0..MaxEdits
    <3>1. edits \in 0..MaxEdits /\ edits < MaxEdits /\ edits' = edits + 1
      BY <1>2 DEF Publish, Told
    <3> QED BY <3>1, EditsAssumption
  <2> QED BY <1>2, <2>1, <2>2, <2>3, <2>4 DEF Told
<1>3. ASSUME NEW s \in Scope, NEW n \in RuleName, NEW action \in {"allow", "deny", "none"},
             UpdateRule(s, n, action)
      PROVE  Told'
  <2> DEFINE told == [promise EXCEPT !.rule[s][Stripped(n)] = action]
  <2>1. Stripped(n) \in Key
    BY KeyFacts
  <2>2. told = [rule |-> [promise.rule EXCEPT ![s][Stripped(n)] = action],
                plans |-> promise.plans]
    <3>1. PICK rule, plans : promise = [rule |-> rule, plans |-> plans]
      BY <1>1
    <3> QED BY <3>1
  <2>3. [promise.rule EXCEPT ![s][Stripped(n)] = action]
          \in [Scope -> [Key -> {"allow", "deny", "none"}]]
    BY <1>1, <2>1
  <2>4. told \in Promise
    BY <1>1, <2>2, <2>3 DEF Promise
  <2>5. nested' \in BOOLEAN /\ \E next : Publish(next, told)
    BY <1>3 DEF UpdateRule, Told
  <2> HIDE DEF told
  <2> QED BY <1>2, <2>4, <2>5
<1>4. ASSUME NEW plans \in SUBSET Schedule, \E next : Publish(next, [promise EXCEPT !.plans = plans]),
             nested' = nested
      PROVE  Told'
  <2>1. [promise EXCEPT !.plans = plans] \in Promise
    BY <1>1 DEF Promise
  <2> QED BY <1>2, <1>4, <2>1 DEF Told
<1>5. ASSUME NEW id \in ScheduleId, NEW plan \in Plan, PostSchedule(id, plan)
      PROVE  Told'
  <2> DEFINE r == [id |-> id, enabled |-> TRUE, domain |-> plan.domain,
                   action |-> plan.action, days |-> plan.days, start |-> plan.start,
                   end |-> plan.end, device |-> plan.device]
  <2>1. r \in Schedule
    BY PlanAssumption DEF Schedule
  <2>2. nested' = nested /\ \E next : Publish(next, [promise EXCEPT !.plans = promise.plans \cup {r}])
    BY <1>5 DEF PostSchedule
  <2> HIDE DEF r
  <2> QED BY <1>1, <1>4, <2>1, <2>2
<1>6. ASSUME NEW id \in ScheduleId, DeleteSchedule(id)
      PROVE  Told'
  <2>1. nested' = nested
        /\ \E next : Publish(next, [promise EXCEPT !.plans = {r \in promise.plans : r.id # id}])
    BY <1>6 DEF DeleteSchedule
  <2> QED BY <1>1, <1>4, <2>1
<1>7. ASSUME NEW id \in ScheduleId, NEW b \in BOOLEAN, PutScheduleToggle(id, b)
      PROVE  Told'
  <2> DEFINE plans == {IF r.id = id THEN [r EXCEPT !.enabled = b] ELSE r : r \in promise.plans}
  <2>1. nested' = nested /\ \E next : Publish(next, [promise EXCEPT !.plans = plans])
    BY <1>7 DEF PutScheduleToggle
  <2>2. \A r \in promise.plans :
          (IF r.id = id THEN [r EXCEPT !.enabled = b] ELSE r) \in Schedule
    BY <1>1 DEF Schedule
  <2>3. plans \subseteq Schedule
    BY <2>2
  <2> HIDE DEF plans
  <2> QED BY <1>4, <2>1, <2>3
<1> QED BY <1>3, <1>5, <1>6, <1>7 DEF Edit

LEMMA ReadingIsTyped ==
  ASSUME Kept, Told, eval \in Evaluation, Evaluate
  PROVE  eval' \in Evaluation
<1>1. memory \in Policy
  BY DEF Kept, Sound
<1>2. NoEvaluation \in Evaluation
  BY DeviceAssumption, NameAssumption, MinutesAssumption DEF NoEvaluation, Evaluation, Time, Week
<1>3. ASSUME NEW d \in Device, NEW n \in QueryName, NEW t \in Time, Begin(d, n, t)
      PROVE  eval' \in Evaluation
  BY <1>3 DEF Begin, Evaluation
<1>4. ASSUME Look PROVE eval' \in Evaluation
  <2> DEFINE r == memory.schedules[eval.next]
  <2>1. r.action \in {"allow", "block", "normal"} /\ eval.next + 1 \in Nat
    BY <1>1, <1>4, SoundIsListed DEF Look, Schedule, Evaluation
  <2>2. \/ eval' = [eval EXCEPT !.pc = "done", !.verdict = r.action]
        \/ eval' = [eval EXCEPT !.next = eval.next + 1]
    BY <1>4 DEF Look
  <2> HIDE DEF r
  <2> QED BY <2>1, <2>2 DEF Evaluation
<1>5. ASSUME ApplyRules PROVE eval' \in Evaluation
  <2>1. ByRules(memory, eval.device, eval.name) \in {"allow", "block", "normal"}
    BY DEF ByRules
  <2> QED BY <1>5, <2>1 DEF ApplyRules, Evaluation
<1>6. ASSUME Tick PROVE eval' \in Evaluation
  <2>1. eval.now \in Time
    BY DEF Evaluation
  <2>2. (eval.now + 1) % Week \in Time
    BY <2>1, MinutesAssumption DEF Time, Week
  <2> QED BY <1>6, <2>2 DEF Tick, Evaluation
<1> QED BY <1>2, <1>3, <1>4, <1>5, <1>6 DEF Evaluate, Return

\* Type correctness.
THEOREM TypeCorrect == Spec => []TypeOK
<1> DEFINE Typed == Told /\ eval \in Evaluation
<1>1. NoEvaluation \in Evaluation
  BY DeviceAssumption, NameAssumption, MinutesAssumption DEF NoEvaluation, Evaluation, Time, Week
<1>2. Init => Typed
  <2> SUFFICES ASSUME Init PROVE Told
    BY <1>1 DEF Init
  <2> DEFINE p == IF disk = NoFile THEN New ELSE Load(disk)
  <2>1. p \in Policy
    BY BeginningsAreSound, LoadIsSound DEF Init, Sound
  <2> HIDE DEF p
  <2>2. promise = Shown(p)
    BY DEF Init, p
  <2>3. promise \in Promise
    BY <2>1, <2>2, ShownIsPromise
  <2>4. edits \in 0..MaxEdits
    BY EditsAssumption DEF Init
  <2> QED BY <2>3, <2>4 DEF Init, Told
<1>3. Typed /\ Kept /\ [Next]_vars => Typed'
  <2> SUFFICES ASSUME Typed, Kept, [Next]_vars
               PROVE  Typed'
    OBVIOUS
  <2>1. CASE Start
    <3>1. Load(disk) \in Policy
      BY <2>1, LoadIsSound DEF Start, Kept, Sound
    <3>2. promise' \in Promise
      BY <2>1, <3>1, ShownIsPromise DEF Start, Told
    <3> QED BY <2>1, <3>2 DEF Start, Told
  <2>2. CASE FirstStart
    <3>1. Migrated \in Policy /\ New \in Policy
      BY BeginningsAreSound DEF Sound
    <3>2. promise' \in Promise
      BY <2>2, <3>1, ShownIsPromise DEF FirstStart
    <3> QED BY <2>2, <3>2 DEF FirstStart, Told
  <2>3. CASE Crash
    BY <1>1, <2>3 DEF Crash, Told
  <2>4. CASE Edit
    <3>1. eval' = eval
      BY <2>4 DEF Edit, UpdateRule, PostSchedule, DeleteSchedule, PutScheduleToggle, Publish
    <3> QED BY <2>4, <3>1, AnswersAreTyped
  <2>5. CASE Evaluate
    <3>1. Told'
      BY <2>5 DEF Evaluate, Begin, Look, ApplyRules, Tick, Return, Told
    <3> QED BY <2>5, <3>1, ReadingIsTyped
  <2>6. CASE UNCHANGED vars
    BY <2>6 DEF vars, Told
  <2> QED BY <2>1, <2>2, <2>3, <2>4, <2>5, <2>6 DEF Next
<1>4. Typed /\ Kept => TypeOK
  BY DEF Told, Kept, Sound, TypeOK
<1> HIDE DEF Typed
<1> QED BY <1>2, <1>3, <1>4, KeptAlways, PTL DEF Spec
=============================================================================
