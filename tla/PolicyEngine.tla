---------------------------- MODULE PolicyEngine ----------------------------
(***************************************************************************)
(* PolicyEngine (crates/policy/src/lib.rs) with the handlers that edit it  *)
(* (crates/daemon/src/web.rs) and its start (crates/daemon/src/main.rs).   *)
(*                                                                         *)
(* A name is the sequence of its labels.  Time is the minute of the week.  *)
(* An edit holds the write lock from reading the rules to publishing them, *)
(* saving included, and is one step.  An evaluation holds the read lock,   *)
(* so no edit interrupts it; but it reads the clock again for every        *)
(* schedule it looks at, and the minute may change in between.             *)
(***************************************************************************)
EXTENDS Integers, Sequences, SequencesExt, FiniteSetsExt

CONSTANTS
  RuleName,     \* canonical names that requests name
  QueryName,    \* canonical names that are evaluated
  Device,       \* IP addresses of devices
  Network,      \* stands for "no device" in a rule
  ScheduleId,
  Plan,         \* schedules a request may ask for, without their id
  Minutes,      \* minutes in a day: 1440 in the code
  FirstFile,    \* what policy.json may hold before the first step, or NoFile
  NoFile,
  LegacyAllow,  \* the rules of the legacy SQL table
  LegacyDeny,
  MaxEdits      \* bound: dashboard edits in a behaviour; no evaluation
                \* begins after the last

Scope == Device \cup {Network}
Days == 0..6
Week == 7 * Minutes
Time == 0..Week - 1

ASSUME NameAssumption ==
  /\ RuleName \subseteq Seq(STRING) \ {<<>>}
  /\ QueryName \subseteq Seq(STRING) \ {<<>>} /\ QueryName # {}
  /\ LegacyAllow \subseteq RuleName /\ LegacyDeny \subseteq RuleName
ASSUME DeviceAssumption == Network \notin Device /\ Device # {}
ASSUME MinutesAssumption == Minutes \in Nat \ {0}
ASSUME PlanAssumption ==
  Plan \subseteq [domain : RuleName, action : {"block", "allow"},
                  days : SUBSET Days, start : 0..Minutes - 1,
                  end : 0..Minutes - 1, device : Scope]
ASSUME EditsAssumption == MaxEdits \in Nat

-----------------------------------------------------------------------------
(* Names. *)

\* One leading "www." goes, as in allow, deny, remove and matches_pattern.
Stripped(n) == IF Len(n) > 1 /\ n[1] = "www" THEN Tail(n) ELSE n

\* trim_start_matches: all of them go.
Bare(n) == LET first == Min({i \in DOMAIN n : n[i] # "www" \/ i = Len(n)})
           IN SubSeq(n, first, Len(n))

\* iter_subdomains: the name and every parent of it.
Subdomains(n) == {SubSeq(n, i, Len(n)) : i \in DOMAIN n}

Matches(n, set) == \E sub \in Subdomains(n) : sub \in set \/ <<"*">> \o sub \in set

MatchesPattern(n, pattern) ==
  LET p == Stripped(pattern)
      base == IF Len(p) > 1 /\ p[1] = "*" THEN Tail(p) ELSE p
  IN base \in Subdomains(n)

-----------------------------------------------------------------------------
(* Schedules. *)

\* Seeded defect: the hours after midnight belong to the day they are on.
ActiveAtSameDay(r, day, now) ==
  IF r.start <= r.end
  THEN day \in r.days /\ (r.start = r.end \/ now \in r.start..r.end - 1)
  ELSE day \in r.days /\ (now >= r.start \/ now < r.end)

\* active_at.  Times out of range cannot be entered.
ActiveAt(r, day, now) ==
  \/ r.start = r.end /\ day \in r.days
  \/ r.start < r.end /\ day \in r.days /\ now >= r.start /\ now < r.end
  \/ r.start > r.end /\ now >= r.start /\ day \in r.days
  \/ r.start > r.end /\ now < r.start /\ now < r.end /\ (day + 6) % 7 \in r.days

\* is_active_now for the request of a device at time t.
IsActiveNow(r, device, t) ==
  /\ r.enabled
  /\ r.device \in {Network, device}
  /\ ActiveAt(r, t \div Minutes, t % Minutes)

\* The schedule decides about name n.
Decides(r, device, n, t) ==
  IsActiveNow(r, device, t) /\ MatchesPattern(n, r.domain)

-----------------------------------------------------------------------------
(* The rules: PolicyEngine.  Rules of the network and of devices are kept   *)
(* by scope; a device without an entry is one with empty sets.              *)

Schedule == [id : ScheduleId, enabled : BOOLEAN, domain : RuleName,
             action : {"block", "allow"}, days : SUBSET Days,
             start : 0..Minutes - 1, end : 0..Minutes - 1, device : Scope]

Key == {Stripped(n) : n \in RuleName} \cup {Bare(n) : n \in RuleName}

Policy == [allow : [Scope -> SUBSET Key], deny : [Scope -> SUBSET Key],
           temporary : SUBSET Key, schedules : Seq(Schedule),
           emergency : BOOLEAN]

New == [allow |-> [s \in Scope |-> {}], deny |-> [s \in Scope |-> {}],
        temporary |-> {}, schedules |-> <<>>, emergency |-> FALSE]

\* load_or_default normalises what the file holds.
Load(file) ==
  LET normalize(set) == {Bare(n) : n \in set} IN
  [file EXCEPT !.allow = [s \in Scope |-> normalize(@[s])],
               !.deny = [s \in Scope |-> normalize(@[s])],
               !.temporary = normalize(@)]

Allow(p, s, n) == [p EXCEPT !.allow[s] = @ \cup {Stripped(n)},
                            !.deny[s] = @ \ {Stripped(n)}]

Deny(p, s, n) == [p EXCEPT !.deny[s] = @ \cup {Stripped(n)},
                           !.allow[s] = @ \ {Stripped(n)}]

RemoveRule(p, s, n) == [p EXCEPT !.allow[s] = @ \ {Stripped(n)},
                                 !.deny[s] = @ \ {Stripped(n)}]

\* Ids are unique, so retain drops one schedule at most.
Without(schedules, id) ==
  IF \E i \in DOMAIN schedules : schedules[i].id = id
  THEN RemoveAt(schedules, CHOOSE i \in DOMAIN schedules : schedules[i].id = id)
  ELSE schedules

AddSchedule(p, r) ==
  [p EXCEPT !.schedules = Append(Without(@, r.id), r)]

RemoveSchedule(p, id) == [p EXCEPT !.schedules = Without(@, id)]

\* Seeded defect: the toggled schedule is added again, at the end.
ToggleScheduleMoves(p, id, enabled) ==
  IF \E r \in ToSet(p.schedules) : r.id = id
  THEN AddSchedule(p, [(CHOOSE r \in ToSet(p.schedules) : r.id = id)
                         EXCEPT !.enabled = enabled])
  ELSE p

ToggleSchedule(p, id, enabled) ==
  [p EXCEPT !.schedules =
     [i \in DOMAIN @ |->
        IF @[i].id = id THEN [@[i] EXCEPT !.enabled = enabled] ELSE @[i]]]

\* What no schedule decides: the rules of the device, then those of the network.
ByRules(p, device, n) ==
  IF Matches(n, p.allow[device]) THEN "allow"
  ELSE IF Matches(n, p.deny[device]) THEN "block"
  ELSE IF Matches(n, p.allow[Network] \cup p.temporary) THEN "allow"
  ELSE IF Matches(n, p.deny[Network]) THEN "block"
  ELSE "normal"

\* evaluate_without_typosquatting, were the clock to stand still at t.
Verdict(p, device, n, t) ==
  LET deciding == {i \in DOMAIN p.schedules : Decides(p.schedules[i], device, n, t)}
  IN IF p.emergency THEN "allow"
     ELSE IF deciding # {} THEN p.schedules[Min(deciding)].action
     ELSE ByRules(p, device, n)

\* add_schedule drops what has the id of the schedule it adds.
UniqueIds(p) ==
  \A i, j \in DOMAIN p.schedules : p.schedules[i].id = p.schedules[j].id => i = j

ASSUME FileAssumption ==
  /\ NoFile \notin Policy /\ FirstFile \subseteq Policy \cup {NoFile}
  /\ \A p \in FirstFile \ {NoFile} : UniqueIds(p)

-----------------------------------------------------------------------------
VARIABLES
  memory,       \* the engine in memory
  disk,         \* policy.json
  up,           \* the daemon runs
  eval,         \* an evaluation under the read lock
  promise,      \* history: the rules and schedules the answers speak of
  stray,        \* history: the last save failed after the rename
  nested,       \* history: a rule was made for a name below two "www."
  edits         \* number of edits so far

vars == <<memory, disk, up, eval, promise, stray, nested, edits>>

Evaluation ==
  [pc : {"idle", "walk", "done"}, device : Device, name : QueryName,
   from : Time, now : Time, next : Nat,
   verdict : {"allow", "block", "normal"}]

NoEvaluation ==
  [pc |-> "idle", device |-> CHOOSE d \in Device : TRUE,
   name |-> CHOOSE n \in QueryName : TRUE, from |-> 0, now |-> 0, next |-> 1,
   verdict |-> "normal"]

Promise == [rule : [Scope -> [Key -> {"allow", "deny", "none"}]],
            plans : SUBSET Schedule]

\* What the dashboard shows of policy p.
Shown(p) ==
  [rule |-> [s \in Scope |-> [k \in Key |->
               CASE k \in p.allow[s] -> "allow"
                 [] k \in p.deny[s] \ p.allow[s] -> "deny"
                 [] OTHER -> "none"]],
   plans |-> ToSet(p.schedules)]

TypeOK ==
  /\ memory \in Policy
  /\ disk \in Policy \cup {NoFile}
  /\ up \in BOOLEAN /\ stray \in BOOLEAN /\ nested \in BOOLEAN
  /\ eval \in Evaluation
  /\ promise \in Promise
  /\ edits \in 0..MaxEdits

Init ==
  /\ memory = New
  /\ disk \in FirstFile
  /\ up = FALSE
  /\ eval = NoEvaluation
  /\ promise = Shown(IF disk = NoFile THEN New ELSE Load(disk))
  /\ stray = FALSE /\ nested = FALSE
  /\ edits = 0

-----------------------------------------------------------------------------
(* Start and end of the process. *)

\* Rules of the legacy table, the denied ones last.
Migrated ==
  LET denied == {Stripped(n) : n \in LegacyDeny} IN
  [New EXCEPT !.allow[Network] = {Stripped(n) : n \in LegacyAllow} \ denied,
              !.deny[Network] = denied]

Start ==
  /\ ~up /\ disk # NoFile
  /\ memory' = Load(disk)
  /\ up' = TRUE /\ stray' = FALSE
  /\ promise' = IF stray THEN Shown(memory') ELSE promise
  /\ UNCHANGED <<disk, eval, nested, edits>>

\* No file yet: the legacy rules, unless reading them fails, are saved.  The
\* process ends if saving fails, which it may after the file is in place.
FirstStart ==
  /\ ~up /\ disk = NoFile
  /\ \E p \in {Migrated, New} :
       /\ disk' = p
       /\ promise' = Shown(p)
       /\ nested' = (nested \/ Load(p) # p)
       /\ \/ up' = TRUE /\ memory' = p
          \/ UNCHANGED <<up, memory>>
  /\ UNCHANGED <<eval, stray, edits>>

Crash ==
  /\ up
  /\ up' = FALSE /\ memory' = New /\ eval' = NoEvaluation
  /\ UNCHANGED <<disk, promise, stray, nested, edits>>

-----------------------------------------------------------------------------
(* Edits: update_rule, post_schedule, delete_schedule, put_schedule_toggle. *)

\* Seeded defect: the rules are published whether or not they were saved.
PublishUnsaved(next, told) ==
  /\ up /\ eval.pc = "idle" /\ edits < MaxEdits
  /\ memory' = next /\ promise' = told /\ stray' = FALSE
  /\ disk' \in {disk, next}
  /\ edits' = edits + 1
  /\ UNCHANGED <<up, eval>>

\* Save the edited copy, then publish it.  A save that fails before the rename
\* changes nothing; one that fails after it, or a crash before the publication,
\* leaves the edit in the file only.
Publish(next, told) ==
  /\ up /\ eval.pc = "idle" /\ edits < MaxEdits
  /\ disk' = next
  /\ \/ memory' = next /\ promise' = told /\ stray' = FALSE
     \/ UNCHANGED <<memory, promise>> /\ stray' = TRUE
  /\ edits' = edits + 1
  /\ UNCHANGED <<up, eval>>

UpdateRule(s, n, action) ==
  LET next == CASE action = "allow" -> Allow(memory, s, n)
                [] action = "deny" -> Deny(memory, s, n)
                [] action = "none" -> RemoveRule(memory, s, n)
  IN /\ Publish(next, [promise EXCEPT !.rule[s][Stripped(n)] = action])
     /\ nested' = (nested \/ Bare(n) # Stripped(n))

\* Ids are times in nanoseconds: no two schedules get the same one.
PostSchedule(id, plan) ==
  LET r == [id |-> id, enabled |-> TRUE, domain |-> plan.domain,
            action |-> plan.action, days |-> plan.days, start |-> plan.start,
            end |-> plan.end, device |-> plan.device] IN
  /\ \A i \in DOMAIN memory.schedules : memory.schedules[i].id # id
  /\ Publish(AddSchedule(memory, r), [promise EXCEPT !.plans = @ \cup {r}])
  /\ UNCHANGED nested

DeleteSchedule(id) ==
  /\ Publish(RemoveSchedule(memory, id),
             [promise EXCEPT !.plans = {r \in @ : r.id # id}])
  /\ UNCHANGED nested

PutScheduleToggle(id, enabled) ==
  /\ Publish(ToggleSchedule(memory, id, enabled),
             [promise EXCEPT !.plans =
               {IF r.id = id THEN [r EXCEPT !.enabled = enabled] ELSE r : r \in @}])
  /\ UNCHANGED nested

-----------------------------------------------------------------------------
(* An evaluation for a query of a device at time t. *)

Begin(device, n, t) ==
  /\ up /\ eval.pc = "idle" /\ edits < MaxEdits
  /\ eval' = [pc |-> IF memory.emergency THEN "done" ELSE "walk",
              device |-> device, name |-> n, from |-> t, now |-> t, next |-> 1,
              verdict |-> IF memory.emergency THEN "allow" ELSE "normal"]
  /\ UNCHANGED <<memory, disk, up, promise, stray, nested, edits>>

Look ==
  /\ eval.pc = "walk" /\ eval.next \in DOMAIN memory.schedules
  /\ LET r == memory.schedules[eval.next] IN
     eval' = IF Decides(r, eval.device, eval.name, eval.now)
             THEN [eval EXCEPT !.pc = "done", !.verdict = r.action]
             ELSE [eval EXCEPT !.next = @ + 1]
  /\ UNCHANGED <<memory, disk, up, promise, stray, nested, edits>>

\* Seeded defect: the last schedule is not looked at.
ApplyRulesEarly ==
  /\ eval.pc = "walk" /\ eval.next + 1 \notin DOMAIN memory.schedules
  /\ eval' = [eval EXCEPT !.pc = "done",
                          !.verdict = ByRules(memory, eval.device, eval.name)]
  /\ UNCHANGED <<memory, disk, up, promise, stray, nested, edits>>

ApplyRules ==
  /\ eval.pc = "walk" /\ eval.next \notin DOMAIN memory.schedules
  /\ eval' = [eval EXCEPT !.pc = "done",
                          !.verdict = ByRules(memory, eval.device, eval.name)]
  /\ UNCHANGED <<memory, disk, up, promise, stray, nested, edits>>

\* An evaluation takes microseconds: at most one minute begins meanwhile.
Tick ==
  /\ eval.pc = "walk" /\ eval.now = eval.from
  /\ eval' = [eval EXCEPT !.now = (@ + 1) % Week]
  /\ UNCHANGED <<memory, disk, up, promise, stray, nested, edits>>

\* The verdict is returned and the lock given up.
Return ==
  /\ eval.pc = "done"
  /\ eval' = NoEvaluation
  /\ UNCHANGED <<memory, disk, up, promise, stray, nested, edits>>

-----------------------------------------------------------------------------
Edit ==
  \/ \E s \in Scope, n \in RuleName, action \in {"allow", "deny", "none"} :
       UpdateRule(s, n, action)
  \/ \E id \in ScheduleId, plan \in Plan : PostSchedule(id, plan)
  \/ \E id \in ScheduleId : DeleteSchedule(id)
  \/ \E id \in ScheduleId, enabled \in BOOLEAN : PutScheduleToggle(id, enabled)

Evaluate ==
  \/ \E d \in Device, n \in QueryName, t \in Time : Begin(d, n, t)
  \/ Look \/ ApplyRules \/ Tick \/ Return

Next == Start \/ FirstStart \/ Crash \/ Edit \/ Evaluate

Spec == Init /\ [][Next]_vars

-----------------------------------------------------------------------------
(* What the dashboard tells its user. *)

\* "Overnight schedules belong to their starting day.  Equal start and end
\* times mean all day."  (ui/src/pages/Controls.tsx)
InWindow(r, t) ==
  LET opens == IF r.start = r.end THEN 0 ELSE r.start
      length == IF r.start = r.end THEN Minutes ELSE (r.end - r.start) % Minutes
  IN \E day \in r.days : (t - (day * Minutes + opens)) % Week < length

\* The verdicts that agree with what was promised: "Active schedules take
\* precedence.  A device rule takes precedence over a network rule; explicit
\* allow rules bypass content filtering."  (ui/src/pages/Controls.tsx)
Promised(device, n, t) ==
  LET active == {r \in promise.plans :
                   /\ r.enabled /\ r.device \in {Network, device}
                   /\ MatchesPattern(n, r.domain) /\ InWindow(r, t)}
      said(s) == {promise.rule[s][k] : k \in {k \in Key : Matches(n, {k})}}
      by(s) == IF "allow" \in said(s) THEN "allow" ELSE "block"
      ruling == {s \in Scope : said(s) \cap {"allow", "deny"} # {}}
  IN IF active # {} THEN {r.action : r \in active}
     ELSE IF device \in ruling THEN {by(device)}
     ELSE IF Network \in ruling THEN {by(Network)}
     ELSE {"normal"}

AsPromised(p) ==
  p.emergency \/ p.temporary # {} \/ nested \/
    \A d \in Device, n \in QueryName, t \in Time :
      Verdict(p, d, n, t) \in Promised(d, n, t)

\* At every time of the week, every device gets for every name what the answers
\* to all edits so far, taken together, say it gets: schedules by the days they
\* start on, device rules before network rules, whatever spelling a rule was
\* given and however often the daemon restarted.  Left out are emergency mode,
\* temporary rules, and rules for names below two "www.", which change their
\* meaning at a restart (Load strips more than Allow and Deny do).
VerdictAsPromised == up /\ eval.pc = "idle" => AsPromised(memory)

\* The same is true of what a restart would load, unless the last save failed
\* after its file was in place.
PromiseSurvivesRestart ==
  eval.pc = "idle" /\ disk # NoFile /\ ~stray => AsPromised(Load(disk))

\* Schedules whose state changes at the minute that began during an evaluation.
Starts(i) == /\ Decides(memory.schedules[i], eval.device, eval.name, eval.now)
             /\ ~Decides(memory.schedules[i], eval.device, eval.name, eval.from)
Changes(i) == ~(Decides(memory.schedules[i], eval.device, eval.name, eval.now)
                <=> Decides(memory.schedules[i], eval.device, eval.name, eval.from))

\* A verdict is the one that was right at the moment the evaluation began or
\* ended, although every schedule was judged by a clock reading of its own;
\* except when at that very minute a schedule starts that was passed already,
\* and one further down the list starts or ends.
VerdictOfSomeMoment ==
  eval.pc = "done" =>
    \/ \E t \in {eval.from, eval.now} :
         eval.verdict = Verdict(memory, eval.device, eval.name, t)
    \/ \E i, j \in DOMAIN memory.schedules : i < j /\ Starts(i) /\ Changes(j)

\* What promise says about (d, n) changed towards verdict v.
ChangedTowards(d, n, v) ==
  LET action == IF v = "block" THEN "deny" ELSE "allow" IN
  \/ \E s \in {d, Network}, k \in Key :
       /\ Matches(n, {k}) /\ promise.rule[s][k] # promise'.rule[s][k]
       /\ (promise'.rule[s][k] = action \/ promise.rule[s][k] \in {"allow", "deny"} \ {action})
  \/ \E r \in promise.plans \cup promise'.plans :
       /\ r.device \in {Network, d} /\ MatchesPattern(n, r.domain)
       /\ IF r \in promise'.plans \ promise.plans THEN r.enabled = (r.action = v)
          ELSE r \notin promise'.plans /\ r.enabled = (r.action # v)

\* An edit changes no verdict of another device, none about another name, and
\* none against its own direction, at any time of the week and whatever else is
\* configured: an allow rule or schedule neither blocks a name nor filters one
\* that was exempt, and what denies or blocks neither opens nor exempts one.
\* Blocked, filtered as usual and exempt are three verdicts; a change from any
\* of them to any other follows from the edit.
EditsAreNarrow ==
  [][up /\ up' /\ ~nested /\ memory # memory' =>
      \A d \in Device, n \in QueryName, t \in Time :
        LET old == Verdict(memory, d, n, t)
            new == Verdict(memory', d, n, t)
        IN old # new =>
             ChangedTowards(d, n, IF new = "block" \/ old = "allow" THEN "block"
                                  ELSE "allow")]_vars
=============================================================================
