------------------------- MODULE QueryPipelineProofs -------------------------
(***************************************************************************)
(* Proofs that every query is judged by facts that were true while it ran, *)
(* for any number of queries, clients, names and changes of the stores     *)
(* (QueryPipeline).                                                        *)
(*                                                                         *)
(* What held always shrinks and what held ever grows, so whatever has been *)
(* concluded about a query from them stays true (Lasting); what holds now  *)
(* lies between the two (Witnessed), so each reading of a store tells      *)
(* something about them. Judged says what is concluded at each await.      *)
(***************************************************************************)
EXTENDS QueryPipeline, TLAPS

History == [always : SUBSET (Domain \X Fact), ever : SUBSET (Domain \X Fact)]

BlockAlways(s, d) == \E f \in BlockFact : <<d, f>> \in s.always
LiftAlways(s, d) == \E g \in LiftFact : <<d, g>> \in s.always
LiftEver(s, d) == \E g \in LiftFact : <<d, g>> \in s.ever

Internal(r) == r.answer.internal /\ r.dom \notin Local

(* The profile that decision() read bounds what can have held always.      *)
ProfileRead(r, s) ==
  /\ r.prof = "bypass" => \A d \in Domain : <<d, "bypass">> \in s.ever
  /\ \A d \in Domain : <<d, "bypass">> \in s.always => r.prof = "bypass"
  /\ \A d \in Domain :
       <<d, "risk">> \in s.always => r.prof = "strict" /\ d \in HighRisk

(* The policy neither lifts nor blocks; the budget is not spent.           *)
PolicyPassed(r, s) ==
  /\ ~LiftAlways(s, r.target)
  /\ <<r.target, "deny">> \notin s.always /\ <<r.target, "typo">> \notin s.always
BudgetPassed(r, s) == <<r.target, "budget">> \notin s.always

(* decision() is under way, for the query or for an alias.                 *)
Deciding(r, s) ==
  /\ r.pc # "profile" => ProfileRead(r, s)
  /\ r.pc \in {"budget", "list"} => PolicyPassed(r, s)
  /\ r.pc = "list" => BudgetPassed(r, s)
  /\ r.stage = "query" =>
       /\ r.target = r.dom /\ r.blocked = r.limited
       /\ ~r.bypass /\ ~r.unsafe

(* What the decision about the query means.                                *)
Decided(r, s) ==
  /\ r.bypass => LiftEver(s, r.dom)
  /\ LiftAlways(s, r.dom) => r.bypass
  /\ r.blocked /\ r.bypass => r.limited
  /\ ~r.blocked /\ ~r.bypass => ~BlockAlways(s, r.dom)

(* An answer is being inspected, alias by alias.                           *)
Inspecting(r, s) ==
  /\ r.todo \subseteq r.answer.aliases
  /\ r.stage = "alias" => ~r.bypass /\ r.target \in r.answer.aliases
  /\ Internal(r) => r.unsafe
  /\ r.bypass /\ r.unsafe => Internal(r)
  /\ \A d \in r.answer.aliases \ r.todo :
       \/ r.unsafe \/ ~BlockAlways(s, d) \/ LiftEver(s, d)
       \/ r.pc \in Decision /\ d = r.target

Enforced(r, s) ==
  r.response \in {"action", "safe", "upstream"} =>
    \A d \in {r.dom} \cup (IF r.response = "upstream" THEN r.answer.aliases ELSE {}) :
      BlockAlways(s, d) => LiftEver(s, r.dom) \/ LiftEver(s, d)

Honoured(r, s) ==
  r.response = "nxdomain" /\ LiftAlways(s, r.dom) => r.limited \/ Internal(r)

Rebound(r) == r.response = "upstream" /\ Internal(r)

(* Of a query whose locals are r, with the history s.                      *)
OnAlias(r) == r.pc \in Decision /\ r.stage = "alias"

Judged(r, s) ==
  /\ r.pc \in Decision => Deciding(r, s)
  /\ r.pc \in {"respond", "exchange"} => r.stage = "query"
  /\ r.pc \in {"respond", "exchange", "inspect"} \/ OnAlias(r) => Decided(r, s)
  /\ r.pc \in {"exchange", "inspect"} \/ OnAlias(r) => ~r.blocked
  /\ r.pc = "inspect" \/ OnAlias(r) => Inspecting(r, s)
  /\ r.pc \notin {"record", "done", "dropped"} => r.response = "none"
  /\ r.pc \in {"record", "done"} =>
       r.response # "none" /\ (r.blocked <=> r.response = "nxdomain")
  /\ Enforced(r, s) /\ Honoured(r, s) /\ ~Rebound(r)

(* What holds now is between what held always and what held ever.          *)
Witnessed(i) ==
  Active(i) => /\ seen[i].always \subseteq Facts(q[i].client)
               /\ Facts(q[i].client) \subseteq seen[i].ever

Told(i) ==
  At(i, "done") =>
    log[i] = IF q[i].response = "servfail" THEN "failure"
             ELSE IF q[i].blocked THEN "blocked" ELSE "allowed"

PipelineInv ==
  /\ TypeOK
  /\ \A i \in Query : Judged(q[i], seen[i]) /\ Witnessed(i) /\ Told(i)

-----------------------------------------------------------------------------
LEMMA FactHolds ==
  ASSUME NEW c, NEW d \in Domain, NEW f \in Fact
  PROVE  <<d, f>> \in Facts(c) <=> Holds(c, d, f)
BY DEF Facts

LEMMA FactNames ==
  /\ BlockFact = {"deny", "typo", "budget", "list", "risk"}
  /\ LiftFact = {"allow", "emergency", "bypass"}
  /\ Fact = {"deny", "typo", "budget", "list", "risk", "allow", "emergency", "bypass"}
BY DEF BlockFact, LiftFact, Fact

LEMMA WhatHolds ==
  ASSUME NEW c, NEW d \in Domain
  PROVE  /\ <<d, "deny">> \in Facts(c) <=> rule[c][d] = "block"
         /\ <<d, "allow">> \in Facts(c) <=> rule[c][d] = "allow"
         /\ <<d, "typo">> \in Facts(c) <=> d \in Typo
         /\ <<d, "budget">> \in Facts(c) <=> c \in overBudget /\ d \in Tracking
         /\ <<d, "list">> \in Facts(c) <=> d \in listed
         /\ <<d, "risk">> \in Facts(c) <=> profile[c] = "strict" /\ d \in HighRisk
         /\ <<d, "emergency">> \in Facts(c) <=> emergency
         /\ <<d, "bypass">> \in Facts(c) <=> profile[c] = "bypass"
<1>1. /\ Holds(c, d, "deny") <=> rule[c][d] = "block"
      /\ Holds(c, d, "allow") <=> rule[c][d] = "allow"
      /\ Holds(c, d, "typo") <=> d \in Typo
      /\ Holds(c, d, "budget") <=> c \in overBudget /\ d \in Tracking
      /\ Holds(c, d, "list") <=> d \in listed
      /\ Holds(c, d, "risk") <=> profile[c] = "strict" /\ d \in HighRisk
      /\ Holds(c, d, "emergency") <=> emergency
      /\ Holds(c, d, "bypass") <=> profile[c] = "bypass"
  BY DEF Holds
<1>2. \A f \in Fact : <<d, f>> \in Facts(c) <=> Holds(c, d, f)
  BY FactHolds
<1>3. {"deny", "typo", "budget", "list", "risk", "allow", "emergency", "bypass"} \subseteq Fact
  BY FactNames
<1> QED  BY <1>1, <1>2, <1>3

(* Conclusions last: they speak of what held always or ever.               *)
LEMMA Lasting ==
  ASSUME NEW r \in QueryState, NEW s \in History, NEW t \in History,
         Judged(r, s), t.always \subseteq s.always, s.ever \subseteq t.ever
  PROVE  Judged(r, t)
<1>1. ASSUME NEW d
      PROVE  /\ BlockAlways(t, d) => BlockAlways(s, d)
             /\ LiftAlways(t, d) => LiftAlways(s, d)
             /\ LiftEver(s, d) => LiftEver(t, d)
  BY DEF BlockAlways, LiftAlways, LiftEver
<1>2. Deciding(r, s) => Deciding(r, t)
  BY <1>1 DEF Deciding, ProfileRead, PolicyPassed, BudgetPassed
<1>3. Decided(r, s) => Decided(r, t)
  BY <1>1 DEF Decided
<1>4. Inspecting(r, s) => Inspecting(r, t)
  BY <1>1 DEF Inspecting
<1>5. Enforced(r, s) => Enforced(r, t)
  BY <1>1 DEF Enforced
<1>6. Honoured(r, s) => Honoured(r, t)
  BY <1>1 DEF Honoured
<1> QED  BY <1>2, <1>3, <1>4, <1>5, <1>6 DEF Judged

LEMMA Typed ==
  ASSUME PipelineInv, NEW i \in Query
  PROVE  /\ q[i] \in QueryState /\ seen[i] \in History
         /\ Judged(q[i], seen[i]) /\ Witnessed(i)
BY DEF PipelineInv, TypeOK, History

(* One query goes on, and nothing else changes.                            *)
LEMMA OneQuery ==
  ASSUME PipelineInv, NEW i \in Query, NEW r \in QueryState,
         q' = [q EXCEPT ![i] = r], Judged(r, seen[i]),
         r.client = q[i].client, r.pc \in Running => Active(i), r.pc # "done",
         UNCHANGED <<stores, log, seen, changes>>
  PROVE  PipelineInv'
<1>1. q' \in [Query -> QueryState]
  BY DEF PipelineInv, TypeOK
<1>2. \A c : Facts(c)' = Facts(c)
  BY DEF stores, Facts, Holds
<1>3. TypeOK'
  BY <1>1 DEF PipelineInv, TypeOK, stores
<1>4. ASSUME NEW j \in Query
      PROVE  Judged(q[j], seen[j])' /\ Witnessed(j)' /\ Told(j)'
  <2>1. seen'[j] = seen[j] /\ log'[j] = log[j]
    OBVIOUS
  <2>2. CASE j = i
    <3>1. q'[j] = r
      BY <2>2 DEF PipelineInv, TypeOK
    <3>2. Judged(q'[j], seen'[j])
      BY <2>1, <2>2, <3>1
    <3>3. Witnessed(j)'
      BY <1>2, <2>1, <2>2, <3>1 DEF Witnessed, Active, PipelineInv
    <3>4. Told(j)'
      BY <3>1 DEF Told, At
    <3> QED  BY <3>2, <3>3, <3>4
  <2>3. CASE j # i
    <3>1. q'[j] = q[j]
      BY <2>3 DEF PipelineInv, TypeOK
    <3>2. Judged(q'[j], seen'[j])
      BY <2>1, <3>1 DEF PipelineInv
    <3>3. Witnessed(j)'
      BY <1>2, <2>1, <3>1 DEF Witnessed, Active, PipelineInv
    <3>4. Told(j)'
      BY <2>1, <3>1 DEF Told, At, PipelineInv
    <3> QED  BY <3>2, <3>3, <3>4
  <2> QED  BY <2>2, <2>3
<1> QED  BY <1>3, <1>4 DEF PipelineInv

LEMMA ReadProfileKeeps ==
  ASSUME PipelineInv, NEW i \in Query, ReadProfile(i)
  PROVE  PipelineInv'
<1> DEFINE p == profile[q[i].client]
           r == [q[i] EXCEPT !.prof = p, !.pc = "policy"]
           s == seen[i]
<1>1. /\ q[i] \in QueryState /\ seen[i] \in History
      /\ Judged(q[i], s) /\ Witnessed(i)
  BY Typed
<1>2. q[i].pc = "profile" /\ q' = [q EXCEPT ![i] = r]
  BY DEF ReadProfile, At
<1>3. p \in Profile
  BY <1>1 DEF PipelineInv, TypeOK, QueryState
<1>4. r \in QueryState /\ r.prof = p /\ r.pc = "policy"
  BY <1>1, <1>3 DEF QueryState, Pc, Running, Decision
<1>5. /\ r.client = q[i].client /\ r.dom = q[i].dom /\ r.limited = q[i].limited
      /\ r.stage = q[i].stage /\ r.target = q[i].target /\ r.blocked = q[i].blocked
      /\ r.bypass = q[i].bypass /\ r.unsafe = q[i].unsafe /\ r.answer = q[i].answer
      /\ r.todo = q[i].todo /\ r.response = q[i].response
  BY <1>1 DEF QueryState
<1>6. s.always \subseteq Facts(q[i].client) /\ Facts(q[i].client) \subseteq s.ever
  BY <1>1, <1>2 DEF Witnessed, Active, Running, Decision
<1>7. ProfileRead(r, s)
  <2>1. ASSUME NEW d \in Domain
        PROVE  /\ <<d, "bypass">> \in Facts(q[i].client) <=> p = "bypass"
               /\ <<d, "risk">> \in Facts(q[i].client) <=> p = "strict" /\ d \in HighRisk
    BY WhatHolds
  <2> HIDE DEF r
  <2> QED  BY <1>4, <1>6, <2>1 DEF ProfileRead
<1>8. Judged(r, s)
  BY <1>1, <1>2, <1>4, <1>5, <1>7
     DEF Judged, OnAlias, Deciding, Decided, Inspecting, Enforced, Honoured, Rebound,
         Decision, Internal
<1> HIDE DEF r
<1> QED
  BY <1>1, <1>2, <1>4, <1>5, <1>8, OneQuery DEF ReadProfile, Active, Running, Decision

LEMMA Moved ==
  ASSUME NEW r0 \in QueryState, NEW pc \in Pc, NEW r, r = [r0 EXCEPT !.pc = pc]
  PROVE  /\ r \in QueryState /\ r.pc = pc
         /\ r.client = r0.client /\ r.dom = r0.dom /\ r.limited = r0.limited
         /\ r.stage = r0.stage /\ r.target = r0.target /\ r.prof = r0.prof
         /\ r.blocked = r0.blocked /\ r.bypass = r0.bypass /\ r.unsafe = r0.unsafe
         /\ r.answer = r0.answer /\ r.todo = r0.todo /\ r.response = r0.response
BY DEF QueryState

(* decision() goes on to its next reading.                                 *)
LEMMA NextReading ==
  ASSUME PipelineInv, NEW i \in Query, NEW pc \in {"budget", "list"},
         q[i].pc \in {"policy", "budget"}, q' = [q EXCEPT ![i].pc = pc],
         PolicyPassed(q[i], seen[i]), pc = "list" => BudgetPassed(q[i], seen[i]),
         UNCHANGED <<stores, log, seen, changes>>
  PROVE  PipelineInv'
<1> DEFINE r == [q[i] EXCEPT !.pc = pc]
           s == seen[i]
<1>1. q[i] \in QueryState /\ Judged(q[i], s)
  BY Typed
<1>2. pc \in Pc /\ q' = [q EXCEPT ![i] = r]
  BY DEF Pc, Running, Decision
<1>3. /\ r \in QueryState /\ r.pc = pc
      /\ r.client = q[i].client /\ r.dom = q[i].dom /\ r.limited = q[i].limited
      /\ r.stage = q[i].stage /\ r.target = q[i].target /\ r.prof = q[i].prof
      /\ r.blocked = q[i].blocked /\ r.bypass = q[i].bypass /\ r.unsafe = q[i].unsafe
      /\ r.answer = q[i].answer /\ r.todo = q[i].todo /\ r.response = q[i].response
  BY <1>1, <1>2, Moved
<1> HIDE DEF r
<1>4. Judged(r, s)
  BY <1>1, <1>3
     DEF Judged, OnAlias, Deciding, ProfileRead, PolicyPassed, BudgetPassed, Decided,
         Inspecting, Enforced, Honoured, Rebound, Decision, Internal
<1> QED
  BY <1>1, <1>2, <1>3, <1>4, OneQuery DEF Active, Running, Decision

(* decision() returns. A name it blocks was not exempt all the time, one   *)
(* it exempts was so at some time, and one it lets pass was neither.       *)
LEMMA Returns ==
  ASSUME PipelineInv, NEW i \in Query, NEW verdict \in {"block", "bypass", "normal"},
         q[i].pc \in Decision, Decide(i, verdict),
         verdict \in {"block", "normal"} => ~LiftAlways(seen[i], q[i].target),
         verdict = "bypass" => LiftEver(seen[i], q[i].target),
         verdict = "normal" => ~BlockAlways(seen[i], q[i].target),
         UNCHANGED <<stores, log, seen, changes>>
  PROVE  PipelineInv'
<1> DEFINE s == seen[i]
<1> DEFINE query == [q[i] EXCEPT !.blocked = @ \/ verdict = "block",
                                 !.bypass = (verdict = "bypass"), !.pc = "respond"]
           alias == [q[i] EXCEPT !.unsafe = @ \/ verdict = "block",
                                 !.pc = "inspect"]
<1>1. q[i] \in QueryState /\ Judged(q[i], s) /\ q \in [Query -> QueryState]
  BY Typed DEF PipelineInv, TypeOK
<1>4. q' = [q EXCEPT ![i] = IF q[i].stage = "query" THEN query ELSE alias]
  BY DEF Decide
<1>2. CASE q[i].stage = "query"
  <2> DEFINE r == query
  <2>1. q' = [q EXCEPT ![i] = r]
    BY <1>2, <1>4
  <2>2. /\ r \in QueryState /\ r.pc = "respond"
        /\ r.blocked = (q[i].blocked \/ verdict = "block")
        /\ r.bypass = (verdict = "bypass")
    BY <1>1 DEF QueryState, Pc, Running
  <2>3. /\ r.client = q[i].client /\ r.dom = q[i].dom /\ r.limited = q[i].limited
        /\ r.stage = q[i].stage /\ r.target = q[i].target
        /\ r.answer = q[i].answer /\ r.response = q[i].response
    BY <1>1 DEF QueryState
  <2> HIDE DEF r
  <2>4. q[i].target = q[i].dom /\ q[i].blocked = q[i].limited /\ q[i].response = "none"
    BY <1>1, <1>2 DEF Judged, Deciding, Decision
  <2>5. Decided(r, s)
    BY <2>2, <2>3, <2>4 DEF Decided
  <2>6. Judged(r, s)
    BY <1>2, <2>2, <2>3, <2>4, <2>5
       DEF Judged, OnAlias, Enforced, Honoured, Rebound, Decision
  <2> QED
    BY <1>1, <2>1, <2>2, <2>3, <2>6, OneQuery DEF Active, Running
<1>3. CASE q[i].stage = "alias"
  <2> DEFINE r == alias
  <2>1. q' = [q EXCEPT ![i] = r]
    BY <1>3, <1>4
  <2>2. /\ r \in QueryState /\ r.pc = "inspect"
        /\ r.unsafe = (q[i].unsafe \/ verdict = "block")
    BY <1>1 DEF QueryState, Pc, Running
  <2>3. /\ r.client = q[i].client /\ r.dom = q[i].dom /\ r.limited = q[i].limited
        /\ r.stage = q[i].stage /\ r.target = q[i].target
        /\ r.blocked = q[i].blocked /\ r.bypass = q[i].bypass
        /\ r.answer = q[i].answer /\ r.todo = q[i].todo /\ r.response = q[i].response
    BY <1>1 DEF QueryState
  <2> HIDE DEF r
  <2>4. /\ Decided(q[i], s) /\ ~q[i].blocked /\ Inspecting(q[i], s)
        /\ q[i].response = "none"
    BY <1>1, <1>3 DEF Judged, OnAlias, Decision
  <2>5. Inspecting(r, s)
    BY <1>3, <2>2, <2>3, <2>4 DEF Inspecting, Internal
  <2>6. Decided(r, s)
    BY <2>3, <2>4 DEF Decided
  <2>7. Judged(r, s)
    BY <2>2, <2>3, <2>4, <2>5, <2>6
       DEF Judged, OnAlias, Enforced, Honoured, Rebound, Decision
  <2> QED
    BY <1>1, <2>1, <2>2, <2>3, <2>7, OneQuery DEF Active, Running
<1> QED  BY <1>1, <1>2, <1>3 DEF QueryState

(* What a query in decision() knows when it reads the next store.          *)
LEMMA Reading ==
  ASSUME PipelineInv, NEW i \in Query, q[i].pc \in Decision
  PROVE  /\ q[i].target \in Domain /\ q[i].client \in Client
         /\ Deciding(q[i], seen[i])
         /\ seen[i].always \subseteq Facts(q[i].client)
         /\ Facts(q[i].client) \subseteq seen[i].ever
BY Typed DEF QueryState, Judged, Witnessed, Active, Running

LEMMA ReadPolicyKeeps ==
  ASSUME PipelineInv, NEW i \in Query, ReadPolicy(i)
  PROVE  PipelineInv'
<1> DEFINE s == seen[i]
           t == q[i].target
           c == q[i].client
<1>1. /\ q[i].pc = "policy" /\ q[i].pc \in Decision
      /\ UNCHANGED <<stores, log, seen, changes>>
  BY DEF ReadPolicy, At, Decision
<1>2. /\ t \in Domain /\ ProfileRead(q[i], s)
      /\ s.always \subseteq Facts(c) /\ Facts(c) \subseteq s.ever
  BY <1>1, Reading DEF Deciding
<1>3. /\ <<t, "deny">> \in Facts(c) <=> rule[c][t] = "block"
      /\ <<t, "allow">> \in Facts(c) <=> rule[c][t] = "allow"
      /\ <<t, "typo">> \in Facts(c) <=> t \in Typo
      /\ <<t, "emergency">> \in Facts(c) <=> emergency
  <2> HIDE DEF t, c
  <2> QED  BY <1>2, WhatHolds
<1>4. ASSUME emergency \/ q[i].prof = "bypass" \/ rule[c][t] = "allow"
      PROVE  LiftEver(s, t)
  BY <1>2, <1>3, <1>4, FactNames DEF LiftEver, ProfileRead
<1>5. ASSUME ~emergency, q[i].prof # "bypass", rule[c][t] # "allow"
      PROVE  ~LiftAlways(s, t)
  BY <1>2, <1>3, <1>5, FactNames DEF LiftAlways, ProfileRead
<1>6. CASE Decide(i, "bypass") /\ (emergency \/ q[i].prof = "bypass" \/ rule[c][t] = "allow")
  BY <1>1, <1>4, <1>6, Returns
<1>7. CASE /\ Decide(i, "block") /\ ~emergency /\ q[i].prof # "bypass"
           /\ rule[c][t] # "allow"
  BY <1>1, <1>5, <1>7, Returns
<1>8. CASE /\ q' = [q EXCEPT ![i].pc = "budget"] /\ ~emergency /\ q[i].prof # "bypass"
           /\ rule[c][t] = "normal" /\ t \notin Typo
  <2>1. PolicyPassed(q[i], s)
    BY <1>2, <1>3, <1>5, <1>8 DEF PolicyPassed
  <2> QED  BY <1>1, <1>8, <2>1, NextReading
<1> QED  BY <1>6, <1>7, <1>8 DEF ReadPolicy

LEMMA CheckBudgetKeeps ==
  ASSUME PipelineInv, NEW i \in Query, CheckBudget(i)
  PROVE  PipelineInv'
<1> DEFINE s == seen[i]
           t == q[i].target
           c == q[i].client
<1>1. /\ q[i].pc = "budget" /\ q[i].pc \in Decision
      /\ UNCHANGED <<stores, log, seen, changes>>
  BY DEF CheckBudget, At, Decision
<1>2. t \in Domain /\ s.always \subseteq Facts(c) /\ PolicyPassed(q[i], s)
  BY <1>1, Reading DEF Deciding
<1>3. <<t, "budget">> \in Facts(c) <=> c \in overBudget /\ t \in Tracking
  <2> HIDE DEF t, c
  <2> QED  BY <1>2, WhatHolds
<1>4. CASE Decide(i, "block")
  BY <1>1, <1>2, <1>4, Returns DEF PolicyPassed
<1>5. CASE q' = [q EXCEPT ![i].pc = "list"] /\ ~(t \in Tracking /\ c \in overBudget)
  <2>1. BudgetPassed(q[i], s)
    BY <1>2, <1>3, <1>5 DEF BudgetPassed
  <2> QED  BY <1>1, <1>2, <1>5, <2>1, NextReading
<1> QED  BY <1>4, <1>5 DEF CheckBudget

LEMMA CheckBlocklistKeeps ==
  ASSUME PipelineInv, NEW i \in Query, CheckBlocklist(i)
  PROVE  PipelineInv'
<1> DEFINE s == seen[i]
           t == q[i].target
           c == q[i].client
           found == t \in listed \/ (q[i].prof = "strict" /\ t \in HighRisk)
<1>1. /\ q[i].pc = "list" /\ q[i].pc \in Decision
      /\ UNCHANGED <<stores, log, seen, changes>>
      /\ Decide(i, IF found THEN "block" ELSE "normal")
  BY DEF CheckBlocklist, At, Decision
<1>2. /\ t \in Domain /\ s.always \subseteq Facts(c)
      /\ ProfileRead(q[i], s) /\ PolicyPassed(q[i], s) /\ BudgetPassed(q[i], s)
  BY <1>1, Reading DEF Deciding
<1>3. <<t, "list">> \in Facts(c) <=> t \in listed
  <2> HIDE DEF t, c
  <2> QED  BY <1>2, WhatHolds
<1>4. ~found => ~BlockAlways(s, t)
  BY <1>2, <1>3, FactNames DEF BlockAlways, ProfileRead, PolicyPassed, BudgetPassed
<1> QED  BY <1>1, <1>2, <1>4, Returns DEF PolicyPassed

-----------------------------------------------------------------------------
(* A response that takes no inspection.                                    *)
LEMMA Replies ==
  ASSUME PipelineInv, NEW i \in Query, NEW response \in Response \ {"none", "upstream"},
         q[i].pc \in {"respond", "exchange"}, Reply(i, response),
         q[i].blocked <=> response = "nxdomain"
  PROVE  PipelineInv'
<1> DEFINE r == [q[i] EXCEPT !.response = response, !.pc = "record"]
           s == seen[i]
<1>1. q[i] \in QueryState /\ Judged(q[i], s)
  BY Typed
<1>2. q' = [q EXCEPT ![i] = r] /\ UNCHANGED <<stores, log, seen, changes>>
  BY DEF Reply
<1>3. r \in QueryState /\ r.pc = "record" /\ r.response = response
  BY <1>1 DEF QueryState, Pc, Running
<1>4. /\ r.client = q[i].client /\ r.dom = q[i].dom /\ r.limited = q[i].limited
      /\ r.blocked = q[i].blocked /\ r.bypass = q[i].bypass /\ r.answer = q[i].answer
  BY <1>1 DEF QueryState
<1> HIDE DEF r
<1>5. Decided(q[i], s)
  BY <1>1 DEF Judged
<1>6. Enforced(r, s) /\ Honoured(r, s)
  BY <1>3, <1>4, <1>5 DEF Decided, Enforced, Honoured
<1>7. Judged(r, s)
  BY <1>3, <1>4, <1>6 DEF Judged, OnAlias, Rebound, Decision
<1> QED
  BY <1>1, <1>2, <1>3, <1>4, <1>7, OneQuery DEF Active, Running

LEMMA RespondKeeps ==
  ASSUME PipelineInv, NEW i \in Query,
         \/ RespondBlocked(i) \/ RespondAction(i) \/ RespondSafe(i)
         \/ ExchangeFails(i)
  PROVE  PipelineInv'
<1>1. q[i].pc = "exchange" => ~q[i].blocked
  BY Typed DEF Judged
<1>2. q[i].blocked \in BOOLEAN
  BY Typed DEF QueryState
<1>3. CASE RespondBlocked(i)
  BY <1>2, <1>3, Replies DEF RespondBlocked, At, Response
<1>4. CASE RespondAction(i)
  BY <1>2, <1>4, Replies DEF RespondAction, At, Response
<1>5. CASE RespondSafe(i)
  BY <1>2, <1>5, Replies DEF RespondSafe, At, Response
<1>6. CASE ExchangeFails(i)
  BY <1>1, <1>2, <1>6, Replies DEF ExchangeFails, At, Response
<1> QED  BY <1>3, <1>4, <1>5, <1>6

LEMMA ForwardKeeps ==
  ASSUME PipelineInv, NEW i \in Query, Forward(i)
  PROVE  PipelineInv'
<1> DEFINE r == [q[i] EXCEPT !.pc = "exchange"]
           s == seen[i]
<1>1. q[i] \in QueryState /\ Judged(q[i], s)
  BY Typed
<1>2. /\ q' = [q EXCEPT ![i] = r] /\ UNCHANGED <<stores, log, seen, changes>>
      /\ q[i].pc = "respond" /\ ~q[i].blocked /\ "exchange" \in Pc
  BY DEF Forward, At, Pc, Running
<1>3. /\ r \in QueryState /\ r.pc = "exchange"
      /\ r.client = q[i].client /\ r.dom = q[i].dom /\ r.limited = q[i].limited
      /\ r.stage = q[i].stage /\ r.blocked = q[i].blocked /\ r.bypass = q[i].bypass
      /\ r.response = q[i].response
  BY <1>1, <1>2, Moved
<1> HIDE DEF r
<1>4. Judged(r, s)
  BY <1>1, <1>2, <1>3
     DEF Judged, OnAlias, Decided, Enforced, Honoured, Rebound, Decision
<1> QED
  BY <1>1, <1>2, <1>3, <1>4, OneQuery DEF Active, Running

LEMMA ExchangeAnswersKeeps ==
  ASSUME PipelineInv, NEW i \in Query, NEW answer \in Answer, ExchangeAnswers(i, answer)
  PROVE  PipelineInv'
<1> DEFINE unsafe == answer.internal /\ ~IsLocal(i)
           r == [q[i] EXCEPT !.answer = answer, !.todo = answer.aliases,
                             !.unsafe = unsafe, !.pc = "inspect"]
           s == seen[i]
<1>1. q[i] \in QueryState /\ Judged(q[i], s)
  BY Typed
<1>2. /\ q' = [q EXCEPT ![i] = r] /\ UNCHANGED <<stores, log, seen, changes>>
      /\ q[i].pc = "exchange"
  BY DEF ExchangeAnswers, At
<1>3. /\ answer.aliases \in SUBSET Alias /\ unsafe \in BOOLEAN
      /\ unsafe = (answer.internal /\ q[i].dom \notin Local)
  BY DEF Answer, IsLocal
<1>4. /\ r \in QueryState /\ r.pc = "inspect" /\ r.answer = answer
      /\ r.todo = answer.aliases /\ r.unsafe = unsafe
  BY <1>1, <1>3 DEF QueryState, Pc, Running
<1>5. /\ r.client = q[i].client /\ r.dom = q[i].dom /\ r.limited = q[i].limited
      /\ r.stage = q[i].stage /\ r.blocked = q[i].blocked /\ r.bypass = q[i].bypass
      /\ r.response = q[i].response
  BY <1>1 DEF QueryState
<1>6. Internal(r) <=> unsafe
  BY <1>3, <1>4, <1>5 DEF Internal
<1> HIDE DEF r, unsafe
<1>7. Decided(q[i], s) /\ ~q[i].blocked /\ q[i].stage = "query" /\ q[i].response = "none"
  BY <1>1, <1>2 DEF Judged
<1>8. Inspecting(r, s) /\ Decided(r, s)
  BY <1>4, <1>5, <1>6, <1>7 DEF Inspecting, Decided
<1>9. Judged(r, s)
  BY <1>4, <1>5, <1>7, <1>8
     DEF Judged, OnAlias, Enforced, Honoured, Rebound, Decision
<1> QED
  BY <1>1, <1>2, <1>4, <1>5, <1>9, OneQuery DEF Active, Running

LEMMA InspectAliasKeeps ==
  ASSUME PipelineInv, NEW i \in Query, NEW d \in Domain, InspectAlias(i, d)
  PROVE  PipelineInv'
<1> DEFINE r == [q[i] EXCEPT !.todo = @ \ {d}, !.target = d,
                             !.stage = "alias", !.pc = "profile"]
           s == seen[i]
<1>1. q[i] \in QueryState /\ Judged(q[i], s)
  BY Typed
<1>2. /\ q' = [q EXCEPT ![i] = r] /\ UNCHANGED <<stores, log, seen, changes>>
      /\ q[i].pc = "inspect" /\ ~q[i].bypass /\ d \in q[i].todo
  BY DEF InspectAlias, At
<1>3. /\ r \in QueryState /\ r.pc = "profile" /\ r.target = d
      /\ r.stage = "alias" /\ r.todo = q[i].todo \ {d}
  BY <1>1 DEF QueryState, Pc, Running, Decision
<1>4. /\ r.client = q[i].client /\ r.dom = q[i].dom /\ r.limited = q[i].limited
      /\ r.blocked = q[i].blocked /\ r.bypass = q[i].bypass /\ r.unsafe = q[i].unsafe
      /\ r.answer = q[i].answer /\ r.response = q[i].response
  BY <1>1 DEF QueryState
<1> HIDE DEF r
<1>5. /\ Decided(q[i], s) /\ ~q[i].blocked /\ Inspecting(q[i], s)
      /\ q[i].response = "none"
  BY <1>1, <1>2 DEF Judged
<1>6. Decided(r, s) /\ Deciding(r, s)
  BY <1>3, <1>4, <1>5 DEF Decided, Deciding
<1>7. Inspecting(r, s)
  BY <1>2, <1>3, <1>4, <1>5 DEF Inspecting, Internal, Decision
<1>8. Judged(r, s)
  BY <1>3, <1>4, <1>5, <1>6, <1>7
     DEF Judged, OnAlias, Enforced, Honoured, Rebound, Decision
<1> QED
  BY <1>1, <1>2, <1>3, <1>4, <1>8, OneQuery DEF Active, Running, Decision

LEMMA FinishInspectionKeeps ==
  ASSUME PipelineInv, NEW i \in Query, FinishInspection(i)
  PROVE  PipelineInv'
<1> DEFINE flux == q[i].answer.flux /\ ~IsLocal(i) /\ ~q[i].bypass
           unsafe == q[i].unsafe \/ flux
           response == IF unsafe THEN "nxdomain" ELSE "upstream"
           r == [q[i] EXCEPT !.unsafe = unsafe, !.blocked = unsafe,
                             !.response = response, !.pc = "record"]
           s == seen[i]
<1>1. q[i] \in QueryState /\ Judged(q[i], s)
  BY Typed
<1>2. /\ q' = [q EXCEPT ![i] = r] /\ UNCHANGED <<stores, log, seen, changes>>
      /\ q[i].pc = "inspect" /\ (q[i].todo = {} \/ q[i].bypass)
  BY DEF FinishInspection, At
<1>3. unsafe \in BOOLEAN /\ response \in Response
  BY <1>1 DEF QueryState, Answer, IsLocal, Response
<1>4. /\ r \in QueryState /\ r.pc = "record" /\ r.unsafe = unsafe
      /\ r.blocked = unsafe /\ r.response = response
  BY <1>1, <1>3 DEF QueryState, Pc, Running
<1>5. /\ r.client = q[i].client /\ r.dom = q[i].dom /\ r.limited = q[i].limited
      /\ r.bypass = q[i].bypass /\ r.answer = q[i].answer
  BY <1>1 DEF QueryState
<1>6. /\ Decided(q[i], s) /\ ~q[i].blocked /\ Inspecting(q[i], s)
      /\ q[i].pc \notin Decision
  BY <1>1, <1>2 DEF Judged, Decision
<1>7. flux => ~q[i].bypass
  OBVIOUS
<1> HIDE DEF r, flux
<1>8. Enforced(r, s)
  <2>1. response = "upstream" => ~q[i].unsafe
    OBVIOUS
  <2>2. CASE q[i].bypass
    BY <1>4, <1>5, <1>6, <2>2 DEF Decided, Enforced
  <2>3. CASE ~q[i].bypass
    <3>1. ~BlockAlways(s, r.dom)
      BY <1>5, <1>6, <2>3 DEF Decided
    <3>2. response = "upstream" =>
            \A d \in r.answer.aliases : BlockAlways(s, d) => LiftEver(s, d)
      BY <1>2, <1>5, <1>6, <2>1, <2>3 DEF Inspecting
    <3> QED  BY <1>4, <3>1, <3>2 DEF Enforced
  <2> QED  BY <2>2, <2>3
<1>9. Honoured(r, s)
  BY <1>4, <1>5, <1>6, <1>7 DEF Decided, Inspecting, Internal, Honoured
<1>10. ~Rebound(r)
  BY <1>4, <1>5, <1>6 DEF Inspecting, Internal, Rebound
<1>11. Judged(r, s)
  BY <1>4, <1>8, <1>9, <1>10 DEF Judged, OnAlias, Decision
<1> QED
  BY <1>1, <1>2, <1>4, <1>5, <1>11, OneQuery DEF Active, Running

(* The future is gone with its locals.                                     *)
LEMMA DropKeeps ==
  ASSUME PipelineInv, NEW i \in Query, Drop(i)
  PROVE  PipelineInv'
<1> DEFINE f == Fresh(q[i].mortal, q[i].client, q[i].dom, FALSE)
           r == [f EXCEPT !.pc = "dropped"]
           s == seen[i]
<1>1. q[i] \in QueryState
  BY Typed
<1>2. q' = [q EXCEPT ![i] = r] /\ UNCHANGED <<stores, log, seen, changes>>
  BY <1>1 DEF Drop, PipelineInv, TypeOK
<1>3. f \in QueryState /\ f.response = "none" /\ f.client = q[i].client
  BY <1>1 DEF Fresh, EmptyAnswer, QueryState, Answer, Pc, Running, Decision, Profile,
              Response
<1> HIDE DEF f
<1>4. /\ r \in QueryState /\ r.pc = "dropped" /\ r.response = "none"
      /\ r.client = q[i].client
  BY <1>3 DEF QueryState, Pc
<1> HIDE DEF r
<1>5. Judged(r, s)
  BY <1>4 DEF Judged, OnAlias, Enforced, Honoured, Rebound, Decision
<1> QED
  BY <1>2, <1>4, <1>5, OneQuery DEF Running, Decision

(* Aborting the tasks changes no local that a judgement speaks of.         *)
LEMMA ListenerFailsKeeps ==
  ASSUME PipelineInv, ListenerFails
  PROVE  PipelineInv'
<1>1. /\ q' = [i \in Query |-> IF Active(i) THEN [q[i] EXCEPT !.mortal = TRUE] ELSE q[i]]
      /\ UNCHANGED <<stores, log, seen, changes>>
  BY DEF ListenerFails
<1>2. ASSUME NEW j \in Query
      PROVE  /\ q'[j] \in QueryState
             /\ Judged(q[j], seen[j])' /\ Witnessed(j)' /\ Told(j)'
  <2>1. /\ q[j] \in QueryState /\ Judged(q[j], seen[j]) /\ Witnessed(j) /\ Told(j)
    BY Typed DEF PipelineInv
  <2>2. \A x : Facts(x)' = Facts(x)
    BY <1>1 DEF stores, Facts, Holds
  <2>3. seen'[j] = seen[j] /\ log'[j] = log[j]
    BY <1>1
  <2>4. q'[j] = q[j] \/ q'[j] = [q[j] EXCEPT !.mortal = TRUE]
    BY <1>1
  <2> DEFINE r == q'[j]
  <2>5. /\ r \in QueryState /\ r.pc = q[j].pc /\ r.client = q[j].client
        /\ r.dom = q[j].dom /\ r.limited = q[j].limited /\ r.stage = q[j].stage
        /\ r.target = q[j].target /\ r.prof = q[j].prof /\ r.blocked = q[j].blocked
        /\ r.bypass = q[j].bypass /\ r.unsafe = q[j].unsafe
        /\ r.answer = q[j].answer /\ r.todo = q[j].todo /\ r.response = q[j].response
    BY <2>1, <2>4 DEF QueryState
  <2> HIDE DEF r
  <2>6. Judged(r, seen[j])
    <3>1. Decided(r, seen[j]) <=> Decided(q[j], seen[j])
      BY <2>5 DEF Decided
    <3>2. Deciding(r, seen[j]) <=> Deciding(q[j], seen[j])
      BY <2>5 DEF Deciding, ProfileRead, PolicyPassed, BudgetPassed
    <3>3. Inspecting(r, seen[j]) <=> Inspecting(q[j], seen[j])
      BY <2>5 DEF Inspecting, Internal
    <3>4. /\ Enforced(r, seen[j]) <=> Enforced(q[j], seen[j])
          /\ Honoured(r, seen[j]) <=> Honoured(q[j], seen[j])
          /\ Rebound(r) <=> Rebound(q[j])
          /\ OnAlias(r) <=> OnAlias(q[j])
      BY <2>5 DEF Enforced, Honoured, Rebound, Internal, OnAlias
    <3> QED  BY <2>1, <2>5, <3>1, <3>2, <3>3, <3>4 DEF Judged
  <2>7. Judged(q[j], seen[j])'
    BY <2>3, <2>6 DEF r
  <2>8. Witnessed(j)'
    BY <2>1, <2>2, <2>3, <2>5 DEF Witnessed, Active, r
  <2>9. Told(j)'
    BY <2>1, <2>3, <2>5 DEF Told, At, r
  <2> QED  BY <2>5, <2>7, <2>8, <2>9 DEF r
<1>3. TypeOK'
  BY <1>1, <1>2 DEF PipelineInv, TypeOK, stores
<1> QED  BY <1>2, <1>3 DEF PipelineInv

-----------------------------------------------------------------------------
LEMMA FactsTyped == ASSUME NEW c PROVE Facts(c) \subseteq Domain \X Fact
BY DEF Facts

LEMMA ArriveKeeps ==
  ASSUME PipelineInv, NEW i \in Query, NEW tcp \in BOOLEAN, NEW c \in Client,
         NEW d \in Domain, NEW limited \in BOOLEAN, Arrive(i, tcp, c, d, limited)
  PROVE  PipelineInv'
<1> DEFINE r == Fresh(tcp, c, d, limited)
           s == [always |-> Facts(c), ever |-> Facts(c)]
<1>1. /\ q' = [q EXCEPT ![i] = r] /\ seen' = [seen EXCEPT ![i] = s]
      /\ UNCHANGED <<stores, log, changes>>
  BY DEF Arrive
<1>2. r \in QueryState /\ r.pc = "profile"
  BY DEF Fresh, EmptyAnswer, QueryState, Answer, Pc, Running, Decision, Profile, Response
<1>3. s \in History
  BY FactsTyped DEF History
<1>4. TypeOK'
  BY <1>1, <1>2, <1>3 DEF PipelineInv, TypeOK, stores, History
<1>5. Judged(r, s)
  BY DEF Fresh, Judged, Deciding, OnAlias, Enforced, Honoured, Rebound, Decision
<1>6. \A x : Facts(x)' = Facts(x)
  BY <1>1 DEF stores, Facts, Holds
<1>7. r.client = c
  BY DEF Fresh
<1> HIDE DEF r
<1>8. ASSUME NEW j \in Query
      PROVE  Judged(q[j], seen[j])' /\ Witnessed(j)' /\ Told(j)'
  <2>1. CASE j = i
    <3>1. q'[j] = r /\ seen'[j] = s
      BY <1>1, <2>1 DEF PipelineInv, TypeOK
    <3> QED  BY <1>2, <1>5, <1>6, <1>7, <3>1 DEF Witnessed, Active, Told, At
  <2>2. CASE j # i
    <3>1. q'[j] = q[j] /\ seen'[j] = seen[j] /\ log'[j] = log[j]
      BY <1>1, <2>2 DEF PipelineInv, TypeOK
    <3> QED  BY <1>6, <3>1 DEF PipelineInv, Witnessed, Active, Told, At
  <2> QED  BY <2>1, <2>2
<1> QED  BY <1>4, <1>8 DEF PipelineInv

(* The stores change: what is known about the queries is brought up to date.*)
LEMMA Observed ==
  ASSUME PipelineInv, TypeOK',
         NEW j \in Query, q'[j] = q[j], log'[j] = log[j], Observe
  PROVE  Judged(q[j], seen[j])' /\ Witnessed(j)' /\ Told(j)'
<1>1. /\ q[j] \in QueryState /\ seen[j] \in History /\ seen'[j] \in History
      /\ Judged(q[j], seen[j]) /\ Witnessed(j)
  BY Typed DEF TypeOK, History
<1>2. seen'[j] = IF q[j].pc \in Running
                 THEN [always |-> seen[j].always \cap Facts(q[j].client)',
                       ever |-> seen[j].ever \cup Facts(q[j].client)']
                 ELSE seen[j]
  BY DEF Observe
<1>3. seen'[j].always \subseteq seen[j].always /\ seen[j].ever \subseteq seen'[j].ever
  BY <1>2
<1>4. Judged(q[j], seen'[j])
  BY <1>1, <1>3, Lasting
<1>5. Witnessed(j)'
  BY <1>2 DEF Witnessed, Active
<1>6. Told(j)'
  BY DEF PipelineInv, Told, At
<1> QED  BY <1>4, <1>5, <1>6

StoresTyped ==
  /\ profile \in [Client -> Profile] /\ rule \in [Client -> [Domain -> Rule]]
  /\ emergency \in BOOLEAN /\ safeSearch \in BOOLEAN
  /\ listed \in SUBSET Domain /\ overBudget \in SUBSET Client
  /\ actions \in SUBSET Domain

LEMMA ObserveTyped ==
  ASSUME PipelineInv, Observe
  PROVE  seen' \in [Query -> History]
<1>1. ASSUME NEW c PROVE Facts(c)' \subseteq Domain \X Fact
  BY DEF Facts
<1>2. ASSUME NEW i \in Query
      PROVE  seen[i] \in History /\
             [always |-> seen[i].always \cap Facts(q[i].client)',
              ever |-> seen[i].ever \cup Facts(q[i].client)'] \in History
  BY <1>1, Typed DEF History
<1> QED  BY <1>2 DEF Observe

LEMMA ChangeKeeps ==
  ASSUME PipelineInv, Change, StoresTyped'
  PROVE  PipelineInv'
<1>1. UNCHANGED <<q, log>> /\ Observe /\ changes' \in 0..MaxChanges
  BY BoundAssumption DEF Change, PipelineInv, TypeOK
<1>2. TypeOK'
  BY <1>1, ObserveTyped DEF PipelineInv, TypeOK, StoresTyped, History
<1> QED  BY <1>1, <1>2, Observed DEF PipelineInv

LEMMA AdminKeeps ==
  ASSUME PipelineInv, Admin
  PROVE  PipelineInv'
<1>1. StoresTyped /\ Local \subseteq Domain
  BY DomainAssumption DEF PipelineInv, TypeOK, StoresTyped
<1>2. ASSUME NEW c \in Client, NEW d \in Domain, NEW r \in Rule, SetRule(c, d, r)
      PROVE  PipelineInv'
  <2>1. rule' \in [Client -> [Domain -> Rule]]
    BY <1>1, <1>2 DEF SetRule, StoresTyped
  <2> QED  BY <1>1, <1>2, <2>1, ChangeKeeps DEF SetRule, StoresTyped
<1>3. ASSUME NEW c \in Client, NEW p \in Profile, SetProfile(c, p)
      PROVE  PipelineInv'
  BY <1>1, <1>3, ChangeKeeps DEF SetProfile, StoresTyped
<1>4. ASSUME NEW b \in BOOLEAN, SetSafeSearch(b)
      PROVE  PipelineInv'
  BY <1>1, <1>4, ChangeKeeps DEF SetSafeSearch, StoresTyped
<1>5. ASSUME NEW S \in SUBSET Domain, PublishBlocklist(S)
      PROVE  PipelineInv'
  BY <1>1, <1>5, ChangeKeeps DEF PublishBlocklist, StoresTyped
<1>6. ASSUME NEW S \in SUBSET Local, SetActions(S)
      PROVE  PipelineInv'
  BY <1>1, <1>6, ChangeKeeps DEF SetActions, StoresTyped
<1>7. ASSUME NEW S \in SUBSET Client, ResetBudget(S)
      PROVE  PipelineInv'
  BY <1>1, <1>7, ChangeKeeps DEF ResetBudget, StoresTyped
<1> QED  BY <1>2, <1>3, <1>4, <1>5, <1>6, <1>7 DEF Admin

LEMMA RecordKeeps ==
  ASSUME PipelineInv, NEW i \in Query, Record(i)
  PROVE  PipelineInv'
<1> DEFINE r == [q[i] EXCEPT !.pc = "done"]
           entry == IF q[i].response = "servfail" THEN "failure"
                    ELSE IF q[i].blocked THEN "blocked" ELSE "allowed"
<1>1. /\ q[i] \in QueryState /\ Judged(q[i], seen[i])
      /\ q \in [Query -> QueryState]
      /\ log \in [Query -> {"none", "allowed", "blocked", "failure"}]
  BY Typed DEF PipelineInv, TypeOK
<1>2. /\ q[i].pc = "record" /\ q' = [q EXCEPT ![i] = r]
      /\ log' = [log EXCEPT ![i] = entry] /\ Observe
      /\ UNCHANGED <<profile, rule, emergency, safeSearch, listed, actions, changes>>
      /\ overBudget' \in {overBudget, overBudget \cup {q[i].client}}
      /\ "done" \in Pc
  BY DEF Record, At, Pc
<1>3. /\ r \in QueryState /\ r.pc = "done" /\ r.client = q[i].client
      /\ r.dom = q[i].dom /\ r.limited = q[i].limited /\ r.answer = q[i].answer
      /\ r.blocked = q[i].blocked /\ r.response = q[i].response
  BY <1>1, <1>2, Moved
<1> HIDE DEF r
<1>4. TypeOK'
  <2>1. q' \in [Query -> QueryState]
    BY <1>1, <1>2, <1>3
  <2>2. log' \in [Query -> {"none", "allowed", "blocked", "failure"}]
    BY <1>1, <1>2
  <2>3. seen' \in [Query -> History]
    BY <1>2, ObserveTyped
  <2>4. overBudget' \in SUBSET Client
    BY <1>1, <1>2 DEF PipelineInv, TypeOK, QueryState
  <2> QED  BY <1>2, <2>1, <2>2, <2>3, <2>4 DEF PipelineInv, TypeOK, History
<1>5. ASSUME NEW j \in Query
      PROVE  Judged(q[j], seen[j])' /\ Witnessed(j)' /\ Told(j)'
  <2>1. CASE j = i
    <3>1. q'[j] = r /\ log'[j] = entry
      BY <1>1, <1>2, <2>1
    <3>2. seen'[j] = seen[j]
      BY <1>3, <2>1, <3>1, <1>2 DEF Observe, Running, Decision
    <3>3. Judged(r, seen[i])
      BY <1>1, <1>2, <1>3
         DEF Judged, OnAlias, Enforced, Honoured, Rebound, Internal, Decision
    <3>4. Witnessed(j)'
      BY <1>3, <3>1 DEF Witnessed, Active, Running, Decision
    <3>5. Told(j)'
      BY <1>3, <3>1 DEF Told
    <3> QED  BY <2>1, <3>1, <3>2, <3>3, <3>4, <3>5
  <2>2. CASE j # i
    <3>1. q'[j] = q[j] /\ log'[j] = log[j]
      BY <1>1, <1>2, <2>2
    <3> QED  BY <1>2, <1>4, <3>1, Observed
  <2> QED  BY <2>1, <2>2
<1> QED  BY <1>4, <1>5 DEF PipelineInv

-----------------------------------------------------------------------------
LEMMA InitInv == Init => PipelineInv
<1> SUFFICES ASSUME Init PROVE PipelineInv
  OBVIOUS
<1> DEFINE c == CHOOSE x \in Client : TRUE
           d == CHOOSE x \in Domain : TRUE
           f == Fresh(FALSE, c, d, FALSE)
           r == [f EXCEPT !.pc = "idle"]
           s == [always |-> {}, ever |-> {}]
<1>1. c \in Client /\ d \in Domain /\ MaxChanges \in Nat
  BY BoundAssumption
<1> HIDE DEF c, d
<1>2. f \in QueryState /\ f.response = "none"
  BY <1>1 DEF Fresh, EmptyAnswer, QueryState, Answer, Pc, Running, Decision, Profile,
              Response
<1> HIDE DEF f
<1>3. r \in QueryState /\ r.pc = "idle" /\ r.response = "none"
  BY <1>2 DEF QueryState, Pc
<1>4. q = [i \in Query |-> r]
  BY DEF Init, c, d, f
<1> HIDE DEF r
<1>5. TypeOK
  <2>1. q \in [Query -> QueryState]
    BY <1>3, <1>4
  <2>2. /\ profile \in [Client -> Profile] /\ rule \in [Client -> [Domain -> Rule]]
        /\ actions \in SUBSET Domain
    BY DomainAssumption DEF Init, Profile, Rule
  <2>3. /\ seen \in [Query -> History]
        /\ log \in [Query -> {"none", "allowed", "blocked", "failure"}]
    BY DEF Init, History
  <2>4. emergency \in BOOLEAN /\ safeSearch \in BOOLEAN
    BY DEF Init
  <2>5. /\ listed \in SUBSET Domain /\ overBudget \in SUBSET Client
        /\ changes \in 0..MaxChanges
    BY <1>1 DEF Init
  <2> QED  BY <2>1, <2>2, <2>3, <2>4, <2>5 DEF TypeOK, History
<1>6. \A i \in Query : q[i] = r
  BY <1>4
<1>7. Judged(r, s)
  BY <1>3 DEF Judged, OnAlias, Enforced, Honoured, Rebound, Decision
<1>8. ASSUME NEW i \in Query
      PROVE  Judged(q[i], seen[i]) /\ Witnessed(i) /\ Told(i)
  BY <1>3, <1>6, <1>7 DEF Init, Witnessed, Active, Told, At, Running, Decision
<1> QED  BY <1>5, <1>8 DEF PipelineInv

LEMMA NextInv == PipelineInv /\ [Next]_vars => PipelineInv'
<1> SUFFICES ASSUME PipelineInv, [Next]_vars PROVE PipelineInv'
  OBVIOUS
<1>1. ASSUME NEW i \in Query, NEW tcp \in BOOLEAN, NEW c \in Client, NEW d \in Domain,
             NEW limited \in BOOLEAN, Arrive(i, tcp, c, d, limited)
      PROVE  PipelineInv'
  BY <1>1, ArriveKeeps
<1>2. ASSUME NEW i \in Query, Step(i)
      PROVE  PipelineInv'
  BY <1>2, ReadProfileKeeps, ReadPolicyKeeps, CheckBudgetKeeps, CheckBlocklistKeeps,
     RespondKeeps, ForwardKeeps, ExchangeAnswersKeeps, InspectAliasKeeps,
     FinishInspectionKeeps, RecordKeeps DEF Step
<1>3. ASSUME NEW i \in Query, Drop(i)
      PROVE  PipelineInv'
  BY <1>3, DropKeeps
<1>4. CASE Admin
  BY <1>4, AdminKeeps
<1>5. CASE ListenerFails
  BY <1>5, ListenerFailsKeeps
<1>6. CASE UNCHANGED vars
  <2>1. \A x : Facts(x)' = Facts(x)
    BY <1>6 DEF vars, Facts, Holds
  <2>2. TypeOK'
    BY <1>6 DEF vars, PipelineInv, TypeOK
  <2> QED
    BY <1>6, <2>1, <2>2 DEF vars, PipelineInv, Witnessed, Active, Told, At
<1> QED  BY <1>1, <1>2, <1>3, <1>4, <1>5, <1>6 DEF Next

LEMMA PipelineInvariant == Spec => []PipelineInv
BY InitInv, NextInv, PTL DEF Spec

-----------------------------------------------------------------------------
(* The stores, the locals of every query and the log keep their types.     *)
THEOREM TypeCorrect == Spec => []TypeOK
<1>1. PipelineInv => TypeOK
  BY DEF PipelineInv
<1> QED  BY <1>1, PipelineInvariant, PTL

(* A reason to block that holds from a query's arrival to its response is  *)
(* enforced, for the name and for every alias its answer leads through, by *)
(* whichever interleaving of decision() with changes of the stores, unless *)
(* something that lifts filtering held at some moment (process, decision). *)
THEOREM BlocksEnforced == Spec => []StableBlockEnforced
<1>1. PipelineInv => StableBlockEnforced
  BY DEF PipelineInv, Judged, Enforced, BlockAlways, LiftEver, StableBlockEnforced,
         Delivered
<1> QED  BY <1>1, PipelineInvariant, PTL

(* An exemption that holds all the time is honoured, but for the rate guard*)
(* and DNS rebinding protection (process, decision).                       *)
THEOREM LiftsHonoured == Spec => []StableLiftHonoured
<1>1. PipelineInv => StableLiftHonoured
  BY DEF PipelineInv, Judged, Honoured, LiftAlways, Internal, StableLiftHonoured,
         Blocked, IsLocal
<1> QED  BY <1>1, PipelineInvariant, PTL

(* No internal address of an external name reaches a client, whatever the  *)
(* decision about it was (process, the inspection of the answer).          *)
THEOREM NeverRebound == Spec => []NoRebinding
<1>1. PipelineInv => NoRebinding
  BY DEF PipelineInv, Judged, Rebound, Internal, NoRebinding, IsLocal
<1> QED  BY <1>1, PipelineInvariant, PTL

(* The log says of every query what its client was told (process, its end).*)
THEOREM LogTrue == Spec => []LogMatchesResponse
<1>1. PipelineInv => LogMatchesResponse
  <2> SUFFICES ASSUME PipelineInv, NEW i \in Query, At(i, "done")
               PROVE  /\ log[i] = "failure" <=> q[i].response = "servfail"
                      /\ log[i] = "blocked" <=> Blocked(i)
                      /\ log[i] = "allowed" <=> Delivered(i)
    BY DEF LogMatchesResponse
  <2>1. /\ q[i].response \in Response /\ q[i].response # "none"
        /\ q[i].blocked <=> q[i].response = "nxdomain"
        /\ log[i] = IF q[i].response = "servfail" THEN "failure"
                    ELSE IF q[i].blocked THEN "blocked" ELSE "allowed"
    BY Typed DEF QueryState, Judged, At, PipelineInv, Told
  <2> QED  BY <2>1 DEF Blocked, Delivered, Response
<1> QED  BY <1>1, PipelineInvariant, PTL
=============================================================================
