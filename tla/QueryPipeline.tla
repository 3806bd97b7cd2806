--------------------------- MODULE QueryPipeline ---------------------------
(***************************************************************************)
(* DnsProxy::process and DnsProxy::decision (crates/daemon/src/proxy.rs):  *)
(* the life of one DNS query while other queries run and the dashboard     *)
(* changes the stores the query reads.  Every store has a lock of its own  *)
(* and the handler holds none of them across an await, so each read is a   *)
(* step of its own and the stores may change between two of them.          *)
(*                                                                         *)
(* The rules of the policy engine appear as the verdict they give for a    *)
(* client and a domain; how the engine computes it is a pure function of   *)
(* the rules read under the one policy lock.                               *)
(***************************************************************************)
EXTENDS Naturals

CONSTANTS
  Query,        \* identities of the queries the proxy handles
  Client,       \* DNS clients
  Domain,       \* canonical domain names
  Alias,        \* names that occur as CNAME targets in answers
  Local,        \* names under root, aegis, lan, home.arpa
  SafeSearch,   \* names that have a safe-search target
  Typo,         \* names the phishing heuristic flags
  Tracking,     \* names of tracking companies or carrying identifiers
  HighRisk,     \* names whose risk score is 70 or more
  MaxChanges    \* bound: how often the stores change in a behaviour

ASSUME DomainAssumption ==
  /\ Alias \subseteq Domain
  /\ Local \subseteq Domain /\ SafeSearch \subseteq Domain
  /\ Typo \subseteq Domain /\ Tracking \subseteq Domain
  /\ HighRisk \subseteq Domain
ASSUME BoundAssumption ==
  Client # {} /\ Domain # {} /\ MaxChanges \in Nat

VARIABLES
  profile,      \* [Client -> Profile]: DeviceRegistry
  rule,         \* [Client -> [Domain -> Rule]]: PolicyEngine verdicts
  emergency,    \* PolicyEngine.emergency_mode: read from policy.json at start,
                \* no handler changes it
  safeSearch,   \* PolicyEngine.safe_search_enabled
  listed,       \* names the active blocklist snapshot blocks
  overBudget,   \* clients whose privacy score reached their budget
  actions,      \* ActionDomains
  q,            \* the locals of each query's process() call
  log,          \* what analytics was told about each query
  seen,         \* history: facts that held always / ever during a query
  changes       \* number of store changes so far

stores == <<profile, rule, emergency, safeSearch, listed, overBudget, actions>>
vars == <<profile, rule, emergency, safeSearch, listed, overBudget, actions,
          q, log, seen, changes>>

Profile == {"default", "strict", "bypass"}
Rule == {"normal", "allow", "block"}
Decision == {"profile", "policy", "budget", "list"}
Running == Decision \cup {"respond", "exchange", "inspect", "record"}
Pc == Running \cup {"idle", "done", "dropped"}
Response == {"none", "nxdomain", "action", "safe", "upstream", "servfail"}
Answer == [aliases : SUBSET Alias, internal : BOOLEAN, flux : BOOLEAN]
EmptyAnswer == [aliases |-> {}, internal |-> FALSE, flux |-> FALSE]

BlockFact == {"deny", "typo", "budget", "list", "risk"}
LiftFact == {"allow", "emergency", "bypass"}
Fact == BlockFact \cup LiftFact

(* What the stores say of client c and domain d at this moment. *)
Holds(c, d, f) ==
  \/ f = "deny" /\ rule[c][d] = "block"
  \/ f = "allow" /\ rule[c][d] = "allow"
  \/ f = "typo" /\ d \in Typo
  \/ f = "budget" /\ c \in overBudget /\ d \in Tracking
  \/ f = "list" /\ d \in listed
  \/ f = "risk" /\ profile[c] = "strict" /\ d \in HighRisk
  \/ f = "emergency" /\ emergency
  \/ f = "bypass" /\ profile[c] = "bypass"

Facts(c) == {x \in Domain \X Fact : Holds(c, x[1], x[2])}

QueryState ==
  [pc : Pc, client : Client, dom : Domain,
   mortal : BOOLEAN,               \* its future may be dropped: it serves a
                                   \* TCP connection, or its task was aborted
   limited : BOOLEAN,              \* anomaly_blocked
   stage : {"query", "alias"},     \* what decision() was called for
   target : Domain, prof : Profile,
   blocked : BOOLEAN, bypass : BOOLEAN, unsafe : BOOLEAN,
   answer : Answer, todo : SUBSET Alias, response : Response]

TypeOK ==
  /\ profile \in [Client -> Profile]
  /\ rule \in [Client -> [Domain -> Rule]]
  /\ emergency \in BOOLEAN
  /\ safeSearch \in BOOLEAN
  /\ listed \in SUBSET Domain
  /\ overBudget \in SUBSET Client
  /\ actions \in SUBSET Domain
  /\ q \in [Query -> QueryState]
  /\ log \in [Query -> {"none", "allowed", "blocked", "failure"}]
  /\ seen \in [Query -> [always : SUBSET (Domain \X Fact),
                         ever : SUBSET (Domain \X Fact)]]
  /\ changes \in 0..MaxChanges

(* A query as Arrive finds it: every local of process() at its start. *)
Fresh(mortal, c, d, limited) ==
  [pc |-> "profile", client |-> c, dom |-> d, mortal |-> mortal,
   limited |-> limited, stage |-> "query", target |-> d, prof |-> "default",
   blocked |-> limited, bypass |-> FALSE, unsafe |-> FALSE,
   answer |-> EmptyAnswer, todo |-> {}, response |-> "none"]

Init ==
  /\ profile = [c \in Client |-> "default"]     \* no device is registered
  /\ rule = [c \in Client |-> [d \in Domain |-> "normal"]]
  /\ emergency \in BOOLEAN
  /\ safeSearch \in BOOLEAN
  /\ listed = {}
  /\ overBudget = {}
  /\ actions = Local
  /\ q = [i \in Query |->
            [Fresh(FALSE, CHOOSE c \in Client : TRUE, CHOOSE d \in Domain :
                   TRUE, FALSE) EXCEPT !.pc = "idle"]]
  /\ log = [i \in Query |-> "none"]
  /\ seen = [i \in Query |-> [always |-> {}, ever |-> {}]]
  /\ changes = 0

----------------------------------------------------------------------------
(* One query. *)

At(i, pc) == q[i].pc = pc
IsLocal(i) == q[i].dom \in Local
Active(i) == q[i].pc \in Running

(* What decision() returned: for the query it sets the local flags, for an *)
(* alias in the answer it can only mark the answer unsafe.                 *)
Decide(i, verdict) ==
  q' = [q EXCEPT ![i] =
         IF q[i].stage = "query"
         THEN [q[i] EXCEPT !.blocked = @ \/ verdict = "block",
                           !.bypass = (verdict = "bypass"), !.pc = "respond"]
         ELSE [q[i] EXCEPT !.unsafe = @ \/ verdict = "block",
                           !.pc = "inspect"]]

(* Parsing and check_and_record: the rate guard's verdict for this client. *)
Arrive(i, tcp, c, d, limited) ==
  /\ At(i, "idle")
  /\ q' = [q EXCEPT ![i] = Fresh(tcp, c, d, limited)]
  /\ seen' = [seen EXCEPT ![i] = [always |-> Facts(c), ever |-> Facts(c)]]
  /\ UNCHANGED <<stores, log, changes>>

ReadProfile(i) ==
  /\ At(i, "profile")
  /\ q' = [q EXCEPT ![i].prof = profile[q[i].client], ![i].pc = "policy"]
  /\ UNCHANGED <<stores, log, seen, changes>>

(* Seeded defect: a deny rule is looked up before emergency mode.          *)
ReadPolicyDenyFirst(i) ==
  LET r == rule[q[i].client][q[i].target] IN
  /\ At(i, "policy")
  /\ \/ r = "block" /\ Decide(i, "block")
     \/ /\ r # "block" /\ (emergency \/ q[i].prof = "bypass" \/ r = "allow")
        /\ Decide(i, "bypass")
     \/ /\ ~emergency /\ q[i].prof # "bypass" /\ r = "normal"
        /\ q' = [q EXCEPT ![i].pc = "budget"]
  /\ UNCHANGED <<stores, log, seen, changes>>

(* Under the policy lock: emergency mode, the profile read before it, the  *)
(* rules; then the phishing heuristic, which reads no store.               *)
ReadPolicy(i) ==
  LET r == rule[q[i].client][q[i].target] IN
  /\ At(i, "policy")
  /\ \/ /\ emergency \/ q[i].prof = "bypass" \/ r = "allow"
        /\ Decide(i, "bypass")
     \/ /\ ~emergency /\ q[i].prof # "bypass"
        /\ r = "block" \/ (r = "normal" /\ q[i].target \in Typo)
        /\ Decide(i, "block")
     \/ /\ ~emergency /\ q[i].prof # "bypass"
        /\ r = "normal" /\ q[i].target \notin Typo
        /\ q' = [q EXCEPT ![i].pc = "budget"]
  /\ UNCHANGED <<stores, log, seen, changes>>

CheckBudget(i) ==
  /\ At(i, "budget")
  /\ IF q[i].target \in Tracking /\ q[i].client \in overBudget
     THEN Decide(i, "block")
     ELSE q' = [q EXCEPT ![i].pc = "list"]
  /\ UNCHANGED <<stores, log, seen, changes>>

(* Seeded defect: aliases are not looked up in the blocklist.              *)
CheckBlocklistQueryOnly(i) ==
  /\ At(i, "list")
  /\ Decide(i, IF \/ q[i].target \in listed /\ q[i].stage = "query"
                  \/ q[i].prof = "strict" /\ q[i].target \in HighRisk
               THEN "block" ELSE "normal")
  /\ UNCHANGED <<stores, log, seen, changes>>

CheckBlocklist(i) ==
  /\ At(i, "list")
  /\ Decide(i, IF \/ q[i].target \in listed
                  \/ q[i].prof = "strict" /\ q[i].target \in HighRisk
               THEN "block" ELSE "normal")
  /\ UNCHANGED <<stores, log, seen, changes>>

Reply(i, response) ==
  /\ q' = [q EXCEPT ![i].response = response, ![i].pc = "record"]
  /\ UNCHANGED <<stores, log, seen, changes>>

RespondBlocked(i) ==
  /\ At(i, "respond") /\ q[i].blocked
  /\ Reply(i, "nxdomain")

HasAction(i) == IsLocal(i) /\ q[i].dom \in actions

RespondAction(i) ==
  /\ At(i, "respond") /\ ~q[i].blocked
  /\ HasAction(i)
  /\ Reply(i, "action")

(* Only address-like query types are redirected to the safe target. *)
RespondSafe(i) ==
  /\ At(i, "respond") /\ ~q[i].blocked
  /\ ~HasAction(i)
  /\ ~q[i].bypass /\ safeSearch /\ q[i].dom \in SafeSearch
  /\ Reply(i, "safe")

(* Everything else: other names, and other query types of those names. *)
Forward(i) ==
  /\ At(i, "respond") /\ ~q[i].blocked
  /\ ~HasAction(i)
  /\ q' = [q EXCEPT ![i].pc = "exchange"]
  /\ UNCHANGED <<stores, log, seen, changes>>

(* The 10 s timeout, a transport error or a SERVFAIL answer. *)
ExchangeFails(i) ==
  /\ At(i, "exchange")
  /\ Reply(i, "servfail")

(* Seeded defect: bypassed queries skip DNS rebinding protection too.      *)
ExchangeAnswersBypassed(i, answer) ==
  /\ At(i, "exchange")
  /\ q' = [q EXCEPT ![i].answer = answer, ![i].todo = answer.aliases,
                    ![i].unsafe = answer.internal /\ ~IsLocal(i)
                                    /\ ~q[i].bypass,
                    ![i].pc = "inspect"]
  /\ UNCHANGED <<stores, log, seen, changes>>

(* An answer arrived.  Internal addresses make it unsafe unless the name   *)
(* is local, whatever the decision said.                                   *)
ExchangeAnswers(i, answer) ==
  /\ At(i, "exchange")
  /\ q' = [q EXCEPT ![i].answer = answer, ![i].todo = answer.aliases,
                    ![i].unsafe = answer.internal /\ ~IsLocal(i),
                    ![i].pc = "inspect"]
  /\ UNCHANGED <<stores, log, seen, changes>>

(* decision() once more, for a CNAME target of the answer. *)
InspectAlias(i, d) ==
  /\ At(i, "inspect") /\ ~q[i].bypass
  /\ d \in q[i].todo
  /\ q' = [q EXCEPT ![i].todo = @ \ {d}, ![i].target = d,
                    ![i].stage = "alias", ![i].pc = "profile"]
  /\ UNCHANGED <<stores, log, seen, changes>>

(* Seeded defect: an unsafe answer is refused but not marked blocked.      *)
FinishInspectionUnmarked(i) ==
  LET unsafe == q[i].unsafe \/ (q[i].answer.flux /\ ~IsLocal(i)
                                 /\ ~q[i].bypass)
  IN
  /\ At(i, "inspect")
  /\ q[i].todo = {} \/ q[i].bypass
  /\ q' = [q EXCEPT ![i].unsafe = unsafe,
                    ![i].response = IF unsafe THEN "nxdomain" ELSE "upstream",
                    ![i].pc = "record"]
  /\ UNCHANGED <<stores, log, seen, changes>>

(* Seeded defect: a bypassed query waits for aliases nobody inspects.      *)
FinishInspectionAllAliases(i) ==
  /\ At(i, "inspect")
  /\ q[i].todo = {}
  /\ q' = [q EXCEPT ![i].blocked = q[i].unsafe,
                    ![i].response = IF q[i].unsafe THEN "nxdomain"
                                    ELSE "upstream",
                    ![i].pc = "record"]
  /\ UNCHANGED <<stores, log, seen, changes>>

(* All records inspected; fast-flux is only consulted for filtered,        *)
(* non-local answers.                                                      *)
FinishInspection(i) ==
  LET flux == q[i].answer.flux /\ ~IsLocal(i) /\ ~q[i].bypass
      unsafe == q[i].unsafe \/ flux
  IN
  /\ At(i, "inspect")
  /\ q[i].todo = {} \/ q[i].bypass
  /\ q' = [q EXCEPT ![i].unsafe = unsafe,
                    ![i].blocked = unsafe,
                    ![i].response = IF unsafe THEN "nxdomain" ELSE "upstream",
                    ![i].pc = "record"]
  /\ UNCHANGED <<stores, log, seen, changes>>

(* Facts a query's client could rely on from its arrival until now. *)
Observe ==
  seen' = [i \in Query |->
            IF q'[i].pc \in Running
            THEN [always |-> seen[i].always \cap Facts(q[i].client)',
                  ever |-> seen[i].ever \cup Facts(q[i].client)']
            ELSE seen[i]]

(* record_failure, or PrivacyGuard::record (which can exhaust the client's *)
(* budget) and record_query; then the response leaves.                     *)
Record(i) ==
  /\ At(i, "record")
  /\ q' = [q EXCEPT ![i].pc = "done"]
  /\ log' = [log EXCEPT ![i] =
               IF q[i].response = "servfail" THEN "failure"
               ELSE IF q[i].blocked THEN "blocked" ELSE "allowed"]
  /\ \/ overBudget' = overBudget
     \/ /\ q[i].response # "servfail"
        /\ overBudget' = overBudget \cup {q[i].client}
  /\ UNCHANGED <<profile, rule, emergency, safeSearch, listed, actions,
                 changes>>
  /\ Observe

(* An error of either loop ends try_join!, and a shutdown aborts run; both *)
(* drop the JoinSets and so abort the task of every query of either        *)
(* protocol.                                                               *)
ListenerFails ==
  /\ \E i \in Query : Active(i)
  /\ q' = [i \in Query |-> IF Active(i)
                            THEN [q[i] EXCEPT !.mortal = TRUE]
                            ELSE q[i]]
  /\ UNCHANGED <<stores, log, seen, changes>>

(* The future of a query is dropped, with its locals, at the await it has  *)
(* reached: its TCP connection ended, after 120 s or on an error, or its   *)
(* task was aborted.  An aborted task in the middle of a poll first goes   *)
(* on to an await that does not answer at once, so it may still finish.    *)
Drop(i) ==
  /\ Active(i) /\ q[i].mortal
  /\ q' = [q EXCEPT ![i] = [Fresh(@.mortal, @.client, @.dom, FALSE)
                              EXCEPT !.pc = "dropped"]]
  /\ UNCHANGED <<stores, log, seen, changes>>

----------------------------------------------------------------------------
(* The dashboard, the blocklist refresher and the calendar. *)

Change ==
  /\ changes < MaxChanges
  /\ changes' = changes + 1
  /\ UNCHANGED <<q, log>>
  /\ Observe

SetRule(c, d, r) ==
  /\ rule' = [rule EXCEPT ![c][d] = r]
  /\ UNCHANGED <<profile, emergency, safeSearch, listed, overBudget, actions>>
  /\ Change

SetProfile(c, p) ==
  /\ profile' = [profile EXCEPT ![c] = p]
  /\ UNCHANGED <<rule, emergency, safeSearch, listed, overBudget, actions>>
  /\ Change

SetSafeSearch(b) ==
  /\ safeSearch' = b
  /\ UNCHANGED <<profile, rule, emergency, listed, overBudget, actions>>
  /\ Change

PublishBlocklist(S) ==
  /\ listed' = S
  /\ UNCHANGED <<profile, rule, emergency, safeSearch, overBudget, actions>>
  /\ Change

SetActions(S) ==
  /\ actions' = S
  /\ UNCHANGED <<profile, rule, emergency, safeSearch, listed, overBudget>>
  /\ Change

(* A new day starts, or the privacy configuration grants more. *)
ResetBudget(S) ==
  /\ overBudget' = S
  /\ UNCHANGED <<profile, rule, emergency, safeSearch, listed, actions>>
  /\ Change

----------------------------------------------------------------------------
Step(i) ==
  \/ ReadProfile(i) \/ ReadPolicy(i) \/ CheckBudget(i) \/ CheckBlocklist(i)
  \/ RespondBlocked(i) \/ RespondAction(i) \/ RespondSafe(i) \/ Forward(i)
  \/ ExchangeFails(i)
  \/ \E answer \in Answer : ExchangeAnswers(i, answer)
  \/ \E d \in Domain : InspectAlias(i, d)
  \/ FinishInspection(i)
  \/ Record(i)

Admin ==
  \/ \E c \in Client, d \in Domain, r \in Rule : SetRule(c, d, r)
  \/ \E c \in Client, p \in Profile : SetProfile(c, p)
  \/ \E b \in BOOLEAN : SetSafeSearch(b)
  \/ \E S \in SUBSET Domain : PublishBlocklist(S)
  \/ \E S \in SUBSET Local : SetActions(S)
  \/ \E S \in SUBSET Client : ResetBudget(S)

Next ==
  \/ \E i \in Query, c \in Client, d \in Domain, tcp, limited \in BOOLEAN :
       Arrive(i, tcp, c, d, limited)
  \/ \E i \in Query : Step(i)
  \/ \E i \in Query : Drop(i)
  \/ ListenerFails
  \/ Admin

Fairness == \A i \in Query : WF_vars(Step(i))

Spec == Init /\ [][Next]_vars /\ Fairness

----------------------------------------------------------------------------
Delivered(i) == q[i].response \in {"action", "safe", "upstream"}
Blocked(i) == q[i].response = "nxdomain"

(* A reason to block that was in force from the arrival of a query until   *)
(* its response was fixed is enforced: the query is not answered, and no   *)
(* answer leads through an alias blocked all that time, unless something   *)
(* that lifts filtering for the name or the alias held at some moment.     *)
StableBlockEnforced ==
  \A i \in Query :
    Delivered(i) =>
      \A d \in {q[i].dom}
               \cup (IF q[i].response = "upstream"
                     THEN q[i].answer.aliases ELSE {}) :
        (\E f \in BlockFact : <<d, f>> \in seen[i].always) =>
          \E e \in {q[i].dom, d}, g \in LiftFact : <<e, g>> \in seen[i].ever

(* An exemption that was in force all the time is honoured: only the rate  *)
(* guard and DNS rebinding protection still block such a query.            *)
StableLiftHonoured ==
  \A i \in Query :
    (Blocked(i) /\ \E g \in LiftFact : <<q[i].dom, g>> \in seen[i].always)
      => q[i].limited \/ (q[i].answer.internal /\ ~IsLocal(i))

(* No decision, not even emergency mode or a bypass profile, lets an       *)
(* internal address for an external name through.                          *)
NoRebinding ==
  \A i \in Query :
    q[i].response = "upstream" => (q[i].answer.internal => IsLocal(i))

(* Analytics is told what the client was told. *)
LogMatchesResponse ==
  \A i \in Query :
    At(i, "done") =>
      /\ log[i] = "failure" <=> q[i].response = "servfail"
      /\ log[i] = "blocked" <=> Blocked(i)
      /\ log[i] = "allowed" <=> Delivered(i)

(* Every query the proxy took up is answered, unless its TCP connection    *)
(* went away or the end of the listeners aborted its task: no store change *)
(* can make it wait for ever, and a UDP query whose listeners live is      *)
(* never left without an answer.                                           *)
EveryQueryAnswered ==
  \A i \in Query :
    At(i, "profile") ~> \/ At(i, "done")
                        \/ At(i, "dropped") /\ q[i].mortal
=============================================================================
