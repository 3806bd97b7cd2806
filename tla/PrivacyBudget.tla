---------------------------- MODULE PrivacyBudget ----------------------------
(***************************************************************************)
(* The daily privacy budget of devices (crates/daemon/src/privacy.rs) and  *)
(* the log it is rebuilt from at every start (main.rs, privacy_summaries). *)
(* The guard keeps what it has seen since the process started; the score   *)
(* persisted before that is added to it. Activity is kept here as the set  *)
(* of queries it was built from, and scored as both score() and the SQL of *)
(* privacy_summaries do.                                                   *)
(***************************************************************************)
EXTENDS AnalyticsStore

CONSTANTS
  Device,
  Kind,        \* of an edge: company, identifier, application, network, ...
  Budget,      \* budget of every device; the guard is enabled
  DeviceCap,   \* devices with activity or a persisted score (10,000)
  Day          \* ticks of a day

ASSUME BudgetAssumption ==
  /\ Budget \in 1..100 /\ DeviceCap \in Nat \ {0} /\ Day \in Nat \ {0}
  /\ \A ev \in Event : What[ev].dev \in Device

VARIABLES
  activity,    \* per device with an entry: the day and the queries counted
  baseline,    \* per device with a persisted score: the day and the queries
  served,      \* history: queries recorded before this process
  seeded       \* history: the summaries of this start could be read

guardVars == <<activity, baseline, served, seeded>>
vars == <<storeVars, guardVars>>

Today == now \div Day

Dev(n) == What[sent[n].ev].dev
EdgesSet(n) == Range(What[sent[n].ev].edges)

(* What has been seen of a device on a day: its queries, with the time of  *)
(* each, and the distinct things they were related to.                     *)
Evidence ==
  [day : 0..(Horizon \div Day), seen : SUBSET (Serial \X (0..now)), edges : SUBSET Edge]

TypeOK ==
  /\ StoreTypeOK
  /\ DOMAIN activity \subseteq Device /\ DOMAIN baseline \subseteq Device
  /\ \A d \in DOMAIN activity : activity[d] \in Evidence
  /\ \A d \in DOMAIN baseline : baseline[d] \in Evidence
  /\ served \in 0..Len(sent) /\ seeded \in BOOLEAN

Nothing == [day |-> Today, seen |-> {}, edges |-> {}]
NoEntries == [d \in {} |-> Nothing]

Init ==
  /\ StoreInit
  /\ activity = NoEntries /\ baseline = NoEntries
  /\ served = 0 /\ seeded = TRUE

-----------------------------------------------------------------------------
(* The score; hours before six are quiet.                                  *)

AtMost(k, n) == IF n < k THEN n ELSE k
Counted(edges, kind, k) == AtMost(k, Cardinality({e \in edges : Kind[e] = kind}))

Points(edges) ==
  8 * Counted(edges, "company", 4) + Counted(edges, "identifier", 20)
    + 2 * Counted(edges, "application", 5) + 2 * Counted(edges, "network", 7)
    + 3 * Counted(edges, "country", 5)

(* uniqueness * 18 + quiet * 10, rounded to the nearest.                   *)
Ratios(seen) ==
  LET total == Cardinality(seen)
      domains == Cardinality({What[sent[s[1]].ev].dom : s \in seen})
      quiet == Cardinality({s \in seen : 4 * (s[2] % Day) < Day})
  IN  IF total = 0 THEN 0 ELSE (36 * domains + 20 * quiet + total) \div (2 * total)

Score(evidence) == AtMost(100, Points(evidence.edges) + Ratios(evidence.seen))

(* reset_if_needed: an entry of another day counts as empty.               *)
TodayOf(table, d) ==
  IF d \in DOMAIN table /\ table[d].day = Today THEN table[d] ELSE Nothing

(* Seeded defect: the larger of both scores, which gave every restart a      *)
(* second budget.                                                            *)
OverBudgetMax(d) ==
  \/ Score(TodayOf(baseline, d)) >= Budget
  \/ Score(TodayOf(activity, d)) >= Budget

OverBudget(d) ==
  AtMost(100, Score(TodayOf(baseline, d)) + Score(TodayOf(activity, d))) >= Budget

(* entry(device).or_default() and reset_if_needed.                         *)
Entered(d, evidence) ==
  [e \in DOMAIN activity \cup {d} |-> IF e = d THEN evidence ELSE activity[e]]

-----------------------------------------------------------------------------
(* should_block, for a name that is tracking or carries an identifier: the *)
(* lookup makes an entry for the device, over the capacity too. A query    *)
(* that is polled while it is aborted may still be decided and charged.    *)
Tracking(ev) ==
  \E i \in DOMAIN What[ev].edges : Kind[What[ev].edges[i]] \in {"company", "identifier"}

Decide(ev) ==
  /\ Running /\ Tracking(ev)
  /\ activity' = Entered(What[ev].dev, TodayOf(activity, What[ev].dev))
  /\ UNCHANGED <<storeVars, baseline, served, seeded>>

(* The end of process(): a failure is only logged; any other answer is     *)
(* charged to the device, unless the table of devices is full, and logged. *)
Charged(ev) ==
  /\ ~What[ev].failed
  /\ \/ Cardinality(DOMAIN activity) < DeviceCap
     \/ What[ev].dev \in DOMAIN activity

Charge(ev) ==
  LET d == What[ev].dev
      before == TodayOf(activity, d)
  IN  Entered(d, [before EXCEPT !.seen = @ \cup {<<Len(sent) + 1, now>>},
                                !.edges = @ \cup Range(What[ev].edges)])

Finish(ev) ==
  /\ Record(ev)
  /\ activity' = IF Charged(ev) THEN Charge(ev) ELSE activity
  /\ UNCHANGED <<baseline, served, seeded>>

(* privacy_summaries: the rows of today by device, failures included, for  *)
(* the devices with the most queries.                                      *)
(* Seeded defect: the summaries look one hour back instead of to midnight.   *)
OfLastHour(table, d) == {r \in table : Dev(r.n) = d /\ r.at = now}

Of(table, d) == {r \in table : Dev(r.n) = d /\ r.at \div Day = Today}
RowsOf(d) == Of(rows, d)

Summary(d) ==
  [day |-> Today, seen |-> {<<r.n, r.at>> : r \in RowsOf(d)},
   edges |-> {r.edge : r \in Of(rels, d)}]

Summarised(D) ==
  /\ D \subseteq {d \in Device : RowsOf(d) # {}}
  /\ Cardinality(D) = AtMost(DeviceCap, Cardinality({d \in Device : RowsOf(d) # {}}))
  /\ \A d \in D, e \in Device \ D : Cardinality(RowsOf(d)) >= Cardinality(RowsOf(e))

(* Start of the process: the guard is seeded before any service runs. The  *)
(* summaries may fail; the guard then starts without them.                 *)
Start ==
  /\ Boot
  /\ activity' = NoEntries
  /\ served' = Len(sent)
  /\ \/ /\ seeded' = TRUE
        /\ \E D \in SUBSET Device :
             /\ Summarised(D)
             /\ baseline' = [d \in D |-> Summary(d)]
     \/ seeded' = FALSE /\ baseline' = NoEntries

Next ==
  \/ \E ev \in Event : Decide(ev) \/ Finish(ev)
  \/ StoreStep /\ UNCHANGED guardVars
  \/ Start
  \/ (Exit \/ Crash) /\ UNCHANGED guardVars

Spec == Init /\ [][Next]_vars

-----------------------------------------------------------------------------
(* What a device did today and the log has not lost: the queries of this   *)
(* process, and the committed ones of earlier processes, less what was     *)
(* deleted.                                                                *)
Due(d) ==
  {n \in Serial :
     /\ Dev(n) = d /\ ~What[sent[n].ev].failed
     /\ sent[n].at \div Day = Today
     /\ n > served \/ n \in saved \ removed}

Serials(evidence) == {s[1] : s \in evidence.seen}

(* The capacity was never reached and the last start could read the log.   *)
Tracked ==
  /\ seeded
  /\ Cardinality(DOMAIN activity \cup {Dev(n) : n \in Serial}) <= DeviceCap

(* A query counts once: what the persisted score stands for and what this  *)
(* process has seen are disjoint, through crashes, flushes and restarts,   *)
(* and together they cover everything due.                                 *)
ChargedOnce ==
  Running =>
    \A d \in Device :
      LET old == Serials(TodayOf(baseline, d))
          new == Serials(TodayOf(activity, d))
      IN  /\ old \cap new = {}
          /\ Tracked => Due(d) \subseteq old \cup new

(* "So a daemon restart cannot silently restore tracking access for devices*)
(* that already spent their budget": once the distinct companies, identi-  *)
(* fiers, applications, networks and countries of the day amount to the    *)
(* budget, the device stays over it however the day is cut by restarts.    *)
StaysSpent ==
  Running /\ Tracked =>
    \A d \in Device :
      Points(UNION {EdgesSet(n) : n \in Due(d)}) >= Budget => OverBudget(d)
=============================================================================
