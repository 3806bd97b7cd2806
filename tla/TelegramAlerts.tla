--------------------------- MODULE TelegramAlerts ---------------------------
(***************************************************************************)
(* send_dns_alert (crates/daemon/src/telegram.rs), called at the end of    *)
(* any number of queries at the same time: a permit taken without waiting, *)
(* the bounded cache of recent alerts, and a task that sends with the      *)
(* permit. An alert stands for its dedupe_key: client, domain, type and    *)
(* outcome.                                                                *)
(***************************************************************************)
EXTENDS Integers, FiniteSets, FiniteSetsExt

CONSTANTS
  Alert,
  Caller,     \* queries that may raise an alert at the same time
  Permits,    \* of LIMIT (4)
  Silence,    \* time_to_live of RECENT, in ticks (300 s)
  Room,       \* max_capacity of RECENT (10,000)
  MaxEvictions, \* bound: evictions of a behaviour
  LastMoment  \* bound: of the clock

ASSUME AlertAssumption ==
  /\ IsFiniteSet(Caller) /\ Alert # {}
  /\ Permits \in Nat \ {0} /\ Silence \in Nat \ {0} /\ LastMoment \in Nat
  /\ Room \in Nat /\ MaxEvictions \in Nat

VARIABLES
  moment,
  caller,   \* per caller: what it does with which alert
  recent,   \* RECENT: when each alert in it was put there; Absent otherwise
  passed,   \* history: how many copies of an alert were passed on, when
  evicted   \* history: how often an alert left the cache for others, when

alertVars == <<moment, caller, recent, passed, evicted>>

Absent == -1
Resting == [pc |-> "idle", alert |-> CHOOSE a \in Alert : TRUE]

AlertTypeOK ==
  /\ moment \in 0..LastMoment
  /\ caller \in [Caller -> [pc : {"idle", "check", "insert", "send"}, alert : Alert]]
  /\ recent \in [Alert -> {Absent} \cup (0..moment)]
  /\ passed \in [Alert -> [0..LastMoment -> Nat]]
  /\ evicted \in [Alert -> [0..LastMoment -> Nat]]

AlertInit ==
  /\ moment = 0
  /\ caller = [c \in Caller |-> Resting]
  /\ recent = [a \in Alert |-> Absent]
  /\ passed = [a \in Alert |-> [m \in 0..LastMoment |-> 0]]
  /\ evicted = [a \in Alert |-> [m \in 0..LastMoment |-> 0]]

-----------------------------------------------------------------------------
CallerAt(c, pc) == caller[c].pc = pc
Holding == {c \in Caller : ~CallerAt(c, "idle")}

(* The end of process(): alerts are on, and the score or the block calls   *)
(* for one. Without a permit nothing happens.                              *)
(* Seeded defect: the permit is taken by the task that sends.                *)
RaiseUnlimited(c, a) ==
  /\ CallerAt(c, "idle")
  /\ caller' = [caller EXCEPT ![c] = [pc |-> "check", alert |-> a]]
  /\ UNCHANGED <<moment, recent, passed, evicted>>

Raise(c, a) ==
  /\ CallerAt(c, "idle") /\ Cardinality(Holding) < Permits
  /\ caller' = [caller EXCEPT ![c] = [pc |-> "check", alert |-> a]]
  /\ UNCHANGED <<moment, recent, passed, evicted>>

InCache(a) == recent[a] # Absent /\ moment - recent[a] < Silence

(* get and insert are two steps of a cache that other threads use.         *)
Check(c) ==
  /\ CallerAt(c, "check")
  /\ caller' = [caller EXCEPT ![c] =
                  IF InCache(@.alert) THEN Resting ELSE [@ EXCEPT !.pc = "insert"]]
  /\ UNCHANGED <<moment, recent, passed, evicted>>

Remember(c) ==
  /\ CallerAt(c, "insert")
  /\ recent' = [recent EXCEPT ![caller[c].alert] = moment]
  /\ passed' = [passed EXCEPT ![caller[c].alert][moment] = @ + 1]
  /\ caller' = [caller EXCEPT ![c].pc = "send"]
  /\ UNCHANGED <<moment, evicted>>

(* The cache holds more than it has room for: its policy picks an alert to *)
(* leave, whichever, and an expired one still takes room.                  *)
Remembered == {a \in Alert : recent[a] # Absent}

Evictions ==
  MapThenSumSet(LAMBDA p : evicted[p[1]][p[2]], Alert \X (0..LastMoment))

EvictAlert(a) ==
  /\ a \in Remembered /\ Cardinality(Remembered) > Room
  /\ Evictions < MaxEvictions
  /\ recent' = [recent EXCEPT ![a] = Absent]
  /\ evicted' = [evicted EXCEPT ![a][moment] = @ + 1]
  /\ UNCHANGED <<moment, caller, passed>>

(* Sent, refused by Telegram, or alerts switched off meanwhile.            *)
SendAlert(c) ==
  /\ CallerAt(c, "send")
  /\ caller' = [caller EXCEPT ![c] = Resting]
  /\ UNCHANGED <<moment, recent, passed, evicted>>

(* Between the permit and the insertion nothing waits.                     *)
AlertTick ==
  /\ moment < LastMoment /\ moment' = moment + 1
  /\ \A c \in Caller : ~CallerAt(c, "check") /\ ~CallerAt(c, "insert")
  /\ UNCHANGED <<caller, recent, passed, evicted>>

AlertNext ==
  \/ \E c \in Caller :
       \/ \E a \in Alert : Raise(c, a)
       \/ Check(c) \/ Remember(c) \/ SendAlert(c)
  \/ \E a \in Alert : EvictAlert(a)
  \/ AlertTick

AlertSpec == AlertInit /\ [][AlertNext]_alertVars

-----------------------------------------------------------------------------
(* "Repeated copies of the same device/domain/query outcome are quieted    *)
(* for five minutes": queries that end at the same time may all find the   *)
(* cache without the alert, but never more of them than there are permits, *)
(* and none after that until the alert has been quiet for five minutes.    *)
(* Where more alerts than the cache has room for drive this one out, each  *)
(* eviction lets as many pass again.                                       *)
CopiesBounded ==
  \A a \in Alert, m \in 0..LastMoment :
    /\ passed[a][m] <= Permits * (1 + evicted[a][m])
    /\ \A n \in (m + 1)..LastMoment :
         passed[a][m] > 0 /\ passed[a][n] > 0 /\ n - m < Silence =>
           \E t \in m..n : evicted[a][t] > 0
=============================================================================
