---------------------------- MODULE AnomalyGuard ----------------------------
(***************************************************************************)
(* AnomalyDetector (crates/daemon/src/anomaly.rs) for one client: the      *)
(* concurrent check_and_record calls of the client's queries, the          *)
(* dashboard's release, and the eviction of the client's window from the   *)
(* cache.  A call reads the clock, fetches the window, decides under the   *)
(* window's lock, and after unlocking updates the set the dashboard shows. *)
(* A call that fetched a window keeps it when it is dropped from the cache.*)
(* The windows the client has had are numbered; dropping one ends its      *)
(* number, and what passed it stays in the history.                        *)
(*                                                                         *)
(* The clock counts in units of which the 60 s window has Window.          *)
(***************************************************************************)
EXTENDS Integers, FiniteSets, Sequences

CONSTANTS
  Query,          \* the client's queries in flight
  Limit,          \* 12,000 in the code
  Window,         \* length of the counting window and of a quarantine
  MaxDelay,       \* assumption: a call ends this soon after its clock read
  Horizon,        \* bound: the clock stops here
  MaxDrops        \* bound: how often a window of this client is dropped

ASSUME RateAssumption == Limit \in Nat \ {0}
ASSUME ClockAssumption ==
  /\ Window \in Nat \ {0} /\ MaxDelay \in 0..(Window - 1)
  /\ Horizon \in Nat /\ MaxDrops \in Nat

VARIABLES
  now,        \* the clock
  current,    \* number of the cached window, 0 if none is cached
  window,     \* [Generation -> ClientWindow]
  dropped,    \* history: when windows 1, 2, ... were dropped
  listed,     \* is the client in `quarantined`
  releasing,  \* unquarantine() is between its two awaits
  call,       \* locals of the calls
  passed,     \* history: queries let through, by window
  clean       \* history: no release, eviction or overtaking disturbed
              \* the order of the updates of `quarantined`

rateVars == <<now, current, window, dropped, listed, releasing, call, passed, clean>>

Time == 0..Horizon
Generation == 1..(MaxDrops + 1)

(* until = 0 stands for None: a deadline is never 0. *)
ClientWindow ==
  [started : Time, count : 0..Limit, until : 0..(Horizon + Window)]
NewWindow == [started |-> 0, count |-> 0, until |-> 0]

CallState ==
  [pc : {"idle", "lookup", "check", "insert", "remove"}, at : Time,
   gen : {0} \cup Generation]
Idle == [pc |-> "idle", at |-> 0, gen |-> 0]

(* A query let through: its arrival, and its number among those of that    *)
(* moment.                                                                 *)
Passage == [at : Time, n : Nat \ {0}]

RateTypeOK ==
  /\ now \in Time
  /\ current \in {0} \cup Generation
  /\ window \in [Generation -> ClientWindow]
  /\ dropped \in Seq(Time) /\ Len(dropped) <= MaxDrops
  /\ listed \in BOOLEAN
  /\ releasing \in BOOLEAN
  /\ call \in [Query -> CallState]
  /\ passed \in [Generation -> SUBSET Passage]
  /\ clean \in BOOLEAN

RateInit ==
  /\ now = 0
  /\ current = 0
  /\ window = [g \in Generation |-> NewWindow]
  /\ dropped = <<>>
  /\ listed = FALSE
  /\ releasing = FALSE
  /\ call = [t \in Query |-> Idle]
  /\ passed = [g \in Generation |-> {}]
  /\ clean = TRUE

Is(t, pc) == call[t].pc = pc
Quiet == \A t \in Query : Is(t, "idle")
Updating == {t \in Query : call[t].pc \in {"insert", "remove"}}

(* A window that was dropped from the cache lives on in the calls that     *)
(* fetched it.                                                             *)
Drop ==
  /\ current' = 0
  /\ \/ current = 0 /\ dropped' = dropped
     \/ /\ current # 0 /\ Len(dropped) < MaxDrops
        /\ dropped' = Append(dropped, now)
  /\ UNCHANGED <<now, window, call, passed>>

----------------------------------------------------------------------------
Arrive(t) ==
  /\ Is(t, "idle")
  /\ call' = [call EXCEPT ![t] = [pc |-> "lookup", at |-> now, gen |-> 0]]
  /\ UNCHANGED <<now, current, window, dropped, listed, releasing, passed,
                 clean>>

(* get_with: the cached window, or a new one starting at the caller's now. *)
Lookup(t) ==
  /\ Is(t, "lookup")
  /\ LET g == IF current # 0 THEN current ELSE Len(dropped) + 1 IN
     /\ current' = g
     /\ window' = IF current # 0 THEN window
                  ELSE [window EXCEPT ![g].started = call[t].at]
     /\ call' = [call EXCEPT ![t].pc = "check", ![t].gen = g]
  /\ UNCHANGED <<now, dropped, listed, releasing, passed, clean>>

Expired(w, t) == w.until # 0 /\ w.until <= call[t].at

(* Seeded defect: a new window keeps the old count.                        *)
RefreshedKeepsCount(w, t) ==
  IF Expired(w, t) \/ (w.until = 0 /\ call[t].at - w.started >= Window)
  THEN [w EXCEPT !.started = call[t].at, !.until = 0]
  ELSE w

(* Seeded defect: a new window keeps the old start.                        *)
RefreshedKeepsStart(w, t) ==
  IF Expired(w, t) \/ (w.until = 0 /\ call[t].at - w.started >= Window)
  THEN [w EXCEPT !.count = 0, !.until = 0]
  ELSE w

(* The window as the query finds it: begun anew when its quarantine or its *)
(* length is over.                                                         *)
Refreshed(w, t) ==
  IF Expired(w, t) \/ (w.until = 0 /\ call[t].at - w.started >= Window)
  THEN [started |-> call[t].at, count |-> 0, until |-> 0]
  ELSE w

(* What the query finds, and whether it is refused by it. *)
Found(t) == Refreshed(window[call[t].gen], t)
Full(t) == Found(t).until = 0 /\ Found(t).count = Limit
Refused(t) == Found(t).until # 0 \/ Full(t)

(* What follows the locked section: an update of `quarantined` or none. *)
Conclude(t, pc) ==
  /\ call' = [call EXCEPT ![t] = IF pc = "idle" THEN Idle
                                 ELSE [@ EXCEPT !.pc = pc, !.gen = 0]]
  /\ clean' = (clean /\ (pc # "idle" => Updating = {}))

During(P, S) == {q \in P : q.at \in S}
(* The query of t, as the next of its moment to join P. *)
Pass(t, P) ==
  [at |-> call[t].at, n |-> Cardinality(During(P, {call[t].at})) + 1]

(* The window of the call becomes w, and the queries of Q have passed. *)
Store(t, w, Q) ==
  /\ window' = [window EXCEPT ![call[t].gen] = w]
  /\ passed' = [passed EXCEPT ![call[t].gen] = @ \cup Q]

(* The section under the window's lock. *)
Check(t) ==
  LET w == Found(t) IN
  /\ Is(t, "check")
  /\ \/ /\ w.until # 0                                      \* quarantined
        /\ Store(t, w, {})
        /\ Conclude(t, "idle")
     \/ /\ Full(t)                                  \* becomes quarantined
        /\ Store(t, [w EXCEPT !.count = 0, !.until = call[t].at + Window], {})
        /\ Conclude(t, "insert")
     \/ /\ ~Refused(t)
        /\ Store(t, [w EXCEPT !.count = @ + 1], {Pass(t, passed[call[t].gen])})
        /\ Conclude(t, IF Expired(window[call[t].gen], t) THEN "remove"
                       ELSE "idle")
  /\ UNCHANGED <<now, current, dropped, listed, releasing>>

(* Seeded defect: the client leaves the dashboard only when it is released.*)
UpdateSetInsertOnly(t) ==
  /\ t \in Updating
  /\ listed' = TRUE
  /\ call' = [call EXCEPT ![t] = Idle]
  /\ UNCHANGED <<now, current, window, dropped, releasing, passed, clean>>

(* The write lock of `quarantined` is granted. *)
UpdateSet(t) ==
  /\ t \in Updating
  /\ listed' = Is(t, "insert")
  /\ call' = [call EXCEPT ![t] = Idle]
  /\ UNCHANGED <<now, current, window, dropped, releasing, passed, clean>>

(* unquarantine(): the window is dropped, then the client leaves the set.  *)
Unquarantine ==
  /\ ~releasing
  /\ releasing' = TRUE
  /\ Drop
  /\ clean' = FALSE
  /\ UNCHANGED listed

FinishRelease ==
  /\ releasing
  /\ releasing' = FALSE
  /\ listed' = FALSE
  /\ clean' = (Quiet /\ current = 0)
  /\ UNCHANGED <<now, current, window, dropped, call, passed>>

(* The cache drops the window: idle for five minutes, or 10,000 clients.   *)
EvictWindow ==
  /\ current # 0
  /\ Drop
  /\ clean' = (clean /\ Quiet /\ ~listed)
  /\ UNCHANGED <<listed, releasing>>

Tick ==
  /\ now < Horizon
  /\ \A t \in Query : Is(t, "idle") \/ now - call[t].at < MaxDelay
  /\ now' = now + 1
  /\ UNCHANGED <<current, window, dropped, listed, releasing, call, passed,
                 clean>>

RateNext ==
  \/ \E t \in Query : Arrive(t) \/ Lookup(t) \/ Check(t) \/ UpdateSet(t)
  \/ Unquarantine \/ FinishRelease \/ EvictWindow \/ Tick

RateSpec == RateInit /\ [][RateNext]_rateVars

----------------------------------------------------------------------------
(* What passed in the moments of S, whichever window let it through, and   *)
(* the windows dropped in them.                                            *)
Passages(S) == UNION {{g} \X During(passed[g], S) : g \in Generation}
Drops(S) == {g \in DOMAIN dropped : dropped[g] \in S}

(* Counting windows are fixed, not sliding, queries are counted late and   *)
(* out of order, a quarantine lasts from the arrival of the query that     *)
(* caused it, and a release or an eviction begins a fresh window while     *)
(* calls still use the old one: in any span of the window's length less    *)
(* twice the delay, all windows together let at most two windows' worth of *)
(* queries pass, and one more for each time the window was dropped.        *)
RateBound ==
  \A a \in Time :
    Cardinality(Passages(a..(a + Window - 2 * MaxDelay)))
      <= (2 + Cardinality(Drops(a..(a + Window - MaxDelay)))) * Limit

(* A query puts its client in quarantine only when Limit others arrived    *)
(* within a window and the delay, and is refused only while such a burst   *)
(* is at most a quarantine longer ago.  A slow client is never refused.    *)
OnlyFloodersBlocked ==
  \A t \in Query :
    LET reach == IF Full(t) THEN Window ELSE 2 * Window IN
    Is(t, "check") /\ Refused(t) =>
      Cardinality(During(passed[call[t].gen],
        (call[t].at - reach - MaxDelay + 1)..(call[t].at + MaxDelay))) >= Limit

(* The dashboard's set, updated outside the window's lock, agrees with the *)
(* window whenever no call is under way, unless updates overtook each      *)
(* other or the window was dropped under a call or while it was listed.    *)
DashboardAgrees ==
  clean /\ Quiet /\ ~releasing =>
    (listed <=> current # 0 /\ window[current].until # 0)

(* The dashboard's card reads "Devices currently restricted by the DNS     *)
(* request rate guard": a listed device is one whose next query would be   *)
(* refused.                                                                *)
ListedMeansRestricted ==
  Quiet /\ ~releasing /\ listed /\ current # 0 => window[current].until > now
=============================================================================
