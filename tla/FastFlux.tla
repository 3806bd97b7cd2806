------------------------------ MODULE FastFlux ------------------------------
(***************************************************************************)
(* FastFluxDetector (crates/risk/src/lib.rs) as the resolver path uses it: *)
(* under its lock, the addresses of an answer are recorded one by one, and *)
(* the domain is then judged. Domains that are exempt never come here. The *)
(* detector keeps a history per domain and an index of the domains by age. *)
(***************************************************************************)
EXTENDS Integers, Sequences, FiniteSets

CONSTANTS
  Domain, Address,
  Net,        \* the /16 of an IPv4 address; an IPv6 address is in none
  NoNet,
  DomainCap,  \* MAX_TRACKED_DOMAINS (10,000)
  Keep,       \* resolutions kept of a domain (20)
  Many,       \* different addresses that are suspicious (10)
  Window,     \* HISTORY_TTL, and the ten minutes of the verdict, in ticks
  Resolved,   \* the address lists that answers bring, none of them empty
  MaxAnswers, \* bound: answers of a behaviour
  LastSecond  \* bound: of the clock

ASSUME FluxAssumption ==
  /\ DomainCap \in Nat \ {0} /\ Keep \in Nat \ {0} /\ Many \in Nat \ {0}
  /\ Resolved \subseteq Seq(Address) \ {<<>>}
  /\ Window \in Nat \ {0} /\ MaxAnswers \in Nat /\ LastSecond \in Nat

VARIABLES
  second,       \* clock
  history,      \* per tracked domain: resolutions, last_seen, sequence
  least_recent, \* the index: pairs of a sequence number and a domain
  sequence,
  locked,       \* the answer in hand: its domain, the addresses still to be
                \* recorded; a domain that is no domain when there is none
  verdict,      \* the last judgement, until the clock or an answer moves on
  answers,
  log           \* history: every resolution recorded, in order

fluxVars == <<second, history, least_recent, sequence, locked, verdict, answers, log>>

CONSTANT NoDomain
Nobody == [dom |-> NoDomain, todo |-> <<>>]
NoVerdict == [dom |-> NoDomain, flux |-> FALSE]

FluxInit ==
  /\ second = 0 /\ history = [d \in {} |-> 0] /\ least_recent = {} /\ sequence = 0
  /\ locked = Nobody /\ verdict = NoVerdict /\ answers = 0 /\ log = <<>>

Tracked == DOMAIN history

FluxTypeOK ==
  /\ second \in 0..LastSecond /\ sequence \in Nat
  /\ Tracked \subseteq Domain
  /\ \A d \in Tracked :
       /\ history[d].resolutions \in Seq([at : 0..LastSecond, ip : Address])
       /\ history[d].last_seen \in 0..LastSecond
       /\ history[d].sequence \in 1..sequence
  /\ least_recent \subseteq (1..sequence) \X Domain
  /\ locked.dom \in Domain \cup {NoDomain} /\ verdict.flux \in BOOLEAN

-----------------------------------------------------------------------------
Answer(d, ips) ==
  /\ locked = Nobody /\ answers < MaxAnswers /\ answers' = answers + 1
  /\ locked' = [dom |-> d, todo |-> ips]
  /\ verdict' = NoVerdict
  /\ UNCHANGED <<second, history, least_recent, sequence, log>>

(* The index is walked from the oldest while entries are expired.          *)
Expired(d) == second - history[d].last_seen >= Window
Oldest(index) == CHOOSE p \in index : \A q \in index : p[1] <= q[1]

Aged ==
  {p \in least_recent :
     \A q \in least_recent : q[1] <= p[1] /\ q[2] \in Tracked => Expired(q[2])}

Unexpired == least_recent \ Aged
Kept == Tracked \ {p[2] : p \in Aged}

Latest(s) == IF Len(s) > Keep THEN Tail(s) ELSE s

(* record_resolution of a domain that is tracked.                          *)
(* Seeded defect: the window is that of the domain's first resolution.       *)
RefreshStale(d, ip) ==
  /\ d \in Kept
  /\ history' = [e \in Kept |->
       IF e # d THEN history[e]
       ELSE [resolutions |-> Latest(Append(history[d].resolutions, [at |-> second, ip |-> ip])),
             last_seen |-> history[d].last_seen, sequence |-> sequence + 1]]
  /\ least_recent' = (Unexpired \ {<<history[d].sequence, d>>}) \cup {<<sequence + 1, d>>}

Refresh(d, ip) ==
  /\ d \in Kept
  /\ history' = [e \in Kept |->
       IF e # d THEN history[e]
       ELSE [resolutions |-> Latest(Append(history[d].resolutions, [at |-> second, ip |-> ip])),
             last_seen |-> second, sequence |-> sequence + 1]]
  /\ least_recent' = (Unexpired \ {<<history[d].sequence, d>>}) \cup {<<sequence + 1, d>>}

(* And of one that is not; at the cap the oldest gives way.                *)
Evicted ==
  IF Cardinality(Kept) >= DomainCap /\ Unexpired # {} THEN {Oldest(Unexpired)} ELSE {}

Track(d, ip) ==
  /\ d \notin Kept
  /\ history' = [e \in (Kept \ {p[2] : p \in Evicted}) \cup {d} |->
       IF e # d THEN history[e]
       ELSE [resolutions |-> <<[at |-> second, ip |-> ip]>>,
             last_seen |-> second, sequence |-> sequence + 1]]
  /\ least_recent' = (Unexpired \ Evicted) \cup {<<sequence + 1, d>>}

RecordResolution ==
  /\ locked.todo # <<>>
  /\ LET ip == Head(locked.todo)
     IN  /\ Refresh(locked.dom, ip) \/ Track(locked.dom, ip)
         /\ log' = Append(log, [dom |-> locked.dom, ip |-> ip, at |-> second])
  /\ sequence' = sequence + 1
  /\ locked' = [locked EXCEPT !.todo = Tail(@)]
  /\ UNCHANGED <<second, verdict, answers>>

-----------------------------------------------------------------------------
(* Many addresses, and not all of one /16.                                 *)
Suspicious(ips) ==
  /\ Cardinality(ips) >= Many
  /\ \/ \E ip \in ips : Net[ip] = NoNet
     \/ \E ip, jp \in ips : Net[ip] # Net[jp]

(* What is too old is popped from the front, up to the first that is not.  *)
Popped(resolutions) ==
  CHOOSE n \in 0..Len(resolutions) :
    /\ \A i \in 1..n : second - resolutions[i].at > Window
    /\ n < Len(resolutions) => second - resolutions[n + 1].at <= Window

Recent(resolutions) ==
  SubSeq(resolutions, Popped(resolutions) + 1, Len(resolutions))
Addresses(resolutions) == {resolutions[i].ip : i \in DOMAIN resolutions}

(* is_fast_flux forgets what is too old, and the lock is released.         *)
IsFastFlux ==
  LET d == locked.dom
      recent == IF d \in Tracked THEN Recent(history[d].resolutions) ELSE <<>>
  IN  /\ d # NoDomain /\ locked.todo = <<>>
      /\ history' = [e \in Tracked |->
                       IF e = d THEN [history[e] EXCEPT !.resolutions = recent]
                       ELSE history[e]]
      /\ verdict' = [dom |-> d, flux |-> Suspicious(Addresses(recent))]
      /\ locked' = Nobody
      /\ UNCHANGED <<second, least_recent, sequence, answers, log>>

FluxTick ==
  /\ locked = Nobody /\ second < LastSecond /\ second' = second + 1
  /\ verdict' = NoVerdict
  /\ UNCHANGED <<history, least_recent, sequence, locked, answers, log>>

FluxNext ==
  \/ \E d \in Domain, ips \in Resolved : Answer(d, ips)
  \/ RecordResolution \/ IsFastFlux \/ FluxTick

FluxSpec == FluxInit /\ [][FluxNext]_fluxVars

-----------------------------------------------------------------------------
(* The judgement by everything that was ever recorded.                     *)
Within(d, age) == {i \in DOMAIN log : log[i].dom = d /\ second - log[i].at <= age}
Seen(d, age) == {log[i].ip : i \in Within(d, age)}

(* The domains active at a time: resolved less than a window before.       *)
Active(t) == {log[i].dom : i \in {j \in DOMAIN log : log[j].at <= t /\ t - log[j].at < Window}}

(* Never more domains than the detector tracks, over the window.           *)
Roomy == \A t \in 0..second : second - t <= Window => Cardinality(Active(t)) <= DomainCap

(* What is forgotten of a domain - by age, at the cap of its resolutions   *)
(* or of the domains, in whatever order the domains come and go - neither  *)
(* makes it suspicious nor hides that it is, as long as there is room. At  *)
(* the age of exactly a window a resolution may count or not.              *)
FluxExact ==
  verdict # NoVerdict =>
    LET d == verdict.dom
    IN  /\ verdict.flux => Suspicious(Seen(d, Window))
        /\ Roomy /\ Cardinality(Within(d, Window)) <= Keep
             /\ Suspicious(Seen(d, Window - 1)) => verdict.flux

(* The index holds every tracked domain once, at its present sequence, and *)
(* nothing else: it neither leaks entries nor loses one that must expire.  *)
IndexExact == least_recent = {<<history[d].sequence, d>> : d \in Tracked}
=============================================================================
