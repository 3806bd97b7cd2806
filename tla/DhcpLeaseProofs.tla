-------------------------- MODULE DhcpLeaseProofs --------------------------
(* Proofs about DhcpLease, for any number of clients, addresses and        *)
(* restarts, any lease time and any resolution of the clock.               *)
EXTENDS DhcpLease, TLAPS

----------------------------------------------------------------------------
(* Arithmetic: what rounding to seconds loses. *)

SlackAt(n) == (n - 1) * Rounding
InTicks(e) == e * Second
NextSlack == SlackAt(instance + 1)

LEMMA SlackGrows ==
  /\ Rounding \in Nat
  /\ \A n \in Nat \ {0} : /\ SlackAt(n) \in Nat
                          /\ SlackAt(n + 1) = SlackAt(n) + Rounding
  BY TimeAssumption, SMT DEF Rounding, SlackAt

LEMMA SecondsBound ==
  ASSUME NEW t \in Nat
  PROVE  /\ Seconds(t) \in Nat
         /\ InTicks(Seconds(t)) \in Nat
         /\ InTicks(Seconds(t)) <= t
         /\ t < InTicks(Seconds(t)) + Second
  BY TimeAssumption, SMT DEF Seconds, InTicks

LEMMA InTicksLinear ==
  ASSUME NEW d \in Nat, NEW e \in Nat
  PROVE  /\ InTicks(e) \in Nat
         /\ InTicks(d + e) = InTicks(d) + InTicks(e)
         /\ d <= e => InTicks(d) <= InTicks(e)
  BY TimeAssumption, SMT DEF InTicks

(* A deadline written as the seconds of the clock plus the seconds to go.  *)
LEMMA SavingRoundsDown ==
  ASSUME NEW t \in Nat, NEW end \in Nat, end > t
  PROVE  /\ Seconds(t) + Seconds(end - t) \in Nat
         /\ InTicks(Seconds(t) + Seconds(end - t)) <= end
         /\ end <= InTicks(Seconds(t) + Seconds(end - t)) + Rounding
<1>1. end - t \in Nat
  OBVIOUS
<1>2. InTicks(Seconds(t) + Seconds(end - t))
        = InTicks(Seconds(t)) + InTicks(Seconds(end - t))
  BY <1>1, SecondsBound, InTicksLinear
<1> QED
  BY <1>1, <1>2, SecondsBound, TimeAssumption DEF Rounding

(* A deadline read back: no earlier than the whole seconds in the file.    *)
LEMMA LoadingKeeps ==
  ASSUME NEW t \in Nat, NEW e \in Nat, e > Seconds(t)
  PROVE  /\ t + (e - Seconds(t)) * Second \in Nat
         /\ InTicks(e) <= t + (e - Seconds(t)) * Second
<1> DEFINE d == e - Seconds(t)
<1>1. d \in Nat /\ Seconds(t) + d = e
  BY SecondsBound
<1>2. d * Second = InTicks(d)
  BY DEF InTicks
<1> HIDE DEF d
<1>3. InTicks(e) = InTicks(Seconds(t)) + InTicks(d) /\ InTicks(d) \in Nat
  BY <1>1, SecondsBound, InTicksLinear
<1>4. t + d * Second \in Nat /\ InTicks(e) <= t + d * Second
  BY <1>2, <1>3, SecondsBound
<1> QED
  BY <1>4 DEF d

LEMMA NotYetOver ==
  ASSUME NEW t \in Nat, NEW e \in Nat, InTicks(e) > t
  PROVE  e > Seconds(t)
  BY SecondsBound, InTicksLinear

LEMMA MaxOfTwo ==
  ASSUME NEW x \in Int, NEW y \in Int
  PROVE  Max({x, y}) = IF x >= y THEN x ELSE y
<1> DEFINE m == IF x >= y THEN x ELSE y
<1>1. m \in {x, y} /\ \A z \in {x, y} : m >= z
  OBVIOUS
<1>2. \A w \in {x, y} : (\A z \in {x, y} : w >= z) => w = m
  OBVIOUS
<1> QED
  BY <1>1, <1>2 DEF Max

LEMMA MinOfTwo ==
  ASSUME NEW x \in Int, NEW y \in Int
  PROVE  Min({x, y}) = IF x <= y THEN x ELSE y
<1> DEFINE m == IF x <= y THEN x ELSE y
<1>1. m \in {x, y} /\ \A z \in {x, y} : m <= z
  OBVIOUS
<1>2. \A w \in {x, y} : (\A z \in {x, y} : w <= z) => w = m
  OBVIOUS
<1> QED
  BY <1>1, <1>2 DEF Min

LEMMA AddressFacts ==
  /\ 0 \in Address
  /\ \A a \in Address, k \in 1..Pool : (a + k) % Pool \in Address
  BY PoolAssumption, SMT DEF Address

----------------------------------------------------------------------------
(* What a snapshot says of the table, and a loaded table of the file. *)

(* Saved deadlines are at most two roundings early. *)
RoundedDown(file) ==
  \A a \in Address :
    file[a].mac # Nobody => file[a].end <= InTicks(file[a].expires) + Rounding

Mirrors(file, table) ==
  \A a \in Address :
    table[a].mac # Nobody /\ now < table[a].end =>
      file[a].mac = table[a].mac /\ file[a].end = table[a].end

LEMMA SnapshotFacts ==
  ASSUME now \in Nat, NEW table \in [Address -> Lease]
  PROVE  /\ SnapshotOf(table) \in Snapshot
         /\ RoundedDown(SnapshotOf(table))
         /\ Mirrors(SnapshotOf(table), table)
         /\ \A a \in Address : SnapshotOf(table)[a].mac # Nobody =>
              /\ SnapshotOf(table)[a].mac = table[a].mac
              /\ SnapshotOf(table)[a].end = table[a].end
<1> DEFINE S == SnapshotOf(table)
<1>1. ASSUME NEW a \in Address, table[a].mac # Nobody, table[a].end > now
      PROVE  /\ S[a] = [mac |-> table[a].mac,
                        expires |-> Seconds(now) + Seconds(table[a].end - now),
                        end |-> table[a].end]
             /\ S[a] \in SavedLease
             /\ S[a].mac = table[a].mac /\ S[a].end = table[a].end
             /\ S[a].end <= InTicks(S[a].expires) + Rounding
  <2>1. table[a].end \in Nat /\ table[a].mac \in Holder
    BY DEF Lease
  <2>2. S[a] = [mac |-> table[a].mac,
                expires |-> Seconds(now) + Seconds(table[a].end - now),
                end |-> table[a].end]
    BY <1>1 DEF SnapshotOf
  <2> QED
    BY <1>1, <2>1, <2>2, SavingRoundsDown DEF SavedLease
<1>2. ASSUME NEW a \in Address,
             ~(table[a].mac # Nobody /\ table[a].end > now)
      PROVE  S[a] = NoSaved
  BY <1>2 DEF SnapshotOf
<1>3. NoSaved \in SavedLease /\ NoSaved.mac = Nobody
  BY DEF NoSaved, SavedLease, Holder
<1>4. S = [a \in Address |-> S[a]]
  BY DEF SnapshotOf
<1>5. S \in Snapshot
  BY <1>1, <1>2, <1>3, <1>4 DEF Snapshot
<1>6. RoundedDown(S)
  BY <1>1, <1>2, <1>3 DEF RoundedDown
<1>7. Mirrors(S, table)
  <2> SUFFICES ASSUME NEW a \in Address, table[a].mac # Nobody,
                      now < table[a].end
               PROVE  S[a].mac = table[a].mac /\ S[a].end = table[a].end
    BY DEF Mirrors
  <2>1. table[a].end \in Nat
    BY DEF Lease
  <2> QED
    BY <1>1, <2>1
<1>8. ASSUME NEW a \in Address, S[a].mac # Nobody
      PROVE  S[a].mac = table[a].mac /\ S[a].end = table[a].end
  BY <1>1, <1>2, <1>3, <1>8
<1> QED
  BY <1>5, <1>6, <1>7, <1>8

LEMMA LoadedFacts ==
  ASSUME now \in Nat, NEW file \in Snapshot
  PROVE  /\ Loaded(file) \in [Address -> Lease]
         /\ \A a \in Address : now < InTicks(file[a].expires) =>
              /\ Loaded(file)[a].mac = file[a].mac
              /\ InTicks(file[a].expires) <= Loaded(file)[a].end
<1> DEFINE L == Loaded(file)
<1>1. ASSUME NEW a \in Address, file[a].expires > Seconds(now)
      PROVE  /\ L[a] \in Lease
             /\ L[a].mac = file[a].mac
             /\ InTicks(file[a].expires) <= L[a].end
  <2>1. file[a].expires \in Nat /\ file[a].mac \in Holder
    BY DEF Snapshot, SavedLease
  <2>2. L[a] = [mac |-> file[a].mac,
                end |-> now + (file[a].expires - Seconds(now)) * Second]
    BY <1>1 DEF Loaded
  <2> QED
    BY <1>1, <2>1, <2>2, LoadingKeeps DEF Lease
<1>2. ASSUME NEW a \in Address, ~(file[a].expires > Seconds(now))
      PROVE  L[a] \in Lease
  <2>1. L[a] = NoLease
    BY <1>2 DEF Loaded
  <2> QED
    BY <2>1 DEF NoLease, Lease, Holder
<1>3. L \in [Address -> Lease]
  <2>1. L = [a \in Address |-> L[a]]
    BY DEF Loaded
  <2> QED
    BY <1>1, <1>2, <2>1
<1>4. ASSUME NEW a \in Address, now < InTicks(file[a].expires)
      PROVE  file[a].expires > Seconds(now)
  <2>1. file[a].expires \in Nat
    BY DEF Snapshot, SavedLease
  <2> QED
    BY <1>4, <2>1, NotYetOver
<1> QED
  BY <1>1, <1>3, <1>4

----------------------------------------------------------------------------
(* Type correctness. *)

LEMMA SnapshotType ==
  ASSUME now \in Nat, NEW table \in [Address -> Lease]
  PROVE  SnapshotOf(table) \in Snapshot
  BY SnapshotFacts

LEMMA Empties ==
  NoLease \in Lease /\ NoSaved \in SavedLease /\ NoPromise \in Promise
  BY DEF NoLease, Lease, NoSaved, SavedLease, NoPromise, Promise, Holder

LEMMA InitType == Init => TypeOK
<1> SUFFICES ASSUME Init PROVE TypeOK
  OBVIOUS
<1>1. 0 \in Address /\ 1 \in Instance /\ 0 \in 0..Horizon
  BY AddressFacts, InstancesAssumption, TimeAssumption DEF Instance
<1>2. leases \in [Address -> Lease] /\ promise \in [Address -> Promise]
  BY Empties DEF Init
<1>3. disk \in Snapshot
  BY Empties DEF Init, Snapshot
<1> QED
  BY <1>1, <1>2, <1>3 DEF Init, TypeOK

LEMMA RequestType ==
  ASSUME TypeOK, NEW c \in Client, NEW a \in Address, Request(c, a)
  PROVE  TypeOK'
<1> USE DEF TypeOK, Request
<1>1. now \in Nat /\ now + LeaseTime \in Nat
  BY TimeAssumption
<1>2. leases' \in [Address -> Lease]
  BY <1>1 DEF Lease, Holder
<1>3. pending' \in [Instance -> SUBSET Snapshot]
  BY <1>1, <1>2, SnapshotType DEF Schedule
<1>4. promise' \in [Address -> Promise]
  BY <1>1 DEF Promise, Holder
<1> QED
  BY <1>2, <1>3, <1>4 DEF files

LEMMA ReleaseType ==
  ASSUME TypeOK, NEW c \in Client, Release(c)
  PROVE  TypeOK'
<1> USE DEF TypeOK, Release
<1>1. now \in Nat
  OBVIOUS
<1>3. leases' \in [Address -> Lease] /\ promise' \in [Address -> Promise]
  BY Empties DEF Current
<1>4. pending' \in [Instance -> SUBSET Snapshot]
  BY <1>1, <1>3, SnapshotType DEF Schedule
<1> QED
  BY <1>3, <1>4 DEF files

LEMMA WriteType ==
  ASSUME TypeOK, NEW i \in Instance, Write(i)
  PROVE  TypeOK'
<1>1. PICK file \in writing[i] :
        /\ disk' = file
        /\ promise' =
             [a \in Address |->
               [promise[a] EXCEPT !.safe = IF i = instance
                                           THEN Max({@, Covers(file, a)})
                                           ELSE Min({@, Covers(file, a)})]]
  BY DEF Write
<1>2. file \in Snapshot
  BY DEF TypeOK
<1>3. ASSUME NEW a \in Address
      PROVE  promise[a] \in Promise /\ Covers(file, a) \in Nat
  BY <1>2 DEF Covers, Snapshot, SavedLease, TypeOK
<1>4. ASSUME NEW a \in Address
      PROVE  /\ Max({promise[a].safe, Covers(file, a)}) \in Nat
             /\ Min({promise[a].safe, Covers(file, a)}) \in Nat
  <2>1. promise[a].safe \in Nat /\ Covers(file, a) \in Nat
    BY <1>3 DEF Promise
  <2>2. promise[a].safe \in Int /\ Covers(file, a) \in Int
    BY <2>1
  <2> QED
    BY <2>1, <2>2, MaxOfTwo, MinOfTwo
<1>5. promise' \in [Address -> Promise]
  BY <1>1, <1>3, <1>4 DEF Promise
<1> QED
  BY <1>1, <1>2, <1>5 DEF Write, TypeOK

LEMMA NextType == TypeOK /\ [Next]_vars => TypeOK'
<1> SUFFICES ASSUME TypeOK, [Next]_vars PROVE TypeOK'
  OBVIOUS
<1>1. ASSUME NEW c \in Client, Discover(c)
      PROVE  TypeOK'
  <2>1. lastLease' \in Address
    BY <1>1, AddressFacts DEF Discover, Found, Turn, TypeOK
  <2> QED
    BY <1>1, <2>1 DEF Discover, TypeOK, files
<1>2. ASSUME NEW i \in Instance, Take(i) \/ WriteFails(i)
      PROVE  TypeOK'
  BY <1>2 DEF Take, WriteFails, TypeOK
<1>3. CASE Stop \/ Crash
  BY <1>3 DEF Stop, Crash, TypeOK, files
<1>4. CASE Start
  <2>1. now \in Nat /\ disk \in Snapshot /\ instance + 1 \in Instance
    BY <1>4, InstancesAssumption DEF Start, TypeOK, Instance
  <2> QED
    BY <1>4, <2>1, LoadedFacts, AddressFacts DEF Start, TypeOK
<1>5. CASE Tick
  BY <1>5, TimeAssumption DEF Tick, TypeOK, files
<1>6. CASE UNCHANGED vars
  BY <1>6 DEF vars, TypeOK
<1> QED
  BY <1>1, <1>2, <1>3, <1>4, <1>5, <1>6, RequestType, ReleaseType, WriteType
  DEF Next

(* Every variable keeps its type, whatever is restarted when.              *)
THEOREM TypeCorrect == Spec => []TypeOK
  BY InitType, NextType, PTL DEF Spec

----------------------------------------------------------------------------
(* The ledger. *)

LEMMA InitRefines == TypeOK => Ledger!LedgerInit
<1> SUFFICES ASSUME TypeOK PROVE Held \in [Address -> Holder]
  BY DEF Ledger!LedgerInit, Ledger!Holder, Holder
<1> QED
  BY DEF TypeOK, Held, Lease, Holder

(* Every step of the server is a step of the ledger or leaves it alone.    *)
LEMMA NextRefines ==
  ASSUME TypeOK, TypeOK', [Next]_vars
  PROVE  [Ledger!LedgerNext(instance' # instance)]_Held
<1> USE DEF TypeOK
<1>1. ASSUME NEW c \in Client, NEW a \in Address, Request(c, a)
      PROVE  Ledger!LedgerNext(instance' # instance)
  <2>1. Held[a] \in {c, Nobody}
    BY <1>1 DEF Request, Available, Held, Lease
  <2>2. Held'[a] = c
    BY <1>1, ClientAssumption, TimeAssumption DEF Request, Held, Lease, Holder
  <2>3. \A b \in Address \ {a} : Held'[b] = Held[b]
    BY <1>1 DEF Request, Held, files
  <2>4. Held' = [Held EXCEPT ![a] = c]
    BY <2>2, <2>3 DEF Held
  <2> QED
    BY <2>1, <2>4 DEF Ledger!LedgerNext, Ledger!Grant
<1>2. ASSUME NEW c \in Client, Release(c)
      PROVE  Ledger!LedgerNext(instance' # instance)
  <2>1. PICK a \in Address : leases' = [leases EXCEPT ![a] = NoLease]
    BY <1>2 DEF Release, Current
  <2>2. now' = now
    BY <1>2 DEF Release
  <2>3. Held' = [b \in Address |-> IF b \in {a} THEN Nobody ELSE Held[b]]
    BY <2>1, <2>2 DEF Held, NoLease
  <2> QED
    BY <2>3 DEF Ledger!LedgerNext, Ledger!GiveUp
<1>3. CASE Tick
  <2> DEFINE S == {a \in Address : Held'[a] = Nobody}
  <2>1. \A a \in Address : Held'[a] \in {Held[a], Nobody}
    BY <1>3 DEF Tick, Held, Lease
  <2>2. Held' = [a \in Address |-> IF a \in S THEN Nobody ELSE Held[a]]
    BY <2>1 DEF Held
  <2> QED
    BY <2>2 DEF Ledger!LedgerNext, Ledger!GiveUp
<1>4. CASE Start
  <2>1. Held' \in [Address -> Holder]
    BY DEF Held, Lease, Holder
  <2>2. instance' # instance
    BY <1>4 DEF Start, Instance
  <2> QED
    BY <2>1, <2>2 DEF Ledger!LedgerNext, Ledger!Reload, Ledger!Holder, Holder
<1>5. ASSUME UNCHANGED <<now, leases>>
      PROVE  UNCHANGED Held
  BY <1>5 DEF Held
<1>6. CASE \E c \in Client : Discover(c)
  BY <1>5, <1>6 DEF Discover
<1>7. CASE \E i \in Instance : Take(i) \/ Write(i) \/ WriteFails(i)
  BY <1>5, <1>7 DEF Take, Write, WriteFails
<1>8. CASE Stop \/ Crash \/ UNCHANGED vars
  BY <1>5, <1>8 DEF Stop, Crash, vars
<1> QED
  BY <1>1, <1>2, <1>3, <1>4, <1>6, <1>7, <1>8 DEF Next

(* Between restarts the lease table is a ledger: no address passes from    *)
(* one client to another while the first one's lease runs.                 *)
THEOREM Refinement == Spec => RefinesLedger
<1>1. Init => TypeOK /\ Ledger!LedgerInit
  BY InitType, InitRefines
<1> QED
  BY <1>1, NextType, NextRefines, PTL DEF Spec, RefinesLedger

----------------------------------------------------------------------------
(* Leases that reached the disk. *)

(* An acknowledgement never promises more than the clock allows, and what  *)
(* is safe of it was promised.                                             *)
PromisesBounded ==
  \A a \in Address :
    /\ promise[a].safe <= promise[a].until
    /\ promise[a].until <= now + LeaseTime
    /\ promise[a].mac = Nobody => promise[a].until = 0

(* Every file there is was rounded at most twice since it was a table.     *)
FilesRounded ==
  /\ RoundedDown(disk)
  /\ \A i \in Instance : \A file \in pending[i] \cup writing[i] :
       RoundedDown(file)

(* Instances to come have no worker. *)
Unborn ==
  \A i \in Instance : i > instance => pending[i] = {} /\ writing[i] = {}

(* The table honours what is safe, as SafeLeaseHonoured asks of it. *)
TableKeeps ==
  \A a \in Address :
    promise[a].mac # Nobody /\ now + SlackAt(instance) < promise[a].safe =>
      /\ leases[a].mac = promise[a].mac
      /\ promise[a].safe <= leases[a].end + SlackAt(instance)

(* The table an instance loading this file would have honours it. *)
Keeps(file) ==
  \A a \in Address :
    promise[a].mac # Nobody /\ now + NextSlack < promise[a].safe =>
      /\ file[a].mac = promise[a].mac
      /\ promise[a].safe <= InTicks(file[a].expires) + NextSlack

FilesKeep ==
  /\ Keeps(disk)
  /\ \A file \in writing[instance] : Keeps(file)

(* The instance's own snapshots say nothing the table does not honour.     *)
OwnFilesBehind ==
  \A file \in pending[instance] \cup writing[instance] : \A a \in Address :
    /\ promise[a].mac # Nobody
    /\ file[a].mac = promise[a].mac /\ file[a].end <= promise[a].until
    => leases[a].mac = promise[a].mac /\ file[a].end <= leases[a].end

(* The snapshot in the slot is the last one: it is the table.              *)
PendingMirrors == \A file \in pending[instance] : Mirrors(file, leases)

SafeInv ==
  /\ PromisesBounded /\ FilesRounded /\ Unborn /\ TableKeeps /\ FilesKeep
  /\ OwnFilesBehind /\ PendingMirrors

IInv == TypeOK /\ SafeInv

LEMMA InstanceSlack ==
  ASSUME TypeOK
  PROVE  /\ SlackAt(instance) \in Nat /\ NextSlack \in Nat
         /\ NextSlack = SlackAt(instance) + Rounding /\ Rounding \in Nat
<1>1. instance \in Nat \ {0}
  BY InstancesAssumption DEF TypeOK, Instance
<1>2. /\ SlackAt(instance) \in Nat /\ Rounding \in Nat
      /\ SlackAt(instance + 1) = SlackAt(instance) + Rounding
  BY <1>1, SlackGrows
<1> QED
  BY <1>2 DEF NextSlack

(* A snapshot that mirrors a table that keeps the promises keeps them too. *)
LEMMA MirrorKeeps ==
  ASSUME TypeOK, TableKeeps, NEW file \in Snapshot, RoundedDown(file),
         Mirrors(file, leases)
  PROVE  Keeps(file)
<1> SUFFICES ASSUME NEW a \in Address, promise[a].mac # Nobody,
                    now + NextSlack < promise[a].safe
             PROVE  /\ file[a].mac = promise[a].mac
                    /\ promise[a].safe <= InTicks(file[a].expires) + NextSlack
  BY DEF Keeps
<1>1. /\ now \in Nat /\ promise[a].safe \in Nat /\ leases[a].end \in Nat
      /\ file[a].end \in Nat /\ InTicks(file[a].expires) \in Nat
  <2>1. file[a].end \in Nat /\ file[a].expires \in Nat
    BY DEF Snapshot, SavedLease
  <2>2. promise[a].safe \in Nat /\ leases[a].end \in Nat /\ now \in Nat
    BY DEF TypeOK, Promise, Lease
  <2> QED
    BY <2>1, <2>2, InTicksLinear
<1>2. /\ leases[a].mac = promise[a].mac
      /\ promise[a].safe <= leases[a].end + SlackAt(instance)
  BY <1>1, InstanceSlack DEF TableKeeps
<1>3. now < leases[a].end
  BY <1>1, <1>2, InstanceSlack
<1>4. file[a].mac = promise[a].mac /\ file[a].end = leases[a].end
  BY <1>2, <1>3 DEF Mirrors
<1>5. file[a].end <= InTicks(file[a].expires) + Rounding
  BY <1>4 DEF RoundedDown
<1> QED
  BY <1>1, <1>2, <1>4, <1>5, InstanceSlack

LEMMA InitSafe == Init => SafeInv
<1> SUFFICES ASSUME Init PROVE SafeInv
  OBVIOUS
<1> USE DEF Init
<1>1. PromisesBounded
  BY TimeAssumption DEF PromisesBounded, NoPromise
<1>2. FilesRounded
  BY DEF FilesRounded, RoundedDown, NoSaved
<1>3. Unborn /\ OwnFilesBehind /\ PendingMirrors
  BY InstancesAssumption
  DEF Unborn, OwnFilesBehind, PendingMirrors, Instance
<1>4. TableKeeps /\ FilesKeep
  BY InstancesAssumption
  DEF TableKeeps, FilesKeep, Keeps, NoPromise, Instance
<1> QED
  BY <1>1, <1>2, <1>3, <1>4 DEF SafeInv

(* What Request and Release share: the table changes and is scheduled.     *)
LEMMA ScheduledSafe ==
  ASSUME TypeOK, TypeOK', SafeInv, Schedule(leases'), now' = now,
         instance' = instance, writing' = writing, disk' = disk,
         TableKeeps'
  PROVE  /\ FilesRounded' /\ Unborn' /\ PendingMirrors'
         /\ \A file \in pending'[instance'] : \A a \in Address :
              file[a].mac # Nobody => /\ file[a].mac = leases'[a].mac
                                      /\ file[a].end = leases'[a].end
<1> DEFINE S == SnapshotOf(leases')
<1>1. now \in Nat /\ leases' \in [Address -> Lease] /\ instance \in Instance
  BY DEF TypeOK
<1>2. /\ S \in Snapshot /\ RoundedDown(S) /\ Mirrors(S, leases')
      /\ \A a \in Address : S[a].mac # Nobody =>
           S[a].mac = leases'[a].mac /\ S[a].end = leases'[a].end
  BY <1>1, SnapshotFacts
<1>3. pending' = [pending EXCEPT ![instance] = {S}]
  BY DEF Schedule
<1> HIDE DEF S
<1>4. pending'[instance'] = {S}
     /\ \A i \in Instance : i # instance => pending'[i] = pending[i]
  BY <1>1, <1>3 DEF TypeOK
<1>5. FilesRounded'
  BY <1>2, <1>4 DEF SafeInv, FilesRounded, RoundedDown
<1>6. Unborn'
  BY <1>1, <1>4 DEF SafeInv, Unborn, Instance
<1>7. PendingMirrors'
  BY <1>2, <1>4 DEF PendingMirrors, Mirrors
<1> QED
  BY <1>2, <1>4, <1>5, <1>6, <1>7

LEMMA RequestSafe ==
  ASSUME IInv, TypeOK', NEW c \in Client, NEW a \in Address, Request(c, a)
  PROVE  SafeInv'
<1> USE DEF IInv
<1>1. /\ now' = now /\ instance' = instance /\ disk' = disk
      /\ writing' = writing /\ Schedule(leases')
  BY DEF Request, files
<1>2. /\ leases' = [leases EXCEPT ![a] = [mac |-> c, end |-> now + LeaseTime]]
      /\ promise' = [promise EXCEPT ![a] =
                      [mac |-> c, until |-> now + LeaseTime,
                       safe |-> IF @.mac = c THEN @.safe ELSE 0]]
  BY DEF Request
<1>3. /\ leases'[a].mac = c /\ leases'[a].end = now + LeaseTime
      /\ promise'[a].mac = c /\ promise'[a].until = now + LeaseTime
      /\ promise'[a].safe = IF promise[a].mac = c THEN promise[a].safe ELSE 0
      /\ c # Nobody
  BY <1>2, ClientAssumption DEF TypeOK
<1>4. \A b \in Address \ {a} : leases'[b] = leases[b] /\ promise'[b] = promise[b]
  BY <1>2 DEF TypeOK
<1>5. /\ now \in Nat /\ now + LeaseTime \in Nat
      /\ \A b \in Address : promise[b].safe \in Nat /\ promise[b].until \in Nat
  BY TimeAssumption DEF TypeOK, Promise
<1>6. PromisesBounded'
  BY <1>1, <1>3, <1>4, <1>5 DEF SafeInv, PromisesBounded
<1>7. TableKeeps'
  <2>1. promise'[a].safe <= leases'[a].end + SlackAt(instance)
    BY <1>3, <1>5, <1>6, InstanceSlack DEF SafeInv, PromisesBounded
  <2> QED
    BY <1>1, <1>3, <1>4, <2>1 DEF SafeInv, TableKeeps
<1>8. /\ FilesRounded' /\ Unborn' /\ PendingMirrors'
      /\ \A file \in pending'[instance'] : \A b \in Address :
           file[b].mac # Nobody => /\ file[b].mac = leases'[b].mac
                                   /\ file[b].end = leases'[b].end
  BY <1>1, <1>7, ScheduledSafe
<1>9. FilesKeep'
  <2>1. ASSUME NEW file, Keeps(file)
        PROVE  Keeps(file)'
    BY <1>1, <1>3, <1>4, <1>5, <2>1, InstanceSlack DEF Keeps, NextSlack
  <2> QED
    BY <1>1, <2>1 DEF SafeInv, FilesKeep
<1>10. OwnFilesBehind'
  <2> SUFFICES ASSUME NEW file \in pending'[instance'] \cup writing'[instance'],
                      NEW b \in Address, promise'[b].mac # Nobody,
                      file[b].mac = promise'[b].mac,
                      file[b].end <= promise'[b].until
               PROVE  /\ leases'[b].mac = promise'[b].mac
                      /\ file[b].end <= leases'[b].end
    BY DEF OwnFilesBehind
  <2>1. CASE b = a
    BY <1>3, <2>1
  <2>2. CASE b # a /\ file \in writing'[instance']
    BY <1>1, <1>4, <2>2 DEF SafeInv, OwnFilesBehind
  <2>3. CASE b # a /\ file \in pending'[instance']
    <3>1. file[b].mac = leases'[b].mac /\ file[b].end = leases'[b].end
      BY <1>8, <2>3
    <3>2. leases'[b].end \in Nat
      BY DEF TypeOK, Lease
    <3> QED
      BY <3>1, <3>2
  <2> QED
    BY <2>1, <2>2, <2>3
<1> QED
  BY <1>6, <1>7, <1>8, <1>9, <1>10 DEF SafeInv

LEMMA ReleaseSafe ==
  ASSUME IInv, TypeOK', NEW c \in Client, Release(c)
  PROVE  SafeInv'
<1> USE DEF IInv
<1>1. PICK a \in Address : /\ leases' = [leases EXCEPT ![a] = NoLease]
                           /\ promise' = [promise EXCEPT ![a] = NoPromise]
  BY DEF Release, Current
<1>2. /\ now' = now /\ instance' = instance /\ disk' = disk
      /\ writing' = writing /\ Schedule(leases')
  BY DEF Release, files
<1>3. promise'[a].mac = Nobody /\ promise'[a].until = 0 /\ promise'[a].safe = 0
  BY <1>1 DEF TypeOK, NoPromise
<1>4. \A b \in Address \ {a} : leases'[b] = leases[b] /\ promise'[b] = promise[b]
  BY <1>1 DEF TypeOK
<1>5. PromisesBounded'
  BY <1>2, <1>3, <1>4, TimeAssumption DEF SafeInv, PromisesBounded, TypeOK
<1>6. TableKeeps'
  BY <1>2, <1>3, <1>4 DEF SafeInv, TableKeeps
<1>7. /\ FilesRounded' /\ Unborn' /\ PendingMirrors'
      /\ \A file \in pending'[instance'] : \A b \in Address :
           file[b].mac # Nobody => /\ file[b].mac = leases'[b].mac
                                   /\ file[b].end = leases'[b].end
  BY <1>2, <1>6, ScheduledSafe
<1>8. FilesKeep'
  <2>1. ASSUME NEW file, Keeps(file)
        PROVE  Keeps(file)'
    BY <1>2, <1>3, <1>4, <2>1 DEF Keeps, NextSlack
  <2> QED
    BY <1>2, <2>1 DEF SafeInv, FilesKeep
<1>9. OwnFilesBehind'
  <2> SUFFICES ASSUME NEW file \in pending'[instance'] \cup writing'[instance'],
                      NEW b \in Address, promise'[b].mac # Nobody,
                      file[b].mac = promise'[b].mac,
                      file[b].end <= promise'[b].until
               PROVE  /\ leases'[b].mac = promise'[b].mac
                      /\ file[b].end <= leases'[b].end
    BY DEF OwnFilesBehind
  <2>1. b # a
    BY <1>3
  <2>2. CASE file \in writing'[instance']
    BY <1>2, <1>4, <2>1, <2>2 DEF SafeInv, OwnFilesBehind
  <2>3. CASE file \in pending'[instance']
    <3>1. file[b].mac = leases'[b].mac /\ file[b].end = leases'[b].end
      BY <1>7, <2>3
    <3>2. leases'[b].end \in Nat
      BY DEF TypeOK, Lease
    <3> QED
      BY <3>1, <3>2
  <2> QED
    BY <2>2, <2>3
<1> QED
  BY <1>5, <1>6, <1>7, <1>8, <1>9 DEF SafeInv

LEMMA TakeSafe ==
  ASSUME IInv, NEW i \in Instance, Take(i)
  PROVE  SafeInv'
<1> USE DEF IInv
<1>1. /\ writing' = [writing EXCEPT ![i] = pending[i]]
      /\ pending' = [pending EXCEPT ![i] = {}]
      /\ pending[i] # {}
      /\ UNCHANGED <<now, leases, instance, disk, promise>>
  BY DEF Take
<1>2. FilesRounded'
  BY <1>1 DEF SafeInv, FilesRounded, RoundedDown, TypeOK
<1>3. Unborn'
  BY <1>1 DEF SafeInv, Unborn, TypeOK
<1>4. PromisesBounded' /\ TableKeeps'
  BY <1>1 DEF SafeInv, PromisesBounded, TableKeeps
<1>5. FilesKeep'
  <2>1. \A file : Keeps(file)' <=> Keeps(file)
    BY <1>1 DEF Keeps, NextSlack
  <2>2. ASSUME NEW file \in pending[instance]
        PROVE  Keeps(file)
    <3>1. file \in Snapshot /\ RoundedDown(file) /\ Mirrors(file, leases)
      BY DEF SafeInv, FilesRounded, PendingMirrors, TypeOK
    <3> QED
      BY <3>1, MirrorKeeps DEF SafeInv
  <2>3. ASSUME NEW file \in writing'[instance']
        PROVE  Keeps(file)
    BY <1>1, <2>2 DEF SafeInv, FilesKeep, TypeOK
  <2> QED
    BY <1>1, <2>1, <2>3 DEF SafeInv, FilesKeep
<1>6. OwnFilesBehind' /\ PendingMirrors'
  BY <1>1 DEF SafeInv, OwnFilesBehind, PendingMirrors, Mirrors, TypeOK
<1> QED
  BY <1>2, <1>3, <1>4, <1>5, <1>6 DEF SafeInv

(* A file replaces the one on disk; only what is safe changes with it.     *)
LEMMA WriteSafe ==
  ASSUME IInv, NEW i \in Instance, Write(i)
  PROVE  SafeInv'
<1> USE DEF IInv
<1>1. PICK file \in writing[i] :
        /\ disk' = file
        /\ promise' =
             [a \in Address |->
               [promise[a] EXCEPT !.safe = IF i = instance
                                           THEN Max({@, Covers(file, a)})
                                           ELSE Min({@, Covers(file, a)})]]
  BY DEF Write
<1>2. /\ writing' = [writing EXCEPT ![i] = {}]
      /\ UNCHANGED <<now, leases, instance, pending>>
  BY DEF Write
<1>3. file \in Snapshot /\ RoundedDown(file) /\ now \in Nat
  BY DEF SafeInv, FilesRounded, TypeOK
<1>4. ASSUME NEW a \in Address
      PROVE  /\ promise[a].safe \in Nat /\ promise[a].until \in Nat
             /\ file[a].end \in Nat /\ InTicks(file[a].expires) \in Nat
             /\ leases[a].end \in Nat /\ Covers(file, a) \in Nat
  <2>1. promise[a] \in Promise /\ file[a] \in SavedLease /\ leases[a] \in Lease
    BY <1>3 DEF TypeOK, Snapshot
  <2>2. /\ promise[a].safe \in Nat /\ promise[a].until \in Nat
        /\ file[a].end \in Nat /\ file[a].expires \in Nat
        /\ leases[a].end \in Nat
    BY <2>1 DEF Promise, SavedLease, Lease
  <2> QED
    BY <2>2, InTicksLinear DEF Covers
(* What is safe afterwards was safe before, or is the deadline in the file.*)
<1>5. ASSUME NEW a \in Address
      PROVE  /\ promise'[a].mac = promise[a].mac
             /\ promise'[a].until = promise[a].until
             /\ \/ promise'[a].safe = promise[a].safe
                \/ promise'[a].safe = Covers(file, a)
             /\ i # instance => /\ promise'[a].safe <= promise[a].safe
                                /\ promise'[a].safe <= Covers(file, a)
  <2>1. /\ promise'[a].mac = promise[a].mac
        /\ promise'[a].until = promise[a].until
        /\ promise'[a].safe = IF i = instance
                              THEN Max({promise[a].safe, Covers(file, a)})
                              ELSE Min({promise[a].safe, Covers(file, a)})
    BY <1>1 DEF TypeOK, Promise
  <2>2. promise[a].safe \in Int /\ Covers(file, a) \in Int
    BY <1>4
  <2>3. /\ Max({promise[a].safe, Covers(file, a)})
             \in {promise[a].safe, Covers(file, a)}
        /\ Min({promise[a].safe, Covers(file, a)})
             \in {promise[a].safe, Covers(file, a)}
        /\ Min({promise[a].safe, Covers(file, a)}) <= promise[a].safe
        /\ Min({promise[a].safe, Covers(file, a)}) <= Covers(file, a)
    BY <2>2, MaxOfTwo, MinOfTwo
  <2> QED
    BY <2>1, <2>3
<1>0. /\ SlackAt(instance) \in Nat /\ NextSlack \in Nat /\ Rounding \in Nat
      /\ NextSlack = SlackAt(instance) + Rounding
  BY InstanceSlack
<1>6. PromisesBounded'
  <2>1. \A a \in Address : Covers(file, a) <= promise[a].until
    BY <1>4 DEF Covers
  <2> QED
    BY <1>2, <1>4, <1>5, <2>1 DEF SafeInv, PromisesBounded
<1>7. FilesRounded'
  BY <1>1, <1>2, <1>3 DEF SafeInv, FilesRounded, RoundedDown, TypeOK
<1>8. Unborn' /\ PendingMirrors'
  BY <1>2 DEF SafeInv, Unborn, PendingMirrors, Mirrors, TypeOK
<1>9. OwnFilesBehind'
  BY <1>2, <1>5 DEF SafeInv, OwnFilesBehind, TypeOK
<1>10. TableKeeps'
  <2> SUFFICES ASSUME NEW a \in Address, promise'[a].mac # Nobody,
                      now + SlackAt(instance) < promise'[a].safe
               PROVE  /\ leases[a].mac = promise'[a].mac
                      /\ promise'[a].safe <= leases[a].end + SlackAt(instance)
    BY <1>2 DEF TableKeeps
  <2>1. CASE promise'[a].safe = promise[a].safe
    BY <1>5, <2>1 DEF SafeInv, TableKeeps
  <2>2. CASE i = instance /\ promise'[a].safe = Covers(file, a)
    <3>1. Covers(file, a) # 0
      BY <1>0, <1>3, <2>2
    <3>2. /\ file[a].mac = promise[a].mac /\ file[a].end <= promise[a].until
          /\ promise'[a].safe = file[a].end
      BY <2>2, <3>1 DEF Covers
    <3>3. leases[a].mac = promise[a].mac /\ file[a].end <= leases[a].end
      BY <1>5, <2>2, <3>2 DEF SafeInv, OwnFilesBehind
    <3> QED
      BY <1>0, <1>4, <1>5, <3>2, <3>3
  <2>3. CASE i # instance
    <3>1. promise'[a].safe <= promise[a].safe /\ promise'[a].safe \in Nat
      BY <1>4, <1>5, <2>3
    <3>2. now + SlackAt(instance) < promise[a].safe
      BY <1>0, <1>3, <1>4, <3>1
    <3>3. /\ leases[a].mac = promise[a].mac
          /\ promise[a].safe <= leases[a].end + SlackAt(instance)
      BY <1>5, <3>2 DEF SafeInv, TableKeeps
    <3> QED
      BY <1>0, <1>4, <1>5, <3>1, <3>3
  <2> QED
    BY <1>5, <2>1, <2>2, <2>3
<1>11. Keeps(file)'
  <2> SUFFICES ASSUME NEW a \in Address, promise'[a].mac # Nobody,
                      now + NextSlack < promise'[a].safe
               PROVE  /\ file[a].mac = promise'[a].mac
                      /\ promise'[a].safe <= InTicks(file[a].expires) + NextSlack
    BY <1>2 DEF Keeps, NextSlack
  <2>1. CASE promise'[a].safe <= Covers(file, a) /\ promise'[a].safe \in Nat
    <3>1. Covers(file, a) # 0
      BY <1>0, <1>3, <2>1
    <3>2. file[a].mac = promise[a].mac /\ promise'[a].safe <= file[a].end
      BY <2>1, <3>1 DEF Covers
    <3>3. file[a].end <= InTicks(file[a].expires) + Rounding
      BY <1>3, <1>5, <3>2 DEF RoundedDown
    <3> QED
      BY <1>0, <1>4, <1>5, <2>1, <3>2, <3>3
  <2>2. CASE i = instance /\ promise'[a].safe = promise[a].safe
    BY <1>5, <2>2 DEF SafeInv, FilesKeep, Keeps
  <2> QED
    BY <1>4, <1>5, <2>1, <2>2
<1>12. FilesKeep'
  <2>1. CASE i = instance
    <3>1. writing'[instance'] = {}
      BY <1>2, <2>1 DEF TypeOK
    <3> QED
      BY <1>1, <1>11, <3>1 DEF FilesKeep
  <2>2. CASE i # instance
    <3>1. writing'[instance'] = writing[instance]
      BY <1>2, <2>2 DEF TypeOK
    <3>2. ASSUME NEW f \in writing[instance]
          PROVE  Keeps(f)'
      <4> SUFFICES ASSUME NEW a \in Address, promise'[a].mac # Nobody,
                          now + NextSlack < promise'[a].safe
                   PROVE  /\ f[a].mac = promise'[a].mac
                          /\ promise'[a].safe <= InTicks(f[a].expires) + NextSlack
        BY <1>2 DEF Keeps, NextSlack
      <4>1. promise'[a].safe <= promise[a].safe /\ promise'[a].safe \in Nat
        BY <1>4, <1>5, <2>2
      <4>2. now + NextSlack < promise[a].safe
        BY <1>0, <1>3, <1>4, <4>1
      <4>3. /\ f[a].mac = promise[a].mac
            /\ promise[a].safe <= InTicks(f[a].expires) + NextSlack
        BY <1>5, <4>2 DEF SafeInv, FilesKeep, Keeps
      <4>4. f \in Snapshot
        BY DEF TypeOK
      <4>5. InTicks(f[a].expires) \in Nat
        BY <4>4, InTicksLinear DEF Snapshot, SavedLease
      <4> QED
        BY <1>0, <1>4, <1>5, <4>1, <4>3, <4>5
    <3> QED
      BY <1>1, <1>11, <3>1, <3>2 DEF FilesKeep
  <2> QED
    BY <2>1, <2>2
<1> QED
  BY <1>6, <1>7, <1>8, <1>9, <1>10, <1>12 DEF SafeInv

LEMMA QuietSafe ==
  ASSUME IInv,
         \/ \E i \in Instance : WriteFails(i)
         \/ Stop \/ Crash \/ (\E c \in Client : Discover(c)) \/ UNCHANGED vars
  PROVE  SafeInv'
<1> USE DEF IInv
<1>1. /\ UNCHANGED <<now, leases, instance, disk, promise>>
      /\ \A i \in Instance : /\ pending'[i] \in {pending[i], {}}
                              /\ writing'[i] \in {writing[i], {}}
  BY DEF WriteFails, Stop, Crash, Discover, vars, files, TypeOK
<1>2. instance \in Instance
  BY DEF TypeOK
<1>3. FilesRounded' /\ Unborn'
  BY <1>1 DEF SafeInv, FilesRounded, RoundedDown, Unborn
<1>4. PromisesBounded' /\ TableKeeps'
  BY <1>1 DEF SafeInv, PromisesBounded, TableKeeps
<1>5. FilesKeep' /\ OwnFilesBehind' /\ PendingMirrors'
  BY <1>1, <1>2
  DEF SafeInv, FilesKeep, Keeps, NextSlack, OwnFilesBehind, PendingMirrors,
      Mirrors
<1> QED
  BY <1>3, <1>4, <1>5 DEF SafeInv

LEMMA TickSafe ==
  ASSUME IInv, Tick
  PROVE  SafeInv'
<1> USE DEF IInv
<1>1. /\ now \in Nat /\ now' = now + 1
      /\ UNCHANGED <<leases, instance, pending, writing, disk, promise>>
  BY DEF Tick, files, TypeOK
<1>2. /\ SlackAt(instance) \in Nat /\ NextSlack \in Nat
      /\ \A a \in Address : promise[a].safe \in Nat /\ promise[a].until \in Nat
  BY InstanceSlack DEF TypeOK, Promise
<1>3. FilesRounded' /\ Unborn' /\ OwnFilesBehind'
  BY <1>1 DEF SafeInv, FilesRounded, RoundedDown, Unborn, OwnFilesBehind
<1>4. PromisesBounded' /\ TableKeeps'
  BY <1>1, <1>2, TimeAssumption DEF SafeInv, PromisesBounded, TableKeeps
<1>5. \A file : Keeps(file) => Keeps(file)'
  BY <1>1, <1>2 DEF Keeps, NextSlack
<1>6. FilesKeep'
  BY <1>1, <1>5 DEF SafeInv, FilesKeep
<1>7. PendingMirrors'
  <2>1. \A a \in Address : leases[a].end \in Nat
    BY DEF TypeOK, Lease
  <2> QED
    BY <1>1, <2>1 DEF SafeInv, PendingMirrors, Mirrors
<1> QED
  BY <1>3, <1>4, <1>6, <1>7 DEF SafeInv

(* A new instance: its table is the file, its workers have nothing yet.    *)
LEMMA StartSafe ==
  ASSUME IInv, Start
  PROVE  SafeInv'
<1> USE DEF IInv
<1>1. /\ leases' = Loaded(disk) /\ instance' = instance + 1
      /\ UNCHANGED <<now, pending, writing, disk, promise>>
  BY DEF Start
<1>2. /\ instance' \in Instance /\ instance' > instance
      /\ \A i \in Instance : i > instance' => i > instance
  BY <1>1, InstancesAssumption DEF Start, TypeOK, Instance
<1>3. pending'[instance'] = {} /\ writing'[instance'] = {}
  BY <1>1, <1>2 DEF SafeInv, Unborn
<1>4. /\ SlackAt(instance') = NextSlack /\ NextSlack \in Nat
      /\ NextSlack' = NextSlack + Rounding /\ Rounding \in Nat
  <2>1. instance' \in Nat \ {0}
    BY <1>2, InstancesAssumption DEF Instance
  <2>2. /\ SlackAt(instance') \in Nat /\ Rounding \in Nat
        /\ SlackAt(instance' + 1) = SlackAt(instance') + Rounding
    BY <2>1, SlackGrows
  <2> QED
    BY <1>1, <2>2 DEF NextSlack
<1>5. now \in Nat /\ disk \in Snapshot
  BY DEF TypeOK
<1>6. ASSUME NEW a \in Address
      PROVE  promise[a].safe \in Nat /\ InTicks(disk[a].expires) \in Nat
  <2>1. promise[a].safe \in Nat /\ disk[a].expires \in Nat
    BY DEF TypeOK, Promise, Snapshot, SavedLease
  <2> QED
    BY <2>1, InTicksLinear
<1>7. TableKeeps'
  <2> SUFFICES ASSUME NEW a \in Address, promise[a].mac # Nobody,
                      now + NextSlack < promise[a].safe
               PROVE  /\ leases'[a].mac = promise[a].mac
                      /\ promise[a].safe <= leases'[a].end + NextSlack
    BY <1>1, <1>4 DEF TableKeeps
  <2>1. /\ disk[a].mac = promise[a].mac
        /\ promise[a].safe <= InTicks(disk[a].expires) + NextSlack
    BY DEF SafeInv, FilesKeep, Keeps
  <2>2. now < InTicks(disk[a].expires)
    BY <1>4, <1>5, <1>6, <2>1
  <2>3. /\ leases'[a].mac = disk[a].mac
        /\ InTicks(disk[a].expires) <= leases'[a].end
        /\ leases'[a].end \in Nat
    BY <1>1, <1>5, <2>2, LoadedFacts DEF Lease
  <2> QED
    BY <1>4, <1>6, <2>1, <2>3
<1>8. Keeps(disk)'
  <2> SUFFICES ASSUME NEW a \in Address, promise[a].mac # Nobody,
                      now + NextSlack' < promise[a].safe
               PROVE  /\ disk[a].mac = promise[a].mac
                      /\ promise[a].safe <= InTicks(disk[a].expires) + NextSlack'
    BY <1>1 DEF Keeps
  <2>1. now + NextSlack < promise[a].safe
    BY <1>4, <1>5, <1>6
  <2>2. /\ disk[a].mac = promise[a].mac
        /\ promise[a].safe <= InTicks(disk[a].expires) + NextSlack
    BY <2>1 DEF SafeInv, FilesKeep, Keeps
  <2> QED
    BY <1>4, <1>6, <2>2
<1>9. PromisesBounded' /\ FilesRounded' /\ Unborn'
  BY <1>1, <1>2
  DEF SafeInv, PromisesBounded, FilesRounded, RoundedDown, Unborn
<1>10. FilesKeep' /\ OwnFilesBehind' /\ PendingMirrors'
  BY <1>3, <1>8 DEF FilesKeep, OwnFilesBehind, PendingMirrors
<1> QED
  BY <1>7, <1>9, <1>10 DEF SafeInv

LEMMA NextInv == IInv /\ [Next]_vars => IInv'
<1> SUFFICES ASSUME IInv, [Next]_vars PROVE IInv'
  OBVIOUS
<1>1. TypeOK'
  BY NextType DEF IInv
<1>2. SafeInv'
  BY <1>1, RequestSafe, ReleaseSafe, TakeSafe, WriteSafe, QuietSafe, TickSafe,
     StartSafe
  DEF Next
<1> QED
  BY <1>1, <1>2 DEF IInv

(* A lease that was acknowledged and whose deadline reached the disk is    *)
(* honoured through any number of crashes and restarts, up to two seconds  *)
(* per restart, unless the late write of an earlier instance's worker took *)
(* the deadline off the disk again, or its holder released it.             *)
THEOREM SafeLeases == Spec => []SafeLeaseHonoured
<1>1. Init => IInv
  BY InitType, InitSafe DEF IInv
<1>2. IInv => SafeLeaseHonoured
  <2> SUFFICES ASSUME IInv, NEW a \in Address, promise[a].mac # Nobody,
                      now + Slack < promise[a].safe
               PROVE  leases[a].mac = promise[a].mac /\ now <= leases[a].end
    BY DEF SafeLeaseHonoured
  <2>1. Slack = SlackAt(instance)
    BY DEF Slack, SlackAt
  <2>2. /\ leases[a].mac = promise[a].mac
        /\ promise[a].safe <= leases[a].end + SlackAt(instance)
    BY <2>1 DEF IInv, SafeInv, TableKeeps
  <2>3. /\ SlackAt(instance) \in Nat /\ now \in Nat
        /\ promise[a].safe \in Nat /\ leases[a].end \in Nat
    BY InstanceSlack DEF IInv, TypeOK, Promise, Lease
  <2> QED
    BY <2>1, <2>2, <2>3
<1> QED
  BY <1>1, <1>2, NextInv, PTL DEF Spec

----------------------------------------------------------------------------
(* Leases are not lengthened: seconds are lost when a deadline is saved,   *)
(* and less than one is gained when it is loaded.  No saved deadline, and  *)
(* no whole second of the table, lies beyond the promise it stems from; of *)
(* promises that were replaced since, it lies within a lease from now.     *)

Within(seconds, mac, t, p) ==
  /\ seconds <= Seconds(t + LeaseTime)
  /\ p.mac # Nobody /\ mac = p.mac => seconds <= Seconds(p.until)

TableWithin(table, t, promises) ==
  \A a \in Address :
    Within(Seconds(table[a].end), table[a].mac, t, promises[a])

FileWithin(file, t, promises) ==
  \A a \in Address : Within(file[a].expires, file[a].mac, t, promises[a])

LengthInv ==
  /\ TableWithin(leases, now, promise)
  /\ FileWithin(disk, now, promise)
  /\ \A i \in Instance : \A file \in pending[i] \cup writing[i] :
       FileWithin(file, now, promise)

LEMMA SecondsOrdered ==
  ASSUME NEW s \in Nat, NEW t \in Nat, s <= t
  PROVE  Seconds(s) <= Seconds(t)
  BY TimeAssumption, SMT DEF Seconds

LEMMA SecondsOfTicks ==
  ASSUME NEW e \in Nat, NEW t \in Nat
  PROVE  /\ InTicks(e) <= t => e <= Seconds(t)
         /\ t < InTicks(e) + Second => Seconds(t) <= e
<1>1. /\ InTicks(e + 1) = InTicks(e) + Second
      /\ Seconds(t) \in Nat
      /\ InTicks(Seconds(t)) <= t /\ t < InTicks(Seconds(t)) + Second
      /\ InTicks(Seconds(t) + 1) = InTicks(Seconds(t)) + Second
      /\ InTicks(e) \in Nat /\ InTicks(Seconds(t)) \in Nat
  BY SecondsBound, InTicksLinear, TimeAssumption DEF InTicks
<1>2. e > Seconds(t) => InTicks(Seconds(t) + 1) <= InTicks(e)
  BY <1>1, InTicksLinear
<1>3. Seconds(t) > e => InTicks(e + 1) <= InTicks(Seconds(t))
  BY <1>1, InTicksLinear
<1> QED
  BY <1>1, <1>2, <1>3, TimeAssumption

LEMMA SnapshotWithin ==
  ASSUME now \in Nat, NEW table \in [Address -> Lease],
         NEW promises \in [Address -> Promise], TableWithin(table, now, promises)
  PROVE  FileWithin(SnapshotOf(table), now, promises)
<1> SUFFICES ASSUME NEW a \in Address
             PROVE  Within(SnapshotOf(table)[a].expires,
                           SnapshotOf(table)[a].mac, now, promises[a])
  BY DEF FileWithin
<1>1. /\ table[a].end \in Nat /\ Seconds(table[a].end) \in Nat
      /\ now \in Nat /\ Seconds(now + LeaseTime) \in Nat
      /\ Seconds(promises[a].until) \in Nat
  <2>1. /\ table[a].end \in Nat /\ promises[a].until \in Nat /\ now \in Nat
        /\ now + LeaseTime \in Nat
    BY TimeAssumption DEF Promise, Lease
  <2> QED
    BY <2>1, SecondsBound
<1>2. CASE table[a].mac # Nobody /\ table[a].end > now
  <2>1. /\ SnapshotOf(table)[a].mac = table[a].mac
        /\ SnapshotOf(table)[a].expires
             = Seconds(now) + Seconds(table[a].end - now)
    BY <1>2 DEF SnapshotOf
  <2>2. /\ Seconds(now) + Seconds(table[a].end - now) \in Nat
        /\ InTicks(Seconds(now) + Seconds(table[a].end - now)) <= table[a].end
    BY <1>1, <1>2, SavingRoundsDown
  <2>3. Seconds(now) + Seconds(table[a].end - now) <= Seconds(table[a].end)
    BY <1>1, <2>2, SecondsOfTicks
  <2>4. /\ Seconds(table[a].end) <= Seconds(now + LeaseTime)
        /\ promises[a].mac # Nobody /\ table[a].mac = promises[a].mac =>
             Seconds(table[a].end) <= Seconds(promises[a].until)
    BY DEF TableWithin, Within
  <2> QED
    BY <1>1, <2>1, <2>2, <2>3, <2>4 DEF Within
<1>3. CASE ~(table[a].mac # Nobody /\ table[a].end > now)
  <2>1. SnapshotOf(table)[a] = NoSaved
    BY <1>3 DEF SnapshotOf
  <2> QED
    BY <1>1, <2>1 DEF Within, NoSaved
<1> QED
  BY <1>2, <1>3

LEMMA LoadedWithin ==
  ASSUME now \in Nat, NEW file \in Snapshot,
         NEW promises \in [Address -> Promise], FileWithin(file, now, promises)
  PROVE  TableWithin(Loaded(file), now, promises)
<1> SUFFICES ASSUME NEW a \in Address
             PROVE  Within(Seconds(Loaded(file)[a].end),
                           Loaded(file)[a].mac, now, promises[a])
  BY DEF TableWithin
<1>1. /\ now \in Nat /\ Seconds(now) \in Nat /\ file[a].expires \in Nat
      /\ Seconds(now + LeaseTime) \in Nat /\ Seconds(promises[a].until) \in Nat
  <2>1. /\ promises[a].until \in Nat /\ now \in Nat /\ now + LeaseTime \in Nat
        /\ file[a].expires \in Nat
    BY TimeAssumption DEF Promise, Snapshot, SavedLease
  <2> QED
    BY <2>1, SecondsBound
<1>2. CASE file[a].expires > Seconds(now)
  <2> DEFINE d == file[a].expires - Seconds(now)
             end == now + d * Second
  <2>1. Loaded(file)[a].mac = file[a].mac /\ Loaded(file)[a].end = end
    BY <1>2 DEF Loaded
  <2>2. end \in Nat
    BY <1>1, <1>2, LoadingKeeps
  <2>3. /\ d \in Nat /\ file[a].expires = Seconds(now) + d
        /\ d * Second = InTicks(d)
    BY <1>1, <1>2 DEF InTicks
  <2> HIDE DEF d
  <2>4. InTicks(file[a].expires) = InTicks(Seconds(now)) + InTicks(d)
    <3>1. InTicks(Seconds(now) + d) = InTicks(Seconds(now)) + InTicks(d)
      BY <1>1, <2>3, InTicksLinear
    <3> QED
      BY <2>3, <3>1
  <2>5. now < InTicks(Seconds(now)) + Second
    BY <1>1, SecondsBound
  <2>6. InTicks(d) \in Nat /\ InTicks(Seconds(now)) \in Nat
    BY <1>1, <2>3, InTicksLinear
  <2>7. end < InTicks(file[a].expires) + Second
    BY <1>1, <2>3, <2>4, <2>5, <2>6, TimeAssumption
  <2> HIDE DEF end
  <2>8. Seconds(end) <= file[a].expires /\ Seconds(end) \in Nat
    BY <1>1, <2>2, <2>7, SecondsOfTicks, SecondsBound
  <2>9. Within(file[a].expires, file[a].mac, now, promises[a])
    BY DEF FileWithin
  <2> QED
    BY <1>1, <2>1, <2>8, <2>9 DEF Within
<1>3. CASE ~(file[a].expires > Seconds(now))
  <2>1. Loaded(file)[a] = NoLease
    BY <1>3 DEF Loaded
  <2>2. Seconds(0) = 0
    BY TimeAssumption, SMT DEF Seconds
  <2> QED
    BY <1>1, <2>1, <2>2 DEF Within, NoLease
<1> QED
  BY <1>2, <1>3

(* Neither the passing of time nor an acknowledgement puts anything beyond *)
(* its bounds, and a promise that is dropped bounds nothing.               *)
Succeeds(p, q, t) ==
  \/ q.mac = p.mac /\ q.until = p.until
  \/ q.mac = Nobody
  \/ q.until = t + LeaseTime

LEMMA WithinLater ==
  ASSUME NEW s \in Nat, NEW t \in Nat, s <= t,
         NEW p \in Promise, NEW q \in Promise, Succeeds(p, q, t),
         NEW mac, NEW seconds \in Nat, Within(seconds, mac, s, p)
  PROVE  Within(seconds, mac, t, q)
<1>1. s + LeaseTime \in Nat /\ t + LeaseTime \in Nat /\ s + LeaseTime <= t + LeaseTime
  BY TimeAssumption
<1>2. /\ Seconds(s + LeaseTime) <= Seconds(t + LeaseTime)
      /\ Seconds(s + LeaseTime) \in Nat /\ Seconds(t + LeaseTime) \in Nat
  BY <1>1, SecondsOrdered, SecondsBound
<1>3. seconds <= Seconds(t + LeaseTime)
  BY <1>2 DEF Within
<1> QED
  BY <1>3 DEF Within, Succeeds

LEMMA AllWithinLater ==
  ASSUME NEW s \in Nat, NEW t \in Nat, s <= t,
         NEW P \in [Address -> Promise], NEW Q \in [Address -> Promise],
         \A a \in Address : Succeeds(P[a], Q[a], t)
  PROVE  /\ \A table \in [Address -> Lease] :
              TableWithin(table, s, P) => TableWithin(table, t, Q)
         /\ \A file \in Snapshot : FileWithin(file, s, P) => FileWithin(file, t, Q)
<1>1. ASSUME NEW table \in [Address -> Lease], TableWithin(table, s, P)
      PROVE  TableWithin(table, t, Q)
  <2>1. \A a \in Address : table[a].end \in Nat
    BY DEF Lease
  <2>2. \A a \in Address : Seconds(table[a].end) \in Nat
    BY <2>1, SecondsBound
  <2> QED
    BY <1>1, <2>2, WithinLater DEF TableWithin
<1>2. ASSUME NEW file \in Snapshot, FileWithin(file, s, P)
      PROVE  FileWithin(file, t, Q)
  <2>1. \A a \in Address : file[a].expires \in Nat
    BY DEF Snapshot, SavedLease
  <2> QED
    BY <1>2, <2>1, WithinLater DEF FileWithin
<1> QED
  BY <1>1, <1>2

LEMMA InitLength == Init => LengthInv
<1> SUFFICES ASSUME Init PROVE LengthInv
  OBVIOUS
<1>2. Seconds(0) = 0 /\ Seconds(now + LeaseTime) \in Nat
  <2>1. now + LeaseTime \in Nat
    BY TimeAssumption DEF Init
  <2> QED
    BY <2>1, SecondsBound, TimeAssumption, SMT DEF Seconds
<1>3. \A a \in Address : /\ promise[a].mac = Nobody
                         /\ leases[a].end = 0 /\ disk[a].expires = 0
  BY DEF Init, NoPromise, NoLease, NoSaved
<1>4. TableWithin(leases, now, promise) /\ FileWithin(disk, now, promise)
  BY <1>2, <1>3 DEF TableWithin, FileWithin, Within
<1> QED
  BY <1>4 DEF Init, LengthInv

LEMMA NextLength ==
  ASSUME TypeOK, TypeOK', LengthInv, [Next]_vars
  PROVE  LengthInv'
<1>1. /\ now \in Nat /\ now' \in Nat
      /\ leases \in [Address -> Lease] /\ leases' \in [Address -> Lease]
      /\ promise \in [Address -> Promise] /\ promise' \in [Address -> Promise]
      /\ disk \in Snapshot
      /\ \A i \in Instance : /\ pending[i] \subseteq Snapshot
                             /\ writing[i] \subseteq Snapshot
  BY DEF TypeOK
(* Files that were there stay within the bounds. *)
<1>2. ASSUME now <= now', \A a \in Address : Succeeds(promise[a], promise'[a], now')
      PROVE  /\ TableWithin(leases, now', promise')
             /\ FileWithin(disk, now', promise')
             /\ \A i \in Instance : \A file \in pending[i] \cup writing[i] :
                  FileWithin(file, now', promise')
  BY <1>1, <1>2, AllWithinLater DEF LengthInv
(* An update of the table that is then scheduled. *)
<1>3. ASSUME now' = now, files' = files, Schedule(leases'),
             \A a \in Address : Succeeds(promise[a], promise'[a], now'),
             TableWithin(leases', now', promise')
      PROVE  LengthInv'
  <2>1. FileWithin(SnapshotOf(leases'), now', promise')
    BY <1>1, <1>3, SnapshotWithin
  <2> QED
    BY <1>1, <1>2, <1>3, <2>1 DEF LengthInv, Schedule, files, TypeOK
<1>4. ASSUME NEW c \in Client, NEW a \in Address, Request(c, a)
      PROVE  LengthInv'
  <2>1. /\ now' = now /\ files' = files /\ Schedule(leases')
        /\ leases'[a] = [mac |-> c, end |-> now + LeaseTime]
        /\ promise'[a].mac = c /\ promise'[a].until = now + LeaseTime
        /\ \A b \in Address \ {a} : leases'[b] = leases[b] /\ promise'[b] = promise[b]
    BY <1>1, <1>4 DEF Request, files
  <2>2. \A b \in Address : Succeeds(promise[b], promise'[b], now')
    BY <2>1 DEF Succeeds
  <2>3. TableWithin(leases, now', promise')
    BY <1>1, <1>2, <2>1, <2>2
  <2>4. Seconds(now + LeaseTime) \in Nat
    BY <1>1, SecondsBound, TimeAssumption
  <2>5. TableWithin(leases', now', promise')
    BY <2>1, <2>3, <2>4 DEF TableWithin, Within
  <2> QED
    BY <1>3, <2>1, <2>2, <2>5
<1>5. ASSUME NEW c \in Client, Release(c)
      PROVE  LengthInv'
  <2>1. PICK a \in Address : /\ leases' = [leases EXCEPT ![a] = NoLease]
                             /\ promise' = [promise EXCEPT ![a] = NoPromise]
    BY <1>5 DEF Release, Current
  <2>2. now' = now /\ files' = files /\ Schedule(leases')
    BY <1>5 DEF Release, files
  <2>3. \A b \in Address : Succeeds(promise[b], promise'[b], now')
    BY <1>1, <2>1 DEF Succeeds, NoPromise
  <2>4. TableWithin(leases, now', promise')
    BY <1>1, <1>2, <2>2, <2>3
  <2>5. Seconds(0) = 0 /\ Seconds(now' + LeaseTime) \in Nat
    <3>1. now + LeaseTime \in Nat
      BY <1>1, TimeAssumption
    <3>2. Seconds(0) = 0
      BY TimeAssumption, SMT DEF Seconds
    <3> QED
      BY <2>2, <3>1, <3>2, SecondsBound
  <2>6. TableWithin(leases', now', promise')
    BY <1>1, <2>1, <2>4, <2>5 DEF TableWithin, Within, NoLease, NoPromise
  <2> QED
    BY <1>3, <2>2, <2>3, <2>6
<1>6. ASSUME NEW i \in Instance, Write(i)
      PROVE  LengthInv'
  <2>1. /\ now' = now /\ leases' = leases /\ pending' = pending
        /\ writing' = [writing EXCEPT ![i] = {}] /\ disk' \in writing[i]
        /\ \A a \in Address : /\ promise'[a].mac = promise[a].mac
                              /\ promise'[a].until = promise[a].until
    BY <1>1, <1>6 DEF Write, Promise
  <2>2. \A a \in Address : Succeeds(promise[a], promise'[a], now')
    BY <2>1 DEF Succeeds
  <2> QED
    BY <1>1, <1>2, <2>1, <2>2 DEF LengthInv, TypeOK
<1>7. CASE Start
  <2>1. TableWithin(Loaded(disk), now, promise)
    BY <1>1, LoadedWithin DEF LengthInv
  <2> QED
    BY <1>7, <2>1 DEF Start, LengthInv
<1>8. CASE Tick
  <2>1. /\ now <= now' /\ promise' = promise
        /\ UNCHANGED <<leases, disk, pending, writing>>
    BY <1>1, <1>8 DEF Tick, files
  <2> QED
    BY <1>2, <2>1 DEF LengthInv, Succeeds
<1>9. CASE \/ \E c \in Client : Discover(c)
           \/ \E i \in Instance : Take(i) \/ WriteFails(i)
           \/ Stop \/ Crash \/ UNCHANGED vars
  <2>1. /\ UNCHANGED <<now, leases, disk, promise>>
        /\ \A j \in Instance : pending'[j] \cup writing'[j] \subseteq pending[j] \cup writing[j]
    BY <1>9 DEF Discover, Take, WriteFails, Stop, Crash, vars, files, TypeOK
  <2> QED
    BY <2>1 DEF LengthInv
<1> QED
  BY <1>4, <1>5, <1>6, <1>7, <1>8, <1>9 DEF Next

(* However often it is restarted, the server holds an address less than a  *)
(* second longer than it promised: what load_leases may add to a deadline  *)
(* lease_snapshot took off it before, and it never adds up.                *)
THEOREM NotLengthened == Spec => []LeaseNotLengthened
<1>1. Init => TypeOK /\ LengthInv
  BY InitType, InitLength
<1>2. TypeOK /\ LengthInv => LeaseNotLengthened
  <2> SUFFICES ASSUME TypeOK, LengthInv, NEW a \in Address,
                      promise[a].mac # Nobody, leases[a].mac = promise[a].mac
               PROVE  leases[a].end < promise[a].until + Second
    BY DEF LeaseNotLengthened
  <2>1. leases[a].end \in Nat /\ promise[a].until \in Nat
    BY DEF TypeOK, Lease, Promise
  <2>2. Seconds(leases[a].end) <= Seconds(promise[a].until)
    BY DEF LengthInv, TableWithin, Within
  <2>3. /\ InTicks(Seconds(leases[a].end)) <= InTicks(Seconds(promise[a].until))
        /\ InTicks(Seconds(leases[a].end)) \in Nat
        /\ InTicks(Seconds(promise[a].until)) \in Nat
    BY <2>1, <2>2, SecondsBound, InTicksLinear
  <2>4. /\ leases[a].end < InTicks(Seconds(leases[a].end)) + Second
        /\ InTicks(Seconds(promise[a].until)) <= promise[a].until
    BY <2>1, SecondsBound
  <2> QED
    BY <2>1, <2>3, <2>4, TimeAssumption
<1>3. TypeOK /\ LengthInv /\ [Next]_vars => TypeOK' /\ LengthInv'
  BY NextType, NextLength
<1> QED
  BY <1>1, <1>2, <1>3, PTL DEF Spec
----------------------------------------------------------------------------
(* The file follows the table: the newest of a snapshot in the slot, one   *)
(* the worker holds, and the file itself, says what the table says.        *)

Tracks(file, table) ==
  \A a \in Address :
    /\ table[a].mac # Nobody /\ now < table[a].end =>
         file[a].mac = table[a].mac
    /\ file[a].mac # Nobody /\ file[a].expires > Seconds(now) =>
         table[a].mac = file[a].mac

TrackInv ==
  /\ \A file \in pending[instance] : Tracks(file, leases)
  /\ pending[instance] = {} =>
       \A file \in writing[instance] : Tracks(file, leases)
  /\ up /\ ~behind /\ pending[instance] = {} /\ writing[instance] = {} =>
       Tracks(disk, leases)

LEMMA SnapshotTracks ==
  ASSUME now \in Nat, NEW table \in [Address -> Lease]
  PROVE  Tracks(SnapshotOf(table), table)
  BY SnapshotFacts DEF Tracks, Mirrors

LEMMA LoadedTracks ==
  ASSUME now \in Nat, NEW file \in Snapshot
  PROVE  Tracks(file, Loaded(file))
<1> SUFFICES ASSUME NEW a \in Address
             PROVE  \/ file[a].expires > Seconds(now) /\ Loaded(file)[a].mac = file[a].mac
                    \/ ~(file[a].expires > Seconds(now)) /\ Loaded(file)[a].mac = Nobody
  BY DEF Tracks
<1> QED
  BY DEF Loaded, NoLease

LEMMA NextTracks ==
  ASSUME TypeOK, TypeOK', Unborn, TrackInv, [Next]_vars
  PROVE  TrackInv'
<1>1. /\ now \in Nat /\ now' \in Nat /\ instance \in Instance /\ instance' \in Instance
      /\ leases' \in [Address -> Lease] /\ disk \in Snapshot
  BY DEF TypeOK
<1>2. ASSUME now' = now, instance' = instance, Schedule(leases')
      PROVE  TrackInv'
  <2>1. Tracks(SnapshotOf(leases'), leases')
    BY <1>1, SnapshotTracks
  <2>3. pending'[instance'] = {SnapshotOf(leases')}
    BY <1>1, <1>2 DEF Schedule, TypeOK
  <2> QED
    BY <1>2, <2>1, <2>3 DEF TrackInv, Tracks
<1>3. CASE \E c \in Client : Release(c) \/ \E a \in Address : Request(c, a)
  BY <1>2, <1>3 DEF Request, Release
<1>4. ASSUME NEW i \in Instance, Take(i)
      PROVE  TrackInv'
  <2>1. UNCHANGED <<now, leases, instance, up, disk, behind>>
    BY <1>4 DEF Take
  <2>2. CASE i = instance
    <3>1. pending'[instance'] = {} /\ writing'[instance'] = pending[instance]
          /\ pending[instance] # {}
      BY <1>1, <1>4, <2>1, <2>2 DEF Take, TypeOK
    <3> QED
      BY <2>1, <3>1 DEF TrackInv, Tracks
  <2>3. CASE i # instance
    <3>1. /\ pending'[instance'] = pending[instance]
          /\ writing'[instance'] = writing[instance]
      BY <1>1, <1>4, <2>1, <2>3 DEF Take, TypeOK
    <3> QED
      BY <2>1, <3>1 DEF TrackInv, Tracks
  <2> QED
    BY <2>2, <2>3
<1>5. ASSUME NEW i \in Instance, Write(i)
      PROVE  TrackInv'
  <2>1. /\ UNCHANGED <<now, leases, instance, up, pending>>
        /\ behind' = (i # instance) /\ disk' \in writing[i]
        /\ writing' = [writing EXCEPT ![i] = {}]
    BY <1>5 DEF Write
  <2>2. CASE i = instance
    <3>1. writing'[instance'] = {}
      BY <1>1, <2>1, <2>2 DEF TypeOK
    <3> QED
      BY <2>1, <2>2, <3>1 DEF TrackInv, Tracks
  <2>3. CASE i # instance
    <3>1. writing'[instance'] = writing[instance] /\ behind'
      BY <1>1, <2>1, <2>3 DEF TypeOK
    <3> QED
      BY <2>1, <3>1 DEF TrackInv, Tracks
  <2> QED
    BY <2>2, <2>3
<1>6. ASSUME NEW i \in Instance, WriteFails(i)
      PROVE  TrackInv'
  <2>1. /\ UNCHANGED <<now, leases, instance, up, pending, disk>>
        /\ behind' = (behind \/ i = instance)
        /\ writing' = [writing EXCEPT ![i] = {}]
    BY <1>6 DEF WriteFails
  <2>2. CASE i = instance
    <3>1. writing'[instance'] = {} /\ behind'
      BY <1>1, <2>1, <2>2 DEF TypeOK
    <3> QED
      BY <2>1, <3>1 DEF TrackInv, Tracks
  <2>3. CASE i # instance
    <3>1. writing'[instance'] = writing[instance]
      BY <1>1, <2>1, <2>3 DEF TypeOK
    <3> QED
      BY <2>1, <2>3, <3>1 DEF TrackInv, Tracks, TypeOK
  <2> QED
    BY <2>2, <2>3
<1>7. CASE Start
  <2>1. /\ leases' = Loaded(disk) /\ instance' = instance + 1
        /\ UNCHANGED <<now, pending, writing, disk>>
    BY <1>7 DEF Start
  <2>2. instance' > instance
    BY <1>1, <2>1 DEF Instance
  <2>3. pending'[instance'] = {} /\ writing'[instance'] = {}
    BY <1>1, <2>1, <2>2 DEF Unborn
  <2>4. Tracks(disk, Loaded(disk))
    BY <1>1, LoadedTracks
  <2> QED
    BY <2>1, <2>3, <2>4 DEF TrackInv, Tracks
<1>8. CASE Tick
  <2>1. /\ now' = now + 1
        /\ UNCHANGED <<leases, instance, up, pending, writing, disk, behind>>
    BY <1>8 DEF Tick, files
  <2>2. ASSUME NEW file \in Snapshot, Tracks(file, leases)
        PROVE  Tracks(file, leases)'
    <3> SUFFICES ASSUME NEW a \in Address
                 PROVE  /\ leases[a].mac # Nobody /\ now' < leases[a].end =>
                             file[a].mac = leases[a].mac
                        /\ file[a].mac # Nobody /\ file[a].expires > Seconds(now') =>
                             leases[a].mac = file[a].mac
      BY <2>1 DEF Tracks
    <3>1. Seconds(now) <= Seconds(now') /\ Seconds(now) \in Nat /\ Seconds(now') \in Nat
      BY <1>1, <2>1, SecondsOrdered, SecondsBound
    <3>2. leases[a].end \in Nat /\ file[a].expires \in Nat
      BY DEF TypeOK, Lease, Snapshot, SavedLease
    <3>3. now' < leases[a].end => now < leases[a].end
      BY <1>1, <2>1, <3>2
    <3>4. file[a].expires > Seconds(now') => file[a].expires > Seconds(now)
      BY <3>1, <3>2
    <3> QED
      BY <2>2, <3>3, <3>4 DEF Tracks
  <2>3. \A file \in pending[instance] \cup writing[instance] \cup {disk} :
          file \in Snapshot
    BY <1>1 DEF TypeOK
  <2> QED
    BY <2>1, <2>2, <2>3 DEF TrackInv
<1>9. CASE Stop \/ Crash
  <2>1. /\ UNCHANGED <<now, leases, instance>> /\ ~up'
        /\ \/ UNCHANGED <<pending, writing>>
           \/ pending'[instance'] = {} /\ writing'[instance'] = {}
    BY <1>1, <1>9 DEF Stop, Crash, files
  <2> QED
    BY <2>1 DEF TrackInv, Tracks
<1>10. CASE (\E c \in Client : Discover(c)) \/ UNCHANGED vars
  <2>1. UNCHANGED <<now, leases, instance, up, pending, writing, disk, behind>>
    BY <1>10 DEF Discover, vars, files
  <2> QED
    BY <2>1 DEF TrackInv, Tracks
<1> QED
  BY <1>3, <1>4, <1>5, <1>6, <1>7, <1>8, <1>9, <1>10 DEF Next

(* With nothing left to write, the file says what the table says, through  *)
(* any number of overtaken snapshots, failed writes and restarts.          *)
THEOREM DiskTracks == Spec => []DiskTracksTable
<1>1. Init => TrackInv
  <2> SUFFICES ASSUME Init PROVE TrackInv
    OBVIOUS
  <2>1. Tracks(disk, leases)
    BY DEF Init, Tracks, NoLease, NoSaved
  <2>2. pending[instance] = {} /\ writing[instance] = {}
    BY InstancesAssumption DEF Init, Instance
  <2> QED
    BY <2>1, <2>2 DEF TrackInv
<1>2. TrackInv => DiskTracksTable
  BY DEF TrackInv, DiskTracksTable, Tracks
<1>3. IInv /\ TrackInv /\ [Next]_vars => TrackInv'
  BY NextInv, NextTracks DEF IInv, SafeInv
<1>4. Init => IInv
  BY InitType, InitSafe DEF IInv
<1> QED
  BY <1>1, <1>2, <1>3, <1>4, NextInv, PTL DEF Spec

----------------------------------------------------------------------------
(* The round robin comes to every address within one turn of the pool.     *)
LEMMA EveryAddressHasItsTurn ==
  ASSUME NEW last \in Address, NEW a \in Address
  PROVE  \E k \in 1..Pool : (last + k) % Pool = a
<1>1. /\ Pool \in Nat /\ Pool > 0 /\ last \in Nat /\ a \in Nat
      /\ last < Pool /\ a < Pool
  BY PoolAssumption DEF Address
<1>2. a % Pool = a /\ (a + Pool) % Pool = a
  BY <1>1, SMT
<1>3. CASE a > last
  <2>1. a - last \in 1..Pool /\ last + (a - last) = a
    BY <1>1, <1>3
  <2> QED
    BY <1>2, <2>1
<1>4. CASE a <= last
  <2>1. a + Pool - last \in 1..Pool /\ last + (a + Pool - last) = a + Pool
    BY <1>1, <1>4
  <2> QED
    BY <1>2, <2>1
<1> QED
  BY <1>1, <1>3, <1>4

(* Wherever the round robin stands, Discover finds an address if one is    *)
(* available to the client.                                                *)
THEOREM SkipsNothing == Spec => []DiscoverSkipsNothing
<1>1. TypeOK => DiscoverSkipsNothing
  <2> SUFFICES ASSUME TypeOK, NEW c \in Client, NEW a \in Address, Available(c, a)
               PROVE  Found(c) # {}
    BY DEF DiscoverSkipsNothing
  <2>1. PICK k \in 1..Pool : Turn(k) = a
    BY EveryAddressHasItsTurn DEF Turn, TypeOK
  <2> QED
    BY <2>1 DEF Found
<1> QED
  BY <1>1, TypeCorrect, PTL
=============================================================================
