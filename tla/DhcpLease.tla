----------------------------- MODULE DhcpLease -----------------------------
(***************************************************************************)
(* The DHCP server of crates/daemon/src/dhcp.rs: its lease table, the      *)
(* worker threads that save snapshots of it, and what restarts of the      *)
(* server loop or of the process make of the table.                        *)
(*                                                                         *)
(* The server handles one packet at a time.  An acknowledgement is sent    *)
(* when the snapshot is scheduled, before it is on disk.  Each server      *)
(* instance has a worker of its own, and the worker of an instance whose   *)
(* loop ended lives on.                                                    *)
(*                                                                         *)
(* The clock counts ticks, Second of them in a second: the table holds     *)
(* exact deadlines, the file whole seconds.                                *)
(***************************************************************************)
EXTENDS Integers, FiniteSetsExt

CONSTANTS
  Client,       \* hardware addresses
  Nobody,       \* not a client
  Pool,         \* number of addresses
  LeaseTime,    \* lease_duration_secs, in ticks
  Second,       \* ticks of a second
  Horizon,      \* bound: the clock stops here
  Instances     \* bound: server instances of a behaviour

ASSUME PoolAssumption == Pool \in Nat \ {0}
ASSUME ClientAssumption == Nobody \notin Client
ASSUME TimeAssumption ==
  LeaseTime \in Nat \ {0} /\ Second \in Nat \ {0} /\ Horizon \in Nat
ASSUME InstancesAssumption == Instances \in Nat \ {0}

VARIABLES
  now,          \* the clock
  leases,       \* AegisDhcpServer.leases
  lastLease,    \* AegisDhcpServer.last_lease
  instance,     \* the server instance, numbered
  up,           \* does its loop run?
  pending,      \* [Instance -> set of at most one snapshot to be saved]
  writing,      \* [Instance -> set of the snapshot the worker took]
  disk,         \* dhcp-leases.json
  promise,      \* history: the last acknowledgement for each address
  behind        \* history: the instance's last write failed, or the worker
                \* of an earlier instance wrote after it

vars == <<now, leases, lastLease, instance, up, pending, writing, disk,
          promise, behind>>

Address == 0..(Pool - 1)
Instance == 1..Instances
Holder == Client \cup {Nobody}

Lease == [mac : Holder, end : Nat]
NoLease == [mac |-> Nobody, end |-> 0]
(* A saved lease; `end` is history: the deadline it was rounded from. *)
SavedLease == [mac : Holder, expires : Nat, end : Nat]
NoSaved == [mac |-> Nobody, expires |-> 0, end |-> 0]
Snapshot == [Address -> SavedLease]
(* `safe`: the latest deadline of this promise that reached the disk. *)
Promise == [mac : Holder, until : Nat, safe : Nat]
NoPromise == [mac |-> Nobody, until |-> 0, safe |-> 0]

TypeOK ==
  /\ now \in 0..Horizon
  /\ leases \in [Address -> Lease]
  /\ lastLease \in Address
  /\ instance \in Instance
  /\ up \in BOOLEAN
  /\ pending \in [Instance -> SUBSET Snapshot]
  /\ writing \in [Instance -> SUBSET Snapshot]
  /\ disk \in Snapshot
  /\ promise \in [Address -> Promise]
  /\ behind \in BOOLEAN

Init ==
  /\ now = 0
  /\ leases = [a \in Address |-> NoLease]
  /\ lastLease = 0
  /\ instance = 1
  /\ up = TRUE
  /\ pending = [i \in Instance |-> {}]
  /\ writing = [i \in Instance |-> {}]
  /\ disk = [a \in Address |-> NoSaved]
  /\ promise = [a \in Address |-> NoPromise]
  /\ behind = FALSE

files == <<writing, disk, behind>>

----------------------------------------------------------------------------
(* The table. *)

(* Seeded defect: the address is available at the deadline itself.         *)
AvailableAtDeadline(c, a) ==
  leases[a].mac = Nobody \/ leases[a].mac = c \/ now >= leases[a].end

Available(c, a) ==
  leases[a].mac = Nobody \/ leases[a].mac = c \/ now > leases[a].end

Current(c) == {a \in Address : leases[a].mac = c /\ now < leases[a].end}

Seconds(t) == t \div Second

(* Seeded defect: the remaining time is rounded up.                        *)
SnapshotRoundedUp(table) ==
  [a \in Address |->
     IF table[a].mac # Nobody /\ table[a].end > now
     THEN [mac |-> table[a].mac,
           expires |-> Seconds(now) + Seconds(table[a].end - now) + 1,
           end |-> table[a].end]
     ELSE NoSaved]

(* lease_snapshot: whole seconds of the clock plus whole seconds to go. *)
SnapshotOf(table) ==
  [a \in Address |->
     IF table[a].mac # Nobody /\ table[a].end > now
     THEN [mac |-> table[a].mac,
           expires |-> Seconds(now) + Seconds(table[a].end - now),
           end |-> table[a].end]
     ELSE NoSaved]

(* Seeded defect: an instance starts with an empty table.                  *)
LoadedNothing(file) == [a \in Address |-> NoLease]

(* load_leases *)
Loaded(file) ==
  [a \in Address |->
     IF file[a].expires > Seconds(now)
     THEN [mac |-> file[a].mac,
           end |-> now + (file[a].expires - Seconds(now)) * Second]
     ELSE NoLease]

(* The worker's slot holds the latest snapshot only. *)
Schedule(table) ==
  pending' = [pending EXCEPT ![instance] = {SnapshotOf(table)}]

----------------------------------------------------------------------------
(* Packets. *)

(* The k-th address after the last one, and the turns that c may have. *)
Turn(k) == (lastLease + k) % Pool

(* Seeded defect: the loop stops one address short.                        *)
FoundShort(c) == {k \in 1..(Pool - 1) : Available(c, Turn(k))}
Found(c) == {k \in 1..Pool : Available(c, Turn(k))}

(* An offer reserves nothing, and the state changes only when the client   *)
(* neither asks for an available address nor has one: then the round robin *)
(* moves to the next address that is available to it.                      *)
Discover(c) ==
  /\ up /\ Current(c) = {}
  /\ \E k \in Found(c) :                 \* else once round, and no reply
       (\A l \in Found(c) : k <= l) /\ lastLease' = Turn(k)
  /\ UNCHANGED <<now, leases, instance, up, pending, files, promise>>

(* Seeded defect: the table is scheduled before the lease is in it.        *)
RequestSavesFirst(c, a) ==
  /\ up /\ Available(c, a)
  /\ leases' = [leases EXCEPT ![a] = [mac |-> c, end |-> now + LeaseTime]]
  /\ Schedule(leases)
  /\ promise' = [promise EXCEPT ![a] =
                  [mac |-> c, until |-> now + LeaseTime,
                   safe |-> IF @.mac = c THEN @.safe ELSE 0]]
  /\ UNCHANGED <<now, lastLease, instance, up, files>>

(* An available address is leased, the table scheduled, and Ack sent.      *)
Request(c, a) ==
  /\ up /\ Available(c, a)
  /\ leases' = [leases EXCEPT ![a] = [mac |-> c, end |-> now + LeaseTime]]
  /\ Schedule(leases')
  /\ promise' = [promise EXCEPT ![a] =
                  [mac |-> c, until |-> now + LeaseTime,
                   safe |-> IF @.mac = c THEN @.safe ELSE 0]]
  /\ UNCHANGED <<now, lastLease, instance, up, files>>

(* Release or Decline, perhaps late or repeated: a current lease of the    *)
(* client, whichever the table finds first, is dropped.                    *)
Release(c) ==
  /\ up
  /\ \E a \in Current(c) :
       /\ leases' = [leases EXCEPT ![a] = NoLease]
       /\ promise' = [promise EXCEPT ![a] = NoPromise]
  /\ Schedule(leases')
  /\ UNCHANGED <<now, lastLease, instance, up, files>>

----------------------------------------------------------------------------
(* The persistence workers. *)

Take(i) ==
  /\ pending[i] # {} /\ writing[i] = {}
  /\ writing' = [writing EXCEPT ![i] = pending[i]]
  /\ pending' = [pending EXCEPT ![i] = {}]
  /\ UNCHANGED <<now, leases, lastLease, instance, up, disk, promise,
                 behind>>

(* What a file says of the last acknowledgement for a: a deadline that was *)
(* promised, or nothing.                                                   *)
Covers(file, a) ==
  IF file[a].mac = promise[a].mac /\ file[a].end <= promise[a].until
  THEN file[a].end ELSE 0

(* atomic_write: the file is replaced as a whole.  Only the late write of  *)
(* an earlier instance's worker can take back what was safe.               *)
Write(i) ==
  /\ \E file \in writing[i] :
       /\ disk' = file
       /\ promise' =
            [a \in Address |->
              [promise[a] EXCEPT !.safe = IF i = instance
                                          THEN Max({@, Covers(file, a)})
                                          ELSE Min({@, Covers(file, a)})]]
  /\ writing' = [writing EXCEPT ![i] = {}]
  /\ behind' = (i # instance)
  /\ UNCHANGED <<now, leases, lastLease, instance, up, pending>>

(* The error is logged and the snapshot is gone. *)
WriteFails(i) ==
  /\ writing[i] # {}
  /\ writing' = [writing EXCEPT ![i] = {}]
  /\ behind' = (behind \/ i = instance)
  /\ UNCHANGED <<now, leases, lastLease, instance, up, pending, disk,
                 promise>>

----------------------------------------------------------------------------
(* serve() returns on a socket error; the supervisor retries. *)
Stop ==
  /\ up
  /\ up' = FALSE
  /\ UNCHANGED <<now, leases, lastLease, instance, pending, files,
                 promise>>

(* The process dies and every worker with it. *)
Crash ==
  /\ up' = FALSE
  /\ pending' = [i \in Instance |-> {}]
  /\ writing' = [i \in Instance |-> {}]
  /\ UNCHANGED <<now, leases, lastLease, instance, disk, promise, behind>>

(* AegisDhcpServer::new *)
Start ==
  /\ ~up /\ instance < Instances
  /\ up' = TRUE
  /\ instance' = instance + 1
  /\ leases' = Loaded(disk)
  /\ lastLease' = 0
  /\ behind' = FALSE
  /\ UNCHANGED <<now, pending, writing, disk, promise>>

Tick ==
  /\ now < Horizon
  /\ now' = now + 1
  /\ UNCHANGED <<leases, lastLease, instance, up, pending, files,
                 promise>>

Next ==
  \/ \E c \in Client :
       \/ Discover(c)
       \/ \E a \in Address : Request(c, a)
       \/ Release(c)
  \/ \E i \in Instance : Take(i) \/ Write(i) \/ WriteFails(i)
  \/ Stop \/ Crash \/ Start \/ Tick

Spec == Init /\ [][Next]_vars

----------------------------------------------------------------------------
(* Saving a deadline rounds it down twice, each time by less than a second.*)
(* The deadline of a lease that is loaded and saved again suffers anew.    *)
Rounding == 2 * (Second - 1)
Slack == (instance - 1) * Rounding

(* An acknowledged lease whose deadline reached the disk is honoured until *)
(* that deadline, less two seconds for every restart: until then the table *)
(* never gives the address to somebody else.  A deadline that the late     *)
(* write of an earlier instance's worker took off the disk again is one    *)
(* that never reached it: of that hazard this property says nothing.       *)
SafeLeaseHonoured ==
  \A a \in Address :
    up /\ promise[a].mac # Nobody /\ now + Slack < promise[a].safe =>
      leases[a].mac = promise[a].mac /\ now <= leases[a].end

(* However often it is restarted, and whatever an old worker writes late,  *)
(* the server holds an address less than a second longer than it promised. *)
LeaseNotLengthened ==
  \A a \in Address :
    promise[a].mac # Nobody /\ leases[a].mac = promise[a].mac =>
      leases[a].end < promise[a].until + Second

(* With nothing left to write the file says what the table says, unless    *)
(* the last write failed or was not this instance's.                       *)
DiskTracksTable ==
  up /\ ~behind /\ pending[instance] = {} /\ writing[instance] = {} =>
    \A a \in Address :
      /\ leases[a].mac # Nobody /\ now < leases[a].end =>
           disk[a].mac = leases[a].mac
      /\ disk[a].mac # Nobody /\ disk[a].expires > Seconds(now) =>
           leases[a].mac = disk[a].mac

(* Wherever the round robin stands, Discover finds an address if there is  *)
(* one.                                                                    *)
DiscoverSkipsNothing ==
  \A c \in Client : (\E a \in Address : Available(c, a)) => Found(c) # {}

(* Between restarts the table is a ledger: no step hands an address that   *)
(* is leased to one client to another.                                     *)
Held ==
  [a \in Address |-> IF leases[a].mac # Nobody /\ now <= leases[a].end
                     THEN leases[a].mac ELSE Nobody]

Ledger == INSTANCE LeaseLedger WITH holder <- Held

RefinesLedger ==
  Ledger!LedgerInit /\ [][Ledger!LedgerNext(instance' # instance)]_Held
=============================================================================
