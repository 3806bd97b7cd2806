# AegisDNS: formal models

TLA+ models of the AegisDNS daemon, model-checked with TLC and in part proved
with TLAPS. They cover the parts of the program whose correctness depends on
the order of steps: the life of a DNS query, the sockets it shares with other
queries, the rate guard, DHCP leases across restarts, the publication of
blocklists, the rules and schedules a user makes, the permits that bound the
load, the query log with the privacy budget rebuilt from it, and the parts that
keep files, caches and child processes: saved settings, the supervisor of
Unbound, actions, fast flux, alerts and the server of local names. Paths below
are relative to `src/crates/`.

## 1. The system

AegisDNS is one process (`daemon`) beside a validating Unbound and an
authoritative server for local zones (`openroot`). It answers DNS, serves a
dashboard, optionally hands out DHCP leases, and keeps its configuration in
JSON files and its query log in SQLite.

| Component | State | Operations | Shared with | What makes it hard |
|---|---|---|---|---|
| DNS query pipeline (`daemon/src/proxy.rs`) | the locals of each query | arrive, decide, answer or forward, inspect, record | reads every store below, one lock at a time | each store may change between two reads; a 10 s wait in the middle |
| Upstream exchange (`proxy.rs`) | 32 sockets per upstream, a counter | take a slot, send, receive, retry by TCP, time out | all queries | abandoned requests leave answers behind on shared sockets |
| Admission (`proxy.rs`) | permits for queries, connections and clients; tasks | accept, refuse, process, end, evict; fail and restart | pipeline, supervisor loop | permits outlive listeners; a cached semaphore may go while in use |
| Rate guard (`daemon/src/anomaly.rs`) | a window per client, a set for the dashboard | count, quarantine, release, evict | pipeline, dashboard | clock read, window and set are three steps |
| Policy engine (`policy/src/lib.rs`) | rules, schedules, emergency mode | evaluate, edit | pipeline, dashboard | precedence, schedules across midnight |
| Blocklists (`blocklist/src/lib.rs`) | the file and the snapshot in memory | refresh, add, delete, look up | pipeline, dashboard | minutes of downloads under a lock, detached writes |
| DHCP server (`daemon/src/dhcp.rs`) | lease table, file, worker's slot | discover, request, release, save, restart | device registry | acknowledged before saved; two clocks; old workers live on |
| Privacy budget (`daemon/src/privacy.rs`) | scores per device and day | score, block, reset | pipeline, analytics | rebuilt from the log at boot |
| Analytics (`analytics/src`) | queues, SQLite, counters | enqueue, persist, flush, trim, delete | pipeline, dashboard | bounded queues, deletion beside writes |
| Action domains (`daemon/src/actions.rs`, `web.rs`) | row, set of domains, cache, permits, process groups | look up, run, edit | pipeline, dashboard | a cache filled with what was read before an edit; children of children |
| Configuration stores (`daemon/src/web.rs`, `device_registry.rs`, `config`) | JSON files and their copies in memory | save, then publish | everything | failures, crashes and overtaking between the two |
| Resolver supervisor (`resolver`, `daemon/src/main.rs`) | the Unbound child | start, watch, restart | upstream configuration | a file read twice, saves in between, failing starts |
| OpenRoot (`openroot/src/main.rs`) | zone, what was last applied | load, reload, answer | pipeline | files seen half edited, restarts |
| Risk, fast-flux (`risk/src/lib.rs`) | resolutions per domain, an index by age | record, judge, evict | pipeline | three bounds that forget |
| Telegram alerts (`daemon/src/telegram.rs`) | permits, recent alerts | raise, send | pipeline | look and insert are two steps |

Correct behaviour, component by component:

* **Pipeline** - what is blocked throughout a query is not answered, what is
  exempt throughout is not blocked, an external name never yields an internal
  address, the log says what the client was told, every query ends.
* **Exchange** - an answer belongs to the question asked; sockets are used by
  one call at a time and all come back.
* **Admission** - permits come back however a task ends, one client cannot use
  up what all share, nothing stays exhausted.
* **Rate guard** - bounded throughput, no refusal without a burst, a dashboard
  that agrees with the guard.
* **Blocklists** - acknowledged changes are neither lost nor undone, a failing
  source never costs protection, the refresher gets its turn.
* **DHCP** - one holder per address; what was promised and saved survives a
  restart; promises are not lengthened.
* **Policy** - every device gets for every name, at every minute, what the
  dashboard was told; an edit has no other effect than the one it names;
  nothing of this changes at a restart.
* **Analytics** - every recorded query is written once, refused, or lost with a
  process, and never two of these; a flush that succeeded left nothing behind of
  what was recorded before it; retention takes the oldest rows and no others.
* **Privacy budget** - a query is charged once, through flushes, crashes and
  restarts; a device that has spent its budget stays over it until midnight.
* **Configuration** - a file is whole at every moment and not older than what
  was acknowledged; what is shown is what the next start loads.
* **Resolver supervisor** - Unbound comes to run what was saved.
* **Actions** - a replaced or deleted action is not run for long; what an
  executable started is gone when its permit is free.
* **OpenRoot** - once the file is left alone and valid, its names are served.
* **Fast flux** - forgetting neither accuses a domain nor clears it.
* **Alerts** - repeated copies of an alert are quieted.

## 2. Modules

| Module | Models | Checked by | Proved in |
|---|---|---|---|
| `QueryPipeline` | `process`, `decision` | `MCQueryPipeline` | `QueryPipelineProofs` |
| `UpstreamExchange` | `exchange`, the socket pool | `MCSharedByQueries` | `UpstreamExchangeProofs` |
| `AnomalyGuard` | `AnomalyDetector` | `MCAnomalyGuard` | `OverloadProofs` |
| `LeaseLedger` | the promise of a DHCP server (abstract) | `MCDhcpLease` | `DhcpLeaseProofs` |
| `DhcpLease` | `AegisDhcpServer`, `LeasePersister`, the supervisor loop | `MCDhcpLease` | `DhcpLeaseProofs` |
| `BlocklistUpdate` | `download_lists`, `post_blocklist`, `delete_blocklist`, the refresher | `MCBlocklistUpdate` | `BlocklistUpdateProofs` |
| `Admission` | `run`, `run_udp`, `run_tcp`, the listener's loop in `main` | `MCAdmission` | `OverloadProofs` |
| `PolicyEngine` | `PolicyEngine`, `ScheduleRule`, the handlers that edit them | `MCPolicyEngine` | `PolicyEngineProofs` |
| `AnalyticsStore` | the channel, the worker and the tables of `analytics` | through `PrivacyBudget` | `PrivacyBudgetProofs` |
| `PrivacyBudget` | `PrivacyGuard` on top of `AnalyticsStore`, with the start of the process | `MCPrivacyBudget` | `PrivacyBudgetProofs` |
| `AtomicFile` | `atomic_write` | `MCControlPlane` | `ControlPlaneProofs` |
| `Settings` | four configuration files, their memory and handlers | through `ResolverSupervisor` | `ControlPlaneProofs` |
| `ResolverSupervisor` | the task that runs Unbound, beside `Settings` | `MCControlPlane` | - |
| `ActionStore` | rows, set and cache of actions, and requests for one | `MCControlPlane` | `ControlPlaneProofs` |
| `ActionRun` | permits, deadlines and process groups of actions | `MCControlPlane` | `ControlPlaneProofs` |
| `FastFlux` | `FastFluxDetector` | `MCControlPlane` | `ControlPlaneProofs` |
| `TelegramAlerts` | `send_dns_alert` | `MCSharedByQueries` | `ControlPlaneProofs` |
| `OpenRoot` | loading, polling and answering of the local zone | `MCControlPlane` | - |

In every module an action is what the code does between two points at which
something else may run: an `await` that can wait, a lock that is given up, a
thread that takes over. Definitions introduced as a *seeded defect* are
plausible bugs; none is part of a specification. Each belongs to a property
that fails when the defect takes the place of the definition it follows, which
shows that the property can fail.

**QueryPipeline.** `q[i]` holds the locals of a query; `pc` names the await it
has reached. The stores are variables of their own, changed by the actions of
the section *The dashboard*. The policy engine is the verdict it gives for a
client and a domain: it is evaluated under one lock. Emergency mode is read
from `policy.json` at start and no handler changes it, so it is free in `Init`
and constant afterwards. `decision()` runs for the query and again for each
CNAME target (`stage`). `seen` is history: the facts about client and names
that held always, and ever, since the query arrived. The properties about
blocking speak of facts that held *always*, because a query that races a change
may be judged either way. A query of either protocol may be dropped at any
await once it is `mortal`: a TCP query is from the start, since its connection
may end, and `ListenerFails` makes every query so, since an error of either loop
and the shutdown drop both JoinSets. A task that is aborted in the middle of a
poll still goes on to its next await, so a mortal query may also finish.

**UpstreamExchange.** `asked[s]` holds the requests to which an answer may
still arrive on the present socket of slot `s`; `Receive` takes any of them,
once or repeatedly, in any order, or never. Dropping a call (`Timeout`) keeps
the socket, an I/O error discards it. Which waiter gets a freed mutex is left
open, which allows more than tokio's queue does.

**AnomalyGuard.** One client; clients share nothing but the capacity of the
cache, and `EvictWindow` may happen at any time. A call reads the clock, fetches the
window, decides under the window's lock, then updates the set. A window that
was dropped from the cache, by a release or an eviction, lives on in the calls
that hold it; windows are numbered (`Generation`), and `dropped` is history: when
each of the earlier ones went. `MaxDrops` bounds their number.
`MaxDelay` bounds the time from a call's clock reading to its decision; it is
an assumption about the executor, needed because the code trusts the older
time. `passed` and `clean` are history; a passage is an arrival with its number
among those of that moment, so that the passages of any span can be counted,
those of all windows together. The code lets a fresh window pass a fresh limit,
which is what `RateBound` allows for each drop.
`RateBound` is about spans of the window's length less *twice* the delay: a
window that is restarted by an overtaken query begins up to a delay too early,
and the queries counted in it may have arrived up to a delay before that.

**DhcpLease.** Time is in ticks, `Second` of them in a second, because the table
keeps exact deadlines and the file whole seconds. `Request` acknowledges and
schedules; `Take` and `Write` are the worker. `Stop` ends the server loop and
leaves its worker alive; `Crash` ends the process; `Start` loads the file.
`promise` is history: for each address the last acknowledgement and the latest
of its deadlines that reached the disk (`safe`). The late write of an earlier
instance's worker may take a newer lease off the disk again; `safe` then goes back
with it, so that `SafeLeaseHonoured` does not promise what the code does not keep. An unavailable address is refused
without a change of state, so no action models it. `for_this_server` belongs to
the `dhcp4r` library; what it rejects changes nothing.

**BlocklistUpdate.** A list is its source. `queue` is `UPDATE_LOCK`, which tokio
grants first come first served; its head holds it. The draft of a task is the
snapshot it will publish; `Write` replaces the file and `Apply` the copy in
memory. A handler that is dropped while its blocking write is queued becomes an
*orphan*, and the write still happens, at any later time, or fails. `told` is
history: what the last answer about a source let its reader conclude (`unknown`
as soon as a new request about it is sent); `stray` says the last write to disk
never reached memory.

**PolicyEngine.** A name is the sequence of its labels, so that the treatment of
`www.`, of wildcards and of parent domains is that of the code; time is the
minute of the week. Rules of the network and of devices are functions of a
scope. An edit clones the rules, changes the clone, saves it and publishes it,
all under the write lock, and is one action (`Publish`) with two outcomes: the
edit is in the file and in memory, or in the file only (`stray`: saving failed
after the rename, or the process ended there). A save that fails earlier
changes nothing. An evaluation holds the read lock, so edits do not interrupt
it, but it reads the clock again for each schedule; it is therefore a sequence
of actions between which `Tick` may begin a new minute. `promise` is history:
what the answers to the edits said, rule by rule and schedule by schedule, from
which `Promised` derives the verdicts in the words of the dashboard, without
reference to the code's order of tests. It starts as what the dashboard would
show of the first file once it is loaded, since the file may stem from an
earlier version that wrote names differently; a file whose names loading changes
is `nested` from its first start on, and ids of schedules are unique in it, as
`add_schedule` keeps them. `QueryPipeline` keeps its own,
coarser view of the policy: a verdict per client and domain.

**Admission.** One listening address: each has its own `DnsProxy`. A slot of
`tasks` is a task of one of the two JoinSets; what it does with its query is
`QueryPipeline`'s affair. Permits are counters, and `share` says which
semaphore a task's client permit belongs to, the one in the cache or one that
was evicted. While `run_udp` itself answers an overload it takes nothing else
(`listener`), and in one of the two cases it holds a permit meanwhile. `Fail`
drops both loops and marks all tasks as aborted; they go one by one
(`Dropped`), and the port can be bound again when the last task with the old
socket is gone. The semaphores belong to the `DnsProxy` and survive. Eviction
by idleness (300 s) cannot meet a permit in use, since tasks end within 120 s;
eviction by capacity can.

**AnalyticsStore, PrivacyBudget.** A query is its serial number, and `sent` says
what it was and when. The channel holds numbers and the flush message; the batch
is the worker's; the two tables number their rows as SQLite does, one more than
the largest in use, because the row cap is computed from numbers. A write
happens as a whole or not at all (a transaction). `saved`, `lost` and `removed`
are history. Until the process ends queries are recorded, also during the
shutdown: `main` waits for its services, and they drop their sets of queries
without waiting for these, so a query in the middle of a poll may come behind the
flush. `covered` is history and says how many queries had been recorded when the
flush was sent. `PrivacyBudget` extends this with the guard: what it has seen since
the process started (`activity`) and what the log held at the start
(`baseline`), each kept as the queries and edges it was built from, of which
`Score` is the code's arithmetic. `Start` reads the tables as
`privacy_summaries` does, most active devices first, or fails and goes on
without them. A query is charged and put into the channel in one step of the
handler, since nothing waits between the two; the lookup before it (`Decide`) is
a step of its own. `Due` is what a device did today as far as the log has not
lost or deleted it.

**AtomicFile.** A call creates a file of its own number under a temporary name
made of the process id and a counter, and renames it over the target. The
directory is kept as a trail: its state when it was last synced, and after each
change since. A power failure may keep any beginning of the trail, and tear any
file that was not synced. Other assumptions about the file system are in the
head of the module. A process that starts again may have the process id, and so
the temporary names, of an earlier one.

**Settings, ResolverSupervisor.** One of four files is followed, chosen in `Init`:
three are replaced by handlers that write the file and take the lock of the
memory afterwards, and the registry of devices is edited under its lock.
`blurred` is history: the last save overlapped another one, lost its client half
way, or failed after the rename. The supervisor reads `upstream.json` once to
have something to compare with (`initial`) and again when it starts Unbound;
`crossed` is history and says that a save fell between the two.

**ActionStore, ActionRun.** The first follows one domain: its row, the set that
answers are decided by, the cache, editors and requests, each between any two
steps of the others, because handlers run on several threads. Versions are
numbers; `retired` and `lastRun` are history. The second follows requests by
their permit, with the processes of each group (`child` and `other`, which
stands for whatever the child has started). Its timers are polled in time: no
request outlives a limit by a tick. Which version runs is a matter of the first
module, what processes do is free in the second.

**FastFlux.** The history per domain, and the index of domains by age from which
the oldest is evicted. An answer takes the lock, records its addresses one by
one and is judged. `log` is history, from which `FluxExact` judges without
forgetting anything.

**TelegramAlerts.** A permit, a look at the cache, an insertion and a task that
sends. Between the permit and the insertion nothing waits, so the clock stands
still meanwhile. The cache has room for 10,000 alerts (`Room`); beyond that it
drops one, whichever its policy chooses (`EvictAlert`; `MaxEvictions` bounds how
often), and `evicted` is history.

**OpenRoot.** The file is a function from spellings to addresses, `Canonical` of
which are names; `Torn` is a file caught half edited. The zone is loaded at the
start and replaced by a poll that finds other bytes than those it applied last.

**MCControlPlane** runs six scenes, made of seven of these modules, side by side. They share no state,
and `scene` says which of them moves; the others rest in their initial states, so
that the states of the run are the sum, not the product, of those of its parts.
**MCSharedByQueries** does the same with `UpstreamExchange` and `TelegramAlerts`.

## 3. Runs

| Run | Instance | Distinct states | Shows |
|---|---|---|---|
| `query` | one query, an external name, its alias, a local name, two store changes | 776 thousand | all pipeline properties, liveness and dropped queries included |
| `shared` | three calls, two slots, two IDs, two questions; beside them three queries, two alerts, two permits, room for one alert, two evictions, silence of two ticks of three | 290 thousand | answers and slots, copies of an alert |
| `anomaly` | two calls, limit 2, window 3, delay 1, one release or eviction, horizon 5 | 2.3 million | rate, refusals, dashboard |
| `anomaly_listed` | same | counterexample | finding 1 |
| `dhcp` | two clients, one address, leases of 5 ticks, 2 ticks a second, one restart | 670 thousand | durability, rounding, the file |
| `dhcp_pool` | two clients, two addresses, no restart | 480 thousand | round robin, refinement of `LeaseLedger` |
| `blocklist` | one remote and one local list, two requests, the refresher | 126 thousand | answers, protection, fairness of the lock |
| `blocklist_timeout` | same | counterexample | finding 2 |
| `admission` | two clients, two permits for queries, two connections, one per client | 101 thousand | permits, overload, recovery |
| `accounting` | three queries of two devices and six edges, channel of 1, batch of 2, two rows kept, two starts, two ticks a day, three ticks | 1.5 million | the log, the budget and their start |
| `control` | six scenes, below | 374 thousand | files, settings, Unbound, actions, fast flux, local names |
| `policy` | two devices, four rules' names, three schedules, days of 3 minutes, two edits, five first files | 244 thousand | verdicts, restarts, the minute boundary, edits |

*Why these bounds suffice.* Each is the smallest at which the interesting cases
occur, and each property has a seeded defect that the same instance exposes.
`query`: queries do not share locals, and what one does to another (using up a
budget) is also a store change, so one query and an adversary that changes
stores twice covers withdrawing one fact and granting another; two changes are
needed for a verdict mixed from two moments; the query comes by either protocol. `shared`: two calls collide and
a third inherits the socket; with two IDs draws collide often; three queries
want two permits, and two alerts a cache with room for one, so that either may be
evicted and pass again within the silence, once or twice. `anomaly`: the
horizon holds two windows, or a quarantine and the window after it; two calls
overtake each other; one drop puts two windows of the client side by side, and the
proof covers any number. `dhcp`: leases of two and a half seconds put deadlines
inside a second, so both roundings show; one restart is enough for
an old worker to write late; a second restart repeats the argument with a
larger slack and is covered by the proof. `blocklist` has no bound besides its
constants. `policy`: three minutes a day suffice for windows that end before,
at and after midnight; one schedule runs from Saturday to Sunday, and one starts
when another ends; two edits override, undo or reorder each other, on top of
files that hold two schedules, temporary rules or emergency mode; names are
given with no, one and two `www.` and with a wildcard. `admission`: the limits
stand to each other as in the code (a client's share is at most half of
either total); the proofs cover all others. `accounting`: with a channel of one
the next query is refused and the flush has to wait; a batch of two is written
by size, by the timer and by the flush, and can be retained in each case, and a
query can come before the flush and behind it; two
rows kept of three make retention choose; of the first device's two kinds of
query neither spends the budget and both together do, so a budget that is cut by
a restart shows; the last tick is a day of its own. `control`: three writes by
two threads, and one crash or power loss, leave a temporary name for the next
process to collide with, as there is one process id; two handlers and three
saves overlap in every order, with two starts and two faults of Unbound; one
action saved and deleted by two editors and one restart, requests of one tick
and a cache of two ticks within a clock of three; two requests share one permit
to execute, and of the four ticks of a request the limits add up to three, so
that late starts show; three
domains compete for two places and a window of two seconds; five contents of the zone file, among them two spellings
of a name and a name that is not local, with two changes of the file and one exit.
*Deadlock* is not checked where the model may stop: all queries
done, all calls made, or the clock at its horizon. `blocklist`, `policy`
and `admission` check it.

Types are checked by TLC while a model is written and then proved where section
5 says so; the runs spend themselves on other properties.

**Fairness.** `query`: weak fairness of the steps of each query that was not dropped - the executor
polls a future that can go on, the exchange has a deadline of 10 s, locks are
held for a few instructions. Nothing is assumed of the dashboard. `blocklist`:
weak fairness of each publication step - downloads and their look-ups have
deadlines and blocking writes end; no request, timeout or disconnection has to
happen. The refresher is served because the lock is first come first served:
with a lock that wakes any waiter the property fails (`HoldsUnfairly`).
`admission`: weak fairness of the end of each task (a query has the deadlines of
`process`, a connection 120 s, an aborted task is dropped when it is polled
next), of the listener's answer, and of binding again, which is tried every 2 s.
`control`: weak fairness of the steps of the supervisor's task - timers of two
seconds fire, and `start` ends, with a child or without one; nothing says that
it succeeds, but `MaxFaults` bounds how often it fails or Unbound exits, since
against a resolver that fails for ever there is no promise. For local names,
weak fairness of loading, binding, reading and applying: the container starts
the server again, and the poll recurs every ten seconds. Saves, edits, crashes
and failures have no fairness.

## 4. What was found

1. `anomaly_listed`. The set behind the dashboard's card "Devices currently
   restricted by the DNS request rate guard" changes only when a query makes a
   transition. A client that was quarantined and then goes silent stays listed
   after its quarantine has ended. `DashboardAgrees` says what does hold: at
   rest the set agrees with the *stored* window, unless updates overtook each
   other or the window was evicted.
2. `blocklist_timeout`. `publish_lists` promises that no unseen update continues
   after a reported timeout. The write of the snapshot runs in
   `spawn_blocking`, which dropping the future does not stop. The file may
   then hold an update that was refused, and the next start loads it. The trace:
   a request, its turn, its downloads, the deadline while the write is queued,
   and the write. `AnswersSurviveRestart` and `LostOnlyOnRequest` hold with
   exactly this exception (`stray`). The file is also ahead of the answer when
   syncing the directory fails after the rename (`web.rs:452` then says that
   protection was retained, without any timeout), or when a connection closes
   between the write and the publication.

Also worth knowing, though no document says otherwise: of queries that overtake
each other, more than two windows' worth can pass within a span of the
window's length less one delay (a limit of three, a window of four and a delay of two show
it); less two delays they cannot (`RateBound`). A lease may lose up to
two seconds at every restart that is followed by a save (`Slack`), and the
worker of a stopped DHCP loop can overwrite what its successor saved. Of two
schedules that meet at a minute, an evaluation at that very minute may miss
both: it passes the one that is about to start and then finds the other ended
(the exception in `VerdictOfSomeMoment`; without it TLC finds the case). A rule
for a name below two `www.` changes its meaning at a restart, because loading
strips all of them and editing one (`nested`). A client whose semaphore is
evicted while in use gets a second share (the exception in `OverloadByOthers`). If the legacy rules cannot be
read at the first start, the file is written without them and they are not
tried again.

Of the accounting: failed queries are in the total of the persisted score,
though the guard in memory leaves them out; a company seen before and
after a restart counts in both halves, and the share of distinct names is taken
of each half, so that the score after a restart may be higher or lower than
without it (`StaysSpent` says what is kept: what the distinct edges amount to).
Logs that are deleted while they are still in the channel or the batch come
back with the next write.

Of the control plane: two saves that overlap, a handler whose client goes away
between the file and the lock, and a directory that cannot be synced after the
rename leave memory and file apart, until the next undisturbed save or start
(`blurred`). Two edits of an action that overlap can leave the row and the set
of action domains apart until a restart. If `upstream.json` is changed and
changed back while Unbound starts, the child runs the value in between and the
watcher sees no difference (`crossed`). The comment in `daemon/src/actions.rs:170-172` says
that the group of an executable is always closed before the permit is
released; a handler that is dropped - by a client that hangs up, or by the
deadline of 20 s if body and look-up took about five of them - kills the direct
child and leaves the rest of its group (`gone` and `late` in `left`). The signal
to a group is sent after its first process was reaped, when its number might in
principle belong to another group. Two spellings of one local name in
`openroot.json` give a file two readings, decided by the order of a hash map, and
the first poll may replace one by the other. A resolution that is exactly 600 s
old counts for the verdict and may already be forgotten.

## 5. Proofs

TLAPS proves the following for all values of the constants that satisfy the
named assumptions of the modules (disjoint sets, non-empty pools, naturals).

* `QueryPipelineProofs`: `TypeOK`, `StableBlockEnforced`, `StableLiftHonoured`,
  `NoRebinding`, `LogMatchesResponse`. The invariant (`PipelineInv`) has three
  parts: wherever a query has got to, what it has been judged by so far was true
  at some moment since its arrival, and an answer it holds was inspected name by
  name (`Judged`); the history lies around the present (`Witnessed`); and what
  was reported is what was told (`Told`). It is needed because the properties compare the end of a query with facts of its
  whole life: the facts that held always only shrink, those that held ever only
  grow (`Lasting`), so a judgement once justified stays so whatever the
  dashboard does next.
* `UpstreamExchangeProofs`: `TypeOK`, `SlotsAreReturned`, `OneReceiverPerSlot`,
  `AnswersOwnQuestion`, `ForeignAnswerNeedsCollision` (stated only here: a
  foreign answer that is accepted has the same ID and question). The inductive
  invariant adds that every request under way is that of the call it names:
  calls are made once, so a foreign answer that was accepted must carry an equal
  ID.
* `DhcpLeaseProofs`: `TypeOK`; `RefinesLedger`, step by step with no invariant
  besides types; `SafeLeaseHonoured` by an inductive invariant that follows
  the promised deadline wherever it is: in the table, in the worker's slot and
  hands, and on disk, each time less the rounding it has suffered. It is
  needed because a restart replaces the table by the file, and a late write
  replaces the file by an older table. Arithmetic lemmas bound what a
  division by `Second` loses. `LeaseNotLengthened` follows the other end of the same
  road: no copy of a lease, in any worker's hands or on disk, ends later than
  was acknowledged to its holder, plus the part of a second that a reading of
  the wall clock hides. `DiskTracksTable` compares the newest copy on its way to
  the file (pending, in hand, or written) with the table, entry by entry, as
  of now: a lease that ran out may be in the one and not in the other.
  `DiscoverSkipsNothing` needs types alone: the probes from any `lastLease` are a
  complete residue system, so they meet every address.
* `BlocklistUpdateProofs`: `TypeOK`, `Protected`, `LostOnlyOnRequest`,
  `AnswersHold` and `AnswersSurviveRestart`. The invariant
  says that who publishes holds the lock (`Exclusive`), that drafts leave out
  only what they were asked to delete (`DraftsFollowMemory`; it needs
  `Exclusive`, since memory must not change under a draft), that complete
  snapshots are consistent, and that without a stray write the file is memory
  or the draft about to become memory. `Knowledge` adds for the answers: while a
  request about a list is under way nobody has been told anything of it
  (`SilentWhileAsked`), what was told is true of memory, of the file that has
  not gone astray and of every draft in the making (`Settled`), and a draft
  does what its request asked (`DoesAsAsked`). Types need that the queue names
  every waiting task once (`Line`).
* `PolicyEngineProofs`: `TypeOK` and `ActiveInWindow`, that the case distinction of
  `active_at` is the window the dashboard describes, for days of any length;
  the arithmetic is an elapsed time modulo the week, split by the day on which
  the window opened. `VerdictOfSomeMoment`, by the invariant that no schedule
  passed so far decided at the minute it was read, and that a schedule passed
  before the tick did not decide at the first minute. `Crossing` is the core: if
  nothing passed starts, or nothing to come changes, the verdict is that of one
  of the two minutes.
  `VerdictAsPromised` and `PromiseSurvivesRestart` by the invariant `Kept`: the
  promise is what the dashboard shows of the engine in memory, and of the engine
  the file would give unless the last save went astray. It is inductive because
  each edit changes the shown rules exactly as it says (`EditIsShown`) and
  because loading changes nothing that was loaded or edited before (`Loading`;
  stripping `www.` twice is stripping it once, unless two of them stand in
  front). `ShownIsDecided` closes the gap between the two readings of a policy:
  whoever decides by the rules and schedules shown, in the order of the code,
  decides as the words of the dashboard say, `ActiveInWindow` included.
  `EditsAreNarrow` compares the three verdicts - blocked, filtered, exempt - before
  and after an edit: for rules by cases of the scope edited; for schedules by
  `AllBut`: two lists that agree on all schedules but those of one id, and on
  their order, have the same first match unless a schedule of that id matches.
* `OverloadProofs`, of `Admission`: `PermitsAccounted` and, from it, `OverloadByOthers`. The
  invariant adds that whoever runs holds a share. `SlotChange` says what the
  change of one slot does to the three counts, so that each action is
  arithmetic; `Covered` bounds what one client's tasks can hold.
  Of `AnomalyGuard`: `RateTypeOK`, `RateBound`, `OnlyFloodersBlocked` and
  `DashboardAgrees`. `Timely` says that the calls under way arrived at most a
  delay ago. `WindowsSound` ties a window to its history: the queries it has
  counted are passages of its span, those it let through before it last began to
  count anew lie before that, and a quarantine was earned by a limit of passages
  shortly before it; of the passages of one window any span short enough meets at
  most two counts, each of at most `Limit`. A window that followed another has
  counted anew only once it is a window's length old (`Split`). So for `RateBound`
  the first limit of what each window let through in a span is charged to the
  drop that ended it, or for the last window to none, and at most one window let
  more than a limit through. `DashboardFollows` says that in an undisturbed history the one
  update under way is what will make the set agree with the window.
* `PrivacyBudgetProofs`: `EveryQueryOnce` and `FlushMeansSaved`. `Placed` puts
  every serial number in exactly one place and says that the channel and the
  batch hold it once; a step moves numbers from one place to another.
  `FlushInOrder` adds that nothing is in front of the flush but what was there
  when it was sent: the messages of the channel are in the order of their numbers,
  so once the flush is taken, what is left is younger than it.
  `ChargedOnce` by `GuardInv` on top of both: what the process has seen is younger
  than what the persisted score stands for, because channel and batch were empty
  when the score was read (`Sides`); every row that was not deleted is no older
  than its query (`Kept`), so that what is due today was read, if the table of
  devices had room. The finite sets of devices are compared by cardinality.
  `RetentionKeepsNewest` by `Stacked`: the ids of a table are an interval, in the
  order of time. Rows are numbered from the largest id in use, a deletion takes
  the oldest, retention too, so that no hole ever appears, and the number of rows
  above one is the difference of two ids. For the edges of a batch this needs what
  `FlattenSeq` computes (`Flattened`): its recursion is solved, and the solution
  described, by looking at the first length at which that would fail.
  `StaysSpent` by `EdgesKept` (of a query that was committed and of which nothing was
  removed, every edge has a row, written no earlier than the query was made) and
  `SpentInv` (an evidence holds all edges of the queries it counts). The points of
  a union are at most those of both parts (`PointsCovered`), and the ratios only
  add.
* `ControlPlaneProofs`, one part per module. `WholeFile`: whoever is about to
  rename owns a temporary name and a synced file (`Owns`), no two calls own the
  same name (`Apart`), and whichever beginning of the trail survives, its target
  is synced and not older than what was acknowledged (`Lasting`). `SavedIsShown`:
  as long as nothing is blurred, at most one handler has to publish, and what it
  will publish is in the file (`InStep`).
  `ReplacedActionsExpire`: a version that is no longer the row is in the cache
  no later than a request of before its end can have put it there (`Expiring`).
  `GroupsClosed` with the types of `ActionRun`: by the place of a request its
  age is bounded by when it spawned and the limits since (`Timed`).
  `CopiesBounded`: the copies of an alert passed on at this moment and those about
  to be are no more than the permits, and as many again for each eviction at this
  moment; whoever is about to insert an alert that the cache has met it there only
  now; and an alert that passed within the silence is in the cache unless it was
  evicted since (`Quieted`).
  `FluxExact`: what the detector holds of a domain is, in order, the end of what was
  recorded of it (`Copies`), and what is missing is as old as the window, or was
  taken at the cap of the domain while the history is still full, or went when
  there were more domains than fit (`Excused`). It is inductive because the index
  is exact (`IndexIsExact`) and in the order of time, so that aging takes
  expired domains only, and at an eviction all domains kept, and the new one,
  are of this window.

Not proved, only model-checked: `EveryQueryAnswered`, `RefreshEnds`,
`ServiceReturns`, `ResolverCatchesUp` and `ZoneServed` (liveness is out of the
prover's reach). Every invariant and every action property of the runs is
proved.

## 6. Not modelled, and simplifications

* Wording, logging, statistics and encodings, except where a property is about
  them (the rounding of saved deadlines is).
* In `QueryPipeline`, admission: arrivals are free, connections and listeners may end. Its
  policy is a verdict per client and domain, not `PolicyEngine`'s rules.
* Names of blocklists, their parser, allow-exceptions, the legacy files read at
  the first start. Lists are identified by source; that they are deleted by
  name is a hazard without a property.
* DHCP configuration and the registration of hostnames after an acknowledgement.
  `dhcp.json` is read at the start and at every look; `config.json` is only read.
* Of the policy engine: the typosquatting distance (a function of the name
  alone), the diagnosis page, safe search and the profile field, and a
  `policy.json` that cannot be parsed. Temporary rules and emergency mode have
  no handler; files that hold them are among the first files.
* Of analytics: the SQL that aggregates statistics (it reads one table at one
  moment and keeps nothing), the log of actions, the migration of the schema,
  and errors of the disk that end the worker.
* Of actions: what validation accepts, output and its limits, the log.
* Of OpenRoot: the TCP listener with its 64 permits and deadline, whose shape is
  that of `Admission`.
* The weights of the risk score, the classification of names for relationships,
  external commands, the user interface, request routing and sessions: functions
  without state, or pure I/O. They are marked `not_modelled` or `partly` in
  `PROJECT.json`, with the reason.

## 7. What could come next

1. `QueryPipeline` with the verdicts of `PolicyEngine` in place of its own, and
   with `PrivacyBudget`'s decision in place of a fact the dashboard changes.
2. The registration of hostnames after an acknowledgement, across `DhcpLease` and
   the registry of devices.
3. Lists with names beside sources, for two lists that share one.
4. Proofs: the safety half of the two liveness properties of `MCControlPlane`,
   and a theorem for `OpenRoot`, which has none yet.
