# Verification of CPU-web

TLA+ models of the parts of CPU-web (`src/server`, `src/ops`) whose correctness
depends on the order in which concurrent things happen, the TLC runs that check
them on small instances, and the theorems about them that TLAPS proves for every
value of the constants. `PROJECT.json` lists every component, run, theorem,
hazard and finding, and maps each definition to the lines it stands for.

## 1. The system

The server is an Express application over PostgreSQL and Redis. It may run as
several processes. What it does for the university's teaching system (JWXT) it
does through *agents*: processes on campus that hold the students' JWXT sessions
and are reached over WebSockets which they open to the main service.

| Component | Source (`server/src/...`) | State it keeps | Operations | What makes it correct |
|---|---|---|---|---|
| Session replica store | `services/jwxtSessionReplica.ts`, `jwxtReplicaBackfill.ts` | per session a record: owner, epoch, capture time, copies encrypted for other nodes | save under a write lock, load, delete, backfill sweep | a save never overwrites another tenure or a newer capture; the owner can restore itself; a logout stays a logout |
| Agent gateway | `services/jwxtAgentGateway.ts` | registered socket of each node, pending requests, queue counter, node settings | connect, welcome, request, answer, timeout, heartbeat, reconfigure | every request settles; limits hold; a working connection keeps its place |
| Agent client | `services/jwxtAgentClient.ts` | socket, running requests | reconnect, admit, dispatch, answer | agrees with the gateway about the limit |
| Session routing and recovery | `services/jwxtAgentRemote.ts` | runtimes, recovery promises, the migration lease | sticky call, recovery with its choice of targets, takeover, logout | an owner is left only when it has failed; a lost session is restored; every request is answered |
| Browser session | `services/browserSession.ts` | session and revocation mark in the ephemeral store | issue, load (with renewal), update, revoke | a store failure is no sign-out; a logout is final |
| Ephemeral store | `services/cache.ts` | a key in Redis, a database row and process memory | checked read, write, delete | a value that should live is somewhere that lasts |
| Versioned cache and locks | `services/cache.ts` | version counters, local copies, loads under way, lock tokens | load, store, bump, lock, claim | what is served shows the changes its version covers, and an invalidation reaches every process; one holder |
| Concurrency gate | `utils/loadShield.ts` | running counter, queue | run, abort, queue timeout | no permit lost or made, order of arrival |
| AI provider lanes | `services/aiUpstreamScheduler.ts` | lane per endpoint: active counter, queue | run, abort, timeout, close of a body | one lane per endpoint, limit, order |
| Blue-green deployment | `ops/deploy/blue-green.mjs`, `blue-green-core.mjs`, `qqbot-handoff.mjs` (not below `server/src`) | phase with previous and candidate, nginx's files and their backups, the page, the background marker, PM2's list, hand-over record | prepare, switch, verify, drain, retire, roll back, recover, prune, page alone | traffic is always served, no connection is cut, one release works in the background, any interruption can be completed or undone |
| SSO login pool | `services/ssoLoginPool.ts` | weights, counters, failures | begin, submit, failover | no node beyond its limit |
| Points and payments | `services/campusAssistantPoints.ts`, `questionBounty.ts`, `sponsor.ts`, `routes/payments.ts`, `routes/topic.ts` | balance, ledger, orders, metadata of questions | grant, spend, meter, refund, notify, close, change, backfill, accept, edit | the ledger explains every balance; nothing is paid or undone twice |

The rest (forum, crawlers, moderation, media, bots, push, routes, clients and the
vendored VoiceHub) is listed in `PROJECT.json` with the reason why it is left out.

**Interaction.** A route asks `jwxtAgentRemote` for something on behalf of a
session token. It looks up the owner in the replica store, sends the request
through the gateway's socket to that node, and the gateway stores the replica
that comes back with the answer. If the node has lost the session or is gone,
recovery takes the migration lock and imports a copy on another node. The
replica record, browser sessions and revocation marks are keys of the ephemeral
store. Sign-ins pass through the concurrency gate, and model requests through the
lanes. The deployer replaces the server itself while it serves: the two releases, nginx,
PM2 and the chat bot meet only through files, ports and the marker.

**What is hard.** Every `await` is a place where another request, socket event,
timer or process may run. Saves race takeovers and logouts; answers race
timeouts; a socket's close event comes after its successor has registered; Redis
and the database fail separately, and a command that timed out may have been
carried out; a waiter may be aborted after it was handed a permit; the deployer may be killed,
or the host restarted, between any two of its steps.

## 2. Modules

Modules come in groups: the component, an abstract specification where there is
one, an `MC` module with the symmetry TLC uses, where it needs one, and a `Proof`
module; the gate and the lanes, which share an abstract specification, also share
theirs, `FairPermitsProof`. Definitions named `...` after a *Mutant* comment are broken variants of
the definition that follows; each property is known to fail under one of them.

### SessionReplica, SessionOwnership

One session, its record, and operations that run concurrently in any process: a
query, a takeover, a backfill, a logout. `op[w]` is the local state of operation
`w` (what it read before its call, what it captured, what it read under the
lock); `rec` is the stored record, `lock` the Redis lease, `live[a]` the session
in the memory of node `a`. Each action ends at an `await`: routing (`StartQuery`,
`Attach`, ...), the node (`Serve`, `Import`, `Export`, `LogoutAtNode`), the save
(`Lock`, `Read`, `Refuse`, `Write`), and the delete, which takes no lock.
`Spec` has a lock that holds; `LapsingSpec` adds `Lapse`, the lease that ends under
a slow holder, and is what the weaker theorems are proved for.
`SessionOwnership` is the promise: there is one owner, and an epoch moves forward
by one when ownership moves; a dropped session starts at epoch 1 or resumes.

### SessionRecovery

What surrounds the record: how a request finds its session's node and what
happens when that node is gone. `req[w].at` is the step of a request (load the
record, call, caught an error, probe, join a recovery, retry, log out), `rcv[p]`
the recovery process `p` runs and whose promise its requests share, `lock` the
migration lease in Redis, `live` and `link` the nodes' memories and connections.
`Choose` is the filter of the targets (their ranking is a free choice among them),
`Import` the import at one of them, and `late` holds saves of takeovers whose call
has broken off and that the gateway still carries out. Faults (a node restarts or drops out, is slow, a save is
lost, a call breaks, a process dies with its lease) are counted by `MaxFaults`.
`blamed` and `calm` are history: the nodes somebody had reason to give up, and
whether anything went wrong since all was at rest. A save is one step here and a
record's copies do not change with later saves: both are `SessionReplica`'s
subject. A lease that is renewed every five seconds and lasts fifteen does not end
during an import of at most five, hence the guard of `Expire`. The local runtime
of the main service is treated like any node.

### AgentGateway

One node's id, several processes that may hold it, connections, and requests of
the main service. `current` is the entry of `sessions`, `conn[c]` the socket, its
pending map and the process at the other end, `req[r]` a caller's promise and its
message or work at the node, `queued` the queue counter. Reading the replica
record, polling for a slot and persisting an answer's replica are separate steps.
Timers are actions that may fire whenever they are armed.

### EphemeralStore, BrowserSession

`EphemeralStore` gives each step of the checked read, write and delete over
Redis, database and process memory; a failing command may have been carried out.
`BrowserSession` builds the handlers from it: one session and its revocation mark,
and requests that load (and perhaps renew) it, update it or log it out.
`req[w].at` is the call under way and `req[w].step` how far it is. `Failures` is
the set of sets of stores that may fail in the same behaviour; each behaviour has
its own, `failing`.

### VersionedCache

`withCache` and `bumpCacheVersion` over one entry of one domain. `version` and
`shared[v]` are Redis's counter and what it keeps under each version; `known[p]`,
`checked` and `hot[p][v]` are what a process remembers, whether it asked within the
last second, and its memory; `load[p][v]` the load its callers share. A read asks
for the version, looks into memory and Redis, and waits for a load or returns; a
write commits, increments and remembers. The age of an entry is left open: it may
be fresh, stale (served, and renewed behind the caller's back) or too old whenever
it is read. `covers[v]` is history: the changes made before version `v` existed.
`skipped` records that Redis failed to count an increment; the code then goes on
with a version of its own that Redis will hand out again.

### AssistantPoints

Balances, the ledger, sponsors' orders and questions, over PostgreSQL at READ
COMMITTED. What a handler reads without a lock is kept in `call[c]` and may be
stale when it writes; from its first `UPDATE` on a transaction holds its row, so
that from there to the commit is one step: an update whose condition is evaluated
by the database (`updateMany` with a `where`, which Prisma sends as one statement)
is an atomic test and set, and what follows in the same transaction is seen
together with it. `Fits` is the unique key of the ledger, and `Book` the change of
a balance with its entry. `Award`, `Backfill` and `Accept`
claim what they pay for in the same transaction. An order's amount, a question's other metadata and the price of a call are
single values.

### ConcurrencyGate, AiProviderLane, FairPermits

Two limiters with the same promise, `FairPermits`: permits for at most `Limit`
callers, waiters in the order of arrival, and a permit given back goes to the
first of them at once. In `ConcurrencyGate` a permit is *handed* to a waiter,
which resumes later and may by then be aborted or past its deadline. In
`AiProviderLane` the lane is an object that is dropped when empty and made again,
and a request counts until its response body is closed, long after its caller has
been answered.

### BlueGreenDeploy

One deployer (updates hold a file lock) and what it acts on. `state` is
`state.json`, `conf` and `gen` the proxy files and what nginx has loaded of them,
`mains` and `voices` the processes of PM2 and `dump` its saved list, `owner` the
background marker, `working` the servers that started their workers, `plan` and
`asked` the two files of the bot's hand-over. `at` is the step of the deployer: a
path and a step on it. The paths are `deploy`; its ways out `abort` and
`rollback`; `recover`, by the next run; `retire`, reached by a switch or resumed;
`web`, for the page alone; and `prune`. `abort`, `recover` and `retire` end with
the same steps on different releases (`Leaves`, `Stays`). Every step that persists
something, starts or stops a process, or reloads nginx is an action, because
`Stop` (killed, or giving up) and `Reboot` may come between any two.

Abstracted: identifiers that nothing refers to are used again; the order in which
files are switched and the choice of the newest releases that `Prune` keeps anyway
(the model keeps none of those); which commit a page belongs to, if it is not a
release's (`"web"`). `pm2 start` starts the process or fails. A proxy file is
compared with the text expected and replaced in two actions, and the operator may
edit it before, between and after them (`Edit`); an edited file routes nowhere the
model knows. An edit in between is lost, in the code (`blue-green-core.mjs:103-105`)
as in the model (`Begin`, `StartMain`, `SaveStarted`, `Ready`, `CompareFile`, `Edit`,
`ReplaceFile`), although the comment at `blue-green.mjs:152-153` excludes it;
`SeenEditsSurvive` says that no other is, and `unseen` is the history it needs. The bot's upgrade
passes the check whether the server is closing (`BotKnocks`) and is registered later (`BotJoins`), by when the server may have sent
its bot away; the server does so once. Requests and
the bot's upgrade are routed when they open their connection to a server, although
an old nginx worker may hold one for a moment; the code allows five quiet seconds
for that. The relay's traffic marker has no effect, since the port of the previous
server is passed as empty (`blue-green.mjs:558`).

## 3. Runs

Every passing run explores its whole state space. No run switches the deadlock
check off.

| Run | Checks | Instance |
|---|---|---|
| `replica_store` | `OwnerCopyIsFreshest`; `RecordIsUsable`; `WritesAreFenced`; `CaptureNeverRegresses`; `GoneForGood`; refinement of `SessionOwnership` | 2 nodes (one local), 2 operations, 2 capture times, 2 epochs |
| `replica_revive` | *violated:* a backfill cannot resurrect a logout | the same |
| `recovery` | `OnlyFailedNodesAreLeft`; `QuietLossIsRecovered`; `RequestsAreAnswered` | 3 nodes, 2 processes, 2 callers, 1 fault |
| `gateway_requests` | `PendingIsAwaited`; `CapacityRespected`; `QueueIsCounted`; `OpenSessionKeepsItsPlace`; `BusyOnlyFromAbandoned`; `RequestsSettle`; `DeadSessionYields` | 2 connections, 2 processes, a request and a maintenance request, limit 1, 1 waiting place |
| `browser` | `FailureIsNotSignOut`; `HotCopyIsBacked`; `UpdatesRespectLogout` | 2 requests, 2 processes; healthy stores, Redis failing, or the database failing |
| `browser_restored` | *violated:* `LogoutHolds` when requests also load the session | 2 requests, 2 processes, healthy stores |
| `versioned_cache` | `ServedIsValid`; `InvalidationsReach` | 2 processes, a reader, a writer, 1 change, 1 load at a time, 1 failing command or restart |
| `points` | `LedgerExplainsBalance`; `RefundsUndoSpends`; `DebtIsMetered`; `AwardsMatchLedger`; `RewardNeedsOpenQuestion` | 2 users, 2 orders, 1 question, 2 handlers at a time, 3 entries |
| `bounty_edited` | *violated:* one answer of a question is rewarded | 2 users, 1 order, 1 question, 2 handlers, 2 entries |
| `gate` | `PermitsAreHeld`; refinement of `FairPermits`; `WaitersAreServed` | 5 callers, 2 permits, 2 waiting places |
| `ai_lane` | `OneLane`; refinement of `FairPermits` | 5 requests, 2 at a time, 2 lane objects |
| `deploy_update` | `TrafficIsServed`; `OneWorker`; `ActiveIsAlone`; `PageHasItsRelease`; `ReleasesAreKept`; `RecoveryIsPossible`; `ConnectionsAreNotCut`; `BotIsHandedOver`; `SeenEditsSurvive` | 3 releases, 2 proxy files, any number of updates, kills, reboots and edits |

Type invariants are proved (section 4) and not checked again.

**Why these bounds are enough to be interesting.** Two operations show every race
of two, and a third is refused by the lock like the second; the sizes let an owner
change, come back and be deleted in between, which takes two epochs, and let a
copy be older than the record, which takes two times. The cut of the copies and
leases that lapse are covered by proof; an instance of three nodes with two copies
and lapsing leases was explored once (3.0 million states). A backfill whose answer
lacks the owner's copy, which takes a third node, is in the proofs and in an
instance of three nodes under an intact lock explored once (6.9 million). In `recovery` three
nodes leave a choice of targets after one has failed, two callers in one process
share a promise, and in two they compete for the lease; the session's node may be
out of reach from the start (`Outages`), so that the one event that `MaxFaults`
leaves may hit the recovery itself: a target that is slow or lost, a process that
dies, a save that is late, or the node that comes back. In `gateway_requests` one
request works while the other waits, a duplicate process competes for the
registration, and the second connection replaces the first; a queue that overflows
is covered by `LimitHolds` and `QueueCounterIsExact`, which are proved for any
number of requests and places. In the browser runs
the mark and the session are both reached by two requests at different steps, as
needed for a logout with an update between. `versioned_cache` lets a load that
began before the change end after it, in a process that did not see the
invalidation, while a command fails; it was also run once for safety with two
changes (10 million states) and once with two faults. In `points` one more entry
than the two of an award with its backfill, or of a spending with its refund, lets
the other user's balance interleave; the rates `0` and `1` are an order that pays
nothing and one that does. In `gate` the queue overflows,
two permits are in flight at once and the waiter behind a withdrawn one is next.
`deploy_update` needs two files for a switch that is half done or has one of them
edited, and three releases for one whose VoiceHub outlives its server; nothing counts, so that updates follow
each other without end.

The bounds on otherwise unbounded data are `MaxTime`, `MaxEpoch` and `MaxCopies`
of SessionReplica (`MaxCopies` stands for the 32 of the code), `MaxFaults` of
SessionRecovery, `MaxChanges`, `MaxLoads` and `MaxFaults` of VersionedCache, and
`MaxEntries` of AssistantPoints. Where a theorem exists, it holds for every value
of them: the first three need only be positive, the others natural numbers.

**Fairness.** `gateway_requests` assumes that armed timers fire, that the replica
store answers, that a closing socket reports its close and that the heartbeat
visits a dead connection; nothing of the node, its network or the administrator.
Node's event loop and the `ws` library justify each. `recovery` assumes that what a
request or a recovery has begun goes on (the calls have timeouts, the waits for a
lease a deadline), that a lease whose holder died ends, and that late imports end;
nothing of callers, nodes, logouts or faults. `versioned_cache` assumes that a
command of Redis and a query are answered or fail and that a second passes; it
does not assume that a handler which has committed ever sends its increment. `gate` assumes that a
resolved promise resumes and that tasks end (what they call has timeouts of its
own); timers and aborts are not fair. Nothing else is claimed to be live: that a
response body is closed, for one, is not assured by the code in
`aiUpstreamScheduler.ts`.

**What the violated runs show** (quotations and lines are in `PROJECT.json`):
1. the delete of a replica record takes no lock, so a save that has already read
   the record stores it again after a logout;
2. renewing a session during a load looks for no revocation mark, so a logout in
   between is undone;
3. an edit of a question writes metadata it made from an earlier read without
   comparing, so that it undoes an acceptance, and a second answer is paid.

## 4. Proofs

| Module | Theorems | Assumptions |
|---|---|---|
| `SessionReplicaProof` | for `LapsingSpec`: `TypeCorrect`, `RecordAlwaysUsable`, `LogoutsStayFinal`; under an intact lock: `SavesAreFenced`, `CapturesNeverRegress`, `OwnersRestoreTheFreshest`, `StoreImplementsOwnership` | the constants' types |
| `SessionRecoveryProof` | `TypeCorrect`, `LeftOnlyWhenGivenUp`, `QuietRequestsFindTheirSession` | the constants' types; a lease outlives the import its holder had begun |
| `AgentGatewayProof` | `TypeCorrect`, `NoPromiseIsLost`, `LimitHolds`, `QueueCounterIsExact`, `RegistrationIsStable`, `BusyMeansAbandoned` | requests are a finite set, limits are numbers |
| `BrowserSessionProof` | `TypeCorrect`, `HotCopiesAreBacked`, `FailuresSignNobodyOut`, `LogoutIsFinal` | for the third, the two stores do not fail in the same behaviour; for the last, no store fails and the requests had loaded the session before |
| `VersionedCacheProof` | `TypeCorrect`, `NothingStaleIsServed` | the bounds are numbers; Redis counts the increments it is sent |
| `AssistantPointsProof` | `TypeCorrect`, `CallsAreRefundedOnce`, `OrdersAreAwardedOnce`, `RewardsClaimQuestions`, `OnlyMeteringOwes`, `LedgerAccountsForBalances` | users and orders are finite sets, rates and rewards are not negative |
| `BlueGreenDeployProof` | `TypeCorrect`, `OneWorkerOnly`, `TrafficAlwaysServed`, `RecoveryAlwaysPossible`, `NoConnectionIsCut`, `BotAlwaysHandedOver`, `SeenEditsAlwaysSurvive`, `ActiveRunsAlone`, `PageAlwaysFits`, `ReleasesAlwaysKept` | two ports; the names of releases and ports are not those the model uses for none |
| `FairPermitsProof` | of the gate: `TypeCorrect`, `NoPermitIsLost`, `GateIsFair`, `NobodyIsOvertaken`; of the lanes: `LaneTypeCorrect`, `OneLaneAtATime`, `LaneIsFair`, `NobodyIsOvertakenInLane` | at least one permit, one request at a time |

Each argument is an inductive invariant that is stronger than the property:

* **SessionReplica.** `UsableInv`: whatever an operation is about to write
  contains the copy of the node it writes for, so any write leaves a usable
  record, locked or not. `FenceInv` adds, per operation, that whoever is reading
  or writing holds the lock and that between its read and its write the record is
  still the one it read *or has been deleted*; the second case is the unlocked
  delete, and it is why a save may resume a dropped tenure and why the abstract
  specification has `Resume`. What a logout achieves is `Gone`, which is closed under
  every step, and under `Lapse`: without a record and without a session in memory
  there is nothing to begin from, and what is still under way expects the epoch of
  the record that was deleted. It leaves out the three things that can undo a
  logout: a save past its check (`replica_revive`), an import under way, and an answer
  to a request that found no record, which expects no epoch; of a node inside the
  main service every answer is of that kind. `FreshInv` is what a record says about times until
  the first delete: a save carries the newest capture for its owner, and a
  backfill that has been overtaken is refused.
* **SessionRecovery.** `GivenUpInv`: whoever is past taking the migration lease
  holds it (`LockHeld`), so that no second recovery moves the session meanwhile.
  The source of a recovery, the record's owner for as long as a target may still
  be chosen, and the owner its takeover replaces have all been given up
  (`SourceGivenUp`). A save that comes late replaces an owner that was given up,
  and either its target was given up too or the lease of its dead holder has not
  ended (`LateKnown`). The nodes that requests and results name are current
  owners or ones that were given up (`NamesKnown`).
  `QuietInv`, on top of it, is about calm times only: no logout and no late save is
  in flight, and either no node in reach has a copy (`Hopeless`), which then stays
  so, or every request and recovery has reason to hope (`Hopes`). A request has been
  refused by nobody but the owner it had read, and that node is still the owner or
  the session has moved to a healthy one (`Outdone`), so that a retry will find it;
  a recovery still has its first target before it or has ended at a healthy node,
  which is what makes the choice among the targets irrelevant. A request that found
  no record goes to the main service's own runtime, and a record that has come about
  since was saved there.
* **AgentGateway.** `IInv` joins the properties with `Routed` (a request in the
  pending map chose that connection) and `Registered` (only the registered
  connection has pending requests). The properties hold each other up: that the
  pending maps are exact needs that a displaced session has none.
* **BrowserSession.** `BackedInv`: until a logout nobody writes a mark, so nobody
  deletes, and a step that will put a seven-day copy into Redis has seen the row.
  `StayInv`: the store that does not fail has the session, and a load that missed
  in a healthy Redis will find the row. `LogoutInv`: from the moment the mark is
  stored, if a store has the session then some request has yet to look for the
  mark or is deleting (`CoversRedis`, `CoversDb`).
* **VersionedCache.** `CacheInv`: every value that is kept, loaded or handed over
  under version `v` shows the changes that `v` covers (`Good`), as long as nothing
  was skipped. `Good` is stable, since the changes a version covers are settled
  when it comes into being, and a load may only start under a version that Redis
  has already given out, hence after the commit of everything it covers.
* **AssistantPoints.** Every step that changes the ledger is one of seven kinds of
  booking (`StepBooks`), and `EntriesAreRight` says of the ledger alone what makes
  it right: one entry per key (`KeyHolds`), a spending is booked before its refund
  (`SpendsAreOne`, `RefundsAreRight`), an award is in the ledger exactly if its
  order says so (`AwardsAreRight`, `AwardsAreBooked`). The balances follow from it
  by `Continues`: each booking extends the chain of its user by one entry.
* **ConcurrencyGate.** `Inv`: the queue lists exactly those whose state is
  *queued*, each once (`Lists`); the counter is the number of holders
  (`Counted`); nobody waits while a permit is free (`NoneKeptBack`). The last is
  what makes a caller that finds room the next in line, hence `GateIsFair`.
* **AiProviderLane.** `LaneInv` says the same of the registered lane (`LaneCounted`,
  `LaneNoneKeptBack`), that every other lane object is as good as new
  (`LanesUnused`), and that whoever is not idle is in the registered one
  (`LanesKnown`). It follows that a drain, which could start several at once, never
  has room for more than one (`DrainNone`, `DrainOne`), and that a lane is dropped
  only with its last request, when nobody can be waiting in it.
* **FairPermits.** What the abstract limiter is worth is drawn from the two
  refinements and proved of both limiters: while somebody waits, nobody gets ahead
  of it (`KeepsOrder`). This is the safety part of `WaitersAreServed`; that permits
  keep being given back is the fairness that `gate` assumes.
* **BlueGreenDeploy.** `IInv` says which phase each path is on (`PathPhase`), that
  only the two recorded releases run and that their ports differ (`Pair`), which of
  them must be up, *in PM2's saved list as well as now* (`Kept`), and where each file
  and nginx may route in each phase (`Routed`). The saved list is what a reboot
  brings back: without it `TrafficIsServed` is not inductive. `Quiet` keeps what was
  idle when it was looked at idle until it is stopped, since nothing routes to it
  any more; `HandOver` ties the bot's absence to the record of the hand-over. `Noted`: a file
  that is about to be replaced is as it was when it was compared, unless it has been
  edited since. A second
  invariant on top of it, `Left`, follows the VoiceHub processes, the directories and
  the pages to the end of each path: what goes, and what a later step or run needs.

**Only model-checked:** liveness (`RequestsSettle`, `DeadSessionYields`,
`WaitersAreServed`, `InvalidationsReach`, `RequestsAreAnswered`), since TLAPS proves
neither liveness under fairness nor `ENABLED`. Every safety property of a passing run
is proved.

## 5. Not modelled

* In the replica store: `revision`, which nothing decides on; the order of copies,
  of which any 32 may be kept beside the fresh ones; expiry.
* In recovery: status queries of an inactive session, routing of sign-ins, the
  order in which targets are tried. The model shows four things that no property
  claims the opposite of: (a) a request that joins a recovery which was started
  for another node gets that recovery's outcome laid to the owner it had read
  (`jwxtAgentRemote.ts:330-341`), so that it may give up a healthy owner, or be told
  401 although another node has a copy; (b) while targets are tried the record is
  read again, but not whether its owner is still the one that failed; (c) a logout
  that races an import leaves the session at the target, and a displaced node that
  still has it may answer after the logout and make a record anew; (d) a takeover
  whose call broke off may be saved after its caller was told that it failed.
* In the gateway: pinning of the replica key, the broadcast of targets, a change
  of `maxConcurrent` while requests run. No property says that a node paused while
  a request loads its replica record or waits for a slot takes no work: the setting
  is read before both and not again (`jwxtAgentGateway.ts:188`).
* In the ephemeral store: the end of a mark after five minutes and of a session
  at its full life, values, and configurations without Redis or a database. When
  both stores fail together a session that only Redis had reads as signed out, as
  `complete: true` is answered once the database could be asked (`cache.ts:525`).
* In the versioned cache: the loss of a version's key in Redis, domains beside one
  another, the size of the memory. The version a process remembers may go back for
  up to a second (a late answer of an earlier question); an increment that fails
  without counting leaves its process with a version that Redis hands out again, so
  that older entries may be served under it (`skipped`; `ServedIsValid` excepts it);
  a restart between commit and increment loses the invalidation.
* Of the locks in `cache.ts`: the replica store and recovery take the distributed
  lock as a lock that holds. It falls back to the memory of the process when Redis
  is down, so that holders in two processes then do not see one another; what
  remains of the replica store without it is what is proved for `LapsingSpec`.
* In the points: the sponsor's total in cents, which is counted again when an order
  is closed by a stale read and paid later, or changed by an administrator who saw
  an older status; the VIP mark; the daily quota, whose refund is not idempotent
  (`campusAssistantQuota.ts:164`); the refund of a learning answer under appeal;
  the visibility of questions; the payment provider.
* In the gate and lanes: real time. Deadlines are actions.
* In the deployment, the hand-over record counts on the bot that was connected when it
  was drawn up. One whose upgrade was under way then (`BotKnocks`) may join the old
  server after it, be sent away and not be waited for; one that joins after the old
  server has sent its bot away stays, and the old release is not idle until it leaves.
* In the deployment: the first cut-over from the legacy service, the drain by nginx
  worker that is used without an independent gateway, failures of the disk, and
  building and migrating, which happen before anything of the candidate runs.
* Every component whose status is `not_modelled`, with its reason. Most of the
  repository's lines are user interfaces, crawlers, adapters to other platforms and
  vendored applications, whose correctness is in their presentation or in formats
  of external services and not in state that several actors share; the models here
  cover the services where interleavings, failures and recoveries decide.

## 6. Plan

Done, and proved as section 4 says: `SessionReplica` with `SessionOwnership`,
`SessionRecovery`, `AgentGateway`, `EphemeralStore` with `BrowserSession`,
`VersionedCache`, `AssistantPoints`, `BlueGreenDeploy`, and `ConcurrencyGate` and
`AiProviderLane` with `FairPermits`.

What a next model would be about, the most important first:

1. `ActiveSession` over `DistributedLock`: persisting a session's cookies under the
   lock against a logout (`jwxtClient.ts:422`), the one-time login handoff, and the
   lock itself as a Redis lease with its heartbeat and its fallback to memory, so
   that `SessionReplica` and `SessionRecovery` use its guarantee in place of theirs.
2. `SsoLoginPool`: the smooth weighted choice as a pure algorithm against a
   reference, and its counters across a reconfiguration.
3. The forum's submission and review jobs, and schedule sync with its versioned
   documents: database workflows with a claim, a lease and a retry each.
4. The daily quota and the sponsor's totals beside `AssistantPoints`.
