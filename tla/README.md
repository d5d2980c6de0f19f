# Arkel in TLA+

Arkel is a distributed object store. A client encrypts an object, splits it into k + m
shards and has storage nodes pull them; a small Raft cluster of index servers keeps the
manifests that say where the shards are, the buckets, roles and quotas. This directory
models that system, checks it with TLC and proves its central invariants with TLAPS. Paths
are relative to the repository (`src/index/state.rs` of the crate is `src/src/index/state.rs`
in `PROJECT.json`).

## Inventory

| part | state | operations | talks to |
|---|---|---|---|
| index tables (`index/state.rs` `apply_command`) | `manifests`, `buckets`, `shard_refs`, `quota`, `quota_events`, roles and default in `sm_meta`; registry in memory | one command per variant of `IndexNodeRequest` | applied by the state machine |
| state machine, snapshots (`state.rs` `apply`, `build_snapshot`, `install_snapshot`, `open`) | the SQLite database with `last_applied_log`, `current_snapshot` and `node_registry` in memory | apply, snapshot, install, restart | openraft |
| log store (`state.rs` `LogStore`) | second SQLite database: entries, vote, committed, purged | append, truncate, purge | openraft |
| batch collector, write handlers (`index/api.rs`) | queue under a mutex, one `Notify`, oneshot senders | enqueue, take_batch, flush_loop | Raft `client_write`, clients |
| read handlers (`api.rs`) | none | reads, some behind a leader lease barrier | tables |
| index client (`index/remote.rs`) | none | find_leader, index_send with 3 attempts, index_get | HTTP |
| health checker, contribution grant (`lib.rs`), audit (`index/audit.rs`) | poll counters; sampled failures | 20 s poll, hourly grant, hourly audit, leader only | `client_write`, storage nodes |
| registration (`storage/registry.rs`) | none | register every 15 s | write handlers |
| storage node (`storage/pull.rs`, `main.rs`) | iroh-blobs store | pull a shard, garbage-collect | clients, `gc-candidates` |
| client pipeline (`client/pool.rs`) | none but the operation in progress | put, get, delete, repair_object | all |
| repair pass (`ops/repair.rs`) | none | one pass over all manifests | all |
| Raft network, auth, bootstrap, identity, config, CLI, manifests, `DiskStore` | files or nothing | see `PROJECT.json` | |

What is hard: garbage collection, puts, deletes and repairs share no lock and no
transaction, so a shard's safety rests on the order of a list, a query, a sweep, a pull and
a commit on different machines; writes are batched, retried and answered by position;
replicas restart, lose memory, install snapshots and read their own clocks; the liveness of
storage nodes is judged by timers on whoever leads; a repair pass works for minutes on a list
read at its start and asks twice for a pool of nodes that changes. `PROJECT.json` lists each hazard at its
line with the properties that cover it.

What makes each part correct:

- *tables*: reference counters and billing agree with the manifests after any sequence of
  commands; no account exceeds its total; a credit counts once; a role stays with its holder;
- *state machine*: a database is the replay of the log up to `last_applied_log`, once and
  in order; acknowledged commands stay; nobody is left behind;
- *batch collector*: the right answer to the right request, each post applied at most once,
  every post answered;
- *shards*: what is placed is not collected, and what is not placed goes away;
- *reads*: behind the barrier, never older than what anybody had been told before;
- *redundancy*: what is stored decodes from any k shards, a repair does not reduce it, every
  object that can be recovered is healed, and then the passes rest;
- *health*: live nodes are not taken for dead, dead ones leave the pool, contributors are paid.

## Modules

| module | models | used by |
|---|---|---|
| `IndexState` | every command on the tables, and `gc_candidates` | `MCIndexState`, `IndexStateProofs`, `IndexQuotaProofs`, instantiated twice by `ShardLifecycle` |
| `ObjectLedger` | abstract: an index without counters | refined by `IndexState` |
| `ShardLifecycle` | client, repair operator, storage nodes and their collectors around `IndexState` | `MCShardLifecycle`, `ShardLifecycleProofs` |
| `WritePath` | clients with retries, handler, `BatchCollector`, Raft's answers | `MCWritePath`, `WritePathProofs` |
| `WriteService` | abstract: what a post may become, without queue and flush loop | refined by `WritePath` |
| `ReplicatedIndex` | index servers as replicas of the log | `MCReplicatedIndex`, `ReplicatedIndexProofs` |
| `ReplayedLog` | abstract: one log, and databases that are replays of it | refined by `ReplicatedIndex` |
| `FreshReads` | abstract: what a read behind the barrier promises | refined by `LeaderReads` |
| `LeaderReads` | `find_leader`, `index_get`, the barrier, the read handlers | `MCLeaderReads`, `LeaderReadsProofs` |
| `ErasurePlan` | pure operators: the scheme, the targets, the round-robin, the two rounds of a get | extended by `RepairPass` |
| `RepairPass` | passes of the repair operator over all objects, with nodes that change | `MCRepairPass`, `RepairPassProofs` |
| `NodeHealth` | registration, checker, audit, grant, with leaders that change | `MCNodeHealth`, `NodeHealthProofs` |

How they divide the system: `IndexState` is the state machine's function and
`ShardLifecycle` runs it with everybody around it. `ReplicatedIndex` shows that each server
computes this function of the same log; `WritePath` and `LeaderReads` that callers get to it
and back. `NodeHealth` decides who is in the pool, and `RepairPass` what becomes of the
objects as the pool changes.

### IndexState

One variable per table, one action per command; a rejected command changes nothing and is no
step. A manifest is a record of the fields the tables read: `object_hash`, `ciphertext_size`
and the set of placements (`shard_index`, `node_id`, `blob_hash`). Reference counts are
swapped exactly as the code does, the old manifest's decrements (floor 0) first, then the
increments, one per placement, duplicates included. Quota is debited before the old object
is released and a row is opened with the default of that moment. Manifests here are ones that
deserialize. A command that carries anything else is not answered with an error: `apply` itself fails
(`state.rs:296`, `487`), the index stops, and with it the behaviour; what this does to servers is in
`ReplicatedIndex`. `Next` has the commands
that some route or task proposes; `NextAll` adds `DeleteBucket`, which no route proposes: it
is covered by theorems, not by a run.

`ObjectLedger` is the same index without `shard_refs` and `quota`: what an account uses is counted
anew on the objects in its buckets, and what it may use on its credits and the default it opened
with. `IndexState` implements it (`KeepsLedger`), so the running totals never accept what such a
count would refuse. A put has to fit beside what it replaces
there too, as the code debits before it releases. Whether the first credit of an account replaces the
default or comes on top of it the ledger leaves open, since the code and the repository's words differ
(see below): `base`, what an account may use besides its credits, is then 0 or the default, and fixed
from there on. Nothing is said of commands that are rejected.

### ShardLifecycle

The actions of the tables are those of `IndexState` through `INSTANCE`; `stale` is the same
instance over older tables, for the reads without the leader barrier. A put is
`StartPut`, one `Pull` per shard in order, `CommitPut`, and may be abandoned after any of
them; `Replied` lets `index_send` post a commit again although it was applied. A repair reads
a manifest (`StartRepair`), decides with any idea of who is offline (`PlanRepair`), pulls and
commits. A collection is `GcList`, `GcQuery`, `GcSweep`; the sweep (iroh-blobs, external)
deletes every blob that the callback did not protect. `settled` and `removed` are history
variables that no guard reads.

### WritePath

`enqueue` is two steps, since the lock is released before the second `notify_one`.
`take_batch` is its branches: `TakeBatch`, `Notified`, `Recheck`, `Deadline`. A failed
`client_write` may leave its batch in doubt (`limbo`), and `Settle` applies it later or
never. `Repeatable` are the writes whose second application answers ok as well.

`WriteService` has two actions beside `Ask`. `Serve` applies pending requests, each once, and answers
those clients that wait with what their place in the log says; `Refuse` answers with an error and either
loses the requests or leaves them pending. `WritePath` implements it (`KeepsService`) with `pending` as all
that is queued, at hand or in doubt: no post is lost without an error, none is answered twice, and no
client posts again unless it got an error.

### ReplicatedIndex

`log` is what Raft has committed. A database is reduced to how often each write of the log was
made to its rows, the entry that set its default quota, and `last_applied_log`. `Apply` takes
any number of entries in one transaction; `Respond` answers afterwards. A command may carry bytes that
are no manifest (`"malformed"`): the handlers of `api.rs:310-401` do not look, so it reaches the log, and the
batch with it ends in `Fail`: the transaction is rolled back, nobody is answered, and Raft on that
server stops (`fatal`; `node_registry`, taken out at `state.rs:1120`, is lost as well). A restart
starts it again in front of the same entry. `Capture` and
`FinishSnapshot` are the two halves of `build_snapshot`. `Install` is the one transaction of
`install_snapshot`; the purge of the log that goes with it is a step of its own (`Realign`),
and a restart may come in between. While the log does not reach the database (`Aligned`),
openraft sends the server nothing. A restart loses the snapshot, the view under construction and
the callers, and reads `last_applied_log` back.

`ReplayedLog` knows neither snapshots nor restarts nor purges: a database jumps to the replay of a longer
part of the log, never past an entry that cannot be applied, and a server tells its callers once of all that is new in it. `ReplicatedIndex` implements it
(`KeepsReplay`) with the databases and answers as they are.

### FreshReads and LeaderReads

`FreshReads` knows versions of the tables: `told` is the newest one anybody was told of, `since`
what a read may not fall behind. `LeaderReads` implements it with `version <- committed`. Raft is
external and reduced to what reads see: writes are committed, servers are elected, hold a
lease or lose it, and may claim to lead after they were deposed. While a lease lasts nobody
else is elected; that is the contract of openraft's `LeaseRead`, which the code relies on. A read
is `Begin`, `Find`, `Barrier` (the lease is checked, and the commit index is noted), `Pass`
(the tables have caught up with it), then one or two looks at the server's own tables
(`ReadOwner`, `ReadRows`), with nothing held in between: leaders change, writes are applied, the
server restarts. `Retry` is a 503 or a broken connection. `told`, `since` and `result` are
history variables; they are what the abstract specification speaks of.

### ErasurePlan and RepairPass

`Effective` is the arithmetic of `assign_shards`, `TargetSets` the nodes it may pick after
shuffling, `RoundRobins` what `targets[i % targets.len()]` may give each of them; `GetFinds` is what
the two rounds of `get` collect. `RepairPass` counts shards per node. The content of a manifest is the
object's hash and the put whose ciphertext it is: a put may store the same object again, with other
shards under the same `object_hash`, and a repair that was based on the earlier manifest then passes the
guard of `RepairManifest`, which compares this hash only. A pass reads the health map, then the
manifests in the order the index lists them (a committed row moves to the end, since
`INSERT OR REPLACE` writes a new one), then for each object fetches, assesses and redistributes;
any failed request ends the pass (`Abort`, `RepairFails`). The pool is asked twice, in `Assess`
for the scheme and in `Redistribute` for the targets, and changes in between. `local` is what
the operator's own blob store holds, which the external downloader of iroh finds before it asks
a node; with k = 1 all shards are the same bytes (`Alike`), so that one of them gives all. What `ShardLifecycle` has in detail is one step here: the pulls and the commit of a put
or a repair. A collection that runs between them is not repeated either: `Superseded` shards are
all there or all gone. Reads of the index are up to date (`list_all_nodes` and `list_manifests` have
no barrier; what stale ones do is in `ShardLifecycle`).

### NodeHealth

`last_seen` is a log index that is only compared with what the checker saw at its last
poll, so `prev` records the outcome of that comparison. The checker's counter has no limit in the code; the
model counts to one more than the threshold, since all beyond is the same to every guard. `Tick` is 20 s: longer than the 15 s
between registrations, so every running node has tried to register between two ticks.
`owed` counts the ticks that tokio's interval delivers at once after a stall. An audit is one
step: it may mark any nodes, so the minutes between its fetches and its write add nothing.
`silent` and `upset` are history variables that no guard reads. Servers that
do not lag apply commands together (their order is `ReplicatedIndex`'s subject); a server
that lags misses commands and rejoins by a snapshot that does not carry the registry.

## Runs

All bounds are constants of the `.cfg` files. Runs marked *violation* check a sentence of the
repository that the code does not keep; the findings in `PROJECT.json` quote it.

| run | checks | instance |
|---|---|---|
| `index_tables` | `TypeOK` `RefsExact` `LiveShardKept` `UsedExact` `UsedWithinTotal` `TotalIsGranted` `ObjectsAreBilled` `HoldersKeepRoles` `KeepsLedger` | 2 accounts, 2 buckets, 2 keys, 2 blobs, 2 nodes, 2 credit references |
| `shard_gc` | `TypeOK` `SettledShardsKept` `AckedBeforeCommit` | 1 object, 2 blobs, 2 nodes, a writer and the operator, 2 posts, 1 disk loss, fresh reads |
| `shard_garbage` | `GarbageGoesAway` | 1 blob, answers may lag |
| `shard_gc_race` *violation* | `GcDeletesUnreferenced`: a commit between query and sweep | |
| `shard_repair_base` *violation* | `RepairMatchesBase`: the guard compares the content's hash only | |
| `shard_stale` *violation* | `SettledShardsKept` with stale answers | |
| `write_batches` | `TypeOK` `AnswersOwnRequest` `AppliedOncePerPost` `AnsweredIsApplied` `PostsAreAnswered` `KeepsService` | 2 clients, 2 posts each, full at 2 |
| `replica` | `TypeOK` `TablesAreReplay` `DefaultIsLatest` `AckedIsDurable` `PurgedIsApplied` `NeverBack` `KeepsReplay` `EveryoneCatchesUp` | 2 servers, 3 entries, 1 restart |
| `reads` | `TypeOK` `ReadsAreFresh` `ReadsEnd` | 2 servers, 2 clients, 2 writes, 2 attempts, 2 elections or restarts |
| `repair_pass` | `TypeOK` `AnyKSuffice` `NeverWeakens` `EveryObjectHeals` `PassesQuiesce` | 4 nodes, 2 objects, target 2 + 2, 1 repair per pass, 2 puts or faults |
| `health` | `TypeOK` `SuspectsAreSilent` `DeadGoesOffline` `LiveComesBack` `GrantsArrive` | 2 servers, 1 node, 3 faults of any kind |
| `health_burst` *violation* | `HealthyNotSuspected`: missed ticks are caught up at once after an outage | 2 faults |

Why the bounds are enough to be interesting. Two blobs and two nodes are the least in
which a re-put makes new shards of the same content while the old ones are collected, and
a repair moves a shard. A total of 3 plus a default of 1 against objects of size 1 and more
makes quotas run out. The code posts a write, and asks for a read, up to three times; two
suffice for a retry of what was applied or of a leader that was deposed, and a third adds only
the same again. Three log entries allow a batch, a snapshot below the end of the log and an
entry after it; one restart comes at any point, also between an installation and its purge. Two
elections are one to get a leader and one to depose it in the middle of a read. Four nodes are
just enough for 2 + 2, so one node less already degrades the scheme; two objects and a rate limit of
one need a pass to end early and the next to go on. Two events are two losses, a loss and a return,
a loss and an aborted pass, or a put onto chosen nodes and a loss. Four ticks owed are one
more than the checker's threshold. Three faults let a node die while a server that leads
is replaced and lags, or let a leader forget the registry twice.

`replica` alone switches deadlock checking off: the log is bounded, so the model stops when it is
full and everything is applied. Symmetry is used in runs without liveness only: accounts, blobs
or servers are interchangeable there.

Limits of individual claims, found with the same models and not hidden by the passing runs:

- `SettledShardsKept` speaks of shards that were placed when the cycle listed the store; for
  younger ones see `shard_gc_race`. It assumes fresh answers; see `shard_stale`.
- `SuspectsAreSilent` speaks of clusters that have not lost their quorum and in which no
  server lagged (the history variable `upset`). With an outage see `health_burst`; a server
  that installs a snapshot and is elected again within one poll interval counts its old
  `last_seen` as one silent poll too many.
- `EveryoneCatchesUp` excepts servers in front of an entry that cannot be applied: they stop there, for good.
- `AckedIsDurable` and `NeverBack` assume that the operating system keeps its cache; see the
  disagreements below.
- `NeverWeakens` speaks of objects with one shard per node. An object that was put onto three chosen
  nodes with k = 2, m = 4 has two shards on each and survives the loss of two nodes; the pass finds it
  concentrated and repairs it to 2 + 1, which survives one. It also supposes that the pool has not
  shrunk below the nodes the shards were found on: while a healthy node is marked offline, an object at
  the full scheme is rewritten at a smaller one, and back again later.
- `EveryObjectHeals` excepts objects one of whose nodes lost its disk while the operator's own store
  still has the shard (`Masked`): every pass takes the shard for available. It supposes that two nodes are up
  in the end: a pool of one is refused (`PoolOfOneFails`).
- With 4 nodes and two events, no pass meets an object with k = 1 that has a shard in the operator's
  store and another out of reach; what `Alike` adds to a fetch is covered by the theorems.
- With 4 nodes and 2 + 2, `TargetSets` has one element for every pool; the choice of targets from a
  larger pool is covered by the theorems, which hold for any set of nodes.
- `GarbageGoesAway` assumes that a query can be answered at all; see below.

Disagreements between code and documentation that were met on the way and that no run checks:

- both databases use `journal_mode=WAL` with `synchronous=NORMAL` (`state.rs:43`), in which SQLite
  does not fsync a commit: a loss of power may undo commits that were answered, against
  "durably on disk" (`1143-1144`) and "single fsync for the whole batch" (`1170`);
- the first credit of an account without a row inserts `total_bytes` = the credit
  (`index/state.rs:565`), so the default quota the account had is replaced; `cli.rs:180` says
  "Quota to add" and `scripts/smoke/account.py:223` "AllocateQuota should top up default to". The
  smoke test's account has a row by then, as it puts first. `KeepsLedger` takes neither side;
- `manifest_bytes` is not validated before it is proposed (`api.rs:310-401`), and `apply` fails on bytes that
  are no manifest (`state.rs:296`, `487`, `1128-1133`), where every other bad command is answered with an error:
  one such entry stops every index server, also after a restart;
- `CommitManifest` and `RepairManifest` stamp `created_at` with the local clock while they are
  applied (`state.rs:284`, `517`), against "Do NOT call `SystemTime::now()` here" (`266-269`);
- `registered_at` is kept in memory only (`state.rs:625`), so a restarted server counts
  the next heartbeat as the first, against "so a reboot doesn't reset the
  contribution-grant 24h clock" (`623-624`);
- all hashes of a store go into the URL of one GET (`index/remote.rs:377`): a store with more
  than a URI may hold makes every query fail and is never collected (`MaxHashes` is that limit in
  `ShardLifecycle`; no run sets it below the number of blobs);
- a batch that failed and is committed later is posted again (`remote.rs:148`), and a delete
  or the claim of a role is then reported as rejected although it was applied, against
  "transparently surviving leader changes" (`152`);
- `RegisterNode` sets the status to `Online` whatever set it to `Offline` (`state.rs:637`), so
  an audit's mark lasts until the next heartbeat (`audit.rs:2-3`).

## Fairness

- Collectors (`shard_garbage`): the interval keeps ticking (weak fairness of `GcList`); a
  query and a sweep that can be done again and again are done in the end (strong, since an
  abort or restart disables them); an upload does not stay half-done for ever, as its
  process ends; an index node that lags catches up.
- Writes (`write_batches`): the flush loop is one task that always runs, its timer fires,
  `client_write` returns, woken handlers run. Nothing is assumed of `Notified`: the
  deadline alone must suffice.
- Replicas (`replica`): openraft keeps sending, realigns a log it finds behind the database, keeps
  applying or fails in the attempt, and snapshots are built; restarts are bounded. Nothing is assumed of other purges.
- Reads (`reads`): servers apply what is committed, `find_leader` returns, and a handler that can go on
  does, or its request fails. Nothing is assumed of elections and leases: a read ends although
  no server ever leads again.
- Repairs (`repair_pass`): cron starts pass after pass and a pass goes on until it ends; the
  checker marks nodes that stay down, and nodes that are up register. Faults are bounded, aborted
  passes with them.
- Health (`health`): time passes, timers fire, a running node registers while there
  is a quorum, and a lost quorum comes back. Elections, restarts and outages are bounded;
  audits are not forced to happen, nor is a lagging server's snapshot.

## Proofs

Every theorem holds for all values of the constants that satisfy the named assumptions of the module
it is about (`...Assumption`), which say that bounds are naturals, that sets which the code enumerates
are finite, and that `None` is none of the values it stands beside.

| module | theorems |
|---|---|
| `IndexStateProofs` | `TypeCorrect` `RefsAreExact` `RefsCoverAlways` `LiveShardsAreKept` |
| `IndexQuotaProofs` | `UsedIsExact` `NobodyExceedsTotal` `TotalsAreGranted` `EveryObjectIsBilled` `HoldersAreKept` `CountersImplementLedger` |
| `ShardLifecycleProofs` | `TypeCorrect` `PlacementsAreAcked` `SettledAreKept` |
| `WritePathProofs` | `TypeCorrect` `AnswersAreOwn` `PostsApplyOnce` `AnswersAreApplied` `PathImplementsService` |
| `ReplicatedIndexProofs` | `TypeCorrect` `DatabasesAreReplays` `DefaultsAreLatest` `AnswersLast` `NothingPurgedEarly` `DatabasesAdvance` `ServersImplementReplay` |
| `LeaderReadsProofs` | `TypeCorrect` `ReadsAreFreshAlways` |
| `RepairPassProofs` | `TypeCorrect` `RepairNeverWeakens` `SchemeFitsPool` `PoolOfOneFails` `RepairKeepsMargin` `AnyKAreEnough` `StoredObjectsAreReadable` `StoredObjectsDecode` |
| `NodeHealthProofs` | `TypeCorrect` `SuspicionIsEarned` |

*Tables.* `RefsExact` says that the count of a blob is the cardinality of the set of its placements in
stored manifests. It is inductive given the types. The step needs two facts about
cardinality: replacing one object's manifest removes and adds exactly that manifest's placements, and
the floor at 0 is never met, since what is subtracted was counted. `LiveShardsAreKept` follows: a
placed shard has a positive count. With `DeleteBucket`, which does not release references,
exactness is lost and "at least" remains (`RefsCoverAlways`).

*Quota.* What an account uses is the cardinality of a set with one element per byte stored, so that no
sum has to be defined by recursion; the inductive invariant adds that every object's bucket has an owner,
that the owner has a row, and that no object lies in a bucket that does not exist, without which a release
could meet the floor of 0 and lose bytes. `CountersImplementLedger` reads that invariant the other way: the
counters are the ledger's measures, `used_bytes` of what is stored and `total_bytes` less the credits of
a base that is fixed when the row is opened, so what `try_debit` lets pass has room in the ledger.

*Shards.* The proof instantiates `IndexStateProofs` and reuses its step lemmas, so that the counters are
known to cover the placements in every step of the larger system. `PlacementsAreAcked` needs that every
shard an upload has got past is, or was, held by its node (`UploadsSound`). `SettledAreKept` needs that
what a cycle may still delete spares what is settled on its node, and that this is placed there
(`CyclesSpare`), which is where the reference counters come in: a placed shard is no candidate. The theorem
has `FreshReads` as its hypothesis; `shard_stale` shows that it is needed.

*Writes.* The inductive invariant says where a post may be: no request is in two of the queue, the
batch at hand, the batches in doubt and the log, or twice in one of them, and all of them were posted
(`Places`); attempts are counted before a client posts again (`Ready`). With the statements about answers
it is inductive, and that no post is applied twice is the part of it about the log. The refinement needs
three facts more (`Served`): the flush loop holds a batch only while it writes; a client that is ready
again got an error; who is answered has nothing queued or at hand, and who is not has nothing in doubt. The
last one is why a batch that is settled late changes no answer.

*Replicas.* Tables, current snapshots and views under construction are all replays of a prefix of the log,
and no snapshot or view is longer than the tables of its server, and none of them holds an entry that cannot
be applied (`FailSound` says that a failed batch leaves all this as it was), so that neither a purge nor a restart
loses what only it had; waiting and answered callers wait for entries already in the database. The last
default up to an entry exists because a finite, non-empty set of naturals has a greatest element, which
the proof gets from well-foundedness; and a snapshot without a default is a replay without one, so that
leaving the old one in place is harmless. As there is one replay of a log up to an entry
(`ReplayIsUnique`), a snapshot and a batch are the same step of `ReplayedLog`; that answers are neither
repeated nor short needs that nothing is applied or installed while callers wait (`Waiting`).

*Reads.* The refinement mapping is the identity but for `version <- committed`. The invariant (`Fresh`) says
that nothing told and no server's tables are ahead of what is committed, that a read past the barrier
waits for at least what had been told when it began, and that a read past the wait is at a server whose
tables have it: tables only grow, so a deposed server's answer may be old, but not older than that.

*Repairs.* Schemes are arithmetic: for every pool of two or more, `assign_shards` gives a scheme which
`encode` accepts and which fits the pool (`SchemeFitsPool`). The invariant says of every manifest, stored or
in the hands of a pass, that its scheme encodes and that its shards are as many as the scheme has, a number
that is the cardinality of the set of pairs of a node and one of its shards; and of a pass that the nodes
where it found shards are among those the manifest names. A round-robin over t targets gives each of them
its share, one more to the first n % t (`DealCounts`), and no node twice what another gets, so the number of nodes that may
be lost follows from scheme and targets alone (`SpreadOverHosts`). `RepairKeepsMargin` is the arithmetic of
`RepairNeverWeakens`: spread over at least as many nodes as were found, the new scheme survives what the old
one did. `AnyKAreEnough` is about one read; `StoredObjectsAreReadable` and `StoredObjectsDecode` carry it to
every stored object.

*Health.* `SilenceCounted`: while the cluster is undisturbed, the checker's count plus the ticks it owes
never exceeds, up to the threshold, the periods in which the node was silent. A suspicion is then earned.

Only model-checked: the liveness properties (`GarbageGoesAway`, `PostsAreAnswered`, `ReadsEnd`,
`EveryoneCatchesUp`, `EveryObjectHeals`, `PassesQuiesce`, `DeadGoesOffline`, `LiveComesBack`,
`GrantsArrive`). They rest on fairness and ENABLED, which are out of the prover's reach. Every
invariant, action property and refinement that a passing run checks is also a theorem.

## Not modelled

- openraft, iroh-blobs, SQLite and tokio are external: their behaviour is modelled as the code uses it.
- Raft's network carriage (`index/raft.rs`) forwards openraft's messages; votes, `save_committed` and the
  truncation of uncommitted entries in the log store are single statements that openraft's own protocol
  gives a meaning, so a model of them would be a model of openraft.
- Signatures (`auth.rs`), bootstrap, the key file (`identity.rs`), configuration, command line and
  serialization keep no state that a property here is about.
- The bytes of coding and encryption: `ErasurePlan` has how many shards there are and how many are needed.
- `DiskStore` (`storage/backend.rs`) is not on the path of puts and gets; no modelled part calls it.
- Integer widths: amounts are naturals. `u64` sizes are cast to SQLite's `i64` (`state.rs:301`); the
  quota properties hold of the code while sums stay below 2^63.
- Which nodes `assign_shards` prefers (the least used ones): any choice is allowed.
