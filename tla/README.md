# OpsCopilot: formal models and proofs

OpsCopilot is an operations copilot written in Go: alerts become incidents, a
noise engine groups what belongs together, a root-cause pipeline explains it,
people handle the incidents, and what nobody handles is escalated. One binary
(`cmd/opscopilot`) runs everything; several instances of it may share one
PostgreSQL. This directory holds TLA+ models of its core, the TLC
configurations that check them, and proofs that TLAPS checks.

The models follow the code under `src/`; where a comment or a document says
something else, the model does what the code does, and the difference is a run
of its own ([What the documents say otherwise](#what-the-documents-say-otherwise)).

- [The system](#the-system)
- [The modules](#the-modules)
- [What is checked](#what-is-checked)
- [What is proved](#what-is-proved)
- [What the documents say otherwise](#what-the-documents-say-otherwise)
- [What is not modelled](#what-is-not-modelled)
- [Plan](#plan)

## The system

### Parts that carry the core logic

| Component | State | Operations | Interacts with | Hard behaviour | Correct when |
|---|---|---|---|---|---|
| Import queue of link A (`ingest_queue.go`, migrations 000005, 000016) | table `ingest_queue`: payload, attempts, owner, lease, processed_at | Enqueue, claim, write back, dead-letter | producers (webhook, poller), worker, sweeper, audit | instances claim concurrently; crashes, lost answers, leases that expire | no message lost, no stale write-back, no message that is retried for ever |
| Ingest worker (`ingest_queue.go: process*`) | the rate limiter (in memory) | ExternalActive, applyRateLimit, UpsertExternal, Transition | queue and incident store | calls to the store between which people and other instances act | one active incident per alert; a recovery closes what it should and nothing else |
| Incident store (`internal/incident`): contract, PostgreSQL and in-memory implementation | incidents, their clusters, generations of a series | Create, Transition, UpsertExternal, AttachCluster, MergeInto, ExternalActive | everything | concurrent writers; merging bypasses the state machine; eviction | life cycle, one active generation, acked means handed over, clusters keep an owner |
| Webhook (`alertmanager_webhook.go`) | none | push | queue | a conflicting message is dropped | - |
| REST gateway (`rest_*.go`) | none | people's acts | store, session, RCA | races with the worker | - |
| Retention sweeper (`retention.go`) | archive table | archive, purge dead letters | store, queue | races with merges and recurrences | removes only what is closed |
| Leader election (`leader.go`, `leader_gated.go`) | session advisory lock, a flag, one connection | campaign, probe, step down | every gated loop | connection loss, overlap of two leaders, the promotion hook | at most one owner acts; somebody leads eventually |
| Escalation (`escalation.go`, migration 000014) | claims per incident and level | scan, claim, dispatch, release | store, notification | crash between claim and dispatch, acks after the scan | each escalation once; none lost |
| Notification (`internal/notify`, `notify_gate.go`) | registered channels | dispatch, reload | escalation | some channels fail; reload in steps | a channel hears again only after a refusal |
| Noise engine (`internal/noise`, `noise_process.go`) | clusters, signatures of what was saved | judge, persist, restore | sinks, store | concurrent batches; commit after save | the newest record wins; nothing counts as saved that is not |
| Verdict write queue (`noise_writequeue.go`) | channel, the writer's batch, counters | push, flush, drain | sinks | drain timeout, full queue | nothing accepted is left behind by the drain |
| Automatic RCA (`rca_auto.go`, `rca_orchestrator.go`) | bounded queue, seen set | trigger, work | store, audit, RCA engine | full queue, seen set cleared, restarts | an incident is analysed at least where the audit log shows none |
| Session flow (`session_flow.go`, `session_pg.go`, `internal/sessionstore`) | the truth in PostgreSQL, a hot copy in Redis | append, read, rebuild | REST | rebuild races with append | the hot copy lags for a known reason only |
| Alert poller (`pull_alerts.go`) | fingerprints of what it reported | poll | queue | marks as reported what the queue refused; rounds that break off | no alert of a complete round is passed over |
| Audit log (`audit.go`, `rest_audit.go`), timeline (`rest_timeline.go`) | entries; nothing (merged afresh per request) | append, page | REST | rows arrive between two pages | a walk repeats and misses nothing |
| Event stream (`sse.go`, `rest_stream.go`, the incidents page of the console) | subscribers and their buffers | publish, subscribe, close | store, console | full buffers, broken streams, answers out of order | a page at rest shows what it was told of |
| Topology and change records (`internal/topology`, `topology_sink.go`, `change_*.go`) | graph, static edges held back; cache, index and table of changes | observe, evict, cut; record, prune, load | connectors, RCA, noise engine | memory guards, failed inserts, restarts | no edge without ends; evidence is found |
| Connector host (`internal/connector/host.go`) | backoff per source | rounds, backoff | topology, noise | slow sources, dropped ticks | a source that answers is served in bounded time |
| RCA engine (`internal/rca`, `rca_orchestrator.go`) | none | six steps, report | everything above | confidence through the chain, timeout | a root cause is backed by evidence |
| Runbooks (`internal/runbook`, `rest_runbook.go`) | manuals, mounts, execution log | mount, unmount, append | incidents, sweeper | appends race with unmounting | a history grows at its end only |
| Upgrade and schema gate (`upgrade.go`, `schema_gate.go`) | ledger of migrations | apply, register, gate | PostgreSQL | runs that die halfway, two at once | the ledger is backed by the schema |

### Supporting parts

LLM gateway (`internal/llmgw`), credentials and configuration, process assembly
(`main.go`, `assembly.go`), transport and generated contracts, metrics and HTTP
helpers (`pkg`), the rest of the web frontend (`web`), tools and scripts.

### How an alert becomes an incident

1. The webhook (or the poller) inserts a row into `ingest_queue`. A partial
   unique index admits one unprocessed row per alert; anything else is dropped.
2. Each instance's worker claims a batch in one statement: it writes its owner
   id and a lease on the oldest claimable rows (`FOR UPDATE SKIP LOCKED`).
3. Outside any transaction it handles each item: asks whether the alert has an
   active incident, applies the rate limit, upserts the incident (the current
   generation is refreshed, or a new one opened if it is resolved), and if the
   message is a recovery and the incident is still the machine's to close, it
   resolves it.
4. It writes the outcome back where it still owns the row: processed, or one
   more attempt; a message that failed `maxIngestAttempts` times is a dead
   letter, audited, left alone, and purged after its retention time.
5. Meanwhile people ack, mitigate, resolve and merge incidents over REST, and
   the sweeper archives resolved ones.

## The modules

    AtLeastOnce      what the queue promises        <--- refined by --- IngestQueue
    IncidentStore    the store contract             <--- refined by --- MemStore, PgStore
    IngestPipeline   EXTENDS IngestQueue, Store  == INSTANCE IncidentStore
    EnforceExit                           Domain == INSTANCE IncidentStore
    Escalation       EXTENDS NotifyChannels
    LeaderElection, NoiseClusters, ClusterPersistence, VerdictQueue, SessionFlow,
    AlertPoller, EventStream, AuditPaging, TopologyGraph, ChangeRecords,
    ConnectorHost, SchemaUpgrade, RunbookLog, RcaPipeline, TimelinePaging
    MCOperations     EXTENDS all of the last three groups, for one run
    Orders           sorting, used by AuditPaging, RcaPipeline and TimelinePaging
    *Proofs          theorems and proofs, by groups of modules (see What is proved)
    DataLemmas       induction, sequences and sorting, for the proofs
    MC*.tla, *.cfg   instances for TLC

**`IngestQueue`**: the table and the workers of all instances (`processBatch`,
`drain`, `Enqueue`, `sweepDeadLetters`). Rows are numbered in the order of
`received_at`. One action per statement or step: `Enqueue`, `Claim`, `Begin`
(the loop reaches an item), `Succeed`/`Fail` (the handler's outcome, with the
dead-letter audit, which the code writes before the row and whose insert may fail
without a word: `Append`), `WriteBack`. Failures:
`ClaimLost` (the claim commits, its answer is lost), `WriteBackError` (error or
deadline; the statement may still have taken effect; the batch is abandoned),
`Stall` (the process is held up for longer than its lease), `Crash`. Time is
abstract: `LeaseExpires` may happen whenever no worker that is on time holds the
row. That guard is what `LeaseFor` computes: the lease exceeds the deadline of
the batch (`LeaseOutlivesBatch` below is the arithmetic). The owner id is fresh
for each start of a process (`NewIngestOwnerID`), so a crashed owner stays down
and a restarted process is another member of `Owners`.

**`AtLeastOnce`**: accepted messages are settled only after a complete run of
their handler, or buried; neither verdict is revised. `IngestQueue` implements it
with `phase` defined from status and attempts.

**`IncidentStore`**: the contract of `incident.Store`, each method one atomic
step, and `Archive`. Ids are `<<series, generation>>`; a person may name a manual
incident after the bare id of a series, which blocks its first generation
(`Recur` is refused). Of the timestamps only "was acked" is kept, and of
`ack_by`, which the code stamps when an incident is resolved, whether it names a
person or the system.

**`PgStore`**: the PostgreSQL implementation and the sweeper's archive transaction, a
step per statement under READ COMMITTED (`pg_crud.go`, `pg_external.go`,
`retention.go`). A call (`Calls`) is one execution of a method; `call` holds the
statement it is at and its locals. What it writes shows, and its locks are freed,
at its commit, which is one step with its last statement; `inc` and `cluster` are
what is committed. Row locks are those of PostgreSQL (`ForUpdate`, `NoKeyUpdate` of
an UPDATE, `KeyShare` of the foreign key a cluster has), and a statement that
would wait for one is not enabled: it reads what is committed when its wait ends.
The exception is the SELECT of an upsert, whose order and choice of row are of its
start (`UpsertLook`) while the row itself is read when its lock is granted
(`UpsertPick`). The code identifies rows by their `id` between statements, so a row
that was deleted and opened again is another one: `gone` holds the rows deleted
under a call. Two violations of a unique index, of the generation and of the
cluster, end in a retry or an error. `Create` is one statement and stays atomic.

**`MemStore`**: the in-memory implementation: generations found by walking the
ids, an index from series to newest incident, eviction beyond the limit
(resolved first, then the longest inactive). `lru` is the order of `UpdatedAt`.

**`IngestPipeline`**: the queue's workers with the handler's own calls between
`Begin` and `Succeed`/`Fail`: `Check` (ExternalActive and the rate limiter),
`Upsert`, `Close`, `Fails` (any of them, with or without effect). Each call is
one atomic method of the store; everything else may act between two calls.
`Desk` is a person or the sweeper acting on incidents.

### Beside link A

**`LeaderElection`**: per instance the loop of `LeaderElector.Run` (`Elect`: acquire
a connection, try the lock, run the hook, raise the flag, probe, release, demote)
and the supervisor of `runLeaderGated` (`Gate`: capture the channel, check, start
or stop the loops). `SessionBreaks`, `Reap` (PostgreSQL frees the lock of a dead
session later than the instance notices), unlocks that leave the lock with a
pooled connection (`Orphan`), `Stop` and `Crash` are separate actions.

**`NotifyChannels`**, **`Escalation`**: the registry is cleared, given the console
and refilled from the table in separate steps, for every request that edits
channels. On it, every gateway's poller scans, claims (`pgEscalationLedger` or the
ledger in memory), dispatches channel by channel and releases after a failure;
the RCA trigger takes what was escalated. People acknowledge at any step, answers
of the ledger are lost, processes die.

**`NoiseClusters`**: `Clusterer` and `Dedup` in one process: `Place` a new alert in
the nearest cluster of its domain or open one, `Absorb`, `Sweep`, `Evict`, `Ack`; and
`Restore`, at startup and at every promotion, which rebuilds clusters and index from
any records that were collected for saving before (`CollectCluster`, `Loads`: each
save may have failed, and the mirror may be behind).
**`ClusterPersistence`**: what happens to the clusters outside: a batch collects what
changed by signature, saves to mirror and table and commits the signatures; a
promoted instance loads and restores, while its batch may still be under way.
**`VerdictQueue`**: `verdictWriter`: pushers between the check of the flag and the
send, the writer's gathering, flushing and drain, and the stop with its timeout.
**`EnforceExit`**: after the locked part of `ProcessAlerts`: the gate and its saved
counts, then `UpsertExternal` and `AttachCluster` per opened cluster, on an instance of
the store contract in which people, link A and the sweeper act too.

**`SessionFlow`**: each question appends to the truth, refreshes the hot copy (read
the truth, then save), builds the prompt, asks the model, appends the answer,
refreshes again; reads rebuild a missing copy. **`AlertPoller`**: rounds over a
changing list with the three answers of `Enqueue`; the leader's poller only.
**`EventStream`**: writers publish after the write, the hub drops what does not fit,
the page debounces, loads and shows the last answer. **`AuditPaging`**,
**`TimelinePaging`**: a reader walks pages while rows are written.

**`TopologyGraph`**: nodes and edges with confidence and the times of their
observation, both guards, static edges that wait for their ends; `AsOf`,
`CausalSubgraph` and `Neighborhood` are operators on a state. **`ChangeRecords`**: cache,
index and table per process, with pruning, failures and restarts.
**`ConnectorHost`**: ticks of a clock, rounds, calls with a limit, backoff. A run fails
because the source is down (`CheckFails`), or though it answers (`WorkFails`): the
collection, the discovery or the sink returns an error.
**`SchemaUpgrade`**: upgraders apply statement by statement and register;
golang-migrate marks, applies and registers on the same ledger and may die in
between; servers start through the gate.
**`RunbookLog`**: the statements of mount, unmount and append with their row lock.
**`RcaPipeline`**: one action per step of the pipeline over small evidence, whose
changes arrive with their times cut to whole seconds (`Gathered`, `WholeSecond`). A
model that fails leaves the conclusion pending, as one that is not there.
**`Orders`** stands for `sort.SliceStable` on keys no two elements share: the pages of
the audit log and the ranking of suspects are sorted with it.

**`MCOperations`** runs them in one instance: `part` names the component that moves, the
others stay as they start. They share no variables, so nothing is lost, and the
states add up instead of multiplying. What the components do to one another is
in them as actions of the others: `EnforceExit` and `IngestPipeline` hold the store, `Escalation`
the channels and the trigger, `ClusterPersistence` the leader, `RunbookLog` the sweeper.

## What is checked

| Run | Question | Distinct states |
|---|---|---|
| `ingest_queue` | Do leases, owners and attempt counts keep every message, under errors, stalls and crashes? | 600,300 |
| `incident_store` | Does the contract keep its invariants in every order of calls? | 45,841 |
| `pg_store` | Do the statements of concurrent calls of the PostgreSQL store add up to the contract? | 71,094 |
| `mem_store` | Does the in-memory store implement the contract, and is its index true? | 129,986 |
| `ingest_pipeline` | Do alerts become incidents correctly while people act on them? | 1.7 million |
| `ingest_burst` | The same beyond the rate limit | 1.4 million |
| `operations` | Do the seventeen components beside link A keep their promises? | 631,970 |
| `ingest_replay`, `ingest_ack_race`, `mem_store_evict`, `stream_silent`, `timeline_pages` | Five sentences of the documentation, each refuted | first counterexample |

**`ingest_queue`**: `HeldItemIsCurrent` (a write-back that still owns its row
finds it as claimed), `UnstalledOwnerKeepsRows` (a worker on time keeps all it
holds), `DeadLettersReported` (no row leaves the queue by its attempts without having
been handed to the audit log), `AtLeastOnceSpec` (refinement), and
`EventuallySettled` (while one worker stays up, every message is processed or
dead in the end).

**`incident_store`**: `OnlyNewestActive`, `AckedIsHandedOver`,
`ClustersHaveOwners`, and two action properties, `Lifecycle` (no reopening, no
unresolved incident disappears) and `MergeEmptiesSource`.

**`pg_store`**: `PgTypeOK` (with the types: no two calls hold incompatible locks on a
row, and every locked row is stored) and `CommitsKeepTheContract` (the last
statement of a call is the step of the contract its method stands for, and no other
step changes what is stored). A call is excused if it was overtaken: a row it had
read without a lock was archived under it, a cluster arrived at the source after a
merge had moved its clusters, or somebody else had made the same merge. TLC shows
what overtaking can do, which the property rightly does not promise away: an upsert
that waits for its row while another upsert opens the next generation and the
sweeper archives the row finds no row, and opens the first generation again beside
the active one; a cluster attached between the two updates of a merge stays with
the resolved source.

**`mem_store`**: `ImplementsContract` (without a limit, each step is a step of
the contract: the walk and the maximum agree), `IndexIsExact` (so the rate
limiter may trust the index; while evicting it still names live incidents only).

**`ingest_pipeline`** (and `ingest_burst` for the last property): `AlertsSerialised`
(two instances never handle one alert at once: neither the index nor the lease
gives this alone); `SystemCloseIsCurrent` (an older recovery never closes an
alert that fired again); `RecoveryLands` (a confirmed recovery that is the
alert's last word leaves no machine-owned incident active, through retries,
crashes, replays).

**`operations`**, by component:

| Property | Says |
|---|---|
| `LeadershipIsSound` | two leaders at a time are never two healthy ones, and no supervisor sleeps through a flip |
| `ElectionSettles` | somebody leads, with its loops running, again and again, whatever sessions and processes were lost |
| `EscalationIsExact` | over instances, retries, crashes and lost answers an incident has at most one dispatch without error; a claim means a dispatch, work under way or an error; a channel hears twice only after a refusal |
| `AlertIsEscalated` | an overdue incident is dispatched, taken over, or was struck by an error at its claim |
| `ClusterIndexIsExact` | the fingerprint index and the active clusters agree in both directions (`Ingest` dereferences without a check), also after a restore, unless that met one fingerprint in two live records |
| `CommittedIsStored` | what the next batch would skip is in the table, through failures, evictions and restores during a batch |
| `NothingStranded` | when the writer has finished, channel and batch are empty and no push can fill them |
| `VerdictsAreAccounted` | the gate's counts never exceed what passed and miss nothing while one instance counts; an active incident the exit worked on has a cluster unless that was counted as failed |
| `LagIsExplained` | the hot copy is behind only while a refresh is under way, or after one that failed or was overtaken |
| `WalkedIsImported` | every alert of a complete round was accepted by the queue with some content |
| `BroadcastsAreLoaded` | a page at rest has loaded every write broadcast to it, dropped frames included, or shows an error |
| `WalksAreExact` | an audit walk is in order, without repetition, and complete for the entries there all the time; in memory only while the clock is not set back |
| `GraphIsSound` | no edge without its ends in the graph or any cut of it, guards hold, static edges wait or are placed |
| `ChangesAreFound` | the index of changes is exact, and an acknowledged change in the table is found until it leaves the window |
| `AnsweringIsTried` | a source that answers all along is asked again within `TriedWithin` ticks, whatever became of its runs |
| `LedgerIsBacked` | the version read never exceeds the schema applied, and a silent gate means a whole schema, but for versions golang-migrate marked dirty and did not get done |
| `HistoryGrowsAtItsEnd` | executions are only added at the end of a mount's log, and while it is mounted |
| `RootCausesAreBacked` | the report names exactly the changes the evidence supports, as far as whole seconds let it see them; a failing model costs the conclusion only; truncation drops the less confident |

### Bounds

| Constant | Value | Why it is enough |
|---|---|---|
| `MaxRows` | 2 | in `ingest_queue` two alerts or two messages of one; in the pipeline an older message and a newer one of one alert, which every ordering hazard needs and none needs more of |
| `Owners` | 2 | two instances; also a crash and the restart after it |
| `MaxAttempts` | 2 (code: 5) | a first failure that is retried and a last one that is not |
| `Batch` | 2 | one claim may take all rows; an item that is held and not yet reached exists. Claims of less happen when rows arrive one by one |
| `MaxFaults` | 2 / 1 in the pipeline | lost answers, abandoned batches and stalls together; crashes are not counted, each owner may crash once |
| `MaxGen` | 3 (2 in `pg_store` and the pipeline) | an incident, a recurrence, and in the store the recurrence of that |
| `ManualIds` | none; one in `mem_store`, two in `mem_store_evict` | without any, manual incidents still occur, under the bare id of a series, which is the interesting case |
| `MaxDesk` | 2 (0 in `ingest_burst`) | e.g. create and merge, or ack and resolve, at any two moments |
| `RateLimit`, `MaxWindow` | 1, 1 | the first incident counts, the second is folded; one window change. `created` saturates at the first value above the limit |
| `Calls`, `Retries` | 3, 2 (code: 8) | two calls compete for what a third holds, e.g. two upserts and the sweeper; a collision that is retried and one that gives up |
| `MaxHistory` | 4 | steps of the contract before the first call, enough for two generations, a merge or a cluster to begin with |
| `Limits` | {0, 2} / {3} | no limit; a limit small enough to evict |

For `operations` (all in `MCOperations.cfg`): two instances wherever instances
compete; one fault (`MaxLeaderFaults`, `MaxTroubles`, `MaxLapses`, `MaxMishaps`,
`MaxPollFaults`, `MaxCuts`, `MaxUpgradeFaults`, `MaxExitFaults`; two of
`MaxChangeFaults`, a failed insert and a restart), of any kind at any step, since
each hazard listed needs one failure and the interleaving around it; two
incidents of the escalation of which the second is acknowledged from the start
when the ledger is the table; two instants a window apart (`MaxTime`, `Window`), which
come in any order, so that a cluster is resolved and its key opened again, and two
saved records where one cluster fits in memory, so that a restore can meet a fingerprint
twice, and one where two fit, so that it stands beside later ones (together they are
beyond a run's time; the theorem is for any number); a queue of verdicts of two and four
pushes, so it is full once and drained in two batches; two concurrent questions
and a read; three audit entries on pages of one under a guard of two; three
nodes of which two must go; a backoff cap above the interval of the ticker; two
migrations of two statements, two upgraders; two concurrent runbook calls and
three executions; evidence of two changes around every boundary of the window, with
two ticks to a second, so that a second can begin before the window it ends in.

In all these a generation beyond `MaxGen` is not opened: the call is not enabled
and the worker may still fail or crash there.

Deadlock is off in every run: a drained queue, a stopped set of instances and
reached bounds are ends a behaviour may have. Symmetry (`Permutations(Owners)`) is
used in the pipeline runs only, which check no liveness: owner ids are compared
for equality only.

### Fairness

`FairSpec` of `IngestQueue` assumes weak fairness for each worker's own steps
(claim, begin, handle, write back) and for the expiry of leases. The code
justifies it: `Run` is a ticker loop that lives as long as its process,
`processBatch` has a deadline, and the lease is compared with the clock of the
database. Nothing is assumed of pushes, crashes, errors, stalls or the sweeper; in
particular the handler may fail every time. A crashed worker owes nothing, so
`EventuallySettled` is stated as long as some worker stays up. An attempt that ends in
a crash is not counted by the code; the model's crashes are bounded by the
number of owner ids, so it says nothing of a message that kills every process
that touches it (listed as a hazard).

`OpsSpec` assumes weak fairness for the elector's and the supervisor's own steps
and for PostgreSQL freeing the lock of a dead session (`LeaderFairness`: ticker
loops in goroutines that live as long as the process), and for the steps of the
escalation pollers and of a reload once begun (`DutyFairness`). Nothing is assumed of
people, of broken sessions, of crashes or of channels that refuse; faults are
bounded, which is what lets both liveness properties hold.

## What is proved

TLC checks the small instances above; the theorems hold for every value of the
constants. Every state invariant and every action property a passing run checks
is a theorem; liveness is not (see *Model-checked only*).

| Module | Proofs about | Theorems for the properties of the runs |
|---|---|---|
| `IngestPipelineProofs` | `IngestQueue`, `IngestPipeline` | `TypeCorrect`, `HeldItemsAreCurrent`, `UnstalledOwnersKeepTheirRows`, `DeadLettersAreReported`, `QueueImplementsAtLeastOnce`; `PipelineTypeCorrect`, `AlertsAreSerialised`, `RecoveriesLand`, `SystemClosesOnLastWord` |
| `IncidentStoreProofs` | `IncidentStore` | `StoreTypeCorrect`, `NewestGenerationActive`, `AckedStaysHandedOver`, `ClustersKeepOwners`, `ResolvedStaysResolved`, `MergeTakesClusters` |
| `StoreImplProofs` | `MemStore`, `PgStore` | `MemStoreTypeCorrect`, `IndexStaysExact`, `MemStoreImplementsContract`; `PgStoreTypeCorrect`, `PgStoreKeepsContract`, `PgStoreImplementsContract`, `PgNewestGenerationActive`, `PgAckedStaysHandedOver`, `PgClustersKeepOwners`, `PgResolvedStaysResolved` |
| `ServiceProofs` | `LeaderElection`, `Escalation` with `NotifyChannels`; `SessionFlow`, `EventStream`, `AlertPoller`, `ConnectorHost` | `LeadershipStaysSound`, `EscalationStaysExact`; `LagStaysExplained`, `BroadcastsAreAlwaysLoaded`, `WalkedIsAlwaysImported`, `AnsweringIsAlwaysTried` |
| `NoiseProofs` | `VerdictQueue`, `NoiseClusters`, `ClusterPersistence`, `EnforceExit` | `NothingIsStranded`, `ClusterIndexStaysExact`, `CommittedStaysStored`, `VerdictsStayAccounted` |
| `RecordsProofs` | `RunbookLog`, `ChangeRecords`, `SchemaUpgrade`, `TopologyGraph`, `AuditPaging`, `RcaPipeline`, `TimelinePaging` | `HistoryIsAppendOnly`, `ChangesStayFound`, `LedgerStaysBacked`, `GraphStaysSound`, `WalksStayExact`, `RootCausesStayBacked` |
| `OpsProofs` | `MCOperations` | `OpsTypeCorrect` |
| `DataLemmas` | numbers, finite sets, sequences, sorting | none; the others rest on it |

Each component has a theorem of type correctness too. Few of the invariants are
inductive as they stand; what had to be added is the argument why the code is
right, and follows here. Every strengthened invariant was an invariant of a TLC
run before it was proved.

### Assumptions on the constants

They are the named ASSUMEs of the modules, which TLC evaluates in the runs:
bounds are natural numbers and null values differ from the values they stand
beside. What goes beyond that:

- `QueueAssumption`, `VerdictAssumption`, `SessionAssumption`, `StreamAssumption`,
  `ClusterAssumption`, `AuditAssumption`, `SchemaAssumption`, `ConnectorAssumption`,
  `EscalationAssumption`: sizes of batches, buffers, pages, windows and backoffs are
  at least one; a batch of verdicts fits in its queue. The configuration's
  defaults replace values below one.
- `PgAssumption`: an upsert is tried at least once, and the null value is no series and
  no cluster.
- `StoreAssumption`, `PipelineAssumption`, `ExitAssumption`: manual ids are not
  generated ones, and the burst series is no alert's own.
- `EscalationAssumption`, `PersistenceAssumption`: there is an instance, there is a
  cluster.
- `TopologyAssumption`, `ConnectorAssumption`: keys of nodes and sources are finitely
  many, since the code counts them. Nodes and edges are numbered in the order in
  which the guards evict equally old ones.
- `RcaAssumption`: the changes of one analysis are finitely many, and their ids, the
  keys of the change table, are distinct; the window is positive, as
  `OPS_RCA_WINDOW` is after its default.

### Link A

**The queue** (`QInv`). `LeaseOutlivesBatch` is arithmetic: for every batch size, time
per item and configured lease, the deadline of a batch is between 30 and 600 seconds
and its lease at least 30 seconds longer, the fact the guard of `LeaseExpires`
abstracts. `QInv` adds to the checked invariants what they rest on: `LocalsOK` (a
worker's locals match the point of `processBatch` it is at, and the item in hand is
not one of those still to come), `HeldOK` (rows are claimed only once inserted and
below the attempt limit), `FreshOK` (a row not inserted has no attempts) and
`OutcomeOK` (what a worker is about to write it has already done: a success was
handled, a failure that will reach the limit is reported). With
`HeldItemIsCurrent` the last one shows why reporting by the attempts read at the
claim is right: whenever the owner condition lets the write land, that count is
still the row's. The refinement of `AtLeastOnce` needs the same two: `done` is written
only for a handled row, and the write-back that buries a row finds it pending.

**The pipeline** (`PInv`). Every step of `IngestPipeline` is a step of the queue, a step
of the store, both, or leaves both alone; so `QInv` and `StoreInv` (the latter through
an instance of `IncidentStoreProofs`) carry over.
`HandlerInv` adds the handler's locals and `RowsOK`: rows come in the order of their
numbers, and while a row is pending no other row of its alert is after it. That and
the lease give `AlertsSerialised` (`HeldAlertsDiffer`). `RecoveryLands` needs to know how
far a handler is: `Landing` says of a recovery under way that it turns to the burst
series only when nothing of its alert is left, that the incident it got is then the
only one left to the system, and that there is none when it is about to confirm;
`Landed` is the property. Both stand while nobody was held up beyond its lease
(`strayed`). What makes them stable is `HeldAlertIsLeftAlone`: no other worker touches
the series of an alert that is held, nor of one whose last message is settled.

### Incidents

**The contract** (`StoreInv`, the four invariants of the run). The work is in `Recur`,
where the new generation is the successor of the newest and the newest is
resolved, and in `MergeInto` and `Archive`, which take generations out of the order
without going through the state machine. The action properties follow from it.

**The in-memory store** (`MemInv`). `LruOK`: the order of activity lists every stored
incident once, whatever is touched, evicted or merged. `IndexOK`: the index names
stored generations of the series. They are enough for the types and the limit, but
not for the answer of the index: without a limit, `GenerationsInOrder` says that the
generations of a series are 1 to n without a gap, all but the last resolved, and the
index names the last. From that a walk along the ids ends where the maximum is,
so each method takes the step of the contract (`MemStoreImplementsContract`). With a
limit gaps open, and nothing of the kind holds (run `mem_store_evict`).

**The PostgreSQL store** (`PgInv`). The tables keep what no interleaving can break
(`TablesOK`: types, `AckedIsHandedOver`, `ClustersHaveOwners`). Of a call it says what its
locals are worth at each statement (`CallOK`): what it locked is still there and
still in the state it saw (`FoundOK`, `LocalsOK`), the row an upsert picked is the
newest of those its SELECT found (`PickOK`), and a generation beyond those was opened
by somebody who held the row before it (`BeyondOK`). That the locks exclude each
other (`Compatible`), and lie on stored rows (`LockedExist`), is what lets a commit of
one call leave those facts of all others alone. With them the last statement of
each method is its step of the contract (`PgStoreKeepsContract`); a behaviour in
which no call is overtaken is therefore a behaviour of `IncidentStore`
(`PgStoreImplementsContract`), and what was proved of the contract holds of it, for
instance `OnlyNewestActive`. What survives being overtaken is proved of every
behaviour: an acked incident stays handed over, a cluster keeps an owner, and no
step reopens a resolved incident or removes an unresolved one.

### Ownership

**Leadership** (`OwnershipInv`). `OneHealthyLeader` looks at the flags, which say nothing
of the lock. The chain between them: the owner of the lock has a session in use
(`OwnerIsLive`), a client that believes to hold the lock owns it or has a broken session
(`HeldIsOwned`), and the flag is up only under that belief or between the unlock and the
end of the step down (`FlagIsHeld`). Two instances may both believe; only one of them
can have a live session.

**Escalation** (`DutyInv`). In the table a claim outlives everything but its release, and
only one gateway acts on it, before the incident counts as dispatched (`OwnershipOK`); a
channel told of an incident nobody refused is behind the dispatch that holds the
claim (`ToldOK`); a dispatch fails only after a refusal, and one that ends without has
told somebody (`DispatchOK`: the registry may be empty in the middle of a reload, and
the console is what saves it). The ledger in memory forgets its oldest claims, and
its list holds none twice (`ClaimsOK`).

### Noise engine

**Verdict queue** (`VerdictInv`). No push is past its look at the flag once the flag is up
(`StoppedIsQuiet`, which the read lock around look and send gives), the writer drains
only after that (`DrainIsLate`), a flush always has something to write (`FlushHasWork`),
a receive has room (`BatchHasRoom`), and the writer ends only with empty hands
(`FinishedIsEmpty`).

**Cluster index** (`NoiseInv`). The index is exact in both directions because an active
cluster keeps the fingerprint it was opened with (`KeysAreMembers`): nothing of that key
can be opened beside it. `EngineOK` is a predicate on a record of the three maps, and
each helper of the clusterer is proved to preserve it, since one call of `Ingest`
composes several; every record that was ever collected keeps its first fingerprint too,
so a restore brings clusters back that satisfy it (`RebuiltIsEngine`), and an index that
does, if no two of its live records share a fingerprint. The memory limit
(`NoiseTypeCorrect`) is more than a type: an eviction takes as many entries as are too
many, so whatever a call of `Ingest` (`PlaceIsSized`) or a restore (`RebuiltIsSized`)
left, it fits afterwards (`EvictBounds`).

**Persistence** (`ClusterInv`). `CommittedIsStored` looks at the promoted instance;
`SkippedIsStored` says the same of every instance that would skip. It holds through a
batch because a cluster that waits to be saved would not be skipped
(`WaitingIsDirty`), because what is about to be committed is in the table
(`ToCommitIsStored`), and because no version is ahead of the counter (`VersionsAreOld`).

**Exit** (`ExitInv`). No saved count and no memory is ahead of what passed, and one
instance that never lost its count has it exactly (`CountsOK`); an instance is about an
incident exactly while it attaches (`RequestsOK`). Whatever others do to the incidents,
one that is unresolved afterwards was unresolved before and lost no cluster
(`KeepsIncidents`, proved of every action of the store contract). That the gate never
counts more than was judged (`ExitTypeCorrect`) is a sum over all instances: the
verdicts that passed and those still waiting, counted as places in the batches
(`PassedIsBacked`), are no more than those judged; a count reloaded after a restart is
behind what passed.

### Console, connectors and poller

**Session** (`SessionInv`): what a request read of the truth is at most the truth.
**Broadcasts** (`StreamInv`). `OwedIsComing`: what a console is owed it has loaded, or a
frame is in its buffer, its timer runs, a load that has read it is on its way, or the
page shows an error. That is why a frame may be dropped when the buffer is full: a full
buffer is a frame to come. **Poller** (`PollerInv`). `SeenIsImported`: what a poller
remembers, what has a row, and what a round is past, the queue has accepted at some
time. **Connector host** (`HostInv`). `WaitIsBounded` is a potential: `Wait(c)` counts the
ticks a source may still wait, run by run, and with the ticks it went untried it never
exceeds `TriedWithin`; each tick moves one from the one to the other, and a run that
was asked starts the count again, however it ended.

### Records

**Execution log** (`RunbookInv`). The seqs come from one column that all mounts share, and
a transaction may take its seq long before it commits, so the order within a mount
rests on the row lock: a request past the lock holds its mount (`WriterHoldsMount`,
`CallHasMount`), no two hold the same one (`LocksAreExclusive`), the column is ahead of
every seq given out (`SeqsAreGiven`), and a seq in hand is beyond all committed ones of
its mount (`InHandIsNewest`).

**Change records** (`ChangeInv`): the index of an instance is computed from its cache
(`IndexesOK`), and with a table behind it, what it acknowledged is cached (`AckedAreCached`).
**Schema** (`SchemaInv`): every row of the ledger is backed by all earlier migrations, but
for those golang-migrate left halfway (`RowsAreBacked`); what a run has in hand, of the
upgrade or of golang-migrate, comes right after such migrations (`RunsAreInOrder`,
`GolangIsInOrder`); statements are never taken back, so two runs at once do not hurt.

**Topology** (`TopologyInv`). Both guards hold after a call since eviction takes as many
nodes as are too many: the stalest are counted by their places in a strict order
(`FirstAreCounted` of `DataLemmas`). No cut has an edge without ends since it keeps
the edges between what it keeps.

**Audit pages** (`AuditInv`). The numbers of the trail have no gap also where its start was
dropped (`TrailOK`). What is due has been returned or comes after the cursor, and all that
was returned is newer than what comes after it (`WalkOK`): the order is by time and
number, so an entry that arrives with an old time may fall on either side, but is not
due. In memory the order of the pages is that of the numbers, and the cursor cuts by the
time; while the clock was not set back the two agree (`ClockOK`).

**Analysis** (`RcaInv`). `ChainOK` says what each step has yielded in terms of the evidence
alone: the hypotheses are about the related changes, the verdicts carry the
confidence of the verification, the attribution names the suspects, the most suspect first
(`SuspectsInOrder`), and the recommendation repeats the head of that list. So it does
not matter that each step works on the findings of the last, downgraded and sorted.
The evidence handed over and the evidence recorded are tied by `GatheredAreHanded` and
`EligibleAreSuspects`: of the two looks at the window the second, on whole seconds, is
the stricter one at its beginning.
Of a finding that was cut and one that was kept: all that is better than the first is
better than the second if the first is the more confident, so the second would have
been cut too.

**Timeline** (`TimelineInv`). Rows are numbered as they are written, so those of the
three sources can be sorted and told apart; a page is a part of that order. The
cursor is an offset into an order that moves, so nothing more than
`TimelineTypeCorrect` holds: what was read was written.

### The run of all components

`OpsSpec` lets one component step at a time. Each of its behaviours is one of every
component's specification (`ComponentsBehave`): a step is a step of the component or
leaves its variables alone, and the extra conditions of `OpsInit` only leave initial
states out. So each theorem about a component holds in the run, and with those on
types `OpsTypeCorrect` follows.

### The lemmas about data

`DataLemmas` states induction over numbers and finite sets for a set (those of which the
claim holds), since the library's induction theorems take an operator. It follows
from the well-foundedness of the finite subsets of a set under inclusion. On it rest:
sequences without repetition under removal and appending, concatenation, and that
`Orders!Sorted`, which puts the element with k - 1 others before it at place k, is a
sequence of all the elements in their order (`SortingSorts`), for any strict order on
a finite set.

### Model-checked only

- `EventuallySettled`, `ElectionSettles`, `AlertIsEscalated`: liveness under fairness is
  out of the prover's reach.
- The five refuted sentences, which are counterexamples.

## What the documents say otherwise

1. **A replay is harmless** (`ingest_queue.go:11`, `:163`, ADR-012,
   `docs/方案-双链路事件来源.md:117`). If the confirmation of a handled message is
   lost and a person resolves its incident before the replay, `UpsertExternal`
   takes the replay for a recurrence and opens a new generation. Run
   `ingest_replay`.
2. **An acked incident is not closed by the system** (`statemachine.go:18`). The
   worker reads the close policy in the incident the upsert returned and resolves
   it by a second call; an ack between the two is closed over. Run
   `ingest_ack_race`.
3. **A push never opens a second incident beside an active one**
   (`incident.go:197`). At its limit the in-memory store may evict the first,
   resolved generation while the second is active; the walk then stops at the free
   first id. Run `mem_store_evict`.
4. **What changes is broadcast to every console** (`sse.go:4`). The publishing
   store wraps `Transition`, but people's transitions go through
   `TransitionWithSLA` (`rest_incidents.go:233`), which it does not wrap. Run
   `stream_silent`.
5. **New events only append to the timeline** (`rest_timeline.go:27`). A row that is
   written after a page was read may sort before what was read: in the trace, a change
   recorded at the same instant as the audited action on that page, since changes sort
   before actions. The offset then repeats the action. A change recorded later in the
   same second does the same, because the timeline gets changes in whole seconds, and
   so does a verdict that is flushed late with the time of its alert. Run
   `timeline_pages`.

What follows has no run: readings of the code, and cases the checked properties excuse
by a variable of their own.

- **Only incidents really opened use up the rate limit** (`ingest_queue.go:264`). The
  count is taken before the upsert and stays if that fails, and the retry counts again
  (`ApplyRateLimit` and `Fails` in `IngestPipeline`).
- **In memory and in PostgreSQL the audit pages are the same row by row**
  (`audit.go:307-309`, also after the clock was set back). Then they are not (`setBack` in
  `AuditPaging`): the stamps of the log in memory carry a monotonic reading by which they
  are sorted, the cursor is decoded from text and compares the wall clock, and a walk
  repeats or skips entries.
- A restore can leave the fingerprint index inexact (`mixed` in `NoiseClusters`). If
  the save of a resolved cluster failed, two live records may share a fingerprint;
  `Restore` (`internal/noise/store.go:113`) indexes it by one of them only. When that
  one is swept and the alert comes back without a node, `newClusterLocked` may
  overwrite a cluster that is still active under the same key; entries of its other
  fingerprints then name a cluster that is gone, and the next `Ingest` of such a
  fingerprint dereferences nil (`cluster.go:219`). Three fingerprints are enough.
- An Azure source answers and never gets on. Its `Collect` always returns an error, by
  design (`azure.go:150-152`, `ErrUnsupported`), so every run fails at
  `host.go:309-312`: it is asked each time its backoff ends (`AnsweringIsTried`), is
  never discovered and never leaves the backoff.
- The dirty mark of golang-migrate, which it sets before it applies a version, is looked
  at neither by the gate, which reads `MAX(version)` (`schema_gate.go:70-83`), nor by the
  upgrade. The gate may be silent about a schema that lacks statements of that version
  (`halfway` in `SchemaUpgrade`), and a newer clean row hides the mark for good.
- The analysis sees changes in whole seconds (`semantic_model.go:120`), and
  `hypothesizeStep` looks at the window again: a change in the part of a second the window
  begins in is dropped, and suspects of one second are ranked by their ids
  (`WholeSecond` in `RcaPipeline`).

## What is not modelled

- Data: titles, severities, payloads, timestamps, SLA minutes, pagination.
- In `PgStore`: the batch of the sweeper is one incident, since the incidents of a
  batch do not depend on each other; the order in which PostgreSQL wakes those who
  wait, and its choice of a victim among deadlocked calls, are any (`Fail`); the
  retry loop is bounded by `Retries`. Link A, the exit of the noise engine and people
  call the contract in the other modules, whose methods are atomic steps; that a
  method of the store is one is what the proofs about `PgStore` give, as long as no
  call is overtaken.
- Time that changes the meaning of a queued message (`endsAt` judged when it is
  handled): the kind of a message is fixed when it is pushed.
- A failing query of `ExternalActive` is modelled, but `RecoveryLands` exempts the
  rows it hit (`blind`), and a worker held up beyond its lease (`strayed`): both
  are listed as hazards.
- Assembly, shutdown order and the connectors' own I/O, except where a modelled
  part depends on them; the change webhook's validation.
- Two runs of golang-migrate at once, which its lock excludes, and its `force` command.
- What the audit log would answer: `Append` returns nothing, and an entry it could not
  store is lost (`report` in `IngestQueue`). A worker built without an audit log reports
  nothing; process assembly always gives it one (`assembly.go:555`).
- An error of `AddDiscovery` in the middle of its nodes, which skips the guard until the
  next call (`builder.go:258-260`).
- What some properties excuse, because the code does: an escalation dispatched while only
  the console was registered counts as dispatched (`EscalationIsExact`,
  `AlertIsEscalated`); a shorter history saved last is excused once it is recorded, so
  `LagIsExplained` says that a lag is never silent; a changed alert that was refused and
  remembered as seen counts by its earlier content (`WalkedIsImported`); a page may show
  the older of two answers that arrive out of order (`BroadcastsAreLoaded` speaks of what
  was loaded).
- Counts of the gate when a second instance is promoted: it restored them at its
  own start and overwrites the row of the first (`noise.go:219`).
  `VerdictsAreAccounted` claims nothing missing for one instance only.
- LLM gateway, credentials, configuration, transport, generated contracts,
  metrics, the console's display: one call, parsing, plumbing or user interface;
  where their outcome matters it is an input of the models.

## Plan

What is left, most important first.

1. What of the contract `MemStore` keeps when it evicts, beyond its types and its
   index.
2. The overtaken upsert of `PgStore` as a run that refutes `incident.go:197` for the
   PostgreSQL store too, once `UpsertExternal` is changed or the sentence is.
3. Two alerts under the rate limiter, for the burst incident that stands for
   both; the sender's clock, for recoveries judged when they are handled.
4. `AlertPoller` composed with `IngestPipeline`: which changes of an alert reach an
   incident eventually, given what the sender repeats.
