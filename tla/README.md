# nolu and xolu in TLA+

nolu is a coordination layer in front of several xolu instances (entity stores). It mints
**GlobalIDs**, keeps for each the **LocalRef** of the instance and tenant that own the entity now,
records every change of owner, moves whole tenants between instances (**hotswaps**), negotiates the
transfer of single entities, answers where a tenant lives, and forwards requests to it. xolu, carried
in the same repository, stores documents of many tenants, derives a graph from their references,
keeps time series, and answers OQL queries. This directory holds TLA+ models of both, TLC
configurations that check them on small instances, and TLAPS proofs.

Source paths below are relative to `src/`; `M.tla` names are modules of this directory.

## 1. Inventory

### Components, their state and operations

nolu:

| Component | State | Operations | Used by / uses |
|---|---|---|---|
| In-memory registry (`pkg/registry/memory.go`) | `records`, `subs`, one mutex | Register, Get, Resolve, Transfer, Retire, Subscribe (and its cancel function), ListByInstanceAndTenant, SeedDirectory | called by the server, the negotiator, the hotswap managers and the directory; sends events to channels without blocking, and to the bus in goroutines |
| xolu-backed registry (`pkg/registry/xolu.go`) | `nolu_records` and `nolu_events` documents of a xolu; `subs` in memory | the same | several HTTP requests per operation, no lock over them; xolu's `_version` is the only mutual exclusion |
| Tenant directory (`pkg/registry/directory.go`) | `byKey` (instance, tenant) -> entry with a count, `byName` tenant -> best entry | Start (subscribe, scan), handleEvent, Upsert, Locate, InvalidateTenant | follows a registry through a channel of 256 events; read by the server and the proxy |
| In-memory hotswap manager (`pkg/hotswap/manager.go`) | `hotswaps`, one mutex | Request, Confirm, Abort, Get, List; goroutines driveQuiesce, driveMigration, driveValidation, driveCutover, driveRollback | quiesces the source xolu, runs iolu, transfers the tenant's entities in the registry |
| xolu-backed hotswap manager (`pkg/hotswap/xolu.go`) | `hotswaps` documents of a xolu; an index of their versions in memory | the same, and Resume after a restart | as above, no lock over an operation |
| Transfer negotiator (`pkg/transfer/memory.go`) | `proposals`, one mutex | Propose, Accept, Reject, Cancel, Complete, List | Accept calls the registry's Transfer with the mutex held |
| Event bus (`pkg/events`) | MemoryBus: subscriptions without a lock; NATSBus: a JetStream stream and durable consumers | Publish, Subscribe and its cancel function | fed by the registries and managers |
| Proxy (`pkg/proxy`) | an LRU cache of locations with expiry times | resolve, forward, follow a 307 up to MaxRedirects times | reads the directory, in process or over HTTP |
| HTTP server, xolu client, iolu adapter | none | one handler per operation above; HTTP requests; running the `iolu` program | |

xolu (`xolu/`):

| Component | State | Operations | Used by / uses |
|---|---|---|---|
| Entity store (`pkg/storage/sqlite.go`, `adapted*.go`) | the blob table, adapted tables with native columns, sequences, edge tables, full-text index | Create, Update, Patch, Save, Delete, Commit, List, Search, VerifyGraphIntegrity, RebuildGraph | one writer connection, one transaction per method; called by the endpoints and by OQL |
| Entity endpoints (`pkg/server`) and cache (`pkg/cache`) | a cache of rows and lists | one handler per operation; updateGraph, removeGraph, reloadGraphFromStore | store, graph and cache calls with nothing held between them |
| Graph (`pkg/graph/flat_graph.go`) and its endpoints | nodes, edges both ways, indexes by type and tenant, counters, one lock | AddNode, AddEdge, RemoveEdge, RemoveNode, UpdateFromEntity, traversals, Save, Load | written by the endpoints, saved by the persister |
| Process and persister (`cmd/olu/main.go`, `pkg/graph/persister.go`) | a dirty flag, the graph file | MarkDirty, the save loop, shutdown | |
| Time series (`pkg/timeseries`) | per tenant a Pebble database, a registry of timelines, counters | Append, AppendBatch, queries, aggregates, buckets, retention | retention worker, HTTP endpoints |
| OQL (`pkg/oql`) | none but the planner's thresholds | SELECT by four strategies, INSERT, UPDATE, DELETE | reads and writes the entity store |
| Query jobs (`pkg/oql/oql.go`, `pkg/sulpher/jobs.go`) | a map of jobs; the validator's cache of entity names | Submit, GetJob, cleanup | OQL, sulpher |

### Hard behaviours

* **No lock over an operation.** XoluRegistry, XoluHotswapManager, xolu's entity endpoints and OQL's
  statements read, decide and write in separate steps; everything rests on a write being refused
  when its `_version` is old.
* **Goroutines that start one another.** A hotswap is a chain of five goroutines that look at the
  state, release the mutex, work, and take the mutex again to write the next state. An Abort, an
  error or a client of the registry may come at any of these gaps.
* **Derived state.** The directory, the proxy's cache, the graph, the edge table, the entity cache,
  the counters of the time series: each follows something else by separate steps.
* **Lost answers, crashes, full channels, failing calls that are ignored, redirects and redelivery.**
* **Several ways to the same answer.** OQL's four strategies must agree on which step of a query has
  been done; the graph's endpoints and its storage must give the same degree.

`PROJECT.json` lists the hazards line by line with the properties that cover them.

### What makes each component correct

* Registry: one unbroken, append-only chain of custody per GlobalID, whatever the concurrency;
  what a caller or subscriber was told happened did happen and is never undone; a subscriber that lost nothing is
  exactly its buffer behind.
* Directory: its two maps agree; once it has caught up its counts are those of the registry.
* Hotswaps: a hotswap that has begun ends; one forward goroutine at a time; writes are blocked while
  data moves; COMPLETE means everything was moved, FAILED that nothing was; an entity moves once.
* Negotiator: records and proposals tell the same story.
* Proxy: every request is answered; a read of a tenant that stays put succeeds; a location outlives
  the directory's knowledge by a bounded time.
* Bus: an undisturbed publication reaches every matching handler once; a durable consumer gets every
  event until it was handled or its attempts are used up.
* Entity store and endpoints: a version names one content; sequences stay ahead; the edge table, the
  graph and the cache say what the documents say.
* Graph: counters and indexes equal a scan; cycle detection keeps each tenant acyclic; traversals
  find what is reachable; no tenant's endpoint answers from another tenant's part.
* Persister: no change is forgotten.
* Time series: an event is lost only once it has expired, and then it is; queries are exact (section 6 for the exceptions).
* OQL: a SELECT answers what SQL says of it on every path; a statement writes only what it read.
* Jobs: an outcome is there for its TTL.

## 2. Modules

| Module | What it models |
|---|---|
| `Records` | the shape of a record and what Register, Transfer and Retire do to one; shared by all of nolu |
| `Ownership` | the abstract specification: atomic Register, Transfer, Retire on a map of records |
| `Registry` | MemoryRegistry with subscriptions, buffers and the hand-over to the bus; implements `Ownership` |
| `XoluRegistry` | XoluRegistry as stages of concurrent callers, lost answers and crashes; implements `Ownership` |
| `TenantDirectory` | the directory following a MemoryRegistry |
| `HotswapMemory` | MemoryManager with its goroutines, working on a registry that clients use too |
| `XoluHotswap` | XoluHotswapManager: loads, index, conditional writes, goroutines, crashes and Resume |
| `Negotiator` | MemoryNegotiator on a registry that clients use too |
| `EventBus` | MemoryBus and NATSBus |
| `Proxy` | path parsing, resolver, location cache and forwarding while tenants move |
| `EntityStore` | xolu's SQLiteStore as operators on a database value |
| `FlatGraph`, `GraphQueries` | the in-memory graph and the graph endpoints as operators on a graph value |
| `EntityHandlers` | the entity endpoints: requests interleaving on store, graph and cache |
| `GraphMachine` | any sequence of writes to a FlatGraph, with reference definitions of its queries |
| `Lifecycle` | an olu process: requests, persister, shutdown, crash, restart |
| `TimeSeries`, `TimeSeriesStore` | the queries as operators; the store, its registry and the retention worker |
| `Oql`, `OqlStatements` | planner, SQL, Go pipeline as operators; statements that interleave row by row |
| `QueryJobs` | the two job managers and the validator's cache |
| `RecordsProofs` | lemmas about the operators of `Records`, used by all proofs about nolu |
| `OwnershipProofs`, `RegistryProofs`, `XoluRegistryProofs`, `HotswapProofs`, `XoluHotswapProofs`, `EntityProofs` | the theorems about the module in their name (`HotswapMemory`, `EntityHandlers` for the two that differ) |
| `Edge` | negotiator, directory, proxy and bus, one at a time, with the values their runs give the constants |
| `Xolu` | process, graph, time series and jobs, likewise |
| `ComponentProofs` | the theorems about `Negotiator`, `TenantDirectory`, `EventBus`, `Lifecycle`, `QueryJobs` and `Proxy` |
| `MC*` | instances for TLC |

nolu's modules compose through `Records`: `HotswapMemory`, `XoluHotswap`, `Negotiator` and
`TenantDirectory` each contain the registry's records and take registry operations as single steps.
For the in-memory registry that is what its mutex gives. For the xolu-backed one it is what
`XoluImplementsOwnership` proves. `EntityHandlers` composes `EntityStore`, `FlatGraph` and
`GraphQueries`: each method of the first two holds a transaction or a lock from start to end, so it
is one step of the request that calls it.

Three modules run several specifications one at a time. `Edge` (negotiator, directory, proxy, bus),
`Xolu` (process, graph, time series, jobs) and `MCXoluHotswapFaults` (crashes, faults) have a
variable that names the one that runs; the others stay in an initial state of theirs. The fairness
conditions are those of the components' own specifications, restricted to that part. `Edge` and
`Xolu` also state the components' assumptions on their constants, and the properties under the names
that the runs and the theorems of `ComponentProofs` use.

Conventions. Operators whose comment begins with "Variant" (`Accepts_Always`, `LookAway`) are the
definition they precede with a plausible mistake in it. No specification uses them; they serve to
show that a property notices the mistake. A call that returns an error and changes nothing is not a
step. An operation under one mutex is one action, and everything that happens outside it is an
action of its own.

### How state and actions correspond to the code

**Records.** A LocalRef keeps what the code compares or branches on: instance URL, tenant ID (0 is
unscoped), tenant name ("" is unknown) and the local entity. Timestamps, HistoryFrom and reasons are
stored and never read by a decision; they are left out.

**Registry.** `records` and `subs` are the fields of that name, `chan` the contents of subscribers'
channels, `inflight` the events whose bus goroutine has not run. `seen` and `lost` are history
variables: what a subscriber has received, and which subscribers missed something.

**XoluRegistry.** A caller is idle, about to `create` or `save`, or `send`ing events. `Accepts` is
the conditional write (`xolu/pkg/storage/sqlite.go`): a save carries the version its read returned.
`WriteOK`, `WriteConflict`, `WriteFails` and `WriteReplyLost` are the outcomes of one request.
`Crash` keeps the documents only. What the caller, the subscribers and the event log are told
(`Outcome`) is the GlobalID, the instant (UpdatedAt, for which the document as it was written stands)
and the Record that `fromXoluResult` parses out of xolu's answer (`Answer`). The answer has a message
and at most an id, so that Record is the empty one (section 6).

**HotswapMemory.** A thread is a goroutine: `code` is the function, `at` the stage. Threads carry the
locals that survive a stage (the listing, the record read by Get). `quiesced` is the state of the
source instances; the quiesce endpoint is outside this repository and is modelled from the calls.

**XoluHotswap.** A thread is a goroutine or a Confirm, Abort or Get call. `load` and `index` are the
two halves of loadFromXolu, `pick`, `save` and `post` those of advanceState. `index` maps to
`[version, ref]`, where `ref` identifies the meta object: advanceState updates the object it picked,
which another thread may have replaced meanwhile. A load takes the document's version from the query's
result; a create or save takes it from an answer that has none, so both leave 0 in the index
(`AnsweredVersion`), and a save that picks a 0 sends no version and is accepted whatever is stored
(`Accepted`). The pointer is read under the lock and its version
after it, which is a data race in the code; the model reads the two together and so covers the
outcomes of the races between whole loads and advances, not a torn read.

**TenantDirectory.** A TenantEntry is its count; `byName` maps to the instance of the entry it points
to. `handleEvent` returns the set of possible outcomes because rebuilding `byName` follows the order
of a Go map. `skewed` is a history variable: an event was dropped, came during Start, or was a
transfer that handleEvent applies only half (section 6).

**Negotiator.** `lost` is a history variable: the transfers whose answer from the registry was lost.

**EventBus.** `array` and `length` are the slice of subscriptions of a subject, kept apart because a
cancel shifts the array under a Publish that holds the old length. JetStream (`durable`, `tries`,
`acked`) is external and follows the stream and consumer configuration of `nats_bus.go`.

**Proxy.** A request is at `resolve`, `locate` (nolu's answer is on its way), `store`, `send` or
answered. `cache` is the list of the LRU. `serving` and `dir` say where a tenant is and where the
directory believes it is; the 307 of an instance that does not serve a tenant is external.

**EntityHandlers.** `handler[i].pc` is the call a request makes next. `overtaken` and `late` are
history variables for the races the code has: a write stored between another write and its graph
update, a cascading delete whose row another delete has taken since its check (both `overtaken`), and
a cache fill that an invalidation overtook (`late`).

**Lifecycle.** `dirty` is the persister's flag, cleared before the snapshot; `file` the graph file.
The graph is abstracted to its nodes, since `GraphMachine` shows that Save and Load are inverse.

**TimeSeriesStore.** An append is three steps (event, counter, registry); a purge is a sequence of
batches with the cutoff of its start. Times are days. The reference definitions of the queries are in
the same module: what RangeQueries, Aggregations and Selections of every prefix, range, order, limit,
field, function and interval should answer, as sets of stored events.

**Oql.** SQL that the generators produce is modelled by what SQLite answers to it: three truth
values, casts and affinities included. UPPER and FLOOR stand for the scalar functions with and
without a translation. `Gap` lists the queries on which a path is known to differ (section 6).

## 3. Runs

Each is `tlc -config <cfg> <module>`.

| Run | Module, cfg | What it shows |
|---|---|---|
| `registry` | MCRegistry | MemoryRegistry implements `Ownership`; a subscriber that lost nothing is exactly its buffer behind; events are snapshots of a stage of the record |
| `xolu_registry` | MCXoluRegistry | two racing callers, lost answers and a crash: still `Ownership`, custody unbroken, histories append-only, and nothing that a caller, a subscriber or the log was told was done is undone |
| `hotswap_aborts` | MCHotswapMemory, HotswapAborts | up to three Aborts, failing calls, iolu errors and registry clients: a hotswap is never without a goroutine to take it further, never has two forward ones, and ends |
| `hotswap_no_aborts` | MCHotswapMemory, HotswapNoAborts | without Aborts, failing calls and clients, the promises of the protocol hold for hotswaps of two tenants of one instance |
| `xhotswap` | MCXoluHotswapFaults | two crashes at any point: Resume leaves nothing unattended, every hotswap ends, COMPLETE means moved; failing calls, lost answers, impatient operators: nothing moves twice, never two forward goroutines |
| `edge` | Edge | negotiator, directory, proxy and bus, each with the faults it handles |
| `entity_handlers` | MCEntityHandlers | any three of twelve requests interleaved: graph, its counters and indexes, cache, versions, edge table, sequences |
| `xolu` | Xolu | persister, graph, time series and jobs, each with the faults it handles |
| `oql` | MCOql | 720 SELECTs on 84 tables against SQL; two concurrent statements |
| `hotswap_untouched` | MCHotswapMemory, HotswapUntouched | **violation**: a hotswap aborted during cutover is FAILED with entities on the target |
| `xhotswap_auto` | MCXoluHotswap, XHotswapAuto | **violation**: AutoAdvance never leaves PREPARING |
| `oql_tenant_zero` | MCOql, OqlTenantZero | **violation**: a DELETE of tenant 0 removes documents because another tenant's match |

The promises of the hotswap protocol hold only where `hotswap_no_aborts` checks them. Once an Abort
may come, calls may fail or clients use the registry, most have counterexamples (section 6); the
properties that survive everything are those of `hotswap_aborts`. The same split is made for the
xolu-backed manager in the two parts of `xhotswap`.

Further configurations reproduce a disagreement between the code and what it says of itself; TLC
finds each property violated:

| Configuration | Property | What the code says, and what happens |
|---|---|---|
| MCXoluRegistry, XoluRegistryTold | `ToldRecords` | `xoluclient/extensions.go:63` "Returns the full entity document": xolu answers a write with a message and an id (`xolu/pkg/server/server.go:934-937`, `handlers.go:339-341`), so the Record that is returned, published and logged is empty |
| MCXoluHotswap, XHotswapConflict | `ConcurrentTransitionsConflict` | `hotswap/xolu.go:62` "one winning and one receiving a 409": the version comes from a shared index, in which the first transition has put 0; the second is saved unconditionally, and both win |
| Edge, ProxyMount | `MountReachable` | the embedded proxy is mounted with StripPrefix (`server.go:140`) and then looks for its MountPath in the stripped path (`proxy/config.go:119`); no request passes |
| Edge, BusAtLeastOnce | `AtLeastOnce` | `events.go:77-78`, `91`: a cancel during a Publish makes another handler miss the event |
| MCEntityHandlers, EntityCycles | `NeverDiverge` | `xolu/pkg/server/server.go:1605-1606` "can never diverge due to a cycle-detection rejection": two requests pass the check and the second edge is refused after its store write |
| Lifecycle, ShutdownSaves | `ShutdownSaves` | `cmd/olu/main.go:245-251`: after the shutdown timeout, requests are cut off and a change comes after the final save |
| Xolu, TimeSeriesLatest | `LatestAreNewest` | `timeseries/types.go` "N most recent events": with a dimension prefix the last keys are not the latest times |
| Xolu, TimeSeriesLatest with `FieldCountsExact` for `LatestAreNewest` | `FieldCountsExact` | `timeseries/store.go:610`, `620` RangeCount "counts events carrying the specific field, not total events", `568` RangeAvg "the average of num field": both divide or count by all events of the range |
| QueryJobs, JobsNewEntities | `NewEntitiesRecognised` | `validator.go:100-104`: a query reads the map another has just emptied |

### Bounds and why they are enough

| Bound | Value | Why |
|---|---|---|
| `MaxHistory` | 1 to 4 | two transfers make a chain with an inner link; the hotswap needs one per hotswap and one per client; the proofs need no bound on it |
| `GlobalIDs` | 1 to 4 | races are per record; two make a loop with a half-way point |
| `Callers`, `Writers`, `Workers`, `RequestIDs`, `Jobs` | 2 | a race is between two; for the registry the proof is for any number |
| `ChanCap` | 1 to 3 | smaller than the number of events, so channels overflow |
| `Hotswaps` | 1 or 2 | two for `TenantsSeparate` and for hotswaps that follow each other on one tenant |
| `MaxAborts` | 3 | a first Abort, a repeated one in ROLLING_BACK, and one more after an error's own rollback |
| `MaxClientOps` | 2 | an entity moved away and another registered during a cutover |
| `MaxCrashes` | 1 or 2 | a crash of a resumed run |
| `MaxCalls` | 2 or 3 | Confirm and Abort racing, with a Get that disturbs the index |
| `CacheSize`, `MaxRedirects`, `MaxMoves` | 1, 2, 1 | one entry less than tenants, so that entries are evicted; a redirect after a redirect; a move under way |
| `MaxDeliver` | 3 | a failure, a crash and a success |
| `Menus` (entity requests) | all 220 triples of 12 requests | two writers and a reader, or three writers, of which two concern one node |
| `MaxEdges`, nodes | 3, 3 | a cycle of three, a cycle through the shared tenant, a promoted placeholder |
| `MaxWrites`, `MaxConfigs`, `purgeBatchSize` | 2, 2, 1 | an overlap of appends, a change of the retention between two batches |
| `MaxNums`, `MCBatches` | 2; events at days 0, 1, 2 with none, one or two fields | a field that only some events of a range carry, none that do |
| `Selections`, `Aggregations` (queries) | from 0 or 1 to 1 or 2, limits 1 and 2, one bucket or buckets of two days | each bound of the range excludes some events and not others; a limit below the matches; events of one range in two buckets |
| `Tables`, `Queries` | 84, 720 | one to four documents around the push-down threshold of two; 15 conditions, 12 shapes, 4 TOPs |

Type invariants are proved (section 4) and are not among the properties of the runs. Deadlock is not
checked: every bounded counter runs out, and a server without requests rests.
Symmetry is used for callers, proposals and GlobalIDs, which the specifications treat alike, and
only in runs without liveness properties.

### Fairness and why the code justifies it

* `HotswapMemory`: weak fairness per goroutine. The Go scheduler runs every runnable goroutine; the
  mutex is held for short sections only; the HTTP client gives up after ten seconds
  (`pkg/xoluclient/client.go:38`). The iolu subprocess runs without a timeout: that it ends is an
  assumption. Nothing is assumed of operators, clients or Aborts.
* `XoluHotswap`: the same per thread, and that nolu is started again after a crash.
* `TenantDirectory`: main calls Start, and the event goroutine is scheduled. Clients are not assumed
  to do anything.
* `Proxy`: each request's goroutine is scheduled, and every call it makes ends because the forward
  timeout covers it.
* `Lifecycle`: the persister's ticker fires, a save ends, a request that has begun goes on, and a
  stopped process is started again. Nothing is assumed of new requests, and a save may fail as often
  as the bound allows.
* `TimeSeriesStore`: the retention worker's sweeps recur while the store stays open.

## 4. Proofs

All theorems hold for any sets of GlobalIDs, LocalRefs, protocols, callers, hotswaps and requests and
any values of the bounds. They rest on the named assumptions of the modules (that LocalRefs are
records with a natural tenant number, that bounds are natural numbers, that hotswaps are among the
protocols). Where a theorem needs more, its statement says so with `ASSUME`, and the last table of
this section says what the hypotheses mean, why they are needed and which run satisfies them.

The rule of all the proofs: an invariant names what each goroutine, call or request in flight
believes, and says when that belief may be acted on.

**Registries.**

* `OwnershipProofs`: `TypeCorrect`, `CustodyIsUnbroken` (`ChainOfCustody`), `HistoryIsAppendOnly`.
  The chain needs that a Transfer starts at the current owner (`TransferredChained`).
* `RegistryProofs`: `MemoryTypeCorrect`, `MemoryImplementsOwnership`; `SnapshotsStayPrefixes`:
  histories only grow (`HistoriesGrow`) and an event waiting after a step was waiting before or
  carries the record stored now (`WaitingStep`); `SubscribersNeverSkip`: `SubscribersKeepUp` is
  inductive with `TypeOK`. It counts the events of a GlobalID in a buffer, so the proof is about
  cardinalities of sets of positions: a receive shifts them by one (`ShiftCount`, `ReceiveCount`), a
  send adds one at the end (`SendCount`), and every commit makes the version one more
  (`CommitVersion`), which is what the event says (`PublishedVersion`).
* `XoluRegistryProofs`: `XoluImplementsOwnership`. The refinement maps the documents to the abstract
  records (`Stored`). It is not inductive by itself: a caller between its read and its write holds a
  record computed from what it read. `CallsInv` is the strengthening. A caller about to create has a
  GlobalID of its own that no document has; one about to save holds a version not newer than the
  stored one, and *if it is the stored one*, its record is a legal change of the stored record. xolu
  accepts the write only in that case, so each accepted write, acknowledged or not, is an abstract
  step, and every other step is a stutter. `CallsAreLegal` proves it, `XoluTypeCorrect` the types.
  `XoluCustody` and `XoluAppendOnly` carry the theorems of `OwnershipProofs` over to the stored
  records through the refinement. `ToldIsNeverUndone` adds the invariant that calls in their sending
  stage tell of a stage of the stored record. It is about what was done (`ToldHappened`), not about
  the Record that comes with it, which is empty.

**The smaller components** (`ComponentProofs`, which takes each module as an instance).

* Negotiator. `NegotiatorTypeCorrect`; `StoriesAgree` (`RecordMatchesProposals`) compares two
  cardinalities, so it needs that the proposals are finite at any time (`FiniteProposals`); a commit
  adds one claim and one occurrence of the same entry (`CommitEffect`), a lost answer one of the
  excepted claims. `ProposalsSettle` is the action property `Settled`: an open proposal is the only
  one that may be decided.
* Tenant directory. `DirectoryIsExact` (`DirectoryExact`): the property speaks of an empty channel
  only, so the invariant (`DirectoryInv`) accounts for what is still in it. `Accounted` says that
  there is a sequence of numbers, one between each two events of the channel, that leads from the
  count in the directory to the number of entities in the registry, for each key, each event
  changing it as `handleEvent` will. That the maps agree needs no more than themselves.
* Event bus. `EventsReachConsumers` (`BusDelivers`). Memory: while nobody has cancelled since a
  Publish began (`Undisturbed`), the slice that it walks names the subscribers that were there
  (`Slice`), and those already called are those before its index (`Called`). NATS: a delivery that
  was acknowledged has run a handler of the durable's name (`NATSInv`).
* Process and persister. `NoChangeForgotten` (`SavedOrDirty`): each change the file does not have is
  marked dirty, is about to be marked by its request, or is in the hands of a save (`KnownToSave`);
  dirty is cleared before the snapshot is taken.
* Query jobs. `OutcomesAreKept` (`OutcomesKept`): a job that is under way was created at most
  MaxQuery ago, and an ended one carries the time of its end (`JobOK`).
* Proxy. `LocationsExpire`: not only a cached entry but an answer on its way to the cache is no older
  than the bound allows (`Fresh`, `TimeInv`), so an answer that arrives late does no harm.
  `ReadsSucceed` (`ProxyReads`): each redirect of a promised read was spent on a rival that put a
  stale answer back, and each rival can do that once; redirects, met rivals and those that may still
  do it together stay within MaxRedirects (`Reaching`, `Threats`, `Met`).

**In-memory hotswaps** (`HotswapProofs`). `HotswapTypeCorrect`. With Aborts, failing calls, iolu
errors and clients:

* `NobodyOrphaned` (`NoOrphan`). The invariant `Manned` puts it for all goroutines alike: whatever
  working state a hotswap is in, the goroutine that works in it is there. A goroutine that leaves has
  just written the next state and started its successor, or has found another state than its own;
  what is to be shown is that the goroutine of *that* state is not the one that leaves.
* `NobodyHelpedTwice` (`OneForwardDriver`). A second forward goroutine could only come from a second
  Confirm, so `PreparingIdle`: in PREPARING there is no forward goroutine.

Without Aborts (`SoloAlways`: a hotswap has one goroutine and the state is the one it works in):

* `EndsAreFinal` (`TerminalIsFinal`): an ended hotswap has no goroutine.
* `SourceBlocked` (`QuiesceHeld`): `Called` says at which stages the call to the source has already
  been made, and `OneActive` that no other hotswap of the tenant makes one meanwhile.
* `FailedUntouched` (`FailedMeansUntouched`): a hotswap whose name is in a history is CUTTING_OVER or
  COMPLETE (`Written`), and without Aborts neither leads to FAILED.
* `TenantsApart` (`TenantsSeparate`), `EndsAreTrue` (`EndsHold`): the invariant `MoveInv` follows a
  listing through the cutover. What is listed and not yet moved is at the source, and the record in
  the goroutine's hands is the stored one (`Listed`); conversely, every active entity at the source
  is listed and not yet moved (`AllListed`).

**xolu-backed hotswaps** (`XoluHotswapProofs`). `XoluHotswapTypeCorrect`. With failing requests, lost
answers and crashes:

* `OneDriverForward` (`OneForwardDriver`): of the threads that may start a forward goroutine, Confirm
  and the forward goroutines themselves, a hotswap has one (`OneStarter`). It starts its successor as
  it ends; a crash ends them all before Resume starts one. A Request about to create a document has
  an ID of its own (`Pending`), so the goroutine it starts is the first.
* `NothingMovedTwice` (`MovedOnce`): what a cutover still has in its list has not been moved by it
  (`WorkInOrder`), and what was moved is at the target of some hotswap (`MovedAway`), where the listing
  of a resumed cutover does not find it.

When requests to xolu succeed:

* `CompleteWhenMoved` (`CompleteMeansMoved`): what the source still owns is in the list of each
  cutover past its listing, also when Resume has started it again (`CutInv`, `Covered`).
* `NobodyLeftAlone` (`NoOrphan`): `SoloInv` says that a hotswap has one thread (`Alone`), that what it
  loaded is what is stored, and that the version it is about to save with is the stored one
  (`InStep`). So no save of a driver is refused, and each ends by starting its successor.
* `OneActivePerTenant`, `SourceBlockedWhileMoving` (`WritesBlockedWhileMoving`): the source could be
  released too early only by a rollback of another hotswap of the tenant; so the invariant
  (`BlockedInv`) contains that there is none, and that no Request is about to create one (`Clear`).

**Entity endpoints** (`EntityProofs`). First the store's methods are reduced to what they do to rows
(`Write`: at most the named row changes, and its version grows by one or starts at 1; lemmas
`CreateWrites` to `CommitWrites`, `DeleteRemoves`), and the calls of updateGraph and removeGraph to
what they do to their own request (`GraphCall`). `EntitiesTypeCorrect` follows, and then

* `VersionsNameContents` (`VersionsIdentify`): not inductive, because a version may be shown later
  than it was read. `VersionInv` says of every row anybody holds (a client, the cache, a reader
  between its read and its answer) that the stored version is newer or the content the same
  (`Vouched`).
* `CacheFollowsStore` (`CacheFresh`): an entry of the cache (`CacheInv`) and one that a reader is
  about to put there (`ReaderInv`) agrees with the store, or was overtaken, or some request will
  still invalidate its key (`Due`). When no write is under way nothing is due.
* `StoreStaysConsistent` (`StoreConsistent`), for stored documents with numbered keys and distinct
  targets (`StartAssumption`; the store accepts no others) and requests that name such keys
  (`RequestsAssumption`). The methods of the store are reduced a second time, to what storing one
  document does to rows, edges and sequences (`Saves`), so that one lemma (`SavesKeep`) serves Create,
  Update, Patch, Save and both halves of Commit. The invariant (`StoreOK`) needs two things the
  property does not say: each table holds only the entities it is for, since RebuildGraph reads one of
  them, and no stored document has two REFs to one target, since RebuildGraph skips such a document.
  It also needs what a delete saw at its check (`RequestOK`): a cascade goes on when its row is gone,
  and its key is then one that had a row before.
* `GraphMatchesStore` (`GraphFollowsStore`). While requests are under way the graph and the edge table
  do differ; the inductive invariant (`Mended`) says where: an edge of the table that the graph lacks
  is one that a request in flight will still add (`WillAdd`), an edge of the graph that the table
  lacks one that a request will still cut (`WillCut`), and once no request is in flight nothing is
  left to add or cut. A promise is good only if nobody else undoes it. Two requests between store
  write and graph update are therefore `Apart` (they wrote different rows, neither deletes a node the
  other refers to, neither is a rebuild): a write that breaks this sets `overtaken`. What a request has
  in hand is what the store says of the rows it wrote (`HandlerOK`). The delicate step is linking:
  addEdgeLocked keeps an edge that is already there under another label, and `NoRival` shows that none
  is, since the request has cut the old references and the document names each target once. The
  graph's operators are reduced to what they do to edges (`AddNode`, `AddEdge`, `DropEdge`,
  `DropNode`, with `GraphOK` for both maps of the graph), the writes of the store to `Rewrites`. The
  graph of the start (`StartMended`) is a fold over the edge table, taken apart by the smallest subset
  for which the claim would fail (`LoadedGraph`). Rows have keys of routes, commits or the start
  (`KeysInvariant`); without that a node ID would not name one row.
* `GraphIsCounted` (`CountersExact`). The graph keeps, besides its nodes and edges, a mirror of the
  incoming edges, two indexes and per tenant the numbers of nodes, placeholders and edges; each call
  adjusts them and none recomputes them. `Counted` states that they are what a scan gives, with what
  the induction needs: the sets are finite, an edge is a pair of nodes, and every node is of a tenant
  that has counters. Each call keeps it by itself (`NodeCounted` for the creation, typing and promotion
  of a node, `EdgeCounted`, `CutCounted`, `DropCounted`, `ClearCounted`, `LoadCounted`), so the
  property holds in every state and not only between requests; the invariant (`CountInv`) adds that
  what a request has still to link or load is of such a tenant (`TaskOK`). The delicate call is
  RemoveNode, which subtracts lengths of neighbour lists: the edges of a node are split into those from
  it and those to it from others, so that an edge from a node to itself counts once (`EdgesOfANode`,
  `EdgesGone`). Nothing is assumed of cycle detection, of overtaken writes or of refused edges.

**Hypotheses.**

| Hypothesis | Meaning | Why it is needed | Satisfied by |
|---|---|---|---|
| `NoAborts` | no operator aborts | an Abort during a cutover breaks each of these (run `hotswap_untouched`, section 6) | `hotswap_no_aborts` |
| `CallsSucceed` | the calls to the source's quiesce endpoint succeed | a failed quiesce is logged and ignored | `hotswap_no_aborts` |
| `NoClients` | nobody else transfers entities | the cutover moves an entity from wherever it is by then | `hotswap_no_aborts` |
| `NamesIdentify` | a tenant number of an instance has one name in all hotswaps | Request compares names too, so two names for one tenant are two tenants to it | `hotswap_no_aborts` |
| `OneWay` | no hotswap's target is another's source | two hotswaps in opposite directions: section 6; in the xolu-backed manager, a resumed cutover moves again what another hotswap moved back | `hotswap_no_aborts`, both parts of `xhotswap` |
| `OwnProtocols` | no history mentions a hotswap before it was requested, and clients do not use its name | names are fresh identifiers in the code | all hotswap runs |
| `ConfirmWaits` | no Confirm is made while a goroutine or another call works on the hotswap | of two overlapping Confirms the second finds in the shared index the 0 that the first one posted, saves unconditionally, and both win, as Confirm and Abort do in XHotswapConflict | `xhotswap` |
| `Reliable` | requests to xolu succeed; crashes may come | the drivers return when a load fails | `xhotswap`, part of the crashes |
| `Patient` | no Confirm, Abort or Get is made while a goroutine or another call works on the hotswap | a load that is slow puts an old version into the index: section 6 | `xhotswap`, part of the crashes |
| `FewAtOnce` | no more requests for one tenant are under way at once than MaxRedirects (3 by default) | each of them may put a stale answer back once: section 6 | `edge`, with two requests and two redirects |
| `ProxyAssumption`, `MenuAssumption` | the TTLs are positive, and the two seconds of a moved entry are not longer than the directory's TTL; a path ends with the tenant's name | the bound on staleness is the directory's TTL | `edge`; an ASSUME of `Edge` (`EdgeAssumption`), not a hypothesis |
| `JobsAssumption` | a query ends within GraphQueryTTL (30 seconds and a day by default) | `Cleanup` prunes by age, whatever the status | `xolu`; an ASSUME of `Xolu` (`XoluAssumption`), not a hypothesis |
| `RequestsApart` | no two Requests for one tenant overlap | the check and the creation are two requests (`xolu.go:184`, `xolu.go:222`) | `xhotswap`, part of the crashes |

**Only model-checked.** All liveness (`Settles`, `CatchesUp`, `EveryRequestAnswered`,
`EventuallySaved`, `EventuallyPurged`), which is outside the prover's reach; `SelectsExact`,
`SuccessReachesAll` and `WritesWhatItRead`, since `Oql` uses RECURSIVE operators on conditions, which
are trees; what traversals, Save and Load and the queries of the time series compute (`GraphExact`,
`TimeSeriesExact`), which would need induction over data (the part of `GraphExact` about counters and
indexes is `GraphIsCounted` for the graph of the endpoints). `FaultsHarmless` as such lives in
`MCXoluHotswapFaults`; its two conjuncts are `NothingMovedTwice` and `OneDriverForward`.

## 5. Not modelled

* **HTTP server, configuration, version, routing** of nolu: no state of their own; the mounting of
  the proxy is modelled in `Proxy`.
* **iolu, olu-migrate**: one-pass copies; nolu sees their exit status, which is modelled.
* **sulpher's language**: pattern matching, a pure function of a graph and a text.
* **xolu's middleware, validation, configuration, JSON tokeniser, t-digests**: conversions of data.
* **Schema evolution** of adapted tables and the conversion of column types; decimals, dates and AVG
  in OQL; percentiles in time series; embedding of referenced documents in answers.
* **Demos and end-to-end tests**: clients of the API.
* In modelled components: the reachability checks and error paths of Request that change nothing;
  history logs that are written and never read; the `ctx.Done` branches of the drivers, whose
  context is never cancelled; requests that xolu executes after the client has given up; data races
  that may stop the process (a Go map written while it is read).


## 6. Other disagreements between the code and its comments

Met while modelling, reproduced with these modules under other constants where a behaviour is
involved, and not kept as runs.

Registry
* SubscriptionFilter has InstanceURLs (`pkg/registry/registry.go:98-99`); matchFilter never looks at
  it (`memory.go:268`).
* `pkg/identity/identity.go:126-128` calls TenantName informational; Transfer compares the whole
  LocalRef (`memory.go:121`), so a caller that leaves the name out is refused.
* `xoluclient/extensions.go:63` says that Save "Returns the full entity document as returned by xolu",
  and `client.go:60-61` that Create returns the created entity. xolu answers a create with a message
  and the id (`xolu/pkg/server/server.go:934-937`) and a save with a message (`handlers.go:339-341`).
  XoluRegistry parses its result out of that answer (`xolu.go:197`, `269`, `309`), so Register,
  Transfer and Retire return an empty Record, and the events and the `nolu_events` document carry one.
  The caller of a Register never learns the GlobalID it minted, which
  `test/e2e/xolureg_test.go:50-54` expects in the result.

In-memory hotswap manager
* Terminal states are not final: a cutover or rollback that finishes late writes COMPLETE over FAILED
  or the reverse (`manager.go:387`, `429`; `hotswap.go:57`).
* An Abort and its whole rollback fit between driveQuiesce's look at the state and its call
  (`manager.go:238`); the tenant then stays blocked, although "Source quiesce lifted"
  (`hotswap.go:29`).
* failHotswap after an Abort revives a FAILED hotswap (`manager.go:434`), so two may be active for
  one tenant (`hotswap.go:179-180`).
* The second rollback of a repeated Abort may lift the quiesce of the tenant's next hotswap
  (`manager.go:413`; `hotswap.go:21`).
* A quiesce that failed is not retried and the migration goes on (`manager.go:238-240` and the
  comment at 206-207).
* An entity that a client moves away between the listing and the Get is moved by the hotswap all the
  same, from wherever it is (`manager.go:349` and the comment at 340).
* The cutover is a loop of single transfers and skips refusals, not "atomic" (`manager.go:327`, 341).
* Hotswaps of one tenant in opposite directions are both accepted, and the entities one moves back
  are on the other's source when that becomes COMPLETE.

xolu-backed hotswap manager
* Two Requests for one tenant that both query before either creates are both accepted
  (`xolu.go:178-222`; `hotswap.go:179`).
* A load that is slow puts an old version into the index over a newer one (`xolu.go:412`); the next
  transition gets a conflict though nobody raced it, and its goroutine gives up.
* For the same reason as in the registry, a create or save of a hotswap puts version 0 into the index
  (`xolu.go:370`, `392`, `228`, `339`). Until the next load, a transition picks that 0, which `omitempty`
  drops (`xolu.go:42`), and its save is unconditional: of two overlapping transitions the second
  overwrites the first. A transition that loads after the other's post is conditional.
* The error of the cutover's listing is discarded (`xolu.go:537`): COMPLETE with nothing moved
  (`hotswap.go:26-27`).

Negotiator
* An Accept whose registry answer is lost leaves the proposal open with the entity moved
  (`transfer/memory.go:71` and the comment at 19-20). `RecordMatchesProposals` excepts these.

Directory
* A transfer within one key is counted twice, and one to an unscoped LocalRef is never subtracted
  (`directory.go:187-203`; EntityCount at 30-32). `CountsExact` excepts these.
* byName is said to hold "the entry with the most entities" (`directory.go:225-226`); an entry that
  shrinks stays the best until it is removed.
* A directory over XoluRegistry never learns anything. XoluRegistry is not a DirectorySeeder, so the
  scan finds nothing (`directory.go:102` and the comment at 90-91), and its events carry an empty
  Record, which tenantNameFromRef takes for an unscoped entity and handleEvent ignores
  (`directory.go:346-360`).
* The cutover writes a LocalRef without a TenantName (`hotswap/manager.go:354`), so the directory
  files moved entities under `tenant-<ID>` and Locate by the tenant's own name finds nothing there.

Proxy
* A tenant that nolu does not know is answered with 502, not 404.
* ForwardTimeout is said to cover forwarding; its context covers the resolution too.
* A write that meets a 307 is sent again with a body that has been read, and is answered with 502;
  `docs/OPERATIONS.md:479` promises that redirects are followed.
* The sidecar caches until StableUntil even if that is later than `-ttl` (`resolver.go:189-190`,
  `config.go:58-62`), and does not cache at all once it has passed.
* More than MaxRedirects requests for one tenant at once can use up a read's redirects by putting
  stale answers back, and it is answered with 502 although its tenant stays where it is
  (`proxy.go:28`, `123-126`).
* This xolu has no code that answers 307 or quiesces; both are external.

Event bus
* MemoryBus has no lock; a map written while it is iterated may stop the process. A cancel removes
  the first subscription of its name.
* NATSBus gives up after MaxDeliver attempts; names that sanitiseName makes equal share a durable
  consumer; a new consumer starts with new events only.

Graph, entity store and endpoints
* wouldCreateCycle skips other tenants' nodes, so a cycle through nodes of tenant 0 is not noticed
  (`flat_graph.go:329-330` says otherwise). `TenantsAcyclic` is about cycles within one tenant.
* A relabel in error mode with a small cycle budget can lose the edge. A path that leads through
  another tenant's node is answered with that node cut out of its middle.
* After a restart on the JSON file, nodes deleted since the last save are back. Hydration from
  SQLite only makes nodes that have edges.
* A cascading delete logs that the store has no such row any more and removes the node from the graph
  all the same (`handlers.go:1473-1479`): of two deletes of one document, the second can take away
  edges to it that were stored in between. `GraphFollowsStore` excepts this (`Outrun`).
* Deleting a document leaves the REFs to it, and VerifyGraphIntegrity then reports missing edges.
* Save and Commit over an existing document leave its full-text row as it was. Search, Verify,
  Rebuild and ListEntities read the blob table only; RegisterAdaptedTable does not move the rows that
  are there already.
* Cached lists with embedded documents are not invalidated by a write to those, and their key lacks
  `embed_depth`. A list's total and its page are two statements.
* A document deleted and saved again starts at version 1, so an old version may match once more.

Time series
* TimelineStats takes oldest and newest in key order, which is time order only without dimensions.
* RangeCount is said to count the "events carrying the specific field, not total events"
  (`store.go:610-611`, `620`) and RangeAvg to be the average of a field (`568-569`). Both take the
  number of all events of the range, as soon as one of them carries the field. The buckets of the
  aggregation endpoint divide by the events that have the field.
* Counters are written on Close only; the design document says every 60 seconds. An interrupted purge
  leaves a counter too high.
* A registry that cannot be saved leaves a timeline usable until the restart.
* The retention worker sweeps only the stores that have been opened.

OQL
* Push-down for tenant 0 has no tenant filter: SELECT returns rows of all tenants; DELETE is run
  `oql_tenant_zero`.
* A push-down UPDATE always ends in ErrConflict: the query yields `_version` as int64
  (`sqlite.go:2033`), updateInner reads float64 and int only (`sqlite.go:675-684`);
  `docs/OQL_API.md:276` lists it as supported.
* UPDATE, DELETE and `SELECT *` with a WHERE on an adapted entity past the threshold ask the empty
  blob table (`planner.go:278`); below it, the predicates of an adapted listing are ignored.
* Two predicates on one field reject every row of the filtered scan. LIMIT is pushed below GROUP BY,
  DISTINCT and an ORDER BY that is not pushed; the aggregate query applies it before HAVING. A
  generation that fails keeps a plan whose later steps are then skipped.
* Comparisons with NULL, TOP 0, DISTINCT *, `_` in LIKE and HAVING without a comparison differ from
  SQL. `equivalence_test.go:20-23` compares the paths on queries without these.
* DELETE checks no version; a statement that ends in an error has written the rows before it.

Jobs
* sulpher's GetJobResult says of a job that failed that it has not completed.

## 7. Plan

Every stateful component is modelled, apart from what section 5 lists. Next, in this order:

1. **Directory over XoluRegistry**, once xolu answers a write with the document: its events may arrive
   in the opposite order, and there is no scan.
2. **Late requests**: xolu executing a write after the client has timed out.
3. **sulpher** against a reference definition of pattern matching on small graphs.
