# TLA+ verification of ParqDB

ParqDB keeps IVF vector indexes over Parquet (and Iceberg) tables. Several processes share one
warehouse (an object store), one SQLite catalog and one directory of lock files; each process runs
sessions that build, refresh, register, drop, query and garbage-collect indexes. Nothing
coordinates them but `flock`, SQLite transactions and the clock. A Python package is what programs
use: the same API embedded in the process or over HTTP, blocking or asynchronous, a DataFusion API
beside it, and a command that publishes an index as static files. This project models the
coordination of the processes (what may be deleted, what may be published, who may build, who may
wait), what a serving process does with its slots, caches and threads, and what the Python package
makes of the calls a program may make.

Paths below are relative to the repository; `local/` abbreviates `rust/parqdb-local/src/` and `py/`
`python/parqdb/`.

## 1. Inventory

| Component | State | Operations | Interacts with | What makes it correct |
|---|---|---|---|---|
| Session coordination (`local/coordination.rs`) | session lock file, lease files, roots written in them | `read`, `write`, `reserve_build`, `set_snapshot_root`, `add_snapshot_root`, `active_build_roots` | every other part | one build per identifier; a sweep sees every running build's roots; no build waits for itself |
| IVF centroid catalog (`rust/parqdb-catalog/src/sqlite.rs`) | one row per (source state, fingerprint): building / ready / failed, owner, lease | `claim_`, `renew_`, `publish_`, `abandon_`, `load_`, `purge_ivf_centroids` | builds, heartbeat threads, maintenance | one artifact per fingerprint, complete when registered; leases honoured; nobody waits for a dead owner |
| Index catalog (`sqlite.rs`) | rows name -> metadata location and source, tombstones | `register`, `commit`, `drop`, `list_tombstones`, `purge_tombstone` | publication, maintenance, queries | compare-and-swap; every unreachable document has a tombstone |
| Publication (`rust/parqdb-index/src/publication.rs`, `store.rs`) | metadata documents | `publish_initial`, `publish_refresh` | catalog, warehouse | write first, then publish; snapshots accumulate |
| Build pipeline (`local/session/build.rs`) | a build's lease, centroids, heartbeat | create, refresh, `resolve_ivf_centroids`, status, wait | all of the above | never publishes what is not there |
| Build coordinator (`local/session/build_coordinator.rs`) | map of records, one permit, watch channels | `submit`, the task, `snapshot`, `wait`, `forget_failure`, `remove_if_same` | build pipeline, clients | running builds keep their record; everyone who waits returns |
| Maintenance (`local/maintenance.rs`) | none of its own | `remove_orphans` | warehouse, both catalogs, leases | deletes only what is unreachable and past retention |
| Session catalog operations (`local/session/catalog.rs`) | none | register, drop, verified drop, listing | catalog, coordination | guards cover what they check |
| Query resolution (`local/session/query.rs`) | resolved tables, no guard after resolution | `resolve_search`, planning | catalog, warehouse | what it resolved stays readable for the retention period |
| Query admission (`local/runtime/admission.rs`) | permits, queue counter, semaphore queue | `acquire`, time-out, cancellation, drop of the permit | queries | bounds; every permit comes back; nobody overtakes |
| Page cache (`local/parquet/page_cache.rs`) | entries, resident and live bytes, capacity | `get`, `insert`, evict, `set_capacity`, `clear`, drop of pages and buffers | queries | accounting at the limit; readers keep their pages |
| Session lock on runtime threads (`coordination.rs`, `python/src/session.rs`) | workers, guards held across awaits | a guarded section of each call | builds, searches, maintenance | a holder of the lock can go on |
| Result streams (`local/query/stream.rs`, `py/facade.py`, `py/transport/ipc.py`, `py/server/app.py`) | native stream, encoder, connection, decoder, consumer | read, encode, send, decode, collect, close, disconnect | admission, HTTP | order, no silent truncation, slot released |
| Blocking session (`py/facade.py`) | event-loop thread, futures, closed flags | call, iterate, close | every asynchronous call | every call returns |
| Table registry (`py/session.py`, `py/server/app.py`, `py/transport/http.py`) | definitions in SQLite, providers in the session | register, deregister, table, list, restore | catalog, queries | definition and provider agree; nothing is rebound |
| Index API (`py/runtime/service.py`, `py/transport/http.py`) | a call's progress, its deadline | create, refresh, wait, status, register, list, drop | build coordinator | "ok" means ready, refused means nothing begun |
| REST contract (`py/transport/models.py`, `errors.py`, `py/server/openapi.py`) | messages | encode, decode, raise, map errors | client, server | both sides and the document agree |
| Wire routes (`py/transport/http.py`, `py/server/app.py`) | URL path, body | quote, decode, route, compare | client, server | a call reaches its own handler with its own names |
| Static publication and its build (`py/publish.py`) | destination, work directory | `publish`, `build_index`, resume | S3 or a directory | a manifest covers what it lists; a build resumes its own request |
| Session options (`py/datafusion/context.py`, `options.py`) | option objects by reference | `with_*`, opening a session or reader | sessions | a reader uses checked characters |
| Session namespace (`context.py`, `catalog.py`, `io.py`) | states, catalog lists, schemas, providers | register, deregister, read, derive, DDL, replace | frames, SQL | names keep their providers |
| Expression shipping (`ipc.py`, `expr.py`) | thread-local contexts, bytes | set, clear, encode, decode | workers | code goes only where it may, and the right function answers |
| Expression builders (`expr.py`) | expression under construction | subscripts, casts, frames, argument helpers | frames | built as written |
| Lazy frames (`dataframe.py`) | plan, table content | plan calls, eager calls, join, writers | namespace | rows as documented, at the documented moment |
| User functions, window evaluators (`user_defined.py`) | handles, registry, partitions | make, decorate, register, look up, evaluate | planner | a registered function can run, on all the rows |
| Metadata cache, bounded async cache (`local/store.rs`, `local/session/index_table/bounded_cache.rs`) | pending loads | get, invalidate | queries | no stale value |
| Parallel executor, IVF builder, k-means, kernels, LVQ, navigation, top-k | numeric | pure or data-parallel | build, query | numeric |
| Storage, metadata formats, Iceberg, browser reader | I/O, parsing | | | |

Hard behaviours: locks on inodes against names in directories; a guard that is held across
awaits; leases in wall-clock time whose clock is read before the transaction that compares it; a
heartbeat thread that races its own build's publication; readers that hold neither guard nor lease
while they read; a crash between any two writes; a status call that uses a copy after an await; a
permit granted to a query that is just giving up; pages whose memory outlives their place in the
cache; blocking locks on the threads that have to release them; a stream closed under its reader;
answers lost after the server acted; two stores changed one after the other without a lock; names
that are quoted once and decoded twice; objects shared by reference; a command killed anywhere.
`PROJECT.json` lists each one at its line under `hazards`.

## 2. Modules

| Module | Models | Composition |
|---|---|---|
| `LeaseTable` | abstract: reservations, pins, sweeps | the promise of coordination |
| `SessionCoordination` | `coordination.rs`: guards, lease files as path and inode, try-lock, unlink | implements `LeaseTable` |
| `CentroidRegistry` | abstract: one complete artifact per fingerprint | the promise of the centroid catalog |
| `CentroidClaims` | claim row, builds, heartbeats, clocks, crashes, maintenance | implements `CentroidRegistry` |
| `IndexLifecycle` | builds, registration, drops, catalog, tombstones, collector, a query | uses the promises of `LeaseTable` (guards and pins follow from program counters) and `CentroidRegistry` (one entry) |
| `BuildCoordinator` | records, permit, tasks, status and wait calls, foreign publications and drops | uses the catalog as `published[k]` |
| `QueryAdmission` | the counted queue and the fair semaphore as two pieces of state | in `ServiceRuntime` |
| `PageCache` | entries, pins (Arc counts) and buffers (live bytes) under and outside the mutex | in `ServiceRuntime` |
| `GuardedWorkers` | guarded sections of calls on a bounded number of workers | in `ServiceRuntime`, `MCGuardedWorkers` |
| `RestContract` | every message three times: written, read, documented; errors through their tables | in `ServiceRuntime` |
| `WireRoutes` | names through quoting, decoding, greedy routes and handlers | in `ServiceRuntime` |
| `ResultStreams` | one result from the native stream to the consumer, embedded or over HTTP | in `ClientCalls` |
| `BlockingSession` | caller threads, event loop, futures, close | in `ClientCalls` |
| `TableRegistry` | definitions and providers, overlapping callers, lost answers, restarts | in `ClientCalls` |
| `IndexApi` | index calls of embedded and remote callers against what they see of a build | in `ClientCalls`; uses the promise of `BuildCoordinator` (one record) |
| `SessionOptions`, `SessionNamespace`, `ExpressionShipping`, `ExprBuilders`, `LazyFrames`, `UserFunctions`, `WindowRuns` | the DataFusion API of the package, one module per kind of shared object | in `PythonApi` |
| `StaticPublication`, `PublicationBuild` | `publish` and `build_index` with failures, kills and retries | in `PythonApi` |
| `ServiceRuntime`, `ClientCalls`, `PythonApi` | no code of their own | compose the components of a serving process, of a client and of the Python package |
| `*Proofs` | theorems and inductive invariants of the module they extend (`SessionCoordination`, `CentroidClaims`, `BuildCoordinator`, `IndexLifecycle`, `ServiceRuntime`, `ClientCalls`, `PythonApi`) | |
| `MC*` | instances for TLC: the constants, the names hard to route, the symmetry | |

`ClientCalls`, `PythonApi` and `ServiceRuntime` each put together several components that share no
state. The variable `component` says which of them a behaviour runs, and the variables of the others
are 0; the components that no theorem is about have theirs in the slots `v1`, `v2`, ... A property
conjoins what the component modules state about one idea, each part under its `component = "..."`, so
that the run checks every component as it would be checked alone, and the number of states is the sum and
not the product. The components' assumptions on their constants are plain definitions
(`BoundsAssumption`, `StreamsAssumption`, ...); the composition assumes them all
(`RuntimeAssumption`, `CallsAssumption`, `ApiAssumption`).

How state and actions correspond to the code:

* `SessionCoordination`. `readers`/`writer` are the holders of the session flock, `path`/`flock`/
  `content` the lease directory, the locks of its inodes and the roots in the files, `fd` a build's
  descriptor. `BeginReserve`, `OpenLease`, `LockLease`/`RejectLease` are the lines of
  `reserve_build`; `SetSnapshotRoot` writes the root and drops the setup guard; `ScanLease` and
  `RemoveStaleLease` are one iteration of `active_lease_roots`, split at the moment where the lock is
  already dropped and the file not yet unlinked. `ExitBuild`/`ExitSweep` cover return, error and
  process death, all of which close the descriptors. `identifier_lease_key` (a UUIDv5) is injective.
* `CentroidClaims`. `row.left` is `lease_expires_ms` minus the present, `lag` the time since a call
  read `now_ms`. `ReadClock` and the claim or publish action after it are one catalog call;
  `HeartbeatWakes` and `Renew` are one loop of the heartbeat thread, `SendStop` and `JoinHeartbeat`
  are `ClaimHeartbeat::stop`. `TrainFails` stands for every `?` of the training block. Deletion by
  maintenance is restricted to artifacts of builds that have ended (their leases pin the others,
  which `SessionCoordination` shows); age and reachability are left to `IndexLifecycle`.
* `IndexLifecycle`. An operation is a create, refresh or registration and names what it writes.
  `BeginBuild` is all that happens under the setup guard; the exclusive guard is held from
  `BeginPublish`/`BeginRegister` to the commit, and by the collector from `BeginGC` to its end.
  `Candidates`, `Reachable`, `References`, `TombstoneReferences` are the functions of
  `maintenance.rs`; the code computes reachability twice under one exclusive guard, with the same
  result. `DeleteObject` deletes one root or document at a time in the sorted order (`indexes/`
  before `metadata/`), and the collector may stop after any of them.
* `BuildCoordinator`. `records` is the map, `state` the watch channel of each record, `task` the
  spawned task's position, `slot` the semaphore's permit. A status call is `Poll` (copy of the
  record), `Answer` (publication read and answer) and, for a superseded failure, `ForgetFailure`.
* `QueryAdmission`. `queued` is the atomic counter and `waiters`/`available` the tokio semaphore.
  `acquire` is a try, an increment, the wait and the drop of the queue guard, each a step of its
  own; a time-out or a dropped future may come between any two, also when the semaphore has
  already handed over the permit.
* `PageCache`. `entries` is the LRU order, `hold` what readers have (a page or only its buffer),
  `lock` who is inside `insert` or `set_capacity` and how far. Readers drop references without the
  mutex, so pins and live bytes fall while an insertion evicts.
* `GuardedWorkers`. A call is the sequence of its guarded sections; a task that waits in flock keeps
  its worker, one that awaits does not, and needs one again to go on. Callers of `block_on` have their own
  thread.
* `ResultStreams`. A batch is a frame of two parts, so that a chunk may end inside a frame; `srv`
  and `enc` are the server's generator, `conn` the connection, `dec` the decoder with its pending
  batches, `strm` and `sess` the stream and the session that may be closed meanwhile. A consumer
  may read on, stop and close, be cancelled, or break off without `aclose` (`ConsumerBreaks`).
* `BlockingSession`. `job[t]` is the coroutine thread t waits for; the loop may stop between the check
  of the bridge's flag and the scheduling. A close of a stream or of the transport may raise
  (`session` is then "broken"), and an exhausted reader closes itself by a second call.
* `TableRegistry`. `catalog` and `ctx` are changed in the order of `register_parquet_table` and
  `deregister_table`, and a rollback may fail and leave the definition; a listing of the remote client
  reads one page per request. `hist` and `unsettled` record what a listing may contain and on which names
  a rollback failed or a deregistration overlapped a registration; they guard nothing.
* `IndexApi`. `rec` is the coordinator's record of the key, `snap` the published index. A build publishes,
  completes or fails, and has its record removed, in three steps. The embedded wait follows the record it
  found (`Wait`, `Attached`), then asks for the status once more and returns whatever it is (`Look`, `List`);
  the remote one polls until its deadline.
* `RestContract`. A field is the class of its JSON value (absent, null, "", text, integer, ...). `op`
  runs through every operation, `sender` is the client or any program that follows the document.
* `WireRoutes`. A character carries the number of percent escapes before it; quoting adds one where it must,
  decoding takes one, and the routes are matched in order, greedily. `describe` also sends the name as
  dotted text, which the server resolves before it compares.
* `SessionOptions`, `SessionNamespace`, `ExpressionShipping`, `UserFunctions`: Python variables are
  references into tables of objects; each method is an action on the object its variable refers to.
  A schema in memory refuses a taken name and a Python schema decides for itself; `CREATE OR REPLACE` in
  `sql` replaces. A function is made by a maker, a decorator or the constructor of its class, and
  `checked` says whether the maker's check ran.
* `ExprBuilders`: the positions a subscript or slice selects, the bounds a frame has, and what a list of
  strings and expressions becomes at each place that takes one, against Python's own meaning.
* `LazyFrames`: a plan is what it returns on every content of the tables; beside it runs what the
  documentation says of the calls, and a property compares them when the plan is executed. A cast changes a
  value, overflows to a failing execution or makes null, as the types say.
* `WindowRuns`: rows arrive in batches, the evaluator's flags choose the method, as in the table of the
  documentation; DataFusion's window operators are external.
* `StaticPublication`, `PublicationBuild`: one action per write, rename, download, registration or delete,
  each of which may fail or be the last. A failed write leaves nothing, a part or a stored object (`Torn`,
  `Stray`) when its delete fails too; a local clean-up may remove any part of what is there. The work
  directory's catalog keeps the source's name (`catalogued`).

## 3. Runs

| Run | Bounds | Shows |
|---|---|---|
| `session_coordination` | 2 builds, 1 sweep, 2 identifiers, 3 inodes, 2 roots; 71,648 states | `LeaseExclusion`, `SweepProtectsBuilds`, `NoSelfDeadlock`, refinement of `LeaseTable` |
| `centroid_claims` | 2 builds, lease of 3 ticks, lag up to 1; 68,513 states, fair | one live artifact, complete registration, publication stands, no early takeover, only owners abandon, every build ends, refinement of `CentroidRegistry` |
| `index_lifecycle` | 3 operations on 1 identifier, retention 1; 1,706,156 states | published indexes are complete, queries can read for the retention period, no refresh loses a snapshot |
| `index_sharing` | 2 operations on 2 identifiers; 185,249 states | sharing centroids: collecting a dropped index takes nothing from a published one |
| `build_coordinator` | 2 keys, 2 builds, 1 client, 1 foreign snapshot; 240,802 states, fair | running builds keep their record, are found, and end with their waiters |
| `reused_centroids` | 2 operations, 1 identifier | **violated**: a build that reuses centroids does not pin them |
| `verified_drop` | 2 operations, 2 source states | **violated**: the source is verified before the guard is taken |
| `failure_retained` | 1 key, 2 builds | **violated**: a stale status call forgets a newer failure |
| `client_calls` | streams: 3 batches, 3 parts in flight; blocking: 2 threads, 1 closer, 3 calls; registry: 2 names, an embedded and a remote caller with 2 calls in all, pages of 1, 1 restart; index: the same callers with 2 calls, 1 foreign publication or restart; 132,610 states, fair | `ResultsWhole` (streams), `AnswersHold` (what a call reported is so; definitions and providers agree), `NothingReplaced` by overlapping calls, `SlotReleased`, `CallsEnd` |
| `python_api` | 2 variables, handles, threads or publishers (symmetric), 2 objects of each kind, 1 table name, 2 providers, 2 plan calls, 2 rows, 3 publications or builds, partitions of up to 4 rows; 798,736 states | `ShippedAsAllowed` (code and names between threads), `MeansWhatIsWritten` (options, expressions, frames), `EvaluatedAsDeclared` (functions, windows), `PublishedAsRequested`, `NothingLost` (names, callback tables, files, work) |
| `service_runtime` | 4 queries on 1 slot and 2 places; 2 readers, 3 pages of size 1 and 2, capacities 0 to 2; a build, a status call and maintenance on 2 workers; every message; 9 table and 5 index names; 160,781 states, fair | `SlotsCounted` (admission), `PagesAccounted` (cache), `CallsUnderstood` (messages, errors, routes), `PressureIsFair`, `WaitsEnd` (slots, mutex, session lock on the workers) |
| `workers_occupied` | 3 tasks on 2 workers and a maintenance run | **violated**: every worker can be occupied by a task that waits for the session lock |

Why the bounds are enough. Mutual exclusion, takeover and overwriting are about two parties and
one more that interferes: two builds and a sweep; an owner, a second build and maintenance; two
refreshes and a drop or a third build. Three inodes let a stale file, a fresh file and an orphaned
descriptor exist at once. Three operations on a name give create, refresh and a conflicting
refresh or a create after a drop. A lease of three ticks is the code's 30 s lease with a 10 s
renewal; a lag of one tick covers the 5 s `busy_timeout`. Retention 1 distinguishes "younger",
"exactly the limit" and "older"; ages saturate at `Old`. One slot and four queries give one running,
two queued and one that is refused; two readers and a page that fills the cache give every race of a
drop with an eviction; an embedded and a remote caller that overlap twice give every order of two
changes of one name; the program texts of `python_api` that go wrong are one or two calls long, and
two objects of a kind are needed to mix them up. Each property of a run has a mutant in the modules
(operators marked *Mutant*) that the run refutes, so none holds for lack of behaviour.

What each violation shows (details under `findings`):

* `reused_centroids`: the only index of a fingerprint is dropped, retention passes, a new build
  finds the artifact ready and reads it, the collector deletes it (nothing pins it), the build
  publishes a snapshot whose centroids are gone. `PublishedComplete` therefore claims the centroids only
  for snapshots whose build trained them. `PromptOperations` narrows this run: no time has to pass
  inside an operation.
* `verified_drop`: a registration binds the name to one source state and `drop_table_index_in` verifies it;
  before it takes the guard, another drop removes the name and a second registration binds it to another
  source state; the first drop then removes that mapping.
* `failure_retained`: a status call has copied a superseded failure; a retry is accepted and fails;
  `forget_failure` then removes the retry's record.
* `workers_occupied`: a publication awaits its metadata write under the exclusive guard; as many calls
  as there are workers wait for the lock in flock, each on its worker; the publication finds none.
  `service_runtime` shows that with no more tasks than workers every call ends.

## 4. Fairness

`CentroidClaims` and `BuildCoordinator` state liveness, and so do the runs `client_calls` and
`service_runtime`. All fairness is weak.

* Builds: the runtime polls a build that can go on, a heartbeat finishes the renewal it began, time
  passes, and a build's own work ends. In `BuildCoordinator` a task is weakly fair, which suffices for
  the permit because submissions are finite and tokio's semaphore is a queue.
* Streams: the event loop runs the server's generator (`Serve`), notices a lost connection
  (`ServerDisconnect`), and the consumer keeps reading (`Consume`). Blocking session: threads and
  the loop are scheduled, and a loop that was told to stop stops (`LoopStops`).
* Registry and index calls: a call that began goes on, and a deadline passes (`Deadline`).
* Admission: a query whose permit is there takes it, a woken one runs, a guard is dropped, a running query ends
  (`AcquireOwned`, `Wake`, `DropGuard`, `Finish`). Cache: whoever holds the mutex goes on
  (`ResizeStep`, `InsertStep`); readers may keep what they have for ever. Workers: a call that can take its
  guard or has a worker goes on (`Goes`).

Not assumed: that a heartbeat wakes in time, that anyone crashes or fails, that maintenance runs, that
flock prefers writers, that a client closes its stream or stays connected, that an answer arrives.
`python_api` states no liveness.

Deadlock is checked in every run but `client_calls` and `python_api`, whose programs may stop after any
call; what must not block there is said by `CallsEnd` of `client_calls` and by `AllAnswered` of
`WindowRuns`.

## 5. Assumptions and abstractions

* `flock` is advisory and correct, every process uses the same directory, closing a descriptor
  releases its lock.
* Clocks of the processes agree and do not step back (leases and tombstones use wall-clock time).
* SQLite transactions are atomic; a call may fail, and `abandon` may silently do nothing.
* `BuildsAreShort`: a build publishes within the retention period (seven days) of writing its
  centroid metadata. It restricts only the passing of time (`Tick`), and the theorems of
  `IndexLifecycleProofs` have it through `Spec`. Leases pin snapshot roots, not metadata
  documents, so a longer build could lose that document.
* One source and one fingerprint in the centroid registry; a snapshot root is deleted as one object.
* The collector's cutoff is the minimum retention; an older cutoff only deletes less.
* Metadata documents are immutable, so the metadata cache is transparent except for documents that
  another process deleted; the collector's references from such a copy only add to what is already
  unreachable.
* The status call finds publications by exact source state; the model identifies that with the key.
* In `BuildCoordinator` a create succeeds where no index is published and a refresh where one is;
  conflicts are among the failures.
* A page's charge is a small number; the cache's mutex is never poisoned.
* In `GuardedWorkers` several awaits in a row are one, and what a call awaits ends outside of the
  workers.
* The HTTP library delivers bytes in order or fails; a request may be lost before or after it was
  acted on. The ASGI server decodes a path once before it routes it.
* Python's own steps are atomic where the code runs under the event loop without an await; threads
  interleave between statements.
* DataFusion, Arrow, PyArrow and the S3 client are external: modelled from the calls the package makes
  (50 of the 669 mapped definitions).

## 6. Proofs

All theorems hold for every value of the constants allowed by the named assumptions (`DisjointActors`,
`ClaimConstants`, `CoordinatorConstants`, `LifecycleConstants`, `RuntimeAssumption`, `CallsAssumption`,
`ApiAssumption`), which TLC evaluates on the instances. They say that bounds are naturals, that the markers for "no function",
"no session", "none" are no members of the sets they are added to, that queries, readers, callers and names are
finitely many, that a page has a size, and what a Python object may be (a callable or a native export). One is
a choice about the program: `OneCloser`, that one thread closes a blocking session (section 7 says what two do).
Every inductive invariant was checked by TLC on the instance of the component's run before it was proved.

* `SessionCoordinationProofs`. `LeaseExclusion` is not inductive: that two holders of one name have the same
  descriptor needs that a holder's descriptor is what its path names, which needs that nobody
  unlinks a locked or half-reserved lease, which needs that a sweep scans only while no reader
  exists. The inductive invariant conjoins the guard discipline, the agreement of `path`, `fd` and
  `flock`, and what a scan has still to visit. Theorems: types, lease exclusion, sweep protection,
  no self-deadlock, refinement of `LeaseTable`.
* `CentroidClaimsProofs`. The invariant `IInv` adds to the types what the row implies about its owner
  (`RowInv`), what artifacts exist at which program counter (`ArtifactInv`) and what a claim holder may
  still do (`HolderInv`). Theorems: types, one live artifact, complete registration, publication
  stands, no early takeover (the clock that was read can only be in the past, so a lease that ran then
  runs longer than the row says), only owners abandon, refinement of `CentroidRegistry`.
* `BuildCoordinatorProofs`. The invariant relates task, record and permit (`TaskInv`), says that the
  last accepted build's publication is there once its task has published (`LatestInv`), and what a status
  call in progress has read (`CallInv`). Theorems: types, records of running builds, accepted builds are
  found.
* `IndexLifecycleProofs`. The collector deletes from a list it made earlier while builds and queries go
  on, so neither `PublishedComplete` nor `QueryReadsWithinRetention` is inductive. `IInv` adds who may
  run beside a sweep (`WriterInv`), that what rows, tombstones and refreshes refer to is committed
  and changes no more (`CommittedInv`, `KnownInv`), what an operation has written at each program counter
  (`JobInv`), and what the list never holds: the objects of a row and of a running build (`CollectInv`).
  Two kinds of objects are pinned by nothing and live on a clock. The centroid metadata of a running
  build is younger than the retention period (`AgeInv`, from `BuildsAreShort`), and no tombstone is
  older than the centroid metadata it refers to. What a query reads is in the store and off the list
  because the metadata document it resolved is still published or has a tombstone no older than the
  query (`QueryInv`). The lemmas say what makes an object reachable (`InReachable`), that a committed
  document's references do not change (`CommittedStable`), that a sweep removes only what is on its list
  (`OnlyListedGo`), and that what a query holds stays, ages with it and is reachable (`HeldStays`,
  `HeldAges`, `HeldIsReachable`). Theorems: types, published indexes are complete, queries read within
  retention, refreshes lose no snapshot, the collector spares what is published.
* `ServiceRuntimeProofs`. *Admission*: the counter and the semaphore change at different times, so each is tied
  to where the queries are: the permits that are out are those of `Permitted`, the counter is the number of
  `Guarded`, the semaphore's queue lists the waiting queries, each once. With that `SlotsCounted` is
  inductive. *Page cache*: the byte counters are sums of charges over sets of buffers (`Sums`). The prover has no
  induction over finite sets, so the lemmas on sums take the least size at which they would fail and remove one
  buffer. `Holdings` and `Inserting` say what readers and an unfinished insertion refer to, `References` that the
  buffers in use are just these and those in the map, `OnePlace` that a key has one page. `RuntimeInv` asks
  for the invariant of the component that runs. Theorems: slots are counted, pages are accounted for, `PressureIsFair`
  (admission in turn, admission of pages within the capacity, pinned pages stay), the types of both.
* `PythonApiProofs`. `ApiInv` has one part per component. *Options*: an object no setter was called on holds
  checked characters (`OptionsInv`). *Namespace*: with the types, which say that no context, list or held schema
  dangles, what a step may do to the names follows action by action. *Shipping*: with the types, `ShippedAsAllowed` is inductive: that a strict session asked for is the
  one that decodes follows from the slots holding what their thread installed. *Functions*: an entry that
  a maker made is a function that can run as its kind (`RegistryFit`), which holds of handles (`HandleSet`) and of
  what a look-up returns.
  *Windows*: the ranges of the peers partition the rows (lemma `PeersPartition`), the bounded operator has answered
  exactly the rows whose range has arrived (`RangesInv`), the others answer at the end (`WholeInv`).
  *Publication*: a readable manifest is complete because nobody else writes while a publisher does (`Exclusive`;
  locally because `mkdir` succeeds for one, `Locked`, and on S3 because an overlap is recorded), no
  manifest can be read before (`Hidden`), and what has been written of the plan is there (`Written`); a plan
  names each path once and ends with a manifest that lists the rest (`PlansInv`); what a failed delete leaves
  behind is no manifest whose write ended. *Build*: a command that
  works on a directory has its own request on record (`RecordInv`); an undisturbed command reads the source
  it hashed, so that embedding and index are of the recorded source although several commands made them
  (`SourceInv`); a request that was refused without a record stays refused, because the leftover part file stays
  (`RefusedInv`); a name without an index is one that a running or a stopped build registered
  (`WarehouseInv`). Theorems: `ShippedAsAllowed`, `PublishedAsRequested`, `EvaluatedAsDeclared`, `NothingLost`, the
  readers' characters, and the types of seven components.
* `ClientCallsProofs`. `CallsInv` has one part per component.
  *Streams*: the parts of a result are numbered as the encoder writes them, 2f and 2f + 1 for frame f.
  While the consumer reads, the parts in the decoder's buffer, in the chunk, on the wire and in
  the encoder follow each other without a gap from some part a up to the edge of what was encoded
  (`InFlight`), and the batches delivered are those that end before a (`Decoded`). A cut
  of the wire into chunks anywhere keeps the numbers (`FollowParts`, `CutFollows`); one push of the decoder
  stops at the end of the next batch or consumes everything (`DecodeIs`). A body that ended has a at its very end,
  so that nothing is missing (`FinishedIsWhole`). `EmbeddedInv`, `ServerInv` and `PointInv` say what
  each task can rely on while the others close, break or cancel.
  *Blocking session*: what the closing thread has handed to the loop decides the state of loop, session and
  transport, also after a close that raised (`CloserInv`).
  *Registry*: registrations are numbered as they begin (`IdInv`). Of a settled name (no failed rollback, no raced
  deregistration) at most one registration is past its creation, and session and catalog differ only while it, or a deregistration, stands
  between the two (`NameOk`). A listing's tokens grow, and while nothing changes it holds the first names
  in order (`ListOk`); that a finite set of names has an order is proved by removing its least element
  (`OrderExists`).
  *Index*: a caller in the process that submitted and has not seen the index follows a build that did not publish,
  and one that found no record knows how many builds there were (`CallIn` for each call in `WaitersInv`). It is kept
  because a build that had not published stays on record while the index is not there (`Steady`). The calls
  that may still begin a build, and the build that still owes a publication (`Owes`), are counted against
  the bounds (`CountInv`).
  Theorems: types, `ResultsWhole`, `AnswersHold`, `NothingReplaced`.

The proofs changed the models in four places. `UserFunctions` and `WindowRuns` had `CASE` expressions
whose guards overlapped, for which TLC takes the first arm and the logic none in particular; the guards are now
disjoint. `AllAnswered` of `WindowRuns` names the guards of the calls that are due instead of using
`ENABLED`. The order of a listing is `InOrder`, an enumeration by its property. The compositions became
modules with constants of their own.

Only model-checked:

* liveness (`EveryBuildEnds`, `BuildsAndWaitersFinish`, `SlotReleased`, `CallsEnd`, `WaitsEnd`): fairness
  and `ENABLED` are out of the prover's reach;
* `CallsUnderstood`, and of `MeansWhatIsWritten` what `ExprBuilders` and `LazyFrames` state: comparisons
  of operators over enumerated inputs, which TLC evaluates one by one (`CheckedCharacters`, the part of
  `SessionOptions`, is proved);
* the type invariants of `ExprBuilders`, `LazyFrames`, `GuardedWorkers`, `RestContract` and `WireRoutes`, and with
  them `TypeOK` of `PythonApi` and of `ServiceRuntime` as a whole.

## 7. Where code and documents differ

Four disagreements have a run that shows them (section 3). The others were met while translating the
code; the models follow the code, and the properties of the component modules (named below) are
stated so that they hold with them.

Client and server:

* A collect that is running while the session is closed ends normally with the batches received so far
  (`py/facade.py:120`); `docs/rfcs/20260815-unified-embedded-client-server-api.md:720` promises an
  error for a truncated stream. `EndMeansComplete` therefore speaks of sessions nobody closes.
* Two threads that close a blocking session at once: the second stops the loop under the first and returns
  with the transport open (`py/facade.py:357`, RFC line 120). The run has one closer. A close of a stream or of
  the transport that raises leaves the transport open (`py/facade.py:116-123`); `CloseReleases` excepts it. A call
  in flight when the loop is stopped never returns (`py/facade.py:546`); `CallsReturn` excepts it.
* A consumer that breaks off its loop without `aclose` keeps its admission slot until
  the session is closed (`py/facade.py:35`, `:75`); `SlotReleased` does not speak of a stream that nobody closed.
* `deregister_table` removes a definition and then whatever provider has the name by then
  (`py/session.py:163`): an overlapping registration keeps its definition and loses its provider. A
  registration whose rollback fails leaves its definition (`rust/parqdb-local/src/session/source.rs:233`, `:240`).
  `SettledNamesAgree` and `FailedLeavesNothing` except the names of either (`unsettled`).
* A page token is an offset into a list that is read again (`py/server/app.py:180`): a table that was
  registered all the time can be left out of `list_tables()` (RFC line 445). `ListingSound` says what
  a listing does contain. Deregistering a name that is not registered is silent when embedded and a
  `ValueError` from the remote client.
* A remote call with a wait timeout that is not positive raises after the build was accepted
  (`py/transport/http.py:246`); embedded, before (RFC line 739). `RefusedEmbedded` is about the latter.
* A wait in the process discards the status it reads last (`local/session/build.rs:281-287`) and returns normally
  whatever it says: when the build it followed had published and was dropped since, and when it found no build
  and one was accepted after it looked. `OkMeansReady` names these two.
* The document allows "" and 1.0 where the decoders refuse them (`py/transport/models.py:436`, RFC line 703).
  A `ValueError` of the embedded service is an `InvalidArgumentError`, a `RuntimeError`, over HTTP
  (`py/transport/errors.py:42`, RFC line 711). The server's table has an entry for `TypeError` that no service
  call with decoded arguments raises.
* A name with a percent escape, or with `/index/` inside, is refused by the server the client
  sent it to: the path is decoded twice (`py/transport/models.py:62`, RFC lines 373-378).
  `PlainNamesReach` excludes these names, and `PerformsWhatWasAsked` shows that they are refused and never
  misdirected. `describe` sends the name as dotted text too (`py/transport/http.py:146`), so that a name
  which needs quotes in SQL is refused there; `PlainNamesReach` excepts it.

Publication (`py/publish.py`):

* Two publishers to one S3 prefix both pass the check that it is free; the one that fails deletes what the
  other's manifest lists (line 720; `spec/publication-manifest.md:13-16`). The source is hashed before
  it is copied (line 709; manifest lines 36-37). `ManifestComplete` speaks of publications that did not
  overlap, and allows the source another version than the one hashed.
* A write that raised may have stored its object, and a delete that fails is passed over (lines 711-716): a
  manifest can be left whose files the clean-up (lines 719-724) removes. `ManifestComplete` speaks of manifests
  whose write ended.
* A build stopped between registering the source (line 490) and the manifest of the index is refused with
  `TableAlreadyExists` in every later run, although the docstring at line 528 calls it resumable.
  `TakenAfterHalt` says that no other stop has this effect.
* A build killed between writing and renaming `build-state.json.part` leaves a directory that is refused
  from then on (line 541; docstring at 528). `ResumedOnceRecorded` begins at the rename.

DataFusion API (`py/datafusion/`):

* `with_*` methods say they return a new object and change their own (`context.py:172`, `:167`); the setters of
  `CsvReadOptions` do not check what its constructor checks (`options.py:134`, `:70`).
* `register_catalog_provider_list` passes a bound method for a `CatalogList` (`context.py:903`); the declared
  `deregister_table(name, cascade)` is called with the name alone (`catalog.py:361`).
* `to_bytes()` does not read the sender context (`expr.py:535`; `ipc.py:75-77`).
* Negative subscripts and open slices do not follow Python
  (`expr.py:727`, `:709`); window bounds below 0 pass unless units and type are the ones the cast checks
  (`expr.py:1581`, `:1572`).
* `AggregateUDF(...)` and `WindowUDF(...)` make handles without the check of `udaf` and `udwf`
  (`user_defined.py:430`, `:880`, `:639`, `:1039`); `RegisteredCanRun` speaks of what a maker checked.
* A Python schema may replace a provider without a word (`catalog.py:352-359`), and so does `CREATE OR REPLACE`
  (`context.py:664`); `NamesKeep` speaks of schemas in memory and of other statements.
* `tail` counts when it is called (`dataframe.py:957`, `:952`); `select_exprs` returns the engine's frame
  (`:524`); `write_parquet` with `ParquetWriterOptions` drops `write_options` (`:1561`); a compression
  level without a codec gives `zstd(3)(5)` (`:273`). The legacy forms of `join` override `left_on` and
  `right_on` without a word.
* A decorated function cannot be registered (`user_defined.py:327`, `:257`); a decorator with
  keyword arguments raises `IndexError` (`:331`, `:236`); functions registered by a table function's
  callback are lost, tables are not (`:1155`); `ranks_in_partition` is half-open ranges, not the pairs
  of the documentation (`:840`).

## 8. Not modelled

* Numeric code: k-means, kernels, LVQ, centroid navigation, the IVF builder; recall is statistical and
  floats are out of TLC's reach.
* DataFusion planning and execution, parsing and validation of metadata formats, storage and direct I/O,
  the Iceberg adapter, vendored code, benchmarks, tools: no state of their own that a sequence of steps could
  break, or a library's.
* Of the data frames and expressions: the operators, `sort`, `aggregate`, `repartition`, `alias`, `transform`,
  `union_by_name`, `distinct_on` and the like, which hand their arguments to the engine unchanged; of functions,
  planning and calling of scalar and aggregate functions.
* The function wrappers of `py/datafusion/functions/` (one call each), HTML display
  (`dataframe_formatter.py`), configuration read once at start.
* `Accumulator` (`user_defined.py:357-392`) is an abstract class: its calls are the engine's, its bodies
  the user's. The row of the evaluator table with ranks and bounded execution but no frame is decided by DataFusion's
  bounded window operator and left out of `WindowRuns`.
* The bounded async cache and the LRU of metadata documents, which only save loads of what does not change, and
  the browser reader (read-only).
* flock gives writers no priority (`local/coordination.rs:58`): a stream of readers may keep a
  publication waiting; the finite instances end it. Two publish commands on one work directory
  (`py/publish.py:412`) delete each other's part files; nothing locks it and nothing says it may be shared.

`components` in `PROJECT.json` gives each part's reason, `hazards` the two hazards that no property covers (builds
longer than the retention period; a schema object held across the replacement of its catalog) and, in notes, the
cases that a property excepts.

## 9. Plan

The plan was to model first what processes share and can lose (leases, claims, catalog, collector), then what
a serving process and its clients do, then the Python API, and to prove each component's properties once TLC
agreed. That is done: every safety invariant and action property of the runs that relates several steps is a
theorem, but for the comparisons of operators named above. What would be worth adding:

1. An abstract `IndexCatalog` (what a client sees: names, snapshots, retention) implemented by
   `IndexLifecycle`; the invariant of `IndexLifecycleProofs` has what its refinement needs.
2. `GuardedWorkers`: exclusion of the guarded sections as a theorem; its liveness stays with TLC.
3. The bounded async cache (pending loads, cancellation, eviction), and top-k selection and offsets as
   operators against reference definitions.
