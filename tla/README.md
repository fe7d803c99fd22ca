# Synapse Hyperplane in TLA+

Synapse Hyperplane is a read engine beside a Solana validator: it scans the
validator's account files, follows its Geyser stream, keeps secondary indexes and
caches, and answers account queries. This directory holds TLA+ modules of its
core, the TLC configurations that check them, and TLAPS proofs of what holds for
every size of the system. Everything is translated from the Rust sources under
`src/crates/`; `PROJECT.json` gives the lines behind each definition.

To check a run: `tlc -config <run>.cfg <MCmodule>`; to check the proofs of a module:
`tlapm <module>.tla`.

## 1. The system

```
 validator --account files--> base scanner --> locator, dictionary      (BaseScan; Merkle)
     |
   Geyser callbacks --> ring buffer (shared memory)                      (RingBuffer)
                           |            |
                           |            +--> sidecar's loop --> slot reconciler (Runtime, SlotReconciler)
                           +--> delta consumer --> segments --> compactor (DeltaPlane)
 index manager --> six indexes <-- query planner, pages                  (IndexFabric, QueryPlanner)
 responses --> L1 cache, DragonflyDB; materialized queries               (ResponseCache, InvalidationTracker)
 LSM bitmap <-- hot and cold tiers; tiered dictionary                    (LsmBitmap, IdSet, HotColdIndex,
                                                                          TieredDictionary)
 query results in memory and on disk; shared memory; NUMA storage        (QueryResultCache, SharedMemory, NumaFabric)
 adaptive index, memcmp accelerator, bitmap routines                     (AdaptiveIndex, MemcmpAccelerator,
                                                                          BitmapEngines)
 HTTP --> RPC server, rate limiter, methods                              (RpcServer)
 watermarks, roots, slot contexts                                        (SlotTrackers)
```

| Component | State | Operations | Talks to | What is hard |
|---|---|---|---|---|
| Geyser bridge, ring buffer (`geyser-bridge`) | header with `write_pos`, entries in a mapped file, each reader's `read_pos` | create, write, close; open, read_next | validator threads write under a *shared* lock; consumers map the file in other processes | unsynchronised copies, restart truncates the file under a mapped reader, a file that only fills up |
| Delta plane (`delta-plane`) | open segment and its files, pending updates, segment map, statistics | start, stop, process_updates, flush, compact | re-reads the ring from its start for every batch | stop() in the middle of a batch, a file truncated and replayed, errors between two writes, compaction over a snapshot |
| Slot reconciler (`slot-reconciler`) | each slot twice: an atomic and a locked record | update_processed, update_confirmed, update_finalized, handle_rollback | called by the sidecar's loop and anyone who holds the Arc | atomics stored outside the lock, rollback against update |
| Index manager and indexes (`synapse-hyperplane/src/index_manager.rs`, `index-fabric/src/*_index.rs`) | per index: bitmaps by key, dictionary, reverse map, counters, each behind one lock | update_account, remove_account, lookups | called with account views; read by the planner | one lock per index, so calls interleave between indexes; accounts that move |
| Query planner, cost model, pagination (`query-orchestrator`) | statistics behind a lock; cursors held by clients | plan, execute (two executors), refresh_statistics, paginate | reads the indexes one lock at a time | updates between lookups, stale statistics, a read lock taken twice, pages over a changing set |
| LSM bitmap (`index-fabric/src/lsm_bitmap.rs`) | base, deltas, counter, flag | insert, remove, contains, query, compact | background threads | test-then-set flag, three separate critical sections of a compaction |
| Response caches (`cache-plane`) | L1 map with ages, DragonflyDB entries with TTL, connection | get, set, invalidate, clear, close | filled by readers, invalidated by updaters | a fill that started before a change and ends after it; a failing server |
| Invalidation tracker (`cache-plane/src/invalidation.rs`) | queries to pubkeys, pubkeys to queries, results | register, invalidate, cache, clear | as above | three locks taken one after the other |
| Base scanner, locator, dictionary (`bin/base-scanner.rs`, `account-file-mapper`, `base-locator`) | directory listing, mappings, two redb tables, an id cache | list, scan in parallel, insert batches | validator writes and removes files meanwhile | crashes between the two databases, repeated runs, ids after a restart, dropped errors |
| Sidecar runtime (`synapse-hyperplane/src/runtime.rs`, `bin/sidecar.rs`) | the running flag, its threads, counters | start, stop, the consumer's loop, the joins | reads the ring, calls the reconciler it also hands out | a shutdown behind a lock or a ring that never opens |
| RPC server (`rpc-read-provider`) | a window of times per client, a request counter | route, limit, parse, answer | one task per connection; the accounts behind it are not connected | a limiter between its resets, requests that wait for their body |
| Query result cache (`index-fabric/src/query_cache.rs`) | two maps in memory, files and their metadata | insert, get with promotion | files outlive the process | three locks per call, files written before their lock, TTLs that restart |
| Hot and cold index, tiered dictionary | per program three LSM bitmaps and metadata; three maps | insert, access, promote, demote, update_slot | a manager hands the indexes out | look-up and creation under two locks, moves between levels |
| Adaptive index, memcmp accelerator | three stores and the one in use; accounts by bytes at offsets | insert, query, migrate; insert, remove, query | indexes of the planner to be | insertions across a migration, removal with other data |
| Shared memory, NUMA storage | files, mappings and names; pools and storage per node | create, open, write, remove; acquire, release, write | regions are shared by threads and processes | truncation under a mapping, double creation, growth |
| Slot trackers, Merkle proofs, bitmap routines | atomics; none | update, advance, read; pure functions | - | compare-and-exchange, torn reads; odd levels, tails of unequal slices |
| Delta-plane process, RocksDB backend, CLI, control plane | - | - | - | stubs, glue or unused, see section 7 |

What makes each part correct is stated as properties in its module and listed by
run in section 3; `PROJECT.json` lists the hazards at their lines.

## 2. Modules and how they follow the code

Every action is a critical section, an atomic access or one step of a thread that
others can interrupt. Variables called *history* in their declarations record what
happened for the properties to speak about; no guard reads them, but for bounds. Definitions
whose comment says "Plausible bug" or "Mutant" are altered copies used
to confirm that a property can fail; no specification uses them.

**LsmBitmap** (with **IdSet**, the abstract set of ids). `InsertDelta`,
`ShouldCompact`, `ReadFlag` and `Trigger` are insert() in its critical sections;
`CloneBase`, `MergeDeltas`, `SwapBase`, `ResetCounter` and `ClearFlag` are a
compaction, in the background or inside compact(); `Remove`; `ContainsDeltas` and
`ContainsBase` are the two halves of contains(). Roaring bitmaps are sets.

**RingBuffer**. The memory behind the header is a row of cells: an entry has a cell
for its size word, one for the rest of its header and one per unit of data, copied
in any order (`CopyCell`), since nothing orders those stores before `Publish` releases
`write_pos`. A word where no entry starts reads as *any* size (`SizesAt`). `Create`
is the producer's restart: the file is truncated while the readers' mappings and
positions survive. Streaming consumers (the sidecar) keep their reader, `Pollers` (the delta
consumer) open a new one per batch. `UseView` is where a caller reads the data the
view points to, later than read_next() returned it.

**DeltaPlane**. `OpenRing`, `AddUpdate`, `WriteToSegment`, `EndOfRing`, `MaybeFlush`
are process_updates(); `BatchFails` and `FlushFails` its error exits; `Stop` comes
from another thread at any of these points. Segment files are named by their first slot,
and creating one truncates a file of that name. `CollectSegments` and `RemoveSegments`
are compact(), which merges nothing. The ring is the sequence of published updates:
RingBuffer shows a consumer gets exactly that.

**SlotReconciler**. `StoreAtomic` is the store before the lock, `UpdateLocked`,
`FinalizeLocked`, `StoreRoot` the critical section of an update; `RollbackRoot`,
`LoadFinalized`, `StoreFinalized` that of a rollback.

**IndexFabric**. A call of update_account() or remove_account() is the list of
index entries it has left to make; `IndexStep` makes the next one under that index's
lock. An account's content is what the indexes read: its owner, its length, its first
8 and 32 bytes and bytes 32 to 63. Dictionaries, bitmaps and reverse maps are functions.

**QueryPlanner** extends IndexFabric, so updates run between the lookups of one
query. `PlanOuter` and `PlanInner` are the two acquisitions of the statistics' read lock,
`RefreshRequest` sets a writer's bit that no later reader passes, as parking_lot
does; `ExecutionOrder` and `PlainOrder` are the stable sort by cardinality and the fixed order of the filter types; `Lookup` takes one index lock; `Respond` paginates and ends the query or page.

**Jobs** is what the modules below share: threads with at most one call in progress, a record of
the method, the step it is at and its local variables. **Maps** has the operators on partial
functions, **AccountVersions** the version numbers that accounts change by.

**InvalidationTracker**. `Materialize`, `RegisterQuery`, `RegisterPubkeys`,
`CacheMaterializedResult` are one thread's materialization; `ChangeAffecting`,
`GetAffectedQueriesBatch`, `InvalidateForPubkeys` an account change; `ClearQueries`,
`ClearPubkeys`, `ClearCache` are clear(). A result is the versions it was read from.
Reading the accounts and calling the tracker in this order is how the API is meant
to be used; no code in the repository calls it yet.

**ResponseCache**. `Fill`, `EvictStaleEntries`, `Insert` fill L1; `Fill`, `GetConnection`, `Set` fill DragonflyDB;
`ChangeAccount`, `CollectKeys`, `RemoveKey`, `ScanKeys`, `DelKeys` invalidate. The DragonflyDB server
is external: it fails, comes back and expires entries.

**BaseScan**. `Discover`, `ScanFile` (one per rayon task, in any order),
`InsertLocations`, `InsertPubkeys`, with `Crash` between any two, `WriteFile` and `RemoveFile` by the
validator, and database errors that the code drops. `serialize_location` and
`deserialize_location` are modelled field by field. The redb tables are external: a
transaction commits whole or not at all.

**Runtime** extends SlotReconciler. `InitializeQueryPlanner`, `StartRuntime`, `CtrlC`, `Stop` and `Join`
are main(); `OpenRing`, `TestRunning`, `ReadUpdate`, `UpdateReturns`, `CountUpdate`, `ReadNothing`
and `WaitForRing` the consumer's loop, whose update_processed() is the reconciler's `StoreAtomic`
and `UpdateLocked`, so that it waits for the same lock as everybody else. The ring is the
sequence of slots a consumer gets.

**QueryResultCache**. insert() is `InsertResult`, `InsertL1`, `InsertL2`, `CreateFile`, `WriteFile` or `FileFails`,
`InsertMetadata`; get() is `GetResult`, `GetL1`, `GetL2`, `GetL3` and the promotions. A result is the
number of the insertion; `CreateFile` truncates, so a file can be read torn. `Restart` keeps the files and nothing else.

**TieredDictionary**. `DictInsert`; `DictGet`, `GetHot`, `GetWarm`, `PromoteEntry`, `GetCold`; `DemoteHot`, `DemoteIntoWarm`,
`DemoteWarm`, `DemoteIntoCold`, each under the lock of one level.

**HotColdIndex**. `FindIndex`, `CreateIndex`, `RegisterIndex` are get_or_create_index(); `ReadSlot`, `InsertHot`, `SaveMetadata`
insertion, access and promotion; `UpdateSlot`, `LockIndexes`, `SetCurrentSlot` update_slot(). A tier is the
set that LsmBitmap is shown to implement for insertions.

**AdaptiveIndex**. `AdaptiveInsert`, `StoreEntry`, `CountInsert` are insert(), which reads the type before it
takes the store's lock; `MigrateTo` or `Adapt`, `ClearTarget`, `SwitchType` a migration. How long queries take is `QueryTime`.

**MemcmpAccelerator**. `ConfigureProgram`, `AccelInsert`, `AccelRemove`, one at a time as `&mut self` demands;
account data is its length and the bytes at each offset. The predefined configurations are among the
ones it is given, and the entry count of an offset is kept as the code does, which counts calls.

**SharedMemory**. Files are inodes of cells of 16 bytes, a path points to one, a region maps one and has its own
copy of the header, 5 cells long where data begins after 4. `GetRegion`, `OpenRegion`, `CreateRegion`, `InsertRegion` are
get_or_create_region(); `RemoveRegions` is remove_region() and cleanup().

**RpcServer**. `Post` handles a request up to the await of its body, limiter included; `Body` from there to
the response; `Plain` the other requests. `Allow` is the limiter's window, in ticks of a clock; its
timestamps are a set in which a request has its number beside its time, so that two of one instant count twice.

**SlotTrackers**. One action per atomic access of WatermarkTracker, RootTracker and AtomicSlotTracker.

**Merkle** and **BitmapEngines** are functions, compared with their definitions over all lists and slices up
to a length: the state is the input, which grows step by step. Hashes are injective terms. BitmapEngines
also has the cost estimator, whose numbers count ids of a bitmap, and the bitmap store, with `StoreBitmap` and
`RemoveBitmap` and the counters they leave.

**NumaFabric**. `CallAcquire`, `CallRelease`, `NumaCall` choose the node, `AcquireBuffer`, `ReleaseBuffer`,
`WriteStorage` work under the node's lock.

The `MC*` modules give the constants values; `*Proofs` modules hold theorems, QueryPlannerProofs those
of the index fabric too, BaseLayerProofs those of BaseScan and Merkle, FabricPartsProofs those of the parts of
`index-fabric` that stand by themselves, CachePlaneProofs those of the caches and the limiter. MCParts, MCCaches and MCSidecar
put parts that share no state into one run: a variable `part`, chosen at the start, says which of them a behaviour
exercises, so that no product of independent state spaces is built.

## 3. Runs

All bounds are constants named in the module and set in the `.cfg`, or defined in the MC module.
Deadlock is checked except where a bounded number of calls ends the behaviour (`caches`, `parts`,
`shm_layout`, `gpa`), where main() returns (`sidecar`), or where the deadlock is the subject (`gpa_plans`).

| Run | Question | Result |
|---|---|---|
| `lsm_single` | Does a bitmap with one inserting thread, background compactions, removals and a reader lose ids? | `NoLostInsert`, `DrainedReachesBase` hold, it implements IdSet (`AbstractSpec`), and contains() misses an id only while a compaction holds it (`MissOnlyInWindow`) |
| `lsm_concurrent_inserts` | The same with two inserting threads | **violated** `NoLostInsert` |
| `ring_restart` | Are entries delivered whole and in order by one producer that may restart, to a streaming and a polling consumer? | `DeliveredInOrder`, `CorruptedOnlyIfStale` hold; `ReadersCatchUp` under fairness |
| `ring_two_writers` | The same with two Geyser callbacks at once | **violated** `DeliveredInOrder` |
| `delta_plane` | Is what a batch read kept, in the reducer and on disk, with stop(), failures and compactions at any point? | `BatchKept`, `ClosedSegmentsFinal` hold; `EventuallyRead` under fairness |
| `sidecar` | Do the two copies of the slots agree, does a rollback last, and does the sidecar shut down? | `FinalizedWithinRoot`, `ViewsAgree` hold; `CallsReturn`, `ShutdownCompletes` under fairness |
| `parts` | Does each part that stands by itself keep its promise to two threads? | all hold, see below |
| `shm_layout` | Is the header of a shared memory region apart from its data? | **violated** `HeaderApartFromData` |
| `gpa` | Are queries right about accounts nobody touched, and do pages show each of them once? | `QueryComplete`, `QuerySound`, `PagesExact` hold |
| `gpa_plans` | Does a query that plans get its plan while statistics are refreshed? | **violated** `PlansReturn` (deadlock) |
| `caches` | Can a cached response or a materialized result stay stale? | Only in the windows named by `L1FreshUnlessOverlapped`, `L2FreshUnlessLost`, `FreshUnlessOverlapped`; never for ever in DragonflyDB (`L2StaleExpires`); what is cached is tracked (`CachedIsTracked`) |
| `base_scan` | Is the locator right after a scan with crashes, repeated runs and dropped errors? | `NewestLocated`, `LocatedReadsBack`, `IdsAgree` hold |

The properties of `parts`:

| Part | Property | What it says |
|---|---|---|
| six indexes | `IdsIdentify`, `SettledIsListed`, `ListedWhereItWas` | ids identify accounts; an account no call is at work on is listed under its keys, and otherwise only under keys it had |
| query result cache | `LevelsHoldLatest`, `ExpiredStaysExpired` | every level that knows a key holds the last result, whole, unless calls on the key overlapped; nothing but a restart prolongs a TTL |
| tiered dictionary | `FounderKept` | the first account of a key survives every move |
| hot and cold index | `InsertedIsListed` | an inserted account is found through the manager, in the tier its metadata names, unless the index was created twice |
| adaptive index | `AnswersSinceSwitch` | a query finds what was inserted since the switch and nothing a migration should have cleared |
| memcmp accelerator | `AcceleratorExact` | an account is found by its bytes at every tracked offset it reaches, and, properly removed, by no others; the count of an offset is right while accounts are filed once and removed once |
| shared memory | `RegisteredOpens` | a registered region can be opened, unless two calls created it at once |
| RPC server | `RateBounded` | no more than twice the limit within a second, and no refusal to a client below it |
| slot trackers | `TrackersHold` | no update of the watermark is lost, contexts are torn and root advances lost only by overlap, visibility follows commitments |
| Merkle | `ProofsVerify` | a generated proof leads to the root for lists of any length; verify_proof() accepts it for the first leaf |
| bitmap routines | `EnginesAgree` | each routine computes the set operation it is named for, on the common length where it stops there; the store accounts for what it is given |
| NUMA | `NumaHolds` | buffers have one owner, pools their limit, written data stays while storage grows; cores of the second node are taken for such |

### The four disagreements

* `lsm_concurrent_inserts`: should_compact() reads `compaction_in_progress` and
  trigger_compaction_async() stores it later, unconditionally (`lsm_bitmap.rs:171`). Two
  inserters start two compactions over the same base; the second swap discards what the
  first drained. The integration test inserts from several threads and expects all ids.
* `ring_two_writers`: update_account() holds `ring_buffer.read()`, a shared lock
  (`geyser-bridge/src/lib.rs:84`), and write() reserves nothing before it copies: two
  callbacks write over each other. The ring is documented as single-producer.
* `gpa_plans`: create_optimized_plan() holds `stats.read()` while estimate_cardinality()
  takes it again (`cost_model.rs:226`, `179`). parking_lot lets no reader past a waiting writer,
  so a refresh in between blocks both for ever.
* `shm_layout`: SharedMemHeader is documented as 64 bytes and data begins at offset 64, but its two `u32` and nine
  `u64` take 80 (`shared_memory.rs:17`, `45`): every update_header() overwrites the first 16 bytes of data.

### Bounds, and why they are enough

* LSM: two ids, so that one can be drained while the other is inserted; two jobs;
  `max_deltas` 2, `max_delta_size` 1, `CounterLimit` 3 and `MaxCounter` 4 make all three triggers of
  should_compact() fire, and compactions start again after one has ended. `Callers` is empty in both runs: compact()
  ignores the flag, and beside a background compaction it is the situation of the violated run.
* Ring: an update without data and one with a cell of it, a `Capacity` of 4 cells
  (6 with two writers), so that one or two entries fit and the next is refused; one restart
  (`MaxEpoch` 2), with a reader at every possible position when it happens.
* Delta plane: two accounts and two slots, one account twice in one slot; a ring of 2 entries, which
  every batch replays; `flush_batch_size` 2; one failing batch or flush; one compaction. `MaxTotal`
  saturates a statistic.
* Sidecar: two slots above the initial root 0, so that updates and rollbacks go both ways; two threads, one rollback, one published
  update; a ring that exists, never comes or comes too late. The same run lets both threads use the reconciler
  in any way, without a sidecar.
* Indexes: two accounts, two callers, three calls, over contents that differ in
  owner, length and leading bytes and include a token account; symmetric in accounts and callers,
  which no definition tells apart (the dictionaries hand out ids by arrival).
* Queries: one query or walk through pages of 1, three updates or removals in between, one refresh;
  the program and data-size indexes. Symmetric in the accounts: pages go by dictionary id, which is handed out by arrival.
* Caches: two queries over two accounts, or one account at two commitments with an L1 of 1 entry; two threads, four calls,
  one server failure.
* Parts: two threads, which together with the accounts are symmetric. `JobsOf` in MCParts bounds the calls: 3 of the query result
  cache (two keys, levels of 1 and 2 entries, one failing write, a TTL of a second and a clock that outlives it),
  6 of the dictionary (two keys, a second level of 1), 4 of the tiers (an index is created, created twice, filled and told of a slot),
  4 of the adaptive index (keys of which two are equal in 32 bits, thresholds of 1 and 2 entries so that every
  migration occurs), 6 of the shared memory, 5 of the RPC server (a limit of 2, a second of two ticks, so that a burst straddles a reset), 4 of
  the trackers, 5 of the NUMA storage (a pool of 1, a write at the end and one beyond). Merkle lists have up to 7 leaves, with every pattern
  of odd levels up to three; slices up to 2 words of 3 bits, of equal and different lengths;
  the store has two keys and counts up to 8 bytes, enough to replace a bitmap and to remove what replaced it. The accelerator takes 6 calls.
* Base scan: two versions of one file id and a later file, with padded, short, torn and
  end-marked records; two processes; one dropped database error; `MaxIds` 3.

### Fairness

Only loops and calls that the code itself carries on with are fair: the consumers' loops
(ring, delta, sidecar), the sidecar's helper threads, main() once the signal has come, each begun compaction, each begun call of the
response caches and the reconciler, and the clock that expires DragonflyDB entries (`Tick`). All of it is weak fairness, except the reconciler's
`GoOn` and the sidecar's `UpdateReturns`: a thread that waits for the lock while others take it again and again needs strong fairness,
which parking_lot gives by handing a contended lock over. The signal, producers, stop(), failures,
compactions of the delta plane and new calls are never assumed to happen. `gpa_plans` has
weak fairness of every step of planning, answering and refreshing, so that its counterexample
is a deadlock and no idling.

## 4. Proofs

| Module | Theorem | Statement |
|---|---|---|
| RingBufferProofs | RingTypeCorrect | type invariant; positions stay within the capacity |
| | RingDelivery | `DeliveredInOrder`, given `SingleProducer` |
| | RingNeverCorrupted | `CorruptedOnlyIfStale`, given `SingleProducer` |
| SlotReconcilerProofs | SlotTypeCorrect | type invariant |
| | SlotSafety | `RootMirrored` and `FinalizedWithinRoot`, any number of threads |
| | SlotViewsAgree | `ViewsAgree`, any number of threads |
| | TrackersSafe | `TrackersHold` of the watermark, root and context trackers |
| QueryPlannerProofs | FabricIds | `IdsIdentify`, any accounts, contents, callers |
| | FabricReverse | `ReverseIsListed`, likewise |
| | FabricSettled | `SettledIsListed` |
| | FabricListed | `ListedWhereItWas` |
| | QueriesComplete | `QueryComplete`, any statistics and any calls between the lookups |
| | QueriesSound | `QuerySound`, likewise |
| | WalksExact | `PagesExact`, any pages and any calls between them |
| DeltaPlaneProofs | DeltaTypeCorrect | type invariant |
| | DeltaSegments | `ClosedSegmentsFinal` |
| | DeltaBatches | `BatchKept` |
| CachePlaneProofs | TrackerFresh, TrackerReaches | `FreshUnlessOverlapped`, `CachedIsTracked` of the invalidation tracker |
| | L1Fresh, L2Fresh | `L1FreshUnlessOverlapped`, `L2FreshUnlessLost` of the response caches |
| | RateLimited | `RateBounded` of the RPC server's limiter |
| | TypeCorrect | type invariant of the LSM bitmap |
| | LsmSafety | its `OneCompaction` and `NoLostInsert`, given `SingleCompactor` |
| | LsmImplementsIdSet | it implements IdSet, given `SingleCompactor` |
| | LsmMisses | `MissOnlyInWindow`, given `SingleCompactor` |
| FabricPartsProofs | HotColdListed | `InsertedIsListed` of the hot and cold index |
| | DictFounder | `FounderKept` of the tiered dictionary |
| | AdaptiveAnswers | `AnswersSinceSwitch` of the adaptive index |
| | RegionsOpen | `RegisteredOpens` of the shared memory |
| | ResultsLatest, ResultsExpire | `LevelsHoldLatest`, `ExpiredStaysExpired` of the query result cache |
| | AcceleratorLists | `AcceleratorExact` of the memcmp accelerator |
| | NumaOwners | `NumaHolds` of the NUMA storage |
| BaseLayerProofs | ScanNewest | `NewestLocated`, any files, contents and order of the threads |
| | ScanReadsBack | `LocatedReadsBack`, likewise |
| | ScanIds | `IdsAgree`, any kills and repeated runs |
| | MerkleProofs | `ProofsVerify`, lists of any length |
| BitmapEnginesProofs | EnginesProved | `EnginesAgree`, words of any width, slices of any length, any calls of the store |

The theorems hold for any sets of threads, keys, accounts and ids, any capacities and any bounds on the number of
calls. Their assumptions are the `ASSUME`s of the modules and two hypotheses named where they
are used, which are exactly what the violated runs drop: `SingleCompactor` (one inserter, nobody calls
compact()), which `LsmMisses` needs too, and `SingleProducer` (one writer). The `ASSUME`s say that bounds are numbers and
that keys are of the kinds the code reads them as. `PlannerAssumption` says more: the program
index is enabled, without which the planner has nothing to start from; accounts are finitely many and `None` is none of them; a filter is on the data size, bytes or the discriminator,
as GpaFilter has no other; and the value for "no list yet" is no set of accounts.

The arguments:

* **LSM** (`LsmInv`). A running job keeps the flag set and an inserter past the flag is
  alone, hence one compaction at a time; while it runs, only remove() touches the base, so the
  base stays inside the clone and the swap loses nothing. The last part is what `NoLostInsert`
  lacks: without it a swap from an arbitrary clone would be allowed. For the refinement,
  `Contents` counts what a compaction carries, so its steps are stuttering steps of IdSet.
  `WindowInv` adds where an id is that a reader did not see in the deltas: in the base, or drained.
* **Ring** (`RingInv`). The published entries lie back to back from 0 to `write_pos` and are intact
  (`LogIntact`); the writer works right behind them and has stored the cells it no longer has to copy
  (`WriterAtEnd`); a reader of the current ring stands at the start of an entry and its limit is
  the end of one (`ReaderAligned`). Then the size word it reads is that entry's, the view
  is whole, and it is never told of corruption.
* **Slots** (`SlotInv`, `ViewsInv`). The lock has one holder, which is about to store the root or cut
  the finalized slot; a finalized slot beyond the root belongs to an update waiting for the
  lock or a rollback that has yet to look. Of a level that never raced at most one call is
  between its two stores, and it stored the atomic last.
* **Trackers** (`TrackersInv`). A failed exchange loads again, so the watermark never falls; an undisturbed advance
  is about to store what is due; a context is written field by field in one order, and what an
  undisturbed reader has loaded so far is its context's; a slot is confirmed and finalized at the distance behind the processed
  one that the commitments ask for (`InOrder`).
* **Indexes** (`FabricInv`, `EntryInv`). Ids are below the counter and distinct, so a removal takes nobody else out of
  the bitmap, which keeps the other accounts' reverse entries confirmed. One call at most works on
  an account that no two calls raced for, and with its latest content (`AloneInv`); each entry of that content is made or on the
  call's list (`DueInv`); calls and indexes hold only entries of contents the account had (`SeenInv`); and
  an account of one content leaves the reverse map only with a removal (`ReverseInv`).
* **Queries** (`PlannerInv`, on top of `EntryInv`). A sort only permutes the lookups. A steady account that matches is in the lists
  intersected so far, and the program's list is there or to come (`Collects`); whoever is in them was once listed under the key of every
  lookup made and not passed over (`Checked`). So neither the order nor the age of the statistics matters.
  For pages (`WalkInv`), ids never change: a walk has seen nothing beyond the id of its cursor, and everything it can count on up to it; a cursor that has
  gone sends it back to the start, where it can only see accounts again.
* **Delta plane** (`ClosedInv`, `BatchInv`, `ReducerInv`). The header of a file that is neither open nor broken counts its entries. What a
  batch at work has read is in the one segment it has open, since it truncates a file only before its first
  entry; between batches nothing is truncated.
* **Invalidation tracker** (`EverInv`, `FreshInv`). Nothing else concerns a query that is materialized undisturbed (`Alone`); its accounts
  are registered, but between the maps of clear() (`Covered`), and lead back to it, but between the two maps of register_query()
  (`Reached`); an older result has a call under way that will remove it (`FreshOrDue`).
* **Response caches** (`ResponseInv`). A fill that met no change holds the current version and runs beside no invalidation of its account; a
  stale entry of L1 is yet to be collected, or collected and to be removed; the keys an invalidation is about to delete in DragonflyDB
  are all of the account's.
* **Limiter** (`LimiterInv`). A window lasts a second and has the requests of the last second that came in it. A second within
  it holds the limit at most, and so does the last second before it: a second that straddles the reset holds twice the limit at most.
* **Query result cache** (`ResultInv`). While no insertion works on a key, every level and every entry on its way up
  is current; while one does, it is alone, and the levels it has been through are current.
* **Hot and cold index, dictionary, adaptive index, shared memory** (`HotColdInv`, `DictInv`, `AdaptiveInv`, `ShmInv`). Each says who is between
  two locks and what it carries: the one creator of an index or a region finds none registered; a founder is in a level or carried by one demotion;
  a store that a migration has emptied holds only what was stored since.
* **Accelerator** (`AccelInv`). The lists of an offset are those of the accounts filed, and the count is their number until an account is misused.
* **NUMA** (`NumaInv`). All buffers in use and in pools are different, and a call holds one or none; storage only grows; with a fixed node each
  call in progress has that node.

* **Base scan** (`ScanInv`). The listing is sorted by file_id and the batch is made in its order, so the last account of a pubkey
  in the batch comes from the last listed file that has it (`ListedAccounts`); build_base_locator() and insert_batch() both
  keep the last (`BuiltIsLast`, `LocatedIsBuilt`, hence `LocatorBuilt`). A mapping under a file_id that one scanned file has is
  never replaced (`MapsKept`), and a record the scan took lies where its location says (`TakenRecord`, `ReadsBack`). An id from
  the counter is the number of cached ids, in a batch and afterwards (`AssignedIsBuilt`, `DictBuilt`); a lost insert or commit is what
  can part the two, so all but the types is stated for `lost = 0`.
* **Merkle** (`MerkleProofs`, from `LeafHashes`). The way of an entry goes up by halves (`PlaceInLevel`) to the one entry of
  the top (`TopPlace`), and each step hashes it with its sibling on its own side (`EntryMade`, `EntrySibling`), so
  the proof leads back to the root (`RebuiltRoot`). verify_proof() puts every sibling on the right, which is right for the
  first leaf (`FirstAccepted`). What else it accepts is, hashes being injective, the leaf at the index, and every entry that its way
  passes on the right equals its left neighbour (`ClimbsBack`); followed down from the top, that gives an equal leaf
  before it (`AcceptedTwin`), since entries of different levels have different depths (`EntryDepth`).
* **Bitmap routines** (`SlicesProved`, `EnginesInv`). Positions of different words are apart (`PositionForm`), so the operations on slices
  are those on positions (`SliceOperations`) and sizes add word by word (`PositionsSize`). After k turns the
  loop of a search has listed the k lowest bits of the word (`AscendingSteps`), hence all of them in order (`FindAll`, `FindFirst`).
  What merge_sorted() has merged is ascending, below what is left of either list, and together with that the union
  of both (`MergeStepKeeps`); each turn moves on by one at least, so the turns suffice (`MergeSteps`, `Merged`). A quotient rounded up falls
  with its divisor and is 0 for 0 alone (`Quotient`, `Estimates`). The store's size is that of a set of bytes, each with its key and
  place: a replaced bitmap's are taken out of it and counted apart (`StoredCounted`), a removed one's were in it (`RemovedCounted`), so
  the subtraction never saturates.

What a loop computes is proved by induction over its steps. The library's induction theorems take an operator, which
the provers cannot instantiate; their place is taken by `LeastNumber`, a set of numbers that is not empty has a least
one (from the well-foundedness of `<`), by `UpTo` and `DownFrom`, which are induction with a set instead of a
predicate, and by `Recursion`, which gives the function that a loop's step defines. These lemmas are in BitmapEnginesProofs, which
BaseLayerProofs extends. Hence the loops of BaseScan, Merkle and BitmapEngines are functions over `0 .. n`.

`OneCompaction`, `RootMirrored` and `ReverseIsListed` are parts of the inductive invariants and stated in the proofs only.

Every safety invariant and action property of the passing runs is stated by a theorem. Only model-checked, and why:

* every liveness property (`DrainedReachesBase`, `ReadersCatchUp`, `EventuallyRead`, `CallsReturn`, `ShutdownCompletes`, `L2StaleExpires`): fairness is beyond the prover.

## 5. What the properties do not promise

Behaviour met while modelling that a reader of a property should know:

* contains() can miss an id during a compaction, and remove() leaves the id in the deltas, from
  which the next compaction brings it back (`lsm_bitmap.rs:87`); IdSet therefore speaks of insertions
  and of removals that reached the base.
* A streaming reader keeps its position when the producer restarts; it may be given a torn entry or
  an error. Only readers that opened the current ring are promised anything. The ring
  never wraps.
* The compactor merges nothing and counts each run twice (`compactor.rs:116`, `125`); segments called immutable are
  truncated and rewritten by the next batch that starts in the same slot; total_processed counts the
  whole ring again per batch; get_segments_for_range() looks at start slots only.
* update_processed() may lower the "highest" slot, and after overlapping updates of one level the
  atomic and the locked copy may differ for good: hence `raced` in `ViewsAgree`.
* An account that moves to another key stays in the old bitmap, and remove_account() takes it out of
  the last one only: hence `ListedWhereItWas` and the condition on `past` in `QuerySound`. A filter
  whose key no account ever had is ignored. total_accounts counts updates as new accounts.
* Pages of filtered queries come from a hash set and have no order; a cursor whose account is gone starts
  over; the last page, when full, is not reported as last.
* L1 serves entries past their TTL and can exceed max_entries; an entry filled across a change
  stays stale until evicted. A result cached across an invalidation stays, untracked.
* The dictionary starts again at id 0 in a new process, so ids are unique per process only.
  Locations are overwritten in scan order and is_newer_than() is not consulted. compute_batch_checksum() concatenates records without
  their lengths.
* verify_proof() hashes every sibling on the right (`checksum.rs:152`), so the proof of any leaf but the first is rejected, unless
  equal leaves hide it; test_merkle_proof asserts it for all eight.
* The sidecar says it waits for the ring to be created (`runtime.rs:288`) but never opens one that comes later. The planner it builds is dropped,
  so its workers execute nothing; its monitor looks for finished threads once; it logs an RPC endpoint and starts no server.
* The limiter, documented as a sliding window, lets up to twice the limit through within a second and keeps an entry per address for
  ever. `request_count` is never incremented, so `/metrics` reports 0; `max_concurrent` and `enable_cors` are ignored.
* A lookup of the query result cache that overlaps an insertion can put the older result above the newer one; after a restart a file of any age lives
  another hour. invalidate_by_slot() does nothing.
* A demotion of the tiered dictionary takes the first account of a key along and drops the others; the first level never evicts.
* Two callers can create an index of the hot and cold manager twice, and one then fills an index nobody finds. access() stores the slot before it
  computes the tier, so the tier is always Hot, and nothing moves to the warm or cold bitmaps.
* A migration of the adaptive index copies nothing: what was inserted before is no longer found. Its manager hands out a new index at every call.
* The accelerator leaves an account under its old bytes when it is filed again or removed with other data, and its entry count moves at every call, whether or not the account was listed; configure_program() is ignored for a program that has one.
* create() of a shared memory region truncates the file under regions that map it.
* advance_root() loads and stores, and loses advances that overlap; get_context() can mix two contexts, and what is visible can cease to be when slots go back.
* union_size() counts the common length only, unlike the union. plan_query() hands the cost estimator a bitmap with id 0 at most, so the estimate is at most 1 and should_stream never set.
* With one NUMA node, which detect_numa_config() reports up to 16 cpus, the local and interleaved policies index a second node and panic; with 32, it puts cores 8 to 15 on node 0 and core_to_node() on node 1.
* The bitmap store's size is that of the bitmaps it keeps and of all it has replaced (`StoreCounts`): a replacement is added and never subtracted.

## 6. Plan

The modules of section 2 cover what the repository runs and tests. What would add most next, in this order:

1. An abstract specification of the index fabric (a relation of accounts and keys) and of the caches
   (a register with a staleness window), the refinements, and their proofs.
2. HotColdIndex over LsmBitmap itself instead of the set it implements, once tiers move accounts.

## 7. Not modelled

* The RPC methods behind the checks of their parameters: they answer null. The delta-plane process waits for ctrl-c and starts nothing.
* The RocksDB backend, with which the scanner does not build; its copy of the locator and the old
  dictionary file, which nothing uses.
* RollbackHandler and CommitmentTracker, which keep a count and
  their last argument; the cache keys of program accounts and the batch invalidation of the L1 cache, which no one calls or
  which repeat modelled steps.
* Checksums (single calls of SHA-256), madvise hints and the AppendVec variant with a header.
* The control plane (empty modules), the command line, formats and wording of requests, metrics, logs and the terminal interface.
