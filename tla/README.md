# Topic0 in TLA+

Topic0 is a multi-chain EVM log indexer. Per chain it fetches the logs of the configured
contracts over RPC, stores them raw in Postgres together with a durable cursor, and enqueues
each stored range for decode workers, which turn raw logs into typed rows that a GraphQL API
serves. This directory holds TLA+ models of its parts, the TLC configurations that check them
and TLAPS proofs of the results that matter most. Paths below are relative to the repository
root; `PROJECT.json` maps every definition to the lines it models.

## The system and its parts

| Part | State | What is hard about it | Module |
|---|---|---|---|
| Work queue (`crates/db/.../queue_repo.rs`) and decode workers (`crates/services/src/worker.rs`) | table `work_queue` with `locked_at`, `lease_seq`; the lease in hand | concurrent pulls under READ COMMITTED, workers slower than their lease, crashes before the ack, processes with different decoders on one queue | `WorkQueue`, `Leasing` |
| Fetch/commit pipeline (`bins/indexer-cli/src/plan.rs`, `crates/services/src/ingestion.rs`) | planned, in-flight and committed ranges, `PrefixTracker`, cursor | ranges complete in any order; stop, error or crash at any point; commit and cursor update are two transactions | `Pipeline`, `RangePlan`, `RangePlanLoops`, `Checkpoint` |
| Live tip (`bins/indexer-cli/src/ingest.rs`, `tip.rs`) | `TipState`, `next` | a websocket that breaks, late and missing pushes, confirmations, reorgs of announced blocks | `TipLoop` |
| Reorg service and rollback (`crates/services/src/reorg.rs`, `crates/db/src/unit_of_work.rs`) | stored block hashes | races with the pipeline, backfills and decodes in flight | `Reorg` |
| RPC source (`crates/source`) | spans, batches, two token buckets | splitting, truncated pages, retries, concurrent fetches on one budget | `RpcSource` |
| Prices and ledger (`crates/pricing`) | units, micro-USD | rounding, quota | `Pricing` (used by `RpcSource`, `Commands`) |
| Commands, supervisor, shutdown (`bins/indexer-cli/src/commands.rs`, `supervisor.rs`, `worker.rs`, `shutdown.rs`) | tasks, tokens, worker pool, back-off | start and stop order, panics, the quota's Ok path | `Commands` |
| Migrator, decoding, ABI schemas (`crates/migrator`, `crates/services/src/decoding.rs`, `crates/abi-schema`, `crates/decoder`) | live tables, foreign key, typed rows | statement-by-statement migration, edited configurations, decodes that stop between two tables | `AbiSchema`, `Tables` |
| Query reader, cache, GraphQL field (`crates/db-query`, `crates/api`) | pages and counts with a TTL | page boundaries, stale entries, rows that come and go during a scan | `Query` |

How they meet: `ingest_loop` (`TipLoop`, under the supervisor of `Commands`) drives the pipeline
(`Pipeline`), whose fetches go through one rate-limited source (`RpcSource`); its writer commits
raw rows, blocks and the work item in one transaction, then moves the cursor. Workers pull the
items (`WorkQueue`) and write typed tables (`Tables`). A reorg probe compares and deletes what
the pipeline and the workers write: `Reorg` composes pipeline, backfill, rollback, queue and a
decode in flight on one set of tables. `Query` reads next to all of that.

## Modules and their correspondence to the code

* **`WorkQueue`.** `work_queue` is a function from row id to row; `pc`, `lease` are a worker's
  position in `run_once` and its `Lease`. `pull_any` is two steps, `PullLock` (the sub-select:
  snapshot and row lock) and `PullCommit`, because its lease is invisible to others until it
  commits. Every other statement is one action. Time is the action `LeaseExpires`.
* **`Leasing`.** What the queue promises: an item is granted to one worker at a time, only its holder
  finishes it, decoded if the holder has the decoder, and it is granted again only after its lease was
  found late. It has no rows, no `lease_seq` and no worker that acts on a lease it has lost. Under the
  mapping in `WorkQueue` a worker holds an item while its `lease_seq` is the row's.
* **`RangePlan`, `RangePlanLoops`.** Closed forms of `plan_ranges` and of the end of the contiguous
  prefix; the same functions as the code writes them, one action per loop iteration.
* **`Pipeline`.** `todo`/`held`/`chan`/`writing` follow a range from plan to commit; `frontier`,
  `waiting`, `best` are the `PrefixTracker`; `cursor`, `cursor_hash`, `stored` are durable, everything
  else is lost by `Abort`, which stands for a signal, an exhausted quota, an error, a panic and a kill.
* **`Checkpoint`.** What ingestion promises: the cursor only moves over stored blocks.
* **`TipLoop`.** `pc` is the phase of an iteration; `stream` holds what the subscription pushed. A
  fetched window is one step, which `Pipeline` justifies. `Fork` replaces up to `confirmations`
  blocks and makes the stream announce the removed and the new logs. History: `exposed` (blocks
  that were unconfirmed when a stream was opened), `replaced` (blocks of a reorg).
* **`Reorg`.** `canon` is the chain, a sequence of blocks that carry their fork (their hash) and whether
  they hold a log; `raw`, `blocks`, `typed` have one row per height (their primary keys), so that
  `DO NOTHING` and `DO UPDATE` differ; `logged` and `fetched` are a range between its two RPC calls
  and its commit; `work` is where the decode stands.
* **`RpcSource`.** A request is a record of `calls`: it draws compute units, then one permit per
  sub-call, is metered and sent, and the provider answers with a page, a truncated page, a refusal,
  a null or an error. `pending` is the work stack of `fetch_records`; `todo` the chunks of the batched
  lookups of `fetch_aux`; `density_milli` the density estimate that sizes the next span. `poll` is a call
  of the loop, `head` or `block_hash`, which comes between the windows and shares limiter and ledger with
  them; `subscribe` shares the ledger only.
* **`Commands`.** One process of `run`, `follow`, `backfill` or `decode`: `task[c]` is where a chain's
  ingest is (build, top, drive, wait, returned, backoff, drain, done), `slot[c]` its fetches in flight with
  what they have spent, `worker[w]` the pool, `token`/`worker_token` the two cancellation tokens. The
  queue is its depth.
* **`AbiSchema`.** Pure functions: the index of events by topic0 and of functions by address and
  selector, table names, column types, and which values `decode` binds. External: alloy's byte
  decoding.
* **`Tables`.** `migrate` as the schemas of a configuration in some order (`Orders`: the maps of the ABI
  index are walked in any) with their statements applied one by one (`mig`), the preflight, `commit_ingest` with
  transactions and receipts, `decode_range` as raw records, block times and calldata, then one upsert
  per table, for a worker and for `resync`. `live[t]` gives the columns a table really has. `decode` boots
  its workers without a preflight (`BootDecode`). An item that is still queued swallows a second enqueue
  (`push_in_tx`); `late` remembers what was committed under an item whose worker had already read.
* **`Query`.** `query_field` validates and starts a scan, a client follows `endCursor` page by page and
  then asks for `totalCount`; each read is a cache lookup, a statement on a snapshot, and a put. Ages in
  ticks replace clocks.
* **`MC…`** give the small instances. **`…Proofs`** hold the theorems.

Definitions called "faulty variant" are not part of any specification. Each states a plausible
mistake in the definition that follows it; putting it in that definition's place makes TLC report
the property named for it in `PROJECT.json`, which shows that the property depends on that code.

## Runs

| Run | Instance | What it shows |
|---|---|---|
| `work_queue` | 2 workers, one of which can decode a single chain; 2 chains, 2 ranges, 3 ids, 2 faults | the fence holds (`LeaseExclusive`) and makes the table an exclusive lease (`ImplementsLeasing`); ranges that every worker can decode are decoded at least once (`AtLeastOnce`); after finitely many faults the queue drains (`EventuallyDrained`) |
| `range_plan` | starts 1–3, targets 0–8, steps 1–4, every order of the ranges | loops and closed forms agree (`PlanAgrees`, `PrefixAgrees`) |
| `pipeline` | 7 blocks, step 1, concurrency 3, 2 faults, backfills | `GapFree`, `CursorHash`, `NoRangeLost`; the pipeline implements `Checkpoint`; it catches up (`CatchesUp`) |
| `tip` | websocket and poll mode, 5 blocks, 2 confirmations, windows of 2, 1 reorg, 1 fault | a log is missed only if its block was unconfirmed when a stream was opened or came with a reorg, never in poll mode (`MissedOnlyIfExposed`); `AnnouncedIsFetched`; `EventuallyIndexed` |
| `tip_ws_missed` | websocket only, 4 blocks, no reorg, no fault | **violated** (`NoLogMissed`): a log below the confirmation depth at subscription time is skipped, against `bins/indexer-cli/src/tip.rs:64` |
| `reorg` | 3 blocks, 1 confirmation, 3 upsets (reorgs one block deep, backfills), concurrency 2, 1 fault | `RawHasBlock` and `StaleTipRepaired` always; `StoredCanonical`, `Converges` while only the loop indexes; `UndecodedIsQueued`, `NoGapBelowCursor` unless a backfill was interrupted |
| `reorg_undetected` | 2 upsets, no fault | **violated** (`RawConverges`): after a backfill up to the head a reorg within the confirmations is not seen, against `crates/services/src/reorg.rs:4`. TLC reports one of two ways: the replaced block had no log and so no row to compare; or its log was fetched before the fork and the block, by number, after it (`ingestion.rs:52`), so that the raw row of the old block has the hash of the new one and the probe finds them equal |
| `rpc` | 2 fetches on one source (blocks 1–3 and block 4), pages of 2 logs, batches of 2, bucket of 50 units, two price lists, 2 attempts, 1 fault, 1 poll or subscription of the loop | `WalksUpwards`, `OkIsComplete`, `Paced`, `MoneyAgrees`; every fetch ends (`FetchEnds`) |
| `commands` | 2 chains, one with a quota of 2 units; 2 workers, concurrency 2, 2 faults | `PoolKnowsChains`, `EndsForAReason`, `OverrunBounded`; a signal ends the process (`StopsOnSignal`); a backfill ends by itself (`BackfillEnds`) |
| `query` | 2 clients, rows of two chains with equal keys, 3 argument sets, TTL 1, latency 1, 2 writes, 1 error | `ScanComplete`, `InOrder`, `BoundedStale`, `QuietCountAgrees` |
| `tables` | 4 configurations (renamed parameter, shared topic0, overload), 2 blocks, one with malformed calldata, 1 edit, 1 resync, 1 fault | `RecordsAccounted`, `RowsAreStamped`, `MigratedCovers`, `ReceiptsReferToTx`, `ColumnsFit`, `EventuallyDecoded` |
| `tables_resync` | as `tables`, no fault | **violated** (`ResyncBackfills`): a column added by a migration stays NULL in the rows that exist, against `README.md:325` and `ARCHITECTURE.md:378` |

The comment above each property says what it means and which code it is about.

`CHECK_DEADLOCK FALSE` is used where the system may really stop: the bounded queue ends with an
empty queue and no ids left, the loops of `plan.rs` return, a process exits, every `fetch_range`
has returned, a scan is over, or a process is down and the operator does nothing more.

### What the exceptions in the properties stand for

Several properties hold only with an antecedent. Each antecedent leaves out something the code does:

* **A backfill above head − confirmations** stores unconfirmed blocks; nothing in `commands.rs` rules
  it out. Then a decode that read its raw rows before a rollback writes typed rows of the orphaned
  block after it (`StoredCanonical` and `Converges` say `backfills = 0`). `work.rs:6` describes `Epoch` as
  the fence against this; every item is enqueued with `Epoch(0)` and nothing compares it.
* **An interrupted backfill, then a rollback**: ranges committed ahead of a gap are stored above the
  cursor, `rollback_to` takes the fork from the highest stored block, and the cursor moves *forward*
  over the gap (`unit_of_work.rs:66` speaks of a rewind). `NoGapBelowCursor` says `Uninterrupted`.
* **A swallowed enqueue** (`queue_repo.rs:130`): a range is committed again after a rollback while its
  old item is pending or leased by a worker that has already read the deleted rows; the conflict
  clause drops the enqueue. It takes an interrupted backfill, or two of them, the second to a lower
  block, with two confirmations. `UndecodedIsQueued` says `Uninterrupted /\ backfills <= 1`. Without a
  rollback it takes a range that is ingested again while it is decoded, and brings something new: after an
  edit of the configuration, or the transaction that the first ingest did not find. `RecordsAccounted`
  excepts those records (`late`), until their block is enqueued again.
* **A range that does not decode** (`decoding.rs:59`, `abi/src/decode.rs:75`): one log that does not match
  its event, or calldata that does not match its function, fails the whole range, which is retried forever.
  `EventuallyDecoded` speaks of a process that is `Healthy`: all stored logs and calldata decode, and the
  tables have the columns. That the records of such a range stay queued is `RecordsAccounted`.
* **An exhausted quota ends a chain** (`supervisor.rs:41`): `ingest_loop` returns `Ok`, the supervisor takes it
  for a "clean shutdown (cancelled)", and the chain is not started again, although `supervisor.rs:15` says
  "Returns only on cancellation — a chain never silently dies". `EndsForAReason` has the quota as its one
  exception.
* **The quota is overrun**: `README.md:251` says that the guard "slows/stops before the allotment is blown",
  as do `ARCHITECTURE.md:137` and `:690` ("the quota guard halts before `monthly_quota`"). It is looked at
  between fetches, and nothing slows them. `OverrunBounded` gives the size of the overrun, of one attempt: a
  restarted chain begins with an empty ledger, and nothing bounds the sum over the restarts of a month.
* **A subscription is metered without asking the limiter** (`client.rs:293`). `Paced` allows the units of the
  subscriptions on top of what was drawn.
* **A reorg that announces a lower height than one already pending** (`tip.rs:66`): the loop reads one
  log of the stream at a time, and until it has read the lower one a window may pass that block on the
  no-fetch path. `MissedOnlyIfExposed` and `AnnouncedIsFetched` except `replaced` blocks.
* **Rows of two chains with the same height and idx**: the keyset has no chain_id, so a page that ends
  between them skips the other. `db-query/src/lib.rs:125-127` says that the tuple compare "keeps the page
  boundary exact across rows that share a height". `ScanComplete` allows exactly that tie.
* **A block whose logs exceed the provider's page** cannot be split further; what the provider gives of
  it is taken. `WholeBelow` demands all logs of every other block.
* **A worker acks an item of a chain it has no decoder for** (`services/src/worker.rs:71`). A process
  configured for other chains empties the shared queue that way, so depth 0 does not mean that
  everything was decoded, which `commands.rs:117` says. `AtLeastOnce` speaks of ranges that every worker
  can decode.
* **Two overlapping `pull_any`** may lease two items of one chain, since each reads a snapshot without
  the other's lease (`queue_repo.rs:43` says "serial within a chain"). `WorkQueue` has that behaviour,
  and `LeaseExclusive` and `AtLeastOnce` hold with it.
* **A subscription that is refused forever**: with a websocket configured the head is not polled while no
  stream is open, although `README.md:212` and `ingest.rs:19` speak of a poll fallback.
  `EventuallyIndexed` is checked under `WsFair`, which excludes it.
* **An indexed struct** has a jsonb column in `schema_for`, whose test for dynamic types
  (`abi-schema/src/lib.rs:47`) has strings, bytes and arrays only, while the value that arrives is a
  hash; the comment at line 50 says that indexed dynamic types are stored as bytea. The proof of
  `ColumnsFit` failed on it: `RowsFit` has `NoIndexedTuple` as a hypothesis, and the instance of the run
  has value types, an indexed array and an overloaded column.

### Bounds and why they are enough

Counters that the code leaves unbounded are bounded in the guards by the constants `Max…`.

* Queue: three ids and two workers allow a row to be leased, reclaimed, leased again and acked late
  while another row of the chain waits and the same range is enqueued again. Two faults allow a failure
  during the recovery from a failure.
* Pipeline: three ranges in flight are the least with which a range is committed beyond a gap that
  stays open while the prefix grows; seven ranges are more than the six places of the channel.
* Tip: two confirmations and five blocks leave room for a stream that breaks and is reopened while an
  earlier push is unconfirmed, with a sweep of more than one window.
* Reorg: one confirmation and reorgs of depth one are the boundary of the documented claim; three
  blocks leave a confirmed block and two above it. The four invariants were also checked once with two
  confirmations, reorgs of depth two, four blocks and three upsets (38.7 million states), too large to
  run every time.
* RPC: a page holds 2 logs and blocks 1–4 have 1, 3, 1 and 0, so that a span is split, a page is
  truncated, a single block cannot be split and a range is empty; a batch costs more than the bucket of 50
  units holds under Alchemy's prices, and nothing under those of a free node. Two attempts (six in the
  code) tell the first, the last and a retry apart. One poll or subscription (`MaxPolls`) comes before,
  between or after the fetches. `ProviderCap = 0` stands for a provider that never truncates; the
  theorems cover it, and a plan with `max_getlogs_results = 0`, which takes every page for whole.
* Commands: a quota of 2 runs out inside a window of concurrent fetches; the second chain has none.
* Query: a page of one row puts a boundary between every two rows, also between those with equal keys;
  two writes let a row come and go during a scan, and a TTL and a latency of one tick let a slow
  reader replace a newer entry.
* Tables: each configuration is one kind of edit (rename with a new decoded function, a topic0 shared
  by two contracts, an overload in one table). One fault stops a migration or a decode half way, and
  `MaxCommits = 2` gives a block before and one after it, or one that is committed again.

### Fairness

* Queue: each worker and the reclaim ticker are loops on the tokio runtime (weak fairness of
  `WorkerStep(w)` and `Reclaim`). A lease that its worker abandoned grows old; no lease of a live worker
  has to.
* Pipeline: `try_join!` polls both halves, the loop and its restart go on. Nothing obliges a fault to
  happen, nor the chain to grow.
* Tip: the loop never stops by itself, the chain grows, and `select!` takes what a stream offers before
  its sleep ends (strong fairness of `OnWsLog` and `OnWsEnd`, because they compete with the timer).
  `WsFair` adds that an endpoint does not refuse subscriptions forever.
* Reorg: the loop (restarted by its supervisor) and the worker go on; the chain need not grow,
  reorganise or be backfilled.
* RPC: fetches are polled, each draws and sends its requests, and tokens come back with time. That a
  request that was sent is answered, if only by an error, is an assumption about the provider:
  `crates/source` sets no timeout of its own.
* Commands: the runtime polls every task; RPC calls, sleeps and decodes end. No signal and no fault has
  to happen.
* Tables: only the worker of a running process. `migrate`, `resync`, edits and restarts are the operator's.

## Proofs

TLAPS proves the following for all values of the constants that satisfy the named assumptions of the
modules: bounds and sizes are naturals, steps and concurrencies are positive, and what is said below.
The bounds `Max…` are constants like any other, so the theorems hold for any number of faults, reorgs,
writes and blocks.

| Module | Theorem | Property | Further assumptions |
|---|---|---|---|
| `WorkQueueProofs` | `Fencing`, `Delivery`, `QueueLeases` | `LeaseExclusive`, `AtLeastOnce`, `ImplementsLeasing` | |
| `PipelineProofs` | `CheckpointGapFree`, `Refinement` | `GapFree`, `ImplementsCheckpoint` | a backfill starts no later than `start_block` |
| | `NothingLost`, `HashAtCursor` | `NoRangeLost`, `CursorHash` | as above |
| | `Forward`, `Resumption` | outside a backfill the cursor never goes back; the loop resumes at the block after it | as above |
| | `PlanLoop`, `PrefixLoop` | `PlanAgrees`, `PrefixAgrees` | the assumption of `RangePlanLoops` |
| `TipLoopProofs` | `NothingElseMissed`, `AnnouncedFetched` | `MissedOnlyIfExposed`, `AnnouncedIsFetched` | reorgs replace at most `confirmations` blocks (in `Next`) |
| `ReorgProofs` | `RawWithBlock` | `RawHasBlock` | none: reorgs of any depth |
| | `NeverOrphaned`, `NoGap`, `EveryRangeQueued` | `StoredCanonical`, `NoGapBelowCursor`, `UndecodedIsQueued` | `MaxDepth <= Confirmations` |
| | `ProbeFindsNothing` | while only the loop indexes, the probe never finds a stale tip | as above |
| `RpcSourceProofs` | `UpwardsWithoutGap`, `OkMeansComplete`, `FiguresAgree`, `SpendIsPaced` | `WalksUpwards`, `OkIsComplete`, `MoneyAgrees`, `Paced` | the plan's page limit is positive and at most the provider's, if the provider has one |
| `CommandsProofs` | `PoolKnows`, `EndsWithReason`, `QuotaOverrun` | `PoolKnowsChains`, `EndsForAReason`, `OverrunBounded` | |
| | `ExitsDrained` | without a signal only a backfill exits, with an empty queue, or a process whose workers have all panicked | |
| `QueryProofs` | `StalenessBounded`, `PagesInOrder` | `BoundedStale`, `InOrder` | a statement's answer is at most `Latency` old; keys are integers |
| | `NothingSkipped`, `CountMatchesScan` | `ScanComplete`, `QuietCountAgrees` | and chain, height and idx are a primary key (`schema/src/lib.rs:56`) |
| `TablesProofs` | `NoRecordLost`, `AlwaysStamped` | `RecordsAccounted`, `RowsAreStamped` | a log and its transaction are of one block |
| | `MigrationComplete`, `ReceiptsComplete` | `MigratedCovers`, `ReceiptsReferToTx` | as above |
| | `RowsFit` | `ColumnsFit` | no wanted event has an indexed tuple (`NoIndexedTuple`) |

Each proof shows that an inductive invariant `IInv` holds initially and is kept by every action; the
properties themselves are not inductive.

* Queue: a pull in progress has its row to itself and the row is unleased (`PullInv`); a worker's
  `lease_seq` is at most the row's, two workers on one row differ in it, and one that equals the row's
  belongs to a leased row (`FenceInv`); a worker about to ack has decoded its range, if it can (`AckInv`).
  For `QueueLeases` each step is a step of `Leasing` or leaves the mapped state alone: an ack that matches
  the row is `Finish`, one that does not match changes nothing that `Leasing` sees.
* Pipeline: what is in memory is tied to what is durable (`PrefixInv`): ranges that wait or were just
  committed are stored, all blocks up to the frontier are stored, and while the live loop drives, the
  cursor is the block before the frontier. For `NothingLost` and `HashAtCursor` the ranges of a drive are
  disjoint, none crosses the frontier, they cover what lies ahead of it, and `best` is the highest
  matching block behind it (`DriveInv`).
* The loops of `plan.rs`: the ranges so far are those of the closed form that start below the loop
  variable, and fill the window up to it (`LoopPlan`); the ranges taken out fill the blocks up to the
  frontier and those that wait lie beyond it (`LoopPrefix`). These are invariants of the iterations, so
  no induction over sequences is needed. `PipelineProofs` reaches the loops through `INSTANCE`, with the
  tracker's variables named as in `Pipeline`.
* Tip: every matching block ahead of the cursor that a stream should have told of is pending, or the
  sweep that is due gets it, or it is still to be read from the stream with everything pending below it,
  so that a fetch comes first (`Coverage`); what the stream holds is of blocks it was in time for (`Told`).
* Reorg: a range in flight has its raw row and its block or neither (`Paired`). For `NeverOrphaned` every
  row, stored or in anybody's hands, is that of a confirmed canonical block (`OnlyConfirmed`), which no
  permitted reorg touches. For `NoGap` what is stored, recorded or passed was committed, and without a
  crash what is committed or under way has no gap (`Committed`, `NoHole`): this is what a rollback relies
  on when it takes the cursor from the highest stored block. For `EveryRangeQueued` (`Lead`) the items
  are of stored ranges, those not decoded among them, and a worker has the rows of its item in hand until
  they are in the typed table (`QueueGood`); what a rollback deletes must not have an item, and after the
  one backfill that finished, every block that may be orphaned is below what the loop fetches, so that
  the probe finds the highest stored block canonical as soon as the loop has added an item (`Once`).
* RPC: the spans on the stack are exactly the rest of the range and everything below is whole (`Walk`);
  each wanted header and receipt is answered or in a chunk that is still to come or in flight (`Lookup`).
  What was drawn covers what is metered and what the calls in flight have drawn so far (`PaceInv`); that
  sum is the cardinality of a set with one element per unit.
* Commands: booted chains are in the decoder map and only those have tasks (`Known`); already the attempt
  that returned had its reason (`Reason`). What an attempt has spent is at most the quota, one probe and
  what the fetches in flight have spent, which is again a cardinality (`Budget`). For `ExitsDrained` a
  worker that returned was told to (`Pool`), and a backfill that told its workers found the queue empty
  (`Draining`); it stays empty, because a busy worker holds an item of the queue (`Pool`).
* Query: a snapshot is at most `Latency` older than its cache entry (`Recent`); a cached page is sorted and
  beyond its own key's cursor whatever snapshot it is from (`CacheGood`), so that it continues any scan
  that asks with that cursor (`ScansGood`). A row that has been there for longer than a page's snapshot is
  in the page or beyond its end, and a row that was there all along has been given or is still to come
  (`CoverInv`). Since the last write, pages and counts hold and count only rows of the table as it is
  (`SameInv`).
* Tables: a worker that decodes a record's block has not missed the record (`Accounted`, `InHand`), and a
  record is stored with its block's time (`Timed`). The statements of a `migrate` before the one it is at
  have taken effect, and nothing undoes them (`MigInv`).

Every safety invariant that a run checks has its theorem. Only model-checked are the liveness
properties (`EventuallyDrained`, `CatchesUp`, `EventuallyIndexed`, `Converges`, `StaleTipRepaired`,
`FetchEnds`, `StopsOnSignal`, `BackfillEnds`, `EventuallyDecoded`): the prover has neither `ENABLED` nor
fairness.

## Abstractions

* A block is its height (with its fork in `Reorg`), a log the fact that its block matches, or its position
  in the block (`RpcSource`), or its topic0 and address (`Tables`). Work items have no `kind` and no
  `epoch`: the code only enqueues `Backfill` items with `Epoch(0)`.
* `Pipeline` has a chain that only grows; `TipLoop` and `Reorg` have one that forks. In `Reorg` ranges are one
  block wide, a block holds at most one log, every log decodes into one typed table, and the tip is
  polled, so that every iteration probes. `check` and `rollback_to` are one step: only the loop writes
  `blocks`, and a reorg or a decode step between the two commutes with the check. Workers run in a
  process of their own (`decode_workers`), so that they outlive an interrupted backfill.
* `TipLoop` leaves the probe out: as long as reorgs are no deeper than the confirmations and only the
  loop indexes, it finds nothing (`ProbeFindsNothing`).
* The websocket delivers in order and ends after what it has buffered; a client library that reconnects
  without ending the stream is not modelled.
* In `Commands` a window is a number of ranges that spend units, and the queue its depth; in `Tables` blocks
  do not change and leases are exclusive; in `Query` rows are chain, height and idx. The modules named in
  their headers have what they leave out.

## Not modelled

* Configuration parsing and validation, logging, metrics, the HTTP server and the start-up glue have no
  state that changes while the system runs.
* Byte-level work: ABI decoding (alloy), the text of values and JSON documents, GraphQL type rendering,
  the exact SQL strings. Their outcomes (which table, which columns, which type, accepted or refused) are
  in `AbiSchema`, `Tables` and `Query`.
* The reorg probe that a websocket's `removed` signal or every sixteenth tick starts: `Reorg` has its
  effect for poll mode, where every iteration probes.
* Indexes of the migrator, which change no row, and its refusal of destructive plans, which its planner
  never emits; `migrate --dry-run`, which changes nothing.
* The cast `as u32` of a page size `first` beyond 2^32 (`graphql/query.rs:26`): pages of the runs are small, and
  no property depends on how many rows a client asks for.
* The joined objects of an API row (`transaction`, `receipt`): single-row lookups without state.
* `confirmations = 0`, where the rollback deletes nothing: `reorg.rs` claims nothing for reorgs deeper than
  the confirmations.
