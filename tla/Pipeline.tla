------------------------------- MODULE Pipeline -------------------------------
(***************************************************************************)
(* The fetch->write pipeline of one chain (run_pipeline and its two halves *)
(* in bins/indexer-cli/src/plan.rs) and the process around it: it starts   *)
(* from the stored cursor, drives the pipeline window after window, and    *)
(* may be stopped, fail or be killed at any moment.                        *)
(*                                                                         *)
(* The chain only grows here (no reorg) and every window is fetched (poll  *)
(* mode, or a reconcile sweep).  A block is abstracted to its height.      *)
(***************************************************************************)
EXTENDS RangePlan, Sequences

CONSTANTS
    StartBlock,         \* first block of the chain's configuration, at least 1
    Step,               \* max_getlogs_blocks of the provider's plan
    RangeConcurrency,   \* ranges in flight
    Matched,            \* the blocks that hold a log of interest
    BackfillFrom,       \* blocks at which an operator may start `backfill`
    MaxSafe,            \* bound: how far the confirmed chain grows
    MaxFaults           \* bound: errors, crashes, stop requests and backfills

ASSUME StartAssumption == StartBlock \in Nat \ {0}
ASSUME PlanAssumption == Step \in Nat \ {0} /\ RangeConcurrency \in Nat \ {0}
ASSUME MatchedAssumption == Matched \subseteq Nat \ {0}
\* An operator's backfill starts no later than the block the index starts at.
ASSUME BackfillAssumption == BackfillFrom \subseteq 1..StartBlock
ASSUME BoundsAssumption == MaxSafe \in Nat /\ MaxFaults \in Nat

VARIABLES
    \* in Postgres
    cursor,       \* last_indexed_block; StartBlock - 1 also stands for no row
    cursor_hash,  \* height of the block whose hash the cursor holds, 0 for empty
    stored,       \* blocks of the ranges whose commit_ingest has committed
    \* the environment
    safe,         \* head - confirmations
    stopping,     \* the token is cancelled or the quota is exhausted
    faults,       \* disturbances so far (bounded by MaxFaults)
    \* the process
    proc,         \* "down", "loop" (between drives), "follow" or "backfill" (driving)
    next,         \* first block of the next window
    target,       \* last block of the current window
    todo,         \* planned ranges whose fetch has not been consumed
    held,         \* the fetched range being sent, as a set of at most one
    chan,         \* the bounded channel
    closed,       \* the producer is done and dropped its sender
    shutdown,     \* the producer's answer: stopped before the end
    writing,      \* the range committed and not yet recorded, at most one
    frontier, waiting, best   \* the PrefixTracker

db == <<cursor, cursor_hash, stored>>
env == <<safe, stopping, faults>>
producer == <<todo, held, closed, shutdown>>
prefix == <<frontier, waiting, best>>
vars == <<db, env, proc, next, target, producer, chan, writing, prefix>>

\* The state of a drive, dropped when it ends.
Forget ==
    /\ todo' = {} /\ held' = {} /\ chan' = <<>> /\ writing' = {}
    /\ closed' = FALSE /\ shutdown' = FALSE
    /\ waiting' = {} /\ best' = 0 /\ frontier' = StartBlock
    /\ target' = StartBlock

Init ==
    /\ cursor = StartBlock - 1 /\ cursor_hash = 0 /\ stored = {}
    /\ safe = 0 /\ stopping = FALSE /\ faults = 0
    /\ proc = "down"
    /\ next = StartBlock /\ target = StartBlock
    /\ todo = {} /\ held = {} /\ closed = FALSE /\ shutdown = FALSE
    /\ chan = <<>> /\ writing = {}
    /\ frontier = StartBlock /\ waiting = {} /\ best = 0

Fault == faults < MaxFaults /\ faults' = faults + 1
Driving == proc \in {"follow", "backfill"}

-----------------------------------------------------------------------------
(* The environment.                                                        *)

ChainGrows ==
    /\ safe < MaxSafe
    /\ safe' = safe + 1
    /\ UNCHANGED <<db, stopping, faults, proc, next, target, producer, chan, writing, prefix>>

\* SIGINT, or the spend ledger reaches the free quota.
StopRequested ==
    /\ proc # "down" /\ ~stopping
    /\ stopping' = TRUE
    /\ Fault
    /\ UNCHANGED <<db, safe, proc, next, target, producer, chan, writing, prefix>>

-----------------------------------------------------------------------------
(* The process: `follow` / `run`, and `backfill`.                          *)

\* ingest_loop reads the cursor: resume after it, or at start_block.
Boot ==
    /\ proc = "down"
    /\ proc' = "loop"
    /\ stopping' = FALSE
    /\ next' = cursor + 1
    /\ UNCHANGED <<db, safe, faults, target, producer, chan, writing, prefix>>

\* run_pipeline(from, to): plan the ranges, a fresh channel and PrefixTracker.
StartDrive(from, to) ==
    /\ target' = to
    /\ todo' = plan_ranges(from, to, Step)
    /\ held' = {} /\ closed' = FALSE /\ shutdown' = FALSE
    /\ chan' = <<>> /\ writing' = {}
    /\ frontier' = from /\ waiting' = {} /\ best' = 0

\* Faulty variant of CatchUp: `safe > next`, so the newest block is left out.
CatchUpStrict ==
    /\ proc = "loop" /\ ~stopping
    /\ safe > next
    /\ proc' = "follow"
    /\ StartDrive(next, fetch_target(safe, next, Step, RangeConcurrency, TRUE))
    /\ UNCHANGED <<db, env, next>>

\* One turn of ingest_loop: catch_up over a bounded window.
CatchUp ==
    /\ proc = "loop" /\ ~stopping
    /\ safe >= next
    /\ proc' = "follow"
    /\ StartDrive(next, fetch_target(safe, next, Step, RangeConcurrency, TRUE))
    /\ UNCHANGED <<db, env, next>>

\* Nothing confirmed beyond the cursor: sleep until the next poll.
WaitPoll ==
    /\ proc = "loop" /\ ~stopping
    /\ safe < next
    /\ UNCHANGED vars

\* ingest_loop leaves its loop on a stop request.
LoopStops ==
    /\ proc = "loop" /\ stopping
    /\ proc' = "down"
    /\ UNCHANGED <<db, env, next, target, producer, chan, writing, prefix>>

\* `backfill from to`: one drive over the whole range, whatever the cursor.
Backfill(from, to) ==
    /\ proc = "down"
    /\ Fault
    /\ proc' = "backfill"
    /\ stopping' = FALSE
    /\ next' = from
    /\ StartDrive(from, to)
    /\ UNCHANGED <<db, safe>>

-----------------------------------------------------------------------------
(* fetch_producer.  buffer_unordered keeps the first RangeConcurrency      *)
(* unfinished ranges in flight and yields them in any order.               *)

InFlight == {r \in todo : Cardinality({q \in todo : q.lo < r.lo}) < RangeConcurrency}

Fetched(r) ==
    /\ Driving /\ ~closed /\ held = {}
    /\ r \in InFlight /\ ~stopping
    /\ todo' = todo \ {r}
    /\ held' = {r}
    /\ UNCHANGED <<db, env, proc, next, target, closed, shutdown, chan, writing, prefix>>

\* A result arrives after the stop request: it is dropped with all the others.
FetchStops ==
    /\ Driving /\ ~closed /\ held = {}
    /\ InFlight # {} /\ stopping
    /\ todo' = {}
    /\ closed' = TRUE /\ shutdown' = TRUE
    /\ UNCHANGED <<db, env, proc, next, target, held, chan, writing, prefix>>

Send ==
    /\ Driving /\ held # {}
    /\ Len(chan) < 2 * RangeConcurrency
    /\ \E r \in held : chan' = Append(chan, r)
    /\ held' = {}
    /\ UNCHANGED <<db, env, proc, next, target, todo, closed, shutdown, writing, prefix>>

ProducerEnds ==
    /\ Driving /\ ~closed /\ held = {} /\ todo = {}
    /\ closed' = TRUE
    /\ UNCHANGED <<db, env, proc, next, target, todo, held, shutdown, chan, writing, prefix>>

-----------------------------------------------------------------------------
(* commit_consumer.                                                        *)

\* recv, then commit_range: raw records, blocks, enrichment and the work item
\* of the range in one transaction, the cursor untouched.
Commit ==
    /\ Driving /\ writing = {} /\ chan # <<>>
    /\ stored' = stored \cup BlocksOf(Head(chan))
    /\ writing' = {Head(chan)}
    /\ chan' = Tail(chan)
    /\ UNCHANGED <<cursor, cursor_hash, env, proc, next, target, producer, prefix>>

\* Faulty variant of Record: the cursor follows every committed range.
RecordEager(g) ==
    /\ Driving /\ writing # {}
    /\ frontier' = g
    /\ waiting' = (waiting \cup writing) \ Absorbed(waiting \cup writing, g)
    /\ \E r \in writing : cursor' = r.hi
    /\ writing' = {}
    /\ UNCHANGED <<cursor_hash, best, stored, env, proc, next, target, producer, chan>>

\* Faulty variant of Record: a hash from a range committed ahead of the gap.
RecordAnyHash(g) ==
    LET committed == waiting \cup writing
        hits == {last_block(Matched, r) : r \in committed} \cup {best}
    IN  /\ Driving /\ writing # {}
        /\ frontier' = g
        /\ waiting' = committed \ Absorbed(committed, g)
        /\ \E h \in hits : (\A k \in hits : k <= h) /\ best' = h
        /\ IF g # frontier
             THEN cursor' = g - 1 /\ cursor_hash' = best'
             ELSE UNCHANGED <<cursor, cursor_hash>>
        /\ writing' = {}
        /\ UNCHANGED <<stored, env, proc, next, target, producer, chan>>

\* Faulty variant of Record: a range ahead of the gap is not kept.
RecordForgets(g) ==
    /\ Driving /\ writing # {}
    /\ frontier' = g
    /\ waiting' = {}
    /\ IF g # frontier THEN cursor' = g - 1 ELSE UNCHANGED cursor
    /\ writing' = {}
    /\ UNCHANGED <<cursor_hash, best, stored, env, proc, next, target, producer, chan>>

\* PrefixTracker::record(): the prefix now ends before block g; if it grew, the cursor
\* is upserted in a transaction of its own.
Record(g) ==
    LET committed == waiting \cup writing
        hits == {last_block(Matched, r) : r \in Absorbed(committed, g)} \cup {best}
    IN  /\ Driving /\ writing # {}
        /\ frontier' = g
        /\ waiting' = committed \ Absorbed(committed, g)
        /\ \E h \in hits : (\A k \in hits : k <= h) /\ best' = h
        /\ IF g # frontier
             THEN cursor' = g - 1 /\ cursor_hash' = best'
             ELSE UNCHANGED <<cursor, cursor_hash>>
        /\ writing' = {}
        /\ UNCHANGED <<stored, env, proc, next, target, producer, chan>>

\* Faulty variant of DriveEnds: the cursor is stamped with the window's end.
DriveEndsStampsTarget ==
    /\ Driving /\ closed /\ chan = <<>> /\ writing = {}
    /\ proc' = IF proc = "backfill" \/ shutdown THEN "down" ELSE "loop"
    /\ next' = frontier
    /\ cursor' = target
    /\ Forget
    /\ UNCHANGED <<cursor_hash, stored, env>>

\* Both halves returned: next = advanced_to + 1 (or unchanged).
DriveEnds ==
    /\ Driving /\ closed /\ chan = <<>> /\ writing = {}
    /\ proc' = IF proc = "backfill" \/ shutdown THEN "down" ELSE "loop"
    /\ next' = frontier
    /\ Forget
    /\ UNCHANGED <<db, env>>

\* A fetch, commit or cursor update failed (try_join! drops the other half and
\* the error ends the process or goes to the supervisor), a panic, or a kill.
Abort ==
    /\ proc # "down"
    /\ Fault
    /\ proc' = "down"
    /\ Forget
    /\ UNCHANGED <<db, safe, stopping, next>>

-----------------------------------------------------------------------------
Producer == (\E r \in InFlight : Fetched(r)) \/ FetchStops \/ Send \/ ProducerEnds
Consumer == Commit \/ \E g \in PrefixEnds(waiting \cup writing, frontier) : Record(g)
Process == CatchUp \/ LoopStops \/ DriveEnds

Next ==
    \/ ChainGrows \/ StopRequested
    \/ Boot \/ Process \/ WaitPoll
    \/ \E from \in BackfillFrom, to \in 1..safe : Backfill(from, to)
    \/ Producer \/ Consumer
    \/ Abort

Spec == Init /\ [][Next]_vars

\* tokio polls both halves of the pipeline, and the loop, for as long as the
\* process lives; the supervisor (or the operator) starts a process that ended.
FairSpec == Spec /\ WF_vars(Producer) /\ WF_vars(Consumer) /\ WF_vars(Process) /\ WF_vars(Boot)

-----------------------------------------------------------------------------
RangeType == [lo : Nat, hi : Nat]

\* The ranges of the current drive that are somewhere in the pipeline.
InPipeline == todo \cup held \cup {chan[i] : i \in DOMAIN chan} \cup writing \cup waiting

FlagsOK == stopping \in BOOLEAN /\ closed \in BOOLEAN /\ shutdown \in BOOLEAN

DataOK ==
    /\ cursor \in Nat /\ cursor_hash \in Nat /\ stored \subseteq Nat
    /\ safe \in 0..MaxSafe /\ faults \in 0..MaxFaults
    /\ proc \in {"down", "loop", "follow", "backfill"}
    /\ next \in Nat /\ target \in Nat
    /\ todo \subseteq RangeType /\ held \subseteq RangeType
    /\ chan \in Seq(RangeType) /\ Len(chan) <= 2 * RangeConcurrency
    /\ writing \subseteq RangeType
    /\ frontier \in Nat /\ waiting \subseteq RangeType /\ best \in Nat

\* The type of every variable; the channel never exceeds its capacity.
TypeOK == FlagsOK /\ DataOK

\* plan.rs:122, "A mid-drive error or shutdown leaves the cursor at a gap-free
\* checkpoint": whatever order the ranges are fetched and committed in, and
\* wherever the process dies, every block from StartBlock to the stored cursor
\* belongs to a committed range.
GapFree == StartBlock .. cursor \subseteq stored

\* plan.rs:54, "a real block hash, never one above the cursor": a cursor with a
\* hash carries that of the highest matching block at or below it, even while
\* later ranges are committed ahead of a gap.
CursorHash ==
    cursor_hash # 0 =>
        /\ cursor_hash \in Matched /\ cursor_hash <= cursor
        /\ \A b \in Matched : b <= cursor => b <= cursor_hash

\* A drive that was not stopped loses no range between planning, fetching, the
\* channel, the writer and the prefix tracker: each block of the window beyond
\* the frontier is still on its way, so the drive cannot end short of target.
NoRangeLost ==
    (Driving /\ ~shutdown) => frontier .. target \subseteq Covered(InPipeline)

\* ingest_loop only moves the cursor forward, whatever it is restarted from;
\* only an operator's backfill can take the cursor back.
CursorForward == [][proc # "backfill" => cursor' >= cursor]_vars

\* Between two windows, ingest_loop's own `next` and the stored cursor agree,
\* after a partial drive and a restart as well: no block is skipped or redone.
ResumesAtCursor == proc = "loop" => next = cursor + 1

\* run_pipeline, restarts included, implements the abstract checkpoint: no step
\* moves the cursor over a block that is not stored, nor loses a stored block.
Abstract == INSTANCE Checkpoint WITH StartBlock <- StartBlock, cursor <- cursor, stored <- stored
ImplementsCheckpoint == Abstract!Spec

\* However often it is disturbed, the index catches up with the confirmed head,
\* and does so again after every block that is confirmed later.
CatchesUp == []<>(cursor >= safe)

=============================================================================
