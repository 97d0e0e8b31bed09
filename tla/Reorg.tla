--------------------------------- MODULE Reorg ---------------------------------
(***************************************************************************)
(* A chain that forks, and what the indexer of that chain does about it:   *)
(* ReorgService::check (crates/services/src/reorg.rs) and rollback_to      *)
(* (crates/db/src/unit_of_work.rs), composed with the ingestion they share *)
(* tables with and with a decode worker in the middle of decode_range      *)
(* (crates/services/src/decoding.rs).                                      *)
(*                                                                         *)
(* A block is a height and the fork it was mined on, which stands for its  *)
(* hash; it holds at most one matching log.  Ranges are one block wide and *)
(* the tip is polled, so every iteration of ingest_loop probes.  A row of  *)
(* raw_records, blocks or the typed table is [h, fork]; all three have one *)
(* row per height, their primary key.                                      *)
(***************************************************************************)
EXTENDS RangePlan, Sequences

CONSTANTS
    Confirmations,    \* blocks between the head and the safe tip
    RangeConcurrency, \* ranges of one drive of the loop
    MaxHead,          \* bound: length of the chain
    MaxUpsets,        \* bound: reorgs and backfills up to the head, together
    MaxDepth,         \* bound: blocks one reorg replaces
    MaxFaults         \* bound: crashes of the loop and failed decodes

ASSUME ReorgAssumption ==
    /\ Confirmations \in Nat /\ RangeConcurrency \in Nat \ {0}
    /\ {MaxHead, MaxUpsets, MaxDepth, MaxFaults} \subseteq Nat

VARIABLES
    canon, forks,               \* the canonical chain, and how many reorgs made it
    raw, blocks, typed,         \* the tables
    queue,                      \* heights of the items, the oldest first
    cursor,                     \* NoRow, or last_indexed_block
    pc,                         \* "down", "probe", "poll", "follow", "backfill", "drain"
    next,                       \* ingest_loop's next block
    todo, logged, fetched,      \* heights to fetch, and ranges past getLogs / fetch_aux
    writing,                    \* the range committed and not yet recorded, at most one
    frontier, waiting,          \* the PrefixTracker
    work,                       \* the chain's worker: the leased item, what it read
    indexed,                    \* history: heights committed and not rolled back
    backfills, faults           \* operator commands and faults so far

chain == <<canon, forks>>
db == <<raw, blocks, typed, queue, cursor, indexed>>
drive == <<todo, logged, fetched, writing, frontier, waiting>>
vars == <<chain, db, pc, next, drive, work, backfills, faults>>

NoRow == -1
StartBlock == 1
Idle == [at |-> "idle", rows |-> {}]

Init ==
    /\ canon = <<>> /\ forks = 0
    /\ raw = {} /\ blocks = {} /\ typed = {} /\ queue = <<>> /\ cursor = NoRow /\ indexed = {}
    /\ pc = "down" /\ next = StartBlock
    /\ todo = {} /\ logged = {} /\ fetched = {} /\ writing = {}
    /\ frontier = StartBlock /\ waiting = {}
    /\ work = Idle
    /\ backfills = 0 /\ faults = 0

head == Len(canon)
Minus(a, b) == IF a >= b THEN a - b ELSE 0
Heights(rows) == {r.h : r \in rows}
Below(rows, from) == {r \in rows : r.h < from}
Fault == faults < MaxFaults /\ faults' = faults + 1

-----------------------------------------------------------------------------
(* The chain.                                                              *)

Mine ==
    /\ head < MaxHead
    /\ \E log \in BOOLEAN : canon' = Append(canon, [fork |-> forks, log |-> log])
    /\ UNCHANGED <<forks, db, pc, next, drive, work, backfills, faults>>

\* The newest d blocks are replaced by as many others.
Fork ==
    /\ forks + backfills < MaxUpsets
    /\ forks' = forks + 1
    /\ \E d \in 1 .. Lesser(MaxDepth, head) : \E log \in [1..d -> BOOLEAN] :
          canon' = [h \in 1..head |->
              IF h <= head - d THEN canon[h]
              ELSE [fork |-> forks + 1, log |-> log[h - (head - d)]]]
    /\ UNCHANGED <<db, pc, next, drive, work, backfills, faults>>

-----------------------------------------------------------------------------
(* The loop, a backfill, and their pipeline.                               *)

Follow ==
    /\ pc = "down"
    /\ pc' = "probe"
    /\ next' = IF cursor = NoRow THEN StartBlock ELSE cursor + 1
    /\ UNCHANGED <<chain, db, drive, work, backfills, faults>>

StartDrive(from, to) ==
    /\ todo' = from .. to
    /\ logged' = {} /\ fetched' = {} /\ writing' = {}
    /\ frontier' = from /\ waiting' = {}

\* `backfill 1 to`: any block may be its end, confirmed or not.
Backfill ==
    /\ pc = "down"
    /\ forks + backfills < MaxUpsets /\ backfills' = backfills + 1
    /\ pc' = "backfill"
    /\ \E to \in StartBlock .. head : StartDrive(StartBlock, to)
    /\ UNCHANGED <<chain, db, next, work, faults>>

\* max_height, get: the highest stored block, if there is one.
Tip == {b \in blocks : \A c \in blocks : c.h <= b.h}

\* What the node says of a height: a block's hash is its fork.
block_hash(h) == IF h <= head THEN canon[h].fork ELSE NoRow

\* The highest stored block is not the canonical block of its height.
Diverged == \E b \in Tip : block_hash(b.h) \notin {NoRow, b.fork}

\* ReorgService::check finds nothing: no stored block, no such height, or equal.
ProbeOk ==
    /\ pc = "probe" /\ ~Diverged
    /\ pc' = "poll"
    /\ UNCHANGED <<chain, db, next, drive, work, backfills, faults>>

\* Faulty variant of Rollback: the raw records stay.
RollbackKeepsRaw ==
    /\ pc = "probe" /\ Diverged
    /\ \E b \in Tip :
          LET fork == Minus(b.h, Confirmations)
              from == fork + 1
          IN  /\ typed' = Below(typed, from)
              /\ blocks' = Below(blocks, from)
              /\ cursor' = IF cursor = NoRow THEN NoRow ELSE fork
              /\ indexed' = indexed \ (from .. MaxHead)
              /\ next' = from
    /\ pc' = "poll"
    /\ UNCHANGED <<chain, raw, queue, drive, work, backfills, faults>>

\* Faulty variant of Rollback: one block short, which leaves the orphaned tip.
RollbackShort ==
    /\ pc = "probe" /\ Diverged
    /\ \E b \in Tip :
          LET fork == Minus(b.h, Confirmations)
              from == fork + 2
          IN  /\ typed' = Below(typed, from)
              /\ raw' = Below(raw, from)
              /\ blocks' = Below(blocks, from)
              /\ cursor' = IF cursor = NoRow THEN NoRow ELSE fork
              /\ indexed' = indexed \ (from .. MaxHead)
              /\ next' = from
    /\ pc' = "poll"
    /\ UNCHANGED <<chain, queue, drive, work, backfills, faults>>

\* check found a divergence: rollback_to deletes from fork + 1 on, in one
\* transaction, and sets the cursor to the fork if there is a cursor row.
Rollback ==
    /\ pc = "probe" /\ Diverged
    /\ \E b \in Tip :
          LET fork == Minus(b.h, Confirmations)
              from == fork + 1
          IN  /\ typed' = Below(typed, from)
              /\ raw' = Below(raw, from)
              /\ blocks' = Below(blocks, from)
              /\ cursor' = IF cursor = NoRow THEN NoRow ELSE fork
              /\ indexed' = indexed \ (from .. MaxHead)
              /\ next' = from
    /\ pc' = "poll"
    /\ UNCHANGED <<chain, queue, drive, work, backfills, faults>>

\* Faulty variant of Poll: it follows the unconfirmed head.
PollHead ==
    LET safe == head
    IN  /\ pc = "poll"
        /\ IF safe >= next
             THEN /\ pc' = "follow"
                  /\ StartDrive(next, fetch_target(safe, next, 1, RangeConcurrency, TRUE))
             ELSE pc' = "probe" /\ UNCHANGED drive
        /\ UNCHANGED <<chain, db, next, work, backfills, faults>>

\* Faulty variant of Poll: `safe > next`.
PollStrict ==
    LET safe == Minus(head, Confirmations)
    IN  /\ pc = "poll"
        /\ IF safe > next
             THEN /\ pc' = "follow"
                  /\ StartDrive(next, fetch_target(safe, next, 1, RangeConcurrency, TRUE))
             ELSE pc' = "probe" /\ UNCHANGED drive
        /\ UNCHANGED <<chain, db, next, work, backfills, faults>>

Poll ==
    LET safe == Minus(head, Confirmations)
    IN  /\ pc = "poll"
        /\ IF safe >= next
             THEN /\ pc' = "follow"
                  /\ StartDrive(next, fetch_target(safe, next, 1, RangeConcurrency, TRUE))
             ELSE pc' = "probe" /\ UNCHANGED drive
        /\ UNCHANGED <<chain, db, next, work, backfills, faults>>

\* buffer_unordered: h is one of the first RangeConcurrency heights of those left.
InWindow(h, left) == Cardinality({q \in left : q < h}) < RangeConcurrency

\* fetch_records of one range ...
FetchLogs(h) ==
    /\ h \in todo /\ InWindow(h, todo \cup Heights(logged))
    /\ todo' = todo \ {h}
    /\ IF canon[h].log
         THEN logged' = logged \cup {[h |-> h, fork |-> canon[h].fork]} /\ UNCHANGED fetched
         ELSE fetched' = fetched \cup {[h |-> h, row |-> {}, meta |-> {}]} /\ UNCHANGED logged
    /\ UNCHANGED <<chain, db, pc, next, writing, frontier, waiting, work, backfills, faults>>

\* ... then its block, by number: the canonical one by now.
FetchAux(r) ==
    /\ r \in logged
    /\ logged' = logged \ {r}
    /\ fetched' = fetched \cup
          {[h |-> r.h, row |-> {r}, meta |-> {[h |-> r.h, fork |-> canon[r.h].fork]}]}
    /\ UNCHANGED <<chain, db, pc, next, todo, writing, frontier, waiting, work, backfills, faults>>

\* push_in_tx: nothing if the item is pending, leased or not.
Push(h) == IF h \in {queue[i] : i \in DOMAIN queue} THEN queue ELSE Append(queue, h)

\* commit_range: raw rows DO NOTHING, blocks DO UPDATE, and an item if there are
\* records, in one transaction.
Commit(f) ==
    /\ f \in fetched /\ InWindow(f.h, todo \cup Heights(logged) \cup Heights(fetched))
    /\ writing = {}
    /\ writing' = {f.h}
    /\ fetched' = fetched \ {f}
    /\ raw' = raw \cup {r \in f.row : r.h \notin Heights(raw)}
    /\ blocks' = {b \in blocks : b.h \notin Heights(f.meta)} \cup f.meta
    /\ queue' = IF f.row = {} THEN queue ELSE Push(f.h)
    /\ indexed' = indexed \cup {f.h}
    /\ UNCHANGED <<chain, typed, cursor, pc, next, todo, logged, frontier, waiting,
                   work, backfills, faults>>

\* Faulty variant of Record: the cursor goes to the range just committed.
RecordEager ==
    LET done == waiting \cup writing
    IN  /\ writing # {}
        /\ writing' = {}
        /\ \E g \in PrefixEnds({Span(h, h) : h \in done}, frontier) :
              /\ frontier' = g
              /\ waiting' = {h \in done : h >= g}
              /\ cursor' \in writing
        /\ UNCHANGED <<chain, raw, blocks, typed, queue, indexed, pc, next, todo, logged,
                       fetched, work, backfills, faults>>

\* PrefixTracker::record, and the cursor if the prefix grew.
Record ==
    LET done == waiting \cup writing
    IN  /\ writing # {}
        /\ writing' = {}
        /\ \E g \in PrefixEnds({Span(h, h) : h \in done}, frontier) :
              /\ frontier' = g
              /\ waiting' = {h \in done : h >= g}
              /\ cursor' = IF g # frontier THEN g - 1 ELSE cursor
        /\ UNCHANGED <<chain, raw, blocks, typed, queue, indexed, pc, next, todo, logged,
                       fetched, work, backfills, faults>>

DriveEnds ==
    /\ pc \in {"follow", "backfill"}
    /\ todo = {} /\ logged = {} /\ fetched = {} /\ writing = {}
    /\ pc' = IF pc = "follow" THEN "probe" ELSE "drain"
    /\ next' = frontier
    /\ UNCHANGED <<chain, db, drive, work, backfills, faults>>

\* backfill's drain_queue: it ends when the queue is empty.
Drained ==
    /\ pc = "drain" /\ queue = <<>>
    /\ pc' = "down"
    /\ UNCHANGED <<chain, db, next, drive, work, backfills, faults>>

\* The task fails, is killed or (a backfill) interrupted; the supervisor or the
\* operator starts it again.
Crash ==
    /\ pc # "down"
    /\ Fault
    /\ pc' = "down"
    /\ next' = StartBlock
    /\ todo' = {} /\ logged' = {} /\ fetched' = {} /\ writing' = {}
    /\ frontier' = StartBlock /\ waiting' = {}
    /\ UNCHANGED <<chain, db, work, backfills>>

-----------------------------------------------------------------------------
(* The decode worker that has the chain's turn (pull_any is serial within  *)
(* a chain; WorkQueue has the cases in which it is not).                   *)

\* pull_any: the oldest item.
Pull ==
    /\ work.at = "idle" /\ queue # <<>>
    /\ work' = [at |-> "read", rows |-> {}]
    /\ UNCHANGED <<chain, db, pc, next, drive, backfills, faults>>

\* decode_range reads the raw records of the range ...
ReadRaw ==
    /\ work.at = "read"
    /\ work' = [at |-> "write", rows |-> {r \in raw : r.h = Head(queue)}]
    /\ UNCHANGED <<chain, db, pc, next, drive, backfills, faults>>

\* ... and upserts what it decoded: INSERT ... ON CONFLICT DO NOTHING.
WriteTyped ==
    /\ work.at = "write"
    /\ typed' = typed \cup {r \in work.rows : r.h \notin Heights(typed)}
    /\ work' = [at |-> "ack", rows |-> {}]
    /\ UNCHANGED <<chain, raw, blocks, queue, cursor, indexed, pc, next, drive, backfills, faults>>

Ack ==
    /\ work.at = "ack"
    /\ queue' = Tail(queue)
    /\ work' = Idle
    /\ UNCHANGED <<chain, raw, blocks, typed, cursor, indexed, pc, next, drive, backfills, faults>>

\* Faulty variant of WorkerErr: the item is acked although its decode failed.
WorkerErrAcks ==
    /\ work.at # "idle"
    /\ Fault
    /\ work' = Idle
    /\ queue' = Tail(queue)
    /\ UNCHANGED <<chain, raw, blocks, typed, cursor, indexed, pc, next, drive, backfills>>

\* The decode fails or its process is killed: the item is reclaimed, still the
\* oldest, and the chain has no other in between.
WorkerErr ==
    /\ work.at # "idle"
    /\ Fault
    /\ work' = Idle
    /\ UNCHANGED <<chain, db, pc, next, drive, backfills>>

-----------------------------------------------------------------------------
Pipeline ==
    \/ \E h \in todo : FetchLogs(h)
    \/ \E r \in logged : FetchAux(r)
    \/ \E f \in fetched : Commit(f)
    \/ Record
    \/ DriveEnds \/ Drained

IngestLoop == Follow \/ ProbeOk \/ Rollback \/ Poll \/ Pipeline
Worker == Pull \/ ReadRaw \/ WriteTyped \/ Ack

Next ==
    \/ Mine \/ Fork
    \/ IngestLoop \/ Backfill \/ Crash
    \/ Worker \/ WorkerErr

Spec == Init /\ [][Next]_vars

\* The loop and the workers are tasks that go on for as long as the process
\* lives, and it is started again; the chain need not grow, and nothing has to
\* go wrong.
FairSpec == Spec /\ WF_vars(IngestLoop) /\ WF_vars(Worker)

-----------------------------------------------------------------------------
Rows == [h : 1..MaxHead, fork : 0..MaxUpsets]

\* The rows that the canonical chain has up to a height.
CanonRows(to) == {[h |-> h, fork |-> canon[h].fork] : h \in {k \in 1..head : k <= to /\ canon[k].log}}

\* While reorgs replace at most `confirmations` blocks and only the loop indexes,
\* nothing the indexer stores is ever orphaned: not by a reorg between the poll
\* of the head and the fetch, between the two fetches of a range, or before the
\* commit or the decode.
StoredCanonical ==
    backfills = 0 => raw \cup blocks \cup typed \subseteq CanonRows(head)

\* commit_ingest and rollback_to are atomic: a raw row and the block that the
\* probe would find it by come and go together, whatever forks and crashes.
RawHasBlock == Heights(raw) = Heights(blocks)

\* No backfill was interrupted: one drains the queue before the loop starts.
Uninterrupted == backfills = 0 \/ faults = 0

\* ARCHITECTURE.md:205, "enqueue shares the same transaction as the raw insert
\* => exactly-once enqueue": a raw row that is not decoded has an item pending.
\* The exception is a rollback of a range whose item is pending: a worker may read
\* the range before the rows that replace the rolled-back ones are committed, and
\* their own push finds the item there.  It takes a backfill that was interrupted,
\* or two of them, the second one to a lower block.
UndecodedIsQueued ==
    Uninterrupted /\ backfills <= 1 =>
        \A h \in Heights(raw) \ Heights(typed) : \E i \in DOMAIN queue : queue[i] = h

\* unit_of_work.rs:66, "the cursor rewinds to the fork", and plan.rs:122: the
\* cursor stays at a gap-free checkpoint. All blocks up to it were committed.  The
\* exception is a backfill that was interrupted: it may have committed blocks
\* above the cursor, and the rollback of such a block moves the cursor forward.
NoGapBelowCursor == Uninterrupted => StartBlock .. cursor \subseteq indexed

\* reorg.rs:4, "Correct while reorg depth <= confirmations": once the chain is
\* quiet, the raw store is that of the canonical chain, up to the cursor.
RawConverges == <>[](Below(raw, cursor + 1) = CanonRows(cursor))

\* The same of the typed tables, with everything confirmed indexed, if only the
\* loop indexes.
Converges ==
    <>[](backfills > 0 \/
         /\ Below(typed, cursor + 1) = CanonRows(cursor)
         /\ 1 .. Minus(head, Confirmations) \subseteq 1 .. cursor)

\* If the highest stored block is orphaned, the probe gets rid of it.
StaleTipRepaired == Diverged ~> ~Diverged

=============================================================================
