------------------------------ MODULE WorkQueue ------------------------------
(***************************************************************************)
(* The Postgres work queue (crates/db/src/repositories/queue_repo.rs) and  *)
(* the decode workers that drain it (crates/services/src/worker.rs, the    *)
(* loops of bins/indexer-cli/src/worker.rs).                               *)
(*                                                                         *)
(* work_queue maps the id of each row to the row.  locked_at keeps what    *)
(* the code tells apart: no lease ("null"), a lease younger than the 60 s  *)
(* visibility timeout ("fresh") and one older than it ("expired").         *)
(*                                                                         *)
(* Every statement is one step, except pull_any.  Its sub-select reads a   *)
(* READ COMMITTED snapshot and locks a row that concurrent pulls skip; its *)
(* lease becomes visible only when the transaction commits.  It is two     *)
(* steps: PullLock and PullCommit.                                         *)
(***************************************************************************)
EXTENDS Naturals, FiniteSets

CONSTANTS
    Chains,     \* chain ids
    Ranges,     \* the block ranges that are ever enqueued
    Workers,    \* decode workers, of any number of processes
    Decoders,   \* Decoders[w]: the chains whose decoder w's process was built with
    MaxId,      \* bound: ids the table's sequence hands out
    MaxFaults   \* bound: decode errors, crashes and leases outlived by their worker

ASSUME DecodersAssumption == Decoders \in [Workers -> SUBSET Chains]
ASSUME BoundsAssumption == MaxId \in Nat /\ MaxFaults \in Nat

VARIABLES
    work_queue, \* the table: id -> [chain, range, locked_at, lease_seq]
    next_id,    \* the BIGSERIAL sequence behind work_queue.id
    pc,         \* pc[w]: where worker w is in run_once
    lease,      \* lease[w]: the row w locks or the Lease it was handed
    faults,     \* faults so far (bounded by MaxFaults)
    pushed,     \* history: id -> chain of every row ever inserted
    decoded     \* history: ids whose range some worker decoded to the end

vars == <<work_queue, next_id, pc, lease, faults, pushed, decoded>>

NoLease == [id |-> 0, seq |-> 0]

Init ==
    /\ work_queue = [id \in {} |-> NoLease]
    /\ next_id = 1
    /\ pc = [w \in Workers |-> "idle"]
    /\ lease = [w \in Workers |-> NoLease]
    /\ faults = 0
    /\ pushed = [id \in {} |-> NoLease]
    /\ decoded = {}

-----------------------------------------------------------------------------
(* The ingest side: push_in_tx, inside the transaction of commit_ingest.   *)

\* The unique index on (chain_id, from_height, to_height, kind): a row with
\* this key is still in the table, leased or not.
Pending(c, r) ==
    \E id \in DOMAIN work_queue : work_queue[id].chain = c /\ work_queue[id].range = r

\* ON CONFLICT DO NOTHING: a duplicate inserts nothing, yet uses up an id.
Push(c, r) ==
    /\ next_id <= MaxId
    /\ next_id' = next_id + 1
    /\ IF Pending(c, r)
         THEN UNCHANGED <<work_queue, pushed>>
         ELSE /\ work_queue' = [id \in DOMAIN work_queue \cup {next_id} |->
                    IF id = next_id
                      THEN [chain |-> c, range |-> r, locked_at |-> "null", lease_seq |-> 0]
                      ELSE work_queue[id]]
              /\ pushed' = [id \in DOMAIN pushed \cup {next_id} |->
                    IF id = next_id THEN c ELSE pushed[id]]
    /\ UNCHANGED <<pc, lease, faults, decoded>>

-----------------------------------------------------------------------------
(* The worker side: run_once, looped by spawn_decode_worker.               *)

InFlight == {id \in DOMAIN work_queue : work_queue[id].locked_at # "null"}

\* The row locks held by pulls that have not committed.
RowLocked(id) == \E w \in Workers : pc[w] = "pulling" /\ lease[w].id = id

\* Faulty variant of Ready: only rows that were never leased before.
ReadyOnce ==
    {id \in DOMAIN work_queue :
        /\ work_queue[id].locked_at = "null" /\ work_queue[id].lease_seq = 0
        /\ \A j \in InFlight : work_queue[j].chain # work_queue[id].chain
        /\ ~RowLocked(id)}

\* The rows the sub-select of pull_any may return: unleased, of a chain with
\* nothing in flight in the snapshot, and not skipped as locked.
Ready ==
    {id \in DOMAIN work_queue :
        /\ work_queue[id].locked_at = "null"
        /\ \A j \in InFlight : work_queue[j].chain # work_queue[id].chain
        /\ ~RowLocked(id)}

PullLock(w) ==
    /\ pc[w] = "idle"
    /\ \E id \in Ready :
          /\ \A j \in Ready : id <= j
          /\ lease' = [lease EXCEPT ![w] = [id |-> id, seq |-> work_queue[id].lease_seq]]
    /\ pc' = [pc EXCEPT ![w] = "pulling"]
    /\ UNCHANGED <<work_queue, next_id, faults, pushed, decoded>>

PullCommit(w) ==
    /\ pc[w] = "pulling"
    /\ LET id == lease[w].id
           seq == work_queue[id].lease_seq + 1
       IN  /\ work_queue' = [work_queue EXCEPT
                  ![id] = [@ EXCEPT !.locked_at = "fresh", !.lease_seq = seq]]
           /\ lease' = [lease EXCEPT ![w] = [id |-> id, seq |-> seq]]
    /\ pc' = [pc EXCEPT ![w] = "decoding"]
    /\ UNCHANGED <<next_id, faults, pushed, decoded>>

\* decode_range returned Ok.
DecodeOk(w) ==
    /\ pc[w] = "decoding"
    /\ pushed[lease[w].id] \in Decoders[w]
    /\ decoded' = decoded \cup {lease[w].id}
    /\ pc' = [pc EXCEPT ![w] = "acking"]
    /\ UNCHANGED <<work_queue, next_id, lease, faults, pushed>>

\* No decoder for the item's chain: logged, and acked all the same.
SkipDecode(w) ==
    /\ pc[w] = "decoding"
    /\ pushed[lease[w].id] \notin Decoders[w]
    /\ pc' = [pc EXCEPT ![w] = "acking"]
    /\ UNCHANGED <<work_queue, next_id, lease, faults, pushed, decoded>>

\* Faulty variant of Ack: DELETE ... WHERE id = $1, without the fence.
AckById(w) ==
    /\ pc[w] = "acking"
    /\ ~RowLocked(lease[w].id)
    /\ work_queue' = [id \in DOMAIN work_queue \ {lease[w].id} |-> work_queue[id]]
    /\ pc' = [pc EXCEPT ![w] = "idle"]
    /\ lease' = [lease EXCEPT ![w] = NoLease]
    /\ UNCHANGED <<next_id, faults, pushed, decoded>>

\* DELETE ... WHERE id = $1 AND lease_seq = $2: a superseded lease matches no
\* row, which is not an error.  The DELETE waits for the row lock of a pull.
Ack(w) ==
    /\ pc[w] = "acking"
    /\ ~RowLocked(lease[w].id)
    /\ LET acked == {id \in DOMAIN work_queue :
                        id = lease[w].id /\ work_queue[id].lease_seq = lease[w].seq}
       IN  work_queue' = [id \in DOMAIN work_queue \ acked |-> work_queue[id]]
    /\ pc' = [pc EXCEPT ![w] = "idle"]
    /\ lease' = [lease EXCEPT ![w] = NoLease]
    /\ UNCHANGED <<next_id, faults, pushed, decoded>>

\* Faulty variant of RunOnceErr: the item is acked although its decode failed.
RunOnceErrAcks(w) ==
    /\ pc[w] = "decoding"
    /\ faults < MaxFaults
    /\ faults' = faults + 1
    /\ work_queue' = [id \in DOMAIN work_queue \ {lease[w].id} |-> work_queue[id]]
    /\ pc' = [pc EXCEPT ![w] = "idle"]
    /\ lease' = [lease EXCEPT ![w] = NoLease]
    /\ UNCHANGED <<next_id, pushed, decoded>>

\* The pull, decode_range or the ack failed: run_once returns the error before
\* (or instead of) the ack and the loop goes on as if the queue were empty.
\* A transaction that was still open is rolled back.
RunOnceErr(w) ==
    /\ pc[w] # "idle"
    /\ faults < MaxFaults
    /\ faults' = faults + 1
    /\ pc' = [pc EXCEPT ![w] = "idle"]
    /\ lease' = [lease EXCEPT ![w] = NoLease]
    /\ UNCHANGED <<work_queue, next_id, pushed, decoded>>

-----------------------------------------------------------------------------
(* Time, and the reclaim ticker.                                           *)

\* w works on row id under the lease the table still records.
HoldsCurrent(w, id) ==
    /\ pc[w] \in {"decoding", "acking"}
    /\ lease[w].id = id
    /\ id \in DOMAIN work_queue
    /\ lease[w].seq = work_queue[id].lease_seq

\* A lease grows older than the visibility timeout.  If its worker is still
\* alive and working, this is a fault: the worker is slower than the timeout.
LeaseExpires(id) ==
    /\ id \in InFlight
    /\ work_queue[id].locked_at = "fresh"
    /\ IF \E w \in Workers : HoldsCurrent(w, id)
         THEN faults < MaxFaults /\ faults' = faults + 1
         ELSE UNCHANGED faults
    /\ work_queue' = [work_queue EXCEPT ![id] = [@ EXCEPT !.locked_at = "expired"]]
    /\ UNCHANGED <<next_id, pc, lease, pushed, decoded>>

\* Faulty variant of Reclaim: the row is unlocked and lease_seq left alone.
ReclaimKeepsSeq ==
    /\ \E id \in DOMAIN work_queue : work_queue[id].locked_at = "expired"
    /\ work_queue' = [id \in DOMAIN work_queue |->
          IF work_queue[id].locked_at = "expired"
            THEN [work_queue[id] EXCEPT !.locked_at = "null"]
            ELSE work_queue[id]]
    /\ UNCHANGED <<next_id, pc, lease, faults, pushed, decoded>>

\* reclaim_expired: every expired row is unlocked, and its lease_seq bumped.
Reclaim ==
    /\ \E id \in DOMAIN work_queue : work_queue[id].locked_at = "expired"
    /\ work_queue' = [id \in DOMAIN work_queue |->
          IF work_queue[id].locked_at = "expired"
            THEN [work_queue[id] EXCEPT !.locked_at = "null", !.lease_seq = @ + 1]
            ELSE work_queue[id]]
    /\ UNCHANGED <<next_id, pc, lease, faults, pushed, decoded>>

-----------------------------------------------------------------------------
WorkerStep(w) ==
    \/ PullLock(w) \/ PullCommit(w)
    \/ DecodeOk(w) \/ SkipDecode(w)
    \/ Ack(w)

Next ==
    \/ \E c \in Chains, r \in Ranges : Push(c, r)
    \/ \E w \in Workers : WorkerStep(w) \/ RunOnceErr(w)
    \/ \E id \in DOMAIN work_queue : LeaseExpires(id)
    \/ Reclaim

Spec == Init /\ [][Next]_vars

\* Workers and the ticker are tokio tasks that loop for as long as the process
\* lives, and an abandoned lease grows old; nothing obliges a fault to happen.
Fairness ==
    /\ \A w \in Workers : WF_vars(WorkerStep(w))
    /\ WF_vars(Reclaim)
    /\ \A id \in 1..MaxId :
          WF_vars((\A w \in Workers : ~HoldsCurrent(w, id)) /\ LeaseExpires(id))

FairSpec == Spec /\ Fairness

-----------------------------------------------------------------------------
Row == [chain : Chains, range : Ranges,
        locked_at : {"null", "fresh", "expired"}, lease_seq : Nat]

\* The type of every variable: rows are only ever inserted (and remembered in
\* the history) by push_in_tx, under ids that the sequence has handed out.
TypeOK ==
    /\ next_id \in Nat \ {0}
    /\ DOMAIN work_queue \subseteq DOMAIN pushed
    /\ DOMAIN pushed \subseteq 1..(next_id - 1)
    /\ work_queue \in [DOMAIN work_queue -> Row]
    /\ pushed \in [DOMAIN pushed -> Chains]
    /\ pc \in [Workers -> {"idle", "pulling", "decoding", "acking"}]
    /\ lease \in [Workers -> [id : Nat, seq : Nat]]
    /\ faults \in 0..MaxFaults
    /\ decoded \subseteq DOMAIN pushed

Working(w) == pc[w] \in {"decoding", "acking"}

\* ack and reclaim_expired fence by lease_seq.  However slow a worker is and
\* however often its row is reclaimed and leased again, no two workers hold
\* the same (id, lease_seq), and one whose lease_seq is the row's own is the
\* row's only rightful holder: the row is leased, so nobody else can pull it.
LeaseExclusive ==
    /\ \A v, w \in Workers :
          (v # w /\ Working(v) /\ Working(w)) => lease[v] # lease[w]
    /\ \A w \in Workers : \A id \in DOMAIN work_queue :
          HoldsCurrent(w, id) => id \in InFlight /\ ~RowLocked(id)

\* "At-least-once": a row that every worker can decode leaves the table only
\* after some worker has decoded it to the end, across decode errors, lost
\* workers, reclaims and late acks (run_once acks only after decode_range).
AtLeastOnce ==
    \A id \in DOMAIN pushed :
        (\A w \in Workers : pushed[id] \in Decoders[w])
            => id \in DOMAIN work_queue \cup decoded

\* What the queue promises (Leasing), told of the table and the workers: an item
\* is open while its row is there, and the worker that holds it is the one whose
\* lease_seq is the row's.
Seen == [null |-> "ready", fresh |-> "leased", expired |-> "late"]

Leases == INSTANCE Leasing WITH
    Ids <- 1..MaxId,
    accepted <- pushed,
    item <- [id \in DOMAIN work_queue |-> Seen[work_queue[id].locked_at]],
    held <- {p \in Workers \X DOMAIN work_queue : HoldsCurrent(p[1], p[2])}

\* pull_any, ack and reclaim_expired implement leases that exclude each other: a
\* row that a worker holds leaves the table only by that worker's own ack, after
\* the decode, and is handed out again only after the reclaim of an expired lease;
\* an ack or an error of a worker that has lost its lease changes nothing.
ImplementsLeasing == Leases!Spec

\* Once faults stop, every row leaves the table: abandoned leases expire, are
\* reclaimed and pulled again, and no chain waits forever for another.
EventuallyDrained ==
    \A id \in 1..MaxId : id \in DOMAIN work_queue ~> id \notin DOMAIN work_queue

=============================================================================
