------------------------------- MODULE Commands -------------------------------
(***************************************************************************)
(* The long-running commands of bins/indexer-cli (commands.rs) as one      *)
(* process: `run` with a supervised ingest task per chain (supervisor.rs), *)
(* `follow` and `backfill` of one chain, `decode`; their decode workers    *)
(* (worker.rs), the shutdown token (shutdown.rs) and the spend ledger that *)
(* stops an ingest loop at the plan's quota.                               *)
(*                                                                         *)
(* What a window stores and where the cursor goes is Pipeline's subject,   *)
(* what a worker does with an item WorkQueue's.  Here a window is a number *)
(* of ranges whose fetches spend units, up to RangeConcurrency at a time,  *)
(* and the queue is its depth.                                             *)
(***************************************************************************)
EXTENDS Pricing, Sequences, FiniteSets

CONSTANTS
    ChainList,         \* the configured chains, in order
    Workers,           \* decode workers of the pool
    Quota,             \* Quota[c]: monthly_quota of c's plan, or NoQuota
    RangeConcurrency,
    RangeCost,         \* units one fetch_range spends
    ProbeCost,         \* most that reorg probe, head poll and subscription of a tick spend
    BackfillRanges,    \* ranges of a backfill
    MaxDepth,          \* bound: items in the queue
    MaxFaults          \* bound: failed attempts, failed decodes and panics

Chains == {ChainList[i] : i \in DOMAIN ChainList}

\* What an attempt may spend after the last look at the quota.
Overshoot == ProbeCost + RangeConcurrency * RangeCost

ASSUME CommandsAssumption ==
    /\ ChainList \in Seq(Chains) /\ ChainList # <<>> /\ Quota \in [Chains -> Nat \cup {NoQuota}]
    /\ {RangeConcurrency, RangeCost, BackfillRanges} \subseteq Nat \ {0}
    /\ {ProbeCost, MaxDepth, MaxFaults} \subseteq Nat

VARIABLES
    command,    \* "run", "follow", "backfill" or "decode"
    proc,       \* "boot", "up", "exited" or "failed"
    booting,    \* index in ChainList of the next chain to boot
    decoders,   \* chains in the decoder map of the worker pool
    token,      \* the shutdown token is cancelled
    worker_token,   \* the backfill's child token is cancelled
    task,       \* task[c]: where c's ingest is
    backoff,    \* backoff[c]: seconds before the next restart
    ledger,     \* ledger[c]: units of the current attempt
    left,       \* left[c]: ranges of the window whose fetch has not started
    slot,       \* slot[c][i]: units spent by the i-th fetch in flight, Idle for none
    worker,     \* worker[w]: "absent", "polling", "busy", "done" or "dead"
    depth,      \* rows in the work queue
    faults      \* faults so far (bounded by MaxFaults)

Idle == RangeCost + 1
Slots == 1 .. RangeConcurrency
NoFetch == [i \in Slots |-> Idle]

boot == <<command, booting, decoders>>
ingest == <<task, backoff, ledger, left, slot>>
queue == <<worker, depth>>
tokens == <<token, worker_token>>
vars == <<boot, proc, ingest, queue, tokens, faults>>

Init ==
    /\ command \in {"run", "follow", "backfill", "decode"}
    /\ proc = "boot" /\ booting = 1 /\ decoders = {}
    /\ token = FALSE /\ worker_token = FALSE
    /\ task = [c \in Chains |-> "absent"]
    /\ backoff = [c \in Chains |-> 1]
    /\ ledger = [c \in Chains |-> EmptyLedger]
    /\ left = [c \in Chains |-> 0]
    /\ slot = [c \in Chains |-> NoFetch]
    /\ worker = [w \in Workers |-> "absent"]
    /\ depth \in {0, 1}
    /\ faults = 0

Fault == faults < MaxFaults /\ faults' = faults + 1

\* SIGINT or SIGTERM.  Only `run` has its token before the chains are booted.
Signal ==
    /\ ~token /\ (proc # "boot" \/ command = "run")
    /\ token' = TRUE
    /\ UNCHANGED <<boot, proc, ingest, queue, worker_token, faults>>

-----------------------------------------------------------------------------
(* Boot: chain after chain, then the worker pool.                          *)

\* The chains a command wires up: all of them, or the one it is given.
Wired == IF command \in {"run", "decode"} THEN Len(ChainList) ELSE 1

SpawnPool == worker' = [w \in Workers |-> "polling"]

\* Faulty variant of BootChain: the worker pool starts with the first chain.
BootChainPoolFirst ==
    /\ proc = "boot" /\ booting <= Wired
    /\ LET c == ChainList[booting]
       IN  /\ decoders' = IF booting = 1 THEN {c} ELSE decoders
           /\ task' = IF command = "decode" THEN task ELSE [task EXCEPT ![c] = "build"]
    /\ booting' = booting + 1
    /\ SpawnPool
    /\ UNCHANGED <<command, proc, backoff, ledger, left, slot, depth, tokens, faults>>

\* The decoder is built and the preflight passes; `run` spawns the supervised
\* task at once, `follow` and `backfill` reach their ingest after the pool.
BootChain ==
    /\ proc = "boot" /\ booting <= Wired
    /\ LET c == ChainList[booting]
       IN  /\ decoders' = decoders \cup {c}
           /\ task' = IF command = "run" THEN [task EXCEPT ![c] = "build"] ELSE task
    /\ booting' = booting + 1
    /\ UNCHANGED <<command, proc, backoff, ledger, left, slot, queue, tokens, faults>>

\* A bad ABI, an unreachable node (follow, backfill) or a schema out of sync:
\* the command ends, and with it the tasks it has already spawned.
BootFails ==
    /\ proc = "boot" /\ booting <= Wired
    /\ proc' = "failed"
    /\ task' = [c \in Chains |-> "absent"]
    /\ UNCHANGED <<boot, backoff, ledger, left, slot, queue, tokens, faults>>

\* What each command goes on to once its pool runs.
run == command = "run" /\ UNCHANGED <<task, left>>

decode_workers == command = "decode" /\ UNCHANGED <<task, left>>

follow ==
    /\ command = "follow"
    /\ task' = [task EXCEPT ![ChainList[1]] = "top"] /\ UNCHANGED left

backfill ==
    /\ command = "backfill"
    /\ task' = [task EXCEPT ![ChainList[1]] = "drive"]
    /\ left' = [left EXCEPT ![ChainList[1]] = BackfillRanges]

SpawnWorkers ==
    /\ proc = "boot" /\ booting > Wired
    /\ proc' = "up"
    /\ SpawnPool
    /\ run \/ follow \/ backfill \/ decode_workers
    /\ UNCHANGED <<boot, backoff, ledger, slot, depth, tokens, faults>>

-----------------------------------------------------------------------------
(* run_chain_once and ingest_loop.                                         *)

Running == proc \in {"boot", "up"}

\* build_chain: a new source, and with it an empty ledger.
BuildChain(c) ==
    /\ Running /\ task[c] = "build"
    /\ task' = [task EXCEPT ![c] = "top"]
    /\ ledger' = [ledger EXCEPT ![c] = EmptyLedger]
    /\ UNCHANGED <<boot, proc, backoff, left, slot, queue, tokens, faults>>

Stopped(c) == token \/ quota_exhausted(ledger[c], Quota[c])

\* Units go to the ledger; one that no quota looks at is left at zero.
Charge(c, units) ==
    ledger' = [ledger EXCEPT ![c] =
        IF Quota[c] = NoQuota THEN @ ELSE record(@, [units |-> units, micro_usd |-> 0])]

\* The head of an iteration: leave, or probe for a reorg and poll the head
\* (idle websocket ticks do neither) and go on to a window or to the wait.
LoopTop(c) ==
    /\ Running /\ task[c] = "top"
    /\ IF Stopped(c)
         THEN task' = [task EXCEPT ![c] = "returned"] /\ UNCHANGED <<ledger, left>>
         ELSE \E p \in 0 .. ProbeCost, window \in 0 .. RangeConcurrency :
                /\ Charge(c, p)
                /\ left' = [left EXCEPT ![c] = window]
                /\ task' = [task EXCEPT ![c] = IF window = 0 THEN "wait" ELSE "drive"]
    /\ UNCHANGED <<boot, proc, backoff, slot, queue, tokens, faults>>

\* buffer_unordered starts the next fetch.
StartFetch(c, i) ==
    /\ Running /\ task[c] = "drive"
    /\ left[c] > 0 /\ slot[c][i] = Idle /\ \A j \in 1 .. i - 1 : slot[c][j] # Idle
    /\ left' = [left EXCEPT ![c] = @ - 1]
    /\ slot' = [slot EXCEPT ![c][i] = 0]
    /\ UNCHANGED <<boot, proc, task, backoff, ledger, queue, tokens, faults>>

FetchCall(c, i) ==
    /\ Running /\ task[c] = "drive"
    /\ slot[c][i] < RangeCost
    /\ slot' = [slot EXCEPT ![c][i] = @ + 1]
    /\ Charge(c, 1)
    /\ UNCHANGED <<boot, proc, task, backoff, left, queue, tokens, faults>>

\* Where an ingest_loop or a backfill goes when its drive was stopped.
AfterStop == IF command = "backfill" THEN "drain" ELSE "returned"

\* Faulty variant of FetchDone: only the token is looked at.
FetchDoneNoQuota(c, i) ==
    /\ Running /\ task[c] = "drive" /\ slot[c][i] = RangeCost
    /\ IF token
         THEN /\ task' = [task EXCEPT ![c] = AfterStop]
              /\ slot' = [slot EXCEPT ![c] = NoFetch]
              /\ left' = [left EXCEPT ![c] = 0]
              /\ UNCHANGED depth
         ELSE /\ slot' = [slot EXCEPT ![c][i] = Idle]
              /\ depth' = IF depth < MaxDepth THEN depth + 1 ELSE depth
              /\ UNCHANGED <<task, left>>
    /\ UNCHANGED <<boot, proc, backoff, ledger, worker, tokens, faults>>

\* The producer takes a finished fetch: it stops feeding, and drops the other
\* fetches, or the range is committed and its work item enqueued.
FetchDone(c, i) ==
    /\ Running /\ task[c] = "drive" /\ slot[c][i] = RangeCost
    /\ IF Stopped(c)
         THEN /\ task' = [task EXCEPT ![c] = AfterStop]
              /\ slot' = [slot EXCEPT ![c] = NoFetch]
              /\ left' = [left EXCEPT ![c] = 0]
              /\ UNCHANGED depth
         ELSE /\ slot' = [slot EXCEPT ![c][i] = Idle]
              /\ depth' = IF depth < MaxDepth THEN depth + 1 ELSE depth
              /\ UNCHANGED <<task, left>>
    /\ UNCHANGED <<boot, proc, backoff, ledger, worker, tokens, faults>>

\* The window is complete: wait for the next tick, or go on if still behind.
DriveDone(c) ==
    /\ Running /\ task[c] = "drive"
    /\ left[c] = 0 /\ slot[c] = NoFetch
    /\ \E next \in IF command = "backfill" THEN {"drain"} ELSE {"wait", "top"} :
          task' = [task EXCEPT ![c] = next]
    /\ UNCHANGED <<boot, proc, backoff, ledger, left, slot, queue, tokens, faults>>

\* The select at the end of the loop: the token wins at once.
Wake(c) ==
    /\ Running /\ task[c] = "wait"
    /\ \E next \in IF token THEN {"returned", "top"} ELSE {"top"} :
          task' = [task EXCEPT ![c] = next]
    /\ UNCHANGED <<boot, proc, backoff, ledger, left, slot, queue, tokens, faults>>

-----------------------------------------------------------------------------
(* supervised_ingest, and the commands that do without it.                 *)

\* Faulty variant of AttemptFails: a panic ends the supervisor as well.
AttemptFailsForGood(c) ==
    /\ Running /\ task[c] \in {"build", "top", "drive"}
    /\ Fault
    /\ left' = [left EXCEPT ![c] = 0] /\ slot' = [slot EXCEPT ![c] = NoFetch]
    /\ IF command = "run"
         THEN task' = [task EXCEPT ![c] = "done"] /\ UNCHANGED proc
         ELSE task' = [d \in Chains |-> "absent"] /\ proc' = "failed"
    /\ UNCHANGED <<boot, backoff, ledger, queue, tokens>>

\* build_chain, a probe, the head poll, a fetch or a commit fails or panics.
\* `run` restarts the chain later; `follow` and `backfill` end with the error.
AttemptFails(c) ==
    /\ Running /\ task[c] \in {"build", "top", "drive"}
    /\ Fault
    /\ left' = [left EXCEPT ![c] = 0] /\ slot' = [slot EXCEPT ![c] = NoFetch]
    /\ IF command = "run"
         THEN task' = [task EXCEPT ![c] = "backoff"] /\ UNCHANGED proc
         ELSE task' = [d \in Chains |-> "absent"] /\ proc' = "failed"
    /\ UNCHANGED <<boot, backoff, ledger, queue, tokens>>

\* ingest_loop returned Ok(()): the supervisor returns, whatever the reason.
AttemptReturns(c) ==
    /\ Running /\ task[c] = "returned"
    /\ task' = [task EXCEPT ![c] = "done"]
    /\ UNCHANGED <<boot, proc, backoff, ledger, left, slot, queue, tokens, faults>>

\* The sleep is over, or the token cuts it short.
Restart(c) ==
    /\ Running /\ task[c] = "backoff"
    /\ task' = [task EXCEPT ![c] = IF token THEN "done" ELSE "build"]
    /\ backoff' = [backoff EXCEPT ![c] = IF 2 * @ <= 30 THEN 2 * @ ELSE 30]
    /\ UNCHANGED <<boot, proc, ledger, left, slot, queue, tokens, faults>>

\* Faulty variant of drain_queue: the workers are not told to stop.
drain_queue_only(c) ==
    /\ Running /\ task[c] = "drain"
    /\ token \/ depth = 0
    /\ task' = [task EXCEPT ![c] = "done"]
    /\ UNCHANGED <<boot, proc, backoff, ledger, left, slot, queue, tokens, faults>>

\* The backfill waits for an empty queue, then stops its workers.
drain_queue(c) ==
    /\ Running /\ task[c] = "drain"
    /\ token \/ depth = 0
    /\ worker_token' = TRUE
    /\ task' = [task EXCEPT ![c] = "done"]
    /\ UNCHANGED <<boot, proc, backoff, ledger, left, slot, queue, token, faults>>

-----------------------------------------------------------------------------
(* The worker pool.                                                        *)

StopWorkers == token \/ worker_token
Busy == {w \in Workers : worker[w] = "busy"}

PullItem(w) ==
    /\ proc = "up" /\ worker[w] = "polling" /\ ~StopWorkers
    /\ Cardinality(Busy) < depth
    /\ worker' = [worker EXCEPT ![w] = "busy"]
    /\ UNCHANGED <<boot, proc, ingest, depth, tokens, faults>>

ItemDone(w) ==
    /\ proc = "up" /\ worker[w] = "busy"
    /\ worker' = [worker EXCEPT ![w] = "polling"]
    /\ depth' = depth - 1
    /\ UNCHANGED <<boot, proc, ingest, tokens, faults>>

\* run_once fails: logged, and the item stays in the queue.  A panic takes the
\* worker with it: nobody restarts it.
ItemFails(w) ==
    /\ proc = "up" /\ worker[w] = "busy"
    /\ Fault
    /\ \E next \in {"polling", "dead"} : worker' = [worker EXCEPT ![w] = next]
    /\ UNCHANGED <<boot, proc, ingest, depth, tokens>>

\* Faulty variant of WorkerStops: the token is looked at only when the queue
\* is empty.
WorkerStopsIdle(w) ==
    /\ proc = "up" /\ worker[w] = "polling" /\ StopWorkers /\ depth = 0
    /\ worker' = [worker EXCEPT ![w] = "done"]
    /\ UNCHANGED <<boot, proc, ingest, depth, tokens, faults>>

WorkerStops(w) ==
    /\ proc = "up" /\ worker[w] = "polling" /\ StopWorkers
    /\ worker' = [worker EXCEPT ![w] = "done"]
    /\ UNCHANGED <<boot, proc, ingest, depth, tokens, faults>>

\* Every handle has been awaited.
Exit ==
    /\ proc = "up"
    /\ \A c \in Chains : task[c] \in {"absent", "done"}
    /\ \A w \in Workers : worker[w] \in {"done", "dead"}
    /\ proc' = "exited"
    /\ UNCHANGED <<boot, ingest, queue, tokens, faults>>

-----------------------------------------------------------------------------
Booting == BootChain \/ SpawnWorkers

ChainStep(c) ==
    \/ BuildChain(c) \/ LoopTop(c)
    \/ \E i \in Slots : StartFetch(c, i) \/ FetchCall(c, i) \/ FetchDone(c, i)
    \/ DriveDone(c) \/ Wake(c)
    \/ AttemptReturns(c) \/ Restart(c) \/ drain_queue(c)

WorkerStep(w) == PullItem(w) \/ ItemDone(w) \/ WorkerStops(w)

Next ==
    \/ Signal \/ Booting \/ BootFails \/ Exit
    \/ \E c \in Chains : ChainStep(c) \/ AttemptFails(c)
    \/ \E w \in Workers : WorkerStep(w) \/ ItemFails(w)

Spec == Init /\ [][Next]_vars

\* Every task is polled by the runtime: RPC calls, sleeps and decodes end.
\* Neither a signal nor a fault has to happen.
Fairness ==
    /\ WF_vars(Booting) /\ WF_vars(Exit)
    /\ \A c \in Chains : WF_vars(ChainStep(c))
    /\ \A w \in Workers : WF_vars(WorkerStep(w))

FairSpec == Spec /\ Fairness

-----------------------------------------------------------------------------
\* A worker acks an item of a chain it has no decoder for without decoding it.
\* So no worker may run before the decoder map holds every chain that this
\* process ingests: the pool is spawned after the boot loop.
PoolKnowsChains ==
    (\E w \in Workers : worker[w] \in {"polling", "busy"}) =>
        \A c \in Chains : task[c] # "absent" => c \in decoders

\* The supervisor takes Ok(()) for a "clean shutdown (cancelled)" and says that it
\* "returns only on cancellation".  No error and no panic ends a chain under `run`;
\* but ingest_loop also returns Ok when the quota of the plan is used up, and then
\* the chain ends without a signal.  That is the one exception.
EndsForAReason ==
    \A c \in Chains : (command = "run" /\ task[c] = "done") =>
        token \/ quota_exhausted(ledger[c], Quota[c])

\* The guard is there to stop "before the allotment is blown", and does not: it is
\* looked at between fetches only.  This is what it does give, for one attempt (a
\* restarted chain has an empty ledger): an overrun of less than one probe plus the
\* fetches that were in flight.
OverrunBounded ==
    \A c \in Chains : Quota[c] # NoQuota => ledger[c].units < Greater(Quota[c], 1) + Overshoot

\* A signal ends the process: every chain, also one that is sleeping before a
\* restart, and every worker sees the token.
StopsOnSignal == (token /\ proc = "up") ~> proc \in {"exited", "failed"}

\* A backfill ends by itself: the pipeline stops, the queue drains as long as
\* one worker is alive, and the workers are told to stop.
BackfillEnds ==
    (command = "backfill" /\ proc = "up")
        ~> (proc \in {"exited", "failed"} \/ \A w \in Workers : worker[w] = "dead")

=============================================================================
