---------------------------- MODULE CommandsProofs ----------------------------
(***************************************************************************)
(* Proofs about the commands, for any list of chains, number of workers,   *)
(* quotas, concurrency and number of faults: the worker pool knows every   *)
(* chain that is ingested, a chain under `run` ends for a reason, an       *)
(* attempt overruns its quota by no more than what was in flight, and a    *)
(* backfill that ends by itself leaves an empty queue.                     *)
(***************************************************************************)
EXTENDS Commands, FiniteSetTheorems, TLAPS

-----------------------------------------------------------------------------
\* The part of the types that the argument needs.
Typed ==
    /\ booting \in Nat \ {0}
    /\ task \in [Chains -> {"absent", "build", "top", "drive", "wait", "returned",
                            "backoff", "drain", "done"}]
    /\ ledger \in [Chains -> [units : Nat, micro_usd : Nat]]

\* Every chain that has been booted is in the decoder map, and only booted
\* chains have a task.
Known ==
    /\ \A i \in DOMAIN ChainList : i < booting => ChainList[i] \in decoders
    /\ \A c \in Chains : task[c] # "absent" => c \in decoders

\* Already the attempt that returned did so for a reason, and what it found in
\* its ledger is not reset while the supervisor looks at the result.
Reason ==
    \A c \in Chains : command = "run" =>
        /\ task[c] # "drain"
        /\ task[c] \in {"returned", "done"} => Stopped(c)

IInv == Typed /\ Known /\ Reason

\* Nothing is running before the boot.
LEMMA InitInv == Init => IInv
<1> SUFFICES ASSUME Init PROVE IInv
    BY Zenon
<1>1. Typed
    BY DEF Init, Typed, EmptyLedger
<1>2. Known
    BY CommandsAssumption DEF Init, Known
<1>3. Reason
    BY Zenon DEF Init, Reason
<1> QED BY <1>1, <1>2, <1>3, Zenon DEF IInv

\* A signal, and the steps of the workers, leave the chains alone.
LEMMA WorkersPreserve ==
    ASSUME IInv, NEW w \in Workers,
           Signal \/ Exit \/ WorkerStep(w) \/ ItemFails(w)
    PROVE  IInv'
<1> UNCHANGED <<boot, ingest>> /\ (token => token')
    BY DEF Signal, Exit, WorkerStep, PullItem, ItemDone, WorkerStops, ItemFails, boot, ingest, tokens
<1> QED BY Zenon DEF IInv, Typed, Known, Reason, Stopped, boot, ingest

\* Booting a chain puts it into the decoder map before, or as, it gets a task.
LEMMA BootPreserves ==
    ASSUME IInv, BootChain \/ SpawnWorkers \/ BootFails
    PROVE  IInv'
<1> USE CommandsAssumption DEF IInv, ingest, tokens, boot
<1>1. CASE BootChain
    <2>1. booting \in DOMAIN ChainList /\ ChainList[booting] \in Chains
        <3>1. booting <= Len(ChainList) /\ Len(ChainList) \in Nat
            BY <1>1 DEF BootChain, Wired, Typed
        <3> QED BY <3>1 DEF Typed
    <2>2. Typed'
        BY <1>1, <2>1, SMTT(30) DEF BootChain, Typed
    <2>3. Known'
        <3>1. \A i \in DOMAIN ChainList : i < booting + 1 => i < booting \/ i = booting
            BY DEF Typed
        <3>2. \A i \in DOMAIN ChainList : i < booting' => ChainList[i] \in decoders'
            BY <1>1, <3>1, Zenon DEF BootChain, Known
        <3>3. \A d \in Chains : task'[d] # "absent" => d \in decoders'
            BY <1>1, <2>1, Zenon DEF BootChain, Typed, Known
        <3> QED BY <3>2, <3>3, Zenon DEF Known
    <2>4. Reason'
        BY <1>1, <2>1, Zenon DEF BootChain, Typed, Reason, Stopped
    <2> QED BY <2>2, <2>3, <2>4, Zenon
<1>2. CASE SpawnWorkers
    <2>1. 1 \in DOMAIN ChainList /\ ChainList[1] \in Chains
        OBVIOUS
    <2>2. Typed'
        BY <1>2, <2>1, ZenonT(30) DEF SpawnWorkers, run, follow, backfill, decode_workers, Typed
    <2>3. 1 < booting
        BY <1>2 DEF SpawnWorkers, Wired, Typed
    <2>4. Known'
        BY <1>2, <2>1, <2>3, Zenon DEF SpawnWorkers, run, follow, backfill, decode_workers, Typed, Known
    <2>5. Reason'
        BY <1>2, Zenon DEF SpawnWorkers, run, follow, backfill, decode_workers, Typed, Reason, Stopped
    <2> QED BY <2>2, <2>4, <2>5, Zenon
<1>3. CASE BootFails
    BY <1>3, Zenon DEF BootFails, Typed, Known, Reason, Stopped
<1> QED BY <1>1, <1>2, <1>3, Zenon

\* A charge keeps the ledger a ledger.
LEMMA ChargeTyped ==
    ASSUME NEW c \in Chains, NEW units \in Nat, Charge(c, units),
           ledger \in [Chains -> [units : Nat, micro_usd : Nat]]
    PROVE  ledger'[c] \in [units : Nat, micro_usd : Nat]
<1>1. ledger'[c] = IF Quota[c] = NoQuota THEN ledger[c]
                   ELSE record(ledger[c], [units |-> units, micro_usd |-> 0])
    BY Zenon DEF Charge
<1>2. ledger[c].units \in Nat /\ ledger[c].micro_usd \in Nat
    BY Zenon
<1>3. record(ledger[c], [units |-> units, micro_usd |-> 0]) \in [units : Nat, micro_usd : Nat]
    BY <1>2 DEF record
<1> QED BY <1>1, <1>3, Zenon

\* The steps of one attempt: an attempt returns only where it saw the token or
\* the exhausted quota, and spends nothing after that.
LEMMA ChainPreserves ==
    ASSUME IInv, NEW c \in Chains, ChainStep(c) \/ AttemptFails(c)
    PROVE  IInv'
<1> USE CommandsAssumption DEF IInv, ingest, tokens, boot
<1>1. CASE BuildChain(c)
    BY <1>1, Zenon DEF BuildChain, Typed, Known, Reason, Stopped, EmptyLedger
<1>2. CASE LoopTop(c)
    <2>1. CASE Stopped(c)
        BY <1>2, <2>1, ZenonT(30) DEF LoopTop, Typed, Known, Reason, Stopped
    <2>2. CASE ~Stopped(c)
        <3>1. PICK p \in 0 .. ProbeCost, window \in 0 .. RangeConcurrency :
                 /\ Charge(c, p)
                 /\ task' = [task EXCEPT ![c] = IF window = 0 THEN "wait" ELSE "drive"]
            BY <1>2, <2>2, Zenon DEF LoopTop
        <3>2. Typed'
            <4>0. p \in Nat
                OBVIOUS
            <4>1. ledger'[c] \in [units : Nat, micro_usd : Nat]
                BY <3>1, <4>0, ChargeTyped, Zenon DEF Typed
            <4>2. ledger' = [ledger EXCEPT ![c] = ledger'[c]]
                BY <3>1, Zenon DEF Charge, Typed
            <4>3. UNCHANGED booting
                BY <1>2, Zenon DEF LoopTop
            <4>4. (IF window = 0 THEN "wait" ELSE "drive") \in {"wait", "drive"}
                BY Zenon
            <4> QED BY <3>1, <4>1, <4>2, <4>3, <4>4, Zenon DEF Typed
        <3>3. Known'
            BY <1>2, <3>1, Zenon DEF LoopTop, Charge, Typed, Known
        <3>4. Reason'
            <4>1. task'[c] \in {"wait", "drive"}
                BY <3>1, Zenon DEF Typed
            <4>2. \A d \in Chains \ {c} : task'[d] = task[d] /\ ledger'[d] = ledger[d]
                BY <3>1, Zenon DEF Typed, Charge
            <4>3. UNCHANGED <<command, token>>
                BY <1>2, Zenon DEF LoopTop
            <4> QED BY <4>1, <4>2, <4>3, Zenon DEF Reason, Stopped
        <3> QED BY <3>2, <3>3, <3>4, Zenon
    <2> QED BY <2>1, <2>2, Zenon
<1>3. ASSUME NEW i \in Slots, StartFetch(c, i) PROVE IInv'
    BY <1>3, Zenon DEF StartFetch, Typed, Known, Reason, Stopped
<1>4. ASSUME NEW i \in Slots, FetchCall(c, i) PROVE IInv'
    <2>1. ledger'[c] \in [units : Nat, micro_usd : Nat]
        BY <1>4, ChargeTyped, 1 \in Nat, Zenon DEF FetchCall, Typed
    <2>2. Typed'
        BY <1>4, <2>1, Zenon DEF FetchCall, Charge, Typed
    <2>3. Known' /\ Reason'
        BY <1>4, Zenon DEF FetchCall, Charge, Typed, Known, Reason, Stopped
    <2> QED BY <2>2, <2>3, Zenon
<1>5. ASSUME NEW i \in Slots, FetchDone(c, i) PROVE IInv'
    BY <1>5, ZenonT(30) DEF FetchDone, AfterStop, Typed, Known, Reason, Stopped
<1>6. CASE DriveDone(c)
    BY <1>6, Zenon DEF DriveDone, Typed, Known, Reason, Stopped
<1>7. CASE Wake(c)
    BY <1>7, Zenon DEF Wake, Typed, Known, Reason, Stopped
<1>8. CASE AttemptReturns(c)
    BY <1>8, Zenon DEF AttemptReturns, Typed, Known, Reason, Stopped
<1>9. CASE Restart(c)
    BY <1>9, Zenon DEF Restart, Typed, Known, Reason, Stopped
<1>10. CASE drain_queue(c)
    BY <1>10, Zenon DEF drain_queue, Typed, Known, Reason, Stopped
<1>11. CASE AttemptFails(c)
    BY <1>11, ZenonT(30) DEF AttemptFails, Typed, Known, Reason, Stopped
<1> HIDE DEF IInv, ingest, tokens, boot
<1> QED
    BY <1>1, <1>2, <1>3, <1>4, <1>5, <1>6, <1>7, <1>8, <1>9, <1>10, <1>11, Zenon DEF ChainStep

\* The initial states satisfy the invariant and every step preserves it.
LEMMA Inductive == Spec => []IInv
<1>1. IInv /\ [Next]_vars => IInv'
    <2> SUFFICES ASSUME IInv, [Next]_vars PROVE IInv'
        BY Zenon
    <2>1. CASE Signal \/ Exit
        BY <2>1 DEF Signal, Exit, IInv, Typed, Known, Reason, Stopped, boot, ingest, tokens
    <2>2. CASE Booting \/ BootFails
        BY <2>2, BootPreserves, Zenon DEF Booting
    <2>3. ASSUME NEW c \in Chains, ChainStep(c) \/ AttemptFails(c) PROVE IInv'
        BY <2>3, ChainPreserves, Zenon
    <2>4. ASSUME NEW w \in Workers, WorkerStep(w) \/ ItemFails(w) PROVE IInv'
        BY <2>4, WorkersPreserve, Zenon
    <2>5. CASE UNCHANGED vars
        BY <2>5, Zenon DEF vars, boot, ingest, tokens, IInv, Typed, Known, Reason, Stopped
    <2> QED BY <2>1, <2>2, <2>3, <2>4, <2>5, Zenon DEF Next
<1> QED BY InitInv, <1>1, PTL DEF Spec

\* No decode worker ever runs without a decoder of a chain that its process
\* ingests: run_once never acks such an item undecoded.
THEOREM PoolKnows == Spec => []PoolKnowsChains
<1>1. IInv => PoolKnowsChains
    BY Zenon DEF IInv, Known, PoolKnowsChains
<1> QED BY Inductive, <1>1, PTL

\* supervised_ingest returns only after a shutdown or with its quota used up,
\* whatever fails or panics and however often the chain is restarted.
THEOREM EndsWithReason == Spec => []EndsForAReason
<1>1. IInv => EndsForAReason
    BY Zenon DEF IInv, Reason, EndsForAReason, Stopped
<1> QED BY Inductive, <1>1, PTL

-----------------------------------------------------------------------------
(* The quota.                                                              *)

\* The units of the fetches in flight, one element each.
Spent(c) == {u \in Slots \X (1 .. RangeCost) : slot[c][u[1]] # Idle /\ u[2] <= slot[c][u[1]]}

\* What an attempt may have spent when its window starts: less than the quota
\* at the last look at it, and a probe after that.
Cap(c) == Greater(Quota[c], 1) - 1 + ProbeCost

\* A window starts below the cap and adds what its fetches spend; the producer
\* looks again whenever a fetch leaves, and goes on only below the quota.  A
\* backfill looks at no quota before its window, but its ledger is new.
Budget ==
    /\ slot \in [Chains -> [Slots -> 0 .. Idle]]
    /\ (proc = "boot" /\ command # "run") =>
          \A c \in Chains : task[c] = "absent" /\ ledger[c].units = 0
    /\ \A c \in Chains : Quota[c] # NoQuota =>
          /\ ledger[c].units <= Cap(c) + RangeConcurrency * RangeCost
          /\ task[c] = "drive" => ledger[c].units <= Cap(c) + Cardinality(Spent(c))

\* The fetches in flight never hold more than their number times their cost.
LEMMA PairsFit ==
    ASSUME NEW S \in SUBSET (Slots \X (1 .. RangeCost))
    PROVE  /\ IsFiniteSet(S) /\ Cardinality(S) \in Nat
           /\ RangeConcurrency * RangeCost \in Nat
           /\ Cardinality(S) <= RangeConcurrency * RangeCost
<1>1. RangeConcurrency \in Nat /\ RangeCost \in Nat
    BY CommandsAssumption, Zenon
<1>2. ASSUME NEW n \in Nat PROVE IsFiniteSet(1 .. n) /\ Cardinality(1 .. n) = n
    BY FS_Interval, 1 \in Int, n \in Int
<1>3. /\ IsFiniteSet(Slots) /\ Cardinality(Slots) = RangeConcurrency
      /\ IsFiniteSet(1 .. RangeCost) /\ Cardinality(1 .. RangeCost) = RangeCost
    BY <1>1, <1>2, Zenon DEF Slots
<1>4. /\ IsFiniteSet(Slots \X (1 .. RangeCost))
      /\ Cardinality(Slots \X (1 .. RangeCost)) = RangeConcurrency * RangeCost
    BY <1>3, FS_Product, ZenonT(30)
<1>5. RangeConcurrency * RangeCost \in Nat
    BY <1>4, FS_CardinalityType, Zenon
<1> QED BY <1>4, <1>5, FS_Subset, FS_CardinalityType, Zenon

LEMMA SpentFits ==
    ASSUME NEW c \in Chains
    PROVE  /\ IsFiniteSet(Spent(c)) /\ Cardinality(Spent(c)) \in Nat
           /\ RangeConcurrency * RangeCost \in Nat
           /\ Cardinality(Spent(c)) <= RangeConcurrency * RangeCost
           /\ IsFiniteSet(Spent(c)') /\ Cardinality(Spent(c)') \in Nat
           /\ Cardinality(Spent(c)') <= RangeConcurrency * RangeCost
<1>1. Spent(c) \subseteq Slots \X (1 .. RangeCost) /\ Spent(c)' \subseteq Slots \X (1 .. RangeCost)
    BY Zenon DEF Spent
<1> QED BY <1>1, PairsFit, Zenon

LEMMA CapType == ASSUME NEW c \in Chains PROVE Cap(c) \in Nat /\ Greater(Quota[c], 1) - 1 <= Cap(c)
BY CommandsAssumption DEF Cap, Greater, NoQuota

\* What a step leaves to prove when it touches one chain only and boots nothing.
LEMMA BudgetOfOne ==
    ASSUME IInv, Budget, NEW c \in Chains,
           ~(proc' = "boot" /\ command' # "run"),
           slot'[c] \in [Slots -> 0 .. Idle],
           slot' = [slot EXCEPT ![c] = slot'[c]],
           \A d \in Chains \ {c} : ledger'[d] = ledger[d] /\ (task'[d] = "drive" => task[d] = "drive"),
           Quota[c] # NoQuota =>
              /\ ledger'[c].units <= Cap(c) + RangeConcurrency * RangeCost
              /\ task'[c] = "drive" => ledger'[c].units <= Cap(c) + Cardinality(Spent(c)')
    PROVE  Budget'
<1>1. \A d \in Chains \ {c} : Spent(d)' = Spent(d)
    BY Zenon DEF Spent, Budget
<1>2. slot' \in [Chains -> [Slots -> 0 .. Idle]]
    BY Zenon DEF Budget
<1>3. ASSUME NEW d \in Chains, Quota[d] # NoQuota
      PROVE  /\ ledger'[d].units <= Cap(d) + RangeConcurrency * RangeCost
             /\ task'[d] = "drive" => ledger'[d].units <= Cap(d) + Cardinality(Spent(d)')
    <2>1. CASE d = c
        BY <2>1, <1>3, Zenon
    <2>2. CASE d # c
        BY <2>2, <1>1, <1>3, Zenon DEF Budget
    <2> QED BY <2>1, <2>2, Zenon
<1> QED BY <1>2, <1>3, Zenon DEF Budget, Cap

\* A fetch call: one unit more in the ledger and in the slot that spends it.
LEMMA FetchCallFits ==
    ASSUME IInv, Budget, NEW c \in Chains, NEW i \in Slots, FetchCall(c, i)
    PROVE  Budget'
<1> DEFINE u == <<i, slot[c][i] + 1>>
<1>1. /\ task[c] = "drive" /\ task' = task /\ Charge(c, 1) /\ UNCHANGED <<proc, command>>
      /\ slot[c][i] < RangeCost /\ slot' = [slot EXCEPT ![c][i] = slot[c][i] + 1]
    BY Zenon DEF FetchCall, boot
<1>2. ~(proc' = "boot" /\ command' # "run")
    BY <1>1, Zenon DEF Budget
<1>3. slot[c] \in [Slots -> 0 .. Idle] /\ slot[c][i] \in 0 .. RangeCost - 1 /\ RangeCost \in Nat
    BY <1>1, CommandsAssumption DEF Budget, Idle
<1>4. /\ slot'[c] = [slot[c] EXCEPT ![i] = slot[c][i] + 1]
      /\ slot' = [slot EXCEPT ![c] = slot'[c]] /\ slot'[c] \in [Slots -> 0 .. Idle]
    BY <1>1, <1>3 DEF Budget, Idle
<1>5. Spent(c)' = Spent(c) \cup {u} /\ u \notin Spent(c)
    <2>1. u \in Spent(c)' /\ u \notin Spent(c)
        BY <1>3, <1>4 DEF Spent, Idle
    <2>2. ASSUME NEW v \in Slots \X (1 .. RangeCost), v # u
          PROVE  v \in Spent(c)' <=> v \in Spent(c)
        <3>1. CASE v[1] = i
            <4>1. v[2] # slot[c][i] + 1
                BY <3>1, <2>2
            <4> QED BY <4>1, <3>1, <1>3, <1>4 DEF Spent, Idle
        <3>2. CASE v[1] # i
            BY <3>2, <1>3, <1>4, Zenon DEF Spent, Idle
        <3> QED BY <3>1, <3>2, Zenon
    <2> QED BY <2>1, <2>2, Zenon DEF Spent
<1>6. Cardinality(Spent(c)') = Cardinality(Spent(c)) + 1
    BY <1>5, SpentFits, FS_AddElement, ZenonT(30)
<1>7. Cardinality(Spent(c)') <= RangeConcurrency * RangeCost
    BY SpentFits, Zenon
<1>8. ASSUME Quota[c] # NoQuota
      PROVE  /\ ledger'[c].units <= Cap(c) + RangeConcurrency * RangeCost
             /\ ledger'[c].units <= Cap(c) + Cardinality(Spent(c)')
    <2>1. ledger'[c].units = ledger[c].units + 1 /\ ledger[c].units \in Nat
        BY <1>1, <1>8, Zenon DEF Charge, record, IInv, Typed
    <2>2. ledger[c].units <= Cap(c) + Cardinality(Spent(c))
        BY <1>1, <1>8, Zenon DEF Budget
    <2> QED BY <2>1, <2>2, <1>6, <1>7, CapType, SpentFits
<1>9. \A d \in Chains \ {c} : ledger'[d] = ledger[d]
    BY <1>1, Zenon DEF Charge, IInv, Typed
<1> QED BY <1>1, <1>2, <1>4, <1>8, <1>9, BudgetOfOne, ZenonT(30)

\* The steps that charge nothing and either stay in the window, with the slots
\* as they were or one more fetch started, or leave it.
LEMMA QuietFits ==
    ASSUME IInv, Budget, NEW c \in Chains,
           ~(proc' = "boot" /\ command' # "run"),
           slot'[c] \in [Slots -> 0 .. Idle], slot' = [slot EXCEPT ![c] = slot'[c]],
           \A d \in Chains \ {c} : task'[d] = "drive" => task[d] = "drive",
           ledger' = ledger,
           task'[c] # "drive" \/ (task[c] = "drive" /\ Spent(c) = Spent(c)')
    PROVE  Budget'
<1>1. Quota[c] # NoQuota =>
         /\ ledger'[c].units <= Cap(c) + RangeConcurrency * RangeCost
         /\ task'[c] = "drive" => ledger'[c].units <= Cap(c) + Cardinality(Spent(c)')
    BY Zenon DEF Budget
<1> QED BY <1>1, BudgetOfOne, Zenon

\* A finished fetch: the quota has been looked at, or the window is left.
LEMMA FetchDoneFits ==
    ASSUME IInv, Budget, NEW c \in Chains, NEW i \in Slots, FetchDone(c, i)
    PROVE  Budget'
<1>1. task[c] = "drive" /\ UNCHANGED <<proc, command, ledger>>
    BY Zenon DEF FetchDone, boot
<1>2. ~(proc' = "boot" /\ command' # "run")
    BY <1>1, Zenon DEF Budget
<1>3. Idle \in 0 .. Idle /\ slot[c] \in [Slots -> 0 .. Idle]
    BY CommandsAssumption DEF Budget, Idle
<1>4. CASE Stopped(c)
    <2>1. task' = [task EXCEPT ![c] = AfterStop] /\ slot' = [slot EXCEPT ![c] = NoFetch]
        BY <1>4, Zenon DEF FetchDone
    <2>2. NoFetch \in [Slots -> 0 .. Idle] /\ slot'[c] = NoFetch
        BY <2>1, <1>3, Zenon DEF NoFetch, Budget
    <2>3. task'[c] # "drive" /\ \A d \in Chains \ {c} : task'[d] = task[d]
        BY <2>1, Zenon DEF AfterStop, IInv, Typed
    <2> QED BY <1>1, <1>2, <2>1, <2>2, <2>3, QuietFits, ZenonT(30)
<1>5. CASE ~Stopped(c)
    <2>1. task' = task /\ slot' = [slot EXCEPT ![c][i] = Idle]
        BY <1>5, Zenon DEF FetchDone
    <2>2. slot'[c] \in [Slots -> 0 .. Idle] /\ slot' = [slot EXCEPT ![c] = slot'[c]]
        BY <2>1, <1>3, Zenon DEF Budget
    <2>3. ASSUME Quota[c] # NoQuota
          PROVE  /\ ledger'[c].units <= Cap(c) + RangeConcurrency * RangeCost
                 /\ ledger'[c].units <= Cap(c) + Cardinality(Spent(c)')
        <3>1. ledger[c].units \in Nat /\ ledger[c].units < Quota[c] /\ Quota[c] \in Nat
            BY <1>5, <2>3, CommandsAssumption DEF Stopped, quota_exhausted, IInv, Typed
        <3>2. ledger[c].units <= Cap(c) /\ Cap(c) \in Nat
            BY <3>1, CapType DEF Greater
        <3>3. Cardinality(Spent(c)') \in Nat /\ RangeConcurrency * RangeCost \in Nat
            BY SpentFits, Zenon
        <3> HIDE DEF Cap
        <3> QED BY <3>1, <3>2, <3>3, <1>1
    <2> QED BY <1>1, <1>2, <2>1, <2>2, <2>3, BudgetOfOne, ZenonT(30)
<1> QED BY <1>4, <1>5, Zenon

\* The head of an iteration goes on below the quota only, and pays one probe.
LEMMA LoopTopFits ==
    ASSUME IInv, Budget, NEW c \in Chains, LoopTop(c)
    PROVE  Budget'
<1>1. task[c] = "top" /\ UNCHANGED <<proc, command, slot>>
    BY Zenon DEF LoopTop, boot
<1>2. ~(proc' = "boot" /\ command' # "run") /\ slot'[c] \in [Slots -> 0 .. Idle]
      /\ slot' = [slot EXCEPT ![c] = slot'[c]]
    BY <1>1, Zenon DEF Budget
<1>3. CASE Stopped(c)
    <2>1. task' = [task EXCEPT ![c] = "returned"] /\ ledger' = ledger
        BY <1>3, Zenon DEF LoopTop
    <2>2. task'[c] # "drive" /\ \A d \in Chains \ {c} : task'[d] = task[d]
        BY <2>1, Zenon DEF IInv, Typed
    <2> QED BY <1>2, <2>1, <2>2, QuietFits, Zenon
<1>4. CASE ~Stopped(c)
    <2>1. PICK p \in 0 .. ProbeCost, next \in {"wait", "drive"} :
             Charge(c, p) /\ task' = [task EXCEPT ![c] = next]
        BY <1>4, Zenon DEF LoopTop
    <2>2. \A d \in Chains \ {c} : task'[d] = task[d] /\ ledger'[d] = ledger[d]
        BY <2>1, Zenon DEF Charge, IInv, Typed
    <2>3. ASSUME Quota[c] # NoQuota
          PROVE  /\ ledger'[c].units <= Cap(c) + RangeConcurrency * RangeCost
                 /\ ledger'[c].units <= Cap(c) + Cardinality(Spent(c)')
        <3>1. ledger[c].units \in Nat /\ ledger[c].units < Quota[c] /\ Quota[c] \in Nat
            BY <1>4, <2>3, CommandsAssumption DEF Stopped, quota_exhausted, IInv, Typed
        <3>2. ledger'[c].units = ledger[c].units + p
            BY <2>1, <2>3, Zenon DEF Charge, record, IInv, Typed
        <3>3. ProbeCost \in Nat
            BY CommandsAssumption, Zenon
        <3>4. ledger'[c].units \in Nat /\ ledger'[c].units <= Cap(c)
            BY <2>1, <3>1, <3>2, <3>3 DEF Cap, Greater
        <3> HIDE DEF Cap
        <3> QED BY <3>4, CapType, SpentFits
    <2> QED BY <1>2, <2>2, <2>3, BudgetOfOne, Zenon
<1> QED BY <1>3, <1>4, Zenon

\* Booting charges nothing; the one window that starts without a look at the
\* quota is the first of a backfill.
LEMMA BootFits ==
    ASSUME IInv, Budget, BootChain \/ SpawnWorkers \/ BootFails
    PROVE  Budget'
<1>1. UNCHANGED <<slot, ledger, command>> /\ \A c \in Chains : Spent(c)' = Spent(c)
    BY Zenon DEF BootChain, SpawnWorkers, BootFails, boot, Spent
<1>2. proc = "boot" /\ Typed
    BY Zenon DEF BootChain, SpawnWorkers, BootFails, IInv
<1>3. (proc' = "boot" /\ command' # "run") =>
         \A c \in Chains : task'[c] = "absent" /\ ledger'[c].units = 0
    BY <1>1, <1>2, Zenon DEF Budget, BootChain, SpawnWorkers, BootFails
<1>4. ASSUME NEW c \in Chains, task'[c] = "drive", task[c] # "drive" PROVE ledger[c].units = 0
    BY <1>1, <1>2, <1>4, Zenon DEF Budget, BootChain, SpawnWorkers, BootFails,
                            run, follow, backfill, decode_workers, Typed
<1>5. ASSUME NEW c \in Chains, Quota[c] # NoQuota, task'[c] = "drive"
      PROVE  ledger[c].units <= Cap(c) + Cardinality(Spent(c))
    <2>1. CASE task[c] = "drive"
        BY <2>1, <1>5, Zenon DEF Budget
    <2>2. CASE task[c] # "drive"
        BY <2>2, <1>4, <1>5, CapType, SpentFits
    <2> QED BY <2>1, <2>2, Zenon
<1>6. \A c \in Chains : Cap(c)' = Cap(c)
    BY Zenon DEF Cap
<1> QED BY <1>1, <1>3, <1>5, <1>6, Zenon DEF Budget

\* The other steps of a chain: nothing is charged but an empty ledger, and a
\* window that goes on keeps the units of its fetches.
LEMMA ChainFits ==
    ASSUME IInv, Budget, NEW c \in Chains, ChainStep(c) \/ AttemptFails(c)
    PROVE  Budget'
<1>0. Idle \in 0 .. Idle /\ 0 \in 0 .. Idle /\ slot[c] \in [Slots -> 0 .. Idle] /\ Typed
      /\ NoFetch \in [Slots -> 0 .. Idle] /\ slot = [slot EXCEPT ![c] = slot[c]]
    BY CommandsAssumption DEF Budget, Idle, IInv, NoFetch
<1>1. CASE BuildChain(c)
    <2>1. /\ task' = [task EXCEPT ![c] = "top"] /\ ledger' = [ledger EXCEPT ![c] = EmptyLedger]
          /\ UNCHANGED <<slot, proc, command>> /\ task[c] = "build"
        BY <1>1, Zenon DEF BuildChain, boot
    <2>2. ~(proc' = "boot" /\ command' # "run")
        BY <2>1, Zenon DEF Budget
    <2>3. ledger'[c].units = 0 /\ task'[c] = "top"
        BY <2>1, <1>0, Zenon DEF Typed, EmptyLedger
    <2>4. \A d \in Chains \ {c} : ledger'[d] = ledger[d] /\ task'[d] = task[d]
        BY <2>1, <1>0, Zenon DEF Typed
    <2>5. ledger'[c].units <= Cap(c) + RangeConcurrency * RangeCost
        BY <2>3, CapType, SpentFits
    <2> QED BY <1>0, <2>1, <2>2, <2>3, <2>4, <2>5, BudgetOfOne, Zenon
<1>2. ASSUME NEW i \in Slots, StartFetch(c, i) PROVE Budget'
    <2>1. /\ task[c] = "drive" /\ slot[c][i] = Idle /\ slot' = [slot EXCEPT ![c][i] = 0]
          /\ UNCHANGED <<task, ledger, proc, command>>
        BY <1>2, Zenon DEF StartFetch, boot
    <2>2. ~(proc' = "boot" /\ command' # "run")
        BY <2>1, Zenon DEF Budget
    <2>3. /\ slot'[c] = [slot[c] EXCEPT ![i] = 0] /\ slot'[c] \in [Slots -> 0 .. Idle]
          /\ slot' = [slot EXCEPT ![c] = slot'[c]]
        BY <2>1, <1>0, Zenon DEF Budget
    <2>4. Spent(c) = Spent(c)'
        BY <2>1, <2>3, <1>0 DEF Spent
    <2> QED BY <2>1, <2>2, <2>3, <2>4, QuietFits, ZenonT(30)
<1>3. CASE DriveDone(c) \/ Wake(c) \/ AttemptReturns(c) \/ Restart(c) \/ drain_queue(c)
    <2>1. /\ UNCHANGED <<slot, ledger, proc, command>> /\ task[c] # "absent"
          /\ \E next \in {"drain", "wait", "top", "returned", "done", "build"} :
                task' = [task EXCEPT ![c] = next]
        BY <1>3, Zenon DEF DriveDone, Wake, AttemptReturns, Restart, drain_queue, boot
    <2>2. ~(proc' = "boot" /\ command' # "run")
        BY <2>1, Zenon DEF Budget
    <2>3. task'[c] # "drive" /\ \A d \in Chains \ {c} : task'[d] = task[d]
        BY <2>1, <1>0, Zenon DEF Typed
    <2> QED BY <1>0, <2>1, <2>2, <2>3, QuietFits, Zenon
<1>4. CASE AttemptFails(c)
    <2>1. /\ slot' = [slot EXCEPT ![c] = NoFetch] /\ UNCHANGED <<ledger, command>>
          /\ proc' \in {proc, "failed"} /\ task[c] # "absent"
          /\ \/ task' = [task EXCEPT ![c] = "backoff"] /\ proc' = proc
             \/ task' = [d \in Chains |-> "absent"]
        BY <1>4, Zenon DEF AttemptFails, boot
    <2>2. ~(proc' = "boot" /\ command' # "run")
        BY <2>1, Zenon DEF Budget
    <2>3. task'[c] # "drive" /\ \A d \in Chains \ {c} : task'[d] = "drive" => task[d] = "drive"
        BY <2>1, <1>0, Zenon DEF Typed
    <2>4. slot'[c] = NoFetch
        BY <2>1, Zenon DEF Budget
    <2> QED BY <1>0, <2>1, <2>2, <2>3, <2>4, QuietFits, ZenonT(30)
<1> QED BY <1>1, <1>2, <1>3, <1>4, LoopTopFits, FetchCallFits, FetchDoneFits, Zenon DEF ChainStep

\* However an attempt, its fetches and its failures interleave, it overruns the
\* monthly quota by less than one probe and a full set of concurrent fetches.
THEOREM QuotaOverrun == Spec => []OverrunBounded
<1>1. Init => Budget
    <2> SUFFICES ASSUME Init PROVE Budget
        BY Zenon
    <2>1. slot \in [Chains -> [Slots -> 0 .. Idle]]
        BY CommandsAssumption DEF Init, NoFetch, Idle
    <2>2. \A c \in Chains : task[c] = "absent" /\ ledger[c].units = 0
        BY Zenon DEF Init, EmptyLedger
    <2> QED BY <2>1, <2>2, CapType, SpentFits DEF Budget
<1>2. IInv /\ Budget /\ [Next]_vars => Budget'
    <2> SUFFICES ASSUME IInv, Budget, [Next]_vars PROVE Budget'
        BY Zenon
    <2>1. ASSUME UNCHANGED <<boot, ingest>>, proc' = "boot" => proc = "boot" PROVE Budget'
        BY <2>1, ZenonT(30) DEF Budget, Spent, Cap, boot, ingest
    <2>2. CASE Signal \/ Exit \/ UNCHANGED vars
        BY <2>1, <2>2, Zenon DEF Signal, Exit, vars
    <2>3. CASE Booting \/ BootFails
        BY <2>3, BootFits, Zenon DEF Booting
    <2>4. ASSUME NEW c \in Chains, ChainStep(c) \/ AttemptFails(c) PROVE Budget'
        BY <2>4, ChainFits, Zenon
    <2>5. ASSUME NEW w \in Workers, WorkerStep(w) \/ ItemFails(w) PROVE Budget'
        BY <2>1, <2>5, Zenon DEF WorkerStep, PullItem, ItemDone, WorkerStops, ItemFails
    <2> QED BY <2>2, <2>3, <2>4, <2>5, Zenon DEF Next
<1>3. Budget /\ IInv => OverrunBounded
    <2> SUFFICES ASSUME Budget, IInv, NEW c \in Chains, Quota[c] # NoQuota
                 PROVE  ledger[c].units < Greater(Quota[c], 1) + Overshoot
        BY Zenon DEF OverrunBounded
    <2>1. ledger[c].units \in Nat /\ ledger[c].units <= Cap(c) + RangeConcurrency * RangeCost
        BY Zenon DEF Budget, IInv, Typed
    <2>2. Greater(Quota[c], 1) \in Nat /\ ProbeCost \in Nat /\ RangeConcurrency * RangeCost \in Nat
        BY CommandsAssumption, SpentFits, Zenon DEF Greater, NoQuota
    <2> QED BY <2>1, <2>2 DEF Cap, Overshoot
<1> QED BY Inductive, <1>1, <1>2, <1>3, PTL DEF Spec

-----------------------------------------------------------------------------
(* What an unsignalled command leaves behind.                              *)

\* A command that ends by itself, not on a signal, has lost all its workers to
\* panics, or is a backfill that leaves an empty queue.
DrainedOnExit ==
    proc = "exited" /\ ~token =>
        \/ \A w \in Workers : worker[w] = "dead"
        \/ command = "backfill" /\ depth = 0

\* Only a backfill drains, its only task is its chain's, and its workers are
\* told to stop when that task is over and found the queue empty.
Draining ==
    /\ \A c \in Chains : task[c] = "drain" => command = "backfill"
    /\ command = "backfill" =>
          /\ \A c \in Chains \ {ChainList[1]} : task[c] = "absent"
          /\ proc = "boot" => task[ChainList[1]] = "absent"
    /\ worker_token =>
          /\ command = "backfill" /\ task[ChainList[1]] = "done"
          /\ token \/ depth = 0

\* A busy worker holds an item of the queue, and one that has returned was told
\* to.  So an empty queue has no busy worker, and stays empty.
Pool ==
    /\ worker \in [Workers -> {"absent", "polling", "busy", "done", "dead"}]
    /\ depth \in Nat /\ IsFiniteSet(Busy) /\ Cardinality(Busy) <= depth
    /\ \A w \in Workers : worker[w] = "done" => StopWorkers
    /\ proc = "exited" => \A w \in Workers : worker[w] \in {"done", "dead"}

LEMMA FirstChain == ChainList[1] \in Chains
<1>1. 1 \in DOMAIN ChainList
    BY CommandsAssumption
<1> QED BY <1>1, Zenon DEF Chains

LEMMA InitDrained == Init => Pool /\ Draining
<1> SUFFICES ASSUME Init PROVE Pool /\ Draining
    BY Zenon
<1>1. Busy = {}
    BY Zenon DEF Init, Busy
<1>2. IsFiniteSet(Busy) /\ Cardinality(Busy) = 0
    BY <1>1, FS_EmptySet, Zenon
<1>3. Pool
    BY <1>2 DEF Init, Pool
<1>4. Draining
    BY FirstChain, Zenon DEF Init, Draining
<1> QED BY <1>3, <1>4, Zenon

\* The pool is spawned idle.
LEMMA BootDrains ==
    ASSUME IInv, Pool, Draining, BootChain \/ SpawnWorkers \/ BootFails
    PROVE  Pool' /\ Draining'
<1>1. CASE BootChain
    <2>1. /\ UNCHANGED <<command, proc, worker, depth, token, worker_token>>
          /\ command # "run" => task' = task
          /\ \E c : task' = [task EXCEPT ![c] = "build"] \/ task' = task
        BY <1>1, Zenon DEF BootChain, queue, tokens
    <2>2. Pool'
        BY <2>1, Zenon DEF Pool, Busy, StopWorkers
    <2>3. \A c \in Chains : task'[c] = "drain" => task[c] = "drain"
        BY <2>1, Zenon DEF IInv, Typed
    <2>4. Draining'
        BY <2>1, <2>3, FirstChain, Zenon DEF Draining
    <2> QED BY <2>2, <2>4, Zenon
<1>2. CASE SpawnWorkers
    <2>1. /\ worker' = [w \in Workers |-> "polling"] /\ proc' = "up" /\ proc = "boot"
          /\ UNCHANGED <<command, depth, token, worker_token>>
          /\ \/ task' = task /\ command \in {"run", "decode"}
             \/ task' = [task EXCEPT ![ChainList[1]] = "top"] /\ command = "follow"
             \/ task' = [task EXCEPT ![ChainList[1]] = "drive"] /\ command = "backfill"
        BY <1>2, Zenon DEF SpawnWorkers, SpawnPool, run, follow, backfill, decode_workers, boot, tokens
    <2>2. Busy' = {}
        BY <2>1, Zenon DEF Busy
    <2>3. IsFiniteSet(Busy') /\ Cardinality(Busy') = 0
        BY <2>2, FS_EmptySet, Zenon
    <2>4. Pool'
        BY <2>1, <2>3 DEF Pool
    <2>5. ~worker_token
        BY <2>1, Zenon DEF Draining
    <2>6. \A c \in Chains \ {ChainList[1]} : task'[c] = task[c]
        BY <2>1, Zenon DEF IInv, Typed
    <2>7. task'[ChainList[1]] = "drain" => task[ChainList[1]] = "drain"
        BY <2>1, FirstChain, Zenon DEF IInv, Typed
    <2>8. Draining'
        BY <2>1, <2>5, <2>6, <2>7, FirstChain, Zenon DEF Draining
    <2> QED BY <2>4, <2>8, Zenon
<1>3. CASE BootFails
    <2>1. /\ UNCHANGED <<command, worker, depth, token, worker_token>>
          /\ proc = "boot" /\ proc' = "failed" /\ task' = [c \in Chains |-> "absent"]
        BY <1>3, Zenon DEF BootFails, boot, queue, tokens
    <2>2. Pool'
        BY <2>1, Zenon DEF Pool, Busy, StopWorkers
    <2>3. ~worker_token
        BY <2>1, Zenon DEF Draining
    <2>4. Draining'
        BY <2>1, <2>3, Zenon DEF Draining
    <2> QED BY <2>2, <2>4, Zenon
<1> QED BY <1>1, <1>2, <1>3, Zenon

\* A chain's steps leave the workers alone and take nothing from the queue; the
\* chain of a backfill that told its workers to stop has no step left.
LEMMA ChainDrains ==
    ASSUME IInv, Pool, Draining, NEW c \in Chains, ChainStep(c) \/ AttemptFails(c)
    PROVE  Pool' /\ Draining'
<1>0. /\ depth \in Nat /\ task \in [Chains -> {"absent", "build", "top", "drive", "wait",
                                    "returned", "backoff", "drain", "done"}]
    BY Zenon DEF Pool, IInv, Typed
<1>1. /\ UNCHANGED <<command, worker, token>> /\ Running /\ proc' \in {proc, "failed"}
      /\ depth' \in Nat /\ depth' >= depth
      /\ task[c] \notin {"absent", "done"}
    <2>1. /\ UNCHANGED <<command, worker, token>> /\ Running /\ proc' \in {proc, "failed"}
          /\ depth' = depth \/ depth' = depth + 1
          /\ task[c] \notin {"absent", "done"}
        <3>1. CASE \E i \in Slots : FetchDone(c, i)
            BY <3>1, Zenon DEF FetchDone, boot, tokens
        <3>2. CASE AttemptFails(c)
            BY <3>2, Zenon DEF AttemptFails, boot, queue, tokens
        <3>3. CASE BuildChain(c) \/ LoopTop(c) \/ \E i \in Slots : StartFetch(c, i) \/ FetchCall(c, i)
            BY <3>3, ZenonT(30) DEF BuildChain, LoopTop, StartFetch, FetchCall, boot, queue, tokens
        <3>4. CASE DriveDone(c) \/ Wake(c) \/ AttemptReturns(c) \/ Restart(c) \/ drain_queue(c)
            BY <3>4, ZenonT(30)
               DEF DriveDone, Wake, AttemptReturns, Restart, drain_queue, boot, queue, tokens
        <3> QED BY <3>1, <3>2, <3>3, <3>4, Zenon DEF ChainStep
    <2> QED BY <1>0, <2>1
<1>2. /\ \/ worker_token' = worker_token
         \/ worker_token' /\ task' = [task EXCEPT ![c] = "done"] /\ task[c] = "drain"
            /\ (token \/ depth = 0) /\ depth' = depth
      /\ \/ task' = [d \in Chains |-> "absent"]
         \/ \E next : /\ task' = [task EXCEPT ![c] = next]
                      /\ next = "drain" => command = "backfill" \/ task[c] = "drain"
                      /\ proc' = proc
    <2>0. task = [task EXCEPT ![c] = task[c]]
        BY <1>0, Zenon
    <2>1. CASE \E i \in Slots : FetchDone(c, i)
        BY <2>0, <2>1, ZenonT(30) DEF FetchDone, AfterStop, tokens
    <2>2. CASE AttemptFails(c)
        BY <2>2, ZenonT(30) DEF AttemptFails, tokens
    <2>3. CASE BuildChain(c)
        BY <2>3, ZenonT(30) DEF BuildChain, tokens
    <2>4. CASE LoopTop(c)
        <3>1. CASE Stopped(c)
            BY <2>4, <3>1, ZenonT(30) DEF LoopTop, tokens
        <3>2. CASE ~Stopped(c)
            <4>1. PICK window \in 0 .. RangeConcurrency :
                    task' = [task EXCEPT ![c] = IF window = 0 THEN "wait" ELSE "drive"]
                BY <2>4, <3>2, Zenon DEF LoopTop
            <4>2. (IF window = 0 THEN "wait" ELSE "drive") # "drain"
                BY Zenon
            <4> QED BY <2>4, <4>1, <4>2, Zenon DEF LoopTop, tokens
        <3> QED BY <3>1, <3>2, Zenon
    <2>5. CASE \E i \in Slots : StartFetch(c, i) \/ FetchCall(c, i)
        BY <2>0, <2>5, ZenonT(30) DEF StartFetch, FetchCall, tokens
    <2>6. CASE DriveDone(c)
        BY <2>6, ZenonT(30) DEF DriveDone, tokens
    <2>7. CASE Wake(c) \/ AttemptReturns(c)
        BY <2>7, ZenonT(30) DEF Wake, AttemptReturns, tokens
    <2>8. CASE Restart(c)
        <3>1. (IF token THEN "done" ELSE "build") # "drain"
            BY Zenon
        <3> QED BY <2>8, <3>1, ZenonT(30) DEF Restart, tokens
    <2>9. CASE drain_queue(c)
        BY <2>9, ZenonT(30) DEF drain_queue, queue
    <2> QED BY <2>1, <2>2, <2>3, <2>4, <2>5, <2>6, <2>7, <2>8, <2>9, Zenon DEF ChainStep
<1>3. command = "backfill" => c = ChainList[1] /\ proc # "boot"
    BY <1>1, Zenon DEF Draining
<1>4. ~worker_token
    BY <1>1, <1>3, Zenon DEF Draining
<1>5. Pool'
    <2>1. Busy' = Busy /\ (StopWorkers => StopWorkers') /\ proc' # "exited"
        BY <1>1, <1>4, Zenon DEF Busy, StopWorkers, Running
    <2>2. IsFiniteSet(Busy) /\ Cardinality(Busy) \in Nat /\ Cardinality(Busy) <= depth
        BY FS_CardinalityType, Zenon DEF Pool
    <2>3. Cardinality(Busy) <= depth'
        BY <1>0, <1>1, <2>2
    <2> QED BY <1>1, <2>1, <2>2, <2>3, Zenon DEF Pool
<1>6. /\ \A d \in Chains : task'[d] = "drain" => command = "backfill"
      /\ \A d \in Chains \ {c} : task'[d] \in {task[d], "absent"}
    BY <1>0, <1>2, Zenon DEF Draining
<1>7. worker_token' => /\ command = "backfill" /\ task'[ChainList[1]] = "done"
                       /\ token \/ depth' = 0
    <2> SUFFICES ASSUME worker_token'
                 PROVE  /\ command = "backfill" /\ task'[ChainList[1]] = "done"
                        /\ token \/ depth' = 0
        BY Zenon
    <2>1. /\ task' = [task EXCEPT ![c] = "done"] /\ task[c] = "drain"
          /\ (token \/ depth = 0) /\ depth' = depth
        BY <1>2, <1>4, Zenon
    <2>2. command = "backfill" /\ c = ChainList[1]
        BY <1>3, <2>1, Zenon DEF Draining
    <2>3. task'[c] = "done"
        BY <1>0, <2>1, Zenon
    <2> QED BY <2>1, <2>2, <2>3, Zenon
<1>8. Draining'
    <2>1. command = "backfill" => /\ \A d \in Chains \ {ChainList[1]} : task'[d] = "absent"
                                  /\ proc' # "boot"
        BY <1>1, <1>3, <1>6, Zenon DEF Draining
    <2> QED BY <1>1, <1>6, <1>7, <2>1, Zenon DEF Draining
<1> QED BY <1>5, <1>8, Zenon

\* A worker takes an item out of the queue only where it holds one.
LEMMA WorkersDrain ==
    ASSUME Pool, Draining, NEW w \in Workers, WorkerStep(w) \/ ItemFails(w)
    PROVE  Pool' /\ Draining'
<1>0. /\ depth \in Nat /\ IsFiniteSet(Busy) /\ Cardinality(Busy) \in Nat
      /\ Cardinality(Busy) <= depth
      /\ worker \in [Workers -> {"absent", "polling", "busy", "done", "dead"}]
    BY FS_CardinalityType, Zenon DEF Pool
<1>1. UNCHANGED <<command, proc, task, token, worker_token>> /\ proc = "up"
    BY Zenon DEF WorkerStep, PullItem, ItemDone, WorkerStops, ItemFails, boot, ingest, tokens
<1>2. CASE PullItem(w)
    <2>1. Busy' = Busy \cup {w} /\ w \notin Busy /\ Cardinality(Busy) < depth /\ depth' = depth
        BY <1>0, <1>2, Zenon DEF PullItem, Busy
    <2>2. IsFiniteSet(Busy') /\ Cardinality(Busy') = Cardinality(Busy) + 1
        BY <1>0, <2>1, FS_AddElement, Zenon
    <2>3. depth' \in Nat /\ Cardinality(Busy') <= depth'
        BY <1>0, <2>1, <2>2
    <2>4. Pool'
        <3>1. /\ worker' \in [Workers -> {"absent", "polling", "busy", "done", "dead"}]
              /\ \A v \in Workers : worker'[v] = "done" => worker[v] = "done"
            BY <1>0, <1>2, Zenon DEF PullItem
        <3> QED BY <1>1, <2>2, <2>3, <3>1, Zenon DEF Pool, StopWorkers
    <2> QED BY <1>1, <2>1, <2>4, Zenon DEF Draining
<1>3. CASE ItemDone(w) \/ ItemFails(w)
    <2>1. /\ Busy' = Busy \ {w} /\ w \in Busy /\ depth' \in {depth, depth - 1}
          /\ worker' \in [Workers -> {"absent", "polling", "busy", "done", "dead"}]
          /\ \A v \in Workers : worker'[v] = "done" => worker[v] = "done"
        <3>1. \E next \in {"polling", "dead"} : worker' = [worker EXCEPT ![w] = next]
            BY <1>3, Zenon DEF ItemDone, ItemFails
        <3>2. depth' \in {depth, depth - 1} /\ worker[w] = "busy"
            BY <1>3, Zenon DEF ItemDone, ItemFails
        <3> QED BY <1>0, <3>1, <3>2, Zenon DEF Busy
    <2>2. IsFiniteSet(Busy') /\ Cardinality(Busy') = Cardinality(Busy) - 1
        BY <1>0, <2>1, FS_RemoveElement, Zenon
    <2>3. Cardinality(Busy) # 0
        BY <1>0, <2>1, FS_EmptySet, Zenon
    <2>4. depth # 0 /\ depth' \in Nat /\ Cardinality(Busy') <= depth'
        BY <1>0, <2>1, <2>2, <2>3
    <2>5. Pool'
        BY <1>1, <2>1, <2>2, <2>4, Zenon DEF Pool, StopWorkers
    <2> QED BY <1>1, <2>4, <2>5, Zenon DEF Draining
<1>4. CASE WorkerStops(w)
    <2>1. /\ Busy' = Busy /\ depth' = depth /\ StopWorkers
          /\ worker' \in [Workers -> {"absent", "polling", "busy", "done", "dead"}]
        BY <1>0, <1>4, Zenon DEF WorkerStops, Busy
    <2>2. Pool'
        BY <1>0, <1>1, <2>1, Zenon DEF Pool, StopWorkers
    <2> QED BY <1>1, <2>1, <2>2, Zenon DEF Draining
<1> QED BY <1>2, <1>3, <1>4, Zenon DEF WorkerStep

\* Whatever the commands' chains, workers and faults: a process that exits
\* without a signal was a backfill, or lost its whole pool to panics, and the
\* backfill leaves no work item behind.
THEOREM ExitsDrained == Spec => []DrainedOnExit
<1>1. IInv /\ Pool /\ Draining /\ [Next]_vars => Pool' /\ Draining'
    <2> SUFFICES ASSUME IInv, Pool, Draining, [Next]_vars PROVE Pool' /\ Draining'
        BY Zenon
    <2>1. CASE Signal
        <3>1. token' /\ UNCHANGED <<command, proc, task, worker, depth, worker_token>>
            BY <2>1, Zenon DEF Signal, boot, ingest, queue
        <3> QED BY <3>1, Zenon DEF Pool, Busy, StopWorkers, Draining
    <2>2. CASE Exit
        <3>1. /\ UNCHANGED <<command, task, worker, depth, token, worker_token>>
              /\ proc' = "exited" /\ \A w \in Workers : worker[w] \in {"done", "dead"}
            BY <2>2, Zenon DEF Exit, boot, ingest, queue, tokens
        <3> QED BY <3>1, Zenon DEF Pool, Busy, StopWorkers, Draining
    <2>3. CASE UNCHANGED vars
        BY <2>3, Zenon DEF vars, boot, ingest, queue, tokens, Pool, Busy, StopWorkers, Draining
    <2>4. CASE Booting \/ BootFails
        BY <2>4, BootDrains, Zenon DEF Booting
    <2>5. ASSUME NEW c \in Chains, ChainStep(c) \/ AttemptFails(c) PROVE Pool' /\ Draining'
        BY <2>5, ChainDrains, Zenon
    <2>6. ASSUME NEW w \in Workers, WorkerStep(w) \/ ItemFails(w) PROVE Pool' /\ Draining'
        BY <2>6, WorkersDrain, Zenon
    <2> QED BY <2>1, <2>2, <2>3, <2>4, <2>5, <2>6, Zenon DEF Next
<1>2. Pool /\ Draining => DrainedOnExit
    BY Zenon DEF Pool, Draining, DrainedOnExit, StopWorkers
<1> QED BY Inductive, InitDrained, <1>1, <1>2, PTL DEF Spec

=============================================================================
