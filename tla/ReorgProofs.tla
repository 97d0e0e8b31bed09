------------------------------ MODULE ReorgProofs ------------------------------
(***************************************************************************)
(* What holds of the tables of one chain for any length of it, any number  *)
(* of reorgs, backfills and crashes, and any concurrency: a raw row always *)
(* has its block; and, if no reorg is deeper than `confirmations`, nothing *)
(* that the loop stores is ever orphaned, the cursor leaves no gap, and a  *)
(* raw row that is not decoded has its item in the queue.                  *)
(***************************************************************************)
EXTENDS Reorg, TLAPS

Block == [fork : Nat, log : BOOLEAN]
Rec == [h : 1..MaxHead, fork : Nat]
Fetch == [h : 1..MaxHead, row : SUBSET Rec, meta : SUBSET Rec]

ChainType == canon \in Seq(Block) /\ head <= MaxHead /\ forks \in Nat

TableType ==
    /\ raw \subseteq Rec /\ blocks \subseteq Rec /\ typed \subseteq Rec /\ work.rows \subseteq Rec
    /\ logged \subseteq Rec /\ fetched \subseteq Fetch

NumberType ==
    /\ todo \subseteq 1..head /\ Heights(logged) \subseteq 1..head
    /\ waiting \cup writing \cup indexed \subseteq 1..MaxHead
    /\ next \in Nat \ {0} /\ frontier \in Nat \ {0} /\ cursor \in Nat \cup {NoRow}
    /\ backfills \in Nat /\ faults \in Nat

Typed == ChainType /\ TableType /\ NumberType

\* A range's raw row and the block fetched for it are of its height, both or none.
Paired == \A f \in fetched : Heights(f.row) = Heights(f.meta) /\ Heights(f.row) \subseteq {f.h}

Confirmed == Minus(head, Confirmations)

\* r is what a confirmed block of the canonical chain holds.
OnChain(r) == r.h \in 1..Confirmed /\ canon[r.h].log /\ r.fork = canon[r.h].fork

\* All rows: stored, on their way into the raw store, and in the worker's hands.
Held == raw \cup blocks \cup typed \cup work.rows \cup logged \cup UNION {f.row \cup f.meta : f \in fetched}

\* The loop by itself asks for confirmed blocks only.
OnlyConfirmed == backfills = 0 => todo \subseteq 1..Confirmed /\ \A r \in Held : OnChain(r)

Driving == pc \in {"follow", "backfill"}
Outstanding == todo \cup Heights(logged) \cup Heights(fetched)

\* Between two drives nothing is fetched or written.
AtRest == ~Driving => todo = {} /\ logged = {} /\ fetched = {} /\ writing = {}

\* What is stored, recorded or passed was committed.
Committed ==
    /\ Heights(blocks) \subseteq indexed
    /\ Driving => writing \cup waiting \subseteq indexed
    /\ Uninterrupted =>
          /\ 1 .. (next - 1) \subseteq indexed
          /\ 1 .. cursor \subseteq indexed
          /\ Driving => 1 .. (frontier - 1) \subseteq indexed

\* Without a crash, what is committed or under way has no gap.
NoHole == faults = 0 => \A h \in indexed \cup Outstanding : 1 .. h \subseteq indexed \cup Outstanding

IInv == Typed /\ Paired /\ RawHasBlock
Loss == OnlyConfirmed /\ AtRest /\ Committed /\ NoHole

-----------------------------------------------------------------------------
LEMMA InitInv == Init => IInv /\ Loss
<1> SUFFICES ASSUME Init PROVE IInv /\ Loss
    BY Zenon
<1>1. canon \in Seq(Block) /\ head = 0
    BY DEF Init, head
<1>2. Typed
    BY <1>1, ReorgAssumption DEF Init, Typed, ChainType, TableType, NumberType, Heights, StartBlock, NoRow, Idle
<1>3. Paired /\ RawHasBlock /\ AtRest
    BY Zenon DEF Init, Paired, RawHasBlock, AtRest, Heights
<1>4. Committed /\ NoHole
    BY DEF Init, Committed, NoHole, Heights, Driving, Outstanding, StartBlock, NoRow
<1>5. OnlyConfirmed
    BY Zenon DEF Init, OnlyConfirmed, Held, Idle
<1> QED BY <1>2, <1>3, <1>4, <1>5, Zenon DEF IInv, Loss

LEMMA MinusGrows ==
    ASSUME NEW a \in Nat, NEW b \in Nat, a <= b
    PROVE  /\ Minus(a, Confirmations) \in Nat /\ Minus(b, Confirmations) \in Nat
           /\ Minus(a, Confirmations) <= Minus(b, Confirmations)
BY ReorgAssumption DEF Minus

\* What is confirmed stays confirmed and canonical, if reorgs are shallow.
LEMMA GrowthKeeps ==
    ASSUME IInv, ChainType', head <= head',
           UNCHANGED <<db, pc, next, drive, work, backfills, faults>>
    PROVE  /\ IInv'
           /\ (Loss /\ \A h \in 1..Confirmed : canon'[h] = canon[h]) => Loss'
<1>0. Typed /\ Paired /\ RawHasBlock
    BY Zenon DEF IInv
<1>1. UNCHANGED <<raw, blocks, typed, queue, cursor, indexed, todo, logged, fetched, writing,
                  frontier, waiting, pc, next, work, backfills, faults>>
    BY Zenon DEF db, drive
<1>2. head \in Nat /\ head' \in Nat
    BY <1>0 DEF Typed, ChainType, head
<1>3. TableType'
    BY <1>0, <1>1, Zenon DEF Typed, TableType
<1>4. NumberType'
    BY <1>0, <1>1, <1>2 DEF Typed, NumberType, Heights
<1>5. Paired' /\ RawHasBlock'
    BY <1>0, <1>1, ZenonT(30) DEF Paired, RawHasBlock, Heights
<1>6. ASSUME Loss, \A h \in 1..Confirmed : canon'[h] = canon[h] PROVE Loss'
    <2>1. Confirmed \in Nat /\ Confirmed' \in Nat /\ Confirmed <= Confirmed'
        BY <1>2, MinusGrows, Zenon DEF Confirmed
    <2>2. Held' = Held
        BY <1>1, Zenon DEF Held
    <2>3. \A r : OnChain(r) => OnChain(r)'
        BY <1>6, <2>1 DEF OnChain
    <2>4. OnlyConfirmed'
        BY <1>1, <1>6, <2>1, <2>2, <2>3 DEF Loss, OnlyConfirmed
    <2>5. AtRest' /\ Committed' /\ NoHole'
        BY <1>1, <1>6, Zenon DEF Loss, AtRest, Committed, NoHole, Driving, Outstanding, Heights, Uninterrupted
    <2> QED BY <2>4, <2>5, Zenon DEF Loss
<1> QED BY <1>3, <1>4, <1>5, <1>6, Zenon DEF IInv, Typed

LEMMA MineKeeps ==
    ASSUME IInv, Mine
    PROVE  IInv' /\ (Loss => Loss')
<1>1. canon \in Seq(Block) /\ forks \in Nat /\ head \in Nat /\ head < MaxHead /\ MaxHead \in Nat
    BY ReorgAssumption DEF IInv, Typed, ChainType, Mine, head
<1>2. PICK log \in BOOLEAN : canon' = Append(canon, [fork |-> forks, log |-> log])
    BY Zenon DEF Mine
<1>3. [fork |-> forks, log |-> log] \in Block
    BY <1>1, Zenon DEF Block
<1>4. canon' \in Seq(Block) /\ head' = head + 1 /\ \A h \in 1..head : canon'[h] = canon[h]
    BY <1>1, <1>2, <1>3 DEF head
<1>5. ChainType' /\ head <= head'
    BY <1>1, <1>4 DEF ChainType, Mine
<1>6. \A h \in 1..Confirmed : h \in 1..head
    BY <1>1, ReorgAssumption DEF Confirmed, Minus
<1>7. UNCHANGED <<db, pc, next, drive, work, backfills, faults>>
    BY Zenon DEF Mine
<1> QED BY <1>4, <1>5, <1>6, <1>7, GrowthKeeps, Zenon

LEMMA ForkKeeps ==
    ASSUME IInv, Fork
    PROVE  IInv' /\ (Loss /\ MaxDepth <= Confirmations => Loss')
<1>1. /\ canon \in Seq(Block) /\ forks \in Nat /\ head \in Nat /\ head <= MaxHead
      /\ {MaxHead, MaxDepth, Confirmations} \subseteq Nat
    BY ReorgAssumption DEF IInv, Typed, ChainType, head
<1>a. PICK d \in 1 .. Lesser(MaxDepth, head) : \E log \in [1..d -> BOOLEAN] :
          canon' = [h \in 1..head |->
              IF h <= head - d THEN canon[h]
              ELSE [fork |-> forks + 1, log |-> log[h - (head - d)]]]
    BY Zenon DEF Fork
<1>2. PICK log \in [1..d -> BOOLEAN] :
          canon' = [h \in 1..head |->
              IF h <= head - d THEN canon[h]
              ELSE [fork |-> forks + 1, log |-> log[h - (head - d)]]]
    BY <1>a, Zenon
<1>3. d \in Nat /\ 1 <= d /\ d <= MaxDepth /\ d <= head
    BY <1>1, <1>2 DEF Lesser
<1>4. \A h \in 1..head : canon'[h] \in Block
    <2> SUFFICES ASSUME NEW h \in 1..head PROVE canon'[h] \in Block
        BY Zenon
    <2>1. CASE h <= head - d
        <3>1. canon[h] \in Block
            BY <1>1 DEF head
        <3> QED BY <2>1, <3>1, <1>2, Zenon
    <2>2. CASE ~(h <= head - d)
        <3>1. h - (head - d) \in 1..d
            BY <2>2, <1>1, <1>3
        <3>2. [fork |-> forks + 1, log |-> log[h - (head - d)]] \in Block
            BY <3>1, <1>1, <1>2 DEF Block
        <3> QED BY <2>2, <3>2, <1>2, Zenon
    <2> QED BY <2>1, <2>2, Zenon
<1>5. canon' \in [1..head -> Block]
    BY <1>2, <1>4, Zenon
<1>6. canon' \in Seq(Block) /\ head' = head
    BY <1>1, <1>5 DEF head
<1>7. ChainType' /\ head <= head'
    <2>1. forks' \in Nat
        BY <1>1 DEF Fork
    <2>2. head <= head' /\ head' <= MaxHead
        BY <1>1, <1>6
    <2> QED BY <2>1, <2>2, <1>6, Zenon DEF ChainType
<1>8. ASSUME MaxDepth <= Confirmations PROVE \A h \in 1..Confirmed : canon'[h] = canon[h]
    <2>1. \A h \in 1..Confirmed : h \in 1..head /\ h <= head - d
        BY <1>1, <1>3, <1>8 DEF Confirmed, Minus
    <2> QED BY <2>1, <1>2, Zenon
<1>9. UNCHANGED <<db, pc, next, drive, work, backfills, faults>>
    BY Zenon DEF Fork
<1> QED BY <1>7, <1>8, <1>9, GrowthKeeps, Zenon

\* The steps of the loop that only move it.
Moves == Follow \/ ProbeOk \/ DriveEnds \/ Drained

LEMMA MovesKeep ==
    ASSUME IInv, Moves
    PROVE  IInv' /\ (Loss => Loss')
<1>0. Typed /\ Paired /\ RawHasBlock
    BY Zenon DEF IInv
<1>1. UNCHANGED <<canon, forks, raw, blocks, typed, queue, cursor, indexed, todo, logged, fetched, writing,
                  frontier, waiting, work, backfills, faults>>
    BY Zenon DEF Moves, Follow, ProbeOk, DriveEnds, Drained, chain, db, drive
<1>2. next' \in {next, frontier, IF cursor = NoRow THEN StartBlock ELSE cursor + 1}
    BY Zenon DEF Moves, Follow, ProbeOk, DriveEnds, Drained
<1>3. next' \in Nat \ {0}
    BY <1>0, <1>2 DEF Typed, NumberType, StartBlock
<1>4. Typed'
    BY <1>0, <1>1, <1>3, Zenon DEF Typed, ChainType, TableType, NumberType, Heights, head
<1>5. Paired' /\ RawHasBlock'
    BY <1>0, <1>1, ZenonT(30) DEF Paired, RawHasBlock, Heights
<1>6. ASSUME Loss PROVE Loss'
    <2>1. OnlyConfirmed'
        BY <1>1, <1>6, Zenon DEF Loss, OnlyConfirmed, OnChain, Held, Confirmed, head
    <2>2. AtRest' /\ (Driving' => Driving)
        BY <1>1, <1>6, Zenon DEF Loss, AtRest, Driving, Moves, Follow, ProbeOk, DriveEnds, Drained
    <2>3. NoHole'
        BY <1>1, <1>6, Zenon DEF Loss, NoHole, Outstanding, Heights
    <2>4. ASSUME Uninterrupted PROVE 1 .. (next' - 1) \subseteq indexed
        <3>1. CASE next' = next
            BY <3>1, <2>4, <1>6, Zenon DEF Loss, Committed
        <3>2. CASE DriveEnds
            BY <3>2, <2>4, <1>6, Zenon DEF Loss, Committed, DriveEnds, Driving
        <3>3. CASE Follow
            BY <3>3, <2>4, <1>0, <1>6 DEF Loss, Committed, Follow, Typed, NumberType, StartBlock
        <3> QED BY <3>1, <3>2, <3>3, Zenon DEF Moves, ProbeOk, Drained
    <2>5. Committed'
        BY <1>1, <1>6, <2>2, <2>4, Zenon DEF Loss, Committed, Heights, Uninterrupted
    <2> QED BY <2>1, <2>2, <2>3, <2>5, Zenon DEF Loss
<1> QED BY <1>4, <1>5, <1>6, Zenon DEF IInv

\* A drive starts at `from`, up to which all is committed, and asks for blocks
\* that the chain has.
LEMMA DriveStarts ==
    ASSUME IInv, NEW from \in Nat \ {0}, NEW to \in Int, to <= head, StartDrive(from, to),
           UNCHANGED <<chain, db, next, work, faults>>,
           backfills' \in Nat, backfills <= backfills', Driving'
    PROVE  /\ IInv'
           /\ (Loss /\ ~Driving /\ (backfills' = 0 => to <= Confirmed)
                 /\ (Uninterrupted => 1 .. (from - 1) \subseteq indexed)) => Loss'
<1>0. Typed /\ Paired /\ RawHasBlock
    BY Zenon DEF IInv
<1>1. /\ UNCHANGED <<canon, forks, raw, blocks, typed, queue, cursor, indexed, next, work, faults>>
      /\ todo' = from .. to /\ logged' = {} /\ fetched' = {} /\ writing' = {}
      /\ frontier' = from /\ waiting' = {}
    BY Zenon DEF StartDrive, chain, db
<1>2. Typed'
    BY <1>0, <1>1 DEF Typed, ChainType, TableType, NumberType, Heights, head
<1>3. Paired' /\ RawHasBlock'
    BY <1>0, <1>1, ZenonT(30) DEF Paired, RawHasBlock, Heights
<1>4. ASSUME Loss, ~Driving, backfills' = 0 => to <= Confirmed,
             Uninterrupted => 1 .. (from - 1) \subseteq indexed
      PROVE  Loss'
    <2>1. backfills' = 0 => backfills = 0
        BY <1>0 DEF Typed, NumberType
    <2>2. Confirmed \in Nat /\ Confirmed' = Confirmed
        BY <1>0, <1>1, ReorgAssumption DEF Typed, ChainType, Confirmed, Minus, head
    <2>3. OnlyConfirmed'
        BY <1>1, <1>4, <2>1, <2>2 DEF Loss, OnlyConfirmed, OnChain, Held
    <2>4. AtRest'
        BY Zenon DEF AtRest
    <2>5. Uninterrupted' => Uninterrupted
        BY <2>1, <1>1, Zenon DEF Uninterrupted
    <2>6. Committed'
        BY <1>1, <1>4, <2>5, Zenon DEF Loss, Committed, Heights
    <2>7. NoHole'
        <3> SUFFICES ASSUME faults = 0, NEW h \in indexed \cup (from .. to)
                     PROVE  1 .. h \subseteq indexed \cup (from .. to)
            BY <1>1, Zenon DEF NoHole, Outstanding, Heights
        <3>1. 1 .. (from - 1) \subseteq indexed
            BY <1>4, Zenon DEF Uninterrupted
        <3>2. CASE h \in from .. to
            BY <3>1, <3>2
        <3>3. CASE h \in indexed
            BY <3>3, <1>4, Zenon DEF Loss, NoHole, AtRest, Outstanding, Heights
        <3> QED BY <3>2, <3>3, Zenon
    <2> QED BY <2>3, <2>4, <2>6, <2>7, Zenon DEF Loss
<1> QED BY <1>2, <1>3, <1>4, Zenon DEF IInv

LEMMA BackfillKeeps ==
    ASSUME IInv, Backfill
    PROVE  IInv' /\ (Loss => Loss')
<1>1. PICK to \in StartBlock .. head : StartDrive(StartBlock, to)
    BY Zenon DEF Backfill
<1>2. head \in Nat /\ backfills \in Nat /\ backfills' = backfills + 1
    BY DEF IInv, Typed, ChainType, NumberType, head, Backfill
<1>3. to \in Int /\ to <= head /\ StartBlock \in Nat \ {0} /\ 1 .. (StartBlock - 1) = {}
    BY <1>2 DEF StartBlock
<1>4. UNCHANGED <<chain, db, next, work, faults>> /\ ~Driving /\ Driving'
    BY Zenon DEF Backfill, Driving
<1>5. backfills' \in Nat /\ backfills <= backfills' /\ backfills' # 0
    BY <1>2
<1> QED BY <1>1, <1>3, <1>4, <1>5, DriveStarts, Zenon

LEMMA PollKeeps ==
    ASSUME IInv, Poll
    PROVE  IInv' /\ (Loss => Loss')
<1> DEFINE to == fetch_target(Confirmed, next, 1, RangeConcurrency, TRUE)
<1>0. head \in Nat /\ backfills \in Nat /\ next \in Nat \ {0}
    BY DEF IInv, Typed, ChainType, NumberType, head
<1>1. CASE Confirmed >= next
    <2>1. Confirmed \in Nat /\ Confirmed <= head
        BY <1>0, ReorgAssumption DEF Confirmed, Minus
    <2>2. to \in Int /\ to <= Confirmed /\ to <= head
        BY <2>1, <1>0, ReorgAssumption DEF fetch_target, Lesser
    <2>3. StartDrive(next, to) /\ UNCHANGED <<chain, db, next, work, faults>> /\ backfills' = backfills
        BY <1>1, ZenonT(30) DEF Poll, Confirmed
    <2>4. ~Driving /\ Driving'
        BY <1>1, Zenon DEF Poll, Confirmed, Driving
    <2>5. Loss => (Uninterrupted => 1 .. (next - 1) \subseteq indexed)
        BY Zenon DEF Loss, Committed
    <2> HIDE DEF to
    <2> QED BY <1>0, <2>2, <2>3, <2>4, <2>5, DriveStarts
<1>2. CASE ~(Confirmed >= next)
    <2>1. pc = "poll" /\ pc' = "probe"
          /\ UNCHANGED <<canon, forks, raw, blocks, typed, queue, cursor, indexed, todo, logged, fetched,
                  writing, frontier, waiting, next, work, backfills, faults>>
        BY <1>2, Zenon DEF Poll, Confirmed, chain, db, drive
    <2>2. IInv'
        BY <2>1, ZenonT(30) DEF IInv, Typed, ChainType, TableType, NumberType, Heights, head, Paired, RawHasBlock
    <2>3. OnlyConfirmed => OnlyConfirmed'
        BY <2>1, Zenon DEF OnlyConfirmed, OnChain, Held, Confirmed, head
    <2>4. (AtRest => AtRest') /\ (Committed => Committed') /\ (NoHole => NoHole')
        BY <2>1, Zenon DEF AtRest, Committed, NoHole, Driving, Outstanding, Heights, Uninterrupted
    <2> QED BY <2>2, <2>3, <2>4, Zenon DEF Loss
<1> QED BY <1>1, <1>2, Zenon

\* A row that the confirmed chain holds is not orphaned.
LEMMA CanonicalTip ==
    ASSUME IInv, \A r \in blocks : OnChain(r)
    PROVE  ~Diverged
<1>1. head \in Nat /\ Confirmed <= head
    BY ReorgAssumption DEF IInv, Typed, ChainType, head, Confirmed, Minus
<1>2. \A b \in blocks : b.h <= head /\ block_hash(b.h) = b.fork
    BY <1>1, ReorgAssumption DEF OnChain, block_hash, IInv, Typed, TableType, Rec, Confirmed, Minus
<1> QED BY <1>2, Zenon DEF Diverged, Tip

LEMMA HeightsBelow ==
    ASSUME NEW S, NEW n
    PROVE  Heights(Below(S, n)) = {x \in Heights(S) : x < n}
BY Zenon DEF Heights, Below

LEMMA RollbackKeeps ==
    ASSUME IInv, Rollback
    PROVE  IInv' /\ (Loss => Loss')
<1>0. Typed /\ Paired /\ RawHasBlock
    BY Zenon DEF IInv
<1>1. PICK b \in Tip :
        LET fork == Minus(b.h, Confirmations)
            from == fork + 1
        IN  /\ typed' = Below(typed, from)
            /\ raw' = Below(raw, from)
            /\ blocks' = Below(blocks, from)
            /\ cursor' = IF cursor = NoRow THEN NoRow ELSE fork
            /\ indexed' = indexed \ (from .. MaxHead)
            /\ next' = from
    BY Zenon DEF Rollback
<1> DEFINE fork == Minus(b.h, Confirmations)
           from == fork + 1
<1>2. /\ UNCHANGED <<canon, forks, queue, todo, logged, fetched, writing, frontier, waiting, work,
                     backfills, faults>>
      /\ pc = "probe" /\ pc' = "poll" /\ Diverged
    BY Zenon DEF Rollback, chain, drive
<1>3. b \in blocks /\ b.h \in 1..MaxHead /\ MaxHead \in Nat
    BY <1>0, ReorgAssumption, Zenon DEF Tip, Typed, TableType, Rec
<1>4. fork \in Nat /\ fork <= b.h
    BY <1>3, ReorgAssumption DEF Minus
<1>5. /\ typed' = Below(typed, from) /\ raw' = Below(raw, from) /\ blocks' = Below(blocks, from)
      /\ cursor' = (IF cursor = NoRow THEN NoRow ELSE fork)
      /\ indexed' = indexed \ (from .. MaxHead) /\ next' = from
    BY <1>1, Zenon
<1> HIDE DEF fork
<1>6. /\ raw' \subseteq raw /\ blocks' \subseteq blocks /\ typed' \subseteq typed
      /\ indexed' \subseteq indexed
    BY <1>5, Zenon DEF Below
<1>7. Typed'
    <2>1. cursor' \in Nat \cup {NoRow} /\ next' \in Nat \ {0}
        BY <1>4, <1>5
    <2> QED BY <2>1, <1>0, <1>2, <1>6, Zenon DEF Typed, ChainType, TableType, NumberType, Heights, head
<1>8. Paired' /\ RawHasBlock'
    <2>1. Paired'
        BY <1>0, <1>2, Zenon DEF Paired
    <2>2. Heights(raw') = Heights(blocks')
        <3>1. Heights(Below(raw, from)) = {x \in Heights(raw) : x < from}
            BY HeightsBelow, Zenon
        <3>2. Heights(Below(blocks, from)) = {x \in Heights(blocks) : x < from}
            BY HeightsBelow, Zenon
        <3> QED BY <1>0, <1>5, <3>1, <3>2, Zenon DEF RawHasBlock
    <2>3. RawHasBlock'
        BY <2>2, Zenon DEF RawHasBlock, Heights
    <2> QED BY <2>1, <2>3, Zenon
<1>9. ASSUME Loss PROVE Loss'
    <2>1. OnlyConfirmed'
        BY <1>2, <1>6, <1>9, Zenon DEF Loss, OnlyConfirmed, OnChain, Held, Confirmed, head
    <2>2. AtRest' /\ ~Driving' /\ Outstanding = {} /\ Outstanding' = {}
        BY <1>2, <1>9, Zenon DEF Loss, AtRest, Driving, Outstanding, Heights
    <2>3. backfills # 0
        BY CanonicalTip, <1>2, <1>9, Zenon DEF Loss, OnlyConfirmed, Held
    <2>4. ASSUME faults = 0 PROVE 1 .. fork \subseteq indexed'
        <3>1. b.h \in indexed
            BY <1>3, <1>9, Zenon DEF Loss, Committed, Heights
        <3>2. 1 .. b.h \subseteq indexed
            BY <3>1, <2>2, <2>4, <1>9, Zenon DEF Loss, NoHole
        <3> QED BY <3>2, <1>3, <1>4, <1>5
    <2>5. Heights(blocks') \subseteq indexed'
        <3> SUFFICES ASSUME NEW r \in blocks, r.h < from PROVE r.h \in indexed'
            BY <1>5, Zenon DEF Heights, Below
        <3>1. r.h \in indexed /\ r.h \in Nat
            BY <1>0, <1>9 DEF Loss, Committed, Heights, Typed, TableType, Rec
        <3> QED BY <3>1, <1>4, <1>5
    <2>6. Uninterrupted' => 1 .. (next' - 1) \subseteq indexed' /\ 1 .. cursor' \subseteq indexed'
        <3> SUFFICES ASSUME faults = 0
                     PROVE  1 .. (next' - 1) \subseteq indexed' /\ 1 .. cursor' \subseteq indexed'
            BY <1>2, <2>3, Zenon DEF Uninterrupted
        <3>1. next' - 1 = fork
            BY <1>4, <1>5
        <3>2. cursor' = fork \/ 1 .. cursor' = {}
            BY <1>5 DEF NoRow
        <3> QED BY <3>1, <3>2, <2>4, Zenon
    <2>7. Committed'
        BY <2>2, <2>5, <2>6, Zenon DEF Committed, Heights
    <2>8. NoHole'
        <3> SUFFICES ASSUME faults = 0, NEW h \in indexed' PROVE 1 .. h \subseteq indexed'
            BY <1>2, <2>2, Zenon DEF NoHole
        <3>1. h \in 1..MaxHead /\ h \in indexed /\ h < from
            BY <1>0, <1>4, <1>5 DEF Typed, NumberType
        <3>2. 1 .. h \subseteq indexed
            BY <3>1, <2>2, <1>9, Zenon DEF Loss, NoHole
        <3> QED BY <3>1, <3>2, <1>4, <1>5
    <2> QED BY <2>1, <2>2, <2>7, <2>8, Zenon DEF Loss
<1> QED BY <1>7, <1>8, <1>9, Zenon DEF IInv

LEMMA FetchLogsKeeps ==
    ASSUME IInv, NEW h \in todo, FetchLogs(h)
    PROVE  IInv' /\ (Loss => Loss')
<1>0. Typed /\ Paired /\ RawHasBlock
    BY Zenon DEF IInv
<1>1. /\ UNCHANGED <<canon, forks, raw, blocks, typed, queue, cursor, indexed, pc, next, writing,
                     frontier, waiting, work, backfills, faults>>
      /\ todo' = todo \ {h}
    BY Zenon DEF FetchLogs, chain, db
<1> DEFINE r == [h |-> h, fork |-> canon[h].fork]
           f == [h |-> h, row |-> {}, meta |-> {}]
<1>2. \/ canon[h].log /\ logged' = logged \cup {r} /\ fetched' = fetched
      \/ logged' = logged /\ fetched' = fetched \cup {f}
    BY Zenon DEF FetchLogs
<1>3. h \in 1..head /\ h \in 1..MaxHead /\ canon[h] \in Block
    <2>1. h \in 1..head
        BY <1>0, Zenon DEF Typed, NumberType
    <2> QED BY <2>1, <1>0, ReorgAssumption DEF Typed, ChainType, head
<1>4. r \in Rec /\ r.h = h
    BY <1>3, Zenon DEF Rec, Block
<1>5. f \in Fetch /\ f.h = h /\ Heights(f.row) = {} /\ Heights(f.meta) = {} /\ f.row = {} /\ f.meta = {}
    BY <1>3, Zenon DEF Fetch, Heights
<1> HIDE DEF f
<1>6. Typed'
    <2>1. Heights(logged') \subseteq Heights(logged) \cup {h}
        BY <1>2, <1>4, Zenon DEF Heights
    <2> HIDE DEF r
    <2>2. TableType' /\ ChainType'
        BY <1>0, <1>1, <1>2, <1>4, <1>5, Zenon DEF Typed, ChainType, TableType, head
    <2> QED BY <2>1, <2>2, <1>0, <1>1, <1>3, Zenon DEF Typed, NumberType, Heights, head
<1>7. Paired' /\ RawHasBlock'
    BY <1>0, <1>1, <1>2, <1>5, ZenonT(30) DEF Paired, RawHasBlock, Heights
<1>8. ASSUME Loss PROVE Loss'
    <2>1. Driving
        BY <1>8, Zenon DEF Loss, AtRest
    <2>2. OnlyConfirmed'
        <3> SUFFICES ASSUME backfills = 0
                     PROVE  todo' \subseteq 1..Confirmed /\ \A q \in Held' : OnChain(q)
            BY <1>1, Zenon DEF OnlyConfirmed, OnChain, Confirmed, head
        <3>1. todo \subseteq 1..Confirmed /\ \A q \in Held : OnChain(q)
            BY <1>8, Zenon DEF Loss, OnlyConfirmed
        <3>2. canon[h].log => OnChain(r)
            BY <3>1, Zenon DEF OnChain
        <3> HIDE DEF r
        <3>3. Held' \subseteq Held \/ (canon[h].log /\ Held' \subseteq Held \cup {r})
            BY <1>1, <1>2, <1>5 DEF Held
        <3> QED BY <3>1, <3>2, <3>3, <1>1, Zenon
    <2>3. Outstanding' = Outstanding
        BY <1>1, <1>2, <1>4, <1>5 DEF Outstanding, Heights
    <2>4. AtRest' /\ Committed' /\ NoHole'
        BY <1>1, <1>8, <2>1, <2>3, Zenon DEF Loss, AtRest, Committed, NoHole, Driving, Heights, Uninterrupted
    <2> QED BY <2>2, <2>4, Zenon DEF Loss
<1> QED BY <1>6, <1>7, <1>8, Zenon DEF IInv

LEMMA FetchAuxKeeps ==
    ASSUME IInv, NEW r \in logged, FetchAux(r)
    PROVE  IInv' /\ (Loss => Loss')
<1>0. Typed /\ Paired /\ RawHasBlock
    BY Zenon DEF IInv
<1> DEFINE m == [h |-> r.h, fork |-> canon[r.h].fork]
           f == [h |-> r.h, row |-> {r}, meta |-> {m}]
<1>1. /\ UNCHANGED <<canon, forks, raw, blocks, typed, queue, cursor, indexed, pc, next, todo, writing,
                     frontier, waiting, work, backfills, faults>>
      /\ logged' = logged \ {r} /\ fetched' = fetched \cup {f}
    BY Zenon DEF FetchAux, chain, db
<1>2. r \in Rec /\ r.h \in 1..MaxHead /\ canon[r.h] \in Block
    <2>1. r \in Rec /\ r.h \in 1..MaxHead
        BY <1>0, Zenon DEF Typed, TableType, Rec
    <2>2. r.h \in 1..head
        BY <1>0, Zenon DEF Typed, NumberType, Heights
    <2> QED BY <2>1, <2>2, <1>0 DEF Typed, ChainType, head
<1>3. m \in Rec /\ m.h = r.h
    BY <1>2, Zenon DEF Rec, Block
<1>a. m.fork = canon[r.h].fork
    BY Zenon
<1> HIDE DEF m
<1>4. f \in Fetch /\ f.h = r.h /\ f.row = {r} /\ f.meta = {m}
    BY <1>2, <1>3, Zenon DEF Fetch
<1> HIDE DEF f
<1>5. Heights(f.row) = {f.h} /\ Heights(f.meta) = {f.h}
    BY <1>3, <1>4, Zenon DEF Heights
<1>6. Typed'
    <2>1. TableType' /\ ChainType'
        BY <1>0, <1>1, <1>4, Zenon DEF Typed, ChainType, TableType, head
    <2> QED BY <2>1, <1>0, <1>1, Zenon DEF Typed, NumberType, Heights, head
<1>7. Paired' /\ RawHasBlock'
    <2>1. Paired'
        BY <1>0, <1>1, <1>5, ZenonT(30) DEF Paired, Heights
    <2> QED BY <2>1, <1>0, <1>1, Zenon DEF RawHasBlock, Heights
<1>8. ASSUME Loss PROVE Loss'
    <2>1. Driving
        BY <1>8, Zenon DEF Loss, AtRest
    <2>2. OnlyConfirmed'
        <3> SUFFICES ASSUME backfills = 0
                     PROVE  todo \subseteq 1..Confirmed /\ \A q \in Held' : OnChain(q)
            BY <1>1, Zenon DEF OnlyConfirmed, OnChain, Confirmed, head
        <3>1. todo \subseteq 1..Confirmed /\ (\A q \in Held : OnChain(q)) /\ r \in Held
            BY <1>8, Zenon DEF Loss, OnlyConfirmed, Held
        <3>2. OnChain(m)
            BY <3>1, <1>3, <1>a, Zenon DEF OnChain
        <3>3. Held' \subseteq Held \cup {m}
            BY <3>1, <1>1, <1>4 DEF Held
        <3> QED BY <3>1, <3>2, <3>3, Zenon
    <2>3. Outstanding' = Outstanding
        BY <1>1, <1>4, Zenon DEF Outstanding, Heights
    <2>4. AtRest' /\ Committed' /\ NoHole'
        BY <1>1, <1>8, <2>1, <2>3, Zenon DEF Loss, AtRest, Committed, NoHole, Driving, Heights, Uninterrupted
    <2> QED BY <2>2, <2>4, Zenon DEF Loss
<1> QED BY <1>6, <1>7, <1>8, Zenon DEF IInv

LEMMA CommitKeeps ==
    ASSUME IInv, NEW f \in fetched, Commit(f)
    PROVE  IInv' /\ (Loss => Loss')
<1>0. Typed /\ Paired /\ RawHasBlock
    BY Zenon DEF IInv
<1>1. /\ UNCHANGED <<canon, forks, typed, cursor, pc, next, todo, logged, frontier, waiting, work,
                     backfills, faults>>
      /\ writing' = {f.h} /\ fetched' = fetched \ {f}
      /\ raw' = raw \cup {r \in f.row : r.h \notin Heights(raw)}
      /\ blocks' = {b \in blocks : b.h \notin Heights(f.meta)} \cup f.meta
      /\ indexed' = indexed \cup {f.h}
    BY Zenon DEF Commit, chain
<1>2. f.h \in 1..MaxHead /\ f.row \subseteq Rec /\ f.meta \subseteq Rec
    BY <1>0, Zenon DEF Typed, TableType, Fetch
<1>3. Heights(f.row) = Heights(f.meta) /\ Heights(f.meta) \subseteq {f.h}
    BY <1>0, Zenon DEF Paired
<1>4. Typed'
    <2>1. TableType' /\ ChainType'
        BY <1>0, <1>1, <1>2, Zenon DEF Typed, ChainType, TableType, head
    <2> QED BY <2>1, <1>0, <1>1, <1>2, Zenon DEF Typed, NumberType, Heights, head
<1>5. Heights(raw') = Heights(raw) \cup Heights(f.row)
    BY <1>1, Zenon DEF Heights
<1>6. Heights(blocks') = Heights(blocks) \cup Heights(f.meta)
    BY <1>1, Zenon DEF Heights
<1>7. Paired' /\ RawHasBlock'
    <2>1. Paired'
        BY <1>0, <1>1, ZenonT(30) DEF Paired, Heights
    <2>2. Heights(raw') = Heights(blocks')
        BY <1>0, <1>3, <1>5, <1>6, Zenon DEF RawHasBlock
    <2> QED BY <2>1, <2>2, Zenon DEF RawHasBlock, Heights
<1>8. ASSUME Loss PROVE Loss'
    <2>1. Driving
        BY <1>8, Zenon DEF Loss, AtRest
    <2>2. OnlyConfirmed'
        <3>1. Held' \subseteq Held
            BY <1>1 DEF Held
        <3> QED BY <3>1, <1>1, <1>8, Zenon DEF Loss, OnlyConfirmed, OnChain, Confirmed, head
    <2>3. Committed'
        BY <1>1, <1>3, <1>6, <1>8, <2>1, Zenon DEF Loss, Committed, Driving, Heights, Uninterrupted
    <2>4. indexed' \cup Outstanding' = indexed \cup Outstanding
        BY <1>1, Zenon DEF Outstanding, Heights
    <2>5. AtRest' /\ NoHole'
        BY <1>1, <1>8, <2>1, <2>4, Zenon DEF Loss, AtRest, NoHole, Driving
    <2> QED BY <2>2, <2>3, <2>5, Zenon DEF Loss
<1> QED BY <1>4, <1>7, <1>8, Zenon DEF IInv

\* The prefix of one-block ranges ends behind blocks that are all recorded.
LEMMA PrefixOfBlocks ==
    ASSUME NEW done \in SUBSET Nat, NEW from \in Nat \ {0},
           NEW g \in PrefixEnds({Span(h, h) : h \in done}, from)
    PROVE  g \in Nat \ {0} /\ from <= g /\ from .. (g - 1) \subseteq done
<1> DEFINE rs == {Span(h, h) : h \in done}
<1>1. \A r \in rs : r.hi \in Nat /\ BlocksOf(r) \subseteq done
    <2> SUFFICES ASSUME NEW h \in done
                 PROVE  Span(h, h).hi \in Nat /\ BlocksOf(Span(h, h)) \subseteq done
        BY Zenon
    <2>1. Span(h, h).lo = h /\ Span(h, h).hi = h /\ h \in Nat
        BY ZenonT(30) DEF Span
    <2> QED BY <2>1 DEF BlocksOf
<1>2. Covered(rs) \subseteq done
    BY <1>1, Zenon DEF Covered
<1> HIDE DEF rs
<1>3. /\ g \in {from} \cup {r.hi + 1 : r \in rs} /\ g >= from
      /\ from .. (g - 1) \subseteq Covered(rs)
    BY ZenonT(30) DEF PrefixEnds, rs
<1>4. g \in Nat
    BY <1>1, <1>3
<1> QED BY <1>2, <1>3, <1>4

LEMMA RecordKeeps ==
    ASSUME IInv, Record
    PROVE  IInv' /\ (Loss => Loss')
<1>0. Typed /\ Paired /\ RawHasBlock
    BY Zenon DEF IInv
<1> DEFINE done == waiting \cup writing
<1>1. PICK g \in PrefixEnds({Span(h, h) : h \in done}, frontier) :
          /\ frontier' = g
          /\ waiting' = {h \in done : h >= g}
          /\ cursor' = IF g # frontier THEN g - 1 ELSE cursor
    BY Zenon DEF Record
<1>2. /\ UNCHANGED <<canon, forks, raw, blocks, typed, queue, indexed, pc, next, todo, logged, fetched,
                     work, backfills, faults>>
      /\ writing # {} /\ writing' = {}
    BY Zenon DEF Record, chain
<1>3. done \in SUBSET Nat /\ done \subseteq 1..MaxHead /\ frontier \in Nat \ {0}
    BY <1>0 DEF Typed, NumberType
<1>4. g \in Nat \ {0} /\ frontier <= g /\ frontier .. (g - 1) \subseteq done
    <2> HIDE DEF done
    <2> QED BY <1>1, <1>3, PrefixOfBlocks, Zenon
<1>5. cursor' \in Nat \cup {NoRow} /\ (cursor' = cursor \/ cursor' = g - 1)
    BY <1>0, <1>1, <1>4 DEF Typed, NumberType
<1>6. Typed'
    <2>1. TableType' /\ ChainType'
        BY <1>0, <1>2, Zenon DEF Typed, ChainType, TableType, head
    <2>2. waiting' \subseteq 1..MaxHead /\ frontier' \in Nat \ {0}
        BY <1>1, <1>3, <1>4, Zenon
    <2> QED BY <2>1, <2>2, <1>0, <1>2, <1>5, ZenonT(30) DEF Typed, NumberType, Heights, head
<1>7. Paired' /\ RawHasBlock'
    BY <1>0, <1>2, ZenonT(30) DEF Paired, RawHasBlock, Heights
<1>8. ASSUME Loss PROVE Loss'
    <2>1. Driving /\ Driving'
        BY <1>2, <1>8, Zenon DEF Loss, AtRest, Driving
    <2>2. OnlyConfirmed'
        BY <1>2, <1>8, Zenon DEF Loss, OnlyConfirmed, OnChain, Held, Confirmed, head
    <2>3. AtRest' /\ NoHole'
        BY <1>2, <1>8, <2>1, Zenon DEF Loss, AtRest, NoHole, Outstanding, Heights
    <2>4. done \subseteq indexed
        BY <1>8, <2>1, Zenon DEF Loss, Committed
    <2>5. ASSUME Uninterrupted
          PROVE  1 .. (g - 1) \subseteq indexed /\ 1 .. cursor' \subseteq indexed /\ 1 .. (next - 1) \subseteq indexed
        <3>1. /\ 1 .. (frontier - 1) \subseteq indexed /\ 1 .. cursor \subseteq indexed
              /\ 1 .. (next - 1) \subseteq indexed
            BY <1>8, <2>1, <2>5, Zenon DEF Loss, Committed
        <3>2. 1 .. (g - 1) \subseteq indexed
            BY <3>1, <2>4, <1>3, <1>4
        <3> QED BY <3>1, <3>2, <1>5, Zenon
    <2>6. Heights(blocks) \subseteq indexed
        BY <1>8, Zenon DEF Loss, Committed
    <2>7. Committed'
        <3>1. writing' \cup waiting' \subseteq indexed'
            BY <1>1, <1>2, <2>4, Zenon
        <3> QED BY <3>1, <1>1, <1>2, <2>5, <2>6, Zenon DEF Committed, Heights, Uninterrupted
    <2> QED BY <2>2, <2>3, <2>7, Zenon DEF Loss
<1> QED BY <1>6, <1>7, <1>8, Zenon DEF IInv

LEMMA CrashKeeps ==
    ASSUME IInv, Crash
    PROVE  IInv' /\ (Loss => Loss')
<1>0. Typed /\ Paired /\ RawHasBlock
    BY Zenon DEF IInv
<1>1. /\ UNCHANGED <<canon, forks, raw, blocks, typed, queue, cursor, indexed, work, backfills>>
      /\ pc' = "down" /\ next' = 1 /\ frontier' = 1 /\ waiting' = {}
      /\ todo' = {} /\ logged' = {} /\ fetched' = {} /\ writing' = {}
    BY Zenon DEF Crash, chain, db, StartBlock
<1>2. faults' \in Nat /\ faults' # 0
    BY <1>0 DEF Typed, NumberType, Crash, Fault
<1>3. Typed'
    BY <1>0, <1>1, <1>2 DEF Typed, ChainType, TableType, NumberType, Heights, head
<1>4. Paired' /\ RawHasBlock'
    BY <1>0, <1>1, Zenon DEF Paired, RawHasBlock, Heights
<1>5. ASSUME Loss PROVE Loss'
    <2>1. OnlyConfirmed'
        BY <1>1, <1>5, Zenon DEF Loss, OnlyConfirmed, OnChain, Held, Confirmed, head
    <2>2. AtRest' /\ NoHole' /\ ~Driving'
        BY <1>1, <1>2, Zenon DEF AtRest, NoHole, Driving
    <2>3. Committed'
        BY <1>1, <1>2, <1>5, <2>2 DEF Loss, Committed, Heights, Uninterrupted
    <2> QED BY <2>1, <2>2, <2>3, Zenon DEF Loss
<1> QED BY <1>3, <1>4, <1>5, Zenon DEF IInv

\* The worker writes only what it read in the raw store.
LEMMA WorkerKeeps ==
    ASSUME IInv, Worker \/ WorkerErr
    PROVE  IInv' /\ (Loss => Loss')
<1>0. Typed /\ Paired /\ RawHasBlock
    BY Zenon DEF IInv
<1>1. UNCHANGED <<canon, forks, raw, blocks, cursor, indexed, pc, next, todo, logged, fetched, writing,
                  frontier, waiting, backfills>>
    BY Zenon DEF Worker, Pull, ReadRaw, WriteTyped, Ack, WorkerErr, chain, db, drive
<1>2. typed' \cup work'.rows \subseteq raw \cup typed \cup work.rows
    BY DEF Worker, Pull, ReadRaw, WriteTyped, Ack, WorkerErr, chain, db, Idle
<1>3. faults' \in Nat /\ (faults' = 0 => faults = 0)
    BY <1>0 DEF Worker, Pull, ReadRaw, WriteTyped, Ack, WorkerErr, Fault, Typed, NumberType
<1>4. Typed'
    <2>1. TableType' /\ ChainType'
        BY <1>0, <1>1, <1>2, Zenon DEF Typed, ChainType, TableType, head
    <2> QED BY <2>1, <1>0, <1>1, <1>3, Zenon DEF Typed, NumberType, Heights, head
<1>5. Paired' /\ RawHasBlock'
    BY <1>0, <1>1, ZenonT(30) DEF Paired, RawHasBlock, Heights
<1>6. ASSUME Loss PROVE Loss'
    <2>1. Held' \subseteq Held
        BY <1>1, <1>2, Zenon DEF Held
    <2>2. OnlyConfirmed'
        BY <2>1, <1>1, <1>6, Zenon DEF Loss, OnlyConfirmed, OnChain, Confirmed, head
    <2>3. AtRest' /\ Committed' /\ NoHole'
        BY <1>1, <1>3, <1>6, Zenon DEF Loss, AtRest, Committed, NoHole, Driving, Outstanding, Heights, Uninterrupted
    <2> QED BY <2>2, <2>3, Zenon DEF Loss
<1> QED BY <1>4, <1>5, <1>6, Zenon DEF IInv

-----------------------------------------------------------------------------
LEMMA Inductive ==
    ASSUME IInv, [Next]_vars
    PROVE  IInv' /\ (Loss /\ MaxDepth <= Confirmations => Loss')
<1>1. CASE UNCHANGED vars
    <2>1. UNCHANGED <<canon, forks, raw, blocks, typed, queue, cursor, indexed, pc, next, todo, logged,
                      fetched, writing, frontier, waiting, work, backfills, faults>>
        BY <1>1, Zenon DEF vars, chain, db, drive
    <2>2. IInv'
        BY <2>1, ZenonT(30) DEF IInv, Typed, ChainType, TableType, NumberType, Heights, head, Paired, RawHasBlock
    <2>3. OnlyConfirmed => OnlyConfirmed'
        BY <2>1, Zenon DEF OnlyConfirmed, OnChain, Held, Confirmed, head
    <2>4. (AtRest => AtRest') /\ (Committed => Committed') /\ (NoHole => NoHole')
        BY <2>1, Zenon DEF AtRest, Committed, NoHole, Driving, Outstanding, Heights, Uninterrupted
    <2> QED BY <2>2, <2>3, <2>4, Zenon DEF Loss
<1>2. CASE Mine
    BY <1>2, MineKeeps, Zenon
<1>3. CASE Fork
    BY <1>3, ForkKeeps, Zenon
<1>4. CASE Moves
    BY <1>4, MovesKeep, Zenon
<1>5. CASE Backfill
    BY <1>5, BackfillKeeps, Zenon
<1>6. CASE Poll
    BY <1>6, PollKeeps, Zenon
<1>7. CASE Rollback
    BY <1>7, RollbackKeeps, Zenon
<1>8. CASE \E h \in todo : FetchLogs(h)
    BY <1>8, FetchLogsKeeps, Zenon
<1>9. CASE \E r \in logged : FetchAux(r)
    BY <1>9, FetchAuxKeeps, Zenon
<1>10. CASE \E f \in fetched : Commit(f)
    BY <1>10, CommitKeeps, Zenon
<1>11. CASE Record
    BY <1>11, RecordKeeps, Zenon
<1>12. CASE Crash
    BY <1>12, CrashKeeps, Zenon
<1>13. CASE Worker \/ WorkerErr
    BY <1>13, WorkerKeeps, Zenon
<1> QED BY <1>1, <1>2, <1>3, <1>4, <1>5, <1>6, <1>7, <1>8, <1>9, <1>10, <1>11, <1>12, <1>13, Zenon
        DEF Next, IngestLoop, Pipeline, Moves

\* A raw row and the block that the probe would find it by come and go together,
\* however deep the reorgs are and whatever crashes.
THEOREM RawWithBlock == Spec => []RawHasBlock
<1>1. IInv /\ [Next]_vars => IInv'
    BY Inductive, Zenon
<1>2. Init => IInv
    BY InitInv, Zenon
<1>3. IInv => RawHasBlock
    BY Zenon DEF IInv
<1> QED BY <1>1, <1>2, <1>3, PTL DEF Spec

\* reorg.rs:4, "Correct while reorg depth <= confirmations": the loop by itself
\* never stores, decodes or has in flight a row that a reorg orphans.
THEOREM NeverOrphaned ==
    ASSUME MaxDepth <= Confirmations
    PROVE  Spec => []StoredCanonical
<1>1. IInv /\ Loss /\ [Next]_vars => (IInv /\ Loss)'
    BY Inductive, Zenon
<1>2. IInv /\ Loss => StoredCanonical
    <2> SUFFICES ASSUME IInv, Loss, backfills = 0, NEW r \in raw \cup blocks \cup typed
                 PROVE  r \in CanonRows(head)
        BY Zenon DEF StoredCanonical
    <2>1. OnChain(r) /\ r \in Rec
        BY Zenon DEF Loss, OnlyConfirmed, Held, IInv, Typed, TableType
    <2>2. r = [h |-> r.h, fork |-> r.fork]
        BY <2>1, Zenon DEF Rec
    <2>3. r.h \in 1..head /\ r.h <= head
        BY <2>1, ReorgAssumption DEF OnChain, Confirmed, Minus, IInv, Typed, ChainType, head
    <2> QED BY <2>1, <2>2, <2>3, Zenon DEF OnChain, CanonRows
<1> QED BY InitInv, <1>1, <1>2, PTL DEF Spec

\* So the probe of such a loop finds nothing: ReorgService::check rolls back only
\* after a backfill past the safe tip, or where a reorg was deeper.
THEOREM ProbeFindsNothing ==
    ASSUME MaxDepth <= Confirmations
    PROVE  Spec => [](backfills = 0 => ~Diverged)
<1>1. StoredCanonical => (backfills = 0 => ~Diverged)
    <2> SUFFICES ASSUME StoredCanonical, backfills = 0, NEW b \in Tip
                 PROVE  block_hash(b.h) \in {NoRow, b.fork}
        BY Zenon DEF Diverged
    <2>1. b \in CanonRows(head)
        BY Zenon DEF StoredCanonical, Tip
    <2>2. b.fork = canon[b.h].fork
        BY <2>1 DEF CanonRows
    <2> QED BY <2>2, Zenon DEF block_hash
<1> QED BY NeverOrphaned, <1>1, PTL

\* plan.rs:122: with reorgs that shallow, crashes of the loop and backfills that
\* run to their end leave no block below the cursor out.
THEOREM NoGap ==
    ASSUME MaxDepth <= Confirmations
    PROVE  Spec => []NoGapBelowCursor
<1>1. IInv /\ Loss /\ [Next]_vars => (IInv /\ Loss)'
    BY Inductive, Zenon
<1>2. IInv /\ Loss => NoGapBelowCursor
    BY Zenon DEF Loss, Committed, NoGapBelowCursor, StartBlock
<1> QED BY InitInv, <1>1, <1>2, PTL DEF Spec

-----------------------------------------------------------------------------
(* Nothing undecoded is forgotten.                                         *)

Flight == logged \cup UNION {f.row \cup f.meta : f \in fetched}

\* A backfill is the first thing the indexer does, unless something crashed.
Fresh ==
    /\ pc \in {"backfill", "drain"} => backfills # 0
    /\ backfills = 0 /\ faults = 0 /\ pc = "down" => indexed = {} /\ cursor = NoRow

\* One backfill, and no crash.  It leaves no block above the cursor, so the loop
\* starts behind all the blocks that may be orphaned; and when the loop has
\* added an item, the highest stored block is one of its own.
Once ==
    backfills = 1 /\ faults = 0 =>
        /\ pc = "backfill" =>
              /\ indexed \subseteq (1 .. (frontier - 1)) \cup waiting \cup writing
              /\ cursor = IF frontier = 1 THEN NoRow ELSE frontier - 1
              /\ frontier \notin waiting
        /\ pc \in {"drain", "down"} => indexed \subseteq 1 .. cursor
        /\ pc \in {"probe", "poll"} => \A b \in blocks : OnChain(b) \/ b.h < next
        /\ pc = "follow" =>
              /\ todo \subseteq 1 .. Confirmed /\ \A r \in Flight : OnChain(r)
              /\ \A b \in blocks : OnChain(b) \/ (b.h < frontier /\ \A h \in Outstanding : b.h < h)
        /\ pc \notin {"backfill", "drain"} => queue = <<>> \/ \A b \in Tip : OnChain(b)

Orderly == Uninterrupted /\ backfills <= 1
Items(q) == {q[i] : i \in DOMAIN q}

QueueType ==
    /\ queue \in Seq(1..MaxHead) /\ work.at \in {"idle", "read", "write", "ack"}
    /\ work.at # "idle" => queue # <<>>

\* The items are of stored ranges, those not decoded among them; the worker has
\* the rows of its item in its hands until they are in the typed table.
QueueGood ==
    Orderly =>
        /\ Items(queue) \subseteq Heights(raw)
        /\ Heights(raw) \ Heights(typed) \subseteq Items(queue)
        /\ work.at = "write" => Head(queue) \in Heights(work.rows)
        /\ work.at = "ack" => Head(queue) \in Heights(typed)

Lead == Fresh /\ Once /\ QueueType /\ QueueGood

LEMMA Appended ==
    ASSUME NEW q \in Seq(1..MaxHead), NEW h \in 1..MaxHead
    PROVE  /\ Append(q, h) \in Seq(1..MaxHead) /\ Append(q, h) # <<>>
           /\ Items(Append(q, h)) = Items(q) \cup {h}
           /\ q # <<>> => Head(Append(q, h)) = Head(q)
<1> DEFINE n == Len(q)
           a == Append(q, h)
<1>1. /\ n \in Nat /\ DOMAIN q = 1 .. n /\ a \in Seq(1..MaxHead) /\ Len(a) = n + 1
      /\ a[n + 1] = h /\ \A i \in 1 .. n : a[i] = q[i]
    OBVIOUS
<1>2. DOMAIN a = 1 .. (n + 1) /\ a # <<>>
    BY <1>1
<1>3. q # <<>> => Head(a) = Head(q)
    BY <1>1, <1>2
<1> HIDE DEF n, a
<1>4. \A i \in 1 .. (n + 1) : i \in 1 .. n \/ i = n + 1
    BY <1>1
<1>5. 1 .. n \subseteq 1 .. (n + 1) /\ n + 1 \in 1 .. (n + 1)
    BY <1>1
<1>6. Items(a) = Items(q) \cup {h}
    BY <1>1, <1>2, <1>4, <1>5, Zenon DEF Items
<1> QED BY <1>1, <1>2, <1>3, <1>6, Zenon DEF a

LEMMA Popped ==
    ASSUME NEW q \in Seq(1..MaxHead), q # <<>>
    PROVE  /\ Tail(q) \in Seq(1..MaxHead) /\ Items(Tail(q)) \subseteq Items(q)
           /\ Items(q) \subseteq Items(Tail(q)) \cup {Head(q)}
<1> DEFINE n == Len(q)
           t == Tail(q)
<1>1. /\ n \in Nat \ {0} /\ DOMAIN q = 1 .. n /\ t \in Seq(1..MaxHead) /\ Len(t) = n - 1
      /\ Head(q) = q[1] /\ \A i \in 1 .. (n - 1) : t[i] = q[i + 1]
    OBVIOUS
<1>2. DOMAIN t = 1 .. (n - 1)
    BY <1>1
<1> HIDE DEF n, t
<1>3. \A i \in 1 .. (n - 1) : i + 1 \in 1 .. n
    BY <1>1
<1>4. \A i \in 1 .. n : i = 1 \/ (i - 1 \in 1 .. (n - 1) /\ (i - 1) + 1 = i)
    BY <1>1
<1>5. Items(t) \subseteq Items(q)
    <2>1. \A i \in DOMAIN t : i + 1 \in DOMAIN q /\ t[i] = q[i + 1]
        BY <1>1, <1>2, <1>3, Zenon
    <2> QED BY <2>1, Zenon DEF Items
<1>6. \A i \in 1 .. n : q[i] = q[1] \/ (i - 1 \in 1 .. (n - 1) /\ t[i - 1] = q[i])
    BY <1>1, <1>4, Zenon
<1>7. Items(q) \subseteq Items(t) \cup {Head(q)}
    <2>1. \A i \in DOMAIN q : q[i] = Head(q) \/ \E j \in DOMAIN t : t[j] = q[i]
        BY <1>1, <1>2, <1>6, Zenon
    <2> QED BY <2>1, Zenon DEF Items
<1> QED BY <1>1, <1>5, <1>7, Zenon DEF t

\* A chain that grows, or forks less deep than `confirmations`, keeps what is
\* confirmed.
LEMMA ChainKeeps ==
    ASSUME IInv, Mine \/ (Fork /\ MaxDepth <= Confirmations)
    PROVE  /\ Confirmed \in Nat /\ Confirmed' \in Nat /\ Confirmed <= Confirmed'
           /\ \A r : OnChain(r) => OnChain(r)'
<1>1. /\ canon \in Seq(Block) /\ head \in Nat /\ head <= MaxHead /\ forks \in Nat
      /\ {MaxHead, MaxDepth, Confirmations} \subseteq Nat
    BY ReorgAssumption DEF IInv, Typed, ChainType, head
<1>2. head' \in Nat /\ head <= head' /\ \A h \in 1..Confirmed : canon'[h] = canon[h]
    <2>1. CASE Mine
        <3>1. PICK log \in BOOLEAN : canon' = Append(canon, [fork |-> forks, log |-> log])
            BY <2>1, Zenon DEF Mine
        <3>2. [fork |-> forks, log |-> log] \in Block
            BY <1>1, Zenon DEF Block
        <3>3. head' = head + 1 /\ \A h \in 1..head : canon'[h] = canon[h]
            BY <1>1, <3>1, <3>2 DEF head
        <3>4. \A h \in 1..Confirmed : h \in 1..head
            BY <1>1 DEF Confirmed, Minus
        <3> QED BY <3>3, <3>4, <1>1
    <2>2. CASE Fork /\ MaxDepth <= Confirmations
        <3>1. PICK d \in 1 .. Lesser(MaxDepth, head) : \E log \in [1..d -> BOOLEAN] :
                canon' = [h \in 1..head |->
                    IF h <= head - d THEN canon[h]
                    ELSE [fork |-> forks + 1, log |-> log[h - (head - d)]]]
            BY <2>2, Zenon DEF Fork
        <3>2. PICK log \in [1..d -> BOOLEAN] :
                canon' = [h \in 1..head |->
                    IF h <= head - d THEN canon[h]
                    ELSE [fork |-> forks + 1, log |-> log[h - (head - d)]]]
            BY <3>1, Zenon
        <3>3. d \in Nat /\ 1 <= d /\ d <= MaxDepth /\ d <= head
            BY <1>1, <3>2 DEF Lesser
        <3>4. ChainType'
            <4>1. IInv'
                BY <2>2, ForkKeeps, Zenon
            <4> QED BY <4>1, Zenon DEF IInv, Typed
        <3>5. DOMAIN canon' = 1..head /\ canon' \in Seq(Block)
            BY <3>2, <3>4, Zenon DEF ChainType
        <3>6. head' = head
            BY <3>5, <1>1 DEF head
        <3>7. \A h \in 1..Confirmed : h \in 1..head /\ h <= head - d
            BY <1>1, <2>2, <3>3 DEF Confirmed, Minus
        <3> QED BY <3>2, <3>6, <3>7, <1>1
    <2> QED BY <2>1, <2>2, Zenon
<1>3. Confirmed \in Nat /\ Confirmed' \in Nat /\ Confirmed <= Confirmed'
    BY <1>1, <1>2, MinusGrows, Zenon DEF Confirmed
<1>4. \A r : OnChain(r) => OnChain(r)'
    BY <1>2, <1>3 DEF OnChain
<1> QED BY <1>3, <1>4, Zenon

\* The chain goes on: the tables do not change.
LEMMA ChainLeads ==
    ASSUME IInv, Lead, Mine \/ (Fork /\ MaxDepth <= Confirmations)
    PROVE  Lead'
<1>1. UNCHANGED <<raw, blocks, typed, queue, cursor, indexed, todo, logged, fetched, writing,
                  frontier, waiting, pc, next, work, backfills, faults>>
    BY Zenon DEF Mine, Fork, db, drive
<1>2. Confirmed \in Nat /\ Confirmed' \in Nat /\ Confirmed <= Confirmed'
    BY ChainKeeps, Zenon
<1>3. \A r : OnChain(r) => OnChain(r)'
    BY ChainKeeps, Zenon
<1>4. 1 .. Confirmed \subseteq 1 .. Confirmed'
    BY <1>2
<1>5. Tip' = Tip /\ Flight' = Flight /\ Outstanding' = Outstanding
    BY <1>1, Zenon DEF Tip, Flight, Outstanding, Heights
<1>6. Once'
    BY <1>1, <1>3, <1>4, <1>5, Zenon DEF Lead, Once
<1>7. Fresh' /\ QueueType' /\ QueueGood'
    BY <1>1, Zenon DEF Lead, Fresh, QueueType, QueueGood, Orderly, Uninterrupted, Heights
<1> QED BY <1>6, <1>7, Zenon DEF Lead

\* Steps that leave the tables, the queue and the worker alone.
LEMMA QueueStays ==
    ASSUME IInv, Lead, UNCHANGED <<raw, typed, queue, work>>,
           backfills' \in Nat, faults' \in Nat, backfills <= backfills', faults <= faults'
    PROVE  QueueType' /\ QueueGood'
<1>1. backfills \in Nat /\ faults \in Nat
    BY Zenon DEF IInv, Typed, NumberType
<1>2. Orderly' => Orderly
    BY <1>1 DEF Orderly, Uninterrupted
<1> QED BY <1>2, Zenon DEF Lead, QueueType, QueueGood, Heights

LEMMA MovesLead ==
    ASSUME IInv, Loss, Lead, Moves
    PROVE  Lead'
<1>0. Typed /\ Fresh /\ Once
    BY Zenon DEF IInv, Lead
<1>1. UNCHANGED <<canon, forks, raw, blocks, typed, queue, cursor, indexed, todo, logged, fetched, writing,
                  frontier, waiting, work, backfills, faults>>
    BY Zenon DEF Moves, Follow, ProbeOk, DriveEnds, Drained, chain, db, drive
<1>2. /\ frontier \in Nat \ {0} /\ cursor \in Nat \cup {NoRow} /\ backfills \in Nat /\ faults \in Nat
      /\ \A b \in blocks : b.h \in Nat /\ b.h \in indexed
    BY <1>0 DEF Typed, NumberType, TableType, Rec, Loss, Committed, Heights
<1>3. QueueType' /\ QueueGood'
    BY <1>1, <1>2, QueueStays
<1>4. Fresh'
    BY <1>0, <1>1, Zenon DEF Fresh, Moves, Follow, ProbeOk, DriveEnds, Drained
<1>5. /\ Tip' = Tip /\ Flight' = Flight /\ Outstanding' = Outstanding /\ Confirmed' = Confirmed
      /\ \A r : OnChain(r)' <=> OnChain(r)
    BY <1>1, Zenon DEF Tip, Flight, Outstanding, Heights, Confirmed, OnChain, head
<1>6. ASSUME backfills = 1, faults = 0, Follow PROVE Once'
    <2>1. pc = "down" /\ pc' = "probe" /\ next' = IF cursor = NoRow THEN StartBlock ELSE cursor + 1
        BY <1>6, Zenon DEF Follow
    <2>2. indexed \subseteq 1 .. cursor /\ (queue = <<>> \/ \A b \in Tip : OnChain(b))
        BY <1>0, <1>6, <2>1, Zenon DEF Once
    <2>3. \A b \in blocks : b.h < next'
        BY <1>2, <2>1, <2>2 DEF NoRow
    <2> QED BY <1>1, <1>5, <2>1, <2>2, <2>3, Zenon DEF Once
<1>7. ASSUME backfills = 1, faults = 0, ProbeOk PROVE Once'
    <2>1. pc = "probe" /\ pc' = "poll" /\ next' = next
        BY <1>7, Zenon DEF ProbeOk
    <2> QED BY <1>0, <1>1, <1>5, <1>7, <2>1, Zenon DEF Once
<1>8. ASSUME backfills = 1, faults = 0, DriveEnds PROVE Once'
    <2>1. /\ Outstanding = {} /\ writing = {} /\ next' = frontier
          /\ pc \in {"follow", "backfill"} /\ pc' = IF pc = "follow" THEN "probe" ELSE "drain"
        BY <1>8, Zenon DEF DriveEnds, Outstanding, Heights
    <2>2. CASE pc = "follow"
        BY <1>0, <1>1, <1>5, <1>8, <2>1, <2>2, Zenon DEF Once
    <2>3. CASE pc = "backfill"
        <3>1. /\ indexed \subseteq (1 .. (frontier - 1)) \cup waiting
              /\ cursor = (IF frontier = 1 THEN NoRow ELSE frontier - 1) /\ frontier \notin waiting
            BY <1>0, <1>8, <2>1, <2>3, Zenon DEF Once
        <3>2. frontier \notin indexed
            BY <3>1, <1>2
        <3>3. \A h \in indexed : h \in Nat \ {0} /\ 1 .. h \subseteq indexed
            BY <1>0, <1>8, <2>1 DEF Typed, NumberType, Loss, NoHole
        <3>4. \A h \in indexed : h <= frontier - 1
            BY <3>2, <3>3, <1>2
        <3>5. indexed \subseteq 1 .. cursor
            BY <3>1, <3>3, <3>4, <1>2
        <3> QED BY <3>5, <1>1, <2>1, <2>3, Zenon DEF Once
    <2> QED BY <2>1, <2>2, <2>3, Zenon
<1>9. ASSUME backfills = 1, faults = 0, Drained PROVE Once'
    <2>1. pc = "drain" /\ queue = <<>> /\ pc' = "down"
        BY <1>9, Zenon DEF Drained
    <2> QED BY <1>0, <1>1, <1>9, <2>1, Zenon DEF Once
<1>10. Once'
    BY <1>1, <1>6, <1>7, <1>8, <1>9, Zenon DEF Moves, Once
<1> QED BY <1>3, <1>4, <1>10, Zenon DEF Lead

\* The first backfill without a crash finds the tables empty.
LEMMA BackfillLeads ==
    ASSUME IInv, Loss, Lead, Backfill
    PROVE  Lead'
<1>1. PICK to \in StartBlock .. head : StartDrive(StartBlock, to)
    BY Zenon DEF Backfill
<1>2. /\ UNCHANGED <<canon, forks, raw, blocks, typed, queue, cursor, indexed, work, faults>>
      /\ backfills' = backfills + 1 /\ pc = "down" /\ pc' = "backfill"
      /\ frontier' = 1 /\ waiting' = {} /\ writing' = {}
    BY <1>1, Zenon DEF Backfill, StartDrive, StartBlock, chain, db
<1>3. backfills \in Nat /\ faults \in Nat
    BY Zenon DEF IInv, Typed, NumberType
<1>4. QueueType' /\ QueueGood'
    BY <1>2, <1>3, QueueStays
<1>5. Fresh'
    BY <1>2, <1>3 DEF Fresh
<1>6. ASSUME backfills' = 1, faults = 0 PROVE indexed = {} /\ cursor = NoRow
    <2>1. backfills = 0
        BY <1>2, <1>3, <1>6
    <2> QED BY <2>1, <1>2, <1>6, Zenon DEF Lead, Fresh
<1>7. Once'
    BY <1>2, <1>6, Zenon DEF Once
<1> QED BY <1>4, <1>5, <1>7, Zenon DEF Lead

\* A drive of the loop starts behind the blocks that may be orphaned.
LEMMA PollLeads ==
    ASSUME IInv, Loss, Lead, Poll
    PROVE  Lead'
<1> DEFINE to == fetch_target(Confirmed, next, 1, RangeConcurrency, TRUE)
<1>0. /\ head \in Nat /\ backfills \in Nat /\ faults \in Nat /\ next \in Nat \ {0} /\ Once
      /\ \A b \in blocks : b.h \in Nat
    BY DEF IInv, Typed, ChainType, NumberType, head, Lead, TableType, Rec
<1>1. /\ UNCHANGED <<canon, forks, raw, blocks, typed, queue, cursor, indexed, next, work, backfills, faults>>
      /\ pc = "poll" /\ pc' \in {"follow", "probe"}
    BY ZenonT(30) DEF Poll, chain, db
<1>2. QueueType' /\ QueueGood'
    BY <1>0, <1>1, QueueStays
<1>3. Fresh'
    BY <1>1, Zenon DEF Fresh
<1>4. Tip' = Tip /\ Confirmed' = Confirmed /\ \A r : OnChain(r)' <=> OnChain(r)
    BY <1>1, Zenon DEF Tip, Confirmed, OnChain, head
<1>5. ASSUME backfills = 1, faults = 0, pc' = "follow" PROVE Once'
    <2>1. Confirmed >= next
        BY <1>5, ZenonT(30) DEF Poll, Confirmed
    <2>2. StartDrive(next, to)
        BY <2>1, ZenonT(30) DEF Poll, Confirmed
    <2>3. Confirmed \in Nat
        BY <1>0, ReorgAssumption DEF Confirmed, Minus
    <2>4. to \in Int /\ to <= Confirmed
        BY <2>3, <1>0, ReorgAssumption DEF fetch_target, Lesser
    <2> HIDE DEF to
    <2>5. todo' = next .. to /\ frontier' = next /\ Flight' = {} /\ Outstanding' = next .. to
        BY <2>2, Zenon DEF StartDrive, Flight, Outstanding, Heights
    <2>6. todo' \subseteq 1 .. Confirmed
        BY <2>3, <2>4, <2>5, <1>0
    <2>7. \A b \in blocks : OnChain(b) \/ b.h < next
        BY <1>0, <1>1, <1>5, Zenon DEF Once
    <2>8. \A b \in blocks : OnChain(b) \/ (b.h < frontier' /\ \A h \in Outstanding' : b.h < h)
        BY <2>4, <2>5, <2>7, <1>0
    <2>9. queue = <<>> \/ \A b \in Tip : OnChain(b)
        BY <1>0, <1>1, <1>5, Zenon DEF Once
    <2> QED BY <1>1, <1>4, <1>5, <2>5, <2>6, <2>8, <2>9, Zenon DEF Once
<1>6. ASSUME backfills = 1, faults = 0, pc' = "probe" PROVE Once'
    BY <1>0, <1>1, <1>4, <1>6, Zenon DEF Once
<1>7. Once'
    BY <1>1, <1>5, <1>6, Zenon DEF Once
<1> QED BY <1>2, <1>3, <1>7, Zenon DEF Lead

LEMMA TipOnChain ==
    ASSUME IInv, \A b \in Tip : OnChain(b)
    PROVE  ~Diverged
<1>1. head \in Nat /\ Confirmed <= head
    BY ReorgAssumption DEF IInv, Typed, ChainType, head, Confirmed, Minus
<1>2. \A b \in Tip : b.h <= head /\ block_hash(b.h) = b.fork
    BY <1>1, ReorgAssumption DEF OnChain, block_hash, IInv, Typed, TableType, Rec, Confirmed, Minus, Tip
<1> QED BY <1>2, Zenon DEF Diverged

\* A rollback finds the queue empty: all that it deletes was decoded.
LEMMA RollbackLeads ==
    ASSUME IInv, Loss, Lead, Rollback
    PROVE  Lead'
<1>0. Typed /\ Fresh /\ Once /\ QueueType /\ QueueGood
    BY Zenon DEF IInv, Lead
<1>1. PICK b \in Tip :
        LET fork == Minus(b.h, Confirmations)
            from == fork + 1
        IN  /\ typed' = Below(typed, from)
            /\ raw' = Below(raw, from)
            /\ blocks' = Below(blocks, from)
            /\ cursor' = IF cursor = NoRow THEN NoRow ELSE fork
            /\ indexed' = indexed \ (from .. MaxHead)
            /\ next' = from
    BY Zenon DEF Rollback
<1>2. PICK from : /\ typed' = Below(typed, from) /\ raw' = Below(raw, from)
                  /\ blocks' = Below(blocks, from) /\ next' = from
    BY <1>1, Zenon
<1>3. /\ UNCHANGED <<canon, forks, queue, work, backfills, faults>>
      /\ pc = "probe" /\ pc' = "poll" /\ Diverged
    BY Zenon DEF Rollback, chain
<1>4. Fresh'
    BY <1>3, Zenon DEF Fresh
<1>5. backfills # 0
    BY CanonicalTip, <1>3, Zenon DEF Loss, OnlyConfirmed, Held
<1>6. backfills = 1 /\ faults = 0 => queue = <<>>
    BY <1>0, <1>3, TipOnChain, Zenon DEF Once
<1>7. Once'
    BY <1>2, <1>3, <1>6, Zenon DEF Once, Below
<1>8. Orderly' => Orderly /\ queue = <<>>
    BY <1>0, <1>3, <1>5, <1>6 DEF Orderly, Uninterrupted, Typed, NumberType
<1>9. QueueType'
    BY <1>0, <1>3, Zenon DEF QueueType
<1>10. QueueGood'
    <2> SUFFICES ASSUME Orderly, queue = <<>>
                 PROVE  /\ Items(queue) \subseteq Heights(raw')
                        /\ Heights(raw') \ Heights(typed') \subseteq Items(queue)
                        /\ work.at = "idle"
        BY <1>3, <1>8, Zenon DEF QueueGood, Heights
    <2>1. Items(queue) = {}
        BY DEF Items
    <2>2. Heights(raw) \subseteq Heights(typed)
        BY <2>1, <1>0, Zenon DEF QueueGood
    <2>3. Heights(Below(raw, from)) = {x \in Heights(raw) : x < from}
        BY HeightsBelow, Zenon
    <2>4. Heights(Below(typed, from)) = {x \in Heights(typed) : x < from}
        BY HeightsBelow, Zenon
    <2>5. work.at = "idle"
        BY <1>0, Zenon DEF QueueType
    <2> QED BY <1>2, <2>1, <2>2, <2>3, <2>4, <2>5, Zenon
<1> QED BY <1>4, <1>7, <1>9, <1>10, Zenon DEF Lead

LEMMA FetchLogsLeads ==
    ASSUME IInv, Loss, Lead, NEW h \in todo, FetchLogs(h)
    PROVE  Lead'
<1>0. Typed /\ Fresh /\ Once /\ backfills \in Nat /\ faults \in Nat
    BY Zenon DEF IInv, Lead, Typed, NumberType
<1>1. /\ UNCHANGED <<canon, forks, raw, blocks, typed, queue, cursor, indexed, pc, next, writing,
                     frontier, waiting, work, backfills, faults>>
      /\ todo' = todo \ {h}
    BY Zenon DEF FetchLogs, chain, db
<1> DEFINE r == [h |-> h, fork |-> canon[h].fork]
           f == [h |-> h, row |-> {}, meta |-> {}]
<1>2. \/ canon[h].log /\ logged' = logged \cup {r} /\ fetched' = fetched
      \/ logged' = logged /\ fetched' = fetched \cup {f}
    BY Zenon DEF FetchLogs
<1>3. r.h = h /\ r.fork = canon[h].fork /\ f.h = h /\ f.row = {} /\ f.meta = {}
    BY Zenon
<1> HIDE DEF r, f
<1>4. Outstanding' = Outstanding
    BY <1>1, <1>2, <1>3, Zenon DEF Outstanding, Heights
<1>5. Flight' \subseteq Flight \/ (canon[h].log /\ Flight' \subseteq Flight \cup {r})
    BY <1>2, <1>3, Zenon DEF Flight
<1>6. Tip' = Tip /\ Confirmed' = Confirmed /\ \A q : OnChain(q)' <=> OnChain(q)
    BY <1>1, Zenon DEF Tip, Confirmed, OnChain, head
<1>7. ASSUME backfills = 1, faults = 0, pc = "follow"
      PROVE  todo' \subseteq 1 .. Confirmed /\ \A q \in Flight' : OnChain(q)
    <2>1. todo \subseteq 1 .. Confirmed /\ \A q \in Flight : OnChain(q)
        BY <1>0, <1>7, Zenon DEF Once
    <2>2. canon[h].log => OnChain(r)
        BY <2>1, <1>3, Zenon DEF OnChain
    <2> QED BY <2>1, <2>2, <1>1, <1>5, Zenon
<1>8. Once'
    BY <1>0, <1>1, <1>4, <1>6, <1>7, Zenon DEF Once
<1>9. Fresh'
    BY <1>0, <1>1, Zenon DEF Fresh
<1>10. QueueType' /\ QueueGood'
    BY <1>0, <1>1, QueueStays
<1> QED BY <1>8, <1>9, <1>10, Zenon DEF Lead

LEMMA FetchAuxLeads ==
    ASSUME IInv, Loss, Lead, NEW r \in logged, FetchAux(r)
    PROVE  Lead'
<1>0. Typed /\ Fresh /\ Once /\ backfills \in Nat /\ faults \in Nat
    BY Zenon DEF IInv, Lead, Typed, NumberType
<1> DEFINE m == [h |-> r.h, fork |-> canon[r.h].fork]
           f == [h |-> r.h, row |-> {r}, meta |-> {m}]
<1>1. /\ UNCHANGED <<canon, forks, raw, blocks, typed, queue, cursor, indexed, pc, next, todo, writing,
                     frontier, waiting, work, backfills, faults>>
      /\ logged' = logged \ {r} /\ fetched' = fetched \cup {f}
    BY Zenon DEF FetchAux, chain, db
<1>2. m.h = r.h /\ m.fork = canon[r.h].fork
    BY Zenon
<1> HIDE DEF m
<1>3. f.h = r.h /\ f.row = {r} /\ f.meta = {m}
    BY Zenon
<1> HIDE DEF f
<1>4. Outstanding' = Outstanding
    BY <1>1, <1>3, Zenon DEF Outstanding, Heights
<1>5. r \in Flight /\ Flight' \subseteq Flight \cup {m}
    BY <1>1, <1>3 DEF Flight
<1>6. Tip' = Tip /\ Confirmed' = Confirmed /\ \A q : OnChain(q)' <=> OnChain(q)
    BY <1>1, Zenon DEF Tip, Confirmed, OnChain, head
<1>7. ASSUME backfills = 1, faults = 0, pc = "follow"
      PROVE  \A q \in Flight' : OnChain(q)
    <2>1. \A q \in Flight : OnChain(q)
        BY <1>0, <1>7, Zenon DEF Once
    <2>2. OnChain(m)
        BY <2>1, <1>2, <1>5, Zenon DEF OnChain
    <2> QED BY <2>1, <2>2, <1>5, Zenon
<1>8. Once'
    BY <1>0, <1>1, <1>4, <1>6, <1>7, Zenon DEF Once
<1>9. Fresh'
    BY <1>0, <1>1, Zenon DEF Fresh
<1>10. QueueType' /\ QueueGood'
    BY <1>0, <1>1, QueueStays
<1> QED BY <1>8, <1>9, <1>10, Zenon DEF Lead

\* A committed range with records leaves its block on top of what may be
\* orphaned, and its item in the queue.
LEMMA CommitLeads ==
    ASSUME IInv, Loss, Lead, NEW f \in fetched, Commit(f)
    PROVE  Lead'
<1>0. Typed /\ Fresh /\ Once /\ QueueType /\ QueueGood /\ backfills \in Nat /\ faults \in Nat
    BY Zenon DEF IInv, Lead, Typed, NumberType
<1>1. /\ UNCHANGED <<canon, forks, typed, cursor, pc, next, todo, logged, frontier, waiting, work,
                     backfills, faults>>
      /\ writing = {} /\ writing' = {f.h} /\ fetched' = fetched \ {f}
      /\ raw' = raw \cup {r \in f.row : r.h \notin Heights(raw)}
      /\ blocks' = {b \in blocks : b.h \notin Heights(f.meta)} \cup f.meta
      /\ queue' = (IF f.row = {} THEN queue ELSE Push(f.h))
      /\ indexed' = indexed \cup {f.h}
    BY Zenon DEF Commit, chain
<1>2. /\ f.h \in 1..MaxHead /\ f.row \subseteq Rec /\ f.meta \subseteq Rec /\ MaxHead \in Nat
      /\ Heights(f.row) = Heights(f.meta) /\ Heights(f.row) \subseteq {f.h}
    BY <1>0, ReorgAssumption, Zenon DEF Typed, TableType, Fetch, IInv, Paired
<1>3. f.row = {} => f.meta = {} /\ Heights(f.row) = {}
    BY <1>2, Zenon DEF Heights
<1>4. f.row # {} => Heights(f.row) = {f.h}
    BY <1>2 DEF Heights
<1>5. /\ f.row = {} => queue' = queue
      /\ f.row # {} => queue' = Push(f.h)
    BY <1>1, Zenon
<1>6. /\ queue' \in Seq(1..MaxHead) /\ (queue # <<>> => queue' # <<>> /\ Head(queue') = Head(queue))
      /\ Items(queue') = Items(queue) \cup Heights(f.row)
    <2>1. CASE f.row = {}
        BY <2>1, <1>0, <1>3, <1>5, Zenon DEF QueueType
    <2>2. CASE f.row # {} /\ f.h \in Items(queue)
        BY <2>2, <1>0, <1>4, <1>5, Zenon DEF QueueType, Push, Items
    <2>3. CASE f.row # {} /\ f.h \notin Items(queue)
        <3>1. queue' = Append(queue, f.h)
            BY <2>3, <1>5, Zenon DEF Push, Items
        <3> QED BY <3>1, <2>3, <1>0, <1>2, <1>4, Appended, Zenon DEF QueueType
    <2> QED BY <2>1, <2>2, <2>3, Zenon
<1>7. Heights(raw') = Heights(raw) \cup Heights(f.row)
    BY <1>1, Zenon DEF Heights
<1>8. QueueType'
    BY <1>0, <1>1, <1>6, Zenon DEF QueueType
<1>9. QueueGood'
    <2> SUFFICES ASSUME Orderly
                 PROVE  /\ Items(queue') \subseteq Heights(raw')
                        /\ Heights(raw') \ Heights(typed) \subseteq Items(queue')
                        /\ work.at = "write" => Head(queue') \in Heights(work.rows)
                        /\ work.at = "ack" => Head(queue') \in Heights(typed)
        BY <1>1, Zenon DEF QueueGood, Orderly, Uninterrupted, Heights
    <2>1. work.at \in {"write", "ack"} => Head(queue') = Head(queue)
        BY <1>0, <1>6, Zenon DEF QueueType
    <2> QED BY <2>1, <1>0, <1>6, <1>7, Zenon DEF QueueGood
<1>10. Fresh'
    <2>1. Driving
        BY Zenon DEF Loss, AtRest
    <2> QED BY <2>1, <1>0, <1>1, Zenon DEF Fresh, Driving
<1>11. Confirmed' = Confirmed /\ \A q : OnChain(q)' <=> OnChain(q)
    BY <1>1, Zenon DEF Confirmed, OnChain, head
<1>12. Outstanding' \subseteq Outstanding /\ f.h \in Outstanding /\ Flight' \subseteq Flight /\ f.meta \subseteq Flight
    BY <1>1, Zenon DEF Outstanding, Heights, Flight
<1>13. ASSUME backfills = 1, faults = 0, pc = "follow" PROVE Once'
    <2>1. /\ todo \subseteq 1 .. Confirmed /\ \A r \in Flight : OnChain(r)
          /\ \A b \in blocks : OnChain(b) \/ (b.h < frontier /\ \A h \in Outstanding : b.h < h)
          /\ queue = <<>> \/ \A b \in Tip : OnChain(b)
        BY <1>0, <1>13, Zenon DEF Once
    <2>2. \A b \in blocks' : OnChain(b) \/ (b \in blocks /\ b.h < frontier /\ \A h \in Outstanding : b.h < h)
        BY <2>1, <1>1, <1>12, Zenon
    <2>3. CASE f.row = {}
        <3>1. blocks' = blocks
            BY <2>3, <1>1, <1>3, ZenonT(30) DEF Heights
        <3>2. Tip' = Tip
            BY <3>1, Zenon DEF Tip
        <3> QED BY <2>1, <2>2, <2>3, <3>2, <1>1, <1>5, <1>11, <1>12, <1>13, Zenon DEF Once
    <2>4. CASE f.row # {}
        <3>1. PICK m \in f.meta : m.h = f.h
            BY <2>4, <1>2, <1>4, Zenon DEF Heights
        <3>2. \A b \in Tip' : m.h <= b.h
            BY <3>1, <1>1, ZenonT(30) DEF Tip
        <3>3. \A b \in blocks : b.h \in Nat
            BY <1>0 DEF Typed, TableType, Rec
        <3>4. \A b \in Tip' : OnChain(b)
            <4> SUFFICES ASSUME NEW b \in Tip', ~OnChain(b) PROVE FALSE
                BY Zenon
            <4>1. b \in blocks /\ b.h < f.h /\ f.h <= b.h
                BY <2>2, <3>1, <3>2, <1>12, Zenon DEF Tip
            <4> QED BY <4>1, <3>3, <1>2
        <3> QED BY <2>1, <2>2, <3>4, <1>1, <1>11, <1>12, <1>13, ZenonT(30) DEF Once
    <2> QED BY <2>3, <2>4, Zenon
<1>14. ASSUME backfills = 1, faults = 0, pc = "backfill" PROVE Once'
    BY <1>0, <1>1, <1>14, ZenonT(30) DEF Once
<1>15. Once'
    <2>1. pc \in {"follow", "backfill"}
        BY Zenon DEF Loss, AtRest, Driving
    <2> QED BY <2>1, <1>1, <1>13, <1>14, ZenonT(30) DEF Once
<1> QED BY <1>8, <1>9, <1>10, <1>15, Zenon DEF Lead

\* The prefix stops at a block that is not recorded.
LEMMA PrefixStops ==
    ASSUME NEW done, NEW from, NEW g \in PrefixEnds({Span(h, h) : h \in done}, from)
    PROVE  g \notin done
<1>1. \A h \in done : Span(h, h).lo # g
    BY Zenon DEF PrefixEnds
<1>2. \A h \in done : Span(h, h).lo = h
    BY Zenon DEF Span
<1> QED BY <1>1, <1>2, Zenon

LEMMA RecordLeads ==
    ASSUME IInv, Loss, Lead, Record
    PROVE  Lead'
<1>0. Typed /\ Fresh /\ Once /\ backfills \in Nat /\ faults \in Nat
    BY Zenon DEF IInv, Lead, Typed, NumberType
<1> DEFINE done == waiting \cup writing
<1>1. PICK g \in PrefixEnds({Span(h, h) : h \in done}, frontier) :
          /\ frontier' = g
          /\ waiting' = {h \in done : h >= g}
          /\ cursor' = IF g # frontier THEN g - 1 ELSE cursor
    BY Zenon DEF Record
<1>2. /\ UNCHANGED <<canon, forks, raw, blocks, typed, queue, indexed, pc, next, todo, logged, fetched,
                     work, backfills, faults>>
      /\ writing # {} /\ writing' = {}
    BY Zenon DEF Record, chain
<1>3. done \in SUBSET Nat /\ done \subseteq 1..MaxHead /\ frontier \in Nat \ {0}
    BY <1>0 DEF Typed, NumberType
<1>4. g \in Nat \ {0} /\ frontier <= g /\ g \notin done
    <2> HIDE DEF done
    <2> QED BY <1>1, <1>3, PrefixOfBlocks, PrefixStops, ZenonT(30)
<1>5. pc \in {"follow", "backfill"}
    BY <1>2, Zenon DEF Loss, AtRest, Driving
<1>6. Fresh'
    BY <1>0, <1>2, <1>5, Zenon DEF Fresh
<1>7. QueueType' /\ QueueGood'
    BY <1>0, <1>2, QueueStays
<1>8. /\ Tip' = Tip /\ Flight' = Flight /\ Outstanding' = Outstanding /\ Confirmed' = Confirmed
      /\ \A q : OnChain(q)' <=> OnChain(q)
    BY <1>2, Zenon DEF Tip, Flight, Outstanding, Heights, Confirmed, OnChain, head
<1>9. ASSUME backfills = 1, faults = 0, pc = "follow" PROVE Once'
    <2>1. \A b \in blocks : b.h \in Nat
        BY <1>0 DEF Typed, TableType, Rec
    <2>2. \A b \in blocks : b.h < frontier => b.h < frontier'
        BY <2>1, <1>1, <1>3, <1>4
    <2> QED BY <2>2, <1>0, <1>2, <1>8, <1>9, Zenon DEF Once
<1>10. ASSUME backfills = 1, faults = 0, pc = "backfill" PROVE Once'
    <2>1. /\ indexed \subseteq (1 .. (frontier - 1)) \cup done
          /\ cursor = IF frontier = 1 THEN NoRow ELSE frontier - 1
        BY <1>0, <1>10, Zenon DEF Once
    <2>2. indexed \subseteq (1 .. (g - 1)) \cup waiting'
        BY <2>1, <1>1, <1>3, <1>4
    <2>3. cursor' = IF g = 1 THEN NoRow ELSE g - 1
        BY <2>1, <1>1, <1>3, <1>4
    <2>4. g \notin waiting'
        BY <1>1, <1>4, Zenon
    <2> QED BY <2>2, <2>3, <2>4, <1>1, <1>2, <1>10, Zenon DEF Once
<1>11. Once'
    BY <1>2, <1>5, <1>9, <1>10, Zenon DEF Once
<1> QED BY <1>6, <1>7, <1>11, Zenon DEF Lead

LEMMA CrashLeads ==
    ASSUME IInv, Loss, Lead, Crash
    PROVE  Lead'
<1>1. UNCHANGED <<raw, typed, queue, work, backfills>>
    BY Zenon DEF Crash, db
<1>2. backfills \in Nat /\ faults \in Nat /\ faults' = faults + 1
    BY Zenon DEF IInv, Typed, NumberType, Crash, Fault
<1>3. faults' \in Nat /\ faults' # 0 /\ faults <= faults' /\ backfills' \in Nat /\ backfills <= backfills'
    BY <1>1, <1>2
<1>4. Fresh' /\ Once'
    <2>1. pc' = "down"
        BY Zenon DEF Crash
    <2> QED BY <2>1, <1>3, Zenon DEF Fresh, Once
<1>5. QueueType' /\ QueueGood'
    BY <1>1, <1>3, QueueStays, Zenon
<1> QED BY <1>4, <1>5, Zenon DEF Lead

\* The worker takes an item off the queue when its range is decoded.
LEMMA WorkerLeads ==
    ASSUME IInv, Loss, Lead, Worker \/ WorkerErr
    PROVE  Lead'
<1>0. /\ Fresh /\ Once /\ QueueType /\ QueueGood /\ backfills \in Nat /\ faults \in Nat
    BY Zenon DEF IInv, Lead, Typed, NumberType
<1>1. UNCHANGED <<canon, forks, raw, blocks, cursor, indexed, pc, next, todo, logged, fetched, writing,
                  frontier, waiting, backfills>>
    BY Zenon DEF Worker, Pull, ReadRaw, WriteTyped, Ack, WorkerErr, chain, db, drive
<1>2. faults' \in Nat /\ faults <= faults' /\ (WorkerErr => faults' # 0)
    BY <1>0 DEF Worker, Pull, ReadRaw, WriteTyped, Ack, WorkerErr, Fault
<1>3. Orderly' => Orderly
    BY <1>0, <1>1, <1>2 DEF Orderly, Uninterrupted
<1>4. faults' = 0 => faults = 0
    BY <1>0, <1>2
<1>5. Fresh'
    BY <1>0, <1>1, <1>4, Zenon DEF Fresh
<1>6. queue # <<>> \/ queue' = queue
    BY <1>0, Zenon DEF QueueType, Worker, Pull, ReadRaw, WriteTyped, Ack, WorkerErr, db
<1>7. /\ Tip' = Tip /\ Flight' = Flight /\ Outstanding' = Outstanding /\ Confirmed' = Confirmed
      /\ \A q : OnChain(q)' <=> OnChain(q)
    BY <1>1, ZenonT(30) DEF Tip, Flight, Outstanding, Heights, Confirmed, OnChain, head
<1>8. Once'
    BY <1>0, <1>1, <1>4, <1>6, <1>7, Zenon DEF Once
<1>9. CASE Pull
    <2>1. work'.at = "read" /\ queue' = queue /\ queue # <<>> /\ typed' = typed
        BY <1>9, Zenon DEF Pull, db
    <2>2. QueueType'
        BY <2>1, <1>0, Zenon DEF QueueType
    <2>3. QueueGood'
        BY <2>1, <1>0, <1>1, <1>3, ZenonT(30) DEF QueueGood, Heights
    <2> QED BY <2>2, <2>3, <1>5, <1>8, Zenon DEF Lead
<1>10. CASE ReadRaw
    <2>1. /\ work.at = "read" /\ work'.at = "write" /\ work'.rows = {r \in raw : r.h = Head(queue)}
          /\ queue' = queue /\ typed' = typed
        BY <1>10, Zenon DEF ReadRaw, db
    <2>2. queue # <<>> /\ queue \in Seq(1..MaxHead)
        BY <2>1, <1>0, Zenon DEF QueueType
    <2>3. Head(queue) \in Items(queue)
        <3>1. Head(queue) = queue[1] /\ 1 \in DOMAIN queue
            BY <2>2
        <3> QED BY <3>1, Zenon DEF Items
    <2>4. Orderly => Head(queue) \in Heights(work'.rows)
        BY <2>1, <2>3, <1>0, Zenon DEF QueueGood, Heights
    <2>5. QueueType'
        BY <2>1, <2>2, Zenon DEF QueueType
    <2>6. QueueGood'
        BY <2>1, <2>4, <1>0, <1>1, <1>3, Zenon DEF QueueGood, Heights
    <2> QED BY <2>5, <2>6, <1>5, <1>8, Zenon DEF Lead
<1>11. CASE WriteTyped
    <2>1. /\ work.at = "write" /\ work'.at = "ack" /\ queue' = queue
          /\ typed' = typed \cup {r \in work.rows : r.h \notin Heights(typed)}
        BY <1>11, Zenon DEF WriteTyped
    <2>2. Heights(typed') = Heights(typed) \cup Heights(work.rows)
        BY <2>1, Zenon DEF Heights
    <2>3. QueueType'
        BY <2>1, <1>0, Zenon DEF QueueType
    <2>4. QueueGood'
        <3> SUFFICES ASSUME Orderly
                     PROVE  /\ Items(queue) \subseteq Heights(raw)
                            /\ Heights(raw) \ Heights(typed') \subseteq Items(queue)
                            /\ Head(queue) \in Heights(typed')
            BY <2>1, <1>1, <1>3, Zenon DEF QueueGood, Heights
        <3> QED BY <2>1, <2>2, <1>0, Zenon DEF QueueGood
    <2> QED BY <2>3, <2>4, <1>5, <1>8, Zenon DEF Lead
<1>12. CASE Ack
    <2>1. work.at = "ack" /\ work'.at = "idle" /\ queue' = Tail(queue) /\ typed' = typed
        BY <1>12, Zenon DEF Ack, Idle
    <2>2. queue # <<>> /\ queue \in Seq(1..MaxHead)
        BY <2>1, <1>0, Zenon DEF QueueType
    <2>3. /\ queue' \in Seq(1..MaxHead) /\ Items(queue') \subseteq Items(queue)
          /\ Items(queue) \subseteq Items(queue') \cup {Head(queue)}
        BY <2>1, <2>2, Popped, Zenon
    <2>4. QueueType'
        BY <2>1, <2>3, Zenon DEF QueueType
    <2>5. QueueGood'
        <3> SUFFICES ASSUME Orderly
                     PROVE  /\ Items(queue') \subseteq Heights(raw)
                            /\ Heights(raw) \ Heights(typed) \subseteq Items(queue')
            BY <2>1, <1>1, <1>3, Zenon DEF QueueGood, Heights
        <3> QED BY <2>1, <2>3, <1>0, Zenon DEF QueueGood
    <2> QED BY <2>4, <2>5, <1>5, <1>8, Zenon DEF Lead
<1>13. CASE WorkerErr
    <2>1. work'.at = "idle" /\ queue' = queue /\ typed' = typed
        BY <1>13, Zenon DEF WorkerErr, Idle, db
    <2>2. QueueType'
        BY <2>1, <1>0, Zenon DEF QueueType
    <2>3. QueueGood'
        BY <2>1, <1>0, <1>1, <1>3, ZenonT(30) DEF QueueGood, Heights
    <2> QED BY <2>2, <2>3, <1>5, <1>8, Zenon DEF Lead
<1> QED BY <1>9, <1>10, <1>11, <1>12, <1>13, Zenon DEF Worker

LEMMA InitLead == Init => Lead
<1> SUFFICES ASSUME Init PROVE Lead
    BY Zenon
<1>1. queue = <<>> /\ <<>> \in Seq(1..MaxHead) /\ Items(<<>>) = {}
    BY DEF Init, Items
<1>2. Fresh /\ Once
    BY Zenon DEF Init, Fresh, Once
<1>3. QueueType /\ QueueGood
    BY <1>1, Zenon DEF Init, QueueType, QueueGood, Idle, Heights
<1> QED BY <1>2, <1>3, Zenon DEF Lead

LEMMA LeadInductive ==
    ASSUME IInv, Loss, Lead, MaxDepth <= Confirmations, [Next]_vars
    PROVE  Lead'
<1>1. CASE UNCHANGED vars
    <2>1. UNCHANGED <<canon, forks, raw, blocks, typed, queue, cursor, indexed, pc, next, todo, logged,
                      fetched, writing, frontier, waiting, work, backfills, faults>>
        BY <1>1, Zenon DEF vars, chain, db, drive
    <2>2. /\ Tip' = Tip /\ Flight' = Flight /\ Outstanding' = Outstanding /\ Confirmed' = Confirmed
          /\ \A q : OnChain(q)' <=> OnChain(q)
        BY <2>1, Zenon DEF Tip, Flight, Outstanding, Heights, Confirmed, OnChain, head
    <2>3. Once'
        BY <2>1, <2>2, Zenon DEF Lead, Once
    <2>4. Fresh' /\ QueueType' /\ QueueGood'
        BY <2>1, Zenon DEF Lead, Fresh, QueueType, QueueGood, Orderly, Uninterrupted, Heights
    <2> QED BY <2>3, <2>4, Zenon DEF Lead
<1>2. CASE Mine \/ Fork
    BY <1>2, ChainLeads, Zenon
<1>3. CASE Moves
    BY <1>3, MovesLead, Zenon
<1>4. CASE Backfill
    BY <1>4, BackfillLeads, Zenon
<1>5. CASE Poll
    BY <1>5, PollLeads, Zenon
<1>6. CASE Rollback
    BY <1>6, RollbackLeads, Zenon
<1>7. CASE \E h \in todo : FetchLogs(h)
    BY <1>7, FetchLogsLeads, Zenon
<1>8. CASE \E r \in logged : FetchAux(r)
    BY <1>8, FetchAuxLeads, Zenon
<1>9. CASE \E f \in fetched : Commit(f)
    BY <1>9, CommitLeads, Zenon
<1>10. CASE Record
    BY <1>10, RecordLeads, Zenon
<1>11. CASE Crash
    BY <1>11, CrashLeads, Zenon
<1>12. CASE Worker \/ WorkerErr
    BY <1>12, WorkerLeads, Zenon
<1> QED BY <1>1, <1>2, <1>3, <1>4, <1>5, <1>6, <1>7, <1>8, <1>9, <1>10, <1>11, <1>12, Zenon
        DEF Next, IngestLoop, Pipeline, Moves

\* ARCHITECTURE.md:205, "enqueue shares the same transaction as the raw insert":
\* with reorgs no deeper than `confirmations`, a raw row that is not decoded has
\* its item in the queue.  It holds through any crashes and worker errors when no
\* backfill was started, and after one backfill when nothing has failed.
THEOREM EveryRangeQueued ==
    ASSUME MaxDepth <= Confirmations
    PROVE  Spec => []UndecodedIsQueued
<1>1. IInv /\ Loss /\ Lead /\ [Next]_vars => (IInv /\ Loss /\ Lead)'
    BY Inductive, LeadInductive, Zenon
<1>2. Lead => UndecodedIsQueued
    BY Zenon DEF Lead, QueueGood, Orderly, Items, UndecodedIsQueued
<1> QED BY InitInv, InitLead, <1>1, <1>2, PTL DEF Spec

=============================================================================
