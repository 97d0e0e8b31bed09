---------------------------- MODULE PipelineProofs ----------------------------
(***************************************************************************)
(* For any start block, provider plan, concurrency and set of matching     *)
(* blocks: the pipeline's type invariant, GapFree, ResumesAtCursor,        *)
(* NoRangeLost, CursorHash, the action property CursorForward, and that    *)
(* Pipeline implements Checkpoint; and that the loops of plan.rs compute   *)
(* the closed forms that Pipeline uses.                                    *)
(***************************************************************************)
EXTENDS Pipeline, WellFoundedInduction, TLAPS

\* What the prefix tracker knows during a drive: everything up to its frontier
\* and every range it holds back has been committed.  A drive of the live loop
\* started right after the cursor, and the two move together.
PrefixInv ==
    Driving =>
        /\ StartBlock .. (frontier - 1) \subseteq stored
        /\ Covered(waiting \cup writing) \subseteq stored
        /\ proc = "follow" => frontier = cursor + 1
        /\ frontier \in Nat \ {0}

IInv == TypeOK /\ PrefixInv /\ ResumesAtCursor /\ GapFree

-----------------------------------------------------------------------------
(* The operators of RangePlan.                                             *)

\* A non-empty set of naturals has a least element.
LEMMA LeastNatural ==
    ASSUME NEW T, T \subseteq Nat, T # {}
    PROVE  \E x \in T : \A y \in T : x <= y
<1> DEFINE R == OpToRel(<, Nat)
<1>1. IsWellFoundedOn(R, Nat)
    BY NatLessThanWellFounded, Zenon
<1>2. \A x, y \in Nat : x < y => <<x, y>> \in R
    BY Zenon DEF OpToRel
<1> HIDE DEF R
<1>3. \E x \in T : \A y \in T : <<y, x>> \notin R
    BY <1>1, WFMin, Zenon
<1>4. \E x \in T : \A y \in T : ~(y < x)
    BY <1>2, <1>3, Zenon
<1> QED BY <1>4

\* A non-empty set of blocks of one range has a highest block.
LEMMA HighestBlock ==
    ASSUME NEW lo \in Nat, NEW hi \in Nat, NEW T, T \subseteq lo .. hi, T # {}
    PROVE  \E x \in T : \A y \in T : y <= x
<1> DEFINE D == {hi - b : b \in T}
<1>a. \A b \in T : hi - b \in Nat
    OBVIOUS
<1>b. D # {}
    BY Zenon
<1>1. D \subseteq Nat /\ D # {}
    BY <1>a, <1>b, Zenon
<1>2. PICK d \in D : \A e \in D : d <= e
    BY <1>1, LeastNatural, ZenonT(30)
<1>3. \E x \in T : d = hi - x
    BY Zenon
<1> HIDE DEF D
<1>4. PICK x \in T : d = hi - x
    BY <1>3, Zenon
<1>5. ASSUME NEW y \in T
      PROVE  y <= x
    <2>1. hi - y \in D
        BY Zenon DEF D
    <2> QED BY <1>2, <1>4, <2>1
<1> QED BY <1>4, <1>5, Zenon

\* last_block is 0 or a matching block of the range.
LEMMA LastBlockType ==
    ASSUME NEW r \in RangeType
    PROVE  /\ last_block(Matched, r) \in Nat
           /\ last_block(Matched, r) # 0 =>
                 last_block(Matched, r) \in Matched \cap BlocksOf(r)
<1> DEFINE hits == {b \in Matched : b \in BlocksOf(r)}
<1>1. CASE hits = {}
    BY <1>1, Zenon DEF last_block
<1>2. CASE hits # {}
    <2>1. r.lo \in Nat /\ r.hi \in Nat /\ hits \subseteq r.lo .. r.hi
        BY Zenon DEF RangeType, BlocksOf
    <2>2. \E h \in hits : \A b \in hits : b <= h
        BY <1>2, <2>1, HighestBlock, ZenonT(30)
    <2>3. last_block(Matched, r) \in hits
        BY <1>2, <2>2, Zenon DEF last_block
    <2> QED BY <2>1, <2>3
<1> QED BY <1>1, <1>2, Zenon

\* Planned ranges are ranges of natural numbers.
LEMMA PlanType ==
    ASSUME NEW from \in Nat, NEW to \in Nat
    PROVE  plan_ranges(from, to, Step) \subseteq RangeType
BY PlanAssumption DEF plan_ranges, Span, Lesser, RangeType

\* The end of one bounded window is a block number.
LEMMA TargetType ==
    ASSUME NEW s \in Nat, NEW n \in Nat \ {0}
    PROVE  fetch_target(s, n, Step, RangeConcurrency, TRUE) \in Nat
<1>1. Step * RangeConcurrency \in Nat
    BY PlanAssumption
<1> QED BY <1>1 DEF fetch_target, Lesser

-----------------------------------------------------------------------------
(* Every action preserves the inductive invariant.                         *)

\* The empty database satisfies the inductive invariant.
LEMMA InitInv == Init => IInv
<1> SUFFICES ASSUME Init
             PROVE  IInv
    BY Zenon
<1>1. FlagsOK
    BY Zenon DEF Init, FlagsOK
<1>2. DataOK
    BY StartAssumption, PlanAssumption, BoundsAssumption DEF Init, DataOK
<1> QED
    BY <1>1, <1>2, StartAssumption
    DEF Init, IInv, TypeOK, PrefixInv, ResumesAtCursor, GapFree, Driving

\* ChainGrows preserves the inductive invariant.
LEMMA ChainGrowsPreserves ==
    ASSUME IInv, ChainGrows
    PROVE  IInv'
<1> USE StartAssumption, PlanAssumption, BackfillAssumption, BoundsAssumption
    DEF IInv, Driving, db, env, producer, prefix
<1>1. FlagsOK'
    BY Zenon DEF ChainGrows, TypeOK, FlagsOK
<1>2. DataOK'
    BY DEF ChainGrows, TypeOK, DataOK, PrefixInv, ResumesAtCursor
<1>3. PrefixInv'
    BY Zenon DEF ChainGrows, TypeOK, DataOK, PrefixInv, ResumesAtCursor, GapFree, Covered
<1>4. ResumesAtCursor'
    BY Zenon DEF ChainGrows, TypeOK, DataOK, PrefixInv, ResumesAtCursor
<1>5. GapFree'
    BY Zenon DEF ChainGrows, TypeOK, DataOK, GapFree
<1> QED BY <1>1, <1>2, <1>3, <1>4, <1>5, Zenon DEF TypeOK

\* StopRequested preserves the inductive invariant.
LEMMA StopRequestedPreserves ==
    ASSUME IInv, StopRequested
    PROVE  IInv'
<1> USE StartAssumption, PlanAssumption, BackfillAssumption, BoundsAssumption
    DEF IInv, Driving, db, env, producer, prefix
<1>1. FlagsOK'
    BY Zenon DEF StopRequested, Fault, TypeOK, FlagsOK
<1>2. DataOK'
    BY DEF StopRequested, Fault, TypeOK, DataOK, PrefixInv, ResumesAtCursor
<1>3. PrefixInv'
    BY Zenon DEF StopRequested, Fault, TypeOK, DataOK, PrefixInv, ResumesAtCursor, GapFree, Covered
<1>4. ResumesAtCursor'
    BY Zenon DEF StopRequested, Fault, TypeOK, DataOK, PrefixInv, ResumesAtCursor
<1>5. GapFree'
    BY Zenon DEF StopRequested, Fault, TypeOK, DataOK, GapFree
<1> QED BY <1>1, <1>2, <1>3, <1>4, <1>5, Zenon DEF TypeOK

\* Boot preserves the inductive invariant.
LEMMA BootPreserves ==
    ASSUME IInv, Boot
    PROVE  IInv'
<1> USE StartAssumption, PlanAssumption, BackfillAssumption, BoundsAssumption
    DEF IInv, Driving, db, env, producer, prefix
<1>1. FlagsOK'
    BY Zenon DEF Boot, TypeOK, FlagsOK
<1>2. DataOK'
    BY DEF Boot, TypeOK, DataOK, PrefixInv, ResumesAtCursor
<1>3. PrefixInv'
    BY Zenon DEF Boot, TypeOK, DataOK, PrefixInv, ResumesAtCursor, GapFree, Covered
<1>4. ResumesAtCursor'
    BY Zenon DEF Boot, TypeOK, DataOK, PrefixInv, ResumesAtCursor
<1>5. GapFree'
    BY Zenon DEF Boot, TypeOK, DataOK, GapFree
<1> QED BY <1>1, <1>2, <1>3, <1>4, <1>5, Zenon DEF TypeOK

\* CatchUp preserves the inductive invariant.
LEMMA CatchUpPreserves ==
    ASSUME IInv, CatchUp
    PROVE  IInv'
<1> USE StartAssumption, PlanAssumption, BackfillAssumption, BoundsAssumption
    DEF IInv, Driving, db, env, producer, prefix
<1>1. FlagsOK'
    BY Zenon DEF CatchUp, StartDrive, TypeOK, FlagsOK
<1>2. DataOK'
    <2> DEFINE to == fetch_target(safe, next, Step, RangeConcurrency, TRUE)
    <2>1. next \in Nat \ {0} /\ safe \in Nat
        BY DEF CatchUp, TypeOK, DataOK, ResumesAtCursor
    <2>2. to \in Nat
        BY <2>1, TargetType, ZenonT(30)
    <2>3. plan_ranges(next, to, Step) \subseteq RangeType
        BY <2>1, <2>2, PlanType, ZenonT(30)
    <2>4. target' \in Nat /\ todo' \subseteq RangeType
        BY <2>2, <2>3, ZenonT(30) DEF CatchUp, StartDrive
    <2>5. /\ proc' = "follow" /\ frontier' = next /\ best' = 0
          /\ held' = {} /\ chan' = <<>> /\ writing' = {} /\ waiting' = {}
          /\ UNCHANGED <<cursor, cursor_hash, stored, safe, faults, next>>
        BY Zenon DEF CatchUp, StartDrive
    <2> QED BY <2>1, <2>4, <2>5 DEF TypeOK, DataOK
<1>3. PrefixInv'
    BY DEF CatchUp, StartDrive, TypeOK, DataOK, PrefixInv, ResumesAtCursor, GapFree, Covered
<1>4. ResumesAtCursor'
    BY Zenon DEF CatchUp, StartDrive, TypeOK, DataOK, PrefixInv, ResumesAtCursor
<1>5. GapFree'
    BY Zenon DEF CatchUp, StartDrive, TypeOK, DataOK, GapFree
<1> QED BY <1>1, <1>2, <1>3, <1>4, <1>5, Zenon DEF TypeOK

\* LoopStops preserves the inductive invariant.
LEMMA LoopStopsPreserves ==
    ASSUME IInv, LoopStops
    PROVE  IInv'
<1> USE StartAssumption, PlanAssumption, BackfillAssumption, BoundsAssumption
    DEF IInv, Driving, db, env, producer, prefix
<1>1. FlagsOK'
    BY Zenon DEF LoopStops, TypeOK, FlagsOK
<1>2. DataOK'
    BY Zenon DEF LoopStops, TypeOK, DataOK, PrefixInv, ResumesAtCursor
<1>3. PrefixInv'
    BY Zenon DEF LoopStops, TypeOK, DataOK, PrefixInv, ResumesAtCursor, GapFree, Covered
<1>4. ResumesAtCursor'
    BY Zenon DEF LoopStops, TypeOK, DataOK, PrefixInv, ResumesAtCursor
<1>5. GapFree'
    BY Zenon DEF LoopStops, TypeOK, DataOK, GapFree
<1> QED BY <1>1, <1>2, <1>3, <1>4, <1>5, Zenon DEF TypeOK

\* Backfill preserves the inductive invariant.
LEMMA BackfillPreserves ==
    ASSUME IInv, NEW from \in BackfillFrom, NEW to \in 1..safe, Backfill(from, to)
    PROVE  IInv'
<1> USE StartAssumption, PlanAssumption, BackfillAssumption, BoundsAssumption
    DEF IInv, Driving, db, env, producer, prefix
<1>1. FlagsOK'
    BY Zenon DEF Backfill, StartDrive, Fault, TypeOK, FlagsOK
<1>2. DataOK'
    BY PlanType, TargetType DEF Backfill, StartDrive, Fault, TypeOK, DataOK, PrefixInv, ResumesAtCursor
<1>3. PrefixInv'
    BY DEF Backfill, StartDrive, Fault, TypeOK, DataOK, PrefixInv, ResumesAtCursor, GapFree, Covered
<1>4. ResumesAtCursor'
    BY Zenon DEF Backfill, StartDrive, Fault, TypeOK, DataOK, PrefixInv, ResumesAtCursor
<1>5. GapFree'
    BY Zenon DEF Backfill, StartDrive, Fault, TypeOK, DataOK, GapFree
<1> QED BY <1>1, <1>2, <1>3, <1>4, <1>5, Zenon DEF TypeOK

\* Fetched preserves the inductive invariant.
LEMMA FetchedPreserves ==
    ASSUME IInv, NEW r \in InFlight, Fetched(r)
    PROVE  IInv'
<1> USE StartAssumption, PlanAssumption, BackfillAssumption, BoundsAssumption
    DEF IInv, Driving, db, env, producer, prefix
<1>1. FlagsOK'
    BY Zenon DEF Fetched, InFlight, TypeOK, FlagsOK
<1>2. DataOK'
    BY Zenon DEF Fetched, InFlight, TypeOK, DataOK, PrefixInv, ResumesAtCursor
<1>3. PrefixInv'
    BY Zenon DEF Fetched, InFlight, TypeOK, DataOK, PrefixInv, ResumesAtCursor, GapFree, Covered
<1>4. ResumesAtCursor'
    BY Zenon DEF Fetched, InFlight, TypeOK, DataOK, PrefixInv, ResumesAtCursor
<1>5. GapFree'
    BY Zenon DEF Fetched, InFlight, TypeOK, DataOK, GapFree
<1> QED BY <1>1, <1>2, <1>3, <1>4, <1>5, Zenon DEF TypeOK

\* FetchStops preserves the inductive invariant.
LEMMA FetchStopsPreserves ==
    ASSUME IInv, FetchStops
    PROVE  IInv'
<1> USE StartAssumption, PlanAssumption, BackfillAssumption, BoundsAssumption
    DEF IInv, Driving, db, env, producer, prefix
<1>1. FlagsOK'
    BY Zenon DEF FetchStops, TypeOK, FlagsOK
<1>2. DataOK'
    BY Zenon DEF FetchStops, TypeOK, DataOK, PrefixInv, ResumesAtCursor
<1>3. PrefixInv'
    BY Zenon DEF FetchStops, TypeOK, DataOK, PrefixInv, ResumesAtCursor, GapFree, Covered
<1>4. ResumesAtCursor'
    BY Zenon DEF FetchStops, TypeOK, DataOK, PrefixInv, ResumesAtCursor
<1>5. GapFree'
    BY Zenon DEF FetchStops, TypeOK, DataOK, GapFree
<1> QED BY <1>1, <1>2, <1>3, <1>4, <1>5, Zenon DEF TypeOK

\* Send preserves the inductive invariant.
LEMMA SendPreserves ==
    ASSUME IInv, Send
    PROVE  IInv'
<1> USE StartAssumption, PlanAssumption, BackfillAssumption, BoundsAssumption
    DEF IInv, Driving, db, env, producer, prefix
<1>1. FlagsOK'
    BY Zenon DEF Send, TypeOK, FlagsOK
<1>2. DataOK'
    BY DEF Send, TypeOK, DataOK, PrefixInv, ResumesAtCursor
<1>3. PrefixInv'
    BY Zenon DEF Send, TypeOK, DataOK, PrefixInv, ResumesAtCursor, GapFree, Covered
<1>4. ResumesAtCursor'
    BY Zenon DEF Send, TypeOK, DataOK, PrefixInv, ResumesAtCursor
<1>5. GapFree'
    BY Zenon DEF Send, TypeOK, DataOK, GapFree
<1> QED BY <1>1, <1>2, <1>3, <1>4, <1>5, Zenon DEF TypeOK

\* ProducerEnds preserves the inductive invariant.
LEMMA ProducerEndsPreserves ==
    ASSUME IInv, ProducerEnds
    PROVE  IInv'
<1> USE StartAssumption, PlanAssumption, BackfillAssumption, BoundsAssumption
    DEF IInv, Driving, db, env, producer, prefix
<1>1. FlagsOK'
    BY Zenon DEF ProducerEnds, TypeOK, FlagsOK
<1>2. DataOK'
    BY Zenon DEF ProducerEnds, TypeOK, DataOK, PrefixInv, ResumesAtCursor
<1>3. PrefixInv'
    BY Zenon DEF ProducerEnds, TypeOK, DataOK, PrefixInv, ResumesAtCursor, GapFree, Covered
<1>4. ResumesAtCursor'
    BY Zenon DEF ProducerEnds, TypeOK, DataOK, PrefixInv, ResumesAtCursor
<1>5. GapFree'
    BY Zenon DEF ProducerEnds, TypeOK, DataOK, GapFree
<1> QED BY <1>1, <1>2, <1>3, <1>4, <1>5, Zenon DEF TypeOK

\* Commit preserves the inductive invariant.
LEMMA CommitPreserves ==
    ASSUME IInv, Commit
    PROVE  IInv'
<1> USE StartAssumption, PlanAssumption, BackfillAssumption, BoundsAssumption
    DEF IInv, Driving, db, env, producer, prefix
<1>1. FlagsOK'
    BY Zenon DEF Commit, BlocksOf, Covered, TypeOK, FlagsOK
<1>2. DataOK'
    <2>1. Head(chan) \in RangeType /\ Tail(chan) \in Seq(RangeType) /\ Len(Tail(chan)) <= Len(chan)
        BY DEF Commit, TypeOK, DataOK
    <2>2. BlocksOf(Head(chan)) \subseteq Nat
        BY <2>1 DEF BlocksOf, RangeType
    <2>3. Len(Tail(chan)) <= 2 * RangeConcurrency
        BY <2>1 DEF Commit, TypeOK, DataOK
    <2> QED BY <2>1, <2>2, <2>3, ZenonT(30) DEF Commit, TypeOK, DataOK
<1>3. PrefixInv'
    BY Zenon DEF Commit, BlocksOf, Covered, TypeOK, DataOK, PrefixInv, ResumesAtCursor, GapFree
<1>4. ResumesAtCursor'
    BY Zenon DEF Commit, BlocksOf, Covered, TypeOK, DataOK, PrefixInv, ResumesAtCursor
<1>5. GapFree'
    BY Zenon DEF Commit, BlocksOf, Covered, TypeOK, DataOK, GapFree
<1> QED BY <1>1, <1>2, <1>3, <1>4, <1>5, Zenon DEF TypeOK

\* DriveEnds preserves the inductive invariant.
LEMMA DriveEndsPreserves ==
    ASSUME IInv, DriveEnds
    PROVE  IInv'
<1> USE StartAssumption, PlanAssumption, BackfillAssumption, BoundsAssumption
    DEF IInv, Driving, db, env, producer, prefix
<1>1. FlagsOK'
    BY Zenon DEF DriveEnds, Forget, TypeOK, FlagsOK
<1>2. DataOK'
    BY Zenon DEF DriveEnds, Forget, TypeOK, DataOK, PrefixInv, ResumesAtCursor
<1>3. PrefixInv'
    BY Zenon DEF DriveEnds, Forget, TypeOK, DataOK, PrefixInv, ResumesAtCursor, GapFree, Covered
<1>4. ResumesAtCursor'
    BY Zenon DEF DriveEnds, Forget, TypeOK, DataOK, PrefixInv, ResumesAtCursor
<1>5. GapFree'
    BY Zenon DEF DriveEnds, Forget, TypeOK, DataOK, GapFree
<1> QED BY <1>1, <1>2, <1>3, <1>4, <1>5, Zenon DEF TypeOK

\* Abort preserves the inductive invariant.
LEMMA AbortPreserves ==
    ASSUME IInv, Abort
    PROVE  IInv'
<1> USE StartAssumption, PlanAssumption, BackfillAssumption, BoundsAssumption
    DEF IInv, Driving, db, env, producer, prefix
<1>1. FlagsOK'
    BY Zenon DEF Abort, Fault, Forget, TypeOK, FlagsOK
<1>2. DataOK'
    BY DEF Abort, Fault, Forget, TypeOK, DataOK, PrefixInv, ResumesAtCursor
<1>3. PrefixInv'
    BY Zenon DEF Abort, Fault, Forget, TypeOK, DataOK, PrefixInv, ResumesAtCursor, GapFree, Covered
<1>4. ResumesAtCursor'
    BY Zenon DEF Abort, Fault, Forget, TypeOK, DataOK, PrefixInv, ResumesAtCursor
<1>5. GapFree'
    BY Zenon DEF Abort, Fault, Forget, TypeOK, DataOK, GapFree
<1> QED BY <1>1, <1>2, <1>3, <1>4, <1>5, Zenon DEF TypeOK

\* PrefixTracker::record and the cursor upsert preserve the inductive invariant:
\* what closes the gap up to g was committed before it was recorded.
LEMMA RecordPreserves ==
    ASSUME IInv, NEW g \in PrefixEnds(waiting \cup writing, frontier), Record(g)
    PROVE  IInv'
<1> USE DEF IInv, Driving, db, env, producer, prefix
<1> DEFINE committed == waiting \cup writing
           hits == {last_block(Matched, r) : r \in Absorbed(committed, g)} \cup {best}
<1>1. /\ committed \subseteq RangeType
      /\ g \in Nat \ {0} /\ g >= frontier
      /\ frontier .. (g - 1) \subseteq Covered(committed)
    <2>1. committed \subseteq RangeType /\ frontier \in Nat \ {0}
        BY Zenon DEF TypeOK, DataOK, PrefixInv, Record
    <2>2. g \in {frontier} \cup {r.hi + 1 : r \in committed} /\ g >= frontier
        BY Zenon DEF PrefixEnds
    <2>3. g \in Nat \ {0}
        BY <2>1, <2>2 DEF RangeType
    <2>4. frontier .. (g - 1) \subseteq Covered(committed)
        BY ZenonT(30) DEF PrefixEnds
    <2> QED BY <2>1, <2>2, <2>3, <2>4, Zenon
<1>2. hits \subseteq Nat
    BY <1>1, LastBlockType, Zenon DEF Absorbed, TypeOK, DataOK
<1>3. best' \in Nat
    BY <1>2, ZenonT(30) DEF Record
<1>4. FlagsOK'
    BY Zenon DEF Record, TypeOK, FlagsOK
<1>5. DataOK'
    BY <1>1, <1>3 DEF Record, TypeOK, DataOK
<1>6. StartBlock .. (g - 1) \subseteq stored
    <2>1. /\ StartBlock .. (frontier - 1) \subseteq stored
          /\ Covered(committed) \subseteq stored
          /\ frontier \in Nat
        BY ZenonT(30) DEF Record, PrefixInv
    <2>2. ASSUME NEW b \in StartBlock .. (g - 1)
          PROVE  b \in StartBlock .. (frontier - 1) \/ b \in frontier .. (g - 1)
        BY <1>1, <2>1, StartAssumption
    <2> QED BY <1>1, <2>1, <2>2, ZenonT(30)
<1>7. PrefixInv'
    <2>1. Covered(waiting' \cup writing') \subseteq Covered(committed)
        BY Zenon DEF Record, Covered
    <2>2. proc = "follow" => g = cursor' + 1
        BY <1>1 DEF Record, PrefixInv, TypeOK, DataOK
    <2> QED BY <1>1, <1>6, <2>1, <2>2, ZenonT(30) DEF Record, PrefixInv
<1>8. ResumesAtCursor'
    BY Zenon DEF Record, ResumesAtCursor
<1>9. GapFree'
    BY <1>1, <1>6, Zenon DEF Record, GapFree
<1> QED BY <1>4, <1>5, <1>7, <1>8, <1>9, Zenon DEF TypeOK

\* Every step preserves the inductive invariant.
LEMMA NextPreserves == IInv /\ [Next]_vars => IInv'
<1> SUFFICES ASSUME IInv, [Next]_vars
             PROVE  IInv'
    BY Zenon
<1>1. CASE Process
    BY <1>1, CatchUpPreserves, LoopStopsPreserves, DriveEndsPreserves, Zenon DEF Process
<1>2. CASE Producer
    BY <1>2, FetchedPreserves, FetchStopsPreserves, SendPreserves, ProducerEndsPreserves, Zenon
    DEF Producer
<1>3. CASE Consumer
    BY <1>3, CommitPreserves, RecordPreserves, Zenon DEF Consumer
<1>4. CASE UNCHANGED vars
    BY <1>4, ZenonT(30)
    DEF vars, db, env, producer, prefix, IInv, TypeOK, FlagsOK, DataOK, PrefixInv,
        ResumesAtCursor, GapFree, Driving
<1>5. CASE WaitPoll
    BY <1>4, <1>5, Zenon DEF WaitPoll
<1> QED
    BY <1>1, <1>2, <1>3, <1>4, <1>5, ChainGrowsPreserves, StopRequestedPreserves,
       BootPreserves, BackfillPreserves, AbortPreserves, Zenon DEF Next

-----------------------------------------------------------------------------
\* The inductive invariant holds of every reachable state of the pipeline.
THEOREM Invariance == Spec => []IInv
BY InitInv, NextPreserves, PTL DEF Spec

\* Type correctness; in particular the channel respects its capacity.
THEOREM TypeCorrect == Spec => []TypeOK
<1>1. IInv => TypeOK
    BY Zenon DEF IInv
<1> QED BY Invariance, <1>1, PTL

\* The checkpoint is gap-free: for every plan, concurrency and completion order,
\* and wherever the process fails or is killed, no block between StartBlock and
\* the stored cursor is missing.
THEOREM CheckpointGapFree == Spec => []GapFree
<1>1. IInv => GapFree
    BY Zenon DEF IInv
<1> QED BY Invariance, <1>1, PTL

\* Outside a backfill no step takes the cursor back.
THEOREM Forward == Spec => CursorForward
<1>1. ASSUME IInv, Next
      PROVE  proc # "backfill" => cursor' >= cursor
    <2> USE DEF db, env, producer, prefix
    <2>1. ASSUME NEW g \in PrefixEnds(waiting \cup writing, frontier), Record(g),
                 proc # "backfill"
          PROVE  cursor' >= cursor
        <3>1. g >= frontier /\ frontier = cursor + 1 /\ cursor \in Nat
            BY <1>1, <2>1, Zenon DEF PrefixEnds, IInv, PrefixInv, Record, Driving, TypeOK, DataOK
        <3>2. g \in Int
            BY <1>1, <3>1 DEF PrefixEnds, IInv, TypeOK, DataOK, RangeType
        <3> QED BY <2>1, <3>1, <3>2 DEF Record
    <2>2. CASE UNCHANGED cursor
        BY <1>1, <2>2 DEF IInv, TypeOK, DataOK
    <2> QED
        BY <1>1, <2>1, <2>2, ZenonT(30)
        DEF Next, Process, Producer, Consumer, ChainGrows, StopRequested, Boot, WaitPoll,
            CatchUp, LoopStops, DriveEnds, Backfill, Fetched, FetchStops, Send,
            ProducerEnds, Commit, Abort, vars
<1>2. IInv /\ [Next]_vars => [proc # "backfill" => cursor' >= cursor]_vars
    BY <1>1, Zenon
<1> QED BY Invariance, <1>2, PTL DEF Spec, CursorForward

\* The loop always resumes at the block after the cursor.
THEOREM Resumption == Spec => []ResumesAtCursor
<1>1. IInv => ResumesAtCursor
    BY Zenon DEF IInv
<1> QED BY Invariance, <1>1, PTL

\* The pipeline, with its restarts and backfills, implements the abstract
\* checkpoint: commits only store, Record only advances over stored blocks or (in
\* a backfill) takes the cursor back, and no other step touches either.
THEOREM Refinement == Spec => ImplementsCheckpoint
<1>1. Init => Abstract!Init
    BY Zenon DEF Init, Abstract!Init
<1>2. ASSUME IInv, Next
      PROVE  Abstract!Next \/ UNCHANGED <<cursor, stored>>
    <2> USE DEF db, env, producer, prefix
    <2>1. CASE Commit
        BY <2>1, Zenon DEF Commit, Abstract!Next, Abstract!Store
    <2>2. ASSUME NEW g \in PrefixEnds(waiting \cup writing, frontier), Record(g)
          PROVE  Abstract!Next \/ UNCHANGED <<cursor, stored>>
        <3>1. IInv'
            BY <1>2, <2>2, RecordPreserves, ZenonT(30)
        <3>2. /\ cursor \in Nat /\ cursor' \in Nat /\ UNCHANGED stored
              /\ StartBlock .. cursor' \subseteq stored
            BY <1>2, <2>2, <3>1, Zenon DEF Record, IInv, TypeOK, DataOK, GapFree
        <3>3. CASE cursor' > cursor
            BY <3>2, <3>3, StartAssumption DEF Abstract!Next, Abstract!Advance
        <3>4. CASE cursor' < cursor
            BY <3>2, <3>4, Zenon DEF Abstract!Next, Abstract!Rewind
        <3> QED BY <3>2, <3>3, <3>4
    <2> QED
        BY <1>2, <2>1, <2>2, ZenonT(30)
        DEF Next, Process, Producer, Consumer, ChainGrows, StopRequested, Boot, WaitPoll,
            CatchUp, LoopStops, DriveEnds, Backfill, Fetched, FetchStops, Send,
            ProducerEnds, Abort, vars
<1>3. IInv /\ [Next]_vars => [Abstract!Next]_<<cursor, stored>>
    BY <1>2, Zenon DEF vars, db
<1> QED BY Invariance, <1>1, <1>3, PTL DEF Spec, ImplementsCheckpoint, Abstract!Spec

-----------------------------------------------------------------------------
(* Nothing between planning and the cursor is lost: the ranges of a drive. *)

\* The ranges of a drive partition what lies ahead of the frontier.  None of
\* them crosses it, so what the tracker takes out is behind it as a whole; and
\* `best` is the highest matching block between the window's start and the
\* frontier.
DriveInv ==
    Driving =>
        /\ \A r, q \in held : r = q
        /\ \A r \in InPipeline :
              next <= r.lo /\ r.lo <= r.hi /\ (frontier <= r.lo \/ r.hi < frontier)
        /\ \A r, q \in InPipeline : r = q \/ r.hi < q.lo \/ q.hi < r.lo
        /\ ~shutdown => frontier .. target \subseteq Covered(InPipeline)
        /\ best # 0 => best \in Matched /\ best \in next .. (frontier - 1)
        /\ \A b \in Matched : b \in next .. (frontier - 1) => b <= best

\* Every number is in one step of a sequence of steps that starts at 0.
LEMMA StepOf ==
    ASSUME NEW x \in Nat
    PROVE  \E k \in 0 .. x : k * Step <= x /\ x < k * Step + Step
<1> DEFINE T == {k \in Nat : x < k * Step + Step}
<1>0. Step \in Nat /\ Step >= 1
    BY PlanAssumption
<1>1. \A k \in Nat : k * Step \in Nat /\ k * Step >= k
    BY <1>0
<1>2. x \in T
    BY <1>0, <1>1
<1>3. PICK k \in T : \A j \in T : k <= j
    BY <1>2, LeastNatural, ZenonT(30)
<1>4. k * Step <= x
    <2>1. CASE k = 0
        BY <2>1, <1>0
    <2>2. CASE k # 0
        <3>1. k - 1 \in Nat /\ k - 1 \notin T
            BY <2>2, <1>3
        <3>2. (k - 1) * Step + Step <= x
            BY <3>1, <1>0, <1>1
        <3>3. (k - 1) * Step + Step = k * Step
            BY <1>0
        <3> QED BY <3>2, <3>3, Zenon
    <2> QED BY <2>1, <2>2, Zenon
<1>5. k \in 0 .. x /\ x < k * Step + Step
    BY <1>1, <1>3, <1>4
<1> QED BY <1>4, <1>5, Zenon

\* Two steps that start differently do not overlap.
LEMMA StepsApart ==
    ASSUME NEW n \in Nat, NEW j \in Nat, NEW k \in Nat, j < k
    PROVE  j * n + n <= k * n /\ j * n \in Nat /\ k * n \in Nat
<1>1. k * n = j * n + (k - j) * n
    OBVIOUS
<1>2. (k - j) * n = n + (k - j - 1) * n /\ (k - j - 1) * n \in Nat
    OBVIOUS
<1>3. j * n \in Nat /\ k * n \in Nat
    OBVIOUS
<1> QED BY <1>1, <1>2, <1>3

\* plan_ranges leaves no block of the window out.
LEMMA PlanCovers ==
    ASSUME NEW from \in Nat, NEW to \in Nat
    PROVE  from .. to \subseteq Covered(plan_ranges(from, to, Step))
<1> SUFFICES ASSUME NEW b \in from .. to
             PROVE  \E r \in plan_ranges(from, to, Step) : b \in BlocksOf(r)
    BY Zenon DEF Covered
<1>0. Step \in Nat /\ b - from \in Nat
    BY PlanAssumption
<1>1. PICK k \in 0 .. (b - from) : k * Step <= b - from /\ b - from < k * Step + Step
    BY <1>0, StepOf, ZenonT(30)
<1> DEFINE s == from + k * Step
<1>2. k * Step \in Nat
    BY <1>0
<1>3. k \in 0 .. (to - from) /\ s \in from .. to /\ b \in s .. Lesser(s + Step - 1, to)
    BY <1>0, <1>1, <1>2 DEF Lesser
<1>4. Span(s, Lesser(s + Step - 1, to)) \in plan_ranges(from, to, Step)
    BY <1>3, Zenon DEF plan_ranges
<1> HIDE DEF s
<1> QED BY <1>3, <1>4, Zenon DEF Span, BlocksOf

\* The planned ranges are not empty, start in the window and do not overlap.
LEMMA PlanApart ==
    ASSUME NEW from \in Nat, NEW to \in Nat
    PROVE  /\ \A r \in plan_ranges(from, to, Step) : from <= r.lo /\ r.lo <= r.hi
           /\ \A r, q \in plan_ranges(from, to, Step) : r = q \/ r.hi < q.lo \/ q.hi < r.lo
<1>0. Step \in Nat /\ Step >= 1
    BY PlanAssumption
<1>1. ASSUME NEW r \in plan_ranges(from, to, Step)
      PROVE  \E k \in Nat : /\ from + k * Step <= to
                            /\ r = Span(from + k * Step, Lesser(from + k * Step + Step - 1, to))
    BY DEF plan_ranges
<1>2. ASSUME NEW r \in plan_ranges(from, to, Step) PROVE from <= r.lo /\ r.lo <= r.hi
    <2>1. PICK k \in Nat : /\ from + k * Step <= to
                           /\ r = Span(from + k * Step, Lesser(from + k * Step + Step - 1, to))
        BY <1>1, Zenon
    <2>2. k * Step \in Nat
        BY <1>0
    <2>3. r.lo = from + k * Step /\ r.hi = Lesser(from + k * Step + Step - 1, to)
        BY <2>1, Zenon DEF Span
    <2> QED BY <1>0, <2>1, <2>2, <2>3 DEF Lesser
<1>3. ASSUME NEW r \in plan_ranges(from, to, Step), NEW q \in plan_ranges(from, to, Step)
      PROVE  r = q \/ r.hi < q.lo \/ q.hi < r.lo
    <2>1. PICK j \in Nat : r = Span(from + j * Step, Lesser(from + j * Step + Step - 1, to))
        BY <1>1, Zenon
    <2>2. PICK k \in Nat : q = Span(from + k * Step, Lesser(from + k * Step + Step - 1, to))
        BY <1>1, Zenon
    <2>3. j * Step \in Nat /\ k * Step \in Nat
        BY <1>0
    <2>4. /\ r.lo = from + j * Step /\ r.hi <= from + j * Step + Step - 1 /\ r.hi \in Nat
          /\ q.lo = from + k * Step /\ q.hi <= from + k * Step + Step - 1 /\ q.hi \in Nat
        BY <1>0, <2>1, <2>2, <2>3 DEF Span, Lesser
    <2>5. CASE j = k
        BY <2>1, <2>2, <2>5, Zenon
    <2>6. CASE j < k
        BY <2>4, <2>3, <2>6, <1>0, StepsApart
    <2>7. CASE k < j
        BY <2>4, <2>3, <2>7, <1>0, StepsApart
    <2> QED BY <2>5, <2>6, <2>7
<1> QED BY <1>2, <1>3, Zenon

\* last_block is the highest matching block of the range.
LEMMA LastBlockHighest ==
    ASSUME NEW r \in RangeType, NEW b \in Matched, b \in BlocksOf(r)
    PROVE  b <= last_block(Matched, r)
<1> DEFINE hits == {x \in Matched : x \in BlocksOf(r)}
<1>1. r.lo \in Nat /\ r.hi \in Nat /\ hits \subseteq r.lo .. r.hi /\ hits # {}
    BY ZenonT(30) DEF RangeType, BlocksOf
<1>2. \E h \in hits : \A x \in hits : x <= h
    BY <1>1, HighestBlock, ZenonT(30)
<1>3. \A x \in hits : x <= last_block(Matched, r)
    BY <1>1, <1>2, Zenon DEF last_block
<1> QED BY <1>3, Zenon

\* The values of a sequence after an append, and of a sequence by its ends.
LEMMA AppendValues ==
    ASSUME NEW s \in Seq(RangeType), NEW r \in RangeType
    PROVE  {Append(s, r)[i] : i \in DOMAIN Append(s, r)} = {s[i] : i \in DOMAIN s} \cup {r}
<1> DEFINE a == Append(s, r)
<1>1. /\ Len(s) \in Nat /\ DOMAIN s = 1 .. Len(s) /\ DOMAIN a = 1 .. Len(s) + 1
      /\ a[Len(s) + 1] = r /\ \A i \in 1 .. Len(s) : a[i] = s[i]
    OBVIOUS
<1> HIDE DEF a
<1>2. \A i \in DOMAIN a : a[i] \in {s[j] : j \in DOMAIN s} \cup {r}
    <2> TAKE i \in DOMAIN a
    <2>1. i \in 1 .. Len(s) \/ i = Len(s) + 1
        BY <1>1
    <2> QED BY <2>1, <1>1, Zenon
<1>3. \A j \in DOMAIN s : s[j] \in {a[i] : i \in DOMAIN a}
    <2> TAKE j \in DOMAIN s
    <2>1. j \in DOMAIN a /\ a[j] = s[j]
        BY <1>1
    <2> QED BY <2>1, Zenon
<1>4. r \in {a[i] : i \in DOMAIN a}
    BY <1>1, Len(s) + 1 \in DOMAIN a, Zenon
<1>5. {a[i] : i \in DOMAIN a} = {s[i] : i \in DOMAIN s} \cup {r}
    BY <1>2, <1>3, <1>4, Zenon
<1> QED BY <1>5, Zenon DEF a

LEMMA HeadTailValues ==
    ASSUME NEW s \in Seq(RangeType), s # <<>>
    PROVE  {s[i] : i \in DOMAIN s} = {Head(s)} \cup {Tail(s)[i] : i \in DOMAIN Tail(s)}
<1> DEFINE t == Tail(s)
<1>1. /\ Len(s) \in Nat /\ Len(s) >= 1 /\ DOMAIN s = 1 .. Len(s) /\ Head(s) = s[1]
      /\ t \in Seq(RangeType) /\ Len(t) = Len(s) - 1 /\ DOMAIN t = 1 .. Len(s) - 1
      /\ \A i \in 1 .. Len(s) - 1 : t[i] = s[i + 1]
    OBVIOUS
<1> HIDE DEF t
<1>2. \A i \in DOMAIN s : s[i] \in {Head(s)} \cup {t[j] : j \in DOMAIN t}
    <2> TAKE i \in DOMAIN s
    <2>1. CASE i = 1
        BY <2>1, <1>1, Zenon
    <2>2. CASE i # 1
        <3>1. i - 1 \in DOMAIN t /\ t[i - 1] = s[i]
            BY <2>2, <1>1
        <3> QED BY <3>1, Zenon
    <2> QED BY <2>1, <2>2, Zenon
<1>3. \A j \in DOMAIN t : t[j] \in {s[i] : i \in DOMAIN s}
    <2> TAKE j \in DOMAIN t
    <2>1. j + 1 \in DOMAIN s /\ t[j] = s[j + 1]
        BY <1>1
    <2> QED BY <2>1, Zenon
<1>4. Head(s) \in {s[i] : i \in DOMAIN s}
    BY <1>1, 1 \in DOMAIN s, Zenon
<1>5. {s[i] : i \in DOMAIN s} = {Head(s)} \cup {t[i] : i \in DOMAIN t}
    BY <1>2, <1>3, <1>4, Zenon
<1> QED BY <1>5, Zenon DEF t

\* Every range in the pipeline is a pair of block numbers.
LEMMA PipelineType == ASSUME IInv PROVE InPipeline \subseteq RangeType
<1>1. {chan[i] : i \in DOMAIN chan} \subseteq RangeType
    BY DEF IInv, TypeOK, DataOK
<1> QED BY <1>1, Zenon DEF IInv, TypeOK, DataOK, InPipeline

\* A range that only changes its place in the pipeline keeps the invariant.
LEMMA Moved ==
    ASSUME DriveInv, InPipeline' = InPipeline, \A r, q \in held' : r = q,
           UNCHANGED <<proc, next, target, shutdown, frontier, best>>
    PROVE  DriveInv'
BY Zenon DEF DriveInv, Driving, Covered

\* A drive starts with the ranges of its window, all of them ahead of it.
LEMMA StartKeeps ==
    ASSUME NEW from \in Nat, NEW to \in Nat, next' = from, StartDrive(from, to)
    PROVE  DriveInv'
<1> DEFINE plan == plan_ranges(from, to, Step)
<1>1. /\ todo' = plan /\ held' = {} /\ chan' = <<>> /\ writing' = {} /\ waiting' = {}
      /\ frontier' = from /\ target' = to /\ best' = 0
    BY Zenon DEF StartDrive
<1>2. InPipeline' = plan
    <2>1. {chan'[i] : i \in DOMAIN chan'} = {}
        BY <1>1
    <2> QED BY <1>1, <2>1, Zenon DEF InPipeline
<1>3. /\ \A r \in plan : from <= r.lo /\ r.lo <= r.hi
      /\ \A r, q \in plan : r = q \/ r.hi < q.lo \/ q.hi < r.lo
    BY PlanApart, Zenon
<1>4. from .. to \subseteq Covered(plan)
    BY PlanCovers, Zenon
<1>5. \A b \in Matched : b \notin from .. (from - 1)
    OBVIOUS
<1> HIDE DEF plan
<1> QED BY <1>1, <1>2, <1>3, <1>4, <1>5, Zenon DEF DriveInv, Covered

\* PrefixTracker::record(): what closes the prefix leaves the pipeline whole,
\* and the cursor gets the highest matching block of what it passes.
LEMMA RecordKeeps ==
    ASSUME IInv, DriveInv, CursorHash,
           NEW g \in PrefixEnds(waiting \cup writing, frontier), Record(g)
    PROVE  DriveInv' /\ CursorHash'
<1> DEFINE committed == waiting \cup writing
           gone == Absorbed(committed, g)
           hits == {last_block(Matched, r) : r \in gone} \cup {best}
<1>1. /\ Driving /\ frontier' = g /\ waiting' = committed \ gone /\ writing' = {}
      /\ UNCHANGED <<proc, next, target, todo, held, shutdown, chan>>
      /\ best' \in hits /\ \A k \in hits : k <= best'
      /\ \/ g # frontier /\ cursor' = g - 1 /\ cursor_hash' = best'
         \/ g = frontier /\ UNCHANGED <<cursor, cursor_hash>>
    BY Zenon DEF Record, producer
<1>2. /\ committed \subseteq InPipeline /\ InPipeline \subseteq RangeType
      /\ frontier \in Nat /\ next \in Nat /\ target \in Nat /\ best \in Nat /\ cursor \in Nat
    BY PipelineType, Zenon DEF InPipeline, IInv, TypeOK, DataOK
<1>3. /\ g \in {frontier} \cup {r.hi + 1 : r \in committed} /\ g >= frontier
      /\ frontier .. (g - 1) \subseteq Covered(committed)
    BY ZenonT(30) DEF PrefixEnds
<1>4. g \in Nat
    BY <1>2, <1>3 DEF RangeType
<1>5. /\ \A r \in InPipeline :
            next <= r.lo /\ r.lo <= r.hi /\ (frontier <= r.lo \/ r.hi < frontier)
      /\ \A r, q \in InPipeline : r = q \/ r.hi < q.lo \/ q.hi < r.lo
      /\ ~shutdown => frontier .. target \subseteq Covered(InPipeline)
      /\ best # 0 => best \in Matched /\ best \in next .. (frontier - 1)
      /\ \A b \in Matched : b \in next .. (frontier - 1) => b <= best
      /\ \A r, q \in held : r = q
    BY <1>1, Zenon DEF DriveInv
<1>6. ASSUME NEW r \in InPipeline PROVE g <= r.lo \/ r.hi < g
    <2>1. r.lo \in Nat /\ r.hi \in Nat
        BY <1>2, Zenon DEF RangeType
    <2>2. CASE g = frontier
        BY <2>2, <1>5, Zenon
    <2>3. CASE g # frontier
        <3>1. PICK q \in committed : g = q.hi + 1
            BY <2>3, <1>3, Zenon
        <3>2. q \in InPipeline /\ q.lo \in Nat /\ q.hi \in Nat /\ q.lo <= q.hi
            BY <1>2, <1>5, Zenon DEF RangeType
        <3>3. r = q \/ r.hi < q.lo \/ q.hi < r.lo
            BY <3>2, <1>5, Zenon
        <3> QED BY <2>1, <3>1, <3>2, <3>3
    <2> QED BY <2>2, <2>3, Zenon
<1>7. InPipeline' \subseteq InPipeline /\ InPipeline \ gone \subseteq InPipeline'
    BY <1>1, Zenon DEF InPipeline
<1> HIDE DEF hits
<1>8. ASSUME ~shutdown, NEW b \in g .. target PROVE b \in Covered(InPipeline')
    <2>1. b \in frontier .. target
        BY <1>2, <1>3, <1>4, <1>8
    <2>2. PICK r \in InPipeline : b \in BlocksOf(r)
        BY <2>1, <1>5, <1>8, Zenon DEF Covered
    <2>3. b \in Nat /\ g <= b /\ r.lo \in Nat /\ r.hi \in Nat /\ b <= r.hi
        BY <2>2, <1>2, <1>4, <1>8 DEF BlocksOf, RangeType
    <2>4. g <= r.lo
        BY <1>4, <1>6, <2>3
    <2>5. r \notin gone
        BY <1>4, <2>3, <2>4 DEF Absorbed
    <2>6. r \in InPipeline'
        BY <1>7, <2>5, Zenon
    <2> HIDE DEF gone
    <2> QED BY <2>2, <2>6, Zenon DEF Covered
<1>9. best' # 0 => best' \in Matched /\ best' \in next .. (g - 1)
    <2> SUFFICES ASSUME best' # 0 PROVE best' \in Matched /\ best' \in next .. (g - 1)
        BY Zenon
    <2>1. CASE best' = best
        <3>1. best' \in Matched /\ best' \in next .. (frontier - 1)
            BY <2>1, <1>5, Zenon
        <3> QED BY <3>1, <1>2, <1>3, <1>4
    <2>2. CASE best' # best
        <3>1. PICK r \in gone : best' = last_block(Matched, r)
            BY <2>2, <1>1, Zenon DEF hits
        <3>2. r \in InPipeline /\ r \in RangeType /\ r.lo < g
            BY <1>2, <3>1, Zenon DEF Absorbed
        <3>3. best' \in Matched /\ best' \in BlocksOf(r)
            BY <3>1, <3>2, LastBlockType, Zenon
        <3>4. r.lo \in Nat /\ r.hi \in Nat /\ r.hi < g /\ next <= r.lo
            BY <1>4, <1>5, <1>6, <3>2 DEF RangeType
        <3> QED BY <1>2, <1>4, <3>3, <3>4 DEF BlocksOf
    <2> QED BY <2>1, <2>2, Zenon
<1>10. ASSUME NEW b \in Matched, b \in next .. (g - 1) PROVE b <= best'
    <2>0. b \in Nat /\ best' \in Nat
        BY <1>1, <1>2, <1>9, <1>10, MatchedAssumption
    <2>1. CASE b < frontier
        <3>1. b <= best
            BY <2>1, <2>0, <1>2, <1>4, <1>5, <1>10
        <3>2. best <= best'
            BY <1>1, Zenon DEF hits
        <3> QED BY <2>0, <3>1, <3>2, <1>2
    <2>2. CASE ~(b < frontier)
        <3>1. b \in frontier .. (g - 1)
            BY <2>2, <2>0, <1>2, <1>4, <1>10
        <3>2. PICK r \in committed : b \in BlocksOf(r)
            BY <3>1, <1>3, Zenon DEF Covered
        <3>3. r \in RangeType /\ r.lo \in Nat /\ r.lo < g
            BY <3>1, <3>2, <1>2, <1>4 DEF BlocksOf, RangeType
        <3>4. last_block(Matched, r) \in hits
            BY <3>3, Zenon DEF hits, Absorbed
        <3>5. b <= last_block(Matched, r) /\ last_block(Matched, r) \in Nat
            BY <3>2, <3>3, LastBlockHighest, LastBlockType, Zenon
        <3>6. last_block(Matched, r) <= best'
            BY <3>4, <1>1, Zenon
        <3> QED BY <2>0, <3>5, <3>6
    <2> QED BY <2>1, <2>2, Zenon
<1>11. DriveInv'
    <2>1. \A r \in InPipeline' : next' <= r.lo /\ r.lo <= r.hi /\ (frontier' <= r.lo \/ r.hi < frontier')
        BY <1>1, <1>5, <1>6, <1>7, Zenon
    <2>2. \A r, q \in InPipeline' : r = q \/ r.hi < q.lo \/ q.hi < r.lo
        BY <1>5, <1>7, Zenon
    <2>3. ~shutdown' => frontier' .. target' \subseteq Covered(InPipeline')
        BY <1>1, <1>8, Zenon
    <2>4. /\ best' # 0 => best' \in Matched /\ best' \in next' .. (frontier' - 1)
          /\ \A b \in Matched : b \in next' .. (frontier' - 1) => b <= best'
        BY <1>1, <1>9, <1>10, Zenon
    <2>5. \A r, q \in held' : r = q
        BY <1>1, <1>5, Zenon
    <2> QED BY <2>1, <2>2, <2>3, <2>4, <2>5, Zenon DEF DriveInv, Covered
<1>12. CursorHash'
    <2>1. CASE g = frontier
        BY <2>1, <1>1, Zenon DEF CursorHash
    <2>2. CASE g # frontier
        <3>0. cursor' = g - 1 /\ cursor_hash' = best'
            BY <2>2, <1>1, Zenon
        <3> SUFFICES ASSUME best' # 0
                     PROVE  /\ best' \in Matched /\ best' <= g - 1
                            /\ \A b \in Matched : b <= g - 1 => b <= best'
            BY <3>0, Zenon DEF CursorHash
        <3>1. best' \in Matched /\ best' \in next .. (g - 1)
            BY <1>9, Zenon
        <3>2. ASSUME NEW b \in Matched, b <= g - 1 PROVE b <= best'
            <4>1. b \in Nat
                BY MatchedAssumption, Zenon
            <4>2. CASE b < next
                BY <4>1, <4>2, <3>1, <1>2, <1>4
            <4>3. CASE ~(b < next)
                BY <4>1, <4>3, <3>2, <1>2, <1>4, <1>10
            <4> QED BY <4>2, <4>3, Zenon
        <3> QED BY <3>1, <3>2, <1>2, <1>4
    <2> QED BY <2>1, <2>2, Zenon
<1> QED BY <1>11, <1>12, Zenon

\* Every step keeps the ranges of the drive and the hash of the cursor.
LEMMA NextKeeps == IInv /\ DriveInv /\ CursorHash /\ [Next]_vars => DriveInv' /\ CursorHash'
<1> SUFFICES ASSUME IInv, DriveInv, CursorHash, [Next]_vars
             PROVE  DriveInv' /\ CursorHash'
    BY Zenon
<1> USE DEF db, env, producer, prefix
<1>1. ASSUME UNCHANGED <<db, proc, next, target, producer, chan, writing, prefix>>
      PROVE  DriveInv' /\ CursorHash'
    BY <1>1 DEF DriveInv, CursorHash, Driving, InPipeline, Covered
<1>2. ASSUME UNCHANGED db, ~Driving' PROVE DriveInv' /\ CursorHash'
    BY <1>2, Zenon DEF DriveInv, CursorHash
<1>3. ASSUME UNCHANGED db, InPipeline' = InPipeline, \A r, q \in held' : r = q,
             UNCHANGED <<proc, next, target, shutdown, frontier, best>>
      PROVE  DriveInv' /\ CursorHash'
    BY <1>3, Moved, Zenon DEF CursorHash
<1>4. CASE ChainGrows \/ StopRequested \/ WaitPoll \/ UNCHANGED vars
    BY <1>1, <1>4, Zenon DEF ChainGrows, StopRequested, WaitPoll, vars
<1>5. CASE Boot \/ LoopStops \/ DriveEnds \/ Abort
    BY <1>2, <1>5, Zenon DEF Boot, LoopStops, DriveEnds, Abort, Driving
<1>6. CASE CatchUp
    <2>1. next \in Nat \ {0} /\ safe \in Nat
        BY <1>6 DEF CatchUp, IInv, TypeOK, DataOK, ResumesAtCursor
    <2>2. fetch_target(safe, next, Step, RangeConcurrency, TRUE) \in Nat
        BY <2>1, TargetType, ZenonT(30)
    <2>3. StartDrive(next, fetch_target(safe, next, Step, RangeConcurrency, TRUE))
          /\ UNCHANGED <<cursor, cursor_hash, next>>
        BY <1>6, ZenonT(30) DEF CatchUp
    <2> QED BY <2>1, <2>2, <2>3, StartKeeps, ZenonT(30) DEF CursorHash
<1>7. ASSUME NEW from \in BackfillFrom, NEW to \in 1 .. safe, Backfill(from, to)
      PROVE  DriveInv' /\ CursorHash'
    <2>1. from \in Nat /\ to \in Nat
        BY BackfillAssumption, StartAssumption DEF IInv, TypeOK, DataOK
    <2>2. StartDrive(from, to) /\ next' = from /\ UNCHANGED <<cursor, cursor_hash>>
        BY <1>7, Zenon DEF Backfill
    <2> QED BY <2>1, <2>2, StartKeeps, Zenon DEF CursorHash
<1>8. ASSUME NEW r \in InFlight, Fetched(r) PROVE DriveInv' /\ CursorHash'
    <2>1. r \in todo /\ held = {} /\ todo' = todo \ {r} /\ held' = {r}
        BY <1>8, Zenon DEF Fetched, InFlight
    <2>2. InPipeline' = InPipeline
        BY <1>8, <2>1, Zenon DEF Fetched, InPipeline
    <2> QED BY <1>3, <1>8, <2>1, <2>2, Zenon DEF Fetched
<1>9. CASE FetchStops
    <2>1. InPipeline' \subseteq InPipeline /\ shutdown'
        BY <1>9, Zenon DEF FetchStops, InPipeline
    <2>2. UNCHANGED <<db, proc, next, target, held, frontier, best>>
        BY <1>9, Zenon DEF FetchStops
    <2>3. DriveInv'
        BY <2>1, <2>2, Zenon DEF DriveInv, Driving
    <2> QED BY <2>2, <2>3, Zenon DEF CursorHash
<1>10. CASE Send
    <2>1. PICK r \in held : chan' = Append(chan, r)
        BY <1>10, Zenon DEF Send
    <2>2. held = {r} /\ r \in RangeType /\ chan \in Seq(RangeType) /\ held' = {}
        BY <1>10, <2>1, Zenon DEF Send, DriveInv, IInv, TypeOK, DataOK
    <2>3. {chan'[i] : i \in DOMAIN chan'} = {chan[i] : i \in DOMAIN chan} \cup {r}
        BY <2>1, <2>2, AppendValues
    <2>4. InPipeline' = InPipeline
        BY <1>10, <2>2, <2>3, Zenon DEF Send, InPipeline
    <2> QED BY <1>3, <1>10, <2>2, <2>4, Zenon DEF Send
<1>11. CASE ProducerEnds
    <2>1. InPipeline' = InPipeline
        BY <1>11, Zenon DEF ProducerEnds, InPipeline
    <2> QED BY <1>3, <1>11, <2>1, Zenon DEF ProducerEnds
<1>12. CASE Commit
    <2>1. chan \in Seq(RangeType) /\ chan # <<>> /\ writing = {} /\ writing' = {Head(chan)} /\ chan' = Tail(chan)
        BY <1>12, Zenon DEF Commit, IInv, TypeOK, DataOK
    <2>2. {chan[i] : i \in DOMAIN chan} = {Head(chan)} \cup {chan'[i] : i \in DOMAIN chan'}
        BY <2>1, HeadTailValues, ZenonT(30)
    <2>3. InPipeline' = InPipeline
        BY <1>12, <2>1, <2>2, Zenon DEF Commit, InPipeline
    <2>4. Driving /\ UNCHANGED <<proc, next, target, shutdown, frontier, best, held, cursor, cursor_hash>>
        BY <1>12, Zenon DEF Commit
    <2>5. \A r, q \in held' : r = q
        BY <2>4, Zenon DEF DriveInv
    <2> QED BY <2>3, <2>4, <2>5, Moved, Zenon DEF CursorHash
<1>13. ASSUME NEW g \in PrefixEnds(waiting \cup writing, frontier), Record(g)
       PROVE  DriveInv' /\ CursorHash'
    BY <1>13, RecordKeeps, Zenon
<1> QED
    BY <1>4, <1>5, <1>6, <1>7, <1>8, <1>9, <1>10, <1>11, <1>12, <1>13, ZenonT(30)
    DEF Next, Process, Producer, Consumer

\* The ranges of a drive are as DriveInv says, in every reachable state.
LEMMA DriveInvariance == Spec => [](DriveInv /\ CursorHash)
<1>1. Init => DriveInv /\ CursorHash
    BY Zenon DEF Init, DriveInv, CursorHash, Driving
<1> QED BY Invariance, NextKeeps, <1>1, PTL DEF Spec

\* For every plan, concurrency and completion order, a drive that is not stopped
\* still holds every block between its frontier and its target.
THEOREM NothingLost == Spec => []NoRangeLost
<1>1. DriveInv /\ CursorHash => NoRangeLost
    BY Zenon DEF DriveInv, NoRangeLost
<1> QED BY DriveInvariance, <1>1, PTL

\* The hash stored with the cursor is that of the highest matching block at or
\* below it, never one of a range committed ahead of a gap.
THEOREM HashAtCursor == Spec => []CursorHash
BY DriveInvariance, PTL

-----------------------------------------------------------------------------
(* The loops of plan.rs compute the closed forms of RangePlan.             *)

CONSTANTS Starts, Targets, Steps
VARIABLES first, step, at, ranges, recorded, advanced_to

\* The loops by themselves, for any arguments; `at` is the `s` of plan_ranges.
Loops == INSTANCE RangePlanLoops WITH s <- at

LEMMA SameOperators ==
    /\ \A a, b : Loops!Span(a, b) = Span(a, b) /\ Loops!Lesser(a, b) = Lesser(a, b)
    /\ \A a, b, c : Loops!plan_ranges(a, b, c) = plan_ranges(a, b, c)
    /\ \A a : Loops!Covered(a) = Covered(a)
    /\ \A a, b : Loops!PrefixEnds(a, b) = PrefixEnds(a, b) /\ Loops!Absorbed(a, b) = Absorbed(a, b)
    /\ \A a, b : Loops!last_block(a, b) = last_block(a, b)
BY Zenon DEF Loops!Span, Span, Loops!Lesser, Lesser, Loops!plan_ranges, plan_ranges, Loops!Covered, Covered,
       Loops!PrefixEnds, PrefixEnds, Loops!Absorbed, Absorbed, Loops!last_block, last_block,
       Loops!BlocksOf, BlocksOf

LoopType ==
    /\ first \in Nat \ {0} /\ target \in Nat /\ step \in Nat \ {0} /\ at \in Nat \ {0}
    /\ ranges \in Seq(RangeType) /\ frontier \in Nat \ {0}

\* The ranges of the closed form that start below x.
Begun(x) ==
    {Span(b, Lesser(b + step - 1, target)) :
        b \in {y \in first .. target : y < x /\ \E k \in Nat : y = first + k * step}}

\* Before each iteration of plan_ranges: the ranges so far are those that start
\* below `at`, they follow each other, and end right before it.
LoopPlan ==
    /\ first <= at /\ (at = first \/ at <= target + 1)
    /\ at <= target => \E k \in Nat : at = first + k * step
    /\ Loops!Planned = Begun(at)
    /\ \A i \in 1 .. Len(ranges) - 1 : ranges[i + 1].lo = ranges[i].hi + 1
    /\ Len(ranges) > 0 => ranges[Len(ranges)].hi = at - 1
    /\ Covered(Loops!Planned) = first .. (at - 1)
    /\ \A r \in Loops!Planned : first <= r.lo /\ r.lo <= r.hi /\ r.hi < at
    /\ \A r, q \in Loops!Planned : r = q \/ r.hi < q.lo \/ q.hi < r.lo

\* Before each iteration of record: what was taken out fills the blocks up to the
\* frontier, what waits lies beyond it, and `best` is of what was taken out.
LoopPrefix ==
    /\ at <= target => recorded = {}
    /\ recorded \subseteq Loops!Planned /\ waiting \subseteq recorded
    /\ \A r \in waiting : frontier <= r.lo
    /\ \A r \in recorded \ waiting : r.hi < frontier
    /\ Covered(recorded \ waiting) = first .. (frontier - 1)
    /\ first <= frontier
    /\ frontier = IF advanced_to = 0 THEN first ELSE advanced_to + 1
    /\ best = last_block(Matched, Span(first, frontier - 1))

LoopInv == LoopType /\ LoopPlan /\ LoopPrefix

LEMMA NoBlocks ==
    ASSUME NEW n \in Nat \ {0}
    PROVE  last_block(Matched, Span(n, n - 1)) = 0 /\ n .. (n - 1) = {}
<1>1. n .. (n - 1) = {}
    OBVIOUS
<1>2. BlocksOf(Span(n, n - 1)) = {}
    BY <1>1, Zenon DEF BlocksOf, Span
<1> QED BY <1>1, <1>2, Zenon DEF last_block

LEMMA LoopInit ==
    ASSUME Loops!InputsAssumption, Loops!Init
    PROVE  LoopInv
<1>1. /\ first \in Starts /\ target \in Targets /\ step \in Steps /\ at = first /\ ranges = <<>>
      /\ recorded = {} /\ frontier = first /\ waiting = {} /\ best = 0 /\ advanced_to = 0
    BY Zenon DEF Loops!Init
<1>2. LoopType
    BY <1>1 DEF LoopType, Loops!InputsAssumption
<1>3. Loops!Planned = {} /\ Covered({}) = {} /\ first .. (first - 1) = {}
    BY <1>1, <1>2, NoBlocks DEF Loops!Planned, Covered, LoopType
<1>4. \E k \in Nat : first = first + k * step
    <2>1. first = first + 0 * step
        BY <1>2 DEF LoopType
    <2> QED BY <2>1, Zenon
<1>5. Begun(at) = {}
    BY <1>1, <1>2 DEF Begun, LoopType
<1>6. LoopPlan
    <2>1. Len(ranges) = 0 /\ 1 .. Len(ranges) - 1 = {} /\ first <= at
        BY <1>1, <1>2 DEF LoopType
    <2>2. ~(Len(ranges) > 0) /\ first .. (at - 1) = {} /\ (at = first \/ at <= target + 1)
        BY <2>1, <1>1, <1>3
    <2>3. Covered(Loops!Planned) = first .. (at - 1) /\ Loops!Planned = Begun(at)
        BY <2>2, <1>3, <1>5, ZenonT(30)
    <2>4. \E k \in Nat : at = first + k * step
        BY <1>1, <1>4, Zenon
    <2> QED BY <2>1, <2>2, <2>3, <2>4, <1>3, Zenon DEF LoopPlan
<1>7. LoopPrefix
    <2>1. recorded \ waiting = {} /\ first <= frontier /\ last_block(Matched, Span(first, frontier - 1)) = 0
        BY <1>1, <1>2, NoBlocks DEF LoopType
    <2> QED BY <2>1, <1>1, <1>3, ZenonT(30) DEF LoopPrefix
<1> QED BY <1>2, <1>6, <1>7, Zenon DEF LoopInv

LEMMA LoopRanges == ASSUME LoopType PROVE Loops!Planned \subseteq RangeType
<1>1. \A i \in DOMAIN ranges : ranges[i] \in RangeType
    BY DEF LoopType
<1> QED BY <1>1, Zenon DEF Loops!Planned

LEMMA PlanKeeps ==
    ASSUME LoopInv, Loops!PlanIteration
    PROVE  LoopInv'
<1> DEFINE e == Lesser(at + step - 1, target)
           r == Span(at, e)
           P == Loops!Planned
<1>0. LoopType /\ LoopPlan /\ LoopPrefix
    BY Zenon DEF LoopInv
<1>1. /\ at <= target /\ ranges' = Append(ranges, r) /\ at' = e + 1
      /\ UNCHANGED <<first, target, step, recorded, frontier, waiting, best, advanced_to>>
    BY SameOperators, Zenon DEF Loops!PlanIteration, Loops!input, Loops!tracker
<1>2. /\ e \in Nat /\ at <= e /\ e <= target /\ e <= at + step - 1 /\ (e = target \/ e = at + step - 1)
      /\ r \in RangeType /\ r.lo = at /\ r.hi = e
    BY <1>0, <1>1 DEF LoopType, Lesser, Span, RangeType
<1> HIDE DEF e, r
<1>3. P' = P \cup {r}
    <2>1. {Append(ranges, r)[i] : i \in DOMAIN Append(ranges, r)} = {ranges[i] : i \in DOMAIN ranges} \cup {r}
        BY <1>0, <1>2, AppendValues, Zenon DEF LoopType
    <2>2. P' = {ranges'[i] : i \in DOMAIN ranges'}
        BY Zenon DEF Loops!Planned
    <2> QED BY <2>1, <2>2, <1>1, Zenon DEF Loops!Planned
<1>4. LoopType'
    BY <1>0, <1>1, <1>2 DEF LoopType
<1>5. Covered(P') = first .. e
    <2>1. Covered(P') = Covered(P) \cup BlocksOf(r)
        BY <1>3, Zenon DEF Covered
    <2>2. Covered(P) = first .. (at - 1) /\ BlocksOf(r) = at .. e /\ first <= at
        BY <1>0, <1>2, Zenon DEF LoopPlan, BlocksOf
    <2> QED BY <2>1, <2>2, <1>0, <1>2 DEF LoopType
<1>6. PICK m \in Nat : at = first + m * step
    BY <1>0, <1>1, Zenon DEF LoopPlan
<1>7. at' <= target => \E k \in Nat : at' = first + k * step
    <2> SUFFICES ASSUME at' <= target PROVE at' = first + (m + 1) * step
        BY <1>6
    <2>1. at' = at + step
        BY <1>0, <1>1, <1>2 DEF LoopType
    <2>2. (m + 1) * step = m * step + step /\ m * step \in Nat
        BY <1>0 DEF LoopType
    <2> QED BY <2>1, <2>2, <1>0, <1>6 DEF LoopType
<1>8. ASSUME NEW y \in first .. target, NEW k \in Nat, y = first + k * step, y < e + 1, ~(y < at)
      PROVE  y = at
    <2>1. step \in Nat /\ first \in Nat /\ m * step \in Nat /\ k * step \in Nat
        BY <1>0 DEF LoopType
    <2>2. CASE k = m
        BY <2>2, <1>6, <1>8, Zenon
    <2>3. CASE k < m
        BY <2>1, <2>3, <1>0, <1>6, <1>8, StepsApart DEF LoopType
    <2>4. CASE m < k
        <3>1. m * step + step <= k * step
            BY <2>1, <2>4, StepsApart, Zenon
        <3> QED BY <2>1, <3>1, <1>0, <1>2, <1>6, <1>8 DEF LoopType
    <2> QED BY <2>2, <2>3, <2>4
<1>9. P' = Begun(at)'
    <2> DEFINE B(x) == {y \in first .. target : y < x /\ \E k \in Nat : y = first + k * step}
    <2>1. B(e + 1) = B(at) \cup {at}
        <3>1. at \in first .. target /\ at < e + 1
            BY <1>0, <1>1, <1>2 DEF LoopType, LoopPlan
        <3>2. \A y \in first .. target : y < at => y < e + 1
            BY <1>0, <1>2 DEF LoopType
        <3> QED BY <3>1, <3>2, <1>6, <1>8, Zenon
    <2>2. Begun(at) = {Span(b, Lesser(b + step - 1, target)) : b \in B(at)}
        BY Zenon DEF Begun
    <2>3. Begun(at)' = {Span(b, Lesser(b + step - 1, target)) : b \in B(e + 1)}
        <3>1. Begun(at)' = {Span(b, Lesser(b + step' - 1, target')) :
                  b \in {y \in first' .. target' : y < at' /\ \E k \in Nat : y = first' + k * step'}}
            BY Zenon DEF Begun
        <3> QED BY <3>1, <1>1, Zenon
    <2> HIDE DEF B
    <2>4. Begun(at)' = Begun(at) \cup {r}
        BY <2>1, <2>2, <2>3, Zenon DEF r, e
    <2> QED BY <2>4, <1>0, <1>3, Zenon DEF LoopPlan
<1>10. /\ \A i \in 1 .. Len(ranges') - 1 : ranges'[i + 1].lo = ranges'[i].hi + 1
       /\ ranges'[Len(ranges')].hi = e
    <2> DEFINE n == Len(ranges)
    <2>1. /\ n \in Nat /\ Len(ranges') = n + 1 /\ ranges'[n + 1] = r
          /\ \A i \in 1 .. n : ranges'[i] = ranges[i]
        BY <1>0, <1>1, <1>2 DEF LoopType
    <2>2. ASSUME NEW i \in 1 .. n PROVE ranges'[i + 1].lo = ranges'[i].hi + 1
        <3>1. CASE i = n
            <4>1. ranges[n].hi = at - 1
                BY <2>1, <2>2, <1>0 DEF LoopPlan
            <4> QED BY <3>1, <4>1, <2>1, <1>0, <1>2 DEF LoopType
        <3>2. CASE i # n
            <4>1. i \in 1 .. n - 1 /\ i + 1 \in 1 .. n
                BY <3>2, <2>1
            <4>2. ranges[i + 1].lo = ranges[i].hi + 1
                BY <4>1, <1>0, Zenon DEF LoopPlan
            <4> QED BY <4>1, <4>2, <2>1, Zenon
        <3> QED BY <3>1, <3>2, Zenon
    <2> HIDE DEF n
    <2>3. Len(ranges') - 1 = n
        BY <2>1
    <2> QED BY <2>1, <2>2, <2>3, <1>2, Zenon
<1>11. /\ \A q \in P' : first <= q.lo /\ q.lo <= q.hi /\ q.hi < e + 1
       /\ \A q \in P : q.hi < r.lo
    <2>1. \A q \in P : q.lo \in Nat /\ q.hi \in Nat
        BY <1>0, LoopRanges, Zenon DEF RangeType
    <2>2. \A q \in P : first <= q.lo /\ q.lo <= q.hi /\ q.hi < at
        BY <1>0, Zenon DEF LoopPlan
    <2>3. first <= at
        BY <1>0, Zenon DEF LoopPlan
    <2> HIDE DEF P
    <2> QED BY <2>1, <2>2, <2>3, <1>0, <1>2, <1>3 DEF LoopType
<1>12. \A p, q \in P' : p = q \/ p.hi < q.lo \/ q.hi < p.lo
    <2>1. \A p, q \in P : p = q \/ p.hi < q.lo \/ q.hi < p.lo
        BY <1>0, Zenon DEF LoopPlan
    <2> HIDE DEF P
    <2> QED BY <2>1, <1>3, <1>11, Zenon
<1>13. LoopPlan'
    <2>1. first <= e + 1 /\ e + 1 <= target + 1 /\ e + 1 - 1 = e
        BY <1>0, <1>2 DEF LoopType, LoopPlan
    <2>2. at' = e + 1 /\ at' - 1 = e /\ first' = first /\ target' = target /\ step' = step
        BY <2>1, <1>1, <1>2
    <2>3. Covered(P)' = first' .. (at' - 1)
        BY <2>2, <1>5, Zenon
    <2> QED BY <2>1, <2>2, <2>3, <1>7, <1>9, <1>10, <1>11, <1>12, Zenon DEF LoopPlan
<1>14. LoopPrefix'
    <2>1. recorded = {} /\ waiting = {}
        BY <1>0, <1>1, Zenon DEF LoopPrefix
    <2> QED BY <2>1, <1>0, <1>1, Zenon DEF LoopPrefix
<1> QED BY <1>4, <1>13, <1>14, Zenon DEF LoopInv

LEMMA PlanStays ==
    ASSUME LoopPlan, UNCHANGED <<first, target, step, at, ranges>>
    PROVE  LoopPlan' /\ Loops!Planned' = Loops!Planned
<1>1. first' = first /\ target' = target /\ step' = step /\ at' = at /\ ranges' = ranges
    BY Zenon
<1>2. Loops!Planned' = Loops!Planned /\ Begun(at)' = Begun(at)
    BY <1>1, Zenon DEF Loops!Planned, Begun
<1> QED BY <1>1, <1>2, Zenon DEF LoopPlan

\* A range that is recorded for the first time lies beyond the frontier.
LEMMA InsertKeeps ==
    ASSUME LoopInv, Loops!RecordInsert
    PROVE  LoopInv'
<1>0. LoopType /\ LoopPlan /\ LoopPrefix
    BY Zenon DEF LoopInv
<1>1. PICK r \in Loops!Planned \ recorded : recorded' = recorded \cup {r} /\ waiting' = waiting \cup {r}
    BY Zenon DEF Loops!RecordInsert
<1>2. at > target /\ UNCHANGED <<first, target, step, at, ranges, frontier, best, advanced_to>>
    BY Zenon DEF Loops!RecordInsert, Loops!input
<1>3. LoopType' /\ LoopPlan' /\ Loops!Planned' = Loops!Planned
    BY <1>0, <1>2, PlanStays, Zenon DEF LoopType
<1>4. recorded' \ waiting' = recorded \ waiting
    BY <1>0, <1>1, Zenon DEF LoopPrefix
<1>5. r \in RangeType /\ r.lo \in Nat /\ r.hi \in Nat /\ first <= r.lo /\ r.lo <= r.hi
    BY <1>0, LoopRanges, Zenon DEF LoopPlan, RangeType
<1>6. frontier <= r.lo
    <2> SUFFICES ASSUME r.lo < frontier PROVE FALSE
        BY <1>0, <1>5 DEF LoopType
    <2>1. r.lo \in first .. (frontier - 1)
        BY <1>0, <1>5 DEF LoopType
    <2>2. PICK q \in recorded \ waiting : r.lo \in q.lo .. q.hi
        BY <2>1, <1>0, Zenon DEF LoopPrefix, Covered, BlocksOf
    <2>3. q \in Loops!Planned /\ q.lo \in Nat /\ q.hi \in Nat
        BY <1>0, LoopRanges, Zenon DEF LoopPrefix, RangeType
    <2>4. r = q
        BY <2>2, <2>3, <1>0, <1>5 DEF LoopPlan
    <2> QED BY <2>4, <1>1, Zenon
<1>7. LoopPrefix'
    <2>1. ~(at <= target)
        BY <1>0, <1>2 DEF LoopType
    <2>2. recorded' \subseteq Loops!Planned /\ waiting' \subseteq recorded'
        BY <1>0, <1>1, Zenon DEF LoopPrefix
    <2>3. \A q \in waiting' : frontier <= q.lo
        BY <1>0, <1>1, <1>6, Zenon DEF LoopPrefix
    <2>4. Covered(recorded \ waiting)' = Covered(recorded \ waiting)
        BY <1>4, Zenon
    <2> QED BY <2>1, <2>2, <2>3, <2>4, <1>0, <1>2, <1>3, <1>4, Zenon DEF LoopPrefix
<1> QED BY <1>3, <1>7, Zenon DEF LoopInv

\* The hash of the prefix is that of the range just taken out, if that has one.
LEMMA BestOfPrefix ==
    ASSUME NEW lo \in Nat \ {0}, NEW mid \in Nat, NEW hi \in Nat, lo <= mid, mid <= hi,
           NEW h, h = last_block(Matched, Span(mid, hi)),
           NEW b, b = last_block(Matched, Span(lo, mid - 1))
    PROVE  last_block(Matched, Span(lo, hi)) = IF h # 0 /\ h >= b THEN h ELSE b
<1> DEFINE all == Span(lo, hi)
           low == Span(lo, mid - 1)
           high == Span(mid, hi)
           x == last_block(Matched, all)
<1>0. /\ all \in RangeType /\ low \in RangeType /\ high \in RangeType
      /\ BlocksOf(all) = lo .. hi /\ BlocksOf(low) = lo .. (mid - 1) /\ BlocksOf(high) = mid .. hi
    BY DEF Span, RangeType, BlocksOf
<1> HIDE DEF all, low, high
<1>1. /\ x \in Nat /\ (x # 0 => x \in Matched /\ x \in lo .. hi)
      /\ \A y \in Matched : y \in lo .. hi => y <= x
    BY <1>0, LastBlockType, LastBlockHighest, Zenon
<1>2. /\ h \in Nat /\ (h # 0 => h \in Matched /\ h \in mid .. hi)
      /\ \A y \in Matched : y \in mid .. hi => y <= h
    BY <1>0, LastBlockType, LastBlockHighest, Zenon DEF high
<1>3. /\ b \in Nat /\ (b # 0 => b \in Matched /\ b \in lo .. (mid - 1))
      /\ \A y \in Matched : y \in lo .. (mid - 1) => y <= b
    BY <1>0, LastBlockType, LastBlockHighest, Zenon DEF low
<1> HIDE DEF x
<1>4. CASE h # 0
    <2>1. h >= b /\ h \in lo .. hi
        BY <1>2, <1>3, <1>4
    <2>2. h <= x /\ x # 0
        BY <2>1, <1>1, <1>2, <1>4
    <2>3. x \in mid .. hi
        BY <2>2, <1>1, <1>2, <1>4
    <2>4. x <= h
        BY <2>2, <2>3, <1>1, <1>2, Zenon
    <2>5. x = h
        BY <2>2, <2>4, <1>1, <1>2
    <2> QED BY <2>1, <2>5, <1>4, Zenon DEF x, all
<1>5. CASE h = 0
    <2>1. x = b
        <3>1. CASE x = 0
            BY <3>1, <1>1, <1>3
        <3>2. CASE x # 0
            <4>1. x \in Matched /\ x \notin mid .. hi /\ x \in lo .. hi
                BY <3>2, <1>1, <1>2, <1>5
            <4>2. x <= b
                BY <4>1, <1>3
            <4>3. b <= x
                BY <4>2, <3>2, <1>1, <1>3
            <4> QED BY <4>2, <4>3, <1>1, <1>3
        <3> QED BY <3>1, <3>2, Zenon
    <2> QED BY <2>1, <1>5, Zenon DEF x, all
<1> QED BY <1>4, <1>5, Zenon

LEMMA IterationKeeps ==
    ASSUME LoopInv, Loops!RecordIteration
    PROVE  LoopInv'
<1>0. LoopType /\ LoopPlan /\ LoopPrefix
    BY Zenon DEF LoopInv
<1>1. PICK r \in waiting :
          /\ r.lo = frontier /\ waiting' = waiting \ {r} /\ frontier' = r.hi + 1 /\ advanced_to' = r.hi
          /\ best' = LET h == last_block(Matched, r) IN IF h # 0 /\ h >= best THEN h ELSE best
    BY SameOperators, Zenon DEF Loops!RecordIteration
<1>2. UNCHANGED <<first, target, step, at, ranges, recorded>>
    BY Zenon DEF Loops!RecordIteration, Loops!input
<1>3. Loops!Planned' = Loops!Planned /\ LoopPlan'
    BY <1>0, <1>2, PlanStays, Zenon
<1>4. \A q \in Loops!Planned : q.lo \in Nat /\ q.hi \in Nat /\ q.lo <= q.hi
    BY <1>0, LoopRanges, Zenon DEF LoopPlan, RangeType
<1>5. r \in recorded /\ r \in Loops!Planned /\ r \in RangeType /\ r.hi \in Nat /\ frontier <= r.hi
    BY <1>0, <1>1, <1>4, LoopRanges, Zenon DEF LoopPrefix
<1>6. LoopType'
    BY <1>0, <1>1, <1>2, <1>5 DEF LoopType
<1>7. recorded' \ waiting' = (recorded \ waiting) \cup {r}
    BY <1>1, <1>2, <1>5, Zenon
<1>8. Covered(recorded' \ waiting') = first .. r.hi
    <2>1. Covered(recorded' \ waiting') = Covered(recorded \ waiting) \cup (r.lo .. r.hi)
        BY <1>7, Zenon DEF Covered, BlocksOf
    <2>2. Covered(recorded \ waiting) = first .. (frontier - 1) /\ first <= frontier
        BY <1>0, Zenon DEF LoopPrefix
    <2>3. (first .. (frontier - 1)) \cup (frontier .. r.hi) = first .. r.hi
        BY <2>2, <1>0, <1>5 DEF LoopType
    <2> QED BY <2>1, <2>2, <2>3, <1>1, ZenonT(30)
<1>9. ASSUME NEW q \in waiting' PROVE r.hi + 1 <= q.lo
    <2>1. q \in waiting /\ q # r /\ q \in Loops!Planned /\ frontier <= q.lo
        BY <1>0, <1>1, Zenon DEF LoopPrefix
    <2>2. r.hi < q.lo \/ q.hi < r.lo
        BY <2>1, <1>0, <1>5, Zenon DEF LoopPlan
    <2> QED BY <2>1, <2>2, <1>0, <1>1, <1>4, <1>5 DEF LoopType
<1>10. ASSUME NEW q \in recorded' \ waiting' PROVE q.hi < r.hi + 1
    <2>1. CASE q = r
        BY <2>1, <1>5
    <2>2. CASE q \in recorded \ waiting
        <3>1. q.hi < frontier /\ q.hi \in Nat
            BY <2>2, <1>0, <1>4, Zenon DEF LoopPrefix
        <3> QED BY <3>1, <1>0, <1>5 DEF LoopType
    <2> QED BY <2>1, <2>2, <1>7, Zenon
<1>11. best' = last_block(Matched, Span(first, r.hi))
    <2>1. r = Span(frontier, r.hi)
        BY <1>1, <1>5, Zenon DEF Span, RangeType
    <2>2. best = last_block(Matched, Span(first, frontier - 1)) /\ first <= frontier
        BY <1>0, Zenon DEF LoopPrefix
    <2>3. last_block(Matched, r) = last_block(Matched, Span(frontier, r.hi))
        BY <2>1, Zenon
    <2> DEFINE h == last_block(Matched, r)
    <2>4. first \in Nat \ {0} /\ frontier \in Nat
        BY <1>0, Zenon DEF LoopType
    <2>5. best' = IF h # 0 /\ h >= best THEN h ELSE best
        BY <1>1, Zenon
    <2> HIDE DEF h
    <2>6. h = last_block(Matched, Span(frontier, r.hi))
        BY <2>3, Zenon DEF h
    <2>7. last_block(Matched, Span(first, r.hi)) = IF h # 0 /\ h >= best THEN h ELSE best
        BY <2>2, <2>4, <2>6, <1>5, BestOfPrefix
    <2> QED BY <2>5, <2>7, Zenon
<1>12. r.hi # 0 /\ first <= r.hi + 1 /\ r.hi + 1 - 1 = r.hi
    BY <1>0, <1>5 DEF LoopType, LoopPrefix
<1>13. LoopPrefix'
    <2>1. /\ frontier' = r.hi + 1 /\ frontier' - 1 = r.hi /\ first' = first /\ first' <= frontier'
          /\ frontier' = IF advanced_to' = 0 THEN first' ELSE advanced_to' + 1
        BY <1>1, <1>2, <1>5, <1>12
    <2>2. at' <= target' => recorded' = {}
        BY <1>0, <1>2, Zenon DEF LoopPrefix
    <2>3. recorded' \subseteq Loops!Planned' /\ waiting' \subseteq recorded'
        BY <1>0, <1>1, <1>2, <1>3, Zenon DEF LoopPrefix
    <2> QED BY <2>1, <2>2, <2>3, <1>8, <1>9, <1>10, <1>11, Zenon DEF LoopPrefix
<1> QED BY <1>3, <1>6, <1>13, Zenon DEF LoopInv

LEMMA LoopInductive == LoopInv /\ [Loops!Next]_(Loops!vars) => LoopInv'
<1> SUFFICES ASSUME LoopInv, [Loops!Next]_(Loops!vars) PROVE LoopInv'
    BY Zenon
<1>1. CASE UNCHANGED Loops!vars
    <2>1. UNCHANGED <<first, target, step, at, ranges, recorded, frontier, waiting, best, advanced_to>>
        BY <1>1, Zenon DEF Loops!vars, Loops!input, Loops!tracker
    <2>2. LoopType' /\ LoopPlan' /\ LoopPrefix'
        BY <2>1, PlanStays, Zenon DEF LoopInv, LoopType, LoopPrefix
    <2> QED BY <2>2, Zenon DEF LoopInv
<1> QED BY <1>1, PlanKeeps, InsertKeeps, IterationKeeps, Zenon DEF Loops!Next

\* The while of plan_ranges, for any window and step: its ranges are those of the
\* closed form, in order, and they partition the window.
THEOREM PlanLoop ==
    ASSUME Loops!InputsAssumption
    PROVE  Loops!Spec => []Loops!PlanAgrees
<1>1. ASSUME LoopInv PROVE Loops!PlanAgrees
    <2> SUFFICES ASSUME at > target
                 PROVE  /\ Loops!Planned = plan_ranges(first, target, step)
                        /\ \A i \in 1 .. Len(ranges) - 1 : ranges[i + 1].lo = ranges[i].hi + 1
                        /\ Covered(Loops!Planned) = first .. target
        BY SameOperators, ZenonT(30) DEF Loops!PlanAgrees
    <2>0. LoopType /\ LoopPlan
        BY <1>1, Zenon DEF LoopInv
    <2>1. first .. (at - 1) = first .. target
        <3>1. at = target + 1 \/ (at = first /\ first > target)
            BY <2>0 DEF LoopType, LoopPlan
        <3> QED BY <3>1, <2>0 DEF LoopType
    <2>2. ASSUME NEW y \in first .. target
          PROVE  (y < at /\ \E k \in Nat : y = first + k * step)
                 <=> (\E k \in 0 .. (target - first) : y = first + k * step)
        <3>1. y < at
            BY <2>0 DEF LoopType
        <3>2. ASSUME NEW k \in Nat, y = first + k * step PROVE k \in 0 .. (target - first)
            <4>1. k * step \in Nat /\ k <= k * step
                BY <2>0 DEF LoopType
            <4> QED BY <4>1, <3>2, <2>0 DEF LoopType
        <3>3. \A k \in 0 .. (target - first) : k \in Nat
            OBVIOUS
        <3> QED BY <3>1, <3>2, <3>3, Zenon
    <2>3. Begun(at) = plan_ranges(first, target, step)
        <3>1. {y \in first .. target : y < at /\ \E k \in Nat : y = first + k * step}
              = {y \in first .. target : \E k \in 0 .. (target - first) : y = first + k * step}
            BY <2>2, Zenon
        <3> QED BY <3>1, Zenon DEF Begun, plan_ranges
    <2> QED BY <2>0, <2>1, <2>3, Zenon DEF LoopPlan
<1> QED BY LoopInit, LoopInductive, <1>1, PTL DEF Loops!Spec

\* PrefixTracker::record, for any ranges that plan_ranges makes and any order of
\* them: when it returns, the frontier is the one end of the contiguous prefix, what
\* waits is what lies behind a gap, and the hash is of the prefix.
THEOREM PrefixLoop ==
    ASSUME Loops!InputsAssumption
    PROVE  Loops!Spec => []Loops!PrefixAgrees
<1>1. ASSUME LoopInv PROVE Loops!PrefixAgrees
    <2> SUFFICES ASSUME at > target, \A r \in waiting : r.lo # frontier
                 PROVE  /\ PrefixEnds(recorded, first) = {frontier}
                        /\ waiting = recorded \ Absorbed(recorded, frontier)
                        /\ frontier = IF advanced_to = 0 THEN first ELSE advanced_to + 1
                        /\ best = last_block(Matched, Span(first, frontier - 1))
        BY SameOperators, Zenon DEF Loops!PrefixAgrees, Loops!RecordDone
    <2>0. LoopType /\ LoopPlan /\ LoopPrefix /\ first \in Nat /\ frontier \in Nat /\ first <= frontier
        BY <1>1, Zenon DEF LoopInv, LoopType, LoopPrefix
    <2>1. \A q \in recorded : /\ q \in Loops!Planned /\ q.lo \in Nat /\ q.hi \in Nat
                              /\ first <= q.lo /\ q.lo <= q.hi
        BY <2>0, LoopRanges, Zenon DEF LoopPlan, LoopPrefix, RangeType
    <2>2. \A q \in recorded \ waiting : q.lo < frontier /\ q.hi < frontier
        BY <2>0, <2>1 DEF LoopPrefix
    <2>3. \A q \in waiting : q \in recorded /\ ~(q.lo < frontier) /\ q.lo # frontier
        BY <2>0, <2>1 DEF LoopPrefix
    <2>4. waiting = recorded \ Absorbed(recorded, frontier)
        BY <2>2, <2>3, Zenon DEF Absorbed
    <2>5. \A b \in first .. (frontier - 1) : \E q \in recorded \ waiting : b \in q.lo .. q.hi
        BY <2>0, Zenon DEF LoopPrefix, Covered, BlocksOf
    <2>6. \A q \in recorded : q.lo # frontier
        BY <2>0, <2>1, <2>2, <2>3
    <2>7. frontier \in PrefixEnds(recorded, first)
        <3>1. first .. (frontier - 1) \subseteq Covered(recorded)
            BY <2>5, Zenon DEF Covered, BlocksOf
        <3>2. frontier \in {first} \cup {q.hi + 1 : q \in recorded}
            <4>1. CASE frontier = first
                BY <4>1, Zenon
            <4>2. CASE frontier # first
                <5>1. PICK q \in recorded \ waiting : frontier - 1 \in q.lo .. q.hi
                    BY <4>2, <2>0, <2>5
                <5>2. frontier = q.hi + 1
                    BY <5>1, <2>0, <2>1, <2>2
                <5> QED BY <5>2, Zenon
            <4> QED BY <4>1, <4>2, Zenon
        <3> QED BY <3>1, <3>2, <2>0, <2>6, Zenon DEF PrefixEnds
    <2>8. ASSUME NEW g \in PrefixEnds(recorded, first) PROVE g = frontier
        <3>1. /\ g = first \/ \E q \in recorded : g = q.hi + 1
              /\ g >= first /\ first .. (g - 1) \subseteq Covered(recorded)
              /\ \A q \in recorded : q.lo # g
            BY Zenon DEF PrefixEnds
        <3>2. g \in Nat
            BY <3>1, <2>0, <2>1
        <3>3. CASE g < frontier
            <4>1. PICK q \in recorded \ waiting : g \in q.lo .. q.hi
                BY <3>1, <3>2, <3>3, <2>0, <2>5
            <4>2. q.lo < g /\ g <= q.hi
                BY <4>1, <3>1, <3>2, <2>1
            <4>3. PICK p \in recorded : g = p.hi + 1
                BY <4>2, <3>1, <2>0, <2>1
            <4>4. p = q
                BY <4>1, <4>2, <4>3, <2>0, <2>1 DEF LoopPlan
            <4> QED BY <4>2, <4>3, <4>4, <2>1
        <3>4. CASE frontier < g
            <4>1. PICK q \in recorded : frontier \in q.lo .. q.hi
                BY <3>1, <3>2, <3>4, <2>0 DEF Covered, BlocksOf
            <4>2. q.lo < frontier
                BY <4>1, <2>0, <2>1, <2>6
            <4>3. q \in recorded \ waiting
                BY <4>2, <2>3, Zenon
            <4> QED BY <4>1, <4>3, <2>0, <2>1, <2>2
        <3> QED BY <3>2, <3>3, <3>4, <2>0
    <2>9. PrefixEnds(recorded, first) = {frontier}
        BY <2>7, <2>8, Zenon
    <2> QED BY <2>4, <2>9, <2>0, Zenon DEF LoopPrefix
<1> QED BY LoopInit, LoopInductive, <1>1, PTL DEF Loops!Spec

=============================================================================
