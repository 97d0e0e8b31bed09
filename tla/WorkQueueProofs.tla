--------------------------- MODULE WorkQueueProofs ---------------------------
(***************************************************************************)
(* For any chains, ranges, workers, decoders and bounds: the type          *)
(* invariant of the queue, LeaseExclusive and AtLeastOnce, and that the    *)
(* queue implements Leasing.                                               *)
(***************************************************************************)
EXTENDS WorkQueue, TLAPS

\* A pull that has not committed keeps its row unleased and to itself.
PullInv ==
    /\ \A w \in Workers : pc[w] = "pulling" =>
          /\ lease[w].id \in DOMAIN work_queue
          /\ work_queue[lease[w].id].locked_at = "null"
    /\ \A v, w \in Workers :
          (v # w /\ pc[v] = "pulling" /\ pc[w] = "pulling") => lease[v].id # lease[w].id

\* lease_seq only grows past the leases handed out under it, and a lease that
\* has not been overtaken belongs to a leased row.
FenceInv ==
    /\ \A w \in Workers : Working(w) =>
          /\ lease[w].id \in DOMAIN pushed
          /\ lease[w].id \in DOMAIN work_queue =>
                /\ lease[w].seq <= work_queue[lease[w].id].lease_seq
                /\ lease[w].seq = work_queue[lease[w].id].lease_seq =>
                      work_queue[lease[w].id].locked_at # "null"
    /\ \A v, w \in Workers :
          (v # w /\ Working(v) /\ Working(w)) => lease[v] # lease[w]

\* A worker about to ack has decoded its item, or has no decoder for it.
AckInv ==
    \A w \in Workers : pc[w] = "acking" =>
        lease[w].id \in decoded \/ pushed[lease[w].id] \notin Decoders[w]

IInv == TypeOK /\ PullInv /\ FenceInv /\ AckInv /\ AtLeastOnce

-----------------------------------------------------------------------------
\* An empty table satisfies the inductive invariant.
LEMMA InitInv == Init => IInv
BY BoundsAssumption
   DEF Init, IInv, TypeOK, PullInv, FenceInv, AckInv, AtLeastOnce, Working, NoLease, Row

\* Push preserves the inductive invariant.
LEMMA PushPreserves ==
    ASSUME IInv, NEW c \in Chains, NEW r \in Ranges, Push(c, r)
    PROVE  IInv'
<1> USE BoundsAssumption, DecodersAssumption DEF IInv
<1>1. TypeOK'
    BY DEF Push, TypeOK, Row
<1>2. PullInv'
    BY DEF Push, TypeOK, Row, PullInv
<1>3. FenceInv'
    BY DEF Push, TypeOK, Row, PullInv, FenceInv, Working
<1>4. AckInv'
    BY DEF Push, TypeOK, Row, FenceInv, AckInv, Working
<1>5. AtLeastOnce'
    BY DEF Push, TypeOK, Row, AckInv, AtLeastOnce
<1> QED BY <1>1, <1>2, <1>3, <1>4, <1>5, Zenon

\* PullLock preserves the inductive invariant.
LEMMA PullLockPreserves ==
    ASSUME IInv, NEW w \in Workers, PullLock(w)
    PROVE  IInv'
<1> USE BoundsAssumption, DecodersAssumption DEF IInv
<1>1. TypeOK'
    BY DEF PullLock, Ready, InFlight, RowLocked, TypeOK, Row
<1>2. PullInv'
    BY DEF PullLock, Ready, InFlight, RowLocked, TypeOK, Row, PullInv
<1>3. FenceInv'
    BY DEF PullLock, Ready, InFlight, RowLocked, TypeOK, Row, PullInv, FenceInv, Working
<1>4. AckInv'
    BY Zenon DEF PullLock, Ready, InFlight, RowLocked, TypeOK, Row, FenceInv, AckInv, Working
<1>5. AtLeastOnce'
    BY Zenon DEF PullLock, Ready, InFlight, RowLocked, TypeOK, Row, AckInv, AtLeastOnce
<1> QED BY <1>1, <1>2, <1>3, <1>4, <1>5, Zenon

\* PullCommit preserves the inductive invariant.
LEMMA PullCommitPreserves ==
    ASSUME IInv, NEW w \in Workers, PullCommit(w)
    PROVE  IInv'
<1> USE BoundsAssumption, DecodersAssumption DEF IInv
<1>1. TypeOK'
    <2> DEFINE id == lease[w].id
               row == work_queue[id]
    <2>1. id \in DOMAIN work_queue /\ row \in Row
        BY Zenon DEF PullCommit, PullInv, TypeOK
    <2>2. [row EXCEPT !.locked_at = "fresh", !.lease_seq = row.lease_seq + 1] \in Row
        <3>1. row.lease_seq + 1 \in Nat
            BY <2>1 DEF Row
        <3> QED BY <2>1, <3>1, Zenon DEF Row
    <2>3. work_queue' \in [DOMAIN work_queue -> Row]
        BY <2>1, <2>2, Zenon DEF PullCommit, TypeOK
    <2>4. lease' \in [Workers -> [id : Nat, seq : Nat]]
        BY <2>1 DEF PullCommit, TypeOK, Row
    <2> QED BY <2>3, <2>4, Zenon DEF PullCommit, TypeOK
<1>2. PullInv'
    BY Zenon DEF PullCommit, TypeOK, Row, PullInv
<1>3. FenceInv'
    BY DEF PullCommit, TypeOK, Row, PullInv, FenceInv, Working
<1>4. AckInv'
    BY Zenon DEF PullCommit, TypeOK, Row, FenceInv, AckInv, Working
<1>5. AtLeastOnce'
    BY Zenon DEF PullCommit, TypeOK, Row, AckInv, AtLeastOnce
<1> QED BY <1>1, <1>2, <1>3, <1>4, <1>5, Zenon

\* DecodeOk preserves the inductive invariant.
LEMMA DecodeOkPreserves ==
    ASSUME IInv, NEW w \in Workers, DecodeOk(w)
    PROVE  IInv'
<1> USE BoundsAssumption, DecodersAssumption DEF IInv
<1>1. TypeOK'
    BY Zenon DEF DecodeOk, TypeOK, Row, FenceInv, Working
<1>2. PullInv'
    BY Zenon DEF DecodeOk, TypeOK, Row, PullInv
<1>3. FenceInv'
    BY DEF DecodeOk, TypeOK, Row, PullInv, FenceInv, Working
<1>4. AckInv'
    BY Zenon DEF DecodeOk, TypeOK, Row, FenceInv, AckInv, Working
<1>5. AtLeastOnce'
    BY Zenon DEF DecodeOk, TypeOK, Row, AckInv, AtLeastOnce
<1> QED BY <1>1, <1>2, <1>3, <1>4, <1>5, Zenon

\* SkipDecode preserves the inductive invariant.
LEMMA SkipDecodePreserves ==
    ASSUME IInv, NEW w \in Workers, SkipDecode(w)
    PROVE  IInv'
<1> USE BoundsAssumption, DecodersAssumption DEF IInv
<1>1. TypeOK'
    BY Zenon DEF SkipDecode, TypeOK, Row
<1>2. PullInv'
    BY Zenon DEF SkipDecode, TypeOK, Row, PullInv
<1>3. FenceInv'
    BY DEF SkipDecode, TypeOK, Row, PullInv, FenceInv, Working
<1>4. AckInv'
    BY Zenon DEF SkipDecode, TypeOK, Row, FenceInv, AckInv, Working
<1>5. AtLeastOnce'
    BY Zenon DEF SkipDecode, TypeOK, Row, AckInv, AtLeastOnce
<1> QED BY <1>1, <1>2, <1>3, <1>4, <1>5, Zenon

\* Ack preserves the inductive invariant.
LEMMA AckPreserves ==
    ASSUME IInv, NEW w \in Workers, Ack(w)
    PROVE  IInv'
<1> USE BoundsAssumption, DecodersAssumption DEF IInv
<1>1. TypeOK'
    BY Zenon DEF Ack, RowLocked, NoLease, TypeOK, Row
<1>2. PullInv'
    BY Zenon DEF Ack, RowLocked, NoLease, TypeOK, Row, PullInv
<1>3. FenceInv'
    BY Zenon DEF Ack, RowLocked, NoLease, TypeOK, Row, PullInv, FenceInv, Working
<1>4. AckInv'
    BY Zenon DEF Ack, RowLocked, NoLease, TypeOK, Row, FenceInv, AckInv, Working
<1>5. AtLeastOnce'
    BY Zenon DEF Ack, RowLocked, NoLease, TypeOK, Row, AckInv, AtLeastOnce
<1> QED BY <1>1, <1>2, <1>3, <1>4, <1>5, Zenon

\* RunOnceErr preserves the inductive invariant.
LEMMA RunOnceErrPreserves ==
    ASSUME IInv, NEW w \in Workers, RunOnceErr(w)
    PROVE  IInv'
<1> USE BoundsAssumption, DecodersAssumption DEF IInv
<1>1. TypeOK'
    BY DEF RunOnceErr, NoLease, TypeOK, Row
<1>2. PullInv'
    BY Zenon DEF RunOnceErr, NoLease, TypeOK, Row, PullInv
<1>3. FenceInv'
    BY Zenon DEF RunOnceErr, NoLease, TypeOK, Row, PullInv, FenceInv, Working
<1>4. AckInv'
    BY Zenon DEF RunOnceErr, NoLease, TypeOK, Row, FenceInv, AckInv, Working
<1>5. AtLeastOnce'
    BY Zenon DEF RunOnceErr, NoLease, TypeOK, Row, AckInv, AtLeastOnce
<1> QED BY <1>1, <1>2, <1>3, <1>4, <1>5, Zenon

\* LeaseExpires preserves the inductive invariant.
LEMMA LeaseExpiresPreserves ==
    ASSUME IInv, NEW i \in DOMAIN work_queue, LeaseExpires(i)
    PROVE  IInv'
<1> USE BoundsAssumption, DecodersAssumption DEF IInv
<1>1. TypeOK'
    BY DEF LeaseExpires, InFlight, TypeOK, Row
<1>2. PullInv'
    BY Zenon DEF LeaseExpires, InFlight, TypeOK, Row, PullInv
<1>3. FenceInv'
    BY DEF LeaseExpires, InFlight, TypeOK, Row, PullInv, FenceInv, Working
<1>4. AckInv'
    BY Zenon DEF LeaseExpires, InFlight, TypeOK, Row, FenceInv, AckInv, Working
<1>5. AtLeastOnce'
    BY Zenon DEF LeaseExpires, InFlight, TypeOK, Row, AckInv, AtLeastOnce
<1> QED BY <1>1, <1>2, <1>3, <1>4, <1>5, Zenon

\* What reclaim_expired does to one row.
LEMMA ReclaimRow ==
    ASSUME TypeOK, Reclaim, NEW id \in DOMAIN work_queue
    PROVE  /\ DOMAIN work_queue' = DOMAIN work_queue
           /\ work_queue'[id] \in Row
           /\ work_queue[id].locked_at = "expired" =>
                 work_queue'[id].lease_seq = work_queue[id].lease_seq + 1
           /\ work_queue[id].locked_at # "expired" => work_queue'[id] = work_queue[id]
<1>1. work_queue[id] \in Row /\ DOMAIN work_queue' = DOMAIN work_queue
    BY ZenonT(30) DEF TypeOK, Reclaim
<1>2. work_queue'[id] = IF work_queue[id].locked_at = "expired"
        THEN [work_queue[id] EXCEPT !.locked_at = "null", !.lease_seq = @ + 1]
        ELSE work_queue[id]
    BY ZenonT(30) DEF Reclaim
<1>3. CASE work_queue[id].locked_at = "expired"
    <2>1. work_queue[id].lease_seq + 1 \in Nat
        BY <1>1 DEF Row
    <2>2. work_queue'[id] = [work_queue[id] EXCEPT
              !.locked_at = "null", !.lease_seq = work_queue[id].lease_seq + 1]
        BY <1>2, <1>3, Zenon
    <2>3. work_queue'[id] \in Row
        BY <1>1, <2>1, <2>2, Zenon DEF Row
    <2>4. work_queue'[id].lease_seq = work_queue[id].lease_seq + 1
        BY <1>1, <2>1, <2>2, Zenon DEF Row
    <2> QED BY <1>1, <1>3, <2>3, <2>4, Zenon
<1>4. CASE work_queue[id].locked_at # "expired"
    BY <1>1, <1>2, <1>4, Zenon
<1> QED BY <1>3, <1>4, Zenon

\* Reclaim preserves the inductive invariant.
LEMMA ReclaimPreserves ==
    ASSUME IInv, Reclaim
    PROVE  IInv'
<1> USE BoundsAssumption, DecodersAssumption DEF IInv
<1>1. DOMAIN work_queue' = DOMAIN work_queue
    BY ZenonT(30) DEF Reclaim
<1>2. TypeOK'
    <2>1. work_queue' \in [DOMAIN work_queue' -> Row]
        BY <1>1, ReclaimRow, ZenonT(30) DEF Reclaim
    <2> QED BY <1>1, <2>1, ZenonT(30) DEF Reclaim, TypeOK
<1>3. PullInv'
    <2>1. ASSUME NEW w \in Workers, pc[w] = "pulling"
          PROVE  work_queue'[lease[w].id] = work_queue[lease[w].id]
        BY ReclaimRow, <2>1, Zenon DEF PullInv
    <2> QED BY <1>1, <2>1, ZenonT(30) DEF Reclaim, PullInv
<1>4. FenceInv'
    <2>1. ASSUME NEW w \in Workers, Working(w), lease[w].id \in DOMAIN work_queue
          PROVE  /\ lease[w].seq <= work_queue'[lease[w].id].lease_seq
                 /\ lease[w].seq = work_queue'[lease[w].id].lease_seq =>
                       work_queue'[lease[w].id].locked_at # "null"
        <3> DEFINE id == lease[w].id
        <3>1. /\ lease[w].seq \in Nat
              /\ work_queue[id].lease_seq \in Nat
              /\ lease[w].seq <= work_queue[id].lease_seq
            BY <2>1, Zenon DEF TypeOK, Row, FenceInv
        <3>2. CASE work_queue[id].locked_at = "expired"
            BY ReclaimRow, <2>1, <3>1, <3>2
        <3>3. CASE work_queue[id].locked_at # "expired"
            BY ReclaimRow, <2>1, <3>3, Zenon DEF FenceInv
        <3> QED BY <3>2, <3>3, Zenon
    <2> QED BY <1>1, <2>1, ZenonT(30) DEF Reclaim, FenceInv, Working
<1>5. AckInv'
    BY ZenonT(30) DEF Reclaim, AckInv
<1>6. AtLeastOnce'
    BY <1>1, ZenonT(30) DEF Reclaim, AtLeastOnce
<1> QED BY <1>2, <1>3, <1>4, <1>5, <1>6, Zenon

\* Every step preserves the inductive invariant.
LEMMA NextPreserves == IInv /\ [Next]_vars => IInv'
<1> SUFFICES ASSUME IInv, [Next]_vars
             PROVE  IInv'
    BY Zenon
<1>1. ASSUME NEW w \in Workers, WorkerStep(w)
      PROVE  IInv'
    BY <1>1, PullLockPreserves, PullCommitPreserves, DecodeOkPreserves,
       SkipDecodePreserves, AckPreserves, Zenon DEF WorkerStep
<1>2. CASE UNCHANGED vars
    BY <1>2, Zenon DEF vars, IInv, TypeOK, PullInv, FenceInv, AckInv, AtLeastOnce, Working
<1> QED
    BY <1>1, <1>2, PushPreserves, RunOnceErrPreserves, LeaseExpiresPreserves,
       ReclaimPreserves, Zenon DEF Next

-----------------------------------------------------------------------------
\* The inductive invariant holds of every reachable state of the queue.
THEOREM Invariance == Spec => []IInv
BY InitInv, NextPreserves, PTL DEF Spec

\* The variables keep their types: ids below the sequence, rows only of
\* inserted ids (push_in_tx, pull_any, ack, reclaim_expired).
THEOREM TypeCorrect == Spec => []TypeOK
<1>1. IInv => TypeOK
    BY Zenon DEF IInv
<1> QED BY Invariance, <1>1, PTL

\* Fencing by lease_seq: at any moment at most one worker can ack a row, and
\* the row it can ack is not up for another pull_any.
THEOREM Fencing == Spec => []LeaseExclusive
<1>1. IInv => LeaseExclusive
    BY DEF IInv, TypeOK, PullInv, FenceInv, LeaseExclusive, HoldsCurrent, Working,
           RowLocked, InFlight
<1> QED BY Invariance, <1>1, PTL

\* At-least-once decoding: run_once acks only what it decoded, and neither
\* reclaim_expired nor a late ack removes a row that was never decoded.
THEOREM Delivery == Spec => []AtLeastOnce
<1>1. IInv => AtLeastOnce
    BY Zenon DEF IInv
<1> QED BY Invariance, <1>1, PTL

-----------------------------------------------------------------------------
(* The queue implements Leasing.  Item and Held are the substitutions of    *)
(* the refinement mapping.                                                 *)

Item == [id \in DOMAIN work_queue |-> Seen[work_queue[id].locked_at]]
Held == {p \in Workers \X DOMAIN work_queue : HoldsCurrent(p[1], p[2])}

LEMMA HeldPairs ==
    \A w \in Workers : \A id : <<w, id>> \in Held <=> HoldsCurrent(w, id)
BY Zenon DEF Held, HoldsCurrent

LEMMA OpenRows == Leases!open = DOMAIN work_queue
BY Zenon DEF Leases!open

\* What a step does to the holders.
LEMMA HeldBecomes ==
    ASSUME NEW S, \A p \in S : p \in Workers \X DOMAIN work_queue',
           \A w \in Workers : \A id \in DOMAIN work_queue' :
               HoldsCurrent(w, id)' <=> <<w, id>> \in S
    PROVE  Held' = S
<1>1. Held' = {p \in Workers \X DOMAIN work_queue' : HoldsCurrent(p[1], p[2])'}
    BY Zenon DEF Held, HoldsCurrent
<1>2. \A p \in Workers \X DOMAIN work_queue' :
          /\ p[1] \in Workers /\ p[2] \in DOMAIN work_queue' /\ p = <<p[1], p[2]>>
    OBVIOUS
<1> QED BY <1>1, <1>2, Zenon

LEMMA HeldStays ==
    ASSUME \A w \in Workers : \A id : HoldsCurrent(w, id)' <=> HoldsCurrent(w, id)
    PROVE  Held' = Held
<1>1. \A p \in Held : p \in Workers \X DOMAIN work_queue'
    <2> SUFFICES ASSUME NEW p \in Held PROVE p \in Workers \X DOMAIN work_queue'
        BY Zenon
    <2>1. p[1] \in Workers /\ p = <<p[1], p[2]>> /\ HoldsCurrent(p[1], p[2])
        BY DEF Held
    <2>2. p[2] \in DOMAIN work_queue'
        BY <2>1, Zenon DEF HoldsCurrent
    <2> QED BY <2>1, <2>2, Zenon
<1> QED BY <1>1, HeldPairs, HeldBecomes, Zenon

\* The empty queue is an empty lease service.
LEMMA InitLeases == Init => Leases!Init
<1> SUFFICES ASSUME Init PROVE Leases!Init
    BY Zenon
<1>1. DOMAIN work_queue = {} /\ DOMAIN pushed = {} /\ decoded = {}
    BY Zenon DEF Init
<1> QED BY <1>1, Zenon DEF Leases!Init

\* push_in_tx accepts an item; a duplicate changes nothing.
LEMMA PushAccepts ==
    ASSUME IInv, NEW c \in Chains, NEW r \in Ranges, Push(c, r)
    PROVE  Leases!Next \/ UNCHANGED <<pushed, Item, Held, decoded>>
<1>1. CASE Pending(c, r)
    <2>1. UNCHANGED <<work_queue, pushed, pc, lease, decoded>>
        BY <1>1, Zenon DEF Push
    <2>2. Item' = Item /\ Held' = Held
        BY <2>1, Zenon DEF Item, Held, HoldsCurrent
    <2> QED BY <2>1, <2>2, Zenon
<1>2. CASE ~Pending(c, r)
    <2>0. PICK id : id = next_id
        BY Zenon
    <2> DEFINE row == [chain |-> c, range |-> r, locked_at |-> "null", lease_seq |-> 0]
    <2>1. /\ id \in 1 .. MaxId /\ id \notin DOMAIN pushed
          /\ DOMAIN work_queue \subseteq DOMAIN pushed
        BY <2>0, BoundsAssumption DEF IInv, TypeOK, Push
    <2>2. /\ work_queue' = [j \in DOMAIN work_queue \cup {id} |-> IF j = id THEN row ELSE work_queue[j]]
          /\ pushed' = [j \in DOMAIN pushed \cup {id} |-> IF j = id THEN c ELSE pushed[j]]
          /\ UNCHANGED <<pc, lease, decoded>>
        BY <1>2, <2>0, Zenon DEF Push
    <2>3. Item' = [j \in DOMAIN Item \cup {id} |-> IF j = id THEN "ready" ELSE Item[j]]
        BY <2>1, <2>2, Zenon DEF Item, Seen
    <2>4. \A w \in Workers : \A j : HoldsCurrent(w, j)' <=> HoldsCurrent(w, j)
        <3> SUFFICES ASSUME NEW w \in Workers, NEW j
                     PROVE  HoldsCurrent(w, j)' <=> HoldsCurrent(w, j)
            BY Zenon
        <3>1. CASE j = id
            BY <2>1, <2>2, <3>1, Zenon DEF HoldsCurrent, IInv, FenceInv, Working
        <3>2. CASE j # id
            BY <2>2, <3>2, Zenon DEF HoldsCurrent
        <3> QED BY <3>1, <3>2, Zenon
    <2>5. Held' = Held
        BY <2>4, HeldStays, Zenon
    <2>6. Leases!Accept(id)
        <3>1. /\ DOMAIN pushed' = DOMAIN pushed \cup {id}
              /\ \A j \in DOMAIN pushed : pushed'[j] = pushed[j]
            BY <2>1, <2>2, Zenon
        <3> HIDE DEF row
        <3> QED BY <3>1, <2>1, <2>2, <2>3, <2>5, Zenon DEF Leases!Accept, Leases!open, Item, Held
    <2> QED BY <2>1, <2>6, Zenon DEF Leases!Next
<1> QED BY <1>1, <1>2, Zenon

\* pull_any grants the row it has locked.
LEMMA PullGrants ==
    ASSUME IInv, NEW w \in Workers, PullCommit(w)
    PROVE  Leases!Next
<1>0. PICK id, seq : id = lease[w].id /\ seq = work_queue[id].lease_seq + 1
    BY Zenon
<1>1. /\ id \in DOMAIN work_queue /\ work_queue[id] \in Row /\ work_queue[id].locked_at = "null"
      /\ work_queue[id].lease_seq \in Nat /\ pc[w] = "pulling"
      /\ pc \in [Workers -> {"idle", "pulling", "decoding", "acking"}]
      /\ lease \in [Workers -> [id : Nat, seq : Nat]]
    BY <1>0, Zenon DEF PullCommit, IInv, PullInv, TypeOK, Row
<1>2. /\ work_queue' = [work_queue EXCEPT ![id] = [@ EXCEPT !.locked_at = "fresh", !.lease_seq = seq]]
      /\ lease' = [lease EXCEPT ![w] = [id |-> id, seq |-> seq]]
      /\ pc' = [pc EXCEPT ![w] = "decoding"]
      /\ UNCHANGED <<pushed, decoded>>
    BY <1>0, Zenon DEF PullCommit
<1>3. /\ DOMAIN work_queue' = DOMAIN work_queue
      /\ \A j \in DOMAIN work_queue : j # id => work_queue'[j] = work_queue[j]
      /\ work_queue'[id].locked_at = "fresh" /\ work_queue'[id].lease_seq = seq
    <2>1. work_queue'[id] = [work_queue[id] EXCEPT !.locked_at = "fresh", !.lease_seq = seq]
        BY <1>1, <1>2, Zenon
    <2>2. seq \in Nat
        BY <1>1, <1>0
    <2>3. work_queue'[id].locked_at = "fresh" /\ work_queue'[id].lease_seq = seq
        BY <1>1, <2>1, <2>2, Zenon DEF Row
    <2> QED BY <1>1, <1>2, <2>3, Zenon
<1>4. /\ lease'[w].id = id /\ lease'[w].seq = seq /\ pc'[w] = "decoding"
      /\ \A v \in Workers : v # w => lease'[v] = lease[v] /\ pc'[v] = pc[v]
    BY <1>1, <1>2, Zenon
<1>5. Item' = [Item EXCEPT ![id] = "leased"]
    <2>1. DOMAIN Item = DOMAIN work_queue /\ Seen["fresh"] = "leased"
        BY Zenon DEF Item, Seen
    <2>2. Item' = [j \in DOMAIN work_queue |-> Seen[work_queue'[j].locked_at]]
        BY <1>3, Zenon DEF Item
    <2>3. \A j \in DOMAIN work_queue : Seen[work_queue'[j].locked_at] = IF j = id THEN "leased" ELSE Item[j]
        BY <1>3, <2>1, Zenon DEF Item
    <2> QED BY <2>1, <2>2, <2>3, Zenon
<1>6. \A v \in Workers : ~HoldsCurrent(v, id)
    BY <1>1, Zenon DEF HoldsCurrent, IInv, FenceInv, Working
<1>7. \A j : ~HoldsCurrent(w, j)
    BY <1>1, Zenon DEF HoldsCurrent
<1>8. ASSUME NEW v \in Workers, NEW j \in DOMAIN work_queue'
      PROVE  HoldsCurrent(v, j)' <=> <<v, j>> \in Held \cup {<<w, id>>}
    <2>1. CASE v = w
        BY <2>1, <1>3, <1>4, <1>7, <1>8, HeldPairs, Zenon DEF HoldsCurrent
    <2>2. CASE v # w /\ j # id
        BY <2>2, <1>3, <1>4, <1>8, HeldPairs DEF HoldsCurrent
    <2>3. CASE v # w /\ j = id
        <3>1. HoldsCurrent(v, j)' => Working(v) /\ lease[v].id = id /\ lease[v].seq = seq
            BY <2>3, <1>3, <1>4, Zenon DEF HoldsCurrent, Working
        <3>2. Working(v) /\ lease[v].id = id => lease[v].seq <= work_queue[id].lease_seq /\ lease[v].seq \in Nat
            BY <1>1, Zenon DEF IInv, FenceInv
        <3> QED BY <3>1, <3>2, <2>3, <1>0, <1>1, <1>6, HeldPairs
    <2> QED BY <2>1, <2>2, <2>3, Zenon
<1>9. Held' = Held \cup {<<w, id>>}
    <2>1. \A p \in Held \cup {<<w, id>>} : p \in Workers \X DOMAIN work_queue'
        BY <1>1, <1>3 DEF Held
    <2> QED BY <2>1, <1>8, HeldBecomes, Zenon
<1>10. \A p \in Held : p[1] # w /\ p[2] # id
    BY <1>6, <1>7, Zenon DEF Held
<1>11. Item[id] = "ready"
    BY <1>1 DEF Item, Seen
<1>12. Leases!Grant(w, id)
    BY <1>2, <1>5, <1>9, <1>10, <1>11, Zenon DEF Leases!Grant, Item, Held
<1> QED BY <1>1, <1>12, OpenRows, Zenon DEF Leases!Next

\* The ack of a current lease finishes the item; that of a lost one does nothing.
LEMMA AckFinishes ==
    ASSUME IInv, NEW w \in Workers, Ack(w)
    PROVE  Leases!Next \/ UNCHANGED <<pushed, Item, Held, decoded>>
<1>0. PICK id : id = lease[w].id
    BY Zenon
<1>1. /\ pc[w] = "acking" /\ pc' = [pc EXCEPT ![w] = "idle"] /\ lease' = [lease EXCEPT ![w] = NoLease]
      /\ UNCHANGED <<pushed, decoded>>
      /\ pc \in [Workers -> {"idle", "pulling", "decoding", "acking"}]
      /\ lease \in [Workers -> [id : Nat, seq : Nat]]
    BY Zenon DEF Ack, IInv, TypeOK
<1>2. /\ pc'[w] = "idle"
      /\ \A v \in Workers : v # w => lease'[v] = lease[v] /\ pc'[v] = pc[v]
    BY <1>1, Zenon
<1>3. CASE HoldsCurrent(w, id)
    <2>1. /\ DOMAIN work_queue' = DOMAIN work_queue \ {id}
          /\ \A j \in DOMAIN work_queue' : work_queue'[j] = work_queue[j]
        BY <1>0, <1>3, Zenon DEF Ack, HoldsCurrent
    <2>2. Item' = [j \in DOMAIN Item \ {id} |-> Item[j]]
        BY <2>1, Zenon DEF Item
    <2>3. ASSUME NEW v \in Workers, v # w PROVE ~HoldsCurrent(v, id)
        BY <1>3, <2>3 DEF IInv, TypeOK, FenceInv, HoldsCurrent, Working
    <2>4. ASSUME NEW v \in Workers, NEW j \in DOMAIN work_queue'
          PROVE  HoldsCurrent(v, j)' <=> <<v, j>> \in Held \ {<<w, id>>}
        <3>1. CASE v = w
            <4>1. ~HoldsCurrent(v, j)'
                BY <3>1, <1>2, Zenon DEF HoldsCurrent
            <4>2. HoldsCurrent(w, j) => j = id
                BY <1>0, Zenon DEF HoldsCurrent
            <4> QED BY <3>1, <4>1, <4>2, HeldPairs, Zenon
        <3>2. CASE v # w
            <4>1. HoldsCurrent(v, j)' <=> HoldsCurrent(v, j)
                BY <2>1, <2>4, <3>2, <1>2, Zenon DEF HoldsCurrent
            <4> QED BY <3>2, <4>1, HeldPairs, Zenon
        <3> QED BY <3>1, <3>2, Zenon
    <2>5. Held' = Held \ {<<w, id>>}
        <3>1. \A p \in Held \ {<<w, id>>} : p \in Workers \X DOMAIN work_queue'
            <4> SUFFICES ASSUME NEW p \in Held, p # <<w, id>>
                         PROVE  p \in Workers \X DOMAIN work_queue'
                BY Zenon
            <4>1. /\ p[1] \in Workers /\ p[2] \in DOMAIN work_queue /\ p = <<p[1], p[2]>>
                  /\ HoldsCurrent(p[1], p[2])
                BY DEF Held
            <4>2. p[2] # id
                BY <4>1, <2>3, Zenon
            <4> QED BY <4>1, <4>2, <2>1, Zenon
        <3> QED BY <3>1, <2>4, HeldBecomes, Zenon
    <2>6. id \in decoded \/ pushed[id] \notin Decoders[w]
        BY <1>0, <1>1, Zenon DEF IInv, AckInv
    <2>7. <<w, id>> \in Held /\ id \in DOMAIN work_queue
        BY <1>3, HeldPairs, Zenon DEF HoldsCurrent
    <2>8. Leases!Finish(w, id)
        BY <1>1, <2>2, <2>5, <2>6, <2>7, Zenon DEF Leases!Finish, Leases!open, Item, Held
    <2> QED BY <2>7, <2>8, OpenRows, Zenon DEF Leases!Next
<1>4. CASE ~HoldsCurrent(w, id)
    <2>1. {j \in DOMAIN work_queue : j = lease[w].id /\ work_queue[j].lease_seq = lease[w].seq} = {}
        BY <1>0, <1>1, <1>4, Zenon DEF HoldsCurrent
    <2>2. work_queue' = [j \in DOMAIN work_queue |-> work_queue[j]]
        BY <2>1, Zenon DEF Ack
    <2>3. work_queue' = work_queue
        BY <2>2, Zenon DEF IInv, TypeOK
    <2>4. \A v \in Workers : \A j : HoldsCurrent(v, j)' <=> HoldsCurrent(v, j)
        BY <1>0, <1>1, <1>2, <1>4, <2>3, Zenon DEF HoldsCurrent
    <2> QED BY <1>1, <2>3, <2>4, HeldStays, Zenon DEF Item
<1> QED BY <1>3, <1>4, Zenon

\* A worker that fails gives up what it still holds.
LEMMA ErrGivesUp ==
    ASSUME IInv, NEW w \in Workers, RunOnceErr(w)
    PROVE  Leases!Next \/ UNCHANGED <<pushed, Item, Held, decoded>>
<1>0. PICK id : id = lease[w].id
    BY Zenon
<1>1. /\ pc' = [pc EXCEPT ![w] = "idle"] /\ lease' = [lease EXCEPT ![w] = NoLease]
      /\ UNCHANGED <<work_queue, pushed, decoded>>
      /\ pc \in [Workers -> {"idle", "pulling", "decoding", "acking"}]
      /\ lease \in [Workers -> [id : Nat, seq : Nat]]
    BY Zenon DEF RunOnceErr, IInv, TypeOK
<1>2. /\ pc'[w] = "idle"
      /\ \A v \in Workers : v # w => lease'[v] = lease[v] /\ pc'[v] = pc[v]
    BY <1>1, Zenon
<1>3. Item' = Item
    BY <1>1, Zenon DEF Item
<1>4. CASE HoldsCurrent(w, id)
    <2>1. ASSUME NEW v \in Workers, NEW j \in DOMAIN work_queue'
          PROVE  HoldsCurrent(v, j)' <=> <<v, j>> \in Held \ {<<w, id>>}
        <3>1. CASE v = w
            <4>1. ~HoldsCurrent(v, j)'
                BY <3>1, <1>2, Zenon DEF HoldsCurrent
            <4>2. HoldsCurrent(w, j) => j = id
                BY <1>0, Zenon DEF HoldsCurrent
            <4> QED BY <3>1, <4>1, <4>2, HeldPairs, Zenon
        <3>2. CASE v # w
            <4>1. HoldsCurrent(v, j)' <=> HoldsCurrent(v, j)
                BY <3>2, <1>1, <1>2, Zenon DEF HoldsCurrent
            <4> QED BY <3>2, <4>1, HeldPairs, Zenon
        <3> QED BY <3>1, <3>2, Zenon
    <2>2. Held' = Held \ {<<w, id>>}
        <3>1. \A p \in Held \ {<<w, id>>} : p \in Workers \X DOMAIN work_queue'
            BY <1>1, Zenon DEF Held
        <3> QED BY <3>1, <2>1, HeldBecomes, Zenon
    <2>3. <<w, id>> \in Held /\ id \in DOMAIN work_queue
        BY <1>4, HeldPairs, Zenon DEF HoldsCurrent
    <2>4. Leases!GiveUp(w, id)
        BY <1>1, <1>3, <2>2, <2>3, Zenon DEF Leases!GiveUp, Item, Held
    <2> QED BY <2>3, <2>4, OpenRows, Zenon DEF Leases!Next
<1>5. CASE ~HoldsCurrent(w, id)
    <2>1. \A v \in Workers : \A j : HoldsCurrent(v, j)' <=> HoldsCurrent(v, j)
        BY <1>0, <1>1, <1>2, <1>5, Zenon DEF HoldsCurrent
    <2> QED BY <1>1, <1>3, <2>1, HeldStays, Zenon
<1> QED BY <1>4, <1>5, Zenon

\* decode_range returned: its item is decoded, held or not.
LEMMA DecodeOkDecodes ==
    ASSUME IInv, NEW w \in Workers, DecodeOk(w)
    PROVE  Leases!Next
<1>0. PICK id : id = lease[w].id
    BY Zenon
<1>1. /\ UNCHANGED <<work_queue, lease, pushed>> /\ decoded' = decoded \cup {id}
      /\ pc[w] = "decoding" /\ pc' = [pc EXCEPT ![w] = "acking"]
      /\ pc \in [Workers -> {"idle", "pulling", "decoding", "acking"}]
    BY <1>0, Zenon DEF DecodeOk, IInv, TypeOK
<1>2. \A v \in Workers : pc'[v] \in {"decoding", "acking"} <=> pc[v] \in {"decoding", "acking"}
    BY <1>1, Zenon
<1>3. \A v \in Workers : \A j : HoldsCurrent(v, j)' <=> HoldsCurrent(v, j)
    BY <1>1, <1>2, Zenon DEF HoldsCurrent
<1>4. Item' = Item /\ Held' = Held
    BY <1>1, <1>3, HeldStays, Zenon DEF Item
<1>5. id \in DOMAIN pushed
    BY <1>0, <1>1, Zenon DEF IInv, FenceInv, Working
<1>6. Leases!Decode(id)
    BY <1>1, <1>4, Zenon DEF Leases!Decode, Item, Held
<1> QED BY <1>5, <1>6, Zenon DEF Leases!Next

\* The sub-select of a pull and a skipped decode leave the leases alone.
LEMMA QuietSteps ==
    ASSUME IInv, NEW w \in Workers, PullLock(w) \/ SkipDecode(w)
    PROVE  UNCHANGED <<pushed, Item, Held, decoded>>
<1>1. /\ UNCHANGED <<work_queue, pushed, decoded>>
      /\ pc \in [Workers -> {"idle", "pulling", "decoding", "acking"}]
      /\ lease \in [Workers -> [id : Nat, seq : Nat]]
    BY Zenon DEF PullLock, SkipDecode, IInv, TypeOK
<1>2. \A v \in Workers : \A j : HoldsCurrent(v, j)' <=> HoldsCurrent(v, j)
    <2>1. CASE PullLock(w)
        <3>1. pc[w] = "idle" /\ pc'[w] = "pulling"
              /\ \A v \in Workers : v # w => pc'[v] = pc[v] /\ lease'[v] = lease[v]
            BY <1>1, <2>1, Zenon DEF PullLock
        <3> QED BY <1>1, <3>1, Zenon DEF HoldsCurrent
    <2>2. CASE SkipDecode(w)
        <3>1. lease' = lease
              /\ \A v \in Workers : pc'[v] \in {"decoding", "acking"} <=> pc[v] \in {"decoding", "acking"}
            BY <1>1, <2>2, Zenon DEF SkipDecode
        <3> QED BY <1>1, <3>1, Zenon DEF HoldsCurrent
    <2> QED BY <2>1, <2>2, Zenon
<1> QED BY <1>1, <1>2, HeldStays, Zenon DEF Item

\* A lease that grows old makes its item late.
LEMMA ExpiresIsOverdue ==
    ASSUME IInv, NEW id \in DOMAIN work_queue, LeaseExpires(id)
    PROVE  Leases!Next
<1>1. /\ UNCHANGED <<pc, lease, pushed, decoded>> /\ work_queue[id].locked_at = "fresh"
      /\ work_queue[id] \in Row
      /\ work_queue' = [work_queue EXCEPT ![id] = [@ EXCEPT !.locked_at = "expired"]]
    BY Zenon DEF LeaseExpires, IInv, TypeOK
<1>2. /\ DOMAIN work_queue' = DOMAIN work_queue
      /\ \A j \in DOMAIN work_queue : j # id => work_queue'[j] = work_queue[j]
      /\ work_queue'[id].locked_at = "expired" /\ work_queue'[id].lease_seq = work_queue[id].lease_seq
    <2>1. work_queue'[id] = [work_queue[id] EXCEPT !.locked_at = "expired"]
        BY <1>1, Zenon
    <2>2. work_queue'[id].locked_at = "expired" /\ work_queue'[id].lease_seq = work_queue[id].lease_seq
        BY <1>1, <2>1, Zenon DEF Row
    <2> QED BY <1>1, <2>2, Zenon
<1>3. \A v \in Workers : \A j : HoldsCurrent(v, j)' <=> HoldsCurrent(v, j)
    <2>1. \A j \in DOMAIN work_queue : work_queue'[j].lease_seq = work_queue[j].lease_seq
        BY <1>2, Zenon
    <2> QED BY <1>1, <1>2, <2>1, Zenon DEF HoldsCurrent
<1>4. Held' = Held
    BY <1>3, HeldStays, Zenon
<1>5. Item' = [Item EXCEPT ![id] = "late"]
    <2>1. DOMAIN Item = DOMAIN work_queue /\ Seen["expired"] = "late"
        BY Zenon DEF Item, Seen
    <2>2. Item' = [j \in DOMAIN work_queue |-> Seen[work_queue'[j].locked_at]]
        BY <1>2, Zenon DEF Item
    <2>3. \A j \in DOMAIN work_queue : Seen[work_queue'[j].locked_at] = IF j = id THEN "late" ELSE Item[j]
        BY <1>2, <2>1, Zenon DEF Item
    <2> QED BY <2>1, <2>2, <2>3, Zenon
<1>6. Item[id] = "leased"
    BY <1>1 DEF Item, Seen
<1>7. Leases!Overdue(id)
    BY <1>1, <1>4, <1>5, <1>6, Zenon DEF Leases!Overdue, Item, Held
<1> QED BY <1>7, OpenRows, Zenon DEF Leases!Next

\* reclaim_expired takes back what is late, and nothing else.
LEMMA ReclaimTakesBack ==
    ASSUME IInv, Reclaim
    PROVE  Leases!Next
<1>1. /\ UNCHANGED <<pc, lease, pushed, decoded>>
      /\ work_queue' = [id \in DOMAIN work_queue |->
            IF work_queue[id].locked_at = "expired"
              THEN [work_queue[id] EXCEPT !.locked_at = "null", !.lease_seq = @ + 1]
              ELSE work_queue[id]]
    BY Zenon DEF Reclaim
<1>2. /\ DOMAIN work_queue' = DOMAIN work_queue
      /\ \A j \in DOMAIN work_queue : work_queue[j].locked_at # "expired" => work_queue'[j] = work_queue[j]
    BY <1>1, Zenon
<1>3. ASSUME NEW j \in DOMAIN work_queue, work_queue[j].locked_at = "expired"
      PROVE  /\ work_queue'[j].locked_at = "null"
             /\ work_queue'[j].lease_seq = work_queue[j].lease_seq + 1 /\ work_queue[j].lease_seq \in Nat
    <2>1. work_queue[j] \in Row
        BY <1>3, Zenon DEF IInv, TypeOK
    <2>2. work_queue'[j] = [work_queue[j] EXCEPT !.locked_at = "null", !.lease_seq = @ + 1]
        BY <1>1, <1>3, Zenon
    <2> QED BY <2>1, <2>2, Zenon DEF Row
<1>4. ASSUME NEW j \in DOMAIN work_queue PROVE (Item[j] = "late") <=> (work_queue[j].locked_at = "expired")
    <2>1. work_queue[j].locked_at \in {"null", "fresh", "expired"}
        BY <1>4, Zenon DEF IInv, TypeOK, Row
    <2> QED BY <2>1, <1>4 DEF Item, Seen
<1>5. Item' = [j \in DOMAIN Item |-> IF Item[j] = "late" THEN "ready" ELSE Item[j]]
    <2>1. DOMAIN Item = DOMAIN work_queue /\ Seen["null"] = "ready"
        BY Zenon DEF Item, Seen
    <2>2. Item' = [j \in DOMAIN work_queue |-> Seen[work_queue'[j].locked_at]]
        BY <1>2, Zenon DEF Item
    <2>3. \A j \in DOMAIN work_queue :
              Seen[work_queue'[j].locked_at] = IF Item[j] = "late" THEN "ready" ELSE Item[j]
        BY <1>2, <1>3, <1>4, <2>1, Zenon DEF Item
    <2> QED BY <2>1, <2>2, <2>3, Zenon
<1>6. ASSUME NEW v \in Workers, NEW j \in DOMAIN work_queue
      PROVE  HoldsCurrent(v, j)' <=> HoldsCurrent(v, j) /\ Item[j] # "late"
    <2>1. CASE work_queue[j].locked_at = "expired"
        <3>1. Working(v) /\ lease[v].id = j =>
                 lease[v].seq \in Nat /\ lease[v].seq <= work_queue[j].lease_seq
            BY <1>6, Zenon DEF IInv, TypeOK, FenceInv
        <3>2. ~(lease[v].seq \in Nat /\ lease[v].seq <= work_queue[j].lease_seq
                /\ lease[v].seq = work_queue'[j].lease_seq)
            BY <1>3, <2>1
        <3> QED BY <1>1, <1>4, <2>1, <3>1, <3>2, Zenon DEF HoldsCurrent, Working
    <2>2. CASE work_queue[j].locked_at # "expired"
        BY <1>1, <1>2, <1>4, <2>2, Zenon DEF HoldsCurrent
    <2> QED BY <2>1, <2>2, Zenon
<1>7. Held' = {p \in Held : Item[p[2]] # "late"}
    <2> DEFINE S == {p \in Held : Item[p[2]] # "late"}
    <2>1. \A p \in S : p \in Workers \X DOMAIN work_queue'
        BY <1>2, Zenon DEF Held
    <2>2. \A v \in Workers : \A j \in DOMAIN work_queue' : HoldsCurrent(v, j)' <=> <<v, j>> \in S
        <3> SUFFICES ASSUME NEW v \in Workers, NEW j \in DOMAIN work_queue'
                     PROVE  HoldsCurrent(v, j)' <=> <<v, j>> \in S
            BY Zenon
        <3>1. <<v, j>> \in S <=> <<v, j>> \in Held /\ Item[j] # "late"
            BY Zenon
        <3> QED BY <3>1, <1>2, <1>6, HeldPairs, Zenon
    <2> HIDE DEF S
    <2>3. Held' = S
        BY <2>1, <2>2, HeldBecomes, Zenon
    <2> QED BY <2>3, Zenon DEF S
<1>8. Leases!TakeBack
    BY <1>1, <1>5, <1>7, Zenon DEF Leases!TakeBack, Leases!open, Item, Held
<1> QED BY <1>8, Zenon DEF Leases!Next

LEMMA StepRefines == IInv /\ [Next]_vars => Leases!Next \/ UNCHANGED <<pushed, Item, Held, decoded>>
<1> SUFFICES ASSUME IInv, [Next]_vars
             PROVE  Leases!Next \/ UNCHANGED <<pushed, Item, Held, decoded>>
    BY Zenon
<1>1. CASE UNCHANGED vars
    <2>1. UNCHANGED <<work_queue, pc, lease, pushed, decoded>>
        BY <1>1, Zenon DEF vars
    <2> QED BY <2>1, Zenon DEF Item, Held, HoldsCurrent
<1>2. ASSUME NEW w \in Workers, WorkerStep(w) \/ RunOnceErr(w)
      PROVE  Leases!Next \/ UNCHANGED <<pushed, Item, Held, decoded>>
    BY <1>2, PullGrants, AckFinishes, ErrGivesUp, DecodeOkDecodes, QuietSteps, Zenon DEF WorkerStep
<1> QED BY <1>1, <1>2, PushAccepts, ExpiresIsOverdue, ReclaimTakesBack, Zenon DEF Next

\* The work queue implements Leasing: fenced by lease_seq, pull_any, ack and
\* reclaim_expired hand every item to one worker at a time and lose none, with any
\* number of workers that are slower than their lease, fail or are killed, and
\* although a pull reads its snapshot before it takes effect.
THEOREM QueueLeases == Spec => ImplementsLeasing
<1>1. IInv /\ [Next]_vars => [Leases!Next]_(Leases!vars)
    BY StepRefines, Zenon DEF Leases!vars, Item, Held
<1> QED BY InitLeases, Invariance, <1>1, PTL DEF Spec, ImplementsLeasing, Leases!Spec

=============================================================================
