----------------------------- MODULE TipLoopProofs -----------------------------
(***************************************************************************)
(* For any start block, number of confirmations and window size, with      *)
(* streams that break and reorgs of unconfirmed blocks: the cursor passes  *)
(* a matching block unfetched only if the stream could not have announced  *)
(* it, and no announced height is passed unfetched.                        *)
(***************************************************************************)
EXTENDS TipLoop, FiniteSetTheorems, TLAPS

\* The conjuncts of TypeOK.
Flags ==
    /\ up \in BOOLEAN /\ ws_enabled \in WsModes /\ sub \in BOOLEAN /\ reconcile \in BOOLEAN
    /\ pc \in {"top", "poll", "catch", "wait"}

Numbers ==
    /\ head \in 0..MaxHead /\ logs \subseteq 1..head
    /\ forks \in 0..MaxForks /\ replaced \subseteq 1..head
    /\ pending \subseteq 1..head /\ next = cursor + 1 /\ safe \in 0..head
    /\ cursor \in Nat /\ stored \subseteq 1..head /\ exposed \subseteq 1..head
    /\ faults \in 0..MaxFaults

Entry == [h : 1..MaxHead, removed : BOOLEAN]
Pushes == stream \in Seq(Entry)

Confirmed == Minus(head, Confirmations)

\* Where the loop stands: at the start block or beyond, never above what is
\* confirmed, and in catch_up only with something to do and a reason to do it.
Position ==
    /\ StartBlock <= next
    /\ safe <= Confirmed
    /\ cursor < StartBlock \/ cursor <= Confirmed
    /\ pc = "catch" => next <= safe
    /\ (pc = "catch" /\ ws_enabled) => (reconcile \/ pending # {})

\* Matching blocks ahead of the cursor that a stream should have told of.
Ahead == {b \in logs : b > cursor /\ b \notin exposed \cup replaced}

\* The sweep that is due will fetch b.
Swept(b) == reconcile /\ b <= (IF pc = "catch" THEN safe ELSE Confirmed)

\* The stream will tell of b, and of nothing higher before.
Coming(b) ==
    \E j \in 1 .. Len(stream) :
        stream[j] = Pushed(b) /\ \A i \in 1 .. j : stream[i].h <= b

\* b was mined when nobody listened any more.
Dark(b) == ~(sub /\ up) /\ \A i \in 1 .. Len(stream) : stream[i].h < b

\* Each such block is pending, or the sweep gets it, or it is still to be heard
\* of and all that is pending is below it, so that a fetch comes first.
Covers(b) ==
    \/ b \in pending
    \/ Swept(b)
    \/ (\A h \in pending : h < b) /\ (Coming(b) \/ Dark(b))

Coverage == ws_enabled => \A b \in Ahead : Covers(b)

\* What is in the stream is a matching block, of which the stream was in time
\* to tell, or comes from a reorg.
Told == \A i \in 1 .. Len(stream) : stream[i].h \in replaced \cup (logs \ exposed)

Typed == Flags /\ Numbers /\ Pushes

IInv == Typed /\ Position /\ Coverage /\ Told /\ MissedOnlyIfExposed /\ AnnouncedIsFetched

-----------------------------------------------------------------------------
(* Operators.                                                              *)

\* Confirmed blocks stay confirmed while the chain grows.
LEMMA MinusType ==
    ASSUME NEW a \in Nat
    PROVE  /\ Minus(a, Confirmations) \in 0 .. a
           /\ Minus(a, Confirmations) <= Minus(a + 1, Confirmations)
BY TipAssumption DEF Minus

\* A window ends between its first block and the safe height.
LEMMA TargetBounds ==
    ASSUME NEW s \in Nat, NEW n \in Nat, n <= s, NEW must \in BOOLEAN
    PROVE  fetch_target(s, n, Step, RangeConcurrency, must) \in n .. s
<1>1. Step * RangeConcurrency \in Nat /\ Step * RangeConcurrency >= 1
    BY TipAssumption
<1> QED BY <1>1 DEF fetch_target, Lesser

\* The pushed logs of a reorg are about the blocks it replaces.
LEMMA AscendingType ==
    ASSUME NEW n \in Nat, NEW S \in SUBSET (1 .. n), NEW q \in Ascending(S)
    PROVE  /\ q \in Seq(S)
           /\ \A i \in DOMAIN q : q[i] \in S
<1>1. IsFiniteSet(S)
    <2>1. IsFiniteSet(1 .. n)
        BY FS_Interval
    <2> QED BY <2>1, FS_Subset, ZenonT(30)
<1>2. Cardinality(S) \in Nat
    BY <1>1, FS_CardinalityType
<1>3. q \in [1 .. Cardinality(S) -> S]
    BY DEF Ascending
<1> QED BY <1>2, <1>3

-----------------------------------------------------------------------------
LEMMA Bounds == MaxHead \in Nat /\ MaxForks \in Nat /\ MaxFaults \in Nat
BY TipAssumption

LEMMA TypeParts == Typed => TypeOK
<1> SUFFICES ASSUME Typed PROVE TypeOK
    OBVIOUS
<1>1. Flags /\ Numbers /\ Pushes
    BY DEF Typed
<1> QED BY <1>1, Zenon DEF TypeOK, Flags, Numbers, Pushes, Entry

\* The entries of the stream, one by one.
LEMMA Entries ==
    ASSUME Numbers, Pushes, Told
    PROVE  /\ head \in Nat /\ cursor \in Nat /\ Len(stream) \in Nat
           /\ \A i \in 1 .. Len(stream) :
                 stream[i] \in Entry /\ stream[i].h \in 1 .. head
<1>1. head \in Nat /\ cursor \in Nat /\ Len(stream) \in Nat
    BY Bounds DEF Numbers, Pushes
<1>2. ASSUME NEW i \in 1 .. Len(stream)
      PROVE  stream[i] \in Entry /\ stream[i].h \in 1 .. head
    <2>1. stream[i] \in Entry
        BY <1>1, <1>2 DEF Pushes
    <2>2. stream[i].h \in 1 .. head
        BY <1>2, ZenonT(30) DEF Told, Numbers
    <2> QED BY <2>1, <2>2
<1> QED BY <1>1, <1>2

LEMMA InitInv == Init => IInv
<1> SUFFICES ASSUME Init PROVE IInv
    OBVIOUS
<1>2. cursor \in Nat /\ next = cursor + 1
    BY TipAssumption DEF Init
<1>3. Pushes
    BY DEF Init, Pushes
<1>4. Flags
    BY Zenon DEF Init, Flags
<1>5. Numbers
    BY <1>2, Bounds DEF Init, Numbers
<1>6. Position
    BY TipAssumption DEF Init, Position, Confirmed, Minus
<1>7. Coverage /\ Told
    BY DEF Init, Coverage, Ahead, Told
<1>8. MissedOnlyIfExposed /\ AnnouncedIsFetched
    BY TipAssumption DEF Init, MissedOnlyIfExposed, Missed, AnnouncedIsFetched
<1> QED BY <1>3, <1>4, <1>5, <1>6, <1>7, <1>8 DEF IInv, Typed

\* The chain grows: the new block is above all that was pushed, pending or
\* passed, and the stream tells of it or nobody listens.
LEMMA MinePreserves ==
    ASSUME IInv, NEW matches \in BOOLEAN, Mine(matches)
    PROVE  IInv'
<1>0. Flags /\ Numbers /\ Pushes /\ Position /\ Coverage /\ Told /\ MissedOnlyIfExposed /\ AnnouncedIsFetched
    BY Zenon DEF IInv, Typed
<1>1. Confirmed \in 0 .. head /\ Confirmed <= Confirmed' /\ Confirmed' \in 0 .. head'
    <2>1. head \in Nat /\ head' = head + 1
        BY <1>0, Bounds DEF Mine, Numbers
    <2> QED BY <2>1, MinusType DEF Confirmed
<1>2. /\ head \in Nat /\ cursor \in Nat /\ Len(stream) \in Nat
      /\ \A i \in 1 .. Len(stream) :
            stream[i] \in Entry /\ stream[i].h \in 1 .. head
    BY <1>0, Entries, Zenon
<1>3. stream' = stream \/ (sub /\ up /\ matches /\ stream' = Append(stream, Pushed(head + 1)))
    BY Zenon DEF Mine
<1>4. Flags'
    BY <1>0, Zenon DEF Mine, Flags, tip
<1>5. Numbers'
    BY <1>0, Bounds DEF Mine, Numbers, tip
<1>6. Pushes'
    <2>1. Pushed(head + 1) \in Entry
        BY <1>2, Bounds DEF Mine, Pushed, Entry
    <2> QED BY <2>1, <1>0, <1>3 DEF Pushes
<1>7. Position'
    BY <1>0, <1>1, Bounds DEF Mine, Position, Numbers, tip
<1>8. Told'
    <2>1. logs \subseteq logs' /\ replaced' = replaced /\ exposed' = exposed
        BY DEF Mine
    <2>2. CASE stream' = stream
        BY <2>1, <2>2, <1>0 DEF Told
    <2>3. CASE matches /\ stream' = Append(stream, Pushed(head + 1))
        <3>1. head + 1 \in logs' \ exposed'
            BY <2>1, <2>3, <1>0, <1>2 DEF Mine, Numbers
        <3> SUFFICES ASSUME NEW i \in 1 .. Len(stream')
                     PROVE  stream'[i].h \in replaced' \cup (logs' \ exposed')
            BY DEF Told
        <3>2. CASE i = Len(stream) + 1
            BY <3>1, <3>2, <2>3, <1>0 DEF Pushes, Pushed
        <3>3. CASE i # Len(stream) + 1
            <4>1. i \in 1 .. Len(stream) /\ stream'[i] = stream[i]
                BY <3>3, <2>3, <1>0 DEF Pushes
            <4> QED BY <4>1, <2>1, <1>0 DEF Told
        <3> QED BY <3>2, <3>3
    <2> QED BY <1>3, <2>2, <2>3
<1>10. MissedOnlyIfExposed'
    <2>1. head + 1 > cursor \/ head + 1 < StartBlock
        BY <1>0, <1>1, <1>2, TipAssumption DEF Position
    <2>2. Missed' \subseteq Missed
        BY <2>1, <1>2, TipAssumption DEF Mine, Missed
    <2> QED BY <2>2, <1>0 DEF Mine, MissedOnlyIfExposed
<1>9. Coverage'
    <2> SUFFICES ASSUME ws_enabled', NEW b \in Ahead' PROVE Covers(b)'
        BY DEF Coverage
    <2>0. /\ UNCHANGED <<ws_enabled, cursor, exposed, replaced, sub, up, pending, reconcile, pc, safe>>
          /\ head' = head + 1
        BY DEF Mine, tip
    <2>1. CASE b \in logs
        <3>1. b \in Ahead /\ Covers(b) /\ b \in 1 .. head
            BY <2>0, <2>1, <1>0 DEF Ahead, Coverage, Numbers
        <3>2. CASE b \in pending
            BY <3>2, <2>0 DEF Covers
        <3>3. CASE Swept(b)
            BY <3>1, <3>3, <2>0, <1>1, <1>2 DEF Covers, Swept
        <3>4. CASE (\A h \in pending : h < b) /\ Coming(b)
            <4>1. PICK j \in 1 .. Len(stream) :
                      stream[j] = Pushed(b) /\ \A i \in 1 .. j : stream[i].h <= b
                BY <3>4 DEF Coming
            <4>2. j \in 1 .. Len(stream)' /\ \A i \in 1 .. j : stream'[i] = stream[i]
                BY <4>1, <1>0, <1>3 DEF Pushes
            <4>3. stream'[j] = Pushed(b)' /\ \A i \in 1 .. j : stream'[i].h <= b
                BY <4>1, <4>2 DEF Pushed
            <4>4. Coming(b)'
                BY <4>2, <4>3 DEF Coming
            <4> QED BY <4>4, <3>4, <2>0 DEF Covers
        <3>5. CASE (\A h \in pending : h < b) /\ Dark(b)
            <4>1. stream' = stream
                BY <3>5, <1>3 DEF Dark
            <4>2. Dark(b)'
                BY <4>1, <3>5, <2>0 DEF Dark
            <4> QED BY <4>2, <3>5, <2>0 DEF Covers
        <3> QED BY <3>1, <3>2, <3>3, <3>4, <3>5 DEF Covers
    <2>2. CASE b \notin logs
        <3>1. matches /\ b = head + 1
            BY <2>2 DEF Mine, Ahead
        <3>2. \A h \in pending' : h < b
            BY <3>1, <2>0, <1>0, <1>2 DEF Numbers
        <3>3. CASE sub /\ up
            <4>1. stream' = Append(stream, Pushed(b))
                BY <3>1, <3>3 DEF Mine
            <4>2. /\ Len(stream') = Len(stream) + 1 /\ stream'[Len(stream) + 1] = Pushed(b)
                  /\ \A i \in 1 .. Len(stream) : stream'[i] = stream[i]
                BY <4>1, <1>0 DEF Pushes
            <4>3. Pushed(b).h = b /\ Pushed(b)' = Pushed(b)
                BY DEF Pushed
            <4>4. \A i \in 1 .. (Len(stream) + 1) : stream'[i].h <= b
                BY <4>2, <4>3, <3>1, <1>2
            <4>5. Coming(b)'
                BY <4>2, <4>3, <4>4, <1>2 DEF Coming
            <4> QED BY <4>5, <3>2 DEF Covers
        <3>4. CASE ~(sub /\ up)
            <4>1. stream' = stream
                BY <3>4, <1>3
            <4>2. \A i \in 1 .. Len(stream) : stream[i].h < b
                BY <3>1, <1>2
            <4>3. Dark(b)'
                BY <4>1, <4>2, <3>4, <2>0 DEF Dark
            <4> QED BY <4>3, <3>2 DEF Covers
        <3> QED BY <3>3, <3>4
    <2> QED BY <2>1, <2>2
<1>11. AnnouncedIsFetched'
    <2>1. head + 1 > cursor \/ head + 1 < StartBlock
        BY <1>0, <1>1, <1>2, TipAssumption DEF Position
    <2>2. {stream'[i].h : i \in DOMAIN stream'} \subseteq {stream[i].h : i \in DOMAIN stream} \cup {head + 1}
        BY <1>0, <1>3 DEF Pushes, Pushed
    <2>3. UNCHANGED <<pending, cursor, stored, replaced>>
        BY DEF Mine, tip
    <2> SUFFICES ASSUME NEW h \in pending \cup {stream'[i].h : i \in DOMAIN stream'},
                        StartBlock <= h, h <= cursor
                 PROVE  h \in stored \cup replaced
        BY <2>3 DEF AnnouncedIsFetched
    <2>4. h # head + 1
        BY <2>1, <1>2, TipAssumption
    <2>5. h \in pending \cup {stream[i].h : i \in DOMAIN stream}
        BY <2>2, <2>4
    <2> QED BY <2>5, <1>0 DEF AnnouncedIsFetched
<1> QED BY <1>4, <1>5, <1>6, <1>7, <1>8, <1>9, <1>10, <1>11, Zenon DEF IInv, Typed

\* The steps of the loop that only move on, or look at the head.
Quiet == StaySubscribed \/ SubscribeErr \/ PollHead \/ SkipPoll \/ Timer

LEMMA QuietPreserves ==
    ASSUME IInv, Quiet
    PROVE  IInv'
<1>0. Flags /\ Numbers /\ Pushes /\ Position /\ Coverage /\ Told /\ MissedOnlyIfExposed /\ AnnouncedIsFetched
    BY Zenon DEF IInv, Typed
<1>1. UNCHANGED <<head, logs, forks, replaced, up, stream, ws_enabled, sub, pending, reconcile,
                  next, cursor, stored, exposed, faults>>
    BY Zenon DEF Quiet, StaySubscribed, SubscribeErr, PollHead, SkipPoll, Timer, env, ws, tip
<1>2. /\ pc # "catch" /\ pc' \in {"top", "poll", "catch", "wait"}
      /\ safe' \in {safe, Confirmed}
      /\ pc' = "catch" => (safe' = Confirmed /\ safe' >= next /\ should_poll_head)
    BY <1>0 DEF Quiet, StaySubscribed, SubscribeErr, PollHead, SkipPoll, Timer, Confirmed, Flags
<1>3. head \in Nat /\ Confirmed \in 0 .. head /\ Confirmed' = Confirmed
    BY <1>0, <1>1, Bounds, MinusType DEF Numbers, Confirmed
<1>4. Flags'
    BY <1>0, <1>1, <1>2, Zenon DEF Flags
<1>5. Numbers'
    BY <1>0, <1>1, <1>2, <1>3 DEF Numbers
<1>6. Pushes' /\ Told'
    BY <1>0, <1>1 DEF Pushes, Told
<1>7. Position'
    BY <1>0, <1>1, <1>2, <1>3 DEF Position, should_poll_head, Numbers
<1>8. Coverage'
    <2> SUFFICES ASSUME ws_enabled', NEW b \in Ahead' PROVE Covers(b)'
        BY DEF Coverage
    <2>1. b \in Ahead /\ Covers(b)
        BY <1>0, <1>1 DEF Ahead, Coverage
    <2>2. Swept(b) => Swept(b)'
        BY <1>1, <1>2, <1>3 DEF Swept
    <2>3. (Coming(b) => Coming(b)') /\ (Dark(b) => Dark(b)')
        BY <1>1, ZenonT(30) DEF Coming, Dark, Pushed
    <2> QED BY <2>1, <2>2, <2>3, <1>1 DEF Covers
<1>9. MissedOnlyIfExposed' /\ AnnouncedIsFetched'
    BY <1>0, <1>1 DEF MissedOnlyIfExposed, Missed, AnnouncedIsFetched
<1> QED BY <1>4, <1>5, <1>6, <1>7, <1>8, <1>9, Zenon DEF IInv, Typed

\* The stream breaks, ends, or is dropped with what it still holds: what it
\* would have told is above all that it told.
LEMMA LossPreserves ==
    ASSUME IInv, WsBreaks \/ OnWsErr \/ OnWsEnd
    PROVE  IInv'
<1>0. Flags /\ Numbers /\ Pushes /\ Position /\ Coverage /\ Told /\ MissedOnlyIfExposed /\ AnnouncedIsFetched
    BY Zenon DEF IInv, Typed
<1>1. UNCHANGED <<head, logs, forks, replaced, ws_enabled, pending, reconcile, next, safe,
                  cursor, stored, exposed>>
    BY Zenon DEF WsBreaks, OnWsErr, OnWsEnd, env, ws, tip
<1>2. /\ pc' = pc \/ (pc = "wait" /\ pc' = "top")
      /\ ~(sub' /\ up') /\ sub' \in BOOLEAN /\ up' \in BOOLEAN
      /\ stream' = <<>> \/ stream' = stream
    BY <1>0, Zenon DEF WsBreaks, OnWsErr, OnWsEnd, tip, ws, Flags
<1>11. faults' \in 0 .. MaxFaults
    <2>1. faults \in 0 .. MaxFaults /\ MaxFaults \in Nat
        BY <1>0, Bounds DEF Numbers
    <2>2. faults' = faults \/ Fault
        BY Zenon DEF WsBreaks, OnWsErr, OnWsEnd
    <2> QED BY <2>1, <2>2 DEF Fault
<1>3. Confirmed' = Confirmed
    BY <1>1 DEF Confirmed
<1>4. Flags'
    <2>1. pc' \in {"top", "poll", "catch", "wait"}
        BY <1>0, <1>2, Zenon DEF Flags
    <2> QED BY <2>1, <1>0, <1>1, <1>2, Zenon DEF Flags
<1>5. Numbers'
    BY <1>0, <1>1, <1>11 DEF Numbers
<1>6. Pushes' /\ Told'
    <2>1. Pushes'
        <3>1. <<>> \in Seq(Entry)
            OBVIOUS
        <3> QED BY <3>1, <1>0, <1>2, Zenon DEF Pushes
    <2>2. Told'
        BY <1>0, <1>1, <1>2 DEF Told
    <2> QED BY <2>1, <2>2
<1>7. Position'
    BY <1>0, <1>1, <1>2, <1>3 DEF Position
<1>8. Coverage'
    <2> SUFFICES ASSUME ws_enabled', NEW b \in Ahead' PROVE Covers(b)'
        BY DEF Coverage
    <2>1. b \in Ahead /\ Covers(b)
        BY <1>0, <1>1 DEF Ahead, Coverage
    <2>2. Swept(b) => Swept(b)'
        BY <1>1, <1>2, <1>3 DEF Swept
    <2>3. CASE stream' = <<>>
        <3>1. Dark(b)'
            BY <2>3, <1>2 DEF Dark
        <3> QED BY <3>1, <2>1, <2>2, <1>1 DEF Covers
    <2>4. CASE stream' = stream
        <3>1. (Coming(b) => Coming(b)') /\ (Dark(b) => Dark(b)')
            BY <2>4, <1>2, ZenonT(30) DEF Coming, Dark, Pushed
        <3> QED BY <3>1, <2>1, <2>2, <1>1 DEF Covers
    <2> QED BY <1>2, <2>3, <2>4
<1>9. MissedOnlyIfExposed'
    BY <1>0, <1>1 DEF MissedOnlyIfExposed, Missed
<1>10. AnnouncedIsFetched'
    BY <1>0, <1>1, <1>2 DEF AnnouncedIsFetched
<1> QED BY <1>4, <1>5, <1>6, <1>7, <1>8, <1>9, <1>10, Zenon DEF IInv, Typed

\* A new stream: what it cannot tell of is confirmed, and the sweep fetches it,
\* or it is exposed.
LEMMA SubscribePreserves ==
    ASSUME IInv, SubscribeOk
    PROVE  IInv'
<1>0. Flags /\ Numbers /\ Pushes /\ Position /\ Coverage /\ Told /\ MissedOnlyIfExposed /\ AnnouncedIsFetched
    BY Zenon DEF IInv, Typed
<1>1. /\ UNCHANGED <<head, logs, forks, replaced, ws_enabled, pending, next, safe, cursor, stored, faults>>
      /\ pc' = "poll" /\ sub' = TRUE /\ up' = TRUE /\ reconcile' = TRUE /\ stream' = <<>>
    BY Zenon DEF SubscribeOk, env
<1>2. exposed' = exposed \cup {b \in 1 .. head : b > Confirmed}
    BY DEF SubscribeOk, Confirmed
<1>3. head \in Nat /\ Confirmed \in 0 .. head /\ Confirmed' = Confirmed
    BY <1>0, <1>1, Bounds, MinusType DEF Numbers, Confirmed
<1>4. Flags'
    BY <1>0, <1>1, Zenon DEF Flags
<1>5. Numbers'
    BY <1>0, <1>1, <1>2, ZenonT(30) DEF Numbers
<1>6. Pushes' /\ Told'
    <2>1. <<>> \in Seq(Entry)
        OBVIOUS
    <2>2. Told'
        BY <1>1 DEF Told
    <2> QED BY <2>1, <2>2, <1>1 DEF Pushes
<1>7. Position'
    BY <1>0, <1>1, <1>3 DEF Position
<1>8. Coverage'
    <2> SUFFICES ASSUME NEW b \in Ahead' PROVE Covers(b)'
        BY DEF Coverage
    <2>1. b \in 1 .. head /\ b \notin exposed'
        BY <1>0, <1>1 DEF Ahead, Numbers
    <2>2. b <= Confirmed
        BY <2>1, <1>2, <1>3
    <2> QED BY <2>2, <1>1, <1>3 DEF Covers, Swept
<1>9. MissedOnlyIfExposed'
    BY <1>0, <1>1, <1>2 DEF MissedOnlyIfExposed, Missed
<1>10. AnnouncedIsFetched'
    BY <1>0, <1>1 DEF AnnouncedIsFetched
<1> QED BY <1>4, <1>5, <1>6, <1>7, <1>8, <1>9, <1>10, Zenon DEF IInv, Typed

\* One log is read: a height that the stream told of becomes pending.
LEMMA LogPreserves ==
    ASSUME IInv, OnWsLog
    PROVE  IInv'
<1>0. Flags /\ Numbers /\ Pushes /\ Position /\ Coverage /\ Told /\ MissedOnlyIfExposed /\ AnnouncedIsFetched
    BY Zenon DEF IInv, Typed
<1>1. UNCHANGED <<head, logs, forks, replaced, ws_enabled, up, sub, reconcile, next, safe,
                  cursor, stored, exposed, faults>>
    BY Zenon DEF OnWsLog, env
<1>2. /\ pc = "wait" /\ pc' = "top" /\ stream # <<>> /\ stream' = Tail(stream)
      /\ pending' = IF Head(stream).removed THEN pending ELSE pending \cup {Head(stream).h}
    BY Zenon DEF OnWsLog
<1>3. /\ head \in Nat /\ cursor \in Nat /\ Len(stream) \in Nat
      /\ \A i \in 1 .. Len(stream) : stream[i] \in Entry /\ stream[i].h \in 1 .. head
    BY <1>0, Entries, Zenon
<1>4. /\ Len(stream) >= 1 /\ Head(stream) = stream[1]
      /\ Len(stream') = Len(stream) - 1
      /\ \A i \in 1 .. Len(stream') : stream'[i] = stream[i + 1]
    BY <1>0, <1>2 DEF Pushes
<1>5. pending \subseteq pending' /\ pending' \subseteq pending \cup {stream[1].h}
    BY <1>2, <1>4
<1>6. Flags'
    BY <1>0, <1>1, <1>2, Zenon DEF Flags
<1>7. Numbers'
    <2>1. stream[1].h \in 1 .. head
        BY <1>3, <1>4
    <2> QED BY <2>1, <1>0, <1>1, <1>5 DEF Numbers
<1>8. Pushes'
    BY <1>0, <1>2 DEF Pushes
<1>9. Told'
    BY <1>0, <1>1, <1>3, <1>4 DEF Told
<1>10. Confirmed' = Confirmed
    BY <1>1 DEF Confirmed
<1>11. Position'
    BY <1>0, <1>1, <1>2, <1>10 DEF Position
<1>12. Coverage'
    <2> SUFFICES ASSUME ws_enabled', NEW b \in Ahead' PROVE Covers(b)'
        BY DEF Coverage
    <2>1. b \in Ahead /\ Covers(b) /\ b \in 1 .. head
        BY <1>0, <1>1 DEF Ahead, Coverage, Numbers
    <2>2. CASE b \in pending
        BY <2>2, <1>5 DEF Covers
    <2>3. CASE Swept(b)
        BY <2>3, <1>1, <1>2, <1>10 DEF Covers, Swept
    <2>4. CASE (\A h \in pending : h < b) /\ Coming(b)
        <3>1. PICK j \in 1 .. Len(stream) :
                  stream[j] = Pushed(b) /\ \A i \in 1 .. j : stream[i].h <= b
            BY <2>4 DEF Coming
        <3>2. stream[1].h <= b
            BY <3>1, <1>3, <1>4
        <3>3. CASE b \in pending'
            BY <3>3 DEF Covers
        <3>4. CASE b \notin pending'
            <4>1. j # 1
                BY <3>1, <3>4, <1>2, <1>4 DEF Pushed
            <4>2. \A h \in pending' : h < b
                BY <2>1, <2>4, <3>2, <3>4, <1>3, <1>4, <1>5
            <4>3. j - 1 \in 1 .. Len(stream') /\ stream'[j - 1] = stream[j]
                BY <4>1, <1>3, <1>4
            <4>4. \A i \in 1 .. (j - 1) : stream'[i].h <= b
                BY <3>1, <1>3, <1>4
            <4>5. Pushed(b)' = Pushed(b)
                BY DEF Pushed
            <4>6. Coming(b)'
                BY <3>1, <4>3, <4>4, <4>5 DEF Coming
            <4> QED BY <4>2, <4>6 DEF Covers
        <3> QED BY <3>3, <3>4
    <2>5. CASE (\A h \in pending : h < b) /\ Dark(b)
        <3>1. \A i \in 1 .. Len(stream) : stream[i].h < b
            BY <2>5 DEF Dark
        <3>2. \A h \in pending' : h < b
            BY <2>5, <3>1, <1>3, <1>4, <1>5
        <3>3. Dark(b)'
            <4>1. \A i \in 1 .. Len(stream') : stream'[i].h < b
                BY <3>1, <1>3, <1>4
            <4> QED BY <4>1, <2>5, <1>1 DEF Dark
        <3> QED BY <3>2, <3>3 DEF Covers
    <2> QED BY <2>1, <2>2, <2>3, <2>4, <2>5 DEF Covers
<1>13. MissedOnlyIfExposed'
    BY <1>0, <1>1 DEF MissedOnlyIfExposed, Missed
<1>14. AnnouncedIsFetched'
    <2>1. {stream'[i].h : i \in DOMAIN stream'} \subseteq {stream[i].h : i \in DOMAIN stream}
        BY <1>0, <1>2 DEF Pushes
    <2>2. stream[1].h \in {stream[i].h : i \in DOMAIN stream}
        BY <1>0, <1>4 DEF Pushes
    <2> QED BY <2>1, <2>2, <1>0, <1>1, <1>5 DEF AnnouncedIsFetched
<1> QED BY <1>6, <1>7, <1>8, <1>9, <1>11, <1>12, <1>13, <1>14, Zenon DEF IInv, Typed

\* A window that is not fetched holds no block that a stream should have told
\* of: the head was polled for a pending height, and that is above the window.
LEMMA NothingAhead ==
    ASSUME IInv, CatchUpNoFetch
    PROVE  \A b \in Ahead : b > safe
<1>0. Numbers /\ Position /\ Coverage
    BY Zenon DEF IInv, Typed
<1> SUFFICES ASSUME NEW b \in Ahead, b <= safe PROVE FALSE
    BY <1>0, Bounds DEF Ahead, Numbers
<1>1. ws_enabled /\ ~reconcile /\ pc = "catch" /\ \A h \in pending : ~(h <= safe)
    BY Zenon DEF CatchUpNoFetch, must_fetch
<1>2. Covers(b) /\ pending # {}
    BY <1>0, <1>1 DEF Coverage, Position
<1>3. b \notin pending /\ ~Swept(b)
    BY <1>1 DEF Swept
<1>4. \A h \in pending : h < b
    BY <1>2, <1>3 DEF Covers
<1>5. b \in Nat /\ safe \in Nat /\ pending \subseteq Nat
    BY <1>0, Bounds DEF Ahead, Numbers
<1>6. PICK h \in pending : TRUE
    BY <1>2
<1>7. h < b /\ ~(h <= safe) /\ h \in Nat
    BY <1>1, <1>4, <1>5, <1>6
<1> QED BY <1>5, <1>7

LEMMA NoFetchPreserves ==
    ASSUME IInv, CatchUpNoFetch
    PROVE  IInv'
<1>0. Flags /\ Numbers /\ Pushes /\ Position /\ Coverage /\ Told /\ MissedOnlyIfExposed /\ AnnouncedIsFetched
    BY Zenon DEF IInv, Typed
<1>1. /\ UNCHANGED <<head, logs, forks, replaced, up, stream, ws_enabled, sub, pending, reconcile,
                     safe, stored, exposed, faults>>
      /\ ws_enabled /\ ~reconcile /\ pc = "catch" /\ \A h \in pending : ~(h <= safe)
      /\ pc' \in {"top", "wait"}
    BY Zenon DEF CatchUpNoFetch, must_fetch, env, ws, tip
<1>2. cursor' = safe /\ next' = safe + 1
    BY DEF CatchUpNoFetch, fetch_target
<1>3. /\ head \in Nat /\ cursor \in Nat /\ safe \in 0 .. head /\ next = cursor + 1 /\ next <= safe
      /\ Confirmed \in 0 .. head /\ Confirmed' = Confirmed /\ safe <= Confirmed
    BY <1>0, <1>1, Bounds, MinusType DEF Numbers, Position, Confirmed
<1>4. Flags'
    BY <1>0, <1>1, Zenon DEF Flags
<1>5. Numbers'
    BY <1>0, <1>1, <1>2, <1>3 DEF Numbers
<1>6. Pushes' /\ Told'
    BY <1>0, <1>1 DEF Pushes, Told
<1>7. Position'
    BY <1>0, <1>1, <1>2, <1>3, TipAssumption DEF Position
<1>8. Coverage'
    <2> SUFFICES ASSUME ws_enabled', NEW b \in Ahead' PROVE Covers(b)'
        BY DEF Coverage
    <2>1. b \in Ahead
        BY <1>0, <1>1, <1>2, <1>3 DEF Ahead, Numbers
    <2>2. Covers(b) /\ ~Swept(b)
        BY <2>1, <1>0, <1>1 DEF Coverage, Swept
    <2>3. (Coming(b) => Coming(b)') /\ (Dark(b) => Dark(b)')
        BY <1>1, ZenonT(30) DEF Coming, Dark, Pushed
    <2> QED BY <2>2, <2>3, <1>1 DEF Covers
<1>9. MissedOnlyIfExposed'
    <2> SUFFICES ASSUME NEW b \in Missed' PROVE b \in exposed \cup replaced
        BY <1>1 DEF MissedOnlyIfExposed
    <2>1. b \in logs /\ b \in 1 .. head /\ StartBlock <= b /\ b <= safe /\ b \notin stored
        BY <1>0, <1>1, <1>2 DEF Missed, Numbers
    <2>2. CASE b <= cursor
        BY <2>1, <2>2, <1>0, <1>1 DEF Missed, MissedOnlyIfExposed
    <2>3. CASE ~(b <= cursor)
        <3>1. b \notin Ahead
            BY <2>1, <1>3, NothingAhead
        <3> QED BY <3>1, <2>1, <2>3, <1>3 DEF Ahead
    <2> QED BY <2>2, <2>3
<1>10. AnnouncedIsFetched'
    <2> SUFFICES ASSUME NEW h \in pending \cup {stream[i].h : i \in DOMAIN stream},
                        StartBlock <= h, h <= safe
                 PROVE  h \in stored \cup replaced
        BY <1>1, <1>2 DEF AnnouncedIsFetched
    <2>1. CASE h <= cursor
        BY <2>1, <1>0 DEF AnnouncedIsFetched
    <2>2. CASE ~(h <= cursor)
        <3>1. PICK i \in DOMAIN stream : h = stream[i].h
            BY <1>1
        <3>2. i \in 1 .. Len(stream)
            BY <3>1, <1>0 DEF Pushes
        <3>3. h \in replaced \cup (logs \ exposed) /\ h \in 1 .. head
            BY <3>1, <3>2, <1>0, Entries DEF Told
        <3>4. h \notin Ahead
            BY <3>3, <1>3, NothingAhead
        <3> QED BY <3>3, <3>4, <2>2, <1>3 DEF Ahead
    <2> QED BY <2>1, <2>2
<1> QED BY <1>4, <1>5, <1>6, <1>7, <1>8, <1>9, <1>10, Zenon DEF IInv, Typed

\* A window is fetched: all that the cursor passes is stored.
LEMMA FetchPreserves ==
    ASSUME IInv, CatchUpFetch
    PROVE  IInv'
<1>0. Flags /\ Numbers /\ Pushes /\ Position /\ Coverage /\ Told /\ MissedOnlyIfExposed /\ AnnouncedIsFetched
    BY Zenon DEF IInv, Typed
<1> DEFINE c == fetch_target(safe, next, Step, RangeConcurrency, TRUE)
<1>1. /\ UNCHANGED <<head, logs, forks, replaced, up, stream, ws_enabled, sub, safe, exposed, faults>>
      /\ pc = "catch" /\ pending' = {h \in pending : h > c}
      /\ stored' = stored \cup (next .. c) /\ cursor' = c /\ next' = c + 1
    BY Zenon DEF CatchUpFetch, env, ws
<1>2. /\ head \in Nat /\ cursor \in Nat /\ safe \in 0 .. head /\ next = cursor + 1 /\ next <= safe
      /\ Confirmed \in 0 .. head /\ Confirmed' = Confirmed /\ safe <= Confirmed
    BY <1>0, <1>1, Bounds, MinusType DEF Numbers, Position, Confirmed
<1>3. c \in Nat /\ next <= c /\ c <= safe /\ safe \in Nat /\ safe <= head
    <2>1. safe \in Nat /\ next \in Nat /\ safe <= head
        BY <1>2
    <2>2. c \in next .. safe
        BY <2>1, <1>2, TargetBounds, ZenonT(30)
    <2> HIDE DEF c
    <2> QED BY <2>1, <2>2
<1>11. \/ c + 1 <= safe /\ reconcile' = TRUE /\ pc' = "top"
       \/ ~(c + 1 <= safe) /\ reconcile' \in BOOLEAN /\ ~reconcile' /\ pc' = "wait"
    <2>0. reconcile' = (c + 1 <= safe) /\ pc' = IF c + 1 <= safe THEN "top" ELSE "wait"
        BY Zenon DEF CatchUpFetch
    <2>1. CASE c + 1 <= safe
        BY <2>0, <2>1, ZenonT(30)
    <2>2. CASE ~(c + 1 <= safe)
        <3>1. pc' = "wait"
            BY <2>0, <2>2, Zenon
        <3>2. ~reconcile'
            BY <2>0, <2>2, ZenonT(30)
        <3> HIDE DEF c
        <3>3. (c + 1 <= safe) \in BOOLEAN
            BY <1>3
        <3>4. reconcile' \in BOOLEAN
            BY <2>0, <3>3, Zenon
        <3> QED BY <2>2, <3>1, <3>2, <3>4, Zenon
    <2> QED BY <2>1, <2>2, Zenon
<1> HIDE DEF c
<1>12. cursor' = c /\ next' = c + 1 /\ safe' = safe /\ head' = head
    BY <1>1, Zenon
<1>4. Flags'
    BY <1>0, <1>1, <1>11, Zenon DEF Flags
<1>5. Numbers'
    <2>1. next .. c \subseteq 1 .. head
        BY <1>2, <1>3
    <2>2. pending' \subseteq pending
        BY <1>1
    <2> QED BY <2>1, <2>2, <1>0, <1>1, <1>3, ZenonT(30) DEF Numbers
<1>6. Pushes' /\ Told'
    BY <1>0, <1>1 DEF Pushes, Told
<1>7. Position'
    <2>1. StartBlock <= next' /\ cursor' <= Confirmed'
        BY <1>0, <1>2, <1>3, <1>12, TipAssumption DEF Position
    <2> QED BY <2>1, <1>2, <1>11, <1>12 DEF Position
<1>8. Coverage'
    <2> SUFFICES ASSUME ws_enabled', NEW b \in Ahead' PROVE Covers(b)'
        BY DEF Coverage
    <2>1. b \in Ahead /\ b > c /\ b \in 1 .. head
        BY <1>0, <1>1, <1>2, <1>3 DEF Ahead, Numbers
    <2>2. Covers(b)
        BY <2>1, <1>0, <1>1 DEF Coverage
    <2>3. CASE b \in pending
        BY <2>1, <2>3, <1>1 DEF Covers
    <2>4. CASE Swept(b)
        <3>1. b <= safe
            BY <2>4, <1>1 DEF Swept
        <3>2. c + 1 <= safe
            BY <2>1, <3>1, <1>12, <1>2, <1>3
        <3> QED BY <2>1, <3>1, <3>2, <1>1, <1>2, <1>11 DEF Covers, Swept
    <2>5. CASE (\A h \in pending : h < b) /\ (Coming(b) \/ Dark(b))
        <3>1. (Coming(b) => Coming(b)') /\ (Dark(b) => Dark(b)')
            BY <1>1, ZenonT(30) DEF Coming, Dark, Pushed
        <3> QED BY <3>1, <2>5, <1>1 DEF Covers
    <2> QED BY <2>2, <2>3, <2>4, <2>5 DEF Covers
<1>9. MissedOnlyIfExposed'
    <2>1. Missed' \subseteq Missed
        <3> SUFFICES ASSUME NEW b \in Missed', b \notin Missed PROVE FALSE
            OBVIOUS
        <3>1. b \in 1 .. head /\ b \in logs /\ StartBlock <= b /\ b <= c /\ b \notin stored'
            BY <1>0, <1>1 DEF Missed, Numbers
        <3>2. ~(b <= cursor)
            BY <3>1, <1>1 DEF Missed
        <3>3. b \in next .. c
            BY <3>1, <3>2, <1>2, <1>3
        <3> QED BY <3>1, <3>3, <1>1
    <2> QED BY <2>1, <1>0, <1>1 DEF MissedOnlyIfExposed
<1>10. AnnouncedIsFetched'
    <2> SUFFICES ASSUME NEW h \in pending' \cup {stream[i].h : i \in DOMAIN stream},
                        StartBlock <= h, h <= c
                 PROVE  h \in stored' \cup replaced
        BY <1>1 DEF AnnouncedIsFetched
    <2>1. h \in {stream[i].h : i \in DOMAIN stream} /\ h \in 1 .. head
        <3>1. h \in {stream[i].h : i \in DOMAIN stream}
            <4>1. h \notin pending'
                <5>1. \A x \in pending' : x \in Nat /\ x > c
                    BY <1>0, <1>1, <1>2 DEF Numbers
                <5> QED BY <5>1, <1>3
            <4> QED BY <4>1
        <3>2. PICK i \in DOMAIN stream : h = stream[i].h
            BY <3>1
        <3>3. i \in 1 .. Len(stream)
            BY <3>2, <1>0 DEF Pushes
        <3> QED BY <3>1, <3>2, <3>3, <1>0, Entries
    <2>2. CASE h <= cursor
        BY <2>1, <2>2, <1>0, <1>1 DEF AnnouncedIsFetched
    <2>3. CASE ~(h <= cursor)
        BY <2>1, <2>3, <1>1, <1>2, <1>3
    <2> QED BY <2>2, <2>3
<1> QED BY <1>4, <1>5, <1>6, <1>7, <1>8, <1>9, <1>10, Zenon DEF IInv, Typed

\* A restart forgets what was pending and sweeps instead; what the cursor has
\* passed in the meantime is stored.
LEMMA RestartPreserves ==
    ASSUME IInv, NEW last \in Reached, Restart(last)
    PROVE  IInv'
<1>0. Flags /\ Numbers /\ Pushes /\ Position /\ Coverage /\ Told /\ MissedOnlyIfExposed /\ AnnouncedIsFetched
    BY Zenon DEF IInv, Typed
<1>1. /\ UNCHANGED <<ws_enabled, head, logs, forks, replaced, exposed>>
      /\ cursor' = last /\ next' = last + 1 /\ stored' = stored \cup (next .. last)
      /\ up' = FALSE /\ stream' = <<>> /\ sub' = FALSE /\ pending' = {} /\ reconcile' = TRUE
      /\ pc' = "top" /\ safe' = 0
    BY Zenon DEF Restart, env
<1>2. /\ head \in Nat /\ cursor \in Nat /\ safe \in 0 .. head /\ next = cursor + 1
      /\ Confirmed \in 0 .. head /\ Confirmed' = Confirmed /\ safe <= Confirmed
    BY <1>0, <1>1, Bounds, MinusType DEF Numbers, Position, Confirmed
<1>3. last \in Nat /\ cursor <= last /\ (last = cursor \/ last <= safe)
    <2>1. CASE pc = "catch" /\ must_fetch(safe)
        <3> DEFINE c == fetch_target(safe, next, Step, RangeConcurrency, TRUE)
        <3>1. safe \in Nat /\ next \in Nat /\ next <= safe
            BY <2>1, <1>0, <1>2 DEF Position
        <3>2. c \in next .. safe
            BY <3>1, TargetBounds, ZenonT(30)
        <3>3. last \in cursor .. c
            BY <2>1, ZenonT(30) DEF Reached
        <3> HIDE DEF c
        <3> QED BY <3>1, <3>2, <3>3, <1>2
    <2>2. CASE ~(pc = "catch" /\ must_fetch(safe))
        <3>1. last = cursor
            BY <2>2, Zenon DEF Reached
        <3> QED BY <3>1, <1>2
    <2> QED BY <2>1, <2>2
<1>4. Flags'
    BY <1>0, <1>1, Zenon DEF Flags
<1>5. Numbers'
    <2>1. next .. last \subseteq 1 .. head
        BY <1>2, <1>3
    <2>2. faults' \in 0 .. MaxFaults
        BY <1>0, Bounds DEF Restart, Fault, Numbers
    <2> QED BY <2>1, <2>2, <1>0, <1>1, <1>2, <1>3 DEF Numbers
<1>6. Pushes' /\ Told'
    <2>1. <<>> \in Seq(Entry)
        OBVIOUS
    <2>2. Told'
        BY <1>1 DEF Told
    <2> QED BY <2>1, <2>2, <1>1 DEF Pushes
<1>7. Position'
    BY <1>0, <1>1, <1>2, <1>3, TipAssumption DEF Position
<1>8. Coverage'
    <2> SUFFICES ASSUME NEW b \in Ahead' PROVE Covers(b)'
        BY DEF Coverage
    <2>1. Dark(b)'
        BY <1>1 DEF Dark
    <2> QED BY <2>1, <1>1 DEF Covers
<1>9. MissedOnlyIfExposed'
    <2>1. Missed' \subseteq Missed
        <3> SUFFICES ASSUME NEW b \in Missed', b \notin Missed PROVE FALSE
            OBVIOUS
        <3>1. b \in 1 .. head /\ b \in logs /\ StartBlock <= b /\ b <= last /\ b \notin stored'
            BY <1>0, <1>1 DEF Missed, Numbers
        <3>2. ~(b <= cursor)
            BY <3>1, <1>1 DEF Missed
        <3>3. b \in next .. last
            BY <3>1, <3>2, <1>2, <1>3
        <3> QED BY <3>1, <3>3, <1>1
    <2> QED BY <2>1, <1>0, <1>1 DEF MissedOnlyIfExposed
<1>10. AnnouncedIsFetched'
    BY <1>1 DEF AnnouncedIsFetched
<1> QED BY <1>4, <1>5, <1>6, <1>7, <1>8, <1>9, <1>10, Zenon DEF IInv, Typed

\* What a concatenation holds.
LEMMA Appended ==
    ASSUME NEW S, NEW T, NEW s \in Seq(S), NEW t \in Seq(T)
    PROVE  /\ Len(s) \in Nat /\ Len(s \o t) \in Nat /\ Len(s) <= Len(s \o t)
           /\ \A i \in 1 .. Len(s) : (s \o t)[i] = s[i]
           /\ \A i \in 1 .. Len(s \o t) : i > Len(s) => (s \o t)[i] \in T
<1>1. Len(s) \in Nat /\ Len(t) \in Nat /\ Len(s \o t) = Len(s) + Len(t)
    OBVIOUS
<1>2. \A i \in 1 .. Len(t) : t[i] \in T
    OBVIOUS
<1>3. \A i \in 1 .. Len(s) + Len(t) : (s \o t)[i] = IF i <= Len(s) THEN s[i] ELSE t[i - Len(s)]
    OBVIOUS
<1> QED BY <1>1, <1>2, <1>3

LEMMA Widened ==
    ASSUME NEW S, NEW T, T \subseteq S, NEW t \in Seq(T)
    PROVE  t \in Seq(S)
<1>1. Len(t) \in Nat /\ t \in [1 .. Len(t) -> T]
    OBVIOUS
<1>2. t \in [1 .. Len(t) -> S]
    BY <1>1
<1> QED BY <1>1, <1>2

\* A reorg touches only blocks above the safe height, and all of them count as
\* replaced from then on.
LEMMA ForkPreserves ==
    ASSUME IInv, NEW d \in 1 .. Lesser(Confirmations, head),
           NEW new \in SUBSET ((head - d + 1) .. head), Fork(d, new)
    PROVE  IInv'
<1>0. Flags /\ Numbers /\ Pushes /\ Position /\ Coverage /\ Told /\ MissedOnlyIfExposed /\ AnnouncedIsFetched
    BY Zenon DEF IInv, Typed
<1> DEFINE top == (head - d + 1) .. head
<1>1. /\ UNCHANGED <<ws_enabled, head, up, sub, pending, reconcile, pc, next, safe, cursor,
                     stored, exposed, faults>>
      /\ logs' = (logs \ top) \cup new /\ replaced' = replaced \cup top
    BY Zenon DEF Fork, tip
<1>2. d \in Nat /\ d <= Confirmations /\ d <= head /\ head \in Nat /\ head <= MaxHead /\ MaxHead \in Nat
    BY <1>0, TipAssumption, Bounds DEF Lesser, Numbers
<1>3. Confirmed \in 0 .. (head - d) /\ Confirmed' = Confirmed /\ cursor \in Nat
    BY <1>0, <1>1, <1>2, TipAssumption DEF Confirmed, Minus, Numbers
<1>4. top \subseteq 1 .. head /\ new \subseteq top /\ \A b \in top : b > Confirmed
    BY <1>2, <1>3
<1>5. \E more \in Seq([h : top, removed : BOOLEAN]) :
          stream' = stream \/ (sub /\ up /\ stream' = stream \o more)
    <2>1. PICK gone \in Ascending(logs \cap top), come \in Ascending(new) :
            stream' = IF ~sub \/ ~up THEN stream ELSE stream
                \o [i \in DOMAIN gone |-> [h |-> gone[i], removed |-> TRUE]]
                \o [i \in DOMAIN come |-> Pushed(come[i])]
        BY Zenon DEF Fork
    <2> DEFINE g == [i \in DOMAIN gone |-> [h |-> gone[i], removed |-> TRUE]]
               c == [i \in DOMAIN come |-> Pushed(come[i])]
    <2>2. gone \in Seq(logs \cap top) /\ come \in Seq(new)
        <3>1. logs \cap top \in SUBSET (1 .. head) /\ new \in SUBSET (1 .. head)
            BY <1>4
        <3> QED BY <3>1, <2>1, <1>2, AscendingType
    <2>3. g \in Seq([h : top, removed : BOOLEAN])
        <3>1. Len(gone) \in Nat /\ DOMAIN gone = 1 .. Len(gone) /\ \A i \in 1 .. Len(gone) : gone[i] \in top
            BY <2>2
        <3>2. \A i \in 1 .. Len(gone) : [h |-> gone[i], removed |-> TRUE] \in [h : top, removed : BOOLEAN]
            BY <3>1
        <3> QED BY <3>1, <3>2
    <2>4. c \in Seq([h : top, removed : BOOLEAN])
        <3>1. Len(come) \in Nat /\ DOMAIN come = 1 .. Len(come) /\ \A i \in 1 .. Len(come) : come[i] \in new
            BY <2>2
        <3> HIDE DEF top
        <3>2. \A i \in 1 .. Len(come) : Pushed(come[i]) \in [h : top, removed : BOOLEAN]
            BY <3>1, <1>4, ZenonT(30) DEF Pushed
        <3> QED BY <3>1, <3>2
    <2>5. g \o c \in Seq([h : top, removed : BOOLEAN]) /\ (stream \o g) \o c = stream \o (g \o c)
        BY <2>3, <2>4, <1>0 DEF Pushes
    <2> QED BY <2>1, <2>5, ZenonT(30)
<1>6. PICK more \in Seq([h : top, removed : BOOLEAN]) :
          stream' = stream \/ (sub /\ up /\ stream' = stream \o more)
    BY <1>5
<1> HIDE DEF top
<1>7. [h : top, removed : BOOLEAN] \subseteq Entry
    <2>1. top \subseteq 1 .. MaxHead
        BY <1>2, <1>4
    <2> QED BY <2>1, ZenonT(30) DEF Entry
<1>8. /\ Len(stream) \in Nat /\ Len(stream') \in Nat /\ Len(stream) <= Len(stream')
      /\ \A i \in 1 .. Len(stream) : stream'[i] = stream[i]
      /\ \A i \in 1 .. Len(stream') : i > Len(stream) => stream'[i] \in [h : top, removed : BOOLEAN]
    <2>1. stream \in Seq(Entry)
        BY <1>0 DEF Pushes
    <2>2. CASE stream' = stream
        BY <2>1, <2>2
    <2>3. CASE stream' = stream \o more
        <3>1. /\ Len(stream) \in Nat /\ Len(stream \o more) \in Nat /\ Len(stream) <= Len(stream \o more)
              /\ \A i \in 1 .. Len(stream) : (stream \o more)[i] = stream[i]
              /\ \A i \in 1 .. Len(stream \o more) :
                     i > Len(stream) => (stream \o more)[i] \in [h : top, removed : BOOLEAN]
            BY <2>1, <1>6, Appended, Zenon
        <3> QED BY <2>3, <3>1, Zenon
    <2> QED BY <2>2, <2>3, <1>6
<1>9. Flags'
    BY <1>0, <1>1, Zenon DEF Flags
<1>10. Numbers'
    <2>1. forks' \in 0 .. MaxForks
        BY <1>0, Bounds DEF Fork, Numbers
    <2>2. logs' \subseteq 1 .. head /\ replaced' \subseteq 1 .. head
        BY <1>0, <1>1, <1>4 DEF Numbers
    <2> QED BY <2>1, <2>2, <1>0, <1>1 DEF Numbers
<1>11. Pushes'
    <2>1. more \in Seq(Entry)
        BY <1>7, Widened, ZenonT(30)
    <2>2. stream \in Seq(Entry) /\ stream \o more \in Seq(Entry)
        BY <2>1, <1>0 DEF Pushes
    <2> QED BY <2>2, <1>6, Zenon DEF Pushes, Entry
<1>12. Told'
    <2> SUFFICES ASSUME NEW i \in 1 .. Len(stream')
                 PROVE  stream'[i].h \in replaced' \cup (logs' \ exposed)
        BY <1>1 DEF Told
    <2>1. CASE i > Len(stream)
        BY <2>1, <1>1, <1>8
    <2>2. CASE ~(i > Len(stream))
        <3>1. i \in 1 .. Len(stream) /\ stream'[i] = stream[i]
            BY <2>2, <1>8
        <3>2. stream[i].h \in replaced \cup (logs \ exposed)
            BY <3>1, <1>0 DEF Told
        <3> QED BY <3>1, <3>2, <1>1
    <2> QED BY <2>1, <2>2
<1>13. Position'
    BY <1>0, <1>1, <1>3 DEF Position
<1>14. Coverage'
    <2> SUFFICES ASSUME ws_enabled', NEW b \in Ahead' PROVE Covers(b)'
        BY DEF Coverage
    <2>1. b \in Ahead
        BY <1>1, <1>4, ZenonT(30) DEF Ahead
    <2>2. Covers(b)
        BY <2>1, <1>0, <1>1 DEF Coverage
    <2>3. Swept(b) => Swept(b)'
        BY <1>1, <1>3 DEF Swept
    <2>4. Coming(b) => Coming(b)'
        <3> SUFFICES ASSUME NEW j \in 1 .. Len(stream), stream[j] = Pushed(b),
                            \A i \in 1 .. j : stream[i].h <= b
                     PROVE  Coming(b)'
            BY DEF Coming
        <3>1. j \in 1 .. Len(stream') /\ \A i \in 1 .. j : stream'[i] = stream[i]
            BY <1>8
        <3>2. Pushed(b)' = Pushed(b)
            BY DEF Pushed
        <3>3. stream'[j] = Pushed(b) /\ \A i \in 1 .. j : stream'[i].h <= b
            BY <3>1
        <3> QED BY <3>1, <3>2, <3>3 DEF Coming
    <2>5. Dark(b) => Dark(b)'
        BY <1>1, <1>6 DEF Dark
    <2> QED BY <2>2, <2>3, <2>4, <2>5, <1>1 DEF Covers
<1>15. MissedOnlyIfExposed'
    <2>1. \A b \in Missed' : b \in Missed \/ b \in replaced'
        BY <1>1, <1>4, ZenonT(30) DEF Missed
    <2>2. \A b \in Missed' : StartBlock <= b /\ b <= cursor /\ b \in 1 .. head
        BY <1>0, <1>1, <1>4 DEF Missed, Numbers
    <2>3. \A b \in Missed' : b \notin top
        BY <2>2, <1>0, <1>3, <1>4, TipAssumption DEF Position
    <2>4. Missed' \subseteq Missed
        BY <2>3, <1>1, <1>4, ZenonT(30) DEF Missed
    <2> QED BY <2>4, <1>0, <1>1 DEF MissedOnlyIfExposed
<1>16. AnnouncedIsFetched'
    <2> SUFFICES ASSUME NEW h \in pending \cup {stream'[i].h : i \in DOMAIN stream'},
                        StartBlock <= h, h <= cursor
                 PROVE  h \in stored \cup replaced'
        BY <1>1 DEF AnnouncedIsFetched
    <2>1. h \in top \/ h \in pending \cup {stream[i].h : i \in DOMAIN stream}
        <3>1. DOMAIN stream = 1 .. Len(stream) /\ DOMAIN stream' = 1 .. Len(stream')
            BY <1>0, <1>11 DEF Pushes
        <3>2. CASE h \in pending
            BY <3>2
        <3>3. CASE h \notin pending
            <4>1. PICK i \in 1 .. Len(stream') : h = stream'[i].h
                BY <3>1, <3>3
            <4> QED BY <4>1, <3>1, <1>8
        <3> QED BY <3>2, <3>3
    <2> QED BY <2>1, <1>0, <1>1 DEF AnnouncedIsFetched
<1> QED BY <1>9, <1>10, <1>11, <1>12, <1>13, <1>14, <1>15, <1>16, Zenon DEF IInv, Typed

-----------------------------------------------------------------------------
LEMMA Inductive == IInv /\ [Next]_vars => IInv'
<1> SUFFICES ASSUME IInv, [Next]_vars PROVE IInv'
    OBVIOUS
<1>1. CASE UNCHANGED vars
    BY <1>1 DEF vars, env, ws, tip, IInv, Typed, Flags, Numbers, Pushes, Position, Confirmed, Coverage,
        Ahead, Covers, Swept, Coming, Dark, Pushed, Told, MissedOnlyIfExposed, Missed, AnnouncedIsFetched
<1>2. CASE \E matches \in BOOLEAN : Mine(matches)
    BY <1>2, MinePreserves
<1>3. CASE \E d \in 1 .. Lesser(Confirmations, head) :
              \E new \in SUBSET ((head - d + 1) .. head) : Fork(d, new)
    BY <1>3, ForkPreserves
<1>4. CASE WsBreaks \/ OnWsErr \/ OnWsEnd
    BY <1>4, LossPreserves
<1>5. CASE Quiet
    BY <1>5, QuietPreserves
<1>6. CASE SubscribeOk
    BY <1>6, SubscribePreserves
<1>7. CASE OnWsLog
    BY <1>7, LogPreserves
<1>8. CASE CatchUpNoFetch
    BY <1>8, NoFetchPreserves
<1>9. CASE CatchUpFetch
    BY <1>9, FetchPreserves
<1>10. CASE \E last \in Reached : Restart(last)
    BY <1>10, RestartPreserves
<1> QED BY <1>1, <1>2, <1>3, <1>4, <1>5, <1>6, <1>7, <1>8, <1>9, <1>10 DEF Next, Loop, Quiet

\* Every variable of the loop keeps its type.
THEOREM TypeCorrect == Spec => []TypeOK
<1>1. IInv => TypeOK
    BY TypeParts DEF IInv
<1> QED BY InitInv, Inductive, <1>1, PTL DEF Spec

\* The stream, its loss, the sweeps and the restarts lose no log but those of
\* blocks that were unconfirmed when a stream was opened, or of a reorg; in poll
\* mode none at all.
THEOREM NothingElseMissed == Spec => []MissedOnlyIfExposed
<1>1. IInv => MissedOnlyIfExposed
    BY DEF IInv
<1> QED BY InitInv, Inductive, <1>1, PTL DEF Spec

\* A height that the stream announced is fetched before the cursor passes it,
\* unless a reorg replaced its block.
THEOREM AnnouncedFetched == Spec => []AnnouncedIsFetched
<1>1. IInv => AnnouncedIsFetched
    BY DEF IInv
<1> QED BY InitInv, Inductive, <1>1, PTL DEF Spec

=============================================================================
