------------------------------ MODULE TablesProofs ------------------------------
(***************************************************************************)
(* For any configurations and edits of them, any logs and transactions,    *)
(* and any number of crashes and failing statements: no raw record is lost *)
(* by a decode that stops between two tables; every typed row has the time *)
(* of its block; after a migrate that succeeded every column and the       *)
(* constraint on receipts are there, whatever earlier ones left half done; *)
(* and every row that decodes fits the columns of its table, if no indexed *)
(* parameter is a tuple.                                                   *)
(***************************************************************************)
EXTENDS Tables, FiniteSetTheorems, WellFoundedInduction, TLAPS

Cfgs == DOMAIN Configs

\* What the decoders of all configurations make of all logs and calls.
Decoded ==
    {decode(Decoders[cfg], l) : cfg \in Cfgs, l \in Logs} \cup
    {decode_call(Decoders[cfg], t) : cfg \in Cfgs, t \in Txs}

StampedRow ==
    {[table |-> row.table, key |-> row.key, fields |-> row.fields, stamped |-> b] :
        row \in Decoded, b \in BOOLEAN}

DecType ==
    {d \in [pc : {"idle", "raw", "blocks", "upsert"}, cfg : Cfgs \cup {0}, item : Nat,
            heights : SUBSET Heights, logs : SUBSET Logs, rows : SUBSET StampedRow] :
        d.pc # "idle" => d.cfg \in Cfgs}

Typed ==
    /\ file \in Cfgs /\ proc \in Cfgs \cup {0}
    /\ raw \subseteq Logs /\ txs \subseteq Txs
    /\ items \in Seq(Heights \cup {0})
    /\ dec \in [Runners -> DecType]

\* A block is stored with its records, and what is decoded is stored.
Timed ==
    /\ \A l \in raw : l.height \in metas
    /\ \A p \in Runners : dec[p].logs \subseteq raw /\ \A r \in dec[p].rows : r.stamped
    /\ \A r \in typed : r.stamped

W == dec["worker"]

\* The worker holds the item of one block.
Holding ==
    W.pc # "idle" =>
        W.item \in DOMAIN items /\ items[W.item] # 0 /\ W.heights = {items[W.item]}

\* The row is in its table, or the worker is about to write it.
Written(row) == HasRow(row) \/ \E r \in W.rows : r.table = row.table /\ r.key = row.key

Handled(l) ==
    /\ Known(W.cfg, l) => Written(decode(Decoders[W.cfg], l))
    /\ \A t \in txs : (t.id = l.tx /\ KnownCall(W.cfg, t)) => Written(decode_call(Decoders[W.cfg], t))

\* The decode that the worker is in has not missed l.
InHand(l) ==
    \/ W.pc \in {"idle", "raw"}
    \/ W.pc = "blocks" /\ l \in W.logs
    \/ W.pc = "upsert" /\ Handled(l)

Waits(l) == \E n \in DOMAIN items : items[n] = l.height
Acked(l) == \E a \in acks : a[1] = l.height /\ Placed(a[2], l)

Accounted ==
    \A l \in raw \ late : (Waits(l) \/ Acked(l)) /\ (l.height \in W.heights => InHand(l))

IInv == Typed /\ Timed /\ Holding /\ Accounted

-----------------------------------------------------------------------------
LEMMA IdleType == NoDecode \in DecType /\ NoDecode.pc = "idle" /\ NoDecode.rows = {} /\ NoDecode.logs = {}
BY Zenon DEF NoDecode, DecType

LEMMA InitInv == Init => IInv
<1> SUFFICES ASSUME Init PROVE IInv
    BY Zenon
<1>1. \A p \in Runners : dec[p] = NoDecode
    BY Zenon DEF Init
<1>2. Typed
    <2>1. <<>> \in Seq(Heights \cup {0})
        OBVIOUS
    <2> QED BY <2>1, IdleType, TablesAssumption, Zenon DEF Init, Typed, Cfgs
<1>3. Timed /\ Holding /\ Accounted
    BY <1>1, IdleType, Zenon DEF Init, Timed, Holding, Accounted, W, Runners
<1> QED BY <1>2, <1>3, Zenon DEF IInv

LEMMA HeightType == Heights \subseteq Nat \ {0}
BY TablesAssumption, Zenon DEF Heights

\* The operator, `migrate` and the start of a process touch no record.
LEMMA OperatorKeeps ==
    ASSUME IInv, EditConfig \/ Migrating \/ Boot \/ BootDecode
    PROVE  IInv'
<1>1. UNCHANGED <<raw, metas, txs, late, items, typed, dec, acks>>
    BY Zenon DEF EditConfig, Migrating, StartMigrate, Apply, MigrateDone, MigrateCrashes, Boot,
        BootDecode, store, decoding
<1>2. file' \in Cfgs /\ proc' \in Cfgs \cup {0}
    BY Zenon DEF IInv, Typed, EditConfig, Migrating, StartMigrate, Apply, MigrateDone, MigrateCrashes, Boot,
        BootDecode, files, process, Cfgs
<1>3. Typed'
    BY <1>1, <1>2, Zenon DEF IInv, Typed
<1>4. Timed' /\ Holding'
    BY <1>1, Zenon DEF IInv, Timed, Holding, W
<1>5. Accounted'
    BY <1>1 DEF IInv, Accounted, Waits, Acked, InHand, Handled, Written, Placed, HasRow, W
<1> QED BY <1>3, <1>4, <1>5, Zenon DEF IInv

\* The worker is, or goes, idle: the item it may have had is there to be pulled.
LEMMA StopKeeps ==
    ASSUME IInv, NEW p \in Runners, dec' = [dec EXCEPT ![p] = NoDecode],
           proc' \in Cfgs \cup {0},
           UNCHANGED <<file, raw, metas, txs, late, items, typed, acks>>
    PROVE  IInv'
<1>1. dec' \in [Runners -> DecType] /\ \A q \in Runners : dec'[q] = IF q = p THEN NoDecode ELSE dec[q]
    BY IdleType, Zenon DEF IInv, Typed
<1>2. Typed'
    BY <1>1, Zenon DEF IInv, Typed
<1>3. Timed'
    BY <1>1, IdleType, Zenon DEF IInv, Timed
<1>4. W' = NoDecode \/ W' = W
    BY <1>1, Zenon DEF W, Runners
<1>5. Holding'
    BY <1>4, IdleType, Zenon DEF IInv, Holding
<1>6. Accounted'
    <2>1. CASE W' = NoDecode
        <3>1. \A l : InHand(l)'
            BY <2>1, IdleType, Zenon DEF InHand
        <3>2. \A l : (Waits(l) => Waits(l)') /\ (Acked(l) => Acked(l)')
            BY <3>1, Zenon DEF Waits, Acked, Placed, HasRow
        <3> QED BY <3>1, <3>2, Zenon DEF IInv, Accounted
    <2>2. CASE W' = W
        BY <2>2 DEF IInv, Accounted, Waits, Acked, InHand, Handled, Written, Placed, HasRow
    <2> QED BY <2>1, <2>2, <1>4, Zenon
<1> QED BY <1>2, <1>3, <1>5, <1>6, Zenon DEF IInv

\* commit_ingest adds records of one block together with an item for it.
LEMMA IngestKeeps ==
    ASSUME IInv, NEW h \in Heights, Ingest(h) \/ IngestStale(h)
    PROVE  IInv'
<1>0. Typed /\ Timed /\ Holding /\ Accounted
    BY Zenon DEF IInv
<1>1. /\ UNCHANGED <<file, proc, typed, dec, acks>> /\ push_in_tx(h)
      /\ raw' = raw \cup Fetched(h) /\ metas' = metas \cup {h}
      /\ txs' = txs \cup block_aux(Fetched(h)) \/ txs' = txs
    BY Zenon DEF Ingest, IngestStale, commit_ingest, files, process
<1>2. raw \subseteq raw' /\ raw' \subseteq Logs /\ \A l \in raw' : l \in raw \/ l.height = h
    BY <1>0, <1>1, Zenon DEF Fetched, Typed
<1>3. txs \subseteq txs' /\ txs' \subseteq Txs /\ \A t \in txs' : t \in txs \/ t.height = h
    BY <1>0, <1>1, TablesAssumption, Zenon DEF block_aux, Fetched, Typed
<1>4. W' = W
    BY <1>1, Zenon DEF W
<1>5. /\ items' \in Seq(Heights \cup {0}) /\ \E n \in DOMAIN items' : items'[n] = h
      /\ \A n \in DOMAIN items : n \in DOMAIN items' /\ items'[n] = items[n]
    <2>1. CASE items' = items /\ \E n \in DOMAIN items : items[n] = h
        BY <2>1, <1>0, Zenon DEF Typed
    <2>2. CASE items' = Append(items, h)
        <3>1. /\ Len(items) + 1 \in DOMAIN items' /\ items'[Len(items) + 1] = h
              /\ items' \in Seq(Heights \cup {0})
              /\ \A n \in DOMAIN items : n \in DOMAIN items' /\ items'[n] = items[n]
            BY <2>2, <1>0 DEF Typed
        <3> QED BY <3>1, Zenon
    <2> QED BY <2>1, <2>2, <1>1, Zenon DEF push_in_tx
<1>6. Typed' /\ Timed' /\ Holding'
    BY <1>0, <1>1, <1>2, <1>3, <1>4, <1>5, Zenon DEF Typed, Timed, Holding
<1>7. \A row : HasRow(row)' = HasRow(row) /\ Written(row)' = Written(row)
    BY <1>1, <1>4, Zenon DEF HasRow, Written
<1>8. ASSUME NEW l \in raw' \ late', l.height # h
      PROVE  (Waits(l)' \/ Acked(l)') /\ (l.height \in W'.heights => InHand(l)')
    <2>1. l \in raw \ late /\ \A t \in txs' : t.id = l.tx => t \in txs
        BY <1>1, <1>2, <1>3, <1>8, TablesAssumption, Zenon DEF push_in_tx
    <2>2. (Waits(l) => Waits(l)') /\ (Acked(l) => Acked(l)')
        BY <1>1, <1>5, <1>7, <2>1, Zenon DEF Waits, Acked, Placed
    <2>3. InHand(l) => InHand(l)'
        BY <1>4, <1>7, <2>1, Zenon DEF InHand, Handled
    <2> QED BY <1>0, <1>4, <2>1, <2>2, <2>3, Zenon DEF Accounted
<1>9. ASSUME NEW l \in raw' \ late', l.height = h
      PROVE  Waits(l)' /\ (l.height \in W'.heights => InHand(l)')
    <2>1. Waits(l)'
        BY <1>5, <1>9, Zenon DEF Waits
    <2>2. CASE W.pc \in {"idle", "raw"} \/ h \notin W.heights
        BY <2>1, <2>2, <1>4, <1>9, Zenon DEF InHand
    <2>3. CASE W.pc \in {"blocks", "upsert"} /\ h \in W.heights
        <3>1. \E n \in DOMAIN items : items[n] = h
            BY <2>3, <1>0, Zenon DEF Holding
        <3>2. late' = late \cup Missed(h)
            BY <3>1, <1>1, Zenon DEF push_in_tx
        <3>3. l \in raw \ late /\ (W.pc = "upsert" => \A t \in txs' : t.id = l.tx => t \in txs)
            BY <3>2, <2>3, <1>9, Zenon DEF Missed, W
        <3>4. InHand(l)
            BY <3>3, <2>3, <1>0, <1>9, Zenon DEF Accounted
        <3>5. InHand(l)'
            BY <3>3, <3>4, <2>3, <1>4, <1>7, Zenon DEF InHand, Handled
        <3> QED BY <2>1, <3>5, Zenon
    <2>4. W.pc \in {"idle", "raw", "blocks", "upsert"}
        BY <1>0, Zenon DEF Typed, DecType, W, Runners
    <2> QED BY <2>2, <2>3, <2>4, Zenon
<1>10. Accounted'
    BY <1>8, <1>9, Zenon DEF Accounted
<1> QED BY <1>6, <1>10, Zenon DEF IInv

LEMMA PullKeeps ==
    ASSUME IInv, Pull
    PROVE  IInv'
<1>0. Typed /\ Timed /\ Holding /\ Accounted
    BY Zenon DEF IInv
<1>1. PICK n \in DOMAIN items :
        /\ items[n] # 0
        /\ dec' = [dec EXCEPT !["worker"] = [NoDecode EXCEPT
              !.pc = "raw", !.cfg = proc, !.item = n, !.heights = {items[n]}]]
    BY Zenon DEF Pull
<1>2. UNCHANGED <<file, proc, raw, metas, txs, late, items, typed, acks>> /\ proc # 0
    BY Zenon DEF Pull, files, process, store
<1> DEFINE new == [NoDecode EXCEPT !.pc = "raw", !.cfg = proc, !.item = n, !.heights = {items[n]}]
<1>3. n \in Nat /\ items[n] \in Heights /\ proc \in Cfgs
    BY <1>0, <1>1, <1>2 DEF Typed
<1>4. new \in DecType /\ new.pc = "raw" /\ new.cfg = proc /\ new.item = n /\ new.heights = {items[n]}
      /\ new.logs = {} /\ new.rows = {}
    BY <1>3, ZenonT(30) DEF NoDecode, DecType
<1> HIDE DEF new
<1>5. /\ dec' = [dec EXCEPT !["worker"] = new] /\ dec' \in [Runners -> DecType]
      /\ \A q \in Runners : dec'[q] = IF q = "worker" THEN new ELSE dec[q]
    BY <1>0, <1>1, <1>4, ZenonT(30) DEF new, Typed
<1>6. W' = new
    BY <1>5, Zenon DEF W, Runners
<1>7. Typed' /\ Timed' /\ Holding'
    BY <1>0, <1>1, <1>2, <1>3, <1>4, <1>5, <1>6, ZenonT(30) DEF Typed, Timed, Holding
<1>8. Accounted'
    <2>1. \A l : InHand(l)'
        BY <1>4, <1>6, Zenon DEF InHand
    <2>2. \A l : (Waits(l) => Waits(l)') /\ (Acked(l) => Acked(l)')
        BY <2>1, <1>2, Zenon DEF Waits, Acked, Placed, HasRow
    <2> QED BY <2>1, <2>2, <1>0, <1>2, Zenon DEF Accounted
<1> QED BY <1>7, <1>8, Zenon DEF IInv

\* A step of one decode: what it holds is stored, and what it writes has a time.
LEMMA DecodeStep ==
    ASSUME Typed, Timed, NEW p \in Runners, NEW d \in DecType,
           dec' = [dec EXCEPT ![p] = d], d.logs \subseteq raw, \A r \in d.rows : r.stamped,
           UNCHANGED <<file, proc, raw, metas, txs, late>>,
           items' \in Seq(Heights \cup {0}), \A r \in typed' : r.stamped
    PROVE  Typed' /\ Timed' /\ W' = (IF p = "worker" THEN d ELSE W)
<1>1. /\ dec' \in [Runners -> DecType]
      /\ \A q \in Runners : dec'[q] = IF q = p THEN d ELSE dec[q]
    BY Zenon DEF Typed
<1>2. Typed' /\ Timed'
    BY <1>1, Zenon DEF Typed, Timed
<1>3. W' = IF p = "worker" THEN d ELSE W
    BY <1>1, Zenon DEF W, Runners
<1> QED BY <1>2, <1>3, Zenon

\* Rows that are there stay there: what `resync` does leaves the items alone.
LEMMA ResyncLeaves ==
    ASSUME Holding, Accounted, W' = W, typed \subseteq typed',
           UNCHANGED <<raw, txs, late, items, acks>>
    PROVE  Holding' /\ Accounted'
<1>1. Holding'
    BY Zenon DEF Holding
<1>2. \A row : (HasRow(row) => HasRow(row)') /\ (Written(row) => Written(row)')
    BY Zenon DEF HasRow, Written
<1>3. \A l : (Waits(l) => Waits(l)') /\ (Acked(l) => Acked(l)') /\ (InHand(l) => InHand(l)')
    BY <1>2, Zenon DEF Waits, Acked, InHand, Handled, Placed
<1> QED BY <1>1, <1>3, Zenon DEF Accounted

LEMMA ResyncKeeps ==
    ASSUME IInv, Resync
    PROVE  IInv'
<1>0. Typed /\ Timed /\ Holding /\ Accounted
    BY Zenon DEF IInv
<1> DEFINE d == [NoDecode EXCEPT !.pc = "raw", !.cfg = file, !.heights = Heights]
<1>1. UNCHANGED <<file, proc, raw, metas, txs, late, items, typed, acks>> /\ dec' = [dec EXCEPT !["resync"] = d]
    BY Zenon DEF Resync, files, process, store
<1>2. d \in DecType /\ d.logs = {} /\ d.rows = {}
    BY <1>0, ZenonT(30) DEF Typed, NoDecode, DecType
<1> HIDE DEF d
<1>3. "resync" \in Runners /\ "resync" # "worker"
    BY Zenon DEF Runners
<1>4. items' \in Seq(Heights \cup {0}) /\ \A r \in typed' : r.stamped
    BY <1>0, <1>1, Zenon DEF Typed, Timed
<1>5. Typed' /\ Timed' /\ W' = W
    BY <1>0, <1>1, <1>2, <1>3, <1>4, DecodeStep, ZenonT(30)
<1>6. Holding' /\ Accounted'
    BY <1>0, <1>1, <1>5, ResyncLeaves, Zenon
<1> QED BY <1>5, <1>6, Zenon DEF IInv

LEMMA ReadRawKeeps ==
    ASSUME IInv, NEW p \in Runners, ReadRaw(p)
    PROVE  IInv'
<1>0. Typed /\ Timed /\ Holding /\ Accounted /\ dec[p] \in DecType /\ dec \in [Runners -> DecType]
    BY Zenon DEF IInv, Typed
<1> DEFINE logs == {l \in raw : l.height \in dec[p].heights}
           d == [dec[p] EXCEPT !.pc = "blocks", !.logs = logs]
<1>1. /\ UNCHANGED <<file, proc, raw, metas, txs, late, items, typed, acks>> /\ dec[p].pc = "raw"
      /\ dec' = [dec EXCEPT ![p].pc = "blocks", ![p].logs = logs]
    BY Zenon DEF ReadRaw, files, process, store
<1>2. dec' = [dec EXCEPT ![p] = d]
    BY <1>0, <1>1, ZenonT(30)
<1>3. d \in DecType /\ d.logs = logs /\ d.rows = dec[p].rows /\ d.pc = "blocks"
      /\ d.item = dec[p].item /\ d.heights = dec[p].heights /\ d.cfg = dec[p].cfg
    BY <1>0, <1>1, ZenonT(30) DEF DecType, Typed
<1> HIDE DEF d
<1>4. items' \in Seq(Heights \cup {0}) /\ (\A r \in typed' : r.stamped) /\ \A r \in d.rows : r.stamped
    BY <1>0, <1>1, <1>3, Zenon DEF Typed, Timed
<1>5. Typed' /\ Timed' /\ W' = (IF p = "worker" THEN d ELSE W)
    BY <1>0, <1>1, <1>2, <1>3, <1>4, DecodeStep, ZenonT(30)
<1>6. CASE p # "worker"
    BY <1>0, <1>1, <1>5, <1>6, ResyncLeaves, Zenon DEF IInv
<1>7. CASE p = "worker"
    <2>1. W' = d /\ W = dec[p]
        BY <1>5, <1>7, Zenon DEF W
    <2>2. Holding'
        BY <2>1, <1>0, <1>1, <1>3, Zenon DEF Holding
    <2>3. \A l \in raw : l.height \in W'.heights => InHand(l)'
        BY <2>1, <1>3, Zenon DEF InHand
    <2>4. \A l : (Waits(l) => Waits(l)') /\ (Acked(l) => Acked(l)')
        BY <1>1, Zenon DEF Waits, Acked, Placed, HasRow
    <2> QED BY <2>2, <2>3, <2>4, <1>0, <1>1, <1>5, Zenon DEF IInv, Accounted
<1> QED BY <1>6, <1>7, Zenon

LEMMA ReadBlocksKeeps ==
    ASSUME IInv, NEW p \in Runners, ReadBlocks(p)
    PROVE  IInv'
<1>0. Typed /\ Timed /\ Holding /\ Accounted /\ dec[p] \in DecType /\ dec \in [Runners -> DecType]
    BY Zenon DEF IInv, Typed
<1> DEFINE old == dec[p]
           cfg == old.cfg
           known == {k \in old.logs : Known(cfg, k)}
           calls == {t \in calldata(old.logs) : KnownCall(cfg, t)}
           rows == {Stamp(decode(Decoders[cfg], l), l.height) : l \in known}
                   \cup {Stamp(decode_call(Decoders[cfg], t), t.height) : t \in calls}
           d == [old EXCEPT !.pc = "upsert", !.rows = rows]
<1>1. /\ UNCHANGED <<file, proc, raw, metas, txs, late, items, typed, acks>> /\ old.pc = "blocks"
      /\ Quit(p) \/ dec' = [dec EXCEPT ![p].pc = "upsert", ![p].rows = rows]
    BY Zenon DEF ReadBlocks, files, process, store
<1>2. CASE Quit(p)
    <2>1. proc' \in Cfgs \cup {0}
        BY <1>0, <1>1, Zenon DEF Typed
    <2> QED BY <2>1, <1>1, <1>2, StopKeeps, ZenonT(30) DEF Quit
<1>3. CASE dec' = [dec EXCEPT ![p].pc = "upsert", ![p].rows = rows]
    <2>1. /\ old.logs \subseteq raw /\ raw \subseteq Logs /\ known \subseteq raw /\ txs \subseteq Txs
          /\ calls \subseteq txs /\ \A t \in calls : \E l \in old.logs : l.tx = t.id
        BY <1>0, Zenon DEF Typed, Timed, calldata
    <2>2. (\A l \in known : times(l.height)) /\ \A t \in calls : times(t.height)
        BY <2>1, <1>0, TablesAssumption DEF Timed, times
    <2>3. cfg \in Cfgs
        BY <1>0, <1>1, Zenon DEF DecType
    <2>4. rows \subseteq StampedRow
        <3> SUFFICES ASSUME NEW r \in rows PROVE r \in StampedRow
            BY Zenon
        <3>0. PICK row \in Decoded : \E h : r = Stamp(row, h)
            <4>1. CASE \E l \in known : r = Stamp(decode(Decoders[cfg], l), l.height)
                BY <4>1, <2>1, <2>3 DEF Decoded
            <4>2. CASE \E t \in calls : r = Stamp(decode_call(Decoders[cfg], t), t.height)
                BY <4>2, <2>1, <2>3 DEF Decoded
            <4> QED BY <4>1, <4>2, Zenon
        <3>1. PICK h : r = Stamp(row, h)
            BY <3>0, Zenon
        <3>2. times(h) \in BOOLEAN
            BY DEF times
        <3>3. r = [table |-> row.table, key |-> row.key, fields |-> row.fields, stamped |-> times(h)]
            BY <3>1, Zenon DEF Stamp
        <3>4. PICK b \in BOOLEAN : b = times(h)
            BY <3>2, Zenon
        <3>5. r = [table |-> row.table, key |-> row.key, fields |-> row.fields, stamped |-> b]
            BY <3>3, <3>4, Zenon
        <3> QED BY <3>1, <3>5 DEF StampedRow
    <2>5. \A r \in rows : r.stamped
        <3>1. \A row, h : Stamp(row, h).stamped = times(h)
            BY Zenon DEF Stamp
        <3>2. TAKE r \in rows
        <3>3. CASE \E l \in known : r = Stamp(decode(Decoders[cfg], l), l.height)
            <4>1. PICK l \in known : r = Stamp(decode(Decoders[cfg], l), l.height)
                BY <3>3, Zenon
            <4>2. r.stamped = times(l.height)
                BY <4>1, <3>1
            <4> QED BY <4>2, <2>2, Zenon
        <3>4. CASE \E t \in calls : r = Stamp(decode_call(Decoders[cfg], t), t.height)
            <4>1. PICK t \in calls : r = Stamp(decode_call(Decoders[cfg], t), t.height)
                BY <3>4, Zenon
            <4>2. r.stamped = times(t.height)
                BY <4>1, <3>1
            <4> QED BY <4>2, <2>2, Zenon
        <3> QED BY <3>3, <3>4, Zenon
    <2> DEFINE About(row) == \E r \in rows : r.table = row.table /\ r.key = row.key
    <2>6. /\ \A l \in known : About(decode(Decoders[cfg], l))
          /\ \A t \in calls : About(decode_call(Decoders[cfg], t))
        <3>1. \A row, h : Stamp(row, h).table = row.table /\ Stamp(row, h).key = row.key
            BY Zenon DEF Stamp
        <3> QED BY <3>1
    <2> HIDE DEF rows
    <2>7. dec' = [dec EXCEPT ![p] = d]
        BY <1>0, <1>3, ZenonT(30)
    <2>8. d \in DecType /\ d.logs = old.logs /\ d.rows = rows /\ d.pc = "upsert"
          /\ d.item = old.item /\ d.heights = old.heights /\ d.cfg = cfg
        BY <1>0, <2>3, <2>4, ZenonT(30) DEF DecType
    <2> HIDE DEF d
    <2>9. items' \in Seq(Heights \cup {0}) /\ (\A r \in typed' : r.stamped) /\ d.logs \subseteq raw
          /\ \A r \in d.rows : r.stamped
        BY <1>0, <1>1, <2>1, <2>5, <2>8, Zenon DEF Typed, Timed
    <2>10. Typed' /\ Timed' /\ W' = (IF p = "worker" THEN d ELSE W)
        BY <1>0, <1>1, <2>7, <2>8, <2>9, DecodeStep, ZenonT(30)
    <2>11. CASE p # "worker"
        BY <1>0, <1>1, <2>10, <2>11, ResyncLeaves, Zenon DEF IInv
    <2>12. CASE p = "worker"
        <3>1. W' = d /\ W = old
            BY <2>10, <2>12, Zenon DEF W
        <3>2. Holding'
            BY <3>1, <1>0, <1>1, <2>8, Zenon DEF Holding
        <3>3. \A l \in old.logs : InHand(l)'
            <4> SUFFICES ASSUME NEW l \in old.logs PROVE Handled(l)'
                BY <3>1, <2>8, Zenon DEF InHand
            <4>1. PICK c : c = cfg
                BY Zenon
            <4>2. Known(c, l) => About(decode(Decoders[c], l))
                BY <4>1, <2>6, Zenon
            <4>3. \A t \in txs : t.id = l.tx /\ KnownCall(c, t) => About(decode_call(Decoders[c], t))
                BY <4>1, <2>6, Zenon DEF calldata
            <4>4. \A row : About(row) => Written(row)'
                BY <3>1, <2>8, Zenon DEF Written
            <4>5. W'.cfg = c /\ txs' = txs
                BY <3>1, <2>8, <1>1, <4>1, Zenon
            <4> QED BY <4>2, <4>3, <4>4, <4>5, Zenon DEF Handled
        <3>4. \A l : InHand(l) => InHand(l)'
            BY <3>1, <3>3, <1>1, Zenon DEF InHand
        <3>5. \A l : (Waits(l) => Waits(l)') /\ (Acked(l) => Acked(l)')
            BY <1>1, Zenon DEF Waits, Acked, Placed, HasRow
        <3>6. W'.heights = W.heights
            BY <3>1, <2>8, Zenon
        <3> QED BY <3>2, <3>4, <3>5, <3>6, <2>10, <1>0, <1>1, Zenon DEF IInv, Accounted
    <2> QED BY <2>11, <2>12, Zenon
<1> QED BY <1>1, <1>2, <1>3, Zenon

\* A key that is taken is as good as a row that is inserted.
LEMMA InsertedHasRow ==
    ASSUME NEW batch, typed' = typed \cup Inserted(batch)
    PROVE  \A r \in batch : \E o \in typed' : o.table = r.table /\ o.key = r.key
<1> SUFFICES ASSUME NEW r \in batch, ~\E o \in typed : o.table = r.table /\ o.key = r.key
             PROVE  \E o \in Inserted(batch) : o.table = r.table /\ o.key = r.key
    BY Zenon
<1> DEFINE o == [table |-> r.table, key |-> r.key, columns |-> DOMAIN r.fields, stamped |-> r.stamped]
<1>1. o \in Inserted(batch)
    BY Zenon DEF Inserted
<1>2. o.table = r.table /\ o.key = r.key
    BY Zenon
<1> QED BY <1>1, <1>2, Zenon

LEMMA UpsertKeeps ==
    ASSUME IInv, NEW p \in Runners, upsert_batch(p)
    PROVE  IInv'
<1>0. Typed /\ Timed /\ Holding /\ Accounted /\ dec[p] \in DecType /\ dec \in [Runners -> DecType]
    BY Zenon DEF IInv, Typed
<1>1. UNCHANGED <<file, proc, raw, metas, txs, late, items, acks>> /\ dec[p].pc = "upsert"
    BY Zenon DEF upsert_batch, files, process, store
<1>2. CASE Quit(p) /\ UNCHANGED typed
    <2>1. proc' \in Cfgs \cup {0}
        BY <1>0, <1>1, Zenon DEF Typed
    <2> QED BY <2>1, <1>1, <1>2, StopKeeps, ZenonT(30) DEF Quit
<1>3. ASSUME NEW batch \in SUBSET dec[p].rows,
             typed' = typed \cup Inserted(batch), dec' = [dec EXCEPT ![p].rows = @ \ batch]
      PROVE  IInv'
    <2> DEFINE old == dec[p]
               d == [old EXCEPT !.rows = @ \ batch]
    <2>1. dec' = [dec EXCEPT ![p] = d]
        BY <1>0, <1>3, Zenon
    <2>2. d \in DecType /\ d.logs = old.logs /\ d.rows = old.rows \ batch /\ d.pc = "upsert"
          /\ d.item = old.item /\ d.heights = old.heights /\ d.cfg = old.cfg
        BY <1>0, <1>1, Zenon DEF DecType
    <2> HIDE DEF d
    <2>3. \A r \in Inserted(batch) : r.stamped
        BY <1>0, <1>3 DEF Inserted, Timed
    <2>4. items' \in Seq(Heights \cup {0}) /\ (\A r \in typed' : r.stamped) /\ d.logs \subseteq raw
          /\ \A r \in d.rows : r.stamped
        BY <1>0, <1>1, <1>3, <2>2, <2>3, Zenon DEF Typed, Timed
    <2>5. Typed' /\ Timed' /\ W' = (IF p = "worker" THEN d ELSE W)
        BY <1>0, <1>1, <2>1, <2>2, <2>4, DecodeStep, ZenonT(30)
    <2>6. CASE p # "worker"
        BY <1>0, <1>1, <1>3, <2>5, <2>6, ResyncLeaves, Zenon DEF IInv
    <2>7. CASE p = "worker"
        <3>1. W' = d /\ W = old
            BY <2>5, <2>7, Zenon DEF W
        <3>2. Holding'
            BY <3>1, <1>0, <1>1, <2>2, Zenon DEF Holding
        <3>3. \A row : HasRow(row) => HasRow(row)'
            BY <1>3, Zenon DEF HasRow
        <3>4. \A row : Written(row) => Written(row)'
            BY <3>1, <3>3, <1>3, <2>2, InsertedHasRow DEF Written, HasRow
        <3>5. W'.cfg = W.cfg /\ W'.pc = W.pc /\ W'.heights = W.heights
            BY <3>1, <2>2, <1>1, Zenon
        <3>6. \A l : InHand(l) => InHand(l)'
            BY <3>1, <3>4, <3>5, <1>1, Zenon DEF InHand, Handled
        <3>7. \A l : (Waits(l) => Waits(l)') /\ (Acked(l) => Acked(l)')
            BY <3>3, <1>1, Zenon DEF Waits, Acked, Placed
        <3> QED BY <3>2, <3>5, <3>6, <3>7, <2>5, <1>0, <1>1, Zenon DEF IInv, Accounted
    <2> QED BY <2>6, <2>7, Zenon
<1> QED BY <1>2, <1>3, ZenonT(30) DEF upsert_batch

\* An acked item had nothing left to write, so its records are in their tables.
LEMMA FinishKeeps ==
    ASSUME IInv, NEW p \in Runners, Finish(p)
    PROVE  IInv'
<1>0. Typed /\ Timed /\ Holding /\ Accounted
    BY Zenon DEF IInv
<1>1. /\ UNCHANGED <<file, proc, raw, metas, txs, late, typed>>
      /\ dec[p].pc = "upsert" /\ dec[p].rows = {} /\ dec' = [dec EXCEPT ![p] = NoDecode]
    BY Zenon DEF Finish, files, process, store, Quit
<1>2. proc' \in Cfgs \cup {0}
    BY <1>0, <1>1, Zenon DEF Typed
<1>3. CASE p # "worker"
    BY <1>1, <1>2, <1>3, StopKeeps, ZenonT(30) DEF Finish
<1>4. CASE p = "worker"
    <2> DEFINE m == W.item
               h == items[m]
    <2>1. /\ W = dec[p] /\ m \in DOMAIN items /\ h # 0
          /\ items' = [items EXCEPT ![m] = 0] /\ acks' = acks \cup {<<h, W.cfg>>}
        BY <1>0, <1>1, <1>4, Zenon DEF Finish, W, Holding
    <2>2. /\ items' \in Seq(Heights \cup {0}) /\ DOMAIN items' = DOMAIN items
          /\ \A n \in DOMAIN items : n # m => items'[n] = items[n]
        BY <2>1, <1>0 DEF Typed
    <2>3. NoDecode \in DecType /\ NoDecode.logs \subseteq raw /\ (\A r \in NoDecode.rows : r.stamped)
          /\ \A r \in typed' : r.stamped
        BY <1>0, <1>1, IdleType, Zenon DEF Timed
    <2>4. Typed' /\ Timed' /\ W' = NoDecode
        BY <1>0, <1>1, <1>4, <2>2, <2>3, DecodeStep, ZenonT(30)
    <2>5. Holding' /\ \A l : InHand(l)'
        BY <2>4, IdleType, Zenon DEF Holding, InHand
    <2>6. \A row : Written(row) => HasRow(row)'
        BY <1>1, <2>1, Zenon DEF Written, HasRow
    <2>7. \A l : Acked(l) => Acked(l)'
        BY <1>1, <2>1, Zenon DEF Acked, Placed, HasRow
    <2>8. \A l \in raw \ late : Waits(l) => Waits(l)' \/ Acked(l)'
        <3> SUFFICES ASSUME NEW l \in raw \ late, NEW n \in DOMAIN items, items[n] = l.height
                     PROVE  Waits(l)' \/ Acked(l)'
            BY Zenon DEF Waits
        <3>1. CASE n # m
            BY <3>1, <2>2, Zenon DEF Waits
        <3>2. CASE n = m
            <4>1. PICK c, g : c = W.cfg /\ g = h
                BY Zenon
            <4>0. InHand(l)
                BY <3>2, <1>0, <1>1, <2>1, Zenon DEF Holding, Accounted
            <4>2. Handled(l)
                BY <4>0, <1>1, <2>1, Zenon DEF InHand
            <4>3. Placed(c, l)'
                BY <4>1, <4>2, <2>6, <1>1, Zenon DEF Handled, Placed
            <4>4. <<g, c>> \in acks' /\ g = l.height
                BY <4>1, <3>2, <2>1, Zenon
            <4> QED BY <4>3, <4>4, Zenon DEF Acked
        <3> QED BY <3>1, <3>2, Zenon
    <2> QED BY <2>4, <2>5, <2>7, <2>8, <1>0, <1>1, Zenon DEF IInv, Accounted
<1> QED BY <1>3, <1>4, Zenon

-----------------------------------------------------------------------------
LEMMA Inductive == IInv /\ [Next]_vars => IInv'
<1> SUFFICES ASSUME IInv, [Next]_vars PROVE IInv'
    BY Zenon
<1>1. CASE EditConfig \/ Migrating \/ Boot \/ BootDecode
    BY <1>1, OperatorKeeps, Zenon
<1>2. CASE Stop
    <2>1. dec' = [dec EXCEPT !["worker"] = NoDecode] /\ proc' = 0
          /\ UNCHANGED <<file, raw, metas, txs, late, items, typed, acks>>
        BY <1>2, Zenon DEF Stop, files, store
    <2> QED BY <2>1, StopKeeps, Zenon DEF Runners
<1>3. ASSUME NEW h \in Heights, Ingest(h) \/ IngestStale(h) PROVE IInv'
    BY <1>3, IngestKeeps, Zenon
<1>4. CASE Pull \/ Resync
    BY <1>4, PullKeeps, ResyncKeeps, Zenon
<1>5. ASSUME NEW p \in Runners, Decode(p) PROVE IInv'
    BY <1>5, ReadRawKeeps, ReadBlocksKeeps, UpsertKeeps, FinishKeeps, Zenon DEF Decode
<1>6. ASSUME NEW p \in Runners, DecodeFails(p) PROVE IInv'
    <2>1. dec' = [dec EXCEPT ![p] = NoDecode] /\ proc' = proc
          /\ UNCHANGED <<file, raw, metas, txs, late, items, typed, acks>>
        BY <1>6, Zenon DEF DecodeFails, Quit, files, process, store
    <2>2. proc' \in Cfgs \cup {0}
        BY <2>1, Zenon DEF IInv, Typed
    <2> QED BY <2>1, <2>2, StopKeeps, ZenonT(30)
<1>7. CASE UNCHANGED vars
    <2>1. UNCHANGED <<file, proc, raw, metas, txs, late, items, typed, dec, acks>>
        BY <1>7, Zenon DEF vars, files, process, store, decoding
    <2>2. Typed' /\ Timed' /\ W' = W
        BY <2>1, Zenon DEF IInv, Typed, Timed, W
    <2> QED BY <2>1, <2>2, ResyncLeaves, Zenon DEF IInv
<1> QED BY <1>1, <1>2, <1>3, <1>4, <1>5, <1>6, <1>7, Zenon DEF Next

LEMMA Invariant == Spec => []IInv
<1> QED BY InitInv, Inductive, PTL DEF Spec

\* decode_range writes one table at a time and stops on the first error.
\* However often it does, and whatever `migrate`, `resync`, edits of the file
\* and crashes come in between: a raw record still has a work item, or all of
\* its rows are in the tables that the worker that acked it knew.  Only a record
\* that was committed while a worker had its block in hand is left out (`late`).
THEOREM NoRecordLost == Spec => []RecordsAccounted
<1>1. IInv => RecordsAccounted
    BY Zenon DEF IInv, Accounted, Waits, Acked, RecordsAccounted
<1> QED BY <1>1, Invariant, PTL

\* decode_range reads the raw records first and the times of their blocks
\* after them, and commit_ingest writes both in one transaction: no row is
\* ever written without the time of its block.
THEOREM AlwaysStamped == Spec => []RowsAreStamped
<1>1. IInv => RowsAreStamped
    BY Zenon DEF IInv, Timed, RowsAreStamped
<1> QED BY <1>1, Invariant, PTL

-----------------------------------------------------------------------------
(* The schemas of a configuration.                                         *)

\* A non-empty set of numbers up to n has a greatest element.
LEMMA GreatestOf ==
    ASSUME NEW n \in Nat, NEW T, T \subseteq 1 .. n, T # {}
    PROVE  \E x \in T : \A y \in T : y <= x
<1> DEFINE R == OpToRel(<, Nat)
           D == {n - b : b \in T}
<1>1. IsWellFoundedOn(R, Nat)
    BY NatLessThanWellFounded, Zenon
<1>2. \A x, y \in Nat : x < y => <<x, y>> \in R
    BY Zenon DEF OpToRel
<1> HIDE DEF R
<1>a. \A b \in T : n - b \in Nat
    OBVIOUS
<1>3. D \subseteq Nat /\ D # {}
    BY <1>a, Zenon
<1>4. PICK d \in D : \A e \in D : <<e, d>> \notin R
    BY <1>1, <1>3, WFMin, Zenon
<1>5. PICK x \in T : d = n - x
    BY Zenon
<1>6. ASSUME NEW y \in T PROVE y <= x
    <2>1. n - y \in D /\ n - y \in Nat /\ d \in Nat
        BY <1>3, Zenon
    <2>2. ~(n - y < d)
        BY <1>2, <1>4, <2>1, ZenonT(30)
    <2> QED BY <1>5, <2>1, <2>2
<1> QED BY <1>5, <1>6, ZenonT(30)

\* Indices <<i, j>> of lists of len[i] entries.
Pairs(n, len) == UNION {{i} \X (1 .. len[i]) : i \in 1 .. n}

\* So the insertion into the maps of AbiIndex has a last one for every key.
LEMMA LastOf ==
    ASSUME NEW n \in Nat, NEW len \in [1 .. n -> Nat],
           NEW T, T \subseteq Pairs(n, len), T # {}
    PROVE  \E x \in T : \A y \in T : Later(x, y)
<1>0. \A x \in T : x[1] \in 1 .. n /\ x[2] \in 1 .. len[x[1]]
    <2> SUFFICES ASSUME NEW x \in T PROVE x[1] \in 1 .. n /\ x[2] \in 1 .. len[x[1]]
        BY Zenon
    <2>1. PICK i \in 1 .. n : x \in {i} \X (1 .. len[i])
        BY Zenon DEF Pairs
    <2>2. x[1] = i /\ x[2] \in 1 .. len[i]
        BY <2>1, Zenon
    <2> QED BY <2>2, Zenon
<1> DEFINE Firsts == {x[1] : x \in T}
<1>1. Firsts \subseteq 1 .. n /\ Firsts # {}
    BY <1>0, Zenon
<1>2. PICK a \in Firsts : \A b \in Firsts : b <= a
    BY <1>1, GreatestOf, ZenonT(30)
<1> DEFINE Seconds == {x[2] : x \in {z \in T : z[1] = a}}
<1>3. Seconds \subseteq 1 .. len[a] /\ Seconds # {} /\ len[a] \in Nat
    BY <1>0, <1>1, <1>2, Zenon
<1>4. PICK c \in Seconds : \A d \in Seconds : d <= c
    <2> HIDE DEF Seconds
    <2> QED BY <1>3, GreatestOf, ZenonT(30)
<1>5. PICK x \in T : x[1] = a /\ x[2] = c
    BY Zenon
<1>6. ASSUME NEW y \in T PROVE Later(x, y)
    <2>1. y[1] \in 1 .. n /\ a \in 1 .. n /\ c \in 1 .. len[a] /\ len[a] \in Nat
          /\ (y[1] = a => y[2] \in 1 .. len[a])
        BY <1>0, <1>1, <1>2, <1>3, <1>4, Zenon
    <2>2. y[1] <= a /\ (y[1] = a => y[2] <= c)
        BY <1>2, <1>4, Zenon
    <2> QED BY <1>5, <2>1, <2>2 DEF Later
<1> QED BY <1>5, <1>6, Zenon

\* The events and the functions of a configuration are listed contract by contract.
LEMMA WantedPairs ==
    ASSUME NEW cfg \in Cfgs
    PROVE  LET C == Configs[cfg]
           IN  /\ Len(C) \in Nat
               /\ \E len \in [1 .. Len(C) -> Nat] : WantedEvents(C) \subseteq Pairs(Len(C), len)
               /\ \E len \in [1 .. Len(C) -> Nat] : WantedFunctions(C) \subseteq Pairs(Len(C), len)
<1> DEFINE C == Configs[cfg]
           es == [i \in 1 .. Len(C) |-> Len(C[i].abi_events)]
           fs == [i \in 1 .. Len(C) |-> Len(C[i].abi_functions)]
<1>1. /\ Len(C) \in Nat /\ DOMAIN C = 1 .. Len(C)
      /\ \A i \in DOMAIN C : /\ Len(C[i].abi_events) \in Nat
                            /\ DOMAIN C[i].abi_events = 1 .. Len(C[i].abi_events)
                            /\ Len(C[i].abi_functions) \in Nat
                            /\ DOMAIN C[i].abi_functions = 1 .. Len(C[i].abi_functions)
    BY AbiAssumption, Zenon DEF Cfgs
<1>2. es \in [1 .. Len(C) -> Nat] /\ fs \in [1 .. Len(C) -> Nat]
    BY <1>1, Zenon
<1>3. WantedEvents(C) \subseteq Pairs(Len(C), es)
    BY <1>1, Zenon DEF WantedEvents, Pairs
<1>4. WantedFunctions(C) \subseteq Pairs(Len(C), fs)
    BY <1>1, Zenon DEF WantedFunctions, Pairs
<1> HIDE DEF es, fs
<1> QED BY <1>1, <1>2, <1>3, <1>4, Zenon

\* The columns of an event's table come from its parameters, one by one.
LEMMA EventEntry ==
    ASSUME NEW cfg \in Cfgs, NEW t \in DOMAIN Decoders[cfg].by_topic0
    PROVE  LET e == Decoders[cfg].by_topic0[t]
           IN  /\ \E ij \in WantedEvents(Configs[cfg]) : e.event = EventAt(Configs[cfg], ij)
               /\ e.event.inputs \in Seq(ParamType)
               /\ e.schema.columns = [i \in DOMAIN e.event.inputs |-> Column(e.event.inputs, i)]
<1> DEFINE C == Configs[cfg]
           same == {ij \in WantedEvents(C) : EventAt(C, ij).topic0 = t}
           last == CHOOSE x \in same : \A y \in same : Later(x, y)
           e == [event |-> EventAt(C, last), schema |-> schema_for(EventAt(C, last), EventTable(C, last))]
<1>1. Decoders[cfg].by_topic0 = by_topic0(C)
    BY Zenon DEF Decoders, build, Cfgs
<1>2. t \in {EventAt(C, ij).topic0 : ij \in WantedEvents(C)} /\ by_topic0(C)[t] = e
    BY <1>1, Zenon DEF by_topic0
<1>3. same # {} /\ same \subseteq WantedEvents(C)
    BY <1>2, Zenon
<1>4. PICK len \in [1 .. Len(C) -> Nat] : WantedEvents(C) \subseteq Pairs(Len(C), len) /\ Len(C) \in Nat
    BY WantedPairs, Zenon
<1>5. last \in WantedEvents(C)
    <2>1. \E x \in same : \A y \in same : Later(x, y)
        <3> HIDE DEF same
        <3> QED BY <1>3, <1>4, LastOf, ZenonT(30)
    <2> HIDE DEF same
    <2> QED BY <1>3, <2>1, Zenon
<1> HIDE DEF last
<1>6. EventAt(C, last).inputs \in Seq(ParamType)
    <2>1. PICK i \in DOMAIN C : last \in {i} \X DOMAIN C[i].abi_events
        BY <1>5, Zenon DEF WantedEvents
    <2>2. last[1] = i /\ last[2] \in DOMAIN C[i].abi_events
        BY <2>1, Zenon
    <2>3. \A j \in DOMAIN C[i].abi_events : C[i].abi_events[j].inputs \in Seq(ParamType)
        BY AbiAssumption, Zenon DEF Cfgs
    <2> QED BY <2>2, <2>3, Zenon DEF EventAt
<1>7. /\ e.event.inputs \in Seq(ParamType)
      /\ e.schema.columns = [i \in DOMAIN e.event.inputs |-> Column(e.event.inputs, i)]
    BY <1>6, Zenon DEF schema_for
<1>8. \E ij \in WantedEvents(C) : e.event = EventAt(C, ij)
    BY <1>5, Zenon
<1> QED BY <1>1, <1>2, <1>7, <1>8

LEMMA CallEntry ==
    ASSUME NEW cfg \in Cfgs, NEW k \in DOMAIN Decoders[cfg].by_call
    PROVE  LET e == Decoders[cfg].by_call[k]
           IN  /\ e.function.inputs \in Seq(ParamType)
               /\ e.schema.columns =
                     [i \in DOMAIN e.function.inputs |-> Column(Unindexed(e.function.inputs), i)]
<1> DEFINE C == Configs[cfg]
           Key(ij) == <<C[ij[1]].address, FunctionAt(C, ij).selector>>
           same == {ij \in WantedFunctions(C) : Key(ij) = k}
           last == CHOOSE x \in same : \A y \in same : Later(x, y)
           e == [function |-> FunctionAt(C, last),
                 schema |-> schema_for_function(FunctionAt(C, last),
                     <<"call", C[last[1]].prefix, FunctionAt(C, last).name>>)]
<1>1. Decoders[cfg].by_call = by_call(C)
    BY Zenon DEF Decoders, build, Cfgs
<1>2. k \in {Key(ij) : ij \in WantedFunctions(C)} /\ by_call(C)[k] = e
    BY <1>1, ZenonT(30) DEF by_call
<1>3. same # {} /\ same \subseteq WantedFunctions(C)
    BY <1>2, ZenonT(30)
<1>4. PICK len \in [1 .. Len(C) -> Nat] : WantedFunctions(C) \subseteq Pairs(Len(C), len) /\ Len(C) \in Nat
    BY WantedPairs, Zenon
<1>5. last \in WantedFunctions(C)
    <2>1. \E x \in same : \A y \in same : Later(x, y)
        <3> HIDE DEF same
        <3> QED BY <1>3, <1>4, LastOf, ZenonT(30)
    <2> HIDE DEF same
    <2> QED BY <1>3, <2>1, Zenon
<1> HIDE DEF last
<1>6. FunctionAt(C, last).inputs \in Seq(ParamType)
    <2>1. PICK i \in DOMAIN C : last \in {i} \X DOMAIN C[i].abi_functions
        BY <1>5, Zenon DEF WantedFunctions
    <2>2. last[1] = i /\ last[2] \in DOMAIN C[i].abi_functions
        BY <2>1, Zenon
    <2>3. \A j \in DOMAIN C[i].abi_functions : C[i].abi_functions[j].inputs \in Seq(ParamType)
        BY AbiAssumption, Zenon DEF Cfgs
    <2> QED BY <2>2, <2>3, Zenon DEF FunctionAt
<1>7. /\ e.function.inputs \in Seq(ParamType)
      /\ e.schema.columns = [i \in DOMAIN e.function.inputs |-> Column(Unindexed(e.function.inputs), i)]
    BY <1>6, Zenon DEF schema_for_function
<1> QED BY <1>1, <1>2, <1>7, SMTT(30)

\* Every schema has a list of columns.
LEMMA SchemaColumns ==
    ASSUME NEW cfg \in Cfgs, NEW s \in schemas(Decoders[cfg])
    PROVE  \E n \in Nat : DOMAIN s.columns = 1 .. n
<1>1. CASE \E t \in DOMAIN Decoders[cfg].by_topic0 : s = Decoders[cfg].by_topic0[t].schema
    <2>1. PICK t \in DOMAIN Decoders[cfg].by_topic0 : s = Decoders[cfg].by_topic0[t].schema
        BY <1>1, Zenon
    <2> DEFINE in == Decoders[cfg].by_topic0[t].event.inputs
    <2>2. in \in Seq(ParamType) /\ s.columns = [i \in DOMAIN in |-> Column(in, i)]
        BY <2>1, EventEntry, Zenon
    <2> HIDE DEF in
    <2>3. DOMAIN s.columns = 1 .. Len(in) /\ Len(in) \in Nat
        BY <2>2
    <2> QED BY <2>3, Zenon
<1>2. CASE \E k \in DOMAIN Decoders[cfg].by_call : s = Decoders[cfg].by_call[k].schema
    <2>1. PICK k \in DOMAIN Decoders[cfg].by_call : s = Decoders[cfg].by_call[k].schema
        BY <1>2, Zenon
    <2> DEFINE in == Decoders[cfg].by_call[k].function.inputs
    <2>2. in \in Seq(ParamType) /\ s.columns = [i \in DOMAIN in |-> Column(Unindexed(in), i)]
        BY <2>1, CallEntry, Zenon
    <2> HIDE DEF in
    <2>3. DOMAIN s.columns = 1 .. Len(in) /\ Len(in) \in Nat
        BY <2>2
    <2> QED BY <2>3, Zenon
<1>3. CASE s \in {aux_schemas[1], aux_schemas[2]}
    <2>1. DOMAIN s.columns = 1 .. 1
        BY <1>3 DEF aux_schemas
    <2> QED BY <2>1, 1 \in Nat, Zenon
<1> QED BY <1>1, <1>2, <1>3, Zenon DEF schemas, EventSchemas

\* The image of a finite set.
LEMMA FiniteImage ==
    ASSUME NEW S, IsFiniteSet(S), NEW f, NEW T, T = {f[x] : x \in S}
    PROVE  IsFiniteSet(T)
<1> DEFINE g == [x \in S |-> f[x]]
<1>1. g \in Surjection(S, T)
    BY Zenon DEF Surjection
<1> HIDE DEF g
<1> QED BY <1>1, FS_Surjection, Zenon

LEMMA PairsFinite ==
    ASSUME NEW n \in Nat, NEW len \in [1 .. n -> Nat]
    PROVE  IsFiniteSet(Pairs(n, len))
<1> DEFINE f == [i \in 1 .. n |-> {i} \X (1 .. len[i])]
           All == {f[i] : i \in 1 .. n}
<1>1. ASSUME NEW m \in Nat PROVE IsFiniteSet(1 .. m)
    BY 1 \in Int, m \in Int, FS_Interval, Zenon
<1>2. ASSUME NEW i \in 1 .. n PROVE IsFiniteSet(f[i])
    <2>1. IsFiniteSet({i}) /\ IsFiniteSet(1 .. len[i])
        BY <1>1, FS_Singleton, Zenon
    <2> QED BY <2>1, FS_Product, Zenon
<1>3. Pairs(n, len) = UNION All
    BY Zenon DEF Pairs
<1> HIDE DEF f
<1>4. IsFiniteSet(All)
    BY <1>1, FiniteImage, Zenon
<1>5. \A T \in All : IsFiniteSet(T)
    BY <1>2, Zenon
<1> HIDE DEF All
<1> QED BY <1>3, <1>4, <1>5, FS_UNION, Zenon

\* There are finitely many event and function tables.
LEMMA SchemasFinite == ASSUME NEW cfg \in Cfgs PROVE IsFiniteSet(EventSchemas(Decoders[cfg]))
<1> DEFINE C == Configs[cfg]
           D == Decoders[cfg]
<1>1. IsFiniteSet(WantedEvents(C))
    <2>1. PICK len \in [1 .. Len(C) -> Nat] : WantedEvents(C) \subseteq Pairs(Len(C), len) /\ Len(C) \in Nat
        BY WantedPairs, Zenon
    <2> QED BY <2>1, PairsFinite, FS_Subset, Zenon
<1>2. IsFiniteSet(WantedFunctions(C))
    <2>1. PICK len \in [1 .. Len(C) -> Nat] : WantedFunctions(C) \subseteq Pairs(Len(C), len) /\ Len(C) \in Nat
        BY WantedPairs, Zenon
    <2> QED BY <2>1, PairsFinite, FS_Subset, Zenon
<1>3. D.by_topic0 = by_topic0(C) /\ D.by_call = by_call(C)
    BY Zenon DEF Decoders, build, Cfgs
<1>4. IsFiniteSet(DOMAIN D.by_topic0)
    <2> DEFINE f == [ij \in WantedEvents(C) |-> EventAt(C, ij).topic0]
    <2>1. DOMAIN D.by_topic0 = {f[ij] : ij \in WantedEvents(C)}
        BY <1>3, Zenon DEF by_topic0
    <2> HIDE DEF f
    <2> QED BY <1>1, <2>1, FiniteImage, Zenon
<1>5. IsFiniteSet(DOMAIN D.by_call)
    <2> DEFINE f == [ij \in WantedFunctions(C) |->
                        <<C[ij[1]].address, FunctionAt(C, ij).selector>>]
    <2>1. DOMAIN D.by_call = {f[ij] : ij \in WantedFunctions(C)}
        BY <1>3, ZenonT(30) DEF by_call
    <2> HIDE DEF f
    <2> QED BY <1>2, <2>1, FiniteImage, Zenon
<1> DEFINE es == [t \in DOMAIN D.by_topic0 |-> D.by_topic0[t].schema]
           cs == [k \in DOMAIN D.by_call |-> D.by_call[k].schema]
<1>6. EventSchemas(D) = {es[t] : t \in DOMAIN D.by_topic0} \cup {cs[k] : k \in DOMAIN D.by_call}
    BY ZenonT(30) DEF EventSchemas
<1> HIDE DEF es, cs, D
<1>7. IsFiniteSet({es[t] : t \in DOMAIN D.by_topic0}) /\ IsFiniteSet({cs[k] : k \in DOMAIN D.by_call})
    BY <1>4, <1>5, FiniteImage, Zenon
<1>8. IsFiniteSet(EventSchemas(D))
    BY <1>6, <1>7, FS_Union, ZenonT(30)
<1> QED BY <1>8, Zenon DEF D

\* A plan goes through all schemas of its configuration, receipts among them.
LEMMA OrderComplete ==
    ASSUME NEW cfg \in Cfgs, NEW order \in Orders[cfg]
    PROVE  /\ order \in Seq(schemas(Decoders[cfg])) /\ order # <<>>
           /\ \A s \in schemas(Decoders[cfg]) : \E i \in DOMAIN order : order[i] = s
<1> DEFINE S == EventSchemas(Decoders[cfg])
           n == Cardinality(S)
           All == schemas(Decoders[cfg])
<1>1. PICK f \in [1 .. n -> S] : (\A s \in S : \E i \in 1 .. n : f[i] = s) /\ order = f \o aux_schemas
    BY ZenonT(30) DEF Orders, Cfgs
<1>2. n \in Nat
    BY SchemasFinite, FS_CardinalityType, Zenon
<1>3. S \subseteq All /\ aux_schemas[1] \in All /\ aux_schemas[2] \in All
      /\ \A s \in All : s \in S \/ s = aux_schemas[1] \/ s = aux_schemas[2]
    BY Zenon DEF schemas
<1> HIDE DEF S, n, All
<1>4. f \in Seq(All) /\ Len(f) = n
    BY <1>1, <1>2, <1>3
<1>5. aux_schemas \in Seq(All) /\ Len(aux_schemas) = 2
    <2>1. PICK a, b : aux_schemas = <<a, b>>
        BY ZenonT(30) DEF aux_schemas
    <2>2. a \in All /\ b \in All
        BY <2>1, <1>3, Zenon
    <2> QED BY <2>1, <2>2
<1>6. /\ order \in Seq(All) /\ DOMAIN order = 1 .. n + 2
      /\ \A i \in 1 .. n : order[i] = f[i]
      /\ order[n + 1] = aux_schemas[1] /\ order[n + 2] = aux_schemas[2]
    <2>1. PICK g \in Seq(All), h \in Seq(All) : g = f /\ h = aux_schemas
        BY <1>4, <1>5, Zenon
    <2>2. order = g \o h /\ Len(g) = n /\ Len(h) = 2
        BY <1>1, <1>4, <1>5, <2>1, Zenon
    <2>3. /\ g \o h \in Seq(All) /\ DOMAIN (g \o h) = 1 .. Len(g) + Len(h)
          /\ \A i \in 1 .. Len(g) : (g \o h)[i] = g[i]
          /\ \A j \in 1 .. Len(h) : (g \o h)[Len(g) + j] = h[j]
        OBVIOUS
    <2> QED BY <2>1, <2>2, <2>3, <1>2
<1>7. ASSUME NEW s \in All PROVE \E i \in DOMAIN order : order[i] = s
    <2>1. CASE s \in S
        <3>1. PICK i \in 1 .. n : f[i] = s
            BY <1>1, <2>1, Zenon
        <3> QED BY <3>1, <1>2, <1>6
    <2>2. CASE s = aux_schemas[1]
        BY <2>2, <1>2, <1>6, n + 1 \in DOMAIN order, Zenon
    <2>3. CASE s = aux_schemas[2]
        BY <2>3, <1>2, <1>6, n + 2 \in DOMAIN order, Zenon
    <2> QED BY <2>1, <2>2, <2>3, <1>3, Zenon
<1>8. order # <<>>
    BY <1>2, <1>6, 1 \in DOMAIN order
<1> QED BY <1>6, <1>7, <1>8, Zenon DEF All

\* The statements for one schema: the table, then its columns, for receipts the
\* foreign key.
LEMMA StatementList ==
    ASSUME NEW s, NEW n \in Nat, DOMAIN s.columns = 1 .. n
    PROVE  /\ Len(table_statements(s)) \in Nat \ {0}
           /\ DOMAIN table_statements(s) = 1 .. Len(table_statements(s))
           /\ table_statements(s)[1] = create_table(s)
           /\ \A i \in 1 .. n : i + 1 \in DOMAIN table_statements(s)
                                /\ table_statements(s)[i + 1] = add_column(s, i)
           /\ s.table = <<"receipts">> =>
                 \E k \in DOMAIN table_statements(s) : table_statements(s)[k] = [op |-> "fk"]
           /\ \A k \in DOMAIN table_statements(s) :
                 \/ k = 1
                 \/ \E i \in 1 .. n : table_statements(s)[k] = add_column(s, i)
                 \/ table_statements(s)[k] = [op |-> "fk"]
<1> DEFINE key == [op |-> "fk"]
           X == {create_table(s), key} \cup {add_column(s, i) : i \in 1 .. n}
           adds == [i \in 1 .. n |-> add_column(s, i)]
<1>1. PICK c \in X : c = create_table(s)
    BY Zenon
<1>2. PICK A \in Seq(X) : A = adds
    <2>1. \A i \in 1 .. n : adds[i] \in X
        BY Zenon
    <2> HIDE DEF X
    <2>2. adds \in [1 .. n -> X]
        BY <2>1, Zenon
    <2> HIDE DEF adds
    <2> QED BY <2>2
<1>3. Len(A) = n /\ \A i \in 1 .. n : A[i] = add_column(s, i)
    BY <1>2
<1>4. PICK K \in Seq(X) : K = foreign_keys(s)
    <2>1. key \in X
        BY Zenon
    <2> HIDE DEF X, key
    <2>2. foreign_keys(s) = <<key>> \/ foreign_keys(s) = <<>>
        BY Zenon DEF foreign_keys, key
    <2>3. <<key>> \in Seq(X) /\ <<>> \in Seq(X)
        BY <2>1
    <2> QED BY <2>2, <2>3, Zenon
<1>5. /\ s.table = <<"receipts">> => Len(K) = 1 /\ K[1] = key
      /\ \A j \in 1 .. Len(K) : K[j] = key
    BY <1>4 DEF foreign_keys
<1> DEFINE st == (<<c>> \o A) \o K
<1>6. table_statements(s) = st
    BY <1>1, <1>2, <1>4, Zenon DEF table_statements
<1> HIDE DEF X, adds, key
<1>7. /\ Len(st) = 1 + Len(A) + Len(K) /\ DOMAIN st = 1 .. Len(st) /\ Len(K) \in Nat
      /\ st[1] = c /\ \A i \in 1 .. Len(A) : st[i + 1] = A[i]
      /\ \A j \in 1 .. Len(K) : st[1 + Len(A) + j] = K[j]
    OBVIOUS
<1> HIDE DEF st
<1>8. ASSUME NEW k \in 1 .. Len(st)
      PROVE  k = 1 \/ (\E i \in 1 .. n : st[k] = add_column(s, i)) \/ st[k] = key
    <2>1. CASE k \in 2 .. n + 1
        <3>1. k - 1 \in 1 .. n /\ st[k] = A[k - 1]
            BY <2>1, <1>3, <1>7
        <3> QED BY <3>1, <1>3, Zenon
    <2>2. CASE k \in n + 2 .. Len(st)
        <3>1. k - 1 - n \in 1 .. Len(K) /\ st[k] = K[k - 1 - n]
            BY <2>2, <1>3, <1>7
        <3> QED BY <3>1, <1>5, Zenon
    <2> QED BY <2>1, <2>2, <1>3, <1>7
<1>9. s.table = <<"receipts">> => 1 + n + 1 \in 1 .. Len(st) /\ st[1 + n + 1] = key
    <2> SUFFICES ASSUME s.table = <<"receipts">>
                 PROVE  1 + n + 1 \in 1 .. Len(st) /\ st[1 + n + 1] = key
        BY Zenon
    <2>1. Len(K) = 1 /\ K[1] = key
        BY <1>5, Zenon
    <2> QED BY <2>1, <1>3, <1>7
<1>10. \A i \in 1 .. n : i + 1 \in 1 .. Len(st) /\ st[i + 1] = add_column(s, i)
    BY <1>3, <1>7
<1> QED BY <1>1, <1>3, <1>6, <1>7, <1>8, <1>9, <1>10 DEF key

-----------------------------------------------------------------------------
(* migrate.                                                                *)

\* What the statement is for is there.
Done(stmt) ==
    \/ stmt.op = "create" /\ stmt.schema.table \in Tables
    \/ stmt.op = "add" /\ stmt.table \in Tables /\ stmt.column.name \in DOMAIN live[stmt.table]
    \/ stmt.op = "fk" /\ fk

Ready(s) == \A k \in DOMAIN table_statements(s) : Done(table_statements(s)[k])

\* The schemas that the running migrate has behind it, and the statements of
\* the schema it is at.
Ahead ==
    /\ mig = [cfg |-> mig.cfg, todo |-> mig.todo, at |-> mig.at]
    /\ mig.cfg # 0 =>
          /\ mig.cfg \in Cfgs /\ mig.todo \in Seq(schemas(Decoders[mig.cfg]))
          /\ \A s \in schemas(Decoders[mig.cfg]) :
                Ready(s) \/ \E i \in DOMAIN mig.todo : mig.todo[i] = s
          /\ mig.todo # <<>> =>
                /\ mig.at \in DOMAIN table_statements(Head(mig.todo))
                /\ \A k \in 1 .. mig.at - 1 : Done(table_statements(Head(mig.todo))[k])

Applied ==
    migrated # 0 => migrated \in Cfgs /\ \A s \in schemas(Decoders[migrated]) : Ready(s)

MigInv ==
    /\ fk => ~orphan
    /\ Ahead
    /\ Applied

\* Nothing is dropped.
Grows ==
    /\ \A t \in DOMAIN live : t \in DOMAIN live' /\ DOMAIN live[t] \subseteq DOMAIN live'[t]
    /\ fk => fk'

LEMMA GrowsKeeps ==
    ASSUME Grows
    PROVE  /\ \A stmt : Done(stmt) => Done(stmt)'
           /\ \A s : Ready(s) => Ready(s)'
<1>1. ASSUME NEW stmt, Done(stmt) PROVE Done(stmt)'
    BY <1>1, Zenon DEF Grows, Done, Tables
<1>2. ASSUME NEW s, Ready(s) PROVE Ready(s)'
    BY <1>1, <1>2, Zenon DEF Ready
<1> QED BY <1>1, <1>2, Zenon

\* A statement that goes through leaves what it is for.
LEMMA ExecuteGrows ==
    ASSUME NEW stmt, Execute(stmt),
           \/ stmt.op = "create"
           \/ stmt.op = "add" /\ stmt.table \in Tables
           \/ stmt.op = "fk"
    PROVE  Grows /\ Done(stmt)'
<1>1. CASE stmt.op = "create"
    BY <1>1, Zenon DEF Execute, Grows, Done, Tables
<1>2. CASE stmt.op = "add" /\ stmt.table \in Tables
    <2> DEFINE old == live[stmt.table]
               new == [n \in DOMAIN old \cup {stmt.column.name} |->
                          IF n \in DOMAIN old THEN old[n] ELSE stmt.column.pg]
    <2>1. live' = [live EXCEPT ![stmt.table] = new] /\ fk' = fk
        BY <1>2, Zenon DEF Execute
    <2>2. DOMAIN new = DOMAIN old \cup {stmt.column.name}
        BY Zenon
    <2> HIDE DEF new
    <2>3. /\ DOMAIN live' = DOMAIN live /\ live'[stmt.table] = new
          /\ \A t \in DOMAIN live : t # stmt.table => live'[t] = live[t]
        BY <1>2, <2>1, Zenon DEF Tables
    <2> QED BY <1>2, <2>1, <2>2, <2>3, Zenon DEF Grows, Done, Tables
<1>3. CASE stmt.op = "fk"
    BY <1>3, Zenon DEF Execute, Grows, Done, Tables
<1> QED BY <1>1, <1>2, <1>3, Zenon

LEMMA IdleMigrate ==
    NoMigrate.cfg = 0 /\ NoMigrate = [cfg |-> NoMigrate.cfg, todo |-> NoMigrate.todo, at |-> NoMigrate.at]
BY Zenon DEF NoMigrate

\* The statements of every schema start with its table; the others want it.
LEMMA StatementsOf ==
    ASSUME NEW cfg \in Cfgs, NEW s \in schemas(Decoders[cfg])
    PROVE  /\ Len(table_statements(s)) \in Nat \ {0}
           /\ DOMAIN table_statements(s) = 1 .. Len(table_statements(s))
           /\ table_statements(s)[1] = [op |-> "create", schema |-> s]
           /\ \A k \in DOMAIN table_statements(s) :
                 \/ k = 1
                 \/ table_statements(s)[k].op = "add" /\ table_statements(s)[k].table = s.table
                 \/ table_statements(s)[k].op = "fk"
<1>1. PICK n \in Nat : DOMAIN s.columns = 1 .. n
    BY SchemaColumns, Zenon
<1> DEFINE st == table_statements(s)
<1>2. /\ Len(st) \in Nat \ {0} /\ DOMAIN st = 1 .. Len(st) /\ st[1] = create_table(s)
      /\ \A k \in DOMAIN st :
            \/ k = 1
            \/ \E i \in 1 .. n : st[k] = add_column(s, i)
            \/ st[k] = [op |-> "fk"]
    BY <1>1, StatementList, Zenon
<1> HIDE DEF st
<1>3. \A i : add_column(s, i).op = "add" /\ add_column(s, i).table = s.table
    BY Zenon DEF add_column
<1>4. /\ Len(st) \in Nat \ {0} /\ DOMAIN st = 1 .. Len(st)
      /\ st[1] = [op |-> "create", schema |-> s]
      /\ \A k \in DOMAIN st : k = 1 \/ (st[k].op = "add" /\ st[k].table = s.table) \/ st[k].op = "fk"
    BY <1>2, <1>3 DEF create_table
<1> QED BY <1>4, Zenon DEF st

\* A statement of the running migrate has been applied: what is left is shorter.
LEMMA ApplyAhead ==
    ASSUME MigInv, Apply, mig' # NoMigrate
    PROVE  Grows /\ Ahead' /\ (fk' => ~orphan')
<1>1. PICK cf, td, at : mig = [cfg |-> cf, todo |-> td, at |-> at]
    BY Zenon DEF MigInv, Ahead
<1> DEFINE All == schemas(Decoders[cf])
<1>2. /\ cf # 0 /\ td # <<>> /\ cf \in Cfgs /\ td \in Seq(All)
      /\ \A s \in All : Ready(s) \/ \E i \in DOMAIN td : td[i] = s
    BY <1>1, Zenon DEF MigInv, Ahead, Apply
<1>3. PICK hd \in All : hd = Head(td) /\ hd = td[1]
    <2> HIDE DEF All
    <2> QED BY <1>2
<1>4. PICK st : st = table_statements(hd)
    BY Zenon
<1>5. at \in DOMAIN st /\ \A k \in 1 .. at - 1 : Done(st[k])
    BY <1>1, <1>2, <1>3, <1>4, Zenon DEF MigInv, Ahead
<1>6. /\ Len(st) \in Nat \ {0} /\ DOMAIN st = 1 .. Len(st)
      /\ st[1] = [op |-> "create", schema |-> hd]
      /\ \A k \in DOMAIN st : k = 1 \/ (st[k].op = "add" /\ st[k].table = hd.table) \/ st[k].op = "fk"
    BY <1>2, <1>3, <1>4, StatementsOf
<1>7. PICK stmt : stmt = st[at]
    BY Zenon
<1>8. /\ ~Rejected(stmt) /\ Execute(stmt)
      /\ mig' = IF at < Len(st) THEN [mig EXCEPT !.at = @ + 1] ELSE [mig EXCEPT !.todo = Tail(@), !.at = 1]
      /\ orphan' = orphan
    BY <1>1, <1>3, <1>4, <1>7, Zenon DEF Apply, store
<1>9. Grows /\ Done(stmt)'
    <2>1. CASE at = 1
        BY <2>1, <1>6, <1>7, <1>8, ExecuteGrows, Zenon
    <2>2. CASE at # 1
        <3>1. 1 \in 1 .. at - 1 /\ at \in Nat
            BY <2>2, <1>5, <1>6
        <3>2. Done(st[1])
            BY <3>1, <1>5, Zenon
        <3>3. hd.table \in Tables
            BY <3>2, <1>6 DEF Done
        <3> QED BY <2>2, <3>3, <1>5, <1>6, <1>7, <1>8, ExecuteGrows, Zenon
    <2> QED BY <2>1, <2>2, Zenon
<1>10. fk' => ~orphan'
    <2>1. CASE stmt.op = "fk"
        BY <2>1, <1>8, Zenon DEF Rejected, MigInv
    <2>2. CASE stmt.op # "fk"
        <3>1. stmt.op = "create" \/ stmt.op = "add"
            BY <2>2, <1>5, <1>6, <1>7
        <3>2. fk' = fk
            BY <3>1, <1>8, ZenonT(30) DEF Execute
        <3> QED BY <3>2, <1>8, Zenon DEF MigInv
    <2> QED BY <2>1, <2>2, Zenon
<1>11. \A k \in 1 .. at : Done(st[k])'
    <2> TAKE k \in 1 .. at
    <2>1. k \in 1 .. at - 1 \/ k = at
        BY <1>5, <1>6
    <2>2. CASE k \in 1 .. at - 1
        BY <2>2, <1>5, <1>9, GrowsKeeps, Zenon
    <2> QED BY <2>1, <2>2, <1>7, <1>9, Zenon
<1>12. \A s \in All : Ready(s)' \/ \E i \in DOMAIN td : td[i] = s
    BY <1>2, <1>9, GrowsKeeps, Zenon
<1>13. CASE at < Len(st)
    <2>1. mig' = [cfg |-> cf, todo |-> td, at |-> at + 1]
        BY <1>1, <1>8, <1>13, Zenon
    <2>2. at + 1 \in DOMAIN st /\ \A k \in 1 .. (at + 1) - 1 : Done(st[k])'
        BY <1>5, <1>6, <1>11, <1>13, SMTT(30)
    <2> QED BY <2>1, <2>2, <1>2, <1>3, <1>4, <1>9, <1>10, <1>12, Zenon DEF Ahead
<1>14. CASE ~(at < Len(st))
    <2>1. mig' = [cfg |-> cf, todo |-> Tail(td), at |-> 1]
        BY <1>1, <1>8, <1>14, ZenonT(30)
    <2>2. at = Len(st)
        BY <1>5, <1>6, <1>14
    <2>3. Ready(hd)'
        BY <2>2, <1>4, <1>6, <1>11, Zenon DEF Ready
    <2>4. /\ Tail(td) \in Seq(All)
          /\ \A i \in DOMAIN td : i # 1 => i - 1 \in DOMAIN Tail(td) /\ Tail(td)[i - 1] = td[i]
          /\ Tail(td) # <<>> => Head(Tail(td)) \in All
        <3> HIDE DEF All
        <3> QED BY <1>2
    <2>5. ASSUME NEW s \in All
          PROVE  Ready(s)' \/ \E i \in DOMAIN Tail(td) : Tail(td)[i] = s
        <3>1. CASE Ready(s)'
            BY <3>1, Zenon
        <3>2. CASE \E i \in DOMAIN td : td[i] = s
            <4>1. PICK i \in DOMAIN td : td[i] = s
                BY <3>2, Zenon
            <4>2. CASE i = 1
                BY <4>1, <4>2, <1>3, <2>3, Zenon
            <4>3. CASE i # 1
                BY <4>1, <4>3, <2>4, ZenonT(30)
            <4> QED BY <4>2, <4>3, Zenon
        <3> QED BY <3>1, <3>2, <1>12, Zenon
    <2>6. Tail(td) # <<>> =>
              /\ 1 \in DOMAIN table_statements(Head(Tail(td)))
              /\ \A k \in 1 .. 1 - 1 : Done(table_statements(Head(Tail(td)))[k])'
        <3>1. 1 .. 1 - 1 = {}
            OBVIOUS
        <3>2. ASSUME NEW s \in All PROVE 1 \in DOMAIN table_statements(s)
            <4>1. PICK m \in Nat \ {0} : DOMAIN table_statements(s) = 1 .. m
                BY <1>2, StatementsOf, ZenonT(30)
            <4> QED BY <4>1
        <3> QED BY <3>1, <3>2, <2>4, Zenon
    <2> QED BY <2>1, <2>4, <2>5, <2>6, <1>2, <1>9, <1>10, Zenon DEF Ahead
<1> QED BY <1>13, <1>14, Zenon

LEMMA ApplyKeeps == ASSUME MigInv, Apply PROVE MigInv'
<1>1. migrated' = migrated /\ orphan' = orphan
    BY Zenon DEF Apply, store
<1>2. CASE mig' = NoMigrate
    <2>1. mig.cfg # 0 /\ NoMigrate.cfg = 0 /\ "cfg" \in DOMAIN mig
        BY IdleMigrate, Zenon DEF Apply, MigInv, Ahead
    <2>2. live' = live /\ fk' = fk
        <3>1. ASSUME NEW a, mig' = [mig EXCEPT !.at = a] PROVE FALSE
            BY <3>1, <1>2, <2>1, Zenon
        <3>2. ASSUME NEW a, NEW b, mig' = [mig EXCEPT !.todo = a, !.at = b] PROVE FALSE
            BY <3>2, <1>2, <2>1, ZenonT(30)
        <3> QED BY <3>1, <3>2, ZenonT(30) DEF Apply
    <2>3. Ahead'
        BY <1>2, IdleMigrate, Zenon DEF Ahead
    <2> QED BY <1>1, <2>2, <2>3, Zenon DEF MigInv, Applied, Ready, Done, Tables
<1>3. CASE mig' # NoMigrate
    <2>1. Grows /\ Ahead' /\ (fk' => ~orphan')
        BY <1>3, ApplyAhead, Zenon
    <2>2. Applied'
        BY <1>1, <2>1, GrowsKeeps, Zenon DEF MigInv, Applied
    <2> QED BY <2>1, <2>2, Zenon DEF MigInv
<1> QED BY <1>2, <1>3, Zenon

\* The other steps of migrate.
LEMMA MigrateKeeps ==
    ASSUME IInv, MigInv, StartMigrate \/ MigrateDone \/ MigrateCrashes
    PROVE  MigInv'
<1>1. live' = live /\ fk' = fk /\ orphan' = orphan
    BY Zenon DEF StartMigrate, MigrateDone, MigrateCrashes, store
<1>2. (fk => ~orphan)' /\ \A s : Ready(s)' <=> Ready(s)
    BY <1>1, Zenon DEF MigInv, Ready, Done, Tables
<1>3. CASE StartMigrate
    <2>1. PICK order \in Orders[file] : mig' = [cfg |-> file, todo |-> order, at |-> 1]
        BY <1>3, Zenon DEF StartMigrate
    <2>2. file \in Cfgs
        BY Zenon DEF IInv, Typed
    <2>3. /\ order \in Seq(schemas(Decoders[file])) /\ order # <<>>
          /\ \A s \in schemas(Decoders[file]) : \E i \in DOMAIN order : order[i] = s
        BY <2>1, <2>2, OrderComplete, ZenonT(30)
    <2>4. PICK m \in Nat \ {0} : DOMAIN table_statements(Head(order)) = 1 .. m
        <3>1. Head(order) \in schemas(Decoders[file])
            BY <2>3
        <3> QED BY <2>2, <3>1, StatementsOf, ZenonT(30)
    <2>5. 1 \in DOMAIN table_statements(Head(order)) /\ 1 .. 1 - 1 = {}
        BY <2>4
    <2>6. Ahead'
        BY <2>1, <2>2, <2>3, <2>5, Zenon DEF Ahead
    <2>7. Applied'
        BY <1>2, <1>3, Zenon DEF MigInv, Applied, StartMigrate
    <2> QED BY <1>2, <2>6, <2>7, Zenon DEF MigInv
<1>4. CASE MigrateDone
    <2>1. mig' = NoMigrate /\ migrated' = mig.cfg /\ mig.cfg # 0 /\ mig.todo = <<>>
        BY <1>4, Zenon DEF MigrateDone
    <2>2. Ahead'
        BY <2>1, IdleMigrate, Zenon DEF Ahead
    <2>3. mig.cfg \in Cfgs /\ \A s \in schemas(Decoders[mig.cfg]) : Ready(s)
        BY <2>1 DEF MigInv, Ahead
    <2>4. Applied'
        BY <2>1, <2>3, <1>2, Zenon DEF Applied
    <2> QED BY <1>2, <2>2, <2>4, Zenon DEF MigInv
<1>5. CASE MigrateCrashes
    <2>1. mig' = NoMigrate /\ migrated' = migrated
        BY <1>5, Zenon DEF MigrateCrashes
    <2>2. Ahead' /\ Applied'
        BY <2>1, <1>2, IdleMigrate, Zenon DEF MigInv, Ahead, Applied
    <2> QED BY <1>2, <2>2, Zenon DEF MigInv
<1> QED BY <1>3, <1>4, <1>5, Zenon

\* What leaves the schema of the database alone.
LEMMA OthersKeep ==
    ASSUME MigInv, UNCHANGED schema, orphan' = orphan \/ ~fk
    PROVE  MigInv'
<1>1. UNCHANGED <<live, fk, mig, migrated>>
    BY Zenon DEF schema
<1>2. Ahead' /\ Applied' /\ (fk => ~orphan)'
    <2>1. live' = live /\ fk' = fk /\ mig' = mig /\ migrated' = migrated
        BY <1>1, Zenon
    <2>2. \A s : Ready(s)' <=> Ready(s)
        BY <2>1, Zenon DEF Ready, Done, Tables
    <2>3. Ahead'
        BY <2>1, <2>2, ZenonT(30) DEF MigInv, Ahead, Ready, Done, Tables
    <2>4. Applied'
        BY <2>1, <2>2, Zenon DEF MigInv, Applied
    <2>5. fk' => ~orphan'
        BY <2>1 DEF MigInv
    <2> QED BY <2>3, <2>4, <2>5, Zenon
<1> QED BY <1>2, Zenon DEF MigInv

LEMMA MigNext == IInv /\ MigInv /\ [Next]_vars => MigInv'
<1> SUFFICES ASSUME IInv, MigInv, [Next]_vars PROVE MigInv'
    BY Zenon
<1>1. CASE Migrating
    BY <1>1, ApplyKeeps, MigrateKeeps, Zenon DEF Migrating
<1>2. CASE EditConfig \/ Boot \/ BootDecode \/ Stop \/ Pull \/ Resync \/ vars' = vars
    <2>1. UNCHANGED schema /\ orphan' = orphan
        BY <1>2, ZenonT(30) DEF EditConfig, Boot, BootDecode, Stop, Pull, Resync, vars, store
    <2> QED BY <2>1, OthersKeep, Zenon
<1>3. CASE \E h \in Heights : Ingest(h) \/ IngestStale(h)
    <2>1. UNCHANGED schema /\ (orphan' = orphan \/ ~fk)
        BY <1>3, Zenon DEF Ingest, IngestStale
    <2> QED BY <2>1, OthersKeep, Zenon
<1>4. CASE \E p \in Runners : Decode(p) \/ DecodeFails(p)
    <2>1. UNCHANGED schema /\ orphan' = orphan
        BY <1>4, Zenon DEF Decode, DecodeFails, ReadRaw, ReadBlocks, upsert_batch, Finish, store
    <2> QED BY <2>1, OthersKeep, Zenon
<1> QED BY <1>1, <1>2, <1>3, <1>4, Zenon DEF Next

LEMMA MigInvariance == Spec => []MigInv
<1>1. Init => MigInv
    BY IdleMigrate, Zenon DEF Init, MigInv, Ahead, Applied
<1> QED BY <1>1, MigNext, Invariant, PTL DEF Spec

\* Whatever earlier runs of migrate left half done, in whatever order they went
\* through the schemas: after one that succeeded, every table and every column of
\* its configuration is there, and stays.
THEOREM MigrationComplete == Spec => []MigratedCovers
<1>1. MigInv => MigratedCovers
    <2> SUFFICES ASSUME MigInv, migrated # 0, NEW s \in schemas(Decoders[migrated])
                 PROVE  s.table \in Tables /\ Names(s) \subseteq DOMAIN live[s.table]
        BY Zenon DEF MigratedCovers
    <2> DEFINE st == table_statements(s)
    <2>1. migrated \in Cfgs /\ \A k \in DOMAIN st : Done(st[k])
        BY Zenon DEF MigInv, Applied, Ready
    <2>2. PICK n \in Nat : DOMAIN s.columns = 1 .. n
        BY <2>1, SchemaColumns, Zenon
    <2>3. /\ Len(st) \in Nat \ {0} /\ DOMAIN st = 1 .. Len(st) /\ st[1] = create_table(s)
          /\ \A i \in 1 .. n : i + 1 \in DOMAIN st /\ st[i + 1] = add_column(s, i)
        BY <2>2, StatementList, Zenon
    <2> HIDE DEF st
    <2>4. s.table \in Tables
        <3>1. Done(st[1])
            BY <2>1, <2>3
        <3> QED BY <3>1, <2>3 DEF Done, create_table
    <2>5. ASSUME NEW i \in 1 .. n PROVE s.columns[i].name \in DOMAIN live[s.table]
        <3>1. Done(add_column(s, i))
            BY <2>1, <2>3, Zenon
        <3> QED BY <3>1, Zenon DEF Done, add_column
    <2> QED BY <2>2, <2>4, <2>5, Zenon DEF Names
<1> QED BY <1>1, MigInvariance, PTL

\* The constraint on receipts is among the statements, it is refused while a
\* receipt has no transaction, and ingests respect it once it is there.
THEOREM ReceiptsComplete == Spec => []ReceiptsReferToTx
<1>1. MigInv => ReceiptsReferToTx
    <2> SUFFICES ASSUME MigInv, migrated # 0 PROVE ~orphan
        BY Zenon DEF ReceiptsReferToTx
    <2>1. PICK s \in schemas(Decoders[migrated]) : s.table = <<"receipts">>
        <3>1. aux_schemas[2].table = <<"receipts">>
            BY Zenon DEF aux_schemas
        <3> QED BY <3>1, Zenon DEF schemas
    <2> DEFINE st == table_statements(s)
    <2>2. migrated \in Cfgs /\ \A k \in DOMAIN st : Done(st[k])
        BY Zenon DEF MigInv, Applied, Ready
    <2>3. PICK n \in Nat : DOMAIN s.columns = 1 .. n
        BY <2>2, SchemaColumns, Zenon
    <2>4. PICK k \in DOMAIN st : st[k] = [op |-> "fk"]
        BY <2>1, <2>3, StatementList, Zenon
    <2>5. Done([op |-> "fk"])
        BY <2>2, <2>4, Zenon
    <2> QED BY <2>5, Zenon DEF Done, MigInv
<1> QED BY <1>1, MigInvariance, PTL

-----------------------------------------------------------------------------
(* The types of the columns.                                               *)

\* No event that is indexed has an indexed parameter of a tuple type: schema_for
\* gives such a parameter a jsonb column, its value arrives as a 32-byte hash.
NoIndexedTuple ==
    \A cfg \in Cfgs : \A ij \in WantedEvents(Configs[cfg]) :
        LET inputs == EventAt(Configs[cfg], ij).inputs
        IN  \A i \in DOMAIN inputs : ~(inputs[i].indexed /\ inputs[i].ty = "tuple")

\* The type of a column is the type of the values bound to it.
LEMMA ColumnType ==
    ASSUME NEW inputs, NEW i \in DOMAIN inputs, inputs[i] \in ParamType,
           ~(inputs[i].indexed /\ inputs[i].ty = "tuple")
    PROVE  Column(inputs, i).pg = BoundAs(inputs[i])
<1> DEFINE p == inputs[i]
<1>1. p.indexed \in BOOLEAN /\ p.ty \in SolTypes
    BY ZenonT(30) DEF ParamType
<1>2. CASE indexed_hash(p)
    <2>1. Column(inputs, i).pg = "bytea"
        BY <1>2, Zenon DEF Column, pg_type
    <2>2. BoundAs(p) = "bytea"
        BY <1>2, Zenon DEF BoundAs, bind_value
    <2> QED BY <2>1, <2>2, Zenon
<1>3. CASE ~indexed_hash(p)
    <2>1. Column(inputs, i).pg = pg_type(column_type_for(p.ty))
        BY <1>3, Zenon DEF Column
    <2>2. BoundAs(p) = bind_value(to_value(p.ty))
        <3>1. ~(p.indexed /\ HashedTopic(p.ty))
            BY <1>3, Zenon DEF indexed_hash, HashedTopic, IsDynamic
        <3> QED BY <1>3, <3>1, Zenon DEF BoundAs
    <2>3. \A ty \in SolTypes : pg_type(column_type_for(ty)) = bind_value(to_value(ty))
        BY SMTT(30) DEF SolTypes, Arrays, pg_type, column_type_for, bind_value, to_value
    <2> QED BY <1>1, <2>1, <2>2, <2>3, Zenon
<1> QED BY <1>2, <1>3, Zenon

\* The fields of a row fit a table that has the columns of its schema.
LEMMA FieldsFit ==
    ASSUME NEW s, NEW inputs \in Seq(ParamType),
           s.columns = [i \in DOMAIN inputs |-> Column(inputs, i)],
           \A i \in DOMAIN inputs : ~(inputs[i].indexed /\ inputs[i].ty = "tuple"),
           \A i \in DOMAIN s.columns :
               /\ s.columns[i].name \in DOMAIN live[s.table]
               /\ live[s.table][s.columns[i].name] = s.columns[i].pg,
           NEW n \in DOMAIN Fields(s, inputs)
    PROVE  n \in DOMAIN live[s.table] /\ live[s.table][n] = Fields(s, inputs)[n]
<1> DEFINE i == CHOOSE j \in DOMAIN inputs : s.columns[j].name = n
<1>1. n \in {s.columns[j].name : j \in DOMAIN inputs} /\ Fields(s, inputs)[n] = BoundAs(inputs[i])
    BY Zenon DEF Fields
<1>2. i \in DOMAIN inputs /\ s.columns[i].name = n
    BY <1>1, Zenon
<1> HIDE DEF i
<1>3. s.columns[i].pg = Column(inputs, i).pg /\ i \in DOMAIN s.columns
    BY <1>2, Zenon
<1>4. inputs[i] \in ParamType
    BY <1>2
<1>5. s.columns[i].pg = BoundAs(inputs[i])
    BY <1>2, <1>3, <1>4, ColumnType, Zenon
<1> QED BY <1>1, <1>2, <1>3, <1>5, Zenon

\* Whatever the tables went through: once they have the columns of a configuration
\* that wants no event with an indexed tuple, every log and every call that decodes
\* can be inserted.
THEOREM RowsFit == NoIndexedTuple /\ Spec => []ColumnsFit
<1> SUFFICES ASSUME NoIndexedTuple PROVE Spec => []ColumnsFit
    BY Zenon
<1>1. IInv => ColumnsFit
    <2> SUFFICES ASSUME IInv, Healthy
                 PROVE  /\ \A l \in raw : Known(proc, l) => Accepts(decode(Decoders[proc], l))
                        /\ \A t \in txs : KnownCall(proc, t) => Accepts(decode_call(Decoders[proc], t))
        BY Zenon DEF ColumnsFit
    <2>1. proc \in Cfgs
        BY Zenon DEF IInv, Typed, Healthy
    <2>2. ASSUME NEW l \in raw, Known(proc, l) PROVE Accepts(decode(Decoders[proc], l))
        <3> DEFINE e == Decoders[proc].by_topic0[l.topic0]
        <3>1. e.schema \in schemas(Decoders[proc])
            BY <2>2, Zenon DEF Known, schemas, EventSchemas
        <3>2. /\ \E ij \in WantedEvents(Configs[proc]) : e.event = EventAt(Configs[proc], ij)
              /\ e.event.inputs \in Seq(ParamType)
              /\ e.schema.columns = [i \in DOMAIN e.event.inputs |-> Column(e.event.inputs, i)]
            BY <2>1, <2>2, EventEntry, ZenonT(30) DEF Known
        <3>3. /\ decode(Decoders[proc], l).table = e.schema.table
              /\ decode(Decoders[proc], l).fields = Fields(e.schema, e.event.inputs)
            BY Zenon DEF decode
        <3> HIDE DEF e
        <3>4. \A i \in DOMAIN e.event.inputs : ~(e.event.inputs[i].indexed /\ e.event.inputs[i].ty = "tuple")
            <4>1. PICK ij \in WantedEvents(Configs[proc]) : e.event = EventAt(Configs[proc], ij)
                BY <3>2, Zenon
            <4>2. LET inputs == EventAt(Configs[proc], ij).inputs
                  IN  \A i \in DOMAIN inputs : ~(inputs[i].indexed /\ inputs[i].ty = "tuple")
                BY <2>1, Zenon DEF NoIndexedTuple
            <4> QED BY <4>1, <4>2, Zenon
        <3>5. e.schema.table \in Tables
            BY <3>1, Zenon DEF Healthy
        <3>6. \A i \in DOMAIN e.schema.columns :
                  /\ e.schema.columns[i].name \in DOMAIN live[e.schema.table]
                  /\ live[e.schema.table][e.schema.columns[i].name] = e.schema.columns[i].pg
            BY <3>1, Zenon DEF Healthy
        <3>7. \A n \in DOMAIN Fields(e.schema, e.event.inputs) :
                  /\ n \in DOMAIN live[e.schema.table]
                  /\ live[e.schema.table][n] = Fields(e.schema, e.event.inputs)[n]
            BY <3>2, <3>4, <3>6, FieldsFit, ZenonT(30)
        <3> QED BY <3>3, <3>5, <3>7, Zenon DEF Accepts
    <2>3. ASSUME NEW t \in txs, KnownCall(proc, t) PROVE Accepts(decode_call(Decoders[proc], t))
        <3> DEFINE k == <<t.to, t.selector>>
                   e == Decoders[proc].by_call[k]
                   in == Unindexed(e.function.inputs)
        <3>1. e.schema \in schemas(Decoders[proc])
            BY <2>3, Zenon DEF KnownCall, schemas, EventSchemas
        <3>2. /\ e.function.inputs \in Seq(ParamType)
              /\ e.schema.columns = [i \in DOMAIN e.function.inputs |-> Column(in, i)]
            BY <2>1, <2>3, CallEntry, ZenonT(30) DEF KnownCall
        <3>3. /\ decode_call(Decoders[proc], t).table = e.schema.table
              /\ decode_call(Decoders[proc], t).fields = Fields(e.schema, in)
            BY Zenon DEF decode_call
        <3>4. /\ in \in Seq(ParamType) /\ DOMAIN in = DOMAIN e.function.inputs
              /\ \A i \in DOMAIN in : ~(in[i].indexed /\ in[i].ty = "tuple")
            <4> HIDE DEF e
            <4>1. DOMAIN in = DOMAIN e.function.inputs
                BY Zenon DEF Unindexed
            <4>2. ASSUME NEW i \in DOMAIN e.function.inputs PROVE in[i] \in ParamType /\ ~in[i].indexed
                <5>1. e.function.inputs[i] \in ParamType
                    BY <3>2
                <5>2. in[i] = [e.function.inputs[i] EXCEPT !.indexed = FALSE]
                    BY Zenon DEF Unindexed
                <5> QED BY <5>1, <5>2, ZenonT(30) DEF ParamType
            <4>3. in = [i \in 1 .. Len(e.function.inputs) |-> in[i]] /\ Len(e.function.inputs) \in Nat
                BY <3>2 DEF Unindexed
            <4>4. DOMAIN e.function.inputs = 1 .. Len(e.function.inputs)
                BY <3>2
            <4> HIDE DEF in
            <4>5. in \in Seq(ParamType)
                <5>1. \A i \in 1 .. Len(e.function.inputs) : in[i] \in ParamType
                    BY <4>2, <4>4, Zenon
                <5>2. in \in [1 .. Len(e.function.inputs) -> ParamType]
                    BY <5>1, <4>3, ZenonT(30)
                <5> QED BY <5>2, <4>3
            <4> QED BY <4>1, <4>2, <4>5, Zenon
        <3> HIDE DEF in, e
        <3>5. e.schema.table \in Tables
            BY <3>1, Zenon DEF Healthy
        <3>6. \A i \in DOMAIN e.schema.columns :
                  /\ e.schema.columns[i].name \in DOMAIN live[e.schema.table]
                  /\ live[e.schema.table][e.schema.columns[i].name] = e.schema.columns[i].pg
            BY <3>1, Zenon DEF Healthy
        <3>7. \A n \in DOMAIN Fields(e.schema, in) :
                  n \in DOMAIN live[e.schema.table] /\ live[e.schema.table][n] = Fields(e.schema, in)[n]
            <4>1. e.schema.columns = [i \in DOMAIN in |-> Column(in, i)]
                BY <3>2, <3>4, Zenon
            <4> QED BY <4>1, <3>4, <3>6, FieldsFit, ZenonT(30)
        <3> QED BY <3>3, <3>5, <3>7, Zenon DEF Accepts
    <2> QED BY <2>2, <2>3, Zenon
<1> QED BY <1>1, Invariant, PTL

=============================================================================
