------------------------------- MODULE Tables --------------------------------
(***************************************************************************)
(* The life of the typed tables: the operator edits the configuration,     *)
(* `migrate` changes the database statement by statement (crates/migrator),*)
(* an indexer process boots after a preflight, commits raw records with    *)
(* their transactions and receipts, and decodes them table by table        *)
(* (services/decoding.rs), while `resync` decodes the same blocks again.   *)
(* Crashes and failing statements may come between any two steps.          *)
(*                                                                         *)
(* Blocks do not change here: reorgs are module Reorg's subject, leases    *)
(* and their fencing WorkQueue's.  A work item is one block of one chain.  *)
(***************************************************************************)
EXTENDS AbiSchema

CONSTANTS
    Configs,        \* Configs[i]: contracts of the chain in the i-th edit of the file
    Logs,           \* the chain's logs [height, idx, address, topic0, topics, tx]
    Txs,            \* its transactions [id, height, to, selector, wellformed]: whether
                    \* the calldata decodes as parameters of the function called
    MaxCommits,     \* bound: ranges ingested
    MaxEdits,       \* bound: edits of the configuration
    MaxResyncs,     \* bound: runs of `resync`
    MaxFaults       \* bound: crashes, failed statements, receipts without their block

ASSUME TablesAssumption ==
    /\ {MaxCommits, MaxEdits, MaxResyncs, MaxFaults} \subseteq Nat
    /\ 1 \in DOMAIN Configs
    /\ \A l \in Logs : l.height \in Nat \ {0}
    /\ \A l \in Logs, t \in Txs : l.tx = t.id => l.height = t.height

\* The ABI files are parsed: a list of contracts, each with a list of events and one
\* of functions, each with a list of parameters.
ASSUME AbiAssumption ==
    \A cfg \in DOMAIN Configs :
        /\ Len(Configs[cfg]) \in Nat /\ DOMAIN Configs[cfg] = 1 .. Len(Configs[cfg])
        /\ \A i \in DOMAIN Configs[cfg] :
              LET c == Configs[cfg][i]
              IN  /\ \A list \in {c.abi_events, c.abi_functions} :
                        Len(list) \in Nat /\ DOMAIN list = 1 .. Len(list)
                  /\ \A j \in DOMAIN c.abi_events : c.abi_events[j].inputs \in Seq(ParamType)
                  /\ \A j \in DOMAIN c.abi_functions : c.abi_functions[j].inputs \in Seq(ParamType)

VARIABLES
    file,       \* index in Configs of the configuration file
    live,       \* live[t]: the columns of table t of the database and their types
    fk,         \* receipts_tx_fk exists
    mig,        \* the running `migrate`: its configuration (0: none), the schemas left
                \* and the next statement of the first of them
    migrated,   \* configuration of the last `migrate` that succeeded, 0 for none
    proc,       \* configuration of the running process, 0 when it is down
    ingests,    \* it ingests as well, as any process but `decode` does
    raw,        \* raw_records
    metas,      \* heights with a row in blocks
    txs,        \* rows of transactions
    orphan,     \* some receipt has no transaction
    late,       \* history: records committed, or whose transaction was, under the item
                \* of a worker that had read its block before
    items,      \* items[n]: height of the n-th work item, 0 once it is acked
    typed,      \* rows [table, key, columns, stamped] of the typed tables
    dec,        \* dec[p]: the decode_range that the worker, or resync, is in
    acks,       \* <<height, configuration>> of the items acked
    resynced,   \* <<configuration, logs>> of every resync that has finished with
                \* the configuration of the file, the last migrate and the process
    edits, resyncs, faults

files == <<file, edits>>
schema == <<live, fk, mig, migrated>>
store == <<raw, metas, txs, orphan, late>>
decoding == <<items, typed, dec, acks, resynced, resyncs>>
process == <<proc, ingests>>
vars == <<files, schema, process, store, decoding, faults>>

Runners == {"worker", "resync"}
NoMigrate == [cfg |-> 0, todo |-> <<>>, at |-> 1]
NoDecode == [pc |-> "idle", cfg |-> 0, item |-> 0, heights |-> {}, logs |-> {}, rows |-> {}]

Init ==
    /\ file = 1 /\ edits = 0
    /\ live = <<>> /\ fk = FALSE /\ migrated = 0
    /\ mig = NoMigrate
    /\ proc = 0 /\ ingests = FALSE
    /\ raw = {} /\ metas = {} /\ txs = {} /\ orphan = FALSE /\ late = {}
    /\ items = <<>> /\ typed = {} /\ acks = {} /\ resynced = {} /\ resyncs = 0
    /\ dec = [p \in Runners |-> NoDecode]
    /\ faults = 0

Fault == faults < MaxFaults /\ faults' = faults + 1

EditConfig ==
    /\ edits < MaxEdits /\ edits' = edits + 1
    /\ file' \in (DOMAIN Configs) \ {file}
    /\ UNCHANGED <<schema, process, store, decoding, faults>>

-----------------------------------------------------------------------------
(* migrate.                                                                *)

Tables == DOMAIN live

\* The columns every table has, and the position that receipts do without.
MetaColumns(table) ==
    {<<"chain_id">>, <<"height">>, <<"block_hash">>, <<"block_time">>, <<"tx_id">>} \cup
    (IF table = <<"receipts">> THEN {} ELSE {<<"idx">>})

Names(s) == {s.columns[i].name : i \in DOMAIN s.columns}

create_table(s) == [op |-> "create", schema |-> s]
add_column(s, i) == [op |-> "add", table |-> s.table, column |-> s.columns[i]]

\* Faulty variant of foreign_keys: no constraint.
no_foreign_keys(s) == <<>>

foreign_keys(s) == IF s.table = <<"receipts">> THEN <<[op |-> "fk"]>> ELSE <<>>

\* Faulty variant of table_statements: only new tables, no new columns.
table_statements_new(s) == <<create_table(s)>> \o foreign_keys(s)

\* create_table, add_columns, foreign_keys; indexes change no answer.
table_statements(s) ==
    <<create_table(s)>> \o [i \in DOMAIN s.columns |-> add_column(s, i)] \o foreign_keys(s)

\* build_decoders, for every configuration.
Decoders == [cfg \in DOMAIN Configs |-> build(Configs[cfg])]

\* The schemas of a configuration as `migrate` goes through them: the maps of
\* AbiIndex are walked in any order, the aux tables come last.
Orders == [cfg \in DOMAIN Configs |->
    LET S == EventSchemas(Decoders[cfg])
        n == Cardinality(S)
    IN  {o \o aux_schemas : o \in {f \in [1 .. n -> S] : \A s \in S : \E i \in 1 .. n : f[i] = s}}]

\* `migrate` reads the file and makes its plan.
StartMigrate ==
    /\ mig.cfg = 0
    /\ \E order \in Orders[file] : mig' = [cfg |-> file, todo |-> order, at |-> 1]
    /\ UNCHANGED <<files, live, fk, migrated, process, store, decoding, faults>>

\* CREATE TABLE with two columns of one name is an error.
Duplicates(s) ==
    \/ \E i, j \in DOMAIN s.columns : i # j /\ s.columns[i].name = s.columns[j].name
    \/ Names(s) \cap MetaColumns(s.table) # {}

ColumnsOf(s) ==
    [n \in Names(s) |-> s.columns[CHOOSE i \in DOMAIN s.columns : s.columns[i].name = n].pg]

Rejected(stmt) ==
    \/ stmt.op = "create" /\ stmt.schema.table \notin Tables /\ Duplicates(stmt.schema)
    \/ stmt.op = "fk" /\ ~fk /\ orphan

\* Every statement is guarded: what is there already stays as it is.
Execute(stmt) ==
    CASE stmt.op = "create" ->
            /\ live' = IF stmt.schema.table \in Tables THEN live
                       ELSE [t \in Tables \cup {stmt.schema.table} |->
                               IF t \in Tables THEN live[t] ELSE ColumnsOf(stmt.schema)]
            /\ UNCHANGED fk
      [] stmt.op = "add" ->
            /\ live' = [live EXCEPT ![stmt.table] =
                 [n \in DOMAIN @ \cup {stmt.column.name} |->
                     IF n \in DOMAIN @ THEN @[n] ELSE stmt.column.pg]]
            /\ UNCHANGED fk
      [] stmt.op = "fk" -> fk' = TRUE /\ UNCHANGED live

\* apply: each statement commits by itself; an error ends the command.
Apply ==
    /\ mig.cfg # 0 /\ mig.todo # <<>>
    /\ LET statements == table_statements(Head(mig.todo))
           stmt == statements[mig.at]
       IN  IF Rejected(stmt)
             THEN mig' = NoMigrate /\ UNCHANGED <<live, fk>>
             ELSE /\ Execute(stmt)
                  /\ mig' = IF mig.at < Len(statements) THEN [mig EXCEPT !.at = @ + 1]
                            ELSE [mig EXCEPT !.todo = Tail(@), !.at = 1]
    /\ UNCHANGED <<files, migrated, process, store, decoding, faults>>

MigrateDone ==
    /\ mig.cfg # 0 /\ mig.todo = <<>>
    /\ migrated' = mig.cfg /\ mig' = NoMigrate
    /\ UNCHANGED <<files, live, fk, process, store, decoding, faults>>

MigrateCrashes ==
    /\ mig.cfg # 0 /\ Fault
    /\ mig' = NoMigrate
    /\ UNCHANGED <<files, live, fk, migrated, process, store, decoding>>

-----------------------------------------------------------------------------
(* The indexer process and its ingest transaction.                         *)

\* preflight, is_in_sync: every table exists.  Columns are not looked at.
InSync(cfg) == \A s \in schemas(Decoders[cfg]) : s.table \in Tables

Boot ==
    /\ proc = 0 /\ InSync(file)
    /\ proc' = file /\ ingests' = TRUE
    /\ UNCHANGED <<files, schema, store, decoding, faults>>

\* `decode` boots its workers without a preflight.
BootDecode ==
    /\ proc = 0
    /\ proc' = file /\ ingests' = FALSE
    /\ UNCHANGED <<files, schema, store, decoding, faults>>

\* A signal, or a crash in the middle of a decode.
Stop ==
    /\ proc # 0
    /\ IF dec["worker"].pc = "idle" THEN UNCHANGED faults ELSE Fault
    /\ proc' = 0 /\ ingests' = FALSE
    /\ dec' = [dec EXCEPT !["worker"] = NoDecode]
    /\ UNCHANGED <<files, schema, store, items, typed, acks, resynced, resyncs>>

Heights == {l.height : l \in Logs}

\* What fetch_range brings of a block.
Fetched(h) == {l \in Logs : l.height = h /\ base_filter(record_filter(Decoders[proc]), l)}

\* The records of block h that this commit brings, or the transaction of, too late
\* for a worker that has the block in hand: it has read them before.
Missed(h) ==
    LET d == dec["worker"]
    IN  {l \in raw' : /\ l.height = h /\ h \in d.heights
                     /\ \/ d.pc \in {"blocks", "upsert"} /\ l \notin raw
                        \/ d.pc = "upsert" /\ \E t \in txs' \ txs : t.id = l.tx}

\* push_in_tx: an item of the same range that is still queued, also one that a
\* worker has in hand, stands for the new one (ON CONFLICT DO NOTHING).
push_in_tx(h) ==
    IF \E n \in DOMAIN items : items[n] = h
      THEN /\ UNCHANGED items
           /\ late' = late \cup Missed(h)
      ELSE /\ items' = Append(items, h)
           /\ late' = {l \in late : l.height # h}

\* Faulty variant of commit_ingest: a block is written with the next range.
commit_ingest_late(h, aux) ==
    /\ Fetched(h) # {} /\ Len(items) < MaxCommits
    /\ raw' = raw \cup Fetched(h) /\ metas' = {l.height : l \in raw}
    /\ txs' = txs \cup aux
    /\ push_in_tx(h)

\* commit_ingest of one block: raw records, block, transactions, receipts and
\* work item in one transaction.
commit_ingest(h, aux) ==
    /\ Fetched(h) # {} /\ Len(items) < MaxCommits
    /\ raw' = raw \cup Fetched(h) /\ metas' = metas \cup {h}
    /\ txs' = txs \cup aux
    /\ push_in_tx(h)

\* Of the transactions of a block, those behind its records are kept.
block_aux(records) == {t \in Txs : \E l \in records : l.tx = t.id}

Ingest(h) ==
    /\ ingests
    /\ commit_ingest(h, block_aux(Fetched(h)))
    /\ UNCHANGED <<files, schema, process, orphan, typed, dec, acks, resynced, resyncs, faults>>

\* The block was replaced between two calls: block_aux does not find the
\* transaction in it, the receipt is still answered.  The foreign key, if
\* there is one, makes the commit fail.
IngestStale(h) ==
    /\ ingests /\ Fault
    /\ ~fk /\ commit_ingest(h, {})
    /\ orphan' = (orphan \/ \E l \in Fetched(h) : l.tx \notin {t.id : t \in txs})
    /\ UNCHANGED <<files, schema, process, typed, dec, acks, resynced, resyncs>>

-----------------------------------------------------------------------------
(* decode_range, by the worker and by `resync`.                            *)

Pull ==
    /\ proc # 0 /\ dec["worker"].pc = "idle"
    /\ \E n \in DOMAIN items :
          /\ items[n] # 0
          /\ dec' = [dec EXCEPT !["worker"] = [NoDecode EXCEPT
                !.pc = "raw", !.cfg = proc, !.item = n, !.heights = {items[n]}]]
    /\ UNCHANGED <<files, schema, process, store, items, typed, acks, resynced, resyncs, faults>>

\* `resync` boots without a preflight.
Resync ==
    /\ dec["resync"].pc = "idle" /\ resyncs < MaxResyncs
    /\ resyncs' = resyncs + 1
    /\ dec' = [dec EXCEPT !["resync"] = [NoDecode EXCEPT
          !.pc = "raw", !.cfg = file, !.heights = Heights]]
    /\ UNCHANGED <<files, schema, process, store, items, typed, acks, resynced, faults>>

Quit(p) == dec' = [dec EXCEPT ![p] = NoDecode]

ReadRaw(p) ==
    /\ dec[p].pc = "raw"
    /\ dec' = [dec EXCEPT ![p].pc = "blocks",
                          ![p].logs = {l \in raw : l.height \in dec[p].heights}]
    /\ UNCHANGED <<files, schema, process, store, items, typed, acks, resynced, resyncs, faults>>

\* The block has a time.
times(h) == h \in metas

Stamp(row, h) ==
    [table |-> row.table, key |-> row.key, fields |-> row.fields, stamped |-> times(h)]

Known(cfg, l) == l.topic0 \in DOMAIN Decoders[cfg].by_topic0
KnownCall(cfg, t) == <<t.to, t.selector>> \in DOMAIN Decoders[cfg].by_call

Undecodable(cfg, l) ==
    Known(cfg, l) /\ ~Decodes(Decoders[cfg].by_topic0[l.topic0].event, l)

UndecodableCall(cfg, t) == KnownCall(cfg, t) /\ ~t.wellformed

\* The stored transactions behind a set of logs.
calldata(logs) == {t \in txs : \E l \in logs : l.tx = t.id}

\* times, decode of every log, decode_call of the calldata of the transactions
\* behind them; one that does not decode fails the whole range.
ReadBlocks(p) ==
    /\ dec[p].pc = "blocks"
    /\ LET d == dec[p]
           cfg == d.cfg
           calls == {t \in calldata(d.logs) : KnownCall(cfg, t)}
       IN  IF \/ \E l \in d.logs : Undecodable(cfg, l)
              \/ \E t \in calls : UndecodableCall(cfg, t)
             THEN Quit(p)
             ELSE dec' = [dec EXCEPT ![p].pc = "upsert", ![p].rows =
                    {Stamp(decode(Decoders[cfg], l), l.height) : l \in {k \in d.logs : Known(cfg, k)}}
                    \cup {Stamp(decode_call(Decoders[cfg], t), t.height) : t \in calls}]
    /\ UNCHANGED <<files, schema, process, store, items, typed, acks, resynced, resyncs, faults>>

\* The INSERT names columns that exist, with values of their types.
Accepts(row) ==
    /\ row.table \in Tables
    /\ \A n \in DOMAIN row.fields :
          n \in DOMAIN live[row.table] /\ live[row.table][n] = row.fields[n]

\* The rows as stored, except those whose primary key is taken.
Inserted(rows) ==
    {[table |-> r.table, key |-> r.key, columns |-> DOMAIN r.fields, stamped |-> r.stamped] :
        r \in {q \in rows : ~\E o \in typed : o.table = q.table /\ o.key = q.key}}

\* Faulty variant of upsert_batch: a taken key is an error.
upsert_batch_strict(p) ==
    /\ dec[p].pc = "upsert"
    /\ \E table \in {r.table : r \in dec[p].rows} :
          LET batch == {r \in dec[p].rows : r.table = table}
          IN  IF \A r \in batch : Accepts(r) /\ Inserted({r}) # {}
                THEN /\ typed' = typed \cup Inserted(batch)
                     /\ dec' = [dec EXCEPT ![p].rows = @ \ batch]
                ELSE Quit(p) /\ UNCHANGED typed
    /\ UNCHANGED <<files, schema, process, store, items, acks, resynced, resyncs, faults>>

\* upsert_batch of one table; tables come in any order.
upsert_batch(p) ==
    /\ dec[p].pc = "upsert"
    /\ \E table \in {r.table : r \in dec[p].rows} :
          LET batch == {r \in dec[p].rows : r.table = table}
          IN  IF \A r \in batch : Accepts(r)
                THEN /\ typed' = typed \cup Inserted(batch)
                     /\ dec' = [dec EXCEPT ![p].rows = @ \ batch]
                ELSE Quit(p) /\ UNCHANGED typed
    /\ UNCHANGED <<files, schema, process, store, items, acks, resynced, resyncs, faults>>

\* Faulty variant of DecodeFails: the worker acks an item it could not decode.
DecodeFailsAcks(p) ==
    /\ dec[p].pc # "idle" /\ Fault
    /\ Quit(p)
    /\ IF p = "worker"
         THEN /\ items' = [items EXCEPT ![dec[p].item] = 0]
              /\ acks' = acks \cup {<<items[dec[p].item], dec[p].cfg>>}
         ELSE UNCHANGED <<items, acks>>
    /\ UNCHANGED <<files, schema, process, store, typed, resynced, resyncs>>

\* A statement of decode_range fails: what was committed before it stays.
DecodeFails(p) ==
    /\ dec[p].pc # "idle" /\ Fault
    /\ Quit(p)
    /\ UNCHANGED <<files, schema, process, store, items, typed, acks, resynced, resyncs>>

\* All tables are written: the worker acks its item, resync prints its result.
Finish(p) ==
    /\ dec[p].pc = "upsert" /\ dec[p].rows = {}
    /\ IF p = "worker"
         THEN /\ items' = [items EXCEPT ![dec[p].item] = 0]
              /\ acks' = acks \cup {<<items[dec[p].item], dec[p].cfg>>}
              /\ UNCHANGED resynced
         ELSE /\ resynced' = IF dec[p].cfg = file /\ file = migrated /\ proc \in {0, file}
                               THEN resynced \cup {<<file, dec[p].logs>>} ELSE resynced
              /\ UNCHANGED <<items, acks>>
    /\ Quit(p)
    /\ UNCHANGED <<files, schema, process, store, typed, resyncs, faults>>

-----------------------------------------------------------------------------
Migrating == StartMigrate \/ Apply \/ MigrateDone \/ MigrateCrashes

Decode(p) == ReadRaw(p) \/ ReadBlocks(p) \/ upsert_batch(p) \/ Finish(p)

Next ==
    \/ EditConfig \/ Migrating \/ Boot \/ BootDecode \/ Stop
    \/ \E h \in Heights : Ingest(h) \/ IngestStale(h)
    \/ Pull \/ Resync
    \/ \E p \in Runners : Decode(p) \/ DecodeFails(p)

Spec == Init /\ [][Next]_vars

\* The worker of a running process is scheduled and its statements return.
FairSpec == Spec /\ WF_vars(Pull \/ Decode("worker"))

-----------------------------------------------------------------------------
HasRow(row) == \E r \in typed : r.table = row.table /\ r.key = row.key

\* l, and the call it came with, are in the tables that configuration cfg says.
Placed(cfg, l) ==
    /\ Known(cfg, l) => HasRow(decode(Decoders[cfg], l))
    /\ \A t \in txs : (t.id = l.tx /\ KnownCall(cfg, t)) => HasRow(decode_call(Decoders[cfg], t))

\* decode_range writes table by table and may stop between two of them, on an
\* error or with its process.  No raw record gets lost that way: its block is
\* still queued, or a worker acked it and all of its rows are there, as the
\* configuration of that worker wants them.  The exceptions are `late`: committed
\* again while a worker was decoding the block, so that push_in_tx added no item
\* and the ack of the old one took the only item away.
RecordsAccounted ==
    \A l \in raw \ late :
        \/ \E n \in DOMAIN items : items[n] = l.height
        \/ \E a \in acks : a[1] = l.height /\ Placed(a[2], l)

\* Every typed row has the time of its block, also when a resync runs next to
\* the ingest: raw records are read before the times of their blocks.
RowsAreStamped == \A r \in typed : r.stamped

\* Once a migrate has succeeded, every table and every column of its
\* configuration is there, whatever earlier runs left half done.
MigratedCovers ==
    migrated # 0 => \A s \in schemas(Decoders[migrated]) :
        s.table \in Tables /\ Names(s) \subseteq DOMAIN live[s.table]

\* Once a migrate has succeeded no receipt is without its transaction, not
\* even one ingested while an earlier migrate had not reached the constraint.
ReceiptsReferToTx == migrated # 0 => ~orphan

\* The running process can decode and write what is stored.
Healthy ==
    /\ proc # 0
    /\ \A l \in raw : ~Undecodable(proc, l)
    /\ \A t \in txs : ~UndecodableCall(proc, t)
    /\ \A s \in schemas(Decoders[proc]) :
          /\ s.table \in Tables
          /\ \A i \in DOMAIN s.columns :
                /\ s.columns[i].name \in DOMAIN live[s.table]
                /\ live[s.table][s.columns[i].name] = s.columns[i].pg

\* Once its tables have the columns of its configuration, the process can insert
\* every log and call that it decodes: schema_for and decode_event agree on which
\* indexed parameters arrive as a hash, and every column has the type of the
\* value that is bound to it.  They disagree on an indexed tuple, which arrives as
\* a hash too and has a jsonb column: the property is about configurations without.
ColumnsFit ==
    Healthy =>
        /\ \A l \in raw : Known(proc, l) => Accepts(decode(Decoders[proc], l))
        /\ \A t \in txs : KnownCall(proc, t) => Accepts(decode_call(Decoders[proc], t))

Queued(n) == n \in DOMAIN items /\ items[n] # 0

\* A queued block is decoded once the process runs with a configuration the
\* database was migrated to: failures and half-written tables are retried.
EventuallyDecoded ==
    \A n \in 1 .. MaxCommits : (Queued(n) /\ Healthy) ~> (~Queued(n) \/ ~Healthy)

\* README.md: after an edit of the ABI, migrate and then resync "to backfill
\* the new columns from raw_*": a record that a resync has decoded again has a
\* value in every column of its configuration.
ResyncBackfills ==
    \A rs \in resynced : \A l \in rs[2] : Known(rs[1], l) =>
        LET row == decode(Decoders[rs[1]], l)
        IN  \E r \in typed : r.table = row.table /\ r.key = row.key
                             /\ DOMAIN row.fields \subseteq r.columns

=============================================================================
