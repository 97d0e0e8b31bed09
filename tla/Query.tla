-------------------------------- MODULE Query --------------------------------
(***************************************************************************)
(* The read side: the GraphQL field of a table (crates/api), the keyset    *)
(* reader behind it (crates/db-query lib.rs, builder.rs, pagination.rs)    *)
(* and the TTL cache in front of the reader (cache.rs), read by clients    *)
(* that follow endCursor from page to page while decode workers insert     *)
(* rows and reorgs delete them.                                            *)
(*                                                                         *)
(* A cursor is its text: height, colon, idx.  A row is its chain, height   *)
(* and idx; the decoded columns and the joined objects stay out.           *)
(***************************************************************************)
EXTENDS Integers, FiniteSets, Sequences, Functions

CONSTANTS
    Clients,
    Schemas,        \* the tables of the configuration, every chain's together
    Table,          \* the one whose rows are modelled
    ColumnTypes,    \* its decoded columns and their types
    Universe,       \* rows [chain, height, idx] that may ever be stored
    FirstRows,      \* the rows stored at the beginning
    Args,           \* GraphQL arguments [first, after, descending, where]
    TTL,            \* cache_ttl_ms in ticks; 0 switches the cache off
    Latency,        \* assumed: most ticks from a statement's snapshot to its answer
    MaxWrites,      \* bound: inserts and rollbacks
    MaxErrors       \* bound: failed statements

ASSUME QueryAssumption ==
    /\ {TTL, Latency, MaxWrites, MaxErrors} \subseteq Nat
    /\ FirstRows \subseteq Universe /\ Table \in Schemas
    /\ IsFiniteSet(Universe) /\ \A r \in Universe : r.height \in Int /\ r.idx \in Int
    \* the primary key
    /\ \A q, r \in Universe :
          q.chain = r.chain /\ q.height = r.height /\ q.idx = r.idx => q = r

\* Times are ages, in ticks; nobody looks further back than Old.
Old == TTL + Latency + 1
Older(age) == IF age < Old THEN age + 1 ELSE Old

VARIABLES
    table,      \* table[row]: how long the row is there
    quiet,      \* how long the table has not changed
    queries,    \* the cache of pages: key -> [page, at, put]
    counts,     \* the cache of counts: key -> [n, at, put]
    scan,       \* scan[c]: the request of c and what it has been given
    writes, errors

vars == <<table, quiet, queries, counts, scan, writes, errors>>

Rows == DOMAIN table

-----------------------------------------------------------------------------
(* The statement.                                                          *)

Key(r) == <<r.height, r.idx>>

\* Row-value comparison of two (height, idx) pairs.
Less(k, l) == k[1] < l[1] \/ (k[1] = l[1] /\ k[2] < l[2])

format_cursor(key) == <<key[1], ":", key[2]>>

NoCursor == <<>>
IsCursor(text) == Len(text) = 3 /\ text[2] = ":"
parse_cursor(text) == <<text[1], text[3]>>

\* A text parses as a cursor only if its two parts are numbers.
ASSUME ArgsAssumption ==
    \A args \in Args :
        /\ args.first \in Int
        /\ IsCursor(args.after) => args.after[1] \in Int /\ args.after[3] \in Int

table_has_idx(t) == t # "receipts"

\* build_schema: the tables that get a query field.
QueryFields == {t \in Schemas : table_has_idx(t)}

meta_col_type(column) ==
    CASE column \in {"chain_id", "height", "idx"} -> "Int64"
      [] column = "block_time" -> "Timestamp"
      [] column \in {"block_hash", "tx_id"} -> "Bytes"
      [] OTHER -> "none"

col_type(column) ==
    IF meta_col_type(column) # "none" THEN meta_col_type(column)
    ELSE IF column \in DOMAIN ColumnTypes THEN ColumnTypes[column]
    ELSE "none"

validate_table(t) == table_has_idx(t) /\ t \in Schemas

\* Values of their column's type: only jsonb cannot be bound.
bind_value(ty) == ty # "Json"

\* The statement is not even sent: a table the reader does not serve, a column
\* that is unknown or cannot be filtered, a cursor that does not parse.
Refused(spec) ==
    \/ ~validate_table(spec.table)
    \/ \E f \in Range(spec.filters) :
          col_type(f.column) = "none" \/ ~bind_value(col_type(f.column))
    \/ spec.after # NoCursor /\ ~IsCursor(spec.after)

op_sql(op, a, b) ==
    CASE op = "EQ" -> a = b [] op = "NE" -> a # b
      [] op = "GT" -> a > b [] op = "GTE" -> a >= b
      [] op = "LT" -> a < b [] op = "LTE" -> a <= b

Column(r, column) ==
    CASE column = "chain_id" -> r.chain [] column = "height" -> r.height
      [] column = "idx" -> r.idx

\* The rows that build_filters selects.
Filtered(spec, rows) ==
    {r \in rows : \A f \in Range(spec.filters) : op_sql(f.op, Column(r, f.column), f.value)}

\* The keyset predicate.
Past(spec, k) ==
    \/ spec.after = NoCursor
    \/ IF spec.descending THEN Less(k, parse_cursor(spec.after))
                          ELSE Less(parse_cursor(spec.after), k)

\* The answers Postgres may give to the ORDER BY: rows of two chains with the
\* same height and idx come in either order.
Ordered(spec, rows) ==
    {s \in Injection(1 .. Cardinality(rows), rows) : \A i \in 1 .. Len(s) - 1 :
        IF spec.descending THEN ~Less(Key(s[i]), Key(s[i + 1]))
                           ELSE ~Less(Key(s[i + 1]), Key(s[i]))}

Shorter(s, n) == IF Len(s) < n THEN Len(s) ELSE n

Last(s) == s[Len(s)]

Clamp(n, low, high) == IF n < low THEN low ELSE IF n > high THEN high ELSE n

\* Faulty variant of PageOf: LIMIT first, without the row that tells has_next.
PageOfFirst(spec, fetched) ==
    [items |-> SubSeq(fetched, 1, Shorter(fetched, Clamp(spec.first, 1, 1000))),
     has_next |-> FALSE, end_cursor |-> NoCursor]

\* The page made of the first rows of an answer (LIMIT first + 1).
PageOf(spec, fetched) ==
    LET first == Clamp(spec.first, 1, 1000)
        items == SubSeq(fetched, 1, Shorter(fetched, first))
        has_next == Len(fetched) > first
    IN  [items |-> items, has_next |-> has_next,
         end_cursor |-> IF has_next THEN format_cursor(Key(Last(items))) ELSE NoCursor]

\* The pages query may return on a table with these rows.
query(spec, rows) ==
    {PageOf(spec, s) : s \in Ordered(spec, {r \in Filtered(spec, rows) : Past(spec, Key(r))})}

\* Faulty variant of count: it counts what is left after the cursor.
count_rest(spec, rows) == Cardinality({r \in Filtered(spec, rows) : Past(spec, Key(r))})

count(spec, rows) == Cardinality(Filtered(spec, rows))

-----------------------------------------------------------------------------
(* The cache: moka with time_to_live.                                      *)

\* Faulty variant of query_key: every page of a filter shares one entry.
query_key_page(spec) == <<spec.table, spec.filters, spec.first, spec.descending>>

query_key(spec) == <<spec.table, spec.filters, spec.first, spec.descending, spec.after>>
count_key(spec) == <<spec.table, spec.filters>>

\* Faulty variant of Hit: an entry never expires.
HitForever(cache, key) == key \in DOMAIN cache

Hit(cache, key) == key \in DOMAIN cache /\ cache[key].put < TTL

Put(cache, key, entry) ==
    IF TTL = 0 THEN cache
    ELSE [k \in DOMAIN cache \cup {key} |-> IF k = key THEN entry ELSE cache[k]]

-----------------------------------------------------------------------------
(* A client's scan.                                                        *)

NoPage == [items |-> <<>>, has_next |-> FALSE, end_cursor |-> NoCursor]
NoSpec == [table |-> Table, filters |-> <<>>, first |-> 1, after |-> NoCursor,
           descending |-> FALSE]

NoScan(pc) ==
    [pc |-> pc, spec |-> NoSpec, page |-> NoPage, at |-> 0, from |-> NoCursor,
     got |-> <<>>, ends |-> {}, total |-> -1, steady |-> {}, still |-> FALSE]

Init ==
    /\ table = [r \in FirstRows |-> Old] /\ quiet = Old
    /\ queries = <<>> /\ counts = <<>>
    /\ scan = [c \in Clients |-> NoScan("idle")]
    /\ writes = 0 /\ errors = 0

storage == <<table, quiet, writes>>

\* query_field: the arguments become a spec.  steady and still remember what
\* the properties speak of: the rows that every snapshot this scan may see
\* holds, and whether all those snapshots are the same.
query_field(c, args) ==
    /\ scan[c].pc = "idle" /\ Table \in QueryFields
    /\ scan' = [scan EXCEPT ![c].pc = "query", ![c].from = args.after,
         ![c].steady = {r \in Rows : table[r] = Old}, ![c].still = (quiet = Old),
         ![c].spec = [table |-> Table, filters |-> args.where, after |-> args.after,
                      first |-> IF args.first < 1 THEN 1 ELSE args.first,
                      descending |-> args.descending]]
    /\ UNCHANGED <<storage, queries, counts, errors>>

\* A page reaches the client: it asks for the next one, or for totalCount.
Serve(c, page) ==
    scan' = [scan EXCEPT
        ![c].pc = IF page.has_next THEN "query" ELSE "count",
        ![c].spec.after = IF page.has_next THEN page.end_cursor ELSE scan[c].spec.after,
        ![c].got = @ \o page.items,
        ![c].ends = IF page.has_next THEN @ \cup {Key(Last(page.items))} ELSE @,
        ![c].page = NoPage, ![c].at = 0]

ServeCount(c, n) ==
    scan' = [scan EXCEPT ![c].pc = "done", ![c].total = n, ![c].at = 0]

\* CachingEventQueryRepository::query up to the inner call.
QueryLookup(c) ==
    /\ scan[c].pc = "query"
    /\ LET key == query_key(scan[c].spec)
       IN  IF Hit(queries, key)
             THEN Serve(c, queries[key].page)
             ELSE scan' = [scan EXCEPT ![c].pc = "select"]
    /\ UNCHANGED <<storage, queries, counts, errors>>

\* PgEventQueryRepository::query: one statement, one snapshot.
Select(c) ==
    /\ scan[c].pc = "select"
    /\ IF Refused(scan[c].spec)
         THEN scan' = [scan EXCEPT ![c] = NoScan("error")]
         ELSE \E page \in query(scan[c].spec, Rows) :
                scan' = [scan EXCEPT ![c].pc = "page", ![c].page = page, ![c].at = 0]
    /\ UNCHANGED <<storage, queries, counts, errors>>

QueryInsert(c) ==
    /\ scan[c].pc = "page"
    /\ queries' = Put(queries, query_key(scan[c].spec),
                      [page |-> scan[c].page, at |-> scan[c].at, put |-> 0])
    /\ Serve(c, scan[c].page)
    /\ UNCHANGED <<storage, counts, errors>>

\* totalCount, resolved after the page: the same path through its own cache.
CountLookup(c) ==
    /\ scan[c].pc = "count"
    /\ LET key == count_key(scan[c].spec)
       IN  IF Hit(counts, key)
             THEN ServeCount(c, counts[key].n)
             ELSE scan' = [scan EXCEPT ![c].pc = "select_count"]
    /\ UNCHANGED <<storage, queries, counts, errors>>

SelectCount(c) ==
    /\ scan[c].pc = "select_count"
    /\ scan' = [scan EXCEPT ![c].pc = "counted", ![c].at = 0,
                            ![c].total = count(scan[c].spec, Rows)]
    /\ UNCHANGED <<storage, queries, counts, errors>>

CountInsert(c) ==
    /\ scan[c].pc = "counted"
    /\ counts' = Put(counts, count_key(scan[c].spec),
                     [n |-> scan[c].total, at |-> scan[c].at, put |-> 0])
    /\ ServeCount(c, scan[c].total)
    /\ UNCHANGED <<storage, queries, errors>>

\* The pool or the statement fails: the error goes to the client, uncached.
SelectFails(c) ==
    /\ scan[c].pc \in {"select", "select_count"} /\ errors < MaxErrors
    /\ errors' = errors + 1
    /\ scan' = [scan EXCEPT ![c] = NoScan("error")]
    /\ UNCHANGED <<storage, queries, counts>>

-----------------------------------------------------------------------------
(* The rest of the system, as the reader sees it.                          *)

Wrote(gone) ==
    /\ quiet' = 0 /\ writes' = writes + 1
    /\ scan' = [c \in Clients |-> [scan[c] EXCEPT !.steady = @ \ gone, !.still = FALSE]]

\* A decoded range: the rows of a chain at a height appear in one transaction.
upsert_batch(chain, height) ==
    LET new == {r \in Universe : r.chain = chain /\ r.height = height} \ Rows
    IN  /\ writes < MaxWrites /\ new # {}
        /\ \E some \in SUBSET new \ {{}} :
             table' = [r \in Rows \cup some |-> IF r \in Rows THEN table[r] ELSE 0]
        /\ Wrote({})
        /\ UNCHANGED <<queries, counts, errors>>

\* A reorg of a chain: its rows above the common ancestor are gone.
delete_from(chain, height) ==
    LET gone == {r \in Rows : r.chain = chain /\ r.height >= height}
    IN  /\ writes < MaxWrites /\ gone # {}
        /\ table' = [r \in Rows \ gone |-> table[r]]
        /\ Wrote(gone)
        /\ UNCHANGED <<queries, counts, errors>>

\* The capacity bound of a cache drops an entry.
Evict ==
    /\ \/ \E k \in DOMAIN queries :
            queries' = [j \in DOMAIN queries \ {k} |-> queries[j]] /\ UNCHANGED counts
       \/ \E k \in DOMAIN counts :
            counts' = [j \in DOMAIN counts \ {k} |-> counts[j]] /\ UNCHANGED queries
    /\ UNCHANGED <<storage, scan, errors>>

\* A tick later: the entries that have expired can be forgotten.
Aged(cache) ==
    LET aged == [k \in DOMAIN cache |-> [cache[k] EXCEPT !.at = Older(@), !.put = Older(@)]]
    IN  [k \in {k \in DOMAIN aged : Hit(aged, k)} |-> aged[k]]

\* Time passes; no statement in flight is older than Latency.
Tick ==
    /\ \A c \in Clients : scan[c].pc \in {"page", "counted"} => scan[c].at < Latency
    /\ table' = [r \in Rows |-> Older(table[r])] /\ quiet' = Older(quiet)
    /\ queries' = Aged(queries)
    /\ counts' = Aged(counts)
    /\ scan' = [c \in Clients |->
         IF scan[c].pc \in {"page", "counted"} THEN [scan[c] EXCEPT !.at = @ + 1] ELSE scan[c]]
    /\ UNCHANGED <<writes, errors>>

-----------------------------------------------------------------------------
Read(c) ==
    \/ QueryLookup(c) \/ Select(c) \/ QueryInsert(c)
    \/ CountLookup(c) \/ SelectCount(c) \/ CountInsert(c)

Chains == {r.chain : r \in Universe}
Heights == {r.height : r \in Universe}

Next ==
    \/ \E c \in Clients : Read(c) \/ SelectFails(c) \/ \E args \in Args : query_field(c, args)
    \/ \E chain \in Chains, height \in Heights :
          upsert_batch(chain, height) \/ delete_from(chain, height)
    \/ Evict \/ Tick

Spec == Init /\ [][Next]_vars

-----------------------------------------------------------------------------
Finished(c) == scan[c].pc \in {"count", "select_count", "counted", "done"}

\* What c's scan should have returned and did not.
Missed(c) ==
    {r \in Filtered(scan[c].spec, scan[c].steady) :
        Past([scan[c].spec EXCEPT !.after = scan[c].from], Key(r))} \ Range(scan[c].got)

\* A client that follows endCursor to the end has seen every row that was there
\* all the time, whatever was inserted or rolled back meanwhile and whichever
\* pages came from the cache.  One thing can be missed: a row whose height and
\* idx are those of the last row of a page, on another chain.  The keyset of
\* query has no chain_id; a scan filtered by chainId misses nothing.
ScanComplete ==
    \A c \in Clients : Finished(c) =>
        \A r \in Missed(c) :
            /\ Key(r) \in scan[c].ends
            /\ \E q \in Range(scan[c].got) : Key(q) = Key(r) /\ q.chain # r.chain

\* No row is returned twice and the pages continue each other in the order
\* asked for, even when a page is older than the one before it.
InOrder ==
    \A c \in Clients : \A i, j \in 1 .. Len(scan[c].got) : i < j =>
        LET a == scan[c].got[i]
            b == scan[c].got[j]
        IN  /\ a # b
            /\ IF scan[c].spec.descending THEN ~Less(Key(a), Key(b)) ELSE ~Less(Key(b), Key(a))

\* "A short TTL bounds staleness" (cache.rs): the snapshot behind an answer
\* from a cache is less than one TTL and one statement's latency old, also when
\* a slow reader has put an old page over a newer one.
BoundedStale ==
    /\ \A k \in DOMAIN queries : Hit(queries, k) => queries[k].at < TTL + Latency
    /\ \A k \in DOMAIN counts : Hit(counts, k) => counts[k].at < TTL + Latency

\* When nothing was written since the oldest snapshot a scan may see,
\* totalCount is the number of rows the whole scan returned (and missed, at
\* chain ties), though every page and the count go through different entries.
QuietCountAgrees ==
    \A c \in Clients :
        (scan[c].pc = "done" /\ scan[c].from = NoCursor /\ scan[c].still)
        => scan[c].total = Len(scan[c].got) + Cardinality(Missed(c))

=============================================================================
