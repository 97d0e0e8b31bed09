------------------------------ MODULE QueryProofs ------------------------------
(***************************************************************************)
(* For any number of clients, any rows, arguments, TTL and latency: a page *)
(* from the cache has a bounded age, and a client that follows endCursor   *)
(* gets the rows in order, none of them twice, and all that were there all *)
(* along, through whatever mixture of cached and fresh pages, inserts,     *)
(* rollbacks and evictions.  While nothing is written, totalCount is the   *)
(* length of a full scan.  Both but for ties between chains at a page end. *)
(***************************************************************************)
EXTENDS Query, FiniteSetTheorems, SequenceTheorems, TLAPS

Keys == Int \X Int

\* l comes after k in the order asked for.
Beyond(desc, k, l) == IF desc THEN Less(l, k) ELSE Less(k, l)

\* No row twice, and each after those before it or level with them.
Sorted(desc, s) ==
    \A i, j \in 1 .. Len(s) : i < j => s[i] # s[j] /\ ~Beyond(desc, Key(s[j]), Key(s[i]))

Cursors == {format_cursor(k) : k \in Keys}
Texts == {args.after : args \in Args} \cup {NoCursor} \cup Cursors

SpecType ==
    [table : {Table}, filters : {args.where : args \in Args} \cup {<<>>}, first : Int,
     after : Texts, descending : {args.descending : args \in Args} \cup {FALSE}]

PageType == [items : Seq(Universe), has_next : BOOLEAN, end_cursor : Cursors \cup {NoCursor}]

\* A page asked for with this cursor: it continues behind the cursor, in order,
\* and hands out the key of its last row.
PageGood(desc, after, page) ==
    /\ after = NoCursor \/ parse_cursor(after) \in Keys
    /\ Sorted(desc, page.items)
    /\ after # NoCursor =>
          \A i \in 1 .. Len(page.items) : Beyond(desc, parse_cursor(after), Key(page.items[i]))
    /\ page.has_next =>
          page.items # <<>> /\ page.end_cursor = format_cursor(Key(Last(page.items)))

-----------------------------------------------------------------------------
(* The order of the keyset.                                                *)

LEMMA KeyType ==
    ASSUME NEW r \in Universe
    PROVE  Key(r) \in Keys
BY QueryAssumption, Zenon DEF Key, Keys

LEMMA BeyondOrder ==
    ASSUME NEW desc, NEW k \in Keys, NEW l \in Keys, NEW m \in Keys
    PROVE  /\ ~Beyond(desc, k, k)
           /\ Beyond(desc, k, l) => ~Beyond(desc, l, k)
           /\ ~Beyond(desc, k, l) /\ Beyond(desc, k, m) => Beyond(desc, l, m)
           /\ ~Beyond(desc, l, k) /\ ~Beyond(desc, m, l) => ~Beyond(desc, m, k)
<1>1. k[1] \in Int /\ k[2] \in Int /\ l[1] \in Int /\ l[2] \in Int /\ m[1] \in Int /\ m[2] \in Int
    BY Zenon DEF Keys
<1> QED BY <1>1 DEF Beyond, Less

LEMMA CursorRoundTrip ==
    ASSUME NEW k \in Keys
    PROVE  /\ parse_cursor(format_cursor(k)) = k
           /\ format_cursor(k) # NoCursor
BY DEF parse_cursor, format_cursor, NoCursor, Keys

\* A nonempty set of naturals has a least element.
LEMMA LeastNat ==
    ASSUME NEW T, T \subseteq Nat, T # {}
    PROVE  \E x \in T : \A y \in T : ~(y < x)
<1>1. \E x \in T : \A y \in T : ~(<<y, x>> \in OpToRel(<, Nat))
    BY NatLessThanWellFounded, WFMin, Zenon
<1> QED BY <1>1, ZenonT(30) DEF OpToRel

\* ORDER BY compares neighbours; the whole answer is sorted.
LEMMA NeighboursSorted ==
    ASSUME NEW desc, NEW s \in Seq(Universe),
           \A i \in 1 .. Len(s) - 1 : ~Beyond(desc, Key(s[i + 1]), Key(s[i]))
    PROVE  \A i, j \in 1 .. Len(s) : i < j => ~Beyond(desc, Key(s[j]), Key(s[i]))
<1> SUFFICES ASSUME NEW i \in 1 .. Len(s),
                    \E j \in 1 .. Len(s) : i < j /\ Beyond(desc, Key(s[j]), Key(s[i]))
             PROVE  FALSE
    BY Zenon
<1> DEFINE T == {j \in 1 .. Len(s) : i < j /\ Beyond(desc, Key(s[j]), Key(s[i]))}
<1>1. Len(s) \in Nat /\ \A j \in 1 .. Len(s) : Key(s[j]) \in Keys
    BY KeyType
<1>2. T \subseteq Nat /\ T # {}
    BY <1>1
<1> HIDE DEF T
<1>3. PICK j \in T : \A y \in T : ~(y < j)
    BY <1>2, LeastNat, ZenonT(30)
<1>4. j \in 1 .. Len(s) /\ i < j /\ Beyond(desc, Key(s[j]), Key(s[i]))
    BY <1>3, Zenon DEF T
<1>5. j - 1 \in 1 .. Len(s) - 1 /\ j - 1 \in 1 .. Len(s) /\ (j - 1) + 1 = j
    BY <1>1, <1>4
<1>6. ~Beyond(desc, Key(s[j]), Key(s[j - 1]))
    BY <1>5, ZenonT(30)
<1>7. CASE j - 1 = i
    BY <1>4, <1>6, <1>7, Zenon
<1>8. CASE j - 1 # i
    <2>1. j - 1 \notin T
        BY <1>3, <1>4, <1>5
    <2>2. ~Beyond(desc, Key(s[j - 1]), Key(s[i]))
        BY <2>1, <1>1, <1>4, <1>5, <1>8 DEF T
    <2>3. ~Beyond(desc, Key(s[j]), Key(s[i]))
        BY <2>2, <1>1, <1>4, <1>5, <1>6, BeyondOrder, ZenonT(30)
    <2> QED BY <2>3, <1>4, Zenon
<1> QED BY <1>7, <1>8, Zenon

-----------------------------------------------------------------------------
(* One statement.                                                          *)

\* A cursor that the reader does not refuse is a position.
LEMMA Positions ==
    ASSUME NEW spec \in SpecType, ~Refused(spec)
    PROVE  spec.after = NoCursor \/ parse_cursor(spec.after) \in Keys
<1>1. spec.after \in Texts
    BY Zenon DEF SpecType
<1>2. CASE spec.after \in Cursors
    BY <1>2, CursorRoundTrip, Zenon DEF Cursors
<1>3. CASE spec.after \in {args.after : args \in Args} /\ spec.after # NoCursor
    <2>1. IsCursor(spec.after)
        BY <1>3, Zenon DEF Refused
    <2>2. spec.after[1] \in Int /\ spec.after[3] \in Int
        BY <1>3, <2>1, ArgsAssumption, Zenon
    <2> QED BY <2>2, Zenon DEF parse_cursor, Keys
<1> QED BY <1>1, <1>2, <1>3, Zenon DEF Texts

\* The answers to the ORDER BY.
LEMMA Answers ==
    ASSUME NEW spec \in SpecType, NEW rows \in SUBSET Universe, NEW s \in Ordered(spec, rows)
    PROVE  s \in Seq(rows) /\ s \in Seq(Universe) /\ Sorted(spec.descending, s)
<1>1. IsFiniteSet(rows) /\ Cardinality(rows) \in Nat
    BY QueryAssumption, FS_Subset, FS_CardinalityType, Zenon
<1> DEFINE n == Cardinality(rows)
<1>2. s \in Injection(1 .. Cardinality(rows), rows)
    BY Zenon DEF Ordered
<1>3. s \in [1 .. n -> rows] /\ \A i, j \in 1 .. n : i # j => s[i] # s[j]
    BY <1>2, Zenon DEF Injection, IsInjective
<1> HIDE DEF n
<1>4. n \in Nat
    BY <1>1, Zenon DEF n
<1>5. s \in [1 .. n -> Universe]
    BY <1>3, Zenon
<1>6. s \in Seq(rows) /\ s \in Seq(Universe) /\ Len(s) = n
    BY <1>3, <1>4, <1>5
<1>7. \A i \in 1 .. Len(s) - 1 : ~Beyond(spec.descending, Key(s[i + 1]), Key(s[i]))
    BY Zenon DEF Ordered, Beyond
<1>8. \A i, j \in 1 .. Len(s) : i < j => ~Beyond(spec.descending, Key(s[j]), Key(s[i]))
    BY <1>6, <1>7, NeighboursSorted, ZenonT(30)
<1>9. \A i, j \in 1 .. Len(s) : i < j => s[i] # s[j]
    BY <1>3, <1>4, <1>6
<1> QED BY <1>6, <1>8, <1>9, Zenon DEF Sorted

LEMMA Statement ==
    ASSUME NEW spec \in SpecType, ~Refused(spec), NEW rows \in SUBSET Universe,
           NEW page \in query(spec, rows)
    PROVE  page \in PageType /\ PageGood(spec.descending, spec.after, page)
<1> DEFINE R == {r \in Filtered(spec, rows) : Past(spec, Key(r))}
           desc == spec.descending
<1>1. PICK s \in Ordered(spec, R) : page = PageOf(spec, s)
    BY Zenon DEF query
<1>2. R \in SUBSET Universe /\ \A r \in R : Past(spec, Key(r))
    BY Zenon DEF Filtered
<1> HIDE DEF R
<1>3. s \in Seq(R) /\ s \in Seq(Universe) /\ Sorted(desc, s)
    BY <1>1, <1>2, Answers, Zenon
<1> DEFINE first == Clamp(spec.first, 1, 1000)
           m == Shorter(s, first)
           items == SubSeq(s, 1, m)
<1>4. Len(s) \in Nat /\ first \in Nat \ {0}
    BY <1>3 DEF Clamp, SpecType
<1>5. m \in 0 .. Len(s) /\ (Len(s) > first => m = first)
    BY <1>4 DEF Shorter
<1> HIDE DEF first
<1>6. items \in Seq(Universe) /\ Len(items) = m /\ \A i \in 1 .. m : items[i] = s[i]
    <2> HIDE DEF m
    <2>1. SubSeq(s, 1, m) \in Seq(Universe) /\ Len(SubSeq(s, 1, m)) = (IF 1 <= m THEN m - 1 + 1 ELSE 0)
          /\ \A i \in 1 .. m - 1 + 1 : SubSeq(s, 1, m)[i] = s[1 + i - 1]
        BY <1>3, <1>5, SubSeqProperties
    <2>2. m \in Nat
        BY <1>4, <1>5
    <2> QED BY <2>1, <2>2
<1> HIDE DEF m, items
<1>7. page = [items |-> items, has_next |-> Len(s) > first,
              end_cursor |-> IF Len(s) > first THEN format_cursor(Key(Last(items))) ELSE NoCursor]
    BY <1>1, Zenon DEF PageOf, items, m, first
<1>8. page.items = items /\ (page.has_next <=> Len(s) > first)
      /\ (Len(s) > first => page.end_cursor = format_cursor(Key(Last(items))))
    BY <1>7, ZenonT(30)
<1>9. Len(s) > first => items # <<>> /\ Last(items) \in Universe
    BY <1>4, <1>5, <1>6 DEF Last
<1>10. page \in PageType
    <2>1. Len(s) > first => format_cursor(Key(Last(items))) \in Cursors
        BY <1>9, KeyType, Zenon DEF Cursors
    <2>2. (Len(s) > first) \in BOOLEAN
        OBVIOUS
    <2> QED BY <2>1, <2>2, <1>6, <1>7, Zenon DEF PageType
<1>11. Sorted(desc, items)
    BY <1>3, <1>4, <1>5, <1>6 DEF Sorted
<1>12. spec.after # NoCursor =>
          \A i \in 1 .. Len(items) : Beyond(desc, parse_cursor(spec.after), Key(items[i]))
    <2>1. \A i \in 1 .. m : s[i] \in R
        BY <1>3, <1>4, <1>5
    <2> QED BY <2>1, <1>2, <1>6, Zenon DEF Past, Beyond
<1> QED BY <1>8, <1>9, <1>10, <1>11, <1>12, Positions, Zenon DEF PageGood

-----------------------------------------------------------------------------
(* The invariant.                                                          *)

Pcs == {"idle", "query", "select", "page", "count", "select_count", "counted", "done", "error"}

ScanType ==
    [pc : Pcs, spec : SpecType, page : PageType, at : Nat, from : Texts, got : Seq(Universe),
     ends : SUBSET Keys, total : Int, steady : SUBSET Universe, still : BOOLEAN]

QueryEntry == [page : PageType, at : Nat, put : Nat]
CountEntry == [n : Int, at : Nat, put : Nat]

Typed ==
    /\ Rows \subseteq Universe
    /\ scan \in [Clients -> ScanType]
    /\ \A k \in DOMAIN queries : queries[k] \in QueryEntry
    /\ \A k \in DOMAIN counts : counts[k] \in CountEntry

\* A snapshot is at most Latency older than its entry in the cache.
Recent ==
    /\ \A c \in Clients : scan[c].pc \in {"page", "counted"} => scan[c].at <= Latency
    /\ \A k \in DOMAIN queries : queries[k].at <= queries[k].put + Latency
    /\ \A k \in DOMAIN counts : counts[k].at <= counts[k].put + Latency

\* Each cached page answers its key, whatever snapshot it is from.
CacheGood == \A k \in DOMAIN queries : PageGood(k[4], k[5], queries[k].page)

\* What a client has is sorted, and nothing of it is behind the cursor with
\* which it asks on.
ScanGood(s) ==
    /\ Sorted(s.spec.descending, s.got)
    /\ s.pc = "idle" => s.got = <<>>
    /\ s.pc = "page" => PageGood(s.spec.descending, s.spec.after, s.page)
    /\ (s.pc \in {"query", "select", "page"} /\ s.got # <<>>) =>
          /\ s.spec.after # NoCursor /\ parse_cursor(s.spec.after) \in Keys
          /\ \A i \in 1 .. Len(s.got) :
                ~Beyond(s.spec.descending, parse_cursor(s.spec.after), Key(s.got[i]))

ScansGood == \A c \in Clients : ScanGood(scan[c])

IInv == Typed /\ Recent /\ CacheGood /\ ScansGood

-----------------------------------------------------------------------------
LEMMA EmptyPage == NoPage \in PageType /\ NoCursor \in Texts
<1>1. <<>> \in Seq(Universe)
    OBVIOUS
<1> QED BY <1>1, Zenon DEF NoPage, PageType, Texts

LEMMA EmptyScan ==
    ASSUME NEW pc \in {"idle", "error"}
    PROVE  NoScan(pc) \in ScanType /\ ScanGood(NoScan(pc)) /\ NoScan(pc).pc = pc
<1>1. NoSpec \in SpecType
    BY EmptyPage DEF NoSpec, SpecType
<1>2. NoScan(pc) \in ScanType
    <2>1. <<>> \in Seq(Universe) /\ pc \in Pcs /\ 0 \in Nat /\ -1 \in Int
        BY DEF Pcs
    <2> QED BY <2>1, <1>1, EmptyPage, Zenon DEF NoScan, ScanType
<1>3. NoScan(pc).pc = pc /\ NoScan(pc).got = <<>>
    BY Zenon DEF NoScan
<1>4. ScanGood(NoScan(pc))
    BY <1>3 DEF ScanGood, Sorted
<1> QED BY <1>2, <1>3, <1>4, Zenon

LEMMA InitInv == Init => IInv
<1> SUFFICES ASSUME Init PROVE IInv
    BY Zenon
<1>1. \A c \in Clients : scan[c] = NoScan("idle")
    BY Zenon DEF Init
<1>2. DOMAIN queries = {} /\ DOMAIN counts = {}
    BY DEF Init
<1>3. Typed
    BY <1>2, EmptyScan, QueryAssumption, Zenon DEF Init, Typed, Rows
<1>4. Recent /\ CacheGood
    BY <1>1, <1>2, EmptyScan, Zenon DEF Recent, CacheGood
<1>5. ScansGood
    BY <1>1, EmptyScan, Zenon DEF ScansGood
<1> QED BY <1>3, <1>4, <1>5, Zenon DEF IInv

\* A step of one client that leaves the tables alone.
LEMMA OneClient ==
    ASSUME IInv, NEW c \in Clients, NEW s \in ScanType, ScanGood(s),
           s.pc \in {"page", "counted"} => s.at <= Latency,
           scan' = [scan EXCEPT ![c] = s]
    PROVE  /\ scan' \in [Clients -> ScanType] /\ ScansGood'
           /\ \A d \in Clients : scan'[d].pc \in {"page", "counted"} => scan'[d].at <= Latency
<1>1. scan \in [Clients -> ScanType]
    BY Zenon DEF IInv, Typed
<1>2. scan' \in [Clients -> ScanType]
    BY <1>1, Zenon
<1>3. \A d \in Clients : scan'[d] = IF d = c THEN s ELSE scan[d]
    BY <1>1, Zenon
<1>4. ScansGood'
    BY <1>3, Zenon DEF IInv, ScansGood
<1>5. \A d \in Clients : scan'[d].pc \in {"page", "counted"} => scan'[d].at <= Latency
    BY <1>3, Zenon DEF IInv, Recent
<1> QED BY <1>2, <1>4, <1>5, Zenon

\* A page that answers the client's cursor is appended to what it has.
LEMMA Served ==
    ASSUME IInv, NEW c \in Clients, NEW page \in PageType, Serve(c, page),
           scan[c].pc \in {"query", "page"},
           PageGood(scan[c].spec.descending, scan[c].spec.after, page)
    PROVE  /\ scan' \in [Clients -> ScanType] /\ ScansGood'
           /\ \A d \in Clients : scan'[d].pc \in {"page", "counted"} => scan'[d].at <= Latency
<1> DEFINE old == scan[c]
           items == page.items
           desc == old.spec.descending
           after == IF page.has_next THEN page.end_cursor ELSE old.spec.after
           spec == [old.spec EXCEPT !.after = after]
           s == [old EXCEPT !.pc = IF page.has_next THEN "query" ELSE "count",
                   !.spec = spec, !.got = old.got \o items,
                   !.ends = IF page.has_next THEN old.ends \cup {Key(Last(items))} ELSE old.ends,
                   !.page = NoPage, !.at = 0]
<1>1. scan \in [Clients -> ScanType] /\ old \in ScanType /\ ScanGood(old)
    BY Zenon DEF IInv, Typed, ScansGood
<1>2. scan' = [scan EXCEPT ![c] = s]
    BY <1>1, ZenonT(30) DEF Serve, ScanType, SpecType
<1>3. items \in Seq(Universe) /\ old.got \in Seq(Universe) /\ page.has_next \in BOOLEAN
      /\ page.end_cursor \in Cursors \cup {NoCursor} /\ old.spec \in SpecType
    BY <1>1, Zenon DEF PageType, ScanType
<1>4. after \in Texts /\ spec \in SpecType /\ spec.descending = desc /\ spec.after = after
    <2>1. after \in Texts
        BY <1>3, ZenonT(30) DEF Texts, SpecType
    <2> HIDE DEF after
    <2> QED BY <2>1, <1>3, ZenonT(30) DEF SpecType
<1>5. page.has_next => items # <<>> /\ Last(items) \in Universe /\ after = format_cursor(Key(Last(items)))
    BY <1>3 DEF PageGood, Last
<1>6. s \in ScanType
    <2>1. (IF page.has_next THEN "query" ELSE "count") \in Pcs
        BY Zenon DEF Pcs
    <2>2. (IF page.has_next THEN old.ends \cup {Key(Last(items))} ELSE old.ends) \in SUBSET Keys
        BY <1>1, <1>5, KeyType, Zenon DEF ScanType
    <2>3. old.got \o items \in Seq(Universe)
        BY <1>3
    <2> HIDE DEF items, spec, after
    <2> QED BY <2>1, <2>2, <2>3, <1>1, <1>4, EmptyPage, ZenonT(30) DEF ScanType
<1>7. /\ s.pc = (IF page.has_next THEN "query" ELSE "count") /\ s.spec = spec
      /\ s.got = old.got \o items
    BY <1>1, Zenon DEF ScanType
<1> DEFINE n == Len(old.got)
           m == Len(items)
           all == old.got \o items
<1>8. /\ n \in Nat /\ m \in Nat /\ Len(all) = n + m
      /\ \A i \in 1 .. n : all[i] = old.got[i] /\ Key(old.got[i]) \in Keys
      /\ \A i \in 1 .. n + m : i > n => i - n \in 1 .. m /\ all[i] = items[i - n]
      /\ \A i \in 1 .. m : Key(items[i]) \in Keys
    <2>1. n \in Nat /\ m \in Nat /\ Len(all) = n + m
        BY <1>3
    <2>2. \A i \in 1 .. n + m : all[i] = IF i <= n THEN old.got[i] ELSE items[i - n]
        BY <1>3
    <2>3. \A i \in 1 .. n : old.got[i] \in Universe
        BY <1>3
    <2>4. \A i \in 1 .. m : items[i] \in Universe
        BY <1>3
    <2> HIDE DEF n, m, all
    <2> QED BY <2>1, <2>2, <2>3, <2>4, KeyType
<1>9. n # 0 => /\ old.spec.after # NoCursor /\ parse_cursor(old.spec.after) \in Keys
               /\ \A i \in 1 .. n : ~Beyond(desc, parse_cursor(old.spec.after), Key(old.got[i]))
    <2>1. n # 0 => old.got # <<>>
        BY <1>3
    <2> QED BY <2>1, <1>1, Zenon DEF ScanGood
<1>10. \A i \in 1 .. n, j \in 1 .. m : Beyond(desc, Key(old.got[i]), Key(items[j]))
    <2> SUFFICES ASSUME NEW i \in 1 .. n, NEW j \in 1 .. m
                 PROVE  Beyond(desc, Key(old.got[i]), Key(items[j]))
        BY Zenon
    <2> DEFINE k == parse_cursor(old.spec.after)
    <2>1. k \in Keys /\ old.spec.after # NoCursor /\ ~Beyond(desc, k, Key(old.got[i]))
        BY <1>8, <1>9
    <2>2. Beyond(desc, k, Key(items[j]))
        BY <2>1, Zenon DEF PageGood
    <2> HIDE DEF k
    <2> QED BY <2>1, <2>2, <1>8, BeyondOrder, ZenonT(30)
<1>11. Sorted(desc, old.got) /\ Sorted(desc, items)
    BY <1>1, Zenon DEF ScanGood, PageGood
<1> HIDE DEF n, m, all
<1>12. Sorted(desc, all)
    <2> SUFFICES ASSUME NEW i \in 1 .. n + m, NEW j \in 1 .. n + m, i < j
                 PROVE  all[i] # all[j] /\ ~Beyond(desc, Key(all[j]), Key(all[i]))
        BY <1>8, Zenon DEF Sorted
    <2>1. CASE j <= n
        <3>1. i \in 1 .. n /\ j \in 1 .. n
            BY <2>1, <1>8
        <3> QED BY <3>1, <1>8, <1>11, ZenonT(30) DEF Sorted, n
    <2>2. CASE i > n
        <3>1. i - n \in 1 .. m /\ j - n \in 1 .. m /\ i - n < j - n /\ j > n
            BY <2>2, <1>8
        <3>2. all[i] = items[i - n] /\ all[j] = items[j - n]
            BY <3>1, <2>2, <1>8, Zenon
        <3>3. items[i - n] # items[j - n] /\ ~Beyond(desc, Key(items[j - n]), Key(items[i - n]))
            BY <3>1, <1>11, Zenon DEF Sorted, m
        <3> QED BY <3>2, <3>3, Zenon
    <2>3. CASE ~(j <= n) /\ ~(i > n)
        <3>1. i \in 1 .. n /\ j > n /\ j - n \in 1 .. m
            BY <2>3, <1>8
        <3>2. Beyond(desc, Key(old.got[i]), Key(items[j - n]))
            BY <3>1, <1>10, Zenon
        <3>3. all[i] = old.got[i] /\ all[j] = items[j - n] /\ Key(all[i]) \in Keys /\ Key(all[j]) \in Keys
            BY <3>1, <1>8, Zenon
        <3>4. Beyond(desc, Key(all[i]), Key(all[j]))
            BY <3>2, <3>3, Zenon
        <3> QED BY <3>3, <3>4, BeyondOrder, ZenonT(30)
    <2> QED BY <2>1, <2>2, <2>3, Zenon
<1>13. page.has_next => /\ parse_cursor(after) = Key(items[m]) /\ after # NoCursor
                        /\ parse_cursor(after) \in Keys /\ m \in 1 .. m
    BY <1>5, <1>8, CursorRoundTrip, KeyType DEF Last, m
<1>14. page.has_next => \A i \in 1 .. n + m : ~Beyond(desc, Key(items[m]), Key(all[i]))
    <2> SUFFICES ASSUME page.has_next, NEW i \in 1 .. n + m
                 PROVE  ~Beyond(desc, Key(items[m]), Key(all[i]))
        BY Zenon
    <2>1. n + m \in 1 .. n + m /\ all[n + m] = items[m] /\ Key(items[m]) \in Keys
        BY <1>8, <1>13
    <2>2. CASE i = n + m
        BY <2>1, <2>2, BeyondOrder
    <2>3. CASE i # n + m
        <3>1. i < n + m /\ n + m \in 1 .. Len(all) /\ i \in 1 .. Len(all)
            BY <2>1, <2>3, <1>8
        <3> QED BY <3>1, <2>1, <1>12, Zenon DEF Sorted
    <2> QED BY <2>2, <2>3, Zenon
<1>15. ScanGood(s)
    <2> HIDE DEF spec, after, s, items
    <2>1. s.got = all /\ s.spec.descending = desc /\ s.spec.after = after
        BY <1>4, <1>7, Zenon DEF all
    <2> HIDE DEF desc
    <2>2. Sorted(s.spec.descending, s.got) /\ s.pc # "idle" /\ s.pc # "page"
        BY <2>1, <1>7, <1>12, Zenon
    <2>3. s.pc \in {"query", "select", "page"} => page.has_next
        BY <1>7, Zenon
    <2>4. page.has_next => /\ s.spec.after # NoCursor /\ parse_cursor(s.spec.after) \in Keys
                           /\ \A i \in 1 .. Len(s.got) : ~Beyond(desc, parse_cursor(s.spec.after), Key(s.got[i]))
        BY <2>1, <1>8, <1>13, <1>14, Zenon
    <2> QED BY <2>1, <2>2, <2>3, <2>4, Zenon DEF ScanGood
<1>16. s.pc \in {"page", "counted"} => s.at <= Latency
    BY <1>7
<1> HIDE DEF s
<1> QED BY <1>2, <1>6, <1>15, <1>16, OneClient, ZenonT(30)

\* A new entry in a cache.
LEMMA PutEntry ==
    ASSUME NEW cache, NEW key, NEW entry
    PROVE  \A k \in DOMAIN Put(cache, key, entry) :
               \/ k = key /\ Put(cache, key, entry)[k] = entry
               \/ k \in DOMAIN cache /\ Put(cache, key, entry)[k] = cache[k]
BY Zenon DEF Put

LEMMA ReadKeeps ==
    ASSUME IInv, NEW c \in Clients, Read(c)
    PROVE  IInv'
<1> DEFINE old == scan[c]
<1>0. /\ Rows \subseteq Universe /\ scan \in [Clients -> ScanType] /\ old \in ScanType
      /\ (\A k \in DOMAIN queries : queries[k] \in QueryEntry)
      /\ (\A k \in DOMAIN counts : counts[k] \in CountEntry)
      /\ Recent /\ CacheGood /\ ScansGood /\ ScanGood(old)
    BY Zenon DEF IInv, Typed, ScansGood
<1>1. CASE QueryLookup(c)
    <2>1. UNCHANGED <<table, queries, counts>> /\ old.pc = "query"
        BY <1>1, Zenon DEF QueryLookup, storage
    <2> DEFINE key == query_key(old.spec)
    <2>2. CASE Hit(queries, key)
        <3>1. Serve(c, queries[key].page) /\ key \in DOMAIN queries
            BY <1>1, <2>2, Zenon DEF QueryLookup, Hit
        <3>2. key[4] = old.spec.descending /\ key[5] = old.spec.after
            BY Zenon DEF query_key
        <3>3. queries[key].page \in PageType
            BY <3>1, <1>0, Zenon DEF QueryEntry
        <3>4. PageGood(old.spec.descending, old.spec.after, queries[key].page)
            BY <3>1, <3>2, <1>0, Zenon DEF CacheGood
        <3>5. scan' \in [Clients -> ScanType] /\ ScansGood'
              /\ \A d \in Clients : scan'[d].pc \in {"page", "counted"} => scan'[d].at <= Latency
            BY <3>1, <3>3, <3>4, <2>1, Served, Zenon
        <3> QED BY <3>5, <2>1, <1>0, Zenon DEF IInv, Typed, Recent, CacheGood, Rows
    <2>3. CASE ~Hit(queries, key)
        <3> DEFINE s == [old EXCEPT !.pc = "select"]
        <3>1. scan' = [scan EXCEPT ![c] = s]
            BY <1>0, <1>1, <2>3, Zenon DEF QueryLookup
        <3>2. s \in ScanType /\ s.pc = "select" /\ s.spec = old.spec /\ s.got = old.got
            BY <1>0, ZenonT(30) DEF ScanType, Pcs
        <3> HIDE DEF s
        <3>3. ScanGood(s)
            BY <3>2, <2>1, <1>0, Zenon DEF ScanGood
        <3>4. scan' \in [Clients -> ScanType] /\ ScansGood'
              /\ \A d \in Clients : scan'[d].pc \in {"page", "counted"} => scan'[d].at <= Latency
            BY <3>1, <3>2, <3>3, OneClient, ZenonT(30)
        <3> QED BY <3>4, <2>1, <1>0, Zenon DEF IInv, Typed, Recent, CacheGood, Rows
    <2> QED BY <2>2, <2>3, Zenon
<1>2. CASE Select(c)
    <2>1. UNCHANGED <<table, queries, counts>> /\ old.pc = "select"
        BY <1>2, Zenon DEF Select, storage
    <2>2. CASE Refused(old.spec)
        <3>1. scan' = [scan EXCEPT ![c] = NoScan("error")]
            BY <1>2, <2>2, Zenon DEF Select
        <3>2. scan' \in [Clients -> ScanType] /\ ScansGood'
              /\ \A d \in Clients : scan'[d].pc \in {"page", "counted"} => scan'[d].at <= Latency
            BY <3>1, EmptyScan, OneClient, ZenonT(30)
        <3> QED BY <3>2, <2>1, <1>0, Zenon DEF IInv, Typed, Recent, CacheGood, Rows
    <2>3. CASE ~Refused(old.spec)
        <3>1. PICK page \in query(old.spec, Rows) :
                scan' = [scan EXCEPT ![c].pc = "page", ![c].page = page, ![c].at = 0]
            BY <1>2, <2>3, Zenon DEF Select
        <3>2. old.spec \in SpecType
            BY <1>0, Zenon DEF ScanType
        <3>3. page \in PageType /\ PageGood(old.spec.descending, old.spec.after, page)
            BY <3>1, <3>2, <2>3, <1>0, Statement, Zenon
        <3> DEFINE s == [old EXCEPT !.pc = "page", !.page = page, !.at = 0]
        <3>4. scan' = [scan EXCEPT ![c] = s]
            BY <1>0, <3>1, ZenonT(30)
        <3>5. s \in ScanType /\ s.pc = "page" /\ s.spec = old.spec /\ s.got = old.got /\ s.page = page /\ s.at = 0
            BY <3>3, <1>0, ZenonT(30) DEF ScanType, Pcs
        <3> HIDE DEF s
        <3>6. ScanGood(s)
            BY <3>3, <3>5, <2>1, <1>0, Zenon DEF ScanGood
        <3>7. s.at <= Latency
            BY <3>5, QueryAssumption
        <3>8. scan' \in [Clients -> ScanType] /\ ScansGood'
              /\ \A d \in Clients : scan'[d].pc \in {"page", "counted"} => scan'[d].at <= Latency
            BY <3>4, <3>5, <3>6, <3>7, OneClient, ZenonT(30)
        <3> QED BY <3>8, <2>1, <1>0, Zenon DEF IInv, Typed, Recent, CacheGood, Rows
    <2> QED BY <2>2, <2>3, Zenon
<1>3. CASE QueryInsert(c)
    <2> DEFINE key == query_key(old.spec)
               entry == [page |-> old.page, at |-> old.at, put |-> 0]
    <2>1. /\ UNCHANGED <<table, counts>> /\ old.pc = "page"
          /\ queries' = Put(queries, key, entry) /\ Serve(c, old.page)
        BY <1>3, Zenon DEF QueryInsert, storage
    <2>2. old.page \in PageType /\ old.at \in Nat /\ old.at <= Latency
          /\ PageGood(old.spec.descending, old.spec.after, old.page)
        BY <2>1, <1>0, Zenon DEF ScanType, ScanGood, Recent
    <2>3. key[4] = old.spec.descending /\ key[5] = old.spec.after
        BY Zenon DEF query_key
    <2>4. entry \in QueryEntry /\ entry.at <= entry.put + Latency /\ entry.page = old.page
        BY <2>2, QueryAssumption DEF QueryEntry
    <2> HIDE DEF key, entry
    <2>5. \A k \in DOMAIN queries' :
            (k = key /\ queries'[k] = entry) \/ (k \in DOMAIN queries /\ queries'[k] = queries[k])
        <3>1. \A k \in DOMAIN Put(queries, key, entry) :
                \/ k = key /\ Put(queries, key, entry)[k] = entry
                \/ k \in DOMAIN queries /\ Put(queries, key, entry)[k] = queries[k]
            BY PutEntry
        <3> QED BY <2>1, <3>1, Zenon
    <2>6. scan' \in [Clients -> ScanType] /\ ScansGood'
          /\ \A d \in Clients : scan'[d].pc \in {"page", "counted"} => scan'[d].at <= Latency
        BY <2>1, <2>2, Served, Zenon
    <2>7. \A k \in DOMAIN queries' : queries'[k] \in QueryEntry /\ queries'[k].at <= queries'[k].put + Latency
        BY <2>4, <2>5, <1>0, Zenon DEF Recent
    <2>8. CacheGood'
        BY <2>2, <2>3, <2>4, <2>5, <1>0, Zenon DEF CacheGood
    <2> QED BY <2>1, <2>6, <2>7, <2>8, <1>0, Zenon DEF IInv, Typed, Recent, Rows
<1>4. CASE CountLookup(c)
    <2>1. UNCHANGED <<table, queries, counts>> /\ old.pc = "count"
        BY <1>4, Zenon DEF CountLookup, storage
    <2> DEFINE key == count_key(old.spec)
    <2>2. PICK s \in ScanType :
            /\ scan' = [scan EXCEPT ![c] = s] /\ s.pc \in {"done", "select_count"}
            /\ s.spec = old.spec /\ s.got = old.got
        <3>1. CASE Hit(counts, key)
            <4> DEFINE s == [old EXCEPT !.pc = "done", !.total = counts[key].n, !.at = 0]
            <4>1. scan' = [scan EXCEPT ![c] = s] /\ key \in DOMAIN counts
                BY <1>0, <1>4, <3>1, ZenonT(30) DEF CountLookup, ServeCount, Hit
            <4>2. counts[key].n \in Int
                BY <4>1, <1>0, Zenon DEF CountEntry
            <4>3. s \in ScanType /\ s.pc = "done" /\ s.spec = old.spec /\ s.got = old.got
                BY <4>2, <1>0, ZenonT(30) DEF ScanType, Pcs
            <4> QED BY <4>1, <4>3, ZenonT(30)
        <3>2. CASE ~Hit(counts, key)
            <4> DEFINE s == [old EXCEPT !.pc = "select_count"]
            <4>1. scan' = [scan EXCEPT ![c] = s]
                BY <1>0, <1>4, <3>2, Zenon DEF CountLookup
            <4>2. s \in ScanType /\ s.pc = "select_count" /\ s.spec = old.spec /\ s.got = old.got
                BY <1>0, ZenonT(30) DEF ScanType, Pcs
            <4> QED BY <4>1, <4>2, ZenonT(30)
        <3> QED BY <3>1, <3>2, Zenon
    <2>3. ScanGood(s) /\ s.pc \notin {"page", "counted"}
        BY <2>2, <1>0, Zenon DEF ScanGood
    <2>4. scan' \in [Clients -> ScanType] /\ ScansGood'
          /\ \A d \in Clients : scan'[d].pc \in {"page", "counted"} => scan'[d].at <= Latency
        BY <2>2, <2>3, OneClient, ZenonT(30)
    <2> QED BY <2>4, <2>1, <1>0, Zenon DEF IInv, Typed, Recent, CacheGood, Rows
<1>5. CASE SelectCount(c)
    <2> DEFINE n == count(old.spec, Rows)
               s == [old EXCEPT !.pc = "counted", !.at = 0, !.total = n]
    <2>1. /\ UNCHANGED <<table, queries, counts>> /\ old.pc = "select_count"
          /\ scan' = [scan EXCEPT ![c].pc = "counted", ![c].at = 0, ![c].total = n]
        BY <1>5, Zenon DEF SelectCount, storage
    <2>2. n \in Int
        <3>1. Filtered(old.spec, Rows) \in SUBSET Universe
            BY <1>0, Zenon DEF Filtered
        <3>2. Cardinality(Filtered(old.spec, Rows)) \in Nat
            BY <3>1, QueryAssumption, FS_Subset, FS_CardinalityType, Zenon
        <3> QED BY <3>2 DEF count
    <2> HIDE DEF n
    <2>3. scan' = [scan EXCEPT ![c] = s]
        BY <1>0, <2>1, ZenonT(30)
    <2>4. s \in ScanType /\ s.pc = "counted" /\ s.spec = old.spec /\ s.got = old.got /\ s.at = 0
        BY <2>2, <1>0, ZenonT(30) DEF ScanType, Pcs
    <2> HIDE DEF s
    <2>5. ScanGood(s) /\ s.at <= Latency
        BY <2>4, <1>0, QueryAssumption DEF ScanGood
    <2>6. scan' \in [Clients -> ScanType] /\ ScansGood'
          /\ \A d \in Clients : scan'[d].pc \in {"page", "counted"} => scan'[d].at <= Latency
        BY <2>3, <2>4, <2>5, OneClient, ZenonT(30)
    <2> QED BY <2>6, <2>1, <1>0, Zenon DEF IInv, Typed, Recent, CacheGood, Rows
<1>6. CASE CountInsert(c)
    <2> DEFINE key == count_key(old.spec)
               entry == [n |-> old.total, at |-> old.at, put |-> 0]
               s == [old EXCEPT !.pc = "done", !.total = old.total, !.at = 0]
    <2>1. /\ UNCHANGED <<table, queries>> /\ old.pc = "counted"
          /\ counts' = Put(counts, key, entry)
          /\ scan' = [scan EXCEPT ![c].pc = "done", ![c].total = old.total, ![c].at = 0]
        BY <1>6, Zenon DEF CountInsert, ServeCount, storage
    <2>2. old.total \in Int /\ old.at \in Nat /\ old.at <= Latency
        BY <2>1, <1>0, Zenon DEF ScanType, Recent
    <2>3. scan' = [scan EXCEPT ![c] = s]
        BY <1>0, <2>1, ZenonT(30)
    <2>4. s \in ScanType /\ s.pc = "done" /\ s.spec = old.spec /\ s.got = old.got
        BY <2>2, <1>0, ZenonT(30) DEF ScanType, Pcs
    <2>5. entry \in CountEntry /\ entry.at <= entry.put + Latency
        BY <2>2, QueryAssumption DEF CountEntry
    <2> HIDE DEF key, entry, s
    <2>6. \A k \in DOMAIN counts' :
            (k = key /\ counts'[k] = entry) \/ (k \in DOMAIN counts /\ counts'[k] = counts[k])
        <3>1. \A k \in DOMAIN Put(counts, key, entry) :
                \/ k = key /\ Put(counts, key, entry)[k] = entry
                \/ k \in DOMAIN counts /\ Put(counts, key, entry)[k] = counts[k]
            BY PutEntry
        <3> QED BY <2>1, <3>1, Zenon
    <2>7. ScanGood(s)
        BY <2>4, <1>0, Zenon DEF ScanGood
    <2>8. scan' \in [Clients -> ScanType] /\ ScansGood'
          /\ \A d \in Clients : scan'[d].pc \in {"page", "counted"} => scan'[d].at <= Latency
        BY <2>3, <2>4, <2>7, OneClient, ZenonT(30)
    <2>9. \A k \in DOMAIN counts' : counts'[k] \in CountEntry /\ counts'[k].at <= counts'[k].put + Latency
        BY <2>5, <2>6, <1>0, Zenon DEF Recent
    <2> QED BY <2>1, <2>8, <2>9, <1>0, Zenon DEF IInv, Typed, Recent, CacheGood, Rows
<1> QED BY <1>1, <1>2, <1>3, <1>4, <1>5, <1>6, Zenon DEF Read

LEMMA AsksOrFails ==
    ASSUME IInv, NEW c \in Clients, SelectFails(c) \/ \E args \in Args : query_field(c, args)
    PROVE  IInv'
<1> DEFINE old == scan[c]
<1>0. /\ Rows \subseteq Universe /\ scan \in [Clients -> ScanType] /\ old \in ScanType
      /\ Recent /\ CacheGood /\ ScanGood(old)
      /\ (\A k \in DOMAIN queries : queries[k] \in QueryEntry)
      /\ (\A k \in DOMAIN counts : counts[k] \in CountEntry)
    BY Zenon DEF IInv, Typed, ScansGood
<1>1. UNCHANGED <<table, queries, counts>>
    BY Zenon DEF SelectFails, query_field, storage
<1>2. PICK s \in ScanType :
        /\ scan' = [scan EXCEPT ![c] = s] /\ ScanGood(s) /\ s.pc \in {"error", "query"}
    <2>1. CASE SelectFails(c)
        BY <2>1, EmptyScan, ZenonT(30) DEF SelectFails
    <2>2. CASE \E args \in Args : query_field(c, args)
        <3>1. PICK args \in Args : query_field(c, args)
            BY <2>2, Zenon
        <3> DEFINE spec == [table |-> Table, filters |-> args.where, after |-> args.after,
                            first |-> IF args.first < 1 THEN 1 ELSE args.first,
                            descending |-> args.descending]
                   steady == {r \in Rows : table[r] = Old}
                   still == (quiet = Old)
                   s == [old EXCEPT !.pc = "query", !.from = args.after, !.steady = steady,
                           !.still = still, !.spec = spec]
        <3>2. spec \in SpecType
            <4>1. args.after \in Texts /\ (IF args.first < 1 THEN 1 ELSE args.first) \in Int
                BY ArgsAssumption DEF Texts
            <4> QED BY <4>1, ZenonT(30) DEF SpecType
        <3>3. steady \in SUBSET Universe /\ still \in BOOLEAN /\ args.after \in Texts
            BY <1>0, Zenon DEF Texts
        <3>4. /\ old.pc = "idle"
              /\ scan' = [scan EXCEPT ![c].pc = "query", ![c].from = args.after,
                            ![c].steady = steady, ![c].still = still, ![c].spec = spec]
            BY <3>1, Zenon DEF query_field
        <3> HIDE DEF spec, steady, still
        <3>5. scan' = [scan EXCEPT ![c] = s]
            BY <1>0, <3>4, ZenonT(30)
        <3>6. s \in ScanType /\ s.pc = "query" /\ s.got = old.got
            BY <3>2, <3>3, <1>0, ZenonT(30) DEF ScanType, Pcs
        <3> HIDE DEF s
        <3>7. s.got = <<>>
            BY <3>4, <3>6, <1>0, Zenon DEF ScanGood
        <3>8. ScanGood(s)
            BY <3>6, <3>7 DEF ScanGood, Sorted
        <3> QED BY <3>5, <3>6, <3>8, ZenonT(30)
    <2> QED BY <2>1, <2>2, Zenon
<1>3. scan' \in [Clients -> ScanType] /\ ScansGood'
      /\ \A d \in Clients : scan'[d].pc \in {"page", "counted"} => scan'[d].at <= Latency
    BY <1>2, OneClient, ZenonT(30)
<1> QED BY <1>1, <1>3, <1>0, Zenon DEF IInv, Typed, Recent, CacheGood, Rows

\* Inserts and rollbacks change what the next statement sees, nothing else.
LEMMA WritesKeep ==
    ASSUME IInv, NEW chain, NEW height,
           upsert_batch(chain, height) \/ delete_from(chain, height)
    PROVE  IInv'
<1>0. /\ Rows \subseteq Universe /\ scan \in [Clients -> ScanType]
      /\ Recent /\ CacheGood /\ ScansGood
      /\ (\A k \in DOMAIN queries : queries[k] \in QueryEntry)
      /\ (\A k \in DOMAIN counts : counts[k] \in CountEntry)
    BY Zenon DEF IInv, Typed
<1>1. UNCHANGED <<queries, counts>> /\ \E gone : Wrote(gone)
    BY Zenon DEF upsert_batch, delete_from
<1>2. Rows' \subseteq Universe
    BY <1>0, ZenonT(30) DEF upsert_batch, delete_from, Rows
<1>3. PICK gone : Wrote(gone)
    BY <1>1, Zenon
<1>4. scan' = [c \in Clients |-> [scan[c] EXCEPT !.steady = scan[c].steady \ gone, !.still = FALSE]]
    BY <1>3, ZenonT(30) DEF Wrote
<1>5. \A c \in Clients :
        /\ scan'[c] \in ScanType /\ scan'[c].pc = scan[c].pc /\ scan'[c].at = scan[c].at
        /\ scan'[c].spec = scan[c].spec /\ scan'[c].got = scan[c].got /\ scan'[c].page = scan[c].page
    BY <1>0, <1>4, ZenonT(30) DEF ScanType
<1>6. scan' \in [Clients -> ScanType]
    BY <1>4, <1>5, ZenonT(30)
<1>7. ScansGood'
    BY <1>0, <1>5, Zenon DEF ScansGood, ScanGood
<1>8. Recent' /\ CacheGood'
    BY <1>0, <1>1, <1>5, Zenon DEF Recent, CacheGood
<1> QED BY <1>0, <1>1, <1>2, <1>6, <1>7, <1>8, Zenon DEF IInv, Typed

LEMMA EvictKeeps ==
    ASSUME IInv, Evict
    PROVE  IInv'
<1>1. UNCHANGED <<table, scan>>
    BY Zenon DEF Evict, storage
<1>2. \A k \in DOMAIN queries' : k \in DOMAIN queries /\ queries'[k] = queries[k]
    BY ZenonT(30) DEF Evict
<1>3. \A k \in DOMAIN counts' : k \in DOMAIN counts /\ counts'[k] = counts[k]
    BY ZenonT(30) DEF Evict
<1> QED BY <1>1, <1>2, <1>3, Zenon DEF IInv, Typed, Recent, CacheGood, ScansGood, Rows

\* An entry that has not expired has been in the cache for less than TTL ticks,
\* so none of its ages has reached the oldest one told apart.
LEMMA Ageing ==
    ASSUME NEW at \in Nat, NEW put \in Nat, at <= put + Latency, Older(put) < TTL
    PROVE  /\ Older(at) \in Nat /\ Older(put) \in Nat
           /\ Older(at) <= Older(put) + Latency
BY QueryAssumption DEF Older, Old

LEMMA AgedQueries ==
    ASSUME \A k \in DOMAIN queries :
               queries[k] \in QueryEntry /\ queries[k].at <= queries[k].put + Latency
    PROVE  \A k \in DOMAIN Aged(queries) :
               /\ k \in DOMAIN queries /\ Aged(queries)[k].page = queries[k].page
               /\ Aged(queries)[k] \in QueryEntry
               /\ Aged(queries)[k].at <= Aged(queries)[k].put + Latency
<1> DEFINE aged == [k \in DOMAIN queries |->
                        [queries[k] EXCEPT !.at = Older(queries[k].at), !.put = Older(queries[k].put)]]
<1>1. Aged(queries) = [k \in {k \in DOMAIN aged : Hit(aged, k)} |-> aged[k]]
    BY Zenon DEF Aged
<1> SUFFICES ASSUME NEW k \in DOMAIN Aged(queries)
             PROVE  /\ k \in DOMAIN queries /\ Aged(queries)[k].page = queries[k].page
                    /\ Aged(queries)[k] \in QueryEntry
                    /\ Aged(queries)[k].at <= Aged(queries)[k].put + Latency
    BY Zenon
<1>2. k \in DOMAIN queries /\ Aged(queries)[k] = aged[k] /\ aged[k].put < TTL
    BY <1>1, ZenonT(30) DEF Hit
<1>3. /\ queries[k].at \in Nat /\ queries[k].put \in Nat /\ queries[k].page \in PageType
      /\ aged[k] = [page |-> queries[k].page, at |-> Older(queries[k].at), put |-> Older(queries[k].put)]
    BY <1>2, ZenonT(30) DEF QueryEntry
<1> HIDE DEF aged
<1>4. Older(queries[k].put) < TTL
    BY <1>2, <1>3
<1>5. /\ Older(queries[k].at) \in Nat /\ Older(queries[k].put) \in Nat
      /\ Older(queries[k].at) <= Older(queries[k].put) + Latency
    BY <1>2, <1>3, <1>4, Ageing, Zenon
<1> QED BY <1>2, <1>3, <1>5 DEF QueryEntry

LEMMA AgedCounts ==
    ASSUME \A k \in DOMAIN counts :
               counts[k] \in CountEntry /\ counts[k].at <= counts[k].put + Latency
    PROVE  \A k \in DOMAIN Aged(counts) :
               Aged(counts)[k] \in CountEntry /\ Aged(counts)[k].at <= Aged(counts)[k].put + Latency
<1> DEFINE aged == [k \in DOMAIN counts |->
                        [counts[k] EXCEPT !.at = Older(counts[k].at), !.put = Older(counts[k].put)]]
<1>1. Aged(counts) = [k \in {k \in DOMAIN aged : Hit(aged, k)} |-> aged[k]]
    BY Zenon DEF Aged
<1> SUFFICES ASSUME NEW k \in DOMAIN Aged(counts)
             PROVE  Aged(counts)[k] \in CountEntry /\ Aged(counts)[k].at <= Aged(counts)[k].put + Latency
    BY Zenon
<1>2. k \in DOMAIN counts /\ Aged(counts)[k] = aged[k] /\ aged[k].put < TTL
    BY <1>1, ZenonT(30) DEF Hit
<1>3. /\ counts[k].at \in Nat /\ counts[k].put \in Nat /\ counts[k].n \in Int
      /\ aged[k] = [n |-> counts[k].n, at |-> Older(counts[k].at), put |-> Older(counts[k].put)]
    BY <1>2, ZenonT(30) DEF CountEntry
<1> HIDE DEF aged
<1>4. Older(counts[k].put) < TTL
    BY <1>2, <1>3
<1>5. /\ Older(counts[k].at) \in Nat /\ Older(counts[k].put) \in Nat
      /\ Older(counts[k].at) <= Older(counts[k].put) + Latency
    BY <1>2, <1>3, <1>4, Ageing, Zenon
<1> QED BY <1>2, <1>3, <1>5 DEF CountEntry

LEMMA TickKeeps ==
    ASSUME IInv, Tick
    PROVE  IInv'
<1>0. /\ Rows \subseteq Universe /\ scan \in [Clients -> ScanType]
      /\ Recent /\ CacheGood /\ ScansGood
      /\ (\A k \in DOMAIN queries : queries[k] \in QueryEntry)
      /\ (\A k \in DOMAIN counts : counts[k] \in CountEntry)
    BY Zenon DEF IInv, Typed
<1>1. Rows' = Rows
    BY Zenon DEF Tick, Rows
<1>2. /\ \A k \in DOMAIN queries' :
            /\ k \in DOMAIN queries /\ queries'[k].page = queries[k].page
            /\ queries'[k] \in QueryEntry /\ queries'[k].at <= queries'[k].put + Latency
      /\ \A k \in DOMAIN counts' :
            counts'[k] \in CountEntry /\ counts'[k].at <= counts'[k].put + Latency
    <2>1. queries' = Aged(queries) /\ counts' = Aged(counts)
        BY Zenon DEF Tick
    <2>2. /\ \A k \in DOMAIN queries : queries[k] \in QueryEntry /\ queries[k].at <= queries[k].put + Latency
          /\ \A k \in DOMAIN counts : counts[k] \in CountEntry /\ counts[k].at <= counts[k].put + Latency
        BY <1>0, Zenon DEF Recent
    <2>3. \A k \in DOMAIN Aged(queries) :
            /\ k \in DOMAIN queries /\ Aged(queries)[k].page = queries[k].page
            /\ Aged(queries)[k] \in QueryEntry
            /\ Aged(queries)[k].at <= Aged(queries)[k].put + Latency
        BY <2>2, AgedQueries, Zenon
    <2>4. \A k \in DOMAIN Aged(counts) :
            Aged(counts)[k] \in CountEntry /\ Aged(counts)[k].at <= Aged(counts)[k].put + Latency
        BY <2>2, AgedCounts, Zenon
    <2> QED BY <2>1, <2>3, <2>4, Zenon
<1>3. \A c \in Clients :
        /\ scan'[c] \in ScanType /\ scan'[c].pc = scan[c].pc
        /\ scan'[c].spec = scan[c].spec /\ scan'[c].got = scan[c].got /\ scan'[c].page = scan[c].page
        /\ scan'[c].pc \in {"page", "counted"} => scan'[c].at <= Latency
    <2> SUFFICES ASSUME NEW c \in Clients
                 PROVE  /\ scan'[c] \in ScanType /\ scan'[c].pc = scan[c].pc
                        /\ scan'[c].spec = scan[c].spec /\ scan'[c].got = scan[c].got
                        /\ scan'[c].page = scan[c].page
                        /\ scan'[c].pc \in {"page", "counted"} => scan'[c].at <= Latency
        BY Zenon
    <2>1. scan[c] \in ScanType /\ scan[c].at \in Nat
        BY <1>0, Zenon DEF ScanType
    <2>2. CASE scan[c].pc \in {"page", "counted"}
        <3>1. scan'[c] = [scan[c] EXCEPT !.at = scan[c].at + 1] /\ scan[c].at < Latency
            BY <2>2, Zenon DEF Tick
        <3>2. scan[c].at + 1 \in Nat /\ scan[c].at + 1 <= Latency
            BY <3>1, <2>1, QueryAssumption
        <3> QED BY <3>1, <3>2, <2>1, Zenon DEF ScanType
    <2>3. CASE scan[c].pc \notin {"page", "counted"}
        <3>1. scan'[c] = scan[c]
            BY <2>3, Zenon DEF Tick
        <3> QED BY <3>1, <2>1, <2>3, Zenon
    <2> QED BY <2>2, <2>3, Zenon
<1>4. scan' \in [Clients -> ScanType]
    BY <1>3, Zenon DEF Tick
<1>5. ScansGood'
    BY <1>0, <1>3, Zenon DEF ScansGood, ScanGood
<1>6. Recent' /\ CacheGood'
    BY <1>0, <1>2, <1>3, Zenon DEF Recent, CacheGood
<1> QED BY <1>0, <1>1, <1>2, <1>4, <1>5, <1>6, Zenon DEF IInv, Typed

-----------------------------------------------------------------------------
LEMMA Inductive == IInv /\ [Next]_vars => IInv'
<1> SUFFICES ASSUME IInv, [Next]_vars PROVE IInv'
    BY Zenon
<1>1. CASE UNCHANGED vars
    <2>1. UNCHANGED <<table, queries, counts, scan>>
        BY <1>1, Zenon DEF vars
    <2> QED BY <2>1, Zenon DEF IInv, Typed, Recent, CacheGood, ScansGood, Rows
<1>2. CASE \E c \in Clients : Read(c)
    BY <1>2, ReadKeeps, Zenon
<1>3. CASE \E c \in Clients : SelectFails(c) \/ \E args \in Args : query_field(c, args)
    BY <1>3, AsksOrFails, Zenon
<1>4. CASE \E chain \in Chains, height \in Heights :
              upsert_batch(chain, height) \/ delete_from(chain, height)
    BY <1>4, WritesKeep, Zenon
<1>5. CASE Evict
    BY <1>5, EvictKeeps, Zenon
<1>6. CASE Tick
    BY <1>6, TickKeeps, Zenon
<1> QED BY <1>1, <1>2, <1>3, <1>4, <1>5, <1>6, Zenon DEF Next

\* cache.rs, "A short TTL bounds staleness", whoever fills the caches and in
\* whatever order the statements come back.
THEOREM StalenessBounded == Spec => []BoundedStale
<1>1. IInv => BoundedStale
    BY QueryAssumption DEF IInv, Typed, Recent, BoundedStale, Hit, QueryEntry, CountEntry
<1> QED BY InitInv, Inductive, <1>1, PTL DEF Spec

\* A client that follows endCursor gets no row twice, and gets them in the order
\* asked for, although each page may be from another snapshot, older or newer.
THEOREM PagesInOrder == Spec => []InOrder
<1>1. IInv => InOrder
    BY Zenon DEF IInv, ScansGood, ScanGood, Sorted, Beyond, InOrder
<1> QED BY InitInv, Inductive, <1>1, PTL DEF Spec

-----------------------------------------------------------------------------
(* What a scan must have seen.                                             *)

\* A statement with these filters and this cursor selects r.
Wants(filters, desc, after, r) ==
    /\ \A f \in Range(filters) : op_sql(f.op, Column(r, f.column), f.value)
    /\ after = NoCursor \/ Beyond(desc, parse_cursor(after), Key(r))

\* If the page should have r, r is on it, or level with its last row or beyond.
Covers(filters, desc, after, page, r) ==
    Wants(filters, desc, after, r) =>
        \/ r \in Range(page.items)
        \/ page.has_next /\ ~Beyond(desc, Key(r), Key(Last(page.items)))

\* A row that is in the table for longer than the snapshot of a page was in it.
PageCovers(tb, at, filters, desc, after, page) ==
    \A r \in DOMAIN tb : tb[r] > at => Covers(filters, desc, after, page, r)

CacheCovers(tb, cache) ==
    \A k \in DOMAIN cache : PageCovers(tb, cache[k].at, k[2], k[4], k[5], cache[k].page)

\* The client has r, or its twin on another chain at the end of a page.
Given(s, r) ==
    \/ r \in Range(s.got)
    \/ Key(r) \in s.ends /\ \E q \in Range(s.got) : Key(q) = Key(r) /\ q.chain # r.chain

Active == {"query", "select", "page"}

\* The steady rows are the oldest ones; each has been given or is still to come.
ScanCovers(tb, s) ==
    /\ \A r \in s.steady : r \in DOMAIN tb /\ tb[r] = Old
    /\ s.pc = "page" =>
          PageCovers(tb, s.at, s.spec.filters, s.spec.descending, s.spec.after, s.page)
    /\ s.pc # "idle" =>
          \A r \in s.steady : Wants(s.spec.filters, s.spec.descending, s.from, r) =>
              \/ Given(s, r)
              \/ s.pc \in Active /\ Wants(s.spec.filters, s.spec.descending, s.spec.after, r)

CoverInv ==
    /\ \A r \in Rows : table[r] \in 0 .. Old
    /\ CacheCovers(table, queries)
    /\ \A c \in Clients : ScanCovers(table, scan[c])

\* The answer to the ORDER BY has every row.
LEMMA AnswersAll ==
    ASSUME NEW spec, NEW rows \in SUBSET Universe, NEW s \in Ordered(spec, rows), NEW r \in rows
    PROVE  \E i \in 1 .. Len(s) : s[i] = r
<1> DEFINE n == Cardinality(rows)
<1>1. IsFiniteSet(rows) /\ n \in Nat
    BY QueryAssumption, FS_Subset, FS_CardinalityType, Zenon
<1>2. s \in [1 .. n -> rows] /\ \A i, j \in 1 .. n : i # j => s[i] # s[j]
    BY Zenon DEF Ordered, Injection, IsInjective
<1> HIDE DEF n
<1>3. s \in Injection(1 .. n, rows)
    BY <1>2, Zenon DEF Injection, IsInjective
<1>4. Cardinality(1 .. n) = n
    BY <1>1, FS_Interval, 1 \in Int, n \in Int
<1>5. s \in Surjection(1 .. n, rows)
    BY <1>1, <1>3, <1>4, FS_Injection, Zenon DEF n
<1>6. Len(s) = n
    BY <1>1, <1>2
<1> QED BY <1>5, <1>6, Zenon DEF Surjection

\* A page that a statement returns covers every row of its snapshot.
LEMMA StatementCovers ==
    ASSUME NEW spec \in SpecType, NEW rows \in SUBSET Universe,
           NEW page \in query(spec, rows), NEW r \in rows
    PROVE  Covers(spec.filters, spec.descending, spec.after, page, r)
<1> DEFINE R == {q \in Filtered(spec, rows) : Past(spec, Key(q))}
           desc == spec.descending
<1> SUFFICES ASSUME Wants(spec.filters, desc, spec.after, r)
             PROVE  \/ r \in Range(page.items)
                    \/ page.has_next /\ ~Beyond(desc, Key(r), Key(Last(page.items)))
    BY Zenon DEF Covers
<1>1. PICK s \in Ordered(spec, R) : page = PageOf(spec, s)
    BY Zenon DEF query
<1>2. R \in SUBSET Universe /\ r \in R
    BY Zenon DEF Filtered, Wants, Past, Beyond
<1> HIDE DEF R
<1>3. s \in Seq(Universe) /\ Sorted(desc, s)
    BY <1>1, <1>2, Answers, Zenon
<1>4. PICK i \in 1 .. Len(s) : s[i] = r
    BY <1>1, <1>2, AnswersAll
<1> DEFINE first == Clamp(spec.first, 1, 1000)
           m == Shorter(s, first)
           items == SubSeq(s, 1, m)
<1>5. Len(s) \in Nat /\ first \in Nat \ {0}
    BY <1>3 DEF Clamp, SpecType
<1>6. m \in 0 .. Len(s) /\ (m # Len(s) => Len(s) > first /\ m = first)
    BY <1>5 DEF Shorter
<1> HIDE DEF first
<1>7. items \in Seq(Universe) /\ Len(items) = m /\ \A j \in 1 .. m : items[j] = s[j]
    <2> HIDE DEF m
    <2>1. SubSeq(s, 1, m) \in Seq(Universe) /\ Len(SubSeq(s, 1, m)) = (IF 1 <= m THEN m - 1 + 1 ELSE 0)
          /\ \A j \in 1 .. m - 1 + 1 : SubSeq(s, 1, m)[j] = s[1 + j - 1]
        BY <1>3, <1>6, SubSeqProperties
    <2>2. m \in Nat
        BY <1>5, <1>6, Zenon
    <2> QED BY <2>1, <2>2
<1> HIDE DEF m, items
<1>8. page.items = items /\ (page.has_next <=> Len(s) > first)
    BY <1>1, ZenonT(30) DEF PageOf, items, m, first
<1>9. CASE i <= m
    <2>1. i \in 1 .. m /\ i \in DOMAIN items /\ items[i] = r
        BY <1>4, <1>5, <1>6, <1>7, <1>9
    <2> QED BY <2>1, <1>8, Zenon DEF Range
<1>10. CASE ~(i <= m)
    <2>1. m # Len(s) /\ m < i /\ m \in 1 .. Len(s) /\ m \in 1 .. m
        BY <1>4, <1>5, <1>6, <1>10
    <2>2. page.has_next
        BY <2>1, <1>6, <1>8, Zenon
    <2>3. Last(items) = s[m]
        BY <2>1, <1>7, Zenon DEF Last
    <2>4. ~Beyond(desc, Key(s[i]), Key(s[m]))
        BY <2>1, <1>3, <1>4, Zenon DEF Sorted
    <2> QED BY <2>2, <2>3, <2>4, <1>4, <1>8, Zenon
<1> QED BY <1>9, <1>10, Zenon

\* Two keys are equal or one is before the other.
LEMMA Comparable ==
    ASSUME NEW desc, NEW k \in Keys, NEW l \in Keys, ~Beyond(desc, l, k), k # l
    PROVE  Beyond(desc, k, l)
<1>1. k[1] \in Int /\ k[2] \in Int /\ l[1] \in Int /\ l[2] \in Int
    BY Zenon DEF Keys
<1>2. k[1] # l[1] \/ k[2] # l[2]
    <2>1. k = <<k[1], k[2]>> /\ l = <<l[1], l[2]>>
        BY DEF Keys
    <2> QED BY <2>1, Zenon
<1> QED BY <1>1, <1>2 DEF Beyond, Less

\* What a client was given stays given when its scan goes on.
LEMMA GivenStays ==
    ASSUME NEW s \in ScanType, NEW t \in ScanType, NEW more \in Seq(Universe),
           t.got = s.got \o more, s.ends \subseteq t.ends, NEW r, Given(s, r)
    PROVE  Given(t, r)
<1>1. Range(s.got) \subseteq Range(t.got)
    <2>1. s.got \in Seq(Universe)
        BY Zenon DEF ScanType
    <2>2. \A i \in DOMAIN s.got : i \in DOMAIN t.got /\ t.got[i] = s.got[i]
        BY <2>1
    <2> QED BY <2>2, Zenon DEF Range
<1> QED BY <1>1, Zenon DEF Given

LEMMA MoreGiven ==
    ASSUME NEW s \in ScanType, NEW t \in ScanType, NEW more \in Seq(Universe),
           t.got = s.got \o more
    PROVE  Range(more) \subseteq Range(t.got)
<1>1. s.got \in Seq(Universe)
    BY Zenon DEF ScanType
<1>2. Len(s.got) \in Nat /\ Len(more) \in Nat /\ Len(t.got) = Len(s.got) + Len(more)
    BY <1>1
<1>3. \A i \in DOMAIN more : i + Len(s.got) \in DOMAIN t.got /\ t.got[i + Len(s.got)] = more[i]
    BY <1>1, <1>2, SMTT(30)
<1> QED BY <1>3, Zenon DEF Range

\* A page that covers the steady rows is served: each row the old cursor would
\* still have brought is on it, behind the new cursor, or level with its last
\* row, and then, the primary key says, on another chain.
LEMMA ServedCovers ==
    ASSUME NEW tb, NEW s \in ScanType, NEW t \in ScanType, NEW page \in PageType,
           DOMAIN tb \subseteq Universe, ScanCovers(tb, s), s.pc \in {"query", "page"},
           PageGood(s.spec.descending, s.spec.after, page),
           \A r \in DOMAIN tb : tb[r] = Old =>
               Covers(s.spec.filters, s.spec.descending, s.spec.after, page, r),
           t.pc = (IF page.has_next THEN "query" ELSE "count"),
           t.spec.filters = s.spec.filters, t.spec.descending = s.spec.descending,
           page.has_next => t.spec.after = page.end_cursor,
           t.got = s.got \o page.items, t.steady = s.steady, t.from = s.from,
           t.ends = IF page.has_next THEN s.ends \cup {Key(Last(page.items))} ELSE s.ends
    PROVE  ScanCovers(tb, t)
<1> DEFINE items == page.items
           desc == s.spec.descending
           filters == s.spec.filters
<1>1. items \in Seq(Universe) /\ page.has_next \in BOOLEAN
    BY Zenon DEF PageType
<1>2. s.ends \subseteq t.ends
    BY Zenon
<1>3. \A r \in t.steady : r \in DOMAIN tb /\ tb[r] = Old
    BY Zenon DEF ScanCovers
<1>4. t.pc # "page" /\ s.pc # "idle"
    BY Zenon
<1>5. ASSUME NEW r \in t.steady, Wants(t.spec.filters, t.spec.descending, t.from, r)
      PROVE  Given(t, r) \/ (t.pc \in Active /\ Wants(t.spec.filters, t.spec.descending, t.spec.after, r))
    <2>1. r \in Universe /\ r \in DOMAIN tb /\ tb[r] = Old /\ Key(r) \in Keys
        BY <1>3, KeyType, Zenon
    <2>2. CASE Given(s, r)
        BY <2>2, <1>1, <1>2, GivenStays, ZenonT(30)
    <2>3. CASE Wants(filters, desc, s.spec.after, r)
        <3>1. Covers(filters, desc, s.spec.after, page, r)
            BY <2>1, Zenon
        <3>2. CASE r \in Range(items)
            BY <3>2, <1>1, MoreGiven, ZenonT(30) DEF Given
        <3>3. CASE r \notin Range(items)
            <4>1. page.has_next /\ ~Beyond(desc, Key(r), Key(Last(items)))
                BY <3>1, <3>3, <2>3, Zenon DEF Covers
            <4>2. items # <<>> /\ page.end_cursor = format_cursor(Key(Last(items)))
                BY <4>1, Zenon DEF PageGood
            <4> DEFINE q == Last(items)
            <4>3. q \in Universe /\ q \in Range(items)
                <5>1. Len(items) \in DOMAIN items
                    BY <4>2, <1>1, SMTT(30)
                <5> QED BY <5>1, <1>1 DEF Last, Range
            <4> HIDE DEF q
            <4>4. Key(q) \in Keys /\ q \in Range(t.got) /\ q # r
                BY <4>3, <3>3, <1>1, MoreGiven, KeyType, ZenonT(30)
            <4>5. CASE Key(q) = Key(r)
                <5>1. q.height = r.height /\ q.idx = r.idx
                    BY <4>5, Zenon DEF Key
                <5>2. q.chain # r.chain
                    BY <5>1, <4>3, <4>4, <2>1, QueryAssumption, Zenon
                <5>3. Key(r) \in t.ends
                    BY <4>1, <4>5, Zenon DEF q
                <5> QED BY <5>2, <5>3, <4>4, <4>5, Zenon DEF Given
            <4>6. CASE Key(q) # Key(r)
                <5>1. Beyond(desc, Key(q), Key(r))
                    BY <4>1, <4>4, <4>6, <2>1, Comparable, Zenon DEF q
                <5>2. t.spec.after = format_cursor(Key(q))
                    BY <4>1, <4>2, Zenon DEF q
                <5>3. parse_cursor(t.spec.after) = Key(q)
                    BY <5>2, <4>4, CursorRoundTrip, Zenon
                <5> QED BY <5>1, <5>3, <4>1, <2>3, ZenonT(30) DEF Wants, Active
            <4> QED BY <4>5, <4>6, Zenon
        <3> QED BY <3>2, <3>3, Zenon
    <2>4. Wants(filters, desc, s.from, r) /\ r \in s.steady
        BY <1>5, Zenon
    <2>5. Given(s, r) \/ Wants(filters, desc, s.spec.after, r)
        BY <2>4, <1>4, ZenonT(30) DEF ScanCovers
    <2> QED BY <2>2, <2>3, <2>5, Zenon
<1> QED BY <1>3, <1>4, <1>5, Zenon DEF ScanCovers

\* A step of a scan between two pages.
LEMMA MovedCovers ==
    ASSUME NEW tb, NEW s \in ScanType, NEW t \in ScanType, ScanCovers(tb, s),
           t.spec = s.spec, t.from = s.from, t.got = s.got, t.ends = s.ends,
           t.steady = s.steady, s.pc # "idle", s.pc \in Active => t.pc \in Active,
           t.pc = "page" =>
               PageCovers(tb, t.at, s.spec.filters, s.spec.descending, s.spec.after, t.page)
    PROVE  ScanCovers(tb, t)
<1>1. \A r : Given(s, r) => Given(t, r)
    BY Zenon DEF Given
<1> QED BY <1>1, Zenon DEF ScanCovers

LEMMA ServeCovers ==
    ASSUME IInv, CoverInv, NEW c \in Clients, NEW page \in PageType, Serve(c, page),
           scan[c].pc \in {"query", "page"},
           PageGood(scan[c].spec.descending, scan[c].spec.after, page),
           \A r \in Rows : table[r] = Old =>
               Covers(scan[c].spec.filters, scan[c].spec.descending, scan[c].spec.after, page, r)
    PROVE  \A d \in Clients : ScanCovers(table, scan'[d])
<1> DEFINE old == scan[c]
           t == scan'[c]
<1>1. scan \in [Clients -> ScanType] /\ old \in ScanType /\ old.spec \in SpecType
      /\ DOMAIN table \subseteq Universe /\ ScanCovers(table, old)
    BY Zenon DEF IInv, Typed, ScanType, Rows, CoverInv
<1>2. t \in ScanType
    BY Served, Zenon
<1>3. \A d \in Clients : d # c => scan'[d] = scan[d]
    BY <1>1, Zenon DEF Serve
<1>4. /\ t.pc = (IF page.has_next THEN "query" ELSE "count")
      /\ t.got = old.got \o page.items /\ t.steady = old.steady /\ t.from = old.from
      /\ t.ends = IF page.has_next THEN old.ends \cup {Key(Last(page.items))} ELSE old.ends
    BY <1>1, Zenon DEF Serve, ScanType
<1>5. /\ t.spec.filters = old.spec.filters /\ t.spec.descending = old.spec.descending
      /\ page.has_next => t.spec.after = page.end_cursor
    BY <1>1, Zenon DEF Serve, ScanType, SpecType
<1> HIDE DEF t
<1>6. ScanCovers(table, t)
    BY <1>1, <1>2, <1>4, <1>5, ServedCovers, ZenonT(30) DEF Rows
<1> QED BY <1>3, <1>6, Zenon DEF CoverInv, t

\* A step of one client that leaves the table and the cache of pages alone.
LEMMA OneCovers ==
    ASSUME IInv, CoverInv, NEW c \in Clients, NEW t, ScanCovers(table, t),
           scan' = [scan EXCEPT ![c] = t], UNCHANGED <<table, queries>>
    PROVE  CoverInv'
<1>1. \A d \in Clients : scan'[d] = IF d = c THEN t ELSE scan[d]
    BY Zenon DEF IInv, Typed
<1> QED BY <1>1, Zenon DEF CoverInv, Rows

\* An entry that is served, or a page just read, is younger than a steady row.
LEMMA ReadCovers ==
    ASSUME IInv, CoverInv, NEW c \in Clients, QueryLookup(c) \/ Select(c) \/ QueryInsert(c)
    PROVE  CoverInv'
<1> DEFINE old == scan[c]
           key == query_key(old.spec)
<1>0. /\ scan \in [Clients -> ScanType] /\ old \in ScanType /\ old.spec \in SpecType
      /\ Rows \subseteq Universe /\ ScanGood(old) /\ ScanCovers(table, old)
      /\ (\A k \in DOMAIN queries : queries[k] \in QueryEntry)
      /\ (\A r \in Rows : table[r] \in 0 .. Old) /\ Old \in Nat
    BY QueryAssumption DEF IInv, Typed, ScansGood, ScanType, CoverInv, Old
<1>k. key[2] = old.spec.filters /\ key[4] = old.spec.descending /\ key[5] = old.spec.after
    BY Zenon DEF query_key
<1>1. CASE QueryLookup(c)
    <2>1. UNCHANGED <<table, queries>> /\ old.pc = "query"
        BY <1>1, Zenon DEF QueryLookup, storage
    <2>2. CASE Hit(queries, key)
        <3>1. Serve(c, queries[key].page) /\ key \in DOMAIN queries /\ queries[key].put < TTL
            BY <1>1, <2>2, Zenon DEF QueryLookup, Hit
        <3> DEFINE page == queries[key].page
                   at == queries[key].at
        <3>2. page \in PageType /\ at \in Nat /\ queries[key].put \in Nat
            BY <3>1, <1>0, Zenon DEF QueryEntry
        <3>3. PageGood(old.spec.descending, old.spec.after, page)
            BY <3>1, <1>k, Zenon DEF IInv, CacheGood
        <3>4. at <= queries[key].put + Latency
            BY <3>1, Zenon DEF IInv, Recent
        <3>5. Old > at
            BY <3>1, <3>2, <3>4, QueryAssumption, SMTT(30) DEF Old
        <3>6. PageCovers(table, at, old.spec.filters, old.spec.descending, old.spec.after, page)
            BY <3>1, <1>k, Zenon DEF CoverInv, CacheCovers
        <3> HIDE DEF page, at, key
        <3>7. \A r \in Rows : table[r] = Old =>
                Covers(old.spec.filters, old.spec.descending, old.spec.after, page, r)
            BY <3>5, <3>6, Zenon DEF PageCovers, Rows
        <3>8. Serve(c, page)
            BY <3>1, Zenon DEF page
        <3>9. \A d \in Clients : ScanCovers(table, scan'[d])
            BY <3>2, <3>3, <3>7, <3>8, <2>1, ServeCovers, Zenon
        <3> QED BY <3>9, <2>1, Zenon DEF CoverInv, Rows
    <2>3. CASE ~Hit(queries, key)
        <3> DEFINE t == [old EXCEPT !.pc = "select"]
        <3>1. scan' = [scan EXCEPT ![c] = t]
            BY <1>0, <1>1, <2>3, Zenon DEF QueryLookup
        <3>2. /\ t \in ScanType /\ t.pc = "select" /\ t.spec = old.spec /\ t.got = old.got
              /\ t.from = old.from /\ t.ends = old.ends /\ t.steady = old.steady
            BY <1>0, ZenonT(30) DEF ScanType, Pcs
        <3> HIDE DEF t
        <3>3. ScanCovers(table, t)
            BY <3>2, <2>1, <1>0, MovedCovers, Zenon DEF Active
        <3> QED BY <3>1, <3>3, <2>1, OneCovers, ZenonT(30)
    <2> QED BY <2>2, <2>3, Zenon
<1>2. CASE Select(c)
    <2>1. UNCHANGED <<table, queries>> /\ old.pc = "select"
        BY <1>2, Zenon DEF Select, storage
    <2>2. CASE Refused(old.spec)
        <3>1. scan' = [scan EXCEPT ![c] = NoScan("error")]
            BY <1>2, <2>2, Zenon DEF Select
        <3>2. ScanCovers(table, NoScan("error"))
            BY ZenonT(30) DEF ScanCovers, NoScan
        <3> QED BY <3>1, <3>2, <2>1, OneCovers, ZenonT(30)
    <2>3. CASE ~Refused(old.spec)
        <3>1. PICK page \in query(old.spec, Rows) :
                scan' = [scan EXCEPT ![c].pc = "page", ![c].page = page, ![c].at = 0]
            BY <1>2, <2>3, Zenon DEF Select
        <3>2. page \in PageType
            BY <3>1, <2>3, <1>0, Statement, Zenon
        <3> DEFINE t == [old EXCEPT !.pc = "page", !.page = page, !.at = 0]
        <3>3. scan' = [scan EXCEPT ![c] = t]
            BY <1>0, <3>1, ZenonT(30)
        <3>4. /\ t \in ScanType /\ t.pc = "page" /\ t.spec = old.spec /\ t.got = old.got
              /\ t.from = old.from /\ t.ends = old.ends /\ t.steady = old.steady /\ t.page = page
            BY <3>2, <1>0, ZenonT(30) DEF ScanType, Pcs
        <3> HIDE DEF t
        <3>5. \A r \in Rows : Covers(old.spec.filters, old.spec.descending, old.spec.after, page, r)
            BY <3>1, <1>0, StatementCovers, Zenon
        <3>6. ScanCovers(table, t)
            BY <3>4, <3>5, <2>1, <1>0, MovedCovers, Zenon DEF Active, PageCovers, Rows
        <3> QED BY <3>3, <3>6, <2>1, OneCovers, ZenonT(30)
    <2> QED BY <2>2, <2>3, Zenon
<1>3. CASE QueryInsert(c)
    <2> DEFINE entry == [page |-> old.page, at |-> old.at, put |-> 0]
    <2>1. /\ UNCHANGED table /\ old.pc = "page"
          /\ queries' = Put(queries, key, entry) /\ Serve(c, old.page)
        BY <1>3, ZenonT(30) DEF QueryInsert, storage
    <2>2. /\ old.page \in PageType /\ old.at \in Nat /\ old.at <= Latency
          /\ PageGood(old.spec.descending, old.spec.after, old.page)
        BY <2>1, <1>0, ZenonT(30) DEF ScanType, ScanGood, IInv, Recent
    <2>3. Old > old.at
        BY <2>2, QueryAssumption, SMTT(30) DEF Old
    <2>4. PageCovers(table, old.at, old.spec.filters, old.spec.descending, old.spec.after, old.page)
        BY <2>1, <1>0, ZenonT(30) DEF ScanCovers
    <2>5. \A r \in Rows : table[r] = Old =>
            Covers(old.spec.filters, old.spec.descending, old.spec.after, old.page, r)
        BY <2>3, <2>4, Zenon DEF PageCovers, Rows
    <2>6. \A d \in Clients : ScanCovers(table, scan'[d])
        BY <2>1, <2>2, <2>5, ServeCovers, Zenon
    <2>7. entry.page = old.page /\ entry.at = old.at
        BY Zenon
    <2> HIDE DEF key, entry
    <2>8. \A k \in DOMAIN queries' :
            (k = key /\ queries'[k] = entry) \/ (k \in DOMAIN queries /\ queries'[k] = queries[k])
        <3>1. \A k \in DOMAIN Put(queries, key, entry) :
                \/ k = key /\ Put(queries, key, entry)[k] = entry
                \/ k \in DOMAIN queries /\ Put(queries, key, entry)[k] = queries[k]
            BY PutEntry
        <3> QED BY <2>1, <3>1, Zenon
    <2>9. CacheCovers(table, queries')
        BY <2>4, <2>7, <2>8, <1>k, Zenon DEF CoverInv, CacheCovers
    <2> QED BY <2>1, <2>6, <2>9, ZenonT(30) DEF CoverInv, Rows
<1> QED BY <1>1, <1>2, <1>3, Zenon

LEMMA CountCovers ==
    ASSUME IInv, CoverInv, NEW c \in Clients, CountLookup(c) \/ SelectCount(c) \/ CountInsert(c)
    PROVE  CoverInv'
<1> DEFINE old == scan[c]
           t == scan'[c]
<1>1. /\ scan \in [Clients -> ScanType] /\ old \in ScanType /\ ScanCovers(table, old)
    BY Zenon DEF IInv, Typed, CoverInv
<1>2. UNCHANGED <<table, queries>> /\ old.pc \notin Active /\ old.pc # "idle"
    BY Zenon DEF CountLookup, SelectCount, CountInsert, storage, Active
<1>3. t \in ScanType
    <2>1. Read(c)
        BY Zenon DEF Read
    <2>2. IInv'
        BY <2>1, ReadKeeps, Zenon
    <2> QED BY <2>2, Zenon DEF IInv, Typed
<1>4. \A d \in Clients : d # c => scan'[d] = scan[d]
    BY <1>1, Zenon DEF CountLookup, SelectCount, CountInsert, ServeCount
<1>5. /\ t.pc # "page" /\ t.spec = old.spec /\ t.got = old.got
      /\ t.from = old.from /\ t.ends = old.ends /\ t.steady = old.steady
    BY <1>1 DEF CountLookup, SelectCount, CountInsert, ServeCount, ScanType
<1> HIDE DEF t
<1>6. ScanCovers(table, t)
    BY <1>1, <1>2, <1>3, <1>5, MovedCovers, Zenon
<1>7. \A d \in Clients : ScanCovers(table, scan'[d])
    BY <1>4, <1>6, Zenon DEF CoverInv, t
<1> QED BY <1>2, <1>7, Zenon DEF CoverInv, Rows

\* A scan starts with the steady rows all still to come.
LEMMA AskCovers ==
    ASSUME IInv, CoverInv, NEW c \in Clients,
           SelectFails(c) \/ \E args \in Args : query_field(c, args)
    PROVE  CoverInv'
<1> DEFINE old == scan[c]
<1>1. scan \in [Clients -> ScanType] /\ old \in ScanType
    BY Zenon DEF IInv, Typed
<1>2. UNCHANGED <<table, queries>>
    BY Zenon DEF SelectFails, query_field, storage
<1>3. CASE SelectFails(c)
    <2>1. scan' = [scan EXCEPT ![c] = NoScan("error")]
        BY <1>3, Zenon DEF SelectFails
    <2>2. ScanCovers(table, NoScan("error"))
        BY ZenonT(30) DEF ScanCovers, NoScan
    <2> QED BY <2>1, <2>2, <1>2, OneCovers, ZenonT(30)
<1>4. CASE \E args \in Args : query_field(c, args)
    <2>1. PICK args \in Args : query_field(c, args)
        BY <1>4, Zenon
    <2> DEFINE spec == [table |-> Table, filters |-> args.where, after |-> args.after,
                        first |-> IF args.first < 1 THEN 1 ELSE args.first,
                        descending |-> args.descending]
               steady == {r \in Rows : table[r] = Old}
               still == (quiet = Old)
               t == [old EXCEPT !.pc = "query", !.from = args.after, !.steady = steady,
                       !.still = still, !.spec = spec]
    <2>2. spec.after = args.after
        BY Zenon
    <2>3. scan' = [scan EXCEPT ![c].pc = "query", ![c].from = args.after,
                     ![c].steady = steady, ![c].still = still, ![c].spec = spec]
        BY <2>1, Zenon DEF query_field
    <2>4. \A r \in steady : r \in DOMAIN table /\ table[r] = Old
        BY Zenon DEF Rows
    <2> HIDE DEF spec, steady, still
    <2>5. scan' = [scan EXCEPT ![c] = t]
        BY <1>1, <2>3, ZenonT(30)
    <2>6. t.pc = "query" /\ t.from = args.after /\ t.steady = steady /\ t.spec = spec
        BY <1>1, Zenon DEF ScanType
    <2> HIDE DEF t
    <2>7. ScanCovers(table, t)
        BY <2>2, <2>4, <2>6, Zenon DEF ScanCovers, Active
    <2> QED BY <2>5, <2>7, <1>2, OneCovers, ZenonT(30)
<1> QED BY <1>3, <1>4, Zenon

\* When the table changes between two states, pages and scans that ask of the
\* new table no more than they asked of the old one stay covered.
LEMMA PageStays ==
    ASSUME NEW tb, NEW tb2, NEW at, NEW at2, NEW filters, NEW desc, NEW after, NEW page,
           \A r \in DOMAIN tb2 : tb2[r] > at2 => r \in DOMAIN tb /\ tb[r] > at,
           PageCovers(tb, at, filters, desc, after, page)
    PROVE  PageCovers(tb2, at2, filters, desc, after, page)
BY Zenon DEF PageCovers

LEMMA ScanStays ==
    ASSUME NEW tb, NEW tb2, NEW s, NEW t, ScanCovers(tb, s),
           t.spec = s.spec, t.from = s.from, t.got = s.got, t.ends = s.ends, t.page = s.page,
           t.pc = s.pc, t.steady \subseteq s.steady,
           \A r \in t.steady : r \in DOMAIN tb2 /\ tb2[r] = Old,
           t.pc = "page" =>
               \A r \in DOMAIN tb2 : tb2[r] > t.at => r \in DOMAIN tb /\ tb[r] > s.at
    PROVE  ScanCovers(tb2, t)
<1>1. \A r : Given(s, r) => Given(t, r)
    BY Zenon DEF Given
<1>2. t.pc = "page" =>
        PageCovers(tb2, t.at, t.spec.filters, t.spec.descending, t.spec.after, t.page)
    BY PageStays, Zenon DEF ScanCovers
<1> QED BY <1>1, <1>2, Zenon DEF ScanCovers

\* A new row is younger than every snapshot; a row that is gone is not steady.
LEMMA WriteCovers ==
    ASSUME IInv, CoverInv, NEW chain, NEW height,
           upsert_batch(chain, height) \/ delete_from(chain, height)
    PROVE  CoverInv'
<1>0. /\ scan \in [Clients -> ScanType] /\ \A k \in DOMAIN queries : queries[k] \in QueryEntry
      /\ Old \in Nat /\ \A r \in DOMAIN table : table[r] \in 0 .. Old
      /\ CacheCovers(table, queries) /\ \A c \in Clients : ScanCovers(table, scan[c])
    BY QueryAssumption DEF IInv, Typed, CoverInv, Old, Rows
<1>1. queries' = queries
    BY Zenon DEF upsert_batch, delete_from
<1>2. PICK gone :
        /\ Wrote(gone)
        /\ \A r \in DOMAIN table : r \notin gone => r \in DOMAIN table' /\ table'[r] = table[r]
        /\ \A r \in DOMAIN table' : \/ r \in DOMAIN table /\ table'[r] = table[r]
                                    \/ table'[r] = 0
    <2>1. CASE upsert_batch(chain, height)
        <3>1. Wrote({})
            BY <2>1, Zenon DEF upsert_batch
        <3>2. PICK some : table' = [r \in Rows \cup some |-> IF r \in Rows THEN table[r] ELSE 0]
            BY <2>1, Zenon DEF upsert_batch
        <3> QED BY <3>1, <3>2, Zenon DEF Rows
    <2>2. CASE delete_from(chain, height)
        <3> DEFINE gone == {r \in Rows : r.chain = chain /\ r.height >= height}
        <3>1. Wrote(gone) /\ table' = [r \in Rows \ gone |-> table[r]]
            BY <2>2, Zenon DEF delete_from
        <3> HIDE DEF gone
        <3> QED BY <3>1, Zenon DEF Rows
    <2> QED BY <2>1, <2>2, Zenon
<1>3. \A at \in Nat : \A r \in DOMAIN table' : table'[r] > at => r \in DOMAIN table /\ table[r] > at
    BY <1>2
<1>4. \A r \in DOMAIN table' : table'[r] \in 0 .. Old
    BY <1>0, <1>2, SMTT(30)
<1>5. CacheCovers(table', queries')
    <2> SUFFICES ASSUME NEW k \in DOMAIN queries
                 PROVE  PageCovers(table', queries[k].at, k[2], k[4], k[5], queries[k].page)
        BY <1>1, Zenon DEF CacheCovers
    <2>1. queries[k].at \in Nat
        BY <1>0, Zenon DEF QueryEntry
    <2> QED BY <2>1, <1>0, <1>3, PageStays, Zenon DEF CacheCovers
<1>6. ASSUME NEW c \in Clients PROVE ScanCovers(table', scan'[c])
    <2> DEFINE s == scan[c]
               t == scan'[c]
    <2>1. s \in ScanType /\ s.at \in Nat /\ ScanCovers(table, s)
        BY <1>0, Zenon DEF ScanType
    <2>2. t = [s EXCEPT !.steady = s.steady \ gone, !.still = FALSE]
        BY <1>2, ZenonT(30) DEF Wrote
    <2>3. /\ t.spec = s.spec /\ t.from = s.from /\ t.got = s.got /\ t.ends = s.ends
          /\ t.page = s.page /\ t.pc = s.pc /\ t.at = s.at /\ t.steady = s.steady \ gone
        BY <2>1, <2>2, SMTT(30) DEF ScanType
    <2> HIDE DEF s, t
    <2>4. \A r \in t.steady : r \in DOMAIN table' /\ table'[r] = Old
        BY <2>1, <2>3, <1>2, Zenon DEF ScanCovers
    <2>5. ScanCovers(table', t)
        BY <2>1, <2>3, <2>4, <1>3, ScanStays, Zenon
    <2> QED BY <2>5, Zenon DEF t
<1> QED BY <1>4, <1>5, <1>6, Zenon DEF CoverInv, Rows

LEMMA EvictCovers ==
    ASSUME IInv, CoverInv, Evict
    PROVE  CoverInv'
<1>1. UNCHANGED <<table, scan>>
    BY Zenon DEF Evict, storage
<1>2. \A k \in DOMAIN queries' : k \in DOMAIN queries /\ queries'[k] = queries[k]
    BY ZenonT(30) DEF Evict
<1> QED BY <1>1, <1>2, Zenon DEF CoverInv, CacheCovers, Rows

\* Rows, entries and snapshots grow old together.
LEMMA TickCovers ==
    ASSUME IInv, CoverInv, Tick
    PROVE  CoverInv'
<1>0. /\ scan \in [Clients -> ScanType] /\ Recent
      /\ \A k \in DOMAIN queries : queries[k] \in QueryEntry
      /\ Old \in Nat \ {0} /\ \A r \in DOMAIN table : table[r] \in 0 .. Old
      /\ CacheCovers(table, queries) /\ \A c \in Clients : ScanCovers(table, scan[c])
    BY QueryAssumption DEF IInv, Typed, CoverInv, Old, Rows
<1>1. table' = [r \in Rows |-> Older(table[r])] /\ queries' = Aged(queries)
    BY Zenon DEF Tick
<1>2. DOMAIN table' = DOMAIN table /\ \A r \in DOMAIN table : table'[r] = Older(table[r])
    BY <1>1, Zenon DEF Rows
<1>3. \A r \in DOMAIN table' : table'[r] \in 0 .. Old /\ (table[r] = Old => table'[r] = Old)
    BY <1>0, <1>2 DEF Older
<1>4. CacheCovers(table', queries')
    <2> SUFFICES ASSUME NEW k \in DOMAIN Aged(queries)
                 PROVE  PageCovers(table', Aged(queries)[k].at, k[2], k[4], k[5], Aged(queries)[k].page)
        BY <1>1, Zenon DEF CacheCovers
    <2> DEFINE at == queries[k].at
    <2>1. /\ k \in DOMAIN queries /\ Aged(queries)[k].page = queries[k].page
          /\ Aged(queries)[k].at = Older(at)
        <3>1. k \in DOMAIN queries /\ queries[k] \in QueryEntry
            BY <1>0, ZenonT(30) DEF Aged
        <3>2. Aged(queries)[k] = [queries[k] EXCEPT !.at = Older(queries[k].at),
                                                    !.put = Older(queries[k].put)]
            BY <3>1, ZenonT(30) DEF Aged
        <3> QED BY <3>1, <3>2, Zenon DEF QueryEntry
    <2>2. at \in Nat
        BY <2>1, <1>0, Zenon DEF QueryEntry
    <2> HIDE DEF at
    <2>3. \A r \in DOMAIN table' : table'[r] > Older(at) => r \in DOMAIN table /\ table[r] > at
        BY <2>2, <1>0, <1>2 DEF Older
    <2>4. PageCovers(table, at, k[2], k[4], k[5], queries[k].page)
        BY <2>1, <1>0, Zenon DEF CacheCovers, at
    <2>5. PageCovers(table', Older(at), k[2], k[4], k[5], queries[k].page)
        BY <2>3, <2>4, PageStays, Zenon
    <2> QED BY <2>1, <2>5, Zenon
<1>5. ASSUME NEW c \in Clients PROVE ScanCovers(table', scan'[c])
    <2> DEFINE s == scan[c]
               t == scan'[c]
    <2>1. s \in ScanType /\ s.at \in Nat /\ ScanCovers(table, s)
        BY <1>0, Zenon DEF ScanType
    <2>2. t = IF s.pc \in {"page", "counted"} THEN [s EXCEPT !.at = s.at + 1] ELSE s
        BY Zenon DEF Tick
    <2>3. /\ t.spec = s.spec /\ t.from = s.from /\ t.got = s.got /\ t.ends = s.ends
          /\ t.page = s.page /\ t.pc = s.pc /\ t.steady = s.steady
          /\ t.pc = "page" => t.at = s.at + 1
        BY <2>1, <2>2, Zenon DEF ScanType
    <2> HIDE DEF s, t
    <2>4. \A r \in t.steady : r \in DOMAIN table' /\ table'[r] = Old
        BY <2>1, <2>3, <1>2, <1>3, Zenon DEF ScanCovers
    <2>5. \A r \in DOMAIN table' : table'[r] > s.at + 1 => r \in DOMAIN table /\ table[r] > s.at
        BY <2>1, <1>0, <1>2 DEF Older
    <2>6. ScanCovers(table', t)
        BY <2>1, <2>3, <2>4, <2>5, ScanStays, Zenon
    <2> QED BY <2>6, Zenon DEF t
<1> QED BY <1>3, <1>4, <1>5, Zenon DEF CoverInv, Rows

LEMMA InitCovers == Init => CoverInv
<1> SUFFICES ASSUME Init PROVE CoverInv
    BY Zenon
<1>1. Old \in Nat
    BY QueryAssumption DEF Old
<1>2. \A r \in Rows : table[r] \in 0 .. Old
    BY <1>1 DEF Init, Rows
<1>3. CacheCovers(table, queries)
    BY SMTT(30) DEF Init, CacheCovers
<1>4. ScanCovers(table, NoScan("idle"))
    BY ZenonT(30) DEF ScanCovers, NoScan
<1>5. \A c \in Clients : scan[c] = NoScan("idle")
    BY Zenon DEF Init
<1> QED BY <1>2, <1>3, <1>4, <1>5, Zenon DEF CoverInv

LEMMA CoverInductive == IInv /\ CoverInv /\ [Next]_vars => CoverInv'
<1> SUFFICES ASSUME IInv, CoverInv, [Next]_vars PROVE CoverInv'
    BY Zenon
<1>1. CASE UNCHANGED vars
    <2>1. UNCHANGED <<table, queries, scan>>
        BY <1>1, Zenon DEF vars
    <2> QED BY <2>1, Zenon DEF CoverInv, Rows
<1>2. CASE \E c \in Clients : Read(c)
    BY <1>2, ReadCovers, CountCovers, Zenon DEF Read
<1>3. CASE \E c \in Clients : SelectFails(c) \/ \E args \in Args : query_field(c, args)
    BY <1>3, AskCovers, Zenon
<1>4. CASE \E chain \in Chains, height \in Heights :
              upsert_batch(chain, height) \/ delete_from(chain, height)
    BY <1>4, WriteCovers, Zenon
<1>5. CASE Evict
    BY <1>5, EvictCovers, Zenon
<1>6. CASE Tick
    BY <1>6, TickCovers, Zenon
<1> QED BY <1>1, <1>2, <1>3, <1>4, <1>5, <1>6, Zenon DEF Next

\* A client that follows endCursor to the end has been given every row that was
\* in the table all the time and that its filters select, except a row level
\* with the end of a page on another chain: whatever the reader's cache served,
\* the decoder inserted and a reorg rolled back in between.
THEOREM NothingSkipped == Spec => []ScanComplete
<1>1. IInv /\ CoverInv => ScanComplete
    <2> SUFFICES ASSUME IInv, CoverInv, NEW c \in Clients, Finished(c), NEW r \in Missed(c)
                 PROVE  /\ Key(r) \in scan[c].ends
                        /\ \E q \in Range(scan[c].got) : Key(q) = Key(r) /\ q.chain # r.chain
        BY Zenon DEF ScanComplete
    <2> DEFINE s == scan[c]
               spec == [s.spec EXCEPT !.after = s.from]
    <2>1. ScanCovers(table, s) /\ s.pc # "idle" /\ s.pc \notin Active
        BY Zenon DEF CoverInv, Finished, Active
    <2>2. r \in s.steady /\ r \notin Range(s.got) /\ r \in Filtered(s.spec, s.steady)
          /\ Past(spec, Key(r))
        BY ZenonT(30) DEF Missed, Filtered
    <2>3. Wants(s.spec.filters, s.spec.descending, s.from, r)
        <3>1. s.spec \in SpecType
            BY Zenon DEF IInv, Typed, ScanType
        <3>2. spec.after = s.from /\ spec.descending = s.spec.descending
            BY <3>1, Zenon DEF SpecType
        <3> HIDE DEF spec
        <3> QED BY <2>2, <3>2, Zenon DEF Wants, Filtered, Past, Beyond
    <2>4. Given(s, r)
        BY <2>1, <2>2, <2>3, Zenon DEF ScanCovers
    <2> QED BY <2>2, <2>4, Zenon DEF Given
<1> QED BY InitInv, Inductive, InitCovers, CoverInductive, <1>1, PTL DEF Spec

-----------------------------------------------------------------------------
(* What a scan and its totalCount have in common.                          *)

Matching(filters, rows) ==
    {r \in rows : \A f \in Range(filters) : op_sql(f.op, Column(r, f.column), f.value)}

\* A page or a count whose snapshot is younger than the last write was taken
\* from the rows that are there now.
SameCaches(q, rows, pages, ns) ==
    /\ \A k \in DOMAIN pages : q > pages[k].at =>
          Range(pages[k].page.items) \subseteq Matching(k[2], rows)
    /\ \A k \in DOMAIN ns : q > ns[k].at => ns[k].n = Cardinality(Matching(k[2], rows))

SameScan(q, rows, s) ==
    /\ s.pc = "page" /\ q > s.at =>
          Range(s.page.items) \subseteq Matching(s.spec.filters, rows)
    /\ s.pc = "counted" /\ q > s.at => s.total = Cardinality(Matching(s.spec.filters, rows))
    /\ s.still => /\ q = Old /\ s.steady = rows
                  /\ Range(s.got) \subseteq Matching(s.spec.filters, rows)
                  /\ s.pc = "done" => s.total = Cardinality(Matching(s.spec.filters, rows))

SameInv ==
    /\ quiet \in 0 .. Old /\ \A r \in Rows : table[r] \in 0 .. Old /\ table[r] >= quiet
    /\ SameCaches(quiet, Rows, queries, counts)
    /\ \A c \in Clients : SameScan(quiet, Rows, scan[c])

\* A page has only rows of the table that the filters select.
LEMMA StatementSelects ==
    ASSUME NEW spec \in SpecType, NEW rows \in SUBSET Universe, NEW page \in query(spec, rows)
    PROVE  Range(page.items) \subseteq Matching(spec.filters, rows)
<1> DEFINE R == {q \in Filtered(spec, rows) : Past(spec, Key(q))}
           first == Clamp(spec.first, 1, 1000)
<1>1. PICK s \in Ordered(spec, R) : page = PageOf(spec, s)
    BY Zenon DEF query
<1>2. R \in SUBSET Universe /\ R \subseteq Matching(spec.filters, rows)
    BY Zenon DEF Filtered, Matching
<1> HIDE DEF R
<1>3. s \in Seq(R)
    BY <1>1, <1>2, Answers, Zenon
<1>4. Len(s) \in Nat /\ first \in Nat \ {0}
    BY <1>3 DEF Clamp, SpecType
<1> HIDE DEF first
<1>5. Shorter(s, first) \in 0 .. Len(s)
    BY <1>4 DEF Shorter
<1>6. SubSeq(s, 1, Shorter(s, first)) \in Seq(R)
    BY <1>3, <1>4, <1>5, SubSeqProperties
<1>7. page.items = SubSeq(s, 1, Shorter(s, first))
    BY <1>1, ZenonT(30) DEF PageOf, first
<1>8. Range(page.items) \subseteq R
    BY <1>6, <1>7 DEF Range
<1> QED BY <1>2, <1>8, Zenon

\* A sequence of different rows is as long as the set of its rows is large.
LEMMA RowsCounted ==
    ASSUME NEW s \in Seq(Universe), NEW desc, Sorted(desc, s)
    PROVE  Range(s) \subseteq Universe /\ Cardinality(Range(s)) = Len(s)
<1> DEFINE n == Len(s)
<1>1. n \in Nat /\ DOMAIN s = 1 .. n /\ s \in [1 .. n -> Universe]
    OBVIOUS
<1> HIDE DEF n
<1>2. s \in [1 .. n -> Range(s)] /\ Range(s) \subseteq Universe
    BY <1>1, Zenon DEF Range
<1>3. s \in Surjection(1 .. n, Range(s))
    BY <1>1, <1>2, Zenon DEF Surjection, Range
<1>4. \A i, j \in 1 .. n : i # j => s[i] # s[j]
    <2>1. \A i, j \in 1 .. n : i < j => s[i] # s[j]
        BY Zenon DEF Sorted, n
    <2>2. \A i, j \in 1 .. n : i # j => i < j \/ j < i
        BY <1>1
    <2> QED BY <2>1, <2>2, Zenon
<1>5. s \in Injection(1 .. n, Range(s))
    BY <1>2, <1>4, Zenon DEF Injection, IsInjective
<1>6. IsFiniteSet(1 .. n) /\ Cardinality(1 .. n) = n
    BY <1>1, FS_Interval, 1 \in Int, n \in Int
<1>7. Cardinality(Range(s)) = Cardinality(1 .. n)
    BY <1>3, <1>5, <1>6, FS_Surjection, Zenon
<1> QED BY <1>2, <1>6, <1>7, Zenon DEF n

LEMMA RangeConcat ==
    ASSUME NEW a \in Seq(Universe), NEW b \in Seq(Universe)
    PROVE  Range(a \o b) \subseteq Range(a) \cup Range(b)
<1> DEFINE n == Len(a)
           m == Len(b)
<1>1. n \in Nat /\ m \in Nat /\ Len(a \o b) = n + m /\ a \o b \in Seq(Universe)
    OBVIOUS
<1>2. DOMAIN a = 1 .. n /\ DOMAIN b = 1 .. m /\ DOMAIN (a \o b) = 1 .. n + m
    BY <1>1
<1>3. \A i \in 1 .. n + m : (a \o b)[i] = IF i <= n THEN a[i] ELSE b[i - n]
    OBVIOUS
<1> HIDE DEF n, m
<1>4. \A i \in 1 .. n + m : i \in 1 .. n \/ (~(i <= n) /\ i - n \in 1 .. m)
    BY <1>1
<1>5. \A i \in 1 .. n : i <= n
    BY <1>1
<1> QED BY <1>2, <1>3, <1>4, <1>5, ZenonT(30) DEF Range

\* A step that changes neither the table nor the caches.
LEMMA ScansSame ==
    ASSUME SameInv, UNCHANGED <<table, quiet, queries, counts>>,
           \A d \in Clients : SameScan(quiet, Rows, scan'[d])
    PROVE  SameInv'
<1>1. table' = table /\ quiet' = quiet /\ queries' = queries /\ counts' = counts
    BY ZenonT(30)
<1>2. Rows' = Rows
    BY <1>1, ZenonT(30) DEF Rows
<1> QED BY <1>1, <1>2, ZenonT(30) DEF SameInv

\* A step of one client that leaves the table alone.
LEMMA OneSame ==
    ASSUME IInv, SameInv, NEW c \in Clients, NEW t, SameScan(quiet, Rows, t),
           scan' = [scan EXCEPT ![c] = t], UNCHANGED <<table, quiet>>,
           SameCaches(quiet, Rows, queries', counts')
    PROVE  SameInv'
<1>1. \A d \in Clients : scan'[d] = IF d = c THEN t ELSE scan[d]
    BY Zenon DEF IInv, Typed
<1>2. \A d \in Clients : SameScan(quiet, Rows, scan'[d])
    BY <1>1, ZenonT(30) DEF SameInv
<1>3. table' = table /\ quiet' = quiet
    BY ZenonT(30)
<1>4. Rows' = Rows
    BY <1>3, ZenonT(30) DEF Rows
<1> QED BY <1>2, <1>3, <1>4, ZenonT(30) DEF SameInv

\* A page of the rows that are there now is served.
LEMMA ServeSame ==
    ASSUME IInv, SameInv, NEW c \in Clients, NEW page \in PageType, Serve(c, page),
           scan[c].pc \in {"query", "page"},
           PageGood(scan[c].spec.descending, scan[c].spec.after, page),
           quiet = Old => Range(page.items) \subseteq Matching(scan[c].spec.filters, Rows)
    PROVE  \A d \in Clients : SameScan(quiet, Rows, scan'[d])
<1> DEFINE s == scan[c]
           t == scan'[c]
<1>1. scan \in [Clients -> ScanType] /\ s \in ScanType /\ s.spec \in SpecType
      /\ SameScan(quiet, Rows, s)
    BY ZenonT(30) DEF IInv, Typed, ScanType, SameInv
<1>2. t \in ScanType
    BY Served, Zenon
<1>3. \A d \in Clients : d # c => scan'[d] = scan[d]
    BY <1>1, Zenon DEF Serve
<1>4. /\ t.pc \in {"query", "count"} /\ t.still = s.still /\ t.steady = s.steady
      /\ t.got = s.got \o page.items
    BY <1>1 DEF Serve, ScanType
<1>5. t.spec.filters = s.spec.filters
    BY <1>1, Zenon DEF Serve, ScanType, SpecType
<1> HIDE DEF s, t
<1>6. Range(t.got) \subseteq Range(s.got) \cup Range(page.items)
    <2>1. s.got \in Seq(Universe) /\ page.items \in Seq(Universe)
        BY <1>1, Zenon DEF ScanType, PageType
    <2> QED BY <2>1, <1>4, RangeConcat, Zenon
<1>7. SameScan(quiet, Rows, t)
    BY <1>1, <1>4, <1>5, <1>6, Zenon DEF SameScan, s
<1> QED BY <1>3, <1>7, ZenonT(30) DEF SameInv, t

LEMMA ReadSame ==
    ASSUME IInv, SameInv, NEW c \in Clients, QueryLookup(c) \/ Select(c) \/ QueryInsert(c)
    PROVE  SameInv'
<1> DEFINE old == scan[c]
           key == query_key(old.spec)
<1>0. /\ scan \in [Clients -> ScanType] /\ old \in ScanType /\ old.spec \in SpecType
      /\ Rows \subseteq Universe /\ ScanGood(old) /\ SameScan(quiet, Rows, old)
      /\ (\A k \in DOMAIN queries : queries[k] \in QueryEntry)
      /\ SameCaches(quiet, Rows, queries, counts)
    BY ZenonT(30) DEF IInv, Typed, ScansGood, ScanType, SameInv
<1>k. key[2] = old.spec.filters /\ key[4] = old.spec.descending /\ key[5] = old.spec.after
    BY Zenon DEF query_key
<1>1. CASE QueryLookup(c)
    <2>1. UNCHANGED <<table, quiet, queries, counts>> /\ old.pc = "query"
        BY <1>1, ZenonT(30) DEF QueryLookup, storage
    <2>2. CASE Hit(queries, key)
        <3>1. Serve(c, queries[key].page) /\ key \in DOMAIN queries /\ queries[key].put < TTL
            BY <1>1, <2>2, Zenon DEF QueryLookup, Hit
        <3> DEFINE page == queries[key].page
                   at == queries[key].at
        <3>2. page \in PageType /\ at \in Nat /\ queries[key].put \in Nat
            BY <3>1, <1>0, Zenon DEF QueryEntry
        <3>3. PageGood(old.spec.descending, old.spec.after, page)
            BY <3>1, <1>k, Zenon DEF IInv, CacheGood
        <3>4. at <= queries[key].put + Latency
            BY <3>1, Zenon DEF IInv, Recent
        <3>5. Old > at
            BY <3>1, <3>2, <3>4, QueryAssumption DEF Old
        <3>6. quiet = Old => Range(page.items) \subseteq Matching(old.spec.filters, Rows)
            BY <3>1, <3>5, <1>0, <1>k, ZenonT(30) DEF SameCaches
        <3> HIDE DEF page, at, key
        <3>7. Serve(c, page)
            BY <3>1, Zenon DEF page
        <3>8. \A d \in Clients : SameScan(quiet, Rows, scan'[d])
            BY <3>2, <3>3, <3>6, <3>7, <2>1, ServeSame, Zenon
        <3> QED BY <3>8, <2>1, ScansSame
    <2>3. CASE ~Hit(queries, key)
        <3> DEFINE t == [old EXCEPT !.pc = "select"]
        <3>1. scan' = [scan EXCEPT ![c] = t]
            BY <1>0, <1>1, <2>3, Zenon DEF QueryLookup
        <3>2. /\ t.pc = "select" /\ t.spec = old.spec /\ t.got = old.got
              /\ t.still = old.still /\ t.steady = old.steady
            BY <1>0, Zenon DEF ScanType
        <3> HIDE DEF t
        <3>3. SameScan(quiet, Rows, t)
            BY <3>2, <1>0, ZenonT(30) DEF SameScan
        <3> QED BY <3>1, <3>3, <2>1, <1>0, OneSame, ZenonT(30)
    <2> QED BY <2>2, <2>3, Zenon
<1>2. CASE Select(c)
    <2>1. UNCHANGED <<table, quiet, queries, counts>> /\ old.pc = "select"
        BY <1>2, Zenon DEF Select, storage
    <2>2. CASE Refused(old.spec)
        <3>1. scan' = [scan EXCEPT ![c] = NoScan("error")]
            BY <1>2, <2>2, Zenon DEF Select
        <3>2. SameScan(quiet, Rows, NoScan("error"))
            BY ZenonT(30) DEF SameScan, NoScan
        <3> QED BY <3>1, <3>2, <2>1, <1>0, OneSame, ZenonT(30)
    <2>3. CASE ~Refused(old.spec)
        <3>1. PICK page \in query(old.spec, Rows) :
                scan' = [scan EXCEPT ![c].pc = "page", ![c].page = page, ![c].at = 0]
            BY <1>2, <2>3, Zenon DEF Select
        <3> DEFINE t == [old EXCEPT !.pc = "page", !.page = page, !.at = 0]
        <3>2. scan' = [scan EXCEPT ![c] = t]
            BY <1>0, <3>1, ZenonT(30)
        <3>3. /\ t.pc = "page" /\ t.spec = old.spec /\ t.got = old.got /\ t.page = page
              /\ t.still = old.still /\ t.steady = old.steady
            BY <1>0, Zenon DEF ScanType
        <3> HIDE DEF t
        <3>4. Range(page.items) \subseteq Matching(old.spec.filters, Rows)
            BY <3>1, <1>0, StatementSelects, Zenon
        <3>5. SameScan(quiet, Rows, t)
            BY <3>3, <3>4, <1>0, ZenonT(30) DEF SameScan
        <3> QED BY <3>2, <3>5, <2>1, <1>0, OneSame, ZenonT(30)
    <2> QED BY <2>2, <2>3, Zenon
<1>3. CASE QueryInsert(c)
    <2> DEFINE entry == [page |-> old.page, at |-> old.at, put |-> 0]
    <2>1. /\ UNCHANGED <<table, quiet, counts>> /\ old.pc = "page"
          /\ queries' = Put(queries, key, entry) /\ Serve(c, old.page)
        BY <1>3, ZenonT(30) DEF QueryInsert, storage
    <2>2. /\ old.page \in PageType /\ old.at \in Nat /\ old.at <= Latency
          /\ PageGood(old.spec.descending, old.spec.after, old.page)
        BY <2>1, <1>0, ZenonT(30) DEF ScanType, ScanGood, IInv, Recent
    <2>3. Old > old.at
        BY <2>2, QueryAssumption DEF Old
    <2>4. quiet > old.at => Range(old.page.items) \subseteq Matching(old.spec.filters, Rows)
        BY <2>1, <1>0, ZenonT(30) DEF SameScan
    <2>5. quiet = Old => Range(old.page.items) \subseteq Matching(old.spec.filters, Rows)
        BY <2>3, <2>4, Zenon
    <2>6. \A d \in Clients : SameScan(quiet, Rows, scan'[d])
        BY <2>1, <2>2, <2>5, ServeSame, ZenonT(30)
    <2>7. entry.page = old.page /\ entry.at = old.at
        BY Zenon
    <2> HIDE DEF key, entry
    <2>8. \A k \in DOMAIN queries' :
            (k = key /\ queries'[k] = entry) \/ (k \in DOMAIN queries /\ queries'[k] = queries[k])
        <3>1. \A k \in DOMAIN Put(queries, key, entry) :
                \/ k = key /\ Put(queries, key, entry)[k] = entry
                \/ k \in DOMAIN queries /\ Put(queries, key, entry)[k] = queries[k]
            BY PutEntry
        <3> QED BY <2>1, <3>1, ZenonT(30)
    <2>9. SameCaches(quiet, Rows, queries', counts')
        BY <2>1, <2>4, <2>7, <2>8, <1>0, <1>k, ZenonT(30) DEF SameCaches
    <2> QED BY <2>1, <2>6, <2>9, ZenonT(30) DEF SameInv, Rows
<1> QED BY <1>1, <1>2, <1>3, Zenon

\* The count is of the rows that are there now, from its statement or its entry.
LEMMA CountSame ==
    ASSUME IInv, SameInv, NEW c \in Clients, CountLookup(c) \/ SelectCount(c) \/ CountInsert(c)
    PROVE  SameInv'
<1> DEFINE old == scan[c]
           key == count_key(old.spec)
           right == Cardinality(Matching(old.spec.filters, Rows))
<1>0. /\ scan \in [Clients -> ScanType] /\ old \in ScanType /\ SameScan(quiet, Rows, old)
      /\ SameCaches(quiet, Rows, queries, counts) /\ key[2] = old.spec.filters
      /\ (\A k \in DOMAIN counts : counts[k] \in CountEntry)
    BY ZenonT(30) DEF IInv, Typed, SameInv, count_key
<1> HIDE DEF right
<1>s. ASSUME NEW t, t.pc \in {"select_count", "counted", "done"}, t.spec = old.spec, t.got = old.got,
             t.still = old.still, t.steady = old.steady,
             t.pc = "counted" => t.total = right,
             t.pc = "done" /\ quiet = Old => t.total = right
      PROVE  SameScan(quiet, Rows, t)
    BY <1>0, <1>s, Zenon DEF SameScan, right
<1>1. CASE CountLookup(c)
    <2>1. UNCHANGED <<table, quiet, queries, counts>>
        BY <1>1, ZenonT(30) DEF CountLookup, storage
    <2>2. CASE Hit(counts, key)
        <3> DEFINE n == counts[key].n
                   t == [old EXCEPT !.pc = "done", !.total = n, !.at = 0]
        <3>1. scan' = [scan EXCEPT ![c] = t] /\ key \in DOMAIN counts /\ counts[key].put < TTL
            BY <1>0, <1>1, <2>2, ZenonT(30) DEF CountLookup, ServeCount, Hit
        <3>2. counts[key].at \in Nat /\ counts[key].put \in Nat
            BY <3>1, <1>0, Zenon DEF CountEntry
        <3>3. counts[key].at <= counts[key].put + Latency
            BY <3>1, Zenon DEF IInv, Recent
        <3>4. Old > counts[key].at
            BY <3>1, <3>2, <3>3, QueryAssumption DEF Old
        <3>5. quiet = Old => n = right
            BY <3>1, <3>4, <1>0, Zenon DEF SameCaches, right
        <3> HIDE DEF n
        <3>6. /\ t.pc = "done" /\ t.spec = old.spec /\ t.got = old.got /\ t.total = n
              /\ t.still = old.still /\ t.steady = old.steady
            BY <1>0, Zenon DEF ScanType
        <3> HIDE DEF t
        <3>7. SameScan(quiet, Rows, t)
            BY <3>5, <3>6, <1>s, SMTT(30)
        <3> QED BY <3>1, <3>7, <2>1, <1>0, OneSame, ZenonT(30)
    <2>3. CASE ~Hit(counts, key)
        <3> DEFINE t == [old EXCEPT !.pc = "select_count"]
        <3>1. scan' = [scan EXCEPT ![c] = t]
            BY <1>0, <1>1, <2>3, Zenon DEF CountLookup
        <3>2. /\ t.pc = "select_count" /\ t.spec = old.spec /\ t.got = old.got
              /\ t.still = old.still /\ t.steady = old.steady
            BY <1>0, Zenon DEF ScanType
        <3> HIDE DEF t
        <3>3. SameScan(quiet, Rows, t)
            BY <3>2, <1>s
        <3> QED BY <3>1, <3>3, <2>1, <1>0, OneSame, ZenonT(30)
    <2> QED BY <2>2, <2>3, Zenon
<1>2. CASE SelectCount(c)
    <2> DEFINE n == count(old.spec, Rows)
               t == [old EXCEPT !.pc = "counted", !.at = 0, !.total = n]
    <2>1. /\ UNCHANGED <<table, quiet, queries, counts>>
          /\ scan' = [scan EXCEPT ![c].pc = "counted", ![c].at = 0, ![c].total = n]
        BY <1>2, Zenon DEF SelectCount, storage
    <2>2. n = right
        BY Zenon DEF count, right, Filtered, Matching
    <2> HIDE DEF n
    <2>3. scan' = [scan EXCEPT ![c] = t]
        BY <1>0, <2>1, ZenonT(30)
    <2>4. /\ t.pc = "counted" /\ t.spec = old.spec /\ t.got = old.got /\ t.total = n
          /\ t.still = old.still /\ t.steady = old.steady
        BY <1>0, Zenon DEF ScanType
    <2> HIDE DEF t
    <2>5. SameScan(quiet, Rows, t)
        BY <2>2, <2>4, <1>s
    <2> QED BY <2>1, <2>3, <2>5, <1>0, OneSame, ZenonT(30)
<1>3. CASE CountInsert(c)
    <2> DEFINE entry == [n |-> old.total, at |-> old.at, put |-> 0]
               t == [old EXCEPT !.pc = "done", !.total = old.total, !.at = 0]
    <2>1. /\ UNCHANGED <<table, quiet, queries>> /\ old.pc = "counted"
          /\ counts' = Put(counts, key, entry)
          /\ scan' = [scan EXCEPT ![c].pc = "done", ![c].total = old.total, ![c].at = 0]
        BY <1>3, Zenon DEF CountInsert, ServeCount, storage
    <2>2. old.at \in Nat /\ old.at <= Latency
        BY <2>1, <1>0, Zenon DEF ScanType, IInv, Recent
    <2>3. Old > old.at
        BY <2>2, QueryAssumption DEF Old
    <2>4. quiet > old.at => old.total = right
        BY <2>1, <1>0, Zenon DEF SameScan, right
    <2>5. scan' = [scan EXCEPT ![c] = t]
        BY <1>0, <2>1, ZenonT(30)
    <2>6. /\ t.pc = "done" /\ t.spec = old.spec /\ t.got = old.got /\ t.total = old.total
          /\ t.still = old.still /\ t.steady = old.steady
        BY <1>0, Zenon DEF ScanType
    <2>7. entry.n = old.total /\ entry.at = old.at
        BY Zenon
    <2> HIDE DEF key, entry, t
    <2>8. \A k \in DOMAIN counts' :
            (k = key /\ counts'[k] = entry) \/ (k \in DOMAIN counts /\ counts'[k] = counts[k])
        <3>1. \A k \in DOMAIN Put(counts, key, entry) :
                \/ k = key /\ Put(counts, key, entry)[k] = entry
                \/ k \in DOMAIN counts /\ Put(counts, key, entry)[k] = counts[k]
            BY PutEntry
        <3> QED BY <2>1, <3>1, Zenon
    <2>9. SameCaches(quiet, Rows, queries', counts')
        BY <2>1, <2>4, <2>7, <2>8, <1>0, ZenonT(30) DEF SameCaches, right
    <2>10. SameScan(quiet, Rows, t)
        BY <2>3, <2>4, <2>6, <1>s
    <2> QED BY <2>1, <2>5, <2>9, <2>10, OneSame, ZenonT(30)
<1> QED BY <1>1, <1>2, <1>3, Zenon

\* A scan that starts on a table quiet for long has every row steady.
LEMMA AskSame ==
    ASSUME IInv, SameInv, NEW c \in Clients,
           SelectFails(c) \/ \E args \in Args : query_field(c, args)
    PROVE  SameInv'
<1> DEFINE old == scan[c]
<1>0. scan \in [Clients -> ScanType] /\ old \in ScanType /\ ScanGood(old)
      /\ SameCaches(quiet, Rows, queries, counts) /\ Old \in Nat
      /\ \A r \in Rows : table[r] \in 0 .. Old /\ table[r] >= quiet
    <2>1. Old \in Nat
        BY QueryAssumption DEF Old
    <2> QED BY <2>1, ZenonT(30) DEF IInv, Typed, ScansGood, SameInv
<1>1. UNCHANGED <<table, quiet, queries, counts>>
    BY Zenon DEF SelectFails, query_field, storage
<1>2. CASE SelectFails(c)
    <2>1. scan' = [scan EXCEPT ![c] = NoScan("error")]
        BY <1>2, Zenon DEF SelectFails
    <2>2. SameScan(quiet, Rows, NoScan("error"))
        BY ZenonT(30) DEF SameScan, NoScan
    <2> QED BY <2>1, <2>2, <1>0, <1>1, OneSame, ZenonT(30)
<1>3. CASE \E args \in Args : query_field(c, args)
    <2>1. PICK args \in Args : query_field(c, args)
        BY <1>3, Zenon
    <2> DEFINE spec == [table |-> Table, filters |-> args.where, after |-> args.after,
                        first |-> IF args.first < 1 THEN 1 ELSE args.first,
                        descending |-> args.descending]
               steady == {r \in Rows : table[r] = Old}
               still == (quiet = Old)
               t == [old EXCEPT !.pc = "query", !.from = args.after, !.steady = steady,
                       !.still = still, !.spec = spec]
    <2>2. still => quiet = Old /\ steady = Rows
        BY <1>0
    <2>3. /\ old.pc = "idle"
          /\ scan' = [scan EXCEPT ![c].pc = "query", ![c].from = args.after,
                        ![c].steady = steady, ![c].still = still, ![c].spec = spec]
        BY <2>1, Zenon DEF query_field
    <2> HIDE DEF spec, steady, still
    <2>4. scan' = [scan EXCEPT ![c] = t]
        BY <1>0, <2>3, ZenonT(30)
    <2>5. t.pc = "query" /\ t.steady = steady /\ t.still = still /\ t.got = old.got
        BY <1>0, Zenon DEF ScanType
    <2> HIDE DEF t
    <2>6. t.got = <<>>
        BY <2>3, <2>5, <1>0, Zenon DEF ScanGood
    <2>7. Range(t.got) = {}
        BY <2>6 DEF Range
    <2>8. SameScan(quiet, Rows, t)
        BY <2>2, <2>5, <2>7, Zenon DEF SameScan
    <2> QED BY <2>4, <2>8, <1>0, <1>1, OneSame, ZenonT(30)
<1> QED BY <1>2, <1>3, Zenon

\* After a write no snapshot is young enough and no scan is still.
LEMMA WriteSame ==
    ASSUME IInv, SameInv, NEW chain, NEW height,
           upsert_batch(chain, height) \/ delete_from(chain, height)
    PROVE  SameInv'
<1>0. /\ scan \in [Clients -> ScanType] /\ Old \in Nat
      /\ \A k \in DOMAIN queries : queries[k] \in QueryEntry
      /\ \A k \in DOMAIN counts : counts[k] \in CountEntry
      /\ \A r \in DOMAIN table : table[r] \in 0 .. Old
    BY QueryAssumption DEF IInv, Typed, SameInv, Old, Rows
<1>1. UNCHANGED <<queries, counts>>
    BY Zenon DEF upsert_batch, delete_from
<1>2. PICK gone : Wrote(gone)
    BY Zenon DEF upsert_batch, delete_from
<1>3. \A r \in DOMAIN table' : table'[r] \in 0 .. Old
    <2>1. CASE upsert_batch(chain, height)
        <3>1. PICK some : table' = [r \in Rows \cup some |-> IF r \in Rows THEN table[r] ELSE 0]
            BY <2>1, Zenon DEF upsert_batch
        <3> QED BY <3>1, <1>0 DEF Rows
    <2>2. CASE delete_from(chain, height)
        <3> DEFINE old == {r \in Rows : r.chain = chain /\ r.height >= height}
        <3>1. table' = [r \in Rows \ old |-> table[r]]
            BY <2>2, ZenonT(30) DEF delete_from
        <3> HIDE DEF old
        <3> QED BY <3>1, <1>0, Zenon DEF Rows
    <2> QED BY <2>1, <2>2, Zenon
<1>4. quiet' = 0
    BY <1>2, ZenonT(30) DEF Wrote
<1>5. \A k \in DOMAIN queries' : ~(quiet' > queries'[k].at)
    BY <1>0, <1>1, <1>4 DEF QueryEntry
<1>6. \A k \in DOMAIN counts' : ~(quiet' > counts'[k].at)
    BY <1>0, <1>1, <1>4 DEF CountEntry
<1>7. \A c \in Clients : ~scan'[c].still /\ ~(quiet' > scan'[c].at)
    <2> SUFFICES ASSUME NEW c \in Clients PROVE ~scan'[c].still /\ ~(quiet' > scan'[c].at)
        BY Zenon
    <2>1. scan[c] \in ScanType /\ scan[c].at \in Nat
        BY <1>0, Zenon DEF ScanType
    <2>2. scan'[c] = [scan[c] EXCEPT !.steady = scan[c].steady \ gone, !.still = FALSE]
        BY <1>2, ZenonT(30) DEF Wrote
    <2>3. scan'[c].still = FALSE /\ scan'[c].at = scan[c].at
        BY <2>1, <2>2, Zenon DEF ScanType
    <2> QED BY <2>1, <2>3, <1>4
<1>8. \A r \in Rows' : table'[r] \in 0 .. Old /\ table'[r] >= quiet'
    BY <1>0, <1>3, <1>4 DEF Rows
<1>9. quiet' \in 0 .. Old
    BY <1>0, <1>4
<1>10. SameCaches(quiet', Rows', queries', counts')
    BY <1>5, <1>6, Zenon DEF SameCaches
<1>11. \A c \in Clients : SameScan(quiet', Rows', scan'[c])
    BY <1>7, Zenon DEF SameScan
<1> QED BY <1>8, <1>9, <1>10, <1>11, ZenonT(30) DEF SameInv

LEMMA EvictSame ==
    ASSUME IInv, SameInv, Evict
    PROVE  SameInv'
<1>1. UNCHANGED <<table, quiet, scan>>
    BY Zenon DEF Evict, storage
<1>2. \A k \in DOMAIN queries' : k \in DOMAIN queries /\ queries'[k] = queries[k]
    BY ZenonT(30) DEF Evict
<1>3. \A k \in DOMAIN counts' : k \in DOMAIN counts /\ counts'[k] = counts[k]
    BY ZenonT(30) DEF Evict
<1>4. Rows' = Rows
    BY <1>1, Zenon DEF Rows
<1>5. SameCaches(quiet, Rows, queries', counts')
    BY <1>2, <1>3, ZenonT(30) DEF SameInv, SameCaches
<1> QED BY <1>1, <1>4, <1>5, ZenonT(30) DEF SameInv

\* What is in a cache after a tick is what was there, one tick older.
LEMMA AgedEntries ==
    ASSUME NEW cache, NEW k \in DOMAIN Aged(cache)
    PROVE  /\ k \in DOMAIN cache
           /\ Aged(cache)[k] = [cache[k] EXCEPT !.at = Older(cache[k].at),
                                                !.put = Older(cache[k].put)]
<1>1. k \in DOMAIN cache
    BY ZenonT(30) DEF Aged
<1> QED BY <1>1, ZenonT(30) DEF Aged

LEMMA TickSame ==
    ASSUME IInv, SameInv, Tick
    PROVE  SameInv'
<1>0. /\ scan \in [Clients -> ScanType] /\ Old \in Nat \ {0}
      /\ \A k \in DOMAIN queries : queries[k] \in QueryEntry
      /\ \A k \in DOMAIN counts : counts[k] \in CountEntry
      /\ quiet \in 0 .. Old /\ \A r \in DOMAIN table : table[r] \in 0 .. Old /\ table[r] >= quiet
      /\ SameCaches(quiet, Rows, queries, counts)
      /\ \A c \in Clients : SameScan(quiet, Rows, scan[c])
    BY QueryAssumption DEF IInv, Typed, SameInv, Old, Rows
<1>1. /\ table' = [r \in Rows |-> Older(table[r])] /\ quiet' = Older(quiet)
      /\ queries' = Aged(queries) /\ counts' = Aged(counts)
    BY Zenon DEF Tick
<1>2. Rows' = Rows /\ \A r \in DOMAIN table : table'[r] = Older(table[r])
    BY <1>1, Zenon DEF Rows
<1>3. \A r \in Rows' : table'[r] \in 0 .. Old /\ table'[r] >= quiet'
    BY <1>0, <1>1, <1>2 DEF Older, Rows
<1>4. /\ quiet' \in 0 .. Old /\ (quiet = Old => quiet' = Old)
      /\ \A at \in Nat : (quiet' > Older(at) => quiet > at) /\ (quiet' > at + 1 => quiet > at)
    BY <1>0, <1>1 DEF Older
<1>5. SameCaches(quiet', Rows, queries', counts')
    <2>1. ASSUME NEW k \in DOMAIN Aged(queries), quiet' > Aged(queries)[k].at
          PROVE  Range(Aged(queries)[k].page.items) \subseteq Matching(k[2], Rows)
        <3>1. k \in DOMAIN queries /\ queries[k] \in QueryEntry /\ queries[k].at \in Nat
            BY <1>0, <2>1, AgedEntries, ZenonT(30) DEF QueryEntry
        <3>2. Aged(queries)[k] = [queries[k] EXCEPT !.at = Older(queries[k].at),
                                                    !.put = Older(queries[k].put)]
            BY <2>1, AgedEntries, ZenonT(30)
        <3>3. Aged(queries)[k].at = Older(queries[k].at) /\ Aged(queries)[k].page = queries[k].page
            BY <3>1, <3>2, Zenon DEF QueryEntry
        <3>4. quiet > queries[k].at
            BY <2>1, <3>1, <3>3, <1>4, Zenon
        <3> QED BY <3>1, <3>3, <3>4, <1>0, ZenonT(30) DEF SameCaches
    <2>2. ASSUME NEW k \in DOMAIN Aged(counts), quiet' > Aged(counts)[k].at
          PROVE  Aged(counts)[k].n = Cardinality(Matching(k[2], Rows))
        <3>1. k \in DOMAIN counts /\ counts[k] \in CountEntry /\ counts[k].at \in Nat
            BY <1>0, <2>2, AgedEntries, ZenonT(30) DEF CountEntry
        <3>2. Aged(counts)[k] = [counts[k] EXCEPT !.at = Older(counts[k].at),
                                                  !.put = Older(counts[k].put)]
            BY <2>2, AgedEntries, ZenonT(30)
        <3>3. Aged(counts)[k].at = Older(counts[k].at) /\ Aged(counts)[k].n = counts[k].n
            BY <3>1, <3>2, Zenon DEF CountEntry
        <3>4. quiet > counts[k].at
            BY <2>2, <3>1, <3>3, <1>4, Zenon
        <3> QED BY <3>1, <3>3, <3>4, <1>0, Zenon DEF SameCaches
    <2> QED BY <2>1, <2>2, <1>1, ZenonT(30) DEF SameCaches
<1>6. ASSUME NEW c \in Clients PROVE SameScan(quiet', Rows, scan'[c])
    <2> DEFINE s == scan[c]
               t == scan'[c]
    <2>1. s \in ScanType /\ s.at \in Nat /\ SameScan(quiet, Rows, s)
        BY <1>0, ZenonT(30) DEF ScanType
    <2>2. t = IF s.pc \in {"page", "counted"} THEN [s EXCEPT !.at = s.at + 1] ELSE s
        BY Zenon DEF Tick
    <2>3. /\ t.spec = s.spec /\ t.got = s.got /\ t.page = s.page /\ t.pc = s.pc
          /\ t.steady = s.steady /\ t.still = s.still /\ t.total = s.total
          /\ t.pc \in {"page", "counted"} => t.at = s.at + 1
        BY <2>1, <2>2, Zenon DEF ScanType
    <2> HIDE DEF s, t
    <2>4. t.pc \in {"page", "counted"} /\ quiet' > t.at => quiet > s.at
        BY <2>1, <2>3, <1>4, Zenon
    <2>5. SameScan(quiet', Rows, t)
        BY <2>1, <2>3, <2>4, <1>4, SMTT(30) DEF SameScan
    <2> QED BY <2>5, Zenon DEF t
<1> QED BY <1>2, <1>3, <1>4, <1>5, <1>6, ZenonT(30) DEF SameInv

LEMMA InitSame == Init => SameInv
<1> SUFFICES ASSUME Init PROVE SameInv
    BY Zenon
<1>1. Old \in Nat
    BY QueryAssumption DEF Old
<1>2. quiet \in 0 .. Old /\ \A r \in Rows : table[r] \in 0 .. Old /\ table[r] >= quiet
    BY <1>1, SMTT(30) DEF Init, Rows
<1>3. DOMAIN queries = {} /\ DOMAIN counts = {}
    BY DEF Init
<1>4. SameScan(quiet, Rows, NoScan("idle"))
    BY ZenonT(30) DEF SameScan, NoScan
<1>5. \A c \in Clients : scan[c] = NoScan("idle")
    BY Zenon DEF Init
<1> QED BY <1>2, <1>3, <1>4, <1>5, ZenonT(30) DEF SameInv, SameCaches

LEMMA SameInductive == IInv /\ SameInv /\ [Next]_vars => SameInv'
<1> SUFFICES ASSUME IInv, SameInv, [Next]_vars PROVE SameInv'
    BY Zenon
<1>1. CASE UNCHANGED vars
    <2>1. UNCHANGED <<table, quiet, queries, counts, scan>>
        BY <1>1, ZenonT(30) DEF vars
    <2>2. \A d \in Clients : SameScan(quiet, Rows, scan'[d])
        BY <2>1, ZenonT(30) DEF SameInv
    <2> QED BY <2>1, <2>2, ScansSame, Zenon
<1>2. CASE \E c \in Clients : Read(c)
    BY <1>2, ReadSame, CountSame, Zenon DEF Read
<1>3. CASE \E c \in Clients : SelectFails(c) \/ \E args \in Args : query_field(c, args)
    BY <1>3, AskSame, Zenon
<1>4. CASE \E chain \in Chains, height \in Heights :
              upsert_batch(chain, height) \/ delete_from(chain, height)
    BY <1>4, WriteSame, Zenon
<1>5. CASE Evict
    BY <1>5, EvictSame, Zenon
<1>6. CASE Tick
    BY <1>6, TickSame, Zenon
<1> QED BY <1>1, <1>2, <1>3, <1>4, <1>5, <1>6, Zenon DEF Next

\* While nothing is written, totalCount counts the rows of the whole scan, the
\* ones missed at chain ties included, though each page and the count come
\* through entries of their own.
THEOREM CountMatchesScan == Spec => []QuietCountAgrees
<1>1. IInv /\ SameInv => QuietCountAgrees
    <2> SUFFICES ASSUME IInv, SameInv, NEW c \in Clients, scan[c].pc = "done",
                        scan[c].from = NoCursor, scan[c].still
                 PROVE  scan[c].total = Len(scan[c].got) + Cardinality(Missed(c))
        BY Zenon DEF QuietCountAgrees
    <2> DEFINE s == scan[c]
               M == Matching(s.spec.filters, Rows)
               G == Range(s.got)
    <2>1. /\ s \in ScanType /\ s.spec \in SpecType /\ s.got \in Seq(Universe)
          /\ Sorted(s.spec.descending, s.got) /\ Rows \subseteq Universe
        BY ZenonT(30) DEF IInv, Typed, ScanType, ScansGood, ScanGood
    <2>2. s.steady = Rows /\ G \subseteq M /\ s.total = Cardinality(M)
        <3>1. SameScan(quiet, Rows, s)
            BY Zenon DEF SameInv
        <3> QED BY <3>1, Zenon DEF SameScan
    <2>3. Missed(c) = M \ G
        <3>1. [s.spec EXCEPT !.after = s.from].after = NoCursor
            BY <2>1, Zenon DEF SpecType
        <3>2. \A k : Past([s.spec EXCEPT !.after = s.from], k)
            BY <3>1, Zenon DEF Past
        <3>3. Filtered(s.spec, s.steady) = M
            BY <2>2, Zenon DEF Filtered, Matching
        <3> QED BY <3>2, <3>3, Zenon DEF Missed
    <2> HIDE DEF s
    <2>4. Cardinality(G) = Len(s.got)
        BY <2>1, RowsCounted, Zenon
    <2>5. M \subseteq Universe
        BY <2>1, Zenon DEF Matching
    <2> HIDE DEF M, G
    <2>6. IsFiniteSet(M) /\ IsFiniteSet(G)
        BY <2>2, <2>5, QueryAssumption, FS_Subset, Zenon
    <2>7. M \cap G = G
        BY <2>2, Zenon
    <2>8. Cardinality(M \ G) = Cardinality(M) - Cardinality(G)
        <3>1. Cardinality(M \ G) = Cardinality(M) - Cardinality(M \cap G)
            BY <2>6, FS_Difference, ZenonT(30)
        <3> QED BY <3>1, <2>7, Zenon
    <2>9. Cardinality(M) \in Nat /\ Cardinality(G) \in Nat
        BY <2>6, FS_CardinalityType, Zenon
    <2>10. s.total = Len(s.got) + Cardinality(Missed(c))
        BY <2>2, <2>3, <2>4, <2>8, <2>9
    <2> QED BY <2>10, Zenon DEF s
<1> QED BY InitInv, Inductive, InitSame, SameInductive, <1>1, PTL DEF Spec

=============================================================================
