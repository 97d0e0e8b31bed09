--------------------------- MODULE RpcSourceProofs ---------------------------
(***************************************************************************)
(* For any ranges, logs, page sizes, prices and limits, and any transport  *)
(* errors: fetch_records walks its range upwards without losing a log to a *)
(* truncated page, an overflow or a retry, a fetch_range that returns Ok   *)
(* is complete, the two money figures of the ledger agree, and the spend,  *)
(* subscriptions apart, is never more than the token bucket let through.   *)
(***************************************************************************)
EXTENDS RpcSource, FiniteSetTheorems, WellFoundedInduction, TLAPS

-----------------------------------------------------------------------------
(* Pages.                                                                  *)

At(b) == {<<b, i>> : i \in 1 .. LogCount[b]}

LEMMA AtFinite ==
    ASSUME NEW b \in Blocks
    PROVE  IsFiniteSet(At(b)) /\ Cardinality(At(b)) <= LogCount[b]
<1>1. LogCount[b] \in Nat
    BY PlanAssumption, Zenon
<1>2. IsFiniteSet(1 .. LogCount[b]) /\ Cardinality(1 .. LogCount[b]) = LogCount[b]
    <2>1. PICK n \in Nat : n = LogCount[b]
        BY <1>1, Zenon
    <2>2. IsFiniteSet(1 .. n) /\ Cardinality(1 .. n) = n
        BY FS_Interval
    <2> QED BY <2>1, <2>2, Zenon
<1> DEFINE f == [i \in 1 .. LogCount[b] |-> <<b, i>>]
<1>3. f \in Surjection(1 .. LogCount[b], At(b))
    BY Zenon DEF Surjection, At
<1> HIDE DEF f
<1> QED BY <1>2, <1>3, FS_Surjection

LEMMA LogsFinite ==
    ASSUME NEW lo \in Nat, NEW hi \in Int, lo .. hi \subseteq Blocks
    PROVE  IsFiniteSet(LogsIn(lo, hi))
<1> DEFINE parts == {At(b) : b \in lo .. hi}
           f == [b \in lo .. hi |-> At(b)]
<1>1. f \in Surjection(lo .. hi, parts)
    BY Zenon DEF Surjection
<1>2. IsFiniteSet(lo .. hi)
    BY FS_Interval
<1>3. IsFiniteSet(parts)
    <2> HIDE DEF f, parts
    <2> QED BY <1>1, <1>2, FS_Surjection, Zenon
<1>4. \A T \in parts : IsFiniteSet(T)
    BY AtFinite, Zenon
<1>5. IsFiniteSet(UNION parts)
    <2> HIDE DEF parts
    <2> QED BY <1>3, <1>4, FS_UNION, Zenon
<1> QED BY <1>5, Zenon DEF LogsIn, At

LEMMA LogsMember ==
    ASSUME NEW lo \in Nat, NEW hi \in Int
    PROVE  /\ \A l \in LogsIn(lo, hi) : l[1] \in lo .. hi /\ l[2] \in Nat /\ l \in At(l[1])
           /\ \A h \in lo .. hi : At(h) \subseteq LogsIn(lo, hi)
<1>1. ASSUME NEW l \in LogsIn(lo, hi)
      PROVE  l[1] \in lo .. hi /\ l[2] \in Nat /\ l \in At(l[1])
    <2>1. PICK b \in lo .. hi : l \in {<<b, i>> : i \in 1 .. LogCount[b]}
        BY Zenon DEF LogsIn
    <2>2. PICK i \in 1 .. LogCount[b] : l = <<b, i>>
        BY <2>1, Zenon
    <2>3. l[1] = b /\ l[2] = i
        BY <2>2, Zenon
    <2> QED BY <2>1, <2>2, <2>3 DEF At
<1>2. \A h \in lo .. hi : At(h) \subseteq LogsIn(lo, hi)
    BY Zenon DEF LogsIn, At
<1> QED BY <1>1, <1>2, Zenon

\* A nonempty set of naturals has a least element.
LEMMA Least ==
    ASSUME NEW T, T \subseteq Nat, T # {}
    PROVE  \E x \in T : \A y \in T : ~(y < x)
<1>1. \E x \in T : \A y \in T : ~(<<y, x>> \in OpToRel(<, Nat))
    BY NatLessThanWellFounded, WFMin, Zenon
<1> QED BY <1>1, ZenonT(30) DEF OpToRel

\* A page below the cap, or without one, is not truncated.
LEMMA ShortPage ==
    ASSUME NEW lo \in Nat, NEW hi \in Nat, lo .. hi \subseteq Blocks,
           max_getlogs_results = 0 \/ Cardinality(Page(lo, hi)) < max_getlogs_results
    PROVE  Page(lo, hi) = LogsIn(lo, hi)
<1> SUFFICES ASSUME ProviderCap > 0 PROVE Page(lo, hi) = LogsIn(lo, hi)
    BY Zenon DEF Page
<1> DEFINE all == LogsIn(lo, hi)
           below(l) == {m \in all : Before(m, l)}
           rank(l) == Cardinality(below(l))
           rest == all \ Page(lo, hi)
<1>0. IsFiniteSet(all) /\ ProviderCap \in Nat /\ max_getlogs_results \in Nat
      /\ max_getlogs_results <= ProviderCap /\ Cardinality(Page(lo, hi)) < max_getlogs_results
    <2>1. IsFiniteSet(all)
        BY LogsFinite, Nat \subseteq Int, Zenon
    <2>2. ProviderCap \in Nat /\ max_getlogs_results \in 1 .. ProviderCap
        BY PlanAssumption, Zenon
    <2>3. max_getlogs_results \in Nat /\ max_getlogs_results <= ProviderCap /\ max_getlogs_results # 0
        BY <2>2
    <2> QED BY <2>1, <2>2, <2>3, Zenon
<1>1. Page(lo, hi) = {l \in all : rank(l) < ProviderCap}
    BY Zenon DEF Page
<1>2. \A l \in all : below(l) \subseteq all /\ IsFiniteSet(below(l)) /\ rank(l) \in Nat
    BY <1>0, FS_Subset, FS_CardinalityType, Zenon
<1>3. IsFiniteSet(Page(lo, hi)) /\ Cardinality(Page(lo, hi)) \in Nat
    BY <1>0, <1>1, FS_Subset, FS_CardinalityType, ZenonT(30)
<1> SUFFICES ASSUME rest # {} PROVE FALSE
    BY <1>1, Zenon
<1>4. PICK l \in rest : \A m \in rest : ~(rank(m) < rank(l))
    <2>1. {rank(m) : m \in rest} \subseteq Nat /\ {rank(m) : m \in rest} # {}
        BY <1>2, ZenonT(30)
    <2>2. \E x \in {rank(m) : m \in rest} : \A y \in {rank(m) : m \in rest} : ~(y < x)
        <3> DEFINE T == {rank(m) : m \in rest}
        <3> HIDE DEF T
        <3> SUFFICES \E x \in T : \A y \in T : ~(y < x)
            BY Zenon DEF T
        <3>1. T \subseteq Nat /\ T # {}
            BY <2>1, ZenonT(30) DEF T
        <3> QED BY <3>1, Least, ZenonT(30)
    <2> QED BY <2>2, ZenonT(30)
<1>5. below(l) \subseteq Page(lo, hi)
    <2> SUFFICES ASSUME NEW m \in below(l), m \in rest PROVE FALSE
        BY Zenon
    <2>1. below(m) \subseteq below(l) /\ m \in below(l) /\ m \notin below(m)
        BY LogsMember DEF Before
    <2>2. rank(m) <= rank(l) /\ rank(m) # rank(l)
        <3> HIDE DEF all
        <3>1. below(m) \in SUBSET below(l) /\ below(m) # below(l) /\ IsFiniteSet(below(l))
            BY <2>1, <1>2, Zenon
        <3> HIDE DEF below
        <3> QED BY <3>1, FS_Subset, Zenon
    <2>3. rank(m) \in Nat /\ rank(l) \in Nat
        BY <1>2, Zenon
    <2>4. ~(rank(m) < rank(l))
        BY <1>4, Zenon
    <2> HIDE DEF rank
    <2> QED BY <2>2, <2>3, <2>4
<1>6. rank(l) <= Cardinality(Page(lo, hi))
    BY <1>3, <1>5, FS_Subset, Zenon
<1>7. ~(rank(l) < ProviderCap)
    BY <1>1, Zenon
<1> QED BY <1>0, <1>2, <1>3, <1>6, <1>7

\* Of a single block that fits a page nothing is cut off.
LEMMA BlockPage ==
    ASSUME NEW h \in Nat, h \in Blocks, ProviderCap = 0 \/ LogCount[h] <= ProviderCap
    PROVE  Page(h, h) = LogsIn(h, h)
<1> DEFINE all == LogsIn(h, h)
           below(l) == {m \in all : Before(m, l)}
<1>1. h .. h = {h}
    OBVIOUS
<1>2. all = At(h)
    BY <1>1, Zenon DEF LogsIn, At
<1>3. IsFiniteSet(all) /\ Cardinality(all) <= LogCount[h] /\ Cardinality(all) \in Nat
      /\ LogCount[h] \in Nat /\ ProviderCap \in Nat
    BY <1>2, AtFinite, FS_CardinalityType, PlanAssumption, Zenon
<1> SUFFICES ASSUME NEW l \in all, ProviderCap > 0 PROVE Cardinality(below(l)) < ProviderCap
    BY Zenon DEF Page
<1>4. l \notin below(l) /\ below(l) \in SUBSET all
    BY LogsMember DEF Before
<1>5. Cardinality(below(l)) <= Cardinality(all) /\ Cardinality(below(l)) # Cardinality(all)
      /\ Cardinality(below(l)) \in Nat
    <2> HIDE DEF all, below
    <2> QED BY <1>3, <1>4, FS_Subset, FS_CardinalityType, Zenon
<1> QED BY <1>3, <1>5

LEMMA PageSubset ==
    ASSUME NEW lo, NEW hi
    PROVE  Page(lo, hi) \subseteq LogsIn(lo, hi)
BY Zenon DEF Page

-----------------------------------------------------------------------------
(* The stack of spans.                                                     *)

\* The spans that lie in the range of f.
Spans(f) ==
    {r \in [lo : Nat, hi : Nat] : RangeOf[f].lo <= r.lo /\ r.lo <= r.hi /\ r.hi <= RangeOf[f].hi}

\* s covers the range of f from block b upwards, the lowest span on top.
Stack(f, s, b) ==
    /\ s \in Seq(Spans(f))
    /\ s = <<>> => b = RangeOf[f].hi + 1
    /\ s # <<>> => s[1].hi = RangeOf[f].hi /\ s[Len(s)].lo = b
    /\ \A i \in 1 .. Len(s) - 1 : s[i].lo = s[i + 1].hi + 1

LEMMA RangeType ==
    ASSUME NEW f \in Fetches
    PROVE  RangeOf[f].lo \in Nat /\ RangeOf[f].hi \in Nat
           /\ RangeOf[f].lo .. RangeOf[f].hi \subseteq Blocks
BY PlanAssumption, Zenon

LEMMA StackType ==
    ASSUME NEW f, NEW s, NEW b, Stack(f, s, b)
    PROVE  s \in Seq([lo : Nat, hi : Nat])
<1>1. s \in Seq(Spans(f)) /\ Spans(f) \subseteq [lo : Nat, hi : Nat]
    BY Zenon DEF Stack, Spans
<1>2. \A S, T : S \subseteq T => Seq(S) \subseteq Seq(T)
    OBVIOUS
<1> QED BY <1>1, <1>2, ZenonT(30)

LEMMA Popped ==
    ASSUME NEW S, NEW s \in Seq(S), NEW n \in Nat, n = Len(s), n # 0
    PROVE  /\ SubSeq(s, 1, n - 1) \in Seq(S) /\ Len(SubSeq(s, 1, n - 1)) = n - 1
           /\ \A i \in 1 .. n - 1 : SubSeq(s, 1, n - 1)[i] = s[i]
<1> DEFINE u == [i \in 1 .. n - 1 |-> s[i]]
<1>1. n - 1 \in Nat /\ \A i \in 1 .. n - 1 : i \in 1 .. Len(s) /\ s[i] \in S
    OBVIOUS
<1>2. SubSeq(s, 1, n - 1) = u
    BY <1>1
<1>3. u \in Seq(S) /\ Len(u) = n - 1
    BY <1>1
<1> QED BY <1>2, <1>3, Zenon

LEMMA PopStack ==
    ASSUME NEW f \in Fetches, NEW b \in Nat, NEW s, Stack(f, s, b), s # <<>>
    PROVE  /\ s[Len(s)] \in Spans(f) /\ s[Len(s)].lo = b
           /\ Stack(f, SubSeq(s, 1, Len(s) - 1), s[Len(s)].hi + 1)
<1> DEFINE n == Len(s)
           u == SubSeq(s, 1, n - 1)
<1>1. s \in Seq(Spans(f)) /\ n \in Nat \ {0} /\ s[n] \in Spans(f) /\ s[n].lo = b
    BY DEF Stack
<1>2. u \in Seq(Spans(f)) /\ Len(u) = n - 1 /\ \A i \in 1 .. n - 1 : u[i] = s[i]
    BY <1>1, Popped, ZenonT(30)
<1> HIDE DEF u
<1>3. u = <<>> => s[n].hi + 1 = RangeOf[f].hi + 1
    <2>1. u = <<>> => Len(u) = 0
        OBVIOUS
    <2>2. u = <<>> => n = 1
        BY <2>1, <1>1, <1>2
    <2> QED BY <2>2, ZenonT(30) DEF Stack
<1>4. u # <<>> => u[1].hi = RangeOf[f].hi /\ u[Len(u)].lo = s[n].hi + 1
    <2> SUFFICES ASSUME u # <<>> PROVE u[1].hi = RangeOf[f].hi /\ u[n - 1].lo = s[n].hi + 1
        BY <1>2, Zenon
    <2>1. n - 1 \in 1 .. n - 1
        BY <1>1, <1>2
    <2>2. u[1] = s[1] /\ u[n - 1] = s[n - 1]
        BY <1>1, <1>2, <2>1
    <2> QED BY <1>1, <2>1, <2>2 DEF Stack
<1>5. \A i \in 1 .. Len(u) - 1 : u[i].lo = u[i + 1].hi + 1
    BY <1>1, <1>2 DEF Stack
<1>6. Stack(f, u, s[n].hi + 1)
    BY <1>2, <1>3, <1>4, <1>5, Zenon DEF Stack
<1> QED BY <1>1, <1>6, Zenon DEF u

LEMMA PushStack ==
    ASSUME NEW f \in Fetches, NEW s, NEW lo \in Nat, NEW hi \in Nat, lo < hi,
           [lo |-> lo, hi |-> hi] \in Spans(f), Stack(f, s, hi + 1)
    PROVE  Stack(f, s \o split_range(lo, hi), lo)
<1> DEFINE mid == lo + ((hi - lo) \div 2)
           up == [lo |-> mid + 1, hi |-> hi]
           down == [lo |-> lo, hi |-> mid]
           n == Len(s)
           u == s \o <<up, down>>
<1>1. mid \in Nat /\ lo <= mid /\ mid < hi
    OBVIOUS
<1>2. up \in Spans(f) /\ down \in Spans(f)
    BY <1>1, RangeType DEF Spans
<1>3. s \in Seq(Spans(f)) /\ n \in Nat
    BY DEF Stack
<1>4. split_range(lo, hi) = <<up, down>>
    BY Zenon DEF split_range
<1>5. up.lo = mid + 1 /\ up.hi = hi /\ down.lo = lo /\ down.hi = mid
    BY Zenon
<1> HIDE DEF up, down, mid
<1>6. /\ u \in Seq(Spans(f)) /\ Len(u) = n + 2 /\ u[n + 1] = up /\ u[n + 2] = down
      /\ \A i \in 1 .. n : u[i] = s[i]
    BY <1>2, <1>3
<1> HIDE DEF u
<1>7. u[1].hi = RangeOf[f].hi
    <2>1. CASE n = 0
        <3>1. s = <<>>
            BY <1>3, <2>1
        <3>2. hi + 1 = RangeOf[f].hi + 1
            BY <3>1, Zenon DEF Stack
        <3>3. hi = RangeOf[f].hi
            BY <3>2, RangeType
        <3>4. u[1] = up
            BY <1>6, <2>1
        <3> QED BY <3>3, <3>4, <1>5, Zenon
    <2>2. CASE n # 0
        <3>1. s # <<>> /\ 1 \in 1 .. n
            BY <1>3, <2>2
        <3>2. s[1].hi = RangeOf[f].hi
            BY <3>1, Zenon DEF Stack
        <3> QED BY <3>1, <3>2, <1>6, Zenon
    <2> QED BY <2>1, <2>2, Zenon
<1>8. \A i \in 1 .. n + 1 : u[i].lo = u[i + 1].hi + 1
    <2> SUFFICES ASSUME NEW i \in 1 .. n + 1 PROVE u[i].lo = u[i + 1].hi + 1
        BY Zenon
    <2>1. CASE i = n + 1
        BY <2>1, <1>3, <1>5, <1>6
    <2>2. CASE i = n
        BY <2>2, <1>3, <1>5, <1>6 DEF Stack
    <2>3. CASE i < n
        <3>1. i \in 1 .. n - 1 /\ i + 1 \in 1 .. n
            BY <2>3, <1>3
        <3>2. u[i] = s[i] /\ u[i + 1] = s[i + 1]
            BY <3>1, <1>6
        <3>3. s[i].lo = s[i + 1].hi + 1
            BY <3>1, Zenon DEF Stack
        <3> QED BY <3>2, <3>3, Zenon
    <2> QED BY <2>1, <2>2, <2>3, <1>3
<1>9. Stack(f, u, lo)
    BY <1>3, <1>5, <1>6, <1>7, <1>8 DEF Stack
<1> QED BY <1>4, <1>9, Zenon DEF u

\* What a division rounds off is less than the divisor.
LEMMA DivBounds ==
    ASSUME NEW x \in Nat, NEW d \in Nat \ {0}
    PROVE  /\ x \div d \in Nat
           /\ (x \div d) * d <= x /\ x < (x \div d) * d + d
OBVIOUS

LEMMA SeedsStack ==
    ASSUME NEW f \in Fetches, NEW span \in Nat \ {0}
    PROVE  LET s == Seeds(RangeOf[f].lo, RangeOf[f].hi, span)
           IN  IF RangeOf[f].lo <= RangeOf[f].hi THEN Stack(f, s, RangeOf[f].lo)
               ELSE Stack(f, s, RangeOf[f].hi + 1)
<1> DEFINE lo == RangeOf[f].lo
           hi == RangeOf[f].hi
           q == (hi - lo) \div span
           s == Seeds(lo, hi, span)
           top(x) == IF x + span - 1 <= hi THEN x + span - 1 ELSE hi
<1>0. lo \in Nat /\ hi \in Nat
    BY RangeType, Zenon
<1>1. CASE ~(lo <= hi)
    <2>1. 1 .. 0 = {}
        OBVIOUS
    <2>2. s = <<>>
        BY <1>1, <2>1 DEF Seeds
    <2> QED BY <1>1, <2>2, <1>0 DEF Stack
<1>2. CASE lo <= hi
    <2> DEFINE n == q + 1
               start(i) == lo + (n - i) * span
    <2>1. q \in Nat /\ q * span <= hi - lo /\ hi - lo < q * span + span
        <3>1. hi - lo \in Nat
            BY <1>0, <1>2
        <3> QED BY <3>1, DivBounds, ZenonT(30)
    <2>2. s = [i \in 1 .. n |-> [lo |-> start(i), hi |-> top(start(i))]]
        BY <1>2, Zenon DEF Seeds
    <2>3. Len(s) = n /\ n \in Nat \ {0} /\ DOMAIN s = 1 .. n
        BY <2>1, <2>2
    <2> HIDE DEF q
    <2>4. ASSUME NEW i \in 1 .. n
          PROVE  start(i) \in Nat /\ lo <= start(i) /\ start(i) <= hi
        <3>1. n - i \in Nat /\ (n - i) * span \in Nat /\ (n - i) * span <= q * span
            BY <2>1
        <3> QED BY <3>1, <2>1, <1>0
    <2>5. \A i \in 1 .. n - 1 : start(i) = start(i + 1) + span
        BY <2>1, <1>0
    <2>6. start(n) = lo /\ start(1) = lo + q * span
        BY <2>1, <1>0
    <2> HIDE DEF start
    <2>7. \A i \in 1 .. n : s[i].lo = start(i) /\ s[i].hi = top(start(i))
        BY <2>2
    <2>8. \A i \in 1 .. n : s[i] \in Spans(f)
        BY <2>2, <2>4, <1>0 DEF Spans
    <2>9. s \in Seq(Spans(f))
        BY <2>2, <2>3, <2>8
    <2>10. s[1].hi = hi
        <3>1. top(start(1)) = hi
            BY <2>1, <2>6, <1>0
        <3> QED BY <3>1, <2>3, <2>7
    <2>11. \A i \in 1 .. n - 1 : s[i].lo = s[i + 1].hi + 1
        <3> SUFFICES ASSUME NEW i \in 1 .. n - 1 PROVE start(i) = top(start(i + 1)) + 1
            BY <2>3, <2>7
        <3>1. start(i + 1) + span <= hi /\ start(i + 1) \in Nat
            BY <2>3, <2>4, <2>5
        <3> QED BY <3>1, <2>5, <1>0
    <2>12. s[Len(s)].lo = lo /\ s # <<>>
        BY <2>3, <2>6, <2>7
    <2> HIDE DEF s, lo, hi
    <2>13. Stack(f, s, lo)
        BY <2>3, <2>9, <2>10, <2>11, <2>12, Zenon DEF Stack, hi
    <2> QED BY <1>2, <2>13, Zenon DEF s, lo, hi
<1> QED BY <1>1, <1>2, Zenon

LEMMA SpanType ==
    ASSUME density_milli \in Nat
    PROVE  suggested_span \in Nat \ {0}
<1>1. max_getlogs_blocks \in Nat \ {0} /\ max_getlogs_results \in Nat
    BY PlanAssumption
<1>2. ASSUME density_milli # 0
      PROVE  (max_getlogs_results * 800) \div density_milli \in Nat
    <2>1. max_getlogs_results * 800 \in Nat
        BY <1>1
    <2> QED BY <2>1, <1>2, DivBounds
<1> QED BY <1>1, <1>2 DEF suggested_span, Greater

-----------------------------------------------------------------------------
(* The inductive invariant.                                                *)

\* WholeBelow, of the logs lg.
Whole(f, lg, b) ==
    /\ \A h \in RangeOf[f].lo .. (b - 1) :
          ProviderCap = 0 \/ LogCount[h] <= ProviderCap => LogsIn(h, h) \subseteq lg
    /\ lg \subseteq LogsIn(RangeOf[f].lo, b - 1)

\* fetch_records: stack st, logs lg, and at most one request in cs.
Walk(f, st, lg, cs) ==
    /\ cs = {} => \E b \in Nat : Stack(f, st, b) /\ Whole(f, lg, b)
    /\ \A k \in cs :
          /\ k.what = "logs" /\ [lo |-> k.lo, hi |-> k.hi] \in Spans(f)
          /\ Stack(f, st, k.hi + 1) /\ Whole(f, lg, k.lo)
    /\ \A k, j \in cs : k = j

Lookups == {"blocks", "receipts"}
Want(lg, w) == IF w = "blocks" THEN {l[1] : l \in lg} ELSE {TxOf(l) : l \in lg}

\* fetch_aux: what is wanted is answered, or in a chunk to come or in flight.
Lookup(f, lg, td, ax, cs) ==
    /\ Whole(f, lg, RangeOf[f].hi + 1)
    /\ \A w \in Lookups :
          /\ ax[w] \subseteq Want(lg, w)
          /\ \A x \in Want(lg, w) : \/ x \in ax[w] \cup ax.nulls
                                    \/ \E d \in td \cup cs : d.what = w /\ x \in d.items
    /\ ax.nulls \subseteq Want(lg, "blocks") \cup Want(lg, "receipts")
    /\ \A d \in td \cup cs : d.what \in Lookups /\ d.items \subseteq Want(lg, d.what)

Complete(f, lg, ax) ==
    /\ Whole(f, lg, RangeOf[f].hi + 1)
    /\ ax.blocks = Want(lg, "blocks")
    /\ ax.receipts \cup ax.nulls = Want(lg, "receipts")

\* The state of one fetch, by where it is.
Fine(f, p, st, lg, td, ax, cs) ==
    /\ p \in {"idle", "records"} => ax = NoAux /\ td = {}
    /\ p = "idle" => lg = {} /\ cs = {}
    /\ p = "records" => Walk(f, st, lg, cs)
    /\ p = "aux" => Lookup(f, lg, td, ax, cs)
    /\ p = "ok" => Complete(f, lg, ax)
    /\ p \in {"ok", "err"} => cs = {}

Chunk == {d \in [what : Lookups, items : SUBSET Nat] : IsFiniteSet(d.items)}
Answers == [blocks : SUBSET Nat, receipts : SUBSET Nat, nulls : SUBSET Nat]
Call ==
    {k \in [f : Fetches, what : Lookups \cup {"logs"}, lo : Nat, hi : Nat, items : SUBSET Nat,
            attempt : Nat, need : Int, permits : Int] : IsFiniteSet(k.items)}
PageLogs == {lg \in SUBSET (Nat \X Nat) : IsFiniteSet(lg)}

Typed ==
    /\ pc \in [Fetches -> {"idle", "records", "aux", "ok", "err"}]
    /\ pending \in [Fetches -> Seq([lo : Nat, hi : Nat])]
    /\ logs \in [Fetches -> PageLogs]
    /\ todo \in [Fetches -> SUBSET Chunk]
    /\ aux \in [Fetches -> Answers]
    /\ calls \subseteq Call
    /\ density_milli \in Nat /\ kind \in NodeKinds
    /\ ledger \in [units : Nat, micro_usd : Nat] /\ sent \in Nat

AllFine ==
    \A f \in Fetches : Fine(f, pc[f], pending[f], logs[f], todo[f], aux[f], CallsOf(f))

\* The full cost of the loop's call p; it never has more than that to draw.
PollCost(kd, p) == Greater(units_of(kd, RpcCall(p.method, 1)), 1)

LoopFine ==
    /\ subs \in Nat
    /\ \/ poll = NoPoll
       \/ /\ poll \in [method : {"BlockNumber", "BlockByNumber"}, need : Nat]
          /\ poll.need <= PollCost(kind, poll)

IInv == Typed /\ AllFine /\ MoneyAgrees /\ LoopFine

-----------------------------------------------------------------------------
LEMMA WholeStart ==
    ASSUME NEW f \in Fetches, NEW b \in Nat, b <= RangeOf[f].lo
    PROVE  Whole(f, {}, b)
<1>1. RangeOf[f].lo .. (b - 1) = {}
    BY RangeType
<1> QED BY <1>1, Zenon DEF Whole

\* A page that is taken brings the walk to the end of its span.
LEMMA WholePage ==
    ASSUME NEW f \in Fetches, NEW lo \in Nat, NEW hi \in Nat, NEW lg,
           [lo |-> lo, hi |-> hi] \in Spans(f), Whole(f, lg, lo),
           lo = hi \/ max_getlogs_results = 0 \/ Cardinality(Page(lo, hi)) < max_getlogs_results
    PROVE  Whole(f, lg \cup Page(lo, hi), hi + 1)
<1> DEFINE from == RangeOf[f].lo
<1>1. from \in Nat /\ from <= lo /\ lo <= hi /\ lo .. hi \subseteq Blocks /\ hi + 1 - 1 = hi
    BY RangeType DEF Spans
<1>2. ASSUME NEW h \in from .. hi, ProviderCap = 0 \/ LogCount[h] <= ProviderCap
      PROVE  LogsIn(h, h) \subseteq lg \cup Page(lo, hi)
    <2>1. CASE h < lo
        <3>1. h \in from .. (lo - 1)
            BY <2>1, <1>1
        <3> QED BY <3>1, <1>2, Zenon DEF Whole
    <2>2. CASE ~(h < lo) /\ (max_getlogs_results = 0 \/ Cardinality(Page(lo, hi)) < max_getlogs_results)
        <3>1. h .. h \subseteq lo .. hi
            BY <2>2, <1>1
        <3>2. LogsIn(h, h) \subseteq LogsIn(lo, hi)
            BY <3>1 DEF LogsIn
        <3> QED BY <3>2, <1>1, <2>2, ShortPage, Zenon
    <2>3. CASE ~(h < lo) /\ lo = hi
        <3>1. h = lo /\ h = hi /\ h \in Nat /\ h \in Blocks
            BY <2>3, <1>1
        <3>2. Page(h, h) = LogsIn(h, h)
            BY <3>1, <1>2, BlockPage, Zenon
        <3> QED BY <3>1, <3>2, Zenon
    <2> QED BY <2>1, <2>2, <2>3, Zenon
<1>3. from .. (lo - 1) \subseteq from .. hi /\ lo .. hi \subseteq from .. hi
    BY <1>1
<1>4. LogsIn(from, lo - 1) \subseteq LogsIn(from, hi) /\ LogsIn(lo, hi) \subseteq LogsIn(from, hi)
    BY <1>3 DEF LogsIn
<1>5. lg \cup Page(lo, hi) \subseteq LogsIn(from, hi)
    BY <1>4, PageSubset, Zenon DEF Whole
<1> QED BY <1>1, <1>2, <1>5 DEF Whole

-----------------------------------------------------------------------------
(* Prices and requests.                                                    *)

LEMMA KindCases == NodeKinds \subseteq {"alchemy", "quicknode", "free"}
BY PlanAssumption, Zenon DEF unit_price

LEMMA PriceType ==
    ASSUME NEW k \in NodeKinds, NEW what \in Lookups \cup {"logs"}
    PROVE  unit_price[k][MethodOf[what]] \in Nat
<1>1. MethodOf[what] \in {"GetLogs", "BlockByNumber", "Receipt"}
    BY DEF MethodOf, Lookups
<1>2. \A m \in {"GetLogs", "BlockByNumber", "Receipt"} :
        /\ m \in DOMAIN AlchemyCost
        /\ AlchemyCost[m] \in Nat /\ QuickNodeCost[m] \in Nat /\ FreeNodeCost[m] \in Nat
    BY DEF AlchemyCost, QuickNodeCost, FreeNodeCost
<1>3. unit_price[k] \in {AlchemyCost, QuickNodeCost, FreeNodeCost}
    BY KindCases DEF unit_price
<1> QED BY <1>1, <1>2, <1>3, Zenon

LEMMA UnitsType ==
    ASSUME NEW k \in NodeKinds, NEW what \in Lookups \cup {"logs"}, NEW items, IsFiniteSet(items)
    PROVE  /\ units_of(k, CallOf(what, items)) \in Nat
           /\ CallOf(what, items).count \in Nat
<1> DEFINE n == CallOf(what, items).count
           price == unit_price[k][MethodOf[what]]
<1>1. n \in Nat /\ CallOf(what, items).method = MethodOf[what]
    BY FS_CardinalityType, Zenon DEF CallOf, RpcCall
<1>2. price \in Nat
    BY PriceType, Zenon
<1>3. units_of(k, CallOf(what, items)) = price * (IF MethodOf[what] \in Batched THEN Greater(n, 1) ELSE 1)
    BY <1>1, Zenon DEF units_of
<1> HIDE DEF n, price
<1>4. Greater(n, 1) \in Nat
    BY <1>1, Zenon DEF Greater
<1> QED BY <1>1, <1>2, <1>3, <1>4 DEF n

LEMMA LoopUnits ==
    ASSUME NEW k \in NodeKinds, NEW m \in {"BlockNumber", "BlockByNumber", "LogSubscription"}
    PROVE  units_of(k, RpcCall(m, 1)) \in Nat
<1>1. /\ m \in DOMAIN AlchemyCost
      /\ AlchemyCost[m] \in Nat /\ QuickNodeCost[m] \in Nat /\ FreeNodeCost[m] \in Nat
    BY DEF AlchemyCost, QuickNodeCost, FreeNodeCost
<1>2. unit_price[k] \in {AlchemyCost, QuickNodeCost, FreeNodeCost}
    BY KindCases DEF unit_price
<1>3. unit_price[k][m] \in Nat
    BY <1>1, <1>2, Zenon
<1>4. units_of(k, RpcCall(m, 1)) = unit_price[k][m] * (IF m \in Batched THEN Greater(1, 1) ELSE 1)
    BY Zenon DEF units_of, RpcCall
<1>5. Greater(1, 1) = 1
    BY DEF Greater
<1> QED BY <1>3, <1>4, <1>5

LEMMA RequestType ==
    ASSUME kind \in NodeKinds, NEW f \in Fetches, NEW what \in Lookups \cup {"logs"},
           NEW lo \in Nat, NEW hi \in Nat, NEW items \in SUBSET Nat, IsFiniteSet(items),
           NEW attempt \in Nat, NEW k, k = Request(f, what, lo, hi, items, attempt)
    PROVE  k \in Call /\ k.f = f /\ k.what = what /\ k.lo = lo /\ k.hi = hi /\ k.items = items
<1> DEFINE units == units_of(kind, CallOf(what, items))
           need == IF max_cu_per_sec = 0 THEN 0 ELSE Greater(units, 1)
           count == CallOf(what, items).count
<1>1. units \in Nat /\ count \in Nat
    BY UnitsType, Zenon
<1>2. need \in Int
    BY <1>1 DEF Greater
<1>3. k =
        [f |-> f, what |-> what, lo |-> lo, hi |-> hi, items |-> items, attempt |-> attempt,
         need |-> need, permits |-> count]
    BY Zenon DEF Request, DrawFor
<1> HIDE DEF need, count
<1> QED BY <1>1, <1>2, <1>3 DEF Call

LEMMA LogsRequestType ==
    ASSUME kind \in NodeKinds, NEW f \in Fetches, NEW lo \in Nat, NEW hi \in Nat,
           NEW k, k = Request(f, "logs", lo, hi, {}, 0)
    PROVE  k \in Call /\ k.f = f /\ k.what = "logs" /\ k.lo = lo /\ k.hi = hi
<1> DEFINE units == units_of(kind, CallOf("logs", {}))
           need == IF max_cu_per_sec = 0 THEN 0 ELSE Greater(units, 1)
           count == CallOf("logs", {}).count
<1>1. units \in Nat /\ count \in Nat
    BY UnitsType, FS_EmptySet, Zenon
<1>2. need \in Int
    BY <1>1 DEF Greater
<1>3. k =
        [f |-> f, what |-> "logs", lo |-> lo, hi |-> hi, items |-> {}, attempt |-> 0,
         need |-> need, permits |-> count]
    BY Zenon DEF Request, DrawFor
<1> HIDE DEF units, need, count
<1>4. IsFiniteSet({})
    BY FS_EmptySet, Zenon
<1> QED BY <1>1, <1>2, <1>3, <1>4, SMT DEF Call

-----------------------------------------------------------------------------
(* Steps of one fetch.                                                     *)

LEMMA OneFetch ==
    ASSUME AllFine, NEW f \in Fetches,
           \A g \in Fetches \ {f} : /\ pc'[g] = pc[g] /\ pending'[g] = pending[g] /\ logs'[g] = logs[g]
                                    /\ todo'[g] = todo[g] /\ aux'[g] = aux[g],
           \A k \in calls' \ calls : k.f = f, \A k \in calls \ calls' : k.f = f,
           Fine(f, pc'[f], pending'[f], logs'[f], todo'[f], aux'[f], CallsOf(f)')
    PROVE  AllFine'
<1> SUFFICES ASSUME NEW g \in Fetches \ {f}
             PROVE  Fine(g, pc'[g], pending'[g], logs'[g], todo'[g], aux'[g], CallsOf(g)')
    BY Zenon DEF AllFine
<1>1. CallsOf(g)' = CallsOf(g)
    BY Zenon DEF CallsOf
<1>2. Fine(g, pc[g], pending[g], logs[g], todo[g], aux[g], CallsOf(g))
    BY Zenon DEF AllFine
<1> QED BY <1>1, <1>2, Zenon

\* A request that goes on, or is tried again, is for the same thing.
LEMMA FineReissue ==
    ASSUME NEW f, NEW p, NEW st, NEW lg, NEW td, NEW ax, NEW cs, NEW k \in cs, NEW j,
           p \in {"idle", "records", "aux", "ok", "err"},
           Fine(f, p, st, lg, td, ax, cs),
           j.what = k.what, j.lo = k.lo, j.hi = k.hi, j.items = k.items
    PROVE  Fine(f, p, st, lg, td, ax, (cs \ {k}) \cup {j})
<1>1. p \in {"records", "aux"}
    BY Zenon DEF Fine
<1>2. CASE p = "records"
    <2>1. Walk(f, st, lg, cs) /\ cs = {k}
        BY <1>2, Zenon DEF Fine, Walk
    <2>2. (cs \ {k}) \cup {j} = {j}
        BY <2>1, Zenon
    <2>3. Walk(f, st, lg, {j})
        BY <2>1, Zenon DEF Walk
    <2> QED BY <1>2, <2>2, <2>3, Zenon DEF Fine
<1>3. CASE p = "aux"
    <2>1. Lookup(f, lg, td, ax, cs)
        BY <1>3, Zenon DEF Fine
    <2>2. Lookup(f, lg, td, ax, (cs \ {k}) \cup {j})
        BY <2>1 DEF Lookup
    <2> QED BY <1>3, <2>2, Zenon DEF Fine
<1> QED BY <1>1, <1>2, <1>3, Zenon

LEMMA ReissueKeeps ==
    ASSUME Typed, AllFine, NEW k \in calls, NEW j \in Call,
           j.f = k.f, j.what = k.what, j.lo = k.lo, j.hi = k.hi, j.items = k.items,
           calls' = (calls \ {k}) \cup {j}, UNCHANGED <<pc, pending, logs, todo, aux>>
    PROVE  calls' \subseteq Call /\ AllFine'
<1> DEFINE f == k.f
<1>1. f \in Fetches /\ pc[f] \in {"idle", "records", "aux", "ok", "err"} /\ calls' \subseteq Call
    BY Zenon DEF Typed, Call
<1>2. k \in CallsOf(f) /\ CallsOf(f)' = (CallsOf(f) \ {k}) \cup {j}
    BY Zenon DEF CallsOf
<1>3. Fine(f, pc[f], pending[f], logs[f], todo[f], aux[f], CallsOf(f))
    BY <1>1, Zenon DEF AllFine
<1>4. Fine(f, pc[f], pending[f], logs[f], todo[f], aux[f], (CallsOf(f) \ {k}) \cup {j})
    BY <1>1, <1>2, <1>3, FineReissue
<1>5. Fine(f, pc'[f], pending'[f], logs'[f], todo'[f], aux'[f], CallsOf(f)')
    BY <1>2, <1>4, Zenon
<1>6. (\A i \in calls' \ calls : i.f = f) /\ \A i \in calls \ calls' : i.f = f
    BY Zenon
<1> QED BY <1>1, <1>5, <1>6, OneFetch, Zenon

LEMMA RetryType ==
    ASSUME kind \in NodeKinds, NEW k \in Call
    PROVE  Retry(k) \in Call /\ Retry(k).f = k.f /\ Retry(k).what = k.what /\ Retry(k).lo = k.lo
           /\ Retry(k).hi = k.hi /\ Retry(k).items = k.items
<1>1. k.f \in Fetches /\ k.what \in Lookups \cup {"logs"} /\ k.lo \in Nat /\ k.hi \in Nat
      /\ k.items \in SUBSET Nat /\ IsFiniteSet(k.items) /\ k.attempt + 1 \in Nat
    BY DEF Call
<1>2. Retry(k) = Request(k.f, k.what, k.lo, k.hi, k.items, k.attempt + 1)
    BY Zenon DEF Retry
<1>3. PICK f \in Fetches, what \in Lookups \cup {"logs"}, lo \in Nat, hi \in Nat, attempt \in Nat,
           items \in SUBSET Nat : f = k.f /\ what = k.what /\ lo = k.lo /\ hi = k.hi
           /\ attempt = k.attempt + 1 /\ items = k.items
    BY <1>1, Zenon
<1>4. IsFiniteSet(items)
    BY <1>1, <1>3, Zenon
<1>5. PICK j : j = Request(f, what, lo, hi, items, attempt)
    BY Zenon
<1>6. j \in Call /\ j.f = f /\ j.what = what /\ j.lo = lo /\ j.hi = hi /\ j.items = items
    BY <1>4, <1>5, RequestType
<1>7. Retry(k) = j
    BY <1>2, <1>3, <1>5, Zenon
<1> QED BY <1>3, <1>6, <1>7, Zenon

LEMMA FetchRangeKeeps ==
    ASSUME Typed, AllFine, NEW f \in Fetches, fetch_range(f)
    PROVE  Typed' /\ AllFine'
<1> DEFINE st == Seeds(RangeOf[f].lo, RangeOf[f].hi, suggested_span)
<1>1. /\ pc[f] = "idle" /\ pc' = [pc EXCEPT ![f] = "records"] /\ pending' = [pending EXCEPT ![f] = st]
      /\ UNCHANGED <<logs, todo, aux, calls, kind, ledger, sent, density_milli>>
    BY ZenonT(30) DEF fetch_range, spend
<1>2. Fine(f, "idle", pending[f], logs[f], todo[f], aux[f], CallsOf(f))
    BY <1>1, Zenon DEF AllFine
<1>3. suggested_span \in Nat \ {0}
    BY SpanType, Zenon DEF Typed
<1>4. PICK b \in Nat : Stack(f, st, b) /\ b <= RangeOf[f].lo
    BY <1>3, SeedsStack, RangeType
<1> HIDE DEF st
<1>5. Walk(f, st, {}, {})
    BY <1>4, WholeStart, Zenon DEF Walk
<1>6. Fine(f, "records", st, logs[f], todo[f], aux[f], CallsOf(f))
    BY <1>2, <1>5, Zenon DEF Fine
<1>7. st \in Seq([lo : Nat, hi : Nat])
    BY <1>4, StackType, Zenon
<1>8. Typed'
    BY <1>1, <1>7, Zenon DEF Typed
<1>9. Fine(f, pc'[f], pending'[f], logs'[f], todo'[f], aux'[f], CallsOf(f)')
    BY <1>1, <1>6, Zenon DEF CallsOf, Typed
<1> QED BY <1>1, <1>8, <1>9, OneFetch, Zenon DEF Typed

LEMMA PopSpanKeeps ==
    ASSUME Typed, AllFine, NEW f \in Fetches, PopSpan(f)
    PROVE  Typed' /\ AllFine'
<1> DEFINE s == pending[f]
           n == Len(s)
           r == s[n]
           u == SubSeq(s, 1, n - 1)
           k == Request(f, "logs", r.lo, r.hi, {}, 0)
<1>1. /\ pc[f] = "records" /\ CallsOf(f) = {} /\ s # <<>>
      /\ pending' = [pending EXCEPT ![f] = SubSeq(@, 1, n - 1)] /\ calls' = calls \cup {k}
      /\ UNCHANGED <<pc, logs, todo, aux, kind, ledger, sent, density_milli>>
    BY Zenon DEF PopSpan, spend
<1>2. Fine(f, "records", s, logs[f], todo[f], aux[f], {})
    BY <1>1, Zenon DEF AllFine
<1>3. PICK b \in Nat : Stack(f, s, b) /\ Whole(f, logs[f], b)
    BY <1>2, Zenon DEF Fine, Walk
<1>4. r \in Spans(f) /\ r.lo = b /\ Stack(f, u, r.hi + 1)
    BY <1>1, <1>3, PopStack, Zenon
<1>5. r.lo \in Nat /\ r.hi \in Nat /\ r = [lo |-> r.lo, hi |-> r.hi]
    BY <1>4, Zenon DEF Spans
<1>6. k \in Call /\ k.f = f /\ k.what = "logs" /\ k.lo = r.lo /\ k.hi = r.hi
    <2>1. kind \in NodeKinds
        BY Zenon DEF Typed
    <2>2. PICK lo \in Nat, hi \in Nat : lo = r.lo /\ hi = r.hi
        BY <1>5, Zenon
    <2>3. PICK j : j = Request(f, "logs", lo, hi, {}, 0)
        BY Zenon
    <2>4. j \in Call /\ j.f = f /\ j.what = "logs" /\ j.lo = lo /\ j.hi = hi
        BY <2>1, <2>3, LogsRequestType
    <2>5. k = j
        BY <2>2, <2>3, Zenon
    <2> HIDE DEF k
    <2> QED BY <2>2, <2>4, <2>5, Zenon
<1>7. pending' = [pending EXCEPT ![f] = u]
    BY <1>1, Zenon
<1> HIDE DEF u, k
<1>8. Walk(f, u, logs[f], {k})
    BY <1>3, <1>4, <1>5, <1>6, Zenon DEF Walk
<1>9. Fine(f, "records", u, logs[f], todo[f], aux[f], {k})
    BY <1>2, <1>8, Zenon DEF Fine
<1>10. CallsOf(f)' = {k}
    BY <1>1, <1>6, Zenon DEF CallsOf
<1>11. u \in Seq([lo : Nat, hi : Nat])
    BY <1>4, StackType, Zenon
<1>12. Typed'
    <2>1. calls' \subseteq Call
        BY <1>1, <1>6, Zenon DEF Typed
    <2> QED BY <2>1, <1>1, <1>7, <1>11, ZenonT(30) DEF Typed
<1>13. Fine(f, pc'[f], pending'[f], logs'[f], todo'[f], aux'[f], CallsOf(f)')
    BY <1>1, <1>7, <1>9, <1>10, ZenonT(30) DEF Typed
<1>14. (\A i \in calls' \ calls : i.f = f) /\ \A i \in calls \ calls' : i.f = f
    BY <1>1, <1>6, Zenon
<1> QED BY <1>1, <1>7, <1>12, <1>13, <1>14, OneFetch, ZenonT(30) DEF Typed

\* What fetch_records knows of its request.
LEMMA LogsRequest ==
    ASSUME Typed, AllFine, NEW k \in calls, k.what = "logs"
    PROVE  /\ k.f \in Fetches /\ pc[k.f] = "records" /\ CallsOf(k.f) = {k} /\ k.lo \in Nat /\ k.hi \in Nat
           /\ [lo |-> k.lo, hi |-> k.hi] \in Spans(k.f) /\ Stack(k.f, pending[k.f], k.hi + 1)
           /\ Whole(k.f, logs[k.f], k.lo) /\ aux[k.f] = NoAux /\ todo[k.f] = {}
<1> DEFINE f == k.f
<1>1. f \in Fetches /\ k \in CallsOf(f) /\ k.lo \in Nat /\ k.hi \in Nat
      /\ pc[f] \in {"idle", "records", "aux", "ok", "err"}
    BY Zenon DEF Typed, Call, CallsOf
<1>2. Fine(f, pc[f], pending[f], logs[f], todo[f], aux[f], CallsOf(f))
    BY <1>1, Zenon DEF AllFine
<1>3. pc[f] = "records"
    BY <1>1, <1>2, Zenon DEF Fine, Lookup, Lookups
<1>4. Walk(f, pending[f], logs[f], CallsOf(f)) /\ aux[f] = NoAux /\ todo[f] = {}
    BY <1>2, <1>3, Zenon DEF Fine
<1>5. CallsOf(f) = {k}
    BY <1>1, <1>4, Zenon DEF Walk
<1> QED BY <1>1, <1>3, <1>4, <1>5, Zenon DEF Walk

LEMMA SplitKeeps ==
    ASSUME Typed, AllFine, NEW k \in calls, k.what = "logs", Split(k), k.lo < k.hi,
           UNCHANGED <<kind, ledger, sent, density_milli>>
    PROVE  Typed' /\ AllFine'
<1> DEFINE f == k.f
           u == pending[f] \o split_range(k.lo, k.hi)
<1>0. /\ f \in Fetches /\ pc[f] = "records" /\ CallsOf(f) = {k} /\ k.lo \in Nat /\ k.hi \in Nat
      /\ [lo |-> k.lo, hi |-> k.hi] \in Spans(f) /\ Stack(f, pending[f], k.hi + 1)
      /\ Whole(f, logs[f], k.lo) /\ aux[f] = NoAux /\ todo[f] = {}
    BY LogsRequest, Zenon
<1>1. /\ pending' = [pending EXCEPT ![f] = u] /\ calls' = calls \ {k}
      /\ UNCHANGED <<pc, logs, todo, aux>>
    BY Zenon DEF Split
<1>2. Stack(f, u, k.lo)
    BY <1>0, PushStack, Zenon
<1> HIDE DEF u
<1>3. CallsOf(f)' = {}
    BY <1>0, <1>1, Zenon DEF CallsOf
<1>4. Fine(f, "records", u, logs[f], todo[f], aux[f], {})
    BY <1>0, <1>2, Zenon DEF Fine, Walk
<1>5. u \in Seq([lo : Nat, hi : Nat])
    BY <1>2, StackType, Zenon
<1>6. Typed'
    BY <1>0, <1>1, <1>5, Zenon DEF Typed
<1>7. Fine(f, pc'[f], pending'[f], logs'[f], todo'[f], aux'[f], CallsOf(f)')
    BY <1>0, <1>1, <1>3, <1>4, ZenonT(30) DEF Typed
<1>8. (\A i \in calls' \ calls : i.f = f) /\ \A i \in calls \ calls' : i.f = f
    BY <1>1, Zenon
<1> QED BY <1>0, <1>1, <1>6, <1>7, <1>8, OneFetch, ZenonT(30) DEF Typed

LEMMA PageType ==
    ASSUME NEW f \in Fetches, NEW lo \in Nat, NEW hi \in Nat, [lo |-> lo, hi |-> hi] \in Spans(f)
    PROVE  Page(lo, hi) \in PageLogs /\ Cardinality(Page(lo, hi)) \in Nat /\ hi - lo + 1 \in Nat \ {0}
<1>1. lo <= hi /\ lo .. hi \subseteq Blocks
    BY RangeType DEF Spans
<1>2. IsFiniteSet(Page(lo, hi)) /\ Cardinality(Page(lo, hi)) \in Nat
    BY <1>1, LogsFinite, PageSubset, FS_Subset, FS_CardinalityType
<1>3. ASSUME NEW l \in LogsIn(lo, hi) PROVE l \in Nat \X Nat
    <2>1. l[1] \in Nat /\ l \in At(l[1])
        BY LogsMember
    <2>2. PICK b \in Nat : l \in At(b)
        BY <2>1, Zenon
    <2>3. PICK i \in 1 .. LogCount[b] : l = <<b, i>>
        BY <2>2, Zenon DEF At
    <2>4. l[2] \in Nat /\ l[2] = i
        BY <2>3, LogsMember
    <2> QED BY <2>3, <2>4, Zenon
<1>4. Page(lo, hi) \subseteq Nat \X Nat
    BY <1>3, PageSubset, Zenon
<1> QED BY <1>1, <1>2, <1>4 DEF PageLogs

LEMMA DensityType ==
    ASSUME density_milli \in Nat, NEW blocks \in Nat \ {0}, NEW found \in Nat,
           record_density(blocks, found)
    PROVE  density_milli' \in Nat
<1> DEFINE sample == (found * 1000) \div blocks
<1>1. sample \in Nat
    <2>1. found * 1000 \in Nat
        OBVIOUS
    <2> QED BY <2>1, DivBounds
<1>2. density_milli' = IF density_milli = 0 THEN sample ELSE (density_milli * 7 + sample) \div 8
    BY Zenon DEF record_density
<1> HIDE DEF sample
<1>3. (density_milli * 7 + sample) \div 8 \in Nat
    <2>1. density_milli * 7 + sample \in Nat
        BY <1>1
    <2> QED BY <2>1, DivBounds
<1> QED BY <1>1, <1>2, <1>3, Zenon

LEMMA GetLogsPageKeeps ==
    ASSUME Typed, AllFine, NEW k \in calls, GetLogsPage(k)
    PROVE  Typed' /\ AllFine'
<1> DEFINE f == k.f
           page == Page(k.lo, k.hi)
<1>0. /\ f \in Fetches /\ pc[f] = "records" /\ CallsOf(f) = {k} /\ k.lo \in Nat /\ k.hi \in Nat
      /\ [lo |-> k.lo, hi |-> k.hi] \in Spans(f) /\ Stack(f, pending[f], k.hi + 1)
      /\ Whole(f, logs[f], k.lo) /\ aux[f] = NoAux /\ todo[f] = {}
    BY LogsRequest, Zenon DEF GetLogsPage
<1>1. UNCHANGED <<kind, ledger, sent>> /\ k.what = "logs"
    BY Zenon DEF GetLogsPage, spend
<1>2. CASE k.lo < k.hi /\ max_getlogs_results > 0 /\ Cardinality(page) >= max_getlogs_results
    BY <1>1, <1>2, SplitKeeps, Zenon DEF GetLogsPage
<1>3. CASE ~(k.lo < k.hi /\ max_getlogs_results > 0 /\ Cardinality(page) >= max_getlogs_results)
    <2>1. /\ record_density(k.hi - k.lo + 1, Cardinality(page))
          /\ logs' = [logs EXCEPT ![f] = @ \cup page] /\ calls' = calls \ {k}
          /\ UNCHANGED <<pc, pending, todo, aux>>
        BY <1>3, Zenon DEF GetLogsPage
    <2>2. page \in PageLogs /\ Cardinality(page) \in Nat /\ k.hi - k.lo + 1 \in Nat \ {0}
        BY <1>0, PageType, Zenon
    <2>3. k.lo = k.hi \/ max_getlogs_results = 0 \/ Cardinality(page) < max_getlogs_results
        BY <1>0, <1>3, <2>2, PlanAssumption, SMTT(20) DEF Spans
    <2>4. Whole(f, logs[f] \cup page, k.hi + 1)
        BY <1>0, <2>3, WholePage, Zenon
    <2>5. density_milli' \in Nat
        BY <2>1, <2>2, DensityType, Zenon DEF Typed
    <2>6. logs[f] \cup page \in PageLogs
        BY <1>0, <2>2, FS_Union, ZenonT(30) DEF Typed, PageLogs
    <2> HIDE DEF page
    <2>7. CallsOf(f)' = {}
        BY <1>0, <2>1, Zenon DEF CallsOf
    <2>8. Fine(f, "records", pending[f], logs[f] \cup page, todo[f], aux[f], {})
        <3>1. k.hi + 1 \in Nat
            BY <1>0
        <3>2. \E b \in Nat : Stack(f, pending[f], b) /\ Whole(f, logs[f] \cup page, b)
            BY <3>1, <1>0, <2>4, ZenonT(30)
        <3>3. Walk(f, pending[f], logs[f] \cup page, {})
            BY <3>2, ZenonT(30) DEF Walk
        <3> QED BY <3>3, <1>0, ZenonT(30) DEF Fine
    <2>9. Typed'
        BY <1>0, <1>1, <2>1, <2>5, <2>6, Zenon DEF Typed
    <2>10. Fine(f, pc'[f], pending'[f], logs'[f], todo'[f], aux'[f], CallsOf(f)')
        BY <1>0, <2>1, <2>7, <2>8, ZenonT(30) DEF Typed
    <2>11. (\A i \in calls' \ calls : i.f = f) /\ \A i \in calls \ calls' : i.f = f
        BY <2>1, Zenon
    <2> QED BY <1>0, <2>1, <2>9, <2>10, <2>11, OneFetch, ZenonT(30) DEF Typed
<1> QED BY <1>2, <1>3, Zenon

LEMMA AbortKeeps ==
    ASSUME Typed, AllFine, NEW f \in Fetches, Abort(f), UNCHANGED <<kind, ledger, sent, density_milli>>
    PROVE  Typed' /\ AllFine'
<1>1. /\ pc' = [pc EXCEPT ![f] = "err"] /\ calls' = calls \ CallsOf(f)
      /\ pending' = [pending EXCEPT ![f] = <<>>] /\ todo' = [todo EXCEPT ![f] = {}]
      /\ UNCHANGED <<logs, aux>>
    BY Zenon DEF Abort
<1>2. CallsOf(f)' = {}
    BY <1>1, Zenon DEF CallsOf
<1>3. Fine(f, "err", <<>>, logs[f], {}, aux[f], {})
    BY Zenon DEF Fine
<1>4. Typed'
    BY <1>1 DEF Typed
<1>5. Fine(f, pc'[f], pending'[f], logs'[f], todo'[f], aux'[f], CallsOf(f)')
    BY <1>1, <1>2, <1>3, Zenon DEF Typed
<1>6. (\A i \in calls' \ calls : i.f = f) /\ \A i \in calls \ calls' : i.f = f
    BY <1>1, Zenon DEF CallsOf
<1> QED BY <1>1, <1>4, <1>5, <1>6, OneFetch, Zenon DEF Typed

\* A request that is tried again.
LEMMA RetryKeeps ==
    ASSUME Typed, AllFine, NEW k \in calls, calls' = (calls \ {k}) \cup {Retry(k)},
           UNCHANGED <<pc, pending, logs, todo, aux, kind, ledger, sent, density_milli>>
    PROVE  Typed' /\ AllFine'
<1>1. kind \in NodeKinds /\ k \in Call
    BY Zenon DEF Typed
<1>2. PICK j \in Call : j = Retry(k) /\ j.f = k.f /\ j.what = k.what /\ j.lo = k.lo
                        /\ j.hi = k.hi /\ j.items = k.items
    BY <1>1, RetryType, Zenon
<1>3. calls' \subseteq Call /\ AllFine'
    BY <1>2, ReissueKeeps, Zenon
<1> QED BY <1>3, Zenon DEF Typed

LEMMA ErrorsKeep ==
    ASSUME Typed, AllFine, NEW k \in calls, GetLogsRefused(k) \/ TransportError(k)
    PROVE  Typed' /\ AllFine'
<1>1. UNCHANGED <<kind, ledger, sent, density_milli>> /\ k.f \in Fetches
    BY Zenon DEF GetLogsRefused, TransportError, spend, Typed, Call
<1>2. CASE calls' = (calls \ {k}) \cup {Retry(k)} /\ UNCHANGED fetch
    BY <1>1, <1>2, RetryKeeps, Zenon DEF fetch
<1>3. CASE Abort(k.f)
    BY <1>1, <1>3, AbortKeeps, Zenon
<1>4. CASE k.what = "logs" /\ k.lo < k.hi /\ Split(k)
    BY <1>1, <1>4, SplitKeeps, Zenon
<1> QED BY <1>2, <1>3, <1>4, Zenon DEF GetLogsRefused, TransportError

-----------------------------------------------------------------------------
(* fetch_aux.                                                              *)

LEMMA WantType ==
    ASSUME NEW lg \in PageLogs, NEW w \in Lookups
    PROVE  Want(lg, w) \subseteq Nat /\ IsFiniteSet(Want(lg, w))
<1>0. lg \subseteq Nat \X Nat /\ IsFiniteSet(lg)
    BY Zenon DEF PageLogs
<1>1. \A l \in lg : l[1] \in Nat /\ TxOf(l) \in Nat
    <2> SUFFICES ASSUME NEW l \in lg PROVE l[1] \in Nat /\ TxOf(l) \in Nat
        BY Zenon
    <2>1. l[1] \in Nat /\ l[2] + 1 \in Nat
        BY <1>0
    <2>2. (l[2] + 1) \div 2 \in Nat
        BY <2>1, DivBounds
    <2> QED BY <2>1, <2>2 DEF TxOf
<1> DEFINE g == [l \in lg |-> IF w = "blocks" THEN l[1] ELSE TxOf(l)]
<1>2. g \in Surjection(lg, Want(lg, w))
    BY Zenon DEF Surjection, Want
<1> HIDE DEF g
<1>3. IsFiniteSet(Want(lg, w))
    BY <1>0, <1>2, FS_Surjection, Zenon
<1> QED BY <1>1, <1>3, Zenon DEF Want

LEMMA WantOf ==
    ASSUME NEW f
    PROVE  heights(f) = Want(logs[f], "blocks") /\ tx_ids(f) = Want(logs[f], "receipts")
BY Zenon DEF heights, tx_ids, Want

\* Every item is in a chunk, and the chunks hold nothing else.
LEMMA ChunksCover ==
    ASSUME NEW items
    PROVE  /\ \A c \in Chunks(items) : c \subseteq items
           /\ \A x \in items : \E c \in Chunks(items) : x \in c
<1> DEFINE rank(x) == Cardinality({y \in items : y < x})
           chunk(x) == {y \in items : rank(y) \div max_batch = rank(x) \div max_batch}
<1>1. Chunks(items) = {chunk(x) : x \in items}
    BY Zenon DEF Chunks
<1> HIDE DEF rank
<1>2. \A x \in items : chunk(x) \subseteq items /\ x \in chunk(x)
    BY Zenon
<1> HIDE DEF chunk
<1> QED BY <1>1, <1>2, Zenon

LEMMA FetchAuxKeeps ==
    ASSUME Typed, AllFine, NEW f \in Fetches, fetch_aux(f)
    PROVE  Typed' /\ AllFine'
<1> DEFINE lg == logs[f]
           chunks(w) == {[what |-> w, items |-> c] : c \in Chunks(Want(lg, w))}
           td == chunks("blocks") \cup chunks("receipts")
<1>1. /\ pc[f] = "records" /\ CallsOf(f) = {} /\ pending[f] = <<>>
      /\ UNCHANGED <<pending, logs, aux, calls, kind, ledger, sent, density_milli>>
    BY Zenon DEF fetch_aux, spend
<1>2. Fine(f, "records", <<>>, lg, todo[f], aux[f], {})
    BY <1>1, ZenonT(30) DEF AllFine
<1>3. aux[f] = NoAux /\ todo[f] = {} /\ Whole(f, lg, RangeOf[f].hi + 1)
    BY <1>2, Zenon DEF Fine, Walk, Stack
<1>4. NoAux.blocks = {} /\ NoAux.receipts = {} /\ NoAux.nulls = {}
      /\ NoAux["blocks"] = {} /\ NoAux["receipts"] = {}
    BY ZenonT(30) DEF NoAux
<1>5. \A i \in calls' \ calls : FALSE
    BY <1>1, Zenon
<1>6. CASE lg = {}
    <2>1. pc' = [pc EXCEPT ![f] = "ok"] /\ todo' = todo
        BY <1>6, ZenonT(30) DEF fetch_aux
    <2>2. Want(lg, "blocks") = {} /\ Want(lg, "receipts") = {}
        BY <1>6, Zenon DEF Want
    <2>3. Fine(f, "ok", <<>>, lg, {}, NoAux, {})
        <3>1. Complete(f, lg, NoAux)
            BY <2>2, <1>3, <1>4, Zenon DEF Complete
        <3> QED BY <3>1, ZenonT(30) DEF Fine
    <2>4. Fine(f, pc'[f], pending'[f], logs'[f], todo'[f], aux'[f], CallsOf(f)')
        BY <2>1, <2>3, <1>1, <1>3, ZenonT(30) DEF Typed, CallsOf
    <2>5. Typed'
        BY <2>1, <1>1, Zenon DEF Typed
    <2> QED BY <2>1, <2>4, <2>5, <1>1, OneFetch, Zenon DEF Typed
<1>7. CASE lg # {}
    <2>1. pc' = [pc EXCEPT ![f] = "aux"] /\ todo' = [todo EXCEPT ![f] = td]
        BY <1>7, WantOf, ZenonT(30) DEF fetch_aux
    <2>2. \A d \in td : d \in Chunk /\ d.what \in Lookups /\ d.items \subseteq Want(lg, d.what)
        <3> SUFFICES ASSUME NEW w \in Lookups, NEW d \in chunks(w)
                     PROVE  d \in Chunk /\ d.what = w /\ d.items \subseteq Want(lg, w)
            BY Zenon DEF Lookups
        <3>1. PICK c \in Chunks(Want(lg, w)) : d = [what |-> w, items |-> c]
            BY Zenon
        <3>2. lg \in PageLogs
            BY Zenon DEF Typed
        <3>3. c \subseteq Want(lg, w) /\ c \in SUBSET Nat /\ IsFiniteSet(c)
            <4> HIDE DEF lg
            <4>1. c \subseteq Want(lg, w)
                BY ChunksCover, Zenon
            <4>2. Want(lg, w) \subseteq Nat /\ IsFiniteSet(Want(lg, w))
                BY <3>2, WantType, Zenon
            <4> QED BY <4>1, <4>2, FS_Subset, Zenon
        <3> QED BY <3>1, <3>3, Zenon DEF Chunk
    <2>3. \A w \in Lookups : \A x \in Want(lg, w) : \E d \in td : d.what = w /\ x \in d.items
        <3> SUFFICES ASSUME NEW w \in Lookups, NEW x \in Want(lg, w)
                     PROVE  \E d \in td : d.what = w /\ x \in d.items
            BY Zenon
        <3>1. PICK c \in Chunks(Want(lg, w)) : x \in c
            BY ChunksCover, Zenon
        <3>2. [what |-> w, items |-> c] \in td
            BY Zenon DEF Lookups
        <3> QED BY <3>1, <3>2, ZenonT(30)
    <2> HIDE DEF td
    <2>4. Lookup(f, lg, td, NoAux, {})
        BY <2>2, <2>3, <1>3, <1>4, Zenon DEF Lookup, Lookups
    <2>5. Fine(f, "aux", <<>>, lg, td, NoAux, {})
        BY <2>4, Zenon DEF Fine
    <2>6. Fine(f, pc'[f], pending'[f], logs'[f], todo'[f], aux'[f], CallsOf(f)')
        BY <2>1, <2>5, <1>1, <1>3, ZenonT(30) DEF Typed, CallsOf
    <2>7. Typed'
        BY <2>1, <2>2, <1>1, Zenon DEF Typed
    <2> QED BY <2>1, <2>6, <2>7, <1>1, OneFetch, Zenon DEF Typed
<1> QED BY <1>6, <1>7, Zenon

LEMMA BatchChunkKeeps ==
    ASSUME Typed, AllFine, NEW f \in Fetches, batch_chunk(f)
    PROVE  Typed' /\ AllFine'
<1>1. PICK d \in todo[f] : /\ todo' = [todo EXCEPT ![f] = @ \ {d}]
                           /\ calls' = calls \cup {Request(f, d.what, 0, 0, d.items, 0)}
    BY Zenon DEF batch_chunk
<1>2. pc[f] = "aux" /\ UNCHANGED <<pc, pending, logs, aux, kind, ledger, sent, density_milli>>
    BY Zenon DEF batch_chunk, spend
<1>3. Lookup(f, logs[f], todo[f], aux[f], CallsOf(f))
    BY <1>2, Zenon DEF AllFine, Fine
<1>4. d.what \in Lookups /\ d.items \in SUBSET Nat /\ IsFiniteSet(d.items) /\ kind \in NodeKinds
    BY DEF Typed, Chunk
<1>5. PICK what \in Lookups \cup {"logs"}, items \in SUBSET Nat : what = d.what /\ items = d.items
    BY <1>4, Zenon
<1>6. PICK k : k = Request(f, what, 0, 0, items, 0)
    BY Zenon
<1>7. IsFiniteSet(items)
    BY <1>4, <1>5, Zenon
<1>8. k \in Call /\ k.f = f /\ k.what = what /\ k.items = items
    BY <1>4, <1>6, <1>7, RequestType
<1>9. k.what = d.what /\ k.items = d.items /\ calls' = calls \cup {k}
    BY <1>1, <1>5, <1>6, <1>8, Zenon
<1>10. CallsOf(f)' = CallsOf(f) \cup {k} /\ todo'[f] = todo[f] \ {d}
    BY <1>1, <1>8, <1>9, Zenon DEF CallsOf, Typed
<1>11. Lookup(f, logs[f], todo[f] \ {d}, aux[f], CallsOf(f) \cup {k})
    BY <1>3, <1>9, SMTT(20) DEF Lookup
<1>12. Fine(f, "aux", pending[f], logs[f], todo[f] \ {d}, aux[f], CallsOf(f) \cup {k})
    BY <1>11, Zenon DEF Fine
<1>13. Fine(f, pc'[f], pending'[f], logs'[f], todo'[f], aux'[f], CallsOf(f)')
    BY <1>2, <1>10, <1>12, Zenon
<1>14. Typed'
    <2>1. calls' \subseteq Call
        BY <1>8, <1>9, Zenon DEF Typed
    <2> QED BY <2>1, <1>1, <1>2, Zenon DEF Typed
<1>15. (\A i \in calls' \ calls : i.f = f) /\ \A i \in calls \ calls' : i.f = f
    BY <1>8, <1>9, Zenon
<1> QED BY <1>1, <1>2, <1>13, <1>14, <1>15, OneFetch, ZenonT(30) DEF Typed

LEMMA BatchAnswerKeeps ==
    ASSUME Typed, AllFine, NEW k \in calls, BatchAnswer(k)
    PROVE  Typed' /\ AllFine'
<1> DEFINE f == k.f
           ax == aux[f]
<1>1. PICK nulls \in SUBSET k.items :
        aux' = [aux EXCEPT ![k.f][k.what] = @ \cup (k.items \ nulls), ![k.f].nulls = @ \cup nulls]
    BY Zenon DEF BatchAnswer
<1>2. /\ k.what \in Lookups /\ calls' = calls \ {k}
      /\ UNCHANGED <<pc, pending, logs, todo, kind, ledger, sent, density_milli>>
    BY Zenon DEF BatchAnswer, spend, Lookups
<1>3. f \in Fetches /\ k \in CallsOf(f) /\ k.items \in SUBSET Nat /\ ax \in Answers
      /\ pc[f] \in {"idle", "records", "aux", "ok", "err"}
    BY Zenon DEF Typed, Call, CallsOf
<1>4. Fine(f, pc[f], pending[f], logs[f], todo[f], ax, CallsOf(f))
    BY <1>3, Zenon DEF AllFine
<1>5. pc[f] = "aux"
    BY <1>2, <1>3, <1>4, ZenonT(30) DEF Fine, Walk, Lookups
<1>6. Lookup(f, logs[f], todo[f], ax, CallsOf(f))
    BY <1>4, <1>5, Zenon DEF Fine
<1>7. CallsOf(f)' = CallsOf(f) \ {k}
    BY <1>2, Zenon DEF CallsOf
<1> DEFINE new == [ax EXCEPT ![k.what] = @ \cup (k.items \ nulls), !.nulls = @ \cup nulls]
<1>8. /\ new \in Answers /\ new.nulls = ax.nulls \cup nulls
      /\ \A w \in Lookups : new[w] = IF w = k.what THEN ax[w] \cup (k.items \ nulls) ELSE ax[w]
    BY <1>2, <1>3, ZenonT(30) DEF Answers, Lookups
<1>9. aux' = [aux EXCEPT ![f] = new]
    BY <1>1, <1>2, <1>3, ZenonT(30) DEF Typed, Answers, Lookups
<1> HIDE DEF new
<1>10. k.items \subseteq Want(logs[f], k.what)
    BY <1>3, <1>6, Zenon DEF Lookup
<1>11. Lookup(f, logs[f], todo[f], new, CallsOf(f) \ {k})
    <2> DEFINE lg == logs[f]
               cs == CallsOf(f)
               td == todo[f]
    <2>1. Lookup(f, lg, td, ax, cs)
        BY <1>6, Zenon
    <2> HIDE DEF lg, cs, td, ax
    <2>2. \A w \in Lookups : new[w] \subseteq Want(lg, w)
        BY <2>1, <1>8, <1>10, ZenonT(30) DEF Lookup, lg
    <2>3. new.nulls \subseteq Want(lg, "blocks") \cup Want(lg, "receipts")
        BY <2>1, <1>2, <1>8, <1>10, Zenon DEF Lookup, Lookups, lg
    <2>4. ASSUME NEW w \in Lookups, NEW x \in Want(lg, w)
          PROVE  \/ x \in new[w] \cup new.nulls
                 \/ \E d \in td \cup (cs \ {k}) : d.what = w /\ x \in d.items
        <3>1. CASE x \in ax[w] \cup ax.nulls
            BY <3>1, <1>8, ZenonT(30)
        <3>2. CASE w = k.what /\ x \in k.items
            BY <3>2, <1>8, ZenonT(30)
        <3>3. CASE \E d \in td \cup cs : d # k /\ d.what = w /\ x \in d.items
            BY <3>3, Zenon
        <3>4. x \in ax[w] \cup ax.nulls \/ \E d \in td \cup cs : d.what = w /\ x \in d.items
            BY <2>1, Zenon DEF Lookup
        <3>5. ASSUME NEW d \in td \cup cs, d.what = w, x \in d.items
              PROVE  \/ w = k.what /\ x \in k.items
                     \/ \E e \in td \cup cs : e # k /\ e.what = w /\ x \in e.items
            BY <3>5, Zenon
        <3> QED BY <3>1, <3>2, <3>3, <3>4, <3>5, Zenon
    <2>5. Lookup(f, lg, td, new, cs \ {k})
        BY <2>1, <2>2, <2>3, <2>4, Zenon DEF Lookup
    <2> QED BY <2>5, Zenon DEF lg, cs, td
<1>12. Fine(f, "aux", pending[f], logs[f], todo[f], new, CallsOf(f) \ {k})
    BY <1>11, Zenon DEF Fine
<1>13. Fine(f, pc'[f], pending'[f], logs'[f], todo'[f], aux'[f], CallsOf(f)')
    BY <1>2, <1>3, <1>5, <1>7, <1>9, <1>12, Zenon DEF Typed
<1>14. Typed'
    BY <1>2, <1>8, <1>9, ZenonT(30) DEF Typed
<1>15. (\A i \in calls' \ calls : i.f = f) /\ \A i \in calls \ calls' : i.f = f
    BY <1>2, Zenon
<1> QED BY <1>2, <1>3, <1>9, <1>13, <1>14, <1>15, OneFetch, ZenonT(30) DEF Typed

LEMMA AuxDoneKeeps ==
    ASSUME Typed, AllFine, NEW f \in Fetches, AuxDone(f)
    PROVE  Typed' /\ AllFine'
<1> DEFINE p == IF aux[f].nulls \cap heights(f) = {} THEN "ok" ELSE "err"
<1>1. /\ pc[f] = "aux" /\ todo[f] = {} /\ CallsOf(f) = {} /\ pc' = [pc EXCEPT ![f] = p]
      /\ UNCHANGED <<pending, logs, todo, aux, calls, kind, ledger, sent, density_milli>>
    BY Zenon DEF AuxDone, spend
<1>2. Lookup(f, logs[f], {}, aux[f], {})
    BY <1>1, Zenon DEF AllFine, Fine
<1>3. aux[f]["blocks"] = aux[f].blocks /\ aux[f]["receipts"] = aux[f].receipts
    BY Zenon
<1>4. p = "ok" => Complete(f, logs[f], aux[f])
    <2> SUFFICES ASSUME aux[f].nulls \cap heights(f) = {} PROVE Complete(f, logs[f], aux[f])
        BY Zenon
    <2>1. \A w \in {"blocks", "receipts"} :
             aux[f][w] \subseteq Want(logs[f], w) /\ Want(logs[f], w) \subseteq aux[f][w] \cup aux[f].nulls
        BY <1>2, Zenon DEF Lookup, Lookups
    <2>2. Whole(f, logs[f], RangeOf[f].hi + 1)
          /\ aux[f].nulls \subseteq Want(logs[f], "blocks") \cup Want(logs[f], "receipts")
        BY <1>2, Zenon DEF Lookup
    <2> QED BY <1>3, <2>1, <2>2, WantOf, ZenonT(30) DEF Complete
<1>5. p \in {"ok", "err"}
    BY Zenon
<1> HIDE DEF p
<1>6. Fine(f, p, pending[f], logs[f], {}, aux[f], {})
    BY <1>4, <1>5, Zenon DEF Fine
<1>7. Fine(f, pc'[f], pending'[f], logs'[f], todo'[f], aux'[f], CallsOf(f)')
    BY <1>1, <1>6, ZenonT(30) DEF Typed, CallsOf
<1>8. Typed'
    BY <1>1, <1>5, Zenon DEF Typed
<1> QED BY <1>1, <1>7, <1>8, OneFetch, Zenon DEF Typed

-----------------------------------------------------------------------------
(* Draws, and the ledger.                                                  *)

LEMMA DivAdd ==
    ASSUME NEW a \in Nat, NEW b \in Nat, NEW d \in Nat \ {0}
    PROVE  /\ a \div d + b \div d <= (a + b) \div d
           /\ (a + b) \div d <= a \div d + b \div d + 1
<1> DEFINE x == a \div d
           y == b \div d
           z == (a + b) \div d
<1>1. x \in Nat /\ x * d <= a /\ a < x * d + d
    BY DivBounds, Zenon
<1>2. y \in Nat /\ y * d <= b /\ b < y * d + d
    BY DivBounds, Zenon
<1>3. z \in Nat /\ z * d <= a + b /\ a + b < z * d + d
    <2>1. a + b \in Nat
        OBVIOUS
    <2> QED BY <2>1, DivBounds, Zenon
<1> HIDE DEF x, y, z
<1>4. (x + y) * d = x * d + y * d /\ (x + y + 2) * d = x * d + y * d + d + d /\ (z + 1) * d = z * d + d
    BY <1>1, <1>2, <1>3
<1>5. (x + y) * d < (z + 1) * d /\ z * d < (x + y + 2) * d
    BY <1>1, <1>2, <1>3, <1>4
<1>6. \A m, n \in Nat : m * d < n * d => m < n
    <2> SUFFICES ASSUME NEW m \in Nat, NEW n \in Nat, n <= m PROVE n * d <= m * d
        OBVIOUS
    <2>1. m * d = n * d + (m - n) * d /\ (m - n) * d \in Nat /\ n * d \in Nat
        OBVIOUS
    <2> QED BY <2>1
<1>7. x + y < z + 1 /\ z < x + y + 2
    <2>1. x + y \in Nat /\ z + 1 \in Nat /\ x + y + 2 \in Nat
        BY <1>1, <1>2, <1>3
    <2> QED BY <2>1, <1>3, <1>5, <1>6, Zenon
<1>8. x + y <= z /\ z <= x + y + 1
    BY <1>1, <1>2, <1>3, <1>7
<1> QED BY <1>8, Zenon DEF x, y, z

LEMMA RateType ==
    ASSUME NEW k \in NodeKinds
    PROVE  \E r \in Nat, d \in Nat \ {0} : \A units \in Nat : Priced(units, rate[k]) = (units * r) \div d
<1>1. rate[k] \in {<<12, 10>>, <<6, 10>>, <<0, 1>>}
    BY KindCases DEF rate
<1>2. rate[k][1] \in Nat /\ Greater(rate[k][2], 1) \in Nat \ {0}
    BY <1>1 DEF Greater
<1> QED BY <1>2, ZenonT(30) DEF Priced

\* A metered call adds its price, rounded down, to one figure, and its units
\* to what the other one is computed from.
LEMMA MeterAgrees ==
    ASSUME Typed, MoneyAgrees, NEW call, units_of(kind, call) \in Nat, meter(call), kind' = kind
    PROVE  MoneyAgrees' /\ ledger' \in [units : Nat, micro_usd : Nat] /\ sent' \in Nat
<1> DEFINE u == units_of(kind, call)
           total == ledger.units
           paid == ledger.micro_usd
           price == rate[kind]
<1>1. u \in Nat
    OBVIOUS
<1>2. total \in Nat /\ paid \in Nat /\ sent \in Nat /\ kind \in NodeKinds
    BY Zenon DEF Typed
<1>3. PICK r \in Nat, d \in Nat \ {0} : \A units \in Nat : Priced(units, price) = (units * r) \div d
    BY <1>2, RateType, ZenonT(30)
<1>4. /\ sent' = sent + 1 /\ ledger' = [units |-> total + u, micro_usd |-> paid + Priced(u, price)]
    BY Zenon DEF meter, record, cost
<1>5. Priced(u, price) = (u * r) \div d
    BY <1>1, <1>3, Zenon
<1>6. u * r \in Nat /\ total * r \in Nat /\ (total + u) * r = total * r + u * r /\ total + u \in Nat
    BY <1>1, <1>2
<1>7. \A units \in Nat : Greater(units - Greater(NoQuota, 0), 0) = units
    BY DEF Greater, NoQuota
<1>8. paid <= (total * r) \div d /\ (total * r) \div d <= paid + sent
    BY <1>2, <1>3, <1>7, ZenonT(30) DEF MoneyAgrees, billable_micro_usd
<1>9. (u * r) \div d \in Nat /\ (total * r) \div d \in Nat /\ (total * r + u * r) \div d \in Nat
    <2>1. total * r + u * r \in Nat
        BY <1>6
    <2> QED BY <2>1, <1>6, DivBounds, Zenon
<1>10. /\ (total * r) \div d + (u * r) \div d <= (total * r + u * r) \div d
       /\ (total * r + u * r) \div d <= (total * r) \div d + (u * r) \div d + 1
    BY <1>6, DivAdd, Zenon
<1>11. ledger'.units = total + u /\ ledger'.micro_usd = paid + (u * r) \div d
       /\ ledger' \in [units : Nat, micro_usd : Nat]
    BY <1>1, <1>2, <1>4, <1>5, <1>9
<1>12. Priced(ledger'.units, price) = (total * r + u * r) \div d
    BY <1>3, <1>6, <1>11, Zenon
<1>13. billable_micro_usd(ledger, NoQuota, rate[kind])' = (total * r + u * r) \div d
    BY <1>6, <1>7, <1>11, <1>12, Zenon DEF billable_micro_usd
<1>14. MoneyAgrees'
    <2> DEFINE b0 == (total * r) \div d
               b1 == (u * r) \div d
               b2 == (total * r + u * r) \div d
    <2>1. b0 \in Nat /\ b1 \in Nat /\ b2 \in Nat /\ b0 + b1 <= b2 /\ b2 <= b0 + b1 + 1
          /\ paid <= b0 /\ b0 <= paid + sent
        BY <1>8, <1>9, <1>10, Zenon
    <2> HIDE DEF b0, b1, b2
    <2>2. paid + b1 <= b2 /\ b2 <= paid + b1 + (sent + 1)
        BY <2>1, <1>2
    <2> QED BY <2>2, <1>4, <1>11, <1>13, Zenon DEF MoneyAgrees, b1, b2
<1> QED BY <1>2, <1>4, <1>11, <1>14

LEMMA MoneyStays ==
    ASSUME MoneyAgrees, UNCHANGED <<kind, ledger, sent>>
    PROVE  MoneyAgrees'
BY Zenon DEF MoneyAgrees

LEMMA DrawsKeep ==
    ASSUME IInv, NEW k \in calls, acquire_cu(k) \/ acquire(k)
    PROVE  IInv'
<1>0. Typed /\ AllFine /\ MoneyAgrees /\ LoopFine /\ k \in Call
    BY Zenon DEF IInv, Typed
<1>1. UNCHANGED <<pc, pending, logs, todo, aux, kind, density_milli>>
    BY Zenon DEF acquire_cu, acquire, fetch, spend
<1>2. PICK j \in Call : /\ calls' = (calls \ {k}) \cup {j} /\ j.f = k.f /\ j.what = k.what
                        /\ j.lo = k.lo /\ j.hi = k.hi /\ j.items = k.items
    <2>1. CASE acquire_cu(k)
        <3> DEFINE take == Burst(k.need)
                   j == [k EXCEPT !.need = @ - take]
        <3>1. calls' = (calls \ {k}) \cup {j}
            BY <2>1, Zenon DEF acquire_cu
        <3>2. k.need - take \in Int
            BY <1>0, PlanAssumption DEF Call, Burst
        <3> HIDE DEF take
        <3>3. j \in Call /\ j.f = k.f /\ j.what = k.what /\ j.lo = k.lo /\ j.hi = k.hi /\ j.items = k.items
            BY <1>0, <3>2, Zenon DEF Call
        <3> QED BY <3>1, <3>3, ZenonT(30)
    <2>2. CASE acquire(k)
        <3> DEFINE j == [k EXCEPT !.permits = @ - 1]
        <3>1. calls' = (calls \ {k}) \cup {j}
            BY <2>2, Zenon DEF acquire
        <3>2. j \in Call /\ j.f = k.f /\ j.what = k.what /\ j.lo = k.lo /\ j.hi = k.hi /\ j.items = k.items
            BY <1>0 DEF Call
        <3> QED BY <3>1, <3>2, ZenonT(30)
    <2> QED BY <2>1, <2>2, Zenon
<1>3. calls' \subseteq Call /\ AllFine'
    BY <1>0, <1>1, <1>2, ReissueKeeps, Zenon
<1>4. MoneyAgrees' /\ ledger' \in [units : Nat, micro_usd : Nat] /\ sent' \in Nat
    <2>1. CASE enter(k)
        <3>1. units_of(kind, CallOf(k.what, k.items)) \in Nat
            BY <1>0, UnitsType, ZenonT(30) DEF Typed, Call
        <3> QED BY <3>1, <2>1, <1>0, <1>1, MeterAgrees, Zenon DEF enter
    <2>2. CASE UNCHANGED <<ledger, sent>>
        BY <2>2, <1>0, <1>1, MoneyStays, Zenon DEF Typed
    <2>3. enter(k) \/ UNCHANGED <<ledger, sent>>
        BY Zenon DEF acquire_cu, acquire, spend
    <2> QED BY <2>1, <2>2, <2>3, Zenon
<1>5. Typed'
    BY <1>0, <1>1, <1>3, <1>4, Zenon DEF Typed
<1>6. LoopFine'
    BY <1>0, <1>1, Zenon DEF LoopFine, acquire_cu, acquire, loop
<1> QED BY <1>3, <1>4, <1>5, <1>6, Zenon DEF IInv

LEMMA InitInv == Init => IInv
<1> SUFFICES ASSUME Init PROVE IInv
    BY Zenon
<1>1. {} \in PageLogs /\ NoAux \in Answers /\ <<>> \in Seq([lo : Nat, hi : Nat])
    <2>1. {} \in PageLogs
        BY FS_EmptySet, Zenon DEF PageLogs
    <2>2. NoAux \in Answers
        BY Zenon DEF NoAux, Answers
    <2>3. <<>> \in Seq([lo : Nat, hi : Nat])
        OBVIOUS
    <2> QED BY <2>1, <2>2, <2>3, Zenon
<1>2. Typed
    BY <1>1, Zenon DEF Init, Typed, EmptyLedger
<1>3. AllFine
    <2> SUFFICES ASSUME NEW f \in Fetches
                 PROVE  Fine(f, pc[f], pending[f], logs[f], todo[f], aux[f], CallsOf(f))
        BY Zenon DEF AllFine
    <2>1. pc[f] = "idle" /\ logs[f] = {} /\ todo[f] = {} /\ aux[f] = NoAux /\ CallsOf(f) = {}
        BY Zenon DEF Init, CallsOf
    <2> QED BY <2>1, Zenon DEF Fine
<1>4. MoneyAgrees
    <2>1. PICK r \in Nat, d \in Nat \ {0} : \A units \in Nat : Priced(units, rate[kind]) = (units * r) \div d
        BY <1>2, RateType, ZenonT(30) DEF Typed
    <2>2. ledger.units = 0 /\ ledger.micro_usd = 0 /\ sent = 0
        BY Zenon DEF Init, EmptyLedger
    <2>3. Priced(0, rate[kind]) = 0
        <3>1. 0 * r = 0 /\ 0 \div d = 0
            OBVIOUS
        <3> QED BY <3>1, <2>1, Zenon
    <2>4. billable_micro_usd(ledger, NoQuota, rate[kind]) = 0
        BY <2>2, <2>3 DEF billable_micro_usd, Greater, NoQuota
    <2> QED BY <2>2, <2>4 DEF MoneyAgrees
<1>5. LoopFine
    BY Zenon DEF Init, LoopFine
<1> QED BY <1>2, <1>3, <1>4, <1>5, Zenon DEF IInv

LEMMA LoopStays ==
    ASSUME LoopFine, UNCHANGED <<kind, loop>>
    PROVE  LoopFine'
BY Zenon DEF LoopFine, loop

\* head, block_hash and subscribe leave the fetches alone.
LEMMA LoopKeeps ==
    ASSUME IInv, head \/ block_hash \/ PollDraw \/ PollSend \/ subscribe
    PROVE  IInv'
<1>0. Typed /\ AllFine /\ MoneyAgrees /\ LoopFine /\ kind \in NodeKinds
    BY Zenon DEF IInv, Typed
<1>1. UNCHANGED <<pc, pending, logs, todo, aux, calls, kind, density_milli>>
    BY Zenon DEF head, block_hash, PollFor, PollDraw, PollSend, subscribe, fetch, spend
<1>2. MoneyAgrees' /\ ledger' \in [units : Nat, micro_usd : Nat] /\ sent' \in Nat
    <2>1. CASE head \/ block_hash \/ PollDraw
        <3>1. UNCHANGED <<kind, ledger, sent>>
            BY <2>1, Zenon DEF head, block_hash, PollFor, PollDraw, spend
        <3> QED BY <3>1, <1>0, MoneyStays, Zenon DEF Typed
    <2>2. CASE PollSend
        <3>1. PICK m \in {"BlockNumber", "BlockByNumber", "LogSubscription"} : m = poll.method
            BY <2>2, <1>0, ZenonT(30) DEF LoopFine, PollSend
        <3>2. meter(RpcCall(m, 1)) /\ units_of(kind, RpcCall(m, 1)) \in Nat
            BY <3>1, <2>2, <1>0, LoopUnits, Zenon DEF PollSend
        <3> QED BY <3>2, <1>0, <1>1, MeterAgrees, Zenon
    <2>3. CASE subscribe
        <3>1. meter(RpcCall("LogSubscription", 1)) /\ units_of(kind, RpcCall("LogSubscription", 1)) \in Nat
            BY <2>3, <1>0, LoopUnits, Zenon DEF subscribe
        <3> QED BY <3>1, <1>0, <1>1, MeterAgrees, Zenon
    <2> QED BY <2>1, <2>2, <2>3, Zenon
<1>3. Typed' /\ AllFine'
    BY <1>0, <1>1, <1>2, Zenon DEF Typed, AllFine, CallsOf
<1>4. LoopFine'
    <2>1. ASSUME NEW m \in {"BlockNumber", "BlockByNumber"}, PollFor(m) PROVE LoopFine'
        <3>1. PICK u \in Nat : u = units_of(kind, RpcCall(m, 1))
            BY <2>1, <1>0, LoopUnits, Zenon
        <3>2. poll' = [method |-> m, need |-> DrawFor(RpcCall(m, 1))] /\ subs' = subs
            BY <2>1, Zenon DEF PollFor
        <3>3. DrawFor(RpcCall(m, 1)) \in Nat /\ DrawFor(RpcCall(m, 1)) <= Greater(u, 1)
            BY <3>1 DEF DrawFor, Greater
        <3>4. PollCost(kind, poll)' = Greater(u, 1)
            BY <3>1, <3>2, <1>1, Zenon DEF PollCost
        <3> QED BY <3>2, <3>3, <3>4, <2>1, <1>0, Zenon DEF LoopFine
    <2>2. CASE PollDraw
        <3>1. PICK b : /\ b = Burst(poll.need) /\ poll.need > 0
                       /\ poll' = [poll EXCEPT !.need = @ - b] /\ subs' = subs
            BY <2>2, Zenon DEF PollDraw
        <3>2. poll # NoPoll
            BY <3>1 DEF NoPoll
        <3>3. PICK m \in {"BlockNumber", "BlockByNumber"}, n \in Nat : poll = [method |-> m, need |-> n]
            BY <3>2, <1>0 DEF LoopFine
        <3>4. n <= PollCost(kind, poll)
            BY <3>2, <3>3, <1>0, Zenon DEF LoopFine
        <3>5. PollCost(kind, poll) \in Nat
            <4>1. units_of(kind, RpcCall(m, 1)) \in Nat /\ poll.method = m
                BY <3>3, <1>0, LoopUnits, Zenon
            <4> QED BY <4>1, Zenon DEF PollCost, Greater
        <3>6. n - b \in Nat /\ n - b <= PollCost(kind, poll)
            BY <3>1, <3>3, <3>4, <3>5, PlanAssumption DEF Burst
        <3>7. poll' = [method |-> m, need |-> n - b]
            BY <3>1, <3>3, Zenon
        <3>8. PollCost(kind, poll)' = PollCost(kind, poll)
            BY <3>3, <3>7, <1>1, Zenon DEF PollCost
        <3>9. /\ poll' \in [method : {"BlockNumber", "BlockByNumber"}, need : Nat]
              /\ poll'.need = n - b
            BY <3>6, <3>7, Zenon
        <3> QED BY <3>1, <3>6, <3>8, <3>9, <1>0, Zenon DEF LoopFine
    <2>3. CASE PollSend
        BY <2>3, <1>0, Zenon DEF LoopFine, PollSend
    <2>4. CASE subscribe
        <3>1. poll' = poll /\ subs' = subs + 1 /\ subs + 1 \in Nat
            BY <2>4, <1>0 DEF subscribe, LoopFine
        <3> QED BY <3>1, <1>0, <1>1, Zenon DEF LoopFine
    <2> QED BY <2>1, <2>2, <2>3, <2>4, Zenon DEF head, block_hash
<1> QED BY <1>2, <1>3, <1>4, Zenon DEF IInv

LEMMA Inductive == IInv /\ [Next]_vars => IInv'
<1> SUFFICES ASSUME IInv, [Next]_vars PROVE IInv'
    BY Zenon
<1>0. Typed /\ AllFine /\ MoneyAgrees /\ LoopFine
    BY Zenon DEF IInv
<1>1. ASSUME NEW f \in Fetches, FetchStep(f) PROVE IInv'
    <2>1. Typed' /\ AllFine'
        BY <1>0, <1>1, FetchRangeKeeps, PopSpanKeeps, FetchAuxKeeps, BatchChunkKeeps, AuxDoneKeeps, Zenon
        DEF FetchStep
    <2>2. UNCHANGED <<kind, ledger, sent, loop>>
        BY <1>1, Zenon DEF FetchStep, fetch_range, PopSpan, fetch_aux, batch_chunk, AuxDone, spend
    <2> QED BY <2>1, <2>2, <1>0, MoneyStays, LoopStays, Zenon DEF IInv
<1>2. ASSUME NEW k \in calls, acquire_cu(k) \/ acquire(k) PROVE IInv'
    BY <1>2, DrawsKeep, Zenon
<1>3. ASSUME NEW k \in calls, GetLogsPage(k) \/ GetLogsRefused(k) \/ BatchAnswer(k) \/ TransportError(k)
      PROVE  IInv'
    <2>1. Typed' /\ AllFine'
        BY <1>0, <1>3, GetLogsPageKeeps, ErrorsKeep, BatchAnswerKeeps, Zenon
    <2>2. UNCHANGED <<kind, ledger, sent, loop>>
        BY <1>3, Zenon DEF GetLogsPage, GetLogsRefused, BatchAnswer, TransportError, spend
    <2> QED BY <2>1, <2>2, <1>0, MoneyStays, LoopStays, Zenon DEF IInv
<1>4. CASE Refill \/ UNCHANGED vars
    <2>1. UNCHANGED <<pc, pending, logs, todo, aux, calls, kind, ledger, sent, density_milli, loop>>
        BY <1>4, Zenon DEF Refill, vars, fetch, spend
    <2>2. Typed' /\ AllFine'
        BY <2>1, <1>0, Zenon DEF Typed, AllFine, CallsOf
    <2> QED BY <2>1, <2>2, <1>0, MoneyStays, LoopStays, Zenon DEF IInv
<1>5. CASE head \/ block_hash \/ PollDraw \/ PollSend \/ subscribe
    BY <1>5, LoopKeeps, Zenon
<1> QED BY <1>1, <1>2, <1>3, <1>4, <1>5, Zenon DEF Next, RequestStep

LEMMA Invariant == Spec => []IInv
<1> QED BY InitInv, Inductive, PTL DEF Spec

-----------------------------------------------------------------------------
LEMMA WholeIs ==
    ASSUME NEW f, NEW b
    PROVE  Whole(f, logs[f], b) <=> WholeBelow(f, b)
BY Zenon DEF Whole, WholeBelow

LEMMA WalkIsUpwards == IInv => WalksUpwards
<1> SUFFICES ASSUME IInv, NEW f \in Fetches, pc[f] = "records"
             PROVE  LET spans == pending[f] \o
                            (IF InFlight(f, "logs") = {} THEN <<>>
                             ELSE LET k == CHOOSE k \in InFlight(f, "logs") : TRUE
                                  IN  <<[lo |-> k.lo, hi |-> k.hi]>>)
                    IN  /\ WholeBelow(f, Frontier(f))
                        /\ spans # <<>> => spans[1].hi = RangeOf[f].hi
                        /\ \A i \in DOMAIN spans : spans[i].lo <= spans[i].hi
                        /\ \A i \in 1 .. Len(spans) - 1 : spans[i].lo = spans[i + 1].hi + 1
    BY ZenonT(30) DEF WalksUpwards
<1> DEFINE s == pending[f]
           n == Len(s)
           cs == CallsOf(f)
<1>1. Walk(f, s, logs[f], cs)
    BY Zenon DEF IInv, AllFine, Fine
<1>2. \A r \in Spans(f) : r.lo \in Nat /\ r.hi \in Nat /\ r.lo <= r.hi
    BY Zenon DEF Spans
<1>3. InFlight(f, "logs") = cs
    BY <1>1, ZenonT(30) DEF Walk, InFlight, CallsOf
<1>4. CASE cs = {}
    <2>1. PICK b \in Nat : Stack(f, s, b) /\ Whole(f, logs[f], b)
        BY <1>1, <1>4, Zenon DEF Walk
    <2>2. Frontier(f) = b
        BY <1>3, <1>4, <2>1, Zenon DEF Frontier, Stack
    <2>3. s \in Seq(Spans(f)) /\ s \o <<>> = s /\ DOMAIN s = 1 .. n /\ n \in Nat
        BY <2>1 DEF Stack
    <2>4. WholeBelow(f, Frontier(f))
        BY <2>1, <2>2, WholeIs, Zenon
    <2>5. /\ s # <<>> => s[1].hi = RangeOf[f].hi
          /\ \A i \in DOMAIN s : s[i].lo <= s[i].hi
          /\ \A i \in 1 .. Len(s) - 1 : s[i].lo = s[i + 1].hi + 1
        <3>1. \A i \in DOMAIN s : s[i] \in Spans(f)
            BY <2>3, SMTT(30)
        <3> QED BY <3>1, <1>2, <2>1, Zenon DEF Stack
    <2> QED BY <1>3, <1>4, <2>3, <2>4, <2>5, ZenonT(30)
<1>5. ASSUME NEW k \in cs PROVE cs = {k} /\ (CHOOSE j \in InFlight(f, "logs") : TRUE) = k
    BY <1>1, <1>3, Zenon DEF Walk
<1>6. ASSUME NEW k \in cs
      PROVE  LET u == s \o <<[lo |-> k.lo, hi |-> k.hi]>>
             IN  /\ WholeBelow(f, Frontier(f))
                 /\ u[1].hi = RangeOf[f].hi
                 /\ \A i \in DOMAIN u : u[i].lo <= u[i].hi
                 /\ \A i \in 1 .. Len(u) - 1 : u[i].lo = u[i + 1].hi + 1
    <2> DEFINE top == [lo |-> k.lo, hi |-> k.hi]
               u == s \o <<top>>
    <2>1. top \in Spans(f) /\ Stack(f, s, k.hi + 1) /\ Whole(f, logs[f], k.lo)
          /\ top.lo = k.lo /\ top.hi = k.hi
        BY <1>1, <1>6, Zenon DEF Walk
    <2>2. Frontier(f) = k.lo
        BY <1>3, <1>5, <1>6, Zenon DEF Frontier
    <2>3. WholeBelow(f, Frontier(f))
        BY <2>1, <2>2, WholeIs, Zenon
    <2>4. s \in Seq(Spans(f)) /\ n \in Nat
        BY <2>1, SMTT(30) DEF Stack
    <2> HIDE DEF top
    <2>5. /\ u \in Seq(Spans(f)) /\ Len(u) = n + 1 /\ DOMAIN u = 1 .. n + 1 /\ u[n + 1] = top
          /\ \A i \in 1 .. n : u[i] = s[i]
        BY <2>1, <2>4, SMTT(30)
    <2> HIDE DEF u
    <2>6. u[1].hi = RangeOf[f].hi
        <3>1. CASE n = 0
            <4>1. s = <<>> /\ k.hi \in Nat /\ k.hi + 1 = RangeOf[f].hi + 1
                BY <3>1, <2>1, <2>4, <1>2, SMTT(30) DEF Stack
            <4> QED BY <4>1, <3>1, <2>1, <2>5, RangeType, SMTT(30)
        <3>2. CASE n # 0
            BY <3>2, <2>1, <2>4, <2>5 DEF Stack
        <3> QED BY <3>1, <3>2, Zenon
    <2>7. \A i \in DOMAIN u : u[i].lo <= u[i].hi
        BY <1>2, <2>5
    <2>8. \A i \in 1 .. n : u[i].lo = u[i + 1].hi + 1
        <3> SUFFICES ASSUME NEW i \in 1 .. n PROVE u[i].lo = u[i + 1].hi + 1
            BY Zenon
        <3>1. CASE i = n
            BY <3>1, <2>1, <2>4, <2>5, SMTT(30) DEF Stack
        <3>2. CASE i # n
            <4>1. i \in 1 .. n - 1 /\ i + 1 \in 1 .. n
                BY <3>2, <2>4
            <4> QED BY <4>1, <2>1, <2>5, Zenon DEF Stack
        <3> QED BY <3>1, <3>2, Zenon
    <2>9. \A i \in 1 .. Len(u) - 1 : u[i].lo = u[i + 1].hi + 1
        BY <2>4, <2>5, <2>8
    <2> QED BY <2>3, <2>6, <2>7, <2>9, ZenonT(30) DEF u, top
<1> QED BY <1>3, <1>4, <1>5, <1>6, ZenonT(30)

\* fetch_records walks its range upwards: with every page size, however often
\* a span overflows, a page is truncated by the provider or a request is
\* retried, and whatever the other fetches on the source do, the logs below
\* the lowest span in hand are all there and the spans leave no gap.
THEOREM UpwardsWithoutGap == Spec => []WalksUpwards
<1> QED BY WalkIsUpwards, Invariant, PTL

\* A fetch_range that returns Ok has the logs of its whole range, the header of
\* each of their blocks and the receipt of each of their transactions that the
\* provider has: no chunk of fetch_aux is dropped, in whatever order and with
\* whatever concurrency the batches finish.
THEOREM OkMeansComplete == Spec => []OkIsComplete
<1>1. IInv => OkIsComplete
    <2> SUFFICES ASSUME IInv, NEW f \in Fetches, pc[f] = "ok"
                 PROVE  /\ WholeBelow(f, RangeOf[f].hi + 1)
                        /\ aux[f].blocks = heights(f)
                        /\ aux[f].receipts \cup aux[f].nulls = tx_ids(f)
        BY Zenon DEF OkIsComplete
    <2>1. Complete(f, logs[f], aux[f])
        BY Zenon DEF IInv, AllFine, Fine
    <2> QED BY <2>1, WholeIs, WantOf, Zenon DEF Complete
<1> QED BY <1>1, Invariant, PTL

\* The SpendLedger adds up micro-USD call by call, each rounded down, and its
\* billable figure is rounded once: under every price list they differ by less
\* than one micro-USD per request, in the right direction.
THEOREM FiguresAgree == Spec => []MoneyAgrees
<1>1. IInv => MoneyAgrees
    BY Zenon DEF IInv
<1> QED BY <1>1, Invariant, PTL

-----------------------------------------------------------------------------
(* The compute-unit bucket.                                                *)

\* What a request has to draw before it is sent, and what it has drawn of it
\* while it is not metered; a call costs as much as it has credits.
Full(kd, k) == Greater(units_of(kd, CallOf(k.what, k.items)), 1)
Credit(kd, k) == IF k.permits > 0 THEN Full(kd, k) - k.need ELSE 0
Row(kd, k) == {<<k, i>> : i \in 1 .. Credit(kd, k)}
Credits(kd, cs) == UNION {Row(kd, k) : k \in cs}

\* What head or block_hash has drawn while it is not metered, and what there is
\* for the fetches: all that was drawn besides, and what was metered undrawn.
Held(kd, p) == IF p = NoPoll THEN 0 ELSE PollCost(kd, p) - p.need
SubUnits(kd) == units_of(kd, RpcCall("LogSubscription", 1))
Funds == drawn + subs * SubUnits(kind) - Held(kind, poll)

\* The funds cover what is metered and the credits of the requests that are not.
PaceInv ==
    max_cu_per_sec > 0 =>
        /\ drawn \in Nat
        /\ IsFiniteSet(Credits(kind, calls))
        /\ ledger.units + Cardinality(Credits(kind, calls)) <= Funds
        /\ \A k \in calls : k.need \in 0 .. Full(kind, k)

LEMMA FullType ==
    ASSUME NEW kd \in NodeKinds, NEW k \in Call
    PROVE  /\ units_of(kd, CallOf(k.what, k.items)) \in Nat
           /\ Full(kd, k) \in Nat
           /\ units_of(kd, CallOf(k.what, k.items)) <= Full(kd, k)
<1>1. units_of(kd, CallOf(k.what, k.items)) \in Nat
    BY UnitsType, Zenon DEF Call
<1> QED BY <1>1 DEF Full, Greater

LEMMA RowSize ==
    ASSUME NEW kd, NEW k, Credit(kd, k) \in Nat
    PROVE  IsFiniteSet(Row(kd, k)) /\ Cardinality(Row(kd, k)) = Credit(kd, k)
<1>1. PICK n \in Nat : n = Credit(kd, k)
    BY Zenon
<1>2. IsFiniteSet(1 .. n) /\ Cardinality(1 .. n) = n
    BY FS_Interval, 1 \in Int, n \in Int
<1> DEFINE f == [i \in 1 .. n |-> <<k, i>>]
<1>3. f \in Surjection(1 .. n, Row(kd, k))
    BY <1>1, Zenon DEF Surjection, Row
<1>4. IsInjective(f)
    BY Zenon DEF IsInjective
<1>5. f \in Injection(1 .. n, Row(kd, k))
    <2> HIDE DEF f
    <2> QED BY <1>3, <1>4, Zenon DEF Injection, Surjection
<1> HIDE DEF f
<1> QED BY <1>1, <1>2, <1>3, <1>5, FS_Surjection, Zenon

\* Request k gives way to j.
LEMMA CreditsSwap ==
    ASSUME NEW kd, NEW cs, NEW k \in cs, NEW j,
           IsFiniteSet(Credits(kd, cs)), Credit(kd, k) \in Nat, Credit(kd, j) \in Nat,
           NEW ds, ds = (cs \ {k}) \cup {j}
    PROVE  /\ IsFiniteSet(Credits(kd, ds))
           /\ Cardinality(Credits(kd, ds)) \in Nat /\ Cardinality(Credits(kd, cs)) \in Nat
           /\ Cardinality(Credits(kd, ds)) + Credit(kd, k) <= Cardinality(Credits(kd, cs)) + Credit(kd, j)
<1> DEFINE A == Credits(kd, cs)
           B == Credits(kd, cs \ {k})
           R == Row(kd, k)
           Q == Row(kd, j)
           D == Credits(kd, ds)
<1>1. A = B \cup R /\ D = B \cup Q
    BY Zenon DEF Credits
<1>2. B \cap R = {}
    BY Zenon DEF Credits, Row
<1>3. /\ IsFiniteSet(R) /\ Cardinality(R) = Credit(kd, k)
      /\ IsFiniteSet(Q) /\ Cardinality(Q) = Credit(kd, j)
    BY RowSize, Zenon
<1> HIDE DEF A, B, R, Q, D
<1>4. IsFiniteSet(A)
    BY Zenon DEF A
<1>5. IsFiniteSet(B) /\ Cardinality(B) \in Nat
    BY <1>1, <1>4, FS_Subset, FS_CardinalityType
<1>6. Cardinality(A) = Cardinality(B) + Cardinality(R) - Cardinality(B \cap R)
    BY <1>1, <1>3, <1>5, FS_Union, Zenon
<1>7. Cardinality(B \cap R) = 0
    BY <1>2, FS_EmptySet, Zenon
<1>8. IsFiniteSet(D) /\ Cardinality(D) = Cardinality(B) + Cardinality(Q) - Cardinality(B \cap Q)
    BY <1>1, <1>3, <1>5, FS_Union, Zenon
<1>9. Cardinality(B \cap Q) \in Nat
    BY <1>5, FS_Intersection, FS_CardinalityType, ZenonT(30)
<1>10. Cardinality(D) \in Nat /\ Cardinality(A) \in Nat
    BY <1>4, <1>8, FS_CardinalityType, Zenon
<1>11. Cardinality(D) + Credit(kd, k) <= Cardinality(A) + Credit(kd, j)
    BY <1>3, <1>5, <1>6, <1>7, <1>8, <1>9, <1>10
<1> QED BY <1>8, <1>10, <1>11, Zenon DEF A, D

\* A new request, or the retry of one, has no credits.
LEMMA NoCredit ==
    ASSUME kind \in NodeKinds, NEW f \in Fetches, NEW what \in Lookups \cup {"logs"},
           NEW lo, NEW hi, NEW items, IsFiniteSet(items), NEW attempt,
           max_cu_per_sec > 0
    PROVE  LET k == Request(f, what, lo, hi, items, attempt)
           IN  Row(kind, k) = {} /\ k.need \in 0 .. Full(kind, k)
<1> DEFINE k == Request(f, what, lo, hi, items, attempt)
           full == Greater(units_of(kind, CallOf(what, items)), 1)
<1>1. units_of(kind, CallOf(what, items)) \in Nat
    BY UnitsType, Zenon
<1>2. full \in Nat
    BY <1>1, Zenon DEF Greater
<1>3. k.need = full /\ k.what = what /\ k.items = items
    <2>1. max_cu_per_sec # 0
        BY PlanAssumption
    <2> HIDE DEF full
    <2> QED BY <2>1, Zenon DEF Request, DrawFor, full
<1> HIDE DEF k, full
<1>4. Full(kind, k) = full
    BY <1>3, Zenon DEF Full, full
<1>5. Credit(kind, k) = 0
    BY <1>2, <1>3, <1>4 DEF Credit
<1>6. Row(kind, k) = {}
    BY <1>5 DEF Row
<1>7. k.need \in 0 .. Full(kind, k)
    BY <1>2, <1>3, <1>4
<1> QED BY <1>6, <1>7, Zenon DEF k

LEMMA FundsType ==
    ASSUME Typed, LoopFine
    PROVE  SubUnits(kind) \in Nat /\ subs * SubUnits(kind) \in Nat /\ Held(kind, poll) \in Nat
<1>0. kind \in NodeKinds /\ subs \in Nat
    BY Zenon DEF Typed, LoopFine
<1>1. SubUnits(kind) \in Nat
    BY <1>0, LoopUnits, Zenon DEF SubUnits
<1>2. subs * SubUnits(kind) \in Nat
    BY <1>0, <1>1
<1>3. CASE poll = NoPoll
    BY <1>1, <1>2, <1>3 DEF Held
<1>4. CASE poll # NoPoll
    <2>1. PICK m \in {"BlockNumber", "BlockByNumber"} : poll.method = m
        BY <1>4, ZenonT(30) DEF LoopFine
    <2>2. units_of(kind, RpcCall(poll.method, 1)) \in Nat
        BY <2>1, <1>0, LoopUnits, Zenon
    <2>3. PollCost(kind, poll) \in Nat /\ poll.need \in Nat /\ poll.need <= PollCost(kind, poll)
        BY <2>2, <1>4 DEF PollCost, Greater, LoopFine
    <2>4. Held(kind, poll) = PollCost(kind, poll) - poll.need
        BY <1>4, Zenon DEF Held
    <2> QED BY <1>1, <1>2, <2>3, <2>4
<1> QED BY <1>3, <1>4, Zenon

\* Requests end, or new ones without credits start; nothing is drawn or metered.
LEMMA PaceStays ==
    ASSUME Typed, LoopFine, PaceInv, UNCHANGED <<kind, drawn, ledger, loop>>,
           NEW S, calls' \subseteq calls \cup S,
           max_cu_per_sec > 0 => \A j \in S : Row(kind, j) = {} /\ j.need \in 0 .. Full(kind, j)
    PROVE  PaceInv'
<1> SUFFICES ASSUME max_cu_per_sec > 0
             PROVE  /\ drawn' \in Nat
                    /\ IsFiniteSet(Credits(kind, calls'))
                    /\ ledger.units + Cardinality(Credits(kind, calls')) <= Funds
                    /\ \A k \in calls' : k.need \in 0 .. Full(kind, k)
    BY Zenon DEF PaceInv, Funds, loop
<1> DEFINE A == Credits(kind, calls)
           B == Credits(kind, calls')
<1>1. B \subseteq A
    BY Zenon DEF Credits
<1>2. IsFiniteSet(A) /\ drawn \in Nat /\ ledger.units + Cardinality(A) <= Funds
      /\ \A k \in calls : k.need \in 0 .. Full(kind, k)
    BY Zenon DEF PaceInv
<1>3. ledger.units \in Nat /\ Funds \in Int
    <2>1. ledger.units \in Nat
        BY Zenon DEF Typed
    <2> QED BY <1>2, <2>1, FundsType DEF Funds
<1>4. \A k \in calls' : k.need \in 0 .. Full(kind, k)
    BY <1>2, Zenon
<1> HIDE DEF A, B
<1>5. IsFiniteSet(B) /\ Cardinality(B) <= Cardinality(A)
      /\ Cardinality(A) \in Nat /\ Cardinality(B) \in Nat
    BY <1>1, <1>2, FS_Subset, FS_CardinalityType, Zenon
<1>6. ledger.units + Cardinality(B) <= Funds
    BY <1>2, <1>3, <1>5
<1> QED BY <1>2, <1>4, <1>5, <1>6, Zenon DEF B

\* What a draw from the bucket or the last permit makes of the figures: request k
\* becomes j, more is drawn, and as much of it is metered as credits are used up.
LEMMA PaceMoves ==
    ASSUME Typed, LoopFine, PaceInv, max_cu_per_sec > 0, UNCHANGED <<kind, loop>>,
           NEW k \in calls, NEW j, calls' = (calls \ {k}) \cup {j},
           Credit(kind, k) \in Nat, Credit(kind, j) \in Nat, j.need \in 0 .. Full(kind, j),
           NEW take \in Nat, drawn' = drawn + take,
           NEW used \in Nat, ledger'.units = ledger.units + used,
           used + Credit(kind, j) <= Credit(kind, k) + take
    PROVE  PaceInv'
<1> DEFINE a == Cardinality(Credits(kind, calls))
           b == Cardinality(Credits(kind, calls'))
<1>1. /\ IsFiniteSet(Credits(kind, calls)) /\ drawn \in Nat /\ ledger.units + a <= Funds
      /\ \A i \in calls : i.need \in 0 .. Full(kind, i)
    BY Zenon DEF PaceInv
<1>2. /\ IsFiniteSet(Credits(kind, calls')) /\ b \in Nat /\ a \in Nat
      /\ b + Credit(kind, k) <= a + Credit(kind, j)
    BY <1>1, CreditsSwap, Zenon
<1>3. ledger.units \in Nat
    BY Zenon DEF Typed
<1> HIDE DEF a, b
<1>4. drawn' \in Nat /\ ledger'.units + b <= Funds'
    <2> DEFINE x == subs * SubUnits(kind)
               y == Held(kind, poll)
    <2>1. x \in Nat /\ y \in Nat
        BY FundsType, Zenon
    <2>2. Funds = drawn + x - y /\ Funds' = drawn' + x - y
        BY Zenon DEF Funds, loop
    <2> HIDE DEF x, y
    <2> QED BY <2>1, <2>2, <1>1, <1>2, <1>3
<1>5. \A i \in calls' : i.need \in 0 .. Full(kind, i)
    BY <1>1, Zenon
<1> QED BY <1>2, <1>4, <1>5, Zenon DEF PaceInv, b

LEMMA DrawPaces ==
    ASSUME Typed, LoopFine, PaceInv, max_cu_per_sec > 0, NEW k \in calls, acquire_cu(k)
    PROVE  PaceInv'
<1>1. PICK take : /\ k.need > 0
                  /\ take = Burst(k.need)
                  /\ drawn' = drawn + take
                  /\ calls' = (calls \ {k}) \cup {[k EXCEPT !.need = @ - take]}
    BY Zenon DEF acquire_cu
<1>2. kind' = kind /\ ledger' = ledger /\ loop' = loop
    BY Zenon DEF acquire_cu, spend
<1>3. k \in Call /\ kind \in NodeKinds /\ ledger.units \in Nat
    BY Zenon DEF Typed
<1>4. k.need \in 0 .. Full(kind, k) /\ Full(kind, k) \in Nat
    BY <1>3, FullType, Zenon DEF PaceInv
<1>5. take \in Nat /\ take <= k.need
    <2>1. max_cu_per_sec \in Nat
        BY PlanAssumption, Zenon
    <2> QED BY <2>1, <1>1, <1>4 DEF Burst
<1>6. PICK j : j = [k EXCEPT !.need = @ - take]
    BY ZenonT(30)
<1>7. j.need = k.need - take /\ j.permits = k.permits /\ j.what = k.what /\ j.items = k.items
    BY <1>3, <1>6, Zenon DEF Call
<1>8. Full(kind, j) = Full(kind, k)
    BY <1>7, Zenon DEF Full
<1>9. j.need \in 0 .. Full(kind, j)
    BY <1>4, <1>5, <1>7, <1>8
<1>10. /\ Credit(kind, k) \in Nat /\ Credit(kind, j) \in Nat
       /\ 0 + Credit(kind, j) <= Credit(kind, k) + take
    <2>1. CASE k.permits > 0
        <3>1. Credit(kind, k) = Full(kind, k) - k.need /\ Credit(kind, j) = Full(kind, k) - j.need
            BY <2>1, <1>7, <1>8, Zenon DEF Credit
        <3> QED BY <3>1, <1>4, <1>5, <1>7
    <2>2. CASE ~(k.permits > 0)
        <3>1. Credit(kind, k) = 0 /\ Credit(kind, j) = 0
            BY <2>2, <1>7, Zenon DEF Credit
        <3> QED BY <3>1, <1>5
    <2> QED BY <2>1, <2>2, Zenon
<1>11. ledger'.units = ledger.units + 0
    BY <1>2, <1>3
<1>12. calls' = (calls \ {k}) \cup {j}
    BY <1>1, <1>6, Zenon
<1> QED BY <1>1, <1>2, <1>5, <1>9, <1>10, <1>11, <1>12, 0 \in Nat, PaceMoves, Zenon

LEMMA PermitPaces ==
    ASSUME Typed, LoopFine, PaceInv, max_cu_per_sec > 0, NEW k \in calls, acquire(k)
    PROVE  PaceInv'
<1>1. /\ k.need = 0 /\ k.permits > 0
      /\ calls' = (calls \ {k}) \cup {[k EXCEPT !.permits = @ - 1]}
      /\ IF k.permits = 1 THEN enter(k) ELSE UNCHANGED <<ledger, sent>>
      /\ kind' = kind /\ drawn' = drawn /\ loop' = loop
    BY Zenon DEF acquire
<1>2. k \in Call /\ kind \in NodeKinds /\ ledger.units \in Nat /\ k.permits \in Int
    BY Zenon DEF Typed, Call
<1>3. PICK j : j = [k EXCEPT !.permits = @ - 1]
    BY ZenonT(30)
<1>4. j.need = 0 /\ j.permits = k.permits - 1 /\ j.what = k.what /\ j.items = k.items
    BY <1>1, <1>2, <1>3, Zenon DEF Call
<1> DEFINE u == units_of(kind, CallOf(k.what, k.items))
<1>5. u \in Nat /\ Full(kind, k) \in Nat /\ u <= Full(kind, k)
    BY <1>2, FullType, Zenon
<1>6. Full(kind, j) = Full(kind, k)
    BY <1>4, Zenon DEF Full
<1>7. Credit(kind, k) = Full(kind, k) /\ j.need \in 0 .. Full(kind, j)
    BY <1>1, <1>4, <1>5, <1>6 DEF Credit
<1>8. drawn \in Nat
    BY Zenon DEF PaceInv
<1>9. calls' = (calls \ {k}) \cup {j}
    BY <1>1, <1>3, Zenon
<1>10. CASE k.permits = 1
    <2>1. ledger'.units = ledger.units + u
        BY <1>1, <1>10 DEF enter, meter, record, cost
    <2> HIDE DEF u
    <2>2. Credit(kind, j) = 0
        BY <1>4, <1>10 DEF Credit
    <2>3. u + Credit(kind, j) <= Credit(kind, k) + 0 /\ drawn' = drawn + 0 /\ Credit(kind, j) \in Nat
        BY <1>1, <1>5, <1>7, <1>8, <2>2
    <2> QED BY <2>1, <2>3, <1>1, <1>5, <1>7, <1>9, 0 \in Nat, PaceMoves, Zenon
<1>11. CASE k.permits # 1
    <2> HIDE DEF u
    <2>1. Credit(kind, j) = Full(kind, k)
        <3>1. j.permits > 0
            BY <1>1, <1>2, <1>4, <1>11
        <3> QED BY <3>1, <1>4, <1>5, <1>6 DEF Credit
    <2>2. /\ 0 + Credit(kind, j) <= Credit(kind, k) + 0 /\ drawn' = drawn + 0
          /\ ledger'.units = ledger.units + 0
        BY <2>1, <1>1, <1>2, <1>5, <1>7, <1>8, <1>11
    <2> QED BY <2>1, <2>2, <1>1, <1>5, <1>7, <1>9, 0 \in Nat, PaceMoves, Zenon
<1> QED BY <1>10, <1>11, Zenon

LEMMA FetchPaces ==
    ASSUME Typed, LoopFine, PaceInv, NEW f \in Fetches, FetchStep(f)
    PROVE  PaceInv'
<1>0. UNCHANGED <<kind, drawn, ledger, loop>>
    BY Zenon DEF FetchStep, fetch_range, PopSpan, fetch_aux, batch_chunk, AuxDone, limiter, spend
<1>1. kind \in NodeKinds /\ todo[f] \subseteq Chunk
    BY Zenon DEF Typed
<1>2. CASE fetch_range(f) \/ fetch_aux(f) \/ AuxDone(f)
    <2>1. calls' = calls
        BY <1>2, Zenon DEF fetch_range, fetch_aux, AuxDone
    <2>2. PICK S : S = {}
        BY ZenonT(30)
    <2>3. calls' \subseteq calls \cup S /\ \A j \in S : FALSE
        BY <2>1, <2>2, Zenon
    <2> QED BY <2>3, <1>0, PaceStays, Zenon
<1>3. CASE PopSpan(f)
    <2>1. PICK lo, hi : calls' = calls \cup {Request(f, "logs", lo, hi, {}, 0)}
        BY <1>3, Zenon DEF PopSpan
    <2>2. PICK j : j = Request(f, "logs", lo, hi, {}, 0)
        BY Zenon
    <2>3. max_cu_per_sec > 0 => Row(kind, j) = {} /\ j.need \in 0 .. Full(kind, j)
        BY <2>2, <1>1, FS_EmptySet, NoCredit, ZenonT(30)
    <2>4. calls' \subseteq calls \cup {j}
        BY <2>1, <2>2, Zenon
    <2> QED BY <2>3, <2>4, <1>0, PaceStays, ZenonT(30)
<1>4. CASE batch_chunk(f)
    <2>1. PICK d \in todo[f] : calls' = calls \cup {Request(f, d.what, 0, 0, d.items, 0)}
        BY <1>4, Zenon DEF batch_chunk
    <2>2. d.what \in Lookups \cup {"logs"} /\ IsFiniteSet(d.items)
        BY <1>1, Zenon DEF Chunk
    <2>3. PICK j : j = Request(f, d.what, 0, 0, d.items, 0)
        BY Zenon
    <2>4. max_cu_per_sec > 0 => Row(kind, j) = {} /\ j.need \in 0 .. Full(kind, j)
        BY <2>2, <2>3, <1>1, NoCredit, Zenon
    <2>5. calls' \subseteq calls \cup {j}
        BY <2>1, <2>3, Zenon
    <2> QED BY <2>4, <2>5, <1>0, PaceStays, ZenonT(30)
<1> QED BY <1>2, <1>3, <1>4, Zenon DEF FetchStep

LEMMA AnswerPaces ==
    ASSUME Typed, LoopFine, PaceInv, NEW k \in calls,
           GetLogsPage(k) \/ GetLogsRefused(k) \/ BatchAnswer(k) \/ TransportError(k)
    PROVE  PaceInv'
<1>1. UNCHANGED <<kind, drawn, ledger, loop>>
    BY Zenon DEF GetLogsPage, GetLogsRefused, BatchAnswer, TransportError, limiter, spend
<1>2. PICK j : j = Retry(k)
    BY Zenon
<1>3. calls' \subseteq calls \cup {j}
    <2>1. \/ calls' = calls \ {k} \/ calls' = calls \ CallsOf(k.f)
          \/ calls' = (calls \ {k}) \cup {Retry(k)}
        BY Zenon DEF GetLogsPage, GetLogsRefused, BatchAnswer, TransportError, Split, Abort
    <2> QED BY <2>1, <1>2, Zenon
<1>4. k.f \in Fetches /\ k.what \in Lookups \cup {"logs"} /\ IsFiniteSet(k.items) /\ kind \in NodeKinds
    BY Zenon DEF Typed, Call
<1>5. max_cu_per_sec > 0 => Row(kind, j) = {} /\ j.need \in 0 .. Full(kind, j)
    BY <1>2, <1>4, NoCredit, Zenon DEF Retry
<1> QED BY <1>1, <1>3, <1>5, PaceStays, ZenonT(30)

\* The loop's calls: what they meter is added to the funds.
LEMMA FundsGrow ==
    ASSUME Typed, PaceInv, max_cu_per_sec > 0, UNCHANGED <<kind, calls>>, drawn' \in Nat,
           NEW used \in Nat, ledger'.units = ledger.units + used,
           Funds \in Int, Funds' \in Int, Funds + used <= Funds'
    PROVE  PaceInv'
<1> DEFINE a == Cardinality(Credits(kind, calls))
<1>1. /\ IsFiniteSet(Credits(kind, calls)) /\ ledger.units + a <= Funds
      /\ \A i \in calls : i.need \in 0 .. Full(kind, i)
    BY Zenon DEF PaceInv
<1>2. ledger.units \in Nat /\ a \in Nat
    BY <1>1, FS_CardinalityType, Zenon DEF Typed
<1> HIDE DEF a
<1>3. ledger'.units + a <= Funds'
    BY <1>1, <1>2
<1> QED BY <1>1, <1>3, Zenon DEF PaceInv, a

LEMMA LoopPaces ==
    ASSUME Typed, LoopFine, PaceInv, max_cu_per_sec > 0,
           head \/ block_hash \/ PollDraw \/ PollSend \/ subscribe
    PROVE  PaceInv'
<1> DEFINE x == subs * SubUnits(kind)
           y == Held(kind, poll)
<1>0. UNCHANGED <<kind, calls>> /\ kind \in NodeKinds /\ subs \in Nat /\ ledger.units \in Nat
      /\ drawn \in Nat /\ x \in Nat /\ y \in Nat /\ SubUnits(kind) \in Nat
    BY FundsType, Zenon
    DEF head, block_hash, PollFor, PollDraw, PollSend, subscribe, spend, Typed, LoopFine, PaceInv
<1>1. Funds = drawn + x - y /\ Funds' = drawn' + subs' * SubUnits(kind) - Held(kind, poll')
    BY <1>0, Zenon DEF Funds
<1>2. ASSUME NEW m \in {"BlockNumber", "BlockByNumber"}, PollFor(m) PROVE PaceInv'
    <2>1. PICK u \in Nat : u = units_of(kind, RpcCall(m, 1))
        BY <1>0, LoopUnits, Zenon
    <2>2. /\ poll = NoPoll /\ poll' = [method |-> m, need |-> DrawFor(RpcCall(m, 1))]
          /\ UNCHANGED <<subs, drawn, ledger>>
        BY <1>2, Zenon DEF PollFor, Between, limiter, spend
    <2>3. DrawFor(RpcCall(m, 1)) = Greater(u, 1) /\ Greater(u, 1) \in Nat
        BY <2>1, PlanAssumption DEF DrawFor, Greater
    <2>4. PollCost(kind, poll') = Greater(u, 1) /\ poll'.need = Greater(u, 1)
        BY <2>1, <2>2, <2>3, Zenon DEF PollCost
    <2>5. y = 0
        BY <2>2, Zenon DEF Held
    <2>6. Held(kind, poll') = 0
        BY <2>3, <2>4 DEF Held
    <2> HIDE DEF x, y
    <2>7. Funds \in Int /\ Funds' = Funds
        BY <1>0, <1>1, <2>2, <2>5, <2>6 DEF x
    <2>8. drawn' \in Nat /\ ledger'.units = ledger.units + 0 /\ Funds + 0 <= Funds' /\ Funds' \in Int
        BY <1>0, <2>2, <2>7
    <2> QED BY <2>7, <2>8, <1>0, 0 \in Nat, FundsGrow, Zenon
<1>3. CASE PollDraw
    <2>1. PICK b : /\ b = Burst(poll.need) /\ poll.need > 0 /\ drawn' = drawn + b
                   /\ poll' = [poll EXCEPT !.need = @ - b] /\ UNCHANGED <<subs, ledger>>
        BY <1>3, Zenon DEF PollDraw, spend
    <2>2. poll # NoPoll
        BY <2>1 DEF NoPoll
    <2>3. PICK m \in {"BlockNumber", "BlockByNumber"}, n \in Nat : poll = [method |-> m, need |-> n]
        BY <2>2 DEF LoopFine
    <2>4. poll' = [method |-> m, need |-> n - b] /\ poll.need = n /\ poll.method = m
        BY <2>1, <2>3, Zenon
    <2>5. PICK c \in Nat : c = PollCost(kind, poll) /\ c = PollCost(kind, poll')
        <3>1. units_of(kind, RpcCall(m, 1)) \in Nat
            BY <1>0, LoopUnits, Zenon
        <3>2. Greater(units_of(kind, RpcCall(m, 1)), 1) \in Nat
            BY <3>1, Zenon DEF Greater
        <3>3. PollCost(kind, poll) = Greater(units_of(kind, RpcCall(m, 1)), 1)
              /\ PollCost(kind, poll') = Greater(units_of(kind, RpcCall(m, 1)), 1)
            BY <2>4, Zenon DEF PollCost
        <3> QED BY <3>2, <3>3, ZenonT(30)
    <2>6. y = c - n
        BY <2>2, <2>4, <2>5, Zenon DEF Held
    <2>7. Held(kind, poll') = c - (n - b)
        <3>1. poll' # NoPoll
            BY <2>4 DEF NoPoll
        <3>2. poll'.need = n - b
            BY <2>4, Zenon
        <3> QED BY <3>1, <3>2, <2>5, Zenon DEF Held
    <2>8. b \in Nat
        BY <2>1, <2>4, PlanAssumption DEF Burst
    <2> HIDE DEF x, y
    <2>9. Funds \in Int /\ Funds' = Funds /\ drawn' \in Nat
        BY <1>0, <1>1, <2>1, <2>6, <2>7, <2>8 DEF x
    <2>10. ledger'.units = ledger.units + 0 /\ Funds + 0 <= Funds' /\ Funds' \in Int
        BY <1>0, <2>1, <2>9
    <2> QED BY <2>9, <2>10, <1>0, 0 \in Nat, FundsGrow, Zenon
<1>4. CASE PollSend
    <2>1. /\ poll # NoPoll /\ poll.need = 0 /\ poll' = NoPoll /\ UNCHANGED <<drawn, subs>>
          /\ meter(RpcCall(poll.method, 1))
        BY <1>4, Zenon DEF PollSend
    <2>2. PICK m \in {"BlockNumber", "BlockByNumber"} : m = poll.method
        BY <2>1, ZenonT(30) DEF LoopFine
    <2>3. PICK u \in Nat : u = units_of(kind, RpcCall(m, 1))
        BY <1>0, LoopUnits, Zenon
    <2>4. ledger'.units = ledger.units + u
        BY <2>1, <2>2, <2>3 DEF meter, record, cost
    <2>5. y = Greater(u, 1) - 0
        BY <2>1, <2>2, <2>3, Zenon DEF Held, PollCost
    <2>6. y >= u
        <3> HIDE DEF y
        <3> QED BY <2>5 DEF Greater
    <2>7. Held(kind, poll') = 0
        BY <2>1, Zenon DEF Held
    <2> HIDE DEF x, y
    <2>8. Funds \in Int /\ Funds' \in Int /\ Funds + u <= Funds' /\ drawn' \in Nat
        BY <1>0, <1>1, <2>1, <2>6, <2>7 DEF x
    <2> QED BY <2>4, <2>8, <1>0, FundsGrow, Zenon
<1>5. CASE subscribe
    <2>1. subs' = subs + 1 /\ UNCHANGED <<drawn, poll>> /\ meter(RpcCall("LogSubscription", 1))
        BY <1>5, Zenon DEF subscribe, limiter
    <2>2. PICK u \in Nat : u = SubUnits(kind)
        BY <1>0, Zenon
    <2>3. ledger'.units = ledger.units + u
        BY <2>1, <2>2 DEF meter, record, cost, SubUnits
    <2>4. x = subs * u /\ (subs + 1) * u = subs * u + u
        BY <2>2, <1>0
    <2>5. Funds' = drawn + (x + u) - y
        BY <1>1, <2>1, <2>2, <2>4, Zenon
    <2> HIDE DEF x, y
    <2>6. Funds \in Int /\ Funds' \in Int /\ Funds + u <= Funds' /\ drawn' \in Nat
        BY <1>0, <1>1, <2>1, <2>5
    <2> QED BY <2>3, <2>6, <1>0, FundsGrow, Zenon
<1> QED BY <1>2, <1>3, <1>4, <1>5, Zenon DEF head, block_hash

LEMMA PaceInductive == IInv /\ PaceInv /\ [Next]_vars => PaceInv'
<1> SUFFICES ASSUME Typed, LoopFine, PaceInv, [Next]_vars PROVE PaceInv'
    BY Zenon DEF IInv
<1>1. ASSUME NEW f \in Fetches, FetchStep(f) PROVE PaceInv'
    BY <1>1, FetchPaces, Zenon
<1>2. ASSUME NEW k \in calls, acquire_cu(k) \/ acquire(k) PROVE PaceInv'
    <2>1. CASE max_cu_per_sec > 0
        BY <2>1, <1>2, DrawPaces, PermitPaces, Zenon
    <2> QED BY <2>1, Zenon DEF PaceInv
<1>3. ASSUME NEW k \in calls, GetLogsPage(k) \/ GetLogsRefused(k) \/ BatchAnswer(k) \/ TransportError(k)
      PROVE  PaceInv'
    BY <1>3, AnswerPaces, Zenon
<1>4. CASE Refill \/ UNCHANGED vars
    <2>1. UNCHANGED <<kind, drawn, ledger, loop>> /\ calls' = calls
        BY <1>4, Zenon DEF Refill, vars, spend, limiter
    <2>2. PICK S : S = {}
        BY ZenonT(30)
    <2>3. calls' \subseteq calls \cup S /\ \A j \in S : FALSE
        BY <2>1, <2>2, Zenon
    <2> QED BY <2>1, <2>3, PaceStays, Zenon
<1>5. CASE head \/ block_hash \/ PollDraw \/ PollSend \/ subscribe
    <2>1. CASE max_cu_per_sec > 0
        BY <2>1, <1>5, LoopPaces, Zenon
    <2> QED BY <2>1, Zenon DEF PaceInv
<1> QED BY <1>1, <1>2, <1>3, <1>4, <1>5, Zenon DEF Next, RequestStep

\* Whatever calls cost next to the size of the bucket, however they interleave
\* and however often they are retried: what is metered was drawn before, but
\* for the subscriptions, which subscribe meters without asking the limiter.
THEOREM SpendIsPaced == Spec => []Paced
<1>1. Init => PaceInv
    <2> SUFFICES ASSUME Init PROVE PaceInv
        BY Zenon
    <2>1. calls = {} /\ drawn = 0 /\ ledger.units = 0 /\ subs = 0 /\ poll = NoPoll
        BY Zenon DEF Init, EmptyLedger
    <2>2. Credits(kind, calls) = {}
        BY <2>1, Zenon DEF Credits
    <2>3. Funds = 0
        <3>1. IInv
            BY InitInv, Zenon
        <3>2. SubUnits(kind) \in Nat
            BY <3>1, FundsType, Zenon DEF IInv
        <3>3. 0 * SubUnits(kind) = 0 /\ 0 + 0 - 0 = 0
            BY <3>2
        <3> QED BY <2>1, <3>3, Zenon DEF Funds, Held
    <2> QED BY <2>1, <2>2, <2>3, FS_EmptySet DEF PaceInv
<1>2. IInv /\ PaceInv => Paced
    <2> SUFFICES ASSUME IInv, PaceInv, max_cu_per_sec > 0
                 PROVE  ledger.units <= drawn + subs * SubUnits(kind)
        BY Zenon DEF Paced, SubUnits
    <2>1. ledger.units \in Nat
        BY Zenon DEF IInv, Typed
    <2>2. Cardinality(Credits(kind, calls)) \in Nat
        BY FS_CardinalityType, Zenon DEF PaceInv
    <2>3. subs * SubUnits(kind) \in Nat /\ Held(kind, poll) \in Nat
        BY FundsType, Zenon DEF IInv
    <2> QED BY <2>1, <2>2, <2>3 DEF PaceInv, Funds
<1> QED BY <1>1, <1>2, Invariant, PaceInductive, PTL DEF Spec

=============================================================================
