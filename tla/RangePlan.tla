------------------------------ MODULE RangePlan ------------------------------
(***************************************************************************)
(* The pure half of bins/indexer-cli/src/plan.rs: how far one drive        *)
(* fetches, how the window is cut into ranges, and where the contiguous    *)
(* prefix of the committed ranges ends.  The two loops of the code are     *)
(* given here by what they compute; RangePlanLoops has them iteration by   *)
(* iteration and compares the two.                                         *)
(***************************************************************************)
EXTENDS Integers, FiniteSets

\* An inclusive block range, and the blocks in it.
Span(lo, hi) == [lo |-> lo, hi |-> hi]
BlocksOf(r) == r.lo .. r.hi
Covered(rs) == UNION {BlocksOf(r) : r \in rs}

Lesser(a, b) == IF a <= b THEN a ELSE b

fetch_target(safe, next, step, range_concurrency, must_fetch) ==
    IF must_fetch THEN Lesser(safe, next + step * range_concurrency - 1) ELSE safe

\* Ranges of `step` blocks from `next` on, the last one cut off at `target`.
plan_ranges(next, target, step) ==
    {Span(s, Lesser(s + step - 1, target)) :
        s \in {b \in next .. target : \E k \in 0 .. (target - next) : b = next + k * step}}

\* Where the prefix that starts at `frontier` can end, given the committed
\* ranges rs: they close it without a gap, and none of them extends it.
PrefixEnds(rs, frontier) ==
    {g \in {frontier} \cup {r.hi + 1 : r \in rs} :
        /\ g >= frontier
        /\ frontier .. (g - 1) \subseteq Covered(rs)
        /\ \A r \in rs : r.lo # g}

\* The ranges that PrefixTracker::record takes out of `waiting` on the way to g.
Absorbed(rs, g) == {r \in rs : r.lo < g}

\* last_block of a fetched range: its highest block with a matching log, 0 for
\* none.  Heights stand for the hashes that the cursor is stamped with.
last_block(matched, r) ==
    LET hits == {b \in matched : b \in BlocksOf(r)}
    IN  IF hits = {} THEN 0 ELSE CHOOSE h \in hits : \A b \in hits : b <= h

=============================================================================
