---------------------------- MODULE RangePlanLoops ----------------------------
(***************************************************************************)
(* The loops of bins/indexer-cli/src/plan.rs, iteration by iteration: the  *)
(* while of plan_ranges, then PrefixTracker::record called for the planned *)
(* ranges in any order.  They are compared with the closed forms of        *)
(* RangePlan, which Pipeline uses.                                         *)
(***************************************************************************)
EXTENDS RangePlan, Sequences

CONSTANTS Starts, Targets, Steps,   \* the inputs that are tried
          Matched                   \* the blocks that hold a log of interest

ASSUME InputsAssumption ==
    /\ Starts \subseteq Nat \ {0} /\ Targets \subseteq Nat /\ Steps \subseteq Nat \ {0}
    /\ Matched \subseteq Nat \ {0}

VARIABLES
    first, target, step,   \* the arguments
    s, ranges,             \* plan_ranges: the loop variable and the result
    recorded,              \* ranges passed to record so far
    frontier, waiting, best, advanced_to   \* PrefixTracker; 0 stands for None

input == <<first, target, step>>
tracker == <<frontier, waiting, best, advanced_to>>
vars == <<input, s, ranges, recorded, tracker>>

Init ==
    /\ first \in Starts /\ target \in Targets /\ step \in Steps
    /\ s = first /\ ranges = <<>> /\ recorded = {}
    /\ frontier = first /\ waiting = {} /\ best = 0 /\ advanced_to = 0

\* Faulty variant of PlanIteration: the last range is not cut off.
PlanUncut ==
    /\ s <= target
    /\ ranges' = Append(ranges, Span(s, s + step - 1))
    /\ s' = s + step
    /\ UNCHANGED <<input, recorded, tracker>>

PlanIteration ==
    /\ s <= target
    /\ LET e == Lesser(s + step - 1, target)
       IN  ranges' = Append(ranges, Span(s, e)) /\ s' = e + 1
    /\ UNCHANGED <<input, recorded, tracker>>

Planned == {ranges[i] : i \in DOMAIN ranges}

\* The loop of record is over: nothing waits at the frontier.
RecordDone == \A r \in waiting : r.lo # frontier

\* record(from, to, last_block): insert; the iterations follow.
RecordInsert ==
    /\ s > target /\ RecordDone
    /\ \E r \in Planned \ recorded :
          /\ recorded' = recorded \cup {r}
          /\ waiting' = waiting \cup {r}
    /\ UNCHANGED <<input, s, ranges, frontier, best, advanced_to>>

\* Faulty variant of RecordIteration: the frontier stays on the last block.
RecordOffByOne ==
    /\ \E r \in waiting :
          /\ r.lo = frontier
          /\ waiting' = waiting \ {r}
          /\ frontier' = r.hi
          /\ advanced_to' = r.hi
    /\ UNCHANGED <<input, s, ranges, recorded, best>>

RecordIteration ==
    /\ \E r \in waiting :
          LET h == last_block(Matched, r)
          IN  /\ r.lo = frontier
              /\ waiting' = waiting \ {r}
              /\ best' = IF h # 0 /\ h >= best THEN h ELSE best
              /\ frontier' = r.hi + 1
              /\ advanced_to' = r.hi
    /\ UNCHANGED <<input, s, ranges, recorded>>

Next == PlanIteration \/ RecordInsert \/ RecordIteration

Spec == Init /\ [][Next]_vars

-----------------------------------------------------------------------------
\* The while loop of plan_ranges yields the ranges of the closed form, in order,
\* and they partition next..target: no block is planned twice or left out.
PlanAgrees ==
    s > target =>
        /\ Planned = plan_ranges(first, target, step)
        /\ \A i \in 1 .. Len(ranges) - 1 : ranges[i + 1].lo = ranges[i].hi + 1
        /\ Covered(Planned) = first .. target

\* When record returns, in whatever order the ranges came, the frontier is the
\* only end of the contiguous prefix that the closed form allows, and what still
\* waits is what the closed form leaves.  The hash that record returns is that of
\* the highest matching block in the prefix, never of a range behind a gap.
PrefixAgrees ==
    (s > target /\ RecordDone) =>
        /\ PrefixEnds(recorded, first) = {frontier}
        /\ waiting = recorded \ Absorbed(recorded, frontier)
        /\ frontier = IF advanced_to = 0 THEN first ELSE advanced_to + 1
        /\ best = last_block(Matched, Span(first, frontier - 1))

=============================================================================
