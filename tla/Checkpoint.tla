------------------------------ MODULE Checkpoint ------------------------------
(***************************************************************************)
(* What ingestion promises about one chain, without saying how: blocks are *)
(* stored in any order and at any time, and the durable cursor moves only  *)
(* over blocks that are all stored.  A reader that trusts the cursor never *)
(* meets a hole below it, and a restart from cursor + 1 repeats work at    *)
(* most.  run_pipeline implements this (Pipeline).                         *)
(***************************************************************************)
EXTENDS Integers

CONSTANTS StartBlock
VARIABLES cursor, stored

Init == cursor = StartBlock - 1 /\ stored = {}

\* A transaction stores more blocks; none is ever taken away.
Store ==
    /\ stored \subseteq stored'
    /\ UNCHANGED cursor

\* The cursor advances over stored blocks only.
Advance ==
    /\ cursor' \in Nat /\ cursor' > cursor
    /\ (cursor + 1) .. cursor' \subseteq stored \cup (1 .. (StartBlock - 1))
    /\ UNCHANGED stored

\* The cursor is taken back: an operator indexes an earlier range again.
Rewind ==
    /\ cursor' \in Nat /\ cursor' < cursor
    /\ UNCHANGED stored

Next == Store \/ Advance \/ Rewind

Spec == Init /\ [][Next]_<<cursor, stored>>

=============================================================================
