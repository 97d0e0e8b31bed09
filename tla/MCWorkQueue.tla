----------------------------- MODULE MCWorkQueue -----------------------------
(* Small instances of WorkQueue.                                           *)
EXTENDS WorkQueue

CONSTANTS eth, base, r1, r2, w1, w2

\* `run` beside `follow eth`: w2's process was built with one decoder only.
FollowDecoders == [w \in Workers |-> IF w = w2 THEN {eth} ELSE Chains]

=============================================================================
