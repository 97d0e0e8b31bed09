----------------------------- MODULE MCRpcSource -----------------------------
(* Two concurrent fetches on one source.  Blocks 1 and 2 together, and     *)
(* block 2 alone, hold more logs than a page; the three blocks of one      *)
(* fetch make a full batch and a partial one; the other finds nothing.     *)
EXTENDS RpcSource

CONSTANTS a, b

MCRangeOf == [f \in Fetches |-> IF f = a THEN [lo |-> 1, hi |-> 3] ELSE [lo |-> 4, hi |-> 4]]
MCLogCount == <<1, 3, 1, 0>>

=============================================================================
