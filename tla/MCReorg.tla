------------------------------- MODULE MCReorg -------------------------------
(* Small instances of Reorg; the bounds are given in the configurations.   *)
EXTENDS Reorg

=============================================================================
