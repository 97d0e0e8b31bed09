------------------------------ MODULE MCTipLoop ------------------------------
(* Small instances of TipLoop.                                             *)
EXTENDS TipLoop

=============================================================================
