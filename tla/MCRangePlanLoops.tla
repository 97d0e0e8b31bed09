--------------------------- MODULE MCRangePlanLoops ---------------------------
(* Every window of up to eight blocks, empty ones included, in steps of 1  *)
(* to 4 blocks.                                                            *)
EXTENDS RangePlanLoops

MCStarts == 1..3
MCTargets == 0..8
MCSteps == 1..4

=============================================================================
