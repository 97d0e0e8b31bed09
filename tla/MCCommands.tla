------------------------------ MODULE MCCommands ------------------------------
(* Two chains, one with a quota that runs out within a window.             *)
EXTENDS Commands

CONSTANTS eth, base, w1, w2

MCChainList == <<eth, base>>
MCQuota == [c \in Chains |-> IF c = eth THEN 2 ELSE NoQuota]

=============================================================================
