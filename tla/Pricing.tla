------------------------------- MODULE Pricing -------------------------------
(***************************************************************************)
(* The cost models of crates/pricing (alchemy.rs, quicknode.rs,            *)
(* free_node.rs) and the arithmetic of the SpendLedger (ledger.rs).  Money *)
(* is in micro-USD; a price is a fraction <<numerator, denominator>> of a  *)
(* micro-USD per unit, and every division rounds down as Rust's does.      *)
(***************************************************************************)
EXTENDS Integers

Greater(a, b) == IF a >= b THEN a ELSE b

\* RpcCall: the method, and the number of calls in a batch of it (the other
\* fields of the variants do not enter a price).
RpcCall(method, count) == [method |-> method, count |-> count]

Batched == {"BlockByNumber", "TxByHash", "Receipt"}

\* Compute units (Alchemy) or credits (QuickNode) of one call.
AlchemyCost == [GetLogs |-> 75, BlockNumber |-> 10, BlockByNumber |-> 16, TxByHash |-> 15,
                Receipt |-> 15, LogSubscription |-> 10, Other |-> 0]

QuickNodeCost == [m \in DOMAIN AlchemyCost |-> IF m = "Other" THEN 0 ELSE 20]

FreeNodeCost == [m \in DOMAIN AlchemyCost |-> 0]

unit_price == [alchemy |-> AlchemyCost, quicknode |-> QuickNodeCost, free |-> FreeNodeCost]

rate == [alchemy |-> <<12, 10>>, quicknode |-> <<6, 10>>, free |-> <<0, 1>>]

Priced(units, price) == (units * price[1]) \div Greater(price[2], 1)

units_of(kind, call) ==
    unit_price[kind][call.method] * (IF call.method \in Batched THEN Greater(call.count, 1) ELSE 1)

\* Faulty variant of cost: a batch is paid like one call.
cost_single(kind, call) ==
    [units |-> units_of(kind, call), micro_usd |-> Priced(unit_price[kind][call.method], rate[kind])]

cost(kind, call) ==
    [units |-> units_of(kind, call), micro_usd |-> Priced(units_of(kind, call), rate[kind])]

-----------------------------------------------------------------------------
(* SpendLedger.  A quota of NoQuota is the code's None.                    *)

NoQuota == -1

EmptyLedger == [units |-> 0, micro_usd |-> 0]

record(ledger, spend) ==
    [units |-> ledger.units + spend.units, micro_usd |-> ledger.micro_usd + spend.micro_usd]

\* Only the units past the free allotment are charged.
billable_micro_usd(ledger, quota, price) ==
    Priced(Greater(ledger.units - Greater(quota, 0), 0), price)

\* remaining_quota() is Some(0).
quota_exhausted(ledger, quota) == quota # NoQuota /\ ledger.units >= quota

=============================================================================
