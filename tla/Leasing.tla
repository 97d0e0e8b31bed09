------------------------------- MODULE Leasing -------------------------------
(***************************************************************************)
(* What the work queue promises, without saying how: an item that was      *)
(* accepted stays open until the worker that holds it finishes it, nobody  *)
(* else holds it meanwhile, and it is finished only after it was decoded,  *)
(* unless its holder has no decoder for its chain.  An item that was       *)
(* handed out is not handed out again before its lease was found late.     *)
(* The fence by lease_seq, the row locks and the workers that go on with a *)
(* lease they have lost are how WorkQueue implements this.                 *)
(***************************************************************************)
CONSTANTS
    Ids,        \* the ids an item may get
    Workers,
    Decoders    \* Decoders[w]: the chains whose items w can decode

VARIABLES
    accepted,   \* id -> chain of every item ever accepted
    item,       \* id -> "ready", "leased" or "late", of the items that are open
    held,       \* the pairs <<w, id>> of a worker and the item it holds
    decoded     \* the items that some worker has decoded to the end

vars == <<accepted, item, held, decoded>>

open == DOMAIN item

Init ==
    /\ DOMAIN accepted = {} /\ DOMAIN item = {}
    /\ held = {} /\ decoded = {}

\* A new item, for any worker to take.
Accept(id) ==
    /\ id \notin DOMAIN accepted
    /\ DOMAIN accepted' = DOMAIN accepted \cup {id}
    /\ \A j \in DOMAIN accepted : accepted'[j] = accepted[j]
    /\ item' = [j \in open \cup {id} |-> IF j = id THEN "ready" ELSE item[j]]
    /\ UNCHANGED <<held, decoded>>

\* w, which has nothing else in hand, is given an item that nobody has.
Grant(w, id) ==
    /\ item[id] = "ready"
    /\ \A p \in held : p[1] # w /\ p[2] # id
    /\ item' = [item EXCEPT ![id] = "leased"]
    /\ held' = held \cup {<<w, id>>}
    /\ UNCHANGED <<accepted, decoded>>

\* Somebody, who may have lost the item since, has decoded it.
Decode(id) ==
    /\ decoded' = decoded \cup {id}
    /\ UNCHANGED <<accepted, item, held>>

\* The holder is done with its item.
Finish(w, id) ==
    /\ <<w, id>> \in held
    /\ id \in decoded \/ accepted[id] \notin Decoders[w]
    /\ item' = [j \in open \ {id} |-> item[j]]
    /\ held' = held \ {<<w, id>>}
    /\ UNCHANGED <<accepted, decoded>>

\* The holder fails.  The item stays leased.
GiveUp(w, id) ==
    /\ <<w, id>> \in held
    /\ held' = held \ {<<w, id>>}
    /\ UNCHANGED <<accepted, item, decoded>>

Overdue(id) ==
    /\ item[id] = "leased"
    /\ item' = [item EXCEPT ![id] = "late"]
    /\ UNCHANGED <<accepted, held, decoded>>

\* Every late item is taken from whoever holds it and can be had again.
TakeBack ==
    /\ item' = [j \in open |-> IF item[j] = "late" THEN "ready" ELSE item[j]]
    /\ held' = {p \in held : item[p[2]] # "late"}
    /\ UNCHANGED <<accepted, decoded>>

Next ==
    \/ \E id \in Ids : Accept(id)
    \/ \E id \in DOMAIN accepted : Decode(id)
    \/ \E id \in open : Overdue(id)
    \/ \E w \in Workers : \E id \in open : Grant(w, id) \/ Finish(w, id) \/ GiveUp(w, id)
    \/ TakeBack

Spec == Init /\ [][Next]_vars

=============================================================================
