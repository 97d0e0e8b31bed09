------------------------------ MODULE MCTables -------------------------------
(* Four edits of a configuration: a fungible token, whose Transfer names     *)
(* its receivers in an indexed array; the same with a renamed parameter and  *)
(* a decoded function; the first together with a contract of unique tokens,  *)
(* whose Transfer has the same topic0 and one more indexed parameter; the    *)
(* first with an overload of Transfer, in the same table with another type.  *)
EXTENDS Tables

Param(name, ty, indexed) == [name |-> name, ty |-> ty, indexed |-> indexed]
Contract(address, prefix, event, functions) ==
    [address |-> address, prefix |-> prefix, table |-> None, events |-> {},
     functions |-> functions, abi_events |-> <<event>>,
     abi_functions |-> <<[name |-> "pay", selector |-> "s1", inputs |-> <<Param("to", "address", FALSE)>>]>>]
Transfer(last) ==
    [name |-> "transfer", topic0 |-> "t1", inputs |-> <<Param("receivers", "address[]", TRUE), last>>]

fungible == Contract("A", "fungible", Transfer(Param("value", "uint256", FALSE)), {})
renamed == Contract("A", "fungible", Transfer(Param("amount", "uint256", FALSE)), {"pay"})
payable == Contract("A", "fungible", Transfer(Param("value", "uint256", FALSE)), {"pay"})
unique == Contract("N", "unique", Transfer(Param("tokenId", "uint256", TRUE)), {})

overload ==
    [fungible EXCEPT !.abi_events = Append(@, [name |-> "transfer", topic0 |-> "t2",
        inputs |-> <<Param("value", "bytes", FALSE)>>])]

MCConfigs == <<<<fungible>>, <<renamed>>, <<payable, unique>>, <<overload>>>>
MCSnake == [receivers |-> "receivers", to |-> "to", value |-> "value", amount |-> "amount",
            tokenId |-> "token_id"]
MCLogs == {[height |-> 1, idx |-> 0, address |-> "A", topic0 |-> "t1", topics |-> 1, tx |-> "x1"],
           [height |-> 2, idx |-> 0, address |-> "N", topic0 |-> "t1", topics |-> 2, tx |-> "x2"]}
MCTxs == {[id |-> "x1", height |-> 1, to |-> "A", selector |-> "s1", wellformed |-> TRUE],
          [id |-> "x2", height |-> 2, to |-> "A", selector |-> "s1", wellformed |-> FALSE]}
=============================================================================
