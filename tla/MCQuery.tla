------------------------------- MODULE MCQuery -------------------------------
(* Two chains with rows of equal height and idx, and arguments that page     *)
(* through both or one of them, up and down, or that the reader refuses.     *)
EXTENDS Query

Row(chain, height, idx) == [chain |-> chain, height |-> height, idx |-> idx]
Arg(first, after, descending, where) ==
    [first |-> first, after |-> after, descending |-> descending, where |-> where]
Where(column, op, value) == <<[column |-> column, op |-> op, value |-> value]>>

MCUniverse == {Row(1, 1, 1), Row(1, 2, 0), Row(2, 1, 1)}
MCFirstRows == {Row(1, 1, 1), Row(2, 1, 1)}
MCColumnTypes == [memo |-> "Json"]
MCArgs == {Arg(1, NoCursor, FALSE, <<>>),
           Arg(0, format_cursor(<<2, 1>>), TRUE, Where("chain_id", "EQ", 1)),
           Arg(2, NoCursor, FALSE, Where("memo", "NE", 0))}
=============================================================================
