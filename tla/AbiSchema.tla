------------------------------ MODULE AbiSchema ------------------------------
(***************************************************************************)
(* From a chain's contracts to typed tables and rows: the index of an ABI  *)
(* (crates/abi), the schema of an event or a function (crates/abi-schema), *)
(* the column types of Postgres (crates/sql-pg) and what a log or a call   *)
(* decodes to.  All of it is pure.                                         *)
(*                                                                         *)
(* A contract is [address, prefix, table, events, functions, abi_events,   *)
(* abi_functions]; table is None or the override, events is {} for all of  *)
(* them; an event is [name, topic0, inputs], a function [name, selector,   *)
(* inputs], an input [name, ty, indexed].                                  *)
(***************************************************************************)
EXTENDS Naturals, Sequences, FiniteSets

CONSTANT to_snake_case      \* to_snake_case[p]: the column name of parameter name p

None == "none"

-----------------------------------------------------------------------------
(* Columns.                                                                *)

\* Of the Solidity types, one of each kind that is told apart.
Arrays == {"address[]"}
SolTypes ==
    {"address", "bool", "string", "bytes", "bytes4", "uint256", "int128", "tuple"} \cup Arrays

\* A parameter of an event or a function; it may have no name.
ParamType == [name : {""} \cup DOMAIN to_snake_case, ty : SolTypes, indexed : BOOLEAN]

column_type_for(ty) ==
    CASE ty \in Arrays \cup {"tuple"} -> "Json"
      [] ty = "address" -> "Address" [] ty = "bool" -> "Bool" [] ty = "string" -> "Utf8"
      [] ty = "uint256" -> "UInt" [] ty = "int128" -> "Int"
      [] OTHER -> "Bytes"

pg_type(column_type) ==
    CASE column_type \in {"Address", "Bytes"} -> "bytea"
      [] column_type \in {"UInt", "Int"} -> "numeric"
      [] column_type = "Bool" -> "boolean" [] column_type = "Utf8" -> "text"
      [] column_type = "Json" -> "jsonb"

\* Faulty variant of IsDynamic: an array is taken for a value.
IsDynamicScalar(ty) == ty \in {"string", "bytes"}

\* Types of which an indexed parameter keeps only the hash.
IsDynamic(ty) == ty \in {"string", "bytes"} \cup Arrays

indexed_hash(p) == p.indexed /\ IsDynamic(p.ty)

col_name(i, p) == IF p.name = "" THEN <<"arg", i - 1>> ELSE <<to_snake_case[p.name]>>

\* The i-th column of an event: its name and its Postgres type.
Column(inputs, i) ==
    LET p == inputs[i]
    IN  IF indexed_hash(p)
          THEN [name |-> col_name(i, p) \o <<"_hash">>, pg |-> pg_type("Bytes")]
          ELSE [name |-> col_name(i, p), pg |-> pg_type(column_type_for(p.ty))]

schema_for(event, table) ==
    [table |-> table, pk |-> "idx",
     columns |-> [i \in DOMAIN event.inputs |-> Column(event.inputs, i)]]

\* The parameters of a function: nothing is indexed.
Unindexed(inputs) == [i \in DOMAIN inputs |-> [inputs[i] EXCEPT !.indexed = FALSE]]

\* A function's schema: one row per transaction.
schema_for_function(function, table) ==
    [table |-> table, pk |-> "tx_id",
     columns |-> [i \in DOMAIN function.inputs |-> Column(Unindexed(function.inputs), i)]]

\* The tables of transactions and receipts, each with one of its columns.
aux_schemas ==
    <<[table |-> <<"transactions">>, pk |-> "tx_id",
       columns |-> <<[name |-> <<"input">>, pg |-> "bytea"]>>],
      [table |-> <<"receipts">>, pk |-> "tx_id",
       columns |-> <<[name |-> <<"status">>, pg |-> "boolean"]>>]>>

-----------------------------------------------------------------------------
(* AbiIndex.                                                               *)

\* <<i, j>>: the j-th event of the i-th contract is to be indexed.
WantedEvents(contracts) ==
    {ij \in UNION {{i} \X DOMAIN contracts[i].abi_events : i \in DOMAIN contracts} :
        LET c == contracts[ij[1]]
        IN  c.events = {} \/ c.abi_events[ij[2]].name \in c.events}

EventAt(contracts, ij) == contracts[ij[1]].abi_events[ij[2]]

EventTable(contracts, ij) ==
    LET c == contracts[ij[1]]
    IN  IF c.table # None THEN <<c.table>> ELSE <<"evt", c.prefix, EventAt(contracts, ij).name>>

WantedFunctions(contracts) ==
    {ij \in UNION {{i} \X DOMAIN contracts[i].abi_functions : i \in DOMAIN contracts} :
        LET c == contracts[ij[1]]
        IN  c.abi_functions[ij[2]].name \in c.functions}

FunctionAt(contracts, ij) == contracts[ij[1]].abi_functions[ij[2]]

Later(x, y) == x[1] > y[1] \/ (x[1] = y[1] /\ x[2] >= y[2])

\* by_topic0: the contracts are inserted in order, the last event of a topic
\* replaces the others, whatever contract it is of.
by_topic0(contracts) ==
    [t \in {EventAt(contracts, ij).topic0 : ij \in WantedEvents(contracts)} |->
        LET same == {ij \in WantedEvents(contracts) : EventAt(contracts, ij).topic0 = t}
            last == CHOOSE x \in same : \A y \in same : Later(x, y)
        IN  [event |-> EventAt(contracts, last),
             schema |-> schema_for(EventAt(contracts, last), EventTable(contracts, last))]]

\* by_call: keyed by the address too.
by_call(contracts) ==
    [k \in {<<contracts[ij[1]].address, FunctionAt(contracts, ij).selector>> :
                ij \in WantedFunctions(contracts)} |->
        LET same == {ij \in WantedFunctions(contracts) :
                        <<contracts[ij[1]].address, FunctionAt(contracts, ij).selector>> = k}
            last == CHOOSE x \in same : \A y \in same : Later(x, y)
        IN  [function |-> FunctionAt(contracts, last),
             schema |-> schema_for_function(FunctionAt(contracts, last),
                 <<"call", contracts[last[1]].prefix, FunctionAt(contracts, last).name>>)]]

\* EvmDecoder: the index of its contracts and their addresses.
build(contracts) ==
    [addresses |-> {contracts[i].address : i \in DOMAIN contracts},
     by_topic0 |-> by_topic0(contracts), by_call |-> by_call(contracts)]

\* EvmDecoder::schemas, as sets; the aux tables come last, in order.
EventSchemas(decoder) ==
    {decoder.by_topic0[t].schema : t \in DOMAIN decoder.by_topic0} \cup
    {decoder.by_call[k].schema : k \in DOMAIN decoder.by_call}

schemas(decoder) == EventSchemas(decoder) \cup {aux_schemas[1], aux_schemas[2]}

record_filter(decoder) ==
    [addresses |-> decoder.addresses, selectors |-> DOMAIN decoder.by_topic0]

\* The filter of get_logs: any of the addresses with any of the topics; an
\* empty list does not restrict anything.
base_filter(filter, log) ==
    /\ filter.addresses = {} \/ log.address \in filter.addresses
    /\ filter.selectors = {} \/ log.topic0 \in filter.selectors

-----------------------------------------------------------------------------
(* Decoding.                                                               *)

\* decode_log_parts gives an indexed parameter that does not fit a topic as its
\* 32-byte hash.
HashedTopic(ty) == ty \in {"string", "bytes", "tuple"} \cup Arrays

\* The EventValue of a decoded value.
to_value(ty) ==
    CASE ty = "address" -> "Address" [] ty = "bool" -> "Bool" [] ty = "string" -> "String"
      [] ty = "uint256" -> "Uint" [] ty = "int128" -> "Int"
      [] ty \in {"bytes", "bytes4"} -> "Bytes"
      [] OTHER -> "Json"

\* The type with which an EventValue reaches Postgres.
bind_value(value) ==
    CASE value \in {"Address", "Bytes", "Hash"} -> "bytea"
      [] value = "Bool" -> "boolean" [] value = "String" -> "text"
      [] value \in {"Uint", "Int"} -> "numeric" [] value = "Json" -> "jsonb"

\* A hash that decode_event does not expect is a value like another: 32 bytes.
BoundAs(p) ==
    bind_value(CASE indexed_hash(p) -> "Hash"
                 [] p.indexed /\ HashedTopic(p.ty) /\ ~indexed_hash(p) -> "Bytes"
                 [] OTHER -> to_value(p.ty))

Indexed(event) == {i \in DOMAIN event.inputs : event.inputs[i].indexed}

\* decode_log_parts wants one topic per indexed parameter.
Decodes(event, log) == log.topics = Cardinality(Indexed(event))

\* The fields of a decoded log: column name -> how the value is bound.
Fields(schema, inputs) ==
    [n \in {schema.columns[i].name : i \in DOMAIN inputs} |->
        BoundAs(inputs[CHOOSE i \in DOMAIN inputs : schema.columns[i].name = n])]

decode(decoder, log) ==
    LET entry == decoder.by_topic0[log.topic0]
    IN  [table |-> entry.schema.table, key |-> <<log.height, log.idx>>,
         fields |-> Fields(entry.schema, entry.event.inputs)]

decode_call(decoder, tx) ==
    LET entry == decoder.by_call[<<tx.to, tx.selector>>]
    IN  [table |-> entry.schema.table, key |-> <<tx.id>>,
         fields |-> Fields(entry.schema, Unindexed(entry.function.inputs))]

=============================================================================
