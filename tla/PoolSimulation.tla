--------------------------- MODULE PoolSimulation ----------------------------
(***************************************************************************)
(* What AmmManager makes of the answers to `alkanes_simulate`: the ids of  *)
(* the factory's pools, and the tokens and amounts of one pool.            *)
(*                                                                         *)
(* The data of an answer is a sequence of words of 16 bytes, the size of   *)
(* every field; << >> is "0x". An id is two words, of which the code keeps *)
(* the low halves, where all ids of the chain are. The name of a pool,     *)
(* which follows its amounts, is left out. A result is a set, empty for an *)
(* Err.                                                                    *)
(***************************************************************************)
EXTENDS ProviderCall, Integers, Sequences

\* The data of what call returned; a value without `execution.data` has none.
\* `execution.error` is not looked at.
DataOf(reply, data) == IF Call(reply) = "result" THEN data ELSE << >>

\* read_u128_le, at the places of the fields
decode_pool_details(data) ==
    IF Len(data) < 7 THEN {}
    ELSE {[token0 |-> SubSeq(data, 1, 2), token1 |-> SubSeq(data, 3, 4),
           amounts |-> SubSeq(data, 5, 7)]}

get_pool_details_via_raw_simulate(reply, data) ==
    IF Call(reply) = "failed" THEN {} ELSE decode_pool_details(DataOf(reply, data))

\* The entry with index i, two words after the count
parse_alkane_id_from_hex(data, i) == SubSeq(data, 2 * i, 2 * i + 1)

\* A count, and its ids as far as the data holds them
decode_get_all_pools(data) ==
    IF data = << >> THEN {}
    ELSE {{parse_alkane_id_from_hex(data, i) :
              i \in {i \in 1..data[1] : 2 * i + 1 <= Len(data)}}}

get_all_pools_via_raw_simulate(reply, data) ==
    IF Call(reply) = "failed" THEN {} ELSE decode_get_all_pools(DataOf(reply, data))
=============================================================================
