------------------------------ MODULE Runestone ------------------------------
(***************************************************************************)
(* Reading a runestone from a transaction (runestone_enhanced.rs): the     *)
(* decoder deezel wrote itself, from the bytes of the script up to the     *)
(* operation a protostone asks for, and the one the indexer and the        *)
(* commands use, which leaves the deciphering to the ordinals crate.       *)
(*                                                                         *)
(* A byte is [bits, more]: the bits it adds to a varint and whether it     *)
(* says that more bytes follow.                                            *)
(***************************************************************************)
EXTENDS Integers, Sequences, SequencesExt, FiniteSetsExt

CONSTANTS
    Group,      \* bits of a byte that count: 7
    Width       \* bits of a u128: 128

ASSUME RunestoneAssumption == Group \in Nat \ {0} /\ Width \in Nat \ {0} /\ Group < Width

\* 2^k
Pow2[k \in Nat] == IF k = 0 THEN 1 ELSE 2 * Pow2[k - 1]

Bytes == [bits : 0..(Pow2[Group] - 1), more : BOOLEAN]

\* n as u8
AsByte(n) == n % Pow2[Group + 1]

RUNESTONE_MAGIC_NUMBER == 13
DIESEL == 1
ALKANE == 2
PROTORUNE == 3
ALKANE_STATE == 4
ALKANE_EVENT == 5
DieselMint == <<2, 0, 77>>
CallTypes == <<"deploy", "call", "upgrade">>
ProtoruneOperations == <<"mint", "transfer", "burn", "split", "join">>

Fails == [ok |-> FALSE]
Gives(value) == [ok |-> TRUE, value |-> value]

-----------------------------------------------------------------------------
(* Varints *)

\* The last byte of the largest integers is refused.
VarintTurn_EarlyBound(v, byte) ==
    LET shift == v.shift + Group
    IN  IF v.state # "more" THEN v
        ELSE [value  |-> (v.value + byte.bits * Pow2[v.shift]) % Pow2[Width],
              shift  |-> shift,
              length |-> v.length + 1,
              state  |-> IF ~byte.more THEN "done"
                         ELSE IF shift > Width - Group THEN "too large" ELSE "more"]

\* A turn of the loop of decode_varint; u128::from(bits) << shift loses what does
\* not fit.
VarintTurn(v, byte) ==
    LET shift == v.shift + Group
    IN  IF v.state # "more" THEN v
        ELSE [value  |-> (v.value + byte.bits * Pow2[v.shift]) % Pow2[Width],
              shift  |-> shift,
              length |-> v.length + 1,
              state  |-> IF ~byte.more THEN "done"
                         ELSE IF shift > Width - 1 THEN "too large" ELSE "more"]

\* Err("Truncated varint") when the bytes end before the varint does.
decode_varint(bytes) ==
    FoldLeft(VarintTurn, [value |-> 0, shift |-> 0, length |-> 0, state |-> "more"], bytes)

decode_integers(payload) ==
    LET From[i \in 1..(Len(payload) + 1)] ==
            LET v == decode_varint(SubSeq(payload, i, Len(payload)))
            IN  IF i > Len(payload) THEN Gives(<<>>)
                ELSE IF v.state # "done" THEN Fails
                ELSE LET rest == From[i + v.length]
                     IN  IF rest.ok THEN Gives(<<v.value>> \o rest.value) ELSE Fails
    IN  From[1]

-----------------------------------------------------------------------------
(* Tags *)

extract_protocol_data_OneByOne(integers) ==
    LET Turn(acc, n) ==
            [tag  |-> n,
             data |-> IF acc.tag = RUNESTONE_MAGIC_NUMBER THEN Append(acc.data, n)
                      ELSE acc.data]
    IN  FoldLeft(Turn, [tag |-> -1, data |-> <<>>], integers).data

\* The loop that keeps the values of tag 13: `tag` is the one whose value comes
\* next, or -1.
extract_protocol_data(integers) ==
    LET Turn(acc, n) ==
            IF acc.tag = -1 THEN [acc EXCEPT !.tag = n]
            ELSE [tag  |-> -1,
                  data |-> IF acc.tag = RUNESTONE_MAGIC_NUMBER THEN Append(acc.data, n)
                           ELSE acc.data]
    IN  FoldLeft(Turn, [tag |-> -1, data |-> <<>>], integers).data

\* Pairs of a tag and a value; an odd last integer is skipped.
extract_all_tags(integers) ==
    LET pairs == 1..(Len(integers) \div 2)
        tags  == {integers[2 * k - 1] : k \in pairs}
        ValuesOf(tag) ==
            FlattenSeq([k \in pairs |->
                           IF integers[2 * k - 1] = tag THEN <<integers[2 * k]>> ELSE <<>>])
    IN  [tag \in tags |-> ValuesOf(tag)]

-----------------------------------------------------------------------------
(* Protostones of the manual decoder *)

Decoded(type, operation, details) ==
    [type |-> type, operation |-> operation, details |-> details]

NameOf(names, n) == IF n \in DOMAIN names THEN names[n] ELSE "unknown"

decode_diesel_protostone(message) ==
    Decoded("DIESEL", IF message = DieselMint THEN "mint" ELSE "unknown", FALSE)

\* The selector is the four bytes after the call type.
decode_alkane_protostone(message) ==
    IF Len(message) < 2 THEN Decoded("Alkane", "contract_call", FALSE)
    ELSE Decoded("Alkane", NameOf(CallTypes, message[1]),
                 message[1] = 2 /\ Len(Tail(message)) >= 4)

\* Minting and transferring have details: a token, an amount and a rest.
decode_protorune_protostone(message) ==
    IF Len(message) < 2 THEN Decoded("Protorune", "token_operation", FALSE)
    ELSE Decoded("Protorune", NameOf(ProtoruneOperations, message[1]),
                 message[1] \in {1, 2} /\ Len(Tail(message)) >= 3)

decode_protostone(tag, message) ==
    CASE tag = DIESEL -> decode_diesel_protostone(message)
      [] tag = ALKANE -> decode_alkane_protostone(message)
      [] tag = PROTORUNE -> decode_protorune_protostone(message)
      [] tag = ALKANE_STATE -> Decoded("AlkaneState", "state_operation", FALSE)
      [] tag = ALKANE_EVENT -> Decoded("AlkaneEvent", "event_operation", FALSE)
      [] OTHER -> Decoded("Unknown", "unknown", FALSE)

\* The instructions after OP_RETURN OP_13, each a push of bytes, another opcode or
\* an error: pushes only, joined.
extract_payload_from_instructions(instructions) ==
    IF \E i \in DOMAIN instructions : instructions[i].kind # "push" THEN Fails
    ELSE Gives(FlattenSeq([i \in DOMAIN instructions |-> instructions[i].bytes]))

\* The first output that starts with OP_RETURN OP_13 decides, whatever comes after.
decode_runestone(outputs) ==
    LET at == SelectInSeq(outputs, LAMBDA o : o.magic)
    IN  IF at = 0 THEN Fails
        ELSE LET payload == extract_payload_from_instructions(outputs[at].instructions)
                 read    == IF payload.ok THEN decode_integers(payload.value) ELSE Fails
                 data    == extract_protocol_data(read.value)
                 message == [i \in 1..(Len(data) - 1) |-> AsByte(data[i + 1])]
             IN  IF ~read.ok THEN Fails
                 ELSE Gives([vout          |-> at - 1,
                             raw_integers  |-> read.value,
                             protocol_data |-> data,
                             all_tags      |-> extract_all_tags(read.value),
                             protostone    |-> IF data = <<>> THEN Decoded("none", "none", FALSE)
                                               ELSE decode_protostone(data[1], message)])

-----------------------------------------------------------------------------
(* The decoder that is used *)

\* Runestone::decipher and Protostone::from_runestone, of the ordinals and the
\* protorune crates: no runestone, a cenotaph, protostones that do not parse, or a
\* sequence of protostones.
Artifacts == {"none", "cenotaph", "unreadable", "protostones"}

format_runestone(artifact, protostones) ==
    IF artifact = "protostones" THEN Gives(protostones) ELSE Fails

\* decode_protostone_message: a message that is no list of varints is decoded as
\* None, and the protostone is kept.
decode_protostone_message(message) ==
    IF message = <<>> THEN Gives(<<>>) ELSE decode_integers(message)

\* A pointer, a refund pointer or the output of an edict is described only when it
\* is an output of the transaction; it may be that of a later protostone.
DestinationOf(output, outputs) == IF output < outputs THEN {output} ELSE {}

\* Every protostone in its place, as the indexer reads them back.
format_runestone_with_decoded_messages(artifact, protostones, outputs) ==
    LET stones == format_runestone(artifact, protostones)
        Shown(stone) ==
            [message_decoded |-> decode_protostone_message(stone.message),
             destinations    |-> UNION {DestinationOf(o, outputs) : o \in stone.targets}]
    IN  IF ~stones.ok THEN Fails
        ELSE Gives([i \in DOMAIN stones.value |-> Shown(stones.value[i])])
=============================================================================
