-------------------------------- MODULE Armor --------------------------------
(***************************************************************************)
(* The ASCII armor of deezel-asc, which the encrypted mnemonic of a        *)
(* keystore is written in. A text is a sequence of symbols: the line       *)
(* `BEGIN` with the name of the block, `c` (a character of base64), `=`,   *)
(* `nl`, and `END`, the line that closes the block.                        *)
(***************************************************************************)
EXTENDS Integers, Sequences, SequencesExt, FiniteSetsExt

CONSTANT LineWidth      \* characters of a line of the body: 64

ASSUME ArmorAssumption == LineWidth \in Nat \ {0}

\* The base64 crate (external): n bytes in groups of four characters, the last
\* one filled up.
EncodedLength(n) == 4 * ((n + 2) \div 3)
Base64(n) ==
    LET padding == (3 - (n % 3)) % 3
    IN  [i \in 1 .. EncodedLength(n) |-> IF i > EncodedLength(n) - padding THEN "=" ELSE "c"]

-----------------------------------------------------------------------------
(* writer.rs *)

\* The keystore gives no headers: the line of the block and an empty one.
write_header == <<"BEGIN", "nl">>

write_body(n) ==
    LET encoded == Base64(n)
        End(i)  == i % LineWidth = 0 \/ i = Len(encoded)
    IN  FlattenSeq([i \in 1..Len(encoded) |->
                       IF End(i) THEN <<encoded[i], "nl">> ELSE <<encoded[i]>>])

\* The checksum is three bytes, and has no padding.
write_footer(include_checksum) ==
    (IF include_checksum THEN <<"=", "c", "c", "c", "c", "nl">> ELSE << >>) \o <<"END">>

write(n, include_checksum) == write_header \o write_body(n) \o write_footer(include_checksum)

-----------------------------------------------------------------------------
(* reader.rs *)

ChecksumWindow == 9

\* Where the body stops: at the closing line, or at an `=` that a line end and the
\* closing line follow within a few characters. The set is empty for None.
FooterStarts(text) ==
    {i \in DOMAIN text :
        \/ text[i] = "END"
        \/ /\ text[i] = "="
           /\ \E j \in (i + 1) .. (i + ChecksumWindow) :
                /\ j < Len(text) /\ text[j] = "nl" /\ text[j + 1] = "END"
                /\ \A k \in (i + 1) .. (j - 1) : text[k] # "nl"}

find_footer_start(text) ==
    LET starts == FooterStarts(text)
    IN  IF starts = {} THEN {} ELSE {Min(starts)}

\* armor_header: the line of the block; what has no colon is no header.
armor_header(text) == IF text # << >> /\ Head(text) = "BEGIN" THEN {Tail(text)} ELSE {}

BlankSkipped(text) == IF text # << >> /\ Head(text) = "nl" THEN Tail(text) ELSE text

\* The body without its line ends
Cleaned(text) ==
    FlattenSeq([i \in 1..Len(text) |-> IF text[i] = "nl" THEN <<>> ELSE <<text[i]>>])

\* The base64 crate (external): the number of bytes, in a set that is empty for an Err.
Unbase64(content) ==
    {n \in 0..Len(content) : EncodedLength(n) = Len(content) /\ Base64(n) = content}

\* The number of bytes read, in a set that is empty for an Err. The checksum is
\* not looked at.
decode(text) ==
    UNION {LET rest == BlankSkipped(body)
           IN  UNION {Unbase64(Cleaned(SubSeq(rest, 1, at - 1))) : at \in find_footer_start(rest)} :
           body \in armor_header(text)}
=============================================================================
