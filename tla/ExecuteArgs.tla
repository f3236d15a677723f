----------------------------- MODULE ExecuteArgs -----------------------------
(***************************************************************************)
(* The arguments of `alkanes execute` as text, and what the parsers of     *)
(* alkanes/parsing.rs make of them. A text is a sequence of tokens, a word *)
(* and its number; a word is one of the delimiters, `num`, `v` (vN), `p`   *)
(* (pN), `split` or `B`. The result of a parser is a set, empty for an     *)
(* Err.                                                                    *)
(***************************************************************************)
EXTENDS Integers, Sequences, SequencesExt, FiniteSetsExt

CONSTANT AmountSpan     \* one more than the largest u64 (2^64 in the code)

ASSUME SpanAssumption == AmountSpan \in Nat \ {0}

Token(word) == <<word, 0>>
Open == Token("[")
Close == Token("]")
Colon == Token(":")
Comma == Token(",")
Space == Token(" ")

-----------------------------------------------------------------------------
(* Text *)

\* str::trim
Trim(text) ==
    LET words == {i \in DOMAIN text : text[i] # Space}
    IN  IF words = {} THEN << >> ELSE SubSeq(text, Min(words), Max(words))

\* str::split
Split(text, delimiter) ==
    LET cuts == {i \in DOMAIN text : text[i] = delimiter}
        at   == <<0>> \o SetToSortSeq(cuts, <) \o <<Len(text) + 1>>
    IN  [k \in 1..(Cardinality(cuts) + 1) |-> SubSeq(text, at[k] + 1, at[k + 1] - 1)]

Depth(text, n) == Quantify(1..n, LAMBDA i : text[i] = Open) - Quantify(1..n, LAMBDA i : text[i] = Close)

\* Mutant: the part after the last delimiter is not pushed.
split_respecting_brackets_NoLast(text, delimiter) ==
    LET cut(i)   == text[i] = delimiter /\ Depth(text, i) = 0
        marked   == [i \in DOMAIN text |-> IF cut(i) THEN Token("cut") ELSE text[i]]
        parts    == Split(marked, Token("cut"))
    IN  {SelectSeq([i \in DOMAIN Front(parts) |-> Trim(parts[i])], LAMBDA part : part # << >>)}

\* Parts that are empty are left out.
split_respecting_brackets(text, delimiter) ==
    LET cut(i)   == text[i] = delimiter /\ Depth(text, i) = 0
        marked   == [i \in DOMAIN text |-> IF cut(i) THEN Token("cut") ELSE text[i]]
        parts    == Split(marked, Token("cut"))
        balanced == /\ \A i \in DOMAIN text : Depth(text, i) >= 0
                    /\ Depth(text, Len(text)) = 0
    IN  IF balanced
        THEN {SelectSeq([i \in DOMAIN parts |-> Trim(parts[i])], LAMBDA part : part # << >>)}
        ELSE {}

Bracketed(part) == part # << >> /\ Head(part) = Open /\ Last(part) = Close
Inner(part) == SubSeq(part, 2, Len(part) - 1)

\* The results of several parsers, unless one is an Err
Collect(results) ==
    IF \E i \in DOMAIN results : results[i] = {} THEN {}
    ELSE {[i \in DOMAIN results |-> CHOOSE value \in results[i] : TRUE]}

\* str::parse, of a number of a cellpack (u128) and of an amount or an id (u64)
Number(part) == IF Len(part) = 1 /\ part[1][1] = "num" THEN {part[1][2]} \cap Nat ELSE {}
Amount(part) == {n \in Number(part) : n < AmountSpan}

-----------------------------------------------------------------------------
(* Protostones *)

parse_output_target(part) ==
    LET text == Trim(part)
    IN  IF Len(text) # 1 THEN {}
        ELSE CASE text[1][1] = "split" -> {<<"split", 0>>}
               [] text[1][1] = "v" -> {<<"out", text[1][2]>>}
               [] text[1][1] = "p" -> {<<"stone", text[1][2]>>}
               [] OTHER -> {}

\* At least a target, block and tx
parse_cellpack(text) ==
    LET parts == Split(text, Comma)
    IN  {values \in Collect([i \in DOMAIN parts |-> Number(Trim(parts[i]))]) : Len(values) >= 2}

\* block:tx:amount:target, or the same in a second pair of brackets
parse_edict(part) ==
    LET text  == Trim(part)
        again == Bracketed(text)
        parts == Split(IF again THEN Inner(text) ELSE text, Colon)
    IN  IF Len(parts) < 4 \/ (again /\ Len(parts) # 4) THEN {}
        ELSE {[alkane |-> SubSeq(numbers, 1, 2), amount |-> numbers[3], target |-> target] :
                 numbers \in Collect([i \in 1..3 |-> Amount(parts[i])]),
                 target \in parse_output_target(parts[4])}

\* [cellpack]:pointer:refund:[edict]...: the pointers are parsed and dropped, and
\* what is no edict after them is passed over. No part starts with "B:", since the
\* text is split at its colon, so that there is never a Bitcoin transfer.
parse_single_protostone(text) ==
    UNION {LET packed == parts # << >> /\ Bracketed(Head(parts))
               rest   == IF packed THEN Tail(parts) ELSE parts
               edicts == SelectSeq(SubSeq(rest, 3, Len(rest)), Bracketed)
               valid  == \A i \in DOMAIN rest : i <= 2 => parse_output_target(rest[i]) # {}
           IN  {[cellpack |-> cellpack, edicts |-> all, transfer |-> << >>] :
                   cellpack \in IF packed THEN parse_cellpack(Inner(Head(parts))) ELSE {<< >>},
                   all \in IF valid THEN Collect([i \in DOMAIN edicts |-> parse_edict(Inner(edicts[i]))])
                           ELSE {}} :
           parts \in split_respecting_brackets(text, Colon)}

parse_protostones(text) ==
    UNION {Collect([i \in DOMAIN parts |-> parse_single_protostone(parts[i])]) :
              parts \in split_respecting_brackets(text, Comma)}

-----------------------------------------------------------------------------
(* The other arguments *)

\* B:amount, or block:tx:amount, which selects no coins
parse_input_requirements(text) ==
    LET parts == Split(text, Comma)
        requirement(part) ==
            IF Len(part) >= 2 /\ part[1] = Token("B") /\ part[2] = Colon
            THEN Amount(SubSeq(part, 3, Len(part)))
            ELSE IF Len(Split(part, Colon)) = 3
            THEN {0 : numbers \in Collect([i \in 1..3 |-> Amount(Split(part, Colon)[i])])}
            ELSE {}
    IN  Collect([i \in DOMAIN parts |-> requirement(Trim(parts[i]))])

\* The binary takes each protostone as an argument of its own, and joins them
\* with a space.
JoinedStones(args) == FlattenSeq([i \in DOMAIN args |-> IF i = 1 THEN args[i] ELSE <<Space>> \o args[i]])

\* to_enhanced_execute_params: the protostones and the bitcoin required
to_enhanced_execute_params(args, inputs) ==
    {<<stones, SumFunction(amounts)>> :
        stones \in parse_protostones(JoinedStones(args)),
        amounts \in IF inputs = << >> THEN {<< >>} ELSE parse_input_requirements(inputs)}
=============================================================================
