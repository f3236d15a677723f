-------------------------- MODULE MCAlkanesExecute ---------------------------
\* Requests of AlkanesExecute for TLC
EXTENDS AlkanesExecute

Stone(cellpack, edicts, transfer) == [cellpack |-> cellpack, edicts |-> edicts, transfer |-> transfer]
Edict(amount, target) == [alkane |-> <<2, 0>>, amount |-> amount, target |-> target]

MCCall == <<3, 1, 77>>
MCPlain == Stone(MCCall, << >>, << >>)
MCOrdered == Stone(MCCall, <<Edict(8, <<"stone", 1>>), Edict(7, <<"out", 1>>), Edict(7, <<"out", 0>>)>>, << >>)
MCSplit == Stone(<< >>, <<Edict(7, <<"split", 0>>)>>, << >>)
MCBackwards == Stone(MCCall, <<Edict(7, <<"stone", 0>>)>>, << >>)
MCTransfer == Stone(MCCall, << >>, <<"out", 0, 90000>>)
MCHuge == Stone(MCCall, << >>, <<"out", 0, AmountSpan - 1>>)

Execution(e, s, to, c, b, r, a) ==
    [kind |-> "execute", envelope |-> e, script |-> 300, stones |-> s, to |-> to, change |-> c, bitcoin |-> b,
     rate |-> r, auto |-> a, mine |-> a, trace |-> a]

\* Deployments with either fee rate, mined and not, of a small script and of one that its fee does not pay for; a transfer, which
\* only a caller of the library can ask for; amounts that overflow; and the requests
\* each check of the executor refuses
MCExecutions ==
    {Execution(TRUE, <<MCPlain>>, 2, TRUE, 0, ra[1], ra[2]) : ra \in {<<1, FALSE>>, <<600, TRUE>>}}
        \union {[Execution(TRUE, <<MCPlain>>, 2, TRUE, 0, 1, FALSE) EXCEPT !.script = 20000]}
        \union {Execution(FALSE, <<MCTransfer>>, 2, TRUE, 3001, 1, FALSE)}
        \union {Execution(FALSE, <<MCHuge>>, 2, TRUE, 0, 1, FALSE)}
        \union {Execution(TRUE, <<MCPlain>>, 2, TRUE, AmountSpan - 1, 1, FALSE)}
        \union {Execution(e, <<MCPlain>>, 0, TRUE, 3001, 1, TRUE) : e \in BOOLEAN}
        \union {Execution(TRUE, s, 2, TRUE, 0, 1, TRUE) :
                    s \in {<<MCOrdered, MCSplit>>, <<MCBackwards>>}}

(* ---- the text of a protostone ---- *)

Num(n) == <<"num", n>>
Target(t) == <<CASE t[1] = "stone" -> <<"p", t[2]>>
                 [] t[1] = "out" -> <<"v", t[2]>>
                 [] OTHER -> Token("split")>>

EdictText(edict) ==
    <<Open, Num(edict.alkane[1]), Colon, Num(edict.alkane[2]), Colon, Num(edict.amount), Colon>>
        \o Target(edict.target) \o <<Close>>

TransferText(transfer) ==
    <<Token("B"), Colon, Num(transfer[3]), Colon>> \o Target(transfer)

\* [3,1, 77]:v0:v0:[2:0:amount:target]...
StoneText(stone) ==
    LET edicts == stone.edicts
    IN  (IF stone.cellpack # << >>
         THEN <<Open, Num(3), Comma, Num(1), Comma, Space, Num(77), Close, Colon>> ELSE << >>)
        \o <<<<"v", 0>>, Colon, <<"v", 0>>>>
        \o FlattenSeq([i \in DOMAIN edicts |-> <<Colon>> \o EdictText(edicts[i])])

Line(args, meant, documented) ==
    [args |-> args,
     inputs |-> <<Token("B"), Colon, Num(3001), Comma, Space, Num(2), Colon, Num(0), Colon, Num(7)>>,
     options |-> [kind |-> "execute", envelope |-> FALSE, script |-> 0, stones |-> << >>, to |-> 2, change |-> TRUE,
                  bitcoin |-> 0, rate |-> 1, auto |-> FALSE, mine |-> FALSE, trace |-> FALSE,
                  meant |-> meant, needed |-> 3001, documented |-> documented]]

\* In the documented form: protostones, two of them and a transfer. In others: a
\* protostone in an argument of its own and a bracket left open.
MCCommandLines ==
    {Line(<<StoneText(s)>>, <<s>>, TRUE) : s \in {MCPlain, MCBackwards}}
        \union {Line(<<StoneText(s) \o <<Comma, Space>> \o StoneText(MCSplit)>>, <<s, MCSplit>>, TRUE) :
                    s \in {MCOrdered}}
        \union {Line(<<StoneText(s) \o <<Comma>> \o TransferText(MCTransfer.transfer)>>, <<MCTransfer>>, TRUE) :
                    s \in {MCPlain}}
        \union {Line(<<StoneText(MCOrdered), StoneText(MCSplit)>>, << >>, FALSE),
                Line(<<SubSeq(StoneText(MCPlain), 1, 4)>>, << >>, FALSE)}

MCSends == {[kind |-> "send", amount |-> n, rate |-> r] : n \in {117000, 119800}, r \in {1}}

MCPoolCalls ==
    {[op |-> o, token |-> "A", amounts |-> t, rate |-> 1] :
        o \in {"create_pool", "add_liquidity", "remove_liquidity", "swap"}, t \in {<<5, 0>>, <<5, 5>>}}

MCInitialCoins == <<60000, 120000>>

\* The instance tries these requests and no others.
ASSUME MCRequests == Executions = MCExecutions /\ CommandLines = MCCommandLines
=============================================================================
