----------------------------- MODULE TraceMatch ------------------------------
(***************************************************************************)
(* The indexers that derive PoolSwap, PoolCreation, PoolMint, PoolBurn,    *)
(* SubfrostWrap and SubfrostUnwrap rows from the trace events of a         *)
(* transaction.                                                            *)
(*                                                                         *)
(* A trace is a flat list of `invoke` and `return` events: the nesting of  *)
(* the calls is not recorded, and every indexer has to guess which return  *)
(* answers an invoke. The module runs a small virtual machine (external)   *)
(* whose calls nest, records the trace it leaves, and derives the rows the *)
(* way the indexers do; the properties compare them with what each call    *)
(* really took and gave.                                                   *)
(*                                                                         *)
(* There is one pool, of tokens t0 and t1, whose id is its LP token, and a *)
(* call of the pool is a leaf: it calls nothing itself. The amounts are    *)
(* read alike in every form a u128 has in the JSON ({hi,lo}, hex,          *)
(* decimal); the ids of the listed alkanes are not, so their form is part  *)
(* of the state. The address columns are copied from the decoded           *)
(* protostone and left out.                                                *)
(***************************************************************************)
EXTENDS Integers, Sequences, SequencesExt, FiniteSetsExt

CONSTANTS
    Purses,       \* the alkanes a protostone may hand to the first call
    MaxVout,      \* the protostones of the transaction are 1..MaxVout
    MaxCalls,     \* bound: calls of the transaction
    MaxDepth,     \* bound: nesting
    MaxOut,       \* bound: the most of a token a pool call gives
    AmountMax,    \* u128::MAX
    Exact,        \* 2^53: up to it every natural number is a double
    Units         \* the powers of two a double may count in

Tokens == <<"t0", "t1", "lp", "fr">>

ASSUME TraceAssumption ==
    /\ MaxVout \in Nat \ {0} /\ MaxCalls \in Nat /\ MaxDepth \in Nat
    /\ MaxOut \in Nat \ {0} /\ AmountMax \in Nat \ {0}
    /\ \A purse \in Purses : purse \in Seq([id : ToSet(Tokens), value : Nat])
    /\ Exact \in Nat \ {0} /\ Exact % 2 = 0
    /\ Units \subseteq Nat \ {0} /\ 1 \in Units
    /\ \A u \in Units \ {1} : \E v \in Units : u = 2 * v
    /\ \A u, v \in Units : u <= v => v % u = 0
    /\ \E u \in Units : AmountMax < Exact * u

VARIABLES
    trace,    \* the events of the transaction, in the order of the node
    stack,    \* the running calls, innermost last: [at, op, hold]
    vout,     \* the protostone that runs, or 0
    done,     \* the protostones that have run
    own,      \* own[i]: the return that really answers the invoke at i (a history)
    known,    \* whether the pool has a row in Pool
    rows      \* rows[t][i]: the row of table t for the invoke at i, once indexed,
              \* and rows.form: how the node wrote the ids the indexers read

vars == <<trace, stack, vout, done, own, known, rows>>

PoolOps == {"create", "mint", "burn", "swap"}
SubfrostOps == {"wrap", "unwrap"}

\* how the node writes the id of a listed alkane
Forms == {"hi_lo", "hex"}

(* ---- what a list of alkanes holds ---- *)

\* calculate_token_total: the values of a token, added with saturating_add
Total(alkanes, id) ==
    LET Upto[n \in 0..Len(alkanes)] ==
            IF n = 0 THEN 0
            ELSE IF alkanes[n].id = id THEN Min({Upto[n - 1] + alkanes[n].value, AmountMax})
            ELSE Upto[n - 1]
    IN  Upto[Len(alkanes)]

\* u128::saturating_sub
Less(a, b) == IF a > b THEN a - b ELSE 0

\* `as f64`: the nearest multiple of the unit a number of its size is counted
\* in, and of two as near the even one
AsF64(n) ==
    LET u == CHOOSE u \in Units : n < Exact * u /\ \A v \in Units : n < Exact * v => u <= v
        down == n \div u
        rest == n % u
    IN  IF 2 * rest < u \/ (2 * rest = u /\ down % 2 = 0) THEN u * down ELSE u * (down + 1)

Amount(id, n) == IF n = 0 THEN << >> ELSE <<[id |-> id, value |-> n]>>
Listed(hold) ==
    Amount("t0", hold["t0"]) \o Amount("t1", hold["t1"]) \o Amount("lp", hold["lp"])
        \o Amount("fr", hold["fr"])
Holding(alkanes) == [id \in ToSet(Tokens) |-> Total(alkanes, id)]

(* ---- the virtual machine (external) ---- *)

\* the lists of an amount of one token and one of another
Both(x, ns, y, ms) == UNION {{Amount(x, n) \o Amount(y, m) : n \in ns} : m \in ms}

\* what a caller that holds `hold` may hand to a call, and the amounts it asks for
Requests(op, hold) ==
    CASE op \in {"create", "mint"} ->
            [in : Both("t0", 1..hold["t0"], "t1", 1..hold["t1"])
                  \cup Both("t1", 1..hold["t1"], "t0", 1..hold["t0"]),
             want : {{}}]
      [] op = "burn" -> [in : {Amount("lp", a) : a \in 1..hold["lp"]}, want : {{}}]
      [] op = "swap" ->
            [in : UNION {{Amount(t, a) : a \in 1..hold[t]} : t \in {"t0", "t1"}},
             want : {{}} \cup {{0, e} : e \in 1..MaxOut}]
      [] op = "wrap" -> [in : {<< >>}, want : {{}}]
      [] op = "unwrap" -> [in : {Amount("fr", a) : a \in 1..hold["fr"]}, want : {{}}]
      [] op = "other" -> [in : {<< >>, Listed(hold)}, want : {{}}]

\* what a call that succeeds may give back for `in`
Answers(call) ==
    LET in(id) == Total(call.in, id)
    IN  CASE call.op \in {"create", "mint"} ->
                Both("lp", 1..MaxOut, "t0", 0..(in("t0") - 1))
          [] call.op = "burn" -> Both("t0", 1..MaxOut, "t1", 1..MaxOut)
          [] call.op = "swap" ->
                {Amount(IF in("t0") > 0 THEN "t1" ELSE "t0", n) :
                   n \in IF call.want = {} THEN 1..MaxOut ELSE call.want \ {0}}
          [] call.op = "wrap" -> {Amount("fr", n) : n \in 1..MaxOut}
          [] call.op = "unwrap" -> {Amount("fr", c) : c \in 0..(in("fr") - 1)}
          [] call.op = "other" -> {Listed(Last(stack).hold)}

Calls == Quantify(DOMAIN trace, LAMBDA i : trace[i].type = "invoke")

\* a call starts: pool code runs as a delegatecall, everything else as a call
Push(v, op, request) ==
    LET event == [type |-> "invoke", vout |-> v, op |-> op,
                  delegate |-> op \in PoolOps, in |-> request.in, want |-> request.want]
    IN  /\ Calls < MaxCalls
        /\ trace' = Append(trace, event)
        /\ stack' = Append(stack, [at |-> Len(trace) + 1, op |-> op, hold |-> Holding(request.in)])
        /\ UNCHANGED <<own, known, rows>>

Init ==
    /\ trace = << >> /\ stack = << >> /\ vout = 0 /\ done = {}
    /\ own = [i \in {} |-> 0]
    /\ known \in BOOLEAN
    /\ rows = << >>

\* the first call of a protostone; the traces arrive in any order
StartProtostone ==
    /\ rows = << >> /\ stack = << >>
    /\ \E v \in (1..MaxVout) \ done, purse \in Purses :
         /\ vout' = v
         /\ done' = done \cup {v}
         /\ \E op \in {"other"} \cup SubfrostOps :
              \E request \in Requests(op, Holding(purse)) :
                /\ op = "other" => request.in = Listed(Holding(purse))
                /\ Push(v, op, request)

Call ==
    /\ stack # << >>
    /\ Last(stack).op = "other"
    /\ Len(stack) < MaxDepth
    /\ \E op \in {"other"} \cup PoolOps \cup SubfrostOps :
         \E request \in Requests(op, Last(stack).hold) : Push(vout, op, request)
    /\ UNCHANGED <<vout, done>>

\* the innermost call ends; what it gives goes to its caller, and a call that
\* fails leaves its caller what it had, and free to go on
Return ==
    /\ stack # << >>
    /\ LET at == Last(stack).at
           call == trace[at]
           depth == Len(stack)
       IN  /\ own' = [i \in DOMAIN own \cup {at} |-> IF i = at THEN Len(trace) + 1 ELSE own[i]]
           /\ \E ok \in BOOLEAN : \E out \in IF ok THEN Answers(call) ELSE {<< >>} :
                /\ trace' = Append(trace, [type |-> "return", vout |-> vout, ok |-> ok, out |-> out])
                /\ IF depth = 1
                   THEN stack' = << >>
                   ELSE LET caller == stack[depth - 1]
                            spent(id) == IF ok THEN Total(call.in, id) ELSE 0
                        IN  stack' = Append(SubSeq(stack, 1, depth - 2),
                               [caller EXCEPT !.hold =
                                  [id \in ToSet(Tokens) |->
                                      caller.hold[id] - spent(id) + Total(out, id)]])
    /\ UNCHANGED <<vout, done, known, rows>>

(* ---- what the indexers read ---- *)

\* the events sorted by vout, invokes before returns; the sort is stable
Sorted(i, j) ==
    \/ trace[i].vout < trace[j].vout
    \/ /\ trace[i].vout = trace[j].vout
       /\ \/ trace[i].type = "invoke" /\ trace[j].type = "return"
          \/ trace[i].type = trace[j].type /\ i < j

\* the events an indexer takes for its operation: by its opcode, that of a pool in
\* a delegatecall, that of Subfrost in a call of the Subfrost contract
Is(i, op) == trace[i].type = "invoke" /\ trace[i].op = op
is_delegate_invoke(i) == Is(i, "swap") /\ trace[i].delegate
is_delegate_invoke_create(i) == Is(i, "create") /\ trace[i].delegate
is_delegate_invoke_mint(i) == Is(i, "mint") /\ trace[i].delegate
is_delegate_invoke_burn(i) == Is(i, "burn") /\ trace[i].delegate
is_subfrost_wrap_invoke(i) == Is(i, "wrap")
is_subfrost_unwrap_invoke(i) == Is(i, "unwrap")

\* the returns that have the vout of the invoke at i: those after it in the trace,
\* and those after it in the sorted events, where they keep the order of the trace
Candidates(i) ==
    {j \in DOMAIN trace : trace[j].type = "return" /\ trace[j].vout = trace[i].vout /\ i < j}

\* mutant: the vout of the return is not compared
SortedCandidates_AnyVout(i) == {j \in DOMAIN trace : trace[j].type = "return" /\ Sorted(i, j)}

SortedCandidates(i) ==
    {j \in DOMAIN trace :
        trace[j].type = "return" /\ trace[j].vout = trace[i].vout /\ Sorted(i, j)}

In(i, id) == Total(trace[i].in, id)
Out(j, id) == IF j = 0 THEN 0 ELSE Total(trace[j].out, id)

Failed == [ok |-> FALSE, amounts |-> <<0, 0, 0>>]
Made(amounts) == [ok |-> TRUE, amounts |-> amounts]
Created(amounts, ids) == [ok |-> TRUE, amounts |-> amounts, tokens |-> SubSeq(ids, 1, 2)]

(* ---- PoolSwap ---- *)

\* the same over the sorted events
Strict_Sorted(i, expected) ==
    LET Fits(j) == \E a \in ToSet(trace[j].out) :
                      a.id = expected /\ (trace[i].want = {} \/ a.value \in trace[i].want)
    IN  {j \in SortedCandidates(i) : Fits(j)}

\* find_matching_return_strict: the other token, with an amount the call asked for
Strict(i, expected) ==
    LET Fits(j) == \E a \in ToSet(trace[j].out) :
                      a.id = expected /\ (trace[i].want = {} \/ a.value \in trace[i].want)
    IN  {j \in Candidates(i) : Fits(j)}

\* the return taken for the swap at i, 0 if none
SwapReturn(i) ==
    LET expected == IF In(i, "t0") > 0 THEN "t1" ELSE "t0"
        found == IF Strict(i, expected) # {} THEN Strict(i, expected) ELSE Candidates(i)
    IN  IF found = {} THEN 0 ELSE Min(found)

\* the swap at i if the return at j is taken for its own
SwapMade(i, j) ==
    LET forward == Out(j, "t0") = 0 /\ In(i, "t1") = 0
        sold == IF forward THEN "t0" ELSE "t1"
        bought == IF forward THEN "t1" ELSE "t0"
        valid == j # 0 /\ In(i, sold) > 0 /\ Out(j, bought) > 0
    IN  [sold |-> sold, bought |-> bought, ok |-> valid,
         amounts |-> IF valid THEN <<In(i, sold), Out(j, bought)>> ELSE <<0, 0>>]

\* the columns of amounts are of type double
AsStored(made) ==
    [made EXCEPT !.amounts = <<AsF64(made.amounts[1]), AsF64(made.amounts[2])>>]

SwapRow(i) == AsStored(SwapMade(i, SwapReturn(i)))

SwapRows ==
    [i \in {i \in DOMAIN trace :
                 is_delegate_invoke(i) /\ known /\ (In(i, "t0") > 0 \/ In(i, "t1") > 0)}
       |-> SwapRow(i)]

(* ---- PoolCreation, PoolMint, PoolBurn ---- *)

\* the best of the returns at js: the least first score, then the least
\* second one, then the latest
Best(js, first, second) ==
    CHOOSE j \in js : \A k \in js \ {j} :
       \/ first[j] < first[k]
       \/ first[j] = first[k] /\ second[j] < second[k]
       \/ first[j] = first[k] /\ second[j] = second[k] /\ k < j

Minted(i) == {j \in SortedCandidates(i) : Out(j, "lp") > In(i, "lp")}
Net(i, j, id) == Less(In(i, id), Out(j, id))
NetOut(i, j, id) == Less(Out(j, id), In(i, id))

\* the tokens of a list but the LP token, in the order they come
TokensOf(in) ==
    LET Seen[n \in 0..Len(in)] ==
            IF n = 0 THEN << >>
            ELSE IF in[n].id = "lp" \/ in[n].id \in ToSet(Seen[n - 1]) THEN Seen[n - 1]
            ELSE Append(Seen[n - 1], in[n].id)
    IN  Seen[Len(in)]

\* ids: those of what the call takes
CreationTokens(i) == TokensOf(trace[i].in)

\* the net amounts of a creation, or << >> where it is not recorded
CreationAmounts(i) ==
    LET ids == CreationTokens(i)
        js == Minted(i)
        j == Best(js, [k \in js |-> Out(k, ids[1])], [k \in js |-> Out(k, ids[2])])
        nets == <<Net(i, j, ids[1]), Net(i, j, ids[2]), NetOut(i, j, "lp")>>
    IN  IF Len(ids) < 2 \/ js = {} THEN << >>
        ELSE IF 0 \in ToSet(nets) THEN << >> ELSE nets

CreationRows ==
    [i \in {i \in DOMAIN trace : is_delegate_invoke_create(i) /\ CreationAmounts(i) # << >>}
       |-> Created(CreationAmounts(i), CreationTokens(i))]

MintRow(i) ==
    LET js == {j \in Minted(i) : Net(i, j, "t0") > 0 /\ Net(i, j, "t1") > 0}
        j == Best(js, [k \in js |-> Out(k, "t0")], [k \in js |-> Out(k, "t1")])
    IN  IF js = {} THEN Failed
        ELSE Made(<<Net(i, j, "t0"), Net(i, j, "t1"), NetOut(i, j, "lp")>>)

BurnRow(i) ==
    LET js == {j \in SortedCandidates(i) :
                 /\ NetOut(i, j, "t0") > 0 /\ NetOut(i, j, "t1") > 0
                 /\ In(i, "lp") > 0 => Out(j, "lp") < In(i, "lp")}
        j == Best(js, [k \in js |-> Out(k, "lp")], [k \in js |-> 0])
    IN  IF js = {} THEN Failed
        ELSE IF Net(i, j, "lp") = 0 THEN Failed
        ELSE Made(<<NetOut(i, j, "t0"), NetOut(i, j, "t1"), Net(i, j, "lp")>>)

MintRows == [i \in {i \in DOMAIN trace : is_delegate_invoke_mint(i) /\ known} |-> MintRow(i)]
BurnRows == [i \in {i \in DOMAIN trace : is_delegate_invoke_burn(i) /\ known} |-> BurnRow(i)]

(* ---- SubfrostWrap, SubfrostUnwrap ---- *)

Succeeded(i) == {j \in SortedCandidates(i) : trace[j].ok}

\* what is read of the Subfrost token: its id only as a pair of hex strings
Frost(alkanes, form) == IF form = "hex" THEN Total(alkanes, "fr") ELSE 0

\* the first successful return that gives the Subfrost token
WrapRow(i, form) ==
    LET giving == {j \in Succeeded(i) :
                     form = "hex" /\ \E a \in ToSet(trace[j].out) : a.id = "fr"}
    IN  IF giving = {} THEN [ok |-> FALSE, amount |-> 0]
        ELSE [ok |-> TRUE, amount |-> Frost(trace[Min(giving)].out, form)]

\* mutant: a refund is counted as burned
UnwrapRow_Gross(i, form) ==
    IF Succeeded(i) = {} THEN [ok |-> FALSE, amount |-> 0]
    ELSE [ok |-> TRUE, amount |-> Frost(trace[i].in, form)]

\* the first successful return, whatever it gives
UnwrapRow(i, form) ==
    IF Succeeded(i) = {} THEN [ok |-> FALSE, amount |-> 0]
    ELSE [ok |-> TRUE,
          amount |-> Less(Frost(trace[i].in, form), Frost(trace[Min(Succeeded(i))].out, form))]

WrapRows(form) ==
    [i \in {i \in DOMAIN trace : is_subfrost_wrap_invoke(i)} |-> WrapRow(i, form)]
UnwrapRows(form) ==
    [i \in {i \in DOMAIN trace : is_subfrost_unwrap_invoke(i)} |-> UnwrapRow(i, form)]

(* ---- inspect ---- *)

\* The tool decodes the swaps and creations of a transaction again, from the rows
\* of TraceEvent: `order by vout`, invokes before returns, so that the returns of
\* an invoke's vout come in any order and the first and the last that fit may be
\* any that fits. A result is what is printed, or Nothing.
Nothing == [ok |-> FALSE]
SomeOf(js) == IF js = {} THEN {0} ELSE js

\* inspect's own find_matching_return_strict knows ids in the form {hi,lo} only:
\* no other is the expected token's
InspectStrict(i, expected, form) ==
    IF form = "hi_lo" THEN Strict_Sorted(i, expected) ELSE {}

\* simulate_pool_swaps
InspectedSwaps(i, form) ==
    LET expected == IF In(i, "t0") > 0 THEN "t1" ELSE "t0"
        strict == InspectStrict(i, expected, form)
        js == IF strict # {} THEN strict ELSE SortedCandidates(i)
    IN  {IF SwapMade(i, j).ok THEN SwapMade(i, j) ELSE Nothing : j \in SomeOf(js)}

\* mutant: the vout of the return is not compared
LpReturns_AnyVout(i) ==
    {j \in SortedCandidates_AnyVout(i) : trace[j].ok /\ Out(j, "lp") > In(i, "lp")}

\* find_last_success_return_with_lp
LpReturns(i) ==
    {j \in SortedCandidates(i) : trace[j].ok /\ Out(j, "lp") > In(i, "lp")}

\* simulate_pool_creations
InspectedCreations(i) ==
    LET ids == CreationTokens(i)
        nets(j) == <<Net(i, j, ids[1]), Net(i, j, ids[2]), NetOut(i, j, "lp")>>
    IN  IF Len(ids) < 2 THEN {Nothing}
        ELSE {IF j = 0 \/ 0 \in ToSet(nets(j)) THEN Nothing
              ELSE Created(nets(j), ids) : j \in SomeOf(LpReturns(i))}

\* the six indexers run once the whole transaction is traced
IndexTransaction ==
    /\ stack = << >> /\ trace # << >> /\ rows = << >>
    /\ \E form \in Forms :
         rows' = [form |-> form, swap |-> SwapRows, create |-> CreationRows,
                  mint |-> MintRows, burn |-> BurnRows,
                  wrap |-> WrapRows(form), unwrap |-> UnwrapRows(form)]
    /\ UNCHANGED <<trace, stack, vout, done, own, known>>

Next == StartProtostone \/ Call \/ Return \/ IndexTransaction

Spec == Init /\ [][Next]_vars

(* ---- properties ---- *)

Indexed == rows # << >>
Attempts(op) == {i \in DOMAIN trace : Is(i, op)}

Ok(i) == trace[own[i]].ok

\* the other calls of the same protostone
Others(i) == {k \in DOMAIN trace : k # i /\ trace[k].type = "invoke" /\ trace[k].vout = trace[i].vout}
Encloses(k, i) == k < i /\ own[i] < own[k]
First(i) == Min(Others(i) \cup {i})

Doubles == {m * u : m \in 0..Exact, u \in Units}
Apart(a, b) == IF a > b THEN a - b ELSE b - a
IsNearest(d, n) == d \in Doubles /\ \A e \in Doubles : Apart(n, d) <= Apart(n, e)

\* Every swap that succeeds is recorded once with the amount it took and the
\* amount it gave, as exactly as the columns can (the amount itself up to
\* 2^53), whatever other calls its protostone makes of the same pool or not:
\* find_matching_return_strict finds its own return.
SwapsExact ==
    Indexed /\ known =>
      \A i \in Attempts("swap") : Ok(i) =>
        LET sold == IF In(i, "t0") > 0 THEN "t0" ELSE "t1"
            bought == IF In(i, "t0") > 0 THEN "t1" ELSE "t0"
        IN  /\ i \in DOMAIN rows.swap
            /\ rows.swap[i].ok
            /\ rows.swap[i].sold = sold /\ rows.swap[i].bought = bought
            /\ IsNearest(rows.swap[i].amounts[1], In(i, sold))
            /\ IsNearest(rows.swap[i].amounts[2], Out(own[i], bought))

SolePoolCall(i) == \A k \in Others(i) : trace[k].op \notin PoolOps

\* A creation, mint or burn that succeeds, the only call of the pool in its
\* protostone, is recorded with the net amounts of its own call, although the
\* sorted events no longer say which return is whose. It takes callers that
\* hold none of what the call gives: among equal returns the latest is taken,
\* which is a caller's, and what that hands out besides would be counted too.
LiquidityExact ==
    Indexed =>
      \A i \in Attempts("create") \cup Attempts("mint") \cup Attempts("burn") :
        LET op == trace[i].op
            j == own[i]
            ids == IF op = "create" THEN CreationTokens(i) ELSE <<"t0", "t1">>
            nets == IF op = "burn"
                    THEN <<NetOut(i, j, "t0"), NetOut(i, j, "t1"), Net(i, j, "lp")>>
                    ELSE <<Net(i, j, ids[1]), Net(i, j, ids[2]), NetOut(i, j, "lp")>>
        IN  /\ Ok(i) /\ SolePoolCall(i)
            /\ op = "create" \/ known
            /\ \A id \in IF op = "burn" THEN {"t0", "t1"} ELSE {"lp"} : In(First(i), id) = 0
            => /\ i \in DOMAIN rows[op]
               /\ rows[op][i].ok /\ rows[op][i].amounts = nets

\* A wrap or an unwrap that succeeds, made by calls that only contain it, is
\* recorded with the amount it minted or burned, when the node writes ids as
\* hex strings: the row must come from the returns of its own vout, and a
\* refund must not be counted as burned.
SubfrostExact ==
    Indexed /\ rows.form = "hex" =>
      \A i \in Attempts("wrap") \cup Attempts("unwrap") :
        LET given == Out(own[i], "fr")
        IN  Ok(i) /\ (\A k \in Others(i) : Encloses(k, i))
            => rows[trace[i].op][i] =
                 [ok |-> TRUE,
                  amount |-> IF trace[i].op = "wrap" THEN given ELSE In(i, "fr") - given]

\* the calls of the protostone of i only contain one another, and hand on all
\* they hold
HandedOn(i) ==
    /\ \A k \in Others(i) : Encloses(k, i)
    /\ \A id \in ToSet(Tokens) : In(First(i), id) = In(i, id)

\* what inspect may print for the swap at i, with amounts as a row has them
InspectedRows(i) ==
    {IF made.ok THEN AsStored(made) ELSE made : made \in InspectedSwaps(i, rows.form)}

\* Where the calls of a protostone only contain one another and hand on all they
\* hold, inspect prints the swap or the creation that is stored, a swap's
\* amounts up to the rounding of the columns, in whatever order the database
\* lists the returns. What a caller keeps would be counted: the return inspect
\* takes may be the caller's. Where ids are hex strings inspect takes any return
\* of the vout for a swap's, so that the callers must have succeeded as well.
InspectAgrees ==
    Indexed /\ known =>
      \A i \in Attempts("swap") \cup Attempts("create") :
        /\ Ok(i)
        /\ HandedOn(i)
        => IF trace[i].op = "create"
           THEN InspectedCreations(i) = {rows.create[i]}
           ELSE rows.form = "hi_lo" \/ (\A k \in Others(i) : Ok(k))
                => InspectedRows(i) = {rows.swap[i]}
=============================================================================
