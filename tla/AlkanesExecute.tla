--------------------------- MODULE AlkanesExecute ----------------------------
(***************************************************************************)
(* The transactions deezel's reference copy builds, signs and broadcasts:  *)
(* `wallet send` (ConcreteProvider) and `alkanes execute`                  *)
(* (EnhancedAlkanesExecutor), which is one transaction without an envelope *)
(* and a commit followed by a reveal with one.                             *)
(*                                                                         *)
(* The wallet asks an explorer which coins it has, and broadcasts through  *)
(* a node: the explorer may lag behind the node, another process may spend *)
(* the same coins, an answer may be lost or never come, and the process    *)
(* may die between any two of its steps. Nothing of an execution is        *)
(* stored.                                                                 *)
(*                                                                         *)
(* A transaction is known by its place in txs; the outputs of place 0 are  *)
(* the wallet's first coins. Amounts are satoshis, with the code's own     *)
(* numbers, in u64: a sum wraps around AmountSpan, as in a release build   *)
(* (a debug build panics). The addresses of a request are the recipients'  *)
(* (owner "other") and, for the change address, the wallet's; inputs and   *)
(* outputs count as taproot ones.                                          *)
(***************************************************************************)
EXTENDS ExecuteArgs

CONSTANTS
    InitialCoins,   \* the values of the wallet's coins, a sequence
    CommandLines,   \* the `alkanes execute` commands to try: the texts args and inputs,
                    \* and options, with what the texts mean
    Executions,     \* the EnhancedExecuteParams a caller of the library tries
    Sends,          \* the SendParams to try
    PoolCalls,      \* the AMM operations to try
    MaxRequests,    \* bound: requests of a behaviour
    MaxForeign,     \* bound: coins spent by another process
    MaxFaults,      \* bound: lost answers and crashes
    SyncRetries     \* attempts of sync (60 in the code)

ASSUME ExecuteAssumption ==
    /\ InitialCoins \in Seq(0 .. AmountSpan - 1) /\ MaxRequests \in Nat /\ MaxForeign \in Nat
    /\ MaxFaults \in Nat /\ SyncRetries \in Nat \ {0}

\* What a request holds (EnhancedExecuteParams, SendParams): amounts, output
\* numbers and fee rates are unsigned. bitcoin is the sum of the amounts of its
\* Bitcoin requirements, script the bytes of the script that carries the envelope.
\* The protostones and the bitcoin of a command line come from its texts.
IsTransfer(transfer) ==
    transfer # << >> /\ transfer[1] = "out" =>
        transfer[2] \in Nat /\ transfer[3] \in 0 .. AmountSpan - 1

ASSUME RequestAssumption ==
    /\ \A p \in Executions :
        /\ {p.envelope, p.change} \subseteq BOOLEAN /\ {p.to, p.rate, p.bitcoin, p.script} \subseteq Nat
        /\ p.stones \in Seq({p.stones[i] : i \in DOMAIN p.stones})
        /\ \A i \in DOMAIN p.stones : IsTransfer(p.stones[i].transfer)
    /\ \A line \in CommandLines :
        /\ line.inputs \in Seq({line.inputs[i] : i \in DOMAIN line.inputs})
        /\ {"envelope", "script", "change", "to", "rate", "bitcoin", "stones"} \subseteq DOMAIN line.options
        /\ {line.options.envelope, line.options.change} \subseteq BOOLEAN
        /\ {line.options.to, line.options.rate, line.options.script} \subseteq Nat
    /\ \A call \in PoolCalls :
        call.op \in {"create_pool", "add_liquidity", "remove_liquidity", "swap"} /\ call.rate \in Nat
    /\ \A p \in Sends : p.amount \in 0 .. AmountSpan - 1 /\ p.rate \in Nat

VARIABLES
    txs,        \* the transactions the node has accepted, in order
    indexed,    \* how many of them the explorer has seen
    unlocked,   \* whether the provider holds the decrypted mnemonic
    request,    \* the request that runs, or NoRequest
    phase,      \* where it is
    draft,      \* the transaction it has prepared, or NoDraft
    attempts,   \* attempts of the running sync
    cause,      \* why the last request failed, or "none"
    spent       \* spent[b]: how much of bound b is used up

vars == <<txs, indexed, unlocked, request, phase, draft, attempts, cause, spent>>

(* ---- coins ---- *)

DUST_LIMIT == 546
MAX_FEE_SATS == 100000
EstimatedRevealFee == 50000

NoRequest == [kind |-> "none"]
NoDraft == [step |-> "none"]

Output(value, owner) == [value |-> value, owner |-> owner]
Values(outputs) == MapThenSumSet(LAMBDA i : outputs[i].value, DOMAIN outputs)

\* The outputs of the transaction at a place of txs
OutputsOf(at) ==
    IF at = 0 THEN [i \in DOMAIN InitialCoins |-> Output(InitialCoins[i], "wallet")]
    ELSE txs[at].outputs

Value(coin) == OutputsOf(coin[1])[coin[2]].value
Owner(coin) == OutputsOf(coin[1])[coin[2]].owner
InputValue(coins) == MapThenSumSet(Value, coins)

\* The unspent coins when the first n transactions are applied
Unspent(n) ==
    (UNION {{<<at, i>> : i \in DOMAIN OutputsOf(at)} : at \in 0 .. n})
        \ (UNION {txs[at].inputs : at \in 1 .. n})

Paid(tx) == InputValue(tx.inputs) - Values(tx.outputs)

(* ---- what the wallet computes ---- *)

\* get_utxos: the coins of the wallet's addresses, as the explorer knows them;
\* none is ever frozen
get_utxos == {coin \in Unspent(indexed) : Owner(coin) = "wallet"}

\* select_utxos: coins in the order of the explorer until the amount is
\* reached. An alkanes requirement selects nothing.
select_utxos(amount) ==
    {coins \in SUBSET get_utxos :
        /\ InputValue(coins) >= amount
        /\ coins # {} => \E last \in coins : InputValue(coins \ {last}) < amount}

\* select_coins: the largest coins first, until the amount is reached
select_coins(amount) ==
    {coins \in select_utxos(amount) :
        \A coin \in coins : \A other \in get_utxos \ coins : Value(coin) >= Value(other)}

\* u64 addition
Wrap(amount) == amount % AmountSpan

\* Weights and virtual bytes. A draft is measured with 65 bytes of witness for each
\* input, and 400 for the commit input of a reveal (build_psbt_and_fee).
BaseSize(inputs, outputs) == 10 + 41 * inputs + 43 * outputs
VBytes(weight) == (weight + 3) \div 4
VSize(inputs, outputs, envelope) ==
    VBytes(4 * BaseSize(inputs, outputs) + 2 + 67 * inputs + IF envelope THEN 337 ELSE 0)

\* What sign_psbt leaves in it: a signature of 64 bytes for each input, and in the
\* first of a reveal the script of the envelope and a control block besides
ScriptWitness(script) ==
    100 + script + IF script < 253 THEN 1 ELSE IF script < 65536 THEN 3 ELSE 5
SignedWeight(tx) ==
    4 * BaseSize(Cardinality(tx.inputs), Len(tx.outputs)) + 2 + 66 * Cardinality(tx.inputs)
        + IF tx.step = "reveal" THEN ScriptWitness(request.script) - 66 ELSE 0

\* estimate_tx_vsize
estimate_tx_vsize(inputs, outputs) == 10 + 58 * inputs + 43 * outputs

\* u64::saturating_sub
Sub(a, b) == IF a > b THEN a - b ELSE 0

\* validate_protostones: an edict names a later protostone or a recipient, and
\* a transfer no protostone
validate_protostones(stones, outputs) ==
    \A i \in DOMAIN stones :
        /\ \A k \in DOMAIN stones[i].edicts :
            LET target == stones[i].edicts[k].target
            IN  \/ target[1] = "split"
                \/ target[1] = "out" /\ target[2] < outputs
                \/ target[1] = "stone" /\ target[2] > i - 1 /\ target[2] < Len(stones)
        /\ stones[i].transfer # << >> => stones[i].transfer[1] # "stone"

\* validate_envelope_cellpack_usage
validate_envelope_cellpack_usage(p) ==
    LET cellpack == \E i \in DOMAIN p.stones : p.stones[i].cellpack # << >>
    IN  IF p.envelope THEN cellpack ELSE cellpack \/ p.stones = << >>

\* create_outputs: a recipient gets its share of the bitcoin required, or dust;
\* the change output starts at zero
CanCreateOutputs(p) == Wrap(p.bitcoin) > 0 => p.to > 0
create_outputs(p) ==
    LET share == IF Wrap(p.bitcoin) > 0 THEN Wrap(p.bitcoin) \div p.to ELSE DUST_LIMIT
    IN  [i \in 1 .. p.to |-> Output(Max({share, DUST_LIMIT}), "other")]
            \o IF p.change THEN <<Output(0, "wallet")>> ELSE << >>

\* The transfers of a single transaction overwrite the outputs they name, one
\* after the other
Transferred(outputs, stones) ==
    LET naming(i) == {k \in DOMAIN stones : LET t == stones[k].transfer
                                            IN  t # << >> /\ t[1] = "out" /\ t[2] + 1 = i}
    IN  [i \in DOMAIN outputs |->
            IF naming(i) = {} THEN outputs[i]
            ELSE [outputs[i] EXCEPT !.value = stones[Max(naming(i))].transfer[3]]]

\* What the coins of a single transaction are selected for
BitcoinNeeded_BeforeTransfers(p) == Wrap(Values(create_outputs(p)))

BitcoinNeeded(p) == Wrap(Values(Transferred(create_outputs(p), p.stones)))

\* convert_protostone_specs: an edict to a protostone or to all outputs becomes one
\* to output 0, and the pointer is the target of the transfer
convert_protostone_specs(stones) ==
    LET output(target) == IF target[1] = "out" THEN target[2] ELSE 0
    IN  [i \in DOMAIN stones |->
            [message |-> stones[i].cellpack,
             edicts  |-> [k \in DOMAIN stones[i].edicts |->
                            LET edict == stones[i].edicts[k]
                            IN  [alkane |-> edict.alkane, amount |-> edict.amount,
                                 output |-> output(edict.target)]],
             pointer |-> IF stones[i].transfer = << >> THEN {} ELSE {output(stones[i].transfer)}]]

\* build_psbt_and_fee: the runestone is the last output, the fee is capped, and
\* what is left goes to the first output of value zero
build_psbt_and_fee(coins, outputs, stones, rate, envelope) ==
    LET all    == Append(outputs, Output(0, "runestone"))
        fee    == Min({rate * VSize(Cardinality(coins), Len(all), envelope), MAX_FEE_SATS})
        change == Sub(Sub(InputValue(coins), Wrap(Values(all))), fee)
        spare  == {i \in DOMAIN outputs : outputs[i].value = 0}
    IN  [inputs  |-> coins,
         outputs |-> IF spare = {} THEN all ELSE [all EXCEPT ![Min(spare)].value = change],
         runestone |-> convert_protostone_specs(stones),
         fee     |-> fee]

\* What the commit output has to hold for the reveal
RequiredRevealAmount_NoRecipients(p) == Wrap(DUST_LIMIT + p.bitcoin + EstimatedRevealFee)

RevealAmount(p) == DUST_LIMIT + p.bitcoin + EstimatedRevealFee + p.to * DUST_LIMIT
RequiredRevealAmount(p) == Wrap(RevealAmount(p))

\* build_commit_psbt: the commit output and a change output that is not dust
build_commit_psbt(coins, amount, rate) ==
    LET fee    == rate * VSize(Cardinality(coins), 2, FALSE)
        change == Sub(Sub(InputValue(coins), amount), fee)
    IN  [inputs  |-> coins,
         outputs |-> <<Output(amount, "commit"), Output(change, "wallet")>>,
         runestone |-> << >>,
         fee     |-> fee]

\* create_transaction: the fee is not part of what the coins are selected for,
\* and change that is dust is left to the fee
create_transaction_HighDust(coins, p) ==
    LET fee    == p.rate * estimate_tx_vsize(Cardinality(coins), 2)
        change == InputValue(coins) - p.amount - fee
    IN  [inputs  |-> coins,
         outputs |-> <<Output(p.amount, "other")>>
                        \o IF change > 10 * DUST_LIMIT THEN <<Output(change, "wallet")>> ELSE << >>,
         runestone |-> << >>,
         fee     |-> fee]

create_transaction(coins, p) ==
    LET fee    == p.rate * estimate_tx_vsize(Cardinality(coins), 2)
        change == InputValue(coins) - p.amount - fee
    IN  [inputs  |-> coins,
         outputs |-> <<Output(p.amount, "other")>>
                        \o IF change > DUST_LIMIT THEN <<Output(change, "wallet")>> ELSE << >>,
         runestone |-> << >>,
         fee     |-> fee]

\* extract_tx of the unsigned transaction refuses an absurd fee (25 000 sat/vB) and
\* outputs above the inputs
ExtractTx(tx) ==
    /\ Paid(tx) >= 0
    /\ Paid(tx) <= 25000 * BaseSize(Cardinality(tx.inputs), Len(tx.outputs))

\* The node's rules (external) for the signed transaction: the inputs exist, it is
\* no heavier than what is relayed, a satoshi is paid for each virtual byte, and no
\* output but the runestone is dust
MAX_STANDARD_WEIGHT == 400000

Relays(tx) ==
    /\ tx.inputs # {} /\ tx.inputs \subseteq Unspent(Len(txs))
    /\ SignedWeight(tx) <= MAX_STANDARD_WEIGHT
    /\ Paid(tx) >= VBytes(SignedWeight(tx))
    /\ \A i \in DOMAIN tx.outputs : tx.outputs[i].owner = "runestone" \/ tx.outputs[i].value >= 330

(* ---- a request ---- *)

Init ==
    /\ txs = << >> /\ indexed = 0
    /\ unlocked \in BOOLEAN
    /\ request = NoRequest /\ phase = "idle" /\ draft = NoDraft
    /\ attempts = 0 /\ cause = "none"
    /\ spent = [requests |-> 0, foreign |-> 0, faults |-> 0]

Idle == phase \in {"idle", "done", "failed"}

Uses(bound, max) == spent[bound] < max /\ spent' = [spent EXCEPT ![bound] = @ + 1]

Fail(why) ==
    /\ phase' = "failed" /\ cause' = why
    /\ UNCHANGED <<txs, indexed, unlocked, request, draft, attempts>>

Go(next) == phase' = next /\ UNCHANGED <<txs, indexed, unlocked, request, draft, attempts, cause, spent>>

Prepare(step, tx, next) ==
    /\ draft' = [step |-> step, inputs |-> tx.inputs, outputs |-> tx.outputs,
               runestone |-> tx.runestone, fee |-> tx.fee]
    /\ phase' = next
    /\ UNCHANGED <<txs, indexed, unlocked, request, attempts, cause, spent>>

\* What the AMM manager hands to the executor: no recipient, no change address,
\* requirements that select nothing and a protostone without a cellpack
AmmParams(call) ==
    [kind |-> "execute", envelope |-> FALSE, script |-> 0, to |-> 0, change |-> FALSE, bitcoin |-> 0,
     rate |-> call.rate, auto |-> TRUE, mine |-> FALSE, trace |-> TRUE,
     stones |-> <<[cellpack |-> << >>, edicts |-> << >>, transfer |-> << >>]>>]

AllPositive(amounts) == \A i \in DOMAIN amounts : amounts[i] > 0

\* get_pool_reserves answers nothing, always
get_pool_reserves == << >>

\* The AMM operations: a set of parameters, empty when the arguments are refused.
\* Without reserves the amounts of add_liquidity stay as given, and a swap never
\* finds its token.
create_pool(call) == {p \in {AmmParams(call)} : Len(call.amounts) = 2 /\ AllPositive(call.amounts)}
add_liquidity(call) == {p \in {AmmParams(call)} : call.amounts # << >> /\ AllPositive(call.amounts)}
remove_liquidity(call) == {p \in {AmmParams(call)} : call.amounts[1] > 0}
swap(call) ==
    {p \in {AmmParams(call)} :
        /\ call.amounts[1] > 0
        /\ \E i \in DOMAIN get_pool_reserves :
            get_pool_reserves[i].token = call.token /\ get_pool_reserves[i].amount > 0}

AmmOperation(call) ==
    CASE call.op = "create_pool" -> create_pool(call)
      [] call.op = "add_liquidity" -> add_liquidity(call)
      [] call.op = "remove_liquidity" -> remove_liquidity(call)
      [] call.op = "swap" -> swap(call)

\* The parameters of a command line
LineParams(line) ==
    {[line.options EXCEPT !.stones = parsed[1], !.bitcoin = parsed[2]] :
        parsed \in to_enhanced_execute_params(line.args, line.inputs)}

ParsedLines == {LineParams(line) : line \in CommandLines}

Begin(p, next) ==
    /\ Idle /\ Uses("requests", MaxRequests)
    /\ request' = p /\ phase' = next
    /\ draft' = NoDraft /\ cause' = IF next = "failed" THEN "arguments" ELSE "none"
    /\ attempts' = 0
    /\ UNCHANGED <<txs, indexed, unlocked>>

\* Parameters that are refused start nothing
Submit(params) ==
    \/ params = {} /\ Begin(NoRequest, "failed")
    \/ \E p \in params : Begin(p, "execute")

Request ==
    \/ \E p \in Executions : Begin(p, "execute")
    \/ \E params \in ParsedLines : Submit(params)
    \/ \E call \in PoolCalls : Submit(AmmOperation(call))
    \/ \E p \in Sends : Begin(p, "send")

\* execute with an envelope: build_commit_reveal_pattern
BuildCommit ==
    LET amount == RequiredRevealAmount(request)
    IN  /\ phase = "execute" /\ validate_envelope_cellpack_usage(request)
        /\ request.envelope
        /\ \/ ~unlocked /\ Fail("locked") /\ UNCHANGED spent
           \/ unlocked /\ select_utxos(amount) = {} /\ Fail("funds") /\ UNCHANGED spent
           \/ /\ unlocked
              /\ \E coins \in select_utxos(amount) :
                    LET tx == build_commit_psbt(coins, amount, request.rate)
                    IN  \/ tx.outputs[2].value < DUST_LIMIT /\ Fail("funds") /\ UNCHANGED spent
                        \/ tx.outputs[2].value >= DUST_LIMIT /\ Prepare("commit", tx, "sign")

\* execute without one: build_single_transaction
BuildSingle ==
    LET outputs == Transferred(create_outputs(request), request.stones)
    IN  /\ phase = "execute" /\ validate_envelope_cellpack_usage(request)
        /\ ~request.envelope
        /\ \/ ~validate_protostones(request.stones, request.to) /\ Fail("protostones") /\ UNCHANGED spent
           \/ /\ validate_protostones(request.stones, request.to)
              /\ ~CanCreateOutputs(request) /\ Fail("outputs") /\ UNCHANGED spent
           \/ /\ validate_protostones(request.stones, request.to) /\ CanCreateOutputs(request)
              /\ \/ select_utxos(BitcoinNeeded(request)) = {} /\ Fail("funds") /\ UNCHANGED spent
                 \/ \E coins \in select_utxos(BitcoinNeeded(request)) :
                        \/ coins # {} /\ ~unlocked /\ Fail("locked") /\ UNCHANGED spent
                        \/ /\ coins = {} \/ unlocked
                           /\ Prepare("single", 
                                build_psbt_and_fee(coins, outputs, request.stones, request.rate, FALSE),
                                "confirm")

Refuse ==
    /\ phase = "execute" /\ ~validate_envelope_cellpack_usage(request)
    /\ Fail("cellpack") /\ UNCHANGED spent

\* send: create_transaction
BuildSend ==
    /\ phase = "send"
    /\ \/ select_coins(request.amount) = {} /\ Fail("funds") /\ UNCHANGED spent
       \/ \E coins \in select_coins(request.amount) :
            Prepare("send", create_transaction(coins, request), "sign")

\* show_preview_and_confirm: not asked for a commit
Confirm ==
    /\ phase = "confirm"
    /\ \/ Go("sign")
       \/ ~request.auto /\ Fail("cancelled") /\ UNCHANGED spent

\* sign_and_finalize_psbt, sign_psbt; sign_transaction for a send
Sign ==
    /\ phase = "sign"
    /\ \/ draft.step # "send" /\ ~ExtractTx(draft) /\ Fail("fee") /\ UNCHANGED spent
       \/ (draft.step = "send" \/ ExtractTx(draft)) /\ ~unlocked /\ Fail("locked") /\ UNCHANGED spent
       \/ (draft.step = "send" \/ ExtractTx(draft)) /\ unlocked /\ Go("broadcast")

\* Where an execution goes on after a broadcast
AfterBroadcast ==
    CASE draft.step = "send" -> "done"
      [] draft.step = "commit" -> IF request.mine THEN "sync" ELSE "reveal"
      [] OTHER -> IF request.mine THEN "sync" ELSE IF request.trace THEN "trace" ELSE "done"

\* broadcast_transaction: the node takes the transaction or refuses it, and its
\* answer may be lost. A transaction it holds already, of a request repeated
\* before the explorer knew of the first, is confirmed while it is in the mempool.
Broadcast ==
    /\ phase = "broadcast"
    /\ \/ ~Relays(draft) /\ Fail("rejected") /\ UNCHANGED spent
       \/ Contains(txs, draft) /\ Go(AfterBroadcast)
       \/ /\ Relays(draft)
          /\ txs' = Append(txs, draft)
          /\ UNCHANGED <<indexed, unlocked, request, draft, attempts>>
          /\ \/ phase' = AfterBroadcast /\ UNCHANGED <<cause, spent>>
             \/ phase' = "failed" /\ cause' = "lost" /\ Uses("faults", MaxFaults)

\* mine_blocks_if_regtest, before the first attempt of sync: an error ends the request
MineFails ==
    /\ phase = "sync" /\ attempts = 0
    /\ Fail("mine") /\ Uses("faults", MaxFaults)

\* sync: until the backends are at the node's block
Sync_Forever ==
    /\ phase = "sync" /\ indexed = Len(txs)
    /\ phase' = IF draft.step = "commit" THEN "reveal" ELSE IF request.trace THEN "trace" ELSE "done"
    /\ UNCHANGED <<txs, indexed, unlocked, request, draft, attempts, cause, spent>>

Sync ==
    /\ phase = "sync"
    /\ \/ /\ indexed = Len(txs) /\ attempts' = 0
          /\ phase' = IF draft.step = "commit" THEN "reveal" ELSE IF request.trace THEN "trace" ELSE "done"
          /\ UNCHANGED cause
       \/ /\ indexed # Len(txs) /\ attempts < SyncRetries - 1
          /\ attempts' = attempts + 1 /\ UNCHANGED <<phase, cause>>
       \/ /\ indexed # Len(txs) /\ attempts = SyncRetries - 1
          /\ phase' = "failed" /\ cause' = "sync" /\ UNCHANGED attempts
    /\ UNCHANGED <<txs, indexed, unlocked, request, draft, spent>>

\* resume_commit_execution goes on with build_reveal_psbt: the protostones are
\* validated only now, coins are added when the commit output holds too little,
\* and the explorer must know the commit. Transfers are not applied.
BuildReveal ==
    LET commit  == CHOOSE at \in DOMAIN txs : txs[at] = draft
        outputs == create_outputs(request)
        needed  == Wrap(request.to * DUST_LIMIT + request.bitcoin + EstimatedRevealFee)
        added   == select_utxos(Sub(needed, draft.outputs[1].value))
    IN  /\ phase = "reveal"
        /\ \/ ~validate_protostones(request.stones, request.to) /\ Fail("protostones") /\ UNCHANGED spent
           \/ /\ validate_protostones(request.stones, request.to)
              /\ ~CanCreateOutputs(request) /\ Fail("outputs") /\ UNCHANGED spent
           \/ /\ validate_protostones(request.stones, request.to) /\ CanCreateOutputs(request)
              /\ \/ added = {} /\ Fail("short") /\ UNCHANGED spent
                 \/ added # {} /\ indexed < commit /\ Fail("unseen") /\ UNCHANGED spent
                 \/ /\ indexed >= commit
                    /\ \E coins \in added :
                        Prepare("reveal",
                            build_psbt_and_fee({<<commit, 1>>} \union coins, outputs, request.stones,
                                               request.rate, TRUE),
                            "confirm")

\* trace_reveal_transaction: an error of the node fails the request although the
\* transaction is broadcast; an error of a trace is only logged
Trace ==
    /\ phase = "trace"
    /\ \/ Go("done")
       \/ Fail("trace") /\ Uses("faults", MaxFaults)

\* The process dies: nothing of an execution is kept
Crash == ~Idle /\ Fail("crash") /\ Uses("faults", MaxFaults)

\* Where a request waits for an answer, of the explorer, of the node or of the user
Waits ==
    \/ phase \in {"send", "broadcast", "sync", "trace"}
    \/ /\ phase = "execute" /\ validate_envelope_cellpack_usage(request)
       /\ \/ request.envelope /\ unlocked
          \/ /\ ~request.envelope
             /\ validate_protostones(request.stones, request.to) /\ CanCreateOutputs(request)
    \/ phase = "reveal" /\ validate_protostones(request.stones, request.to) /\ CanCreateOutputs(request)
    \/ phase = "confirm" /\ ~request.auto
    \/ phase = "sign" /\ (draft.step = "send" \/ ExtractTx(draft))

\* The answer never comes: reqwest::Client::new() has no timeout, and the request
\* waits until the process is killed. The node may have what it was sent.
Hang ==
    /\ Waits /\ Uses("faults", MaxFaults)
    /\ phase' = "hung"
    /\ \/ UNCHANGED txs
       \/ phase = "broadcast" /\ Relays(draft) /\ txs' = Append(txs, draft)
    /\ UNCHANGED <<indexed, unlocked, request, draft, attempts, cause>>

(* ---- around it (external) ---- *)

Index ==
    /\ indexed < Len(txs) /\ indexed' = indexed + 1
    /\ UNCHANGED <<txs, unlocked, request, phase, draft, attempts, cause, spent>>

\* Another process of the same wallet spends a coin
SpendElsewhere ==
    /\ \E coin \in {c \in Unspent(Len(txs)) : Owner(c) = "wallet"} :
        txs' = Append(txs, [step |-> "foreign", inputs |-> {coin}, runestone |-> << >>, fee |-> 0,
                            outputs |-> <<Output(Value(coin), "other")>>])
    /\ Uses("foreign", MaxForeign)
    /\ UNCHANGED <<indexed, unlocked, request, phase, draft, attempts, cause>>

Step ==
    BuildCommit \/ BuildSingle \/ Refuse \/ BuildSend \/ Confirm \/ Sign \/ Broadcast \/ MineFails \/ Sync
        \/ BuildReveal \/ Trace

Next == Request \/ Step \/ Hang \/ Crash \/ Index \/ SpendElsewhere

Spec == Init /\ [][Next]_vars

\* The process goes on while it runs, unless an answer never comes (Hang). The
\* explorer may never see a transaction.
FairSpec == Spec /\ WF_vars(Step)

(* ---- properties ---- *)

\* A command line in the form the README documents is executed
Documented == request.kind = "execute" /\ "documented" \in DOMAIN request /\ request.documented

\* A command line in the documented form, one argument of protostones between
\* commas, is executed with every protostone, cellpack, edict and amount that it
\* names, in its order, or refused, although the text is split at the same characters
\* inside and outside of brackets and parts that are not understood are passed over;
\* and an edict that names an output names it in the runestone. This is all that is
\* kept: contrary to deezel's README.md:450 and :459, an edict to a protostone or to
\* split names output 0 instead, and no pointer gets into the runestone
\* (split_respecting_brackets, parse_single_protostone, convert_protostone_specs).
ArgsAsWritten ==
    Documented =>
        /\ request.stones = request.meant /\ request.bitcoin = request.needed
        /\ draft # NoDraft => Len(draft.runestone) = Len(request.meant)
        /\ draft # NoDraft => \A i \in DOMAIN request.meant :
            LET meant == request.meant[i]
                made  == draft.runestone[i]
            IN  /\ made.message = meant.cellpack /\ made.pointer = {} /\ Len(made.edicts) = Len(meant.edicts)
                /\ \A k \in DOMAIN meant.edicts :
                    /\ made.edicts[k].alkane = meant.edicts[k].alkane
                    /\ made.edicts[k].amount = meant.edicts[k].amount
                    /\ made.edicts[k].output = IF meant.edicts[k].target[1] = "out"
                                               THEN meant.edicts[k].target[2] ELSE 0

\* The amounts of a request do not fit in a u64: the sums that the commit, the
\* reveal and a single transaction are built from wrap around.
Overflows(p) ==
    \/ RevealAmount(p) >= AmountSpan
    \/ Values(Transferred(create_outputs(p), p.stones)) >= AmountSpan

\* A transaction that pays out more than its coins hold is prepared only for a
\* request whose amounts overflow, and never gets past signing: the coins are
\* selected before the fee is known, the change is what saturating subtractions
\* leave, transfers overwrite outputs, and sums wrap around (build_psbt_and_fee,
\* build_commit_psbt, create_transaction, build_reveal_psbt).
DraftBalanced ==
    draft # NoDraft =>
        \/ Paid(draft) >= 0
        \/ /\ draft.step \in {"single", "reveal"} /\ Overflows(request)
           /\ phase \in {"confirm", "sign", "hung", "failed"} /\ ~Contains(txs, draft)

\* A transaction leaves no more to the miners than the fee the user is shown:
\* exactly that for a commit, at most a dust of change more for a send, and no
\* more for an execution that has a change address, as long as its transfers
\* name recipients (create_transaction, build_commit_psbt, build_psbt_and_fee).
FeeAsShown ==
    draft # NoDraft =>
        \/ draft.step = "send" /\ Paid(draft) <= draft.fee + DUST_LIMIT
        \/ draft.step = "commit" /\ Paid(draft) = draft.fee
        \/ /\ draft.step \in {"single", "reveal"}
           /\ \/ ~request.change
              \/ \E i \in DOMAIN request.stones :
                    LET t == request.stones[i].transfer
                    IN  t # << >> /\ t[1] = "out" /\ (t[2] >= request.to \/ t[3] = 0)
              \/ Paid(draft) <= draft.fee /\ draft.fee <= MAX_FEE_SATS

\* The fee of a reveal is what the node asks for the transaction with its envelope
FeeSuffices ==
    /\ SignedWeight(draft) <= MAX_STANDARD_WEIGHT
    /\ VBytes(SignedWeight(draft)) <= draft.fee

\* Once the commit is on the node, its reveal is never short of money: whatever
\* the wallet's other coins have become, it is not refused for its amounts,
\* unless they overflow, its fee is above the 50 000 satoshis the commit sets aside
\* for it or below what the node asks for its envelope, which is reckoned with 400
\* bytes of witness (execute.rs:557 calls that sufficient for most contracts), or the
\* commit is revealed already (build_commit_reveal_pattern, build_reveal_psbt).
CommitCoversReveal ==
    \/ draft.step \in {"commit", "reveal"} /\ RevealAmount(request) >= AmountSpan
    \/ /\ cause # "short"
       /\ phase = "failed" /\ cause \in {"fee", "rejected"} /\ draft.step = "reveal" =>
            \/ draft.fee > EstimatedRevealFee
            \/ ~FeeSuffices
            \/ ~(draft.inputs \subseteq Unspent(Len(txs)))

\* A request comes to an end, although the explorer may never catch up (sync gives
\* up after its attempts), unless one of its calls is never answered.
RequestEnds == (phase \in {"execute", "send"}) ~> (Idle \/ phase = "hung")
=============================================================================
