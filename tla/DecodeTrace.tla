----------------------------- MODULE DecodeTrace -----------------------------
(***************************************************************************)
(* The fetch, decode and trace stage of a block: get_block_txids,          *)
(* get_transactions_info (buffer_unordered over the txids), the OP_RETURN  *)
(* filter, and decode_and_trace_for_block, which splits the transactions   *)
(* into batches that run concurrently and share `results` and `fatal_err`. *)
(*                                                                         *)
(* The transactions are 1..NumTxs, in block order. What a transaction      *)
(* holds is its kind and its number of protostones; every upstream call    *)
(* may fail for good (its retries are the subject of ResilientRpc) or      *)
(* succeed with a value that is not the one asked for (ProviderCall).      *)
(***************************************************************************)
EXTENDS Integers, Sequences, FiniteSets, ProviderCall

CONSTANTS
    NumTxs,         \* transactions in the block
    MaxStones,      \* bound: protostones per transaction
    FetchWindow,    \* buffer_unordered(25)
    MaxBatches,     \* the 10 batches
    HexTries        \* attempts to fetch a hex: 2 on get_tx_hex, then 3 on
                    \* get_transaction_hex

Txs == 1..NumTxs
Batches == 1..MaxBatches

ASSUME DecodeAssumption ==
    /\ NumTxs \in Nat
    /\ MaxStones \in Nat
    /\ FetchWindow \in Nat \ {0}
    /\ MaxBatches \in Nat \ {0}
    /\ HexTries \in Nat \ {0}

\* plain: no OP_RETURN output; ignored: in IGNORED_TRACE_TXIDS; garbled: the
\* runestone decoder fails or panics; stones: decodes to protostones.
Kinds == {"plain", "ignored", "garbled", "stones"}

VARIABLES
    kind, stones,   \* the block
    hex,            \* the transactions whose JSON carries its hex
    stage,          \* "list", "fetch", "decode", "ok" or "error"
    txids,          \* the transactions get_block_txids returned
    other,          \* the txids answered by a value that is not a transaction
    fetched,        \* tx infos in the order their calls completed
    unfetched,      \* transactions whose esplora_tx failed
    batches,        \* the sequence of batches
    pos,            \* how many transactions each batch has begun
    step,           \* where each batch is: "next", "hex", "trace" or "returned"
    tries,          \* failed attempts to fetch the current hex
    traced, skipped,\* protostones of the current transaction, by outcome
    opaque,         \* the traced ones whose reply was not a list of events
    results,
    fatal_err

blockVars == <<kind, stones, hex>>
fetchVars == <<txids, other, fetched, unfetched>>
batchVars == <<pos, step, tries, traced, skipped, opaque>>
vars == <<blockVars, stage, fetchVars, batches, batchVars, results, fatal_err>>

Init ==
    /\ kind \in [Txs -> Kinds]
    /\ stones \in {s \in [Txs -> 0..MaxStones] :
                      \A t \in Txs : kind[t] # "stones" => s[t] = 0}
    /\ hex \in {{}, Txs}
    /\ stage = "list"
    /\ txids = {}
    /\ other = {}
    /\ fetched = <<>>
    /\ unfetched = {}
    /\ batches = <<>>
    /\ pos = [b \in Batches |-> 0]
    /\ step = [b \in Batches |-> "returned"]
    /\ tries = [b \in Batches |-> 0]
    /\ traced = [b \in Batches |-> {}]
    /\ skipped = [b \in Batches |-> {}]
    /\ opaque = [b \in Batches |-> {}]
    /\ results = <<>>
    /\ fatal_err = FALSE

-----------------------------------------------------------------------------
(* get_block_txids *)

\* A value that is not an array becomes the empty list.
TxidsFetched(value) ==
    /\ stage = "list"
    /\ stage' = "fetch"
    /\ txids' = IF value = "result" THEN Txs ELSE {}
    /\ UNCHANGED <<blockVars, other, fetched, unfetched, batches, batchVars, results,
                   fatal_err>>

TxidsNotFetched ==
    /\ stage = "list"
    /\ CanFail
    /\ stage' = "error"
    /\ UNCHANGED <<blockVars, fetchVars, batches, batchVars, results, fatal_err>>

-----------------------------------------------------------------------------
(* get_transactions_info *)

Answered == {fetched[i] : i \in 1..Len(fetched)} \cup unfetched

\* buffer_unordered keeps a window of calls in flight, begun in order.
InFlight(t) == t \in txids \ Answered /\ t <= Cardinality(Answered) + FetchWindow

\* Whatever the call returned counts as the transaction's JSON.
TxFetched(t, value) ==
    /\ stage = "fetch"
    /\ InFlight(t)
    /\ fetched' = Append(fetched, t)
    /\ other' = IF value = "result" THEN other ELSE other \cup {t}
    /\ UNCHANGED <<blockVars, stage, txids, unfetched, batches, batchVars, results,
                   fatal_err>>

TxNotFetched(t) ==
    /\ stage = "fetch"
    /\ CanFail
    /\ InFlight(t)
    /\ unfetched' = unfetched \cup {t}
    /\ UNCHANGED <<blockVars, stage, txids, other, fetched, batches, batchVars,
                   results, fatal_err>>

\* Any failed transaction fails the block.
FetchFailed == unfetched # {}

FetchFails ==
    /\ stage = "fetch"
    /\ Answered = txids
    /\ FetchFailed
    /\ stage' = "error"
    /\ UNCHANGED <<blockVars, fetchVars, batches, batchVars, results, fatal_err>>

-----------------------------------------------------------------------------
(* decode_and_trace_for_block *)

\* tx_has_op_return, false of a value that has no list of outputs, and the
\* ignored txids.
Selected(t) == t \notin other /\ kind[t] \notin {"plain", "ignored"}

CeilDiv(a, b) == (a + b - 1) \div b
LesserOf(a, b) == IF a <= b THEN a ELSE b

BatchSize(total) == CeilDiv(total, LesserOf(MaxBatches, total))

\* The selected transactions of a list, in the list's order.
Kept(list) ==
    LET keep == {i \in 1..Len(list) : Selected(list[i])}
        nth(k) == CHOOSE i \in keep : Cardinality({j \in keep : j <= i}) = k
    IN  [k \in 1..Cardinality(keep) |-> list[nth(k)]]

\* slice::chunks
Chunks(list) ==
    LET size == BatchSize(Len(list))
    IN  IF list = <<>> THEN <<>>
        ELSE [i \in 1..CeilDiv(Len(list), size) |->
                 SubSeq(list, (i - 1) * size + 1, LesserOf(i * size, Len(list)))]

StartDecoding ==
    /\ stage = "fetch"
    /\ Answered = txids
    /\ ~FetchFailed
    /\ stage' = "decode"
    /\ batches' = Chunks(Kept(fetched))
    /\ step' = [b \in Batches |-> IF b <= Len(batches') THEN "next" ELSE "returned"]
    /\ UNCHANGED <<blockVars, fetchVars, pos, tries, traced, skipped, opaque,
                   results, fatal_err>>

Tx(b) == batches[b][pos[b]]
Enter(b, label) == step' = [step EXCEPT ![b] = label]

\* The next transaction of a batch, unless another batch has recorded an error.
NextTx(b) ==
    /\ step[b] = "next"
    /\ ~fatal_err
    /\ pos[b] < Len(batches[b])
    /\ pos' = [pos EXCEPT ![b] = @ + 1]
    /\ Enter(b, "hex")
    /\ UNCHANGED <<blockVars, stage, fetchVars, batches, tries, traced, skipped,
                   opaque, results, fatal_err>>

\* A recorded error keeps the batch from going on but not in its loop.
NothingLeft_WaitsOnError(b) == pos[b] = Len(batches[b])

NothingLeft(b) == fatal_err \/ pos[b] = Len(batches[b])

BatchEnds(b) ==
    /\ step[b] = "next"
    /\ NothingLeft(b)
    /\ Enter(b, "returned")
    /\ UNCHANGED <<blockVars, stage, fetchVars, batches, pos, tries, traced, skipped,
                   opaque, results, fatal_err>>

\* tx_from_json_or_fetch_hex has the transaction: decode it. A decoder error or
\* panic skips it.
Decode(b) ==
    /\ step[b] = "hex"
    /\ tries' = [tries EXCEPT ![b] = 0]
    /\ Enter(b, IF kind[Tx(b)] = "garbled" THEN "next" ELSE "trace")
    /\ UNCHANGED <<blockVars, stage, fetchVars, batches, pos, traced, skipped,
                   opaque, results, fatal_err>>

\* An attempt on get_tx_hex, or later on get_transaction_hex, fails.
HexAttemptFails(b) ==
    /\ step[b] = "hex"
    /\ Tx(b) \notin hex
    /\ tries[b] + 1 < HexTries
    /\ tries' = [tries EXCEPT ![b] = @ + 1]
    /\ UNCHANGED <<blockVars, stage, fetchVars, batches, pos, step, traced, skipped,
                   opaque, results, fatal_err>>

\* The transaction is passed over without a word.
AfterHexFailure_Skipped(b) == Enter(b, "next") /\ UNCHANGED fatal_err

\* The batch records the error and returns.
AfterHexFailure(b) == Enter(b, "returned") /\ fatal_err' = TRUE

\* The last attempt failed, or the hex (embedded or fetched) does not parse.
NoTransaction(b) ==
    /\ step[b] = "hex"
    /\ AfterHexFailure(b)
    /\ tries' = [tries EXCEPT ![b] = 0]
    /\ UNCHANGED <<blockVars, stage, fetchVars, batches, pos, traced, skipped,
                   opaque, results>>

\* The protostone to be traced next; they are traced one after the other.
Stone(b) == Cardinality(traced[b] \cup skipped[b]) + 1

\* Any reply counts as the trace; one that is not a list of events is stored
\* whole, as a single event.
TraceOk(b, value) ==
    /\ step[b] = "trace"
    /\ Stone(b) <= stones[Tx(b)]
    /\ traced' = [traced EXCEPT ![b] = @ \cup {Stone(b)}]
    /\ opaque' = IF value = "result" THEN opaque
                 ELSE [opaque EXCEPT ![b] = @ \cup {Stone(b)}]
    /\ UNCHANGED <<blockVars, stage, fetchVars, batches, pos, step, tries, skipped,
                   results, fatal_err>>

\* The known upstream TypeError: the protostone stays without a trace.
TraceTypeError(b) ==
    /\ step[b] = "trace"
    /\ Stone(b) <= stones[Tx(b)]
    /\ skipped' = [skipped EXCEPT ![b] = @ \cup {Stone(b)}]
    /\ UNCHANGED <<blockVars, stage, fetchVars, batches, pos, step, tries, traced,
                   opaque, results, fatal_err>>

TraceFails(b) ==
    /\ step[b] = "trace"
    /\ Stone(b) <= stones[Tx(b)]
    /\ fatal_err' = TRUE
    /\ Enter(b, "returned")
    /\ traced' = [traced EXCEPT ![b] = {}]
    /\ skipped' = [skipped EXCEPT ![b] = {}]
    /\ opaque' = [opaque EXCEPT ![b] = {}]
    /\ UNCHANGED <<blockVars, stage, fetchVars, batches, pos, tries, results>>

\* results.lock().await.push(result)
PushResult(b) ==
    /\ step[b] = "trace"
    /\ Stone(b) > stones[Tx(b)]
    /\ results' = Append(results, [tx |-> Tx(b), traced |-> traced[b],
                                   skipped |-> skipped[b], opaque |-> opaque[b]])
    /\ traced' = [traced EXCEPT ![b] = {}]
    /\ skipped' = [skipped EXCEPT ![b] = {}]
    /\ opaque' = [opaque EXCEPT ![b] = {}]
    /\ Enter(b, "next")
    /\ UNCHANGED <<blockVars, stage, fetchVars, batches, pos, tries, fatal_err>>

Outcome == IF fatal_err THEN "error" ELSE "ok"

FinishDecoding ==
    /\ stage = "decode"
    /\ \A b \in Batches : step[b] = "returned"
    /\ stage' = Outcome
    /\ UNCHANGED <<blockVars, fetchVars, batches, batchVars, results, fatal_err>>

Batch(b) ==
    \/ NextTx(b) \/ BatchEnds(b)
    \/ Decode(b) \/ HexAttemptFails(b) \/ NoTransaction(b)
    \/ \E v \in Values : TraceOk(b, v)
    \/ TraceTypeError(b) \/ TraceFails(b) \/ PushResult(b)

Next ==
    \/ \E v \in Values : TxidsFetched(v)
    \/ TxidsNotFetched
    \/ \E t \in Txs, v \in Values : TxFetched(t, v)
    \/ \E t \in Txs : TxNotFetched(t)
    \/ FetchFails \/ StartDecoding
    \/ \E b \in Batches : Batch(b)
    \/ FinishDecoding

Spec == Init /\ [][Next]_vars

\* Every call is answered or times out.
FairSpec == Spec /\ WF_vars(Next)

-----------------------------------------------------------------------------
(* Properties *)

Decodable == {t \in Txs : kind[t] = "stones"}
TimesIn(t) == Cardinality({i \in 1..Len(results) : results[i].tx = t})

\* Nothing is lost between the batches: when the stage succeeds, the results hold
\* each transaction that decodes exactly once, save the ones whose fetch returned
\* something else. Every protostone is either skipped for the known upstream error
\* or stored with the reply of its own trace call, which may be no trace.
CompleteOrError ==
    stage = "ok" =>
        /\ \A t \in txids : TimesIn(t) = IF t \in Decodable \ other THEN 1 ELSE 0
        /\ \A i \in 1..Len(results) :
              /\ results[i].traced \cup results[i].skipped = 1..stones[results[i].tx]
              /\ results[i].traced \cap results[i].skipped = {}
              /\ results[i].opaque \subseteq results[i].traced

\* What the comment in get_transactions_info and the README promise: a block of
\* which a transaction could not be fetched fails and is retried, it is never
\* indexed without the transaction.
NothingDropped == stage = "ok" => \A t \in txids \cap Decodable : TimesIn(t) = 1

\* The stage ends, with or without an error: a batch that returns early never
\* leaves the others, or for_each_concurrent, waiting.
StageEnds == <>(stage \in {"ok", "error"})
=============================================================================
