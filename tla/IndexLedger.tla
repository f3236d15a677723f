---------------------------- MODULE IndexLedger ------------------------------
(***************************************************************************)
(* What the block pipeline promises of AlkaneTransaction, TraceEvent,      *)
(* DecodedProtostone and ProcessedBlocks, without transactions, locks or   *)
(* statements: a run replaces all rows of the block's transactions in one  *)
(* step, and only a run that has done so records the block. BlockPipeline  *)
(* implements it, for any number of workers at once.                       *)
(***************************************************************************)
EXTENDS Integers

CONSTANTS Workers, Txids, Versions, None

VARIABLES
    store,    \* the rows: one per transaction and run
    marker,   \* the block recorded in ProcessedBlocks, or None
    run       \* run[w]: the block w has written and not yet recorded, or None

ledgerVars == <<store, marker, run>>

Contents == [ver : Versions, txs : SUBSET Txids]

Init ==
    /\ store = {}
    /\ marker = None
    /\ run = [w \in Workers |-> None]

\* The rows of the block's transactions become those of this run, whoever wrote
\* the old ones and whatever other runs are doing.
Write(w, b) ==
    /\ run[w] = None
    /\ store' = {r \in store : r.tx \notin b.txs}
                    \cup {[tx |-> x, ver |-> b.ver, by |-> w] : x \in b.txs}
    /\ run' = [run EXCEPT ![w] = b]
    /\ UNCHANGED marker

\* The block is recorded as processed by a run that wrote it.
Record(w) ==
    /\ run[w] # None
    /\ marker' = run[w]
    /\ run' = [run EXCEPT ![w] = None]
    /\ UNCHANGED store

\* The run fails after it wrote; its rows stay and nothing is recorded.
GiveUp(w) ==
    /\ run[w] # None
    /\ run' = [run EXCEPT ![w] = None]
    /\ UNCHANGED <<store, marker>>

Next ==
    \E w \in Workers : Record(w) \/ GiveUp(w) \/ \E b \in Contents : Write(w, b)

Spec == Init /\ [][Next]_ledgerVars
=============================================================================
