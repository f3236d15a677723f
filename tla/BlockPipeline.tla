---------------------------- MODULE BlockPipeline ----------------------------
(***************************************************************************)
(* Pipeline::process_block_sequential run on one block height by several   *)
(* workers: the poller, the catch-up coordinator and the reprocess tool,   *)
(* all of which write the same tables. With a start height set, the poller *)
(* and the coordinator both process every new block.                       *)
(*                                                                         *)
(* A run resolves the hash of the block, fetches the transactions under    *)
(* that hash and then traces them, one call per transaction, in any order: *)
(* the block may be replaced or its traces may change in between. It       *)
(* writes AlkaneTransaction, DecodedProtostone and TraceEvent in one       *)
(* transaction, then each derived table in a transaction of its own, then  *)
(* the ProcessedBlocks marker. All transactions are READ COMMITTED: a      *)
(* delete removes the rows its own statement could see, whatever has been  *)
(* committed since.                                                        *)
(*                                                                         *)
(* The rows that one run writes to one table for one transaction are one   *)
(* row here, which carries the writer and the version of the block whose   *)
(* hash the run resolved; its traces are at least as new. All pools in the *)
(* block are one pool; in one version of the block at most one transaction *)
(* creates it.                                                             *)
(***************************************************************************)
EXTENDS Integers, Sequences

CONSTANTS
    Workers,          \* who may run the pipeline on this height
    Txids,            \* the transactions that may be in the block
    Phases,           \* the derived tables, in the order they are written
    MaxRetraces,      \* bound: times the traces of the same block change
    MaxReplacements,  \* bound: times a reorganisation replaces the block
    MaxReruns,        \* bound: runs begun after a completed one
    MaxAborts,        \* bound: runs in which a call fails
    None

\* The order of process_block_sequential; an instance may leave tables out.
PipelineOrder == <<"PoolSwap", "PoolCreation", "PoolMint", "PoolBurn",
                   "SubfrostWrap", "SubfrostUnwrap">>

Derived == {Phases[i] : i \in 1..Len(Phases)}

\* Tables whose rows are only built for pools present in Pool.
NeedsPool == {"PoolSwap", "PoolMint", "PoolBurn"}

\* Tables whose old rows are deleted even when the new set is empty.
AlwaysReplaced == {"PoolSwap"}

\* Tables with a foreign key to Pool and a unique index on the pool.
UniquePerPool == {"PoolCreation"}

ASSUME PipelineAssumption ==
    /\ Phases \in Seq({PipelineOrder[i] : i \in 1..Len(PipelineOrder)})
    /\ MaxRetraces \in Nat
    /\ MaxReplacements \in Nat
    /\ MaxReruns \in Nat
    /\ MaxAborts \in Nat
    /\ None \notin Workers

Versions == 0..MaxRetraces + MaxReplacements
Rows == [tx : Txids, ver : Versions, by : Workers]

\* What can be fetched of the block: its OP_RETURN transactions and, for each
\* derived table, the transactions whose trace has something for it.
Blocks == [ver : Versions, txs : SUBSET Txids, found : [Derived -> SUBSET Txids]]

\* No block, and no summary of one, is the value that stands for none.
ASSUME NoneAssumption ==
    None \notin Blocks \cup [ver : Versions, txs : SUBSET Txids]

Possible(b) ==
    /\ \A t \in Derived : b.found[t] \subseteq b.txs
    /\ \A t \in Derived \cap UniquePerPool : \A x, y \in b.found[t] : x = y

VARIABLES
    block,          \* what the upstream services have at this height now
    retraces, replacements, reruns, aborts,
    poolKnown,      \* the pool has a row in Pool
    locks,          \* locks[x]: who holds the AlkaneTransaction row of x
    hot,            \* rows of AlkaneTransaction, DecodedProtostone, TraceEvent
    tables,         \* rows of each derived table
    marker,         \* the block recorded in ProcessedBlocks, or None
    pc,             \* where each worker is
    phase,          \* index in Phases
    trace,          \* what the worker has fetched and traced
    untraced,       \* the transactions it has yet to trace
    rows,           \* the transactions its current indexer found rows for
    doomed          \* the rows its delete statement saw

boundVars == <<retraces, replacements, reruns, aborts>>
dbVars == <<locks, hot, tables, marker>>
runVars == <<pc, phase, trace, untraced, rows, doomed>>
vars == <<block, boundVars, poolKnown, dbVars, runVars>>

Labels == {"idle", "fetch", "trace", "upsert", "hot_commit", "read", "delete",
           "commit", "mark", "done"}

TypeOK ==
    /\ block \in Blocks
    /\ retraces \in 0..MaxRetraces
    /\ replacements \in 0..MaxReplacements
    /\ reruns \in 0..MaxReruns
    /\ aborts \in 0..MaxAborts
    /\ poolKnown \in BOOLEAN
    /\ locks \in [Txids -> Workers \cup {None}]
    /\ hot \subseteq Rows
    /\ tables \in [Derived -> SUBSET Rows]
    /\ marker \in Blocks \cup {None}
    /\ pc \in [Workers -> Labels]
    /\ phase \in [Workers -> 1..Len(Phases) + 1]
    /\ \A w \in Workers :
          pc[w] \in {"read", "delete", "commit"} => phase[w] <= Len(Phases)
    /\ trace \in [Workers -> Blocks]
    /\ untraced \in [Workers -> SUBSET Txids]
    /\ rows \in [Workers -> SUBSET Txids]
    /\ doomed \in [Workers -> SUBSET Rows]

NoBlock == [ver |-> 0, txs |-> {}, found |-> [t \in Derived |-> {}]]

Init ==
    /\ block \in {b \in Blocks : b.ver = 0 /\ Possible(b)}
    /\ retraces = 0
    /\ replacements = 0
    /\ reruns = 0
    /\ aborts = 0
    /\ poolKnown \in BOOLEAN
    /\ locks = [x \in Txids |-> None]
    /\ hot = {}
    /\ tables = [t \in Derived |-> {}]
    /\ marker = None
    /\ pc = [w \in Workers |-> "idle"]
    /\ phase = [w \in Workers |-> 1]
    /\ trace = [w \in Workers |-> NoBlock]
    /\ untraced = [w \in Workers |-> {}]
    /\ rows = [w \in Workers |-> {}]
    /\ doomed = [w \in Workers |-> {}]

\* The rows this worker's run writes for the transactions xs.
RowsBy(w, xs) == {[tx |-> x, ver |-> trace[w].ver, by |-> w] : x \in xs}

\* What `delete ... where transactionId = any(txids)` matches among the rows S.
OfBlock(w, S) == {r \in S : r.tx \in trace[w].txs}

Goto(w, label) == pc' = [pc EXCEPT ![w] = label]

-----------------------------------------------------------------------------
(* Environment *)

\* Metashrew re-indexes the block, or the same transactions are mined again
\* elsewhere in the chain: their traces now say something else.
Retrace ==
    /\ retraces < MaxRetraces
    /\ retraces' = retraces + 1
    /\ \E found \in [Derived -> SUBSET block.txs] :
          /\ block' = [block EXCEPT !.ver = @ + 1, !.found = found]
          /\ Possible(block')
    /\ UNCHANGED <<replacements, reruns, aborts, poolKnown, dbVars, runVars>>

\* A reorganisation puts other transactions at this height.
Replace ==
    /\ replacements < MaxReplacements
    /\ replacements' = replacements + 1
    /\ \E txs \in SUBSET Txids : \E found \in [Derived -> SUBSET txs] :
          /\ block' = [ver |-> block.ver + 1, txs |-> txs, found |-> found]
          /\ Possible(block')
    /\ UNCHANGED <<retraces, reruns, aborts, poolKnown, dbVars, runVars>>

\* fetch_pools_for_tip of the poller inserts the pool.
PoolInserted ==
    /\ ~poolKnown
    /\ poolKnown' = TRUE
    /\ UNCHANGED <<block, boundVars, dbVars, runVars>>

-----------------------------------------------------------------------------
(* Fetching, and the three hot tables *)

\* The first run, or the retry of a run that failed.
Begin(w) ==
    /\ pc[w] = "idle"
    /\ Goto(w, "fetch")
    /\ UNCHANGED <<block, boundVars, poolKnown, dbVars, phase, trace, untraced,
                   rows, doomed>>

\* The block is processed once more: `reprocess`, a pointer that fell back, or a
\* progress reset.
Rerun(w) ==
    /\ pc[w] = "done"
    /\ reruns < MaxReruns
    /\ reruns' = reruns + 1
    /\ trace' = [trace EXCEPT ![w] = NoBlock]
    /\ Goto(w, "fetch")
    /\ UNCHANGED <<block, retraces, replacements, aborts, poolKnown, dbVars, phase,
                   untraced, rows, doomed>>

\* Hash, txids and transactions, which the services keep under the hash. A block
\* without OP_RETURN transactions goes straight to the marker.
Fetch(w) ==
    /\ pc[w] = "fetch"
    /\ trace' = [trace EXCEPT ![w] = [block EXCEPT !.found = NoBlock.found]]
    /\ untraced' = [untraced EXCEPT ![w] = block.txs]
    /\ Goto(w, IF block.txs = {} THEN "mark" ELSE "trace")
    /\ UNCHANGED <<block, boundVars, poolKnown, dbVars, phase, rows, doomed>>

\* The derived tables written before the hot ones.
AfterTraces_DerivedFirst == "read"

AfterTraces == "upsert"

\* What the traces of a run show once that of x, as Metashrew has it now, is
\* there too; a transaction that has left the chain has no trace.
WithTraceOf(w, x) ==
    [t \in Derived |-> trace[w].found[t] \cup (block.found[t] \cap {x})]

\* One transaction is decoded and its protostones are traced.
Trace(w, x) ==
    /\ pc[w] = "trace"
    /\ x \in untraced[w]
    /\ trace' = [trace EXCEPT ![w].found = WithTraceOf(w, x)]
    /\ untraced' = [untraced EXCEPT ![w] = @ \ {x}]
    /\ Goto(w, IF untraced[w] = {x} THEN AfterTraces ELSE "trace")
    /\ UNCHANGED <<block, boundVars, poolKnown, dbVars, phase, rows, doomed>>

\* `on conflict do nothing` takes no lock on a row that is already there.
Unlocked_DoNothing(w, x) == locks[x] # w

\* `on conflict do update` locks the conflicting row, and waits for a
\* transaction that has inserted or locked it, even where the
\* `where ... is distinct from` then leaves the row alone.
Unlocked(w, x) == locks[x] = None

\* upsert_alkane_transactions, row by row. The order is that of the decoded
\* results, which is the order in which their fetches completed: any order.
UpsertTransaction(w, x) ==
    /\ pc[w] = "upsert"
    /\ x \in trace[w].txs
    /\ Unlocked(w, x)
    /\ locks' = [locks EXCEPT ![x] = w]
    /\ UNCHANGED <<block, boundVars, poolKnown, hot, tables, marker, runVars>>

\* The deletes of replace_decoded_protostones and replace_trace_events.
DeleteHotRows(w) ==
    /\ pc[w] = "upsert"
    /\ \A x \in trace[w].txs : locks[x] = w
    /\ doomed' = [doomed EXCEPT ![w] = OfBlock(w, hot)]
    /\ Goto(w, "hot_commit")
    /\ UNCHANGED <<block, boundVars, poolKnown, dbVars, phase, trace, untraced,
                   rows>>

\* A transaction that is neither committed nor rolled back keeps its locks.
ReleaseLocks_Leaked(w) == UNCHANGED locks

ReleaseLocks(w) == locks' = [x \in Txids |-> IF locks[x] = w THEN None ELSE locks[x]]

\* Their inserts, and the commit of the first transaction.
CommitHotRows(w) ==
    /\ pc[w] = "hot_commit"
    /\ hot' = (hot \ doomed[w]) \cup RowsBy(w, trace[w].txs)
    /\ doomed' = [doomed EXCEPT ![w] = {}]
    /\ ReleaseLocks(w)
    /\ Goto(w, IF Phases = <<>> THEN "mark" ELSE "read")
    /\ UNCHANGED <<block, boundVars, poolKnown, tables, marker, phase, trace,
                   untraced, rows>>

-----------------------------------------------------------------------------
(* One derived table: build the rows, delete, insert, commit *)

Table(w) == Phases[phase[w]]

\* The transactions the indexer of this phase builds rows for. A pool missing
\* from Pool is skipped without an error, except by the creations.
FoundRows(w) ==
    IF Table(w) \in NeedsPool /\ ~poolKnown THEN {} ELSE trace[w].found[Table(w)]

\* PoolSwap, too, skips its transaction when there is nothing to insert.
Writes_OnlyIfRows(w) == FoundRows(w) # {}

\* Without rows only PoolSwap still runs its delete.
Writes(w) == FoundRows(w) # {} \/ Table(w) \in AlwaysReplaced

AfterPhase(w) == IF phase[w] = Len(Phases) THEN "mark" ELSE "read"

ReadPools(w) ==
    /\ pc[w] = "read"
    /\ rows' = [rows EXCEPT ![w] = FoundRows(w)]
    /\ IF Writes(w)
       THEN Goto(w, "delete") /\ UNCHANGED phase
       ELSE Goto(w, AfterPhase(w)) /\ phase' = [phase EXCEPT ![w] = @ + 1]
    /\ UNCHANGED <<block, boundVars, poolKnown, dbVars, trace, untraced, doomed>>

\* The statement deletes what was committed when it started. Where another open
\* transaction has deleted the same rows it waits for that one's commit, but the
\* rows committed meanwhile stay invisible to it.
DeleteRows(w) ==
    /\ pc[w] = "delete"
    /\ doomed' = [doomed EXCEPT ![w] = OfBlock(w, tables[Table(w)])]
    /\ Goto(w, "commit")
    /\ UNCHANGED <<block, boundVars, poolKnown, dbVars, phase, trace, untraced,
                   rows>>

\* A replace that only inserts.
Remaining_NoDelete(w) == tables[Table(w)]

Remaining(w) == tables[Table(w)] \ doomed[w]

\* The insert of replace_pool_creations: the pool must exist and end up with one
\* creation row, whatever transactions of this height or another it is from.
ConstraintsHold(w) ==
    Table(w) \in UniquePerPool /\ rows[w] # {} =>
        /\ poolKnown
        /\ Remaining(w) = {}
        /\ \A x, y \in rows[w] : x = y

CommitRows(w) ==
    /\ pc[w] = "commit"
    /\ ConstraintsHold(w)
    /\ tables' = [tables EXCEPT ![Table(w)] = Remaining(w) \cup RowsBy(w, rows[w])]
    /\ doomed' = [doomed EXCEPT ![w] = {}]
    /\ rows' = [rows EXCEPT ![w] = {}]
    /\ Goto(w, AfterPhase(w))
    /\ phase' = [phase EXCEPT ![w] = @ + 1]
    /\ UNCHANGED <<block, boundVars, poolKnown, locks, hot, marker, trace,
                   untraced>>

-----------------------------------------------------------------------------
(* The end of a run *)

\* upsert_processed_block, the last write of a run.
RecordMarker(w) ==
    /\ pc[w] = "mark"
    /\ marker' = trace[w]
    /\ phase' = [phase EXCEPT ![w] = 1]
    /\ Goto(w, "done")
    /\ UNCHANGED <<block, boundVars, poolKnown, locks, hot, tables, trace, untraced,
                   rows, doomed>>

\* The run returns an error: its open transaction is rolled back, the committed
\* ones stay, its locals go out of scope.
RollBack(w) ==
    /\ phase' = [phase EXCEPT ![w] = 1]
    /\ trace' = [trace EXCEPT ![w] = NoBlock]
    /\ untraced' = [untraced EXCEPT ![w] = {}]
    /\ rows' = [rows EXCEPT ![w] = {}]
    /\ doomed' = [doomed EXCEPT ![w] = {}]
    /\ ReleaseLocks(w)
    /\ Goto(w, "idle")
    /\ UNCHANGED <<block, poolKnown, hot, tables, marker>>

\* A call to an upstream service or to Postgres fails, or the process stops.
Abort(w) ==
    /\ pc[w] \notin {"idle", "done"}
    /\ aborts < MaxAborts
    /\ aborts' = aborts + 1
    /\ RollBack(w)
    /\ UNCHANGED <<retraces, replacements, reruns>>

\* Postgres rejects the insert.
ConstraintFails(w) ==
    /\ pc[w] = "commit"
    /\ ~ConstraintsHold(w)
    /\ RollBack(w)
    /\ UNCHANGED boundVars

\* Workers that hold AlkaneTransaction rows one another waits for: Postgres
\* makes one of them fail.
Stuck(S) ==
    \A u \in S :
        /\ pc[u] = "upsert"
        /\ \E x \in trace[u].txs : locks[x] # u
        /\ \A x \in trace[u].txs : locks[x] \in S

DeadlockVictim(w) ==
    /\ \E S \in SUBSET Workers : w \in S /\ Stuck(S)
    /\ RollBack(w)
    /\ UNCHANGED boundVars

\* Everything a run does of itself, and what Postgres does to it.
Step(w) ==
    \/ Begin(w) \/ Fetch(w)
    \/ \E x \in Txids : Trace(w, x)
    \/ \E x \in Txids : UpsertTransaction(w, x)
    \/ DeleteHotRows(w) \/ CommitHotRows(w)
    \/ ReadPools(w) \/ DeleteRows(w) \/ CommitRows(w)
    \/ RecordMarker(w)
    \/ ConstraintFails(w) \/ DeadlockVictim(w)

Next ==
    \/ Retrace \/ Replace \/ PoolInserted
    \/ \E w \in Workers : Step(w) \/ Rerun(w) \/ Abort(w)

Spec == Init /\ [][Next]_vars

Holding(w, xs) == {x \in Txids : locks[x] = w} = xs

\* Every worker goes on (a failed block is retried, as the pointer does not pass
\* it), and a worker waiting for a row lock gets it before those that come after
\* it, which Postgres' lock queue ensures. Failing calls, reruns and changes of
\* the block are never obliged to happen.
Fairness ==
    \A w \in Workers :
        /\ WF_vars(Step(w))
        /\ \A xs \in SUBSET Txids :
              SF_vars(Holding(w, xs) /\ \E x \in Txids : UpsertTransaction(w, x))

FairSpec == Spec /\ Fairness

-----------------------------------------------------------------------------
(* Properties *)

\* The decoded protostones and trace events of a transaction come from a single
\* run, however the runs of several workers interleave: the row locks taken by
\* upsert_alkane_transactions serialise the delete and insert that follow.
HotRowsFromOneRun ==
    \A r1, r2 \in hot : r1.tx = r2.tx => r1 = r2

\* Derived rows never exist without the hot rows of their transaction: the hot
\* tables are committed first, and nothing a failed run leaves undoes that.
DerivedRowsHaveTransaction ==
    \A t \in Derived : \A r \in tables[t] : \E r1 \in hot : r1.tx = r.tx

\* The ProcessedBlocks row is a commit record: when it holds the current block,
\* the hot rows of each of its transactions are there and from the current
\* traces, no swap row is from older ones, and the pool creation is recorded,
\* also while the block is being processed again or after that failed half-way.
\* Of the other tables nothing is claimed: where the new traces have no rows for one,
\* it keeps those of the old, although db/README.md:204 says that they are fully
\* replaced.
MarkerMeansIndexed ==
    marker # None /\ marker.ver = block.ver =>
        /\ block.txs = {r.tx : r \in {r \in hot : r.ver = block.ver}}
        /\ \A t \in Derived \cap AlwaysReplaced : \A r \in tables[t] :
              r.tx \in block.txs => r.ver = block.ver
        /\ \A t \in Derived \cap UniquePerPool :
              block.found[t] = {r.tx : r \in {r \in tables[t] : r.ver = block.ver}}

\* Rows of one transaction in one derived table come from a single run. Holds
\* with one worker. With two, each can delete before the other commits, and both
\* sets of rows stay, where helpers/README.md:96 says that the rows are deleted
\* and the new set is inserted.
DerivedRowsFromOneRun ==
    \A t \in Derived : \A r1, r2 \in tables[t] : r1.tx = r2.tx => r1 = r2

\* Every worker gets through in the end: once the pool is known, a run that
\* fails is retried until it completes, whatever another worker does meanwhile
\* (row-lock deadlocks, creation rows inserted first).
RunCompletes ==
    <>[]poolKnown => \A w \in Workers : []<>(pc[w] = "done")

\* What the ledger sees of a fetched block, and of a worker: it has written its
\* block once the hot rows are committed, or the block has no transactions.
Summary(b) == [ver |-> b.ver, txs |-> b.txs]
HasWritten(w) == pc[w] \in {"read", "delete", "commit", "mark"}

LedgerMarker == IF marker = None THEN None ELSE Summary(marker)
LedgerRun == [w \in Workers |-> IF HasWritten(w) THEN Summary(trace[w]) ELSE None]

Ledger == INSTANCE IndexLedger WITH
    store <- hot, marker <- LedgerMarker, run <- LedgerRun

\* The hot tables and the marker behave as IndexLedger says: the upserts, the
\* two deletes and the inserts of a run amount to one replacement of the rows of
\* the block's transactions, however runs interleave, and only such a run
\* records the block.
ImplementsLedger == Ledger!Spec

-----------------------------------------------------------------------------
(* Statements of the documentation that the code does not keep *)

\* README.md, on processing a block again: "Rebuild PoolSwap/PoolCreation/...
\* rows for the block via the existing replace-* functions". The creation row of
\* a transaction that a reorganisation removed stays, and the unique index then
\* rejects the row of the transaction that now creates the pool, at every retry.
RebuildCompletes == RunCompletes
=============================================================================
