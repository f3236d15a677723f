------------------------- MODULE BlockPipelineProofs -------------------------
(***************************************************************************)
(* Proofs about module BlockPipeline, for any set of workers and           *)
(* transactions, any selection of derived tables, and all bounds. They     *)
(* rest on one inductive invariant, PipelineInv: what a worker has seen in *)
(* its open transaction is still what the tables hold, for the rows it has *)
(* locked.                                                                 *)
(***************************************************************************)
EXTENDS BlockPipeline, TLAPS

\* What upstream says is about the transactions of the block. What a run has traced
\* is about those it has fetched, and it goes on when all are traced.
TracesInv ==
    /\ \A t \in Derived : block.found[t] \subseteq block.txs
    /\ \A w \in Workers :
          /\ untraced[w] \subseteq trace[w].txs
          /\ pc[w] # "trace" => untraced[w] = {}
          /\ \A t \in Derived : trace[w].found[t] \subseteq trace[w].txs

\* Between the deletes and the commit of the hot tables a worker holds the rows of
\* all its transactions, and what its deletes saw is what is there.
HotInv ==
    \A w \in Workers : pc[w] = "hot_commit" =>
        /\ \A x \in trace[w].txs : locks[x] = w
        /\ doomed[w] = OfBlock(w, hot)

HotHas(x) == \E r \in hot : r.tx = x

\* Once the hot tables are committed, each transaction of the run has rows there;
\* the rows to be written come from the traces.
DerivedInv ==
    \A w \in Workers :
        /\ pc[w] \in {"read", "delete", "commit"} =>
              \A x \in trace[w].txs : HotHas(x)
        /\ pc[w] \in {"delete", "commit"} => rows[w] \subseteq trace[w].found[Table(w)]

\* The block's version counts its changes; the phase index is at the first table
\* whenever no derived table is being written.
ControlInv ==
    /\ block.ver = retraces + replacements
    /\ \A w \in Workers :
          pc[w] \notin {"read", "delete", "commit", "mark"} => phase[w] = 1

PipelineInv ==
    /\ TypeOK
    /\ ControlInv
    /\ TracesInv
    /\ HotInv
    /\ DerivedInv
    /\ HotRowsFromOneRun
    /\ DerivedRowsHaveTransaction

\* The pipeline run by the poller alone, the service without a start height.
OneWorker == \A u, v \in Workers : u = v

\* A worker whose run has fetched its block, and one that has all traces as well.
Fetched(w) == pc[w] \notin {"idle", "fetch"}
HasBlock(w) == pc[w] \notin {"idle", "fetch", "trace"}

\* Versions only grow, and one version is one block: what a run, the marker or a
\* row has of the current version is the current block's.
VersionInv ==
    /\ \A r \in hot : r.ver <= block.ver /\ (r.ver = block.ver => r.tx \in block.txs)
    /\ \A t \in Derived : \A r \in tables[t] :
          r.ver <= block.ver /\ (r.ver = block.ver => r.tx \in block.found[t])
    /\ marker # None => marker.ver <= block.ver /\ (marker.ver = block.ver => marker = block)
    /\ \A w \in Workers : Fetched(w) =>
          /\ trace[w].ver <= block.ver
          /\ trace[w].ver = block.ver =>
                /\ trace[w].txs = block.txs
                /\ \A t \in Derived : trace[w].found[t] = block.found[t] \ untraced[w]

\* A run that began after the marker was written is not behind it.
OrderInv == \A w \in Workers : Fetched(w) /\ marker # None => marker.ver <= trace[w].ver

\* What the open transaction of a derived table has deleted is all the table has
\* of the block; its rows are those of the traces, unless they need the pool.
OpenInv ==
    \A w \in Workers :
        /\ pc[w] = "commit" => doomed[w] = OfBlock(w, tables[Table(w)])
        /\ pc[w] \in {"delete", "commit"} /\ Table(w) \notin NeedsPool
              => rows[w] = trace[w].found[Table(w)]

\* The current block is in the hot tables, and in the derived table t as far as
\* the marker vouches for it.
HotSettled == \A x \in block.txs : \E r \in hot : r.tx = x /\ r.ver = block.ver
Settled(t) ==
    /\ t \in AlwaysReplaced => \A r \in tables[t] : r.tx \in block.txs => r.ver = block.ver
    /\ t \in UniquePerPool =>
          \A x \in block.found[t] : \E r \in tables[t] : r.tx = x /\ r.ver = block.ver

\* How far a run of the current block has got.
RunInv ==
    \A w \in Workers : HasWritten(w) /\ trace[w].ver = block.ver =>
        /\ HotSettled
        /\ \A i \in 1..Len(Phases) : i < phase[w] => Settled(Phases[i])
        /\ pc[w] = "mark" => phase[w] = Len(Phases) + 1 \/ block.txs = {}

\* What the marker says, also while the block is processed again.
MarkInv ==
    marker # None /\ marker.ver = block.ver => HotSettled /\ \A t \in Derived : Settled(t)

SoloInv == VersionInv /\ OrderInv /\ OpenInv /\ RunInv /\ MarkInv /\ DerivedRowsFromOneRun

-----------------------------------------------------------------------------
(* Blocks and rows *)

\* The parts of what fetching a block returns (TxDecodeTraceResult).
LEMMA BlockFields ==
  ASSUME NEW b \in Blocks
  PROVE  /\ b.ver \in Versions
         /\ b.txs \subseteq Txids
         /\ b.found \in [Derived -> SUBSET Txids]
         /\ \A t \in Derived : b.found[t] \subseteq Txids
  BY DEF Blocks

\* Other traces for the same transactions.
LEMMA OtherTraces ==
  ASSUME NEW b \in Blocks, NEW f
  PROVE  [b EXCEPT !.found = f] = [ver |-> b.ver, txs |-> b.txs, found |-> f]
  BY DEF Blocks

\* A run that has fetched nothing yet refers to nothing.
LEMMA NoBlockFact ==
  /\ NoBlock \in Blocks /\ NoBlock.txs = {}
  /\ NoBlock.found \in [Derived -> SUBSET Txids]
  /\ \A t \in Derived : NoBlock.found[t] = {}
  <1>1. 0 \in Versions
    BY PipelineAssumption DEF Versions
  <1>2. [t \in Derived |-> {}] \in [Derived -> SUBSET Txids]
    OBVIOUS
  <1> QED
    BY <1>1, <1>2 DEF NoBlock, Blocks

\* What Fetch leaves in the run: the block, with nothing traced yet.
LEMMA FetchFact ==
  ASSUME TypeOK, NEW w \in Workers, Fetch(w)
  PROVE  /\ trace'[w] \in Blocks
         /\ trace'[w].ver = block.ver /\ trace'[w].txs = block.txs
         /\ \A t \in Derived : trace'[w].found[t] = {}
         /\ untraced'[w] = block.txs
         /\ trace' \in [Workers -> Blocks]
         /\ untraced' \in [Workers -> SUBSET Txids]
         /\ pc'[w] = IF block.txs = {} THEN "mark" ELSE "trace"
         /\ UNCHANGED <<block, marker, hot, tables>>
  <1> DEFINE b == [ver |-> block.ver, txs |-> block.txs, found |-> NoBlock.found]
  <1>0. [block EXCEPT !.found = NoBlock.found] = b
    BY OtherTraces DEF TypeOK
  <1>1. /\ trace' = [trace EXCEPT ![w] = b] /\ untraced' = [untraced EXCEPT ![w] = block.txs]
        /\ pc'[w] = IF block.txs = {} THEN "mark" ELSE "trace"
    BY <1>0 DEF Fetch, Goto, TypeOK
  <1>2. b \in Blocks /\ block.txs \in SUBSET Txids
    BY NoBlockFact, BlockFields DEF Blocks, TypeOK
  <1>3. b.ver = block.ver /\ b.txs = block.txs /\ \A t \in Derived : b.found[t] = {}
    BY NoBlockFact
  <1> HIDE DEF b
  <1>4. trace'[w] = b /\ untraced'[w] = block.txs
    BY <1>1 DEF TypeOK
  <1>5. trace' \in [Workers -> Blocks] /\ untraced' \in [Workers -> SUBSET Txids]
    BY <1>1, <1>2 DEF TypeOK
  <1> QED
    BY <1>1, <1>2, <1>3, <1>4, <1>5 DEF Fetch, dbVars

\* What Trace adds to it: what the services now say of one of its transactions.
LEMMA TraceFact ==
  ASSUME TypeOK, NEW w \in Workers, NEW x \in Txids, Trace(w, x)
  PROVE  /\ x \in untraced[w]
         /\ trace'[w] \in Blocks
         /\ trace'[w].ver = trace[w].ver /\ trace'[w].txs = trace[w].txs
         /\ \A t \in Derived :
               trace'[w].found[t] = trace[w].found[t] \cup (block.found[t] \cap {x})
         /\ untraced'[w] = untraced[w] \ {x}
         /\ trace' \in [Workers -> Blocks]
         /\ untraced' \in [Workers -> SUBSET Txids]
         /\ pc[w] = "trace"
         /\ pc'[w] = IF untraced[w] = {x} THEN "upsert" ELSE "trace"
         /\ UNCHANGED <<block, marker, hot, tables>>
  <1> DEFINE b == [ver |-> trace[w].ver, txs |-> trace[w].txs, found |-> WithTraceOf(w, x)]
  <1>0. [trace EXCEPT ![w].found = WithTraceOf(w, x)] = [trace EXCEPT ![w] = b]
    <2>1. [trace[w] EXCEPT !.found = WithTraceOf(w, x)] = b
      BY OtherTraces DEF TypeOK
    <2>2. [trace EXCEPT ![w].found = WithTraceOf(w, x)]
             = [trace EXCEPT ![w] = [trace[w] EXCEPT !.found = WithTraceOf(w, x)]]
      OBVIOUS
    <2> QED
      BY <2>1, <2>2
  <1>1. /\ trace' = [trace EXCEPT ![w] = b] /\ untraced' = [untraced EXCEPT ![w] = @ \ {x}]
        /\ pc'[w] = IF untraced[w] = {x} THEN "upsert" ELSE "trace"
        /\ pc[w] = "trace" /\ x \in untraced[w]
    BY <1>0 DEF Trace, Goto, AfterTraces, TypeOK
  <1>2. /\ WithTraceOf(w, x) \in [Derived -> SUBSET Txids]
        /\ \A t \in Derived :
              WithTraceOf(w, x)[t] = trace[w].found[t] \cup (block.found[t] \cap {x})
    BY BlockFields DEF WithTraceOf, TypeOK
  <1>3. b \in Blocks
    BY <1>2, BlockFields DEF Blocks, TypeOK
  <1>4. /\ b.ver = trace[w].ver /\ b.txs = trace[w].txs
        /\ \A t \in Derived : b.found[t] = trace[w].found[t] \cup (block.found[t] \cap {x})
    BY <1>2
  <1> HIDE DEF b
  <1>5. trace'[w] = b /\ untraced'[w] = untraced[w] \ {x}
    BY <1>1 DEF TypeOK
  <1>6. trace' \in [Workers -> Blocks] /\ untraced' \in [Workers -> SUBSET Txids]
    BY <1>1, <1>3 DEF TypeOK
  <1> QED
    BY <1>1, <1>3, <1>4, <1>5, <1>6 DEF Trace, dbVars

\* What the inserts of a run write: one row per transaction, of its own version.
LEMMA RowsByFact ==
  ASSUME TypeOK, NEW w \in Workers, NEW xs \in SUBSET Txids
  PROVE  /\ RowsBy(w, xs) \subseteq Rows
         /\ \A r \in RowsBy(w, xs) : r.tx \in xs
         /\ \A x \in xs : \E r \in RowsBy(w, xs) : r.tx = x
         /\ \A r1, r2 \in RowsBy(w, xs) : r1.tx = r2.tx => r1 = r2
  <1>1. trace[w].ver \in Versions
    BY BlockFields DEF TypeOK
  <1> DEFINE Row(x) == [tx |-> x, ver |-> trace[w].ver, by |-> w]
  <1>2. \A x \in xs : Row(x) \in Rows /\ Row(x).tx = x
    BY <1>1 DEF Rows
  <1>3. RowsBy(w, xs) = {Row(x) : x \in xs}
    BY DEF RowsBy
  <1> HIDE DEF Row
  <1> QED
    BY <1>2, <1>3

\* While a phase is in progress its table is one of the instance's.
LEMMA TableFact ==
  ASSUME TypeOK, NEW w \in Workers, pc[w] \in {"read", "delete", "commit"}
  PROVE  /\ Table(w) \in Derived
         /\ phase[w] \in 1..Len(Phases)
         /\ Len(Phases) \in Nat
         /\ phase[w] + 1 \in 1..Len(Phases) + 1
         /\ phase[w] # Len(Phases) => phase[w] + 1 <= Len(Phases)
  <1>1. Len(Phases) \in Nat
    BY PipelineAssumption
  <1>2. phase[w] \in 1..Len(Phases) + 1 /\ phase[w] <= Len(Phases)
    BY DEF TypeOK
  <1>3. phase[w] \in 1..Len(Phases)
    BY <1>1, <1>2
  <1> QED
    BY <1>1, <1>2, <1>3 DEF Table, Derived

\* The rows an indexer builds come from the traces of its run.
LEMMA FoundRowsFact ==
  ASSUME TypeOK, NEW w \in Workers, pc[w] = "read"
  PROVE  /\ FoundRows(w) \subseteq trace[w].found[Table(w)]
         /\ FoundRows(w) \subseteq Txids
  <1>1. Table(w) \in Derived
    BY TableFact
  <1>2. trace[w].found[Table(w)] \subseteq Txids
    BY <1>1, BlockFields DEF TypeOK
  <1> QED
    BY <1>2 DEF FoundRows

-----------------------------------------------------------------------------
(* Types *)

\* The initial state has the types.
LEMMA InitType == Init => TypeOK
  <1> SUFFICES ASSUME Init PROVE TypeOK
    OBVIOUS
  <1>1. NoBlock \in Blocks
    BY NoBlockFact
  <1>2. 1 \in 1..Len(Phases) + 1
    BY PipelineAssumption
  <1>3. block \in Blocks
    BY DEF Init
  <1>4. /\ retraces \in 0..MaxRetraces /\ replacements \in 0..MaxReplacements
        /\ reruns \in 0..MaxReruns /\ aborts \in 0..MaxAborts
    BY PipelineAssumption DEF Init
  <1> QED
    BY <1>1, <1>2, <1>3, <1>4 DEF Init, TypeOK, Labels

\* A version that one more change of the block reaches.
LEMMA NextVersion ==
  ASSUME TypeOK, ControlInv, retraces < MaxRetraces \/ replacements < MaxReplacements
  PROVE  block.ver + 1 \in Versions
  BY PipelineAssumption DEF TypeOK, ControlInv, Versions

\* What a failed run does to the types.
LEMMA RollBackType ==
  ASSUME TypeOK, NEW w \in Workers, RollBack(w)
  PROVE  /\ phase' \in [Workers -> 1..Len(Phases) + 1]
         /\ trace' \in [Workers -> Blocks]
         /\ untraced' \in [Workers -> SUBSET Txids]
         /\ rows' \in [Workers -> SUBSET Txids]
         /\ doomed' \in [Workers -> SUBSET Rows]
         /\ locks' \in [Txids -> Workers \cup {None}]
         /\ pc' \in [Workers -> Labels]
         /\ phase'[w] = 1 /\ pc'[w] = "idle"
         /\ \A u \in Workers : u # w => phase'[u] = phase[u] /\ pc'[u] = pc[u]
         /\ UNCHANGED <<block, poolKnown, hot, tables, marker>>
  <1>1. 1 \in 1..Len(Phases) + 1
    BY PipelineAssumption
  <1> QED
    BY <1>1, NoBlockFact DEF RollBack, ReleaseLocks, Goto, TypeOK, Labels

\* Every step keeps the types and the control invariant.
LEMMA TypeStep == TypeOK /\ ControlInv /\ [Next]_vars => TypeOK' /\ ControlInv'
  <1> SUFFICES ASSUME TypeOK, ControlInv, [Next]_vars PROVE TypeOK' /\ ControlInv'
    OBVIOUS
  <1> USE PipelineAssumption DEF boundVars, dbVars, runVars, Goto
  <1>1. CASE Retrace
    <2>1. PICK found \in [Derived -> SUBSET block.txs] :
             block' = [block EXCEPT !.ver = @ + 1, !.found = found]
      BY <1>1 DEF Retrace
    <2>2. block.txs \subseteq Txids /\ block.ver + 1 \in Versions
      BY <1>1, BlockFields, NextVersion DEF Retrace, TypeOK
    <2>3. found \in [Derived -> SUBSET Txids]
      BY <2>2
    <2> DEFINE b == [ver |-> block.ver + 1, txs |-> block.txs, found |-> found]
    <2>4. block' = b
      BY <2>1 DEF TypeOK, Blocks
    <2>5. b \in Blocks /\ b.ver = block.ver + 1
      BY <2>2, <2>3 DEF Blocks
    <2>6. block' \in Blocks /\ block'.ver = block.ver + 1
      BY <2>4, <2>5
    <2>7. TypeOK'
      BY <1>1, <2>6 DEF Retrace, TypeOK
    <2>8. /\ retraces' = retraces + 1 /\ replacements' = replacements
          /\ UNCHANGED <<pc, phase>>
          /\ retraces \in Int /\ replacements \in Int
      BY <1>1 DEF Retrace, TypeOK
    <2>9. ControlInv'
      BY <2>6, <2>8 DEF ControlInv
    <2> QED
      BY <2>7, <2>9
  <1>2. CASE Replace
    <2>1. PICK txs \in SUBSET Txids : \E found \in [Derived -> SUBSET txs] :
             block' = [ver |-> block.ver + 1, txs |-> txs, found |-> found]
      BY <1>2 DEF Replace
    <2>2. PICK found \in [Derived -> SUBSET txs] :
             block' = [ver |-> block.ver + 1, txs |-> txs, found |-> found]
      BY <2>1
    <2>3. found \in [Derived -> SUBSET Txids] /\ block.ver + 1 \in Versions
      BY <1>2, NextVersion DEF Replace
    <2>4. block' \in Blocks /\ block'.ver = block.ver + 1
      BY <2>2, <2>3 DEF Blocks
    <2>5. TypeOK'
      BY <1>2, <2>4 DEF Replace, TypeOK
    <2>6. /\ replacements' = replacements + 1 /\ retraces' = retraces
          /\ UNCHANGED <<pc, phase>>
          /\ retraces \in Int /\ replacements \in Int
      BY <1>2 DEF Replace, TypeOK
    <2>7. ControlInv'
      BY <2>4, <2>6 DEF ControlInv
    <2> QED
      BY <2>5, <2>7
  <1>3. CASE PoolInserted
    BY <1>3 DEF PoolInserted, TypeOK, ControlInv
  <1>4. ASSUME NEW w \in Workers, Begin(w) PROVE TypeOK' /\ ControlInv'
    BY <1>4 DEF Begin, TypeOK, ControlInv, Labels
  <1>5. ASSUME NEW w \in Workers, Rerun(w) PROVE TypeOK' /\ ControlInv'
    <2>1. trace' \in [Workers -> Blocks]
      BY <1>5, NoBlockFact DEF Rerun, TypeOK
    <2> QED
      BY <1>5, <2>1 DEF Rerun, TypeOK, ControlInv, Labels
  <1>6. ASSUME NEW w \in Workers, Fetch(w) PROVE TypeOK' /\ ControlInv'
    <2>1. /\ trace' \in [Workers -> Blocks] /\ untraced' \in [Workers -> SUBSET Txids]
          /\ pc' \in [Workers -> Labels]
          /\ pc'[w] \in {"mark", "trace"} /\ \A u \in Workers : u # w => pc'[u] = pc[u]
      BY <1>6, FetchFact DEF Fetch, TypeOK, Labels
    <2> QED
      BY <1>6, <2>1 DEF Fetch, TypeOK, ControlInv
  <1>17. ASSUME NEW w \in Workers, NEW x \in Txids, Trace(w, x) PROVE TypeOK' /\ ControlInv'
    <2>1. /\ trace' \in [Workers -> Blocks] /\ untraced' \in [Workers -> SUBSET Txids]
          /\ pc' \in [Workers -> Labels] /\ pc[w] = "trace"
          /\ pc'[w] \in {"upsert", "trace"} /\ \A u \in Workers : u # w => pc'[u] = pc[u]
      BY <1>17, TraceFact DEF Trace, TypeOK, Labels
    <2> QED
      BY <1>17, <2>1 DEF Trace, TypeOK, ControlInv
  <1>7. ASSUME NEW w \in Workers, NEW x \in Txids, UpsertTransaction(w, x)
        PROVE  TypeOK' /\ ControlInv'
    BY <1>7 DEF UpsertTransaction, TypeOK, ControlInv
  <1>8. ASSUME NEW w \in Workers, DeleteHotRows(w) PROVE TypeOK' /\ ControlInv'
    <2>1. OfBlock(w, hot) \subseteq Rows
      BY DEF OfBlock, TypeOK
    <2> QED
      BY <1>8, <2>1 DEF DeleteHotRows, TypeOK, ControlInv, Labels
  <1>9. ASSUME NEW w \in Workers, CommitHotRows(w) PROVE TypeOK' /\ ControlInv'
    <2>1. trace[w].txs \subseteq Txids
      BY BlockFields DEF TypeOK
    <2>2. hot' \subseteq Rows
      BY <1>9, <2>1, RowsByFact DEF CommitHotRows, TypeOK
    <2>3. locks' \in [Txids -> Workers \cup {None}]
      BY <1>9 DEF CommitHotRows, ReleaseLocks, TypeOK
    <2>4. Phases = <<>> \/ phase[w] <= Len(Phases)
      BY <1>9 DEF CommitHotRows, ControlInv
    <2> QED
      BY <1>9, <2>2, <2>3, <2>4 DEF CommitHotRows, TypeOK, ControlInv, Labels
  <1>10. ASSUME NEW w \in Workers, ReadPools(w) PROVE TypeOK' /\ ControlInv'
    <2>1. FoundRows(w) \subseteq Txids
      BY <1>10, FoundRowsFact DEF ReadPools
    <2>2. /\ phase[w] + 1 \in 1..Len(Phases) + 1
          /\ phase[w] # Len(Phases) => phase[w] + 1 <= Len(Phases)
      BY <1>10, TableFact DEF ReadPools
    <2>3. CASE Writes(w)
      BY <1>10, <2>1, <2>3 DEF ReadPools, TypeOK, ControlInv, Labels
    <2>4. CASE ~Writes(w)
      BY <1>10, <2>1, <2>2, <2>4
         DEF ReadPools, AfterPhase, TypeOK, ControlInv, Labels
    <2> QED
      BY <2>3, <2>4
  <1>11. ASSUME NEW w \in Workers, DeleteRows(w) PROVE TypeOK' /\ ControlInv'
    <2>1. Table(w) \in Derived
      BY <1>11, TableFact DEF DeleteRows
    <2>2. OfBlock(w, tables[Table(w)]) \subseteq Rows
      BY <2>1 DEF OfBlock, TypeOK
    <2> QED
      BY <1>11, <2>2 DEF DeleteRows, TypeOK, ControlInv, Labels
  <1>12. ASSUME NEW w \in Workers, CommitRows(w) PROVE TypeOK' /\ ControlInv'
    <2>1. /\ Table(w) \in Derived
          /\ phase[w] + 1 \in 1..Len(Phases) + 1
          /\ phase[w] # Len(Phases) => phase[w] + 1 <= Len(Phases)
      BY <1>12, TableFact DEF CommitRows
    <2>2. RowsBy(w, rows[w]) \subseteq Rows
      BY RowsByFact DEF TypeOK
    <2>3. tables' \in [Derived -> SUBSET Rows]
      BY <1>12, <2>1, <2>2 DEF CommitRows, Remaining, TypeOK
    <2> QED
      BY <1>12, <2>1, <2>3 DEF CommitRows, AfterPhase, TypeOK, ControlInv, Labels
  <1>13. ASSUME NEW w \in Workers, RecordMarker(w) PROVE TypeOK' /\ ControlInv'
    <2>1. 1 \in 1..Len(Phases) + 1
      OBVIOUS
    <2> QED
      BY <1>13, <2>1 DEF RecordMarker, TypeOK, ControlInv, Labels
  <1>14. ASSUME NEW w \in Workers, RollBack(w),
                /\ retraces' = retraces /\ replacements' = replacements
                /\ reruns' = reruns /\ aborts' \in 0..MaxAborts
         PROVE  TypeOK' /\ ControlInv'
    BY <1>14, RollBackType DEF TypeOK, ControlInv
  <1>15. ASSUME NEW w \in Workers, Abort(w) \/ ConstraintFails(w) \/ DeadlockVictim(w)
         PROVE  TypeOK' /\ ControlInv'
    <2>1. /\ RollBack(w)
          /\ retraces' = retraces /\ replacements' = replacements
          /\ reruns' = reruns /\ aborts' \in 0..MaxAborts
      BY <1>15 DEF Abort, ConstraintFails, DeadlockVictim, TypeOK
    <2> QED
      BY <1>14, <2>1
  <1>16. CASE UNCHANGED vars
    BY <1>16 DEF vars, TypeOK, ControlInv
  <1> QED
    BY <1>1, <1>2, <1>3, <1>4, <1>5, <1>6, <1>7, <1>8, <1>9, <1>10, <1>11, <1>12,
       <1>13, <1>15, <1>16, <1>17 DEF Next, Step

-----------------------------------------------------------------------------
(* Who changes what *)

\* A worker's step leaves the others' local state alone, and takes or frees only
\* AlkaneTransaction rows that are its own or nobody's.
LEMMA OthersLocal ==
  ASSUME TypeOK, NEW w \in Workers, Step(w) \/ Rerun(w) \/ Abort(w),
         NEW u \in Workers, u # w
  PROVE  /\ pc'[u] = pc[u] /\ phase'[u] = phase[u] /\ trace'[u] = trace[u]
         /\ untraced'[u] = untraced[u] /\ rows'[u] = rows[u] /\ doomed'[u] = doomed[u]
         /\ \A x \in Txids : locks[x] = u => locks'[x] = u
  <1> USE PipelineAssumption DEF TypeOK, boundVars, dbVars, runVars, Goto
  <1>1. CASE RollBack(w)
    BY <1>1 DEF RollBack, ReleaseLocks
  <1>2. CASE CommitHotRows(w)
    BY <1>2 DEF CommitHotRows, ReleaseLocks
  <1>3. ASSUME NEW x \in Txids, UpsertTransaction(w, x)
        PROVE  /\ UNCHANGED runVars
               /\ \A y \in Txids : locks[y] = u => locks'[y] = u
    BY <1>3 DEF UpsertTransaction, Unlocked
  <1>4. CASE Begin(w) \/ Fetch(w) \/ DeleteHotRows(w) \/ Rerun(w)
    BY <1>4 DEF Begin, Fetch, DeleteHotRows, Rerun
  <1>8. ASSUME NEW x \in Txids, Trace(w, x)
        PROVE  /\ UNCHANGED <<phase, rows, doomed, locks>>
               /\ pc'[u] = pc[u] /\ trace'[u] = trace[u] /\ untraced'[u] = untraced[u]
    BY <1>8 DEF Trace
  <1>5. CASE ReadPools(w)
    BY <1>5 DEF ReadPools
  <1>6. CASE DeleteRows(w) \/ CommitRows(w) \/ RecordMarker(w)
    BY <1>6 DEF DeleteRows, CommitRows, RecordMarker
  <1>7. Abort(w) \/ ConstraintFails(w) \/ DeadlockVictim(w) => RollBack(w)
    BY DEF Abort, ConstraintFails, DeadlockVictim
  <1> QED
    BY <1>1, <1>2, <1>3, <1>4, <1>5, <1>6, <1>7, <1>8 DEF Step

\* Only the commit of the first transaction writes the hot tables, and only
\* replace_* commits write the derived ones.
LEMMA TablesWritten ==
  ASSUME NEW w \in Workers, Step(w) \/ Rerun(w) \/ Abort(w)
  PROVE  /\ CommitHotRows(w) \/ UNCHANGED hot
         /\ CommitRows(w) \/ UNCHANGED tables
         /\ UNCHANGED block
  BY DEF Step, Rerun, Abort, Begin, Fetch, Trace, UpsertTransaction, DeleteHotRows,
         CommitHotRows, ReadPools, DeleteRows, CommitRows, RecordMarker, RollBack,
         ConstraintFails, DeadlockVictim, dbVars, runVars, boundVars

-----------------------------------------------------------------------------
(* The traces *)

\* Traces are only taken of what the run has fetched, and it goes on with all.
LEMMA TracesStep ==
  TypeOK /\ TracesInv /\ [Next]_vars => TracesInv'
  <1> SUFFICES ASSUME TypeOK, TracesInv, [Next]_vars PROVE TracesInv'
    OBVIOUS
  <1>1. CASE Retrace \/ Replace
    <2>1. Possible(block') /\ UNCHANGED runVars
      BY <1>1 DEF Retrace, Replace
    <2> QED
      BY <2>1 DEF TracesInv, Possible, runVars
  <1>2. CASE PoolInserted \/ UNCHANGED vars
    BY <1>2 DEF PoolInserted, TracesInv, vars, runVars
  <1>3. ASSUME NEW w \in Workers, Step(w) \/ Rerun(w) \/ Abort(w)
        PROVE  TracesInv'
    <2> DEFINE Good(u) == /\ untraced[u] \subseteq trace[u].txs
                          /\ pc[u] # "trace" => untraced[u] = {}
                          /\ \A t \in Derived : trace[u].found[t] \subseteq trace[u].txs
    <2>0. \A u \in Workers : Good(u)
      BY DEF TracesInv
    <2>1. ASSUME Fetch(w) PROVE Good(w)'
      BY <2>1, FetchFact
    <2>2. ASSUME NEW x \in Txids, Trace(w, x) PROVE Good(w)'
      BY <2>0, <2>2, TraceFact
    <2>3. ASSUME RollBack(w) PROVE Good(w)'
      BY <2>3, NoBlockFact DEF RollBack, TypeOK
    <2>4. ASSUME Begin(w) PROVE Good(w)'
      BY <2>0, <2>4 DEF Begin, Goto, TypeOK
    <2>5. ASSUME Rerun(w) PROVE Good(w)'
      BY <2>0, <2>5, NoBlockFact DEF Rerun, Goto, TypeOK
    <2>6. ASSUME NEW x \in Txids, UpsertTransaction(w, x) PROVE Good(w)'
      BY <2>0, <2>6 DEF UpsertTransaction, runVars
    <2>7. ASSUME DeleteHotRows(w) \/ CommitHotRows(w) \/ ReadPools(w) PROVE Good(w)'
      BY <2>0, <2>7 DEF DeleteHotRows, CommitHotRows, ReadPools, AfterPhase, Goto, TypeOK
    <2>8. ASSUME DeleteRows(w) \/ CommitRows(w) \/ RecordMarker(w) PROVE Good(w)'
      BY <2>0, <2>8 DEF DeleteRows, CommitRows, RecordMarker, AfterPhase, Goto, TypeOK
    <2>9. Abort(w) \/ ConstraintFails(w) \/ DeadlockVictim(w) => RollBack(w)
      BY DEF Abort, ConstraintFails, DeadlockVictim
    <2>10. Good(w)'
      BY <1>3, <2>1, <2>2, <2>3, <2>4, <2>5, <2>6, <2>7, <2>8, <2>9 DEF Step
    <2>11. \A u \in Workers : u # w => Good(u)'
      BY <1>3, <2>0, OthersLocal
    <2> QED
      BY <1>3, <2>10, <2>11, TablesWritten DEF TracesInv
  <1> QED
    BY <1>1, <1>2, <1>3 DEF Next

-----------------------------------------------------------------------------
(* The hot tables *)

\* The open transactions of two workers touch different transactions' rows.
LEMMA DisjointRuns ==
  ASSUME TypeOK, HotInv, NEW u \in Workers, NEW w \in Workers, u # w,
         pc[u] = "hot_commit", pc[w] = "hot_commit"
  PROVE  trace[u].txs \cap trace[w].txs = {}
  BY DEF HotInv

\* After the commit, the rows of the run's transactions are those of the run, and
\* all other rows are as before.
LEMMA HotAfterCommit ==
  ASSUME TypeOK, HotInv, NEW w \in Workers, CommitHotRows(w)
  PROVE  /\ \A r \in hot' : r.tx \in trace[w].txs <=> r \in RowsBy(w, trace[w].txs)
         /\ \A r \in Rows : r.tx \notin trace[w].txs => (r \in hot' <=> r \in hot)
         /\ \A x \in trace[w].txs : \E r \in hot' : r.tx = x
         /\ trace[w].txs \subseteq Txids
         /\ hot' \subseteq Rows
  <1>1. trace[w].txs \in SUBSET Txids
    BY BlockFields DEF TypeOK
  <1>2. /\ pc[w] = "hot_commit"
        /\ hot' = (hot \ OfBlock(w, hot)) \cup RowsBy(w, trace[w].txs)
    BY DEF CommitHotRows, HotInv
  <1>3. OfBlock(w, hot) = {r \in hot : r.tx \in trace[w].txs}
    BY DEF OfBlock
  <1>4. hot \subseteq Rows
    BY DEF TypeOK
  <1> QED
    BY <1>1, <1>2, <1>3, <1>4, RowsByFact

\* No step of another worker disturbs an open transaction on the hot tables.
LEMMA HotStep ==
  TypeOK /\ HotInv /\ HotRowsFromOneRun /\ [Next]_vars
     => HotInv' /\ HotRowsFromOneRun'
  <1> SUFFICES ASSUME TypeOK, HotInv, HotRowsFromOneRun, [Next]_vars
               PROVE  HotInv' /\ HotRowsFromOneRun'
    OBVIOUS
  <1>1. CASE Retrace \/ Replace \/ PoolInserted \/ UNCHANGED vars
    <2>1. UNCHANGED <<dbVars, runVars>>
      BY <1>1 DEF Retrace, Replace, PoolInserted, vars
    <2> QED
      BY <2>1 DEF HotInv, HotRowsFromOneRun, OfBlock, dbVars, runVars
  <1>2. ASSUME NEW w \in Workers, Step(w) \/ Rerun(w) \/ Abort(w)
        PROVE  HotInv' /\ HotRowsFromOneRun'
    <2>1. HotRowsFromOneRun'
      <3>1. CASE UNCHANGED hot
        BY <3>1 DEF HotRowsFromOneRun
      <3>2. CASE CommitHotRows(w)
        <4> SUFFICES ASSUME NEW r1 \in hot', NEW r2 \in hot', r1.tx = r2.tx
                     PROVE  r1 = r2
          BY DEF HotRowsFromOneRun
        <4>1. CASE r1.tx \in trace[w].txs
          <5>1. /\ r1 \in RowsBy(w, trace[w].txs) /\ r2 \in RowsBy(w, trace[w].txs)
                /\ trace[w].txs \in SUBSET Txids
            BY <3>2, <4>1, HotAfterCommit
          <5> QED
            BY <5>1, RowsByFact
        <4>2. CASE r1.tx \notin trace[w].txs
          <5>1. r1 \in hot /\ r2 \in hot
            BY <3>2, <4>2, HotAfterCommit
          <5> QED
            BY <5>1 DEF HotRowsFromOneRun
        <4> QED
          BY <4>1, <4>2
      <3> QED
        BY <1>2, <3>1, <3>2, TablesWritten
    <2>2. ASSUME NEW u \in Workers, u # w, pc'[u] = "hot_commit"
          PROVE  /\ \A x \in trace'[u].txs : locks'[x] = u
                 /\ doomed'[u] = {r \in hot' : r.tx \in trace'[u].txs}
      <3>1. /\ pc[u] = "hot_commit" /\ trace'[u] = trace[u] /\ doomed'[u] = doomed[u]
            /\ \A x \in Txids : locks[x] = u => locks'[x] = u
        BY <1>2, <2>2, OthersLocal
      <3>2. /\ \A x \in trace[u].txs : locks[x] = u
            /\ doomed[u] = {r \in hot : r.tx \in trace[u].txs}
            /\ trace[u].txs \subseteq Txids
        BY <3>1, BlockFields DEF HotInv, OfBlock, TypeOK
      <3>3. {r \in hot : r.tx \in trace[u].txs} = {r \in hot' : r.tx \in trace[u].txs}
        <4>1. CASE UNCHANGED hot
          BY <4>1
        <4>2. CASE CommitHotRows(w)
          <5>1. trace[u].txs \cap trace[w].txs = {}
            BY <2>2, <3>1, <4>2, DisjointRuns DEF CommitHotRows
          <5>2. \A r \in Rows : r.tx \notin trace[w].txs => (r \in hot' <=> r \in hot)
            BY <4>2, HotAfterCommit
          <5>3. hot \subseteq Rows /\ hot' \subseteq Rows
            BY <4>2, HotAfterCommit DEF TypeOK
          <5> QED
            BY <5>1, <5>2, <5>3
        <4> QED
          BY <1>2, <4>1, <4>2, TablesWritten
      <3> QED
        BY <3>1, <3>2, <3>3
    <2>3. ASSUME pc'[w] = "hot_commit"
          PROVE  /\ \A x \in trace'[w].txs : locks'[x] = w
                 /\ doomed'[w] = {r \in hot' : r.tx \in trace'[w].txs}
      <3>1. DeleteHotRows(w)
        BY <1>2, <2>3 DEF Step, Rerun, Abort, Begin, Fetch, Trace, AfterTraces, UpsertTransaction,
           CommitHotRows, ReadPools, DeleteRows, CommitRows, RecordMarker, RollBack,
           ConstraintFails, DeadlockVictim, AfterPhase, Goto, runVars, TypeOK
      <3> QED
        BY <3>1 DEF DeleteHotRows, OfBlock, dbVars, TypeOK
    <2> QED
      BY <2>1, <2>2, <2>3 DEF HotInv, OfBlock
  <1> QED
    BY <1>1, <1>2 DEF Next

-----------------------------------------------------------------------------
(* The derived tables *)

\* A transaction that once has hot rows keeps having some: the deletes only commit
\* together with the inserts that follow them.
LEMMA HotHasKept ==
  ASSUME TypeOK, HotInv, [Next]_vars, NEW x, HotHas(x)
  PROVE  HotHas(x)'
  <1>1. PICK r \in hot : r.tx = x
    BY DEF HotHas
  <1>2. CASE UNCHANGED hot
    BY <1>1, <1>2 DEF HotHas
  <1>3. ASSUME NEW w \in Workers, CommitHotRows(w) PROVE HotHas(x)'
    <2>1. CASE x \in trace[w].txs
      BY <1>3, <2>1, HotAfterCommit DEF HotHas
    <2>2. CASE x \notin trace[w].txs
      <3>1. r \in hot'
        BY <1>1, <1>3, <2>2, HotAfterCommit DEF TypeOK
      <3> QED
        BY <1>1, <3>1 DEF HotHas
    <2> QED
      BY <2>1, <2>2
  <1>4. Retrace \/ Replace \/ PoolInserted \/ UNCHANGED vars => UNCHANGED hot
    BY DEF Retrace, Replace, PoolInserted, vars, dbVars
  <1> QED
    BY <1>2, <1>3, <1>4, TablesWritten DEF Next

\* How a worker comes to be writing a derived table.
LEMMA EnterPhase ==
  ASSUME TypeOK, NEW w \in Workers, Step(w) \/ Rerun(w) \/ Abort(w),
         pc'[w] \in {"read", "delete", "commit"}
  PROVE  /\ \/ CommitHotRows(w)
            \/ pc[w] \in {"read", "delete", "commit"} /\ UNCHANGED hot
         /\ trace'[w] = trace[w]
         /\ pc'[w] \in {"delete", "commit"} =>
               \/ ReadPools(w) /\ pc[w] = "read" /\ rows'[w] = FoundRows(w)
                  /\ phase'[w] = phase[w]
               \/ DeleteRows(w) /\ pc[w] = "delete" /\ rows'[w] = rows[w]
                  /\ phase'[w] = phase[w]
  <1> USE DEF TypeOK, Goto, dbVars, runVars, boundVars
  <1>1. CASE CommitHotRows(w)
    BY <1>1 DEF CommitHotRows
  <1>2. CASE ReadPools(w)
    BY <1>2 DEF ReadPools, AfterPhase
  <1>3. CASE DeleteRows(w)
    BY <1>3 DEF DeleteRows
  <1>4. CASE CommitRows(w)
    BY <1>4 DEF CommitRows, AfterPhase
  <1>5. ASSUME NEW x \in Txids, UpsertTransaction(w, x) PROVE FALSE
    BY <1>5 DEF UpsertTransaction
  <1>8. ASSUME NEW x \in Txids, Trace(w, x) PROVE FALSE
    BY <1>8 DEF Trace, AfterTraces
  <1>6. ~(Begin(w) \/ Rerun(w) \/ Fetch(w) \/ DeleteHotRows(w) \/ RecordMarker(w))
    BY DEF Begin, Rerun, Fetch, DeleteHotRows, RecordMarker
  <1>7. ~(Abort(w) \/ ConstraintFails(w) \/ DeadlockVictim(w))
    BY DEF Abort, ConstraintFails, DeadlockVictim, RollBack
  <1> QED
    BY <1>1, <1>2, <1>3, <1>4, <1>5, <1>6, <1>7, <1>8 DEF Step

\* What a run knows while it writes the derived tables stays true.
LEMMA DerivedStep ==
  TypeOK /\ HotInv /\ DerivedInv /\ [Next]_vars => DerivedInv'
  <1> SUFFICES ASSUME TypeOK, HotInv, DerivedInv, [Next]_vars PROVE DerivedInv'
    OBVIOUS
  <1> DEFINE Known(u) == \A x \in trace[u].txs : HotHas(x)
             FromTraces(u) == rows[u] \subseteq trace[u].found[Table(u)]
  <1>1. CASE Retrace \/ Replace \/ PoolInserted \/ UNCHANGED vars
    <2>1. UNCHANGED <<dbVars, runVars>>
      BY <1>1 DEF Retrace, Replace, PoolInserted, vars
    <2> QED
      BY <2>1 DEF DerivedInv, HotHas, Table, dbVars, runVars
  <1>2. ASSUME NEW w \in Workers, Step(w) \/ Rerun(w) \/ Abort(w)
        PROVE  DerivedInv'
    <2>1. ASSUME NEW u \in Workers, u # w
          PROVE  /\ pc'[u] \in {"read", "delete", "commit"} => Known(u)'
                 /\ pc'[u] \in {"delete", "commit"} => FromTraces(u)'
      <3>1. /\ pc'[u] = pc[u] /\ phase'[u] = phase[u] /\ trace'[u] = trace[u]
            /\ rows'[u] = rows[u]
        BY <1>2, <2>1, OthersLocal
      <3>2. pc'[u] \in {"read", "delete", "commit"} => Known(u)'
        BY <3>1, HotHasKept DEF DerivedInv
      <3> QED
        BY <3>1, <3>2 DEF DerivedInv, Table
    <2>2. ASSUME pc'[w] \in {"read", "delete", "commit"} PROVE Known(w)'
      <3>1. CASE CommitHotRows(w)
        BY <3>1, HotAfterCommit DEF HotHas, CommitHotRows
      <3>2. CASE pc[w] \in {"read", "delete", "commit"} /\ UNCHANGED hot
        BY <1>2, <2>2, <3>2, EnterPhase, HotHasKept DEF DerivedInv
      <3> QED
        BY <1>2, <2>2, <3>1, <3>2, EnterPhase
    <2>3. ASSUME pc'[w] \in {"delete", "commit"} PROVE FromTraces(w)'
      <3>1. /\ trace'[w] = trace[w] /\ phase'[w] = phase[w]
            /\ \/ pc[w] = "read" /\ rows'[w] = FoundRows(w)
               \/ pc[w] = "delete" /\ rows'[w] = rows[w]
        BY <1>2, <2>3, EnterPhase
      <3>2. rows'[w] \subseteq trace[w].found[Table(w)]
        BY <3>1, FoundRowsFact DEF DerivedInv
      <3> QED
        BY <3>1, <3>2 DEF Table
    <2> QED
      BY <2>1, <2>2, <2>3 DEF DerivedInv
  <1> QED
    BY <1>1, <1>2 DEF Next

\* The rows that a replace_* commit adds.
LEMMA CommittedRows ==
  ASSUME TypeOK, TracesInv, DerivedInv, NEW w \in Workers, CommitRows(w)
  PROVE  /\ Table(w) \in Derived
         /\ tables' = [tables EXCEPT ![Table(w)] = Remaining(w) \cup RowsBy(w, rows[w])]
         /\ Remaining(w) \subseteq tables[Table(w)]
         /\ \A r \in RowsBy(w, rows[w]) : r.tx \in rows[w]
         /\ rows[w] \in SUBSET Txids
         /\ rows[w] \subseteq trace[w].found[Table(w)]
         /\ rows[w] \subseteq trace[w].txs
         /\ \A x \in rows[w] : HotHas(x)
         /\ UNCHANGED hot
  <1>1. pc[w] = "commit" /\ UNCHANGED hot
    BY DEF CommitRows
  <1>2. Table(w) \in Derived
    BY <1>1, TableFact
  <1>3. rows[w] \in SUBSET Txids
    BY DEF TypeOK
  <1>4. rows[w] \subseteq trace[w].found[Table(w)]
    BY <1>1 DEF DerivedInv
  <1>5. rows[w] \subseteq trace[w].txs
    BY <1>2, <1>4 DEF TracesInv
  <1>6. \A x \in rows[w] : HotHas(x)
    BY <1>1, <1>5 DEF DerivedInv
  <1>7. \A r \in RowsBy(w, rows[w]) : r.tx \in rows[w]
    BY <1>3, RowsByFact
  <1> QED
    BY <1>1, <1>2, <1>3, <1>4, <1>5, <1>6, <1>7 DEF CommitRows, Remaining

\* A derived row is inserted after the hot rows of its transaction, which stay.
LEMMA TransactionStep ==
  TypeOK /\ TracesInv /\ HotInv /\ DerivedInv /\ DerivedRowsHaveTransaction
     /\ [Next]_vars => DerivedRowsHaveTransaction'
  <1> SUFFICES ASSUME TypeOK, TracesInv, HotInv, DerivedInv,
                      DerivedRowsHaveTransaction, [Next]_vars,
                      NEW t \in Derived, NEW r \in tables'[t]
               PROVE  HotHas(r.tx)'
    BY DEF DerivedRowsHaveTransaction, HotHas
  <1>1. CASE r \in tables[t]
    <2>1. HotHas(r.tx)
      BY <1>1 DEF DerivedRowsHaveTransaction, HotHas
    <2> QED
      BY <2>1, HotHasKept
  <1>2. CASE r \notin tables[t]
    <2>1. PICK w \in Workers : CommitRows(w)
      <3>1. Retrace \/ Replace \/ PoolInserted \/ UNCHANGED vars => UNCHANGED tables
        BY DEF Retrace, Replace, PoolInserted, vars, dbVars
      <3> QED
        BY <1>2, <3>1, TablesWritten DEF Next
    <2>2. r \in RowsBy(w, rows[w])
      <3>1. /\ Table(w) \in Derived /\ Remaining(w) \subseteq tables[Table(w)]
            /\ tables' = [tables EXCEPT ![Table(w)] = Remaining(w) \cup RowsBy(w, rows[w])]
        BY <2>1, CommittedRows
      <3> QED
        BY <1>2, <3>1 DEF TypeOK
    <2>3. HotHas(r.tx)
      BY <2>1, <2>2, CommittedRows
    <2> QED
      BY <2>3, HotHasKept
  <1> QED
    BY <1>1, <1>2

-----------------------------------------------------------------------------
(* Theorems *)

\* The inductive invariant holds at the start.
LEMMA InitInv == Init => PipelineInv
  <1> SUFFICES ASSUME Init PROVE PipelineInv
    OBVIOUS
  <1>1. TypeOK
    BY InitType
  <1>2. ControlInv
    BY DEF Init, ControlInv
  <1>3. TracesInv
    BY NoBlockFact DEF Init, TracesInv, Possible
  <1>4. HotInv /\ DerivedInv
    BY DEF Init, HotInv, DerivedInv
  <1>5. HotRowsFromOneRun /\ DerivedRowsHaveTransaction
    BY DEF Init, HotRowsFromOneRun, DerivedRowsHaveTransaction
  <1> QED
    BY <1>1, <1>2, <1>3, <1>4, <1>5 DEF PipelineInv

\* Every step keeps it.
LEMMA StepInv == PipelineInv /\ [Next]_vars => PipelineInv'
  BY TypeStep, TracesStep, HotStep, DerivedStep, TransactionStep
  DEF PipelineInv

\* Type correctness: in particular no run reads past the last derived table.
THEOREM PipelineTypeCorrect == Spec => []TypeOK
  <1>1. PipelineInv => TypeOK
    BY DEF PipelineInv
  <1> QED
    BY <1>1, InitInv, StepInv, PTL DEF Spec

\* The row locks of upsert_alkane_transactions serialise the replacement of the
\* decoded protostones and trace events, for any number of workers.
THEOREM HotRowsSerialised == Spec => []HotRowsFromOneRun
  <1>1. PipelineInv => HotRowsFromOneRun
    BY DEF PipelineInv
  <1> QED
    BY <1>1, InitInv, StepInv, PTL DEF Spec

\* Derived rows never exist without the rows of their transaction, whatever run
\* fails between two commits.
THEOREM DerivedAfterHot == Spec => []DerivedRowsHaveTransaction
  <1>1. PipelineInv => DerivedRowsHaveTransaction
    BY DEF PipelineInv
  <1> QED
    BY <1>1, InitInv, StepInv, PTL DEF Spec

-----------------------------------------------------------------------------
(* The hot tables and the marker implement IndexLedger *)

\* A summary is a block of the ledger.
LEMMA SummaryFact ==
  ASSUME NEW b \in Blocks
  PROVE  /\ Summary(b) \in Ledger!Contents
         /\ Summary(b) # None
         /\ Summary(b).ver = b.ver /\ Summary(b).txs = b.txs
         /\ b # None
  BY BlockFields, NoneAssumption DEF Summary, Ledger!Contents

\* What a worker's step does to the ledger's view of the runs: only its own entry
\* changes.
LEMMA RunEntry ==
  ASSUME TypeOK, NEW w \in Workers, Step(w) \/ Rerun(w) \/ Abort(w)
  PROVE  LedgerRun' = [LedgerRun EXCEPT ![w] =
             IF HasWritten(w)' THEN Summary(trace'[w]) ELSE None]
  <1>1. \A u \in Workers : u # w => pc'[u] = pc[u] /\ trace'[u] = trace[u]
    BY OthersLocal
  <1> QED
    BY <1>1 DEF LedgerRun, HasWritten, Summary

\* A worker that had nothing to record and has nothing to record, with the tables
\* and the marker as they were, is invisible to the ledger; so is one that keeps
\* the block it has written.
LEMMA Invisible ==
  ASSUME TypeOK, NEW w \in Workers, Step(w) \/ Rerun(w) \/ Abort(w),
         UNCHANGED <<hot, marker>>,
         \/ ~HasWritten(w) /\ ~HasWritten(w)'
         \/ HasWritten(w) /\ HasWritten(w)' /\ trace'[w] = trace[w]
  PROVE  UNCHANGED Ledger!ledgerVars
  <1>1. LedgerRun[w] = IF HasWritten(w)' THEN Summary(trace'[w]) ELSE None
    BY DEF LedgerRun
  <1>2. LedgerRun' = LedgerRun
    BY <1>1, RunEntry DEF LedgerRun
  <1>3. LedgerMarker' = LedgerMarker
    BY DEF LedgerMarker, Summary
  <1> QED
    BY <1>2, <1>3 DEF Ledger!ledgerVars

\* A failing run: it gives up what it has written, if anything.
LEMMA LedgerRollBack ==
  ASSUME TypeOK, NEW w \in Workers, Step(w) \/ Rerun(w) \/ Abort(w), RollBack(w)
  PROVE  Ledger!GiveUp(w) \/ UNCHANGED Ledger!ledgerVars
  <1>1. UNCHANGED <<hot, marker>> /\ ~HasWritten(w)'
    BY DEF RollBack, Goto, HasWritten, TypeOK
  <1>2. CASE ~HasWritten(w)
    BY <1>1, <1>2, Invisible
  <1>3. CASE HasWritten(w)
    <2>1. LedgerRun[w] # None
      BY <1>3, SummaryFact DEF LedgerRun, TypeOK
    <2>2. LedgerRun' = [LedgerRun EXCEPT ![w] = None]
      BY <1>1, RunEntry
    <2>3. LedgerMarker' = LedgerMarker
      BY <1>1 DEF LedgerMarker, Summary
    <2> QED
      BY <1>1, <2>1, <2>2, <2>3 DEF Ledger!GiveUp
  <1> QED
    BY <1>2, <1>3

\* The commit of the hot tables is one replacement of the rows of the block's
\* transactions.
LEMMA LedgerCommit ==
  ASSUME TypeOK, HotInv, NEW w \in Workers, CommitHotRows(w)
  PROVE  Ledger!Write(w, Summary(trace[w])) /\ Summary(trace[w]) \in Ledger!Contents
  <1>1. /\ pc[w] = "hot_commit" /\ trace' = trace /\ marker' = marker
        /\ hot' = (hot \ OfBlock(w, hot)) \cup RowsBy(w, trace[w].txs)
        /\ HasWritten(w)' /\ ~HasWritten(w)
    BY DEF CommitHotRows, HotInv, Goto, HasWritten, TypeOK
  <1>2. trace[w] \in Blocks
    BY DEF TypeOK
  <1>3. hot' = {r \in hot : r.tx \notin Summary(trace[w]).txs}
               \cup {[tx |-> x, ver |-> Summary(trace[w]).ver, by |-> w] :
                        x \in Summary(trace[w]).txs}
    <2>1. hot \ OfBlock(w, hot) = {r \in hot : r.tx \notin trace[w].txs}
      BY DEF OfBlock
    <2> QED
      BY <1>1, <1>2, <2>1, SummaryFact DEF RowsBy
  <1>4. LedgerRun[w] = None
    BY <1>1 DEF LedgerRun
  <1>5. LedgerRun' = [LedgerRun EXCEPT ![w] = Summary(trace[w])]
    BY <1>1, RunEntry DEF Step
  <1>6. LedgerMarker' = LedgerMarker
    BY <1>1 DEF LedgerMarker, Summary
  <1> QED
    BY <1>2, <1>3, <1>4, <1>5, <1>6, SummaryFact DEF Ledger!Write

\* A fetched block without transactions counts as written.
LEMMA LedgerFetch ==
  ASSUME TypeOK, NEW w \in Workers, Fetch(w)
  PROVE  \/ UNCHANGED Ledger!ledgerVars
         \/ \E b \in Ledger!Contents : Ledger!Write(w, b)
  <1>1. /\ pc[w] = "fetch" /\ UNCHANGED <<hot, marker>> /\ ~HasWritten(w)
        /\ pc'[w] = IF block.txs = {} THEN "mark" ELSE "trace"
        /\ Summary(trace'[w]) = Summary(block)
    BY FetchFact DEF Fetch, HasWritten, Summary
  <1>2. CASE block.txs # {}
    <2>1. ~HasWritten(w)'
      BY <1>1, <1>2 DEF HasWritten
    <2> QED
      BY <1>1, <2>1, Invisible DEF Step
  <1>3. CASE block.txs = {}
    <2>1. HasWritten(w)'
      BY <1>1, <1>3 DEF HasWritten
    <2>2. LedgerRun[w] = None
      BY <1>1 DEF LedgerRun
    <2>3. LedgerRun' = [LedgerRun EXCEPT ![w] = Summary(block)]
      BY <1>1, <2>1, RunEntry DEF Step
    <2>4. LedgerMarker' = LedgerMarker
      BY <1>1 DEF LedgerMarker, Summary
    <2>5. block \in Blocks
      BY DEF TypeOK
    <2>6. Ledger!Write(w, Summary(block))
      BY <1>1, <1>3, <2>2, <2>3, <2>4, <2>5, SummaryFact DEF Ledger!Write
    <2> QED
      BY <2>5, <2>6, SummaryFact
  <1> QED
    BY <1>2, <1>3

\* upsert_processed_block records the block its run has written.
LEMMA LedgerRecord ==
  ASSUME TypeOK, NEW w \in Workers, RecordMarker(w)
  PROVE  Ledger!Record(w)
  <1>1. /\ pc[w] = "mark" /\ marker' = trace[w] /\ UNCHANGED hot
        /\ HasWritten(w) /\ ~HasWritten(w)'
    BY DEF RecordMarker, Goto, HasWritten, TypeOK
  <1>2. trace[w] \in Blocks
    BY DEF TypeOK
  <1>3. LedgerRun[w] = Summary(trace[w])
    BY <1>1 DEF LedgerRun
  <1>4. LedgerMarker' = Summary(trace[w])
    BY <1>1, <1>2, SummaryFact DEF LedgerMarker, Summary
  <1>5. LedgerRun' = [LedgerRun EXCEPT ![w] = None]
    BY <1>1, RunEntry DEF Step
  <1> QED
    BY <1>1, <1>2, <1>3, <1>4, <1>5, SummaryFact DEF Ledger!Record

\* Every step of the pipeline is a step of the ledger or invisible to it.
LEMMA LedgerStep ==
  PipelineInv /\ [Next]_vars => [Ledger!Next]_(Ledger!ledgerVars)
  <1> SUFFICES ASSUME PipelineInv, [Next]_vars
               PROVE  Ledger!Next \/ UNCHANGED Ledger!ledgerVars
    OBVIOUS
  <1>0. TypeOK /\ HotInv
    BY DEF PipelineInv
  <1>1. CASE Retrace \/ Replace \/ PoolInserted \/ UNCHANGED vars
    <2>1. UNCHANGED <<dbVars, runVars>>
      BY <1>1 DEF Retrace, Replace, PoolInserted, vars
    <2>2. LedgerRun' = LedgerRun
      BY <2>1 DEF LedgerRun, HasWritten, Summary, runVars
    <2>3. LedgerMarker' = LedgerMarker /\ hot' = hot
      BY <2>1 DEF LedgerMarker, Summary, dbVars
    <2> QED
      BY <2>2, <2>3 DEF Ledger!ledgerVars
  <1>2. ASSUME NEW w \in Workers, Step(w) \/ Rerun(w) \/ Abort(w)
        PROVE  Ledger!Next \/ UNCHANGED Ledger!ledgerVars
    <2>1. CASE Fetch(w)
      BY <1>0, <2>1, LedgerFetch DEF Ledger!Next
    <2>2. CASE CommitHotRows(w)
      BY <1>0, <2>2, LedgerCommit DEF Ledger!Next
    <2>3. CASE RecordMarker(w)
      BY <1>0, <2>3, LedgerRecord DEF Ledger!Next
    <2>4. CASE RollBack(w)
      BY <1>0, <1>2, <2>4, LedgerRollBack DEF Ledger!Next
    <2>5. CASE Begin(w) \/ Rerun(w) \/ DeleteHotRows(w)
      <3>1. UNCHANGED <<hot, marker>> /\ ~HasWritten(w) /\ ~HasWritten(w)'
        BY <1>0, <2>5 DEF Begin, Rerun, DeleteHotRows, Goto, HasWritten, TypeOK, dbVars
      <3> QED
        BY <1>0, <1>2, <3>1, Invisible
    <2>6. ASSUME NEW x \in Txids, UpsertTransaction(w, x)
          PROVE  UNCHANGED Ledger!ledgerVars
      <3>1. UNCHANGED <<hot, marker>> /\ ~HasWritten(w) /\ ~HasWritten(w)'
        BY <1>0, <2>6 DEF UpsertTransaction, HasWritten, runVars
      <3> QED
        BY <1>0, <1>2, <3>1, Invisible
    <2>9. ASSUME NEW x \in Txids, Trace(w, x)
          PROVE  UNCHANGED Ledger!ledgerVars
      <3>1. UNCHANGED <<hot, marker>> /\ ~HasWritten(w) /\ ~HasWritten(w)'
        BY <1>0, <2>9, TraceFact DEF HasWritten
      <3> QED
        BY <1>0, <1>2, <3>1, Invisible
    <2>7. CASE ReadPools(w) \/ DeleteRows(w) \/ CommitRows(w)
      <3>1. /\ UNCHANGED <<hot, marker>> /\ trace'[w] = trace[w]
            /\ HasWritten(w) /\ HasWritten(w)'
        BY <1>0, <2>7 DEF ReadPools, DeleteRows, CommitRows, AfterPhase, Goto, HasWritten,
           TypeOK, dbVars
      <3> QED
        BY <1>0, <1>2, <3>1, Invisible
    <2>8. Abort(w) \/ ConstraintFails(w) \/ DeadlockVictim(w) => RollBack(w)
      BY DEF Abort, ConstraintFails, DeadlockVictim
    <2> QED
      BY <1>2, <2>1, <2>2, <2>3, <2>4, <2>5, <2>6, <2>7, <2>8, <2>9 DEF Step
  <1> QED
    BY <1>1, <1>2 DEF Next

\* BlockPipeline implements IndexLedger for any set of workers: a run's upserts,
\* deletes and inserts on the hot tables amount to one atomic replacement, and
\* only a run that made it records the block.
THEOREM PipelineImplementsLedger == Spec => ImplementsLedger
  <1>1. Init => Ledger!Init
    BY DEF Init, Ledger!Init, LedgerMarker, LedgerRun, HasWritten
  <1> QED
    BY <1>1, InitInv, StepInv, LedgerStep, PTL DEF Spec, ImplementsLedger, Ledger!Spec

-----------------------------------------------------------------------------
(* One worker: the marker as a commit record *)

LEMMA VersionNat ==
  ASSUME TypeOK
  PROVE  /\ block.ver \in Nat
         /\ \A r \in hot : r.ver \in Nat
         /\ \A t \in Derived : \A r \in tables[t] : r.ver \in Nat
         /\ marker # None => marker.ver \in Nat
         /\ \A w \in Workers : trace[w].ver \in Nat /\ trace[w] \in Blocks
  <1>1. Versions \subseteq Nat
    BY PipelineAssumption DEF Versions
  <1>2. \A r \in Rows : r.ver \in Versions
    BY DEF Rows
  <1> QED
    BY <1>1, <1>2, BlockFields DEF TypeOK

\* The version of the rows a run writes.
LEMMA RowsByVersion ==
  ASSUME NEW w, NEW xs, NEW r \in RowsBy(w, xs)
  PROVE  r.tx \in xs /\ r.ver = trace[w].ver
  BY DEF RowsBy

LEMMA RowsByAll ==
  ASSUME NEW w, NEW xs, NEW x \in xs
  PROVE  \E r \in RowsBy(w, xs) : r.tx = x /\ r.ver = trace[w].ver
  <1> DEFINE row == [tx |-> x, ver |-> trace[w].ver, by |-> w]
  <1>1. row \in RowsBy(w, xs)
    BY DEF RowsBy
  <1>2. row.tx = x /\ row.ver = trace[w].ver
    OBVIOUS
  <1> QED
    BY <1>1, <1>2

\* A change of the block makes a new version, and touches nothing else.
LEMMA BlockChange ==
  ASSUME TypeOK, Retrace \/ Replace
  PROVE  block'.ver = block.ver + 1 /\ UNCHANGED <<dbVars, runVars>>
  <1>1. CASE Retrace
    <2>1. PICK found \in [Derived -> SUBSET block.txs] :
             block' = [block EXCEPT !.ver = @ + 1, !.found = found]
      BY <1>1 DEF Retrace
    <2>2. block'.ver = block.ver + 1
      BY <2>1 DEF TypeOK, Blocks
    <2> QED
      BY <1>1, <2>2 DEF Retrace
  <1>2. CASE Replace
    BY <1>2 DEF Replace
  <1> QED
    BY <1>1, <1>2

\* A run with all traces of the current version has the current block.
LEMMA RunOfBlock ==
  ASSUME TypeOK, TracesInv, VersionInv, NEW w \in Workers, HasBlock(w),
         trace[w].ver = block.ver
  PROVE  trace[w] = block
  <1>1. trace[w] \in Blocks /\ block \in Blocks
    BY DEF TypeOK
  <1>2. untraced[w] = {} /\ trace[w].txs = block.txs
    BY DEF TracesInv, VersionInv, HasBlock, Fetched
  <1>3. \A t \in Derived : trace[w].found[t] = block.found[t]
    <2>1. \A t \in Derived : trace[w].found[t] = block.found[t] \ untraced[w]
      BY DEF VersionInv, HasBlock, Fetched
    <2> QED
      BY <1>2, <2>1
  <1>4. trace[w].found = block.found
    BY <1>1, <1>3, BlockFields
  <1> QED
    BY <1>1, <1>2, <1>4 DEF Blocks

\* A run gets its block by fetching and tracing it, and keeps it.
LEMMA FetchedStep ==
  ASSUME TypeOK, NEW w \in Workers, Step(w) \/ Rerun(w) \/ Abort(w), Fetched(w)'
  PROVE  \/ Fetched(w) /\ trace'[w] = trace[w] /\ untraced'[w] = untraced[w]
         \/ Fetch(w)
         \/ \E x \in Txids : Trace(w, x)
  <1> USE DEF TypeOK, Goto, dbVars, runVars, boundVars, Fetched
  <1>2. ASSUME NEW x \in Txids, UpsertTransaction(w, x)
        PROVE  Fetched(w) /\ trace'[w] = trace[w] /\ untraced'[w] = untraced[w]
    BY <1>2 DEF UpsertTransaction
  <1>3. CASE DeleteHotRows(w) \/ CommitHotRows(w) \/ DeleteRows(w) \/ CommitRows(w) \/ RecordMarker(w)
    BY <1>3 DEF DeleteHotRows, CommitHotRows, DeleteRows, CommitRows, RecordMarker
  <1>4. CASE ReadPools(w)
    BY <1>4 DEF ReadPools
  <1>5. ~(Begin(w) \/ Rerun(w))
    BY DEF Begin, Rerun
  <1>6. ~(Abort(w) \/ ConstraintFails(w) \/ DeadlockVictim(w))
    BY DEF Abort, ConstraintFails, DeadlockVictim, RollBack
  <1> QED
    BY <1>2, <1>3, <1>4, <1>5, <1>6 DEF Step

\* Only upsert_processed_block writes the marker.
LEMMA MarkerWritten ==
  ASSUME NEW w \in Workers, Step(w) \/ Rerun(w) \/ Abort(w)
  PROVE  RecordMarker(w) \/ UNCHANGED marker
  BY DEF Step, Rerun, Abort, Begin, Fetch, Trace, UpsertTransaction, DeleteHotRows,
         CommitHotRows, ReadPools, DeleteRows, CommitRows, RollBack,
         ConstraintFails, DeadlockVictim, dbVars, runVars, boundVars

\* No version is ever ahead of the block, for any number of workers.
LEMMA VersionStep ==
  ASSUME PipelineInv, VersionInv, [Next]_vars
  PROVE  VersionInv'
  <1>0. TypeOK /\ TracesInv /\ DerivedInv
    BY DEF PipelineInv
  <1>1. CASE Retrace \/ Replace
    <2>1. /\ block'.ver = block.ver + 1
          /\ UNCHANGED <<hot, tables, marker, pc, trace, untraced>>
      BY <1>0, <1>1, BlockChange DEF dbVars, runVars
    <2>2. \A n \in Nat : n <= block.ver => n <= block'.ver /\ n # block'.ver
      BY <1>0, <2>1, VersionNat
    <2> QED
      BY <1>0, <2>1, <2>2, VersionNat DEF VersionInv, Fetched
  <1>2. CASE PoolInserted \/ UNCHANGED vars
    BY <1>2 DEF PoolInserted, vars, dbVars, runVars, VersionInv, Fetched
  <1>3. ASSUME NEW w \in Workers, Step(w) \/ Rerun(w) \/ Abort(w)
        PROVE  VersionInv'
    <2>0. UNCHANGED block /\ block.ver <= block.ver
      BY <1>0, <1>3, TablesWritten, VersionNat
    <2>1. ASSUME NEW r \in hot'
          PROVE  r.ver <= block.ver /\ (r.ver = block.ver => r.tx \in block.txs)
      <3>1. CASE r \in hot
        BY <3>1 DEF VersionInv
      <3>2. CASE r \notin hot
        <4>1. CommitHotRows(w)
          BY <1>3, <2>1, <3>2, TablesWritten
        <4>2. r \in RowsBy(w, trace[w].txs) /\ HasBlock(w)
          BY <2>1, <3>2, <4>1 DEF CommitHotRows, HasBlock
        <4>3. r.tx \in trace[w].txs /\ r.ver = trace[w].ver
          BY <4>2, RowsByVersion
        <4> QED
          BY <1>0, <4>2, <4>3, RunOfBlock DEF VersionInv, HasBlock, Fetched
      <3> QED
        BY <3>1, <3>2
    <2>2. ASSUME NEW t \in Derived, NEW r \in tables'[t]
          PROVE  r.ver <= block.ver /\ (r.ver = block.ver => r.tx \in block.found[t])
      <3>1. CASE r \in tables[t]
        BY <3>1 DEF VersionInv
      <3>2. CASE r \notin tables[t]
        <4>1. CommitRows(w)
          BY <1>3, <2>2, <3>2, TablesWritten
        <4>2. t = Table(w) /\ r \in RowsBy(w, rows[w]) /\ HasBlock(w)
          BY <1>0, <2>2, <3>2, <4>1, CommittedRows DEF CommitRows, HasBlock, TypeOK
        <4>3. r.tx \in trace[w].found[t] /\ r.ver = trace[w].ver
          BY <1>0, <4>1, <4>2, RowsByVersion, CommittedRows
        <4> QED
          BY <1>0, <4>2, <4>3, RunOfBlock DEF VersionInv, HasBlock, Fetched
      <3> QED
        BY <3>1, <3>2
    <2>3. ASSUME marker' # None
          PROVE  marker'.ver <= block.ver /\ (marker'.ver = block.ver => marker' = block)
      <3>1. CASE RecordMarker(w)
        <4>1. marker' = trace[w] /\ HasBlock(w) /\ Fetched(w)
          BY <3>1 DEF RecordMarker, HasBlock, Fetched
        <4> QED
          BY <1>0, <4>1, RunOfBlock DEF VersionInv
      <3>2. CASE UNCHANGED marker
        BY <2>3, <3>2 DEF VersionInv
      <3> QED
        BY <1>3, <3>1, <3>2, MarkerWritten
    <2> DEFINE Knows(u) ==
                 /\ trace[u].ver <= block.ver
                 /\ trace[u].ver = block.ver =>
                       /\ trace[u].txs = block.txs
                       /\ \A t \in Derived : trace[u].found[t] = block.found[t] \ untraced[u]
    <2>5. \A u \in Workers : Fetched(u) => Knows(u)
      BY DEF VersionInv
    <2>4. ASSUME NEW u \in Workers, Fetched(u)' PROVE Knows(u)'
      <3>1. CASE u # w
        <4>1. /\ Fetched(u) /\ trace'[u] = trace[u] /\ untraced'[u] = untraced[u]
          BY <1>0, <1>3, <2>4, <3>1, OthersLocal DEF Fetched
        <4> QED
          BY <2>0, <2>5, <4>1
      <3>2. CASE u = w /\ Fetched(w) /\ trace'[w] = trace[w] /\ untraced'[w] = untraced[w]
        BY <2>0, <2>5, <3>2
      <3>3. CASE u = w /\ Fetch(w)
        <4>1. \A t \in Derived : block.found[t] \ block.txs = {}
          BY <1>0 DEF TracesInv
        <4> QED
          BY <1>0, <2>0, <3>3, <4>1, FetchFact
      <3>4. ASSUME u = w, NEW x \in Txids, Trace(w, x) PROVE Knows(w)'
        <4>1. /\ x \in untraced[w] /\ Knows(w)
              /\ trace'[w].ver = trace[w].ver /\ trace'[w].txs = trace[w].txs
              /\ \A t \in Derived :
                    trace'[w].found[t] = trace[w].found[t] \cup (block.found[t] \cap {x})
              /\ untraced'[w] = untraced[w] \ {x}
          BY <1>0, <2>5, <3>4, TraceFact DEF Fetched
        <4> QED
          BY <2>0, <4>1
      <3> QED
        BY <1>0, <1>3, <2>4, <3>1, <3>2, <3>3, <3>4, FetchedStep
    <2> QED
      BY <2>0, <2>1, <2>2, <2>3, <2>4 DEF VersionInv
  <1> QED
    BY <1>1, <1>2, <1>3 DEF Next

\* A run that fetched after the marker was written is not behind it.
LEMMA OrderStep ==
  ASSUME OneWorker, PipelineInv, VersionInv, OrderInv, [Next]_vars
  PROVE  OrderInv'
  <1>0. TypeOK
    BY DEF PipelineInv
  <1>1. CASE Retrace \/ Replace \/ PoolInserted \/ UNCHANGED vars
    <2>1. UNCHANGED <<marker, pc, trace>>
      BY <1>1 DEF Retrace, Replace, PoolInserted, vars, dbVars, runVars
    <2> QED
      BY <2>1 DEF OrderInv, Fetched
  <1>2. ASSUME NEW w \in Workers, Step(w) \/ Rerun(w) \/ Abort(w)
        PROVE  OrderInv'
    <2>1. ASSUME Fetched(w)', marker' # None PROVE marker'.ver <= trace'[w].ver
      <3>1. CASE RecordMarker(w)
        BY <1>0, <3>1, VersionNat DEF RecordMarker
      <3>2. CASE Fetch(w)
        BY <1>0, <2>1, <3>2, FetchFact DEF VersionInv
      <3>3. CASE Fetched(w) /\ trace'[w] = trace[w] /\ marker' = marker
        BY <2>1, <3>3 DEF OrderInv
      <3>4. ASSUME NEW x \in Txids, Trace(w, x)
            PROVE  Fetched(w) /\ trace'[w].ver = trace[w].ver /\ marker' = marker
        BY <1>0, <3>4, TraceFact DEF Fetched
      <3> QED
        BY <1>0, <1>2, <2>1, <3>1, <3>2, <3>3, <3>4, FetchedStep, MarkerWritten DEF OrderInv
    <2> QED
      BY <2>1 DEF OneWorker, OrderInv
  <1> QED
    BY <1>1, <1>2 DEF Next

\* Nobody else writes the table between the delete and the insert.
LEMMA OpenStep ==
  ASSUME OneWorker, PipelineInv, OpenInv, [Next]_vars
  PROVE  OpenInv'
  <1>0. TypeOK
    BY DEF PipelineInv
  <1>1. CASE Retrace \/ Replace \/ PoolInserted \/ UNCHANGED vars
    <2>1. UNCHANGED <<tables, pc, phase, trace, rows, doomed>>
      BY <1>1 DEF Retrace, Replace, PoolInserted, vars, dbVars, runVars
    <2> QED
      BY <2>1 DEF OpenInv, OfBlock, Table
  <1>2. ASSUME NEW w \in Workers, Step(w) \/ Rerun(w) \/ Abort(w)
        PROVE  OpenInv'
    <2>1. ASSUME pc'[w] \in {"delete", "commit"}
          PROVE  /\ pc'[w] = "commit" => doomed'[w] = OfBlock(w, tables[Table(w)])'
                 /\ Table(w)' \notin NeedsPool => rows'[w] = trace'[w].found[Table(w)']
      <3>1. trace'[w] = trace[w] /\ phase'[w] = phase[w] /\ (ReadPools(w) \/ DeleteRows(w))
        BY <1>0, <1>2, <2>1, EnterPhase
      <3>2. Table(w)' = Table(w)
        BY <3>1 DEF Table
      <3>3. CASE ReadPools(w)
        <4>1. pc'[w] = "delete" /\ rows'[w] = FoundRows(w)
          BY <1>0, <2>1, <3>3 DEF ReadPools, AfterPhase, Goto, TypeOK
        <4> QED
          BY <3>1, <3>2, <4>1 DEF FoundRows
      <3>4. CASE DeleteRows(w)
        <4>1. /\ pc[w] = "delete" /\ rows' = rows /\ tables' = tables
              /\ doomed'[w] = OfBlock(w, tables[Table(w)])
          BY <1>0, <3>4 DEF DeleteRows, dbVars, TypeOK
        <4>2. OfBlock(w, tables[Table(w)])' = OfBlock(w, tables[Table(w)])
          BY <3>1, <3>2, <4>1 DEF OfBlock
        <4> QED
          BY <3>1, <3>2, <4>1, <4>2 DEF OpenInv
      <3> QED
        BY <3>1, <3>3, <3>4
    <2> QED
      BY <2>1 DEF OneWorker, OpenInv
  <1> QED
    BY <1>1, <1>2 DEF Next

\* The commit of one worker replaces what the table had of the block.
LEMMA SoloCommit ==
  ASSUME PipelineInv, OpenInv, NEW w \in Workers, CommitRows(w)
  PROVE  /\ tables'[Table(w)] =
               {r \in tables[Table(w)] : r.tx \notin trace[w].txs} \cup RowsBy(w, rows[w])
         /\ \A t \in Derived : t # Table(w) => tables'[t] = tables[t]
         /\ Table(w) \in Derived
         /\ rows[w] \subseteq trace[w].txs
         /\ rows[w] \in SUBSET Txids
         /\ Table(w) \notin NeedsPool => rows[w] = trace[w].found[Table(w)]
         /\ UNCHANGED <<block, hot, marker, trace>>
  <1>0. TypeOK /\ TracesInv /\ DerivedInv
    BY DEF PipelineInv
  <1>1. doomed[w] = OfBlock(w, tables[Table(w)]) /\ pc[w] = "commit"
    BY DEF OpenInv, CommitRows
  <1>2. Remaining(w) = {r \in tables[Table(w)] : r.tx \notin trace[w].txs}
    BY <1>1 DEF Remaining, OfBlock
  <1>3. /\ tables'[Table(w)] = Remaining(w) \cup RowsBy(w, rows[w])
        /\ \A t \in Derived : t # Table(w) => tables'[t] = tables[t]
    BY <1>0, CommittedRows DEF TypeOK
  <1>4. /\ Table(w) \in Derived /\ rows[w] \subseteq trace[w].txs /\ rows[w] \in SUBSET Txids
    BY <1>0, CommittedRows
  <1>5. Table(w) \notin NeedsPool => rows[w] = trace[w].found[Table(w)]
    BY <1>1 DEF OpenInv
  <1> QED
    BY <1>2, <1>3, <1>4, <1>5 DEF CommitRows

LEMMA OneRunStep ==
  ASSUME PipelineInv, OpenInv, DerivedRowsFromOneRun, [Next]_vars
  PROVE  DerivedRowsFromOneRun'
  <1>0. TypeOK
    BY DEF PipelineInv
  <1>1. CASE UNCHANGED tables
    BY <1>1 DEF DerivedRowsFromOneRun
  <1>2. ASSUME NEW w \in Workers, CommitRows(w) PROVE DerivedRowsFromOneRun'
    <2> SUFFICES ASSUME NEW t \in Derived, NEW r1 \in tables'[t], NEW r2 \in tables'[t],
                        r1.tx = r2.tx
                 PROVE  r1 = r2
      BY DEF DerivedRowsFromOneRun
    <2>1. CASE t # Table(w)
      BY <1>2, <2>1, SoloCommit DEF DerivedRowsFromOneRun
    <2>2. CASE t = Table(w)
      <3>1. rows[w] \in SUBSET Txids /\ rows[w] \subseteq trace[w].txs
        BY <1>2, SoloCommit
      <3>2. \A r \in RowsBy(w, rows[w]) : r.tx \in trace[w].txs
        BY <3>1, RowsByVersion
      <3>3. CASE r1 \in RowsBy(w, rows[w])
        <4>1. r2 \in RowsBy(w, rows[w])
          BY <1>2, <2>2, <3>2, <3>3, SoloCommit
        <4> QED
          BY <1>0, <3>1, <3>3, <4>1, RowsByFact
      <3>4. CASE r1 \notin RowsBy(w, rows[w])
        <4>1. r1 \in tables[t] /\ r2 \in tables[t]
          BY <1>2, <2>2, <3>2, <3>4, SoloCommit
        <4> QED
          BY <4>1 DEF DerivedRowsFromOneRun
      <3> QED
        BY <3>3, <3>4
    <2> QED
      BY <2>1, <2>2
  <1>3. Retrace \/ Replace \/ PoolInserted \/ UNCHANGED vars => UNCHANGED tables
    BY DEF Retrace, Replace, PoolInserted, vars, dbVars
  <1> QED
    BY <1>1, <1>2, <1>3, TablesWritten DEF Next

\* The commit of a derived table by a run of the current block settles it.
LEMMA CommitSettles ==
  ASSUME PipelineInv, OpenInv, NEW w \in Workers, CommitRows(w), trace[w] = block,
         NEW t \in Derived, t = Table(w) \/ Settled(t)
  PROVE  Settled(t)'
  <1>1. CASE t # Table(w)
    <2>1. tables'[t] = tables[t] /\ UNCHANGED block
      BY <1>1, SoloCommit
    <2> QED
      BY <1>1, <2>1 DEF Settled
  <1>2. CASE t = Table(w)
    <2>1. ASSUME NEW r \in tables'[t], r.tx \in block.txs PROVE r.ver = block.ver
      <3>1. r \in RowsBy(w, rows[w])
        BY <1>2, <2>1, SoloCommit
      <3> QED
        BY <3>1, RowsByVersion
    <2>2. ASSUME t \in UniquePerPool, NEW x \in block.found[t]
          PROVE  \E r \in tables'[t] : r.tx = x /\ r.ver = block.ver
      <3>1. t \notin NeedsPool
        BY <2>2 DEF UniquePerPool, NeedsPool
      <3>2. x \in rows[w]
        BY <1>2, <2>2, <3>1, SoloCommit
      <3>3. PICK r \in RowsBy(w, rows[w]) : r.tx = x /\ r.ver = trace[w].ver
        BY <3>2, RowsByAll
      <3>4. r \in tables'[t]
        BY <1>2, <3>3, SoloCommit
      <3> QED
        BY <3>3, <3>4
    <2>3. UNCHANGED block
      BY SoloCommit
    <2> QED
      BY <2>1, <2>2, <2>3 DEF Settled
  <1> QED
    BY <1>1, <1>2

\* So does the commit of the hot tables for these.
LEMMA HotCommitSettles ==
  ASSUME PipelineInv, NEW w \in Workers, CommitHotRows(w), trace[w] = block
  PROVE  HotSettled'
  <1>1. UNCHANGED block
    BY DEF CommitHotRows
  <1>2. ASSUME NEW x \in block.txs PROVE \E r \in hot' : r.tx = x /\ r.ver = block.ver
    <2>1. PICK r \in RowsBy(w, trace[w].txs) : r.tx = x /\ r.ver = trace[w].ver
      BY RowsByAll
    <2>2. r \in hot'
      BY <2>1 DEF CommitHotRows
    <2> QED
      BY <2>1, <2>2
  <1> QED
    BY <1>1, <1>2 DEF HotSettled

\* A step that changes neither the block nor the tables leaves settled what was.
LEMMA SettledKept ==
  ASSUME UNCHANGED <<block, hot, tables>>
  PROVE  HotSettled' = HotSettled /\ \A t : Settled(t)' = Settled(t)
  BY DEF HotSettled, Settled

\* A phase that writes nothing had nothing to settle.
LEMMA SkipSettles ==
  ASSUME NEW w \in Workers, ~Writes(w), trace[w] = block
  PROVE  Settled(Table(w))
  <1>1. Table(w) \notin AlwaysReplaced /\ FoundRows(w) = {}
    BY DEF Writes
  <1>2. Table(w) \in UniquePerPool => Table(w) \notin NeedsPool
    BY DEF UniquePerPool, NeedsPool
  <1>3. Table(w) \in UniquePerPool => block.found[Table(w)] = {}
    BY <1>1, <1>2 DEF FoundRows
  <1> QED
    BY <1>1, <1>3 DEF Settled

\* Phase by phase a run of the current block settles the tables.
LEMMA RunStep ==
  ASSUME OneWorker, PipelineInv, VersionInv, OpenInv, RunInv, [Next]_vars
  PROVE  RunInv'
  <1>0. TypeOK /\ TracesInv /\ ControlInv /\ Len(Phases) \in Nat
    BY PipelineAssumption DEF PipelineInv
  <1>1. CASE Retrace \/ Replace
    <2>1. block'.ver = block.ver + 1 /\ UNCHANGED <<pc, trace>>
      BY <1>0, <1>1, BlockChange DEF runVars
    <2>2. \A w \in Workers : HasWritten(w)' => trace'[w].ver # block'.ver
      <3>1. \A w \in Workers : HasWritten(w)' => trace[w].ver <= block.ver
        BY <2>1 DEF VersionInv, Fetched, HasWritten
      <3> QED
        BY <1>0, <2>1, <3>1, VersionNat
    <2> QED
      BY <2>2 DEF RunInv
  <1>2. CASE PoolInserted \/ UNCHANGED vars
    <2>1. UNCHANGED <<block, hot, tables, pc, phase, trace>>
      BY <1>2 DEF PoolInserted, vars, dbVars, runVars
    <2> QED
      BY <2>1, SettledKept DEF RunInv, HasWritten
  <1>3. ASSUME NEW w \in Workers, Step(w) \/ Rerun(w) \/ Abort(w)
        PROVE  RunInv'
    <2> DEFINE Past(n) == \A i \in 1..Len(Phases) : i < n => Settled(Phases[i])
    <2> SUFFICES ASSUME HasWritten(w)', trace'[w].ver = block'.ver
                 PROVE  /\ HotSettled'
                        /\ Past(phase[w])'
                        /\ pc'[w] = "mark" => phase'[w] = Len(Phases) + 1 \/ block'.txs = {}
      BY DEF OneWorker, RunInv
    <2>1. UNCHANGED block
      BY <1>3, TablesWritten
    <2>2. HasBlock(w) /\ trace'[w] = trace[w] => trace[w] = block
      BY <1>0, <2>1, RunOfBlock
    <2>3. CASE Fetch(w)
      <3>1. pc[w] = "fetch" /\ phase'[w] = phase[w]
            /\ pc'[w] = IF block.txs = {} THEN "mark" ELSE "trace"
        BY <1>0, <2>3, FetchFact DEF Fetch
      <3>2. phase'[w] = 1 /\ block.txs = {}
        BY <1>0, <3>1 DEF ControlInv, HasWritten
      <3> QED
        BY <1>0, <2>1, <3>2 DEF HotSettled
    <2>4. CASE CommitHotRows(w)
      <3>1. /\ pc[w] = "hot_commit" /\ trace'[w] = trace[w] /\ phase'[w] = phase[w]
            /\ pc'[w] = IF Phases = <<>> THEN "mark" ELSE "read"
        BY <1>0, <2>4 DEF CommitHotRows, Goto, TypeOK
      <3>2. phase'[w] = 1 /\ trace[w] = block
        BY <1>0, <2>2, <3>1 DEF ControlInv, HasBlock
      <3>3. pc'[w] = "mark" => phase'[w] = Len(Phases) + 1
        BY <3>1, <3>2
      <3> QED
        BY <1>0, <2>4, <3>2, <3>3, HotCommitSettles
    <2>5. CASE ReadPools(w)
      <3>1. /\ pc[w] = "read" /\ trace'[w] = trace[w] /\ UNCHANGED <<hot, tables>>
            /\ \/ Writes(w) /\ phase'[w] = phase[w] /\ pc'[w] = "delete"
               \/ ~Writes(w) /\ phase'[w] = phase[w] + 1 /\ pc'[w] = AfterPhase(w)
        BY <1>0, <2>5 DEF ReadPools, Goto, dbVars, TypeOK
      <3>2. trace[w] = block /\ HasWritten(w)
        BY <2>2, <3>1 DEF HasBlock, HasWritten
      <3>3. HotSettled /\ Past(phase[w]) /\ phase[w] \in 1..Len(Phases)
        BY <1>0, <2>1, <3>1, <3>2, TableFact DEF RunInv
      <3>4. ~Writes(w) => Past(phase[w] + 1)
        BY <3>2, <3>3, SkipSettles DEF Table
      <3>5. pc'[w] = "mark" => phase'[w] = Len(Phases) + 1
        BY <3>1, <3>3 DEF AfterPhase
      <3> QED
        BY <2>1, <3>1, <3>3, <3>4, <3>5, SettledKept
    <2>6. CASE DeleteRows(w)
      <3>1. /\ pc[w] = "delete" /\ trace'[w] = trace[w] /\ UNCHANGED <<hot, tables, phase>>
            /\ pc'[w] = "commit"
        BY <1>0, <2>6 DEF DeleteRows, Goto, dbVars, TypeOK
      <3>2. trace[w] = block /\ HasWritten(w)
        BY <2>2, <3>1 DEF HasBlock, HasWritten
      <3>3. HotSettled /\ Past(phase[w])
        BY <3>2 DEF RunInv
      <3> QED
        BY <2>1, <3>1, <3>3, SettledKept
    <2>7. CASE CommitRows(w)
      <3>1. /\ pc[w] = "commit" /\ trace'[w] = trace[w] /\ UNCHANGED hot
            /\ phase'[w] = phase[w] + 1 /\ pc'[w] = AfterPhase(w)
        BY <1>0, <2>7 DEF CommitRows, Goto, TypeOK
      <3>2. trace[w] = block /\ HasWritten(w)
        BY <2>2, <3>1 DEF HasBlock, HasWritten
      <3>3. HotSettled /\ Past(phase[w]) /\ phase[w] \in 1..Len(Phases)
        BY <1>0, <2>1, <3>1, <3>2, TableFact DEF RunInv
      <3>4. ASSUME NEW i \in 1..Len(Phases), i < phase[w] + 1 PROVE Settled(Phases[i])'
        <4>1. Phases[i] = Table(w) \/ Settled(Phases[i])
          BY <3>3, <3>4 DEF Table
        <4>2. Phases[i] \in Derived
          BY DEF Derived
        <4> QED
          BY <2>7, <3>2, <4>1, <4>2, CommitSettles
      <3>5. pc'[w] = "mark" => phase'[w] = Len(Phases) + 1
        BY <3>1, <3>3 DEF AfterPhase
      <3>6. HotSettled'
        BY <2>1, <3>1, <3>3 DEF HotSettled
      <3> QED
        BY <3>1, <3>4, <3>5, <3>6
    <2>8. ASSUME NEW x \in Txids, UpsertTransaction(w, x) \/ Trace(w, x) PROVE FALSE
      BY <1>0, <2>8, TraceFact DEF UpsertTransaction, HasWritten, runVars
    <2>9. ~(Begin(w) \/ Rerun(w) \/ DeleteHotRows(w) \/ RecordMarker(w))
      BY <1>0 DEF Begin, Rerun, DeleteHotRows, RecordMarker, HasWritten, Goto, TypeOK
    <2>10. ~(Abort(w) \/ ConstraintFails(w) \/ DeadlockVictim(w))
      BY <1>0 DEF Abort, ConstraintFails, DeadlockVictim, RollBack, HasWritten, Goto, TypeOK
    <2> QED
      BY <1>3, <2>3, <2>4, <2>5, <2>6, <2>7, <2>8, <2>9, <2>10 DEF Step
  <1> QED
    BY <1>1, <1>2, <1>3 DEF Next

\* The marker is written by a run that has settled everything, and a later run
\* of the same block leaves it settled at every commit.
LEMMA MarkStep ==
  ASSUME OneWorker, PipelineInv, VersionInv, OrderInv, OpenInv, RunInv, MarkInv, [Next]_vars
  PROVE  MarkInv'
  <1>0. TypeOK /\ TracesInv /\ Len(Phases) \in Nat
    BY PipelineAssumption DEF PipelineInv
  <1> SUFFICES ASSUME marker' # None, marker'.ver = block'.ver
               PROVE  HotSettled' /\ \A t \in Derived : Settled(t)'
    BY DEF MarkInv
  <1>1. CASE Retrace \/ Replace
    <2>1. block'.ver = block.ver + 1 /\ UNCHANGED marker
      BY <1>0, <1>1, BlockChange DEF dbVars
    <2>2. marker.ver <= block.ver
      BY <2>1 DEF VersionInv
    <2> QED
      BY <1>0, <2>1, <2>2, VersionNat
  <1>2. CASE PoolInserted \/ UNCHANGED vars
    <2>1. UNCHANGED <<block, hot, tables, marker>>
      BY <1>2 DEF PoolInserted, vars, dbVars
    <2> QED
      BY <2>1, SettledKept DEF MarkInv
  <1>3. ASSUME NEW w \in Workers, Step(w) \/ Rerun(w) \/ Abort(w)
        PROVE  HotSettled' /\ \A t \in Derived : Settled(t)'
    <2>1. UNCHANGED block
      BY <1>3, TablesWritten
    <2>2. CASE RecordMarker(w)
      <3>1. pc[w] = "mark" /\ marker' = trace[w] /\ UNCHANGED <<hot, tables>>
        BY <2>2 DEF RecordMarker
      <3>2. HasWritten(w) /\ trace[w].ver = block.ver
        BY <2>1, <3>1 DEF HasWritten
      <3>3. /\ HotSettled
            /\ \A i \in 1..Len(Phases) : i < phase[w] => Settled(Phases[i])
            /\ phase[w] = Len(Phases) + 1 \/ block.txs = {}
        BY <3>1, <3>2 DEF RunInv
      <3>4. CASE phase[w] = Len(Phases) + 1
        <4>1. \A i \in 1..Len(Phases) : Settled(Phases[i])
          BY <1>0, <3>3, <3>4
        <4>2. \A t \in Derived : Settled(t)
          BY <4>1 DEF Derived
        <4> QED
          BY <2>1, <3>1, <3>3, <4>2, SettledKept
      <3>5. CASE block.txs = {}
        <4>1. \A t \in Derived : Settled(t)
          BY <1>0, <3>5 DEF Settled, TracesInv
        <4> QED
          BY <2>1, <3>1, <3>3, <4>1, SettledKept
      <3> QED
        BY <3>3, <3>4, <3>5
    <2>3. CASE UNCHANGED marker
      <3>1. HotSettled /\ \A t \in Derived : Settled(t)
        BY <2>1, <2>3 DEF MarkInv
      <3>2. HasBlock(w) => trace[w] = block
        <4>1. HasBlock(w) => marker.ver <= trace[w].ver /\ trace[w].ver <= block.ver
          BY <2>3 DEF OrderInv, VersionInv, HasBlock, Fetched
        <4>2. HasBlock(w) => trace[w].ver = block.ver
          BY <1>0, <2>1, <2>3, <4>1, VersionNat
        <4> QED
          BY <1>0, <4>2, RunOfBlock
      <3>3. HotSettled'
        <4>1. CASE CommitHotRows(w)
          BY <3>2, <4>1, HotCommitSettles DEF CommitHotRows, HasBlock
        <4>2. CASE UNCHANGED hot
          BY <2>1, <3>1, <4>2 DEF HotSettled
        <4> QED
          BY <1>3, <4>1, <4>2, TablesWritten
      <3>4. \A t \in Derived : Settled(t)'
        <4>1. CASE CommitRows(w)
          <5>1. trace[w] = block
            BY <3>2, <4>1 DEF CommitRows, HasBlock
          <5> QED
            BY <3>1, <4>1, <5>1, CommitSettles
        <4>2. CASE UNCHANGED tables
          BY <2>1, <3>1, <4>2 DEF Settled
        <4> QED
          BY <1>3, <4>1, <4>2, TablesWritten
      <3> QED
        BY <3>3, <3>4
    <2> QED
      BY <1>3, <2>2, <2>3, MarkerWritten
  <1> QED
    BY <1>1, <1>2, <1>3 DEF Next

LEMMA InitSolo == Init => SoloInv
  <1> SUFFICES ASSUME Init PROVE SoloInv
    OBVIOUS
  <1>1. \A w \in Workers : pc[w] = "idle"
    BY DEF Init
  <1> QED
    BY <1>1 DEF Init, SoloInv, VersionInv, OrderInv, OpenInv, RunInv, MarkInv, Fetched,
       HasWritten, DerivedRowsFromOneRun

LEMMA SoloStep ==
  ASSUME OneWorker
  PROVE  PipelineInv /\ SoloInv /\ [Next]_vars => SoloInv'
  BY VersionStep, OrderStep, OpenStep, OneRunStep, RunStep, MarkStep DEF SoloInv

\* With one worker, whatever aborts, reruns, retraces and replacements happen,
\* the rows of a transaction in a derived table come from a single run of the
\* replace_* function that writes it.
THEOREM DerivedFromOneRun ==
  ASSUME \A u, v \in Workers : u = v
  PROVE  Spec => []DerivedRowsFromOneRun
  <1>1. OneWorker
    BY DEF OneWorker
  <1>2. PipelineInv /\ SoloInv /\ [Next]_vars => SoloInv'
    BY <1>1, SoloStep
  <1>3. SoloInv => DerivedRowsFromOneRun
    BY DEF SoloInv
  <1> QED
    BY <1>2, <1>3, InitInv, StepInv, InitSolo, PTL DEF Spec

\* With one worker the ProcessedBlocks row of upsert_processed_block is a commit
\* record: when it names the current block, the hot tables, the swaps and the
\* creation are that block's, also while a rerun is under way or has failed.
THEOREM MarkerIsCommitRecord ==
  ASSUME \A u, v \in Workers : u = v
  PROVE  Spec => []MarkerMeansIndexed
  <1>1. OneWorker
    BY DEF OneWorker
  <1>2. PipelineInv /\ SoloInv /\ [Next]_vars => SoloInv'
    BY <1>1, SoloStep
  <1>3. SoloInv => MarkerMeansIndexed
    <2> SUFFICES ASSUME SoloInv, marker # None, marker.ver = block.ver
                 PROVE  MarkerMeansIndexed
      BY DEF MarkerMeansIndexed
    <2>1. HotSettled /\ \A t \in Derived : Settled(t)
      BY DEF SoloInv, MarkInv
    <2>2. block.txs = {r.tx : r \in {r \in hot : r.ver = block.ver}}
      BY <2>1 DEF HotSettled, SoloInv, VersionInv
    <2>3. \A t \in Derived \cap AlwaysReplaced : \A r \in tables[t] :
             r.tx \in block.txs => r.ver = block.ver
      BY <2>1 DEF Settled
    <2>4. \A t \in Derived \cap UniquePerPool :
             block.found[t] = {r.tx : r \in {r \in tables[t] : r.ver = block.ver}}
      BY <2>1 DEF Settled, SoloInv, VersionInv
    <2> QED
      BY <2>2, <2>3, <2>4 DEF MarkerMeansIndexed
  <1> QED
    BY <1>2, <1>3, InitInv, StepInv, InitSolo, PTL DEF Spec
=============================================================================
