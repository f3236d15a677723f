# Verification of the Alkanes contract indexer

TLA+ modules for the indexer service under `src/src` and for the copy of deezel under
`src/reference/deezel`, TLC configurations that check them on small instances, and TLAPS
proofs of the invariants that matter most. The reference is the Rust code; line numbers
for every definition are in `PROJECT.json` (`map`).

## The system

The service follows the Bitcoin chain as Metashrew indexes it, decodes and traces the
Alkanes transactions of each block, and writes them to Postgres.

| Component | State | Operations |
|---|---|---|
| Block poller (`poller.rs`) | `last_height`, `backoff_ms`, the one-shot `init_signal` | one tick: read the tip; refresh pools; process the new blocks in order; follow a decrease |
| Catch-up coordinator (`coordinator.rs`) | none of its own | one pass: read tip and progress, process the missing heights, save progress after each |
| Start-up (`main.rs`) | the two futures | connect, start the poller, start the coordinator once the poller's first tick is over |
| Progress store (`progress.rs`) | `kv_store['last_processed_height']` | get, set (and `dbctl reset-progress`) |
| Block pipeline (`pipeline.rs`) | locals of a run | hash, txids, transactions, decode and trace; hot tables in one transaction; each derived table in its own; marker; announcement |
| Block tables (`db/transactions.rs`, `db/blocks.rs`) | AlkaneTransaction, DecodedProtostone, TraceEvent, PoolSwap, PoolCreation, PoolMint, PoolBurn, SubfrostWrap, SubfrostUnwrap, ProcessedBlocks | upsert, delete by txid then insert |
| Fetch, decode and trace (`helpers/block.rs`, `helpers/protostone.rs`) | `results`, `fatal_err`, shared by up to ten batches | windowed fetch, filters, hex fallback, trace calls |
| RPC wrappers (`helpers/rpc.rs`) | `CB_OPEN`, `CB_LAST_OPEN_MS`, `GLOBAL_PERMITS` | breaker check, permit, attempts with backoff, trip |
| Derived indexers (`helpers/pool*.rs`, `subfrost.rs`) | none | match invoke and return events of a trace to rows |
| Pool refresh (`helpers/pools.rs`, `db/pools.rs`, `db/pool_state.rs`) | Pool, PoolState | fetch details, insert new pools, snapshot changed states |
| Notifications (`helpers/notify.rs`) | Redis | best-effort publish |
| Tools (`bin/`) | | `reprocess` one height, `dbctl` progress reset and purge, `swaps`, `inspect` |
| deezel (`reference/deezel/crates`) | coins, a keystore file, a running request | `alkanes execute`, `wallet ...` and some hundred other commands; the provider and its reply handling; runestone decoding |

The poller and the coordinator call the same pipeline on the same tables, at the same
time when a start height is set; `reprocess` and `dbctl` do so from other processes.
Every upstream call of the pipeline goes through the RPC wrappers, except the fetches of
a transaction's hex and of a block hash. The calls themselves are those of deezel's
`ConcreteProvider`, and the pools are read through its `AmmManager`. The copy of deezel is
"for exploration only" (`README.md:39`; `Cargo.toml:29` builds against the published
crate), but it is the only source of that code in the repository, and with some 35,000 lines by
far the largest part of it.

**What is hard.** Two or three writers on one block's rows under READ COMMITTED; a run
that fails, or a process that stops, between any two of a block's eight commits; chain
reorganisations seen late, in part or not at all; a progress key that an operator resets
under a running pass; batches and calls that finish in any order; a circuit breaker made
of two atomics; permits held during sleeps; trace events that no longer say which return
answers which call; a node that is asked about "now" while a height is being recorded; a
commit transaction that is on the chain before its reveal is known to be possible.
`PROJECT.json` lists each hazard at its line with the properties that would catch it.

**What makes each part correct.**

- Poller: no height it has passed is without a marker; a reorganisation it saw is healed;
  it settles on the tip.
- Coordinator and progress: the stored progress never runs ahead of the processed blocks,
  and catch-up covers every height in the end.
- Start-up: no catch-up before the first pools refresh, and catch-up does start.
- Pipeline and tables: rows of a transaction come from one run; no derived row without its
  transaction; the marker is a commit record; concurrent runs all complete.
- Decode and trace: complete or an error, never silently partial; the stage ends.
- Derived indexers: a row holds the amounts its call really took and gave.
- Pool refresh: pools and snapshots appear together, a snapshot is a change, is never
  older than its height, and the stored state settles on the pool's own.
- RPC: permits are conserved, calls return, the service recovers after an outage.
- deezel: arguments mean what they say; a transaction never pays more than it has, and the
  fee is the one shown; a commit pays for its reveal; keys are not lost; coins selected can
  be signed for; what is reported as sent was accepted; requests and commands end.

## Modules

| Module | Models | Used by |
|---|---|---|
| `Indexer` | poller, coordinator, start-up, progress, announcements, `reset-progress`, with the chain and restarts as environment | `MCIndexer`, `IndexerProofs` |
| `BlockPipeline` | runs of `process_block_sequential` on one height by several workers, down to single SQL statements | `MCBlockPipeline`, `BlockPipelineProofs` |
| `IndexLedger` | abstract specification of the hot tables and the marker | `BlockPipeline` |
| `ProviderCall` | `ConcreteProvider::call`: how an HTTP reply becomes a value or an error | `DecodeTrace`, `DeezelProvider` |
| `DecodeTrace` | the fetch, decode and trace stage of a run | `MCDecodeTrace`, `DecodeTraceProofs` |
| `ResilientRpc` | the wrappers of `rpc.rs` | `MCResilientRpc`, `ResilientRpcProofs` |
| `PoolSimulation` | the words of a simulation and how `AmmManager` decodes them | `PoolRefresh` |
| `PoolRefresh` | `fetch_pools_for_tip`, Pool, PoolState, the Redis key, `purge-block` | `MCPoolRefresh`, `PoolRefreshProofs` |
| `TraceMatch` | the six derived indexers and `inspect` on the trace of one transaction | `MCTraceMatch`, `TraceMatchProofs` |
| `ExecuteArgs` | the text arguments of `alkanes execute` | `AlkanesExecute` |
| `AlkanesExecute` | execution, commit and reveal, `wallet send`, AMM operations | `MCAlkanesExecute`, `AlkanesExecuteProofs` |
| `Armor` | the ASCII armor of a keystore | `DeezelWallet` |
| `DeezelWallet` | keystore, encryption, networks, derivation, address search | `DeezelCli` |
| `DeezelProvider`, `DeezelCommands` | the provider's methods by what they accept; the commands of both programs and how one is converted to the other | `DeezelCli` |
| `Runestone` | varints, tags, edicts and protostones of a runestone | `DeezelCli` |
| `DeezelCli` | processes that run commands against one keystore file | `MCDeezelCli`, `DeezelCliProofs` |

The modules of the indexer are layers. What `Indexer` sees of a block (resolve the hash,
then record the marker or fail) is what `BlockPipeline` takes apart; its `Fetch` is what
`DecodeTrace` takes apart; a call that "fails for good" there is one that `ResilientRpc`
gives up; the rows that a run "finds" for a derived table are what `TraceMatch` computes;
and the `RefreshPools` of `Indexer` is what `PoolRefresh` takes apart.

### Indexer

`pc`, `h`, `hash` and `goal` are the position and the locals of the two futures;
`last_height`, `backoff_ms` and `init_signal` are the poller's; `progress`, `marked` and
`announced` are the durable state. `tip` and `chain` are what Metashrew and bitcoind say:
`chain[x]` tells the successive blocks at height `x` apart. Each branch of
`BlockPoller::run` is an action (`PollFirst`, `PollAhead`, `PollDecreased`, `PollSame`,
`PollError`, `RefreshPools`, `PublishBlock`, `PollerBlockFails`), and so is each step of
`CatchUpCoordinator::run_once` (`InitReceived`, `ReadTip`, `PlanPass`, `SaveProgress`,
`PassFails`); `ResolveHash` and `RecordBlock` belong to both. Both futures run in one
`select!`, so an action is the code between two awaits. `Restart` may happen at any point
and loses the volatile state. The histories `poolsTried` and `due` only serve the
properties: `due[x]` is the oldest block that the marker of `x` may hold once the poller
is past `x`.

### BlockPipeline

One height, any set of `Workers`. A worker's `pc` runs through fetch, traces (one call per
transaction, in any order), upserts (one step per row, each takes a row lock), hot deletes,
hot commit, then read, delete and commit for each derived table, then the marker. The rows
that one run writes for one transaction into one table are one row `[tx, ver, by]`; `ver` is
the version of the block whose hash the run resolved. The hash, the list and the
transactions are one version, since all of them are asked for by that hash; each trace is
read later, when the block may have been replaced or traced anew (`untraced`,
`WithTraceOf`). Under READ COMMITTED a delete removes what its statement saw, kept in
`doomed[w]` until the commit. `ConstraintsHold` is the foreign key and the unique index of
PoolCreation. `Abort` fails a run at any step; `DeadlockVictim` is Postgres breaking a lock
cycle. `Retrace` and `Replace` change the block under the workers, `Rerun` processes it
again. `swaps` is, for the tables, a run that aborts after the swap phase.

`ImplementsLedger` is the refinement of `IndexLedger`: its `store` is `hot`, and a
worker's `run` is the block it has fetched, from the commit of its hot rows (or from the
fetch, for a block without transactions) to the marker. The ledger replaces all rows of
a block's transactions in one step and records only what was written; that the upserts,
the two deletes and the inserts of concurrent runs amount to that is the statement.

### DecodeTrace

Transactions are numbers in block order, of four kinds (no OP_RETURN, on the ignore list,
undecodable, decodable into some protostones). `TxFetched` and `TxNotFetched` answer any
call in the `buffer_unordered` window; `Chunks` is the batch split; each batch is a
process whose steps are the awaits of the code. Every call may fail, or be answered by
another JSON document (`ProviderCall`: the status of the HTTP reply is not looked at): the
list of txids is then empty, a transaction has no outputs (`other`), and a trace is stored as
one event that no indexer knows (`opaque`), though the protostone counts as traced.

### ResilientRpc

Callers, the two breaker atomics (accessed one at a time: `HalfOpen` and `Close` are the
load and the store of `circuit_open`, `GiveUp` and `Trip` the two stores of
`trip_circuit`), a first-come-first-served semaphore, attempts and sleeps. Time passes in
`Tick`. An attempt that overlaps an outage is lost, by an error or a timeout.

### PoolRefresh

One refresh is `Tick`, the list, the details of each pool in any order, the transaction
(existing pools, new pools, latest snapshots, changed snapshots) and the Redis key.
`history[h]` is what the pools held at height `h`, kept until the first reorganisation; a reply has the node's state of the
moment, encoded into the words of a simulation and decoded again by `PoolSimulation`.
A block, a reorganisation, a restart or a purge may come between any two steps.
`PoolSimulation` shows two limits that no property is about: `execution.error` is ignored,
so a long enough message of a reverted call is decoded as ids; and a list cut short is
accepted as it is.

### TraceMatch

A small virtual machine (external) makes nested calls, and the trace it leaves is what the
indexers read. A trace does not record which return answers which call; the history variable
`own` does, and no indexer reads it. The returns an indexer considers are a set of positions
of the trace, those after the invoke or, where it sorts the events, those after it in the
sorted ones; the sort is stable, so among returns of one protostone the trace's order stays.
A pool or Subfrost call is a leaf: it makes no call of its own. Ids are listed in one of two
forms, as `{hi,lo}` or as hex strings; the pool indexers read both, Subfrost's the second
only (`Frost`), the strict match of `inspect` the first only (`InspectStrict`). The amounts of
a swap go through `as f64` before they are stored (`AsF64`: 2^53 is `Exact`).
The properties compare the rows with the calls, in the cases in which the code can be right.
Outside of them: the row of a mint or creation is overstated when a
caller holds LP tokens, that of a burn when a caller holds the pool's tokens; two calls of
one kind to one pool in one protostone claim the same return; once sorted, returns that
precede the invoke are candidates too; the pool indexers never look at `status`; an unwrap
takes the first successful return of its vout; a swap that also gives back some of what it
sold is recorded as failed.

### AlkanesExecute and ExecuteArgs

`request` is what was asked, `draft` the transaction prepared, `txs` what the node has
accepted and `indexed` how much of that the explorer shows. Steps: parse, validate, select
coins, build, sign, broadcast, mine, sync, trace, and for an envelope commit and reveal one
after the other. Amounts are satoshis and the constants those of the code; they are u64, whose
sums wrap around as in a release build (`Wrap`). Two sizes are told apart: the one a fee is
reckoned with (`VSize`, 400 bytes for the envelope) and that of the signed transaction, which the
node charges for (`SignedWeight`, with the script of the envelope). The process may
die between any two steps, an answer may be lost, and one may never come (`Hang`).
A command line is a sequence of tokens (numbers, `v0`, `B`, brackets, separators), which is
the least that tells apart where the code splits.

What the modules show besides the properties: the commit is broadcast before protostones
and recipients are validated (`execute.rs:117`, `:711`), so a refused reveal strands it,
and nothing of it is stored; the default of 600 sat/vB makes a reveal cost more than the
50,000 satoshis set aside; without a change address the surplus becomes fee; required
alkanes never select coins; transfers are left out of a reveal and can overwrite the change
output of an execution; every AMM operation ends in a refusal, since `get_pool_reserves` is
empty and the others have no cellpack. Of the arguments: pointers are parsed and dropped;
edicts to a protostone or to `split` are encoded as output 0 (`execute.rs:479`); a transfer
inside a protostone is swallowed; the documented `...,B:5000:v0,B:5000:v1` is refused,
because the `B` is read as a pointer; several arguments are joined by a space, which is
mostly refused but can lose an edict. `ArgsAsWritten` says of the documented form what is
kept and what is lost. An input requirement near 2^64 gives a commit that is too small and a reveal that pays out more than its
coins hold, which `extract_tx` refuses.

### DeezelCli

A process runs one command as a plan: a sequence of steps, one for each thing that can
fail, change something or depend on an answer. A command with options has a plan for each
way through it. `shell` is the binary's own dispatcher, `library` that of deezel-sys.
Replies are of the kinds that `ProviderCall` tells apart; a provider method says which
kinds it accepts. `file` is the keystore file, absent, unreadable (a write was cut off), or
holding a keystore; `known` and `shown` are what the user has been given or shown. A step that
asks a server may never get an answer (`Hang`): the process then waits until the user gives up.
`Armor` lays out header, base64 lines, checksum and footer, and reads them back as
`reader.rs` does. `decode_varint` is a loop, modelled turn by turn on bytes of `Group` + 1
bits and integers of `Width` bits.

Some things the plans make visible: `wallet send` and `alkanes execute` of the binary work
on a locked provider and always fail; `wallet create-tx`, `broadcast-tx`, `freeze`,
`unfreeze`, `sign` and `mnemonic` panic in the conversion between the two command types
(`crates/deezel/src/commands.rs:803`); `send-all` sends the amount 0; `wallet create
<passphrase>` ignores the passphrase; most `bitcoind` commands are stubs that succeed;
`create` overwrites a keystore without asking; the addresses displayed other than p2tr can
not be signed for; with an Esplora URL the body of a refusal is printed as the transaction
id; the checksum of the armor is never verified.

## Runs

| Run | Instance | Distinct states | Shows |
|---|---|---|---|
| `follow` | poller alone, heights 0..3, two reorganisations, one restart | 157,559 | `PollerNoGap`, `ReorgHealed`, `PollerReachesTip` |
| `catchup` | both workers, heights 0..2, start height 1, one reorganisation, restart and reset each | 41,718 | `ProgressSound`, `PoolsRefreshedFirst`, `PublishesRealtimeOnly`, `CatchUpCompletes` |
| `writers` | two workers, two transactions, creations, two failures, one rerun | 28,770 | `HotRowsFromOneRun`, `DerivedRowsHaveTransaction`, `ImplementsLedger`, `RunCompletes` |
| `reindex` | one worker, swaps and creations, traces changing, block replaced, two failures, one rerun | 1,489,705 | `MarkerMeansIndexed`, `DerivedRowsFromOneRun` |
| `decode_block` | every block of three transactions, window 2, two batches | 268,042 | `CompleteOrError`, `StageEnds` |
| `rpc_recovery` | three callers, two permits, two attempts, one outage | 308,321 | `PermitsAccounted`, `CallsReturn`, `Recovers` |
| `pool_refresh` | one pool, two states, heights 1..3, one reorganisation or purge, one restart | 720,426 | `PoolHasSnapshot`, `SnapshotsAreChanges`, `SnapshotsNotOlder`, `NotifiedIsStored`, `SnapshotsSettle` |
| `trace_match` | every trace of up to four calls in two protostones, three deep, ids in either form | 3,051,106 | `SwapsExact`, `LiquidityExact`, `SubfrostExact`, `InspectAgrees` |
| `execute` | two coins, two requests, one foreign spend, one fault, amounts up to 2^64 - 1 | 159,699 | `ArgsAsWritten`, `DraftBalanced`, `FeeAsShown`, `CommitCoversReveal`, `RequestEnds` |
| `cli` | any command alone; `create` overlapping `restore` or `info`; every payload of up to four bytes | 206,947 | `KeysNotLost`, `KeystoreOpens`, `CoinsCanBeSigned`, `SentIsAccepted`, `VarintExact`, `OneReading`, `CommandEnds` |

The bounds are the smallest at which the cases of interest occur. Three heights above zero
let a tick process two blocks, fall back below the first of them, and process them again;
a second reorganisation hits the blocks of the first. Catch-up is checked
with one height less, since two let a pass fail between them; its safety invariants are
proved for any number. Two transactions are what a lock
cycle and an orphaned creation row need, and two workers every race between writers; the
derived tables behave in two ways (always replaced, or only when there are rows) and one
has a unique index, so PoolSwap and PoolCreation stand for all of them. Two batches and a
window of two are enough for every order of completion. Three callers on two permits make
one wait while two sleep. Pools are independent of one another in a refresh, so one is
enough, and three heights allow a snapshot on each side of another. Four calls give a caller
with two calls below it that have the same kind, or a call in the other protostone to be
confused with. Two requests let the second meet the coins of the first. In `cli`, retries,
address counts and the gap limit are 2, 1, 1, 2 and 3 for 60, 5, 20, 100 and 101: in the
same order as in the code, so that each list ends before the next; integers have 5 bits in
groups of 2 for 128 and 7, which leaves the last group cut as in the code; armor lines have 4
characters for 64, with phrases that need no padding and two `=`.

`reindex` uses symmetry over transactions and workers; no liveness run does.
`CHECK_DEADLOCK FALSE` is set where all work ends once the bounds are used up, or the
program has nothing left to do (all but `Indexer`, `ResilientRpc` and `DeezelCli`).

**Fairness.** `Indexer`: local steps and the poll timer are weakly fair; calls that can
fail again and again are strongly fair, that is, upstream and Postgres do not fail a call
each time for ever. New blocks, reorganisations, restarts and the operator are under no
obligation. `BlockPipeline`: each worker goes on (the poller and the coordinator retry a
failed height), and a worker waiting for a row lock is not overtaken for ever, which is
Postgres' lock queue. `DecodeTrace`: some step is taken (every call has a timeout).
`ResilientRpc`: time passes and each caller goes on; nothing is assumed of upstream, and
`Recovers` is conditional on it staying up. `PoolRefresh`: the poller goes on; nothing is
assumed of the calls, and `SnapshotsSettle` excepts a last height at which one failed.
`AlkanesExecute` and `DeezelCli`: the running request or process takes its next step, and the user
answers prompts; the explorer and the services are under no obligation.

Not every call has a timeout. The HTTP client of the provider is `reqwest::Client::new()`
(`provider.rs:122`), which has none; only what goes through the resilient wrappers does. In
`AlkanesExecute` and `DeezelCli` a call may therefore hang, and `RequestEnds` and `CommandEnds` say
that a request or command ends unless one of its calls is never answered. In the service,
`get_block_hash` (`helpers/block.rs:14`) and the simulations (`amm.rs:451`, `:522`) go round the
wrappers: `CatchUpCompletes`, `PollerReachesTip` and `SnapshotsSettle` rest on the assumption that
these calls return, with an answer or an error.

### Where documents and code differ

Each of these runs checks one statement of the documentation and TLC shows a behaviour of
the code without it; the quotations are in `PROJECT.json` (`findings`).

| Run | Statement | What happens |
|---|---|---|
| `rebuild_wedged` | a block can be rebuilt | an orphaned creation row makes every retry fail |
| `silently_dropped` | a block of which a transaction could not be fetched fails and is retried | a reply that is some other document drops the transaction, and the block counts as processed |

Other differences have no run of their own. The modules behave as the code does, and where a
property comes near one of them its comment says so and its statement is what the code keeps:

- `README.md:113`: the pointer only advances after a success; the first tick without a start
  height advances after a failure too, and its block is never retried (`PointerAfterFailure`;
  `PollerNoGap` starts above it).
- `helpers/README.md:96`: a replace leaves the new set of rows; two runs can each delete before
  the other commits, and both sets stay (`DerivedRowsFromOneRun` is checked with one worker).
- `db/README.md:204`: a rerun replaces the rows of a block fully; a table other than PoolSwap
  keeps its rows when the rerun has none for it (`MarkerMeansIndexed` leaves those out).
- `helpers/README.md:107`, `:216`: `inspect` matches returns strictly, whatever form ids have;
  its `u128_from_json` (`bin/inspect.rs:186`) knows `{hi,lo}` only, and with ids as hex strings
  it takes the first return of the vout (`InspectStrict`; `InspectAgrees` then asks that the
  callers succeed).
- `helpers/README.md:217`: `inspect` takes the return with the least token amounts; it takes
  the last one that gives LP tokens (`InspectAgrees` asks that the callers hand on all they
  hold).
- deezel's `README.md:459`: an edict may go to a protostone or be split; it goes to output 0.
  `README.md:450`: a protostone has a pointer; it is parsed and dropped. `ArgsAsWritten` states
  both as they are.
- `alkanes/execute.rs:557`: 400 bytes of witness are sufficient for most contracts; the signed
  reveal carries the whole envelope, and at a low rate the node refuses it, when the commit is
  on the chain already (`SignedWeight`, `FeeSuffices`; `CommitCoversReveal` excepts it).
- `runestone_enhanced.rs:443`: a varint beyond 128 bits is an error; the highest bits of its
  last group are lost and another value is read (`VarintExact` is modulo 2^128).
- `README.md:16`: failed attempts are recorded with zero amounts; a refused attempt that is
  followed by a successful one of its kind takes that one's return and is recorded as
  successful, and an attempt on a pool that is not in Pool has no row (`TraceMatch`).
- `README.md:307`: the reported height is reduced by one; `canonical_tip_height` returns it
  unchanged (`PollFirst`, `ReadTip`, `CanonicalTip`).
- `README.md:72`: catch-up starts at max(START_HEIGHT, progress + 1); `NextHeight` is
  progress + 1 even below START_HEIGHT, which a progress reset can bring about and
  `dbctl.rs` means to allow.
- `helpers/rpc.rs:34` speaks of one trial call after the cool-down; `Close` admits everyone.
- `pipeline.rs:69`: the order of transactions is maintained; `fetched` and `results` are in
  the order of completion (as `helpers/README.md:9` says), and that index is stored as
  `transactionIndex`.
- deezel's `README.md:480` lists bitcoin transfers between protostones, which is refused; see
  `AlkanesExecute` above.

## Proofs

TLAPS checks, for every value of the constants that the `ASSUME`s allow:

`IndexerProofs` (from `ConstantsAssumption`)

- `TypeCorrect`, `ProgressIsSound`, `PollerLeavesNoGap`, `PoolsBeforeBlocks`: invariants;
- `AnnouncesRealtimeOnly`: the action property `PublishesRealtimeOnly`;
- `FollowerHealsReorgs`: `ReorgHealed` when no start height is set.

They rest on `IndexerInv`. None of these properties is inductive by itself: progress is
set to the coordinator's local `h`, so the invariant must say that the block in hand and
all heights from the start height below it are marked (`CoordinatorInv`); the pointer is
set to the poller's `h`, so it must say that this is the height after the pointer and
that the marker is there when the poller publishes (`PollerInv`); and which heights are
due must be tied to the pointer (`DueInv`). The lemma `Frame` settles the steps that touch
none of this. For reorganisations, `HealInv` adds that a hash in hand is no older than
what is due; it is inductive only while the poller is the sole writer.

`BlockPipelineProofs` (from `PipelineAssumption`), for any number of workers and
transactions and any choice of derived tables:

- `PipelineTypeCorrect`, `HotRowsSerialised`, `DerivedAfterHot`: invariants;
- `PipelineImplementsLedger`: the refinement `ImplementsLedger`.

They rest on `PipelineInv`. `HotRowsFromOneRun` needs `HotInv`: between its deletes and
its commit a worker holds the row locks of all its transactions, and what its deletes saw
is still what the tables hold. The step that matters is another worker's commit: the two
runs' transactions are disjoint because the locks are (`DisjointRuns`), so that commit
leaves the first worker's rows alone (`HotAfterCommit`). `DerivedRowsHaveTransaction`
needs that each transaction of a run past its hot commit has hot rows, which no step takes
away (`HotHasKept`), and that the rows in hand come from what was traced (`DerivedInv`).
`TracesInv` and `ControlInv` are what the types need.

The refinement goes step by step over the actions. A commit of hot rows is the ledger's
write, by `HotInv`: the rows it removes are those of the block's transactions, since what
its deletes saw is still there. A fetch of an empty block is a write that changes no row,
the marker is the ledger's record, and giving up forgets the run. All other steps are
stuttering steps, as they leave `hot` and the marker alone and a worker on the same side of
the commit.

With one worker (the hypothesis `OneWorker` of these two theorems; two leave both their
swap rows, see above):

- `DerivedFromOneRun`: `DerivedRowsFromOneRun`;
- `MarkerIsCommitRecord`: `MarkerMeansIndexed`.

They add `SoloInv`. Rows are told apart by the version of the block their run fetched, so
versions must only grow, and one version be one block (`VersionInv`), and the marker may not
be newer than the run in hand (`OrderInv`). `OpenInv` says that what the open transaction of a
derived table has deleted is still all that the table has of the block, which is what one
worker buys; `RunInv` that the hot tables, and the derived tables a run of the current block
has passed, are settled: they hold the current block's rows, and the replaced ones no others
of its transactions; `MarkInv` that all tables are, once the marker has the current block. The tables a rerun has not reached yet
still hold the rows of the run that wrote the marker (`Settled`), which is why a rerun that
fails half way does not make the marker a lie.

`DecodeTraceProofs` (from `DecodeAssumption`), for a block of any number of transactions,
any window and any number of batches:

- `DecodedExactlyOnce`: `CompleteOrError`.

The batches are shown to partition the list of fetched transactions that pass the filter
(`BatchesExact`), from the size the code rounds up (`CeilDivBounds`) and the fact that a
position of the list lies in one chunk at one place only (`SameChunk`); the filter keeps
each transaction once (`KeptExact`). `DecodeInv` then follows a transaction: it is fetched
at most once (`FetchInv`), it has one place in one batch (`PlaceInv`), a batch that returned
without an error is at the end of its list (`PosInv`), and the results are those of the
places the batches are through with, one for each unless an error is set (`ResultInv`);
`StoneInv` says that the protostones of the transaction in hand are traced or skipped in
their order, so that a result accounts for each of them once.

`ResilientRpcProofs` (from `RpcAssumption`), for any number of callers, permits, attempts
and outages:

- `PermitsNeverLeak`: `PermitsAccounted`.

`QueueInv` is the strengthening: the queue lists the waiting calls and each of them once, so
that the permit given to its head goes to a call that waits.

`PoolRefreshProofs` (from `RefreshAssumption`), for any finite set of pools, any amounts and
any heights:

- `PoolsHaveSnapshots`, `SnapshotsRecordChanges`, `SnapshotsNeverStale`, `NotificationKept`:
  the four safety properties of the run.

`RefreshInv` ties what the refresh holds in memory to the history of the chain: without a
reorganisation nothing stored or announced is above the height being refreshed
(`ChainInv`); what was fetched is what some block from that height to the tip brought
(`ReadInv`, from `ListingExact` and `DetailsExact`: what is read out of the words of a reply
is what was put there); unless a call failed, no pool of that height is left out
(`CompleteInv`); what the open transaction has read is still stored, since nothing else
writes the tables but a purge (`TransactionInv`); and after its commit every pool of the
height is stored with amounts no older than it (`CommittedInv`). The latest snapshot is the
one at the greatest height, which exists because the heights are bounded (`GreatestHeight`,
`LatestTop`). The four properties say themselves that they hold while there was no purge,
and the last three while there was no reorganisation.

`AlkanesExecuteProofs` (from `RequestAssumption` and `SpanAssumption`), for any coins, any requests and any number of
recipients, protostones and alkanes in them:

- `DraftsBalance`, `FeesShown`: the invariants `DraftBalanced` and `FeeAsShown`;
- `RevealsCovered`: `CommitCoversReveal`;
- `ExecuteInvariant`: the invariant they rest on.

`ExecuteInv` says what a request holds in each of its phases (`RequestInv`), that a draft spends
coins that some accepted transaction made, none of which pays out more than its own coins hold
(`LedgerInv`, `DraftInv`; values never change, `InputSumNext`), that the first output of a commit
is what its reveal needs, and that a reveal follows a commit which the node holds (`CommitInv`).
Where the amounts of a request fit in a u64, its reveal pays the fee it shows if the commit set
that much aside, and `extract_tx` accepts it (`RevealInv`); if that fee is also what the node asks
for the signed transaction, the node accepts it as well while its coins are unspent, so such a
request fails for no other reason (`FailureInv`). Where they do not fit, the draft may pay out more
than it has, and then `extract_tx` refuses it before anything is sent, which is the other half of
`DraftBalanced`. Amounts are below `AmountSpan`, the span of a u64 (`SpanAssumption`).
`RequestAssumption` gives the inputs the types that the parsers and `EnhancedExecuteParams` have.

`DeezelCliProofs` (from `SessionAssumption`, which is that users give commands that have a
plan, `CliAssumption`, `WalletAssumption`, `ArmorAssumption` and `RunestoneAssumption`), for
any number of processes, any sessions, any address counts in the order of the code's, armor
lines of any length, and bytes and integers of any width:

- `PrintedKeysAreKept`: `KeysNotLost`;
- `OwnCoinsAreSigned`: `CoinsCanBeSigned`;
- `SentMeansAccepted`: `SentIsAccepted`;
- `KeystoresOpen`: `KeystoreOpens`;
- `VarintsExact`: `VarintExact`;
- `ReadingsAgree`: `OneReading`.

The first part (`PlansGood`) goes through the tables and shows that the plan of every
command is of one of three forms: a payment selects before it signs, a command that reads
the keystore file does so first, and one that creates a keystore writes it and prints the
mnemonic at its end. What is left of such a plan stays `Ordered`, step by step
(`TailOrdered`). `CliInv` has a part for each process (`ProcOk`) and one for the keys: the
mnemonic of every keystore, in the file or in a process, is `Safe`, that is, the user has
it or its creator has written it and did not get to print it (`KeyInv`). A mnemonic stops
being about to be printed only by being printed or by a kill, which is `SafeKept`. A coin
that was not named is one of those spent (`SelectResult`), and the search of signing reaches
every one of them, on the path that it derives (`Signable`, `SignsWithItsKey`); replies are
settled by `SentReading`.

`KeystoreOpens` adds to `CliInv` that a keystore in the file is that of a mnemonic and a
passphrase, as a plan that writes one has drawn the mnemonic or asked for it before (`DataInv`,
`Drawn`); the rest is that armor is read back whatever the length of the text (`ArmorReadsBack`): the
lines laid end to end are the text, no line looks like a header or a checksum, and cleaning
takes nothing away. `VarintExact` goes through the loop of `decode_varint` byte by byte
(`ReadSoFar`, `ReadOneMore`): after n bytes the integer is the sum of the n groups, cut to
`Width` bits, as the groups that do not fit any more are shifted out one by one. `OneReading` holds
because what a payload is read as is a list of integers, or a failure (`IntegersRead`), and the two
walks over them, the one that keeps a tag for its next turn and the one over pairs, give the
same list of values for the tag of the protocol (`FirstWalk`, `SecondWalk`, `WalksAgree`).

`TraceMatchProofs` (from `TraceAssumption`: purses are lists of the four tokens, and there is
at least one protostone and one amount), for any purses, protostones, calls, nesting and
amounts, saturation included:

- `SwapsHold`: `SwapsExact`;
- `LiquidityHolds`: `LiquidityExact`;
- `SubfrostHolds`: `SubfrostExact`;
- `InspectHolds`: `InspectAgrees`;
- `TracesTold`: the invariant they rest on.

`TraceInv` is about the calls, not the indexers: what each kind of call takes (`EventInv`), what
the running calls hold (`StackInv`), and that every return answers one call, a pool's or
Subfrost's by the next event (`OwnInv`). This is all that the swap needs, since its own return is the
first candidate and fits. The other indexers may take another call's return, and the
invariant bounds what that can give. In a protostone with one pool call that starts without
a token, all that is ever held or returned of it is nothing or what that call gave, in one
place at a time (`GiftInv`), so every return that gives the LP token gives the same amount; and
who holds the LP token holds at least the change the call gave with it (`ChangeInv`), so the
least of the returns leaves what the call's own does (`BestIsOwn`). Where calls only contain
one another, what they take shrinks inwards, and if they hand on all they hold a return gives
nothing, what the innermost call took, or what it gave (`ChainInv`); `inspect` is then right
whichever return the database lists first. What a list holds of a token is
`calculate_token_total` of it, whose laws are `TotalAppend`, `TotalAmount` and `TotalCounts`.

The induction theorems of the library take an operator as a parameter, which the prover cannot
instantiate, so recursions and folds are proved about from the least number that is a
counterexample (`LeastNumber`): a loop has a value at every turn (`LoopExists`, `EveryTurn`), a
sum over a finite set has the usual laws (`SumRemove`, `SumUpdate`), and `FlattenSeq` and
`FoldLeft` satisfy their recursions (`FlattenAppend`, `FoldExists`).

Only model-checked: all liveness, the fairness it rests on and `ENABLED` (outside the
prover's reach); and `ArgsAsWritten` of `AlkanesExecute`, which compares six splits and a parser
on texts of any length. Where a proved module needs the result of a filter or an update of
a table, the module states it itself (`Kept` in `DecodeTrace`, `++` and the tables of
`DeezelProvider`), because the library's `SelectSeq` and `SortSeq` are opaque to the prover.

## Not modelled

- `dbctl purge-block` on the block tables under a running service; `dbctl push|reset|drop`
  (DDL on a stopped service); the DDL of `schema.rs` but for the constraints a run can meet.
- Configuration, connections, logging.
- More than one height per `BlockPipeline` instance: creation rows of other heights are
  not distinguished from orphans at this one.
- Column values of the hot tables and address columns of the derived ones, which are copied.
- Of deezel: the web crate (browser APIs and fixed values); the trait implementations of
  `SystemDeezel`, which forward; traits, types, mocks, clap and printing; the WebAssembly
  inspector; `src/main.rs` and its modules, which call functions that do not exist in the
  copy; `monitor.rs`, which nothing calls; `alkanes/token.rs`, `contract.rs` and
  `fee_validation.rs`, which are not part of the crate. Cryptography is an ideal cipher,
  and a derived key is its path.

## Plan

1. `ArgsAsWritten` for texts of any length: the splits of `ExecuteArgs` as loops over the
   tokens, each with the brackets it has open as its invariant.
2. That the stages a run passes through in `Indexer` and `BlockPipeline` agree with those of
   `DecodeTrace`, as a refinement.
