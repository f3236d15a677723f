---------------------------- MODULE PoolRefresh ------------------------------
(***************************************************************************)
(* Pipeline::fetch_pools_for_tip as the block poller calls it: list the    *)
(* pools of the factory, fetch the details of each, insert the new pools   *)
(* and the changed PoolState snapshots in one transaction, and set the     *)
(* pools-lastblock key in Redis.                                           *)
(*                                                                         *)
(* The node answers every simulation from its state of the moment, not     *)
(* from that of the height being refreshed: a block or a reorganisation    *)
(* may arrive between any two calls. The process may stop at any time, and *)
(* an operator may purge a height (`dbctl purge-block`).                   *)
(*                                                                         *)
(* A pool is its id, its amounts are the two reserves and the supply.      *)
(* Details arrive in any order, so the limit of ten requests in flight     *)
(* does not show.                                                          *)
(***************************************************************************)
EXTENDS PoolSimulation, FiniteSets, SequencesExt

CONSTANTS
    Pools,        \* the ids of the pools the factory may list
    Amounts,      \* the amounts a pool may have, sequences of three
    Tokens,       \* the ids of its tokens, as the words of a simulation
    MaxHeight,    \* bound: the highest tip
    MaxDisturbances, \* bound: reorganisations and purge-block calls
    MaxRestarts,  \* bound: restarts of the process
    None

ASSUME RefreshAssumption ==
    /\ MaxHeight \in Nat \ {0}
    /\ MaxDisturbances \in Nat
    /\ MaxRestarts \in Nat
    /\ None \notin Amounts \cup Nat
    /\ IsFiniteSet(Pools) /\ Pools \subseteq [1..2 -> Nat]
    /\ Amounts \subseteq [1..3 -> Nat]
    /\ Tokens \in [1..4 -> Nat]

Heights == 1..MaxHeight

VARIABLES
    tip,            \* the tip the node has indexed
    live,           \* live[p]: the amounts of p now, None before it exists
    history,        \* history[h]: what live was when h became the tip, kept until the
                    \* first reorganisation
    reorgs, purges, restarts,
    failed,         \* the heights at which a call of a refresh has failed
    poolTable,      \* the pools with a row in Pool
    poolState,      \* poolState[p][h]: the snapshot row of p at h, or None
    lastblock,      \* the Redis key, or None
    last,           \* last_height of the poller, or None
    pc,             \* where the poller is: between ticks ("sleep"), at a call of a
                    \* refresh, or at the blocks after it
    target,         \* tip_height of the refresh, or None
    waiting,        \* pools whose details are still to come
    fetched,        \* fetched[p]: the details received, or None
    known,          \* the pools in Pool once the new ones are inserted
    latest          \* latest[p]: what get_latest_pool_states returned

envVars == <<tip, live, history>>
boundVars == <<reorgs, purges, restarts>>
dbVars == <<poolTable, poolState>>
runVars == <<target, waiting, fetched, known, latest>>
vars == <<envVars, boundVars, failed, dbVars, lastblock, last, pc, runVars>>

Absent == [p \in Pools |-> None]
Readings == [Pools -> Amounts \cup {None}]

Init ==
    /\ tip = 1
    /\ live \in Readings
    /\ history = [h \in Heights |-> IF h = 1 THEN live ELSE Absent]
    /\ reorgs = 0
    /\ purges = 0
    /\ restarts = 0
    /\ failed = {}
    /\ poolTable = {}
    /\ poolState = [p \in Pools |-> [h \in Heights |-> None]]
    /\ lastblock = None
    /\ last = None
    /\ pc = "sleep"
    /\ target = None
    /\ waiting = {}
    /\ fetched = Absent
    /\ known = {}
    /\ latest = Absent

-----------------------------------------------------------------------------
(* Environment *)

\* A pool, once created, stays; its amounts may change with every block.
NewBlock ==
    /\ tip < MaxHeight
    /\ tip' = tip + 1
    /\ live' \in {r \in Readings : \A p \in Pools : live[p] # None => r[p] # None}
    /\ history' = IF reorgs = 0 THEN [history EXCEPT ![tip + 1] = live'] ELSE history
    /\ UNCHANGED <<boundVars, failed, dbVars, lastblock, last, pc, runVars>>

\* Another branch, no higher than the old one: other amounts, and the pools
\* created above the fork are gone.
Reorg ==
    /\ reorgs + purges < MaxDisturbances
    /\ reorgs' = reorgs + 1
    /\ tip' \in 1..tip
    /\ live' \in Readings
    /\ history' = [h \in Heights |-> Absent]
    /\ UNCHANGED <<purges, restarts, failed, dbVars, lastblock, last, pc, runVars>>

\* The PoolState statement of `dbctl purge-block`.
PurgeBlock(h) ==
    /\ reorgs + purges < MaxDisturbances
    /\ purges' = purges + 1
    /\ poolState' = [p \in Pools |-> [poolState[p] EXCEPT ![h] = None]]
    /\ UNCHANGED <<envVars, reorgs, restarts, failed, poolTable, lastblock, last, pc,
                   runVars>>

-----------------------------------------------------------------------------
(* The poller's tick *)

\* Refresh on the first tick only.
NeedsRefresh_FirstOnly == last = None

\* The first tick and every higher tip refresh the pools.
NeedsRefresh == last # None => tip > last

\* canonical_tip_height: the height metashrew reports, as it is.
CanonicalTip == tip

Tick ==
    /\ pc = "sleep"
    /\ NeedsRefresh
    /\ pc' = "list"
    /\ target' = CanonicalTip
    /\ UNCHANGED <<envVars, boundVars, failed, dbVars, lastblock, last, waiting,
                   fetched, known, latest>>

\* A lower tip moves the pointer and refreshes nothing.
TipDecreased ==
    /\ pc = "sleep"
    /\ last # None /\ tip < last
    /\ last' = tip
    /\ UNCHANGED <<envVars, boundVars, failed, dbVars, lastblock, pc, runVars>>

\* fetch_pools_for_tip has returned, with or without an error: the poller goes
\* on to the blocks, and its locals are gone.
Return ==
    /\ pc' = "blocks"
    /\ waiting' = {}
    /\ fetched' = Absent
    /\ known' = {}
    /\ latest' = Absent
    /\ UNCHANGED target

\* The blocks above the pointer are processed; the first failure stops the loop,
\* except on the first tick, where the pointer moves all the same.
ProcessBlocks ==
    /\ pc = "blocks"
    /\ last' \in IF last = None THEN {target} ELSE last..target
    /\ pc' = "sleep"
    /\ target' = None
    /\ UNCHANGED <<envVars, boundVars, failed, dbVars, lastblock, waiting, fetched,
                   known, latest>>

\* The process stops at any point and is started again.
Restart ==
    /\ restarts < MaxRestarts
    /\ restarts' = restarts + 1
    /\ last' = None
    /\ pc' = "sleep"
    /\ target' = None
    /\ waiting' = {}
    /\ fetched' = Absent
    /\ known' = {}
    /\ latest' = Absent
    /\ UNCHANGED <<envVars, reorgs, purges, failed, dbVars, lastblock>>

-----------------------------------------------------------------------------
(* The refresh *)

Existing == {p \in Pools : live[p] # None}

\* What the factory and a pool answer at this moment: their data (of the factory
\* a count, and the two words of each id), or that of a call that reverts.
Listing ==
    LET ids == SetToSeq(Existing)
        n == Cardinality(Existing)
    IN  {[k \in 1..2 * n + 1 |-> IF k = 1 THEN n ELSE ids[k \div 2][(k % 2) + 1]], << >>}
PoolData(p) == (IF live[p] # None THEN {Tokens \o live[p]} ELSE {}) \cup {<< >>}

\* Step 1 of fetch_all_pools_with_details: the pools that exist now.
ListPools ==
    /\ pc = "list"
    /\ \E reply \in Replies, data \in Listing :
          waiting' \in get_all_pools_via_raw_simulate(reply, data)
    /\ pc' = "details"
    /\ UNCHANGED <<envVars, boundVars, failed, dbVars, lastblock, last, target, fetched,
                   known, latest>>

\* Step 2, for one pool: the amounts of the moment.
Details(p) ==
    /\ pc = "details"
    /\ p \in waiting
    /\ waiting' = waiting \ {p}
    /\ \E reply \in Replies, data \in PoolData(p) :
          \E details \in get_pool_details_via_raw_simulate(reply, data) :
            fetched' = [fetched EXCEPT ![p] = details.amounts]
    /\ UNCHANGED <<envVars, boundVars, failed, dbVars, lastblock, last, pc, target,
                   known, latest>>

\* The call fails, or its answer does not decode: the pool is left out.
DetailsFail(p) ==
    /\ pc = "details"
    /\ p \in waiting
    /\ \E reply \in Replies, data \in PoolData(p) :
          get_pool_details_via_raw_simulate(reply, data) = {}
    /\ waiting' = waiting \ {p}
    /\ failed' = failed \cup {target}
    /\ UNCHANGED <<envVars, boundVars, dbVars, lastblock, last, pc, target, fetched,
                   known, latest>>

Fetched == {p \in Pools : fetched[p] # None}

\* A refresh that found no new pool writes nothing.
AfterDetails_NewOnly == IF Fetched \subseteq poolTable THEN "notify" ELSE "pools"

\* With no details at all the refresh is over, and counts as a success.
AfterDetails == IF Fetched = {} THEN "notify" ELSE "pools"

DetailsDone ==
    /\ pc = "details"
    /\ waiting = {}
    /\ pc' = AfterDetails
    /\ UNCHANGED <<envVars, boundVars, failed, dbVars, lastblock, last, runVars>>

\* The pools are committed before their snapshots.
InsertNewPools_OwnTransaction ==
    /\ pc = "pools"
    /\ known' = poolTable \cup Fetched
    /\ poolTable' = known'
    /\ pc' = "latest"
    /\ UNCHANGED <<envVars, boundVars, failed, poolState, lastblock, last, target,
                   waiting, fetched, latest>>

\* The transaction begins: the pools of the factory are read and those missing
\* are inserted, `on conflict do nothing`. Nothing is visible before the commit.
InsertNewPools ==
    /\ pc = "pools"
    /\ known' = poolTable \cup Fetched
    /\ pc' = "latest"
    /\ UNCHANGED <<envVars, boundVars, failed, dbVars, lastblock, last, target, waiting,
                   fetched, latest>>

SnapshotHeights(p) == {h \in Heights : poolState[p][h] # None}

\* `distinct on ("poolId") ... order by "poolId", "blockHeight" desc`
LatestState(p) ==
    IF SnapshotHeights(p) = {} THEN None
    ELSE poolState[p][CHOOSE h \in SnapshotHeights(p) : \A g \in SnapshotHeights(p) : g <= h]

ReadLatest ==
    /\ pc = "latest"
    /\ latest' = [p \in Pools |-> IF p \in Fetched THEN LatestState(p) ELSE None]
    /\ pc' = "commit"
    /\ UNCHANGED <<envVars, boundVars, failed, dbVars, lastblock, last, target, waiting,
                   fetched, known>>

\* The snapshot dated one block late.
Snapshot_NextHeight(p, h) ==
    IF h = target + 1 /\ p \in Fetched /\ fetched[p] # latest[p] /\ poolState[p][h] = None
    THEN fetched[p] ELSE poolState[p][h]

\* A row at every refresh, changed or not.
Snapshot_Always(p, h) ==
    IF h = target /\ p \in Fetched /\ poolState[p][h] = None
    THEN fetched[p] ELSE poolState[p][h]

\* A changed pool gets a row at tip_height, unless it has one there already:
\* `on conflict ("poolId", "blockHeight") do nothing`.
Snapshot(p, h) ==
    IF h = target /\ p \in Fetched /\ fetched[p] # latest[p] /\ poolState[p][h] = None
    THEN fetched[p] ELSE poolState[p][h]

CommitSnapshots ==
    /\ pc = "commit"
    /\ poolTable' = poolTable \cup known
    /\ poolState' = [p \in Pools |-> [h \in Heights |-> Snapshot(p, h)]]
    /\ pc' = "notify"
    /\ UNCHANGED <<envVars, boundVars, failed, lastblock, last, runVars>>

\* notify_pools_processed: best effort.
NotifyPoolsProcessed ==
    /\ pc = "notify"
    /\ lastblock' \in {target, lastblock}
    /\ Return
    /\ UNCHANGED <<envVars, boundVars, failed, dbVars, last>>

\* The listing fails, or a statement does: the transaction is rolled back, the
\* error is logged, and this tip is not refreshed again unless its blocks fail.
RefreshFails ==
    /\ \/ pc \in {"pools", "latest", "commit"}
       \/ /\ pc = "list"
          /\ \E reply \in Replies, data \in Listing :
                get_all_pools_via_raw_simulate(reply, data) = {}
    /\ failed' = failed \cup {target}
    /\ Return
    /\ UNCHANGED <<envVars, boundVars, dbVars, lastblock, last>>

-----------------------------------------------------------------------------

Refresh ==
    \/ ListPools \/ (\E p \in Pools : Details(p) \/ DetailsFail(p)) \/ DetailsDone
    \/ InsertNewPools \/ ReadLatest \/ CommitSnapshots \/ NotifyPoolsProcessed
    \/ RefreshFails

Poller == Tick \/ TipDecreased \/ Refresh \/ ProcessBlocks

Next ==
    \/ NewBlock \/ Reorg \/ \E h \in Heights : PurgeBlock(h)
    \/ Poller \/ Restart

Spec == Init /\ [][Next]_vars

\* The poller keeps running, on the assumption that every simulation comes back with
\* an answer or an error: the calls of AmmManager (amm.rs:451, :522) go round the
\* resilient wrapper, and their client has no timeout. Blocks, failures and operators
\* owe nothing.
FairSpec == Spec /\ WF_vars(Poller)

-----------------------------------------------------------------------------
(* Properties *)

Undisturbed == reorgs = 0 /\ purges = 0

\* A pool in Pool has a snapshot: fetch_and_upsert_pools_for_tip inserts both in
\* one transaction, wherever it fails or the process stops. Reorganisations do
\* not matter here; only a purge removes snapshots.
PoolHasSnapshot ==
    purges = 0 => \A p \in poolTable : SnapshotHeights(p) # {}

\* Snapshots record changes: of two snapshots of a pool that follow each other
\* by height the amounts differ, although a tip may be refreshed several times
\* (after a restart, or when its blocks failed) with different answers.
SnapshotsAreChanges ==
    Undisturbed =>
        \A p \in Pools : \A h1, h2 \in SnapshotHeights(p) :
            h1 < h2 /\ (\A g \in SnapshotHeights(p) : g <= h1 \/ g >= h2)
                => poolState[p][h1] # poolState[p][h2]

\* A snapshot is never older than the height it carries. It may be newer: the
\* simulation reads the node's present state.
SnapshotsNotOlder ==
    Undisturbed =>
        \A p \in Pools : \A h \in SnapshotHeights(p) :
            \E g \in h..tip : history[g][p] = poolState[p][h]

\* A service that sees a height in Redis finds every pool of that height in Pool,
\* with a latest snapshot no older than it, unless a call of that refresh failed.
NotifiedIsStored ==
    Undisturbed /\ lastblock \in Heights \ failed =>
        \A p \in Pools : history[lastblock][p] # None =>
            /\ p \in poolTable
            /\ \E g \in lastblock..tip : history[g][p] = LatestState(p)

\* When blocks stop coming, every pool ends up in Pool with its amounts as the
\* latest snapshot, whatever was read, refreshed twice or interrupted before,
\* unless a call failed at the last height: nothing retries that refresh.
SnapshotsSettle ==
    <>[](tip = MaxHeight /\ MaxHeight \notin failed /\ Undisturbed)
        => <>[](\A p \in Pools : live[p] # None => p \in poolTable /\ LatestState(p) = live[p])
=============================================================================
