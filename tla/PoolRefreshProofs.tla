------------------------- MODULE PoolRefreshProofs ---------------------------
(***************************************************************************)
(* Proofs about the pool refresh, for any finite set of pools, any amounts *)
(* and all bounds.                                                         *)
(***************************************************************************)
EXTENDS PoolRefresh, FiniteSetTheorems, SequenceTheorems, TLAPS

Labels == {"sleep", "list", "details", "pools", "latest", "commit", "notify", "blocks"}

RefreshTypes ==
    /\ tip \in Heights
    /\ live \in Readings
    /\ history \in [Heights -> Readings]
    /\ reorgs \in Nat
    /\ purges \in Nat
    /\ poolTable \subseteq Pools
    /\ poolState \in [Pools -> [Heights -> Amounts \cup {None}]]
    /\ lastblock \in Heights \cup {None}
    /\ pc \in Labels
    /\ target \in IF pc = "sleep" THEN {None} ELSE Heights
    /\ waiting \subseteq Pools
    /\ fetched \in Readings
    /\ known \subseteq Pools
    /\ latest \in Readings

\* The height a refresh works at, the tip between refreshes.
Present == IF pc = "sleep" THEN tip ELSE target

\* While no reorganisation happens the chain only grows: a pool that existed
\* exists, and nothing stored or announced is above the present height.
ChainInv ==
    reorgs = 0 =>
        /\ history[tip] = live
        /\ \A g \in 1..tip : \A p \in Pools : history[g][p] # None => live[p] # None
        /\ Present <= tip
        /\ lastblock # None => lastblock <= Present
        /\ \A p \in Pools : \A h \in SnapshotHeights(p) : h <= Present

\* What has been fetched is what a block from the target on brought.
ReadInv ==
    /\ pc \in {"sleep", "list", "blocks"} => fetched = Absent
    /\ reorgs = 0 /\ pc # "sleep" =>
          \A p \in Pools : fetched[p] # None => \E g \in target..tip : history[g][p] = fetched[p]

\* Without a failed call, no pool of the target height has been left out.
CompleteInv ==
    reorgs = 0 /\ pc # "sleep" /\ target \notin failed =>
        \A p \in Pools : history[target][p] # None =>
            /\ pc = "details" => p \in waiting \/ fetched[p] # None
            /\ pc \in {"pools", "latest", "commit"} => fetched[p] # None

\* What the transaction has read is still what the tables hold: no other action
\* writes them, apart from a purge.
TransactionInv ==
    /\ pc \in {"latest", "commit"} => known = poolTable \cup Fetched
    /\ pc = "commit" /\ purges = 0 => \A p \in Fetched : latest[p] = LatestState(p)

\* Every pool of height h is in Pool, with a latest snapshot no older than h.
Stored(h) ==
    \A p \in Pools : history[h][p] # None =>
        /\ p \in poolTable
        /\ \E g \in h..tip : history[g][p] = LatestState(p)

CommittedInv == Undisturbed /\ pc = "notify" /\ target \notin failed => Stored(target)

RefreshInv ==
    /\ RefreshTypes
    /\ ChainInv
    /\ ReadInv
    /\ CompleteInv
    /\ TransactionInv
    /\ CommittedInv
    /\ PoolHasSnapshot
    /\ SnapshotsAreChanges
    /\ SnapshotsNotOlder
    /\ NotifiedIsStored

USE RefreshAssumption

-----------------------------------------------------------------------------
(* The greatest height of a set *)

LEMMA LeastNatural ==
    ASSUME NEW T \in SUBSET Nat, T # {}
    PROVE  \E m \in T : \A n \in T : m <= n
<1> DEFINE R == OpToRel(<, Nat)
<1>1. \A x, y \in Nat : x < y => <<x, y>> \in R
  BY DEF OpToRel
<1>2. IsWellFoundedOn(R, Nat)
  BY NatLessThanWellFounded
<1> HIDE DEF R
<1>3. PICK m \in T : \A n \in T : ~(<<n, m>> \in R)
  BY <1>2, WFMin
<1>4. \A n \in T : ~(n < m)
  BY <1>1, <1>3
<1> QED
  BY <1>4, \A n \in T : n \in Nat /\ m \in Nat, SMT

LEMMA GreatestHeight ==
    ASSUME NEW T \in SUBSET Heights, T # {}
    PROVE  \E m \in T : \A n \in T : n <= m
<1> DEFINE U == {n \in Nat : MaxHeight - n \in T}
<1>1. \A t \in T : MaxHeight - (MaxHeight - t) = t /\ MaxHeight - t \in Nat
  BY DEF Heights
<1>2. \A t \in T : MaxHeight - t \in U
  BY <1>1
<1>3. PICK u \in U : \A v \in U : u <= v
  BY <1>2, LeastNatural
<1>4. ASSUME NEW n \in T PROVE n <= MaxHeight - u
  <2>1. u \in Nat /\ u <= MaxHeight - n
    BY <1>2, <1>3, Zenon
  <2>2. n \in Nat /\ MaxHeight \in Nat
    BY RefreshAssumption DEF Heights
  <2> HIDE DEF U
  <2> QED
    BY <2>1, <2>2
<1>5. MaxHeight - u \in T
  OBVIOUS
<1> QED
  BY <1>4, <1>5

\* The rows of one pool, and the latest of them.
Rows == [Heights -> Amounts \cup {None}]
RowHeights(row) == {h \in Heights : row[h] # None}
LatestOf(row) ==
    IF RowHeights(row) = {} THEN None
    ELSE row[CHOOSE h \in RowHeights(row) : \A g \in RowHeights(row) : g <= h]

LEMMA LatestAt ==
    ASSUME NEW row \in Rows, NEW m \in RowHeights(row),
           \A g \in RowHeights(row) : g <= m
    PROVE  LatestOf(row) = row[m]
<1> DEFINE S == RowHeights(row)
           c == CHOOSE h \in S : \A g \in S : g <= h
<1>1. c \in S /\ \A g \in S : g <= c
  OBVIOUS
<1>2. c \in Nat /\ m \in Nat /\ c <= m /\ m <= c
  BY <1>1 DEF RowHeights, Heights
<1>3. c = m
  BY <1>2
<1> QED
  BY <1>3 DEF LatestOf

LEMMA LatestCases ==
    ASSUME NEW row \in Rows
    PROVE  \/ RowHeights(row) = {} /\ LatestOf(row) = None
           \/ \E m \in RowHeights(row) :
                 (\A g \in RowHeights(row) : g <= m) /\ LatestOf(row) = row[m]
<1>1. CASE RowHeights(row) = {}
  BY <1>1 DEF LatestOf
<1>2. CASE RowHeights(row) # {}
  <2>1. PICK m \in RowHeights(row) : \A g \in RowHeights(row) : g <= m
    BY <1>2, GreatestHeight DEF RowHeights
  <2> QED
    BY <2>1, LatestAt
<1> QED
  BY <1>1, <1>2

\* get_latest_pool_states in these terms.
LEMMA LatestStateFact ==
    ASSUME NEW p
    PROVE  /\ SnapshotHeights(p) = RowHeights(poolState[p])
           /\ LatestState(p) = LatestOf(poolState[p])
BY DEF SnapshotHeights, LatestState, RowHeights, LatestOf

-----------------------------------------------------------------------------
(* The answers of the node *)

\* What the refresh keeps of the factory's answer: an error, or every pool that
\* exists at the moment and no other, whatever order the factory lists them in.
LEMMA ListingExact ==
    ASSUME NEW reply, NEW data \in Listing,
           NEW listed \in get_all_pools_via_raw_simulate(reply, data)
    PROVE  listed = Existing
<1> DEFINE ids == SetToSeq(Existing)
           n == Cardinality(Existing)
           words == [k \in 1..2 * n + 1 |-> IF k = 1 THEN n ELSE ids[k \div 2][(k % 2) + 1]]
<1>1. IsFiniteSet(Existing) /\ n \in Nat
  BY FS_Subset, FS_CardinalityType DEF Existing
<1>2. ids \in [1..n -> Existing] /\ IsInjective(ids)
  <2>1. \E f \in [1..n -> Existing] : IsInjective(f)
    BY <1>1, FS_CardinalityType DEF ExistsBijection, Bijection, Injection
  <2> QED
    BY <2>1 DEF SetToSeq
<1>3. \A p \in Existing : \E i \in 1..n : ids[i] = p
  <2>1. Cardinality(1..n) = n
    BY <1>1, FS_Interval
  <2>2. ids \in Injection(1..n, Existing)
    BY <1>2 DEF Injection
  <2>3. ids \in Surjection(1..n, Existing)
    BY <1>1, <2>1, <2>2, FS_Injection
  <2> QED
    BY <2>3 DEF Surjection
<1> HIDE DEF ids, n
<1>4. data = words /\ words # << >> /\ words[1] = n /\ Len(words) = 2 * n + 1
  <2>1. data # << >>
    BY DEF get_all_pools_via_raw_simulate, decode_get_all_pools, DataOf
  <2>2. data = words
    BY <2>1 DEF Listing, ids, n
  <2>3. words[1] = n /\ Len(words) = 2 * n + 1
    BY <1>1
  <2> QED
    BY <2>1, <2>2, <2>3
<1>5. ASSUME NEW i \in 1..n PROVE SubSeq(words, 2 * i, 2 * i + 1) = ids[i]
  <2>1. /\ 2 * i \in 1..2 * n + 1 /\ 2 * i # 1 /\ (2 * i) \div 2 = i /\ (2 * i) % 2 = 0
        /\ 2 * i + 1 \in 1..2 * n + 1 /\ 2 * i + 1 # 1
        /\ (2 * i + 1) \div 2 = i /\ (2 * i + 1) % 2 = 1
    BY <1>1
  <2>2. words[2 * i] = ids[i][1] /\ words[2 * i + 1] = ids[i][2]
    BY <2>1
  <2>3. ids[i] \in [1..2 -> Nat]
    BY <1>2 DEF Existing
  <2>4. SubSeq(words, 2 * i, 2 * i + 1) = [k \in 1..2 |-> words[2 * i + k - 1]]
    BY <1>1, <2>1
  <2>5. \A k \in 1..2 : words[2 * i + k - 1] = ids[i][k]
    BY <2>2
  <2> QED
    BY <2>3, <2>4, <2>5
<1> HIDE DEF words
<1>6. listed = {SubSeq(words, 2 * i, 2 * i + 1) : i \in 1..n}
  <2>1. {i \in 1..n : 2 * i + 1 <= 2 * n + 1} = 1..n
    BY <1>1
  <2>2. DataOf(reply, data) = data
    BY <1>4 DEF get_all_pools_via_raw_simulate, decode_get_all_pools, DataOf
  <2>3. listed \in {{parse_alkane_id_from_hex(words, i) :
                       i \in {i \in 1..words[1] : 2 * i + 1 <= Len(words)}}}
    BY <1>4, <2>2 DEF get_all_pools_via_raw_simulate, decode_get_all_pools
  <2>4. {i \in 1..words[1] : 2 * i + 1 <= Len(words)} = 1..n
    BY <1>4, <2>1
  <2> QED
    BY <2>3, <2>4 DEF parse_alkane_id_from_hex
<1>7. \A x : x \in listed <=> \E i \in 1..n : x = SubSeq(words, 2 * i, 2 * i + 1)
  BY <1>6
<1>8. \A x : x \in listed <=> \E i \in 1..n : x = ids[i]
  BY <1>5, <1>7
<1>9. \A x : x \in listed <=> x \in Existing
  BY <1>2, <1>3, <1>8
<1> QED
  BY <1>9, Zenon

\* What the refresh keeps of a pool's answer: an error, or the amounts the pool
\* has at the moment.
LEMMA DetailsExact ==
    ASSUME live \in Readings, NEW p \in Pools, NEW reply, NEW data \in PoolData(p),
           NEW details \in get_pool_details_via_raw_simulate(reply, data)
    PROVE  details.amounts = live[p] /\ live[p] \in Amounts
<1>1. DataOf(reply, data) \in PoolData(p) /\ details \in decode_pool_details(DataOf(reply, data))
  BY DEF get_pool_details_via_raw_simulate, DataOf, PoolData
<1> DEFINE d == DataOf(reply, data)
<1>2. Len(d) >= 7 /\ details.amounts = SubSeq(d, 5, 7)
  BY <1>1 DEF decode_pool_details
<1> HIDE DEF d
<1>3. live[p] \in Amounts /\ d = Tokens \o live[p]
  <2>1. d # << >>
    BY <1>2, EmptySeq
  <2> QED
    BY <1>1, <2>1 DEF PoolData, Readings, d
<1>4. /\ Tokens \in Seq(Nat) /\ Len(Tokens) = 4
      /\ live[p] \in Seq(Nat) /\ Len(live[p]) = 3 /\ live[p] \in [1..3 -> Nat]
  <2>1. Tokens \in [1..4 -> Nat] /\ live[p] \in [1..3 -> Nat]
    BY <1>3
  <2>2. Tokens \in Seq(Nat) /\ live[p] \in Seq(Nat)
    <3>1. \A n \in Nat : \A f \in [1..n -> Nat] : f \in Seq(Nat)
      <4>1. \A n \in Nat : \A f \in [1..n -> Nat] : f \in UNION {[1..k -> Nat] : k \in Nat}
        OBVIOUS
      <4>2. Seq(Nat) = UNION {[1..k -> Nat] : k \in Nat}
        BY SeqDef
      <4> QED
        BY <4>1, <4>2, Zenon
    <3> QED
      BY <2>1, <3>1
  <2>3. \A m, n \in Nat : 1..m = 1..n => m = n
    BY FS_Interval
  <2>4. 1..Len(Tokens) = 1..4 /\ 1..Len(live[p]) = 1..3
    BY <2>1, <2>2, LenProperties
  <2>5. Len(Tokens) = 4 /\ Len(live[p]) = 3
    BY <2>2, <2>3, <2>4, LenProperties
  <2> QED
    BY <2>1, <2>2, <2>5
<1>5. d \in Seq(Nat) /\ Len(d) = 7 /\ \A k \in 1..3 : d[k + 4] = live[p][k]
  <2>1. /\ d \in Seq(Nat)
        /\ Len(d) = Len(Tokens) + Len(live[p])
        /\ \A i \in 1..Len(Tokens) + Len(live[p]) :
              d[i] = IF i <= Len(Tokens) THEN Tokens[i] ELSE live[p][i - Len(Tokens)]
    <3> DEFINE a == live[p]
    <3>1. d = Tokens \o a /\ a \in Seq(Nat) /\ Tokens \in Seq(Nat)
      BY <1>3, <1>4
    <3> HIDE DEF a
    <3>2. /\ d \in Seq(Nat)
          /\ Len(d) = Len(Tokens) + Len(a)
          /\ \A i \in 1..Len(Tokens) + Len(a) :
                d[i] = IF i <= Len(Tokens) THEN Tokens[i] ELSE a[i - Len(Tokens)]
      BY <3>1, ConcatProperties
    <3> QED
      BY <3>2 DEF a
  <2>2. ASSUME NEW k \in 1..3 PROVE d[k + 4] = live[p][k]
    <3>1. k + 4 \in 1..Len(Tokens) + Len(live[p]) /\ ~(k + 4 <= Len(Tokens))
      BY <1>4
    <3>2. (k + 4) - Len(Tokens) = k
      BY <1>4
    <3> QED
      BY <2>1, <3>1, <3>2
  <2> QED
    BY <1>4, <2>1, <2>2
<1>6. /\ SubSeq(d, 5, 7) \in Seq(Nat) /\ Len(SubSeq(d, 5, 7)) = 3
      /\ \A k \in 1..3 : SubSeq(d, 5, 7)[k] = d[k + 4]
  <2>1. \A i \in 5..7 : d[i] \in Nat
    <3>1. d \in [1..7 -> Nat]
      BY <1>5, LenProperties
    <3> QED
      BY <3>1
  <2>2. /\ SubSeq(d, 5, 7) \in Seq(Nat)
        /\ Len(SubSeq(d, 5, 7)) = IF 5 <= 7 THEN 7 - 5 + 1 ELSE 0
        /\ \A k \in 1..7 - 5 + 1 : SubSeq(d, 5, 7)[k] = d[5 + k - 1]
    BY <2>1, SubSeqProperties
  <2> QED
    BY <2>2
<1>7. SubSeq(d, 5, 7) = live[p]
  <2>1. /\ Len(SubSeq(d, 5, 7)) = Len(live[p])
        /\ \A k \in 1..Len(SubSeq(d, 5, 7)) : SubSeq(d, 5, 7)[k] = live[p][k]
    BY <1>4, <1>5, <1>6
  <2> QED
    BY <1>4, <1>6, <2>1, SeqEqual, Zenon
<1> QED
  BY <1>2, <1>3, <1>7

-----------------------------------------------------------------------------
(* Types *)

LEMMA NoneFact ==
    /\ None \notin Heights /\ None \notin Nat /\ None \notin Amounts
    /\ 1 \in Heights /\ Heights \subseteq Nat
    /\ Absent \in Readings
    /\ \A p \in Pools : Absent[p] = None
BY DEF Heights, Absent, Readings

LEMMA InitTypes == Init => RefreshTypes
<1> SUFFICES ASSUME Init PROVE RefreshTypes
  OBVIOUS
<1>1. history \in [Heights -> Readings]
  BY NoneFact DEF Init
<1>2. poolState \in [Pools -> [Heights -> Amounts \cup {None}]]
  BY DEF Init
<1> QED
  BY <1>1, <1>2, NoneFact DEF Init, RefreshTypes, Labels

\* The refresh is over, or the process is.
LEMMA ReturnTypes ==
    ASSUME RefreshTypes, Return, pc # "sleep",
           UNCHANGED <<envVars, reorgs, purges, dbVars>>,
           lastblock' \in {target, lastblock}
    PROVE  RefreshTypes'
BY NoneFact DEF RefreshTypes, Return, envVars, dbVars, Labels

LEMMA TypesStep == RefreshTypes /\ [Next]_vars => RefreshTypes'
<1> SUFFICES ASSUME RefreshTypes, [Next]_vars PROVE RefreshTypes'
  OBVIOUS
<1> USE DEF envVars, boundVars, dbVars, runVars
<1>1. CASE UNCHANGED vars
  BY <1>1 DEF vars, RefreshTypes
<1>2. CASE NewBlock
  <2>1. tip + 1 \in Heights /\ live' \in Readings
    BY <1>2 DEF NewBlock, RefreshTypes, Heights
  <2>2. history' \in [Heights -> Readings]
    BY <1>2, <2>1 DEF NewBlock, RefreshTypes
  <2> QED
    BY <1>2, <2>1, <2>2 DEF NewBlock, RefreshTypes
<1>3. CASE Reorg
  <2>1. tip' \in Heights /\ live' \in Readings /\ reorgs' \in Nat
    BY <1>3 DEF Reorg, RefreshTypes, Heights
  <2>2. history' \in [Heights -> Readings]
    BY <1>3, <2>1, NoneFact DEF Reorg, RefreshTypes, Absent, Readings
  <2> QED
    BY <1>3, <2>1, <2>2 DEF Reorg, RefreshTypes
<1>4. ASSUME NEW h \in Heights, PurgeBlock(h) PROVE RefreshTypes'
  <2>1. poolState' \in [Pools -> [Heights -> Amounts \cup {None}]]
    BY <1>4 DEF PurgeBlock, RefreshTypes
  <2> QED
    BY <1>4, <2>1 DEF PurgeBlock, RefreshTypes
<1>5. CASE Tick
  BY <1>5 DEF Tick, CanonicalTip, RefreshTypes, Labels
<1>6. CASE TipDecreased
  BY <1>6 DEF TipDecreased, RefreshTypes
<1>7. CASE ProcessBlocks
  BY <1>7, NoneFact DEF ProcessBlocks, RefreshTypes, Labels
<1>8. CASE Restart
  BY <1>8, NoneFact DEF Restart, RefreshTypes, Labels
<1>9. CASE ListPools
  <2>1. waiting' = Existing
    BY <1>9, ListingExact DEF ListPools
  <2> QED
    BY <1>9, <2>1 DEF ListPools, RefreshTypes, Labels, Existing
<1>10. ASSUME NEW p \in Pools, Details(p) PROVE RefreshTypes'
  <2>1. fetched' = [fetched EXCEPT ![p] = live[p]] /\ live[p] \in Amounts
    BY <1>10, DetailsExact DEF Details, RefreshTypes
  <2>2. fetched' \in Readings
    BY <2>1 DEF RefreshTypes, Readings
  <2> QED
    BY <1>10, <2>2 DEF Details, RefreshTypes
<1>11. ASSUME NEW p \in Pools, DetailsFail(p) PROVE RefreshTypes'
  BY <1>11 DEF DetailsFail, RefreshTypes
<1>12. CASE DetailsDone
  BY <1>12 DEF DetailsDone, AfterDetails, RefreshTypes, Labels
<1>13. CASE InsertNewPools
  BY <1>13 DEF InsertNewPools, Fetched, RefreshTypes, Labels
<1>14. CASE ReadLatest
  <2>1. \A p \in Pools : LatestState(p) \in Amounts \cup {None}
    BY LatestCases, LatestStateFact DEF RefreshTypes, Rows, RowHeights
  <2>2. latest' \in Readings
    BY <1>14, <2>1 DEF ReadLatest, Readings
  <2> QED
    BY <1>14, <2>2 DEF ReadLatest, RefreshTypes, Labels
<1>15. CASE CommitSnapshots
  <2>1. poolState' \in [Pools -> [Heights -> Amounts \cup {None}]]
    BY <1>15 DEF CommitSnapshots, Snapshot, RefreshTypes, Readings
  <2> QED
    BY <1>15, <2>1 DEF CommitSnapshots, RefreshTypes, Labels
<1>16. CASE NotifyPoolsProcessed
  BY <1>16, ReturnTypes DEF NotifyPoolsProcessed
<1>17. CASE RefreshFails
  BY <1>17, ReturnTypes DEF RefreshFails
<1> QED
  BY <1>1, <1>2, <1>3, <1>4, <1>5, <1>6, <1>7, <1>8, <1>9, <1>10, <1>11, <1>12, <1>13,
     <1>14, <1>15, <1>16, <1>17 DEF Next, Poller, Refresh

-----------------------------------------------------------------------------
(* The commit *)

\* A pool's rows are left alone, or get one more at the target height.
LEMMA CommitRows ==
    ASSUME RefreshTypes, CommitSnapshots, NEW p \in Pools
    PROVE  \/ /\ poolState'[p] = poolState[p]
              /\ p \in Fetched => fetched[p] = latest[p] \/ poolState[p][target] # None
           \/ /\ p \in Fetched /\ fetched[p] # latest[p] /\ poolState[p][target] = None
              /\ poolState'[p] = [poolState[p] EXCEPT ![target] = fetched[p]]
<1>1. /\ poolState[p] \in [Heights -> Amounts \cup {None}]
      /\ poolState'[p] = [h \in Heights |-> Snapshot(p, h)]
  BY DEF CommitSnapshots, RefreshTypes
<1>2. CASE p \in Fetched /\ fetched[p] # latest[p] /\ poolState[p][target] = None
  BY <1>1, <1>2 DEF Snapshot
<1>3. CASE ~(p \in Fetched /\ fetched[p] # latest[p] /\ poolState[p][target] = None)
  BY <1>1, <1>3 DEF Snapshot
<1> QED
  BY <1>2, <1>3

LEMMA CommitHeights ==
    ASSUME RefreshTypes, CommitSnapshots, NEW p \in Pools
    PROVE  /\ SnapshotHeights(p) \subseteq SnapshotHeights(p)'
           /\ SnapshotHeights(p)' \subseteq SnapshotHeights(p) \cup {target}
           /\ \A h \in SnapshotHeights(p) : poolState'[p][h] = poolState[p][h]
           /\ target \in Heights
<1>1. target \in Heights /\ poolState[p] \in [Heights -> Amounts \cup {None}]
  BY DEF RefreshTypes, CommitSnapshots
<1>2. p \in Fetched => fetched[p] # None
  BY DEF Fetched
<1> QED
  BY <1>1, <1>2, CommitRows DEF SnapshotHeights

-----------------------------------------------------------------------------
(* The chain *)

LEMMA PresentType == RefreshTypes => Present \in Nat /\ tip \in Nat
BY NoneFact DEF RefreshTypes, Present

\* A step of the poller that stores nothing.
LEMMA ChainKept ==
    ASSUME RefreshTypes, RefreshTypes', ChainInv,
           UNCHANGED <<tip, live, history, reorgs, poolState, lastblock>>,
           Present <= tip => Present <= Present' /\ Present' <= tip
    PROVE  ChainInv'
<1> SUFFICES ASSUME reorgs = 0 PROVE ChainInv'
  BY DEF ChainInv
<1>1. /\ Present \in Nat /\ Present' \in Nat /\ Present <= Present' /\ Present' <= tip
  <2>1. Present' \in Nat
    BY NoneFact DEF RefreshTypes, Present
  <2>2. Present <= tip
    BY DEF ChainInv
  <2> QED
    BY <2>1, <2>2, PresentType
<1>2. lastblock # None => lastblock \in Nat
  BY NoneFact DEF RefreshTypes
<1>3. \A p \in Pools : \A h \in SnapshotHeights(p)' : h \in Nat /\ h \in SnapshotHeights(p)
  BY NoneFact DEF SnapshotHeights
<1>4. lastblock' # None => lastblock' <= Present'
  BY <1>1, <1>2 DEF ChainInv
<1>5. \A p \in Pools : \A h \in SnapshotHeights(p)' : h <= Present'
  BY <1>1, <1>3 DEF ChainInv
<1> QED
  BY <1>1, <1>4, <1>5 DEF ChainInv

LEMMA ChainStep ==
    ASSUME RefreshTypes, RefreshTypes', ChainInv, [Next]_vars
    PROVE  ChainInv'
<1> USE DEF envVars, boundVars, dbVars, runVars
<1>1. CASE UNCHANGED vars
  BY <1>1 DEF vars, ChainInv, Present, SnapshotHeights
<1>2. CASE NewBlock
  <2> SUFFICES ASSUME reorgs = 0 PROVE ChainInv'
    BY <1>2 DEF NewBlock, ChainInv
  <2>1. /\ tip \in Nat /\ tip' = tip + 1 /\ tip' \in Heights /\ 1..tip' = 1..tip \cup {tip'}
        /\ Present \in Nat /\ Present <= tip
    BY <1>2, PresentType DEF NewBlock, RefreshTypes, ChainInv, Heights
  <2>2. history'[tip'] = live' /\ \A g \in 1..tip : history'[g] = history[g]
    BY <1>2, <2>1 DEF NewBlock, RefreshTypes
  <2>3. \A g \in 1..tip' : \A p \in Pools : history'[g][p] # None => live'[p] # None
    BY <1>2, <2>1, <2>2 DEF NewBlock, ChainInv
  <2>4. Present' \in {Present, tip + 1} /\ Present <= Present' /\ Present' <= tip'
    BY <1>2, <2>1 DEF NewBlock, Present
  <2>5. lastblock' # None => lastblock' <= Present'
    BY <1>2, <2>1, <2>4, NoneFact DEF NewBlock, ChainInv, RefreshTypes
  <2>6. \A p \in Pools : \A h \in SnapshotHeights(p)' : h <= Present'
    <3>1. \A p \in Pools : \A h \in SnapshotHeights(p)' : h \in Nat /\ h <= Present
      BY <1>2, NoneFact DEF NewBlock, ChainInv, SnapshotHeights
    <3> QED
      BY <2>1, <2>4, <3>1
  <2> QED
    BY <2>2, <2>3, <2>4, <2>5, <2>6 DEF ChainInv
<1>3. CASE Reorg
  BY <1>3 DEF Reorg, ChainInv, RefreshTypes
<1>4. ASSUME NEW h \in Heights, PurgeBlock(h) PROVE ChainInv'
  <2>1. \A p \in Pools : SnapshotHeights(p)' \subseteq SnapshotHeights(p)
    BY <1>4 DEF PurgeBlock, RefreshTypes, SnapshotHeights
  <2>2. UNCHANGED <<tip, live, history, reorgs, lastblock, Present>>
    BY <1>4 DEF PurgeBlock, Present
  <2> QED
    BY <2>1, <2>2 DEF ChainInv
<1>5. CASE Tick \/ TipDecreased \/ ProcessBlocks \/ Restart
  <2>1. UNCHANGED <<tip, live, history, reorgs, poolState, lastblock>>
    BY <1>5 DEF Tick, TipDecreased, ProcessBlocks, Restart
  <2>2. Present' \in {Present, tip}
    BY <1>5 DEF Tick, TipDecreased, ProcessBlocks, Restart, Present, CanonicalTip
  <2> QED
    BY <2>1, <2>2, ChainKept, PresentType
<1>6. CASE \/ ListPools \/ (\E p \in Pools : Details(p) \/ DetailsFail(p)) \/ DetailsDone
           \/ InsertNewPools \/ ReadLatest \/ RefreshFails
  <2>1. UNCHANGED <<tip, live, history, reorgs, poolState, lastblock, target>>
    BY <1>6 DEF ListPools, Details, DetailsFail, DetailsDone, InsertNewPools, ReadLatest,
                RefreshFails, Return
  <2>2. pc # "sleep" /\ pc' # "sleep"
    BY <1>6 DEF ListPools, Details, DetailsFail, DetailsDone, AfterDetails,
                InsertNewPools, ReadLatest, RefreshFails, Return
  <2> QED
    BY <2>1, <2>2, ChainKept, PresentType DEF Present
<1>7. CASE CommitSnapshots
  <2>1. UNCHANGED <<tip, live, history, reorgs, lastblock>> /\ Present = target /\ Present' = target
    BY <1>7 DEF CommitSnapshots, Present
  <2>2. \A p \in Pools : \A h \in SnapshotHeights(p)' : h \in SnapshotHeights(p) \/ h = target
    BY <1>7, CommitHeights
  <2> QED
    BY <2>1, <2>2, PresentType DEF ChainInv
<1>8. CASE NotifyPoolsProcessed
  <2>1. /\ UNCHANGED <<tip, live, history, reorgs, poolState>>
        /\ Present = target /\ Present' = target /\ lastblock' \in {target, lastblock}
    BY <1>8 DEF NotifyPoolsProcessed, Return, Present
  <2> QED
    BY <2>1, PresentType DEF ChainInv, SnapshotHeights
<1> QED
  BY <1>1, <1>2, <1>3, <1>4, <1>5, <1>6, <1>7, <1>8 DEF Next, Poller, Refresh

-----------------------------------------------------------------------------
(* What a refresh has read *)

\* A height that the chain has keeps its block while no reorganisation happens.
LEMMA BlocksKept ==
    ASSUME RefreshTypes, RefreshTypes', ChainInv, [Next]_vars, reorgs' = 0
    PROVE  /\ reorgs = 0
           /\ tip \in Nat /\ tip' \in Nat /\ tip <= tip'
           /\ \A g \in 1..tip : history'[g] = history[g]
<1>1. tip \in Nat /\ tip' \in Nat
  BY NoneFact DEF RefreshTypes
<1>2. CASE NewBlock
  BY <1>1, <1>2 DEF NewBlock, boundVars, RefreshTypes
<1>3. CASE Reorg
  BY <1>3 DEF Reorg, RefreshTypes
<1>4. CASE ~NewBlock /\ ~Reorg
  <2>1. UNCHANGED <<tip, history, reorgs>>
    BY <1>4 DEF Next, PurgeBlock, Poller, Tick, TipDecreased, ProcessBlocks, Refresh,
                Restart, ListPools, Details, DetailsFail, DetailsDone, InsertNewPools,
                ReadLatest, CommitSnapshots, NotifyPoolsProcessed, RefreshFails, vars,
                envVars, boundVars
  <2> QED
    BY <1>1, <2>1
<1> QED
  BY <1>2, <1>3, <1>4

LEMMA ReadStep ==
    ASSUME RefreshTypes, RefreshTypes', ChainInv, ReadInv, [Next]_vars
    PROVE  ReadInv'
<1> USE DEF envVars, boundVars, dbVars, runVars
<1>1. pc' \in {"sleep", "list", "blocks"} => fetched' = Absent
  BY DEF Next, NewBlock, Reorg, PurgeBlock, Poller, Tick, TipDecreased, ProcessBlocks,
         Refresh, Restart, ListPools, Details, DetailsFail, DetailsDone, AfterDetails,
         InsertNewPools, ReadLatest, CommitSnapshots, NotifyPoolsProcessed, RefreshFails,
         Return, vars, ReadInv
<1> SUFFICES ASSUME reorgs' = 0, pc' # "sleep", NEW p \in Pools, fetched'[p] # None
             PROVE  \E g \in target'..tip' : history'[g][p] = fetched'[p]
  BY <1>1 DEF ReadInv
<1>2. CASE \E q \in Pools : Details(q)
  <2>1. PICK q \in Pools : Details(q)
    BY <1>2
  <2>2. /\ fetched' = [fetched EXCEPT ![q] = live[q]]
        /\ UNCHANGED <<tip, live, history, reorgs, pc, target>> /\ pc # "sleep"
    BY <2>1, DetailsExact DEF Details, RefreshTypes
  <2>3. CASE p = q
    <3>1. fetched'[p] = history[tip][p] /\ target \in Heights /\ tip \in Heights /\ target <= tip
      BY <2>2, <2>3 DEF RefreshTypes, ChainInv, Readings, Present
    <3>2. tip \in target..tip
      BY <3>1, NoneFact
    <3> QED
      BY <2>2, <3>1, <3>2
  <2>4. CASE p # q
    BY <2>2, <2>4 DEF RefreshTypes, Readings, ReadInv
  <2> QED
    BY <2>3, <2>4
<1>3. CASE ~\E q \in Pools : Details(q)
  <2>1. fetched' = fetched /\ target' = target /\ pc # "sleep"
    BY <1>1, <1>3, NoneFact DEF Next, NewBlock, Reorg, PurgeBlock, Poller, Tick,
         TipDecreased, ProcessBlocks, Refresh, Restart, ListPools, DetailsFail, DetailsDone,
         InsertNewPools, ReadLatest, CommitSnapshots, NotifyPoolsProcessed, RefreshFails,
         Return, vars
  <2>2. PICK g \in target..tip : history[g][p] = fetched[p]
    BY <2>1, BlocksKept DEF ReadInv
  <2>3. target \in Heights
    BY <2>1 DEF RefreshTypes
  <2>4. g \in 1..tip /\ g \in target..tip'
    BY <2>2, <2>3, BlocksKept, NoneFact DEF Heights
  <2> QED
    BY <2>1, <2>2, <2>4, BlocksKept
<1> QED
  BY <1>2, <1>3

\* The pools that a refresh without a failed call still has, or has got.
LEMMA CompleteStep ==
    ASSUME RefreshTypes, RefreshTypes', ChainInv, CompleteInv, [Next]_vars
    PROVE  CompleteInv'
<1> USE DEF envVars, boundVars, dbVars, runVars
<1> SUFFICES ASSUME reorgs' = 0, pc' # "sleep", target' \notin failed', NEW p \in Pools,
                    history'[target'][p] # None
             PROVE  /\ pc' = "details" => p \in waiting' \/ fetched'[p] # None
                    /\ pc' \in {"pools", "latest", "commit"} => fetched'[p] # None
  BY DEF CompleteInv
<1>1. CASE pc = "sleep" \/ pc' \in {"list", "notify", "blocks"}
  BY <1>1 DEF Next, NewBlock, Reorg, PurgeBlock, Poller, Tick, TipDecreased, ProcessBlocks,
        Refresh, Restart, ListPools, Details, DetailsFail, DetailsDone, InsertNewPools,
        ReadLatest, CommitSnapshots, NotifyPoolsProcessed, RefreshFails, vars
<1>2. CASE pc # "sleep" /\ pc' \notin {"list", "notify", "blocks"}
  <2>1. target' = target /\ failed \subseteq failed'
    BY <1>2 DEF Next, NewBlock, Reorg, PurgeBlock, Poller, Tick, TipDecreased, ProcessBlocks,
        Refresh, Restart, ListPools, Details, DetailsFail, DetailsDone, InsertNewPools,
        ReadLatest, CommitSnapshots, NotifyPoolsProcessed, RefreshFails, Return, vars
  <2>2. target \in 1..tip /\ history[target][p] # None
    <3>1. target \in Heights /\ target <= tip /\ tip \in Heights
      BY <1>2, BlocksKept DEF RefreshTypes, ChainInv, Present
    <3>2. target \in 1..tip
      BY <3>1 DEF Heights
    <3> QED
      BY <2>1, <3>2, BlocksKept
  <2>3. /\ pc = "details" => p \in waiting \/ fetched[p] # None
        /\ pc \in {"pools", "latest", "commit"} => fetched[p] # None
    BY <1>2, <2>1, <2>2, BlocksKept DEF CompleteInv
  <2>4. CASE ListPools
    <3>1. waiting' = Existing /\ pc' = "details"
      BY <2>4, ListingExact DEF ListPools
    <3> QED
      BY <2>2, <3>1, BlocksKept DEF ChainInv, Existing
  <2>5. ASSUME NEW q \in Pools, Details(q)
        PROVE  pc' = "details" /\ (p \in waiting' \/ fetched'[p] # None)
    <3>1. /\ fetched' = [fetched EXCEPT ![q] = live[q]] /\ live[q] # None
          /\ waiting' = waiting \ {q} /\ pc = "details" /\ pc' = "details"
      <4>1. fetched' = [fetched EXCEPT ![q] = live[q]] /\ live[q] \in Amounts
        BY <2>5, DetailsExact DEF Details, RefreshTypes
      <4> QED
        BY <2>5, <4>1, NoneFact DEF Details
    <3>2. fetched'[p] = IF p = q THEN live[q] ELSE fetched[p]
      BY <3>1 DEF RefreshTypes, Readings
    <3> QED
      BY <2>3, <3>1, <3>2
  <2>6. CASE DetailsDone
    BY <2>3, <2>6 DEF DetailsDone, AfterDetails
  <2>7. CASE (\E q \in Pools : DetailsFail(q)) \/ RefreshFails
    BY <2>1, <2>7 DEF DetailsFail, RefreshFails
  <2>8. CASE InsertNewPools \/ ReadLatest
    BY <2>3, <2>8 DEF InsertNewPools, ReadLatest
  <2>9. CASE NewBlock \/ Reorg \/ (\E h \in Heights : PurgeBlock(h)) \/ UNCHANGED vars
    BY <2>3, <2>9 DEF NewBlock, Reorg, PurgeBlock, vars
  <2>10. CASE \/ Tick \/ TipDecreased \/ CommitSnapshots \/ NotifyPoolsProcessed
              \/ ProcessBlocks \/ Restart
    BY <1>2, <2>10 DEF Tick, TipDecreased, CommitSnapshots, NotifyPoolsProcessed, Return,
                       ProcessBlocks, Restart
  <2> QED
    BY <2>4, <2>5, <2>6, <2>7, <2>8, <2>9, <2>10 DEF Next, Poller, Refresh
<1> QED
  BY <1>1, <1>2

-----------------------------------------------------------------------------
(* What is stored *)

\* Only a commit and a purge write the tables.
LEMMA TablesKept ==
    ASSUME RefreshTypes, [Next]_vars, purges' = 0
    PROVE  purges = 0 /\ (CommitSnapshots \/ UNCHANGED <<poolTable, poolState>>)
<1> USE DEF envVars, boundVars, dbVars, runVars
<1>1. ASSUME NEW h \in Heights, PurgeBlock(h) PROVE FALSE
  BY <1>1 DEF PurgeBlock, RefreshTypes
<1> QED
  BY <1>1 DEF Next, NewBlock, Reorg, Poller, Tick, TipDecreased, ProcessBlocks, Refresh,
       Restart, ListPools, Details, DetailsFail, DetailsDone, InsertNewPools, ReadLatest,
       CommitSnapshots, NotifyPoolsProcessed, RefreshFails, vars

LEMMA SameRows ==
    ASSUME poolState' = poolState, NEW p
    PROVE  SnapshotHeights(p)' = SnapshotHeights(p) /\ LatestState(p)' = LatestState(p)
BY DEF SnapshotHeights, LatestState

LEMMA TransactionStep ==
    ASSUME RefreshTypes, RefreshTypes', TransactionInv, [Next]_vars
    PROVE  TransactionInv'
<1> USE DEF envVars, boundVars, dbVars, runVars
<1>1. CASE InsertNewPools
  BY <1>1 DEF InsertNewPools, TransactionInv, Fetched
<1>2. CASE ReadLatest
  <2>1. /\ UNCHANGED <<poolState, poolTable, fetched, known>> /\ pc = "latest" /\ pc' = "commit"
        /\ \A p \in Fetched : latest'[p] = LatestState(p)
    BY <1>2 DEF ReadLatest, Fetched
  <2>2. Fetched' = Fetched
    BY <2>1 DEF Fetched
  <2> QED
    BY <2>1, <2>2, SameRows DEF TransactionInv
<1>3. CASE NewBlock \/ Reorg \/ UNCHANGED vars
  <2>1. UNCHANGED <<poolState, poolTable, fetched, known, latest, pc, purges>>
    BY <1>3 DEF NewBlock, Reorg, vars
  <2>2. Fetched' = Fetched
    BY <2>1 DEF Fetched
  <2> QED
    BY <2>1, <2>2, SameRows DEF TransactionInv
<1>4. ASSUME NEW h \in Heights, PurgeBlock(h) PROVE TransactionInv'
  BY <1>4 DEF PurgeBlock, TransactionInv, Fetched, RefreshTypes
<1>5. CASE ~(\/ InsertNewPools \/ ReadLatest \/ NewBlock \/ Reorg \/ UNCHANGED vars
             \/ \E h \in Heights : PurgeBlock(h))
  <2>1. pc' \notin {"latest", "commit"}
    BY <1>5 DEF Next, Poller, Tick, TipDecreased, ProcessBlocks, Refresh, Restart, ListPools,
         Details, DetailsFail, DetailsDone, AfterDetails, CommitSnapshots,
         NotifyPoolsProcessed, RefreshFails, Return
  <2> QED
    BY <2>1 DEF TransactionInv
<1> QED
  BY <1>1, <1>2, <1>3, <1>4, <1>5

\* A row at the greatest height is the latest state.
LEMMA LatestTop ==
    ASSUME RefreshTypes, NEW p \in Pools, NEW m \in SnapshotHeights(p),
           \A g \in SnapshotHeights(p) : g <= m
    PROVE  LatestState(p) = poolState[p][m]
<1>1. poolState[p] \in Rows
  BY DEF RefreshTypes, Rows
<1> QED
  BY <1>1, LatestStateFact, LatestAt

\* What a commit leaves of a pool whose details came in: a latest snapshot, equal
\* to the details unless the target height had its row before.
LEMMA CommitLatest ==
    ASSUME RefreshTypes, RefreshTypes', ChainInv, TransactionInv, CommitSnapshots,
           Undisturbed, NEW p \in Fetched
    PROVE  /\ p \in poolTable'
           /\ \/ LatestState(p)' = fetched[p]
              \/ /\ target \in SnapshotHeights(p)
                 /\ poolState'[p] = poolState[p]
                 /\ LatestState(p)' = poolState[p][target]
<1>1. /\ p \in Pools /\ poolState[p] \in Rows /\ poolState'[p] \in Rows
      /\ target \in Heights /\ target \in Nat /\ fetched[p] \in Amounts /\ fetched[p] # None
  BY NoneFact DEF CommitSnapshots, RefreshTypes, Rows, Fetched, Readings
<1>2. known = poolTable \cup Fetched /\ latest[p] = LatestState(p)
  BY DEF TransactionInv, CommitSnapshots, Undisturbed
<1>3. p \in poolTable'
  BY <1>2 DEF CommitSnapshots
<1>4. \A h \in SnapshotHeights(p) : h \in Nat /\ h <= target
  BY <1>1, NoneFact DEF ChainInv, Undisturbed, Present, CommitSnapshots, SnapshotHeights
<1>5. CASE poolState'[p] = poolState[p] /\ fetched[p] = latest[p]
  BY <1>2, <1>3, <1>5, LatestStateFact DEF LatestState, SnapshotHeights
<1>6. CASE poolState'[p] = poolState[p] /\ poolState[p][target] # None
  <2>1. target \in SnapshotHeights(p)
    BY <1>1, <1>6 DEF SnapshotHeights
  <2>2. LatestState(p) = poolState[p][target]
    BY <1>1, <1>4, <2>1, LatestTop
  <2>3. LatestState(p)' = LatestState(p)
    BY <1>6 DEF LatestState, SnapshotHeights
  <2> QED
    BY <1>3, <1>6, <2>1, <2>2, <2>3
<1>7. CASE poolState'[p] = [poolState[p] EXCEPT ![target] = fetched[p]]
  <2>1. /\ poolState'[p][target] = fetched[p]
        /\ RowHeights(poolState'[p]) = SnapshotHeights(p) \cup {target}
    BY <1>1, <1>7 DEF Rows, RowHeights, SnapshotHeights
  <2>2. target \in RowHeights(poolState'[p]) /\ \A g \in RowHeights(poolState'[p]) : g <= target
    BY <1>1, <1>4, <2>1
  <2>3. LatestOf(poolState'[p]) = fetched[p]
    BY <1>1, <2>1, <2>2, LatestAt
  <2>4. LatestState(p)' = LatestOf(poolState'[p])
    BY DEF LatestState, SnapshotHeights, LatestOf, RowHeights
  <2> QED
    BY <1>3, <2>3, <2>4
<1> QED
  BY <1>1, <1>5, <1>6, <1>7, CommitRows

LEMMA SnapshotStep ==
    ASSUME RefreshTypes, RefreshTypes', TransactionInv, PoolHasSnapshot, [Next]_vars
    PROVE  PoolHasSnapshot'
<1> SUFFICES ASSUME purges' = 0, NEW p \in poolTable' PROVE SnapshotHeights(p)' # {}
  BY DEF PoolHasSnapshot
<1>1. CASE UNCHANGED <<poolTable, poolState>>
  BY <1>1, TablesKept, SameRows DEF PoolHasSnapshot
<1>2. CASE CommitSnapshots
  <2>1. p \in Pools /\ p \in poolTable \cup Fetched
    BY <1>2 DEF CommitSnapshots, TransactionInv, RefreshTypes, Fetched
  <2>2. CASE p \in poolTable
    BY <1>2, <2>1, <2>2, TablesKept, CommitHeights DEF PoolHasSnapshot
  <2>3. CASE p \in Fetched
    <3>1. /\ fetched[p] # None /\ latest[p] = LatestState(p)
          /\ target \in Heights /\ poolState[p] \in Rows
      BY <1>2, <2>1, <2>3, TablesKept DEF Fetched, TransactionInv, CommitSnapshots,
         RefreshTypes, Rows
    <3>2. CASE fetched[p] = latest[p]
      <4>1. SnapshotHeights(p) # {}
        BY <3>1, <3>2 DEF LatestState
      <4> QED
        BY <1>2, <2>1, <4>1, CommitHeights
    <3>3. CASE fetched[p] # latest[p]
      <4>1. poolState'[p][target] # None
        BY <1>2, <2>1, <2>3, <3>1, <3>3, CommitRows DEF Rows
      <4> QED
        BY <3>1, <4>1 DEF SnapshotHeights
    <3> QED
      BY <3>2, <3>3
  <2> QED
    BY <2>1, <2>2, <2>3
<1> QED
  BY <1>1, <1>2, TablesKept

\* A new row differs from the one before it, because it is compared with it.
LEMMA ChangesStep ==
    ASSUME RefreshTypes, RefreshTypes', ChainInv, TransactionInv, SnapshotsAreChanges,
           [Next]_vars
    PROVE  SnapshotsAreChanges'
<1> SUFFICES ASSUME Undisturbed', NEW p \in Pools,
                    NEW h1 \in SnapshotHeights(p)', NEW h2 \in SnapshotHeights(p)',
                    h1 < h2,
                    \A g \in SnapshotHeights(p)' : g <= h1 \/ g >= h2
             PROVE  poolState'[p][h1] # poolState'[p][h2]
  BY DEF SnapshotsAreChanges
<1>1. Undisturbed
  BY BlocksKept, TablesKept DEF Undisturbed
<1>2. CASE poolState'[p] = poolState[p]
  <2>1. SnapshotHeights(p)' = SnapshotHeights(p)
    BY <1>2 DEF SnapshotHeights
  <2> QED
    BY <1>1, <1>2, <2>1 DEF SnapshotsAreChanges
<1>3. CASE CommitSnapshots /\ poolState'[p] # poolState[p]
  <2>1. /\ p \in Fetched /\ fetched[p] # latest[p] /\ poolState[p][target] = None
        /\ poolState'[p] = [poolState[p] EXCEPT ![target] = fetched[p]]
    BY <1>3, CommitRows
  <2>2. latest[p] = LatestState(p)
    BY <1>1, <1>3, <2>1 DEF TransactionInv, CommitSnapshots, Undisturbed
  <2>3. /\ target \in Heights /\ target \in Nat /\ target \notin SnapshotHeights(p)
        /\ h1 \in Nat /\ h2 \in Nat
        /\ \A h \in SnapshotHeights(p) : h \in Nat /\ h <= target /\ h # target
    BY <1>1, <1>3, <2>1, NoneFact DEF RefreshTypes, CommitSnapshots, SnapshotHeights,
       ChainInv, Present, Undisturbed
  <2>4. h1 \in SnapshotHeights(p) /\ poolState'[p][h1] = poolState[p][h1]
    BY <1>3, <2>3, CommitHeights
  <2>5. CASE h2 \in SnapshotHeights(p)
    <3>1. poolState'[p][h2] = poolState[p][h2]
      BY <1>3, <2>5, CommitHeights
    <3>2. \A g \in SnapshotHeights(p) : g <= h1 \/ g >= h2
      BY <1>3, CommitHeights
    <3> QED
      BY <1>1, <2>4, <2>5, <3>1, <3>2 DEF SnapshotsAreChanges
  <2>6. CASE h2 = target
    <3>1. \A g \in SnapshotHeights(p) : g <= h1
      BY <1>3, <2>3, <2>6, CommitHeights
    <3>2. LatestState(p) = poolState[p][h1]
      BY <2>4, <3>1, LatestTop
    <3>3. poolState'[p][target] = fetched[p]
      BY <2>1, <2>3 DEF RefreshTypes
    <3> QED
      BY <2>1, <2>2, <2>4, <2>6, <3>2, <3>3
  <2> QED
    BY <1>3, <2>5, <2>6, CommitHeights
<1> QED
  BY <1>2, <1>3, TablesKept DEF Undisturbed

LEMMA NotOlderStep ==
    ASSUME RefreshTypes, RefreshTypes', ChainInv, ReadInv, SnapshotsNotOlder, [Next]_vars
    PROVE  SnapshotsNotOlder'
<1> SUFFICES ASSUME Undisturbed', NEW p \in Pools, NEW h \in SnapshotHeights(p)'
             PROVE  \E g \in h..tip' : history'[g][p] = poolState'[p][h]
  BY DEF SnapshotsNotOlder
<1>1. Undisturbed
  BY BlocksKept, TablesKept DEF Undisturbed
<1>2. h \in Heights /\ h \in Nat
  BY NoneFact DEF SnapshotHeights
<1>3. \E g \in h..tip : history[g][p] = poolState'[p][h]
  <2>1. CASE h \in SnapshotHeights(p) /\ poolState'[p][h] = poolState[p][h]
    BY <1>1, <2>1 DEF SnapshotsNotOlder
  <2>2. CASE CommitSnapshots /\ h \notin SnapshotHeights(p)
    <3>1. h = target
      BY <2>2, CommitHeights
    <3>2. p \in Fetched /\ poolState'[p][h] = fetched[p]
      BY <1>2, <2>2, <3>1, CommitRows DEF RefreshTypes, SnapshotHeights
    <3> QED
      BY <1>1, <2>2, <3>1, <3>2 DEF ReadInv, CommitSnapshots, Fetched, Undisturbed
  <2>3. CASE CommitSnapshots /\ h \in SnapshotHeights(p)
    BY <2>1, <2>3, CommitHeights
  <2>4. CASE UNCHANGED <<poolTable, poolState>>
    BY <2>1, <2>4, SameRows
  <2> QED
    BY <2>2, <2>3, <2>4, TablesKept DEF Undisturbed
<1>4. PICK g \in h..tip : history[g][p] = poolState'[p][h]
  BY <1>3
<1>5. g \in h..tip' /\ g \in 1..tip
  BY <1>2, BlocksKept DEF Undisturbed, Heights
<1> QED
  BY <1>4, <1>5, BlocksKept DEF Undisturbed

\* Heights of the chain stay stored while the tables are left alone.
LEMMA StoredKept ==
    ASSUME RefreshTypes, RefreshTypes', ChainInv, [Next]_vars, Undisturbed',
           UNCHANGED <<poolTable, poolState>>, NEW h \in 1..tip, Stored(h)
    PROVE  Stored(h)'
<1> SUFFICES ASSUME NEW p \in Pools, history'[h][p] # None
             PROVE  p \in poolTable' /\ \E g \in h..tip' : history'[g][p] = LatestState(p)'
  BY DEF Stored
<1>1. /\ tip \in Nat /\ tip' \in Nat /\ tip <= tip'
      /\ \A g \in 1..tip : history'[g] = history[g]
  BY BlocksKept DEF Undisturbed
<1>2. p \in poolTable
  BY <1>1 DEF Stored
<1>3. PICK g \in h..tip : history[g][p] = LatestState(p)
  BY <1>1 DEF Stored
<1>4. g \in 1..tip /\ g \in h..tip'
  BY <1>1
<1> QED
  BY <1>1, <1>2, <1>3, <1>4, SameRows

\* After a commit the latest snapshot of a fetched pool is not older than the target.
LEMMA CommitNotOlder ==
    ASSUME RefreshTypes, RefreshTypes', ChainInv, ReadInv, TransactionInv,
           SnapshotsNotOlder, CommitSnapshots, Undisturbed, NEW p \in Fetched
    PROVE  \E g \in target..tip : history[g][p] = LatestState(p)'
<1>1. p \in Pools /\ fetched[p] # None /\ pc # "sleep" /\ reorgs = 0
  BY DEF Fetched, CommitSnapshots, Undisturbed
<1>2. CASE LatestState(p)' = fetched[p]
  BY <1>1, <1>2 DEF ReadInv
<1>3. CASE target \in SnapshotHeights(p) /\ LatestState(p)' = poolState[p][target]
  BY <1>1, <1>3 DEF SnapshotsNotOlder
<1> QED
  BY <1>2, <1>3, CommitLatest

LEMMA CommittedStep ==
    ASSUME RefreshTypes, RefreshTypes', ChainInv, ReadInv, CompleteInv, TransactionInv,
           SnapshotsNotOlder, CommittedInv, [Next]_vars
    PROVE  CommittedInv'
<1> USE DEF envVars, boundVars, dbVars, runVars
<1> SUFFICES ASSUME Undisturbed', pc' = "notify", target' \notin failed' PROVE Stored(target)'
  BY DEF CommittedInv, Stored
<1>1. Undisturbed
  BY BlocksKept, TablesKept DEF Undisturbed
<1>2. CASE CommitSnapshots
  <2>1. UNCHANGED <<tip, history, target, failed>> /\ pc = "commit"
    BY <1>2 DEF CommitSnapshots
  <2>2. ASSUME NEW p \in Pools, history[target][p] # None
        PROVE  p \in poolTable' /\ \E g \in target..tip : history[g][p] = LatestState(p)'
    <3>1. p \in Fetched
      BY <1>1, <2>1, <2>2 DEF CompleteInv, Fetched, Undisturbed
    <3> QED
      BY <1>1, <1>2, <3>1, CommitLatest, CommitNotOlder
  <2> QED
    BY <2>1, <2>2 DEF Stored
<1>3. CASE DetailsDone
  <2>1. /\ UNCHANGED <<tip, history, target, failed>>
        /\ pc = "details" /\ waiting = {} /\ Fetched = {}
    BY <1>3 DEF DetailsDone, AfterDetails
  <2>2. \A p \in Pools : history[target][p] = None
    BY <1>1, <2>1 DEF CompleteInv, Fetched, Undisturbed
  <2> QED
    BY <2>1, <2>2 DEF Stored
<1>4. CASE ~CommitSnapshots /\ ~DetailsDone
  <2>1. pc = "notify" /\ target' = target /\ failed \subseteq failed'
    BY <1>4 DEF Next, NewBlock, Reorg, PurgeBlock, Poller, Tick, TipDecreased, ProcessBlocks,
        Refresh, Restart, ListPools, Details, DetailsFail, InsertNewPools, ReadLatest,
        NotifyPoolsProcessed, RefreshFails, Return, vars
  <2>2. PICK h \in 1..tip : h = target /\ Stored(h)
    <3>1. target \in Heights /\ tip \in Heights /\ target <= tip
      BY <1>1, <2>1 DEF RefreshTypes, ChainInv, Present, Undisturbed
    <3>2. target \in 1..tip
      BY <3>1 DEF Heights
    <3> QED
      BY <1>1, <2>1, <3>2 DEF CommittedInv, Stored
  <2>3. UNCHANGED <<poolTable, poolState>>
    BY <1>4, TablesKept DEF Undisturbed
  <2>4. Stored(h)'
    BY <2>2, <2>3, StoredKept
  <2> QED
    BY <2>1, <2>2, <2>4 DEF Stored
<1> QED
  BY <1>2, <1>3, <1>4

LEMMA NotifiedStep ==
    ASSUME RefreshTypes, RefreshTypes', ChainInv, ReadInv, TransactionInv,
           SnapshotsNotOlder, CommittedInv, NotifiedIsStored, [Next]_vars
    PROVE  NotifiedIsStored'
<1> USE DEF envVars, boundVars, dbVars, runVars
<1> SUFFICES ASSUME Undisturbed', lastblock' \in Heights \ failed' PROVE Stored(lastblock)'
  BY DEF NotifiedIsStored, Stored
<1>1. Undisturbed
  BY BlocksKept, TablesKept DEF Undisturbed
<1>2. failed \subseteq failed'
  BY DEF Next, NewBlock, Reorg, PurgeBlock, Poller, Tick, TipDecreased, ProcessBlocks,
      Refresh, Restart, ListPools, Details, DetailsFail, DetailsDone, InsertNewPools,
      ReadLatest, CommitSnapshots, NotifyPoolsProcessed, RefreshFails, vars
<1>3. CASE NotifyPoolsProcessed /\ lastblock' = target
  <2>1. pc = "notify" /\ UNCHANGED <<poolTable, poolState, failed>>
    BY <1>3 DEF NotifyPoolsProcessed
  <2>2. PICK h \in 1..tip : h = target /\ Stored(h)
    <3>1. target \in Heights /\ tip \in Heights /\ target <= tip
      BY <1>1, <2>1 DEF RefreshTypes, ChainInv, Present, Undisturbed
    <3>2. target \in 1..tip
      BY <3>1 DEF Heights
    <3> QED
      BY <1>1, <1>3, <2>1, <3>2 DEF CommittedInv, Stored
  <2>3. Stored(h)'
    BY <2>1, <2>2, StoredKept
  <2> QED
    BY <1>3, <2>2, <2>3 DEF Stored
<1>4. CASE lastblock' = lastblock
  <2>1. /\ lastblock \in Heights /\ lastblock \in 1..tip /\ Stored(lastblock)
        /\ lastblock <= Present /\ Present <= tip /\ Present \in Nat /\ tip \in Nat
    <3>1. lastblock \in Heights /\ lastblock \notin failed
      BY <1>2, <1>4
    <3>2. lastblock <= Present /\ Present <= tip /\ Present \in Nat /\ tip \in Nat
      BY <1>1, <3>1, NoneFact, PresentType DEF ChainInv, Undisturbed
    <3> QED
      <4>1. lastblock \in 1..tip
        BY <3>1, <3>2 DEF Heights
      <4>2. Stored(lastblock)
        BY <1>1, <3>1 DEF NotifiedIsStored, Stored
      <4> QED
        BY <3>1, <3>2, <4>1, <4>2
  <2>2. CASE UNCHANGED <<poolTable, poolState>>
    <3>1. PICK h \in 1..tip : h = lastblock /\ Stored(h)
      BY <2>1 DEF Stored
    <3>2. Stored(h)'
      BY <2>2, <3>1, StoredKept
    <3> QED
      BY <1>4, <3>1, <3>2 DEF Stored
  <2>3. CASE CommitSnapshots
    <3>1. UNCHANGED <<tip, history, target>> /\ Present = target
      BY <2>3 DEF CommitSnapshots, Present
    <3>2. ASSUME NEW p \in Pools, history[lastblock][p] # None
          PROVE  /\ p \in poolTable'
                 /\ \E g \in lastblock..tip : history[g][p] = LatestState(p)'
      <4>1. p \in poolTable'
        BY <2>1, <2>3, <3>2 DEF Stored, CommitSnapshots
      <4>2. CASE p \in Fetched
        <5>1. PICK g \in target..tip : history[g][p] = LatestState(p)'
          BY <1>1, <2>3, <4>2, CommitNotOlder
        <5>2. g \in lastblock..tip
          BY <2>1, <3>1, <5>1
        <5> QED
          BY <4>1, <5>1, <5>2
      <4>3. CASE p \notin Fetched
        <5>1. LatestState(p)' = LatestState(p)
          <6>1. poolState'[p] = poolState[p]
            BY <2>3, <4>3, CommitRows
          <6> QED
            BY <6>1 DEF LatestState, SnapshotHeights
        <5> QED
          BY <2>1, <3>2, <4>1, <5>1 DEF Stored
      <4> QED
        BY <4>2, <4>3
    <3> QED
      BY <1>4, <3>1, <3>2 DEF Stored
  <2> QED
    BY <2>2, <2>3, TablesKept DEF Undisturbed
<1>5. \/ NotifyPoolsProcessed /\ lastblock' = target
      \/ lastblock' = lastblock
  BY DEF Next, NewBlock, Reorg, PurgeBlock, Poller, Tick, TipDecreased, ProcessBlocks,
      Refresh, Restart, ListPools, Details, DetailsFail, DetailsDone, InsertNewPools,
      ReadLatest, CommitSnapshots, NotifyPoolsProcessed, RefreshFails, vars
<1> QED
  BY <1>3, <1>4, <1>5

-----------------------------------------------------------------------------
(* The theorems *)

LEMMA InitRefresh == Init => RefreshInv
<1> SUFFICES ASSUME Init PROVE RefreshInv
  OBVIOUS
<1>1. RefreshTypes
  BY InitTypes
<1>2. \A p \in Pools : SnapshotHeights(p) = {}
  BY DEF Init, SnapshotHeights
<1>3. ChainInv
  <2>1. 1..tip = {1} /\ Present = 1 /\ tip = 1
    BY DEF Init, Present
  <2>2. history[1] = live
    BY NoneFact DEF Init
  <2> QED
    BY <1>2, <2>1, <2>2 DEF ChainInv, Init
<1>4. ReadInv /\ CompleteInv /\ TransactionInv /\ CommittedInv
  BY DEF Init, ReadInv, CompleteInv, TransactionInv, CommittedInv
<1>5. PoolHasSnapshot /\ SnapshotsAreChanges /\ SnapshotsNotOlder /\ NotifiedIsStored
  BY <1>2, NoneFact DEF Init, PoolHasSnapshot, SnapshotsAreChanges, SnapshotsNotOlder,
     NotifiedIsStored
<1> QED
  BY <1>1, <1>3, <1>4, <1>5 DEF RefreshInv

LEMMA RefreshStep == RefreshInv /\ [Next]_vars => RefreshInv'
BY TypesStep, ChainStep, ReadStep, CompleteStep, TransactionStep, CommittedStep,
   SnapshotStep, ChangesStep, NotOlderStep, NotifiedStep DEF RefreshInv

\* For any finite set of pools, any amounts, and any interleaving of blocks,
\* reorganisations, failures and restarts with a refresh: Pool never has a row
\* without a PoolState row, until somebody purges a block.
\* (fetch_and_upsert_pools_for_tip, db/pool_state.rs)
THEOREM PoolsHaveSnapshots == Spec => []PoolHasSnapshot
BY InitRefresh, RefreshStep, PTL DEF Spec, RefreshInv

\* However often a tip is refreshed, and whatever the simulation answers each
\* time, neighbouring snapshots of a pool differ.
THEOREM SnapshotsRecordChanges == Spec => []SnapshotsAreChanges
BY InitRefresh, RefreshStep, PTL DEF Spec, RefreshInv

\* A snapshot holds amounts that the pool had at the height it carries, or later.
THEOREM SnapshotsNeverStale == Spec => []SnapshotsNotOlder
BY InitRefresh, RefreshStep, PTL DEF Spec, RefreshInv

\* The height in Redis is a promise: every pool of that height is stored, with
\* amounts no older, unless a call of that refresh failed.
THEOREM NotificationKept == Spec => []NotifiedIsStored
BY InitRefresh, RefreshStep, PTL DEF Spec, RefreshInv
=============================================================================
