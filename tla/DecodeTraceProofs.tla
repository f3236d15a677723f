------------------------- MODULE DecodeTraceProofs ---------------------------
(***************************************************************************)
(* Proofs about the fetch, decode and trace stage, for any number of       *)
(* transactions, protostones and batches, any window and any retries.      *)
(***************************************************************************)
EXTENDS DecodeTrace, FiniteSetTheorems, SequenceTheorems, TLAPS

Results == [tx : Txs, traced : SUBSET Nat, skipped : SUBSET Nat, opaque : SUBSET Nat]
Stages == {"list", "fetch", "decode", "ok", "error"}
Labels == {"next", "hex", "trace", "returned"}

DecodeTypes ==
    /\ kind \in [Txs -> Kinds]
    /\ stones \in [Txs -> Nat]
    /\ stage \in Stages
    /\ txids \subseteq Txs
    /\ fetched \in Seq(Txs)
    /\ batches \in Seq(Seq(Txs))
    /\ pos \in [Batches -> Nat]
    /\ step \in [Batches -> Labels]
    /\ traced \in [Batches -> SUBSET Nat]
    /\ skipped \in [Batches -> SUBSET Nat]
    /\ opaque \in [Batches -> SUBSET Nat]
    /\ results \in Seq(Results)
    /\ fatal_err \in BOOLEAN

\* No transaction is fetched twice, and every one was listed.
FetchInv ==
    /\ \A i, j \in 1..Len(fetched) : fetched[i] = fetched[j] => i = j
    /\ \A i \in 1..Len(fetched) : fetched[i] \in txids
    /\ stage = "list" => fetched = <<>>

\* Before the batches begin they have done nothing.
IdleInv ==
    stage \in {"list", "fetch"} =>
        /\ batches = <<>> /\ results = <<>> /\ ~fatal_err
        /\ pos = [b \in Batches |-> 0]
        /\ step = [b \in Batches |-> "returned"]

\* Every selected transaction has one place in one batch, and there is a worker
\* for every batch.
PlaceInv ==
    /\ Len(batches) <= MaxBatches
    /\ \A b \in 1..Len(batches) : \A p \in 1..Len(batches[b]) :
          batches[b][p] \in txids /\ Selected(batches[b][p])
    /\ \A b, c \in 1..Len(batches) :
          \A p \in 1..Len(batches[b]), q \in 1..Len(batches[c]) :
              batches[b][p] = batches[c][q] => b = c /\ p = q
    /\ stage \in {"decode", "ok"} =>
          \A t \in txids : Selected(t) =>
              \E b \in 1..Len(batches) : \E p \in 1..Len(batches[b]) : batches[b][p] = t

\* Where a batch is in its list.
PosInv ==
    /\ \A b \in Batches :
        /\ step[b] # "returned" => b \in 1..Len(batches) /\ stage = "decode"
        /\ b \in 1..Len(batches) => pos[b] \in 0..Len(batches[b])
        /\ step[b] \in {"hex", "trace"} => pos[b] \in 1..Len(batches[b])
        /\ step[b] = "trace" => kind[Tx(b)] = "stones"
        /\ /\ stage = "decode" /\ ~fatal_err /\ step[b] = "returned"
           /\ b \in 1..Len(batches)
           => pos[b] = Len(batches[b])
    /\ stage = "ok" => \A b \in 1..Len(batches) : pos[b] = Len(batches[b])

\* The batch is through with its p-th transaction.
Passed(b, p) == p <= pos[b] /\ (p = pos[b] => step[b] \notin {"hex", "trace"})

\* The results are those of the transactions the batches are through with.
ResultInv ==
    /\ \A i \in 1..Len(results) :
        /\ kind[results[i].tx] = "stones"
        /\ \E b \in 1..Len(batches) : \E p \in 1..Len(batches[b]) :
              Passed(b, p) /\ results[i].tx = batches[b][p]
    /\ \A i, j \in 1..Len(results) : results[i].tx = results[j].tx => i = j
    /\ ~fatal_err =>
          \A b \in 1..Len(batches) : \A p \in 1..Len(batches[b]) :
              Passed(b, p) /\ kind[batches[b][p]] = "stones" =>
                  \E i \in 1..Len(results) : results[i].tx = batches[b][p]
    /\ stage = "ok" => ~fatal_err

\* The protostones of the transaction in hand are traced or skipped in order.
StoneInv ==
    /\ \A b \in Batches :
        /\ step[b] # "trace" => traced[b] = {} /\ skipped[b] = {}
        /\ step[b] = "trace" =>
              \E n \in 0..stones[Tx(b)] : traced[b] \cup skipped[b] = 1..n
        /\ traced[b] \cap skipped[b] = {}
        /\ opaque[b] \subseteq traced[b]
    /\ \A i \in 1..Len(results) :
        /\ results[i].traced \cup results[i].skipped = 1..stones[results[i].tx]
        /\ results[i].traced \cap results[i].skipped = {}
        /\ results[i].opaque \subseteq results[i].traced

DecodeInv == DecodeTypes /\ FetchInv /\ IdleInv /\ PlaceInv /\ PosInv /\ ResultInv /\ StoneInv

-----------------------------------------------------------------------------
(* The filter and the batches *)

\* The elements of a finite set of numbers have the ranks 1, 2, ...
LEMMA RanksExact ==
    ASSUME NEW keep \in SUBSET Nat, IsFiniteSet(keep)
    PROVE  /\ Cardinality(keep) \in Nat
           /\ \A k \in 1..Cardinality(keep) :
                 \E i \in keep : Cardinality({j \in keep : j <= i}) = k
           /\ \A i \in keep : Cardinality({j \in keep : j <= i}) \in 1..Cardinality(keep)
           /\ \A i, l \in keep :
                 Cardinality({j \in keep : j <= i}) = Cardinality({j \in keep : j <= l}) => i = l
  <1> DEFINE below(i) == {j \in keep : j <= i}
             rank == [i \in keep |-> Cardinality(below(i))]
  <1>0. Cardinality(keep) \in Nat
    BY FS_CardinalityType
  <1>1. ASSUME NEW i \in keep
        PROVE  /\ IsFiniteSet(below(i))
               /\ Cardinality(below(i)) \in 1..Cardinality(keep)
    <2>1. below(i) \in SUBSET keep
      OBVIOUS
    <2>2. IsFiniteSet(below(i)) /\ Cardinality(below(i)) <= Cardinality(keep)
      BY <2>1, FS_Subset
    <2>3. i \in below(i)
      OBVIOUS
    <2>4. below(i) # {}
      BY <2>3
    <2>5. Cardinality(below(i)) \in Nat /\ Cardinality(below(i)) # 0
      BY <2>2, <2>4, FS_CardinalityType, FS_EmptySet
    <2> HIDE DEF below
    <2> QED
      BY <1>0, <2>2, <2>5
  <1>2. ASSUME NEW i \in keep, NEW l \in keep, i < l
        PROVE  Cardinality(below(i)) # Cardinality(below(l))
    <2>1. /\ \A j \in keep : j <= i => j <= l
          /\ l <= l
          /\ ~(l <= i)
      BY <1>2
    <2>2. below(i) \in SUBSET below(l) /\ l \in below(l) /\ l \notin below(i)
      BY <2>1, Zenon
    <2>3. IsFiniteSet(below(l))
      BY <1>1
    <2> HIDE DEF below
    <2>4. Cardinality(below(l)) = Cardinality(below(i)) => below(l) = below(i)
      BY <2>3, <2>2, FS_Subset
    <2> QED
      BY <2>4, <2>2
  <1>3. \A i, l \in keep : rank[i] = rank[l] => i = l
    <2> HIDE DEF below
    <2> QED
      BY <1>2
  <1>4. rank \in Injection(keep, 1..Cardinality(keep))
    <2>1. rank \in [keep -> 1..Cardinality(keep)]
      <3> HIDE DEF below
      <3> QED
        BY <1>1
    <2> HIDE DEF rank
    <2> QED
      BY <1>3, <2>1 DEF Injection, IsInjective
  <1>5. /\ IsFiniteSet(1..Cardinality(keep))
        /\ Cardinality(1..Cardinality(keep)) = Cardinality(keep)
    BY <1>0, FS_Interval
  <1>6. rank \in Surjection(keep, 1..Cardinality(keep))
    <2> HIDE DEF rank
    <2> QED
      BY <1>4, <1>5, FS_Injection
  <1>7. \A k \in 1..Cardinality(keep) : \E i \in keep : rank[i] = k
    <2> HIDE DEF rank
    <2> QED
      BY <1>6 DEF Surjection
  <1>8. \A k \in 1..Cardinality(keep) : \E i \in keep : Cardinality(below(i)) = k
    <2> HIDE DEF below
    <2> QED
      BY <1>7
  <1>9. \A i, l \in keep : Cardinality(below(i)) = Cardinality(below(l)) => i = l
    <2> HIDE DEF below
    <2> QED
      BY <1>2
  <1> QED
    BY <1>0, <1>1, <1>8, <1>9

\* Places in a list of which each is taken once.
Distinct(list) == \A i, j \in 1..Len(list) : list[i] = list[j] => i = j

\* The filter keeps the selected transactions of a list and no other, each once.
LEMMA KeptExact ==
    ASSUME NEW list \in Seq(Txs), Distinct(list)
    PROVE  /\ Kept(list) \in Seq(Txs)
           /\ Distinct(Kept(list))
           /\ \A k \in 1..Len(Kept(list)) :
                 /\ Selected(Kept(list)[k])
                 /\ \E i \in 1..Len(list) : list[i] = Kept(list)[k]
           /\ \A i \in 1..Len(list) : Selected(list[i]) =>
                 \E k \in 1..Len(Kept(list)) : Kept(list)[k] = list[i]
  <1> DEFINE keep == {i \in 1..Len(list) : Selected(list[i])}
             below(i) == {j \in keep : j <= i}
             nth(k) == CHOOSE i \in keep : Cardinality(below(i)) = k
             kept == [k \in 1..Cardinality(keep) |-> list[nth(k)]]
  <1>1. Kept(list) = kept
    BY DEF Kept
  <1>2. Len(list) \in Nat /\ \A i \in 1..Len(list) : list[i] \in Txs
    BY LenProperties
  <1>3. keep \in SUBSET (1..Len(list)) /\ keep \in SUBSET Nat
    BY <1>2
  <1>4. IsFiniteSet(keep)
    <2>1. IsFiniteSet(1..Len(list))
      BY <1>2, FS_Interval
    <2> HIDE DEF keep
    <2> QED
      BY <1>3, <2>1, FS_Subset
  <1>5. /\ Cardinality(keep) \in Nat
        /\ \A k \in 1..Cardinality(keep) : \E i \in keep : Cardinality(below(i)) = k
        /\ \A i \in keep : Cardinality(below(i)) \in 1..Cardinality(keep)
        /\ \A i, l \in keep : Cardinality(below(i)) = Cardinality(below(l)) => i = l
    <2> HIDE DEF keep
    <2> QED
      BY <1>3, <1>4, RanksExact
  <1>6. \A i \in keep : i \in 1..Len(list) /\ Selected(list[i])
    OBVIOUS
  <1>7. \A i \in 1..Len(list) : Selected(list[i]) => i \in keep
    OBVIOUS
  <1> HIDE DEF keep, below
  <1>8. \A k \in 1..Cardinality(keep) : nth(k) \in keep /\ Cardinality(below(nth(k))) = k
    BY <1>5
  <1>9. \A k, l \in 1..Cardinality(keep) : nth(k) = nth(l) => k = l
    BY <1>8
  <1>10. \A i \in keep : \E k \in 1..Cardinality(keep) : nth(k) = i
    <2> SUFFICES ASSUME NEW i \in keep
                 PROVE  \E k \in 1..Cardinality(keep) : nth(k) = i
      OBVIOUS
    <2>1. PICK k \in 1..Cardinality(keep) : k = Cardinality(below(i))
      BY <1>5
    <2>2. nth(k) \in keep /\ Cardinality(below(nth(k))) = Cardinality(below(i))
      BY <1>8, <2>1
    <2> QED
      BY <1>5, <2>2
  <1> HIDE DEF nth
  <1>11. kept \in [1..Cardinality(keep) -> Txs]
    BY <1>2, <1>6, <1>8
  <1>12. kept \in Seq(Txs) /\ Len(kept) = Cardinality(keep)
    <2> HIDE DEF kept
    <2>1. kept \in Seq(Txs)
      BY <1>5, <1>11, SeqDef
    <2> QED
      BY <1>5, <1>11, <2>1, LenProperties
  <1>13. \A k \in 1..Cardinality(keep) : kept[k] = list[nth(k)]
    OBVIOUS
  <1> HIDE DEF kept
  <1>14. Distinct(kept)
    BY <1>6, <1>8, <1>9, <1>12, <1>13 DEF Distinct
  <1>15. \A k \in 1..Len(kept) : Selected(kept[k]) /\ \E i \in 1..Len(list) : list[i] = kept[k]
    BY <1>6, <1>8, <1>12, <1>13
  <1>16. \A i \in 1..Len(list) : Selected(list[i]) =>
            \E k \in 1..Len(kept) : kept[k] = list[i]
    BY <1>7, <1>10, <1>12, <1>13
  <1> QED
    BY <1>1, <1>12, <1>14, <1>15, <1>16
\* The quotient, rounded up.
LEMMA CeilDivBounds ==
    ASSUME NEW a \in Nat, NEW d \in Nat \ {0}
    PROVE  /\ CeilDiv(a, d) \in Nat
           /\ a <= CeilDiv(a, d) * d
           /\ a > 0 => CeilDiv(a, d) > 0 /\ (CeilDiv(a, d) - 1) * d < a
  <1> DEFINE q == (a + d - 1) \div d
             r == (a + d - 1) % d
  <1>1. q \in Int /\ r \in 0..(d - 1) /\ a + d - 1 = d * q + r
    OBVIOUS
  <1>2. CeilDiv(a, d) = q
    BY DEF CeilDiv
  <1> HIDE DEF q, r
  <1>3. q >= 0
    <2> SUFFICES ASSUME q <= -1 PROVE FALSE
      BY <1>1
    <2>1. d * q <= d * (-1)
      BY <1>1
    <2> QED
      BY <1>1, <2>1
  <1>4. q * d = d * q /\ (q - 1) * d = d * q - d
    BY <1>1
  <1>5. a <= q * d /\ (a > 0 => (q - 1) * d < a)
    BY <1>1, <1>4
  <1>6. a > 0 => q > 0
    BY <1>1, <1>3, <1>4
  <1> QED
    BY <1>1, <1>2, <1>3, <1>5, <1>6

\* Multiples of d that are less than d apart are the same.
LEMMA SameChunk ==
    ASSUME NEW d \in Nat \ {0}, NEW b \in Nat, NEW c \in Nat, NEW p \in 1..d, NEW q \in 1..d,
           (b - 1) * d + p = (c - 1) * d + q
    PROVE  b = c /\ p = q
  <1>1. (b - 1) * d - (c - 1) * d = (b - c) * d
    OBVIOUS
  <1>2. (b - c) * d = q - p
    BY <1>1
  <1>3. ~(b - c >= 1)
    <2> SUFFICES ASSUME b - c >= 1 PROVE FALSE
      OBVIOUS
    <2>1. (b - c) * d >= 1 * d
      OBVIOUS
    <2> QED
      BY <1>2, <2>1
  <1>4. ~(b - c <= -1)
    <2> SUFFICES ASSUME b - c <= -1 PROVE FALSE
      OBVIOUS
    <2>1. (b - c) * d <= (-1) * d
      OBVIOUS
    <2> QED
      BY <1>2, <2>1
  <1>5. b = c
    BY <1>3, <1>4
  <1> QED
    BY <1>2, <1>5

\* The size of a batch, and that there are no more batches than workers.
LEMMA BatchesFit ==
    ASSUME NEW n \in Nat \ {0}
    PROVE  /\ BatchSize(n) \in Nat \ {0}
           /\ CeilDiv(n, BatchSize(n)) <= MaxBatches
  <1> DEFINE m == LesserOf(MaxBatches, n)
  <1>1. m \in Nat \ {0} /\ m <= MaxBatches /\ MaxBatches \in Nat
    BY DecodeAssumption DEF LesserOf
  <1>2. BatchSize(n) = CeilDiv(n, m)
    BY DEF BatchSize
  <1> HIDE DEF m
  <1>3. PICK size \in Nat \ {0} : size = BatchSize(n) /\ n <= size * m
    BY <1>1, <1>2, CeilDivBounds
  <1>4. PICK count \in Nat : /\ count = CeilDiv(n, size)
                             /\ (count - 1) * size < n
    BY CeilDivBounds
  <1>5. count <= m
    <2> SUFFICES ASSUME count - 1 >= m PROVE FALSE
      BY <1>1
    <2>1. (count - 1) * size >= m * size
      BY <1>1
    <2>2. m * size = size * m
      BY <1>1
    <2> QED
      BY <1>1, <1>3, <1>4, <2>1, <2>2
  <1> QED
    BY <1>1, <1>3, <1>4, <1>5
\* Each place of the list is one place of one batch, and the other way around.
LEMMA ChunksExact ==
    ASSUME NEW list \in Seq(Txs)
    PROVE  /\ Chunks(list) \in Seq(Seq(Txs))
           /\ Len(Chunks(list)) <= MaxBatches
           /\ list # <<>> =>
                /\ \A b \in 1..Len(Chunks(list)) : \A p \in 1..Len(Chunks(list)[b]) :
                     LET k == (b - 1) * BatchSize(Len(list)) + p
                     IN  /\ p \in 1..BatchSize(Len(list))
                         /\ k \in 1..Len(list)
                         /\ Chunks(list)[b][p] = list[k]
                /\ \A k \in 1..Len(list) :
                     \E b \in 1..Len(Chunks(list)) : \E p \in 1..Len(Chunks(list)[b]) :
                         (b - 1) * BatchSize(Len(list)) + p = k
           /\ list = <<>> => Chunks(list) = <<>>
  <1>1. CASE list = <<>>
    BY <1>1, DecodeAssumption DEF Chunks
  <1>2. CASE list # <<>>
    <2> DEFINE n == Len(list)
               size == BatchSize(n)
               count == CeilDiv(n, size)
               start(b) == (b - 1) * size
               end(b) == LesserOf(b * size, n)
               chunk(b) == SubSeq(list, (b - 1) * size + 1, end(b))
               chunks == [b \in 1..count |-> chunk(b)]
    <2>1. Chunks(list) = chunks
      BY <1>2 DEF Chunks
    <2>2. n \in Nat \ {0} /\ \A i \in 1..n : list[i] \in Txs
      BY <1>2, LenProperties, EmptySeq
    <2>3. size \in Nat \ {0} /\ count \in Nat /\ count <= MaxBatches
      BY <2>2, BatchesFit, CeilDivBounds
    <2>4. n <= count * size /\ (count - 1) * size < n
      <3>1. n \in Nat /\ n > 0 /\ size \in Nat \ {0}
        BY <2>2, <2>3
      <3> HIDE DEF n, size
      <3>2. /\ n <= CeilDiv(n, size) * size
            /\ n > 0 => CeilDiv(n, size) > 0 /\ (CeilDiv(n, size) - 1) * size < n
        BY <3>1, CeilDivBounds, Zenon
      <3> QED
        BY <3>1, <3>2, Zenon
    <2> HIDE DEF n, size, count
    <2>5. ASSUME NEW b \in 1..count
          PROVE  /\ start(b) \in Nat /\ start(b) < n
                 /\ end(b) \in Nat /\ end(b) <= n /\ start(b) < end(b)
                 /\ end(b) <= start(b) + size
                 /\ end(b) = n \/ end(b) = start(b) + size
      <3>1. (b - 1) * size <= (count - 1) * size
        BY <2>3
      <3>2. b * size = (b - 1) * size + size /\ (b - 1) * size >= 0
        BY <2>3
      <3>3. (b - 1) * size \in Int /\ b * size \in Int /\ (count - 1) * size \in Int
        BY <2>3
      <3> QED
        BY <2>2, <2>3, <2>4, <3>1, <3>2, <3>3 DEF LesserOf
    <2>6. ASSUME NEW b \in 1..count
          PROVE  /\ chunk(b) \in Seq(Txs)
                 /\ Len(chunk(b)) = end(b) - start(b)
                 /\ \A p \in 1..(end(b) - start(b)) : chunk(b)[p] = list[start(b) + p]
      <3>1. PICK x \in Int, y \in Int : x = start(b) + 1 /\ y = end(b)
        BY <2>5
      <3>2. x >= 1 /\ y <= n /\ x <= y
        BY <2>2, <2>5, <3>1
      <3>3. \A i \in x..y : list[i] \in Txs
        BY <2>2, <3>2
      <3>4. /\ SubSeq(list, x, y) \in Seq(Txs)
            /\ Len(SubSeq(list, x, y)) = y - x + 1
            /\ \A i \in 1..(y - x + 1) : SubSeq(list, x, y)[i] = list[x + i - 1]
        BY <3>2, <3>3, SubSeqProperties
      <3>5. chunk(b) = SubSeq(list, x, y)
        BY <3>1
      <3>6. PICK st \in Nat : st = start(b)
        BY <2>5
      <3> HIDE DEF chunk, end, start
      <3>7. end(b) - start(b) = y - x + 1 /\ start(b) = x - 1
        BY <3>1, <3>6
      <3>8. ASSUME NEW p \in 1..(y - x + 1)
            PROVE  SubSeq(list, x, y)[p] = list[(x - 1) + p]
        <4>1. x + p - 1 = (x - 1) + p
          OBVIOUS
        <4> QED
          BY <3>4, <4>1
      <3> QED
        BY <3>4, <3>5, <3>7, <3>8
    <2>7. chunks \in Seq(Seq(Txs)) /\ Len(chunks) = count
      <3>1. chunks \in [1..count -> Seq(Txs)]
        <4> HIDE DEF chunk
        <4> QED
          BY <2>6
      <3> HIDE DEF chunks
      <3>2. chunks \in Seq(Seq(Txs))
        BY <2>3, <3>1, SeqDef
      <3> QED
        BY <2>3, <3>1, <3>2, LenProperties
    <2>8. \A b \in 1..count : chunks[b] = chunk(b)
      OBVIOUS
    <2> HIDE DEF chunk, chunks, end
    <2>9. ASSUME NEW b \in 1..count, NEW p \in 1..Len(chunks[b])
          PROVE  /\ p \in 1..size
                 /\ start(b) + p \in 1..n
                 /\ chunks[b][p] = list[start(b) + p]
      <3>1. PICK st \in Nat, e \in Nat : st = start(b) /\ e = end(b)
        BY <2>5
      <3>2. st < n /\ e <= n /\ st < e /\ e <= st + size
        BY <2>5, <3>1
      <3>3. Len(chunks[b]) = e - st /\ \A i \in 1..(e - st) : chunks[b][i] = list[st + i]
        BY <2>6, <2>8, <3>1
      <3>4. p \in 1..size /\ st + p \in 1..n /\ chunks[b][p] = list[st + p]
        <4>1. p \in 1..(e - st)
          BY <3>3
        <4>2. p \in 1..size /\ st + p \in 1..n
          BY <2>2, <2>3, <3>2, <4>1
        <4> QED
          BY <3>3, <4>1, <4>2
      <3> HIDE DEF start
      <3> QED
        BY <3>1, <3>4
    <2>10. ASSUME NEW k \in 1..n
           PROVE  \E b \in 1..count : \E p \in 1..Len(chunks[b]) : start(b) + p = k
      <3>0. k \in Nat /\ k > 0
        BY <2>2
      <3>1. PICK b \in Nat : b = CeilDiv(k, size) /\ b > 0 /\ k <= b * size /\ (b - 1) * size < k
        BY <2>3, <3>0, CeilDivBounds, Zenon
      <3>2. b <= count
        <4> SUFFICES ASSUME b - 1 >= count PROVE FALSE
          BY <2>3
        <4>1. (b - 1) * size >= count * size
          BY <2>3
        <4>2. (b - 1) * size \in Int /\ count * size \in Int
          BY <2>3
        <4> QED
          BY <2>2, <2>4, <3>1, <4>1, <4>2
      <3>3. b * size = (b - 1) * size + size
        BY <2>3
      <3>4. b \in 1..count
        BY <2>3, <3>1, <3>2
      <3>5. PICK st \in Nat, e \in Nat : st = start(b) /\ e = end(b)
        BY <2>5, <3>4
      <3>6. st < k /\ k <= st + size
        BY <3>1, <3>3, <3>5
      <3>7. e = n \/ e = st + size
        BY <2>5, <3>4, <3>5
      <3>8. Len(chunks[b]) = e - st
        BY <2>6, <2>8, <3>4, <3>5
      <3>9. PICK p \in 1..Len(chunks[b]) : st + p = k
        <4>1. k - st \in 1..Len(chunks[b])
          BY <2>2, <2>3, <3>6, <3>7, <3>8
        <4> QED
          BY <3>0, <4>1
      <3> HIDE DEF start
      <3> QED
        BY <3>4, <3>5, <3>9
    <2> QED
      BY <1>2, <2>1, <2>3, <2>7, <2>9, <2>10 DEF n, size
  <1> QED
    BY <1>1, <1>2

\* The batches of a list of distinct transactions hold them all, each in one place.
LEMMA BatchesExact ==
    ASSUME NEW list \in Seq(Txs), Distinct(list)
    PROVE  /\ Chunks(list) \in Seq(Seq(Txs))
           /\ Len(Chunks(list)) <= MaxBatches
           /\ \A b \in 1..Len(Chunks(list)) : \A p \in 1..Len(Chunks(list)[b]) :
                 \E k \in 1..Len(list) : Chunks(list)[b][p] = list[k]
           /\ \A b, c \in 1..Len(Chunks(list)) :
                 \A p \in 1..Len(Chunks(list)[b]), q \in 1..Len(Chunks(list)[c]) :
                     Chunks(list)[b][p] = Chunks(list)[c][q] => b = c /\ p = q
           /\ \A k \in 1..Len(list) :
                 \E b \in 1..Len(Chunks(list)) : \E p \in 1..Len(Chunks(list)[b]) :
                     Chunks(list)[b][p] = list[k]
  <1>1. CASE list = <<>>
    <2>1. /\ Chunks(list) = <<>> /\ Len(Chunks(list)) <= MaxBatches
          /\ Chunks(list) \in Seq(Seq(Txs))
      BY <1>1, ChunksExact
    <2>2. 1..Len(list) = {} /\ 1..Len(Chunks(list)) = {}
      BY <1>1, <2>1, EmptySeq
    <2> QED
      BY <2>1, <2>2
  <1>2. CASE list # <<>>
    <2> DEFINE batch == Chunks(list)
               size == BatchSize(Len(list))
    <2>1. Len(list) \in Nat \ {0}
      BY <1>2, LenProperties, EmptySeq
    <2>2. size \in Nat \ {0}
      BY <2>1, BatchesFit
    <2>3. batch \in Seq(Seq(Txs)) /\ Len(batch) <= MaxBatches /\ Len(batch) \in Nat
      BY ChunksExact, LenProperties
    <2>4. /\ \A b \in 1..Len(batch) : \A p \in 1..Len(batch[b]) :
                /\ p \in 1..size
                /\ (b - 1) * size + p \in 1..Len(list)
                /\ batch[b][p] = list[(b - 1) * size + p]
          /\ \A k \in 1..Len(list) : \E b \in 1..Len(batch) : \E p \in 1..Len(batch[b]) :
                (b - 1) * size + p = k
      BY <1>2, ChunksExact
    <2> HIDE DEF batch, size
    <2>5. ASSUME NEW b \in 1..Len(batch), NEW c \in 1..Len(batch),
                 NEW p \in 1..Len(batch[b]), NEW q \in 1..Len(batch[c]),
                 batch[b][p] = batch[c][q]
          PROVE  b = c /\ p = q
      <3>1. PICK k \in 1..Len(list), l \in 1..Len(list) :
                k = (b - 1) * size + p /\ l = (c - 1) * size + q
        BY <2>4
      <3>2. list[k] = list[l]
        BY <2>4, <2>5, <3>1
      <3>3. k = l
        BY <3>2 DEF Distinct
      <3>4. p \in 1..size /\ q \in 1..size /\ b \in Nat /\ c \in Nat
        <4>1. p \in 1..size /\ q \in 1..size
          BY <2>4, Zenon
        <4>2. b \in Nat /\ c \in Nat
          BY <2>3
        <4> QED
          BY <4>1, <4>2
      <3> QED
        BY <2>2, <3>1, <3>3, <3>4, SameChunk
    <2>6. \A b \in 1..Len(batch) : \A p \in 1..Len(batch[b]) :
              \E k \in 1..Len(list) : batch[b][p] = list[k]
      BY <2>4
    <2>7. \A k \in 1..Len(list) :
              \E b \in 1..Len(batch) : \E p \in 1..Len(batch[b]) : batch[b][p] = list[k]
      BY <2>4
    <2> QED
      BY <2>3, <2>5, <2>6, <2>7 DEF batch
  <1> QED
    BY <1>1, <1>2
-----------------------------------------------------------------------------
(* The stage *)

LEMMA DecodeInit == Init => DecodeInv
  <1> SUFFICES ASSUME Init PROVE DecodeInv
    OBVIOUS
  <1>1. 0..MaxStones \subseteq Nat
    BY DecodeAssumption
  <1>2. DecodeTypes
    <2>1. kind \in [Txs -> Kinds] /\ stones \in [Txs -> Nat]
      BY <1>1 DEF Init
    <2>2. fetched \in Seq(Txs) /\ batches \in Seq(Seq(Txs)) /\ results \in Seq(Results)
      BY DEF Init
    <2> QED
      BY <2>1, <2>2 DEF Init, DecodeTypes, Labels, Stages
  <1>3. FetchInv /\ IdleInv
    BY DEF Init, FetchInv, IdleInv
  <1>4. PlaceInv
    BY DecodeAssumption DEF Init, PlaceInv
  <1>5. PosInv
    BY DEF Init, PosInv
  <1>6. ResultInv /\ StoneInv
    BY DEF Init, ResultInv, StoneInv
  <1> QED
    BY <1>2, <1>3, <1>4, <1>5, <1>6 DEF DecodeInv

\* While the block is listed and fetched the batches have no part in it.
LEMMA FetchingStep ==
    ASSUME DecodeInv,
           \/ \E v \in Values : TxidsFetched(v)
           \/ TxidsNotFetched
           \/ \E t \in Txs, v \in Values : TxFetched(t, v)
           \/ \E t \in Txs : TxNotFetched(t)
           \/ FetchFails
    PROVE  DecodeInv'
  <1> USE DEF DecodeInv
  <1>1. stage \in {"list", "fetch"} /\ stage' \in {"fetch", "error"}
    BY DEF TxidsFetched, TxidsNotFetched, TxFetched, TxNotFetched, FetchFails
  <1>2. UNCHANGED <<blockVars, batches, batchVars, results, fatal_err>>
    BY DEF TxidsFetched, TxidsNotFetched, TxFetched, TxNotFetched, FetchFails
  <1>3. /\ batches = <<>> /\ results = <<>> /\ ~fatal_err
        /\ pos = [b \in Batches |-> 0]
        /\ step = [b \in Batches |-> "returned"]
    BY <1>1 DEF IdleInv
  <1>4. txids' \subseteq Txs /\ fetched' \in Seq(Txs) /\ FetchInv'
    <2>1. CASE \E v \in Values : TxidsFetched(v)
      BY <2>1 DEF TxidsFetched, FetchInv, DecodeTypes
    <2>2. CASE \E t \in Txs, v \in Values : TxFetched(t, v)
      <3>1. PICK t \in Txs : /\ t \in txids /\ t \notin Answered
                             /\ fetched' = Append(fetched, t) /\ UNCHANGED <<stage, txids>>
                             /\ stage = "fetch"
        BY <2>2 DEF TxFetched, InFlight
      <3>2. \A i \in 1..Len(fetched) : fetched[i] # t
        BY <3>1 DEF Answered
      <3>3. /\ fetched' \in Seq(Txs) /\ Len(fetched') = Len(fetched) + 1 /\ Len(fetched) \in Nat
            /\ fetched'[Len(fetched) + 1] = t
            /\ \A i \in 1..Len(fetched) : fetched'[i] = fetched[i]
        BY <3>1, AppendProperties DEF DecodeTypes
      <3> QED
        BY <3>1, <3>2, <3>3 DEF FetchInv, DecodeTypes
    <2>3. CASE TxidsNotFetched \/ FetchFails \/ \E t \in Txs : TxNotFetched(t)
      <3>1. UNCHANGED <<txids, fetched>>
        BY <2>3 DEF TxidsNotFetched, FetchFails, TxNotFetched, fetchVars
      <3> QED
        BY <1>1, <3>1 DEF FetchInv, DecodeTypes
    <2> QED
      BY <2>1, <2>2, <2>3
  <1>5. DecodeTypes'
    BY <1>1, <1>2, <1>4 DEF DecodeTypes, blockVars, batchVars, Stages
  <1>6. IdleInv'
    BY <1>2, <1>3 DEF IdleInv, batchVars
  <1>7. PlaceInv'
    BY <1>1, <1>2, <1>3, DecodeAssumption DEF PlaceInv
  <1>8. PosInv'
    BY <1>1, <1>2, <1>3 DEF PosInv, batchVars
  <1>9. ResultInv'
    BY <1>1, <1>2, <1>3 DEF ResultInv
  <1>10. StoneInv'
    BY <1>2, <1>3 DEF StoneInv, batchVars
  <1> QED
    BY <1>4, <1>5, <1>6, <1>7, <1>8, <1>9, <1>10

\* Every selected transaction of the block is given one place in one batch.
LEMMA StartStep == DecodeInv /\ StartDecoding => DecodeInv'
  <1> SUFFICES ASSUME DecodeInv, StartDecoding PROVE DecodeInv'
    OBVIOUS
  <1> USE DEF DecodeInv
  <1>1. /\ stage = "fetch" /\ stage' = "decode"
        /\ Answered = txids /\ unfetched = {}
        /\ batches' = Chunks(Kept(fetched))
        /\ step' = [b \in Batches |-> IF b <= Len(batches') THEN "next" ELSE "returned"]
        /\ UNCHANGED <<kind, stones, hex, txids, other, fetched, unfetched, pos, tries, traced,
                       skipped, opaque, results, fatal_err>>
    BY DEF StartDecoding, FetchFailed, blockVars, fetchVars
  <1>2. /\ results = <<>> /\ ~fatal_err
        /\ pos = [b \in Batches |-> 0]
        /\ step = [b \in Batches |-> "returned"]
    BY <1>1 DEF IdleInv
  <1>3. fetched \in Seq(Txs) /\ Distinct(fetched)
    BY DEF DecodeTypes, FetchInv, Distinct
  <1> DEFINE kept == Kept(fetched)
  <1>4. /\ kept \in Seq(Txs)
        /\ Distinct(kept)
        /\ \A k \in 1..Len(kept) :
              Selected(kept[k]) /\ \E i \in 1..Len(fetched) : fetched[i] = kept[k]
        /\ \A i \in 1..Len(fetched) : Selected(fetched[i]) =>
              \E k \in 1..Len(kept) : kept[k] = fetched[i]
    BY <1>3, KeptExact
  <1> HIDE DEF kept
  <1>5. /\ batches' \in Seq(Seq(Txs))
        /\ Len(batches') <= MaxBatches
        /\ \A b \in 1..Len(batches') : \A p \in 1..Len(batches'[b]) :
              \E k \in 1..Len(kept) : batches'[b][p] = kept[k]
        /\ \A b, c \in 1..Len(batches') :
              \A p \in 1..Len(batches'[b]), q \in 1..Len(batches'[c]) :
                  batches'[b][p] = batches'[c][q] => b = c /\ p = q
        /\ \A k \in 1..Len(kept) :
              \E b \in 1..Len(batches') : \E p \in 1..Len(batches'[b]) : batches'[b][p] = kept[k]
    <2>1. batches' = Chunks(kept)
      BY <1>1 DEF kept
    <2>2. kept \in Seq(Txs) /\ Distinct(kept)
      BY <1>4
    <2>3. Chunks(kept) \in Seq(Seq(Txs)) /\ Len(Chunks(kept)) <= MaxBatches
      BY <2>2, BatchesExact
    <2>4. \A b \in 1..Len(Chunks(kept)) : \A p \in 1..Len(Chunks(kept)[b]) :
              \E k \in 1..Len(kept) : Chunks(kept)[b][p] = kept[k]
      BY <2>2, BatchesExact, Zenon
    <2>5. \A b, c \in 1..Len(Chunks(kept)) :
              \A p \in 1..Len(Chunks(kept)[b]), q \in 1..Len(Chunks(kept)[c]) :
                  Chunks(kept)[b][p] = Chunks(kept)[c][q] => b = c /\ p = q
      BY <2>2, BatchesExact, Zenon
    <2>6. \A k \in 1..Len(kept) :
              \E b \in 1..Len(Chunks(kept)) : \E p \in 1..Len(Chunks(kept)[b]) :
                  Chunks(kept)[b][p] = kept[k]
      BY <2>2, BatchesExact, Zenon
    <2> QED
      BY <2>1, <2>3, <2>4, <2>5, <2>6
  <1>6. \A t \in txids : \E i \in 1..Len(fetched) : fetched[i] = t
    BY <1>1 DEF Answered
  <1>7. \A b \in 1..Len(batches') : b \in Batches /\ Len(batches'[b]) \in Nat
    <2>1. Len(batches') \in Nat /\ \A b \in 1..Len(batches') : batches'[b] \in Seq(Txs)
      BY <1>5, LenProperties
    <2> QED
      BY <1>5, <2>1, LenProperties, DecodeAssumption DEF Batches
  <1>8. DecodeTypes'
    BY <1>1, <1>5 DEF DecodeTypes, Stages, Labels
  <1>9. FetchInv' /\ IdleInv'
    BY <1>1 DEF FetchInv, IdleInv
  <1>10. PlaceInv'
    <2>1. \A t : Selected(t)' <=> Selected(t)
      BY <1>1 DEF Selected
    <2>2. \A b \in 1..Len(batches') : \A p \in 1..Len(batches'[b]) :
              batches'[b][p] \in txids /\ Selected(batches'[b][p])
      <3> SUFFICES ASSUME NEW b \in 1..Len(batches'), NEW p \in 1..Len(batches'[b])
                   PROVE  batches'[b][p] \in txids /\ Selected(batches'[b][p])
        OBVIOUS
      <3>1. PICK k \in 1..Len(kept) : batches'[b][p] = kept[k]
        BY <1>5, Zenon
      <3>2. PICK i \in 1..Len(fetched) : fetched[i] = kept[k]
        BY <1>4, Zenon
      <3>3. fetched[i] \in txids /\ Selected(kept[k])
        BY <1>4 DEF FetchInv
      <3> QED
        BY <3>1, <3>2, <3>3, Zenon
    <2>3. \A t \in txids : Selected(t) =>
              \E b \in 1..Len(batches') : \E p \in 1..Len(batches'[b]) : batches'[b][p] = t
      <3> SUFFICES ASSUME NEW t \in txids, Selected(t)
                   PROVE  \E b \in 1..Len(batches') : \E p \in 1..Len(batches'[b]) :
                              batches'[b][p] = t
        OBVIOUS
      <3>1. PICK i \in 1..Len(fetched) : fetched[i] = t
        BY <1>6
      <3>2. Selected(fetched[i])
        BY <3>1, Zenon
      <3>3. PICK k \in 1..Len(kept) : kept[k] = fetched[i]
        BY <1>4, <3>2, Zenon
      <3>4. PICK b \in 1..Len(batches') : \E p \in 1..Len(batches'[b]) : batches'[b][p] = kept[k]
        BY <1>5, Zenon
      <3> QED
        BY <3>1, <3>3, <3>4
    <2> QED
      BY <1>1, <1>5, <2>1, <2>2, <2>3 DEF PlaceInv, Selected
  <1>11. PosInv'
    BY <1>1, <1>2, <1>5, <1>7 DEF PosInv, Batches
  <1>12. ResultInv'
    BY <1>1, <1>2, <1>7 DEF ResultInv, Passed
  <1>13. StoneInv'
    BY <1>1, <1>2 DEF StoneInv
  <1> QED
    BY <1>8, <1>9, <1>10, <1>11, <1>12, <1>13
\* A batch changes neither the block nor the batches, and it has a list.
Framed(b) ==
    /\ UNCHANGED <<kind, stones, stage, txids, other, fetched, batches>>
    /\ stage = "decode" /\ b \in 1..Len(batches)
    /\ Len(batches) \in Nat /\ \A c \in 1..Len(batches) : c \in Batches
    /\ \A c \in 1..Len(batches) : batches[c] \in Seq(Txs) /\ Len(batches[c]) \in Nat
    /\ FetchInv' /\ IdleInv' /\ PlaceInv'

LEMMA BatchFrame == ASSUME DecodeInv, NEW b \in Batches, Batch(b) PROVE Framed(b)
  <1> USE DEF DecodeInv, Framed
  <1>1. UNCHANGED <<kind, stones, stage, txids, other, fetched, batches>>
    BY DEF Batch, NextTx, BatchEnds, Decode, HexAttemptFails, NoTransaction, TraceOk,
           TraceTypeError, TraceFails, PushResult, blockVars, fetchVars
  <1>2. step[b] # "returned"
    BY DEF Batch, NextTx, BatchEnds, Decode, HexAttemptFails, NoTransaction, TraceOk,
           TraceTypeError, TraceFails, PushResult
  <1>3. stage = "decode" /\ b \in 1..Len(batches)
    BY <1>2 DEF PosInv
  <1>4. Len(batches) \in Nat /\ \A c \in 1..Len(batches) : batches[c] \in Seq(Txs)
    BY LenProperties DEF DecodeTypes
  <1>5. \A c \in 1..Len(batches) : Len(batches[c]) \in Nat /\ c \in Batches
    BY <1>4, LenProperties, DecodeAssumption DEF PlaceInv, Batches
  <1>6. FetchInv'
    BY <1>1 DEF FetchInv
  <1>7. IdleInv'
    BY <1>1, <1>3 DEF IdleInv
  <1>8. PlaceInv'
    BY <1>1 DEF PlaceInv, Selected
  <1> QED
    BY <1>1, <1>3, <1>4, <1>5, <1>6, <1>7, <1>8

\* A step that is through with no further transaction keeps the results exact.
LEMMA SamePassed ==
    ASSUME DecodeInv, stage = "decode",
           UNCHANGED <<kind, stage, batches, results, fatal_err>>,
           \A c \in 1..Len(batches) : \A p \in 1..Len(batches[c]) : Passed(c, p)' <=> Passed(c, p)
    PROVE  ResultInv'
  BY DEF DecodeInv, ResultInv

\* A step that is through with a transaction that has no result, when it is not
\* one that decodes or the stage has failed.
LEMMA OnePassed ==
    ASSUME DecodeInv, stage = "decode", NEW b \in 1..Len(batches), pos[b] \in 1..Len(batches[b]),
           UNCHANGED <<kind, stage, batches, results>>,
           fatal_err' \in BOOLEAN, fatal_err => fatal_err',
           kind[Tx(b)] = "stones" => fatal_err',
           \A c \in 1..Len(batches) : \A p \in 1..Len(batches[c]) :
               Passed(c, p)' <=> Passed(c, p) \/ (c = b /\ p = pos[b])
    PROVE  ResultInv'
  BY DEF DecodeInv, ResultInv, Tx

LEMMA NextTxStep == ASSUME DecodeInv, NEW b \in Batches, NextTx(b) PROVE DecodeInv'
  <1> USE DEF DecodeInv
  <1>1. Batch(b)
    BY DEF Batch
  <1>2. Framed(b)
    BY <1>1, BatchFrame
  <1>3. /\ step[b] = "next" /\ ~fatal_err /\ pos[b] < Len(batches[b])
        /\ pos' = [pos EXCEPT ![b] = @ + 1]
        /\ step' = [step EXCEPT ![b] = "hex"]
        /\ UNCHANGED <<traced, skipped, opaque, results, fatal_err>>
    BY DEF NextTx, Enter
  <1>4. DecodeTypes'
    <2>1. pos \in [Batches -> Nat] /\ step \in [Batches -> Labels]
      BY DEF DecodeTypes
    <2>2. pos' \in [Batches -> Nat]
      BY <1>3, <2>1
    <2>3. step' \in [Batches -> Labels]
      BY <1>3, <2>1 DEF Labels
    <2> QED
      BY <1>2, <1>3, <2>2, <2>3 DEF Framed, DecodeTypes
  <1>5. PosInv'
    BY <1>2, <1>3 DEF Framed, PosInv, DecodeTypes, Tx
  <1>6. \A c \in 1..Len(batches) : \A p \in 1..Len(batches[c]) : Passed(c, p)' <=> Passed(c, p)
    BY <1>2, <1>3 DEF Framed, Passed, DecodeTypes, PosInv
  <1>7. ResultInv'
    BY <1>2, <1>3, <1>6, SamePassed DEF Framed
  <1>8. StoneInv'
    BY <1>2, <1>3 DEF Framed, StoneInv, DecodeTypes, Tx
  <1> QED
    BY <1>2, <1>4, <1>5, <1>7, <1>8 DEF Framed

LEMMA BatchEndsStep == ASSUME DecodeInv, NEW b \in Batches, BatchEnds(b) PROVE DecodeInv'
  <1> USE DEF DecodeInv
  <1>1. Batch(b)
    BY DEF Batch
  <1>2. Framed(b)
    BY <1>1, BatchFrame
  <1>3. /\ step[b] = "next" /\ (fatal_err \/ pos[b] = Len(batches[b]))
        /\ step' = [step EXCEPT ![b] = "returned"]
        /\ UNCHANGED <<pos, traced, skipped, opaque, results, fatal_err>>
    BY DEF BatchEnds, NothingLeft, Enter
  <1>4. DecodeTypes'
    BY <1>2, <1>3 DEF Framed, DecodeTypes, Labels
  <1>5. PosInv'
    BY <1>2, <1>3 DEF Framed, PosInv, DecodeTypes, Tx
  <1>6. \A c \in 1..Len(batches) : \A p \in 1..Len(batches[c]) : Passed(c, p)' <=> Passed(c, p)
    BY <1>2, <1>3 DEF Framed, Passed, DecodeTypes
  <1>7. ResultInv'
    BY <1>2, <1>3, <1>6, SamePassed DEF Framed
  <1>8. StoneInv'
    BY <1>2, <1>3 DEF Framed, StoneInv, DecodeTypes, Tx
  <1> QED
    BY <1>2, <1>4, <1>5, <1>7, <1>8 DEF Framed

LEMMA DecodeStep == ASSUME DecodeInv, NEW b \in Batches, Decode(b) PROVE DecodeInv'
  <1> USE DEF DecodeInv
  <1>1. Batch(b)
    BY DEF Batch
  <1>2. Framed(b)
    BY <1>1, BatchFrame
  <1>3. /\ step[b] = "hex"
        /\ step' = [step EXCEPT ![b] = IF kind[Tx(b)] = "garbled" THEN "next" ELSE "trace"]
        /\ UNCHANGED <<pos, traced, skipped, opaque, results, fatal_err>>
    BY DEF Decode, Enter
  <1>4. DecodeTypes'
    BY <1>2, <1>3 DEF Framed, DecodeTypes, Labels
  <1>5. pos[b] \in 1..Len(batches[b])
    BY <1>3 DEF PosInv
  <1>6. kind[Tx(b)] \in {"garbled", "stones"}
    <2>1. Selected(Tx(b)) /\ Tx(b) \in Txs
      BY <1>2, <1>5 DEF Framed, PlaceInv, Tx, DecodeTypes
    <2> QED
      BY <2>1 DEF Selected, DecodeTypes, Kinds
  <1>7. PosInv'
    BY <1>2, <1>3, <1>5, <1>6 DEF Framed, PosInv, DecodeTypes, Tx
  <1>8. ResultInv'
    <2>1. CASE kind[Tx(b)] = "garbled"
      <3>0. step' = [step EXCEPT ![b] = "next"]
        BY <1>3, <2>1
      <3>1. \A c \in 1..Len(batches) : \A p \in 1..Len(batches[c]) :
                Passed(c, p)' <=> Passed(c, p) \/ (c = b /\ p = pos[b])
        <4>1. step[b] = "hex" /\ UNCHANGED pos
          BY <1>3
        <4> QED
          BY <1>2, <1>5, <3>0, <4>1 DEF Framed, Passed, DecodeTypes
      <3>2. /\ fatal_err' \in BOOLEAN /\ (fatal_err => fatal_err')
            /\ kind[Tx(b)] = "stones" => fatal_err'
        BY <1>3, <2>1 DEF DecodeTypes
      <3> QED
        BY <1>2, <1>3, <1>5, <3>1, <3>2, OnePassed DEF Framed
    <2>2. CASE kind[Tx(b)] # "garbled"
      <3>1. \A c \in 1..Len(batches) : \A p \in 1..Len(batches[c]) : Passed(c, p)' <=> Passed(c, p)
        BY <1>2, <1>3, <2>2 DEF Framed, Passed, DecodeTypes
      <3> QED
        BY <1>2, <1>3, <3>1, SamePassed DEF Framed
    <2> QED
      BY <2>1, <2>2
  <1>9. StoneInv'
    <2>1. traced[b] = {} /\ skipped[b] = {}
      BY <1>3 DEF StoneInv
    <2>2. Tx(b) \in Txs /\ stones[Tx(b)] \in Nat
      BY <1>2, <1>5 DEF Framed, DecodeTypes, Tx
    <2>3. 0 \in 0..stones[Tx(b)] /\ traced[b] \cup skipped[b] = 1..0
      BY <2>1, <2>2
    <2> QED
      BY <1>2, <1>3, <2>1, <2>3 DEF Framed, StoneInv, DecodeTypes, Tx
  <1> QED
    BY <1>2, <1>4, <1>7, <1>8, <1>9 DEF Framed
LEMMA HexAttemptFailsStep == ASSUME DecodeInv, NEW b \in Batches, HexAttemptFails(b) PROVE DecodeInv'
  <1> USE DEF DecodeInv
  <1>1. Batch(b)
    BY DEF Batch
  <1>2. Framed(b)
    BY <1>1, BatchFrame
  <1>3. UNCHANGED <<pos, step, traced, skipped, opaque, results, fatal_err>>
    BY DEF HexAttemptFails
  <1>4. DecodeTypes'
    BY <1>2, <1>3 DEF Framed, DecodeTypes
  <1>5. PosInv'
    BY <1>2, <1>3 DEF Framed, PosInv, Tx
  <1>6. ResultInv'
    BY <1>2, <1>3, SamePassed DEF Framed, Passed
  <1>7. StoneInv'
    BY <1>2, <1>3 DEF Framed, StoneInv, Tx
  <1> QED
    BY <1>2, <1>4, <1>5, <1>6, <1>7 DEF Framed

\* A batch that records an error leaves its transaction without a result.
LEMMA ErrorStep ==
    ASSUME DecodeInv, NEW b \in Batches, NoTransaction(b) \/ TraceFails(b)
    PROVE  DecodeInv'
  <1> USE DEF DecodeInv
  <1>1. Batch(b)
    BY DEF Batch
  <1>2. Framed(b)
    BY <1>1, BatchFrame
  <1>3. /\ step[b] \in {"hex", "trace"} /\ fatal_err' = TRUE
        /\ step' = [step EXCEPT ![b] = "returned"]
        /\ UNCHANGED <<pos, results>>
    BY DEF NoTransaction, AfterHexFailure, TraceFails, Enter
  <1>4. /\ traced' = [traced EXCEPT ![b] = {}]
        /\ skipped' = [skipped EXCEPT ![b] = {}]
        /\ opaque' = [opaque EXCEPT ![b] = {}]
    <2>1. CASE NoTransaction(b)
      <3>1. /\ traced[b] = {} /\ skipped[b] = {} /\ opaque[b] = {}
            /\ UNCHANGED <<traced, skipped, opaque>>
        BY <2>1 DEF NoTransaction, StoneInv
      <3> QED
        BY <3>1 DEF DecodeTypes
    <2>2. CASE TraceFails(b)
      BY <2>2 DEF TraceFails
    <2> QED
      BY <2>1, <2>2
  <1>5. DecodeTypes'
    BY <1>2, <1>3, <1>4 DEF Framed, DecodeTypes, Labels
  <1>6. pos[b] \in 1..Len(batches[b])
    BY <1>3 DEF PosInv
  <1>7. PosInv'
    BY <1>2, <1>3 DEF Framed, PosInv, DecodeTypes, Tx
  <1>8. ResultInv'
    <2>1. \A c \in 1..Len(batches) : \A p \in 1..Len(batches[c]) :
              Passed(c, p)' <=> Passed(c, p) \/ (c = b /\ p = pos[b])
      BY <1>2, <1>3, <1>6 DEF Framed, Passed, DecodeTypes
    <2> QED
      BY <1>2, <1>3, <1>6, <2>1, OnePassed DEF Framed
  <1>9. StoneInv'
    BY <1>2, <1>3, <1>4 DEF Framed, StoneInv, DecodeTypes, Tx
  <1> QED
    BY <1>2, <1>5, <1>7, <1>8, <1>9 DEF Framed

\* The protostones seen so far are the first ones, and Stone is the one after them.
LEMMA StoneIsNext ==
    ASSUME DecodeInv, NEW b \in Batches, step[b] = "trace"
    PROVE  \E n \in 0..stones[Tx(b)] :
               /\ traced[b] \cup skipped[b] = 1..n
               /\ Stone(b) = n + 1
  <1>1. b \in 1..Len(batches) /\ pos[b] \in 1..Len(batches[b])
    BY DEF DecodeInv, PosInv
  <1>2. Tx(b) \in Txs /\ stones[Tx(b)] \in Nat
    BY <1>1 DEF DecodeInv, DecodeTypes, Tx
  <1>3. PICK n \in 0..stones[Tx(b)] : traced[b] \cup skipped[b] = 1..n
    BY DEF DecodeInv, StoneInv
  <1>4. n \in Nat /\ Cardinality(1..n) = n
    BY <1>2, FS_Interval
  <1> QED
    BY <1>3, <1>4 DEF Stone
\* A protostone is traced, or skipped for the known error.
LEMMA TraceStep ==
    ASSUME DecodeInv, NEW b \in Batches, (\E v \in Values : TraceOk(b, v)) \/ TraceTypeError(b)
    PROVE  DecodeInv'
  <1> USE DEF DecodeInv
  <1>1. Batch(b)
    BY DEF Batch
  <1>2. Framed(b)
    BY <1>1, BatchFrame
  <1>3. /\ step[b] = "trace" /\ Stone(b) <= stones[Tx(b)]
        /\ UNCHANGED <<pos, step, results, fatal_err>>
        /\ \/ traced' = [traced EXCEPT ![b] = @ \cup {Stone(b)}] /\ UNCHANGED skipped
           \/ skipped' = [skipped EXCEPT ![b] = @ \cup {Stone(b)}] /\ UNCHANGED traced
        /\ \/ UNCHANGED opaque
           \/ /\ opaque' = [opaque EXCEPT ![b] = @ \cup {Stone(b)}]
              /\ traced' = [traced EXCEPT ![b] = @ \cup {Stone(b)}]
    BY DEF TraceOk, TraceTypeError
  <1>4. pos[b] \in 1..Len(batches[b]) /\ Tx(b) \in Txs /\ stones[Tx(b)] \in Nat
    BY <1>2, <1>3 DEF Framed, PosInv, DecodeTypes, Tx
  <1>5. PICK n \in 0..stones[Tx(b)] : traced[b] \cup skipped[b] = 1..n /\ Stone(b) = n + 1
    BY <1>3, StoneIsNext
  <1>6. n + 1 \in 0..stones[Tx(b)] /\ n + 1 \in Nat /\ n + 1 \notin 1..n
        /\ (1..n) \cup {n + 1} = 1..(n + 1)
    BY <1>3, <1>4, <1>5
  <1>7. /\ traced' \in [Batches -> SUBSET Nat] /\ skipped' \in [Batches -> SUBSET Nat]
        /\ traced'[b] \cup skipped'[b] = 1..(n + 1) /\ traced'[b] \cap skipped'[b] = {}
        /\ \A c \in Batches : c # b => traced'[c] = traced[c] /\ skipped'[c] = skipped[c]
    <2>1. /\ traced \in [Batches -> SUBSET Nat] /\ skipped \in [Batches -> SUBSET Nat]
          /\ traced[b] \cap skipped[b] = {}
      BY DEF DecodeTypes, StoneInv
    <2>2. CASE traced' = [traced EXCEPT ![b] = @ \cup {Stone(b)}] /\ UNCHANGED skipped
      BY <1>5, <1>6, <2>1, <2>2
    <2>3. CASE skipped' = [skipped EXCEPT ![b] = @ \cup {Stone(b)}] /\ UNCHANGED traced
      BY <1>5, <1>6, <2>1, <2>3
    <2> QED
      BY <1>3, <2>2, <2>3
  <1>12. /\ opaque' \in [Batches -> SUBSET Nat] /\ opaque'[b] \subseteq traced'[b]
         /\ \A c \in Batches : c # b => opaque'[c] = opaque[c]
    <2>1. /\ opaque \in [Batches -> SUBSET Nat] /\ traced \in [Batches -> SUBSET Nat]
          /\ opaque[b] \subseteq traced[b] /\ Stone(b) \in Nat
      BY <1>5, <1>6 DEF DecodeTypes, StoneInv
    <2>2. CASE UNCHANGED opaque
      BY <1>3, <2>1, <2>2
    <2>3. CASE /\ opaque' = [opaque EXCEPT ![b] = @ \cup {Stone(b)}]
               /\ traced' = [traced EXCEPT ![b] = @ \cup {Stone(b)}]
      BY <2>1, <2>3
    <2> QED
      BY <1>3, <2>2, <2>3
  <1>8. DecodeTypes'
    BY <1>2, <1>3, <1>7, <1>12 DEF Framed, DecodeTypes
  <1>9. PosInv'
    BY <1>2, <1>3 DEF Framed, PosInv, Tx
  <1>10. ResultInv'
    BY <1>2, <1>3, SamePassed DEF Framed, Passed
  <1>11. StoneInv'
    <2>1. Tx(b)' = Tx(b) /\ stones' = stones
      BY <1>2, <1>3 DEF Framed, Tx
    <2>2. ASSUME NEW c \in Batches
          PROVE  /\ step'[c] # "trace" => traced'[c] = {} /\ skipped'[c] = {}
                 /\ step'[c] = "trace" =>
                       \E m \in 0..stones[batches[c][pos[c]]] : traced'[c] \cup skipped'[c] = 1..m
                 /\ traced'[c] \cap skipped'[c] = {}
                 /\ opaque'[c] \subseteq traced'[c]
      <3>1. CASE c = b
        BY <1>3, <1>6, <1>7, <1>12, <3>1 DEF Tx
      <3>2. CASE c # b
        BY <1>3, <1>7, <1>12, <3>2 DEF StoneInv, Tx
      <3> QED
        BY <3>1, <3>2
    <2> QED
      BY <1>2, <1>3, <2>2 DEF Framed, StoneInv, Tx
  <1> QED
    BY <1>2, <1>8, <1>9, <1>10, <1>11 DEF Framed

\* The result of a transaction is pushed once: whatever result there is is of a
\* transaction some batch is through with, and this one is still in hand.
LEMMA PushResultStep == ASSUME DecodeInv, NEW b \in Batches, PushResult(b) PROVE DecodeInv'
  <1> USE DEF DecodeInv
  <1>1. Batch(b)
    BY DEF Batch
  <1>2. Framed(b)
    BY <1>1, BatchFrame
  <1> DEFINE pushed == [tx |-> Tx(b), traced |-> traced[b], skipped |-> skipped[b],
                       opaque |-> opaque[b]]
  <1>3. /\ step[b] = "trace" /\ Stone(b) > stones[Tx(b)]
        /\ results' = Append(results, pushed)
        /\ traced' = [traced EXCEPT ![b] = {}]
        /\ skipped' = [skipped EXCEPT ![b] = {}]
        /\ opaque' = [opaque EXCEPT ![b] = {}]
        /\ step' = [step EXCEPT ![b] = "next"]
        /\ UNCHANGED <<pos, fatal_err>>
    BY DEF PushResult, Enter
  <1>4. /\ pos[b] \in 1..Len(batches[b]) /\ Tx(b) \in Txs /\ stones[Tx(b)] \in Nat
        /\ kind[Tx(b)] = "stones"
    BY <1>2, <1>3 DEF Framed, PosInv, DecodeTypes, Tx
  <1>5. pushed \in Results /\ pushed.tx = Tx(b)
        /\ pushed.traced = traced[b] /\ pushed.skipped = skipped[b]
        /\ pushed.opaque = opaque[b]
    BY <1>4 DEF Results, DecodeTypes
  <1> HIDE DEF pushed
  <1>6. /\ results' \in Seq(Results) /\ Len(results) \in Nat /\ Len(results') = Len(results) + 1
        /\ results'[Len(results) + 1] = pushed
        /\ \A i \in 1..Len(results) : results'[i] = results[i]
    BY <1>3, <1>5, AppendProperties, LenProperties DEF DecodeTypes
  <1>7. /\ traced[b] \cup skipped[b] = 1..stones[Tx(b)] /\ traced[b] \cap skipped[b] = {}
        /\ opaque[b] \subseteq traced[b]
    <2>1. PICK n \in 0..stones[Tx(b)] : traced[b] \cup skipped[b] = 1..n /\ Stone(b) = n + 1
      BY <1>3, StoneIsNext
    <2>2. n = stones[Tx(b)]
      BY <1>3, <1>4, <2>1
    <2> QED
      BY <2>1, <2>2 DEF StoneInv
  <1>8. DecodeTypes'
    BY <1>2, <1>3, <1>6 DEF Framed, DecodeTypes, Labels
  <1>9. PosInv'
    BY <1>2, <1>3 DEF Framed, PosInv, DecodeTypes, Tx
  <1>10. \A c \in 1..Len(batches) : \A p \in 1..Len(batches[c]) :
             Passed(c, p)' <=> Passed(c, p) \/ (c = b /\ p = pos[b])
    <2>1. step[b] = "trace" /\ step' = [step EXCEPT ![b] = "next"] /\ pos' = pos
      BY <1>3
    <2>2. pos[b] \in 1..Len(batches[b]) /\ pos \in [Batches -> Nat] /\ step \in [Batches -> Labels]
      BY <1>4 DEF DecodeTypes
    <2> QED
      BY <1>2, <2>1, <2>2 DEF Framed, Passed
  <1>11. \A i \in 1..Len(results) : results[i].tx # Tx(b)
    <2> SUFFICES ASSUME NEW i \in 1..Len(results), results[i].tx = Tx(b) PROVE FALSE
      OBVIOUS
    <2>1. PICK c \in 1..Len(batches) : \E p \in 1..Len(batches[c]) :
              Passed(c, p) /\ results[i].tx = batches[c][p]
      BY DEF ResultInv
    <2>2. PICK p \in 1..Len(batches[c]) : Passed(c, p) /\ results[i].tx = batches[c][p]
      BY <2>1
    <2>3. batches[c][p] = batches[b][pos[b]] /\ b \in 1..Len(batches)
      BY <1>2, <2>2 DEF Framed, Tx
    <2>4. c = b /\ p = pos[b]
      <3>1. \A u, v \in 1..Len(batches) : \A x \in 1..Len(batches[u]), y \in 1..Len(batches[v]) :
                batches[u][x] = batches[v][y] => u = v /\ x = y
        BY DEF PlaceInv
      <3> QED
        BY <1>4, <2>3, <3>1, Zenon
    <2> QED
      BY <1>3, <2>2, <2>4 DEF Passed
  <1>12. ResultInv'
    <2>1. ASSUME NEW i \in 1..Len(results')
          PROVE  /\ kind[results'[i].tx] = "stones"
                 /\ \E c \in 1..Len(batches) : \E p \in 1..Len(batches[c]) :
                       Passed(c, p)' /\ results'[i].tx = batches[c][p]
      <3>1. CASE i \in 1..Len(results)
        <4>1. results'[i] = results[i]
          BY <1>6, <3>1
        <4>2. /\ kind[results[i].tx] = "stones"
              /\ \E c \in 1..Len(batches) : \E p \in 1..Len(batches[c]) :
                    Passed(c, p) /\ results[i].tx = batches[c][p]
          BY <3>1 DEF ResultInv
        <4> QED
          BY <1>10, <4>1, <4>2, Zenon
      <3>2. CASE i = Len(results) + 1
        BY <1>2, <1>4, <1>5, <1>6, <1>10, <3>2 DEF Framed, Tx
      <3> QED
        BY <1>6, <3>1, <3>2
    <2>2. \A i, j \in 1..Len(results') : results'[i].tx = results'[j].tx => i = j
      <3>1. \A i, j \in 1..Len(results) : results[i].tx = results[j].tx => i = j
        BY DEF ResultInv
      <3>2. \A i \in 1..Len(results') : i \in 1..Len(results) \/ i = Len(results) + 1
        BY <1>6
      <3> SUFFICES ASSUME NEW i \in 1..Len(results'), NEW j \in 1..Len(results'),
                          results'[i].tx = results'[j].tx
                   PROVE  i = j
        OBVIOUS
      <3>3. CASE i \in 1..Len(results) /\ j \in 1..Len(results)
        BY <1>6, <3>1, <3>3, Zenon
      <3>4. i \in 1..Len(results) => results'[i].tx # Tx(b)
        BY <1>6, <1>11, Zenon
      <3>5. j \in 1..Len(results) => results'[j].tx # Tx(b)
        BY <1>6, <1>11, Zenon
      <3>6. results'[Len(results) + 1].tx = Tx(b)
        BY <1>5, <1>6, Zenon
      <3> QED
        BY <3>2, <3>3, <3>4, <3>5, <3>6, Zenon
    <2>3. ASSUME ~fatal_err, NEW c \in 1..Len(batches), NEW p \in 1..Len(batches[c]),
                 Passed(c, p)', kind[batches[c][p]] = "stones"
          PROVE  \E i \in 1..Len(results') : results'[i].tx = batches[c][p]
      <3>1. CASE Passed(c, p)
        <4>1. PICK i \in 1..Len(results) : results[i].tx = batches[c][p]
          BY <2>3, <3>1 DEF ResultInv
        <4> QED
          BY <1>6, <4>1
      <3>2. CASE c = b /\ p = pos[b]
        BY <1>5, <1>6, <3>2 DEF Tx
      <3> QED
        BY <1>10, <2>3, <3>1, <3>2
    <2>4. kind' = kind /\ batches' = batches /\ fatal_err' = fatal_err /\ stage' # "ok"
      BY <1>2, <1>3 DEF Framed
    <2>5. \A i \in 1..Len(results') :
             /\ kind'[results'[i].tx] = "stones"
             /\ \E c \in 1..Len(batches') : \E p \in 1..Len(batches'[c]) :
                   Passed(c, p)' /\ results'[i].tx = batches'[c][p]
      BY <2>1, <2>4, Zenon
    <2>6. ~fatal_err' =>
             \A c \in 1..Len(batches') : \A p \in 1..Len(batches'[c]) :
                 Passed(c, p)' /\ kind'[batches'[c][p]] = "stones" =>
                     \E i \in 1..Len(results') : results'[i].tx = batches'[c][p]
      BY <2>3, <2>4, Zenon
    <2> HIDE DEF DecodeInv
    <2> QED
      BY <2>2, <2>4, <2>5, <2>6, Zenon DEF ResultInv
  <1>13. StoneInv'
    <2>1. ASSUME NEW i \in 1..Len(results')
          PROVE  /\ results'[i].traced \cup results'[i].skipped = 1..stones[results'[i].tx]
                 /\ results'[i].traced \cap results'[i].skipped = {}
                 /\ results'[i].opaque \subseteq results'[i].traced
      <3>1. CASE i \in 1..Len(results)
        <4>1. results'[i] = results[i]
          BY <1>6, <3>1
        <4> QED
          BY <3>1, <4>1, Zenon DEF StoneInv
      <3>2. CASE i = Len(results) + 1
        BY <1>5, <1>6, <1>7, <3>2
      <3> QED
        BY <1>6, <3>1, <3>2
    <2>2. ASSUME NEW c \in Batches
          PROVE  /\ step'[c] # "trace" => traced'[c] = {} /\ skipped'[c] = {}
                 /\ step'[c] = "trace" =>
                       \E m \in 0..stones[batches[c][pos[c]]] : traced'[c] \cup skipped'[c] = 1..m
                 /\ traced'[c] \cap skipped'[c] = {}
                 /\ opaque'[c] \subseteq traced'[c]
      BY <1>3 DEF StoneInv, Tx, DecodeTypes
    <2> QED
      BY <1>2, <1>3, <2>1, <2>2 DEF Framed, StoneInv, Tx
  <1> QED
    BY <1>2, <1>8, <1>9, <1>12, <1>13 DEF Framed

LEMMA FinishStep == DecodeInv /\ FinishDecoding => DecodeInv'
  <1> SUFFICES ASSUME DecodeInv, FinishDecoding PROVE DecodeInv'
    OBVIOUS
  <1> USE DEF DecodeInv
  <1>1. /\ stage = "decode" /\ stage' = IF fatal_err THEN "error" ELSE "ok"
        /\ \A b \in Batches : step[b] = "returned"
        /\ UNCHANGED <<kind, stones, txids, other, fetched, batches, pos, step, traced, skipped,
                       opaque, results, fatal_err>>
    BY DEF FinishDecoding, Outcome, blockVars, fetchVars, batchVars
  <1>2. \A b \in 1..Len(batches) : b \in Batches
    BY LenProperties, DecodeAssumption DEF DecodeTypes, PlaceInv, Batches
  <1>3. DecodeTypes'
    BY <1>1 DEF DecodeTypes, Stages
  <1>4. FetchInv' /\ IdleInv'
    BY <1>1 DEF FetchInv, IdleInv
  <1>5. PlaceInv'
    BY <1>1 DEF PlaceInv, Selected
  <1>6. PosInv'
    BY <1>1, <1>2 DEF PosInv, Tx
  <1>7. ResultInv'
    BY <1>1 DEF ResultInv, Passed
  <1>8. StoneInv'
    BY <1>1 DEF StoneInv, Tx
  <1> QED
    BY <1>3, <1>4, <1>5, <1>6, <1>7, <1>8

LEMMA DecodeNext == DecodeInv /\ [Next]_vars => DecodeInv'
  <1> SUFFICES ASSUME DecodeInv, [Next]_vars PROVE DecodeInv'
    OBVIOUS
  <1>1. CASE \/ \E v \in Values : TxidsFetched(v)
             \/ TxidsNotFetched
             \/ \E t \in Txs, v \in Values : TxFetched(t, v)
             \/ \E t \in Txs : TxNotFetched(t)
             \/ FetchFails
    BY <1>1, FetchingStep
  <1>2. CASE StartDecoding
    BY <1>2, StartStep
  <1>3. ASSUME NEW b \in Batches, Batch(b) PROVE DecodeInv'
    BY <1>3, NextTxStep, BatchEndsStep, DecodeStep, HexAttemptFailsStep, ErrorStep, TraceStep,
       PushResultStep DEF Batch
  <1>4. CASE FinishDecoding
    BY <1>4, FinishStep
  <1>5. CASE UNCHANGED vars
    <2> USE <1>5 DEF vars, blockVars, fetchVars, batchVars, DecodeInv
    <2>1. DecodeTypes' /\ FetchInv' /\ IdleInv'
      BY DEF DecodeTypes, FetchInv, IdleInv
    <2>2. PlaceInv'
      BY DEF PlaceInv, Selected
    <2>3. PosInv'
      BY DEF PosInv, Tx
    <2>4. ResultInv'
      BY DEF ResultInv, Passed
    <2>5. StoneInv'
      BY DEF StoneInv, Tx
    <2> QED
      BY <2>1, <2>2, <2>3, <2>4, <2>5
  <1> QED
    BY <1>1, <1>2, <1>3, <1>4, <1>5 DEF Next

LEMMA DecodeComplete == DecodeInv => CompleteOrError
  <1> SUFFICES ASSUME DecodeInv, stage = "ok" PROVE CompleteOrError
    BY DEF CompleteOrError
  <1> USE DEF DecodeInv
  <1>1. \A b \in 1..Len(batches) : Len(batches[b]) \in Nat /\ pos[b] = Len(batches[b])
    BY LenProperties DEF DecodeTypes, PosInv
  <1>2. \A b \in 1..Len(batches) : b \in Batches /\ step[b] = "returned"
    BY LenProperties, DecodeAssumption DEF DecodeTypes, PlaceInv, Batches, PosInv
  <1>3. \A b \in 1..Len(batches) : \A p \in 1..Len(batches[b]) : Passed(b, p)
    BY <1>1, <1>2 DEF Passed
  <1>4. Len(results) \in Nat /\ \A i \in 1..Len(results) : results[i].tx \in Txs
    <2>1. results \in Seq(Results)
      BY DEF DecodeTypes
    <2>2. Len(results) \in Nat /\ \A i \in 1..Len(results) : results[i] \in Results
      BY <2>1, LenProperties
    <2> QED
      BY <2>2 DEF Results
  <1>5. ASSUME NEW t \in txids, t \in Decodable \ other
        PROVE  TimesIn(t) = 1
    <2>1. Selected(t) /\ kind[t] = "stones"
      BY <1>5 DEF Decodable, Selected
    <2>2. PICK b \in 1..Len(batches) : \E p \in 1..Len(batches[b]) : batches[b][p] = t
      BY <2>1 DEF PlaceInv
    <2>3. PICK p \in 1..Len(batches[b]) : batches[b][p] = t
      BY <2>2
    <2>4. PICK i \in 1..Len(results) : results[i].tx = t
      <3>1. \A c \in 1..Len(batches) : \A q \in 1..Len(batches[c]) :
                Passed(c, q) /\ kind[batches[c][q]] = "stones" =>
                    \E i \in 1..Len(results) : results[i].tx = batches[c][q]
        BY DEF ResultInv
      <3> QED
        BY <1>3, <2>1, <2>3, <3>1, Zenon
    <2>5. {j \in 1..Len(results) : results[j].tx = t} = {i}
      BY <2>4 DEF ResultInv
    <2> QED
      BY <2>5, FS_Singleton DEF TimesIn
  <1>6. ASSUME NEW t \in txids, t \notin Decodable \ other
        PROVE  TimesIn(t) = 0
    <2>1. \A i \in 1..Len(results) : results[i].tx # t
      <3> SUFFICES ASSUME NEW i \in 1..Len(results), results[i].tx = t PROVE FALSE
        OBVIOUS
      <3>1. /\ kind[results[i].tx] = "stones"
            /\ \E b \in 1..Len(batches) : \E p \in 1..Len(batches[b]) :
                  Passed(b, p) /\ results[i].tx = batches[b][p]
        BY DEF ResultInv
      <3>2. PICK b \in 1..Len(batches) : \E p \in 1..Len(batches[b]) : t = batches[b][p]
        BY <3>1, Zenon
      <3>3. Selected(t) /\ kind[t] = "stones" /\ t \in Txs
        BY <1>4, <3>1, <3>2 DEF PlaceInv
      <3> QED
        BY <1>6, <3>3 DEF Decodable, Selected
    <2>2. {j \in 1..Len(results) : results[j].tx = t} = {}
      BY <2>1
    <2> QED
      BY <2>2, FS_EmptySet DEF TimesIn
  <1> QED
    BY <1>5, <1>6 DEF CompleteOrError, StoneInv

\* CompleteOrError, however many transactions, batches and calls in flight there
\* are: when decode_and_trace_for_block succeeds, each transaction that decodes has
\* exactly one result, with all of its protostones. The batches partition the block
\* (BatchesExact), a transaction in hand has no result yet, and one that a batch is
\* through with has one unless fatal_err is set.
THEOREM DecodedExactlyOnce == Spec => []CompleteOrError
  BY DecodeInit, DecodeNext, DecodeComplete, PTL DEF Spec
=============================================================================
