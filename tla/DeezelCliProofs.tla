-------------------------- MODULE DeezelCliProofs ----------------------------
(***************************************************************************)
(* Proofs about the deezel command line, for any number of processes, any  *)
(* sessions, mnemonics, passphrases and address counts.                    *)
(***************************************************************************)
EXTENDS DeezelCli, Functions, SequenceTheorems, WellFoundedInduction, TLAPS

-----------------------------------------------------------------------------
(* Loops *)

\* A set of natural numbers that is not empty has a least one.
LEMMA LeastNumber ==
    ASSUME NEW T \in SUBSET Nat, T # {}
    PROVE  \E m \in T : \A n \in T : m <= n
  <1> DEFINE R == OpToRel(<, Nat)
  <1>1. \A x, y \in Nat : x < y => <<x, y>> \in R
    BY DEF OpToRel
  <1>2. IsWellFoundedOn(R, Nat)
    BY NatLessThanWellFounded
  <1> HIDE DEF R
  <1>3. PICK m \in T : \A n \in T : ~(<<n, m>> \in R)
    BY <1>2, WFMin
  <1>4. \A n \in T : ~(n < m)
    BY <1>1, <1>3
  <1> QED
    BY <1>4, \A n \in T : n \in Nat /\ m \in Nat, SMT

\* What holds at the start and is kept by each turn holds after every turn.
LEMMA EveryTurn ==
    ASSUME NEW N \in Nat, NEW S, 0 \in S, \A n \in 0..(N - 1) : n \in S => n + 1 \in S
    PROVE  0..N \subseteq S
  <1> DEFINE bad == {n \in 0..N : n \notin S}
  <1>1. SUFFICES ASSUME bad # {} PROVE FALSE
    OBVIOUS
  <1>2. PICK m \in bad : \A n \in bad : m <= n
    <2>1. bad \in SUBSET Nat
      OBVIOUS
    <2> HIDE DEF bad
    <2> QED
      BY <1>1, <2>1, LeastNumber
  <1>3. m - 1 \in 0..(N - 1) /\ (m - 1) + 1 = m /\ ~(m <= m - 1)
    OBVIOUS
  <1>4. m - 1 \in S
    BY <1>2, <1>3
  <1> QED
    BY <1>3, <1>4

\* A loop with the turn f, from base on
Loops(f, base, g) == g[0] = base /\ \A i \in Nat : g[i + 1] = f[<<i, g[i]>>]

LEMMA LoopExists ==
    ASSUME NEW A, NEW base \in A, NEW f \in [Nat \X A -> A]
    PROVE  \E g \in [Nat -> A] : Loops(f, base, g)
  <1> DEFINE Runs(n, g) ==
                /\ g \in [0..n -> A] /\ g[0] = base
                /\ \A i \in 0..(n - 1) : g[i + 1] = f[<<i, g[i]>>]
             good == {n \in Nat : \E g : Runs(n, g)}
             run(n) == CHOOSE g : Runs(n, g)
             all == [n \in Nat |-> run(n)[n]]
  <1>1. 0 \in good
    <2> DEFINE h == [i \in 0..0 |-> base]
    <2>1. Runs(0, h)
      OBVIOUS
    <2> HIDE DEF Runs, h
    <2> QED
      BY <2>1
  <1>2. ASSUME NEW n \in Nat, n \in good PROVE n + 1 \in good
    <2>1. PICK g : Runs(n, g)
      <3> HIDE DEF Runs
      <3> QED
        BY <1>2
    <2> DEFINE h == [i \in 0..(n + 1) |-> IF i <= n THEN g[i] ELSE f[<<n, g[n]>>]]
    <2>2. g[n] \in A /\ f[<<n, g[n]>>] \in A
      BY <2>1
    <2>3. h \in [0..(n + 1) -> A] /\ h[0] = base /\ h[n + 1] = f[<<n, g[n]>>]
      BY <2>1, <2>2
    <2>4. \A i \in 0..n : h[i] = g[i] /\ i + 1 \in 0..(n + 1)
      OBVIOUS
    <2>5. ASSUME NEW i \in 0..((n + 1) - 1) PROVE h[i + 1] = f[<<i, h[i]>>]
      <3>1. CASE i = n
        <4>1. h[n] = g[n] /\ h[n + 1] = f[<<n, g[n]>>]
          BY <2>3, <2>4
        <4> HIDE DEF h
        <4> QED
          BY <3>1, <4>1
      <3>2. CASE i # n
        <4>1. i \in 0..(n - 1) /\ i + 1 \in 0..n /\ i \in 0..n
          BY <3>2
        <4> HIDE DEF h
        <4> QED
          BY <2>1, <2>4, <4>1
      <3> QED
        BY <3>1, <3>2
    <2> HIDE DEF h
    <2>6. Runs(n + 1, h)
      BY <2>3, <2>5
    <2> HIDE DEF Runs
    <2> QED
      BY <2>6
  <1> HIDE DEF good, Runs
  <1>3. \A n \in Nat : n \in good
    <2> TAKE n \in Nat
    <2>1. \A i \in 0..(n - 1) : i \in Nat
      OBVIOUS
    <2>2. 0..n \subseteq good
      BY <1>1, <1>2, <2>1, EveryTurn
    <2> QED
      BY <2>2
  <1>4. \A n \in Nat : Runs(n, run(n))
    BY <1>3 DEF good
  <1>5. ASSUME NEW n \in Nat PROVE run(n + 1)[n] = run(n)[n]
    <2> DEFINE same == {i \in 0..n : run(n + 1)[i] = run(n)[i]}
    <2>1. Runs(n, run(n)) /\ Runs(n + 1, run(n + 1))
      BY <1>4
    <2> HIDE DEF run
    <2>2. 0 \in same
      BY <2>1 DEF Runs
    <2>3. \A i \in 0..(n - 1) : i \in same => i + 1 \in same
      <3> TAKE i \in 0..(n - 1)
      <3>1. /\ run(n)[i + 1] = f[<<i, run(n)[i]>>] /\ i + 1 \in 0..n
            /\ run(n + 1)[i + 1] = f[<<i, run(n + 1)[i]>>]
        BY <2>1 DEF Runs
      <3> QED
        BY <3>1
    <2> HIDE DEF same
    <2>4. 0..n \subseteq same
      BY <2>2, <2>3, EveryTurn
    <2> QED
      BY <2>4 DEF same
  <1> HIDE DEF run
  <1>6. all \in [Nat -> A] /\ all[0] = base
    BY <1>4 DEF Runs
  <1>7. \A i \in Nat : all[i + 1] = f[<<i, all[i]>>]
    <2> TAKE i \in Nat
    <2>1. run(i + 1)[i + 1] = f[<<i, run(i + 1)[i]>>]
      BY <1>4 DEF Runs
    <2> QED
      BY <1>5, <2>1
  <1> QED
    BY <1>6, <1>7 DEF Loops

\* The function that FlattenSeq builds up: what the first i sequences make together.
Joins(s, g) == g = [i \in 1..Len(s) |-> IF i = 1 THEN s[i] ELSE g[i - 1] \o s[i]]

LEMMA FlattenIsLoop ==
    ASSUME NEW s
    PROVE  FlattenSeq(s) = IF Len(s) = 0 THEN s ELSE (CHOOSE g : Joins(s, g))[Len(s)]
  BY DEF FlattenSeq, Joins

\* FlattenSeq, one sequence at a time.
LEMMA FlattenTurns ==
    ASSUME NEW A, NEW s \in Seq(Seq(A))
    PROVE  \E g \in [0..Len(s) -> Seq(A)] :
               /\ g[0] = <<>>
               /\ \A i \in 0..(Len(s) - 1) : g[i + 1] = g[i] \o s[i + 1]
               /\ FlattenSeq(s) = g[Len(s)]
  <1>1. Len(s) \in Nat /\ \A i \in 1..Len(s) : s[i] \in Seq(A)
    BY LenProperties, ElementOfSeq
  <1> DEFINE more(i) == IF i + 1 \in 1..Len(s) THEN s[i + 1] ELSE <<>>
             f == [p \in Nat \X Seq(A) |-> p[2] \o more(p[1])]
  <1>2. <<>> \in Seq(A) /\ \A i \in Nat : more(i) \in Seq(A)
    BY <1>1, EmptySeq
  <1>3. f \in [Nat \X Seq(A) -> Seq(A)]
    <2>1. \A p \in Nat \X Seq(A) : p[2] \o more(p[1]) \in Seq(A)
      <3> HIDE DEF more
      <3> QED
        BY <1>2, ConcatProperties
    <2> HIDE DEF more
    <2> QED
      BY <2>1
  <1>4. \A i \in Nat : \A t \in Seq(A) : f[<<i, t>>] = t \o more(i)
    OBVIOUS
  <1> HIDE DEF f
  <1>5. PICK g \in [Nat -> Seq(A)] : Loops(f, <<>>, g)
    BY <1>2, <1>3, LoopExists
  <1>6. g[0] = <<>> /\ \A i \in Nat : g[i + 1] = g[i] \o more(i)
    BY <1>4, <1>5 DEF Loops
  <1> DEFINE h == [i \in 1..Len(s) |-> g[i]]
  <1>7. \A i \in 1..Len(s) : g[i] = IF i = 1 THEN s[i] ELSE g[i - 1] \o s[i]
    <2> TAKE i \in 1..Len(s)
    <2>1. i - 1 \in Nat /\ (i - 1) + 1 = i /\ more(i - 1) = s[i] /\ s[i] \in Seq(A)
      BY <1>1
    <2> HIDE DEF more
    <2>2. g[i] = g[i - 1] \o s[i]
      BY <1>6, <2>1
    <2>3. CASE i = 1
      <3>1. g[i - 1] = <<>>
        BY <1>6, <2>3
      <3>2. g[i] = <<>> \o s[i]
        BY <2>2, <3>1
      <3> QED
        BY <2>1, <2>3, <3>2, ConcatEmptySeq
    <2> QED
      BY <2>2, <2>3
  <1>8. \A i \in 1..Len(s) : h[i] = IF i = 1 THEN s[i] ELSE h[i - 1] \o s[i]
    <2> TAKE i \in 1..Len(s)
    <2>1. h[i] = g[i] /\ (i # 1 => h[i - 1] = g[i - 1])
      BY <1>1
    <2> HIDE DEF h
    <2> QED
      BY <1>7, <2>1
  <1> DEFINE d == CHOOSE d : Joins(s, d)
  <1>9. Joins(s, d)
    <2>1. Joins(s, h)
      BY <1>8 DEF Joins
    <2> HIDE DEF h
    <2> QED
      BY <2>1
  <1>10. \A i \in 1..Len(s) : d[i] = g[i]
    <2> DEFINE same == {i \in 0..Len(s) : i = 0 \/ d[i] = g[i]}
    <2>1. \A i \in 1..Len(s) : d[i] = IF i = 1 THEN s[i] ELSE d[i - 1] \o s[i]
      BY <1>9 DEF Joins
    <2> HIDE DEF d
    <2>2. \A i \in 0..(Len(s) - 1) : i \in same => i + 1 \in same
      <3> TAKE i \in 0..(Len(s) - 1)
      <3> HAVE i \in same
      <3>1. i + 1 \in 1..Len(s) /\ i + 1 \in 0..Len(s) /\ (i + 1) - 1 = i
        BY <1>1
      <3>2. i = 0 \/ d[i] = g[i]
        OBVIOUS
      <3>3. d[i + 1] = (IF i + 1 = 1 THEN s[i + 1] ELSE d[i] \o s[i + 1])
        BY <2>1, <3>1
      <3>4. g[i + 1] = (IF i + 1 = 1 THEN s[i + 1] ELSE g[i] \o s[i + 1])
        BY <1>7, <3>1
      <3>5. i = 0 => i + 1 = 1
        OBVIOUS
      <3>6. d[i + 1] = g[i + 1]
        BY <3>2, <3>3, <3>4, <3>5
      <3> QED
        BY <3>1, <3>6
    <2>3. 0 \in same
      BY <1>1
    <2>4. \A i \in same : i = 0 \/ d[i] = g[i]
      OBVIOUS
    <2> HIDE DEF same
    <2>5. 0..Len(s) \subseteq same
      BY <1>1, <2>2, <2>3, EveryTurn
    <2>6. \A i \in 1..Len(s) : i \in 0..Len(s) /\ i # 0
      BY <1>1
    <2> QED
      BY <2>4, <2>5, <2>6, Zenon
  <1>11. FlattenSeq(s) = g[Len(s)]
    <2>1. CASE Len(s) = 0
      <3>1. s = <<>>
        BY <2>1, EmptySeq
      <3> QED
        BY <1>6, <2>1, <3>1, FlattenIsLoop
    <2>2. CASE Len(s) # 0
      <3>1. FlattenSeq(s) = d[Len(s)]
        BY <2>2, FlattenIsLoop
      <3>2. Len(s) \in 1..Len(s)
        BY <1>1, <2>2
      <3> HIDE DEF d
      <3> QED
        BY <1>10, <3>1, <3>2, Zenon
    <2> QED
      BY <2>1, <2>2
  <1> DEFINE k == [i \in 0..Len(s) |-> g[i]]
  <1>12. k \in [0..Len(s) -> Seq(A)] /\ k[0] = <<>> /\ FlattenSeq(s) = k[Len(s)]
    BY <1>1, <1>6, <1>11
  <1>13. \A i \in 0..(Len(s) - 1) : k[i + 1] = k[i] \o s[i + 1]
    <2> TAKE i \in 0..(Len(s) - 1)
    <2>1. /\ i \in Nat /\ i \in 0..Len(s) /\ i + 1 \in 0..Len(s) /\ i + 1 \in 1..Len(s)
          /\ more(i) = s[i + 1]
      BY <1>1
    <2> HIDE DEF more
    <2> QED
      BY <1>6, <2>1
  <1> HIDE DEF k
  <1> QED
    BY <1>12, <1>13

LEMMA FlattenEmpty == FlattenSeq(<<>>) = <<>>
  BY FlattenIsLoop, EmptySeq

LEMMA FlattenType ==
    ASSUME NEW A, NEW s \in Seq(Seq(A))
    PROVE  FlattenSeq(s) \in Seq(A)
  <1>1. PICK g \in [0..Len(s) -> Seq(A)] : FlattenSeq(s) = g[Len(s)]
    BY FlattenTurns
  <1>2. Len(s) \in 0..Len(s)
    BY LenProperties
  <1> QED
    BY <1>1, <1>2

LEMMA FlattenAppend ==
    ASSUME NEW A, NEW s \in Seq(Seq(A)), NEW t \in Seq(A)
    PROVE  FlattenSeq(Append(s, t)) = FlattenSeq(s) \o t
  <1> DEFINE n == Len(s)
             u == Append(s, t)
  <1>1. /\ n \in Nat /\ u \in Seq(Seq(A)) /\ Len(u) = n + 1
        /\ \A i \in 1..n : u[i] = s[i]
        /\ u[n + 1] = t
    BY LenProperties, AppendProperties
  <1>2. PICK g \in [0..n -> Seq(A)] :
           /\ g[0] = <<>> /\ \A i \in 0..(n - 1) : g[i + 1] = g[i] \o s[i + 1]
           /\ FlattenSeq(s) = g[n]
    BY FlattenTurns
  <1> HIDE DEF n, u
  <1>3. PICK h \in [0..(n + 1) -> Seq(A)] :
           /\ h[0] = <<>> /\ \A i \in 0..n : h[i + 1] = h[i] \o u[i + 1]
           /\ FlattenSeq(u) = h[n + 1]
    <2>1. PICK h \in [0..Len(u) -> Seq(A)] :
             /\ h[0] = <<>> /\ \A i \in 0..(Len(u) - 1) : h[i + 1] = h[i] \o u[i + 1]
             /\ FlattenSeq(u) = h[Len(u)]
      BY <1>1, FlattenTurns
    <2>2. Len(u) - 1 = n
      BY <1>1
    <2> QED
      BY <1>1, <2>1, <2>2
  <1> DEFINE same == {i \in 0..n : h[i] = g[i]}
  <1>4. 0 \in same
    BY <1>1, <1>2, <1>3
  <1>5. \A i \in 0..(n - 1) : i \in same => i + 1 \in same
    <2> TAKE i \in 0..(n - 1)
    <2> HAVE i \in same
    <2>1. i \in 0..n /\ i + 1 \in 1..n /\ i + 1 \in 0..n
      BY <1>1
    <2>2. h[i + 1] = h[i] \o u[i + 1] /\ g[i + 1] = g[i] \o s[i + 1] /\ u[i + 1] = s[i + 1]
      BY <1>1, <1>2, <1>3, <2>1
    <2> QED
      BY <2>1, <2>2
  <1>6. \A i \in same : h[i] = g[i]
    OBVIOUS
  <1> HIDE DEF same
  <1>7. 0..n \subseteq same /\ n \in 0..n
    <2>1. 0..n \subseteq same
      BY <1>1, <1>4, <1>5, EveryTurn
    <2> QED
      BY <1>1, <2>1
  <1>8. h[n + 1] = g[n] \o t
    BY <1>1, <1>3, <1>6, <1>7
  <1> QED
    BY <1>2, <1>3, <1>8 DEF u

-----------------------------------------------------------------------------
(* FoldLeft *)

\* The function that FoldLeft builds up, on any set of places, of the function F of
\* what there is and the next element.
Folds(F, base, s, g) ==
    g = [t \in SUBSET (DOMAIN s) |->
            IF t = {} THEN base ELSE F[<<g[t \ {Max(t)}], s[Max(t)]>>]]

LEMMA MaxIn ==
    ASSUME NEW n \in Nat, NEW t \in SUBSET (1..n), t # {}
    PROVE  Max(t) \in t /\ \A y \in t : y <= Max(t)
  <1> DEFINE T == {k \in Nat : \A y \in t : y <= k}
  <1>1. T \in SUBSET Nat /\ n \in T
    OBVIOUS
  <1> HIDE DEF T
  <1>2. PICK m \in T : \A k \in T : m <= k
    BY <1>1, LeastNumber
  <1>3. m \in Nat /\ \A y \in t : y <= m
    BY <1>2 DEF T
  <1>4. m \in t
    <2>1. SUFFICES ASSUME m \notin t PROVE FALSE
      OBVIOUS
    <2>2. \A y \in t : y \in 1..n /\ y <= m /\ y # m
      BY <1>3, <2>1
    <2>3. m - 1 \in Nat /\ \A y \in t : y <= m - 1
      <3>1. PICK y \in t : TRUE
        OBVIOUS
      <3>2. y \in 1..n /\ y <= m /\ m \in Nat
        BY <1>3, <2>2
      <3>3. m - 1 \in Nat
        BY <3>2
      <3> QED
        BY <1>3, <2>2, <3>3
    <2>4. m - 1 \in T
      BY <2>3 DEF T
    <2> QED
      BY <1>2, <1>3, <2>4
  <1>5. \A y \in t : m >= y
    BY <1>3
  <1> QED
    BY <1>4, <1>5 DEF Max

\* Such a function exists.
LEMMA FoldExists ==
    ASSUME NEW A, NEW B, NEW base \in A, NEW F \in [A \X B -> A], NEW s \in Seq(B)
    PROVE  \E g \in [SUBSET (DOMAIN s) -> A] : Folds(F, base, s, g)
  <1> DEFINE L == Len(s)
             D == SUBSET (1..L)
             next(i, a) == [t \in D |-> IF i + 1 \in t THEN F[<<a[t], s[i + 1]>>] ELSE a[t]]
             f == [p \in Nat \X [D -> A] |-> next(p[1], p[2])]
             none == [t \in D |-> base]
  <1>1. L \in Nat /\ DOMAIN s = 1..L /\ \A i \in 1..L : s[i] \in B
    BY LenProperties, ElementOfSeq
  <1>2. f \in [Nat \X [D -> A] -> [D -> A]]
    <2>1. \A i \in Nat, a \in [D -> A] : next(i, a) \in [D -> A]
      <3> TAKE i \in Nat, a \in [D -> A]
      <3>1. \A t \in D : i + 1 \in t => s[i + 1] \in B
        BY <1>1
      <3>2. \A t \in D : (IF i + 1 \in t THEN F[<<a[t], s[i + 1]>>] ELSE a[t]) \in A
        BY <3>1
      <3> QED
        BY <3>2
    <2> HIDE DEF next
    <2> QED
      BY <2>1
  <1>3. none \in [D -> A] /\ \A t \in D : none[t] = base
    OBVIOUS
  <1>4. \A i \in Nat, a \in [D -> A] : \A t \in D :
            f[<<i, a>>][t] = IF i + 1 \in t THEN F[<<a[t], s[i + 1]>>] ELSE a[t]
    OBVIOUS
  <1> HIDE DEF f, none, D
  <1>5. PICK all \in [Nat -> [D -> A]] : Loops(f, none, all)
    BY <1>2, <1>3, LoopExists
  <1>6. /\ all[0] = none
        /\ \A i \in Nat : all[i] \in [D -> A] /\ all[i + 1] = f[<<i, all[i]>>]
    BY <1>5 DEF Loops
  <1> DEFINE E(i, t) == all[i][t]
  <1>7. /\ \A t \in D : E(0, t) = base
        /\ \A i \in Nat : \A t \in D :
              E(i + 1, t) = IF i + 1 \in t THEN F[<<E(i, t), s[i + 1]>>] ELSE E(i, t)
    <2>1. \A t \in D : E(0, t) = base
      BY <1>3, <1>6
    <2>2. \A i \in Nat : \A t \in D :
              E(i + 1, t) = IF i + 1 \in t THEN F[<<E(i, t), s[i + 1]>>] ELSE E(i, t)
      <3> TAKE i \in Nat
      <3> TAKE t \in D
      <3>1. all[i + 1] = f[<<i, all[i]>>] /\ all[i] \in [D -> A]
        BY <1>6
      <3>2. f[<<i, all[i]>>][t] = IF i + 1 \in t THEN F[<<all[i][t], s[i + 1]>>] ELSE all[i][t]
        BY <1>4, <3>1
      <3> QED
        BY <3>1, <3>2
    <2> QED
      BY <2>1, <2>2
  <1>8. \A i \in Nat : \A t \in D : E(i, t) \in A
    BY <1>6
  <1> HIDE DEF E
  \* What comes after all places of t changes nothing.
  <1>9. ASSUME NEW t \in D, NEW m \in 0..L, \A y \in t : y <= m
        PROVE  E(L, t) = E(m, t)
    <2> DEFINE same == {j \in 0..(L - m) : E(m + j, t) = E(m, t)}
    <2>1. L - m \in Nat /\ m \in Nat
      BY <1>1
    <2>2. 0 \in same
      BY <2>1
    <2>3. \A j \in 0..((L - m) - 1) : j \in same => j + 1 \in same
      <3> TAKE j \in 0..((L - m) - 1)
      <3> HAVE j \in same
      <3>1. j + 1 \in 0..(L - m) /\ m + j \in Nat /\ (m + j) + 1 = m + (j + 1) /\ ~(m + j + 1 <= m)
        BY <2>1
      <3>2. (m + j) + 1 \notin t
        BY <1>9, <3>1
      <3>3. E((m + j) + 1, t) = E(m + j, t)
        BY <1>7, <3>1, <3>2
      <3> QED
        BY <3>1, <3>3
    <2>4. \A j \in same : E(m + j, t) = E(m, t)
      OBVIOUS
    <2> HIDE DEF same
    <2>5. 0..(L - m) \subseteq same
      BY <2>1, <2>2, <2>3, EveryTurn
    <2>6. L - m \in 0..(L - m) /\ m + (L - m) = L
      BY <1>1
    <2>7. E(m + (L - m), t) = E(m, t)
      BY <2>4, <2>5, <2>6
    <2> QED
      BY <2>6, <2>7
  <1> DEFINE g == [t \in D |-> E(L, t)]
  <1>10. ASSUME NEW t \in D
         PROVE  E(L, t) = IF t = {} THEN base ELSE F[<<E(L, t \ {Max(t)}), s[Max(t)]>>]
    <2>1. CASE t = {}
      <3>1. E(L, t) = E(0, t)
        BY <1>1, <1>9, <2>1
      <3> QED
        BY <1>7, <2>1, <3>1
    <2>2. CASE t # {}
      <3> DEFINE m == Max(t)
                 u == t \ {m}
      <3>1. m \in t /\ \A y \in t : y <= m
        BY <1>1, <2>2, MaxIn DEF D
      <3>2. m \in 1..L /\ m \in 0..L /\ m - 1 \in Nat /\ m - 1 \in 0..L /\ (m - 1) + 1 = m
        <4>1. t \subseteq 1..L
          BY DEF D
        <4> HIDE DEF m
        <4>2. m \in 1..L
          BY <3>1, <4>1
        <4> QED
          BY <1>1, <4>2
      <3>3. u \in D /\ \A y \in u : y <= m - 1
        <4>1. \A y \in t : y \in 1..L
          BY DEF D
        <4>2. \A y \in u : y \in t /\ y # m
          OBVIOUS
        <4>3. u \in D
          BY DEF D
        <4> HIDE DEF m, u
        <4> QED
          BY <1>1, <3>1, <3>2, <4>1, <4>2, <4>3
      <3>4. \A y : y \in u <=> y \in t /\ y # m
        OBVIOUS
      <3> HIDE DEF m, u
      <3> DEFINE same == {i \in 0..(m - 1) : E(i, t) = E(i, u)}
      <3>5. 0 \in same
        BY <1>7, <3>2, <3>3
      <3>6. \A i \in 0..((m - 1) - 1) : i \in same => i + 1 \in same
        <4> TAKE i \in 0..((m - 1) - 1)
        <4> HAVE i \in same
        <4>1. i \in Nat /\ i + 1 \in 0..(m - 1) /\ i + 1 # m /\ E(i, t) = E(i, u)
          BY <3>2
        <4>2. i + 1 \in t <=> i + 1 \in u
          BY <3>4, <4>1
        <4>3. E(i + 1, t) = E(i + 1, u)
          BY <1>7, <3>3, <4>1, <4>2
        <4> QED
          BY <4>1, <4>3
      <3>7. \A i \in same : E(i, t) = E(i, u)
        OBVIOUS
      <3> HIDE DEF same
      <3>8. m - 1 \in same
        <4>1. 0..(m - 1) \subseteq same
          BY <3>2, <3>5, <3>6, EveryTurn
        <4> QED
          BY <3>2, <4>1
      <3>9. E(m - 1, t) = E(L, u)
        <4>1. E(L, u) = E(m - 1, u)
          BY <1>9, <3>2, <3>3
        <4> QED
          BY <3>7, <3>8, <4>1
      <3>10. E(L, t) = E(m, t)
        BY <1>9, <3>1, <3>2
      <3>11. E(m, t) = F[<<E(m - 1, t), s[m]>>]
        BY <1>7, <3>1, <3>2
      <3>12. E(L, t) = F[<<E(L, u), s[m]>>]
        BY <3>9, <3>10, <3>11
      <3> QED
        BY <2>2, <3>12 DEF m, u
    <2> QED
      BY <2>1, <2>2
  <1>11. \A t \in D : t \ {Max(t)} \in D
    BY DEF D
  <1>12. \A t \in D : g[t] = IF t = {} THEN base ELSE F[<<g[t \ {Max(t)}], s[Max(t)]>>]
    <2> TAKE t \in D
    <2>1. g[t] = E(L, t) /\ g[t \ {Max(t)}] = E(L, t \ {Max(t)})
      BY <1>11
    <2> HIDE DEF g
    <2> QED
      BY <1>10, <2>1
  <1>13. g \in [D -> A]
    BY <1>1, <1>8
  <1>14. g = [t \in D |-> IF t = {} THEN base ELSE F[<<g[t \ {Max(t)}], s[Max(t)]>>]]
    <2>1. g = [t \in D |-> g[t]]
      OBVIOUS
    <2> HIDE DEF g
    <2> QED
      BY <1>12, <2>1
  <1>15. D = SUBSET (DOMAIN s)
    BY <1>1 DEF D
  <1> HIDE DEF g
  <1> QED
    BY <1>13, <1>14, <1>15 DEF Folds

-----------------------------------------------------------------------------
(* The shapes of plans *)

\* What a step is of: a method of a trait, or nothing.
Traits == {"", "bitcoin", "metashrew", "esplora", "ord", "alkanes", "rpc"}
Named(table) == {table[x] : x \in DOMAIN table}
MethodNames ==
    Named(EsploraCall) \cup Named(EsploraAddressCall) \cup Named(OrdCall) \cup Named(OrdLookup)
    \cup {"", "get_block_count", "generate_to_address", "send_raw_transaction", "broadcast",
          "get_transaction_hex", "get_block_hash", "get_address_info", "get_address_utxo",
          "get_address_txs", "get_fee_estimates", "get_tx", "get_inscription",
          "get_metashrew_height", "trace_outpoint", "get_protorunes_by_address",
          "get_protorunes_by_outpoint", "get_balance", "get_bytecode", "simulate", "get_block",
          "sequence", "spendables_by_address", "trace_block", "trace", "call"}
Texts == Traits \X MethodNames

\* The steps that matter to the order of a plan are write and report, readFile,
\* select and sign; the rest is plain.
PlainWords ==
    {"ask", "try", "parse", "confirm", "needKeystore", "unlock", "resolve", "stub", "refuse",
     "panic", "decode", "sync", "generate", "import", "truncate", "fetch"}
SendMethods == {<<"bitcoin", "send_raw_transaction">>, <<"esplora", "broadcast">>}
Lists == {"first", "default", "networks", "range"}
Purses == {"own", "listed", "named", "nothing"}

Plain ==
    [do : PlainWords, of : Texts] \cup [do : {"show"}, of : Lists \X {""}]
    \cup [do : {"send"}, of : SendMethods]
Selecting == Plain \cup [do : {"select"}, of : Purses \X {""}]
Signing == Plain \cup [do : {"sign"}, of : Texts]
Steps == Selecting \cup Signing \cup [do : {"write", "report", "readFile"}, of : Texts]

PlainPlans == Seq(Plain)
SelectingPlans == Seq(Selecting)
SigningPlans == Seq(Signing)

\* A payment selects before it signs, a command that reads the file does so first,
\* and one that writes it has a mnemonic and ends by printing it.
Payments == {s \o g : s \in SelectingPlans, g \in SigningPlans}
Readers == {Do("readFile") \o a : a \in PlainPlans}
Fresh == {a \in PlainPlans : Has(a, "generate") \/ Has(a, "import")}
Creations == {a \o Create : a \in Fresh}
GoodPlans == Payments \cup Readers \cup Creations

GoodTable(f) == \A c \in DOMAIN f : f[c] \subseteq GoodPlans

LEMMA PlainSteps ==
    /\ <<>> \in PlainPlans
    /\ \A w \in PlainWords : Do(w) \in PlainPlans
    /\ \A t \in Traits, n \in MethodNames : Ask(t, n) \in PlainPlans /\ Try(t, n) \in PlainPlans
    /\ Pay("bitcoin", "send_raw_transaction") \in PlainPlans
    /\ Pay("esplora", "broadcast") \in PlainPlans
    /\ \A w \in Lists : Show(w) \in PlainPlans
  <1>1. \A s \in Plain : <<s>> \in PlainPlans
    BY DEF PlainPlans
  <1>2. "" \in Traits /\ "" \in MethodNames /\ "ask" \in PlainWords /\ "try" \in PlainWords
    BY DEF Traits, MethodNames, PlainWords
  <1>3. \A w \in PlainWords, t \in Traits, n \in MethodNames : [do |-> w, of |-> <<t, n>>] \in Plain
    BY DEF Plain, Texts
  <1>4. \A m \in SendMethods : [do |-> "send", of |-> m] \in Plain
    BY DEF Plain
  <1>5. \A w \in Lists : [do |-> "show", of |-> <<w, "">>] \in Plain
    BY DEF Plain
  <1>6. \A w \in PlainWords : Do(w) \in PlainPlans
    BY <1>1, <1>2, <1>3 DEF Do
  <1>7. \A t \in Traits, n \in MethodNames : Ask(t, n) \in PlainPlans /\ Try(t, n) \in PlainPlans
    BY <1>1, <1>2, <1>3 DEF Ask, Try
  <1>8. /\ Pay("bitcoin", "send_raw_transaction") \in PlainPlans
        /\ Pay("esplora", "broadcast") \in PlainPlans
    BY <1>1, <1>4 DEF Pay, SendMethods
  <1>9. \A w \in Lists : Show(w) \in PlainPlans
    BY <1>1, <1>5 DEF Show
  <1>10. <<>> \in PlainPlans
    BY DEF PlainPlans
  <1> QED
    BY <1>6, <1>7, <1>8, <1>9, <1>10

LEMMA OtherSteps ==
    /\ \A w \in Purses : Select(w) \in SelectingPlans
    /\ Do("sign") \in SigningPlans
    /\ PlainPlans \subseteq SelectingPlans
    /\ PlainPlans \subseteq SigningPlans
  <1>1. \A w \in Purses : [do |-> "select", of |-> <<w, "">>] \in Selecting
    BY DEF Selecting
  <1>2. \A w \in Purses : Select(w) \in SelectingPlans
    <2>1. \A s \in Selecting : <<s>> \in SelectingPlans
      BY DEF SelectingPlans
    <2> QED
      BY <1>1, <2>1 DEF Select
  <1>3. [do |-> "sign", of |-> <<"", "">>] \in Signing
    BY DEF Signing, Texts, Traits, MethodNames
  <1>4. Do("sign") \in SigningPlans
    <2>1. \A s \in Signing : <<s>> \in SigningPlans
      BY DEF SigningPlans
    <2> QED
      BY <1>3, <2>1 DEF Do
  <1>5. Plain \subseteq Selecting /\ Plain \subseteq Signing
    BY DEF Selecting, Signing
  <1>6. PlainPlans \subseteq SelectingPlans /\ PlainPlans \subseteq SigningPlans
    BY <1>5, SeqMonotonic DEF PlainPlans, SelectingPlans, SigningPlans
  <1> QED
    BY <1>2, <1>4, <1>6

\* How plans are put together.
LEMMA Joining ==
    /\ \A a, b \in PlainPlans : a \o b \in PlainPlans
    /\ \A a, b \in SelectingPlans : a \o b \in SelectingPlans
    /\ \A a, b \in SigningPlans : a \o b \in SigningPlans
    /\ \A s \in SelectingPlans, g \in SigningPlans : s \o g \in Payments
    /\ \A s \in SelectingPlans, x \in Payments : s \o x \in Payments
    /\ \A x \in Readers, a \in PlainPlans : x \o a \in Readers
    /\ \A a \in Fresh : a \o Create \in Creations
    /\ \A s \in SelectingPlans : s \in Payments
    /\ Do("readFile") \in Readers
  <1>0. <<>> \in PlainPlans /\ PlainPlans \subseteq SelectingPlans
        /\ PlainPlans \subseteq SigningPlans
    BY PlainSteps, OtherSteps
  <1>1. \A a, b \in PlainPlans : a \o b \in PlainPlans
    BY ConcatProperties DEF PlainPlans
  <1>2. \A a, b \in SelectingPlans : a \o b \in SelectingPlans
    BY ConcatProperties DEF SelectingPlans
  <1>3. \A a, b \in SigningPlans : a \o b \in SigningPlans
    BY ConcatProperties DEF SigningPlans
  <1>4. \A s \in SelectingPlans, g \in SigningPlans : s \o g \in Payments
    BY DEF Payments
  <1>5. SelectingPlans \subseteq Seq(Steps) /\ SigningPlans \subseteq Seq(Steps)
        /\ PlainPlans \subseteq Seq(Steps) /\ Do("readFile") \in Seq(Steps)
    <2>1. Selecting \subseteq Steps /\ Signing \subseteq Steps
          /\ [do |-> "readFile", of |-> <<"", "">>] \in Steps
      BY DEF Steps, Texts, Traits, MethodNames
    <2>2. SelectingPlans \subseteq Seq(Steps) /\ SigningPlans \subseteq Seq(Steps)
      BY <2>1, SeqMonotonic DEF SelectingPlans, SigningPlans
    <2>3. \A s \in Steps : <<s>> \in Seq(Steps)
      OBVIOUS
    <2>4. Do("readFile") \in Seq(Steps)
      BY <2>1, <2>3 DEF Do
    <2> QED
      BY <1>0, <2>2, <2>4
  <1>6. ASSUME NEW s \in SelectingPlans, NEW x \in Payments
        PROVE  s \o x \in Payments
    <2>1. PICK t \in SelectingPlans, g \in SigningPlans : x = t \o g
      BY DEF Payments
    <2>2. (s \o t) \o g = s \o (t \o g)
      BY <1>5, ConcatAssociative
    <2> QED
      BY <1>2, <1>4, <2>1, <2>2
  <1>7. ASSUME NEW x \in Readers, NEW a \in PlainPlans
        PROVE  x \o a \in Readers
    <2>1. PICK b \in PlainPlans : x = Do("readFile") \o b
      BY DEF Readers
    <2>2. (Do("readFile") \o b) \o a = Do("readFile") \o (b \o a)
      BY <1>5, ConcatAssociative
    <2> QED
      BY <1>1, <2>1, <2>2 DEF Readers
  <1>8. ASSUME NEW s \in SelectingPlans
        PROVE  s \in Payments
    <2>1. s \o <<>> = s
      BY ConcatEmptySeq DEF SelectingPlans
    <2> QED
      BY <1>0, <1>4, <2>1
  <1>9. Do("readFile") \in Readers
    <2>1. Do("readFile") \o <<>> = Do("readFile")
      BY <1>5, ConcatEmptySeq
    <2> QED
      BY <1>0, <2>1 DEF Readers
  <1>10. \A a \in Fresh : a \o Create \in Creations
    BY DEF Creations
  <1> QED
    BY <1>1, <1>2, <1>3, <1>4, <1>6, <1>7, <1>8, <1>9, <1>10

LEMMA Tables ==
    /\ \A f, g : GoodTable(f) /\ GoodTable(g) => GoodTable(f ++ g)
    /\ \A group, names, plans : plans \subseteq GoodPlans => GoodTable(Command(group, names, plans))
  <1>1. ASSUME NEW f, NEW g, GoodTable(f), GoodTable(g)
        PROVE  GoodTable(f ++ g)
    BY <1>1 DEF GoodTable, ++
  <1>2. ASSUME NEW group, NEW names, NEW plans, plans \subseteq GoodPlans
        PROVE  GoodTable(Command(group, names, plans))
    BY <1>2 DEF GoodTable, Command
  <1> QED
    BY <1>1, <1>2

LEMMA PlainGood == \A plans : plans \subseteq PlainPlans => plans \subseteq GoodPlans
  BY OtherSteps, Joining DEF GoodPlans

LEMMA CallsGood ==
    ASSUME NEW group, NEW trait \in Traits, NEW table, Named(table) \subseteq MethodNames
    PROVE  GoodTable(Calls(group, trait, table))
  <1>1. \A x \in DOMAIN table : Ask(trait, table[x]) \in PlainPlans
    BY PlainSteps DEF Named
  <1>2. \A c \in {group} \X DOMAIN table : {Ask(trait, table[c[2]])} \subseteq GoodPlans
    BY <1>1, PlainGood
  <1> QED
    BY <1>2 DEF Calls, GoodTable

LEMMA EsploraGood == GoodTable(LibraryEsploraPlans) /\ GoodTable(ShellEsploraPlans)
  <1>1. GoodTable(Calls("esplora", "esplora", EsploraCall))
        /\ GoodTable(Calls("esplora", "esplora", EsploraAddressCall))
    BY CallsGood DEF Traits, MethodNames
  <1>2. {Pay("esplora", "broadcast")} \subseteq GoodPlans
    BY PlainSteps, PlainGood
  <1>3. GoodTable(Command("esplora", {"Broadcast", "PostTx"}, {Pay("esplora", "broadcast")}))
    BY <1>2, Tables
  <1>4. GoodTable(EsploraPlans)
    BY <1>1, <1>3, Tables DEF EsploraPlans
  <1>5. \A x \in DOMAIN EsploraAddressCall :
            Do("resolve") \o Ask("esplora", EsploraAddressCall[x]) \in PlainPlans
    <2>1. "resolve" \in PlainWords /\ "esplora" \in Traits
      BY DEF PlainWords, Traits
    <2>2. \A x \in DOMAIN EsploraAddressCall : EsploraAddressCall[x] \in MethodNames
      BY DEF MethodNames, Named
    <2> QED
      BY <2>1, <2>2, PlainSteps, Joining
  <1>6. GoodTable([c \in {"esplora"} \X DOMAIN EsploraAddressCall |->
                       {Do("resolve") \o Ask("esplora", EsploraAddressCall[c[2]])}])
    BY <1>5, PlainGood DEF GoodTable
  <1> QED
    BY <1>1, <1>4, <1>6, Tables DEF LibraryEsploraPlans, ShellEsploraPlans

LEMMA OrdGood == GoodTable(LibraryOrdPlans) /\ GoodTable(ShellOrdPlans)
  <1>1. GoodTable(Calls("ord", "ord", OrdCall)) /\ GoodTable(Calls("ord", "ord", OrdLookup))
    BY CallsGood DEF Traits, MethodNames
  <1>2. GoodTable(LibraryOrdPlans)
    BY <1>1, Tables DEF LibraryOrdPlans
  <1> DEFINE names == {"InscriptionsInBlock", "Children", "Inscriptions"}
  <1>3. \A x \in names : Ask("ord", OrdCall[x]) \in PlainPlans
    <2>1. names \subseteq DOMAIN OrdCall
      BY DEF OrdCall
    <2>2. \A x \in names : OrdCall[x] \in MethodNames
      BY <2>1 DEF MethodNames, Named
    <2> QED
      BY <2>2, PlainSteps DEF Traits
  <1>4. Ask("ord", "get_inscription") \in PlainPlans
    BY PlainSteps DEF Traits, MethodNames
  <1>5. \A x \in names : {Ask("ord", OrdCall[x]),
                           Ask("ord", OrdCall[x]) \o Ask("ord", "get_inscription")} \subseteq GoodPlans
    <2> HIDE DEF names
    <2> QED
      BY <1>3, <1>4, Joining, PlainGood
  <1>6. GoodTable([c \in {"ord"} \X names |->
             {Ask("ord", OrdCall[c[2]]), Ask("ord", OrdCall[c[2]]) \o Ask("ord", "get_inscription")}])
    <2> HIDE DEF names
    <2> QED
      BY <1>5 DEF GoodTable
  <1> QED
    BY <1>2, <1>6, Tables DEF ShellOrdPlans

LEMMA PairsGood == \A a, b \in PlainPlans : {a \o b} \subseteq GoodPlans
  BY Joining, PlainGood

\* The steps of the other tables.
LEMMA Words ==
    /\ Do("unlock") \in PlainPlans /\ Do("resolve") \in PlainPlans /\ Do("parse") \in PlainPlans
    /\ Do("confirm") \in PlainPlans /\ Do("needKeystore") \in PlainPlans
    /\ Do("stub") \in PlainPlans /\ Do("refuse") \in PlainPlans /\ Do("panic") \in PlainPlans
    /\ Do("decode") \in PlainPlans /\ Do("sync") \in PlainPlans /\ Do("fetch") \in PlainPlans
    /\ Do("generate") \in PlainPlans /\ Do("import") \in PlainPlans
    /\ Show("first") \in PlainPlans /\ Show("default") \in PlainPlans
    /\ Show("networks") \in PlainPlans /\ Show("range") \in PlainPlans
  <1>1. {"unlock", "resolve", "parse", "confirm", "needKeystore", "stub", "refuse", "panic",
         "decode", "sync", "fetch", "generate", "import"} \subseteq PlainWords
    BY DEF PlainWords
  <1>2. {"first", "default", "networks", "range"} \subseteq Lists
    BY DEF Lists
  <1> QED
    BY <1>1, <1>2, PlainSteps

LEMMA Questions ==
    /\ Ask("bitcoin", "get_block_count") \in PlainPlans
    /\ Try("bitcoin", "get_block_count") \in PlainPlans
    /\ Ask("bitcoin", "generate_to_address") \in PlainPlans
    /\ Ask("bitcoin", "get_transaction_hex") \in PlainPlans
    /\ Ask("bitcoin", "get_block_hash") \in PlainPlans
    /\ Ask("esplora", "get_address_utxo") \in PlainPlans
    /\ Ask("esplora", "get_address_txs") \in PlainPlans
    /\ Ask("esplora", "get_address_info") \in PlainPlans
    /\ Ask("esplora", "get_fee_estimates") \in PlainPlans
    /\ Ask("esplora", "get_tx") \in PlainPlans
    /\ Ask("metashrew", "trace_outpoint") \in PlainPlans
    /\ Ask("metashrew", "get_metashrew_height") \in PlainPlans
    /\ Ask("metashrew", "get_protorunes_by_address") \in PlainPlans
    /\ Ask("metashrew", "get_protorunes_by_outpoint") \in PlainPlans
    /\ Ask("alkanes", "get_balance") \in PlainPlans
    /\ Ask("alkanes", "get_bytecode") \in PlainPlans
    /\ Ask("alkanes", "simulate") \in PlainPlans
    /\ Ask("alkanes", "get_block") \in PlainPlans
    /\ Ask("alkanes", "sequence") \in PlainPlans
    /\ Ask("alkanes", "spendables_by_address") \in PlainPlans
    /\ Ask("alkanes", "trace_block") \in PlainPlans
    /\ Try("alkanes", "trace") \in PlainPlans
    /\ Ask("rpc", "call") \in PlainPlans /\ Try("rpc", "call") \in PlainPlans
  <1>1. {"bitcoin", "esplora", "metashrew", "alkanes", "rpc"} \subseteq Traits
    BY DEF Traits
  <1>2. {"get_block_count", "generate_to_address", "get_transaction_hex", "get_block_hash",
         "get_address_utxo", "get_address_txs", "get_address_info", "get_fee_estimates",
         "get_tx", "trace_outpoint", "get_metashrew_height", "get_protorunes_by_address",
         "get_protorunes_by_outpoint", "get_balance", "get_bytecode", "simulate", "get_block",
         "sequence", "spendables_by_address", "trace_block", "trace", "call"}
        \subseteq MethodNames
    BY DEF MethodNames
  <1> QED
    BY <1>1, <1>2, PlainSteps

LEMMA BitcoindGood == GoodTable(BitcoindPlans)
  <1>1. {Ask("bitcoin", "get_block_count")} \subseteq GoodPlans
    BY Questions, PlainGood
  <1>2. {Do("resolve") \o Ask("bitcoin", "generate_to_address")} \subseteq GoodPlans
    BY Words, Questions, Joining, PlainGood
  <1>3. GoodTable([c \in DOMAIN LibraryBitcoind |-> {Do("stub")}])
    BY Words, PlainGood DEF GoodTable
  <1> QED
    BY <1>1, <1>2, <1>3, Tables DEF BitcoindPlans

\* How a mnemonic is had.
LEMMA FreshSteps ==
    {Do("generate"), Do("parse") \o Do("import"), Do("parse") \o Do("generate")} \subseteq Fresh
  <1> DEFINE parse == Do("parse")
             draw == Do("generate")
             read == Do("import")
  <1>1. parse \in PlainPlans /\ draw \in PlainPlans /\ read \in PlainPlans
    BY Words
  <1>2. /\ Len(draw) = 1 /\ draw[1].do = "generate" /\ Len(read) = 1 /\ read[1].do = "import"
        /\ Len(parse) = 1
    BY DEF Do
  <1> HIDE DEF parse, draw, read
  <1>3. draw \in Fresh
    BY <1>1, <1>2 DEF Fresh, Has, PlainPlans
  <1>4. \A b \in PlainPlans : Len(b) = 1 => parse \o b \in PlainPlans /\ Len(parse \o b) = 2
                                          /\ (parse \o b)[2] = b[1]
    BY <1>1, <1>2, ConcatProperties DEF PlainPlans
  <1>5. ASSUME NEW b \in PlainPlans, Len(b) = 1, b[1].do \in {"generate", "import"}
        PROVE  parse \o b \in Fresh
    <2>1. parse \o b \in PlainPlans /\ Len(parse \o b) = 2 /\ (parse \o b)[2] = b[1]
      BY <1>4, <1>5
    <2> DEFINE c == parse \o b
    <2> HIDE DEF c
    <2>2. c \in PlainPlans /\ Len(c) = 2 /\ c[2].do \in {"generate", "import"}
      BY <1>5, <2>1 DEF c
    <2>3. 2 \in DOMAIN c
      BY <2>2 DEF PlainPlans
    <2>4. c \in Fresh
      BY <2>2, <2>3 DEF Fresh, Has
    <2> QED
      BY <2>4 DEF c
  <1> QED
    BY <1>1, <1>2, <1>3, <1>5 DEF parse, draw, read

LEMMA KeystoreGood == GoodTable(LibraryKeystorePlans)
  <1>1. Either({Do("generate"), Do("parse") \o Do("import")}, Create)
        \cup {Do("parse") \o Do("generate") \o Create} \subseteq GoodPlans
    <2>1. \A a \in {Do("generate"), Do("parse") \o Do("import"), Do("parse") \o Do("generate")} :
              a \o Create \in GoodPlans
      BY FreshSteps, Joining DEF GoodPlans
    <2> QED
      BY <2>1 DEF Either
  <1>2. {Do("parse") \o Do("import") \o Create} \subseteq GoodPlans
    BY FreshSteps, Joining DEF GoodPlans
  <1>3. {Do("readFile") \o Show("default")} \subseteq GoodPlans
    BY Words, Joining DEF GoodPlans
  <1>4. Either({Do("readFile"), Do("readFile") \o Do("confirm")}, Show("networks"))
        \cup {Do("readFile") \o Show("range")} \subseteq GoodPlans
    <2>1. Do("readFile") \in Readers /\ Do("readFile") \o Do("confirm") \in Readers
      BY Words, Joining
    <2>2. Do("readFile") \o Show("networks") \in Readers
      BY <2>1, Words, Joining
    <2>3. Do("readFile") \o Do("confirm") \o Show("networks") \in Readers
      BY <2>1, Words, Joining
    <2>4. Do("readFile") \o Show("range") \in Readers
      BY <2>1, Words, Joining
    <2> QED
      BY <2>2, <2>3, <2>4 DEF Either, GoodPlans
  <1>5. {Do("panic")} \subseteq GoodPlans
    BY Words, PlainGood
  <1>6. {<<>>} \subseteq GoodPlans
    BY PlainSteps, PlainGood
  <1>7. {Do("needKeystore") \o Show("first") \o Ask("esplora", "get_address_info")}
        \subseteq GoodPlans
    <2>1. Do("needKeystore") \o Show("first") \in PlainPlans
      BY Words, Joining
    <2> QED
      BY <2>1, Questions, Joining, PlainGood
  <1> QED
    BY <1>1, <1>2, <1>3, <1>4, <1>5, <1>6, <1>7, Tables DEF LibraryKeystorePlans

LEMMA Paying ==
    /\ \A w \in Purses : Build(w) \in SelectingPlans
    /\ SignAndSend \in SigningPlans
    /\ \A s \in SelectingPlans : s \o SignAndSend \in GoodPlans
    /\ \A a \in PlainPlans, s \in SelectingPlans : a \o s \in SelectingPlans
    /\ \A a \in PlainPlans, s \in SelectingPlans : s \o a \in SelectingPlans
    /\ \A s \in SelectingPlans : s \in GoodPlans
  <1>1. \A w \in Purses : Build(w) \in SelectingPlans
    BY Questions, OtherSteps, Joining DEF Build
  <1>2. Do("fetch") \in SigningPlans /\ Pay("bitcoin", "send_raw_transaction") \in SigningPlans
    BY Words, PlainSteps, OtherSteps
  <1>3. Do("fetch") \o Do("sign") \in SigningPlans
    BY <1>2, OtherSteps, Joining
  <1>4. SignAndSend \in SigningPlans
    BY <1>2, <1>3, Joining DEF SignAndSend
  <1>5. \A s \in SelectingPlans : s \o SignAndSend \in GoodPlans
    BY <1>4, Joining DEF GoodPlans
  <1>6. \A a \in PlainPlans, s \in SelectingPlans :
            a \o s \in SelectingPlans /\ s \o a \in SelectingPlans
    BY OtherSteps, Joining
  <1>7. \A s \in SelectingPlans : s \in GoodPlans
    BY Joining DEF GoodPlans
  <1> QED
    BY <1>1, <1>4, <1>5, <1>6, <1>7

LEMMA PaymentGood == GoodTable(LibraryPaymentPlans)
  <1> DEFINE once == Do("unlock") \o Do("resolve")
             twice == once \o Do("resolve")
  <1>0. once \in PlainPlans /\ twice \in PlainPlans
    BY Words, Joining
  <1>1. {"own", "named", "nothing"} \subseteq Purses
    BY DEF Purses
  <1>2. once \in SelectingPlans /\ twice \in SelectingPlans
    BY <1>0, OtherSteps
  <1>3. Build("own") \o SignAndSend \in Payments
    BY <1>1, Paying, Joining
  <1>4. Either({once, twice}, Build("own") \o SignAndSend)
        \cup {twice \o Build("named") \o SignAndSend} \subseteq GoodPlans
    <2>1. once \o (Build("own") \o SignAndSend) \in GoodPlans
          /\ twice \o (Build("own") \o SignAndSend) \in GoodPlans
      BY <1>2, <1>3, Joining DEF GoodPlans
    <2>2. twice \o Build("named") \in SelectingPlans
      BY <1>1, <1>2, Paying, Joining
    <2>3. twice \o Build("named") \o SignAndSend \in GoodPlans
      BY <2>2, Paying
    <2> QED
      BY <2>1, <2>3 DEF Either
  <1>5. {once \o Build("nothing") \o SignAndSend} \subseteq GoodPlans
    <2>1. once \o Build("nothing") \in SelectingPlans
      BY <1>1, <1>2, Paying, Joining
    <2> QED
      BY <2>1, Paying
  <1>6. {once \o Build("own")} \subseteq GoodPlans
    <2>1. once \o Build("own") \in SelectingPlans
      BY <1>1, <1>2, Paying, Joining
    <2> QED
      BY <2>1, Paying
  <1>7. {Do("unlock") \o Do("parse") \o Select("named") \o Do("fetch") \o Do("sign")}
        \subseteq GoodPlans
    <2>1. Do("unlock") \o Do("parse") \in SelectingPlans
      BY Words, Joining, OtherSteps
    <2>2. Do("unlock") \o Do("parse") \o Select("named") \in SelectingPlans
      BY <1>1, <2>1, OtherSteps, Joining
    <2>3. Do("unlock") \o Do("parse") \o Select("named") \o Do("fetch") \in SelectingPlans
      BY <2>2, Words, Paying
    <2>4. Do("unlock") \o Do("parse") \o Select("named") \o Do("fetch") \o Do("sign") \in Payments
      BY <2>3, OtherSteps, Joining
    <2> QED
      BY <2>4 DEF GoodPlans
  <1>8. Either({<<>>, Do("confirm")}, Pay("esplora", "broadcast")) \subseteq GoodPlans
    <2>1. <<>> \o Pay("esplora", "broadcast") \in PlainPlans
          /\ Do("confirm") \o Pay("esplora", "broadcast") \in PlainPlans
      BY Words, PlainSteps, Joining
    <2> QED
      BY <2>1, PlainGood DEF Either
  <1> QED
    BY <1>4, <1>5, <1>6, <1>7, <1>8, Tables DEF LibraryPaymentPlans

LEMMA QueryGood == GoodTable(LibraryQueryPlans)
  <1>1. {Do("needKeystore") \o Do("parse") \o Ask("esplora", "get_address_info"),
         Do("needKeystore") \o Ask("esplora", "get_address_info")} \subseteq GoodPlans
    <2>1. Do("needKeystore") \o Do("parse") \in PlainPlans
      BY Words, Joining
    <2> QED
      BY <2>1, Words, Questions, Joining, PlainGood
  <1>2. Utxos \in PlainPlans
    BY Questions, Joining DEF Utxos
  <1>3. Either({Do("resolve"), Do("needKeystore")}, Utxos) \subseteq GoodPlans
    <2>1. Do("resolve") \o Utxos \in PlainPlans /\ Do("needKeystore") \o Utxos \in PlainPlans
      BY <1>2, Words, Joining
    <2> QED
      BY <2>1, PlainGood DEF Either
  <1>4. {Do("resolve") \o get_history, Do("refuse")} \subseteq GoodPlans
    BY Words, Questions, Joining, PlainGood DEF get_history
  <1>5. {Ask("esplora", "get_tx")} \subseteq GoodPlans /\ {estimate_fee} \subseteq GoodPlans
        /\ {get_fee_rates} \subseteq GoodPlans /\ {Do("sync")} \subseteq GoodPlans
    BY Words, Questions, PlainGood DEF estimate_fee, get_fee_rates
  <1> QED
    BY <1>1, <1>3, <1>4, <1>5, Tables DEF LibraryQueryPlans

LEMMA ExecuteGood == GoodTable(LibraryExecutePlans) /\ GoodTable(ShellExecutePlans)
  <1>1. Build("listed") \in SelectingPlans
    BY Paying DEF Purses
  <1>2. Build("listed") \o get_utxo \in SelectingPlans
    BY <1>1, Words, Paying DEF get_utxo
  <1>3. Build("listed") \o get_utxo \o Do("confirm") \in SelectingPlans
    BY <1>2, Words, Paying
  <1>4. Build("listed") \o get_utxo \o Do("confirm") \o SignAndSend \in Payments
    BY <1>3, Paying, Joining
  <1>5. Do("unlock") \o Do("resolve") \in PlainPlans /\ Do("unlock") \o Do("parse") \in PlainPlans
        /\ Do("parse") \o Do("needKeystore") \in PlainPlans
    BY Words, Joining
  <1>6. Do("unlock") \o Do("resolve") \o Do("parse") \in PlainPlans
        /\ Do("unlock") \o Do("parse") \o Do("resolve") \in PlainPlans
    BY <1>5, Words, Joining
  <1>7. Do("unlock") \o Do("resolve") \o Do("parse") \o Do("resolve") \in PlainPlans
    BY <1>6, Words, Joining
  <1>8. \A a \in PlainPlans :
            a \o (Build("listed") \o get_utxo \o Do("confirm") \o SignAndSend) \in GoodPlans
    BY <1>4, OtherSteps, Joining DEF GoodPlans
  <1>9. Either({Do("unlock") \o Do("resolve") \o Do("parse") \o Do("resolve"),
                Do("unlock") \o Do("parse") \o Do("resolve")},
               Build("listed") \o get_utxo \o Do("confirm") \o SignAndSend) \subseteq GoodPlans
    BY <1>6, <1>7, <1>8 DEF Either
  <1>10. {Do("parse") \o Do("needKeystore") \o Build("listed") \o get_utxo \o SignAndSend}
         \subseteq GoodPlans
    <2>1. Do("parse") \o Do("needKeystore") \o Build("listed") \in SelectingPlans
      BY <1>1, <1>5, Paying
    <2>2. Do("parse") \o Do("needKeystore") \o Build("listed") \o get_utxo \in SelectingPlans
      BY <2>1, Words, Paying DEF get_utxo
    <2> QED
      BY <2>2, Paying
  <1> QED
    BY <1>9, <1>10, Tables DEF LibraryExecutePlans, ShellExecutePlans

LEMMA AlkanesGood == GoodTable(LibraryAlkanesPlans) /\ GoodTable(ShellAlkanesPlans)
  <1>1. Either({<<>>, Do("needKeystore")}, Ask("alkanes", "get_balance")) \subseteq GoodPlans
    <2>1. <<>> \o Ask("alkanes", "get_balance") \in PlainPlans
          /\ Do("needKeystore") \o Ask("alkanes", "get_balance") \in PlainPlans
      BY PlainSteps, Words, Questions, Joining
    <2> QED
      BY <2>1, PlainGood DEF Either
  <1>2. /\ {Do("parse") \o Ask("metashrew", "trace_outpoint")} \subseteq GoodPlans
        /\ {Do("parse") \o Ask("alkanes", "get_bytecode")} \subseteq GoodPlans
        /\ {Do("parse") \o Ask("alkanes", "simulate")} \subseteq GoodPlans
        /\ {Do("parse") \o Ask("rpc", "call")} \subseteq GoodPlans
        /\ {Do("parse") \o Ask("alkanes", "sequence")} \subseteq GoodPlans
    BY Words, Questions, PairsGood
  <1>3. /\ {Do("refuse")} \subseteq GoodPlans
        /\ {Ask("alkanes", "get_block")} \subseteq GoodPlans
        /\ {Ask("alkanes", "sequence")} \subseteq GoodPlans
        /\ {Ask("alkanes", "spendables_by_address")} \subseteq GoodPlans
        /\ {Ask("alkanes", "trace_block")} \subseteq GoodPlans
        /\ {Try("alkanes", "trace")} \subseteq GoodPlans
    BY Words, Questions, PlainGood
  <1> QED
    BY <1>1, <1>2, <1>3, Tables DEF LibraryAlkanesPlans, ShellAlkanesPlans

LEMMA OtherGood ==
    GoodTable(LibraryOtherPlans) /\ GoodTable(ShellOtherPlans) /\ GoodTable(ShellAmmPlans)
  <1>1. /\ {Do("parse") \o Do("decode")} \subseteq GoodPlans
        /\ {Ask("bitcoin", "get_transaction_hex") \o Do("decode")} \subseteq GoodPlans
        /\ {Do("parse") \o Do("refuse")} \subseteq GoodPlans
        /\ {Do("parse") \o Ask("metashrew", "get_protorunes_by_outpoint")} \subseteq GoodPlans
        /\ {Do("parse") \o Ask("rpc", "call")} \subseteq GoodPlans
    BY Words, Questions, PairsGood
  <1>2. {Do("parse") \o Ask("rpc", "call") \o Try("rpc", "call")} \subseteq GoodPlans
    <2>1. Do("parse") \o Ask("rpc", "call") \in PlainPlans
      BY Words, Questions, Joining
    <2> QED
      BY <2>1, Questions, Joining, PlainGood
  <1>3. /\ {Do("refuse")} \subseteq GoodPlans
        /\ {Ask("metashrew", "get_metashrew_height")} \subseteq GoodPlans
        /\ {Ask("metashrew", "get_protorunes_by_address")} \subseteq GoodPlans
        /\ {Ask("metashrew", "get_protorunes_by_outpoint")} \subseteq GoodPlans
        /\ {Ask("bitcoin", "get_block_hash")} \subseteq GoodPlans
    BY Words, Questions, PlainGood
  <1>4. GoodTable(ShellRunestonePlans)
    BY <1>1, Tables DEF ShellRunestonePlans
  <1> QED
    BY <1>1, <1>2, <1>3, <1>4, Tables DEF LibraryOtherPlans, ShellOtherPlans, ShellAmmPlans

LEMMA ShellWalletGood == GoodTable(ShellWalletPlans)
  <1>1. Utxos \in PlainPlans
    BY Questions, Joining DEF Utxos
  <1>2. Either({Do("resolve"), Do("needKeystore")}, Utxos) \subseteq GoodPlans
    <2>1. Do("resolve") \o Utxos \in PlainPlans /\ Do("needKeystore") \o Utxos \in PlainPlans
      BY <1>1, Words, Joining
    <2> QED
      BY <2>1, PlainGood DEF Either
  <1>3. {Build("named") \o SignAndSend, Do("needKeystore") \o Build("own") \o SignAndSend}
        \subseteq GoodPlans
    <2>1. Build("named") \in SelectingPlans /\ Build("own") \in SelectingPlans
      BY Paying DEF Purses
    <2>2. Do("needKeystore") \o Build("own") \in SelectingPlans
      BY <2>1, Words, Paying
    <2> QED
      BY <2>1, <2>2, Paying
  <1>4. Either({<<>>, Do("needKeystore")}, Ask("esplora", "get_address_info")) \subseteq GoodPlans
    <2>1. <<>> \o Ask("esplora", "get_address_info") \in PlainPlans
          /\ Do("needKeystore") \o Ask("esplora", "get_address_info") \in PlainPlans
      BY PlainSteps, Words, Questions, Joining
    <2> QED
      BY <2>1, PlainGood DEF Either
  <1>5. {get_history, Do("refuse")} \subseteq GoodPlans
    BY Words, Questions, PlainGood DEF get_history
  <1> QED
    BY <1>2, <1>3, <1>4, <1>5, Tables DEF ShellWalletPlans

\* Every command that users give has only good plans.
LEMMA PlansGood ==
    ASSUME NEW side, NEW c, HasPlans(side, c)
    PROVE  Plans(side, c) \subseteq GoodPlans
  <1>1. GoodTable(LibraryPlans)
    BY BitcoindGood, EsploraGood, OrdGood, KeystoreGood, PaymentGood, QueryGood, ExecuteGood,
       AlkanesGood, OtherGood, Tables DEF LibraryPlans
  <1>2. GoodTable(ShellPlans)
    BY EsploraGood, OrdGood, ShellWalletGood, ExecuteGood, AlkanesGood, OtherGood, Tables
       DEF ShellPlans
  <1>3. {Do("panic")} \subseteq GoodPlans
    BY Words, PlainGood
  <1> QED
    BY <1>1, <1>2, <1>3 DEF HasPlans, Plans, GoodTable

-----------------------------------------------------------------------------
(* The invariant *)

\* What is left of a plan: the file is read first or not at all, a mnemonic is
\* printed at the end, right after it was written, and nothing is selected once the
\* transaction is signed.
Ordered(plan) ==
    /\ plan \in Seq(Steps)
    /\ \A i \in 1..Len(plan) :
        /\ plan[i].do = "readFile" => i = 1
        /\ plan[i].do = "report" => i = Len(plan)
        /\ plan[i].do = "write" => i + 1 = Len(plan) /\ plan[i + 1].do = "report"
        /\ plan[i].do = "sign" => \A j \in i..Len(plan) : plan[j].do # "select"

\* A coin that was not named is one of those that signing looks through, of a
\* keystore that the process still has; and the keys are those of the coins.
CoinsOk(r) ==
    /\ r.exit = "running" /\ ~r.named =>
        \A c \in r.coin : \E k \in r.wallet : c \in DefaultSpent(k, network)
    /\ r.exit = "running" /\ r.coin # {} => ~Has(r.plan, "readFile")
    /\ r.exit = "running" /\ r.keys # {} => ~Has(r.plan, "select")
    /\ r.keys # {} => r.keys = {c.key : c \in r.coin}
    /\ r.exit = "unsigned" => r.named

SentOk(r) ==
    r.exit = "sent" /\ ~r.accepted =>
        r.reply \in {"text", "empty"} \/ (r.rest /\ r.reply # "none")

ProcOk(r) ==
    /\ DOMAIN r = DOMAIN Idle
    /\ r.exit = "running" => Ordered(r.plan) /\ r.plan # <<>>
    /\ CoinsOk(r) /\ SentOk(r)

\* A mnemonic that is in a keystore, or of which an address was printed, is one the
\* user has, or its creator has only the printing left to do, or was killed there.
Printing(r) == r.exit = "running" /\ r.plan[1].do = "report"
Safe(seed) ==
    seed \in known \cup cutOff \/ \E p \in Processes : Printing(proc[p]) /\ proc[p].seed = seed

KeystoreOk(k) == k.account = AccountPath /\ Safe(k.seed)

ProcInv == DOMAIN proc = Processes /\ \A p \in Processes : ProcOk(proc[p])
KeyInv ==
    /\ \A k \in file.has : KeystoreOk(k)
    /\ \A p \in Processes : \A k \in proc[p].wallet : KeystoreOk(k)
    /\ \A seed \in shown : Safe(seed)
CliInv == session \in DOMAIN Sessions /\ ProcInv /\ KeyInv

-----------------------------------------------------------------------------
(* Plans and what is left of them *)

LEMMA StepWords ==
    /\ \A x \in Plain : x.do \notin {"readFile", "report", "write", "sign", "select"}
    /\ \A x \in Selecting : x.do \notin {"readFile", "report", "write", "sign"}
    /\ \A x \in Signing : x.do \notin {"readFile", "report", "write", "select"}
    /\ Plain \subseteq Steps /\ Selecting \subseteq Steps /\ Signing \subseteq Steps
    /\ \A w \in {"write", "report", "readFile", "truncate"} :
           [do |-> w, of |-> <<"", "">>] \in Steps
  <1>1. \A x \in Plain : x.do \notin {"readFile", "report", "write", "sign", "select"}
    <2>1. \A x \in Plain : x.do \in PlainWords \cup {"show", "send"}
      BY DEF Plain
    <2> QED
      BY <2>1 DEF PlainWords
  <1>2. \A x \in Selecting : x \in Plain \/ x.do = "select"
    BY DEF Selecting
  <1>3. \A x \in Signing : x \in Plain \/ x.do = "sign"
    BY DEF Signing
  <1>4. Plain \subseteq Steps /\ Selecting \subseteq Steps /\ Signing \subseteq Steps
    BY DEF Steps, Selecting, Signing
  <1>5. <<"", "">> \in Texts
    BY DEF Texts, Traits, MethodNames
  <1>6. \A w \in {"write", "report", "readFile"} : [do |-> w, of |-> <<"", "">>] \in Steps
    BY <1>5 DEF Steps
  <1>7. [do |-> "truncate", of |-> <<"", "">>] \in Steps
    BY <1>4, <1>5 DEF Plain, PlainWords
  <1> QED
    BY <1>1, <1>2, <1>3, <1>4, <1>6, <1>7

LEMMA ElementsIn ==
    ASSUME NEW S, NEW s \in Seq(S)
    PROVE  Len(s) \in Nat /\ DOMAIN s = 1..Len(s) /\ \A i \in 1..Len(s) : s[i] \in S
  OBVIOUS

LEMMA Single ==
    ASSUME NEW w \in {"write", "report", "readFile", "truncate"}
    PROVE  Do(w) \in Seq(Steps) /\ Len(Do(w)) = 1 /\ Do(w)[1].do = w
  <1> DEFINE x == [do |-> w, of |-> <<"", "">>]
  <1>1. x \in Steps /\ x.do = w
    BY StepWords
  <1> HIDE DEF x
  <1>2. <<x>> \in Seq(Steps) /\ Len(<<x>>) = 1 /\ <<x>>[1].do = w
    BY <1>1
  <1> QED
    BY <1>2 DEF Do, x

LEMMA CreateSteps ==
    /\ Create \in Seq(Steps) /\ Len(Create) = 3 /\ Create[1].do = "truncate"
    /\ Create[2].do = "write" /\ Create[3].do = "report"
  <1> DEFINE t == Do("truncate")
             w == Do("write")
             r == Do("report")
  <1>1. /\ t \in Seq(Steps) /\ Len(t) = 1 /\ t[1].do = "truncate"
        /\ w \in Seq(Steps) /\ Len(w) = 1 /\ w[1].do = "write"
        /\ r \in Seq(Steps) /\ Len(r) = 1 /\ r[1].do = "report"
    BY Single
  <1>2. Create = (t \o w) \o r
    BY DEF Create
  <1> HIDE DEF t, w, r
  <1>3. /\ t \o w \in Seq(Steps) /\ Len(t \o w) = 2
        /\ (t \o w)[1] = t[1] /\ (t \o w)[2] = w[1]
    <2>1. /\ t \o w \in Seq(Steps) /\ Len(t \o w) = Len(t) + Len(w)
          /\ \A i \in 1..(Len(t) + Len(w)) :
                (t \o w)[i] = IF i <= Len(t) THEN t[i] ELSE w[i - Len(t)]
      BY <1>1, ConcatProperties
    <2> QED
      BY <1>1, <2>1
  <1> DEFINE tw == t \o w
  <1> HIDE DEF tw
  <1>4. /\ tw \in Seq(Steps) /\ Len(tw) = 2 /\ tw[1] = t[1] /\ tw[2] = w[1]
        /\ Create = tw \o r
    BY <1>2, <1>3 DEF tw
  <1>5. /\ tw \o r \in Seq(Steps) /\ Len(tw \o r) = 3
        /\ (tw \o r)[1] = tw[1] /\ (tw \o r)[2] = tw[2] /\ (tw \o r)[3] = r[1]
    <2>1. /\ tw \o r \in Seq(Steps) /\ Len(tw \o r) = Len(tw) + Len(r)
          /\ \A i \in 1..(Len(tw) + Len(r)) :
                (tw \o r)[i] = IF i <= Len(tw) THEN tw[i] ELSE r[i - Len(tw)]
      BY <1>1, <1>4, ConcatProperties
    <2> QED
      BY <1>1, <1>4, <2>1
  <1> QED
    BY <1>1, <1>4, <1>5

LEMMA GoodOrdered ==
    ASSUME NEW plan \in GoodPlans
    PROVE  Ordered(plan)
  <1>1. CASE plan \in Payments
    <2>1. PICK s \in Seq(Selecting), g \in Seq(Signing) : plan = s \o g
      BY <1>1 DEF Payments, SelectingPlans, SigningPlans
    <2>2. s \in Seq(Steps) /\ g \in Seq(Steps)
      BY StepWords, SeqMonotonic
    <2>3. /\ plan \in Seq(Steps) /\ Len(plan) = Len(s) + Len(g)
          /\ \A i \in 1..Len(plan) :
                IF i <= Len(s) THEN plan[i] = s[i] ELSE plan[i] = g[i - Len(s)]
      BY <2>1, <2>2, ConcatProperties
    <2>4. \A i \in 1..Len(s) : s[i].do \notin {"readFile", "report", "write", "sign"}
      BY ElementsIn, StepWords
    <2>5. \A i \in 1..Len(g) : g[i].do \notin {"readFile", "report", "write", "select"}
      BY ElementsIn, StepWords
    <2>6. Len(s) \in Nat /\ Len(g) \in Nat
      OBVIOUS
    <2>7. \A i \in 1..Len(plan) :
            /\ plan[i].do \notin {"readFile", "report", "write"}
            /\ plan[i].do = "sign" => i > Len(s)
            /\ plan[i].do = "select" => i <= Len(s)
      BY <2>3, <2>4, <2>5, <2>6
    <2> QED
      BY <2>3, <2>6, <2>7 DEF Ordered
  <1>2. CASE plan \in Readers
    <2>1. PICK a \in Seq(Plain) : plan = Do("readFile") \o a
      BY <1>2 DEF Readers, PlainPlans
    <2>2. Do("readFile") \in Seq(Steps) /\ a \in Seq(Steps)
      BY Single, StepWords, SeqMonotonic
    <2>3. Len(Do("readFile")) = 1 /\ Do("readFile")[1].do = "readFile"
      BY Single
    <2>4. /\ plan \in Seq(Steps) /\ Len(plan) = 1 + Len(a)
          /\ \A i \in 1..Len(plan) :
                IF i <= 1 THEN plan[i] = Do("readFile")[i] ELSE plan[i] = a[i - 1]
      BY <2>1, <2>2, <2>3, ConcatProperties
    <2>5. \A i \in 1..Len(a) :
              a[i].do \notin {"readFile", "report", "write", "sign", "select"}
      BY ElementsIn, StepWords
    <2>6. Len(a) \in Nat
      OBVIOUS
    <2>7. ASSUME NEW i \in 1..Len(plan)
          PROVE  /\ plan[i].do \notin {"report", "write", "sign"}
                 /\ plan[i].do = "readFile" => i = 1
      <3>1. CASE i = 1
        BY <2>3, <2>4, <3>1
      <3>2. CASE i # 1
        <4>1. i - 1 \in 1..Len(a) /\ plan[i] = a[i - 1]
          BY <2>4, <2>6, <3>2
        <4> QED
          BY <2>5, <4>1
      <3> QED
        BY <3>1, <3>2
    <2> QED
      BY <2>4, <2>7 DEF Ordered
  <1>3. CASE plan \in Creations
    <2>1. PICK a \in Seq(Plain) : plan = a \o Create
      BY <1>3 DEF Creations, Fresh, PlainPlans
    <2>2. a \in Seq(Steps)
      BY StepWords, SeqMonotonic
    <2>4. /\ Create \in Seq(Steps) /\ Len(Create) = 3 /\ Create[1].do = "truncate"
          /\ Create[2].do = "write" /\ Create[3].do = "report"
      BY CreateSteps
    <2>5. /\ plan \in Seq(Steps) /\ Len(plan) = Len(a) + 3
          /\ \A i \in 1..Len(plan) :
                IF i <= Len(a) THEN plan[i] = a[i] ELSE plan[i] = Create[i - Len(a)]
      <3>1. /\ a \o Create \in Seq(Steps) /\ Len(a \o Create) = Len(a) + Len(Create)
            /\ \A i \in 1..(Len(a) + Len(Create)) :
                  (a \o Create)[i] = IF i <= Len(a) THEN a[i] ELSE Create[i - Len(a)]
        BY <2>2, <2>4, ConcatProperties
      <3> QED
        BY <2>1, <2>4, <3>1
    <2>6. \A i \in 1..Len(a) :
              a[i].do \notin {"readFile", "report", "write", "sign", "select"}
      BY ElementsIn, StepWords
    <2>7. Len(a) \in Nat
      OBVIOUS
    <2>8. /\ plan[Len(a) + 1].do = "truncate" /\ plan[Len(a) + 2].do = "write"
          /\ plan[Len(a) + 3].do = "report"
      BY <2>4, <2>5, <2>7
    <2>9. \A i \in 1..Len(plan) :
            i \in 1..Len(a) \/ i = Len(a) + 1 \/ i = Len(a) + 2 \/ i = Len(a) + 3
      BY <2>5, <2>7
    <2>10. \A i \in 1..Len(a) : plan[i] = a[i]
      BY <2>5, <2>7
    <2>11. ASSUME NEW i \in 1..Len(plan)
           PROVE  /\ plan[i].do \notin {"readFile", "sign"}
                  /\ plan[i].do = "report" => i = Len(plan)
                  /\ plan[i].do = "write" => i + 1 = Len(plan) /\ plan[i + 1].do = "report"
      BY <2>5, <2>6, <2>7, <2>8, <2>9, <2>10
    <2> QED
      BY <2>5, <2>11 DEF Ordered
  <1> QED
    BY <1>1, <1>2, <1>3 DEF GoodPlans

LEMMA TailOrdered ==
    ASSUME NEW plan, Ordered(plan), Len(plan) > 1
    PROVE  /\ Ordered(Tail(plan)) /\ Tail(plan) # <<>>
           /\ ~Has(Tail(plan), "readFile")
           /\ \A what : Has(Tail(plan), what) => Has(plan, what)
           /\ plan[1].do = "sign" => ~Has(Tail(plan), "select")
           /\ plan[1].do = "write" => Tail(plan)[1].do = "report"
  <1> DEFINE rest == Tail(plan)
  <1>1. plan \in Seq(Steps) /\ plan # <<>> /\ Len(plan) \in Nat
    BY DEF Ordered
  <1>2. rest \in Seq(Steps) /\ Len(rest) = Len(plan) - 1
    BY <1>1
  <1>3. \A i \in 1..Len(rest) : rest[i] = plan[i + 1] /\ i + 1 \in 1..Len(plan)
    BY <1>1, <1>2
  <1>4. DOMAIN plan = 1..Len(plan) /\ DOMAIN rest = 1..Len(rest)
    BY <1>1, <1>2, ElementsIn
  <1>5. 1 \in 1..Len(plan) /\ 1 \in 1..Len(rest) /\ 2 \in 1..Len(plan) /\ rest[1] = plan[2]
    BY <1>1, <1>2, <1>3
  <1>6. rest # <<>>
    <2>1. Len(<<>>) = 0 /\ Len(rest) > 0
      BY <1>1, <1>2
    <2> QED
      BY <2>1
  <1> HIDE DEF rest
  <1>7. ASSUME NEW i \in 1..Len(rest)
        PROVE  /\ rest[i].do # "readFile"
               /\ rest[i].do = "report" => i = Len(rest)
               /\ rest[i].do = "write" => i + 1 = Len(rest) /\ rest[i + 1].do = "report"
               /\ rest[i].do = "sign" => \A j \in i..Len(rest) : rest[j].do # "select"
    <2>1. /\ plan[i + 1].do = "readFile" => i + 1 = 1
          /\ plan[i + 1].do = "report" => i + 1 = Len(plan)
          /\ plan[i + 1].do = "write" => (i + 1) + 1 = Len(plan) /\ plan[(i + 1) + 1].do = "report"
          /\ plan[i + 1].do = "sign" => \A j \in (i + 1)..Len(plan) : plan[j].do # "select"
      BY <1>3 DEF Ordered
    <2>2. rest[i] = plan[i + 1]
      BY <1>3
    <2>3. ASSUME rest[i].do = "write"
          PROVE  i + 1 = Len(rest) /\ rest[i + 1].do = "report"
      BY <1>1, <1>2, <1>3, <2>1, <2>2, <2>3
    <2>4. ASSUME rest[i].do = "sign", NEW j \in i..Len(rest)
          PROVE  rest[j].do # "select"
      BY <1>1, <1>2, <1>3, <2>1, <2>2, <2>4
    <2> QED
      BY <1>1, <1>2, <2>1, <2>2, <2>3, <2>4
  <1>8. Ordered(rest)
    BY <1>2, <1>7 DEF Ordered
  <1>9. ~Has(rest, "readFile")
    BY <1>4, <1>7 DEF Has
  <1>10. \A what : Has(rest, what) => Has(plan, what)
    BY <1>3, <1>4 DEF Has
  <1>11. ASSUME plan[1].do = "sign"
         PROVE  ~Has(rest, "select")
    <2>1. \A j \in 1..Len(plan) : plan[j].do # "select"
      BY <1>5, <1>11 DEF Ordered
    <2> QED
      BY <1>3, <1>4, <2>1 DEF Has
  <1>12. ASSUME plan[1].do = "write"
         PROVE  rest[1].do = "report"
    BY <1>5, <1>12 DEF Ordered
  <1> QED
    BY <1>6, <1>8, <1>9, <1>10, <1>11, <1>12 DEF rest

-----------------------------------------------------------------------------
(* What a step leaves behind *)

\* The process that Becomes makes of r, and the one that Ends leaves.
After(r) ==
    IF Len(r.plan) > 1 THEN [r EXCEPT !.plan = Tail(@)]
    ELSE [Idle EXCEPT !.exit = "ok", !.coin = r.coin, !.keys = r.keys, !.named = r.named]
Ended(how) == [Idle EXCEPT !.exit = how]

\* What it takes for r to become a process that is in order.
Ready(r) ==
    /\ DOMAIN r = DOMAIN Idle
    /\ r.exit = "running" /\ Ordered(r.plan) /\ r.plan # <<>>
    /\ ~r.named => \A c \in r.coin : \E k \in r.wallet : c \in DefaultSpent(k, network)
    /\ r.keys # {} => ~Has(r.plan, "select") \/ r.plan[1].do = "sign"
    /\ r.keys # {} => r.keys = {c.key : c \in r.coin}

LEMMA IdleFields ==
    /\ DOMAIN Idle = {"plan", "exit", "wallet", "unlocked", "pass", "seed", "rest", "mistaken",
                      "noAddress", "coin", "named", "keys", "tries", "payload", "reply",
                      "accepted"}
    /\ Idle.plan = <<>> /\ Idle.exit = "idle" /\ Idle.wallet = {} /\ Idle.coin = {}
    /\ Idle.keys = {} /\ Idle.named = FALSE /\ Idle.rest = FALSE /\ Idle.accepted = FALSE
    /\ Idle.reply = "none" /\ Idle.seed = "none"
  BY DEF Idle

LEMMA EndedOk ==
    ASSUME NEW how \in {"idle", "ok", "failed", "panic", "killed", "hung"}
    PROVE  ProcOk(Ended(how)) /\ Ended(how).wallet = {} /\ Ended(how).exit = how
  <1>1. /\ DOMAIN Ended(how) = DOMAIN Idle /\ Ended(how).exit = how
        /\ Ended(how).wallet = {} /\ Ended(how).coin = {} /\ Ended(how).keys = {}
    BY IdleFields DEF Ended
  <1>2. CoinsOk(Ended(how))
    BY <1>1 DEF CoinsOk
  <1>3. SentOk(Ended(how))
    BY <1>1 DEF SentOk
  <1> QED
    BY <1>1, <1>2, <1>3 DEF ProcOk

LEMMA AfterFields ==
    ASSUME NEW r, DOMAIN r = DOMAIN Idle
    PROVE  /\ DOMAIN After(r) = DOMAIN Idle
           /\ After(r).coin = r.coin /\ After(r).keys = r.keys /\ After(r).named = r.named
           /\ After(r).wallet \subseteq r.wallet
           /\ Len(r.plan) > 1 =>
                 /\ After(r).plan = Tail(r.plan) /\ After(r).exit = r.exit
                 /\ After(r).wallet = r.wallet /\ After(r).seed = r.seed
           /\ ~(Len(r.plan) > 1) => After(r).exit = "ok"
  <1>1. CASE Len(r.plan) > 1
    BY <1>1, IdleFields DEF After
  <1>2. CASE ~(Len(r.plan) > 1)
    <2>1. After(r) =
            [Idle EXCEPT !.exit = "ok", !.coin = r.coin, !.keys = r.keys, !.named = r.named]
      BY <1>2 DEF After
    <2> QED
      BY <1>2, <2>1, IdleFields
  <1> QED
    BY <1>1, <1>2

LEMMA ReadyAfter ==
    ASSUME NEW r, Ready(r)
    PROVE  ProcOk(After(r)) /\ After(r).wallet \subseteq r.wallet
  <1> DEFINE q == After(r)
  <1>1. /\ DOMAIN r = DOMAIN Idle /\ r.exit = "running" /\ Ordered(r.plan)
        /\ ~r.named => \A c \in r.coin : \E k \in r.wallet : c \in DefaultSpent(k, network)
        /\ r.keys # {} => ~Has(r.plan, "select") \/ r.plan[1].do = "sign"
        /\ r.keys # {} => r.keys = {c.key : c \in r.coin}
    BY DEF Ready
  <1>2. /\ DOMAIN q = DOMAIN Idle /\ q.coin = r.coin /\ q.keys = r.keys /\ q.named = r.named
        /\ q.wallet \subseteq r.wallet
    BY <1>1, AfterFields
  <1>3. CASE Len(r.plan) > 1
    <2>1. q.plan = Tail(r.plan) /\ q.exit = "running" /\ q.wallet = r.wallet
      BY <1>1, <1>3, AfterFields
    <2>2. Ordered(q.plan) /\ q.plan # <<>> /\ ~Has(q.plan, "readFile")
      BY <1>1, <1>3, <2>1, TailOrdered
    <2>3. q.keys # {} => ~Has(q.plan, "select")
      BY <1>1, <1>2, <1>3, <2>1, TailOrdered
    <2> HIDE DEF q
    <2>4. CoinsOk(q)
      BY <1>1, <1>2, <2>1, <2>2, <2>3 DEF CoinsOk
    <2>5. SentOk(q)
      BY <2>1 DEF SentOk
    <2> QED
      BY <1>2, <2>2, <2>4, <2>5 DEF ProcOk, q
  <1>4. CASE ~(Len(r.plan) > 1)
    <2>1. q.exit = "ok"
      BY <1>1, <1>4, AfterFields
    <2> HIDE DEF q
    <2>2. CoinsOk(q) /\ SentOk(q)
      BY <1>1, <1>2, <2>1 DEF CoinsOk, SentOk
    <2> QED
      BY <1>2, <2>1, <2>2 DEF ProcOk, q
  <1> QED
    BY <1>3, <1>4

-----------------------------------------------------------------------------
(* Keys, addresses and replies *)

LEMMA KeyFields ==
    /\ \A seed, account, chain, index :
          /\ Key(seed, account, chain, index).seed = seed
          /\ Key(seed, account, chain, index).account = account
    /\ \A type, key, net : Address(type, key, net).key = key /\ Address(type, key, net).type = type
  BY DEF Key, Address

LEMMA ListedSpent ==
    ASSUME NEW k
    PROVE  DefaultListed(k, network) \subseteq DefaultSpent(k, network)
  <1>1. ListCount \in Nat /\ SendCount \in Nat /\ ListCount <= SendCount
    BY WalletAssumption
  <1>2. 0..(0 + ListCount - 1) \subseteq 0..(0 + SendCount - 1)
    BY <1>1
  <1> QED
    BY <1>2 DEF DefaultListed, DefaultSpent, get_addresses

\* The search covers every address whose coins are spent.
LEMMA Signable ==
    ASSUME NEW k, NEW c \in DefaultSpent(k, network)
    PROVE  SigningKeys(k, c, network) # {}
  <1>1. SendCount \in Nat /\ GapLimit \in Nat /\ SendCount <= GapLimit
    BY WalletAssumption
  <1>2. PICK i \in 0..(0 + SendCount - 1) :
            c = Address("p2tr", Key(k.seed, k.account, 0, i), network)
    BY DEF DefaultSpent, get_addresses
  <1>3. <<0, i>> \in (0..1) \X (0..(GapLimit - 1))
    BY <1>1
  <1>4. <<0, i>> \in FoundAt(k, c, network)
    BY <1>2, <1>3 DEF FoundAt
  <1> QED
    BY <1>4 DEF SigningKeys

\* The path that signing derives is the account's.
LEMMA SignsWithItsKey ==
    ASSUME NEW k, NEW c, k.account = AccountPath
    PROVE  SigningKeys(k, c, network) \subseteq {c.key}
  <1>1. HdPath("p2tr") = AccountPath
    BY DEF HdPath, AccountPath
  <1>2. ASSUME NEW at \in FoundAt(k, c, network)
        PROVE  c.key = Key(k.seed, k.account, at[1], at[2])
    <2>1. Address("p2tr", Key(k.seed, k.account, at[1], at[2]), network) = c
      BY DEF FoundAt
    <2> QED
      BY <2>1, KeyFields
  <1> QED
    BY <1>1, <1>2 DEF SigningKeys

LEMMA DerivedSeeds ==
    ASSUME NEW k, NEW net, NEW types, NEW start, NEW count,
           NEW a \in derive_addresses(k, net, types, start, count)
    PROVE  a.address.key.seed = k.seed
  <1>1. PICK t \in types, i \in start..(start + count - 1) :
            a = derive_single_address(k, net, t, 0, i)
    BY DEF derive_addresses
  <1>2. a.address = Address(t, Key(k.seed, k.account, 0, i), net)
    BY <1>1 DEF derive_single_address
  <1> QED
    BY <1>2, KeyFields

LEMMA MetadataSeeds ==
    ASSUME NEW k, NEW nets, NEW types, NEW start, NEW count, NEW provider,
           NEW a \in derive_addresses_from_metadata(k, nets, types, start, count, provider)
    PROVE  a.key.seed = k.seed
  <1>1. PICK d \in UNION {derive_addresses(k, n, types, start, count) : n \in nets} :
            a = IF provider # "regtest" /\ Known(provider)
                THEN Relabelled(d.address, from_network_str(provider).prefix)
                ELSE d.address
    BY DEF derive_addresses_from_metadata
  <1>2. PICK n \in nets : d \in derive_addresses(k, n, types, start, count)
    OBVIOUS
  <1>3. d.address.key.seed = k.seed
    BY <1>2, DerivedSeeds
  <1>4. \A address, prefix : Relabelled(address, prefix).key = address.key
    BY DEF Relabelled
  <1> QED
    BY <1>1, <1>3, <1>4

\* Every address that a keystore shows is of its own mnemonic.
LEMMA PrintedSeeds ==
    ASSUME NEW k, NEW what \in Lists, NEW printed \in Printouts(k, what), NEW a \in printed
    PROVE  a.key.seed = k.seed
  <1>1. CASE what = "first"
    <2>1. a \in get_addresses(k, network, 0, 0, 1)
      BY <1>1 DEF Printouts
    <2> QED
      BY <2>1, KeyFields DEF get_addresses
  <1>2. CASE what = "default"
    <2>1. PICK d \in get_default_addresses(k, network) : a = d.address
      BY <1>2 DEF Printouts
    <2> QED
      BY <2>1, DerivedSeeds DEF get_default_addresses
  <1>3. CASE what = "networks"
    <2>1. PICK n \in {{network}, Networks} \cup {{one} : one \in Networks} :
            a \in derive_addresses_from_metadata(k, n, ScriptTypes, 0, ShownCount, Provider)
      BY <1>3 DEF Printouts
    <2> QED
      BY <2>1, MetadataSeeds
  <1>4. CASE what = "range"
    <2>1. PICK start, count :
            a \in derive_addresses_from_metadata(k, {network}, {"p2tr"}, start, count, Provider)
      BY <1>4 DEF Printouts
    <2> QED
      BY <2>1, MetadataSeeds
  <1> QED
    BY <1>1, <1>2, <1>3, <1>4 DEF Lists

\* Both ways to send a transaction read a string.
LEMMA SendKind == \A m \in SendMethods : Kind[m] = "string"
  <1>1. ASSUME NEW m \in SendMethods
        PROVE  [method |-> m, kind |-> "string"] \in ConcreteProvider
    BY DEF SendMethods, ConcreteProvider, BitcoinRpcProvider, EsploraTxMethods, Methods
  <1>2. ASSUME NEW m \in SendMethods, NEW x \in ConcreteProvider, x.method = m
        PROVE  x.kind = "string"
    BY <1>2 DEF SendMethods, ConcreteProvider, Methods, BitcoinRpcProvider, MetashrewRpcProvider,
       get_protorunes_by_outpoint, EsploraBlockMethods, EsploraAddressMethods, EsploraTxMethods,
       EsploraMempoolMethods, AlkanesSimulation, AlkanesViews, OrdProvider, JsonRpcProvider
  <1>3. ASSUME NEW m \in SendMethods
        PROVE  Kind[m] = (CHOOSE x \in ConcreteProvider : x.method = m).kind
    <2>1. \E x \in ConcreteProvider : x.method = m
      BY <1>1
    <2>2. m \in {x.method : x \in ConcreteProvider}
      BY <2>1
    <2> QED
      BY <2>2 DEF Kind
  <1>4. ASSUME NEW m \in SendMethods
        PROVE  /\ (CHOOSE x \in ConcreteProvider : x.method = m) \in ConcreteProvider
               /\ (CHOOSE x \in ConcreteProvider : x.method = m).method = m
    <2>1. \E x \in ConcreteProvider : x.method = m
      BY <1>1
    <2> QED
      BY <2>1
  <1> QED
    BY <1>2, <1>3, <1>4

LEMMA SentReading ==
    ASSUME NEW m \in SendMethods, NEW rest \in BOOLEAN, NEW reply \in Replies,
           Reading(m, rest, reply) # "failed"
    PROVE  \/ reply = "result"
           \/ reply \in {"text", "empty"}
           \/ rest /\ m[1] = "esplora" /\ reply # "none"
  <1>1. Kind[m] = "string"
    BY SendKind
  <1>2. CASE rest /\ m[1] = "esplora"
    <2>1. reply \in RestAccepted("string")
      BY <1>1, <1>2 DEF Reading
    <2> QED
      BY <1>2, <2>1 DEF RestAccepted
  <1>3. CASE ~(rest /\ m[1] = "esplora")
    <2>1. Call(reply) \in Accepted("string")
      BY <1>1, <1>3 DEF Reading
    <2>2. Call(reply) \in {"result", "text", "empty"}
      BY <2>1 DEF Accepted
    <2> QED
      BY <2>2 DEF Call, Replies
  <1> QED
    BY <1>2, <1>3

-----------------------------------------------------------------------------
(* The steps of one process *)

\* A step replaces one process by one in order, whose wallet was there before.
StepResult(p) ==
    \E q : /\ proc' = [proc EXCEPT ![p] = q] /\ ProcOk(q)
          /\ q.wallet \subseteq proc[p].wallet \cup file.has

LEMMA Becoming ==
    ASSUME NEW p \in Processes
    PROVE  \A r : Ready(r) /\ Becomes(p, r) /\ r.wallet \subseteq proc[p].wallet \cup file.has
                 => StepResult(p)
  <1> SUFFICES ASSUME NEW r, Ready(r), Becomes(p, r),
                      r.wallet \subseteq proc[p].wallet \cup file.has
               PROVE  StepResult(p)
    OBVIOUS
  <1>1. proc' = [proc EXCEPT ![p] = After(r)]
    BY DEF Becomes, After
  <1>2. ProcOk(After(r)) /\ After(r).wallet \subseteq r.wallet
    BY ReadyAfter
  <1> QED
    BY <1>1, <1>2 DEF StepResult

LEMMA Ending ==
    ASSUME NEW p \in Processes, NEW how \in {"idle", "ok", "failed", "panic", "killed", "hung"},
           Ends(p, how)
    PROVE  StepResult(p)
  <1>1. proc' = [proc EXCEPT ![p] = Ended(how)]
    BY DEF Ends, Ended
  <1>2. ProcOk(Ended(how)) /\ Ended(how).wallet = {}
    BY EndedOk
  <1> QED
    BY <1>1, <1>2 DEF StepResult

LEMMA Acting ==
    ASSUME CliInv, NEW p \in Processes, NEW what, At(p, what)
    PROVE  /\ Ready(proc[p]) /\ ProcOk(proc[p]) /\ proc[p].exit = "running"
           /\ Ordered(proc[p].plan) /\ proc[p].plan # <<>>
           /\ proc[p].plan[1].do = what /\ Of(p) = proc[p].plan[1].of
           /\ proc[p].plan[1] \in Steps
           /\ Has(proc[p].plan, what)
  <1>1. ProcOk(proc[p]) /\ proc[p].exit = "running"
    BY DEF CliInv, ProcInv, At, Running
  <1>2. Ordered(proc[p].plan) /\ proc[p].plan # <<>> /\ proc[p].plan \in Seq(Steps)
    BY <1>1 DEF ProcOk, Ordered
  <1>3. Head(proc[p].plan) = proc[p].plan[1] /\ 1 \in DOMAIN proc[p].plan
        /\ proc[p].plan[1] \in Steps
    BY <1>2, EmptySeq
  <1>4. proc[p].plan[1].do = what /\ Of(p) = proc[p].plan[1].of
    BY <1>3 DEF At, Of
  <1>5. Ready(proc[p])
    BY <1>1, <1>2 DEF Ready, ProcOk, CoinsOk
  <1>6. Has(proc[p].plan, what)
    BY <1>3, <1>4 DEF Has
  <1> QED
    BY <1>1, <1>2, <1>3, <1>4, <1>5, <1>6

LEMMA ReadyUpdates ==
    ASSUME NEW r, Ready(r), NEW v
    PROVE  /\ Ready([r EXCEPT !.mistaken = v]) /\ [r EXCEPT !.mistaken = v].wallet = r.wallet
           /\ Ready([r EXCEPT !.unlocked = v]) /\ [r EXCEPT !.unlocked = v].wallet = r.wallet
           /\ Ready([r EXCEPT !.noAddress = v]) /\ [r EXCEPT !.noAddress = v].wallet = r.wallet
  <1>1. DOMAIN r = DOMAIN Idle
    BY DEF Ready
  <1> DEFINE Same(x) == /\ DOMAIN x = DOMAIN Idle /\ x.exit = r.exit /\ x.plan = r.plan
                        /\ x.named = r.named /\ x.coin = r.coin /\ x.wallet = r.wallet
                        /\ x.keys = r.keys
  <1>2. Same([r EXCEPT !.mistaken = v]) /\ Same([r EXCEPT !.unlocked = v])
        /\ Same([r EXCEPT !.noAddress = v])
    BY <1>1, IdleFields
  <1>3. \A x : Same(x) => Ready(x) /\ x.wallet = r.wallet
    BY DEF Ready
  <1> HIDE DEF Same
  <1> QED
    BY <1>2, <1>3

LEMMA Proceeding ==
    ASSUME CliInv, NEW p \in Processes, NEW what, At(p, what), Proceeds(p)
    PROVE  StepResult(p)
  BY Acting, Becoming DEF Proceeds

\* Questions, prompts and refusals.
LEMMA PlainStepResults ==
    ASSUME CliInv, NEW p \in Processes,
           \/ AskStep(p) \/ TryStep(p) \/ ParseStep(p) \/ ConfirmStep(p) \/ NeedKeystoreStep(p)
           \/ UnlockStep(p) \/ ResolveStep(p) \/ AbsentStep(p) \/ DecodeStep(p) \/ FetchStep(p)
    PROVE  StepResult(p)
  <1> DEFINE r == proc[p]
  <1>0. ASSUME NEW v, Ready(r),
               \/ Becomes(p, [r EXCEPT !.mistaken = v])
               \/ Becomes(p, [r EXCEPT !.unlocked = v])
               \/ Becomes(p, [r EXCEPT !.noAddress = v])
        PROVE  StepResult(p)
    <2> DEFINE q1 == [r EXCEPT !.mistaken = v]
               q2 == [r EXCEPT !.unlocked = v]
               q3 == [r EXCEPT !.noAddress = v]
    <2>1. /\ Ready(q1) /\ q1.wallet = r.wallet /\ Ready(q2) /\ q2.wallet = r.wallet
          /\ Ready(q3) /\ q3.wallet = r.wallet
      BY <1>0, ReadyUpdates
    <2>2. Becomes(p, q1) \/ Becomes(p, q2) \/ Becomes(p, q3)
      BY <1>0
    <2> HIDE DEF q1, q2, q3
    <2> QED
      BY <2>1, <2>2, Becoming
  <1>1. CASE AskStep(p)
    <2>1. Ready(r)
      BY <1>1, Acting DEF AskStep
    <2>2. CASE Ends(p, "failed")
      BY <2>2, Ending
    <2>3. CASE \E v : Becomes(p, [r EXCEPT !.mistaken = v])
      <3>1. PICK v : Becomes(p, [r EXCEPT !.mistaken = v])
        BY <2>3
      <3> QED
        BY <1>0, <2>1, <3>1
    <2>4. Ends(p, "failed") \/ \E v : Becomes(p, [r EXCEPT !.mistaken = v])
      BY <1>1 DEF AskStep
    <2> QED
      BY <2>2, <2>3, <2>4
  <1>2. CASE TryStep(p)
    BY <1>2, Proceeding DEF TryStep
  <1>3. CASE ParseStep(p)
    BY <1>3, Proceeding, Ending DEF ParseStep
  <1>4. CASE ConfirmStep(p)
    BY <1>4, Proceeding, Ending DEF ConfirmStep
  <1>5. CASE NeedKeystoreStep(p)
    BY <1>5, Proceeding, Ending DEF NeedKeystoreStep
  <1>6. CASE UnlockStep(p)
    <2>1. Ready(r)
      BY <1>6, Acting DEF UnlockStep
    <2>2. Ends(p, "failed") \/ Becomes(p, [r EXCEPT !.unlocked = TRUE])
      BY <1>6 DEF UnlockStep
    <2> QED
      BY <1>0, <2>1, <2>2, Ending
  <1>7. CASE ResolveStep(p)
    <2>1. Ready(r)
      BY <1>7, Acting DEF ResolveStep
    <2>2. CASE Ends(p, "failed")
      BY <2>2, Ending
    <2>3. CASE \E address : Becomes(p, [r EXCEPT !.noAddress = r.noAddress \/ ~address])
      <3>1. PICK address : Becomes(p, [r EXCEPT !.noAddress = r.noAddress \/ ~address])
        BY <2>3
      <3>2. PICK v : v = (r.noAddress \/ ~address)
        OBVIOUS
      <3> QED
        BY <1>0, <2>1, <3>1, <3>2
    <2>4. \/ Ends(p, "failed")
          \/ \E address : Becomes(p, [r EXCEPT !.noAddress = r.noAddress \/ ~address])
      BY <1>7 DEF ResolveStep
    <2> QED
      BY <2>2, <2>3, <2>4
  <1>8. CASE AbsentStep(p)
    <2>1. Ends(p, "ok") \/ Ends(p, "failed") \/ Ends(p, "panic")
      BY <1>8 DEF AbsentStep
    <2> QED
      BY <2>1, Ending
  <1>9. CASE DecodeStep(p)
    <2>1. At(p, "decode") /\ (Proceeds(p) \/ Ends(p, "failed"))
      BY <1>9 DEF DecodeStep
    <2> QED
      BY <2>1, Proceeding, Ending
  <1>10. CASE FetchStep(p)
    <2>1. At(p, "fetch") /\ (Proceeds(p) \/ Ends(p, "failed"))
      BY <1>10 DEF FetchStep
    <2> QED
      BY <2>1, Proceeding, Ending
  <1> QED
    BY <1>1, <1>2, <1>3, <1>4, <1>5, <1>6, <1>7, <1>8, <1>9, <1>10

LEMMA SyncResult ==
    ASSUME CliInv, NEW p \in Processes, SyncStep(p)
    PROVE  StepResult(p)
  <1> DEFINE r == proc[p]
             q == [r EXCEPT !.tries = @ + 1]
  <1>1. At(p, "sync")
    BY DEF SyncStep
  <1>2. ProcOk(r)
    BY <1>1, Acting
  <1>3. CASE Proceeds(p) \/ Ends(p, "failed")
    BY <1>1, <1>3, Proceeding, Ending
  <1>4. CASE proc' = [proc EXCEPT ![p].tries = @ + 1]
    <2>1. p \in DOMAIN proc
      BY DEF CliInv, ProcInv
    <2>2. proc' = [proc EXCEPT ![p] = q]
      BY <1>4, <2>1
    <2>3. DOMAIN r = DOMAIN Idle
      BY <1>2 DEF ProcOk
    <2>4. /\ DOMAIN q = DOMAIN Idle /\ q.exit = r.exit /\ q.plan = r.plan /\ q.wallet = r.wallet
          /\ q.coin = r.coin /\ q.named = r.named /\ q.keys = r.keys
          /\ q.accepted = r.accepted /\ q.reply = r.reply /\ q.rest = r.rest
      BY <2>3, IdleFields
    <2> HIDE DEF q, r
    <2>5. CoinsOk(q)
      BY <1>2, <2>4 DEF ProcOk, CoinsOk
    <2>6. SentOk(q)
      BY <1>2, <2>4 DEF ProcOk, SentOk
    <2>7. ProcOk(q)
      BY <1>2, <2>4, <2>5, <2>6 DEF ProcOk
    <2> QED
      BY <2>2, <2>4, <2>7 DEF StepResult, r
  <1> QED
    BY <1>3, <1>4 DEF SyncStep

\* The keystore is read before any coin is selected.
LEMMA ReadFileResult ==
    ASSUME CliInv, NEW p \in Processes, ReadFileStep(p)
    PROVE  StepResult(p)
  <1> DEFINE r == proc[p]
             q == [r EXCEPT !.wallet = file.has]
  <1>1. At(p, "readFile")
    BY DEF ReadFileStep
  <1>2. Ready(r) /\ ProcOk(r) /\ r.exit = "running" /\ Has(r.plan, "readFile")
    BY <1>1, Acting
  <1>3. CASE Ends(p, "ok") \/ Ends(p, "failed")
    BY <1>3, Ending
  <1>4. CASE Becomes(p, q)
    <2>1. r.coin = {}
      BY <1>2 DEF ProcOk, CoinsOk
    <2>2. /\ DOMAIN q = DOMAIN Idle /\ q.exit = r.exit /\ q.plan = r.plan /\ q.wallet = file.has
          /\ q.coin = {} /\ q.named = r.named /\ q.keys = r.keys
      BY <1>2, <2>1, IdleFields DEF Ready
    <2>3. Ready(q)
      <3> HIDE DEF q
      <3> QED
        BY <1>2, <2>1, <2>2 DEF Ready
    <2> QED
      BY <1>4, <2>2, <2>3, Becoming
  <1> QED
    BY <1>3, <1>4 DEF ReadFileStep

\* What is selected without being named is among the addresses signing looks through.
LEMMA SelectResult ==
    ASSUME CliInv, NEW p \in Processes, SelectStep(p)
    PROVE  StepResult(p)
  <1> DEFINE r == proc[p]
             whose == Of(p)[1]
  <1>1. At(p, "select")
    BY DEF SelectStep
  <1>2. /\ Ready(r) /\ ProcOk(r) /\ r.exit = "running" /\ Has(r.plan, "select")
        /\ r.plan[1] \in Steps /\ r.plan[1].do = "select" /\ Of(p) = r.plan[1].of
    BY <1>1, Acting
  <1>3. CASE Ends(p, "failed")
    BY <1>3, Ending
  <1>4. CASE Becomes(p, [r EXCEPT !.mistaken = FALSE])
    BY <1>2, <1>4, ReadyUpdates, Becoming
  <1>5. ASSUME whose # "nothing", NEW coin \in CoinsOf(p, whose),
               Becomes(p, [r EXCEPT !.coin = {coin}, !.named = whose = "named"])
        PROVE  StepResult(p)
    <2>1. whose \in {"own", "listed", "named"}
      <3>1. r.plan[1] \notin Plain
        BY <1>2, StepWords
      <3>2. r.plan[1] \in [do : {"select"}, of : Purses \X {""}]
        BY <1>2, <3>1 DEF Steps, Selecting, Signing
      <3>3. whose \in Purses
        BY <1>2, <3>2
      <3> QED
        BY <1>5, <3>3 DEF Purses
    <2> DEFINE q == [r EXCEPT !.coin = {coin}, !.named = whose = "named"]
    <2>2. /\ DOMAIN q = DOMAIN Idle /\ q.exit = r.exit /\ q.plan = r.plan /\ q.wallet = r.wallet
          /\ q.coin = {coin} /\ q.named = (whose = "named") /\ q.keys = r.keys
      BY <1>2, IdleFields DEF Ready
    <2>3. whose # "named" => \E k \in r.wallet : coin \in DefaultSpent(k, network)
      <3>1. CASE whose = "own"
        BY <1>5, <3>1 DEF CoinsOf
      <3>2. CASE whose = "listed"
        <4>1. PICK k \in r.wallet : coin \in DefaultListed(k, network)
          BY <1>5, <3>2 DEF CoinsOf
        <4> QED
          BY <4>1, ListedSpent
      <3> QED
        BY <2>1, <3>1, <3>2
    <2>4. r.keys = {}
      BY <1>2 DEF ProcOk, CoinsOk
    <2>5. Ready(q)
      <3> HIDE DEF q, whose
      <3> QED
        BY <1>2, <2>2, <2>3, <2>4 DEF Ready
    <2>6. Becomes(p, q)
      BY <1>5
    <2> HIDE DEF q
    <2> QED
      BY <2>2, <2>5, <2>6, Becoming
  <1> QED
    BY <1>3, <1>4, <1>5 DEF SelectStep

\* Signing has the key of each coin, or ends with a coin that was named.
LEMMA SignResult ==
    ASSUME CliInv, NEW p \in Processes, SignStep(p)
    PROVE  StepResult(p)
  <1> DEFINE r == proc[p]
             keys(c) == UNION {SigningKeys(k, c, network) : k \in r.wallet}
  <1>1. At(p, "sign")
    BY DEF SignStep
  <1>2. /\ Ready(r) /\ ProcOk(r) /\ r.exit = "running" /\ r.plan[1].do = "sign"
    BY <1>1, Acting
  <1>3. \A k \in r.wallet : k.account = AccountPath
    BY DEF CliInv, KeyInv, KeystoreOk
  <1>4. \A c : keys(c) \subseteq {c.key}
    BY <1>3, SignsWithItsKey
  <1>5. ASSUME \E c \in r.coin : keys(c) = {}
        PROVE  r.named
    <2>1. PICK c \in r.coin : keys(c) = {}
      BY <1>5
    <2>2. ASSUME NEW k \in r.wallet, c \in DefaultSpent(k, network)
          PROVE  FALSE
      BY <2>1, <2>2, Signable
    <2> QED
      BY <1>2, <2>2 DEF Ready
  <1>6. CASE Ends(p, "failed")
    BY <1>6, Ending
  <1>7. CASE /\ \E c \in r.coin : keys(c) = {}
             /\ proc' = [proc EXCEPT ![p] = [Idle EXCEPT !.exit = "unsigned", !.named = r.named]]
    <2> DEFINE q == [Idle EXCEPT !.exit = "unsigned", !.named = r.named]
    <2>1. /\ DOMAIN q = DOMAIN Idle /\ q.exit = "unsigned" /\ q.named = r.named
          /\ q.keys = {} /\ q.wallet = {} /\ q.coin = {}
      BY IdleFields
    <2>2. r.named /\ proc' = [proc EXCEPT ![p] = q]
      BY <1>5, <1>7
    <2> HIDE DEF q
    <2>3. ProcOk(q)
      BY <2>1, <2>2 DEF ProcOk, CoinsOk, SentOk
    <2> QED
      BY <2>1, <2>2, <2>3 DEF StepResult
  <1>8. CASE /\ ~ \E c \in r.coin : keys(c) = {}
             /\ Becomes(p, [r EXCEPT !.keys = UNION {keys(c) : c \in r.coin}])
    <2> DEFINE all == UNION {keys(c) : c \in r.coin}
               q == [r EXCEPT !.keys = all]
    <2>1. \A c \in r.coin : keys(c) = {c.key}
      BY <1>4, <1>8
    <2>2. all = {c.key : c \in r.coin}
      <3> HIDE DEF keys
      <3> QED
        BY <2>1
    <2>3. Becomes(p, q)
      BY <1>8
    <2> HIDE DEF all
    <2>4. /\ DOMAIN q = DOMAIN Idle /\ q.exit = r.exit /\ q.plan = r.plan /\ q.wallet = r.wallet
          /\ q.coin = r.coin /\ q.named = r.named /\ q.keys = all
      BY <1>2, IdleFields DEF Ready
    <2>5. Ready(q)
      <3> HIDE DEF q
      <3> QED
        BY <1>2, <2>2, <2>4 DEF Ready
    <2> HIDE DEF q
    <2> QED
      BY <2>3, <2>4, <2>5, Becoming
  <1> QED
    BY <1>6, <1>7, <1>8 DEF SignStep

\* A reply that is taken for a transaction id is one, or is no JSON, or anything at
\* all that an Esplora server said.
LEMMA SendResult ==
    ASSUME CliInv, NEW p \in Processes, SendStep(p)
    PROVE  StepResult(p)
  <1> DEFINE r == proc[p]
             m == Of(p)
  <1>1. At(p, "send")
    BY DEF SendStep
  <1>2. /\ ProcOk(r) /\ r.plan[1] \in Steps /\ r.plan[1].do = "send" /\ m = r.plan[1].of
    BY <1>1, Acting
  <1>3. m \in SendMethods
    BY <1>2 DEF Steps, Selecting, Signing, Plain, PlainWords
  <1>4. PICK accepted \in BOOLEAN, reply \in Replies :
            /\ reply = "result" => accepted
            /\ proc' = [proc EXCEPT ![p] =
                  [Idle EXCEPT !.exit = IF Reading(m, r.rest, reply) = "failed"
                                        THEN "failed" ELSE "sent",
                               !.rest = r.rest /\ m[1] = "esplora",
                               !.reply = reply, !.accepted = accepted]]
    BY DEF SendStep
  <1> DEFINE how == IF Reading(m, r.rest, reply) = "failed" THEN "failed" ELSE "sent"
             q == [Idle EXCEPT !.exit = how, !.rest = r.rest /\ m[1] = "esplora",
                               !.reply = reply, !.accepted = accepted]
  <1>5. /\ DOMAIN q = DOMAIN Idle /\ q.exit = how /\ q.rest = (r.rest /\ m[1] = "esplora")
        /\ q.reply = reply /\ q.accepted = accepted /\ q.wallet = {} /\ q.coin = {} /\ q.keys = {}
    BY IdleFields
  <1>6. how \in {"failed", "sent"}
    OBVIOUS
  <1>7. ASSUME how = "sent"
        PROVE  reply = "result" \/ reply \in {"text", "empty"}
               \/ (r.rest /\ m[1] = "esplora" /\ reply # "none")
    <2>1. Reading(m, r.rest, reply) # "failed"
      BY <1>7
    <2>2. PICK rest \in BOOLEAN : rest <=> r.rest
      OBVIOUS
    <2>3. Reading(m, rest, reply) # "failed"
      BY <2>1, <2>2 DEF Reading
    <2> QED
      BY <1>3, <2>2, <2>3, SentReading
  <1>8. proc' = [proc EXCEPT ![p] = q]
    BY <1>4
  <1> HIDE DEF how, q, m
  <1>9. SentOk(q)
    BY <1>4, <1>5, <1>7 DEF SentOk
  <1>10. CoinsOk(q)
    BY <1>5, <1>6 DEF CoinsOk
  <1>11. ProcOk(q)
    BY <1>5, <1>6, <1>9, <1>10 DEF ProcOk
  <1> QED
    BY <1>5, <1>8, <1>11 DEF StepResult

-----------------------------------------------------------------------------
(* The invariant is kept *)

LEMMA ProcKept ==
    ASSUME CliInv, NEW p \in Processes, StepResult(p)
    PROVE  ProcInv'
  <1>1. PICK q : proc' = [proc EXCEPT ![p] = q] /\ ProcOk(q)
    BY DEF StepResult
  <1>2. DOMAIN proc = Processes /\ \A x \in Processes : ProcOk(proc[x])
    BY DEF CliInv, ProcInv
  <1>3. DOMAIN proc' = Processes /\ \A x \in Processes : proc'[x] = IF x = p THEN q ELSE proc[x]
    BY <1>1, <1>2
  <1>4. \A x \in Processes : ProcOk(proc'[x])
    BY <1>1, <1>2, <1>3
  <1> QED
    BY <1>3, <1>4 DEF ProcInv

\* A mnemonic is safe as long as nothing is forgotten, and the one that is about to
\* be printed, if its process does something, is in what the user has or was cut off.
LEMMA SafeKept ==
    ASSUME CliInv, NEW p \in Processes, StepResult(p),
           known \subseteq known', cutOff \subseteq cutOff',
           Printing(proc[p]) => proc[p].seed \in known' \cup cutOff'
    PROVE  \A seed : Safe(seed) => Safe(seed)'
  <1>1. PICK q : proc' = [proc EXCEPT ![p] = q]
    BY DEF StepResult
  <1>2. DOMAIN proc = Processes
    BY DEF CliInv, ProcInv
  <1>3. \A x \in Processes : x # p => proc'[x] = proc[x]
    BY <1>1, <1>2
  <1>4. ASSUME NEW seed, Safe(seed)
        PROVE  Safe(seed)'
    <2>1. CASE seed \in known \cup cutOff
      BY <2>1 DEF Safe
    <2>2. ASSUME NEW x \in Processes, Printing(proc[x]), proc[x].seed = seed
          PROVE  Safe(seed)'
      <3>1. CASE x = p
        BY <2>2, <3>1 DEF Safe
      <3>2. CASE x # p
        <4>1. Printing(proc'[x]) /\ proc'[x].seed = seed
          BY <1>3, <2>2, <3>2
        <4>2. Printing(proc[x])'
          BY <4>1 DEF Printing
        <4> QED
          BY <4>1, <4>2 DEF Safe
      <3> QED
        BY <3>1, <3>2
    <2> QED
      BY <1>4, <2>1, <2>2 DEF Safe
  <1> QED
    BY <1>4

\* What keeps the keystores in order, whatever else a step does.
LEMMA KeyKept ==
    ASSUME CliInv, NEW p \in Processes, StepResult(p),
           known \subseteq known', cutOff \subseteq cutOff',
           Printing(proc[p]) => proc[p].seed \in known' \cup cutOff',
           \A k \in file'.has : k \in file.has \/ KeystoreOk(k)',
           \A seed \in shown' : seed \in shown \/ Safe(seed) \/ Safe(seed)'
    PROVE  KeyInv'
  <1>1. \A seed : Safe(seed) => Safe(seed)'
    BY SafeKept
  <1>2. \A k : KeystoreOk(k) => KeystoreOk(k)'
    BY <1>1 DEF KeystoreOk
  <1>3. \A k \in file.has : KeystoreOk(k)
    BY DEF CliInv, KeyInv
  <1>4. \A k \in file'.has : KeystoreOk(k)'
    BY <1>2, <1>3
  <1>5. \A x \in Processes : \A k \in proc[x].wallet : KeystoreOk(k)
    BY DEF CliInv, KeyInv
  <1>6. PICK q : proc' = [proc EXCEPT ![p] = q] /\ q.wallet \subseteq proc[p].wallet \cup file.has
    BY DEF StepResult
  <1>7. DOMAIN proc = Processes
    BY DEF CliInv, ProcInv
  <1>8. \A x \in Processes : proc'[x] = IF x = p THEN q ELSE proc[x]
    BY <1>6, <1>7
  <1>9. ASSUME NEW x \in Processes, NEW k \in proc'[x].wallet
        PROVE  KeystoreOk(k)
    <2>1. CASE x = p
      BY <1>3, <1>5, <1>6, <1>8, <1>9, <2>1
    <2>2. CASE x # p
      BY <1>5, <1>8, <1>9, <2>2
    <2> QED
      BY <2>1, <2>2
  <1>10. \A x \in Processes : \A k \in proc'[x].wallet : KeystoreOk(k)'
    BY <1>2, <1>9
  <1>11. \A seed \in shown' : Safe(seed)'
    BY <1>1 DEF CliInv, KeyInv
  <1> QED
    BY <1>4, <1>10, <1>11 DEF KeyInv

\* A step that changes only its process, which has no mnemonic to print.
LEMMA QuietKept ==
    ASSUME CliInv, NEW p \in Processes, StepResult(p), Alone, ~Printing(proc[p])
    PROVE  CliInv'
  <1>1. ProcInv'
    BY ProcKept
  <1>2. known \subseteq known' /\ cutOff \subseteq cutOff' /\ file' = file /\ shown' = shown
        /\ session' = session
    BY DEF Alone
  <1>3. KeyInv'
    BY <1>2, KeyKept
  <1> QED
    BY <1>1, <1>2, <1>3 DEF CliInv

LEMMA InitCli == Init => CliInv
  <1> SUFFICES ASSUME Init
               PROVE  CliInv
    OBVIOUS
  <1>1. /\ session \in DOMAIN Sessions /\ file = NoFile /\ proc = [p \in Processes |-> Idle]
        /\ shown = {}
    BY DEF Init
  <1>2. ProcOk(Idle)
    BY IdleFields DEF ProcOk, CoinsOk, SentOk
  <1>3. ProcInv
    BY <1>1, <1>2 DEF ProcInv
  <1>4. file.has = {}
    BY <1>1 DEF NoFile
  <1>5. \A p \in Processes : proc[p].wallet = {}
    BY <1>1, IdleFields
  <1>6. KeyInv
    BY <1>1, <1>4, <1>5 DEF KeyInv
  <1> QED
    BY <1>1, <1>3, <1>6 DEF CliInv

LEMMA StartKept ==
    ASSUME CliInv, NEW p \in Processes, Start(p)
    PROVE  CliInv'
  <1> DEFINE Begun(plan, seed, pass, rest, payload) ==
                [Idle EXCEPT !.plan = plan, !.exit = IF plan = <<>> THEN "ok" ELSE "running",
                             !.wallet = IF NeedsWallet(plan) THEN file.has ELSE {},
                             !.seed = seed, !.pass = pass, !.rest = rest,
                             !.payload = payload]
  <1>1. PICK run \in Sessions[session].may[p] : \E plan \in Plans(run[1], run[2]) :
            \E seed \in (IF Has(plan, "generate") THEN Seeds \ (drawn \cup known)
                         ELSE IF Has(plan, "import") THEN Seeds ELSE {"none"}) :
            \E pass \in (IF seed = "none" THEN {"none"} ELSE Passes) :
            \E rest \in (IF Asks(plan, "esplora") THEN BOOLEAN ELSE {FALSE}) :
            \E n \in (IF Has(plan, "decode") THEN 0..Sessions[session].bytes ELSE {0}) :
            \E payload \in [1..n -> Bytes] :
                proc' = [proc EXCEPT ![p] = Begun(plan, seed, pass, rest, payload)]
    BY DEF Start
  <1>2. PICK plan \in Plans(run[1], run[2]) :
            \E seed, pass, rest : \E n : \E payload \in [1..n -> Bytes] :
                proc' = [proc EXCEPT ![p] = Begun(plan, seed, pass, rest, payload)]
    <2> HIDE DEF Begun
    <2> QED
      BY <1>1, Zenon
  <1>3. PICK seed, pass, rest, payload :
            proc' = [proc EXCEPT ![p] = Begun(plan, seed, pass, rest, payload)]
    <2> HIDE DEF Begun
    <2> QED
      BY <1>2, Zenon
  <1> DEFINE how == IF plan = <<>> THEN "ok" ELSE "running"
             had == IF NeedsWallet(plan) THEN file.has ELSE {}
             q == [Idle EXCEPT !.plan = plan, !.exit = how, !.wallet = had, !.seed = seed,
                               !.pass = pass, !.rest = rest, !.payload = payload]
  <1>4. HasPlans(run[1], run[2])
    BY SessionAssumption DEF CliInv
  <1>5. Ordered(plan)
    BY <1>4, PlansGood, GoodOrdered
  <1>6. /\ DOMAIN q = DOMAIN Idle /\ q.plan = plan /\ q.exit = how /\ q.wallet = had
        /\ q.coin = {} /\ q.keys = {}
    BY IdleFields
  <1>7. had \subseteq file.has /\ how \in {"ok", "running"} /\ (how = "running" => plan # <<>>)
    OBVIOUS
  <1>8. proc' = [proc EXCEPT ![p] = q]
    BY <1>3 DEF Begun
  <1> HIDE DEF how, had, q
  <1>9. ProcOk(q)
    BY <1>5, <1>6, <1>7 DEF ProcOk, CoinsOk, SentOk
  <1>10. StepResult(p)
    BY <1>6, <1>7, <1>8, <1>9 DEF StepResult
  <1>11. Alone /\ ~Printing(proc[p])
    BY DEF Start, Alone, Printing
  <1> QED
    BY <1>10, <1>11, QuietKept

LEMMA LeaveKept ==
    ASSUME CliInv, NEW p \in Processes, Leave(p)
    PROVE  CliInv'
  <1>1. Ended("idle") = Idle
    BY DEF Ended, Idle
  <1>2. ProcOk(Idle) /\ Idle.wallet = {}
    BY <1>1, EndedOk
  <1>3. StepResult(p)
    BY <1>2 DEF Leave, StepResult
  <1>4. Alone /\ ~Printing(proc[p])
    BY DEF Leave, Alone, Printing
  <1> QED
    BY <1>3, <1>4, QuietKept

\* A process that is killed when only the printing is left has written its mnemonic.
LEMMA CutOffKept ==
    ASSUME CliInv, NEW p \in Processes, NEW how \in {"killed", "hung"},
           CutOff(p), Ends(p, how)
    PROVE  CliInv'
  <1>1. Running(p)
    BY DEF CutOff
  <1>2. StepResult(p)
    BY <1>1, Ending
  <1>3. cutOff \subseteq cutOff' /\ known' = known /\ file' = file /\ shown' = shown
        /\ session' = session
    BY DEF CutOff
  <1>4. ASSUME Printing(proc[p])
        PROVE  proc[p].seed \in cutOff'
    <2> DEFINE plan == proc[p].plan
    <2>1. Ordered(plan) /\ plan # <<>> /\ plan[1].do = "report"
      BY <1>4 DEF CliInv, ProcInv, ProcOk, Printing
    <2>2. plan \in Seq(Steps)
      BY <2>1 DEF Ordered
    <2>3. 1 \in 1..Len(plan) /\ DOMAIN plan = 1..Len(plan) /\ Len(plan) \in Nat
      BY <2>1, <2>2, ElementsIn, EmptySeq
    <2>4. Len(plan) = 1
      BY <2>1, <2>3 DEF Ordered
    <2> HIDE DEF plan
    <2>5. Has(plan, "report") /\ ~Has(plan, "write")
      BY <2>1, <2>3, <2>4 DEF Has
    <2> QED
      BY <2>5 DEF CutOff, plan
  <1>5. KeyInv'
    BY <1>2, <1>3, <1>4, KeyKept
  <1> QED
    BY <1>2, <1>3, <1>5, ProcKept DEF CliInv

LEMMA NotPrinting ==
    ASSUME CliInv, NEW p \in Processes, NEW what, At(p, what), what # "report"
    PROVE  ~Printing(proc[p])
  BY Acting DEF Printing

\* A mnemonic that is written belongs to a process with only the printing left.
LEMMA WriteKept ==
    ASSUME CliInv, NEW p \in Processes, WriteStep(p)
    PROVE  CliInv'
  <1> DEFINE r == proc[p]
  <1>1. At(p, "write") /\ Proceeds(p)
    BY DEF WriteStep
  <1>2. StepResult(p) /\ ~Printing(r)
    BY <1>1, Proceeding, NotPrinting
  <1>3. /\ r.exit = "running" /\ Ordered(r.plan) /\ r.plan # <<>> /\ r.plan[1].do = "write"
        /\ DOMAIN r = DOMAIN Idle
    BY <1>1, Acting DEF Ready
  <1>4. r.plan \in Seq(Steps)
    BY <1>3 DEF Ordered
  <1>5. 1 \in 1..Len(r.plan)
    BY <1>3, <1>4, ElementsIn, EmptySeq
  <1>6. Len(r.plan) > 1
    BY <1>3, <1>5 DEF Ordered
  <1>7. /\ After(r).plan = Tail(r.plan) /\ After(r).exit = "running" /\ After(r).seed = r.seed
        /\ Tail(r.plan)[1].do = "report"
    BY <1>3, <1>6, AfterFields, TailOrdered
  <1>8. p \in DOMAIN proc
    BY DEF CliInv, ProcInv
  <1>9. proc'[p] = After(r)
    BY <1>1, <1>8 DEF Proceeds, Becomes, After
  <1>10. Printing(proc[p])' /\ proc'[p].seed = r.seed
    BY <1>7, <1>9 DEF Printing
  <1>11. \A seed : seed = r.seed => Safe(seed)'
    BY <1>10 DEF Safe
  <1>12. ASSUME NEW k \in file'.has
         PROVE  KeystoreOk(k)'
    <2>1. file' = Saved(Keystore(r.seed, r.pass)) \/ file' = Unreadable
      BY DEF WriteStep
    <2>2. k = Keystore(r.seed, r.pass)
      BY <2>1 DEF Saved, Unreadable
    <2>3. k.seed = r.seed /\ k.account = AccountPath
      BY <2>2 DEF Keystore
    <2> QED
      BY <1>11, <2>3 DEF KeystoreOk
  <1>13. known' = known /\ cutOff' = cutOff /\ shown' = shown /\ session' = session
    BY DEF WriteStep
  <1>14. KeyInv'
    BY <1>2, <1>12, <1>13, KeyKept
  <1> QED
    BY <1>2, <1>13, <1>14, ProcKept DEF CliInv

LEMMA ReportKept ==
    ASSUME CliInv, NEW p \in Processes, ReportStep(p)
    PROVE  CliInv'
  <1>1. StepResult(p)
    BY Proceeding DEF ReportStep
  <1>2. /\ known' = known \cup {proc[p].seed} /\ shown' = shown \cup {proc[p].seed}
        /\ file' = file /\ cutOff' = cutOff /\ session' = session
    BY DEF ReportStep
  <1>3. \A seed \in shown' : seed \in shown \/ Safe(seed)'
    BY <1>2 DEF Safe
  <1>4. KeyInv'
    BY <1>1, <1>2, <1>3, KeyKept
  <1> QED
    BY <1>1, <1>2, <1>4, ProcKept DEF CliInv

\* What is shown is of a keystore that the process has.
LEMMA ShowKept ==
    ASSUME CliInv, NEW p \in Processes, ShowStep(p)
    PROVE  CliInv'
  <1>1. At(p, "show") /\ (Proceeds(p) \/ Ends(p, "failed"))
    BY DEF ShowStep
  <1>2. StepResult(p) /\ ~Printing(proc[p])
    BY <1>1, Proceeding, Ending, NotPrinting
  <1>3. file' = file /\ known' = known /\ cutOff' = cutOff /\ session' = session
    BY DEF ShowStep
  <1>4. Of(p)[1] \in Lists
    <2>1. proc[p].plan[1] \in Steps /\ proc[p].plan[1].do = "show" /\ Of(p) = proc[p].plan[1].of
      BY <1>1, Acting
    <2>2. proc[p].plan[1] \in [do : {"show"}, of : Lists \X {""}]
      BY <2>1 DEF Steps, Selecting, Signing, Plain, PlainWords
    <2> QED
      BY <2>1, <2>2
  <1>5. ASSUME NEW seed \in shown'
        PROVE  seed \in shown \/ Safe(seed)
    <2>1. CASE shown' = shown
      BY <1>5, <2>1
    <2>2. ASSUME NEW printed \in UNION {Printouts(k, Of(p)[1]) : k \in proc[p].wallet},
                 shown' = shown \cup {a.key.seed : a \in printed}
          PROVE  seed \in shown \/ Safe(seed)
      <3>1. PICK k \in proc[p].wallet : printed \in Printouts(k, Of(p)[1])
        BY <2>2
      <3>2. Safe(k.seed)
        BY DEF CliInv, KeyInv, KeystoreOk
      <3>3. PICK what \in Lists : what = Of(p)[1]
        BY <1>4
      <3>4. \A a \in printed : a.key.seed = k.seed
        BY <3>1, <3>3, PrintedSeeds
      <3> QED
        BY <2>2, <3>2, <3>4
    <2> QED
      BY <2>1, <2>2 DEF ShowStep
  <1>6. KeyInv'
    BY <1>2, <1>3, <1>5, KeyKept
  <1> QED
    BY <1>2, <1>3, <1>6, ProcKept DEF CliInv

LEMMA StepKept ==
    ASSUME CliInv, NEW p \in Processes, Step(p)
    PROVE  CliInv'
  <1>1. CASE \/ AskStep(p) \/ TryStep(p) \/ ParseStep(p) \/ ConfirmStep(p) \/ NeedKeystoreStep(p)
             \/ UnlockStep(p) \/ ResolveStep(p) \/ AbsentStep(p) \/ DecodeStep(p) \/ FetchStep(p)
    <2>1. StepResult(p)
      BY <1>1, PlainStepResults
    <2>2. Alone
      BY <1>1 DEF AskStep, TryStep, ParseStep, ConfirmStep, NeedKeystoreStep, UnlockStep,
                  ResolveStep, AbsentStep, DecodeStep, FetchStep
    <2>3. PICK what : At(p, what) /\ what # "report"
      BY <1>1 DEF AskStep, TryStep, ParseStep, ConfirmStep, NeedKeystoreStep, UnlockStep,
                  ResolveStep, AbsentStep, DecodeStep, FetchStep
    <2> QED
      BY <2>1, <2>2, <2>3, NotPrinting, QuietKept
  <1>2. CASE SyncStep(p)
    BY <1>2, SyncResult, NotPrinting, QuietKept DEF SyncStep
  <1>3. CASE ReadFileStep(p)
    BY <1>3, ReadFileResult, NotPrinting, QuietKept DEF ReadFileStep
  <1>4. CASE SelectStep(p)
    BY <1>4, SelectResult, NotPrinting, QuietKept DEF SelectStep
  <1>5. CASE SignStep(p)
    BY <1>5, SignResult, NotPrinting, QuietKept DEF SignStep
  <1>6. CASE SendStep(p)
    BY <1>6, SendResult, NotPrinting, QuietKept DEF SendStep
  <1>7. CASE GenerateStep(p) \/ ImportStep(p) \/ TruncateStep(p)
    <2>1. StepResult(p) /\ ~Printing(proc[p])
      BY <1>7, Proceeding, NotPrinting DEF GenerateStep, ImportStep, TruncateStep
    <2>2. known \subseteq known' /\ cutOff' = cutOff /\ shown' = shown /\ session' = session
          /\ file'.has \subseteq file.has
      BY <1>7 DEF GenerateStep, ImportStep, TruncateStep, Unreadable
    <2>3. KeyInv'
      BY <2>1, <2>2, KeyKept
    <2> QED
      BY <2>1, <2>2, <2>3, ProcKept DEF CliInv
  <1>8. CASE WriteStep(p)
    BY <1>8, WriteKept
  <1>9. CASE ReportStep(p)
    BY <1>9, ReportKept
  <1>10. CASE ShowStep(p)
    BY <1>10, ShowKept
  <1> QED
    BY <1>1, <1>2, <1>3, <1>4, <1>5, <1>6, <1>7, <1>8, <1>9, <1>10 DEF Step

LEMMA NextCli == CliInv /\ [Next]_vars => CliInv'
  <1> SUFFICES ASSUME CliInv, [Next]_vars
               PROVE  CliInv'
    OBVIOUS
  <1>1. CASE UNCHANGED vars
    BY <1>1 DEF vars, CliInv, ProcInv, KeyInv, KeystoreOk, Safe
  <1>2. ASSUME NEW p \in Processes, Kill(p) \/ Hang(p)
        PROVE  CliInv'
    BY <1>2, CutOffKept DEF Kill, Hang
  <1>3. ASSUME NEW p \in Processes, Start(p) \/ Leave(p) \/ Step(p)
        PROVE  CliInv'
    BY <1>3, StartKept, LeaveKept, StepKept
  <1> QED
    BY <1>1, <1>2, <1>3 DEF Next

-----------------------------------------------------------------------------
(* The armor of a keystore *)

Symbols == {"BEGIN", "c", "=", "nl", "END"}

\* The length of a text in base64, and the bytes that fill up its last group.
Padding(n) == (3 - (n % 3)) % 3

LEMMA Base64Exact ==
    ASSUME NEW n \in Nat
    PROVE  /\ EncodedLength(n) \in Nat /\ n <= EncodedLength(n)
           /\ Base64(n) \in Seq({"c", "="}) /\ Len(Base64(n)) = EncodedLength(n)
           /\ \A k \in Nat : EncodedLength(k) = EncodedLength(n) /\ Base64(k) = Base64(n) => k = n
  <1>1. \A k \in Nat : /\ EncodedLength(k) \in Nat /\ k <= EncodedLength(k)
                       /\ Padding(k) \in 0..2
                       /\ (k > 0 => Padding(k) < EncodedLength(k))
                       /\ (k = 0 <=> EncodedLength(k) = 0)
    BY DEF EncodedLength, Padding
  <1>2. \A k \in Nat : Base64(k) =
            [i \in 1..EncodedLength(k) |->
                IF i > EncodedLength(k) - Padding(k) THEN "=" ELSE "c"]
    BY DEF Base64, Padding
  <1>3. \A k \in Nat : Base64(k) \in Seq({"c", "="}) /\ Len(Base64(k)) = EncodedLength(k)
    <2> TAKE k \in Nat
    <2> DEFINE L == EncodedLength(k)
    <2>1. Base64(k) \in [1..L -> {"c", "="}] /\ L \in Nat
      BY <1>1, <1>2
    <2> HIDE DEF L
    <2>2. Base64(k) \in Seq({"c", "="})
      BY <2>1, SeqDef
    <2>3. Len(Base64(k)) = L
      BY <2>1, <2>2, LenProperties
    <2> QED
      BY <2>2, <2>3 DEF L
  <1>4. ASSUME NEW k \in Nat, EncodedLength(k) = EncodedLength(n), Base64(k) = Base64(n)
        PROVE  k = n
    <2>1. CASE n = 0
      BY <1>1, <1>4, <2>1
    <2>2. CASE n # 0
      <3> DEFINE L == EncodedLength(n)
      <3>0. k # 0 /\ L \in Nat
        BY <1>1, <1>4, <2>2
      <3>1. \A i \in 1..L : i > L - Padding(k) <=> i > L - Padding(n)
        BY <1>2, <1>4
      <3>2. Padding(k) < L /\ Padding(n) < L /\ Padding(k) \in 0..2 /\ Padding(n) \in 0..2
        BY <1>1, <1>4, <2>2, <3>0
      <3> HIDE DEF L
      <3>3. L - Padding(k) \in 1..L /\ L - Padding(n) \in 1..L
        BY <3>0, <3>2
      <3>4. Padding(k) = Padding(n)
        BY <3>0, <3>1, <3>2, <3>3
      <3> QED
        BY <1>4, <3>4 DEF EncodedLength, Padding
    <2> QED
      BY <2>1, <2>2
  <1> QED
    BY <1>1, <1>3, <1>4

LEMMA CleanedEmpty == Cleaned(<<>>) = <<>>
  <1>1. [i \in 1..Len(<<>>) |-> IF <<>>[i] = "nl" THEN <<>> ELSE << <<>>[i] >>] = <<>>
    BY EmptySeq
  <1> QED
    BY <1>1, FlattenEmpty, Zenon DEF Cleaned

LEMMA CleanedAppend ==
    ASSUME NEW t \in Seq(Symbols), NEW x \in Symbols
    PROVE  /\ Cleaned(t) \in Seq(Symbols)
           /\ Cleaned(Append(t, x)) = IF x = "nl" THEN Cleaned(t) ELSE Append(Cleaned(t), x)
  <1> DEFINE One(y) == IF y = "nl" THEN <<>> ELSE <<y>>
             S(v) == [i \in 1..Len(v) |-> One(v[i])]
  <1>1. \A y \in Symbols : One(y) \in Seq(Symbols)
    OBVIOUS
  <1>2. \A v : Cleaned(v) = FlattenSeq(S(v))
    BY Zenon DEF Cleaned
  <1> HIDE DEF One
  <1>3. ASSUME NEW v \in Seq(Symbols)
        PROVE  S(v) \in Seq(Seq(Symbols)) /\ Len(S(v)) = Len(v)
    <2>1. Len(v) \in Nat /\ \A i \in 1..Len(v) : v[i] \in Symbols
      BY LenProperties, ElementOfSeq
    <2>2. S(v) \in [1..Len(v) -> Seq(Symbols)]
      BY <1>1, <2>1
    <2> HIDE DEF S
    <2>3. S(v) \in Seq(Seq(Symbols))
      BY <2>1, <2>2, SeqDef
    <2> QED
      BY <2>1, <2>2, <2>3, LenProperties
  <1> DEFINE u == Append(t, x)
  <1>4. /\ u \in Seq(Symbols) /\ Len(u) = Len(t) + 1 /\ Len(t) \in Nat
        /\ \A i \in 1..Len(t) : u[i] = t[i]
        /\ u[Len(t) + 1] = x
    BY AppendProperties, LenProperties
  <1> HIDE DEF u
  <1>5. S(u) = Append(S(t), One(x))
    <2>1. S(u) \in Seq(Seq(Symbols)) /\ Len(S(u)) = Len(t) + 1
      BY <1>3, <1>4
    <2>2. S(t) \in Seq(Seq(Symbols)) /\ Len(S(t)) = Len(t) /\ One(x) \in Seq(Symbols)
      BY <1>1, <1>3
    <2>3. \A i \in 1..Len(t) : S(u)[i] = S(t)[i]
      BY <1>4
    <2>4. S(u)[Len(t) + 1] = One(x)
      BY <1>4
    <2> DEFINE w == Append(S(t), One(x))
    <2> HIDE DEF S
    <2>5. /\ w \in Seq(Seq(Symbols)) /\ Len(w) = Len(t) + 1
          /\ \A i \in 1..Len(t) : w[i] = S(t)[i]
          /\ w[Len(t) + 1] = One(x)
      BY <2>2, AppendProperties
    <2> HIDE DEF w
    <2>6. \A i \in 1..Len(S(u)) : i \in 1..Len(t) \/ i = Len(t) + 1
      BY <1>4, <2>1
    <2>7. \A i \in 1..Len(S(u)) : S(u)[i] = w[i]
      BY <2>3, <2>4, <2>5, <2>6
    <2>8. S(u) = w
      BY <2>1, <2>5, <2>7, SeqEqual
    <2> QED
      BY <2>8 DEF w
  <1>6. S(t) \in Seq(Seq(Symbols)) /\ One(x) \in Seq(Symbols)
    BY <1>1, <1>3
  <1> HIDE DEF S
  <1>7. Cleaned(t) \in Seq(Symbols)
    BY <1>2, <1>6, FlattenType
  <1>8. Cleaned(u) = Cleaned(t) \o One(x)
    BY <1>2, <1>5, <1>6, FlattenAppend
  <1> QED
    BY <1>7, <1>8, ConcatEmptySeq, AppendIsConcat DEF One, u

\* What is written of the body, cleaned of its line ends, is the text in base64; it is
\* nothing or ends in a line end.
BodySymbols == {"c", "=", "nl"}

LEMMA BodyExact ==
    ASSUME NEW n \in Nat
    PROVE  /\ write_body(n) \in Seq(BodySymbols)
           /\ Cleaned(write_body(n)) = Base64(n)
           /\ write_body(n) # <<>> => write_body(n)[Len(write_body(n))] = "nl"
  <1> DEFINE e == Base64(n)
             L == Len(e)
             Closes(i) == i % LineWidth = 0 \/ i = L
             Line(i) == IF Closes(i) THEN <<e[i], "nl">> ELSE <<e[i]>>
             lines(i) == [j \in 1..i |-> Line(j)]
             B(i) == FlattenSeq(lines(i))
             good == {i \in 0..L : /\ B(i) \in Seq(BodySymbols)
                                   /\ Cleaned(B(i)) = SubSeq(e, 1, i)
                                   /\ i = 0 => B(i) = <<>>
                                   /\ i # 0 /\ Closes(i) => B(i)[Len(B(i))] = "nl"}
  <1>1. L \in Nat /\ e \in Seq({"c", "="}) /\ \A i \in 1..L : e[i] \in {"c", "="}
    BY Base64Exact, LenProperties, ElementOfSeq
  <1>2. write_body(n) = B(L)
    BY DEF write_body
  <1> HIDE DEF e, L, Closes
  <1>3. \A i \in 1..L : Line(i) \in Seq(BodySymbols)
    <2> TAKE i \in 1..L
    <2>1. e[i] \in BodySymbols /\ "nl" \in BodySymbols
      BY <1>1 DEF BodySymbols
    <2>2. \A x, y \in BodySymbols : <<x>> \in Seq(BodySymbols) /\ <<x, y>> \in Seq(BodySymbols)
      OBVIOUS
    <2>3. <<e[i]>> \in Seq(BodySymbols) /\ <<e[i], "nl">> \in Seq(BodySymbols)
      BY <2>1, <2>2
    <2> QED
      BY <2>3, Zenon
  <1>4. ASSUME NEW i \in 0..L
        PROVE  lines(i) \in Seq(Seq(BodySymbols)) /\ Len(lines(i)) = i
    <2>1. lines(i) \in [1..i -> Seq(BodySymbols)] /\ i \in Nat
      BY <1>1, <1>3
    <2> HIDE DEF lines
    <2>2. lines(i) \in Seq(Seq(BodySymbols))
      BY <2>1, SeqDef
    <2> QED
      BY <2>1, <2>2, LenProperties
  <1>5. 0 \in good
    <2>1. lines(0) = <<>>
      BY <1>1, <1>4, EmptySeq
    <2>2. B(0) = <<>>
      BY <2>1, FlattenEmpty
    <2>3. SubSeq(e, 1, 0) = <<>>
      BY SubSeqEmpty
    <2>4. B(0) \in Seq(BodySymbols) /\ Cleaned(B(0)) = SubSeq(e, 1, 0)
      BY <2>2, <2>3, CleanedEmpty, EmptySeq, Zenon
    <2>5. 0 \in 0..L
      BY <1>1
    <2> HIDE DEF B
    <2> QED
      BY <2>2, <2>4, <2>5, Zenon
  <1>6. ASSUME NEW i \in 0..(L - 1), i \in good
        PROVE  i + 1 \in good
    <2>1. i + 1 \in 1..L /\ i + 1 \in 0..L /\ i \in 0..L /\ i \in Nat
      BY <1>1
    <2>2. lines(i + 1) = Append(lines(i), Line(i + 1))
      <3> DEFINE l == lines(i)
                 k == lines(i + 1)
                 w == Append(l, Line(i + 1))
      <3>1. l \in Seq(Seq(BodySymbols)) /\ Len(l) = i /\ Line(i + 1) \in Seq(BodySymbols)
        BY <1>3, <1>4, <2>1
      <3>2. k \in Seq(Seq(BodySymbols)) /\ Len(k) = i + 1
        BY <1>4, <2>1
      <3>3. k[i + 1] = Line(i + 1) /\ \A j \in 1..i : k[j] = l[j]
        BY <2>1
      <3> HIDE DEF l, k, Line
      <3>4. /\ w \in Seq(Seq(BodySymbols)) /\ Len(w) = i + 1
            /\ w[i + 1] = Line(i + 1) /\ \A j \in 1..i : w[j] = l[j]
        BY <3>1, AppendProperties
      <3> HIDE DEF w
      <3>5. \A j \in 1..(i + 1) : j \in 1..i \/ j = i + 1
        BY <2>1
      <3>6. k = w
        BY <3>2, <3>3, <3>4, <3>5, SeqEqual
      <3> QED
        BY <3>6 DEF k, w, l
    <2>3. B(i + 1) = B(i) \o Line(i + 1)
      BY <1>3, <1>4, <2>1, <2>2, FlattenAppend
    <2>4. /\ B(i) \in Seq(BodySymbols) /\ Cleaned(B(i)) = SubSeq(e, 1, i)
      BY <1>6
    <2>5. SubSeq(e, 1, i + 1) = Append(SubSeq(e, 1, i), e[i + 1])
      <3>1. 1 \in 1..Len(e) /\ i + 1 \in 1..Len(e) /\ (i + 1) - 1 = i
        BY <1>1, <2>1 DEF L
      <3>2. SubSeq(e, 1, i + 1) = SubSeq(e, 1, i) \o <<e[i + 1]>>
        BY <1>1, <3>1, SubSeqRecursiveSecond
      <3>3. SubSeq(e, 1, i) \in Seq({"c", "="}) /\ e[i + 1] \in {"c", "="}
        BY <1>1, <2>1, SubSeqProperties
      <3> QED
        BY <3>2, <3>3, AppendIsConcat
    <2> HIDE DEF B, lines
    <2> DEFINE c == Append(B(i), e[i + 1])
    <2>6. /\ e[i + 1] \in Symbols \ {"nl"} /\ "nl" \in Symbols
          /\ e[i + 1] \in BodySymbols /\ "nl" \in BodySymbols
      BY <1>1, <2>1 DEF Symbols, BodySymbols
    <2>7. B(i) \in Seq(Symbols)
      BY <2>4, SeqMonotonic DEF Symbols, BodySymbols
    <2>8. /\ c \in Seq(BodySymbols) /\ c \in Seq(Symbols)
          /\ Cleaned(c) = SubSeq(e, 1, i + 1)
      BY <2>4, <2>5, <2>6, <2>7, CleanedAppend, AppendProperties
    <2>9. CASE Closes(i + 1)
      <3> DEFINE x == e[i + 1]
      <3> HIDE DEF x
      <3>1. B(i + 1) = Append(c, "nl")
        <4>1. B(i + 1) = B(i) \o <<x, "nl">>
          BY <2>3, <2>9 DEF x
        <4>2. x \in BodySymbols /\ "nl" \in BodySymbols
          BY <2>6 DEF x
        <4> DEFINE p == <<x>>
                   q == <<"nl">>
        <4>3. <<x, "nl">> = p \o q /\ p \in Seq(BodySymbols) /\ q \in Seq(BodySymbols)
          BY <4>2
        <4>4. c = B(i) \o p
          BY <2>4, <4>2, AppendIsConcat DEF x
        <4>5. Append(c, "nl") = c \o q
          BY <2>8, <4>2, AppendIsConcat
        <4> HIDE DEF p, q, c
        <4> QED
          BY <2>4, <4>1, <4>3, <4>4, <4>5, ConcatAssociative
      <3> HIDE DEF c
      <3>2. Cleaned(B(i + 1)) = SubSeq(e, 1, i + 1)
        BY <2>6, <2>8, <3>1, CleanedAppend
      <3>3. B(i + 1) \in Seq(BodySymbols) /\ B(i + 1)[Len(B(i + 1))] = "nl"
        <4>1. /\ Append(c, "nl") \in Seq(BodySymbols)
              /\ Len(Append(c, "nl")) = Len(c) + 1 /\ Append(c, "nl")[Len(c) + 1] = "nl"
          BY <2>6, <2>8, AppendProperties
        <4> QED
          BY <3>1, <4>1, Zenon
      <3> QED
        BY <2>1, <3>2, <3>3
    <2>10. CASE ~Closes(i + 1)
      <3>1. B(i + 1) = c
        BY <2>3, <2>4, <2>6, <2>10, AppendIsConcat
      <3> HIDE DEF c
      <3> QED
        BY <2>1, <2>8, <2>10, <3>1
    <2> QED
      BY <2>9, <2>10
  <1> HIDE DEF good, B
  <1>7. L \in good
    <2>1. 0..L \subseteq good
      BY <1>1, <1>5, <1>6, EveryTurn
    <2> QED
      BY <1>1, <2>1
  <1>8. SubSeq(e, 1, L) = e
    BY <1>1, SubSeqFull DEF L
  <1>9. /\ B(L) \in Seq(BodySymbols) /\ Cleaned(B(L)) = e
        /\ B(L) # <<>> => B(L)[Len(B(L))] = "nl"
    BY <1>7, <1>8 DEF good, Closes
  <1> QED
    BY <1>2, <1>9 DEF e

LEMMA FirstAndRest ==
    ASSUME NEW S, NEW x \in S, NEW t \in Seq(S)
    PROVE  /\ <<x>> \o t \in Seq(S) /\ <<x>> \o t # <<>>
           /\ Head(<<x>> \o t) = x /\ Tail(<<x>> \o t) = t
  <1> DEFINE p == <<x>>
             u == p \o t
  <1>1. p \in Seq(S) /\ Len(p) = 1 /\ p[1] = x /\ Len(t) \in Nat
    BY LenProperties
  <1> HIDE DEF p
  <1>2. /\ u \in Seq(S) /\ Len(u) = Len(p) + Len(t)
        /\ \A i \in 1..(Len(p) + Len(t)) : u[i] = IF i <= Len(p) THEN p[i] ELSE t[i - Len(p)]
    BY <1>1, ConcatProperties, Zenon
  <1> HIDE DEF u
  <1>3. Len(u) = 1 + Len(t) /\ u[1] = x /\ \A i \in 1..Len(t) : u[i + 1] = t[i]
    BY <1>1, <1>2
  <1>4. u # <<>>
    BY <1>1, <1>3, EmptySeq
  <1>5. /\ Head(u) = u[1] /\ Tail(u) \in Seq(S) /\ Len(Tail(u)) = Len(t)
        /\ \A i \in 1..Len(t) : Tail(u)[i] = u[i + 1]
    <2>1. /\ Tail(u) \in Seq(S) /\ Len(Tail(u)) = Len(u) - 1
          /\ \A i \in 1..Len(Tail(u)) : Tail(u)[i] = u[i + 1]
      BY <1>2, <1>4, HeadTailProperties
    <2>2. Head(u) = u[1]
      BY <1>2, <1>4
    <2> QED
      BY <1>1, <1>3, <2>1, <2>2
  <1>6. Tail(u) = t
    BY <1>3, <1>5, SeqEqual
  <1> QED
    BY <1>2, <1>3, <1>4, <1>5, <1>6 DEF u, p

\* What is written is read back, padding or not.
LEMMA ArmorReadsBack ==
    ASSUME NEW n \in Nat
    PROVE  decode(write(n, TRUE)) = {n}
  <1> DEFINE b == write_body(n)
             m == Len(b)
             foot == <<"=", "c", "c", "c", "c", "nl", "END">>
             text == (<<"BEGIN", "nl">> \o b) \o foot
             rest == b \o foot
  <1>1. b \in Seq(BodySymbols) /\ b \in Seq(Symbols) /\ m \in Nat
    BY BodyExact, SeqMonotonic, LenProperties DEF Symbols, BodySymbols
  <1>2. Cleaned(b) = Base64(n) /\ (b # <<>> => b[m] = "nl")
    BY BodyExact
  <1>3. write(n, TRUE) = text
    <2>1. write_footer(TRUE) = foot
      <3> DEFINE p == <<"=", "c", "c", "c", "c", "nl">>
                 q == <<"END">>
      <3>1. write_footer(TRUE) = p \o q
        BY DEF write_footer
      <3>2. /\ p \in Seq(Symbols) /\ q \in Seq(Symbols) /\ Len(p) = 6 /\ Len(q) = 1
            /\ foot \in Seq(Symbols) /\ Len(foot) = 7
        BY DEF Symbols
      <3>3. \A i \in 1..6 : p[i] = foot[i]
        OBVIOUS
      <3>4. q[1] = foot[7]
        OBVIOUS
      <3> HIDE DEF p, q, foot
      <3>5. /\ p \o q \in Seq(Symbols) /\ Len(p \o q) = 7
            /\ \A i \in 1..7 : (p \o q)[i] = IF i <= 6 THEN p[i] ELSE q[i - 6]
        <4>1. /\ p \o q \in Seq(Symbols) /\ Len(p \o q) = Len(p) + Len(q)
              /\ \A i \in 1..(Len(p) + Len(q)) :
                    (p \o q)[i] = IF i <= Len(p) THEN p[i] ELSE q[i - Len(p)]
          BY <3>2, ConcatProperties, Zenon
        <4>2. Len(p) + Len(q) = 7
          BY <3>2
        <4> QED
          BY <3>2, <4>1, <4>2, Zenon
      <3>6. \A i \in 1..7 : (p \o q)[i] = foot[i]
        BY <3>3, <3>4, <3>5
      <3>7. p \o q = foot
        BY <3>2, <3>5, <3>6, SeqEqual
      <3> QED
        BY <3>1, <3>7
    <2> QED
      BY <2>1 DEF write, write_header
  <1> HIDE DEF b
  <1>4. /\ foot \in Seq(Symbols) /\ <<"BEGIN", "nl">> \in Seq(Symbols) /\ <<"nl">> \in Seq(Symbols)
        /\ <<"BEGIN">> \in Seq(Symbols)
        /\ Len(foot) = 7
    BY DEF Symbols
  <1>5. foot[1] = "=" /\ foot[2] = "c" /\ foot[3] = "c" /\ foot[4] = "c" /\ foot[5] = "c"
        /\ foot[6] = "nl" /\ foot[7] = "END"
    OBVIOUS
  <1> HIDE DEF foot
  <1>6. rest \in Seq(Symbols) /\ Len(rest) = m + 7
        /\ (\A i \in 1..m : rest[i] = b[i])
        /\ (\A i \in 1..7 : rest[m + i] = foot[i])
    <2>1. /\ rest \in Seq(Symbols) /\ Len(rest) = m + 7
          /\ \A i \in 1..(m + 7) : rest[i] = IF i <= m THEN b[i] ELSE foot[i - m]
      <3>1. /\ rest \in Seq(Symbols) /\ Len(rest) = m + Len(foot)
            /\ \A i \in 1..(m + Len(foot)) : rest[i] = IF i <= m THEN b[i] ELSE foot[i - m]
        BY <1>1, <1>4, ConcatProperties, Zenon
      <3> QED
        BY <1>4, <3>1, Zenon
    <2> HIDE DEF rest, m
    <2>2. \A i \in 1..m : i \in 1..(m + 7) /\ i <= m
      BY <1>1
    <2>3. \A i \in 1..7 : m + i \in 1..(m + 7) /\ ~(m + i <= m) /\ (m + i) - m = i
      BY <1>1
    <2> QED
      BY <2>1, <2>2, <2>3
  <1>7. armor_header(text) = {<<"nl">> \o rest} /\ BlankSkipped(<<"nl">> \o rest) = rest
    <2> DEFINE p == <<"BEGIN">>
               q == <<"nl">>
    <2>1. <<"BEGIN", "nl">> = p \o q /\ p \in Seq(Symbols) /\ q \in Seq(Symbols)
      BY DEF Symbols
    <2>2. "BEGIN" \in Symbols /\ "nl" \in Symbols
      BY DEF Symbols
    <2>3. /\ q \o rest \in Seq(Symbols) /\ q \o rest # <<>>
          /\ Head(q \o rest) = "nl" /\ Tail(q \o rest) = rest
      BY <1>6, <2>2, FirstAndRest
    <2>4. /\ p \o (q \o rest) # <<>>
          /\ Head(p \o (q \o rest)) = "BEGIN" /\ Tail(p \o (q \o rest)) = q \o rest
      BY <2>2, <2>3, FirstAndRest
    <2> HIDE DEF p, q
    <2>5. text = p \o (q \o rest)
      <3>1. text = ((p \o q) \o b) \o foot
        BY <2>1
      <3>2. (p \o q) \o b = p \o (q \o b) /\ q \o b \in Seq(Symbols)
        BY <1>1, <2>1, ConcatAssociative, ConcatProperties
      <3>3. (p \o (q \o b)) \o foot = p \o ((q \o b) \o foot)
        BY <1>4, <2>1, <3>2, ConcatAssociative
      <3>4. (q \o b) \o foot = q \o (b \o foot)
        <4>1. q \in Seq(Symbols) /\ b \in Seq(Symbols) /\ foot \in Seq(Symbols)
          BY <1>1, <1>4, <2>1
        <4> HIDE DEF Symbols
        <4> QED
          BY <4>1, ConcatAssociative
      <3> QED
        BY <3>1, <3>2, <3>3, <3>4
    <2> HIDE DEF rest, text
    <2> QED
      BY <2>3, <2>4, <2>5 DEF armor_header, BlankSkipped, q
  <1> HIDE DEF rest, text
  <1>9. DOMAIN rest = 1..(m + 7)
    BY <1>6, LenProperties
  <1>10. /\ \A i \in 1..m : rest[i] \in BodySymbols
         /\ rest[m + 1] = "=" /\ rest[m + 2] = "c" /\ rest[m + 3] = "c" /\ rest[m + 4] = "c"
         /\ rest[m + 5] = "c" /\ rest[m + 6] = "nl" /\ rest[m + 7] = "END"
    BY <1>1, <1>5, <1>6, ElementOfSeq
  <1> HIDE DEF m
  <1>11. m + 1 \in FooterStarts(rest)
    <2>1. m + 1 \in DOMAIN rest /\ m + 6 \in (m + 2)..(m + 1 + ChecksumWindow) /\ m + 6 < Len(rest)
      BY <1>1, <1>6, <1>9 DEF ChecksumWindow
    <2>2. \A k \in (m + 2)..(m + 5) : rest[k] # "nl"
      <3>1. \A k \in (m + 2)..(m + 5) : k = m + 2 \/ k = m + 3 \/ k = m + 4 \/ k = m + 5
        BY <1>1
      <3> QED
        BY <1>10, <3>1
    <2>3. (m + 1) + 1 = m + 2 /\ (m + 6) + 1 = m + 7 /\ (m + 6) - 1 = m + 5
      BY <1>1
    <2> QED
      BY <1>10, <2>1, <2>2, <2>3, Zenon DEF FooterStarts
  <1>12. \A i \in FooterStarts(rest) : i \in Nat /\ m + 1 <= i
    <2> SUFFICES ASSUME NEW i \in FooterStarts(rest), ~(m + 1 <= i) PROVE FALSE
      BY <1>1, <1>9 DEF FooterStarts
    <2>1. i \in 1..m
      BY <1>1, <1>9 DEF FooterStarts
    <2>2. rest[i] # "END"
      BY <1>10, <2>1 DEF BodySymbols
    <2>3. rest[i] = "="
      BY <2>2 DEF FooterStarts
    <2>4. PICK j \in (i + 1)..(i + ChecksumWindow) :
             /\ j < Len(rest) /\ rest[j] = "nl" /\ rest[j + 1] = "END"
             /\ \A k \in (i + 1)..(j - 1) : rest[k] # "nl"
      BY <2>2 DEF FooterStarts
    <2>5. j = m + 6
      <3>1. j + 1 \in 1..(m + 7)
        BY <1>1, <1>6, <2>1, <2>4
      <3>2. j + 1 \notin 1..m
        BY <1>10, <2>4 DEF BodySymbols
      <3>3. \/ j + 1 = m + 1 \/ j + 1 = m + 2 \/ j + 1 = m + 3 \/ j + 1 = m + 4
            \/ j + 1 = m + 5 \/ j + 1 = m + 6 \/ j + 1 = m + 7
        BY <1>1, <3>1, <3>2
      <3>4. j + 1 = m + 7
        BY <1>10, <2>4, <3>3
      <3> QED
        BY <1>1, <2>1, <3>4
    <2>6. rest[m] = "nl"
      <3>1. b # <<>> /\ m \in 1..m
        BY <1>1, <2>1, EmptySeq DEF m
      <3> QED
        BY <1>2, <1>6, <3>1 DEF m
    <2>7. i # m
      BY <2>3, <2>6
    <2>8. m \in (i + 1)..(j - 1)
      BY <1>1, <2>1, <2>5, <2>7
    <2> QED
      BY <2>4, <2>6, <2>8
  <1>13. find_footer_start(rest) = {m + 1}
    <2>1. Min(FooterStarts(rest)) = m + 1
      <3> DEFINE t == FooterStarts(rest)
      <3> HIDE DEF t
      <3>1. \A x \in t : (\A y \in t : x <= y) => x = m + 1
        BY <1>1, <1>11, <1>12 DEF t
      <3>2. \A y \in t : m + 1 <= y
        BY <1>12 DEF t
      <3> QED
        BY <1>11, <3>1, <3>2 DEF Min, t
    <2> QED
      BY <1>11, <2>1 DEF find_footer_start
  <1>14. SubSeq(rest, 1, (m + 1) - 1) = b
    <2>1. \A i \in 1..m : rest[i] \in Symbols /\ rest[i] = b[i]
      BY <1>6, <1>10 DEF BodySymbols, Symbols
    <2>2. (m + 1) - 1 = m /\ m - 1 + 1 = m /\ (m = 0 \/ 1 <= m)
      BY <1>1
    <2> DEFINE u == SubSeq(rest, 1, m)
    <2>3. u \in Seq(Symbols) /\ Len(u) = m /\ \A i \in 1..m : u[i] = rest[i]
      <3>1. /\ u \in Seq(Symbols) /\ Len(u) = (IF 1 <= m THEN m - 1 + 1 ELSE 0)
            /\ \A i \in 1..(m - 1 + 1) : u[i] = rest[1 + i - 1]
        BY <1>1, <2>1, SubSeqProperties
      <3> HIDE DEF u
      <3>2. \A i \in 1..m : 1 + i - 1 = i
        BY <1>1
      <3> QED
        BY <1>1, <2>2, <3>1, <3>2
    <2> HIDE DEF u
    <2>4. u = b
      BY <1>1, <2>1, <2>3, SeqEqual DEF m
    <2> QED
      BY <2>2, <2>4 DEF u
  <1>15. Unbase64(Base64(n)) = {n}
    BY Base64Exact DEF Unbase64
  <1>16. decode(text) = Unbase64(Cleaned(SubSeq(rest, 1, (m + 1) - 1)))
    <2> DEFINE Read(body) ==
                  UNION {Unbase64(Cleaned(SubSeq(BlankSkipped(body), 1, at - 1))) :
                            at \in find_footer_start(BlankSkipped(body))}
    <2>1. decode(text) = UNION {Read(body) : body \in armor_header(text)}
      BY Zenon DEF decode
    <2> DEFINE body0 == <<"nl">> \o rest
    <2>2. armor_header(text) = {body0} /\ BlankSkipped(body0) = rest
      BY <1>7
    <2> HIDE DEF body0
    <2>3. Read(body0) = Unbase64(Cleaned(SubSeq(rest, 1, (m + 1) - 1)))
      BY <1>13, <2>2
    <2> HIDE DEF Read
    <2> QED
      BY <2>1, <2>2, <2>3
  <1> QED
    BY <1>2, <1>3, <1>14, <1>15, <1>16

-----------------------------------------------------------------------------
(* What a process has to write *)

\* The payload is one of bytes, and what is left to be written has a mnemonic and a
\* passphrase: a plan that writes the file draws the mnemonic or asks for it.
DataOk(r) ==
    /\ r.payload \in Seq(Bytes)
    /\ Has(r.plan, "write") => r.seed \in Seeds /\ r.pass \in Passes

DataInv ==
    /\ \A p \in Processes : DataOk(proc[p])
    /\ \A k \in file.has : \E seed \in Seeds, pass \in Passes : k = Keystore(seed, pass)

LEMMA Drawn ==
    ASSUME NEW plan \in GoodPlans, Has(plan, "write")
    PROVE  Has(plan, "generate") \/ Has(plan, "import")
  <1>1. CASE plan \in Payments
    <2>1. PICK s \in Seq(Selecting), g \in Seq(Signing) : plan = s \o g
      BY <1>1 DEF Payments, SelectingPlans, SigningPlans
    <2>2. s \in Seq(Steps) /\ g \in Seq(Steps)
      BY StepWords, SeqMonotonic
    <2>3. /\ plan \in Seq(Steps) /\ Len(plan) = Len(s) + Len(g)
          /\ \A i \in 1..Len(plan) :
                IF i <= Len(s) THEN plan[i] = s[i] ELSE plan[i] = g[i - Len(s)]
      BY <2>1, <2>2, ConcatProperties
    <2>4. \A i \in 1..Len(s) : s[i].do # "write"
      BY ElementsIn, StepWords
    <2>5. \A i \in 1..Len(g) : g[i].do # "write"
      BY ElementsIn, StepWords
    <2>6. Len(s) \in Nat /\ Len(g) \in Nat
      OBVIOUS
    <2>7. ASSUME NEW i \in 1..Len(plan)
          PROVE  plan[i].do # "write"
      <3>1. CASE i <= Len(s)
        BY <2>3, <2>4, <2>6, <3>1
      <3>2. CASE ~(i <= Len(s))
        <4>1. i - Len(s) \in 1..Len(g) /\ plan[i] = g[i - Len(s)]
          BY <2>3, <2>6, <3>2
        <4> QED
          BY <2>5, <4>1
      <3> QED
        BY <3>1, <3>2
    <2> QED
      BY <2>3, <2>7 DEF Has
  <1>2. CASE plan \in Readers
    <2>1. PICK a \in Seq(Plain) : plan = Do("readFile") \o a
      BY <1>2 DEF Readers, PlainPlans
    <2>2. Do("readFile") \in Seq(Steps) /\ a \in Seq(Steps)
      BY Single, StepWords, SeqMonotonic
    <2>3. Len(Do("readFile")) = 1 /\ Do("readFile")[1].do = "readFile"
      BY Single
    <2>4. /\ plan \in Seq(Steps) /\ Len(plan) = 1 + Len(a)
          /\ \A i \in 1..Len(plan) :
                IF i <= 1 THEN plan[i] = Do("readFile")[i] ELSE plan[i] = a[i - 1]
      BY <2>1, <2>2, <2>3, ConcatProperties
    <2>5. \A i \in 1..Len(a) : a[i].do # "write"
      BY ElementsIn, StepWords
    <2>6. Len(a) \in Nat
      OBVIOUS
    <2>7. ASSUME NEW i \in 1..Len(plan)
          PROVE  plan[i].do # "write"
      <3>1. CASE i = 1
        BY <2>3, <2>4, <3>1
      <3>2. CASE i # 1
        <4>1. i - 1 \in 1..Len(a) /\ plan[i] = a[i - 1]
          BY <2>4, <2>6, <3>2
        <4> QED
          BY <2>5, <4>1
      <3> QED
        BY <3>1, <3>2
    <2> QED
      BY <2>4, <2>7 DEF Has
  <1>3. CASE plan \in Creations
    <2>1. PICK a \in Seq(Plain) : /\ plan = a \o Create
                                  /\ Has(a, "generate") \/ Has(a, "import")
      BY <1>3 DEF Creations, Fresh, PlainPlans
    <2>2. a \in Seq(Steps) /\ Create \in Seq(Steps)
      BY StepWords, SeqMonotonic, CreateSteps
    <2>3. \A i \in DOMAIN a : i \in DOMAIN plan /\ plan[i] = a[i]
      <3>1. /\ a \o Create \in Seq(Steps) /\ Len(a \o Create) = Len(a) + Len(Create)
            /\ \A i \in 1..(Len(a) + Len(Create)) :
                  (a \o Create)[i] = IF i <= Len(a) THEN a[i] ELSE Create[i - Len(a)]
        BY <2>2, ConcatProperties
      <3>2. Len(a) \in Nat /\ Len(Create) \in Nat /\ DOMAIN a = 1..Len(a)
        BY <2>2, ElementsIn
      <3>3. plan \in Seq(Steps) /\ DOMAIN plan = 1..Len(plan) /\ Len(plan) = Len(a) + Len(Create)
        BY <2>1, <3>1
      <3> QED
        BY <2>1, <3>1, <3>2, <3>3
    <2> QED
      BY <2>1, <2>3 DEF Has
  <1> QED
    BY <1>1, <1>2, <1>3 DEF GoodPlans

\* The parts of a process that are the same while it runs.
Same(q, r) ==
    /\ DOMAIN q = DOMAIN Idle /\ q.plan = r.plan /\ q.seed = r.seed /\ q.pass = r.pass
    /\ q.payload = r.payload

LEMMA EmptyData ==
    /\ \A what : ~Has(<<>>, what)
    /\ \A r : r.plan = <<>> /\ r.payload = <<>> => DataOk(r)
  <1>1. <<>> \in Seq(Bytes) /\ DOMAIN <<>> = {}
    BY EmptySeq
  <1> QED
    BY <1>1 DEF DataOk, Has

\* A step replaces one process by one that has what it has to write.
DataStep(p) == \E q : proc' = [proc EXCEPT ![p] = q] /\ DataOk(q)

LEMMA DataBecomes ==
    ASSUME NEW p \in Processes, DataOk(proc[p]), Ordered(proc[p].plan)
    PROVE  \A r : Same(r, proc[p]) /\ Becomes(p, r) => DataStep(p)
  <1> SUFFICES ASSUME NEW r, Same(r, proc[p]), Becomes(p, r)
               PROVE  DataStep(p)
    OBVIOUS
  <1>1. proc' = [proc EXCEPT ![p] = After(r)]
    BY DEF Becomes, After
  <1>2. CASE Len(r.plan) > 1
    <2>1. /\ After(r).plan = Tail(r.plan) /\ After(r).seed = r.seed /\ After(r).pass = r.pass
          /\ After(r).payload = r.payload
      BY <1>2, IdleFields DEF After, Same
    <2>2. Has(After(r).plan, "write") => Has(r.plan, "write")
      BY <1>2, <2>1, TailOrdered DEF Same
    <2>3. DataOk(After(r))
      BY <2>1, <2>2 DEF DataOk, Same
    <2> QED
      BY <1>1, <2>3 DEF DataStep
  <1>3. CASE ~(Len(r.plan) > 1)
    <2>1. After(r) =
            [Idle EXCEPT !.exit = "ok", !.coin = r.coin, !.keys = r.keys, !.named = r.named]
      BY <1>3 DEF After
    <2>2. After(r).plan = <<>> /\ After(r).payload = <<>>
      BY <2>1 DEF Idle
    <2> QED
      BY <1>1, <2>2, EmptyData DEF DataStep
  <1> QED
    BY <1>2, <1>3

LEMMA DataEnds ==
    ASSUME NEW p \in Processes, NEW how, Ends(p, how)
    PROVE  DataStep(p)
  <1>1. [Idle EXCEPT !.exit = how].plan = <<>> /\ [Idle EXCEPT !.exit = how].payload = <<>>
    BY DEF Idle
  <1> QED
    BY <1>1, EmptyData DEF Ends, DataStep

LEMMA SameUpdates ==
    ASSUME NEW r, DOMAIN r = DOMAIN Idle, NEW v, NEW w
    PROVE  /\ Same(r, r)
           /\ Same([r EXCEPT !.mistaken = v], r) /\ Same([r EXCEPT !.unlocked = v], r)
           /\ Same([r EXCEPT !.noAddress = v], r) /\ Same([r EXCEPT !.tries = v], r)
           /\ Same([r EXCEPT !.wallet = v], r) /\ Same([r EXCEPT !.keys = v], r)
           /\ Same([r EXCEPT !.coin = v, !.named = w], r)
  BY IdleFields DEF Same

LEMMA DataSteps ==
    ASSUME CliInv, NEW p \in Processes, DataOk(proc[p]), Step(p)
    PROVE  DataStep(p)
  <1> DEFINE r == proc[p]
  <1>1. PICK what : At(p, what)
    BY DEF Step, AskStep, TryStep, ParseStep, ConfirmStep, NeedKeystoreStep, UnlockStep,
           ResolveStep, AbsentStep, DecodeStep, SyncStep, GenerateStep, ImportStep,
           TruncateStep, WriteStep, ReportStep, ReadFileStep, ShowStep, SelectStep, FetchStep,
           SignStep, SendStep
  <1>2. DOMAIN r = DOMAIN Idle /\ Ordered(r.plan) /\ p \in DOMAIN proc
    BY <1>1, Acting DEF Ready, CliInv, ProcInv
  <1> HIDE DEF r
  <1>3. ASSUME NEW q, Same(q, r), Becomes(p, q)
        PROVE  DataStep(p)
    BY <1>2, <1>3, DataBecomes DEF r
  <1>4. Proceeds(p) => DataStep(p)
    <2>1. Same(r, r)
      BY <1>2, SameUpdates
    <2> QED
      BY <1>3, <2>1 DEF Proceeds, r
  <1>5. \A how : Ends(p, how) => DataStep(p)
    BY DataEnds
  <1>6. ASSUME NEW v,
               \/ Becomes(p, [r EXCEPT !.mistaken = v]) \/ Becomes(p, [r EXCEPT !.unlocked = v])
               \/ Becomes(p, [r EXCEPT !.noAddress = v]) \/ Becomes(p, [r EXCEPT !.wallet = v])
               \/ Becomes(p, [r EXCEPT !.keys = v])
        PROVE  DataStep(p)
    <2>1. /\ Same([r EXCEPT !.mistaken = v], r) /\ Same([r EXCEPT !.unlocked = v], r)
          /\ Same([r EXCEPT !.noAddress = v], r) /\ Same([r EXCEPT !.wallet = v], r)
          /\ Same([r EXCEPT !.keys = v], r)
      BY <1>2, SameUpdates
    <2> QED
      BY <1>3, <1>6, <2>1
  <1>7. ASSUME NEW q, proc' = [proc EXCEPT ![p] = q], q.plan = <<>>, q.payload = <<>>
        PROVE  DataStep(p)
    BY <1>7, EmptyData DEF DataStep
  <1>8. CASE AskStep(p)
    <2>1. Ends(p, "failed") \/ \E v : Becomes(p, [r EXCEPT !.mistaken = v])
      BY <1>8 DEF AskStep, r
    <2> QED
      BY <1>5, <1>6, <2>1
  <1>9. CASE TryStep(p) \/ ParseStep(p) \/ ConfirmStep(p) \/ NeedKeystoreStep(p)
             \/ FetchStep(p) \/ ShowStep(p) \/ DecodeStep(p)
    <2>1. Proceeds(p) \/ Ends(p, "failed") \/ Ends(p, "ok")
      BY <1>9 DEF TryStep, ParseStep, ConfirmStep, NeedKeystoreStep, FetchStep, ShowStep, DecodeStep
    <2> QED
      BY <1>4, <1>5, <2>1
  <1>10. CASE GenerateStep(p) \/ ImportStep(p) \/ TruncateStep(p) \/ WriteStep(p) \/ ReportStep(p)
    BY <1>4, <1>10 DEF GenerateStep, ImportStep, TruncateStep, WriteStep, ReportStep
  <1>11. CASE UnlockStep(p)
    <2>1. Ends(p, "failed") \/ Becomes(p, [r EXCEPT !.unlocked = TRUE])
      BY <1>11 DEF UnlockStep, r
    <2> QED
      BY <1>5, <1>6, <2>1
  <1>12. CASE ResolveStep(p)
    <2>1. CASE Ends(p, "failed")
      BY <1>5, <2>1
    <2>2. CASE \E address : Becomes(p, [r EXCEPT !.noAddress = r.noAddress \/ ~address])
      <3>1. PICK address : Becomes(p, [r EXCEPT !.noAddress = r.noAddress \/ ~address])
        BY <2>2
      <3>2. PICK v : v = (r.noAddress \/ ~address)
        OBVIOUS
      <3> QED
        BY <1>6, <3>1, <3>2
    <2> QED
      BY <1>12, <2>1, <2>2 DEF ResolveStep, r
  <1>13. CASE AbsentStep(p)
    BY <1>5, <1>13 DEF AbsentStep
  <1>14. CASE SyncStep(p)
    <2>1. CASE proc' = [proc EXCEPT ![p].tries = @ + 1]
      <3> DEFINE q == [r EXCEPT !.tries = r.tries + 1]
      <3>1. Same(q, r)
        BY <1>2, SameUpdates
      <3>2. proc' = [proc EXCEPT ![p] = q]
        BY <1>2, <2>1 DEF r
      <3> HIDE DEF q
      <3>3. DataOk(q)
        BY <3>1 DEF DataOk, Same, r
      <3> QED
        BY <3>2, <3>3 DEF DataStep
    <2> QED
      BY <1>4, <1>5, <1>14, <2>1 DEF SyncStep
  <1>15. CASE ReadFileStep(p)
    <2>1. Ends(p, "failed") \/ Ends(p, "ok") \/ Becomes(p, [r EXCEPT !.wallet = file.has])
      BY <1>15 DEF ReadFileStep, r
    <2> QED
      BY <1>5, <1>6, <2>1
  <1>16. CASE SelectStep(p)
    <2>1. CASE Ends(p, "failed") \/ Becomes(p, [r EXCEPT !.mistaken = FALSE])
      BY <1>5, <1>6, <2>1
    <2>2. CASE \E v, w : Becomes(p, [r EXCEPT !.coin = v, !.named = w])
      <3>1. PICK v, w : Becomes(p, [r EXCEPT !.coin = v, !.named = w])
        BY <2>2
      <3>2. Same([r EXCEPT !.coin = v, !.named = w], r)
        BY <1>2, SameUpdates
      <3> QED
        BY <1>3, <3>1, <3>2
    <2> QED
      BY <1>16, <2>1, <2>2 DEF SelectStep, r
  <1>17. CASE SignStep(p)
    <2> DEFINE q == [Idle EXCEPT !.exit = "unsigned", !.named = r.named]
    <2>1. q.plan = <<>> /\ q.payload = <<>>
      BY DEF Idle
    <2>2. \/ Ends(p, "failed") \/ proc' = [proc EXCEPT ![p] = q]
          \/ \E v : Becomes(p, [r EXCEPT !.keys = v])
      BY <1>17 DEF SignStep, r
    <2> HIDE DEF q
    <2> QED
      BY <1>5, <1>6, <1>7, <2>1, <2>2
  <1>18. CASE SendStep(p)
    <2>1. PICK accepted \in BOOLEAN, reply \in Replies :
             proc' = [proc EXCEPT ![p] =
                         [Idle EXCEPT !.exit = IF Reading(Of(p), proc[p].rest, reply) = "failed"
                                               THEN "failed" ELSE "sent",
                                      !.rest = proc[p].rest /\ Of(p)[1] = "esplora",
                                      !.reply = reply, !.accepted = accepted]]
      BY <1>18 DEF SendStep
    <2> DEFINE q == [Idle EXCEPT !.exit = IF Reading(Of(p), proc[p].rest, reply) = "failed"
                                          THEN "failed" ELSE "sent",
                                 !.rest = proc[p].rest /\ Of(p)[1] = "esplora",
                                 !.reply = reply, !.accepted = accepted]
    <2>2. q.plan = <<>> /\ q.payload = <<>>
      BY DEF Idle
    <2>3. proc' = [proc EXCEPT ![p] = q]
      BY <2>1
    <2> HIDE DEF q
    <2>4. DataOk(q)
      BY <2>2, EmptyData
    <2> QED
      BY <2>3, <2>4 DEF DataStep
  <1> QED
    BY <1>8, <1>9, <1>10, <1>11, <1>12, <1>13, <1>14, <1>15, <1>16, <1>17, <1>18 DEF Step

LEMMA DataKept ==
    ASSUME DataInv, NEW p \in Processes, DOMAIN proc = Processes, DataStep(p),
           \A k \in file'.has : k \in file.has \/ \E seed \in Seeds, pass \in Passes :
                                                      k = Keystore(seed, pass)
    PROVE  DataInv'
  <1>1. PICK q : proc' = [proc EXCEPT ![p] = q] /\ DataOk(q)
    BY DEF DataStep
  <1>2. \A x \in Processes : proc'[x] = IF x = p THEN q ELSE proc[x]
    BY <1>1
  <1>3. \A x \in Processes : DataOk(proc[x])
    BY DEF DataInv
  <1>4. \A x \in Processes : DataOk(proc'[x])
    BY <1>1, <1>2, <1>3
  <1>5. \A k \in file'.has : \E seed \in Seeds, pass \in Passes : k = Keystore(seed, pass)
    BY DEF DataInv
  <1> QED
    BY <1>4, <1>5 DEF DataInv

LEMMA DataStarts ==
    ASSUME CliInv, DataInv, NEW p \in Processes, Start(p)
    PROVE  DataInv'
  <1> DEFINE Begun(plan, seed, pass, rest, payload) ==
                [Idle EXCEPT !.plan = plan, !.exit = IF plan = <<>> THEN "ok" ELSE "running",
                             !.wallet = IF NeedsWallet(plan) THEN file.has ELSE {},
                             !.seed = seed, !.pass = pass, !.rest = rest,
                             !.payload = payload]
  <1>1. PICK run \in Sessions[session].may[p] : \E plan \in Plans(run[1], run[2]) :
            \E seed \in (IF Has(plan, "generate") THEN Seeds \ (drawn \cup known)
                         ELSE IF Has(plan, "import") THEN Seeds ELSE {"none"}) :
            \E pass \in (IF seed = "none" THEN {"none"} ELSE Passes) :
            \E rest \in (IF Asks(plan, "esplora") THEN BOOLEAN ELSE {FALSE}) :
            \E n \in (IF Has(plan, "decode") THEN 0..Sessions[session].bytes ELSE {0}) :
            \E payload \in [1..n -> Bytes] :
                proc' = [proc EXCEPT ![p] = Begun(plan, seed, pass, rest, payload)]
    BY DEF Start
  <1> HIDE DEF Begun
  <1>2. PICK plan \in Plans(run[1], run[2]) :
            \E seed \in (IF Has(plan, "generate") THEN Seeds \ (drawn \cup known)
                         ELSE IF Has(plan, "import") THEN Seeds ELSE {"none"}) :
            \E pass \in (IF seed = "none" THEN {"none"} ELSE Passes) :
            \E rest \in (IF Asks(plan, "esplora") THEN BOOLEAN ELSE {FALSE}) :
            \E n \in (IF Has(plan, "decode") THEN 0..Sessions[session].bytes ELSE {0}) :
            \E payload \in [1..n -> Bytes] :
                proc' = [proc EXCEPT ![p] = Begun(plan, seed, pass, rest, payload)]
    BY <1>1, Zenon
  <1>3. \E seed \in (IF Has(plan, "generate") THEN Seeds \ (drawn \cup known)
                     ELSE IF Has(plan, "import") THEN Seeds ELSE {"none"}) :
        \E pass \in (IF seed = "none" THEN {"none"} ELSE Passes) : \E rest :
        \E n \in (IF Has(plan, "decode") THEN 0..Sessions[session].bytes ELSE {0}) :
        \E payload \in [1..n -> Bytes] :
            proc' = [proc EXCEPT ![p] = Begun(plan, seed, pass, rest, payload)]
    BY <1>2, Zenon
  <1>4. PICK seed \in (IF Has(plan, "generate") THEN Seeds \ (drawn \cup known)
                       ELSE IF Has(plan, "import") THEN Seeds ELSE {"none"}) :
        \E pass \in (IF seed = "none" THEN {"none"} ELSE Passes) : \E rest :
        \E n \in (IF Has(plan, "decode") THEN 0..Sessions[session].bytes ELSE {0}) :
        \E payload \in [1..n -> Bytes] :
            proc' = [proc EXCEPT ![p] = Begun(plan, seed, pass, rest, payload)]
    BY <1>3, Zenon
  <1>5. PICK pass \in (IF seed = "none" THEN {"none"} ELSE Passes) : \E rest :
        \E n \in (IF Has(plan, "decode") THEN 0..Sessions[session].bytes ELSE {0}) :
        \E payload \in [1..n -> Bytes] :
            proc' = [proc EXCEPT ![p] = Begun(plan, seed, pass, rest, payload)]
    BY <1>4, Zenon
  <1>6. PICK rest : \E n \in (IF Has(plan, "decode") THEN 0..Sessions[session].bytes ELSE {0}) :
        \E payload \in [1..n -> Bytes] :
            proc' = [proc EXCEPT ![p] = Begun(plan, seed, pass, rest, payload)]
    BY <1>5, Zenon
  <1>7. PICK n \in (IF Has(plan, "decode") THEN 0..Sessions[session].bytes ELSE {0}) :
        \E payload \in [1..n -> Bytes] :
            proc' = [proc EXCEPT ![p] = Begun(plan, seed, pass, rest, payload)]
    BY <1>6, Zenon
  <1>8. PICK payload \in [1..n -> Bytes] :
            proc' = [proc EXCEPT ![p] = Begun(plan, seed, pass, rest, payload)]
    BY <1>7, Zenon
  <1> DEFINE q == Begun(plan, seed, pass, rest, payload)
  <1>9. q.plan = plan /\ q.seed = seed /\ q.pass = pass /\ q.payload = payload
    BY IdleFields DEF Begun
  <1>10. HasPlans(run[1], run[2]) /\ Sessions[session].bytes \in Nat
    BY SessionAssumption DEF CliInv
  <1>11. plan \in GoodPlans
    BY <1>10, PlansGood
  <1>12. n \in Nat /\ payload \in Seq(Bytes)
    BY <1>10, SeqDef
  <1>13. Has(plan, "write") => seed \in Seeds /\ pass \in Passes
    <2>1. ASSUME Has(plan, "write")
          PROVE  seed \in Seeds
      BY <1>11, <2>1, Drawn
    <2>2. \A s \in Seeds : s # "none"
      BY CliAssumption
    <2> QED
      BY <2>1, <2>2
  <1> HIDE DEF q
  <1>14. DataOk(q)
    BY <1>9, <1>12, <1>13 DEF DataOk
  <1>15. DataStep(p)
    BY <1>8, <1>14 DEF DataStep, q
  <1>16. file' = file /\ DOMAIN proc = Processes
    BY DEF Start, CliInv, ProcInv
  <1> QED
    BY <1>15, <1>16, DataKept

LEMMA NextData == CliInv /\ DataInv /\ [Next]_vars => DataInv'
  <1> SUFFICES ASSUME CliInv, DataInv, [Next]_vars
               PROVE  DataInv'
    OBVIOUS
  <1>1. DOMAIN proc = Processes
    BY DEF CliInv, ProcInv
  <1>2. CASE UNCHANGED vars
    BY <1>2 DEF vars, DataInv
  <1>3. ASSUME NEW p \in Processes, Start(p)
        PROVE  DataInv'
    BY <1>3, DataStarts
  <1>4. ASSUME NEW p \in Processes, Leave(p)
        PROVE  DataInv'
    <2>1. DataOk(Idle)
      BY EmptyData, IdleFields DEF Idle
    <2>2. DataStep(p) /\ file' = file
      BY <1>4, <2>1 DEF Leave, DataStep
    <2> QED
      BY <1>1, <2>2, DataKept
  <1>5. ASSUME NEW p \in Processes, Kill(p) \/ Hang(p)
        PROVE  DataInv'
    <2>1. PICK how \in {"killed", "hung"} : Ends(p, how)
      BY <1>5 DEF Kill, Hang
    <2>2. file' = file
      BY <1>5 DEF Kill, Hang, CutOff
    <2> QED
      BY <1>1, <2>1, <2>2, DataEnds, DataKept
  <1>6. ASSUME NEW p \in Processes, Step(p)
        PROVE  DataInv'
    <2>1. DataOk(proc[p])
      BY DEF DataInv
    <2>2. DataStep(p)
      BY <1>6, <2>1, DataSteps
    <2>3. CASE WriteStep(p)
      <3>1. proc[p].seed \in Seeds /\ proc[p].pass \in Passes
        BY <2>1, <2>3, Acting DEF WriteStep, DataOk
      <3>2. file' = Saved(Keystore(proc[p].seed, proc[p].pass)) \/ file' = Unreadable
        BY <2>3 DEF WriteStep
      <3>3. \A k \in file'.has : k = Keystore(proc[p].seed, proc[p].pass)
        BY <3>2 DEF Saved, Unreadable
      <3>4. \A k \in file'.has : \E seed \in Seeds, pass \in Passes : k = Keystore(seed, pass)
        BY <3>1, <3>3
      <3> QED
        BY <1>1, <2>2, <3>4, DataKept
    <2>4. CASE file'.has \subseteq file.has
      BY <1>1, <2>2, <2>4, DataKept
    <2>5. WriteStep(p) \/ file'.has \subseteq file.has
      <3>1. CASE \/ AskStep(p) \/ TryStep(p) \/ ParseStep(p) \/ ConfirmStep(p)
                 \/ NeedKeystoreStep(p) \/ UnlockStep(p) \/ ResolveStep(p) \/ AbsentStep(p)
                 \/ DecodeStep(p) \/ FetchStep(p) \/ SyncStep(p) \/ ReadFileStep(p)
                 \/ SelectStep(p) \/ SignStep(p) \/ SendStep(p)
        <4>1. Alone
          BY <3>1, Zenon DEF AskStep, TryStep, ParseStep, ConfirmStep, NeedKeystoreStep,
                 UnlockStep, ResolveStep, AbsentStep, DecodeStep, FetchStep, SyncStep,
                 ReadFileStep, SelectStep, SignStep, SendStep
        <4> QED
          BY <4>1 DEF Alone
      <3>2. CASE GenerateStep(p) \/ ImportStep(p) \/ ReportStep(p) \/ ShowStep(p)
        BY <3>2 DEF GenerateStep, ImportStep, ReportStep, ShowStep
      <3>3. CASE TruncateStep(p)
        BY <3>3 DEF TruncateStep, Unreadable
      <3> QED
        BY <1>6, <3>1, <3>2, <3>3 DEF Step
    <2> QED
      BY <2>3, <2>4, <2>5
  <1> QED
    BY <1>2, <1>3, <1>4, <1>5, <1>6 DEF Next

LEMMA InitData == Init => DataInv
  <1>1. DataOk(Idle)
    BY EmptyData, IdleFields DEF Idle
  <1> QED
    BY <1>1 DEF Init, DataInv, NoFile

LEMMA DataAlways == Spec => [](CliInv /\ DataInv)
  BY InitCli, InitData, NextCli, NextData, PTL DEF Spec

-----------------------------------------------------------------------------
(* Remainders and powers *)

LEMMA Remainder ==
    ASSUME NEW a \in Nat, NEW q \in Nat, NEW M \in Nat \ {0}, NEW r \in 0..(M - 1), a = M * q + r
    PROVE  a % M = r
  <1> DEFINE d == a \div M
             e == a % M
  <1>1. d \in Nat /\ e \in 0..(M - 1) /\ a = M * d + e
    OBVIOUS
  <1> HIDE DEF d, e
  <1>2. \A x \in Nat : x >= 1 => M * x >= M
    <2> TAKE x \in Nat
    <2> HAVE x >= 1
    <2>1. x - 1 \in Nat /\ M * (x - 1) \in Nat /\ M * x = M * (x - 1) + M
      OBVIOUS
    <2> QED
      BY <2>1
  <1>3. CASE d = q
    BY <1>1, <1>3 DEF e
  <1>4. CASE d > q
    <2>1. d - q \in Nat /\ d - q >= 1 /\ M * (d - q) = M * d - M * q
      BY <1>1, <1>4
    <2>2. M * (d - q) >= M
      BY <1>2, <2>1
    <2>3. M * d \in Nat /\ M * q \in Nat
      BY <1>1
    <2> QED
      BY <1>1, <2>1, <2>2, <2>3
  <1>5. CASE q > d
    <2>1. q - d \in Nat /\ q - d >= 1 /\ M * (q - d) = M * q - M * d
      BY <1>1, <1>5
    <2>2. M * (q - d) >= M
      BY <1>2, <2>1
    <2>3. M * d \in Nat /\ M * q \in Nat
      BY <1>1
    <2> QED
      BY <1>1, <2>1, <2>2, <2>3
  <1> QED
    BY <1>1, <1>3, <1>4, <1>5

LEMMA RemainderAdds ==
    ASSUME NEW a \in Nat, NEW b \in Nat, NEW M \in Nat \ {0}
    PROVE  a % M \in Nat /\ ((a % M) + b) % M = (a + b) % M
  <1> DEFINE x == a % M
             c == x + b
             d == a \div M
             e == c \div M
             r == c % M
  <1>1. d \in Nat /\ x \in 0..(M - 1) /\ a = M * d + x
    <2>1. d \in Int /\ x \in 0..(M - 1) /\ a = M * d + x
      OBVIOUS
    <2> HIDE DEF d, x
    <2>2. ASSUME d < 0
          PROVE  FALSE
      <3> DEFINE k == (-d) - 1
      <3>1. k \in Nat /\ d = -(k + 1)
        BY <2>1, <2>2
      <3> HIDE DEF k
      <3>2. M * k \in Nat /\ M * d = -(M * k + M)
        BY <3>1
      <3> QED
        BY <2>1, <3>2
    <2> QED
      BY <2>1, <2>2
  <1> HIDE DEF d, x
  <1>2. c \in Nat /\ x \in Nat
    BY <1>1
  <1> HIDE DEF c
  <1>3. e \in Nat /\ r \in 0..(M - 1) /\ c = M * e + r
    BY <1>2
  <1> HIDE DEF e, r
  <1>4. a + b = M * d + c
    <2>1. M * d \in Nat
      BY <1>1
    <2> QED
      BY <1>1, <1>2, <2>1 DEF c
  <1>5. a + b \in Nat /\ d + e \in Nat /\ a + b = M * (d + e) + r
    <2>1. M * d \in Nat /\ M * e \in Nat /\ M * (d + e) = M * d + M * e
      BY <1>1, <1>3
    <2> QED
      BY <1>1, <1>3, <1>4, <2>1
  <1>6. (a + b) % M = r
    BY <1>3, <1>5, Remainder
  <1> QED
    BY <1>2, <1>6 DEF c, r, x

Doubles(g) == g = [k \in Nat |-> IF k = 0 THEN 1 ELSE 2 * g[k - 1]]

LEMMA Powers == \A k \in Nat : Pow2[k] \in Nat \ {0}
  <1>1. Pow2 = CHOOSE g : Doubles(g)
    BY DEF Pow2, Doubles
  <1> DEFINE f == [p \in Nat \X Nat |-> 2 * p[2]]
  <1>2. f \in [Nat \X Nat -> Nat] /\ \A i, x \in Nat : f[<<i, x>>] = 2 * x
    OBVIOUS
  <1> HIDE DEF f
  <1>3. PICK g \in [Nat -> Nat] : Loops(f, 1, g)
    BY <1>2, LoopExists
  <1>4. g[0] = 1 /\ \A i \in Nat : g[i + 1] = 2 * g[i]
    BY <1>2, <1>3 DEF Loops
  <1>5. \A k \in Nat : g[k] = IF k = 0 THEN 1 ELSE 2 * g[k - 1]
    <2> TAKE k \in Nat
    <2>1. CASE k = 0
      BY <1>4, <2>1
    <2>2. CASE k # 0
      <3>1. k - 1 \in Nat /\ (k - 1) + 1 = k
        BY <2>2
      <3>2. g[(k - 1) + 1] = 2 * g[k - 1]
        BY <1>4, <3>1
      <3> QED
        BY <2>2, <3>1, <3>2
    <2> QED
      BY <2>1, <2>2
  <1>6. Doubles(g)
    <2>1. g = [k \in Nat |-> g[k]]
      OBVIOUS
    <2> QED
      BY <1>5, <2>1 DEF Doubles
  <1>7. Doubles(Pow2)
    BY <1>1, <1>6
  <1>8. \A k \in Nat : Pow2[k] = IF k = 0 THEN 1 ELSE 2 * Pow2[k - 1]
    <2> DEFINE P == Pow2
    <2>1. Doubles(P)
      BY <1>7
    <2> HIDE DEF P
    <2>2. \A k \in Nat : P[k] = IF k = 0 THEN 1 ELSE 2 * P[k - 1]
      BY <2>1 DEF Doubles
    <2> QED
      BY <2>2 DEF P
  <1> DEFINE good == {k \in Nat : Pow2[k] \in Nat \ {0}}
  <1>9. 0 \in good
    BY <1>8
  <1>10. \A k \in Nat : k \in good => k + 1 \in good
    <2> TAKE k \in Nat
    <2> HAVE k \in good
    <2>1. Pow2[k] \in Nat \ {0} /\ Pow2[k + 1] = 2 * Pow2[k]
      BY <1>8
    <2> QED
      BY <2>1
  <1>11. \A k \in good : Pow2[k] \in Nat \ {0}
    OBVIOUS
  <1> HIDE DEF good
  <1>12. \A n \in Nat : n \in good
    <2> TAKE n \in Nat
    <2>1. 0..n \subseteq good
      BY <1>9, <1>10, EveryTurn
    <2> QED
      BY <2>1
  <1> QED
    BY <1>11, <1>12

-----------------------------------------------------------------------------
(* Varints *)

Unread == [value |-> 0, shift |-> 0, length |-> 0, state |-> "more"]
Varints == [value : Nat, shift : Nat, length : Nat, state : {"more", "done", "too large"}]
VarintFold(bytes, g) ==
    g = [t \in SUBSET (DOMAIN bytes) |->
            IF t = {} THEN Unread ELSE VarintTurn(g[t \ {Max(t)}], bytes[Max(t)])]

LEMMA VarintFolds ==
    ASSUME NEW bytes
    PROVE  decode_varint(bytes) = (CHOOSE g : VarintFold(bytes, g))[DOMAIN bytes]
  BY DEF decode_varint, FoldLeft, MapThenFoldSet, VarintFold, Unread

LEMMA VarintTyped ==
    /\ Unread \in Varints
    /\ \A v \in Varints, byte \in Bytes : VarintTurn(v, byte) \in Varints
  <1>1. Group \in Nat /\ Width \in Nat
    BY RunestoneAssumption
  <1>2. ASSUME NEW v \in Varints, NEW byte \in Bytes
        PROVE  VarintTurn(v, byte) \in Varints
    <2>1. /\ v.value \in Nat /\ v.shift \in Nat /\ v.length \in Nat
          /\ byte.bits \in Nat /\ byte.more \in BOOLEAN
      <3>1. Pow2[Group] \in Nat
        BY <1>1, Powers
      <3>2. byte.bits \in 0..(Pow2[Group] - 1) /\ byte.more \in BOOLEAN
        BY DEF Bytes
      <3>3. byte.bits \in Nat
        BY <3>1, <3>2
      <3> QED
        BY <3>2, <3>3 DEF Varints
    <2>2. (v.value + byte.bits * Pow2[v.shift]) % Pow2[Width] \in Nat
      <3>1. Pow2[v.shift] \in Nat /\ Pow2[Width] \in Nat \ {0}
        BY <1>1, <2>1, Powers
      <3>2. byte.bits * Pow2[v.shift] \in Nat
        BY <2>1, <3>1
      <3>3. v.value + byte.bits * Pow2[v.shift] \in Nat
        BY <2>1, <3>2
      <3> QED
        BY <3>1, <3>3
    <2>3. v.shift + Group \in Nat /\ v.length + 1 \in Nat
      BY <1>1, <2>1
    <2> QED
      BY <2>2, <2>3 DEF VarintTurn, Varints
  <1> QED
    BY <1>2 DEF Unread, Varints

\* decode_varint, one byte at a time.
LEMMA VarintTurns ==
    ASSUME NEW bytes \in Seq(Bytes)
    PROVE  \E h \in [0..Len(bytes) -> Varints] :
               /\ h[0] = Unread
               /\ \A i \in 0..(Len(bytes) - 1) : h[i + 1] = VarintTurn(h[i], bytes[i + 1])
               /\ decode_varint(bytes) = h[Len(bytes)]
  <1> DEFINE L == Len(bytes)
             D == SUBSET (DOMAIN bytes)
             F == [p \in Varints \X Bytes |-> VarintTurn(p[1], p[2])]
  <1>1. L \in Nat /\ DOMAIN bytes = 1..L /\ \A i \in 1..L : bytes[i] \in Bytes
    BY LenProperties, ElementOfSeq
  <1>2. /\ F \in [Varints \X Bytes -> Varints]
        /\ \A v \in Varints, byte \in Bytes : F[<<v, byte>>] = VarintTurn(v, byte)
    BY VarintTyped
  <1> HIDE DEF F
  <1>3. PICK g \in [D -> Varints] : Folds(F, Unread, bytes, g)
    BY <1>2, VarintTyped, FoldExists
  <1>4. VarintFold(bytes, g)
    <2>1. \A t \in D : t # {} => /\ t \ {Max(t)} \in D
                                 /\ bytes[Max(t)] \in Bytes
      <3> TAKE t \in D
      <3> HAVE t # {}
      <3>1. Max(t) \in t
        BY <1>1, MaxIn
      <3> QED
        BY <1>1, <3>1
    <2>2. \A t \in D : g[t] \in Varints
      OBVIOUS
    <2>3. \A t \in D : t # {} =>
             F[<<g[t \ {Max(t)}], bytes[Max(t)]>>] = VarintTurn(g[t \ {Max(t)}], bytes[Max(t)])
      BY <1>2, <2>1, <2>2
    <2>4. [t \in D |-> IF t = {} THEN Unread ELSE F[<<g[t \ {Max(t)}], bytes[Max(t)]>>]]
          = [t \in D |-> IF t = {} THEN Unread ELSE VarintTurn(g[t \ {Max(t)}], bytes[Max(t)])]
      BY <2>3
    <2> QED
      BY <1>3, <2>4, Zenon DEF Folds, VarintFold
  <1> DEFINE d == CHOOSE d : VarintFold(bytes, d)
  <1>5. VarintFold(bytes, d) /\ decode_varint(bytes) = d[DOMAIN bytes]
    BY <1>4, VarintFolds
  <1> HIDE DEF d
  <1>6. \A t \in D : d[t] = IF t = {} THEN Unread ELSE VarintTurn(d[t \ {Max(t)}], bytes[Max(t)])
    BY <1>5 DEF VarintFold
  <1> DEFINE h == [i \in 0..L |-> d[1..i]]
  <1>7. h[0] = Unread
    <2>1. 1..0 = {} /\ 1..0 \in D /\ 0 \in 0..L
      BY <1>1
    <2> QED
      BY <1>6, <2>1
  <1>8. \A i \in 0..(L - 1) : h[i + 1] = VarintTurn(h[i], bytes[i + 1])
    <2> TAKE i \in 0..(L - 1)
    <2> DEFINE t == 1..(i + 1)
    <2>1. i \in 0..L /\ i + 1 \in 0..L /\ t \in D /\ i + 1 \in t
      BY <1>1
    <2>2. Max(t) = i + 1
      <3>1. Max(t) \in t /\ i + 1 <= Max(t)
        BY <1>1, <2>1, MaxIn
      <3> QED
        BY <2>1, <3>1
    <2>3. t \ {i + 1} = 1..i
      BY <2>1
    <2>4. d[t] = VarintTurn(d[1..i], bytes[i + 1])
      <3> HIDE DEF t
      <3> QED
        BY <1>6, <2>1, <2>2, <2>3
    <2> QED
      BY <2>1, <2>4
  <1>9. h[L] = decode_varint(bytes)
    BY <1>1, <1>5
  <1> HIDE DEF h
  <1>10. \A i \in 0..L : h[i] \in Varints
    <2> DEFINE good == {i \in 0..L : h[i] \in Varints}
    <2>1. 0 \in good
      BY <1>1, <1>7, VarintTyped
    <2>2. \A i \in 0..(L - 1) : i \in good => i + 1 \in good
      <3> TAKE i \in 0..(L - 1)
      <3> HAVE i \in good
      <3>1. i + 1 \in 0..L /\ i + 1 \in 1..L /\ h[i] \in Varints
        BY <1>1
      <3>2. h[i + 1] \in Varints
        BY <1>1, <1>8, <3>1, VarintTyped
      <3> QED
        BY <3>1, <3>2
    <2>3. \A i \in good : h[i] \in Varints
      OBVIOUS
    <2> HIDE DEF good
    <2>4. 0..L \subseteq good
      BY <1>1, <2>1, <2>2, EveryTurn
    <2> QED
      BY <2>3, <2>4
  <1>11. h \in [0..L -> Varints]
    BY <1>10 DEF h
  <1> QED
    BY <1>7, <1>8, <1>9, <1>11

LebTurns(payload, n, h) ==
    h = [k \in 0..n |->
            IF k = 0 THEN 0 ELSE h[k - 1] + payload[k].bits * Pow2[Group * (k - 1)]]

LEMMA LebIsRecursion ==
    ASSUME NEW payload, NEW n
    PROVE  Leb128(payload, n) = (CHOOSE h : LebTurns(payload, n, h))[n]
  BY DEF Leb128, LebTurns

\* The value of one more byte
LEMMA LebGrows ==
    ASSUME NEW payload \in Seq(Bytes)
    PROVE  /\ Leb128(payload, 0) = 0
           /\ \A n \in 0..(Len(payload) - 1) :
                 /\ Leb128(payload, n) \in Nat
                 /\ payload[n + 1].bits * Pow2[Group * n] \in Nat
                 /\ Leb128(payload, n + 1) =
                       Leb128(payload, n) + payload[n + 1].bits * Pow2[Group * n]
  <1> DEFINE L == Len(payload)
             term(k) == payload[k].bits * Pow2[Group * (k - 1)]
             more(k) == IF k + 1 \in 1..L THEN term(k + 1) ELSE 0
             f == [p \in Nat \X Nat |-> p[2] + more(p[1])]
  <1>1. L \in Nat /\ DOMAIN payload = 1..L /\ \A i \in 1..L : payload[i] \in Bytes
    BY LenProperties, ElementOfSeq
  <1>2. \A i \in 1..L : term(i) \in Nat
    <2> TAKE i \in 1..L
    <2>1. payload[i].bits \in Nat
      <3>1. Pow2[Group] \in Nat
        BY RunestoneAssumption, Powers
      <3>2. payload[i].bits \in 0..(Pow2[Group] - 1)
        BY <1>1 DEF Bytes
      <3> QED
        BY <3>1, <3>2
    <2>2. Group * (i - 1) \in Nat
      <3>1. Group \in Nat /\ i - 1 \in Nat
        BY <1>1, RunestoneAssumption
      <3> QED
        BY <3>1
    <2>3. Pow2[Group * (i - 1)] \in Nat
      BY <2>2, Powers
    <2> QED
      BY <2>1, <2>3
  <1>3. \A n \in 0..(L - 1) :
          /\ n \in Nat /\ n \in 0..L /\ n + 1 \in 0..L /\ n + 1 \in 1..L /\ (n + 1) - 1 = n
          /\ n + 1 # 0
    BY <1>1
  <1>4. \A n \in 0..(L - 1) : term(n + 1) = payload[n + 1].bits * Pow2[Group * n]
    BY <1>3
  <1> HIDE DEF term
  <1>5. PICK g \in [Nat -> Nat] : Loops(f, 0, g)
    <2>1. f \in [Nat \X Nat -> Nat]
      <3>1. \A k \in Nat : more(k) \in Nat
        BY <1>2
      <3> HIDE DEF more
      <3>2. \A p \in Nat \X Nat : p[2] + more(p[1]) \in Nat
        <4> TAKE p \in Nat \X Nat
        <4>1. p[2] \in Nat /\ more(p[1]) \in Nat
          BY <3>1
        <4> QED
          BY <4>1
      <3> QED
        BY <3>2
    <2> HIDE DEF f
    <2> QED
      BY <2>1, LoopExists
  <1>6. g[0] = 0 /\ \A n \in 0..(L - 1) : g[n + 1] = g[n] + term(n + 1)
    <2>1. \A n \in Nat, a \in Nat : f[<<n, a>>] = a + more(n)
      OBVIOUS
    <2> HIDE DEF f
    <2>2. g[0] = 0 /\ \A n \in Nat : g[n + 1] = g[n] + more(n)
      BY <1>5, <2>1 DEF Loops
    <2> QED
      BY <1>3, <2>2
  <1> HIDE DEF f, more
  <1>7. ASSUME NEW n \in 0..L PROVE Leb128(payload, n) = g[n]
    <2> DEFINE h == CHOOSE h : LebTurns(payload, n, h)
               e == [k \in 0..n |-> g[k]]
    <2>1. n \in Nat /\ 0..n \subseteq Nat /\ \A k \in 0..(n - 1) : k \in 0..(L - 1)
      BY <1>1
    <2>2. \A k \in 0..n : k # 0 => /\ k - 1 \in 0..(L - 1) /\ (k - 1) + 1 = k /\ k - 1 \in 0..n
                                   /\ k \in 1..L
      BY <1>1
    <2>3. \A k \in 0..n : e[k] = IF k = 0 THEN 0 ELSE e[k - 1] + term(k)
      BY <1>6, <2>2
    <2>4. LebTurns(payload, n, e)
      <3>1. e = [k \in 0..n |-> e[k]]
        OBVIOUS
      <3> HIDE DEF e
      <3> QED
        BY <2>3, <3>1 DEF LebTurns, term
    <2>5. LebTurns(payload, n, h)
      <3> HIDE DEF e
      <3> QED
        BY <2>4
    <2>6. Leb128(payload, n) = h[n]
      BY LebIsRecursion
    <2> HIDE DEF h, e
    <2>7. \A k \in 0..n : h[k] = IF k = 0 THEN 0 ELSE h[k - 1] + term(k)
      BY <2>5 DEF LebTurns, term
    <2> DEFINE same == {k \in 0..n : h[k] = g[k]}
    <2>8. 0 \in same
      BY <1>6, <2>1, <2>7
    <2>9. \A k \in 0..(n - 1) : k \in same => k + 1 \in same
      <3> TAKE k \in 0..(n - 1)
      <3> HAVE k \in same
      <3>1. k \in 0..(L - 1) /\ k + 1 \in 0..n /\ k + 1 # 0 /\ (k + 1) - 1 = k
        <4>1. n \in Nat /\ k \in 0..(L - 1)
          BY <2>1
        <4>2. k + 1 \in 0..n /\ k + 1 # 0 /\ (k + 1) - 1 = k
          BY <4>1
        <4> QED
          BY <4>1, <4>2
      <3>2. h[k + 1] = h[k] + term(k + 1) /\ g[k + 1] = g[k] + term(k + 1)
        BY <1>6, <2>7, <3>1
      <3> QED
        BY <3>1, <3>2
    <2>10. \A k \in same : h[k] = g[k]
      OBVIOUS
    <2> HIDE DEF same
    <2>11. n \in same
      <3>1. 0..n \subseteq same
        BY <2>1, <2>8, <2>9, EveryTurn
      <3>2. n \in 0..n
        BY <2>1
      <3> QED
        BY <3>1, <3>2
    <2> QED
      BY <2>6, <2>10, <2>11
  <1>8. 0 \in 0..L
    BY <1>1
  <1> QED
    BY <1>2, <1>3, <1>4, <1>6, <1>7, <1>8

\* Where a varint of the format ends, as VarintExact has it
More(payload, i) == payload[i].more
LastBytes(payload) ==
    {n \in DOMAIN payload : ~payload[n].more /\ Group * (n - 1) < Width
                            /\ \A i \in 1..(n - 1) : payload[i].more}
ExactVarint(payload) ==
    LET v == decode_varint(payload)
    IN  /\ v.state = "done" <=> LastBytes(payload) # {}
        /\ \A n \in LastBytes(payload) : v.length = n /\ v.value = Leb128(payload, n) % Pow2[Width]

\* What has been read after n bytes: the varint goes on, it ended at a byte, or it
\* has gone on for too long.
Held(payload, n) == Leb128(payload, n) % Pow2[Width]
GoesOn(payload, n) == (\A i \in 1..n : More(payload, i)) /\ Group * n < Width
ReadSoFar(payload, v, n) ==
    /\ GoesOn(payload, n) => /\ v.state = "more" /\ v.shift = Group * n /\ v.length = n
                             /\ v.value = Held(payload, n)
    /\ \A k \in LastBytes(payload) :
           k <= n => /\ v.state = "done" /\ v.length = k
                     /\ v.value = Held(payload, k)
    /\ ~GoesOn(payload, n) /\ (\A k \in LastBytes(payload) : k > n) => v.state = "too large"

LEMMA LastByte ==
    ASSUME NEW payload \in Seq(Bytes), NEW k
    PROVE  k \in LastBytes(payload) <=>
              /\ k \in 1..Len(payload) /\ ~More(payload, k) /\ Group * (k - 1) < Width
              /\ \A i \in 1..(k - 1) : More(payload, i)
  BY LenProperties DEF LastBytes, More

LEMMA ReadOneMore ==
    ASSUME NEW payload \in Seq(Bytes), NEW n \in 0..(Len(payload) - 1), NEW v \in Varints,
           ReadSoFar(payload, v, n)
    PROVE  ReadSoFar(payload, VarintTurn(v, payload[n + 1]), n + 1)
  <1> DEFINE L == Len(payload)
             m == n + 1
             w == VarintTurn(v, payload[m])
             last == LastBytes(payload)
  <1>1. L \in Nat /\ n \in Nat /\ n < L /\ m \in 1..L
    BY LenProperties
  <1>2. Group \in Nat /\ Width \in Nat /\ Group * n \in Nat /\ Group * m = Group * n + Group
    <2>1. Group \in Nat /\ Width \in Nat
      BY RunestoneAssumption
    <2> QED
      BY <1>1, <2>1
  <1>3. \A k \in last : /\ k \in 1..L /\ ~More(payload, k) /\ Group * (k - 1) < Width
                        /\ \A i \in 1..(k - 1) : More(payload, i)
    BY LastByte
  <1>4. CASE GoesOn(payload, n)
    <2>1. /\ v.state = "more" /\ v.shift = Group * n /\ v.length = n
          /\ v.value = Held(payload, n)
      BY <1>4 DEF ReadSoFar
    <2>2. /\ w.value = Held(payload, m)
          /\ w.shift = Group * m /\ w.length = m
          /\ w.state = IF ~payload[m].more THEN "done"
                       ELSE IF Group * m > Width - 1 THEN "too large" ELSE "more"
      <3>1. w = [value  |-> (v.value + payload[m].bits * Pow2[v.shift]) % Pow2[Width],
                 shift  |-> v.shift + Group,
                 length |-> v.length + 1,
                 state  |-> IF ~payload[m].more THEN "done"
                            ELSE IF v.shift + Group > Width - 1 THEN "too large" ELSE "more"]
        BY <2>1 DEF VarintTurn
      <3> DEFINE a == Leb128(payload, n)
                 b == payload[m].bits * Pow2[Group * n]
                 M == Pow2[Width]
      <3>2. a \in Nat /\ b \in Nat /\ Leb128(payload, m) = a + b
        BY LebGrows
      <3>3. M \in Nat \ {0}
        BY <1>2, Powers
      <3> HIDE DEF w
      <3>4. /\ w.value = (v.value + payload[m].bits * Pow2[v.shift]) % Pow2[Width]
            /\ w.shift = v.shift + Group /\ w.length = v.length + 1
            /\ w.state = IF ~payload[m].more THEN "done"
                         ELSE IF v.shift + Group > Width - 1 THEN "too large" ELSE "more"
        BY <3>1, Zenon
      <3>5. v.value = a % M /\ Held(payload, m) = Leb128(payload, m) % M
        BY <2>1 DEF Held
      <3>6. w.value = ((a % M) + b) % M
        BY <2>1, <3>4, <3>5, Zenon
      <3> HIDE DEF a, b, M
      <3>7. ((a % M) + b) % M = (a + b) % M
        BY <3>2, <3>3, RemainderAdds
      <3>8. w.value = Held(payload, m)
        BY <3>2, <3>5, <3>6, <3>7, Zenon
      <3>9. v.shift + Group = Group * m /\ v.length + 1 = m
        BY <1>2, <2>1
      <3>10. w.shift = Group * m /\ w.length = m
        BY <3>4, <3>9, Zenon
      <3>11. w.state = IF ~payload[m].more THEN "done"
                       ELSE IF Group * m > Width - 1 THEN "too large" ELSE "more"
        BY <3>4, <3>9, Zenon
      <3> QED
        BY <3>8, <3>10, <3>11
    <2> HIDE DEF w
    <2>3. \A k \in last : k > n
      <3> SUFFICES ASSUME NEW k \in last, ~(k > n) PROVE FALSE
        OBVIOUS
      <3>1. k \in 1..n
        BY <1>1, <1>3
      <3> QED
        BY <1>3, <1>4, <3>1 DEF GoesOn
    <2>4. CASE ~More(payload, m)
      <3>1. w.state = "done"
        BY <2>2, <2>4 DEF More
      <3>2. ~GoesOn(payload, m)
        BY <1>1, <2>4 DEF GoesOn
      <3>3. m \in last
        <4>1. m - 1 = n
          BY <1>1
        <4> QED
          BY <1>1, <1>4, <2>4, <4>1, LastByte DEF GoesOn
      <3>4. \A k \in last : k <= m => k = m
        BY <1>1, <1>3, <2>3
      <3>5. ~(\A k \in last : k > m)
        BY <1>1, <3>3
      <3> HIDE DEF m, last
      <3>6. \A k \in last : k <= m => /\ w.state = "done" /\ w.length = k
                                      /\ w.value = Held(payload, k)
        BY <2>2, <3>1, <3>4
      <3> QED
        BY <3>2, <3>5, <3>6, Zenon DEF ReadSoFar, w, m, last
    <2>5. CASE More(payload, m)
      <3>1. \A k \in last : k > m
        BY <1>1, <1>3, <2>3, <2>5
      <3>2. w.state = IF Group * m > Width - 1 THEN "too large" ELSE "more"
        BY <2>2, <2>5 DEF More
      <3>3. GoesOn(payload, m) <=> Group * m < Width
        <4>1. \A i \in 1..m : i \in 1..n \/ i = m
          BY <1>1
        <4>2. \A i \in 1..m : More(payload, i)
          BY <1>4, <2>5, <4>1 DEF GoesOn
        <4> QED
          BY <4>2 DEF GoesOn
      <3>4. Group * m > Width - 1 <=> ~(Group * m < Width)
        BY <1>2
      <3>5. \A k \in last : ~(k <= m)
        BY <1>1, <1>3, <3>1
      <3>6. GoesOn(payload, m) => w.state = "more"
        BY <3>2, <3>3, <3>4
      <3>7. ~GoesOn(payload, m) => w.state = "too large"
        BY <3>2, <3>3, <3>4
      <3> HIDE DEF m, last
      <3> QED
        BY <2>2, <3>5, <3>6, <3>7, Zenon DEF ReadSoFar, w, m, last
    <2> QED
      BY <2>4, <2>5 DEF w
  <1>5. v.state # "more" => w = v
    BY DEF VarintTurn
  <1> HIDE DEF w
  <1>6. CASE \E k \in last : k <= n
    <2>1. PICK k \in last : k <= n
      BY <1>6
    <2>2. v.state = "done" /\ w = v
      BY <1>5, <2>1 DEF ReadSoFar
    <2>3. k \in 1..m /\ ~More(payload, k)
      BY <1>1, <1>3, <2>1
    <2>4. ~GoesOn(payload, m)
      BY <2>3 DEF GoesOn
    <2>5. \A j \in last : j <= m => j <= n
      <3> SUFFICES ASSUME NEW j \in last, j <= m, ~(j <= n) PROVE FALSE
        OBVIOUS
      <3>1. j = m /\ k \in 1..(j - 1)
        BY <1>1, <1>3, <2>1
      <3> QED
        BY <1>3, <2>3, <3>1
    <2>6. ~(\A j \in last : j > m)
      BY <1>1, <2>3
    <2> QED
      BY <2>2, <2>4, <2>5, <2>6 DEF ReadSoFar, w
  <1>7. CASE ~GoesOn(payload, n) /\ ~(\E k \in last : k <= n)
    <2>1. \A k \in last : k > n
      BY <1>1, <1>3, <1>7
    <2>2. v.state = "too large" /\ w = v
      BY <1>5, <1>7, <2>1 DEF ReadSoFar
    <2>3. ~GoesOn(payload, m)
      <3>1. GoesOn(payload, m) => GoesOn(payload, n)
        <4> HAVE GoesOn(payload, m)
        <4>1. Group * n < Width
          BY <1>2 DEF GoesOn
        <4>2. 1..n \subseteq 1..m
          BY <1>1
        <4> QED
          BY <4>1, <4>2 DEF GoesOn
      <3> QED
        BY <1>7, <3>1
    <2>4. \A k \in last : ~(k <= m)
      <3> SUFFICES ASSUME NEW k \in last, k <= m PROVE FALSE
        OBVIOUS
      <3>1. k - 1 = n
        BY <1>1, <1>3, <2>1
      <3> QED
        BY <1>3, <1>7, <3>1 DEF GoesOn
    <2> QED
      BY <2>2, <2>3, <2>4 DEF ReadSoFar, w
  <1> QED
    BY <1>4, <1>6, <1>7

LEMMA VarintIsExact == \A payload \in Seq(Bytes) : ExactVarint(payload)
  <1> TAKE payload \in Seq(Bytes)
  <1> DEFINE L == Len(payload)
             last == LastBytes(payload)
  <1>1. L \in Nat
    BY LenProperties
  <1>2. PICK h \in [0..L -> Varints] :
           /\ h[0] = Unread
           /\ \A i \in 0..(L - 1) : h[i + 1] = VarintTurn(h[i], payload[i + 1])
           /\ decode_varint(payload) = h[L]
    BY VarintTurns
  <1>3. \A k \in last : k \in 1..L
    BY LastByte
  <1> DEFINE good == {n \in 0..L : ReadSoFar(payload, h[n], n)}
  <1>4. 0 \in good
    <2>1. 0 \in 0..L /\ 1..0 = {} /\ \A k \in last : k > 0 /\ ~(k <= 0)
      BY <1>1, <1>3
    <2>2. Group * 0 = 0 /\ 0 < Width /\ Pow2[Width] \in Nat \ {0}
      <3>1. Group \in Nat /\ Width \in Nat \ {0}
        BY RunestoneAssumption
      <3> QED
        BY <3>1, Powers
    <2>3. 0 % Pow2[Width] = 0
      <3> DEFINE M == Pow2[Width]
      <3>1. M \in Nat \ {0}
        BY <2>2
      <3> HIDE DEF M
      <3>2. 0 \in 0..(M - 1) /\ 0 = M * 0 + 0
        BY <3>1
      <3>3. 0 % M = 0
        BY <3>1, <3>2, Remainder
      <3> QED
        BY <3>3 DEF M
    <2>4. Leb128(payload, 0) = 0
      BY LebGrows
    <2>5. GoesOn(payload, 0)
      BY <2>1, <2>2 DEF GoesOn
    <2>6. ReadSoFar(payload, Unread, 0)
      BY <2>1, <2>2, <2>3, <2>4, <2>5 DEF ReadSoFar, Unread, Held
    <2> QED
      BY <1>2, <2>1, <2>6
  <1>5. \A n \in 0..(L - 1) : n \in good => n + 1 \in good
    <2> TAKE n \in 0..(L - 1)
    <2> HAVE n \in good
    <2>1. n \in 0..L /\ n + 1 \in 0..L /\ h[n] \in Varints /\ ReadSoFar(payload, h[n], n)
      BY <1>1
    <2>2. ReadSoFar(payload, VarintTurn(h[n], payload[n + 1]), n + 1)
      BY <2>1, ReadOneMore
    <2> QED
      BY <1>2, <2>1, <2>2
  <1>6. \A n \in good : ReadSoFar(payload, h[n], n)
    OBVIOUS
  <1> HIDE DEF good
  <1>7. L \in good
    <2>1. 0..L \subseteq good
      BY <1>1, <1>4, <1>5, EveryTurn
    <2> QED
      BY <1>1, <2>1
  <1>8. ReadSoFar(payload, decode_varint(payload), L)
    BY <1>2, <1>6, <1>7
  <1> DEFINE v == decode_varint(payload)
  <1>9. \A k \in last : /\ v.state = "done" /\ v.length = k
                        /\ v.value = Leb128(payload, k) % Pow2[Width]
    <2> TAKE k \in last
    <2>1. k <= L
      BY <1>1, <1>3
    <2>2. v.state = "done" /\ v.length = k /\ v.value = Held(payload, k)
      BY <1>8, <2>1 DEF ReadSoFar
    <2> QED
      BY <2>2 DEF Held
  <1>10. last = {} => v.state # "done"
    <2> HAVE last = {}
    <2>1. GoesOn(payload, L) \/ v.state = "too large"
      BY <1>8 DEF ReadSoFar
    <2>2. GoesOn(payload, L) => v.state = "more"
      BY <1>8 DEF ReadSoFar
    <2> QED
      BY <2>1, <2>2
  <1> QED
    BY <1>9, <1>10 DEF ExactVarint

-----------------------------------------------------------------------------
(* The integers of a payload *)

Results == {Fails} \cup {Gives(s) : s \in Seq(Nat)}
VarintAt(payload, i) == decode_varint(SubSeq(payload, i, Len(payload)))
ReadFrom(payload, g, i) ==
    IF i > Len(payload) THEN Gives(<<>>)
    ELSE IF VarintAt(payload, i).state # "done" THEN Fails
    ELSE IF g[i + VarintAt(payload, i).length].ok
         THEN Gives(<<VarintAt(payload, i).value>> \o g[i + VarintAt(payload, i).length].value)
         ELSE Fails
ReadsFrom(payload, n, g) == g = [i \in n..(Len(payload) + 1) |-> ReadFrom(payload, g, i)]

LEMMA IntegersRecursion ==
    ASSUME NEW payload
    PROVE  decode_integers(payload) = (CHOOSE g : ReadsFrom(payload, 1, g))[1]
  BY DEF decode_integers, ReadsFrom, ReadFrom, VarintAt

LEMMA ResultRead ==
    /\ \A r \in Results : r.ok => r.value \in Seq(Nat)
    /\ Fails \in Results
    /\ \A s \in Seq(Nat) : Gives(s) \in Results
  <1>1. ASSUME NEW r \in Results, r.ok
        PROVE  r.value \in Seq(Nat)
    <2>1. r # Fails
      BY <1>1 DEF Fails
    <2>2. PICK s \in Seq(Nat) : r = Gives(s)
      BY <2>1 DEF Results
    <2> QED
      BY <2>2 DEF Gives
  <1> QED
    BY <1>1 DEF Results

\* A varint that is read has bytes, and they are bytes of the payload.
LEMMA ReadsOn ==
    ASSUME NEW payload \in Seq(Bytes), NEW i \in 1..Len(payload),
           VarintAt(payload, i).state = "done"
    PROVE  /\ VarintAt(payload, i).value \in Nat
           /\ i + VarintAt(payload, i).length \in (i + 1)..(Len(payload) + 1)
  <1> DEFINE L == Len(payload)
             rest == SubSeq(payload, i, L)
             v == decode_varint(rest)
  <1>1. L \in Nat /\ i \in Nat /\ i <= L
    BY LenProperties
  <1>2. rest \in Seq(Bytes) /\ Len(rest) = L - i + 1
    <2>1. \A j \in i..L : payload[j] \in Bytes
      BY <1>1, ElementOfSeq
    <2>2. rest \in Seq(Bytes)
      BY <1>1, <2>1, SubSeqProperties
    <2>3. Len(rest) = L - i + 1
      BY <1>1, <2>1, SubSeqProperties
    <2> QED
      BY <2>2, <2>3
  <1>3. v.state = "done"
    BY DEF VarintAt
  <1> HIDE DEF rest
  <1>4. v.value \in Nat
    <2>1. PICK h \in [0..Len(rest) -> Varints] : v = h[Len(rest)]
      BY <1>2, VarintTurns
    <2>2. Len(rest) \in 0..Len(rest)
      BY <1>2, LenProperties
    <2>3. v \in Varints
      BY <2>1, <2>2
    <2> HIDE DEF v
    <2> QED
      BY <2>3 DEF Varints
  <1>5. v.length \in 1..(L - i + 1)
    <2>1. ExactVarint(rest)
      BY <1>2, VarintIsExact
    <2>2. PICK k \in LastBytes(rest) : v.length = k
      <3>1. LastBytes(rest) # {}
        BY <1>3, <2>1 DEF ExactVarint
      <3>2. \A k \in LastBytes(rest) : v.length = k
        BY <2>1 DEF ExactVarint
      <3> QED
        BY <3>1, <3>2
    <2>3. k \in 1..Len(rest)
      BY <1>2, LastByte
    <2> QED
      BY <1>2, <2>2, <2>3
  <1> HIDE DEF v
  <1>6. i + v.length \in (i + 1)..(L + 1)
    BY <1>1, <1>5
  <1> QED
    BY <1>4, <1>6 DEF v, rest, VarintAt

\* The recursion of decode_integers defines a function.
LEMMA IntegersExist ==
    ASSUME NEW payload \in Seq(Bytes)
    PROVE  \E g : ReadsFrom(payload, 1, g)
  <1> DEFINE L == Len(payload)
             good == {k \in 0..L : \E g : ReadsFrom(payload, L + 1 - k, g)}
  <1>1. L \in Nat
    BY LenProperties
  <1>2. 0 \in good
    <2> DEFINE g == [i \in (L + 1)..(L + 1) |-> Gives(<<>>)]
    <2>1. \A i \in (L + 1)..(L + 1) : ReadFrom(payload, g, i) = Gives(<<>>)
      BY <1>1 DEF ReadFrom
    <2>2. g = [i \in (L + 1)..(L + 1) |-> ReadFrom(payload, g, i)]
      BY <2>1
    <2>3. ReadsFrom(payload, L + 1, g)
      BY <2>2 DEF ReadsFrom
    <2> HIDE DEF g
    <2>4. L + 1 - 0 = L + 1 /\ 0 \in 0..L
      BY <1>1
    <2> QED
      BY <2>3, <2>4
  <1>3. \A k \in 0..(L - 1) : k \in good => k + 1 \in good
    <2> TAKE k \in 0..(L - 1)
    <2> HAVE k \in good
    <2> DEFINE n == L + 1 - k
               m == L - k
    <2>1. PICK g : ReadsFrom(payload, n, g)
      OBVIOUS
    <2>2. /\ m \in 1..L /\ k + 1 \in 0..L /\ L + 1 - (k + 1) = m
          /\ \A i \in m..(L + 1) : i = m \/ i \in n..(L + 1)
          /\ \A i \in m..(L + 1) : i > L \/ i \in 1..L
      BY <1>1
    <2> HIDE DEF n, m
    <2> DEFINE f == [i \in m..(L + 1) |-> IF i = m THEN ReadFrom(payload, g, m) ELSE g[i]]
    <2>3. \A i \in n..(L + 1) : g[i] = ReadFrom(payload, g, i)
      BY <2>1 DEF ReadsFrom
    <2>4. ASSUME NEW i \in m..(L + 1)
          PROVE  ReadFrom(payload, f, i) = ReadFrom(payload, g, i)
      <3>1. CASE i > L
        BY <3>1 DEF ReadFrom
      <3>2. CASE i \in 1..L /\ VarintAt(payload, i).state # "done"
        BY <3>2 DEF ReadFrom
      <3>3. CASE i \in 1..L /\ VarintAt(payload, i).state = "done"
        <4> DEFINE j == i + VarintAt(payload, i).length
        <4>1. j \in (i + 1)..(L + 1)
          BY <3>3, ReadsOn
        <4>2. j \in m..(L + 1) /\ j # m
          <5> HIDE DEF j
          <5> QED
            BY <1>1, <2>2, <4>1
        <4> HIDE DEF j
        <4>3. f[j] = g[j]
          BY <4>2
        <4> HIDE DEF f
        <4> QED
          BY <4>3 DEF ReadFrom, j
      <3> QED
        BY <2>2, <3>1, <3>2, <3>3
    <2>5. \A i \in m..(L + 1) :
             (IF i = m THEN ReadFrom(payload, g, m) ELSE g[i]) = ReadFrom(payload, f, i)
      <3> TAKE i \in m..(L + 1)
      <3>1. ReadFrom(payload, f, i) = ReadFrom(payload, g, i)
        BY <2>4
      <3> HIDE DEF f
      <3>2. CASE i = m
        BY <3>1, <3>2
      <3>3. CASE i # m
        BY <2>2, <2>3, <3>1, <3>3
      <3> QED
        BY <3>2, <3>3
    <2>6. f = [i \in m..(L + 1) |-> ReadFrom(payload, f, i)]
      BY <2>5, Zenon
    <2>7. ReadsFrom(payload, m, f)
      BY <2>6 DEF ReadsFrom
    <2> HIDE DEF f
    <2> QED
      BY <2>2, <2>7
  <1>4. \A k \in good : \E g : ReadsFrom(payload, L + 1 - k, g)
    OBVIOUS
  <1> HIDE DEF good
  <1>5. L \in good
    <2>1. 0..L \subseteq good
      BY <1>1, <1>2, <1>3, EveryTurn
    <2> QED
      BY <1>1, <2>1
  <1>6. L + 1 - L = 1
    BY <1>1
  <1> QED
    BY <1>4, <1>5, <1>6

LEMMA IntegersRead ==
    ASSUME NEW payload \in Seq(Bytes)
    PROVE  decode_integers(payload) \in Results
  <1> DEFINE L == Len(payload)
             g == CHOOSE g : ReadsFrom(payload, 1, g)
             good == {k \in 0..L : \A i \in (L + 1 - k)..(L + 1) : g[i] \in Results}
  <1>1. L \in Nat
    BY LenProperties
  <1>2. ReadsFrom(payload, 1, g)
    BY IntegersExist
  <1>3. decode_integers(payload) = g[1]
    BY IntegersRecursion
  <1> HIDE DEF g
  <1>4. \A i \in 1..(L + 1) : g[i] = ReadFrom(payload, g, i)
    BY <1>2 DEF ReadsFrom
  <1>5. 0 \in good
    <2>1. L + 1 \in 1..(L + 1) /\ 0 \in 0..L /\ \A i \in (L + 1 - 0)..(L + 1) : i = L + 1
      BY <1>1
    <2>2. g[L + 1] = Gives(<<>>)
      <3>1. L + 1 > L
        BY <1>1
      <3> QED
        BY <1>4, <2>1, <3>1 DEF ReadFrom
    <2>3. g[L + 1] \in Results
      BY <2>2, ResultRead, EmptySeq
    <2> QED
      BY <2>1, <2>3
  <1>6. \A k \in 0..(L - 1) : k \in good => k + 1 \in good
    <2> TAKE k \in 0..(L - 1)
    <2> HAVE k \in good
    <2> DEFINE m == L - k
    <2>1. /\ m \in 1..L /\ m \in 1..(L + 1) /\ k + 1 \in 0..L
          /\ \A i \in (m + 1)..(L + 1) : i \in (L + 1 - k)..(L + 1)
          /\ \A i \in (L + 1 - (k + 1))..(L + 1) : i = m \/ i \in (m + 1)..(L + 1)
          /\ ~(m > L)
      BY <1>1
    <2>2. \A i \in (m + 1)..(L + 1) : g[i] \in Results
      BY <2>1
    <2> HIDE DEF m
    <2>3. g[m] \in Results
      <3> DEFINE v == VarintAt(payload, m)
                 j == m + v.length
      <3>1. g[m] = IF v.state # "done" THEN Fails
                   ELSE IF g[j].ok THEN Gives(<<v.value>> \o g[j].value) ELSE Fails
        BY <1>4, <2>1 DEF ReadFrom
      <3>2. ASSUME v.state = "done", g[j].ok
            PROVE  <<v.value>> \o g[j].value \in Seq(Nat)
        <4>1. v.value \in Nat /\ j \in (m + 1)..(L + 1)
          BY <2>1, <3>2, ReadsOn
        <4>2. g[j].value \in Seq(Nat)
          BY <2>2, <3>2, <4>1, ResultRead
        <4> QED
          BY <4>1, <4>2, FirstAndRest
      <3>3. CASE v.state = "done" /\ g[j].ok
        BY <3>1, <3>2, <3>3, ResultRead
      <3>4. CASE ~(v.state = "done" /\ g[j].ok)
        <4>1. g[m] = Fails
          BY <3>1, <3>4
        <4> QED
          BY <4>1, ResultRead
      <3> QED
        BY <3>3, <3>4
    <2> QED
      BY <2>1, <2>2, <2>3
  <1>7. \A k \in good : \A i \in (L + 1 - k)..(L + 1) : g[i] \in Results
    OBVIOUS
  <1> HIDE DEF good
  <1>8. L \in good
    <2>1. 0..L \subseteq good
      BY <1>1, <1>5, <1>6, EveryTurn
    <2> QED
      BY <1>1, <2>1
  <1>9. 1 \in (L + 1 - L)..(L + 1)
    BY <1>1
  <1> QED
    BY <1>3, <1>7, <1>8, <1>9

-----------------------------------------------------------------------------
(* The two walks over the integers *)

NoTag == [tag |-> -1, data |-> <<>>]
TagStates == [tag : Int, data : Seq(Nat)]
TagTurn(acc, n) ==
    IF acc.tag = -1 THEN [acc EXCEPT !.tag = n]
    ELSE [tag  |-> -1,
          data |-> IF acc.tag = RUNESTONE_MAGIC_NUMBER THEN Append(acc.data, n) ELSE acc.data]
TagFold(integers, g) ==
    g = [t \in SUBSET (DOMAIN integers) |->
            IF t = {} THEN NoTag ELSE TagTurn(g[t \ {Max(t)}], integers[Max(t)])]

LEMMA TagFolds ==
    ASSUME NEW integers
    PROVE  extract_protocol_data(integers) =
               (CHOOSE g : TagFold(integers, g))[DOMAIN integers].data
  BY DEF extract_protocol_data, FoldLeft, MapThenFoldSet, TagFold, TagTurn, NoTag

LEMMA TagTyped ==
    /\ NoTag \in TagStates
    /\ \A acc \in TagStates, n \in Nat : TagTurn(acc, n) \in TagStates
  <1>1. NoTag \in TagStates
    BY EmptySeq DEF NoTag, TagStates
  <1>2. ASSUME NEW acc \in TagStates, NEW n \in Nat
        PROVE  TagTurn(acc, n) \in TagStates
    <2>1. acc.data \in Seq(Nat) /\ Append(acc.data, n) \in Seq(Nat)
      BY AppendProperties DEF TagStates
    <2>2. CASE acc.tag = -1
      BY <2>2 DEF TagTurn, TagStates
    <2>3. CASE acc.tag # -1
      BY <2>1, <2>3 DEF TagTurn, TagStates
    <2> QED
      BY <2>2, <2>3
  <1> QED
    BY <1>1, <1>2

\* extract_protocol_data, one integer at a time.
LEMMA TagTurns ==
    ASSUME NEW integers \in Seq(Nat)
    PROVE  \E h \in [0..Len(integers) -> TagStates] :
               /\ h[0] = NoTag
               /\ \A i \in 0..(Len(integers) - 1) : h[i + 1] = TagTurn(h[i], integers[i + 1])
               /\ extract_protocol_data(integers) = h[Len(integers)].data
  <1> DEFINE L == Len(integers)
             D == SUBSET (DOMAIN integers)
             F == [p \in TagStates \X Nat |-> TagTurn(p[1], p[2])]
  <1>1. L \in Nat /\ DOMAIN integers = 1..L /\ \A i \in 1..L : integers[i] \in Nat
    BY LenProperties, ElementOfSeq
  <1>2. /\ F \in [TagStates \X Nat -> TagStates]
        /\ \A acc \in TagStates, n \in Nat : F[<<acc, n>>] = TagTurn(acc, n)
    BY TagTyped
  <1> HIDE DEF F
  <1>3. PICK g \in [D -> TagStates] : Folds(F, NoTag, integers, g)
    BY <1>2, TagTyped, FoldExists
  <1>4. TagFold(integers, g)
    <2>1. \A t \in D : t # {} => t \ {Max(t)} \in D /\ integers[Max(t)] \in Nat
      <3> TAKE t \in D
      <3> HAVE t # {}
      <3>1. Max(t) \in t
        BY <1>1, MaxIn
      <3> QED
        BY <1>1, <3>1
    <2>2. \A t \in D : g[t] \in TagStates
      OBVIOUS
    <2>3. \A t \in D : t # {} =>
             F[<<g[t \ {Max(t)}], integers[Max(t)]>>] = TagTurn(g[t \ {Max(t)}], integers[Max(t)])
      BY <1>2, <2>1, <2>2
    <2>4. [t \in D |-> IF t = {} THEN NoTag ELSE F[<<g[t \ {Max(t)}], integers[Max(t)]>>]]
          = [t \in D |-> IF t = {} THEN NoTag ELSE TagTurn(g[t \ {Max(t)}], integers[Max(t)])]
      BY <2>3
    <2> QED
      BY <1>3, <2>4, Zenon DEF Folds, TagFold
  <1> DEFINE d == CHOOSE d : TagFold(integers, d)
  <1>5. TagFold(integers, d) /\ extract_protocol_data(integers) = d[DOMAIN integers].data
    BY <1>4, TagFolds
  <1> HIDE DEF d
  <1>6. \A t \in D :
           d[t] = IF t = {} THEN NoTag ELSE TagTurn(d[t \ {Max(t)}], integers[Max(t)])
    BY <1>5 DEF TagFold
  <1> DEFINE h == [i \in 0..L |-> d[1..i]]
  <1>7. h[0] = NoTag
    <2>1. 1..0 = {} /\ 1..0 \in D /\ 0 \in 0..L
      BY <1>1
    <2> QED
      BY <1>6, <2>1
  <1>8. \A i \in 0..(L - 1) : h[i + 1] = TagTurn(h[i], integers[i + 1])
    <2> TAKE i \in 0..(L - 1)
    <2> DEFINE t == 1..(i + 1)
    <2>1. i \in 0..L /\ i + 1 \in 0..L /\ t \in D /\ i + 1 \in t
      BY <1>1
    <2>2. Max(t) = i + 1
      <3>1. Max(t) \in t /\ i + 1 <= Max(t)
        BY <1>1, <2>1, MaxIn
      <3> QED
        BY <2>1, <3>1
    <2>3. t \ {i + 1} = 1..i
      BY <2>1
    <2>4. d[t] = TagTurn(d[1..i], integers[i + 1])
      <3> HIDE DEF t
      <3> QED
        BY <1>6, <2>1, <2>2, <2>3
    <2> QED
      BY <2>1, <2>4
  <1>9. h[L].data = extract_protocol_data(integers)
    BY <1>1, <1>5
  <1> HIDE DEF h
  <1>10. \A i \in 0..L : h[i] \in TagStates
    <2> DEFINE good == {i \in 0..L : h[i] \in TagStates}
    <2>1. 0 \in good
      BY <1>1, <1>7, TagTyped
    <2>2. \A i \in 0..(L - 1) : i \in good => i + 1 \in good
      <3> TAKE i \in 0..(L - 1)
      <3> HAVE i \in good
      <3>1. i + 1 \in 0..L /\ i + 1 \in 1..L /\ h[i] \in TagStates
        BY <1>1
      <3>2. h[i + 1] \in TagStates
        BY <1>1, <1>8, <3>1, TagTyped
      <3> QED
        BY <3>1, <3>2
    <2>3. \A i \in good : h[i] \in TagStates
      OBVIOUS
    <2> HIDE DEF good
    <2>4. 0..L \subseteq good
      BY <1>1, <2>1, <2>2, EveryTurn
    <2> QED
      BY <2>3, <2>4
  <1>11. h \in [0..L -> TagStates]
    BY <1>10 DEF h
  <1> QED
    BY <1>7, <1>8, <1>9, <1>11

\* What the kth pair of integers adds to the values of tag 13
OfPair(integers, k) ==
    IF integers[2 * k - 1] = RUNESTONE_MAGIC_NUMBER THEN <<integers[2 * k]>> ELSE <<>>
PairsTo(integers, n) == [k \in 1..n |-> OfPair(integers, k)]
Pairs(integers) == Len(integers) \div 2

LEMMA Halves ==
    ASSUME NEW L \in Nat
    PROVE  /\ L \div 2 \in Nat
           /\ L = 2 * (L \div 2) \/ L = 2 * (L \div 2) + 1
  <1> DEFINE d == L \div 2
             r == L % 2
  <1>1. d \in Int /\ r \in 0..1 /\ L = 2 * d + r
    OBVIOUS
  <1> HIDE DEF d, r
  <1> QED
    BY <1>1 DEF d

LEMMA PairsTyped ==
    ASSUME NEW integers \in Seq(Nat)
    PROVE  /\ Pairs(integers) \in Nat
           /\ \A k \in 1..Pairs(integers) :
                 /\ 2 * k - 1 \in 1..Len(integers) /\ 2 * k \in 1..Len(integers)
                 /\ OfPair(integers, k) \in Seq(Nat)
           /\ \A n \in 0..Pairs(integers) : PairsTo(integers, n) \in Seq(Seq(Nat))
           /\ \A n \in 0..(Pairs(integers) - 1) :
                 PairsTo(integers, n + 1) = Append(PairsTo(integers, n), OfPair(integers, n + 1))
  <1> DEFINE K == Pairs(integers)
             L == Len(integers)
  <1>1. L \in Nat /\ \A i \in 1..L : integers[i] \in Nat
    BY LenProperties, ElementOfSeq
  <1>2. K \in Nat /\ 2 * K <= L
    <2>1. K \in Nat /\ (L = 2 * K \/ L = 2 * K + 1)
      BY <1>1, Halves DEF Pairs
    <2> HIDE DEF K
    <2> QED
      BY <2>1
  <1> HIDE DEF K
  <1>3. \A k \in 1..K : /\ 2 * k - 1 \in 1..L /\ 2 * k \in 1..L
                        /\ OfPair(integers, k) \in Seq(Nat)
    <2> TAKE k \in 1..K
    <2>1. 2 * k - 1 \in 1..L /\ 2 * k \in 1..L
      BY <1>1, <1>2
    <2>2. integers[2 * k] \in Nat
      BY <1>1, <2>1
    <2>3. \A x \in Nat : <<x>> \in Seq(Nat)
      OBVIOUS
    <2> QED
      BY <2>1, <2>2, <2>3, EmptySeq DEF OfPair
  <1>4. \A n \in 0..K : PairsTo(integers, n) \in Seq(Seq(Nat)) /\ Len(PairsTo(integers, n)) = n
    <2> TAKE n \in 0..K
    <2>1. n \in Nat /\ \A k \in 1..n : OfPair(integers, k) \in Seq(Nat)
      BY <1>2, <1>3
    <2> QED
      BY <2>1, SeqDef DEF PairsTo
  <1>5. \A n \in 0..(K - 1) :
           PairsTo(integers, n + 1) = Append(PairsTo(integers, n), OfPair(integers, n + 1))
    <2> TAKE n \in 0..(K - 1)
    <2> DEFINE s == PairsTo(integers, n)
               t == OfPair(integers, n + 1)
               u == PairsTo(integers, n + 1)
               w == Append(s, t)
    <2>1. n \in 0..K /\ n + 1 \in 0..K /\ n + 1 \in 1..K
      BY <1>2
    <2>2. s \in Seq(Seq(Nat)) /\ Len(s) = n /\ u \in Seq(Seq(Nat)) /\ Len(u) = n + 1
      BY <1>4, <2>1
    <2>3. t \in Seq(Nat)
      BY <1>3, <2>1
    <2>4. /\ \A k \in 1..n : s[k] = OfPair(integers, k)
          /\ \A k \in 1..(n + 1) : u[k] = OfPair(integers, k)
      BY DEF PairsTo
    <2> HIDE DEF s, t, u
    <2>5. w \in Seq(Seq(Nat)) /\ Len(w) = n + 1 /\ w[n + 1] = t /\ \A k \in 1..n : w[k] = s[k]
      BY <2>2, <2>3, AppendProperties
    <2>6. \A k \in 1..(n + 1) : w[k] = u[k]
      <3> TAKE k \in 1..(n + 1)
      <3>1. CASE k = n + 1
        <4>1. u[k] = t
          BY <2>4, <3>1 DEF t
        <4> QED
          BY <2>5, <3>1, <4>1
      <3>2. CASE k # n + 1
        <4>1. k \in 1..n
          BY <2>1, <3>2
        <4> QED
          BY <2>4, <2>5, <4>1
      <3> QED
        BY <3>1, <3>2
    <2> HIDE DEF w
    <2>7. u = w
      BY <2>2, <2>5, <2>6, SeqEqual
    <2> QED
      BY <2>7 DEF u, w, s, t
  <1> QED
    BY <1>2, <1>3, <1>4, <1>5 DEF K

LEMMA FirstWalk ==
    ASSUME NEW integers \in Seq(Nat)
    PROVE  extract_protocol_data(integers) = FlattenSeq(PairsTo(integers, Pairs(integers)))
  <1> DEFINE L == Len(integers)
             K == Pairs(integers)
             flat(n) == FlattenSeq(PairsTo(integers, n))
  <1>1. L \in Nat /\ \A i \in 1..L : integers[i] \in Nat
    BY LenProperties, ElementOfSeq
  <1>2. PICK h \in [0..L -> TagStates] :
           /\ h[0] = NoTag
           /\ \A i \in 0..(L - 1) : h[i + 1] = TagTurn(h[i], integers[i + 1])
           /\ extract_protocol_data(integers) = h[L].data
    BY TagTurns
  <1>3. K \in Nat /\ (L = 2 * K \/ L = 2 * K + 1)
    BY <1>1, Halves DEF Pairs
  <1>4. \A n \in 0..K : PairsTo(integers, n) \in Seq(Seq(Nat)) /\ flat(n) \in Seq(Nat)
    BY PairsTyped, FlattenType
  <1>5. \A n \in 0..(K - 1) : /\ flat(n + 1) = flat(n) \o OfPair(integers, n + 1)
                              /\ OfPair(integers, n + 1) \in Seq(Nat)
    <2> TAKE n \in 0..(K - 1)
    <2>1. n \in 0..K /\ n + 1 \in 1..K
      BY <1>3
    <2>2. /\ PairsTo(integers, n) \in Seq(Seq(Nat)) /\ OfPair(integers, n + 1) \in Seq(Nat)
          /\ PairsTo(integers, n + 1) = Append(PairsTo(integers, n), OfPair(integers, n + 1))
      BY <2>1, PairsTyped
    <2> QED
      BY <2>2, FlattenAppend
  <1>6. flat(0) = <<>>
    <2>1. PairsTo(integers, 0) = <<>>
      BY DEF PairsTo
    <2> QED
      BY <2>1, FlattenEmpty
  <1> HIDE DEF K, flat
  <1> DEFINE good == {n \in 0..K : h[2 * n] = [tag |-> -1, data |-> flat(n)]}
  <1>7. 0 \in good
    <2>1. 0 \in 0..K /\ 2 * 0 = 0
      BY <1>3
    <2> QED
      BY <1>2, <1>6, <2>1 DEF NoTag
  <1>8. \A n \in 0..(K - 1) : n \in good => n + 1 \in good
    <2> TAKE n \in 0..(K - 1)
    <2> HAVE n \in good
    <2> DEFINE a == integers[2 * n + 1]
               b == integers[2 * n + 2]
    <2>1. /\ 2 * n \in 0..(L - 1) /\ 2 * n + 1 \in 0..(L - 1) /\ n + 1 \in 0..K /\ n \in 0..K
          /\ (2 * n + 1) + 1 = 2 * n + 2 /\ 2 * (n + 1) = 2 * n + 2 /\ 2 * (n + 1) - 1 = 2 * n + 1
          /\ 2 * n + 1 \in 1..L /\ 2 * n + 2 \in 1..L
      BY <1>1, <1>3
    <2>2. a \in Nat /\ b \in Nat /\ flat(n) \in Seq(Nat)
      BY <1>1, <1>4, <2>1
    <2>3. h[2 * n + 1] = [tag |-> a, data |-> flat(n)]
      <3>1. h[2 * n + 1] = TagTurn([tag |-> -1, data |-> flat(n)], a)
        BY <1>2, <2>1
      <3> HIDE DEF a
      <3> QED
        BY <3>1 DEF TagTurn
    <2>4. h[2 * n + 2] = TagTurn([tag |-> a, data |-> flat(n)], b)
      BY <1>2, <2>1, <2>3
    <2>5. OfPair(integers, n + 1) = IF a = RUNESTONE_MAGIC_NUMBER THEN <<b>> ELSE <<>>
      BY <2>1 DEF OfPair
    <2> HIDE DEF a, b
    <2>6. flat(n + 1) = IF a = RUNESTONE_MAGIC_NUMBER THEN Append(flat(n), b) ELSE flat(n)
      <3>1. flat(n) \o <<b>> = Append(flat(n), b) /\ flat(n) \o <<>> = flat(n)
        <4>1. \A s \in Seq(Nat), x \in Nat : s \o <<x>> = Append(s, x)
          OBVIOUS
        <4>2. \A s \in Seq(Nat) : s \o <<>> = s
          OBVIOUS
        <4> QED
          BY <2>2, <4>1, <4>2
      <3> QED
        BY <1>5, <2>5, <3>1
    <2>7. h[2 * n + 2] = [tag |-> -1, data |-> flat(n + 1)]
      <3>1. a # -1
        BY <2>2
      <3> QED
        BY <2>4, <2>6, <3>1 DEF TagTurn
    <2> QED
      BY <2>1, <2>7
  <1>9. \A n \in good : h[2 * n] = [tag |-> -1, data |-> flat(n)]
    OBVIOUS
  <1> HIDE DEF good
  <1>10. K \in good
    <2>1. 0..K \subseteq good
      BY <1>3, <1>7, <1>8, EveryTurn
    <2> QED
      BY <1>3, <2>1
  <1>11. h[2 * K] = [tag |-> -1, data |-> flat(K)]
    BY <1>9, <1>10
  <1>12. h[L].data = flat(K)
    <2>1. CASE L = 2 * K
      BY <1>11, <2>1
    <2>2. CASE L = 2 * K + 1
      <3>1. 2 * K \in 0..(L - 1)
        BY <1>3, <2>2
      <3>2. h[L] = TagTurn([tag |-> -1, data |-> flat(K)], integers[2 * K + 1])
        BY <1>2, <1>11, <2>2, <3>1
      <3> QED
        BY <3>2 DEF TagTurn
    <2> QED
      BY <1>3, <2>1, <2>2
  <1> QED
    BY <1>2, <1>12 DEF flat, K

LEMMA SecondWalk ==
    ASSUME NEW integers \in Seq(Nat)
    PROVE  FlattenSeq(PairsTo(integers, Pairs(integers))) =
               IF RUNESTONE_MAGIC_NUMBER \in DOMAIN extract_all_tags(integers)
               THEN extract_all_tags(integers)[RUNESTONE_MAGIC_NUMBER] ELSE <<>>
  <1> DEFINE K == Pairs(integers)
             tags == {integers[2 * k - 1] : k \in 1..K}
             flat(n) == FlattenSeq(PairsTo(integers, n))
  <1>1. DOMAIN extract_all_tags(integers) = tags
    BY DEF extract_all_tags, Pairs
  <1>2. RUNESTONE_MAGIC_NUMBER \in tags =>
           extract_all_tags(integers)[RUNESTONE_MAGIC_NUMBER] = flat(K)
    BY DEF extract_all_tags, Pairs, PairsTo, OfPair
  <1>3. RUNESTONE_MAGIC_NUMBER \notin tags => flat(K) = <<>>
    <2> HAVE RUNESTONE_MAGIC_NUMBER \notin tags
    <2>1. \A k \in 1..K : OfPair(integers, k) = <<>>
      BY DEF OfPair
    <2>2. K \in Nat
      BY PairsTyped
    <2> DEFINE good == {n \in 0..K : flat(n) = <<>>}
    <2>3. 0 \in good
      <3>1. PairsTo(integers, 0) = <<>>
        BY DEF PairsTo
      <3> QED
        BY <2>2, <3>1, FlattenEmpty
    <2>4. \A n \in 0..(K - 1) : n \in good => n + 1 \in good
      <3> TAKE n \in 0..(K - 1)
      <3> HAVE n \in good
      <3>1. n \in 0..K /\ n + 1 \in 0..K /\ n + 1 \in 1..K
        BY <2>2
      <3>2. PairsTo(integers, n) \in Seq(Seq(Nat))
        BY <3>1, PairsTyped
      <3>3. PairsTo(integers, n + 1) = Append(PairsTo(integers, n), <<>>)
        BY <2>1, <3>1, PairsTyped
      <3>4. flat(n + 1) = flat(n) \o <<>>
        BY <3>2, <3>3, EmptySeq, FlattenAppend
      <3>5. <<>> \o <<>> = <<>>
        OBVIOUS
      <3> QED
        BY <3>1, <3>4, <3>5
    <2>5. \A n \in good : flat(n) = <<>>
      OBVIOUS
    <2> HIDE DEF good
    <2>6. 0..K \subseteq good
      BY <2>2, <2>3, <2>4, EveryTurn
    <2> QED
      BY <2>2, <2>5, <2>6
  <1> QED
    BY <1>1, <1>2, <1>3

\* The runestone of an output whose script is OP_RETURN OP_13 and one push
OnePush(payload) == <<[magic |-> TRUE, instructions |-> <<[kind |-> "push", bytes |-> payload]>>]>>
Agrees(read) ==
    read.ok => read.value.protocol_data =
                   IF RUNESTONE_MAGIC_NUMBER \in DOMAIN read.value.all_tags
                   THEN read.value.all_tags[RUNESTONE_MAGIC_NUMBER] ELSE <<>>

LEMMA OnePushRead ==
    ASSUME NEW payload \in Seq(Bytes)
    PROVE  /\ SelectInSeq(OnePush(payload), LAMBDA o : o.magic) = 1
           /\ extract_payload_from_instructions(OnePush(payload)[1].instructions) = Gives(payload)
  <1> DEFINE push == [kind |-> "push", bytes |-> payload]
             outputs == OnePush(payload)
             I == {i \in 1..Len(outputs) : outputs[i].magic}
  <1>1. Len(outputs) = 1 /\ outputs[1].magic /\ outputs[1].instructions = <<push>>
    BY DEF OnePush
  <1>2. I = {1}
    BY <1>1
  <1>3. SelectInSeq(outputs, LAMBDA o : o.magic) = IF I # {} THEN Min(I) ELSE 0
    BY DEF SelectInSeq
  <1>4. Min({1}) = 1
    BY DEF Min
  <1>5. FlattenSeq(<<payload>>) = payload
    <2>1. <<>> \in Seq(Seq(Bytes)) /\ Append(<<>>, payload) = <<payload>>
      BY EmptySeq
    <2>2. FlattenSeq(Append(<<>>, payload)) = FlattenSeq(<<>>) \o payload
      BY <2>1, FlattenAppend
    <2>3. <<>> \o payload = payload
      OBVIOUS
    <2> QED
      BY <2>1, <2>2, <2>3, FlattenEmpty
  <1>6. extract_payload_from_instructions(<<push>>) = Gives(payload)
    <2>1. DOMAIN <<push>> = {1} /\ <<push>>[1] = push
      OBVIOUS
    <2>2. [i \in DOMAIN <<push>> |-> <<push>>[i].bytes] = <<payload>>
      OBVIOUS
    <2>3. ~\E i \in DOMAIN <<push>> : <<push>>[i].kind # "push"
      OBVIOUS
    <2> QED
      BY <1>5, <2>2, <2>3, Zenon DEF extract_payload_from_instructions
  <1> QED
    BY <1>1, <1>2, <1>3, <1>4, <1>6

DecodedAt(outputs, at) ==
    IF at = 0 THEN Fails
    ELSE LET payload == extract_payload_from_instructions(outputs[at].instructions)
             read    == IF payload.ok THEN decode_integers(payload.value) ELSE Fails
             data    == extract_protocol_data(read.value)
             message == [i \in 1..(Len(data) - 1) |-> AsByte(data[i + 1])]
         IN  IF ~read.ok THEN Fails
             ELSE Gives([vout          |-> at - 1,
                         raw_integers  |-> read.value,
                         protocol_data |-> data,
                         all_tags      |-> extract_all_tags(read.value),
                         protostone    |-> IF data = <<>> THEN Decoded("none", "none", FALSE)
                                           ELSE decode_protostone(data[1], message)])

LEMMA WalksAgree == \A payload \in Seq(Bytes) : Agrees(decode_runestone(OnePush(payload)))
  <1> TAKE payload \in Seq(Bytes)
  <1> DEFINE outputs == OnePush(payload)
             read == decode_integers(payload)
             data == extract_protocol_data(read.value)
             message == [i \in 1..(Len(data) - 1) |-> AsByte(data[i + 1])]
             stone == [vout          |-> 1 - 1,
                       raw_integers  |-> read.value,
                       protocol_data |-> data,
                       all_tags      |-> extract_all_tags(read.value),
                       protostone    |-> IF data = <<>> THEN Decoded("none", "none", FALSE)
                                         ELSE decode_protostone(data[1], message)]
  <1>1. decode_runestone(outputs) = IF ~read.ok THEN Fails ELSE Gives(stone)
    <2>1. ~(1 = 0) /\ Gives(payload).ok /\ Gives(payload).value = payload
      BY DEF Gives
    <2>2. decode_runestone(outputs) = DecodedAt(outputs, SelectInSeq(outputs, LAMBDA o : o.magic))
      BY DEF decode_runestone, DecodedAt
    <2>3. decode_runestone(outputs) = DecodedAt(outputs, 1)
      BY <2>2, OnePushRead
    <2>4. extract_payload_from_instructions(outputs[1].instructions) = Gives(payload)
      BY OnePushRead
    <2> HIDE DEF outputs
    <2>5. DecodedAt(outputs, 1) = IF ~read.ok THEN Fails ELSE Gives(stone)
      BY <2>1, <2>4, Zenon DEF DecodedAt
    <2> QED
      BY <2>3, <2>5, Zenon
  <1>2. read \in Results
    BY IntegersRead
  <1> HIDE DEF outputs, read
  <1>3. CASE ~read.ok
    BY <1>1, <1>3 DEF Agrees, Fails, outputs
  <1>4. CASE read.ok
    <2>1. read.value \in Seq(Nat)
      BY <1>2, <1>4, ResultRead
    <2>2. decode_runestone(outputs).value.protocol_data = data
          /\ decode_runestone(outputs).value.all_tags = extract_all_tags(read.value)
      BY <1>1, <1>4 DEF Gives
    <2>3. data = IF RUNESTONE_MAGIC_NUMBER \in DOMAIN extract_all_tags(read.value)
                 THEN extract_all_tags(read.value)[RUNESTONE_MAGIC_NUMBER] ELSE <<>>
      BY <2>1, FirstWalk, SecondWalk
    <2> HIDE DEF data
    <2> QED
      BY <2>2, <2>3, Zenon DEF Agrees, outputs
  <1> QED
    BY <1>3, <1>4

-----------------------------------------------------------------------------
(* Theorems *)

\* Nothing that is printed is lost: however `wallet create`, `restore`, `info` and the
\* other commands of any number of users interleave, overwrite the file and are
\* killed, an address that was printed is of a mnemonic that the user was given, or
\* whose creator has written it and was cut off or is about to print it.
THEOREM PrintedKeysAreKept == Spec => []KeysNotLost
  <1>1. CliInv => KeysNotLost
    <2> SUFFICES ASSUME CliInv, NEW seed \in shown
                 PROVE  \/ seed \in known \cup cutOff
                        \/ \E p \in Processes : Has(proc[p].plan, "report") /\ proc[p].seed = seed
      BY DEF KeysNotLost
    <2>1. Safe(seed)
      BY DEF CliInv, KeyInv
    <2>2. ASSUME NEW p \in Processes, Printing(proc[p])
          PROVE  Has(proc[p].plan, "report")
      <3>1. Ordered(proc[p].plan) /\ proc[p].plan # <<>> /\ proc[p].plan[1].do = "report"
        BY <2>2 DEF CliInv, ProcInv, ProcOk, Printing
      <3>2. proc[p].plan \in Seq(Steps)
        BY <3>1 DEF Ordered
      <3>3. 1 \in DOMAIN proc[p].plan
        BY <3>1, <3>2, EmptySeq
      <3> QED
        BY <3>1, <3>3 DEF Has
    <2> QED
      BY <2>1, <2>2 DEF Safe
  <1> QED
    BY <1>1, InitCli, NextCli, PTL DEF Spec

\* Whatever the counts of addresses are, as long as signing looks through those that
\* are spent: a coin that a command selects by itself is one it can sign for, with
\* the key that the coin is paid to.
THEOREM OwnCoinsAreSigned == Spec => []CoinsCanBeSigned
  <1>1. CliInv => CoinsCanBeSigned
    BY DEF CliInv, ProcInv, ProcOk, CoinsOk, CoinsCanBeSigned
  <1> QED
    BY <1>1, InitCli, NextCli, PTL DEF Spec

\* Of every way a reply can be read, only those the property names make a command say
\* that a transaction was sent which the node did not accept.
THEOREM SentMeansAccepted == Spec => []SentIsAccepted
  <1>1. CliInv => SentIsAccepted
    BY DEF CliInv, ProcInv, ProcOk, SentOk, SentIsAccepted
  <1> QED
    BY <1>1, InitCli, NextCli, PTL DEF Spec

\* Whatever the lengths of the mnemonics and of a line of the armor are: the keystore
\* in the file, whichever of the commands that overlap wrote it, opens with its
\* passphrase and gives its mnemonic. The end of the armor that is written is where
\* the reader looks for it, and what is before it is the text in base64.
THEOREM KeystoresOpen == Spec => []KeystoreOpens
  <1>1. ASSUME NEW seed \in Seeds, NEW pass \in Passes
        PROVE  decrypt_mnemonic(Keystore(seed, pass), pass) = {seed}
               /\ Keystore(seed, pass).encrypted.pass = pass /\ Keystore(seed, pass).seed = seed
    <2> DEFINE size == PhraseLength[seed] + TagSize
               k == Keystore(seed, pass)
    <2>1. size \in Nat
      BY CliAssumption, WalletAssumption
    <2>2. /\ k.encrypted = [seed |-> seed, pass |-> pass, size |-> size]
          /\ k.armored = write(size, TRUE) /\ k.seed = seed
      BY DEF Keystore, encrypt
    <2> HIDE DEF size, k
    <2>3. decode(k.armored) = {size}
      BY <2>1, <2>2, ArmorReadsBack
    <2>4. decrypt(k.encrypted, size, pass) = {seed}
      BY <2>2 DEF decrypt
    <2>5. decrypt_mnemonic(k, pass) = {seed}
      BY <2>3, <2>4 DEF decrypt_mnemonic
    <2> QED
      BY <2>2, <2>5 DEF k
  <1>2. DataInv => KeystoreOpens
    BY <1>1 DEF DataInv, KeystoreOpens
  <1> QED
    BY <1>2, DataAlways, PTL

\* Whatever the width of an integer, the bits of a byte that count and the payload of
\* a runestone are: decode_varint ends where the LEB128 format does, refuses what the
\* format has no end for, or no end in time, and gives the value of the format, modulo
\* what an integer can hold.
THEOREM VarintsExact == Spec => []VarintExact
  <1>1. DataInv => VarintExact
    <2> SUFFICES ASSUME DataInv, NEW p \in Processes
                 PROVE  ExactVarint(proc[p].payload)
      BY Zenon DEF VarintExact, ExactVarint, LastBytes
    <2>1. proc[p].payload \in Seq(Bytes)
      BY DEF DataInv, DataOk
    <2> QED
      BY <2>1, VarintIsExact
  <1> QED
    BY <1>1, DataAlways, PTL

\* Of every payload: what the operation of a protostone is read from, the values of
\* tag 13 that one loop keeps, is what the listing of all tags shows for that tag,
\* in the same order, and an odd last integer is in neither.
THEOREM ReadingsAgree == Spec => []OneReading
  <1>1. DataInv => OneReading
    <2> SUFFICES ASSUME DataInv, NEW p \in Processes
                 PROVE  Agrees(decode_runestone(OnePush(proc[p].payload)))
      BY Zenon DEF OneReading, Agrees, OnePush
    <2>1. proc[p].payload \in Seq(Bytes)
      BY DEF DataInv, DataOk
    <2> QED
      BY <2>1, WalksAgree
  <1> QED
    BY <1>1, DataAlways, PTL
=============================================================================
