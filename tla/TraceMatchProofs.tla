-------------------------- MODULE TraceMatchProofs ---------------------------
(***************************************************************************)
(* Proofs about the rows that are derived from a trace, for any purses,    *)
(* any number of protostones and calls, any nesting and any amounts.       *)
(***************************************************************************)
EXTENDS TraceMatch, SequenceTheorems, WellFoundedInduction, TLAPS

-----------------------------------------------------------------------------
(* Numbers *)

\* A set of natural numbers that is not empty has a least one.
LEMMA LeastNumber ==
    ASSUME NEW T \in SUBSET Nat, T # {}
    PROVE  \E m \in T : \A n \in T : m <= n
  <1> DEFINE R == OpToRel(<, Nat)
  <1>1. \A x, y \in Nat : x < y => <<x, y>> \in R
    BY DEF OpToRel
  <1>2. IsWellFoundedOn(R, Nat)
    BY NatLessThanWellFounded
  <1> HIDE DEF R
  <1>3. PICK m \in T : \A n \in T : ~(<<n, m>> \in R)
    BY <1>2, WFMin
  <1>4. \A n \in T : ~(n < m)
    BY <1>1, <1>3
  <1> QED
    BY <1>4, \A n \in T : n \in Nat /\ m \in Nat, SMT

\* What holds at the start and is kept by each turn holds after every turn.
LEMMA EveryTurn ==
    ASSUME NEW N \in Nat, NEW S, 0 \in S, \A n \in 0..(N - 1) : n \in S => n + 1 \in S
    PROVE  0..N \subseteq S
  <1> DEFINE bad == {n \in 0..N : n \notin S}
  <1>1. SUFFICES ASSUME bad # {} PROVE FALSE
    OBVIOUS
  <1>2. PICK m \in bad : \A n \in bad : m <= n
    <2>1. bad \in SUBSET Nat
      OBVIOUS
    <2> HIDE DEF bad
    <2> QED
      BY <1>1, <2>1, LeastNumber
  <1>3. m - 1 \in 0..(N - 1) /\ (m - 1) + 1 = m /\ ~(m <= m - 1)
    OBVIOUS
  <1>4. m - 1 \in S
    BY <1>2, <1>3
  <1> QED
    BY <1>3, <1>4

LEMMA LeastIn ==
    ASSUME NEW T \in SUBSET Nat, T # {}
    PROVE  Min(T) \in T /\ \A n \in T : Min(T) <= n
  BY LeastNumber DEF Min

LEMMA LeastIs ==
    ASSUME NEW T \in SUBSET Nat, NEW m \in T, \A n \in T : m <= n
    PROVE  Min(T) = m
  <1>1. Min(T) \in T /\ Min(T) <= m
    BY LeastIn
  <1>2. m <= Min(T) /\ m \in Nat /\ Min(T) \in Nat
    BY <1>1
  <1> QED
    BY <1>1, <1>2

LEMMA LesserOf ==
    ASSUME NEW a \in Nat, NEW b \in Nat
    PROVE  Min({a, b}) = IF a <= b THEN a ELSE b
  BY DEF Min

\* A function defined by recursion from 0 to L exists.
Recursion(L, base, f, g) == g = [n \in 0..L |-> IF n = 0 THEN base ELSE f[<<n, g[n - 1]>>]]

LEMMA RecursionExists ==
    ASSUME NEW L \in Nat, NEW A, NEW base \in A, NEW f \in [(1..L) \X A -> A]
    PROVE  \E g \in [0..L -> A] : Recursion(L, base, f, g)
  <1> DEFINE good == {m \in 0..L : \E g \in [0..m -> A] : Recursion(m, base, f, g)}
  <1>1. 0 \in good
    <2> DEFINE h == [n \in 0..0 |-> base]
    <2>1. h \in [0..0 -> A] /\ Recursion(0, base, f, h)
      BY DEF Recursion
    <2> HIDE DEF h
    <2> QED
      BY <2>1
  <1>2. ASSUME NEW m \in 0..(L - 1), m \in good PROVE m + 1 \in good
    <2>1. PICK g \in [0..m -> A] : Recursion(m, base, f, g)
      BY <1>2
    <2> DEFINE h == [n \in 0..(m + 1) |-> IF n <= m THEN g[n] ELSE f[<<m + 1, g[m]>>]]
    <2>2. m \in Nat /\ m + 1 \in 1..L /\ g[m] \in A /\ <<m + 1, g[m]>> \in (1..L) \X A
      BY <2>1
    <2>3. f[<<m + 1, g[m]>>] \in A
      BY <2>2
    <2>4. h \in [0..(m + 1) -> A]
      BY <2>1, <2>2, <2>3
    <2>5. \A n \in 0..m : h[n] = g[n]
      BY <2>2
    <2>6. h[m + 1] = f[<<m + 1, g[m]>>]
      BY <2>2
    <2>7. DOMAIN h = 0..(m + 1)
      OBVIOUS
    <2>8. h = [n \in 0..(m + 1) |-> h[n]]
      OBVIOUS
    <2> HIDE DEF h
    <2>9. ASSUME NEW n \in 0..(m + 1)
          PROVE  h[n] = IF n = 0 THEN base ELSE f[<<n, h[n - 1]>>]
      <3>1. CASE n = m + 1
        <4>1. (m + 1) - 1 = m /\ m \in 0..m /\ m + 1 # 0
          BY <2>2
        <4>2. h[m] = g[m]
          BY <2>5, <4>1
        <4> QED
          BY <2>6, <3>1, <4>1, <4>2
      <3>2. CASE n # m + 1
        <4>1. n \in 0..m /\ (n # 0 => n - 1 \in 0..m)
          BY <2>2, <3>2
        <4>2. g[n] = IF n = 0 THEN base ELSE f[<<n, g[n - 1]>>]
          BY <2>1, <4>1 DEF Recursion
        <4> QED
          BY <2>5, <4>1, <4>2
      <3> QED
        BY <3>1, <3>2
    <2>10. Recursion(m + 1, base, f, h)
      BY <2>8, <2>9 DEF Recursion
    <2>11. m + 1 \in 0..L
      BY <2>2
    <2> QED
      BY <2>4, <2>10, <2>11
  <1> HIDE DEF good
  <1>3. 0..L \subseteq good
    BY <1>1, <1>2, EveryTurn
  <1>4. L \in good
    BY <1>3
  <1> QED
    BY <1>4 DEF good

-----------------------------------------------------------------------------
(* What lists hold *)

TokenSet == ToSet(Tokens)
Lists == Seq([id : TokenSet, value : Nat])
Cap(n) == Min({n, AmountMax})

LEMMA TokensAre == TokenSet = {"t0", "t1", "lp", "fr"}
  BY DEF TokenSet, ToSet, Tokens

LEMMA CapIs ==
    /\ AmountMax \in Nat \ {0}
    /\ \A n \in Nat : /\ Cap(n) = IF n <= AmountMax THEN n ELSE AmountMax
                      /\ Cap(n) \in 0..AmountMax
  <1>1. AmountMax \in Nat \ {0}
    BY TraceAssumption
  <1>2. \A n \in Nat : Cap(n) = IF n <= AmountMax THEN n ELSE AmountMax
    BY <1>1, LesserOf DEF Cap
  <1> QED
    BY <1>1, <1>2

LEMMA ListIs ==
    ASSUME NEW s \in Lists
    PROVE  /\ Len(s) \in Nat /\ DOMAIN s = 1..Len(s)
           /\ \A n \in 1..Len(s) : s[n].id \in TokenSet /\ s[n].value \in Nat
  <1>1. Len(s) \in Nat /\ DOMAIN s = 1..Len(s)
    BY LenProperties DEF Lists
  <1>2. \A n \in 1..Len(s) : s[n] \in [id : TokenSet, value : Nat]
    BY ElementOfSeq DEF Lists
  <1> QED
    BY <1>1, <1>2

\* The function that Total is the last value of
Totals(alkanes, id, g) ==
    g = [n \in 0..Len(alkanes) |->
            IF n = 0 THEN 0
            ELSE IF alkanes[n].id = id THEN Min({g[n - 1] + alkanes[n].value, AmountMax})
            ELSE g[n - 1]]

\* what makes it so
TotalSteps(alkanes, id, g) ==
    /\ g \in [0..Len(alkanes) -> 0..AmountMax]
    /\ g[0] = 0 /\ Total(alkanes, id) = g[Len(alkanes)]
    /\ \A n \in 1..Len(alkanes) :
          g[n] = IF alkanes[n].id = id THEN Cap(g[n - 1] + alkanes[n].value) ELSE g[n - 1]

LEMMA TotalTurns ==
    ASSUME NEW alkanes \in Lists, NEW id
    PROVE  \E g : TotalSteps(alkanes, id, g)
  <1> DEFINE L == Len(alkanes)
             A == 0..AmountMax
             f == [p \in (1..L) \X A |->
                     IF alkanes[p[1]].id = id THEN Cap(p[2] + alkanes[p[1]].value) ELSE p[2]]
  <1>1. L \in Nat /\ \A n \in 1..L : alkanes[n].value \in Nat
    BY ListIs
  <1>2. 0 \in A /\ \A n \in 1..L, a \in A : Cap(a + alkanes[n].value) \in A
    BY <1>1, CapIs
  <1>3. f \in [(1..L) \X A -> A]
    BY <1>2
  <1>4. \A n \in 1..L, a \in A :
          f[<<n, a>>] = IF alkanes[n].id = id THEN Cap(a + alkanes[n].value) ELSE a
    OBVIOUS
  <1> HIDE DEF f, A, L
  <1>5. PICK g \in [0..L -> A] : Recursion(L, 0, f, g)
    BY <1>1, <1>2, <1>3, RecursionExists
  <1>6. \A h : Totals(alkanes, id, h) <=> h = [n \in 0..L |->
            IF n = 0 THEN 0
            ELSE IF alkanes[n].id = id THEN Cap(h[n - 1] + alkanes[n].value)
            ELSE h[n - 1]]
    BY DEF Totals, Cap, L
  <1>7. Totals(alkanes, id, g)
    <2>1. g = [n \in 0..L |-> g[n]]
      OBVIOUS
    <2>2. ASSUME NEW n \in 0..L
          PROVE  g[n] = IF n = 0 THEN 0
                        ELSE IF alkanes[n].id = id THEN Cap(g[n - 1] + alkanes[n].value)
                        ELSE g[n - 1]
      <3>1. g[n] = IF n = 0 THEN 0 ELSE f[<<n, g[n - 1]>>]
        BY <1>5 DEF Recursion
      <3>2. CASE n # 0
        <4>1. n \in 1..L /\ n - 1 \in 0..L
          BY <1>1, <3>2
        <4>2. g[n - 1] \in A
          BY <4>1
        <4> QED
          BY <1>4, <3>1, <4>1, <4>2
      <3> QED
        BY <3>1, <3>2
    <2> QED
      BY <1>6, <2>1, <2>2
  <1> DEFINE h == CHOOSE h : Totals(alkanes, id, h)
  <1>8. Totals(alkanes, id, h)
    BY <1>7, Zenon
  <1>9. Total(alkanes, id) = h[L]
    BY DEF Total, Totals, L
  <1> HIDE DEF h
  <1>10. h[0] = 0 /\ \A n \in 1..L :
            h[n] = IF alkanes[n].id = id THEN Cap(h[n - 1] + alkanes[n].value) ELSE h[n - 1]
    <2>1. h = [n \in 0..L |->
            IF n = 0 THEN 0
            ELSE IF alkanes[n].id = id THEN Cap(h[n - 1] + alkanes[n].value)
            ELSE h[n - 1]]
      BY <1>6, <1>8
    <2> QED
      BY <1>1, <2>1
  <1>11. h \in [0..L -> A]
    <2> DEFINE good == {n \in 0..L : h[n] \in A}
    <2>1. 0 \in good
      BY <1>1, <1>2, <1>10
    <2>2. \A n \in 0..(L - 1) : n \in good => n + 1 \in good
      <3> TAKE n \in 0..(L - 1)
      <3>1. n + 1 \in 1..L /\ n + 1 \in 0..L /\ (n + 1) - 1 = n
        BY <1>1
      <3>2. h[n + 1] = IF alkanes[n + 1].id = id THEN Cap(h[n] + alkanes[n + 1].value) ELSE h[n]
        BY <1>10, <3>1
      <3> QED
        BY <1>2, <3>1, <3>2
    <2> HIDE DEF good
    <2>3. 0..L \subseteq good
      BY <1>1, <2>1, <2>2, EveryTurn
    <2>4. \A n \in 0..L : h[n] \in A
      BY <2>3 DEF good
    <2>5. h = [n \in 0..L |-> h[n]]
      BY <1>6, <1>8
    <2> QED
      BY <2>4, <2>5
  <1> QED
    BY <1>9, <1>10, <1>11 DEF L, A, TotalSteps

LEMMA TotalEmpty == << >> \in Lists /\ \A id : Total(<< >>, id) = 0
  <1>1. << >> \in Lists /\ Len(<< >>) = 0
    BY EmptySeq DEF Lists
  <1> QED
    BY <1>1, TotalTurns DEF TotalSteps

LEMMA TotalIn ==
    ASSUME NEW s \in Lists, NEW id
    PROVE  Total(s, id) \in 0..AmountMax /\ Total(s, id) \in Nat
  BY TotalTurns, ListIs, CapIs, SMTT(30) DEF TotalSteps

LEMMA TotalAppend ==
    ASSUME NEW s \in Lists, NEW e \in [id : TokenSet, value : Nat], NEW id
    PROVE  /\ Append(s, e) \in Lists
           /\ Total(Append(s, e), id) =
                IF e.id = id THEN Cap(Total(s, id) + e.value) ELSE Total(s, id)
  <1> DEFINE u == Append(s, e)
             L == Len(s)
  <1>1. /\ u \in Lists /\ Len(u) = L + 1 /\ u[L + 1] = e /\ L \in Nat
        /\ \A n \in 1..L : u[n] = s[n]
    BY AppendProperties, ListIs DEF Lists
  <1> HIDE DEF u
  <1>2. PICK g : TotalSteps(s, id, g)
    BY TotalTurns, Zenon
  <1>3. PICK h : TotalSteps(u, id, h)
    BY <1>1, TotalTurns, Zenon
  <1>4. /\ g \in [0..L -> 0..AmountMax] /\ h \in [0..(L + 1) -> 0..AmountMax]
        /\ g[0] = 0 /\ Total(s, id) = g[L] /\ h[0] = 0 /\ Total(u, id) = h[L + 1]
        /\ \A n \in 1..L :
              g[n] = IF s[n].id = id THEN Cap(g[n - 1] + s[n].value) ELSE g[n - 1]
        /\ \A n \in 1..(L + 1) :
              h[n] = IF u[n].id = id THEN Cap(h[n - 1] + u[n].value) ELSE h[n - 1]
    BY <1>1, <1>2, <1>3 DEF TotalSteps
  <1> HIDE DEF L
  <1>5. h[L] = g[L]
    <2> DEFINE same == {n \in 0..L : h[n] = g[n]}
    <2>1. 0 \in same
      BY <1>1, <1>4
    <2>2. \A n \in 0..(L - 1) : n \in same => n + 1 \in same
      <3> TAKE n \in 0..(L - 1)
      <3>1. n + 1 \in 1..L /\ n + 1 \in 1..(L + 1) /\ n + 1 \in 0..L /\ (n + 1) - 1 = n
        BY <1>1
      <3>2. g[n + 1] = IF s[n + 1].id = id THEN Cap(g[n] + s[n + 1].value) ELSE g[n]
        BY <1>4, <3>1
      <3>3. h[n + 1] = IF u[n + 1].id = id THEN Cap(h[n] + u[n + 1].value) ELSE h[n]
        BY <1>4, <3>1
      <3> QED
        BY <1>1, <3>1, <3>2, <3>3
    <2> HIDE DEF same
    <2>3. 0..L \subseteq same
      BY <1>1, <2>1, <2>2, EveryTurn
    <2> QED
      BY <1>1, <2>3 DEF same
  <1>6. L + 1 \in 1..(L + 1) /\ (L + 1) - 1 = L
    BY <1>1
  <1>7. h[L + 1] = IF e.id = id THEN Cap(h[L] + e.value) ELSE h[L]
    BY <1>1, <1>4, <1>6
  <1> QED
    BY <1>1, <1>4, <1>5, <1>7 DEF u

LEMMA TotalAmount ==
    ASSUME NEW s \in Lists, NEW id \in TokenSet, NEW n \in Nat
    PROVE  LET u == s \o Amount(id, n)
           IN  /\ u \in Lists
               /\ \A x : Total(u, x) = IF x = id THEN Cap(Total(s, x) + n) ELSE Total(s, x)
               /\ ToSet(u) = ToSet(s) \cup (IF n = 0 THEN {} ELSE {[id |-> id, value |-> n]})
  <1>1. CASE n = 0
    <2>1. s \o Amount(id, n) = s
      <3>1. Amount(id, n) = << >> /\ s \in Seq([id : TokenSet, value : Nat])
        BY <1>1 DEF Amount, Lists
      <3> QED
        BY <3>1, ConcatEmptySeq
    <2>2. \A x : Cap(Total(s, x) + n) = Total(s, x)
      BY <1>1, TotalIn, CapIs
    <2> QED
      BY <1>1, <2>1, <2>2
  <1>2. CASE n # 0
    <2> DEFINE e == [id |-> id, value |-> n]
    <2>1. e \in [id : TokenSet, value : Nat] /\ Amount(id, n) = <<e>>
      BY <1>2 DEF Amount
    <2>2. s \o <<e>> = Append(s, e)
      BY <2>1, AppendIsConcat DEF Lists
    <2>3. ToSet(Append(s, e)) = ToSet(s) \cup {e}
      <3>1. /\ Len(Append(s, e)) = Len(s) + 1 /\ Len(s) \in Nat
            /\ Append(s, e) \in Lists /\ Append(s, e)[Len(s) + 1] = e
            /\ \A k \in 1..Len(s) : Append(s, e)[k] = s[k]
        BY <2>1, AppendProperties, ListIs DEF Lists
      <3>2. DOMAIN s = 1..Len(s) /\ DOMAIN Append(s, e) = 1..(Len(s) + 1)
        BY <3>1, ListIs
      <3>3. ASSUME NEW k \in 1..(Len(s) + 1) PROVE k \in 1..Len(s) \/ k = Len(s) + 1
        BY <3>1
      <3>4. Len(s) + 1 \in 1..(Len(s) + 1) /\ \A k \in 1..Len(s) : k \in 1..(Len(s) + 1)
        BY <3>1
      <3> HIDE DEF e
      <3> QED
        BY <3>1, <3>2, <3>3, <3>4 DEF ToSet
    <2>4. \A x : Total(Append(s, e), x) = IF x = id THEN Cap(Total(s, x) + n) ELSE Total(s, x)
      BY <2>1, TotalAppend
    <2>5. Append(s, e) \in Lists
      BY <2>1, TotalAppend
    <2> HIDE DEF e
    <2>6. s \o Amount(id, n) = Append(s, e)
      BY <2>1, <2>2
    <2> QED
      BY <1>2, <2>3, <2>4, <2>5, <2>6 DEF e
  <1> QED
    BY <1>1, <1>2

\* A list that says of each token what there is of it, and has no entry of nothing
Filled(s) == s \in Lists /\ \A a \in ToSet(s) : a.value > 0

LEMMA NoneFilled == Filled(<< >>)
  BY TotalEmpty, DOMAIN << >> = {} DEF Filled, ToSet

LEMMA OneAmount ==
    ASSUME NEW id \in TokenSet, NEW n \in Nat
    PROVE  /\ Filled(Amount(id, n))
           /\ \A x : Total(Amount(id, n), x) = IF x = id THEN Cap(n) ELSE 0
           /\ n > 0 => [id |-> id, value |-> n] \in ToSet(Amount(id, n))
  <1> DEFINE u == << >> \o Amount(id, n)
  <1>1. Amount(id, n) \in Seq([id : TokenSet, value : Nat])
    <2>1. CASE n = 0
      BY <2>1, TotalEmpty DEF Amount, Lists
    <2>2. CASE n # 0
      <3>1. [id |-> id, value |-> n] \in [id : TokenSet, value : Nat]
        OBVIOUS
      <3> QED
        BY <2>2, <3>1 DEF Amount
    <2> QED
      BY <2>1, <2>2
  <1>2. u = Amount(id, n)
    BY <1>1, ConcatEmptySeq
  <1>3. /\ u \in Lists
        /\ \A x : Total(u, x) = IF x = id THEN Cap(Total(<< >>, x) + n) ELSE Total(<< >>, x)
        /\ ToSet(u) = ToSet(<< >>) \cup (IF n = 0 THEN {} ELSE {[id |-> id, value |-> n]})
    <2> DEFINE e == << >>
    <2>1. e \in Lists
      BY TotalEmpty
    <2> HIDE DEF e
    <2> QED
      BY <2>1, TotalAmount, ZenonT(30) DEF e
  <1> HIDE DEF u
  <1>4. ToSet(<< >>) = {}
    BY DOMAIN << >> = {} DEF ToSet
  <1>5. \A a \in ToSet(u) : a.value > 0
    BY <1>3, <1>4
  <1>6. \A x : Total(u, x) = IF x = id THEN Cap(n) ELSE 0
    BY <1>3, TotalEmpty
  <1>7. n > 0 => [id |-> id, value |-> n] \in ToSet(u)
    BY <1>3
  <1> QED
    BY <1>2, <1>3, <1>5, <1>6, <1>7 DEF Filled

LEMMA MoreAmount ==
    ASSUME NEW s, Filled(s), NEW id \in TokenSet, NEW n \in Nat
    PROVE  /\ Filled(s \o Amount(id, n))
           /\ \A x : Total(s \o Amount(id, n), x) =
                        IF x = id THEN Cap(Total(s, x) + n) ELSE Total(s, x)
           /\ n > 0 => [id |-> id, value |-> n] \in ToSet(s \o Amount(id, n))
  <1> DEFINE u == s \o Amount(id, n)
  <1>1. s \in Lists
    BY DEF Filled
  <1>2. /\ u \in Lists
        /\ \A x : Total(u, x) = IF x = id THEN Cap(Total(s, x) + n) ELSE Total(s, x)
        /\ ToSet(u) = ToSet(s) \cup (IF n = 0 THEN {} ELSE {[id |-> id, value |-> n]})
    BY <1>1, TotalAmount
  <1> HIDE DEF u
  <1>3. \A a \in ToSet(u) : a.value > 0
    BY <1>2 DEF Filled
  <1>4. n > 0 => [id |-> id, value |-> n] \in ToSet(u)
    BY <1>2
  <1> QED
    BY <1>2, <1>3, <1>4 DEF Filled, u

LEMMA TwoAmounts ==
    ASSUME NEW a \in TokenSet, NEW b \in TokenSet, a # b, NEW n \in Nat, NEW m \in Nat
    PROVE  LET u == Amount(a, n) \o Amount(b, m)
           IN  /\ Filled(u) /\ Total(u, a) = Cap(n) /\ Total(u, b) = Cap(m)
               /\ \A x : x \notin {a, b} => Total(u, x) = 0
  <1>1. Filled(Amount(a, n)) /\ \A x : Total(Amount(a, n), x) = IF x = a THEN Cap(n) ELSE 0
    BY OneAmount
  <1> DEFINE u == Amount(a, n) \o Amount(b, m)
             v == Amount(a, n)
  <1>2. /\ Filled(u)
        /\ \A x : Total(u, x) = IF x = b THEN Cap(Total(v, x) + m) ELSE Total(v, x)
    BY <1>1, MoreAmount, ZenonT(60)
  <1> HIDE DEF u, v
  <1>3. \A x : Total(v, x) = IF x = a THEN Cap(n) ELSE 0
    BY <1>1 DEF v
  <1> QED
    BY <1>2, <1>3 DEF u

LEMMA ListedIs ==
    ASSUME NEW hold \in [TokenSet -> Nat]
    PROVE  /\ Filled(Listed(hold))
           /\ \A id \in TokenSet : Total(Listed(hold), id) = Cap(hold[id])
  <1> DEFINE u == Amount("t0", hold["t0"]) \o Amount("t1", hold["t1"])
             v == u \o Amount("lp", hold["lp"])
             w == v \o Amount("fr", hold["fr"])
  <1>1. /\ hold["t0"] \in Nat /\ hold["t1"] \in Nat /\ hold["lp"] \in Nat /\ hold["fr"] \in Nat
        /\ {"t0", "t1", "lp", "fr"} \subseteq TokenSet
    BY TokensAre
  <1>2. /\ Filled(u) /\ Total(u, "t0") = Cap(hold["t0"]) /\ Total(u, "t1") = Cap(hold["t1"])
        /\ \A x : x \notin {"t0", "t1"} => Total(u, x) = 0
    BY <1>1, TwoAmounts
  <1> HIDE DEF u
  <1>3. /\ Filled(v)
        /\ \A x : Total(v, x) = IF x = "lp" THEN Cap(Total(u, x) + hold["lp"]) ELSE Total(u, x)
    BY <1>1, <1>2, MoreAmount, ZenonT(60)
  <1> HIDE DEF v
  <1>4. /\ Filled(w)
        /\ \A x : Total(w, x) = IF x = "fr" THEN Cap(Total(v, x) + hold["fr"]) ELSE Total(v, x)
    BY <1>1, <1>3, MoreAmount, ZenonT(60)
  <1> HIDE DEF w
  <1>5. \A id \in {"t0", "t1", "lp", "fr"} : Total(w, id) = Cap(hold[id])
    BY <1>1, <1>2, <1>3, <1>4
  <1>6. Listed(hold) = w
    BY DEF Listed, w, v, u
  <1> QED
    BY <1>4, <1>5, <1>6, TokensAre

\* What is in a list counts.
LEMMA TotalCounts ==
    ASSUME NEW s, Filled(s), NEW a \in ToSet(s)
    PROVE  Total(s, a.id) > 0
  <1> DEFINE L == Len(s)
             id == a.id
  <1>1. s \in Lists /\ L \in Nat /\ DOMAIN s = 1..L
    BY ListIs DEF Filled
  <1>2. PICK k \in 1..L : s[k] = a
    BY <1>1 DEF ToSet
  <1>3. a.value \in Nat /\ a.value > 0
    BY <1>1, <1>2, ListIs DEF Filled
  <1>4. PICK g : TotalSteps(s, id, g)
    BY <1>1, TotalTurns, Zenon
  <1>5. /\ g \in [0..L -> 0..AmountMax] /\ Total(s, id) = g[L]
        /\ \A n \in 1..L :
              g[n] = IF s[n].id = id THEN Cap(g[n - 1] + s[n].value) ELSE g[n - 1]
    BY <1>4 DEF TotalSteps
  <1>6. \A n \in 1..L : s[n].value \in Nat /\ n - 1 \in 0..L /\ n \in 0..L
    BY <1>1, ListIs
  <1> HIDE DEF L, id
  <1> DEFINE good == {n \in 0..L : n >= k => g[n] > 0}
  <1>7. 0 \in good
    BY <1>1, <1>2
  <1>8. ASSUME NEW n \in 0..(L - 1), n \in good PROVE n + 1 \in good
    <2>1. n + 1 \in 1..L /\ (n + 1) - 1 = n /\ n + 1 \in 0..L /\ n \in 0..L
      BY <1>1
    <2>2. g[n + 1] = IF s[n + 1].id = id THEN Cap(g[n] + s[n + 1].value) ELSE g[n]
      BY <1>5, <2>1
    <2>3. g[n] \in Nat /\ s[n + 1].value \in Nat
      <3>1. s[n + 1].value \in Nat
        BY <1>6, <2>1
      <3>2. g[n] \in 0..AmountMax
        BY <1>5, <2>1
      <3> QED
        BY <3>1, <3>2, CapIs
    <2>4. CASE n >= k
      BY <1>8, <2>1, <2>2, <2>3, <2>4, CapIs
    <2>5. CASE n + 1 = k
      <3>1. s[n + 1].id = id /\ s[n + 1].value > 0
        BY <1>2, <1>3, <2>5 DEF id
      <3> QED
        BY <2>1, <2>2, <2>3, <3>1, CapIs
    <2>6. CASE n + 1 < k
      BY <2>1, <2>6
    <2> QED
      BY <2>1, <2>4, <2>5, <2>6
  <1> HIDE DEF good
  <1>9. 0..L \subseteq good
    BY <1>1, <1>7, <1>8, EveryTurn
  <1>10. L \in good /\ L >= k
    BY <1>1, <1>9
  <1> QED
    BY <1>5, <1>10 DEF good, id

-----------------------------------------------------------------------------
(* The inductive invariant *)

Leaves == PoolOps \cup SubfrostOps
Ops == Leaves \cup {"other"}

Invokes == {i \in DOMAIN trace : trace[i].type = "invoke"}
Returns == {j \in DOMAIN trace : trace[j].type = "return"}
InvokesOf(v) == {i \in Invokes : trace[i].vout = v}
ReturnsOf(v) == {j \in Returns : trace[j].vout = v}

InvokeEvents ==
    [type : {"invoke"}, vout : 1..MaxVout, op : Ops, delegate : BOOLEAN, in : Lists,
     want : SUBSET Nat]
ReturnEvents == [type : {"return"}, vout : 1..MaxVout, ok : BOOLEAN, out : Lists]

\* What a list that is handed to a call of a kind holds
Asks(call) ==
    /\ call.delegate = (call.op \in PoolOps)
    /\ call.op \in {"create", "mint"} =>
          /\ Total(call.in, "t0") > 0 /\ Total(call.in, "t1") > 0 /\ Total(call.in, "lp") = 0
          /\ Len(call.in) = 2 /\ {call.in[1].id, call.in[2].id} = {"t0", "t1"}
    /\ call.op = "burn" =>
          Total(call.in, "lp") > 0 /\ Total(call.in, "t0") = 0 /\ Total(call.in, "t1") = 0
    /\ call.op = "swap" =>
          \/ Total(call.in, "t0") > 0 /\ Total(call.in, "t1") = 0
          \/ Total(call.in, "t1") > 0 /\ Total(call.in, "t0") = 0
    /\ call.op \in SubfrostOps => \A id \in TokenSet \ {"fr"} : Total(call.in, id) = 0

\* What a call that is no caller gives back if it succeeds
Bought(call) == IF Total(call.in, "t0") > 0 THEN "t1" ELSE "t0"
Gives(out, id) == \E a \in ToSet(out) : a.id = id
Gave(call, out) ==
    /\ call.op \in {"create", "mint"} =>
          /\ Total(out, "lp") > 0 /\ Total(out, "t1") = 0 /\ Total(out, "t0") < Total(call.in, "t0")
    /\ call.op = "burn" => Total(out, "t0") > 0 /\ Total(out, "t1") > 0 /\ Total(out, "lp") = 0
    /\ call.op = "swap" =>
          /\ \A id \in TokenSet : Total(out, id) > 0 <=> id = Bought(call)
          /\ \E a \in ToSet(out) :
                a.id = Bought(call) /\ (call.want = {} \/ a.value \in call.want)
    /\ call.op = "wrap" => Gives(out, "fr")
    /\ call.op = "unwrap" => Total(out, "fr") < Total(call.in, "fr")
    /\ call.op \in SubfrostOps => \A id \in TokenSet \ {"fr"} : Total(out, id) = 0

EventInv ==
    /\ trace \in Seq(InvokeEvents \cup ReturnEvents)
    /\ \A i \in DOMAIN trace : trace[i].vout \in done
    /\ \A i \in Invokes : Asks(trace[i])
    \* nothing is given back by a call that fails, and no list has an entry of nothing
    /\ \A j \in Returns :
          /\ ~trace[j].ok => trace[j].out = << >>
          /\ \A a \in ToSet(trace[j].out) : a.value > 0

\* The running calls: all but the innermost are callers, and each has what it handed
\* to the next one, which is all that it has, or nothing, unless it calls the pool.
Held(d, id) == stack[d].hold[id]
Taken(d, id) == In(stack[d].at, id)

StackInv ==
    /\ stack \in Seq([at : Nat, op : Ops, hold : [TokenSet -> Nat]])
    /\ stack # << >> => vout \in done
    /\ \A d \in DOMAIN stack :
          /\ stack[d].at \in InvokesOf(vout) /\ trace[stack[d].at].op = stack[d].op
          /\ d < Len(stack) => stack[d].op = "other"
          /\ d < Len(stack) => \A id \in TokenSet : Taken(d + 1, id) <= Held(d, id)
          /\ d < Len(stack) /\ stack[d + 1].op \notin PoolOps =>
                \/ \A id \in TokenSet \ {"fr"} : Taken(d + 1, id) = 0
                \/ \A id \in TokenSet : Taken(d + 1, id) = Cap(Held(d, id))
          /\ d = Len(stack) /\ stack[d].op \in Leaves => 
                /\ stack[d].at = Len(trace)
                /\ \A id \in TokenSet : Held(d, id) = Taken(d, id)
    /\ \A d, e \in DOMAIN stack : d < e => stack[d].at < stack[e].at

\* A call is running or answered, and a call of the pool or of Subfrost by the next event
OwnInv ==
    /\ DOMAIN own = Invokes \ {stack[d].at : d \in DOMAIN stack}
    /\ \A i \in DOMAIN own :
          /\ own[i] \in ReturnsOf(trace[i].vout)
          /\ i < own[i]
          /\ trace[i].op \in Leaves =>
                /\ own[i] = i + 1
                /\ trace[own[i]].ok => Gave(trace[i], trace[own[i]].out)
    /\ \A j \in Returns : \E i \in DOMAIN own : own[i] = j

\* With one pool call in a protostone that starts without a token, all that it ever
\* sees of the token is what that call gave, in one place at a time.
PoolCallsOf(v) == {i \in InvokesOf(v) : trace[i].op \in PoolOps}
Sole(v) == \A i, k \in PoolCallsOf(v) : i = k
Bare(v, id) ==
    \A k \in InvokesOf(v) : (\A l \in InvokesOf(v) : k <= l) => In(k, id) = 0
Gifts(v, id) == {0} \cup {Out(own[i], id) : i \in PoolCallsOf(v) \cap DOMAIN own}

GiftInv ==
    \A v \in done, id \in TokenSet \ {"fr"} : Sole(v) /\ Bare(v, id) =>
        /\ \A j \in ReturnsOf(v) : Out(j, id) \in Gifts(v, id)
        /\ v = vout => \A d \in DOMAIN stack :
              /\ Held(d, id) \in Gifts(v, id)
              /\ Held(d, id) # 0 => Taken(d, id) # 0 \/ \A e \in 1..(d - 1) : Held(e, id) = 0

\* and the change of a creation or a mint stays with the LP token
ChangeInv ==
    \A v \in done : Sole(v) /\ Bare(v, "lp") =>
        \A i \in PoolCallsOf(v) \cap DOMAIN own : trace[i].op \in {"create", "mint"} =>
            /\ \A j \in ReturnsOf(v) : Out(j, "lp") # 0 => Out(j, "t0") >= Out(own[i], "t0")
            /\ v = vout => \A d \in DOMAIN stack :
                  Held(d, "lp") # 0 => Held(d, "t0") >= Out(own[i], "t0")

\* Calls that only contain one another take less and less; if they hand on all they
\* hold, what comes back is what the innermost took or gave, or nothing.
Straight(v) == \A k \in InvokesOf(v), j \in ReturnsOf(v) : k < j
Equal(v) == \A k, l \in InvokesOf(v), id \in TokenSet : In(k, id) = In(l, id)
Innermost(v) == {i \in InvokesOf(v) : \A k \in InvokesOf(v) : k <= i}
NoneFailed(v) == \A j \in ReturnsOf(v) : trace[j].ok

ChainInv ==
    \A v \in done : Straight(v) =>
        /\ \A k, l \in InvokesOf(v) : k < l => \A id \in TokenSet : In(l, id) <= In(k, id)
        /\ v = vout => \A d \in DOMAIN stack : d < Len(stack) \/ ReturnsOf(v) = {} =>
              \A id \in TokenSet : Held(d, id) = Taken(d, id)
        /\ ReturnsOf(v) # {} => Innermost(v) \subseteq DOMAIN own
        /\ Equal(v) => \A i \in Innermost(v) \cap DOMAIN own :
              /\ \A j \in ReturnsOf(v) :
                    \/ \A id \in TokenSet : Out(j, id) = 0
                    \/ \A id \in TokenSet : Out(j, id) = In(i, id)
                    \/ \A id \in TokenSet : Out(j, id) = Out(own[i], id)
              /\ v = vout /\ stack # << >> =>
                    \/ \A id \in TokenSet : Held(Len(stack), id) = In(i, id)
                    \/ \A id \in TokenSet : Held(Len(stack), id) = Out(own[i], id)
              /\ NoneFailed(v) =>
                    /\ \A j \in ReturnsOf(v), id \in TokenSet : Out(j, id) = Out(own[i], id)
                    /\ v = vout /\ stack # << >> =>
                          \A id \in TokenSet : Held(Len(stack), id) = Out(own[i], id)

Tables(form) ==
    [form |-> form, swap |-> SwapRows, create |-> CreationRows, mint |-> MintRows,
     burn |-> BurnRows, wrap |-> WrapRows(form), unwrap |-> UnwrapRows(form)]
RowsInv == rows # << >> => stack = << >> /\ \E form \in Forms : rows = Tables(form)

TraceInv ==
    /\ EventInv /\ StackInv /\ OwnInv /\ GiftInv /\ ChangeInv /\ ChainInv /\ RowsInv

-----------------------------------------------------------------------------
(* What calls take and give *)

LEMMA OpsAre ==
    /\ Ops = {"create", "mint", "burn", "swap", "wrap", "unwrap", "other"}
    /\ PoolOps = {"create", "mint", "burn", "swap"} /\ SubfrostOps = {"wrap", "unwrap"}
  BY DEF Ops, Leaves, PoolOps, SubfrostOps

TwoOf(s, x, y) == Len(s) = 2 /\ s[1].id = x /\ s[2].id = y

LEMMA TwoIs ==
    ASSUME NEW x, NEW y, NEW n \in Nat \ {0}, NEW m \in Nat \ {0}
    PROVE  TwoOf(Amount(x, n) \o Amount(y, m), x, y)
  <1> DEFINE c == [id |-> x, value |-> n]
             d == [id |-> y, value |-> m]
  <1>1. Amount(x, n) = <<c>> /\ Amount(y, m) = <<d>>
    BY DEF Amount
  <1>2. c.id = x /\ d.id = y
    OBVIOUS
  <1> HIDE DEF c, d
  <1>3. <<c>> \in Seq({c, d}) /\ <<d>> \in Seq({c, d}) /\ Len(<<c>>) = 1 /\ Len(<<d>>) = 1
    OBVIOUS
  <1>4. /\ Len(<<c>> \o <<d>>) = 2
        /\ (<<c>> \o <<d>>)[1] = c /\ (<<c>> \o <<d>>)[2] = d
    BY <1>3, ConcatProperties
  <1> QED
    BY <1>1, <1>2, <1>4 DEF TwoOf

\* The list of a creation or a mint
Pair(s, a, b) ==
    /\ Filled(s) /\ Len(s) = 2 /\ {s[1].id, s[2].id} = {"t0", "t1"}
    /\ Total(s, "t0") = Cap(a) /\ Total(s, "t1") = Cap(b)
    /\ \A x : x \notin {"t0", "t1"} => Total(s, x) = 0

LEMMA PairIs ==
    ASSUME NEW a \in Nat \ {0}, NEW b \in Nat \ {0}
    PROVE  /\ Pair(Amount("t0", a) \o Amount("t1", b), a, b)
           /\ Pair(Amount("t1", b) \o Amount("t0", a), a, b)
  <1>1. {"t0", "t1"} \subseteq TokenSet
    BY TokensAre
  <1> DEFINE s == Amount("t0", a) \o Amount("t1", b)
             u == Amount("t1", b) \o Amount("t0", a)
  <1>3. /\ Filled(s) /\ Total(s, "t0") = Cap(a) /\ Total(s, "t1") = Cap(b)
        /\ \A x : x \notin {"t0", "t1"} => Total(s, x) = 0
    BY <1>1, TwoAmounts
  <1>4. TwoOf(s, "t0", "t1")
    BY TwoIs
  <1>5. /\ Filled(u) /\ Total(u, "t0") = Cap(a) /\ Total(u, "t1") = Cap(b)
        /\ \A x : x \notin {"t0", "t1"} => Total(u, x) = 0
    BY <1>1, TwoAmounts
  <1>6. TwoOf(u, "t1", "t0")
    BY TwoIs
  <1> HIDE DEF s, u
  <1>7. Pair(s, a, b) /\ Pair(u, a, b)
    BY <1>3, <1>4, <1>5, <1>6 DEF Pair, TwoOf
  <1> QED
    BY <1>7 DEF s, u

\* What may be handed over of what is held
Handed(op, r, hold) ==
    /\ Filled(r.in) /\ r.want \in SUBSET Nat
    /\ \A id \in TokenSet : Total(r.in, id) <= hold[id]
    /\ op \notin PoolOps =>
          \/ \A id \in TokenSet \ {"fr"} : Total(r.in, id) = 0
          \/ \A id \in TokenSet : Total(r.in, id) = Cap(hold[id])
    /\ Asks([op |-> op, delegate |-> op \in PoolOps, in |-> r.in])

LEMMA RequestIs ==
    ASSUME NEW hold \in [TokenSet -> Nat], NEW op \in Ops, NEW r \in Requests(op, hold)
    PROVE  Handed(op, r, hold)
  <1>0. /\ {"t0", "t1", "lp", "fr"} \subseteq TokenSet /\ MaxOut \in Nat
        /\ \A id \in TokenSet : hold[id] \in Nat
    BY TokensAre, TraceAssumption
  <1>1. CASE op \in {"create", "mint"}
    <2>a. /\ r.in \in Both("t0", 1..hold["t0"], "t1", 1..hold["t1"])
                    \cup Both("t1", 1..hold["t1"], "t0", 1..hold["t0"])
          /\ r.want = {}
      BY <1>1 DEF Requests
    <2>1. PICK a \in 1..hold["t0"], b \in 1..hold["t1"] :
             \/ r.in = Amount("t0", a) \o Amount("t1", b)
             \/ r.in = Amount("t1", b) \o Amount("t0", a)
      <3>1. CASE r.in \in Both("t0", 1..hold["t0"], "t1", 1..hold["t1"])
        BY <3>1, Zenon DEF Both
      <3>2. CASE r.in \in Both("t1", 1..hold["t1"], "t0", 1..hold["t0"])
        BY <3>2, Zenon DEF Both
      <3> QED
        BY <2>a, <3>1, <3>2
    <2>2. a \in Nat \ {0} /\ b \in Nat \ {0} /\ a <= hold["t0"] /\ b <= hold["t1"]
      BY <1>0
    <2>3. Pair(r.in, a, b)
      BY <2>1, <2>2, PairIs
    <2>4. Cap(a) \in 1..a /\ Cap(b) \in 1..b
      BY <2>2, CapIs
    <2>5. \A id \in TokenSet : Total(r.in, id) <= hold[id]
      BY <1>0, <2>2, <2>3, <2>4, TokensAre DEF Pair
    <2>6. Total(r.in, "t0") > 0 /\ Total(r.in, "t1") > 0 /\ Total(r.in, "lp") = 0
      BY <2>3, <2>4 DEF Pair
    <2> QED
      BY <1>1, <2>a, <2>3, <2>5, <2>6, OpsAre DEF Handed, Asks, Pair
  <1>2. CASE op = "burn"
    <2>1. PICK a \in 1..hold["lp"] : r.want = {} /\ r.in = Amount("lp", a)
      BY <1>2 DEF Requests
    <2>2. a \in Nat \ {0} /\ a <= hold["lp"]
      BY <1>0
    <2>3. Filled(r.in) /\ \A x : Total(r.in, x) = IF x = "lp" THEN Cap(a) ELSE 0
      <3>1. /\ Filled(Amount("lp", a))
            /\ \A x : Total(Amount("lp", a), x) = IF x = "lp" THEN Cap(a) ELSE 0
        BY <1>0, <2>2, OneAmount
      <3> QED
        BY <2>1, <3>1
    <2>4. Cap(a) \in 1..a
      BY <2>2, CapIs
    <2>5. \A id \in TokenSet : Total(r.in, id) <= hold[id]
      BY <1>0, <2>2, <2>3, <2>4
    <2> QED
      BY <1>2, <2>1, <2>3, <2>4, <2>5, OpsAre DEF Handed, Asks
  <1>3. CASE op = "swap"
    <2>1. PICK t \in {"t0", "t1"} : \E a \in 1..hold[t] : r.in = Amount(t, a)
      BY <1>3 DEF Requests
    <2>2. PICK a \in 1..hold[t] : r.in = Amount(t, a)
      BY <2>1
    <2>3. r.want \in SUBSET Nat
      BY <1>0, <1>3 DEF Requests
    <2>4. a \in Nat \ {0} /\ a <= hold[t] /\ t \in TokenSet
      BY <1>0
    <2>5. Filled(r.in) /\ \A x : Total(r.in, x) = IF x = t THEN Cap(a) ELSE 0
      <3>1. /\ Filled(Amount(t, a))
            /\ \A x : Total(Amount(t, a), x) = IF x = t THEN Cap(a) ELSE 0
        BY <2>4, OneAmount
      <3> QED
        BY <2>2, <3>1
    <2>6. Cap(a) \in 1..a
      BY <2>4, CapIs
    <2>7. \A id \in TokenSet : Total(r.in, id) <= hold[id]
      BY <1>0, <2>4, <2>5, <2>6
    <2> QED
      BY <1>3, <2>3, <2>4, <2>5, <2>6, <2>7, OpsAre DEF Handed, Asks
  <1>4. CASE op = "wrap"
    <2>1. r.want = {} /\ r.in = << >>
      BY <1>4 DEF Requests
    <2>2. Filled(r.in) /\ \A x : Total(r.in, x) = 0
      BY <2>1, NoneFilled, TotalEmpty
    <2> QED
      BY <1>0, <1>4, <2>1, <2>2, OpsAre DEF Handed, Asks
  <1>5. CASE op = "unwrap"
    <2>1. PICK a \in 1..hold["fr"] : r.want = {} /\ r.in = Amount("fr", a)
      BY <1>5 DEF Requests
    <2>2. a \in Nat \ {0} /\ a <= hold["fr"]
      BY <1>0
    <2>3. Filled(r.in) /\ \A x : Total(r.in, x) = IF x = "fr" THEN Cap(a) ELSE 0
      <3>1. /\ Filled(Amount("fr", a))
            /\ \A x : Total(Amount("fr", a), x) = IF x = "fr" THEN Cap(a) ELSE 0
        BY <1>0, <2>2, OneAmount
      <3> QED
        BY <2>1, <3>1
    <2>4. Cap(a) \in 1..a
      BY <2>2, CapIs
    <2>5. \A id \in TokenSet : Total(r.in, id) <= hold[id]
      BY <1>0, <2>2, <2>3, <2>4
    <2>6. \A id \in TokenSet \ {"fr"} : Total(r.in, id) = 0
      BY <2>3
    <2> QED
      BY <1>5, <2>1, <2>3, <2>5, <2>6, OpsAre DEF Handed, Asks
  <1>6. CASE op = "other"
    <2>1. r.want = {} /\ (r.in = << >> \/ r.in = Listed(hold))
      BY <1>6 DEF Requests
    <2>2. CASE r.in = << >>
      <3>1. Filled(r.in) /\ \A x : Total(r.in, x) = 0
        BY <2>2, NoneFilled, TotalEmpty
      <3> QED
        BY <1>0, <1>6, <2>1, <3>1, OpsAre DEF Handed, Asks
    <2>3. CASE r.in = Listed(hold)
      <3>1. Filled(r.in) /\ \A id \in TokenSet : Total(r.in, id) = Cap(hold[id])
        BY <2>3, ListedIs
      <3>2. \A id \in TokenSet : Cap(hold[id]) <= hold[id]
        BY <1>0, CapIs
      <3> QED
        BY <1>6, <2>1, <3>1, <3>2, OpsAre DEF Handed, Asks
    <2> QED
      BY <2>1, <2>2, <2>3
  <1> QED
    BY <1>1, <1>2, <1>3, <1>4, <1>5, <1>6, OpsAre

LEMMA AnswerIs ==
    ASSUME NEW call, call.op \in Leaves, call.in \in Lists, call.want \in SUBSET Nat,
           NEW out \in Answers(call)
    PROVE  Filled(out) /\ Gave(call, out)
  <1>0. /\ {"t0", "t1", "lp", "fr"} \subseteq TokenSet /\ MaxOut \in Nat
        /\ \A id : Total(call.in, id) \in 0..AmountMax /\ Total(call.in, id) \in Nat
    BY TokensAre, TraceAssumption, TotalIn
  <1>1. CASE call.op \in {"create", "mint"}
    <2>1. PICK n \in 1..MaxOut, c \in 0..(Total(call.in, "t0") - 1) :
              out = Amount("lp", n) \o Amount("t0", c)
      <3>1. out \in Both("lp", 1..MaxOut, "t0", 0..(Total(call.in, "t0") - 1))
        BY <1>1 DEF Answers
      <3> QED
        BY <3>1, Zenon DEF Both
    <2>2. n \in Nat \ {0} /\ c \in Nat /\ c < Total(call.in, "t0")
      BY <1>0
    <2>3. /\ Filled(out) /\ Total(out, "lp") = Cap(n) /\ Total(out, "t0") = Cap(c)
          /\ \A x : x \notin {"lp", "t0"} => Total(out, x) = 0
      <3> DEFINE u == Amount("lp", n) \o Amount("t0", c)
      <3>1. /\ Filled(u) /\ Total(u, "lp") = Cap(n) /\ Total(u, "t0") = Cap(c)
            /\ \A x : x \notin {"lp", "t0"} => Total(u, x) = 0
        BY <1>0, <2>2, TwoAmounts
      <3> HIDE DEF u
      <3> QED
        BY <2>1, <3>1 DEF u
    <2>4. Cap(n) > 0 /\ Cap(c) <= c /\ Cap(c) \in Nat
      BY <2>2, CapIs
    <2>5. Total(out, "t0") < Total(call.in, "t0")
      BY <1>0, <2>2, <2>3, <2>4
    <2> QED
      BY <1>1, <2>3, <2>4, <2>5, OpsAre DEF Gave
  <1>2. CASE call.op = "burn"
    <2>1. PICK n \in 1..MaxOut, m \in 1..MaxOut : out = Amount("t0", n) \o Amount("t1", m)
      <3>1. out \in Both("t0", 1..MaxOut, "t1", 1..MaxOut)
        BY <1>2 DEF Answers
      <3> QED
        BY <3>1, Zenon DEF Both
    <2>2. n \in Nat \ {0} /\ m \in Nat \ {0}
      BY <1>0
    <2>3. /\ Filled(out) /\ Total(out, "t0") = Cap(n) /\ Total(out, "t1") = Cap(m)
          /\ \A x : x \notin {"t0", "t1"} => Total(out, x) = 0
      <3> DEFINE u == Amount("t0", n) \o Amount("t1", m)
      <3>1. /\ Filled(u) /\ Total(u, "t0") = Cap(n) /\ Total(u, "t1") = Cap(m)
            /\ \A x : x \notin {"t0", "t1"} => Total(u, x) = 0
        BY <1>0, <2>2, TwoAmounts
      <3> HIDE DEF u
      <3> QED
        BY <2>1, <3>1 DEF u
    <2>4. Cap(n) > 0 /\ Cap(m) > 0
      BY <2>2, CapIs
    <2> QED
      BY <1>2, <2>3, <2>4, OpsAre DEF Gave
  <1>3. CASE call.op = "swap"
    <2> DEFINE t == Bought(call)
    <2>1. PICK n \in IF call.want = {} THEN 1..MaxOut ELSE call.want \ {0} : out = Amount(t, n)
      BY <1>3 DEF Answers, Bought
    <2>2. n \in Nat \ {0} /\ (call.want = {} \/ n \in call.want) /\ t \in TokenSet
      BY <1>0 DEF Bought
    <2> HIDE DEF t
    <2>3. /\ Filled(out) /\ \A x : Total(out, x) = IF x = t THEN Cap(n) ELSE 0
          /\ [id |-> t, value |-> n] \in ToSet(out)
      BY <2>1, <2>2, OneAmount
    <2>4. Cap(n) > 0
      BY <2>2, CapIs
    <2>5. \A id \in TokenSet : Total(out, id) > 0 <=> id = t
      BY <2>3, <2>4
    <2>6. \E a \in ToSet(out) : a.id = t /\ (call.want = {} \/ a.value \in call.want)
      BY <2>2, <2>3
    <2> QED
      BY <1>3, <2>3, <2>5, <2>6, OpsAre DEF Gave, t
  <1>4. CASE call.op = "wrap"
    <2>1. PICK n \in 1..MaxOut : out = Amount("fr", n)
      BY <1>4 DEF Answers
    <2>2. n \in Nat \ {0}
      BY <1>0
    <2>3. /\ Filled(out) /\ \A x : Total(out, x) = IF x = "fr" THEN Cap(n) ELSE 0
          /\ [id |-> "fr", value |-> n] \in ToSet(out)
      BY <1>0, <2>1, <2>2, OneAmount
    <2>4. Gives(out, "fr")
      BY <2>3 DEF Gives
    <2> QED
      BY <1>4, <2>3, <2>4, OpsAre DEF Gave
  <1>5. CASE call.op = "unwrap"
    <2>1. PICK c \in 0..(Total(call.in, "fr") - 1) : out = Amount("fr", c)
      BY <1>5 DEF Answers
    <2>2. c \in Nat /\ c < Total(call.in, "fr")
      BY <1>0
    <2>3. Filled(out) /\ \A x : Total(out, x) = IF x = "fr" THEN Cap(c) ELSE 0
      BY <1>0, <2>1, <2>2, OneAmount, ZenonT(40)
    <2>4. Cap(c) <= c /\ Cap(c) \in Nat
      BY <2>2, CapIs
    <2>5. Total(out, "fr") < Total(call.in, "fr")
      BY <1>0, <2>2, <2>3, <2>4
    <2> QED
      BY <1>5, <2>3, <2>5, OpsAre DEF Gave
  <1> QED
    BY <1>1, <1>2, <1>3, <1>4, <1>5 DEF Leaves, PoolOps, SubfrostOps

-----------------------------------------------------------------------------
(* Steps *)

Events == InvokeEvents \cup ReturnEvents

LEMMA EventsAre ==
    ASSUME EventInv
    PROVE  /\ Len(trace) \in Nat /\ DOMAIN trace = 1..Len(trace)
           /\ Invokes \subseteq 1..Len(trace) /\ Returns \subseteq 1..Len(trace)
           /\ \A i \in Invokes : trace[i] \in InvokeEvents
           /\ \A j \in Returns : trace[j] \in ReturnEvents
           /\ Invokes \cap Returns = {} /\ Invokes \cup Returns = 1..Len(trace)
           /\ \A i, id : In(i, id) = Total(trace[i].in, id)
           /\ \A i \in Invokes : \A id : In(i, id) \in 0..AmountMax
           /\ \A j \in Returns : \A id : Out(j, id) = Total(trace[j].out, id) /\ Out(j, id) \in 0..AmountMax
  <1>1. Len(trace) \in Nat /\ DOMAIN trace = 1..Len(trace)
    BY LenProperties DEF EventInv
  <1>2. \A i \in 1..Len(trace) : trace[i] \in Events
    BY ElementOfSeq DEF EventInv, Events
  <1>3. Invokes \subseteq 1..Len(trace) /\ Returns \subseteq 1..Len(trace)
    BY <1>1 DEF Invokes, Returns
  <1>4. \A i \in Invokes : trace[i] \in InvokeEvents
    BY <1>2, <1>3 DEF Invokes, Events, ReturnEvents
  <1>5. \A j \in Returns : trace[j] \in ReturnEvents
    BY <1>2, <1>3 DEF Returns, Events, InvokeEvents
  <1>6. Invokes \cap Returns = {} /\ Invokes \cup Returns = 1..Len(trace)
    BY <1>1, <1>2 DEF Invokes, Returns, Events, InvokeEvents, ReturnEvents
  <1>7. \A i, id : In(i, id) = Total(trace[i].in, id)
    BY DEF In
  <1>8. \A i \in Invokes : \A id : In(i, id) \in 0..AmountMax
    <2> TAKE i \in Invokes
    <2> TAKE id
    <2>1. trace[i].in \in Lists
      BY <1>4 DEF InvokeEvents
    <2> QED
      BY <1>7, <2>1, TotalIn
  <1>9. \A j \in Returns : \A id : Out(j, id) = Total(trace[j].out, id) /\ Out(j, id) \in 0..AmountMax
    <2> TAKE j \in Returns
    <2> TAKE id
    <2>1. trace[j].out \in Lists /\ j # 0
      BY <1>3, <1>5 DEF ReturnEvents
    <2> QED
      BY <2>1, TotalIn DEF Out
  <1> QED
    BY <1>1, <1>3, <1>4, <1>5, <1>6, <1>7, <1>8, <1>9

LEMMA StackIs ==
    ASSUME StackInv
    PROVE  /\ Len(stack) \in Nat /\ DOMAIN stack = 1..Len(stack)
           /\ stack # << >> => Len(stack) \in 1..Len(stack)
           /\ \A d \in 1..Len(stack) :
                 /\ stack[d] \in [at : Nat, op : Ops, hold : [TokenSet -> Nat]]
                 /\ \A id \in TokenSet : Held(d, id) \in Nat
  <1>1. stack \in Seq([at : Nat, op : Ops, hold : [TokenSet -> Nat]])
    BY DEF StackInv
  <1>2. Len(stack) \in Nat /\ DOMAIN stack = 1..Len(stack)
    BY <1>1, LenProperties
  <1>3. stack # << >> => Len(stack) \in 1..Len(stack)
    BY <1>1, <1>2, EmptySeq
  <1>4. \A d \in 1..Len(stack) : stack[d] \in [at : Nat, op : Ops, hold : [TokenSet -> Nat]]
    BY <1>1, ElementOfSeq
  <1> QED
    BY <1>2, <1>3, <1>4 DEF Held

\* The trace grows by an event.
LEMMA Grew ==
    ASSUME EventInv, NEW e \in Events, trace' = Append(trace, e)
    PROVE  /\ trace' \in Seq(Events) /\ Len(trace)' = Len(trace) + 1
           /\ (DOMAIN trace)' = 1..(Len(trace) + 1)
           /\ \A i \in 1..Len(trace) : trace'[i] = trace[i]
           /\ trace'[Len(trace) + 1] = e
  <1>1. trace \in Seq(Events)
    BY DEF EventInv, Events
  <1> QED
    BY <1>1, AppendProperties, LenProperties

LEMMA InvokeGrew ==
    ASSUME EventInv, NEW e \in InvokeEvents, trace' = Append(trace, e)
    PROVE  /\ Invokes' = Invokes \cup {Len(trace) + 1} /\ Returns' = Returns
           /\ \A v : InvokesOf(v)' =
                IF v = e.vout THEN InvokesOf(v) \cup {Len(trace) + 1} ELSE InvokesOf(v)
           /\ \A v : ReturnsOf(v)' = ReturnsOf(v)
           /\ \A i \in 1..Len(trace) : \A id : In(i, id)' = In(i, id) /\ Out(i, id)' = Out(i, id)
           /\ \A n, id : n = Len(trace) + 1 => In(n, id)' = Total(e.in, id)
           /\ \A v : PoolCallsOf(v)' =
                IF v = e.vout /\ e.op \in PoolOps THEN PoolCallsOf(v) \cup {Len(trace) + 1}
                ELSE PoolCallsOf(v)
  <1> DEFINE L == Len(trace)
  <1>1. e \in Events /\ e.type = "invoke"
    BY DEF Events, InvokeEvents
  <1>2. /\ (DOMAIN trace)' = 1..(L + 1) /\ trace'[L + 1] = e /\ \A i \in 1..L : trace'[i] = trace[i]
        /\ L \in Nat /\ DOMAIN trace = 1..L
    BY <1>1, Grew, EventsAre
  <1> HIDE DEF L
  <1>3. L + 1 \notin 1..L /\ \A i \in 1..(L + 1) : i \in 1..L \/ i = L + 1
    BY <1>2
  <1>4. Invokes' = Invokes \cup {L + 1} /\ Returns' = Returns
    BY <1>1, <1>2, <1>3 DEF Invokes, Returns
  <1>5. \A i \in Invokes \cup Returns : trace'[i] = trace[i]
    BY <1>2 DEF Invokes, Returns
  <1>6. \A v : InvokesOf(v)' = IF v = e.vout THEN InvokesOf(v) \cup {L + 1} ELSE InvokesOf(v)
    BY <1>2, <1>4, <1>5 DEF InvokesOf
  <1>7. \A v : ReturnsOf(v)' = ReturnsOf(v)
    BY <1>2, <1>4, <1>5 DEF ReturnsOf
  <1>8. \A i \in 1..L : \A id : In(i, id)' = In(i, id) /\ Out(i, id)' = Out(i, id)
    BY <1>2 DEF In, Out
  <1>9. \A n, id : n = L + 1 => In(n, id)' = Total(e.in, id)
    BY <1>2 DEF In
  <1>10. \A v : PoolCallsOf(v)' =
            IF v = e.vout /\ e.op \in PoolOps THEN PoolCallsOf(v) \cup {L + 1} ELSE PoolCallsOf(v)
    <2> TAKE v
    <2>1. \A i \in InvokesOf(v) : trace'[i] = trace[i]
      BY <1>5 DEF InvokesOf
    <2> QED
      BY <1>2, <1>6, <2>1 DEF PoolCallsOf
  <1> QED
    BY <1>4, <1>6, <1>7, <1>8, <1>9, <1>10 DEF L

LEMMA ReturnGrew ==
    ASSUME EventInv, NEW e \in ReturnEvents, trace' = Append(trace, e)
    PROVE  /\ Invokes' = Invokes /\ Returns' = Returns \cup {Len(trace) + 1}
           /\ \A v : InvokesOf(v)' = InvokesOf(v)
           /\ \A v : ReturnsOf(v)' =
                IF v = e.vout THEN ReturnsOf(v) \cup {Len(trace) + 1} ELSE ReturnsOf(v)
           /\ \A i \in 1..Len(trace) : \A id : In(i, id)' = In(i, id) /\ Out(i, id)' = Out(i, id)
           /\ \A n, id : n = Len(trace) + 1 => Out(n, id)' = Total(e.out, id)
           /\ \A v : PoolCallsOf(v)' = PoolCallsOf(v)
  <1> DEFINE L == Len(trace)
  <1>1. e \in Events /\ e.type = "return"
    BY DEF Events, ReturnEvents
  <1>2. /\ (DOMAIN trace)' = 1..(L + 1) /\ trace'[L + 1] = e /\ \A i \in 1..L : trace'[i] = trace[i]
        /\ L \in Nat /\ DOMAIN trace = 1..L
    BY <1>1, Grew, EventsAre
  <1> HIDE DEF L
  <1>3. L + 1 \notin 1..L /\ L + 1 # 0 /\ \A i \in 1..(L + 1) : i \in 1..L \/ i = L + 1
    BY <1>2
  <1>4. Returns' = Returns \cup {L + 1} /\ Invokes' = Invokes
    BY <1>1, <1>2, <1>3 DEF Invokes, Returns
  <1>5. \A i \in Invokes \cup Returns : trace'[i] = trace[i]
    BY <1>2 DEF Invokes, Returns
  <1>6. \A v : ReturnsOf(v)' = IF v = e.vout THEN ReturnsOf(v) \cup {L + 1} ELSE ReturnsOf(v)
    BY <1>2, <1>4, <1>5 DEF ReturnsOf
  <1>7. \A v : InvokesOf(v)' = InvokesOf(v)
    BY <1>2, <1>4, <1>5 DEF InvokesOf
  <1>8. \A i \in 1..L : \A id : In(i, id)' = In(i, id) /\ Out(i, id)' = Out(i, id)
    BY <1>2 DEF In, Out
  <1>9. \A n, id : n = L + 1 => Out(n, id)' = Total(e.out, id)
    BY <1>2, <1>3 DEF Out
  <1>10. \A v : PoolCallsOf(v)' = PoolCallsOf(v)
    <2> TAKE v
    <2>1. \A i \in InvokesOf(v) : trace'[i] = trace[i]
      BY <1>5 DEF InvokesOf
    <2> QED
      BY <1>2, <1>7, <2>1 DEF PoolCallsOf
  <1> QED
    BY <1>4, <1>6, <1>7, <1>8, <1>9, <1>10 DEF L

\* A call starts: one of the running caller, or the first of a protostone.
NewCall(v, op, r) ==
    [type |-> "invoke", vout |-> v, op |-> op, delegate |-> op \in PoolOps,
     in |-> r.in, want |-> r.want]

Pushes(v, op, r) ==
    /\ op \in Ops /\ NewCall(v, op, r) \in InvokeEvents /\ Asks(NewCall(v, op, r)) /\ Filled(r.in)
    /\ stack = << >> => v \notin done /\ op \notin PoolOps
    /\ stack # << >> => /\ v = vout /\ stack[Len(stack)].op = "other"
                        /\ Handed(op, r, stack[Len(stack)].hold)
    /\ trace' = Append(trace, NewCall(v, op, r))
    /\ stack' = Append(stack, [at |-> Len(trace) + 1, op |-> op, hold |-> Holding(r.in)])
    /\ vout' = v /\ done' = done \cup {v} /\ own' = own /\ rows = << >> /\ rows' = << >>

\* The innermost call ends, with success or without.
NewReturn(ok, out) == [type |-> "return", vout |-> vout, ok |-> ok, out |-> out]
Spent(ok, id) == IF ok THEN Taken(Len(stack), id) ELSE 0

Answered(ok, out) ==
    /\ stack # << >> /\ NewReturn(ok, out) \in ReturnEvents /\ Filled(out)
    /\ ~ok => out = << >>
    /\ ok /\ stack[Len(stack)].op = "other" =>
          \A id \in TokenSet : Total(out, id) = Cap(Held(Len(stack), id))
    /\ ok /\ stack[Len(stack)].op # "other" => Gave(trace[stack[Len(stack)].at], out)
    /\ trace' = Append(trace, NewReturn(ok, out))
    /\ own' = [i \in DOMAIN own \cup {stack[Len(stack)].at} |->
                  IF i = stack[Len(stack)].at THEN Len(trace) + 1 ELSE own[i]]
    /\ IF Len(stack) = 1 THEN stack' = << >>
       ELSE stack' = Append(SubSeq(stack, 1, Len(stack) - 2),
                [stack[Len(stack) - 1] EXCEPT !.hold =
                    [id \in TokenSet |-> Held(Len(stack) - 1, id) - Spent(ok, id) + Total(out, id)]])
    /\ vout' = vout /\ done' = done /\ rows = << >> /\ rows' = << >>

LEMMA HoldingIs ==
    ASSUME NEW s \in Lists
    PROVE  Holding(s) \in [TokenSet -> Nat] /\ \A id \in TokenSet : Holding(s)[id] = Total(s, id)
  BY TotalIn DEF Holding, TokenSet

LEMMA HandedIsCall ==
    ASSUME NEW v \in 1..MaxVout, NEW op \in Ops, NEW r, NEW hold, Handed(op, r, hold)
    PROVE  /\ NewCall(v, op, r) \in InvokeEvents /\ Asks(NewCall(v, op, r)) /\ Filled(r.in)
  <1>1. r.in \in Lists /\ r.want \in SUBSET Nat /\ Filled(r.in)
    BY DEF Handed, Filled
  <1>2. NewCall(v, op, r) \in InvokeEvents
    BY <1>1 DEF NewCall, InvokeEvents
  <1>3. Asks(NewCall(v, op, r))
    BY DEF Handed, Asks, NewCall
  <1> QED
    BY <1>1, <1>2, <1>3

LEMMA StartPushes ==
    ASSUME TraceInv, StartProtostone
    PROVE  \E v, op, r : Pushes(v, op, r)
  <1>1. PICK v \in (1..MaxVout) \ done, purse \in Purses :
           /\ vout' = v
           /\ done' = done \cup {v}
           /\ \E op \in {"other"} \cup SubfrostOps :
                \E request \in Requests(op, Holding(purse)) : Push(v, op, request)
    BY DEF StartProtostone
  <1>2. PICK op \in {"other"} \cup SubfrostOps : \E r \in Requests(op, Holding(purse)) : Push(v, op, r)
    BY <1>1
  <1>3. PICK r \in Requests(op, Holding(purse)) : Push(v, op, r)
    BY <1>2
  <1>4. stack = << >> /\ rows = << >>
    BY DEF StartProtostone
  <1>5. op \in Ops /\ op \notin PoolOps
    BY OpsAre
  <1>6. Holding(purse) \in [TokenSet -> Nat]
    <2>1. purse \in Lists
      BY TraceAssumption DEF Lists, TokenSet
    <2> QED
      BY <2>1, HoldingIs
  <1>7. Handed(op, r, Holding(purse))
    BY <1>3, <1>5, <1>6, RequestIs
  <1>8. NewCall(v, op, r) \in InvokeEvents /\ Asks(NewCall(v, op, r)) /\ Filled(r.in)
    BY <1>5, <1>7, HandedIsCall
  <1>9. /\ trace' = Append(trace, NewCall(v, op, r))
        /\ stack' = Append(stack, [at |-> Len(trace) + 1, op |-> op, hold |-> Holding(r.in)])
        /\ own' = own /\ rows' = rows
    BY <1>3 DEF Push, NewCall
  <1>10. Pushes(v, op, r)
    BY <1>1, <1>4, <1>5, <1>8, <1>9 DEF Pushes
  <1> QED
    BY <1>10

LEMMA VoutIs ==
    ASSUME TraceInv, stack # << >>
    PROVE  /\ vout \in 1..MaxVout /\ vout \in done /\ rows = << >>
           /\ stack[Len(stack)].at \in InvokesOf(vout)
           /\ trace[stack[Len(stack)].at].op = stack[Len(stack)].op
  <1>1. Len(stack) \in DOMAIN stack
    BY StackIs DEF TraceInv
  <1>2. stack[Len(stack)].at \in InvokesOf(vout) /\ trace[stack[Len(stack)].at].op = stack[Len(stack)].op
    BY <1>1 DEF TraceInv, StackInv
  <1>3. vout \in 1..MaxVout
    BY <1>2, EventsAre DEF TraceInv, InvokesOf, InvokeEvents
  <1> QED
    BY <1>2, <1>3 DEF TraceInv, StackInv, RowsInv

LEMMA CallPushes ==
    ASSUME TraceInv, Call
    PROVE  \E v, op, r : Pushes(v, op, r)
  <1>1. /\ stack # << >> /\ stack[Len(stack)].op = "other" /\ vout' = vout /\ done' = done
        /\ \E op \in {"other"} \cup PoolOps \cup SubfrostOps :
             \E r \in Requests(op, stack[Len(stack)].hold) : Push(vout, op, r)
    BY DEF Call, Last
  <1>2. PICK op \in Ops : \E r \in Requests(op, stack[Len(stack)].hold) : Push(vout, op, r)
    BY <1>1 DEF Ops, Leaves
  <1>3. PICK r \in Requests(op, stack[Len(stack)].hold) : Push(vout, op, r)
    BY <1>2
  <1>4. vout \in 1..MaxVout /\ vout \in done /\ rows = << >>
    BY <1>1, VoutIs
  <1>5. stack[Len(stack)].hold \in [TokenSet -> Nat]
    BY <1>1, StackIs DEF TraceInv
  <1>6. Handed(op, r, stack[Len(stack)].hold)
    BY <1>3, <1>5, RequestIs
  <1>7. NewCall(vout, op, r) \in InvokeEvents /\ Asks(NewCall(vout, op, r)) /\ Filled(r.in)
    BY <1>4, <1>6, HandedIsCall
  <1>8. /\ trace' = Append(trace, NewCall(vout, op, r))
        /\ stack' = Append(stack, [at |-> Len(trace) + 1, op |-> op, hold |-> Holding(r.in)])
        /\ own' = own /\ rows' = rows
    BY <1>3 DEF Push, NewCall
  <1>9. done' = done \cup {vout}
    BY <1>1, <1>4
  <1>10. Pushes(vout, op, r)
    BY <1>1, <1>4, <1>6, <1>7, <1>8, <1>9 DEF Pushes
  <1> QED
    BY <1>10

LEMMA ReturnAnswers ==
    ASSUME TraceInv, Return
    PROVE  \E ok, out : Answered(ok, out)
  <1> DEFINE D == Len(stack)
             at == stack[D].at
             call == trace[at]
  <1>1. /\ stack # << >> /\ UNCHANGED <<vout, done, known, rows>>
        /\ own' = [i \in DOMAIN own \cup {at} |-> IF i = at THEN Len(trace) + 1 ELSE own[i]]
        /\ \E ok \in BOOLEAN : \E out \in IF ok THEN Answers(call) ELSE {<< >>} :
                /\ trace' = Append(trace, NewReturn(ok, out))
                /\ IF D = 1
                   THEN stack' = << >>
                   ELSE stack' = Append(SubSeq(stack, 1, D - 2),
                               [stack[D - 1] EXCEPT !.hold =
                                  [id \in TokenSet |->
                                      stack[D - 1].hold[id] - (IF ok THEN Total(call.in, id) ELSE 0)
                                        + Total(out, id)]])
    BY DEF Return, Last, NewReturn, TokenSet
  <1>2. PICK ok \in BOOLEAN : \E out \in IF ok THEN Answers(call) ELSE {<< >>} :
                /\ trace' = Append(trace, NewReturn(ok, out))
                /\ IF D = 1
                   THEN stack' = << >>
                   ELSE stack' = Append(SubSeq(stack, 1, D - 2),
                               [stack[D - 1] EXCEPT !.hold =
                                  [id \in TokenSet |->
                                      stack[D - 1].hold[id] - (IF ok THEN Total(call.in, id) ELSE 0)
                                        + Total(out, id)]])
    BY <1>1
  <1>3. PICK out \in IF ok THEN Answers(call) ELSE {<< >>} :
                /\ trace' = Append(trace, NewReturn(ok, out))
                /\ IF D = 1
                   THEN stack' = << >>
                   ELSE stack' = Append(SubSeq(stack, 1, D - 2),
                               [stack[D - 1] EXCEPT !.hold =
                                  [id \in TokenSet |->
                                      stack[D - 1].hold[id] - (IF ok THEN Total(call.in, id) ELSE 0)
                                        + Total(out, id)]])
    BY <1>2
  <1>4. /\ vout \in 1..MaxVout /\ rows = << >> /\ at \in InvokesOf(vout) /\ call.op = stack[D].op
    BY <1>1, VoutIs
  <1>5. call \in InvokeEvents /\ \A id : Taken(D, id) = Total(call.in, id)
    BY <1>4, EventsAre DEF TraceInv, InvokesOf, Taken
  <1>6. call.in \in Lists /\ call.want \in SUBSET Nat /\ call.op \in Ops
    BY <1>5 DEF InvokeEvents
  <1>7. stack[D].hold \in [TokenSet -> Nat]
    BY <1>1, StackIs DEF TraceInv
  <1>8. CASE ok = FALSE
    <2>1. out = << >>
      BY <1>3, <1>8
    <2> QED
      BY <1>1, <1>3, <1>4, <1>5, <1>8, <2>1, NoneFilled
         DEF Answered, NewReturn, ReturnEvents, Filled, Held, Spent
  <1>9. CASE ok = TRUE /\ stack[D].op = "other"
    <2>1. out = Listed(stack[D].hold)
      BY <1>3, <1>4, <1>9 DEF Answers, Last, PoolOps
    <2>2. Filled(out) /\ \A id \in TokenSet : Total(out, id) = Cap(stack[D].hold[id])
      BY <1>7, <2>1, ListedIs
    <2> QED
      BY <1>1, <1>3, <1>4, <1>5, <1>9, <2>2
         DEF Answered, NewReturn, ReturnEvents, Filled, Held, Spent
  <1>10. CASE ok = TRUE /\ stack[D].op # "other"
    <2>1. out \in Answers(call)
      BY <1>3, <1>10
    <2>2. Filled(out) /\ Gave(call, out)
      <3>1. call.op \in Leaves
        BY <1>4, <1>6, <1>10 DEF Ops
      <3> HIDE DEF call
      <3> QED
        BY <1>6, <2>1, <3>1, AnswerIs
    <2> QED
      BY <1>1, <1>3, <1>4, <1>5, <1>10, <2>2
         DEF Answered, NewReturn, ReturnEvents, Filled, Held, Spent
  <1> QED
    BY <1>8, <1>9, <1>10

\* What is running after a call has started
PushedStack(op, r) ==
    /\ Len(stack)' = Len(stack) + 1 /\ (DOMAIN stack)' = 1..(Len(stack) + 1)
    /\ stack' \in Seq([at : Nat, op : Ops, hold : [TokenSet -> Nat]])
    /\ \A d \in 1..Len(stack) :
          /\ stack'[d] = stack[d]
          /\ \A id : Held(d, id)' = Held(d, id) /\ Taken(d, id)' = Taken(d, id)
    /\ \A d : d = Len(stack) + 1 =>
          /\ stack'[d].at = Len(trace) + 1 /\ stack'[d].op = op
          /\ \A id \in TokenSet : Held(d, id)' = Total(r.in, id)
          /\ \A id : Taken(d, id)' = Total(r.in, id)

LEMMA Pushed ==
    ASSUME TraceInv, NEW v, NEW op, NEW r, Pushes(v, op, r)
    PROVE  PushedStack(op, r)
  <1> DEFINE S == [at : Nat, op : Ops, hold : [TokenSet -> Nat]]
             e == [at |-> Len(trace) + 1, op |-> op, hold |-> Holding(r.in)]
             D == Len(stack)
  <1>1. /\ stack \in Seq(S) /\ D \in Nat /\ DOMAIN stack = 1..D
        /\ \A d \in 1..D : stack[d].at \in Invokes
    BY StackIs DEF TraceInv, StackInv, InvokesOf
  <1>2. Len(trace) \in Nat /\ Invokes \subseteq 1..Len(trace)
    BY EventsAre DEF TraceInv
  <1>3. Holding(r.in) \in [TokenSet -> Nat] /\ \A id \in TokenSet : Holding(r.in)[id] = Total(r.in, id)
    BY HoldingIs DEF Pushes, Filled
  <1>4. e \in S
    BY <1>2, <1>3 DEF Pushes
  <1>5. stack' = Append(stack, e)
    BY DEF Pushes
  <1>6. e.at = Len(trace) + 1 /\ e.op = op /\ e.hold = Holding(r.in)
    OBVIOUS
  <1> HIDE DEF S, e
  <1>7. /\ stack' \in Seq(S) /\ Len(stack') = D + 1 /\ stack'[D + 1] = e
        /\ \A d \in 1..D : stack'[d] = stack[d]
    BY <1>1, <1>4, <1>5, AppendProperties
  <1>8. DOMAIN stack' = 1..(D + 1)
    BY <1>7, LenProperties
  <1>9. ASSUME NEW d \in 1..D
        PROVE  /\ stack'[d] = stack[d]
               /\ \A id : Held(d, id)' = Held(d, id) /\ Taken(d, id)' = Taken(d, id)
    <2>1. stack'[d] = stack[d] /\ stack[d].at \in 1..Len(trace)
      BY <1>1, <1>2, <1>7
    <2>2. trace'[stack[d].at] = trace[stack[d].at]
      BY <2>1, Grew DEF TraceInv, Pushes, Events
    <2> QED
      BY <2>1, <2>2 DEF Held, Taken, In
  <1>10. trace'[Len(trace) + 1].in = r.in
    <2>1. trace'[Len(trace) + 1] = NewCall(v, op, r)
      BY Grew DEF TraceInv, Pushes, Events
    <2> QED
      BY <2>1 DEF NewCall
  <1>11. ASSUME NEW d, d = D + 1
         PROVE  /\ stack'[d].at = Len(trace) + 1 /\ stack'[d].op = op
                /\ \A id \in TokenSet : Held(d, id)' = Total(r.in, id)
                /\ \A id : Taken(d, id)' = Total(r.in, id)
    <2>1. stack'[d] = e
      BY <1>7, <1>11
    <2> QED
      BY <1>3, <1>6, <1>10, <2>1 DEF Held, Taken, In
  <1> QED
    BY <1>7, <1>8, <1>9, <1>11 DEF S, PushedStack

\* and after the innermost one has ended
PoppedStack(ok, out) ==
    /\ Len(stack)' = Len(stack) - 1 /\ (DOMAIN stack)' = 1..(Len(stack) - 1)
    /\ stack' \in Seq([at : Nat, op : Ops, hold : [TokenSet -> Nat]])
    /\ \A d \in 1..(Len(stack) - 1) :
          /\ stack'[d].at = stack[d].at /\ stack'[d].op = stack[d].op
          /\ \A id : Taken(d, id)' = Taken(d, id)
          /\ d # Len(stack) - 1 => \A id : Held(d, id)' = Held(d, id)
          /\ d = Len(stack) - 1 => \A id \in TokenSet :
                Held(d, id)' = Held(d, id) - Spent(ok, id) + Total(out, id)
    /\ \A id \in TokenSet : Spent(ok, id) \in Nat /\ Total(out, id) \in 0..AmountMax
    /\ Len(stack) # 1 => \A id \in TokenSet : Spent(ok, id) <= Held(Len(stack) - 1, id)

LEMMA Popped ==
    ASSUME TraceInv, NEW ok, NEW out, Answered(ok, out)
    PROVE  PoppedStack(ok, out)
  <1> DEFINE S == [at : Nat, op : Ops, hold : [TokenSet -> Nat]]
             D == Len(stack)
             e == [stack[D - 1] EXCEPT !.hold =
                    [id \in TokenSet |-> Held(D - 1, id) - Spent(ok, id) + Total(out, id)]]
  <1>1. /\ stack \in Seq(S) /\ D \in Nat /\ DOMAIN stack = 1..D /\ D \in 1..D
        /\ \A d \in 1..D : /\ stack[d].at \in Invokes /\ stack[d] \in S
                           /\ \A id \in TokenSet : Held(d, id) \in Nat
    BY StackIs DEF TraceInv, StackInv, InvokesOf, Answered
  <1>2. Len(trace) \in Nat /\ Invokes \subseteq 1..Len(trace) /\ AmountMax \in Nat
    BY EventsAre, CapIs DEF TraceInv
  <1>3. \A d \in 1..D : \A id : Taken(d, id) \in 0..AmountMax
    BY <1>1, EventsAre DEF TraceInv, Taken
  <1>4. ok \in BOOLEAN /\ out \in Lists
    BY DEF Answered, NewReturn, ReturnEvents, Filled
  <1>5. \A id \in TokenSet : Spent(ok, id) \in Nat /\ Total(out, id) \in 0..AmountMax
    BY <1>1, <1>2, <1>3, <1>4, TotalIn DEF Spent
  <1>6. D # 1 => \A id \in TokenSet : Spent(ok, id) <= Held(D - 1, id)
    <2> SUFFICES ASSUME D # 1, NEW id \in TokenSet PROVE Spent(ok, id) <= Held(D - 1, id)
      OBVIOUS
    <2>1. D - 1 \in 1..D /\ D - 1 < D /\ (D - 1) + 1 = D
      BY <1>1, SMTT(30)
    <2>2. Taken(D, id) <= Held(D - 1, id)
      BY <1>1, <2>1 DEF TraceInv, StackInv
    <2>3. Held(D - 1, id) \in Nat
      BY <1>1, <2>1
    <2> QED
      BY <1>4, <2>2, <2>3 DEF Spent
  <1>7. ASSUME NEW d \in 1..D PROVE trace'[stack[d].at] = trace[stack[d].at]
    <2>1. stack[d].at \in 1..Len(trace)
      BY <1>1, <1>2
    <2> QED
      BY <2>1, Grew DEF TraceInv, Answered, Events
  <1>8. CASE D = 1
    <2>1. stack' = << >>
      BY <1>8 DEF Answered
    <2>2. Len(stack') = 0 /\ DOMAIN stack' = 1..0 /\ stack' \in Seq(S)
      BY <2>1, EmptySeq
    <2> QED
      BY <1>5, <1>6, <1>8, <2>2 DEF PoppedStack
  <1>9. CASE D # 1
    <2>1. D - 2 \in 0..D /\ D - 1 \in 1..D /\ D >= 2
      BY <1>1, <1>9
    <2>2. e \in S /\ e.at = stack[D - 1].at /\ e.op = stack[D - 1].op
          /\ \A id \in TokenSet : e.hold[id] = Held(D - 1, id) - Spent(ok, id) + Total(out, id)
      <3>1. stack[D - 1] \in S /\ \A id \in TokenSet : Held(D - 1, id) \in Nat
        BY <1>1, <2>1
      <3>2. \A id \in TokenSet : Held(D - 1, id) - Spent(ok, id) + Total(out, id) \in Nat
        BY <1>2, <1>5, <1>6, <1>9, <3>1
      <3> QED
        BY <3>1, <3>2
    <2> DEFINE q == SubSeq(stack, 1, D - 2)
    <2>3. stack' = Append(q, e)
      BY <1>9 DEF Answered
    <2> HIDE DEF e, S
    <2>4. q \in Seq(S) /\ Len(q) = D - 2 /\ \A d \in 1..(D - 2) : q[d] = stack[d]
      BY <1>1, <2>1, SubSeqProperties
    <2> HIDE DEF q
    <2>5. /\ stack' \in Seq(S) /\ Len(stack') = (D - 2) + 1 /\ stack'[(D - 2) + 1] = e
          /\ \A d \in 1..(D - 2) : stack'[d] = q[d]
      BY <2>2, <2>3, <2>4, AppendProperties
    <2>6. (D - 2) + 1 = D - 1
      BY <2>1
    <2>7. /\ Len(stack') = D - 1 /\ stack'[D - 1] = e /\ DOMAIN stack' = 1..(D - 1)
          /\ \A d \in 1..(D - 2) : stack'[d] = stack[d]
      BY <2>4, <2>5, <2>6, LenProperties
    <2>8. ASSUME NEW d \in 1..(D - 1)
          PROVE  /\ stack'[d].at = stack[d].at /\ stack'[d].op = stack[d].op
                 /\ \A id : Taken(d, id)' = Taken(d, id)
                 /\ d # D - 1 => \A id : Held(d, id)' = Held(d, id)
                 /\ d = D - 1 => \A id \in TokenSet :
                       Held(d, id)' = Held(d, id) - Spent(ok, id) + Total(out, id)
      <3>1. d \in 1..D /\ (d # D - 1 => d \in 1..(D - 2))
        BY <2>1
      <3>2. stack'[d].at = stack[d].at /\ stack'[d].op = stack[d].op
        BY <2>2, <2>7, <3>1
      <3>3. \A id : Taken(d, id)' = Taken(d, id)
        BY <1>7, <3>1, <3>2 DEF Taken, In
      <3>4. d # D - 1 => \A id : Held(d, id)' = Held(d, id)
        BY <2>7, <3>1 DEF Held
      <3>5. d = D - 1 => \A id \in TokenSet :
                       Held(d, id)' = Held(d, id) - Spent(ok, id) + Total(out, id)
        BY <2>2, <2>7 DEF Held
      <3> QED
        BY <3>2, <3>3, <3>4, <3>5
    <2> QED
      BY <1>5, <1>6, <2>5, <2>7, <2>8 DEF S, PoppedStack
  <1> QED
    BY <1>8, <1>9

-----------------------------------------------------------------------------
(* Events, the stack and answers *)

LEMMA EventsPushed ==
    ASSUME TraceInv, NEW v, NEW op, NEW r, Pushes(v, op, r)
    PROVE  EventInv'
  <1> DEFINE e == NewCall(v, op, r)
             L == Len(trace)
  <1>1. /\ EventInv /\ e \in InvokeEvents /\ e \in Events /\ trace' = Append(trace, e)
        /\ Asks(e) /\ e.vout = v /\ done' = done \cup {v}
    BY DEF TraceInv, Pushes, Events, NewCall
  <1> HIDE DEF e
  <1>2. /\ trace' \in Seq(Events) /\ (DOMAIN trace)' = 1..(L + 1)
        /\ \A i \in 1..L : trace'[i] = trace[i]
        /\ trace'[L + 1] = e /\ L \in Nat /\ DOMAIN trace = 1..L
    BY <1>1, Grew, EventsAre
  <1>3. /\ Invokes' = Invokes \cup {L + 1} /\ Returns' = Returns
        /\ Invokes \subseteq 1..L /\ Returns \subseteq 1..L
    BY <1>1, InvokeGrew, EventsAre
  <1> HIDE DEF L
  <1>4. \A i \in DOMAIN trace' : trace'[i].vout \in done'
    <2> TAKE i \in DOMAIN trace'
    <2>1. CASE i = L + 1
      BY <1>1, <1>2, <2>1
    <2>2. CASE i \in 1..L
      BY <1>1, <1>2, <2>2 DEF EventInv
    <2> QED
      BY <1>2, <2>1, <2>2
  <1>5. \A i \in Invokes' : Asks(trace'[i])
    <2> TAKE i \in Invokes'
    <2>1. CASE i = L + 1
      BY <1>1, <1>2, <2>1
    <2>2. CASE i \in Invokes
      <3>1. trace'[i] = trace[i] /\ Asks(trace[i])
        BY <1>1, <1>2, <1>3, <2>2 DEF EventInv
      <3> QED
        BY <3>1
    <2> QED
      BY <1>3, <2>1, <2>2
  <1>6. \A j \in Returns' : trace'[j] = trace[j]
    BY <1>2, <1>3
  <1>7. \A j \in Returns' : /\ ~trace'[j].ok => trace'[j].out = << >>
                            /\ \A a \in ToSet(trace'[j].out) : a.value > 0
    BY <1>1, <1>3, <1>6, Zenon DEF EventInv
  <1> QED
    BY <1>2, <1>4, <1>5, <1>7 DEF EventInv, Events

LEMMA EventsAnswered ==
    ASSUME TraceInv, NEW ok, NEW out, Answered(ok, out)
    PROVE  EventInv'
  <1> DEFINE e == NewReturn(ok, out)
             L == Len(trace)
  <1>1. /\ EventInv /\ e \in ReturnEvents /\ e \in Events /\ trace' = Append(trace, e)
        /\ e.vout = vout /\ done' = done
    BY DEF TraceInv, Answered, Events, NewReturn
  <1>2. vout \in done
    BY VoutIs DEF Answered
  <1>3. e.ok = ok /\ e.out = out
    BY DEF NewReturn
  <1> HIDE DEF e
  <1>4. /\ trace' \in Seq(Events) /\ (DOMAIN trace)' = 1..(L + 1)
        /\ \A i \in 1..L : trace'[i] = trace[i]
        /\ trace'[L + 1] = e /\ L \in Nat /\ DOMAIN trace = 1..L
    BY <1>1, Grew, EventsAre
  <1>5. /\ Invokes' = Invokes /\ Returns' = Returns \cup {L + 1}
        /\ Invokes \subseteq 1..L /\ Returns \subseteq 1..L
    BY <1>1, ReturnGrew, EventsAre
  <1> HIDE DEF L
  <1>6. \A i \in DOMAIN trace' : trace'[i].vout \in done'
    <2> TAKE i \in DOMAIN trace'
    <2>1. CASE i = L + 1
      BY <1>1, <1>2, <1>4, <2>1
    <2>2. CASE i \in 1..L
      BY <1>1, <1>4, <2>2 DEF EventInv
    <2> QED
      BY <1>4, <2>1, <2>2
  <1>7. \A i \in Invokes' : Asks(trace'[i])
    <2> TAKE i \in Invokes'
    <2>1. trace'[i] = trace[i] /\ Asks(trace[i])
      BY <1>1, <1>4, <1>5 DEF EventInv
    <2> QED
      BY <2>1
  <1>8. \A j \in Returns' : /\ ~trace'[j].ok => trace'[j].out = << >>
                            /\ \A a \in ToSet(trace'[j].out) : a.value > 0
    <2> TAKE j \in Returns'
    <2>1. CASE j = L + 1
      BY <1>3, <1>4, <2>1, Zenon DEF Answered, Filled
    <2>2. CASE j \in Returns
      <3>1. trace'[j] = trace[j]
        BY <1>4, <1>5, <2>2
      <3> QED
        BY <1>1, <2>2, <3>1, Zenon DEF EventInv
    <2> QED
      BY <1>5, <2>1, <2>2
  <1> QED
    BY <1>4, <1>6, <1>7, <1>8 DEF EventInv, Events

\* The part of StackInv about one running call
StackOk(d) ==
    /\ stack[d].at \in InvokesOf(vout) /\ trace[stack[d].at].op = stack[d].op
    /\ d < Len(stack) => stack[d].op = "other"
    /\ d < Len(stack) => \A id \in TokenSet : Taken(d + 1, id) <= Held(d, id)
    /\ d < Len(stack) /\ stack[d + 1].op \notin PoolOps =>
          \/ \A id \in TokenSet \ {"fr"} : Taken(d + 1, id) = 0
          \/ \A id \in TokenSet : Taken(d + 1, id) = Cap(Held(d, id))
    /\ d = Len(stack) /\ stack[d].op \in Leaves => 
          /\ stack[d].at = Len(trace)
          /\ \A id \in TokenSet : Held(d, id) = Taken(d, id)

LEMMA StackPushed ==
    ASSUME TraceInv, NEW v, NEW op, NEW r, Pushes(v, op, r)
    PROVE  StackInv'
  <1> DEFINE e == NewCall(v, op, r)
             L == Len(trace)
             D == Len(stack)
  <1>1. /\ EventInv /\ e \in InvokeEvents /\ e \in Events /\ trace' = Append(trace, e)
        /\ e.vout = v /\ e.op = op /\ done' = done \cup {v} /\ vout' = v /\ op \in Ops
    BY DEF TraceInv, Pushes, Events, NewCall
  <1> HIDE DEF e
  <1>2. /\ L \in Nat /\ Len(trace)' = L + 1 /\ trace'[L + 1] = e
        /\ \A i \in 1..L : trace'[i] = trace[i]
    BY <1>1, Grew, EventsAre
  <1>3. /\ InvokesOf(v)' = InvokesOf(v) \cup {L + 1} /\ InvokesOf(v) \subseteq 1..L
    BY <1>1, InvokeGrew, EventsAre DEF InvokesOf
  <1>4. /\ D \in Nat /\ DOMAIN stack = 1..D /\ (stack # << >> => D \in 1..D) /\ (stack = << >> => D = 0)
        /\ \A d \in 1..D : \A id \in TokenSet : Held(d, id) \in Nat
    BY StackIs, EmptySeq DEF TraceInv
  <1>5. /\ Len(stack)' = D + 1 /\ (DOMAIN stack)' = 1..(D + 1)
        /\ stack' \in Seq([at : Nat, op : Ops, hold : [TokenSet -> Nat]])
        /\ \A d \in 1..D :
              /\ stack'[d] = stack[d]
              /\ \A id : Held(d, id)' = Held(d, id) /\ Taken(d, id)' = Taken(d, id)
        /\ \A d : d = D + 1 =>
              /\ stack'[d].at = L + 1 /\ stack'[d].op = op
              /\ \A id \in TokenSet : Held(d, id)' = Total(r.in, id)
              /\ \A id : Taken(d, id)' = Total(r.in, id)
    <2>1. PushedStack(op, r)
      BY Pushed, ZenonT(40)
    <2> QED
      BY <2>1 DEF PushedStack
  <1>6. \A d \in 1..D : StackOk(d)
    BY <1>4, Zenon DEF TraceInv, StackInv, StackOk
  <1>7. D # 0 => v = vout /\ stack[D].op = "other" /\ Handed(op, r, stack[D].hold)
    BY <1>4 DEF Pushes
  <1> HIDE DEF L, D
  <1>8. ASSUME NEW d \in 1..(D + 1) PROVE StackOk(d)'
    <2>1. CASE d = D + 1
      <3>1. stack'[d].at = L + 1 /\ stack'[d].op = op /\ ~(d < D + 1)
        BY <1>4, <1>5, <2>1
      <3>2. stack'[d].at \in InvokesOf(vout)'
        <4>1. L + 1 \in InvokesOf(v)'
          BY <1>3
        <4> QED
          BY <1>1, <3>1, <4>1 DEF InvokesOf
      <3>3. trace'[stack'[d].at].op = stack'[d].op
        BY <1>1, <1>2, <3>1
      <3>4. \A id \in TokenSet : Held(d, id)' = Taken(d, id)'
        BY <1>5, <2>1
      <3> QED
        BY <1>2, <1>5, <3>1, <3>2, <3>3, <3>4 DEF StackOk
    <2>2. CASE d \in 1..D
      <3>1. D # 0 /\ v = vout /\ d < D + 1 /\ d # D + 1 /\ stack'[d] = stack[d] /\ StackOk(d)
        BY <1>4, <1>5, <1>6, <1>7, <2>2
      <3>2. stack'[d].at \in InvokesOf(vout)'
        <4>1. stack[d].at \in InvokesOf(v)'
          BY <1>3, <3>1 DEF StackOk
        <4> QED
          BY <1>1, <3>1, <4>1 DEF InvokesOf
      <3>3. trace'[stack'[d].at].op = stack'[d].op
        BY <1>2, <1>3, <3>1 DEF StackOk
      <3>4. CASE d < D
        <4>1. d + 1 \in 1..D
          BY <1>4, <2>2, <3>4
        <4>2. /\ stack'[d + 1] = stack[d + 1] /\ stack'[d].op = "other"
              /\ \A id : Taken(d + 1, id)' = Taken(d + 1, id) /\ Held(d, id)' = Held(d, id)
          BY <1>5, <3>1, <3>4, <4>1, <2>2 DEF StackOk, D
        <4>3. /\ \A id \in TokenSet : Taken(d + 1, id) <= Held(d, id)
              /\ stack[d + 1].op \notin PoolOps =>
                    \/ \A id \in TokenSet \ {"fr"} : Taken(d + 1, id) = 0
                    \/ \A id \in TokenSet : Taken(d + 1, id) = Cap(Held(d, id))
          BY <3>1, <3>4 DEF StackOk, D
        <4> QED
          BY <1>5, <3>1, <3>2, <3>3, <4>2, <4>3 DEF StackOk
      <3>5. CASE d = D
        <4>1. /\ stack'[d + 1].op = op /\ stack'[d].op = "other"
              /\ \A id : Taken(d + 1, id)' = Total(r.in, id) /\ Held(d, id)' = Held(d, id)
          BY <1>5, <1>7, <2>2, <3>1, <3>5
        <4>2. /\ \A id \in TokenSet : Total(r.in, id) <= Held(d, id)
              /\ op \notin PoolOps =>
                    \/ \A id \in TokenSet \ {"fr"} : Total(r.in, id) = 0
                    \/ \A id \in TokenSet : Total(r.in, id) = Cap(Held(d, id))
          BY <1>7, <3>1, <3>5 DEF Handed, Held
        <4> QED
          BY <1>5, <3>1, <3>2, <3>3, <4>1, <4>2 DEF StackOk
      <3> QED
        BY <1>4, <2>2, <3>4, <3>5
    <2> QED
      BY <1>4, <2>1, <2>2
  <1>9. ASSUME NEW d \in 1..(D + 1), NEW c \in 1..(D + 1), d < c PROVE stack'[d].at < stack'[c].at
    <2>1. d \in 1..D /\ stack'[d] = stack[d]
      BY <1>4, <1>5, <1>9
    <2>2. CASE c = D + 1
      <3>1. stack[d].at \in 1..L
        BY <1>3, <1>4, <1>6, <1>7, <2>1 DEF StackOk
      <3> QED
        BY <1>2, <1>5, <2>1, <2>2, <3>1
    <2>3. CASE c \in 1..D
      BY <1>4, <1>5, <1>9, <2>1, <2>3 DEF TraceInv, StackInv
    <2> QED
      BY <1>4, <2>2, <2>3
  <1>10. vout' \in done'
    BY <1>1
  <1> QED
    BY <1>5, <1>8, <1>9, <1>10 DEF StackInv, StackOk

LEMMA StackAnswered ==
    ASSUME TraceInv, NEW ok, NEW out, Answered(ok, out)
    PROVE  StackInv'
  <1> DEFINE e == NewReturn(ok, out)
             L == Len(trace)
             D == Len(stack)
  <1>1. /\ EventInv /\ e \in ReturnEvents /\ e \in Events /\ trace' = Append(trace, e)
        /\ done' = done /\ vout' = vout /\ stack # << >>
    BY DEF TraceInv, Answered, Events
  <1>2. /\ L \in Nat /\ \A i \in 1..L : trace'[i] = trace[i]
    BY <1>1, Grew, EventsAre
  <1>3. /\ InvokesOf(vout)' = InvokesOf(vout) /\ InvokesOf(vout) \subseteq 1..L
    BY <1>1, ReturnGrew, EventsAre DEF InvokesOf
  <1>4. D \in Nat /\ DOMAIN stack = 1..D /\ D \in 1..D
    BY <1>1, StackIs DEF TraceInv
  <1>5. /\ Len(stack)' = D - 1 /\ (DOMAIN stack)' = 1..(D - 1)
        /\ stack' \in Seq([at : Nat, op : Ops, hold : [TokenSet -> Nat]])
        /\ \A d \in 1..(D - 1) :
              /\ stack'[d].at = stack[d].at /\ stack'[d].op = stack[d].op
              /\ \A id : Taken(d, id)' = Taken(d, id)
              /\ d # D - 1 => \A id : Held(d, id)' = Held(d, id)
    <2>1. PoppedStack(ok, out)
      BY Popped, Zenon
    <2> QED
      BY <2>1, Zenon DEF PoppedStack
  <1>6. \A d \in 1..D : StackOk(d)
    BY <1>4, Zenon DEF TraceInv, StackInv, StackOk
  <1>7. "other" \notin Leaves
    BY OpsAre DEF Leaves
  <1> HIDE DEF L, D
  <1>8. ASSUME NEW d \in 1..(D - 1) PROVE StackOk(d)'
    <2>1. /\ d \in 1..D /\ d < D /\ StackOk(d)
          /\ stack'[d].at = stack[d].at /\ stack'[d].op = stack[d].op
      <3>1. D \in Nat
        BY <1>4
      <3>2. d \in 1..D /\ d < D
        BY <3>1
      <3>3. StackOk(d)
        BY <1>6, <3>2
      <3> QED
        BY <1>5, <3>2, <3>3, Zenon
    <2>2. stack[d].op = "other" /\ stack[d].at \in InvokesOf(vout) /\ trace[stack[d].at].op = "other"
      BY <2>1 DEF StackOk, D
    <2>3. stack'[d].at \in InvokesOf(vout)'
      BY <1>3, <2>1, <2>2
    <2>4. trace'[stack'[d].at].op = "other"
      BY <1>2, <1>3, <2>1, <2>2
    <2>5. CASE d = D - 1
      <3>1. ~(d < D - 1)
        BY <1>4, <2>5
      <3> QED
        BY <1>1, <1>5, <1>7, <2>1, <2>2, <2>3, <2>4, <3>1 DEF StackOk, InvokesOf
    <2>6. CASE d # D - 1
      <3>1. d + 1 \in 1..(D - 1) /\ d < D /\ d # D - 1
        BY <1>4, <2>6
      <3>2. /\ stack'[d + 1].op = stack[d + 1].op
            /\ \A id : Taken(d + 1, id)' = Taken(d + 1, id) /\ Held(d, id)' = Held(d, id)
        BY <1>5, <3>1
      <3>3. /\ \A id \in TokenSet : Taken(d + 1, id) <= Held(d, id)
            /\ stack[d + 1].op \notin PoolOps =>
                  \/ \A id \in TokenSet \ {"fr"} : Taken(d + 1, id) = 0
                  \/ \A id \in TokenSet : Taken(d + 1, id) = Cap(Held(d, id))
        BY <2>1, <3>1 DEF StackOk, D
      <3> QED
        BY <1>1, <1>5, <1>7, <2>1, <2>2, <2>3, <2>4, <2>6, <3>2, <3>3 DEF StackOk, InvokesOf
    <2> QED
      BY <2>5, <2>6
  <1>9. ASSUME NEW d \in 1..(D - 1), NEW c \in 1..(D - 1), d < c PROVE stack'[d].at < stack'[c].at
    <2>1. d \in 1..D /\ c \in 1..D
      BY <1>4
    <2>2. stack[d].at < stack[c].at
      BY <1>4, <1>9, <2>1 DEF TraceInv, StackInv
    <2> QED
      BY <1>5, <2>2
  <1>10. vout' \in done'
    BY <1>1, VoutIs
  <1> QED
    BY <1>5, <1>8, <1>9, <1>10 DEF StackInv, StackOk

\* What the trace says of its calls after one has started
CallAdded(v, op, r) ==
    /\ Len(trace) \in Nat /\ Invokes \subseteq 1..Len(trace) /\ Returns \subseteq 1..Len(trace)
    /\ Invokes' = Invokes \cup {Len(trace) + 1} /\ Returns' = Returns
    /\ \A x : /\ InvokesOf(x)' = IF x = v THEN InvokesOf(x) \cup {Len(trace) + 1} ELSE InvokesOf(x)
              /\ ReturnsOf(x)' = ReturnsOf(x)
              /\ PoolCallsOf(x)' = IF x = v /\ op \in PoolOps
                                   THEN PoolCallsOf(x) \cup {Len(trace) + 1} ELSE PoolCallsOf(x)
    /\ \A i \in 1..Len(trace) :
          /\ trace'[i] = trace[i]
          /\ \A id : In(i, id)' = In(i, id) /\ Out(i, id)' = Out(i, id)
    /\ \A n : n = Len(trace) + 1 =>
          /\ trace'[n] = NewCall(v, op, r)
          /\ \A id : In(n, id)' = Total(r.in, id)
    /\ op \in Ops /\ r.in \in Lists /\ done' = done \cup {v} /\ vout' = v /\ own' = own

LEMMA CallIsAdded ==
    ASSUME TraceInv, NEW v, NEW op, NEW r, Pushes(v, op, r)
    PROVE  CallAdded(v, op, r)
  <1> DEFINE e == NewCall(v, op, r)
  <1>1. /\ EventInv /\ e \in InvokeEvents /\ e \in Events /\ trace' = Append(trace, e)
        /\ e.vout = v /\ e.op = op /\ e.in = r.in
        /\ op \in Ops /\ r.in \in Lists /\ done' = done \cup {v} /\ vout' = v /\ own' = own
    BY DEF TraceInv, Pushes, Events, NewCall, Filled
  <1> HIDE DEF e
  <1>2. /\ Len(trace) \in Nat /\ \A i \in 1..Len(trace) : trace'[i] = trace[i]
        /\ trace'[Len(trace) + 1] = e
    BY <1>1, Grew, EventsAre
  <1>3. Invokes \subseteq 1..Len(trace) /\ Returns \subseteq 1..Len(trace)
    BY <1>1, EventsAre
  <1>4. /\ Invokes' = Invokes \cup {Len(trace) + 1} /\ Returns' = Returns
        /\ \A x : /\ InvokesOf(x)' = IF x = v THEN InvokesOf(x) \cup {Len(trace) + 1} ELSE InvokesOf(x)
                  /\ ReturnsOf(x)' = ReturnsOf(x)
                  /\ PoolCallsOf(x)' = IF x = v /\ op \in PoolOps
                                       THEN PoolCallsOf(x) \cup {Len(trace) + 1} ELSE PoolCallsOf(x)
        /\ \A i \in 1..Len(trace) : \A id : In(i, id)' = In(i, id) /\ Out(i, id)' = Out(i, id)
        /\ \A n, id : n = Len(trace) + 1 => In(n, id)' = Total(r.in, id)
    BY <1>1, InvokeGrew
  <1> QED
    BY <1>1, <1>2, <1>3, <1>4 DEF CallAdded, e

\* and after one has ended
ReturnAdded(ok, out) ==
    /\ Len(trace) \in Nat /\ Invokes \subseteq 1..Len(trace) /\ Returns \subseteq 1..Len(trace)
    /\ Invokes' = Invokes /\ Returns' = Returns \cup {Len(trace) + 1}
    /\ \A x : /\ InvokesOf(x)' = InvokesOf(x) /\ PoolCallsOf(x)' = PoolCallsOf(x)
              /\ ReturnsOf(x)' = IF x = vout THEN ReturnsOf(x) \cup {Len(trace) + 1} ELSE ReturnsOf(x)
    /\ \A i \in 1..Len(trace) :
          /\ trace'[i] = trace[i]
          /\ \A id : In(i, id)' = In(i, id) /\ Out(i, id)' = Out(i, id)
    /\ \A n : n = Len(trace) + 1 =>
          /\ trace'[n] = NewReturn(ok, out)
          /\ \A id : Out(n, id)' = Total(out, id)
    /\ out \in Lists /\ done' = done /\ vout' = vout /\ vout \in done
    /\ stack[Len(stack)].at \in InvokesOf(vout)

LEMMA ReturnIsAdded ==
    ASSUME TraceInv, NEW ok, NEW out, Answered(ok, out)
    PROVE  ReturnAdded(ok, out)
  <1> DEFINE e == NewReturn(ok, out)
  <1>1. /\ EventInv /\ e \in ReturnEvents /\ e \in Events /\ trace' = Append(trace, e)
        /\ e.vout = vout /\ e.out = out /\ out \in Lists /\ done' = done /\ vout' = vout
    BY DEF TraceInv, Answered, Events, NewReturn, Filled
  <1> HIDE DEF e
  <1>2. /\ Len(trace) \in Nat /\ \A i \in 1..Len(trace) : trace'[i] = trace[i]
        /\ trace'[Len(trace) + 1] = e
    BY <1>1, Grew, EventsAre
  <1>3. Invokes \subseteq 1..Len(trace) /\ Returns \subseteq 1..Len(trace)
    BY <1>1, EventsAre
  <1>4. /\ Invokes' = Invokes /\ Returns' = Returns \cup {Len(trace) + 1}
        /\ \A x : /\ InvokesOf(x)' = InvokesOf(x) /\ PoolCallsOf(x)' = PoolCallsOf(x)
                  /\ ReturnsOf(x)' = IF x = vout THEN ReturnsOf(x) \cup {Len(trace) + 1} ELSE ReturnsOf(x)
        /\ \A i \in 1..Len(trace) : \A id : In(i, id)' = In(i, id) /\ Out(i, id)' = Out(i, id)
        /\ \A n, id : n = Len(trace) + 1 => Out(n, id)' = Total(out, id)
    BY <1>1, ReturnGrew
  <1>5. vout \in done /\ stack[Len(stack)].at \in InvokesOf(vout)
    BY VoutIs DEF Answered
  <1> QED
    BY <1>1, <1>2, <1>3, <1>4, <1>5 DEF ReturnAdded, e

LEMMA OwnPushed ==
    ASSUME TraceInv, NEW v, NEW op, NEW r, Pushes(v, op, r)
    PROVE  OwnInv'
  <1> DEFINE L == Len(trace)
             D == Len(stack)
             running == {stack[d].at : d \in DOMAIN stack}
  <1>a. CallAdded(v, op, r) /\ PushedStack(op, r)
    BY CallIsAdded, Pushed
  <1>1. /\ L \in Nat /\ Invokes \subseteq 1..L /\ Returns \subseteq 1..L
        /\ Invokes' = Invokes \cup {L + 1} /\ Returns' = Returns
        /\ \A x : ReturnsOf(x)' = ReturnsOf(x)
        /\ \A i \in 1..L : trace'[i] = trace[i]
        /\ own' = own
    BY <1>a DEF CallAdded
  <1>2. D \in Nat /\ DOMAIN stack = 1..D /\ \A d \in 1..D : stack[d].at \in Invokes
    BY StackIs DEF TraceInv, StackInv, InvokesOf
  <1>3. /\ (DOMAIN stack)' = 1..(D + 1) /\ \A d \in 1..D : stack'[d] = stack[d]
        /\ stack'[D + 1].at = L + 1
    BY <1>a DEF PushedStack
  <1>4. running' = running \cup {L + 1}
    <2>1. \A d : d \in 1..(D + 1) <=> d \in 1..D \/ d = D + 1
      BY <1>2
    <2> HIDE DEF D, L
    <2> QED
      BY <1>2, <1>3, <2>1
  <1>5. OwnInv
    BY DEF TraceInv
  <1> HIDE DEF L, D, running
  <1>6. DOMAIN own' = Invokes' \ running'
    <2>1. DOMAIN own = Invokes \ running /\ L + 1 \notin Invokes
      BY <1>1, <1>5 DEF OwnInv, running
    <2> QED
      BY <1>1, <1>4, <2>1
  <1>7. ASSUME NEW i \in DOMAIN own'
        PROVE  /\ own'[i] \in Returns' /\ trace'[own'[i]].vout = trace'[i].vout
               /\ i < own'[i]
               /\ trace'[i].op \in Leaves =>
                     /\ own'[i] = i + 1
                     /\ trace'[own'[i]].ok => Gave(trace'[i], trace'[own'[i]].out)
    <2>1. i \in DOMAIN own /\ i \in Invokes
      BY <1>1, <1>5, <1>7 DEF OwnInv
    <2>2. own[i] \in Returns /\ trace[own[i]].vout = trace[i].vout /\ own[i] \in 1..L
      BY <1>1, <1>5, <2>1 DEF OwnInv, ReturnsOf
    <2>3. trace'[i] = trace[i] /\ trace'[own[i]] = trace[own[i]]
      BY <1>1, <2>1, <2>2
    <2>5. /\ i < own[i]
          /\ trace[i].op \in Leaves =>
                /\ own[i] = i + 1
                /\ trace[own[i]].ok => Gave(trace[i], trace[own[i]].out)
      BY <1>5, <2>1 DEF OwnInv
    <2> QED
      BY <1>1, <2>2, <2>3, <2>5, Zenon
  <1>8. \A j \in Returns' : \E i \in DOMAIN own' : own'[i] = j
    BY <1>1, <1>5 DEF OwnInv
  <1> QED
    BY <1>6, <1>7, <1>8, Zenon DEF OwnInv, running, ReturnsOf

LEMMA OwnAnswered ==
    ASSUME TraceInv, NEW ok, NEW out, Answered(ok, out)
    PROVE  OwnInv'
  <1> DEFINE L == Len(trace)
             D == Len(stack)
             at == stack[D].at
             running == {stack[d].at : d \in DOMAIN stack}
  <1>a. ReturnAdded(ok, out) /\ PoppedStack(ok, out)
    BY ReturnIsAdded, Popped
  <1>1. /\ L \in Nat /\ Invokes \subseteq 1..L /\ Returns \subseteq 1..L
        /\ Invokes' = Invokes /\ Returns' = Returns \cup {L + 1}
        /\ \A x : ReturnsOf(x)' = IF x = vout THEN ReturnsOf(x) \cup {L + 1} ELSE ReturnsOf(x)
        /\ \A i \in 1..L : trace'[i] = trace[i]
        /\ trace'[L + 1] = NewReturn(ok, out)
        /\ at \in InvokesOf(vout)
    BY <1>a DEF ReturnAdded
  <1>2. /\ D \in Nat /\ DOMAIN stack = 1..D /\ D \in 1..D
        /\ \A d \in 1..D : stack[d].at \in Invokes
        /\ \A d \in 1..D : \A c \in 1..D : d < c => stack[d].at < stack[c].at
    BY StackIs DEF TraceInv, StackInv, InvokesOf, Answered
  <1>3. (DOMAIN stack)' = 1..(D - 1) /\ \A d \in 1..(D - 1) : stack'[d].at = stack[d].at
    BY <1>a DEF PoppedStack
  <1>4. own' = [i \in DOMAIN own \cup {at} |-> IF i = at THEN L + 1 ELSE own[i]]
    BY DEF Answered
  <1>b. trace[at].op \in Leaves => at = L /\ (ok => Gave(trace[at], out))
    <2>1. trace[at].op = stack[D].op /\ (stack[D].op \in Leaves => at = L)
      BY <1>2 DEF TraceInv, StackInv
    <2>2. stack[D].op \in Leaves => stack[D].op # "other"
      BY OpsAre DEF Leaves
    <2> QED
      BY <2>1, <2>2 DEF Answered
  <1> HIDE DEF L, D, at
  <1>5. running' = running \ {at} /\ at \in running
    <2>1. \A d : d \in 1..(D - 1) <=> d \in 1..D /\ d # D
      BY <1>2
    <2>2. \A d \in 1..D : stack[d].at \in Nat
      <3>1. Invokes \subseteq Nat
        BY <1>1
      <3> QED
        BY <1>2, <3>1
    <2>4. at = stack[D].at
      BY DEF at
    <2>3. \A d \in 1..D : d # D => stack[d].at < stack[D].at
      BY <1>2
    <2> QED
      BY <1>2, <1>3, <2>1, <2>2, <2>3, <2>4, SMTT(30)
  <1>6. OwnInv
    BY DEF TraceInv
  <1> HIDE DEF running
  <1>7. DOMAIN own = Invokes \ running
    BY <1>6 DEF OwnInv, running
  <1>8. at \in Invokes /\ at \notin DOMAIN own /\ DOMAIN own' = DOMAIN own \cup {at}
        /\ own'[at] = L + 1 /\ \A i \in DOMAIN own : own'[i] = own[i]
    BY <1>1, <1>4, <1>5, <1>7 DEF InvokesOf
  <1>9. DOMAIN own' = Invokes' \ running'
    BY <1>1, <1>5, <1>7, <1>8
  <1>10. ASSUME NEW i \in DOMAIN own'
        PROVE  /\ own'[i] \in Returns' /\ trace'[own'[i]].vout = trace'[i].vout
               /\ i < own'[i]
               /\ trace'[i].op \in Leaves =>
                     /\ own'[i] = i + 1
                     /\ trace'[own'[i]].ok => Gave(trace'[i], trace'[own'[i]].out)
    <2>1. CASE i \in DOMAIN own
      <3>1. i \in Invokes /\ own'[i] = own[i]
        BY <1>7, <1>8, <2>1
      <3>2. own[i] \in Returns /\ trace[own[i]].vout = trace[i].vout /\ own[i] \in 1..L
        BY <1>1, <1>6, <2>1 DEF OwnInv, ReturnsOf
      <3>3. trace'[i] = trace[i] /\ trace'[own[i]] = trace[own[i]]
        BY <1>1, <3>1, <3>2
      <3>4. own[i] \in Returns'
        BY <1>1, <3>2
      <3>5. /\ i < own[i]
            /\ trace[i].op \in Leaves =>
                  /\ own[i] = i + 1
                  /\ trace[own[i]].ok => Gave(trace[i], trace[own[i]].out)
        BY <1>6, <2>1 DEF OwnInv
      <3> QED
        BY <3>1, <3>2, <3>3, <3>4, <3>5, Zenon
    <2>2. CASE i = at
      <3>1. at \in 1..L /\ trace'[at] = trace[at] /\ own'[at] = L + 1 /\ trace[at].vout = vout
        BY <1>1, <1>8 DEF InvokesOf
      <3>2. L + 1 \in Returns' /\ trace'[L + 1].vout = vout
        BY <1>1, <3>1 DEF NewReturn
      <3>3. at < L + 1
        BY <1>1, <3>1
      <3>4. trace'[L + 1].ok = ok /\ trace'[L + 1].out = out
        BY <1>1 DEF NewReturn
      <3> QED
        BY <1>b, <2>2, <3>1, <3>2, <3>3, <3>4, Zenon
    <2> QED
      BY <1>8, <2>1, <2>2
  <1>11. \A j \in Returns' : \E i \in DOMAIN own' : own'[i] = j
    <2>1. \A j \in Returns : \E i \in DOMAIN own : own[i] = j
      BY <1>6 DEF OwnInv
    <2> QED
      BY <1>1, <1>8, <2>1
  <1> QED
    BY <1>9, <1>10, <1>11, Zenon DEF OwnInv, running, ReturnsOf

-----------------------------------------------------------------------------
(* What a sole call of the pool gave *)

LEMMA OwnIs ==
    ASSUME TraceInv
    PROVE  /\ DOMAIN own \subseteq Invokes
           /\ \A i \in DOMAIN own : own[i] \in Returns /\ own[i] \in 1..Len(trace) /\ i < own[i]
           /\ \A d \in DOMAIN stack : stack[d].at \in Invokes /\ stack[d].at \notin DOMAIN own
           /\ \A i \in Invokes : i \in DOMAIN own \/ \E d \in DOMAIN stack : i = stack[d].at
  <1>1. OwnInv /\ Returns \subseteq 1..Len(trace)
    BY EventsAre DEF TraceInv
  <1>2. \A d \in DOMAIN stack : stack[d].at \in Invokes
    BY DEF TraceInv, StackInv, InvokesOf
  <1> QED
    BY <1>1, <1>2 DEF OwnInv, ReturnsOf

LEMMA GiftsAre ==
    ASSUME TraceInv, NEW v, NEW id
    PROVE  Gifts(v, id) \subseteq 0..AmountMax /\ 0 \in Gifts(v, id)
  <1>1. \A i \in DOMAIN own : own[i] \in Returns
    BY OwnIs
  <1>2. \A j \in Returns : Out(j, id) \in 0..AmountMax
    BY EventsAre DEF TraceInv
  <1>3. 0 \in 0..AmountMax
    BY CapIs
  <1> QED
    BY <1>1, <1>2, <1>3 DEF Gifts

\* What GiftInv says of a protostone and a token
Gift(v, id) ==
    /\ \A j \in ReturnsOf(v) : Out(j, id) \in Gifts(v, id)
    /\ v = vout => \A d \in DOMAIN stack :
          /\ Held(d, id) \in Gifts(v, id)
          /\ Held(d, id) # 0 => Taken(d, id) # 0 \/ \A e \in 1..(d - 1) : Held(e, id) = 0

LEMMA GiftIs == GiftInv <=> \A v \in done, id \in TokenSet \ {"fr"} : Sole(v) /\ Bare(v, id) => Gift(v, id)
  BY Zenon DEF GiftInv, Gift

\* Nothing is known of a protostone that has not run.
LEMMA Fresh ==
    ASSUME TraceInv, NEW v, v \notin done
    PROVE  InvokesOf(v) = {} /\ ReturnsOf(v) = {}
  BY DEF TraceInv, EventInv, InvokesOf, ReturnsOf, Invokes, Returns

\* A call that starts leaves what its protostone is asked about as it was.
LEMMA StillSole ==
    ASSUME TraceInv, NEW v, NEW op, NEW r, Pushes(v, op, r), NEW x, NEW id
    PROVE  /\ Sole(x)' => Sole(x)
           /\ Bare(x, id)' => Bare(x, id)
           /\ Gifts(x, id)' = Gifts(x, id)
  <1> DEFINE L == Len(trace)
  <1>1. CallAdded(v, op, r)
    BY CallIsAdded
  <1>2. /\ L \in Nat /\ Invokes \subseteq 1..L /\ own' = own
        /\ InvokesOf(x)' = IF x = v THEN InvokesOf(x) \cup {L + 1} ELSE InvokesOf(x)
        /\ PoolCallsOf(x)' = IF x = v /\ op \in PoolOps THEN PoolCallsOf(x) \cup {L + 1}
                             ELSE PoolCallsOf(x)
        /\ \A i \in 1..L : In(i, id)' = In(i, id) /\ Out(i, id)' = Out(i, id)
    BY <1>1 DEF CallAdded
  <1>3. InvokesOf(x) \subseteq 1..L
    BY <1>2 DEF InvokesOf
  <1> HIDE DEF L
  <1>4. Sole(x)' => Sole(x)
    BY <1>2 DEF Sole
  <1>5. ASSUME Bare(x, id)' PROVE Bare(x, id)
    <2> SUFFICES ASSUME NEW k \in InvokesOf(x), \A l \in InvokesOf(x) : k <= l PROVE In(k, id) = 0
      BY DEF Bare
    <2>1. k \in InvokesOf(x)' /\ k \in 1..L
      BY <1>2, <1>3
    <2>2. \A l \in InvokesOf(x)' : k <= l
      BY <1>2, <1>3, <2>1
    <2>3. In(k, id)' = 0
      BY <1>5, <2>1, <2>2 DEF Bare
    <2> QED
      BY <1>2, <2>1, <2>3
  <1>6. Gifts(x, id)' = Gifts(x, id)
    <2>1. PoolCallsOf(x)' \cap DOMAIN own' = PoolCallsOf(x) \cap DOMAIN own
      <3>1. DOMAIN own \subseteq 1..L /\ L + 1 \notin 1..L
        BY <1>2, OwnIs
      <3> QED
        BY <1>2, <3>1
    <2>2. \A i \in DOMAIN own : own'[i] = own[i] /\ own[i] \in 1..L
      BY <1>2, OwnIs DEF L
    <2>3. \A i \in DOMAIN own : Out(own[i], id)' = Out(own[i], id)
      <3> TAKE i \in DOMAIN own
      <3>1. PICK n \in 1..L : n = own[i]
        BY <2>2
      <3>2. Out(n, id)' = Out(n, id)
        BY <1>2
      <3>3. Out(own[i], id)' = Out(n, id)'
        BY <1>2, <3>1 DEF Out
      <3> QED
        BY <3>1, <3>2, <3>3
    <2> QED
      BY <2>1, <2>3 DEF Gifts
  <1> QED
    BY <1>4, <1>5, <1>6

LEMMA GiftPushed ==
    ASSUME TraceInv, NEW v, NEW op, NEW r, Pushes(v, op, r)
    PROVE  GiftInv'
  <1> SUFFICES ASSUME NEW x \in done', NEW id \in TokenSet \ {"fr"}, Sole(x)', Bare(x, id)'
               PROVE  Gift(x, id)'
    BY Zenon DEF GiftInv, Gift
  <1> DEFINE L == Len(trace)
             D == Len(stack)
             G == Gifts(x, id)
  <1>a. CallAdded(v, op, r) /\ PushedStack(op, r)
    BY CallIsAdded, Pushed
  <1>1. /\ L \in Nat /\ Returns \subseteq 1..L /\ Invokes \subseteq 1..L
        /\ InvokesOf(x)' = IF x = v THEN InvokesOf(x) \cup {L + 1} ELSE InvokesOf(x)
        /\ ReturnsOf(x)' = ReturnsOf(x)
        /\ PoolCallsOf(x)' = IF x = v /\ op \in PoolOps THEN PoolCallsOf(x) \cup {L + 1}
                             ELSE PoolCallsOf(x)
        /\ \A i \in 1..L : Out(i, id)' = Out(i, id)
        /\ \A n : n = L + 1 => In(n, id)' = Total(r.in, id)
        /\ done' = done \cup {v} /\ vout' = v /\ r.in \in Lists
    BY <1>a DEF CallAdded
  <1>2. /\ (DOMAIN stack)' = 1..(D + 1)
        /\ \A d \in 1..D : Held(d, id)' = Held(d, id) /\ Taken(d, id)' = Taken(d, id)
        /\ \A d : d = D + 1 => Held(d, id)' = Total(r.in, id) /\ Taken(d, id)' = Total(r.in, id)
    BY <1>a DEF PushedStack
  <1>3. Sole(x) /\ Bare(x, id) /\ Gifts(x, id)' = G
    BY StillSole
  <1>4. D \in Nat /\ DOMAIN stack = 1..D /\ (stack # << >> => D \in 1..D) /\ (stack = << >> => D = 0)
    BY StackIs, EmptySeq DEF TraceInv
  <1>5. G \subseteq 0..AmountMax /\ 0 \in G /\ AmountMax \in Nat
    BY GiftsAre, CapIs
  <1>6. x \in done => Gift(x, id)
    BY <1>3, GiftIs DEF TraceInv
  <1>7. /\ stack = << >> => v \notin done
        /\ stack # << >> => v = vout /\ Handed(op, r, stack[D].hold)
    BY DEF Pushes
  <1>8. Total(r.in, id) \in Nat
    BY <1>1, TotalIn
  <1>b. ReturnsOf(x) \subseteq 1..L
    BY <1>1 DEF ReturnsOf
  <1> HIDE DEF L, D, G
  <1>9. \A j \in ReturnsOf(x)' : Out(j, id)' \in G
    <2>1. CASE x \in done
      BY <1>1, <1>6, <1>b, <2>1 DEF Gift, G
    <2>2. CASE x \notin done
      BY <1>1, <2>2, Fresh
    <2> QED
      BY <2>1, <2>2
  <1>10. ASSUME x = vout', NEW d \in 1..(D + 1)
         PROVE  /\ Held(d, id)' \in G
                /\ Held(d, id)' # 0 => Taken(d, id)' # 0 \/ \A e \in 1..(d - 1) : Held(e, id)' = 0
    <2>1. x = v
      BY <1>1, <1>10
    <2>2. CASE d \in 1..D
      <3>1. /\ stack # << >> /\ x = vout /\ d \in DOMAIN stack /\ x \in done
            /\ \A e \in 1..(d - 1) : e \in 1..D
        BY <1>4, <1>7, <2>1, <2>2 DEF TraceInv, StackInv
      <3>2. /\ Held(d, id) \in G
            /\ Held(d, id) # 0 => Taken(d, id) # 0 \/ \A e \in 1..(d - 1) : Held(e, id) = 0
        BY <1>6, <3>1 DEF Gift, G
      <3> QED
        BY <1>2, <2>2, <3>1, <3>2
    <2>3. CASE d = D + 1
      <3>1. Held(d, id)' = Total(r.in, id) /\ Taken(d, id)' = Total(r.in, id)
        BY <1>2, <2>3
      <3>2. CASE stack = << >>
        <4>1. InvokesOf(x)' = {L + 1}
          BY <1>1, <1>7, <2>1, <3>2, Fresh
        <4>2. \A n : n = L + 1 => In(n, id)' = 0
          <5> TAKE n
          <5> HAVE n = L + 1
          <5>1. n <= n
            BY <1>1
          <5> QED
            BY <4>1, <5>1 DEF Bare
        <4>3. Total(r.in, id) = 0
          BY <1>1, <4>2
        <4> QED
          BY <1>5, <3>1, <4>3
      <3>3. CASE stack # << >>
        <4>1. x = vout /\ D \in DOMAIN stack /\ x \in done /\ Held(D, id) \in G
          BY <1>4, <1>6, <1>7, <2>1, <3>3 DEF TraceInv, StackInv, Gift, G
        <4>2. /\ Total(r.in, id) <= Held(D, id)
              /\ op \notin PoolOps => Total(r.in, id) = 0 \/ Total(r.in, id) = Cap(Held(D, id))
          BY <1>7, <3>3 DEF Handed, Held
        <4>3. CASE op \in PoolOps
          <5>1. PoolCallsOf(x) = {}
            <6>1. L + 1 \in PoolCallsOf(x)' /\ \A i \in PoolCallsOf(x) : i \in PoolCallsOf(x)'
              BY <1>1, <2>1, <4>3
            <6>2. \A i \in PoolCallsOf(x) : i # L + 1
              BY <1>1 DEF PoolCallsOf, InvokesOf
            <6>3. \A i \in PoolCallsOf(x)' : i = L + 1
              BY <6>1 DEF Sole
            <6> QED
              BY <6>1, <6>2, <6>3
          <5>2. Held(D, id) = 0
            BY <4>1, <5>1 DEF Gifts, G
          <5>3. Total(r.in, id) = 0
            BY <1>8, <4>2, <5>2
          <5> QED
            BY <1>5, <3>1, <5>3
        <4>4. CASE op \notin PoolOps
          <5>1. Cap(Held(D, id)) = Held(D, id)
            <6>1. Held(D, id) \in 0..AmountMax
              BY <1>5, <4>1
            <6> QED
              BY <1>5, <6>1, CapIs
          <5>2. Total(r.in, id) \in G
            BY <1>5, <4>1, <4>2, <4>4, <5>1
          <5> QED
            BY <3>1, <5>2
        <4> QED
          BY <4>3, <4>4
      <3> QED
        BY <3>2, <3>3
    <2> QED
      BY <1>4, <2>2, <2>3
  <1> QED
    BY <1>2, <1>3, <1>9, <1>10 DEF Gift

\* An answer leaves what was given before as it was.
LEMMA StillGiven ==
    ASSUME TraceInv, NEW ok, NEW out, Answered(ok, out), NEW x, NEW id
    PROVE  /\ Sole(x)' <=> Sole(x)
           /\ Bare(x, id)' <=> Bare(x, id)
           /\ \A i \in DOMAIN own : own'[i] = own[i] /\ Out(own[i], id)' = Out(own[i], id)
           /\ LET at == stack[Len(stack)].at
              IN  /\ at \notin DOMAIN own /\ DOMAIN own' = DOMAIN own \cup {at}
                  /\ own'[at] = Len(trace) + 1
                  /\ \A i : i = at => Out(own[i], id)' = Total(out, id)
                  /\ Gifts(x, id)' =
                       IF at \in PoolCallsOf(x) THEN Gifts(x, id) \cup {Total(out, id)} ELSE Gifts(x, id)
  <1> DEFINE L == Len(trace)
             at == stack[Len(stack)].at
  <1>1. ReturnAdded(ok, out)
    BY ReturnIsAdded
  <1>2. /\ L \in Nat /\ Invokes \subseteq 1..L
        /\ InvokesOf(x)' = InvokesOf(x) /\ PoolCallsOf(x)' = PoolCallsOf(x)
        /\ \A i \in 1..L : In(i, id)' = In(i, id) /\ Out(i, id)' = Out(i, id)
        /\ \A n : n = L + 1 => Out(n, id)' = Total(out, id)
    BY <1>1 DEF ReturnAdded
  <1>3. Sole(x)' <=> Sole(x)
    BY <1>2 DEF Sole
  <1>4. Bare(x, id)' <=> Bare(x, id)
    <2>1. \A i \in InvokesOf(x) : In(i, id)' = In(i, id)
      BY <1>2 DEF InvokesOf
    <2> QED
      BY <1>2, <2>1 DEF Bare
  <1>5. at \notin DOMAIN own
    <2>1. Len(stack) \in DOMAIN stack
      BY StackIs DEF TraceInv, Answered
    <2> QED
      BY <2>1, OwnIs
  <1>6. own' = [i \in DOMAIN own \cup {at} |-> IF i = at THEN L + 1 ELSE own[i]]
    BY DEF Answered
  <1> HIDE DEF L, at
  <1>7. /\ DOMAIN own' = DOMAIN own \cup {at} /\ own'[at] = L + 1
        /\ \A i \in DOMAIN own : own'[i] = own[i]
    BY <1>5, <1>6
  <1>8. \A i \in DOMAIN own : Out(own[i], id)' = Out(own[i], id)
    <2> TAKE i \in DOMAIN own
    <2>1. PICK n \in 1..L : n = own[i]
      BY OwnIs DEF L
    <2>2. Out(n, id)' = Out(n, id)
      BY <1>2
    <2>3. Out(own[i], id)' = Out(n, id)'
      BY <1>7, <2>1 DEF Out
    <2> QED
      BY <2>1, <2>2, <2>3
  <1>9. \A y : y = at => Out(own[y], id)' = Total(out, id)
    <2>1. \A n : n = L + 1 => Out(n, id)' = Total(out, id)
      BY <1>2
    <2>2. \A y, n : y = at /\ n = own'[y] => Out(own[y], id)' = Out(n, id)'
      BY DEF Out
    <2> QED
      BY <1>7, <2>1, <2>2
  <1>10. Gifts(x, id)' = IF at \in PoolCallsOf(x) THEN Gifts(x, id) \cup {Total(out, id)} ELSE Gifts(x, id)
    BY <1>2, <1>5, <1>7, <1>8, <1>9 DEF Gifts
  <1> QED
    BY <1>3, <1>4, <1>5, <1>7, <1>8, <1>9, <1>10 DEF L, at

LEMMA GiftAnswered ==
    ASSUME TraceInv, NEW ok, NEW out, Answered(ok, out)
    PROVE  GiftInv'
  <1> SUFFICES ASSUME NEW x \in done', NEW id \in TokenSet \ {"fr"}, Sole(x)', Bare(x, id)'
               PROVE  Gift(x, id)'
    BY Zenon DEF GiftInv, Gift
  <1> DEFINE L == Len(trace)
             D == Len(stack)
             G == Gifts(x, id)
             at == stack[D].at
             g == Total(out, id)
  <1>a. ReturnAdded(ok, out) /\ PoppedStack(ok, out)
    BY ReturnIsAdded, Popped
  <1>1. /\ L \in Nat /\ Returns \subseteq 1..L
        /\ ReturnsOf(x)' = IF x = vout THEN ReturnsOf(x) \cup {L + 1} ELSE ReturnsOf(x)
        /\ \A i \in 1..L : Out(i, id)' = Out(i, id)
        /\ \A n : n = L + 1 => Out(n, id)' = g
        /\ done' = done /\ vout' = vout /\ vout \in done /\ out \in Lists
        /\ at \in InvokesOf(vout)
    BY <1>a DEF ReturnAdded
  <1>2. /\ (DOMAIN stack)' = 1..(D - 1)
        /\ \A d \in 1..(D - 1) :
              /\ Taken(d, id)' = Taken(d, id)
              /\ d # D - 1 => Held(d, id)' = Held(d, id)
              /\ d = D - 1 => Held(d, id)' = Held(d, id) - Spent(ok, id) + g
    BY <1>a DEF PoppedStack
  <1>3. /\ Sole(x) /\ Bare(x, id) /\ at \notin DOMAIN own
        /\ Gifts(x, id)' = IF at \in PoolCallsOf(x) THEN G \cup {g} ELSE G
    BY StillGiven
  <1>4. D \in Nat /\ DOMAIN stack = 1..D /\ D \in 1..D /\ \A d \in 1..D : Held(d, id) \in Nat
    BY StackIs DEF TraceInv, Answered
  <1>5. G \subseteq 0..AmountMax /\ 0 \in G /\ AmountMax \in Nat
    BY GiftsAre, CapIs
  <1>6. Gift(x, id)
    BY <1>1, <1>3, GiftIs DEF TraceInv
  <1>7. g \in Nat /\ ok \in BOOLEAN /\ (~ok => g = 0)
    BY <1>1, TotalIn, TotalEmpty DEF Answered, NewReturn, ReturnEvents
  <1>8. \A d \in 1..D : Taken(d, id) \in Nat
    <2>1. \A d \in 1..D : stack[d].at \in Invokes
      BY <1>4, OwnIs
    <2> QED
      BY <2>1, EventsAre, CapIs DEF TraceInv, Taken
  <1>9. ReturnsOf(x) \subseteq 1..L
    BY <1>1 DEF ReturnsOf
  <1>10. Spent(ok, id) = IF ok THEN Taken(D, id) ELSE 0
    BY DEF Spent
  <1>11. stack[D].op = trace[at].op /\ stack[D].op \in Ops
    BY <1>4, StackIs DEF TraceInv, StackInv
  <1>12. \A d \in 1..(D - 1) : d \in 1..D /\ d < D
    BY <1>4
  <1> HIDE DEF L, D, G, at, g
  <1>13. CASE x # vout
    <2>1. at \notin PoolCallsOf(x)
      BY <1>1, <1>13 DEF PoolCallsOf, InvokesOf
    <2> QED
      BY <1>1, <1>3, <1>6, <1>9, <1>13, <2>1 DEF Gift, G
  <1>14. CASE x = vout /\ stack[D].op \in PoolOps
    <2>1. at \in PoolCallsOf(x)
      BY <1>1, <1>11, <1>14 DEF PoolCallsOf
    <2>2. G = {0} /\ Gifts(x, id)' = {0, g}
      <3>1. PoolCallsOf(x) \cap DOMAIN own = {}
        BY <1>3, <2>1 DEF Sole
      <3>2. G = {0}
        BY <3>1 DEF G, Gifts
      <3> QED
        BY <1>3, <2>1, <3>2
    <2>3. \A j \in ReturnsOf(x)' : Out(j, id)' \in {0, g}
      BY <1>1, <1>6, <1>9, <2>2 DEF Gift, G
    <2>4. \A d \in 1..D : Held(d, id) = 0
      BY <1>4, <1>6, <1>14, <2>2 DEF Gift, G
    <2>5. ASSUME NEW d \in 1..(D - 1)
          PROVE  /\ Held(d, id)' \in {0, g}
                 /\ Held(d, id)' # 0 => \A e \in 1..(d - 1) : Held(e, id)' = 0
      <3>1. CASE d # D - 1
        BY <1>2, <1>12, <2>4, <3>1
      <3>2. CASE d = D - 1
        <4>1. d \in 1..D /\ d < D /\ d + 1 = D /\ D # 1
          BY <1>4, <3>2
        <4>2. Spent(ok, id) <= Held(d, id) /\ Spent(ok, id) \in Nat
          BY <1>a, <3>2, <4>1 DEF PoppedStack, D
        <4>3. Held(d, id)' = g
          BY <1>2, <1>7, <2>4, <3>2, <4>1, <4>2
        <4>4. \A e \in 1..(d - 1) : e \in 1..(D - 1) /\ e # D - 1 /\ e \in 1..D
          BY <1>4, <3>2
        <4> QED
          BY <1>2, <2>4, <4>3, <4>4
      <3> QED
        BY <3>1, <3>2
    <2> QED
      BY <1>2, <2>2, <2>3, <2>5 DEF Gift
  <1>15. CASE x = vout /\ stack[D].op \notin PoolOps
    <2>1. Gifts(x, id)' = G
      <3>1. at \notin PoolCallsOf(x)
        BY <1>11, <1>15 DEF PoolCallsOf
      <3> QED
        BY <1>3, <3>1
    <2>2. /\ \A d \in 1..D :
                /\ Held(d, id) \in G
                /\ Held(d, id) # 0 => Taken(d, id) # 0 \/ \A e \in 1..(d - 1) : Held(e, id) = 0
          /\ \A j \in ReturnsOf(x) : Out(j, id) \in G
      BY <1>4, <1>6, <1>15 DEF Gift, G
    <2>3. Cap(Held(D, id)) = Held(D, id)
      <3>1. Held(D, id) \in 0..AmountMax
        BY <1>4, <1>5, <2>2
      <3> QED
        BY <1>5, <3>1, CapIs
    <2>4. ASSUME ok
          PROVE  \/ stack[D].op = "other" /\ g = Held(D, id)
                 \/ stack[D].op \in SubfrostOps /\ g = 0 /\ Taken(D, id) = 0
      <3>1. CASE stack[D].op = "other"
        <4>1. ok /\ id \in TokenSet
          BY <2>4
        <4>2. \A t \in TokenSet : Total(out, t) = Cap(Held(D, t))
          BY <3>1, <4>1 DEF Answered, D
        <4>3. Total(out, id) = Cap(Held(D, id))
          BY <4>1, <4>2
        <4> QED
          BY <2>3, <3>1, <4>3 DEF g
      <3>2. CASE stack[D].op # "other"
        <4>1. stack[D].op \in SubfrostOps /\ id \in TokenSet \ {"fr"}
          BY <1>11, <1>15, <3>2, OpsAre
        <4>2. Gave(trace[at], out) /\ Asks(trace[at])
          BY <1>1, <2>4, <3>2 DEF Answered, D, at, TraceInv, EventInv, InvokesOf
        <4>3. g = 0 /\ Total(trace[at].in, id) = 0
          BY <1>11, <4>1, <4>2 DEF Gave, Asks, g
        <4> QED
          BY <4>1, <4>3 DEF Taken, In, at
      <3> QED
        BY <3>1, <3>2
    <2>5. g \in G
      BY <1>4, <1>5, <1>7, <2>2, <2>4
    <2>6. \A j \in ReturnsOf(x)' : Out(j, id)' \in G
      BY <1>1, <1>9, <1>15, <2>2, <2>5
    <2>7. ASSUME NEW d \in 1..(D - 1)
          PROVE  /\ Held(d, id)' \in G
                 /\ Held(d, id)' # 0 => Taken(d, id)' # 0 \/ \A e \in 1..(d - 1) : Held(e, id)' = 0
      <3>1. \A e \in 1..(d - 1) : e \in 1..D /\ e \in 1..(D - 1) /\ e # D - 1
        BY <1>4
      <3>2. d \in 1..D /\ \A e \in 1..(d - 1) : Held(e, id)' = Held(e, id)
        BY <1>2, <1>12, <3>1
      <3>3. Taken(d, id)' = Taken(d, id)
        BY <1>2
      <3>4. CASE Held(d, id)' = Held(d, id)
        BY <2>2, <3>2, <3>3, <3>4
      <3>5. CASE Held(d, id)' # Held(d, id)
        <4>1. d = D - 1 /\ d \in 1..D /\ D \in 1..D /\ d + 1 = D /\ d < D
          BY <1>2, <1>4, <1>12, <3>5
        <4>2. Held(d, id)' = Held(d, id) - Spent(ok, id) + g
          BY <1>2, <4>1
        <4>3. /\ Held(d, id) \in Nat /\ Held(D, id) \in Nat /\ Taken(D, id) \in Nat
              /\ Held(d, id) \in G /\ Held(D, id) \in G
          BY <1>4, <1>8, <2>2, <4>1
        <4>4. ok
          BY <1>7, <1>10, <3>5, <4>2, <4>3
        <4>5. stack[D].op = "other" /\ g = Held(D, id)
          BY <1>10, <2>4, <3>5, <4>2, <4>3, <4>4
        <4>6. Taken(D, id) = 0 \/ Taken(D, id) = Cap(Held(d, id))
          <5>1. StackOk(d)
            BY <1>4, <4>1 DEF TraceInv, StackInv, StackOk
          <5> QED
            BY <1>15, <4>1, <5>1 DEF StackOk, D
        <4>7. Cap(Held(d, id)) = Held(d, id)
          <5>1. Held(d, id) \in 0..AmountMax
            BY <1>5, <4>3
          <5> QED
            BY <1>5, <5>1, CapIs
        <4>8. /\ Held(D, id) # 0 => Taken(D, id) # 0 \/ \A e \in 1..(D - 1) : Held(e, id) = 0
              /\ Held(d, id) # 0 => Taken(d, id) # 0 \/ \A e \in 1..(d - 1) : Held(e, id) = 0
          BY <2>2, <4>1
        <4>9. CASE Taken(D, id) = Held(d, id)
          <5>1. Held(d, id)' = Held(D, id)
            BY <1>10, <4>2, <4>3, <4>4, <4>5, <4>9
          <5>2. \A e \in 1..(d - 1) : e \in 1..(D - 1)
            BY <3>1
          <5> QED
            BY <3>2, <3>3, <4>3, <4>8, <4>9, <5>1, <5>2
        <4>10. CASE Taken(D, id) = 0
          <5>1. Held(d, id)' = Held(d, id) + Held(D, id)
            BY <1>10, <4>2, <4>3, <4>4, <4>5, <4>10
          <5>2. Held(D, id) # 0
            BY <3>5, <4>3, <5>1
          <5>3. Held(d, id) = 0
            BY <4>1, <4>8, <4>10, <5>2
          <5> QED
            BY <4>9, <4>10, <5>3
        <4> QED
          BY <4>6, <4>7, <4>9, <4>10
      <3> QED
        BY <3>4, <3>5
    <2> QED
      BY <1>2, <2>1, <2>6, <2>7 DEF Gift
  <1> QED
    BY <1>13, <1>14, <1>15

-----------------------------------------------------------------------------
(* What a creation or a mint left over *)

\* What ChangeInv says of a protostone and an answered call of the pool in it
Change(v, i) ==
    /\ \A j \in ReturnsOf(v) : Out(j, "lp") # 0 => Out(j, "t0") >= Out(own[i], "t0")
    /\ v = vout => \A d \in DOMAIN stack :
          Held(d, "lp") # 0 => Held(d, "t0") >= Out(own[i], "t0")

LEMMA ChangeIs ==
    ChangeInv <=> \A v \in done : Sole(v) /\ Bare(v, "lp") =>
                    \A i \in PoolCallsOf(v) \cap DOMAIN own :
                        trace[i].op \in {"create", "mint"} => Change(v, i)
  BY Zenon DEF ChangeInv, Change

LEMMA ChangePushed ==
    ASSUME TraceInv, NEW v, NEW op, NEW r, Pushes(v, op, r)
    PROVE  ChangeInv'
  <1> SUFFICES ASSUME NEW x \in done', Sole(x)', Bare(x, "lp")',
                      NEW i \in PoolCallsOf(x)' \cap DOMAIN own', trace'[i].op \in {"create", "mint"}
               PROVE  Change(x, i)'
    BY Zenon DEF ChangeInv, Change
  <1> DEFINE L == Len(trace)
             D == Len(stack)
             c == Out(own[i], "t0")
  <1>a. CallAdded(v, op, r) /\ PushedStack(op, r)
    BY CallIsAdded, Pushed
  <1>1. /\ L \in Nat /\ Returns \subseteq 1..L /\ Invokes \subseteq 1..L
        /\ ReturnsOf(x)' = ReturnsOf(x)
        /\ PoolCallsOf(x)' = IF x = v /\ op \in PoolOps THEN PoolCallsOf(x) \cup {L + 1}
                             ELSE PoolCallsOf(x)
        /\ \A n \in 1..L : /\ trace'[n] = trace[n]
                           /\ \A id : Out(n, id)' = Out(n, id)
        /\ done' = done \cup {v} /\ vout' = v /\ r.in \in Lists /\ own' = own
    BY <1>a DEF CallAdded
  <1>2. /\ (DOMAIN stack)' = 1..(D + 1)
        /\ \A d \in 1..D : \A id : Held(d, id)' = Held(d, id)
        /\ \A d : d = D + 1 => \A id \in TokenSet : Held(d, id)' = Total(r.in, id)
    BY <1>a DEF PushedStack
  <1>3. Sole(x) /\ Bare(x, "lp")
    BY StillSole
  <1>4. D \in Nat /\ DOMAIN stack = 1..D /\ (stack # << >> => D \in 1..D)
    BY StackIs DEF TraceInv
  <1>5. /\ stack = << >> => v \notin done
        /\ stack # << >> => v = vout /\ Handed(op, r, stack[D].hold)
    BY DEF Pushes
  <1>6. {"lp", "t0"} \subseteq TokenSet \ {"fr"}
    BY TokensAre
  <1>7. i \in DOMAIN own /\ i \in PoolCallsOf(x) /\ i \in 1..L /\ own[i] \in 1..L /\ own[i] \in Returns
    <2>1. i \in DOMAIN own /\ i \in Invokes
      BY <1>1, OwnIs
    <2>2. i \in 1..L /\ own[i] \in 1..L /\ own[i] \in Returns
      BY <1>1, <2>1, OwnIs
    <2>3. i \in PoolCallsOf(x)
      BY <1>1, <2>2
    <2> QED
      BY <2>1, <2>2, <2>3
  <1>8. x \in done
    BY <1>7, Fresh DEF PoolCallsOf
  <1>9. Change(x, i)
    <2>1. trace[i].op \in {"create", "mint"}
      BY <1>1, <1>7
    <2> QED
      BY <1>3, <1>7, <1>8, <2>1, ChangeIs DEF TraceInv
  <1>10. c \in 0..AmountMax /\ Out(own[i], "t0")' = c
    <2>1. c \in 0..AmountMax
      BY <1>7, EventsAre DEF TraceInv
    <2>2. PICK n \in 1..L : n = own[i]
      BY <1>7
    <2>3. Out(n, "t0")' = Out(n, "t0")
      BY <1>1
    <2>4. Out(own[i], "t0")' = Out(n, "t0")'
      BY <1>1, <2>2 DEF Out
    <2> QED
      BY <2>1, <2>2, <2>3, <2>4
  <1>11. ReturnsOf(x) \subseteq 1..L
    BY <1>1 DEF ReturnsOf
  <1> HIDE DEF L, D, c
  <1>12. \A j \in ReturnsOf(x)' : Out(j, "lp")' # 0 => Out(j, "t0")' >= c
    BY <1>1, <1>9, <1>11 DEF Change, c
  <1>13. ASSUME x = vout', NEW d \in 1..(D + 1), Held(d, "lp")' # 0
         PROVE  Held(d, "t0")' >= c
    <2>1. x = v /\ stack # << >> /\ x = vout
      BY <1>1, <1>5, <1>8, <1>13
    <2>2. \A b \in 1..D : Held(b, "lp") # 0 => Held(b, "t0") >= c
      BY <1>4, <1>9, <2>1 DEF Change, c
    <2>3. CASE d \in 1..D
      BY <1>2, <1>13, <2>2, <2>3
    <2>4. CASE d = D + 1
      <3>1. Total(r.in, "lp") # 0 /\ Held(d, "t0")' = Total(r.in, "t0")
        BY <1>2, <1>6, <1>13, <2>4
      <3>2. op \notin PoolOps
        <4> SUFFICES ASSUME op \in PoolOps PROVE FALSE
          OBVIOUS
        <4>1. L + 1 \in PoolCallsOf(x)' /\ i \in PoolCallsOf(x)'
          BY <1>1, <2>1
        <4>2. i = L + 1
          BY <4>1 DEF Sole
        <4> QED
          BY <1>1, <1>7, <4>2
      <3>3. /\ Total(r.in, "lp") = Cap(Held(D, "lp")) /\ Total(r.in, "t0") = Cap(Held(D, "t0"))
        BY <1>5, <1>6, <2>1, <3>1, <3>2 DEF Handed, Held
      <3>4. Held(D, "lp") \in Nat /\ Held(D, "t0") \in Nat /\ D \in 1..D
        BY <1>4, <1>6, <2>1, StackIs DEF TraceInv, D
      <3>5. Held(D, "lp") # 0
        <4>1. Cap(0) = 0
          BY CapIs
        <4> QED
          BY <3>1, <3>3, <4>1
      <3>6. Held(D, "t0") >= c
        BY <2>2, <3>4, <3>5
      <3>7. Cap(Held(D, "t0")) >= c
        BY <1>10, <3>4, <3>6, CapIs
      <3> QED
        BY <3>1, <3>3, <3>7
    <2> QED
      BY <1>4, <2>3, <2>4
  <1> QED
    BY <1>2, <1>10, <1>12, <1>13 DEF Change

LEMMA ChangeAnswered ==
    ASSUME TraceInv, NEW ok, NEW out, Answered(ok, out)
    PROVE  ChangeInv'
  <1> SUFFICES ASSUME NEW x \in done', Sole(x)', Bare(x, "lp")',
                      NEW i \in PoolCallsOf(x)' \cap DOMAIN own', trace'[i].op \in {"create", "mint"}
               PROVE  Change(x, i)'
    BY Zenon DEF ChangeInv, Change
  <1> DEFINE L == Len(trace)
             D == Len(stack)
             at == stack[D].at
             c == IF i = at THEN Total(out, "t0") ELSE Out(own[i], "t0")
  <1>a. ReturnAdded(ok, out) /\ PoppedStack(ok, out)
    BY ReturnIsAdded, Popped
  <1>1. /\ L \in Nat /\ Returns \subseteq 1..L /\ Invokes \subseteq 1..L
        /\ ReturnsOf(x)' = IF x = vout THEN ReturnsOf(x) \cup {L + 1} ELSE ReturnsOf(x)
        /\ PoolCallsOf(x)' = PoolCallsOf(x)
        /\ \A n \in 1..L : /\ trace'[n] = trace[n]
                           /\ \A id : Out(n, id)' = Out(n, id)
        /\ \A n : n = L + 1 => \A id : Out(n, id)' = Total(out, id)
        /\ done' = done /\ vout' = vout /\ vout \in done /\ out \in Lists
        /\ at \in InvokesOf(vout)
    BY <1>a DEF ReturnAdded
  <1>2. /\ (DOMAIN stack)' = 1..(D - 1)
        /\ \A d \in 1..(D - 1) :
              /\ d # D - 1 => \A id : Held(d, id)' = Held(d, id)
              /\ d = D - 1 => \A id \in TokenSet :
                    Held(d, id)' = Held(d, id) - Spent(ok, id) + Total(out, id)
    BY <1>a DEF PoppedStack
  <1>3. /\ Sole(x) /\ Bare(x, "lp") /\ at \notin DOMAIN own /\ DOMAIN own' = DOMAIN own \cup {at}
        /\ \A y : y = at => Out(own[y], "t0")' = Total(out, "t0")
        /\ \A y \in DOMAIN own : Out(own[y], "t0")' = Out(own[y], "t0")
    BY StillGiven
  <1>4. /\ D \in Nat /\ DOMAIN stack = 1..D /\ D \in 1..D
        /\ \A d \in 1..D : \A id \in TokenSet : Held(d, id) \in Nat
    BY StackIs DEF TraceInv, Answered
  <1>5. {"lp", "t0"} \subseteq TokenSet \ {"fr"}
    BY TokensAre
  <1>6. \A id : Total(out, id) \in Nat /\ (~ok => Total(out, id) = 0)
    BY <1>1, TotalIn, TotalEmpty DEF Answered
  <1>7. \A id : Spent(ok, id) = IF ok THEN Taken(D, id) ELSE 0
    BY DEF Spent
  <1>8. stack[D].op = trace[at].op /\ stack[D].op \in Ops
    BY <1>4, StackIs DEF TraceInv, StackInv
  <1>9. ReturnsOf(x) \subseteq 1..L
    BY <1>1 DEF ReturnsOf
  <1>10. Out(own[i], "t0")' = c
    BY <1>3
  <1>11. i \in PoolCallsOf(x) /\ i \in 1..L /\ x \in done
    BY <1>1 DEF PoolCallsOf, InvokesOf
  <1>12. Gift(x, "lp")
    BY <1>3, <1>5, <1>11, GiftIs DEF TraceInv
  <1>13. i # at => Change(x, i)
    <2> HAVE i # at
    <2>1. trace[i].op \in {"create", "mint"} /\ i \in DOMAIN own
      BY <1>1, <1>3, <1>11
    <2> QED
      BY <1>3, <1>11, <2>1, ChangeIs DEF TraceInv
  <1>14. x = vout => \A d \in 1..D : Held(d, "lp") \in 0..AmountMax
    <2>1. Gifts(x, "lp") \subseteq 0..AmountMax
      BY GiftsAre
    <2> QED
      BY <1>4, <1>12, <2>1 DEF Gift
  <1> HIDE DEF L, D, c, at
  <1>15. CASE x # vout
    <2>1. i # at
      BY <1>1, <1>11, <1>15 DEF PoolCallsOf, InvokesOf
    <2>2. \A j \in ReturnsOf(x) : Out(j, "lp") # 0 => Out(j, "t0") >= c
      BY <1>13, <2>1 DEF Change, c
    <2>3. \A j \in ReturnsOf(x)' : Out(j, "lp")' # 0 => Out(j, "t0")' >= c
      BY <1>1, <1>9, <1>15, <2>2
    <2> QED
      BY <1>1, <1>10, <1>15, <2>3 DEF Change
  <1>16. CASE x = vout /\ i = at
    <2>1. c = Total(out, "t0")
      BY <1>16 DEF c
    <2>2. Gifts(x, "lp") = {0}
      <3>1. PoolCallsOf(x) \cap DOMAIN own = {}
        BY <1>3, <1>11, <1>16 DEF Sole
      <3> QED
        BY <3>1 DEF Gifts
    <2>3. /\ \A j \in ReturnsOf(x) : Out(j, "lp") = 0
          /\ \A d \in 1..D : Held(d, "lp") = 0
      BY <1>4, <1>12, <1>16, <2>2 DEF Gift
    <2>4. \A j \in ReturnsOf(x)' : Out(j, "lp")' # 0 => Out(j, "t0")' >= c
      <3> TAKE j \in ReturnsOf(x)'
      <3>1. CASE j = L + 1
        BY <1>1, <1>6, <2>1, <3>1
      <3>2. CASE j \in ReturnsOf(x)
        BY <1>1, <1>9, <2>3, <3>2
      <3> QED
        BY <1>1, <1>16, <3>1, <3>2
    <2>5. ASSUME NEW d \in 1..(D - 1), Held(d, "lp")' # 0 PROVE Held(d, "t0")' >= c
      <3>1. d \in 1..D
        BY <1>4
      <3>2. d = D - 1 /\ D # 1
        BY <1>2, <1>4, <2>3, <2>5, <3>1
      <3>3. Held(d, "t0")' = Held(d, "t0") - Spent(ok, "t0") + c
        BY <1>2, <1>5, <2>1, <3>2
      <3>4. Spent(ok, "t0") <= Held(d, "t0") /\ Spent(ok, "t0") \in Nat
        BY <1>a, <1>5, <3>2 DEF PoppedStack, D
      <3>5. Held(d, "t0") \in Nat /\ c \in Nat
        BY <1>4, <1>5, <1>6, <2>1, <3>1
      <3> QED
        BY <3>3, <3>4, <3>5
    <2> QED
      BY <1>2, <1>10, <2>4, <2>5 DEF Change
  <1>17. CASE x = vout /\ i # at
    <2>1. c = Out(own[i], "t0") /\ c \in 0..AmountMax
      <3>1. i \in DOMAIN own
        BY <1>3, <1>17
      <3>2. own[i] \in Returns
        BY <3>1, OwnIs
      <3>3. Out(own[i], "t0") \in 0..AmountMax
        BY <3>2, EventsAre DEF TraceInv
      <3> QED
        BY <1>17, <3>3 DEF c
    <2>2. /\ \A j \in ReturnsOf(x) : Out(j, "lp") # 0 => Out(j, "t0") >= c
          /\ \A d \in 1..D : Held(d, "lp") # 0 => Held(d, "t0") >= c
      BY <1>4, <1>13, <1>17, <2>1 DEF Change
    <2>3. stack[D].op \notin PoolOps
      <3>1. at \notin PoolCallsOf(x)
        BY <1>3, <1>11, <1>17 DEF Sole
      <3> QED
        BY <1>1, <1>8, <1>17, <3>1 DEF PoolCallsOf
    <2>4. ASSUME ok
          PROVE  \/ /\ stack[D].op = "other"
                    /\ Total(out, "lp") = Cap(Held(D, "lp")) /\ Total(out, "t0") = Cap(Held(D, "t0"))
                 \/ /\ Total(out, "lp") = 0 /\ Total(out, "t0") = 0
                    /\ Taken(D, "lp") = 0 /\ Taken(D, "t0") = 0
      <3>1. CASE stack[D].op = "other"
        <4>1. \A t \in TokenSet : Total(out, t) = Cap(Held(D, t))
          BY <2>4, <3>1 DEF Answered, D
        <4> QED
          BY <1>5, <3>1, <4>1
      <3>2. CASE stack[D].op # "other"
        <4>1. stack[D].op \in SubfrostOps
          BY <1>8, <2>3, <3>2, OpsAre
        <4>2. Gave(trace[at], out) /\ Asks(trace[at])
          BY <1>1, <2>4, <3>2 DEF Answered, D, at, TraceInv, EventInv, InvokesOf
        <4>3. \A t \in TokenSet \ {"fr"} : Total(out, t) = 0 /\ Total(trace[at].in, t) = 0
          BY <1>8, <4>1, <4>2 DEF Gave, Asks
        <4>4. \A t \in TokenSet \ {"fr"} : Taken(D, t) = 0
          BY <4>3 DEF Taken, In, at
        <4> QED
          BY <1>5, <4>3, <4>4
      <3> QED
        BY <3>1, <3>2
    <2>5. /\ Held(D, "lp") \in Nat /\ Held(D, "t0") \in Nat
          /\ Held(D, "lp") # 0 => Held(D, "t0") >= c
      BY <1>4, <1>5, <2>2
    <2>6. Total(out, "lp") # 0 => Total(out, "t0") >= c
      <3> HAVE Total(out, "lp") # 0
      <3>1. ok /\ Total(out, "lp") = Cap(Held(D, "lp")) /\ Total(out, "t0") = Cap(Held(D, "t0"))
        <4>1. ok
          BY <1>6
        <4> QED
          BY <2>4, <4>1
      <3>2. Held(D, "lp") # 0
        <4>1. Cap(0) = 0
          BY CapIs
        <4> QED
          BY <3>1, <4>1
      <3> QED
        BY <2>1, <2>5, <3>1, <3>2, CapIs
    <2>7. \A j \in ReturnsOf(x)' : Out(j, "lp")' # 0 => Out(j, "t0")' >= c
      <3> TAKE j \in ReturnsOf(x)'
      <3>1. CASE j = L + 1
        BY <1>1, <2>6, <3>1
      <3>2. CASE j \in ReturnsOf(x)
        BY <1>1, <1>9, <2>2, <3>2
      <3> QED
        BY <1>1, <1>17, <3>1, <3>2
    <2>8. ASSUME NEW d \in 1..(D - 1), Held(d, "lp")' # 0 PROVE Held(d, "t0")' >= c
      <3>1. d \in 1..D /\ d < D
        BY <1>4
      <3>2. CASE d # D - 1
        BY <1>2, <2>2, <2>8, <3>1, <3>2
      <3>3. CASE d = D - 1
        <4>1. d + 1 = D /\ D # 1 /\ D \in 1..D
          BY <1>4, <3>1, <3>3
        <4>2. /\ Held(d, "t0")' = Held(d, "t0") - Spent(ok, "t0") + Total(out, "t0")
              /\ Held(d, "lp")' = Held(d, "lp") - Spent(ok, "lp") + Total(out, "lp")
          BY <1>2, <1>5, <3>3
        <4>3. /\ Spent(ok, "t0") <= Held(d, "t0") /\ Spent(ok, "t0") \in Nat
              /\ Spent(ok, "lp") <= Held(d, "lp") /\ Spent(ok, "lp") \in Nat
          BY <1>a, <1>5, <3>3, <4>1 DEF PoppedStack, D
        <4>4. /\ Held(d, "t0") \in Nat /\ Held(d, "lp") \in Nat
              /\ Total(out, "t0") \in Nat /\ Total(out, "lp") \in Nat /\ c \in Nat
              /\ Held(d, "lp") # 0 => Held(d, "t0") >= c
          <5>1. Held(d, "t0") \in Nat /\ Held(d, "lp") \in Nat
            BY <1>4, <1>5, <3>1
          <5>2. Held(d, "lp") # 0 => Held(d, "t0") >= c
            BY <2>2, <3>1
          <5>3. c \in Nat
            BY <2>1, CapIs
          <5> QED
            BY <1>6, <5>1, <5>2, <5>3
        <4>5. CASE Total(out, "lp") # 0
          BY <2>6, <4>2, <4>3, <4>4, <4>5
        <4>6. CASE Total(out, "lp") = 0
          <5>1. Held(d, "lp") # 0 /\ Spent(ok, "lp") # Held(d, "lp")
            BY <2>8, <4>2, <4>3, <4>4, <4>6
          <5>2. Spent(ok, "t0") = 0
            <6>1. CASE ~ok
              BY <1>7, <6>1
            <6>2. CASE ok
              <7>1. StackOk(d)
                BY <1>4, <3>1 DEF TraceInv, StackInv, StackOk
              <7>2. \/ \A id \in TokenSet \ {"fr"} : Taken(D, id) = 0
                    \/ \A id \in TokenSet : Taken(D, id) = Cap(Held(d, id))
                BY <2>3, <3>1, <4>1, <7>1 DEF StackOk, D
              <7>3. Cap(Held(d, "lp")) = Held(d, "lp")
                BY <1>14, <1>17, <3>1, CapIs
              <7>4. Taken(D, "lp") # Held(d, "lp")
                BY <1>7, <5>1, <6>2
              <7>5. Taken(D, "t0") = 0
                BY <1>5, <7>2, <7>3, <7>4
              <7> QED
                BY <1>7, <6>2, <7>5
            <6> QED
              BY <6>1, <6>2
          <5> QED
            BY <4>2, <4>4, <5>1, <5>2
        <4> QED
          BY <4>5, <4>6
      <3> QED
        BY <3>2, <3>3
    <2> QED
      BY <1>2, <1>10, <2>7, <2>8 DEF Change
  <1> QED
    BY <1>15, <1>16, <1>17

-----------------------------------------------------------------------------
(* Calls that only contain one another *)

\* What comes back once the innermost call, at i, is answered
Returned(v, i) ==
    /\ \A j \in ReturnsOf(v) :
          \/ \A id \in TokenSet : Out(j, id) = 0
          \/ \A id \in TokenSet : Out(j, id) = In(i, id)
          \/ \A id \in TokenSet : Out(j, id) = Out(own[i], id)
    /\ v = vout /\ stack # << >> =>
          \/ \A id \in TokenSet : Held(Len(stack), id) = In(i, id)
          \/ \A id \in TokenSet : Held(Len(stack), id) = Out(own[i], id)

\* and when no call has failed
PassedOn(v, i) ==
    NoneFailed(v) =>
        /\ \A j \in ReturnsOf(v), id \in TokenSet : Out(j, id) = Out(own[i], id)
        /\ v = vout /\ stack # << >> => \A id \in TokenSet : Held(Len(stack), id) = Out(own[i], id)

\* What ChainInv says of a protostone
Chain(v) ==
    /\ \A k, l \in InvokesOf(v) : k < l => \A id \in TokenSet : In(l, id) <= In(k, id)
    /\ v = vout => \A d \in DOMAIN stack : d < Len(stack) \/ ReturnsOf(v) = {} =>
          \A id \in TokenSet : Held(d, id) = Taken(d, id)
    /\ ReturnsOf(v) # {} => Innermost(v) \subseteq DOMAIN own
    /\ Equal(v) => \A i \in Innermost(v) \cap DOMAIN own : Returned(v, i) /\ PassedOn(v, i)

LEMMA ChainIs == ChainInv <=> \A v \in done : Straight(v) => Chain(v)
  BY Zenon DEF ChainInv, Chain, Returned, PassedOn

\* What is asked of a call and of what it gave stays as it was.
LEMMA ElsewherePushed ==
    ASSUME TraceInv, NEW v, NEW op, NEW r, Pushes(v, op, r), NEW x \in done', x # v, Straight(x)'
    PROVE  Chain(x)'
  <1> DEFINE L == Len(trace)
  <1>1. CallAdded(v, op, r)
    BY CallIsAdded
  <1>2. /\ L \in Nat /\ Invokes \subseteq 1..L /\ Returns \subseteq 1..L
        /\ InvokesOf(x)' = InvokesOf(x) /\ ReturnsOf(x)' = ReturnsOf(x)
        /\ \A n \in 1..L : \A id : In(n, id)' = In(n, id) /\ Out(n, id)' = Out(n, id)
        /\ done' = done \cup {v} /\ vout' = v /\ own' = own
    BY <1>1 DEF CallAdded
  <1>c. \A n \in 1..L : trace'[n] = trace[n]
    BY <1>1 DEF CallAdded
  <1>3. InvokesOf(x) \subseteq 1..L /\ ReturnsOf(x) \subseteq 1..L
    BY <1>2 DEF InvokesOf, ReturnsOf
  <1> HIDE DEF L
  <1>4. Straight(x) /\ (Equal(x)' <=> Equal(x)) /\ Innermost(x)' = Innermost(x)
    <2>1. Straight(x)
      BY <1>2 DEF Straight
    <2>2. \A i \in InvokesOf(x) : \A id : In(i, id)' = In(i, id)
      BY <1>2, <1>3
    <2>3. (Equal(x)' <=> Equal(x)) /\ Innermost(x)' = Innermost(x)
      BY <1>2, <2>2 DEF Equal, Innermost, TokenSet, ToSet
    <2> QED
      BY <2>1, <2>3
  <1>5. Chain(x)
    BY <1>2, <1>4, ChainIs DEF TraceInv
  <1>6. ASSUME Equal(x)', NEW i \in Innermost(x)' \cap DOMAIN own' PROVE Returned(x, i)' /\ PassedOn(x, i)'
    <2>1. i \in Innermost(x) \cap DOMAIN own /\ Equal(x) /\ i \in InvokesOf(x)
      BY <1>2, <1>4, <1>6 DEF Innermost
    <2>2. Returned(x, i) /\ PassedOn(x, i)
      BY <1>5, <2>1 DEF Chain
    <2>3. PICK n \in 1..L : n = own[i]
      BY <2>1, OwnIs DEF L
    <2>4. \A id : Out(own[i], id)' = Out(own[i], id)
      <3>1. \A id : Out(own[i], id)' = Out(n, id)'
        BY <1>2, <2>3 DEF Out
      <3> QED
        BY <1>2, <2>3, <3>1
    <2>5. \A id : In(i, id)' = In(i, id)
      BY <1>2, <1>3, <2>1
    <2>6. \A j \in ReturnsOf(x)' : \A id : Out(j, id)' = Out(j, id)
      BY <1>2, <1>3
    <2>7. Returned(x, i)'
      BY <1>2, <2>2, <2>4, <2>5, <2>6 DEF Returned, TokenSet, ToSet
    <2>8. PassedOn(x, i)'
      <3>1. NoneFailed(x)' <=> NoneFailed(x)
        BY <1>2, <1>3, <1>c DEF NoneFailed
      <3> QED
        BY <1>2, <2>2, <2>4, <2>6, <3>1 DEF PassedOn, TokenSet, ToSet
    <2> QED
      BY <2>7, <2>8
  <1>7. \A k, l \in InvokesOf(x)' : k < l => \A id \in TokenSet : In(l, id)' <= In(k, id)'
    BY <1>2, <1>3, <1>5 DEF Chain
  <1>8. ReturnsOf(x)' # {} => Innermost(x)' \subseteq DOMAIN own'
    BY <1>2, <1>4, <1>5 DEF Chain
  <1> QED
    BY <1>2, <1>6, <1>7, <1>8 DEF Chain, TokenSet, ToSet

LEMMA ElsewhereAnswered ==
    ASSUME TraceInv, NEW ok, NEW out, Answered(ok, out), NEW x \in done', x # vout, Straight(x)'
    PROVE  Chain(x)'
  <1> DEFINE L == Len(trace)
             at == stack[Len(stack)].at
  <1>1. ReturnAdded(ok, out)
    BY ReturnIsAdded
  <1>2. /\ L \in Nat /\ Invokes \subseteq 1..L /\ Returns \subseteq 1..L
        /\ InvokesOf(x)' = InvokesOf(x) /\ ReturnsOf(x)' = ReturnsOf(x)
        /\ \A n \in 1..L : \A id : In(n, id)' = In(n, id) /\ Out(n, id)' = Out(n, id)
        /\ done' = done /\ vout' = vout /\ at \in InvokesOf(vout)
    BY <1>1 DEF ReturnAdded
  <1>c. \A n \in 1..L : trace'[n] = trace[n]
    BY <1>1 DEF ReturnAdded
  <1>3. InvokesOf(x) \subseteq 1..L /\ ReturnsOf(x) \subseteq 1..L /\ at \notin InvokesOf(x)
    BY <1>2 DEF InvokesOf, ReturnsOf
  <1>a. /\ DOMAIN own' = DOMAIN own \cup {at}
        /\ \A i \in DOMAIN own : own'[i] = own[i]
    BY StillGiven
  <1>b. \A i \in DOMAIN own : \A id : Out(own[i], id)' = Out(own[i], id)
    BY StillGiven
  <1> HIDE DEF L, at
  <1>4. Straight(x) /\ (Equal(x)' <=> Equal(x)) /\ Innermost(x)' = Innermost(x)
    <2>1. Straight(x)
      BY <1>2 DEF Straight
    <2>2. \A i \in InvokesOf(x) : \A id : In(i, id)' = In(i, id)
      BY <1>2, <1>3
    <2>3. (Equal(x)' <=> Equal(x)) /\ Innermost(x)' = Innermost(x)
      BY <1>2, <2>2 DEF Equal, Innermost, TokenSet, ToSet
    <2> QED
      BY <2>1, <2>3
  <1>5. Chain(x)
    BY <1>2, <1>4, ChainIs DEF TraceInv
  <1>6. ASSUME Equal(x)', NEW i \in Innermost(x)' \cap DOMAIN own' PROVE Returned(x, i)' /\ PassedOn(x, i)'
    <2>1. i \in Innermost(x) \cap DOMAIN own /\ Equal(x) /\ i \in InvokesOf(x)
      BY <1>3, <1>4, <1>6, <1>a DEF Innermost
    <2>2. Returned(x, i) /\ PassedOn(x, i)
      BY <1>5, <2>1 DEF Chain
    <2>4. \A id : Out(own[i], id)' = Out(own[i], id)
      BY <1>b, <2>1
    <2>5. \A id : In(i, id)' = In(i, id)
      BY <1>2, <1>3, <2>1
    <2>6. \A j \in ReturnsOf(x)' : \A id : Out(j, id)' = Out(j, id)
      BY <1>2, <1>3
    <2>7. Returned(x, i)'
      BY <1>2, <2>2, <2>4, <2>5, <2>6 DEF Returned, TokenSet, ToSet
    <2>8. PassedOn(x, i)'
      <3>1. NoneFailed(x)' <=> NoneFailed(x)
        BY <1>2, <1>3, <1>c DEF NoneFailed
      <3> QED
        BY <1>2, <2>2, <2>4, <2>6, <3>1 DEF PassedOn, TokenSet, ToSet
    <2> QED
      BY <2>7, <2>8
  <1>7. \A k, l \in InvokesOf(x)' : k < l => \A id \in TokenSet : In(l, id)' <= In(k, id)'
    BY <1>2, <1>3, <1>5 DEF Chain
  <1>8. ReturnsOf(x)' # {} => Innermost(x)' \subseteq DOMAIN own'
    BY <1>2, <1>4, <1>5, <1>a DEF Chain
  <1> QED
    BY <1>2, <1>6, <1>7, <1>8 DEF Chain, TokenSet, ToSet

LEMMA ChainPushed ==
    ASSUME TraceInv, NEW v, NEW op, NEW r, Pushes(v, op, r)
    PROVE  ChainInv'
  <1> SUFFICES ASSUME NEW x \in done', Straight(x)' PROVE Chain(x)'
    BY Zenon DEF ChainInv, Chain, Returned, PassedOn
  <1> DEFINE L == Len(trace)
             D == Len(stack)
  <1>a. CallAdded(v, op, r) /\ PushedStack(op, r)
    BY CallIsAdded, Pushed
  <1>1. /\ L \in Nat /\ Invokes \subseteq 1..L /\ Returns \subseteq 1..L
        /\ InvokesOf(v)' = InvokesOf(v) \cup {L + 1} /\ ReturnsOf(v)' = ReturnsOf(v)
        /\ \A n \in 1..L : \A id : In(n, id)' = In(n, id)
        /\ \A n : n = L + 1 => \A id : In(n, id)' = Total(r.in, id)
        /\ done' = done \cup {v} /\ vout' = v /\ own' = own /\ r.in \in Lists
    BY <1>a DEF CallAdded
  <1>2. /\ (DOMAIN stack)' = 1..(D + 1)
        /\ \A d \in 1..D : \A id : Held(d, id)' = Held(d, id) /\ Taken(d, id)' = Taken(d, id)
        /\ \A d : d = D + 1 => /\ \A id \in TokenSet : Held(d, id)' = Total(r.in, id)
                               /\ \A id : Taken(d, id)' = Total(r.in, id)
    BY <1>a DEF PushedStack
  <1>3. CASE x # v
    BY <1>3, ElsewherePushed
  <1>4. CASE x = v
    <2>1. InvokesOf(v) \subseteq 1..L /\ ReturnsOf(v) \subseteq 1..L
      BY <1>1 DEF InvokesOf, ReturnsOf
    <2>2. ReturnsOf(v) = {}
      <3> SUFFICES ASSUME NEW j \in ReturnsOf(v) PROVE FALSE
        OBVIOUS
      <3>1. \A k \in InvokesOf(v)', i \in ReturnsOf(v)' : k < i
        BY <1>4 DEF Straight
      <3>2. L + 1 < j
        BY <1>1, <3>1
      <3> QED
        BY <1>1, <2>1, <3>2
    <2>3. /\ D \in Nat /\ DOMAIN stack = 1..D /\ (stack # << >> => D \in 1..D) /\ (stack = << >> => D = 0)
          /\ \A d \in 1..D : \A id \in TokenSet : Held(d, id) \in Nat
      BY StackIs, EmptySeq DEF TraceInv
    <2>4. v \in done => Chain(v)
      <3>1. Straight(v)
        BY <2>2 DEF Straight
      <3> QED
        BY <3>1, ChainIs DEF TraceInv
    <2>5. /\ stack = << >> => v \notin done
          /\ stack # << >> => v = vout /\ Handed(op, r, stack[D].hold)
      BY DEF Pushes
    <2>6. stack = << >> => InvokesOf(v) = {}
      BY <2>5, Fresh
    <2>7. stack # << >> => v \in done
      BY <2>5 DEF TraceInv, StackInv
    <2>8. \A d \in 1..D : \A id \in TokenSet : Held(d, id) = Taken(d, id)
      <3> TAKE d \in 1..D
      <3>1. stack # << >> /\ v = vout /\ Chain(v)
        BY <2>3, <2>4, <2>5, <2>7
      <3> QED
        BY <2>2, <2>3, <3>1 DEF Chain
    <2> HIDE DEF L, D
    <2>9. ASSUME NEW k \in InvokesOf(v), NEW id \in TokenSet PROVE Total(r.in, id) <= In(k, id)
      <3>1. stack # << >> /\ v = vout /\ Chain(v) /\ D \in 1..D
        BY <2>3, <2>4, <2>5, <2>6, <2>7
      <3>2. PICK d \in 1..D : k = stack[d].at
        <4>1. k \in Invokes /\ trace[k].vout = v
          BY DEF InvokesOf
        <4>2. k \notin DOMAIN own
          <5>1. k \in DOMAIN own => own[k] \in ReturnsOf(v)
            BY <4>1 DEF TraceInv, OwnInv
          <5> QED
            BY <2>2, <5>1
        <4> QED
          BY <2>3, <4>1, <4>2, OwnIs
      <3>3. In(stack[D].at, id) <= In(k, id)
        <4>1. stack[D].at \in InvokesOf(v) /\ stack[D].at \in 1..L
          BY <2>1, <2>3, <3>1 DEF TraceInv, StackInv
        <4>2. CASE d = D
          <5>1. In(k, id) \in Nat
            BY <1>1, EventsAre, CapIs DEF InvokesOf, TraceInv
          <5> QED
            BY <3>2, <4>2, <5>1
        <4>3. CASE d # D
          <5>1. d < D
            BY <2>3, <4>3
          <5>2. k < stack[D].at
            BY <2>3, <3>1, <3>2, <5>1 DEF TraceInv, StackInv
          <5> QED
            BY <3>1, <4>1, <5>2 DEF Chain
        <4> QED
          BY <4>2, <4>3
      <3>4. Held(D, id) = In(stack[D].at, id)
        BY <2>8, <3>1 DEF Taken
      <3>5. Total(r.in, id) <= Held(D, id)
        BY <2>5, <3>1 DEF Handed, Held
      <3>6. Total(r.in, id) \in Nat /\ Held(D, id) \in Nat /\ In(k, id) \in Nat
        <4>1. In(k, id) \in 0..AmountMax
          BY EventsAre DEF InvokesOf, TraceInv
        <4> QED
          BY <1>1, <2>3, <3>1, <4>1, TotalIn, CapIs
      <3> QED
        BY <3>3, <3>4, <3>5, <3>6
    <2>10. ASSUME NEW k \in InvokesOf(v)', NEW l \in InvokesOf(v)', k < l, NEW id \in TokenSet
           PROVE  In(l, id)' <= In(k, id)'
      <3>1. k \in InvokesOf(v) /\ k \in 1..L
        BY <1>1, <2>1, <2>10
      <3>2. CASE l = L + 1
        <4>1. In(l, id)' = Total(r.in, id) /\ In(k, id)' = In(k, id)
          BY <1>1, <3>1, <3>2
        <4> QED
          BY <2>9, <3>1, <4>1
      <3>3. CASE l \in InvokesOf(v)
        <4>1. In(l, id)' = In(l, id) /\ In(k, id)' = In(k, id)
          BY <1>1, <2>1, <3>1, <3>3
        <4>2. Chain(v)
          BY <2>4, <2>6, <2>7, <3>1
        <4> QED
          BY <2>10, <3>1, <3>3, <4>1, <4>2 DEF Chain
      <3> QED
        BY <1>1, <3>2, <3>3
    <2>11. ASSUME NEW d \in 1..(D + 1), NEW id \in TokenSet PROVE Held(d, id)' = Taken(d, id)'
      <3>1. CASE d \in 1..D
        BY <1>2, <2>8, <3>1
      <3>2. CASE d = D + 1
        BY <1>2, <3>2
      <3> QED
        BY <2>3, <3>1, <3>2
    <2>12. Innermost(v)' \cap DOMAIN own' = {}
      <3> SUFFICES ASSUME NEW i \in Innermost(v)', i \in DOMAIN own PROVE FALSE
        BY <1>1
      <3>1. L + 1 <= i
        BY <1>1 DEF Innermost
      <3>2. i \in 1..L
        BY <1>1, OwnIs
      <3> QED
        BY <1>1, <3>1, <3>2
    <2> QED
      BY <1>1, <1>2, <1>4, <2>2, <2>10, <2>11, <2>12 DEF Chain, TokenSet, ToSet
  <1> QED
    BY <1>3, <1>4

LEMMA ChainAnswered ==
    ASSUME TraceInv, NEW ok, NEW out, Answered(ok, out)
    PROVE  ChainInv'
  <1> SUFFICES ASSUME NEW x \in done', Straight(x)' PROVE Chain(x)'
    BY Zenon DEF ChainInv, Chain, Returned, PassedOn
  <1> DEFINE L == Len(trace)
             D == Len(stack)
             at == stack[D].at
  <1>a. ReturnAdded(ok, out) /\ PoppedStack(ok, out)
    BY ReturnIsAdded, Popped
  <1>1. /\ L \in Nat /\ Invokes \subseteq 1..L /\ Returns \subseteq 1..L
        /\ InvokesOf(vout)' = InvokesOf(vout) /\ ReturnsOf(vout)' = ReturnsOf(vout) \cup {L + 1}
        /\ \A n \in 1..L : \A id : In(n, id)' = In(n, id) /\ Out(n, id)' = Out(n, id)
        /\ \A n : n = L + 1 => \A id : Out(n, id)' = Total(out, id)
        /\ done' = done /\ vout' = vout /\ vout \in done /\ out \in Lists
        /\ at \in InvokesOf(vout)
    BY <1>a DEF ReturnAdded
  <1>2. /\ (DOMAIN stack)' = 1..(D - 1) /\ Len(stack)' = D - 1
        /\ \A d \in 1..(D - 1) :
              /\ \A id : Taken(d, id)' = Taken(d, id)
              /\ d # D - 1 => \A id : Held(d, id)' = Held(d, id)
              /\ d = D - 1 => \A id \in TokenSet :
                    Held(d, id)' = Held(d, id) - Spent(ok, id) + Total(out, id)
    BY <1>a DEF PoppedStack
  <1>b. /\ \A n \in 1..L : trace'[n] = trace[n]
        /\ \A n : n = L + 1 => trace'[n].ok = ok
    BY <1>a DEF ReturnAdded, NewReturn
  <1>3. CASE x # vout
    BY <1>3, ElsewhereAnswered
  <1>4. CASE x = vout
    <2>1. InvokesOf(x) \subseteq 1..L /\ ReturnsOf(x) \subseteq 1..L
      BY <1>1 DEF InvokesOf, ReturnsOf
    <2>2. /\ D \in Nat /\ DOMAIN stack = 1..D /\ D \in 1..D
          /\ \A d \in 1..D : \A id \in TokenSet : Held(d, id) \in Nat
      BY StackIs DEF TraceInv, Answered
    <2>3. /\ at \notin DOMAIN own /\ DOMAIN own' = DOMAIN own \cup {at} /\ own'[at] = L + 1
          /\ \A i \in DOMAIN own : own'[i] = own[i]
      BY StillGiven
    <2>4. /\ \A i \in DOMAIN own : \A id : Out(own[i], id)' = Out(own[i], id)
          /\ \A i : i = at => \A id : Out(own[i], id)' = Total(out, id)
      BY StillGiven
    <2>5. \A id : Spent(ok, id) = IF ok THEN Taken(D, id) ELSE 0
      BY DEF Spent
    <2>6. \A id : Total(out, id) \in Nat /\ (~ok => Total(out, id) = 0)
      BY <1>1, TotalIn, TotalEmpty DEF Answered
    <2>7. \A d \in 1..D : stack[d].at \in InvokesOf(x)
      BY <1>4, <2>2, Zenon DEF TraceInv, StackInv
    <2>8. \A d \in 1..D : d # D => stack[d].at < at
      <3> TAKE d \in 1..D
      <3>a. D \in Nat
        BY <2>2
      <3>1. d # D => d < D
        BY <3>a
      <3> QED
        BY <2>2, <3>1, Zenon DEF TraceInv, StackInv
    <2>9. trace[at].op = stack[D].op /\ stack[D].op \in Ops /\ (stack[D].op \in Leaves => at = L)
      BY <2>2, StackIs DEF TraceInv, StackInv
    <2>10. \A d : Taken(d, "t0") = In(stack[d].at, "t0") /\ \A id : Taken(d, id) = In(stack[d].at, id)
      BY DEF Taken
    <2>a. ok /\ stack[D].op = "other" => \A id \in TokenSet : Total(out, id) = Cap(Held(D, id))
      BY DEF Answered
    <2>b. \A i \in InvokesOf(x) : \A id : In(i, id) \in 0..AmountMax
      BY EventsAre DEF TraceInv, InvokesOf
    <2>c. NoneFailed(x)' => NoneFailed(x) /\ ok
      BY <1>1, <1>4, <1>b, <2>1 DEF NoneFailed
    <2> HIDE DEF L, D, at
    <2>11. Straight(x) /\ (Equal(x)' <=> Equal(x)) /\ Innermost(x)' = Innermost(x)
      <3>1. Straight(x)
        BY <1>1, <1>4 DEF Straight
      <3>2. \A i \in InvokesOf(x) : \A id : In(i, id)' = In(i, id)
        BY <1>1, <2>1
      <3>3. (Equal(x)' <=> Equal(x)) /\ Innermost(x)' = Innermost(x)
        BY <1>1, <1>4, <3>2 DEF Equal, Innermost, TokenSet, ToSet
      <3> QED
        BY <3>1, <3>3
    <2>12. Chain(x)
      BY <1>1, <1>4, <2>11, ChainIs DEF TraceInv
    <2>13. \A k, l \in InvokesOf(x)' : k < l => \A id \in TokenSet : In(l, id)' <= In(k, id)'
      BY <1>1, <1>4, <2>1, <2>12 DEF Chain
    <2>14. \A d \in 1..(D - 1) : d < D - 1 \/ ReturnsOf(x)' = {} =>
              \A id \in TokenSet : Held(d, id)' = Taken(d, id)'
      <3> TAKE d \in 1..(D - 1)
      <3>1. ReturnsOf(x)' # {}
        BY <1>1, <1>4
      <3> SUFFICES ASSUME d < D - 1, NEW id \in TokenSet PROVE Held(d, id)' = Taken(d, id)'
        BY <3>1
      <3>2. d # D - 1 /\ d < D /\ d \in 1..D
        <4>1. D \in Nat
          BY <2>2
        <4> QED
          BY <4>1
      <3>3. Held(d, id) = Taken(d, id)
        BY <1>4, <2>2, <2>12, <3>2, Zenon DEF Chain, D
      <3> QED
        BY <1>2, <3>2, <3>3
    <2>15. CASE ReturnsOf(x) = {}
      <3>1. \A i \in Innermost(x) : i = at
        <4> TAKE i \in Innermost(x)
        <4>1. i \in InvokesOf(x) /\ at <= i /\ i \in 1..L /\ at \in 1..L
          BY <1>1, <1>4, <2>1 DEF Innermost
        <4>2. i \notin DOMAIN own
          <5>1. i \in DOMAIN own => own[i] \in ReturnsOf(x)
            BY <4>1 DEF TraceInv, OwnInv, InvokesOf
          <5> QED
            BY <2>15, <5>1
        <4>3. PICK d \in 1..D : i = stack[d].at
          BY <2>2, <4>1, <4>2, OwnIs DEF InvokesOf
        <4>4. d = D
          BY <2>8, <4>1, <4>3
        <4> QED
          BY <4>3, <4>4 DEF at
      <3>2. Innermost(x)' \subseteq DOMAIN own'
        BY <2>3, <2>11, <3>1
      <3>3. ASSUME Equal(x)', NEW i \in Innermost(x)' \cap DOMAIN own' PROVE Returned(x, i)' /\ PassedOn(x, i)'
        <4>1. i = at /\ Equal(x)
          BY <2>11, <3>1, <3>3
        <4>2. \A j \in ReturnsOf(x)' : \A id : Out(j, id)' = Out(own[i], id)'
          <5>1. \A j \in ReturnsOf(x)' : j = L + 1
            BY <1>1, <1>4, <2>15
          <5> QED
            BY <1>1, <2>4, <4>1, <5>1
        <4>3. ASSUME stack' # << >>
              PROVE  /\ \/ \A id \in TokenSet : Held(Len(stack), id)' = In(i, id)'
                        \/ \A id \in TokenSet : Held(Len(stack), id)' = Out(own[i], id)'
                     /\ ok => \A id \in TokenSet : Held(Len(stack), id)' = Out(own[i], id)'
          <5>1. D # 1 /\ D - 1 \in 1..D /\ D - 1 \in 1..(D - 1) /\ D - 1 # D
            <6>1. D = 1 => stack' = << >>
              BY DEF Answered, D
            <6> QED
              BY <2>2, <4>3, <6>1
          <5>2. PICK d \in 1..(D - 1) : d = D - 1
            BY <5>1
          <5>3. \A id \in TokenSet : Held(d, id) = In(i, id) /\ Taken(D, id) = In(i, id)
            <6>1. stack[d].at \in InvokesOf(x) /\ stack[D].at \in InvokesOf(x) /\ at \in InvokesOf(x)
              BY <1>1, <1>4, <2>2, <2>7, <5>1, <5>2
            <6>2. \A id \in TokenSet : Held(d, id) = Taken(d, id)
              BY <1>4, <2>2, <2>12, <2>15, <5>1, <5>2 DEF Chain
            <6>3. \A id \in TokenSet : Taken(d, id) = In(i, id)
              BY <2>10, <4>1, <6>1 DEF Equal
            <6>4. \A id : Taken(D, id) = In(i, id)
              BY <2>10, <4>1 DEF at
            <6> QED
              BY <6>2, <6>3, <6>4
          <5>4. \A id \in TokenSet : Held(d, id)' = Held(d, id) - Spent(ok, id) + Total(out, id)
            BY <1>2, <5>2
          <5>5. \A id : In(i, id)' = In(i, id) /\ Out(own[i], id)' = Total(out, id)
            <6>1. i \in 1..L
              BY <1>1, <1>4, <2>1, <4>1
            <6> QED
              BY <1>1, <2>4, <4>1, <6>1
          <5>6. \A id \in TokenSet : Held(d, id) \in Nat /\ Total(out, id) \in Nat
            BY <2>2, <2>6, <5>1, <5>2
          <5>7. CASE ok
            <6>1. \A id \in TokenSet : Held(d, id)' = Out(own[i], id)'
              <7> TAKE id \in TokenSet
              <7>1. Spent(ok, id) = Held(d, id)
                BY <2>5, <5>3, <5>7
              <7>2. Held(d, id)' = Total(out, id)
                BY <5>4, <5>6, <7>1
              <7> QED
                BY <5>5, <7>2
            <6>2. \A id \in TokenSet : Held(Len(stack), id)' = Held(d, id)'
              BY <1>2, <5>2 DEF Held
            <6> QED
              BY <5>7, <6>1, <6>2, Zenon DEF TokenSet, ToSet
          <5>8. CASE ~ok
            <6>1. \A id \in TokenSet : Held(d, id)' = In(i, id)'
              <7> TAKE id \in TokenSet
              <7>1. Spent(ok, id) = 0 /\ Total(out, id) = 0
                BY <2>5, <2>6, <5>8
              <7>2. Held(d, id)' = Held(d, id)
                BY <5>4, <5>6, <7>1
              <7> QED
                BY <5>3, <5>5, <7>2
            <6>2. \A id \in TokenSet : Held(Len(stack), id)' = Held(d, id)'
              BY <1>2, <5>2 DEF Held
            <6> QED
              BY <5>8, <6>1, <6>2, Zenon DEF TokenSet, ToSet
          <5> QED
            BY <5>7, <5>8
        <4>5. Returned(x, i)'
          BY <4>2, <4>3 DEF Returned, TokenSet, ToSet
        <4>6. PassedOn(x, i)'
          BY <2>c, <4>2, <4>3, Zenon DEF PassedOn, TokenSet, ToSet
        <4> QED
          BY <4>5, <4>6
      <3> QED
        BY <1>2, <2>13, <2>14, <3>2, <3>3 DEF Chain, TokenSet, ToSet
    <2>16. CASE ReturnsOf(x) # {}
      <3>1. Innermost(x) \subseteq DOMAIN own /\ Innermost(x)' \subseteq DOMAIN own'
        BY <2>3, <2>11, <2>12, <2>16 DEF Chain
      <3>2. stack[D].op = "other"
        <4>1. PICK j \in ReturnsOf(x) : TRUE
          BY <2>16
        <4>2. at < j /\ j \in 1..L
          BY <1>1, <1>4, <2>1, <2>11 DEF Straight
        <4>3. at # L
          BY <1>1, <4>2
        <4> QED
          BY <2>9, <4>3 DEF Ops
      <3>3. ASSUME Equal(x)', NEW i \in Innermost(x)' \cap DOMAIN own' PROVE Returned(x, i)' /\ PassedOn(x, i)'
        <4>1. i \in Innermost(x) /\ i \in DOMAIN own /\ Equal(x) /\ i \in InvokesOf(x) /\ i \in 1..L
          BY <2>1, <2>11, <3>1, <3>3 DEF Innermost
        <4>2. Returned(x, i) /\ PassedOn(x, i)
          BY <2>12, <4>1 DEF Chain
        <4>b. NoneFailed(x) => \A id \in TokenSet : Held(D, id) = Out(own[i], id)
          <5>1. stack # << >>
            BY DEF Answered
          <5> QED
            BY <1>4, <4>2, <5>1 DEF PassedOn, D
        <4>3. \/ \A id \in TokenSet : Held(D, id) = In(i, id)
              \/ \A id \in TokenSet : Held(D, id) = Out(own[i], id)
          <5>1. stack # << >>
            BY DEF Answered
          <5> QED
            BY <1>4, <4>2, <5>1 DEF Returned, D
        <4>4. \A id : In(i, id) \in 0..AmountMax /\ Out(own[i], id) \in 0..AmountMax /\ AmountMax \in Nat
          <5>1. own[i] \in Returns
            BY <4>1, OwnIs
          <5> QED
            BY <2>b, <4>1, <5>1, EventsAre, CapIs DEF TraceInv
        <4>5. ok => \A id \in TokenSet : Total(out, id) = Held(D, id)
          <5> SUFFICES ASSUME ok, NEW id \in TokenSet PROVE Total(out, id) = Held(D, id)
            OBVIOUS
          <5>1. Held(D, id) \in 0..AmountMax
            BY <4>3, <4>4
          <5>2. Cap(Held(D, id)) = Held(D, id)
            BY <4>4, <5>1, CapIs
          <5> QED
            BY <2>a, <3>2, <5>2
        <4>6. \A id : In(i, id)' = In(i, id) /\ Out(own[i], id)' = Out(own[i], id)
          BY <1>1, <2>4, <4>1
        <4>7. \/ \A id \in TokenSet : Total(out, id) = 0
              \/ \A id \in TokenSet : Total(out, id) = In(i, id)
              \/ \A id \in TokenSet : Total(out, id) = Out(own[i], id)
          BY <2>6, <4>3, <4>5
        <4>8. ASSUME NEW j \in ReturnsOf(x)'
              PROVE  \/ \A id \in TokenSet : Out(j, id)' = 0
                     \/ \A id \in TokenSet : Out(j, id)' = In(i, id)'
                     \/ \A id \in TokenSet : Out(j, id)' = Out(own[i], id)'
          <5>1. CASE j = L + 1
            <6>1. \A id : Out(j, id)' = Total(out, id)
              BY <1>1, <5>1
            <6> QED
              BY <4>6, <4>7, <6>1 DEF TokenSet, ToSet
          <5>2. CASE j \in ReturnsOf(x)
            <6>1. \A id : Out(j, id)' = Out(j, id)
              BY <1>1, <2>1, <5>2
            <6>2. \/ \A id \in TokenSet : Out(j, id) = 0
                  \/ \A id \in TokenSet : Out(j, id) = In(i, id)
                  \/ \A id \in TokenSet : Out(j, id) = Out(own[i], id)
              BY <4>2, <5>2 DEF Returned
            <6> QED
              BY <4>6, <6>1, <6>2 DEF TokenSet, ToSet
          <5> QED
            BY <1>1, <1>4, <5>1, <5>2
        <4>9. ASSUME stack' # << >>
              PROVE  /\ \/ \A id \in TokenSet : Held(Len(stack), id)' = In(i, id)'
                        \/ \A id \in TokenSet : Held(Len(stack), id)' = Out(own[i], id)'
                     /\ ok /\ NoneFailed(x) =>
                           \A id \in TokenSet : Held(Len(stack), id)' = Out(own[i], id)'
          <5>1. D # 1 /\ D - 1 \in 1..D /\ D - 1 \in 1..(D - 1) /\ D - 1 < D
            <6>1. D = 1 => stack' = << >>
              BY DEF Answered, D
            <6> QED
              BY <2>2, <4>9, <6>1
          <5>2. PICK d \in 1..(D - 1) : d = D - 1
            BY <5>1
          <5>3. \A id \in TokenSet : Held(d, id) = In(i, id) /\ Taken(D, id) = In(i, id)
            <6>1. stack[d].at \in InvokesOf(x) /\ stack[D].at \in InvokesOf(x)
              BY <2>2, <2>7, <5>1, <5>2
            <6>2. \A id \in TokenSet : Held(d, id) = Taken(d, id)
              BY <1>4, <2>2, <2>12, <5>1, <5>2 DEF Chain, D
            <6>3. \A id \in TokenSet : Taken(d, id) = In(i, id) /\ Taken(D, id) = In(i, id)
              BY <2>10, <4>1, <6>1 DEF Equal
            <6> QED
              BY <6>2, <6>3
          <5>4. \A id \in TokenSet : Held(d, id)' = Held(d, id) - Spent(ok, id) + Total(out, id)
            BY <1>2, <5>2
          <5>6. \A id \in TokenSet : Held(d, id) \in Nat /\ Total(out, id) \in Nat
            BY <2>2, <2>6, <5>1, <5>2
          <5>a. \A id \in TokenSet : Held(Len(stack), id)' = Held(d, id)'
            BY <1>2, <5>2 DEF Held
          <5>7. CASE ok
            <6>1. \A id \in TokenSet : Held(d, id)' = Held(D, id)
              <7> TAKE id \in TokenSet
              <7>1. Spent(ok, id) = Held(d, id)
                BY <2>5, <5>3, <5>7
              <7>2. Held(d, id)' = Total(out, id)
                BY <5>4, <5>6, <7>1
              <7> QED
                BY <4>5, <5>7, <7>2
            <6> QED
              BY <4>3, <4>6, <4>b, <5>7, <5>a, <6>1 DEF TokenSet, ToSet
          <5>8. CASE ~ok
            <6>1. \A id \in TokenSet : Held(d, id)' = In(i, id)'
              <7> TAKE id \in TokenSet
              <7>1. Spent(ok, id) = 0 /\ Total(out, id) = 0
                BY <2>5, <2>6, <5>8
              <7>2. Held(d, id)' = Held(d, id)
                BY <5>4, <5>6, <7>1
              <7> QED
                BY <4>6, <5>3, <7>2
            <6> QED
              BY <5>8, <5>a, <6>1, Zenon DEF TokenSet, ToSet
          <5> QED
            BY <5>7, <5>8
        <4>10. Returned(x, i)'
          BY <4>8, <4>9 DEF Returned, TokenSet, ToSet
        <4>11. ASSUME ok, NoneFailed(x), NEW j \in ReturnsOf(x)', NEW id \in TokenSet
               PROVE  Out(j, id)' = Out(own[i], id)'
          <5>1. CASE j = L + 1
            BY <1>1, <4>5, <4>6, <4>11, <4>b, <5>1
          <5>2. CASE j \in ReturnsOf(x)
            <6>1. Out(j, id)' = Out(j, id)
              BY <1>1, <2>1, <5>2
            <6> QED
              BY <4>2, <4>6, <4>11, <5>2, <6>1 DEF PassedOn
          <5> QED
            BY <1>1, <1>4, <5>1, <5>2
        <4>12. PassedOn(x, i)'
          BY <2>c, <4>9, <4>11, Zenon DEF PassedOn, TokenSet, ToSet
        <4> QED
          BY <4>10, <4>12
      <3> QED
        BY <1>2, <2>13, <2>14, <3>1, <3>3 DEF Chain, TokenSet, ToSet
    <2> QED
      BY <2>15, <2>16
  <1> QED
    BY <1>3, <1>4

-----------------------------------------------------------------------------
(* Indexing, and steps of other programs *)

LEMMA EventsKept ==
    ASSUME UNCHANGED <<trace, stack, vout, done, own>>
    PROVE  /\ EventInv => EventInv' 
           /\ StackInv => StackInv'
           /\ OwnInv => OwnInv'
           /\ GiftInv => GiftInv'
           /\ ChangeInv => ChangeInv'
           /\ ChainInv => ChainInv'
  <1>1. trace' = trace /\ stack' = stack /\ vout' = vout /\ done' = done /\ own' = own
    OBVIOUS
  <1>2. Invokes' = Invokes /\ Returns' = Returns
    BY <1>1 DEF Invokes, Returns
  <1>3. \A v : InvokesOf(v)' = InvokesOf(v) /\ ReturnsOf(v)' = ReturnsOf(v)
    BY <1>1, <1>2 DEF InvokesOf, ReturnsOf
  <1>4. \A i, id : In(i, id)' = In(i, id) /\ Out(i, id)' = Out(i, id)
    BY <1>1 DEF In, Out
  <1>5. \A d, id : Held(d, id)' = Held(d, id) /\ Taken(d, id)' = Taken(d, id)
    BY <1>1 DEF Held, Taken, In
  <1>6. \A i, id : Out(own[i], id)' = Out(own[i], id)
    BY <1>1 DEF Out
  <1>7. \A v : PoolCallsOf(v)' = PoolCallsOf(v)
    BY <1>1, <1>3 DEF PoolCallsOf
  <1>8. \A v, id : (Sole(v)' <=> Sole(v)) /\ (Bare(v, id)' <=> Bare(v, id))
    BY <1>3, <1>4, <1>7 DEF Sole, Bare
  <1>9. \A v, id : Gifts(v, id)' = Gifts(v, id)
    BY <1>1, <1>6, <1>7 DEF Gifts
  <1>10. \A v, id : Gift(v, id) => Gift(v, id)'
    BY <1>1, <1>3, <1>4, <1>5, <1>9 DEF Gift
  <1>11. \A v, i : Change(v, i) => Change(v, i)'
    BY <1>1, <1>3, <1>4, <1>5, <1>6 DEF Change
  <1>12. \A v : (Straight(v)' <=> Straight(v)) /\ (Equal(v)' <=> Equal(v)) /\ Innermost(v)' = Innermost(v)
    <2>1. \A v : Straight(v)' <=> Straight(v)
      BY <1>3 DEF Straight
    <2>2. \A v : Equal(v)' <=> Equal(v)
      BY <1>3, <1>4 DEF Equal, TokenSet, ToSet
    <2>3. \A v : Innermost(v)' = Innermost(v)
      BY <1>3 DEF Innermost
    <2> QED
      BY <2>1, <2>2, <2>3
  <1>13. \A v, i : Returned(v, i) => Returned(v, i)'
    <2> TAKE v, i
    <2> HAVE Returned(v, i)
    <2>1. /\ \A j \in ReturnsOf(v)' :
                \/ \A id \in TokenSet : Out(j, id)' = 0
                \/ \A id \in TokenSet : Out(j, id)' = In(i, id)'
                \/ \A id \in TokenSet : Out(j, id)' = Out(own[i], id)'
      BY <1>3, <1>4, <1>6 DEF Returned
    <2>2. \A id : Held(Len(stack), id)' = Held(Len(stack), id)
      BY <1>1 DEF Held
    <2>3. v = vout' /\ stack' # << >> =>
            \/ \A id \in TokenSet : Held(Len(stack), id)' = In(i, id)'
            \/ \A id \in TokenSet : Held(Len(stack), id)' = Out(own[i], id)'
      BY <1>1, <1>4, <1>6, <2>2 DEF Returned
    <2> QED
      BY <2>1, <2>3, Zenon DEF Returned, TokenSet, ToSet
  <1>a. \A v, i : PassedOn(v, i) => PassedOn(v, i)'
    <2> TAKE v, i
    <2> HAVE PassedOn(v, i)
    <2>1. NoneFailed(v)' <=> NoneFailed(v)
      BY <1>1, <1>3 DEF NoneFailed
    <2>2. \A id : Held(Len(stack), id)' = Held(Len(stack), id)
      BY <1>1 DEF Held
    <2> QED
      BY <1>1, <1>3, <1>4, <1>6, <2>1, <2>2 DEF PassedOn, TokenSet, ToSet
  <1>14. \A v : Chain(v) => Chain(v)'
    BY <1>1, <1>3, <1>4, <1>5, <1>12, <1>13, <1>a DEF Chain, TokenSet, ToSet
  <1>15. EventInv => EventInv'
    BY <1>1, <1>2 DEF EventInv
  <1>16. StackInv => StackInv'
    <2> HAVE StackInv
    <2>1. \A d \in DOMAIN stack : StackOk(d)'
      <3>1. \A d \in DOMAIN stack : StackOk(d)
        BY DEF StackInv, StackOk
      <3> QED
        BY <1>1, <1>3, <1>5, <3>1 DEF StackOk, TokenSet, ToSet
    <2> QED
      BY <1>1, <2>1 DEF StackInv, StackOk
  <1>17. OwnInv => OwnInv'
    BY <1>1, <1>2, <1>3 DEF OwnInv, ReturnsOf
  <1>18. GiftInv => GiftInv'
    <2> HAVE GiftInv
    <2>1. \A v \in done, id \in TokenSet \ {"fr"} : Sole(v)' /\ Bare(v, id)' => Gift(v, id)'
      BY <1>8, <1>10, GiftIs
    <2> QED
      BY <1>1, <2>1, Zenon DEF GiftInv, Gift, TokenSet, ToSet
  <1>19. ChangeInv => ChangeInv'
    <2> HAVE ChangeInv
    <2>1. \A v \in done : Sole(v)' /\ Bare(v, "lp")' =>
             \A i \in PoolCallsOf(v)' \cap DOMAIN own' : trace'[i].op \in {"create", "mint"} => Change(v, i)'
      BY <1>1, <1>7, <1>8, <1>11, ChangeIs
    <2> QED
      BY <1>1, <2>1, Zenon DEF ChangeInv, Change
  <1>20. ChainInv => ChainInv'
    <2> HAVE ChainInv
    <2>1. \A v \in done : Straight(v)' => Chain(v)'
      BY <1>12, <1>14, ChainIs
    <2> QED
      BY <1>1, <2>1, Zenon DEF ChainInv, Chain, Returned, PassedOn, TokenSet, ToSet
  <1> QED
    BY <1>15, <1>16, <1>17, <1>18, <1>19, <1>20

LEMMA TablesKept ==
    ASSUME trace' = trace, known' = known
    PROVE  \A form : Tables(form)' = Tables(form)
  <1>1. \A i, op : Is(i, op)' <=> Is(i, op)
    BY DEF Is
  <1>2. \A i : /\ is_delegate_invoke(i)' <=> is_delegate_invoke(i)
               /\ is_delegate_invoke_create(i)' <=> is_delegate_invoke_create(i)
               /\ is_delegate_invoke_mint(i)' <=> is_delegate_invoke_mint(i)
               /\ is_delegate_invoke_burn(i)' <=> is_delegate_invoke_burn(i)
               /\ is_subfrost_wrap_invoke(i)' <=> is_subfrost_wrap_invoke(i)
               /\ is_subfrost_unwrap_invoke(i)' <=> is_subfrost_unwrap_invoke(i)
    BY DEF Is, is_delegate_invoke, is_delegate_invoke_create, is_delegate_invoke_mint,
           is_delegate_invoke_burn, is_subfrost_wrap_invoke, is_subfrost_unwrap_invoke
  <1>3. \A i : Candidates(i)' = Candidates(i)
    BY DEF Candidates
  <1>4. \A i : SortedCandidates(i)' = SortedCandidates(i)
    BY DEF SortedCandidates, Sorted
  <1>5. \A i, id : In(i, id)' = In(i, id) /\ Out(i, id)' = Out(i, id)
    BY DEF In, Out
  <1>6. \A i, x : Strict(i, x)' = Strict(i, x)
    BY <1>3 DEF Strict
  <1>7. \A i : SwapReturn(i)' = SwapReturn(i)
    <2> TAKE i
    <2>1. In(i, "t0")' = In(i, "t0")
      BY <1>5
    <2> QED
      BY <1>3, <1>6, <2>1, Zenon DEF SwapReturn
  <1>8. \A i, j : SwapMade(i, j)' = SwapMade(i, j)
    BY <1>5, ZenonT(60) DEF SwapMade
  <1>9. \A i : SwapRow(i)' = SwapRow(i)
    BY <1>7, <1>8, Zenon DEF SwapRow, AsStored
  <1>10. \A i : Minted(i)' = Minted(i)
    BY <1>4, <1>5 DEF Minted
  <1>11. \A i, j, id : Net(i, j, id)' = Net(i, j, id) /\ NetOut(i, j, id)' = NetOut(i, j, id)
    BY <1>5 DEF Net, NetOut
  <1>12. \A i : CreationTokens(i)' = CreationTokens(i)
    BY DEF CreationTokens
  <1>13. \A i : CreationAmounts(i)' = CreationAmounts(i)
    BY <1>5, <1>10, <1>11, <1>12 DEF CreationAmounts
  <1>14. \A i : MintRow(i)' = MintRow(i)
    BY <1>5, <1>10, <1>11 DEF MintRow
  <1>15. \A i : BurnRow(i)' = BurnRow(i)
    BY <1>4, <1>5, <1>11 DEF BurnRow
  <1>16. \A i : Succeeded(i)' = Succeeded(i)
    BY <1>4 DEF Succeeded
  <1>17. \A i, form : WrapRow(i, form)' = WrapRow(i, form)
    BY <1>16 DEF WrapRow
  <1>18. \A i, form : UnwrapRow(i, form)' = UnwrapRow(i, form)
    BY <1>16, Zenon DEF UnwrapRow
  <1>19. SwapRows' = SwapRows
    BY <1>2, <1>5, <1>9 DEF SwapRows
  <1>20. CreationRows' = CreationRows
    BY <1>2, <1>12, <1>13 DEF CreationRows
  <1>21. MintRows' = MintRows /\ BurnRows' = BurnRows
    BY <1>2, <1>14, <1>15 DEF MintRows, BurnRows
  <1>22. \A form : WrapRows(form)' = WrapRows(form) /\ UnwrapRows(form)' = UnwrapRows(form)
    BY <1>2, <1>17, <1>18 DEF WrapRows, UnwrapRows
  <1> QED
    BY <1>19, <1>20, <1>21, <1>22 DEF Tables

LEMMA InitTrace == Init => TraceInv
  <1> SUFFICES ASSUME Init PROVE TraceInv
    OBVIOUS
  <1>1. trace = << >> /\ stack = << >> /\ done = {} /\ rows = << >> /\ own = [i \in {} |-> 0]
    BY DEF Init
  <1>2. Len(trace) = 0 /\ DOMAIN trace = {} /\ DOMAIN stack = {}
    BY <1>1
  <1>3. Invokes = {} /\ Returns = {} /\ DOMAIN own = {}
    BY <1>1, <1>2 DEF Invokes, Returns
  <1>4. EventInv
    BY <1>1, <1>2, <1>3, EmptySeq DEF EventInv
  <1>5. StackInv
    BY <1>1, <1>2, EmptySeq DEF StackInv
  <1>6. OwnInv
    BY <1>2, <1>3 DEF OwnInv
  <1>7. GiftInv /\ ChangeInv /\ ChainInv
    BY <1>1 DEF GiftInv, ChangeInv, ChainInv
  <1>8. RowsInv
    BY <1>1 DEF RowsInv
  <1> QED
    BY <1>4, <1>5, <1>6, <1>7, <1>8 DEF TraceInv

LEMMA NextTrace == TraceInv /\ [Next]_vars => TraceInv'
  <1> SUFFICES ASSUME TraceInv, [Next]_vars PROVE TraceInv'
    OBVIOUS
  <1>1. ASSUME \E v, op, r : Pushes(v, op, r) PROVE TraceInv'
    <2>1. PICK v, op, r : Pushes(v, op, r)
      BY <1>1, Zenon
    <2>2. rows' = << >>
      BY <2>1 DEF Pushes
    <2>3. RowsInv'
      BY <2>2 DEF RowsInv
    <2> QED
      BY <2>1, <2>3, EventsPushed, StackPushed, OwnPushed, GiftPushed, ChangePushed, ChainPushed, Zenon
         DEF TraceInv
  <1>2. ASSUME \E ok, out : Answered(ok, out) PROVE TraceInv'
    <2>1. PICK ok, out : Answered(ok, out)
      BY <1>2, Zenon
    <2>2. rows' = << >>
      BY <2>1 DEF Answered
    <2>3. RowsInv'
      BY <2>2 DEF RowsInv
    <2> QED
      BY <2>1, <2>3, EventsAnswered, StackAnswered, OwnAnswered, GiftAnswered, ChangeAnswered,
         ChainAnswered, Zenon DEF TraceInv
  <1>3. CASE StartProtostone
    BY <1>1, <1>3, StartPushes
  <1>4. CASE Call
    BY <1>1, <1>4, CallPushes
  <1>5. CASE Return
    BY <1>2, <1>5, ReturnAnswers
  <1>6. ASSUME UNCHANGED <<trace, stack, vout, done, own, known>>,
               (stack = << >> /\ \E form \in Forms : rows' = Tables(form)) \/ rows' = rows
        PROVE  TraceInv'
    <2>1. \A form : Tables(form)' = Tables(form)
      BY <1>6, TablesKept
    <2>2. RowsInv'
      BY <1>6, <2>1 DEF RowsInv, TraceInv
    <2>3. EventInv' /\ StackInv' /\ OwnInv' /\ GiftInv' /\ ChangeInv' /\ ChainInv'
      BY <1>6, EventsKept DEF TraceInv
    <2> QED
      BY <2>2, <2>3, Zenon DEF TraceInv
  <1>7. CASE IndexTransaction
    BY <1>6, <1>7, Zenon DEF IndexTransaction, Tables
  <1>8. CASE UNCHANGED vars
    BY <1>6, <1>8 DEF vars
  <1> QED
    BY <1>3, <1>4, <1>5, <1>7, <1>8 DEF Next

\* What the properties need of a trace and its rows: what its calls asked for and gave,
\* which return answers which call, and what protostones of one pool call, or of calls
\* that only contain one another, ever hold.
THEOREM TracesTold == Spec => []TraceInv
  BY InitTrace, NextTrace, PTL DEF Spec

-----------------------------------------------------------------------------
(* What the indexers find *)

\* Once a transaction is over every call is answered, and its candidates are the
\* returns of its protostone.
Over == TraceInv /\ stack = << >>

LEMMA OverIs ==
    ASSUME Over
    PROVE  /\ DOMAIN own = Invokes
           /\ \A i \in Invokes :
                 /\ own[i] \in ReturnsOf(trace[i].vout) /\ i < own[i] /\ own[i] \in Nat \ {0}
                 /\ i \in InvokesOf(trace[i].vout)
                 /\ SortedCandidates(i) = ReturnsOf(trace[i].vout)
                 /\ Candidates(i) = {j \in ReturnsOf(trace[i].vout) : i < j}
           /\ \A v : \A j \in ReturnsOf(v) : \E k \in InvokesOf(v) : own[k] = j
           /\ \A v : ReturnsOf(v) \subseteq Nat \ {0} /\ InvokesOf(v) \subseteq Nat \ {0}
  <1>1. TraceInv /\ stack = << >> /\ DOMAIN stack = {}
    BY DEF Over
  <1>2. DOMAIN own = Invokes
    BY <1>1 DEF TraceInv, OwnInv
  <1>3. Len(trace) \in Nat /\ Invokes \subseteq 1..Len(trace) /\ Returns \subseteq 1..Len(trace)
    BY <1>1, EventsAre DEF TraceInv
  <1>4. \A v : ReturnsOf(v) \subseteq Nat \ {0} /\ InvokesOf(v) \subseteq Nat \ {0}
    <2>1. Invokes \subseteq Nat \ {0} /\ Returns \subseteq Nat \ {0}
      BY <1>3
    <2> QED
      BY <2>1 DEF ReturnsOf, InvokesOf
  <1>5. \A i \in Invokes : own[i] \in ReturnsOf(trace[i].vout) /\ i < own[i]
    BY <1>1, <1>2 DEF TraceInv, OwnInv
  <1>6. ASSUME NEW i \in Invokes
        PROVE  /\ own[i] \in Nat \ {0} /\ i \in InvokesOf(trace[i].vout)
               /\ SortedCandidates(i) = ReturnsOf(trace[i].vout)
               /\ Candidates(i) = {j \in ReturnsOf(trace[i].vout) : i < j}
    <2>1. own[i] \in Nat \ {0}
      BY <1>4, <1>5
    <2>2. SortedCandidates(i) = ReturnsOf(trace[i].vout)
      BY DEF SortedCandidates, Sorted, ReturnsOf, Returns, Invokes
    <2>3. Candidates(i) = {j \in ReturnsOf(trace[i].vout) : i < j}
      BY DEF Candidates, ReturnsOf, Returns
    <2> QED
      BY <2>1, <2>2, <2>3 DEF InvokesOf
  <1>7. \A v : \A j \in ReturnsOf(v) : \E k \in InvokesOf(v) : own[k] = j
    <2> TAKE v
    <2> TAKE j \in ReturnsOf(v)
    <2>1. PICK k \in DOMAIN own : own[k] = j
      BY <1>1 DEF TraceInv, OwnInv, ReturnsOf
    <2>2. k \in InvokesOf(v)
      BY <1>2, <1>5, <2>1 DEF ReturnsOf, InvokesOf
    <2> QED
      BY <2>1, <2>2
  <1> QED
    BY <1>2, <1>4, <1>5, <1>6, <1>7

\* A call of the pool or of Subfrost is answered by the next event.
LEMMA LeafIs ==
    ASSUME Over, NEW i \in Invokes, trace[i].op \in Leaves
    PROVE  /\ own[i] = i + 1 /\ own[i] \in Candidates(i) /\ own[i] \in SortedCandidates(i)
           /\ \A j \in Candidates(i) : own[i] <= j
           /\ trace[own[i]].ok => Gave(trace[i], trace[own[i]].out)
           /\ Asks(trace[i])
           /\ \A id : /\ Out(own[i], id) = Total(trace[own[i]].out, id) /\ Out(own[i], id) \in Nat
                      /\ In(i, id) = Total(trace[i].in, id) /\ In(i, id) \in Nat
  <1>1. /\ TraceInv /\ i \in DOMAIN own /\ own[i] \in ReturnsOf(trace[i].vout) /\ i < own[i]
        /\ SortedCandidates(i) = ReturnsOf(trace[i].vout)
        /\ Candidates(i) = {j \in ReturnsOf(trace[i].vout) : i < j}
        /\ i \in Nat /\ ReturnsOf(trace[i].vout) \subseteq Nat
    BY OverIs DEF Over
  <1>2. own[i] = i + 1 /\ (trace[own[i]].ok => Gave(trace[i], trace[own[i]].out))
    BY <1>1 DEF TraceInv, OwnInv
  <1>3. \A j \in Candidates(i) : own[i] <= j
    BY <1>1, <1>2
  <1>4. Asks(trace[i])
    BY <1>1 DEF TraceInv, EventInv
  <1>5. own[i] \in Returns
    BY <1>1 DEF ReturnsOf
  <1>6. \A id : /\ Out(own[i], id) = Total(trace[own[i]].out, id) /\ Out(own[i], id) \in 0..AmountMax
                /\ In(i, id) = Total(trace[i].in, id) /\ In(i, id) \in 0..AmountMax
    BY <1>1, <1>5, EventsAre DEF TraceInv
  <1> QED
    BY <1>1, <1>2, <1>3, <1>4, <1>6, CapIs

LEMMA AmountsAre ==
    ASSUME Over, NEW i \in Invokes
    PROVE  \A id : In(i, id) \in 0..AmountMax /\ Out(own[i], id) \in 0..AmountMax
  <1>1. own[i] \in Returns
    BY OverIs DEF ReturnsOf
  <1> QED
    BY <1>1, EventsAre DEF Over, TraceInv

(* Doubles *)

\* What is assumed of the units, of two numbers of a double's form
LEMMA UnitsAre ==
    /\ Exact \in Nat \ {0} /\ Exact % 2 = 0 /\ 1 \in Units /\ Units \subseteq Nat \ {0}
    /\ \A u \in Units \ {1} : \E v \in Units : u = 2 * v
    /\ \A u, v \in Units : u <= v => v % u = 0
    /\ \E u \in Units : AmountMax < Exact * u
  BY TraceAssumption

\* The unit an amount is counted in: the amount is at least half of what the unit reaches,
\* unless the unit is 1.
LEMMA UnitIs ==
    ASSUME NEW n \in 0..AmountMax
    PROVE  \E u \in Units :
              /\ u = CHOOSE w \in Units : n < Exact * w /\ \A v \in Units : n < Exact * v => w <= v
              /\ n < Exact * u
              /\ \A v \in Units : v < u => Exact * v <= n
  <1> DEFINE Fits == {u \in Units : n < Exact * u}
  <1>1. Fits # {} /\ Fits \subseteq Nat
    <2>1. PICK u \in Units : AmountMax < Exact * u
      BY UnitsAre
    <2>2. n < Exact * u
      <3>1. u \in Nat /\ Exact \in Nat
        BY UnitsAre
      <3>2. Exact * u \in Nat
        BY <3>1
      <3> QED
        BY <2>1, <3>2, CapIs
    <2> QED
      BY <2>2, UnitsAre
  <1>2. PICK u \in Fits : \A v \in Fits : u <= v
    BY <1>1, LeastNumber
  <1>3. /\ u \in Units /\ n < Exact * u /\ \A v \in Units : n < Exact * v => u <= v
    BY <1>2
  <1>4. \A w \in Units : n < Exact * w /\ (\A v \in Units : n < Exact * v => w <= v) => w = u
    <2> TAKE w \in Units
    <2> HAVE n < Exact * w /\ (\A v \in Units : n < Exact * v => w <= v)
    <2>1. w <= u /\ u <= w
      BY <1>3
    <2> QED
      BY <1>3, <2>1, UnitsAre
  <1>5. \A v \in Units : v < u => Exact * v <= n
    <2> TAKE v \in Units
    <2> HAVE v < u
    <2>1. ~(n < Exact * v)
      <3>1. ~(u <= v)
        BY <1>3, UnitsAre
      <3> QED
        BY <1>3, <3>1
    <2>2. Exact * v \in Nat
      BY UnitsAre
    <2> QED
      BY <2>1, <2>2
  <1> QED
    BY <1>3, <1>4, <1>5

\* No double lies between two neighbouring multiples of the unit of an amount.
LEMMA DoublesApart ==
    ASSUME NEW n \in 0..AmountMax, NEW u \in Units, NEW q \in Nat,
           \A v \in Units : v < u => Exact * v <= n,
           n < u * (q + 1),
           NEW e \in Doubles
    PROVE  e \in Nat /\ (e <= u * q \/ u * (q + 1) <= e)
  <1>1. PICK m \in 0..Exact, v \in Units : e = m * v
    BY DEF Doubles
  <1>2. /\ Exact \in Nat /\ Exact % 2 = 0 /\ m \in Nat /\ m <= Exact
        /\ u \in Nat /\ u > 0 /\ v \in Nat /\ v > 0 /\ n \in Nat
    BY UnitsAre, CapIs
  <1>3. e \in Nat
    BY <1>1, <1>2
  <1>4. CASE u <= v
    <2>1. v % u = 0
      BY <1>4, UnitsAre
    <2>2. v = u * (v \div u) /\ v \div u \in Nat
      BY <1>2, <2>1
    <2> DEFINE c == m * (v \div u)
    <2>3. c \in Nat
      BY <1>2, <2>2
    <2>4. e = u * c
      BY <1>1, <1>2, <2>2
    <2> HIDE DEF c
    <2>5. CASE c <= q
      <3>1. u * c <= u * q
        BY <1>2, <2>3, <2>5
      <3> QED
        BY <1>3, <2>4, <3>1
    <2>6. CASE q + 1 <= c
      <3>1. u * (q + 1) <= u * c
        BY <1>2, <2>3, <2>6
      <3> QED
        BY <1>3, <2>4, <3>1
    <2> QED
      BY <2>3, <2>5, <2>6
  <1>5. CASE v < u
    <2>1. PICK w \in Units : u = 2 * w
      <3>1. u # 1
        BY <1>2, <1>5
      <3> QED
        BY <3>1, UnitsAre
    <2>2. w \in Nat /\ w > 0 /\ w < u /\ Exact * w <= n
      BY <1>2, <2>1, UnitsAre
    <2>3. v <= w
      <3> SUFFICES ASSUME w < v PROVE FALSE
        BY <1>2, <2>2
      <3>1. v % w = 0
        BY <2>2, UnitsAre
      <3>2. v = w * (v \div w) /\ v \div w \in Nat
        BY <1>2, <2>2, <3>1
      <3>3. w * 1 < w * (v \div w) /\ w * (v \div w) < w * 2
        BY <1>2, <1>5, <2>1, <2>2, <3>2
      <3>4. 1 < v \div w /\ v \div w < 2
        BY <2>2, <3>2, <3>3
      <3> QED
        BY <3>2, <3>4
    <2>4. Exact = 2 * (Exact \div 2) /\ Exact \div 2 \in Nat
      BY <1>2
    <2> DEFINE h == Exact \div 2
    <2>5. e <= Exact * w
      <3>1. m * v <= Exact * v
        BY <1>2
      <3>2. Exact * v <= Exact * w
        BY <1>2, <2>2, <2>3
      <3>3. Exact * v \in Nat /\ Exact * w \in Nat
        BY <1>2, <2>2
      <3> QED
        BY <1>1, <1>3, <3>1, <3>2, <3>3
    <2>6. Exact * w = u * h
      <3> HIDE DEF h
      <3>1. Exact = 2 * h /\ h \in Nat
        BY <2>4 DEF h
      <3> QED
        BY <2>1, <2>2, <3>1
    <2>7. h \in Nat
      BY <2>4
    <2> HIDE DEF h
    <2>8. h <= q
      <3> SUFFICES ASSUME q + 1 <= h PROVE FALSE
        BY <2>7
      <3>1. u * (q + 1) <= u * h
        BY <1>2, <2>7
      <3>2. u * (q + 1) \in Nat /\ u * h \in Nat
        BY <1>2, <2>7
      <3> QED
        BY <1>2, <2>2, <2>6, <3>1, <3>2
    <2>9. u * h <= u * q /\ u * h \in Nat /\ u * q \in Nat
      BY <1>2, <2>7, <2>8
    <2> QED
      BY <1>3, <2>5, <2>6, <2>9
  <1> QED
    BY <1>2, <1>4, <1>5

\* A cast to f64 takes the nearest double.
LEMMA CastIsNearest ==
    ASSUME NEW n \in 0..AmountMax
    PROVE  IsNearest(AsF64(n), n)
  <1> DEFINE unit == CHOOSE u \in Units : n < Exact * u /\ \A v \in Units : n < Exact * v => u <= v
  <1>1. /\ unit \in Units /\ n < Exact * unit
        /\ \A v \in Units : v < unit => Exact * v <= n
    BY UnitIs
  <1>2. AsF64(n) = IF 2 * (n % unit) < unit \/ (2 * (n % unit) = unit /\ (n \div unit) % 2 = 0)
                   THEN unit * (n \div unit) ELSE unit * ((n \div unit) + 1)
    BY Zenon DEF AsF64
  <1> HIDE DEF unit
  <1>3. PICK u \in Units : u = unit
    BY <1>1
  <1>4. PICK q, r : q = n \div u /\ r = n % u
    OBVIOUS
  <1>5. u \in Nat /\ u > 0 /\ n \in Nat /\ Exact \in Nat
    BY UnitsAre, CapIs
  <1>6. q \in Nat /\ r \in 0..(u - 1) /\ n = u * q + r
    BY <1>4, <1>5
  <1>7. u * q \in Nat /\ u * (q + 1) = u * q + u
    BY <1>5, <1>6
  <1>8. n < u * (q + 1)
    BY <1>5, <1>6, <1>7
  <1>9. q + 1 <= Exact
    <2> SUFFICES ASSUME Exact <= q PROVE FALSE
      BY <1>5, <1>6
    <2>1. u * Exact <= u * q
      BY <1>5, <1>6
    <2>2. u * Exact = Exact * u /\ u * Exact \in Nat
      BY <1>5
    <2> QED
      BY <1>1, <1>3, <1>5, <1>6, <1>7, <2>1, <2>2
  <1>10. u * q \in Doubles /\ u * (q + 1) \in Doubles
    <2>1. q \in 0..Exact /\ q + 1 \in 0..Exact
      BY <1>5, <1>6, <1>9
    <2>2. u * q = q * u /\ u * (q + 1) = (q + 1) * u
      BY <1>5, <1>6
    <2> QED
      BY <2>1, <2>2 DEF Doubles
  <1>11. \A e \in Doubles : e \in Nat /\ (e <= u * q \/ u * (q + 1) <= e)
    BY <1>1, <1>3, <1>6, <1>8, DoublesApart
  <1>12. CASE AsF64(n) = u * q /\ 2 * r <= u
    BY <1>5, <1>6, <1>7, <1>10, <1>11, <1>12 DEF IsNearest, Apart
  <1>13. CASE AsF64(n) = u * (q + 1) /\ u <= 2 * r
    BY <1>5, <1>6, <1>7, <1>10, <1>11, <1>13 DEF IsNearest, Apart
  <1>14. \/ AsF64(n) = u * q /\ 2 * r <= u
         \/ AsF64(n) = u * (q + 1) /\ u <= 2 * r
    BY <1>2, <1>3, <1>4, <1>5, <1>6
  <1> QED
    BY <1>12, <1>13, <1>14

\* The swap row of a swap that succeeded
SwapOf(i) ==
    LET sold == IF In(i, "t0") > 0 THEN "t0" ELSE "t1"
        bought == IF In(i, "t0") > 0 THEN "t1" ELSE "t0"
    IN  [sold |-> sold, bought |-> bought, ok |-> TRUE,
         amounts |-> <<In(i, sold), Out(own[i], bought)>>]

LEMMA SwapIs ==
    ASSUME Over, NEW i \in Attempts("swap"), Ok(i)
    PROVE  /\ i \in Invokes /\ own[i] # 0
           /\ SwapMade(i, own[i]) = SwapOf(i) /\ SwapRow(i) = AsStored(SwapOf(i))
           /\ is_delegate_invoke(i) /\ (In(i, "t0") > 0 \/ In(i, "t1") > 0)
           /\ own[i] \in Strict_Sorted(i, IF In(i, "t0") > 0 THEN "t1" ELSE "t0")
           /\ \A id \in TokenSet : Out(own[i], id) > 0 <=> id = IF In(i, "t0") > 0 THEN "t1" ELSE "t0"
           /\ In(i, "t0") = 0 \/ In(i, "t1") = 0
  <1> DEFINE x == IF In(i, "t0") > 0 THEN "t1" ELSE "t0"
             j == own[i]
  <1>1. i \in Invokes /\ trace[i].op = "swap"
    BY DEF Attempts, Is, Invokes
  <1>2. "swap" \in Leaves /\ "swap" \in PoolOps /\ {"t0", "t1"} \subseteq TokenSet
    BY OpsAre, TokensAre DEF Leaves
  <1>3. /\ j = i + 1 /\ j \in Candidates(i) /\ j \in SortedCandidates(i)
        /\ \A n \in Candidates(i) : j <= n
        /\ trace[j].ok => Gave(trace[i], trace[j].out)
        /\ Asks(trace[i])
        /\ \A id : /\ Out(j, id) = Total(trace[j].out, id) /\ Out(j, id) \in Nat
                   /\ In(i, id) = Total(trace[i].in, id) /\ In(i, id) \in Nat
    BY <1>1, <1>2, LeafIs
  <1>4. trace[j].ok
    BY DEF Ok
  <1>5. Bought(trace[i]) = x
    BY <1>3 DEF Bought
  <1> HIDE DEF x
  <1>6. /\ \A id \in TokenSet : Out(j, id) > 0 <=> id = x
        /\ \E a \in ToSet(trace[j].out) : a.id = x /\ (trace[i].want = {} \/ a.value \in trace[i].want)
    BY <1>1, <1>3, <1>4, <1>5 DEF Gave
  <1>7. /\ trace[i].delegate
        /\ \/ In(i, "t0") > 0 /\ In(i, "t1") = 0
           \/ In(i, "t1") > 0 /\ In(i, "t0") = 0
    <2>1. trace[i].delegate = (trace[i].op \in PoolOps)
      BY <1>3 DEF Asks
    <2>2. trace[i].delegate
      BY <1>1, <1>2, <2>1, Zenon
    <2> QED
      BY <1>1, <1>3, <2>2 DEF Asks
  <1>8. j \in Strict(i, x) /\ j \in Strict_Sorted(i, x)
    BY <1>3, <1>6 DEF Strict, Strict_Sorted
  <1>9. Candidates(i) \subseteq Nat /\ j \in Nat \ {0} /\ Strict(i, x) \subseteq Candidates(i)
    BY <1>1, OverIs DEF Strict
  <1>10. SwapReturn(i) = j
    <2>1. Min(Strict(i, x)) = j
      BY <1>3, <1>8, <1>9, LeastIs
    <2> QED
      BY <1>8, <2>1, Zenon DEF SwapReturn, x
  <1> HIDE DEF j
  <1>11. SwapMade(i, j) = SwapOf(i)
    <2>1. CASE In(i, "t0") > 0
      <3>1. x = "t1" /\ In(i, "t1") = 0 /\ Out(j, "t0") = 0 /\ Out(j, "t1") > 0
        BY <1>2, <1>3, <1>6, <1>7, <2>1 DEF x
      <3> QED
        BY <1>9, <2>1, <3>1 DEF SwapMade, SwapOf, j
    <2>2. CASE ~(In(i, "t0") > 0)
      <3>1. x = "t0" /\ In(i, "t1") > 0 /\ Out(j, "t0") > 0 /\ Out(j, "t0") # 0 /\ j # 0
        BY <1>2, <1>3, <1>6, <1>7, <1>9, <2>2 DEF x
      <3>2. SwapMade(i, j) = [sold |-> "t1", bought |-> "t0", ok |-> TRUE,
                              amounts |-> <<In(i, "t1"), Out(j, "t0")>>]
        BY <3>1, Zenon DEF SwapMade
      <3>3. SwapOf(i) = [sold |-> "t1", bought |-> "t0", ok |-> TRUE,
                         amounts |-> <<In(i, "t1"), Out(j, "t0")>>]
        BY <2>2, Zenon DEF SwapOf, j
      <3> QED
        BY <3>2, <3>3
    <2> QED
      BY <2>1, <2>2
  <1>12. is_delegate_invoke(i)
    BY <1>1, <1>7, Zenon DEF is_delegate_invoke, Is, Invokes
  <1> QED
    BY <1>1, <1>6, <1>7, <1>8, <1>9, <1>10, <1>11, <1>12 DEF SwapRow, j, x

LEMMA SwapsAreExact == TraceInv => SwapsExact
  <1> SUFFICES ASSUME TraceInv, rows # << >>, known, NEW i \in Attempts("swap"), Ok(i)
               PROVE  LET sold == IF In(i, "t0") > 0 THEN "t0" ELSE "t1"
                          bought == IF In(i, "t0") > 0 THEN "t1" ELSE "t0"
                      IN  /\ i \in DOMAIN rows.swap
                          /\ rows.swap[i].ok
                          /\ rows.swap[i].sold = sold /\ rows.swap[i].bought = bought
                          /\ IsNearest(rows.swap[i].amounts[1], In(i, sold))
                          /\ IsNearest(rows.swap[i].amounts[2], Out(own[i], bought))
    BY Zenon DEF SwapsExact, Indexed
  <1>1. Over
    BY DEF TraceInv, RowsInv, Over
  <1>2. rows.swap = SwapRows
    BY DEF TraceInv, RowsInv, Tables
  <1>3. /\ SwapRow(i) = AsStored(SwapOf(i)) /\ is_delegate_invoke(i) /\ (In(i, "t0") > 0 \/ In(i, "t1") > 0)
        /\ i \in DOMAIN trace /\ i \in Invokes
    BY <1>1, SwapIs DEF Attempts
  <1>4. i \in DOMAIN rows.swap /\ rows.swap[i] = AsStored(SwapOf(i))
    BY <1>2, <1>3 DEF SwapRows
  <1>5. \A id : In(i, id) \in 0..AmountMax /\ Out(own[i], id) \in 0..AmountMax
    BY <1>1, <1>3, AmountsAre
  <1>6. PICK sold, bought : /\ sold = IF In(i, "t0") > 0 THEN "t0" ELSE "t1"
                            /\ bought = IF In(i, "t0") > 0 THEN "t1" ELSE "t0"
    OBVIOUS
  <1>7. /\ rows.swap[i].ok /\ rows.swap[i].sold = sold /\ rows.swap[i].bought = bought
        /\ rows.swap[i].amounts[1] = AsF64(In(i, sold))
        /\ rows.swap[i].amounts[2] = AsF64(Out(own[i], bought))
    BY <1>4, <1>6 DEF AsStored, SwapOf
  <1>8. IsNearest(AsF64(In(i, sold)), In(i, sold)) /\ IsNearest(AsF64(Out(own[i], bought)), Out(own[i], bought))
    BY <1>5, CastIsNearest
  <1> QED
    BY <1>4, <1>6, <1>7, <1>8

LEMMA SubfrostIsExact == TraceInv => SubfrostExact
  <1> SUFFICES ASSUME TraceInv, rows # << >>, rows.form = "hex",
                      NEW i \in Attempts("wrap") \cup Attempts("unwrap"),
                      Ok(i), \A k \in Others(i) : Encloses(k, i)
               PROVE  rows[trace[i].op][i] =
                        [ok |-> TRUE,
                         amount |-> IF trace[i].op = "wrap" THEN Out(own[i], "fr")
                                    ELSE In(i, "fr") - Out(own[i], "fr")]
    BY Zenon DEF SubfrostExact, Indexed
  <1> DEFINE j == own[i]
  <1>1. Over
    BY DEF TraceInv, RowsInv, Over
  <1>2. rows["wrap"] = WrapRows("hex") /\ rows["unwrap"] = UnwrapRows("hex")
    BY DEF TraceInv, RowsInv, Tables
  <1>3. i \in Invokes /\ i \in DOMAIN trace /\ trace[i].op \in SubfrostOps /\ trace[i].op \in Leaves
    BY OpsAre DEF Attempts, Is, Invokes, Leaves
  <1>4. /\ j \in SortedCandidates(i) /\ (trace[j].ok => Gave(trace[i], trace[j].out)) /\ trace[j].ok
        /\ \A id : /\ Out(j, id) = Total(trace[j].out, id) /\ Out(j, id) \in Nat
                   /\ In(i, id) = Total(trace[i].in, id) /\ In(i, id) \in Nat
    BY <1>1, <1>3, LeafIs DEF Ok
  <1>5. SortedCandidates(i) \subseteq Nat /\ \A n \in SortedCandidates(i) : j <= n
    <2>1. SortedCandidates(i) = ReturnsOf(trace[i].vout) /\ ReturnsOf(trace[i].vout) \subseteq Nat
      BY <1>1, <1>3, OverIs
    <2>2. ASSUME NEW n \in ReturnsOf(trace[i].vout) PROVE j <= n
      <3>1. PICK k \in InvokesOf(trace[i].vout) : own[k] = n
        BY <1>1, OverIs
      <3>2. CASE k = i
        BY <1>4, <2>1, <3>1, <3>2
      <3>3. CASE k # i
        <4>1. k \in Others(i)
          BY <3>3 DEF Others, InvokesOf, Invokes
        <4>2. own[i] < own[k]
          BY <4>1 DEF Encloses
        <4> QED
          BY <1>4, <2>1, <3>1, <4>2
      <3> QED
        BY <3>2, <3>3
    <2> QED
      BY <2>1, <2>2
  <1> HIDE DEF j
  <1>6. j \in Succeeded(i) /\ Min(Succeeded(i)) = j
    <2>1. j \in Succeeded(i) /\ Succeeded(i) \subseteq SortedCandidates(i)
      BY <1>4 DEF Succeeded
    <2> QED
      BY <1>5, <2>1, LeastIs
  <1>7. CASE trace[i].op = "wrap"
    <2> DEFINE giving == {n \in Succeeded(i) :
                            "hex" = "hex" /\ \E a \in ToSet(trace[n].out) : a.id = "fr"}
    <2>1. j \in giving /\ giving \subseteq SortedCandidates(i)
      BY <1>4, <1>6, <1>7 DEF Gave, Gives, Succeeded
    <2>2. Min(giving) = j
      BY <1>5, <2>1, LeastIs
    <2>3. WrapRow(i, "hex") = [ok |-> TRUE, amount |-> Out(j, "fr")]
      BY <1>4, <2>1, <2>2, Zenon DEF WrapRow, Frost
    <2>4. WrapRows("hex")[i] = WrapRow(i, "hex")
      BY <1>3, <1>7 DEF WrapRows, is_subfrost_wrap_invoke, Is, Invokes
    <2> QED
      BY <1>2, <1>7, <2>3, <2>4 DEF j
  <1>8. CASE trace[i].op = "unwrap"
    <2>1. Out(j, "fr") < In(i, "fr")
      BY <1>3, <1>4, <1>8 DEF Gave
    <2>2. Less(In(i, "fr"), Out(j, "fr")) = In(i, "fr") - Out(j, "fr")
      BY <1>4, <2>1 DEF Less
    <2>3. UnwrapRow(i, "hex") = [ok |-> TRUE, amount |-> In(i, "fr") - Out(j, "fr")]
      BY <1>4, <1>6, <2>2, Zenon DEF UnwrapRow, Frost
    <2>4. UnwrapRows("hex")[i] = UnwrapRow(i, "hex")
      BY <1>3, <1>8 DEF UnwrapRows, is_subfrost_unwrap_invoke, Is, Invokes
    <2> QED
      BY <1>2, <1>8, <2>3, <2>4 DEF j
  <1> QED
    BY <1>3, <1>7, <1>8, OpsAre

-----------------------------------------------------------------------------
(* Which of the returns is taken *)

LEMMA GreatestOf ==
    ASSUME NEW N \in Nat, NEW T \in SUBSET (1..N), T # {}
    PROVE  \E m \in T : \A n \in T : n <= m
  <1> DEFINE R == {N - n : n \in T}
  <1>1. R \subseteq Nat /\ R # {}
    <2>1. \A n \in T : N - n \in Nat
      OBVIOUS
    <2> QED
      BY <2>1
  <1>2. PICK b \in R : \A c \in R : b <= c
    <2> HIDE DEF R
    <2> QED
      BY <1>1, LeastNumber
  <1>3. PICK m \in T : b = N - m
    BY <1>2
  <1>4. \A n \in T : N - m <= N - n /\ n \in Nat /\ m \in Nat
    BY <1>2, <1>3
  <1> QED
    BY <1>4

\* Of returns some one is the best, whatever they are compared by.
BestOf(js, first, second, j) ==
    \A k \in js \ {j} :
       \/ first[j] < first[k]
       \/ first[j] = first[k] /\ second[j] < second[k]
       \/ first[j] = first[k] /\ second[j] = second[k] /\ k < j

LEMMA BestIs ==
    ASSUME NEW N \in Nat, NEW js \in SUBSET (1..N), js # {},
           NEW first \in [js -> Nat], NEW second \in [js -> Nat]
    PROVE  LET j == Best(js, first, second)
           IN  j \in js /\ BestOf(js, first, second, j)
  <1> DEFINE F == {first[j] : j \in js}
  <1>1. F \subseteq Nat /\ F # {}
    OBVIOUS
  <1>2. PICK a \in F : \A c \in F : a <= c
    <2> HIDE DEF F
    <2> QED
      BY <1>1, LeastNumber
  <1> DEFINE J == {j \in js : first[j] = a}
             S == {second[j] : j \in J}
  <1>3. J # {} /\ J \subseteq js /\ \A k \in js : a <= first[k] /\ first[k] \in Nat /\ a \in Nat
    BY <1>2
  <1>4. S \subseteq Nat /\ S # {}
    BY <1>3
  <1>5. PICK b \in S : \A c \in S : b <= c
    <2> HIDE DEF S
    <2> QED
      BY <1>4, LeastNumber
  <1> DEFINE K == {j \in J : second[j] = b}
  <1>6. K # {} /\ K \subseteq 1..N /\ \A k \in J : b <= second[k] /\ second[k] \in Nat /\ b \in Nat
    BY <1>3, <1>5
  <1>7. PICK m \in K : \A n \in K : n <= m
    <2> HIDE DEF K
    <2> QED
      BY <1>6, GreatestOf
  <1>8. m \in js /\ BestOf(js, first, second, m)
    <2>1. m \in js /\ first[m] = a /\ second[m] = b
      BY <1>7
    <2>2. ASSUME NEW k \in js \ {m}
          PROVE  \/ first[m] < first[k]
                 \/ first[m] = first[k] /\ second[m] < second[k]
                 \/ first[m] = first[k] /\ second[m] = second[k] /\ k < m
      <3>1. CASE k \in K
        <4>1. first[k] = a /\ second[k] = b /\ k <= m /\ k # m /\ k \in Nat /\ m \in Nat
          BY <1>6, <1>7, <3>1
        <4> QED
          BY <2>1, <4>1
      <3>2. CASE k \in J /\ k \notin K
        <4>1. first[k] = a /\ second[k] # b /\ b <= second[k] /\ second[k] \in Nat /\ b \in Nat
          BY <1>6, <3>2
        <4> QED
          BY <2>1, <4>1
      <3>3. CASE k \notin J
        <4>1. first[k] # a /\ a <= first[k] /\ first[k] \in Nat /\ a \in Nat
          BY <1>3, <3>3
        <4> QED
          BY <2>1, <4>1
      <3> QED
        BY <3>1, <3>2, <3>3
    <2> QED
      BY <2>1, <2>2 DEF BestOf
  <1>9. Best(js, first, second) = CHOOSE j \in js : BestOf(js, first, second, j)
    BY DEF Best, BestOf
  <1> HIDE DEF J, K, S, F
  <1> QED
    BY <1>8, <1>9, Zenon

\* The tokens of a list of two
Seeing(in, g) ==
    g = [n \in 0..Len(in) |->
            IF n = 0 THEN << >>
            ELSE IF in[n].id = "lp" \/ in[n].id \in ToSet(g[n - 1]) THEN g[n - 1]
            ELSE Append(g[n - 1], in[n].id)]

LEMMA TokensOfTwo ==
    ASSUME NEW in, NEW x, NEW y, TwoOf(in, x, y), x # "lp", y # "lp", x # y
    PROVE  TokensOf(in) = <<x, y>>
  <1>1. Len(in) = 2 /\ in[1].id = x /\ in[2].id = y
    BY DEF TwoOf
  <1>2. /\ ToSet(<< >>) = {} /\ ToSet(<<x>>) = {x}
        /\ Append(<< >>, x) = <<x>> /\ Append(<<x>>, y) = <<x, y>>
    <2>1. DOMAIN << >> = {} /\ DOMAIN <<x>> = {1} /\ <<x>>[1] = x
      OBVIOUS
    <2>2. ToSet(<< >>) = {} /\ ToSet(<<x>>) = {x}
      BY <2>1 DEF ToSet
    <2>3. Append(<< >>, x) = <<x>>
      OBVIOUS
    <2>4. Append(<<x>>, y) = <<x, y>>
      <3>1. <<x>> \in Seq({x, y}) /\ <<x, y>> \in Seq({x, y}) /\ Len(<<x>>) = 1 /\ Len(<<x, y>>) = 2
        OBVIOUS
      <3>2. /\ Append(<<x>>, y) \in Seq({x, y}) /\ Len(Append(<<x>>, y)) = 2
            /\ Append(<<x>>, y)[1] = x /\ Append(<<x>>, y)[2] = y
        BY <3>1, AppendProperties
      <3> DEFINE u == Append(<<x>>, y)
                 w == <<x, y>>
      <3>3. w \in Seq({x, y}) /\ Len(w) = 2 /\ w[1] = x /\ w[2] = y
        BY <3>1
      <3> HIDE DEF u, w
      <3>4. u \in Seq({x, y}) /\ Len(u) = 2 /\ u[1] = x /\ u[2] = y
        BY <3>2 DEF u
      <3>5. Len(u) = Len(w) /\ \A n \in 1..Len(u) : u[n] = w[n]
        BY <3>3, <3>4
      <3>6. u = w
        BY <3>3, <3>4, <3>5, SeqEqual
      <3> QED
        BY <3>6 DEF u, w
    <2> QED
      BY <2>2, <2>3, <2>4
  <1> DEFINE g == [n \in 0..2 |-> IF n = 0 THEN << >> ELSE IF n = 1 THEN <<x>> ELSE <<x, y>>]
  <1>3. g[0] = << >> /\ g[1] = <<x>> /\ g[2] = <<x, y>>
    OBVIOUS
  <1>4. g = [n \in 0..2 |-> g[n]]
    OBVIOUS
  <1> HIDE DEF g
  <1>5. Seeing(in, g)
    <2>1. ASSUME NEW n \in 0..2
          PROVE  g[n] = IF n = 0 THEN << >>
                        ELSE IF in[n].id = "lp" \/ in[n].id \in ToSet(g[n - 1]) THEN g[n - 1]
                        ELSE Append(g[n - 1], in[n].id)
      <3>1. CASE n = 0
        BY <1>3, <3>1
      <3>2. CASE n = 1
        <4>1. n - 1 = 0 /\ n # 0
          BY <3>2
        <4> QED
          BY <1>1, <1>2, <1>3, <3>2, <4>1
      <3>3. CASE n = 2
        <4>1. n - 1 = 1 /\ n # 0
          BY <3>3
        <4> QED
          BY <1>1, <1>2, <1>3, <3>3, <4>1
      <3> QED
        BY <3>1, <3>2, <3>3
    <2> QED
      BY <1>1, <1>4, <2>1 DEF Seeing
  <1> DEFINE h == CHOOSE h : Seeing(in, h)
  <1>6. Seeing(in, h)
    BY <1>5, Zenon
  <1>7. TokensOf(in) = h[2]
    BY <1>1 DEF TokensOf, Seeing
  <1> HIDE DEF h
  <1>8. \A n \in 0..2 : h[n] = IF n = 0 THEN << >>
                        ELSE IF in[n].id = "lp" \/ in[n].id \in ToSet(h[n - 1]) THEN h[n - 1]
                        ELSE Append(h[n - 1], in[n].id)
    BY <1>1, <1>6 DEF Seeing
  <1>9. h[0] = << >>
    BY <1>8
  <1>10. h[1] = <<x>>
    <2>1. h[1] = IF in[1].id = "lp" \/ in[1].id \in ToSet(h[1 - 1]) THEN h[1 - 1]
                        ELSE Append(h[1 - 1], in[1].id)
      BY <1>8
    <2>2. 1 - 1 = 0
      OBVIOUS
    <2> QED
      BY <1>1, <1>2, <1>9, <2>1, <2>2
  <1>11. h[2] = <<x, y>>
    <2>1. h[2] = IF in[2].id = "lp" \/ in[2].id \in ToSet(h[2 - 1]) THEN h[2 - 1]
                        ELSE Append(h[2 - 1], in[2].id)
      BY <1>8
    <2>2. 2 - 1 = 1
      OBVIOUS
    <2> QED
      BY <1>1, <1>2, <1>10, <2>1, <2>2
  <1> QED
    BY <1>7, <1>11

-----------------------------------------------------------------------------
(* What creations, mints and burns are recorded as *)

Alike(j, k) == \A id \in {"t0", "t1", "lp"} : Out(j, id) = Out(k, id)

LEMMA CandidatesAre ==
    ASSUME Over, NEW i \in Invokes
    PROVE  /\ Len(trace) \in Nat /\ SortedCandidates(i) = ReturnsOf(trace[i].vout)
           /\ SortedCandidates(i) \subseteq 1..Len(trace) /\ SortedCandidates(i) \subseteq Returns
           /\ \A k \in SortedCandidates(i) : \A id : Out(k, id) \in Nat /\ Out(k, id) \in 0..AmountMax
           /\ \A k \in SortedCandidates(i) : \A id : Out(k, id) # 0 => trace[k].ok
  <1>1. /\ TraceInv /\ EventInv /\ SortedCandidates(i) = ReturnsOf(trace[i].vout)
        /\ SortedCandidates(i) \subseteq Returns
    BY OverIs DEF Over, TraceInv, ReturnsOf
  <1>2. /\ Len(trace) \in Nat /\ Returns \subseteq 1..Len(trace)
        /\ \A k \in Returns : \A id : Out(k, id) = Total(trace[k].out, id) /\ Out(k, id) \in 0..AmountMax
    BY <1>1, EventsAre
  <1>3. \A k \in Returns : ~trace[k].ok => trace[k].out = << >>
    BY <1>1 DEF EventInv
  <1>4. \A k \in Returns : \A id : Out(k, id) # 0 => trace[k].ok
    BY <1>2, <1>3, TotalEmpty
  <1>5. \A k \in Returns : \A id : Out(k, id) \in Nat
    BY <1>2, CapIs
  <1> QED
    BY <1>1, <1>2, <1>4, <1>5

LEMMA NetIs ==
    ASSUME NEW i, NEW j, NEW id, In(i, id) \in Nat, Out(j, id) \in Nat
    PROVE  /\ Net(i, j, id) = IF In(i, id) > Out(j, id) THEN In(i, id) - Out(j, id) ELSE 0
           /\ NetOut(i, j, id) = IF Out(j, id) > In(i, id) THEN Out(j, id) - In(i, id) ELSE 0
           /\ Net(i, j, id) \in Nat /\ NetOut(i, j, id) \in Nat
           /\ Net(i, j, id) > 0 <=> In(i, id) > Out(j, id)
           /\ NetOut(i, j, id) > 0 <=> Out(j, id) > In(i, id)
  BY DEF Net, NetOut, Less

LEMMA AddsLiquidity ==
    ASSUME Over, NEW i \in Invokes, trace[i].op \in {"create", "mint"}, Ok(i)
    PROVE  /\ In(i, "lp") = 0 /\ Out(own[i], "lp") > 0 /\ Out(own[i], "t1") = 0
           /\ Net(i, own[i], "t0") > 0 /\ Net(i, own[i], "t1") > 0 /\ NetOut(i, own[i], "lp") > 0
           /\ own[i] \in Minted(i) /\ own[i] \in LpReturns(i)
           /\ Minted(i) = {k \in SortedCandidates(i) : Out(k, "lp") > 0}
           /\ LpReturns(i) = Minted(i)
           /\ Minted(i) \subseteq SortedCandidates(i)
  <1> DEFINE j == own[i]
  <1>1. trace[i].op \in Leaves
    BY OpsAre DEF Leaves
  <1>2. /\ j \in SortedCandidates(i) /\ (trace[j].ok => Gave(trace[i], trace[j].out)) /\ trace[j].ok
        /\ Asks(trace[i])
        /\ \A id : /\ Out(j, id) = Total(trace[j].out, id) /\ Out(j, id) \in Nat
                   /\ In(i, id) = Total(trace[i].in, id) /\ In(i, id) \in Nat
    BY <1>1, LeafIs DEF Ok
  <1> HIDE DEF j
  <1>3. /\ In(i, "t0") > 0 /\ In(i, "t1") > 0 /\ In(i, "lp") = 0
        /\ Out(j, "lp") > 0 /\ Out(j, "t1") = 0 /\ Out(j, "t0") < In(i, "t0")
    BY <1>2 DEF Asks, Gave
  <1>4. Net(i, j, "t0") > 0 /\ Net(i, j, "t1") > 0 /\ NetOut(i, j, "lp") > 0
    BY <1>2, <1>3, NetIs
  <1>5. Minted(i) = {k \in SortedCandidates(i) : Out(k, "lp") > 0}
    BY <1>3 DEF Minted
  <1>6. LpReturns(i) = Minted(i)
    <2>1. \A k \in SortedCandidates(i) : Out(k, "lp") > 0 => trace[k].ok
      BY CandidatesAre
    <2> QED
      BY <1>3, <1>5, <2>1 DEF LpReturns
  <1>7. j \in Minted(i)
    BY <1>2, <1>3, <1>5
  <1> QED
    BY <1>3, <1>4, <1>5, <1>6, <1>7 DEF j

CreationNets(i, j) ==
    <<Net(i, j, CreationTokens(i)[1]), Net(i, j, CreationTokens(i)[2]), NetOut(i, j, "lp")>>
BestMinted(i, j) ==
    BestOf(Minted(i), [k \in Minted(i) |-> Out(k, CreationTokens(i)[1])],
           [k \in Minted(i) |-> Out(k, CreationTokens(i)[2])], j)

LEMMA IdsAre ==
    ASSUME Over, NEW i \in Invokes, trace[i].op = "create"
    PROVE  \/ CreationTokens(i) = <<"t0", "t1">>
           \/ CreationTokens(i) = <<"t1", "t0">>
  <1>1. Asks(trace[i])
    BY DEF Over, TraceInv, EventInv
  <1>2. Len(trace[i].in) = 2 /\ {trace[i].in[1].id, trace[i].in[2].id} = {"t0", "t1"}
    BY <1>1 DEF Asks
  <1>3. TwoOf(trace[i].in, "t0", "t1") \/ TwoOf(trace[i].in, "t1", "t0")
    BY <1>2 DEF TwoOf
  <1> QED
    BY <1>3, TokensOfTwo DEF CreationTokens

LEMMA NetsAlike ==
    ASSUME Over, NEW i \in Invokes, NEW j, NEW k, Alike(j, k), trace[i].op = "create"
    PROVE  CreationNets(i, j) = CreationNets(i, k)
  <1>2. \A id \in {"t0", "t1", "lp"} : Net(i, j, id) = Net(i, k, id) /\ NetOut(i, j, id) = NetOut(i, k, id)
    BY DEF Alike, Net, NetOut
  <1>3. CreationTokens(i)[1] \in {"t0", "t1", "lp"} /\ CreationTokens(i)[2] \in {"t0", "t1", "lp"}
    BY IdsAre
  <1> QED
    BY <1>2, <1>3 DEF CreationNets

LEMMA CreationIs ==
    ASSUME Over, NEW i \in Attempts("create"), Ok(i),
           \A k \in Minted(i) : BestMinted(i, k) => Alike(k, own[i])
    PROVE  /\ Len(CreationTokens(i)) = 2
           /\ 0 \notin ToSet(CreationNets(i, own[i]))
           /\ i \in DOMAIN CreationRows
           /\ CreationRows[i] = Created(CreationNets(i, own[i]), CreationTokens(i))
  <1> DEFINE ids == CreationTokens(i)
             j == own[i]
             js == Minted(i)
             first == [k \in js |-> Out(k, ids[1])]
             second == [k \in js |-> Out(k, ids[2])]
             b == Best(js, first, second)
  <1>1. i \in Invokes /\ i \in DOMAIN trace /\ trace[i].op = "create"
    BY DEF Attempts, Is, Invokes
  <1>2. ids = <<"t0", "t1">> \/ ids = <<"t1", "t0">>
    BY <1>1, IdsAre
  <1>3. /\ Net(i, j, "t0") > 0 /\ Net(i, j, "t1") > 0 /\ NetOut(i, j, "lp") > 0 /\ j \in js
        /\ js \subseteq SortedCandidates(i)
    BY <1>1, AddsLiquidity
  <1>4. Len(ids) = 2
    BY <1>2
  <1>5. 0 \notin ToSet(CreationNets(i, j))
    <2>1. Net(i, j, ids[1]) > 0 /\ Net(i, j, ids[2]) > 0
      BY <1>2, <1>3
    <2>2. \A x, y, z : ToSet(<<x, y, z>>) = {x, y, z}
      <3> TAKE x, y, z
      <3>1. DOMAIN <<x, y, z>> = {1, 2, 3} /\ <<x, y, z>>[1] = x /\ <<x, y, z>>[2] = y /\ <<x, y, z>>[3] = z
        OBVIOUS
      <3> QED
        BY <3>1 DEF ToSet
    <2>3. ~(0 > 0)
      OBVIOUS
    <2> QED
      BY <1>3, <2>1, <2>2, <2>3 DEF CreationNets
  <1>6. js \subseteq 1..Len(trace) /\ Len(trace) \in Nat /\ first \in [js -> Nat] /\ second \in [js -> Nat]
    <2>1. \A k \in js : \A id : Out(k, id) \in Nat
      BY <1>1, <1>3, CandidatesAre
    <2>2. js \subseteq 1..Len(trace) /\ Len(trace) \in Nat
      BY <1>1, <1>3, CandidatesAre
    <2> QED
      BY <2>1, <2>2
  <1> HIDE DEF ids, js, j
  <1>7. b \in js /\ BestOf(js, first, second, b)
    <2> HIDE DEF first, second
    <2> QED
      BY <1>3, <1>6, BestIs
  <1>8. BestMinted(i, b)
    BY <1>7 DEF BestMinted, ids, js
  <1> HIDE DEF b
  <1>9. Alike(b, j)
    BY <1>7, <1>8 DEF js, j
  <1>10. CreationNets(i, b) = CreationNets(i, j)
    BY <1>1, <1>9, NetsAlike
  <1>11. CreationAmounts(i) = CreationNets(i, j)
    <2>1. ~(Len(ids) < 2 \/ js = {})
      BY <1>3, <1>4
    <2>2. CreationAmounts(i) = IF Len(ids) < 2 \/ js = {} THEN << >>
                               ELSE IF 0 \in ToSet(CreationNets(i, b)) THEN << >>
                               ELSE CreationNets(i, b)
      BY Zenon DEF CreationAmounts, CreationNets, ids, js, b, first, second
    <2> QED
      BY <1>5, <1>10, <2>1, <2>2, Zenon
  <1>12. CreationNets(i, j) # << >>
    BY DEF CreationNets
  <1>13. is_delegate_invoke_create(i)
    <2>1. trace[i].delegate = (trace[i].op \in PoolOps)
      BY <1>1 DEF Over, TraceInv, EventInv, Asks
    <2>2. trace[i].delegate
      BY <1>1, <2>1, Zenon DEF PoolOps
    <2> QED
      BY <1>1, <2>2, Zenon DEF is_delegate_invoke_create, Is, Invokes
  <1>14. i \in DOMAIN CreationRows /\ CreationRows[i] = Created(CreationNets(i, j), ids)
    BY <1>1, <1>11, <1>12, <1>13 DEF CreationRows, ids
  <1> QED
    BY <1>4, <1>5, <1>14 DEF j, ids

LEMMA FirstIs ==
    ASSUME Over, NEW i \in Invokes
    PROVE  /\ First(i) \in InvokesOf(trace[i].vout) /\ \A k \in InvokesOf(trace[i].vout) : First(i) <= k
           /\ InvokesOf(trace[i].vout) = Others(i) \cup {i} /\ trace[i].vout \in done
           /\ \A k \in InvokesOf(trace[i].vout) : \A id : In(k, id) \in Nat
  <1>1. InvokesOf(trace[i].vout) = Others(i) \cup {i}
    BY DEF InvokesOf, Invokes, Others
  <1>2. InvokesOf(trace[i].vout) \subseteq Nat
    BY OverIs
  <1>3. trace[i].vout \in done
    BY DEF Over, TraceInv, EventInv, Invokes
  <1>4. \A k \in InvokesOf(trace[i].vout) : \A id : In(k, id) \in Nat
    BY EventsAre, CapIs DEF Over, TraceInv, InvokesOf
  <1>5. First(i) \in InvokesOf(trace[i].vout) /\ \A k \in InvokesOf(trace[i].vout) : First(i) <= k
    BY <1>1, <1>2, LeastIn DEF First
  <1> QED
    BY <1>1, <1>3, <1>4, <1>5

LEMMA ChainedReturns ==
    ASSUME Over, NEW i \in Invokes, trace[i].op \in Leaves,
           \A k \in Others(i) : Encloses(k, i),
           \A id \in TokenSet : In(First(i), id) = In(i, id)
    PROVE  /\ \A j \in SortedCandidates(i) :
                 \/ \A id \in TokenSet : Out(j, id) = 0
                 \/ \A id \in TokenSet : Out(j, id) = In(i, id)
                 \/ Alike(j, own[i])
           /\ (\A j \in SortedCandidates(i) : trace[j].ok)
                 => \A j \in SortedCandidates(i) : Alike(j, own[i])
  <1> DEFINE v == trace[i].vout
  <1>1. /\ InvokesOf(v) = Others(i) \cup {i} /\ v \in done
        /\ First(i) \in InvokesOf(v) /\ \A k \in InvokesOf(v) : First(i) <= k
        /\ \A k \in InvokesOf(v) : \A id : In(k, id) \in Nat
    BY FirstIs
  <1>2. /\ i \in DOMAIN own /\ SortedCandidates(i) = ReturnsOf(v)
        /\ \A j \in ReturnsOf(v) : \E k \in InvokesOf(v) : own[k] = j
        /\ ReturnsOf(v) \subseteq Nat /\ InvokesOf(v) \subseteq Nat /\ own[i] \in Nat /\ i < own[i]
    BY OverIs
  <1> HIDE DEF v
  <1>3. i \in Innermost(v)
    <2>1. \A k \in InvokesOf(v) : k <= i
      BY <1>1, <1>2 DEF Encloses
    <2> QED
      BY <1>1, <2>1 DEF Innermost
  <1>4. Straight(v)
    <2> SUFFICES ASSUME NEW k \in InvokesOf(v), NEW j \in ReturnsOf(v) PROVE k < j
      BY DEF Straight
    <2>1. k <= i
      BY <1>3 DEF Innermost
    <2>2. PICK l \in InvokesOf(v) : own[l] = j
      BY <1>2
    <2>3. own[i] <= j
      <3>1. CASE l = i
        BY <1>2, <2>2, <3>1
      <3>2. CASE l # i
        BY <1>1, <1>2, <2>2, <3>2 DEF Encloses
      <3> QED
        BY <3>1, <3>2
    <2>4. i \in Nat /\ k \in Nat /\ j \in Nat
      BY <1>1, <1>2
    <2> QED
      BY <1>2, <2>1, <2>3, <2>4
  <1>5. Chain(v)
    BY <1>1, <1>4, ChainIs DEF Over, TraceInv
  <1>6. Equal(v)
    <2>1. ASSUME NEW k \in InvokesOf(v), NEW id \in TokenSet PROVE In(k, id) = In(i, id)
      <3>1. In(k, id) <= In(First(i), id)
        <4>1. CASE k = First(i)
          BY <1>1, <4>1
        <4>2. CASE k # First(i)
          <5>1. First(i) < k
            BY <1>1, <1>2, <4>2
          <5> QED
            BY <1>1, <1>5, <5>1 DEF Chain
        <4> QED
          BY <4>1, <4>2
      <3>2. In(i, id) <= In(k, id)
        <4>1. CASE k = i
          BY <1>1, <4>1
        <4>2. CASE k # i
          <5>1. k < i
            BY <1>1, <4>2 DEF Encloses
          <5> QED
            BY <1>1, <1>5, <5>1 DEF Chain
        <4> QED
          BY <4>1, <4>2
      <3>3. In(k, id) \in Nat /\ In(i, id) \in Nat /\ In(First(i), id) = In(i, id)
        BY <1>1
      <3> QED
        BY <3>1, <3>2, <3>3
    <2> QED
      BY <2>1 DEF Equal
  <1>7. Returned(v, i) /\ PassedOn(v, i)
    BY <1>2, <1>3, <1>5, <1>6 DEF Chain
  <1>8. \A j \in ReturnsOf(v) :
           \/ \A id \in TokenSet : Out(j, id) = 0
           \/ \A id \in TokenSet : Out(j, id) = In(i, id)
           \/ Alike(j, own[i])
    BY <1>7, TokensAre DEF Returned, Alike
  <1>9. NoneFailed(v) => \A j \in ReturnsOf(v) : Alike(j, own[i])
    BY <1>7, TokensAre DEF PassedOn, Alike
  <1> QED
    BY <1>2, <1>8, <1>9 DEF NoneFailed

LEMMA InspectDoesAgree == TraceInv => InspectAgrees
  <1> SUFFICES ASSUME TraceInv, rows # << >>, known,
                      NEW i \in Attempts("swap") \cup Attempts("create"), Ok(i),
                      \A k \in Others(i) : Encloses(k, i),
                      \A id \in TokenSet : In(First(i), id) = In(i, id)
               PROVE  IF trace[i].op = "create" THEN InspectedCreations(i) = {rows.create[i]}
                      ELSE rows.form = "hi_lo" \/ (\A k \in Others(i) : Ok(k))
                           => InspectedRows(i) = {rows.swap[i]}
    BY Zenon DEF InspectAgrees, Indexed, HandedOn, TokenSet
  <1> DEFINE j == own[i]
  <1>1. Over
    BY DEF TraceInv, RowsInv, Over
  <1>2. rows.swap = SwapRows /\ rows.create = CreationRows /\ rows.form \in Forms
    BY DEF TraceInv, RowsInv, Tables
  <1>3. i \in Invokes /\ i \in DOMAIN trace /\ trace[i].op \in {"swap", "create"} /\ trace[i].op \in Leaves
    BY OpsAre DEF Attempts, Is, Invokes, Leaves
  <1>4. \A k \in SortedCandidates(i) :
              \/ \A id \in TokenSet : Out(k, id) = 0
              \/ \A id \in TokenSet : Out(k, id) = In(i, id)
              \/ Alike(k, j)
    BY <1>1, <1>3, ChainedReturns
  <1>a. (\A k \in SortedCandidates(i) : trace[k].ok)
            => \A k \in SortedCandidates(i) : Alike(k, j)
    BY <1>1, <1>3, ChainedReturns
  <1>5. {"t0", "t1", "lp"} \subseteq TokenSet
    BY TokensAre
  <1> HIDE DEF j
  <1>6. CASE trace[i].op = "create"
    <2>0. i \in Attempts("create")
      BY <1>3, <1>6 DEF Attempts, Is, Invokes
    <2>1. /\ In(i, "lp") = 0 /\ Minted(i) = {k \in SortedCandidates(i) : Out(k, "lp") > 0}
          /\ LpReturns(i) = Minted(i) /\ j \in Minted(i)
      BY <1>1, <1>3, <1>6, AddsLiquidity DEF j
    <2>2. \A k \in Minted(i) : Alike(k, j)
      BY <1>4, <1>5, <2>1
    <2>3. /\ Len(CreationTokens(i)) = 2
          /\ 0 \notin ToSet(CreationNets(i, j))
          /\ CreationRows[i] = Created(CreationNets(i, j), CreationTokens(i))
      <3>1. \A k \in Minted(i) : BestMinted(i, k) => Alike(k, own[i])
        BY <2>2 DEF j
      <3> QED
        BY <1>1, <2>0, <3>1, CreationIs DEF j
    <2>4. \A k \in Minted(i) : CreationNets(i, k) = CreationNets(i, j)
      BY <1>1, <1>3, <1>6, <2>2, NetsAlike
    <2>5. SomeOf(LpReturns(i)) = Minted(i) /\ 0 \notin Minted(i)
      <3>1. Minted(i) # {} /\ LpReturns(i) = Minted(i)
        BY <2>1
      <3>2. 0 \notin Minted(i)
        BY <1>1, <1>3, <2>1, CandidatesAre
      <3> QED
        BY <3>1, <3>2 DEF SomeOf
    <2>6. InspectedCreations(i) =
            {IF k = 0 \/ 0 \in ToSet(CreationNets(i, k)) THEN Nothing
             ELSE Created(CreationNets(i, k), CreationTokens(i)) : k \in SomeOf(LpReturns(i))}
      <3>1. ~(Len(CreationTokens(i)) < 2)
        BY <2>3
      <3> QED
        BY <3>1, Zenon DEF InspectedCreations, CreationNets
    <2>7. \A k \in Minted(i) :
            (IF k = 0 \/ 0 \in ToSet(CreationNets(i, k)) THEN Nothing
             ELSE Created(CreationNets(i, k), CreationTokens(i))) = rows.create[i]
      BY <1>2, <2>3, <2>4, <2>5, Zenon
    <2>8. InspectedCreations(i) = {rows.create[i]}
      BY <2>1, <2>5, <2>6, <2>7
    <2> QED
      BY <1>6, <2>8
  <1>7. CASE trace[i].op = "swap"
    <2> DEFINE x == IF In(i, "t0") > 0 THEN "t1" ELSE "t0"
               fit == Strict_Sorted(i, x)
    <2>0. i \in Attempts("swap")
      BY <1>3, <1>7 DEF Attempts, Is, Invokes
    <2>1. /\ SwapMade(i, j) = SwapOf(i) /\ SwapRow(i) = AsStored(SwapOf(i)) /\ is_delegate_invoke(i)
          /\ In(i, "t0") > 0 \/ In(i, "t1") > 0
          /\ j \in fit
          /\ In(i, "t0") = 0 \/ In(i, "t1") = 0
      BY <1>1, <2>0, SwapIs DEF j
    <2>2. rows.swap[i] = AsStored(SwapOf(i))
      BY <1>2, <1>3, <2>1 DEF SwapRows
    <2>3. x \in TokenSet /\ In(i, x) = 0
      <3>1. In(i, "t0") \in Nat
        BY <1>1, <1>3, LeafIs
      <3> QED
        BY <1>5, <2>1, <3>1
    <2>4. ASSUME NEW k \in fit PROVE k # 0 /\ Alike(k, j)
      <3>1. k \in SortedCandidates(i) /\ \E a \in ToSet(trace[k].out) : a.id = x
        BY DEF Strict_Sorted
      <3>2. k \in Returns /\ k # 0 /\ Out(k, x) = Total(trace[k].out, x)
        <4>1. k \in Returns /\ k # 0
          BY <1>1, <1>3, <3>1, CandidatesAre
        <4> QED
          BY <4>1 DEF Out
      <3>3. Filled(trace[k].out)
        <4>1. trace[k] \in ReturnEvents
          BY <3>2, EventsAre DEF TraceInv
        <4>2. \A a \in ToSet(trace[k].out) : a.value > 0
          BY <3>2 DEF TraceInv, EventInv
        <4> QED
          BY <4>1, <4>2 DEF Filled, ReturnEvents
      <3>4. Out(k, x) > 0
        <4>1. PICK a \in ToSet(trace[k].out) : a.id = x
          BY <3>1
        <4>2. Total(trace[k].out, a.id) > 0
          BY <3>3, TotalCounts
        <4> QED
          BY <3>2, <4>1, <4>2
      <3> HIDE DEF x
      <3> QED
        BY <1>4, <2>3, <3>1, <3>2, <3>4
    <2> SUFFICES ASSUME rows.form = "hi_lo" \/ (\A k \in Others(i) : Ok(k))
                 PROVE  InspectedRows(i) = {rows.swap[i]}
      BY <1>7
    <2> DEFINE taken == IF rows.form = "hi_lo" THEN fit ELSE SortedCandidates(i)
    <2>5. \A k \in taken : k # 0 /\ Alike(k, j)
      <3>1. CASE rows.form = "hi_lo"
        BY <2>4, <3>1
      <3>2. CASE rows.form # "hi_lo"
        <4>1. \A k \in SortedCandidates(i) : trace[k].ok
          <5> TAKE k \in SortedCandidates(i)
          <5>1. SortedCandidates(i) = ReturnsOf(trace[i].vout)
            BY <1>1, <1>3, OverIs
          <5>2. PICK l \in InvokesOf(trace[i].vout) : own[l] = k
            BY <1>1, <5>1, OverIs
          <5>3. l = i \/ l \in Others(i)
            BY <1>1, <1>3, FirstIs
          <5>4. Ok(l)
            BY <3>2, <5>3
          <5> QED
            BY <5>2, <5>4 DEF Ok
        <4>2. \A k \in SortedCandidates(i) : k # 0
          BY <1>1, <1>3, OverIs
        <4> QED
          BY <1>a, <3>2, <4>1, <4>2
      <3> QED
        BY <3>1, <3>2
    <2>6. \A k \in taken : SwapMade(i, k) = SwapOf(i)
      <3> TAKE k \in taken
      <3>1. k # 0 /\ j # 0 /\ Out(k, "t0") = Out(j, "t0") /\ Out(k, "t1") = Out(j, "t1")
        BY <1>5, <2>1, <2>4, <2>5 DEF Alike
      <3>2. SwapMade(i, k) = SwapMade(i, j)
        BY <3>1, Zenon DEF SwapMade
      <3> QED
        BY <2>1, <3>2
    <2>7. SwapOf(i).ok
      BY DEF SwapOf
    <2>8. j \in taken
      <3>1. fit \subseteq SortedCandidates(i)
        BY DEF Strict_Sorted
      <3> QED
        BY <2>1, <3>1
    <2>9. InspectedSwaps(i, rows.form) =
            {IF SwapMade(i, k).ok THEN SwapMade(i, k) ELSE Nothing : k \in SomeOf(taken)}
      <3>1. (IF InspectStrict(i, x, rows.form) # {} THEN InspectStrict(i, x, rows.form)
             ELSE SortedCandidates(i)) = taken
        BY <2>1 DEF InspectStrict
      <3> HIDE DEF taken, fit
      <3> QED
        BY <3>1, Zenon DEF InspectedSwaps
    <2>10. SomeOf(taken) = taken
      BY <2>8 DEF SomeOf
    <2> HIDE DEF taken, fit, x
    <2>11. \A k \in taken : (IF SwapMade(i, k).ok THEN SwapMade(i, k) ELSE Nothing) = SwapOf(i)
      BY <2>6, <2>7, Zenon
    <2>12. InspectedSwaps(i, rows.form) = {SwapOf(i)}
      BY <2>8, <2>9, <2>10, <2>11
    <2> QED
      BY <2>2, <2>7, <2>12 DEF InspectedRows
  <1> QED
    BY <1>3, <1>6, <1>7


\* The returns of a protostone with one call of the pool that starts without a token
LEMMA SoleReturns ==
    ASSUME Over, NEW i \in Invokes, trace[i].op \in PoolOps, SolePoolCall(i),
           NEW id \in TokenSet \ {"fr"}, In(First(i), id) = 0
    PROVE  /\ \A k \in SortedCandidates(i) : Out(k, id) = 0 \/ Out(k, id) = Out(own[i], id)
           /\ i \in PoolCallsOf(trace[i].vout) \cap DOMAIN own
           /\ trace[i].vout \in done /\ Sole(trace[i].vout) /\ Bare(trace[i].vout, id)
  <1> DEFINE v == trace[i].vout
  <1>1. /\ InvokesOf(v) = Others(i) \cup {i} /\ v \in done
        /\ First(i) \in InvokesOf(v) /\ \A k \in InvokesOf(v) : First(i) <= k
    BY FirstIs
  <1>2. /\ i \in DOMAIN own /\ SortedCandidates(i) = ReturnsOf(v) /\ InvokesOf(v) \subseteq Nat
    BY OverIs
  <1> HIDE DEF v
  <1>3. PoolCallsOf(v) = {i}
    BY <1>1 DEF PoolCallsOf, SolePoolCall
  <1>4. Sole(v)
    BY <1>3 DEF Sole
  <1>5. Bare(v, id)
    <2> SUFFICES ASSUME NEW k \in InvokesOf(v), \A l \in InvokesOf(v) : k <= l PROVE In(k, id) = 0
      BY DEF Bare
    <2>1. k <= First(i) /\ First(i) <= k /\ k \in Nat /\ First(i) \in Nat
      BY <1>1, <1>2
    <2>2. k = First(i)
      BY <2>1
    <2> QED
      BY <2>2
  <1>6. Gift(v, id)
    BY <1>1, <1>4, <1>5, GiftIs DEF Over, TraceInv
  <1>7. Gifts(v, id) = {0, Out(own[i], id)}
    BY <1>2, <1>3 DEF Gifts
  <1> QED
    BY <1>1, <1>2, <1>3, <1>4, <1>5, <1>6, <1>7 DEF Gift, v

LEMMA KeptChange ==
    ASSUME Over, NEW i \in Invokes, trace[i].op \in {"create", "mint"}, Ok(i), SolePoolCall(i),
           In(First(i), "lp") = 0
    PROVE  \A k \in Minted(i) : /\ Out(k, "lp") = Out(own[i], "lp")
                                /\ Out(k, "t0") >= Out(own[i], "t0")
  <1> DEFINE v == trace[i].vout
  <1>1. trace[i].op \in PoolOps /\ "lp" \in TokenSet \ {"fr"}
    BY OpsAre, TokensAre
  <1>2. /\ \A k \in SortedCandidates(i) : Out(k, "lp") = 0 \/ Out(k, "lp") = Out(own[i], "lp")
        /\ i \in PoolCallsOf(v) \cap DOMAIN own
        /\ v \in done /\ Sole(v) /\ Bare(v, "lp")
    BY <1>1, SoleReturns
  <1> HIDE DEF v
  <1>3. Change(v, i)
    BY <1>2, ChangeIs DEF Over, TraceInv
  <1>4. Minted(i) = {k \in SortedCandidates(i) : Out(k, "lp") > 0} /\ SortedCandidates(i) = ReturnsOf(trace[i].vout)
    BY AddsLiquidity, OverIs
  <1>5. \A k \in Minted(i) : Out(k, "lp") # 0 /\ k \in ReturnsOf(v) /\ k \in SortedCandidates(i)
    BY <1>4 DEF v
  <1> QED
    BY <1>2, <1>3, <1>5 DEF Change

\* Of the returns that give the LP token none leaves less of t0 and t1 than the call's own.
LEMMA BestIsOwn ==
    ASSUME Over, NEW i \in Invokes, trace[i].op \in {"create", "mint"}, Ok(i), SolePoolCall(i),
           In(First(i), "lp") = 0,
           NEW js \in SUBSET Minted(i), own[i] \in js, NEW k \in js,
           NEW x, NEW y, <<x, y>> \in {<<"t0", "t1">>, <<"t1", "t0">>},
           BestOf(js, [n \in js |-> Out(n, x)], [n \in js |-> Out(n, y)], k)
    PROVE  Alike(k, own[i])
  <1> DEFINE j == own[i]
             first == [n \in js |-> Out(n, x)]
             second == [n \in js |-> Out(n, y)]
  <1>1. Out(k, "lp") = Out(j, "lp") /\ Out(k, "t0") >= Out(j, "t0") /\ Out(j, "t1") = 0
    BY KeptChange, AddsLiquidity
  <1>2. \A id : Out(k, id) \in Nat /\ Out(j, id) \in Nat
    BY CandidatesAre, AddsLiquidity
  <1>3. Out(k, x) <= Out(j, x) /\ (Out(k, x) = Out(j, x) => Out(k, y) <= Out(j, y))
    <2>1. CASE k = j
      BY <1>2, <2>1
    <2>2. CASE k # j
      <3>1. /\ first[k] = Out(k, x) /\ second[k] = Out(k, y)
            /\ first[j] = Out(j, x) /\ second[j] = Out(j, y)
        OBVIOUS
      <3>2. \/ first[k] < first[j]
            \/ first[k] = first[j] /\ second[k] < second[j]
            \/ first[k] = first[j] /\ second[k] = second[j] /\ j < k
        <4> HIDE DEF first, second
        <4>1. BestOf(js, first, second, k)
          BY DEF first, second
        <4> QED
          BY <2>2, <4>1 DEF BestOf
      <3> HIDE DEF first, second, j
      <3> QED
        BY <1>2, <3>1, <3>2
    <2> QED
      BY <2>1, <2>2
  <1> HIDE DEF j, first, second
  <1>4. CASE x = "t0" /\ y = "t1"
    <2>1. Out(k, "t0") = Out(j, "t0")
      BY <1>1, <1>2, <1>3, <1>4
    <2>2. Out(k, "t1") = Out(j, "t1")
      BY <1>1, <1>2, <1>3, <1>4, <2>1
    <2> QED
      BY <1>1, <2>1, <2>2 DEF Alike, j
  <1>5. CASE x = "t1" /\ y = "t0"
    <2>1. Out(k, "t1") = Out(j, "t1")
      BY <1>1, <1>2, <1>3, <1>5
    <2>2. Out(k, "t0") = Out(j, "t0")
      BY <1>1, <1>2, <1>3, <1>5, <2>1
    <2> QED
      BY <1>1, <2>1, <2>2 DEF Alike, j
  <1> QED
    BY <1>4, <1>5

LEMMA CreateIsExact ==
    ASSUME Over, NEW i \in Attempts("create"), Ok(i), SolePoolCall(i), In(First(i), "lp") = 0
    PROVE  /\ i \in DOMAIN CreationRows
           /\ CreationRows[i].ok /\ CreationRows[i].amounts = CreationNets(i, own[i])
  <1>1. i \in Invokes /\ trace[i].op = "create" /\ trace[i].op \in {"create", "mint"}
    BY DEF Attempts, Is, Invokes
  <1>2. /\ CreationTokens(i) = <<"t0", "t1">> \/ CreationTokens(i) = <<"t1", "t0">>
        /\ own[i] \in Minted(i)
    BY <1>1, IdsAre, AddsLiquidity
  <1>3. ASSUME NEW k \in Minted(i), BestMinted(i, k) PROVE Alike(k, own[i])
    <2>1. PICK x, y : CreationTokens(i) = <<x, y>> /\ <<x, y>> \in {<<"t0", "t1">>, <<"t1", "t0">>}
      BY <1>2
    <2>2. CreationTokens(i)[1] = x /\ CreationTokens(i)[2] = y
      BY <2>1
    <2>3. BestOf(Minted(i), [n \in Minted(i) |-> Out(n, x)], [n \in Minted(i) |-> Out(n, y)], k)
      BY <1>3, <2>2 DEF BestMinted
    <2>4. Minted(i) \in SUBSET Minted(i) /\ <<x, y>> \in {<<"t0", "t1">>, <<"t1", "t0">>}
      BY <2>1
    <2> QED
      BY <1>1, <1>2, <1>3, <2>3, <2>4, BestIsOwn, SMTT(30)
  <1>4. /\ i \in DOMAIN CreationRows
        /\ CreationRows[i] = Created(CreationNets(i, own[i]), CreationTokens(i))
    BY <1>3, CreationIs
  <1> QED
    BY <1>4 DEF Created

MintNets(i, j) == <<Net(i, j, "t0"), Net(i, j, "t1"), NetOut(i, j, "lp")>>

LEMMA MintIsExact ==
    ASSUME Over, known, NEW i \in Attempts("mint"), Ok(i), SolePoolCall(i), In(First(i), "lp") = 0
    PROVE  /\ i \in DOMAIN MintRows
           /\ MintRows[i].ok /\ MintRows[i].amounts = MintNets(i, own[i])
  <1> DEFINE j == own[i]
             js == {k \in Minted(i) : Net(i, k, "t0") > 0 /\ Net(i, k, "t1") > 0}
             first == [k \in js |-> Out(k, "t0")]
             second == [k \in js |-> Out(k, "t1")]
             b == Best(js, first, second)
  <1>1. i \in Invokes /\ i \in DOMAIN trace /\ trace[i].op = "mint" /\ trace[i].op \in {"create", "mint"}
    BY DEF Attempts, Is, Invokes
  <1>2. j \in js /\ js \subseteq Minted(i) /\ Minted(i) \subseteq SortedCandidates(i)
    BY <1>1, AddsLiquidity
  <1>3. js \subseteq 1..Len(trace) /\ Len(trace) \in Nat /\ first \in [js -> Nat] /\ second \in [js -> Nat]
    <2>1. \A k \in js : \A id : Out(k, id) \in Nat
      BY <1>1, <1>2, CandidatesAre
    <2>2. js \subseteq 1..Len(trace) /\ Len(trace) \in Nat
      BY <1>1, <1>2, CandidatesAre
    <2> QED
      BY <2>1, <2>2
  <1> HIDE DEF js, j
  <1>4. b \in js /\ BestOf(js, first, second, b)
    <2> HIDE DEF first, second
    <2> QED
      BY <1>2, <1>3, BestIs
  <1>5. Alike(b, j)
    <2> HIDE DEF b
    <2>1. <<"t0", "t1">> \in {<<"t0", "t1">>, <<"t1", "t0">>} /\ js \in SUBSET Minted(i) /\ own[i] \in js
      BY <1>2 DEF j
    <2> QED
      BY <1>1, <1>4, <2>1, BestIsOwn DEF j
  <1>6. MintRow(i) = Made(MintNets(i, b))
    <2>1. js # {}
      BY <1>2
    <2> QED
      BY <2>1, Zenon DEF MintRow, MintNets, js, b, first, second
  <1> HIDE DEF b, first, second
  <1>7. MintNets(i, b) = MintNets(i, j)
    BY <1>5 DEF Alike, MintNets, Net, NetOut
  <1>8. is_delegate_invoke_mint(i)
    <2>1. trace[i].delegate = (trace[i].op \in PoolOps)
      BY <1>1 DEF Over, TraceInv, EventInv, Asks
    <2>2. trace[i].delegate
      BY <1>1, <2>1, Zenon DEF PoolOps
    <2> QED
      BY <1>1, <2>2, Zenon DEF is_delegate_invoke_mint, Is, Invokes
  <1>9. i \in DOMAIN MintRows /\ MintRows[i] = MintRow(i)
    BY <1>1, <1>8 DEF MintRows
  <1> QED
    BY <1>6, <1>7, <1>9 DEF Made, j

BurnNets(i, j) == <<NetOut(i, j, "t0"), NetOut(i, j, "t1"), Net(i, j, "lp")>>

\* Every return that gives back both tokens gives what the burn gave, and of these the
\* indexer takes one that leaves no LP token, as the burn's own does.
LEMMA BurnIsExact ==
    ASSUME Over, known, NEW i \in Attempts("burn"), Ok(i), SolePoolCall(i),
           In(First(i), "t0") = 0, In(First(i), "t1") = 0
    PROVE  /\ i \in DOMAIN BurnRows
           /\ BurnRows[i].ok /\ BurnRows[i].amounts = BurnNets(i, own[i])
  <1> DEFINE j == own[i]
             js == {k \in SortedCandidates(i) :
                      /\ NetOut(i, k, "t0") > 0 /\ NetOut(i, k, "t1") > 0
                      /\ In(i, "lp") > 0 => Out(k, "lp") < In(i, "lp")}
             first == [k \in js |-> Out(k, "lp")]
             second == [k \in js |-> 0]
             b == Best(js, first, second)
  <1>1. /\ i \in Invokes /\ i \in DOMAIN trace /\ trace[i].op = "burn"
        /\ trace[i].op \in PoolOps /\ trace[i].op \in Leaves
    BY OpsAre DEF Attempts, Is, Invokes, Leaves
  <1>2. /\ j \in SortedCandidates(i) /\ (trace[j].ok => Gave(trace[i], trace[j].out)) /\ trace[j].ok
        /\ Asks(trace[i])
        /\ \A id : /\ Out(j, id) = Total(trace[j].out, id) /\ Out(j, id) \in Nat
                   /\ In(i, id) = Total(trace[i].in, id) /\ In(i, id) \in Nat
    BY <1>1, LeafIs DEF Ok
  <1>3. /\ In(i, "lp") > 0 /\ In(i, "t0") = 0 /\ In(i, "t1") = 0
        /\ Out(j, "t0") > 0 /\ Out(j, "t1") > 0 /\ Out(j, "lp") = 0
    <2> HIDE DEF j
    <2> QED
      BY <1>1, <1>2 DEF Asks, Gave
  <1>4. \A k \in SortedCandidates(i) :
          /\ Out(k, "t0") = 0 \/ Out(k, "t0") = Out(j, "t0")
          /\ Out(k, "t1") = 0 \/ Out(k, "t1") = Out(j, "t1")
    <2>1. "t0" \in TokenSet \ {"fr"} /\ "t1" \in TokenSet \ {"fr"}
      BY TokensAre
    <2> QED
      BY <1>1, <2>1, SoleReturns
  <1>5. /\ Len(trace) \in Nat /\ SortedCandidates(i) \subseteq 1..Len(trace)
        /\ \A k \in SortedCandidates(i) : \A id : Out(k, id) \in Nat
    BY <1>1, CandidatesAre
  <1> HIDE DEF j
  <1>6. j \in js
    <2>1. NetOut(i, j, "t0") > 0 /\ NetOut(i, j, "t1") > 0
      BY <1>2, <1>3, NetIs
    <2> QED
      BY <1>2, <1>3, <2>1
  <1>7. \A k \in js : /\ k \in SortedCandidates(i)
                      /\ Out(k, "t0") = Out(j, "t0") /\ Out(k, "t1") = Out(j, "t1")
    <2> TAKE k \in js
    <2>1. /\ k \in SortedCandidates(i) /\ NetOut(i, k, "t0") > 0 /\ NetOut(i, k, "t1") > 0
      OBVIOUS
    <2>2. Out(k, "t0") > 0 /\ Out(k, "t1") > 0
      BY <1>2, <1>3, <1>5, <2>1, NetIs
    <2> QED
      BY <1>4, <2>1, <2>2
  <1>8. js \subseteq 1..Len(trace) /\ first \in [js -> Nat] /\ second \in [js -> Nat]
    BY <1>5
  <1> HIDE DEF js
  <1>9. b \in js /\ BestOf(js, first, second, b)
    <2> HIDE DEF first, second
    <2> QED
      BY <1>5, <1>6, <1>8, BestIs
  <1>10. Out(b, "lp") = 0
    <2> HIDE DEF b
    <2>1. CASE b = j
      BY <1>3, <2>1
    <2>2. CASE b # j
      <3>1. first[b] = Out(b, "lp") /\ first[j] = Out(j, "lp")
        BY <1>6, <1>9
      <3>2. first[b] < first[j] \/ first[b] = first[j]
        <4> HIDE DEF first, second
        <4> QED
          BY <1>6, <1>9, <2>2 DEF BestOf
      <3>3. Out(b, "lp") \in Nat
        BY <1>5, <1>7, <1>9
      <3> HIDE DEF first
      <3> QED
        BY <1>3, <3>1, <3>2, <3>3
    <2> QED
      BY <2>1, <2>2
  <1>11. BurnRow(i) = IF Net(i, b, "lp") = 0 THEN Failed ELSE Made(BurnNets(i, b))
    <2>1. js # {}
      BY <1>6
    <2> QED
      BY <2>1, Zenon DEF BurnRow, BurnNets, js, b, first, second
  <1> HIDE DEF b, first, second
  <1>12. BurnNets(i, b) = BurnNets(i, j)
    BY <1>3, <1>7, <1>9, <1>10 DEF BurnNets, Net, NetOut
  <1>13. Net(i, b, "lp") > 0
    BY <1>2, <1>3, <1>5, <1>7, <1>9, <1>10, NetIs
  <1>14. BurnRow(i) = Made(BurnNets(i, j))
    <2>1. Net(i, b, "lp") # 0
      BY <1>13
    <2> QED
      BY <1>11, <1>12, <2>1, Zenon
  <1>15. is_delegate_invoke_burn(i)
    <2>1. trace[i].delegate
      BY <1>1, <1>2, Zenon DEF Asks
    <2> QED
      BY <1>1, <2>1, Zenon DEF is_delegate_invoke_burn, Is, Invokes
  <1>16. i \in DOMAIN BurnRows /\ BurnRows[i] = BurnRow(i)
    BY <1>1, <1>15 DEF BurnRows
  <1> QED
    BY <1>14, <1>16 DEF Made, j

LEMMA LiquidityIsExact == TraceInv => LiquidityExact
  <1> DEFINE ids(i) == IF trace[i].op = "create" THEN CreationTokens(i) ELSE <<"t0", "t1">>
             nets(i) == IF trace[i].op = "burn" THEN BurnNets(i, own[i])
                        ELSE <<Net(i, own[i], ids(i)[1]), Net(i, own[i], ids(i)[2]),
                               NetOut(i, own[i], "lp")>>
  <1> SUFFICES ASSUME TraceInv, rows # << >>,
                      NEW i \in Attempts("create") \cup Attempts("mint") \cup Attempts("burn"),
                      Ok(i), SolePoolCall(i), trace[i].op = "create" \/ known,
                      \A id \in IF trace[i].op = "burn" THEN {"t0", "t1"} ELSE {"lp"} :
                          In(First(i), id) = 0
               PROVE  /\ i \in DOMAIN rows[trace[i].op]
                      /\ rows[trace[i].op][i].ok
                      /\ rows[trace[i].op][i].amounts = nets(i)
    BY Zenon DEF LiquidityExact, Indexed, BurnNets
  <1>1. Over
    BY DEF TraceInv, RowsInv, Over
  <1>2. rows["create"] = CreationRows /\ rows["mint"] = MintRows /\ rows["burn"] = BurnRows
    BY DEF TraceInv, RowsInv, Tables
  <1>3. CASE i \in Attempts("create")
    <2>1. trace[i].op = "create"
      BY <1>3 DEF Attempts, Is
    <2>2. In(First(i), "lp") = 0
      BY <2>1
    <2>3. nets(i) = CreationNets(i, own[i])
      BY <2>1, Zenon DEF CreationNets
    <2> QED
      BY <1>1, <1>2, <1>3, <2>1, <2>2, <2>3, CreateIsExact
  <1>4. CASE i \in Attempts("mint")
    <2>1. trace[i].op = "mint"
      BY <1>4 DEF Attempts, Is
    <2>2. In(First(i), "lp") = 0 /\ known
      BY <2>1
    <2>3. nets(i) = MintNets(i, own[i])
      BY <2>1 DEF MintNets
    <2> HIDE DEF nets
    <2> QED
      BY <1>1, <1>2, <1>4, <2>1, <2>2, <2>3, MintIsExact
  <1>5. CASE i \in Attempts("burn")
    <2>1. trace[i].op = "burn"
      BY <1>5 DEF Attempts, Is
    <2>2. In(First(i), "t0") = 0 /\ In(First(i), "t1") = 0 /\ known
      BY <2>1
    <2>3. nets(i) = BurnNets(i, own[i])
      BY <2>1, Zenon
    <2> HIDE DEF nets
    <2> QED
      BY <1>1, <1>2, <1>5, <2>1, <2>2, <2>3, BurnIsExact
  <1> QED
    BY <1>3, <1>4, <1>5

-----------------------------------------------------------------------------
(* What the runs check *)

\* A swap that succeeds is recorded once, with the doubles nearest to what it took and
\* gave, whatever other calls its protostone makes: find_matching_return_strict finds
\* the return of its own.
THEOREM SwapsHold == Spec => []SwapsExact
  BY TracesTold, SwapsAreExact, PTL

\* A creation, mint or burn that succeeds, the only call of the pool in its protostone,
\* is recorded with its net amounts, although the best of several returns is taken.
THEOREM LiquidityHolds == Spec => []LiquidityExact
  BY TracesTold, LiquidityIsExact, PTL

\* A wrap or an unwrap that succeeds inside calls that only contain it is recorded with
\* what it minted or burned, when the node writes ids as hex strings.
THEOREM SubfrostHolds == Spec => []SubfrostExact
  BY TracesTold, SubfrostIsExact, PTL

\* Whatever order the database lists the returns of a protostone in, inspect prints the
\* swap or the creation that the indexer stored, where calls hand on all they hold and,
\* for swaps whose ids are hex strings, none of them failed.
THEOREM InspectHolds == Spec => []InspectAgrees
  BY TracesTold, InspectDoesAgree, PTL

=============================================================================
