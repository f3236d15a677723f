------------------------ MODULE AlkanesExecuteProofs -------------------------
(***************************************************************************)
(* Proofs about deezel's transactions, for any coins, any requests and all *)
(* bounds.                                                                 *)
(***************************************************************************)
EXTENDS AlkanesExecute, FiniteSetTheorems, SequenceTheorems, WellFoundedInduction, TLAPS

-----------------------------------------------------------------------------
(* Least numbers and sets *)

\* A set of natural numbers that is not empty has a least one.
LEMMA LeastNumber ==
    ASSUME NEW T \in SUBSET Nat, T # {}
    PROVE  \E m \in T : \A n \in T : m <= n
  <1> DEFINE R == OpToRel(<, Nat)
  <1>1. \A x, y \in Nat : x < y => <<x, y>> \in R
    BY DEF OpToRel
  <1>2. IsWellFoundedOn(R, Nat)
    BY NatLessThanWellFounded
  <1> HIDE DEF R
  <1>3. PICK m \in T : \A n \in T : ~(<<n, m>> \in R)
    BY <1>2, WFMin
  <1>4. \A n \in T : ~(n < m)
    BY <1>1, <1>3
  <1> QED
    BY <1>4, \A n \in T : n \in Nat /\ m \in Nat, SMT

\* A set of subsets of a finite set that is not empty has one of which it has no
\* proper part.
LEMMA LeastSubset ==
    ASSUME NEW S, IsFiniteSet(S), NEW C \in SUBSET (SUBSET S), C # {}
    PROVE  \E s \in C : \A x \in s : s \ {x} \notin C
  <1> DEFINE sizes == {Cardinality(s) : s \in C}
  <1>1. \A s \in SUBSET S : IsFiniteSet(s) /\ Cardinality(s) \in Nat
    BY FS_Subset, FS_CardinalityType
  <1>2. sizes \in SUBSET Nat /\ sizes # {}
    BY <1>1
  <1>3. PICK m \in sizes : \A n \in sizes : m <= n
    BY <1>2, LeastNumber
  <1>4. PICK s \in C : Cardinality(s) = m
    OBVIOUS
  <1>5. ASSUME NEW x \in s, s \ {x} \in C PROVE FALSE
    <2>1. Cardinality(s \ {x}) = Cardinality(s) - 1
      BY <1>1, FS_RemoveElement
    <2>2. m <= Cardinality(s \ {x})
      BY <1>3, <1>5
    <2> QED
      BY <1>1, <1>4, <2>1, <2>2
  <1> QED
    BY <1>5

\* The values of a function on a finite set are finitely many.
LEMMA FiniteImage ==
    ASSUME NEW S, IsFiniteSet(S), NEW f
    PROVE  IsFiniteSet({f[x] : x \in S})
  <1> DEFINE T == {f[x] : x \in S}
             g == [x \in S |-> f[x]]
  <1>1. g \in Surjection(S, T)
    BY DEF Surjection
  <1> HIDE DEF g, T
  <1>2. IsFiniteSet(T)
    BY <1>1, FS_Surjection
  <1> QED
    BY <1>2 DEF T

-----------------------------------------------------------------------------
(* The recursion *)

Pick(s) == CHOOSE x \in s : TRUE

LEMMA PickIn == \A s : s # {} => Pick(s) \in s
  BY DEF Pick

\* One turn of the recursion, with what it calls for the rest
Turn(f, g, s) == IF s = {} THEN 0 ELSE f[Pick(s)] + g[s \ {Pick(s)}]
Sums(f, S, g) == g = [s \in SUBSET S |-> Turn(f, g, s)]

LEMMA SumIsRecursion ==
    ASSUME NEW f, NEW S
    PROVE  SumFunctionOnSet(f, S) = (CHOOSE g : Sums(f, S, g))[S]
  BY DEF SumFunctionOnSet, FoldFunctionOnSet, MapThenFoldSet, Sums, Turn, Pick

\* There is a function that the recursion defines.
LEMMA SumsExist ==
    ASSUME NEW f, NEW S, IsFiniteSet(S)
    PROVE  \E g : Sums(f, S, g)
  <1> DEFINE Level(n) == {s \in SUBSET S : Cardinality(s) <= n}
             Upto(n, g) == g = [s \in Level(n) |-> Turn(f, g, s)]
             bad == {n \in Nat : ~\E g : Upto(n, g)}
  <1>1. \A s \in SUBSET S : IsFiniteSet(s) /\ Cardinality(s) \in Nat
    BY FS_Subset, FS_CardinalityType
  <1>2. SUFFICES bad = {}
    <2>1. Cardinality(S) \in Nat
      BY FS_CardinalityType
    <2>2. PICK g : Upto(Cardinality(S), g)
      BY <1>2, <2>1
    <2>3. Level(Cardinality(S)) = SUBSET S
      BY FS_Subset
    <2> QED
      BY <2>2, <2>3 DEF Sums
  <1>3. SUFFICES ASSUME bad # {} PROVE FALSE
    OBVIOUS
  <1>4. PICK m \in bad : \A n \in bad : m <= n
    BY <1>3, LeastNumber
  <1>5. m # 0
    <2> DEFINE g == [s \in Level(0) |-> 0]
    <2>1. \A s \in Level(0) : s = {}
      BY <1>1, FS_EmptySet
    <2>2. \A s \in Level(0) : Turn(f, g, s) = 0
      BY <2>1 DEF Turn
    <2>3. g = [s \in Level(0) |-> Turn(f, g, s)]
      BY <2>2
    <2> HIDE DEF g
    <2> QED
      BY <2>3
  <1>6. m - 1 \in Nat /\ m - 1 \notin bad /\ m \in Nat
    <2>1. m \in Nat /\ m - 1 \in Nat /\ ~(m <= m - 1)
      BY <1>5
    <2> HIDE DEF bad
    <2> QED
      BY <1>4, <2>1
  <1>7. PICK g : Upto(m - 1, g)
    BY <1>6
  <1> DEFINE h == [s \in Level(m) |-> Turn(f, g, s)]
  <1>8. \A t \in Level(m - 1) : h[t] = g[t]
    <2> TAKE t \in Level(m - 1)
    <2>1. t \in Level(m)
      BY <1>1, <1>6
    <2>2. g[t] = Turn(f, g, t)
      <3> HIDE DEF Level
      <3> QED
        BY <1>7
    <2> HIDE DEF Level
    <2> QED
      BY <2>1, <2>2
  <1>9. \A s \in Level(m) : s # {} => s \ {Pick(s)} \in Level(m - 1)
    <2> TAKE s \in Level(m)
    <2> HAVE s # {}
    <2>1. Pick(s) \in s /\ IsFiniteSet(s) /\ Cardinality(s) \in Nat
      BY <1>1, PickIn
    <2>2. Cardinality(s \ {Pick(s)}) = Cardinality(s) - 1
      BY <2>1, FS_RemoveElement
    <2> QED
      BY <1>6, <2>1, <2>2
  <1>10. \A s \in Level(m) : Turn(f, g, s) = Turn(f, h, s)
    <2> HIDE DEF Level, h
    <2> QED
      BY <1>8, <1>9 DEF Turn
  <1>11. Upto(m, h)
    <2> HIDE DEF Level
    <2>1. [s \in Level(m) |-> Turn(f, g, s)] = [s \in Level(m) |-> Turn(f, h, s)]
      BY <1>10
    <2> QED
      BY <2>1, Zenon
  <1> HIDE DEF h, Level
  <1> QED
    BY <1>4, <1>11

\* What two of them have for a set depends on the values in that set only.
LEMMA SumsAgree ==
    ASSUME NEW f1, NEW f2, NEW S, NEW T, IsFiniteSet(T), T \subseteq S,
           \A x \in T : f1[x] = f2[x],
           NEW g1, NEW g2, Sums(f1, S, g1), Sums(f2, T, g2)
    PROVE  \A s \in SUBSET T : g1[s] = g2[s]
  <1> DEFINE bad == {s \in SUBSET T : g1[s] # g2[s]}
  <1>1. SUFFICES ASSUME bad # {} PROVE FALSE
    OBVIOUS
  <1>2. PICK s \in bad : \A x \in s : s \ {x} \notin bad
    BY <1>1, LeastSubset
  <1>3. g1[s] = Turn(f1, g1, s) /\ g2[s] = Turn(f2, g2, s)
    <2>1. s \in SUBSET S /\ s \in SUBSET T
      OBVIOUS
    <2> QED
      BY <2>1 DEF Sums
  <1>4. s # {} => Pick(s) \in s /\ g1[s \ {Pick(s)}] = g2[s \ {Pick(s)}]
    BY <1>2, PickIn
  <1>5. Turn(f1, g1, s) = Turn(f2, g2, s)
    BY <1>4 DEF Turn
  <1> QED
    BY <1>3, <1>5

-----------------------------------------------------------------------------
(* Sums *)

LEMMA SumEqual ==
    ASSUME NEW f1, NEW f2, NEW S, IsFiniteSet(S), \A x \in S : f1[x] = f2[x]
    PROVE  SumFunctionOnSet(f1, S) = SumFunctionOnSet(f2, S)
  <1> DEFINE g1 == CHOOSE g : Sums(f1, S, g)
             g2 == CHOOSE g : Sums(f2, S, g)
  <1>1. Sums(f1, S, g1) /\ Sums(f2, S, g2)
    BY SumsExist, Zenon
  <1>2. SumFunctionOnSet(f1, S) = g1[S] /\ SumFunctionOnSet(f2, S) = g2[S]
    BY SumIsRecursion
  <1> HIDE DEF g1, g2
  <1>3. g1[S] = g2[S]
    <2>1. S \subseteq S
      OBVIOUS
    <2>2. \A s \in SUBSET S : g1[s] = g2[s]
      BY <1>1, <2>1, SumsAgree
    <2> QED
      BY <2>2
  <1> QED
    BY <1>2, <1>3

\* What satisfies the recursion is the sum.
LEMMA SumUnique ==
    ASSUME NEW f, NEW S, IsFiniteSet(S), NEW g, Sums(f, S, g)
    PROVE  SumFunctionOnSet(f, S) = g[S]
  <1> DEFINE h == CHOOSE h : Sums(f, S, h)
  <1>1. Sums(f, S, h)
    BY SumsExist, Zenon
  <1>2. SumFunctionOnSet(f, S) = h[S]
    BY SumIsRecursion
  <1> HIDE DEF h
  <1>3. h[S] = g[S]
    <2> DEFINE bad == {s \in SUBSET S : h[s] # g[s]}
    <2>1. SUFFICES ASSUME bad # {} PROVE FALSE
      BY S \in SUBSET S
    <2>2. PICK s \in bad : \A x \in s : s \ {x} \notin bad
      BY <2>1, LeastSubset
    <2>3. h[s] = Turn(f, h, s) /\ g[s] = Turn(f, g, s)
      <3>1. s \in SUBSET S
        OBVIOUS
      <3> QED
        BY <1>1, <3>1 DEF Sums
    <2>4. s # {} => Pick(s) \in s /\ h[s \ {Pick(s)}] = g[s \ {Pick(s)}]
      BY <2>2, PickIn
    <2>5. Turn(f, h, s) = Turn(f, g, s)
      BY <2>4 DEF Turn
    <2> QED
      BY <2>3, <2>5
  <1> QED
    BY <1>2, <1>3

LEMMA SumTurn ==
    ASSUME NEW f, NEW S, IsFiniteSet(S)
    PROVE  /\ SumFunctionOnSet(f, {}) = 0
           /\ S # {} => /\ Pick(S) \in S
                        /\ SumFunctionOnSet(f, S) =
                              f[Pick(S)] + SumFunctionOnSet(f, S \ {Pick(S)})
  <1> DEFINE g(T) == CHOOSE g : Sums(f, T, g)
  <1>1. \A T : IsFiniteSet(T) => Sums(f, T, g(T))
    BY SumsExist, Zenon
  <1>2. \A T : SumFunctionOnSet(f, T) = g(T)[T]
    BY SumIsRecursion
  <1> HIDE DEF g
  <1>3. g({})[{}] = 0
    <2>1. Sums(f, {}, g({}))
      BY <1>1, FS_EmptySet
    <2> QED
      BY <2>1 DEF Sums, Turn
  <1>4. ASSUME S # {}
        PROVE  Pick(S) \in S /\ g(S)[S] = f[Pick(S)] + g(S \ {Pick(S)})[S \ {Pick(S)}]
    <2> DEFINE T == S \ {Pick(S)}
    <2>1. IsFiniteSet(T) /\ T \subseteq S
      BY FS_Subset
    <2>2. g(S)[T] = g(T)[T]
      <3>1. Sums(f, S, g(S)) /\ Sums(f, T, g(T))
        BY <1>1, <2>1
      <3> HIDE DEF T
      <3> QED
        BY <2>1, <3>1, SumsAgree, T \in SUBSET T
    <2>3. g(S)[S] = Turn(f, g(S), S)
      BY <1>1 DEF Sums
    <2> QED
      BY <1>4, <2>2, <2>3, PickIn DEF Turn
  <1> QED
    BY <1>2, <1>3, <1>4

LEMMA SumInt ==
    ASSUME NEW f, NEW S, IsFiniteSet(S), \A x \in S : f[x] \in Int
    PROVE  SumFunctionOnSet(f, S) \in Int
  <1> DEFINE bad == {s \in SUBSET S : SumFunctionOnSet(f, s) \notin Int}
  <1>1. SUFFICES ASSUME bad # {} PROVE FALSE
    OBVIOUS
  <1>2. PICK s \in bad : \A x \in s : s \ {x} \notin bad
    BY <1>1, LeastSubset
  <1>3. IsFiniteSet(s) /\ s \subseteq S
    BY FS_Subset
  <1>4. s # {}
    <2>1. SumFunctionOnSet(f, {}) = 0
      BY SumTurn
    <2> QED
      BY <2>1, 0 \in Int, Zenon
  <1>5. /\ Pick(s) \in s
        /\ SumFunctionOnSet(f, s) = f[Pick(s)] + SumFunctionOnSet(f, s \ {Pick(s)})
    BY <1>3, <1>4, SumTurn
  <1>6. SumFunctionOnSet(f, s \ {Pick(s)}) \in Int /\ f[Pick(s)] \in Int
    BY <1>2, <1>3, <1>5
  <1>7. SumFunctionOnSet(f, s) \in Int
    BY <1>5, <1>6
  <1> QED
    BY <1>2, <1>7

\* The elements may be taken in any order.
LEMMA SumRemove ==
    ASSUME NEW f, NEW S, IsFiniteSet(S), \A x \in S : f[x] \in Int, NEW y \in S
    PROVE  SumFunctionOnSet(f, S) = f[y] + SumFunctionOnSet(f, S \ {y})
  <1> DEFINE Sum(s) == SumFunctionOnSet(f, s)
             bad == {s \in SUBSET S : \E x \in s : Sum(s) # f[x] + Sum(s \ {x})}
  <1>1. SUFFICES ASSUME bad # {} PROVE FALSE
    OBVIOUS
  <1>2. PICK s \in bad : \A x \in s : s \ {x} \notin bad
    BY <1>1, LeastSubset
  <1>3. \A t \in SUBSET S : IsFiniteSet(t) /\ Sum(t) \in Int
    BY FS_Subset, SumInt
  <1>4. PICK x \in s : Sum(s) # f[x] + Sum(s \ {x})
    OBVIOUS
  <1>5. PICK p \in s : Sum(s) = f[p] + Sum(s \ {p})
    <2>1. Pick(s) \in s /\ Sum(s) = f[Pick(s)] + Sum(s \ {Pick(s)})
      BY <1>3, SumTurn
    <2> HIDE DEF Sum
    <2> QED
      BY <2>1
  <1>6. x # p
    BY <1>4, <1>5
  <1>7. s \ {p} \in SUBSET S /\ s \ {p} \notin bad /\ x \in s \ {p}
        /\ s \ {x} \in SUBSET S /\ s \ {x} \notin bad /\ p \in s \ {x}
    BY <1>2, <1>5, <1>6
  <1>8. (s \ {p}) \ {x} = (s \ {x}) \ {p} /\ (s \ {p}) \ {x} \in SUBSET S
    OBVIOUS
  <1>9. Sum(s \ {p}) = f[x] + Sum((s \ {p}) \ {x})
    BY <1>7
  <1>10. Sum(s \ {x}) = f[p] + Sum((s \ {x}) \ {p})
    BY <1>7
  <1>11. Sum((s \ {p}) \ {x}) \in Int /\ f[x] \in Int /\ f[p] \in Int
    BY <1>3, <1>5, <1>8
  <1> HIDE DEF Sum, bad
  <1>12. f[p] + (f[x] + Sum((s \ {p}) \ {x})) = f[x] + (f[p] + Sum((s \ {p}) \ {x}))
    BY <1>11
  <1> QED
    BY <1>4, <1>5, <1>8, <1>9, <1>10, <1>12

LEMMA SumNat ==
    ASSUME NEW f, NEW S, IsFiniteSet(S), \A x \in S : f[x] \in Nat
    PROVE  SumFunctionOnSet(f, S) \in Nat
  <1> DEFINE bad == {s \in SUBSET S : SumFunctionOnSet(f, s) \notin Nat}
  <1>1. SUFFICES ASSUME bad # {} PROVE FALSE
    OBVIOUS
  <1>2. PICK s \in bad : \A x \in s : s \ {x} \notin bad
    BY <1>1, LeastSubset
  <1>3. IsFiniteSet(s) /\ s \subseteq S
    BY FS_Subset
  <1>4. s # {}
    <2>1. SumFunctionOnSet(f, {}) = 0
      BY SumTurn
    <2> QED
      BY <2>1, 0 \in Nat, Zenon
  <1>5. /\ Pick(s) \in s
        /\ SumFunctionOnSet(f, s) = f[Pick(s)] + SumFunctionOnSet(f, s \ {Pick(s)})
    BY <1>3, <1>4, SumTurn
  <1>6. SumFunctionOnSet(f, s \ {Pick(s)}) \in Nat /\ f[Pick(s)] \in Nat
    BY <1>2, <1>3, <1>5
  <1>7. SumFunctionOnSet(f, s) \in Nat
    BY <1>5, <1>6
  <1> QED
    BY <1>2, <1>7

\* A value is added, or replaced.
LEMMA SumUpdate ==
    ASSUME NEW f1, NEW f2, NEW S, IsFiniteSet(S), NEW y \in S,
           \A x \in S : f1[x] \in Int /\ f2[x] \in Int,
           \A x \in S \ {y} : f1[x] = f2[x]
    PROVE  SumFunctionOnSet(f2, S) = SumFunctionOnSet(f1, S) - f1[y] + f2[y]
  <1>1. IsFiniteSet(S \ {y})
    BY FS_Subset
  <1>2. SumFunctionOnSet(f1, S \ {y}) = SumFunctionOnSet(f2, S \ {y})
    BY <1>1, SumEqual
  <1>3. SumFunctionOnSet(f1, S) = f1[y] + SumFunctionOnSet(f1, S \ {y})
    BY SumRemove
  <1>4. SumFunctionOnSet(f2, S) = f2[y] + SumFunctionOnSet(f2, S \ {y})
    BY SumRemove
  <1>5. SumFunctionOnSet(f1, S \ {y}) \in Int
    BY <1>1, SumInt
  <1>6. f1[y] \in Int /\ f2[y] \in Int
    OBVIOUS
  <1> QED
    BY <1>2, <1>3, <1>4, <1>5, <1>6

LEMMA SumConstant ==
    ASSUME NEW f, NEW S, IsFiniteSet(S), NEW c \in Int, \A x \in S : f[x] = c
    PROVE  SumFunctionOnSet(f, S) = Cardinality(S) * c
  <1> DEFINE bad == {s \in SUBSET S : SumFunctionOnSet(f, s) # Cardinality(s) * c}
  <1>1. SUFFICES ASSUME bad # {} PROVE FALSE
    OBVIOUS
  <1>2. PICK s \in bad : \A x \in s : s \ {x} \notin bad
    BY <1>1, LeastSubset
  <1>3. IsFiniteSet(s) /\ s \subseteq S /\ Cardinality(s) \in Nat
    BY FS_Subset, FS_CardinalityType
  <1>4. PICK x \in s : TRUE
    <2>1. SumFunctionOnSet(f, {}) = 0 /\ Cardinality({}) = 0
      BY SumTurn, FS_EmptySet
    <2>2. s # {}
      BY <2>1
    <2> QED
      BY <2>2
  <1>5. SumFunctionOnSet(f, s) = f[x] + SumFunctionOnSet(f, s \ {x})
    BY <1>3, SumRemove
  <1>6. SumFunctionOnSet(f, s \ {x}) = Cardinality(s \ {x}) * c
    BY <1>2
  <1>7. Cardinality(s \ {x}) = Cardinality(s) - 1
    BY <1>3, FS_RemoveElement
  <1>8. SumFunctionOnSet(f, s) = c + (Cardinality(s) - 1) * c
    BY <1>5, <1>6, <1>7
  <1>9. c + (Cardinality(s) - 1) * c = Cardinality(s) * c
    BY <1>3
  <1> QED
    BY <1>2, <1>8, <1>9

-----------------------------------------------------------------------------
(* The two sums *)

Amounts(coins) == [coin \in coins |-> Value(coin)]
Prices(outputs) == [i \in DOMAIN outputs |-> outputs[i].value]

InputTurns(coins, g) ==
    g = [s \in SUBSET coins |-> IF s = {} THEN 0 ELSE Value(Pick(s)) + g[s \ {Pick(s)}]]
OutputTurns(outputs, g) ==
    g = [s \in SUBSET DOMAIN outputs |->
            IF s = {} THEN 0 ELSE outputs[Pick(s)].value + g[s \ {Pick(s)}]]

LEMMA InputSum ==
    ASSUME NEW coins, IsFiniteSet(coins)
    PROVE  InputValue(coins) = SumFunctionOnSet(Amounts(coins), coins)
  <1>1. InputValue(coins) = (CHOOSE g : InputTurns(coins, g))[coins]
    BY DEF InputValue, MapThenSumSet, MapThenFoldSet, InputTurns, Pick
  <1>2. \A h : InputTurns(coins, h) <=> Sums(Amounts(coins), coins, h)
    <2> TAKE h
    <2>1. \A s \in SUBSET coins :
              (IF s = {} THEN 0 ELSE Value(Pick(s)) + h[s \ {Pick(s)}]) = Turn(Amounts(coins), h, s)
      BY PickIn DEF Turn, Amounts
    <2>2. [s \in SUBSET coins |-> IF s = {} THEN 0 ELSE Value(Pick(s)) + h[s \ {Pick(s)}]]
          = [s \in SUBSET coins |-> Turn(Amounts(coins), h, s)]
      BY <2>1
    <2> QED
      BY <2>2, Zenon DEF InputTurns, Sums
  <1> DEFINE g == CHOOSE h : InputTurns(coins, h)
  <1>3. \E h : InputTurns(coins, h)
    BY <1>2, SumsExist
  <1>4. InputTurns(coins, g)
    BY <1>3, Zenon
  <1>5. InputValue(coins) = g[coins]
    BY <1>1
  <1> HIDE DEF g
  <1> QED
    BY <1>2, <1>4, <1>5, SumUnique

LEMMA OutputSum ==
    ASSUME NEW outputs, IsFiniteSet(DOMAIN outputs)
    PROVE  Values(outputs) = SumFunctionOnSet(Prices(outputs), DOMAIN outputs)
  <1>1. Values(outputs) = (CHOOSE g : OutputTurns(outputs, g))[DOMAIN outputs]
    BY DEF Values, MapThenSumSet, MapThenFoldSet, OutputTurns, Pick
  <1>2. \A h : OutputTurns(outputs, h) <=> Sums(Prices(outputs), DOMAIN outputs, h)
    <2> TAKE h
    <2>1. \A s \in SUBSET DOMAIN outputs :
              (IF s = {} THEN 0 ELSE outputs[Pick(s)].value + h[s \ {Pick(s)}]) = Turn(Prices(outputs), h, s)
      BY PickIn DEF Turn, Prices
    <2>2. [s \in SUBSET DOMAIN outputs |-> IF s = {} THEN 0 ELSE outputs[Pick(s)].value + h[s \ {Pick(s)}]]
          = [s \in SUBSET DOMAIN outputs |-> Turn(Prices(outputs), h, s)]
      BY <2>1
    <2> QED
      BY <2>2, Zenon DEF OutputTurns, Sums
  <1> DEFINE g == CHOOSE h : OutputTurns(outputs, h)
  <1>3. \E h : OutputTurns(outputs, h)
    BY <1>2, SumsExist
  <1>4. OutputTurns(outputs, g)
    BY <1>3, Zenon
  <1>5. Values(outputs) = g[DOMAIN outputs]
    BY <1>1
  <1> HIDE DEF g
  <1> QED
    BY <1>2, <1>4, <1>5, SumUnique

-----------------------------------------------------------------------------
(* The inductive invariant *)

\* The outputs of the first n transactions, spent or not
Coins(n) == UNION {{<<at, i>> : i \in DOMAIN OutputsOf(at)} : at \in 0 .. n}

Outs == [value : Nat, owner : {"wallet", "other", "commit", "runestone"}]

\* What is known of the protostones of a request: of a command line that none has
\* a transfer
KnownTransfers(stones) ==
    /\ IsFiniteSet({i \in DOMAIN stones : stones[i].transfer # << >>})
    /\ \A i \in DOMAIN stones :
            IsTransfer(stones[i].transfer) /\ (stones[i].transfer # << >> => i \in Nat)

IsExecution(p) ==
    /\ p.envelope \in BOOLEAN /\ p.change \in BOOLEAN
    /\ p.to \in Nat /\ p.rate \in Nat /\ p.bitcoin \in Nat /\ p.script \in Nat
    /\ KnownTransfers(p.stones)

\* No transaction on the node pays out more than its coins hold.
LedgerInv ==
    /\ txs \in Seq({txs[at] : at \in DOMAIN txs})
    /\ \A at \in DOMAIN txs :
        /\ txs[at].outputs \in Seq(Outs)
        /\ txs[at].inputs \in SUBSET Coins(Len(txs)) /\ Paid(txs[at]) >= 0
    /\ indexed \in 0 .. Len(txs)

ExecutionSteps == {"commit", "single", "reveal"}

\* What a request has in its phases
RequestInv ==
    /\ phase = "execute" \/ draft.step \in ExecutionSteps => IsExecution(request)
    /\ phase = "send" => request.amount \in Nat /\ request.rate \in Nat
    /\ phase \in {"confirm", "sign", "broadcast"} => draft # NoDraft

DraftInv ==
    /\ draft # NoDraft =>
        /\ draft.step \in ExecutionSteps \union {"send"}
        /\ draft.inputs \subseteq Coins(Len(txs)) /\ IsFiniteSet(draft.inputs)
        /\ draft.outputs \in Seq(Outs)
        /\ draft.fee \in Nat

\* The commit output holds what the reveal needs, and a reveal follows a commit
\* that the node holds.
CommitInv ==
    /\ draft.step = "commit" =>
        draft.outputs # << >> /\ draft.outputs[1].value = RequiredRevealAmount(request)
    /\ phase = "reveal" => draft.step = "commit"
    /\ phase \in {"reveal", "sync"} /\ draft.step = "commit" =>
        \E at \in DOMAIN txs : txs[at] = draft

\* A reveal of amounts that fit, with no higher fee than was set aside for it, pays
\* that fee: it is signed, and relayed while its coins are unspent if the fee is
\* what the node asks for its envelope.
CoveredReveal ==
    draft.step = "reveal" /\ draft.fee <= EstimatedRevealFee /\ RevealAmount(request) < AmountSpan

RevealInv ==
    CoveredReveal =>
        /\ draft.inputs # {}
        /\ ExtractTx(draft)
        /\ Paid(draft) >= draft.fee
        /\ \A i \in DOMAIN draft.outputs :
                draft.outputs[i].owner = "runestone" \/ draft.outputs[i].value >= 330

FailureInv ==
    /\ cause = "short" =>
        phase = "failed" /\ draft.step = "commit" /\ RevealAmount(request) >= AmountSpan
    /\ phase = "failed" /\ CoveredReveal =>
        /\ cause # "fee"
        /\ cause = "rejected" => ~FeeSuffices \/ ~(draft.inputs \subseteq Unspent(Len(txs)))

ExecuteInv ==
    /\ LedgerInv /\ RequestInv /\ DraftInv /\ CommitInv /\ RevealInv /\ FailureInv
    /\ DraftBalanced /\ FeeAsShown

-----------------------------------------------------------------------------
(* Sums that wrap around *)

LEMMA Wrapped ==
    ASSUME NEW n \in Nat
    PROVE  /\ Wrap(n) \in Nat /\ Wrap(n) <= n /\ Wrap(n) < AmountSpan
           /\ n < AmountSpan => Wrap(n) = n
  <1> DEFINE span == AmountSpan
  <1>1. span \in Nat /\ span > 0
    BY SpanAssumption
  <1> HIDE DEF span
  <1>2. n % span \in Nat /\ n % span < span
    BY <1>1
  <1>3. n % span <= n
    BY <1>1
  <1>4. n < span => n % span = n
    BY <1>1
  <1> QED
    BY <1>2, <1>3, <1>4 DEF Wrap, span

LEMMA RevealAmountTyped ==
    ASSUME NEW p, IsExecution(p)
    PROVE  /\ RevealAmount(p) \in Nat /\ RequiredRevealAmount(p) \in Nat
           /\ RevealAmount(p) = 546 + p.bitcoin + 50000 + p.to * 546 /\ p.to * 546 \in Nat
           /\ RevealAmount(p) < AmountSpan =>
                RequiredRevealAmount(p) = RevealAmount(p) /\ Wrap(p.bitcoin) = p.bitcoin
  <1>1. p.to \in Nat /\ p.bitcoin \in Nat
    BY DEF IsExecution
  <1>2. /\ RevealAmount(p) \in Nat /\ p.to * 546 \in Nat
        /\ RevealAmount(p) = 546 + p.bitcoin + 50000 + p.to * 546
    BY <1>1 DEF RevealAmount, DUST_LIMIT, EstimatedRevealFee
  <1>3. RevealAmount(p) < AmountSpan => p.bitcoin < AmountSpan
    BY <1>1, <1>2, SpanAssumption
  <1> QED
    BY <1>1, <1>2, <1>3, Wrapped DEF RequiredRevealAmount

-----------------------------------------------------------------------------
(* Coins keep their values *)

LEMMA InputSumNext ==
    \A coins : IsFiniteSet(coins) => InputValue(coins)' = SumFunctionOnSet(Amounts(coins)', coins)
  <1>1. \A coins : IsFiniteSet(coins) => InputValue(coins) = SumFunctionOnSet(Amounts(coins), coins)
    BY InputSum
  <1>2. (\A coins : IsFiniteSet(coins) => InputValue(coins) = SumFunctionOnSet(Amounts(coins), coins))'
    BY <1>1, PTL
  <1> QED
    BY <1>2

-----------------------------------------------------------------------------
(* Coins and their values *)

LEMMA OutputsTyped ==
    ASSUME LedgerInv, NEW at \in 0 .. Len(txs)
    PROVE  OutputsOf(at) \in Seq(Outs)
  <1>1. CASE at = 0
    <2>1. Len(InitialCoins) \in Nat /\ InitialCoins \in Seq(0 .. AmountSpan - 1)
          /\ \A i \in 1 .. Len(InitialCoins) : InitialCoins[i] \in Nat
      BY ExecuteAssumption, SpanAssumption
    <2> DEFINE o == [i \in DOMAIN InitialCoins |-> Output(InitialCoins[i], "wallet")]
    <2>2. DOMAIN InitialCoins = 1 .. Len(InitialCoins)
      BY <2>1
    <2>3. o \in [1 .. Len(InitialCoins) -> Outs]
      BY <2>1, <2>2 DEF Output, Outs
    <2>4. o \in Seq(Outs)
      BY <2>1, <2>3, SeqDef
    <2> QED
      BY <1>1, <2>4 DEF OutputsOf
  <1>2. CASE at # 0
    <2>1. Len(txs) \in Nat /\ DOMAIN txs = 1 .. Len(txs)
      BY LenProperties DEF LedgerInv
    <2>2. at \in DOMAIN txs
      BY <1>2, <2>1
    <2> QED
      BY <1>2, <2>2 DEF OutputsOf, LedgerInv
  <1> QED
    BY <1>1, <1>2

LEMMA CoinsTyped ==
    ASSUME LedgerInv, NEW n \in 0 .. Len(txs)
    PROVE  /\ IsFiniteSet(Coins(n)) /\ Coins(n) \subseteq Coins(Len(txs))
           /\ \A coin \in Coins(n) : /\ coin[1] \in 0 .. n
                                     /\ Value(coin) \in Nat
  <1> DEFINE of(at) == {<<at, i>> : i \in DOMAIN OutputsOf(at)}
             f == [at \in 0 .. n |-> of(at)]
  <1>1. Len(txs) \in Nat
    BY LenProperties DEF LedgerInv
  <1>2. \A at \in 0 .. n : IsFiniteSet(of(at))
    <2> TAKE at \in 0 .. n
    <2> DEFINE g == [i \in DOMAIN OutputsOf(at) |-> <<at, i>>]
    <2>1. OutputsOf(at) \in Seq(Outs)
      BY <1>1, OutputsTyped
    <2>2. IsFiniteSet(DOMAIN OutputsOf(at))
      BY <2>1, LenProperties, FS_Interval
    <2>3. IsFiniteSet({g[i] : i \in DOMAIN OutputsOf(at)})
      BY <2>2, FiniteImage
    <2>4. {g[i] : i \in DOMAIN OutputsOf(at)} = of(at)
      OBVIOUS
    <2> QED
      BY <2>3, <2>4
  <1>3. IsFiniteSet({f[at] : at \in 0 .. n})
    <2>1. IsFiniteSet(0 .. n)
      BY <1>1, FS_Interval
    <2> HIDE DEF f
    <2> QED
      BY <2>1, FiniteImage
  <1>4. Coins(n) = UNION {f[at] : at \in 0 .. n}
    BY DEF Coins
  <1>5. \A T \in {f[at] : at \in 0 .. n} : IsFiniteSet(T)
    BY <1>2
  <1>6. IsFiniteSet(Coins(n))
    BY <1>3, <1>4, <1>5, FS_UNION
  <1>7. ASSUME NEW coin \in Coins(n)
        PROVE  coin[1] \in 0 .. n /\ Value(coin) \in Nat
    <2>1. PICK at \in 0 .. n : \E i \in DOMAIN OutputsOf(at) : coin = <<at, i>>
      BY DEF Coins
    <2> PICK i \in DOMAIN OutputsOf(at) : coin = <<at, i>>
      BY <2>1
    <2>2. OutputsOf(at) \in Seq(Outs)
      BY <1>1, OutputsTyped
    <2>3. OutputsOf(at)[i] \in Outs
      BY <2>1, <2>2, LenProperties, ElementOfSeq
    <2>4. coin[1] = at /\ coin[2] = i
      OBVIOUS
    <2> QED
      BY <2>3, <2>4 DEF Value, Outs
  <1>8. Coins(n) \subseteq Coins(Len(txs))
    BY <1>1 DEF Coins
  <1> QED
    BY <1>6, <1>7, <1>8

LEMMA InputTyped ==
    ASSUME LedgerInv, NEW coins \in SUBSET Coins(Len(txs))
    PROVE  IsFiniteSet(coins) /\ InputValue(coins) \in Nat
  <1>1. Len(txs) \in 0 .. Len(txs)
    BY LenProperties DEF LedgerInv
  <1>2. IsFiniteSet(coins) /\ \A coin \in coins : Value(coin) \in Nat
    BY <1>1, CoinsTyped, FS_Subset
  <1>3. \A coin \in coins : Amounts(coins)[coin] \in Nat
    BY <1>2 DEF Amounts
  <1>4. SumFunctionOnSet(Amounts(coins), coins) \in Nat
    BY <1>2, <1>3, SumNat
  <1> QED
    BY <1>2, <1>4, InputSum

\* What the wallet selects holds the amount, and it selects nothing for nothing.
LEMMA Selected ==
    ASSUME LedgerInv, NEW amount \in Nat, NEW coins \in select_utxos(amount)
    PROVE  /\ coins \subseteq Coins(Len(txs)) /\ IsFiniteSet(coins)
           /\ InputValue(coins) \in Nat /\ InputValue(coins) >= amount
           /\ amount = 0 => coins = {}
  <1>1. Unspent(indexed) \subseteq Coins(indexed) /\ Coins(indexed) \subseteq Coins(Len(txs))
    <2>1. indexed \in 0 .. Len(txs)
      BY DEF LedgerInv
    <2> QED
      BY <2>1, CoinsTyped DEF Unspent, Coins
  <1>2. coins \in SUBSET Coins(Len(txs))
    BY <1>1 DEF select_utxos, get_utxos
  <1>3. ASSUME coins # {}, amount = 0 PROVE FALSE
    <2>1. PICK last \in coins : InputValue(coins \ {last}) < amount
      BY <1>3 DEF select_utxos
    <2>2. InputValue(coins \ {last}) \in Nat
      BY <1>2, InputTyped
    <2> QED
      BY <1>3, <2>1, <2>2
  <1> QED
    BY <1>2, <1>3, InputTyped DEF select_utxos

-----------------------------------------------------------------------------
(* Values of outputs *)

LEMMA ValuesTyped ==
    ASSUME NEW outputs \in Seq(Outs)
    PROVE  /\ IsFiniteSet(DOMAIN outputs)
           /\ \A i \in DOMAIN outputs : outputs[i] \in Outs /\ Prices(outputs)[i] \in Nat
           /\ Values(outputs) \in Nat
  <1>1. Len(outputs) \in Nat /\ DOMAIN outputs = 1 .. Len(outputs)
    BY LenProperties
  <1>2. IsFiniteSet(DOMAIN outputs)
    BY <1>1, FS_Interval
  <1>3. \A i \in DOMAIN outputs : outputs[i] \in Outs
    BY <1>1, ElementOfSeq
  <1>4. \A i \in DOMAIN outputs : Prices(outputs)[i] \in Nat
    BY <1>3 DEF Prices, Outs
  <1>5. SumFunctionOnSet(Prices(outputs), DOMAIN outputs) \in Nat
    BY <1>2, <1>4, SumNat
  <1> QED
    BY <1>2, <1>3, <1>4, <1>5, OutputSum

LEMMA ValuesNone == Values(<< >>) = 0
  <1>1. << >> \in Seq(Outs) /\ DOMAIN << >> = {}
    OBVIOUS
  <1>2. Values(<< >>) = SumFunctionOnSet(Prices(<< >>), {})
    BY <1>1, FS_EmptySet, OutputSum
  <1> QED
    BY <1>2, FS_EmptySet, SumTurn

LEMMA ValuesAppend ==
    ASSUME NEW outputs \in Seq(Outs), NEW o \in Outs
    PROVE  /\ Append(outputs, o) \in Seq(Outs)
           /\ Values(Append(outputs, o)) = Values(outputs) + o.value
  <1> DEFINE all == Append(outputs, o)
             n == Len(outputs) + 1
  <1>1. /\ Len(outputs) \in Nat /\ DOMAIN outputs = 1 .. Len(outputs)
        /\ all \in Seq(Outs) /\ Len(all) = n /\ DOMAIN all = 1 .. n
        /\ \A i \in 1 .. Len(outputs) : all[i] = outputs[i]
        /\ all[n] = o
    BY LenProperties, AppendProperties
  <1> HIDE DEF all
  <1>2. /\ IsFiniteSet(DOMAIN all)
        /\ \A i \in DOMAIN all : Prices(all)[i] \in Int
        /\ n \in DOMAIN all
    BY <1>1, ValuesTyped
  <1>3. SumFunctionOnSet(Prices(all), DOMAIN all)
        = Prices(all)[n] + SumFunctionOnSet(Prices(all), DOMAIN all \ {n})
    BY <1>2, SumRemove
  <1>4. DOMAIN all \ {n} = DOMAIN outputs
    BY <1>1
  <1>5. \A i \in DOMAIN outputs : Prices(all)[i] = Prices(outputs)[i]
    BY <1>1 DEF Prices
  <1>6. SumFunctionOnSet(Prices(all), DOMAIN outputs) = SumFunctionOnSet(Prices(outputs), DOMAIN outputs)
    BY <1>5, ValuesTyped, SumEqual
  <1>7. Values(all) = SumFunctionOnSet(Prices(all), DOMAIN all)
        /\ Values(outputs) = SumFunctionOnSet(Prices(outputs), DOMAIN outputs)
    BY <1>2, ValuesTyped, OutputSum
  <1>8. Prices(all)[n] = o.value
    BY <1>1, <1>2 DEF Prices
  <1>9. Values(outputs) \in Nat /\ o.value \in Nat
    BY ValuesTyped DEF Outs
  <1>10. Values(all) = Values(outputs) + o.value
    BY <1>3, <1>4, <1>6, <1>7, <1>8, <1>9
  <1> QED
    BY <1>1, <1>10 DEF all

\* The value of one output is replaced.
Replaced(outputs, k, c) == [outputs EXCEPT ![k].value = c]

LEMMA ValuesReplace ==
    ASSUME NEW outputs \in Seq(Outs), NEW k \in DOMAIN outputs, NEW c \in Nat
    PROVE  LET new == Replaced(outputs, k, c)
           IN  /\ new \in Seq(Outs) /\ Len(new) = Len(outputs) /\ DOMAIN new = DOMAIN outputs
               /\ \A i \in DOMAIN outputs : new[i].owner = outputs[i].owner
               /\ new[k].value = c /\ \A i \in DOMAIN outputs \ {k} : new[i] = outputs[i]
               /\ Values(new) = Values(outputs) - outputs[k].value + c
  <1> DEFINE new == Replaced(outputs, k, c)
             r == [outputs[k] EXCEPT !.value = c]
  <1>1. Len(outputs) \in Nat /\ DOMAIN outputs = 1 .. Len(outputs)
    BY LenProperties
  <1>2. outputs[k] \in Outs
    BY ValuesTyped
  <1>3. r \in Outs /\ r.value = c /\ r.owner = outputs[k].owner
    BY <1>2 DEF Outs
  <1>4. new = [outputs EXCEPT ![k] = r]
    BY DEF Replaced
  <1>5. /\ new \in Seq(Outs) /\ Len(new) = Len(outputs)
        /\ \A j \in 1 .. Len(outputs) : new[j] = IF j = k THEN r ELSE outputs[j]
    BY <1>1, <1>3, <1>4, ExceptSeq
  <1> HIDE DEF new, r
  <1>6. DOMAIN new = DOMAIN outputs
    BY <1>1, <1>5, LenProperties
  <1>7. new[k] = r /\ \A i \in DOMAIN outputs \ {k} : new[i] = outputs[i]
    BY <1>1, <1>5
  <1>8. /\ \A i \in DOMAIN outputs : Prices(outputs)[i] \in Int /\ Prices(new)[i] \in Int
        /\ \A i \in DOMAIN outputs \ {k} : Prices(outputs)[i] = Prices(new)[i]
        /\ Prices(outputs)[k] = outputs[k].value /\ Prices(new)[k] = c
    <2>1. \A i \in DOMAIN outputs : Prices(outputs)[i] \in Nat /\ Prices(new)[i] \in Nat
      BY <1>5, <1>6, ValuesTyped
    <2>2. \A i \in DOMAIN outputs : Prices(outputs)[i] = outputs[i].value /\ Prices(new)[i] = new[i].value
      BY <1>6 DEF Prices
    <2> QED
      BY <1>3, <1>7, <2>1, <2>2
  <1>9. SumFunctionOnSet(Prices(new), DOMAIN outputs)
        = SumFunctionOnSet(Prices(outputs), DOMAIN outputs) - Prices(outputs)[k] + Prices(new)[k]
    <2>1. IsFiniteSet(DOMAIN outputs)
      BY ValuesTyped
    <2> QED
      BY <1>8, <2>1, SumUpdate
  <1>10. Values(new) = SumFunctionOnSet(Prices(new), DOMAIN outputs)
         /\ Values(outputs) = SumFunctionOnSet(Prices(outputs), DOMAIN outputs)
    BY <1>6, ValuesTyped, OutputSum
  <1>11. Values(new) = Values(outputs) - outputs[k].value + c
    BY <1>8, <1>9, <1>10
  <1>12. \A i \in DOMAIN outputs : new[i].owner = outputs[i].owner
    BY <1>3, <1>7
  <1> QED
    BY <1>3, <1>5, <1>6, <1>7, <1>11, <1>12 DEF new

-----------------------------------------------------------------------------
(* The outputs of an execution *)

LEMMA GreatestOfTwo ==
    ASSUME NEW a \in Nat, NEW b \in Nat
    PROVE  Max({a, b}) = IF a > b THEN a ELSE b
  BY DEF Max

LEMMA LeastOfTwo ==
    ASSUME NEW a \in Nat, NEW b \in Nat
    PROVE  Min({a, b}) = IF a < b THEN a ELSE b
  BY DEF Min

LEMMA MinIn ==
    ASSUME NEW T \in SUBSET Nat, T # {}
    PROVE  Min(T) \in T
  <1>1. \E m \in T : \A n \in T : m =< n
    BY LeastNumber
  <1> QED
    BY <1>1 DEF Min

LEMMA GreatestIn ==
    ASSUME NEW T \in SUBSET Nat, IsFiniteSet(T), T # {}
    PROVE  Max(T) \in T
  <1> DEFINE Has(s) == \E m \in s : \A n \in s : m >= n
             bad == {s \in SUBSET T : s # {} /\ ~Has(s)}
  <1>1. bad = {}
    <2>1. SUFFICES ASSUME bad # {} PROVE FALSE
      OBVIOUS
    <2>2. PICK s \in bad : \A x \in s : s \ {x} \notin bad
      BY <2>1, LeastSubset
    <2>3. PICK x \in s : TRUE
      OBVIOUS
    <2>4. x \in Nat /\ s \subseteq Nat
      OBVIOUS
    <2>5. s \ {x} # {}
      BY <2>3, <2>4
    <2>6. Has(s \ {x})
      BY <2>2, <2>5
    <2>7. PICK m \in s \ {x} : \A n \in s \ {x} : m >= n
      BY <2>6
    <2>8. Has(s)
      <3>1. CASE m >= x
        BY <2>7, <3>1
      <3>2. CASE ~(m >= x)
        <4>1. \A n \in s : x >= n
          BY <2>4, <2>7, <3>2
        <4> QED
          BY <4>1
      <3> QED
        BY <3>1, <3>2
    <2> QED
      BY <2>8
  <1>2. T \in SUBSET T /\ T \notin bad
    BY <1>1
  <1>3. Has(T)
    BY <1>2
  <1> QED
    BY <1>3 DEF Max

Share(p) == IF Wrap(p.bitcoin) > 0 THEN Wrap(p.bitcoin) \div p.to ELSE DUST_LIMIT

LEMMA ShareTyped ==
    ASSUME NEW p, IsExecution(p), CanCreateOutputs(p)
    PROVE  /\ Max({Share(p), DUST_LIMIT}) \in Nat /\ Max({Share(p), DUST_LIMIT}) >= DUST_LIMIT
           /\ p.to * Max({Share(p), DUST_LIMIT}) \in Nat
           /\ p.to * Max({Share(p), DUST_LIMIT}) <= Wrap(p.bitcoin) + p.to * DUST_LIMIT
           /\ Wrap(p.bitcoin) <= p.to * Max({Share(p), DUST_LIMIT}) + p.to
  <1>1. p.to \in Nat /\ Wrap(p.bitcoin) \in Nat /\ (Wrap(p.bitcoin) > 0 => p.to > 0)
    BY Wrapped DEF IsExecution, CanCreateOutputs
  <1>2. /\ Share(p) \in Nat /\ p.to * Share(p) <= Wrap(p.bitcoin) + p.to * DUST_LIMIT
        /\ Wrap(p.bitcoin) <= p.to * Share(p) + p.to
    <2>1. CASE Wrap(p.bitcoin) > 0
      <3> DEFINE t == p.to
                 b == Wrap(p.bitcoin)
      <3>1. t \in Nat /\ t > 0 /\ b \in Nat
        BY <1>1, <2>1
      <3> HIDE DEF t, b
      <3>2. b \div t \in Nat /\ t * (b \div t) <= b
        BY <3>1
      <3>3. t * DUST_LIMIT >= 0 /\ t * DUST_LIMIT \in Int
        BY <3>1 DEF DUST_LIMIT
      <3>4. t * (b \div t) \in Int
        BY <3>1, <3>2
      <3>5. t * (b \div t) <= b + t * DUST_LIMIT
        BY <3>1, <3>2, <3>3, <3>4
      <3>6. b <= t * (b \div t) + t
        BY <3>1
      <3> QED
        BY <2>1, <3>2, <3>5, <3>6 DEF Share, t, b
    <2>2. CASE ~(Wrap(p.bitcoin) > 0)
      BY <1>1, <2>2 DEF Share, DUST_LIMIT
    <2> QED
      BY <2>1, <2>2
  <1>3. Max({Share(p), DUST_LIMIT}) = IF Share(p) > DUST_LIMIT THEN Share(p) ELSE DUST_LIMIT
    BY <1>2, GreatestOfTwo DEF DUST_LIMIT
  <1>4. CASE Share(p) > DUST_LIMIT
    <2>1. p.to * Share(p) \in Nat
      BY <1>1, <1>2
    <2>2. Max({Share(p), DUST_LIMIT}) = Share(p)
      BY <1>3, <1>4
    <2>3. Share(p) >= DUST_LIMIT
      BY <1>2, <1>4 DEF DUST_LIMIT
    <2> QED
      BY <1>2, <2>1, <2>2, <2>3
  <1>5. CASE ~(Share(p) > DUST_LIMIT)
    <2>1. Max({Share(p), DUST_LIMIT}) = DUST_LIMIT
      BY <1>3, <1>5
    <2> DEFINE t == p.to
               b == Wrap(p.bitcoin)
               q == Share(p)
    <2>2. t \in Nat /\ b \in Nat /\ q \in Nat /\ q <= 546 /\ b <= t * q + t
      BY <1>1, <1>2, <1>5 DEF DUST_LIMIT
    <2> HIDE DEF t, b, q
    <2>3. t * q <= t * 546 /\ t * q \in Nat /\ t * 546 \in Nat
      BY <2>2
    <2>4. b <= t * 546 + t
      BY <2>2, <2>3
    <2> QED
      BY <1>1, <2>1, <2>3, <2>4 DEF DUST_LIMIT, t, b
  <1> QED
    BY <1>4, <1>5

\* The recipients are paid no more than the bitcoin required and a dust each; only
\* the change output is at zero.
LEMMA CreatedOutputs ==
    ASSUME NEW p, IsExecution(p), CanCreateOutputs(p)
    PROVE  LET outputs == create_outputs(p)
           IN  /\ outputs \in Seq(Outs)
               /\ DOMAIN outputs = 1 .. p.to + (IF p.change THEN 1 ELSE 0)
               /\ Len(outputs) = p.to + (IF p.change THEN 1 ELSE 0)
               /\ \A i \in 1 .. p.to : outputs[i].value >= DUST_LIMIT
               /\ p.change => outputs[p.to + 1].value = 0
               /\ Values(outputs) <= Wrap(p.bitcoin) + p.to * DUST_LIMIT
               /\ Wrap(p.bitcoin) <= Values(outputs) + p.to
  <1> DEFINE each == Max({Share(p), DUST_LIMIT})
             paid == [i \in 1 .. p.to |-> Output(each, "other")]
  <1>1. each \in Nat /\ each >= DUST_LIMIT
        /\ p.to * each \in Nat /\ p.to * each <= Wrap(p.bitcoin) + p.to * DUST_LIMIT
        /\ Wrap(p.bitcoin) <= p.to * each + p.to
    BY ShareTyped
  <1>2. p.to \in Nat /\ p.change \in BOOLEAN /\ Wrap(p.bitcoin) \in Nat
    BY Wrapped DEF IsExecution
  <1>3. create_outputs(p) = paid \o IF p.change THEN <<Output(0, "wallet")>> ELSE << >>
    BY DEF create_outputs, Share
  <1> HIDE DEF each
  <1>4. paid \in [1 .. p.to -> Outs]
    BY <1>1 DEF Output, Outs
  <1>5. paid \in Seq(Outs)
    BY <1>2, <1>4, SeqDef
  <1>6. Len(paid) = p.to /\ DOMAIN paid = 1 .. p.to
    BY <1>2, <1>5, LenProperties
  <1>7. \A i \in 1 .. p.to : paid[i].value = each
    BY DEF Output
  <1> HIDE DEF paid
  <1>8. Values(paid) = p.to * each
    <2>1. IsFiniteSet(1 .. p.to) /\ Cardinality(1 .. p.to) = p.to
      <3> DEFINE to == p.to
      <3>1. to \in Int /\ 1 \in Int /\ to \in Nat
        BY <1>2
      <3> HIDE DEF to
      <3>2. IsFiniteSet(1 .. to) /\ Cardinality(1 .. to) = IF 1 > to THEN 0 ELSE to - 1 + 1
        BY <3>1, FS_Interval
      <3>3. Cardinality(1 .. to) = to
        BY <3>1, <3>2
      <3> QED
        BY <3>2, <3>3 DEF to
    <2>2. \A i \in 1 .. p.to : Prices(paid)[i] = each
      BY <1>6, <1>7 DEF Prices
    <2>3. each \in Int
      BY <1>1
    <2>4. SumFunctionOnSet(Prices(paid), 1 .. p.to) = p.to * each
      BY <2>1, <2>2, <2>3, SumConstant
    <2> QED
      BY <1>6, <2>1, <2>4, OutputSum
  <1>9. CASE ~p.change
    <2>1. create_outputs(p) = paid
      BY <1>3, <1>5, <1>9, ConcatEmptySeq
    <2>2. p.to + (IF p.change THEN 1 ELSE 0) = p.to
      BY <1>2, <1>9
    <2> QED
      BY <1>1, <1>2, <1>5, <1>6, <1>7, <1>8, <1>9, <2>1, <2>2
  <1>10. CASE p.change
    <2> DEFINE zero == Output(0, "wallet")
               all == Append(paid, zero)
    <2>1. zero \in Outs /\ zero.value = 0
      BY DEF Output, Outs
    <2> HIDE DEF zero
    <2>2. all = paid \o <<zero>>
      BY <1>5, <2>1, AppendIsConcat
    <2>3. create_outputs(p) = all
      BY <1>3, <1>10, <2>2 DEF zero
    <2>4. /\ all \in Seq(Outs) /\ Len(all) = p.to + 1
          /\ \A i \in 1 .. p.to : all[i] = paid[i]
          /\ all[p.to + 1] = zero
      BY <1>5, <1>6, <2>1, AppendProperties
    <2>5. Values(all) = p.to * each
      BY <1>1, <1>5, <1>8, <2>1, ValuesAppend
    <2> HIDE DEF all
    <2>6. DOMAIN all = 1 .. p.to + 1
      BY <2>4, LenProperties
    <2>7. p.to + (IF p.change THEN 1 ELSE 0) = p.to + 1
      BY <1>10
    <2> QED
      BY <1>1, <1>2, <1>7, <1>10, <2>1, <2>3, <2>4, <2>5, <2>6, <2>7
  <1> QED
    BY <1>2, <1>9, <1>10

\* A transfer overwrites the output it names, and no other.
LEMMA TransferredOutputs ==
    ASSUME NEW outputs \in Seq(Outs), NEW stones, KnownTransfers(stones)
    PROVE  LET new == Transferred(outputs, stones)
           IN  /\ new \in Seq(Outs) /\ DOMAIN new = DOMAIN outputs /\ Len(new) = Len(outputs)
               /\ \A i \in DOMAIN outputs :
                    \/ \E k \in DOMAIN stones :
                            /\ stones[k].transfer # << >> /\ stones[k].transfer[1] = "out"
                            /\ stones[k].transfer[2] + 1 = i
                    \/ new[i] = outputs[i]
  <1> DEFINE naming(i) == {k \in DOMAIN stones : LET t == stones[k].transfer
                                                 IN  t # << >> /\ t[1] = "out" /\ t[2] + 1 = i}
             entry(i) == IF naming(i) = {} THEN outputs[i]
                         ELSE [outputs[i] EXCEPT !.value = stones[Max(naming(i))].transfer[3]]
             new == [i \in DOMAIN outputs |-> entry(i)]
  <1>1. Transferred(outputs, stones) = new
    BY DEF Transferred
  <1>2. Len(outputs) \in Nat /\ DOMAIN outputs = 1 .. Len(outputs)
        /\ \A i \in DOMAIN outputs : outputs[i] \in Outs
    BY LenProperties, ValuesTyped
  <1>3. ASSUME NEW i \in DOMAIN outputs PROVE entry(i) \in Outs
    <2>1. CASE naming(i) = {}
      BY <1>2, <2>1
    <2>2. CASE naming(i) # {}
      <3> DEFINE m == Max(naming(i))
      <3>1. naming(i) \in SUBSET Nat
        BY DEF KnownTransfers
      <3>2. IsFiniteSet(naming(i))
        <4>1. naming(i) \subseteq {k \in DOMAIN stones : stones[k].transfer # << >>}
          OBVIOUS
        <4> QED
          BY <4>1, FS_Subset DEF KnownTransfers
      <3>3. m \in naming(i)
        <4> HIDE DEF naming
        <4> QED
          BY <2>2, <3>1, <3>2, GreatestIn
      <3> HIDE DEF m
      <3>4. m \in DOMAIN stones /\ stones[m].transfer # << >> /\ stones[m].transfer[1] = "out"
        BY <3>3
      <3>5. stones[m].transfer[3] \in Nat
        BY <3>4, SpanAssumption DEF KnownTransfers, IsTransfer
      <3>6. [outputs[i] EXCEPT !.value = stones[m].transfer[3]] \in Outs
        <4>1. outputs[i] \in Outs
          BY <1>2
        <4> QED
          BY <3>5, <4>1 DEF Outs
      <3>7. entry(i) = [outputs[i] EXCEPT !.value = stones[m].transfer[3]]
        BY <2>2 DEF m
      <3> QED
        BY <3>6, <3>7
    <2> QED
      BY <2>1, <2>2
  <1>4. \A i \in DOMAIN outputs : naming(i) # {} \/ entry(i) = outputs[i]
    OBVIOUS
  <1>5. \A i \in DOMAIN outputs : naming(i) # {} =>
            \E k \in DOMAIN stones :
                /\ stones[k].transfer # << >> /\ stones[k].transfer[1] = "out"
                /\ stones[k].transfer[2] + 1 = i
    OBVIOUS
  <1> HIDE DEF entry, naming
  <1>6. new \in [1 .. Len(outputs) -> Outs]
    BY <1>2, <1>3
  <1>7. new \in Seq(Outs)
    BY <1>2, <1>6, SeqDef
  <1>8. DOMAIN new = DOMAIN outputs /\ \A i \in DOMAIN outputs : new[i] = entry(i)
    OBVIOUS
  <1>9. Len(new) = Len(outputs)
    BY <1>2, <1>6, <1>7, LenProperties
  <1> HIDE DEF new
  <1> QED
    BY <1>1, <1>4, <1>5, <1>7, <1>8, <1>9

LEMMA SizeTyped ==
    ASSUME NEW i \in Nat, NEW o \in Nat, NEW envelope \in BOOLEAN
    PROVE  VSize(i, o, envelope) \in Nat
  BY DEF VSize, VBytes, BaseSize

\* What is left to the miners
Left(tx) == InputValue(tx.inputs) - Values(tx.outputs)

\* The transaction of an execution: the fee, the rest for an output of value zero,
\* the other outputs as they were, and the runestone
HasZero(outputs) == \E i \in 1 .. Len(outputs) : outputs[i].value = 0

IsBuilt(tx, coins, outputs, rate, envelope) ==
    LET size   == VSize(Cardinality(coins), Len(outputs) + 1, envelope)
        rest   == InputValue(coins) - Wrap(Values(outputs)) - tx.fee
        change == IF rest > 0 THEN rest ELSE 0
    IN  /\ tx.inputs = coins /\ tx.outputs \in Seq(Outs) /\ Len(tx.outputs) = Len(outputs) + 1
        /\ tx.fee \in Nat /\ tx.fee = IF rate * size < MAX_FEE_SATS THEN rate * size ELSE MAX_FEE_SATS
        /\ tx.outputs[Len(outputs) + 1].owner = "runestone"
        /\ ~HasZero(outputs) => \A i \in 1 .. Len(outputs) : tx.outputs[i].value = outputs[i].value
        /\ HasZero(outputs) =>
                \E k \in 1 .. Len(outputs) :
                    /\ outputs[k].value = 0 /\ tx.outputs[k].value = change
                    /\ \A i \in 1 .. Len(outputs) : i # k => tx.outputs[i].value = outputs[i].value
        /\ Values(tx.outputs) = Values(outputs) + IF HasZero(outputs) THEN change ELSE 0

LEMMA Built ==
    ASSUME LedgerInv, NEW coins \in SUBSET Coins(Len(txs)), NEW outputs \in Seq(Outs), NEW stones,
           NEW rate \in Nat, NEW envelope \in BOOLEAN
    PROVE  IsBuilt(build_psbt_and_fee(coins, outputs, stones, rate, envelope),
                   coins, outputs, rate, envelope)
  <1> DEFINE tx     == build_psbt_and_fee(coins, outputs, stones, rate, envelope)
             size   == VSize(Cardinality(coins), Len(outputs) + 1, envelope)
             fee    == IF rate * size < MAX_FEE_SATS THEN rate * size ELSE MAX_FEE_SATS
             rest   == InputValue(coins) - Wrap(Values(outputs)) - fee
             change == IF rest > 0 THEN rest ELSE 0
             rune   == Output(0, "runestone")
             all    == Append(outputs, rune)
             spare  == {i \in DOMAIN outputs : outputs[i].value = 0}
  <1>1. Len(outputs) \in Nat /\ DOMAIN outputs = 1 .. Len(outputs)
    BY LenProperties
  <1>2. IsFiniteSet(coins) /\ Cardinality(coins) \in Nat /\ InputValue(coins) \in Nat
    BY InputTyped, FS_CardinalityType
  <1>3. size \in Nat
    <2>1. Len(outputs) + 1 \in Nat
      BY <1>1
    <2> QED
      BY <1>2, <2>1, SizeTyped
  <1>4. rune \in Outs /\ rune.value = 0 /\ rune.owner = "runestone"
    BY DEF Output, Outs
  <1> HIDE DEF rune
  <1>5. /\ all \in Seq(Outs) /\ Len(all) = Len(outputs) + 1 /\ Values(all) = Values(outputs)
        /\ \A i \in 1 .. Len(outputs) : all[i] = outputs[i]
        /\ all[Len(outputs) + 1] = rune
    <2>1. Values(all) = Values(outputs) + 0 /\ Values(outputs) \in Nat
      BY <1>4, ValuesAppend, ValuesTyped
    <2> QED
      BY <1>4, <2>1, AppendProperties, ValuesAppend
  <1>6. Values(outputs) \in Nat /\ Wrap(Values(outputs)) \in Nat
    BY ValuesTyped, Wrapped
  <1> HIDE DEF all, size
  <1>7. rate * size \in Nat
    BY <1>3
  <1>8. fee \in Nat /\ Min({rate * size, MAX_FEE_SATS}) = fee
    <2>1. MAX_FEE_SATS \in Nat
      BY DEF MAX_FEE_SATS
    <2> QED
      BY <1>7, <2>1, LeastOfTwo
  <1> HIDE DEF fee
  <1>9. Sub(Sub(InputValue(coins), Wrap(Values(all))), fee) = change /\ change \in Nat
    BY <1>2, <1>5, <1>6, <1>8 DEF Sub
  <1>10. tx = [inputs |-> coins,
               outputs |-> IF spare = {} THEN all ELSE [all EXCEPT ![Min(spare)].value = change],
               runestone |-> convert_protostone_specs(stones),
               fee |-> fee]
    BY <1>5, <1>8, <1>9 DEF build_psbt_and_fee, all, size, rune
  <1>11. DOMAIN all = 1 .. Len(outputs) + 1
    BY <1>5, LenProperties
  <1>12. /\ tx.inputs = coins /\ tx.fee = fee
         /\ tx.outputs = IF spare = {} THEN all ELSE [all EXCEPT ![Min(spare)].value = change]
    BY <1>10
  <1> HIDE DEF tx, change
  <1>13. CASE spare = {}
    <2>1. tx.outputs = all
      BY <1>12, <1>13
    <2>2. \A i \in 1 .. Len(outputs) : outputs[i].value # 0
      BY <1>1, <1>13
    <2>3. /\ tx.outputs \in Seq(Outs) /\ Len(tx.outputs) = Len(outputs) + 1
          /\ tx.outputs[Len(outputs) + 1].owner = "runestone"
          /\ \A i \in 1 .. Len(outputs) : tx.outputs[i].value = outputs[i].value
      BY <1>4, <1>5, <2>1
    <2>4. Values(tx.outputs) = Values(outputs) + 0
      BY <1>5, <1>6, <2>1
    <2> QED
      BY <1>8, <1>12, <2>2, <2>3, <2>4 DEF fee, size, change, tx, IsBuilt, HasZero
  <1>14. CASE spare # {}
    <2> DEFINE k == Min(spare)
               new == Replaced(all, k, change)
    <2>1. k \in spare
      <3>1. spare \in SUBSET Nat
        BY <1>1
      <3> QED
        BY <1>14, <3>1, MinIn
    <2> HIDE DEF k
    <2>2. k \in 1 .. Len(outputs) /\ outputs[k].value = 0 /\ k \in DOMAIN all
          /\ all[k].value = 0 /\ Len(outputs) + 1 \in DOMAIN all /\ Len(outputs) + 1 # k
          /\ \A i \in 1 .. Len(outputs) : i \in DOMAIN all
      BY <1>1, <1>5, <1>11, <2>1
    <2>3. tx.outputs = new
      <3> HIDE DEF spare
      <3> QED
        BY <1>12, <1>14 DEF k, Replaced
    <2>4. /\ new \in Seq(Outs) /\ Len(new) = Len(all)
          /\ new[k].value = change /\ \A i \in DOMAIN all \ {k} : new[i] = all[i]
          /\ Values(new) = Values(all) - all[k].value + change
      <3>1. all \in Seq(Outs) /\ k \in DOMAIN all /\ change \in Nat
        BY <1>5, <1>9, <2>2
      <3> HIDE DEF spare
      <3> QED
        BY <3>1, ValuesReplace
    <2> HIDE DEF new
    <2>5. Values(new) = Values(outputs) + change
      BY <1>5, <1>6, <1>9, <2>2, <2>4
    <2>6. new[Len(outputs) + 1].owner = "runestone"
      BY <1>4, <1>5, <2>2, <2>4
    <2>7. \A i \in 1 .. Len(outputs) : i # k => new[i].value = outputs[i].value
      BY <1>5, <2>2, <2>4
    <2>8. \E i \in 1 .. Len(outputs) : outputs[i].value = 0
      BY <2>2
    <2>9. Len(new) = Len(outputs) + 1 /\ new \in Seq(Outs)
      BY <1>5, <2>4
    <2>10. HasZero(outputs)
      BY <2>8 DEF HasZero
    <2>11. \E j \in 1 .. Len(outputs) :
                /\ outputs[j].value = 0 /\ new[j].value = change
                /\ \A i \in 1 .. Len(outputs) : i # j => new[i].value = outputs[i].value
      BY <2>2, <2>4, <2>7
    <2> QED
      BY <1>8, <1>12, <2>3, <2>5, <2>6, <2>9, <2>10, <2>11 DEF fee, size, change, tx, IsBuilt
  <1> QED
    BY <1>13, <1>14

-----------------------------------------------------------------------------
(* What a command line asks for *)

LEMMA Collected ==
    ASSUME NEW results, NEW value \in Collect(results)
    PROVE  DOMAIN value = DOMAIN results /\ \A i \in DOMAIN results : value[i] \in results[i]
  <1>1. \A i \in DOMAIN results : results[i] # {}
    BY DEF Collect
  <1>2. value = [i \in DOMAIN results |-> CHOOSE v \in results[i] : TRUE]
    BY <1>1 DEF Collect
  <1>3. \A i \in DOMAIN results : (CHOOSE v \in results[i] : TRUE) \in results[i]
    BY <1>1
  <1> QED
    BY <1>2, <1>3

LEMMA StonesPlain ==
    ASSUME NEW text, NEW stones \in parse_protostones(text)
    PROVE  \A i \in DOMAIN stones : stones[i].transfer = << >>
  <1>1. PICK parts : stones \in Collect([i \in DOMAIN parts |-> parse_single_protostone(parts[i])])
    BY DEF parse_protostones
  <1>2. \A i \in DOMAIN stones : stones[i] \in parse_single_protostone(parts[i])
    <2> DEFINE results == [i \in DOMAIN parts |-> parse_single_protostone(parts[i])]
    <2>1. stones \in Collect(results)
      BY <1>1
    <2>2. DOMAIN results = DOMAIN parts /\ \A i \in DOMAIN parts : results[i] = parse_single_protostone(parts[i])
      OBVIOUS
    <2> HIDE DEF results
    <2> QED
      BY <2>1, <2>2, Collected
  <1>3. \A t : \A stone \in parse_single_protostone(t) : stone.transfer = << >>
    <2> TAKE t
    <2> TAKE stone \in parse_single_protostone(t)
    <2> DEFINE Rest(q) == IF q # << >> /\ Bracketed(Head(q)) THEN Tail(q) ELSE q
               Edicts(q) == SelectSeq(SubSeq(Rest(q), 3, Len(Rest(q))), Bracketed)
               Packs(q) == IF q # << >> /\ Bracketed(Head(q))
                               THEN parse_cellpack(Inner(Head(q))) ELSE {<< >>}
               Alls(q) == IF \A i \in DOMAIN Rest(q) :
                                    i <= 2 => parse_output_target(Rest(q)[i]) # {}
                              THEN Collect([i \in DOMAIN Edicts(q) |-> parse_edict(Inner(Edicts(q)[i]))])
                              ELSE {}
               Made(q) == {[cellpack |-> c, edicts |-> e, transfer |-> << >>] :
                                  c \in Packs(q), e \in Alls(q)}
    <2>2. parse_single_protostone(t) = UNION {Made(q) : q \in split_respecting_brackets(t, Colon)}
      BY DEF parse_single_protostone
    <2> HIDE DEF Packs, Alls
    <2>1. \E c, e : stone = [cellpack |-> c, edicts |-> e, transfer |-> << >>]
      BY <2>2
    <2> QED
      BY <2>1
  <1> QED
    BY <1>2, <1>3

LEMMA AmountTyped == \A part : Amount(part) \subseteq Nat
  BY DEF Amount, Number

LEMMA AmountsTyped ==
    ASSUME NEW S, NEW text \in Seq(S), NEW amounts \in parse_input_requirements(text)
    PROVE  IsFiniteSet(DOMAIN amounts) /\ \A i \in DOMAIN amounts : amounts[i] \in Nat
  <1> DEFINE parts == Split(text, Comma)
             requirement(part) ==
                IF Len(part) >= 2 /\ part[1] = Token("B") /\ part[2] = Colon
                THEN Amount(SubSeq(part, 3, Len(part)))
                ELSE IF Len(Split(part, Colon)) = 3
                THEN {0 : numbers \in Collect([i \in 1..3 |-> Amount(Split(part, Colon)[i])])}
                ELSE {}
             results == [i \in DOMAIN parts |-> requirement(Trim(parts[i]))]
             cuts == {i \in DOMAIN text : text[i] = Comma}
  <1>1. amounts \in Collect(results)
    BY DEF parse_input_requirements
  <1>2. DOMAIN parts = 1 .. (Cardinality(cuts) + 1)
    BY DEF Split
  <1>3. IsFiniteSet(cuts)
    <2>1. IsFiniteSet(DOMAIN text)
      BY LenProperties, FS_Interval
    <2> QED
      BY <2>1, FS_Subset
  <1>4. IsFiniteSet(DOMAIN parts)
    <2>1. Cardinality(cuts) + 1 \in Int /\ 1 \in Int
      BY <1>3, FS_CardinalityType
    <2> HIDE DEF cuts, parts
    <2> QED
      BY <1>2, <2>1, FS_Interval
  <1>5. \A part : requirement(part) \subseteq Nat
    <2> TAKE part
    <2>1. {0 : numbers \in Collect([i \in 1..3 |-> Amount(Split(part, Colon)[i])])} \subseteq Nat
      BY 0 \in Nat, Zenon
    <2>2. Amount(SubSeq(part, 3, Len(part))) \subseteq Nat
      BY AmountTyped
    <2> QED
      BY <2>1, <2>2
  <1> HIDE DEF requirement, parts
  <1>6. DOMAIN results = DOMAIN parts /\ \A i \in DOMAIN parts : results[i] \subseteq Nat
    BY <1>5
  <1> HIDE DEF results
  <1> QED
    BY <1>1, <1>4, <1>6, Collected

LEMMA AmountsSum ==
    ASSUME NEW amounts, IsFiniteSet(DOMAIN amounts), \A i \in DOMAIN amounts : amounts[i] \in Nat
    PROVE  SumFunction(amounts) \in Nat
  <1>1. SumFunction(amounts) = SumFunctionOnSet(amounts, DOMAIN amounts)
    BY DEF SumFunction, SumFunctionOnSet, FoldFunction, FoldFunctionOnSet
  <1> QED
    BY <1>1, SumNat

LEMMA LineTyped ==
    ASSUME NEW line \in CommandLines, NEW p \in LineParams(line)
    PROVE  IsExecution(p)
  <1>1. PICK parsed \in to_enhanced_execute_params(line.args, line.inputs) :
            p = [line.options EXCEPT !.stones = parsed[1], !.bitcoin = parsed[2]]
    BY DEF LineParams
  <1>2. PICK stones \in parse_protostones(JoinedStones(line.args)) :
            \E amounts \in IF line.inputs = << >> THEN {<< >>} ELSE parse_input_requirements(line.inputs) :
                parsed = <<stones, SumFunction(amounts)>>
    BY DEF to_enhanced_execute_params
  <1>3. PICK amounts \in IF line.inputs = << >> THEN {<< >>} ELSE parse_input_requirements(line.inputs) :
                parsed = <<stones, SumFunction(amounts)>>
    BY <1>2
  <1>4. line.inputs \in Seq({line.inputs[i] : i \in DOMAIN line.inputs})
        /\ {"envelope", "script", "change", "to", "rate", "bitcoin", "stones"} \subseteq DOMAIN line.options
        /\ line.options.envelope \in BOOLEAN /\ line.options.change \in BOOLEAN
        /\ line.options.to \in Nat /\ line.options.rate \in Nat /\ line.options.script \in Nat
    BY RequestAssumption
  <1>5. IsFiniteSet(DOMAIN amounts) /\ \A i \in DOMAIN amounts : amounts[i] \in Nat
    <2>1. CASE line.inputs = << >>
      <3>1. amounts = << >> /\ DOMAIN << >> = {}
        BY <1>3, <2>1
      <3> QED
        BY <3>1, FS_EmptySet
    <2>2. CASE line.inputs # << >>
      BY <1>3, <1>4, <2>2, AmountsTyped
    <2> QED
      BY <2>1, <2>2
  <1>6. SumFunction(amounts) \in Nat
    BY <1>5, AmountsSum
  <1>7. /\ p.envelope = line.options.envelope /\ p.change = line.options.change
        /\ p.to = line.options.to /\ p.rate = line.options.rate /\ p.script = line.options.script
        /\ p.stones = stones /\ p.bitcoin = SumFunction(amounts)
    BY <1>1, <1>3, <1>4
  <1>8. \A i \in DOMAIN stones : stones[i].transfer = << >>
    BY StonesPlain
  <1>9. KnownTransfers(stones)
    <2>1. {i \in DOMAIN stones : stones[i].transfer # << >>} = {}
      BY <1>8
    <2> QED
      BY <1>8, <2>1, FS_EmptySet DEF KnownTransfers, IsTransfer
  <1> QED
    BY <1>4, <1>6, <1>7, <1>9 DEF IsExecution

LEMMA ExecutionTyped ==
    ASSUME NEW p \in Executions
    PROVE  IsExecution(p)
  <1>1. /\ p.envelope \in BOOLEAN /\ p.change \in BOOLEAN /\ p.to \in Nat /\ p.rate \in Nat /\ p.bitcoin \in Nat
        /\ p.script \in Nat /\ p.stones \in Seq({p.stones[i] : i \in DOMAIN p.stones})
        /\ \A i \in DOMAIN p.stones : IsTransfer(p.stones[i].transfer)
    BY RequestAssumption
  <1>2. Len(p.stones) \in Nat /\ DOMAIN p.stones = 1 .. Len(p.stones)
    BY <1>1, LenProperties
  <1>3. IsFiniteSet(DOMAIN p.stones)
    BY <1>2, FS_Interval
  <1>4. IsFiniteSet({i \in DOMAIN p.stones : p.stones[i].transfer # << >>})
    BY <1>3, FS_Subset
  <1> QED
    BY <1>1, <1>2, <1>4 DEF IsExecution, KnownTransfers

LEMMA AmmTyped ==
    ASSUME NEW call \in PoolCalls, NEW p \in AmmOperation(call)
    PROVE  IsExecution(p)
  <1>1. p = AmmParams(call)
    <2>1. call.op \in {"create_pool", "add_liquidity", "remove_liquidity", "swap"}
      BY RequestAssumption
    <2>2. \/ p \in create_pool(call) \/ p \in add_liquidity(call)
          \/ p \in remove_liquidity(call) \/ p \in swap(call)
      BY <2>1 DEF AmmOperation
    <2> QED
      BY <2>2 DEF create_pool, add_liquidity, remove_liquidity, swap
  <1>2. call.rate \in Nat
    BY RequestAssumption
  <1>3. /\ p.rate = call.rate
        /\ p.stones = <<[cellpack |-> << >>, edicts |-> << >>, transfer |-> << >>]>>
    BY <1>1 DEF AmmParams
  <1>4. \A i \in DOMAIN p.stones : p.stones[i].transfer = << >>
    <2> DEFINE stone == [cellpack |-> << >>, edicts |-> << >>, transfer |-> << >>]
    <2>1. p.stones = <<stone>> /\ stone.transfer = << >>
      BY <1>3
    <2> HIDE DEF stone
    <2>2. \A i \in DOMAIN <<stone>> : <<stone>>[i] = stone
      OBVIOUS
    <2> QED
      BY <2>1, <2>2
  <1>5. KnownTransfers(p.stones)
    <2>1. {i \in DOMAIN p.stones : p.stones[i].transfer # << >>} = {}
      BY <1>4
    <2> QED
      BY <1>4, <2>1, FS_EmptySet DEF KnownTransfers, IsTransfer
  <1>6. p.envelope \in BOOLEAN /\ p.change \in BOOLEAN /\ p.to \in Nat /\ p.rate \in Nat /\ p.bitcoin \in Nat
        /\ p.script \in Nat
    <2>1. p.envelope \in BOOLEAN /\ p.change \in BOOLEAN
      BY <1>1 DEF AmmParams
    <2>2. p.to \in Nat /\ p.bitcoin \in Nat /\ p.script \in Nat
      BY <1>1 DEF AmmParams
    <2> QED
      BY <1>2, <1>3, <2>1, <2>2
  <1> QED
    BY <1>3, <1>5, <1>6 DEF IsExecution

-----------------------------------------------------------------------------
(* The ledger grows *)

\* What a step leaves of the ledger before it: transactions, coins and their
\* values, and that a coin is spent
KeepsCoins ==
    /\ \A at \in DOMAIN txs : at \in DOMAIN txs' /\ txs'[at] = txs[at]
    /\ Coins(Len(txs)) \subseteq Coins(Len(txs))'
    /\ \A coins \in SUBSET Coins(Len(txs)) : InputValue(coins)' = InputValue(coins)
    /\ \A coins \in SUBSET Coins(Len(txs)) :
            ~(coins \subseteq Unspent(Len(txs))) => ~(coins \subseteq Unspent(Len(txs))')

IsNext(all, tx) ==
    /\ all \in Seq({all[at] : at \in DOMAIN all})
    /\ Len(all) = Len(txs) + 1
    /\ \A at \in DOMAIN txs : at \in DOMAIN all /\ all[at] = txs[at]
    /\ \A at \in DOMAIN all : at \in DOMAIN txs \/ all[at] = tx
    /\ Len(all) \in DOMAIN all /\ all[Len(all)] = tx
    /\ \A at \in DOMAIN all : all[at].outputs \in Seq(Outs)

LEMMA Appended ==
    ASSUME LedgerInv, NEW tx, tx.outputs \in Seq(Outs)
    PROVE  IsNext(Append(txs, tx), tx)
  <1> DEFINE S == {txs[at] : at \in DOMAIN txs}
             all == Append(txs, tx)
  <1>1. txs \in Seq(S) /\ Len(txs) \in Nat /\ DOMAIN txs = 1 .. Len(txs)
    BY LenProperties DEF LedgerInv
  <1>2. txs \in Seq(S \union {tx})
    <2> HIDE DEF S
    <2> QED
      BY <1>1, SeqMonotonic
  <1>3. /\ all \in Seq(S \union {tx}) /\ Len(all) = Len(txs) + 1
        /\ \A i \in 1 .. Len(txs) : all[i] = txs[i]
        /\ all[Len(txs) + 1] = tx
    <2> HIDE DEF S
    <2> QED
      BY <1>2, AppendProperties
  <1> HIDE DEF all
  <1>4. DOMAIN all = 1 .. Len(txs) + 1
    BY <1>3, LenProperties
  <1>5. S \union {tx} \subseteq {all[at] : at \in DOMAIN all}
    BY <1>1, <1>3, <1>4
  <1>6. all \in Seq({all[at] : at \in DOMAIN all})
    <2> HIDE DEF S
    <2> QED
      BY <1>3, <1>5, SeqMonotonic
  <1>7. \A at \in DOMAIN all : all[at].outputs \in Seq(Outs)
    BY <1>1, <1>3, <1>4 DEF LedgerInv
  <1>8. \A at \in DOMAIN txs : at \in DOMAIN all /\ all[at] = txs[at]
    BY <1>1, <1>3, <1>4
  <1>9. Len(txs) + 1 \in DOMAIN all
    BY <1>1, <1>4
  <1>10. \A at \in DOMAIN all : at \in DOMAIN txs \/ all[at] = tx
    BY <1>1, <1>3, <1>4
  <1> QED
    BY <1>3, <1>4, <1>6, <1>7, <1>8, <1>9, <1>10 DEF IsNext, all

\* A transaction of known coins that pays out no more than they hold
IsBalanced(tx) ==
    tx.outputs \in Seq(Outs) /\ tx.inputs \in SUBSET Coins(Len(txs)) /\ Paid(tx) >= 0

LEMMA LedgerGrows ==
    ASSUME LedgerInv, indexed' \in 0 .. Len(txs),
           \/ txs' = txs
           \/ \E tx : IsBalanced(tx) /\ txs' = Append(txs, tx)
    PROVE  LedgerInv' /\ KeepsCoins
  <1>1. Len(txs) \in Nat /\ DOMAIN txs = 1 .. Len(txs)
    BY LenProperties DEF LedgerInv
  <1>2. /\ txs' \in Seq({txs'[at] : at \in DOMAIN txs'})
        /\ Len(txs') \in Nat /\ Len(txs) <= Len(txs')
        /\ \A at \in DOMAIN txs : at \in DOMAIN txs' /\ txs'[at] = txs[at]
        /\ \A at \in DOMAIN txs' :
            /\ txs'[at].outputs \in Seq(Outs) /\ txs'[at].inputs \in SUBSET Coins(Len(txs))
            /\ InputValue(txs'[at].inputs) - Values(txs'[at].outputs) >= 0
    <2>1. CASE txs' = txs
      BY <1>1, <2>1 DEF LedgerInv, Paid
    <2>2. CASE \E tx : IsBalanced(tx) /\ txs' = Append(txs, tx)
      <3>1. PICK tx : IsBalanced(tx) /\ txs' = Append(txs, tx)
        BY <2>2
      <3> DEFINE all == Append(txs, tx)
      <3>2. IsNext(all, tx)
        BY <3>1, Appended DEF IsBalanced
      <3>3. txs' = all
        BY <3>1
      <3> HIDE DEF all
      <3>4. \A at \in DOMAIN all : IsBalanced(all[at])
        BY <3>1, <3>2 DEF IsNext, IsBalanced, LedgerInv
      <3> QED
        BY <1>1, <3>2, <3>3, <3>4 DEF IsNext, IsBalanced, Paid
    <2> QED
      BY <2>1, <2>2
  <1>4. \A at \in 0 .. Len(txs) : OutputsOf(at)' = OutputsOf(at)
    <2>1. \A at \in 0 .. Len(txs) : at = 0 \/ at \in DOMAIN txs
      BY <1>1
    <2>2. \A at \in DOMAIN txs : txs'[at].outputs = txs[at].outputs
      BY <1>2
    <2> QED
      BY <2>1, <2>2 DEF OutputsOf
  <1>5. \A coin \in Coins(Len(txs)) : Value(coin)' = Value(coin)
    <2>1. \A coin \in Coins(Len(txs)) : coin[1] \in 0 .. Len(txs)
      BY <1>1, CoinsTyped
    <2> QED
      BY <1>4, <2>1 DEF Value
  <1>6. ASSUME NEW coins \in SUBSET Coins(Len(txs))
        PROVE  InputValue(coins)' = InputValue(coins)
    <2>1. IsFiniteSet(coins)
      BY InputTyped
    <2>2. \A coin \in coins : Amounts(coins)[coin] = Value(coin)
      BY DEF Amounts
    <2>3. \A coin \in coins : (Amounts(coins)')[coin] = Value(coin)'
      BY DEF Amounts
    <2>4. \A coin \in coins : (Amounts(coins)')[coin] = Amounts(coins)[coin]
      BY <1>5, <2>2, <2>3
    <2>5. SumFunctionOnSet(Amounts(coins)', coins) = SumFunctionOnSet(Amounts(coins), coins)
      BY <2>1, <2>4, SumEqual
    <2> QED
      BY <2>1, <2>5, InputSum, InputSumNext
  <1>7. Coins(Len(txs)) \subseteq Coins(Len(txs))'
    BY <1>1, <1>2, <1>4 DEF Coins
  <1>3. LedgerInv'
    <2>1. ASSUME NEW at \in DOMAIN txs'
          PROVE  /\ txs'[at].outputs \in Seq(Outs) /\ txs'[at].inputs \in SUBSET Coins(Len(txs))'
      BY <1>2, <1>7
    <2>2. \A at \in DOMAIN txs' : Paid(txs[at])' >= 0
      BY <1>2, <1>6 DEF Paid
    <2> QED
      BY <1>1, <1>2, <2>1, <2>2 DEF LedgerInv
  <1>8. ASSUME NEW coins \in SUBSET Coins(Len(txs)), ~(coins \subseteq Unspent(Len(txs)))
        PROVE  ~(coins \subseteq Unspent(Len(txs))')
    <2>1. PICK coin \in coins : coin \notin Unspent(Len(txs))
      BY <1>8
    <2>2. PICK at \in 1 .. Len(txs) : coin \in txs[at].inputs
      <3>1. Unspent(Len(txs)) = Coins(Len(txs)) \ (UNION {txs[at].inputs : at \in 1 .. Len(txs)})
        BY DEF Unspent, Coins
      <3>2. coin \in UNION {txs[at].inputs : at \in 1 .. Len(txs)}
        BY <2>1, <3>1
      <3> QED
        BY <3>2
    <2>3. at \in 1 .. Len(txs') /\ coin \in txs'[at].inputs
      <3>1. at \in DOMAIN txs /\ at \in 1 .. Len(txs')
        BY <1>1, <1>2
      <3>2. txs'[at] = txs[at]
        BY <1>2, <3>1
      <3> QED
        BY <2>2, <3>1, <3>2
    <2>4. coin \notin Unspent(Len(txs))'
      BY <2>3 DEF Unspent
    <2> QED
      BY <2>4
  <1> QED
    BY <1>2, <1>3, <1>6, <1>7, <1>8 DEF KeepsCoins

-----------------------------------------------------------------------------
(* Steps that leave the prepared transaction alone *)

\* Where a draft is that pays out more than its coins hold
Unsent == {"confirm", "sign", "hung", "failed"}

\* It is not on the node.
LEMMA Unheld == (LedgerInv /\ ~(Paid(draft) >= 0) => ~Contains(txs, draft))'
  <1>1. LedgerInv /\ ~(Paid(draft) >= 0) => ~Contains(txs, draft)
    <2>1. LedgerInv => DOMAIN txs = 1 .. Len(txs)
      BY LenProperties DEF LedgerInv
    <2> QED
      BY <2>1 DEF LedgerInv, Contains
  <1> QED
    BY <1>1, PTL

LEMMA DraftKept ==
    ASSUME DraftInv, DraftBalanced, FeeAsShown, RevealInv, LedgerInv', KeepsCoins,
           draft' = draft, request' = request,
           draft # NoDraft => phase' \in Unsent \/ Paid(draft) >= 0
    PROVE  DraftInv' /\ DraftBalanced' /\ FeeAsShown' /\ RevealInv'
  <1>1. CASE draft = NoDraft
    BY <1>1 DEF DraftInv, DraftBalanced, FeeAsShown, RevealInv, CoveredReveal, NoDraft
  <1>2. CASE draft # NoDraft
    <2>1. draft.inputs \in SUBSET Coins(Len(txs))
      BY <1>2 DEF DraftInv
    <2>2. InputValue(draft.inputs)' = InputValue(draft.inputs)
      BY <2>1 DEF KeepsCoins
    <2>3. Paid(draft)' = Paid(draft)
      BY <2>2 DEF Paid
    <2>4. draft.inputs \in SUBSET Coins(Len(txs))'
      BY <2>1 DEF KeepsCoins
    <2>5. DraftInv'
      BY <1>2, <2>4 DEF DraftInv
    <2>6. DraftBalanced'
      <3>1. CASE Paid(draft) >= 0
        BY <2>3, <3>1 DEF DraftBalanced
      <3>2. CASE ~(Paid(draft) >= 0)
        <4>1. draft.step \in {"single", "reveal"} /\ Overflows(request)
          BY <1>2, <3>2 DEF DraftBalanced
        <4>2. Overflows(request)'
          BY <4>1 DEF Overflows
        <4>3. ~Contains(txs, draft)'
          BY <2>3, <3>2, Unheld
        <4> QED
          BY <1>2, <3>2, <4>1, <4>2, <4>3 DEF DraftBalanced, Unsent
      <3> QED
        BY <3>1, <3>2
    <2>7. FeeAsShown'
      BY <1>2, <2>3 DEF FeeAsShown
    <2>8. RevealInv'
      <3>1. ExtractTx(draft)' <=> ExtractTx(draft)
        BY <2>3 DEF ExtractTx
      <3>2. CoveredReveal' <=> CoveredReveal
        BY DEF CoveredReveal, RevealAmount
      <3>3. SUFFICES ASSUME CoveredReveal'
                     PROVE  (/\ draft.inputs # {}
                             /\ ExtractTx(draft)
                             /\ Paid(draft) >= draft.fee
                             /\ \A i \in DOMAIN draft.outputs :
                                    draft.outputs[i].owner = "runestone" \/ draft.outputs[i].value >= 330)'
        BY DEF RevealInv
      <3>4. /\ draft.inputs # {}
            /\ ExtractTx(draft)
            /\ Paid(draft) >= draft.fee
            /\ \A i \in DOMAIN draft.outputs :
                    draft.outputs[i].owner = "runestone" \/ draft.outputs[i].value >= 330
        BY <3>2, <3>3 DEF RevealInv
      <3> QED
        BY <2>3, <3>1, <3>4
    <2> QED
      BY <2>5, <2>6, <2>7, <2>8
  <1> QED
    BY <1>1, <1>2

\* A step of the execution, or of another process, that prepares nothing
LEMMA Moves ==
    ASSUME ExecuteInv, LedgerInv', KeepsCoins, draft' = draft, request' = request,
           phase' \in {"execute", "send"} => phase' = phase,
           phase' \in {"confirm", "sign", "broadcast"} => draft # NoDraft,
           draft # NoDraft => phase' \in Unsent \/ Paid(draft) >= 0,
           phase' = "reveal" => draft.step = "commit",
           phase' \in {"reveal", "sync"} /\ draft.step = "commit" =>
                \E at \in DOMAIN txs' : txs'[at] = draft,
           cause' = "short" =>
                phase' = "failed" /\ draft.step = "commit" /\ RevealAmount(request) >= AmountSpan,
           phase' = "failed" /\ CoveredReveal =>
                /\ cause' # "fee"
                /\ cause' = "rejected" => ~FeeSuffices \/ ~(draft.inputs \subseteq Unspent(Len(txs)))'
    PROVE  ExecuteInv'
  <1>1. DraftInv' /\ DraftBalanced' /\ FeeAsShown' /\ RevealInv'
    BY DraftKept DEF ExecuteInv
  <1>2. RequestInv'
    BY DEF ExecuteInv, RequestInv
  <1>3. CommitInv'
    <2>1. RequiredRevealAmount(request)' = RequiredRevealAmount(request)
      BY DEF RequiredRevealAmount, RevealAmount, Wrap
    <2> QED
      BY <2>1 DEF ExecuteInv, CommitInv
  <1>4. FailureInv'
    <2>1. /\ CoveredReveal' <=> CoveredReveal
          /\ RevealAmount(request)' = RevealAmount(request)
      BY DEF CoveredReveal, RevealAmount
    <2>2. FeeSuffices' <=> FeeSuffices
      BY DEF FeeSuffices, SignedWeight
    <2> QED
      BY <2>1, <2>2 DEF FailureInv
  <1> QED
    BY <1>1, <1>2, <1>3, <1>4 DEF ExecuteInv

-----------------------------------------------------------------------------
(* Steps that prepare a transaction *)

Overwritten(p) ==
    \E i \in DOMAIN p.stones :
        LET t == p.stones[i].transfer
        IN  t # << >> /\ t[1] = "out" /\ (t[2] >= p.to \/ t[3] = 0)

\* What the properties ask of it
ShownFee(step, tx) ==
    \/ step = "send" /\ Left(tx) <= tx.fee + DUST_LIMIT
    \/ step = "commit" /\ Left(tx) = tx.fee
    \/ /\ step \in {"single", "reveal"}
       /\ \/ ~request.change
          \/ Overwritten(request)
          \/ Left(tx) <= tx.fee /\ tx.fee <= MAX_FEE_SATS

Relayable(tx) ==
    /\ tx.inputs # {}
    /\ Left(tx) >= 0 /\ Left(tx) >= tx.fee
    /\ Left(tx) <= 25000 * BaseSize(Cardinality(tx.inputs), Len(tx.outputs))
    /\ \A i \in DOMAIN tx.outputs : tx.outputs[i].owner = "runestone" \/ tx.outputs[i].value >= 330

LEMMA Prepared ==
    ASSUME ExecuteInv, phase # "failed",
           NEW step \in ExecutionSteps \union {"send"}, NEW next \in {"sign", "confirm"},
           NEW tx, Prepare(step, tx, next),
           tx.inputs \in SUBSET Coins(Len(txs)), tx.outputs \in Seq(Outs), tx.fee \in Nat,
           step \in ExecutionSteps => IsExecution(request),
           \/ Left(tx) >= 0
           \/ step \in {"single", "reveal"} /\ Overflows(request) /\ next = "confirm",
           Left(tx) \in Int,
           ShownFee(step, tx),
           step = "commit" =>
                tx.outputs # << >> /\ tx.outputs[1].value = RequiredRevealAmount(request),
           step = "reveal" /\ tx.fee <= EstimatedRevealFee /\ RevealAmount(request) < AmountSpan =>
                Relayable(tx)
    PROVE  ExecuteInv'
  <1>1. LedgerInv' /\ KeepsCoins
    BY LedgerGrows DEF ExecuteInv, LedgerInv, Prepare
  <1>2. /\ draft'.step = step /\ draft'.inputs = tx.inputs /\ draft'.outputs = tx.outputs
        /\ draft'.fee = tx.fee
        /\ phase' = next /\ request' = request /\ cause' = cause
    BY DEF Prepare
  <1>3. draft' # NoDraft
    BY <1>2 DEF NoDraft, ExecutionSteps
  <1>4. Paid(draft)' = Left(tx)
    <2>1. \A coins \in SUBSET Coins(Len(txs)) : InputValue(coins)' = InputValue(coins)
      BY <1>1 DEF KeepsCoins
    <2>2. InputValue(draft.inputs)' = InputValue(tx.inputs)
      BY <1>2, <2>1
    <2> QED
      BY <1>2, <2>2 DEF Paid, Left
  <1>5. RequestInv'
    BY <1>2, <1>3 DEF RequestInv, ExecutionSteps
  <1>6. DraftInv'
    <2>1. Coins(Len(txs)) \subseteq Coins(Len(txs))' /\ IsFiniteSet(tx.inputs)
      BY <1>1, InputTyped DEF KeepsCoins, ExecuteInv
    <2> QED
      BY <1>2, <2>1 DEF DraftInv
  <1>7. CommitInv'
    <2>1. RequiredRevealAmount(request)' = RequiredRevealAmount(request)
      BY <1>2 DEF RequiredRevealAmount, RevealAmount, Wrap
    <2> QED
      BY <1>2, <2>1 DEF CommitInv
  <1>8. DraftBalanced'
    <2>1. CASE Left(tx) >= 0
      BY <1>4, <2>1 DEF DraftBalanced
    <2>2. CASE ~(Left(tx) >= 0)
      <3>1. Overflows(request)'
        BY <1>2, <2>2 DEF Overflows
      <3>2. ~Contains(txs, draft)'
        BY <1>1, <1>4, <2>2, Unheld
      <3> QED
        BY <1>2, <2>2, <3>1, <3>2 DEF DraftBalanced
    <2> QED
      BY <2>1, <2>2
  <1>9. FeeAsShown'
    <2>1. ShownFee(step, tx) => FeeAsShown'
      BY <1>2, <1>3, <1>4 DEF ShownFee, FeeAsShown, Overwritten
    <2> QED
      BY <2>1
  <1>10. RevealInv'
    <2>1. CoveredReveal' =>
            step = "reveal" /\ tx.fee <= EstimatedRevealFee /\ RevealAmount(request) < AmountSpan
      BY <1>2 DEF CoveredReveal, RevealAmount
    <2>2. ASSUME Relayable(tx)
          PROVE  (/\ draft.inputs # {} /\ ExtractTx(draft) /\ Paid(draft) >= draft.fee
                  /\ \A i \in DOMAIN draft.outputs :
                        draft.outputs[i].owner = "runestone" \/ draft.outputs[i].value >= 330)'
      <3>1. ExtractTx(draft)'
        BY <1>2, <1>4, <2>2 DEF ExtractTx, Relayable
      <3> QED
        BY <1>2, <1>4, <2>2, <3>1 DEF Relayable
    <2> QED
      BY <2>1, <2>2 DEF RevealInv
  <1>11. FailureInv'
    BY <1>2 DEF ExecuteInv, FailureInv
  <1> QED
    BY <1>1, <1>5, <1>6, <1>7, <1>8, <1>9, <1>10, <1>11 DEF ExecuteInv

\* A request that fails, for its arguments, the wallet or the user
LEMMA Failed ==
    ASSUME ExecuteInv, NEW why, Fail(why), why \notin {"short", "fee", "rejected"}
    PROVE  ExecuteInv'
  <1>1. LedgerInv' /\ KeepsCoins
    BY LedgerGrows DEF ExecuteInv, LedgerInv, Fail
  <1> QED
    BY <1>1, Moves DEF Fail, Unsent

\* With a change output no more than the fee is left. It pays out more than its coins
\* hold only if they were selected for a sum that wrapped around.
LEMMA BuiltFee ==
    ASSUME LedgerInv, NEW coins \in SUBSET Coins(Len(txs)), NEW outputs \in Seq(Outs), NEW tx,
           NEW rate \in Nat, NEW envelope \in BOOLEAN,
           IsBuilt(tx, coins, outputs, rate, envelope)
    PROVE  /\ Left(tx) \in Int /\ tx.fee <= MAX_FEE_SATS
           /\ HasZero(outputs) => Left(tx) <= tx.fee
           /\ Values(outputs) < AmountSpan /\ Values(outputs) <= InputValue(coins) =>
                /\ Left(tx) >= 0
                /\ Values(outputs) + tx.fee <= InputValue(coins) =>
                        Left(tx) = IF HasZero(outputs) THEN tx.fee ELSE InputValue(coins) - Values(outputs)
  <1> DEFINE size   == VSize(Cardinality(coins), Len(outputs) + 1, envelope)
             i      == InputValue(coins)
             v      == Values(outputs)
             w      == Wrap(Values(outputs))
             f      == tx.fee
             rest   == i - w - f
             change == IF rest > 0 THEN rest ELSE 0
  <1>1. /\ tx.inputs = coins /\ f \in Nat
        /\ f = IF rate * size < MAX_FEE_SATS THEN rate * size ELSE MAX_FEE_SATS
        /\ Values(tx.outputs) = v + IF HasZero(outputs) THEN change ELSE 0
    BY DEF IsBuilt
  <1>2. i \in Nat /\ v \in Nat /\ w \in Nat /\ w <= v /\ (v < AmountSpan => w = v)
    BY InputTyped, ValuesTyped, Wrapped
  <1>3. size \in Nat
    <2>1. Cardinality(coins) \in Nat /\ Len(outputs) + 1 \in Nat
      BY InputTyped, LenProperties, FS_CardinalityType
    <2> QED
      BY <2>1, SizeTyped
  <1>4. rate * size \in Nat
    <2> HIDE DEF size
    <2> QED
      BY <1>3
  <1> HIDE DEF size
  <1>5. f <= MAX_FEE_SATS
    BY <1>1, <1>4 DEF MAX_FEE_SATS
  <1>6. Left(tx) = i - Values(tx.outputs)
    BY <1>1 DEF Left
  <1>7. CASE HasZero(outputs)
    <2>1. Values(tx.outputs) = v + change
      BY <1>1, <1>7
    <2> HIDE DEF i, v, w, f
    <2>2. CASE rest > 0
      <3>1. Left(tx) = i - (v + (i - w - f))
        BY <1>6, <2>1, <2>2
      <3> QED
        BY <1>1, <1>2, <1>5, <1>7, <2>2, <3>1 DEF i, v, f
    <2>3. CASE ~(rest > 0)
      <3>1. Left(tx) = i - v
        BY <1>2, <1>6, <2>1, <2>3
      <3> QED
        BY <1>1, <1>2, <1>5, <1>7, <2>3, <3>1 DEF i, v, f
    <2> QED
      BY <2>2, <2>3
  <1>8. CASE ~HasZero(outputs)
    <2>1. Values(tx.outputs) = v
      BY <1>1, <1>2, <1>8
    <2> QED
      BY <1>2, <1>5, <1>6, <1>8, <2>1
  <1> QED
    BY <1>7, <1>8

LEMMA SingleBuilt == ExecuteInv /\ BuildSingle => ExecuteInv'
  <1> SUFFICES ASSUME ExecuteInv, BuildSingle PROVE ExecuteInv'
    OBVIOUS
  <1> DEFINE outputs == Transferred(create_outputs(request), request.stones)
  <1>1. IsExecution(request) /\ LedgerInv
    BY DEF ExecuteInv, RequestInv, BuildSingle
  <1>2. CASE \E why \in {"protostones", "outputs", "funds", "locked"} : Fail(why)
    BY <1>2, Failed
  <1>3. ASSUME CanCreateOutputs(request),
               NEW coins \in select_utxos(BitcoinNeeded(request)),
               Prepare("single",
                       build_psbt_and_fee(coins, outputs, request.stones, request.rate, FALSE), "confirm")
        PROVE  ExecuteInv'
    <2> DEFINE made == create_outputs(request)
               tx == build_psbt_and_fee(coins, outputs, request.stones, request.rate, FALSE)
    <2>1. /\ request.rate \in Nat /\ request.change \in BOOLEAN /\ request.to \in Nat
          /\ KnownTransfers(request.stones)
      BY <1>1 DEF IsExecution
    <2>2. /\ made \in Seq(Outs)
          /\ DOMAIN made = 1 .. request.to + (IF request.change THEN 1 ELSE 0)
          /\ request.change => made[request.to + 1].value = 0
      BY <1>1, <1>3, CreatedOutputs
    <2>3. /\ outputs \in Seq(Outs) /\ DOMAIN outputs = DOMAIN made
          /\ \A i \in DOMAIN made :
                \/ \E k \in DOMAIN request.stones :
                        /\ request.stones[k].transfer # << >> /\ request.stones[k].transfer[1] = "out"
                        /\ request.stones[k].transfer[2] + 1 = i
                \/ outputs[i] = made[i]
      <3> HIDE DEF made
      <3> QED
        BY <2>1, <2>2, TransferredOutputs DEF made
    <2>4. /\ BitcoinNeeded(request) = Wrap(Values(outputs))
          /\ Values(outputs) >= AmountSpan => Overflows(request)
      BY DEF BitcoinNeeded, Overflows
    <2> HIDE DEF outputs, made
    <2>5. Values(outputs) \in Nat /\ Len(outputs) \in Nat /\ DOMAIN outputs = 1 .. Len(outputs)
      BY <2>3, ValuesTyped, LenProperties
    <2>6. /\ coins \in SUBSET Coins(Len(txs))
          /\ InputValue(coins) \in Nat /\ Wrap(Values(outputs)) <= InputValue(coins)
          /\ Values(outputs) < AmountSpan => Wrap(Values(outputs)) = Values(outputs)
      BY <1>1, <1>3, <2>4, <2>5, Selected, Wrapped
    <2>7. IsBuilt(tx, coins, outputs, request.rate, FALSE)
      BY <1>1, <2>1, <2>3, <2>6, Built
    <2> HIDE DEF tx
    <2>8. /\ Left(tx) \in Int /\ tx.fee <= MAX_FEE_SATS /\ (HasZero(outputs) => Left(tx) <= tx.fee)
          /\ Left(tx) >= 0 \/ Overflows(request)
      <3>1. Values(outputs) >= AmountSpan \/ Values(outputs) < AmountSpan
        BY <2>5, SpanAssumption
      <3> QED
        BY <1>1, <2>1, <2>3, <2>4, <2>6, <2>7, <3>1, BuiltFee
    <2>9. tx.inputs = coins /\ tx.outputs \in Seq(Outs) /\ tx.fee \in Nat
      BY <2>7 DEF IsBuilt
    <2>10. ShownFee("single", tx)
      <3>1. SUFFICES ASSUME request.change, ~Overwritten(request) PROVE Left(tx) <= tx.fee
        BY <2>8 DEF ShownFee
      <3> DEFINE last == request.to + 1
      <3>2. last \in DOMAIN made
        BY <2>1, <2>2, <3>1
      <3>3. \A k \in DOMAIN request.stones :
                request.stones[k].transfer # << >> /\ request.stones[k].transfer[1] = "out" =>
                    /\ request.stones[k].transfer[2] \in Nat
                    /\ ~(request.stones[k].transfer[2] >= request.to)
        BY <2>1, <3>1 DEF Overwritten, KnownTransfers, IsTransfer
      <3>4. \A k \in DOMAIN request.stones :
                request.stones[k].transfer # << >> /\ request.stones[k].transfer[1] = "out" =>
                    request.stones[k].transfer[2] + 1 # last
        BY <2>1, <3>3
      <3>5. outputs[last] = made[last]
        BY <2>3, <3>2, <3>4
      <3>6. outputs[last].value = 0 /\ last \in 1 .. Len(outputs)
        BY <2>2, <2>3, <2>5, <3>1, <3>2, <3>5
      <3> QED
        BY <2>8, <3>6 DEF HasZero
    <2>11. Prepare("single", tx, "confirm") /\ "single" \in ExecutionSteps
      BY <1>3 DEF tx, outputs, ExecutionSteps
    <2>12. phase # "failed"
      BY DEF BuildSingle
    <2> QED
      BY <1>1, <2>6, <2>8, <2>9, <2>10, <2>11, <2>12, Prepared
  <1>4. \/ \E why \in {"protostones", "outputs", "funds", "locked"} : Fail(why)
        \/ CanCreateOutputs(request) /\ \E coins \in select_utxos(BitcoinNeeded(request)) :
                Prepare("single",
                        build_psbt_and_fee(coins, outputs, request.stones, request.rate, FALSE), "confirm")
    BY DEF BuildSingle
  <1> QED
    BY <1>2, <1>3, <1>4

LEMMA OutputTyped ==
    ASSUME NEW value \in Nat, NEW owner \in {"wallet", "other", "commit", "runestone"}
    PROVE  Output(value, owner) \in Outs /\ Output(value, owner).value = value
  BY DEF Output, Outs

LEMMA ValuesOne ==
    ASSUME NEW o \in Outs
    PROVE  <<o>> \in Seq(Outs) /\ Values(<<o>>) = o.value
  <1>1. << >> \in Seq(Outs) /\ Append(<< >>, o) = <<o>>
    <2>1. << >> \in Seq(Outs)
      BY EmptySeq
    <2>2. Append(<< >>, o) = << >> \o <<o>>
      BY <2>1, AppendIsConcat
    <2>3. <<o>> \in Seq(Outs)
      OBVIOUS
    <2> QED
      BY <2>1, <2>2, <2>3, ConcatEmptySeq
  <1>2. <<o>> \in Seq(Outs) /\ Values(<<o>>) = Values(<< >>) + o.value
    BY <1>1, ValuesAppend
  <1>3. o.value \in Nat
    BY DEF Outs
  <1> QED
    BY <1>2, <1>3, ValuesNone

LEMMA PairIs ==
    ASSUME NEW S, NEW a \in S, NEW b \in S
    PROVE  <<a>> \o <<b>> = <<a, b>> /\ Append(<<a>>, b) = <<a, b>>
  <1>1. <<a>> \in Seq(S) /\ <<b>> \in Seq(S) /\ <<a, b>> \in Seq(S)
        /\ Len(<<a>>) = 1 /\ Len(<<b>>) = 1 /\ Len(<<a, b>>) = 2
        /\ <<a>>[1] = a /\ <<b>>[1] = b /\ <<a, b>>[1] = a /\ <<a, b>>[2] = b
    OBVIOUS
  <1> DEFINE s == <<a>>
             t == <<b>>
             both == <<a, b>>
  <1> HIDE DEF s, t, both
  <1>2. s \in Seq(S) /\ t \in Seq(S) /\ both \in Seq(S) /\ Len(s) = 1 /\ Len(t) = 1 /\ Len(both) = 2
        /\ s[1] = a /\ t[1] = b /\ both[1] = a /\ both[2] = b
    BY <1>1 DEF s, t, both
  <1>3. s \o t \in Seq(S) /\ Len(s \o t) = 2
        /\ \A i \in 1 .. Len(s) + Len(t) : (s \o t)[i] = IF i <= Len(s) THEN s[i] ELSE t[i - Len(s)]
    BY <1>2, ConcatProperties
  <1>4. (s \o t)[1] = a /\ (s \o t)[2] = b
    <2>1. 1 \in 1 .. Len(s) + Len(t) /\ 2 \in 1 .. Len(s) + Len(t) /\ 1 <= Len(s) /\ ~(2 <= Len(s))
          /\ 2 - Len(s) = 1
      BY <1>2
    <2>2. (s \o t)[1] = s[1] /\ (s \o t)[2] = t[2 - Len(s)]
      BY <1>3, <2>1
    <2> QED
      BY <1>2, <2>1, <2>2
  <1>5. \A i \in 1 .. Len(s \o t) : (s \o t)[i] = both[i]
    <2>1. \A i \in 1 .. Len(s \o t) : i = 1 \/ i = 2
      BY <1>3
    <2> QED
      BY <1>2, <1>4, <2>1
  <1>6. s \o t = both
    BY <1>2, <1>3, <1>5, SeqEqual
  <1>7. Append(s, b) = s \o <<b>>
    BY <1>2, AppendIsConcat
  <1> QED
    BY <1>6, <1>7 DEF s, t, both

LEMMA ValuesTwo ==
    ASSUME NEW o \in Outs, NEW o2 \in Outs
    PROVE  <<o, o2>> \in Seq(Outs) /\ Values(<<o, o2>>) = o.value + o2.value
  <1>1. <<o>> \in Seq(Outs) /\ Values(<<o>>) = o.value
    BY ValuesOne
  <1>2. Append(<<o>>, o2) = <<o, o2>>
    BY PairIs
  <1>3. Append(<<o>>, o2) \in Seq(Outs) /\ Values(Append(<<o>>, o2)) = Values(<<o>>) + o2.value
    BY <1>1, ValuesAppend
  <1> QED
    BY <1>1, <1>2, <1>3

LEMMA CommitBuilt == ExecuteInv /\ BuildCommit => ExecuteInv'
  <1> SUFFICES ASSUME ExecuteInv, BuildCommit PROVE ExecuteInv'
    OBVIOUS
  <1> DEFINE amount == RequiredRevealAmount(request)
  <1>1. IsExecution(request) /\ LedgerInv
    BY DEF ExecuteInv, RequestInv, BuildCommit
  <1>2. amount \in Nat /\ request.rate \in Nat
    <2>1. request.rate \in Nat
      BY <1>1 DEF IsExecution
    <2> QED
      BY <1>1, <2>1, RevealAmountTyped
  <1>3. CASE \E why \in {"funds", "locked"} : Fail(why)
    BY <1>3, Failed
  <1>4. ASSUME NEW coins \in select_utxos(amount),
               LET tx == build_commit_psbt(coins, amount, request.rate)
               IN  tx.outputs[2].value >= DUST_LIMIT /\ Prepare("commit", tx, "sign")
        PROVE  ExecuteInv'
    <2> DEFINE size == VSize(Cardinality(coins), 2, FALSE)
               fee == request.rate * size
               change == Sub(Sub(InputValue(coins), amount), fee)
               tx == build_commit_psbt(coins, amount, request.rate)
               first == Output(amount, "commit")
               second == Output(change, "wallet")
    <2>1. coins \in SUBSET Coins(Len(txs)) /\ InputValue(coins) \in Nat /\ InputValue(coins) >= amount
      <3> HIDE DEF amount
      <3> QED
        BY <1>1, <1>2, <1>4, Selected
    <2>2. size \in Nat
      <3>1. Cardinality(coins) \in Nat /\ 2 \in Nat
        BY <1>1, <2>1, InputTyped, FS_CardinalityType
      <3> QED
        BY <3>1, SizeTyped
    <2>3. tx.inputs = coins /\ tx.outputs = <<first, second>> /\ tx.fee = fee
      BY DEF build_commit_psbt
    <2>4. Prepare("commit", tx, "sign") /\ tx.outputs[2].value >= DUST_LIMIT
      BY <1>4
    <2> HIDE DEF size, tx
    <2>5. fee \in Nat
      BY <1>2, <2>2
    <2> HIDE DEF fee, amount
    <2>6. change \in Nat
      BY <1>2, <2>1, <2>5 DEF Sub
    <2>7. first \in Outs /\ first.value = amount /\ second \in Outs /\ second.value = change
      BY <1>2, <2>6, OutputTyped
    <2> HIDE DEF first, second
    <2>8. tx.outputs \in Seq(Outs) /\ Values(tx.outputs) = amount + change
      BY <2>3, <2>7, ValuesTwo
    <2>9. change >= DUST_LIMIT
      BY <2>3, <2>4, <2>7
    <2>10. change = InputValue(coins) - amount - fee
      BY <1>2, <2>1, <2>5, <2>9 DEF Sub, DUST_LIMIT
    <2> HIDE DEF change
    <2>11. Left(tx) = tx.fee /\ tx.fee \in Nat
      BY <1>2, <2>1, <2>3, <2>5, <2>6, <2>8, <2>10 DEF Left
    <2>12. tx.outputs # << >> /\ tx.outputs[1].value = RequiredRevealAmount(request)
      BY <2>3, <2>7 DEF amount
    <2>13. ShownFee("commit", tx) /\ Left(tx) >= 0 /\ "commit" \in ExecutionSteps /\ phase # "failed"
      BY <2>11 DEF ShownFee, ExecutionSteps, BuildCommit
    <2>14. tx.inputs \in SUBSET Coins(Len(txs))
      BY <2>1, <2>3
    <2> QED
      BY <1>1, <2>4, <2>8, <2>11, <2>12, <2>13, <2>14, Prepared
  <1>5. \/ \E why \in {"funds", "locked"} : Fail(why)
        \/ \E coins \in select_utxos(amount) :
                LET tx == build_commit_psbt(coins, amount, request.rate)
                IN  tx.outputs[2].value >= DUST_LIMIT /\ Prepare("commit", tx, "sign")
    BY DEF BuildCommit
  <1> QED
    BY <1>3, <1>4, <1>5

LEMMA SendBuilt == ExecuteInv /\ BuildSend => ExecuteInv'
  <1> SUFFICES ASSUME ExecuteInv, BuildSend PROVE ExecuteInv'
    OBVIOUS
  <1>1. request.amount \in Nat /\ request.rate \in Nat /\ LedgerInv
    BY DEF ExecuteInv, RequestInv, BuildSend
  <1>2. CASE Fail("funds")
    BY <1>2, Failed
  <1>3. ASSUME NEW coins \in select_coins(request.amount),
               Prepare("send", create_transaction(coins, request), "sign")
        PROVE  ExecuteInv'
    <2> DEFINE amount == request.amount
               size == estimate_tx_vsize(Cardinality(coins), 2)
               fee == request.rate * size
               change == InputValue(coins) - amount - fee
               first == Output(amount, "other")
               second == Output(change, "wallet")
               tx == create_transaction(coins, request)
    <2>1. coins \in SUBSET Coins(Len(txs)) /\ InputValue(coins) \in Nat /\ InputValue(coins) >= amount
      BY <1>1, <1>3, Selected DEF select_coins
    <2>2. size \in Nat
      <3>1. Cardinality(coins) \in Nat
        BY <1>1, <2>1, InputTyped, FS_CardinalityType
      <3> QED
        BY <3>1 DEF estimate_tx_vsize
    <2>3. /\ tx.inputs = coins /\ tx.fee = fee
          /\ tx.outputs = <<first>> \o IF change > DUST_LIMIT THEN <<second>> ELSE << >>
      BY DEF create_transaction
    <2> HIDE DEF size, tx
    <2>4. fee \in Nat /\ amount \in Nat
      BY <1>1, <2>2
    <2> HIDE DEF fee, amount
    <2>5. first \in Outs /\ first.value = amount
      BY <2>4, OutputTyped
    <2>6. /\ tx.outputs \in Seq(Outs)
          /\ change > DUST_LIMIT => Values(tx.outputs) = amount + change
          /\ ~(change > DUST_LIMIT) => Values(tx.outputs) = amount
      <3>1. CASE change > DUST_LIMIT
        <4>1. change \in Nat
          BY <2>1, <2>4, <3>1 DEF DUST_LIMIT
        <4>2. second \in Outs /\ second.value = change
          BY <4>1, OutputTyped
        <4> HIDE DEF first, second
        <4> HIDE DEF change
        <4>3. tx.outputs = <<first>> \o <<second>>
          BY <2>3, <3>1
        <4>4. tx.outputs = <<first, second>>
          BY <2>5, <4>2, <4>3, PairIs
        <4> QED
          BY <2>5, <3>1, <4>2, <4>4, ValuesTwo
      <3>2. CASE ~(change > DUST_LIMIT)
        <4> HIDE DEF first, second
        <4>1. tx.outputs = <<first>>
          BY <2>3, <2>5, <3>2, ValuesOne, ConcatEmptySeq
        <4> QED
          BY <2>5, <3>2, <4>1, ValuesOne
      <3> QED
        BY <3>1, <3>2
    <2>7. Left(tx) \in Int /\ Left(tx) >= 0 /\ Left(tx) <= tx.fee + DUST_LIMIT /\ tx.fee \in Nat
      <3>1. CASE change > DUST_LIMIT
        <4>1. Left(tx) = fee
          <5>1. change = InputValue(coins) - amount - fee
            OBVIOUS
          <5> HIDE DEF change
          <5>2. Values(tx.outputs) = amount + change
            BY <2>6, <3>1
          <5> QED
            BY <2>1, <2>3, <2>4, <5>1, <5>2 DEF Left
        <4> QED
          BY <2>3, <2>4, <4>1 DEF DUST_LIMIT
      <3>2. CASE ~(change > DUST_LIMIT)
        <4>1. Left(tx) = InputValue(coins) - amount
          BY <2>3, <2>6, <3>2 DEF Left
        <4>2. InputValue(coins) - amount >= 0 /\ InputValue(coins) - amount <= fee + 546
          BY <2>1, <2>4, <3>2 DEF DUST_LIMIT
        <4> DEFINE left == InputValue(coins) - amount
        <4>3. left \in Int /\ Left(tx) = left /\ left >= 0 /\ left <= fee + 546
          BY <2>1, <2>4, <4>1, <4>2
        <4> HIDE DEF left
        <4> QED
          BY <2>3, <2>4, <4>3 DEF DUST_LIMIT
      <3> QED
        BY <3>1, <3>2
    <2>8. ShownFee("send", tx) /\ "send" \notin ExecutionSteps /\ phase # "failed"
      BY <2>7 DEF ShownFee, ExecutionSteps, BuildSend
    <2>9. Prepare("send", tx, "sign") /\ tx.inputs \in SUBSET Coins(Len(txs))
      BY <1>3, <2>1, <2>3 DEF tx
    <2> QED
      BY <2>6, <2>7, <2>8, <2>9, Prepared
  <1>4. \/ Fail("funds")
        \/ \E coins \in select_coins(request.amount) :
                Prepare("send", create_transaction(coins, request), "sign")
    BY DEF BuildSend
  <1> QED
    BY <1>2, <1>3, <1>4

LEMMA InputNone == InputValue({}) = 0
  BY FS_EmptySet, InputSum, SumTurn

LEMMA InputOne ==
    ASSUME NEW coin, Value(coin) \in Nat
    PROVE  InputValue({coin}) = Value(coin)
  <1>1. IsFiniteSet({coin}) /\ Cardinality({coin}) = 1
    BY FS_Singleton
  <1>2. \A c \in {coin} : Amounts({coin})[c] = Value(coin)
    BY DEF Amounts
  <1>3. Value(coin) \in Int
    OBVIOUS
  <1>4. SumFunctionOnSet(Amounts({coin}), {coin}) = Cardinality({coin}) * Value(coin)
    BY <1>1, <1>2, <1>3, SumConstant
  <1>5. Cardinality({coin}) * Value(coin) = Value(coin)
    BY <1>1, <1>3
  <1> QED
    BY <1>1, <1>4, <1>5, InputSum

\* The amounts of a reveal: what the commit holds above the recipients' outputs
LEMMA Covered ==
    ASSUME NEW paid \in Nat, NEW out \in Nat, NEW to \in Nat, NEW n \in Nat, NEW fee \in Nat,
           to <= n, out + 50546 <= paid, paid <= out + 50546 + 547 * to, fee <= 50000
    PROVE  /\ out + fee <= paid /\ 546 <= paid - out - fee
           /\ fee <= 25000 * (94 + 43 * n)
           /\ fee <= paid - out /\ paid - out <= 25000 * (94 + 43 * n)
  OBVIOUS

\* A reveal spends the output of a commit that the node holds and, unless its amounts
\* overflow, needs no other coin.
LEMMA RevealCoins ==
    ASSUME ExecuteInv, phase = "reveal", NEW commit \in DOMAIN txs, txs[commit] = draft
    PROVE  LET needed == Wrap(request.to * DUST_LIMIT + request.bitcoin + EstimatedRevealFee)
           IN  /\ IsExecution(request) /\ LedgerInv
               /\ {<<commit, 1>>} \in SUBSET Coins(Len(txs))
               /\ Sub(needed, draft.outputs[1].value) \in Nat
               /\ RevealAmount(request) < AmountSpan =>
                    /\ InputValue({<<commit, 1>>}) = RevealAmount(request)
                    /\ select_utxos(Sub(needed, draft.outputs[1].value)) = {{}}
  <1> DEFINE sum    == request.to * DUST_LIMIT + request.bitcoin + EstimatedRevealFee
             needed == Wrap(sum)
             held   == draft.outputs[1].value
             coin   == <<commit, 1>>
  <1>1. /\ draft.step = "commit" /\ LedgerInv
        /\ draft.outputs # << >> /\ held = RequiredRevealAmount(request)
    BY DEF ExecuteInv, CommitInv
  <1>2. IsExecution(request)
    BY <1>1 DEF ExecuteInv, RequestInv, ExecutionSteps
  <1>3. /\ sum \in Nat /\ RevealAmount(request) = sum + 546
        /\ held \in Nat
        /\ RevealAmount(request) < AmountSpan => held = RevealAmount(request)
    <2>1. request.to \in Nat /\ request.bitcoin \in Nat
      BY <1>2 DEF IsExecution
    <2>2. /\ RequiredRevealAmount(request) \in Nat
          /\ RevealAmount(request) = 546 + request.bitcoin + 50000 + request.to * 546
          /\ RevealAmount(request) < AmountSpan => RequiredRevealAmount(request) = RevealAmount(request)
      BY <1>2, RevealAmountTyped
    <2>3. sum = request.to * 546 + request.bitcoin + 50000
      BY DEF DUST_LIMIT, EstimatedRevealFee
    <2>4. sum \in Nat /\ RevealAmount(request) = sum + 546
      <3> DEFINE x == request.to * 546
      <3>1. x \in Nat /\ sum = x + request.bitcoin + 50000
            /\ RevealAmount(request) = 546 + request.bitcoin + 50000 + x
        BY <2>1, <2>2, <2>3
      <3> HIDE DEF x, sum
      <3> QED
        BY <2>1, <3>1
    <2> HIDE DEF sum
    <2> QED
      BY <1>1, <2>2, <2>4
  <1> HIDE DEF sum, held
  <1>4. needed \in Nat /\ needed <= sum
    BY <1>3, Wrapped
  <1> HIDE DEF needed
  <1>5. /\ Sub(needed, held) \in Nat
        /\ RevealAmount(request) < AmountSpan => Sub(needed, held) = 0
    BY <1>3, <1>4 DEF Sub
  <1>6. Len(txs) \in Nat /\ DOMAIN txs = 1 .. Len(txs)
    BY <1>1, LenProperties DEF LedgerInv
  <1>7. OutputsOf(commit) = draft.outputs
    BY <1>6 DEF OutputsOf
  <1>8. 1 \in DOMAIN draft.outputs
    <2>1. draft.outputs \in Seq(Outs)
      BY <1>1 DEF LedgerInv
    <2> QED
      BY <1>1, <2>1, EmptySeq, LenProperties
  <1>9. commit \in 0 .. Len(txs)
    BY <1>6
  <1>10. coin \in Coins(Len(txs))
    BY <1>7, <1>8, <1>9 DEF Coins
  <1>11. Value(coin) = held
    BY <1>1, <1>7 DEF Value, held
  <1>12. InputValue({coin}) = held
    <2>1. Value(coin) \in Nat
      BY <1>3, <1>11
    <2> HIDE DEF coin
    <2> QED
      BY <1>11, <2>1, InputOne
  <1>13. select_utxos(0) = {{}}
    <2>1. {} \in select_utxos(0)
      BY InputNone DEF select_utxos
    <2>2. \A coins \in select_utxos(0) : coins = {}
      BY <1>1, Selected
    <2> QED
      BY <2>1, <2>2
  <1> QED
    BY <1>1, <1>2, <1>3, <1>5, <1>10, <1>12, <1>13 DEF needed, held, sum

\* A reveal of amounts that fit, from the commit output alone, is one that pays its
\* fee and that extract_tx accepts.
LEMMA RevealRelayable ==
    ASSUME LedgerInv, IsExecution(request), CanCreateOutputs(request),
           RevealAmount(request) < AmountSpan,
           NEW coins \in SUBSET Coins(Len(txs)), Cardinality(coins) = 1,
           InputValue(coins) = RevealAmount(request),
           NEW tx, IsBuilt(tx, coins, create_outputs(request), request.rate, TRUE)
    PROVE  /\ Left(tx) >= 0
           /\ tx.fee <= EstimatedRevealFee => Relayable(tx)
  <1> DEFINE outputs == create_outputs(request)
             n    == Len(outputs)
             paid == InputValue(coins)
             out  == Values(outputs)
             fee  == tx.fee
  <1>1. /\ request.rate \in Nat /\ request.change \in BOOLEAN /\ request.to \in Nat
        /\ request.bitcoin \in Nat
    BY DEF IsExecution
  <1>2. /\ outputs \in Seq(Outs)
        /\ DOMAIN outputs = 1 .. request.to + (IF request.change THEN 1 ELSE 0)
        /\ n = request.to + (IF request.change THEN 1 ELSE 0)
        /\ \A i \in 1 .. request.to : outputs[i].value >= DUST_LIMIT
        /\ request.change => outputs[request.to + 1].value = 0
        /\ out <= request.bitcoin + request.to * DUST_LIMIT
        /\ request.bitcoin <= out + request.to
    BY RevealAmountTyped, CreatedOutputs
  <1>3. /\ IsBuilt(tx, coins, outputs, request.rate, TRUE)
        /\ tx.inputs = coins /\ tx.outputs \in Seq(Outs) /\ fee \in Nat
    BY DEF IsBuilt
  <1> HIDE DEF outputs
  <1>4. out \in Nat /\ n \in Nat
    BY <1>2, ValuesTyped, LenProperties
  <1>5. /\ paid \in Nat /\ out + 50546 <= paid /\ paid <= out + 50546 + 547 * request.to
        /\ out < AmountSpan /\ request.to <= n
    <2> DEFINE b == request.bitcoin
               t == request.to
               span == AmountSpan
    <2>1. /\ out \in Nat /\ b \in Nat /\ t \in Nat /\ span \in Nat
          /\ out <= b + t * 546 /\ b <= out + t
          /\ paid = 546 + b + 50000 + t * 546 /\ paid < span
      BY <1>1, <1>2, <1>4, RevealAmountTyped, SpanAssumption DEF DUST_LIMIT
    <2> HIDE DEF out, b, t, paid, span
    <2>2. paid \in Nat /\ out + 50546 <= paid /\ paid <= out + 50546 + 547 * t /\ out < span
      BY <2>1
    <2> QED
      BY <1>1, <1>2, <2>2 DEF t, span
  <1>6. /\ Left(tx) >= 0
        /\ out + fee <= paid => Left(tx) = IF HasZero(outputs) THEN fee ELSE paid - out
    <2>1. out < AmountSpan /\ out <= paid
      BY <1>4, <1>5
    <2> QED
      BY <1>1, <1>2, <1>3, <2>1, BuiltFee
  <1>7. ASSUME fee <= EstimatedRevealFee
        PROVE  Relayable(tx)
    <2> DEFINE rest == InputValue(coins) - Wrap(Values(outputs)) - tx.fee
    <2> HIDE DEF n
    <2>1. BaseSize(Cardinality(tx.inputs), Len(tx.outputs)) = 94 + 43 * n
      <3>1. Len(tx.outputs) = n + 1
        BY <1>3 DEF IsBuilt, n
      <3> QED
        BY <1>3, <1>4, <3>1 DEF BaseSize
    <2>2. rest = paid - out - fee
      BY <1>4, <1>5, Wrapped
    <2> HIDE DEF rest, paid, out, fee
    <2>3. fee <= 50000
      BY <1>7 DEF EstimatedRevealFee
    <2>4. /\ out + fee <= paid /\ 546 <= paid - out - fee
          /\ fee <= 25000 * (94 + 43 * n)
          /\ fee <= paid - out /\ paid - out <= 25000 * (94 + 43 * n)
      BY <1>1, <1>3, <1>4, <1>5, <2>3, Covered
    <2>5. Left(tx) = fee \/ Left(tx) = paid - out
      BY <1>6, <2>4
    <2>6. Left(tx) >= 0 /\ Left(tx) >= fee /\ Left(tx) <= 25000 * (94 + 43 * n)
      BY <1>3, <1>4, <1>5, <2>4, <2>5
    <2>7. rest \in Int /\ rest >= 546 /\ rest > 0
      BY <1>3, <1>4, <1>5, <2>2, <2>4
    <2>8. \A k \in 1 .. n : outputs[k].value = 0 => k = request.to + 1
      <3> TAKE k \in 1 .. n
      <3>1. k \in 1 .. request.to \/ k = request.to + 1
        BY <1>1, <1>2 DEF n
      <3> QED
        BY <1>2, <3>1 DEF DUST_LIMIT
    <2>9. \A k \in 1 .. n : k # request.to + 1 => outputs[k].value >= 330
      <3> TAKE k \in 1 .. n
      <3>1. k # request.to + 1 => k \in 1 .. request.to
        BY <1>1, <1>2 DEF n
      <3>2. outputs[k] \in Outs
        BY <1>2, ValuesTyped, LenProperties DEF n
      <3> QED
        BY <1>2, <3>1, <3>2 DEF DUST_LIMIT, Outs
    <2>10. ~HasZero(outputs) => request.to + 1 \notin 1 .. n
      BY <1>1, <1>2 DEF HasZero, n
    <2>11. ASSUME NEW i \in 1 .. n
           PROVE  tx.outputs[i].value >= 330
      <3>1. CASE ~HasZero(outputs)
        <4>1. tx.outputs[i].value = outputs[i].value /\ i # request.to + 1
          BY <1>3, <2>10, <2>11, <3>1 DEF IsBuilt, n
        <4> QED
          BY <2>9, <2>11, <4>1
      <3>2. CASE HasZero(outputs)
        <4>1. PICK k \in 1 .. n :
                  /\ outputs[k].value = 0 /\ tx.outputs[k].value = IF rest > 0 THEN rest ELSE 0
                  /\ \A j \in 1 .. n : j # k => tx.outputs[j].value = outputs[j].value
          BY <1>3, <3>2 DEF IsBuilt, n, rest
        <4>2. CASE i = k
          BY <2>7, <4>1, <4>2
        <4>3. CASE i # k
          <5>1. i # request.to + 1 /\ tx.outputs[i].value = outputs[i].value
            BY <2>8, <4>1, <4>3
          <5> QED
            BY <2>9, <5>1
        <4> QED
          BY <4>2, <4>3
      <3> QED
        BY <3>1, <3>2
    <2>12. \A i \in DOMAIN tx.outputs : tx.outputs[i].owner = "runestone" \/ tx.outputs[i].value >= 330
      <3>1. DOMAIN tx.outputs = 1 .. n + 1
        BY <1>3, LenProperties DEF IsBuilt, n
      <3>2. tx.outputs[n + 1].owner = "runestone"
        BY <1>3 DEF IsBuilt, n
      <3>3. \A i \in 1 .. n + 1 : i \in 1 .. n \/ i = n + 1
        BY <1>4
      <3> QED
        BY <2>11, <3>1, <3>2, <3>3
    <2>13. tx.inputs # {}
      <3>1. Cardinality({}) = 0 /\ 0 # 1
        BY FS_EmptySet
      <3>2. coins # {}
        BY <3>1, Zenon
      <3> QED
        BY <1>3, <3>2
    <2> QED
      BY <2>1, <2>6, <2>12, <2>13 DEF Relayable, fee
  <1> QED
    BY <1>6, <1>7

LEMMA RevealBuilt == ExecuteInv /\ BuildReveal => ExecuteInv'
  <1> SUFFICES ASSUME ExecuteInv, BuildReveal PROVE ExecuteInv'
    OBVIOUS
  <1> DEFINE commit  == CHOOSE at \in DOMAIN txs : txs[at] = draft
             first   == {<<commit, 1>>}
             outputs == create_outputs(request)
             needed  == Wrap(request.to * DUST_LIMIT + request.bitcoin + EstimatedRevealFee)
             added   == select_utxos(Sub(needed, draft.outputs[1].value))
             Tx(coins) == build_psbt_and_fee(first \union coins, outputs, request.stones, request.rate, TRUE)
  <1>1. phase = "reveal" /\ draft.step = "commit"
    BY DEF BuildReveal, ExecuteInv, CommitInv
  <1>2. commit \in DOMAIN txs /\ txs[commit] = draft
    <2>1. \E at \in DOMAIN txs : txs[at] = draft
      BY <1>1 DEF ExecuteInv, CommitInv
    <2> QED
      BY <2>1
  <1>3. /\ \/ \E why \in {"protostones", "outputs", "unseen"} : Fail(why)
           \/ added = {} /\ Fail("short")
           \/ CanCreateOutputs(request) /\ \E coins \in added : Prepare("reveal", Tx(coins), "confirm")
    BY Zenon DEF BuildReveal
  <1> HIDE DEF commit
  <1>4. /\ IsExecution(request) /\ LedgerInv
        /\ first \in SUBSET Coins(Len(txs))
        /\ Sub(needed, draft.outputs[1].value) \in Nat
        /\ RevealAmount(request) < AmountSpan =>
                InputValue(first) = RevealAmount(request) /\ added = {{}}
    BY <1>1, <1>2, RevealCoins
  <1>5. Cardinality(first) = 1
    BY FS_Singleton
  <1>6. RevealAmount(request) < AmountSpan \/ RevealAmount(request) >= AmountSpan
    BY <1>4, RevealAmountTyped, SpanAssumption
  <1>7. \A coins \in added : coins \in SUBSET Coins(Len(txs))
    BY <1>4, Selected
  <1> HIDE DEF first, needed, added, Tx
  <1>8. CASE \E why \in {"protostones", "outputs", "unseen"} : Fail(why)
    BY <1>8, Failed
  <1>9. CASE added = {} /\ Fail("short")
    <2>1. LedgerInv' /\ KeepsCoins
      BY <1>9, LedgerGrows DEF ExecuteInv, LedgerInv, Fail
    <2>2. RevealAmount(request) >= AmountSpan
      BY <1>4, <1>6, <1>9
    <2>3. ~CoveredReveal
      BY <1>1 DEF CoveredReveal
    <2> QED
      BY <1>1, <1>9, <2>1, <2>2, <2>3, Moves DEF Fail, Unsent
  <1>10. ASSUME CanCreateOutputs(request), NEW coins \in added, Prepare("reveal", Tx(coins), "confirm")
         PROVE  ExecuteInv'
    <2> DEFINE tx  == Tx(coins)
               all == first \union coins
    <2>1. request.rate \in Nat /\ request.change \in BOOLEAN /\ request.to \in Nat
      BY <1>4 DEF IsExecution
    <2>2. /\ outputs \in Seq(Outs)
          /\ Len(outputs) = request.to + (IF request.change THEN 1 ELSE 0)
          /\ request.change => outputs[request.to + 1].value = 0
      BY <1>4, <1>10, CreatedOutputs
    <2>3. all \in SUBSET Coins(Len(txs))
      BY <1>4, <1>7
    <2>4. IsBuilt(tx, all, outputs, request.rate, TRUE)
      <3> HIDE DEF outputs, all
      <3> QED
        BY <1>4, <2>1, <2>2, <2>3, Built DEF Tx, all
    <2> HIDE DEF tx
    <2>5. tx.inputs = all /\ tx.outputs \in Seq(Outs) /\ tx.fee \in Nat
      BY <2>4 DEF IsBuilt
    <2>6. Left(tx) \in Int /\ tx.fee <= MAX_FEE_SATS /\ (HasZero(outputs) => Left(tx) <= tx.fee)
      <3> HIDE DEF outputs, all
      <3> QED
        BY <1>4, <2>1, <2>2, <2>3, <2>4, BuiltFee
    <2>7. ShownFee("reveal", tx)
      <3> HIDE DEF outputs
      <3>1. request.change => HasZero(outputs)
        BY <2>1, <2>2 DEF HasZero
      <3> QED
        BY <2>6, <3>1 DEF ShownFee
    <2>8. /\ RevealAmount(request) < AmountSpan =>
                Left(tx) >= 0 /\ (tx.fee <= EstimatedRevealFee => Relayable(tx))
          /\ RevealAmount(request) >= AmountSpan => Overflows(request)
      <3>1. ASSUME RevealAmount(request) < AmountSpan
            PROVE  Left(tx) >= 0 /\ (tx.fee <= EstimatedRevealFee => Relayable(tx))
        <4>1. all = first /\ InputValue(first) = RevealAmount(request)
          BY <1>4, <3>1
        <4>2. IsBuilt(tx, first, create_outputs(request), request.rate, TRUE)
          BY <2>4, <4>1
        <4> QED
          BY <1>4, <1>5, <1>10, <3>1, <4>1, <4>2, RevealRelayable
      <3> QED
        BY <3>1 DEF Overflows
    <2>9. Prepare("reveal", tx, "confirm") /\ "reveal" \in ExecutionSteps /\ phase # "failed"
      BY <1>1, <1>10 DEF tx, ExecutionSteps
    <2>10. Left(tx) >= 0 \/ Overflows(request)
      BY <1>6, <2>8
    <2>11. RevealAmount(request) < AmountSpan /\ tx.fee <= EstimatedRevealFee => Relayable(tx)
      BY <2>8
    <2> HIDE DEF outputs
    <2> QED
      BY <1>4, <2>3, <2>5, <2>6, <2>7, <2>9, <2>10, <2>11, Prepared
  <1> QED
    BY <1>3, <1>8, <1>9, <1>10

-----------------------------------------------------------------------------
(* The other steps *)

\* A request that starts has no transaction yet.
LEMMA Begun ==
    ASSUME ExecuteInv, NEW p, NEW next, Begin(p, next),
           next = "execute" => IsExecution(p),
           next = "send" => p.amount \in Nat /\ p.rate \in Nat,
           next \in {"execute", "send", "failed"}
    PROVE  ExecuteInv'
  <1>1. LedgerInv'
    BY LedgerGrows DEF ExecuteInv, LedgerInv, Begin
  <1>2. /\ draft' = NoDraft /\ phase' = next /\ request' = p /\ cause' \in {"arguments", "none"}
        /\ NoDraft.step = "none"
    BY DEF Begin, NoDraft
  <1>3. RequestInv'
    BY <1>2 DEF RequestInv, ExecutionSteps
  <1>4. DraftInv' /\ DraftBalanced' /\ FeeAsShown'
    BY <1>2 DEF DraftInv, DraftBalanced, FeeAsShown
  <1>5. CommitInv'
    BY <1>2 DEF CommitInv
  <1>6. RevealInv'
    BY <1>2 DEF RevealInv, CoveredReveal
  <1>7. FailureInv'
    BY <1>2 DEF FailureInv, CoveredReveal
  <1> QED
    BY <1>1, <1>3, <1>4, <1>5, <1>6, <1>7 DEF ExecuteInv

LEMMA Requested == ExecuteInv /\ Request => ExecuteInv'
  <1> SUFFICES ASSUME ExecuteInv, Request PROVE ExecuteInv'
    OBVIOUS
  <1>1. ASSUME NEW p \in Executions, Begin(p, "execute") PROVE ExecuteInv'
    BY <1>1, ExecutionTyped, Begun
  <1>2. ASSUME NEW line \in CommandLines, Submit(LineParams(line)) PROVE ExecuteInv'
    <2>1. CASE Begin(NoRequest, "failed")
      BY <2>1, Begun
    <2>2. ASSUME NEW p \in LineParams(line), Begin(p, "execute") PROVE ExecuteInv'
      BY <2>2, LineTyped, Begun
    <2> QED
      BY <1>2, <2>1, <2>2 DEF Submit
  <1>3. ASSUME NEW call \in PoolCalls, Submit(AmmOperation(call)) PROVE ExecuteInv'
    <2>1. CASE Begin(NoRequest, "failed")
      BY <2>1, Begun
    <2>2. ASSUME NEW p \in AmmOperation(call), Begin(p, "execute") PROVE ExecuteInv'
      BY <2>2, AmmTyped, Begun
    <2> QED
      BY <1>3, <2>1, <2>2 DEF Submit
  <1>4. ASSUME NEW p \in Sends, Begin(p, "send") PROVE ExecuteInv'
    BY <1>4, Begun, RequestAssumption
  <1> QED
    BY <1>1, <1>2, <1>3, <1>4 DEF Request, ParsedLines

\* A step beside the request: what was refused for a spent coin stays so.
LEMMA Around ==
    ASSUME ExecuteInv, LedgerInv', KeepsCoins, UNCHANGED <<request, phase, draft, cause>>
    PROVE  ExecuteInv'
  <1>1. phase = "failed" /\ CoveredReveal =>
            /\ cause # "fee"
            /\ cause = "rejected" => ~FeeSuffices \/ ~(draft.inputs \subseteq Unspent(Len(txs)))'
    <2>1. CoveredReveal => draft.inputs \in SUBSET Coins(Len(txs))
      BY DEF ExecuteInv, DraftInv, CoveredReveal, NoDraft
    <2>2. \A coins \in SUBSET Coins(Len(txs)) :
              ~(coins \subseteq Unspent(Len(txs))) => ~(coins \subseteq Unspent(Len(txs))')
      BY DEF KeepsCoins
    <2> QED
      BY <2>1, <2>2 DEF ExecuteInv, FailureInv
  <1>2. /\ phase' \in {"confirm", "sign", "broadcast"} => draft # NoDraft
        /\ phase' = "reveal" => draft.step = "commit"
        /\ cause' = "short" =>
                phase' = "failed" /\ draft.step = "commit" /\ RevealAmount(request) >= AmountSpan
        /\ draft # NoDraft => phase' \in Unsent \/ Paid(draft) >= 0
    BY DEF ExecuteInv, RequestInv, CommitInv, FailureInv, DraftBalanced, Unsent
  <1>3. phase' \in {"reveal", "sync"} /\ draft.step = "commit" => \E at \in DOMAIN txs' : txs'[at] = draft
    BY DEF ExecuteInv, CommitInv, KeepsCoins
  <1> QED
    BY <1>1, <1>2, <1>3, Moves

LEMMA Indexed == ExecuteInv /\ Index => ExecuteInv'
  <1> SUFFICES ASSUME ExecuteInv, Index PROVE ExecuteInv'
    OBVIOUS
  <1>1. Len(txs) \in Nat
    BY LenProperties DEF ExecuteInv, LedgerInv
  <1>2. indexed' \in 0 .. Len(txs) /\ txs' = txs
    BY <1>1 DEF ExecuteInv, LedgerInv, Index
  <1>3. LedgerInv' /\ KeepsCoins
    BY <1>2, LedgerGrows DEF ExecuteInv
  <1> QED
    BY <1>3, Around DEF Index

LEMMA SpentElsewhere == ExecuteInv /\ SpendElsewhere => ExecuteInv'
  <1> SUFFICES ASSUME ExecuteInv, SpendElsewhere PROVE ExecuteInv'
    OBVIOUS
  <1>1. PICK coin \in Unspent(Len(txs)) :
            txs' = Append(txs, [step |-> "foreign", inputs |-> {coin}, runestone |-> << >>, fee |-> 0,
                                outputs |-> <<Output(Value(coin), "other")>>])
    BY DEF SpendElsewhere
  <1>2. Value(coin) \in Nat
    <2>1. Len(txs) \in 0 .. Len(txs)
      BY LenProperties DEF ExecuteInv, LedgerInv
    <2>2. coin \in Coins(Len(txs))
      BY DEF Unspent, Coins
    <2> QED
      BY <2>1, <2>2, CoinsTyped DEF ExecuteInv
  <1>3. <<Output(Value(coin), "other")>> \in Seq(Outs) /\ Values(<<Output(Value(coin), "other")>>) = Value(coin)
    BY <1>2, OutputTyped, ValuesOne
  <1>7. {coin} \in SUBSET Coins(Len(txs)) /\ InputValue({coin}) = Value(coin)
    BY <1>2, InputOne DEF Unspent, Coins
  <1>4. \E tx : IsBalanced(tx) /\ txs' = Append(txs, tx)
    <2> DEFINE tx == [step |-> "foreign", inputs |-> {coin}, runestone |-> << >>, fee |-> 0,
                      outputs |-> <<Output(Value(coin), "other")>>]
    <2>1. IsBalanced(tx)
      <3>1. Paid(tx) = Value(coin) - Value(coin)
        BY <1>3, <1>7 DEF Paid
      <3> QED
        BY <1>2, <1>3, <1>7, <3>1 DEF IsBalanced
    <2> HIDE DEF tx
    <2>2. txs' = Append(txs, tx)
      BY <1>1 DEF tx
    <2> QED
      BY <2>1, <2>2
  <1>5. indexed' \in 0 .. Len(txs)
    BY DEF ExecuteInv, LedgerInv, SpendElsewhere
  <1>6. LedgerInv' /\ KeepsCoins
    BY <1>4, <1>5, LedgerGrows DEF ExecuteInv
  <1> QED
    BY <1>6, Around DEF SpendElsewhere

LEMMA Signed == ExecuteInv /\ Sign => ExecuteInv'
  <1> SUFFICES ASSUME ExecuteInv, Sign PROVE ExecuteInv'
    OBVIOUS
  <1>1. LedgerInv' /\ KeepsCoins /\ draft' = draft /\ request' = request /\ txs' = txs
    BY LedgerGrows DEF ExecuteInv, LedgerInv, Sign, Fail, Go
  <1>2. CASE Fail("locked")
    BY <1>2, Failed
  <1>3. CASE ~ExtractTx(draft) /\ Fail("fee")
    <2>1. ~CoveredReveal
      BY <1>3 DEF ExecuteInv, RevealInv
    <2> QED
      BY <1>1, <1>3, <2>1, Moves DEF Fail, Unsent
  <1>4. CASE (draft.step = "send" \/ ExtractTx(draft)) /\ Go("broadcast")
    <2>1. draft # NoDraft /\ cause # "short"
      BY DEF ExecuteInv, RequestInv, FailureInv, Sign
    <2>2. Paid(draft) >= 0
      BY <1>4, <2>1 DEF ExecuteInv, DraftBalanced, ExtractTx
    <2> QED
      BY <1>1, <1>4, <2>1, <2>2, Moves DEF Go
  <1> QED
    BY <1>2, <1>3, <1>4 DEF Sign

LEMMA WeightTyped ==
    ASSUME ExecuteInv, draft # NoDraft, draft.step = "reveal"
    PROVE  VBytes(SignedWeight(draft)) \in Nat
  <1>1. request.script \in Nat
    BY DEF ExecuteInv, RequestInv, IsExecution, ExecutionSteps
  <1>2. Cardinality(draft.inputs) \in Nat /\ Len(draft.outputs) \in Nat
    BY FS_CardinalityType, LenProperties DEF ExecuteInv, DraftInv
  <1>3. ScriptWitness(request.script) - 66 \in Nat
    BY <1>1 DEF ScriptWitness
  <1>4. SignedWeight(draft) \in Nat
    <2> DEFINE i == Cardinality(draft.inputs)
               o == Len(draft.outputs)
               w == ScriptWitness(request.script) - 66
    <2>1. SignedWeight(draft) = 4 * (10 + 41 * i + 43 * o) + 2 + 66 * i + w
      BY DEF SignedWeight, BaseSize
    <2> HIDE DEF i, o, w
    <2>2. i \in Nat /\ o \in Nat /\ w \in Nat
      BY <1>2, <1>3 DEF i, o, w
    <2> QED
      BY <2>1, <2>2
  <1> QED
    BY <1>4 DEF VBytes

\* The node refuses a covered reveal, with a fee that pays for its envelope, for its
\* coins only.
LEMMA BroadcastMade == ExecuteInv /\ Broadcast => ExecuteInv'
  <1> SUFFICES ASSUME ExecuteInv, Broadcast PROVE ExecuteInv'
    OBVIOUS
  <1>1. draft # NoDraft /\ cause # "short" /\ IsBalanced(draft)
    BY DEF ExecuteInv, RequestInv, DraftInv, DraftBalanced, FailureInv, Broadcast, IsBalanced
  <1>2. /\ AfterBroadcast \in {"done", "sync", "reveal", "trace"}
        /\ AfterBroadcast = "reveal" => draft.step = "commit"
    BY DEF AfterBroadcast
  <1>3. CASE ~Relays(draft) /\ Fail("rejected")
    <2>1. LedgerInv' /\ KeepsCoins
      BY <1>3, LedgerGrows DEF ExecuteInv, LedgerInv, Fail
    <2>2. CoveredReveal /\ FeeSuffices => ~(draft.inputs \subseteq Unspent(Len(txs)))
      <3>1. ASSUME CoveredReveal, FeeSuffices, draft.inputs \subseteq Unspent(Len(txs)) PROVE Relays(draft)
        <4>1. /\ draft.inputs # {} /\ Paid(draft) >= draft.fee
              /\ \A i \in DOMAIN draft.outputs :
                    draft.outputs[i].owner = "runestone" \/ draft.outputs[i].value >= 330
          BY <3>1 DEF ExecuteInv, RevealInv
        <4>2. SignedWeight(draft) <= MAX_STANDARD_WEIGHT /\ VBytes(SignedWeight(draft)) <= draft.fee
          BY <3>1 DEF FeeSuffices
        <4>3. VBytes(SignedWeight(draft)) \in Nat
          BY <1>1, <3>1, WeightTyped DEF CoveredReveal
        <4>4. draft.fee \in Nat /\ Paid(draft) \in Int
          BY <1>1, InputTyped, ValuesTyped DEF ExecuteInv, DraftInv, IsBalanced, Paid
        <4>5. Paid(draft) >= VBytes(SignedWeight(draft))
          BY <4>1, <4>2, <4>3, <4>4
        <4> QED
          BY <3>1, <4>1, <4>2, <4>5 DEF Relays
      <3> QED
        BY <1>3, <3>1
    <2>3. CoveredReveal /\ FeeSuffices => ~(draft.inputs \subseteq Unspent(Len(txs)))'
      <3>1. draft' = draft
        BY <1>3 DEF Fail
      <3>2. draft.inputs \in SUBSET Coins(Len(txs))
        BY <1>1 DEF ExecuteInv, DraftInv
      <3> QED
        BY <2>1, <2>2, <3>1, <3>2 DEF KeepsCoins
    <2> QED
      BY <1>3, <2>1, <2>3, Moves DEF Fail, Unsent
  <1>4. CASE Contains(txs, draft) /\ Go(AfterBroadcast)
    <2>1. LedgerInv' /\ KeepsCoins
      BY <1>4, LedgerGrows DEF ExecuteInv, LedgerInv, Go
    <2>2. \E at \in DOMAIN txs' : txs'[at] = draft
      <3>1. DOMAIN txs = 1 .. Len(txs)
        BY LenProperties DEF ExecuteInv, LedgerInv
      <3> QED
        BY <1>4, <3>1 DEF Contains, Go
    <2>3. /\ phase' = AfterBroadcast /\ cause' = cause /\ draft' = draft /\ request' = request
      BY <1>4 DEF Go
    <2>4. Paid(draft) >= 0
      BY <1>1 DEF IsBalanced
    <2> HIDE DEF AfterBroadcast
    <2> QED
      BY <1>1, <1>2, <2>1, <2>2, <2>3, <2>4, Moves
  <1>5. ASSUME txs' = Append(txs, draft), indexed' = indexed, draft' = draft, request' = request,
               \/ phase' = AfterBroadcast /\ cause' = cause
               \/ phase' = "failed" /\ cause' = "lost"
        PROVE  ExecuteInv'
    <2>1. indexed' \in 0 .. Len(txs)
      BY <1>5 DEF ExecuteInv, LedgerInv
    <2>2. LedgerInv' /\ KeepsCoins
      BY <1>1, <1>5, <2>1, LedgerGrows DEF ExecuteInv
    <2>3. \E at \in DOMAIN txs' : txs'[at] = draft
      <3>1. IsNext(Append(txs, draft), draft)
        BY <1>1, Appended DEF ExecuteInv, IsBalanced
      <3> QED
        BY <1>5, <3>1 DEF IsNext
    <2>4. Paid(draft) >= 0
      BY <1>1 DEF IsBalanced
    <2> HIDE DEF AfterBroadcast
    <2> QED
      BY <1>1, <1>2, <1>5, <2>2, <2>3, <2>4, Moves
  <1>6. \/ ~Relays(draft) /\ Fail("rejected")
        \/ Contains(txs, draft) /\ Go(AfterBroadcast)
        \/ /\ txs' = Append(txs, draft) /\ indexed' = indexed /\ draft' = draft /\ request' = request
           /\ \/ phase' = AfterBroadcast /\ cause' = cause
              \/ phase' = "failed" /\ cause' = "lost"
    BY DEF Broadcast
  <1> QED
    BY <1>3, <1>4, <1>5, <1>6

LEMMA Synced == ExecuteInv /\ Sync => ExecuteInv'
  <1> SUFFICES ASSUME ExecuteInv, Sync PROVE ExecuteInv'
    OBVIOUS
  <1>1. LedgerInv' /\ KeepsCoins
    BY LedgerGrows DEF ExecuteInv, LedgerInv, Sync
  <1>2. cause # "short" /\ (draft.step = "commit" => \E at \in DOMAIN txs : txs[at] = draft)
        /\ (draft # NoDraft => Paid(draft) >= 0)
    BY DEF ExecuteInv, FailureInv, CommitInv, DraftBalanced, Sync
  <1>3. /\ draft' = draft /\ request' = request /\ txs' = txs
        /\ \/ phase' \in {"reveal", "trace", "done"} /\ cause' = cause
              /\ (phase' = "reveal" => draft.step = "commit")
           \/ phase' = "sync" /\ cause' = cause
           \/ phase' = "failed" /\ cause' = "sync"
    BY DEF Sync
  <1> QED
    BY <1>1, <1>2, <1>3, Moves

LEMMA Hung == ExecuteInv /\ Hang => ExecuteInv'
  <1> SUFFICES ASSUME ExecuteInv, Hang PROVE ExecuteInv'
    OBVIOUS
  <1>1. /\ phase' = "hung" /\ UNCHANGED <<indexed, request, draft, cause>>
        /\ \/ txs' = txs
           \/ phase = "broadcast" /\ txs' = Append(txs, draft)
    BY DEF Hang
  <1>2. cause # "short"
    BY DEF ExecuteInv, FailureInv, Hang, Waits
  <1>3. \/ txs' = txs
        \/ \E tx : IsBalanced(tx) /\ txs' = Append(txs, tx)
    <2>1. phase = "broadcast" => IsBalanced(draft)
      BY DEF ExecuteInv, RequestInv, DraftInv, DraftBalanced, IsBalanced
    <2> QED
      BY <1>1, <2>1
  <1>4. LedgerInv' /\ KeepsCoins
    BY <1>1, <1>3, LedgerGrows DEF ExecuteInv, LedgerInv
  <1> QED
    BY <1>1, <1>2, <1>4, Moves DEF Unsent

LEMMA ExecuteInvNext == ExecuteInv /\ [Next]_vars => ExecuteInv'
  <1> SUFFICES ASSUME ExecuteInv, [Next]_vars PROVE ExecuteInv'
    OBVIOUS
  <1>1. CASE Request
    BY <1>1, Requested
  <1>2. CASE BuildCommit
    BY <1>2, CommitBuilt
  <1>3. CASE BuildSingle
    BY <1>3, SingleBuilt
  <1>4. CASE Refuse
    BY <1>4, Failed DEF Refuse
  <1>5. CASE BuildSend
    BY <1>5, SendBuilt
  <1>6. CASE Confirm
    <2>1. CASE Fail("cancelled")
      BY <2>1, Failed
    <2>2. CASE Go("sign")
      <3>1. LedgerInv' /\ KeepsCoins
        BY <2>2, LedgerGrows DEF ExecuteInv, LedgerInv, Go
      <3>2. draft # NoDraft /\ cause # "short"
        BY <1>6 DEF ExecuteInv, RequestInv, FailureInv, Confirm
      <3> QED
        BY <2>2, <3>1, <3>2, Moves DEF Go, Unsent
    <2> QED
      BY <1>6, <2>1, <2>2 DEF Confirm
  <1>7. CASE Sign
    BY <1>7, Signed
  <1>8. CASE Broadcast
    BY <1>8, BroadcastMade
  <1>9. CASE MineFails
    BY <1>9, Failed DEF MineFails
  <1>10. CASE Sync
    BY <1>10, Synced
  <1>11. CASE BuildReveal
    BY <1>11, RevealBuilt
  <1>12. CASE Trace
    <2>1. CASE Fail("trace")
      BY <2>1, Failed
    <2>2. CASE Go("done")
      <3>1. LedgerInv' /\ KeepsCoins
        BY <2>2, LedgerGrows DEF ExecuteInv, LedgerInv, Go
      <3>2. cause # "short" /\ (draft # NoDraft => Paid(draft) >= 0)
        BY <1>12 DEF ExecuteInv, FailureInv, DraftBalanced, Trace
      <3> QED
        BY <2>2, <3>1, <3>2, Moves DEF Go
    <2> QED
      BY <1>12, <2>1, <2>2 DEF Trace
  <1>13. CASE Crash
    BY <1>13, Failed DEF Crash
  <1>14. CASE Index
    BY <1>14, Indexed
  <1>15. CASE SpendElsewhere
    BY <1>15, SpentElsewhere
  <1>16. CASE UNCHANGED vars
    <2>1. LedgerInv' /\ KeepsCoins
      BY <1>16, LedgerGrows DEF ExecuteInv, LedgerInv, vars
    <2> QED
      BY <1>16, <2>1, Around DEF vars
  <1>17. CASE Hang
    BY <1>17, Hung
  <1> QED
    BY <1>1, <1>2, <1>3, <1>4, <1>5, <1>6, <1>7, <1>8, <1>9, <1>10, <1>11, <1>12, <1>13, <1>14, <1>15,
       <1>16, <1>17 DEF Next, Step

LEMMA ExecuteInvInit == Init => ExecuteInv
  <1> SUFFICES ASSUME Init PROVE ExecuteInv
    OBVIOUS
  <1>1. /\ txs = << >> /\ indexed = 0 /\ phase = "idle" /\ draft = NoDraft /\ cause = "none"
        /\ NoDraft.step = "none"
    BY DEF Init, NoDraft
  <1>2. LedgerInv
    <2>1. txs \in Seq({txs[at] : at \in DOMAIN txs}) /\ DOMAIN txs = {} /\ Len(txs) = 0
      BY <1>1, EmptySeq
    <2> QED
      BY <1>1, <2>1 DEF LedgerInv
  <1>3. RequestInv /\ DraftInv /\ CommitInv
    BY <1>1 DEF RequestInv, DraftInv, CommitInv, ExecutionSteps
  <1>4. RevealInv /\ FailureInv
    BY <1>1 DEF RevealInv, FailureInv, CoveredReveal
  <1>5. DraftBalanced /\ FeeAsShown
    BY <1>1 DEF DraftBalanced, FeeAsShown
  <1> QED
    BY <1>2, <1>3, <1>4, <1>5 DEF ExecuteInv

-----------------------------------------------------------------------------
(* The theorems *)

\* Whatever the wallet's coins, the requests, the other processes that spend and
\* the faults, no transaction that build_psbt_and_fee, build_commit_psbt or
\* create_transaction prepares pays out more than its coins hold, unless the sums
\* that it is built from wrap around in a u64, and then it is never signed.
THEOREM DraftsBalance == Spec => []DraftBalanced
  <1>1. ExecuteInv => DraftBalanced
    BY DEF ExecuteInv
  <1> QED
    BY <1>1, ExecuteInvInit, ExecuteInvNext, PTL DEF Spec

\* And none of them leaves more to the miners than the fee shown to the user, but
\* for the dust of a send and for transfers that overwrite the change output.
THEOREM FeesShown == Spec => []FeeAsShown
  <1>1. ExecuteInv => FeeAsShown
    BY DEF ExecuteInv
  <1> QED
    BY <1>1, ExecuteInvInit, ExecuteInvNext, PTL DEF Spec

\* What is signed, broadcast and resumed: no transaction on the node pays out more
\* than its coins hold, a reveal follows a commit that is on the node and holds what
\* the reveal was computed to need, and a reveal whose amounts fit and whose fee is
\* covered pays that fee and is one that extract_tx accepts.
THEOREM ExecuteInvariant == Spec => []ExecuteInv
  BY ExecuteInvInit, ExecuteInvNext, PTL DEF Spec

\* Once a commit is on the node, no reveal of it is short of money, refused by
\* extract_tx for its fee or by the node for anything but a coin that is spent,
\* unless its amounts overflow, its fee is above what build_commit_reveal_pattern
\* set aside, or it is below what the node asks for a transaction that carries the
\* whole envelope: for every fee rate and every script.
THEOREM RevealsCovered == Spec => []CommitCoversReveal
  <1>1. ExecuteInv => CommitCoversReveal
    <2> SUFFICES ASSUME ExecuteInv PROVE CommitCoversReveal
      OBVIOUS
    <2>1. cause = "short" => draft.step = "commit" /\ RevealAmount(request) >= AmountSpan
      BY DEF ExecuteInv, FailureInv
    <2>2. ASSUME phase = "failed", cause \in {"fee", "rejected"}, draft.step = "reveal",
                 ~(draft.fee > EstimatedRevealFee), ~(RevealAmount(request) >= AmountSpan)
          PROVE  ~FeeSuffices \/ ~(draft.inputs \subseteq Unspent(Len(txs)))
      <3>1. draft.fee \in Nat /\ IsExecution(request)
        BY <2>2 DEF ExecuteInv, DraftInv, RequestInv, ExecutionSteps, NoDraft
      <3>2. RevealAmount(request) < AmountSpan
        BY <2>2, <3>1, RevealAmountTyped, SpanAssumption
      <3>3. CoveredReveal
        BY <2>2, <3>1, <3>2 DEF CoveredReveal, EstimatedRevealFee
      <3> QED
        BY <2>2, <3>3 DEF ExecuteInv, FailureInv
    <2> QED
      BY <2>1, <2>2 DEF CommitCoversReveal
  <1> QED
    BY <1>1, ExecuteInvInit, ExecuteInvNext, PTL DEF Spec
=============================================================================
