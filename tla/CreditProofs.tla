------------------------------ MODULE CreditProofs ------------------------------
(***************************************************************************)
(* Proofs about CommunityCredit, for any participants, reviewers, ballots, *)
(* bounty and unit: what the sums of the model are, that rounding down and *)
(* handing out the remainder loses and invents nothing, and from there     *)
(* that credit rests on evidence and that the bounty is paid exactly.      *)
(***************************************************************************)
EXTENDS CommunityCredit, FiniteSetTheorems, WellFoundedInduction, TLAPS

-----------------------------------------------------------------------------
(* Induction over finite sets.  The library's induction theorem takes the    *)
(* statement as an operator; here the sets that violate it are given, and    *)
(* one of them violates it without a smaller one.                            *)

LEMMA SmallestViolation ==
  ASSUME NEW S, IsFiniteSet(S), NEW Bad \in SUBSET SUBSET S, Bad # {}
  PROVE  \E T \in Bad : IsFiniteSet(T) /\ \A U \in Bad : U \subseteq T => U = T
<1>1. Bad \subseteq FiniteSubsetsOf(S)
  BY FS_Subset DEF FiniteSubsetsOf
<1>2. IsWellFoundedOn(StrictSubsetOrdering(S), FiniteSubsetsOf(S))
  BY FS_StrictSubsetOrderingWellFounded
<1>3. PICK T \in Bad : \A U \in Bad : ~(<<U, T>> \in StrictSubsetOrdering(S))
  BY <1>1, <1>2, WFMin
<1>4. \A U \in Bad : U \subseteq T => U = T
  BY <1>3 DEF StrictSubsetOrdering
<1>5. IsFiniteSet(T)
  BY FS_Subset
<1>6. QED
  BY <1>4, <1>5

-----------------------------------------------------------------------------
(* Sums.                                                                     *)

Picked(s) == CHOOSE x \in s : TRUE

\* g gives the sum of f over every subset of S.
IsSum(f, S, g) ==
  g = [s \in SUBSET S |-> IF s = {} THEN 0 ELSE f[Picked(s)] + g[s \ {Picked(s)}]]

LEMMA SumIs ==
  ASSUME NEW f, NEW S
  PROVE  SumOf(f, S) = (CHOOSE g : IsSum(f, S, g))[S]
BY DEF SumOf, MapThenFoldSet, IsSum, Picked

\* What one more step of the fold is.
Unfolded(f, s) == IF s = {} THEN 0 ELSE f[Picked(s)] + SumOf(f, s \ {Picked(s)})

\* The sum over a finite set exists: a set is summed by the sums over its subsets.
LEMMA SumUnfolds ==
  ASSUME NEW f, NEW S, IsFiniteSet(S)
  PROVE  SumOf(f, S) = Unfolded(f, S)
<1> DEFINE Bad == {T \in SUBSET S : SumOf(f, T) # Unfolded(f, T)}
<1>1. SUFFICES ASSUME S \in Bad PROVE FALSE
  OBVIOUS
<1>2. PICK T \in Bad : IsFiniteSet(T) /\ \A U \in Bad : U \subseteq T => U = T
  <2>1. Bad \in SUBSET SUBSET S /\ Bad # {}
    BY <1>1
  <2> HIDE DEF Bad
  <2>2. QED
    BY <2>1, SmallestViolation
<1>3. \A U \in SUBSET T : U # T => SumOf(f, U) = Unfolded(f, U)
  BY <1>2
<1>4. T \subseteq S /\ SumOf(f, T) # Unfolded(f, T) /\ IsFiniteSet(T)
  BY <1>2, FS_Subset
<1> HIDE DEF Bad
<1> DEFINE g == [s \in SUBSET T |-> Unfolded(f, s)]
<1>5. \A s : s # {} => Picked(s) \in s
  BY DEF Picked
<1>6. IsSum(f, T, g)
  <2>1. ASSUME NEW s \in SUBSET T, s # {}
        PROVE  g[s \ {Picked(s)}] = SumOf(f, s \ {Picked(s)})
    <3>1. s \ {Picked(s)} \in SUBSET T /\ s \ {Picked(s)} # T
      BY <1>5, <2>1
    <3>2. QED
      BY <1>3, <3>1
  <2>2. \A s \in SUBSET T :
          g[s] = IF s = {} THEN 0 ELSE f[Picked(s)] + g[s \ {Picked(s)}]
    BY <2>1 DEF Unfolded
  <2>3. QED
    BY <2>2 DEF IsSum
<1> HIDE DEF g
<1> DEFINE h == CHOOSE k : IsSum(f, T, k)
<1>7. IsSum(f, T, h)
  BY <1>6
<1>8. SumOf(f, T) = h[T]
  BY SumIs
<1> HIDE DEF h
<1>9. \A s \in SUBSET T : h[s] = IF s = {} THEN 0 ELSE f[Picked(s)] + h[s \ {Picked(s)}]
  BY <1>7 DEF IsSum
<1> DEFINE Off == {U \in SUBSET T : U # T /\ h[U] # SumOf(f, U)}
<1>10. Off = {}
  <2>1. SUFFICES ASSUME Off # {} PROVE FALSE
    OBVIOUS
  <2>2. PICK U \in Off : \A V \in Off : V \subseteq U => V = U
    <3>1. Off \in SUBSET SUBSET T /\ IsFiniteSet(T)
      BY <1>4
    <3> HIDE DEF Off
    <3>2. QED
      BY <2>1, <3>1, SmallestViolation
  <2>3. SumOf(f, U) = Unfolded(f, U)
    BY <1>3, <2>2
  <2>4. U # {}
    BY <1>9, <2>2, <2>3 DEF Unfolded
  <2>5. U \ {Picked(U)} \notin Off /\ U \ {Picked(U)} \in SUBSET T /\ U \ {Picked(U)} # T
    BY <1>5, <2>2, <2>4
  <2>6. h[U \ {Picked(U)}] = SumOf(f, U \ {Picked(U)})
    BY <2>5
  <2>7. h[U] = SumOf(f, U)
    BY <1>9, <2>2, <2>3, <2>4, <2>6 DEF Unfolded
  <2>8. QED
    BY <2>2, <2>7
<1>11. CASE T = {}
  BY <1>4, <1>8, <1>9, <1>11 DEF Unfolded
<1>12. CASE T # {}
  <2>1. T \ {Picked(T)} \in SUBSET T /\ T \ {Picked(T)} # T
    BY <1>5, <1>12
  <2>2. h[T \ {Picked(T)}] = SumOf(f, T \ {Picked(T)})
    BY <1>10, <2>1
  <2>3. h[T] = f[Picked(T)] + SumOf(f, T \ {Picked(T)})
    BY <1>9, <1>12, <2>2
  <2>4. QED
    BY <1>4, <1>8, <1>12, <2>3 DEF Unfolded
<1>13. QED
  BY <1>11, <1>12

LEMMA SumEmpty == ASSUME NEW f PROVE SumOf(f, {}) = 0
BY SumUnfolds, FS_EmptySet DEF Unfolded

\* Whatever element is taken out of the set.
SumGood(f, T) ==
  /\ SumOf(f, T) \in Int
  /\ \A x \in T : SumOf(f, T) = f[x] + SumOf(f, T \ {x})

LEMMA SumSplits ==
  ASSUME NEW f, NEW S, IsFiniteSet(S), \A x \in S : f[x] \in Int
  PROVE  SumGood(f, S)
<1> DEFINE Bad == {T \in SUBSET S : ~SumGood(f, T)}
<1>1. SUFFICES ASSUME S \in Bad PROVE FALSE
  OBVIOUS
<1>2. PICK T \in Bad : IsFiniteSet(T) /\ \A U \in Bad : U \subseteq T => U = T
  <2>1. Bad \in SUBSET SUBSET S /\ Bad # {}
    BY <1>1
  <2> HIDE DEF Bad
  <2>2. QED
    BY <2>1, SmallestViolation
<1>3. \A U \in SUBSET T : U # T => SumGood(f, U)
  BY <1>2
<1>4. T \subseteq S /\ ~SumGood(f, T) /\ IsFiniteSet(T)
  BY <1>2
<1> HIDE DEF Bad
<1>5. T # {}
  BY <1>4, SumEmpty DEF SumGood
<1> DEFINE p == Picked(T)
<1>6. p \in T
  BY <1>5 DEF Picked
<1>7. SumOf(f, T) = f[p] + SumOf(f, T \ {p})
  BY <1>4, <1>5, SumUnfolds DEF Unfolded
<1> HIDE DEF p
<1>8. f[p] \in Int /\ SumGood(f, T \ {p})
  BY <1>3, <1>4, <1>6
<1>9. SumOf(f, T) \in Int
  BY <1>7, <1>8 DEF SumGood
<1>10. ASSUME NEW x \in T PROVE SumOf(f, T) = f[x] + SumOf(f, T \ {x})
  <2>1. CASE x = p
    BY <1>7, <2>1
  <2>2. CASE x # p
    <3>1. SumOf(f, T \ {p}) = f[x] + SumOf(f, (T \ {p}) \ {x})
      BY <1>8, <2>2 DEF SumGood
    <3>2. SumGood(f, T \ {x}) /\ p \in T \ {x}
      BY <1>3, <1>6, <2>2
    <3>3. SumOf(f, T \ {x}) = f[p] + SumOf(f, (T \ {x}) \ {p})
      BY <3>2 DEF SumGood
    <3>4. (T \ {p}) \ {x} = (T \ {x}) \ {p}
      OBVIOUS
    <3>5. SumGood(f, (T \ {x}) \ {p})
      BY <1>3, <1>6
    <3>6. f[x] \in Int
      BY <1>4
    <3>7. QED
      BY <1>7, <1>8, <3>1, <3>3, <3>4, <3>5, <3>6 DEF SumGood
  <2>3. QED
    BY <2>1, <2>2
<1>11. QED
  BY <1>4, <1>9, <1>10 DEF SumGood


\* A sum is linear in what is summed.
LEMMA Distribution ==
  ASSUME NEW a \in Int, NEW x \in Int, NEW y \in Int
  PROVE  a * (x + y) = a * x + a * y
OBVIOUS

LEMMA SumLinear ==
  ASSUME NEW S, IsFiniteSet(S), NEW f, NEW g, NEW h, NEW a \in Int, NEW b \in Int,
         \A x \in S : /\ f[x] \in Int /\ g[x] \in Int /\ h[x] \in Int
                      /\ a * f[x] = b * g[x] + h[x]
  PROVE  a * SumOf(f, S) = b * SumOf(g, S) + SumOf(h, S)
<1> DEFINE Bad == {T \in SUBSET S : a * SumOf(f, T) # b * SumOf(g, T) + SumOf(h, T)}
<1>1. SUFFICES ASSUME S \in Bad PROVE FALSE
  OBVIOUS
<1>2. PICK T \in Bad : IsFiniteSet(T) /\ \A U \in Bad : U \subseteq T => U = T
  <2>1. Bad \in SUBSET SUBSET S /\ Bad # {}
    BY <1>1
  <2> HIDE DEF Bad
  <2>2. QED
    BY <2>1, SmallestViolation
<1>3. SumGood(f, T) /\ SumGood(g, T) /\ SumGood(h, T)
  BY <1>2, SumSplits
<1>4. T # {}
  <2>1. a * 0 = b * 0 + 0
    OBVIOUS
  <2>2. QED
    BY <1>2, <2>1, SumEmpty
<1>5. PICK x : x \in T
  BY <1>4
<1> DEFINE U == T \ {x}
<1>6. U \in SUBSET S /\ U \notin Bad /\ IsFiniteSet(U)
  BY <1>2, <1>5, FS_Subset
<1>7. a * SumOf(f, U) = b * SumOf(g, U) + SumOf(h, U)
  BY <1>6
<1>8. SumGood(f, U) /\ SumGood(g, U) /\ SumGood(h, U)
  BY <1>6, SumSplits
<1>9. /\ SumOf(f, T) = f[x] + SumOf(f, U) /\ SumOf(g, T) = g[x] + SumOf(g, U)
      /\ SumOf(h, T) = h[x] + SumOf(h, U)
  BY <1>3, <1>5 DEF SumGood
<1>10. /\ f[x] \in Int /\ g[x] \in Int /\ h[x] \in Int /\ a * f[x] = b * g[x] + h[x]
       /\ SumOf(f, U) \in Int /\ SumOf(g, U) \in Int /\ SumOf(h, U) \in Int
  BY <1>2, <1>5, <1>8 DEF SumGood
<1>11. a * SumOf(f, T) # b * SumOf(g, T) + SumOf(h, T)
  BY <1>2
<1> HIDE DEF U, Bad
<1>12. /\ a * SumOf(f, T) = a * f[x] + a * SumOf(f, U)
       /\ b * SumOf(g, T) = b * g[x] + b * SumOf(g, U)
  BY <1>9, <1>10, Distribution
<1>13. /\ a * f[x] \in Int /\ a * SumOf(f, U) \in Int
       /\ b * g[x] \in Int /\ b * SumOf(g, U) \in Int
  BY <1>10
<1>14. QED
  BY <1>7, <1>9, <1>10, <1>11, <1>12, <1>13

\* The larger the terms, the larger the sum.
LEMMA SumMonotone ==
  ASSUME NEW S, IsFiniteSet(S), NEW f, NEW g,
         \A x \in S : f[x] \in Int /\ g[x] \in Int /\ f[x] <= g[x]
  PROVE  SumOf(f, S) <= SumOf(g, S)
<1> DEFINE Bad == {T \in SUBSET S : ~(SumOf(f, T) <= SumOf(g, T))}
<1>1. SUFFICES ASSUME S \in Bad PROVE FALSE
  OBVIOUS
<1>2. PICK T \in Bad : IsFiniteSet(T) /\ \A U \in Bad : U \subseteq T => U = T
  <2>1. Bad \in SUBSET SUBSET S /\ Bad # {}
    BY <1>1
  <2> HIDE DEF Bad
  <2>2. QED
    BY <2>1, SmallestViolation
<1>3. SumGood(f, T) /\ SumGood(g, T)
  BY <1>2, SumSplits
<1>4. T # {}
  <2>1. SUFFICES ASSUME T = {} PROVE FALSE
    OBVIOUS
  <2>2. SumOf(f, T) = 0 /\ SumOf(g, T) = 0
    BY <2>1, SumEmpty
  <2>3. ~(SumOf(f, T) <= SumOf(g, T))
    BY <1>2
  <2> HIDE DEF Bad
  <2>4. QED
    BY <2>2, <2>3
<1>5. PICK x : x \in T
  BY <1>4
<1>6. T \ {x} \in SUBSET S /\ T \ {x} \notin Bad /\ IsFiniteSet(T \ {x})
  BY <1>2, <1>5, FS_Subset
<1>7. SumGood(f, T \ {x}) /\ SumGood(g, T \ {x})
  BY <1>6, SumSplits
<1>8. QED
  BY <1>2, <1>3, <1>5, <1>6, <1>7 DEF SumGood

\* Equal terms have equal sums.
LEMMA SumSame ==
  ASSUME NEW S, IsFiniteSet(S), NEW f, NEW g, \A x \in S : f[x] \in Int /\ f[x] = g[x]
  PROVE  SumOf(f, S) = SumOf(g, S)
<1>1. SumOf(f, S) \in Int /\ SumOf(g, S) \in Int
  BY SumSplits DEF SumGood
<1>2. SumOf(f, S) <= SumOf(g, S) /\ SumOf(g, S) <= SumOf(f, S)
  BY SumMonotone
<1>3. QED
  BY <1>1, <1>2

\* Terms of zero do not count.
LEMMA SumWithin ==
  ASSUME NEW S, IsFiniteSet(S), NEW f, \A x \in S : f[x] \in Int,
         NEW K, \A x \in S \ K : f[x] = 0
  PROVE  SumOf(f, S) = SumOf(f, S \cap K)
<1> DEFINE Bad == {T \in SUBSET S : SumOf(f, T) # SumOf(f, T \cap K)}
<1>1. SUFFICES ASSUME S \in Bad PROVE FALSE
  OBVIOUS
<1>2. PICK T \in Bad : IsFiniteSet(T) /\ \A U \in Bad : U \subseteq T => U = T
  <2>1. Bad \in SUBSET SUBSET S /\ Bad # {}
    BY <1>1
  <2> HIDE DEF Bad
  <2>2. QED
    BY <2>1, SmallestViolation
<1>3. PICK x : x \in T /\ x \notin K
  <2>1. SUFFICES ASSUME T \subseteq K PROVE FALSE
    OBVIOUS
  <2>2. T \cap K = T
    BY <2>1
  <2>3. QED
    BY <1>2, <2>2
<1>4. /\ T \ {x} \in SUBSET S /\ T \ {x} \notin Bad /\ IsFiniteSet(T \ {x})
      /\ (T \ {x}) \cap K = T \cap K
  BY <1>2, <1>3, FS_Subset
<1>5. SumGood(f, T) /\ SumGood(f, T \ {x})
  BY <1>2, <1>4, SumSplits
<1>6. f[x] = 0
  BY <1>2, <1>3
<1>7. QED
  BY <1>2, <1>3, <1>4, <1>5, <1>6 DEF SumGood

\* Summing one for each member counts them.
LEMMA SumCounts ==
  ASSUME NEW S, IsFiniteSet(S), NEW K, NEW f,
         \A x \in S : f[x] = IF x \in K THEN 1 ELSE 0
  PROVE  SumOf(f, S) = Cardinality(S \cap K)
<1> DEFINE Bad == {T \in SUBSET S : SumOf(f, T) # Cardinality(T \cap K)}
<1>1. SUFFICES ASSUME S \in Bad PROVE FALSE
  OBVIOUS
<1>2. PICK T \in Bad : IsFiniteSet(T) /\ \A U \in Bad : U \subseteq T => U = T
  <2>1. Bad \in SUBSET SUBSET S /\ Bad # {}
    BY <1>1
  <2> HIDE DEF Bad
  <2>2. QED
    BY <2>1, SmallestViolation
<1>3. T # {}
  <2>1. {} \cap K = {}
    OBVIOUS
  <2>2. QED
    BY <1>2, <2>1, SumEmpty, FS_EmptySet
<1>4. PICK x : x \in T
  BY <1>3
<1>5. /\ T \ {x} \in SUBSET S /\ T \ {x} \notin Bad
      /\ IsFiniteSet(T \ {x}) /\ IsFiniteSet(T \cap K)
  BY <1>2, <1>4, FS_Subset
<1>6. (T \ {x}) \cap K = (T \cap K) \ {x}
  OBVIOUS
<1>7. /\ Cardinality(T \cap K) \in Nat
      /\ Cardinality((T \cap K) \ {x}) =
           IF x \in T \cap K THEN Cardinality(T \cap K) - 1 ELSE Cardinality(T \cap K)
  <2> DEFINE C == T \cap K
  <2>1. IsFiniteSet(C)
    BY <1>5
  <2> HIDE DEF C
  <2>2. Cardinality(C) \in Nat
    BY <2>1, FS_CardinalityType
  <2>3. Cardinality(C \ {x}) = IF x \in C THEN Cardinality(C) - 1 ELSE Cardinality(C)
    BY <2>1, FS_RemoveElement
  <2>4. QED
    BY <2>2, <2>3 DEF C
<1>8. \A y \in T : f[y] \in Int
  BY <1>2
<1>9. SumGood(f, T)
  BY <1>2, <1>8, SumSplits
<1>10. SumOf(f, T) = f[x] + Cardinality((T \cap K) \ {x})
  BY <1>4, <1>5, <1>6, <1>9 DEF SumGood
<1>11. QED
  BY <1>2, <1>4, <1>7, <1>10


-----------------------------------------------------------------------------
(* Ranks.  The remainder goes, one by one, to the first of an order.         *)

Ordered(S, B) ==
  /\ \A x \in S : <<x, x>> \notin B
  /\ \A x, y, z \in S : <<x, y>> \in B /\ <<y, z>> \in B => <<x, z>> \in B
  /\ \A x, y \in S : x = y \/ <<x, y>> \in B \/ <<y, x>> \in B

Before(S, B, p) == {q \in S : <<q, p>> \in B}
Rank(S, B, p) == Cardinality(Before(S, B, p))

LEMMA RankTypes ==
  ASSUME NEW S, IsFiniteSet(S), NEW B, NEW p
  PROVE  IsFiniteSet(Before(S, B, p)) /\ Rank(S, B, p) \in Nat
<1>1. Before(S, B, p) \in SUBSET S
  BY DEF Before
<1>2. IsFiniteSet(Before(S, B, p))
  BY <1>1, FS_Subset
<1>3. QED
  BY <1>2, FS_CardinalityType DEF Rank

\* A proper subset of a finite set is smaller.
LEMMA SmallerSubset ==
  ASSUME NEW S, IsFiniteSet(S), NEW T \in SUBSET S, T # S
  PROVE  Cardinality(T) < Cardinality(S)
<1>1. /\ IsFiniteSet(T) /\ Cardinality(T) <= Cardinality(S)
      /\ Cardinality(S) # Cardinality(T)
  BY FS_Subset
<1>2. Cardinality(T) \in Nat /\ Cardinality(S) \in Nat
  BY <1>1, FS_CardinalityType
<1>3. QED
  BY <1>1, <1>2

LEMMA RanksIncrease ==
  ASSUME NEW S, IsFiniteSet(S), NEW B, Ordered(S, B), NEW q \in S, NEW p \in S, <<q, p>> \in B
  PROVE  Rank(S, B, q) < Rank(S, B, p)
<1>1. Before(S, B, q) \in SUBSET Before(S, B, p) /\ Before(S, B, q) # Before(S, B, p)
  BY DEF Before, Ordered
<1>2. QED
  BY <1>1, RankTypes, SmallerSubset DEF Rank

LEMMA RanksBelow ==
  ASSUME NEW S, IsFiniteSet(S), NEW B, Ordered(S, B), NEW p \in S
  PROVE  Rank(S, B, p) < Cardinality(S)
<1>1. Before(S, B, p) \in SUBSET S /\ Before(S, B, p) # S
  BY DEF Before, Ordered
<1>2. QED
  BY <1>1, SmallerSubset DEF Rank

\* As many elements as asked for have a rank below it: every rank is taken, once.
LEMMA FirstOnes ==
  ASSUME NEW S, IsFiniteSet(S), NEW B, Ordered(S, B), NEW n \in 0..Cardinality(S)
  PROVE  Cardinality({p \in S : Rank(S, B, p) < n}) = n
<1> DEFINE r == [p \in S |-> Rank(S, B, p)]
           F == {p \in S : Rank(S, B, p) < n}
           size == Cardinality(S)
<1>1. size \in Nat
  BY FS_CardinalityType
<1>2. \A p \in S : Rank(S, B, p) \in 0..(size - 1)
  BY <1>1, RankTypes, RanksBelow
<1>3. IsFiniteSet(0..(size - 1)) /\ Cardinality(0..(size - 1)) = size
  <2> HIDE DEF size
  <2>1. 0 \in Int /\ size - 1 \in Int
    BY <1>1
  <2>2. /\ IsFiniteSet(0..(size - 1))
        /\ Cardinality(0..(size - 1)) = IF 0 > size - 1 THEN 0 ELSE (size - 1) - 0 + 1
    BY <2>1, FS_Interval
  <2>3. QED
    BY <1>1, <2>2
<1>4. \A p, q \in S : Rank(S, B, p) = Rank(S, B, q) => p = q
  <2>1. SUFFICES ASSUME NEW p \in S, NEW q \in S, p # q PROVE Rank(S, B, p) # Rank(S, B, q)
    OBVIOUS
  <2>2. <<p, q>> \in B \/ <<q, p>> \in B
    BY <2>1 DEF Ordered
  <2>3. Rank(S, B, p) \in Nat /\ Rank(S, B, q) \in Nat
    BY RankTypes
  <2>4. QED
    BY <2>2, <2>3, RanksIncrease
<1>5. r \in Injection(S, 0..(size - 1))
  BY <1>2, <1>4 DEF Injection, IsInjective
<1>6. r \in Surjection(S, 0..(size - 1))
  BY <1>3, <1>5, FS_Injection
<1>7. \A i \in 0..(n - 1) : \E p \in F : Rank(S, B, p) = i
  <2>1. SUFFICES ASSUME NEW i \in 0..(n - 1) PROVE \E p \in F : Rank(S, B, p) = i
    OBVIOUS
  <2>2. i \in 0..(size - 1) /\ i < n
    BY <1>1
  <2>3. PICK p \in S : r[p] = i
    BY <1>6, <2>2 DEF Surjection
  <2>4. QED
    BY <2>2, <2>3
<1> DEFINE b == [p \in F |-> Rank(S, B, p)]
<1>8. b \in Bijection(F, 0..(n - 1))
  <2>1. b \in [F -> 0..(n - 1)]
    BY <1>2
  <2>2. b \in Injection(F, 0..(n - 1))
    BY <1>4, <2>1 DEF Injection, IsInjective
  <2>3. b \in Surjection(F, 0..(n - 1))
    BY <1>7, <2>1 DEF Surjection
  <2>4. QED
    BY <2>2, <2>3 DEF Bijection
<1>9. IsFiniteSet(F)
  BY FS_Subset
<1>10. ExistsBijection(F, 0..(n - 1))
  BY <1>8 DEF ExistsBijection
<1> HIDE DEF F
<1>11. Cardinality(0..(n - 1)) = Cardinality(F)
  BY <1>9, <1>10, FS_Bijection
<1>12. Cardinality(0..(n - 1)) = n
  BY <1>1, FS_Interval
<1>13. QED
  BY <1>11, <1>12 DEF F

\* Whatever comes after all of K has at least the rank that K fills.
LEMMA RankAfter ==
  ASSUME NEW S, IsFiniteSet(S), NEW B, NEW K \in SUBSET S, NEW p \in S,
         \A q \in K : <<q, p>> \in B
  PROVE  Cardinality(K) <= Rank(S, B, p)
<1>1. K \in SUBSET Before(S, B, p)
  BY DEF Before
<1>2. QED
  BY <1>1, RankTypes, FS_Subset DEF Rank

-----------------------------------------------------------------------------
(* Rounding down and handing out the remainder.                              *)

LEMMA Quotients ==
  ASSUME NEW a \in Nat, NEW d \in Nat \ {0}
  PROVE  /\ a \div d \in Nat /\ a % d \in 0..(d - 1)
         /\ a = d * (a \div d) + (a % d)
OBVIOUS

LEMMA Cancels ==
  ASSUME NEW d \in Nat \ {0}, NEW x \in Int, NEW y \in Int, d * x <= d * y
  PROVE  x <= y
<1>1. SUFFICES ASSUME x >= y + 1 PROVE FALSE
  OBVIOUS
<1>2. PICK k \in Nat : x = y + 1 + k
  BY <1>1
<1>3. d * (1 + k) \in Nat \ {0}
  OBVIOUS
<1>4. d * (y + (1 + k)) = d * y + d * (1 + k)
  BY Distribution
<1>5. x = y + (1 + k) /\ d * y \in Int
  BY <1>2
<1>6. QED
  BY <1>3, <1>4, <1>5

\* n units over S in proportion to w, whose sum is d: every part is less than a
\* unit from its exact value, one of no weight gets nothing, and the parts sum
\* to n whatever d and n are.
LargestRemainders(S, n, d, w, down, residue, B, parts) ==
  /\ IsFiniteSet(S) /\ n \in Nat /\ d \in Nat \ {0}
  /\ \A x \in S : w[x] \in Nat
  /\ SumOf(w, S) = d
  /\ \A x \in S : down[x] = (n * w[x]) \div d /\ residue[x] = (n * w[x]) % d
  /\ Ordered(S, B)
  /\ \A x, y \in S : residue[x] > residue[y] => <<x, y>> \in B
  /\ \A x \in S :
       parts[x] = down[x] + IF Rank(S, B, x) < n - SumOf(down, S) THEN 1 ELSE 0

LEMMA Apportioned ==
  ASSUME NEW S, NEW n, NEW d, NEW w, NEW down, NEW residue, NEW B, NEW parts,
         LargestRemainders(S, n, d, w, down, residue, B, parts)
  PROVE  /\ SumOf(parts, S) = n
         /\ \A x \in S : /\ parts[x] \in Nat
                         /\ d * parts[x] < n * w[x] + d
                         /\ d * parts[x] > n * w[x] - d
                         /\ w[x] = 0 => parts[x] = 0
<1>1. /\ IsFiniteSet(S) /\ n \in Nat /\ d \in Nat \ {0} /\ SumOf(w, S) = d
      /\ Ordered(S, B)
      /\ \A x, y \in S : residue[x] > residue[y] => <<x, y>> \in B
  BY DEF LargestRemainders
<1>2. \A x \in S : /\ w[x] \in Nat
                   /\ down[x] = (n * w[x]) \div d /\ residue[x] = (n * w[x]) % d
  BY DEF LargestRemainders
<1> DEFINE left == n - SumOf(down, S)
<1>3. \A x \in S : parts[x] = down[x] + IF Rank(S, B, x) < left THEN 1 ELSE 0
  BY DEF LargestRemainders
<1>4. \A x \in S : /\ down[x] \in Nat /\ residue[x] \in Nat /\ residue[x] < d
                   /\ n * w[x] \in Nat
                   /\ n * w[x] = d * down[x] + residue[x]
  <2>1. SUFFICES ASSUME NEW x \in S
                 PROVE  /\ down[x] \in Nat /\ residue[x] \in Nat /\ residue[x] < d
                        /\ n * w[x] \in Nat
                        /\ n * w[x] = d * down[x] + residue[x]
    OBVIOUS
  <2> DEFINE a == n * w[x]
  <2>2. a \in Nat
    BY <1>1, <1>2
  <2>3. down[x] = a \div d /\ residue[x] = a % d
    BY <1>2
  <2> HIDE DEF a
  <2>4. /\ down[x] \in Nat /\ residue[x] \in 0..(d - 1)
        /\ a = d * down[x] + residue[x]
    <3>1. a \div d \in Nat /\ a % d \in 0..(d - 1) /\ a = d * (a \div d) + (a % d)
      BY <1>1, <2>2, Quotients
    <3>2. QED
      BY <2>3, <3>1
  <2>5. QED
    BY <1>1, <2>2, <2>4 DEF a
<1>5. SumOf(down, S) \in Int /\ SumOf(residue, S) \in Int
  BY <1>1, <1>4, SumSplits DEF SumGood
<1>6. left \in Int
  BY <1>1, <1>5
<1>7. d * left = SumOf(residue, S)
  <2>1. n * SumOf(w, S) = d * SumOf(down, S) + SumOf(residue, S)
    BY <1>1, <1>2, <1>4, SumLinear
  <2>2. n * d = d * n
    BY <1>1
  <2>3. d * n = d * left + d * SumOf(down, S)
    <3>1. n = left + SumOf(down, S)
      BY <1>1, <1>5
    <3>2. QED
      BY <1>1, <1>5, <1>6, <3>1, Distribution
  <2>4. d * left \in Int /\ d * SumOf(down, S) \in Int
    BY <1>1, <1>5, <1>6
  <2>5. QED
    BY <1>1, <1>5, <2>1, <2>2, <2>3, <2>4
<1> HIDE DEF left
<1> DEFINE none == [x \in S |-> 0]
<1>8. SumOf(none, S) = 0
  <2>1. \A x \in S : none[x] = IF x \in {} THEN 1 ELSE 0
    OBVIOUS
  <2>2. S \cap {} = {}
    OBVIOUS
  <2> HIDE DEF none
  <2>3. SumOf(none, S) = Cardinality(S \cap {})
    BY <1>1, <2>1, SumCounts
  <2>4. QED
    BY <2>2, <2>3, FS_EmptySet
<1>9. left >= 0
  <2>1. \A x \in S : none[x] \in Int /\ residue[x] \in Int /\ none[x] <= residue[x]
    BY <1>4
  <2> HIDE DEF none
  <2>2. SumOf(none, S) <= SumOf(residue, S)
    BY <1>1, <2>1, SumMonotone
  <2>3. d * 0 <= d * left
    BY <1>1, <1>7, <1>8, <2>2
  <2>4. QED
    BY <1>1, <1>6, <2>3, Cancels
<1> DEFINE K == {x \in S : residue[x] > 0}
<1>10. Cardinality(K) \in Nat /\ Cardinality(K) <= Cardinality(S) /\ Cardinality(S) \in Nat
  <2>1. K \in SUBSET S
    OBVIOUS
  <2> HIDE DEF K
  <2>2. QED
    BY <1>1, <2>1, FS_Subset, FS_CardinalityType
<1>11. left <= Cardinality(K)
  <2> DEFINE one == [x \in S |-> IF x \in K THEN 1 ELSE 0]
             over == [x \in S |-> d * one[x] - residue[x]]
  <2>1. \A x \in S : one[x] \in Int /\ one[x] = IF x \in K THEN 1 ELSE 0
    OBVIOUS
  <2>2. S \cap K = K
    OBVIOUS
  <2>3. \A x \in S : over[x] \in Int /\ over[x] >= 0 /\ d * one[x] = 1 * residue[x] + over[x]
    <3>1. SUFFICES ASSUME NEW x \in S
                   PROVE  over[x] \in Int /\ over[x] >= 0 /\ d * one[x] = 1 * residue[x] + over[x]
      OBVIOUS
    <3>2. over[x] = d * one[x] - residue[x] /\ residue[x] \in Nat /\ residue[x] < d
      BY <1>4
    <3>3. one[x] = IF residue[x] > 0 THEN 1 ELSE 0
      OBVIOUS
    <3> HIDE DEF one, over
    <3>4. CASE residue[x] > 0
      BY <1>1, <3>2, <3>3, <3>4
    <3>5. CASE ~(residue[x] > 0)
      BY <1>1, <3>2, <3>3, <3>5
    <3>6. QED
      BY <3>4, <3>5
  <2> HIDE DEF one, over, K
  <2>4. SumOf(one, S) = Cardinality(K)
    <3>1. \A x \in S : one[x] = IF x \in K THEN 1 ELSE 0
      BY <2>1
    <3>2. SumOf(one, S) = Cardinality(S \cap K)
      BY <1>1, <3>1, SumCounts
    <3>3. QED
      BY <2>2, <3>2
  <2>5. d * SumOf(one, S) = 1 * SumOf(residue, S) + SumOf(over, S)
    BY <1>1, <1>4, <2>1, <2>3, SumLinear
  <2>6. \A x \in S : none[x] \in Int /\ none[x] <= over[x]
    BY <2>3
  <2> HIDE DEF none
  <2>7. SumOf(none, S) <= SumOf(over, S) /\ SumOf(over, S) \in Int
    BY <1>1, <2>3, <2>6, SumMonotone, SumSplits DEF SumGood
  <2>8. d * left <= d * Cardinality(K)
    BY <1>1, <1>5, <1>7, <1>8, <2>4, <2>5, <2>7
  <2>9. QED
    BY <1>1, <1>6, <1>10, <2>8, Cancels
\* Those without a residue come after all of K.
<1>12. \A x \in S \ K : ~(Rank(S, B, x) < left)
  <2>1. SUFFICES ASSUME NEW x \in S \ K PROVE ~(Rank(S, B, x) < left)
    OBVIOUS
  <2>2. \A q \in K : <<q, x>> \in B
    BY <1>1, <1>4
  <2>3. K \in SUBSET S
    OBVIOUS
  <2> HIDE DEF K
  <2>4. Cardinality(K) <= Rank(S, B, x) /\ Rank(S, B, x) \in Nat
    BY <1>1, <2>2, <2>3, RankAfter, RankTypes
  <2>5. QED
    BY <1>6, <1>10, <1>11, <2>4
<1> DEFINE F == {x \in S : Rank(S, B, x) < left}
           extra == [x \in S |-> IF x \in F THEN 1 ELSE 0]
<1>13. SumOf(extra, S) = left
  <2>1. \A x \in S : extra[x] = IF x \in F THEN 1 ELSE 0
    OBVIOUS
  <2>2. S \cap F = F
    OBVIOUS
  <2>3. Cardinality(F) = left
    BY <1>1, <1>6, <1>9, <1>10, <1>11, FirstOnes
  <2> HIDE DEF extra, F
  <2>4. SumOf(extra, S) = Cardinality(S \cap F)
    BY <1>1, <2>1, SumCounts
  <2>5. QED
    BY <2>2, <2>3, <2>4
<1>14. \A x \in S : /\ extra[x] \in Int /\ parts[x] \in Nat
                    /\ parts[x] = down[x] + extra[x]
                    /\ extra[x] = 0 \/ (extra[x] = 1 /\ residue[x] > 0)
  BY <1>3, <1>4, <1>12
<1>15. SumOf(parts, S) = n
  <2> HIDE DEF extra
  <2>1. \A x \in S : /\ parts[x] \in Int /\ down[x] \in Int /\ extra[x] \in Int
                     /\ 1 * parts[x] = 1 * down[x] + extra[x]
    BY <1>4, <1>14
  <2>2. 1 * SumOf(parts, S) = 1 * SumOf(down, S) + SumOf(extra, S)
    BY <1>1, <2>1, SumLinear
  <2>3. SumOf(parts, S) \in Int
    BY <1>1, <2>1, SumSplits DEF SumGood
  <2>4. QED
    BY <1>1, <1>5, <1>13, <2>2, <2>3 DEF left
<1>16. ASSUME NEW x \in S
       PROVE  /\ parts[x] \in Nat
              /\ d * parts[x] < n * w[x] + d
              /\ d * parts[x] > n * w[x] - d
              /\ w[x] = 0 => parts[x] = 0
  <2>1. /\ parts[x] \in Nat /\ down[x] \in Nat /\ residue[x] \in Nat /\ residue[x] < d
        /\ parts[x] = down[x] + extra[x] /\ extra[x] \in Int
        /\ extra[x] = 0 \/ (extra[x] = 1 /\ residue[x] > 0)
        /\ n * w[x] \in Nat /\ n * w[x] = d * down[x] + residue[x]
    BY <1>4, <1>14
  <2> HIDE DEF extra
  <2>2. d * parts[x] = d * down[x] + d * extra[x] /\ d * down[x] \in Int
    BY <1>1, <2>1, Distribution
  <2>3. d * 0 = 0 /\ d * 1 = d
    BY <1>1
  <2>4. d * parts[x] < n * w[x] + d /\ d * parts[x] > n * w[x] - d
    <3>1. CASE extra[x] = 0
      BY <1>1, <2>1, <2>2, <2>3, <3>1
    <3>2. CASE extra[x] = 1 /\ residue[x] > 0
      BY <1>1, <2>1, <2>2, <2>3, <3>2
    <3>3. QED
      BY <2>1, <3>1, <3>2
  <2>5. ASSUME w[x] = 0 PROVE parts[x] = 0
    <3>1. n * w[x] = 0
      BY <1>1, <2>5
    <3>2. residue[x] = 0 /\ d * parts[x] < d * 1
      <4>1. d * down[x] >= 0
        BY <1>1, <2>1
      <4>2. residue[x] = 0
        BY <2>1, <2>2, <3>1, <4>1
      <4>3. QED
        BY <1>1, <2>3, <2>4, <3>1, <4>2
    <3>3. ~(1 <= parts[x])
      <4>1. SUFFICES ASSUME 1 <= parts[x] PROVE FALSE
        OBVIOUS
      <4>2. PICK k \in Nat : parts[x] = 1 + k
        BY <2>1, <4>1
      <4>3. d * parts[x] = d * 1 + d * k /\ d * k \in Nat
        BY <1>1, <4>2, Distribution
      <4>4. QED
        BY <1>1, <2>3, <3>2, <4>3
    <3>4. QED
      BY <2>1, <3>3
  <2>6. QED
    BY <2>1, <2>4, <2>5
<1>17. QED
  BY <1>15, <1>16

\* Larger residues first, ties in the order of a key.
Ahead(residue, key, x, y) ==
  residue[x] > residue[y] \/ (residue[x] = residue[y] /\ key[x] < key[y])

LEMMA ResiduesOrder ==
  ASSUME NEW S, NEW residue, NEW key, \A x \in S : residue[x] \in Nat /\ key[x] \in Nat,
         \A x, y \in S : key[x] = key[y] => x = y,
         NEW B, \A x, y \in S : <<x, y>> \in B <=> Ahead(residue, key, x, y)
  PROVE  Ordered(S, B)
<1>1. \A x, y \in S : <<x, y>> \in B <=> \/ residue[x] > residue[y]
                                         \/ residue[x] = residue[y] /\ key[x] < key[y]
  BY DEF Ahead
<1>2. \A x \in S : <<x, x>> \notin B
  BY <1>1
<1>3. \A x, y, z \in S : <<x, y>> \in B /\ <<y, z>> \in B => <<x, z>> \in B
  BY <1>1
<1>4. \A x, y \in S : x = y \/ <<x, y>> \in B \/ <<y, x>> \in B
  <2>1. SUFFICES ASSUME NEW x \in S, NEW y \in S, x # y
                 PROVE  <<x, y>> \in B \/ <<y, x>> \in B
    OBVIOUS
  <2>2. /\ residue[x] \in Nat /\ residue[y] \in Nat /\ key[x] \in Nat /\ key[y] \in Nat
        /\ key[x] # key[y]
    BY <2>1
  <2>3. CASE residue[x] = residue[y]
    <3>1. key[x] < key[y] \/ key[y] < key[x]
      BY <2>2
    <3>2. QED
      BY <1>1, <2>3, <3>1
  <2>4. CASE residue[x] # residue[y]
    <3>1. residue[x] > residue[y] \/ residue[y] > residue[x]
      BY <2>2, <2>4
    <3>2. QED
      BY <1>1, <3>1
  <2>5. QED
    BY <2>3, <2>4
<1>5. QED
  BY <1>2, <1>3, <1>4 DEF Ordered

-----------------------------------------------------------------------------
(* The normalization of medians and the amounts of the legs.                 *)

\* The parts are the whole, and a median of zero is no part.
LEMMA NormalizedWhole ==
  ASSUME NEW m, \A p \in Participants : m[p] \in Nat, SumOf(m, Participants) > 0
  PROVE  /\ Normalized(m) \in [Participants -> Nat]
         /\ SumOf(Normalized(m), Participants) = Unit
         /\ \A p \in Participants : Normalized(m)[p] > 0 => m[p] > 0
<1> DEFINE total == SumOf(m, Participants)
           down == [p \in Participants |-> (Unit * m[p]) \div total]
           residue == [p \in Participants |-> (Unit * m[p]) % total]
           name == [p \in Participants |-> p]
           left == Unit - SumOf(down, Participants)
           parts == Normalized(m)
           B == {e \in Participants \X Participants :
                   \/ residue[e[1]] > residue[e[2]]
                   \/ residue[e[1]] = residue[e[2]] /\ name[e[1]] < name[e[2]]}
<1>1. /\ Participants \subseteq Nat /\ IsFiniteSet(Participants) /\ Unit \in Nat \ {0}
  BY CreditAssumption
<1>2. total \in Nat \ {0}
  <2>1. \A p \in Participants : m[p] \in Int
    OBVIOUS
  <2>2. total \in Int
    BY <1>1, <2>1, SumSplits DEF SumGood
  <2>3. QED
    BY <2>2
<1>3. parts = [p \in Participants |->
                 down[p] + IF Cardinality({q \in Participants :
                                \/ residue[q] > residue[p]
                                \/ residue[q] = residue[p] /\ q < p}) < left THEN 1 ELSE 0]
  BY DEF Normalized
<1>4. \A p \in Participants : residue[p] \in Nat /\ name[p] \in Nat
  <2>1. SUFFICES ASSUME NEW p \in Participants PROVE residue[p] \in Nat
    BY <1>1
  <2>2. Unit * m[p] \in Nat
    BY <1>1
  <2> HIDE DEF total
  <2>3. QED
    BY <1>2, <2>2, Quotients
<1>5. \A p \in Participants :
        down[p] = (Unit * m[p]) \div total /\ residue[p] = (Unit * m[p]) % total
  OBVIOUS
<1>6. \A p \in Participants : name[p] = p
  OBVIOUS
<1>7. DOMAIN parts = Participants /\ parts = [p \in Participants |-> parts[p]]
  BY <1>3
<1>8. \A p \in Participants :
        parts[p] = down[p] + IF Cardinality({q \in Participants :
                                \/ residue[q] > residue[p]
                                \/ residue[q] = residue[p] /\ name[q] < name[p]}) < left THEN 1 ELSE 0
  BY <1>3, <1>6
<1> HIDE DEF residue, down, parts, name, total
<1> DEFINE ahead(p) == {q \in Participants :
                          \/ residue[q] > residue[p]
                          \/ residue[q] = residue[p] /\ name[q] < name[p]}
<1>9. /\ Ordered(Participants, B)
      /\ \A x, y \in Participants : residue[x] > residue[y] => <<x, y>> \in B
      /\ \A p \in Participants : Before(Participants, B, p) = ahead(p)
  <2>1. \A p, q \in Participants : name[p] = name[q] => p = q
    BY <1>6
  <2>2. \A x, y \in Participants : <<x, y>> \in B <=> Ahead(residue, name, x, y)
    BY DEF Ahead
  <2> HIDE DEF B
  <2>3. Ordered(Participants, B)
    BY <1>4, <2>1, <2>2, ResiduesOrder
  <2>4. QED
    BY <2>2, <2>3 DEF Ahead, Before
<1> HIDE DEF B
<1>10. \A p \in Participants :
         parts[p] = down[p] + IF Rank(Participants, B, p) < left THEN 1 ELSE 0
  BY <1>8, <1>9 DEF Rank
<1>11. LargestRemainders(Participants, Unit, total, m, down, residue, B, parts)
  BY <1>1, <1>2, <1>5, <1>9, <1>10 DEF LargestRemainders, total
<1>12. /\ SumOf(parts, Participants) = Unit
       /\ \A p \in Participants : parts[p] \in Nat /\ (m[p] = 0 => parts[p] = 0)
  BY <1>11, Apportioned
<1>13. parts \in [Participants -> Nat]
  BY <1>7, <1>12
<1>14. QED
  BY <1>12, <1>13 DEF parts

AllocationSound ==
  /\ allocation \in [Participants -> Nat]
  /\ SumOf(allocation, Participants) = Unit
  /\ \A p \in Participants : allocation[p] > 0 => p \in causal

LegsExact(amounts) ==
  /\ amounts \in [Payees -> Nat]
  /\ SumOf(amounts, Payees) = bounty
  /\ \A p \in Payees : /\ amounts[p] * Unit < bounty * allocation[p] + Unit
                       /\ amounts[p] * Unit > bounty * allocation[p] - Unit

\* The legs are the bounty, each within a unit of its exact part.
LEMMA LegsSum ==
  ASSUME AllocationSound, bounty \in Nat
  PROVE  LegsExact(LegAmounts)
<1> DEFINE down == [p \in Payees |-> (bounty * allocation[p]) \div Unit]
           residue == [p \in Payees |-> (bounty * allocation[p]) % Unit]
           left == bounty - SumOf(down, Payees)
           parts == LegAmounts
           B == {e \in Payees \X Payees :
                   \/ residue[e[1]] > residue[e[2]]
                   \/ residue[e[1]] = residue[e[2]] /\ Destination[e[1]] < Destination[e[2]]}
<1>1. /\ IsFiniteSet(Participants) /\ Unit \in Nat \ {0}
      /\ Destination \in [Participants -> Nat]
      /\ \A p, q \in Participants : Destination[p] = Destination[q] => p = q
  BY CreditAssumption
<1>2. Payees \in SUBSET Participants /\ IsFiniteSet(Payees)
  <2>1. Payees \in SUBSET Participants
    BY DEF Payees
  <2>2. QED
    BY <1>1, <2>1, FS_Subset
<1>3. SumOf(allocation, Payees) = Unit
  <2>1. Participants \cap Payees = Payees
    BY <1>2
  <2>2. \A p \in Participants : allocation[p] \in Int
    BY DEF AllocationSound
  <2>3. \A p \in Participants \ Payees : allocation[p] = 0
    BY DEF AllocationSound, Payees
  <2>4. SumOf(allocation, Participants) = SumOf(allocation, Participants \cap Payees)
    BY <1>1, <2>2, <2>3, SumWithin
  <2>5. QED
    BY <2>1, <2>4 DEF AllocationSound
<1>4. parts = [p \in Payees |->
                 down[p] + IF Cardinality({q \in Payees :
                                \/ residue[q] > residue[p]
                                \/ residue[q] = residue[p] /\ Destination[q] < Destination[p]})
                              < left THEN 1 ELSE 0]
  BY DEF LegAmounts
<1>5. \A p \in Payees : residue[p] \in Nat /\ Destination[p] \in Nat /\ allocation[p] \in Nat
  <2>1. SUFFICES ASSUME NEW p \in Payees
                 PROVE  residue[p] \in Nat /\ Destination[p] \in Nat /\ allocation[p] \in Nat
    OBVIOUS
  <2>2. Destination[p] \in Nat /\ allocation[p] \in Nat
    BY <1>1, <1>2 DEF AllocationSound
  <2>3. bounty * allocation[p] \in Nat
    BY <2>2
  <2>4. QED
    BY <1>1, <2>2, <2>3, Quotients
<1>6. \A p \in Payees :
        down[p] = (bounty * allocation[p]) \div Unit /\ residue[p] = (bounty * allocation[p]) % Unit
  OBVIOUS
<1>7. \A p, q \in Payees : Destination[p] = Destination[q] => p = q
  BY <1>1, <1>2
<1>8. parts = [p \in Payees |-> parts[p]]
  BY <1>4
<1>9. \A p \in Payees :
        parts[p] = down[p] + IF Cardinality({q \in Payees :
                                \/ residue[q] > residue[p]
                                \/ residue[q] = residue[p] /\ Destination[q] < Destination[p]})
                              < left THEN 1 ELSE 0
  BY <1>4
<1> HIDE DEF residue, down, parts
<1> DEFINE ahead(p) == {q \in Payees :
                          \/ residue[q] > residue[p]
                          \/ residue[q] = residue[p] /\ Destination[q] < Destination[p]}
<1>10. /\ Ordered(Payees, B)
       /\ \A x, y \in Payees : residue[x] > residue[y] => <<x, y>> \in B
       /\ \A p \in Payees : Before(Payees, B, p) = ahead(p)
  <2>1. \A x, y \in Payees : <<x, y>> \in B <=> Ahead(residue, Destination, x, y)
    BY DEF Ahead
  <2> HIDE DEF B
  <2>2. Ordered(Payees, B)
    BY <1>5, <1>7, <2>1, ResiduesOrder
  <2>3. QED
    BY <2>1, <2>2 DEF Ahead, Before
<1> HIDE DEF B
<1>11. \A p \in Payees :
         parts[p] = down[p] + IF Rank(Payees, B, p) < left THEN 1 ELSE 0
  BY <1>9, <1>10 DEF Rank
<1>12. LargestRemainders(Payees, bounty, Unit, allocation, down, residue, B, parts)
  BY <1>1, <1>2, <1>3, <1>5, <1>6, <1>10, <1>11 DEF LargestRemainders
<1>13. /\ SumOf(parts, Payees) = bounty
       /\ \A p \in Payees : /\ parts[p] \in Nat
                            /\ Unit * parts[p] < bounty * allocation[p] + Unit
                            /\ Unit * parts[p] > bounty * allocation[p] - Unit
  BY <1>12, Apportioned
<1>14. parts \in [Payees -> Nat]
  BY <1>8, <1>13
<1>15. \A p \in Payees : Unit * parts[p] = parts[p] * Unit
  BY <1>1, <1>13
<1>16. QED
  BY <1>13, <1>14, <1>15 DEF LegsExact, parts

-----------------------------------------------------------------------------
(* The medians of the decided ballots.                                       *)

LEMMA LeastNatural ==
  ASSUME NEW T \in SUBSET Nat, T # {}
  PROVE  \E m \in T : \A n \in T : m <= n
<1> DEFINE R == {e \in Nat \X Nat : e[1] < e[2]}
<1>1. IsWellFoundedOn(R, Nat)
  BY NatLessThanWellFounded DEF OpToRel
<1>2. \A n, m \in Nat : n < m => <<n, m>> \in R
  OBVIOUS
<1> HIDE DEF R
<1>3. PICK m \in T : \A n \in T : <<n, m>> \notin R
  BY <1>1, WFMin
<1>4. \A n \in T : n \in Nat /\ m \in Nat /\ ~(n < m)
  BY <1>2, <1>3
<1>5. QED
  BY <1>4

\* What the revealed and decided ballots give a participant.
SharesGiven(p) == IsFiniteSet(Decided) /\ \A r \in Decided : ballot[r][p] \in 0..Unit

GivenBelow(p, v) == {r \in Decided : ballot[r][p] < v}
GivenUpTo(p, v) == {r \in Decided : ballot[r][p] <= v}

LEMMA GivenFinite ==
  ASSUME NEW p, SharesGiven(p), NEW v
  PROVE  Cardinality(GivenBelow(p, v)) \in Nat /\ Cardinality(GivenUpTo(p, v)) \in Nat
<1>1. GivenBelow(p, v) \in SUBSET Decided /\ GivenUpTo(p, v) \in SUBSET Decided
  BY DEF GivenBelow, GivenUpTo
<1>2. QED
  BY <1>1, FS_Subset, FS_CardinalityType DEF SharesGiven

\* The k-th smallest share is one that some ballot gives.
LEMMA KthShareGiven ==
  ASSUME NEW p, SharesGiven(p), NEW k \in 1..Cardinality(Decided)
  PROVE  KthShare(p, k) \in 0..Unit /\ \E r \in Decided : ballot[r][p] = KthShare(p, k)
<1> DEFINE T == {v \in 0..Unit : k <= Cardinality(GivenUpTo(p, v))}
<1>1. Unit \in Nat /\ Cardinality(Decided) \in Nat
  BY CreditAssumption, FS_CardinalityType DEF SharesGiven
<1>2. Unit \in T
  <2>1. GivenUpTo(p, Unit) = Decided
    BY <1>1 DEF SharesGiven, GivenUpTo
  <2>2. QED
    BY <1>1, <2>1
<1>3. PICK m \in T : \A n \in T : m <= n
  <2>1. T \in SUBSET Nat /\ T # {}
    BY <1>1, <1>2
  <2> HIDE DEF T
  <2>2. QED
    BY <2>1, LeastNatural
<1>4. Cardinality(GivenBelow(p, m)) < k
  <2>1. CASE m = 0
    <3>1. GivenBelow(p, m) = {}
      BY <1>1, <2>1 DEF SharesGiven, GivenBelow
    <3>2. QED
      BY <1>1, <3>1, FS_EmptySet
  <2>2. CASE m # 0
    <3>1. m - 1 \in 0..Unit /\ m - 1 \notin T
      BY <1>1, <1>3, <2>2
    <3>2. GivenBelow(p, m) = GivenUpTo(p, m - 1)
      BY <1>1, <1>3 DEF SharesGiven, GivenBelow, GivenUpTo
    <3>3. ~(k <= Cardinality(GivenUpTo(p, m - 1)))
      BY <3>1
    <3>4. QED
      BY <1>1, <3>2, <3>3, GivenFinite
  <2>3. QED
    BY <2>1, <2>2
<1>5. \E v \in 0..Unit : /\ Cardinality(GivenBelow(p, v)) < k
                         /\ k <= Cardinality(GivenUpTo(p, v))
  BY <1>3, <1>4
<1>6. KthShare(p, k) = CHOOSE v \in 0..Unit : /\ Cardinality(GivenBelow(p, v)) < k
                                              /\ k <= Cardinality(GivenUpTo(p, v))
  BY DEF KthShare, GivenBelow, GivenUpTo
<1>7. PICK v \in 0..Unit : /\ v = KthShare(p, k)
                           /\ Cardinality(GivenBelow(p, v)) < k
                           /\ k <= Cardinality(GivenUpTo(p, v))
  BY <1>5, <1>6
<1>8. GivenBelow(p, v) # GivenUpTo(p, v)
  BY <1>1, <1>7, GivenFinite
<1>9. \E r \in Decided : ballot[r][p] = v
  BY <1>1, <1>8 DEF SharesGiven, GivenBelow, GivenUpTo
<1>10. QED
  BY <1>7, <1>9

\* A positive median needs a ballot that gives the participant something.
LEMMA MedianGiven ==
  ASSUME NEW p \in Participants, SharesGiven(p), Cardinality(Decided) >= 2
  PROVE  /\ Median[p] \in Nat
         /\ Median[p] > 0 => \E r \in Decided : ballot[r][p] > 0
<1>1. PICK n \in Nat : n = Cardinality(Decided) /\ n >= 2
  BY FS_CardinalityType DEF SharesGiven
<1>2. Unit \in Nat
  BY CreditAssumption
<1>3. Median[p] = IF n % 2 = 1 THEN KthShare(p, n \div 2 + 1)
                  ELSE (KthShare(p, n \div 2) + KthShare(p, n \div 2 + 1)) \div 2
  BY <1>1 DEF Median
<1>4. n \div 2 \in 1..n /\ n \div 2 + 1 \in 1..n
  BY <1>1
<1>5. PICK r \in Decided : ballot[r][p] = KthShare(p, n \div 2) /\ KthShare(p, n \div 2) \in 0..Unit
  BY <1>1, <1>4, KthShareGiven
<1>6. PICK q \in Decided :
        ballot[q][p] = KthShare(p, n \div 2 + 1) /\ KthShare(p, n \div 2 + 1) \in 0..Unit
  BY <1>1, <1>4, KthShareGiven
<1>7. CASE n % 2 = 1
  <2>1. Median[p] = ballot[q][p] /\ Median[p] \in 0..Unit
    BY <1>3, <1>6, <1>7
  <2>2. QED
    BY <1>2, <2>1
<1>8. CASE n % 2 # 1
  <2>1. /\ Median[p] = (ballot[r][p] + ballot[q][p]) \div 2
        /\ ballot[r][p] \in 0..Unit /\ ballot[q][p] \in 0..Unit
    BY <1>3, <1>5, <1>6, <1>8
  <2>2. \A x, y \in Nat : (x + y) \div 2 \in Nat /\ ((x + y) \div 2 > 0 => x > 0 \/ y > 0)
    OBVIOUS
  <2>3. QED
    BY <1>2, <2>1, <2>2
<1>9. QED
  BY <1>7, <1>8

-----------------------------------------------------------------------------
(* The invariant.                                                            *)

CreditInv ==
  /\ stagePhase \in {"reviewing", "inconclusive", "allocated", "mock_paying", "mock_paid"}
  /\ bounty \in Nat \ {0}
  /\ ballot \in [Reviewers -> ValidBallots \cup {Unreadable, Nil}]
  /\ revealed \subseteq Reviewers
  /\ \A r \in revealed : ballot[r] # Nil /\ ballot[r] # Unreadable
  /\ stagePhase \in {"reviewing", "inconclusive"} => allocation = <<>>
  /\ stagePhase \in {"allocated", "mock_paying", "mock_paid"} => AllocationSound
  /\ stagePhase \in {"reviewing", "inconclusive", "allocated"} =>
       legs = <<>> /\ submitted = {} /\ confirmed = {}
  /\ stagePhase \in {"mock_paying", "mock_paid"} =>
       LegsExact(legs) /\ submitted \subseteq Payable /\ confirmed \subseteq submitted
  /\ stagePhase = "mock_paid" => confirmed = Payable

LEMMA CreditStarts == CreditInit => CreditInv
BY CreditAssumption DEF CreditInit, CreditInv

\* Whatever an agreed review decides, its normalized medians are the whole and
\* rest on evidence: a part needs a median, a median a ballot, a ballot evidence.
LEMMA AgreedIsSound ==
  ASSUME CreditInv, Agreed, Normalizable
  PROVE  /\ Normalized(Median) \in [Participants -> Nat]
         /\ SumOf(Normalized(Median), Participants) = Unit
         /\ \A p \in Participants : Normalized(Median)[p] > 0 => p \in causal
<1>1. IsFiniteSet(Decided)
  <2>1. Decided \in SUBSET Reviewers /\ IsFiniteSet(Reviewers)
    BY CreditAssumption DEF Decided, CreditInv
  <2>2. QED
    BY <2>1, FS_Subset
<1>2. \A r \in Decided : ballot[r] \in Splits /\ MayGive(ballot[r])
  BY DEF Decided, CreditInv, ValidBallots
<1>3. \A p \in Participants : SharesGiven(p)
  BY <1>1, <1>2 DEF Splits, SharesGiven
<1>4. Cardinality(Decided) >= 2
  <2>1. Cardinality(Reviewers) \in Nat /\ Cardinality(Decided) \in Nat
    BY <1>1, CreditAssumption, FS_CardinalityType
  <2>2. ReviewQuorum >= 3 /\ ReviewQuorum \in Int
    BY <2>1, CreditAssumption
  <2>3. QED
    BY <2>1, <2>2 DEF Agreed
<1>5. \A p \in Participants : /\ Median[p] \in Nat
                              /\ Median[p] > 0 => \E r \in Decided : ballot[r][p] > 0
  BY <1>3, <1>4, MedianGiven
<1>6. \A p \in Participants : Median[p] > 0 => p \in causal
  BY <1>2, <1>5 DEF MayGive
<1>7. SumOf(Median, Participants) > 0
  BY DEF Normalizable
<1>8. QED
  BY <1>5, <1>6, <1>7, NormalizedWhole

\* A revealed ballot stays what it was.
LEMMA CommitsKeepCredit ==
  ASSUME CreditInv, NEW r \in Reviewers, CommitBallot(r)
  PROVE  CreditInv'
<1>1. /\ ballot' \in [Reviewers -> ValidBallots \cup {Unreadable, Nil}]
      /\ \A q \in Reviewers : q # r => ballot'[q] = ballot[q]
      /\ ballot[r] = Nil
  BY DEF CommitBallot, CreditInv
<1>2. \A q \in revealed' : ballot'[q] # Nil /\ ballot'[q] # Unreadable
  BY <1>1 DEF CommitBallot, CreditInv
<1>3. UNCHANGED <<stagePhase, causal, bounty, revealed, allocation, legs, submitted, confirmed>>
  BY DEF CommitBallot
<1>4. (ValidBallots \cup {Unreadable, Nil})' = ValidBallots \cup {Unreadable, Nil}
  BY <1>3 DEF ValidBallots, MayGive
<1>5. stagePhase \in {"reviewing"}
  BY DEF CommitBallot
<1>6. QED
  BY <1>1, <1>2, <1>3, <1>4, <1>5 DEF CreditInv

\* What the invariant says past the review depends on these.
LEMMA SettledKept ==
  ASSUME UNCHANGED <<causal, bounty, allocation, legs>>
  PROVE  /\ AllocationSound' = AllocationSound
         /\ LegsExact(legs)' = LegsExact(legs)
         /\ Payable' = Payable
         /\ ValidBallots' = ValidBallots
BY DEF AllocationSound, LegsExact, Payees, Payable, ValidBallots, MayGive

LEMMA ReviewKeepsCredit ==
  ASSUME CreditInv, CloseCommits \/ \E r \in Reviewers : RevealBallot(r)
  PROVE  CreditInv'
<1>1. UNCHANGED <<stagePhase, causal, bounty, ballot, allocation, legs, submitted, confirmed>>
  BY DEF CloseCommits, RevealBallot
<1>2. revealed' \subseteq Reviewers /\ \A r \in revealed' : ballot[r] # Nil /\ ballot[r] # Unreadable
  <2>1. CASE CloseCommits
    BY <2>1 DEF CloseCommits, CreditInv
  <2>2. ASSUME NEW r \in Reviewers, RevealBallot(r)
        PROVE  revealed' \subseteq Reviewers /\ \A q \in revealed' : ballot[q] # Nil /\ ballot[q] # Unreadable
    BY <2>2 DEF RevealBallot, Committed, CreditInv
  <2>3. QED
    BY <2>1, <2>2
<1>3. /\ AllocationSound' = AllocationSound /\ LegsExact(legs)' = LegsExact(legs)
      /\ Payable' = Payable /\ ValidBallots' = ValidBallots
  BY <1>1, SettledKept
<1>4. QED
  BY <1>1, <1>2, <1>3 DEF CreditInv

LEMMA AllocationKeepsCredit ==
  ASSUME CreditInv, FinalizeAllocation
  PROVE  CreditInv'
<1>1. /\ UNCHANGED <<causal, bounty, ballot, closed, revealed, legs, submitted, confirmed>>
      /\ stagePhase = "reviewing"
  BY DEF FinalizeAllocation
<1>2. ValidBallots' = ValidBallots
  BY <1>1 DEF ValidBallots, MayGive
<1>3. CASE stagePhase' = "inconclusive" /\ UNCHANGED allocation
  BY <1>1, <1>2, <1>3 DEF CreditInv
<1>4. CASE /\ Agreed /\ Normalizable
           /\ stagePhase' = "allocated" /\ allocation' = Normalized(Median)
  <2>1. AllocationSound'
    BY <1>1, <1>4, AgreedIsSound DEF AllocationSound
  <2>2. QED
    BY <1>1, <1>2, <1>4, <2>1 DEF CreditInv
<1>5. QED
  BY <1>3, <1>4 DEF FinalizeAllocation

LEMMA PlanKeepsCredit ==
  ASSUME CreditInv, CreatePlan
  PROVE  CreditInv'
<1>1. /\ UNCHANGED <<causal, bounty, ballot, closed, revealed, allocation, submitted, confirmed>>
      /\ stagePhase = "allocated" /\ stagePhase' = "mock_paying" /\ legs' = LegAmounts
  BY DEF CreatePlan
<1>2. AllocationSound /\ bounty \in Nat
  BY <1>1 DEF CreditInv
<1>3. LegsExact(LegAmounts)
  BY <1>2, LegsSum
<1>4. AllocationSound' /\ LegsExact(legs)'
  <2>1. Payees' = Payees
    BY <1>1 DEF Payees
  <2>2. QED
    BY <1>1, <1>2, <1>3, <2>1 DEF AllocationSound, LegsExact
<1>5. ValidBallots' = ValidBallots
  BY <1>1 DEF ValidBallots, MayGive
<1>6. submitted' \subseteq Payable' /\ confirmed' \subseteq submitted'
  BY <1>1 DEF CreditInv
<1>7. QED
  BY <1>1, <1>4, <1>5, <1>6 DEF CreditInv

LEMMA PaymentsKeepCredit ==
  ASSUME CreditInv, NEW p \in Participants, SubmitLeg(p) \/ ConfirmLeg(p)
  PROVE  CreditInv'
<1>1. /\ UNCHANGED <<causal, bounty, ballot, closed, revealed, allocation, legs>>
      /\ stagePhase = "mock_paying"
  BY DEF SubmitLeg, ConfirmLeg
<1>2. /\ AllocationSound' = AllocationSound /\ LegsExact(legs)' = LegsExact(legs)
      /\ Payable' = Payable /\ ValidBallots' = ValidBallots
  BY <1>1, SettledKept
<1>3. /\ AllocationSound /\ LegsExact(legs)
      /\ submitted \subseteq Payable /\ confirmed \subseteq submitted
  BY <1>1 DEF CreditInv
<1>4. /\ submitted' \subseteq Payable /\ confirmed' \subseteq submitted'
      /\ stagePhase' \in {"mock_paying", "mock_paid"}
      /\ stagePhase' = "mock_paid" => confirmed' = Payable
  <2>1. CASE SubmitLeg(p)
    BY <1>1, <1>3, <2>1 DEF SubmitLeg
  <2>2. CASE ConfirmLeg(p)
    BY <1>1, <1>2, <1>3, <2>2 DEF ConfirmLeg
  <2>3. QED
    BY <2>1, <2>2
<1>5. QED
  BY <1>1, <1>2, <1>3, <1>4 DEF CreditInv

\* The invariant holds throughout: the ballots stay valid, what is allocated
\* rests on them, and what is paid on the allocation.
THEOREM CreditTyped == CreditSpec => []CreditInv
<1>1. CreditInit => CreditInv
  BY CreditStarts
<1>2. CreditInv /\ [CreditNext]_creditVars => CreditInv'
  <2>1. SUFFICES ASSUME CreditInv, [CreditNext]_creditVars PROVE CreditInv'
    OBVIOUS
  <2>2. CASE UNCHANGED creditVars
    <3>1. UNCHANGED <<stagePhase, causal, bounty, ballot, revealed, allocation, legs,
                      submitted, confirmed>>
      BY <2>2 DEF creditVars
    <3>2. /\ AllocationSound' = AllocationSound /\ LegsExact(legs)' = LegsExact(legs)
          /\ Payable' = Payable /\ ValidBallots' = ValidBallots
      BY <3>1, SettledKept
    <3>3. QED
      BY <2>1, <3>1, <3>2 DEF CreditInv
  <2>3. CASE CloseCommits \/ \E r \in Reviewers : RevealBallot(r)
    BY <2>1, <2>3, ReviewKeepsCredit
  <2>4. ASSUME NEW r \in Reviewers, CommitBallot(r) PROVE CreditInv'
    BY <2>1, <2>4, CommitsKeepCredit
  <2>5. CASE FinalizeAllocation
    BY <2>1, <2>5, AllocationKeepsCredit
  <2>6. CASE CreatePlan
    BY <2>1, <2>6, PlanKeepsCredit
  <2>7. ASSUME NEW p \in Participants, SubmitLeg(p) \/ ConfirmLeg(p) PROVE CreditInv'
    BY <2>1, <2>7, PaymentsKeepCredit
  <2>8. QED
    BY <2>1, <2>2, <2>3, <2>4, <2>5, <2>6, <2>7 DEF CreditNext, ClerkSettles
<1>3. QED
  BY <1>1, <1>2, PTL DEF CreditSpec

\* Every allocation is the whole, and whoever has a part of it is among those
\* whose handoffs the sealed result rests on (aggregate_credit_ballots).
THEOREM CreditRestsOnEvidence == CreditSpec => []CreditNeedsEvidence
<1>1. CreditInv => CreditNeedsEvidence
  BY DEF CreditInv, CreditNeedsEvidence, AllocationSound
<1>2. QED
  BY <1>1, CreditTyped, PTL

\* What is paid is the bounty, each leg within a unit of its exact part
\* (payout_legs, mock_payout_leg_confirmed).
THEOREM BountyPaid == CreditSpec => []PaidExactly
<1>1. CreditInv => PaidExactly
  <2>1. SUFFICES ASSUME CreditInv PROVE PaidExactly
    OBVIOUS
  <2>2. CASE legs = <<>> /\ stagePhase # "mock_paid"
    BY <2>2 DEF PaidExactly
  <2>3. CASE ~(legs = <<>> /\ stagePhase # "mock_paid")
    <3>1. LegsExact(legs) /\ (stagePhase = "mock_paid" => confirmed = Payable)
      BY <2>1, <2>3 DEF CreditInv
    <3>2. DOMAIN legs = Payees /\ \A p \in Payees : legs[p] \in Nat
      BY <3>1 DEF LegsExact
    <3>3. SumOf(legs, Payable) = bounty
      <4>1. IsFiniteSet(Payees)
        BY CreditAssumption, FS_Subset DEF Payees
      <4>2. Payees \cap Payable = Payable
        BY <3>2 DEF Payable
      <4>3. \A p \in Payees \ Payable : legs[p] = 0
        BY <3>2 DEF Payable
      <4>4. \A p \in Payees : legs[p] \in Int
        BY <3>2
      <4>5. SumOf(legs, Payees) = SumOf(legs, Payees \cap Payable)
        BY <4>1, <4>3, <4>4, SumWithin
      <4>6. QED
        BY <3>1, <4>2, <4>5 DEF LegsExact
    <3>4. QED
      BY <3>1, <3>2, <3>3 DEF PaidExactly, LegsExact
  <2>4. QED
    BY <2>2, <2>3
<1>2. QED
  BY <1>1, CreditTyped, PTL

\* The legs of an allocated case are the bounty, each within a unit of its
\* exact part: the plan that the clerk computes is never refused for its sum
\* (mock_payout_plan_created).
PlanExact == stagePhase = "allocated" => LegsExact(LegAmounts)

LEMMA PlansExact == CreditInv => PlanExact
BY LegsSum DEF CreditInv, PlanExact

THEOREM PlansBalance == CreditSpec => []PlanExact
BY PlansExact, CreditTyped, PTL

-----------------------------------------------------------------------------
(* The abstract settlement.                                                  *)

\* A sum is the sum of a part and of the rest.
LEMMA SumParts ==
  ASSUME NEW S, IsFiniteSet(S), NEW f, \A x \in S : f[x] \in Int, NEW T \in SUBSET S
  PROVE  /\ SumOf(f, S) = SumOf(f, T) + SumOf(f, S \ T)
         /\ SumOf(f, T) \in Int /\ SumOf(f, S \ T) \in Int
<1> DEFINE part == [x \in S |-> IF x \in T THEN f[x] ELSE 0]
           rest == [x \in S |-> IF x \in T THEN 0 ELSE f[x]]
<1>1. \A x \in S : /\ part[x] \in Int /\ rest[x] \in Int /\ f[x] \in Int
                   /\ part[x] = IF x \in T THEN f[x] ELSE 0
                   /\ rest[x] = IF x \in T THEN 0 ELSE f[x]
  OBVIOUS
<1> HIDE DEF part, rest
<1>2. \A x \in S : 1 * f[x] = 1 * part[x] + rest[x]
  BY <1>1
<1>3. 1 * SumOf(f, S) = 1 * SumOf(part, S) + SumOf(rest, S)
  BY <1>1, <1>2, SumLinear
<1>4. /\ IsFiniteSet(T) /\ IsFiniteSet(S \ T)
      /\ S \cap T = T /\ S \cap (S \ T) = S \ T
  BY FS_Subset
<1>5. SumOf(part, S) = SumOf(part, T)
  BY <1>1, <1>4, SumWithin
<1>6. SumOf(rest, S) = SumOf(rest, S \ T)
  <2>1. \A x \in S \ (S \ T) : rest[x] = 0
    BY <1>1
  <2>2. SumOf(rest, S) = SumOf(rest, S \cap (S \ T))
    BY <1>1, <2>1, SumWithin
  <2>3. QED
    BY <1>4, <2>2
<1>7. SumOf(part, T) = SumOf(f, T)
  <2>1. \A x \in T : part[x] \in Int /\ part[x] = f[x]
    BY <1>1
  <2>2. QED
    BY <1>4, <2>1, SumSame
<1>8. SumOf(rest, S \ T) = SumOf(f, S \ T)
  <2>1. \A x \in S \ T : rest[x] \in Int /\ rest[x] = f[x]
    BY <1>1
  <2>2. QED
    BY <1>4, <2>1, SumSame
<1>9. SumOf(f, S) \in Int /\ SumOf(f, T) \in Int /\ SumOf(f, S \ T) \in Int
  BY <1>4, SumSplits DEF SumGood
<1>10. QED
  BY <1>3, <1>5, <1>6, <1>7, <1>8, <1>9

\* A sum of naturals bounds each term, and is zero only if each is.
LEMMA SumOfNaturals ==
  ASSUME NEW S, IsFiniteSet(S), NEW f, \A x \in S : f[x] \in Nat
  PROVE  /\ SumOf(f, S) \in Nat
         /\ \A x \in S : f[x] <= SumOf(f, S)
         /\ SumOf(f, S) = 0 <=> \A x \in S : f[x] = 0
<1> DEFINE none == [x \in S |-> 0]
<1>1. \A T \in SUBSET S : SumOf(f, T) \in Nat
  <2>1. SUFFICES ASSUME NEW T \in SUBSET S PROVE SumOf(f, T) \in Nat
    OBVIOUS
  <2>2. IsFiniteSet(T) /\ \A x \in T : f[x] \in Int
    BY FS_Subset
  <2>3. SumOf(none, T) = 0
    <3>1. \A x \in T : none[x] \in Int
      OBVIOUS
    <3>2. \A x \in T \ {} : none[x] = 0
      OBVIOUS
    <3> HIDE DEF none
    <3>3. SumOf(none, T) = SumOf(none, T \cap {})
      BY <2>2, <3>1, <3>2, SumWithin
    <3>4. T \cap {} = {}
      OBVIOUS
    <3>5. QED
      BY <3>3, <3>4, SumEmpty
  <2>4. \A x \in T : none[x] \in Int /\ none[x] <= f[x]
    OBVIOUS
  <2> HIDE DEF none
  <2>5. SumOf(none, T) <= SumOf(f, T) /\ SumOf(f, T) \in Int
    BY <2>2, <2>4, SumMonotone, SumSplits DEF SumGood
  <2>6. QED
    BY <2>3, <2>5
<1>2. \A x \in S : SumOf(f, S) = f[x] + SumOf(f, S \ {x})
  <2>1. \A x \in S : f[x] \in Int
    OBVIOUS
  <2>2. QED
    BY <2>1, SumSplits DEF SumGood
<1>3. \A x \in S : f[x] <= SumOf(f, S)
  <2>1. SUFFICES ASSUME NEW x \in S PROVE f[x] <= SumOf(f, S)
    OBVIOUS
  <2>2. SumOf(f, S \ {x}) \in Nat
    BY <1>1
  <2>3. QED
    BY <1>2, <2>2
<1>4. ASSUME \A x \in S : f[x] = 0 PROVE SumOf(f, S) = 0
  <2>1. (\A x \in S : f[x] \in Int) /\ (\A x \in S \ {} : f[x] = 0)
    BY <1>4
  <2>2. SumOf(f, S) = SumOf(f, S \cap {}) /\ S \cap {} = {}
    BY <2>1, SumWithin
  <2>3. QED
    BY <2>2, SumEmpty
<1>5. QED
  BY <1>1, <1>3, <1>4

Due == [p \in Participants |-> DueTo(p)]

\* Commitments, reveals and submissions are not seen.
LEMMA SettlementStutters ==
  ASSUME UNCHANGED <<stagePhase, causal, bounty, allocation, legs, confirmed>>
  PROVE  UNCHANGED Settling!vars
BY DEF Settling!vars, Unpaid, DueTo, Verdict, Amounts, LegAmounts, Payees

LEMMA SettlementInit == CreditInit => Settling!Init
<1>1. SUFFICES ASSUME CreditInit PROVE Settling!Init
  OBVIOUS
<1>2. stagePhase = "reviewing" /\ bounty \in Nat \ {0} /\ causal \subseteq Participants
  BY <1>1, CreditAssumption DEF CreditInit
<1>3. Unpaid = bounty /\ Verdict = "open" /\ \A p \in Participants : DueTo(p) = 0
  BY <1>2 DEF Unpaid, Verdict, DueTo
<1>4. QED
  BY <1>2, <1>3 DEF Settling!Init, Settling!NothingDue

\* What an allocated case owes is the bounty, leg by leg.
LEMMA DecisionMaps ==
  ASSUME CreditInv, CreditInv', FinalizeAllocation
  PROVE  Settling!Next
<1>1. /\ UNCHANGED <<causal, bounty, legs, confirmed>> /\ stagePhase = "reviewing"
      /\ bounty \in Nat \ {0} /\ confirmed' = {}
  BY DEF FinalizeAllocation, CreditInv
<1>2. Unpaid = bounty /\ Verdict = "open" /\ \A p \in Participants : DueTo(p) = 0
  BY <1>1 DEF Unpaid, Verdict, DueTo
<1>3. CASE stagePhase' = "inconclusive"
  <2>1. Unpaid' = bounty /\ Verdict' = "declined" /\ \A p \in Participants : DueTo(p)' = 0
    BY <1>1, <1>3 DEF Unpaid, Verdict, DueTo
  <2>2. Settling!Decline
    BY <1>1, <1>2, <2>1 DEF Settling!Decline
  <2>3. QED
    BY <2>2 DEF Settling!Next
<1>4. CASE stagePhase' = "allocated"
  <2>1. AllocationSound' /\ bounty' \in Nat
    BY <1>1, <1>4 DEF CreditInv
  <2>2. LegsExact(LegAmounts)'
    <3>1. PlanExact'
      BY PlansExact, PTL
    <3>2. QED
      BY <1>4, <3>1 DEF PlanExact
  <2> DEFINE amounts == LegAmounts'
             payees == Payees'
  <2>3. /\ payees \in SUBSET Participants /\ IsFiniteSet(payees)
        /\ amounts \in [payees -> Nat] /\ SumOf(amounts, payees) = bounty
        /\ \A p \in payees : p \in causal
    BY <1>1, <2>1, <2>2, CreditAssumption, FS_Subset DEF LegsExact, Payees, AllocationSound
  <2>4. \A p \in Participants : DueTo(p)' = IF p \in payees THEN amounts[p] ELSE 0
    BY <1>1, <1>4 DEF DueTo, Amounts
  <2>5. Unpaid' = bounty /\ Verdict' = "decided"
    BY <1>1, <1>4 DEF Unpaid, Verdict
  <2> HIDE DEF amounts, payees
  <2>6. /\ \A p \in payees : amounts[p] \in 0..bounty
        /\ \E p \in payees : amounts[p] # 0
    BY <1>1, <2>3, SumOfNaturals
  <2>7. /\ Due' \in [Participants -> 0..bounty] /\ Due' # Settling!NothingDue
        /\ \A p \in Participants : Due'[p] > 0 => p \in causal
    BY <1>1, <2>3, <2>4, <2>6 DEF Due, Settling!NothingDue
  <2>8. Settling!Decide
    BY <1>1, <1>2, <2>5, <2>7 DEF Settling!Decide, Due
  <2>9. QED
    BY <2>8 DEF Settling!Next
<1>5. QED
  BY <1>3, <1>4 DEF FinalizeAllocation

\* The plan writes down what is due already.
LEMMA PlanMaps ==
  ASSUME CreditInv, CreatePlan
  PROVE  UNCHANGED Settling!vars
<1>1. /\ UNCHANGED <<causal, bounty, allocation, confirmed>> /\ legs' = LegAmounts
      /\ stagePhase = "allocated" /\ stagePhase' = "mock_paying"
      /\ bounty \in Nat /\ confirmed = {}
  BY DEF CreatePlan, CreditInv
<1>2. Unpaid' = Unpaid
  <2>1. Unpaid = bounty /\ Unpaid' = bounty - SumOf(legs', {})
    BY <1>1 DEF Unpaid
  <2>2. QED
    BY <1>1, <2>1, SumEmpty
<1>3. Verdict' = Verdict
  BY <1>1 DEF Verdict
<1>4. \A p \in Participants : DueTo(p)' = DueTo(p)
  BY <1>1 DEF DueTo, Amounts, Payees
<1>5. QED
  BY <1>1, <1>2, <1>3, <1>4 DEF Settling!vars

\* A confirmation takes one leg, whole, out of what is left.
LEMMA PaymentMaps ==
  ASSUME CreditInv, CreditInv', NEW p \in Participants, ConfirmLeg(p)
  PROVE  Settling!Pay(p)
<1>1. /\ UNCHANGED <<causal, bounty, allocation, legs>>
      /\ stagePhase = "mock_paying" /\ p \in submitted \ confirmed
      /\ confirmed' = confirmed \cup {p}
      /\ stagePhase' = IF confirmed' = Payable THEN "mock_paid" ELSE "mock_paying"
  BY DEF ConfirmLeg
<1>2. /\ LegsExact(legs) /\ bounty \in Nat
      /\ confirmed \subseteq Payable /\ p \in Payable /\ confirmed' \subseteq Payable
  BY <1>1 DEF CreditInv
<1>3. /\ DOMAIN legs = Payees /\ Payees' = Payees /\ Payees \subseteq Participants
      /\ IsFiniteSet(Payees) /\ SumOf(legs, Payees) = bounty
      /\ \A q \in Payees : legs[q] \in Nat
  BY <1>1, <1>2, CreditAssumption, FS_Subset DEF LegsExact, Payees
<1>4. Payable = {q \in Payees : legs[q] > 0}
  BY <1>3 DEF Payable
<1> DEFINE open == Payees \ confirmed
           rest == Payees \ confirmed'
<1>5. /\ p \in open /\ rest = open \ {p} /\ legs[p] > 0
      /\ open \in SUBSET Payees /\ rest \in SUBSET Payees
      /\ IsFiniteSet(open) /\ IsFiniteSet(rest)
  BY <1>1, <1>2, <1>3, <1>4, FS_Subset
<1>6. /\ Unpaid = SumOf(legs, open) /\ Unpaid' = SumOf(legs, rest)
      /\ Unpaid \in Nat /\ Unpaid' \in Nat
  <2>1. confirmed \in SUBSET Payees /\ confirmed' \in SUBSET Payees
    BY <1>2, <1>4
  <2>2. /\ SumOf(legs, Payees) = SumOf(legs, confirmed) + SumOf(legs, open)
        /\ SumOf(legs, confirmed) \in Int
    BY <1>3, <2>1, SumParts
  <2>3. /\ SumOf(legs, Payees) = SumOf(legs, confirmed') + SumOf(legs, rest)
        /\ SumOf(legs, confirmed') \in Int
    BY <1>3, <2>1, SumParts
  <2>4. SumOf(legs, open) \in Nat /\ SumOf(legs, rest) \in Nat
    BY <1>3, <1>5, SumOfNaturals
  <2>5. Unpaid = bounty - SumOf(legs, confirmed) /\ Unpaid' = bounty - SumOf(legs, confirmed')
    BY <1>1 DEF Unpaid
  <2> HIDE DEF open, rest
  <2>6. SumOf(legs, open) = bounty - SumOf(legs, confirmed)
    BY <1>3, <2>2, <2>4
  <2>7. SumOf(legs, rest) = bounty - SumOf(legs, confirmed')
    BY <1>3, <2>3, <2>4
  <2>8. QED
    BY <2>4, <2>5, <2>6, <2>7
<1>7. Unpaid' = Unpaid - legs[p] /\ legs[p] \in 1..Unpaid
  <2>1. SumOf(legs, open) = legs[p] + SumOf(legs, rest)
    BY <1>3, <1>5, SumSplits DEF SumGood
  <2>2. legs[p] <= SumOf(legs, open)
    BY <1>3, <1>5, SumOfNaturals
  <2>3. QED
    BY <1>3, <1>5, <1>6, <2>1, <2>2
<1>8. \A q \in Participants : /\ DueTo(q) = IF q \in open THEN legs[q] ELSE 0
                              /\ DueTo(q)' = IF q \in rest THEN legs[q] ELSE 0
  BY <1>1, <1>3 DEF DueTo, Amounts
<1> HIDE DEF open, rest
<1>9. Due' = [Due EXCEPT ![p] = 0] /\ Due[p] = legs[p]
  BY <1>5, <1>8 DEF Due
<1>10. Unpaid' = 0 <=> \A q \in rest : legs[q] = 0
  BY <1>3, <1>5, <1>6, SumOfNaturals
<1>11. Unpaid' = 0 <=> Due' = Settling!NothingDue
  BY <1>3, <1>5, <1>8, <1>10 DEF Due, Settling!NothingDue
<1>12. confirmed' = Payable <=> Unpaid' = 0
  BY <1>2, <1>3, <1>4, <1>10 DEF rest
<1>13. /\ Verdict = "decided"
       /\ Verdict' = IF Unpaid' = 0 THEN "settled" ELSE "decided"
  BY <1>1, <1>12 DEF Verdict
<1>14. QED
  BY <1>1, <1>7, <1>9, <1>11, <1>13 DEF Settling!Pay, Due

\* Whatever the ballots and the order of the payments, the case is settled as
\* Settlement says: decided at most once, due to the entitled only, each leg
\* paid once and whole, and settled exactly when the bounty is paid out.
THEOREM SettlementImplemented == CreditSpec => ImplementsSettlement
<1>1. CreditInv /\ CreditInv' /\ [CreditNext]_creditVars => [Settling!Next]_(Settling!vars)
  <2>1. SUFFICES ASSUME CreditInv, CreditInv', [CreditNext]_creditVars
                 PROVE  Settling!Next \/ UNCHANGED Settling!vars
    OBVIOUS
  <2>2. CASE \/ UNCHANGED creditVars \/ CloseCommits
             \/ \E r \in Reviewers : CommitBallot(r) \/ RevealBallot(r)
             \/ \E p \in Participants : SubmitLeg(p)
    <3>1. UNCHANGED <<stagePhase, causal, bounty, allocation, legs, confirmed>>
      BY <2>2 DEF creditVars, CloseCommits, CommitBallot, RevealBallot, SubmitLeg
    <3>2. QED
      BY <3>1, SettlementStutters
  <2>3. CASE FinalizeAllocation
    BY <2>1, <2>3, DecisionMaps
  <2>4. CASE CreatePlan
    BY <2>1, <2>4, PlanMaps
  <2>5. ASSUME NEW p \in Participants, ConfirmLeg(p) PROVE Settling!Next
    BY <2>1, <2>5, PaymentMaps DEF Settling!Next
  <2>6. QED
    BY <2>1, <2>2, <2>3, <2>4, <2>5 DEF CreditNext, ClerkSettles
<1>2. QED
  BY <1>1, SettlementInit, CreditTyped, PTL DEF CreditSpec, ImplementsSettlement, Settling!Spec

-----------------------------------------------------------------------------
(* Progress of the payout: no stage is a dead end, and each step is one less. *)

\* What is asked before the clerk's next entry holds of some entry in every
\* stage of the payout, whatever has been submitted and confirmed so far: the plan
\* is the bounty, or a leg is left to submit or to confirm.
NoDeadEnd ==
  /\ stagePhase = "allocated" => SumOf(LegAmounts, Payees) = bounty
  /\ stagePhase = "mock_paying" =>
       \E p \in Participants : p \in Payable \ submitted \/ p \in submitted \ confirmed

\* The entries that are left until the case is paid.
EntriesLeft ==
  (Cardinality(Payable) - Cardinality(submitted)) + (Cardinality(Payable) - Cardinality(confirmed))

\* Every step of a case that is being paid is one of these entries: there are at
\* most two for each leg.
EntriesRunOut ==
  [][stagePhase = "mock_paying" => EntriesLeft \in Nat /\ EntriesLeft' = EntriesLeft - 1]_creditVars

\* A case that is being paid is not paid.
PayingInv == CreditInv /\ (stagePhase = "mock_paying" => confirmed # Payable)

LEMMA LegsArePositive ==
  ASSUME CreditInv, stagePhase \in {"mock_paying", "mock_paid"}
  PROVE  Payable # {} /\ Payable \subseteq Participants /\ IsFiniteSet(Payable)
<1>1. LegsExact(legs) /\ bounty \in Nat \ {0}
  BY DEF CreditInv
<1>2. Payees \subseteq Participants /\ IsFiniteSet(Payees)
  <2>1. Payees \in SUBSET Participants
    BY DEF Payees
  <2>2. QED
    BY <2>1, CreditAssumption, FS_Subset
<1>3. DOMAIN legs = Payees /\ \A p \in Payees : legs[p] \in Nat
  BY <1>1 DEF LegsExact
<1>4. Payable # {}
  <2>1. SUFFICES ASSUME \A p \in Payees : legs[p] = 0 PROVE FALSE
    BY <1>3 DEF Payable
  <2>2. SumOf(legs, Payees) = 0
    BY <1>2, <1>3, <2>1, SumOfNaturals
  <2>3. QED
    BY <1>1, <2>2 DEF LegsExact
<1>5. Payable \in SUBSET Payees
  BY <1>3 DEF Payable
<1>6. QED
  BY <1>2, <1>4, <1>5, FS_Subset

HasPayable == stagePhase = "mock_paying" => Payable # {}

LEMMA PayableHeld == CreditInv => HasPayable
BY LegsArePositive DEF HasPayable

LEMMA PayingHolds == CreditSpec => []PayingInv
<1>1. CreditInit => (stagePhase = "mock_paying" => confirmed # Payable)
  BY DEF CreditInit
<1>2. /\ PayingInv /\ CreditInv' /\ [CreditNext]_creditVars
      => (stagePhase = "mock_paying" => confirmed # Payable)'
  <2>1. SUFFICES ASSUME PayingInv, CreditInv', [CreditNext]_creditVars,
                        stagePhase' = "mock_paying"
                 PROVE  confirmed' # Payable'
    OBVIOUS
  <2>2. CASE CreatePlan
    <3>1. confirmed' = {}
      BY <2>1, <2>2 DEF PayingInv, CreditInv, CreatePlan
    <3>2. HasPayable'
      BY <2>1, PayableHeld, PTL
    <3>3. QED
      BY <2>1, <3>1, <3>2 DEF HasPayable
  <2>3. ASSUME NEW p \in Participants, ConfirmLeg(p) PROVE confirmed' # Payable'
    BY <2>1, <2>3 DEF ConfirmLeg, Payable
  <2>4. CASE \/ UNCHANGED creditVars \/ \E p \in Participants : SubmitLeg(p)
             \/ CloseCommits \/ \E r \in Reviewers : CommitBallot(r) \/ RevealBallot(r)
    BY <2>1, <2>4 DEF PayingInv, Payable, creditVars, SubmitLeg, CloseCommits, CommitBallot,
                      RevealBallot
  <2>5. CASE FinalizeAllocation
    BY <2>1, <2>5 DEF FinalizeAllocation
  <2>6. QED
    BY <2>1, <2>2, <2>3, <2>4, <2>5 DEF CreditNext, ClerkSettles
<1>3. QED
  BY <1>1, <1>2, CreditTyped, PTL DEF CreditSpec, PayingInv

\* No stage of the payout is a dead end (mock_payout_plan_created,
\* mock_payout_leg_submitted, mock_payout_leg_confirmed).
THEOREM PayoutGoesOn == CreditSpec => []NoDeadEnd
<1>1. PayingInv => NoDeadEnd
  <2>1. SUFFICES ASSUME PayingInv PROVE NoDeadEnd
    OBVIOUS
  <2>2. CASE stagePhase = "mock_paying"
    <3>1. /\ Payable \subseteq Participants /\ confirmed # Payable
          /\ submitted \subseteq Payable /\ confirmed \subseteq submitted
      BY <2>1, <2>2, LegsArePositive DEF PayingInv, CreditInv
    <3>2. PICK p \in Payable : p \notin confirmed
      BY <3>1
    <3>3. QED
      BY <2>2, <3>1, <3>2 DEF NoDeadEnd
  <2>3. CASE stagePhase # "mock_paying"
    BY <2>1, <2>3, PlansExact DEF PayingInv, PlanExact, LegsExact, NoDeadEnd
  <2>4. QED
    BY <2>2, <2>3
<1>2. QED
  BY <1>1, PayingHolds, PTL

\* A payout ends: what is left of it gets less with every entry, as a leg is
\* neither submitted nor confirmed twice.
THEOREM PayoutRunsOut == CreditSpec => EntriesRunOut
<1>1. CreditInv /\ [CreditNext]_creditVars
      => [stagePhase = "mock_paying" => EntriesLeft \in Nat /\ EntriesLeft' = EntriesLeft - 1]_creditVars
  <2>1. SUFFICES ASSUME CreditInv, CreditNext, stagePhase = "mock_paying"
                 PROVE  EntriesLeft \in Nat /\ EntriesLeft' = EntriesLeft - 1
    OBVIOUS
  <2>2. IsFiniteSet(Payable) /\ submitted \in SUBSET Payable /\ confirmed \in SUBSET submitted
    BY <2>1, LegsArePositive DEF CreditInv
  <2>3. IsFiniteSet(submitted) /\ IsFiniteSet(confirmed)
    BY <2>2, FS_Subset
  <2>4. /\ Cardinality(Payable) \in Nat /\ Cardinality(submitted) \in Nat
        /\ Cardinality(confirmed) \in Nat
        /\ Cardinality(submitted) <= Cardinality(Payable)
        /\ Cardinality(confirmed) <= Cardinality(submitted)
    BY <2>2, <2>3, FS_Subset, FS_CardinalityType
  <2>5. PICK p \in Participants : SubmitLeg(p) \/ ConfirmLeg(p)
    BY <2>1 DEF CreditNext, ClerkSettles, CloseCommits, CommitBallot, RevealBallot,
                FinalizeAllocation, CreatePlan
  <2>6. Payable' = Payable
    BY <2>5 DEF SubmitLeg, ConfirmLeg, Payable
  <2>7. CASE SubmitLeg(p)
    <3>1. submitted' = submitted \cup {p} /\ p \notin submitted /\ confirmed' = confirmed
      BY <2>7 DEF SubmitLeg
    <3>2. Cardinality(submitted') = Cardinality(submitted) + 1
      BY <2>3, <3>1, FS_AddElement
    <3>3. QED
      BY <2>4, <2>6, <3>1, <3>2 DEF EntriesLeft
  <2>8. CASE ConfirmLeg(p)
    <3>1. confirmed' = confirmed \cup {p} /\ p \notin confirmed /\ submitted' = submitted
      BY <2>8 DEF ConfirmLeg
    <3>2. Cardinality(confirmed') = Cardinality(confirmed) + 1
      BY <2>3, <3>1, FS_AddElement
    <3>3. QED
      BY <2>4, <2>6, <3>1, <3>2 DEF EntriesLeft
  <2>9. QED
    BY <2>5, <2>7, <2>8
<1>2. QED
  BY <1>1, CreditTyped, PTL DEF CreditSpec, EntriesRunOut

=============================================================================
