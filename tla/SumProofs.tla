------------------------------ MODULE SumProofs ------------------------------
(* Sums over finite sets: what the folds of the models compute, and least    *)
(* and largest elements.  Each is an induction over the subsets of a finite  *)
(* set, by a least counterexample.                                           *)
EXTENDS FiniteSetsExt, Functions, FiniteSetTheorems, TLAPS

\* The sum of f over S, as the community modules compute it.
SumOver(f, S) == MapThenSumSet(LAMBDA x : f[x], S)

\* The recursion equation of the fold, for all subsets of S.
Some(s) == CHOOSE x \in s : TRUE
IsSum(g, f, S) ==
  g = [s \in SUBSET S |-> IF s = {} THEN 0 ELSE f[Some(s)] + g[s \ {Some(s)}]]

\* A set of subsets of a finite set has a least one.
LEMMA LeastSubset ==
  ASSUME NEW S, IsFiniteSet(S), NEW C, C \subseteq SUBSET S, C # {}
  PROVE  \E s \in C : \A t \in C : t \subseteq s => t = s
<1>1. IsWellFoundedOn(StrictSubsetOrdering(S), SUBSET S)
  BY FS_StrictSubsetOrderingWellFounded, FS_FiniteSubsetsOfFinite
<1>2. \E s \in C : \A t \in C : ~ (<<t, s>> \in StrictSubsetOrdering(S))
  BY <1>1, WFMin
<1>3. \A s, t \in SUBSET S : t \subseteq s /\ t # s => <<t, s>> \in StrictSubsetOrdering(S)
  BY DEF StrictSubsetOrdering
<1> QED
  BY <1>2, <1>3

LEMMA SomeIn ==
  ASSUME NEW s, s # {}
  PROVE  Some(s) \in s
BY DEF Some

LEMMA SumOverIsFold ==
  ASSUME NEW f, NEW S
  PROVE  SumOver(f, S) = (CHOOSE g : IsSum(g, f, S))[S]
BY DEF SumOver, MapThenSumSet, MapThenFoldSet, IsSum, Some

\* Functions that satisfy the equation agree where both are defined.
LEMMA SumsAgree ==
  ASSUME NEW f, NEW S, IsFiniteSet(S), NEW T \in SUBSET S,
         NEW g, IsSum(g, f, S), NEW h, IsSum(h, f, T)
  PROVE  g[T] = h[T]
<1> SUFFICES \A s \in SUBSET T : g[s] = h[s]
  OBVIOUS
<1> DEFINE C == {s \in SUBSET T : g[s] # h[s]}
<1> SUFFICES ASSUME C # {} PROVE FALSE
  OBVIOUS
<1>1. PICK s \in C : \A t \in C : t \subseteq s => t = s
  <2>1. IsFiniteSet(T)
    BY FS_Subset
  <2>2. C \subseteq SUBSET T
    OBVIOUS
  <2> HIDE DEF C
  <2> QED
    BY <2>1, <2>2, LeastSubset
<1>2. s \in SUBSET T /\ s \in SUBSET S /\ g[s] # h[s]
  BY <1>1
<1>3. /\ g[s] = IF s = {} THEN 0 ELSE f[Some(s)] + g[s \ {Some(s)}]
      /\ h[s] = IF s = {} THEN 0 ELSE f[Some(s)] + h[s \ {Some(s)}]
  BY <1>2 DEF IsSum
<1>4. s # {}
  BY <1>2, <1>3
<1>5. s \ {Some(s)} \notin C
  BY <1>1, <1>4, SomeIn
<1>6. g[s \ {Some(s)}] = h[s \ {Some(s)}]
  BY <1>2, <1>5
<1> QED
  BY <1>2, <1>3, <1>4, <1>6

LEMMA FoldOfPart ==
  ASSUME NEW f, NEW S, IsFiniteSet(S), NEW g, IsSum(g, f, S),
         NEW T \in SUBSET S, \E k : IsSum(k, f, T)
  PROVE  g[T] = SumOver(f, T)
<1> DEFINE k == CHOOSE j : IsSum(j, f, T)
<1>1. IsSum(k, f, T)
  OBVIOUS
<1>2. SumOver(f, T) = k[T]
  BY SumOverIsFold
<1> HIDE DEF k
<1>3. g[T] = k[T]
  BY <1>1, SumsAgree
<1> QED
  BY <1>2, <1>3

\* If every set below S has its fold, so has S.
LEMMA FoldExtends ==
  ASSUME NEW f, NEW S, IsFiniteSet(S),
         \A t \in SUBSET S : t # S => \E g : IsSum(g, f, t)
  PROVE  \E g : IsSum(g, f, S)
<1> DEFINE h == [s \in SUBSET S |->
                   IF s = {} THEN 0 ELSE f[Some(s)] + SumOver(f, s \ {Some(s)})]
<1>1. ASSUME NEW t \in SUBSET S, t # S
      PROVE  h[t] = SumOver(f, t)
  <2>1. PICK g : IsSum(g, f, t) /\ g = CHOOSE k : IsSum(k, f, t)
    BY <1>1
  <2>2. SumOver(f, t) = g[t]
    BY <2>1, SumOverIsFold
  <2>3. g[t] = IF t = {} THEN 0 ELSE f[Some(t)] + g[t \ {Some(t)}]
    BY <2>1 DEF IsSum
  <2>4. CASE t = {}
    BY <2>2, <2>3, <2>4
  <2>5. CASE t # {}
    <3> DEFINE u == t \ {Some(t)}
    <3>1. u \in SUBSET t /\ u \in SUBSET S /\ u # S
      BY <2>5, SomeIn
    <3>2. g[u] = SumOver(f, u)
      <4>1. IsFiniteSet(t) /\ \E k : IsSum(k, f, u)
        BY <1>1, <3>1, FS_Subset
      <4> HIDE DEF u
      <4> QED
        BY <2>1, <3>1, <4>1, FoldOfPart
    <3> QED
      BY <2>2, <2>3, <2>5, <3>2
  <2> QED
    BY <2>4, <2>5
<1>2. IsSum(h, f, S)
  <2>1. ASSUME NEW s \in SUBSET S, s # {}
        PROVE  SumOver(f, s \ {Some(s)}) = h[s \ {Some(s)}]
    <3>1. s \ {Some(s)} \in SUBSET S /\ s \ {Some(s)} # S
      BY <2>1, SomeIn
    <3> QED
      BY <1>1, <3>1
  <2> HIDE DEF h
  <2>2. h = [s \in SUBSET S |-> IF s = {} THEN 0 ELSE f[Some(s)] + h[s \ {Some(s)}]]
    BY <2>1 DEF h
  <2> QED
    BY <2>2 DEF IsSum
<1> QED
  BY <1>2

LEMMA FoldExists ==
  ASSUME NEW f, NEW S, IsFiniteSet(S)
  PROVE  \E g : IsSum(g, f, S)
<1> DEFINE C == {s \in SUBSET S : ~ \E g : IsSum(g, f, s)}
<1> SUFFICES ASSUME C # {} PROVE FALSE
  OBVIOUS
<1>1. PICK s \in C : \A t \in C : t \subseteq s => t = s
  <2>1. C \subseteq SUBSET S
    OBVIOUS
  <2> HIDE DEF C
  <2> QED
    BY <2>1, LeastSubset
<1>2. IsFiniteSet(s)
  BY FS_Subset
<1>3. \A t \in SUBSET s : t # s => \E g : IsSum(g, f, t)
  BY <1>1
<1> QED
  BY <1>1, <1>2, <1>3, FoldExtends

\* The equation of the fold: one element after the other is added.
LEMMA SumEquation ==
  ASSUME NEW f, NEW S, IsFiniteSet(S)
  PROVE  SumOver(f, S) = IF S = {} THEN 0 ELSE f[Some(S)] + SumOver(f, S \ {Some(S)})
<1>1. PICK g : IsSum(g, f, S) /\ g = CHOOSE k : IsSum(k, f, S)
  BY FoldExists
<1>2. SumOver(f, S) = g[S]
  BY <1>1, SumOverIsFold
<1>3. g[S] = IF S = {} THEN 0 ELSE f[Some(S)] + g[S \ {Some(S)}]
  BY <1>1 DEF IsSum
<1>4. ASSUME S # {} PROVE g[S \ {Some(S)}] = SumOver(f, S \ {Some(S)})
  <2> DEFINE u == S \ {Some(S)}
  <2>1. u \in SUBSET S /\ IsFiniteSet(u)
    BY FS_Subset
  <2>2. \E k : IsSum(k, f, u)
    BY <2>1, FoldExists
  <2> HIDE DEF u
  <2>3. g[u] = SumOver(f, u)
    BY <1>1, <2>1, <2>2, FoldOfPart
  <2> QED
    BY <2>3 DEF u
<1> QED
  BY <1>2, <1>3, <1>4

LEMMA SumOfNone == \A f : SumOver(f, {}) = 0
BY SumEquation, FS_EmptySet

NatOn(f, S) == \A x \in S : f[x] \in Nat

\* Some element may be taken out first.
LEMMA SumWithout ==
  ASSUME NEW f, NEW S, IsFiniteSet(S), NatOn(f, S)
  PROVE  /\ SumOver(f, S) \in Nat
         /\ \A x \in S : SumOver(f, S) = f[x] + SumOver(f, S \ {x})
<1> DEFINE P(s) == /\ SumOver(f, s) \in Nat
                   /\ \A x \in s : SumOver(f, s) = f[x] + SumOver(f, s \ {x})
           C == {s \in SUBSET S : ~P(s)}
<1> SUFFICES ASSUME C # {} PROVE FALSE
  OBVIOUS
<1>1. PICK s \in C : \A t \in C : t \subseteq s => t = s
  <2>1. C \subseteq SUBSET S
    OBVIOUS
  <2> HIDE DEF C
  <2> QED
    BY <2>1, LeastSubset
<1>2. s \in SUBSET S /\ ~P(s)
  BY <1>1
<1>3. \A t \in SUBSET s : t # s => P(t)
  BY <1>1
<1>4. IsFiniteSet(s) /\ \A t \in SUBSET s : IsFiniteSet(t)
  BY <1>2, FS_Subset
<1>5. s # {}
  BY <1>2, SumOfNone
<1> DEFINE a == Some(s)
           u == s \ {a}
<1>6. a \in s /\ f[a] \in Nat
  BY <1>2, <1>5, SomeIn DEF NatOn
<1>7. SumOver(f, s) = f[a] + SumOver(f, u)
  BY <1>4, <1>5, SumEquation
<1>8. P(u)
  BY <1>3, <1>6
<1>9. SumOver(f, s) \in Nat
  BY <1>6, <1>7, <1>8
<1>10. ASSUME NEW x \in s, x # a
       PROVE  SumOver(f, s) = f[x] + SumOver(f, s \ {x})
  <2> DEFINE v == s \ {x}
             w == u \ {x}
  <2>1. f[x] \in Nat
    BY <1>2 DEF NatOn
  <2>2. SumOver(f, u) = f[x] + SumOver(f, w)
    BY <1>8, <1>10
  <2>3. P(v) /\ P(w)
    <3>1. v \in SUBSET s /\ v # s /\ w \in SUBSET s /\ w # s
      BY <1>10
    <3> QED
      BY <1>3, <3>1
  <2>4. a \in v /\ v \ {a} = w
    BY <1>6, <1>10
  <2>5. SumOver(f, v) = f[a] + SumOver(f, w)
    BY <2>3, <2>4
  <2>6. SumOver(f, w) \in Nat
    BY <2>3
  <2> QED
    BY <1>6, <1>7, <2>1, <2>2, <2>5, <2>6
<1>11. P(s)
  BY <1>7, <1>9, <1>10
<1> QED
  BY <1>2, <1>11

\* Smaller terms have a smaller sum.
LEMMA SumMonotonic ==
  ASSUME NEW S, IsFiniteSet(S), NEW f, NEW g, NatOn(f, S), NatOn(g, S),
         \A x \in S : f[x] <= g[x]
  PROVE  SumOver(f, S) <= SumOver(g, S)
<1> DEFINE C == {s \in SUBSET S : ~ (SumOver(f, s) <= SumOver(g, s))}
<1> SUFFICES ASSUME C # {} PROVE FALSE
  OBVIOUS
<1>1. PICK s \in C : \A t \in C : t \subseteq s => t = s
  <2>1. C \subseteq SUBSET S
    OBVIOUS
  <2> HIDE DEF C
  <2> QED
    BY <2>1, LeastSubset
<1>2. s \in SUBSET S /\ ~ (SumOver(f, s) <= SumOver(g, s))
  BY <1>1
<1>3. s # {}
  BY <1>2, SumOfNone
<1>4. PICK x : x \in s
  BY <1>3
<1> DEFINE u == s \ {x}
<1>5. SumOver(f, u) <= SumOver(g, u)
  BY <1>1, <1>2, <1>4
<1>6. /\ IsFiniteSet(s) /\ NatOn(f, s) /\ NatOn(g, s)
      /\ IsFiniteSet(u) /\ NatOn(f, u) /\ NatOn(g, u)
  BY <1>2, FS_Subset DEF NatOn
<1>7. /\ SumOver(f, s) = f[x] + SumOver(f, u) /\ SumOver(g, s) = g[x] + SumOver(g, u)
      /\ SumOver(f, u) \in Nat /\ SumOver(g, u) \in Nat
  BY <1>4, <1>6, SumWithout
<1>8. f[x] \in Nat /\ g[x] \in Nat /\ f[x] <= g[x]
  BY <1>2, <1>4 DEF NatOn
<1> QED
  BY <1>2, <1>5, <1>7, <1>8

LEMMA SumOfEqual ==
  ASSUME NEW S, IsFiniteSet(S), NEW f, NEW g, NatOn(f, S),
         \A x \in S : f[x] = g[x]
  PROVE  SumOver(f, S) = SumOver(g, S)
<1>1. NatOn(g, S)
  BY DEF NatOn
<1>2. /\ \A x \in S : f[x] <= g[x] /\ g[x] <= f[x]
      /\ SumOver(f, S) \in Nat /\ SumOver(g, S) \in Nat
  BY <1>1, SumWithout DEF NatOn
<1> QED
  BY <1>1, <1>2, SumMonotonic

\* The sum over a part is no larger.
LEMMA SumOfPart ==
  ASSUME NEW S, IsFiniteSet(S), NEW f, NatOn(f, S), NEW T \in SUBSET S
  PROVE  SumOver(f, T) <= SumOver(f, S)
<1> DEFINE C == {s \in SUBSET S : T \subseteq s /\ ~ (SumOver(f, T) <= SumOver(f, s))}
<1> SUFFICES ASSUME C # {} PROVE FALSE
  OBVIOUS
<1>1. PICK s \in C : \A t \in C : t \subseteq s => t = s
  <2>1. C \subseteq SUBSET S
    OBVIOUS
  <2> HIDE DEF C
  <2> QED
    BY <2>1, LeastSubset
<1>2. s \in SUBSET S /\ T \subseteq s /\ ~ (SumOver(f, T) <= SumOver(f, s))
  BY <1>1
<1>3. /\ IsFiniteSet(s) /\ NatOn(f, s) /\ IsFiniteSet(T) /\ NatOn(f, T)
  BY <1>2, FS_Subset DEF NatOn
<1>4. SumOver(f, s) \in Nat /\ SumOver(f, T) \in Nat
  BY <1>3, SumWithout
<1>5. PICK x : x \in s /\ x \notin T
  BY <1>2, <1>4
<1> DEFINE u == s \ {x}
<1>6. SumOver(f, T) <= SumOver(f, u)
  BY <1>1, <1>2, <1>5
<1>7. SumOver(f, s) = f[x] + SumOver(f, u) /\ f[x] \in Nat
  BY <1>2, <1>3, <1>5, SumWithout DEF NatOn
<1>8. IsFiniteSet(u) /\ NatOn(f, u)
  BY <1>2, FS_Subset DEF NatOn
<1>9. SumOver(f, u) \in Nat
  BY <1>8, SumWithout
<1> QED
  BY <1>2, <1>4, <1>6, <1>7, <1>9

\* A sum is zero only if each of its terms is.
LEMMA SumOfZeros ==
  ASSUME NEW S, IsFiniteSet(S), NEW f, NatOn(f, S)
  PROVE  SumOver(f, S) = 0 <=> \A x \in S : f[x] = 0
<1>1. ASSUME NEW x \in S, SumOver(f, S) = 0
      PROVE  f[x] = 0
  <2>1. IsFiniteSet(S \ {x}) /\ NatOn(f, S \ {x})
    BY FS_Subset DEF NatOn
  <2>2. SumOver(f, S \ {x}) \in Nat /\ SumOver(f, S) = f[x] + SumOver(f, S \ {x})
    BY <2>1, SumWithout
  <2> QED
    BY <1>1, <2>2 DEF NatOn
<1>2. ASSUME \A x \in S : f[x] = 0
      PROVE  SumOver(f, S) = 0
  <2> DEFINE C == {s \in SUBSET S : SumOver(f, s) # 0}
  <2> SUFFICES ASSUME C # {} PROVE FALSE
    OBVIOUS
  <2>1. PICK s \in C : \A t \in C : t \subseteq s => t = s
    <3>1. C \subseteq SUBSET S
      OBVIOUS
    <3> HIDE DEF C
    <3> QED
      BY <3>1, LeastSubset
  <2>2. s \in SUBSET S /\ SumOver(f, s) # 0 /\ s # {}
    BY <2>1, SumOfNone
  <2>3. Some(s) \in s /\ IsFiniteSet(s)
    BY <2>2, SomeIn, FS_Subset
  <2>4. SumOver(f, s \ {Some(s)}) = 0
    BY <2>1, <2>3
  <2>5. SumOver(f, s) = f[Some(s)] + SumOver(f, s \ {Some(s)})
    BY <2>2, <2>3, SumEquation
  <2> QED
    BY <1>2, <2>2, <2>3, <2>4, <2>5
<1> QED
  BY <1>1, <1>2

\* What is zero outside a part counts in the part only.
LEMMA SumOfSupport ==
  ASSUME NEW S, IsFiniteSet(S), NEW f, NatOn(f, S), NEW T \in SUBSET S,
         \A x \in S \ T : f[x] = 0
  PROVE  SumOver(f, S) = SumOver(f, T)
<1> DEFINE C == {s \in SUBSET S : T \subseteq s /\ ~ (SumOver(f, s) = SumOver(f, T))}
<1> SUFFICES ASSUME C # {} PROVE FALSE
  OBVIOUS
<1>1. PICK s \in C : \A t \in C : t \subseteq s => t = s
  <2>1. C \subseteq SUBSET S
    OBVIOUS
  <2> HIDE DEF C
  <2> QED
    BY <2>1, LeastSubset
<1>2. s \in SUBSET S /\ T \subseteq s /\ SumOver(f, s) # SumOver(f, T)
  OBVIOUS
<1>3. PICK x \in s : x \notin T
  BY <1>2
<1>4. SumOver(f, s \ {x}) = SumOver(f, T)
  <2>1. s \ {x} \in SUBSET S /\ T \subseteq s \ {x} /\ s \ {x} # s /\ s \ {x} \subseteq s
    BY <1>2, <1>3
  <2> QED
    BY <1>1, <2>1
<1>5. IsFiniteSet(s) /\ NatOn(f, s) /\ IsFiniteSet(s \ {x}) /\ NatOn(f, s \ {x})
  BY <1>2, FS_Subset DEF NatOn
<1>6. SumOver(f, s) = f[x] + SumOver(f, s \ {x}) /\ SumOver(f, s \ {x}) \in Nat
  BY <1>5, SumWithout
<1>7. f[x] = 0
  BY <1>2, <1>3
<1> QED
  BY <1>2, <1>4, <1>6, <1>7

LEMMA SumAtMost ==
  ASSUME NEW S, IsFiniteSet(S), NEW f, NatOn(f, S), NEW K \in Nat,
         \A x \in S : f[x] <= K
  PROVE  SumOver(f, S) <= K * Cardinality(S)
<1> DEFINE C == {s \in SUBSET S : ~ (SumOver(f, s) <= K * Cardinality(s))}
<1> SUFFICES ASSUME C # {} PROVE FALSE
  OBVIOUS
<1>1. PICK s \in C : \A t \in C : t \subseteq s => t = s
  <2>1. C \subseteq SUBSET S
    OBVIOUS
  <2> HIDE DEF C
  <2> QED
    BY <2>1, LeastSubset
<1>2. s \in SUBSET S /\ ~ (SumOver(f, s) <= K * Cardinality(s))
  OBVIOUS
<1>3. s # {}
  BY <1>2, SumOfNone, FS_EmptySet
<1>4. PICK x : x \in s
  BY <1>3
<1>5. IsFiniteSet(s) /\ NatOn(f, s) /\ IsFiniteSet(s \ {x}) /\ NatOn(f, s \ {x})
  BY <1>2, FS_Subset DEF NatOn
<1>6. SumOver(f, s \ {x}) <= K * Cardinality(s \ {x})
  <2>1. s \ {x} \in SUBSET S /\ s \ {x} # s /\ s \ {x} \subseteq s
    BY <1>2, <1>4
  <2> QED
    BY <1>1, <2>1
<1>7. SumOver(f, s) = f[x] + SumOver(f, s \ {x}) /\ SumOver(f, s \ {x}) \in Nat
  BY <1>4, <1>5, SumWithout
<1>8. Cardinality(s) = Cardinality(s \ {x}) + 1 /\ Cardinality(s \ {x}) \in Nat
  BY <1>4, <1>5, FS_RemoveElement, FS_CardinalityType
<1>9. f[x] \in Nat /\ f[x] <= K
  BY <1>2, <1>4 DEF NatOn
<1> DEFINE n == Cardinality(s \ {x})
           m == SumOver(f, s \ {x})
<1>10. \A i, j \in Nat : j <= K * i /\ f[x] <= K => f[x] + j <= K * (i + 1)
  BY <1>9
<1> QED
  BY <1>2, <1>6, <1>7, <1>8, <1>9, <1>10

\* A factor may be taken out of the sum.
LEMMA SumOfScaled ==
  ASSUME NEW S, IsFiniteSet(S), NEW f, NatOn(f, S), NEW K \in Nat, NEW g,
         \A x \in S : g[x] = K * f[x]
  PROVE  SumOver(g, S) = K * SumOver(f, S)
<1>1. NatOn(g, S)
  BY DEF NatOn
<1> DEFINE C == {s \in SUBSET S : SumOver(g, s) # K * SumOver(f, s)}
<1> SUFFICES ASSUME C # {} PROVE FALSE
  OBVIOUS
<1>2. PICK s \in C : \A t \in C : t \subseteq s => t = s
  <2>1. C \subseteq SUBSET S
    OBVIOUS
  <2> HIDE DEF C
  <2> QED
    BY <2>1, LeastSubset
<1>3. s \in SUBSET S /\ SumOver(g, s) # K * SumOver(f, s)
  OBVIOUS
<1>4. s # {}
  BY <1>3, SumOfNone
<1>5. PICK x : x \in s
  BY <1>4
<1>6. /\ IsFiniteSet(s) /\ IsFiniteSet(s \ {x})
      /\ NatOn(f, s) /\ NatOn(f, s \ {x}) /\ NatOn(g, s) /\ NatOn(g, s \ {x})
  BY <1>1, <1>3, FS_Subset DEF NatOn
<1> DEFINE u == s \ {x}
<1>7. SumOver(g, u) = K * SumOver(f, u)
  <2>1. u \in SUBSET S /\ u # s /\ u \subseteq s
    BY <1>3, <1>5
  <2> QED
    BY <1>2, <2>1
<1>8. /\ SumOver(f, s) = f[x] + SumOver(f, u) /\ SumOver(f, u) \in Nat
      /\ SumOver(g, s) = g[x] + SumOver(g, u)
  BY <1>5, <1>6, SumWithout
<1>9. f[x] \in Nat /\ g[x] = K * f[x]
  BY <1>3, <1>5 DEF NatOn
<1>10. \A i, j \in Nat : K * i + K * j = K * (i + j)
  OBVIOUS
<1> QED
  BY <1>3, <1>7, <1>8, <1>9, <1>10

\* The folds of module Functions sum in the same way.
LEMMA SumOnSet ==
  ASSUME NEW f, NEW S
  PROVE  SumFunctionOnSet(f, S) = SumOver(f, S)
BY DEF SumFunctionOnSet, FoldFunctionOnSet, SumOver, MapThenSumSet, MapThenFoldSet

-----------------------------------------------------------------------------
(* Least and largest elements.                                               *)

LEMMA MinIsLeast ==
  ASSUME NEW S \in SUBSET Nat, S # {}
  PROVE  Min(S) \in S /\ \A x \in S : Min(S) <= x
<1> DEFINE R == {p \in Nat \X Nat : p[1] < p[2]}
<1>1. IsWellFoundedOn(R, Nat)
  BY NatLessThanWellFounded DEF OpToRel
<1>2. \A x, y \in Nat : <<y, x>> \in R <=> y < x
  OBVIOUS
<1> HIDE DEF R
<1>3. PICK x \in S : \A y \in S : ~ (<<y, x>> \in R)
  BY <1>1, WFMin
<1>4. ASSUME NEW y \in S PROVE x <= y
  <2>1. x \in Nat /\ y \in Nat /\ ~ (y < x)
    BY <1>2, <1>3
  <2> QED
    BY <2>1
<1> QED
  BY <1>4 DEF Min

LEMMA MaxIsLargest ==
  ASSUME NEW S, IsFiniteSet(S)
  PROVE  S # {} /\ S \subseteq Nat => Max(S) \in S /\ \A x \in S : x <= Max(S)
<1> DEFINE Bounded(s) == \E m \in s : \A x \in s : x <= m
           C == {s \in SUBSET S : s # {} /\ s \subseteq Nat /\ ~Bounded(s)}
<1>1. S # {} /\ S \subseteq Nat => Bounded(S)
  <2> SUFFICES ASSUME C # {} PROVE FALSE
    OBVIOUS
  <2> HIDE DEF Bounded
  <2>1. PICK s \in C : \A t \in C : t \subseteq s => t = s
    <3>1. C \subseteq SUBSET S
      OBVIOUS
    <3> HIDE DEF C
    <3> QED
      BY <3>1, LeastSubset
  <2>2. PICK x : x \in s /\ x \in Nat
    OBVIOUS
  <2>3. s \ {x} # {}
    <3>1. s \ {x} = {} => \A y \in s : y <= x
      BY <2>2
    <3> QED
      BY <2>2, <3>1 DEF Bounded
  <2>4. PICK m \in s \ {x} : \A y \in s \ {x} : y <= m
    <3>1. s \ {x} \in SUBSET S /\ s \ {x} # s /\ s \ {x} \subseteq s
      BY <2>2
    <3>2. Bounded(s \ {x})
      BY <2>1, <2>3, <3>1
    <3> QED
      BY <3>2 DEF Bounded
  <2>5. x \in Nat /\ m \in Nat /\ s \subseteq Nat
    BY <2>2
  <2>6. Bounded(s)
    <3>1. CASE x <= m
      BY <2>4, <2>5, <3>1 DEF Bounded
    <3>2. CASE ~ (x <= m)
      BY <2>2, <2>4, <2>5, <3>2 DEF Bounded
    <3> QED
      BY <3>1, <3>2
  <2> QED
    BY <2>6
<1> SUFFICES ASSUME S # {}, S \subseteq Nat
             PROVE  Max(S) \in S /\ \A x \in S : x <= Max(S)
  OBVIOUS
<1>2. \E m \in S : \A x \in S : m >= x
  BY <1>1
<1> QED
  BY <1>2 DEF Max

\* The values of a function on a finite set.
LEMMA ImageIsFinite ==
  ASSUME NEW S, IsFiniteSet(S), NEW f
  PROVE  IsFiniteSet({f[x] : x \in S})
<1> DEFINE T == {f[x] : x \in S}
           g == [x \in S |-> f[x]]
<1>1. g \in Surjection(S, T)
  BY DEF Surjection
<1> QED
  BY <1>1, FS_Surjection
=============================================================================
