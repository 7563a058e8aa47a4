-------------------------- MODULE CostEngineProofs --------------------------
(***************************************************************************)
(* Proofs about CostEngine, for datacenters of any number and size, any    *)
(* services, and any prices.  The figures of CostEngine are sums over      *)
(* finite sets, so the first half of the module is about those: the        *)
(* induction that they need, and what a sum does when its terms are added, *)
(* scaled, grouped, swapped or renamed.                                    *)
(***************************************************************************)
EXTENDS CostEngine, FiniteSetTheorems, WellFoundedInduction, TLAPS

-----------------------------------------------------------------------------
(***************************************************************************)
(* Induction.  The theorems of the library about it take a predicate, and  *)
(* these take a set instead: that of what is good.                         *)
(***************************************************************************)

\* A set of naturals has a smallest one.
LEMMA SmallestOf ==
  ASSUME NEW T \in SUBSET Nat, T # {}
  PROVE  \E n \in T : \A k \in T : n <= k
<1>1. PICK n \in T : \A k \in T : ~ (<<k, n>> \in OpToRel(<, Nat))
  BY NatLessThanWellFounded, WFMin
<1>2. \A k \in T : ~(k < n)
  BY <1>1 DEF OpToRel
<1>3. QED
  BY <1>2

\* Induction over a finite set: what is good, be it the empty set, stays good
\* when an element is added.
LEMMA SetInduction ==
  ASSUME NEW S, IsFiniteSet(S), NEW Good, {} \in Good,
         \A T \in SUBSET S, x \in S : T \in Good /\ x \notin T => T \cup {x} \in Good
  PROVE  S \in Good
<1> SUFFICES ASSUME S \notin Good
             PROVE  FALSE
  OBVIOUS
<1> DEFINE Bad == {T \in SUBSET S : T \notin Good}
           Sizes == {Cardinality(T) : T \in Bad}
<1>1. \A T \in SUBSET S : IsFiniteSet(T) /\ Cardinality(T) \in Nat
  BY FS_Subset, FS_CardinalityType
<1>2. Sizes \in SUBSET Nat /\ Sizes # {}
  BY <1>1
<1>3. PICK n \in Sizes : \A k \in Sizes : n <= k
  <2> HIDE DEF Sizes
  <2> QED
    BY <1>2, SmallestOf
<1>4. PICK T \in Bad : n = Cardinality(T)
  BY <1>3
<1>5. PICK x \in T : TRUE
  BY <1>4
<1>6. T \ {x} \in SUBSET S /\ Cardinality(T \ {x}) = Cardinality(T) - 1
  BY <1>1, <1>4, <1>5, FS_RemoveElement
<1>7. T \ {x} \in Good
  <2>1. CASE T \ {x} \in Bad
    <3>1. Cardinality(T \ {x}) \in Sizes
      BY <2>1
    <3>2. n <= n - 1
      BY <1>3, <1>4, <1>6, <3>1
    <3>3. n \in Nat
      BY <1>2, <1>3
    <3>4. QED
      BY <3>2, <3>3
  <2>2. QED
    BY <1>6, <2>1
<1>8. (T \ {x}) \cup {x} \in Good
  BY <1>4, <1>5, <1>6, <1>7
<1>9. (T \ {x}) \cup {x} = T
  BY <1>5
<1>10. QED
  BY <1>4, <1>8, <1>9

\* Induction over the naturals.
LEMMA NatInductionSet ==
  ASSUME NEW Good, 0 \in Good, \A n \in Nat : n \in Good => n + 1 \in Good
  PROVE  \A n \in Nat : n \in Good
<1> DEFINE Bad == {n \in Nat : n \notin Good}
<1>1. SUFFICES ASSUME Bad # {}
               PROVE  FALSE
  OBVIOUS
<1>2. PICK n \in Bad : \A k \in Bad : n <= k
  BY <1>1, SmallestOf
<1>3. n \in Nat /\ n # 0 /\ n - 1 \in Nat
  BY <1>2
<1>4. n - 1 \in Good
  BY <1>2, <1>3
<1>5. (n - 1) + 1 \in Good
  BY <1>3, <1>4
<1>6. QED
  BY <1>2, <1>3, <1>5

\* The images of a finite set's elements are finitely many.
LEMMA FiniteImage ==
  ASSUME NEW S, IsFiniteSet(S), NEW h
  PROVE  IsFiniteSet({h[i] : i \in S})
<1> DEFINE Good == {T \in SUBSET S : IsFiniteSet({h[i] : i \in T})}
<1>1. {} \in Good
  BY FS_EmptySet
<1>2. ASSUME NEW T \in SUBSET S, NEW x \in S, T \in Good, x \notin T
      PROVE  T \cup {x} \in Good
  <2>1. {h[i] : i \in T \cup {x}} = {h[i] : i \in T} \cup {h[x]}
    OBVIOUS
  <2>2. IsFiniteSet({h[i] : i \in T} \cup {h[x]})
    BY <1>2, FS_AddElement
  <2>3. QED
    BY <2>1, <2>2
<1>3. QED
  <2> HIDE DEF Good
  <2>1. S \in Good
    BY <1>1, <1>2, SetInduction
  <2>2. QED
    BY <2>1 DEF Good

-----------------------------------------------------------------------------
(***************************************************************************)
(* Sums.  A fold takes the elements of a set one after the other, always   *)
(* the one that CHOOSE would choose; it is the value, at the whole set, of *)
(* a function of its subsets that satisfies an equation.                   *)
(***************************************************************************)
Total(F, S) == SumFunctionOnSet(F, S)

Chosen(s) == CHOOSE x \in s : TRUE

IsSum(F, S, g) ==
  g = [s \in SUBSET S |-> IF s = {} THEN 0 ELSE F[Chosen(s)] + g[s \ {Chosen(s)}]]

\* What is chosen from a set is in it.
LEMMA ChosenIn == ASSUME NEW s, s # {} PROVE Chosen(s) \in s
  BY DEF Chosen

\* A sum, unfolded: the function that satisfies the equation, at the set.
LEMMA SumIsChoice ==
  ASSUME NEW F, NEW S
  PROVE  Total(F, S) = (CHOOSE g : IsSum(F, S, g))[S]
  BY DEF Total, SumFunctionOnSet, FoldFunctionOnSet, MapThenFoldSet, IsSum, Chosen

\* There is such a function on every finite set.
LEMMA SumExists ==
  ASSUME NEW F, NEW S, IsFiniteSet(S)
  PROVE  \E g : IsSum(F, S, g)
<1> DEFINE Step(g, s) == IF s = {} THEN 0 ELSE F[Chosen(s)] + g[s \ {Chosen(s)}]
           Good == {n \in Nat : \E g : \A s \in SUBSET S :
                                    Cardinality(s) <= n => g[s] = Step(g, s)}
<1>1. /\ \A s \in SUBSET S : Cardinality(s) \in Nat /\ (Cardinality(s) = 0 <=> s = {})
      /\ \A s \in SUBSET S : s # {} =>
            /\ s \ {Chosen(s)} \in SUBSET S
            /\ Cardinality(s \ {Chosen(s)}) = Cardinality(s) - 1
  <2>1. \A s \in SUBSET S : IsFiniteSet(s)
    BY FS_Subset
  <2>2. \A s \in SUBSET S : s # {} => Chosen(s) \in s
    BY ChosenIn
  <2>3. QED
    BY <2>1, <2>2, FS_CardinalityType, FS_EmptySet, FS_RemoveElement
<1>2. 0 \in Good
  <2>1. \A s \in SUBSET S : Cardinality(s) <= 0 => s = {}
    BY <1>1
  <2>2. \A s \in SUBSET S : Cardinality(s) <= 0 => [t \in SUBSET S |-> 0][s] = Step([t \in SUBSET S |-> 0], s)
    BY <2>1
  <2>3. QED
    BY <2>2
<1>3. ASSUME NEW n \in Nat, n \in Good
      PROVE  n + 1 \in Good
  <2>1. PICK g : \A s \in SUBSET S : Cardinality(s) <= n => g[s] = Step(g, s)
    BY <1>3
  <2> DEFINE h == [s \in SUBSET S |-> Step(g, s)]
  <2>2. ASSUME NEW s \in SUBSET S, Cardinality(s) <= n + 1
        PROVE  h[s] = Step(h, s)
    <3>1. CASE s = {}
      BY <3>1
    <3>2. CASE s # {}
      <4>1. g[s \ {Chosen(s)}] = h[s \ {Chosen(s)}]
        <5>1. s \ {Chosen(s)} \in SUBSET S /\ Cardinality(s \ {Chosen(s)}) <= n
          BY <1>1, <2>2, <3>2
        <5>2. QED
          BY <2>1, <5>1
      <4>2. QED
        BY <3>2, <4>1
    <3>3. QED
      BY <3>1, <3>2
  <2>3. \E f : \A s \in SUBSET S : Cardinality(s) <= n + 1 => f[s] = Step(f, s)
    <3>1. \A s \in SUBSET S : Cardinality(s) <= n + 1 => h[s] = Step(h, s)
      BY <2>2
    <3> HIDE DEF h
    <3>2. QED
      BY <3>1, Zenon
  <2>4. n + 1 \in Nat
    OBVIOUS
  <2>5. QED
    BY <2>3, <2>4, Zenon
<1>4. Cardinality(S) \in Good
  <2>1. Cardinality(S) \in Nat
    BY FS_CardinalityType
  <2> HIDE DEF Good
  <2>2. QED
    BY <1>2, <1>3, <2>1, NatInductionSet
<1>5. PICK g : \A s \in SUBSET S : Cardinality(s) <= Cardinality(S) => g[s] = Step(g, s)
  BY <1>4
<1>6. \A s \in SUBSET S : Cardinality(s) <= Cardinality(S)
  BY FS_Subset
<1>7. \A s \in SUBSET S : g[s] = Step(g, s)
  BY <1>5, <1>6
<1>8. IsSum(F, S, [s \in SUBSET S |-> g[s]])
  <2> DEFINE h == [s \in SUBSET S |-> g[s]]
  <2>1. ASSUME NEW s \in SUBSET S
        PROVE  g[s] = Step(h, s)
    <3>1. CASE s # {}
      <4>1. s \ {Chosen(s)} \in SUBSET S
        BY <1>1, <3>1
      <4>2. h[s \ {Chosen(s)}] = g[s \ {Chosen(s)}]
        BY <4>1
      <4>3. QED
        BY <1>7, <4>2
    <3>2. QED
      BY <1>7, <3>1
  <2>2. h = [s \in SUBSET S |-> Step(h, s)]
    BY <2>1
  <2>3. QED
    BY <2>2 DEF IsSum
<1>9. QED
  BY <1>8

\* There is only one, and on a subset it is that of the subset.
LEMMA SumUnique ==
  ASSUME NEW F, NEW S, IsFiniteSet(S), NEW g, IsSum(F, S, g),
         NEW T \in SUBSET S, NEW h, IsSum(F, T, h)
  PROVE  h[T] = g[T]
<1> DEFINE Good == {n \in Nat : \A s \in SUBSET T : Cardinality(s) = n => g[s] = h[s]}
<1>1. \A s \in SUBSET T :
        /\ g[s] = IF s = {} THEN 0 ELSE F[Chosen(s)] + g[s \ {Chosen(s)}]
        /\ h[s] = IF s = {} THEN 0 ELSE F[Chosen(s)] + h[s \ {Chosen(s)}]
  BY DEF IsSum
<1>2. \A s \in SUBSET T : Cardinality(s) \in Nat /\ (Cardinality(s) = 0 <=> s = {})
  BY FS_Subset, FS_CardinalityType, FS_EmptySet
<1>3. \A s \in SUBSET T : s # {} =>
         s \ {Chosen(s)} \in SUBSET T /\ Cardinality(s \ {Chosen(s)}) = Cardinality(s) - 1
  BY ChosenIn, FS_Subset, FS_RemoveElement
<1>4. 0 \in Good
  BY <1>1, <1>2
<1>5. ASSUME NEW n \in Nat, n \in Good
      PROVE  n + 1 \in Good
  <2>1. ASSUME NEW s \in SUBSET T, Cardinality(s) = n + 1
        PROVE  g[s] = h[s]
    <3>1. s # {}
      BY <1>2, <2>1
    <3>2. g[s \ {Chosen(s)}] = h[s \ {Chosen(s)}]
      BY <1>3, <1>5, <2>1, <3>1
    <3>3. QED
      BY <1>1, <3>1, <3>2
  <2>2. QED
    BY <2>1
<1>6. Cardinality(T) \in Good
  <2>1. Cardinality(T) \in Nat
    BY <1>2
  <2> HIDE DEF Good
  <2>2. QED
    BY <1>4, <1>5, <2>1, NatInductionSet
<1>7. QED
  BY <1>6

\* The equation of a sum, with the element that is chosen.
LEMMA SumEquation ==
  ASSUME NEW F, NEW S, IsFiniteSet(S)
  PROVE  /\ S = {} => Total(F, S) = 0
         /\ S # {} => Total(F, S)
                         = F[Chosen(S)] + Total(F, S \ {Chosen(S)})
<1> DEFINE g == CHOOSE f : IsSum(F, S, f)
           T == S \ {Chosen(S)}
           h == CHOOSE f : IsSum(F, T, f)
<1>1. Total(F, S) = g[S] /\ Total(F, T) = h[T]
  BY SumIsChoice
<1>2. IsSum(F, S, g)
  <2>1. \E f : IsSum(F, S, f)
    BY SumExists
  <2>2. QED
    BY <2>1
<1>3. IsSum(F, T, h)
  <2>1. IsFiniteSet(T)
    BY FS_Subset
  <2>2. \E f : IsSum(F, T, f)
    BY <2>1, SumExists
  <2>3. QED
    BY <2>2
<1> HIDE DEF g, h
<1>4. h[T] = g[T]
  BY <1>2, <1>3, SumUnique
<1>5. g[S] = IF S = {} THEN 0 ELSE F[Chosen(S)] + g[T]
  BY <1>2 DEF IsSum
<1>6. QED
  BY <1>1, <1>4, <1>5

\* The terms are integers.
IntOn(F, S) == \A i \in S : F[i] \in Int

\* So is their sum, and a natural if they are.
LEMMA SumInt ==
  ASSUME NEW S, IsFiniteSet(S), NEW F, IntOn(F, S)
  PROVE  /\ Total(F, S) \in Int
         /\ (\A i \in S : F[i] >= 0) => Total(F, S) >= 0
<1> DEFINE Fine(s) == Total(F, s) \in Int /\ ((\A i \in S : F[i] >= 0) => Total(F, s) >= 0)
           Good == {n \in Nat : \A s \in SUBSET S : Cardinality(s) = n => Fine(s)}
<1>1. \A s \in SUBSET S : IsFiniteSet(s)
  BY FS_Subset
<1>2. \A s \in SUBSET S : /\ Cardinality(s) \in Nat
                          /\ Cardinality(s) = 0 <=> s = {}
                          /\ \A y \in s : Cardinality(s \ {y}) = Cardinality(s) - 1
  BY <1>1, FS_CardinalityType, FS_EmptySet, FS_RemoveElement
<1>3. \A s \in SUBSET S : /\ s = {} => Total(F, s) = 0
                          /\ s # {} => /\ Chosen(s) \in s
                                       /\ Total(F, s) = F[Chosen(s)] + Total(F, s \ {Chosen(s)})
  BY <1>1, SumEquation, ChosenIn
<1>4. 0 \in Good
  <2>1. \A s \in SUBSET S : Cardinality(s) = 0 => Total(F, s) = 0
    BY <1>2, <1>3
  <2>2. QED
    BY <2>1
<1>5. ASSUME NEW n \in Nat, n \in Good
      PROVE  n + 1 \in Good
  <2>1. ASSUME NEW s \in SUBSET S, Cardinality(s) = n + 1
        PROVE  Fine(s)
    <3> DEFINE c == Chosen(s)
               t == s \ {c}
    <3>1. c \in s /\ Total(F, s) = F[c] + Total(F, t)
      BY <1>2, <1>3, <2>1
    <3> HIDE DEF c
    <3>2. t \in SUBSET S /\ Cardinality(t) = n
      BY <1>2, <2>1, <3>1
    <3>3. Fine(t)
      BY <1>5, <3>2
    <3>4. F[c] \in Int
      BY <3>1 DEF IntOn
    <3> HIDE DEF t
    <3>5. QED
      BY <3>1, <3>3, <3>4
  <2>2. QED
    BY <2>1
<1>6. Cardinality(S) \in Good
  <2>1. Cardinality(S) \in Nat
    BY <1>2
  <2> HIDE DEF Good
  <2>2. QED
    BY <1>4, <1>5, <2>1, NatInductionSet
<1>7. QED
  BY <1>6

\* What is so of all terms is so of some.
LEMMA IntOnSubset ==
  ASSUME NEW F, NEW S, IntOn(F, S), NEW T \in SUBSET S
  PROVE  IntOn(F, T)
  BY DEF IntOn

\* Any element may be the one that is added last.
LEMMA SumRemove ==
  ASSUME NEW S, IsFiniteSet(S), NEW F, IntOn(F, S), NEW x \in S
  PROVE  Total(F, S) = F[x] + Total(F, S \ {x})
<1> DEFINE Fine(s) == \A y \in s : Total(F, s) = F[y] + Total(F, s \ {y})
           Good == {n \in Nat : \A s \in SUBSET S : Cardinality(s) = n => Fine(s)}
<1>1. \A s \in SUBSET S : IsFiniteSet(s)
  BY FS_Subset
<1>2. \A s \in SUBSET S : /\ Cardinality(s) \in Nat
                          /\ Cardinality(s) = 0 <=> s = {}
                          /\ \A y \in s : Cardinality(s \ {y}) = Cardinality(s) - 1
  BY <1>1, FS_CardinalityType, FS_EmptySet, FS_RemoveElement
<1>3. \A s \in SUBSET S : s # {} => /\ Chosen(s) \in s
                                    /\ Total(F, s) = F[Chosen(s)] + Total(F, s \ {Chosen(s)})
  BY <1>1, SumEquation, ChosenIn
<1>4. \A s \in SUBSET S : Total(F, s) \in Int
  BY <1>1, IntOnSubset, SumInt
<1>5. 0 \in Good
  <2>1. \A s \in SUBSET S : Cardinality(s) = 0 => s = {}
    BY <1>2
  <2>2. QED
    BY <2>1
<1>6. ASSUME NEW n \in Nat, n \in Good
      PROVE  n + 1 \in Good
  <2>1. ASSUME NEW s \in SUBSET S, Cardinality(s) = n + 1, NEW y \in s
        PROVE  Total(F, s) = F[y] + Total(F, s \ {y})
    <3> DEFINE c == Chosen(s)
               rest == (s \ {c}) \ {y}
    <3>1. c \in s /\ Total(F, s) = F[c] + Total(F, s \ {c})
      BY <1>3
    <3> HIDE DEF c
    <3>2. \A z \in s : s \ {z} \in SUBSET S /\ Cardinality(s \ {z}) = n
      BY <1>2, <2>1
    <3>3. \A z \in s : Fine(s \ {z})
      BY <1>6, <3>2
    <3>4. CASE y = c
      BY <3>1, <3>4
    <3>5. CASE y # c
      <4>1. rest = (s \ {y}) \ {c} /\ y \in s \ {c} /\ c \in s \ {y} /\ rest \in SUBSET S
        BY <3>1, <3>5
      <4>2. Total(F, s \ {c}) = F[y] + Total(F, rest)
        BY <3>1, <3>3, <4>1
      <4>3. Total(F, s \ {y}) = F[c] + Total(F, rest)
        BY <3>3, <4>1
      <4>4. Total(F, rest) \in Int /\ F[y] \in Int /\ F[c] \in Int
        BY <1>4, <3>1, <4>1 DEF IntOn
      <4> HIDE DEF rest
      <4>5. QED
        BY <3>1, <4>2, <4>3, <4>4
    <3>6. QED
      BY <3>4, <3>5
  <2>2. QED
    BY <2>1
<1>7. Cardinality(S) \in Good
  <2>1. Cardinality(S) \in Nat
    BY <1>2
  <2> HIDE DEF Good
  <2>2. QED
    BY <1>5, <1>6, <2>1, NatInductionSet
<1>8. QED
  BY <1>7

\* A sum over no elements.
LEMMA SumEmpty == ASSUME NEW F PROVE Total(F, {}) = 0
  BY FS_EmptySet, SumEquation

\* One element more adds its term.
LEMMA SumAdd ==
  ASSUME NEW S, IsFiniteSet(S), NEW F, IntOn(F, S), NEW T \in SUBSET S, NEW x \in S, x \notin T
  PROVE  /\ Total(F, T \cup {x}) = F[x] + Total(F, T)
         /\ Total(F, T) \in Int /\ F[x] \in Int
<1>1. IsFiniteSet(T) /\ IsFiniteSet(T \cup {x})
  BY FS_Subset
<1>2. IntOn(F, T) /\ IntOn(F, T \cup {x}) /\ F[x] \in Int
  BY DEF IntOn
<1>3. (T \cup {x}) \ {x} = T
  OBVIOUS
<1>4. Total(F, T \cup {x}) = F[x] + Total(F, (T \cup {x}) \ {x})
  BY <1>1, <1>2, SumRemove
<1>5. QED
  BY <1>1, <1>2, <1>3, <1>4, SumInt

\* The sum of one term is the term.
LEMMA SumSingle ==
  ASSUME NEW F, NEW x, F[x] \in Int
  PROVE  Total(F, {x}) = F[x]
<1>1. IsFiniteSet({x}) /\ IntOn(F, {x}) /\ x \in {x} /\ {x} \ {x} = {}
  BY FS_Singleton DEF IntOn
<1>2. Total(F, {x}) = F[x] + Total(F, {x} \ {x})
  BY <1>1, SumRemove
<1>3. QED
  BY <1>1, <1>2, SumEmpty

Scaled(G, k, F, S) == \A i \in S : G[i] = k * F[i]
Added(H, F, G, S)  == \A i \in S : H[i] = F[i] + G[i]

\* Sums whose terms are equal are.
LEMMA SumSame ==
  ASSUME NEW S, IsFiniteSet(S), NEW F, NEW G, IntOn(F, S), \A i \in S : G[i] = F[i]
  PROVE  Total(G, S) = Total(F, S)
<1> DEFINE Good == {T \in SUBSET S : Total(G, T) = Total(F, T)}
<1>1. {} \in Good
  BY SumEmpty
<1>2. ASSUME NEW T \in SUBSET S, NEW x \in S, T \in Good, x \notin T
      PROVE  T \cup {x} \in Good
  <2>1. x \notin T /\ IntOn(G, S) /\ G[x] = F[x]
    BY <1>2 DEF IntOn
  <2>2. Total(F, T \cup {x}) = F[x] + Total(F, T) /\ Total(G, T \cup {x}) = G[x] + Total(G, T)
    BY <2>1, SumAdd
  <2>3. QED
    BY <1>2, <2>1, <2>2
<1>3. S \in Good
  <2> HIDE DEF Good
  <2> QED
    BY <1>1, <1>2, SetInduction
<1>4. QED
  BY <1>3

\* Greater terms have a greater sum.
LEMMA SumMonotone ==
  ASSUME NEW S, IsFiniteSet(S), NEW F, NEW G, IntOn(F, S), IntOn(G, S),
         \A i \in S : F[i] <= G[i]
  PROVE  Total(F, S) <= Total(G, S)
<1> DEFINE Good == {T \in SUBSET S : Total(F, T) <= Total(G, T)}
<1>1. {} \in Good
  BY SumEmpty
<1>2. ASSUME NEW T \in SUBSET S, NEW x \in S, T \in Good, x \notin T
      PROVE  T \cup {x} \in Good
  <2>1. x \notin T
    BY <1>2
  <2>2. Total(F, T \cup {x}) = F[x] + Total(F, T) /\ Total(F, T) \in Int /\ F[x] \in Int
    BY <2>1, SumAdd
  <2>3. Total(G, T \cup {x}) = G[x] + Total(G, T) /\ Total(G, T) \in Int /\ G[x] \in Int
    BY <2>1, SumAdd
  <2>4. QED
    BY <1>2, <2>2, <2>3
<1>3. S \in Good
  <2> HIDE DEF Good
  <2> QED
    BY <1>1, <1>2, SetInduction
<1>4. QED
  BY <1>3

\* A factor of all terms is one of the sum.
LEMMA SumScaled ==
  ASSUME NEW S, IsFiniteSet(S), NEW F, NEW G, NEW k \in Int, IntOn(F, S), Scaled(G, k, F, S)
  PROVE  Total(G, S) = k * Total(F, S)
<1> DEFINE Good == {T \in SUBSET S : Total(G, T) = k * Total(F, T)}
<1>1. {} \in Good
  BY SumEmpty
<1>2. ASSUME NEW T \in SUBSET S, NEW x \in S, T \in Good, x \notin T
      PROVE  T \cup {x} \in Good
  <2>0. x \notin T
    BY <1>2
  <2>1. IntOn(G, S)
    BY DEF IntOn, Scaled
  <2>2. Total(F, T \cup {x}) = F[x] + Total(F, T) /\ Total(F, T) \in Int /\ F[x] \in Int
    BY <2>0, SumAdd
  <2>3. Total(G, T \cup {x}) = G[x] + Total(G, T)
    BY <2>0, <2>1, SumAdd
  <2>4. G[x] = k * F[x]
    BY DEF Scaled
  <2>5. QED
    BY <1>2, <2>2, <2>3, <2>4
<1>3. S \in Good
  <2> HIDE DEF Good
  <2> QED
    BY <1>1, <1>2, SetInduction
<1>4. QED
  BY <1>3

\* Term by term, sums add up.
LEMMA SumPlus ==
  ASSUME NEW S, IsFiniteSet(S), NEW F, NEW G, NEW H, IntOn(F, S), IntOn(G, S),
         Added(H, F, G, S)
  PROVE  Total(H, S) = Total(F, S) + Total(G, S)
<1> DEFINE Good == {T \in SUBSET S : Total(H, T) = Total(F, T) + Total(G, T)}
<1>1. {} \in Good
  BY SumEmpty
<1>2. ASSUME NEW T \in SUBSET S, NEW x \in S, T \in Good, x \notin T
      PROVE  T \cup {x} \in Good
  <2>0. x \notin T
    BY <1>2
  <2>1. IntOn(H, S)
    BY DEF IntOn, Added
  <2>2. ASSUME NEW K, IntOn(K, S)
        PROVE  Total(K, T \cup {x}) = K[x] + Total(K, T) /\ Total(K, T) \in Int /\ K[x] \in Int
    BY <2>0, <2>2, SumAdd
  <2>3. Total(F, T \cup {x}) = F[x] + Total(F, T) /\ Total(F, T) \in Int /\ F[x] \in Int
    BY <2>2
  <2>4. /\ Total(G, T \cup {x}) = G[x] + Total(G, T) /\ Total(G, T) \in Int /\ G[x] \in Int
        /\ Total(H, T \cup {x}) = H[x] + Total(H, T)
    BY <2>1, <2>2
  <2>5. H[x] = F[x] + G[x]
    BY DEF Added
  <2>6. QED
    BY <1>2, <2>3, <2>4, <2>5
<1>3. S \in Good
  <2> HIDE DEF Good
  <2> QED
    BY <1>1, <1>2, SetInduction
<1>4. QED
  BY <1>3

\* Terms that are 0 may be left out.
LEMMA SumWithoutZeros ==
  ASSUME NEW S, IsFiniteSet(S), NEW F, IntOn(F, S), NEW R \in SUBSET S,
         \A i \in S \ R : F[i] = 0
  PROVE  Total(F, S) = Total(F, R)
<1> DEFINE Good == {T \in SUBSET S : Total(F, T) = Total(F, T \cap R)}
<1>1. {} \in Good
  <2>1. {} \cap R = {}
    OBVIOUS
  <2>2. QED
    BY <2>1
<1>2. ASSUME NEW T \in SUBSET S, NEW x \in S, T \in Good, x \notin T
      PROVE  T \cup {x} \in Good
  <2> DEFINE U == T \cap R
  <2>1. x \notin T /\ x \notin U /\ U \in SUBSET S
    BY <1>2
  <2>2. Total(F, T \cup {x}) = F[x] + Total(F, T) /\ Total(F, T) \in Int
    BY <2>1, SumAdd
  <2>3. Total(F, T) = Total(F, U)
    BY <1>2
  <2>4. Total(F, T \cup {x}) = Total(F, (T \cup {x}) \cap R)
    <3>1. CASE x \in R
      <4>1. (T \cup {x}) \cap R = U \cup {x}
        BY <3>1
      <4> HIDE DEF U
      <4>2. Total(F, U \cup {x}) = F[x] + Total(F, U)
        BY <2>1, SumAdd
      <4>3. QED
        BY <2>2, <2>3, <4>1, <4>2
    <3>2. CASE x \notin R
      <4>1. (T \cup {x}) \cap R = U /\ F[x] = 0
        BY <3>2
      <4> HIDE DEF U
      <4>2. Total(F, (T \cup {x}) \cap R) = Total(F, U)
        BY <4>1
      <4>3. Total(F, T \cup {x}) = Total(F, U)
        BY <2>2, <2>3, <4>1
      <4>4. QED
        BY <4>2, <4>3
    <3>3. QED
      BY <3>1, <3>2
  <2>5. QED
    BY <2>4
<1>3. S \in Good
  <2> HIDE DEF Good
  <2> QED
    BY <1>1, <1>2, SetInduction
<1>4. S \cap R = R
  OBVIOUS
<1>5. QED
  BY <1>3, <1>4

\* Nothing but zeros sums to 0.
LEMMA SumZero ==
  ASSUME NEW S, IsFiniteSet(S), NEW F, \A i \in S : F[i] = 0
  PROVE  Total(F, S) = 0
<1>1. IntOn(F, S) /\ {} \in SUBSET S
  BY DEF IntOn
<1>2. Total(F, S) = Total(F, {})
  BY <1>1, SumWithoutZeros
<1>3. QED
  BY <1>2, SumEmpty

\* The rows of a table, the table turned over, the sums of its rows.
IntRows(M, S, R)    == \A i \in S : IntOn(M[i], R)
Turned(N, M, S, R)  == \A i \in S, r \in R : N[r][i] = M[i][r]
RowSums(G, M, S, R) == \A i \in S : G[i] = Total(M[i], R)

\* A sum of sums may be taken in the other order.
LEMMA SumSwap ==
  ASSUME NEW S, IsFiniteSet(S), NEW R, IsFiniteSet(R), NEW M, NEW N, NEW G, NEW H,
         IntRows(M, S, R), Turned(N, M, S, R), RowSums(G, M, S, R), RowSums(H, N, R, S)
  PROVE  Total(G, S) = Total(H, R)
<1> DEFINE part(T) == [r \in R |-> Total(N[r], T)]
           Good == {T \in SUBSET S : Total(G, T) = Total(part(T), R)}
<1>g. IntOn(G, S)
  <2>1. ASSUME NEW i \in S
        PROVE  G[i] \in Int
    <3>1. IntOn(M[i], R) /\ G[i] = Total(M[i], R)
      BY DEF IntRows, RowSums
    <3>2. QED
      BY <3>1, SumInt
  <2>2. QED
    BY <2>1 DEF IntOn
<1>n. \A r \in R : IntOn(N[r], S)
  BY DEF IntOn, IntRows, Turned
<1>1. {} \in Good
  <2>1. \A r \in R : part({})[r] = 0
    BY SumEmpty
  <2> HIDE DEF part
  <2>2. Total(part({}), R) = 0
    BY <2>1, SumZero
  <2>3. QED
    BY <2>2, SumEmpty
<1>2. ASSUME NEW T \in SUBSET S, NEW x \in S, T \in Good, x \notin T
      PROVE  T \cup {x} \in Good
  <2> DEFINE old == part(T)
             new == part(T \cup {x})
             row == M[x]
  <2>1. x \notin T
    BY <1>2
  <2>2. ASSUME NEW r \in R
        PROVE  old[r] \in Int /\ new[r] = row[r] + old[r]
    <3>1. Total(N[r], T \cup {x}) = N[r][x] + Total(N[r], T) /\ Total(N[r], T) \in Int
      <4>1. IntOn(N[r], S)
        BY <1>n
      <4>2. ASSUME NEW K, IntOn(K, S)
            PROVE  Total(K, T \cup {x}) = K[x] + Total(K, T) /\ Total(K, T) \in Int
        BY <2>1, <4>2, SumAdd
      <4>3. QED
        BY <4>1, <4>2
    <3>2. QED
      BY <3>1 DEF Turned
  <2>3. IntOn(old, R) /\ IntOn(row, R) /\ Added(new, row, old, R)
    <3> HIDE DEF old, new
    <3> QED
      BY <2>2 DEF IntOn, Added, IntRows
  <2>4. Total(new, R) = Total(row, R) + Total(old, R)
    <3> HIDE DEF old, new, row
    <3> QED
      BY <2>3, SumPlus
  <2>5. Total(G, T \cup {x}) = G[x] + Total(G, T) /\ G[x] = Total(row, R)
    BY <1>g, <2>1, SumAdd DEF RowSums
  <2>6. Total(G, T) = Total(old, R)
    BY <1>2
  <2> HIDE DEF old, new, row
  <2>7. Total(G, T \cup {x}) = Total(new, R)
    BY <2>4, <2>5, <2>6
  <2>8. QED
    BY <2>7 DEF new
<1>3. S \in Good
  <2> HIDE DEF Good
  <2> QED
    BY <1>1, <1>2, SetInduction
<1>4. \A r \in R : part(S)[r] \in Int /\ H[r] = part(S)[r]
  <2>1. ASSUME NEW r \in R
        PROVE  Total(N[r], S) \in Int
    BY <1>n, SumInt
  <2>2. QED
    BY <2>1 DEF RowSums
<1>5. Total(G, S) = Total(part(S), R)
  BY <1>3
<1> HIDE DEF part
<1>6. IntOn(part(S), R)
  BY <1>4 DEF IntOn
<1>7. QED
  BY <1>4, <1>5, <1>6, SumSame

\* What each group of terms sums to, one group for each value of h.
GroupSums(G, D, F, S, h) == \A d \in D : G[d] = Total(F, {i \in S : h[i] = d})

\* A sum may be taken in groups.
LEMMA SumInGroups ==
  ASSUME NEW S, IsFiniteSet(S), NEW D, IsFiniteSet(D), NEW F, NEW G, NEW h, IntOn(F, S),
         \A i \in S : h[i] \in D,
         GroupSums(G, D, F, S, h)
  PROVE  Total(G, D) = Total(F, S)
<1> DEFINE M == [d \in D |-> [i \in S |-> IF h[i] = d THEN F[i] ELSE 0]]
           N == [i \in S |-> [d \in D |-> IF h[i] = d THEN F[i] ELSE 0]]
<1>1. \A d \in D : IntOn(M[d], S)
  BY DEF IntOn
<1>2. \A d \in D, i \in S : N[i][d] = M[d][i]
  OBVIOUS
<1>3. ASSUME NEW d \in D
      PROVE  G[d] = Total(M[d], S)
  <2> DEFINE group == {i \in S : h[i] = d}
             row == M[d]
  <2>1. /\ group \in SUBSET S /\ \A i \in S \ group : row[i] = 0
        /\ \A i \in group : row[i] = F[i]
    OBVIOUS
  <2>2. IntOn(row, S) /\ IntOn(F, group) /\ IsFiniteSet(group) /\ G[d] = Total(F, group)
    <3>1. IntOn(row, S)
      BY <1>1
    <3>2. IsFiniteSet(group) /\ IntOn(F, group)
      BY FS_Subset DEF IntOn
    <3>3. G[d] = Total(F, group)
      BY DEF GroupSums
    <3>4. QED
      BY <3>1, <3>2, <3>3
  <2> HIDE DEF row, group
  <2>3. Total(row, S) = Total(row, group)
    BY <2>1, <2>2, SumWithoutZeros
  <2>4. Total(row, group) = Total(F, group)
    BY <2>1, <2>2, SumSame
  <2>5. QED
    BY <2>2, <2>3, <2>4 DEF row
<1>4. ASSUME NEW i \in S
      PROVE  F[i] = Total(N[i], D)
  <2> DEFINE row == N[i]
  <2>1. /\ {h[i]} \in SUBSET D /\ row[h[i]] = F[i] /\ F[i] \in Int
        /\ \A d \in D \ {h[i]} : row[d] = 0
    BY DEF IntOn
  <2>2. IntOn(row, D)
    BY DEF IntOn
  <2> HIDE DEF row
  <2>3. Total(row, D) = Total(row, {h[i]})
    BY <2>1, <2>2, SumWithoutZeros
  <2>4. Total(row, {h[i]}) = F[i]
    BY <2>1, SumSingle
  <2>5. QED
    BY <2>3, <2>4 DEF row
<1> HIDE DEF M, N
<1>5. IntRows(M, D, S) /\ Turned(N, M, D, S) /\ RowSums(G, M, D, S) /\ RowSums(F, N, S, D)
  BY <1>1, <1>2, <1>3, <1>4 DEF IntRows, Turned, RowSums
<1>6. QED
  BY <1>5, SumSwap

\* The terms may be counted under other names.
LEMMA SumRenamed ==
  ASSUME NEW S, IsFiniteSet(S), NEW F, NEW G, NEW h, IntOn(F, S),
         \A i, j \in S : h[i] = h[j] => i = j,
         \A i \in S : G[h[i]] = F[i]
  PROVE  Total(G, {h[i] : i \in S}) = Total(F, S)
<1> DEFINE D == {h[i] : i \in S}
<1>1. IsFiniteSet(D) /\ \A i \in S : h[i] \in D
  BY FiniteImage
<1>2. ASSUME NEW d \in D
      PROVE  G[d] = Total(F, {i \in S : h[i] = d})
  <2>1. PICK i \in S : d = h[i]
    OBVIOUS
  <2>2. {j \in S : h[j] = d} = {i}
    BY <2>1
  <2>3. Total(F, {i}) = F[i]
    BY SumSingle DEF IntOn
  <2>4. QED
    BY <2>1, <2>2, <2>3
<1>3. Total(G, D) = Total(F, S)
  <2> HIDE DEF D
  <2>1. GroupSums(G, D, F, S, h)
    BY <1>2 DEF GroupSums
  <2>2. QED
    BY <1>1, <2>1, SumInGroups
<1>4. QED
  BY <1>3


\* With no term negative, a part of the terms sums to no more than all.
LEMMA SumSubset ==
  ASSUME NEW S, IsFiniteSet(S), NEW F, IntOn(F, S), \A i \in S : F[i] >= 0, NEW R \in SUBSET S
  PROVE  Total(F, R) <= Total(F, S)
<1> DEFINE G == [i \in S |-> IF i \in R THEN F[i] ELSE 0]
<1>1. IntOn(G, S) /\ IntOn(F, R) /\ IsFiniteSet(R)
  BY FS_Subset DEF IntOn
<1>2. (\A i \in S : G[i] <= F[i]) /\ (\A i \in S \ R : G[i] = 0) /\ (\A i \in R : G[i] = F[i])
  BY DEF IntOn
<1> HIDE DEF G
<1>3. Total(G, S) <= Total(F, S)
  BY <1>1, <1>2, SumMonotone
<1>4. Total(G, S) = Total(G, R)
  BY <1>1, <1>2, SumWithoutZeros
<1>5. Total(G, R) = Total(F, R)
  BY <1>1, <1>2, SumSame
<1>6. Total(F, R) \in Int /\ Total(F, S) \in Int
  BY <1>1, SumInt
<1>7. QED
  BY <1>3, <1>4, <1>5, <1>6

\* The sum of one number over and over.
LEMMA SumConstant ==
  ASSUME NEW S, IsFiniteSet(S), NEW k \in Int, NEW F, \A i \in S : F[i] = k
  PROVE  Total(F, S) = k * Cardinality(S)
<1> DEFINE Good == {T \in SUBSET S : Total(F, T) = k * Cardinality(T)}
<1>0. IntOn(F, S)
  BY DEF IntOn
<1>1. {} \in Good
  BY SumEmpty, FS_EmptySet
<1>2. ASSUME NEW T \in SUBSET S, NEW x \in S, T \in Good, x \notin T
      PROVE  T \cup {x} \in Good
  <2>1. x \notin T
    BY <1>2
  <2>2. Total(F, T \cup {x}) = F[x] + Total(F, T)
    BY <1>0, <2>1, SumAdd
  <2>3. Cardinality(T \cup {x}) = Cardinality(T) + 1 /\ Cardinality(T) \in Nat
    BY <2>1, FS_Subset, FS_AddElement, FS_CardinalityType
  <2>4. k * (Cardinality(T) + 1) = k + k * Cardinality(T)
    BY <2>3
  <2>5. QED
    BY <1>2, <2>2, <2>3, <2>4
<1>3. S \in Good
  <2> HIDE DEF Good
  <2> QED
    BY <1>1, <1>2, SetInduction
<1>4. QED
  BY <1>3

\* Two elements or more.
LEMMA TwoElements ==
  ASSUME NEW S, IsFiniteSet(S)
  PROVE  Cardinality(S) >= 2 <=> \E x, y \in S : x # y
<1>1. ASSUME NEW x \in S, NEW y \in S, x # y
      PROVE  Cardinality(S) >= 2
  <2>1. Cardinality({x}) = 1 /\ IsFiniteSet({x}) /\ y \notin {x}
    BY <1>1, FS_Singleton
  <2>2. Cardinality({x} \cup {y}) = 2
    BY <2>1, FS_AddElement
  <2>3. {x} \cup {y} \in SUBSET S
    OBVIOUS
  <2>4. Cardinality(S) \in Nat /\ Cardinality({x} \cup {y}) <= Cardinality(S)
    BY <2>3, FS_Subset, FS_CardinalityType
  <2>5. QED
    BY <2>2, <2>4
<1>2. ASSUME Cardinality(S) >= 2
      PROVE  \E x, y \in S : x # y
  <2>1. Cardinality(S) \in Nat /\ S # {}
    BY <1>2, FS_EmptySet, FS_CardinalityType
  <2>2. PICK x \in S : TRUE
    BY <2>1
  <2>3. IsFiniteSet(S \ {x}) /\ Cardinality(S \ {x}) = Cardinality(S) - 1
    BY <2>2, FS_RemoveElement
  <2>4. S \ {x} # {}
    BY <1>2, <2>1, <2>3, FS_EmptySet
  <2>5. QED
    BY <2>2, <2>4
<1>3. QED
  BY <1>1, <1>2

-----------------------------------------------------------------------------
(***************************************************************************)
(* The invariant: what the state is made of, and that a datacenter's       *)
(* prices are those of its hardware.                                       *)
(***************************************************************************)
Workloads == Seq([dc: Datacenters, need: Needs])

EngineInv ==
  /\ hardware \in [Datacenters -> Hardware]
  /\ workloads \in Workloads
  /\ DOMAIN prices \subseteq Datacenters
  /\ \A dc \in DOMAIN prices, r \in Resources :
        prices[dc][r] \in DailyUnitPrices(hardware[dc], r)

\* The resources are finitely many.
LEMMA FewResources == IsFiniteSet(Resources)
<1>1. {"cpu", "ram", "ssd", "hdd"} = ((({} \cup {"cpu"}) \cup {"ram"}) \cup {"ssd"}) \cup {"hdd"}
  OBVIOUS
<1>2. IsFiniteSet((({} \cup {"cpu"}) \cup {"ram"}) \cup {"ssd"}) 
  BY FS_EmptySet, FS_AddElement
<1>3. IsFiniteSet({"cpu", "ram", "ssd", "hdd"})
  BY <1>1, <1>2, FS_AddElement
<1>4. QED
  BY <1>3, ResourcesAssumption, FS_Subset

\* A sequence has finitely many places.
LEMMA FewPlaces ==
  ASSUME NEW T, NEW s \in Seq(T)
  PROVE  IsFiniteSet(DOMAIN s) /\ DOMAIN s \in SUBSET Nat
  BY FS_Interval

\* The monthly price, the units and the share of a resource are naturals.
LEMMA SharesAreNat ==
  ASSUME NEW hw \in Hardware
  PROVE  /\ MonthlyPrice(hw) \in Nat
         /\ \A r \in Resources : Units(hw, r) \in Nat /\ Percent[r] \in Nat
<1> DEFINE share(items) == SumOver(DOMAIN items, LAMBDA i : Amortized(items[i]))
<1>1. ASSUME NEW T, NEW items \in Seq(T), \A t \in T : t.price \in Nat /\ t.amort \in Nat
      PROVE  share(items) \in Nat
  <2> DEFINE F == [i \in DOMAIN items |-> Amortized(items[i])]
             S == DOMAIN items
  <2>1. share(items) = Total(F, S)
    BY DEF SumOver, SumFunction, Total
  <2>2. \A t \in T : Amortized(t) \in Nat
    <3>1. \A p \in Nat, a \in Nat \ {0} : p \div a \in Nat
      OBVIOUS
    <3>2. QED
      BY <1>1, <3>1 DEF Amortized
  <2>3. \A i \in S : F[i] \in Nat
    <3>1. ASSUME NEW i \in S
          PROVE  items[i] \in T
      OBVIOUS
    <3>2. \A i \in S : F[i] = Amortized(items[i])
      OBVIOUS
    <3> HIDE DEF F, S
    <3>3. QED
      BY <2>2, <3>1, <3>2
  <2>4. IsFiniteSet(S)
    BY FewPlaces
  <2> HIDE DEF F, S
  <2>5. IntOn(F, S) /\ \A i \in S : F[i] >= 0
    BY <2>3 DEF IntOn
  <2>6. QED
    BY <2>1, <2>4, <2>5, SumInt
<1>2. share(hw.servers) \in Nat /\ share(hw.infrastructure) \in Nat /\ hw.fee \in Nat
  <2> DEFINE A == [price: Nat, amort: Nat, units: [Resources -> Nat]]
             B == [price: Nat, amort: Nat]
  <2>1. hw.servers \in Seq(A) /\ hw.infrastructure \in Seq(B) /\ hw.fee \in Nat
    BY HardwareAssumption
  <2>2. /\ \A t \in A : t.price \in Nat /\ t.amort \in Nat
        /\ \A t \in B : t.price \in Nat /\ t.amort \in Nat
    OBVIOUS
  <2> HIDE DEF share, A, B
  <2>3. QED
    BY <1>1, <2>1, <2>2
<1>3. MonthlyPrice(hw) \in Nat
  <2>1. MonthlyPrice(hw) = share(hw.servers) + share(hw.infrastructure) + hw.fee
    BY DEF MonthlyPrice
  <2> HIDE DEF share
  <2>2. QED
    BY <1>2, <2>1
<1>4. ASSUME NEW r \in Resources
      PROVE  Units(hw, r) \in Nat
  <2> DEFINE S == DOMAIN hw.servers
             F == [i \in S |-> hw.servers[i].units[r]]
  <2>1. Units(hw, r) = Total(F, S)
    BY DEF Units, SumOver, SumFunction, Total
  <2>2. IsFiniteSet(S) /\ \A i \in S : F[i] \in Nat
    <3> DEFINE A == [price: Nat, amort: Nat, units: [Resources -> Nat]]
    <3>1. hw.servers \in Seq(A)
      BY HardwareAssumption
    <3>2. \A t \in A : t.units[r] \in Nat
      OBVIOUS
    <3> HIDE DEF A
    <3>3. ASSUME NEW i \in S
          PROVE  hw.servers[i] \in A
      BY <3>1
    <3>4. \A i \in S : F[i] \in Nat
      BY <3>2, <3>3
    <3>5. IsFiniteSet(S)
      BY <3>1, FewPlaces
    <3>6. QED
      BY <3>4, <3>5
  <2> HIDE DEF F, S
  <2>3. IntOn(F, S) /\ \A i \in S : F[i] >= 0
    BY <2>2 DEF IntOn
  <2>4. QED
    BY <2>1, <2>2, <2>3, SumInt
<1>5. \A r \in Resources : Percent[r] \in Nat
  BY ResourcesAssumption DEF Percent
<1>6. QED
  BY <1>3, <1>4, <1>5

\* A unit price times the units and days is no more than the resource's share.
LEMMA PriceWithinShare ==
  ASSUME NEW hw \in Hardware, NEW r \in Resources, NEW p \in DailyUnitPrices(hw, r)
  PROVE  p \in Nat /\ p * (Units(hw, r) * (DaysInMonth * 100)) <= MonthlyPrice(hw) * Percent[r]
<1> DEFINE portion == MonthlyPrice(hw) * Percent[r]
           share == Units(hw, r) * DaysInMonth * 100
<1>1. MonthlyPrice(hw) \in Nat /\ Percent[r] \in Nat /\ Units(hw, r) \in Nat /\ DaysInMonth \in Nat
  BY SharesAreNat, BoundsAssumption
<1>2. \A m, n \in Nat : m * n \in Nat
  OBVIOUS
<1>3. portion \in Nat /\ share \in Nat /\ share = Units(hw, r) * (DaysInMonth * 100)
  BY <1>1, <1>2
<1>4. \/ share = 0 /\ p = 0
      \/ share # 0 /\ p = portion \div share
      \/ share # 0 /\ portion \div share > 0 /\ p = (portion \div share) - 1
  BY DEF DailyUnitPrices
<1> HIDE DEF portion, share
<1>5. ASSUME share # 0
      PROVE  portion \div share \in Nat /\ (portion \div share) * share <= portion
  <2>1. \A a \in Nat, b \in Nat \ {0} : a \div b \in Nat /\ (a \div b) * b <= a
    OBVIOUS
  <2>2. QED
    BY <1>3, <1>5, <2>1
<1>6. CASE share = 0
  BY <1>3, <1>4, <1>6 DEF portion
<1>7. CASE share # 0
  <2> DEFINE q == portion \div share
  <2>1. q \in Nat /\ q * share <= portion /\ (p = q \/ (q > 0 /\ p = q - 1))
    BY <1>4, <1>5, <1>7
  <2> HIDE DEF q
  <2>2. \A m \in Nat, s \in Nat : (m - 1) * s <= m * s
    OBVIOUS
  <2>3. p \in Nat /\ p * share <= q * share
    BY <1>3, <2>1, <2>2
  <2>4. p * share \in Int /\ q * share \in Int
    BY <1>3, <2>1, <2>3
  <2>5. p * share <= portion
    BY <1>3, <2>1, <2>3, <2>4
  <2>6. QED
    BY <1>3, <2>3, <2>5 DEF portion
<1>8. QED
  BY <1>6, <1>7

\* EngineInv is an invariant.
LEMMA InitEngine == Init => EngineInv
<1> SUFFICES ASSUME Init
             PROVE  EngineInv
  OBVIOUS
<1>1. <<>> \in Workloads /\ DOMAIN <<>> = {}
  BY DEF Workloads
<1>2. QED
  BY <1>1 DEF Init, EngineInv

\* Every step preserves EngineInv.
LEMMA NextEngine == EngineInv /\ [Next]_vars => EngineInv'
<1> SUFFICES ASSUME EngineInv, [Next]_vars
             PROVE  EngineInv'
  OBVIOUS
<1>1. ASSUME NEW dc \in Datacenters, PriceDatacenter(dc)
      PROVE  EngineInv'
  <2>1. PICK unit : /\ \A r \in Resources : unit[r] \in DailyUnitPrices(hardware[dc], r)
                    /\ prices' = [d \in DOMAIN prices \cup {dc} |-> IF d = dc THEN unit ELSE prices[d]]
                    /\ UNCHANGED <<hardware, platform, workloads>>
    BY <1>1 DEF PriceDatacenter
  <2>2. ASSUME NEW d \in DOMAIN prices', NEW r \in Resources
        PROVE  prices'[d][r] \in DailyUnitPrices(hardware'[d], r)
    BY <2>1 DEF EngineInv
  <2>3. DOMAIN prices' \subseteq Datacenters /\ hardware' = hardware /\ workloads' = workloads
    BY <2>1 DEF EngineInv
  <2>4. \A d \in DOMAIN prices', r \in Resources : (prices[d][r])' \in DailyUnitPrices(hardware[d], r)'
    BY <2>2
  <2>5. QED
    BY <2>3, <2>4 DEF EngineInv
<1>2. ASSUME NEW dc \in Datacenters, NEW need \in Needs, AddWorkload(dc, need)
      PROVE  EngineInv'
  <2>1. /\ workloads' = Append(workloads, [dc |-> dc, need |-> need])
        /\ UNCHANGED <<hardware, platform, prices>>
    BY <1>2 DEF AddWorkload
  <2>2. workloads' \in Workloads
    BY <2>1 DEF EngineInv, Workloads
  <2>3. QED
    BY <2>1, <2>2 DEF EngineInv
<1>3. CASE UNCHANGED vars
  BY <1>3 DEF vars, EngineInv
<1>4. QED
  BY <1>1, <1>2, <1>3 DEF Next

\* Datacenters and services are what they should be, prices those of the
\* hardware.
THEOREM EngineInvariant == Spec => []EngineInv
<1>1. Init => EngineInv
  BY InitEngine
<1>2. EngineInv /\ [Next]_vars => EngineInv'
  BY NextEngine
<1>3. QED
  BY <1>1, <1>2, PTL DEF Spec

-----------------------------------------------------------------------------
\* A workload asks for a natural number of each resource, in a datacenter.
LEMMA NeedsAreNat ==
  ASSUME NEW ws \in Workloads, NEW i \in DOMAIN ws
  PROVE  ws[i].dc \in Datacenters /\ \A r \in Resources : ws[i].need[r] \in Nat
<1>1. ws[i] \in [dc: Datacenters, need: Needs]
  <2> DEFINE T == [dc: Datacenters, need: Needs]
  <2>1. ws \in Seq(T)
    BY DEF Workloads
  <2> HIDE DEF T
  <2>2. ws[i] \in T
    BY <2>1
  <2>3. QED
    BY <2>2 DEF T
<1>2. \A n \in Needs, r \in Resources : n[r] \in Nat
  BY NeedsAssumption
<1>3. QED
  BY <1>1, <1>2

\* So are the prices of a datacenter that has some, and they stay within its
\* shares.
LEMMA PricesAreNat ==
  ASSUME EngineInv, NEW dc \in DOMAIN prices, NEW r \in Resources
  PROVE  /\ prices[dc][r] \in Nat
         /\ prices[dc][r] * (Units(hardware[dc], r) * (DaysInMonth * 100))
               <= MonthlyPrice(hardware[dc]) * Percent[r]
         /\ hardware[dc] \in Hardware
<1>1. hardware[dc] \in Hardware /\ prices[dc][r] \in DailyUnitPrices(hardware[dc], r)
  BY DEF EngineInv
<1>2. QED
  BY <1>1, PriceWithinShare

\* Workloads that pay a datacenter's own prices cost its price of each
\* resource, times what they need of it.
LEMMA GroupPaysForNeed ==
  ASSUME EngineInv, NEW ws \in Workloads, ~Blends(ws), NEW dc \in DOMAIN prices
  PROVE  GroupCost(ws, dc)
            = Total([r \in Resources |-> prices[dc][r] * Need(ws, dc, r)], Resources)
<1> DEFINE W == {i \in DOMAIN ws : ws[i].dc = dc}
           G == [i \in W |-> WorkloadCost(ws, ws[i])]
           H == [r \in Resources |-> prices[dc][r] * Need(ws, dc, r)]
           M == [i \in W |-> [r \in Resources |-> ws[i].need[r] * UnitPrice(ws, ws[i].dc, r)]]
           N == [r \in Resources |-> [i \in W |-> ws[i].need[r] * prices[dc][r]]]
<1>1. IsFiniteSet(W) /\ IsFiniteSet(Resources)
  BY FewPlaces, FewResources, FS_Subset DEF Workloads
<1>2. \A i \in W, r \in Resources : /\ M[i][r] = N[r][i] /\ N[r][i] \in Int
                                    /\ ws[i].need[r] \in Nat /\ prices[dc][r] \in Nat
  <2>1. ASSUME NEW i \in W, NEW r \in Resources
        PROVE  ws[i].need[r] \in Nat /\ prices[dc][r] \in Nat /\ ws[i].dc = dc
    BY NeedsAreNat, PricesAreNat
  <2>2. \A i \in W, r \in Resources : UnitPrice(ws, ws[i].dc, r) = prices[dc][r]
    BY DEF UnitPrice
  <2>3. QED
    BY <2>1, <2>2
<1>3. IntRows(M, W, Resources) /\ Turned(N, M, W, Resources)
  BY <1>2 DEF IntRows, Turned, IntOn
<1>4. RowSums(G, M, W, Resources)
  BY DEF RowSums, WorkloadCost, SumOver, SumFunction, Total
<1>5. ASSUME NEW r \in Resources
      PROVE  H[r] = Total(N[r], W)
  <2> DEFINE F == [i \in W |-> ws[i].need[r]]
             row == N[r]
             p == prices[dc][r]
  <2>1. Need(ws, dc, r) = Total(F, W) /\ H[r] = p * Need(ws, dc, r)
    BY DEF Need, SumOver, SumFunction, Total
  <2>2. p \in Int
    BY PricesAreNat
  <2>3. ASSUME NEW i \in W
        PROVE  F[i] \in Int /\ row[i] = p * F[i]
    <3>1. F[i] \in Nat /\ row[i] = F[i] * p
      BY <1>2
    <3> HIDE DEF F, row, p
    <3>2. QED
      BY <2>2, <3>1
  <2> HIDE DEF F, row, p, W
  <2>4. IntOn(F, W) /\ Scaled(row, p, F, W)
    BY <2>3 DEF IntOn, Scaled
  <2>5. Total(row, W) = p * Total(F, W)
    BY <1>1, <2>2, <2>4, SumScaled
  <2>6. QED
    BY <2>1, <2>5 DEF row
<1>6. RowSums(H, N, Resources, W)
  BY <1>5 DEF RowSums
<1>7. GroupCost(ws, dc) = Total(G, W)
  BY DEF GroupCost, SumOver, SumFunction, Total
<1> HIDE DEF G, H, M, N, W
<1>8. Total(G, W) = Total(H, Resources)
  BY <1>1, <1>3, <1>4, <1>6, SumSwap
<1>9. QED
  BY <1>7, <1>8 DEF H

\* What is needed is a natural.
LEMMA NeedIsNat ==
  ASSUME NEW ws \in Workloads, NEW dc, NEW r \in Resources
  PROVE  Need(ws, dc, r) \in Nat
<1> DEFINE W == {i \in DOMAIN ws : ws[i].dc = dc}
           F == [i \in W |-> ws[i].need[r]]
<1>1. IsFiniteSet(W)
  BY FewPlaces, FS_Subset DEF Workloads
<1>2. Need(ws, dc, r) = Total(F, W)
  BY DEF Need, SumOver, SumFunction, Total
<1>3. \A i \in W : F[i] \in Nat
  BY NeedsAreNat
<1> HIDE DEF F, W
<1>4. IntOn(F, W) /\ \A i \in W : F[i] >= 0
  BY <1>3 DEF IntOn
<1>5. QED
  BY <1>1, <1>2, <1>4, SumInt

\* CostWithinPrice, in every state of the invariant.
LEMMA EngineCostWithinPrice == EngineInv => CostWithinPrice
<1> SUFFICES ASSUME EngineInv, NEW dc \in Datacenters,
                    ~Blends(workloads), Fits(workloads, dc)
             PROVE  GroupCost(workloads, dc) * DaysInMonth * 100
                       <= MonthlyPrice(hardware[dc]) * SumOver(Resources, LAMBDA r : Percent[r])
  BY DEF CostWithinPrice
<1> DEFINE k == DaysInMonth * 100
           m == MonthlyPrice(hardware[dc])
           P == [r \in Resources |-> Percent[r]]
           H == [r \in Resources |-> prices[dc][r] * Need(workloads, dc, r)]
           kH == [r \in Resources |-> k * H[r]]
           mP == [r \in Resources |-> m * P[r]]
<1>1. workloads \in Workloads /\ hardware[dc] \in Hardware
  BY DEF EngineInv
<1>2. m \in Nat /\ k \in Nat /\ \A r \in Resources : P[r] \in Nat
  BY <1>1, SharesAreNat, BoundsAssumption
<1>3. SumOver(Resources, LAMBDA r : Percent[r]) = Total(P, Resources)
  BY DEF SumOver, SumFunction, Total
<1>4. IsFiniteSet(Resources) /\ IntOn(P, Resources) /\ Total(P, Resources) \in Nat
  <2>1. IntOn(P, Resources) /\ \A r \in Resources : P[r] >= 0
    BY <1>2 DEF IntOn
  <2>2. QED
    BY <2>1, FewResources, SumInt
<1>5. CASE dc \notin DOMAIN prices
  <2>1. GroupCost(workloads, dc) = 0
    BY <1>5 DEF GroupCost
  <2>2. m * Total(P, Resources) \in Nat
    BY <1>2, <1>4
  <2>3. 0 * DaysInMonth * 100 = 0
    BY BoundsAssumption
  <2>4. QED
    BY <1>3, <2>1, <2>2, <2>3
<1>6. CASE dc \in DOMAIN prices
  <2>1. ASSUME NEW r \in Resources
        PROVE  H[r] \in Nat /\ k * H[r] <= m * P[r]
    <3> DEFINE p == prices[dc][r]
               n == Need(workloads, dc, r)
               u == Units(hardware[dc], r)
    <3>1. p \in Nat /\ p * (u * k) <= m * P[r] /\ m * P[r] \in Nat
      BY <1>2, <1>6, PricesAreNat
    <3>2. n \in Nat /\ u \in Nat /\ n <= u
      BY <1>1, NeedIsNat, SharesAreNat DEF Fits
    <3>3. H[r] = p * n
      OBVIOUS
    <3> HIDE DEF p, n, u, k, m, H, P
    <3>4. p * n \in Nat /\ k * (p * n) \in Nat /\ p * (u * k) \in Nat
      BY <1>2, <3>1, <3>2
    <3>5. k * (p * n) <= p * (u * k)
      <4>1. \A a, b, c, d \in Nat : b <= c => d * (a * b) <= a * (c * d)
        <5> SUFFICES ASSUME NEW a \in Nat, NEW b \in Nat, NEW c \in Nat, NEW d \in Nat, b <= c
                     PROVE  d * (a * b) <= a * (c * d)
          OBVIOUS
        <5>1. PICK e \in Nat : c = b + e
          <6>1. c - b \in Nat /\ c = b + (c - b)
            OBVIOUS
          <6>2. QED
            BY <6>1
        <5>2. a * ((b + e) * d) = d * (a * b) + d * (a * e)
          OBVIOUS
        <5>3. d * (a * e) \in Nat /\ d * (a * b) \in Nat
          OBVIOUS
        <5>4. QED
          BY <5>1, <5>2, <5>3
      <4>2. QED
        BY <1>2, <3>1, <3>2, <4>1
    <3>6. QED
      BY <3>1, <3>3, <3>4, <3>5
  <2>2. /\ IntOn(H, Resources) /\ IntOn(kH, Resources) /\ IntOn(mP, Resources)
        /\ Scaled(kH, k, H, Resources) /\ Scaled(mP, m, P, Resources)
        /\ \A r \in Resources : kH[r] <= mP[r]
    <3> HIDE DEF k, m, H, P
    <3> QED
      BY <1>2, <2>1 DEF IntOn, Scaled
  <2>3. GroupCost(workloads, dc) = Total(H, Resources)
    BY <1>1, <1>6, GroupPaysForNeed
  <2> HIDE DEF k, m, H, P, kH, mP
  <2>4. Total(kH, Resources) = k * Total(H, Resources)
    BY <1>2, <1>4, <2>2, SumScaled
  <2>5. Total(mP, Resources) = m * Total(P, Resources)
    BY <1>2, <1>4, <2>2, SumScaled
  <2>6. Total(kH, Resources) <= Total(mP, Resources)
    BY <1>4, <2>2, SumMonotone
  <2>7. Total(H, Resources) \in Int
    BY <1>4, <2>2, SumInt
  <2>8. Total(H, Resources) * DaysInMonth * 100 = k * Total(H, Resources)
    BY <2>7, BoundsAssumption DEF k
  <2>9. QED
    BY <1>3, <2>3, <2>4, <2>5, <2>6, <2>8 DEF m
<1>7. QED
  BY <1>5, <1>6

\* Workloads that fit into a datacenter never pay more for a month than the
\* share of its price that the resources carry.
THEOREM FittingCostWithinPrice == Spec => []CostWithinPrice
<1>1. QED
  BY EngineInvariant, EngineCostWithinPrice, PTL

-----------------------------------------------------------------------------
\* Sets whose elements correspond have as many.
LEMMA SameCount ==
  ASSUME NEW S, IsFiniteSet(S), NEW h, \A i, j \in S : h[i] = h[j] => i = j
  PROVE  /\ IsFiniteSet({h[i] : i \in S})
         /\ Cardinality({h[i] : i \in S}) = Cardinality(S)
<1> DEFINE D == {h[i] : i \in S}
           F == [i \in S |-> 1]
           G == [d \in D |-> 1]
<1>1. IsFiniteSet(D)
  BY FiniteImage
<1>2. Cardinality(D) \in Nat /\ Cardinality(S) \in Nat
  BY <1>1, FS_CardinalityType
<1>3. /\ IntOn(F, S) /\ \A i \in S : F[i] = 1 /\ G[h[i]] = F[i]
      /\ \A d \in D : G[d] = 1
  BY DEF IntOn
<1> HIDE DEF F, G
<1>4. Total(F, S) = 1 * Cardinality(S)
  BY <1>3, SumConstant
<1>5. Total(G, D) = 1 * Cardinality(D)
  <2> HIDE DEF D
  <2> QED
    BY <1>1, <1>3, SumConstant
<1>6. Total(G, D) = Total(F, S)
  BY <1>3, SumRenamed
<1>7. QED
  BY <1>1, <1>2, <1>4, <1>5, <1>6

\* The first workloads of the datacenters with a price stand for these.
LEMMA FirstOfEach ==
  ASSUME EngineInv
  PROVE  /\ IsFiniteSet(FirstIndices(workloads)) /\ Priced(workloads) \in SUBSET FirstIndices(workloads)
         /\ \A i, j \in Priced(workloads) : workloads[i].dc = workloads[j].dc => i = j
         /\ PricedHere = {workloads[i].dc : i \in Priced(workloads)}
<1>1. IsFiniteSet(DOMAIN workloads) /\ DOMAIN workloads \in SUBSET Nat
  BY FewPlaces DEF EngineInv, Workloads
<1>2. IsFiniteSet(FirstIndices(workloads))
  BY <1>1, FS_Subset DEF FirstIndices
<1>3. ASSUME NEW i \in Priced(workloads), NEW j \in Priced(workloads),
             workloads[i].dc = workloads[j].dc, i < j
      PROVE  FALSE
  <2>1. i \in 1..(j - 1)
    BY <1>3 DEF Priced, FirstIndices, EngineInv, Workloads
  <2>2. QED
    BY <1>3, <2>1 DEF Priced, FirstIndices
<1>4. \A i, j \in Priced(workloads) : workloads[i].dc = workloads[j].dc => i = j
  <2>1. \A i \in Priced(workloads) : i \in Nat
    BY <1>1 DEF Priced, FirstIndices
  <2>2. QED
    BY <1>3, <2>1
<1>5. ASSUME NEW d \in PricedHere
      PROVE  \E i \in Priced(workloads) : workloads[i].dc = d
  <2> DEFINE T == {i \in DOMAIN workloads : workloads[i].dc = d}
  <2>1. T \in SUBSET Nat /\ T # {} /\ d \in DOMAIN prices
    BY <1>1 DEF PricedHere
  <2>2. PICK n \in T : \A k \in T : n <= k
    <3> HIDE DEF T
    <3> QED
      BY <2>1, SmallestOf
  <2>3. ASSUME NEW j \in 1..(n - 1)
        PROVE  workloads[j].dc # workloads[n].dc
    <3>1. j \in DOMAIN workloads
      BY DEF EngineInv, Workloads
    <3>2. n \in Nat /\ j \in Nat /\ ~(n <= j)
      BY <1>1
    <3>3. QED
      BY <2>2, <3>1, <3>2
  <2>4. n \in Priced(workloads)
    BY <2>1, <2>3 DEF Priced, FirstIndices
  <2>5. QED
    BY <2>4
<1>6. \A i \in Priced(workloads) : workloads[i].dc \in PricedHere
  BY DEF Priced, FirstIndices, PricedHere
<1>7. PricedHere = {workloads[i].dc : i \in Priced(workloads)}
  BY <1>5, <1>6
<1>8. QED
  BY <1>2, <1>4, <1>7 DEF Priced

\* A service is blended if it runs on Kubernetes in two datacenters with a
\* price; the average is over those, each once.
LEMMA BlendOverDatacenters ==
  ASSUME EngineInv
  PROVE  /\ IsFiniteSet(PricedHere)
         /\ Blends(workloads) <=> platform = "kubernetes" /\ \E d, e \in PricedHere : d # e
         /\ \A r \in Resources :
               Average(workloads, r) =
                  Total([d \in PricedHere |-> prices[d][r]], PricedHere) \div Cardinality(PricedHere)
<1> DEFINE S == Priced(workloads)
           h == [i \in S |-> workloads[i].dc]
<1>1. /\ IsFiniteSet(FirstIndices(workloads)) /\ S \in SUBSET FirstIndices(workloads)
      /\ \A i, j \in S : h[i] = h[j] => i = j
      /\ PricedHere = {h[i] : i \in S}
      /\ \A i \in S : h[i] \in DOMAIN prices
  <2>1. \A i \in S : h[i] \in DOMAIN prices
    BY DEF Priced
  <2>2. QED
    BY <2>1, FirstOfEach
<1>2. /\ IsFiniteSet(S) /\ Cardinality(S) <= Cardinality(FirstIndices(workloads))
      /\ Cardinality(S) \in Nat /\ Cardinality(FirstIndices(workloads)) \in Nat
  BY <1>1, FS_Subset, FS_CardinalityType
<1>3. Blends(workloads) <=> platform = "kubernetes" /\ Cardinality(S) >= 2
  BY <1>2 DEF Blends, ShouldBlend
<1>4. IsFiniteSet(PricedHere) /\ Cardinality(PricedHere) = Cardinality(S)
  <2> HIDE DEF S, h
  <2> QED
    BY <1>1, <1>2, SameCount
<1>5. Blends(workloads) <=> platform = "kubernetes" /\ \E d, e \in PricedHere : d # e
  BY <1>3, <1>4, TwoElements
<1>6. ASSUME NEW r \in Resources
      PROVE  Average(workloads, r) =
                Total([d \in PricedHere |-> prices[d][r]], PricedHere) \div Cardinality(PricedHere)
  <2> DEFINE F == [i \in S |-> prices[workloads[i].dc][r]]
             G == [d \in PricedHere |-> prices[d][r]]
  <2>1. Average(workloads, r) = Total(F, S) \div Cardinality(S)
    BY DEF Average, SumOver, SumFunction, Total
  <2>2. \A i \in S : F[i] = prices[h[i]][r] /\ prices[h[i]][r] \in Int /\ G[h[i]] = prices[h[i]][r]
    <3>1. \A d \in DOMAIN prices : prices[d][r] \in Int
      BY PricesAreNat
    <3>2. \A i \in S : h[i] \in PricedHere
      BY <1>1
    <3>3. QED
      BY <1>1, <3>1, <3>2
  <2>3. IntOn(F, S) /\ \A i \in S : G[h[i]] = F[i]
    BY <2>2 DEF IntOn
  <2> HIDE DEF F, G, h, S
  <2>4. Total(G, {h[i] : i \in S}) = Total(F, S)
    BY <1>1, <1>2, <2>3, SumRenamed
  <2>5. QED
    BY <1>1, <1>4, <2>1, <2>4 DEF G
<1>7. QED
  BY <1>4, <1>5, <1>6

-----------------------------------------------------------------------------
\* The unit price of a workload, in the terms of the property.
LEMMA UnitPricePaid ==
  ASSUME EngineInv, NEW i \in DOMAIN workloads, workloads[i].dc \in DOMAIN prices,
         NEW r \in Resources
  PROVE  UnitPrice(workloads, workloads[i].dc, r) =
            IF PaysAverage(r)
            THEN SumOver(PricedHere, LAMBDA d : prices[d][r]) \div Cardinality(PricedHere)
            ELSE OwnPrice(i, r)
<1>1. Blends(workloads) <=> platform = "kubernetes" /\ \E d, e \in PricedHere : d # e
  BY BlendOverDatacenters
<1>2. Average(workloads, r)
         = SumOver(PricedHere, LAMBDA d : prices[d][r]) \div Cardinality(PricedHere)
  <2>1. SumOver(PricedHere, LAMBDA d : prices[d][r]) = Total([d \in PricedHere |-> prices[d][r]], PricedHere)
    BY DEF SumOver, SumFunction, Total
  <2>2. QED
    BY <2>1, BlendOverDatacenters
<1>3. QED
  BY <1>1, <1>2 DEF UnitPrice, PaysAverage, OwnPrice

\* It is a natural.
LEMMA UnitPriceIsNat ==
  ASSUME EngineInv, NEW dc \in DOMAIN prices, NEW r \in Resources
  PROVE  UnitPrice(workloads, dc, r) \in Nat
<1> DEFINE n == Cardinality(PricedHere)
           F == [d \in PricedHere |-> prices[d][r]]
<1>1. prices[dc][r] \in Nat
  BY PricesAreNat
<1>2. CASE Blends(workloads)
  <2>1. IsFiniteSet(PricedHere) /\ n \in Nat /\ n >= 2
    BY <1>2, BlendOverDatacenters, TwoElements, FS_CardinalityType
  <2>2. \A d \in PricedHere : F[d] \in Nat
    <3>1. \A d \in DOMAIN prices : prices[d][r] \in Nat
      BY PricesAreNat
    <3>2. QED
      BY <3>1 DEF PricedHere
  <2>3. Average(workloads, r) = Total(F, PricedHere) \div n
    BY BlendOverDatacenters
  <2> HIDE DEF F, n
  <2>4. IntOn(F, PricedHere) /\ \A d \in PricedHere : F[d] >= 0
    BY <2>2 DEF IntOn
  <2>5. Total(F, PricedHere) \in Nat
    BY <2>1, <2>4, SumInt
  <2>6. \A a \in Nat, b \in Nat : b >= 2 => a \div b \in Nat
    OBVIOUS
  <2>7. Average(workloads, r) \in Nat
    BY <2>1, <2>3, <2>5, <2>6
  <2>8. QED
    BY <1>1, <2>7 DEF UnitPrice
<1>3. CASE ~Blends(workloads)
  BY <1>1, <1>3 DEF UnitPrice
<1>4. QED
  BY <1>2, <1>3

\* So is what a workload costs.
LEMMA WorkloadCostIsNat ==
  ASSUME EngineInv, NEW i \in DOMAIN workloads, workloads[i].dc \in DOMAIN prices
  PROVE  WorkloadCost(workloads, workloads[i]) \in Nat
<1> DEFINE F == [r \in Resources |-> workloads[i].need[r] * UnitPrice(workloads, workloads[i].dc, r)]
<1>1. WorkloadCost(workloads, workloads[i]) = Total(F, Resources)
  BY DEF WorkloadCost, SumOver, SumFunction, Total
<1>2. \A r \in Resources : F[r] \in Nat
  <2>1. ASSUME NEW r \in Resources
        PROVE  F[r] \in Nat
    <3>1. workloads[i].need[r] \in Nat /\ UnitPrice(workloads, workloads[i].dc, r) \in Nat
      BY NeedsAreNat, UnitPriceIsNat DEF EngineInv
    <3>2. \A a, b \in Nat : a * b \in Nat
      OBVIOUS
    <3>3. QED
      BY <3>1, <3>2
  <2>2. QED
    BY <2>1
<1> HIDE DEF F
<1>3. IntOn(F, Resources) /\ \A r \in Resources : F[r] >= 0
  BY <1>2 DEF IntOn
<1>4. QED
  BY <1>1, <1>3, FewResources, SumInt

\* The total, taken by datacenters, is one over the workloads.
LEMMA TotalByWorkload ==
  ASSUME EngineInv
  PROVE  TotalCost(workloads) =
            Total([i \in DOMAIN workloads |->
                     IF workloads[i].dc \in DOMAIN prices
                     THEN WorkloadCost(workloads, workloads[i]) ELSE 0], DOMAIN workloads)
<1> DEFINE S == DOMAIN workloads
           h == [i \in S |-> workloads[i].dc]
           D == {h[i] : i \in S}
           F == [i \in S |-> IF workloads[i].dc \in DOMAIN prices
                             THEN WorkloadCost(workloads, workloads[i]) ELSE 0]
           G == [d \in D |-> GroupCost(workloads, d)]
<1>1. IsFiniteSet(S) /\ IsFiniteSet(D) /\ \A i \in S : h[i] \in D
  <2>1. IsFiniteSet(S)
    BY FewPlaces DEF EngineInv, Workloads
  <2>2. IsFiniteSet(D)
    <3> HIDE DEF h, S
    <3> QED
      BY <2>1, FiniteImage
  <2>3. QED
    BY <2>1, <2>2
<1>2. \A i \in S : F[i] \in Nat
  BY WorkloadCostIsNat
<1>3. ASSUME NEW d \in D
      PROVE  G[d] = Total(F, {i \in S : h[i] = d})
  <2> DEFINE W == {i \in S : h[i] = d}
             C == [i \in W |-> WorkloadCost(workloads, workloads[i])]
  <2>1. IsFiniteSet(W)
    BY <1>1, FS_Subset
  <2>2. CASE d \notin DOMAIN prices
    <3>1. \A i \in W : F[i] = 0
      BY <2>2
    <3>2. G[d] = 0
      BY <2>2 DEF GroupCost
    <3> HIDE DEF F, G, W
    <3>3. QED
      BY <2>1, <3>1, <3>2, SumZero DEF W
  <2>3. CASE d \in DOMAIN prices
    <3>1. \A i \in W : C[i] = F[i] /\ F[i] \in Int
      BY <1>2, <2>3
    <3>2. {i \in DOMAIN workloads : workloads[i].dc = d} = W
      OBVIOUS
    <3>3. G[d] = Total(C, W)
      BY <2>3, <3>2 DEF GroupCost, SumOver, SumFunction, Total
    <3> HIDE DEF F, G, W, C
    <3>4. IntOn(F, W)
      BY <3>1 DEF IntOn
    <3>5. QED
      BY <2>1, <3>1, <3>3, <3>4, SumSame DEF W
  <2>4. QED
    BY <2>2, <2>3
<1>4. TotalCost(workloads) = Total(G, D)
  <2>1. {workloads[i].dc : i \in DOMAIN workloads} = D
    OBVIOUS
  <2>2. QED
    BY <2>1 DEF TotalCost, SumOver, SumFunction, Total
<1>5. IntOn(F, S)
  BY <1>2 DEF IntOn
<1> HIDE DEF D, G, F, S, h
<1>6. Total(G, D) = Total(F, S)
  <2>1. GroupSums(G, D, F, S, h)
    BY <1>3 DEF GroupSums
  <2>2. QED
    BY <1>1, <1>5, <2>1, SumInGroups
<1>7. QED
  BY <1>4, <1>6 DEF F, S

\* In the terms of the property: what a unit costs a workload, what it pays.
Rate(i, r) == IF PaysAverage(r)
              THEN SumOver(PricedHere, LAMBDA d : prices[d][r]) \div Cardinality(PricedHere)
              ELSE OwnPrice(i, r)
Pays(i)    == SumOver(Resources, LAMBDA r : workloads[i].need[r] * Rate(i, r))
Charges    == [i \in DOMAIN workloads |-> IF workloads[i].dc \in DOMAIN prices THEN Pays(i) ELSE 0]

TotalOfCharges ==
  /\ TotalCost(workloads) = Total(Charges, DOMAIN workloads)
  /\ \A i \in DOMAIN workloads : Charges[i] \in Nat

\* The total, in these terms.
LEMMA EngineCharges == EngineInv => TotalOfCharges
<1> SUFFICES ASSUME EngineInv
             PROVE  TotalOfCharges
  OBVIOUS
<1> DEFINE S == DOMAIN workloads
           F == [i \in S |-> IF workloads[i].dc \in DOMAIN prices
                             THEN WorkloadCost(workloads, workloads[i]) ELSE 0]
<1>1. ASSUME NEW i \in S, workloads[i].dc \in DOMAIN prices
      PROVE  Pays(i) = WorkloadCost(workloads, workloads[i])
  <2>1. \A r \in Resources : UnitPrice(workloads, workloads[i].dc, r) = Rate(i, r)
    BY <1>1, UnitPricePaid DEF Rate
  <2>2. [r \in Resources |-> workloads[i].need[r] * Rate(i, r)]
           = [r \in Resources |-> workloads[i].need[r] * UnitPrice(workloads, workloads[i].dc, r)]
    BY <2>1
  <2>3. QED
    BY <2>2 DEF WorkloadCost, Pays, SumOver
<1>2. Charges = F
  BY <1>1 DEF Charges
<1>3. \A i \in S : F[i] \in Nat
  BY WorkloadCostIsNat
<1>4. TotalCost(workloads) = Total(F, S)
  BY TotalByWorkload
<1> HIDE DEF F
<1>5. QED
  BY <1>2, <1>3, <1>4 DEF TotalOfCharges

\* TotalIsWhatWorkloadsPay, in every state of the invariant.
LEMMA EngineTotal == EngineInv => TotalIsWhatWorkloadsPay
<1> SUFFICES ASSUME EngineInv
             PROVE  TotalIsWhatWorkloadsPay
  OBVIOUS
<1> DEFINE S == DOMAIN workloads
           R == {i \in S : workloads[i].dc \in DOMAIN prices}
           G == [i \in R |-> Pays(i)]
<1>1. IsFiniteSet(S) /\ R \in SUBSET S /\ IsFiniteSet(R)
  BY FewPlaces, FS_Subset DEF EngineInv, Workloads
<1>2. TotalCost(workloads) = Total(Charges, S) /\ \A i \in S : Charges[i] \in Nat
  BY EngineCharges DEF TotalOfCharges
<1>3. /\ \A i \in S \ R : Charges[i] = 0
      /\ \A i \in R : G[i] = Charges[i]
  BY DEF Charges
<1>4. SumOver(R, LAMBDA i : Pays(i)) = Total(G, R)
  BY DEF SumOver, SumFunction, Total
<1>5. SumOver(R, LAMBDA i : Pays(i)) = TotalCost(workloads)
  <2> HIDE DEF G, S, R
  <2>1. IntOn(Charges, S) /\ IntOn(Charges, R)
    BY <1>1, <1>2 DEF IntOn
  <2>2. Total(Charges, S) = Total(Charges, R)
    BY <1>1, <1>3, <2>1, SumWithoutZeros
  <2>3. Total(G, R) = Total(Charges, R)
    BY <1>1, <1>3, <2>1, SumSame
  <2>4. QED
    BY <1>2, <1>4, <2>2, <2>3
<1>6. QED
  BY <1>5 DEF TotalIsWhatWorkloadsPay, Pays, Rate

\* The total of a service is the sum of what its workloads pay one by one.
THEOREM WorkloadsPayTheTotal == Spec => []TotalIsWhatWorkloadsPay
<1>1. QED
  BY EngineInvariant, EngineTotal, PTL

-----------------------------------------------------------------------------
\* EvenBlendKeepsTotal, in every state of the invariant.
LEMMA EngineEvenBlend == EngineInv => EvenBlendKeepsTotal
<1> SUFFICES ASSUME EngineInv, NEW r \in Resources \cap {"cpu", "ram"}, NEW q \in 1..MaxWorkloads,
                    Blends(workloads)
             PROVE  LET blended == SumOver(PricedHere, LAMBDA d : q * UnitPrice(workloads, d, r))
                        own     == SumOver(PricedHere, LAMBDA d : q * prices[d][r])
                    IN  blended <= own /\ own < blended + q * Cardinality(PricedHere)
  BY DEF EvenBlendKeepsTotal
<1> DEFINE S == PricedHere
           n == Cardinality(S)
           F == [d \in S |-> prices[d][r]]
           O == [d \in S |-> q * prices[d][r]]
           B == [d \in S |-> q * UnitPrice(workloads, d, r)]
           a == Total(F, S) \div n
<1>1. /\ SumOver(PricedHere, LAMBDA d : q * UnitPrice(workloads, d, r)) = Total(B, S)
      /\ SumOver(PricedHere, LAMBDA d : q * prices[d][r]) = Total(O, S)
  BY DEF SumOver, SumFunction, Total
<1>2. IsFiniteSet(S) /\ n \in Nat /\ n >= 2 /\ q \in Nat /\ q > 0
  BY BlendOverDatacenters, TwoElements, FS_CardinalityType, BoundsAssumption
<1>3. \A d \in S : F[d] \in Nat
  <2>1. \A d \in DOMAIN prices : prices[d][r] \in Nat
    BY PricesAreNat
  <2>2. QED
    BY <2>1 DEF PricedHere
<1>4. IntOn(F, S) /\ Scaled(O, q, F, S) /\ Total(F, S) \in Nat
  <2>1. \A d \in S : O[d] = q * F[d]
    OBVIOUS
  <2> HIDE DEF F, O, S
  <2>2. IntOn(F, S) /\ \A d \in S : F[d] >= 0
    BY <1>3 DEF IntOn
  <2>3. QED
    BY <1>2, <2>1, <2>2, SumInt DEF Scaled
<1>5. \A d \in S : B[d] = q * a
  <2>1. \A d \in S : UnitPrice(workloads, d, r) = Average(workloads, r)
    BY DEF UnitPrice
  <2>2. Average(workloads, r) = a
    BY BlendOverDatacenters
  <2>3. QED
    BY <2>1, <2>2
<1> HIDE DEF F, O, B, S, n
<1>6. a \in Nat /\ a * n <= Total(F, S) /\ Total(F, S) < a * n + n
  <2>1. \A s \in Nat, k \in Nat : k >= 2 => /\ s \div k \in Nat
                                          /\ (s \div k) * k <= s
                                          /\ s < (s \div k) * k + k
    OBVIOUS
  <2>2. QED
    BY <1>2, <1>4, <2>1
<1> HIDE DEF a
<1>7. Total(O, S) = q * Total(F, S)
  BY <1>2, <1>4, SumScaled
<1>8. q * a \in Int /\ Total(B, S) = (q * a) * n
  <2> DEFINE k == q * a
  <2>1. k \in Int
    BY <1>2, <1>6
  <2>2. \A d \in S : B[d] = k
    BY <1>5
  <2> HIDE DEF k
  <2>3. Total(B, S) = k * Cardinality(S)
    BY <1>2, <2>1, <2>2, SumConstant
  <2>4. QED
    BY <2>1, <2>3 DEF k, n
<1>9. (q * a) * n <= q * Total(F, S) /\ q * Total(F, S) < (q * a) * n + q * n
  <2> DEFINE t == Total(F, S)
  <2>1. \A x, y, k \in Nat : /\ x <= y => k * x <= k * y
                             /\ x < y /\ k > 0 => k * x < k * y
    OBVIOUS
  <2>2. a * n \in Nat /\ a * n + n \in Nat /\ t \in Nat
    BY <1>2, <1>4, <1>6
  <2> HIDE DEF t
  <2>3. q * (a * n) <= q * t /\ q * t < q * (a * n + n)
    BY <1>2, <1>6, <2>1, <2>2 DEF t
  <2>4. q * (a * n) = (q * a) * n /\ q * (a * n + n) = (q * a) * n + q * n
    BY <1>2, <1>6
  <2>5. QED
    BY <2>3, <2>4 DEF t
<1>10. QED
  BY <1>1, <1>7, <1>8, <1>9 DEF n, S

\* A service that needs as much everywhere pays, blended, what it would pay
\* unblended, but for less than a cent per unit.
THEOREM EvenBlendIsFair == Spec => []EvenBlendKeepsTotal
<1>1. QED
  BY EngineInvariant, EngineEvenBlend, PTL

-----------------------------------------------------------------------------
\* One workload more where there is one already: the datacenters stay, and so
\* what each of the others pays.
LEMMA AddedWorkload ==
  ASSUME EngineInv, [Next]_vars, NEW w \in {workloads'[i] : i \in DOMAIN workloads'},
         workloads' = Append(workloads, w), w.dc \in {workloads[i].dc : i \in DOMAIN workloads}
  PROVE  /\ prices' = prices /\ platform' = platform
         /\ DOMAIN workloads \subseteq DOMAIN workloads'
         /\ \A i \in DOMAIN workloads : workloads'[i] = workloads[i]
         /\ PricedHere' = PricedHere
<1>1. Len(workloads') = Len(workloads) + 1 /\ Len(workloads) \in Nat
  BY DEF EngineInv, Workloads
<1>2. prices' = prices /\ platform' = platform
  <2>1. workloads' # workloads
    BY <1>1
  <2>2. QED
    BY <2>1 DEF Next, PriceDatacenter, AddWorkload, vars
<1>3. /\ DOMAIN workloads \subseteq DOMAIN workloads'
      /\ \A i \in DOMAIN workloads : workloads'[i] = workloads[i]
      /\ \A i \in DOMAIN workloads' : i \in DOMAIN workloads \/ workloads'[i] = w
  BY <1>1 DEF EngineInv, Workloads
<1>4. \A d : (\E i \in DOMAIN workloads' : workloads'[i].dc = d) <=> (\E i \in DOMAIN workloads : workloads[i].dc = d)
  BY <1>3
<1>5. PricedHere' = PricedHere
  BY <1>2, <1>4 DEF PricedHere
<1>6. QED
  BY <1>2, <1>3, <1>5

\* So each of the others pays what it paid.
LEMMA OthersPayTheSame ==
  ASSUME EngineInv, [Next]_vars, NEW w \in {workloads'[i] : i \in DOMAIN workloads'},
         workloads' = Append(workloads, w), w.dc \in {workloads[i].dc : i \in DOMAIN workloads},
         NEW i \in DOMAIN workloads
  PROVE  Charges'[i] = Charges[i]
<1>1. /\ prices' = prices /\ platform' = platform /\ PricedHere' = PricedHere
      /\ i \in DOMAIN workloads' /\ workloads'[i] = workloads[i]
  BY AddedWorkload
<1>2. ASSUME NEW r \in Resources
      PROVE  Rate(i, r)' = Rate(i, r)
  <2>1. PaysAverage(r)' <=> PaysAverage(r)
    BY <1>1 DEF PaysAverage
  <2>2. OwnPrice(i, r)' = OwnPrice(i, r)
    BY <1>1 DEF OwnPrice
  <2>3. [d \in PricedHere' |-> prices'[d][r]] = [d \in PricedHere |-> prices[d][r]]
    BY <1>1
  <2>4. SumOver(PricedHere, LAMBDA d : prices[d][r])' = SumOver(PricedHere, LAMBDA d : prices[d][r])
    BY <2>3 DEF SumOver
  <2>5. QED
    BY <1>1, <2>1, <2>2, <2>4 DEF Rate
<1>3. [r \in Resources |-> workloads'[i].need[r] * Rate(i, r)']
         = [r \in Resources |-> workloads[i].need[r] * Rate(i, r)]
  BY <1>1, <1>2
<1>4. Pays(i)' = Pays(i)
  BY <1>3 DEF Pays, SumOver
<1>5. QED
  BY <1>1, <1>4 DEF Charges

\* The step of AddingCostsNoLess.
LEMMA EngineAddingCosts ==
  ASSUME EngineInv, EngineInv', TotalOfCharges, TotalOfCharges', [Next]_vars,
         NEW w \in {workloads'[i] : i \in DOMAIN workloads'},
         workloads' = Append(workloads, w), w.dc \in {workloads[i].dc : i \in DOMAIN workloads}
  PROVE  TotalCost(workloads)' >= TotalCost(workloads)
<1> DEFINE S == DOMAIN workloads
           T == DOMAIN workloads'
           F == Charges
           G == Charges'
<1>1. S \in SUBSET T /\ IsFiniteSet(S) /\ IsFiniteSet(T)
  BY AddedWorkload, FewPlaces DEF EngineInv, Workloads
<1>2. /\ TotalCost(workloads) = Total(F, S) /\ TotalCost(workloads)' = Total(G, T)
      /\ \A i \in S : F[i] \in Nat
      /\ \A i \in T : G[i] \in Nat
  BY DEF TotalOfCharges
<1>3. \A i \in S : G[i] = F[i]
  BY OthersPayTheSame
<1> HIDE DEF F, G, S, T
<1>4. IntOn(F, S) /\ IntOn(G, S) /\ IntOn(G, T)
  BY <1>1, <1>2 DEF IntOn
<1>5. Total(G, S) = Total(F, S)
  BY <1>1, <1>3, <1>4, SumSame
<1>6. Total(G, S) <= Total(G, T)
  BY <1>1, <1>2, <1>4, SumSubset
<1>7. Total(G, S) \in Int /\ Total(G, T) \in Int
  BY <1>1, <1>4, SumInt
<1>8. QED
  BY <1>2, <1>5, <1>6, <1>7

\* A workload more where the service is already makes nothing cheaper.
THEOREM MoreCostsMore == Spec => AddingCostsNoLess
<1>1. EngineInv => TotalOfCharges
  BY EngineCharges
<1>2. EngineInv /\ EngineInv' /\ TotalOfCharges /\ TotalOfCharges' /\ [Next]_vars
         => [\A w \in {workloads'[i] : i \in DOMAIN workloads'} :
               /\ workloads' = Append(workloads, w)
               /\ w.dc \in {workloads[i].dc : i \in DOMAIN workloads}
               => TotalCost(workloads)' >= TotalCost(workloads)]_vars
  BY EngineAddingCosts
<1>3. QED
  BY <1>1, <1>2, EngineInvariant, PTL DEF Spec, AddingCostsNoLess
=============================================================================
