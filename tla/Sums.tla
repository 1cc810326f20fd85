-------------------------------- MODULE Sums --------------------------------
(***************************************************************************)
(* Lemmas about sums over finite sets, which the provers cannot get by     *)
(* induction over data: what a sum is follows from its recursive equation, *)
(* and what holds of every finite set from a smallest one of which it does *)
(* not.                                                                    *)
(***************************************************************************)
EXTENDS Integers, FiniteSets, Functions, TLAPS, FiniteSetTheorems, NaturalsInduction,
  WellFoundedInduction

AnyOf(s) == CHOOSE x \in s : TRUE

\* A set of numbers that is not empty has a least one.
LEMMA LeastNumber ==
  ASSUME NEW S \in SUBSET Nat, S # {}
  PROVE  \E n \in S : \A m \in S : n <= m
<1> DEFINE Less == OpToRel(<, Nat)
<1>1. \A m, n \in Nat : m < n => <<m, n>> \in Less
  BY DEF OpToRel
<1>2. PICK n \in S : \A m \in S : <<m, n>> \notin Less
  <2> HIDE DEF Less
  <2> QED BY NatLessThanWellFounded, WFMin DEF Less
<1>3. ASSUME NEW m \in S PROVE n <= m
  <2> HIDE DEF Less
  <2>1. m \in Nat /\ n \in Nat /\ ~(m < n)
    BY <1>1, <1>2
  <2> QED BY <2>1
<1> QED BY <1>3

\* What holds of a subset once it holds of every smaller subset of it holds of every
\* one: good is the set of those it holds of.
LEMMA BySmaller ==
  ASSUME NEW S, IsFiniteSet(S), NEW good,
         \A s \in SUBSET S : (\A t \in SUBSET s : t # s => t \in good) => s \in good
  PROVE  SUBSET S \subseteq good
<1> SUFFICES ASSUME NEW bad \in SUBSET S, bad \notin good PROVE FALSE
  OBVIOUS
<1> DEFINE Sizes == {k \in Nat : \E s \in SUBSET S : Cardinality(s) = k /\ s \notin good}
<1>1. \A s \in SUBSET S : IsFiniteSet(s) /\ Cardinality(s) \in Nat
  BY FS_Subset, FS_CardinalityType
<1>2. PICK k \in Sizes : \A m \in Sizes : k <= m
  <2>1. Sizes # {} /\ Sizes \in SUBSET Nat
    BY <1>1
  <2> HIDE DEF Sizes
  <2> QED BY <2>1, LeastNumber
<1>3. PICK s \in SUBSET S : Cardinality(s) = k /\ s \notin good
  BY <1>2
<1>4. PICK t \in SUBSET s : t # s /\ t \notin good
  BY <1>3
<1>5. Cardinality(t) \in Nat /\ Cardinality(t) < k
  <2>1. Cardinality(t) <= Cardinality(s) /\ Cardinality(t) # Cardinality(s)
    BY <1>1, <1>4, FS_Subset
  <2> QED BY <1>1, <1>3, <2>1
<1>6. Cardinality(t) \in Sizes
  BY <1>4, <1>5
<1> HIDE DEF Sizes
<1>7. k <= Cardinality(t) /\ k \in Nat
  BY <1>1, <1>2, <1>3, <1>6
<1> QED BY <1>5, <1>7

\* The same for what needs only the subset without one of its elements.
LEMMA BySubsets ==
  ASSUME NEW S, IsFiniteSet(S), NEW good,
         {} \in good,
         \A s \in SUBSET S : s # {} /\ AnyOf(s) \in s /\ s \ {AnyOf(s)} \in good => s \in good
  PROVE  SUBSET S \subseteq good
<1>1. ASSUME NEW s \in SUBSET S, \A t \in SUBSET s : t # s => t \in good
      PROVE  s \in good
  <2>1. CASE s = {}
    BY <2>1
  <2>2. CASE s # {}
    <3>1. AnyOf(s) \in s
      BY <2>2, Zenon DEF AnyOf
    <3>2. s \ {AnyOf(s)} \in good
      BY <1>1, <3>1
    <3> QED BY <2>2, <3>1, <3>2
  <2> QED BY <2>1, <2>2
<1> QED BY <1>1, BySmaller

\* What iter makes of the set s, when it sums one element after another.
SumStep(f, iter, s) == IF s = {} THEN 0 ELSE f[AnyOf(s)] + iter[s \ {AnyOf(s)}]

Sums(f, iter, S) == iter = [s \in SUBSET S |-> SumStep(f, iter, s)]

\* The community module's sum is a choice of such a function.
LEMMA SumIs == \A f, S : SumFunctionOnSet(f, S) = (CHOOSE iter : Sums(f, iter, S))[S]
BY Zenon DEF SumFunctionOnSet, FoldFunctionOnSet, MapThenFoldSet, Sums, SumStep, AnyOf

LEMMA Smaller ==
  ASSUME NEW S, IsFiniteSet(S), NEW s \in SUBSET S, s # {}
  PROVE  /\ AnyOf(s) \in s /\ s \ {AnyOf(s)} \in SUBSET S
         /\ Cardinality(s) \in Nat /\ Cardinality(s) > 0
         /\ Cardinality(s \ {AnyOf(s)}) = Cardinality(s) - 1
<1>1. IsFiniteSet(s) /\ AnyOf(s) \in s
  BY FS_Subset, Zenon DEF AnyOf
<1>2. Cardinality(s) \in Nat /\ Cardinality(s) # 0
  BY <1>1, FS_CardinalityType, FS_EmptySet
<1>3. Cardinality(s \ {AnyOf(s)}) = Cardinality(s) - 1
  BY <1>1, FS_RemoveElement
<1> QED BY <1>1, <1>2, <1>3

\* A finite set has a sum: the sizes up to which there is one have no end.
LEMMA SumExists ==
  ASSUME NEW f, NEW S, IsFiniteSet(S)
  PROVE  \E iter : Sums(f, iter, S)
<1> DEFINE UpTo(k) == {s \in SUBSET S : Cardinality(s) <= k}
           Good(k) == \E iter : iter = [s \in UpTo(k) |-> SumStep(f, iter, s)]
<1>1. \A s \in SUBSET S : Cardinality(s) \in Nat /\ Cardinality(s) <= Cardinality(S)
  BY FS_Subset, FS_CardinalityType
<1>2. Good(0)
  <2> DEFINE iter == [s \in UpTo(0) |-> 0]
  <2>1. \A s \in UpTo(0) : s = {}
    BY <1>1, FS_Subset, FS_EmptySet
  <2>2. \A s \in UpTo(0) : SumStep(f, iter, s) = 0
    BY <2>1 DEF SumStep
  <2>3. iter = [s \in UpTo(0) |-> SumStep(f, iter, s)]
    BY <2>2
  <2> HIDE DEF iter
  <2> QED BY <2>3
<1>3. ASSUME NEW k \in Nat, Good(k) PROVE Good(k + 1)
  <2>1. PICK iter : iter = [s \in UpTo(k) |-> SumStep(f, iter, s)]
    BY <1>3
  <2> DEFINE more == [s \in UpTo(k + 1) |-> SumStep(f, iter, s)]
  <2>2. \A s \in UpTo(k) : s \in UpTo(k + 1)
    BY <1>1
  <2>3. \A s \in UpTo(k) : more[s] = iter[s]
    BY <2>1, <2>2
  <2>4. \A s \in UpTo(k + 1) : s # {} => s \ {AnyOf(s)} \in UpTo(k)
    <3> SUFFICES ASSUME NEW s \in UpTo(k + 1), s # {} PROVE s \ {AnyOf(s)} \in UpTo(k)
      OBVIOUS
    <3>1. Cardinality(s) \in Nat /\ Cardinality(s) <= k + 1
      BY <1>1
    <3>2. s \ {AnyOf(s)} \in SUBSET S /\ Cardinality(s \ {AnyOf(s)}) = Cardinality(s) - 1
      BY Smaller
    <3> QED BY <3>1, <3>2
  <2>5. \A s \in UpTo(k + 1) : SumStep(f, more, s) = SumStep(f, iter, s)
    <3> HIDE DEF more, UpTo
    <3> QED BY <2>3, <2>4 DEF SumStep
  <2>6. more = [s \in UpTo(k + 1) |-> SumStep(f, more, s)]
    <3> HIDE DEF UpTo
    <3> QED BY <2>5
  <2> HIDE DEF more
  <2> QED BY <2>6
<1>4. Good(Cardinality(S))
  <2> SUFFICES ASSUME ~Good(Cardinality(S)) PROVE FALSE
    OBVIOUS
  <2> DEFINE Bad == {k \in Nat : ~Good(k)}
  <2> HIDE DEF Good
  <2>1. Bad # {}
    BY FS_CardinalityType
  <2>2. PICK k \in Bad : \A m \in Bad : k <= m
    BY <2>1, LeastNumber
  <2>3. k \in Nat /\ k # 0 /\ ~Good(k)
    BY <1>2
  <2>4. k - 1 \in Nat /\ (k - 1) + 1 = k /\ ~(k <= k - 1)
    BY <2>3
  <2>5. Good(k - 1)
    BY <2>2, <2>4
  <2> QED BY <1>3, <2>3, <2>4, <2>5
<1>5. UpTo(Cardinality(S)) = SUBSET S
  BY <1>1
<1> QED BY <1>4, <1>5 DEF Sums

\* The sum of a finite set, one element at a time.
Adds(f, S, iter) ==
  /\ SumFunctionOnSet(f, S) = iter[S]
  /\ \A s \in SUBSET S : iter[s] = SumStep(f, iter, s)

LEMMA SumBy == \A f, S : IsFiniteSet(S) => \E iter : Adds(f, S, iter)
<1> SUFFICES ASSUME NEW f, NEW S, IsFiniteSet(S)
             PROVE  \E iter : Adds(f, S, iter)
  OBVIOUS
<1> DEFINE iter == CHOOSE i : Sums(f, i, S)
<1>1. Sums(f, iter, S)
  BY SumExists, Zenon
<1>2. SumFunctionOnSet(f, S) = iter[S]
  BY SumIs
<1> HIDE DEF iter
<1>3. \A s \in SUBSET S : iter[s] = SumStep(f, iter, s)
  BY <1>1 DEF Sums
<1> QED BY <1>2, <1>3 DEF Adds

LEMMA SumOfNone == \A f : SumFunctionOnSet(f, {}) = 0
<1> SUFFICES ASSUME NEW f PROVE SumFunctionOnSet(f, {}) = 0
  OBVIOUS
<1>1. PICK iter : Adds(f, {}, iter)
  BY SumBy, FS_EmptySet
<1>2. iter[{}] = SumStep(f, iter, {})
  BY <1>1 DEF Adds
<1> QED BY <1>1, <1>2 DEF Adds, SumStep

\* What adds up to a sum is a part of it.
LEMMA SumNat ==
  ASSUME NEW f, NEW S, IsFiniteSet(S), \A x \in S : f[x] \in Nat
  PROVE  /\ SumFunctionOnSet(f, S) \in Nat
         /\ \A x \in S : f[x] <= SumFunctionOnSet(f, S)
<1>1. PICK iter : Adds(f, S, iter)
  BY SumBy
<1> DEFINE Good(s) == iter[s] \in Nat /\ \A x \in s : f[x] <= iter[s]
           good == {s \in SUBSET S : Good(s)}
<1>2. {} \in good
  <2>1. iter[{}] = SumStep(f, iter, {})
    BY <1>1 DEF Adds
  <2> QED BY <2>1 DEF SumStep
<1>3. ASSUME NEW s \in SUBSET S, s # {}, AnyOf(s) \in s, s \ {AnyOf(s)} \in good
      PROVE  s \in good
  <2> DEFINE less == s \ {AnyOf(s)}
  <2>1. Good(less)
    BY <1>3
  <2>2. iter[s] = f[AnyOf(s)] + iter[less] /\ f[AnyOf(s)] \in Nat
    <3>1. iter[s] = SumStep(f, iter, s)
      BY <1>1 DEF Adds
    <3> QED BY <1>3, <3>1 DEF SumStep
  <2>3. \A x \in s : x = AnyOf(s) \/ x \in less
    OBVIOUS
  <2>4. \A x \in s : f[x] \in Nat
    OBVIOUS
  <2> HIDE DEF less
  <2>5. iter[s] \in Nat
    BY <2>1, <2>2
  <2>6. \A x \in s : f[x] <= iter[s]
    BY <2>1, <2>2, <2>3, <2>4
  <2> QED BY <2>5, <2>6
<1>4. S \in good
  <2> HIDE DEF good
  <2> QED BY <1>2, <1>3, BySubsets
<1> QED BY <1>1, <1>4 DEF Adds

\* Sums of what agrees are the same, and sums add up.
LEMMA SumSame ==
  ASSUME NEW f, NEW g, NEW S, IsFiniteSet(S), \A x \in S : f[x] = g[x]
  PROVE  SumFunctionOnSet(f, S) = SumFunctionOnSet(g, S)
<1>1. PICK i : Adds(f, S, i)
  BY SumBy
<1>2. PICK j : Adds(g, S, j)
  BY SumBy
<1> DEFINE good == {s \in SUBSET S : i[s] = j[s]}
<1>3. {} \in good
  <2>1. i[{}] = SumStep(f, i, {}) /\ j[{}] = SumStep(g, j, {})
    BY <1>1, <1>2 DEF Adds
  <2> QED BY <2>1 DEF SumStep
<1>4. ASSUME NEW s \in SUBSET S, s # {}, AnyOf(s) \in s, s \ {AnyOf(s)} \in good
      PROVE  s \in good
  <2>1. i[s] = SumStep(f, i, s) /\ j[s] = SumStep(g, j, s)
    BY <1>1, <1>2 DEF Adds
  <2>2. f[AnyOf(s)] = g[AnyOf(s)]
    BY <1>4
  <2> QED BY <1>4, <2>1, <2>2 DEF SumStep
<1>5. S \in good
  <2> HIDE DEF good
  <2> QED BY <1>3, <1>4, BySubsets
<1> QED BY <1>1, <1>2, <1>5 DEF Adds

LEMMA SumPlus ==
  ASSUME NEW f, NEW g, NEW h, NEW S, IsFiniteSet(S),
         \A x \in S : f[x] \in Int /\ g[x] \in Int /\ h[x] = f[x] + g[x]
  PROVE  SumFunctionOnSet(h, S) = SumFunctionOnSet(f, S) + SumFunctionOnSet(g, S)
<1>1. PICK i : Adds(f, S, i)
  BY SumBy
<1>2. PICK j : Adds(g, S, j)
  BY SumBy
<1>3. PICK k : Adds(h, S, k)
  BY SumBy
<1> DEFINE good == {s \in SUBSET S : i[s] \in Int /\ j[s] \in Int /\ k[s] = i[s] + j[s]}
<1>4. {} \in good
  <2>1. i[{}] = SumStep(f, i, {}) /\ j[{}] = SumStep(g, j, {}) /\ k[{}] = SumStep(h, k, {})
    BY <1>1, <1>2, <1>3 DEF Adds
  <2> QED BY <2>1 DEF SumStep
<1>5. ASSUME NEW s \in SUBSET S, s # {}, AnyOf(s) \in s, s \ {AnyOf(s)} \in good
      PROVE  s \in good
  <2> DEFINE x == AnyOf(s)
             less == s \ {x}
  <2>1. i[s] = f[x] + i[less] /\ j[s] = g[x] + j[less] /\ k[s] = h[x] + k[less]
    <3>1. i[s] = SumStep(f, i, s) /\ j[s] = SumStep(g, j, s) /\ k[s] = SumStep(h, k, s)
      BY <1>1, <1>2, <1>3 DEF Adds
    <3> QED BY <1>5, <3>1 DEF SumStep
  <2>2. f[x] \in Int /\ g[x] \in Int /\ h[x] = f[x] + g[x]
    BY <1>5
  <2>3. i[less] \in Int /\ j[less] \in Int /\ k[less] = i[less] + j[less]
    BY <1>5
  <2> HIDE DEF x, less
  <2> QED BY <2>1, <2>2, <2>3
<1>6. S \in good
  <2> HIDE DEF good
  <2> QED BY <1>4, <1>5, BySubsets
<1> QED BY <1>1, <1>2, <1>3, <1>6 DEF Adds

\* A sum in steps.
LEMMA SumStepIs ==
  ASSUME NEW f, NEW S, IsFiniteSet(S), S # {}
  PROVE  /\ AnyOf(S) \in S
         /\ SumFunctionOnSet(f, S) = f[AnyOf(S)] + SumFunctionOnSet(f, S \ {AnyOf(S)})
<1>1. PICK i : Adds(f, S, i)
  BY SumBy
<1> DEFINE good == {s \in SUBSET S : SumFunctionOnSet(f, s) = i[s]}
<1>2. ASSUME NEW s \in SUBSET S PROVE i[s] = SumStep(f, i, s)
  BY <1>1 DEF Adds
<1>3. {} \in good
  BY <1>2, SumOfNone DEF SumStep
<1>4. ASSUME NEW s \in SUBSET S, s # {}, AnyOf(s) \in s, s \ {AnyOf(s)} \in good
      PROVE  s \in good
  <2>1. IsFiniteSet(s)
    BY FS_Subset
  <2>2. PICK j : Adds(f, s, j)
    BY <2>1, SumBy
  <2> DEFINE same == {t \in SUBSET s : j[t] = i[t]}
  <2>3. {} \in same
    <3>1. j[{}] = SumStep(f, j, {})
      BY <2>2 DEF Adds
    <3> QED BY <1>2, <3>1 DEF SumStep
  <2>4. ASSUME NEW t \in SUBSET s, t # {}, AnyOf(t) \in t, t \ {AnyOf(t)} \in same
        PROVE  t \in same
    <3>1. j[t] = SumStep(f, j, t) /\ i[t] = SumStep(f, i, t)
      BY <1>2, <2>2 DEF Adds
    <3> QED BY <2>4, <3>1 DEF SumStep
  <2>5. s \in same
    <3> HIDE DEF same
    <3> QED BY <2>1, <2>3, <2>4, BySubsets
  <2> QED BY <2>2, <2>5 DEF Adds
<1>5. SUBSET S \subseteq good
  <2> HIDE DEF good
  <2> QED BY <1>3, <1>4, BySubsets
<1>6. AnyOf(S) \in S /\ S \ {AnyOf(S)} \in SUBSET S
  BY Zenon DEF AnyOf
<1>7. i[S] = f[AnyOf(S)] + i[S \ {AnyOf(S)}]
  BY <1>2, Zenon DEF SumStep
<1> QED BY <1>5, <1>6, <1>7

LEMMA SumInt ==
  ASSUME NEW f, NEW S, IsFiniteSet(S), \A x \in S : f[x] \in Int
  PROVE  SumFunctionOnSet(f, S) \in Int
<1> DEFINE good == {s \in SUBSET S : SumFunctionOnSet(f, s) \in Int}
<1>1. {} \in good
  BY SumOfNone
<1>2. ASSUME NEW s \in SUBSET S, s # {}, AnyOf(s) \in s, s \ {AnyOf(s)} \in good
      PROVE  s \in good
  <2>1. SumFunctionOnSet(f, s) = f[AnyOf(s)] + SumFunctionOnSet(f, s \ {AnyOf(s)})
    BY <1>2, FS_Subset, SumStepIs
  <2> QED BY <1>2, <2>1
<1>3. S \in good
  <2> HIDE DEF good
  <2> QED BY <1>1, <1>2, BySubsets
<1> QED BY <1>3

\* Whatever element is taken out.
LEMMA SumTakes ==
  ASSUME NEW f, NEW S, IsFiniteSet(S), \A x \in S : f[x] \in Int, NEW x \in S
  PROVE  SumFunctionOnSet(f, S) = f[x] + SumFunctionOnSet(f, S \ {x})
<1> DEFINE Takes(s) == \A y \in s : SumFunctionOnSet(f, s) = f[y] + SumFunctionOnSet(f, s \ {y})
           good == {s \in SUBSET S : Takes(s)}
<1>1. ASSUME NEW s \in SUBSET S, \A t \in SUBSET s : t # s => t \in good
      PROVE  s \in good
  <2> SUFFICES ASSUME NEW y \in s
               PROVE  SumFunctionOnSet(f, s) = f[y] + SumFunctionOnSet(f, s \ {y})
    OBVIOUS
  <2> DEFINE a == AnyOf(s)
             rest == s \ {a, y}
  <2>1. /\ a \in s
        /\ SumFunctionOnSet(f, s) = f[a] + SumFunctionOnSet(f, s \ {a})
    BY FS_Subset, SumStepIs
  <2>2. CASE a = y
    BY <2>1, <2>2
  <2>3. CASE a # y
    <3>1. Takes(s \ {a}) /\ Takes(s \ {y})
      BY <1>1, <2>1
    <3>2. y \in s \ {a} /\ a \in s \ {y}
      BY <2>1, <2>3
    <3>3. (s \ {a}) \ {y} = rest /\ (s \ {y}) \ {a} = rest
      OBVIOUS
    <3>4. SumFunctionOnSet(f, s \ {a}) = f[y] + SumFunctionOnSet(f, rest)
      BY <3>1, <3>2, <3>3
    <3>5. SumFunctionOnSet(f, s \ {y}) = f[a] + SumFunctionOnSet(f, rest)
      BY <3>1, <3>2, <3>3
    <3>6. f[a] \in Int /\ f[y] \in Int /\ SumFunctionOnSet(f, rest) \in Int
      <4>1. IsFiniteSet(rest) /\ \A z \in rest : f[z] \in Int
        BY FS_Subset
      <4> HIDE DEF rest, a
      <4> QED BY <2>1, <4>1, SumInt
    <3> HIDE DEF a, rest
    <3> QED BY <2>1, <3>4, <3>5, <3>6
  <2> QED BY <2>2, <2>3
<1>2. S \in good
  <2> HIDE DEF good
  <2> QED BY <1>1, BySmaller
<1> QED BY <1>2

\* What counts nothing can be left out.
LEMMA SumOff ==
  ASSUME NEW f, NEW S, IsFiniteSet(S), NEW T, \A x \in S : f[x] \in Int,
         \A x \in S : x \notin T => f[x] = 0
  PROVE  SumFunctionOnSet(f, S) = SumFunctionOnSet(f, S \cap T)
<1> DEFINE good == {s \in SUBSET S : SumFunctionOnSet(f, s) = SumFunctionOnSet(f, s \cap T)}
<1>1. {} \in good
  <2>1. {} \cap T = {}
    OBVIOUS
  <2> QED BY <2>1
<1>2. ASSUME NEW s \in SUBSET S, s # {}, AnyOf(s) \in s, s \ {AnyOf(s)} \in good
      PROVE  s \in good
  <2> DEFINE a == AnyOf(s)
             less == s \ {a}
  <2>1. IsFiniteSet(s)
    BY FS_Subset
  <2>2. SumFunctionOnSet(f, s) = f[a] + SumFunctionOnSet(f, less)
    BY <1>2, <2>1, SumStepIs
  <2>3. SumFunctionOnSet(f, less) = SumFunctionOnSet(f, less \cap T)
    BY <1>2
  <2>4. IsFiniteSet(less \cap T) /\ IsFiniteSet(s \cap T)
    BY <2>1, FS_Subset
  <2>5. SumFunctionOnSet(f, less \cap T) \in Int
    BY <2>4, SumInt
  <2>6. CASE a \in T
    <3>1. a \in s \cap T /\ (s \cap T) \ {a} = less \cap T
      BY <1>2, <2>6
    <3> HIDE DEF a
    <3>2. SumFunctionOnSet(f, s \cap T) = f[a] + SumFunctionOnSet(f, (s \cap T) \ {a})
      BY <2>4, <3>1, SumTakes
    <3> QED BY <2>2, <2>3, <3>1, <3>2
  <2>7. CASE a \notin T
    <3>1. s \cap T = less \cap T /\ f[a] = 0
      BY <1>2, <2>7
    <3>2. SumFunctionOnSet(f, s) = SumFunctionOnSet(f, s \cap T)
      <4>1. SumFunctionOnSet(f, s \cap T) = SumFunctionOnSet(f, less \cap T)
        BY <3>1, Zenon
      <4> HIDE DEF a, less
      <4> QED BY <2>2, <2>3, <2>5, <3>1, <4>1
    <3> QED BY <3>2
  <2> QED BY <2>6, <2>7
<1>3. S \in good
  <2> HIDE DEF good
  <2> QED BY <1>1, <1>2, BySubsets
<1> QED BY <1>3

\* Sums of sets that have nothing in common.
LEMMA SumUnion ==
  ASSUME NEW f, NEW S, NEW T, IsFiniteSet(S), IsFiniteSet(T), S \cap T = {},
         \A x \in S \cup T : f[x] \in Int
  PROVE  SumFunctionOnSet(f, S \cup T) = SumFunctionOnSet(f, S) + SumFunctionOnSet(f, T)
<1> DEFINE all == S \cup T
           g == [x \in all |-> IF x \in S THEN f[x] ELSE 0]
           h == [x \in all |-> IF x \in S THEN 0 ELSE f[x]]
<1>1. IsFiniteSet(all)
  BY FS_Union
<1>2. \A x \in all : g[x] \in Int /\ h[x] \in Int /\ f[x] = g[x] + h[x]
  OBVIOUS
<1>3. \A x \in S : f[x] = g[x]
  OBVIOUS
<1>4. \A x \in T : f[x] = h[x]
  OBVIOUS
<1>5. (\A x \in all : x \notin S => g[x] = 0) /\ (\A x \in all : x \notin T => h[x] = 0)
  OBVIOUS
<1>6. all \cap S = S /\ all \cap T = T
  OBVIOUS
<1> HIDE DEF g, h
<1>7. SumFunctionOnSet(f, all) = SumFunctionOnSet(g, all) + SumFunctionOnSet(h, all)
  <2> HIDE DEF all
  <2> QED BY <1>1, <1>2, SumPlus
<1>8. SumFunctionOnSet(g, all) = SumFunctionOnSet(g, S)
  <2>1. SumFunctionOnSet(g, all) = SumFunctionOnSet(g, all \cap S)
    <3>1. (\A x \in all : g[x] \in Int) /\ (\A x \in all : x \notin S => g[x] = 0)
      BY <1>2, <1>5
    <3> HIDE DEF all
    <3> QED BY <1>1, <3>1, SumOff
  <2> QED BY <1>6, <2>1
<1>9. SumFunctionOnSet(h, all) = SumFunctionOnSet(h, T)
  <2>1. SumFunctionOnSet(h, all) = SumFunctionOnSet(h, all \cap T)
    <3> HIDE DEF all
    <3> QED BY <1>1, <1>2, <1>5, SumOff
  <2> QED BY <1>6, <2>1
<1>10. SumFunctionOnSet(f, S) = SumFunctionOnSet(g, S) /\ SumFunctionOnSet(f, T) = SumFunctionOnSet(h, T)
  BY <1>3, <1>4, SumSame
<1> QED BY <1>7, <1>8, <1>9, <1>10

\* A sum in parts: every element is in one of the sets, and in one only.
LEMMA SumParts ==
  ASSUME NEW f, NEW S, IsFiniteSet(S), \A x \in S : f[x] \in Int,
         NEW K, IsFiniteSet(K), NEW part,
         \A k \in K : part[k] \subseteq S,
         \A k, l \in K : k # l => part[k] \cap part[l] = {},
         \A x \in S : \E k \in K : x \in part[k],
         NEW sum, \A k \in K : sum[k] = SumFunctionOnSet(f, part[k])
  PROVE  SumFunctionOnSet(sum, K) = SumFunctionOnSet(f, S)
<1> DEFINE Of(s) == UNION {part[k] : k \in s}
           good == {s \in SUBSET K : SumFunctionOnSet(sum, s) = SumFunctionOnSet(f, Of(s))}
<1>1. {} \in good
  <2>1. Of({}) = {}
    OBVIOUS
  <2>2. SumFunctionOnSet(sum, {}) = 0 /\ SumFunctionOnSet(f, {}) = 0
    BY SumOfNone
  <2> QED BY <2>1, <2>2
<1>2. ASSUME NEW s \in SUBSET K, s # {}, AnyOf(s) \in s, s \ {AnyOf(s)} \in good
      PROVE  s \in good
  <2> DEFINE a == AnyOf(s)
             less == s \ {a}
  <2>1. SumFunctionOnSet(sum, s) = sum[a] + SumFunctionOnSet(sum, less)
    BY <1>2, FS_Subset, SumStepIs
  <2>2. SumFunctionOnSet(sum, less) = SumFunctionOnSet(f, Of(less))
    BY <1>2
  <2>3. /\ Of(s) = part[a] \cup Of(less) /\ part[a] \cap Of(less) = {}
        /\ part[a] \subseteq S /\ Of(less) \subseteq S
    BY <1>2
  <2>4. IsFiniteSet(part[a]) /\ IsFiniteSet(Of(less))
    BY <2>3, FS_Subset
  <2>5. \A x \in part[a] \cup Of(less) : f[x] \in Int
    BY <2>3
  <2>6. sum[a] = SumFunctionOnSet(f, part[a])
    BY <1>2
  <2>7. SumFunctionOnSet(f, Of(s)) = SumFunctionOnSet(f, part[a]) + SumFunctionOnSet(f, Of(less))
    <3> HIDE DEF a, Of, less
    <3> QED BY <2>3, <2>4, <2>5, SumUnion
  <2> QED BY <2>1, <2>2, <2>6, <2>7
<1>3. K \in good
  <2> HIDE DEF good
  <2> QED BY <1>1, <1>2, BySubsets
<1>4. Of(K) = S
  OBVIOUS
<1> QED BY <1>3, <1>4

\* A finite set has an element for which a measure of it is greatest.
LEMMA Greatest ==
  ASSUME NEW S, IsFiniteSet(S), S # {}, NEW measure, \A x \in S : measure[x] \in Int
  PROVE  \E x \in S : \A y \in S : measure[y] <= measure[x]
<1> DEFINE good == {s \in SUBSET S : s # {} => \E x \in s : \A y \in s : measure[y] <= measure[x]}
<1>1. ASSUME NEW s \in SUBSET S, s # {}, AnyOf(s) \in s, s \ {AnyOf(s)} \in good
      PROVE  s \in good
  <2> DEFINE less == s \ {AnyOf(s)}
  <2>1. \A y \in s : y = AnyOf(s) \/ y \in less
    OBVIOUS
  <2>2. CASE less = {}
    <3>1. \A y \in s : measure[y] <= measure[AnyOf(s)]
      BY <1>1, <2>1, <2>2
    <3> QED BY <1>1, <3>1
  <2>3. CASE less # {}
    <3>1. PICK x \in less : \A y \in less : measure[y] <= measure[x]
      BY <1>1, <2>3
    <3>2. CASE measure[x] <= measure[AnyOf(s)]
      <4>1. \A y \in s : measure[y] <= measure[AnyOf(s)]
        BY <1>1, <2>1, <3>1, <3>2
      <4> QED BY <1>1, <4>1
    <3>3. CASE ~(measure[x] <= measure[AnyOf(s)])
      <4>1. \A y \in s : measure[y] <= measure[x]
        BY <1>1, <2>1, <3>1, <3>3
      <4> QED BY <1>1, <4>1
    <3> QED BY <3>2, <3>3
  <2> QED BY <2>2, <2>3
<1>2. {} \in good
  OBVIOUS
<1>3. S \in good
  <2> HIDE DEF good
  <2> QED BY <1>1, <1>2, BySubsets
<1> QED BY <1>3

\* And one for which a second measure is greatest of those for which the first is.
LEMMA GreatestOfTwo ==
  ASSUME NEW S, IsFiniteSet(S), S # {}, NEW major, NEW minor,
         \A x \in S : major[x] \in Int /\ minor[x] \in Int
  PROVE  \E x \in S : \A y \in S :
           major[y] < major[x] \/ (major[y] = major[x] /\ minor[y] <= minor[x])
<1>1. PICK top \in S : \A y \in S : major[y] <= major[top]
  BY Greatest
<1> DEFINE best == {y \in S : major[y] = major[top]}
<1>2. IsFiniteSet(best) /\ best # {} /\ \A y \in best : minor[y] \in Int
  BY FS_Subset
<1>3. PICK x \in best : \A y \in best : minor[y] <= minor[x]
  <2> HIDE DEF best
  <2> QED BY <1>2, Greatest
<1>4. ASSUME NEW y \in S
      PROVE  major[y] < major[x] \/ (major[y] = major[x] /\ minor[y] <= minor[x])
  <2>1. major[y] <= major[x] /\ major[y] \in Int /\ major[x] \in Int
    BY <1>1, <1>3
  <2>2. CASE major[y] = major[x]
    BY <1>3, <2>2
  <2> QED BY <2>1, <2>2
<1> QED BY <1>3, <1>4
==============================================================================
