------------------------- MODULE FilterKernel_proofs -------------------------
(***************************************************************************)
(* Facts about sums, buffers and kernels, for canvases and kernels of      *)
(* every size, which the proofs about the filters and the tools rest on.   *)
(***************************************************************************)
EXTENDS FilterKernel, FiniteSetTheorems, TLAPS

-----------------------------------------------------------------------------
(* Sums.  SumFunctionOnSet adds up by taking elements out of the set, by   *)
(* recursion over its subsets; that this defines a sum is proved first.    *)

\* Induction over the subsets of a finite set.
LEMMA SubsetInduction ==
    ASSUME NEW S, IsFiniteSet(S), NEW Good,
           \A t \in SUBSET S : (\A x \in t : t \ {x} \in Good) => t \in Good
    PROVE  \A t \in SUBSET S : t \in Good
<1> SUFFICES ASSUME NEW u \in SUBSET S, u \notin Good
             PROVE  FALSE
  OBVIOUS
<1> DEFINE Bad == {t \in SUBSET S : t \notin Good}
           R == StrictSubsetOrdering(S)
<1>1. IsWellFoundedOn(R, SUBSET S)
  <2>1. FiniteSubsetsOf(S) = SUBSET S
    BY FS_FiniteSubsetsOfFinite
  <2>2. IsWellFoundedOn(StrictSubsetOrdering(S), FiniteSubsetsOf(S))
    BY FS_StrictSubsetOrderingWellFounded
  <2> QED
    BY <2>1, <2>2
<1>2. \E t \in Bad : \A s \in Bad : ~(<<s, t>> \in R)
  <2>1. Bad \subseteq SUBSET S /\ Bad # {}
    OBVIOUS
  <2> HIDE DEF R, Bad
  <2> QED
    BY <1>1, <2>1, WFMin
<1>3. PICK t \in Bad : \A s \in Bad : ~(<<s, t>> \in R)
  BY <1>2
<1>4. ASSUME NEW x \in t PROVE t \ {x} \in Good
  <2>1. <<t \ {x}, t>> \in R
    BY <1>4 DEF StrictSubsetOrdering
  <2> QED
    BY <1>3, <2>1
<1> QED
  BY <1>3, <1>4

Picked(s) == CHOOSE x \in s : TRUE

Rest(s) == s \ {Picked(s)}

\* g adds up f over the subsets of S.
AddsUp(g, f, S) ==
    g = [s \in SUBSET S |-> IF s = {} THEN 0 ELSE f[Picked(s)] + g[Rest(s)]]

LEMMA PickedFacts ==
    ASSUME NEW s, s # {}
    PROVE  Picked(s) \in s /\ Rest(s) \subseteq s
BY DEF Picked, Rest

LEMMA AddsUpUnique ==
    ASSUME NEW f, NEW S, NEW T, IsFiniteSet(S \cap T),
           NEW g, AddsUp(g, f, S), NEW h, AddsUp(h, f, T)
    PROVE  \A s \in SUBSET (S \cap T) : g[s] = h[s]
<1> DEFINE Same == {s \in SUBSET (S \cap T) : g[s] = h[s]}
<1>1. ASSUME NEW s \in SUBSET (S \cap T), \A x \in s : s \ {x} \in Same
      PROVE  s \in Same
  <2>1. /\ g[s] = IF s = {} THEN 0 ELSE f[Picked(s)] + g[Rest(s)]
        /\ h[s] = IF s = {} THEN 0 ELSE f[Picked(s)] + h[Rest(s)]
    BY DEF AddsUp
  <2>2. s # {} => g[Rest(s)] = h[Rest(s)]
    BY <1>1, PickedFacts DEF Rest
  <2> QED
    BY <2>1, <2>2
<1>2. \A s \in SUBSET (S \cap T) : s \in Same
  <2> HIDE DEF Same
  <2> QED
    BY <1>1, SubsetInduction
<1> QED
  BY <1>2

LEMMA AddsUpExists ==
    ASSUME NEW f, NEW S, IsFiniteSet(S)
    PROVE  \E g : AddsUp(g, f, S)
<1> DEFINE Good == {t \in SUBSET S : \E g : AddsUp(g, f, t)}
<1>1. ASSUME NEW t \in SUBSET S, \A x \in t : t \ {x} \in Good
      PROVE  t \in Good
  <2> DEFINE G(x) == CHOOSE g : AddsUp(g, f, t \ {x})
             Missing(s) == CHOOSE x \in t : x \notin s
             V(s) == G(Missing(s))[s]
             Of(s) == IF s = {} THEN 0 ELSE f[Picked(s)] + V(Rest(s))
             g == [s \in SUBSET t |-> IF s = t THEN Of(s) ELSE V(s)]
  <2>1. \A x \in t : AddsUp(G(x), f, t \ {x})
    BY <1>1
  <2>2. \A s \in SUBSET t : s # t => Missing(s) \in t /\ Missing(s) \notin s
    OBVIOUS
  <2>3. ASSUME NEW s \in SUBSET t, NEW x \in t, x \notin s
        PROVE  V(s) = G(x)[s]
    <3>1. AddsUp(G(x), f, t \ {x}) /\ AddsUp(G(Missing(s)), f, t \ {Missing(s)})
      BY <2>1, <2>2, <2>3
    <3>2. /\ IsFiniteSet((t \ {x}) \cap (t \ {Missing(s)}))
          /\ s \in SUBSET ((t \ {x}) \cap (t \ {Missing(s)}))
      BY <2>2, <2>3, FS_Subset
    <3> DEFINE y == Missing(s)
               a == G(x)
               b == G(y)
               A == t \ {x}
               B == t \ {y}
    <3>3. \A u \in SUBSET (A \cap B) : a[u] = b[u]
      <4>1. AddsUp(a, f, A) /\ AddsUp(b, f, B) /\ IsFiniteSet(A \cap B)
        BY <3>1, <3>2
      <4> HIDE DEF a, b, A, B
      <4> QED
        BY <4>1, AddsUpUnique
    <3> QED
      BY <3>2, <3>3
  <2>4. ASSUME NEW s \in SUBSET t, s # t
        PROVE  V(s) = Of(s)
    <3> DEFINE x == Missing(s)
    <3>1. AddsUp(G(x), f, t \ {x}) /\ s \in SUBSET (t \ {x}) /\ x \in t
      BY <2>1, <2>2, <2>4
    <3>2. G(x)[s] = IF s = {} THEN 0 ELSE f[Picked(s)] + G(x)[Rest(s)]
      <4> HIDE DEF G, x
      <4> QED
        BY <3>1 DEF AddsUp
    <3>3. s # {} => G(x)[Rest(s)] = V(Rest(s))
      <4>1. s # {} => Rest(s) \in SUBSET t /\ x \notin Rest(s)
        BY <3>1, PickedFacts
      <4> HIDE DEF G, x, V
      <4> QED
        BY <2>3, <3>1, <4>1
    <3> QED
      BY <3>2, <3>3
  <2>5. AddsUp(g, f, t)
    <3>1. ASSUME NEW s \in SUBSET t
          PROVE  g[s] = IF s = {} THEN 0 ELSE f[Picked(s)] + g[Rest(s)]
      <4>1. g[s] = Of(s)
        <5> HIDE DEF V, Of
        <5> QED
          BY <2>4
      <4>2. s # {} => g[Rest(s)] = V(Rest(s))
        <5>1. s # {} => Rest(s) \in SUBSET t /\ Rest(s) # t
          BY PickedFacts DEF Rest
        <5> HIDE DEF V, Of
        <5> QED
          BY <5>1
      <4> HIDE DEF g, V
      <4> QED
        BY <4>1, <4>2
    <3>2. g = [s \in SUBSET t |-> g[s]]
      OBVIOUS
    <3> HIDE DEF g
    <3> QED
      BY <3>1, <3>2 DEF AddsUp
  <2> QED
    BY <2>5
<1>2. \A t \in SUBSET S : t \in Good
  <2> HIDE DEF Good
  <2> QED
    BY <1>1, SubsetInduction
<1> QED
  BY <1>2

LEMMA SumAddsUp ==
    ASSUME NEW f, NEW S, IsFiniteSet(S)
    PROVE  \E g : AddsUp(g, f, S) /\ SumFunctionOnSet(f, S) = g[S]
<1> DEFINE iter == CHOOSE g : g = [s \in SUBSET S |->
                IF s = {} THEN 0
                ELSE f[CHOOSE x \in s : TRUE] + g[s \ {CHOOSE x \in s : TRUE}]]
<1>1. SumFunctionOnSet(f, S) = iter[S]
  BY DEF SumFunctionOnSet, FoldFunctionOnSet, MapThenFoldSet
<1>2. iter = CHOOSE g : AddsUp(g, f, S)
  BY DEF AddsUp, Picked, Rest
<1>3. AddsUp(iter, f, S)
  <2> HIDE DEF iter
  <2> QED
    BY <1>2, AddsUpExists
<1> QED
  BY <1>1, <1>3

\* What the lemmas below need of the definition.
LEMMA SumStep ==
    ASSUME NEW f, NEW S, IsFiniteSet(S)
    PROVE  SumFunctionOnSet(f, S) =
                IF S = {} THEN 0 ELSE f[Picked(S)] + SumFunctionOnSet(f, Rest(S))
<1>1. PICK g : AddsUp(g, f, S) /\ SumFunctionOnSet(f, S) = g[S]
  BY SumAddsUp
<1>2. g[S] = IF S = {} THEN 0 ELSE f[Picked(S)] + g[Rest(S)]
  BY <1>1 DEF AddsUp
<1>3. ASSUME S # {}
      PROVE  SumFunctionOnSet(f, Rest(S)) = g[Rest(S)]
  <2>1. Rest(S) \subseteq S /\ IsFiniteSet(Rest(S)) /\ IsFiniteSet(Rest(S) \cap S)
    BY <1>3, PickedFacts, FS_Subset
  <2>2. PICK h : AddsUp(h, f, Rest(S)) /\ SumFunctionOnSet(f, Rest(S)) = h[Rest(S)]
    BY <2>1, SumAddsUp
  <2>3. h[Rest(S)] = g[Rest(S)]
    BY <1>1, <2>1, <2>2, AddsUpUnique
  <2> QED
    BY <2>2, <2>3
<1> QED
  BY <1>1, <1>2, <1>3

\* In each of the following, induction over the subsets of S takes out the
\* element that the sum takes out.

LEMMA SumInt ==
    ASSUME NEW f, NEW S, IsFiniteSet(S), \A x \in S : f[x] \in Int
    PROVE  SumFunctionOnSet(f, S) \in Int
<1> DEFINE Good == {t \in SUBSET S : SumFunctionOnSet(f, t) \in Int}
<1>1. ASSUME NEW t \in SUBSET S, \A x \in t : t \ {x} \in Good
      PROVE  t \in Good
  <2>1. IsFiniteSet(t)
    BY FS_Subset
  <2>2. t # {} => f[Picked(t)] \in Int /\ SumFunctionOnSet(f, Rest(t)) \in Int
    BY <1>1, PickedFacts DEF Rest
  <2>3. SumFunctionOnSet(f, t) =
            IF t = {} THEN 0 ELSE f[Picked(t)] + SumFunctionOnSet(f, Rest(t))
    BY <2>1, SumStep
  <2> QED
    BY <2>2, <2>3
<1>2. \A t \in SUBSET S : t \in Good
  <2> HIDE DEF Good
  <2> QED
    BY <1>1, SubsetInduction
<1> QED
  BY <1>2

LEMMA SumEqual ==
    ASSUME NEW f, NEW g, NEW S, IsFiniteSet(S), \A x \in S : f[x] = g[x]
    PROVE  SumFunctionOnSet(f, S) = SumFunctionOnSet(g, S)
<1> DEFINE Good == {t \in SUBSET S : SumFunctionOnSet(f, t) = SumFunctionOnSet(g, t)}
<1>1. ASSUME NEW t \in SUBSET S, \A x \in t : t \ {x} \in Good
      PROVE  t \in Good
  <2>1. IsFiniteSet(t)
    BY FS_Subset
  <2>2. t # {} => /\ f[Picked(t)] = g[Picked(t)]
                  /\ SumFunctionOnSet(f, Rest(t)) = SumFunctionOnSet(g, Rest(t))
    BY <1>1, PickedFacts DEF Rest
  <2> QED
    BY <2>1, <2>2, SumStep
<1>2. \A t \in SUBSET S : t \in Good
  <2> HIDE DEF Good
  <2> QED
    BY <1>1, SubsetInduction
<1> QED
  BY <1>2

LEMMA SumScaled ==
    ASSUME NEW f, NEW g, NEW S, IsFiniteSet(S), NEW c \in Int,
           \A x \in S : f[x] \in Int /\ g[x] = c * f[x]
    PROVE  SumFunctionOnSet(g, S) = c * SumFunctionOnSet(f, S)
<1> DEFINE Good == {t \in SUBSET S : SumFunctionOnSet(g, t) = c * SumFunctionOnSet(f, t)}
<1>1. ASSUME NEW t \in SUBSET S, \A x \in t : t \ {x} \in Good
      PROVE  t \in Good
  <2>1. IsFiniteSet(t)
    BY FS_Subset
  <2> DEFINE a == f[Picked(t)]
             b == SumFunctionOnSet(f, Rest(t))
  <2>2. CASE t = {}
    <3>1. SumFunctionOnSet(f, t) = 0 /\ SumFunctionOnSet(g, t) = 0
      BY <2>1, <2>2, SumStep
    <3> QED
      BY <3>1
  <2>3. CASE t # {}
    <3>1. /\ Picked(t) \in S /\ Picked(t) \in t /\ Rest(t) \in SUBSET S
          /\ Rest(t) \in Good
      BY <1>1, <2>3, PickedFacts DEF Rest
    <3>2. a \in Int /\ b \in Int
      BY <3>1, SumInt, FS_Subset
    <3>3. /\ SumFunctionOnSet(f, t) = a + b
          /\ SumFunctionOnSet(g, t) = c * a + c * b
      BY <2>1, <2>3, <3>1, SumStep
    <3>4. c * (a + b) = c * a + c * b
      BY <3>2
    <3> QED
      BY <3>3, <3>4
  <2> QED
    BY <2>2, <2>3
<1>2. \A t \in SUBSET S : t \in Good
  <2> HIDE DEF Good
  <2> QED
    BY <1>1, SubsetInduction
<1> QED
  BY <1>2

\* One addend counts for at least a; of the others those in T can be as low as
\* -1, and none of the rest is negative.
LEMMA SumAtLeast ==
    ASSUME NEW f, NEW S, IsFiniteSet(S), \A x \in S : f[x] \in Int,
           NEW m \in S, NEW a \in Int, f[m] >= a,
           NEW T, m \notin T, \A x \in T \cap S : f[x] >= -1,
           \A x \in S \ T : x # m => f[x] >= 0
    PROVE  SumFunctionOnSet(f, S) >= a - Cardinality(T \cap S)
<1> DEFINE bound(t) == (IF m \in t THEN a ELSE 0) - Cardinality(T \cap t)
           Good == {t \in SUBSET S : SumFunctionOnSet(f, t) >= bound(t)}
<1>1. ASSUME NEW t \in SUBSET S, \A x \in t : t \ {x} \in Good
      PROVE  t \in Good
  <2>1. IsFiniteSet(t)
    BY FS_Subset
  <2>2. CASE t = {}
    <3>1. Cardinality(T \cap t) = 0
      BY <2>2, FS_EmptySet
    <3>2. SumFunctionOnSet(f, t) = 0
      BY <2>1, <2>2, SumStep
    <3> QED
      BY <2>2, <3>1, <3>2
  <2>3. CASE t # {}
    <3> DEFINE x == Picked(t)
               b == SumFunctionOnSet(f, Rest(t))
               n == Cardinality(T \cap t)
               k == Cardinality(T \cap Rest(t))
    <3>1. x \in S /\ x \in t /\ Rest(t) \in SUBSET S /\ Rest(t) = t \ {x} /\ Rest(t) \in Good
      BY <1>1, <2>3, PickedFacts DEF Rest
    <3>2. f[x] \in Int /\ b \in Int
      BY <3>1, SumInt, FS_Subset
    <3>3. SumFunctionOnSet(f, t) = f[x] + b
      BY <2>1, <2>3, SumStep
    <3>4. IsFiniteSet(T \cap t) /\ T \cap Rest(t) = (T \cap t) \ {x}
      BY <2>1, <3>1, FS_Subset
    <3>5. n \in Nat /\ k \in Nat /\ k = IF x \in T THEN n - 1 ELSE n
      BY <3>1, <3>4, FS_RemoveElement, FS_CardinalityType
    <3>6. b >= (IF m \in Rest(t) THEN a ELSE 0) - k
      BY <3>1
    <3>7. f[x] >= IF x = m THEN a ELSE IF x \in T THEN -1 ELSE 0
      BY <3>1
    <3>8. (m \in t) <=> (m \in Rest(t) \/ x = m)
      BY <3>1
    <3>9. x = m => m \notin Rest(t) /\ x \notin T
      BY <3>1
    <3>10. f[x] + b >= (IF m \in t THEN a ELSE 0) - n
      <4> HIDE DEF x, b, n, k
      <4> QED
        BY <3>2, <3>5, <3>6, <3>7, <3>8, <3>9
    <3> QED
      BY <3>3, <3>10
  <2> QED
    BY <2>2, <2>3
<1>2. \A t \in SUBSET S : t \in Good
  <2> HIDE DEF Good
  <2> QED
    BY <1>1, SubsetInduction
<1> QED
  BY <1>2

\* Any element can be the one that is taken out.
LEMMA SumRemove ==
    ASSUME NEW f, NEW S, IsFiniteSet(S), \A x \in S : f[x] \in Int
    PROVE  \A x \in S : SumFunctionOnSet(f, S) = f[x] + SumFunctionOnSet(f, S \ {x})
<1> DEFINE Removes(t) == \A x \in t : SumFunctionOnSet(f, t) = f[x] + SumFunctionOnSet(f, t \ {x})
           Good == {t \in SUBSET S : Removes(t)}
<1>1. ASSUME NEW t \in SUBSET S, \A x \in t : t \ {x} \in Good
      PROVE  t \in Good
  <2> SUFFICES ASSUME NEW x \in t
               PROVE  SumFunctionOnSet(f, t) = f[x] + SumFunctionOnSet(f, t \ {x})
    OBVIOUS
  <2> DEFINE y == Picked(t)
             both == SumFunctionOnSet(f, (t \ {x}) \ {y})
  <2>1. IsFiniteSet(t) /\ y \in t /\ Rest(t) = t \ {y}
    BY PickedFacts, FS_Subset DEF Rest
  <2>2. SumFunctionOnSet(f, t) = f[y] + SumFunctionOnSet(f, t \ {y})
    BY <2>1, SumStep
  <2>3. CASE x = y
    BY <2>2, <2>3
  <2>4. CASE x # y
    <3>1. SumFunctionOnSet(f, t \ {x}) = f[y] + both
      BY <1>1, <2>1, <2>4
    <3>2. SumFunctionOnSet(f, t \ {y}) = f[x] + both
      <4>1. (t \ {y}) \ {x} = (t \ {x}) \ {y}
        OBVIOUS
      <4>2. x \in t \ {y} /\ t \ {y} \in Good
        BY <1>1, <2>1, <2>4
      <4> QED
        BY <4>1, <4>2
    <3>3. both \in Int
      <4>1. IsFiniteSet((t \ {x}) \ {y}) /\ \A z \in (t \ {x}) \ {y} : f[z] \in Int
        BY <2>1, FS_Subset
      <4> QED
        BY <4>1, SumInt
    <3>4. f[x] \in Int /\ f[y] \in Int
      BY <2>1
    <3> HIDE DEF both, y
    <3> QED
      BY <2>2, <3>1, <3>2, <3>3, <3>4
  <2> QED
    BY <2>3, <2>4
<1>2. \A t \in SUBSET S : t \in Good
  <2> HIDE DEF Good
  <2> QED
    BY <1>1, SubsetInduction
<1>3. S \in Good
  BY <1>2
<1> QED
  BY <1>3

\* Addends that are 0 can be left out.
LEMMA SumSelected ==
    ASSUME NEW f, NEW g, NEW S, IsFiniteSet(S), \A x \in S : f[x] \in Int,
           NEW T \in SUBSET S, \A x \in S : g[x] = IF x \in T THEN f[x] ELSE 0
    PROVE  SumFunctionOnSet(g, S) = SumFunctionOnSet(f, T)
<1> DEFINE Good == {t \in SUBSET S : SumFunctionOnSet(g, t) = SumFunctionOnSet(f, t \cap T)}
<1>1. ASSUME NEW t \in SUBSET S, \A x \in t : t \ {x} \in Good
      PROVE  t \in Good
  <2>1. IsFiniteSet(t) /\ IsFiniteSet(t \cap T)
    BY FS_Subset
  <2>2. CASE t = {}
    <3>1. t \cap T = {}
      BY <2>2
    <3>2. SumFunctionOnSet(g, t) = 0 /\ SumFunctionOnSet(f, t \cap T) = 0
      BY <2>1, <2>2, <3>1, SumStep
    <3> QED
      BY <3>2
  <2>3. CASE t # {}
    <3> DEFINE x == Picked(t)
               b == SumFunctionOnSet(f, (t \ {x}) \cap T)
    <3>1. x \in t /\ Rest(t) = t \ {x} /\ Rest(t) \in Good
      BY <1>1, <2>3, PickedFacts DEF Rest
    <3>2. SumFunctionOnSet(g, t) = g[x] + b
      <4>1. SumFunctionOnSet(g, t) = g[x] + SumFunctionOnSet(g, Rest(t))
        BY <2>1, <2>3, SumStep
      <4>2. SumFunctionOnSet(g, Rest(t)) = b
        <5> HIDE DEF x
        <5> QED
          BY <3>1
      <4> QED
        BY <4>1, <4>2
    <3>3. b \in Int
      BY <2>1, SumInt, FS_Subset
    <3>4. CASE x \in T
      <4>1. x \in t \cap T /\ (t \cap T) \ {x} = (t \ {x}) \cap T
        BY <3>1, <3>4
      <4>2. SumFunctionOnSet(f, t \cap T) = f[x] + b
        BY <2>1, <4>1, SumRemove
      <4> QED
        BY <3>1, <3>2, <3>4, <4>2
    <3>5. CASE x \notin T
      <4>1. (t \ {x}) \cap T = t \cap T
        BY <3>5
      <4>2. g[x] = 0
        BY <3>1, <3>5
      <4>3. SumFunctionOnSet(g, t) = b
        <5> HIDE DEF b, x
        <5> QED
          BY <3>2, <3>3, <4>2
      <4> QED
        BY <4>1, <4>3
    <3> QED
      BY <3>4, <3>5
  <2> QED
    BY <2>2, <2>3
<1>2. \A t \in SUBSET S : t \in Good
  <2> HIDE DEF Good
  <2> QED
    BY <1>1, SubsetInduction
<1>3. S \in Good /\ S \cap T = T
  BY <1>2
<1> QED
  BY <1>3

\* As many ones as there are elements.
LEMMA SumOfOnes ==
    ASSUME NEW f, NEW S, IsFiniteSet(S), \A x \in S : f[x] = 1
    PROVE  SumFunctionOnSet(f, S) = Cardinality(S)
<1> DEFINE Good == {t \in SUBSET S : SumFunctionOnSet(f, t) = Cardinality(t)}
<1>1. ASSUME NEW t \in SUBSET S, \A x \in t : t \ {x} \in Good
      PROVE  t \in Good
  <2>1. IsFiniteSet(t)
    BY FS_Subset
  <2>2. CASE t = {}
    BY <2>1, <2>2, SumStep, FS_EmptySet
  <2>3. CASE t # {}
    <3> DEFINE x == Picked(t)
    <3>1. x \in t /\ Rest(t) = t \ {x} /\ Rest(t) \in Good
      BY <1>1, <2>3, PickedFacts DEF Rest
    <3>2. SumFunctionOnSet(f, t) = 1 + Cardinality(t \ {x})
      BY <2>1, <2>3, <3>1, SumStep
    <3>3. Cardinality(t \ {x}) = Cardinality(t) - 1 /\ Cardinality(t) \in Nat
      <4> HIDE DEF x
      <4> QED
        BY <2>1, <3>1, FS_RemoveElement, FS_CardinalityType
    <3> QED
      BY <3>2, <3>3
  <2> QED
    BY <2>2, <2>3
<1>2. \A t \in SUBSET S : t \in Good
  <2> HIDE DEF Good
  <2> QED
    BY <1>1, SubsetInduction
<1> QED
  BY <1>2

LEMMA SumOfColours ==
    ASSUME NEW f, NEW S, IsFiniteSet(S), NEW c \in Nat, \A x \in S : f[x] \in 0 .. c
    PROVE  SumFunctionOnSet(f, S) \in Nat /\ SumFunctionOnSet(f, S) <= c * Cardinality(S)
<1> DEFINE Bounded(t) == SumFunctionOnSet(f, t) \in Nat /\ SumFunctionOnSet(f, t) <= c * Cardinality(t)
           Good == {t \in SUBSET S : Bounded(t)}
<1>1. ASSUME NEW t \in SUBSET S, \A x \in t : t \ {x} \in Good
      PROVE  t \in Good
  <2>1. IsFiniteSet(t)
    BY FS_Subset
  <2>2. CASE t = {}
    <3>1. SumFunctionOnSet(f, t) = 0 /\ Cardinality(t) = 0
      BY <2>1, <2>2, SumStep, FS_EmptySet
    <3> QED
      BY <3>1
  <2>3. CASE t # {}
    <3> DEFINE x == Picked(t)
               n == Cardinality(t \ {x})
               b == SumFunctionOnSet(f, t \ {x})
    <3>1. x \in t /\ Rest(t) = t \ {x} /\ Rest(t) \in Good
      BY <1>1, <2>3, PickedFacts DEF Rest
    <3>2. SumFunctionOnSet(f, t) = f[x] + b
      BY <2>1, <2>3, <3>1, SumStep
    <3>3. b \in Nat /\ b <= c * n /\ f[x] \in 0 .. c
      BY <3>1
    <3>4. n \in Nat /\ Cardinality(t) = n + 1
      <4>1. n = Cardinality(t) - 1 /\ Cardinality(t) \in Nat /\ IsFiniteSet(t \ {x})
        <5> HIDE DEF x
        <5> QED
          BY <2>1, <3>1, FS_RemoveElement, FS_CardinalityType DEF x
      <4> HIDE DEF x
      <4> QED
        BY <4>1, FS_CardinalityType
    <3>5. c * (n + 1) = c * n + c /\ c * n \in Nat
      <4> HIDE DEF n
      <4> QED
        BY <3>4
    <3> HIDE DEF x, n, b
    <3>6. Bounded(t)
      BY <3>2, <3>3, <3>4, <3>5
    <3> QED
      BY <3>6
  <2> QED
    BY <2>2, <2>3
<1>2. \A t \in SUBSET S : t \in Good
  <2> HIDE DEF Good
  <2> QED
    BY <1>1, SubsetInduction
<1>3. S \in Good
  BY <1>2
<1> QED
  BY <1>3

-----------------------------------------------------------------------------
(* The array                                                               *)

\* Multiplication, as far as the provers need to be told.
LEMMA RowFacts ==
    ASSUME NEW w \in Nat, w > 0, NEW h \in Nat, NEW r \in Nat, r < h
    PROVE  /\ w * r \in Nat /\ w * h \in Nat
           /\ w * r + w <= w * h
<1>1. w * h = w * r + w * (h - r)
  OBVIOUS
<1>2. w * (h - r) = w + w * (h - r - 1)
  OBVIOUS
<1>3. w * (h - r - 1) \in Nat /\ w * r \in Nat
  OBVIOUS
<1> QED
  BY <1>1, <1>2, <1>3

\* Two pixels with the same place in the array are one.
LEMMA PlaceFacts ==
    ASSUME NEW w \in Nat, w > 0,
           NEW a \in 0 .. w - 1, NEW b \in 0 .. w - 1, NEW r \in Nat, NEW s \in Nat,
           a + w * r = b + w * s
    PROVE  a = b /\ r = s
<1>1. CASE r < s
  <2>1. w * r \in Nat /\ w * s \in Nat /\ w * r + w <= w * s
    BY <1>1, RowFacts
  <2> QED
    BY <2>1
<1>2. CASE s < r
  <2>1. w * r \in Nat /\ w * s \in Nat /\ w * s + w <= w * r
    BY <1>2, RowFacts
  <2> QED
    BY <2>1
<1>3. CASE r = s
  <2>1. w * r \in Int
    OBVIOUS
  <2> QED
    BY <1>3, <2>1
<1> QED
  BY <1>1, <1>2, <1>3

IsBuffer(b) ==
    /\ b = [width |-> b.width, height |-> b.height, pixels |-> b.pixels]
    /\ b.width \in Nat \ {0}
    /\ b.height \in Nat \ {0}
    /\ b.pixels = [i \in 0 .. b.width * b.height - 1 |-> b.pixels[i]]

\* Every position has a place in the array, and one of its own.
LEMMA IndexFacts ==
    ASSUME NEW b, IsBuffer(b), NEW p \in Positions(b), NEW q \in Positions(b)
    PROVE  /\ Index(b, p[1], p[2]) \in DOMAIN b.pixels
           /\ Index(b, p[1], p[2]) = Index(b, q[1], q[2]) => p = q
<1> DEFINE w == b.width
           h == b.height
           r == h - (p[2] + 1)
           s == h - (q[2] + 1)
<1>1. /\ p[1] \in 0 .. w - 1 /\ p[2] \in 0 .. h - 1 /\ p = <<p[1], p[2]>>
      /\ q[1] \in 0 .. w - 1 /\ q[2] \in 0 .. h - 1 /\ q = <<q[1], q[2]>>
      /\ w \in Nat /\ w > 0 /\ h \in Nat
      /\ DOMAIN b.pixels = 0 .. w * h - 1
  BY DEF Positions, IsBuffer
<1>2. Index(b, p[1], p[2]) = p[1] + w * r /\ Index(b, q[1], q[2]) = q[1] + w * s
  BY DEF Index
<1> HIDE DEF w, h
<1>3. r \in Nat /\ s \in Nat /\ r < h
  BY <1>1
<1>4. p[1] + w * r \in 0 .. w * h - 1
  <2>1. w * r \in Nat /\ w * h \in Nat /\ w * r + w <= w * h
    BY <1>1, <1>3, RowFacts
  <2> HIDE DEF r
  <2> QED
    BY <1>1, <2>1
<1>5. p[1] + w * r = q[1] + w * s => p[1] = q[1] /\ r = s
  <2> HIDE DEF r, s
  <2> QED
    BY <1>1, <1>3, PlaceFacts
<1>6. r = s => p[2] = q[2]
  BY <1>1
<1> HIDE DEF r, s
<1> QED
  BY <1>1, <1>2, <1>4, <1>5, <1>6

\* Writing a pixel changes that pixel, and nothing else.
LEMMA WrittenFacts ==
    ASSUME NEW b, IsBuffer(b), NEW at \in Positions(b), NEW v,
           NEW c, c = set_valid_pixel(b, at[1], at[2], v)
    PROVE  /\ IsBuffer(c)
           /\ c.width = b.width /\ c.height = b.height
           /\ Positions(c) = Positions(b)
           /\ \A p \in Positions(b) : get_valid_pixel(c, p[1], p[2]) =
                IF p = at THEN v ELSE get_valid_pixel(b, p[1], p[2])
<1> DEFINE i == Index(b, at[1], at[2])
<1>1. /\ c.width = b.width /\ c.height = b.height
      /\ c = [width |-> c.width, height |-> c.height, pixels |-> c.pixels]
      /\ c.pixels = [b.pixels EXCEPT ![i] = v]
  BY DEF set_valid_pixel, IsBuffer
<1>2. IsBuffer(c)
  BY <1>1 DEF IsBuffer
<1>3. Positions(c) = Positions(b)
  BY <1>1 DEF Positions
<1>4. ASSUME NEW p \in Positions(b)
      PROVE  get_valid_pixel(c, p[1], p[2]) =
                IF p = at THEN v ELSE get_valid_pixel(b, p[1], p[2])
  <2>1. Index(c, p[1], p[2]) = Index(b, p[1], p[2])
    BY <1>1 DEF Index
  <2>2. Index(b, p[1], p[2]) \in DOMAIN b.pixels /\ (Index(b, p[1], p[2]) = i => p = at)
    BY <1>4, IndexFacts
  <2> QED
    BY <1>1, <2>1, <2>2 DEF get_valid_pixel
<1> QED
  BY <1>1, <1>2, <1>3, <1>4

LEMMA PositionsFinite ==
    ASSUME NEW b, IsBuffer(b)
    PROVE  IsFiniteSet(Positions(b))
<1>1. b.width - 1 \in Int /\ b.height - 1 \in Int
  BY DEF IsBuffer
<1>2. IsFiniteSet(0 .. b.width - 1) /\ IsFiniteSet(0 .. b.height - 1)
  BY <1>1, FS_Interval
<1> QED
  BY <1>2, FS_Product DEF Positions

\* A buffer whose pixels are colours.
IsPicture(b) == IsBuffer(b) /\ InGamut(b)

LEMMA PixelInGamut ==
    ASSUME NEW b, IsPicture(b), NEW p \in Positions(b)
    PROVE  get_valid_pixel(b, p[1], p[2]) \in 0 .. One
<1>1. Index(b, p[1], p[2]) \in DOMAIN b.pixels
  BY IndexFacts DEF IsPicture
<1> QED
  BY <1>1 DEF IsPicture, InGamut, get_valid_pixel

LEMMA WrittenInGamut ==
    ASSUME NEW b, IsPicture(b), NEW at \in Positions(b), NEW v \in 0 .. One
    PROVE  IsPicture(set_valid_pixel(b, at[1], at[2], v))
<1> DEFINE c == set_valid_pixel(b, at[1], at[2], v)
<1>1. IsBuffer(c) /\ c.width = b.width /\ c.height = b.height
  <2>1. IsBuffer(b) /\ c = set_valid_pixel(b, at[1], at[2], v)
    BY DEF IsPicture
  <2> HIDE DEF c
  <2> QED
    BY <2>1, WrittenFacts
<1>2. c.pixels = [b.pixels EXCEPT ![Index(b, at[1], at[2])] = v]
  BY DEF set_valid_pixel, IsPicture, IsBuffer
<1> HIDE DEF c
<1>3. IsPicture(c)
  BY <1>1, <1>2 DEF IsPicture, InGamut
<1> QED
  BY <1>3 DEF c

LEMMA ClampedInGamut ==
    ASSUME NEW v \in Int
    PROVE  clamped_color(v) \in 0 .. One /\ (v \in 0 .. One => clamped_color(v) = v)
BY OneAssumption DEF clamped_color

-----------------------------------------------------------------------------
(* Kernels                                                                 *)

KernelFunction == {"BLUR", "BLUR_N_S", "BLUR_E_W", "BLUR_NE_SW", "BLUR_NW_SE",
                   "SHARPEN", "EDGE_DETECT", "EMBOSS"}

\* Division, as far as the provers need to be told.
LEMMA DivisionFacts ==
    ASSUME NEW n \in Int, NEW d \in Nat, d > 0
    PROVE  /\ n \div d \in Int
           /\ n % d \in 0 .. d - 1
           /\ n = d * (n \div d) + (n % d)
           /\ n \in Nat => n \div d \in Nat
OBVIOUS

LEMMA QuotientFacts ==
    ASSUME NEW w \in Nat, w > 0, NEW a \in 0 .. w - 1, NEW r \in Nat
    PROVE  (r * w + a) % w = a /\ (r * w + a) \div w = r
<1> DEFINE n == r * w + a
<1>1. n \in Nat /\ n = a + w * r
  BY RowFacts
<1> HIDE DEF n
<1>2. n % w \in 0 .. w - 1 /\ n \div w \in Nat /\ n = (n % w) + w * (n \div w)
  BY <1>1, DivisionFacts
<1>3. n % w = a /\ n \div w = r
  BY <1>1, <1>2, PlaceFacts
<1> QED
  BY <1>3 DEF n

LEMMA ProductFacts ==
    ASSUME NEW b \in Nat, NEW a \in 0 .. b, NEW n \in Nat
    PROVE  a * n \in Nat /\ b * n \in Nat /\ a * n <= b * n
<1>1. (b - a) * n \in Nat /\ a * n \in Nat
  OBVIOUS
<1>2. b * n = a * n + (b - a) * n
  OBVIOUS
<1> QED
  BY <1>1, <1>2

LEMMA QuotientBounded ==
    ASSUME NEW d \in Nat, d > 0, NEW b \in Nat, NEW n \in Nat, n <= b * d
    PROVE  n \div d \in 0 .. b
<1> DEFINE q == n \div d
<1>1. n % d \in 0 .. d - 1 /\ q \in Nat /\ n = (n % d) + d * q
  BY DivisionFacts
<1> HIDE DEF q
<1>2. q <= b
  <2> SUFFICES ASSUME b < q PROVE FALSE
    BY <1>1
  <2>1. d * b + d <= d * q /\ d * q \in Nat
    BY <1>1, RowFacts
  <2>2. d * b = b * d /\ b * d \in Nat
    OBVIOUS
  <2> QED
    BY <1>1, <2>1, <2>2
<1> QED
  BY <1>1, <1>2 DEF q

LEMMA ValueIsInt ==
    ASSUME NEW function \in KernelFunction, NEW x \in Int, NEW y \in Int, NEW size \in Nat
    PROVE  KernelValue(function, x, y, size) \in Int
BY DEF KernelFunction, KernelValue, Blur, Blur_N_S, Blur_E_W, Blur_NE_SW, Blur_NW_SE,
       Sharpen, EdgeDetect, Emboss

OddSize(n) == IF n % 2 = 0 THEN n + 1 ELSE n

LEMMA KernelFacts ==
    ASSUME NEW n \in Nat, NEW function \in KernelFunction
    PROVE  LET k == KernelInit(n, function)
           IN  /\ k.function = function
               /\ k.size = OddSize(n)
               /\ k.size \in Nat /\ k.size % 2 = 1
               /\ k.values \in [0 .. k.size * k.size - 1 -> Int]
<1> DEFINE size == OddSize(n)
<1>1. size \in Nat /\ size % 2 = 1 /\ size > 0
  BY DEF OddSize
<1>2. KernelInit(n, function) =
        [function |-> function, size |-> size,
         values |-> [i \in 0 .. size * size - 1 |->
                        KernelValue(function, i % size, i \div size, size)]]
  BY DEF KernelInit, OddSize
<1> HIDE DEF size
<1>3. ASSUME NEW i \in 0 .. size * size - 1
      PROVE  KernelValue(function, i % size, i \div size, size) \in Int
  <2>1. i \in Int
    BY <1>1, RowFacts
  <2>2. i % size \in Int /\ i \div size \in Int
    BY <1>1, <2>1, DivisionFacts
  <2> QED
    BY <1>1, <2>2, ValueIsInt
<1> QED
  BY <1>1, <1>2, <1>3 DEF size

\* Over pixel p lies the value of the kernel function at p's place in the kernel.
LEMMA WeightFacts ==
    ASSUME NEW n \in Nat, NEW function \in KernelFunction, NEW copy, IsBuffer(copy),
           NEW x \in Int, NEW y \in Int,
           NEW p \in Covered(copy, OddSize(n), x, y)
    PROVE  /\ Weight(KernelInit(n, function), p, x, y) =
                KernelValue(function, p[1] - x + OddSize(n) \div 2,
                            p[2] - y + OddSize(n) \div 2, OddSize(n))
           /\ Weight(KernelInit(n, function), p, x, y) \in Int
<1> DEFINE size == OddSize(n)
           offset == size \div 2
           col == p[1] - x + offset
           row == p[2] - y + offset
           i == row * size + col
<1>1. size \in Nat /\ size > 0
  BY DEF OddSize
<1>2. col \in 0 .. size - 1 /\ row \in 0 .. size - 1
  BY DEF Covered
<1> HIDE DEF size, col, row
<1>3. i \in 0 .. size * size - 1
  <2>1. size * row + size <= size * size /\ size * row \in Nat /\ size * size \in Nat
    BY <1>1, <1>2, RowFacts
  <2>2. row * size = size * row
    BY <1>1, <1>2
  <2> QED
    BY <1>1, <1>2, <2>1, <2>2
<1>4. i % size = col /\ i \div size = row
  BY <1>1, <1>2, QuotientFacts
<1>5. Weight(KernelInit(n, function), p, x, y) = KernelInit(n, function).values[i]
  BY KernelFacts DEF Weight, size, col, row
<1>6. KernelInit(n, function).values =
        [j \in 0 .. size * size - 1 |-> KernelValue(function, j % size, j \div size, size)]
  BY DEF KernelInit, OddSize, size
<1>7. Weight(KernelInit(n, function), p, x, y) = KernelValue(function, col, row, size)
  <2> HIDE DEF i
  <2> QED
    BY <1>3, <1>4, <1>5, <1>6
<1>8. KernelValue(function, col, row, size) \in Int
  BY <1>1, <1>2, ValueIsInt
<1> QED
  BY <1>7, <1>8 DEF size, col, row

\* The two sums in Apply.
Weights(kernel, copy, x, y) ==
    [p \in Covered(copy, kernel.size, x, y) |-> Weight(kernel, p, x, y)]

Lights(kernel, copy, x, y) ==
    [p \in Covered(copy, kernel.size, x, y) |->
        get_valid_pixel(copy, p[1], p[2]) * Weight(kernel, p, x, y)]

LEMMA ApplySums ==
    ASSUME NEW kernel, NEW copy, NEW x, NEW y, NEW bias
    PROVE  LET S == Covered(copy, kernel.size, x, y)
               factor == SumFunctionOnSet(Weights(kernel, copy, x, y), S)
               light == SumFunctionOnSet(Lights(kernel, copy, x, y), S)
           IN  Apply(kernel, copy, x, y, bias) =
                clamped_color(bias + IF factor <= 0 THEN light ELSE light \div factor)
<1> DEFINE S == Covered(copy, kernel.size, x, y)
<1>1. DOMAIN Weights(kernel, copy, x, y) = S /\ DOMAIN Lights(kernel, copy, x, y) = S
  BY DEF Weights, Lights
<1>2. [p \in DOMAIN Weights(kernel, copy, x, y) |->
        get_valid_pixel(copy, p[1], p[2]) * Weights(kernel, copy, x, y)[p]]
        = Lights(kernel, copy, x, y)
  BY DEF Weights, Lights
<1> QED
  BY <1>1, <1>2 DEF Apply, SumFunction, Weights

LEMMA SumsFacts ==
    ASSUME NEW n \in Nat, NEW function \in KernelFunction, NEW copy, IsPicture(copy),
           NEW x \in Int, NEW y \in Int
    PROVE  LET k == KernelInit(n, function)
               S == Covered(copy, k.size, x, y)
           IN  /\ IsFiniteSet(S)
               /\ \A p \in S : /\ Weights(k, copy, x, y)[p] \in Int
                               /\ Lights(k, copy, x, y)[p] \in Int
               /\ SumFunctionOnSet(Weights(k, copy, x, y), S) \in Int
               /\ SumFunctionOnSet(Lights(k, copy, x, y), S) \in Int
<1> DEFINE k == KernelInit(n, function)
           S == Covered(copy, k.size, x, y)
<1>1. k.size = OddSize(n)
  BY KernelFacts
<1>2. S \subseteq Positions(copy) /\ IsFiniteSet(S)
  BY PositionsFinite, FS_Subset DEF Covered, IsPicture
<1>3. ASSUME NEW p \in S
      PROVE  Weights(k, copy, x, y)[p] \in Int /\ Lights(k, copy, x, y)[p] \in Int
  <2>1. Weight(k, p, x, y) \in Int
    BY <1>1, WeightFacts DEF IsPicture
  <2>2. get_valid_pixel(copy, p[1], p[2]) \in Int
    BY <1>2, PixelInGamut, OneAssumption
  <2>3. get_valid_pixel(copy, p[1], p[2]) * Weight(k, p, x, y) \in Int
    BY <2>1, <2>2
  <2> QED
    BY <2>1, <2>3 DEF Weights, Lights
<1>4. /\ SumFunctionOnSet(Weights(k, copy, x, y), S) \in Int
      /\ SumFunctionOnSet(Lights(k, copy, x, y), S) \in Int
  BY <1>2, <1>3, SumInt
<1> QED
  BY <1>2, <1>3, <1>4

\* Whatever the weights, what is stored is a colour.
LEMMA ApplyInGamut ==
    ASSUME NEW n \in Nat, NEW function \in KernelFunction, NEW copy, IsPicture(copy),
           NEW x \in Int, NEW y \in Int, NEW bias \in Int
    PROVE  Apply(KernelInit(n, function), copy, x, y, bias) \in 0 .. One
<1> DEFINE k == KernelInit(n, function)
           S == Covered(copy, k.size, x, y)
           factor == SumFunctionOnSet(Weights(k, copy, x, y), S)
           light == SumFunctionOnSet(Lights(k, copy, x, y), S)
<1>1. factor \in Int /\ light \in Int
  BY SumsFacts
<1>2. Apply(k, copy, x, y, bias) =
        clamped_color(bias + IF factor <= 0 THEN light ELSE light \div factor)
  BY ApplySums
<1> HIDE DEF k, factor, light
<1>3. factor > 0 => light \div factor \in Int
  BY <1>1, DivisionFacts
<1>4. bias + (IF factor <= 0 THEN light ELSE light \div factor) \in Int
  BY <1>1, <1>3
<1> QED
  BY <1>2, <1>4, ClampedInGamut DEF k

-----------------------------------------------------------------------------
(* Kernels that sum up to a positive number, wherever they are cut off     *)

\* The pixels other than <<x, y>> in the row and the column of it that a kernel
\* covers are fewer than twice its size.
LEMMA CrossFacts ==
    ASSUME NEW size \in Nat, size % 2 = 1, NEW copy, IsBuffer(copy),
           NEW x \in Int, NEW y \in Int,
           NEW T, T = {p \in Covered(copy, size, x, y) : (p[1] = x) # (p[2] = y)}
    PROVE  IsFiniteSet(T) /\ Cardinality(T) <= 2 * size - 2
<1> DEFINE offset == size \div 2
           U == 0 .. 2 * size - 1
           Marks == (U \ {offset}) \ {size + offset}
           mark == [p \in T |-> IF p[2] = y THEN p[1] - x + offset
                                ELSE size + p[2] - y + offset]
<1>1. /\ offset \in 0 .. size - 1 /\ size > 0
      /\ \A p \in T : /\ p = <<p[1], p[2]>> /\ p[1] \in Int /\ p[2] \in Int
                      /\ p[1] - x + offset \in 0 .. size - 1
                      /\ p[2] - y + offset \in 0 .. size - 1
                      /\ (p[1] = x) # (p[2] = y)
  BY DEF Covered, Positions, IsBuffer
<1>2. IsFiniteSet(Marks) /\ Cardinality(Marks) = 2 * size - 2
  <2>1. IsFiniteSet(U) /\ Cardinality(U) = 2 * size
    <3>1. 2 * size - 1 \in Int /\ ~(0 > 2 * size - 1)
      BY <1>1
    <3> QED
      BY <3>1, FS_Interval
  <2> DEFINE V == U \ {offset}
             m == size + offset
  <2>2. offset \in U /\ m \in V
    BY <1>1
  <2> HIDE DEF U, offset, m
  <2>3. IsFiniteSet(V) /\ Cardinality(V) = 2 * size - 1
    BY <2>1, <2>2, FS_RemoveElement
  <2> HIDE DEF V
  <2>4. IsFiniteSet(V \ {m}) /\ Cardinality(V \ {m}) = (2 * size - 1) - 1
    BY <2>2, <2>3, FS_RemoveElement
  <2> QED
    BY <2>4 DEF V, m
<1> HIDE DEF offset
<1>3. mark \in Injection(T, Marks)
  <2>1. ASSUME NEW p \in T PROVE mark[p] \in Marks
    BY <1>1
  <2>2. ASSUME NEW p \in T, NEW q \in T, mark[p] = mark[q] PROVE p = q
    <3>1. p[1] = q[1] /\ p[2] = q[2]
      <4> DEFINE px == p[1]
                 py == p[2]
                 qx == q[1]
                 qy == q[2]
      <4>1. /\ px \in Int /\ py \in Int /\ qx \in Int /\ qy \in Int
            /\ px - x + offset \in 0 .. size - 1 /\ qx - x + offset \in 0 .. size - 1
            /\ py - y + offset \in 0 .. size - 1 /\ qy - y + offset \in 0 .. size - 1
            /\ px = x <=> py # y
            /\ qx = x <=> qy # y
        BY <1>1
      <4>2. /\ mark[p] = IF py = y THEN px - x + offset ELSE size + py - y + offset
            /\ mark[q] = IF qy = y THEN qx - x + offset ELSE size + qy - y + offset
        OBVIOUS
      <4>3. offset \in Int
        BY <1>1
      <4> HIDE DEF px, py, qx, qy, mark
      <4>4. (IF py = y THEN px - x + offset ELSE size + py - y + offset)
                = (IF qy = y THEN qx - x + offset ELSE size + qy - y + offset)
        BY <2>2, <4>2
      <4>5. py = y <=> qy = y
        BY <4>1, <4>3, <4>4
      <4>6. py = y => px = qx
        BY <4>1, <4>3, <4>4, <4>5
      <4>7. py # y => py = qy
        BY <4>1, <4>3, <4>4, <4>5
      <4>8. px = qx /\ py = qy
        BY <4>1, <4>5, <4>6, <4>7
      <4> QED
        BY <4>8 DEF px, py, qx, qy
    <3>2. p = <<p[1], p[2]>> /\ q = <<q[1], q[2]>>
      BY <1>1
    <3> QED
      BY <3>1, <3>2
  <2> HIDE DEF Marks
  <2> QED
    BY <2>1, <2>2 DEF Injection, IsInjective
<1> HIDE DEF mark, Marks
<1> QED
  BY <1>2, <1>3, FS_Injection

\* The kernel functions that blur or sharpen.
Averaging == KernelFunction \ {"EDGE_DETECT", "EMBOSS"}

LEMMA PositiveFactor ==
    ASSUME NEW n \in Nat, NEW function \in Averaging, NEW copy, IsPicture(copy),
           NEW at \in Positions(copy)
    PROVE  LET k == KernelInit(n, function)
               S == Covered(copy, k.size, at[1], at[2])
           IN  SumFunctionOnSet(Weights(k, copy, at[1], at[2]), S) >= 1
<1> DEFINE k == KernelInit(n, function)
           size == OddSize(n)
           offset == size \div 2
           x == at[1]
           y == at[2]
           S == Covered(copy, k.size, x, y)
           W == Weights(k, copy, x, y)
<1>1. /\ size \in Nat /\ size % 2 = 1 /\ k.size = size
      /\ size = 2 * offset + 1 /\ offset \in Nat
  BY KernelFacts DEF OddSize, Averaging
<1>2. x \in Int /\ y \in Int /\ at = <<x, y>> /\ function \in KernelFunction
  BY DEF Positions, IsPicture, IsBuffer, Averaging
<1>3. IsFiniteSet(S) /\ \A p \in S : W[p] \in Int
  BY <1>2, SumsFacts
<1>4. at \in S
  BY <1>1, <1>2 DEF Covered
<1>5. \A p \in S : /\ W[p] = KernelValue(function, p[1] - x + offset, p[2] - y + offset, size)
                   /\ p[1] \in Int /\ p[2] \in Int /\ p = <<p[1], p[2]>>
  <2>1. ASSUME NEW p \in S
        PROVE  W[p] = KernelValue(function, p[1] - x + offset, p[2] - y + offset, size)
    BY <1>1, <1>2, WeightFacts DEF Weights, IsPicture
  <2>2. S \subseteq Positions(copy)
    BY DEF Covered
  <2> QED
    BY <2>1, <2>2 DEF Positions, IsPicture, IsBuffer
<1>6. W[at] = KernelValue(function, offset, offset, size)
  BY <1>1, <1>2, <1>4, <1>5
<1> HIDE DEF k, S, W, x, y, size, offset
<1>7. CASE function # "SHARPEN"
  <2>1. W[at] >= 1
    BY <1>1, <1>6, <1>7 DEF KernelValue, Averaging, KernelFunction, Blur, Blur_N_S,
        Blur_E_W, Blur_NE_SW, Blur_NW_SE
  <2>2. \A p \in S : W[p] >= 0
    BY <1>5, <1>7 DEF KernelValue, Averaging, KernelFunction, Blur, Blur_N_S,
        Blur_E_W, Blur_NE_SW, Blur_NW_SE
  <2>3. SumFunctionOnSet(W, S) >= 1 - Cardinality({} \cap S)
    BY <1>3, <1>4, <2>1, <2>2, SumAtLeast
  <2>4. {} \cap S = {} /\ Cardinality({}) = 0
    BY FS_EmptySet
  <2>5. SumFunctionOnSet(W, S) \in Int
    BY <1>3, SumInt
  <2> QED
    BY <2>3, <2>4, <2>5 DEF k, S, W, x, y
<1>8. CASE function = "SHARPEN"
  <2> DEFINE T == {p \in S : (p[1] = x) # (p[2] = y)}
             a == 2 * size - 1
  <2>1. \A p \in S : W[p] = Sharpen(p[1] - x + offset, p[2] - y + offset, size)
    BY <1>5, <1>8 DEF KernelValue
  <2>2. W[at] = a
    BY <1>1, <1>6, <1>8 DEF KernelValue, Sharpen, offset
  <2>3. at \notin T
    BY <1>2
  <2>4. /\ \A p \in T : W[p] >= -1
        /\ \A p \in S \ T : p # at => W[p] >= 0
    <3>1. ASSUME NEW p \in S
          PROVE  W[p] = IF p[1] = x /\ p[2] = y THEN a
                        ELSE IF p[1] = x \/ p[2] = y THEN -1 ELSE 0
      <4> DEFINE col == p[1] - x + offset
                 row == p[2] - y + offset
      <4>1. W[p] = Sharpen(col, row, size)
        BY <2>1
      <4>2. (p[1] = x <=> col = offset) /\ (p[2] = y <=> row = offset)
        BY <1>1, <1>2, <1>5
      <4>3. Sharpen(col, row, size) = IF col = offset /\ row = offset THEN size * 2 - 1
                                      ELSE IF col = offset \/ row = offset THEN -1 ELSE 0
        <5> HIDE DEF col, row
        <5> QED
          BY DEF Sharpen, offset
      <4>4. size * 2 - 1 = a
        BY <1>1
      <4> HIDE DEF col, row, a
      <4> QED
        BY <4>1, <4>2, <4>3, <4>4
    <3>2. ASSUME NEW p \in S, p[1] = x, p[2] = y PROVE p = at
      BY <1>2, <1>5, <3>2
    <3> HIDE DEF a
    <3> QED
      BY <3>1, <3>2
  <2>5. IsFiniteSet(T) /\ Cardinality(T) <= 2 * size - 2
    BY <1>1, <1>2, CrossFacts DEF S, IsPicture
  <2>6. T \cap S = T
    OBVIOUS
  <2>7. SumFunctionOnSet(W, S) >= a - Cardinality(T)
    <3>1. a \in Int /\ W[at] >= a
      BY <1>1, <2>2
    <3> HIDE DEF T, a
    <3> QED
      BY <1>3, <1>4, <2>3, <2>4, <2>6, <3>1, SumAtLeast
  <2>8. SumFunctionOnSet(W, S) \in Int /\ Cardinality(T) \in Nat
    BY <1>3, <2>5, SumInt, FS_CardinalityType
  <2>9. SumFunctionOnSet(W, S) >= 1
    <3> HIDE DEF T
    <3> QED
      BY <1>1, <2>5, <2>7, <2>8
  <2> QED
    BY <2>9 DEF k, S, W, x, y
<1> QED
  BY <1>7, <1>8

\* Blurring or sharpening one colour gives that colour.
LEMMA UniformKept ==
    ASSUME NEW n \in Nat, NEW function \in Averaging, NEW copy, IsPicture(copy),
           NEW v \in 0 .. One,
           \A p \in Positions(copy) : get_valid_pixel(copy, p[1], p[2]) = v,
           NEW at \in Positions(copy)
    PROVE  Apply(KernelInit(n, function), copy, at[1], at[2], 0) = v
<1> DEFINE k == KernelInit(n, function)
           S == Covered(copy, k.size, at[1], at[2])
           W == Weights(k, copy, at[1], at[2])
           L == Lights(k, copy, at[1], at[2])
           factor == SumFunctionOnSet(W, S)
           light == SumFunctionOnSet(L, S)
<1>1. v \in Int /\ at[1] \in Int /\ at[2] \in Int /\ function \in KernelFunction
  BY OneAssumption DEF Positions, IsPicture, IsBuffer, Averaging
<1>2. IsFiniteSet(S) /\ factor \in Int /\ \A p \in S : W[p] \in Int
  BY <1>1, SumsFacts
<1>3. \A p \in S : L[p] = v * W[p]
  BY DEF Lights, Weights, Covered
<1>4. light = v * factor
  <2> HIDE DEF S, W, L
  <2> QED
    BY <1>1, <1>2, <1>3, SumScaled
<1>5. factor >= 1
  BY PositiveFactor
<1>6. Apply(k, copy, at[1], at[2], 0) =
        clamped_color(0 + IF factor <= 0 THEN light ELSE light \div factor)
  BY ApplySums
<1> HIDE DEF k, factor, light
<1>7. light \div factor = v
  <2>1. factor \in Nat /\ v \in Nat /\ 0 \in 0 .. factor - 1
    BY <1>2, <1>5, OneAssumption
  <2>2. light = v * factor + 0
    BY <1>1, <1>2, <1>4
  <2> QED
    BY <1>5, <2>1, <2>2, QuotientFacts
<1>8. 0 + (IF factor <= 0 THEN light ELSE light \div factor) = v
  BY <1>1, <1>2, <1>5, <1>7
<1> QED
  BY <1>1, <1>6, <1>8, ClampedInGamut DEF k

-----------------------------------------------------------------------------
(* The Blur tool's kernels                                                 *)

\* How far apart two pixels are, counted along the rows and the columns.
Apart(p, q) ==
    LET dx == p[1] - q[1]
        dy == p[2] - q[2]
    IN  (IF dx < 0 THEN -dx ELSE dx) + (IF dy < 0 THEN -dy ELSE dy)

LEMMA BlurValue ==
    ASSUME NEW r \in Nat, NEW p, NEW at, p[1] \in Int, p[2] \in Int, at[1] \in Int, at[2] \in Int,
           p[1] - at[1] \in -r .. r, p[2] - at[2] \in -r .. r
    PROVE  KernelValue("BLUR", p[1] - at[1] + r, p[2] - at[2] + r, 2 * r + 1)
                = IF Apart(p, at) <= r THEN 1 ELSE 0
<1> DEFINE dx == p[1] - at[1]
           dy == p[2] - at[2]
           col == dx + r
           row == dy + r
           size == 2 * r + 1
<1>1. size \div 2 = r /\ dx \in Int /\ dy \in Int /\ size = 2 * r + 1
  OBVIOUS
<1>2. Blur(col, row, size) = IF (IF dx < 0 THEN -dx ELSE dx) + (IF dy < 0 THEN -dy ELSE dy) <= r
                             THEN 1 ELSE 0
  <2>1. dx \in -r .. r /\ dy \in -r .. r /\ col = dx + r /\ row = dy + r
    OBVIOUS
  <2> HIDE DEF dx, dy, col, row, size
  <2> QED
    BY <1>1, <2>1 DEF Blur
<1> QED
  BY <1>2 DEF KernelValue, Apart

Near(copy, at, r) == {p \in Positions(copy) : Apart(p, at) <= r}

\* A blur of radius r is the mean of the pixels that are no further than r apart.
LEMMA BlurIsMean ==
    ASSUME NEW r \in Nat, NEW copy, IsPicture(copy), NEW at \in Positions(copy),
           NEW pic, \A p \in Positions(copy) : pic[p] = get_valid_pixel(copy, p[1], p[2]),
           NEW near, near = Near(copy, at, r)
    PROVE  Apply(KernelInit(2 * r, "BLUR"), copy, at[1], at[2], 0)
                = SumFunctionOnSet(pic, near) \div Cardinality(near)
<1> DEFINE n == 2 * r
           k == KernelInit(n, "BLUR")
           x == at[1]
           y == at[2]
           S == Covered(copy, k.size, x, y)
           W == Weights(k, copy, x, y)
           L == Lights(k, copy, x, y)
           ones == [p \in S |-> 1]
           total == SumFunctionOnSet(pic, near)
           count == Cardinality(near)
<1> USE DEF Near
<1>1. /\ n \in Nat /\ "BLUR" \in KernelFunction /\ OddSize(n) = 2 * r + 1
      /\ (2 * r + 1) \div 2 = r
  BY DEF KernelFunction, OddSize
<1> HIDE DEF n
<1>2. k.size = 2 * r + 1
  BY <1>1, KernelFacts
<1>3. /\ x \in Int /\ y \in Int /\ IsBuffer(copy)
      /\ \A p \in Positions(copy) : p[1] \in Int /\ p[2] \in Int
  BY DEF Positions, IsPicture, IsBuffer
<1> HIDE DEF x, y, k
<1>4. S = {p \in Positions(copy) : p[1] - x + r \in 0 .. 2 * r /\ p[2] - y + r \in 0 .. 2 * r}
  <2>1. k.size \div 2 = r /\ k.size - 1 = 2 * r
    BY <1>1, <1>2
  <2> QED
    BY <2>1 DEF Covered
<1>5. near \subseteq S /\ IsFiniteSet(S) /\ IsFiniteSet(near)
  <2>1. ASSUME NEW p \in Positions(copy), Apart(p, at) <= r
        PROVE  p[1] - x + r \in 0 .. 2 * r /\ p[2] - y + r \in 0 .. 2 * r
    BY <1>3, <2>1 DEF Apart, x, y
  <2>2. S \subseteq Positions(copy) /\ near \subseteq S
    BY <1>4, <2>1
  <2> QED
    BY <1>3, <2>2, PositionsFinite, FS_Subset
<1>6. ASSUME NEW p \in S
      PROVE  /\ pic[p] \in 0 .. One /\ pic[p] \in Int
             /\ W[p] = IF p \in near THEN 1 ELSE 0
             /\ L[p] = IF p \in near THEN pic[p] ELSE 0
  <2>1. p \in Positions(copy) /\ p[1] \in Int /\ p[2] \in Int
    BY <1>3, <1>4
  <2>2. p[1] - x \in -r .. r /\ p[2] - y \in -r .. r
    BY <1>3, <1>4, <2>1
  <2>3. KernelValue("BLUR", p[1] - x + r, p[2] - y + r, 2 * r + 1)
            = IF Apart(p, at) <= r THEN 1 ELSE 0
    BY <1>3, <2>1, <2>2, BlurValue DEF x, y
  <2>4. Weight(k, p, x, y) = KernelValue("BLUR", p[1] - x + r, p[2] - y + r, 2 * r + 1)
    BY <1>1, <1>2, <1>3, WeightFacts DEF k
  <2>5. Weight(k, p, x, y) = IF p \in near THEN 1 ELSE 0
    BY <2>1, <2>3, <2>4
  <2>6. pic[p] = get_valid_pixel(copy, p[1], p[2]) /\ pic[p] \in 0 .. One /\ pic[p] \in Int
    BY <2>1, PixelInGamut, OneAssumption
  <2>7. W[p] = Weight(k, p, x, y) /\ L[p] = pic[p] * Weight(k, p, x, y)
    BY <2>6 DEF Weights, Lights
  <2> HIDE DEF W, L
  <2> QED
    BY <2>5, <2>6, <2>7
<1>7. SumFunctionOnSet(W, S) = count
  <2>1. \A p \in S : W[p] = IF p \in near THEN ones[p] ELSE 0
    BY <1>6
  <2>2. \A p \in S : ones[p] \in Int /\ ones[p] = 1
    OBVIOUS
  <2> HIDE DEF W, S, ones
  <2>3. SumFunctionOnSet(W, S) = SumFunctionOnSet(ones, near)
    BY <1>5, <2>1, <2>2, SumSelected
  <2> QED
    BY <1>5, <2>2, <2>3, SumOfOnes
<1>8. SumFunctionOnSet(L, S) = total
  <2> HIDE DEF L, S
  <2> QED
    BY <1>5, <1>6, SumSelected
<1>9. total \in Nat /\ total <= One * count /\ count \in Nat /\ count > 0 /\ One \in Nat
  <2>1. \A p \in near : pic[p] \in 0 .. One
    BY <1>5, <1>6
  <2>2. at \in near
    BY <1>3 DEF Apart, x, y
  <2>3. count \in Nat /\ count # 0
    BY <1>5, <2>2, FS_CardinalityType, FS_EmptySet
  <2> QED
    BY <1>5, <2>1, <2>3, SumOfColours, OneAssumption
<1>10. Apply(k, copy, x, y, 0) = clamped_color(0 + IF count <= 0 THEN total ELSE total \div count)
  BY <1>7, <1>8, ApplySums
<1> HIDE DEF total, count
<1>11. total \div count \in 0 .. One
  BY <1>9, QuotientBounded
<1>12. 0 + (IF count <= 0 THEN total ELSE total \div count) = total \div count
  BY <1>9, <1>11
<1>13. Apply(k, copy, x, y, 0) = total \div count
  BY <1>9, <1>10, <1>11, <1>12, ClampedInGamut
<1> QED
  BY <1>13 DEF k, n, x, y, total, count

=============================================================================
