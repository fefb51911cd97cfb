-------------------------------- MODULE Sums --------------------------------
(***************************************************************************)
(* What the proofs need to know of SumFunctionOnSet, the community         *)
(* modules' sum of a function's values over a finite set: its defining     *)
(* equation, its type, and how it moves when an index or a value does.     *)
(* It is used wherever the code or a property sums amounts: the balances,  *)
(* the escrows, the encumbered deposits, the two sides of a                *)
(* reconciliation.                                                         *)
(*                                                                         *)
(* The sum is a recursive function on subsets, so the facts need induction *)
(* over a finite set.  SubsetInduction states it for a set of subsets, not *)
(* for a predicate, and follows from the well-foundedness of the strict    *)
(* subset ordering by way of a minimal counterexample.                     *)
(***************************************************************************)
EXTENDS Naturals, FiniteSetsExt, FiniteSetTheorems, TLAPS

\* A non-empty family of subsets of a finite set has a minimal member.
LEMMA MinimalSubset ==
  ASSUME NEW S, IsFiniteSet(S), NEW C \in SUBSET (SUBSET S), C # {}
  PROVE  \E m \in C : \A u \in C : u \subseteq m => u = m
  <1>1. IsWellFoundedOn(StrictSubsetOrdering(S), SUBSET S)
    BY FS_StrictSubsetOrderingWellFounded, FS_FiniteSubsetsOfFinite
  <1>2. PICK m \in C : \A u \in C : <<u, m>> \notin StrictSubsetOrdering(S)
    BY <1>1, WFMin
  <1> QED
    BY <1>2 DEF StrictSubsetOrdering

\* The recursion a sum unfolds: Pick is the element it takes next, and g sums f
\* over S when it gives the sum of f over every subset of S.
Pick(s) == CHOOSE x \in s : TRUE

SumStep(f, g, s) == IF s = {} THEN 0 ELSE f[Pick(s)] + g[s \ {Pick(s)}]
Sums(f, S, g) == g = [s \in SUBSET S |-> SumStep(f, g, s)]

\* Pick takes an element of a set that has one.
LEMMA PickIn == ASSUME NEW s, s # {} PROVE Pick(s) \in s
  BY DEF Pick

\* SumFunctionOnSet is the value at S of the function its recursion chooses.
LEMMA SumUnfolds ==
  ASSUME NEW f, NEW S
  PROVE  SumFunctionOnSet(f, S) = (CHOOSE g : Sums(f, S, g))[S]
  BY DEF SumFunctionOnSet, FoldFunctionOnSet, MapThenFoldSet, Sums, SumStep, Pick

\* The recursion has at most one solution on a finite set ...
LEMMA SumsUnique ==
  ASSUME NEW f, NEW S, IsFiniteSet(S), NEW g, NEW h, Sums(f, S, g), Sums(f, S, h)
  PROVE  g = h
  <1> DEFINE C == {s \in SUBSET S : g[s] # h[s]}
  <1>1. g = [s \in SUBSET S |-> g[s]] /\ h = [s \in SUBSET S |-> h[s]]
    BY DEF Sums
  <1>2. ASSUME C # {} PROVE FALSE
    <2>1. C \in SUBSET (SUBSET S)
      OBVIOUS
    <2>2. PICK m \in C : \A u \in C : u \subseteq m => u = m
      <3> HIDE DEF C
      <3> QED BY <1>2, <2>1, MinimalSubset
    <2>3. g[m] = SumStep(f, g, m) /\ h[m] = SumStep(f, h, m)
      BY <2>2 DEF Sums
    <2>4. m # {}
      BY <2>2, <2>3 DEF SumStep
    <2>5. Pick(m) \in m
      BY <2>4, PickIn
    <2>6. m \ {Pick(m)} \notin C /\ m \ {Pick(m)} \in SUBSET S
      BY <2>2, <2>5
    <2> QED
      BY <2>2, <2>3, <2>6 DEF SumStep
  <1>3. \A s \in SUBSET S : g[s] = h[s]
    BY <1>2
  <1> HIDE DEF C
  <1> QED
    BY <1>1, <1>3

\* ... a solution restricts to the subsets ...
LEMMA SumsRestrict ==
  ASSUME NEW f, NEW S, NEW T \in SUBSET S, NEW g, Sums(f, S, g),
         NEW h, h = [s \in SUBSET T |-> g[s]]
  PROVE  Sums(f, T, h)
  <1>1. ASSUME NEW s \in SUBSET T PROVE h[s] = SumStep(f, h, s)
    <2>1. g[s] = SumStep(f, g, s)
      BY DEF Sums
    <2> QED
      BY <2>1 DEF SumStep
  <1>2. h = [s \in SUBSET T |-> h[s]]
    OBVIOUS
  <1> QED
    BY <1>1, <1>2 DEF Sums

\* ... so the sum over a subset is the value there of any solution ...
LEMMA SumIsValue ==
  ASSUME NEW f, NEW S, IsFiniteSet(S), NEW g, Sums(f, S, g), NEW T \in SUBSET S
  PROVE  SumFunctionOnSet(f, T) = g[T]
  <1> DEFINE h == [s \in SUBSET T |-> g[s]]
             c == CHOOSE e : Sums(f, T, e)
  <1>1. Sums(f, T, h)
    <2> HIDE DEF c
    <2> QED BY SumsRestrict
  <1>2. Sums(f, T, c)
    BY <1>1
  <1>3. IsFiniteSet(T)
    BY FS_Subset
  <1>4. c = h
    <2> HIDE DEF c, h
    <2> QED BY <1>1, <1>2, <1>3, SumsUnique
  <1>5. SumFunctionOnSet(f, T) = c[T]
    BY SumUnfolds
  <1> QED
    BY <1>4, <1>5

\* ... and there is one: a least set without a solution would get one from its
\* strict subsets.
LEMMA SumExists ==
  ASSUME NEW f, NEW S, IsFiniteSet(S)
  PROVE  \E g : Sums(f, S, g)
  <1> DEFINE C == {s \in SUBSET S : ~ \E g : Sums(f, s, g)}
  <1>1. ASSUME C # {} PROVE FALSE
    <2>1. C \in SUBSET (SUBSET S)
      OBVIOUS
    <2>2. PICK m \in C : \A u \in C : u \subseteq m => u = m
      <3> HIDE DEF C
      <3> QED BY <1>1, <2>1, MinimalSubset
    <2> DEFINE G == [s \in SUBSET m |-> IF s = {} THEN 0
                       ELSE f[Pick(s)] + SumFunctionOnSet(f, s \ {Pick(s)})]
    <2>3. \A u \in SUBSET m : u # m => SumFunctionOnSet(f, u) = G[u]
      <3> SUFFICES ASSUME NEW u \in SUBSET m, u # m
                   PROVE  SumFunctionOnSet(f, u) = G[u]
        OBVIOUS
      <3>1. PICK g : Sums(f, u, g)
        BY <2>2
      <3>2. IsFiniteSet(u)
        BY FS_Subset
      <3>3. SumFunctionOnSet(f, u) = g[u] /\ g[u] = SumStep(f, g, u)
        BY <3>1, <3>2, SumIsValue DEF Sums
      <3>4. CASE u = {}
        BY <3>3, <3>4 DEF SumStep
      <3>5. CASE u # {}
        <4>1. g[u \ {Pick(u)}] = SumFunctionOnSet(f, u \ {Pick(u)})
          BY <3>1, <3>2, SumIsValue
        <4> QED
          BY <3>3, <3>5, <4>1 DEF SumStep
      <3> QED
        BY <3>4, <3>5
    <2>4. \A s \in SUBSET m : G[s] = SumStep(f, G, s)
      <3> SUFFICES ASSUME NEW s \in SUBSET m, s # {}
                   PROVE  G[s] = SumStep(f, G, s)
        BY DEF SumStep
      <3>1. Pick(s) \in s
        BY PickIn
      <3>2. SumFunctionOnSet(f, s \ {Pick(s)}) = G[s \ {Pick(s)}]
        BY <2>3, <3>1
      <3> QED
        BY <3>2 DEF SumStep
    <2>5. G = [s \in SUBSET m |-> G[s]]
      OBVIOUS
    <2>6. Sums(f, m, G)
      <3> HIDE DEF G
      <3> QED
        BY <2>4, <2>5 DEF Sums
    <2> QED
      BY <2>2, <2>6
  <1> QED
    BY <1>1

\* The defining equation of the sum.
LEMMA SumUnfold ==
  ASSUME NEW f, NEW S, IsFiniteSet(S)
  PROVE  SumFunctionOnSet(f, S) =
           IF S = {} THEN 0 ELSE f[Pick(S)] + SumFunctionOnSet(f, S \ {Pick(S)})
  <1>1. PICK g : Sums(f, S, g)
    BY SumExists
  <1>2. g[S] = SumStep(f, g, S)
    BY <1>1 DEF Sums
  <1>3. SumFunctionOnSet(f, S) = g[S] /\ SumFunctionOnSet(f, S \ {Pick(S)}) = g[S \ {Pick(S)}]
    BY <1>1, SumIsValue
  <1> QED
    BY <1>2, <1>3 DEF SumStep

-----------------------------------------------------------------------------
\* Induction over the subsets of a finite set: a family that has the empty set,
\* and a set whenever it has what is left without any one element, has the whole.
LEMMA SubsetInduction ==
  ASSUME NEW S, IsFiniteSet(S), NEW C, {} \in C,
         \A s \in SUBSET S : s # {} /\ (\A x \in s : s \ {x} \in C) => s \in C
  PROVE  S \in C
  <1> DEFINE B == {s \in SUBSET S : s \notin C}
  <1>1. B \in SUBSET (SUBSET S)
    OBVIOUS
  <1>2. ASSUME B # {} PROVE FALSE
    <2>1. PICK m \in B : \A u \in B : u \subseteq m => u = m
      <3> HIDE DEF B
      <3> QED BY <1>1, <1>2, MinimalSubset
    <2>2. m # {}
      OBVIOUS
    <2>3. \A x \in m : m \ {x} \in C
      BY <2>1
    <2> QED
      BY <2>2, <2>3
  <1> QED
    BY <1>2

\* Nothing sums to zero.
LEMMA SumEmpty ==
  ASSUME NEW f
  PROVE  SumFunctionOnSet(f, {}) = 0
  BY SumUnfold, FS_EmptySet

\* A sum of naturals is a natural.
LEMMA SumNat ==
  ASSUME NEW f, NEW S, IsFiniteSet(S), \A x \in S : f[x] \in Nat
  PROVE  SumFunctionOnSet(f, S) \in Nat
  <1> DEFINE C == {s \in SUBSET S : SumFunctionOnSet(f, s) \in Nat}
  <1>1. {} \in C
    BY SumEmpty
  <1>2. ASSUME NEW s \in SUBSET S, s # {}, \A x \in s : s \ {x} \in C
        PROVE  s \in C
    <2>1. IsFiniteSet(s) /\ Pick(s) \in s
      BY <1>2, FS_Subset, PickIn
    <2>2. SumFunctionOnSet(f, s) = f[Pick(s)] + SumFunctionOnSet(f, s \ {Pick(s)})
      BY <1>2, <2>1, SumUnfold
    <2> QED
      BY <1>2, <2>1, <2>2
  <1>3. S \in C
    <2> HIDE DEF C
    <2> QED BY <1>1, <1>2, SubsetInduction
  <1> QED
    BY <1>3

\* Any element can be taken out first, not only the one Pick chooses.
LEMMA SumRemove ==
  ASSUME NEW f, NEW S, IsFiniteSet(S), \A x \in S : f[x] \in Nat, NEW y \in S
  PROVE  SumFunctionOnSet(f, S) = f[y] + SumFunctionOnSet(f, S \ {y})
  <1> DEFINE Sum(s) == SumFunctionOnSet(f, s)
             C == {s \in SUBSET S : \A x \in s : Sum(s) = f[x] + Sum(s \ {x})}
  <1>0. ASSUME NEW s \in SUBSET S PROVE Sum(s) \in Nat /\ IsFiniteSet(s)
    BY SumNat, FS_Subset
  <1>1. {} \in C
    OBVIOUS
  <1>2. ASSUME NEW s \in SUBSET S, s # {}, \A x \in s : s \ {x} \in C
        PROVE  s \in C
    <2> DEFINE p == Pick(s)
    <2>1. p \in s
      BY <1>2, PickIn
    <2>2. Sum(s) = f[p] + Sum(s \ {p})
      BY <1>0, <1>2, SumUnfold
    <2>3. ASSUME NEW x \in s PROVE Sum(s) = f[x] + Sum(s \ {x})
      <3>1. CASE x = p
        BY <2>2, <3>1
      <3>2. CASE x # p
        <4>1. Sum(s \ {p}) = f[x] + Sum((s \ {p}) \ {x})
          BY <1>2, <2>1, <3>2
        <4>2. Sum(s \ {x}) = f[p] + Sum((s \ {x}) \ {p})
          BY <1>2, <2>1, <3>2
        <4>3. (s \ {p}) \ {x} = (s \ {x}) \ {p}
          OBVIOUS
        <4>4. f[x] \in Nat /\ f[p] \in Nat /\ Sum((s \ {x}) \ {p}) \in Nat
          BY <1>0, <2>1
        <4> HIDE DEF p, Sum
        <4> QED
          BY <2>2, <4>1, <4>2, <4>3, <4>4
      <3> QED
        BY <3>1, <3>2
    <2> QED
      BY <2>3
  <1>3. S \in C
    <2> HIDE DEF C
    <2> QED BY <1>1, <1>2, SubsetInduction
  <1> QED
    BY <1>3

\* A new index adds its value.
LEMMA SumAdd ==
  ASSUME NEW f, NEW S, IsFiniteSet(S), NEW y, y \notin S, \A x \in S \cup {y} : f[x] \in Nat
  PROVE  SumFunctionOnSet(f, S \cup {y}) = f[y] + SumFunctionOnSet(f, S)
  <1>1. IsFiniteSet(S \cup {y}) /\ (S \cup {y}) \ {y} = S
    BY FS_AddElement
  <1> QED
    BY <1>1, SumRemove

\* The sum depends on the values at the indices alone.
LEMMA SumAgree ==
  ASSUME NEW S, IsFiniteSet(S), NEW f, NEW g, \A x \in S : f[x] = g[x]
  PROVE  SumFunctionOnSet(f, S) = SumFunctionOnSet(g, S)
  <1> DEFINE C == {s \in SUBSET S : SumFunctionOnSet(f, s) = SumFunctionOnSet(g, s)}
  <1>1. {} \in C
    BY SumEmpty
  <1>2. ASSUME NEW s \in SUBSET S, s # {}, \A x \in s : s \ {x} \in C
        PROVE  s \in C
    <2>1. IsFiniteSet(s) /\ Pick(s) \in s
      BY <1>2, FS_Subset, PickIn
    <2>2. /\ SumFunctionOnSet(f, s) = f[Pick(s)] + SumFunctionOnSet(f, s \ {Pick(s)})
          /\ SumFunctionOnSet(g, s) = g[Pick(s)] + SumFunctionOnSet(g, s \ {Pick(s)})
      BY <1>2, <2>1, SumUnfold
    <2> QED
      BY <1>2, <2>1, <2>2
  <1>3. S \in C
    <2> HIDE DEF C
    <2> QED BY <1>1, <1>2, SubsetInduction
  <1> QED
    BY <1>3

\* Zeros sum to zero.
LEMMA SumZero ==
  ASSUME NEW f, NEW S, IsFiniteSet(S), \A x \in S : f[x] = 0
  PROVE  SumFunctionOnSet(f, S) = 0
  <1> DEFINE C == {s \in SUBSET S : SumFunctionOnSet(f, s) = 0}
  <1>1. {} \in C
    BY SumEmpty
  <1>2. ASSUME NEW s \in SUBSET S, s # {}, \A x \in s : s \ {x} \in C
        PROVE  s \in C
    <2>1. IsFiniteSet(s) /\ Pick(s) \in s
      BY <1>2, FS_Subset, PickIn
    <2>2. SumFunctionOnSet(f, s) = f[Pick(s)] + SumFunctionOnSet(f, s \ {Pick(s)})
      BY <1>2, <2>1, SumUnfold
    <2> QED
      BY <1>2, <2>1, <2>2
  <1>3. S \in C
    <2> HIDE DEF C
    <2> QED BY <1>1, <1>2, SubsetInduction
  <1> QED
    BY <1>3

\* A change at one index moves the sum by the change.
LEMMA SumUpdate ==
  ASSUME NEW S, IsFiniteSet(S), NEW y \in S, NEW f, NEW g,
         \A x \in S : f[x] \in Nat, g[y] \in Nat, \A x \in S \ {y} : g[x] = f[x]
  PROVE  SumFunctionOnSet(g, S) + f[y] = SumFunctionOnSet(f, S) + g[y]
  <1>1. IsFiniteSet(S \ {y})
    BY FS_Subset
  <1>2. SumFunctionOnSet(g, S \ {y}) = SumFunctionOnSet(f, S \ {y})
    BY <1>1, SumAgree
  <1>3. SumFunctionOnSet(f, S) = f[y] + SumFunctionOnSet(f, S \ {y})
    BY SumRemove
  <1>4. SumFunctionOnSet(g, S) = g[y] + SumFunctionOnSet(g, S \ {y})
    BY SumRemove
  <1>5. SumFunctionOnSet(f, S \ {y}) \in Nat
    BY <1>1, SumNat
  <1> QED
    BY <1>2, <1>3, <1>4, <1>5

\* Larger values, larger sum.
LEMMA SumMonotone ==
  ASSUME NEW S, IsFiniteSet(S), NEW f, NEW g, \A x \in S : f[x] \in Nat /\ g[x] \in Nat,
         \A x \in S : f[x] <= g[x]
  PROVE  SumFunctionOnSet(f, S) <= SumFunctionOnSet(g, S)
  <1> DEFINE C == {s \in SUBSET S : SumFunctionOnSet(f, s) <= SumFunctionOnSet(g, s)}
  <1>1. {} \in C
    BY SumEmpty
  <1>2. ASSUME NEW s \in SUBSET S, s # {}, \A x \in s : s \ {x} \in C
        PROVE  s \in C
    <2>1. IsFiniteSet(s) /\ Pick(s) \in s /\ IsFiniteSet(s \ {Pick(s)})
      BY <1>2, FS_Subset, PickIn
    <2>2. /\ SumFunctionOnSet(f, s) = f[Pick(s)] + SumFunctionOnSet(f, s \ {Pick(s)})
          /\ SumFunctionOnSet(g, s) = g[Pick(s)] + SumFunctionOnSet(g, s \ {Pick(s)})
      BY <1>2, <2>1, SumUnfold
    <2>3. /\ SumFunctionOnSet(f, s \ {Pick(s)}) \in Nat
          /\ SumFunctionOnSet(g, s \ {Pick(s)}) \in Nat
      BY <2>1, SumNat
    <2> QED
      BY <1>2, <2>1, <2>2, <2>3
  <1>3. S \in C
    <2> HIDE DEF C
    <2> QED BY <1>1, <1>2, SubsetInduction
  <1> QED
    BY <1>3

\* A sum over a set is the sum over a part and the sum over the rest.
LEMMA SumSplit ==
  ASSUME NEW S, IsFiniteSet(S), NEW T \in SUBSET S, NEW f, \A x \in S : f[x] \in Nat
  PROVE  SumFunctionOnSet(f, S) = SumFunctionOnSet(f, T) + SumFunctionOnSet(f, S \ T)
  <1> DEFINE Sum(s) == SumFunctionOnSet(f, s)
             C == {s \in SUBSET T : Sum(s \cup (S \ T)) = Sum(s) + Sum(S \ T)}
  <1>0. ASSUME NEW s \in SUBSET S PROVE Sum(s) \in Nat /\ IsFiniteSet(s)
    BY SumNat, FS_Subset
  <1>1. {} \in C
    <2>1. Sum({}) = 0 /\ {} \cup (S \ T) = S \ T
      BY SumEmpty
    <2> QED
      BY <1>0, <2>1
  <1>2. ASSUME NEW s \in SUBSET T, s # {}, \A x \in s : s \ {x} \in C
        PROVE  s \in C
    <2>1. PICK p \in s : TRUE
      BY <1>2
    <2>2. Sum(s) = f[p] + Sum(s \ {p})
      BY <1>0, SumRemove
    <2>3. Sum(s \cup (S \ T)) = f[p] + Sum((s \cup (S \ T)) \ {p})
      BY <1>0, SumRemove
    <2>4. (s \cup (S \ T)) \ {p} = (s \ {p}) \cup (S \ T)
      OBVIOUS
    <2>5. Sum((s \ {p}) \cup (S \ T)) = Sum(s \ {p}) + Sum(S \ T)
      BY <1>2
    <2>6. f[p] \in Nat /\ Sum(s \ {p}) \in Nat /\ Sum(S \ T) \in Nat
      BY <1>0
    <2>7. Sum(s \cup (S \ T)) = Sum(s) + Sum(S \ T)
      <3> HIDE DEF Sum
      <3> QED BY <2>2, <2>3, <2>4, <2>5, <2>6
    <2> QED
      BY <2>7
  <1>3. T \in C
    <2>1. IsFiniteSet(T)
      BY FS_Subset
    <2> HIDE DEF C
    <2> QED BY <1>1, <1>2, <2>1, SubsetInduction
  <1>4. T \cup (S \ T) = S
    OBVIOUS
  <1> QED
    BY <1>3, <1>4

\* A sum over more indices, with the same values where there were any, is no less.
LEMMA SumGrows ==
  ASSUME NEW T, IsFiniteSet(T), NEW S \in SUBSET T, NEW f, NEW g,
         \A x \in T : g[x] \in Nat, \A x \in S : f[x] = g[x]
  PROVE  SumFunctionOnSet(f, S) <= SumFunctionOnSet(g, T)
  <1>1. IsFiniteSet(S) /\ IsFiniteSet(T \ S)
    BY FS_Subset
  <1>2. SumFunctionOnSet(f, S) = SumFunctionOnSet(g, S)
    BY <1>1, SumAgree
  <1>3. SumFunctionOnSet(g, S) \in Nat /\ SumFunctionOnSet(g, T \ S) \in Nat
    BY <1>1, SumNat
  <1> QED
    BY <1>2, <1>3, SumSplit

\* An index that comes with its value, the others' values being as they were.
LEMMA SumInsert ==
  ASSUME NEW S, IsFiniteSet(S), NEW y, y \notin S, NEW f, NEW g,
         \A x \in S : f[x] = g[x], \A x \in S \cup {y} : g[x] \in Nat
  PROVE  SumFunctionOnSet(g, S \cup {y}) = g[y] + SumFunctionOnSet(f, S)
  <1>1. SumFunctionOnSet(f, S) = SumFunctionOnSet(g, S)
    BY SumAgree
  <1> QED
    BY <1>1, SumAdd

\* An index that leaves with its value, the others' values being as they were.
LEMMA SumDelete ==
  ASSUME NEW S, IsFiniteSet(S), NEW y \in S, NEW f, NEW g,
         \A x \in S : f[x] \in Nat, \A x \in S \ {y} : g[x] = f[x]
  PROVE  SumFunctionOnSet(f, S) = f[y] + SumFunctionOnSet(g, S \ {y})
  <1>1. IsFiniteSet(S \ {y})
    BY FS_Subset
  <1>2. SumFunctionOnSet(f, S \ {y}) = SumFunctionOnSet(g, S \ {y})
    BY <1>1, SumAgree
  <1> QED
    BY <1>2, SumRemove
=============================================================================
