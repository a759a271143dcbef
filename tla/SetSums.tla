------------------------------ MODULE SetSums ------------------------------
(***************************************************************************)
(* Facts about the sum of a function over a finite set, the operator       *)
(* SumFunctionOnSet of module Functions: its recursion equation, in any    *)
(* order, and what one changed value does to it.                           *)
(*                                                                         *)
(* Induction over the subsets of a finite set is done on sets: a property  *)
(* that fails somewhere fails at a minimal subset.                         *)
(***************************************************************************)
EXTENDS Functions, FiniteSetTheorems, TLAPS

\* Among subsets of a finite set, one is minimal.
LEMMA MinimalSubset ==
  ASSUME NEW S, IsFiniteSet(S), NEW B \in SUBSET SUBSET S, B # {}
  PROVE  \E s \in B : \A t \in B : t \subseteq s => t = s
<1>1. FiniteSubsetsOf(S) = SUBSET S
  BY FS_FiniteSubsetsOfFinite
<1>2. IsWellFoundedOn(StrictSubsetOrdering(S), SUBSET S)
  BY <1>1, FS_StrictSubsetOrderingWellFounded
<1>3. PICK s \in B : \A t \in B : <<t, s>> \notin StrictSubsetOrdering(S)
  BY <1>2, WFMin
<1>4. \A t \in B : t \subseteq s /\ t # s => <<t, s>> \in StrictSubsetOrdering(S)
  BY DEF StrictSubsetOrdering
<1>5. \A t \in B : t \subseteq s => t = s
  BY <1>3, <1>4
<1> QED
  BY <1>5

----------------------------------------------------------------------------
(* The function that SumFunctionOnSet is defined by exists and is unique.    *)

Pick(s) == CHOOSE x \in s : TRUE

Sums(g, f, S) ==
    g = [s \in SUBSET S |-> IF s = {} THEN 0 ELSE f[Pick(s)] + g[s \ {Pick(s)}]]

LEMMA PickIn == ASSUME NEW s, s # {} PROVE Pick(s) \in s
BY DEF Pick

LEMMA SumIsChosen ==
  ASSUME NEW f, NEW S
  PROVE  SumFunctionOnSet(f, S) = (CHOOSE g : Sums(g, f, S))[S]
BY DEF SumFunctionOnSet, FoldFunctionOnSet, MapThenFoldSet, Sums, Pick

\* Two such functions agree where both are defined.
LEMMA SumsAgree ==
  ASSUME NEW f, NEW S, NEW T, IsFiniteSet(S), NEW g, NEW h, Sums(g, f, S), Sums(h, f, T)
  PROVE  \A s \in SUBSET (S \cap T) : g[s] = h[s]
<1> DEFINE B == {s \in SUBSET (S \cap T) : g[s] # h[s]}
<1> SUFFICES ASSUME B # {} PROVE FALSE
  OBVIOUS
<1>1. B \in SUBSET SUBSET S
  OBVIOUS
<1>2. \E s \in B : \A t \in B : t \subseteq s => t = s
  <2> HIDE DEF B
  <2> QED
    BY <1>1, MinimalSubset
<1> PICK s \in B : \A t \in B : t \subseteq s => t = s
  BY <1>2
<1>3. s \in SUBSET S /\ s \in SUBSET T /\ s \in SUBSET (S \cap T)
  OBVIOUS
<1>4. CASE s = {}
  BY <1>3, <1>4 DEF Sums
<1>5. CASE s # {}
  <2>1. Pick(s) \in s
    BY <1>5, PickIn
  <2>2. s \ {Pick(s)} \subseteq s /\ s \ {Pick(s)} # s /\ s \ {Pick(s)} \in SUBSET (S \cap T)
    BY <2>1, <1>3
  <2>3. g[s \ {Pick(s)}] = h[s \ {Pick(s)}]
    BY <2>2
  <2>4. g[s] = f[Pick(s)] + g[s \ {Pick(s)}]
    BY <1>3, <1>5 DEF Sums
  <2>5. h[s] = f[Pick(s)] + h[s \ {Pick(s)}]
    BY <1>3, <1>5 DEF Sums
  <2> QED
    BY <2>3, <2>4, <2>5
<1> QED
  BY <1>4, <1>5

\* The restriction of such a function is such a function.
LEMMA SumsRestrict ==
  ASSUME NEW f, NEW S, NEW T \in SUBSET S, NEW g, Sums(g, f, S)
  PROVE  Sums([s \in SUBSET T |-> g[s]], f, T)
<1>1. \A s \in SUBSET T : s \in SUBSET S /\ s \ {Pick(s)} \in SUBSET T
  OBVIOUS
<1>2. \A s \in SUBSET T : g[s] = IF s = {} THEN 0 ELSE f[Pick(s)] + g[s \ {Pick(s)}]
  BY <1>1 DEF Sums
<1> DEFINE h == [s \in SUBSET T |-> g[s]]
<1>3. \A s \in SUBSET T : h[s] = g[s] /\ h[s \ {Pick(s)}] = g[s \ {Pick(s)}]
  BY <1>1
<1>4. h = [s \in SUBSET T |-> IF s = {} THEN 0 ELSE f[Pick(s)] + h[s \ {Pick(s)}]]
  BY <1>2, <1>3
<1> QED
  BY <1>4 DEF Sums

\* Such a function exists for every finite set.
LEMMA SumsExist ==
  ASSUME NEW f, NEW S, IsFiniteSet(S)
  PROVE  \E g : Sums(g, f, S)
<1> DEFINE B == {T \in SUBSET S : ~ \E g : Sums(g, f, T)}
<1> SUFFICES ASSUME B # {} PROVE FALSE
  OBVIOUS
<1>1. B \in SUBSET SUBSET S
  OBVIOUS
<1>2. \E T \in B : \A t \in B : t \subseteq T => t = T
  <2> HIDE DEF B
  <2> QED
    BY <1>1, MinimalSubset
<1> PICK T \in B : \A t \in B : t \subseteq T => t = T
  BY <1>2
<1>3. T \in SUBSET S
  OBVIOUS
<1>4. \A t \in SUBSET T : t # T => \E g : Sums(g, f, t)
  OBVIOUS
<1> DEFINE val(t) == (CHOOSE g : Sums(g, f, t))[t]
           G == [s \in SUBSET T |-> IF s = {} THEN 0 ELSE f[Pick(s)] + val(s \ {Pick(s)})]
<1>5. \A t \in SUBSET T : t # T => Sums(CHOOSE g : Sums(g, f, t), f, t)
  BY <1>4
<1>6. ASSUME NEW s \in SUBSET T, s # T PROVE G[s] = val(s)
  <2> DEFINE g == CHOOSE h : Sums(h, f, s)
  <2>1. Sums(g, f, s)
    BY <1>5, <1>6
  <2>2. s \in SUBSET s
    OBVIOUS
  <2>3. CASE s = {}
    BY <2>1, <2>2, <2>3 DEF Sums
  <2>4. CASE s # {}
    <3> DEFINE t == s \ {Pick(s)}
    <3>1. Pick(s) \in s
      BY <2>4, PickIn
    <3>2. t \in SUBSET s /\ t \in SUBSET T /\ t # T /\ t \in SUBSET (t \cap s)
      BY <3>1
    <3>3. IsFiniteSet(t)
      BY <3>2, <1>3, FS_Subset
    <3>4. Sums(CHOOSE h : Sums(h, f, t), f, t)
      BY <3>2, <1>5
    <3>5. val(t) = g[t]
      BY <3>2, <3>3, <3>4, <2>1, SumsAgree
    <3>6. g[s] = f[Pick(s)] + g[t]
      BY <2>1, <2>2, <2>4 DEF Sums
    <3>7. G[s] = f[Pick(s)] + val(t)
      BY <2>4
    <3> QED
      BY <3>5, <3>6, <3>7
  <2> QED
    BY <2>3, <2>4
<1>7. \A s \in SUBSET T : s # {} => G[s \ {Pick(s)}] = val(s \ {Pick(s)})
  <2> TAKE s \in SUBSET T
  <2> HAVE s # {}
  <2>1. s \ {Pick(s)} \in SUBSET T /\ s \ {Pick(s)} # T
    BY PickIn
  <2> QED
    BY <2>1, <1>6
<1>8. G = [s \in SUBSET T |-> IF s = {} THEN 0 ELSE f[Pick(s)] + G[s \ {Pick(s)}]]
  <2> DEFINE H == [s \in SUBSET T |-> IF s = {} THEN 0 ELSE f[Pick(s)] + G[s \ {Pick(s)}]]
  <2>1. \A s \in SUBSET T : G[s] = IF s = {} THEN 0 ELSE f[Pick(s)] + G[s \ {Pick(s)}]
    <3>1. \A s \in SUBSET T : G[s] = IF s = {} THEN 0 ELSE f[Pick(s)] + val(s \ {Pick(s)})
      OBVIOUS
    <3> HIDE DEF val, G
    <3> QED
      BY <1>7, <3>1
  <2>2. \A s \in SUBSET T : G[s] = H[s]
    <3> HIDE DEF val, G
    <3> QED
      BY <2>1
  <2>3. DOMAIN G = SUBSET T /\ DOMAIN H = SUBSET T
    OBVIOUS
  <2>4. G = [s \in SUBSET T |-> G[s]] /\ H = [s \in SUBSET T |-> H[s]]
    OBVIOUS
  <2>5. G = H
    <3> HIDE DEF G, H
    <3> QED
      BY <2>2, <2>4
  <2> QED
    BY <2>5
<1>9. Sums(G, f, T)
  BY <1>8 DEF Sums
<1> QED
  BY <1>9

----------------------------------------------------------------------------
(* Sums.                                                                    *)

\* The recursion equation: one element, and the sum over the others.
LEMMA SumStep ==
  ASSUME NEW f, NEW S, IsFiniteSet(S)
  PROVE  /\ S = {} => SumFunctionOnSet(f, S) = 0
         /\ S # {} => SumFunctionOnSet(f, S) = f[Pick(S)] + SumFunctionOnSet(f, S \ {Pick(S)})
<1> DEFINE T == S \ {Pick(S)}
           g == CHOOSE h : Sums(h, f, S)
           k == CHOOSE h : Sums(h, f, T)
<1>1. T \in SUBSET S /\ S \in SUBSET S /\ T \in SUBSET (S \cap T)
  OBVIOUS
<1>2. IsFiniteSet(T)
  BY <1>1, FS_Subset
<1>3. Sums(g, f, S)
  BY SumsExist
<1>4. Sums(k, f, T)
  BY <1>2, SumsExist
<1>5. SumFunctionOnSet(f, S) = g[S] /\ SumFunctionOnSet(f, T) = k[T]
  BY SumIsChosen
<1> HIDE DEF g, k
<1>6. g[T] = k[T]
  <2> HIDE DEF T
  <2> QED
    BY <1>1, <1>3, <1>4, SumsAgree
<1>7. g[S] = IF S = {} THEN 0 ELSE f[Pick(S)] + g[T]
  BY <1>1, <1>3 DEF Sums
<1> QED
  BY <1>5, <1>6, <1>7

\* A sum of integers is an integer, one of naturals a natural number.
LEMMA SumType ==
  ASSUME NEW f, NEW S, IsFiniteSet(S)
  PROVE  /\ (\A x \in S : f[x] \in Int) => SumFunctionOnSet(f, S) \in Int
         /\ (\A x \in S : f[x] \in Nat) => SumFunctionOnSet(f, S) \in Nat
<1>1. ASSUME NEW N \in {Int, Nat}, \A x \in S : f[x] \in N PROVE SumFunctionOnSet(f, S) \in N
  <2> DEFINE B == {s \in SUBSET S : SumFunctionOnSet(f, s) \notin N}
  <2>1. ASSUME B # {} PROVE FALSE
    <3>1. \E s \in B : \A t \in B : t \subseteq s => t = s
      <4>1. B \in SUBSET SUBSET S
        OBVIOUS
      <4> HIDE DEF B
      <4> QED
        BY <2>1, <4>1, MinimalSubset
    <3> PICK s \in B : \A t \in B : t \subseteq s => t = s
      BY <3>1
    <3>2. IsFiniteSet(s)
      BY FS_Subset
    <3>3. s # {}
      BY <3>2, <1>1, SumStep, 0 \in Nat, 0 \in Int
    <3> DEFINE x == Pick(s)
    <3>4. x \in s
      BY <3>3, PickIn
    <3>5. SumFunctionOnSet(f, s \ {x}) \in N
      BY <3>4
    <3>6. f[x] \in N
      BY <3>4, <1>1
    <3>7. SumFunctionOnSet(f, s) = f[x] + SumFunctionOnSet(f, s \ {x})
      BY <3>2, <3>3, SumStep
    <3>8. SumFunctionOnSet(f, s) \notin N
      OBVIOUS
    <3> HIDE DEF x
    <3> QED
      BY <3>5, <3>6, <3>7, <3>8
  <2> QED
    BY <2>1
<1> QED
  BY <1>1

\* The sum depends on the values of the function on the set only.
LEMMA SumSame ==
  ASSUME NEW f, NEW g, NEW S, IsFiniteSet(S), \A x \in S : f[x] = g[x]
  PROVE  SumFunctionOnSet(f, S) = SumFunctionOnSet(g, S)
<1> DEFINE B == {s \in SUBSET S : SumFunctionOnSet(f, s) # SumFunctionOnSet(g, s)}
<1>1. ASSUME B # {} PROVE FALSE
  <2>1. \E s \in B : \A t \in B : t \subseteq s => t = s
    <3>1. B \in SUBSET SUBSET S
      OBVIOUS
    <3> HIDE DEF B
    <3> QED
      BY <1>1, <3>1, MinimalSubset
  <2> PICK s \in B : \A t \in B : t \subseteq s => t = s
    BY <2>1
  <2>2. IsFiniteSet(s)
    BY FS_Subset
  <2>3. s # {}
    BY <2>2, SumStep
  <2> DEFINE x == Pick(s)
  <2>4. x \in s
    BY <2>3, PickIn
  <2>5. SumFunctionOnSet(f, s \ {x}) = SumFunctionOnSet(g, s \ {x})
    BY <2>4
  <2>6. f[x] = g[x]
    BY <2>4
  <2>7. /\ SumFunctionOnSet(f, s) = f[x] + SumFunctionOnSet(f, s \ {x})
        /\ SumFunctionOnSet(g, s) = g[x] + SumFunctionOnSet(g, s \ {x})
    BY <2>2, <2>3, SumStep
  <2> QED
    BY <2>5, <2>6, <2>7
<1> QED
  BY <1>1

\* The recursion equation holds for every element of the set.
LEMMA SumRemove ==
  ASSUME NEW f, NEW S, IsFiniteSet(S), \A x \in S : f[x] \in Int, NEW x \in S
  PROVE  SumFunctionOnSet(f, S) = f[x] + SumFunctionOnSet(f, S \ {x})
<1> DEFINE Adds(s, z) == SumFunctionOnSet(f, s) = f[z] + SumFunctionOnSet(f, s \ {z})
           B == {s \in SUBSET S : \E z \in s : ~Adds(s, z)}
<1>1. ASSUME B # {} PROVE FALSE
  <2>1. \E s \in B : \A t \in B : t \subseteq s => t = s
    <3>1. B \in SUBSET SUBSET S
      OBVIOUS
    <3> HIDE DEF B
    <3> QED
      BY <1>1, <3>1, MinimalSubset
  <2> PICK s \in B : \A t \in B : t \subseteq s => t = s
    BY <2>1
  <2>2. PICK z \in s : ~Adds(s, z)
    OBVIOUS
  <2>3. \A t \in SUBSET s : t # s => \A u \in t : Adds(t, u)
    OBVIOUS
  <2> DEFINE y == Pick(s)
             rest == (s \ {y}) \ {z}
  <2>4. y \in s
    BY <2>2, PickIn
  <2>5. /\ IsFiniteSet(s) /\ IsFiniteSet(rest)
        /\ f[y] \in Int /\ f[z] \in Int
        /\ \A u \in rest : f[u] \in Int
    BY <2>2, <2>4, FS_Subset
  <2>6. Adds(s, y)
    BY <2>2, <2>5, SumStep
  <2>7. y # z
    BY <2>2, <2>6
  <2>8. SumFunctionOnSet(f, s \ {y}) = f[z] + SumFunctionOnSet(f, rest)
    <3>1. s \ {y} \in SUBSET s /\ s \ {y} # s /\ z \in s \ {y}
      BY <2>4, <2>7
    <3> HIDE DEF y
    <3> QED
      BY <3>1, <2>3
  <2>9. SumFunctionOnSet(f, s \ {z}) = f[y] + SumFunctionOnSet(f, rest)
    <3>1. s \ {z} \in SUBSET s /\ s \ {z} # s /\ y \in s \ {z}
      BY <2>4, <2>7
    <3>2. rest = (s \ {z}) \ {y}
      OBVIOUS
    <3> HIDE DEF y, rest
    <3> QED
      BY <3>1, <3>2, <2>3
  <2>10. SumFunctionOnSet(f, rest) \in Int
    BY <2>5, SumType
  <2> HIDE DEF rest, y
  <2> QED
    BY <2>2, <2>5, <2>6, <2>8, <2>9, <2>10
<1> QED
  BY <1>1

\* What one changed value does to a sum.
LEMMA SumChange ==
  ASSUME NEW f, NEW g, NEW S, IsFiniteSet(S),
         \A x \in S : f[x] \in Int /\ g[x] \in Int,
         NEW x \in S, \A y \in S \ {x} : f[y] = g[y]
  PROVE  SumFunctionOnSet(g, S) = SumFunctionOnSet(f, S) - f[x] + g[x]
<1>1. IsFiniteSet(S \ {x})
  BY FS_Subset
<1>2. SumFunctionOnSet(f, S \ {x}) = SumFunctionOnSet(g, S \ {x})
  BY <1>1, SumSame
<1>3. SumFunctionOnSet(f, S \ {x}) \in Int
  BY <1>1, SumType
<1>4. SumFunctionOnSet(f, S) = f[x] + SumFunctionOnSet(f, S \ {x})
  BY SumRemove
<1>5. SumFunctionOnSet(g, S) = g[x] + SumFunctionOnSet(g, S \ {x})
  BY SumRemove
<1> QED
  BY <1>2, <1>3, <1>4, <1>5

\* A sum of zeros is zero.
LEMMA SumZero ==
  ASSUME NEW f, NEW S, IsFiniteSet(S), \A x \in S : f[x] = 0
  PROVE  SumFunctionOnSet(f, S) = 0
<1> DEFINE B == {s \in SUBSET S : SumFunctionOnSet(f, s) # 0}
<1>1. ASSUME B # {} PROVE FALSE
  <2>1. \E s \in B : \A t \in B : t \subseteq s => t = s
    <3>1. B \in SUBSET SUBSET S
      OBVIOUS
    <3> HIDE DEF B
    <3> QED
      BY <1>1, <3>1, MinimalSubset
  <2> PICK s \in B : \A t \in B : t \subseteq s => t = s
    BY <2>1
  <2>2. IsFiniteSet(s)
    BY FS_Subset
  <2>3. s # {}
    BY <2>2, SumStep
  <2> DEFINE x == Pick(s)
  <2>4. x \in s
    BY <2>3, PickIn
  <2>5. SumFunctionOnSet(f, s \ {x}) = 0 /\ f[x] = 0
    BY <2>4
  <2>6. SumFunctionOnSet(f, s) = f[x] + SumFunctionOnSet(f, s \ {x})
    BY <2>2, <2>3, SumStep
  <2> QED
    BY <2>5, <2>6
<1> QED
  BY <1>1
----------------------------------------------------------------------------
(* Sums of sums.                                                             *)

\* What holds for the empty set and stays true with each element that is added holds
\* for a finite set.  G is the set of the subsets that it holds for.
LEMMA SubsetInduction ==
  ASSUME NEW S, IsFiniteSet(S), NEW G, {} \in G,
         \A s \in SUBSET S : s # {} /\ (\A x \in s : s \ {x} \in G) => s \in G
  PROVE  S \in G
<1> DEFINE B == {s \in SUBSET S : s \notin G}
<1>1. ASSUME B # {} PROVE FALSE
  <2>1. \E s \in B : \A t \in B : t \subseteq s => t = s
    <3>1. B \in SUBSET SUBSET S
      OBVIOUS
    <3> HIDE DEF B
    <3> QED
      BY <1>1, <3>1, MinimalSubset
  <2> PICK s \in B : \A t \in B : t \subseteq s => t = s
    BY <2>1
  <2>2. \A x \in s : s \ {x} \notin B
    OBVIOUS
  <2>3. \A x \in s : s \ {x} \in G
    BY <2>2
  <2> QED
    BY <2>3
<1> QED
  BY <1>1

\* The sum of the sums.
LEMMA SumPlus ==
  ASSUME NEW f, NEW g, NEW h, NEW S, IsFiniteSet(S),
         \A x \in S : f[x] \in Int /\ g[x] \in Int /\ h[x] = f[x] + g[x]
  PROVE  SumFunctionOnSet(h, S) = SumFunctionOnSet(f, S) + SumFunctionOnSet(g, S)
<1> DEFINE Adds(s) == SumFunctionOnSet(h, s) = SumFunctionOnSet(f, s) + SumFunctionOnSet(g, s)
           G == {s \in SUBSET S : Adds(s)}
<1>1. {} \in G
  <2>1. IsFiniteSet({})
    BY FS_EmptySet
  <2>2. \A k \in {f, g, h} : SumFunctionOnSet(k, {}) = 0
    BY <2>1, SumStep
  <2> QED
    BY <2>2
<1>2. ASSUME NEW s \in SUBSET S, NEW x \in s, s \ {x} \in G PROVE s \in G
  <2>1. IsFiniteSet(s) /\ IsFiniteSet(s \ {x})
    BY FS_Subset
  <2>2. \A y \in s : f[y] \in Int /\ g[y] \in Int /\ h[y] \in Int
    OBVIOUS
  <2>3. /\ SumFunctionOnSet(f, s) = f[x] + SumFunctionOnSet(f, s \ {x})
        /\ SumFunctionOnSet(g, s) = g[x] + SumFunctionOnSet(g, s \ {x})
        /\ SumFunctionOnSet(h, s) = h[x] + SumFunctionOnSet(h, s \ {x})
    BY <2>1, <2>2, SumRemove
  <2>4. SumFunctionOnSet(f, s \ {x}) \in Int /\ SumFunctionOnSet(g, s \ {x}) \in Int
    BY <2>1, <2>2, SumType
  <2>5. Adds(s \ {x})
    BY <1>2
  <2> QED
    BY <2>3, <2>4, <2>5
<1>3. S \in G
  <2> HIDE DEF G
  <2>1. \A s \in SUBSET S : s # {} /\ (\A x \in s : s \ {x} \in G) => s \in G
    BY <1>2
  <2> QED
    BY <1>1, <2>1, SubsetInduction
<1> QED
  BY <1>3

\* The sum of the smaller values is the smaller.
LEMMA SumLE ==
  ASSUME NEW f, NEW g, NEW S, IsFiniteSet(S),
         \A x \in S : f[x] \in Int /\ g[x] \in Int /\ f[x] <= g[x]
  PROVE  SumFunctionOnSet(f, S) <= SumFunctionOnSet(g, S)
<1> DEFINE d == [x \in S |-> g[x] - f[x]]
<1>1. \A x \in S : f[x] \in Int /\ d[x] \in Int /\ d[x] \in Nat /\ g[x] = f[x] + d[x]
  OBVIOUS
<1> HIDE DEF d
<1>2. SumFunctionOnSet(g, S) = SumFunctionOnSet(f, S) + SumFunctionOnSet(d, S)
  BY <1>1, SumPlus
<1>3. SumFunctionOnSet(f, S) \in Int /\ SumFunctionOnSet(d, S) \in Nat
  BY <1>1, SumType
<1> QED
  BY <1>2, <1>3

\* Ones count.
LEMMA SumOnes ==
  ASSUME NEW f, NEW S, IsFiniteSet(S), \A x \in S : f[x] = 1
  PROVE  SumFunctionOnSet(f, S) = Cardinality(S)
<1> DEFINE G == {s \in SUBSET S : SumFunctionOnSet(f, s) = Cardinality(s)}
<1>1. {} \in G
  <2>1. IsFiniteSet({}) /\ Cardinality({}) = 0
    BY FS_EmptySet
  <2>2. SumFunctionOnSet(f, {}) = 0
    BY <2>1, SumStep
  <2> QED
    BY <2>1, <2>2
<1>2. ASSUME NEW s \in SUBSET S, NEW x \in s, s \ {x} \in G PROVE s \in G
  <2>1. IsFiniteSet(s) /\ Cardinality(s) \in Nat
    BY FS_Subset, FS_CardinalityType
  <2>2. Cardinality(s \ {x}) = Cardinality(s) - 1
    BY <2>1, FS_RemoveElement
  <2>3. SumFunctionOnSet(f, s) = 1 + SumFunctionOnSet(f, s \ {x})
    BY <2>1, SumRemove
  <2> QED
    BY <1>2, <2>1, <2>2, <2>3
<1>3. S \in G
  <2> HIDE DEF G
  <2>1. \A s \in SUBSET S : s # {} /\ (\A x \in s : s \ {x} \in G) => s \in G
    BY <1>2
  <2> QED
    BY <1>1, <2>1, SubsetInduction
<1> QED
  BY <1>3

\* A common factor.
LEMMA SumScale ==
  ASSUME NEW f, NEW h, NEW c \in Int, NEW S, IsFiniteSet(S),
         \A x \in S : f[x] \in Int /\ h[x] = c * f[x]
  PROVE  SumFunctionOnSet(h, S) = c * SumFunctionOnSet(f, S)
<1> DEFINE Scales(s) == SumFunctionOnSet(h, s) = c * SumFunctionOnSet(f, s)
           G == {s \in SUBSET S : Scales(s)}
<1>1. {} \in G
  <2>1. IsFiniteSet({})
    BY FS_EmptySet
  <2>2. \A k \in {f, h} : SumFunctionOnSet(k, {}) = 0
    BY <2>1, SumStep
  <2> QED
    BY <2>2
<1>2. ASSUME NEW s \in SUBSET S, NEW x \in s, s \ {x} \in G PROVE s \in G
  <2>1. IsFiniteSet(s) /\ IsFiniteSet(s \ {x})
    BY FS_Subset
  <2>2. \A y \in s : f[y] \in Int /\ h[y] \in Int /\ h[y] = c * f[y]
    OBVIOUS
  <2>3. /\ SumFunctionOnSet(f, s) = f[x] + SumFunctionOnSet(f, s \ {x})
        /\ SumFunctionOnSet(h, s) = h[x] + SumFunctionOnSet(h, s \ {x})
    BY <2>1, <2>2, SumRemove
  <2>4. SumFunctionOnSet(f, s \ {x}) \in Int
    BY <2>1, <2>2, SumType
  <2>5. Scales(s \ {x})
    BY <1>2
  <2>6. \A a, b \in Int : c * (a + b) = c * a + c * b
    OBVIOUS
  <2>7. c * (f[x] + SumFunctionOnSet(f, s \ {x})) = c * f[x] + c * SumFunctionOnSet(f, s \ {x})
    BY <2>2, <2>4, <2>6
  <2>8. SumFunctionOnSet(h, s) = c * SumFunctionOnSet(f, s)
    BY <2>2, <2>3, <2>5, <2>7
  <2> QED
    BY <2>8
<1>3. S \in G
  <2> HIDE DEF G
  <2>1. \A s \in SUBSET S : s # {} /\ (\A x \in s : s \ {x} \in G) => s \in G
    BY <1>2
  <2> QED
    BY <1>1, <2>1, SubsetInduction
<1> QED
  BY <1>3

\* A part and the rest.
LEMMA SumSubset ==
  ASSUME NEW f, NEW S, IsFiniteSet(S), NEW T \in SUBSET S, \A x \in S : f[x] \in Int
  PROVE  SumFunctionOnSet(f, S) = SumFunctionOnSet(f, T) + SumFunctionOnSet(f, S \ T)
<1> DEFINE Splits(s) == SumFunctionOnSet(f, s) = SumFunctionOnSet(f, s \cap T) + SumFunctionOnSet(f, s \ T)
           G == {s \in SUBSET S : Splits(s)}
<1>1. {} \in G
  <2>1. IsFiniteSet({}) /\ {} \cap T = {} /\ {} \ T = {}
    BY FS_EmptySet
  <2>2. SumFunctionOnSet(f, {}) = 0
    BY <2>1, SumStep
  <2> QED
    BY <2>1, <2>2
<1>2. ASSUME NEW s \in SUBSET S, NEW x \in s, s \ {x} \in G PROVE s \in G
  <2> DEFINE t == s \ {x}
  <2>1. /\ IsFiniteSet(s) /\ IsFiniteSet(t) /\ IsFiniteSet(s \cap T) /\ IsFiniteSet(s \ T)
        /\ IsFiniteSet(t \cap T) /\ IsFiniteSet(t \ T)
    BY FS_Subset
  <2>2. SumFunctionOnSet(f, s) = f[x] + SumFunctionOnSet(f, t)
    BY <2>1, SumRemove
  <2>3. SumFunctionOnSet(f, t) = SumFunctionOnSet(f, t \cap T) + SumFunctionOnSet(f, t \ T)
    BY <1>2
  <2>4. SumFunctionOnSet(f, t \cap T) \in Int /\ SumFunctionOnSet(f, t \ T) \in Int /\ f[x] \in Int
    BY <2>1, SumType
  <2>5. CASE x \in T
    <3>1. (s \cap T) \ {x} = t \cap T /\ s \ T = t \ T /\ x \in s \cap T
      BY <2>5
    <3>2. SumFunctionOnSet(f, s \cap T) = f[x] + SumFunctionOnSet(f, t \cap T)
      <4>1. SumFunctionOnSet(f, s \cap T) = f[x] + SumFunctionOnSet(f, (s \cap T) \ {x})
        BY <2>1, <3>1, SumRemove
      <4> QED
        BY <3>1, <4>1
    <3>3. SumFunctionOnSet(f, s \ T) = SumFunctionOnSet(f, t \ T)
      BY <3>1
    <3> DEFINE a == SumFunctionOnSet(f, t \cap T)
               b == SumFunctionOnSet(f, t \ T)
    <3>4. SumFunctionOnSet(f, s) = f[x] + (a + b)
      BY <2>2, <2>3
    <3>5. SumFunctionOnSet(f, s \cap T) + SumFunctionOnSet(f, s \ T) = (f[x] + a) + b
      BY <3>2, <3>3
    <3>6. a \in Int /\ b \in Int /\ f[x] \in Int
      BY <2>4
    <3> HIDE DEF a, b, t
    <3>7. Splits(s)
      BY <3>4, <3>5, <3>6
    <3> QED
      BY <3>7
  <2>6. CASE x \notin T
    <3>1. (s \ T) \ {x} = t \ T /\ s \cap T = t \cap T /\ x \in s \ T
      BY <2>6
    <3>2. SumFunctionOnSet(f, s \ T) = f[x] + SumFunctionOnSet(f, t \ T)
      <4>1. SumFunctionOnSet(f, s \ T) = f[x] + SumFunctionOnSet(f, (s \ T) \ {x})
        BY <2>1, <3>1, SumRemove
      <4> QED
        BY <3>1, <4>1
    <3>3. SumFunctionOnSet(f, s \cap T) = SumFunctionOnSet(f, t \cap T)
      BY <3>1
    <3> DEFINE a == SumFunctionOnSet(f, t \cap T)
               b == SumFunctionOnSet(f, t \ T)
    <3>4. SumFunctionOnSet(f, s) = f[x] + (a + b)
      BY <2>2, <2>3
    <3>5. SumFunctionOnSet(f, s \cap T) + SumFunctionOnSet(f, s \ T) = a + (f[x] + b)
      BY <3>2, <3>3
    <3>6. a \in Int /\ b \in Int /\ f[x] \in Int
      BY <2>4
    <3> HIDE DEF a, b, t
    <3>7. Splits(s)
      BY <3>4, <3>5, <3>6
    <3> QED
      BY <3>7
  <2> QED
    BY <2>5, <2>6
<1>3. S \in G
  <2> HIDE DEF G
  <2>1. \A s \in SUBSET S : s # {} /\ (\A x \in s : s \ {x} \in G) => s \in G
    BY <1>2
  <2> QED
    BY <1>1, <2>1, SubsetInduction
<1>4. S \cap T = T
  OBVIOUS
<1> QED
  BY <1>3, <1>4

\* What the division of a whole leaves.
LEMMA Quotient ==
  ASSUME NEW n \in Nat, NEW s \in Nat, s > 0
  PROVE  n \div s \in Nat /\ s * (n \div s) <= n /\ n < s * (n \div s) + s
OBVIOUS

LEMMA Factor ==
  ASSUME NEW s \in Nat, s > 0, NEW a \in Int, NEW b \in Int, s * a <= s * b
  PROVE  a <= b
OBVIOUS

\* f shares d out by the weights w of a whole, in whole numbers.
SharesOf(f, d, w, P, whole) ==
    /\ \A p \in P : w[p] \in Nat /\ f[p] = (w[p] * d) \div whole
    /\ SumFunctionOnSet(w, P) = whole

\* The shares come to no more than d, and to d but for one each.
LEMMA SharesOfWhole ==
  ASSUME NEW P, IsFiniteSet(P), NEW d \in Nat, NEW s \in Nat, s > 0, NEW w, NEW f,
         SharesOf(f, d, w, P, s)
  PROVE  /\ \A p \in P : f[p] \in Nat
         /\ SumFunctionOnSet(f, P) <= d
         /\ d <= SumFunctionOnSet(f, P) + Cardinality(P)
         /\ d <= s => \A p \in P : f[p] <= w[p]
<1> DEFINE low == [p \in P |-> s * f[p]]
           mid == [p \in P |-> d * w[p]]
           one == [p \in P |-> 1]
           up == [p \in P |-> f[p] + 1]
           high == [p \in P |-> s * up[p]]
           F == SumFunctionOnSet(f, P)
           C == Cardinality(P)
<1>1. ASSUME NEW p \in P
      PROVE  /\ w[p] \in Nat /\ f[p] \in Nat /\ d * w[p] \in Nat /\ s * f[p] \in Nat
             /\ s * f[p] <= d * w[p] /\ d * w[p] <= s * (f[p] + 1) /\ s * (f[p] + 1) \in Int
  <2>1. w[p] \in Nat /\ f[p] = (w[p] * d) \div s
    BY DEF SharesOf
  <2>2. \A m, n \in Nat : m * n \in Nat /\ m * n = n * m
    OBVIOUS
  <2>3. w[p] * d \in Nat /\ w[p] * d = d * w[p]
    BY <2>1, <2>2
  <2>4. f[p] \in Nat /\ s * f[p] <= w[p] * d /\ w[p] * d < s * f[p] + s
    BY <2>1, <2>3, Quotient
  <2>5. s * (f[p] + 1) = s * f[p] + s
    BY <2>4
  <2> QED
    BY <2>1, <2>2, <2>3, <2>4, <2>5
<1>2. C \in Nat /\ F \in Int
  BY <1>1, SumType, FS_CardinalityType
<1>3. /\ \A p \in P : /\ low[p] = s * f[p] /\ mid[p] = d * w[p] /\ high[p] = s * up[p]
                      /\ up[p] = f[p] + one[p] /\ one[p] = 1
                      /\ low[p] \in Int /\ mid[p] \in Int /\ high[p] \in Int /\ up[p] \in Int
                      /\ low[p] <= mid[p] /\ mid[p] <= high[p]
      /\ \A p \in P : w[p] \in Int /\ f[p] \in Int
  BY <1>1
<1>4. SumFunctionOnSet(w, P) = s
  BY DEF SharesOf
<1> HIDE DEF low, mid, one, up, high
<1>5. /\ SumFunctionOnSet(low, P) = s * F
      /\ SumFunctionOnSet(mid, P) = d * s
      /\ SumFunctionOnSet(high, P) = s * SumFunctionOnSet(up, P)
  <2> s \in Int /\ d \in Int
    OBVIOUS
  <2>1. SumFunctionOnSet(low, P) = s * F
    BY <1>3, SumScale
  <2>2. SumFunctionOnSet(mid, P) = d * SumFunctionOnSet(w, P)
    BY <1>3, SumScale
  <2>3. SumFunctionOnSet(high, P) = s * SumFunctionOnSet(up, P)
    BY <1>3, SumScale
  <2> QED
    BY <1>4, <2>1, <2>2, <2>3
<1>6. SumFunctionOnSet(up, P) = F + C
  <2>1. SumFunctionOnSet(one, P) = C
    BY <1>3, SumOnes
  <2>2. \A p \in P : one[p] \in Int
    BY <1>3
  <2> QED
    BY <1>3, <2>1, <2>2, SumPlus
<1>7. SumFunctionOnSet(low, P) <= SumFunctionOnSet(mid, P) /\ SumFunctionOnSet(mid, P) <= SumFunctionOnSet(high, P)
  BY <1>3, SumLE
<1> HIDE DEF F, C
<1>8. d * s = s * d /\ F + C \in Int
  BY <1>2
<1>9. F <= d
  <2>1. s * F <= s * d
    BY <1>5, <1>7, <1>8
  <2> QED
    BY <1>2, <2>1, Factor
<1>10. d <= F + C
  <2>1. s * d <= s * (F + C)
    BY <1>5, <1>6, <1>7, <1>8
  <2> QED
    BY <1>8, <2>1, Factor
<1>11. ASSUME d <= s, NEW p \in P PROVE f[p] <= w[p]
  <2>1. w[p] \in Nat /\ f[p] \in Nat /\ s * f[p] <= d * w[p]
    BY <1>1
  <2>2. \A n \in Nat : d * n <= s * n
    BY <1>11
  <2>3. s * f[p] <= s * w[p]
    <3>1. d * w[p] <= s * w[p]
      BY <2>1, <2>2
    <3>2. s * f[p] \in Int /\ d * w[p] \in Int /\ s * w[p] \in Int
      BY <2>1
    <3> QED
      BY <2>1, <3>1, <3>2
  <2> QED
    BY <2>1, <2>3, Factor
<1> QED
  BY <1>1, <1>9, <1>10, <1>11 DEF F, C

\* (FS_Image says this with an operator.)
LEMMA ImageIsFinite ==
  ASSUME NEW S, IsFiniteSet(S), NEW k
  PROVE  IsFiniteSet({k[x] : x \in S})
<1> DEFINE T == {k[x] : x \in S}
           f == [x \in S |-> k[x]]
<1>1. f \in Surjection(S, T)
  BY DEF Surjection
<1> HIDE DEF T, f
<1>2. IsFiniteSet(T)
  BY <1>1, FS_Surjection
<1> QED
  BY <1>2 DEF T

\* A sum over other names of the same values.
LEMMA SumImage ==
  ASSUME NEW f, NEW g, NEW k, NEW S, IsFiniteSet(S),
         \A x \in S : f[x] \in Int /\ g[k[x]] = f[x],
         \A x, y \in S : k[x] = k[y] => x = y
  PROVE  SumFunctionOnSet(g, {k[x] : x \in S}) = SumFunctionOnSet(f, S)
<1> DEFINE Image(s) == {k[x] : x \in s}
           G == {s \in SUBSET S : SumFunctionOnSet(g, Image(s)) = SumFunctionOnSet(f, s)}
<1>1. {} \in G
  <2>1. IsFiniteSet({}) /\ Image({}) = {}
    BY FS_EmptySet
  <2>2. SumFunctionOnSet(f, {}) = 0 /\ SumFunctionOnSet(g, {}) = 0
    BY <2>1, SumStep
  <2> QED
    BY <2>1, <2>2
<1>2. ASSUME NEW s \in SUBSET S, NEW x \in s, s \ {x} \in G PROVE s \in G
  <2>1. IsFiniteSet(s)
    BY FS_Subset
  <2>2. IsFiniteSet(Image(s))
    BY <2>1, ImageIsFinite
  <2>3. Image(s) \ {k[x]} = Image(s \ {x}) /\ k[x] \in Image(s)
    OBVIOUS
  <2>4. \A z \in Image(s) : g[z] \in Int
    OBVIOUS
  <2>5. SumFunctionOnSet(g, Image(s)) = g[k[x]] + SumFunctionOnSet(g, Image(s \ {x}))
    <3> HIDE DEF Image
    <3>1. SumFunctionOnSet(g, Image(s)) = g[k[x]] + SumFunctionOnSet(g, Image(s) \ {k[x]})
      BY <2>2, <2>3, <2>4, SumRemove
    <3> QED
      BY <2>3, <3>1
  <2>6. SumFunctionOnSet(f, s) = f[x] + SumFunctionOnSet(f, s \ {x})
    BY <2>1, SumRemove
  <2> HIDE DEF Image
  <2> QED
    BY <1>2, <2>5, <2>6
<1>3. S \in G
  <2> HIDE DEF G
  <2>1. \A s \in SUBSET S : s # {} /\ (\A x \in s : s \ {x} \in G) => s \in G
    BY <1>2
  <2> QED
    BY <1>1, <2>1, SubsetInduction
<1> QED
  BY <1>3

\* h has the sums of f over the parts P of S that key tells apart.
SumsOfParts(h, f, S, Y, key, P) ==
    /\ \A x \in S : f[x] \in Int /\ key[x] \in Y
    /\ \A y \in Y : P[y] = {x \in S : key[x] = y} /\ h[y] = SumFunctionOnSet(f, P[y])

\* The sum of the sums of the parts.
LEMMA SumPartition ==
  ASSUME NEW f, NEW S, IsFiniteSet(S), NEW Y, IsFiniteSet(Y), NEW key, NEW P, NEW h,
         SumsOfParts(h, f, S, Y, key, P)
  PROVE  SumFunctionOnSet(h, Y) = SumFunctionOnSet(f, S)
<1> USE DEF SumsOfParts
<1> DEFINE Part(s, y) == {x \in s : key[x] = y}
           Sums2(s) == [y \in Y |-> SumFunctionOnSet(f, Part(s, y))]
           G == {s \in SUBSET S : SumFunctionOnSet(Sums2(s), Y) = SumFunctionOnSet(f, s)}
<1>1. {} \in G
  <2>1. IsFiniteSet({}) /\ \A y \in Y : Part({}, y) = {}
    BY FS_EmptySet
  <2>2. SumFunctionOnSet(f, {}) = 0
    BY <2>1, SumStep
  <2>3. \A y \in Y : Sums2({})[y] = 0
    <3> HIDE DEF Part
    <3> QED
      BY <2>1, <2>2
  <2>4. SumFunctionOnSet(Sums2({}), Y) = 0
    <3> HIDE DEF Sums2
    <3> QED
      BY <2>3, SumZero
  <2> QED
    BY <2>2, <2>4
<1>2. ASSUME NEW s \in SUBSET S, NEW x \in s, s \ {x} \in G PROVE s \in G
  <2> DEFINE t == s \ {x}
             A == Sums2(s)
             C == Sums2(t)
  <2>1. IsFiniteSet(s) /\ key[x] \in Y /\ f[x] \in Int
    BY FS_Subset
  <2>2. \A y \in Y : /\ IsFiniteSet(Part(s, y)) /\ IsFiniteSet(Part(t, y))
                     /\ \A z \in Part(s, y) : f[z] \in Int
                     /\ \A z \in Part(t, y) : f[z] \in Int
    BY <2>1, FS_Subset
  <2>3. /\ \A y \in Y \ {key[x]} : Part(s, y) = Part(t, y)
        /\ Part(s, key[x]) \ {x} = Part(t, key[x]) /\ x \in Part(s, key[x])
    OBVIOUS
  <2>4. \A y \in Y : A[y] \in Int /\ C[y] \in Int
    <3> HIDE DEF Part
    <3> QED
      BY <2>2, SumType
  <2>5. /\ \A y \in Y \ {key[x]} : C[y] = A[y]
        /\ A[key[x]] = f[x] + C[key[x]]
    <3> HIDE DEF Part, t
    <3>1. SumFunctionOnSet(f, Part(s, key[x])) = f[x] + SumFunctionOnSet(f, Part(s, key[x]) \ {x})
      BY <2>1, <2>2, <2>3, SumRemove
    <3> QED
      BY <2>1, <2>3, <3>1
  <2>6. SumFunctionOnSet(A, Y) = SumFunctionOnSet(C, Y) - C[key[x]] + A[key[x]]
    <3> HIDE DEF A, C
    <3> QED
      BY <2>1, <2>4, <2>5, SumChange
  <2>7. SumFunctionOnSet(C, Y) \in Int
    <3> HIDE DEF A, C
    <3> QED
      BY <2>4, SumType
  <2>8. SumFunctionOnSet(f, s) = f[x] + SumFunctionOnSet(f, t)
    BY <2>1, SumRemove
  <2>9. SumFunctionOnSet(C, Y) = SumFunctionOnSet(f, t)
    BY <1>2
  <2>10. SumFunctionOnSet(A, Y) = SumFunctionOnSet(f, s)
    <3> HIDE DEF A, C, t
    <3> QED
      BY <2>1, <2>4, <2>5, <2>6, <2>7, <2>8, <2>9
  <2> QED
    BY <2>10
<1>3. S \in G
  <2> HIDE DEF G
  <2>1. \A s \in SUBSET S : s # {} /\ (\A x \in s : s \ {x} \in G) => s \in G
    BY <1>2
  <2> QED
    BY <1>1, <2>1, SubsetInduction
<1>4. \A y \in Y : Sums2(S)[y] = h[y]
  OBVIOUS
<1>5. SumFunctionOnSet(Sums2(S), Y) = SumFunctionOnSet(h, Y)
  <2> HIDE DEF Sums2
  <2> QED
    BY <1>4, SumSame
<1> QED
  BY <1>3, <1>5

\* A table has rows F with sums g, and columns C with sums h.
SumsOfTable(g, h, F, C, S, Y) ==
    /\ \A x \in S, y \in Y : F[x][y] \in Int /\ C[y][x] = F[x][y]
    /\ \A x \in S : g[x] = SumFunctionOnSet(F[x], Y)
    /\ \A y \in Y : h[y] = SumFunctionOnSet(C[y], S)

\* Summed by rows or by columns.
LEMMA SumSwap ==
  ASSUME NEW F, NEW S, IsFiniteSet(S), NEW Y, IsFiniteSet(Y), NEW C, NEW g, NEW h,
         SumsOfTable(g, h, F, C, S, Y)
  PROVE  SumFunctionOnSet(h, Y) = SumFunctionOnSet(g, S)
<1> USE DEF SumsOfTable
<1> DEFINE Column(y) == [x \in S |-> F[x][y]]
           Columns(s) == [y \in Y |-> SumFunctionOnSet(Column(y), s)]
           G == {s \in SUBSET S : SumFunctionOnSet(Columns(s), Y) = SumFunctionOnSet(g, s)}
<1>1. {} \in G
  <2>1. IsFiniteSet({})
    BY FS_EmptySet
  <2>2. SumFunctionOnSet(g, {}) = 0 /\ \A y \in Y : SumFunctionOnSet(Column(y), {}) = 0
    BY <2>1, SumStep
  <2>3. \A y \in Y : Columns({})[y] = 0
    BY <2>2
  <2>4. SumFunctionOnSet(Columns({}), Y) = 0
    <3> HIDE DEF Columns
    <3> QED
      BY <2>3, SumZero
  <2> QED
    BY <2>2, <2>4
<1>2. ASSUME NEW s \in SUBSET S, NEW x \in s, s \ {x} \in G PROVE s \in G
  <2> DEFINE t == s \ {x}
             A == Columns(s)
             B == Columns(t)
             row == F[x]
  <2>1. IsFiniteSet(s) /\ IsFiniteSet(t)
    BY FS_Subset
  <2>2. \A y \in Y : \A z \in s : Column(y)[z] \in Int
    OBVIOUS
  <2>3. \A y \in Y : /\ SumFunctionOnSet(Column(y), s) = Column(y)[x] + SumFunctionOnSet(Column(y), t)
                     /\ SumFunctionOnSet(Column(y), t) \in Int
    <3> HIDE DEF Column
    <3> QED
      BY <2>1, <2>2, SumRemove, SumType
  <2>4. \A y \in Y : row[y] \in Int /\ B[y] \in Int /\ A[y] = row[y] + B[y]
    <3>1. \A y \in Y : Column(y)[x] = row[y]
      OBVIOUS
    <3> HIDE DEF Column
    <3> QED
      BY <2>3, <3>1
  <2>5. SumFunctionOnSet(A, Y) = SumFunctionOnSet(row, Y) + SumFunctionOnSet(B, Y)
    <3> HIDE DEF A, B, row
    <3> QED
      BY <2>4, SumPlus
  <2>6. \A z \in S : g[z] \in Int
    BY SumType
  <2>7. SumFunctionOnSet(g, s) = g[x] + SumFunctionOnSet(g, t)
    BY <2>1, <2>6, SumRemove
  <2>8. g[x] = SumFunctionOnSet(row, Y) /\ SumFunctionOnSet(B, Y) = SumFunctionOnSet(g, t)
    BY <1>2
  <2>9. SumFunctionOnSet(A, Y) = SumFunctionOnSet(g, s)
    <3> HIDE DEF A, B, row, t
    <3> QED
      BY <2>5, <2>7, <2>8
  <2> QED
    BY <2>9
<1>3. S \in G
  <2> HIDE DEF G
  <2>1. \A s \in SUBSET S : s # {} /\ (\A x \in s : s \ {x} \in G) => s \in G
    BY <1>2
  <2> QED
    BY <1>1, <2>1, SubsetInduction
<1>4. \A y \in Y : Columns(S)[y] = h[y]
  <2> SUFFICES ASSUME NEW y \in Y PROVE SumFunctionOnSet(Column(y), S) = h[y]
    OBVIOUS
  <2>1. \A x \in S : Column(y)[x] = C[y][x]
    OBVIOUS
  <2> HIDE DEF Column
  <2> QED
    BY <2>1, SumSame
<1>5. SumFunctionOnSet(Columns(S), Y) = SumFunctionOnSet(h, Y)
  <2> HIDE DEF Columns
  <2> QED
    BY <1>4, SumSame
<1> QED
  BY <1>3, <1>5
=============================================================================
