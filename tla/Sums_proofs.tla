---------------------------- MODULE Sums_proofs -----------------------------
(* What a sum over a finite set of rows is and how it changes with one row.  *)
(* The library's sum is a recursive function over the subsets of the set; in *)
(* place of an induction each proof looks at a least subset that would       *)
(* violate the statement.                                                    *)
EXTENDS Sums, FiniteSetTheorems, WellFoundedInduction, TLAPS

\* Among the subsets of a finite set that have a property, one is minimal.
LEMMA MinimalSubset ==
    ASSUME NEW S, IsFiniteSet(S), NEW Bad, Bad \subseteq SUBSET S, Bad # {}
    PROVE  \E T \in Bad : \A U \in Bad : U \subseteq T => U = T
<1>1. IsWellFoundedOn(StrictSubsetOrdering(S), SUBSET S)
  BY FS_StrictSubsetOrderingWellFounded, FS_FiniteSubsetsOfFinite
<1>2. PICK T \in Bad : \A U \in Bad : <<U, T>> \notin StrictSubsetOrdering(S)
  BY <1>1, WFMin
<1> QED
  BY <1>2 DEF StrictSubsetOrdering

\* The row the sum takes next.
First(s) == CHOOSE x \in s : TRUE

\* g adds f up over each subset of S.
Adds(f, g, S) ==
    g = [s \in SUBSET S |-> IF s = {} THEN 0 ELSE f[First(s)] + g[s \ {First(s)}]]

\* The sum is the value of such a function at the whole set.
LEMMA SumUnfolded == ASSUME NEW f, NEW S PROVE SumOver(f, S) = (CHOOSE g : Adds(f, g, S))[S]
BY DEF SumOver, MapThenSumSet, MapThenFoldSet, Adds, First

\* The row taken next is one of those left.
LEMMA FirstIn == \A s : s # {} => First(s) \in s
BY DEF First

\* Two such functions agree where both are defined.
LEMMA AddsUnique ==
    ASSUME NEW f, NEW S, NEW R, NEW g, NEW h, Adds(f, g, S), Adds(f, h, R),
           NEW T \in SUBSET S, T \in SUBSET R, IsFiniteSet(T)
    PROVE  g[T] = h[T]
<1> DEFINE Bad == {U \in SUBSET T : g[U] # h[U]}
<1> SUFFICES ASSUME Bad # {} PROVE FALSE
  OBVIOUS
<1>0. Bad \subseteq SUBSET T
  OBVIOUS
<1>1. PICK U \in Bad : \A V \in Bad : V \subseteq U => V = U
  <2> HIDE DEF Bad
  <2> QED
    BY <1>0, MinimalSubset
<1>2. U # {}
  BY <1>1 DEF Adds
<1> DEFINE V == U \ {First(U)}
<1>3. V \subseteq U /\ V # U /\ V \in SUBSET T
  BY <1>2, FirstIn
<1>4. g[V] = h[V]
  BY <1>1, <1>3
<1>5. g[U] = f[First(U)] + g[V] /\ h[U] = f[First(U)] + h[V]
  BY <1>2 DEF Adds
<1> QED
  BY <1>1, <1>4, <1>5

\* On a finite set there is such a function.
LEMMA AddsExist ==
    ASSUME NEW f, NEW S, IsFiniteSet(S)
    PROVE  Adds(f, CHOOSE g : Adds(f, g, S), S)
<1> DEFINE Bad == {T \in SUBSET S : ~ \E g : Adds(f, g, T)}
<1> SUFFICES Bad = {}
  OBVIOUS
<1> SUFFICES ASSUME Bad # {} PROVE FALSE
  OBVIOUS
<1>0. Bad \subseteq SUBSET S
  OBVIOUS
<1>1. PICK T \in Bad : \A U \in Bad : U \subseteq T => U = T
  <2> HIDE DEF Bad
  <2> QED
    BY <1>0, MinimalSubset
<1> DEFINE Of(U) == CHOOSE g : Adds(f, g, U)
           h == [s \in SUBSET T |-> IF s = {} THEN 0
                     ELSE f[First(s)] + Of(s \ {First(s)})[s \ {First(s)}]]
<1>2. \A U \in SUBSET T : U # T => Adds(f, Of(U), U)
  BY <1>1
<1>3. ASSUME NEW U \in SUBSET T, U # T PROVE h[U] = Of(U)[U]
  <2>1. CASE U = {}
    <3>1. Adds(f, Of(U), U)
      BY <1>2, <1>3
    <3> HIDE DEF Of
    <3> QED
      BY <2>1, <3>1 DEF Adds
  <2>2. CASE U # {}
    <3> DEFINE V == U \ {First(U)}
    <3>1. V \in SUBSET U /\ V \in SUBSET T /\ V # T
      BY <2>2, <1>3
    <3>0. V \in SUBSET S
      BY <1>1
    <3>5. IsFiniteSet(V)
      BY <3>0, FS_Subset
    <3>2. Adds(f, Of(U), U) /\ Adds(f, Of(V), V)
      BY <1>2, <1>3, <3>1
    <3> HIDE DEF Of
    <3>3. Of(U)[V] = Of(V)[V]
      BY <3>1, <3>2, <3>5, AddsUnique
    <3>4. Of(U)[U] = f[First(U)] + Of(U)[V]
      BY <2>2, <3>2 DEF Adds
    <3> QED
      BY <2>2, <3>3, <3>4
  <2> QED
    BY <2>1, <2>2
<1>4. Adds(f, h, T)
  <2> HIDE DEF Of
  <2>1. ASSUME NEW s \in SUBSET T, s # {} PROVE h[s \ {First(s)}] = Of(s \ {First(s)})[s \ {First(s)}]
    <3>1. s \ {First(s)} \in SUBSET T /\ s \ {First(s)} # T
      BY <2>1, FirstIn
    <3> HIDE DEF h
    <3> QED
      BY <3>1, <1>3
  <2>2. h = [s \in SUBSET T |-> IF s = {} THEN 0 ELSE f[First(s)] + h[s \ {First(s)}]]
    BY <2>1
  <2> QED
    BY <2>2 DEF Adds
<1> QED
  BY <1>1, <1>4

\* The sum over no rows is 0, the value coalesce gives func.sum.
THEOREM SumEmpty == \A f : SumOver(f, {}) = 0
<1> TAKE f
<1>1. Adds(f, CHOOSE g : Adds(f, g, {}), {})
  BY AddsExist, FS_EmptySet
<1> QED
  BY <1>1, SumUnfolded DEF Adds

\* A sum is its first row and the sum of the rest.
LEMMA SumFirst ==
    ASSUME NEW f, NEW S, IsFiniteSet(S), S # {}
    PROVE  SumOver(f, S) = f[First(S)] + SumOver(f, S \ {First(S)})
<1> DEFINE V == S \ {First(S)}
           g == CHOOSE g : Adds(f, g, S)
           h == CHOOSE h : Adds(f, h, V)
<1>1. IsFiniteSet(V) /\ V \subseteq S
  BY FS_Subset
<1>2. Adds(f, g, S) /\ Adds(f, h, V)
  BY <1>1, AddsExist
<1>3. g[V] = h[V]
  BY <1>1, <1>2, AddsUnique
<1>4. SumOver(f, S) = g[S] /\ SumOver(f, V) = h[V]
  BY SumUnfolded
<1> QED
  BY <1>2, <1>3, <1>4 DEF Adds

\* The sum of whole amounts is one.
THEOREM SumType ==
    ASSUME NEW f, NEW S, IsFiniteSet(S), \A x \in S : f[x] \in Int
    PROVE  SumOver(f, S) \in Int
<1> DEFINE Bad == {T \in SUBSET S : SumOver(f, T) \notin Int}
<1> SUFFICES ASSUME Bad # {} PROVE FALSE
  OBVIOUS
<1>0. Bad \subseteq SUBSET S
  OBVIOUS
<1>1. PICK T \in Bad : \A U \in Bad : U \subseteq T => U = T
  <2> HIDE DEF Bad
  <2> QED
    BY <1>0, MinimalSubset
<1>2. T # {} /\ IsFiniteSet(T)
  <2>1. T # {}
    <3>1. SumOver(f, T) \notin Int
      BY <1>1
    <3>2. SumOver(f, {}) \in Int
      BY SumEmpty
    <3> QED
      BY <3>1, <3>2
  <2>2. IsFiniteSet(T)
    BY <1>0, FS_Subset
  <2> QED
    BY <2>1, <2>2
<1>3. T \ {First(T)} \in SUBSET S /\ T \ {First(T)} # T /\ First(T) \in S
  BY <1>2, FirstIn
<1>4. SumOver(f, T \ {First(T)}) \in Int
  BY <1>1, <1>3
<1> QED
  BY <1>1, <1>2, <1>3, <1>4, SumFirst

\* Any row may be taken out.
THEOREM SumRemove ==
    ASSUME NEW f, NEW S, IsFiniteSet(S), \A x \in S : f[x] \in Int, NEW e \in S
    PROVE  SumOver(f, S) = f[e] + SumOver(f, S \ {e})
<1> DEFINE Bad == {T \in SUBSET S : \E x \in T : SumOver(f, T) # f[x] + SumOver(f, T \ {x})}
<1> SUFFICES ASSUME Bad # {} PROVE FALSE
  OBVIOUS
<1>0. Bad \subseteq SUBSET S
  OBVIOUS
<1>1. PICK T \in Bad : \A U \in Bad : U \subseteq T => U = T
  <2> HIDE DEF Bad
  <2> QED
    BY <1>0, MinimalSubset
<1>2. PICK x \in T : SumOver(f, T) # f[x] + SumOver(f, T \ {x})
  BY <1>1
<1> DEFINE c == First(T)
           R == (T \ {x}) \ {c}
<1>3. IsFiniteSet(T) /\ c \in T /\ SumOver(f, T) = f[c] + SumOver(f, T \ {c})
  BY <1>2, SumFirst, FirstIn, FS_Subset
<1>4. c # x
  BY <1>2, <1>3
<1>5. SumOver(f, T \ {c}) = f[x] + SumOver(f, R)
  <2>1. T \ {c} \in SUBSET S /\ T \ {c} # T /\ x \in T \ {c} /\ (T \ {c}) \ {x} = R
    BY <1>3, <1>4
  <2> QED
    BY <1>1, <2>1
<1>6. SumOver(f, T \ {x}) = f[c] + SumOver(f, R)
  <2>1. T \ {x} \in SUBSET S /\ T \ {x} # T /\ c \in T \ {x}
    BY <1>2, <1>3, <1>4
  <2> QED
    BY <1>1, <2>1
<1>7. f[c] \in Int /\ f[x] \in Int /\ IsFiniteSet(R) /\ R \in SUBSET S
  BY <1>2, <1>3, FS_Subset
<1>8. SumOver(f, R) \in Int
  BY <1>7, SumType
<1> QED
  BY <1>2, <1>3, <1>5, <1>6, <1>7, <1>8

\* A row that is not there may be added.
THEOREM SumInsert ==
    ASSUME NEW f, NEW S, IsFiniteSet(S), \A x \in S : f[x] \in Int, NEW e, e \notin S, f[e] \in Int
    PROVE  SumOver(f, S \cup {e}) = f[e] + SumOver(f, S)
<1>1. IsFiniteSet(S \cup {e}) /\ (S \cup {e}) \ {e} = S
  BY FS_AddElement
<1> QED
  BY <1>1, SumRemove

\* The sum depends on the columns of the rows in the set only.
THEOREM SumSame ==
    ASSUME NEW f, NEW g, NEW S, IsFiniteSet(S), \A x \in S : f[x] = g[x]
    PROVE  SumOver(f, S) = SumOver(g, S)
<1> DEFINE Bad == {T \in SUBSET S : SumOver(f, T) # SumOver(g, T)}
<1> SUFFICES ASSUME Bad # {} PROVE FALSE
  OBVIOUS
<1>0. Bad \subseteq SUBSET S
  OBVIOUS
<1>1. PICK T \in Bad : \A U \in Bad : U \subseteq T => U = T
  <2> HIDE DEF Bad
  <2> QED
    BY <1>0, MinimalSubset
<1>2. T # {} /\ IsFiniteSet(T)
  <2>1. T # {}
    BY <1>1, SumEmpty
  <2>2. IsFiniteSet(T)
    BY <1>0, FS_Subset
  <2> QED
    BY <2>1, <2>2
<1>3. T \ {First(T)} \in SUBSET S /\ T \ {First(T)} # T /\ First(T) \in S
  BY <1>2, FirstIn
<1>4. SumOver(f, T \ {First(T)}) = SumOver(g, T \ {First(T)})
  BY <1>1, <1>3
<1> QED
  BY <1>1, <1>2, <1>3, <1>4, SumFirst

\* What is rounded row by row, each by no more than k, is off by no more than
\* k for every row.
THEOREM SumRounded ==
    ASSUME NEW f, NEW g, NEW S, IsFiniteSet(S), NEW k \in Nat,
           \A x \in S : f[x] \in Int /\ g[x] \in Int /\ 10 * g[x] - f[x] \in -k..k
    PROVE  10 * SumOver(g, S) - SumOver(f, S) \in -(k * Cardinality(S))..(k * Cardinality(S))
<1> DEFINE Off(T) == 10 * SumOver(g, T) - SumOver(f, T)
           Bad == {T \in SUBSET S : Off(T) \notin -(k * Cardinality(T))..(k * Cardinality(T))}
<1> SUFFICES ASSUME Bad # {} PROVE FALSE
  OBVIOUS
<1>0. Bad \subseteq SUBSET S
  OBVIOUS
<1>1. PICK T \in Bad : \A U \in Bad : U \subseteq T => U = T
  <2> HIDE DEF Bad
  <2> QED
    BY <1>0, MinimalSubset
<1>2. T # {} /\ IsFiniteSet(T)
  <2>1. ASSUME T = {} PROVE FALSE
    <3>1. Off({}) = 0 /\ Cardinality({}) = 0
      BY SumEmpty, FS_EmptySet
    <3>2. Off(T) \notin -(k * Cardinality(T))..(k * Cardinality(T))
      BY <1>1
    <3> HIDE DEF Off
    <3> QED
      BY <2>1, <3>1, <3>2
  <2>2. IsFiniteSet(T)
    BY <1>0, FS_Subset
  <2> QED
    BY <2>1, <2>2
<1>3. T \ {First(T)} \in SUBSET S /\ T \ {First(T)} # T /\ First(T) \in S
  BY <1>2, FirstIn
<1> DEFINE e == First(T)
           V == T \ {e}
<1>4. Off(V) \in -(k * Cardinality(V))..(k * Cardinality(V))
  BY <1>1, <1>3
<1>5. IsFiniteSet(V) /\ Cardinality(T) = Cardinality(V) + 1 /\ Cardinality(V) \in Nat
  <2>1. e \in T
    BY <1>2, FirstIn
  <2>2. IsFiniteSet(V) /\ Cardinality(V) = Cardinality(T) - 1
    BY <1>2, <2>1, FS_RemoveElement
  <2>3. Cardinality(T) \in Nat /\ Cardinality(V) \in Nat
    BY <1>2, <2>2, FS_CardinalityType
  <2> HIDE DEF e, V
  <2> QED
    BY <2>2, <2>3
<1>6. /\ SumOver(f, V) \in Int /\ SumOver(g, V) \in Int
      /\ SumOver(f, T) = f[e] + SumOver(f, V) /\ SumOver(g, T) = g[e] + SumOver(g, V)
  BY <1>2, <1>3, <1>5, SumType, SumFirst
<1>7. f[e] \in Int /\ g[e] \in Int /\ 10 * g[e] - f[e] \in -k..k
  BY <1>3
<1>8. k * Cardinality(T) = k * Cardinality(V) + k /\ k * Cardinality(V) \in Int
  <2>1. \A m \in Nat : k * (m + 1) = k * m + k /\ k * m \in Int
    OBVIOUS
  <2> HIDE DEF e, V
  <2> QED
    BY <1>5, <2>1
<1>9. Off(T) = Off(V) + (10 * g[e] - f[e]) /\ Off(V) \in Int
  BY <1>6, <1>7
<1>10. Off(T) \notin -(k * Cardinality(T))..(k * Cardinality(T))
  BY <1>1
<1> HIDE DEF Off, e, V
<1>11. PICK n, x, y : n = k * Cardinality(V) /\ x = 10 * g[e] - f[e] /\ y = Off(V)
  OBVIOUS
<1>12. n \in Int /\ x \in -k..k /\ y \in Int /\ y \in -n..n /\ y + x \notin -(n + k)..(n + k)
  BY <1>4, <1>7, <1>8, <1>9, <1>10, <1>11
<1> QED
  BY <1>12

\* With no negative row, a part never exceeds the whole.
THEOREM SumNat ==
    ASSUME NEW f, NEW S, IsFiniteSet(S), \A x \in S : f[x] \in Nat
    PROVE  SumOver(f, S) \in Nat
<1> DEFINE Bad == {T \in SUBSET S : SumOver(f, T) \notin Nat}
<1> SUFFICES ASSUME Bad # {} PROVE FALSE
  OBVIOUS
<1>0. Bad \subseteq SUBSET S
  OBVIOUS
<1>1. PICK T \in Bad : \A U \in Bad : U \subseteq T => U = T
  <2> HIDE DEF Bad
  <2> QED
    BY <1>0, MinimalSubset
<1>2. T # {} /\ IsFiniteSet(T)
  <2>1. T # {}
    <3>1. SumOver(f, T) \notin Nat
      BY <1>1
    <3>2. SumOver(f, {}) \in Nat
      BY SumEmpty
    <3> QED
      BY <3>1, <3>2
  <2>2. IsFiniteSet(T)
    BY <1>0, FS_Subset
  <2> QED
    BY <2>1, <2>2
<1>3. T \ {First(T)} \in SUBSET S /\ T \ {First(T)} # T /\ First(T) \in S
  BY <1>2, FirstIn
<1>4. SumOver(f, T \ {First(T)}) \in Nat
  BY <1>1, <1>3
<1> QED
  BY <1>1, <1>2, <1>3, <1>4, SumFirst

\* Between two states in which the rows of S have the same columns, and one row more counts.
THEOREM SumOneMore ==
    ASSUME NEW f, NEW g, NEW S, IsFiniteSet(S), NEW e, e \notin S, g[e] \in Int,
           \A x \in S : f[x] \in Int /\ g[x] = f[x]
    PROVE  SumOver(f, S) \in Int /\ SumOver(g, S \cup {e}) = SumOver(f, S) + g[e]
<1>1. SumOver(f, S) \in Int
  BY SumType
<1>2. SumOver(g, S) = SumOver(f, S)
  BY SumSame
<1>3. SumOver(g, S \cup {e}) = g[e] + SumOver(g, S)
  BY SumInsert
<1> QED
  BY <1>1, <1>2, <1>3

\* And one row less.
THEOREM SumOneLess ==
    ASSUME NEW f, NEW g, NEW S, IsFiniteSet(S), NEW e \in S,
           \A x \in S : f[x] \in Int, \A x \in S \ {e} : g[x] = f[x]
    PROVE  SumOver(f, S) \in Int /\ SumOver(g, S \ {e}) = SumOver(f, S) - f[e]
<1>1. SumOver(f, S) \in Int /\ f[e] \in Int
  BY SumType
<1>2. IsFiniteSet(S \ {e})
  BY FS_RemoveElement
<1>3. SumOver(f, S \ {e}) \in Int
  BY <1>2, SumType
<1>4. SumOver(g, S \ {e}) = SumOver(f, S \ {e})
  BY <1>2, SumSame
<1>5. SumOver(f, S) = f[e] + SumOver(f, S \ {e})
  BY SumRemove
<1> QED
  BY <1>1, <1>3, <1>4, <1>5

=============================================================================
