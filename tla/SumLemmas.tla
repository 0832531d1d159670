----------------------------- MODULE SumLemmas ------------------------------
(***************************************************************************)
(* What the registry's and the rails' totals rest on: the sum of a         *)
(* function over a finite set, as the community module Functions defines   *)
(* it, does not depend on the order in which it folds the set.  Induction  *)
(* over the set is done by looking at a smallest counterexample.           *)
(***************************************************************************)
EXTENDS Functions, Integers, FiniteSets, FiniteSetTheorems, WellFoundedInduction, TLAPS

\* The element the fold takes out of a set, and the table of partial sums it builds.
Taken(s) == CHOOSE x \in s : TRUE

IsSumTable(g, f, S) ==
  g = [s \in SUBSET S |-> IF s = {} THEN 0 ELSE f[Taken(s)] + g[s \ {Taken(s)}]]

SumTable(f, S) == CHOOSE g : IsSumTable(g, f, S)

LEMMA SumIsTable ==
  ASSUME NEW f, NEW S
  PROVE  SumFunctionOnSet(f, S) = SumTable(f, S)[S]
  BY DEF SumFunctionOnSet, FoldFunctionOnSet, MapThenFoldSet, SumTable, IsSumTable, Taken

LEMMA SmallestSubset ==
  ASSUME NEW S, IsFiniteSet(S), NEW Bad \in SUBSET SUBSET S, Bad # {}
  PROVE  \E T \in Bad : \A U \in Bad : U \subseteq T => U = T
<1>1. IsWellFoundedOn(StrictSubsetOrdering(S), FiniteSubsetsOf(S))
  BY FS_StrictSubsetOrderingWellFounded
<1>2. Bad \subseteq FiniteSubsetsOf(S)
  BY FS_Subset DEF FiniteSubsetsOf
<1>3. PICK T \in Bad : \A U \in Bad : ~(<<U, T>> \in StrictSubsetOrdering(S))
  BY <1>1, <1>2, WFMin
<1> QED
  BY <1>3 DEF StrictSubsetOrdering

\* A set of indices that is not empty has a smallest one.
LEMMA SmallestIndex ==
  ASSUME NEW n \in Nat, NEW Bad \in SUBSET (0 .. n), Bad # {}
  PROVE  \E m \in Bad : \A k \in Bad : m <= k
<1> DEFINE Whole == 1 .. n
           Cuts == {1 .. k : k \in Bad}
<1>1. IsFiniteSet(Whole) /\ Cuts \in SUBSET SUBSET Whole /\ Cuts # {}
  <2>1. IsFiniteSet(Whole)
    BY FS_Interval
  <2>2. \A k \in 0 .. n : 1 .. k \subseteq Whole
    OBVIOUS
  <2> QED
    BY <2>1, <2>2
<1>2. PICK T \in Cuts : \A U \in Cuts : U \subseteq T => U = T
  <2> HIDE DEF Cuts, Whole
  <2> QED
    BY <1>1, SmallestSubset
<1>3. PICK m \in Bad : T = 1 .. m
  BY <1>2
<1>4. ASSUME NEW k \in Bad, k < m
      PROVE  FALSE
  <2>1. 1 .. k \subseteq 1 .. m /\ m \in 1 .. m /\ m \notin 1 .. k
    BY <1>4
  <2>2. 1 .. k \in Cuts
    OBVIOUS
  <2> QED
    BY <1>2, <1>3, <2>1, <2>2
<1> QED
  BY <1>4

-----------------------------------------------------------------------------
(* The table of partial sums exists, is unique and its entries are sums. *)

LEMMA TakenIn == ASSUME NEW s, s # {} PROVE Taken(s) \in s
  BY DEF Taken

LEMMA TableEntry ==
  ASSUME NEW f, NEW S, NEW g, IsSumTable(g, f, S), NEW s \in SUBSET S
  PROVE  /\ s = {} => g[s] = 0
         /\ s # {} => g[s] = f[Taken(s)] + g[s \ {Taken(s)}]
  BY DEF IsSumTable

LEMMA TableUnique ==
  ASSUME NEW f, NEW S, IsFiniteSet(S), NEW g, NEW h, IsSumTable(g, f, S), IsSumTable(h, f, S)
  PROVE  g = h
<1> DEFINE Bad == {s \in SUBSET S : g[s] # h[s]}
<1>1. ASSUME Bad # {} PROVE FALSE
  <2>1. PICK T \in Bad : \A U \in Bad : U \subseteq T => U = T
    <3> HIDE DEF Bad
    <3>1. Bad \in SUBSET SUBSET S
      BY DEF Bad
    <3> QED
      BY <1>1, <3>1, SmallestSubset
  <2>2. T # {}
    <3>1. {} \in SUBSET S
      OBVIOUS
    <3>2. g[{}] = 0 /\ h[{}] = 0
      BY <3>1, IsSumTable(g, f, S), IsSumTable(h, f, S) DEF IsSumTable
    <3> QED
      BY <3>2
  <2>3. Taken(T) \in T /\ T \ {Taken(T)} \in SUBSET S
    BY <2>2, TakenIn
  <2>4. g[T \ {Taken(T)}] = h[T \ {Taken(T)}]
    BY <2>1, <2>3
  <2> QED
    BY <2>2, <2>4, TableEntry
<1>2. \A s \in SUBSET S : g[s] = h[s]
  BY <1>1
<1>3. /\ g = [s \in SUBSET S |-> g[s]]
      /\ h = [s \in SUBSET S |-> h[s]]
  BY DEF IsSumTable
<1> QED
  BY <1>2, <1>3

LEMMA TableRestricted ==
  ASSUME NEW f, NEW S, NEW g, IsSumTable(g, f, S), NEW T \in SUBSET S
  PROVE  IsSumTable([s \in SUBSET T |-> g[s]], f, T)
<1> DEFINE h == [s \in SUBSET T |-> g[s]]
<1>1. ASSUME NEW s \in SUBSET T
      PROVE  h[s] = IF s = {} THEN 0 ELSE f[Taken(s)] + h[s \ {Taken(s)}]
  <2>1. s \in SUBSET S /\ s \ {Taken(s)} \in SUBSET T
    OBVIOUS
  <2>2. h[s] = g[s] /\ h[s \ {Taken(s)}] = g[s \ {Taken(s)}]
    BY <2>1
  <2> QED
    BY <2>1, <2>2, TableEntry
<1> QED
  BY <1>1 DEF IsSumTable

LEMMA TableExists ==
  ASSUME NEW f, NEW S, IsFiniteSet(S)
  PROVE  IsSumTable(SumTable(f, S), f, S)
<1> DEFINE Bad == {T \in SUBSET S : ~ \E g : IsSumTable(g, f, T)}
<1>1. ASSUME Bad # {} PROVE FALSE
  <2>1. PICK T \in Bad : \A U \in Bad : U \subseteq T => U = T
    <3> HIDE DEF Bad
    <3>1. Bad \in SUBSET SUBSET S
      BY DEF Bad
    <3> QED
      BY <1>1, <3>1, SmallestSubset
  <2>2. T \in SUBSET S /\ IsFiniteSet(T) /\ ~ \E g : IsSumTable(g, f, T)
    BY FS_Subset
  <2>3. ASSUME NEW U \in SUBSET T, U # T
        PROVE  IsSumTable(SumTable(f, U), f, U)
    <3>1. \E g : IsSumTable(g, f, U)
      BY <2>1, <2>3
    <3> QED
      BY <3>1 DEF SumTable
  \* The table of T, put together from those of its strict subsets.
  <2> DEFINE part(s) == SumTable(f, s)[s]
             below(s) == IF s = {} THEN 0 ELSE f[Taken(s)] + part(s \ {Taken(s)})
             g == [s \in SUBSET T |-> below(s)]
  <2>4. ASSUME NEW U \in SUBSET T, U # T
        PROVE  part(U) = below(U)
    <3>1. IsSumTable(SumTable(f, U), f, U)
      BY <2>3, <2>4
    <3>2. CASE U = {}
      BY <3>1, <3>2, TableEntry
    <3>3. CASE U # {}
      <4> DEFINE V == U \ {Taken(U)}
      <4>1. V \in SUBSET U /\ V \in SUBSET T /\ V # T /\ V # U /\ IsFiniteSet(V)
        BY <2>2, <2>4, <3>3, TakenIn, FS_Subset
      <4>2. IsSumTable([s \in SUBSET V |-> SumTable(f, U)[s]], f, V)
        BY <3>1, <4>1, TableRestricted
      <4>3. IsSumTable(SumTable(f, V), f, V)
        BY <2>3, <4>1
      <4>4. SumTable(f, V) = [s \in SUBSET V |-> SumTable(f, U)[s]]
        BY <4>1, <4>2, <4>3, TableUnique
      <4>5. part(V) = SumTable(f, U)[V]
        BY <4>4
      <4>6. SumTable(f, U)[U] = f[Taken(U)] + SumTable(f, U)[V]
        BY <3>1, <3>3, TableEntry
      <4> QED
        BY <3>3, <4>5, <4>6
    <3> QED
      BY <3>2, <3>3
  <2>5. ASSUME NEW s \in SUBSET T
        PROVE  g[s] = IF s = {} THEN 0 ELSE f[Taken(s)] + g[s \ {Taken(s)}]
    <3>1. CASE s = {}
      BY <3>1
    <3>2. CASE s # {}
      <4>1. s \ {Taken(s)} \in SUBSET T /\ s \ {Taken(s)} # T
        BY <3>2, TakenIn
      <4>2. g[s \ {Taken(s)}] = below(s \ {Taken(s)})
        BY <4>1
      <4>3. part(s \ {Taken(s)}) = below(s \ {Taken(s)})
        BY <2>4, <4>1
      <4>4. g[s] = f[Taken(s)] + part(s \ {Taken(s)})
        BY <3>2
      <4> HIDE DEF g, below, part
      <4> QED
        BY <3>2, <4>2, <4>3, <4>4
    <3> QED
      BY <3>1, <3>2
  <2>6. IsSumTable(g, f, T)
    <3>1. g = [s \in SUBSET T |-> IF s = {} THEN 0 ELSE f[Taken(s)] + g[s \ {Taken(s)}]]
      <4>1. g = [s \in SUBSET T |-> g[s]]
        OBVIOUS
      <4> HIDE DEF g
      <4> QED
        BY <2>5, <4>1
    <3> HIDE DEF g
    <3> QED
      BY <3>1 DEF IsSumTable
  <2> QED
    BY <2>2, <2>6
<1>2. \E g : IsSumTable(g, f, S)
  BY <1>1
<1> QED
  BY <1>2 DEF SumTable

LEMMA PartialSum ==
  ASSUME NEW f, NEW S, IsFiniteSet(S), NEW T \in SUBSET S
  PROVE  SumTable(f, S)[T] = SumFunctionOnSet(f, T)
<1>1. IsFiniteSet(T)
  BY FS_Subset
<1>2. SumTable(f, T) = [s \in SUBSET T |-> SumTable(f, S)[s]]
  <2>1. IsSumTable(SumTable(f, T), f, T)
    BY <1>1, TableExists
  <2>2. IsSumTable([s \in SUBSET T |-> SumTable(f, S)[s]], f, T)
    BY TableExists, TableRestricted
  <2> QED
    BY <1>1, <2>1, <2>2, TableUnique
<1> QED
  BY <1>2, SumIsTable

-----------------------------------------------------------------------------
(* What the sum is. *)

LEMMA SumEmpty == ASSUME NEW f PROVE SumFunctionOnSet(f, {}) = 0
<1>1. IsFiniteSet({}) /\ {} \in SUBSET {}
  BY FS_EmptySet
<1>2. IsSumTable(SumTable(f, {}), f, {})
  BY <1>1, TableExists
<1>3. SumTable(f, {})[{}] = 0
  BY <1>1, <1>2, TableEntry
<1> QED
  BY <1>3, SumIsTable

LEMMA SumTaken ==
  ASSUME NEW f, NEW S, IsFiniteSet(S), S # {}
  PROVE  SumFunctionOnSet(f, S) = f[Taken(S)] + SumFunctionOnSet(f, S \ {Taken(S)})
<1>1. SumTable(f, S)[S] = f[Taken(S)] + SumTable(f, S)[S \ {Taken(S)}]
  BY TableExists, TableEntry
<1> QED
  BY <1>1, PartialSum, SumIsTable

\* A set of values closed under addition holds the sums of its members.
LEMMA SumClosed ==
  ASSUME NEW f, NEW S, IsFiniteSet(S), NEW D, 0 \in D, \A a, b \in D : a + b \in D,
         \A x \in S : f[x] \in D
  PROVE  SumFunctionOnSet(f, S) \in D
<1> DEFINE Bad == {T \in SUBSET S : SumFunctionOnSet(f, T) \notin D}
<1>1. ASSUME Bad # {} PROVE FALSE
  <2>1. PICK T \in Bad : \A U \in Bad : U \subseteq T => U = T
    <3> HIDE DEF Bad
    <3>1. Bad \in SUBSET SUBSET S
      BY DEF Bad
    <3> QED
      BY <1>1, <3>1, SmallestSubset
  <2>2. T # {}
    BY SumEmpty
  <2>3. Taken(T) \in T /\ T \ {Taken(T)} \in SUBSET S /\ IsFiniteSet(T)
    BY <2>2, TakenIn, FS_Subset
  <2>4. SumFunctionOnSet(f, T \ {Taken(T)}) \in D
    BY <2>1, <2>3
  <2>5. SumFunctionOnSet(f, T) = f[Taken(T)] + SumFunctionOnSet(f, T \ {Taken(T)})
    BY <2>2, <2>3, SumTaken
  <2> QED
    BY <2>3, <2>4, <2>5
<1> QED
  BY <1>1

LEMMA SumInt ==
  ASSUME NEW f, NEW S, IsFiniteSet(S), \A x \in S : f[x] \in Int
  PROVE  SumFunctionOnSet(f, S) \in Int
<1>1. 0 \in Int /\ \A a, b \in Int : a + b \in Int
  OBVIOUS
<1> QED
  BY <1>1, SumClosed

LEMMA SumNat ==
  ASSUME NEW f, NEW S, IsFiniteSet(S), \A x \in S : f[x] \in Nat
  PROVE  SumFunctionOnSet(f, S) \in Nat
<1>1. 0 \in Nat /\ \A a, b \in Nat : a + b \in Nat
  OBVIOUS
<1> QED
  BY <1>1, SumClosed

LEMMA SumZero ==
  ASSUME NEW f, NEW S, IsFiniteSet(S), \A x \in S : f[x] = 0
  PROVE  SumFunctionOnSet(f, S) = 0
<1>1. 0 \in {0} /\ \A a, b \in {0} : a + b \in {0}
  OBVIOUS
<1>2. SumFunctionOnSet(f, S) \in {0}
  BY <1>1, SumClosed
<1> QED
  BY <1>2

\* Functions that agree on a set have the same sum over it.
LEMMA SumAgrees ==
  ASSUME NEW f, NEW g, NEW S, IsFiniteSet(S), \A x \in S : f[x] = g[x]
  PROVE  SumFunctionOnSet(f, S) = SumFunctionOnSet(g, S)
<1> DEFINE Bad == {T \in SUBSET S : SumFunctionOnSet(f, T) # SumFunctionOnSet(g, T)}
<1>1. ASSUME Bad # {} PROVE FALSE
  <2>1. PICK T \in Bad : \A U \in Bad : U \subseteq T => U = T
    <3> HIDE DEF Bad
    <3>1. Bad \in SUBSET SUBSET S
      BY DEF Bad
    <3> QED
      BY <1>1, <3>1, SmallestSubset
  <2>2. T # {}
    BY SumEmpty
  <2>3. Taken(T) \in T /\ T \ {Taken(T)} \in SUBSET S /\ IsFiniteSet(T)
    BY <2>2, TakenIn, FS_Subset
  <2>4. SumFunctionOnSet(f, T \ {Taken(T)}) = SumFunctionOnSet(g, T \ {Taken(T)})
    BY <2>1, <2>3
  <2>5. /\ SumFunctionOnSet(f, T) = f[Taken(T)] + SumFunctionOnSet(f, T \ {Taken(T)})
        /\ SumFunctionOnSet(g, T) = g[Taken(T)] + SumFunctionOnSet(g, T \ {Taken(T)})
    BY <2>2, <2>3, SumTaken
  <2> QED
    BY <2>3, <2>4, <2>5
<1> QED
  BY <1>1

\* The fold may take any element first.
LEMMA SumRemove ==
  ASSUME NEW f, NEW S, IsFiniteSet(S), \A x \in S : f[x] \in Int, NEW a \in S
  PROVE  SumFunctionOnSet(f, S) = f[a] + SumFunctionOnSet(f, S \ {a})
<1> DEFINE Bad == {T \in SUBSET S :
                     \E x \in T : SumFunctionOnSet(f, T) # f[x] + SumFunctionOnSet(f, T \ {x})}
<1>1. ASSUME Bad # {} PROVE FALSE
  <2>1. PICK T \in Bad : \A U \in Bad : U \subseteq T => U = T
    <3> HIDE DEF Bad
    <3>1. Bad \in SUBSET SUBSET S
      BY DEF Bad
    <3> QED
      BY <1>1, <3>1, SmallestSubset
  <2>2. PICK x \in T : SumFunctionOnSet(f, T) # f[x] + SumFunctionOnSet(f, T \ {x})
    BY <2>1
  <2> DEFINE y == Taken(T)
  <2>3. y \in T /\ T \in SUBSET S /\ IsFiniteSet(T)
    BY <2>1, TakenIn, FS_Subset
  <2> HIDE DEF y
  <2>4. SumFunctionOnSet(f, T) = f[y] + SumFunctionOnSet(f, T \ {y})
    BY <2>3, SumTaken DEF y
  <2>5. x # y
    BY <2>2, <2>4
  <2>6. SumFunctionOnSet(f, T \ {y}) = f[x] + SumFunctionOnSet(f, (T \ {y}) \ {x})
    <3>1. T \ {y} \notin Bad
      BY <2>1, <2>3
    <3> QED
      BY <2>3, <2>5, <3>1
  <2>7. SumFunctionOnSet(f, T \ {x}) = f[y] + SumFunctionOnSet(f, (T \ {x}) \ {y})
    <3>1. T \ {x} \notin Bad
      BY <2>1, <2>2
    <3> QED
      BY <2>3, <2>5, <3>1
  <2>8. (T \ {y}) \ {x} = (T \ {x}) \ {y}
    OBVIOUS
  <2>9. SumFunctionOnSet(f, (T \ {x}) \ {y}) \in Int
    <3>1. (T \ {x}) \ {y} \in SUBSET S
      BY <2>3
    <3>2. IsFiniteSet((T \ {x}) \ {y})
      BY <3>1, FS_Subset
    <3> QED
      BY <3>1, <3>2, SumInt
  <2>10. f[x] \in Int /\ f[y] \in Int
    BY <2>2, <2>3
  <2>11. SumFunctionOnSet(f, T) = f[x] + SumFunctionOnSet(f, T \ {x})
    <3> DEFINE rest == SumFunctionOnSet(f, (T \ {x}) \ {y})
    <3>1. /\ SumFunctionOnSet(f, T) = f[y] + (f[x] + rest)
          /\ SumFunctionOnSet(f, T \ {x}) = f[y] + rest
      BY <2>4, <2>6, <2>7, <2>8
    <3>2. rest \in Int
      BY <2>9
    <3> HIDE DEF rest
    <3> QED
      BY <2>10, <3>1, <3>2
  <2> QED
    BY <2>2, <2>11
<1> QED
  BY <1>1

\* How a sum changes when one element enters or leaves its set, or changes its value.
LEMMA SumMoved ==
  ASSUME NEW f, NEW g, NEW A, NEW B, NEW a, IsFiniteSet(A), A \ {a} = B \ {a},
         \A x \in A : f[x] \in Int, \A x \in B : g[x] \in Int,
         \A x \in A \ {a} : g[x] = f[x]
  PROVE  SumFunctionOnSet(g, B) =
           (SumFunctionOnSet(f, A) - (IF a \in A THEN f[a] ELSE 0)) + (IF a \in B THEN g[a] ELSE 0)
<1> DEFINE rest == SumFunctionOnSet(f, A \ {a})
<1>1. IsFiniteSet(A \ {a}) /\ IsFiniteSet(B)
  <2>1. IsFiniteSet(A \ {a})
    BY FS_Subset
  <2>2. IsFiniteSet((A \ {a}) \cup {a})
    BY <2>1, FS_AddElement
  <2>3. B \subseteq (A \ {a}) \cup {a}
    OBVIOUS
  <2> QED
    BY <2>1, <2>2, <2>3, FS_Subset
<1>2. rest \in Int /\ SumFunctionOnSet(g, B \ {a}) = rest
  BY <1>1, SumInt, SumAgrees
<1>3. SumFunctionOnSet(f, A) = rest + (IF a \in A THEN f[a] ELSE 0)
  <2>1. CASE a \in A
    BY <1>2, <2>1, SumRemove
  <2>2. CASE a \notin A
    <3>1. A \ {a} = A
      BY <2>2
    <3>2. SumFunctionOnSet(f, A) = rest /\ rest \in Int
      BY <1>2, <3>1
    <3> HIDE DEF rest
    <3> QED
      BY <2>2, <3>2
  <2> QED
    BY <2>1, <2>2
<1>4. SumFunctionOnSet(g, B) = rest + (IF a \in B THEN g[a] ELSE 0)
  <2>1. CASE a \in B
    BY <1>1, <1>2, <2>1, SumRemove
  <2>2. CASE a \notin B
    <3>1. B \ {a} = B
      BY <2>2
    <3>2. SumFunctionOnSet(g, B) = rest /\ rest \in Int
      BY <1>2, <3>1
    <3> HIDE DEF rest
    <3> QED
      BY <2>2, <3>2
  <2> QED
    BY <2>1, <2>2
<1> HIDE DEF rest
<1> QED
  BY <1>2, <1>3, <1>4

\* A sum of naturals is at least each of them.
LEMMA SumAtLeast ==
  ASSUME NEW f, NEW S, IsFiniteSet(S), \A x \in S : f[x] \in Nat, NEW a \in S
  PROVE  f[a] <= SumFunctionOnSet(f, S)
<1>1. IsFiniteSet(S \ {a})
  BY FS_Subset
<1>2. SumFunctionOnSet(f, S \ {a}) \in Nat
  BY <1>1, SumNat
<1>3. SumFunctionOnSet(f, S) = f[a] + SumFunctionOnSet(f, S \ {a})
  BY SumRemove
<1> QED
  BY <1>2, <1>3

\* A function that is zero but for one element of a set sums up to its value there.
LEMMA SumOne ==
  ASSUME NEW f, NEW S, IsFiniteSet(S), NEW a \in S, f[a] \in Int, \A x \in S \ {a} : f[x] = 0
  PROVE  SumFunctionOnSet(f, S) = f[a]
<1>1. SumFunctionOnSet(f, S \ {a}) = 0
  BY FS_Subset, SumZero
<1>2. \A x \in S : f[x] \in Int
  OBVIOUS
<1>3. SumFunctionOnSet(f, S) = f[a] + SumFunctionOnSet(f, S \ {a})
  BY <1>2, SumRemove
<1> QED
  BY <1>1, <1>3

\* The sum over two disjoint sets is the sum of the sums over each.
LEMMA SumUnion ==
  ASSUME NEW f, NEW S, NEW T, IsFiniteSet(S), IsFiniteSet(T), S \cap T = {},
         \A x \in S \cup T : f[x] \in Int
  PROVE  SumFunctionOnSet(f, S \cup T) = SumFunctionOnSet(f, S) + SumFunctionOnSet(f, T)
<1> DEFINE Bad == {U \in SUBSET T :
                     SumFunctionOnSet(f, S \cup U) # SumFunctionOnSet(f, S) + SumFunctionOnSet(f, U)}
<1>1. ASSUME Bad # {} PROVE FALSE
  <2>1. PICK U \in Bad : \A V \in Bad : V \subseteq U => V = U
    <3> HIDE DEF Bad
    <3>1. Bad \in SUBSET SUBSET T
      BY DEF Bad
    <3> QED
      BY <1>1, <3>1, SmallestSubset
  <2>2. U # {}
    <3>1. SumFunctionOnSet(f, S) \in Int
      BY SumInt
    <3>2. SumFunctionOnSet(f, S) = SumFunctionOnSet(f, S) + SumFunctionOnSet(f, {})
      BY <3>1, SumEmpty
    <3>3. S \cup {} = S
      OBVIOUS
    <3> QED
      BY <2>1, <3>2, <3>3
  <2>3. PICK x \in U : TRUE
    BY <2>2
  <2>4. U \ {x} \notin Bad /\ U \ {x} \in SUBSET T /\ x \notin S
    BY <2>1
  <2>5. SumFunctionOnSet(f, S \cup (U \ {x})) = SumFunctionOnSet(f, S) + SumFunctionOnSet(f, U \ {x})
    BY <2>4
  <2>6. IsFiniteSet(U) /\ IsFiniteSet(U \ {x}) /\ IsFiniteSet(S \cup U)
    BY FS_Subset, FS_Union
  <2>7. SumFunctionOnSet(f, U) = f[x] + SumFunctionOnSet(f, U \ {x})
    BY <2>6, SumRemove
  <2>8. SumFunctionOnSet(f, S \cup U) = f[x] + SumFunctionOnSet(f, S \cup (U \ {x}))
    <3>1. (S \cup U) \ {x} = S \cup (U \ {x}) /\ x \in S \cup U /\ \A y \in S \cup U : f[y] \in Int
      BY <2>4
    <3>2. SumFunctionOnSet(f, S \cup U) = f[x] + SumFunctionOnSet(f, (S \cup U) \ {x})
      BY <2>6, <3>1, SumRemove
    <3> QED
      BY <3>1, <3>2
  <2>9. f[x] \in Int /\ SumFunctionOnSet(f, S) \in Int /\ SumFunctionOnSet(f, U \ {x}) \in Int
    <3>1. \A y \in U \ {x} : f[y] \in Int
      OBVIOUS
    <3> QED
      BY <2>6, <3>1, SumInt
  <2>10. SumFunctionOnSet(f, S \cup U) = SumFunctionOnSet(f, S) + SumFunctionOnSet(f, U)
    BY <2>5, <2>7, <2>8, <2>9
  <2> QED
    BY <2>10
<1> QED
  BY <1>1

\* Raising the value of one element raises the sum as much.
LEMMA SumRaised ==
  ASSUME NEW f, NEW g, NEW A, IsFiniteSet(A), NEW a \in A, NEW more \in Int,
         \A x \in A : f[x] \in Int, g[a] = f[a] + more, \A x \in A \ {a} : g[x] = f[x]
  PROVE  SumFunctionOnSet(g, A) = SumFunctionOnSet(f, A) + more
<1>1. IsFiniteSet(A \ {a}) /\ \A x \in A \ {a} : f[x] \in Int
  BY FS_Subset
<1>2. SumFunctionOnSet(g, A \ {a}) = SumFunctionOnSet(f, A \ {a}) /\ SumFunctionOnSet(f, A \ {a}) \in Int
  BY <1>1, SumInt, SumAgrees
<1>3. \A x \in A : g[x] \in Int
  OBVIOUS
<1>4. /\ SumFunctionOnSet(f, A) = f[a] + SumFunctionOnSet(f, A \ {a})
      /\ SumFunctionOnSet(g, A) = g[a] + SumFunctionOnSet(g, A \ {a})
  BY <1>3, SumRemove
<1>5. f[a] \in Int
  OBVIOUS
<1> QED
  BY <1>2, <1>4, <1>5
=============================================================================
