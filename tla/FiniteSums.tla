------------------------------ MODULE FiniteSums -----------------------------
(***************************************************************************)
(* Sums over finite sets, as the counters of several components are stated *)
(* with them: the sum of the empty set, of one element more, of a part.    *)
(*                                                                         *)
(* A sum is a fold over a set: the first half shows that the table the     *)
(* fold builds exists.  The induction over finite sets this needs is       *)
(* stated with a set of good sets in place of a predicate.                 *)
(***************************************************************************)
EXTENDS Integers, FiniteSets, Functions, FiniteSetTheorems, WellFoundedInduction, TLAPS

-----------------------------------------------------------------------------
(* Finite sets, one element at a time.                                     *)

\* A set of numbers has a smallest element.
LEMMA LeastNumber ==
  ASSUME NEW T, T \subseteq Nat, T # {}
  PROVE  \E x \in T : \A y \in T : x <= y
<1> DEFINE R == {ss \in Nat \X Nat : ss[1] < ss[2]}
<1>1. IsWellFoundedOn(R, Nat)
  BY NatLessThanWellFounded, Zenon DEF OpToRel
<1>2. PICK x \in T : \A y \in T : <<y, x>> \notin R
  <2> HIDE DEF R
  <2> QED BY <1>1, WFMin
<1>3. \A y \in T : ~(y < x)
  BY <1>2
<1> QED BY <1>2, <1>3

\* What holds of the empty set, and of a set when it holds of the set without
\* any one of its elements, holds of every subset of a finite set.
LEMMA SubsetInduction ==
  ASSUME NEW S, IsFiniteSet(S), NEW Good, {} \in Good,
         \A T \in SUBSET S : (T # {} /\ \A x \in T : T \ {x} \in Good) => T \in Good
  PROVE  \A T \in SUBSET S : T \in Good
<1> DEFINE Bad == {n \in Nat : \E T \in SUBSET S : T \notin Good /\ Cardinality(T) = n}
<1>1. SUFFICES ASSUME NEW U \in SUBSET S, U \notin Good PROVE FALSE
  OBVIOUS
<1>2. \A T \in SUBSET S : IsFiniteSet(T) /\ Cardinality(T) \in Nat
  BY FS_Subset, FS_CardinalityType
<1>3. Cardinality(U) \in Bad
  BY <1>1, <1>2
<1>4. PICK n \in Bad : \A m \in Bad : n <= m
  <2> HIDE DEF Bad
  <2>1. Bad \subseteq Nat
    BY DEF Bad
  <2> QED BY <1>3, <2>1, LeastNumber
<1>5. PICK T \in SUBSET S : T \notin Good /\ Cardinality(T) = n
  OBVIOUS
<1>6. PICK x \in T : T \ {x} \notin Good
  BY <1>5
<1>7. IsFiniteSet(T)
  BY <1>2
<1>8. Cardinality(T \ {x}) = n - 1
  BY <1>5, <1>7, FS_RemoveElement
<1>9. n - 1 \in Bad
  BY <1>2, <1>6, <1>8
<1> QED BY <1>4, <1>9

-----------------------------------------------------------------------------
(* The table a sum is looked up in.                                        *)

\* What is added up are numbers.
Numbers(f, K) == \A k \in K : f[k] \in Nat
Some(S) == CHOOSE x \in S : TRUE

\* it is the table the fold builds over the subsets of K.
IsTable(f, K, it) ==
  it = [S \in SUBSET K |->
          IF S = {} THEN 0 ELSE f[Some(S)] + it[S \ {Some(S)}]]

LEMMA SomeIn == ASSUME NEW S, S # {} PROVE Some(S) \in S
  BY DEF Some

\* Looked up, the table is the equation of the fold.
LEMMA TableEntry ==
  ASSUME NEW f, NEW K, NEW it, IsTable(f, K, it), NEW S \in SUBSET K
  PROVE  it[S] = IF S = {} THEN 0 ELSE f[Some(S)] + it[S \ {Some(S)}]
  BY DEF IsTable

\* The table exists: level by level, for the sets of up to n elements.
LEMMA TableExists ==
  ASSUME NEW f, NEW K, IsFiniteSet(K), Numbers(f, K)
  PROVE  \E it \in [SUBSET K -> Nat] : IsTable(f, K, it)
<1> DEFINE Entry(it, S) ==
             IF S = {} THEN 0 ELSE f[Some(S)] + it[S \ {Some(S)}]
           Level(it, n) == \A S \in SUBSET K : Cardinality(S) <= n => it[S] = Entry(it, S)
           Bad == {n \in Nat : ~ \E it \in [SUBSET K -> Nat] : Level(it, n)}
<1>1. \A S \in SUBSET K : IsFiniteSet(S) /\ Cardinality(S) \in Nat
  BY FS_Subset, FS_CardinalityType
<1>2. \A S \in SUBSET K : S # {} =>
        /\ Some(S) \in S /\ f[Some(S)] \in Nat
        /\ S \ {Some(S)} \in SUBSET K
        /\ Cardinality(S \ {Some(S)}) = Cardinality(S) - 1
  BY <1>1, SomeIn, FS_RemoveElement DEF Numbers
<1>3. \A it \in [SUBSET K -> Nat] : \A S \in SUBSET K : Entry(it, S) \in Nat
  <2> SUFFICES ASSUME NEW it \in [SUBSET K -> Nat], NEW S \in SUBSET K PROVE Entry(it, S) \in Nat
    OBVIOUS
  <2>1. CASE S = {}
    BY <2>1
  <2>2. CASE S # {}
    <3>1. f[Some(S)] \in Nat /\ it[S \ {Some(S)}] \in Nat
      BY <1>2, <2>2
    <3> QED BY <2>2, <3>1
  <2> QED BY <2>1, <2>2
<1>4. \A n \in Nat : \E it \in [SUBSET K -> Nat] : Level(it, n)
  <2> SUFFICES ASSUME Bad # {} PROVE FALSE
    OBVIOUS
  <2>1. PICK n \in Bad : \A m \in Bad : n <= m
    <3> HIDE DEF Bad
    <3>1. Bad \subseteq Nat
      BY DEF Bad
    <3> QED BY <3>1, LeastNumber
  <2>2. n # 0
    <3> DEFINE zero == [S \in SUBSET K |-> 0]
    <3>1. \A S \in SUBSET K : Cardinality(S) <= 0 => S = {}
      BY <1>1, FS_EmptySet
    <3>2. Level(zero, 0)
      BY <3>1
    <3>3. zero \in [SUBSET K -> Nat]
      OBVIOUS
    <3> QED BY <3>2, <3>3
  <2>3. n - 1 \in Nat /\ n - 1 \notin Bad
    <3>1. n \in Nat
      BY <2>1
    <3>2. n - 1 \in Nat /\ ~(n <= n - 1)
      BY <2>2, <3>1
    <3> HIDE DEF Bad
    <3> QED BY <2>1, <3>2
  <2>4. PICK it \in [SUBSET K -> Nat] : Level(it, n - 1)
    BY <2>3
  <2> DEFINE next1 == [S \in SUBSET K |-> Entry(it, S)]
  <2>5. next1 \in [SUBSET K -> Nat]
    BY <1>3
  <2>6. ASSUME NEW S \in SUBSET K, Cardinality(S) <= n PROVE next1[S] = Entry(next1, S)
    <3>1. CASE S = {}
      BY <3>1
    <3>2. CASE S # {}
      <4> DEFINE R == S \ {Some(S)}
      <4>1. R \in SUBSET K /\ Cardinality(R) <= n - 1
        BY <1>1, <1>2, <2>6, <3>2
      <4>2. it[R] = Entry(it, R)
        BY <2>4, <4>1
      <4>3. next1[R] = Entry(it, R)
        BY <4>1
      <4>4. next1[S] = f[Some(S)] + it[R]
        BY <3>2
      <4>5. Entry(next1, S) = f[Some(S)] + next1[R]
        BY <3>2
      <4> HIDE DEF next1, Entry
      <4> QED BY <4>2, <4>3, <4>4, <4>5
    <3> QED BY <3>1, <3>2
  <2>7. Level(next1, n)
    BY <2>6
  <2> HIDE DEF next1, Level
  <2> QED BY <2>1, <2>5, <2>7
<1>5. PICK it \in [SUBSET K -> Nat] : Level(it, Cardinality(K))
  BY <1>1, <1>4
<1>6. \A S \in SUBSET K : Cardinality(S) <= Cardinality(K)
  BY FS_Subset
<1>7. \A S \in SUBSET K : it[S] = Entry(it, S)
  BY <1>5, <1>6
<1>8. IsTable(f, K, it)
  <2>1. it = [S \in SUBSET K |-> it[S]]
    OBVIOUS
  <2>2. [S \in SUBSET K |-> it[S]] = [S \in SUBSET K |-> Entry(it, S)]
    BY <1>7
  <2> QED BY <2>1, <2>2 DEF IsTable
<1> QED BY <1>8

\* The sum is the entry of the whole set in such a table.
LEMMA SumTable ==
  ASSUME NEW f, NEW K, IsFiniteSet(K), Numbers(f, K)
  PROVE  \E it : IsTable(f, K, it) /\ SumFunctionOnSet(f, K) = it[K]
<1>1. \E it : IsTable(f, K, it)
  BY TableExists
<1>2. IsTable(f, K, CHOOSE it : IsTable(f, K, it))
  BY <1>1
<1>3. SumFunctionOnSet(f, K) = (CHOOSE it : IsTable(f, K, it))[K]
  BY DEF SumFunctionOnSet, FoldFunctionOnSet, MapThenFoldSet, IsTable, Some
<1> QED BY <1>2, <1>3

\* Tables for two functions that agree on a set give it the same sum.
LEMMA TablesAgree ==
  ASSUME NEW f, NEW g, NEW A, NEW B, NEW it, NEW jt, IsTable(f, A, it), IsTable(g, B, jt),
         NEW S, S \subseteq A, S \subseteq B, IsFiniteSet(S),
         \A k \in S : f[k] = g[k]
  PROVE  it[S] = jt[S]
<1> DEFINE Good == {T \in SUBSET S : it[T] = jt[T]}
<1>1. {} \in Good
  <2>1. it[{}] = 0 /\ jt[{}] = 0
    BY TableEntry
  <2> QED BY <2>1
<1>2. ASSUME NEW T \in SUBSET S, T # {}, \A x \in T : T \ {x} \in Good PROVE T \in Good
  <2> DEFINE x == Some(T)
  <2>1. x \in T
    BY <1>2, SomeIn
  <2>2. it[T] = f[x] + it[T \ {x}] /\ jt[T] = g[x] + jt[T \ {x}]
    <3>1. T \in SUBSET A /\ T \in SUBSET B
      OBVIOUS
    <3>2. it[T] = IF T = {} THEN 0 ELSE f[Some(T)] + it[T \ {Some(T)}]
      BY ONLY <3>1, IsTable(f, A, it), TableEntry
    <3>3. jt[T] = IF T = {} THEN 0 ELSE g[Some(T)] + jt[T \ {Some(T)}]
      BY ONLY <3>1, IsTable(g, B, jt), TableEntry
    <3> QED BY <1>2, <3>2, <3>3
  <2>3. it[T \ {x}] = jt[T \ {x}] /\ f[x] = g[x]
    BY <1>2, <2>1
  <2> QED BY <2>2, <2>3
<1>3. S \in Good
  <2> HIDE DEF Good
  <2>1. \A T \in SUBSET S : (T # {} /\ \A x \in T : T \ {x} \in Good) => T \in Good
    BY <1>2
  <2>2. \A T \in SUBSET S : T \in Good
    BY ONLY <1>1, <2>1, IsFiniteSet(S), SubsetInduction
  <2> QED BY <2>2
<1> QED BY <1>3 DEF Good

\* Every entry is a number.
LEMMA TableNumbers ==
  ASSUME NEW f, NEW K, NEW it, IsFiniteSet(K), Numbers(f, K), IsTable(f, K, it)
  PROVE  \A S \in SUBSET K : it[S] \in Nat
<1> DEFINE Good == {S \in SUBSET K : it[S] \in Nat}
<1>1. {} \in Good
  <2>1. it[{}] = 0
    BY TableEntry
  <2> QED BY <2>1
<1>2. ASSUME NEW S \in SUBSET K, S # {}, \A x \in S : S \ {x} \in Good PROVE S \in Good
  <2>1. Some(S) \in S /\ f[Some(S)] \in Nat
    BY <1>2, SomeIn DEF Numbers
  <2>2. it[S] = f[Some(S)] + it[S \ {Some(S)}]
    BY <1>2, TableEntry
  <2>3. it[S \ {Some(S)}] \in Nat
    BY <1>2, <2>1
  <2> QED BY <2>1, <2>2, <2>3
<1> HIDE DEF Good
<1>3. \A S \in SUBSET K : S \in Good
  BY <1>1, <1>2, SubsetInduction
<1> QED BY <1>3 DEF Good

\* Whichever element is taken out of a set, the sum is what the element has and
\* the sum of the rest.
LEMMA TableRemove ==
  ASSUME NEW f, NEW K, NEW it, IsFiniteSet(K), Numbers(f, K), IsTable(f, K, it)
  PROVE  \A S \in SUBSET K : \A x \in S : it[S] = f[x] + it[S \ {x}]
<1> DEFINE Good == {S \in SUBSET K : \A x \in S : it[S] = f[x] + it[S \ {x}]}
<1>1. {} \in Good
  OBVIOUS
<1>2. ASSUME NEW S \in SUBSET K, S # {}, \A x \in S : S \ {x} \in Good PROVE S \in Good
  <2> DEFINE y == Some(S)
  <2>1. y \in S /\ it[S] = f[y] + it[S \ {y}]
    <3>1. y \in S
      BY <1>2, SomeIn
    <3>2. it[S] = IF S = {} THEN 0 ELSE f[Some(S)] + it[S \ {Some(S)}]
      BY TableEntry
    <3> QED BY <1>2, <3>1, <3>2
  <2>2. ASSUME NEW x \in S, x # y PROVE it[S] = f[x] + it[S \ {x}]
    <3> HIDE DEF y
    <3>1. it[S \ {y}] = f[x] + it[(S \ {y}) \ {x}]
      BY <1>2, <2>1, <2>2
    <3>2. it[S \ {x}] = f[y] + it[(S \ {x}) \ {y}]
      BY <1>2, <2>1, <2>2
    <3>3. (S \ {y}) \ {x} = (S \ {x}) \ {y}
      OBVIOUS
    <3>4. it[(S \ {y}) \ {x}] \in Nat
      BY TableNumbers
    <3>5. f[x] \in Nat /\ f[y] \in Nat
      BY <2>1 DEF Numbers
    <3> QED BY <2>1, <3>1, <3>2, <3>3, <3>4, <3>5
  <2> QED BY <2>1, <2>2
<1> HIDE DEF Good
<1>3. \A S \in SUBSET K : S \in Good
  BY <1>1, <1>2, SubsetInduction
<1> QED BY <1>3 DEF Good

\* The sum over a set is that over a part and that over the rest.
LEMMA TableSplit ==
  ASSUME NEW f, NEW K, NEW it, IsFiniteSet(K), Numbers(f, K), IsTable(f, K, it)
  PROVE  \A P \in SUBSET K : it[K] = it[K \ P] + it[P]
<1> DEFINE Good == {P \in SUBSET K : it[K] = it[K \ P] + it[P]}
<1>1. {} \in Good
  <2>1. it[{}] = 0 /\ it[K] \in Nat /\ K \ {} = K
    BY TableEntry, TableNumbers
  <2> QED BY <2>1
<1>2. ASSUME NEW P \in SUBSET K, P # {}, \A x \in P : P \ {x} \in Good PROVE P \in Good
  <2> PICK x \in P : TRUE
    BY <1>2
  <2>1. it[K] = it[K \ (P \ {x})] + it[P \ {x}]
    BY <1>2
  <2>2. x \in K \ (P \ {x}) /\ (K \ (P \ {x})) \ {x} = K \ P
    OBVIOUS
  <2>3. it[K \ (P \ {x})] = f[x] + it[K \ P]
    BY <2>2, TableRemove
  <2>4. it[P] = f[x] + it[P \ {x}]
    BY TableRemove
  <2>5. f[x] \in Nat /\ it[K \ P] \in Nat /\ it[P \ {x}] \in Nat
    BY TableNumbers DEF Numbers
  <2> QED BY <2>1, <2>3, <2>4, <2>5
<1> HIDE DEF Good
<1>3. \A P \in SUBSET K : P \in Good
  BY <1>1, <1>2, SubsetInduction
<1> QED BY <1>3 DEF Good

-----------------------------------------------------------------------------
(* Sums.                                                                   *)

\* Nothing adds up to nothing.
LEMMA SumNone == ASSUME NEW f PROVE SumFunctionOnSet(f, {}) = 0
<1>1. PICK it : IsTable(f, {}, it) /\ SumFunctionOnSet(f, {}) = it[{}]
  BY SumTable, FS_EmptySet DEF Numbers
<1> QED BY <1>1, TableEntry

\* A sum of numbers is a number.
LEMMA SumNumber ==
  ASSUME NEW f, NEW K, IsFiniteSet(K), Numbers(f, K)
  PROVE  SumFunctionOnSet(f, K) \in Nat
<1>1. PICK it : IsTable(f, K, it) /\ SumFunctionOnSet(f, K) = it[K]
  BY SumTable
<1> QED BY <1>1, TableNumbers

\* Only the elements of the set count.
LEMMA SumAgrees ==
  ASSUME NEW f, NEW g, NEW K, IsFiniteSet(K), Numbers(f, K), \A k \in K : g[k] = f[k]
  PROVE  SumFunctionOnSet(g, K) = SumFunctionOnSet(f, K)
<1>1. Numbers(g, K)
  BY DEF Numbers
<1>2. PICK it : IsTable(f, K, it) /\ SumFunctionOnSet(f, K) = it[K]
  BY SumTable
<1>3. PICK jt : IsTable(g, K, jt) /\ SumFunctionOnSet(g, K) = jt[K]
  BY <1>1, SumTable
<1>4. jt[K] = it[K]
  BY <1>2, <1>3, TablesAgree
<1> QED BY <1>2, <1>3, <1>4

\* A part can be taken out.
LEMMA SumSplit ==
  ASSUME NEW f, NEW K, IsFiniteSet(K), Numbers(f, K), NEW P, P \subseteq K
  PROVE  SumFunctionOnSet(f, K) = SumFunctionOnSet(f, K \ P) + SumFunctionOnSet(f, P)
<1>1. /\ IsFiniteSet(P) /\ IsFiniteSet(K \ P) /\ P \in SUBSET K
      /\ Numbers(f, P) /\ Numbers(f, K \ P)
  BY FS_Subset DEF Numbers
<1>2. PICK it : IsTable(f, K, it) /\ SumFunctionOnSet(f, K) = it[K]
  BY SumTable
<1>3. PICK jt : IsTable(f, K \ P, jt) /\ SumFunctionOnSet(f, K \ P) = jt[K \ P]
  BY <1>1, SumTable
<1>4. PICK ht : IsTable(f, P, ht) /\ SumFunctionOnSet(f, P) = ht[P]
  BY <1>1, SumTable
<1>5. jt[K \ P] = it[K \ P]
  BY <1>1, <1>2, <1>3, TablesAgree
<1>6. ht[P] = it[P]
  BY <1>1, <1>2, <1>4, TablesAgree
<1>7. it[K] = it[K \ P] + it[P]
  BY <1>1, <1>2, TableSplit
<1> QED BY <1>2, <1>3, <1>4, <1>5, <1>6, <1>7

\* An element can be taken out.
LEMMA SumRemove ==
  ASSUME NEW f, NEW K, IsFiniteSet(K), Numbers(f, K), NEW x \in K
  PROVE  SumFunctionOnSet(f, K) = SumFunctionOnSet(f, K \ {x}) + f[x]
<1> DEFINE R == K \ {x}
<1>1. /\ IsFiniteSet(R) /\ Numbers(f, R) /\ R \subseteq K /\ R \subseteq R
      /\ K \in SUBSET K /\ R \in SUBSET K /\ f[x] \in Nat
  BY FS_Subset DEF Numbers
<1>2. PICK it : IsTable(f, K, it) /\ SumFunctionOnSet(f, K) = it[K]
  BY SumTable
<1>3. PICK jt : IsTable(f, R, jt) /\ SumFunctionOnSet(f, R) = jt[R]
  BY <1>1, SumTable
<1>4. it[K] = f[x] + it[R]
  BY <1>1, <1>2, TableRemove
<1>5. it[R] \in Nat
  BY <1>1, <1>2, TableNumbers
<1>6. jt[R] = it[R]
  BY <1>1, <1>2, <1>3, TablesAgree
<1> HIDE DEF R
<1> QED BY <1>1, <1>2, <1>3, <1>4, <1>5, <1>6 DEF R

\* The sum of one element.
LEMMA SumOfOne ==
  ASSUME NEW f, NEW x, f[x] \in Nat
  PROVE  SumFunctionOnSet(f, {x}) = f[x]
<1>1. SUFFICES ASSUME NEW K, K = {x} PROVE SumFunctionOnSet(f, K) = f[x]
  OBVIOUS
<1>2. IsFiniteSet(K) /\ Numbers(f, K) /\ x \in K
  BY <1>1, FS_Singleton DEF Numbers
<1>3. SumFunctionOnSet(f, K) = SumFunctionOnSet(f, K \ {x}) + f[x]
  BY <1>2, SumRemove
<1>4. K \ {x} = {}
  BY <1>1
<1>5. SumFunctionOnSet(f, K \ {x}) = 0
  BY <1>4, SumNone
<1> QED BY <1>3, <1>5

\* One element counts for d more.
LEMMA SumChange ==
  ASSUME NEW f, NEW g, NEW K, IsFiniteSet(K), Numbers(f, K), Numbers(g, K), NEW x \in K,
         NEW d \in Int, g[x] = f[x] + d, \A k \in K : k # x => g[k] = f[k]
  PROVE  SumFunctionOnSet(g, K) = SumFunctionOnSet(f, K) + d
<1> DEFINE R == K \ {x}
<1>1. IsFiniteSet(R) /\ Numbers(f, R) /\ Numbers(g, R)
  BY FS_Subset DEF Numbers
<1>2. SumFunctionOnSet(g, R) = SumFunctionOnSet(f, R) /\ SumFunctionOnSet(f, R) \in Nat
  BY <1>1, SumAgrees, SumNumber
<1>3. SumFunctionOnSet(f, K) = SumFunctionOnSet(f, R) + f[x]
  BY SumRemove
<1>4. SumFunctionOnSet(g, K) = SumFunctionOnSet(g, R) + g[x]
  BY SumRemove
<1>5. f[x] \in Nat /\ g[x] \in Nat
  BY DEF Numbers
<1> HIDE DEF R
<1> QED BY <1>2, <1>3, <1>4, <1>5
=============================================================================
