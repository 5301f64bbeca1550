------------------------- MODULE BillingLedger_proofs -------------------------
(***************************************************************************)
(* Proofs about BillingLedger, for every number of transactions and holds  *)
(* and all amounts: the tables of a wallet always agree, every unit of a   *)
(* credit has its place, and returns do not resurrect what was refunded.   *)
(*                                                                         *)
(* First sums over finite sets, for this module and Billing_proofs; then   *)
(* the loops of the code and what drawing from lots takes; then what the   *)
(* two functions that call each other do to the books, by induction over   *)
(* their turns; then the invariant, and that every operation keeps it.     *)
(* At the end, that the returns come to their end and lack nothing.        *)
(***************************************************************************)
EXTENDS BillingLedger, FiniteSetTheorems, WellFoundedInduction, TLAPS

-----------------------------------------------------------------------------
\* Sums of a function over a finite set: SumFunctionOnSet of the module Functions.

\* Induction over numbers and finite sets, for sets of values instead of
\* predicates: the least counterexample is well-founded.
LEMMA NatSetInduction ==
  ASSUME NEW P, 0 \in P, \A n \in Nat : n \in P => n + 1 \in P
  PROVE  \A n \in Nat : n \in P
<1> DEFINE Bad == Nat \ P
           Less == {ss \in Nat \X Nat : ss[1] < ss[2]}
<1>1. SUFFICES ASSUME Bad # {} PROVE FALSE
  OBVIOUS
<1>2. IsWellFoundedOn(Less, Nat)
  BY NatLessThanWellFounded DEF OpToRel
<1>3. PICK m \in Bad : \A n \in Bad : <<n, m>> \notin Less
  <2> HIDE DEF Less
  <2> QED BY <1>1, <1>2, WFMin
<1>4. \A n \in Bad : ~(n < m)
  BY <1>3
<1>5. m # 0 /\ m - 1 \in Nat /\ m - 1 \notin Bad
  BY <1>4
<1> QED BY <1>5

\* What holds of the empty set and of one element more holds of every subset.
LEMMA SubsetInduction ==
  ASSUME NEW S, IsFiniteSet(S), NEW P, {} \in P,
         \A T \in SUBSET S : \A x \in S \ T : T \in P => T \cup {x} \in P
  PROVE  \A T \in SUBSET S : T \in P
<1> DEFINE Q == {n \in Nat : \A T \in SUBSET S : Cardinality(T) = n => T \in P}
<1>1. \A T \in SUBSET S : IsFiniteSet(T) /\ Cardinality(T) \in Nat
  BY FS_Subset, FS_CardinalityType
<1>2. 0 \in Q
  BY <1>1, FS_EmptySet
<1>3. ASSUME NEW n \in Nat, n \in Q PROVE n + 1 \in Q
  <2>1. SUFFICES ASSUME NEW T \in SUBSET S, Cardinality(T) = n + 1 PROVE T \in P
    BY <1>3
  <2>2. PICK x : x \in T
    BY <1>1, <2>1, FS_EmptySet
  <2>3. Cardinality(T \ {x}) = n
    <3>1. IsFiniteSet(T)
      BY <1>1
    <3>2. Cardinality(T \ {x}) = Cardinality(T) - 1
      BY <2>2, <3>1, FS_RemoveElement
    <3> QED BY <2>1, <3>2
  <2>4. T \ {x} \in P
    BY <1>3, <2>3
  <2>5. T = (T \ {x}) \cup {x} /\ x \in S \ (T \ {x})
    BY <2>2
  <2> QED BY <2>4, <2>5
<1>4. \A n \in Nat : n \in Q
  <2> HIDE DEF Q
  <2> QED BY <1>2, <1>3, NatSetInduction
<1> QED BY <1>1, <1>4

-----------------------------------------------------------------------------
\* The sum of a function over a set, as a fold that takes an element at a time,
\* and the function that computes it on all subsets.
First(s) == CHOOSE x \in s : TRUE

Unfolds(g, f, S) ==
  g = [s \in S |-> IF s = {} THEN 0 ELSE f[First(s)] + g[s \ {First(s)}]]

Unfolding(f, S) == CHOOSE g : Unfolds(g, f, SUBSET S)

\* The library's definition is the same.
LEMMA SumIsUnfolding ==
  \A f, S : SumFunctionOnSet(f, S) = Unfolding(f, S)[S]
BY DEF SumFunctionOnSet, FoldFunctionOnSet, MapThenFoldSet, Unfolding, Unfolds, First

\* A set that is not empty has a first element.
LEMMA FirstIn == \A s : s # {} => First(s) \in s
BY DEF First

\* The recursion has a solution over the subsets of a finite set.
LEMMA UnfoldingUnfolds ==
  ASSUME NEW f, NEW S, IsFiniteSet(S)
  PROVE  Unfolds(Unfolding(f, S), f, SUBSET S)
<1> DEFINE Small(n) == {T \in SUBSET S : Cardinality(T) <= n}
           Q == {n \in Nat : \E g : Unfolds(g, f, Small(n))}
<1>1. \A T \in SUBSET S : IsFiniteSet(T) /\ Cardinality(T) \in Nat
  BY FS_Subset, FS_CardinalityType
<1>2. 0 \in Q
  <2>1. Small(0) = {{}}
    BY <1>1, FS_EmptySet
  <2>2. Unfolds([s \in {{}} |-> 0], f, {{}})
    BY DEF Unfolds
  <2> QED BY <2>1, <2>2
<1>3. ASSUME NEW n \in Nat, n \in Q PROVE n + 1 \in Q
  <2>1. PICK g : Unfolds(g, f, Small(n))
    BY <1>3
  <2> DEFINE h == [s \in Small(n + 1) |-> IF s = {} THEN 0 ELSE f[First(s)] + g[s \ {First(s)}]]
  <2>2. ASSUME NEW s \in Small(n + 1), s # {} PROVE s \ {First(s)} \in Small(n) \cap Small(n + 1)
    <3>1. Cardinality(s \ {First(s)}) = Cardinality(s) - 1
      BY <1>1, <2>2, FirstIn, FS_RemoveElement
    <3> QED BY <1>1, <3>1
  <2>3. \A s \in Small(n) \cap Small(n + 1) : h[s] = g[s]
    <3>1. \A s \in Small(n) : g[s] = IF s = {} THEN 0 ELSE f[First(s)] + g[s \ {First(s)}]
      <4> HIDE DEF Small
      <4> QED BY <2>1 DEF Unfolds
    <3> HIDE DEF Small
    <3> QED BY <3>1
  <2>4. Unfolds(h, f, Small(n + 1))
    <3> SUFFICES h = [s \in Small(n + 1) |-> IF s = {} THEN 0 ELSE f[First(s)] + h[s \ {First(s)}]]
      BY DEF Unfolds
    <3> HIDE DEF Small
    <3> QED BY <2>2, <2>3
  <2> HIDE DEF h, Small
  <2> QED BY <2>4
<1>4. Cardinality(S) \in Q
  <2> HIDE DEF Q
  <2> QED BY <1>1, <1>2, <1>3, NatSetInduction
<1>5. Small(Cardinality(S)) = SUBSET S
  BY <1>1, FS_Subset
<1>6. \E g : Unfolds(g, f, SUBSET S)
  <2> HIDE DEF Small
  <2> QED BY <1>4, <1>5
<1> QED BY <1>6 DEF Unfolding

\* Solutions over two sets agree on what they share.
LEMMA UnfoldingUnique ==
  ASSUME NEW f, NEW S, IsFiniteSet(S), NEW R \in SUBSET S
  PROVE  Unfolding(f, S)[R] = SumFunctionOnSet(f, R)
<1> DEFINE g == Unfolding(f, S)
           h == Unfolding(f, R)
           Q == {n \in Nat : \A T \in SUBSET R : Cardinality(T) = n => g[T] = h[T]}
<1>1. \A T \in SUBSET R : IsFiniteSet(T) /\ Cardinality(T) \in Nat
  BY FS_Subset, FS_CardinalityType
<1>2. \A T \in SUBSET R : /\ g[T] = IF T = {} THEN 0 ELSE f[First(T)] + g[T \ {First(T)}]
                          /\ h[T] = IF T = {} THEN 0 ELSE f[First(T)] + h[T \ {First(T)}]
  <2>1. Unfolds(g, f, SUBSET S) /\ Unfolds(h, f, SUBSET R)
    BY <1>1, UnfoldingUnfolds
  <2> HIDE DEF g, h
  <2> QED BY <2>1 DEF Unfolds
<1>3. 0 \in Q
  BY <1>1, <1>2, FS_EmptySet
<1>4. ASSUME NEW n \in Nat, n \in Q PROVE n + 1 \in Q
  <2>1. SUFFICES ASSUME NEW T \in SUBSET R, Cardinality(T) = n + 1 PROVE g[T] = h[T]
    OBVIOUS
  <2>2. T # {}
    BY <2>1, FS_EmptySet
  <2>3. Cardinality(T \ {First(T)}) = n
    BY <1>1, <2>1, <2>2, FirstIn, FS_RemoveElement
  <2>4. g[T \ {First(T)}] = h[T \ {First(T)}]
    BY <1>4, <2>3
  <2> HIDE DEF g, h
  <2> QED BY <1>2, <2>2, <2>4
<1>5. Cardinality(R) \in Q
  <2> HIDE DEF Q
  <2> QED BY <1>1, <1>3, <1>4, NatSetInduction
<1>6. g[R] = h[R]
  BY <1>5
<1> QED BY <1>6, SumIsUnfolding

-----------------------------------------------------------------------------
\* Nothing sums up to 0.
LEMMA SumEmpty == ASSUME NEW f PROVE SumFunctionOnSet(f, {}) = 0
<1>1. Unfolds(Unfolding(f, {}), f, SUBSET {})
  BY FS_EmptySet, UnfoldingUnfolds
<1>2. {} \in SUBSET {}
  OBVIOUS
<1>3. Unfolding(f, {})[{}] = 0
  BY <1>1, <1>2 DEF Unfolds
<1> QED BY <1>3, SumIsUnfolding

\* A sum is its first element and the sum of the rest.
LEMMA SumFirst ==
  ASSUME NEW f, NEW S, IsFiniteSet(S), S # {}
  PROVE  SumFunctionOnSet(f, S) = f[First(S)] + SumFunctionOnSet(f, S \ {First(S)})
<1>1. Unfolds(Unfolding(f, S), f, SUBSET S)
  BY UnfoldingUnfolds
<1>2. S \in SUBSET S
  OBVIOUS
<1>3. Unfolding(f, S)[S] = f[First(S)] + Unfolding(f, S)[S \ {First(S)}]
  BY <1>1, <1>2 DEF Unfolds
<1>4. Unfolding(f, S)[S \ {First(S)}] = SumFunctionOnSet(f, S \ {First(S)})
  BY UnfoldingUnique
<1> QED BY <1>3, <1>4, SumIsUnfolding

\* A sum of integers is one, and any element may be taken from it first: the
\* order of the summands does not matter.
LEMMA SumRemoves ==
  ASSUME NEW f, NEW S, IsFiniteSet(S), \A x \in S : f[x] \in Int
  PROVE  /\ SumFunctionOnSet(f, S) \in Int
         /\ \A x \in S : SumFunctionOnSet(f, S) = f[x] + SumFunctionOnSet(f, S \ {x})
<1> DEFINE Sum(T) == SumFunctionOnSet(f, T)
           Good(T) == Sum(T) \in Int /\ \A x \in T : Sum(T) = f[x] + Sum(T \ {x})
           Q == {n \in Nat : \A T \in SUBSET S : Cardinality(T) <= n => Good(T)}
<1>1. \A T \in SUBSET S : IsFiniteSet(T) /\ Cardinality(T) \in Nat
  BY FS_Subset, FS_CardinalityType
<1>2. 0 \in Q
  <2>1. Good({})
    BY SumEmpty
  <2>2. ASSUME NEW T \in SUBSET S, Cardinality(T) <= 0 PROVE T = {}
    <3>1. IsFiniteSet(T) /\ Cardinality(T) = 0
      BY <1>1, <2>2
    <3> QED BY <3>1, FS_EmptySet
  <2> HIDE DEF Good
  <2> QED BY <2>1, <2>2
<1>3. ASSUME NEW n \in Nat, n \in Q PROVE n + 1 \in Q
  <2>1. SUFFICES ASSUME NEW T \in SUBSET S, Cardinality(T) = n + 1 PROVE Good(T)
    <3> HIDE DEF Good
    <3> QED BY <1>1, <1>3
  <2>2. IsFiniteSet(T)
    BY <1>1
  <2>3. T # {}
    BY <2>1, FS_EmptySet
  <2> DEFINE p == First(T)
  <2>4. p \in T
    BY <2>3, FirstIn
  <2>5. ASSUME NEW x \in T, NEW U \in SUBSET (T \ {x}) PROVE Good(U)
    <3>1. IsFiniteSet(T \ {x})
      BY <1>1
    <3>2. Cardinality(T \ {x}) = Cardinality(T) - 1
      BY <2>2, FS_RemoveElement
    <3>3. Cardinality(U) <= Cardinality(T \ {x})
      BY <3>1, FS_Subset
    <3>4. Cardinality(U) <= n /\ U \in SUBSET S
      BY <1>1, <2>1, <3>2, <3>3
    <3> HIDE DEF Good
    <3> QED BY <1>3, <3>4
  <2>6. Sum(T) = f[p] + Sum(T \ {p})
    BY <2>2, <2>3, SumFirst
  <2> HIDE DEF p
  <2>7. ASSUME NEW x \in T, x # p PROVE Sum(T) = f[x] + Sum(T \ {x})
    <3>1. Good(T \ {p}) /\ Good(T \ {x}) /\ Good((T \ {x}) \ {p})
      BY <2>4, <2>5
    <3>2. x \in T \ {p} /\ p \in T \ {x}
      BY <2>4, <2>7
    <3> HIDE DEF Sum
    <3>3. Sum(T \ {p}) = f[x] + Sum((T \ {p}) \ {x})
      BY <3>1, <3>2
    <3>4. Sum(T \ {x}) = f[p] + Sum((T \ {x}) \ {p})
      BY <3>1, <3>2
    <3>5. (T \ {p}) \ {x} = (T \ {x}) \ {p}
      OBVIOUS
    <3>6. f[x] \in Int /\ f[p] \in Int /\ Sum((T \ {x}) \ {p}) \in Int
      BY <2>4, <3>1
    <3>7. Sum(T \ {p}) = f[x] + Sum((T \ {x}) \ {p})
      BY <3>3, <3>5
    <3> QED BY <2>6, <3>4, <3>6, <3>7
  <2>8. Sum(T) \in Int
    <3>1. Sum(T \ {p}) \in Int /\ f[p] \in Int
      BY <2>4, <2>5
    <3> HIDE DEF Sum
    <3> QED BY <2>6, <3>1
  <2> HIDE DEF Sum
  <2> QED BY <2>6, <2>7, <2>8
<1>4. Cardinality(S) \in Q
  <2> HIDE DEF Q
  <2> QED BY <1>1, <1>2, <1>3, NatSetInduction
<1>5. Good(S)
  <2> HIDE DEF Good
  <2> QED BY <1>1, <1>4
<1> QED BY <1>5

\* The type alone.
LEMMA SumType ==
  ASSUME NEW f, NEW S, IsFiniteSet(S), \A x \in S : f[x] \in Int
  PROVE  SumFunctionOnSet(f, S) \in Int
BY SumRemoves

\* One summand more.
LEMMA SumAdd ==
  ASSUME NEW f, NEW S, NEW x, IsFiniteSet(S), x \notin S, \A y \in S \cup {x} : f[y] \in Int
  PROVE  SumFunctionOnSet(f, S \cup {x}) = f[x] + SumFunctionOnSet(f, S)
<1>1. IsFiniteSet(S \cup {x})
  BY FS_AddElement
<1>2. (S \cup {x}) \ {x} = S
  OBVIOUS
<1> QED BY <1>1, <1>2, SumRemoves

\* A sum depends on the summands alone.
LEMMA SumEqual ==
  ASSUME NEW f, NEW g, NEW S, IsFiniteSet(S), \A x \in S : f[x] \in Int /\ f[x] = g[x]
  PROVE  SumFunctionOnSet(f, S) = SumFunctionOnSet(g, S)
<1> DEFINE P == {T \in SUBSET S : SumFunctionOnSet(f, T) = SumFunctionOnSet(g, T)}
<1>1. {} \in P
  BY SumEmpty
<1>2. ASSUME NEW T \in SUBSET S, NEW x \in S \ T, T \in P PROVE T \cup {x} \in P
  <2>1. IsFiniteSet(T)
    BY FS_Subset
  <2>2. /\ SumFunctionOnSet(f, T \cup {x}) = f[x] + SumFunctionOnSet(f, T)
        /\ SumFunctionOnSet(g, T \cup {x}) = g[x] + SumFunctionOnSet(g, T)
    BY <2>1, SumAdd
  <2> QED BY <1>2, <2>2
<1>3. S \in P
  <2> HIDE DEF P
  <2> QED BY <1>1, <1>2, SubsetInduction
<1> QED BY <1>3

\* Zeros sum up to 0.
LEMMA SumZero ==
  ASSUME NEW f, NEW S, IsFiniteSet(S), \A x \in S : f[x] = 0
  PROVE  SumFunctionOnSet(f, S) = 0
<1> DEFINE P == {T \in SUBSET S : SumFunctionOnSet(f, T) = 0}
<1>1. {} \in P
  BY SumEmpty
<1>2. ASSUME NEW T \in SUBSET S, NEW x \in S \ T, T \in P PROVE T \cup {x} \in P
  <2>1. IsFiniteSet(T)
    BY FS_Subset
  <2>2. \A y \in T \cup {x} : f[y] \in Int
    OBVIOUS
  <2>3. SumFunctionOnSet(f, T \cup {x}) = f[x] + SumFunctionOnSet(f, T)
    BY <2>1, <2>2, SumAdd
  <2> QED BY <1>2, <2>3
<1>3. S \in P
  <2> HIDE DEF P
  <2> QED BY <1>1, <1>2, SubsetInduction
<1> QED BY <1>3

\* Summands of a larger set that are not negative add nothing negative.
LEMMA SumSubset ==
  ASSUME NEW f, NEW S, IsFiniteSet(S), NEW R \in SUBSET S, \A x \in S : f[x] \in Nat
  PROVE  SumFunctionOnSet(f, R) <= SumFunctionOnSet(f, S)
<1> DEFINE P == {T \in SUBSET (S \ R) : SumFunctionOnSet(f, R) <= SumFunctionOnSet(f, R \cup T)}
<1>0. IsFiniteSet(S \ R) /\ IsFiniteSet(R)
  BY FS_Subset
<1>1. {} \in P
  <2>1. SumFunctionOnSet(f, R) \in Int /\ R \cup {} = R
    BY <1>0, SumType
  <2> QED BY <2>1
<1>2. ASSUME NEW T \in SUBSET (S \ R), NEW x \in (S \ R) \ T, T \in P PROVE T \cup {x} \in P
  <2>1. IsFiniteSet(R \cup T) /\ x \notin R \cup T
    BY FS_Subset
  <2>0. \A y \in (R \cup T) \cup {x} : f[y] \in Int
    OBVIOUS
  <2>2. SumFunctionOnSet(f, (R \cup T) \cup {x}) = f[x] + SumFunctionOnSet(f, R \cup T)
    BY <2>0, <2>1, SumAdd
  <2>3. SumFunctionOnSet(f, R \cup T) \in Int /\ SumFunctionOnSet(f, R) \in Int /\ f[x] \in Nat
    BY <1>0, <2>1, SumType
  <2>4. (R \cup T) \cup {x} = R \cup (T \cup {x}) /\ T \cup {x} \in SUBSET (S \ R)
    OBVIOUS
  <2> QED BY <1>2, <2>2, <2>3, <2>4
<1>3. \A T \in SUBSET (S \ R) : T \in P
  <2> HIDE DEF P
  <2> QED BY ZenonT(40), <1>0, <1>1, <1>2, SubsetInduction
<1>4. R \cup (S \ R) = S
  OBVIOUS
<1> QED BY <1>3, <1>4

\* A sum of which one summand changes.
LEMMA SumChange ==
  ASSUME NEW f, NEW g, NEW S, IsFiniteSet(S), NEW x \in S,
         \A y \in S : f[y] \in Int /\ g[y] \in Int,
         \A y \in S \ {x} : g[y] = f[y]
  PROVE  SumFunctionOnSet(g, S) = SumFunctionOnSet(f, S) + g[x] - f[x]
<1>1. IsFiniteSet(S \ {x})
  BY FS_RemoveElement
<1>2. SumFunctionOnSet(f, S \ {x}) = SumFunctionOnSet(g, S \ {x})
  BY <1>1, SumEqual
<1>3. /\ SumFunctionOnSet(f, S) = f[x] + SumFunctionOnSet(f, S \ {x})
      /\ SumFunctionOnSet(g, S) = g[x] + SumFunctionOnSet(g, S \ {x})
  BY SumRemoves
<1>4. SumFunctionOnSet(f, S \ {x}) \in Int
  BY <1>1, SumType
<1> QED BY <1>2, <1>3, <1>4

-----------------------------------------------------------------------------
\* The loops of the code, and totals.

\* A walk takes one step after the other.
Walking(step, start, n, at) == at = [i \in 0..n |-> IF i = 0 THEN start ELSE step[i][at[i - 1]]]

\* The recursion of a walk has a solution.
LEMMA WalkFrom ==
  ASSUME NEW step, NEW start, NEW N \in Nat
  PROVE  \E at : Walking(step, start, N, at)
<1> DEFINE Q == {n \in Nat : \E at : Walking(step, start, n, at)}
<1>1. 0 \in Q
  <2>1. Walking(step, start, 0, [i \in 0..0 |-> start])
    BY DEF Walking
  <2> QED BY <2>1
<1>2. ASSUME NEW n \in Nat, n \in Q PROVE n + 1 \in Q
  <2>1. PICK at : Walking(step, start, n, at)
    BY <1>2
  <2> DEFINE h == [i \in 0..(n + 1) |-> IF i = 0 THEN start ELSE step[i][at[i - 1]]]
  <2>2. \A i \in 0..n : h[i] = at[i]
    <3>1. \A i \in 0..n : at[i] = IF i = 0 THEN start ELSE step[i][at[i - 1]]
      BY <2>1 DEF Walking
    <3>2. \A i \in 0..n : i \in 0..(n + 1)
      OBVIOUS
    <3> QED BY <3>1, <3>2
  <2>3. \A i \in 0..(n + 1) : i # 0 => i - 1 \in 0..n
    OBVIOUS
  <2>4. Walking(step, start, n + 1, h)
    <3> SUFFICES h = [i \in 0..(n + 1) |-> IF i = 0 THEN start ELSE step[i][h[i - 1]]]
      BY DEF Walking
    <3>1. \A i \in 0..(n + 1) : i # 0 => h[i - 1] = at[i - 1]
      <4> HIDE DEF h
      <4> QED BY <2>2, <2>3
    <3>2. \A i \in 0..(n + 1) : (IF i = 0 THEN start ELSE step[i][at[i - 1]]) = (IF i = 0 THEN start ELSE step[i][h[i - 1]])
      <4> HIDE DEF h
      <4> QED BY <3>1
    <3> QED BY <3>2
  <2> HIDE DEF h
  <2> QED BY <2>4
<1>3. \A n \in Nat : n \in Q
  <2> HIDE DEF Q
  <2> QED BY <1>1, <1>2, NatSetInduction
<1> QED BY <1>3

\* A walk starts where it is told and takes the step of each row in turn.
LEMMA WalkTakes ==
  ASSUME NEW step, NEW start
  PROVE  \E at : /\ at[0] = start
                 /\ \A i \in Ids : at[i] = step[i][at[i - 1]]
                 /\ Walk(step, start) = at[MaxTransactions]
<1> DEFINE at == CHOOSE a : a = [i \in 0..MaxTransactions |-> IF i = 0 THEN start ELSE step[i][a[i - 1]]]
<1>1. at = [i \in 0..MaxTransactions |-> IF i = 0 THEN start ELSE step[i][at[i - 1]]]
  <2>1. \E a : a = [i \in 0..MaxTransactions |-> IF i = 0 THEN start ELSE step[i][a[i - 1]]]
    <3>1. \E a : Walking(step, start, MaxTransactions, a)
      BY WalkFrom, LedgerAssumption
    <3> QED BY <3>1, Zenon DEF Walking
  <2> QED BY <2>1
<1>2. Walk(step, start) = at[MaxTransactions]
  BY DEF Walk
<1> HIDE DEF at
<1>3. at[0] = start
  BY <1>1, LedgerAssumption
<1>4. \A i \in Ids : at[i] = step[i][at[i - 1]]
  BY <1>1, LedgerAssumption DEF Ids
<1> QED BY <1>2, <1>3, <1>4

\* An invariant
LEMMA WalkInvariant ==
  ASSUME NEW step, NEW start, NEW inv, start \in inv[0],
         \A i \in Ids : \A x \in inv[i - 1] : step[i][x] \in inv[i]
  PROVE  Walk(step, start) \in inv[MaxTransactions]
<1>1. PICK at :
               /\ at[0] = start
               /\ \A i \in Ids : at[i] = step[i][at[i - 1]]
               /\ Walk(step, start) = at[MaxTransactions]
  BY WalkTakes
<1> DEFINE Q == {n \in Nat : n <= MaxTransactions => at[n] \in inv[n]}
<1>2. 0 \in Q
  BY <1>1
<1>3. ASSUME NEW n \in Nat, n \in Q PROVE n + 1 \in Q
  <2>1. SUFFICES ASSUME n + 1 <= MaxTransactions PROVE at[n + 1] \in inv[n + 1]
    OBVIOUS
  <2>2. n + 1 \in Ids /\ at[n] \in inv[n]
    BY <1>3, <2>1, LedgerAssumption DEF Ids
  <2>3. (n + 1) - 1 = n
    OBVIOUS
  <2>4. at[n + 1] = step[n + 1][at[n]]
    BY <1>1, <2>2, <2>3
  <2> QED BY <2>2, <2>3, <2>4
<1>4. \A n \in Nat : n \in Q
  <2> HIDE DEF Q
  <2> QED BY <1>2, <1>3, NatSetInduction
<1>5. at[MaxTransactions] \in inv[MaxTransactions]
  <2>1. MaxTransactions \in Nat
    BY LedgerAssumption
  <2>2. MaxTransactions \in Q
    <3> HIDE DEF Q
    <3> QED BY <1>4, <2>1
  <2>3. MaxTransactions <= MaxTransactions
    BY <2>1
  <2> QED BY <2>2, <2>3
<1>6. Walk(step, start) = at[MaxTransactions]
  BY <1>1
<1> QED BY <1>5, <1>6, Zenon

-----------------------------------------------------------------------------
\* Totals.
LEMMA FiniteIds == IsFiniteSet(Ids) /\ IsFiniteSet(Parts) /\ \A n \in Int : IsFiniteSet(1..n)
BY FS_Interval, LedgerAssumption DEF Ids, Parts, Debt

\* A total is an integer.
LEMMA TotalType ==
  ASSUME NEW S, IsFiniteSet(S), NEW f \in [S -> Int]
  PROVE  Total(f) \in Int
BY SumType DEF Total, SumFunction

\* A total of natural numbers is one, and no summand exceeds it.
LEMMA TotalNat ==
  ASSUME NEW S, IsFiniteSet(S), NEW f \in [S -> Nat]
  PROVE  Total(f) \in Nat /\ \A x \in S : f[x] <= Total(f)
<1>1. SumFunctionOnSet(f, {}) = 0 /\ SumFunctionOnSet(f, {}) <= SumFunctionOnSet(f, S)
  BY SumEmpty, SumSubset
<1>2. Total(f) \in Int /\ Total(f) = SumFunctionOnSet(f, S)
  BY TotalType DEF Total, SumFunction
<1>3. ASSUME NEW x \in S PROVE f[x] <= Total(f)
  <2>1. SumFunctionOnSet(f, S \ {x}) \in Int /\ SumFunctionOnSet(f, S) = f[x] + SumFunctionOnSet(f, S \ {x})
    BY SumRemoves, FS_RemoveElement, SumType
  <2>2. SumFunctionOnSet(f, {}) <= SumFunctionOnSet(f, S \ {x})
    BY SumSubset, FS_RemoveElement
  <2> QED BY <1>1, <1>2, <2>1, <2>2
<1> QED BY <1>1, <1>2, <1>3

\* A total follows the change of one summand.
LEMMA TotalChange ==
  ASSUME NEW S, IsFiniteSet(S), NEW f \in [S -> Int], NEW g \in [S -> Int], NEW x \in S,
         \A y \in S \ {x} : g[y] = f[y]
  PROVE  Total(g) = Total(f) + g[x] - f[x]
BY SumChange DEF Total, SumFunction

\* A total of zeros is zero.
LEMMA TotalZero ==
  ASSUME NEW S, IsFiniteSet(S), NEW f \in [S -> Int], \A x \in S : f[x] = 0
  PROVE  Total(f) = 0
BY SumZero DEF Total, SumFunction

\* Totals add up summand by summand.
LEMMA TotalPlus ==
  ASSUME NEW S, IsFiniteSet(S), NEW f \in [S -> Int], NEW g \in [S -> Int], NEW h \in [S -> Int],
         \A x \in S : h[x] = f[x] + g[x]
  PROVE  Total(h) = Total(f) + Total(g)
<1> DEFINE P == {T \in SUBSET S : SumFunctionOnSet(h, T) = SumFunctionOnSet(f, T) + SumFunctionOnSet(g, T)}
<1>1. {} \in P
  BY SumEmpty
<1>2. ASSUME NEW T \in SUBSET S, NEW x \in S \ T, T \in P PROVE T \cup {x} \in P
  <2>1. IsFiniteSet(T)
    BY FS_Subset
  <2>2. /\ SumFunctionOnSet(f, T \cup {x}) = f[x] + SumFunctionOnSet(f, T)
        /\ SumFunctionOnSet(g, T \cup {x}) = g[x] + SumFunctionOnSet(g, T)
        /\ SumFunctionOnSet(h, T \cup {x}) = h[x] + SumFunctionOnSet(h, T)
    BY <2>1, SumAdd
  <2>3. /\ SumFunctionOnSet(f, T) \in Int /\ SumFunctionOnSet(g, T) \in Int
        /\ SumFunctionOnSet(h, T) \in Int
    BY <2>1, SumType
  <2>4. SumFunctionOnSet(h, T) = SumFunctionOnSet(f, T) + SumFunctionOnSet(g, T)
    BY <1>2
  <2>5. h[x] = f[x] + g[x] /\ f[x] \in Int /\ g[x] \in Int
    OBVIOUS
  <2> QED BY <2>2, <2>3, <2>4, <2>5
<1>3. S \in P
  <2> HIDE DEF P
  <2> QED BY <1>1, <1>2, SubsetInduction
<1> QED BY <1>3 DEF Total, SumFunction

\* The total of one entry more.
LEMMA TotalExtends ==
  ASSUME NEW n \in Nat, NEW f \in [1..n -> Int], NEW g \in [1..(n + 1) -> Int],
         \A i \in 1..n : g[i] = f[i]
  PROVE  Total(g) = Total(f) + g[n + 1]
<1>1. 1..(n + 1) = (1..n) \cup {n + 1} /\ n + 1 \notin 1..n
  OBVIOUS
<1>2. SumFunctionOnSet(g, (1..n) \cup {n + 1}) = g[n + 1] + SumFunctionOnSet(g, 1..n)
  BY <1>1, FiniteIds, SumAdd
<1>3. SumFunctionOnSet(g, 1..n) = SumFunctionOnSet(f, 1..n)
  BY <1>1, FiniteIds, SumEqual
<1>4. SumFunctionOnSet(f, 1..n) \in Int /\ g[n + 1] \in Int
  BY FiniteIds, SumType
<1>5. Total(g) = SumFunctionOnSet(g, 1..(n + 1)) /\ Total(f) = SumFunctionOnSet(f, 1..n)
  <2>1. DOMAIN g = 1..(n + 1) /\ DOMAIN f = 1..n
    OBVIOUS
  <2>2. Total(g) = SumFunctionOnSet(g, DOMAIN g)
    BY Zenon DEF Total, SumFunction
  <2>3. Total(f) = SumFunctionOnSet(f, DOMAIN f)
    BY Zenon DEF Total, SumFunction
  <2> QED BY <2>1, <2>2, <2>3
<1>6. SumFunctionOnSet(g, 1..(n + 1)) = g[n + 1] + SumFunctionOnSet(f, 1..n)
  BY <1>1, <1>2, <1>3
<1> QED BY <1>4, <1>5, <1>6

-----------------------------------------------------------------------------
\* What is drawn, and the turns of the restorer.

\* A prefix of a sum.
LEMMA BeforeType ==
  ASSUME NEW m \in Nat, NEW f \in [1..m -> Nat], NEW i \in 1..m
  PROVE  Before(f, i) \in Nat
<1>1. 1..(i - 1) \subseteq 1..m /\ IsFiniteSet(1..(i - 1))
  BY FiniteIds
<1>2. SumFunctionOnSet(f, 1..(i - 1)) \in Int
  BY <1>1, SumType
<1>3. SumFunctionOnSet(f, {}) <= SumFunctionOnSet(f, 1..(i - 1))
  BY <1>1, SumSubset
<1> QED BY <1>2, <1>3, SumEmpty DEF Before

\* Units are drawn from entries that have them.
LEMMA DrawnType ==
  ASSUME NEW m \in Nat, NEW f \in [1..m -> Nat], NEW u \in Int
  PROVE  /\ Drawn(f, u) \in [1..m -> Nat]
         /\ \A i \in 1..m : Drawn(f, u)[i] <= f[i]
         /\ u <= 0 => \A i \in 1..m : Drawn(f, u)[i] = 0
BY BeforeType DEF Drawn, Lesser, Greater

\* Drawing more takes no less from any entry.
LEMMA DrawnGrows ==
  ASSUME NEW m \in Nat, NEW f \in [1..m -> Nat], NEW u \in Int, NEW v \in Int, u <= v
  PROVE  \A i \in 1..m : Drawn(f, u)[i] <= Drawn(f, v)[i]
BY BeforeType DEF Drawn, Lesser, Greater

\* As many units are drawn as are wanted, or all there are.
LEMMA DrawnTotal ==
  ASSUME NEW m \in Nat, NEW f \in [1..m -> Nat], NEW u \in Nat
  PROVE  Total(Drawn(f, u)) = Lesser(u, Total(f))
<1> DEFINE g == Drawn(f, u)
           Q == {k \in Nat : k <= m => SumFunctionOnSet(g, 1..k) = Lesser(u, SumFunctionOnSet(f, 1..k))}
<1>0. g \in [1..m -> Nat]
  <2>1. u \in Int
    OBVIOUS
  <2> QED BY <2>1, DrawnType
<1>00. \A i \in 1..m : g[i] = Lesser(f[i], Greater(0, u - SumFunctionOnSet(f, 1..(i - 1))))
  BY DEF Drawn, Before
<1> HIDE DEF g
<1>1. 0 \in Q
  <2>1. 1..0 = {}
    OBVIOUS
  <2> QED BY <2>1, SumEmpty DEF Lesser
<1>2. ASSUME NEW k \in Nat, k \in Q PROVE k + 1 \in Q
  <2>1. SUFFICES ASSUME k + 1 <= m
                 PROVE  SumFunctionOnSet(g, 1..(k + 1)) = Lesser(u, SumFunctionOnSet(f, 1..(k + 1)))
    OBVIOUS
  <2>2. 1..(k + 1) = (1..k) \cup {k + 1} /\ k + 1 \notin 1..k /\ 1..(k + 1) \subseteq 1..m /\ k + 1 \in 1..m
    BY <2>1
  <2>3. /\ SumFunctionOnSet(g, 1..(k + 1)) = g[k + 1] + SumFunctionOnSet(g, 1..k)
        /\ SumFunctionOnSet(f, 1..(k + 1)) = f[k + 1] + SumFunctionOnSet(f, 1..k)
    <3>1. \A y \in (1..k) \cup {k + 1} : f[y] \in Int /\ g[y] \in Int
      BY <1>0, <2>2
    <3>2. IsFiniteSet(1..k) /\ k + 1 \notin 1..k
      BY FiniteIds
    <3>3. SumFunctionOnSet(g, (1..k) \cup {k + 1}) = g[k + 1] + SumFunctionOnSet(g, 1..k)
      BY <3>1, <3>2, SumAdd
    <3>4. SumFunctionOnSet(f, (1..k) \cup {k + 1}) = f[k + 1] + SumFunctionOnSet(f, 1..k)
      BY <3>1, <3>2, SumAdd
    <3> QED BY <2>2, <3>3, <3>4
  <2>4. SumFunctionOnSet(g, 1..k) = Lesser(u, SumFunctionOnSet(f, 1..k))
    BY <1>2, <2>1
  <2>5. g[k + 1] = Lesser(f[k + 1], Greater(0, u - SumFunctionOnSet(f, 1..k)))
    <3>1. (k + 1) - 1 = k
      OBVIOUS
    <3> QED BY <1>00, <2>2, <3>1
  <2>6. SumFunctionOnSet(f, 1..k) \in Nat /\ f[k + 1] \in Nat
    <3>1. SumFunctionOnSet(f, 1..((k + 1) - 1)) \in Nat
      BY <2>2, BeforeType DEF Before
    <3>2. (k + 1) - 1 = k
      OBVIOUS
    <3> QED BY <2>2, <3>1, <3>2
  <2> DEFINE sf == SumFunctionOnSet(f, 1..k)
             x == f[k + 1]
  <2>7. g[k + 1] + Lesser(u, sf) = Lesser(u, x + sf)
    <3>1. g[k + 1] = Lesser(x, Greater(0, u - sf)) /\ sf \in Nat /\ x \in Nat
      BY <2>5, <2>6
    <3> HIDE DEF sf, x
    <3> QED BY <3>1 DEF Lesser, Greater
  <2> QED BY <2>3, <2>4, <2>7
<1>3. m \in Q
  <2> HIDE DEF Q
  <2> QED BY <1>1, <1>2, NatSetInduction
<1>4. SumFunctionOnSet(g, 1..m) = Lesser(u, SumFunctionOnSet(f, 1..m))
  BY <1>3
<1>5. Total(g) = SumFunctionOnSet(g, 1..m) /\ Total(f) = SumFunctionOnSet(f, 1..m)
  <2>1. DOMAIN g = 1..m /\ DOMAIN f = 1..m
    BY <1>0
  <2>2. Total(g) = SumFunctionOnSet(g, DOMAIN g)
    BY Zenon DEF Total, SumFunction
  <2>3. Total(f) = SumFunctionOnSet(f, DOMAIN f)
    BY Zenon DEF Total, SumFunction
  <2> QED BY <2>1, <2>2, <2>3
<1> QED BY <1>4, <1>5 DEF g

\* What two functions have in total when one is taken from the other.
LEMMA TotalMinus ==
  ASSUME NEW S, IsFiniteSet(S), NEW f \in [S -> Int], NEW g \in [S -> Int]
  PROVE  Minus(f, g) \in [S -> Int] /\ Total(Minus(f, g)) = Total(f) - Total(g)
<1>1. Minus(f, g) \in [S -> Int] /\ \A x \in S : f[x] = g[x] + Minus(f, g)[x]
  BY DEF Minus
<1>2. Total(f) = Total(g) + Total(Minus(f, g))
  <2> DEFINE h == Minus(f, g)
  <2>1. h \in [S -> Int] /\ \A x \in S : f[x] = g[x] + h[x]
    BY <1>1
  <2> HIDE DEF h
  <2>2. Total(f) = Total(g) + Total(h)
    BY <2>1, TotalPlus
  <2> QED BY <2>2 DEF h
<1>3. Total(f) \in Int /\ Total(g) \in Int /\ Total(Minus(f, g)) \in Int
  BY <1>1, TotalType
<1> QED BY <1>1, <1>2, <1>3

\* The recursion of _restore_source and _restore_debt has a solution.
Turn(r) == [x \in Requests |-> RestoreSource(r, x.book, x.source, x.units, x.excluded)]
Turning(n, at) == at = [i \in 0..n |-> IF i = 0 THEN Unrestored ELSE Turn(at[i - 1])]

\* The recursion of the two functions that call each other has a solution.
LEMMA TurningExists ==
  \A n \in Nat : \E at : Turning(n, at)
<1> DEFINE Q == {n \in Nat : \E at : Turning(n, at)}
<1>1. 0 \in Q
  <2>1. Turning(0, [i \in 0..0 |-> Unrestored])
    BY DEF Turning
  <2> QED BY <2>1
<1>2. ASSUME NEW n \in Nat, n \in Q PROVE n + 1 \in Q
  <2>1. PICK at : Turning(n, at)
    BY <1>2
  <2> DEFINE h == [i \in 0..(n + 1) |-> IF i = 0 THEN Unrestored ELSE Turn(at[i - 1])]
  <2>2. \A i \in 0..n : h[i] = at[i]
    <3>1. \A i \in 0..n : at[i] = IF i = 0 THEN Unrestored ELSE Turn(at[i - 1])
      BY <2>1 DEF Turning
    <3>2. \A i \in 0..n : i \in 0..(n + 1)
      OBVIOUS
    <3> QED BY <3>1, <3>2
  <2>3. \A i \in 0..(n + 1) : i # 0 => i - 1 \in 0..n
    OBVIOUS
  <2>4. Turning(n + 1, h)
    <3> SUFFICES h = [i \in 0..(n + 1) |-> IF i = 0 THEN Unrestored ELSE Turn(h[i - 1])]
      BY DEF Turning
    <3>1. \A i \in 0..(n + 1) : i # 0 => h[i - 1] = at[i - 1]
      <4> HIDE DEF h
      <4> QED BY <2>2, <2>3
    <3>2. \A i \in 0..(n + 1) : (IF i = 0 THEN Unrestored ELSE Turn(at[i - 1]))
                                 = (IF i = 0 THEN Unrestored ELSE Turn(h[i - 1]))
      <4> HIDE DEF h
      <4> QED BY <3>1
    <3> QED BY <3>2
  <2> HIDE DEF h
  <2> QED BY <2>4
<1>3. \A n \in Nat : n \in Q
  <2> HIDE DEF Q
  <2> QED BY <1>1, <1>2, NatSetInduction
<1> QED BY <1>3

\* It has one solution only, as far as any two of them reach.
LEMMA TurningUnique ==
  ASSUME NEW n \in Nat, NEW m \in Nat, NEW a, NEW b, Turning(n, a), Turning(m, b)
  PROVE  \A i \in Nat : i <= n /\ i <= m => a[i] = b[i]
<1> DEFINE Q == {i \in Nat : i <= n /\ i <= m => a[i] = b[i]}
<1>0. /\ \A i \in 0..n : a[i] = IF i = 0 THEN Unrestored ELSE Turn(a[i - 1])
      /\ \A i \in 0..m : b[i] = IF i = 0 THEN Unrestored ELSE Turn(b[i - 1])
  <2>1. \A i \in 0..n : a[i] = IF i = 0 THEN Unrestored ELSE Turn(a[i - 1])
    BY DEF Turning
  <2>2. \A i \in 0..m : b[i] = IF i = 0 THEN Unrestored ELSE Turn(b[i - 1])
    BY DEF Turning
  <2> QED BY <2>1, <2>2
<1>1. 0 \in Q
  BY <1>0
<1>2. ASSUME NEW i \in Nat, i \in Q PROVE i + 1 \in Q
  <2>1. SUFFICES ASSUME i + 1 <= n, i + 1 <= m PROVE a[i + 1] = b[i + 1]
    OBVIOUS
  <2>2. a[i] = b[i]
    BY <1>2, <2>1
  <2>3. i + 1 \in 0..n /\ i + 1 \in 0..m /\ i + 1 # 0 /\ (i + 1) - 1 = i
    BY <2>1
  <2>4. a[i + 1] = Turn(a[i]) /\ b[i + 1] = Turn(b[i])
    BY <1>0, <2>3
  <2> QED BY <2>2, <2>4
<1>3. \A i \in Nat : i \in Q
  <2> HIDE DEF Q
  <2> QED BY <1>1, <1>2, NatSetInduction
<1> QED BY <1>3

\* So a restorer is one turn of the restorer with a turn less.
LEMMA RestorerTurns ==
  /\ Restorer[0] = Unrestored
  /\ \A n \in Nat : Restorer[n + 1] = Turn(Restorer[n])
<1> DEFINE at == [n \in Nat |-> CHOOSE a : Turning(n, a)]
           g == [n \in Nat |-> at[n][n]]
<1>1. \A n \in Nat : Turning(n, at[n])
  BY TurningExists
<1> HIDE DEF at
<1>2. \A n \in Nat : g[n] = IF n = 0 THEN Unrestored ELSE Turn(g[n - 1])
  <2>1. SUFFICES ASSUME NEW n \in Nat PROVE at[n][n] = IF n = 0 THEN Unrestored ELSE Turn(g[n - 1])
    OBVIOUS
  <2>2. at[n] = [i \in 0..n |-> IF i = 0 THEN Unrestored ELSE Turn(at[n][i - 1])]
    BY <1>1 DEF Turning
  <2>3. at[n][n] = IF n = 0 THEN Unrestored ELSE Turn(at[n][n - 1])
    <3>1. n \in 0..n
      OBVIOUS
    <3> QED BY <2>2, <3>1
  <2>4. CASE n # 0
    <3>1. n - 1 \in Nat /\ n - 1 <= n /\ n - 1 <= n - 1
      BY <2>4
    <3>2. at[n][n - 1] = at[n - 1][n - 1]
      BY <1>1, <3>1, TurningUnique
    <3>3. g[n - 1] = at[n - 1][n - 1]
      BY <3>1
    <3> QED BY <2>3, <2>4, <3>2, <3>3
  <2> QED BY <2>3, <2>4
<1> DEFINE Solves(r) == r = [n \in Nat |-> IF n = 0 THEN Unrestored ELSE Turn(r[n - 1])]
<1>3. Solves(g)
  <2>1. g = [n \in Nat |-> g[n]]
    OBVIOUS
  <2> HIDE DEF g
  <2> QED BY <1>2, <2>1
<1> HIDE DEF g
<1>4. Restorer = CHOOSE r : Solves(r)
  BY DEF Restorer, Turn
<1>5. Solves(Restorer)
  <2> HIDE DEF Solves
  <2> QED BY <1>3, <1>4
<1>6. \A n \in Nat : Restorer[n] = IF n = 0 THEN Unrestored ELSE Turn(Restorer[n - 1])
  <2>1. Restorer = [n \in Nat |-> IF n = 0 THEN Unrestored ELSE Turn(Restorer[n - 1])]
    BY <1>5
  <2> QED BY <2>1
<1> QED BY <1>6

-----------------------------------------------------------------------------
\* What the books owe, hold and are worth, and what a return does to them.

\* What is left of a debt, paid or not; what a credit's place in the tables
\* holds; and what the tables say the wallet is worth.
Owing(b, d) == b.debts[d] + Funded(b, d)
FundedBy(b, t) == [d \in Ids |-> b.fund[d][t]]
OwedFor(b, t) == [d \in Ids |-> IF d \in Revocations(t) THEN Owing(b, d) ELSE 0]
Place(b, t) == b.lots[t] + Total(FundedBy(b, t)) - Total(OwedFor(b, t))
Worth(b) == Total(b.lots) - Total(b.debts)
Portion(x, y, units) == IF x = y THEN units ELSE 0

\* The types of what is read from the tables of a wallet.
LEMMA BooksType ==
  ASSUME NEW b \in Tables
  PROVE  /\ b.lots \in [Ids -> Nat] /\ b.debts \in [Ids -> Nat] /\ b.ok \in BOOLEAN
         /\ b.fund \in [Ids -> [Ids -> Nat]]
         /\ \A d \in Ids : b.lots[d] \in Nat /\ b.debts[d] \in Nat /\ b.fund[d] \in [Ids -> Nat]
         /\ \A d, s \in Ids : b.fund[d][s] \in Nat
         /\ \A d \in Ids : Funded(b, d) \in Nat /\ Owing(b, d) \in Nat
         /\ \A d, s \in Ids : b.fund[d][s] <= Funded(b, d)
         /\ \A t \in Ids : FundedBy(b, t) \in [Ids -> Nat] /\ OwedFor(b, t) \in [Ids -> Nat]
         /\ \A t \in Ids : Total(FundedBy(b, t)) \in Nat /\ Total(OwedFor(b, t)) \in Nat
         /\ \A t \in Ids : Place(b, t) \in Int
         /\ Total(b.lots) \in Nat /\ Total(b.debts) \in Nat /\ Worth(b) \in Int
<1>1. /\ b.lots \in [Ids -> Nat] /\ b.debts \in [Ids -> Nat] /\ b.ok \in BOOLEAN
      /\ b.fund \in [Ids -> [Ids -> Nat]]
  BY DEF Tables
<1>2. /\ \A d \in Ids : b.lots[d] \in Nat /\ b.debts[d] \in Nat /\ b.fund[d] \in [Ids -> Nat]
      /\ \A d, s \in Ids : b.fund[d][s] \in Nat
  BY <1>1
<1>3. ASSUME NEW d \in Ids PROVE Funded(b, d) \in Nat /\ \A s \in Ids : b.fund[d][s] <= Funded(b, d)
  BY <1>2, TotalNat, FiniteIds DEF Funded
<1>4. \A d \in Ids : Owing(b, d) \in Nat
  BY <1>2, <1>3 DEF Owing
<1>5. \A t \in Ids : FundedBy(b, t) \in [Ids -> Nat] /\ OwedFor(b, t) \in [Ids -> Nat]
  BY <1>2, <1>4 DEF FundedBy, OwedFor
<1>6. \A t \in Ids : Total(FundedBy(b, t)) \in Nat /\ Total(OwedFor(b, t)) \in Nat
  BY <1>5, TotalNat, FiniteIds
<1>7. \A t \in Ids : Place(b, t) \in Int
  BY <1>2, <1>6 DEF Place
<1>8. Total(b.lots) \in Nat /\ Total(b.debts) \in Nat
  BY <1>1, TotalNat, FiniteIds
<1> QED BY <1>1, <1>2, <1>3, <1>4, <1>5, <1>6, <1>7, <1>8 DEF Worth

\* Books that owe the same, but for one debt, and hold the same but for one lot.
LEMMA PaysDebt ==
  ASSUME NEW b \in Tables, NEW c \in Tables, NEW d \in Ids, NEW units \in Nat,
         c.lots = b.lots, c.fund = b.fund,
         c.debts[d] = b.debts[d] - units, \A e \in Ids \ {d} : c.debts[e] = b.debts[e]
  PROVE  /\ Worth(c) = Worth(b) + units
         /\ \A e \in Ids : Owing(c, e) = Owing(b, e) - Portion(e, d, units)
         /\ \A t \in Ids : Place(c, t) = Place(b, t) + IF d \in Revocations(t) THEN units ELSE 0
<1>1. Total(c.debts) = Total(b.debts) + c.debts[d] - b.debts[d]
  <2>1. b.debts \in [Ids -> Int] /\ c.debts \in [Ids -> Int]
    BY BooksType
  <2> QED BY ZenonT(40), <2>1, FiniteIds, TotalChange
<1>2. Worth(c) = Worth(b) + units
  BY <1>1, BooksType DEF Worth
<1>3. \A e \in Ids : Owing(c, e) = Owing(b, e) - Portion(e, d, units)
  BY BooksType DEF Owing, Funded, Portion
<1>4. ASSUME NEW t \in Ids
      PROVE  Place(c, t) = Place(b, t) + IF d \in Revocations(t) THEN units ELSE 0
  <2>1. Total(OwedFor(c, t)) = Total(OwedFor(b, t)) + OwedFor(c, t)[d] - OwedFor(b, t)[d]
    <3>1. \A e \in Ids \ {d} : OwedFor(c, t)[e] = OwedFor(b, t)[e]
      BY <1>3, BooksType DEF OwedFor, Portion
    <3>2. OwedFor(b, t) \in [Ids -> Int] /\ OwedFor(c, t) \in [Ids -> Int]
      BY BooksType
    <3> QED BY <3>1, <3>2, FiniteIds, TotalChange
  <2>2. OwedFor(c, t)[d] - OwedFor(b, t)[d] = IF d \in Revocations(t) THEN -units ELSE 0
    BY <1>3, BooksType DEF OwedFor, Portion
  <2>3. FundedBy(c, t) = FundedBy(b, t)
    BY DEF FundedBy
  <2>4. OwedFor(c, t)[d] \in Nat /\ OwedFor(b, t)[d] \in Nat
    BY BooksType
  <2> QED BY <2>1, <2>2, <2>3, <2>4, BooksType DEF Place
<1> QED BY <1>2, <1>3, <1>4

\* Books that hold the same, but for one funding.
LEMMA PaysFund ==
  ASSUME NEW b \in Tables, NEW c \in Tables, NEW d \in Ids, NEW s \in Ids, NEW units \in Nat,
         c.lots = b.lots, c.debts = b.debts,
         c.fund[d][s] = b.fund[d][s] - units,
         \A e, r \in Ids : <<e, r>> # <<d, s>> => c.fund[e][r] = b.fund[e][r]
  PROVE  /\ Worth(c) = Worth(b)
         /\ \A e \in Ids : Owing(c, e) = Owing(b, e) - Portion(e, d, units)
         /\ \A t \in Ids : Place(c, t) = Place(b, t) - Portion(t, s, units)
                                         + IF d \in Revocations(t) THEN units ELSE 0
<1>1. Worth(c) = Worth(b)
  BY DEF Worth
<1>2. ASSUME NEW e \in Ids PROVE Funded(c, e) = Funded(b, e) - Portion(e, d, units)
  <2>1. b.fund[e] \in [Ids -> Int] /\ c.fund[e] \in [Ids -> Int] /\ b.fund[e][s] \in Int
    BY BooksType
  <2>2. \A r \in Ids \ {s} : c.fund[e][r] = b.fund[e][r]
    OBVIOUS
  <2>3. Total(c.fund[e]) = Total(b.fund[e]) + c.fund[e][s] - b.fund[e][s]
    <3> DEFINE f == b.fund[e]
               g == c.fund[e]
    <3>1. f \in [Ids -> Int] /\ g \in [Ids -> Int] /\ \A r \in Ids \ {s} : g[r] = f[r]
      BY <2>1, <2>2
    <3> HIDE DEF f, g
    <3>2. Total(g) = Total(f) + g[s] - f[s]
      BY SMTT(30), <3>1, FiniteIds, TotalChange
    <3> QED BY <3>2 DEF f, g
  <2>4. c.fund[e][s] = b.fund[e][s] - Portion(e, d, units)
    BY <2>1 DEF Portion
  <2>5. Funded(b, e) \in Nat /\ Portion(e, d, units) \in Nat
    BY BooksType DEF Portion
  <2> QED BY <2>1, <2>3, <2>4, <2>5 DEF Funded
<1>3. \A e \in Ids : Owing(c, e) = Owing(b, e) - Portion(e, d, units)
  BY <1>2, BooksType DEF Owing, Portion
<1>4. ASSUME NEW t \in Ids
      PROVE  Place(c, t) = Place(b, t) - Portion(t, s, units)
                                       + IF d \in Revocations(t) THEN units ELSE 0
  <2>1. Total(OwedFor(c, t)) = Total(OwedFor(b, t)) + OwedFor(c, t)[d] - OwedFor(b, t)[d]
    <3>1. \A e \in Ids \ {d} : OwedFor(c, t)[e] = OwedFor(b, t)[e]
      BY <1>3, BooksType DEF OwedFor, Portion
    <3>2. OwedFor(b, t) \in [Ids -> Int] /\ OwedFor(c, t) \in [Ids -> Int]
      BY BooksType
    <3> QED BY <3>1, <3>2, FiniteIds, TotalChange
  <2>2. OwedFor(c, t)[d] - OwedFor(b, t)[d] = IF d \in Revocations(t) THEN -units ELSE 0
    BY <1>3, BooksType DEF OwedFor, Portion
  <2>3. Total(FundedBy(c, t)) = Total(FundedBy(b, t)) + FundedBy(c, t)[d] - FundedBy(b, t)[d]
    <3>1. \A e \in Ids \ {d} : FundedBy(c, t)[e] = FundedBy(b, t)[e]
      BY DEF FundedBy
    <3>2. FundedBy(b, t) \in [Ids -> Int] /\ FundedBy(c, t) \in [Ids -> Int]
      BY BooksType
    <3> QED BY <3>1, <3>2, FiniteIds, TotalChange
  <2>4. FundedBy(c, t)[d] - FundedBy(b, t)[d] = -Portion(t, s, units)
    BY BooksType DEF FundedBy, Portion
  <2>5. /\ OwedFor(c, t)[d] \in Nat /\ OwedFor(b, t)[d] \in Nat
        /\ FundedBy(c, t)[d] \in Nat /\ FundedBy(b, t)[d] \in Nat /\ Portion(t, s, units) \in Nat
    BY BooksType DEF Portion
  <2> QED BY <2>1, <2>2, <2>3, <2>4, <2>5, BooksType DEF Place
<1> QED BY <1>1, <1>3, <1>4

\* Books that owe the same and hold the same, but for one lot.
LEMMA GainsLot ==
  ASSUME NEW b \in Tables, NEW c \in Tables, NEW s \in Ids, NEW units \in Int,
         c.debts = b.debts, c.fund = b.fund,
         c.lots[s] = b.lots[s] + units, \A t \in Ids \ {s} : c.lots[t] = b.lots[t]
  PROVE  /\ Worth(c) = Worth(b) + units
         /\ \A e \in Ids : Owing(c, e) = Owing(b, e)
         /\ \A t \in Ids : Place(c, t) = Place(b, t) + Portion(t, s, units)
<1>1. Total(c.lots) = Total(b.lots) + c.lots[s] - b.lots[s]
  <2>1. b.lots \in [Ids -> Int] /\ c.lots \in [Ids -> Int]
    BY BooksType
  <2> QED BY <2>1, FiniteIds, TotalChange
<1>2. \A e \in Ids : Owing(c, e) = Owing(b, e)
  BY DEF Owing, Funded
<1>3. \A t \in Ids : FundedBy(c, t) = FundedBy(b, t) /\ OwedFor(c, t) = OwedFor(b, t)
  BY <1>2 DEF FundedBy, OwedFor
<1> QED BY <1>1, <1>2, <1>3, BooksType DEF Worth, Place, Portion

-----------------------------------------------------------------------------
\* A transaction whose debt the walks come to: it reverses another.
Reverses(e) == e \in Posted /\ txns[e].ref # 0

\* No revocation of the credit was paid with the credit itself.
Unmixed(b, t) == \A d \in Revocations(t) : b.fund[d][t] = 0
PaidUp(b, t) == \A d \in Revocations(t) : Owing(b, d) = 0

\* What returning units to a source, or against a debt, does to the tables.
Restored(b, r, units, source, debtor, loose) ==
  /\ r \in Tables
  /\ r.ok =>
       /\ b.ok
       /\ Worth(r) = Worth(b) + units
       /\ \A t \in Ids : Place(r, t) = Place(b, t) + Portion(t, source, units)
       /\ \A e \in Ids : /\ Owing(r, e) <= Owing(b, e) - Portion(e, debtor, units)
                         /\ ~Reverses(e) => Owing(r, e) = Owing(b, e) - Portion(e, debtor, units)
       /\ \A e \in Ids : r.debts[e] <= b.debts[e]
       /\ \A e, s \in Ids : r.fund[e][s] <= b.fund[e][s]
       /\ \A t \in Ids : ~HasLot(t) => r.lots[t] = b.lots[t]
       /\ \A t \in Ids \ loose : Unmixed(b, t) => r.lots[t] <= b.lots[t] \/ PaidUp(r, t)

\* A source whose own revocation is the debt being refunded is not walked.
Loose(source, excluded) == {t \in {source} : excluded \in Revocations(t)}
Restores(restore) ==
  \A x \in Requests :
    Restored(x.book, restore[x], x.units, x.source, 0, Loose(x.source, x.excluded))

\* Two returns, one after the other, are a return of both amounts.
LEMMA RestoredTwice ==
  ASSUME NEW a \in Tables, NEW b, NEW c, NEW u \in Nat, NEW v \in Nat, NEW source, NEW debtor, NEW loose,
         Posted \subseteq Ids,
         Restored(a, b, u, source, debtor, loose), Restored(b, c, v, source, debtor, loose)
  PROVE  Restored(a, c, u + v, source, debtor, loose)
<1>1. b \in Tables /\ c \in Tables
  BY DEF Restored
<1> SUFFICES ASSUME c.ok
             PROVE  Restored(a, c, u + v, source, debtor, loose)
  BY <1>1 DEF Restored
<1>2. b.ok /\ a.ok
  BY DEF Restored
<1>3. Worth(c) = Worth(a) + (u + v)
  BY <1>1, <1>2, BooksType DEF Restored
<1>4. \A t \in Ids : Place(c, t) = Place(a, t) + Portion(t, source, u + v)
  BY <1>1, <1>2, BooksType DEF Restored, Portion
<1>5. \A e \in Ids : /\ Owing(c, e) <= Owing(a, e) - Portion(e, debtor, u + v)
                     /\ ~Reverses(e) => Owing(c, e) = Owing(a, e) - Portion(e, debtor, u + v)
  BY <1>1, <1>2, BooksType DEF Restored, Portion
<1>6. /\ \A e \in Ids : c.debts[e] <= a.debts[e]
      /\ \A e, s \in Ids : c.fund[e][s] <= a.fund[e][s]
      /\ \A t \in Ids : ~HasLot(t) => c.lots[t] = a.lots[t]
  <2>1. \A e \in Ids : c.debts[e] <= a.debts[e]
    BY <1>1, <1>2, BooksType DEF Restored
  <2>2. ASSUME NEW e \in Ids, NEW s \in Ids PROVE c.fund[e][s] <= a.fund[e][s]
    <3>1. a.fund[e][s] \in Nat /\ b.fund[e][s] \in Nat /\ c.fund[e][s] \in Nat
      BY <1>1, BooksType
    <3>2. c.fund[e][s] <= b.fund[e][s] /\ b.fund[e][s] <= a.fund[e][s]
      BY <1>2 DEF Restored
    <3> QED BY <3>1, <3>2
  <2>3. \A t \in Ids : ~HasLot(t) => c.lots[t] = a.lots[t]
    BY <1>2 DEF Restored
  <2> QED BY <2>1, <2>2, <2>3
<1>7. ASSUME NEW t \in Ids \ loose, Unmixed(a, t)
      PROVE  c.lots[t] <= a.lots[t] \/ PaidUp(c, t)
  <2>0. Revocations(t) \subseteq Ids
    BY DEF Revocations
  <2>1. Unmixed(b, t)
    BY <1>1, <1>2, <1>7, <2>0, BooksType DEF Restored, Unmixed
  <2>2. c.lots[t] <= b.lots[t] \/ PaidUp(c, t)
    BY <1>2, <2>1 DEF Restored
  <2>3. b.lots[t] <= a.lots[t] \/ PaidUp(b, t)
    BY <1>2, <1>7 DEF Restored
  <2>4. ASSUME PaidUp(b, t) PROVE PaidUp(c, t)
    <3>1. ASSUME NEW e \in Ids PROVE Owing(c, e) <= Owing(b, e)
      <4>1. Owing(c, e) <= Owing(b, e) - Portion(e, debtor, v)
        BY <1>2 DEF Restored
      <4>2. Owing(c, e) \in Nat /\ Owing(b, e) \in Nat /\ Portion(e, debtor, v) \in Nat
        BY <1>1, BooksType DEF Portion
      <4> QED BY <4>1, <4>2
    <3> QED BY <1>1, <2>0, <2>4, <3>1, BooksType DEF PaidUp
  <2> QED BY <1>1, <2>2, <2>3, <2>4, BooksType
<1> QED BY <1>1, <1>2, <1>3, <1>4, <1>5, <1>6, <1>7 DEF Restored

\* Tables that differ in their ok only.
LEMMA SameTables ==
  ASSUME NEW b, NEW c, c.lots = b.lots, c.debts = b.debts, c.fund = b.fund
  PROVE  /\ Worth(c) = Worth(b)
         /\ \A e : Owing(c, e) = Owing(b, e)
         /\ \A t : Place(c, t) = Place(b, t)
         /\ \A t : PaidUp(c, t) <=> PaidUp(b, t)
<1>1. \A e : Owing(c, e) = Owing(b, e)
  BY DEF Owing, Funded
<1>2. \A t : FundedBy(c, t) = FundedBy(b, t) /\ OwedFor(c, t) = OwedFor(b, t)
  BY <1>1 DEF FundedBy, OwedFor
<1>3. \A t : Place(c, t) = Place(b, t)
  BY <1>2 DEF Place
<1>4. Worth(c) = Worth(b)
  BY DEF Worth
<1> QED BY <1>1, <1>3, <1>4 DEF PaidUp

\* _restore_debt returns its units against the debt, provided that what it
\* calls returns them to sources.
LEMMA RestoresDebt ==
  ASSUME NEW restore, Restores(restore), Posted \subseteq Ids,
         NEW b \in Tables, NEW d \in Ids, NEW units \in Nat,
         \A t \in Ids : d \in Revocations(t) <=> t = txns[d].ref
  PROVE  Restored(b, RestoreDebt(restore, b, d, units), units, txns[d].ref, d, {})
<1> DEFINE unpaid == Lesser(units, b.debts[d])
           first == [b EXCEPT !.debts[d] = @ - unpaid]
           start == [book |-> first, left |-> units - unpaid]
           good == {at \in Passes : at.left <= units
                                    /\ Restored(b, at.book, units - at.left, txns[d].ref, d, {})}
           Refund == [s \in Ids |-> [at \in Passes |->
             LET amount == Lesser(at.left, at.book.fund[d][s])
                 paidBack == [at.book EXCEPT !.fund[d][s] = @ - amount]
             IN  IF amount = 0 THEN at
                 ELSE [book |-> restore[[book |-> paidBack, source |-> s, units |-> amount, excluded |-> d]],
                       left |-> at.left - amount]]]
           end == Walk(Refund, start)
<1>1. start \in good
  <2>1. unpaid \in Nat /\ unpaid <= units /\ unpaid <= b.debts[d]
    BY BooksType DEF Lesser
  <2> HIDE DEF unpaid
  <2>2. first \in Tables
    <3>1. b.debts[d] - unpaid \in Nat
      BY <2>1, BooksType
    <3>2. [b.debts EXCEPT ![d] = b.debts[d] - unpaid] \in [Ids -> Nat]
      BY <3>1, BooksType
    <3> QED BY <3>2 DEF Tables
  <2>3. /\ first.lots = b.lots /\ first.fund = b.fund /\ first.ok = b.ok
        /\ first.debts[d] = b.debts[d] - unpaid
        /\ \A e \in Ids \ {d} : first.debts[e] = b.debts[e]
    BY DEF Tables
  <2> HIDE DEF first
  <2>4. /\ Worth(first) = Worth(b) + unpaid
        /\ \A e \in Ids : Owing(first, e) = Owing(b, e) - Portion(e, d, unpaid)
        /\ \A t \in Ids : Place(first, t) = Place(b, t) + IF d \in Revocations(t) THEN unpaid ELSE 0
    BY <2>1, <2>2, <2>3, PaysDebt
  <2>5. \A t \in Ids : Place(first, t) = Place(b, t) + Portion(t, txns[d].ref, unpaid)
    BY <2>4 DEF Portion
  <2>6. \A e \in Ids : /\ Owing(first, e) <= Owing(b, e) - Portion(e, d, unpaid)
                       /\ first.debts[e] <= b.debts[e]
    <3> SUFFICES ASSUME NEW e \in Ids
                 PROVE  /\ Owing(first, e) <= Owing(b, e) - Portion(e, d, unpaid)
                        /\ first.debts[e] <= b.debts[e]
      OBVIOUS
    <3>1. Owing(first, e) \in Nat /\ first.debts[e] \in Nat /\ b.debts[e] \in Nat
      BY <2>2, BooksType
    <3> QED BY <2>1, <2>3, <2>4, <3>1
  <2>7. /\ \A e, s \in Ids : first.fund[e][s] <= b.fund[e][s]
        /\ \A t \in Ids : first.lots[t] <= b.lots[t]
    BY <2>3, BooksType
  <2>8. Restored(b, first, unpaid, txns[d].ref, d, {})
    BY <2>2, <2>3, <2>4, <2>5, <2>6, <2>7 DEF Restored
  <2>9. units - unpaid \in Nat /\ units - (units - unpaid) = unpaid /\ units - unpaid <= units
    BY <2>1
  <2> QED BY <2>2, <2>8, <2>9 DEF Passes
<1>2. ASSUME NEW s \in Ids, NEW at \in good PROVE Refund[s][at] \in good
  <2> DEFINE amount == Lesser(at.left, at.book.fund[d][s])
             paidBack == [at.book EXCEPT !.fund[d][s] = @ - amount]
             q == [book |-> paidBack, source |-> s, units |-> amount, excluded |-> d]
  <2>1. at \in Passes /\ at.book \in Tables /\ at.left \in Nat /\ at.left <= units
    BY DEF Passes
  <2>2. Refund[s][at] = IF amount = 0 THEN at ELSE [book |-> restore[q], left |-> at.left - amount]
    BY <2>1
  <2>3. amount \in Nat /\ amount <= at.left /\ amount <= at.book.fund[d][s]
    BY <2>1, BooksType DEF Lesser
  <2> HIDE DEF amount, Refund
  <2>4. SUFFICES ASSUME amount # 0
                 PROVE  [book |-> restore[q], left |-> at.left - amount] \in good
    BY <2>2
  <2>5. paidBack \in Tables
    <3> DEFINE fund == at.book.fund
    <3>1. fund \in [Ids -> [Ids -> Nat]] /\ amount <= fund[d][s] /\ fund[d][s] \in Nat
      BY <2>1, <2>3, BooksType
    <3>2. paidBack = [at.book EXCEPT !.fund = [fund EXCEPT ![d] = [fund[d] EXCEPT ![s] = fund[d][s] - amount]]]
      BY <2>1 DEF Tables
    <3> HIDE DEF fund
    <3>3. fund[d] \in [Ids -> Nat] /\ fund[d][s] - amount \in Nat
      BY <2>3, <3>1
    <3>4. [fund[d] EXCEPT ![s] = fund[d][s] - amount] \in [Ids -> Nat]
      BY <3>3
    <3>5. [fund EXCEPT ![d] = [fund[d] EXCEPT ![s] = fund[d][s] - amount]] \in [Ids -> [Ids -> Nat]]
      BY <3>1, <3>4
    <3> QED BY <2>1, <3>2, <3>5 DEF Tables
  <2>6. /\ paidBack.lots = at.book.lots /\ paidBack.debts = at.book.debts /\ paidBack.ok = at.book.ok
        /\ paidBack.fund[d][s] = at.book.fund[d][s] - amount
        /\ \A e, r \in Ids : <<e, r>> # <<d, s>> => paidBack.fund[e][r] = at.book.fund[e][r]
    BY <2>1 DEF Tables
  <2> HIDE DEF paidBack
  <2>7. /\ Worth(paidBack) = Worth(at.book)
        /\ \A e \in Ids : Owing(paidBack, e) = Owing(at.book, e) - Portion(e, d, amount)
        /\ \A t \in Ids : Place(paidBack, t) = Place(at.book, t) - Portion(t, s, amount)
                                               + IF d \in Revocations(t) THEN amount ELSE 0
    BY SMTT(30), <2>1, <2>3, <2>5, <2>6, PaysFund
  <2>8. q \in Requests /\ q.book = paidBack /\ q.source = s /\ q.units = amount /\ q.excluded = d
    BY <2>3, <2>5 DEF Requests
  <2> HIDE DEF q
  <2> DEFINE r == restore[q]
  <2>9. Restored(paidBack, r, amount, s, 0, Loose(s, d))
    BY <2>8 DEF Restores
  <2> HIDE DEF r
  <2>10. r \in Tables
    BY <2>9 DEF Restored
  <2>11. Restored(at.book, r, amount, txns[d].ref, d, {})
    <3> SUFFICES ASSUME r.ok
                 PROVE  Restored(at.book, r, amount, txns[d].ref, d, {})
      BY <2>10 DEF Restored
    <3>1. at.book.ok /\ Worth(r) = Worth(at.book) + amount
      BY <2>6, <2>7, <2>9 DEF Restored
    <3>2. ASSUME NEW t \in Ids PROVE Place(r, t) = Place(at.book, t) + Portion(t, txns[d].ref, amount)
      <4>1. Place(r, t) = Place(paidBack, t) + Portion(t, s, amount)
        BY <2>9 DEF Restored
      <4>2. Place(at.book, t) \in Int /\ Place(paidBack, t) \in Int /\ Portion(t, s, amount) \in Nat
        BY <2>1, <2>3, <2>5, BooksType DEF Portion
      <4> QED BY <2>3, <2>7, <4>1, <4>2 DEF Portion
    <3>3. ASSUME NEW e \in Ids
          PROVE  /\ Owing(r, e) <= Owing(at.book, e) - Portion(e, d, amount)
                 /\ ~Reverses(e) => Owing(r, e) = Owing(at.book, e) - Portion(e, d, amount)
                 /\ r.debts[e] <= at.book.debts[e]
      <4>1. /\ Owing(r, e) <= Owing(paidBack, e) - Portion(e, 0, amount)
            /\ ~Reverses(e) => Owing(r, e) = Owing(paidBack, e) - Portion(e, 0, amount)
            /\ r.debts[e] <= paidBack.debts[e]
        BY <2>9 DEF Restored
      <4>2. Portion(e, 0, amount) = 0
        BY DEF Portion, Ids
      <4>3. Owing(paidBack, e) \in Nat
        BY <2>5, BooksType
      <4> QED BY <2>6, <2>7, <4>1, <4>2, <4>3
    <3>4. ASSUME NEW e \in Ids, NEW z \in Ids PROVE paidBack.fund[e][z] <= at.book.fund[e][z]
      <4>1. paidBack.fund[e][z] \in Nat /\ at.book.fund[e][z] \in Nat
        BY <2>1, <2>5, BooksType
      <4>2. CASE <<e, z>> # <<d, s>>
        BY <2>6, <4>1, <4>2
      <4>3. CASE e = d /\ z = s
        BY <2>3, <2>6, <4>1, <4>3
      <4> QED BY <4>2, <4>3
    <3>5. ASSUME NEW e \in Ids, NEW z \in Ids PROVE r.fund[e][z] <= at.book.fund[e][z]
      <4>1. r.fund[e][z] <= paidBack.fund[e][z]
        BY <2>9 DEF Restored
      <4>2. paidBack.fund[e][z] \in Nat /\ at.book.fund[e][z] \in Nat /\ r.fund[e][z] \in Nat
        BY <2>1, <2>5, <2>10, BooksType
      <4> QED BY <3>4, <4>1, <4>2
    <3>6. \A t \in Ids : ~HasLot(t) => r.lots[t] = at.book.lots[t]
      BY <2>6, <2>9 DEF Restored
    <3>7. ASSUME NEW t \in Ids, Unmixed(at.book, t)
          PROVE  r.lots[t] <= at.book.lots[t] \/ PaidUp(r, t)
      <4>1. Unmixed(paidBack, t)
        <5>1. ASSUME NEW e \in Revocations(t) PROVE paidBack.fund[e][t] = 0
          <6>1. e \in Ids /\ at.book.fund[e][t] = 0
            BY <3>7 DEF Unmixed, Revocations
          <6>2. paidBack.fund[e][t] <= 0 /\ paidBack.fund[e][t] \in Nat
            BY <2>5, <3>4, <6>1, BooksType
          <6> QED BY <6>2
        <5> QED BY <5>1 DEF Unmixed
      <4>2. t \notin Loose(s, d)
        BY <2>3, <2>4, <3>7 DEF Loose, Unmixed
      <4>3. r.lots[t] <= paidBack.lots[t] \/ PaidUp(r, t)
        BY <2>9, <4>1, <4>2 DEF Restored
      <4> QED BY <2>6, <4>3
    <3> QED BY <2>10, <3>1, <3>2, <3>3, <3>5, <3>6, <3>7 DEF Restored
  <2>12. Restored(b, r, (units - at.left) + amount, txns[d].ref, d, {})
    <3>1. units - at.left \in Nat
      BY <2>1
    <3>2. Restored(b, at.book, units - at.left, txns[d].ref, d, {})
      OBVIOUS
    <3> HIDE DEF good
    <3> QED BY <2>3, <2>11, <3>1, <3>2, RestoredTwice
  <2>13. /\ (units - at.left) + amount = units - (at.left - amount)
         /\ at.left - amount \in Nat /\ at.left - amount <= units
    BY <2>1, <2>3
  <2>14. [book |-> r, left |-> at.left - amount] \in Passes
    BY <2>10, <2>13 DEF Passes
  <2>15. [book |-> r, left |-> at.left - amount] \in good
    BY <2>12, <2>13, <2>14
  <2> HIDE DEF good
  <2> QED BY <2>15 DEF r
<1>3. end \in good
  <2> DEFINE inv == [i \in 0..MaxTransactions |-> good]
  <2>1. \A i \in Ids : i \in 0..MaxTransactions /\ i - 1 \in 0..MaxTransactions
    BY LedgerAssumption DEF Ids
  <2>2. 0 \in 0..MaxTransactions /\ MaxTransactions \in 0..MaxTransactions
    BY LedgerAssumption
  <2> HIDE DEF good, Refund, start
  <2>3. start \in inv[0] /\ \A i \in Ids : \A x \in inv[i - 1] : Refund[i][x] \in inv[i]
    BY <1>1, <1>2, <2>1, <2>2
  <2> HIDE DEF inv
  <2>4. end \in inv[MaxTransactions]
    BY <2>3, WalkInvariant
  <2> QED BY <2>2, <2>4 DEF inv
<1>4. RestoreDebt(restore, b, d, units) = [end.book EXCEPT !.ok = @ /\ end.left = 0]
  BY DEF RestoreDebt
<1>5. /\ end \in Passes /\ end.left <= units
      /\ Restored(b, end.book, units - end.left, txns[d].ref, d, {})
  <2> HIDE DEF end
  <2> QED BY <1>3
<1> HIDE DEF end, start, Refund, good
<1> DEFINE last == [end.book EXCEPT !.ok = @ /\ end.left = 0]
<1>6. end.book \in Tables /\ end.left \in Nat
  BY <1>5 DEF Passes
<1>7. /\ last \in Tables
      /\ last.lots = end.book.lots /\ last.debts = end.book.debts /\ last.fund = end.book.fund
      /\ last.ok => end.book.ok /\ end.left = 0
  BY <1>6 DEF Tables
<1> HIDE DEF last
<1>8. Restored(b, last, units, txns[d].ref, d, {})
  <2> SUFFICES ASSUME last.ok
               PROVE  Restored(b, last, units, txns[d].ref, d, {})
    BY <1>7 DEF Restored
  <2>1. end.left = 0 /\ units - end.left = units /\ end.book.ok
    BY <1>7
  <2>2. /\ Worth(last) = Worth(end.book)
        /\ \A e : Owing(last, e) = Owing(end.book, e)
        /\ \A t : Place(last, t) = Place(end.book, t)
        /\ \A t : PaidUp(last, t) <=> PaidUp(end.book, t)
    BY <1>7, SameTables
  <2> QED BY <1>5, <1>7, <2>1, <2>2 DEF Restored
<1> QED BY <1>4, <1>8 DEF last

\* Nothing that was not done changes nothing.
LEMMA RestoredNothing ==
  ASSUME NEW b \in Tables, NEW source, NEW debtor, NEW loose
  PROVE  Restored(b, b, 0, source, debtor, loose)
<1>1. \A x, y : Portion(x, y, 0) = 0
  BY DEF Portion
<1>2. \A e, s \in Ids : b.fund[e][s] \in Nat /\ b.debts[e] \in Nat /\ Owing(b, e) \in Nat /\ b.lots[e] \in Nat
  BY BooksType
<1>3. Worth(b) \in Int /\ \A t \in Ids : Place(b, t) \in Int
  BY BooksType
<1> QED BY <1>1, <1>2, <1>3 DEF Restored

\* _restore_source returns its units to the source, provided that what it calls
\* returns them to sources.
LEMMA RestoresSource ==
  ASSUME NEW restore, Restores(restore), Posted \subseteq Ids,
         NEW b \in Tables, NEW source \in Ids, NEW units \in Nat, NEW excluded \in Ids
  PROVE  Restored(b, RestoreSource(restore, b, source, units, excluded), units, source, 0,
                  Loose(source, excluded))
<1> DEFINE walked == Revocations(source) \ {excluded}
           start == [book |-> b, left |-> units]
           good(i) == {at \in Passes :
             /\ at.left <= units
             /\ Restored(b, at.book, units - at.left, source, 0, {})
             /\ at.book.ok /\ at.left > 0 => \A d \in walked : d <= i => Owing(at.book, d) = 0}
           Retire == [d \in Ids |-> [at \in Passes |->
             LET amount == Lesser(at.left, at.book.debts[d] + Funded(at.book, d))
             IN  IF d \notin Revocations(source) \ {excluded} \/ amount = 0 THEN at
                 ELSE [book |-> RestoreDebt(restore, at.book, d, amount), left |-> at.left - amount]]]
           end == Walk(Retire, start)
<1>0. walked \subseteq Ids
  BY DEF Revocations
<1>1. start \in good(0)
  <2>1. start \in Passes /\ units - units = 0 /\ units <= units
    BY DEF Passes
  <2>2. Restored(b, b, 0, source, 0, {})
    BY RestoredNothing
  <2>3. \A d \in walked : ~(d <= 0)
    BY <1>0 DEF Ids
  <2> HIDE DEF walked
  <2> QED BY <2>1, <2>2, <2>3
<1>2. ASSUME NEW d \in Ids, NEW at \in good(d - 1) PROVE Retire[d][at] \in good(d)
  <2> DEFINE amount == Lesser(at.left, Owing(at.book, d))
             r == RestoreDebt(restore, at.book, d, amount)
  <2>1. /\ at \in Passes /\ at.book \in Tables /\ at.left \in Nat /\ at.left <= units
        /\ Restored(b, at.book, units - at.left, source, 0, {})
        /\ at.book.ok /\ at.left > 0 => \A e \in walked : e <= d - 1 => Owing(at.book, e) = 0
    <3> HIDE DEF walked
    <3> QED BY DEF Passes
  <2>2. Retire[d][at] = IF d \notin walked \/ amount = 0 THEN at ELSE [book |-> r, left |-> at.left - amount]
    BY <2>1 DEF Owing
  <2>3. amount \in Nat /\ amount <= at.left /\ amount <= Owing(at.book, d) /\ Owing(at.book, d) \in Nat
        /\ (amount # Owing(at.book, d) => amount = at.left)
    BY <2>1, BooksType DEF Lesser
  <2>4. \A e \in walked : e <= d => e <= d - 1 \/ e = d
    BY <1>0 DEF Ids
  <2> HIDE DEF Retire, amount
  <2>5. CASE d \notin walked \/ amount = 0
    <3>1. at.book.ok /\ at.left > 0 => \A e \in walked : e <= d => Owing(at.book, e) = 0
      BY <2>1, <2>3, <2>4, <2>5
    <3> HIDE DEF walked
    <3> QED BY <2>1, <2>2, <2>5, <3>1
  <2>6. CASE d \in walked /\ amount # 0
    <3>1. d \in Posted /\ txns[d].ref = source /\ Reverses(d)
      BY <2>6 DEF Revocations, Reverses, Ids
    <3>2. \A t \in Ids : d \in Revocations(t) <=> t = txns[d].ref
      BY <2>6 DEF Revocations
    <3>3. Restored(at.book, r, amount, source, d, {})
      BY <2>1, <2>3, <3>1, <3>2, RestoresDebt
    <3> HIDE DEF r
    <3>4. r \in Tables
      BY <3>3 DEF Restored
    <3>5. ASSUME r.ok
          PROVE  \A e \in Ids : /\ Owing(r, e) <= Owing(at.book, e)
                                /\ Owing(r, e) <= Owing(at.book, e) - Portion(e, d, amount)
                                /\ ~Reverses(e) => Owing(r, e) = Owing(at.book, e)
      <4> SUFFICES ASSUME NEW e \in Ids
                   PROVE  /\ Owing(r, e) <= Owing(at.book, e)
                          /\ Owing(r, e) <= Owing(at.book, e) - Portion(e, d, amount)
                          /\ ~Reverses(e) => Owing(r, e) = Owing(at.book, e)
        OBVIOUS
      <4>1. /\ Owing(r, e) <= Owing(at.book, e) - Portion(e, d, amount)
            /\ ~Reverses(e) => Owing(r, e) = Owing(at.book, e) - Portion(e, d, amount)
        BY <3>3, <3>5 DEF Restored
      <4>2. Owing(r, e) \in Nat /\ Owing(at.book, e) \in Nat /\ Portion(e, d, amount) \in Nat
        BY <2>1, <2>3, <3>4, BooksType DEF Portion
      <4>3. ~Reverses(e) => Portion(e, d, amount) = 0
        BY <3>1 DEF Portion
      <4> QED BY <4>1, <4>2, <4>3
    <3>6. Restored(at.book, r, amount, source, 0, {})
      <4> SUFFICES ASSUME r.ok
                   PROVE  Restored(at.book, r, amount, source, 0, {})
        BY <3>4 DEF Restored
      <4>1. \A e \in Ids : Portion(e, 0, amount) = 0
        BY DEF Portion, Ids
      <4>2. \A e \in Ids : Owing(at.book, e) - 0 = Owing(at.book, e)
        BY <2>1, BooksType
      <4> QED BY <3>3, <3>5, <4>1, <4>2 DEF Restored
    <3>7. Restored(b, r, (units - at.left) + amount, source, 0, {})
      <4>1. units - at.left \in Nat
        BY <2>1
      <4> QED BY <2>1, <2>3, <3>6, <4>1, RestoredTwice
    <3>8. /\ (units - at.left) + amount = units - (at.left - amount)
          /\ at.left - amount \in Nat /\ at.left - amount <= units
      BY <2>1, <2>3
    <3>9. ASSUME r.ok, at.left - amount > 0
          PROVE  \A e \in walked : e <= d => Owing(r, e) = 0
      <4>1. at.book.ok /\ at.left > 0
        BY <2>1, <2>3, <3>3, <3>9 DEF Restored
      <4>2. ASSUME NEW e \in walked, e <= d PROVE Owing(r, e) = 0
        <5>1. e \in Ids /\ Owing(r, e) \in Nat
          BY <1>0, <3>4, BooksType
        <5>2. CASE e = d
          <6>1. amount = Owing(at.book, d)
            BY <2>1, <2>3, <3>9
          <6>2. Owing(r, e) <= Owing(at.book, d) - amount
            BY <3>5, <3>9, <5>1, <5>2 DEF Portion
          <6> QED BY <2>3, <5>1, <6>1, <6>2
        <5>3. CASE e <= d - 1
          <6>1. Owing(at.book, e) = 0
            BY <2>1, <4>1, <5>3
          <6>2. Owing(r, e) <= Owing(at.book, e)
            BY <3>5, <3>9, <5>1
          <6> QED BY <5>1, <6>1, <6>2
        <5> HIDE DEF walked
        <5> QED BY <2>4, <4>2, <5>2, <5>3
      <4> HIDE DEF walked
      <4> QED BY <4>2
    <3> DEFINE next == [book |-> r, left |-> at.left - amount]
    <3>10. next \in Passes /\ next.book = r /\ next.left = at.left - amount
      BY <3>4, <3>8 DEF Passes
    <3>11. Retire[d][at] = next
      BY <2>2, <2>6
    <3> HIDE DEF next, walked
    <3> QED BY <3>7, <3>8, <3>9, <3>10, <3>11
  <2> QED BY <2>5, <2>6
<1>3. end \in good(MaxTransactions)
  <2> DEFINE inv == [i \in 0..MaxTransactions |-> good(i)]
  <2>1. \A i \in Ids : i \in 0..MaxTransactions /\ i - 1 \in 0..MaxTransactions
    BY LedgerAssumption DEF Ids
  <2>2. 0 \in 0..MaxTransactions /\ MaxTransactions \in 0..MaxTransactions
    BY LedgerAssumption
  <2> HIDE DEF good, Retire, start
  <2>3. start \in inv[0] /\ \A i \in Ids : \A x \in inv[i - 1] : Retire[i][x] \in inv[i]
    BY <1>1, <1>2, <2>1, <2>2
  <2> HIDE DEF inv
  <2>4. end \in inv[MaxTransactions]
    BY <2>3, WalkInvariant
  <2> QED BY <2>2, <2>4 DEF inv
<1> DEFINE last == [end.book EXCEPT !.lots[source] = @ + end.left, !.ok = @ /\ HasLot(source)]
<1>4. RestoreSource(restore, b, source, units, excluded) = last
  BY DEF RestoreSource
<1>5. /\ end \in Passes /\ end.left <= units
      /\ Restored(b, end.book, units - end.left, source, 0, {})
      /\ end.book.ok /\ end.left > 0 => \A d \in walked : d <= MaxTransactions => Owing(end.book, d) = 0
  <2> HIDE DEF end, walked
  <2> QED BY <1>3
<1>6. /\ end.book.ok /\ end.left > 0 => \A d \in walked : Owing(end.book, d) = 0
      /\ end.book \in Tables /\ end.left \in Nat
  <2>1. \A d \in walked : d <= MaxTransactions
    BY <1>0 DEF Ids
  <2> HIDE DEF end, walked
  <2> QED BY <1>5, <2>1 DEF Passes
<1> HIDE DEF end, start, Retire, good
<1>7. last \in Tables
  <2>1. end.book.lots[source] + end.left \in Nat
    BY <1>6, BooksType
  <2>2. [end.book.lots EXCEPT ![source] = end.book.lots[source] + end.left] \in [Ids -> Nat]
    BY <1>6, <2>1, BooksType
  <2>3. (end.book.ok /\ HasLot(source)) \in BOOLEAN
    OBVIOUS
  <2> QED BY <1>6, <2>2, <2>3 DEF Tables
<1>8. /\ last.debts = end.book.debts /\ last.fund = end.book.fund
      /\ last.ok => end.book.ok /\ HasLot(source)
      /\ last.lots[source] = end.book.lots[source] + end.left
      /\ \A t \in Ids \ {source} : last.lots[t] = end.book.lots[t]
  BY <1>6 DEF Tables
<1> HIDE DEF last
<1>9. Restored(b, last, units, source, 0, Loose(source, excluded))
  <2> SUFFICES ASSUME last.ok
               PROVE  Restored(b, last, units, source, 0, Loose(source, excluded))
    BY <1>7 DEF Restored
  <2>1. /\ Worth(last) = Worth(end.book) + end.left
        /\ \A e \in Ids : Owing(last, e) = Owing(end.book, e)
        /\ \A t \in Ids : Place(last, t) = Place(end.book, t) + Portion(t, source, end.left)
    <3>1. end.left \in Int
      BY <1>6
    <3> QED BY <1>6, <1>7, <1>8, <3>1, GainsLot
  <2>2. b.ok /\ end.book.ok
    BY <1>5, <1>8 DEF Restored
  <2>3. Worth(last) = Worth(b) + units
    <3>1. Worth(end.book) = Worth(b) + (units - end.left)
      BY <1>5, <2>2 DEF Restored
    <3> QED BY <1>6, <2>1, <3>1, BooksType
  <2>4. ASSUME NEW t \in Ids PROVE Place(last, t) = Place(b, t) + Portion(t, source, units)
    <3>1. Place(end.book, t) = Place(b, t) + Portion(t, source, units - end.left)
      BY <1>5, <2>2 DEF Restored
    <3> QED BY <1>6, <2>1, <3>1, BooksType DEF Portion
  <2>5. \A e \in Ids : /\ Owing(last, e) <= Owing(b, e) - Portion(e, 0, units)
                       /\ ~Reverses(e) => Owing(last, e) = Owing(b, e) - Portion(e, 0, units)
    <3>1. \A e \in Ids : Portion(e, 0, units) = 0 /\ Portion(e, 0, units - end.left) = 0
      BY DEF Portion, Ids
    <3> QED BY <1>5, <2>1, <2>2, <3>1 DEF Restored
  <2>6. /\ \A e \in Ids : last.debts[e] <= b.debts[e]
        /\ \A e, s \in Ids : last.fund[e][s] <= b.fund[e][s]
    BY <1>5, <1>8, <2>2 DEF Restored
  <2>7. \A t \in Ids : ~HasLot(t) => last.lots[t] = b.lots[t]
    BY <1>5, <1>8, <2>2 DEF Restored
  <2>8. ASSUME NEW t \in Ids \ Loose(source, excluded), Unmixed(b, t)
        PROVE  last.lots[t] <= b.lots[t] \/ PaidUp(last, t)
    <3>1. end.book.lots[t] <= b.lots[t] \/ PaidUp(end.book, t)
      BY <1>5, <2>2, <2>8 DEF Restored
    <3>2. PaidUp(end.book, t) => PaidUp(last, t)
      <4>1. Revocations(t) \subseteq Ids
        BY DEF Revocations
      <4> QED BY <2>1, <4>1 DEF PaidUp
    <3>3. CASE t = source /\ end.left > 0
      <4>1. Revocations(source) = walked
        BY <2>8, <3>3 DEF Loose
      <4>2. PaidUp(end.book, t)
        BY <1>6, <2>2, <3>3, <4>1 DEF PaidUp
      <4> QED BY <3>2, <4>2
    <3>4. CASE t # source \/ end.left = 0
      <4>1. last.lots[t] = end.book.lots[t]
        BY <1>6, <1>8, <2>8, <3>4, BooksType
      <4> QED BY <3>1, <3>2, <4>1
    <3> QED BY <1>6, <3>3, <3>4
  <2> QED BY <1>7, <2>2, <2>3, <2>4, <2>5, <2>6, <2>7, <2>8 DEF Restored
<1> QED BY <1>4, <1>9

\* However often the two call each other.
LEMMA RestorerRestores ==
  ASSUME Posted \subseteq Ids
  PROVE  \A n \in Nat : Restores(Restorer[n])
<1> DEFINE Q == {n \in Nat : Restores(Restorer[n])}
<1>1. 0 \in Q
  <2>1. ASSUME NEW x \in Requests
        PROVE  Restored(x.book, Unrestored[x], x.units, x.source, 0, Loose(x.source, x.excluded))
    <3>1. x.book \in Tables
      BY DEF Requests
    <3>2. Unrestored[x] \in Tables /\ Unrestored[x].ok = FALSE
      BY <3>1 DEF Unrestored, Tables
    <3> QED BY <3>2 DEF Restored
  <2> QED BY <2>1, RestorerTurns DEF Restores
<1>2. ASSUME NEW n \in Nat, n \in Q PROVE n + 1 \in Q
  <2>1. Restores(Restorer[n])
    BY <1>2
  <2>2. ASSUME NEW x \in Requests
        PROVE  Restored(x.book, Restorer[n + 1][x], x.units, x.source, 0, Loose(x.source, x.excluded))
    <3>1. x.book \in Tables /\ x.source \in Ids /\ x.units \in Nat /\ x.excluded \in Ids
      BY DEF Requests
    <3>2. Restorer[n + 1][x] = RestoreSource(Restorer[n], x.book, x.source, x.units, x.excluded)
      BY RestorerTurns DEF Turn
    <3> QED BY <2>1, <3>1, <3>2, RestoresSource
  <2>3. Restores(Restorer[n + 1])
    BY <2>2 DEF Restores
  <2> QED BY <2>3
<1>3. \A n \in Nat : n \in Q
  <2> HIDE DEF Q
  <2> QED BY <1>1, <1>2, NatSetInduction
<1> QED BY <1>3

-----------------------------------------------------------------------------
\* The return of an allocation.

\* The tables after the units of an allocation went back to where they came from.
GaveBack(r, t, units, gains, freed) ==
  /\ r \in Tables
  /\ r.ok =>
       /\ book.ok
       /\ Worth(r) = Worth(book) + units
       /\ \A i \in Ids : Place(r, i) = Place(book, i) + gains[i]
       /\ \A e \in Ids : /\ Owing(r, e) <= Owing(book, e)
                         /\ ~Reverses(e) => Owing(r, e) = Owing(book, e) - Portion(e, t, freed)
       /\ \A e \in Ids : r.debts[e] <= book.debts[e]
       /\ \A e, s \in Ids : r.fund[e][s] <= book.fund[e][s]
       /\ \A i \in Ids : ~HasLot(i) => r.lots[i] = book.lots[i]
       /\ \A i \in Ids : Unmixed(book, i) => r.lots[i] <= book.lots[i] \/ PaidUp(r, i)

\* One more entry of an allocation that goes back.
LEMMA GivesBackMore ==
  ASSUME Posted \subseteq Ids, book \in Tables,
         NEW b, NEW t \in Ids, NEW units \in Nat, NEW gains \in [Ids -> Nat],
         GaveBack(b, t, units, gains, 0),
         NEW r, NEW more \in Nat, NEW source, NEW debtor \in {0, t},
         Restored(b, r, more, source, debtor, {}),
         NEW sum \in [Ids -> Nat], \A i \in Ids : sum[i] = gains[i] + Portion(i, source, more),
         NEW freed \in Nat, debtor = 0 => freed = 0, debtor = t => freed = more,
         NEW all \in Nat, all = units + more
  PROVE  GaveBack(r, t, all, sum, freed)
<1>1. b \in Tables /\ r \in Tables
  BY DEF Restored, GaveBack
<1> SUFFICES ASSUME r.ok
             PROVE  GaveBack(r, t, all, sum, freed)
  BY <1>1 DEF GaveBack
<1>2. b.ok /\ book.ok
  BY DEF Restored, GaveBack
<1>3. Worth(r) = Worth(book) + all
  <2>1. Worth(r) = Worth(b) + more /\ Worth(b) = Worth(book) + units
    BY <1>2 DEF Restored, GaveBack
  <2> QED BY <1>1, <2>1, BooksType
<1>4. ASSUME NEW i \in Ids PROVE Place(r, i) = Place(book, i) + sum[i]
  <2>1. Place(r, i) = Place(b, i) + Portion(i, source, more) /\ Place(b, i) = Place(book, i) + gains[i]
    BY <1>2 DEF Restored, GaveBack
  <2>2. Place(book, i) \in Int /\ gains[i] \in Nat /\ Portion(i, source, more) \in Nat
    BY BooksType DEF Portion
  <2> QED BY <2>1, <2>2
<1>5. ASSUME NEW e \in Ids
      PROVE  /\ Owing(r, e) <= Owing(b, e) /\ Owing(b, e) \in Nat
             /\ Owing(r, e) <= Owing(book, e)
             /\ ~Reverses(e) => Owing(r, e) = Owing(book, e) - Portion(e, t, freed)
  <2>1. /\ Owing(r, e) <= Owing(b, e) - Portion(e, debtor, more)
        /\ ~Reverses(e) => Owing(r, e) = Owing(b, e) - Portion(e, debtor, more)
    BY <1>2 DEF Restored
  <2>2. /\ Owing(b, e) <= Owing(book, e)
        /\ ~Reverses(e) => Owing(b, e) = Owing(book, e) - Portion(e, t, 0)
    BY <1>2 DEF GaveBack
  <2>3. Owing(b, e) \in Nat /\ Owing(book, e) \in Nat /\ Owing(r, e) \in Nat
    BY <1>1, BooksType
  <2>4. Portion(e, debtor, more) \in Nat /\ Portion(e, t, 0) = 0
    BY DEF Portion
  <2>5. Portion(e, debtor, more) = Portion(e, t, freed)
    <3>1. e # 0
      BY DEF Ids
    <3> QED BY <3>1 DEF Portion
  <2> QED BY <2>1, <2>2, <2>3, <2>4, <2>5
<1>6. ASSUME NEW e \in Ids PROVE r.debts[e] <= book.debts[e]
  <2>1. r.debts[e] <= b.debts[e] /\ b.debts[e] <= book.debts[e]
    BY <1>2 DEF Restored, GaveBack
  <2>2. r.debts[e] \in Nat /\ b.debts[e] \in Nat /\ book.debts[e] \in Nat
    BY <1>1, BooksType
  <2> QED BY <2>1, <2>2
<1>7. ASSUME NEW e \in Ids, NEW s \in Ids PROVE r.fund[e][s] <= book.fund[e][s]
  <2>1. r.fund[e][s] <= b.fund[e][s] /\ b.fund[e][s] <= book.fund[e][s]
    BY <1>2 DEF Restored, GaveBack
  <2>2. r.fund[e][s] \in Nat /\ b.fund[e][s] \in Nat /\ book.fund[e][s] \in Nat
    BY <1>1, BooksType
  <2> QED BY <2>1, <2>2
<1>8. \A i \in Ids : ~HasLot(i) => r.lots[i] = book.lots[i]
  BY <1>2 DEF Restored, GaveBack
<1>9. ASSUME NEW i \in Ids, Unmixed(book, i) PROVE r.lots[i] <= book.lots[i] \/ PaidUp(r, i)
  <2>0. Revocations(i) \subseteq Ids
    BY DEF Revocations
  <2>1. \A d \in Revocations(i) : b.fund[d][i] \in Nat /\ b.fund[d][i] <= book.fund[d][i] /\ book.fund[d][i] = 0
    BY <1>1, <1>2, <1>9, <2>0, BooksType DEF GaveBack, Unmixed
  <2>2. Unmixed(b, i)
    BY <2>1 DEF Unmixed
  <2>3. r.lots[i] <= b.lots[i] \/ PaidUp(r, i)
    BY <1>2, <2>2 DEF Restored
  <2>4. b.lots[i] <= book.lots[i] \/ PaidUp(b, i)
    BY <1>2, <1>9 DEF GaveBack
  <2>5. PaidUp(b, i) => PaidUp(r, i)
    BY <1>1, <1>5, <2>0, BooksType DEF PaidUp
  <2>6. r.lots[i] \in Nat /\ b.lots[i] \in Nat /\ book.lots[i] \in Nat
    BY <1>1, BooksType
  <2> QED BY <2>3, <2>4, <2>5, <2>6
<1> QED BY <1>1, <1>2, <1>3, <1>4, <1>5, <1>6, <1>7, <1>8, <1>9 DEF GaveBack

\* The turns that are allowed are a number.
LEMMA TurnsType ==
  ASSUME NEW b \in Tables
  PROVE  Turns(b) \in Nat
<1>1. [d \in Ids |-> Funded(b, d)] \in [Ids -> Nat]
  BY BooksType
<1>2. Total([d \in Ids |-> Funded(b, d)]) \in Nat
  BY <1>1, TotalNat, FiniteIds
<1> QED BY <1>2 DEF Turns

\* A whole return: every credit gets back what the allocation took from it.
LEMMA ReturnedGivesBack ==
  ASSUME Posted \subseteq Ids, book \in Tables, book.ok,
         NEW t \in Posted, txns[t].ref = 0, NEW back \in [Parts -> Nat]
  PROVE  GaveBack(AfterReturn(t, back), t, Total(back), back, back[Debt])
<1> DEFINE Return == [i \in Ids |-> [b \in Tables |->
             IF back[i] = 0 THEN b
             ELSE Restorer[Turns(b)][[book |-> b, source |-> i, units |-> back[i], excluded |-> t]]]]
           gains(n) == [i \in Ids |-> IF i <= n THEN back[i] ELSE 0]
           Given(n) == SumFunctionOnSet(back, 1..n)
           good(n) == {b \in Tables : GaveBack(b, t, Given(n), gains(n), 0)}
           lots == Walk(Return, book)
<1>0. /\ Ids \subseteq Parts /\ t \in Ids /\ Debt \in Parts /\ MaxTransactions \in Nat
      /\ \A i \in Ids : back[i] \in Nat
      /\ back[Debt] \in Nat
      /\ \A n \in 0..MaxTransactions : gains(n) \in [Ids -> Nat]
  BY LedgerAssumption DEF Ids, Parts, Debt
<1>1. \A n \in 0..MaxTransactions : Given(n) \in Nat
  <2>1. SUFFICES ASSUME NEW n \in 0..MaxTransactions PROVE Given(n) \in Nat
    OBVIOUS
  <2>2. 1..n \subseteq Parts /\ IsFiniteSet(1..n) /\ {} \subseteq 1..n
    BY FiniteIds, LedgerAssumption DEF Parts, Debt
  <2>3. \A x \in 1..n : back[x] \in Int /\ back[x] \in Nat
    BY <2>2
  <2>4. SumFunctionOnSet(back, 1..n) \in Int
    BY <2>2, <2>3, SumType
  <2>5. SumFunctionOnSet(back, {}) <= SumFunctionOnSet(back, 1..n)
    BY <2>2, <2>3, SumSubset
  <2> QED BY <2>4, <2>5, SumEmpty
<1>2. book \in good(0)
  <2>1. Given(0) = 0
    <3>1. 1..0 = {}
      OBVIOUS
    <3> QED BY <3>1, SumEmpty
  <2>2. \A i \in Ids : gains(0)[i] = 0
    BY DEF Ids
  <2>3. Restored(book, book, 0, 0, 0, {})
    BY RestoredNothing
  <2>4. \A i, j : Portion(i, j, 0) = 0
    BY DEF Portion
  <2> HIDE DEF gains, Given
  <2>5. GaveBack(book, t, 0, gains(0), 0)
    <3>1. \A e \in Ids : Owing(book, e) \in Nat /\ Place(book, e) \in Int
      BY BooksType
    <3>2. \A i \in Ids : Place(book, i) = Place(book, i) + gains(0)[i]
      BY <2>2, <3>1
    <3>3. \A e \in Ids : /\ Owing(book, e) <= Owing(book, e)
                         /\ Owing(book, e) = Owing(book, e) - Portion(e, t, 0)
      BY <2>4, <3>1
    <3> QED BY <2>3, <3>2, <3>3 DEF GaveBack, Restored
  <2> QED BY <2>1, <2>5
<1>3. ASSUME NEW i \in Ids, NEW b \in good(i - 1) PROVE Return[i][b] \in good(i)
  <2>1. b \in Tables /\ GaveBack(b, t, Given(i - 1), gains(i - 1), 0)
    OBVIOUS
  <2>2. i \in 0..MaxTransactions /\ i - 1 \in 0..MaxTransactions /\ i \in Nat /\ (i - 1) + 1 = i
    BY LedgerAssumption DEF Ids
  <2>3. Given(i) = Given(i - 1) + back[i]
    <3>1. 1..i = (1..(i - 1)) \cup {i} /\ i \notin 1..(i - 1) /\ IsFiniteSet(1..(i - 1))
      BY <2>2, FiniteIds
    <3>2. \A y \in (1..(i - 1)) \cup {i} : back[y] \in Int
      BY <1>0, LedgerAssumption DEF Ids
    <3>3. SumFunctionOnSet(back, (1..(i - 1)) \cup {i}) = back[i] + SumFunctionOnSet(back, 1..(i - 1))
      BY <3>1, <3>2, SumAdd
    <3>4. back[i] \in Nat /\ Given(i - 1) \in Nat
      BY <1>0, <1>1, <2>2
    <3>5. Given(i) = SumFunctionOnSet(back, (1..(i - 1)) \cup {i})
      BY <3>1
    <3> HIDE DEF good, Return, lots
    <3> QED BY <3>3, <3>4, <3>5
  <2>4. \A j \in Ids : gains(i)[j] = gains(i - 1)[j] + Portion(j, i, back[i])
    BY <1>0, <2>2 DEF Portion, Ids
  <2> DEFINE q == [book |-> b, source |-> i, units |-> back[i], excluded |-> t]
             r == IF back[i] = 0 THEN b ELSE Restorer[Turns(b)][q]
  <2>5. Return[i][b] = r
    BY <2>1
  <2>6. Restored(b, r, back[i], i, 0, {})
    <3>1. CASE back[i] = 0
      BY <2>1, <3>1, RestoredNothing
    <3>2. CASE back[i] # 0
      <4>1. q \in Requests /\ q.book = b /\ q.source = i /\ q.units = back[i] /\ q.excluded = t
        BY <1>0, <2>1 DEF Requests
      <4>2. Restores(Restorer[Turns(b)])
        BY <2>1, TurnsType, RestorerRestores
      <4>3. Loose(i, t) = {}
        BY DEF Loose, Revocations, Ids
      <4> HIDE DEF q
      <4>4. Restored(b, Restorer[Turns(b)][q], back[i], i, 0, {})
        BY <4>1, <4>2, <4>3 DEF Restores
      <4> QED BY <3>2, <4>4
    <3> QED BY <3>1, <3>2
  <2>7. GaveBack(r, t, Given(i - 1) + back[i], gains(i), 0)
    <3>1. /\ Given(i - 1) \in Nat /\ gains(i - 1) \in [Ids -> Nat] /\ gains(i) \in [Ids -> Nat]
          /\ back[i] \in Nat /\ 0 \in {0, t} /\ 0 # t /\ 0 \in Nat /\ Given(i - 1) + back[i] \in Nat
      BY SMTT(30), <1>0, <1>1, <2>2 DEF Ids
    <3> HIDE DEF r, gains, Given, good
    <3> DEFINE g0 == gains(i - 1)
               g1 == gains(i)
               u0 == Given(i - 1)
               m == back[i]
    <3>2. t \in Ids /\ GaveBack(b, t, u0, g0, 0) /\ g0 \in [Ids -> Nat] /\ g1 \in [Ids -> Nat] /\ u0 \in Nat /\ m \in Nat /\ u0 + m \in Nat
      BY <1>0, <2>1, <3>1
    <3>3. Restored(b, r, m, i, 0, {}) /\ \A j \in Ids : g1[j] = g0[j] + Portion(j, i, m)
      BY <2>4, <2>6
    <3>4. 0 \in {0, t} /\ 0 # t /\ 0 \in Nat
      BY <3>1
    <3> HIDE DEF g0, g1, u0, m
    <3>5. GaveBack(r, t, u0 + m, g1, 0)
      BY <3>2, <3>3, <3>4, GivesBackMore
    <3> QED BY <3>5 DEF g0, g1, u0, m
  <2>8. r \in Tables
    BY <2>7 DEF GaveBack
  <2> HIDE DEF r, gains, Given, Return
  <2> QED BY <2>3, <2>5, <2>7, <2>8
<1>4. lots \in good(MaxTransactions)
  <2> DEFINE inv == [i \in 0..MaxTransactions |-> good(i)]
  <2>1. \A i \in Ids : i \in 0..MaxTransactions /\ i - 1 \in 0..MaxTransactions
    BY LedgerAssumption DEF Ids
  <2>2. 0 \in 0..MaxTransactions /\ MaxTransactions \in 0..MaxTransactions
    BY LedgerAssumption
  <2> HIDE DEF good, Return
  <2>3. book \in inv[0] /\ \A i \in Ids : \A x \in inv[i - 1] : Return[i][x] \in inv[i]
    BY <1>2, <1>3, <2>1, <2>2
  <2> HIDE DEF inv
  <2>4. lots \in inv[MaxTransactions]
    BY <2>3, WalkInvariant
  <2> QED BY <2>2, <2>4 DEF inv
<1>5. AfterReturn(t, back) = IF back[Debt] = 0 THEN lots ELSE RestoreDebt(Restorer[Turns(lots)], lots, t, back[Debt])
  BY DEF AfterReturn
<1>6. lots \in Tables /\ GaveBack(lots, t, Given(MaxTransactions), gains(MaxTransactions), 0)
  <2> HIDE DEF lots, gains, Given
  <2> QED BY <1>4
<1> HIDE DEF lots, Return, good
<1> DEFINE r == AfterReturn(t, back)
<1>7. Restored(lots, r, back[Debt], 0, IF back[Debt] = 0 THEN 0 ELSE t, {})
  <2>1. CASE back[Debt] = 0
    BY <1>5, <1>6, <2>1, RestoredNothing
  <2>2. CASE back[Debt] # 0
    <3>1. Restores(Restorer[Turns(lots)])
      BY <1>6, TurnsType, RestorerRestores
    <3>2. \A i \in Ids : t \in Revocations(i) <=> i = txns[t].ref
      BY DEF Revocations, Ids
    <3>3. Restored(lots, RestoreDebt(Restorer[Turns(lots)], lots, t, back[Debt]), back[Debt], 0, t, {})
      BY <1>0, <1>6, <3>1, <3>2, RestoresDebt
    <3> QED BY <1>5, <2>2, <3>3
  <2> QED BY <2>1, <2>2
<1>8. Total(back) = Given(MaxTransactions) + back[Debt]
  <2>1. Parts = (1..MaxTransactions) \cup {Debt} /\ Debt \notin 1..MaxTransactions
        /\ IsFiniteSet(1..MaxTransactions) /\ MaxTransactions \in 0..MaxTransactions
    BY <1>0, FiniteIds DEF Parts, Debt
  <2>2. \A y \in (1..MaxTransactions) \cup {Debt} : back[y] \in Int
    BY <2>1
  <2>3. SumFunctionOnSet(back, (1..MaxTransactions) \cup {Debt}) = back[Debt] + SumFunctionOnSet(back, 1..MaxTransactions)
    BY <2>1, <2>2, SumAdd
  <2>4. Total(back) = SumFunctionOnSet(back, DOMAIN back)
    BY Zenon DEF Total, SumFunction
  <2>5. DOMAIN back = Parts
    OBVIOUS
  <2>6. Given(MaxTransactions) \in Nat
    BY <1>1, <2>1
  <2> QED BY <1>0, <2>1, <2>3, <2>4, <2>5, <2>6
<1>9. \A i \in Ids : gains(MaxTransactions)[i] = back[i]
  BY DEF Ids
<1> DEFINE ids == [i \in Ids |-> back[i]]
<1>10. GaveBack(r, t, Given(MaxTransactions) + back[Debt], ids, back[Debt])
  <2>1. /\ ids \in [Ids -> Nat] /\ gains(MaxTransactions) \in [Ids -> Nat]
        /\ Given(MaxTransactions) \in Nat /\ Given(MaxTransactions) + back[Debt] \in Nat
    BY <1>0, <1>1
  <2>2. \A i \in Ids : ids[i] = gains(MaxTransactions)[i] + Portion(i, 0, back[Debt])
    BY <1>0, <1>9 DEF Portion, Ids
  <2>3. /\ (IF back[Debt] = 0 THEN 0 ELSE t) \in {0, t}
        /\ (IF back[Debt] = 0 THEN 0 ELSE t) = 0 => back[Debt] = 0
        /\ 0 # t
    BY <1>0 DEF Ids
  <2> DEFINE g0 == gains(MaxTransactions)
             u0 == Given(MaxTransactions)
             m == back[Debt]
             freed == back[Debt]
             debtor == IF back[Debt] = 0 THEN 0 ELSE t
             all == Given(MaxTransactions) + back[Debt]
  <2>4. /\ t \in Ids /\ GaveBack(lots, t, u0, g0, 0) /\ g0 \in [Ids -> Nat] /\ ids \in [Ids -> Nat]
        /\ u0 \in Nat /\ m \in Nat /\ all \in Nat /\ all = u0 + m
    BY <1>0, <1>6, <2>1
  <2>5. /\ Restored(lots, r, m, 0, debtor, {})
        /\ \A i \in Ids : ids[i] = g0[i] + Portion(i, 0, m)
    BY <1>7, <2>2
  <2>6. debtor \in {0, t} /\ (debtor = 0 => freed = 0) /\ (debtor = t => freed = m) /\ freed \in Nat
    BY <1>0, <2>3
  <2> HIDE DEF r, g0, u0, m, ids, debtor, freed, lots, all
  <2>7. GaveBack(r, t, all, ids, freed)
    BY <2>4, <2>5, <2>6, GivesBackMore, SMTT(30)
  <2> QED BY <2>7 DEF all, freed
<1> HIDE DEF r, Given, gains
<1> QED BY <1>8, <1>10 DEF GaveBack, r

-----------------------------------------------------------------------------
\* The invariant, and what one transaction more changes.

Reconciled ==
  /\ balanceUnits = Total([t \in Posted |-> txns[t].units])
  /\ reservedUnits = booked + ActiveHolds
  /\ balanceUnits = Worth(book) + ActiveHolds

IsSpend(t) == t \in Posted /\ txns[t].kind = "spend"
WellFormedTxns ==
  \A t \in Posted :
    /\ txns[t].ref < t
    /\ txns[t].ref = 0 <=> txns[t].kind \in {"grant", "spend"}
    /\ txns[t].kind = "return" => IsSpend(txns[t].ref) /\ txns[t].units >= 0
    /\ txns[t].kind \in {"refund", "revocation"} => HasLot(txns[t].ref) /\ txns[t].units <= 0
    /\ txns[t].kind = "grant" => txns[t].units >= 0
    /\ txns[t].alloc[Debt] > 0 => txns[t].kind \in {"spend", "revocation"}
    /\ \A i \in Ids : txns[t].kind = "spend" /\ txns[t].alloc[i] > 0 => HasLot(i)
WellFormedBook ==
  /\ \A t \in Ids : ~HasLot(t) => book.lots[t] = 0 /\ \A d \in Ids : book.fund[d][t] = 0
  /\ \A d \in Ids : d \notin Posted => Owing(book, d) = 0
  /\ \A d \in Posted : txns[d].alloc[Debt] = 0 => Owing(book, d) = 0
HoldsOfLots == \A h \in DOMAIN holds : HasLot(holds[h].txn)
NotOverReversed == \A t \in Posted : ReversalRemaining(t) >= 0

Revoked(t) == Total([r \in Posted |-> IF txns[r].kind = "revocation" /\ txns[r].ref = t
                                        THEN Size(txns[r].units) ELSE 0])
Accounts(t) == Place(book, t) + HeldOf(t) + InUsage(t) + RefundsOf(t) + Revoked(t)
CreditsBalance == \A t \in Posted : HasLot(t) => txns[t].units = Accounts(t)
DebtsBalance == \A s \in Posted : IsSpend(s) => Outstanding(s)[Debt] = Owing(book, s)
Unreleased(t) == \A h \in DOMAIN holds : holds[h].txn = t => holds[h].state = "active"
RefundsFirst ==
  \A t \in Posted : HasLot(t) /\ Unreleased(t) =>
    Unmixed(book, t) /\ (book.lots[t] > 0 => PaidUp(book, t))

LedgerInv ==
  /\ LedgerTypeOK
  /\ Reconciled
  /\ WellFormedTxns /\ WellFormedBook /\ HoldsOfLots /\ NotOverReversed
  /\ CreditsBalance /\ DebtsBalance
  /\ RefundsFirst

-----------------------------------------------------------------------------

\* The types of what is read from the transactions.
LEMMA PostedType ==
  ASSUME LedgerTypeOK
  PROVE  /\ Posted \subseteq Ids /\ DOMAIN txns = Posted /\ Len(txns) \in Nat /\ IsFiniteSet(Posted)
         /\ \A t \in Posted : /\ txns[t] \in Transactions /\ txns[t].units \in Int
                              /\ txns[t].ref \in 0..MaxTransactions /\ txns[t].alloc \in [Parts -> Nat]
                              /\ txns[t].alloc[Debt] \in Nat
                              /\ txns[t].kind \in TransactionKinds
         /\ Ids \subseteq Parts /\ Debt \in Parts /\ 0 \notin Ids
<1>1. /\ Posted \subseteq Ids /\ DOMAIN txns = Posted /\ Len(txns) \in Nat
      /\ \A t \in Posted : txns[t] \in Transactions
  BY LedgerAssumption DEF LedgerTypeOK, Posted, Ids
<1>2. IsFiniteSet(Posted)
  BY <1>1, FiniteIds DEF Posted
<1>3. Ids \subseteq Parts /\ Debt \in Parts /\ 0 \notin Ids
  BY LedgerAssumption DEF Ids, Parts, Debt
<1> QED BY <1>1, <1>2, <1>3 DEF Transactions

\* One transaction more, in what is said about single ones.
LEMMA Appends ==
  ASSUME LedgerTypeOK, NEW x \in Transactions, txns' = Append(txns, x)
  PROVE  /\ Posted' = Posted \cup {NewId} /\ NewId \notin Posted /\ NewId \in Nat \ {0}
         /\ Posted = 1..Len(txns) /\ Posted' = 1..(Len(txns) + 1) /\ Len(txns') = NewId
         /\ \A t \in Posted : txns'[t] = txns[t]
         /\ txns'[NewId] = x
         /\ \A t : HasLot(t)' <=> HasLot(t) \/ (t = NewId /\ x.kind = "grant")
         /\ \A t : Revocations(t)' = Revocations(t) \cup {d \in {NewId} : x.ref = t /\ x.alloc[Debt] > 0}
<1>1. /\ Posted' = Posted \cup {NewId} /\ NewId \notin Posted /\ NewId \in Nat \ {0}
      /\ Posted = 1..Len(txns) /\ Posted' = 1..(Len(txns) + 1) /\ Len(txns') = NewId
      /\ \A t \in Posted : txns'[t] = txns[t]
      /\ txns'[NewId] = x
  BY DEF LedgerTypeOK, Posted, NewId
<1>2. ASSUME NEW t PROVE HasLot(t)' <=> HasLot(t) \/ (t = NewId /\ x.kind = "grant")
  BY <1>1 DEF HasLot
<1>3. ASSUME NEW t
      PROVE  Revocations(t)' = Revocations(t) \cup {d \in {NewId} : x.ref = t /\ x.alloc[Debt] > 0}
  BY <1>1 DEF Revocations
<1> QED BY <1>1, <1>2, <1>3

\* One transaction more in the sums over them.
LEMMA SumsAppend ==
  ASSUME LedgerTypeOK, NEW x \in Transactions, txns' = Append(txns, x)
  PROVE  /\ Total([t \in Posted |-> txns[t].units])' = Total([t \in Posted |-> txns[t].units]) + x.units
         /\ \A t : Reversed(t)' = Reversed(t) + Portion(x.ref, t, x.units)
         /\ \A t : RefundsOf(t)' = RefundsOf(t) + IF x.kind = "refund" THEN Portion(x.ref, t, Size(x.units)) ELSE 0
         /\ \A t : Revoked(t)' = Revoked(t) + IF x.kind = "revocation" THEN Portion(x.ref, t, Size(x.units)) ELSE 0
<1>1. /\ Posted = 1..Len(txns) /\ Posted' = 1..(Len(txns) + 1) /\ Len(txns) \in Nat
      /\ \A t \in Posted : txns'[t] = txns[t] /\ txns[t].units \in Int /\ t \in 1..(Len(txns) + 1)
      /\ txns'[NewId] = x /\ x.units \in Int /\ NewId = Len(txns) + 1
      /\ \A t \in 1..(Len(txns) + 1) : t \in Posted \/ t = Len(txns) + 1
  BY Appends, PostedType DEF Transactions, NewId
<1>2. \A n \in Int : Size(n) \in Int
  BY DEF Size
<1>3. Total([t \in Posted |-> txns[t].units])' = Total([t \in Posted |-> txns[t].units]) + x.units
  <2> DEFINE f == [t \in 1..Len(txns) |-> txns[t].units]
             g == [t \in 1..(Len(txns) + 1) |-> txns'[t].units]
  <2>1. /\ f \in [1..Len(txns) -> Int] /\ g \in [1..(Len(txns) + 1) -> Int]
        /\ \A t \in 1..Len(txns) : g[t] = f[t]
        /\ g[Len(txns) + 1] = x.units
    BY <1>1
  <2> HIDE DEF f, g
  <2>2. Total(g) = Total(f) + x.units
    BY <1>1, <2>1, TotalExtends
  <2>3. Total([t \in Posted |-> txns[t].units])' = Total([t \in Posted' |-> txns'[t].units])
    BY DEF Total
  <2> QED BY <1>1, <2>2, <2>3 DEF f, g
<1>4. ASSUME NEW t PROVE Reversed(t)' = Reversed(t) + Portion(x.ref, t, x.units)
  <2> DEFINE f == [r \in 1..Len(txns) |-> IF txns[r].ref = t THEN txns[r].units ELSE 0]
             g == [r \in 1..(Len(txns) + 1) |-> IF txns'[r].ref = t THEN txns'[r].units ELSE 0]
  <2>1. /\ f \in [1..Len(txns) -> Int] /\ g \in [1..(Len(txns) + 1) -> Int]
        /\ \A r \in 1..Len(txns) : g[r] = f[r]
        /\ g[Len(txns) + 1] = Portion(x.ref, t, x.units)
    BY <1>1 DEF Portion
  <2> HIDE DEF f, g
  <2>2. Total(g) = Total(f) + Portion(x.ref, t, x.units)
    BY <1>1, <2>1, TotalExtends
  <2> QED BY <1>1, <2>2 DEF f, g, Reversed, Total
<1>5. ASSUME NEW t
      PROVE  RefundsOf(t)' = RefundsOf(t) + IF x.kind = "refund" THEN Portion(x.ref, t, Size(x.units)) ELSE 0
  <2> DEFINE f == [r \in 1..Len(txns) |-> IF txns[r].kind = "refund" /\ txns[r].ref = t
                                            THEN Size(txns[r].units) ELSE 0]
             g == [r \in 1..(Len(txns) + 1) |-> IF txns'[r].kind = "refund" /\ txns'[r].ref = t
                                                  THEN Size(txns'[r].units) ELSE 0]
             more == IF x.kind = "refund" THEN Portion(x.ref, t, Size(x.units)) ELSE 0
  <2>0. \A r \in 1..(Len(txns) + 1) : Size(txns'[r].units) \in Int
    BY <1>1, <1>2
  <2>1. /\ f \in [1..Len(txns) -> Int] /\ g \in [1..(Len(txns) + 1) -> Int]
        /\ \A r \in 1..Len(txns) : g[r] = f[r]
        /\ g[Len(txns) + 1] = more
    <3>1. \A r \in 1..Len(txns) : Size(txns[r].units) \in Int
      BY <1>1, <1>2
    <3>2. f \in [1..Len(txns) -> Int]
      BY <3>1
    <3>3. g \in [1..(Len(txns) + 1) -> Int]
      BY <2>0
    <3>4. \A r \in 1..Len(txns) : g[r] = f[r]
      BY <1>1
    <3>5. g[Len(txns) + 1] = more
      BY <1>1 DEF Portion
    <3> QED BY <3>2, <3>3, <3>4, <3>5
  <2> HIDE DEF f, g, more
  <2>2. Total(g) = Total(f) + more
    BY <1>1, <2>1, TotalExtends
  <2> QED BY <1>1, <2>2 DEF f, g, more, RefundsOf, Total
<1>6. ASSUME NEW t
      PROVE  Revoked(t)' = Revoked(t) + IF x.kind = "revocation" THEN Portion(x.ref, t, Size(x.units)) ELSE 0
  <2> DEFINE f == [r \in 1..Len(txns) |-> IF txns[r].kind = "revocation" /\ txns[r].ref = t
                                            THEN Size(txns[r].units) ELSE 0]
             g == [r \in 1..(Len(txns) + 1) |-> IF txns'[r].kind = "revocation" /\ txns'[r].ref = t
                                                  THEN Size(txns'[r].units) ELSE 0]
             more == IF x.kind = "revocation" THEN Portion(x.ref, t, Size(x.units)) ELSE 0
  <2>0. \A r \in 1..(Len(txns) + 1) : Size(txns'[r].units) \in Int
    BY <1>1, <1>2
  <2>1. /\ f \in [1..Len(txns) -> Int] /\ g \in [1..(Len(txns) + 1) -> Int]
        /\ \A r \in 1..Len(txns) : g[r] = f[r]
        /\ g[Len(txns) + 1] = more
    <3>1. \A r \in 1..Len(txns) : Size(txns[r].units) \in Int
      BY <1>1, <1>2
    <3>2. f \in [1..Len(txns) -> Int]
      BY <3>1
    <3>3. g \in [1..(Len(txns) + 1) -> Int]
      BY <2>0
    <3>4. \A r \in 1..Len(txns) : g[r] = f[r]
      BY <1>1
    <3>5. g[Len(txns) + 1] = more
      BY <1>1 DEF Portion
    <3> QED BY <3>2, <3>3, <3>4, <3>5
  <2> HIDE DEF f, g, more
  <2>2. Total(g) = Total(f) + more
    BY <1>1, <2>1, TotalExtends
  <2> QED BY <1>1, <2>2 DEF f, g, more, Revoked, Total
<1> QED BY <1>3, <1>4, <1>5, <1>6

\* What was reversed is an integer, and zero without a reversal.
LEMMA ReversedType ==
  ASSUME LedgerTypeOK
  PROVE  /\ \A t : Reversed(t) \in Int /\ Size(Reversed(t)) \in Nat
         /\ \A t : (\A r \in Posted : txns[r].ref # t) => Reversed(t) = 0
<1>1. ASSUME NEW t
      PROVE  Reversed(t) \in Int /\ ((\A r \in Posted : txns[r].ref # t) => Reversed(t) = 0)
  <2> DEFINE f == [r \in Posted |-> IF txns[r].ref = t THEN txns[r].units ELSE 0]
  <2>1. f \in [Posted -> Int] /\ IsFiniteSet(Posted)
    BY PostedType
  <2>2. (\A r \in Posted : txns[r].ref # t) => \A r \in Posted : f[r] = 0
    OBVIOUS
  <2> HIDE DEF f
  <2>3. Total(f) \in Int /\ ((\A r \in Posted : txns[r].ref # t) => Total(f) = 0)
    BY <2>1, <2>2, TotalType, TotalZero
  <2> QED BY <2>3 DEF f, Reversed
<1> QED BY <1>1 DEF Size

\* What is outstanding of an allocation is part of it.
LEMMA OutstandingType ==
  ASSUME NEW a \in [Parts -> Nat], NEW u \in Int
  PROVE  /\ Minus(a, Drawn(a, u)) \in [Parts -> Nat]
         /\ \A i \in Parts : Minus(a, Drawn(a, u))[i] = a[i] - Drawn(a, u)[i]
         /\ \A i \in Parts : Minus(a, Drawn(a, u))[i] <= a[i]
         /\ \A i \in Parts : Drawn(a, u)[i] \in Nat
         /\ u = 0 => \A i \in Parts : Minus(a, Drawn(a, u))[i] = a[i]
<1>1. Parts = 1..Debt /\ Debt \in Nat
  BY LedgerAssumption DEF Parts, Debt
<1> DEFINE g == Drawn(a, u)
<1>2. g \in [Parts -> Nat] /\ (\A i \in Parts : g[i] <= a[i]) /\ (u = 0 => \A i \in Parts : g[i] = 0)
  <2>1. a \in [1..Debt -> Nat]
    BY <1>1
  <2>2. /\ Drawn(a, u) \in [1..Debt -> Nat]
        /\ \A i \in 1..Debt : Drawn(a, u)[i] <= a[i]
        /\ u <= 0 => \A i \in 1..Debt : Drawn(a, u)[i] = 0
    BY <1>1, <2>1, DrawnType
  <2> HIDE DEF g
  <2>3. /\ g \in [1..Debt -> Nat]
        /\ \A i \in 1..Debt : g[i] <= a[i]
        /\ u <= 0 => \A i \in 1..Debt : g[i] = 0
    BY <2>2 DEF g
  <2> QED BY <1>1, <2>3
<1> HIDE DEF g
<1>3. /\ Minus(a, g) \in [Parts -> Nat]
      /\ \A i \in Parts : Minus(a, g)[i] = a[i] - g[i]
      /\ \A i \in Parts : Minus(a, g)[i] <= a[i]
      /\ \A i \in Parts : g[i] \in Nat
      /\ u = 0 => \A i \in Parts : Minus(a, g)[i] = a[i]
  BY <1>2 DEF Minus
<1> QED BY <1>3 DEF g

\* Usage that is outstanding is an allocation, and a number for each credit.
LEMMA UsageType ==
  ASSUME LedgerTypeOK
  PROVE  /\ \A s \in Posted : Outstanding(s) \in [Parts -> Nat]
         /\ \A t \in Ids : InUsage(t) \in Nat
<1>1. \A s \in Posted : Outstanding(s) \in [Parts -> Nat]
  <2>1. \A s \in Posted : txns[s].alloc \in [Parts -> Nat] /\ Size(Reversed(s)) \in Int
    BY PostedType, ReversedType
  <2> QED BY <2>1, OutstandingType DEF Outstanding
<1>2. ASSUME NEW t \in Ids PROVE InUsage(t) \in Nat
  <2> DEFINE f == [s \in Posted |-> IF txns[s].kind = "spend" THEN Outstanding(s)[t] ELSE 0]
  <2>1. f \in [Posted -> Nat] /\ IsFiniteSet(Posted)
    BY <1>1, PostedType
  <2> HIDE DEF f
  <2>2. Total(f) \in Nat
    BY <2>1, TotalNat
  <2> QED BY <2>2 DEF f, InUsage
<1> QED BY <1>1, <1>2

\* One transaction more, in the usage that is outstanding.
LEMMA UsageAppends ==
  ASSUME LedgerTypeOK, WellFormedTxns,
         NEW x \in Transactions, x.ref \in {0} \cup Posted, txns' = Append(txns, x),
         NEW n, n = NewId
  PROVE  /\ \A s \in Posted : s # x.ref => Outstanding(s)' = Outstanding(s)
         /\ \A i \in Parts : Outstanding(n)'[i] = x.alloc[i]
         /\ \A s \in Posted : Outstanding(s)' \in [Parts -> Nat]
         /\ \A t \in Ids :
              InUsage(t)' = InUsage(t) + (IF x.kind = "spend" THEN x.alloc[t] ELSE 0)
                            + (IF IsSpend(x.ref) THEN Outstanding(x.ref)'[t] - Outstanding(x.ref)[t] ELSE 0)
<1>1. /\ Posted = 1..Len(txns) /\ Posted' = 1..(Len(txns) + 1) /\ Len(txns) \in Nat
      /\ \A t \in Posted : txns'[t] = txns[t] /\ txns[t].alloc \in [Parts -> Nat]
      /\ txns'[n] = x /\ x.units \in Int /\ x.alloc \in [Parts -> Nat] /\ n = Len(txns) + 1
      /\ n \notin Posted /\ 0 \notin Posted /\ Ids \subseteq Parts
  BY Appends, PostedType DEF Transactions, NewId, Ids, Posted
<1>2. \A t : Reversed(t)' = Reversed(t) + Portion(x.ref, t, x.units)
  BY SumsAppend
<1>3. \A t : Reversed(t) \in Int
  BY ReversedType
<1>4. ASSUME NEW s \in Posted, s # x.ref PROVE Outstanding(s)' = Outstanding(s)
  <2>1. Reversed(s)' = Reversed(s)
    BY <1>2, <1>3, <1>4 DEF Portion
  <2> QED BY <1>1, <2>1 DEF Outstanding
<1>5. \A i \in Parts : Outstanding(n)'[i] = x.alloc[i]
  <2>1. \A r \in Posted : txns[r].ref # n
    BY <1>1, PostedType DEF WellFormedTxns
  <2>2. Reversed(n) = 0 /\ x.ref # n
    BY SMTT(30), <1>1, <2>1, ReversedType
  <2>3. Reversed(n)' = 0
    BY <1>2, <2>2 DEF Portion
  <2>4. Size(0) = 0
    BY DEF Size
  <2>5. Outstanding(n)' = Minus(x.alloc, Drawn(x.alloc, 0))
    BY <1>1, <2>3, <2>4 DEF Outstanding
  <2> QED BY <1>1, <2>5, OutstandingType
<1>6. \A s \in Posted : Outstanding(s)' \in [Parts -> Nat] /\ Outstanding(s) \in [Parts -> Nat]
  <2> SUFFICES ASSUME NEW s \in Posted PROVE Outstanding(s)' \in [Parts -> Nat]
    BY UsageType
  <2>1. Reversed(s)' \in Int
    BY <1>1, <1>2, <1>3 DEF Portion
  <2>2. Size(Reversed(s)') \in Int
    BY <2>1 DEF Size
  <2>3. Outstanding(s)' = Minus(txns[s].alloc, Drawn(txns[s].alloc, Size(Reversed(s)')))
    BY <1>1 DEF Outstanding
  <2> DEFINE u == Size(Reversed(s)')
  <2>4. Outstanding(s)' = Minus(txns[s].alloc, Drawn(txns[s].alloc, u)) /\ u \in Int
    BY <2>2, <2>3
  <2> HIDE DEF u
  <2>5. txns[s].alloc \in [Parts -> Nat]
    BY <1>1
  <2>6. Minus(txns[s].alloc, Drawn(txns[s].alloc, u)) \in [Parts -> Nat]
    BY <2>4, <2>5, OutstandingType
  <2> QED BY <2>4, <2>6
<1>7. ASSUME NEW t \in Ids
      PROVE  InUsage(t)' = InUsage(t) + (IF x.kind = "spend" THEN x.alloc[t] ELSE 0)
                           + (IF IsSpend(x.ref) THEN Outstanding(x.ref)'[t] - Outstanding(x.ref)[t] ELSE 0)
  <2> DEFINE f == [s \in 1..Len(txns) |-> IF txns[s].kind = "spend" THEN Outstanding(s)[t] ELSE 0]
             h == [s \in 1..Len(txns) |-> IF txns[s].kind = "spend" THEN Outstanding(s)'[t] ELSE 0]
             g == [s \in 1..(Len(txns) + 1) |-> IF txns'[s].kind = "spend" THEN Outstanding(s)'[t] ELSE 0]
             more == IF x.kind = "spend" THEN x.alloc[t] ELSE 0
             change == IF IsSpend(x.ref) THEN Outstanding(x.ref)'[t] - Outstanding(x.ref)[t] ELSE 0
  <2>1. f \in [1..Len(txns) -> Int] /\ h \in [1..Len(txns) -> Int]
    BY <1>1, <1>6
  <2>2. more \in Int /\ g[Len(txns) + 1] = more
    BY <1>1, <1>5
  <2>3. g \in [1..(Len(txns) + 1) -> Int] /\ \A s \in 1..Len(txns) : g[s] = h[s]
    <3>1. \A s \in 1..Len(txns) : g[s] = h[s]
      BY <1>1
    <3>2. \A s \in 1..(Len(txns) + 1) : s \in 1..Len(txns) \/ s = Len(txns) + 1
      BY <1>1
    <3>3. \A s \in 1..(Len(txns) + 1) : g[s] \in Int
      <4> HIDE DEF g, h, more
      <4> QED BY <2>1, <2>2, <3>1, <3>2
    <3>4. DOMAIN g = 1..(Len(txns) + 1) /\ g = [s \in 1..(Len(txns) + 1) |-> g[s]]
      OBVIOUS
    <3> HIDE DEF g, h
    <3> QED BY <3>1, <3>3, <3>4
  <2>4. Total(g) = Total(h) + more
    <3> HIDE DEF f, g, h, more
    <3> QED BY <1>1, <2>1, <2>2, <2>3, TotalExtends
  <2>5. Total(h) = Total(f) + change
    <3>1. CASE x.ref = 0
      <4>1. h = f /\ ~IsSpend(x.ref)
        BY <1>1, <1>4, <3>1 DEF IsSpend
      <4> HIDE DEF f, h
      <4>2. Total(f) \in Int
        BY <1>1, <2>1, PostedType, TotalType
      <4> QED BY <4>1, <4>2
    <3>2. CASE x.ref \in Posted
      <4>1. \A s \in (1..Len(txns)) \ {x.ref} : h[s] = f[s]
        BY <1>1, <1>4
      <4>2. h[x.ref] - f[x.ref] = change /\ h[x.ref] \in Int /\ f[x.ref] \in Int
        BY <1>1, <1>6, <3>2 DEF IsSpend
      <4> HIDE DEF f, h, change
      <4>3. Total(h) = Total(f) + h[x.ref] - f[x.ref] /\ Total(f) \in Int
        <5>1. x.ref \in 1..Len(txns) /\ IsFiniteSet(1..Len(txns))
          BY <1>1, <3>2, PostedType
        <5>2. Total(h) = Total(f) + h[x.ref] - f[x.ref]
          BY <2>1, <4>1, <5>1, TotalChange
        <5> QED BY <2>1, <5>1, <5>2, TotalType
      <4> QED BY <4>2, <4>3
    <3> QED BY <3>1, <3>2
  <2>6. change \in Int
    BY <1>1, <1>6 DEF IsSpend
  <2>7. InUsage(t) = Total(f) /\ InUsage(t)' = Total(g)
    BY <1>1 DEF InUsage, Total
  <2> HIDE DEF f, g, h, more, change
  <2>8. Total(f) \in Int
    BY <1>1, <2>1, PostedType, TotalType
  <2>9. InUsage(t)' = InUsage(t) + more + change
    BY <2>2, <2>4, <2>5, <2>6, <2>7, <2>8
  <2> QED BY <2>9 DEF more, change
<1> QED BY <1>4, <1>5, <1>6, <1>7

-----------------------------------------------------------------------------
\* Holds.

\* The types of what is read from the holds.
LEMMA HoldsType ==
  ASSUME LedgerTypeOK
  PROVE  /\ DOMAIN holds = 1..Len(holds) /\ Len(holds) \in Nat /\ IsFiniteSet(DOMAIN holds)
         /\ \A h \in DOMAIN holds : /\ holds[h] \in HoldRows /\ holds[h].units \in Nat
                                    /\ holds[h].txn \in Ids /\ holds[h].state \in {"active", "released"}
         /\ ActiveHolds \in Nat
         /\ \A t : HeldOf(t) \in Nat
         /\ \A t : (\A h \in DOMAIN holds : holds[h].txn # t) => HeldOf(t) = 0
<1>1. /\ DOMAIN holds = 1..Len(holds) /\ Len(holds) \in Nat
      /\ \A h \in DOMAIN holds : holds[h] \in HoldRows
  BY DEF LedgerTypeOK
<1>2. IsFiniteSet(DOMAIN holds)
  BY <1>1, FiniteIds
<1>3. \A h \in DOMAIN holds : /\ holds[h].units \in Nat /\ holds[h].txn \in Ids
                              /\ holds[h].state \in {"active", "released"}
  BY <1>1 DEF HoldRows
<1>4. ActiveHolds \in Nat
  <2> DEFINE f == [h \in DOMAIN holds |-> IF holds[h].state = "active" THEN holds[h].units ELSE 0]
  <2>1. f \in [DOMAIN holds -> Nat]
    BY <1>3
  <2> HIDE DEF f
  <2>2. Total(f) \in Nat
    BY <1>2, <2>1, TotalNat
  <2> QED BY <2>2 DEF f, ActiveHolds
<1>5. ASSUME NEW t
      PROVE  HeldOf(t) \in Nat /\ ((\A h \in DOMAIN holds : holds[h].txn # t) => HeldOf(t) = 0)
  <2> DEFINE f == [h \in DOMAIN holds |->
                     IF holds[h].state = "active" /\ holds[h].txn = t THEN holds[h].units ELSE 0]
  <2>1. f \in [DOMAIN holds -> Nat] /\ f \in [DOMAIN holds -> Int]
    BY <1>3
  <2>2. (\A h \in DOMAIN holds : holds[h].txn # t) => \A h \in DOMAIN holds : f[h] = 0
    OBVIOUS
  <2> HIDE DEF f
  <2>3. Total(f) \in Nat /\ ((\A h \in DOMAIN holds : holds[h].txn # t) => Total(f) = 0)
    BY <1>2, <2>1, <2>2, TotalNat, TotalZero
  <2> QED BY <2>3 DEF f, HeldOf
<1> QED BY <1>1, <1>2, <1>3, <1>4, <1>5

\* One hold more.
LEMMA HoldAppends ==
  ASSUME LedgerTypeOK, NEW t \in Ids, NEW units \in Nat,
         holds' = Append(holds, [txn |-> t, units |-> units, state |-> "active"])
  PROVE  /\ ActiveHolds' = ActiveHolds + units
         /\ \A s : HeldOf(s)' = HeldOf(s) + Portion(t, s, units)
         /\ holds' \in Seq(HoldRows)
         /\ \A h \in DOMAIN holds' : (h \in DOMAIN holds /\ holds'[h] = holds[h])
                                     \/ (holds'[h].txn = t /\ holds'[h].state = "active")
         /\ \A h \in DOMAIN holds : h \in DOMAIN holds' /\ holds'[h] = holds[h]
<1> DEFINE x == [txn |-> t, units |-> units, state |-> "active"]
           n == Len(holds)
<1>1. x \in HoldRows /\ x.txn = t /\ x.units = units /\ x.state = "active"
  BY DEF HoldRows
<1>2. holds' = Append(holds, x)
  OBVIOUS
<1> HIDE DEF x
<1>3. /\ holds' \in Seq(HoldRows) /\ DOMAIN holds = 1..n /\ DOMAIN holds' = 1..(n + 1) /\ n \in Nat
      /\ holds'[n + 1] = x /\ \A h \in 1..n : holds'[h] = holds[h]
  BY <1>1, <1>2 DEF LedgerTypeOK
<1>4. /\ \A h \in 1..n : holds[h].units \in Nat
      /\ \A h \in 1..(n + 1) : h \in 1..n \/ h = n + 1
      /\ \A h \in 1..n : h \in 1..(n + 1)
  BY <1>3, HoldsType
<1> HIDE DEF n
<1>5. ActiveHolds' = ActiveHolds + units
  <2> DEFINE f == [h \in 1..n |-> IF holds[h].state = "active" THEN holds[h].units ELSE 0]
             g == [h \in 1..(n + 1) |-> IF holds'[h].state = "active" THEN holds'[h].units ELSE 0]
  <2>1. /\ f \in [1..n -> Int] /\ g \in [1..(n + 1) -> Int]
        /\ (\A h \in 1..n : g[h] = f[h]) /\ g[n + 1] = units
    BY <1>1, <1>3, <1>4
  <2> HIDE DEF f, g
  <2>2. Total(g) = Total(f) + units
    BY <1>3, <2>1, TotalExtends
  <2> QED BY <1>3, <2>2 DEF f, g, ActiveHolds, Total
<1>6. ASSUME NEW s PROVE HeldOf(s)' = HeldOf(s) + Portion(t, s, units)
  <2> DEFINE f == [h \in 1..n |->
                     IF holds[h].state = "active" /\ holds[h].txn = s THEN holds[h].units ELSE 0]
             g == [h \in 1..(n + 1) |->
                     IF holds'[h].state = "active" /\ holds'[h].txn = s THEN holds'[h].units ELSE 0]
  <2>1. /\ f \in [1..n -> Int] /\ g \in [1..(n + 1) -> Int]
        /\ (\A h \in 1..n : g[h] = f[h]) /\ g[n + 1] = Portion(t, s, units)
    BY <1>1, <1>3, <1>4 DEF Portion
  <2> HIDE DEF f, g
  <2>2. Total(g) = Total(f) + Portion(t, s, units)
    BY <1>3, <2>1, TotalExtends
  <2> QED BY <1>3, <2>2 DEF f, g, HeldOf, Total
<1> QED BY <1>1, <1>3, <1>4, <1>5, <1>6

\* One active hold less.
LEMMA HoldReleases ==
  ASSUME LedgerTypeOK, NEW h \in DOMAIN holds, holds[h].state = "active", holds' = Released(h)
  PROVE  /\ ActiveHolds' = ActiveHolds - holds[h].units
         /\ holds[h].units <= ActiveHolds
         /\ \A s : HeldOf(s)' = HeldOf(s) - Portion(holds[h].txn, s, holds[h].units)
         /\ holds' \in Seq(HoldRows)
         /\ DOMAIN holds' = DOMAIN holds
         /\ \A k \in DOMAIN holds : holds'[k].txn = holds[k].txn
         /\ \A k \in DOMAIN holds : holds'[k].state = "active" => holds[k].state = "active"
         /\ holds'[h].state = "released"
<1> DEFINE D == DOMAIN holds
<1>1. /\ IsFiniteSet(D) /\ D = 1..Len(holds) /\ Len(holds) \in Nat
      /\ \A k \in D : holds[k] \in HoldRows /\ holds[k].units \in Nat
  BY HoldsType
<1>2. /\ DOMAIN holds' = D
      /\ holds'[h] = [holds[h] EXCEPT !.state = "released"]
      /\ \A k \in D \ {h} : holds'[k] = holds[k]
  BY DEF Released
<1>3. /\ holds'[h] \in HoldRows /\ holds'[h].txn = holds[h].txn /\ holds'[h].units = holds[h].units
      /\ holds'[h].state = "released"
  BY <1>1, <1>2 DEF HoldRows
<1>4. holds' \in Seq(HoldRows)
  <2>1. \A k \in D : holds'[k] \in HoldRows
    BY <1>1, <1>2, <1>3
  <2>2. holds' = [k \in 1..Len(holds) |-> holds'[k]]
    BY <1>1 DEF Released
  <2> QED BY <1>1, <2>1, <2>2
<1>5. ActiveHolds' = ActiveHolds - holds[h].units /\ holds[h].units <= ActiveHolds
  <2> DEFINE f == [k \in D |-> IF holds[k].state = "active" THEN holds[k].units ELSE 0]
             g == [k \in D |-> IF holds'[k].state = "active" THEN holds'[k].units ELSE 0]
  <2>1. /\ f \in [D -> Nat] /\ f \in [D -> Int] /\ g \in [D -> Int]
        /\ \A k \in D \ {h} : g[k] = f[k]
        /\ g[h] = 0 /\ f[h] = holds[h].units
    <3>1. \A k \in D : holds'[k].units \in Nat
      BY <1>1, <1>2, <1>3
    <3>2. f \in [D -> Nat] /\ f \in [D -> Int]
      BY <1>1
    <3>3. g \in [D -> Int]
      BY <3>1
    <3>4. \A k \in D \ {h} : g[k] = f[k]
      BY <1>2
    <3>5. g[h] = 0 /\ f[h] = holds[h].units
      BY <1>3
    <3> QED BY <3>2, <3>3, <3>4, <3>5
  <2>2. ActiveHolds = Total(f) /\ ActiveHolds' = Total(g)
    BY <1>2 DEF ActiveHolds, Total
  <2> HIDE DEF f, g, D
  <2>3. Total(g) = Total(f) + g[h] - f[h] /\ Total(f) \in Nat /\ f[h] <= Total(f)
    BY <1>1, <2>1, TotalChange, TotalNat DEF D
  <2> QED BY <2>1, <2>2, <2>3
<1>6. ASSUME NEW s PROVE HeldOf(s)' = HeldOf(s) - Portion(holds[h].txn, s, holds[h].units)
  <2> DEFINE f == [k \in D |-> IF holds[k].state = "active" /\ holds[k].txn = s THEN holds[k].units ELSE 0]
             g == [k \in D |-> IF holds'[k].state = "active" /\ holds'[k].txn = s THEN holds'[k].units ELSE 0]
  <2>1. /\ f \in [D -> Nat] /\ f \in [D -> Int] /\ g \in [D -> Int]
        /\ \A k \in D \ {h} : g[k] = f[k]
        /\ g[h] = 0 /\ f[h] = Portion(holds[h].txn, s, holds[h].units)
    <3>1. \A k \in D : holds'[k].units \in Nat
      BY <1>1, <1>2, <1>3
    <3>2. f \in [D -> Nat] /\ f \in [D -> Int]
      BY <1>1
    <3>3. g \in [D -> Int]
      BY <3>1
    <3>4. \A k \in D \ {h} : g[k] = f[k]
      BY <1>2
    <3>5. g[h] = 0 /\ f[h] = Portion(holds[h].txn, s, holds[h].units)
      BY <1>3 DEF Portion
    <3> QED BY <3>2, <3>3, <3>4, <3>5
  <2>2. HeldOf(s) = Total(f) /\ HeldOf(s)' = Total(g)
    BY <1>2 DEF HeldOf, Total
  <2> HIDE DEF f, g, D
  <2>3. Total(g) = Total(f) + g[h] - f[h] /\ Total(f) \in Nat /\ f[h] <= Total(f) /\ f[h] \in Nat
    BY <1>1, <2>1, TotalChange, TotalNat DEF D
  <2> QED BY <2>1, <2>2, <2>3
<1> QED BY <1>1, <1>2, <1>3, <1>4, <1>5, <1>6

-----------------------------------------------------------------------------
\* What posting a transaction does to the accounts: its debt is on the books.
LEMMA PostsDebt ==
  ASSUME LedgerTypeOK, NEW x \in Transactions, txns' = Append(txns, x), NewId \in Ids,
         NEW n, n = NewId, NEW b \in Tables, Owing(b, n) = 0,
         book' = [b EXCEPT !.debts[NewId] = x.alloc[Debt]]
  PROVE  /\ book' \in Tables /\ book'.ok = b.ok /\ book'.lots = b.lots /\ book'.fund = b.fund
         /\ \A e \in Ids : book'.debts[e] = IF e = n THEN x.alloc[Debt] ELSE b.debts[e]
         /\ Worth(book)' = Worth(b) - x.alloc[Debt]
         /\ \A e \in Ids : Owing(book, e)' = Owing(b, e) + Portion(e, n, x.alloc[Debt])
         /\ \A t \in Ids : Place(book, t)' = Place(b, t) - Portion(x.ref, t, x.alloc[Debt])
<1>1. /\ b.debts[n] = 0 /\ Funded(b, n) = 0 /\ n \in Ids
      /\ x.alloc[Debt] \in Nat
  BY SMTT(30), BooksType, PostedType DEF Owing, Transactions
<1>0. PICK c : c = book'
  OBVIOUS
<1>2. /\ c \in Tables /\ c.ok = b.ok /\ c.lots = b.lots /\ c.fund = b.fund
      /\ \A e \in Ids : c.debts[e] = IF e = n THEN x.alloc[Debt] ELSE b.debts[e]
  <2>1. [b.debts EXCEPT ![n] = x.alloc[Debt]] \in [Ids -> Nat]
    BY <1>1, BooksType
  <2> QED BY <1>0, <1>1, <2>1 DEF Tables
<1>6. /\ c \in Tables /\ c.lots = b.lots /\ c.fund = b.fund
      /\ \A e \in Ids : c.debts[e] = IF e = n THEN x.alloc[Debt] ELSE b.debts[e]
  BY <1>2
<1>7. ASSUME NEW e \in Ids
      PROVE  /\ Owing(c, e) \in Nat /\ Owing(b, e) \in Nat
             /\ Funded(c, e) = Funded(b, e) /\ Funded(b, e) \in Nat /\ b.debts[e] \in Nat
  <2>1. Owing(c, e) \in Nat
    BY <1>6, BooksType
  <2>2. Funded(c, e) = Funded(b, e)
    BY <1>6 DEF Funded
  <2>3. Owing(b, e) \in Nat /\ Funded(b, e) \in Nat /\ b.debts[e] \in Nat
    BY BooksType
  <2> QED BY <2>1, <2>2, <2>3
<1>3. \A e \in Ids : Owing(c, e) = Owing(b, e) + Portion(e, n, x.alloc[Debt])
  BY <1>1, <1>6, <1>7 DEF Owing, Portion
<1>4. Worth(c) = Worth(b) - x.alloc[Debt]
  <2>0. c \in Tables
    BY <1>6
  <2>1. b.debts \in [Ids -> Int] /\ c.debts \in [Ids -> Int]
    <3>1. b.debts \in [Ids -> Nat]
      BY BooksType
    <3>2. c.debts \in [Ids -> Nat]
      BY <2>0, BooksType
    <3> QED BY <3>1, <3>2
  <2>2. Total(c.debts) = Total(b.debts) + c.debts[n] - b.debts[n]
    <3>1. \A e \in Ids \ {n} : c.debts[e] = b.debts[e]
      BY <1>6
    <3> QED BY ZenonT(40), <1>1, <2>1, <3>1, FiniteIds, TotalChange
  <2>3. Total(b.debts) \in Int /\ Total(b.lots) \in Int
    BY BooksType
  <2> QED BY <1>1, <1>6, <2>2, <2>3 DEF Worth
<1>5. ASSUME NEW t \in Ids PROVE Place(book, t)' = Place(b, t) - Portion(x.ref, t, x.alloc[Debt])
  <2> DEFINE rev == Revocations(t) \cup {d \in {n} : x.ref = t /\ x.alloc[Debt] > 0}
             f == [d \in Ids |-> IF d \in Revocations(t) THEN Owing(b, d) ELSE 0]
             g == [d \in Ids |-> IF d \in rev THEN Owing(c, d) ELSE 0]
  <2>1. Revocations(t)' = rev /\ n \notin Revocations(t)
    BY Appends, PostedType DEF Revocations
  <2>2. f \in [Ids -> Int] /\ g \in [Ids -> Int]
    BY <1>7
  <2>3. \A d \in Ids \ {n} : g[d] = f[d]
    BY <1>3, BooksType DEF Portion
  <2>4. f[n] = 0 /\ g[n] = Portion(x.ref, t, x.alloc[Debt])
    <3>1. Owing(c, n) = x.alloc[Debt]
      BY <1>1, <1>3 DEF Portion
    <3> QED BY <1>1, <2>1, <3>1 DEF Portion
  <2>5. Total(g) = Total(f) + Portion(x.ref, t, x.alloc[Debt])
    <3> HIDE DEF f, g
    <3>1. Total(g) = Total(f) + g[n] - f[n] /\ Total(f) \in Int
      BY <1>1, <2>2, <2>3, FiniteIds, TotalChange, TotalType
    <3>2. Portion(x.ref, t, x.alloc[Debt]) \in Nat
      BY <1>1 DEF Portion
    <3> QED BY <2>4, <3>1, <3>2
  <2>6. f = OwedFor(b, t) /\ g = OwedFor(book, t)'
    BY <1>0, <2>1 DEF OwedFor, Owing, Funded, Total
  <2>7. FundedBy(book, t)' = FundedBy(b, t)
    BY <1>0, <1>6 DEF FundedBy
  <2>8. Place(book, t)' = b.lots[t] + Total(FundedBy(b, t)) - Total(g)
    BY <1>0, <1>6, <2>6, <2>7 DEF Place, Total
  <2>9. /\ b.lots[t] \in Nat /\ Total(FundedBy(b, t)) \in Nat /\ Total(OwedFor(b, t)) \in Nat
        /\ Portion(x.ref, t, x.alloc[Debt]) \in Nat
    BY <1>1, BooksType DEF Portion
  <2> HIDE DEF f, g
  <2> QED BY <2>5, <2>6, <2>8, <2>9 DEF Place
<1> QED BY <1>0, <1>2, <1>3, <1>4, <1>5 DEF Worth, Owing, Funded, Total

\* What was reversed of a credit was refunded or revoked; of usage, returned.
LEMMA ReversedSplits ==
  ASSUME LedgerTypeOK, WellFormedTxns
  PROVE  /\ \A t : RefundsOf(t) \in Nat /\ Revoked(t) \in Nat
         /\ \A t \in Posted : HasLot(t) => Reversed(t) + RefundsOf(t) + Revoked(t) = 0
         /\ \A t \in Posted : IsSpend(t) => Reversed(t) >= 0
<1>0. IsFiniteSet(Posted) /\ \A r \in Posted : txns[r].units \in Int /\ Size(txns[r].units) \in Nat
  BY PostedType DEF Size
<1>1. ASSUME NEW t
      PROVE  /\ RefundsOf(t) \in Nat /\ Revoked(t) \in Nat
             /\ t \in Posted /\ HasLot(t) => Reversed(t) + RefundsOf(t) + Revoked(t) = 0
             /\ t \in Posted /\ IsSpend(t) => Reversed(t) >= 0
  <2> DEFINE f == [r \in Posted |-> IF txns[r].ref = t THEN txns[r].units ELSE 0]
             g == [r \in Posted |-> IF txns[r].kind = "refund" /\ txns[r].ref = t THEN Size(txns[r].units) ELSE 0]
             h == [r \in Posted |-> IF txns[r].kind = "revocation" /\ txns[r].ref = t THEN Size(txns[r].units) ELSE 0]
             gh == [r \in Posted |-> g[r] + h[r]]
             z == [r \in Posted |-> 0]
  <2>1. f \in [Posted -> Int]
    BY <1>0
  <2>2. g \in [Posted -> Nat] /\ h \in [Posted -> Nat]
    BY <1>0
  <2>3. Reversed(t) = Total(f) /\ RefundsOf(t) = Total(g) /\ Revoked(t) = Total(h)
    BY DEF Reversed, RefundsOf, Revoked
  <2>4. ASSUME t \in Posted, HasLot(t) PROVE \A r \in Posted : z[r] = f[r] + gh[r]
    <3>1. SUFFICES ASSUME NEW r \in Posted PROVE f[r] + (g[r] + h[r]) = 0
      OBVIOUS
    <3>2. CASE txns[r].ref # t
      BY <3>2
    <3>3. CASE txns[r].ref = t
      <4>1. txns[r].kind \in {"refund", "revocation"} /\ txns[r].units <= 0
        <5>1. t # 0 /\ ~IsSpend(t)
          BY <2>4 DEF Posted, HasLot, IsSpend
        <5>2. txns[r].kind \in TransactionKinds
          BY PostedType
        <5> QED BY <3>3, <5>1, <5>2 DEF WellFormedTxns, TransactionKinds
      <4>2. Size(txns[r].units) = -txns[r].units
        BY <1>0, <4>1 DEF Size
      <4> QED BY <1>0, <3>3, <4>1, <4>2
    <3> QED BY <3>2, <3>3
  <2>5. ASSUME t \in Posted, IsSpend(t) PROVE f \in [Posted -> Nat]
    <3>1. SUFFICES ASSUME NEW r \in Posted, txns[r].ref = t PROVE txns[r].units \in Nat
      BY <1>0
    <3>2. t # 0 /\ ~HasLot(t)
      BY <2>5 DEF Posted, HasLot, IsSpend
    <3>3. txns[r].kind \in TransactionKinds
      BY PostedType
    <3>4. txns[r].units >= 0
      BY <3>1, <3>2, <3>3 DEF WellFormedTxns, TransactionKinds
    <3> QED BY <1>0, <3>4
  <2>6. gh \in [Posted -> Nat] /\ z \in [Posted -> Int] /\ \A r \in Posted : gh[r] = g[r] + h[r] /\ z[r] = 0
    BY <2>2
  <2> HIDE DEF f, g, h, gh, z
  <2>7. Total(g) \in Nat /\ Total(h) \in Nat
    BY <1>0, <2>2, TotalNat
  <2>8. g \in [Posted -> Int] /\ h \in [Posted -> Int] /\ gh \in [Posted -> Int]
    BY <2>2, <2>6
  <2>9. Total(gh) = Total(g) + Total(h)
    BY <1>0, <2>6, <2>8, TotalPlus
  <2>10. Total(z) = 0
    BY <1>0, <2>6, TotalZero
  <2>11. ASSUME t \in Posted, HasLot(t) PROVE Total(f) + Total(g) + Total(h) = 0
    <3>1. Total(z) = Total(f) + Total(gh)
      <4>1. \A r \in Posted : z[r] = f[r] + gh[r]
        BY <2>4, <2>11
      <4>2. z \in [Posted -> Int]
        BY <2>6
      <4> QED BY <1>0, <2>1, <2>8, <4>1, <4>2, TotalPlus
    <3>2. Total(f) \in Int
      BY <1>0, <2>1, TotalType
    <3> QED BY <2>7, <2>9, <2>10, <3>1, <3>2
  <2>12. ASSUME t \in Posted, IsSpend(t) PROVE Total(f) >= 0
    BY <1>0, <2>5, <2>12, TotalNat
  <2> QED BY <2>3, <2>7, <2>11, <2>12
<1> QED BY <1>1

\* Posting a transaction, as a whole.
LEMMA Posts ==
  ASSUME LedgerTypeOK, WellFormedTxns, NEW x \in Transactions, x.ref \in {0} \cup Posted,
         NEW n, n = NewId, NEW b \in Tables, Owing(b, n) = 0,
         Post(x.kind, x.units, x.ref, x.alloc, b)
  PROVE  /\ txns' = Append(txns, x) /\ n \in Ids /\ n \notin Posted /\ x.ref # n
         /\ txns' \in Seq(Transactions) /\ Len(txns') <= MaxTransactions
         /\ Posted' = Posted \cup {n} /\ txns'[n] = x /\ \A t \in Posted : txns'[t] = txns[t]
         /\ balanceUnits' = balanceUnits + x.units
         /\ book' \in Tables /\ book'.ok /\ book'.lots = b.lots /\ book'.fund = b.fund
<1>1. /\ NewId <= MaxTransactions /\ b.ok
      /\ txns' = Append(txns, [kind |-> x.kind, units |-> x.units, ref |-> x.ref, alloc |-> x.alloc])
      /\ book' = [b EXCEPT !.debts[NewId] = x.alloc[Debt]]
      /\ balanceUnits' = balanceUnits + x.units
  BY DEF Post
<1>2. [kind |-> x.kind, units |-> x.units, ref |-> x.ref, alloc |-> x.alloc] = x
  BY DEF Transactions
<1>3. txns' = Append(txns, x)
  BY <1>1, <1>2
<1>4. n \in Ids /\ n \notin Posted /\ n = Len(txns) + 1 /\ x.ref # n
  BY <1>1, Appends, PostedType DEF NewId, Ids, Posted
<1>5. txns' \in Seq(Transactions) /\ Len(txns') <= MaxTransactions
  <2>1. txns \in Seq(Transactions)
    BY DEF LedgerTypeOK
  <2>2. Append(txns, x) \in Seq(Transactions) /\ Len(Append(txns, x)) = Len(txns) + 1
    BY <2>1
  <2> QED BY <1>1, <1>3, <2>2 DEF NewId
<1>6. Posted' = Posted \cup {n} /\ txns'[n] = x /\ \A t \in Posted : txns'[t] = txns[t]
  BY <1>3, Appends
<1>7. /\ book' \in Tables /\ book'.ok = b.ok /\ book'.lots = b.lots /\ book'.fund = b.fund
  BY ZenonT(40), <1>1, <1>3, <1>4, PostsDebt
<1> QED BY <1>1, <1>3, <1>4, <1>5, <1>6, <1>7

-----------------------------------------------------------------------------
\* A transaction that keeps the accounts.

\* A transaction that may follow the ones there are.
Fits(x) ==
  /\ x.ref \in {0} \cup Posted
  /\ x.ref = 0 <=> x.kind \in {"grant", "spend"}
  /\ x.kind = "return" => IsSpend(x.ref) /\ x.units >= 0
  /\ x.kind \in {"refund", "revocation"} => HasLot(x.ref) /\ x.units <= 0
  /\ x.kind = "grant" => x.units >= 0
  /\ x.alloc[Debt] > 0 => x.kind \in {"spend", "revocation"}
  /\ x.kind = "spend" => \A i \in Ids : x.alloc[i] > 0 => HasLot(i)
  /\ x.ref # 0 => Size(x.units) <= ReversalRemaining(x.ref)

\* What posting it moves between the places of a credit.
Moved(x, t) ==
  (IF x.kind = "spend" THEN x.alloc[t] ELSE 0)
  + (IF IsSpend(x.ref) THEN Outstanding(x.ref)'[t] - Outstanding(x.ref)[t] ELSE 0)
  + (IF x.kind \in {"refund", "revocation"} THEN Portion(x.ref, t, Size(x.units)) ELSE 0)
  - Portion(x.ref, t, x.alloc[Debt])

\* A transaction that fits keeps the transactions well-formed.
LEMMA PostedFits ==
  ASSUME LedgerInv, NEW x \in Transactions, Fits(x), NEW n, n = NewId, NEW b \in Tables, Owing(b, n) = 0,
         Post(x.kind, x.units, x.ref, x.alloc, b)
  PROVE  WellFormedTxns' /\ NotOverReversed'
<1>1. LedgerTypeOK /\ WellFormedTxns /\ NotOverReversed
  BY DEF LedgerInv
<1>2. /\ txns' = Append(txns, x) /\ n \in Ids /\ n \notin Posted /\ x.ref # n
      /\ Posted' = Posted \cup {n} /\ txns'[n] = x /\ \A t \in Posted : txns'[t] = txns[t]
  BY <1>1, Posts DEF Fits
<1>3. /\ Posted = 1..Len(txns) /\ n = Len(txns) + 1 /\ Len(txns) \in Nat
      /\ \A t : HasLot(t)' <=> HasLot(t) \/ (t = n /\ x.kind = "grant")
  BY <1>1, <1>2, Appends, PostedType DEF NewId
<1>4. \A t : IsSpend(t)' <=> IsSpend(t) \/ (t = n /\ x.kind = "spend")
  BY <1>2 DEF IsSpend
<1>5. WellFormedTxns'
  <2> SUFFICES ASSUME NEW t \in Posted'
               PROVE  /\ txns'[t].ref < t
                      /\ txns'[t].ref = 0 <=> txns'[t].kind \in {"grant", "spend"}
                      /\ txns'[t].kind = "return" => txns'[t].ref \in Posted' /\ txns'[txns'[t].ref].kind = "spend" /\ txns'[t].units >= 0
                      /\ txns'[t].kind \in {"refund", "revocation"} =>
                           txns'[t].ref \in Posted' /\ txns'[txns'[t].ref].kind = "grant" /\ txns'[t].units <= 0
                      /\ txns'[t].kind = "grant" => txns'[t].units >= 0
                      /\ txns'[t].alloc[Debt] > 0 => txns'[t].kind \in {"spend", "revocation"}
                      /\ \A i \in Ids : txns'[t].kind = "spend" /\ txns'[t].alloc[i] > 0 => i \in Posted' /\ txns'[i].kind = "grant"
    BY DEF WellFormedTxns, IsSpend, HasLot
  <2>1. CASE t \in Posted
    <3>1. txns'[t] = txns[t]
      BY <1>2, <2>1
    <3>2. /\ IsSpend(txns[t].ref) => txns'[t].ref \in Posted' /\ txns'[txns'[t].ref].kind = "spend"
          /\ HasLot(txns[t].ref) => txns'[t].ref \in Posted' /\ txns'[txns'[t].ref].kind = "grant"
      BY <1>2, <3>1 DEF IsSpend, HasLot
    <3>3. \A i \in Ids : HasLot(i) => i \in Posted' /\ txns'[i].kind = "grant"
      BY <1>2 DEF HasLot
    <3> QED BY <1>1, <1>3, <2>1, <3>1, <3>2, <3>3 DEF WellFormedTxns
  <2>2. CASE t = n
    <3>1. txns'[t] = x
      BY <1>2, <2>2
    <3>2. /\ IsSpend(x.ref) => txns'[t].ref \in Posted' /\ txns'[txns'[t].ref].kind = "spend"
          /\ HasLot(x.ref) => txns'[t].ref \in Posted' /\ txns'[txns'[t].ref].kind = "grant"
      BY <1>2, <3>1 DEF IsSpend, HasLot
    <3>3. x.ref < t
      BY <1>3, <2>2 DEF Fits
    <3>4. \A i \in Ids : HasLot(i) => i \in Posted' /\ txns'[i].kind = "grant"
      BY <1>2 DEF HasLot
    <3> QED BY <1>3, <3>1, <3>2, <3>3, <3>4 DEF Fits
  <2> QED BY <1>2, <2>1, <2>2
<1>6. NotOverReversed'
  <2> SUFFICES ASSUME NEW t \in Posted' PROVE ReversalRemaining(t)' >= 0
    BY DEF NotOverReversed
  <2>1. Reversed(t)' = Reversed(t) + Portion(x.ref, t, x.units)
    BY <1>1, <1>2, SumsAppend
  <2>2. Reversed(t) \in Int /\ x.units \in Int
    BY <1>1, ReversedType DEF Transactions
  <2>3. CASE t = n
    <3>1. \A r \in Posted : txns[r].ref # n
      BY <1>1, <1>3, PostedType DEF WellFormedTxns
    <3>2. Reversed(t)' = 0
      BY <1>1, <1>2, <2>1, <2>3, <3>1, ReversedType DEF Portion
    <3>3. txns'[t] = x
      BY <1>2, <2>3
    <3>4. ReversalRemaining(t)' = Size(x.units) - Size(0)
      BY <3>2, <3>3 DEF ReversalRemaining
    <3> QED BY <2>2, <3>4 DEF Size
  <2>4. CASE t \in Posted
    <3>1. txns'[t] = txns[t] /\ txns[t].units \in Int
      BY <1>1, <1>2, <2>4, PostedType
    <3>2. ReversalRemaining(t) >= 0 /\ ReversalRemaining(t) = Size(txns[t].units) - Size(Reversed(t))
      BY <1>1, <2>4 DEF NotOverReversed, ReversalRemaining
    <3>3. ReversalRemaining(t)' = Size(txns[t].units) - Size(Reversed(t) + Portion(x.ref, t, x.units))
      BY <2>1, <3>1 DEF ReversalRemaining
    <3>4. CASE t # x.ref
      BY <2>2, <3>2, <3>3, <3>4 DEF Portion
    <3>5. CASE t = x.ref
      <4>1. Size(x.units) <= Size(txns[t].units) - Size(Reversed(t))
        BY <1>3, <2>4, <3>2, <3>5 DEF Fits
      <4>2. \/ Reversed(t) >= 0 /\ x.units >= 0
            \/ Reversed(t) <= 0 /\ x.units <= 0
        <5>1. x.ref # 0 /\ x.kind \in TransactionKinds
          BY <1>3, <2>4, <3>5 DEF Transactions
        <5>2. CASE x.kind = "return"
          BY <1>1, <2>4, <3>5, <5>2, ReversedSplits DEF Fits
        <5>3. CASE x.kind \in {"refund", "revocation"}
          <6>1. HasLot(t) /\ x.units <= 0
            BY <3>5, <5>3 DEF Fits
          <6>2. /\ Reversed(t) + RefundsOf(t) + Revoked(t) = 0
                /\ RefundsOf(t) \in Nat /\ Revoked(t) \in Nat
            BY <1>1, <2>4, <6>1, ReversedSplits
          <6> QED BY <2>2, <6>1, <6>2
        <5> QED BY <5>1, <5>2, <5>3 DEF Fits, TransactionKinds
      <4>3. Portion(x.ref, t, x.units) = x.units
        BY <3>5 DEF Portion
      <4> QED BY <2>2, <3>1, <3>3, <4>1, <4>2, <4>3 DEF Size
    <3> QED BY <3>4, <3>5
  <2> QED BY <1>2, <2>3, <2>4
<1> QED BY <1>5, <1>6

\* A transaction that is not there yet has no part in the accounts.
LEMMA NothingOfNew ==
  ASSUME LedgerTypeOK, WellFormedTxns, HoldsOfLots, NEW n \in Ids, n = NewId
  PROVE  InUsage(n) = 0 /\ RefundsOf(n) = 0 /\ Revoked(n) = 0 /\ HeldOf(n) = 0 /\ Revocations(n) = {}
<1>1. /\ n \notin Posted /\ ~HasLot(n) /\ IsFiniteSet(Posted)
      /\ \A r \in Posted : txns[r].ref # n
  BY PostedType DEF NewId, Posted, HasLot, WellFormedTxns
<1>2. InUsage(n) = 0
  <2> DEFINE f == [s \in Posted |-> IF txns[s].kind = "spend" THEN Outstanding(s)[n] ELSE 0]
  <2>1. ASSUME NEW s \in Posted PROVE f[s] = 0
    <3>1. CASE txns[s].kind = "spend"
      <4>1. txns[s].alloc \in [Parts -> Nat] /\ n \in Parts /\ Size(Reversed(s)) \in Int
        BY PostedType, ReversedType
      <4>2. txns[s].alloc[n] = 0
        BY <1>1, <3>1, <4>1 DEF WellFormedTxns
      <4>3. Outstanding(s) \in [Parts -> Nat] /\ Outstanding(s)[n] <= txns[s].alloc[n]
        BY <4>1, OutstandingType DEF Outstanding
      <4> QED BY <3>1, <4>1, <4>2, <4>3
    <3> QED BY <3>1
  <2>2. f \in [Posted -> Int]
    BY <2>1
  <2>3. InUsage(n) = Total(f)
    BY DEF InUsage
  <2> HIDE DEF f
  <2> QED BY <1>1, <2>1, <2>2, <2>3, TotalZero
<1>3. RefundsOf(n) = 0
  <2> DEFINE f == [r \in Posted |-> IF txns[r].kind = "refund" /\ txns[r].ref = n THEN Size(txns[r].units) ELSE 0]
  <2>1. f \in [Posted -> Int] /\ \A r \in Posted : f[r] = 0
    BY <1>1
  <2>2. RefundsOf(n) = Total(f)
    BY DEF RefundsOf
  <2> HIDE DEF f
  <2> QED BY <1>1, <2>1, <2>2, TotalZero
<1>4. Revoked(n) = 0
  <2> DEFINE f == [r \in Posted |-> IF txns[r].kind = "revocation" /\ txns[r].ref = n THEN Size(txns[r].units) ELSE 0]
  <2>1. f \in [Posted -> Int] /\ \A r \in Posted : f[r] = 0
    BY <1>1
  <2>2. Revoked(n) = Total(f)
    BY DEF Revoked
  <2> HIDE DEF f
  <2> QED BY <1>1, <2>1, <2>2, TotalZero
<1>5. HeldOf(n) = 0
  <2>1. \A h \in DOMAIN holds : holds[h].txn # n
    BY <1>1 DEF HoldsOfLots
  <2> QED BY <2>1, HoldsType
<1>6. Revocations(n) = {}
  BY <1>1 DEF Revocations
<1> QED BY <1>2, <1>3, <1>4, <1>5, <1>6

\* A transaction that keeps the accounts keeps the invariant.
LEMMA PostKeeps ==
  ASSUME LedgerInv, NEW x \in Transactions, Fits(x), NEW n, n = NewId,
         NEW b \in Tables, Owing(b, n) = 0,
         Post(x.kind, x.units, x.ref, x.alloc, b),
         holds' \in Seq(HoldRows), DOMAIN holds' = DOMAIN holds,
         \A k \in DOMAIN holds : /\ holds'[k].txn = holds[k].txn
                                 /\ holds'[k].state = "active" => holds[k].state = "active",
         reservedUnits' \in Nat, booked' \in Nat, reservedUnits' = booked' + ActiveHolds',
         Worth(b) - x.alloc[Debt] + ActiveHolds' = Worth(book) + ActiveHolds + x.units,
         \A t \in Ids : ~HasLot(t) /\ ~(t = n /\ x.kind = "grant") =>
           b.lots[t] = 0 /\ \A d \in Ids : b.fund[d][t] = 0,
         \A d \in Ids : Owing(b, d) <= Owing(book, d),
         \A s \in Posted : IsSpend(s) /\ s # x.ref => Owing(b, s) = Owing(book, s),
         IsSpend(x.ref) => Owing(b, x.ref) = Outstanding(x.ref)'[Debt],
         \A t \in Posted : HasLot(t) => Place(b, t) + HeldOf(t)' + Moved(x, t) = Place(book, t) + HeldOf(t),
         x.kind = "grant" => Place(b, n) = x.units /\ HeldOf(n)' = HeldOf(n),
         \A t : HeldOf(t)' \in Nat, ActiveHolds' \in Nat,
         \A t \in Posted : HasLot(t) /\ Unreleased(t)' =>
           /\ \A d \in Revocations(t) : b.fund[d][t] = 0
           /\ b.lots[t] > 0 => PaidUp(b, t) /\ (x.ref = t => x.alloc[Debt] = 0)
  PROVE  LedgerInv'
<1>1. /\ LedgerTypeOK /\ Reconciled /\ WellFormedTxns /\ WellFormedBook /\ HoldsOfLots /\ NotOverReversed
      /\ CreditsBalance /\ DebtsBalance /\ RefundsFirst
  BY DEF LedgerInv
<1>2. /\ txns' = Append(txns, x) /\ n \in Ids /\ n \notin Posted /\ x.ref # n
      /\ Posted' = Posted \cup {n} /\ txns'[n] = x /\ \A t \in Posted : txns'[t] = txns[t]
  BY <1>1, Posts DEF Fits
<1>3. /\ txns' \in Seq(Transactions) /\ Len(txns') <= MaxTransactions
      /\ balanceUnits' = balanceUnits + x.units
      /\ book' \in Tables /\ book'.ok
  BY <1>1, Posts DEF Fits
<1>4. book'.lots = b.lots /\ book'.fund = b.fund
  BY <1>1, Posts DEF Fits
<1>5. /\ x.units \in Int /\ x.alloc \in [Parts -> Nat] /\ x.alloc[Debt] \in Nat
      /\ Posted \subseteq Ids /\ Ids \subseteq Parts /\ Debt \in Parts
      /\ book \in Tables
  BY <1>1, PostedType DEF Transactions, LedgerTypeOK
<1>6. /\ Worth(book)' = Worth(b) - x.alloc[Debt]
      /\ \A e \in Ids : Owing(book, e)' = Owing(b, e) + Portion(e, n, x.alloc[Debt])
      /\ \A t \in Ids : Place(book, t)' = Place(b, t) - Portion(x.ref, t, x.alloc[Debt])
  <2>1. book' = [b EXCEPT !.debts[NewId] = x.alloc[Debt]]
    BY DEF Post
  <2>2. NewId \in Ids /\ LedgerTypeOK /\ txns' = Append(txns, x)
    BY <1>1, <1>2
  <2> QED BY ZenonT(40), <2>1, <2>2, PostsDebt
<1>7. /\ \A t : HasLot(t)' <=> HasLot(t) \/ (t = n /\ x.kind = "grant")
      /\ \A t : Revocations(t)' = Revocations(t) \cup {d \in {n} : x.ref = t /\ x.alloc[Debt] > 0}
  BY <1>1, <1>2, Appends
<1>8. LedgerTypeOK'
  <2>1. balanceUnits \in Int
    BY <1>1 DEF LedgerTypeOK
  <2>2. balanceUnits' \in Int
    BY <1>3, <1>5, <2>1
  <2>3. txns' \in Seq(Transactions) /\ Len(txns') <= MaxTransactions
    BY <1>3
  <2>4. book' \in Tables /\ book'.ok
    BY <1>3
  <2> QED BY <2>2, <2>3, <2>4 DEF LedgerTypeOK
<1>9. Reconciled'
  <2>1. Total([t \in Posted |-> txns[t].units])' = Total([t \in Posted |-> txns[t].units]) + x.units
    BY <1>1, <1>2, SumsAppend
  <2>2. Worth(book) \in Int /\ ActiveHolds \in Nat /\ Worth(b) \in Int /\ ActiveHolds' \in Nat
    BY <1>1, <1>5, BooksType, HoldsType
  <2>3. balanceUnits' = Worth(book)' + ActiveHolds'
    BY <1>1, <1>3, <1>5, <1>6, <2>2 DEF Reconciled
  <2>4. balanceUnits' = Total([t \in Posted |-> txns[t].units])'
    BY <1>1, <1>3, <2>1 DEF Reconciled
  <2> QED BY <2>3, <2>4 DEF Reconciled
<1>10. WellFormedTxns' /\ NotOverReversed'
  BY PostedFits
<1>11. ASSUME NEW d \in Ids PROVE Owing(book, d) \in Nat /\ Owing(b, d) \in Nat
  BY <1>5, BooksType
<1>12. WellFormedBook'
  <2>1. \A t \in Ids : ~HasLot(t)' => book'.lots[t] = 0 /\ \A d \in Ids : book'.fund[d][t] = 0
    BY <1>4, <1>7
  <2>2. ASSUME NEW d \in Ids, d \notin Posted' PROVE Owing(book, d)' = 0
    <3>1. d # n /\ d \notin Posted
      BY <1>2, <2>2
    <3>2. Owing(book, d) = 0
      BY <1>1, <3>1 DEF WellFormedBook
    <3>3. Owing(b, d) = 0
      BY <1>11, <3>2
    <3> QED BY <1>6, <3>1, <3>3 DEF Portion
  <2>3. ASSUME NEW d \in Posted', txns'[d].alloc[Debt] = 0 PROVE Owing(book, d)' = 0
    <3>1. CASE d = n
      <4>1. Portion(d, n, x.alloc[Debt]) = 0
        BY <1>2, <2>3, <3>1 DEF Portion
      <4> QED BY <1>2, <1>6, <3>1, <4>1
    <3>2. CASE d \in Posted
      <4>1. d \in Ids /\ d # n /\ txns[d].alloc[Debt] = 0
        BY <1>2, <1>5, <2>3, <3>2
      <4>2. Owing(book, d) = 0
        BY <1>1, <3>2, <4>1 DEF WellFormedBook
      <4>3. Owing(b, d) = 0
        BY <1>11, <4>1, <4>2
      <4> QED BY <1>6, <4>1, <4>3 DEF Portion
    <3> QED BY <1>2, <3>1, <3>2
  <2> QED BY <2>1, <2>2, <2>3 DEF WellFormedBook
<1>13. HoldsOfLots'
  <2> SUFFICES ASSUME NEW h \in DOMAIN holds' PROVE holds'[h].txn \in Posted' /\ txns'[holds'[h].txn].kind = "grant"
    BY DEF HoldsOfLots, HasLot
  <2>1. h \in DOMAIN holds /\ holds'[h].txn = holds[h].txn /\ HasLot(holds[h].txn)
    BY <1>1 DEF HoldsOfLots
  <2> QED BY <1>2, <2>1 DEF HasLot
<1>14. /\ \A t : RefundsOf(t)' = RefundsOf(t) + IF x.kind = "refund" THEN Portion(x.ref, t, Size(x.units)) ELSE 0
       /\ \A t : Revoked(t)' = Revoked(t) + IF x.kind = "revocation" THEN Portion(x.ref, t, Size(x.units)) ELSE 0
       /\ \A t : RefundsOf(t) \in Nat /\ Revoked(t) \in Nat
  BY <1>1, <1>2, SumsAppend, ReversedSplits
<1>15. /\ \A s \in Posted : s # x.ref => Outstanding(s)' = Outstanding(s)
       /\ \A i \in Parts : Outstanding(n)'[i] = x.alloc[i]
       /\ \A s \in Posted : Outstanding(s)' \in [Parts -> Nat] /\ Outstanding(s) \in [Parts -> Nat]
       /\ \A t \in Ids : InUsage(t) \in Nat
       /\ \A t \in Ids :
            InUsage(t)' = InUsage(t) + (IF x.kind = "spend" THEN x.alloc[t] ELSE 0)
                          + (IF IsSpend(x.ref) THEN Outstanding(x.ref)'[t] - Outstanding(x.ref)[t] ELSE 0)
  BY <1>1, <1>2, UsageAppends, UsageType DEF Fits
<1>16. CreditsBalance'
  <2> SUFFICES ASSUME NEW t \in Posted', HasLot(t)'
               PROVE  txns'[t].units = Place(book, t)' + HeldOf(t)' + InUsage(t)' + RefundsOf(t)' + Revoked(t)'
    BY DEF CreditsBalance, Accounts
  <2>0. t \in Ids
    BY <1>2, <1>5
  <2>1. CASE t \in Posted
    <3>1. HasLot(t) /\ txns'[t].units = txns[t].units
      BY <1>2, <1>7, <2>1
    <3>2. txns[t].units = Place(book, t) + HeldOf(t) + InUsage(t) + RefundsOf(t) + Revoked(t)
      BY <1>1, <2>1, <3>1 DEF CreditsBalance, Accounts
    <3>3. Place(b, t) + HeldOf(t)' + Moved(x, t) = Place(book, t) + HeldOf(t)
      BY <2>1, <3>1
    <3> DEFINE spent == IF x.kind = "spend" THEN x.alloc[t] ELSE 0
               back == IF IsSpend(x.ref) THEN Outstanding(x.ref)'[t] - Outstanding(x.ref)[t] ELSE 0
               refunded == IF x.kind = "refund" THEN Portion(x.ref, t, Size(x.units)) ELSE 0
               revoked == IF x.kind = "revocation" THEN Portion(x.ref, t, Size(x.units)) ELSE 0
               owed == Portion(x.ref, t, x.alloc[Debt])
    <3>4. Moved(x, t) = spent + back + (refunded + revoked) - owed
      <4>1. refunded + revoked = IF x.kind \in {"refund", "revocation"} THEN Portion(x.ref, t, Size(x.units)) ELSE 0
        BY <1>5 DEF Portion, Size
      <4> HIDE DEF refunded, revoked
      <4> QED BY <4>1 DEF Moved
    <3>5. spent \in Int /\ back \in Int /\ refunded \in Int /\ revoked \in Int /\ owed \in Int
      <4>1. spent \in Int
        BY <1>5, <2>0
      <4>2. back \in Int
        BY <1>5, <1>15, <2>0 DEF IsSpend
      <4>3. refunded \in Int /\ revoked \in Int /\ owed \in Int
        BY <1>5 DEF Portion, Size
      <4> QED BY <4>1, <4>2, <4>3
    <3>6. /\ InUsage(t)' = InUsage(t) + spent + back /\ RefundsOf(t)' = RefundsOf(t) + refunded
          /\ Revoked(t)' = Revoked(t) + revoked /\ Place(book, t)' = Place(b, t) - owed
      BY <1>6, <1>14, <1>15, <2>0
    <3>7. /\ InUsage(t) \in Int /\ RefundsOf(t) \in Int /\ Revoked(t) \in Int /\ Place(b, t) \in Int
          /\ Place(book, t) \in Int /\ HeldOf(t) \in Int /\ HeldOf(t)' \in Int
      <4>1. Place(b, t) \in Int /\ Place(book, t) \in Int
        BY <1>5, <2>0, BooksType
      <4>2. HeldOf(t) \in Int
        BY <1>1, HoldsType
      <4>3. HeldOf(t)' \in Int
        OBVIOUS
      <4>4. InUsage(t) \in Int /\ RefundsOf(t) \in Int /\ Revoked(t) \in Int
        BY <1>14, <1>15, <2>0
      <4> QED BY <4>1, <4>2, <4>3, <4>4
    <3>8. PICK p, pb, h, hh, u, r, v :
            /\ p = Place(book, t) /\ pb = Place(b, t) /\ h = HeldOf(t) /\ hh = HeldOf(t)'
            /\ u = InUsage(t) /\ r = RefundsOf(t) /\ v = Revoked(t)
      OBVIOUS
    <3> HIDE DEF spent, back, refunded, revoked, owed
    <3>9. p \in Int /\ pb \in Int /\ h \in Int /\ hh \in Int /\ u \in Int /\ r \in Int /\ v \in Int
      BY <3>7, <3>8
    <3>10. pb + hh + (spent + back + (refunded + revoked) - owed) = p + h
      BY <3>3, <3>4, <3>8
    <3>11. txns'[t].units = p + h + u + r + v
      BY <3>1, <3>2, <3>8
    <3>12. p + h + u + r + v = (pb - owed) + hh + (u + spent + back) + (r + refunded) + (v + revoked)
      BY <3>5, <3>9, <3>10
    <3> QED BY <3>6, <3>8, <3>11, <3>12
  <2>2. CASE t = n
    <3>1. x.kind = "grant" /\ txns'[t].units = x.units /\ x.ref = 0 /\ ~IsSpend(x.ref)
      BY SMTT(30), <1>2, <1>5, <1>7, <2>2 DEF HasLot, Fits, IsSpend, Posted
    <3>2. InUsage(t) = 0 /\ RefundsOf(t) = 0 /\ Revoked(t) = 0 /\ HeldOf(t) = 0
      BY <1>1, <1>2, <2>2, NothingOfNew
    <3>3. Place(book, t)' = x.units
      BY <1>5, <1>6, <2>0, <2>2, <3>1 DEF Portion, Ids
    <3>4. HeldOf(t)' = 0 /\ InUsage(t)' = 0 /\ RefundsOf(t)' = 0 /\ Revoked(t)' = 0
      BY <1>14, <1>15, <2>0, <2>2, <3>1, <3>2
    <3> QED BY <1>5, <3>1, <3>3, <3>4
  <2> QED BY <1>2, <2>1, <2>2
<1>17. DebtsBalance'
  <2> SUFFICES ASSUME NEW s \in Posted', txns'[s].kind = "spend"
               PROVE  Outstanding(s)'[Debt] = Owing(book, s)'
    BY DEF DebtsBalance, IsSpend
  <2>1. CASE s = n
    <3>1. Outstanding(n)'[Debt] = x.alloc[Debt]
      BY <1>5, <1>15
    <3>2. Owing(book, n)' = x.alloc[Debt]
      BY <1>2, <1>5, <1>6 DEF Portion
    <3> QED BY <2>1, <3>1, <3>2
  <2>2. CASE s \in Posted
    <3>1. IsSpend(s) /\ s # n /\ s \in Ids
      BY <1>2, <1>5, <2>2 DEF IsSpend
    <3>2. Owing(book, s)' = Owing(b, s)
      BY <1>6, <1>11, <3>1 DEF Portion
    <3>3. CASE s = x.ref
      BY <3>1, <3>2, <3>3
    <3>4. CASE s # x.ref
      <4>1. Owing(b, s) = Owing(book, s) /\ Outstanding(s)' = Outstanding(s)
        BY <1>15, <2>2, <3>1, <3>4
      <4>2. Outstanding(s)[Debt] = Owing(book, s)
        BY <1>1, <2>2, <3>1 DEF DebtsBalance
      <4> QED BY <3>2, <4>1, <4>2
    <3> QED BY <3>3, <3>4
  <2> QED BY <1>2, <2>1, <2>2
<1>18. RefundsFirst'
  <2> SUFFICES ASSUME NEW t \in Posted', HasLot(t)', Unreleased(t)'
               PROVE  /\ \A d \in Revocations(t)' : book'.fund[d][t] = 0
                      /\ book'.lots[t] > 0 => \A d \in Revocations(t)' : Owing(book, d)' = 0
    BY DEF RefundsFirst, Unmixed, PaidUp
  <2>0. t \in Ids
    BY <1>2, <1>5
  <2>1. CASE t = n
    <3>1. Revocations(t)' = {}
      BY <1>1, <1>2, <1>7, <2>1, NothingOfNew
    <3> QED BY <3>1
  <2>2. CASE t \in Posted
    <3>1. HasLot(t)
      BY <1>2, <1>7, <2>2
    <3>2. /\ \A d \in Revocations(t) : b.fund[d][t] = 0
          /\ b.lots[t] > 0 => PaidUp(b, t) /\ (x.ref = t => x.alloc[Debt] = 0)
      BY <2>2, <3>1
    <3>3. b.fund[n][t] = 0
      <4>1. b.fund[n][t] <= Funded(b, n) /\ Funded(b, n) \in Nat /\ b.fund[n][t] \in Nat /\ b.debts[n] \in Nat
        BY <1>2, <2>0, BooksType
      <4> QED BY SMTT(30), <4>1 DEF Owing
    <3>4. \A d \in Revocations(t)' : book'.fund[d][t] = 0
      BY <1>4, <1>7, <3>2, <3>3
    <3>5. ASSUME book'.lots[t] > 0, NEW d \in Revocations(t)' PROVE Owing(book, d)' = 0
      <4>1. PaidUp(b, t) /\ (x.ref = t => x.alloc[Debt] = 0)
        BY <1>4, <3>2, <3>5
      <4>2. d \in Revocations(t)
        BY <1>5, <1>7, <3>5, <4>1
      <4>3. d \in Posted /\ d # n /\ d \in Ids
        BY <1>2, <1>5, <4>2 DEF Revocations
      <4> QED BY <1>6, <4>1, <4>2, <4>3 DEF Portion, PaidUp
    <3> QED BY <3>4, <3>5
  <2> QED BY <1>2, <2>1, <2>2
<1> QED BY <1>8, <1>9, <1>10, <1>12, <1>13, <1>16, <1>17, <1>18 DEF LedgerInv

-----------------------------------------------------------------------------
\* The operations that post nothing.

\* Funding debts moves units of the source into fundings.
LEMMA FundsDebt ==
  ASSUME NEW b \in Tables, NEW s \in Ids, NEW units \in Nat, units <= Total(b.debts),
         NEW c, c = FundDebt(b, s, units)
  PROVE  /\ c \in Tables /\ c.ok = b.ok /\ c.lots = b.lots
         /\ Worth(c) = Worth(b) + units
         /\ \A e \in Ids : Owing(c, e) = Owing(b, e)
         /\ \A t \in Ids : Place(c, t) = Place(b, t) + Portion(t, s, units)
         /\ \A e \in Ids, r \in Ids \ {s} : c.fund[e][r] = b.fund[e][r]
<1> DEFINE paid == Drawn(b.debts, units)
<1>17. b.debts \in [Ids -> Nat] /\ b.fund \in [Ids -> [Ids -> Nat]]
  BY BooksType
<1>18. IsFiniteSet(Ids)
  BY FiniteIds
<1>19. /\ paid \in [Ids -> Nat] /\ \A e \in Ids : paid[e] <= b.debts[e]
      /\ Total(paid) = Lesser(units, Total(b.debts))
  <2> DEFINE f == b.debts
  <2>1. f \in [1..MaxTransactions -> Nat] /\ MaxTransactions \in Nat
    BY <1>17, LedgerAssumption DEF Ids
  <2> HIDE DEF f
  <2>2. /\ Drawn(f, units) \in [1..MaxTransactions -> Nat]
        /\ \A e \in 1..MaxTransactions : Drawn(f, units)[e] <= f[e]
    <3>1. units \in Int
      OBVIOUS
    <3> QED BY <2>1, <3>1, DrawnType
  <2>3. Total(Drawn(f, units)) = Lesser(units, Total(f))
    BY <2>1, DrawnTotal
  <2> QED BY <2>2, <2>3 DEF f, Ids
<1>0. b.debts \in [Ids -> Nat] /\ b.fund \in [Ids -> [Ids -> Nat]] /\ IsFiniteSet(Ids)
  BY <1>17, <1>18
<1>1. paid \in [Ids -> Nat] /\ \A e \in Ids : paid[e] <= b.debts[e]
  BY <1>19
<1>2. Total(paid) = units
  <2>1. Total(b.debts) \in Nat
    BY BooksType
  <2>2. Total(paid) = Lesser(units, Total(b.debts))
    BY <1>19
  <2> HIDE DEF paid
  <2> QED BY <2>1, <2>2 DEF Lesser
<1>3. /\ c.lots = b.lots /\ c.debts = Minus(b.debts, paid)
      /\ c.fund = [d \in Ids |-> [b.fund[d] EXCEPT ![s] = @ + paid[d]]]
      /\ c.ok = (b.ok /\ Total(paid) = units)
      /\ c = [lots |-> c.lots, debts |-> c.debts, fund |-> c.fund, ok |-> c.ok]
  BY DEF FundDebt, Tables
<1> HIDE DEF paid
<1>4. c.debts \in [Ids -> Nat] /\ \A e \in Ids : c.debts[e] = b.debts[e] - paid[e]
  BY <1>0, <1>1, <1>3 DEF Minus
<1>5. /\ c.fund \in [Ids -> [Ids -> Nat]]
      /\ \A e \in Ids : c.fund[e] = [b.fund[e] EXCEPT ![s] = @ + paid[e]]
  BY <1>0, <1>1, <1>3
<1>6. /\ \A e \in Ids : c.fund[e][s] = b.fund[e][s] + paid[e]
      /\ \A e \in Ids, r \in Ids \ {s} : c.fund[e][r] = b.fund[e][r]
  <2> SUFFICES ASSUME NEW e \in Ids
               PROVE  /\ c.fund[e][s] = b.fund[e][s] + paid[e]
                      /\ \A r \in Ids \ {s} : c.fund[e][r] = b.fund[e][r]
    OBVIOUS
  <2> DEFINE f == b.fund[e]
             g == c.fund[e]
  <2>1. f \in [Ids -> Nat] /\ g = [f EXCEPT ![s] = @ + paid[e]]
    BY <1>0, <1>5
  <2> HIDE DEF f, g
  <2>2. g[s] = f[s] + paid[e] /\ \A r \in Ids \ {s} : g[r] = f[r]
    BY <2>1
  <2> QED BY <2>2 DEF f, g
<1>7. c.ok = b.ok
  BY <1>2, <1>3, BooksType
<1>8. c \in Tables
  <2>1. c.lots \in [Ids -> Nat] /\ c.ok \in BOOLEAN
    BY <1>3, <1>7, BooksType
  <2> QED BY <1>3, <1>4, <1>5, <2>1 DEF Tables
<1>9. Worth(c) = Worth(b) + units
  <2>1. Total(c.debts) = Total(b.debts) - units
    <3>1. b.debts \in [Ids -> Int] /\ paid \in [Ids -> Int]
      BY <1>0, <1>1
    <3> QED BY <1>0, <1>2, <1>3, <3>1, TotalMinus
  <2> QED BY <1>3, <2>1, BooksType DEF Worth
<1>10. ASSUME NEW e \in Ids PROVE Owing(c, e) = Owing(b, e)
  <2>1. Funded(c, e) = Funded(b, e) + paid[e]
    <3> DEFINE f == b.fund[e]
               g == c.fund[e]
    <3>1. /\ f \in [Ids -> Int] /\ g \in [Ids -> Int] /\ g[s] = f[s] + paid[e] /\ f[s] \in Nat /\ paid[e] \in Nat
          /\ \A r \in Ids \ {s} : g[r] = f[r]
      BY <1>0, <1>1, <1>5, <1>6
    <3>2. Total(f) \in Int
      BY <1>0, TotalType
    <3> HIDE DEF f, g
    <3>3. Total(g) = Total(f) + paid[e]
      BY <1>0, <3>1, <3>2, TotalChange
    <3> QED BY <3>3 DEF f, g, Funded
  <2>2. Funded(b, e) \in Nat /\ b.debts[e] \in Nat /\ paid[e] \in Nat
    BY <1>1, BooksType
  <2> QED BY <1>4, <2>1, <2>2 DEF Owing
<1>11. ASSUME NEW t \in Ids PROVE Place(c, t) = Place(b, t) + Portion(t, s, units)
  <2>1. Total(OwedFor(c, t)) = Total(OwedFor(b, t))
    BY <1>10 DEF OwedFor
  <2>2. CASE t = s
    <3> DEFINE f == FundedBy(b, t)
               g == FundedBy(c, t)
    <3>1. \A e \in Ids : g[e] = f[e] + paid[e]
      BY <1>6, <2>2 DEF FundedBy
    <3>2. f \in [Ids -> Int] /\ g \in [Ids -> Int] /\ paid \in [Ids -> Int]
      BY <1>0, <1>1, <1>8, BooksType
    <3> HIDE DEF f, g
    <3>3. Total(g) = Total(f) + units
      BY SMTT(30), <1>0, <1>2, <3>1, <3>2, TotalPlus
    <3> QED BY <1>3, <2>1, <2>2, <3>3, BooksType DEF f, g, Place, Portion
  <2>3. CASE t # s
    <3>1. FundedBy(c, t) = FundedBy(b, t)
      BY <1>6, <2>3 DEF FundedBy
    <3> QED BY <1>3, <2>1, <2>3, <3>1, BooksType DEF Place, Portion
  <2> QED BY <2>2, <2>3
<1> QED BY <1>3, <1>6, <1>7, <1>8, <1>9, <1>10, <1>11

\* An operation that posts nothing and keeps the accounts keeps the invariant.
LEMMA UnpostedKeeps ==
  ASSUME LedgerInv, txns' = txns, balanceUnits' = balanceUnits,
         NEW b \in Tables, b.ok, book' = b,
         holds' \in Seq(HoldRows), \A h \in DOMAIN holds' : HasLot(holds'[h].txn),
         reservedUnits' \in Nat, booked' \in Nat, reservedUnits' = booked' + ActiveHolds',
         Worth(b) + ActiveHolds' = Worth(book) + ActiveHolds,
         \A t \in Ids : ~HasLot(t) => b.lots[t] = 0 /\ \A d \in Ids : b.fund[d][t] = 0,
         \A d \in Ids : Owing(b, d) = Owing(book, d),
         \A t \in Posted : HasLot(t) => Place(b, t) + HeldOf(t)' = Place(book, t) + HeldOf(t),
         \A t : HeldOf(t)' \in Nat, ActiveHolds' \in Nat,
         \A t \in Posted : HasLot(t) /\ Unreleased(t)' =>
           Unmixed(b, t) /\ (b.lots[t] > 0 => PaidUp(b, t))
  PROVE  LedgerInv'
<1>1. /\ LedgerTypeOK /\ Reconciled /\ WellFormedTxns /\ WellFormedBook /\ HoldsOfLots /\ NotOverReversed
      /\ CreditsBalance /\ DebtsBalance /\ RefundsFirst
  BY DEF LedgerInv
<1>2. /\ Posted' = Posted
      /\ \A t : HasLot(t)' <=> HasLot(t)
      /\ \A t : IsSpend(t)' <=> IsSpend(t)
      /\ \A t : Revocations(t)' = Revocations(t)
      /\ \A t : Reversed(t)' = Reversed(t)
      /\ \A t : RefundsOf(t)' = RefundsOf(t)
      /\ \A t : Revoked(t)' = Revoked(t)
  BY DEF Posted, HasLot, IsSpend, Revocations, Reversed, RefundsOf, Revoked
<1>3. /\ \A s : Outstanding(s)' = Outstanding(s)
      /\ \A t : InUsage(t)' = InUsage(t)
      /\ \A t : ReversalRemaining(t)' = ReversalRemaining(t)
  BY <1>2 DEF Outstanding, InUsage, ReversalRemaining
<1>4. /\ Worth(book)' = Worth(b)
      /\ \A e : Owing(book, e)' = Owing(b, e)
      /\ \A t : FundedBy(book, t)' = FundedBy(b, t)
  BY DEF Worth, Owing, Funded, FundedBy
<1>5. /\ \A t : OwedFor(book, t)' = OwedFor(b, t)
      /\ \A t : Place(book, t)' = Place(b, t)
      /\ \A t : Unmixed(book, t)' <=> Unmixed(b, t)
      /\ \A t : PaidUp(book, t)' <=> PaidUp(b, t)
  <2>1. \A t : OwedFor(book, t)' = OwedFor(b, t)
    BY <1>2, <1>4 DEF OwedFor
  <2> QED BY <1>2, <1>4, <2>1 DEF Place, Unmixed, PaidUp
<1>6. Posted \subseteq Ids /\ book \in Tables
  BY <1>1, PostedType DEF LedgerTypeOK
<1>7. LedgerTypeOK'
  BY <1>1, <1>6 DEF LedgerTypeOK
<1>8. Reconciled'
  <2>1. Total([t \in Posted |-> txns[t].units])' = Total([t \in Posted |-> txns[t].units])
    BY <1>2
  <2> QED BY <1>1, <1>4, <2>1 DEF Reconciled
<1>9. WellFormedTxns'
  BY <1>1, <1>2 DEF WellFormedTxns
<1>10. WellFormedBook'
  BY <1>1, <1>2, <1>4, <1>6 DEF WellFormedBook
<1>11. HoldsOfLots'
  BY <1>2 DEF HoldsOfLots
<1>12. NotOverReversed'
  BY <1>1, <1>2, <1>3 DEF NotOverReversed
<1>13. CreditsBalance'
  <2> SUFFICES ASSUME NEW t \in Posted, HasLot(t)
               PROVE  txns[t].units = Place(b, t) + HeldOf(t)' + InUsage(t) + RefundsOf(t) + Revoked(t)
    BY <1>2, <1>3, <1>5 DEF CreditsBalance, Accounts
  <2>1. txns[t].units = Place(book, t) + HeldOf(t) + InUsage(t) + RefundsOf(t) + Revoked(t)
    BY <1>1 DEF CreditsBalance, Accounts
  <2> QED BY <2>1
<1>14. DebtsBalance'
  BY <1>1, <1>2, <1>3, <1>4, <1>6 DEF DebtsBalance
<1>15. RefundsFirst'
  BY <1>2, <1>5 DEF RefundsFirst
<1> QED BY <1>7, <1>8, <1>9, <1>10, <1>11, <1>12, <1>13, <1>14, <1>15 DEF LedgerInv

\* One lot set to a number.
LEMMA LotSet ==
  ASSUME NEW b \in Tables, NEW t \in Ids, NEW units \in Nat, NEW c, c = [b EXCEPT !.lots[t] = units]
  PROVE  /\ c \in Tables /\ c.ok = b.ok /\ c.debts = b.debts /\ c.fund = b.fund
         /\ c.lots[t] = units /\ \A s \in Ids \ {t} : c.lots[s] = b.lots[s]
<1>1. b.lots \in [Ids -> Nat]
  BY BooksType
<1>2. c = [b EXCEPT !.lots = [b.lots EXCEPT ![t] = units]]
  OBVIOUS
<1>3. PICK f : f = [b.lots EXCEPT ![t] = units]
  OBVIOUS
<1>4. f \in [Ids -> Nat] /\ f[t] = units /\ \A s \in Ids \ {t} : f[s] = b.lots[s]
  BY <1>1, <1>3
<1>5. c = [b EXCEPT !.lots = f]
  BY <1>2, <1>3
<1>6. c.lots = f /\ c.debts = b.debts /\ c.fund = b.fund /\ c.ok = b.ok
  BY <1>5 DEF Tables
<1>7. c \in Tables
  BY <1>4, <1>5 DEF Tables
<1> QED BY <1>4, <1>6, <1>7

\* What is held after a step is a number for each credit.
LEMMA HeldType ==
  ASSUME holds' \in Seq(HoldRows)
  PROVE  \A t : HeldOf(t)' \in Nat
<1> SUFFICES ASSUME NEW t PROVE HeldOf(t)' \in Nat
  OBVIOUS
<1>1. PICK hs : hs = holds'
  OBVIOUS
<1>2. /\ DOMAIN hs = 1..Len(hs) /\ Len(hs) \in Nat
      /\ \A h \in DOMAIN hs : hs[h].units \in Nat
  <2>1. hs \in Seq(HoldRows)
    BY <1>1
  <2>2. DOMAIN hs = 1..Len(hs) /\ Len(hs) \in Nat /\ \A h \in DOMAIN hs : hs[h] \in HoldRows
    BY <2>1
  <2> QED BY <2>2 DEF HoldRows
<1> DEFINE f == [h \in DOMAIN hs |-> IF hs[h].state = "active" /\ hs[h].txn = t THEN hs[h].units ELSE 0]
<1>3. f \in [DOMAIN hs -> Nat] /\ IsFiniteSet(DOMAIN hs)
  BY <1>2, FiniteIds
<1>4. HeldOf(t)' = Total(f)
  BY <1>1 DEF HeldOf, Total
<1> HIDE DEF f
<1> QED BY <1>3, <1>4, TotalNat

\* A step that leaves the holds alone leaves the sums over them alone.
LEMMA SameHolds ==
  ASSUME LedgerTypeOK, holds' = holds
  PROVE  /\ ActiveHolds' = ActiveHolds /\ ActiveHolds' \in Nat
         /\ \A t : HeldOf(t)' = HeldOf(t) /\ HeldOf(t)' \in Nat
         /\ \A t : Unreleased(t)' <=> Unreleased(t)
         /\ holds' \in Seq(HoldRows)
<1>1. ActiveHolds' = ActiveHolds
  BY DEF ActiveHolds, Total
<1>2. \A t : HeldOf(t)' = HeldOf(t)
  BY DEF HeldOf, Total
<1>3. \A t : Unreleased(t)' <=> Unreleased(t)
  BY DEF Unreleased
<1>4. holds' \in Seq(HoldRows)
  BY DEF LedgerTypeOK
<1>5. ActiveHolds \in Nat /\ \A t : HeldOf(t) \in Nat
  BY HoldsType
<1> QED BY <1>1, <1>2, <1>3, <1>4, <1>5

\* Only the units reserved for operations move.
LEMMA ReservingKeeps ==
  ASSUME LedgerInv, UNCHANGED <<txns, balanceUnits, holds, book>>,
         reservedUnits' \in Nat, booked' \in Nat, reservedUnits' - booked' = reservedUnits - booked
  PROVE  LedgerInv'
<1>1. LedgerTypeOK /\ Reconciled /\ HoldsOfLots /\ WellFormedBook /\ RefundsFirst
  BY DEF LedgerInv
<1>2. /\ ActiveHolds' = ActiveHolds /\ ActiveHolds' \in Nat
      /\ \A t : HeldOf(t)' = HeldOf(t) /\ HeldOf(t)' \in Nat
      /\ \A t : Unreleased(t)' <=> Unreleased(t)
      /\ holds' \in Seq(HoldRows)
  BY <1>1, SameHolds
<1>3. book \in Tables /\ book.ok /\ reservedUnits \in Nat /\ booked \in Nat
  BY <1>1 DEF LedgerTypeOK
<1>4. reservedUnits' = booked' + ActiveHolds'
  <2>1. reservedUnits = booked + ActiveHolds
    BY <1>1 DEF Reconciled
  <2>2. PICK a : a = ActiveHolds
    OBVIOUS
  <2>3. a \in Nat /\ ActiveHolds' = a /\ reservedUnits = booked + a
    BY <1>2, <2>1, <2>2
  <2>4. reservedUnits' = booked' + a
    <3>1. PICK r, o, r2, o2 : r = reservedUnits /\ o = booked /\ r2 = reservedUnits' /\ o2 = booked'
      OBVIOUS
    <3>2. r \in Nat /\ o \in Nat /\ r2 \in Nat /\ o2 \in Nat /\ r = o + a /\ r2 - o2 = r - o
      BY <1>3, <2>3, <3>1
    <3>3. r2 = o2 + a
      BY <2>3, <3>2
    <3> QED BY <3>1, <3>3
  <2> QED BY <2>3, <2>4
<1>5. \A h \in DOMAIN holds' : HasLot(holds'[h].txn)
  BY <1>1 DEF HoldsOfLots
<1>6. \A t \in Ids : ~HasLot(t) => book.lots[t] = 0 /\ \A d \in Ids : book.fund[d][t] = 0
  BY <1>1 DEF WellFormedBook
<1>7. \A t \in Posted : HasLot(t) /\ Unreleased(t)' =>
        Unmixed(book, t) /\ (book.lots[t] > 0 => PaidUp(book, t))
  BY <1>1, <1>2 DEF RefundsFirst
<1>8. Worth(book) + ActiveHolds' = Worth(book) + ActiveHolds
  BY <1>2
<1>9. \A t \in Posted : HasLot(t) => Place(book, t) + HeldOf(t)' = Place(book, t) + HeldOf(t)
  BY <1>2
<1>10. PICK b : b = book
  OBVIOUS
<1>11. txns' = txns /\ balanceUnits' = balanceUnits /\ book' = book
  OBVIOUS
<1> QED BY <1>2, <1>3, <1>4, <1>5, <1>6, <1>7, <1>8, <1>9, <1>11, UnpostedKeeps

\* _reserve keeps the invariant.
LEMMA ReserveKeeps ==
  ASSUME LedgerInv, NEW units \in Amounts, Reserve(units)
  PROVE  LedgerInv'
<1>1. reservedUnits \in Nat /\ booked \in Nat /\ units \in Nat
  BY LedgerAssumption DEF LedgerInv, LedgerTypeOK
<1> QED BY <1>1, ReservingKeeps DEF Reserve

\* So does the release of a reserve: no more is released than was booked.
LEMMA UnreserveKeeps ==
  ASSUME LedgerInv, NEW units \in Amounts, Unreserve(units)
  PROVE  LedgerInv'
<1>1. reservedUnits \in Nat /\ booked \in Nat /\ units \in Nat
  BY LedgerAssumption DEF LedgerInv, LedgerTypeOK
<1>2. reservedUnits = booked + ActiveHolds /\ ActiveHolds \in Nat
  BY HoldsType DEF LedgerInv, Reconciled
<1> QED BY <1>1, <1>2, ReservingKeeps DEF Unreserve

\* And a step that changes nothing.
LEMMA StutterKeeps ==
  ASSUME LedgerInv, UNCHANGED ledgerVars
  PROVE  LedgerInv'
<1>1. reservedUnits \in Nat /\ booked \in Nat
  BY DEF LedgerInv, LedgerTypeOK
<1> QED BY <1>1, ReservingKeeps DEF ledgerVars

\* A hold takes its units from the lot.
LEMMA HoldKeeps ==
  ASSUME LedgerInv, NEW t \in Posted, NEW units \in Amounts, HoldPurchaseRefund(t, units)
  PROVE  LedgerInv'
<1>1. /\ LedgerTypeOK /\ Reconciled /\ HoldsOfLots /\ WellFormedBook /\ RefundsFirst
      /\ book \in Tables /\ book.ok /\ reservedUnits \in Nat /\ booked \in Nat
  BY DEF LedgerInv, LedgerTypeOK
<1>2. /\ t \in Ids /\ units \in Nat /\ units <= book.lots[t] /\ HasLot(t)
      /\ holds' = Append(holds, [txn |-> t, units |-> units, state |-> "active"])
      /\ book' = [book EXCEPT !.lots[t] = @ - units]
      /\ reservedUnits' = reservedUnits + units
      /\ txns' = txns /\ balanceUnits' = balanceUnits /\ booked' = booked
  BY <1>1, PostedType, LedgerAssumption DEF HoldPurchaseRefund, Refundable
<1>3. /\ ActiveHolds' = ActiveHolds + units /\ ActiveHolds \in Nat
      /\ \A s : HeldOf(s)' = HeldOf(s) + Portion(t, s, units)
      /\ \A s : HeldOf(s) \in Nat
      /\ holds' \in Seq(HoldRows)
      /\ \A h \in DOMAIN holds' : (h \in DOMAIN holds /\ holds'[h] = holds[h])
                                  \/ (holds'[h].txn = t /\ holds'[h].state = "active")
      /\ \A h \in DOMAIN holds : h \in DOMAIN holds' /\ holds'[h] = holds[h]
  BY <1>1, <1>2, HoldAppends, HoldsType
<1>4. PICK b : b = [book EXCEPT !.lots[t] = @ - units]
  OBVIOUS
<1>5. /\ b \in Tables /\ b.ok = book.ok /\ b.debts = book.debts /\ b.fund = book.fund
      /\ b.lots[t] = book.lots[t] - units /\ \A s \in Ids \ {t} : b.lots[s] = book.lots[s]
  <2>1. book.lots[t] - units \in Nat
    BY SMTT(30), <1>1, <1>2, BooksType
  <2>2. b = [book EXCEPT !.lots[t] = book.lots[t] - units]
    BY <1>4
  <2>3. PICK v : v = book.lots[t] - units
    OBVIOUS
  <2>4. book \in Tables /\ t \in Ids /\ v \in Nat /\ b = [book EXCEPT !.lots[t] = v]
    BY <1>1, <1>2, <2>1, <2>2, <2>3
  <2>5. /\ b \in Tables /\ b.ok = book.ok /\ b.debts = book.debts /\ b.fund = book.fund
        /\ b.lots[t] = v /\ \A s \in Ids \ {t} : b.lots[s] = book.lots[s]
    BY <2>4, LotSet
  <2> QED BY <2>3, <2>5
<1>6. /\ Worth(b) = Worth(book) - units
      /\ \A e \in Ids : Owing(b, e) = Owing(book, e)
      /\ \A s \in Ids : Place(b, s) = Place(book, s) + Portion(s, t, -units)
  <2>1. -units \in Int /\ b.lots[t] = book.lots[t] + (-units)
    <3>1. book.lots[t] \in Nat
      BY <1>1, <1>2, BooksType
    <3> QED BY <1>2, <1>5, <3>1
  <2>2. /\ Worth(b) = Worth(book) + (-units)
        /\ \A e \in Ids : Owing(b, e) = Owing(book, e)
        /\ \A s \in Ids : Place(b, s) = Place(book, s) + Portion(s, t, -units)
    BY <1>1, <1>2, <1>5, <2>1, GainsLot
  <2> QED BY <1>1, <1>2, <2>2, BooksType
<1>7. \A s : HeldOf(s)' \in Nat
  BY <1>2, <1>3 DEF Portion
<1>8. ActiveHolds' \in Nat /\ reservedUnits' \in Nat /\ booked' \in Nat /\ reservedUnits' = booked' + ActiveHolds'
  BY <1>1, <1>2, <1>3 DEF Reconciled
<1>9. \A h \in DOMAIN holds' : HasLot(holds'[h].txn)
  BY <1>1, <1>2, <1>3 DEF HoldsOfLots
<1>10. Worth(b) + ActiveHolds' = Worth(book) + ActiveHolds
  BY <1>1, <1>2, <1>3, <1>6, BooksType
<1>11. \A s \in Ids : ~HasLot(s) => b.lots[s] = 0 /\ \A d \in Ids : b.fund[d][s] = 0
  BY <1>1, <1>2, <1>5 DEF WellFormedBook
<1>12. \A s \in Posted : HasLot(s) => Place(b, s) + HeldOf(s)' = Place(book, s) + HeldOf(s)
  <2> SUFFICES ASSUME NEW s \in Posted PROVE Place(b, s) + HeldOf(s)' = Place(book, s) + HeldOf(s)
    OBVIOUS
  <2>1. s \in Ids /\ Place(book, s) \in Int /\ HeldOf(s) \in Nat
    BY <1>1, <1>3, PostedType, BooksType
  <2>2. Place(b, s) = Place(book, s) + Portion(s, t, -units) /\ HeldOf(s)' = HeldOf(s) + Portion(t, s, units)
    BY <1>3, <1>6, <2>1
  <2> QED BY <1>2, <2>1, <2>2 DEF Portion
<1>13. ASSUME NEW s \in Posted, HasLot(s), Unreleased(s)'
       PROVE  Unmixed(b, s) /\ (b.lots[s] > 0 => PaidUp(b, s))
  <2>1. Unreleased(s)
    BY <1>3, <1>13 DEF Unreleased
  <2>2. Unmixed(book, s) /\ (book.lots[s] > 0 => PaidUp(book, s))
    BY <1>1, <1>13, <2>1 DEF RefundsFirst
  <2>3. s \in Ids /\ book.lots[s] \in Nat /\ book.lots[t] \in Nat
    BY <1>1, <1>2, PostedType, BooksType
  <2>4. Unmixed(b, s)
    BY <1>5, <2>2 DEF Unmixed
  <2>5. b.lots[s] > 0 => book.lots[s] > 0
    BY <1>2, <1>5, <2>3
  <2>6. Posted \subseteq Ids
    BY <1>1, PostedType
  <2>7. PaidUp(book, s) => PaidUp(b, s)
    BY <1>6, <2>6 DEF PaidUp, Revocations
  <2> QED BY <2>2, <2>4, <2>5, <2>7
<1>14. b.ok /\ book' = b /\ txns' = txns /\ balanceUnits' = balanceUnits
  BY <1>1, <1>2, <1>4, <1>5
<1> QED BY <1>3, <1>5, <1>6, <1>7, <1>8, <1>9, <1>10, <1>11, <1>12, <1>13, <1>14, UnpostedKeeps

\* Units of a hold that come back fund debts first.
LEMMA ReleaseKeeps ==
  ASSUME LedgerInv, NEW h \in DOMAIN holds, ReleasePurchaseRefund(h)
  PROVE  LedgerInv'
<1>1. /\ LedgerTypeOK /\ Reconciled /\ HoldsOfLots /\ WellFormedBook /\ RefundsFirst
      /\ book \in Tables /\ book.ok /\ reservedUnits \in Nat /\ booked \in Nat
      /\ Posted \subseteq Ids
  BY PostedType DEF LedgerInv, LedgerTypeOK
<1>2. PICK t, units, repaid, funded, b :
        /\ t = holds[h].txn /\ units = holds[h].units
        /\ repaid = Lesser(units, Total(book.debts))
        /\ funded = FundDebt(book, t, repaid)
        /\ b = [funded EXCEPT !.lots[t] = @ + units - repaid]
  OBVIOUS
<1>3. /\ holds[h].state = "active" /\ holds' = Released(h)
      /\ book' = b
      /\ reservedUnits' = reservedUnits - units
      /\ txns' = txns /\ balanceUnits' = balanceUnits /\ booked' = booked
  BY <1>2 DEF ReleasePurchaseRefund
<1>4. t \in Posted /\ t \in Ids /\ HasLot(t) /\ units \in Nat
  BY <1>1, <1>2, HoldsType DEF HoldsOfLots, HasLot
<1>5. Total(book.debts) \in Nat
  BY <1>1, BooksType
<1>6. repaid \in Nat /\ repaid <= units /\ repaid <= Total(book.debts)
  BY <1>2, <1>4, <1>5 DEF Lesser
<1>7. /\ funded \in Tables /\ funded.ok = book.ok /\ funded.lots = book.lots
      /\ Worth(funded) = Worth(book) + repaid
      /\ \A e \in Ids : Owing(funded, e) = Owing(book, e)
      /\ \A s \in Ids : Place(funded, s) = Place(book, s) + Portion(s, t, repaid)
      /\ \A e \in Ids, r \in Ids \ {t} : funded.fund[e][r] = book.fund[e][r]
  <2>1. /\ funded \in Tables /\ funded.ok = book.ok /\ funded.lots = book.lots
        /\ Worth(funded) = Worth(book) + repaid
        /\ \A e \in Ids : Owing(funded, e) = Owing(book, e)
        /\ \A s \in Ids : Place(funded, s) = Place(book, s) + Portion(s, t, repaid)
        /\ \A e \in Ids, r \in Ids \ {t} : funded.fund[e][r] = book.fund[e][r]
    <3>1. book \in Tables /\ t \in Ids /\ repaid \in Nat /\ repaid <= Total(book.debts) /\ funded = FundDebt(book, t, repaid)
      BY <1>1, <1>2, <1>4, <1>6
    <3> QED BY <3>1, FundsDebt
  <2> QED BY <2>1
<1>8. /\ b \in Tables /\ b.ok = funded.ok /\ b.debts = funded.debts /\ b.fund = funded.fund
      /\ b.lots[t] = funded.lots[t] + (units - repaid) /\ \A s \in Ids \ {t} : b.lots[s] = funded.lots[s]
  <2>1. funded.lots[t] \in Nat
    BY <1>4, <1>7, BooksType
  <2>2. funded.lots[t] + units - repaid \in Nat /\ funded.lots[t] + units - repaid = funded.lots[t] + (units - repaid)
    BY <1>4, <1>6, <2>1
  <2>3. b = [funded EXCEPT !.lots[t] = funded.lots[t] + units - repaid]
    BY <1>2
  <2>4. PICK v : v = funded.lots[t] + units - repaid
    OBVIOUS
  <2>5. /\ b \in Tables /\ b.ok = funded.ok /\ b.debts = funded.debts /\ b.fund = funded.fund
        /\ b.lots[t] = v /\ \A s \in Ids \ {t} : b.lots[s] = funded.lots[s]
    <3>1. funded \in Tables /\ t \in Ids /\ v \in Nat /\ b = [funded EXCEPT !.lots[t] = v]
      BY <1>4, <1>7, <2>2, <2>3, <2>4
    <3> QED BY SMTT(30), <3>1, LotSet
  <2> QED BY <2>2, <2>4, <2>5
<1>9. /\ Worth(b) = Worth(funded) + (units - repaid)
      /\ \A e \in Ids : Owing(b, e) = Owing(funded, e)
      /\ \A s \in Ids : Place(b, s) = Place(funded, s) + Portion(s, t, units - repaid)
  <2>1. units - repaid \in Int
    BY <1>4, <1>6
  <2> QED BY <1>4, <1>7, <1>8, <2>1, GainsLot
<1>10. Worth(b) = Worth(book) + units /\ Worth(book) \in Int
  BY <1>1, <1>4, <1>6, <1>7, <1>9, BooksType
<1>11. \A e \in Ids : Owing(b, e) = Owing(book, e)
  BY <1>7, <1>9
<1>12. ASSUME NEW s \in Ids PROVE Place(b, s) = Place(book, s) + Portion(s, t, units)
  <2>1. Place(book, s) \in Int
    BY <1>1, BooksType
  <2>2. /\ Place(b, s) = Place(funded, s) + Portion(s, t, units - repaid)
        /\ Place(funded, s) = Place(book, s) + Portion(s, t, repaid)
    BY <1>7, <1>9
  <2> QED BY <1>4, <1>6, <2>1, <2>2 DEF Portion
<1>13. /\ ActiveHolds' = ActiveHolds - units /\ units <= ActiveHolds /\ ActiveHolds \in Nat
       /\ \A s : HeldOf(s)' = HeldOf(s) - Portion(t, s, units)
       /\ \A s : HeldOf(s) \in Nat
       /\ holds' \in Seq(HoldRows)
       /\ DOMAIN holds' = DOMAIN holds
       /\ \A k \in DOMAIN holds : holds'[k].txn = holds[k].txn
       /\ \A k \in DOMAIN holds : holds'[k].state = "active" => holds[k].state = "active"
       /\ holds'[h].state = "released"
  BY <1>1, <1>2, <1>3, HoldReleases, HoldsType
<1>14. \A s : HeldOf(s)' \in Nat
  BY <1>13, HeldType
<1>15. ActiveHolds' \in Nat /\ reservedUnits' \in Nat /\ booked' \in Nat /\ reservedUnits' = booked' + ActiveHolds'
  <2>1. reservedUnits = booked + ActiveHolds
    BY <1>1 DEF Reconciled
  <2> QED BY <1>1, <1>3, <1>4, <1>13, <2>1
<1>16. \A k \in DOMAIN holds' : HasLot(holds'[k].txn)
  BY <1>1, <1>13 DEF HoldsOfLots
<1>17. Worth(b) + ActiveHolds' = Worth(book) + ActiveHolds
  BY <1>4, <1>10, <1>13
<1>18. \A s \in Ids : ~HasLot(s) => b.lots[s] = 0 /\ \A d \in Ids : b.fund[d][s] = 0
  BY <1>1, <1>4, <1>7, <1>8 DEF WellFormedBook
<1>19. \A s \in Posted : HasLot(s) => Place(b, s) + HeldOf(s)' = Place(book, s) + HeldOf(s)
  <2> SUFFICES ASSUME NEW s \in Posted PROVE Place(b, s) + HeldOf(s)' = Place(book, s) + HeldOf(s)
    OBVIOUS
  <2>1. s \in Ids /\ Place(book, s) \in Int /\ HeldOf(s) \in Nat
    BY <1>1, <1>13, BooksType
  <2>2. Place(b, s) = Place(book, s) + Portion(s, t, units) /\ HeldOf(s)' = HeldOf(s) - Portion(t, s, units)
    BY <1>12, <1>13, <2>1
  <2> QED BY <1>4, <2>1, <2>2 DEF Portion
<1>20. ASSUME NEW s \in Posted, HasLot(s), Unreleased(s)'
       PROVE  Unmixed(b, s) /\ (b.lots[s] > 0 => PaidUp(b, s))
  <2>1. s # t
    BY <1>2, <1>13, <1>20 DEF Unreleased
  <2>2. Unreleased(s)
    <3> SUFFICES ASSUME NEW k \in DOMAIN holds, holds[k].txn = s PROVE holds[k].state = "active"
      BY DEF Unreleased
    <3>1. holds'[k].state = "active"
      BY <1>13, <1>20 DEF Unreleased
    <3> QED BY <1>13, <3>1
  <2>3. Unmixed(book, s) /\ (book.lots[s] > 0 => PaidUp(book, s))
    BY <1>1, <1>20, <2>2 DEF RefundsFirst
  <2>4. s \in Ids
    BY <1>1
  <2>5. b.lots[s] = book.lots[s] /\ \A d \in Ids : b.fund[d][s] = book.fund[d][s]
    BY <1>7, <1>8, <2>1, <2>4
  <2>6. Unmixed(b, s)
    BY <1>1, <2>3, <2>5 DEF Unmixed, Revocations
  <2>7. PaidUp(book, s) => PaidUp(b, s)
    BY <1>1, <1>11 DEF PaidUp, Revocations
  <2> QED BY <2>3, <2>5, <2>6, <2>7
<1>21. b.ok /\ book' = b /\ txns' = txns /\ balanceUnits' = balanceUnits
  BY <1>1, <1>3, <1>7, <1>8
<1> QED BY <1>8, <1>11, <1>13, <1>14, <1>15, <1>16, <1>17, <1>18, <1>19, <1>20, <1>21, UnpostedKeeps

-----------------------------------------------------------------------------
\* The operations that post.

\* A transaction that moves no hold.
LEMMA PostingKeeps ==
  ASSUME LedgerInv, NEW x \in Transactions, Fits(x), NEW n, n = NewId,
         NEW b \in Tables, Owing(b, n) = 0,
         Post(x.kind, x.units, x.ref, x.alloc, b), UNCHANGED <<reservedUnits, booked, holds>>,
         Worth(b) - x.alloc[Debt] = Worth(book) + x.units,
         \A t \in Ids : ~HasLot(t) /\ ~(t = n /\ x.kind = "grant") =>
           b.lots[t] = 0 /\ \A d \in Ids : b.fund[d][t] = 0,
         \A d \in Ids : Owing(b, d) <= Owing(book, d),
         \A s \in Posted : IsSpend(s) /\ s # x.ref => Owing(b, s) = Owing(book, s),
         IsSpend(x.ref) => Owing(b, x.ref) = Outstanding(x.ref)'[Debt],
         \A t \in Posted : HasLot(t) => Place(b, t) + Moved(x, t) = Place(book, t),
         \A t \in Posted : Moved(x, t) \in Int,
         x.kind = "grant" => Place(b, n) = x.units,
         \A t \in Posted : HasLot(t) /\ Unreleased(t) =>
           /\ \A d \in Revocations(t) : b.fund[d][t] = 0
           /\ b.lots[t] > 0 => PaidUp(b, t) /\ (x.ref = t => x.alloc[Debt] = 0)
  PROVE  LedgerInv'
<1>1. /\ LedgerTypeOK /\ book \in Tables /\ reservedUnits \in Nat /\ booked \in Nat /\ Posted \subseteq Ids
      /\ reservedUnits = booked + ActiveHolds
  BY PostedType DEF LedgerInv, LedgerTypeOK, Reconciled
<1>2. /\ ActiveHolds' = ActiveHolds /\ ActiveHolds' \in Nat
      /\ \A t : HeldOf(t)' = HeldOf(t) /\ HeldOf(t)' \in Nat
      /\ \A t : Unreleased(t)' <=> Unreleased(t)
      /\ holds' \in Seq(HoldRows)
  BY <1>1, SameHolds
<1>3. /\ DOMAIN holds' = DOMAIN holds
      /\ \A k \in DOMAIN holds : /\ holds'[k].txn = holds[k].txn
                                 /\ holds'[k].state = "active" => holds[k].state = "active"
      /\ reservedUnits' \in Nat /\ booked' \in Nat /\ reservedUnits' = booked' + ActiveHolds'
  BY <1>1, <1>2
<1>4. Worth(b) - x.alloc[Debt] + ActiveHolds' = Worth(book) + ActiveHolds + x.units
  <2>1. Worth(b) \in Int /\ x.alloc[Debt] \in Int /\ Worth(book) \in Int /\ x.units \in Int
    <3>1. Worth(b) \in Int /\ Worth(book) \in Int
      BY <1>1, BooksType
    <3>2. Debt \in Parts
      BY <1>1, PostedType
    <3> QED BY <3>1, <3>2 DEF Transactions
  <2>2. PICK a, w, v, u, d :
          a = ActiveHolds /\ w = Worth(b) /\ v = Worth(book) /\ u = x.units /\ d = x.alloc[Debt]
    OBVIOUS
  <2>3. a \in Int /\ w \in Int /\ v \in Int /\ u \in Int /\ d \in Int /\ w - d = v + u
    BY <1>2, <2>1, <2>2
  <2>4. w - d + a = v + a + u
    BY <2>3
  <2> QED BY <1>2, <2>2, <2>4
<1>5. \A t \in Posted : HasLot(t) => Place(b, t) + HeldOf(t)' + Moved(x, t) = Place(book, t) + HeldOf(t)
  <2> SUFFICES ASSUME NEW t \in Posted, HasLot(t)
               PROVE  Place(b, t) + HeldOf(t)' + Moved(x, t) = Place(book, t) + HeldOf(t)
    OBVIOUS
  <2>1. Place(b, t) \in Int /\ Place(book, t) \in Int
    BY <1>1, BooksType
  <2>2. PICK p, q, m, h : p = Place(b, t) /\ q = Place(book, t) /\ m = Moved(x, t) /\ h = HeldOf(t)
    OBVIOUS
  <2>3. p \in Int /\ q \in Int /\ m \in Int /\ h \in Int /\ HeldOf(t)' = h /\ p + m = q
    BY <1>2, <2>1, <2>2
  <2>4. p + h + m = q + h
    BY <2>3
  <2> QED BY <2>2, <2>3, <2>4
<1>6. x.kind = "grant" => Place(b, n) = x.units /\ HeldOf(n)' = HeldOf(n)
  BY <1>2
<1>7. \A t \in Posted : HasLot(t) /\ Unreleased(t)' =>
        /\ \A d \in Revocations(t) : b.fund[d][t] = 0
        /\ b.lots[t] > 0 => PaidUp(b, t) /\ (x.ref = t => x.alloc[Debt] = 0)
  BY <1>2
<1>8. (\A t : HeldOf(t)' \in Nat) /\ ActiveHolds' \in Nat
  BY <1>2
<1> QED BY <1>2, <1>3, <1>4, <1>5, <1>6, <1>7, <1>8, PostKeeps

\* What the invariant says of a transaction that is not there yet.
LEMMA NewIsEmpty ==
  ASSUME LedgerInv, NEW n \in Ids, n = NewId
  PROVE  /\ n \notin Posted /\ ~HasLot(n) /\ Owing(book, n) = 0
         /\ book.lots[n] = 0 /\ (\A d \in Ids : book.fund[d][n] = 0)
         /\ Place(book, n) = 0
<1>1. /\ LedgerTypeOK /\ WellFormedTxns /\ WellFormedBook /\ HoldsOfLots /\ book \in Tables
  BY DEF LedgerInv, LedgerTypeOK
<1>2. n \notin Posted /\ ~HasLot(n)
  BY <1>1, PostedType DEF NewId, Posted, HasLot
<1>3. Owing(book, n) = 0 /\ book.lots[n] = 0 /\ \A d \in Ids : book.fund[d][n] = 0
  BY <1>1, <1>2 DEF WellFormedBook
<1>4. Revocations(n) = {}
  BY <1>1, NothingOfNew
<1>5. Total(FundedBy(book, n)) = 0
  <2>1. FundedBy(book, n) \in [Ids -> Int] /\ \A d \in Ids : FundedBy(book, n)[d] = 0
    BY <1>3 DEF FundedBy
  <2> QED BY <2>1, FiniteIds, TotalZero
<1>6. Total(OwedFor(book, n)) = 0
  <2>1. OwedFor(book, n) \in [Ids -> Int] /\ \A d \in Ids : OwedFor(book, n)[d] = 0
    BY <1>4 DEF OwedFor
  <2> QED BY <2>1, FiniteIds, TotalZero
<1> QED BY <1>2, <1>3, <1>5, <1>6 DEF Place

\* The allocation that takes nothing.
LEMMA NothingType == Nothing \in [Parts -> Nat] /\ \A i \in Parts : Nothing[i] = 0
BY DEF Nothing

\* A grant keeps the invariant: it funds debts first and opens a lot with the rest.
LEMMA GrantKeeps ==
  ASSUME LedgerInv, NEW units \in Amounts, Grant(units)
  PROVE  LedgerInv'
<1>1. /\ LedgerTypeOK /\ WellFormedBook /\ RefundsFirst
      /\ book \in Tables /\ book.ok /\ Posted \subseteq Ids /\ units \in Nat /\ Debt \in Parts /\ Ids \subseteq Parts
      /\ Len(txns) \in Nat
  BY PostedType, LedgerAssumption DEF LedgerInv, LedgerTypeOK
<1>2. PICK n, repaid, funded, b, x :
        /\ n = NewId
        /\ repaid = Lesser(units, Total(book.debts))
        /\ funded = FundDebt(book, NewId, repaid)
        /\ b = [funded EXCEPT !.lots[NewId] = units - repaid]
        /\ x = [kind |-> "grant", units |-> units, ref |-> 0, alloc |-> Nothing]
  OBVIOUS
<1>3. /\ NewId <= MaxTransactions
      /\ Post(x.kind, x.units, x.ref, x.alloc, b)
      /\ UNCHANGED <<reservedUnits, booked, holds>>
  BY <1>2 DEF Grant
<1>4. n \in Ids
  BY <1>1, <1>2, <1>3, LedgerAssumption DEF NewId, Ids
<1>5. /\ n \notin Posted /\ ~HasLot(n) /\ Owing(book, n) = 0
      /\ book.lots[n] = 0 /\ (\A d \in Ids : book.fund[d][n] = 0)
      /\ Place(book, n) = 0
  BY <1>2, <1>4, NewIsEmpty
<1>6. repaid \in Nat /\ repaid <= units /\ repaid <= Total(book.debts)
  <2>1. Total(book.debts) \in Nat
    BY <1>1, BooksType
  <2> QED BY <1>1, <1>2, <2>1 DEF Lesser
<1>7. /\ funded \in Tables /\ funded.ok = book.ok /\ funded.lots = book.lots
      /\ Worth(funded) = Worth(book) + repaid
      /\ \A e \in Ids : Owing(funded, e) = Owing(book, e)
      /\ \A s \in Ids : Place(funded, s) = Place(book, s) + Portion(s, n, repaid)
      /\ \A e \in Ids, r \in Ids \ {n} : funded.fund[e][r] = book.fund[e][r]
  <2>1. book \in Tables /\ n \in Ids /\ repaid \in Nat /\ repaid <= Total(book.debts) /\ funded = FundDebt(book, n, repaid)
    BY <1>1, <1>2, <1>4, <1>6
  <2> QED BY <2>1, FundsDebt
<1>8. /\ b \in Tables /\ b.ok = funded.ok /\ b.debts = funded.debts /\ b.fund = funded.fund
      /\ b.lots[n] = units - repaid /\ \A s \in Ids \ {n} : b.lots[s] = funded.lots[s]
  <2>1. PICK v : v = units - repaid
    OBVIOUS
  <2>2. v \in Nat /\ b = [funded EXCEPT !.lots[n] = v]
    BY <1>1, <1>2, <1>6, <2>1
  <2>3. /\ b \in Tables /\ b.ok = funded.ok /\ b.debts = funded.debts /\ b.fund = funded.fund
        /\ b.lots[n] = v /\ \A s \in Ids \ {n} : b.lots[s] = funded.lots[s]
    BY <1>4, <1>7, <2>2, LotSet
  <2> QED BY <2>1, <2>3
<1>9. /\ Worth(b) = Worth(funded) + (units - repaid)
      /\ \A e \in Ids : Owing(b, e) = Owing(funded, e)
      /\ \A s \in Ids : Place(b, s) = Place(funded, s) + Portion(s, n, units - repaid)
  <2>1. units - repaid \in Int /\ b.lots[n] = funded.lots[n] + (units - repaid)
    BY <1>1, <1>5, <1>6, <1>7, <1>8
  <2> QED BY <1>4, <1>7, <1>8, <2>1, GainsLot
<1>10. \A e \in Ids : Owing(b, e) = Owing(book, e) /\ Owing(book, e) \in Nat
  BY <1>1, <1>7, <1>9, BooksType
<1>11. Worth(b) = Worth(book) + units /\ Worth(book) \in Int
  BY <1>1, <1>6, <1>7, <1>9, BooksType
<1>12. ASSUME NEW s \in Ids PROVE Place(b, s) = Place(book, s) + Portion(s, n, units) /\ Place(book, s) \in Int
  <2>1. Place(book, s) \in Int
    BY <1>1, BooksType
  <2>2. /\ Place(b, s) = Place(funded, s) + Portion(s, n, units - repaid)
        /\ Place(funded, s) = Place(book, s) + Portion(s, n, repaid)
    BY <1>7, <1>9
  <2> QED BY <1>1, <1>6, <2>1, <2>2 DEF Portion
<1>13. /\ x \in Transactions /\ x.kind = "grant" /\ x.units = units /\ x.ref = 0 /\ x.alloc = Nothing
       /\ x.alloc[Debt] = 0
  BY <1>1, <1>2, NothingType, LedgerAssumption DEF Transactions, TransactionKinds
<1>14. Fits(x)
  BY <1>1, <1>13 DEF Fits
<1>15. 0 \notin Posted /\ ~IsSpend(x.ref)
  BY <1>13 DEF IsSpend, Posted
<1>16. \A t \in Posted : Moved(x, t) = 0
  BY <1>13, <1>15 DEF Moved, Portion
<1>17. \A t \in Ids : ~HasLot(t) /\ ~(t = n /\ x.kind = "grant") =>
         b.lots[t] = 0 /\ \A d \in Ids : b.fund[d][t] = 0
  BY <1>1, <1>7, <1>8, <1>13 DEF WellFormedBook
<1>18. ASSUME NEW t \in Posted, HasLot(t), Unreleased(t)
       PROVE  /\ \A d \in Revocations(t) : b.fund[d][t] = 0
              /\ b.lots[t] > 0 => PaidUp(b, t) /\ (x.ref = t => x.alloc[Debt] = 0)
  <2>1. Unmixed(book, t) /\ (book.lots[t] > 0 => PaidUp(book, t))
    BY <1>18 DEF LedgerInv, RefundsFirst
  <2>2. t \in Ids /\ t # n /\ Revocations(t) \subseteq Ids
    BY <1>1, <1>5 DEF Revocations
  <2>3. b.lots[t] = book.lots[t] /\ \A d \in Ids : b.fund[d][t] = book.fund[d][t]
    BY <1>7, <1>8, <2>2
  <2>4. \A d \in Revocations(t) : b.fund[d][t] = 0
    BY <2>1, <2>2, <2>3 DEF Unmixed
  <2>5. PaidUp(book, t) => PaidUp(b, t)
    BY <1>10, <2>2 DEF PaidUp
  <2> QED BY <1>13, <2>1, <2>3, <2>4, <2>5
<1>19. Owing(b, n) = 0
  BY <1>4, <1>5, <1>10
<1>20. Worth(b) - x.alloc[Debt] = Worth(book) + x.units
  BY <1>1, <1>11, <1>13
<1>21. \A d \in Ids : Owing(b, d) <= Owing(book, d)
  BY <1>10
<1>22. \A s \in Posted : IsSpend(s) /\ s # x.ref => Owing(b, s) = Owing(book, s)
  BY <1>1, <1>10
<1>23. \A t \in Posted : HasLot(t) => Place(b, t) + Moved(x, t) = Place(book, t)
  <2> SUFFICES ASSUME NEW t \in Posted PROVE Place(b, t) + Moved(x, t) = Place(book, t)
    OBVIOUS
  <2>1. t \in Ids /\ t # n /\ Portion(t, n, units) = 0
    BY <1>1, <1>5 DEF Portion
  <2>2. Place(b, t) = Place(book, t) + 0 /\ Place(book, t) \in Int
    BY <1>12, <2>1
  <2> QED BY <1>16, <2>2
<1>24. x.kind = "grant" => Place(b, n) = x.units
  BY <1>1, <1>4, <1>5, <1>12, <1>13 DEF Portion
<1>25. IsSpend(x.ref) => Owing(b, x.ref) = Outstanding(x.ref)'[Debt]
  BY <1>15
<1>26. \A t \in Posted : Moved(x, t) \in Int
  BY <1>16
<1>27. b \in Tables /\ x \in Transactions /\ n = NewId
  BY <1>2, <1>8, <1>13
<1>28. \A t \in Posted : HasLot(t) /\ Unreleased(t) =>
         /\ \A d \in Revocations(t) : b.fund[d][t] = 0
         /\ b.lots[t] > 0 => PaidUp(b, t) /\ (x.ref = t => x.alloc[Debt] = 0)
  BY <1>18
<1> QED BY <1>3, <1>14, <1>17, <1>19, <1>20, <1>21, <1>22, <1>23, <1>24, <1>25, <1>26, <1>27, <1>28, PostingKeeps

\* Units taken from the lots.
LEMMA LotsTaken ==
  ASSUME NEW b \in Tables, NEW taken \in [Ids -> Nat], \A t \in Ids : taken[t] <= b.lots[t],
         NEW c, c = [b EXCEPT !.lots = [t \in Ids |-> b.lots[t] - taken[t]]]
  PROVE  /\ c \in Tables /\ c.ok = b.ok /\ c.debts = b.debts /\ c.fund = b.fund
         /\ \A t \in Ids : c.lots[t] = b.lots[t] - taken[t]
         /\ Worth(c) = Worth(b) - Total(taken)
         /\ \A e \in Ids : Owing(c, e) = Owing(b, e)
         /\ \A t \in Ids : Place(c, t) = Place(b, t) - taken[t]
<1>1. b.lots \in [Ids -> Nat]
  BY BooksType
<1>2. PICK f : f = [t \in Ids |-> b.lots[t] - taken[t]]
  OBVIOUS
<1>3. f \in [Ids -> Nat] /\ \A t \in Ids : f[t] = b.lots[t] - taken[t]
  BY <1>1, <1>2
<1>4. c = [b EXCEPT !.lots = f]
  BY <1>2
<1>5. c.lots = f /\ c.debts = b.debts /\ c.fund = b.fund /\ c.ok = b.ok
  BY <1>4 DEF Tables
<1>6. c \in Tables
  BY <1>3, <1>4 DEF Tables
<1>7. Worth(c) = Worth(b) - Total(taken)
  <2>1. b.lots \in [Ids -> Int] /\ taken \in [Ids -> Int] /\ f = Minus(b.lots, taken)
    BY <1>1, <1>2 DEF Minus
  <2>2. Total(f) = Total(b.lots) - Total(taken) /\ Total(taken) \in Int
    BY <2>1, FiniteIds, TotalMinus, TotalType
  <2> QED BY <1>5, <2>2, BooksType DEF Worth
<1>8. \A e \in Ids : Owing(c, e) = Owing(b, e)
  BY <1>5 DEF Owing, Funded
<1>9. ASSUME NEW t \in Ids PROVE Place(c, t) = Place(b, t) - taken[t]
  <2>1. FundedBy(c, t) = FundedBy(b, t) /\ OwedFor(c, t) = OwedFor(b, t)
    BY <1>5, <1>8 DEF FundedBy, OwedFor
  <2> QED BY <1>3, <1>5, <2>1, BooksType DEF Place
<1> QED BY <1>3, <1>5, <1>6, <1>7, <1>8, <1>9

\* The steps that only take from lots, of credits that keep their order.
LEMMA TakingKeeps ==
  ASSUME LedgerInv, NEW x \in Transactions, Fits(x), NEW n \in Ids, n = NewId, ~IsSpend(x.ref), x.kind # "grant",
         NEW taken \in [Ids -> Nat], \A t \in Ids : taken[t] <= book.lots[t],
         NEW b, b = [book EXCEPT !.lots = [t \in Ids |-> book.lots[t] - taken[t]]],
         Post(x.kind, x.units, x.ref, x.alloc, b), UNCHANGED <<reservedUnits, booked, holds>>,
         Total(taken) + x.alloc[Debt] = -x.units,
         \A t \in Posted : HasLot(t) => Moved(x, t) = taken[t],
         \A t \in Posted : Moved(x, t) \in Int,
         \A t \in Posted : x.ref = t /\ taken[t] < book.lots[t] => x.alloc[Debt] = 0
  PROVE  LedgerInv'
<1>1. /\ LedgerTypeOK /\ WellFormedBook /\ RefundsFirst /\ book \in Tables /\ Posted \subseteq Ids /\ Debt \in Parts
  BY PostedType DEF LedgerInv, LedgerTypeOK
<1>2. /\ b \in Tables /\ b.ok = book.ok /\ b.debts = book.debts /\ b.fund = book.fund
      /\ \A t \in Ids : b.lots[t] = book.lots[t] - taken[t]
      /\ Worth(b) = Worth(book) - Total(taken)
      /\ \A e \in Ids : Owing(b, e) = Owing(book, e)
      /\ \A t \in Ids : Place(b, t) = Place(book, t) - taken[t]
  BY <1>1, LotsTaken
<1>3. \A t \in Ids : book.lots[t] \in Nat /\ Place(book, t) \in Int /\ Owing(book, t) \in Nat
  BY <1>1, BooksType
<1>4. Owing(b, n) = 0
  BY <1>2, NewIsEmpty
<1>5. Worth(b) - x.alloc[Debt] = Worth(book) + x.units
  <2>1. Worth(book) \in Int /\ Total(taken) \in Nat
    BY <1>1, BooksType, TotalNat, FiniteIds
  <2>2. x.alloc[Debt] \in Nat /\ x.units \in Int
    BY <1>1 DEF Transactions
  <2> QED BY <1>2, <2>1, <2>2
<1>6. \A t \in Ids : ~HasLot(t) /\ ~(t = n /\ x.kind = "grant") =>
        b.lots[t] = 0 /\ \A d \in Ids : b.fund[d][t] = 0
  <2> SUFFICES ASSUME NEW t \in Ids, ~HasLot(t) PROVE b.lots[t] = 0 /\ \A d \in Ids : b.fund[d][t] = 0
    OBVIOUS
  <2>1. book.lots[t] = 0 /\ \A d \in Ids : book.fund[d][t] = 0
    BY <1>1 DEF WellFormedBook
  <2>2. taken[t] \in Nat /\ taken[t] <= 0
    BY <2>1
  <2> QED BY <1>2, <2>1, <2>2
<1>7. \A d \in Ids : Owing(b, d) <= Owing(book, d)
  BY <1>2, <1>3
<1>8. \A s \in Posted : IsSpend(s) /\ s # x.ref => Owing(b, s) = Owing(book, s)
  BY <1>1, <1>2
<1>9. \A t \in Posted : HasLot(t) => Place(b, t) + Moved(x, t) = Place(book, t)
  <2> SUFFICES ASSUME NEW t \in Posted, HasLot(t) PROVE Place(b, t) + Moved(x, t) = Place(book, t)
    OBVIOUS
  <2>1. t \in Ids /\ taken[t] \in Nat
    BY <1>1
  <2>2. PICK m, p : m = Moved(x, t) /\ p = Place(book, t)
    OBVIOUS
  <2>3. m = taken[t] /\ Place(b, t) = p - taken[t] /\ p \in Int
    BY <1>2, <1>3, <2>1, <2>2
  <2>4. (p - taken[t]) + m = p
    BY <2>1, <2>3
  <2> QED BY <2>2, <2>3, <2>4
<1>10. \A t \in Posted : HasLot(t) /\ Unreleased(t) =>
         /\ \A d \in Revocations(t) : b.fund[d][t] = 0
         /\ b.lots[t] > 0 => PaidUp(b, t) /\ (x.ref = t => x.alloc[Debt] = 0)
  <2> SUFFICES ASSUME NEW t \in Posted, HasLot(t), Unreleased(t)
               PROVE  /\ \A d \in Revocations(t) : b.fund[d][t] = 0
                      /\ b.lots[t] > 0 => PaidUp(b, t) /\ (x.ref = t => x.alloc[Debt] = 0)
    OBVIOUS
  <2>1. Unmixed(book, t) /\ (book.lots[t] > 0 => PaidUp(book, t))
    BY <1>1 DEF RefundsFirst
  <2>2. t \in Ids /\ Revocations(t) \subseteq Ids
    BY <1>1 DEF Revocations
  <2>3. b.lots[t] > 0 => book.lots[t] > 0 /\ taken[t] < book.lots[t]
    BY <1>2, <1>3, <2>2
  <2>4. PaidUp(book, t) => PaidUp(b, t)
    BY <1>2, <2>2 DEF PaidUp
  <2>5. \A d \in Revocations(t) : b.fund[d][t] = 0
    BY <1>2, <2>1 DEF Unmixed
  <2> QED BY <2>1, <2>3, <2>4, <2>5
<1>11. IsSpend(x.ref) => Owing(b, x.ref) = Outstanding(x.ref)'[Debt]
  OBVIOUS
<1>12. x.kind = "grant" => Place(b, n) = x.units
  OBVIOUS
<1>13. b \in Tables
  BY <1>2
<1> QED BY <1>4, <1>5, <1>6, <1>7, <1>8, <1>9, <1>10, <1>11, <1>12, <1>13, PostingKeeps

\* A transaction is posted only where there is room for it.
LEMMA PostsInIds ==
  ASSUME LedgerTypeOK, NEW kind, NEW units, NEW ref, NEW alloc, NEW b, Post(kind, units, ref, alloc, b)
  PROVE  NewId \in Ids
BY PostedType, LedgerAssumption DEF Post, NewId, Ids

\* Usage keeps the invariant: what the lots do not cover is a debt.
LEMMA SpendKeeps ==
  ASSUME LedgerInv, NEW units \in Amounts, Spend(units)
  PROVE  LedgerInv'
<1>1. /\ LedgerTypeOK /\ WellFormedBook /\ book \in Tables /\ Posted \subseteq Ids /\ units \in Nat /\ Debt \in Parts
      /\ Ids \subseteq Parts
  BY PostedType, LedgerAssumption DEF LedgerInv, LedgerTypeOK
<1>2. PICK n, taken, alloc, b, x :
        /\ n = NewId
        /\ taken = Drawn(book.lots, units)
        /\ alloc = Allocate(units)
        /\ b = [book EXCEPT !.lots = [t \in Ids |-> book.lots[t] - alloc[t]]]
        /\ x = [kind |-> "spend", units |-> -units, ref |-> 0, alloc |-> alloc]
  OBVIOUS
<1>3. Post(x.kind, x.units, x.ref, x.alloc, b) /\ UNCHANGED <<reservedUnits, booked, holds>>
  BY <1>2 DEF Spend
<1>4. n \in Ids
  BY <1>1, <1>2, <1>3, PostsInIds
<1>5. /\ taken \in [Ids -> Nat] /\ \A t \in Ids : taken[t] <= book.lots[t]
      /\ Total(taken) \in Nat /\ Total(taken) <= units
  <2> DEFINE f == book.lots
  <2>1. f \in [1..MaxTransactions -> Nat] /\ MaxTransactions \in Nat /\ units \in Int /\ units \in Nat
    <3>1. book.lots \in [Ids -> Nat] /\ MaxTransactions \in Nat
      BY <1>1, BooksType, LedgerAssumption
    <3>2. f \in [1..MaxTransactions -> Nat]
      BY <3>1 DEF Ids
    <3> QED BY <1>1, <3>1, <3>2
  <2>2. Total(f) \in Nat
    BY <1>1, BooksType
  <2>3. taken = Drawn(f, units)
    BY <1>2
  <2> HIDE DEF f
  <2>4. /\ Drawn(f, units) \in [1..MaxTransactions -> Nat]
        /\ \A e \in 1..MaxTransactions : Drawn(f, units)[e] <= f[e]
    BY <2>1, DrawnType
  <2>5. Total(Drawn(f, units)) = Lesser(units, Total(f))
    BY <2>1, DrawnTotal
  <2>6. Lesser(units, Total(f)) \in Nat /\ Lesser(units, Total(f)) <= units
    BY <2>1, <2>2 DEF Lesser
  <2> QED BY <2>3, <2>4, <2>5, <2>6 DEF f, Ids
<1>6. /\ alloc[Debt] = units - Total(taken) /\ alloc[Debt] \in Nat
      /\ \A t \in Ids : alloc[t] = taken[t]
      /\ alloc \in [Parts -> Nat]
  <2>1. alloc = [i \in Parts |-> IF i = Debt THEN units - Total(taken) ELSE taken[i]]
    BY <1>2 DEF Allocate
  <2>2. units - Total(taken) \in Nat
    BY <1>1, <1>5
  <2>3. Debt \notin Ids /\ \A i \in Parts : i = Debt \/ i \in Ids
    BY LedgerAssumption DEF Ids, Parts, Debt
  <2> QED BY <1>1, <1>5, <2>1, <2>2, <2>3
<1>7. b = [book EXCEPT !.lots = [t \in Ids |-> book.lots[t] - taken[t]]]
  <2>1. [t \in Ids |-> book.lots[t] - alloc[t]] = [t \in Ids |-> book.lots[t] - taken[t]]
    BY <1>6
  <2> QED BY <1>2, <2>1
<1>8. /\ x \in Transactions /\ x.kind = "spend" /\ x.units = -units /\ x.ref = 0 /\ x.alloc = alloc
  BY <1>1, <1>2, <1>6, LedgerAssumption DEF Transactions, TransactionKinds
<1>9. Fits(x)
  <2>1. \A i \in Ids : alloc[i] > 0 => HasLot(i)
    <3> SUFFICES ASSUME NEW i \in Ids, alloc[i] > 0 PROVE HasLot(i)
      OBVIOUS
    <3>1. book.lots[i] \in Nat /\ taken[i] \in Nat /\ taken[i] <= book.lots[i] /\ taken[i] > 0
      BY <1>1, <1>5, <1>6, BooksType
    <3>2. book.lots[i] # 0
      BY <3>1
    <3> QED BY <1>1, <3>2 DEF WellFormedBook
  <2> QED BY <1>8, <2>1 DEF Fits
<1>10. 0 \notin Posted /\ ~IsSpend(x.ref)
  BY <1>8 DEF IsSpend, Posted
<1>11. \A t \in Posted : Moved(x, t) = taken[t]
  <2> SUFFICES ASSUME NEW t \in Posted PROVE Moved(x, t) = taken[t]
    OBVIOUS
  <2>1. t \in Ids /\ t # 0 /\ alloc[t] = taken[t] /\ taken[t] \in Nat
    BY <1>1, <1>5, <1>6, <1>10
  <2>2. Moved(x, t) = alloc[t] + 0 + 0 - 0
    BY <1>8, <1>10, <2>1 DEF Moved, Portion
  <2> QED BY <2>1, <2>2
<1>12. \A t \in Posted : HasLot(t) => Moved(x, t) = taken[t]
  BY <1>11
<1>13. \A t \in Posted : Moved(x, t) \in Int
  BY <1>1, <1>5, <1>11
<1>14. Total(taken) + x.alloc[Debt] = -x.units
  BY <1>1, <1>5, <1>6, <1>8
<1>15. \A t \in Posted : x.ref = t /\ taken[t] < book.lots[t] => x.alloc[Debt] = 0
  BY <1>8, <1>10
<1>16. x.kind # "grant" /\ x \in Transactions /\ n = NewId
  BY <1>2, <1>8
<1> QED BY <1>3, <1>4, <1>5, <1>7, <1>9, <1>10, <1>12, <1>13, <1>14, <1>15, <1>16, TakingKeeps

\* Units taken from one lot only.
LEMMA OneTaken ==
  ASSUME NEW b \in Tables, NEW t \in Ids, NEW units \in Nat, units <= b.lots[t],
         NEW taken, taken = [s \in Ids |-> Portion(t, s, units)]
  PROVE  /\ taken \in [Ids -> Nat] /\ \A s \in Ids : taken[s] <= b.lots[s]
         /\ Total(taken) = units
         /\ [b EXCEPT !.lots[t] = @ - units] = [b EXCEPT !.lots = [s \in Ids |-> b.lots[s] - taken[s]]]
<1>1. b.lots \in [Ids -> Nat] /\ \A s \in Ids : b.lots[s] \in Nat
  BY BooksType
<1>2. taken \in [Ids -> Nat] /\ \A s \in Ids : taken[s] <= b.lots[s]
  BY <1>1 DEF Portion
<1>3. Total(taken) = units
  <2> DEFINE z == [s \in Ids |-> 0]
  <2>1. z \in [Ids -> Int] /\ Total(z) = 0
    BY FiniteIds, TotalZero
  <2>2. taken \in [Ids -> Int] /\ (\A s \in Ids \ {t} : taken[s] = z[s]) /\ taken[t] = units /\ z[t] = 0
    BY <1>2 DEF Portion
  <2> HIDE DEF z
  <2>3. Total(taken) = Total(z) + taken[t] - z[t]
    BY <2>1, <2>2, FiniteIds, TotalChange
  <2> QED BY <2>1, <2>2, <2>3
<1>4. [b EXCEPT !.lots[t] = @ - units] = [b EXCEPT !.lots = [s \in Ids |-> b.lots[s] - taken[s]]]
  <2>1. [b.lots EXCEPT ![t] = @ - units] = [s \in Ids |-> b.lots[s] - taken[s]]
    BY <1>1 DEF Portion
  <2>2. [b EXCEPT !.lots[t] = @ - units] = [b EXCEPT !.lots = [b.lots EXCEPT ![t] = @ - units]]
    OBVIOUS
  <2> QED BY <2>1, <2>2
<1> QED BY <1>2, <1>3, <1>4

\* The refund of a grant keeps the invariant: its lot still has the units.
LEMMA RefundKeeps ==
  ASSUME LedgerInv, NEW t \in Posted, NEW units \in Amounts, RefundGrant(t, units)
  PROVE  LedgerInv'
<1>1. /\ LedgerTypeOK /\ book \in Tables /\ Posted \subseteq Ids /\ units \in Nat /\ Debt \in Parts
  BY PostedType, LedgerAssumption DEF LedgerInv, LedgerTypeOK
<1>2. PICK n, taken, b, x :
        /\ n = NewId
        /\ taken = [s \in Ids |-> Portion(t, s, units)]
        /\ b = [book EXCEPT !.lots[t] = @ - units]
        /\ x = [kind |-> "refund", units |-> -units, ref |-> t, alloc |-> Nothing]
  OBVIOUS
<1>3. /\ Post(x.kind, x.units, x.ref, x.alloc, b) /\ UNCHANGED <<reservedUnits, booked, holds>>
      /\ HasLot(t) /\ units <= ReversalRemaining(t) /\ units <= book.lots[t]
  BY <1>2 DEF RefundGrant, Refundable
<1>4. n \in Ids
  BY <1>1, <1>2, <1>3, PostsInIds
<1>5. /\ taken \in [Ids -> Nat] /\ \A s \in Ids : taken[s] <= book.lots[s]
      /\ Total(taken) = units
      /\ b = [book EXCEPT !.lots = [s \in Ids |-> book.lots[s] - taken[s]]]
  BY <1>1, <1>2, <1>3, OneTaken
<1>6. /\ x \in Transactions /\ x.kind = "refund" /\ x.units = -units /\ x.ref = t /\ x.alloc[Debt] = 0
  BY <1>1, <1>2, NothingType DEF Transactions, TransactionKinds, Ids
<1>7. Fits(x)
  <2>1. Size(-units) = units /\ -units <= 0 /\ t # 0
    BY <1>1 DEF Size, Posted
  <2> QED BY <1>3, <1>6, <2>1 DEF Fits
<1>8. ~IsSpend(x.ref)
  BY <1>3, <1>6 DEF IsSpend, HasLot
<1>9. \A s \in Posted : Moved(x, s) = taken[s]
  <2> SUFFICES ASSUME NEW s \in Posted PROVE Moved(x, s) = taken[s]
    OBVIOUS
  <2>1. Size(-units) = units
    BY <1>1 DEF Size
  <2>2. Moved(x, s) = 0 + 0 + Portion(t, s, units) - 0
    BY <1>6, <1>8, <2>1 DEF Moved, Portion
  <2>3. taken[s] = Portion(t, s, units) /\ Portion(t, s, units) \in Nat
    BY <1>1, <1>2 DEF Portion
  <2> QED BY <2>2, <2>3
<1>10. \A s \in Posted : HasLot(s) => Moved(x, s) = taken[s]
  BY <1>9
<1>11. \A s \in Posted : Moved(x, s) \in Int
  BY <1>1, <1>5, <1>9
<1>12. Total(taken) + x.alloc[Debt] = -x.units
  BY <1>1, <1>5, <1>6
<1>13. \A s \in Posted : x.ref = s /\ taken[s] < book.lots[s] => x.alloc[Debt] = 0
  BY <1>6
<1>14. x.kind # "grant" /\ x \in Transactions /\ n = NewId
  BY <1>2, <1>6
<1> QED BY <1>3, <1>4, <1>5, <1>7, <1>8, <1>10, <1>11, <1>12, <1>13, <1>14, TakingKeeps

\* What a revocation cannot take from the lot becomes a debt.
LEMMA RevokeKeeps ==
  ASSUME LedgerInv, NEW t \in Posted, NEW units \in Amounts, Revoke(t, units)
  PROVE  LedgerInv'
<1>1. /\ LedgerTypeOK /\ book \in Tables /\ Posted \subseteq Ids /\ units \in Nat /\ Debt \in Parts
      /\ t \in Ids /\ book.lots[t] \in Nat
  <2>1. LedgerTypeOK /\ book \in Tables
    BY DEF LedgerInv, LedgerTypeOK
  <2>2. Posted \subseteq Ids /\ units \in Nat /\ Debt \in Parts
    BY <2>1, PostedType, LedgerAssumption
  <2> QED BY <2>1, <2>2, BooksType
<1>2. PICK n, unspent, taken, alloc, b, x :
        /\ n = NewId
        /\ unspent = Lesser(units, book.lots[t])
        /\ taken = [s \in Ids |-> Portion(t, s, unspent)]
        /\ alloc = [i \in Parts |-> IF i = t THEN unspent ELSE IF i = Debt THEN units - unspent ELSE 0]
        /\ b = [book EXCEPT !.lots[t] = @ - unspent]
        /\ x = [kind |-> "revocation", units |-> -units, ref |-> t, alloc |-> alloc]
  OBVIOUS
<1>3. /\ Post(x.kind, x.units, x.ref, x.alloc, b) /\ UNCHANGED <<reservedUnits, booked, holds>>
      /\ HasLot(t) /\ units <= ReversalRemaining(t)
  BY <1>2 DEF Revoke
<1>4. n \in Ids
  BY <1>1, <1>2, <1>3, PostsInIds
<1>5. unspent \in Nat /\ unspent <= units /\ unspent <= book.lots[t] /\ (unspent < book.lots[t] => unspent = units)
  BY <1>1, <1>2 DEF Lesser
<1>6. /\ taken \in [Ids -> Nat] /\ \A s \in Ids : taken[s] <= book.lots[s]
      /\ Total(taken) = unspent
      /\ b = [book EXCEPT !.lots = [s \in Ids |-> book.lots[s] - taken[s]]]
  BY SMTT(30), <1>1, <1>2, <1>5, OneTaken
<1>7. alloc \in [Parts -> Nat] /\ alloc[Debt] = units - unspent
  <2>1. t # Debt
    BY <1>1, LedgerAssumption DEF Ids, Debt
  <2> QED BY <1>1, <1>2, <1>5, <2>1
<1>8. /\ x \in Transactions /\ x.kind = "revocation" /\ x.units = -units /\ x.ref = t
      /\ x.alloc = alloc /\ x.alloc[Debt] = units - unspent
  BY <1>1, <1>2, <1>7 DEF Transactions, TransactionKinds, Ids
<1>9. Fits(x)
  <2>1. Size(-units) = units /\ -units <= 0 /\ t # 0
    BY <1>1 DEF Size, Posted
  <2> QED BY <1>3, <1>8, <2>1 DEF Fits
<1>10. ~IsSpend(x.ref)
  BY <1>3, <1>8 DEF IsSpend, HasLot
<1>11. \A s \in Posted : Moved(x, s) = taken[s]
  <2> SUFFICES ASSUME NEW s \in Posted PROVE Moved(x, s) = taken[s]
    OBVIOUS
  <2>1. Size(-units) = units
    BY <1>1 DEF Size
  <2>2. Moved(x, s) = 0 + 0 + Portion(t, s, units) - Portion(t, s, units - unspent)
    BY <1>8, <1>10, <2>1 DEF Moved
  <2>3. taken[s] = Portion(t, s, unspent)
    BY <1>1, <1>2
  <2> QED BY <1>1, <1>5, <2>2, <2>3 DEF Portion
<1>12. \A s \in Posted : HasLot(s) => Moved(x, s) = taken[s]
  BY <1>11
<1>13. \A s \in Posted : Moved(x, s) \in Int
  BY <1>1, <1>6, <1>11
<1>14. Total(taken) + x.alloc[Debt] = -x.units
  BY <1>1, <1>5, <1>6, <1>8
<1>15. \A s \in Posted : x.ref = s /\ taken[s] < book.lots[s] => x.alloc[Debt] = 0
  <2> SUFFICES ASSUME taken[t] < book.lots[t] PROVE units - unspent = 0
    BY <1>8
  <2>1. taken[t] = unspent
    BY <1>1, <1>2 DEF Portion
  <2> QED BY <1>1, <1>5, <2>1
<1>16. x.kind # "grant" /\ x \in Transactions /\ n = NewId
  BY <1>2, <1>8
<1> QED BY <1>3, <1>4, <1>6, <1>9, <1>10, <1>12, <1>13, <1>14, <1>15, <1>16, TakingKeeps

\* The provider paid the refund out: what was held is refunded.
LEMMA FinalizeKeeps ==
  ASSUME LedgerInv, NEW h \in DOMAIN holds, FinalizePurchaseRefund(h)
  PROVE  LedgerInv'
<1>1. /\ LedgerTypeOK /\ Reconciled /\ HoldsOfLots /\ WellFormedBook /\ RefundsFirst
      /\ book \in Tables /\ reservedUnits \in Nat /\ booked \in Nat /\ Posted \subseteq Ids /\ Debt \in Parts
  BY PostedType DEF LedgerInv, LedgerTypeOK
<1>2. PICK n, t, units, x :
        /\ n = NewId
        /\ t = holds[h].txn /\ units = holds[h].units
        /\ x = [kind |-> "refund", units |-> -units, ref |-> t, alloc |-> Nothing]
  OBVIOUS
<1>3. /\ Post(x.kind, x.units, x.ref, x.alloc, book)
      /\ holds[h].state = "active" /\ holds' = Released(h) /\ units <= ReversalRemaining(t)
      /\ reservedUnits' = reservedUnits - units /\ booked' = booked
  BY <1>2 DEF FinalizePurchaseRefund
<1>4. n \in Ids
  BY <1>1, <1>2, <1>3, PostsInIds
<1>5. t \in Posted /\ t \in Ids /\ HasLot(t) /\ units \in Nat
  BY <1>1, <1>2, HoldsType DEF HoldsOfLots, HasLot
<1>6. /\ x \in Transactions /\ x.kind = "refund" /\ x.units = -units /\ x.ref = t /\ x.alloc[Debt] = 0
  BY <1>1, <1>2, <1>5, NothingType DEF Transactions, TransactionKinds, Ids
<1>7. Fits(x)
  <2>1. Size(-units) = units /\ -units <= 0 /\ t # 0
    BY <1>5 DEF Size, Posted
  <2> QED BY <1>3, <1>5, <1>6, <2>1 DEF Fits
<1>8. /\ ActiveHolds' = ActiveHolds - units /\ units <= ActiveHolds /\ ActiveHolds \in Nat
      /\ \A s : HeldOf(s)' = HeldOf(s) - Portion(t, s, units)
      /\ \A s : HeldOf(s) \in Nat
      /\ holds' \in Seq(HoldRows)
      /\ DOMAIN holds' = DOMAIN holds
      /\ \A k \in DOMAIN holds : holds'[k].txn = holds[k].txn
      /\ \A k \in DOMAIN holds : holds'[k].state = "active" => holds[k].state = "active"
      /\ holds'[h].state = "released"
  BY <1>1, <1>2, <1>3, HoldReleases, HoldsType
<1>9. \A s : HeldOf(s)' \in Nat
  BY <1>8, HeldType
<1>10. ActiveHolds' \in Nat /\ reservedUnits' \in Nat /\ booked' \in Nat /\ reservedUnits' = booked' + ActiveHolds'
  <2>1. reservedUnits = booked + ActiveHolds
    BY <1>1 DEF Reconciled
  <2> QED BY <1>1, <1>3, <1>5, <1>8, <2>1
<1>11. ~IsSpend(x.ref)
  BY <1>5, <1>6 DEF IsSpend, HasLot
<1>12. \A s \in Posted : Moved(x, s) = Portion(t, s, units)
  <2> SUFFICES ASSUME NEW s \in Posted PROVE Moved(x, s) = Portion(t, s, units)
    OBVIOUS
  <2>1. Size(-units) = units
    BY <1>5 DEF Size
  <2>2. Moved(x, s) = 0 + 0 + Portion(t, s, units) - 0
    BY <1>6, <1>11, <2>1 DEF Moved, Portion
  <2>3. Portion(t, s, units) \in Nat
    BY <1>5 DEF Portion
  <2> QED BY <2>2, <2>3
<1>13. Worth(book) - x.alloc[Debt] + ActiveHolds' = Worth(book) + ActiveHolds + x.units
  <2>1. Worth(book) \in Int
    BY <1>1, BooksType
  <2> QED BY <1>5, <1>6, <1>8, <2>1
<1>14. \A s \in Posted : HasLot(s) => Place(book, s) + HeldOf(s)' + Moved(x, s) = Place(book, s) + HeldOf(s)
  <2> SUFFICES ASSUME NEW s \in Posted
               PROVE  Place(book, s) + HeldOf(s)' + Moved(x, s) = Place(book, s) + HeldOf(s)
    OBVIOUS
  <2>1. PICK p, m, k : p = Place(book, s) /\ m = Portion(t, s, units) /\ k = HeldOf(s)
    OBVIOUS
  <2>2. p \in Int /\ k \in Int /\ HeldOf(s)' = k - m /\ Moved(x, s) = m
    BY <1>1, <1>8, <1>12, <2>1, BooksType
  <2>3. m \in Int
    BY <1>5, <2>1 DEF Portion
  <2>4. p + (k - m) + m = p + k
    BY <2>2, <2>3
  <2> QED BY <2>1, <2>2, <2>4
<1>15. \A s \in Ids : ~HasLot(s) /\ ~(s = n /\ x.kind = "grant") =>
         book.lots[s] = 0 /\ \A d \in Ids : book.fund[d][s] = 0
  BY <1>1 DEF WellFormedBook
<1>16. ASSUME NEW s \in Posted, HasLot(s), Unreleased(s)'
       PROVE  /\ \A d \in Revocations(s) : book.fund[d][s] = 0
              /\ book.lots[s] > 0 => PaidUp(book, s) /\ (x.ref = s => x.alloc[Debt] = 0)
  <2>1. Unreleased(s)
    <3> SUFFICES ASSUME NEW k \in DOMAIN holds, holds[k].txn = s PROVE holds[k].state = "active"
      BY DEF Unreleased
    <3>1. holds'[k].state = "active"
      BY <1>8, <1>16 DEF Unreleased
    <3> QED BY <1>8, <3>1
  <2> QED BY <1>1, <1>6, <1>16, <2>1 DEF RefundsFirst, Unmixed
<1>17. Owing(book, n) = 0
  BY <1>2, <1>4, NewIsEmpty
<1>18. \A d \in Ids : Owing(book, d) <= Owing(book, d)
  BY <1>1, BooksType
<1>19. IsSpend(x.ref) => Owing(book, x.ref) = Outstanding(x.ref)'[Debt]
  BY <1>11
<1>20. x.kind = "grant" => Place(book, n) = x.units /\ HeldOf(n)' = HeldOf(n)
  BY <1>6
<1>21. \A s \in Posted : HasLot(s) /\ Unreleased(s)' =>
         /\ \A d \in Revocations(s) : book.fund[d][s] = 0
         /\ book.lots[s] > 0 => PaidUp(book, s) /\ (x.ref = s => x.alloc[Debt] = 0)
  BY <1>16
<1>22. /\ DOMAIN holds' = DOMAIN holds /\ holds' \in Seq(HoldRows)
       /\ \A k \in DOMAIN holds : /\ holds'[k].txn = holds[k].txn
                                  /\ holds'[k].state = "active" => holds[k].state = "active"
       /\ x \in Transactions /\ n = NewId
       /\ Post(x.kind, x.units, x.ref, x.alloc, book)
       /\ book \in Tables
  BY <1>1, <1>2, <1>3, <1>6, <1>8
<1> QED BY ZenonT(40), <1>7, <1>9, <1>10, <1>13, <1>14, <1>15, <1>17, <1>18, <1>19, <1>20, <1>21, <1>22, PostKeeps

-----------------------------------------------------------------------------
\* The return of usage, and the theorems.

\* The next part of an allocation that a return gives back is what leaves the
\* usage that is outstanding.
LEMMA SliceReturns ==
  ASSUME LedgerTypeOK, WellFormedTxns, NotOverReversed, NEW t \in Posted, IsSpend(t),
         NEW units \in Nat, NEW back, back = Slice(t, units),
         NEW x \in Transactions, x.ref = t, x.units = units, txns' = Append(txns, x)
  PROVE  /\ back \in [Parts -> Nat]
         /\ \A i \in Parts : Outstanding(t)[i] \in Nat /\ Outstanding(t)'[i] = Outstanding(t)[i] - back[i]
<1>1. /\ txns[t].alloc \in [Parts -> Nat] /\ txns[t].units \in Int /\ Parts = 1..Debt /\ Debt \in Nat
  BY PostedType, LedgerAssumption DEF Parts, Debt
<1>2. Reversed(t) \in Nat
  <2>1. Reversed(t) \in Int /\ Reversed(t) >= 0
    BY ReversedType, ReversedSplits
  <2> QED BY <2>1
<1>3. PICK a, r : a = txns[t].alloc /\ r = Reversed(t)
  OBVIOUS
<1>4. /\ a \in [1..Debt -> Nat] /\ r \in Nat /\ r \in Int /\ r + units \in Int /\ r <= r + units
  BY <1>1, <1>2, <1>3
<1>5. Size(txns[t].units) - ReversalRemaining(t) = r
  <2>1. Size(txns[t].units) \in Int /\ Size(r) = r
    BY <1>1, <1>4 DEF Size
  <2> QED BY <1>3, <1>4, <2>1 DEF ReversalRemaining
<1>6. back = Minus(Drawn(a, r + units), Drawn(a, r))
  BY <1>3, <1>5 DEF Slice
<1>7. Outstanding(t) = Minus(a, Drawn(a, r))
  BY <1>3, <1>4 DEF Outstanding, Size
<1>8. Outstanding(t)' = Minus(a, Drawn(a, r + units))
  <2>1. Reversed(t)' = r + units
    <3>1. Reversed(t)' = Reversed(t) + Portion(x.ref, t, x.units)
      BY SumsAppend
    <3> QED BY <1>3, <3>1 DEF Portion
  <2>2. txns'[t].alloc = a
    BY <1>3, Appends
  <2>3. Size(r + units) = r + units
    BY <1>4 DEF Size
  <2> QED BY <2>1, <2>2, <2>3 DEF Outstanding
<1>9. PICK f, g : f = Drawn(a, r) /\ g = Drawn(a, r + units)
  OBVIOUS
<1>10. /\ f \in [1..Debt -> Nat] /\ \A i \in 1..Debt : f[i] <= a[i]
  BY <1>1, <1>4, <1>9, DrawnType
<1>11. /\ g \in [1..Debt -> Nat] /\ \A i \in 1..Debt : g[i] <= a[i]
  BY <1>1, <1>4, <1>9, DrawnType
<1>12. \A i \in 1..Debt : f[i] <= g[i]
  BY <1>1, <1>4, <1>9, DrawnGrows
<1>13. back = [i \in 1..Debt |-> g[i] - f[i]]
  BY <1>6, <1>9, <1>11 DEF Minus
<1>14. Outstanding(t) = [i \in 1..Debt |-> a[i] - f[i]]
  BY <1>4, <1>7, <1>9 DEF Minus
<1>15. Outstanding(t)' = [i \in 1..Debt |-> a[i] - g[i]]
  BY <1>4, <1>8, <1>9 DEF Minus
<1>16. back \in [Parts -> Nat]
  BY <1>1, <1>10, <1>11, <1>12, <1>13
<1>17. ASSUME NEW i \in Parts
       PROVE  Outstanding(t)[i] \in Nat /\ Outstanding(t)'[i] = Outstanding(t)[i] - back[i]
  <2>1. i \in 1..Debt /\ a[i] \in Nat /\ f[i] \in Nat /\ g[i] \in Nat /\ f[i] <= a[i]
    BY <1>1, <1>4, <1>10, <1>11
  <2>2. back[i] = g[i] - f[i] /\ Outstanding(t)[i] = a[i] - f[i] /\ Outstanding(t)'[i] = a[i] - g[i]
    BY <1>13, <1>14, <1>15, <2>1
  <2> QED BY <2>1, <2>2
<1> QED BY <1>16, <1>17

\* The return of usage keeps the invariant: the units go where they came from,
\* and through the debts of what was revoked meanwhile.
LEMMA ReturnKeeps ==
  ASSUME LedgerInv, NEW t \in Posted, NEW units \in Amounts, ReturnUsage(t, units)
  PROVE  LedgerInv'
<1>1. /\ LedgerTypeOK /\ WellFormedTxns /\ NotOverReversed /\ WellFormedBook /\ DebtsBalance /\ RefundsFirst
      /\ book \in Tables /\ book.ok /\ Posted \subseteq Ids /\ units \in Nat /\ Debt \in Parts /\ Ids \subseteq Parts
      /\ t \in Ids
  BY PostedType, LedgerAssumption DEF LedgerInv, LedgerTypeOK
<1>2. PICK n, back, b, x :
        /\ n = NewId
        /\ back = Slice(t, units)
        /\ b = AfterReturn(t, back)
        /\ x = [kind |-> "return", units |-> units, ref |-> t, alloc |-> Nothing]
  OBVIOUS
<1>3. /\ Post(x.kind, x.units, x.ref, x.alloc, b) /\ UNCHANGED <<reservedUnits, booked, holds>>
      /\ txns[t].kind = "spend" /\ units <= ReversalRemaining(t) /\ Total(back) = units
  BY <1>2 DEF ReturnUsage
<1>4. n \in Ids
  BY <1>1, <1>2, <1>3, PostsInIds
<1>5. /\ IsSpend(t) /\ ~HasLot(t) /\ txns[t].ref = 0
  BY <1>1, <1>3 DEF IsSpend, HasLot, WellFormedTxns
<1>6. /\ x \in Transactions /\ x.kind = "return" /\ x.units = units /\ x.ref = t
      /\ x.alloc = Nothing /\ x.alloc[Debt] = 0
  BY <1>1, <1>2, NothingType DEF Transactions, TransactionKinds, Ids
<1>7. txns' = Append(txns, x) /\ b.ok
  BY <1>2, <1>3 DEF Post
<1>8. /\ back \in [Parts -> Nat]
      /\ \A i \in Parts : Outstanding(t)[i] \in Nat /\ Outstanding(t)'[i] = Outstanding(t)[i] - back[i]
  BY <1>1, <1>2, <1>5, <1>6, <1>7, SliceReturns
<1>9. GaveBack(b, t, units, back, back[Debt])
  <2>1. GaveBack(AfterReturn(t, back), t, Total(back), back, back[Debt])
    BY <1>1, <1>5, <1>8, ReturnedGivesBack
  <2> QED BY <1>2, <1>3, <2>1
<1>10. /\ b \in Tables
       /\ Worth(b) = Worth(book) + units
       /\ \A i \in Ids : Place(b, i) = Place(book, i) + back[i]
       /\ \A e \in Ids : /\ Owing(b, e) <= Owing(book, e)
                         /\ ~Reverses(e) => Owing(b, e) = Owing(book, e) - Portion(e, t, back[Debt])
       /\ \A e, s \in Ids : b.fund[e][s] <= book.fund[e][s]
       /\ \A i \in Ids : ~HasLot(i) => b.lots[i] = book.lots[i]
       /\ \A i \in Ids : Unmixed(book, i) => b.lots[i] <= book.lots[i] \/ PaidUp(b, i)
  BY <1>7, <1>9 DEF GaveBack
<1>11. /\ \A i \in Ids : Place(book, i) \in Int /\ Owing(book, i) \in Nat /\ Owing(b, i) \in Nat
       /\ \A i \in Ids : b.lots[i] \in Nat /\ book.lots[i] \in Nat
       /\ \A e, s \in Ids : b.fund[e][s] \in Nat
       /\ Worth(book) \in Int
  BY <1>1, <1>10, BooksType
<1>12. Fits(x)
  <2>1. Size(units) = units /\ units >= 0 /\ t # 0
    BY <1>1 DEF Size, Posted
  <2> QED BY <1>3, <1>5, <1>6, <2>1 DEF Fits
<1>13. Owing(b, n) = 0
  <2>1. Owing(book, n) = 0
    BY <1>2, <1>4, NewIsEmpty
  <2> QED BY <1>4, <1>10, <1>11, <2>1
<1>14. Worth(b) - x.alloc[Debt] = Worth(book) + x.units
  BY <1>1, <1>6, <1>10, <1>11
<1>15. \A i \in Ids : ~HasLot(i) /\ ~(i = n /\ x.kind = "grant") =>
         b.lots[i] = 0 /\ \A d \in Ids : b.fund[d][i] = 0
  <2> SUFFICES ASSUME NEW i \in Ids, ~HasLot(i) PROVE b.lots[i] = 0 /\ \A d \in Ids : b.fund[d][i] = 0
    OBVIOUS
  <2>1. book.lots[i] = 0 /\ \A d \in Ids : book.fund[d][i] = 0
    BY <1>1 DEF WellFormedBook
  <2>2. b.lots[i] = 0
    BY <1>10, <2>1
  <2>3. ASSUME NEW d \in Ids PROVE b.fund[d][i] = 0
    <3>1. b.fund[d][i] \in Nat /\ b.fund[d][i] <= book.fund[d][i] /\ book.fund[d][i] = 0
      BY <1>10, <1>11, <2>1
    <3> QED BY <3>1
  <2> QED BY <2>2, <2>3
<1>16. \A d \in Ids : Owing(b, d) <= Owing(book, d)
  BY <1>10
<1>17. \A s \in Posted : IsSpend(s) /\ s # x.ref => Owing(b, s) = Owing(book, s)
  <2> SUFFICES ASSUME NEW s \in Posted, IsSpend(s), s # t PROVE Owing(b, s) = Owing(book, s)
    BY <1>6
  <2>1. s \in Ids /\ ~Reverses(s) /\ Portion(s, t, back[Debt]) = 0
    BY <1>1 DEF WellFormedTxns, IsSpend, Reverses, Portion
  <2> QED BY <1>10, <1>11, <2>1
<1>18. IsSpend(x.ref) => Owing(b, x.ref) = Outstanding(x.ref)'[Debt]
  <2>1. ~Reverses(t) /\ Portion(t, t, back[Debt]) = back[Debt]
    BY <1>5 DEF Reverses, Portion
  <2>2. Owing(b, t) = Owing(book, t) - back[Debt]
    BY <1>1, <1>10, <2>1
  <2>3. Outstanding(t)'[Debt] = Outstanding(t)[Debt] - back[Debt]
    BY <1>1, <1>8
  <2>4. Outstanding(t)[Debt] = Owing(book, t)
    BY <1>1, <1>5 DEF DebtsBalance
  <2> QED BY <1>6, <2>2, <2>3, <2>4
<1>19. ASSUME NEW i \in Posted PROVE Moved(x, i) = -back[i] /\ back[i] \in Nat
  <2>1. i \in Parts /\ back[i] \in Nat
    BY <1>1, <1>8
  <2>2. Portion(t, i, 0) = 0
    BY DEF Portion
  <2>3. PICK o : o = Outstanding(t)[i]
    OBVIOUS
  <2>4. o \in Nat /\ Outstanding(t)'[i] = o - back[i]
    BY <1>8, <2>1, <2>3
  <2>5. Moved(x, i) = 0 + (Outstanding(t)'[i] - Outstanding(t)[i]) + 0 - 0
    BY <1>5, <1>6, <2>2 DEF Moved
  <2>6. Moved(x, i) = 0 + ((o - back[i]) - o) + 0 - 0
    BY <2>3, <2>4, <2>5
  <2> QED BY <2>1, <2>4, <2>6
<1>20. \A i \in Posted : HasLot(i) => Place(b, i) + Moved(x, i) = Place(book, i)
  <2> SUFFICES ASSUME NEW i \in Posted PROVE Place(b, i) + Moved(x, i) = Place(book, i)
    OBVIOUS
  <2>1. PICK p, m : p = Place(book, i) /\ m = Moved(x, i)
    OBVIOUS
  <2>2. i \in Ids /\ p \in Int /\ Place(b, i) = p + back[i] /\ m = -back[i] /\ back[i] \in Nat
    BY <1>1, <1>10, <1>11, <1>19, <2>1
  <2>3. (p + back[i]) + m = p
    BY <2>2
  <2> QED BY <2>1, <2>2, <2>3
<1>21. \A i \in Posted : Moved(x, i) \in Int
  BY <1>19
<1>22. \A i \in Posted : HasLot(i) /\ Unreleased(i) =>
         /\ \A d \in Revocations(i) : b.fund[d][i] = 0
         /\ b.lots[i] > 0 => PaidUp(b, i) /\ (x.ref = i => x.alloc[Debt] = 0)
  <2> SUFFICES ASSUME NEW i \in Posted, HasLot(i), Unreleased(i)
               PROVE  /\ \A d \in Revocations(i) : b.fund[d][i] = 0
                      /\ b.lots[i] > 0 => PaidUp(b, i)
    BY <1>6
  <2>1. Unmixed(book, i) /\ (book.lots[i] > 0 => PaidUp(book, i))
    BY <1>1 DEF RefundsFirst
  <2>2. i \in Ids /\ Revocations(i) \subseteq Ids
    BY <1>1 DEF Revocations
  <2>3. ASSUME NEW d \in Revocations(i) PROVE b.fund[d][i] = 0
    <3>1. b.fund[d][i] \in Nat /\ b.fund[d][i] <= book.fund[d][i] /\ book.fund[d][i] = 0
      BY <1>10, <1>11, <2>1, <2>2 DEF Unmixed
    <3> QED BY <3>1
  <2>4. ASSUME b.lots[i] > 0 PROVE PaidUp(b, i)
    <3>1. CASE b.lots[i] <= book.lots[i]
      <4>1. PaidUp(book, i)
        BY <1>11, <2>1, <2>2, <2>4, <3>1
      <4> SUFFICES ASSUME NEW d \in Revocations(i) PROVE Owing(b, d) = 0
        BY DEF PaidUp
      <4>2. Owing(b, d) <= Owing(book, d) /\ Owing(b, d) \in Nat /\ Owing(book, d) = 0
        BY <1>10, <1>11, <2>2, <4>1 DEF PaidUp
      <4> QED BY <4>2
    <3> QED BY <1>10, <2>1, <2>2, <3>1
  <2> QED BY <2>3, <2>4
<1>23. x.kind = "grant" => Place(b, n) = x.units
  BY <1>6
<1>24. b \in Tables /\ x \in Transactions /\ n = NewId
  BY <1>2, <1>6, <1>10
<1> QED BY <1>3, <1>12, <1>13, <1>14, <1>15, <1>16, <1>17, <1>18, <1>20, <1>21, <1>22, <1>23, <1>24, PostingKeeps

-----------------------------------------------------------------------------

\* A new wallet is balanced.
LEMMA InitLedger == LedgerInit => LedgerInv
<1> SUFFICES ASSUME LedgerInit PROVE LedgerInv
  OBVIOUS
<1>1. Posted = {} /\ DOMAIN holds = {} /\ txns = <<>> /\ holds = <<>>
  BY DEF LedgerInit, Posted
<1>2. /\ balanceUnits = 0 /\ reservedUnits = 0 /\ booked = 0
      /\ book.lots = [t \in Ids |-> 0] /\ book.debts = [t \in Ids |-> 0]
      /\ book.fund = [d \in Ids |-> [s \in Ids |-> 0]] /\ book.ok
      /\ book \in Tables
  BY DEF LedgerInit, Tables
<1>3. LedgerTypeOK
  BY <1>1, <1>2, LedgerAssumption DEF LedgerTypeOK
<1>4. Reconciled
  <2>1. Total(book.lots) = 0 /\ Total(book.debts) = 0
    <3> DEFINE z == [t \in Ids |-> 0]
    <3>1. z \in [Ids -> Int] /\ \A t \in Ids : z[t] = 0
      OBVIOUS
    <3>2. book.lots = z /\ book.debts = z
      BY <1>2
    <3> HIDE DEF z
    <3>3. Total(z) = 0
      BY <3>1, FiniteIds, TotalZero
    <3> QED BY <3>2, <3>3
  <2>2. Worth(book) = 0
    BY <2>1 DEF Worth
  <2>3. IsFiniteSet({})
    BY FS_EmptySet
  <2>4. ActiveHolds = 0
    <3> DEFINE f == [h \in DOMAIN holds |-> IF holds[h].state = "active" THEN holds[h].units ELSE 0]
    <3>1. f \in [{} -> Int] /\ \A h \in {} : f[h] = 0
      BY <1>1
    <3>2. ActiveHolds = Total(f)
      BY DEF ActiveHolds
    <3> HIDE DEF f
    <3> QED BY <2>3, <3>1, <3>2, TotalZero
  <2>5. Total([t \in Posted |-> txns[t].units]) = 0
    <3> DEFINE f == [t \in Posted |-> txns[t].units]
    <3>1. f \in [{} -> Int] /\ \A h \in {} : f[h] = 0
      BY <1>1
    <3> HIDE DEF f
    <3>2. Total(f) = 0
      BY <2>3, <3>1, TotalZero
    <3> QED BY <3>2 DEF f
  <2> QED BY <1>2, <2>2, <2>4, <2>5 DEF Reconciled
<1>5. WellFormedBook
  <2>1. ASSUME NEW d \in Ids PROVE Owing(book, d) = 0
    <3>1. book.fund[d] \in [Ids -> Int] /\ \A s \in Ids : book.fund[d][s] = 0
      BY <1>2
    <3>2. Funded(book, d) = 0
      BY <3>1, FiniteIds, TotalZero DEF Funded
    <3> QED BY <1>2, <3>2 DEF Owing
  <2>2. \A t \in Ids : book.lots[t] = 0 /\ \A d \in Ids : book.fund[d][t] = 0
    BY <1>2
  <2> QED BY <1>1, <2>1, <2>2 DEF WellFormedBook
<1>6. WellFormedTxns /\ HoldsOfLots /\ NotOverReversed /\ CreditsBalance /\ DebtsBalance /\ RefundsFirst
  BY <1>1 DEF WellFormedTxns, HoldsOfLots, NotOverReversed, CreditsBalance, DebtsBalance, RefundsFirst
<1> QED BY <1>3, <1>4, <1>5, <1>6 DEF LedgerInv

\* Every operation of the wallet keeps its accounts balanced.
LEMMA NextLedger == LedgerInv /\ [LedgerNext]_ledgerVars => LedgerInv'
<1> SUFFICES ASSUME LedgerInv, [LedgerNext]_ledgerVars PROVE LedgerInv'
  OBVIOUS
<1>1. ASSUME NEW units \in Amounts, Grant(units) PROVE LedgerInv'
  BY <1>1, GrantKeeps
<1>2. ASSUME NEW units \in Amounts, Spend(units) PROVE LedgerInv'
  BY <1>2, SpendKeeps
<1>3. ASSUME NEW units \in Amounts, Reserve(units) PROVE LedgerInv'
  BY <1>3, ReserveKeeps
<1>4. ASSUME NEW units \in Amounts, Unreserve(units) PROVE LedgerInv'
  BY <1>4, UnreserveKeeps
<1>5. ASSUME NEW t \in Posted, NEW units \in Amounts, RefundGrant(t, units) PROVE LedgerInv'
  BY <1>5, RefundKeeps
<1>6. ASSUME NEW t \in Posted, NEW units \in Amounts, ReturnUsage(t, units) PROVE LedgerInv'
  BY <1>6, ReturnKeeps
<1>7. ASSUME NEW t \in Posted, NEW units \in Amounts, HoldPurchaseRefund(t, units) PROVE LedgerInv'
  BY <1>7, HoldKeeps
<1>8. ASSUME NEW t \in Posted, NEW units \in Amounts, Revoke(t, units) PROVE LedgerInv'
  BY <1>8, RevokeKeeps
<1>9. ASSUME NEW h \in DOMAIN holds, ReleasePurchaseRefund(h) PROVE LedgerInv'
  BY <1>9, ReleaseKeeps
<1>10. ASSUME NEW h \in DOMAIN holds, FinalizePurchaseRefund(h) PROVE LedgerInv'
  BY <1>10, FinalizeKeeps
<1>11. CASE UNCHANGED ledgerVars
  BY <1>11, StutterKeeps
<1> QED BY <1>1, <1>2, <1>3, <1>4, <1>5, <1>6, <1>7, <1>8, <1>9, <1>10, <1>11 DEF LedgerNext

\* The accounts of a wallet are always balanced, for every number of transactions
\* and holds and all amounts.
THEOREM LedgerHolds == LedgerSpec => []LedgerInv
<1> QED BY InitLedger, NextLedger, PTL DEF LedgerSpec

\* reconcile_wallet finds the wallet consistent after every sequence of operations.
THEOREM WalletConsistent == LedgerSpec => []Consistent
<1>1. LedgerInv => Consistent
  <2> SUFFICES ASSUME LedgerInv PROVE Consistent
    OBVIOUS
  <2>1. book \in Tables /\ LedgerTypeOK /\ Reconciled /\ ActiveHolds \in Nat
    BY HoldsType DEF LedgerInv, LedgerTypeOK
  <2>2. Total(book.lots) \in Nat /\ Total(book.debts) \in Nat
    BY <2>1, BooksType
  <2>3. PICK l, d, a : l = Total(book.lots) /\ d = Total(book.debts) /\ a = ActiveHolds
    OBVIOUS
  <2>4. l \in Nat /\ d \in Nat /\ a \in Nat /\ balanceUnits = (l - d) + a
    BY <2>1, <2>2, <2>3 DEF Reconciled, Worth
  <2>5. balanceUnits = l + a - d
    BY <2>4
  <2>6. balanceUnits = Total(book.lots) + ActiveHolds - Total(book.debts)
    BY <2>3, <2>5
  <2> QED BY <2>1, <2>6 DEF Consistent, Reconciled
<1> QED BY <1>1, LedgerHolds, PTL

\* A total over fewer entries, where the others are zero.
LEMMA TotalWithin ==
  ASSUME NEW S, IsFiniteSet(S), NEW R \in SUBSET S, NEW f \in [S -> Int], NEW g \in [R -> Int],
         \A x \in R : g[x] = f[x], \A x \in S \ R : f[x] = 0
  PROVE  Total(g) = Total(f)
<1>1. IsFiniteSet(R) /\ IsFiniteSet(S \ R)
  BY FS_Subset
<1> DEFINE P == {T \in SUBSET (S \ R) : SumFunctionOnSet(f, R \cup T) = SumFunctionOnSet(f, R)}
<1>2. {} \in P
  <2>1. R \cup {} = R
    OBVIOUS
  <2> QED BY <2>1
<1>3. ASSUME NEW T \in SUBSET (S \ R), NEW x \in (S \ R) \ T, T \in P PROVE T \cup {x} \in P
  <2>1. IsFiniteSet(R \cup T) /\ x \notin R \cup T /\ R \cup T \subseteq S
    BY FS_Subset
  <2>2. SumFunctionOnSet(f, (R \cup T) \cup {x}) = f[x] + SumFunctionOnSet(f, R \cup T)
    BY <2>1, SumAdd
  <2>3. SumFunctionOnSet(f, R) \in Int
    BY <1>1, SumType
  <2>4. f[x] = 0 /\ (R \cup T) \cup {x} = R \cup (T \cup {x}) /\ SumFunctionOnSet(f, R \cup T) = SumFunctionOnSet(f, R)
    BY <1>3
  <2>5. SumFunctionOnSet(f, R \cup (T \cup {x})) = SumFunctionOnSet(f, R)
    <3>1. SumFunctionOnSet(f, R \cup (T \cup {x})) = 0 + SumFunctionOnSet(f, R)
      BY <2>2, <2>4
    <3> QED BY <2>3, <3>1
  <2> QED BY <2>5
<1>4. S \ R \in P
  <2> HIDE DEF P
  <2>1. \A T \in SUBSET (S \ R) : T \in P
    BY SMTT(30), <1>1, <1>2, <1>3, SubsetInduction
  <2> QED BY <2>1
<1>5. SumFunctionOnSet(f, S) = SumFunctionOnSet(f, R)
  <2>1. R \cup (S \ R) = S
    OBVIOUS
  <2> QED BY <1>4, <2>1
<1>6. SumFunctionOnSet(f, R) = SumFunctionOnSet(g, R)
  <2>1. \A x \in R : f[x] \in Int /\ f[x] = g[x]
    OBVIOUS
  <2> QED BY <1>1, <2>1, SumEqual
<1>7. Total(f) = SumFunctionOnSet(f, S) /\ Total(g) = SumFunctionOnSet(g, R)
  <2>1. DOMAIN f = S /\ DOMAIN g = R
    OBVIOUS
  <2>2. Total(g) = SumFunctionOnSet(g, DOMAIN g) /\ Total(f) = SumFunctionOnSet(f, DOMAIN f)
    BY Zenon DEF Total, SumFunction
  <2> QED BY <2>1, <2>2
<1> QED BY <1>5, <1>6, <1>7

\* What the revocations of a credit covered is what they revoked without what
\* is owed for them.
LEMMA CoveredSplits ==
  ASSUME LedgerInv, NEW t \in Posted, HasLot(t)
  PROVE  CoveredOf(t) = Revoked(t) - Total(OwedFor(book, t))
<1>1. /\ LedgerTypeOK /\ WellFormedTxns /\ WellFormedBook /\ book \in Tables /\ Posted \subseteq Ids
      /\ IsFiniteSet(Posted) /\ t \in Ids
      /\ \A r \in Posted : /\ txns[r].units \in Int /\ txns[r].alloc[Debt] \in Nat
                           /\ txns[r].kind \in TransactionKinds
  BY PostedType DEF LedgerInv, LedgerTypeOK
<1>2. \A r \in Ids : book.debts[r] \in Nat /\ Funded(book, r) \in Nat /\ Owing(book, r) \in Nat
  BY <1>1, BooksType
<1>3. \A r \in Posted : Size(txns[r].units) \in Int
  BY <1>1 DEF Size
<1> DEFINE Is(r) == txns[r].kind = "revocation" /\ txns[r].ref = t
           cov == [r \in Posted |-> IF Is(r) THEN Size(txns[r].units) - book.debts[r] - Funded(book, r) ELSE 0]
           rev == [r \in Posted |-> IF Is(r) THEN Size(txns[r].units) ELSE 0]
           owed == [r \in Posted |-> IF Is(r) THEN Owing(book, r) ELSE 0]
<1>4. CoveredOf(t) = Total(cov) /\ Revoked(t) = Total(rev)
  BY DEF CoveredOf, Revoked
<1>5. cov \in [Posted -> Int] /\ rev \in [Posted -> Int] /\ owed \in [Posted -> Int]
  BY <1>1, <1>2, <1>3
<1>6. \A r \in Posted : rev[r] = cov[r] + owed[r]
  <2> SUFFICES ASSUME NEW r \in Posted PROVE rev[r] = cov[r] + owed[r]
    OBVIOUS
  <2>1. Owing(book, r) = book.debts[r] + Funded(book, r) /\ book.debts[r] \in Nat /\ Funded(book, r) \in Nat
    BY <1>1, <1>2 DEF Owing
  <2> QED BY <1>3, <2>1
<1>7. ASSUME NEW r \in Posted PROVE owed[r] = OwedFor(book, t)[r]
  <2>1. OwedFor(book, t)[r] = IF r \in Revocations(t) THEN Owing(book, r) ELSE 0
    BY <1>1 DEF OwedFor
  <2>2. CASE Is(r) /\ txns[r].alloc[Debt] = 0
    <3>1. Owing(book, r) = 0
      BY <1>1, <2>2 DEF WellFormedBook
    <3> QED BY <2>1, <3>1
  <2>3. CASE Is(r) /\ txns[r].alloc[Debt] # 0
    <3>1. r \in Revocations(t)
      BY <1>1, <2>3 DEF Revocations
    <3> QED BY <2>1, <2>3, <3>1
  <2>4. CASE ~Is(r)
    <3>1. r \notin Revocations(t)
      <4> SUFFICES ASSUME txns[r].ref = t, txns[r].alloc[Debt] > 0 PROVE FALSE
        BY DEF Revocations
      <4>1. txns[r].kind \in {"spend", "revocation"} /\ t # 0
        BY <1>1 DEF WellFormedTxns, Posted
      <4>2. txns[r].kind # "spend"
        BY <1>1, <4>1 DEF WellFormedTxns
      <4> QED BY <2>4, <4>1, <4>2
    <3> QED BY <2>1, <2>4, <3>1
  <2> QED BY <2>2, <2>3, <2>4
<1>8. \A d \in Ids \ Posted : OwedFor(book, t)[d] = 0
  BY DEF OwedFor, Revocations
<1>9. OwedFor(book, t) \in [Ids -> Int] /\ Total(OwedFor(book, t)) \in Nat
  BY <1>1, BooksType
<1> HIDE DEF cov, rev, owed
<1>10. Total(owed) = Total(OwedFor(book, t))
  <2> DEFINE all == OwedFor(book, t)
  <2>1. /\ all \in [Ids -> Int] /\ owed \in [Posted -> Int] /\ Posted \in SUBSET Ids /\ IsFiniteSet(Ids)
        /\ (\A r \in Posted : owed[r] = all[r]) /\ \A d \in Ids \ Posted : all[d] = 0
    BY <1>1, <1>5, <1>7, <1>8, <1>9, FiniteIds
  <2> HIDE DEF all
  <2>2. Total(owed) = Total(all)
    BY <2>1, TotalWithin
  <2> QED BY <2>2 DEF all
<1>11. Total(rev) = Total(cov) + Total(owed) /\ Total(cov) \in Int
  BY <1>1, <1>5, <1>6, TotalPlus, TotalType
<1> QED BY <1>4, <1>9, <1>10, <1>11

\* Every unit of a credit is in one place, and every unit of debt is outstanding or
\* funded, after every sequence of operations.
THEOREM CreditsAccounted == LedgerSpec => []AccountedFor
<1>1. ASSUME LedgerInv, NEW t \in Posted, HasLot(t)
      PROVE  txns[t].units = book.lots[t] + HeldOf(t) + InFunds(t) + InUsage(t) + RefundsOf(t) + CoveredOf(t)
  <2>1. LedgerTypeOK /\ WellFormedTxns /\ book \in Tables /\ t \in Ids
    BY <1>1, PostedType DEF LedgerInv, LedgerTypeOK
  <2>2. txns[t].units = Place(book, t) + HeldOf(t) + InUsage(t) + RefundsOf(t) + Revoked(t)
    BY <1>1 DEF LedgerInv, CreditsBalance, Accounts
  <2>3. CoveredOf(t) = Revoked(t) - Total(OwedFor(book, t))
    BY <1>1, CoveredSplits
  <2>4. Place(book, t) = book.lots[t] + InFunds(t) - Total(OwedFor(book, t))
    BY DEF Place, InFunds, FundedBy
  <2>5. book.lots[t] \in Nat /\ Total(OwedFor(book, t)) \in Nat /\ InFunds(t) \in Nat
    BY <2>1, BooksType DEF InFunds, FundedBy
  <2>6. HeldOf(t) \in Nat /\ InUsage(t) \in Nat /\ RefundsOf(t) \in Nat /\ Revoked(t) \in Nat
    BY <2>1, HoldsType, UsageType, ReversedSplits
  <2>7. PICK l, o, f, h, u, r, v :
          /\ l = book.lots[t] /\ o = Total(OwedFor(book, t)) /\ f = InFunds(t)
          /\ h = HeldOf(t) /\ u = InUsage(t) /\ r = RefundsOf(t) /\ v = Revoked(t)
    OBVIOUS
  <2>8. l \in Nat /\ o \in Nat /\ f \in Nat /\ h \in Nat /\ u \in Nat /\ r \in Nat /\ v \in Nat
    BY <2>5, <2>6, <2>7
  <2>9. txns[t].units = (l + f - o) + h + u + r + v /\ CoveredOf(t) = v - o
    BY <2>2, <2>3, <2>4, <2>7
  <2>10. (l + f - o) + h + u + r + v = l + h + f + u + r + (v - o)
    BY <2>8
  <2> QED BY <2>7, <2>9, <2>10
<1>2. ASSUME LedgerInv, NEW s \in Posted, txns[s].kind = "spend"
      PROVE  Outstanding(s)[Debt] = book.debts[s] + Funded(book, s)
  BY <1>2 DEF LedgerInv, DebtsBalance, IsSpend, Owing
<1>3. LedgerInv => AccountedFor
  BY <1>1, <1>2 DEF AccountedFor
<1> QED BY <1>3, LedgerHolds, PTL

\* Usage that is returned does not resurrect a purchase that was refunded, after
\* every sequence of operations.
THEOREM RefundsStay == LedgerSpec => []NotResurrected
<1>1. ASSUME LedgerInv, NEW t \in Posted, HasLot(t), Unreleased(t)
      PROVE  book.lots[t] <= ReversalRemaining(t)
  <2>1. LedgerTypeOK /\ WellFormedTxns /\ book \in Tables /\ t \in Ids /\ txns[t].units \in Int
    BY <1>1, PostedType DEF LedgerInv, LedgerTypeOK
  <2>2. ReversalRemaining(t) >= 0
    BY <1>1 DEF LedgerInv, NotOverReversed
  <2>3. book.lots[t] \in Nat
    BY <2>1, BooksType
  <2>4. CASE book.lots[t] = 0
    BY <2>2, <2>4
  <2>5. CASE book.lots[t] > 0
    <3>1. PaidUp(book, t)
      BY <1>1, <2>5 DEF LedgerInv, RefundsFirst
    <3>2. Total(OwedFor(book, t)) = 0
      <4>1. OwedFor(book, t) \in [Ids -> Int] /\ \A d \in Ids : OwedFor(book, t)[d] = 0
        BY <3>1 DEF OwedFor, PaidUp
      <4> QED BY <4>1, FiniteIds, TotalZero
    <3>3. txns[t].units = Place(book, t) + HeldOf(t) + InUsage(t) + RefundsOf(t) + Revoked(t)
      BY <1>1 DEF LedgerInv, CreditsBalance, Accounts
    <3>4. Place(book, t) = book.lots[t] + Total(FundedBy(book, t)) - 0 /\ Total(FundedBy(book, t)) \in Nat
      BY <2>1, <3>2, BooksType DEF Place
    <3>5. HeldOf(t) \in Nat /\ InUsage(t) \in Nat /\ RefundsOf(t) \in Nat /\ Revoked(t) \in Nat
      BY <2>1, HoldsType, UsageType, ReversedSplits
    <3>6. Reversed(t) + RefundsOf(t) + Revoked(t) = 0 /\ Reversed(t) \in Int
      BY <1>1, <2>1, ReversedSplits, ReversedType
    <3>7. PICK l, f, h, u, r, v, e :
            /\ l = book.lots[t] /\ f = Total(FundedBy(book, t))
            /\ h = HeldOf(t) /\ u = InUsage(t) /\ r = RefundsOf(t) /\ v = Revoked(t) /\ e = Reversed(t)
      OBVIOUS
    <3>8. /\ l \in Nat /\ f \in Nat /\ h \in Nat /\ u \in Nat /\ r \in Nat /\ v \in Nat /\ e \in Int
          /\ e + r + v = 0
          /\ txns[t].units = (l + f - 0) + h + u + r + v
      BY <2>3, <3>3, <3>4, <3>5, <3>6, <3>7
    <3>9. Size(txns[t].units) = l + f + h + u + r + v /\ Size(e) = r + v
      BY <3>8 DEF Size
    <3>10. ReversalRemaining(t) = Size(txns[t].units) - Size(e)
      BY <3>7 DEF ReversalRemaining
    <3>11. l <= Size(txns[t].units) - Size(e)
      BY <3>8, <3>9
    <3> QED BY <3>7, <3>10, <3>11
  <2> QED BY <2>3, <2>4, <2>5
<1>2. LedgerInv => NotResurrected
  BY <1>1 DEF NotResurrected, Unreleased
<1> QED BY <1>2, LedgerHolds, PTL

-----------------------------------------------------------------------------
\* The returns come to their end.

\* Tables in which a debt is paid by later credits only, and by credits.
Orderly(b) ==
  /\ b \in Tables /\ b.ok
  /\ \A d, s \in Ids : b.fund[d][s] > 0 => d < s /\ HasLot(s)
Fundings(b) == Total([d \in Ids |-> Funded(b, d)])
RefersBack == \A t \in Posted : txns[t].ref < t

\* A return from one source on: it goes through, and the fundings of debts up to
\* that source are as they were.
Completed(b, r, from) ==
  /\ Orderly(r)
  /\ \A d, s \in Ids : r.fund[d][s] <= b.fund[d][s]
  /\ \A d, s \in Ids : d <= from => r.fund[d][s] = b.fund[d][s]
Completes(restore, n) ==
  \A x \in Requests :
    Orderly(x.book) /\ HasLot(x.source) /\ Fundings(x.book) < n => Completed(x.book, restore[x], x.source)

\* Fewer fundings are fewer in total.
LEMMA FundingsFall ==
  ASSUME NEW b \in Tables, NEW c \in Tables, \A d, s \in Ids : c.fund[d][s] <= b.fund[d][s]
  PROVE  /\ Fundings(c) \in Nat /\ Fundings(b) \in Nat /\ Fundings(c) <= Fundings(b)
         /\ \A d, s \in Ids : c.fund[d][s] < b.fund[d][s] => Fundings(c) < Fundings(b)
<1>0. IsFiniteSet(Ids)
  BY FiniteIds
<1>1. ASSUME NEW f \in [Ids -> Nat], NEW g \in [Ids -> Nat], \A s \in Ids : g[s] <= f[s]
      PROVE  /\ Total(f) \in Nat /\ Total(g) \in Nat /\ Total(g) <= Total(f)
             /\ \A s \in Ids : g[s] < f[s] => Total(g) < Total(f)
  <2> DEFINE m == Minus(f, g)
  <2>1. f \in [Ids -> Int] /\ g \in [Ids -> Int]
    OBVIOUS
  <2>2. Total(m) = Total(f) - Total(g)
    BY <1>0, <2>1, TotalMinus
  <2>3. m \in [Ids -> Nat] /\ \A s \in Ids : m[s] = f[s] - g[s]
    BY <1>1 DEF Minus
  <2> HIDE DEF m
  <2>4. Total(m) \in Nat /\ \A s \in Ids : m[s] <= Total(m)
    BY <1>0, <2>3, TotalNat
  <2>5. Total(f) \in Nat /\ Total(g) \in Nat
    BY <1>0, TotalNat
  <2> QED BY <2>2, <2>3, <2>4, <2>5
<1>2. ASSUME NEW d \in Ids
      PROVE  /\ Funded(b, d) \in Nat /\ Funded(c, d) \in Nat /\ Funded(c, d) <= Funded(b, d)
             /\ \A s \in Ids : c.fund[d][s] < b.fund[d][s] => Funded(c, d) < Funded(b, d)
  <2>1. b.fund[d] \in [Ids -> Nat] /\ c.fund[d] \in [Ids -> Nat]
    BY BooksType
  <2> QED BY <1>1, <2>1 DEF Funded
<1> DEFINE f == [d \in Ids |-> Funded(b, d)]
           g == [d \in Ids |-> Funded(c, d)]
<1>3. /\ f \in [Ids -> Nat] /\ g \in [Ids -> Nat] /\ \A d \in Ids : g[d] <= f[d]
      /\ \A d, s \in Ids : c.fund[d][s] < b.fund[d][s] => g[d] < f[d]
  BY <1>2
<1>4. Fundings(b) = Total(f) /\ Fundings(c) = Total(g)
  BY DEF Fundings
<1> HIDE DEF f, g
<1> QED BY <1>1, <1>3, <1>4

\* One part of a return after the other.
LEMMA CompletedTwice ==
  ASSUME NEW a \in Tables, NEW b \in Tables, NEW c, NEW from \in Int,
         Completed(a, b, from), NEW further \in Int, from <= further, Completed(b, c, further)
  PROVE  Completed(a, c, from)
<1>1. c \in Tables
  BY DEF Completed, Orderly
<1>2. ASSUME NEW d \in Ids, NEW s \in Ids
      PROVE  c.fund[d][s] <= a.fund[d][s] /\ (d <= from => c.fund[d][s] = a.fund[d][s])
  <2>1. a.fund[d][s] \in Nat /\ b.fund[d][s] \in Nat /\ c.fund[d][s] \in Nat
    BY <1>1, BooksType
  <2>2. d \in Int
    BY LedgerAssumption DEF Ids
  <2>3. b.fund[d][s] <= a.fund[d][s] /\ (d <= from => b.fund[d][s] = a.fund[d][s])
    BY DEF Completed
  <2>4. c.fund[d][s] <= b.fund[d][s] /\ (d <= further => c.fund[d][s] = b.fund[d][s])
    BY DEF Completed
  <2> QED BY <2>1, <2>2, <2>3, <2>4
<1> QED BY <1>2 DEF Completed

\* Tables that have fewer fundings are as orderly.
LEMMA OrderlyStays ==
  ASSUME NEW b, Orderly(b), NEW c \in Tables, c.ok, \A d, s \in Ids : c.fund[d][s] <= b.fund[d][s]
  PROVE  Orderly(c)
<1>1. \A d, s \in Ids : c.fund[d][s] \in Nat /\ b.fund[d][s] \in Nat
  BY BooksType DEF Orderly
<1> QED BY <1>1 DEF Orderly

\* _restore_debt returns all of its units, if no more than is owed: the debts of
\* the sources it returns to are younger than the debt it is refunding.
LEMMA CompletesDebt ==
  ASSUME NEW n \in Nat, NEW restore, Completes(restore, n),
         NEW b, Orderly(b), Fundings(b) <= n, NEW d \in Ids, NEW units \in Nat, units <= Owing(b, d)
  PROVE  Completed(b, RestoreDebt(restore, b, d, units), d - 1)
<1> DEFINE unpaid == Lesser(units, b.debts[d])
           first == [b EXCEPT !.debts[d] = @ - unpaid]
           start == [book |-> first, left |-> units - unpaid]
           Rest(i) == SumFunctionOnSet(b.fund[d], (i + 1)..MaxTransactions)
           good(i) == {at \in Passes :
             /\ Completed(b, at.book, d - 1)
             /\ \A s \in Ids : s > i => at.book.fund[d][s] = b.fund[d][s]
             /\ at.left <= Rest(i)}
           Refund == [s \in Ids |-> [at \in Passes |->
             LET amount == Lesser(at.left, at.book.fund[d][s])
                 paidBack == [at.book EXCEPT !.fund[d][s] = @ - amount]
             IN  IF amount = 0 THEN at
                 ELSE [book |-> restore[[book |-> paidBack, source |-> s, units |-> amount, excluded |-> d]],
                       left |-> at.left - amount]]]
           end == Walk(Refund, start)
<1>a. /\ MaxTransactions \in Nat
      /\ \A s \in Ids : s \in Int /\ s \in 0..MaxTransactions /\ s - 1 \in 0..MaxTransactions
  BY LedgerAssumption DEF Ids
<1>b. b \in Tables /\ b.ok
  BY DEF Orderly
<1>c. /\ b.fund[d] \in [Ids -> Nat] /\ b.debts[d] \in Nat /\ Funded(b, d) \in Nat
      /\ \A s \in Ids : b.fund[d][s] \in Nat
  BY <1>b, BooksType
<1>d. Owing(b, d) = b.debts[d] + Funded(b, d) /\ Funded(b, d) = Total(b.fund[d])
  BY DEF Owing, Funded
<1>0. /\ b \in Tables /\ b.ok /\ MaxTransactions \in Nat
      /\ d \in Int /\ b.fund[d] \in [Ids -> Nat] /\ b.debts[d] \in Nat /\ Owing(b, d) = b.debts[d] + Funded(b, d)
      /\ Funded(b, d) \in Nat
      /\ \A s \in Ids : b.fund[d][s] \in Nat /\ s \in Int
  BY <1>a, <1>b, <1>c, <1>d
<1>1. /\ \A i \in 0..MaxTransactions : Rest(i) \in Nat
      /\ \A s \in Ids : Rest(s - 1) = b.fund[d][s] + Rest(s)
      /\ Rest(0) = Funded(b, d)
      /\ Rest(MaxTransactions) = 0
  <2> DEFINE f == b.fund[d]
  <2>0. f \in [1..MaxTransactions -> Nat] /\ MaxTransactions \in Nat
    BY <1>0 DEF Ids
  <2>1. ASSUME NEW i \in 0..MaxTransactions
        PROVE  /\ IsFiniteSet((i + 1)..MaxTransactions) /\ (i + 1)..MaxTransactions \subseteq 1..MaxTransactions
               /\ \A x \in (i + 1)..MaxTransactions : f[x] \in Nat
    <3>1. (i + 1)..MaxTransactions \subseteq 1..MaxTransactions
      BY <2>0
    <3>2. IsFiniteSet((i + 1)..MaxTransactions)
      BY <2>0, FS_Interval
    <3> HIDE DEF f
    <3> QED BY <2>0, <3>1, <3>2
  <2>2. ASSUME NEW i \in 0..MaxTransactions PROVE Rest(i) \in Nat
    <3> DEFINE S == (i + 1)..MaxTransactions
    <3>1. IsFiniteSet(S) /\ \A x \in S : f[x] \in Nat /\ f[x] \in Int
      BY <2>1
    <3> HIDE DEF S, f
    <3>2. SumFunctionOnSet(f, S) \in Int
      BY <3>1, SumType
    <3>3. {} \in SUBSET S
      OBVIOUS
    <3>4. SumFunctionOnSet(f, {}) <= SumFunctionOnSet(f, S)
      BY <3>1, <3>3, SumSubset
    <3> QED BY <3>2, <3>4, SumEmpty DEF S, f
  <2>3. ASSUME NEW s \in 1..MaxTransactions PROVE Rest(s - 1) = f[s] + Rest(s)
    <3>1. /\ ((s - 1) + 1)..MaxTransactions = ((s + 1)..MaxTransactions) \cup {s}
          /\ s \notin (s + 1)..MaxTransactions /\ s \in 0..MaxTransactions
      BY <2>0
    <3>2. \A y \in ((s + 1)..MaxTransactions) \cup {s} : f[y] \in Int
      BY <2>0, <2>1, <3>1
    <3>3. SumFunctionOnSet(f, ((s + 1)..MaxTransactions) \cup {s}) = f[s] + SumFunctionOnSet(f, (s + 1)..MaxTransactions)
      BY <2>1, <3>1, <3>2, SumAdd
    <3> HIDE DEF f
    <3> QED BY <3>1, <3>3 DEF f
  <2>4. Rest(0) = Funded(b, d)
    <3>1. DOMAIN f = (0 + 1)..MaxTransactions
      BY <1>c DEF Ids
    <3> QED BY <1>d, <3>1, Zenon DEF Total, SumFunction
  <2>5. Rest(MaxTransactions) = 0
    <3>1. (MaxTransactions + 1)..MaxTransactions = {}
      BY <2>0
    <3> QED BY <3>1, SumEmpty
  <2> HIDE DEF Rest
  <2> QED BY <2>2, <2>3, <2>4, <2>5 DEF Ids
<1> HIDE DEF Rest
<1>2. start \in good(0)
  <2>1. unpaid \in Nat /\ unpaid <= units /\ unpaid <= b.debts[d] /\ (unpaid # units => unpaid = b.debts[d])
    BY <1>0 DEF Lesser
  <2> HIDE DEF unpaid
  <2>2. first \in Tables
    <3>1. b.debts[d] - unpaid \in Nat
      BY <1>0, <2>1
    <3>2. [b.debts EXCEPT ![d] = b.debts[d] - unpaid] \in [Ids -> Nat]
      BY <1>0, <3>1, BooksType
    <3> QED BY <1>0, <3>2 DEF Tables
  <2>3. first.fund = b.fund /\ first.ok
    BY <1>0 DEF Tables
  <2> HIDE DEF first
  <2>4. \A e, s \in Ids : first.fund[e][s] <= b.fund[e][s]
    <3>1. \A e, s \in Ids : b.fund[e][s] \in Nat
      BY <1>b, BooksType
    <3> QED BY <2>3, <3>1
  <2>5. Completed(b, first, d - 1)
    BY <2>2, <2>3, <2>4, OrderlyStays DEF Completed
  <2>6. units - unpaid \in Nat /\ units - unpaid <= Rest(0)
    BY <1>0, <1>1, <2>1
  <2> QED BY <2>2, <2>3, <2>5, <2>6 DEF Passes
<1>3. ASSUME NEW s \in Ids, NEW at \in good(s - 1) PROVE Refund[s][at] \in good(s)
  <2> DEFINE amount == Lesser(at.left, at.book.fund[d][s])
             paidBack == [at.book EXCEPT !.fund[d][s] = @ - amount]
             q == [book |-> paidBack, source |-> s, units |-> amount, excluded |-> d]
  <2>1. /\ at \in Passes /\ at.book \in Tables /\ at.left \in Nat /\ s \in Int
        /\ Completed(b, at.book, d - 1)
        /\ \A z \in Ids : z > s - 1 => at.book.fund[d][z] = b.fund[d][z]
        /\ at.left <= Rest(s - 1)
        /\ at.book.fund[d][s] = b.fund[d][s]
    <3>1. s > s - 1 /\ s \in Int
      BY <1>a
    <3> QED BY <3>1 DEF Passes
  <2>2. Refund[s][at] = IF amount = 0 THEN at ELSE [book |-> restore[q], left |-> at.left - amount]
    BY <2>1
  <2>3. /\ amount \in Nat /\ amount <= at.left /\ amount <= b.fund[d][s] /\ b.fund[d][s] \in Nat
        /\ (amount # at.left => amount = b.fund[d][s])
    <3>1. amount = Lesser(at.left, b.fund[d][s]) /\ b.fund[d][s] \in Nat /\ at.left \in Nat
      BY <1>c, <2>1
    <3> HIDE DEF amount
    <3> QED BY <3>1 DEF Lesser
  <2>4. Rest(s) \in Nat /\ Rest(s - 1) = b.fund[d][s] + Rest(s)
    BY <1>a, <1>1
  <2>5. at.left - amount \in Nat /\ at.left - amount <= Rest(s)
    BY <2>1, <2>3, <2>4
  <2>6. \A z \in Ids : z > s => z > s - 1 /\ z # s
    BY <1>a
  <2> HIDE DEF amount, Refund
  <2>7. CASE amount = 0
    <3>1. at.left <= Rest(s)
      BY <2>1, <2>5, <2>7
    <3> QED BY <2>1, <2>2, <2>6, <2>7, <3>1
  <2>8. CASE amount # 0
    <3>1. paidBack \in Tables
      <4> DEFINE fund == at.book.fund
      <4>1. fund \in [Ids -> [Ids -> Nat]] /\ amount <= fund[d][s] /\ fund[d][s] \in Nat
        BY <2>1, <2>3, BooksType
      <4>2. paidBack = [at.book EXCEPT !.fund = [fund EXCEPT ![d] = [fund[d] EXCEPT ![s] = fund[d][s] - amount]]]
        BY <2>1 DEF Tables
      <4> HIDE DEF fund
      <4>3. fund[d] \in [Ids -> Nat] /\ fund[d][s] - amount \in Nat
        BY <2>3, <4>1
      <4>4. [fund[d] EXCEPT ![s] = fund[d][s] - amount] \in [Ids -> Nat]
        BY <4>3
      <4>5. [fund EXCEPT ![d] = [fund[d] EXCEPT ![s] = fund[d][s] - amount]] \in [Ids -> [Ids -> Nat]]
        BY <4>1, <4>4
      <4> QED BY <2>1, <4>2, <4>5 DEF Tables
    <3>2. /\ paidBack.ok = at.book.ok
          /\ paidBack.fund[d][s] = at.book.fund[d][s] - amount
          /\ \A e, z \in Ids : <<e, z>> # <<d, s>> => paidBack.fund[e][z] = at.book.fund[e][z]
      BY <2>1 DEF Tables
    <3> HIDE DEF paidBack
    <3>3. ASSUME NEW e \in Ids, NEW z \in Ids
          PROVE  paidBack.fund[e][z] <= at.book.fund[e][z] /\ (e # d => paidBack.fund[e][z] = at.book.fund[e][z])
      <4>1. paidBack.fund[e][z] \in Nat /\ at.book.fund[e][z] \in Nat
        BY <2>1, <3>1, BooksType
      <4>2. CASE <<e, z>> # <<d, s>>
        BY <3>2, <4>1, <4>2
      <4>3. CASE e = d /\ z = s
        BY <2>1, <2>3, <3>2, <4>1, <4>3
      <4> QED BY <4>2, <4>3
    <3>4. Orderly(at.book) /\ Orderly(paidBack)
      BY <2>1, <3>1, <3>2, <3>3, OrderlyStays DEF Completed, Orderly
    <3>5. HasLot(s) /\ d < s
      <4>1. b.fund[d][s] > 0
        BY <2>3, <2>8
      <4> QED BY <4>1 DEF Orderly
    <3>6. Fundings(paidBack) < n
      <4>1. paidBack.fund[d][s] < at.book.fund[d][s]
        BY <2>1, <2>3, <2>8, <3>2
      <4>2. Fundings(paidBack) \in Nat /\ Fundings(at.book) \in Nat /\ Fundings(paidBack) < Fundings(at.book)
        BY <2>1, <3>1, <3>3, <4>1, FundingsFall
      <4>3. Fundings(b) \in Nat /\ Fundings(at.book) <= Fundings(b)
        BY <1>b, <2>1, FundingsFall DEF Completed
      <4> QED BY <4>2, <4>3
    <3>7. q \in Requests /\ q.book = paidBack /\ q.source = s
      BY <2>3, <3>1 DEF Requests
    <3> HIDE DEF q
    <3> DEFINE r == restore[q]
    <3>8. Completed(paidBack, r, s)
      BY <3>4, <3>5, <3>6, <3>7 DEF Completes
    <3> HIDE DEF r
    <3>9. r \in Tables
      BY <3>8 DEF Completed, Orderly
    <3>10. Completed(at.book, r, d - 1)
      <4>1. ASSUME NEW e \in Ids, NEW z \in Ids
            PROVE  r.fund[e][z] <= at.book.fund[e][z] /\ (e <= d - 1 => r.fund[e][z] = at.book.fund[e][z])
        <5>1. r.fund[e][z] <= paidBack.fund[e][z] /\ (e <= s => r.fund[e][z] = paidBack.fund[e][z])
          BY <3>8 DEF Completed
        <5>2. r.fund[e][z] \in Nat /\ paidBack.fund[e][z] \in Nat /\ at.book.fund[e][z] \in Nat /\ e \in Int
          <6>1. r.fund[e][z] \in Nat
            BY <3>9, BooksType
          <6>2. paidBack.fund[e][z] \in Nat
            BY <3>1, BooksType
          <6>3. at.book.fund[e][z] \in Nat
            BY <2>1, BooksType
          <6> QED BY <1>a, <6>1, <6>2, <6>3
        <5>3. e <= d - 1 => e <= s /\ e # d
          BY <1>a, <3>5
        <5> QED BY <3>3, <5>1, <5>2, <5>3
      <4> QED BY <3>8, <4>1 DEF Completed
    <3>11. Completed(b, r, d - 1)
      <4>1. d - 1 \in Int /\ d - 1 <= d - 1
        BY <1>a
      <4> QED BY <1>b, <2>1, <3>9, <3>10, <4>1, CompletedTwice
    <3>12. ASSUME NEW z \in Ids, z > s PROVE r.fund[d][z] = b.fund[d][z]
      <4>1. d <= s
        BY <1>a, <3>5
      <4>2. r.fund[d][z] = paidBack.fund[d][z]
        BY <3>8, <4>1 DEF Completed
      <4>3. paidBack.fund[d][z] = at.book.fund[d][z]
        BY <2>6, <3>2, <3>12
      <4> QED BY <2>1, <2>6, <3>12, <4>2, <4>3
    <3>13. [book |-> r, left |-> at.left - amount] \in good(s)
      BY <2>5, <3>9, <3>11, <3>12 DEF Passes
    <3> HIDE DEF good
    <3> QED BY <2>2, <2>8, <3>13 DEF r
  <2> QED BY <2>7, <2>8
<1>4. end \in good(MaxTransactions)
  <2> DEFINE inv == [i \in 0..MaxTransactions |-> good(i)]
  <2>1. \A i \in Ids : i \in 0..MaxTransactions /\ i - 1 \in 0..MaxTransactions
    BY <1>a
  <2>2. 0 \in 0..MaxTransactions /\ MaxTransactions \in 0..MaxTransactions
    BY <1>a
  <2> HIDE DEF good, Refund, start
  <2>3. start \in inv[0] /\ \A i \in Ids : \A x \in inv[i - 1] : Refund[i][x] \in inv[i]
    BY <1>2, <1>3, <2>1, <2>2
  <2> HIDE DEF inv
  <2>4. end \in inv[MaxTransactions]
    BY <2>3, WalkInvariant
  <2> QED BY <2>2, <2>4 DEF inv
<1>5. RestoreDebt(restore, b, d, units) = [end.book EXCEPT !.ok = @ /\ end.left = 0]
  BY DEF RestoreDebt
<1>6. end \in Passes /\ Completed(b, end.book, d - 1) /\ end.left <= Rest(MaxTransactions)
  <2> HIDE DEF end
  <2> QED BY <1>4
<1> HIDE DEF end, start, Refund, good
<1> DEFINE last == [end.book EXCEPT !.ok = @ /\ end.left = 0]
<1>7. end.book \in Tables /\ end.left = 0 /\ end.book.ok
  BY <1>1, <1>6 DEF Passes, Completed, Orderly
<1>8. last \in Tables /\ last.fund = end.book.fund /\ last.ok
  BY <1>7 DEF Tables
<1> HIDE DEF last
<1>9. Completed(b, last, d - 1)
  BY <1>6, <1>8 DEF Completed, Orderly
<1> QED BY <1>5, <1>9 DEF last

\* _restore_source goes through for any units of a credit: it never offers a
\* revocation more than that owes, and revocations are younger than their credit.
LEMMA CompletesSource ==
  ASSUME Posted \subseteq Ids, RefersBack, NEW n \in Nat, NEW restore, Completes(restore, n),
         NEW b, Orderly(b), Fundings(b) <= n, NEW source \in Ids, HasLot(source),
         NEW units \in Nat, NEW excluded
  PROVE  Completed(b, RestoreSource(restore, b, source, units, excluded), source)
<1> DEFINE start == [book |-> b, left |-> units]
           good == {at \in Passes : Completed(b, at.book, source)}
           Retire == [d \in Ids |-> [at \in Passes |->
             LET amount == Lesser(at.left, at.book.debts[d] + Funded(at.book, d))
             IN  IF d \notin Revocations(source) \ {excluded} \/ amount = 0 THEN at
                 ELSE [book |-> RestoreDebt(restore, at.book, d, amount), left |-> at.left - amount]]]
           end == Walk(Retire, start)
<1>1. b \in Tables /\ \A i \in Ids : i \in Int
  BY LedgerAssumption DEF Orderly, Ids
<1>2. start \in good
  <2>1. \A d, s \in Ids : b.fund[d][s] <= b.fund[d][s]
    <3>1. \A d, s \in Ids : b.fund[d][s] \in Nat
      BY <1>1, BooksType
    <3> QED BY <3>1
  <2> QED BY <1>1, <2>1 DEF Passes, Completed
<1>3. ASSUME NEW d \in Ids, NEW at \in good PROVE Retire[d][at] \in good
  <2> DEFINE amount == Lesser(at.left, Owing(at.book, d))
             r == RestoreDebt(restore, at.book, d, amount)
  <2>1. /\ at \in Passes /\ at.book \in Tables /\ at.left \in Nat
        /\ Completed(b, at.book, source)
    BY DEF Passes
  <2>2. Retire[d][at] = IF d \notin Revocations(source) \ {excluded} \/ amount = 0 THEN at
                        ELSE [book |-> r, left |-> at.left - amount]
    BY <2>1 DEF Owing
  <2>3. amount \in Nat /\ amount <= at.left /\ amount <= Owing(at.book, d)
    <3>1. Owing(at.book, d) \in Nat
      BY <2>1, BooksType
    <3> QED BY <2>1, <3>1 DEF Lesser
  <2> HIDE DEF Retire, amount
  <2>4. SUFFICES ASSUME d \in Revocations(source)
                 PROVE  [book |-> r, left |-> at.left - amount] \in good
    BY <2>2
  <2>5. source <= d - 1
    <3>1. source < d
      BY <2>4 DEF Revocations, RefersBack
    <3> QED BY <1>1, <3>1
  <2>6. Orderly(at.book) /\ Fundings(at.book) <= n
    <3>1. Fundings(at.book) \in Nat /\ Fundings(b) \in Nat /\ Fundings(at.book) <= Fundings(b)
      BY <1>1, <2>1, FundingsFall DEF Completed
    <3> QED BY <2>1, <3>1 DEF Completed
  <2>7. Completed(at.book, r, d - 1)
    BY <2>3, <2>6, CompletesDebt
  <2> HIDE DEF r
  <2>8. r \in Tables
    BY <2>7 DEF Completed, Orderly
  <2>9. Completed(b, r, source)
    <3>1. d - 1 \in Int /\ source \in Int
      BY <1>1
    <3> QED BY <1>1, <2>1, <2>5, <2>7, <3>1, CompletedTwice
  <2>10. at.left - amount \in Nat
    BY <2>1, <2>3
  <2> QED BY <2>8, <2>9, <2>10 DEF Passes
<1>4. end \in good
  <2> DEFINE inv == [i \in 0..MaxTransactions |-> good]
  <2>1. \A i \in Ids : i \in 0..MaxTransactions /\ i - 1 \in 0..MaxTransactions
    BY LedgerAssumption DEF Ids
  <2>2. 0 \in 0..MaxTransactions /\ MaxTransactions \in 0..MaxTransactions
    BY LedgerAssumption
  <2> HIDE DEF good, Retire, start
  <2>3. start \in inv[0] /\ \A i \in Ids : \A x \in inv[i - 1] : Retire[i][x] \in inv[i]
    BY <1>2, <1>3, <2>1, <2>2
  <2> HIDE DEF inv
  <2>4. end \in inv[MaxTransactions]
    BY <2>3, WalkInvariant
  <2> QED BY <2>2, <2>4 DEF inv
<1>5. RestoreSource(restore, b, source, units, excluded)
        = [end.book EXCEPT !.lots[source] = @ + end.left, !.ok = @ /\ HasLot(source)]
  BY DEF RestoreSource
<1>6. end \in Passes /\ Completed(b, end.book, source)
  <2> HIDE DEF end
  <2> QED BY <1>4
<1> HIDE DEF end, start, Retire, good
<1> DEFINE last == [end.book EXCEPT !.lots[source] = @ + end.left, !.ok = @ /\ HasLot(source)]
<1>7. end.book \in Tables /\ end.book.ok /\ end.left \in Nat
  BY <1>6 DEF Passes, Completed, Orderly
<1>8. last \in Tables /\ last.fund = end.book.fund /\ last.ok
  <2>1. [end.book.lots EXCEPT ![source] = @ + end.left] \in [Ids -> Nat]
    BY <1>7, BooksType
  <2> QED BY <1>7, <2>1 DEF Tables
<1> HIDE DEF last
<1>9. Completed(b, last, source)
  BY <1>6, <1>8 DEF Completed, Orderly
<1> QED BY <1>5, <1>9 DEF last

\* As many turns as there are funded units are enough.
LEMMA RestorerCompletes ==
  ASSUME Posted \subseteq Ids, RefersBack
  PROVE  \A n \in Nat : Completes(Restorer[n], n)
<1> DEFINE Q == {n \in Nat : Completes(Restorer[n], n)}
<1>1. 0 \in Q
  <2>1. ASSUME NEW x \in Requests, Orderly(x.book) PROVE ~(Fundings(x.book) < 0)
    <3>1. x.book \in Tables /\ \A d, s \in Ids : x.book.fund[d][s] \in Nat
      BY <2>1, BooksType DEF Orderly
    <3>2. \A d, s \in Ids : x.book.fund[d][s] <= x.book.fund[d][s]
      BY <3>1
    <3>3. Fundings(x.book) \in Nat
      BY <3>1, <3>2, FundingsFall
    <3> QED BY <3>3
  <2> QED BY <2>1 DEF Completes
<1>2. ASSUME NEW n \in Nat, n \in Q PROVE n + 1 \in Q
  <2>1. Completes(Restorer[n], n)
    BY <1>2
  <2>2. ASSUME NEW x \in Requests, Orderly(x.book), HasLot(x.source), Fundings(x.book) < n + 1
        PROVE  Completed(x.book, Restorer[n + 1][x], x.source)
    <3>1. x.source \in Ids /\ x.units \in Nat /\ x.excluded \in Ids
      BY DEF Requests
    <3>2. Restorer[n + 1][x] = RestoreSource(Restorer[n], x.book, x.source, x.units, x.excluded)
      BY RestorerTurns DEF Turn
    <3>3. Fundings(x.book) <= n
      <4>1. x.book \in Tables /\ \A d, s \in Ids : x.book.fund[d][s] \in Nat
        BY <2>2, BooksType DEF Orderly
      <4>2. \A d, s \in Ids : x.book.fund[d][s] <= x.book.fund[d][s]
        BY <4>1
      <4>3. Fundings(x.book) \in Nat
        BY <4>1, <4>2, FundingsFall
      <4> QED BY <2>2, <4>3
    <3> QED BY <2>1, <2>2, <3>1, <3>2, <3>3, CompletesSource
  <2>3. Completes(Restorer[n + 1], n + 1)
    BY <2>2 DEF Completes
  <2> QED BY <2>3
<1>3. \A n \in Nat : n \in Q
  <2> HIDE DEF Q
  <2> QED BY <1>1, <1>2, NatSetInduction
<1> QED BY <1>3

\* The units of an allocation go back without a check that fails, if each was
\* taken from a credit or is still owed.
LEMMA ReturnCompletes ==
  ASSUME Posted \subseteq Ids, RefersBack, Orderly(book), NEW t \in Posted, ~Reverses(t), txns[t].ref = 0,
         NEW back \in [Parts -> Nat], \A i \in Ids : back[i] > 0 => HasLot(i),
         back[Debt] <= Owing(book, t)
  PROVE  AfterReturn(t, back).ok
<1> DEFINE Return == [i \in Ids |-> [b \in Tables |->
             IF back[i] = 0 THEN b
             ELSE Restorer[Turns(b)][[book |-> b, source |-> i, units |-> back[i], excluded |-> t]]]]
           good == {b \in Tables : Orderly(b) /\ Owing(b, t) = Owing(book, t)}
           lots == Walk(Return, book)
<1>0. /\ Ids \subseteq Parts /\ t \in Ids /\ Debt \in Parts /\ book \in Tables /\ back[Debt] \in Nat
      /\ \A i \in Ids : back[i] \in Nat
  BY LedgerAssumption DEF Ids, Parts, Debt, Orderly
<1>1. ASSUME NEW b \in Tables
      PROVE  Turns(b) \in Nat /\ Fundings(b) \in Nat /\ Turns(b) = 1 + Fundings(b)
  <2>1. \A d, s \in Ids : b.fund[d][s] \in Nat
    BY BooksType
  <2>2. \A d, s \in Ids : b.fund[d][s] <= b.fund[d][s]
    BY <2>1
  <2>3. Fundings(b) \in Nat
    BY <2>2, FundingsFall
  <2> QED BY <2>3, TurnsType DEF Turns, Fundings
<1>2. ASSUME NEW i \in Ids, NEW b \in good PROVE Return[i][b] \in good
  <2> DEFINE q == [book |-> b, source |-> i, units |-> back[i], excluded |-> t]
             r == Restorer[Turns(b)][q]
  <2>1. b \in Tables /\ Orderly(b) /\ Owing(b, t) = Owing(book, t)
    OBVIOUS
  <2>2. Return[i][b] = IF back[i] = 0 THEN b ELSE r
    BY <2>1
  <2>3. SUFFICES ASSUME back[i] # 0 PROVE r \in good
    BY <2>2
  <2>4. q \in Requests /\ q.book = b /\ q.source = i /\ q.units = back[i] /\ q.excluded = t
    BY <1>0, <2>1 DEF Requests
  <2>5. HasLot(i)
    BY <1>0, <2>3
  <2> HIDE DEF q
  <2>6. Fundings(b) < Turns(b)
    BY <1>1, <2>1
  <2>7. Completed(b, r, i)
    <3>1. Completes(Restorer[Turns(b)], Turns(b))
      BY <1>1, <2>1, RestorerCompletes
    <3> QED BY <2>1, <2>4, <2>5, <2>6, <3>1 DEF Completes
  <2>8. Restored(b, r, back[i], i, 0, Loose(i, t))
    <3>1. Restores(Restorer[Turns(b)])
      BY <1>1, <2>1, RestorerRestores
    <3> QED BY <2>4, <3>1 DEF Restores
  <2> HIDE DEF r
  <2>9. r \in Tables /\ Orderly(r) /\ r.ok
    BY <2>7 DEF Completed, Orderly
  <2>10. Owing(r, t) = Owing(b, t)
    <3>1. Owing(r, t) = Owing(b, t) - Portion(t, 0, back[i])
      BY <1>0, <2>8, <2>9 DEF Restored
    <3>2. Portion(t, 0, back[i]) = 0
      BY <1>0 DEF Portion, Ids
    <3>3. Owing(b, t) \in Nat
      BY <1>0, <2>1, BooksType
    <3> QED BY <3>1, <3>2, <3>3
  <2> QED BY <2>1, <2>9, <2>10
<1>3. lots \in good
  <2> DEFINE inv == [i \in 0..MaxTransactions |-> good]
  <2>1. \A i \in Ids : i \in 0..MaxTransactions /\ i - 1 \in 0..MaxTransactions
    BY LedgerAssumption DEF Ids
  <2>2. 0 \in 0..MaxTransactions /\ MaxTransactions \in 0..MaxTransactions
    BY LedgerAssumption
  <2>3. book \in good
    BY <1>0
  <2> HIDE DEF good, Return
  <2>4. book \in inv[0] /\ \A i \in Ids : \A x \in inv[i - 1] : Return[i][x] \in inv[i]
    BY <1>2, <2>1, <2>2, <2>3
  <2> HIDE DEF inv
  <2>5. lots \in inv[MaxTransactions]
    BY <2>4, WalkInvariant
  <2> QED BY <2>2, <2>5 DEF inv
<1>4. AfterReturn(t, back) = IF back[Debt] = 0 THEN lots ELSE RestoreDebt(Restorer[Turns(lots)], lots, t, back[Debt])
  BY DEF AfterReturn
<1>5. lots \in Tables /\ Orderly(lots) /\ Owing(lots, t) = Owing(book, t) /\ lots.ok
  <2> HIDE DEF lots
  <2> QED BY <1>3 DEF Orderly
<1> HIDE DEF lots, Return, good
<1>6. ASSUME back[Debt] # 0 PROVE RestoreDebt(Restorer[Turns(lots)], lots, t, back[Debt]).ok
  <2>1. Completes(Restorer[Turns(lots)], Turns(lots)) /\ Turns(lots) \in Nat /\ Fundings(lots) <= Turns(lots)
    BY <1>1, <1>5, RestorerCompletes
  <2>2. back[Debt] <= Owing(lots, t)
    BY <1>5
  <2>3. Completed(lots, RestoreDebt(Restorer[Turns(lots)], lots, t, back[Debt]), t - 1)
    BY <1>0, <1>5, <2>1, <2>2, CompletesDebt
  <2> QED BY <2>3 DEF Completed, Orderly
<1> QED BY <1>4, <1>5, <1>6

\* Usage is allocated in full: to lots, and what these do not cover to the debt.
Allocated == \A t \in Posted : IsSpend(t) => Total(txns[t].alloc) = Size(txns[t].units)

\* _allocate leaves no unit out and allocates none twice.
LEMMA AllocatesAll ==
  ASSUME book \in Tables, NEW units \in Nat
  PROVE  Allocate(units) \in [Parts -> Nat] /\ Total(Allocate(units)) = units
<1> DEFINE taken == Drawn(book.lots, units)
           alloc == Allocate(units)
<1>1. /\ Parts = Ids \cup {Debt} /\ Debt \notin Ids /\ IsFiniteSet(Ids) /\ MaxTransactions \in Nat
      /\ Ids = 1..MaxTransactions
  BY FiniteIds, LedgerAssumption DEF Ids, Parts, Debt
<1>2. taken \in [Ids -> Nat] /\ Total(taken) \in Nat /\ Total(taken) <= units
  <2>1. book.lots \in [1..MaxTransactions -> Nat] /\ Total(book.lots) \in Nat
    BY <1>1, BooksType
  <2>2. taken \in [1..MaxTransactions -> Nat]
    <3>1. PICK f : f = book.lots
      OBVIOUS
    <3>2. f \in [1..MaxTransactions -> Nat] /\ MaxTransactions \in Nat /\ units \in Int
      BY <1>1, <2>1, <3>1
    <3>3. Drawn(f, units) \in [1..MaxTransactions -> Nat]
      BY <3>2, DrawnType
    <3> QED BY <3>1, <3>3
  <2>3. Total(taken) = Lesser(units, Total(book.lots))
    BY <1>1, <2>1, DrawnTotal
  <2> HIDE DEF taken
  <2> QED BY <1>1, <2>1, <2>2, <2>3 DEF Lesser
<1>3. alloc = [i \in Parts |-> IF i = Debt THEN units - Total(taken) ELSE taken[i]]
  BY DEF Allocate
<1> HIDE DEF taken, alloc
<1>4. units - Total(taken) \in Nat
  BY <1>2
<1>5. /\ alloc \in [Parts -> Nat] /\ alloc[Debt] = units - Total(taken)
      /\ \A i \in Ids : alloc[i] \in Int /\ alloc[i] = taken[i]
  BY <1>1, <1>2, <1>3, <1>4
<1>6. SumFunctionOnSet(alloc, Ids \cup {Debt}) = alloc[Debt] + SumFunctionOnSet(alloc, Ids)
  <2>1. \A y \in Ids \cup {Debt} : alloc[y] \in Int
    BY <1>1, <1>5
  <2> QED BY <1>1, <2>1, SumAdd
<1>7. SumFunctionOnSet(alloc, Ids) = SumFunctionOnSet(taken, Ids)
  BY <1>1, <1>5, SumEqual
<1>8. DOMAIN alloc = Ids \cup {Debt} /\ DOMAIN taken = Ids
  BY <1>1, <1>2, <1>5
<1>9. Total(alloc) = SumFunctionOnSet(alloc, DOMAIN alloc) /\ Total(taken) = SumFunctionOnSet(taken, DOMAIN taken)
  BY Zenon DEF Total, SumFunction
<1>10. Total(alloc) = (units - Total(taken)) + Total(taken)
  BY <1>5, <1>6, <1>7, <1>8, <1>9
<1> QED BY <1>2, <1>5, <1>10 DEF alloc

\* A transaction more that is allocated in full, if it is usage.
LEMMA AllocatedAppends ==
  ASSUME LedgerTypeOK, Allocated, NEW x \in Transactions, txns' = Append(txns, x),
         x.kind = "spend" => Total(x.alloc) = Size(x.units)
  PROVE  Allocated'
<1>1. /\ Posted' = Posted \cup {NewId}
      /\ \A t \in Posted : txns'[t] = txns[t]
      /\ txns'[NewId] = x
  BY Appends
<1>2. ASSUME NEW t \in Posted', txns'[t].kind = "spend"
      PROVE  Total(txns'[t].alloc) = Size(txns'[t].units)
  <2>1. CASE t \in Posted
    BY <1>1, <1>2, <2>1 DEF Allocated, IsSpend
  <2>2. CASE t = NewId
    BY <1>1, <1>2, <2>2
  <2> QED BY <1>1, <2>1, <2>2
<1> QED BY <1>2 DEF Allocated, IsSpend, Total, Size

\* Every operation of the wallet allocates its usage in full.
LEMMA NextAllocated == LedgerInv /\ Allocated /\ [LedgerNext]_ledgerVars => Allocated'
<1> SUFFICES ASSUME LedgerInv, Allocated, [LedgerNext]_ledgerVars PROVE Allocated'
  OBVIOUS
<1>1. LedgerTypeOK /\ book \in Tables /\ Posted \subseteq Ids
  BY PostedType DEF LedgerInv, LedgerTypeOK
<1>2. ASSUME txns' = txns PROVE Allocated'
  BY <1>2 DEF Allocated, IsSpend, Posted, Total, Size
<1>3. ASSUME NEW kind \in TransactionKinds \ {"spend"}, NEW units \in Int, NEW ref \in 0..MaxTransactions,
             NEW alloc \in [Parts -> Nat], NEW b, Post(kind, units, ref, alloc, b)
      PROVE  Allocated'
  <2> DEFINE x == [kind |-> kind, units |-> units, ref |-> ref, alloc |-> alloc]
  <2>1. x \in Transactions /\ x.kind # "spend" /\ txns' = Append(txns, x)
    BY <1>3 DEF Post, Transactions
  <2> HIDE DEF x
  <2> QED BY <1>1, <2>1, AllocatedAppends
<1>4. /\ {"grant", "refund", "return", "revocation"} \subseteq TransactionKinds \ {"spend"}
      /\ Nothing \in [Parts -> Nat] /\ Posted \subseteq 0..MaxTransactions /\ 0 \in 0..MaxTransactions
      /\ \A units \in Amounts : units \in Nat /\ units \in Int /\ -units \in Int
      /\ \A h \in DOMAIN holds : -holds[h].units \in Int /\ holds[h].txn \in 0..MaxTransactions
  <2>1. \A units \in Amounts : units \in Nat /\ units \in Int /\ -units \in Int
    BY LedgerAssumption
  <2>2. \A h \in DOMAIN holds : holds[h].units \in Nat /\ holds[h].txn \in Ids
    BY <1>1, HoldsType
  <2>3. Ids \subseteq 0..MaxTransactions /\ 0 \in 0..MaxTransactions
    BY LedgerAssumption DEF Ids
  <2> QED BY <1>1, <2>1, <2>2, <2>3, NothingType DEF TransactionKinds
<1>5. ASSUME NEW units \in Amounts, Spend(units) PROVE Allocated'
  <2> DEFINE alloc == Allocate(units)
             x == [kind |-> "spend", units |-> -units, ref |-> 0, alloc |-> alloc]
  <2>1. alloc \in [Parts -> Nat] /\ Total(alloc) = units
    BY <1>1, <1>4, AllocatesAll
  <2>2. txns' = Append(txns, x)
    BY <1>5 DEF Spend, Post
  <2> HIDE DEF alloc
  <2>3. x \in Transactions /\ x.alloc = alloc /\ x.units = -units
    BY <1>4, <2>1 DEF Transactions, TransactionKinds
  <2>4. Size(-units) = units
    BY <1>4 DEF Size
  <2> HIDE DEF x
  <2> QED BY <1>1, <2>1, <2>2, <2>3, <2>4, AllocatedAppends
<1>6. ASSUME NEW units \in Amounts, Grant(units) PROVE Allocated'
  BY <1>3, <1>4, <1>6 DEF Grant
<1>7. ASSUME NEW units \in Amounts, Reserve(units) \/ Unreserve(units) PROVE Allocated'
  BY <1>2, <1>7 DEF Reserve, Unreserve
<1>8. ASSUME NEW t \in Posted, NEW units \in Amounts, RefundGrant(t, units) PROVE Allocated'
  BY <1>3, <1>4, <1>8 DEF RefundGrant
<1>9. ASSUME NEW t \in Posted, NEW units \in Amounts, ReturnUsage(t, units) PROVE Allocated'
  BY <1>3, <1>4, <1>9 DEF ReturnUsage
<1>10. ASSUME NEW t \in Posted, NEW units \in Amounts, HoldPurchaseRefund(t, units) PROVE Allocated'
  BY <1>2, <1>10 DEF HoldPurchaseRefund
<1>11. ASSUME NEW t \in Posted, NEW units \in Amounts, Revoke(t, units) PROVE Allocated'
  <2> DEFINE unspent == Lesser(units, book.lots[t])
             alloc == [i \in Parts |-> IF i = t THEN unspent ELSE IF i = Debt THEN units - unspent ELSE 0]
             b == [book EXCEPT !.lots[t] = @ - unspent]
  <2>1. Post("revocation", -units, t, alloc, b)
    BY <1>11 DEF Revoke
  <2>2. alloc \in [Parts -> Nat]
    <3>1. book.lots[t] \in Nat
      BY <1>1, BooksType
    <3>2. unspent \in Nat /\ units - unspent \in Nat
      BY <1>4, <3>1 DEF Lesser
    <3> HIDE DEF unspent
    <3> QED BY <3>2
  <2> HIDE DEF alloc, b
  <2> QED BY <1>3, <1>4, <2>1, <2>2
<1>12. ASSUME NEW h \in DOMAIN holds, ReleasePurchaseRefund(h) PROVE Allocated'
  BY <1>2, <1>12 DEF ReleasePurchaseRefund
<1>13. ASSUME NEW h \in DOMAIN holds, FinalizePurchaseRefund(h) PROVE Allocated'
  BY <1>3, <1>4, <1>13 DEF FinalizePurchaseRefund
<1>14. CASE UNCHANGED ledgerVars
  BY <1>2, <1>14 DEF ledgerVars
<1> QED BY <1>5, <1>6, <1>7, <1>8, <1>9, <1>10, <1>11, <1>12, <1>13, <1>14 DEF LedgerNext

\* Usage is allocated in full after every sequence of operations: what returns can
\* give back is what was charged.
THEOREM UsageAllocated == LedgerSpec => []Allocated
<1>1. LedgerInit => Allocated
  BY DEF LedgerInit, Allocated, Posted
<1> QED BY <1>1, NextAllocated, LedgerHolds, PTL DEF LedgerSpec

\* The next units of a reversal are as many as were asked for, each of them one
\* that is still outstanding.
LEMMA SliceGives ==
  ASSUME LedgerTypeOK, WellFormedTxns, Allocated, NEW t \in Posted, IsSpend(t),
         NEW units \in Nat, units <= ReversalRemaining(t), NEW back, back = Slice(t, units)
  PROVE  /\ back \in [Parts -> Nat] /\ Total(back) = units
         /\ \A i \in Parts : back[i] <= Outstanding(t)[i] /\ back[i] <= txns[t].alloc[i]
<1>1. /\ txns[t].alloc \in [Parts -> Nat] /\ txns[t].units \in Int /\ Parts = 1..Debt /\ Debt \in Nat
  BY PostedType, LedgerAssumption DEF Parts, Debt
<1>2. Reversed(t) \in Nat
  <2>1. Reversed(t) \in Int /\ Reversed(t) >= 0
    BY ReversedType, ReversedSplits
  <2> QED BY <2>1
<1>3. PICK a, r : a = txns[t].alloc /\ r = Reversed(t)
  OBVIOUS
<1>4. /\ a \in [1..Debt -> Nat] /\ r \in Nat /\ r \in Int /\ r + units \in Nat /\ r <= r + units
  BY <1>1, <1>2, <1>3
<1>5. /\ Size(txns[t].units) - ReversalRemaining(t) = r /\ r + units <= Total(a)
  <2>1. Size(txns[t].units) \in Int /\ Size(r) = r
    BY <1>1, <1>4 DEF Size
  <2>2. Total(a) = Size(txns[t].units)
    BY <1>3 DEF Allocated
  <2> QED BY <1>3, <1>4, <2>1, <2>2 DEF ReversalRemaining
<1>6. PICK f, g : f = Drawn(a, r) /\ g = Drawn(a, r + units)
  OBVIOUS
<1>7. /\ f \in [1..Debt -> Nat] /\ \A i \in 1..Debt : f[i] <= a[i]
  BY <1>1, <1>4, <1>6, DrawnType
<1>8. /\ g \in [1..Debt -> Nat] /\ \A i \in 1..Debt : g[i] <= a[i]
  <2>1. r + units \in Int
    BY <1>4
  <2> QED BY <1>1, <1>4, <1>6, <2>1, DrawnType
<1>9. \A i \in 1..Debt : f[i] <= g[i]
  <2>1. r + units \in Int
    BY <1>4
  <2> QED BY <1>1, <1>4, <1>6, <2>1, DrawnGrows
<1>10. Total(f) = r /\ Total(g) = r + units
  <2>1. Total(f) = Lesser(r, Total(a)) /\ Total(g) = Lesser(r + units, Total(a))
    BY <1>1, <1>4, <1>6, DrawnTotal
  <2>2. Total(a) \in Nat
    BY <1>1, <1>4, FiniteIds, TotalNat
  <2> QED BY <1>4, <1>5, <2>1, <2>2 DEF Lesser
<1>11. back = Minus(g, f)
  BY <1>3, <1>5, <1>6 DEF Slice
<1>12. Total(back) = units
  <2>1. f \in [Parts -> Int] /\ g \in [Parts -> Int] /\ IsFiniteSet(Parts)
    BY <1>1, <1>7, <1>8, FiniteIds
  <2>2. Total(Minus(g, f)) = Total(g) - Total(f)
    BY <2>1, TotalMinus
  <2> QED BY <1>4, <1>10, <1>11, <2>2
<1>13. back = [i \in 1..Debt |-> g[i] - f[i]]
  BY <1>8, <1>11 DEF Minus
<1>14. back \in [Parts -> Nat]
  BY <1>1, <1>7, <1>8, <1>9, <1>13
<1>15. Outstanding(t) = [i \in 1..Debt |-> a[i] - f[i]]
  <2>1. Outstanding(t) = Minus(a, f)
    BY <1>3, <1>4, <1>6 DEF Outstanding, Size
  <2> QED BY <1>4, <2>1 DEF Minus
<1>16. ASSUME NEW i \in Parts PROVE back[i] <= Outstanding(t)[i] /\ back[i] <= a[i]
  <2>1. i \in 1..Debt /\ a[i] \in Nat /\ f[i] \in Nat /\ g[i] \in Nat /\ g[i] <= a[i]
    BY <1>1, <1>4, <1>7, <1>8
  <2>2. back[i] = g[i] - f[i] /\ Outstanding(t)[i] = a[i] - f[i]
    BY <1>13, <1>15, <2>1
  <2> QED BY <2>1, <2>2
<1> QED BY <1>3, <1>12, <1>14, <1>16

\* Usage that was not returned yet can be returned in any parts, after every
\* sequence of operations in which no debt is paid by an older credit.
THEOREM ReturnsGoThrough == LedgerSpec => []ReturnsComplete
<1>1. ASSUME LedgerInv, Allocated, Chronological, NEW t \in Posted, txns[t].kind = "spend",
             NEW units \in 1..ReversalRemaining(t)
      PROVE  Total(Slice(t, units)) = units /\ AfterReturn(t, Slice(t, units)).ok
  <2>1. /\ LedgerTypeOK /\ WellFormedTxns /\ WellFormedBook /\ DebtsBalance /\ book \in Tables /\ book.ok
        /\ Posted \subseteq Ids /\ t \in Ids /\ IsSpend(t) /\ Debt \in Parts /\ Ids \subseteq Parts
    BY <1>1, PostedType DEF LedgerInv, LedgerTypeOK, IsSpend
  <2>2. PICK back : back = Slice(t, units)
    OBVIOUS
  <2>3. units \in Nat /\ units <= ReversalRemaining(t)
    <3>1. ReversalRemaining(t) \in Int
      <4>1. txns[t].units \in Int /\ Size(Reversed(t)) \in Nat
        BY <2>1, PostedType, ReversedType
      <4> QED BY <4>1 DEF ReversalRemaining, Size
    <3> QED BY <3>1
  <2>4. /\ back \in [Parts -> Nat] /\ Total(back) = units
        /\ \A i \in Parts : back[i] <= Outstanding(t)[i] /\ back[i] <= txns[t].alloc[i]
    BY <1>1, <2>1, <2>2, <2>3, SliceGives
  <2>5. RefersBack /\ txns[t].ref = 0 /\ ~Reverses(t)
    BY <1>1, <2>1 DEF WellFormedTxns, RefersBack, Reverses
  <2>6. Orderly(book)
    <3> SUFFICES ASSUME NEW d \in Ids, NEW s \in Ids, book.fund[d][s] > 0 PROVE d < s /\ HasLot(s)
      BY <2>1 DEF Orderly
    <3>1. d < s
      BY <1>1 DEF Chronological
    <3>2. book.fund[d][s] # 0
      BY <2>1, BooksType
    <3> QED BY <2>1, <3>1, <3>2 DEF WellFormedBook
  <2>7. ASSUME NEW i \in Ids, back[i] > 0 PROVE HasLot(i)
    <3>1. txns[t].alloc[i] \in Nat /\ back[i] \in Nat /\ back[i] <= txns[t].alloc[i]
      BY <2>1, <2>4, PostedType
    <3>2. txns[t].alloc[i] > 0
      BY <2>7, <3>1
    <3> QED BY <1>1, <2>1, <3>2 DEF WellFormedTxns
  <2>8. back[Debt] <= Owing(book, t)
    BY <2>1, <2>4 DEF DebtsBalance
  <2>9. AfterReturn(t, back).ok
    BY <2>1, <2>4, <2>5, <2>6, <2>7, <2>8, ReturnCompletes
  <2> QED BY <2>2, <2>4, <2>9
<1>2. LedgerInv /\ Allocated => ReturnsComplete
  BY <1>1, Zenon DEF ReturnsComplete
<1> QED BY <1>2, LedgerHolds, UsageAllocated, PTL
=============================================================================
