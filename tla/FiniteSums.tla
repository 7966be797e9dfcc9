----------------------------- MODULE FiniteSums ------------------------------
(***************************************************************************)
(* Facts the ledgers' proofs rest on: induction over the natural numbers   *)
(* as a fact about sets of them, the greatest element of a finite set of   *)
(* numbers, and how the sum of a function over a finite domain moves when  *)
(* one of its values does.                                                 *)
(*                                                                         *)
(* Induction is stated for a set of numbers and not for a predicate, so    *)
(* that it can be cited for the set {n \in Nat : ...} of any formula.      *)
(***************************************************************************)
EXTENDS FiniteSetsExt, FiniteSetTheorems, WellFoundedInduction, TLAPS

-----------------------------------------------------------------------------
(* Induction.                                                              *)

\* A set of natural numbers that is not empty has a least element.
LEMMA Least ==
    ASSUME NEW S \in SUBSET Nat, S # {}
    PROVE  \E n \in S : \A m \in S : n <= m
<1> DEFINE R == {p \in Nat \X Nat : p[1] < p[2]}
<1>1. IsWellFoundedOn(R, Nat)
    BY NatLessThanWellFounded DEF OpToRel
<1>2. \A m, n \in Nat : <<m, n>> \in R <=> m < n
    OBVIOUS
<1> HIDE DEF R
<1>3. PICK n \in S : \A m \in S : ~ (<<m, n>> \in R)
    BY <1>1, WFMin
<1>4. \A m \in S : n <= m
  <2> SUFFICES ASSUME NEW m \in S PROVE n <= m
    OBVIOUS
  <2>1. m \in Nat /\ n \in Nat /\ ~ (m < n)
    BY <1>2, <1>3
  <2> QED
    BY <2>1
<1> QED
    BY <1>4

\* A set of natural numbers with 0 and the successor of each of its elements
\* has them all.
LEMMA Induction ==
    ASSUME NEW S \in SUBSET Nat, 0 \in S, \A n \in S : n + 1 \in S
    PROVE  S = Nat
<1> DEFINE T == Nat \ S
<1> SUFFICES ASSUME T # {} PROVE FALSE
    OBVIOUS
<1>1. T \in SUBSET Nat
    OBVIOUS
<1> HIDE DEF T
<1>2. PICK n \in T : \A m \in T : n <= m
    BY <1>1, Least
<1> USE DEF T
<1>3. n # 0 /\ n - 1 \in Nat
    BY <1>2
<1>4. n - 1 \in S
    BY <1>2, <1>3
<1> QED
    BY <1>2, <1>3, <1>4

-----------------------------------------------------------------------------
(* Sums.                                                                   *)

\* A set of n + 1 elements has n without one of them.
LEMMA RemoveOne ==
    ASSUME NEW S, IsFiniteSet(S), NEW x \in S,
           NEW n \in Nat, Cardinality(S) = n + 1
    PROVE  IsFiniteSet(S \ {x}) /\ Cardinality(S \ {x}) = n
<1>1. /\ IsFiniteSet(S \ {x})
      /\ Cardinality(S \ {x}) = Cardinality(S) - 1
    BY FS_RemoveElement
<1> QED
    BY <1>1

\* The part of the sum of w that falls on a subset of its domain: the value
\* the recursion of the folds has there.
Partial(w, S, sum) ==
    /\ sum \in [SUBSET S -> Int]
    /\ \A T \in SUBSET S :
        sum[T] = IF T = {} THEN 0
                 ELSE LET x == CHOOSE x \in T : TRUE IN w[x] + sum[T \ {x}]

\* The recursion of the folds has a solution on the subsets of a finite set.
LEMMA PartialExists ==
    ASSUME NEW S, IsFiniteSet(S), NEW w \in [S -> Int]
    PROVE  \E sum : Partial(w, S, sum)
<1> DEFINE First(T) == CHOOSE x \in T : TRUE
           Small(n) == {T \in SUBSET S : Cardinality(T) <= n}
           Solves(sum, n) ==
               /\ sum \in [Small(n) -> Int]
               /\ \A T \in Small(n) :
                    sum[T] = IF T = {} THEN 0
                             ELSE w[First(T)] + sum[T \ {First(T)}]
           N == {n \in Nat : \E sum : Solves(sum, n)}
<1>1. \A T \in SUBSET S : IsFiniteSet(T) /\ Cardinality(T) \in Nat
                          /\ Cardinality(T) <= Cardinality(S)
    BY FS_Subset, FS_CardinalityType
<1>2. \A T \in SUBSET S : T # {} =>
            /\ First(T) \in T
            /\ T \ {First(T)} \in SUBSET S
            /\ Cardinality(T \ {First(T)}) = Cardinality(T) - 1
  <2> SUFFICES ASSUME NEW T \in SUBSET S, T # {}
               PROVE  /\ First(T) \in T
                      /\ T \ {First(T)} \in SUBSET S
                      /\ Cardinality(T \ {First(T)}) = Cardinality(T) - 1
    OBVIOUS
  <2>1. First(T) \in T
    OBVIOUS
  <2> HIDE DEF First
  <2> QED
    BY <1>1, <2>1, FS_RemoveElement
<1>3. \A T \in SUBSET S : Cardinality(T) = 0 <=> T = {}
    BY <1>1, FS_EmptySet
<1> HIDE DEF First
<1>4. 0 \in N
  <2> DEFINE zero == [T \in Small(0) |-> 0]
  <2>1. \A T \in Small(0) : T = {}
    BY <1>1, <1>3
  <2>2. Solves(zero, 0)
    BY <2>1
  <2> QED
    BY <2>2
<1>5. \A n \in N : n + 1 \in N
  <2> SUFFICES ASSUME NEW n \in Nat, NEW sum, Solves(sum, n)
               PROVE  \E longer : Solves(longer, n + 1)
    <3> HIDE DEF Solves
    <3> QED
      OBVIOUS
  <2> DEFINE longer ==
        [T \in Small(n + 1) |->
            IF T = {} THEN 0 ELSE w[First(T)] + sum[T \ {First(T)}]]
  <2>1. \A T \in Small(n + 1) : T # {} => T \ {First(T)} \in Small(n)
    BY <1>1, <1>2
  <2>2. longer \in [Small(n + 1) -> Int]
    BY <1>2, <2>1
  <2>3. \A T \in Small(n) : T \in Small(n + 1) /\ longer[T] = sum[T]
    BY <1>1
  <2>4. Solves(longer, n + 1)
    <3> SUFFICES ASSUME NEW T \in Small(n + 1)
                 PROVE  longer[T] = IF T = {} THEN 0
                                    ELSE w[First(T)] + longer[T \ {First(T)}]
      BY <2>2
    <3>1. T # {} => longer[T \ {First(T)}] = sum[T \ {First(T)}]
      BY <2>1, <2>3
    <3> QED
      BY <3>1
  <2> QED
    BY <2>4
<1>6. Cardinality(S) \in N
  <2> HIDE DEF Solves
  <2>1. N \in SUBSET Nat
    OBVIOUS
  <2> HIDE DEF N
  <2> QED
    BY <1>1, <1>4, <1>5, <2>1, Induction
<1>7. Small(Cardinality(S)) = SUBSET S
    BY <1>1
<1>8. PICK sum : Solves(sum, Cardinality(S))
    BY <1>6
<1> QED
    BY <1>7, <1>8 DEF Partial, First

\* The sum of a function is such a partial sum, taken on its whole domain.
LEMMA SumIsPartial ==
    ASSUME NEW S, IsFiniteSet(S), NEW w \in [S -> Int]
    PROVE  \E sum : Partial(w, S, sum) /\ SumFunction(w) = sum[S]
<1> DEFINE Rule(sum) ==
        sum = [T \in SUBSET S |->
                IF T = {} THEN 0
                ELSE LET x == CHOOSE x \in T : TRUE IN w[x] + sum[T \ {x}]]
           iter == CHOOSE sum : Rule(sum)
<1>1. SumFunction(w) = iter[S]
    BY DEF SumFunction, SumFunctionOnSet, FoldFunctionOnSet, MapThenFoldSet
<1>2. PICK sum : Partial(w, S, sum)
    BY PartialExists
<1>3. Rule(sum)
    BY <1>2 DEF Partial
<1>4. Rule(iter)
    BY <1>3
<1> HIDE DEF iter
<1> DEFINE N == {n \in Nat : \A T \in SUBSET S :
                                Cardinality(T) = n => iter[T] = sum[T]}
<1>5. 0 \in N
  <2>1. \A T \in SUBSET S : Cardinality(T) = 0 => T = {}
    BY FS_Subset, FS_EmptySet
  <2> QED
    BY <1>2, <1>4, <2>1 DEF Partial
<1>6. \A n \in N : n + 1 \in N
  <2> SUFFICES ASSUME NEW n \in N, NEW T \in SUBSET S, Cardinality(T) = n + 1
               PROVE  iter[T] = sum[T]
    OBVIOUS
  <2> DEFINE x == CHOOSE x \in T : TRUE
             U == T \ {x}
  <2>1. T # {} /\ IsFiniteSet(T)
    BY FS_Subset, FS_EmptySet
  <2>2. iter[T] = w[x] + iter[U] /\ sum[T] = w[x] + sum[U]
    BY <1>2, <1>4, <2>1 DEF Partial
  <2>3. x \in T
    BY <2>1
  <2> HIDE DEF x
  <2>4. n \in Nat
    OBVIOUS
  <2>5. Cardinality(U) = n
    <3> HIDE DEF N
    <3> QED
      BY <2>1, <2>3, <2>4, RemoveOne
  <2> QED
    BY <2>2, <2>5
<1>7. N = Nat
  <2>1. N \in SUBSET Nat
    OBVIOUS
  <2> HIDE DEF N
  <2> QED
    BY <1>5, <1>6, <2>1, Induction
<1>8. iter[S] = sum[S]
    BY <1>7, FS_CardinalityType
<1> QED
    BY <1>1, <1>2, <1>8

\* A partial sum over a set is what it is without one of its elements, whichever
\* that is, and the value of w there.
LEMMA PartialRemove ==
    ASSUME NEW S, IsFiniteSet(S), NEW w \in [S -> Int],
           NEW sum, Partial(w, S, sum),
           NEW T \in SUBSET S, NEW y \in T
    PROVE  sum[T] = w[y] + sum[T \ {y}]
<1> DEFINE Holds(U) == \A z \in U : sum[U] = w[z] + sum[U \ {z}]
           N == {n \in Nat : \A U \in SUBSET S : Cardinality(U) = n => Holds(U)}
<1>1. 0 \in N
  <2>1. \A U \in SUBSET S : Cardinality(U) = 0 => U = {}
    BY FS_Subset, FS_EmptySet
  <2> QED
    BY <2>1
<1>2. ASSUME NEW n \in Nat, n \in N PROVE n + 1 \in N
  <2> SUFFICES ASSUME NEW U \in SUBSET S, Cardinality(U) = n + 1, NEW z \in U
               PROVE  sum[U] = w[z] + sum[U \ {z}]
    OBVIOUS
  <2> DEFINE x == CHOOSE x \in U : TRUE
  <2>1. sum[U] = w[x] + sum[U \ {x}]
    BY DEF Partial
  <2>2. x \in U
    OBVIOUS
  <2> HIDE DEF x
  <2>3. CASE x = z
    BY <2>1, <2>3
  <2>4. CASE x # z
    <3>1. \A v \in U : U \ {v} \in SUBSET S /\ Cardinality(U \ {v}) = n
      <4>1. IsFiniteSet(U)
        BY FS_Subset
      <4> QED
        BY <4>1, RemoveOne
    <3>2. Holds(U \ {x}) /\ Holds(U \ {z})
      BY <1>2, <2>2, <3>1
    <3>3. sum[U \ {x}] = w[z] + sum[(U \ {x}) \ {z}]
      BY <2>4, <3>2
    <3>4. sum[U \ {z}] = w[x] + sum[(U \ {z}) \ {x}]
      BY <2>2, <2>4, <3>2
    <3> DEFINE rest == (U \ {x}) \ {z}
    <3>5. (U \ {z}) \ {x} = rest
      OBVIOUS
    <3>6. w[x] \in Int /\ w[z] \in Int /\ sum[rest] \in Int
      BY <2>2 DEF Partial
    <3>7. sum[U] = w[x] + (w[z] + sum[rest]) /\ sum[U \ {z}] = w[x] + sum[rest]
      BY <2>1, <3>3, <3>4, <3>5
    <3> HIDE DEF N, Holds, rest
    <3> QED
      BY <3>6, <3>7
  <2> QED
    BY <2>3, <2>4
<1>3. N = Nat
  <2>1. N \in SUBSET Nat
    OBVIOUS
  <2> HIDE DEF N
  <2> QED
    BY <1>1, <1>2, <2>1, Induction
<1>4. Holds(T)
    BY <1>3, FS_Subset, FS_CardinalityType
<1> QED
    BY <1>4

\* Two functions that agree on a set have the same partial sum there.
LEMMA PartialAgrees ==
    ASSUME NEW S, IsFiniteSet(S),
           NEW v \in [S -> Int], NEW w \in [S -> Int],
           NEW sumV, Partial(v, S, sumV), NEW sumW, Partial(w, S, sumW),
           NEW T \in SUBSET S, \A x \in T : v[x] = w[x]
    PROVE  sumV[T] = sumW[T]
<1> DEFINE N == {n \in Nat : \A U \in SUBSET T :
                                Cardinality(U) = n => sumV[U] = sumW[U]}
<1>1. IsFiniteSet(T)
    BY FS_Subset
<1>2. 0 \in N
  <2>1. \A U \in SUBSET T : Cardinality(U) = 0 => U = {}
    BY <1>1, FS_Subset, FS_EmptySet
  <2> QED
    BY <2>1 DEF Partial
<1>3. ASSUME NEW n \in Nat, n \in N PROVE n + 1 \in N
  <2> SUFFICES ASSUME NEW U \in SUBSET T, Cardinality(U) = n + 1
               PROVE  sumV[U] = sumW[U]
    OBVIOUS
  <2>1. IsFiniteSet(U)
    BY <1>1, FS_Subset
  <2>2. PICK x : x \in U
    BY <2>1, FS_EmptySet
  <2>3. sumV[U] = v[x] + sumV[U \ {x}] /\ sumW[U] = w[x] + sumW[U \ {x}]
    BY <2>2, PartialRemove
  <2>4. Cardinality(U \ {x}) = n
    BY <2>1, <2>2, RemoveOne
  <2> QED
    BY <1>3, <2>2, <2>3, <2>4
<1>4. N = Nat
  <2>1. N \in SUBSET Nat
    OBVIOUS
  <2> HIDE DEF N
  <2> QED
    BY <1>2, <1>3, <2>1, Induction
<1> QED
    BY <1>1, <1>4, FS_CardinalityType

\* The sum of numbers is a number.
LEMMA SumInt ==
    ASSUME NEW S, IsFiniteSet(S), NEW w \in [S -> Int]
    PROVE  SumFunction(w) \in Int
<1>1. PICK sum : Partial(w, S, sum) /\ SumFunction(w) = sum[S]
    BY SumIsPartial
<1>2. sum \in [SUBSET S -> Int]
    BY <1>1 DEF Partial
<1> QED
    BY <1>1, <1>2

\* When one value of a function changes, its sum changes by as much.
LEMMA SumChange ==
    ASSUME NEW S, IsFiniteSet(S),
           NEW v \in [S -> Int], NEW w \in [S -> Int], NEW x \in S,
           \A y \in S \ {x} : v[y] = w[y]
    PROVE  SumFunction(w) = SumFunction(v) - v[x] + w[x]
<1>1. PICK sumV : Partial(v, S, sumV) /\ SumFunction(v) = sumV[S]
    BY SumIsPartial
<1>2. PICK sumW : Partial(w, S, sumW) /\ SumFunction(w) = sumW[S]
    BY SumIsPartial
<1>3. sumV[S] = v[x] + sumV[S \ {x}] /\ sumW[S] = w[x] + sumW[S \ {x}]
    BY <1>1, <1>2, PartialRemove
<1>4. sumV[S \ {x}] = sumW[S \ {x}]
    BY <1>1, <1>2, PartialAgrees
<1>5. sumV[S \ {x}] \in Int /\ v[x] \in Int /\ w[x] \in Int
    BY <1>1 DEF Partial
<1> QED
    BY <1>1, <1>2, <1>3, <1>4, <1>5

\* A function that is 0 everywhere has the sum 0.
LEMMA SumZero ==
    ASSUME NEW S, IsFiniteSet(S), NEW w \in [S -> Int], \A x \in S : w[x] = 0
    PROVE  SumFunction(w) = 0
<1>1. PICK sum : Partial(w, S, sum) /\ SumFunction(w) = sum[S]
    BY SumIsPartial
<1> DEFINE N == {n \in Nat : \A U \in SUBSET S : Cardinality(U) = n => sum[U] = 0}
<1>2. 0 \in N
  <2>1. \A U \in SUBSET S : Cardinality(U) = 0 => U = {}
    BY FS_Subset, FS_EmptySet
  <2> QED
    BY <1>1, <2>1 DEF Partial
<1>3. ASSUME NEW n \in Nat, n \in N PROVE n + 1 \in N
  <2> SUFFICES ASSUME NEW U \in SUBSET S, Cardinality(U) = n + 1
               PROVE  sum[U] = 0
    OBVIOUS
  <2>1. IsFiniteSet(U)
    BY FS_Subset
  <2>2. PICK x : x \in U
    BY <2>1, FS_EmptySet
  <2>3. sum[U] = w[x] + sum[U \ {x}]
    BY <1>1, <2>2, PartialRemove
  <2>4. Cardinality(U \ {x}) = n
    BY <2>1, <2>2, RemoveOne
  <2> QED
    BY <1>3, <2>2, <2>3, <2>4
<1>4. N = Nat
  <2>1. N \in SUBSET Nat
    OBVIOUS
  <2> HIDE DEF N
  <2> QED
    BY <1>2, <1>3, <2>1, Induction
<1> QED
    BY <1>1, <1>4, FS_CardinalityType

\* A sum of natural numbers is one, and at least each of them.
LEMMA SumNat ==
    ASSUME NEW S, IsFiniteSet(S), NEW w \in [S -> Nat]
    PROVE  /\ SumFunction(w) \in Nat
           /\ \A x \in S : w[x] <= SumFunction(w)
<1>1. w \in [S -> Int]
    OBVIOUS
<1>2. PICK sum : Partial(w, S, sum) /\ SumFunction(w) = sum[S]
    BY <1>1, SumIsPartial
<1> DEFINE N == {n \in Nat : \A U \in SUBSET S : Cardinality(U) = n => sum[U] \in Nat}
<1>3. 0 \in N
  <2>1. \A U \in SUBSET S : Cardinality(U) = 0 => U = {}
    BY FS_Subset, FS_EmptySet
  <2> QED
    BY <1>2, <2>1 DEF Partial
<1>4. ASSUME NEW n \in Nat, n \in N PROVE n + 1 \in N
  <2> SUFFICES ASSUME NEW U \in SUBSET S, Cardinality(U) = n + 1
               PROVE  sum[U] \in Nat
    OBVIOUS
  <2>1. IsFiniteSet(U)
    BY FS_Subset
  <2>2. PICK x : x \in U
    BY <2>1, FS_EmptySet
  <2>3. sum[U] = w[x] + sum[U \ {x}]
    BY <1>1, <1>2, <2>2, PartialRemove
  <2>4. Cardinality(U \ {x}) = n
    BY <2>1, <2>2, RemoveOne
  <2> QED
    BY <1>4, <2>2, <2>3, <2>4
<1>5. N = Nat
  <2>1. N \in SUBSET Nat
    OBVIOUS
  <2> HIDE DEF N
  <2> QED
    BY <1>3, <1>4, <2>1, Induction
<1>6. \A U \in SUBSET S : sum[U] \in Nat
    BY <1>5, FS_Subset, FS_CardinalityType
<1>7. \A x \in S : sum[S] = w[x] + sum[S \ {x}]
    BY <1>1, <1>2, PartialRemove
<1> QED
  <2> SUFFICES ASSUME NEW x \in S PROVE w[x] <= sum[S]
    BY <1>2, <1>6
  <2>1. sum[S \ {x}] \in Nat /\ w[x] \in Nat
    BY <1>6
  <2> QED
    BY <1>7, <2>1

-----------------------------------------------------------------------------
(* The greatest element.                                                   *)

\* The maximum of a finite set of natural numbers that is not empty is one of
\* them and at least each of them.
LEMMA MaxOfFinite ==
    ASSUME NEW S \in SUBSET Nat, IsFiniteSet(S), S # {}
    PROVE  /\ Max(S) \in S
           /\ \A m \in S : m <= Max(S)
<1> DEFINE HasMax(T) == \E x \in T : \A y \in T : y <= x
           N == {n \in Nat : \A T \in SUBSET S :
                                Cardinality(T) = n /\ T # {} => HasMax(T)}
<1>1. 0 \in N
  <2>1. \A U \in SUBSET S : Cardinality(U) = 0 => U = {}
    BY FS_Subset, FS_EmptySet
  <2> QED
    BY <2>1
<1>2. ASSUME NEW n \in Nat, n \in N PROVE n + 1 \in N
  <2> SUFFICES ASSUME NEW T \in SUBSET S, Cardinality(T) = n + 1, T # {}
               PROVE  HasMax(T)
    <3> HIDE DEF HasMax
    <3> QED
      OBVIOUS
  <2> PICK x \in T : TRUE
    OBVIOUS
  <2> DEFINE U == T \ {x}
  <2>1. U \in SUBSET S /\ Cardinality(U) = n
    <3>1. IsFiniteSet(T)
      BY FS_Subset
    <3> QED
      BY <3>1, RemoveOne
  <2>2. CASE U = {}
    <3>1. \A y \in T : y = x
      BY <2>2
    <3>2. x \in Nat
      OBVIOUS
    <3> QED
      BY <3>1, <3>2
  <2>3. CASE U # {}
    <3>1. PICK z \in U : \A y \in U : y <= z
      BY <1>2, <2>1, <2>3
    <3>2. x \in Nat /\ z \in Nat /\ z \in T /\ \A y \in T : y = x \/ y \in U
      OBVIOUS
    <3>3. CASE x <= z
      BY <3>1, <3>2, <3>3
    <3>4. CASE z <= x
      <4>1. \A y \in T : y <= x
        <5> SUFFICES ASSUME NEW y \in T PROVE y <= x
          OBVIOUS
        <5>1. y \in Nat
          OBVIOUS
        <5> HIDE DEF U
        <5> QED
          BY <3>1, <3>2, <3>4, <5>1
      <4> QED
        BY <4>1
    <3> QED
      BY <3>2, <3>3, <3>4
  <2> QED
    BY <2>2, <2>3
<1>3. N = Nat
  <2>1. N \in SUBSET Nat
    OBVIOUS
  <2> HIDE DEF N
  <2> QED
    BY <1>1, <1>2, <2>1, Induction
<1>4. HasMax(S)
    BY <1>3, FS_CardinalityType
<1> QED
    BY <1>4 DEF Max
=============================================================================
