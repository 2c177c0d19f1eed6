------------------------------ MODULE SumLemmas ------------------------------
(***************************************************************************)
(* Facts about SumFunctionOnSet for finite sets and natural numbers.       *)
(*                                                                         *)
(* The sum is a fold: a recursive function on the subsets of S.  The       *)
(* proofs go by what it counts.  Units(f, S) is a set with f[x] elements   *)
(* for every x; its cardinality unfolds like the fold, so the fold is      *)
(* well-defined and equal to it.                                           *)
(***************************************************************************)
EXTENDS Functions, FiniteSetTheorems, TLAPS

-----------------------------------------------------------------------------
(* Induction over the subsets of a finite set, on a set T of subsets in    *)
(* place of a predicate: a smallest subset outside T cannot exist.         *)

\* A set of subsets with {}, and with every s whose parts it has, has S.
LEMMA SubsetInduction ==
  ASSUME NEW S, IsFiniteSet(S), NEW T,
         {} \in T, \A s \in SUBSET S : s # {} /\ (\A x \in s : s \ {x} \in T) => s \in T
  PROVE  S \in T
<1> SUFFICES ASSUME S \notin T PROVE FALSE
  OBVIOUS
<1> DEFINE Bad == {s \in SUBSET S : s \notin T}
           R == StrictSubsetOrdering(S)
<1>1. IsWellFoundedOn(R, SUBSET S)
  <2>1. IsWellFoundedOn(StrictSubsetOrdering(S), FiniteSubsetsOf(S))
    BY FS_StrictSubsetOrderingWellFounded
  <2>2. FiniteSubsetsOf(S) = SUBSET S
    BY FS_FiniteSubsetsOfFinite
  <2> QED
    BY <2>1, <2>2
<1>2. Bad \subseteq SUBSET S /\ Bad # {}
  OBVIOUS
<1> HIDE DEF R
<1>3. PICK s \in Bad : \A r \in Bad : <<r, s>> \notin R
  <2> HIDE DEF Bad
  <2> QED BY <1>1, <1>2, WFMin
<1>4. PICK x \in s : s \ {x} \in Bad
  BY <1>3
<1>5. <<s \ {x}, s>> \in R
  BY <1>3, <1>4 DEF R, StrictSubsetOrdering
<1> QED
  BY <1>3, <1>4, <1>5

-----------------------------------------------------------------------------
(* What a sum counts: f[x] pairs for every x.                              *)

Units(f, S) == UNION {{x} \X (1..f[x]) : x \in S}

\* The pairs of x are apart from those of the other elements.
LEMMA UnitsSplit ==
  ASSUME NEW f, NEW S, NEW x \in S
  PROVE  /\ Units(f, S) = Units(f, S \ {x}) \cup ({x} \X (1..f[x]))
         /\ Units(f, S \ {x}) \cap ({x} \X (1..f[x])) = {}
BY DEF Units

\* The pairs of one element.
LEMMA ColumnCount ==
  ASSUME NEW x, NEW n \in Nat
  PROVE  IsFiniteSet({x} \X (1..n)) /\ Cardinality({x} \X (1..n)) = n
<1> DEFINE A == {x}
           B == 1..n
<1>1. IsFiniteSet(A) /\ Cardinality(A) = 1
  BY FS_Singleton
<1>2. IsFiniteSet(B) /\ Cardinality(B) = n
  BY FS_Interval
<1> HIDE DEF A, B
<1>3. IsFiniteSet(A \X B) /\ Cardinality(A \X B) = Cardinality(A) * Cardinality(B)
  BY <1>1, <1>2, FS_Product
<1>4. IsFiniteSet(A \X B) /\ Cardinality(A \X B) = n
  BY <1>1, <1>2, <1>3
<1> QED
  BY <1>4 DEF A, B

\* There are finitely many pairs.
LEMMA UnitsFinite ==
  ASSUME NEW S, IsFiniteSet(S), NEW f, \A x \in S : f[x] \in Nat
  PROVE  IsFiniteSet(Units(f, S))
<1> DEFINE T == {s \in SUBSET S : IsFiniteSet(Units(f, s))}
<1>1. {} \in T
  BY FS_EmptySet DEF Units
<1>2. ASSUME NEW s \in SUBSET S, s # {}, \A x \in s : s \ {x} \in T
      PROVE  s \in T
  <2> PICK x \in s : TRUE
    BY <1>2
  <2>1. IsFiniteSet({x} \X (1..f[x]))
    BY ColumnCount
  <2>2. IsFiniteSet(Units(f, s \ {x}))
    BY <1>2
  <2>3. IsFiniteSet(Units(f, s \ {x}) \cup ({x} \X (1..f[x])))
    BY <2>1, <2>2, FS_Union
  <2> QED
    BY <2>3, UnitsSplit
<1> HIDE DEF T
<1>3. S \in T
  BY <1>1, <1>2, SubsetInduction
<1> QED
  BY <1>3 DEF T

\* The count unfolds at any element.
LEMMA UnitsCount ==
  ASSUME NEW S, IsFiniteSet(S), NEW f, \A y \in S : f[y] \in Nat, NEW x \in S
  PROVE  Cardinality(Units(f, S)) = f[x] + Cardinality(Units(f, S \ {x}))
<1> DEFINE A == Units(f, S \ {x})
           B == {x} \X (1..f[x])
<1>1. IsFiniteSet(S \ {x}) /\ IsFiniteSet(A)
  BY UnitsFinite, FS_RemoveElement
<1>2. IsFiniteSet(B) /\ Cardinality(B) = f[x]
  BY ColumnCount
<1>3. Units(f, S) = A \cup B /\ A \cap B = {}
  BY UnitsSplit
<1>4. Cardinality(A) \in Nat
  BY <1>1, FS_CardinalityType
<1> HIDE DEF A, B
<1>5. Cardinality(A \cup B) = Cardinality(A) + Cardinality(B) - Cardinality(A \cap B)
  BY <1>1, <1>2, FS_Union
<1>6. Cardinality(A \cap B) = 0
  BY <1>3, FS_EmptySet
<1> QED
  BY <1>2, <1>3, <1>4, <1>5, <1>6 DEF A

-----------------------------------------------------------------------------
(* The sum is that count.                                                  *)

\* g unfolds as SumFunctionOnSet does: take an element, add the rest.
Unfolds(g, f, S) ==
  g = [s \in SUBSET S |-> IF s = {} THEN 0
                          ELSE f[CHOOSE x \in s : TRUE] + g[s \ {CHOOSE x \in s : TRUE}]]

\* The fold is well-defined, since the count unfolds as it does, and equal to the count.
LEMMA SumIsCount ==
  ASSUME NEW S, IsFiniteSet(S), NEW f, \A y \in S : f[y] \in Nat
  PROVE  SumFunctionOnSet(f, S) = Cardinality(Units(f, S))
<1> DEFINE h == [s \in SUBSET S |-> Cardinality(Units(f, s))]
           iter == CHOOSE g : Unfolds(g, f, S)
<1>1. Unfolds(h, f, S)
  <2>1. ASSUME NEW s \in SUBSET S, s # {}, NEW x \in s
        PROVE  h[s] = f[x] + h[s \ {x}]
    BY <2>1, UnitsCount, FS_Subset
  <2>2. h[{}] = 0
    BY FS_EmptySet DEF Units
  <2>3. ASSUME NEW s \in SUBSET S
        PROVE  h[s] = IF s = {} THEN 0
                      ELSE f[CHOOSE x \in s : TRUE] + h[s \ {CHOOSE x \in s : TRUE}]
    <3> HIDE DEF h
    <3> QED BY <2>1, <2>2
  <2>4. h = [s \in SUBSET S |-> h[s]]
    OBVIOUS
  <2> HIDE DEF h
  <2> QED
    BY <2>3, <2>4 DEF Unfolds
<1>2. Unfolds(iter, f, S)
  <2> HIDE DEF h
  <2> QED BY <1>1
<1>3. SumFunctionOnSet(f, S) = iter[S]
  BY DEF SumFunctionOnSet, FoldFunctionOnSet, MapThenFoldSet, Unfolds
<1> HIDE DEF iter
<1> DEFINE T == {s \in SUBSET S : iter[s] = h[s]}
<1>4. {} \in T
  BY <1>1, <1>2 DEF Unfolds
<1>5. ASSUME NEW s \in SUBSET S, s # {}, \A x \in s : s \ {x} \in T
      PROVE  s \in T
  <2> DEFINE x == CHOOSE y \in s : TRUE
  <2>1. x \in s
    BY <1>5
  <2> HIDE DEF h
  <2>2. iter[s] = f[x] + iter[s \ {x}] /\ h[s] = f[x] + h[s \ {x}]
    BY <1>1, <1>2, <1>5 DEF Unfolds
  <2> QED
    BY <1>5, <2>1, <2>2
<1> HIDE DEF T
<1>6. S \in T
  BY <1>4, <1>5, SubsetInduction
<1> QED
  BY <1>3, <1>6 DEF T

-----------------------------------------------------------------------------
(* What the other modules cite.                                            *)

\* A sum of natural numbers is one.
LEMMA SumNat ==
  ASSUME NEW S, IsFiniteSet(S), NEW f, \A y \in S : f[y] \in Nat
  PROVE  SumFunctionOnSet(f, S) \in Nat
BY SumIsCount, UnitsFinite, FS_CardinalityType

\* A sum over nothing is zero.
LEMMA SumEmpty ==
  ASSUME NEW f
  PROVE  SumFunctionOnSet(f, {}) = 0
<1>1. Units(f, {}) = {}
  BY DEF Units
<1> QED
  BY <1>1, SumIsCount, FS_EmptySet

\* Any element may be taken out of the sum.
LEMMA SumRemove ==
  ASSUME NEW S, IsFiniteSet(S), NEW f, \A y \in S : f[y] \in Nat, NEW x \in S
  PROVE  SumFunctionOnSet(f, S) = f[x] + SumFunctionOnSet(f, S \ {x})
<1>1. IsFiniteSet(S \ {x})
  BY FS_RemoveElement
<1>2. SumFunctionOnSet(f, S \ {x}) = Cardinality(Units(f, S \ {x}))
  BY <1>1, SumIsCount
<1> QED
  BY <1>2, SumIsCount, UnitsCount

\* The sum depends on the values at the set only.
LEMMA SumSame ==
  ASSUME NEW S, IsFiniteSet(S), NEW f, \A y \in S : f[y] \in Nat, NEW g, \A y \in S : g[y] = f[y]
  PROVE  SumFunctionOnSet(g, S) = SumFunctionOnSet(f, S)
<1>1. Units(g, S) = Units(f, S)
  BY DEF Units
<1> QED
  BY <1>1, SumIsCount

\* A sum of equal values is a product.
LEMMA SumConstant ==
  ASSUME NEW S, IsFiniteSet(S), NEW f, NEW n \in Nat, \A y \in S : f[y] = n
  PROVE  SumFunctionOnSet(f, S) = Cardinality(S) * n
<1> DEFINE B == 1..n
<1>1. Units(f, S) = S \X B
  BY DEF Units
<1>2. IsFiniteSet(B) /\ Cardinality(B) = n
  BY FS_Interval
<1> HIDE DEF B
<1>3. Cardinality(S \X B) = Cardinality(S) * Cardinality(B)
  BY <1>2, FS_Product
<1> QED
  BY <1>1, <1>2, <1>3, SumIsCount

\* A sum that exceeds another one by at most one, at the elements of C only.
LEMMA SumExceeds ==
  ASSUME NEW S, IsFiniteSet(S), NEW C,
         NEW f, NEW g, \A y \in S : f[y] \in Nat /\ g[y] \in Nat,
         \A y \in S : f[y] <= g[y] \/ (y \in C /\ f[y] = g[y] + 1)
  PROVE  SumFunctionOnSet(f, S) <= SumFunctionOnSet(g, S) + Cardinality(S \cap C)
<1> DEFINE top == [y \in S \cap C |-> <<y, g[y] + 1>>]
           E == {top[y] : y \in S \cap C}
<1>1. IsFiniteSet(S \cap C)
  BY FS_Intersection
<1>2. IsFiniteSet(E) /\ Cardinality(E) <= Cardinality(S \cap C)
  <2>1. top \in Surjection(S \cap C, E)
    BY DEF Surjection
  <2> HIDE DEF top, E
  <2> QED
    BY <1>1, <2>1, FS_Surjection
<1>3. Units(f, S) \subseteq Units(g, S) \cup E
  <2>1. ASSUME NEW y \in S, NEW n \in 1..f[y]
        PROVE  <<y, n>> \in Units(g, S) \cup E
    <3>1. CASE n <= g[y]
      BY <3>1 DEF Units
    <3>2. CASE ~(n <= g[y])
      <4>1. y \in S \cap C /\ n = g[y] + 1
        BY <2>1, <3>2
      <4> QED
        BY <4>1
    <3> QED
      BY <3>1, <3>2
  <2>2. \A z \in Units(f, S) : \E y \in S : \E n \in 1..f[y] : z = <<y, n>>
    BY DEF Units
  <2> HIDE DEF E
  <2> QED
    BY <2>1, <2>2
<1> HIDE DEF E
<1>4. IsFiniteSet(Units(g, S)) /\ IsFiniteSet(Units(f, S))
  BY UnitsFinite
<1>5. /\ IsFiniteSet(Units(g, S) \cup E)
      /\ Cardinality(Units(g, S) \cup E) <= Cardinality(Units(g, S)) + Cardinality(E)
  <2>1. IsFiniteSet(Units(g, S) \cap E)
    BY <1>4, FS_Intersection
  <2>2. /\ Cardinality(Units(g, S)) \in Nat /\ Cardinality(E) \in Nat
        /\ Cardinality(Units(g, S) \cap E) \in Nat
    BY <1>2, <1>4, <2>1, FS_CardinalityType
  <2> QED
    BY <1>2, <1>4, <2>2, FS_Union
<1>6. Cardinality(Units(f, S)) <= Cardinality(Units(g, S) \cup E)
  BY <1>3, <1>5, FS_Subset
<1>7. /\ Cardinality(Units(f, S)) \in Nat /\ Cardinality(Units(g, S)) \in Nat
      /\ Cardinality(Units(g, S) \cup E) \in Nat
      /\ Cardinality(E) \in Nat /\ Cardinality(S \cap C) \in Nat
  BY <1>1, <1>2, <1>4, <1>5, FS_CardinalityType
<1>8. /\ SumFunctionOnSet(f, S) = Cardinality(Units(f, S))
      /\ SumFunctionOnSet(g, S) = Cardinality(Units(g, S))
  BY SumIsCount
<1> QED
  BY <1>2, <1>5, <1>6, <1>7, <1>8
==============================================================================
