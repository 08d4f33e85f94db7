--------------------------- MODULE ArithmeticProofs ---------------------------
(***************************************************************************)
(* Laws of SumOver and Power, and the two forms of induction they rest on, *)
(* stated with sets: least elements and well-founded cardinalities.        *)
(***************************************************************************)
EXTENDS Arithmetic, FiniteSetTheorems, TLAPS

------------------------------------------------------------------------------
(* Induction, for a set instead of a predicate.                            *)

LEMMA LeastNatural ==
  ASSUME NEW S \in SUBSET Nat, S # {}
  PROVE  \E x \in S : \A y \in S : x <= y
  <1> DEFINE R == OpToRel(<, Nat)
  <1>1. \A x, y \in Nat : <<x, y>> \in R <=> x < y
    BY DEF OpToRel
  <1>2. IsWellFoundedOn(R, Nat)
    BY NatLessThanWellFounded
  <1> HIDE DEF R
  <1>3. PICK x \in S : \A y \in S : ~ (<<y, x>> \in R)
    BY <1>2, WFMin
  <1>4. ASSUME NEW y \in S PROVE x <= y
    <2>1. x \in Nat /\ y \in Nat
      OBVIOUS
    <2>2. ~(<<y, x>> \in R)
      BY <1>3
    <2>3. ~(y < x)
      BY <2>1, <2>2, <1>1
    <2>4. QED
      BY <2>1, <2>3
  <1>5. QED
    BY <1>4

LEMMA InductionOnNat ==
  ASSUME NEW S, 0 \in S, \A n \in Nat : n \in S => n + 1 \in S
  PROVE  \A n \in Nat : n \in S
  <1> SUFFICES ASSUME Nat \ S # {} PROVE FALSE
    OBVIOUS
  <1>1. PICK x \in Nat \ S : \A y \in Nat \ S : x <= y
    BY LeastNatural
  <1>2. x # 0 /\ x - 1 \in Nat /\ x - 1 \in S
    BY <1>1
  <1>3. QED
    BY <1>1, <1>2

(* Every set of naturals with an upper bound has a greatest element.       *)
LEMMA GreatestNatural ==
  ASSUME NEW S \in SUBSET Nat, S # {}, NEW n \in Nat, \A x \in S : x <= n
  PROVE  \E x \in S : \A y \in S : y <= x
  <1> DEFINE T == {k \in Nat : \A x \in S : x <= k}
  <1>1. PICK k \in T : \A m \in T : k <= m
    <2>1. T # {} /\ T \in SUBSET Nat
      OBVIOUS
    <2>2. QED
      BY <2>1, LeastNatural
  <1>2. CASE k \in S
    BY <1>2
  <1>3. CASE k \notin S
    <2>1. \A x \in S : x <= k - 1 /\ k - 1 \in Nat
      BY <1>3
    <2>2. k - 1 \in T
      BY <2>1
    <2>3. QED
      BY <1>1, <2>2
  <1>4. QED
    BY <1>2, <1>3

(* Strong induction on the subsets of a finite set.                        *)
LEMMA InductionOnSubsets ==
  ASSUME NEW S, IsFiniteSet(S), NEW C,
         \A s \in SUBSET S :
           (\A x \in s : s \ {x} \in C) => s \in C
  PROVE  \A s \in SUBSET S : s \in C
  <1> DEFINE N == {n \in Nat : \A s \in SUBSET S : Cardinality(s) <= n => s \in C}
  <1>1. \A s \in SUBSET S : IsFiniteSet(s) /\ Cardinality(s) \in Nat
    BY FS_Subset, FS_CardinalityType
  <1>2. 0 \in N
    <2> SUFFICES ASSUME NEW s \in SUBSET S, Cardinality(s) <= 0 PROVE s \in C
      OBVIOUS
    <2>1. s = {}
      BY <1>1, FS_EmptySet
    <2>2. QED
      BY <2>1
  <1>3. ASSUME NEW n \in Nat, n \in N PROVE n + 1 \in N
    <2> SUFFICES ASSUME NEW s \in SUBSET S, Cardinality(s) <= n + 1 PROVE s \in C
      OBVIOUS
    <2>1. ASSUME NEW x \in s PROVE s \ {x} \in C
      <3>1. s \ {x} \in SUBSET S /\ Cardinality(s \ {x}) = Cardinality(s) - 1
        BY <1>1, FS_RemoveElement
      <3>2. QED
        BY <1>1, <1>3, <3>1
    <2>2. QED
      BY <2>1
  <1> HIDE DEF N
  <1>4. \A n \in Nat : n \in N
    BY <1>2, <1>3, InductionOnNat
  <1>5. QED
    BY <1>1, <1>4 DEF N

------------------------------------------------------------------------------
(* Sums. The recursion of the definition has a solution, and whichever      *)
(* element it takes out first the sum is the same.                         *)

Recurs(f, S, h) ==
  h = [s \in SUBSET S |-> IF s = {} THEN 0
                          ELSE LET x == CHOOSE y \in s : TRUE IN f[x] + h[s \ {x}]]

LEMMA SumRecurs ==
  ASSUME NEW f, NEW S
  PROVE  SumOver(f, S) = (CHOOSE h : Recurs(f, S, h))[S]
  <1> DEFINE H == CHOOSE g : g = [s \in SUBSET S |-> IF s = {} THEN 0
                          ELSE LET x == CHOOSE y \in s : TRUE IN f[x] + g[s \ {x}]]
  <1>1. SumOver(f, S) = H[S]
    BY DEF SumOver, MapThenSumSet, MapThenFoldSet
  <1>2. H = CHOOSE h : Recurs(f, S, h)
    BY DEF Recurs
  <1>3. QED
    BY <1>1, <1>2

LEMMA RecursionExists ==
  ASSUME NEW S, IsFiniteSet(S), NEW f, \A x \in S : f[x] \in Int
  PROVE  \E h : Recurs(f, S, h)
  <1> DEFINE Step(g, s) == IF s = {} THEN 0
                           ELSE f[CHOOSE y \in s : TRUE] + g[s \ {CHOOSE y \in s : TRUE}]
             Upto(g, n) == \A s \in SUBSET S : Cardinality(s) <= n => g[s] = Step(g, s)
             N == {n \in Nat : \E g \in [SUBSET S -> Int] : Upto(g, n)}
  <1>1. \A s \in SUBSET S : IsFiniteSet(s) /\ Cardinality(s) \in Nat
    BY FS_Subset, FS_CardinalityType
  <1>2. ASSUME NEW s \in SUBSET S, s # {}
        PROVE  /\ (CHOOSE y \in s : TRUE) \in s
               /\ (s \ {CHOOSE y \in s : TRUE}) \in SUBSET S
               /\ Cardinality(s \ {CHOOSE y \in s : TRUE}) = Cardinality(s) - 1
    <2>1. (CHOOSE y \in s : TRUE) \in s
      BY <1>2
    <2>2. QED
      BY <2>1, <1>1, FS_RemoveElement
  <1>3. ASSUME NEW g \in [SUBSET S -> Int], NEW s \in SUBSET S PROVE Step(g, s) \in Int
    <2>1. CASE s = {}
      BY <2>1
    <2>2. CASE s # {}
      <3>1. f[CHOOSE y \in s : TRUE] \in Int /\ g[s \ {CHOOSE y \in s : TRUE}] \in Int
        BY <1>2, <2>2
      <3>2. QED
        BY <3>1, <2>2
    <2>3. QED
      BY <2>1, <2>2
  <1>4. 0 \in N
    <2>1. [s \in SUBSET S |-> 0] \in [SUBSET S -> Int]
      OBVIOUS
    <2>2. \A s \in SUBSET S : Cardinality(s) <= 0 => s = {}
      BY <1>1, FS_EmptySet
    <2>3. Upto([s \in SUBSET S |-> 0], 0)
      BY <2>2
    <2>4. QED
      BY <2>1, <2>3
  <1>5. ASSUME NEW n \in Nat, n \in N PROVE n + 1 \in N
    <2>1. PICK g \in [SUBSET S -> Int] : Upto(g, n)
      BY <1>5
    <2> DEFINE h == [s \in SUBSET S |-> IF Cardinality(s) <= n THEN g[s] ELSE Step(g, s)]
    <2>2. h \in [SUBSET S -> Int]
      BY <1>3
    <2>3. ASSUME NEW s \in SUBSET S, Cardinality(s) <= n + 1 PROVE h[s] = Step(h, s)
      <3>1. Cardinality(s) \in Nat
        BY <1>1
      <3>2. h[s] = Step(g, s)
        BY <2>1
      <3>3. CASE s = {}
        BY <3>2, <3>3
      <3>4. CASE s # {}
        <4>1. h[s \ {CHOOSE y \in s : TRUE}] = g[s \ {CHOOSE y \in s : TRUE}]
          BY <1>2, <2>3, <3>1, <3>4
        <4> HIDE DEF h
        <4>2. QED
          BY <3>2, <3>4, <4>1
      <3>5. QED
        BY <3>3, <3>4
    <2> HIDE DEF h
    <2>4. Upto(h, n + 1)
      BY <2>3
    <2> HIDE DEF Upto
    <2>5. QED
      BY <2>2, <2>4
  <1> HIDE DEF N
  <1>6. \A n \in Nat : n \in N
    BY <1>4, <1>5, InductionOnNat
  <1>7. Cardinality(S) \in N
    BY <1>1, <1>6
  <1>8. PICK g \in [SUBSET S -> Int] : Upto(g, Cardinality(S))
    BY <1>7 DEF N
  <1>9. \A s \in SUBSET S : Cardinality(s) <= Cardinality(S)
    BY FS_Subset
  <1>10. \A s \in SUBSET S : g[s] = Step(g, s)
    BY <1>8, <1>9
  <1>11. g = [s \in SUBSET S |-> Step(g, s)]
    BY <1>10
  <1>12. Recurs(f, S, g)
    BY <1>11 DEF Recurs
  <1>13. QED
    BY <1>12

(* What a solution of the recursion gives.                                 *)
LEMMA RecursionSteps ==
  ASSUME NEW S, IsFiniteSet(S), NEW f, \A x \in S : f[x] \in Int, NEW h, Recurs(f, S, h)
  PROVE  /\ h[{}] = 0
         /\ \A s \in SUBSET S : h[s] \in Int
         /\ \A s \in SUBSET S : \A x \in s : h[s] = f[x] + h[s \ {x}]
  <1>1. h[{}] = 0
    BY DEF Recurs
  <1>2. ASSUME NEW s \in SUBSET S, s # {}
        PROVE  \E x \in s : h[s] = f[x] + h[s \ {x}]
    <2>1. (CHOOSE y \in s : TRUE) \in s
      BY <1>2
    <2>2. h[s] = f[CHOOSE y \in s : TRUE] + h[s \ {CHOOSE y \in s : TRUE}]
      BY <1>2 DEF Recurs
    <2>3. QED
      BY <2>1, <2>2
  <1> DEFINE C == {s \in SUBSET S : h[s] \in Int}
  <1>3. ASSUME NEW s \in SUBSET S, \A x \in s : s \ {x} \in C PROVE s \in C
    <2>1. CASE s = {}
      BY <1>1, <2>1
    <2>2. CASE s # {}
      <3>1. PICK x \in s : h[s] = f[x] + h[s \ {x}]
        BY <1>2, <2>2
      <3>2. h[s \ {x}] \in Int /\ f[x] \in Int
        BY <1>3
      <3>3. QED
        BY <3>1, <3>2
    <2>3. QED
      BY <2>1, <2>2
  <1>4. \A s \in SUBSET S : s \in C
    <2> HIDE DEF C
    <2> QED
      BY <1>3, InductionOnSubsets
  <1> DEFINE D == {s \in SUBSET S : \A x \in s : h[s] = f[x] + h[s \ {x}]}
  <1>5. ASSUME NEW s \in SUBSET S, \A x \in s : s \ {x} \in D PROVE s \in D
    <2> SUFFICES ASSUME NEW x \in s PROVE h[s] = f[x] + h[s \ {x}]
      OBVIOUS
    <2>1. PICK c \in s : h[s] = f[c] + h[s \ {c}]
      BY <1>2
    <2>2. CASE x = c
      BY <2>1, <2>2
    <2>3. CASE x # c
      <3>1. h[s \ {c}] = f[x] + h[(s \ {c}) \ {x}]
        BY <1>5, <2>3
      <3>2. h[s \ {x}] = f[c] + h[(s \ {x}) \ {c}]
        BY <1>5, <2>3
      <3>3. (s \ {c}) \ {x} = (s \ {x}) \ {c}
        OBVIOUS
      <3>4. h[(s \ {x}) \ {c}] \in Int /\ f[x] \in Int /\ f[c] \in Int
        BY <1>4
      <3>5. h[s] = f[c] + (f[x] + h[(s \ {x}) \ {c}])
        BY <2>1, <3>1, <3>3
      <3>6. f[c] + (f[x] + h[(s \ {x}) \ {c}]) = f[x] + (f[c] + h[(s \ {x}) \ {c}])
        BY <3>4
      <3>7. QED
        BY <3>2, <3>5, <3>6
    <2>4. QED
      BY <2>2, <2>3
  <1>6. \A s \in SUBSET S : s \in D
    <2> HIDE DEF D
    <2> QED
      BY <1>5, InductionOnSubsets
  <1>7. QED
    BY <1>1, <1>4, <1>6

LEMMA SumOfSubset ==
  ASSUME NEW S, IsFiniteSet(S), NEW f, \A x \in S : f[x] \in Int, NEW h, Recurs(f, S, h),
         NEW T \in SUBSET S
  PROVE  SumOver(f, T) = h[T]
  <1> DEFINE g == CHOOSE k : Recurs(f, T, k)
  <1>1. IsFiniteSet(T) /\ \A x \in T : f[x] \in Int
    BY FS_Subset
  <1>2. Recurs(f, T, g)
    BY <1>1, RecursionExists
  <1>3. SumOver(f, T) = g[T]
    BY SumRecurs
  <1> HIDE DEF g
  <1>4. /\ g[{}] = 0
        /\ \A s \in SUBSET T : \A x \in s : g[s] = f[x] + g[s \ {x}]
    BY <1>1, <1>2, RecursionSteps
  <1>5. /\ h[{}] = 0
        /\ \A s \in SUBSET S : \A x \in s : h[s] = f[x] + h[s \ {x}]
    BY RecursionSteps
  <1> DEFINE C == {s \in SUBSET T : g[s] = h[s]}
  <1>6. ASSUME NEW s \in SUBSET T, \A x \in s : s \ {x} \in C PROVE s \in C
    <2>1. CASE s = {}
      BY <1>4, <1>5, <2>1
    <2>2. CASE s # {}
      <3>1. PICK x \in s : TRUE
        BY <2>2
      <3>2. g[s] = f[x] + g[s \ {x}] /\ h[s] = f[x] + h[s \ {x}]
        BY <1>4, <1>5
      <3>3. QED
        BY <1>6, <3>1, <3>2
    <2>3. QED
      BY <2>1, <2>2
  <1>7. \A s \in SUBSET T : s \in C
    <2> HIDE DEF C
    <2> QED
      BY <1>1, <1>6, InductionOnSubsets
  <1>8. QED
    BY <1>3, <1>7

LEMMA SumLaws ==
  ASSUME NEW S, IsFiniteSet(S), NEW f, \A x \in S : f[x] \in Int
  PROVE  /\ SumOver(f, {}) = 0
         /\ SumOver(f, S) \in Int
         /\ \A x \in S : SumOver(f, S) = f[x] + SumOver(f, S \ {x})
  <1>1. PICK h : Recurs(f, S, h)
    BY RecursionExists
  <1>2. \A T \in SUBSET S : SumOver(f, T) = h[T]
    BY <1>1, SumOfSubset
  <1>3. /\ h[{}] = 0
        /\ h[S] \in Int
        /\ \A x \in S : h[S] = f[x] + h[S \ {x}]
    <2>1. h[{}] = 0
      BY <1>1, RecursionSteps
    <2>2. h[S] \in Int
      BY <1>1, RecursionSteps
    <2>3. ASSUME NEW x \in S PROVE h[S] = f[x] + h[S \ {x}]
      BY <1>1, RecursionSteps
    <2>4. QED
      BY <2>1, <2>2, <2>3
  <1>4. SumOver(f, {}) = h[{}] /\ SumOver(f, S) = h[S]
    BY <1>2
  <1>5. ASSUME NEW x \in S PROVE SumOver(f, S) = f[x] + SumOver(f, S \ {x})
    <2>1. SumOver(f, S \ {x}) = h[S \ {x}]
      BY <1>2
    <2>2. h[S] = f[x] + h[S \ {x}]
      BY <1>3
    <2>3. QED
      BY <1>4, <2>1, <2>2
  <1>6. QED
    BY <1>3, <1>4, <1>5

LEMMA SumInsert ==
  ASSUME NEW S, IsFiniteSet(S), NEW f, \A y \in S : f[y] \in Int, NEW x, x \notin S, f[x] \in Int
  PROVE  SumOver(f, S \cup {x}) = f[x] + SumOver(f, S)
  <1>1. IsFiniteSet(S \cup {x}) /\ \A y \in S \cup {x} : f[y] \in Int
    BY FS_AddElement
  <1>2. SumOver(f, S \cup {x}) = f[x] + SumOver(f, (S \cup {x}) \ {x})
    BY <1>1, SumLaws
  <1>3. (S \cup {x}) \ {x} = S
    OBVIOUS
  <1>4. QED
    BY <1>2, <1>3

(* One step of every induction below: a sum, and the same without x.       *)
LEMMA SumStep ==
  ASSUME NEW S, IsFiniteSet(S), NEW f, \A y \in S : f[y] \in Int, NEW s \in SUBSET S
  PROVE  /\ SumOver(f, s) \in Int
         /\ s = {} => SumOver(f, s) = 0
         /\ \A x \in s : SumOver(f, s) = f[x] + SumOver(f, s \ {x}) /\ SumOver(f, s \ {x}) \in Int
  <1>1. /\ IsFiniteSet(s)
        /\ \A y \in s : f[y] \in Int
    BY FS_Subset
  <1>2. SumOver(f, {}) = 0 /\ SumOver(f, s) \in Int
    BY <1>1, SumLaws
  <1>3. ASSUME NEW x \in s PROVE SumOver(f, s) = f[x] + SumOver(f, s \ {x})
    BY <1>1, SumLaws
  <1>4. ASSUME NEW x \in s PROVE SumOver(f, s \ {x}) \in Int
    <2>1. IsFiniteSet(s \ {x}) /\ \A y \in s \ {x} : f[y] \in Int
      BY <1>1, FS_Subset
    <2>2. QED
      BY <2>1, SumLaws
  <1>5. QED
    BY <1>2, <1>3, <1>4

LEMMA SumCongruent ==
  ASSUME NEW S, IsFiniteSet(S), NEW f, \A x \in S : f[x] \in Int,
         NEW g, \A x \in S : g[x] = f[x]
  PROVE  SumOver(g, S) = SumOver(f, S)
  <1>1. \A x \in S : g[x] \in Int
    OBVIOUS
  <1> DEFINE C == {s \in SUBSET S : SumOver(g, s) = SumOver(f, s)}
  <1>2. ASSUME NEW s \in SUBSET S, \A x \in s : s \ {x} \in C PROVE s \in C
    <2>1. CASE s = {}
      BY <1>1, <2>1, SumStep
    <2>2. CASE s # {}
      <3>1. PICK x \in s : TRUE
        BY <2>2
      <3>2. SumOver(g, s) = g[x] + SumOver(g, s \ {x})
        BY <1>1, SumStep
      <3>3. SumOver(f, s) = f[x] + SumOver(f, s \ {x})
        BY SumStep
      <3>4. SumOver(g, s \ {x}) = SumOver(f, s \ {x}) /\ g[x] = f[x]
        BY <1>2
      <3>5. QED
        BY <3>2, <3>3, <3>4
    <2>3. QED
      BY <2>1, <2>2
  <1> HIDE DEF C
  <1>3. \A s \in SUBSET S : s \in C
    BY <1>2, InductionOnSubsets
  <1>4. QED
    BY <1>3 DEF C

LEMMA SumScaled ==
  ASSUME NEW S, IsFiniteSet(S), NEW f, \A x \in S : f[x] \in Int, NEW c \in Int,
         NEW g, \A x \in S : g[x] = c * f[x]
  PROVE  SumOver(g, S) = c * SumOver(f, S)
  <1>1. \A x \in S : g[x] \in Int
    OBVIOUS
  <1> DEFINE C == {s \in SUBSET S : SumOver(g, s) = c * SumOver(f, s)}
  <1>2. ASSUME NEW s \in SUBSET S, \A x \in s : s \ {x} \in C PROVE s \in C
    <2>1. CASE s = {}
      BY <1>1, <2>1, SumStep
    <2>2. CASE s # {}
      <3>1. PICK x \in s : TRUE
        BY <2>2
      <3>2. SumOver(g, s) = g[x] + SumOver(g, s \ {x})
        BY <1>1, SumStep
      <3>3. SumOver(f, s) = f[x] + SumOver(f, s \ {x}) /\ SumOver(f, s \ {x}) \in Int
        BY SumStep
      <3>4. SumOver(g, s \ {x}) = c * SumOver(f, s \ {x}) /\ g[x] = c * f[x] /\ f[x] \in Int
        BY <1>2
      <3>5. c * (f[x] + SumOver(f, s \ {x})) = c * f[x] + c * SumOver(f, s \ {x})
        BY <3>3, <3>4
      <3>6. QED
        BY <3>2, <3>3, <3>4, <3>5
    <2>3. QED
      BY <2>1, <2>2
  <1> HIDE DEF C
  <1>3. \A s \in SUBSET S : s \in C
    BY <1>2, InductionOnSubsets
  <1>4. QED
    BY <1>3 DEF C

LEMMA SumUnion ==
  ASSUME NEW S, IsFiniteSet(S), NEW T, IsFiniteSet(T), S \cap T = {},
         NEW f, \A x \in S \cup T : f[x] \in Int
  PROVE  SumOver(f, S \cup T) = SumOver(f, S) + SumOver(f, T)
  <1>1. IsFiniteSet(S \cup T)
    BY FS_Union
  <1> DEFINE C == {s \in SUBSET S : SumOver(f, s \cup T) = SumOver(f, s) + SumOver(f, T)}
  <1>2. ASSUME NEW s \in SUBSET S, \A x \in s : s \ {x} \in C PROVE s \in C
    <2>1. CASE s = {}
      <3>1. s \cup T = T
        BY <2>1
      <3>2. SumOver(f, s) = 0 /\ SumOver(f, T) \in Int
        BY <2>1, SumStep
      <3>3. SumOver(f, s \cup T) = SumOver(f, T)
        BY <3>1
      <3>4. QED
        BY <3>2, <3>3
    <2>2. CASE s # {}
      <3>1. PICK x \in s : TRUE
        BY <2>2
      <3>2. s \cup T \in SUBSET (S \cup T) /\ x \in s \cup T
        OBVIOUS
      <3>3. SumOver(f, s \cup T) = f[x] + SumOver(f, (s \cup T) \ {x})
        BY <1>1, <3>2, SumStep
      <3>4. SumOver(f, (s \cup T) \ {x}) = SumOver(f, (s \ {x}) \cup T)
        <4>1. (s \cup T) \ {x} = (s \ {x}) \cup T
          OBVIOUS
        <4>2. QED
          BY <4>1
      <3>5. SumOver(f, s) = f[x] + SumOver(f, s \ {x}) /\ SumOver(f, s \ {x}) \in Int
        BY SumStep
      <3>6. SumOver(f, T) \in Int
        BY SumStep
      <3>7. SumOver(f, (s \ {x}) \cup T) = SumOver(f, s \ {x}) + SumOver(f, T) /\ f[x] \in Int
        BY <1>2
      <3>8. QED
        BY <3>3, <3>4, <3>5, <3>6, <3>7
    <2>3. QED
      BY <2>1, <2>2
  <1> HIDE DEF C
  <1>3. \A s \in SUBSET S : s \in C
    BY <1>2, InductionOnSubsets
  <1>4. QED
    BY <1>3 DEF C

LEMMA SumOfZeros ==
  ASSUME NEW S, IsFiniteSet(S), NEW f, \A x \in S : f[x] = 0
  PROVE  SumOver(f, S) = 0
  <1> DEFINE g == [x \in S |-> 0]
  <1>1. SumOver(f, S) = 0 * SumOver(g, S)
    BY SumScaled
  <1>2. SumOver(g, S) \in Int
    BY SumStep
  <1>3. QED
    BY <1>1, <1>2

(* The terms that are zero can be left out.                                *)
LEMMA SumSupport ==
  ASSUME NEW S, IsFiniteSet(S), NEW f, \A x \in S : f[x] \in Int,
         NEW T \in SUBSET S, \A x \in S \ T : f[x] = 0
  PROVE  SumOver(f, S) = SumOver(f, T)
  <1>1. IsFiniteSet(T) /\ IsFiniteSet(S \ T) /\ T \cap (S \ T) = {} /\ T \cup (S \ T) = S
    BY FS_Subset
  <1>2. SumOver(f, S) = SumOver(f, T) + SumOver(f, S \ T)
    <2>1. SumOver(f, T \cup (S \ T)) = SumOver(f, T) + SumOver(f, S \ T)
      BY <1>1, SumUnion
    <2>2. SumOver(f, T \cup (S \ T)) = SumOver(f, S)
      BY <1>1
    <2>3. QED
      BY <2>1, <2>2
  <1>3. SumOver(f, S \ T) = 0
    BY <1>1, SumOfZeros
  <1>4. SumOver(f, T) \in Int
    BY SumStep
  <1>5. QED
    BY <1>1, <1>2, <1>3, <1>4

LEMMA SumOfNaturals ==
  ASSUME NEW S, IsFiniteSet(S), NEW f, \A x \in S : f[x] \in Nat
  PROVE  /\ SumOver(f, S) \in Nat
         /\ \A x \in S : f[x] <= SumOver(f, S)
         /\ \A T \in SUBSET S : SumOver(f, T) \in Nat /\ SumOver(f, T) <= SumOver(f, S)
  <1>1. \A x \in S : f[x] \in Int
    OBVIOUS
  <1> DEFINE C == {s \in SUBSET S : SumOver(f, s) \in Nat}
  <1>2. ASSUME NEW s \in SUBSET S, \A x \in s : s \ {x} \in C PROVE s \in C
    <2>1. CASE s = {}
      BY <1>1, <2>1, SumStep
    <2>2. CASE s # {}
      <3>1. PICK x \in s : TRUE
        BY <2>2
      <3>2. SumOver(f, s) = f[x] + SumOver(f, s \ {x})
        BY <1>1, SumStep
      <3>3. SumOver(f, s \ {x}) \in Nat /\ f[x] \in Nat
        BY <1>2
      <3>4. QED
        BY <3>2, <3>3
    <2>3. QED
      BY <2>1, <2>2
  <1> HIDE DEF C
  <1>3. \A s \in SUBSET S : s \in C
    BY <1>2, InductionOnSubsets
  <1>4. \A s \in SUBSET S : SumOver(f, s) \in Nat
    BY <1>3 DEF C
  <1>5. ASSUME NEW x \in S PROVE f[x] <= SumOver(f, S)
    <2>1. SumOver(f, S) = f[x] + SumOver(f, S \ {x})
      BY <1>1, SumStep
    <2>2. SumOver(f, S \ {x}) \in Nat
      BY <1>4
    <2>3. QED
      BY <2>1, <2>2
  <1>6. ASSUME NEW T \in SUBSET S PROVE SumOver(f, T) <= SumOver(f, S)
    <2>1. IsFiniteSet(T) /\ IsFiniteSet(S \ T) /\ T \cap (S \ T) = {} /\ T \cup (S \ T) = S
      BY FS_Subset
    <2>2. SumOver(f, S) = SumOver(f, T) + SumOver(f, S \ T)
      <3>1. SumOver(f, T \cup (S \ T)) = SumOver(f, T) + SumOver(f, S \ T)
        BY <1>1, <2>1, SumUnion
      <3>2. SumOver(f, T \cup (S \ T)) = SumOver(f, S)
        BY <2>1
      <3>3. QED
        BY <3>1, <3>2
    <2>3. SumOver(f, T) \in Nat /\ SumOver(f, S \ T) \in Nat
      BY <1>4
    <2>4. QED
      BY <2>2, <2>3
  <1>7. QED
    BY <1>4, <1>5, <1>6

(* The terms under other names: m renames every index, no two alike.       *)
LEMMA SumRenamed ==
  ASSUME NEW S, IsFiniteSet(S), NEW f, \A x \in S : f[x] \in Int,
         NEW T, NEW m \in [S -> T], \A x, y \in S : m[x] = m[y] => x = y,
         \A y \in T : \E x \in S : m[x] = y,
         NEW g, \A x \in S : g[m[x]] = f[x]
  PROVE  SumOver(g, T) = SumOver(f, S)
  <1> DEFINE Image(s) == {m[x] : x \in s}
             C == {s \in SUBSET S : SumOver(g, Image(s)) = SumOver(f, s)}
  <1>1. IsFiniteSet(Image(S)) /\ \A z \in Image(S) : g[z] \in Int
    <2> DEFINE n == [x \in S |-> m[x]]
    <2>1. n \in Surjection(S, Image(S))
      BY DEF Surjection
    <2> HIDE DEF n
    <2>2. IsFiniteSet(Image(S))
      BY <2>1, FS_Surjection
    <2>3. QED
      BY <2>2
  <1>2. ASSUME NEW s \in SUBSET S, \A x \in s : s \ {x} \in C PROVE s \in C
    <2>1. CASE s = {}
      <3>1. Image(s) = {}
        BY <2>1
      <3>2. SumOver(g, Image(s)) = 0
        <4>1. SumOver(g, {}) = 0
          BY FS_EmptySet, SumLaws
        <4>2. QED
          BY <3>1, <4>1
      <3>3. QED
        BY <2>1, <3>2, SumStep
    <2>2. CASE s # {}
      <3>1. PICK x \in s : TRUE
        BY <2>2
      <3>2. Image(s) \in SUBSET Image(S) /\ m[x] \in Image(s)
        OBVIOUS
      <3>3. SumOver(g, Image(s)) = g[m[x]] + SumOver(g, Image(s) \ {m[x]})
        BY <1>1, <3>2, SumStep
      <3>4. Image(s) \ {m[x]} = Image(s \ {x})
        OBVIOUS
      <3>5. SumOver(f, s) = f[x] + SumOver(f, s \ {x})
        BY SumStep
      <3>6. SumOver(g, Image(s \ {x})) = SumOver(f, s \ {x}) /\ g[m[x]] = f[x]
        BY <1>2
      <3>7. QED
        BY <3>3, <3>4, <3>5, <3>6
    <2>3. QED
      BY <2>1, <2>2
  <1> HIDE DEF C
  <1>3. \A s \in SUBSET S : s \in C
    BY <1>2, InductionOnSubsets
  <1>4. T = Image(S)
    OBVIOUS
  <1>5. QED
    BY <1>3, <1>4 DEF C

------------------------------------------------------------------------------
(* Powers. A solution up to every exponent, all of which agree.            *)

PowerUpto(b, g, n) == \A k \in 0..n : g[k] = IF k = 0 THEN 1 ELSE b * g[k - 1]

LEMMA PowerUptoExists ==
  ASSUME NEW b \in Int
  PROVE  \A n \in Nat : \E g \in [Nat -> Int] : PowerUpto(b, g, n)
  <1> DEFINE N == {n \in Nat : \E g \in [Nat -> Int] : PowerUpto(b, g, n)}
  <1>1. 0 \in N
    <2>1. [k \in Nat |-> 1] \in [Nat -> Int] /\ PowerUpto(b, [k \in Nat |-> 1], 0)
      BY DEF PowerUpto
    <2>2. QED
      BY <2>1
  <1>2. ASSUME NEW n \in Nat, n \in N PROVE n + 1 \in N
    <2>1. PICK g \in [Nat -> Int] : PowerUpto(b, g, n)
      BY <1>2
    <2> DEFINE h == [g EXCEPT ![n + 1] = b * g[n]]
    <2>2. h \in [Nat -> Int]
      OBVIOUS
    <2>3. ASSUME NEW k \in 0..(n + 1) PROVE h[k] = IF k = 0 THEN 1 ELSE b * h[k - 1]
      BY <2>1 DEF PowerUpto
    <2> HIDE DEF h
    <2>4. PowerUpto(b, h, n + 1)
      BY <2>3 DEF PowerUpto
    <2>5. QED
      BY <2>2, <2>4
  <1> HIDE DEF N
  <1>3. \A n \in Nat : n \in N
    BY <1>1, <1>2, InductionOnNat
  <1>4. QED
    BY <1>3 DEF N

LEMMA PowerUptoUnique ==
  ASSUME NEW b \in Int, NEW g \in [Nat -> Int], NEW m \in Nat, PowerUpto(b, g, m),
         NEW h \in [Nat -> Int], NEW n \in Nat, PowerUpto(b, h, n)
  PROVE  \A k \in Nat : k <= m /\ k <= n => g[k] = h[k]
  <1> DEFINE N == {k \in Nat : k <= m /\ k <= n => g[k] = h[k]}
  <1>1. 0 \in N
    BY DEF PowerUpto
  <1>2. ASSUME NEW k \in Nat, k \in N PROVE k + 1 \in N
    <2> SUFFICES ASSUME k + 1 <= m, k + 1 <= n PROVE g[k + 1] = h[k + 1]
      OBVIOUS
    <2>1. g[k] = h[k]
      BY <1>2
    <2>2. k + 1 \in 0..m /\ k + 1 \in 0..n /\ (k + 1) - 1 = k /\ k + 1 # 0
      OBVIOUS
    <2>3. g[k + 1] = b * g[k] /\ h[k + 1] = b * h[k]
      BY <2>2 DEF PowerUpto
    <2>4. QED
      BY <2>1, <2>3
  <1> HIDE DEF N
  <1>3. \A k \in Nat : k \in N
    BY <1>1, <1>2, InductionOnNat
  <1>4. QED
    BY <1>3 DEF N

LEMMA PowerRecurs ==
  ASSUME NEW b \in Int
  PROVE  \E p \in [Nat -> Int] : p = [k \in Nat |-> IF k = 0 THEN 1 ELSE b * p[k - 1]]
  <1> DEFINE G(n) == CHOOSE g \in [Nat -> Int] : PowerUpto(b, g, n)
             p == [n \in Nat |-> G(n)[n]]
  <1>1. \A n \in Nat : G(n) \in [Nat -> Int] /\ PowerUpto(b, G(n), n)
    BY PowerUptoExists
  <1> HIDE DEF G
  <1>2. p \in [Nat -> Int]
    BY <1>1
  <1>3. ASSUME NEW k \in Nat PROVE p[k] = IF k = 0 THEN 1 ELSE b * p[k - 1]
    <2>1. CASE k = 0
      BY <1>1, <2>1 DEF PowerUpto
    <2>2. CASE k # 0
      <3>1. k - 1 \in Nat /\ k \in 0..k /\ k - 1 <= k /\ k - 1 <= k - 1
        BY <2>2
      <3>2. G(k)[k] = b * G(k)[k - 1]
        BY <1>1, <2>2, <3>1 DEF PowerUpto
      <3>3. G(k)[k - 1] = G(k - 1)[k - 1]
        BY <1>1, <3>1, PowerUptoUnique
      <3>4. p[k] = G(k)[k] /\ p[k - 1] = G(k - 1)[k - 1]
        BY <3>1
      <3>5. QED
        BY <2>2, <3>2, <3>3, <3>4
    <2>3. QED
      BY <2>1, <2>2
  <1> HIDE DEF p
  <1>4. p = [k \in Nat |-> IF k = 0 THEN 1 ELSE b * p[k - 1]]
    BY <1>2, <1>3
  <1>5. QED
    BY <1>2, <1>4

LEMMA PowerLaws ==
  ASSUME NEW b \in Int
  PROVE  /\ Power(b, 0) = 1
         /\ \A n \in Nat : Power(b, n) \in Int /\ Power(b, n + 1) = b * Power(b, n)
  <1> DEFINE h == CHOOSE p : p = [k \in Nat |-> IF k = 0 THEN 1 ELSE b * p[k - 1]]
             Solves(p) == p = [k \in Nat |-> IF k = 0 THEN 1 ELSE b * p[k - 1]]
  <1>1. \A n : Power(b, n) = h[n]
    BY DEF Power
  <1>2. Solves(h)
    BY PowerRecurs
  <1> HIDE DEF h
  <1>3. h[0] = 1
    BY <1>2
  <1>4. ASSUME NEW n \in Nat PROVE h[n + 1] = b * h[n]
    <2>1. n + 1 \in Nat /\ n + 1 # 0 /\ (n + 1) - 1 = n
      OBVIOUS
    <2>2. h[n + 1] = IF n + 1 = 0 THEN 1 ELSE b * h[(n + 1) - 1]
      BY <1>2, <2>1
    <2>3. QED
      BY <2>1, <2>2
  <1> DEFINE N == {n \in Nat : h[n] \in Int}
  <1>5. 0 \in N /\ \A n \in Nat : n \in N => n + 1 \in N
    BY <1>3, <1>4
  <1> HIDE DEF N
  <1>6. \A n \in Nat : n \in N
    BY <1>5, InductionOnNat
  <1>7. QED
    BY <1>1, <1>3, <1>4, <1>6 DEF N

LEMMA PowerNext ==
  ASSUME NEW b \in Int, NEW n \in Nat
  PROVE  Power(b, n) \in Int /\ Power(b, n + 1) = b * Power(b, n)
  BY PowerLaws

LEMMA PowerOne ==
  ASSUME NEW b \in Int
  PROVE  Power(b, 0) = 1 /\ Power(b, 1) = b
  <1>1. Power(b, 0) = 1
    BY PowerLaws
  <1>2. Power(b, 0 + 1) = b * Power(b, 0)
    BY PowerNext
  <1>3. Power(b, 0 + 1) = Power(b, 1)
    OBVIOUS
  <1>4. QED
    BY <1>1, <1>2, <1>3

LEMMA PowerNatural ==
  ASSUME NEW b \in Nat
  PROVE  \A n \in Nat : Power(b, n) \in Nat /\ (b > 0 => Power(b, n) > 0)
  <1> DEFINE N == {n \in Nat : Power(b, n) \in Nat /\ (b > 0 => Power(b, n) > 0)}
  <1>1. Power(b, 0) = 1 /\ \A n \in Nat : Power(b, n + 1) = b * Power(b, n)
    BY PowerLaws
  <1>2. \A x, y \in Nat : x * y \in Nat /\ (x > 0 /\ y > 0 => x * y > 0)
    OBVIOUS
  <1>3. 0 \in N
    BY <1>1
  <1>4. ASSUME NEW n \in Nat, n \in N PROVE n + 1 \in N
    <2>1. Power(b, n) \in Nat /\ (b > 0 => Power(b, n) > 0)
      BY <1>4
    <2>2. b * Power(b, n) \in Nat /\ (b > 0 => b * Power(b, n) > 0)
      BY <1>2, <2>1
    <2>3. QED
      BY <1>1, <2>2
  <1> HIDE DEF N
  <1>5. \A n \in Nat : n \in N
    BY <1>3, <1>4, InductionOnNat
  <1>6. QED
    BY <1>5 DEF N

LEMMA PowerOfSum ==
  ASSUME NEW b \in Int, NEW m \in Nat
  PROVE  \A n \in Nat : Power(b, m + n) = Power(b, m) * Power(b, n)
  <1> DEFINE N == {n \in Nat : Power(b, m + n) = Power(b, m) * Power(b, n)}
  <1>1. Power(b, 0) = 1 /\ \A n \in Nat : Power(b, n) \in Int /\ Power(b, n + 1) = b * Power(b, n)
    BY PowerLaws
  <1>2. \A x, y, z \in Int : x * (y * z) = y * (x * z)
    OBVIOUS
  <1>3. 0 \in N
    BY <1>1
  <1>4. ASSUME NEW n \in Nat, n \in N PROVE n + 1 \in N
    <2>1. Power(b, m + n) = Power(b, m) * Power(b, n)
      BY <1>4
    <2>2. m + n \in Nat /\ m + (n + 1) = (m + n) + 1
      OBVIOUS
    <2>3. Power(b, m + (n + 1)) = b * Power(b, m + n)
      BY <1>1, <2>2
    <2>4. Power(b, n + 1) = b * Power(b, n)
      BY <1>1
    <2>5. b * (Power(b, m) * Power(b, n)) = Power(b, m) * (b * Power(b, n))
      BY <1>1, <1>2
    <2>6. QED
      BY <2>1, <2>3, <2>4, <2>5
  <1> HIDE DEF N
  <1>5. \A n \in Nat : n \in N
    BY <1>3, <1>4, InductionOnNat
  <1>6. QED
    BY <1>5 DEF N

LEMMA PowerOfProduct ==
  ASSUME NEW a \in Int, NEW b \in Int
  PROVE  \A n \in Nat : Power(a * b, n) = Power(a, n) * Power(b, n)
  <1> DEFINE N == {n \in Nat : Power(a * b, n) = Power(a, n) * Power(b, n)}
  <1>1. Power(a, 0) = 1 /\ \A n \in Nat : Power(a, n) \in Int /\ Power(a, n + 1) = a * Power(a, n)
    BY PowerLaws
  <1>2. Power(b, 0) = 1 /\ \A n \in Nat : Power(b, n) \in Int /\ Power(b, n + 1) = b * Power(b, n)
    BY PowerLaws
  <1>3. Power(a * b, 0) = 1 /\ \A n \in Nat : Power(a * b, n + 1) = (a * b) * Power(a * b, n)
    <2>1. a * b \in Int
      OBVIOUS
    <2>2. QED
      BY <2>1, PowerLaws
  <1>4. \A x, y, z, w \in Int : (x * y) * (z * w) = (x * z) * (y * w)
    OBVIOUS
  <1>5. 0 \in N
    BY <1>1, <1>2, <1>3
  <1>6. ASSUME NEW n \in Nat, n \in N PROVE n + 1 \in N
    <2>1. Power(a * b, n) = Power(a, n) * Power(b, n)
      BY <1>6
    <2>2. Power(a * b, n + 1) = (a * b) * (Power(a, n) * Power(b, n))
      BY <1>3, <2>1
    <2>3. (a * b) * (Power(a, n) * Power(b, n)) = (a * Power(a, n)) * (b * Power(b, n))
      BY <1>1, <1>2, <1>4
    <2>4. QED
      BY <1>1, <1>2, <2>2, <2>3
  <1> HIDE DEF N
  <1>7. \A n \in Nat : n \in N
    BY <1>5, <1>6, InductionOnNat
  <1>8. QED
    BY <1>7 DEF N

LEMMA ProductMonotone ==
  \A a, b, c, d \in Nat : a <= b /\ c <= d => a * c <= b * d
  <1> SUFFICES ASSUME NEW a \in Nat, NEW b \in Nat, NEW c \in Nat, NEW d \in Nat,
                      a <= b, c <= d
               PROVE  a * c <= b * d
    OBVIOUS
  <1>1. (b - a) \in Nat /\ (d - c) \in Nat
    OBVIOUS
  <1>2. \A x, y \in Nat : x * y \in Nat
    OBVIOUS
  <1>3. (b - a) * c \in Nat /\ b * (d - c) \in Nat
    BY <1>1, <1>2
  <1>4. b * d - a * c = (b - a) * c + b * (d - c)
    OBVIOUS
  <1>5. a * c \in Int /\ b * d \in Int
    OBVIOUS
  <1>6. QED
    BY <1>3, <1>4, <1>5

LEMMA PowerMonotone ==
  ASSUME NEW a \in Nat, NEW b \in Nat, a <= b
  PROVE  \A n \in Nat : Power(a, n) <= Power(b, n)
  <1> DEFINE N == {n \in Nat : Power(a, n) <= Power(b, n)}
  <1>1. Power(a, 0) = 1 /\ \A n \in Nat : Power(a, n) \in Nat /\ Power(a, n + 1) = a * Power(a, n)
    BY PowerLaws, PowerNatural
  <1>2. Power(b, 0) = 1 /\ \A n \in Nat : Power(b, n) \in Nat /\ Power(b, n + 1) = b * Power(b, n)
    BY PowerLaws, PowerNatural
  <1>3. 0 \in N
    BY <1>1, <1>2
  <1>4. ASSUME NEW n \in Nat, n \in N PROVE n + 1 \in N
    <2>1. Power(a, n) <= Power(b, n)
      BY <1>4
    <2>2. a * Power(a, n) <= b * Power(b, n)
      BY <1>1, <1>2, <2>1, ProductMonotone
    <2>3. QED
      BY <1>1, <1>2, <2>2
  <1> HIDE DEF N
  <1>5. \A n \in Nat : n \in N
    BY <1>3, <1>4, InductionOnNat
  <1>6. QED
    BY <1>5 DEF N

(* A positive factor can be cancelled.                                     *)
LEMMA CancelFactor ==
  \A x, y, c \in Int : c > 0 /\ x * c <= y * c => x <= y
  <1> SUFFICES ASSUME NEW x \in Int, NEW y \in Int, NEW c \in Int, c > 0, x > y
               PROVE  ~(x * c <= y * c)
    OBVIOUS
  <1>1. (x - y) \in Nat /\ x - y > 0 /\ c \in Nat
    OBVIOUS
  <1>2. \A u, v \in Nat : u > 0 /\ v > 0 => u * v > 0
    OBVIOUS
  <1>3. (x - y) * c > 0
    BY <1>1, <1>2
  <1>4. (x - y) * c = x * c - y * c
    OBVIOUS
  <1>5. x * c \in Int /\ y * c \in Int
    OBVIOUS
  <1>6. QED
    BY <1>3, <1>4, <1>5

LEMMA CancelEqualFactor ==
  \A x, y, c \in Int : c # 0 /\ x * c = y * c => x = y
  <1> SUFFICES ASSUME NEW x \in Int, NEW y \in Int, NEW c \in Int, c # 0, x * c = y * c
               PROVE  x = y
    OBVIOUS
  <1>1. (x - y) * c = x * c - y * c
    OBVIOUS
  <1>2. x * c \in Int /\ y * c \in Int /\ x - y \in Int
    OBVIOUS
  <1>3. (x - y) * c = 0
    BY <1>1, <1>2
  <1>4. \A u, v \in Int : u * v = 0 => u = 0 \/ v = 0
    OBVIOUS
  <1>5. x - y = 0
    BY <1>2, <1>3, <1>4
  <1>6. QED
    BY <1>5
==============================================================================
