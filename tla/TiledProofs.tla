----------------------------- MODULE TiledProofs ------------------------------
(***************************************************************************)
(* A launch of the kernel, and the packed batches around it, for every     *)
(* batch, mask, table of scores and tile shape: the rows written are the   *)
(* reference's, no lane is ever undefined, every row is written, and once. *)
(***************************************************************************)
EXTENDS PackedBatch, ArithmeticProofs

------------------------------------------------------------------------------
(* Integers and greatest elements.                                         *)

LEMMA DivisionLaws ==
  \A a \in Int, b \in Nat \ {0} :
    /\ a \div b \in Int /\ b * (a \div b) <= a /\ a < b * (a \div b) + b
    /\ (a * b) \div b = a
  OBVIOUS

LEMMA BoundedHasMax ==
  ASSUME NEW S \in SUBSET Int, S # {}, NEW n \in Nat, \A x \in S : -n <= x /\ x <= n
  PROVE  Max(S) \in S /\ \A x \in S : x <= Max(S)
  <1> DEFINE T == {x + n : x \in S}
  <1>1. T \in SUBSET Nat /\ T # {}
    <2>1. \A x \in S : x + n \in Nat
      OBVIOUS
    <2>2. QED
      BY <2>1
  <1>2. \A x \in T : x <= 2 * n
    <2>1. \A x \in S : x + n <= 2 * n
      OBVIOUS
    <2>2. QED
      BY <2>1
  <1>3. PICK m \in T : \A y \in T : y <= m
    <2>1. 2 * n \in Nat
      OBVIOUS
    <2> HIDE DEF T
    <2>2. QED
      BY <1>1, <1>2, <2>1, GreatestNatural
  <1>4. PICK x \in S : m = x + n
    OBVIOUS
  <1>5. \A y \in S : x >= y
    <2> TAKE y \in S
    <2>1. y + n <= x + n
      BY <1>3, <1>4
    <2>2. QED
      BY <2>1
  <1>6. Max(S) \in S /\ \A y \in S : Max(S) >= y
    BY <1>5 DEF Max
  <1>7. QED
    BY <1>6

LEMMA FiniteHasBound ==
  ASSUME NEW S \in SUBSET Int, IsFiniteSet(S)
  PROVE  \E n \in Nat : \A x \in S : -n <= x /\ x <= n
  <1> DEFINE Bounded(s) == \E n \in Nat : \A x \in s : -n <= x /\ x <= n
             C == {s \in SUBSET S : Bounded(s)}
  <1>1. ASSUME NEW s \in SUBSET S, \A x \in s : s \ {x} \in C PROVE s \in C
    <2>1. CASE s = {}
      BY <2>1
    <2>2. CASE s # {}
      <3>1. PICK x \in s : TRUE
        BY <2>2
      <3>2. PICK n \in Nat : \A y \in s \ {x} : -n <= y /\ y <= n
        BY <1>1
      <3> DEFINE a == IF x < 0 THEN -x ELSE x
      <3>3. a \in Nat /\ -a <= x /\ x <= a
        OBVIOUS
      <3> HIDE DEF a
      <3>4. n + a \in Nat /\ \A y \in s : -(n + a) <= y /\ y <= n + a
        BY <3>2, <3>3
      <3>5. QED
        BY <3>4
    <2>3. QED
      BY <2>1, <2>2
  <1> HIDE DEF C
  <1>2. \A s \in SUBSET S : s \in C
    BY <1>1, InductionOnSubsets
  <1>3. QED
    BY <1>2 DEF C

LEMMA FiniteHasMax ==
  ASSUME NEW S \in SUBSET Int, IsFiniteSet(S), S # {}
  PROVE  Max(S) \in S /\ \A x \in S : x <= Max(S)
  BY FiniteHasBound, BoundedHasMax

LEMMA RangeIsFinite ==
  ASSUME NEW a \in Int, NEW b \in Int
  PROVE  IsFiniteSet(a..b)
  BY FS_Interval

(* A running sum.                                                          *)
LEMMA SumUpTo ==
  ASSUME NEW n \in Nat, NEW f, \A x \in 1..n : f[x] \in Int, NEW s \in 1..n
  PROVE  SumOver(f, 1..s) = f[s] + SumOver(f, 1..(s - 1))
  <1>1. IsFiniteSet(1..(s - 1)) /\ s \notin 1..(s - 1) /\ \A y \in 1..(s - 1) : f[y] \in Int
    BY RangeIsFinite
  <1>2. SumOver(f, (1..(s - 1)) \cup {s}) = f[s] + SumOver(f, 1..(s - 1))
    <2> DEFINE S == 1..(s - 1)
    <2>1. f[s] \in Int /\ IsFiniteSet(S) /\ s \notin S /\ \A y \in S : f[y] \in Int
      BY <1>1
    <2> HIDE DEF S
    <2>2. SumOver(f, S \cup {s}) = f[s] + SumOver(f, S)
      BY ONLY <2>1, SumInsert
    <2>3. QED
      BY <2>2 DEF S
  <1>3. (1..(s - 1)) \cup {s} = 1..s
    OBVIOUS
  <1>4. QED
    BY <1>2, <1>3

(* One tile holds all keys when the regime fits in it.                     *)
LEMMA RegimeFits ==
  ASSUME NEW n \in Int, NEW w \in Nat, w < Max(Regimes),
         (IF {r \in Regimes : n <= r} = {} THEN Max(Regimes)
          ELSE Min({r \in Regimes : n <= r})) <= w
  PROVE  n <= w
  <1> DEFINE F == {r \in Regimes : n <= r}
  <1>1. Regimes \in SUBSET Int /\ Max(Regimes) \in Regimes /\ Regimes \in SUBSET Nat
    BY RegimeAssumption, FiniteHasMax
  <1>2. Max(Regimes) \in Int
    BY <1>1
  <1>3. F # {}
    BY <1>2
  <1>4. \E x \in F : \A y \in F : x <= y
    <2>1. F \in SUBSET Nat
      BY <1>1
    <2> HIDE DEF F
    <2>2. QED
      BY <1>3, <2>1, LeastNatural
  <1>5. Min(F) \in F
    BY <1>4 DEF Min
  <1>6. Min(F) \in Int /\ n <= Min(F) /\ Min(F) <= w
    BY <1>1, <1>3, <1>5
  <1>7. QED
    BY <1>6

------------------------------------------------------------------------------
(* The layout: sequences lie one after the other in the buffer.            *)

Fits(l) ==
  /\ l.layout \in Layouts
  /\ l.lengths \in Seq(Nat \ {0})
  /\ l.maxSeqlen \in Int
  /\ l.blockM \in Nat \ {0}
  /\ l.blockN \in Nat \ {0}
  /\ RowsOf(l) <= MaxTokens
  /\ l.layout # "packed" => \A s \in DOMAIN l.lengths : l.lengths[s] = l.maxSeqlen
  /\ l.lengths # <<>> => l.blockN < Max(Regimes)

LaunchOK == Fits(launch)

LEMMA BatchFacts ==
  ASSUME LaunchOK
  PROVE  /\ Len(launch.lengths) \in Nat /\ Batch = 1..Len(launch.lengths)
         /\ \A s \in Batch : Length(s) \in Nat /\ Length(s) > 0
  BY DEF LaunchOK, Fits, Batch, Length

LEMMA PackedLayout ==
  ASSUME LaunchOK, launch.layout = "packed", NEW s \in Batch
  PROVE  /\ First(s) \in Nat
         /\ First(s) + Length(s) = SumOver(launch.lengths, 1..s)
         /\ First(s) + Length(s) <= MaxTokens
         /\ \A r \in Batch : s < r => First(s) + Length(s) <= First(r)
  <1> DEFINE L == launch.lengths
             n == Len(L)
  <1>1. n \in Nat /\ DOMAIN L = 1..n /\ Batch = 1..n /\ \A r \in 1..n : L[r] \in Nat /\ L[r] \in Int
    BY BatchFacts DEF LaunchOK, Fits, Length
  <1>2. \A r : First(r) = SumOver(L, 1..(r - 1))
    BY DEF First
  <1>3. Length(s) = L[s] /\ RowsOf(launch) = SumOver(L, 1..n) /\ RowsOf(launch) <= MaxTokens
    BY <1>1 DEF Length, RowsOf, LaunchOK, Fits
  <1> HIDE DEF L, n
  <1>4. IsFiniteSet(1..n)
    BY <1>1, RangeIsFinite
  <1>5. /\ \A T \in SUBSET (1..n) : SumOver(L, T) \in Nat /\ SumOver(L, T) <= SumOver(L, 1..n)
        /\ SumOver(L, 1..n) \in Nat
    BY <1>1, <1>4, SumOfNaturals
  <1>6. 1..s \in SUBSET (1..n) /\ 1..(s - 1) \in SUBSET (1..n) /\ s \in 1..n
    BY <1>1
  <1>7. SumOver(L, 1..s) = L[s] + SumOver(L, 1..(s - 1))
    BY <1>1, <1>6, SumUpTo
  <1>8. SumOver(L, 1..s) \in Nat /\ SumOver(L, 1..(s - 1)) \in Nat /\ SumOver(L, 1..s) <= SumOver(L, 1..n)
    BY <1>5, <1>6
  <1>9. L[s] \in Nat
    BY <1>1, <1>6
  <1>10. ASSUME NEW r \in Batch, s < r PROVE SumOver(L, 1..s) <= SumOver(L, 1..(r - 1))
    <2>1. 1..(r - 1) \in SUBSET (1..n) /\ 1..s \in SUBSET (1..(r - 1)) /\ r - 1 \in Int
      BY <1>1, <1>6, <1>10
    <2>2. IsFiniteSet(1..(r - 1)) /\ \A x \in 1..(r - 1) : L[x] \in Nat
      BY <1>1, <2>1, RangeIsFinite
    <2>3. QED
      BY <2>1, <2>2, SumOfNaturals
  <1>11. MaxTokens \in Nat
    BY NumberAssumption
  <1>12. QED
    BY <1>2, <1>3, <1>5, <1>7, <1>8, <1>9, <1>10, <1>11 DEF L

LEMMA PaddedLayout ==
  ASSUME LaunchOK, launch.layout # "packed", NEW s \in Batch
  PROVE  /\ First(s) \in Nat
         /\ First(s) + Length(s) <= MaxTokens
         /\ \A r \in Batch : s < r => First(s) + Length(s) <= First(r)
  <1> DEFINE n == Len(launch.lengths)
             m == launch.maxSeqlen
  <1>1. n \in Nat /\ Batch = 1..n /\ Length(s) \in Nat /\ Length(s) = m
    BY BatchFacts DEF LaunchOK, Fits, Length, Batch
  <1>2. n * m <= MaxTokens
    BY DEF LaunchOK, Fits, RowsOf
  <1>3. \A r : First(r) = (r - 1) * m
    BY DEF First, Longest
  <1> HIDE DEF n, m
  <1>4. s \in 1..n /\ m \in Nat /\ MaxTokens \in Nat
    BY <1>1, NumberAssumption
  <1>5. s - 1 \in Nat /\ (s - 1) * m \in Nat /\ (s - 1) * m + m = s * m /\ s * m \in Nat /\ n * m \in Nat
    BY <1>1, <1>4
  <1>6. s * m <= n * m
    <2>1. s \in Nat /\ s <= n /\ m <= m
      BY <1>1, <1>4
    <2>2. QED
      BY <1>1, <1>4, <2>1, ProductMonotone
  <1>7. ASSUME NEW r \in Batch, s < r PROVE s * m <= (r - 1) * m
    <2>1. s \in Nat /\ r - 1 \in Nat /\ s <= r - 1 /\ m <= m
      BY <1>1, <1>4, <1>7
    <2>2. QED
      BY <1>4, <2>1, ProductMonotone
  <1>8. First(s) \in Nat
    BY <1>3, <1>5
  <1>9. First(s) + Length(s) <= MaxTokens
    BY <1>1, <1>2, <1>3, <1>4, <1>5, <1>6
  <1>10. ASSUME NEW r \in Batch, s < r PROVE First(s) + Length(s) <= First(r)
    BY <1>1, <1>3, <1>5, <1>7, <1>10
  <1>11. QED
    BY <1>8, <1>9, <1>10

LEMMA Layout ==
  ASSUME LaunchOK, NEW s \in Batch
  PROVE  /\ First(s) \in Nat
         /\ Length(s) \in Nat /\ Length(s) > 0
         /\ First(s) + Length(s) <= MaxTokens
         /\ \A r \in Batch : s < r => First(s) + Length(s) <= First(r)
  BY BatchFacts, PackedLayout, PaddedLayout

(* A row of the buffer belongs to one sequence.                            *)
LEMMA OneSequence ==
  ASSUME LaunchOK, NEW s \in Batch, NEW r \in Batch, NEW t, t \in TokensOf(s), t \in TokensOf(r)
  PROVE  s = r
  <1>1. s \in Int /\ r \in Int
    BY BatchFacts
  <1>2. /\ First(s) \in Nat /\ Length(s) \in Nat /\ First(r) \in Nat /\ Length(r) \in Nat
        /\ s < r => First(s) + Length(s) <= First(r)
        /\ r < s => First(r) + Length(r) <= First(s)
    BY Layout
  <1>3. t \in First(s)..(First(s) + Length(s) - 1) /\ t \in First(r)..(First(r) + Length(r) - 1)
    BY DEF TokensOf
  <1>4. QED
    BY <1>1, <1>2, <1>3

LEMMA TokensFit ==
  ASSUME LaunchOK
  PROVE  Tokens \in SUBSET (0..(MaxTokens - 1)) /\ IsFiniteSet(Tokens)
  <1>1. MaxTokens \in Nat
    BY NumberAssumption
  <1>2. ASSUME NEW s \in Batch PROVE TokensOf(s) \in SUBSET (0..(MaxTokens - 1))
    BY <1>1, Layout DEF TokensOf
  <1>3. Tokens \in SUBSET (0..(MaxTokens - 1))
    BY <1>2 DEF Tokens
  <1>4. IsFiniteSet(0..(MaxTokens - 1))
    BY <1>1, RangeIsFinite
  <1>5. QED
    BY <1>3, <1>4, FS_Subset

------------------------------------------------------------------------------
(* Weights. A lane is a function from keys to scores; what it adds to the  *)
(* row, relative to a maximum m, is exact.                                 *)

Scale == -MaxScore..MaxScore

ScoreRows == [Nat -> Scale \cup {NegInf}]

IsMax(c, m, A) ==
  IF m = NegInf THEN \A k \in A : c[k] = NegInf
  ELSE m \in Scale /\ (\E k \in A : c[k] = m) /\ \A k \in A : c[k] = NegInf \/ c[k] <= m

Weight(c, m) ==
  [k \in Nat |-> IF c[k] = NegInf \/ m = NegInf THEN 0 ELSE Power(2, Spread + c[k] - m)]

LEMMA ScaleFacts ==
  /\ Spread \in Nat /\ One \in Nat /\ One > 0
  /\ 0 \in Scale
  /\ \A a \in Scale : a \in Int /\ a # NegInf /\ a # Undefined
  /\ \A a, b \in Scale : Spread + a - b \in Nat
  /\ \A n \in Nat : Power(2, n) \in Nat /\ Power(2, n) > 0
  <1>1. Spread \in Nat /\ Spread = 2 * MaxScore /\ MaxScore \in Nat
    BY NumberAssumption DEF Spread
  <1>2. \A n \in Nat : Power(2, n) \in Nat /\ Power(2, n) > 0
    BY PowerNatural
  <1>3. One \in Nat /\ One > 0
    BY <1>1, <1>2 DEF One
  <1>4. 0 \in Scale /\ \A a \in Scale : a \in Int /\ -MaxScore <= a /\ a <= MaxScore
    BY <1>1 DEF Scale
  <1>5. ASSUME NEW a \in Scale, NEW b \in Scale PROVE Spread + a - b \in Nat
    BY <1>1, <1>4
  <1>6. QED
    BY <1>1, <1>2, <1>3, <1>4, <1>5, NumberAssumption

LEMMA WeightFacts ==
  ASSUME NEW c \in ScoreRows, NEW m \in Scale \cup {NegInf}, NEW k \in Nat
  PROVE  /\ Weight(c, m)[k] \in Nat
         /\ c[k] = NegInf \/ m = NegInf => Weight(c, m)[k] = 0
         /\ c[k] # NegInf /\ m # NegInf =>
              Weight(c, m)[k] = Power(2, Spread + c[k] - m) /\ Weight(c, m)[k] > 0
  <1>1. c[k] \in Scale \cup {NegInf}
    BY DEF ScoreRows
  <1>2. CASE c[k] = NegInf \/ m = NegInf
    <2>1. Weight(c, m)[k] = 0
      BY <1>2 DEF Weight
    <2>2. QED
      BY <1>2, <2>1
  <1>3. CASE ~(c[k] = NegInf \/ m = NegInf)
    <2>1. Spread + c[k] - m \in Nat
      BY <1>1, <1>3, ScaleFacts
    <2>2. Weight(c, m)[k] = Power(2, Spread + c[k] - m)
      BY <1>3 DEF Weight
    <2>3. QED
      BY <1>3, <2>1, <2>2, ScaleFacts
  <1>4. QED
    BY <1>2, <1>3

(* tl.max, on a tile or on the old and the new maximum.                    *)
LEMMA GreatestFacts ==
  ASSUME NEW S \in SUBSET (Scale \cup {NegInf})
  PROVE  \/ Greatest(S) = NegInf /\ S \subseteq {NegInf}
         \/ /\ Greatest(S) \in Scale /\ Greatest(S) \in S
            /\ \A x \in S : x = NegInf \/ x <= Greatest(S)
  <1>1. Undefined \notin S
    BY ScaleFacts, NumberAssumption
  <1>2. CASE S \subseteq {NegInf}
    BY <1>1, <1>2 DEF Greatest
  <1>3. CASE ~(S \subseteq {NegInf})
    <2> DEFINE T == S \ {NegInf}
    <2>1. T \in SUBSET Int /\ T # {} /\ \A x \in T : x \in Scale
      BY <1>3, ScaleFacts
    <2>2. \A x \in T : -MaxScore <= x /\ x <= MaxScore
      BY <2>1, NumberAssumption DEF Scale
    <2> HIDE DEF T
    <2>3. Max(T) \in T /\ \A x \in T : x <= Max(T)
      BY <2>1, <2>2, NumberAssumption, BoundedHasMax
    <2>4. Greatest(S) = Max(T)
      BY <1>1, <1>3 DEF Greatest, T
    <2>5. \A x \in S : x = NegInf \/ x \in T
      BY DEF T
    <2>6. Greatest(S) \in T /\ T \subseteq S
      BY <2>3, <2>4 DEF T
    <2>7. QED
      BY <2>1, <2>3, <2>4, <2>5, <2>6
  <1>4. QED
    BY <1>2, <1>3

LEMMA TileMaximum ==
  ASSUME NEW c \in ScoreRows, NEW A \in SUBSET Nat
  PROVE  /\ Greatest({c[k] : k \in A}) \in Scale \cup {NegInf}
         /\ IsMax(c, Greatest({c[k] : k \in A}), A)
  <1> DEFINE S == {c[k] : k \in A}
  <1>1. S \in SUBSET (Scale \cup {NegInf}) /\ \A k \in A : c[k] \in S
    BY DEF ScoreRows
  <1>2. \A x \in S : \E k \in A : c[k] = x
    OBVIOUS
  <1> DEFINE g == Greatest(S)
  <1> HIDE DEF S
  <1>3. \/ g = NegInf /\ S \subseteq {NegInf}
        \/ g \in Scale /\ g \in S /\ \A x \in S : x = NegInf \/ x <= g
    BY <1>1, GreatestFacts
  <1> HIDE DEF g
  <1>4. g \in Scale \cup {NegInf} /\ IsMax(c, g, A)
    BY <1>1, <1>2, <1>3, ScaleFacts DEF IsMax
  <1>5. QED
    BY <1>4 DEF g, S

LEMMA JoinedMaximum ==
  ASSUME NEW c \in ScoreRows, NEW A \in SUBSET Nat, NEW B \in SUBSET Nat,
         NEW a \in Scale \cup {NegInf}, NEW b \in Scale \cup {NegInf},
         IsMax(c, a, A), IsMax(c, b, B)
  PROVE  /\ Greatest({a, b}) \in Scale \cup {NegInf}
         /\ IsMax(c, Greatest({a, b}), A \cup B)
         /\ a # NegInf => Greatest({a, b}) # NegInf /\ a <= Greatest({a, b})
  <1> DEFINE g == Greatest({a, b})
  <1>1. \/ g = NegInf /\ a = NegInf /\ b = NegInf
        \/ g \in Scale /\ g \in {a, b} /\ (a = NegInf \/ a <= g) /\ (b = NegInf \/ b <= g)
    <2>1. {a, b} \in SUBSET (Scale \cup {NegInf})
      OBVIOUS
    <2>2. QED
      BY <2>1, GreatestFacts
  <1> HIDE DEF g
  <1>2. \A k \in A \cup B : c[k] \in Scale \cup {NegInf}
    BY DEF ScoreRows
  <1>3. CASE g = NegInf
    BY <1>1, <1>3, ScaleFacts DEF IsMax, g
  <1>4. CASE g # NegInf
    <2>1. g \in Scale /\ g \in Int
      BY <1>1, <1>4, ScaleFacts
    <2>2. ASSUME NEW k \in A PROVE c[k] = NegInf \/ c[k] <= g
      <3>1. CASE a = NegInf
        BY <3>1, <2>2 DEF IsMax
      <3>2. CASE a # NegInf
        <4>1. (c[k] = NegInf \/ c[k] <= a) /\ a <= g /\ a \in Int
          BY <1>1, <1>4, <3>2, ScaleFacts DEF IsMax
        <4>2. c[k] = NegInf \/ c[k] \in Int
          BY <1>2, ScaleFacts
        <4>3. QED
          BY <4>1, <4>2, <2>1
      <3>3. QED
        BY <3>1, <3>2
    <2>3. ASSUME NEW k \in B PROVE c[k] = NegInf \/ c[k] <= g
      <3>1. CASE b = NegInf
        BY <3>1, <2>3 DEF IsMax
      <3>2. CASE b # NegInf
        <4>1. (c[k] = NegInf \/ c[k] <= b) /\ b <= g /\ b \in Int
          BY <1>1, <1>4, <3>2, ScaleFacts DEF IsMax
        <4>2. c[k] = NegInf \/ c[k] \in Int
          BY <1>2, ScaleFacts
        <4>3. QED
          BY <4>1, <4>2, <2>1
      <3>3. QED
        BY <3>1, <3>2
    <2>4. \E k \in A \cup B : c[k] = g
      BY <1>1, <1>4 DEF IsMax
    <2>5. IsMax(c, g, A \cup B)
      BY <1>4, <2>1, <2>2, <2>3, <2>4 DEF IsMax
    <2>6. QED
      BY <1>1, <1>4, <2>1, <2>5 DEF g
  <1>5. QED
    BY <1>3, <1>4

(* What a key weighs against a maximum, as the kernel computes it.         *)
LEMMA KernelWeight ==
  ASSUME NEW c \in ScoreRows, NEW m \in Scale \cup {NegInf}, NEW A \in SUBSET Nat,
         IsMax(c, m, A), NEW k \in A
  PROVE  /\ Exp2(Difference(c[k], Center(m))) = Weight(c, m)[k]
         /\ m # NegInf => Exp2(Difference(c[k], m)) = Weight(c, m)[k]
  <1>1. /\ c[k] \in Scale \cup {NegInf} /\ k \in Nat
        /\ \A a \in Scale : a \in Int /\ a # NegInf /\ a # Undefined
        /\ Undefined # NegInf /\ 0 # NegInf /\ 0 # Undefined /\ Spread \in Nat
    BY ScaleFacts, NumberAssumption DEF ScoreRows
  <1>2. CASE m = NegInf
    <2>1. c[k] = NegInf /\ Center(m) = 0
      BY <1>2 DEF IsMax, Center
    <2>2. Exp2(Difference(c[k], Center(m))) = 0
      BY <1>1, <2>1 DEF Exp2, Difference
    <2>3. QED
      BY <1>1, <1>2, <2>1, <2>2, WeightFacts
  <1>3. CASE m # NegInf /\ c[k] = NegInf
    <2>1. Center(m) = m /\ m # Undefined
      BY <1>1, <1>3 DEF Center
    <2>2. Exp2(Difference(c[k], m)) = 0
      BY <1>1, <1>3, <2>1 DEF Exp2, Difference
    <2>3. QED
      BY <1>1, <1>3, <2>1, <2>2, WeightFacts
  <1>4. CASE m # NegInf /\ c[k] # NegInf
    <2>1. Center(m) = m /\ m \in Int /\ c[k] \in Int /\ m # Undefined /\ c[k] # Undefined
      BY <1>1, <1>4 DEF Center
    <2>2. Difference(c[k], m) = c[k] - m /\ c[k] - m \in Int
      BY <1>1, <1>4, <2>1 DEF Difference
    <2>3. c[k] - m # Undefined /\ c[k] - m # NegInf
      BY <2>2, NumberAssumption
    <2>4. Exp2(Difference(c[k], m)) = Power(2, Spread + (c[k] - m))
      BY <2>2, <2>3 DEF Exp2
    <2>5. Spread + (c[k] - m) = Spread + c[k] - m
      BY <1>1, <2>1
    <2>6. QED
      BY <1>1, <1>4, <2>1, <2>4, <2>5, WeightFacts
  <1>5. QED
    BY <1>2, <1>3, <1>4

(* The correction of the rows so far takes every weight to its value        *)
(* against the new maximum, exactly.                                       *)
Correction(old, new) == IF new # NegInf THEN Exp2(Difference(old, Center(new))) ELSE One

LEMMA CorrectionExact ==
  ASSUME NEW c \in ScoreRows, NEW old \in Scale \cup {NegInf}, NEW new \in Scale \cup {NegInf},
         old # NegInf => new # NegInf /\ old <= new,
         NEW A \in SUBSET Nat, IsMax(c, old, A)
  PROVE  /\ Correction(old, new) \in Nat
         /\ \A k \in A : Weight(c, old)[k] * Correction(old, new) = Weight(c, new)[k] * One
  <1>1. /\ \A a \in Scale : a \in Int /\ a # NegInf /\ a # Undefined
        /\ Undefined # NegInf /\ 0 # NegInf /\ 0 # Undefined /\ Spread \in Nat
        /\ One \in Nat /\ One = Power(2, Spread)
    BY ScaleFacts, NumberAssumption DEF One
  <1>2. CASE old = NegInf
    <2>1. Correction(old, new) \in Nat
      BY <1>1, <1>2 DEF Correction, Exp2, Difference, Center
    <2>2. ASSUME NEW k \in A PROVE Weight(c, old)[k] = 0 /\ Weight(c, new)[k] = 0
      <3>1. c[k] = NegInf
        BY <1>2 DEF IsMax
      <3>2. QED
        BY <3>1, WeightFacts
    <2> DEFINE x == Correction(old, new)
    <2> HIDE DEF x
    <2>3. QED
      BY <1>1, <2>1, <2>2 DEF x
  <1>3. CASE old # NegInf
    <2>1. old \in Scale /\ new \in Scale /\ new # NegInf /\ old <= new /\ old \in Int /\ new \in Int
      BY <1>1, <1>3
    <2>2. Correction(old, new) = Power(2, Spread + old - new)
      <3>1. Center(new) = new
        BY <2>1 DEF Center
      <3>2. Difference(old, new) = old - new /\ old - new \in Int
        BY <1>1, <1>3, <2>1 DEF Difference
      <3>3. Exp2(old - new) = Power(2, Spread + (old - new))
        BY <3>2, NumberAssumption DEF Exp2
      <3>4. Spread + (old - new) = Spread + old - new
        BY <1>1, <2>1
      <3>5. QED
        BY <2>1, <3>1, <3>2, <3>3, <3>4 DEF Correction
    <2>3. Spread + old - new \in Nat
      BY <2>1, ScaleFacts
    <2>4. Correction(old, new) \in Nat
      BY <2>2, <2>3, ScaleFacts
    <2>5. ASSUME NEW k \in A
          PROVE  Weight(c, old)[k] * Correction(old, new) = Weight(c, new)[k] * One
      <3>1. c[k] \in Scale \cup {NegInf} /\ k \in Nat
        BY DEF ScoreRows
      <3>2. CASE c[k] = NegInf
        <4>1. Weight(c, old)[k] = 0 /\ Weight(c, new)[k] = 0
          BY <3>1, <3>2, WeightFacts
        <4>2. QED
          BY <1>1, <2>4, <4>1
      <3>3. CASE c[k] # NegInf
        <4> DEFINE a == Spread + c[k] - old
                   b == Spread + old - new
                   d == Spread + c[k] - new
        <4>1. a \in Nat /\ b \in Nat /\ d \in Nat /\ a + b = d + Spread
          <5>1. c[k] \in Scale /\ c[k] \in Int
            BY <1>1, <3>1, <3>3
          <5>2. a \in Nat /\ b \in Nat /\ d \in Nat
            BY <2>1, <5>1, ScaleFacts
          <5>3. QED
            BY <1>1, <2>1, <5>1, <5>2
        <4>2. /\ Weight(c, old)[k] = Power(2, a) /\ Weight(c, new)[k] = Power(2, d)
              /\ Correction(old, new) = Power(2, b)
          BY <1>3, <2>1, <2>2, <3>1, <3>3, WeightFacts
        <4> HIDE DEF a, b, d
        <4>3. Power(2, a + b) = Power(2, a) * Power(2, b)
          BY <4>1, PowerOfSum
        <4>4. Power(2, d + Spread) = Power(2, d) * Power(2, Spread)
          BY <1>1, <4>1, PowerOfSum
        <4>5. QED
          BY <1>1, <4>1, <4>2, <4>3, <4>4
      <3>4. QED
        BY <3>2, <3>3
    <2>6. QED
      BY <2>4, <2>5
  <1>4. QED
    BY <1>2, <1>3

------------------------------------------------------------------------------
(* The row a lane holds when it has seen the keys below n: relative to the *)
(* greatest score of these, exactly what a softmax over them adds up to.   *)

RowAt(c, tokens, first, length, m, n) ==
  [max |-> m,
   sum |-> SumOver(Weight(c, m), 0..(n - 1)),
   acc |-> [t \in tokens |->
              IF t \in first..(first + length - 1) /\ t - first \in 0..(n - 1)
              THEN Weight(c, m)[t - first] ELSE 0]]

RowOK(c, tokens, first, length, row, n) ==
  \E m \in Scale \cup {NegInf} :
    IsMax(c, m, 0..(n - 1)) /\ row = RowAt(c, tokens, first, length, m, n)

Lane(p, i) == [k \in Nat |-> Score(p, i, k)]

Holds(p, i, row, n) == RowOK(Lane(p, i), Tokens, First(p[2]), Length(p[2]), row, n)

LEMMA GridFacts ==
  ASSUME LaunchOK, NEW p \in Grid, NEW i \in Lanes
  PROVE  /\ p[1] \in Nat /\ p[1] < Blocks /\ p[2] \in Batch /\ p = <<p[1], p[2]>>
         /\ i \in Nat /\ i < launch.blockM
         /\ Query(p, i) \in Nat
         /\ First(p[2]) \in Nat /\ Length(p[2]) \in Nat /\ Length(p[2]) > 0
         /\ First(p[2]) + Length(p[2]) <= MaxTokens
  <1>1. launch.blockM \in Nat \ {0} /\ Longest \in Int
    BY DEF LaunchOK, Fits, Longest
  <1>2. Blocks \in Int
    BY <1>1, DivisionLaws DEF Blocks
  <1>3. p[1] \in 0..(Blocks - 1) /\ p[2] \in Batch /\ p = <<p[1], p[2]>>
    BY DEF Grid
  <1>4. i \in 0..(launch.blockM - 1)
    BY DEF Lanes
  <1>5. p[1] \in Nat /\ p[1] < Blocks /\ i \in Nat /\ i < launch.blockM
    BY <1>1, <1>2, <1>3, <1>4
  <1>6. Query(p, i) \in Nat
    BY <1>1, <1>5 DEF Query
  <1>7. QED
    BY <1>3, <1>5, <1>6, Layout

LEMMA PairTyped ==
  ASSUME LaunchOK, scores \in ScoreTables, NEW p \in Grid, NEW i \in Lanes, NEW k \in Nat,
         QueryInBounds(p, i), KeyInBounds(p, k)
  PROVE  scores[<<RowOf(p, i), First(p[2]) + k>>] \in Scale
  <1> DEFINE q == First(p[2]) + Query(p, i)
             t == First(p[2]) + k
  <1>1. Query(p, i) < Length(p[2]) /\ k < Length(p[2])
    BY DEF QueryInBounds, KeyInBounds
  <1>2. q \in 0..(MaxTokens - 1) /\ t \in 0..(MaxTokens - 1)
    BY <1>1, GridFacts, NumberAssumption
  <1> HIDE DEF q, t
  <1>3. scores \in [(0..(MaxTokens - 1)) \X (0..(MaxTokens - 1)) -> Scale]
    BY ScoreAssumption DEF Scale
  <1>4. scores[<<q, t>>] \in Scale
    BY <1>2, <1>3
  <1>5. QED
    BY <1>4 DEF q, t, RowOf

LEMMA LaneTyped ==
  ASSUME LaunchOK, scores \in ScoreTables, NEW p \in Grid, NEW i \in Lanes
  PROVE  Lane(p, i) \in ScoreRows
  <1>1. ASSUME NEW k \in Nat PROVE Score(p, i, k) \in Scale \cup {NegInf}
    <2>1. 0 \in Scale
      BY ScaleFacts
    <2>2. Masked(p, i, k) \in Scale \cup {NegInf}
      BY <2>1, PairTyped DEF Masked
    <2>3. QED
      BY <2>1, <2>2 DEF Score
  <1>2. QED
    BY <1>1 DEF Lane, ScoreRows

(* Every lane attends to some key: a kept query to itself, a query that is *)
(* padding to every key, a lane beyond the sequence to the first one.      *)
LEMMA LaneHasKey ==
  ASSUME LaunchOK, scores \in ScoreTables, NEW p \in Grid, NEW i \in Lanes
  PROVE  \E k \in 0..(Length(p[2]) - 1) : Lane(p, i)[k] \in Scale
  <1>1. /\ Query(p, i) \in Nat /\ Length(p[2]) \in Nat /\ Length(p[2]) > 0
        /\ \A k \in Nat : Lane(p, i)[k] = Score(p, i, k)
    BY GridFacts DEF Lane
  <1>2. 0 \in Scale
    BY ScaleFacts
  <1>3. CASE ~QueryInBounds(p, i)
    <2>1. Score(p, i, 0) = 0
      BY <1>3 DEF Score
    <2>2. Lane(p, i)[0] \in Scale /\ 0 \in 0..(Length(p[2]) - 1)
      BY <1>1, <1>2, <2>1
    <2>3. QED
      BY <2>2
  <1>4. CASE QueryInBounds(p, i)
    <2>1. Query(p, i) \in 0..(Length(p[2]) - 1)
      BY <1>1, <1>4 DEF QueryInBounds
    <2>2. KeyInBounds(p, Query(p, i))
      BY <1>4 DEF QueryInBounds, KeyInBounds
    <2>3. scores[<<RowOf(p, i), First(p[2]) + Query(p, i)>>] \in Scale
      BY <1>1, <1>4, <2>2, PairTyped
    <2>4. Masked(p, i, Query(p, i)) \in Scale
      BY <1>2, <1>4, <2>2, <2>3 DEF Masked
    <2>5. Score(p, i, Query(p, i)) = Masked(p, i, Query(p, i))
      BY <1>4 DEF Score
    <2>6. QED
      BY <1>1, <2>1, <2>4, <2>5
  <1>5. QED
    BY <1>3, <1>4

LEMMA RescaledExact ==
  ASSUME NEW x \in Int, NEW y \in Int, NEW c \in Int, x * c = y * One
  PROVE  Rescaled(x, c) = y
  <1>1. One \in Nat \ {0}
    BY ScaleFacts
  <1>2. (y * One) \div One = y
    BY <1>1, DivisionLaws
  <1>3. QED
    BY <1>2 DEF Rescaled

(* One more tile of the online softmax.                                    *)
LEMMA OnlineStep ==
  ASSUME LaunchOK, scores \in ScoreTables, NEW p \in Grid, NEW i \in Lanes, NEW n \in Nat,
         programs[p].keyStart = n, Holds(p, i, programs[p].rows[i], n)
  PROVE  Holds(p, i, RowOnline(p, i), n + launch.blockN)
  <1> DEFINE c == Lane(p, i)
             f == First(p[2])
             l == Length(p[2])
             w == launch.blockN
             row == programs[p].rows[i]
             A == 0..(n - 1)
             B == Tile(p)
  <1>1. c \in ScoreRows /\ \A k \in Nat : c[k] = Score(p, i, k)
    BY LaneTyped DEF Lane
  <1>2. f \in Nat /\ l \in Nat /\ w \in Nat /\ w > 0
    BY GridFacts DEF LaunchOK, Fits
  <1>3. B = n..(n + w - 1)
    <2>1. B = {n + j : j \in 0..(w - 1)}
      BY DEF Tile
    <2>2. \A k \in n..(n + w - 1) : k - n \in 0..(w - 1) /\ k = n + (k - n)
      BY <1>2
    <2>3. \A j \in 0..(w - 1) : n + j \in n..(n + w - 1)
      BY <1>2
    <2>4. QED
      BY <2>1, <2>2, <2>3
  <1>4. /\ A \in SUBSET Nat /\ B \in SUBSET Nat /\ A \cap B = {} /\ A \cup B = 0..(n + w - 1)
        /\ IsFiniteSet(A) /\ IsFiniteSet(B)
    BY <1>2, <1>3, RangeIsFinite
  <1>5. PICK old \in Scale \cup {NegInf} : IsMax(c, old, A) /\ row = RowAt(c, Tokens, f, l, old, n)
    BY DEF Holds, RowOK
  <1>6. /\ row.max = old /\ row.sum = SumOver(Weight(c, old), A)
        /\ row.acc = [t \in Tokens |-> IF t \in f..(f + l - 1) /\ t - f \in A
                                       THEN Weight(c, old)[t - f] ELSE 0]
    BY <1>5 DEF RowAt
  <1> DEFINE T == TileMax(p, i)
             new == Greatest({row.max, T})
             corr == Correction(row.max, new)
             prob == Probabilities(p, i, Center(new))
  <1>7. T \in Scale \cup {NegInf} /\ IsMax(c, T, B)
    <2>1. T = Greatest({c[k] : k \in B})
      <3>1. {Score(p, i, k) : k \in B} = {c[k] : k \in B}
        BY <1>1, <1>4
      <3>2. QED
        BY <3>1 DEF TileMax
    <2> HIDE DEF c, B, T
    <2>2. QED
      BY <1>1, <1>4, <2>1, TileMaximum
  <1>8. /\ new \in Scale \cup {NegInf} /\ IsMax(c, new, A \cup B)
        /\ old # NegInf => new # NegInf /\ old <= new
    <2>1. new = Greatest({old, T})
      BY <1>6
    <2>2. IsMax(c, old, A)
      BY <1>5
    <2> HIDE DEF c, A, B, T, new
    <2>3. /\ Greatest({old, T}) \in Scale \cup {NegInf}
          /\ IsMax(c, Greatest({old, T}), A \cup B)
          /\ old # NegInf => Greatest({old, T}) # NegInf /\ old <= Greatest({old, T})
      BY ONLY <1>1, <1>4, <1>5, <1>7, <2>2, JoinedMaximum
    <2>4. QED
      BY <2>1, <2>3
  <1>9. B = DOMAIN prob /\ \A k \in B : prob[k] = Weight(c, new)[k]
    <2>1. \A k \in B : prob[k] = Exp2(Difference(c[k], Center(new)))
      BY <1>1, <1>4 DEF Probabilities
    <2>2. B = DOMAIN prob
      BY DEF Probabilities
    <2> HIDE DEF c, A, B, new, prob
    <2>3. QED
      BY <1>1, <1>4, <1>8, <2>1, <2>2, KernelWeight
  <1>10. corr \in Nat /\ \A k \in A : Weight(c, old)[k] * corr = Weight(c, new)[k] * One
    <2> HIDE DEF c, A, new
    <2>1. QED
      BY <1>1, <1>4, <1>5, <1>6, <1>8, CorrectionExact
  <1>11. \A k \in Nat : Weight(c, old)[k] \in Nat /\ Weight(c, new)[k] \in Nat
    BY <1>1, <1>8, WeightFacts
  <1>12. One \in Nat /\ Undefined \notin Int
    BY ScaleFacts, NumberAssumption
  <1> HIDE DEF c, f, l, w, row, A, B, T, new, corr, prob
  <1> DEFINE V == Weight(c, old)
             W == Weight(c, new)
  <1> HIDE DEF V, W
  <1>13. \A k \in A \cup B : V[k] \in Int /\ W[k] \in Int
    BY <1>4, <1>11 DEF V, W
  <1>14. /\ SumOver(V, A) \in Int /\ SumOver(W, A) \in Int /\ SumOver(W, B) \in Int
         /\ SumOver(W, A \cup B) = SumOver(W, A) + SumOver(W, B)
    <2>1. SumOver(V, A) \in Int
      BY <1>4, <1>13, SumLaws
    <2>2. SumOver(W, A) \in Int /\ SumOver(W, B) \in Int
      BY <1>4, <1>13, SumLaws
    <2>3. SumOver(W, A \cup B) = SumOver(W, A) + SumOver(W, B)
      BY <1>4, <1>13, SumUnion
    <2>4. QED
      BY <2>1, <2>2, <2>3
  <1>15. Rescaled(row.sum, corr) = SumOver(W, A)
    <2> DEFINE h == [k \in A |-> corr * V[k]]
    <2>1. SumOver(h, A) = corr * SumOver(V, A)
      <3>1. (\A k \in A : V[k] \in Int) /\ corr \in Int /\ \A k \in A : h[k] = corr * V[k]
        BY <1>10, <1>13
      <3> HIDE DEF h
      <3>2. QED
        BY ONLY <1>4, <3>1, SumScaled
    <2>2. SumOver(h, A) = One * SumOver(W, A)
      <3>1. (\A k \in A : W[k] \in Int) /\ One \in Int /\ \A k \in A : h[k] = One * W[k]
        <4>1. ASSUME NEW k \in A PROVE h[k] = One * W[k]
          <5>1. V[k] * corr = W[k] * One /\ V[k] \in Int /\ W[k] \in Int
            BY <1>10, <1>13 DEF V, W
          <5>2. corr * V[k] = One * W[k]
            BY <1>10, <1>12, <5>1
          <5>3. QED
            BY <5>2
        <4>2. QED
          BY <1>12, <1>13, <4>1
      <3> HIDE DEF h
      <3>2. QED
        BY ONLY <1>4, <3>1, SumScaled
    <2>3. corr * SumOver(V, A) = One * SumOver(W, A)
      BY <2>1, <2>2
    <2>4. SumOver(V, A) * corr = SumOver(W, A) * One
      BY <1>10, <1>12, <1>14, <2>3
    <2>5. Rescaled(SumOver(V, A), corr) = SumOver(W, A)
      BY <1>10, <1>14, <2>4, RescaledExact
    <2>6. QED
      BY <1>6, <2>5 DEF V
  <1>16. Total(prob) = SumOver(W, B)
    <2>1. SumOver(prob, B) = SumOver(W, B)
      <3>1. (\A k \in B : W[k] \in Int) /\ \A k \in B : prob[k] = W[k]
        BY <1>9, <1>13 DEF W
      <3>2. QED
        BY <1>4, <3>1, SumCongruent
    <2>2. QED
      BY <1>9, <2>1 DEF Total
  <1> DEFINE acc == [t \in Tokens |-> Rescaled(row.acc[t], corr) + Weights(p, prob)[t]]
  <1>17. acc = [t \in Tokens |-> IF t \in f..(f + l - 1) /\ t - f \in A \cup B
                                 THEN W[t - f] ELSE 0]
    <2>1. ASSUME NEW t \in Tokens
          PROVE  Rescaled(row.acc[t], corr) + Weights(p, prob)[t] =
                   IF t \in f..(f + l - 1) /\ t - f \in A \cup B THEN W[t - f] ELSE 0
      <3>1. Weights(p, prob)[t] =
              IF t \in f..(f + l - 1) /\ t - f \in B THEN prob[t - f] ELSE 0
        BY <1>9 DEF Weights, TokensOf, f, l
      <3>2. row.acc[t] = IF t \in f..(f + l - 1) /\ t - f \in A THEN V[t - f] ELSE 0
        BY <1>6 DEF V
      <3>3. Rescaled(0, corr) = 0
        <4>1. 0 * corr = 0 * One
          BY <1>10, <1>12
        <4>2. QED
          BY <1>10, <4>1, RescaledExact
      <3>4. \A k \in A : Rescaled(V[k], corr) = W[k]
        <4>1. ASSUME NEW k \in A PROVE Rescaled(V[k], corr) = W[k]
          <5>1. V[k] * corr = W[k] * One /\ V[k] \in Int /\ W[k] \in Int /\ corr \in Int
            BY <1>10, <1>13 DEF V, W
          <5>2. QED
            BY <5>1, RescaledExact
        <4>2. QED
          BY <4>1
      <3>5. \A k \in B : prob[k] = W[k]
        BY <1>9 DEF W
      <3> DEFINE k == t - f
                 in == t \in f..(f + l - 1)
      <3> HIDE DEF k, in
      <3>6. CASE in /\ k \in A
        <4>1. k \notin B /\ W[k] \in Int
          BY <1>4, <1>13, <3>6
        <4>2. row.acc[t] = V[k] /\ Weights(p, prob)[t] = 0
          BY <3>1, <3>2, <3>6, <4>1 DEF k, in
        <4>3. Rescaled(row.acc[t], corr) + Weights(p, prob)[t] = W[k]
          BY <3>4, <3>6, <4>1, <4>2
        <4>4. QED
          BY <3>6, <4>3 DEF k, in
      <3>7. CASE in /\ k \in B
        <4>1. k \notin A /\ W[k] \in Int
          BY <1>4, <1>13, <3>7
        <4>2. row.acc[t] = 0 /\ Weights(p, prob)[t] = W[k]
          BY <3>1, <3>2, <3>5, <3>7, <4>1 DEF k, in
        <4>3. Rescaled(row.acc[t], corr) + Weights(p, prob)[t] = W[k]
          BY <3>3, <4>1, <4>2
        <4>4. QED
          BY <3>7, <4>3 DEF k, in
      <3>8. CASE ~(in /\ k \in A \cup B)
        <4>1. row.acc[t] = 0 /\ Weights(p, prob)[t] = 0
          BY <3>1, <3>2, <3>8 DEF k, in
        <4>2. Rescaled(row.acc[t], corr) + Weights(p, prob)[t] = 0
          BY <3>3, <4>1
        <4>3. QED
          BY <3>8, <4>2 DEF k, in
      <3>9. QED
        BY <3>6, <3>7, <3>8
    <2>2. QED
      BY <2>1
  <1>18. RowOnline(p, i) = [max |-> new, sum |-> Rescaled(row.sum, corr) + Total(prob), acc |-> acc]
    <2>1. ~(Undefined \in {row.sum, corr} \/ \E k \in B : prob[k] = Undefined)
      <3>1. row.sum \in Int /\ corr \in Int /\ \A k \in B : prob[k] \in Int
        BY <1>6, <1>9, <1>10, <1>13, <1>14 DEF V, W
      <3>2. QED
        BY <1>12, <3>1
    <2>2. QED
      BY <2>1 DEF RowOnline, row, new, corr, prob, T, B, Correction
  <1>19. A \cup B = 0..((n + w) - 1)
    <2>1. n + w - 1 = (n + w) - 1
      BY <1>2
    <2>2. QED
      BY <1>4, <2>1
  <1>20. RowOnline(p, i) = RowAt(c, Tokens, f, l, new, n + w)
    <2>1. SumOver(W, 0..((n + w) - 1)) = Rescaled(row.sum, corr) + Total(prob)
      BY <1>14, <1>15, <1>16, <1>19
    <2>2. acc = [t \in Tokens |-> IF t \in f..(f + l - 1) /\ t - f \in 0..((n + w) - 1)
                                  THEN W[t - f] ELSE 0]
      BY <1>17, <1>19
    <2> HIDE DEF acc
    <2>3. QED
      BY <1>18, <2>1, <2>2 DEF RowAt, W
  <1>21. IsMax(c, new, 0..((n + w) - 1))
    BY <1>8, <1>19
  <1>22. RowOK(c, Tokens, f, l, RowOnline(p, i), n + w)
    BY <1>8, <1>20, <1>21 DEF RowOK
  <1>23. QED
    BY <1>22 DEF Holds, c, f, l, w

LEMMA OneTileHoldsAll ==
  ASSUME LaunchOK, Covered, OneTile, NEW s \in Batch
  PROVE  Length(s) <= launch.blockN
  <1>1. launch.lengths # <<>>
    BY BatchFacts
  <1>2. Longest \in Int /\ launch.blockN \in Nat /\ launch.blockN < Max(Regimes)
    BY <1>1 DEF LaunchOK, Fits, Longest
  <1>3. Longest <= launch.blockN
    BY <1>2, RegimeFits DEF OneTile, LengthRegime
  <1>4. Length(s) \in Nat /\ Length(s) <= Longest
    BY BatchFacts DEF Covered
  <1>5. QED
    BY <1>2, <1>3, <1>4

(* The whole sequence in one tile.                                         *)
LEMMA AtOnceStep ==
  ASSUME LaunchOK, scores \in ScoreTables, NEW p \in Grid, NEW i \in Lanes,
         Covered, OneTile, programs[p].keyStart = 0
  PROVE  Holds(p, i, RowAtOnce(p, i), launch.blockN)
  <1> DEFINE c == Lane(p, i)
             f == First(p[2])
             l == Length(p[2])
             w == launch.blockN
             B == Tile(p)
             m == TileMax(p, i)
             prob == Probabilities(p, i, m)
  <1>1. c \in ScoreRows /\ \A k \in Nat : c[k] = Score(p, i, k)
    BY LaneTyped DEF Lane
  <1>2. f \in Nat /\ l \in Nat /\ w \in Nat /\ w > 0 /\ l <= w
    BY GridFacts, OneTileHoldsAll DEF LaunchOK, Fits
  <1>3. B = 0..(w - 1)
    <2>1. B = {0 + j : j \in 0..(w - 1)}
      BY DEF Tile
    <2>2. \A j \in 0..(w - 1) : 0 + j = j
      BY <1>2
    <2> HIDE DEF B
    <2>3. QED
      BY <2>1, <2>2
  <1>4. B \in SUBSET Nat /\ IsFiniteSet(B)
    BY <1>2, <1>3, RangeIsFinite
  <1>5. m \in Scale \cup {NegInf} /\ IsMax(c, m, B)
    <2>1. m = Greatest({c[k] : k \in B})
      <3>1. {Score(p, i, k) : k \in B} = {c[k] : k \in B}
        BY <1>1, <1>4
      <3>2. QED
        BY <3>1 DEF TileMax
    <2> HIDE DEF c, B, m
    <2>2. QED
      BY <1>1, <1>4, <2>1, TileMaximum
  <1>6. m # NegInf
    <2>1. PICK k \in 0..(l - 1) : c[k] \in Scale
      BY LaneHasKey
    <2>2. k \in B
      BY <1>2, <1>3
    <2> HIDE DEF c, B, m
    <2>3. QED
      BY <1>5, <2>1, <2>2, ScaleFacts DEF IsMax
  <1>7. B = DOMAIN prob /\ \A k \in B : prob[k] = Weight(c, m)[k]
    <2>1. \A k \in B : prob[k] = Exp2(Difference(c[k], m))
      BY <1>1, <1>4 DEF Probabilities
    <2>2. B = DOMAIN prob
      BY DEF Probabilities
    <2> HIDE DEF c, B, m, prob
    <2>3. QED
      BY <1>1, <1>4, <1>5, <1>6, <2>1, <2>2, KernelWeight
  <1>8. \A k \in B : Weight(c, m)[k] \in Int
    BY <1>1, <1>4, <1>5, WeightFacts
  <1>9. Weights(p, prob) = [t \in Tokens |-> IF t \in f..(f + l - 1) /\ t - f \in 0..(w - 1)
                                             THEN Weight(c, m)[t - f] ELSE 0]
    <2>1. Weights(p, prob) = [t \in Tokens |-> IF t \in f..(f + l - 1) /\ t - f \in B
                                               THEN prob[t - f] ELSE 0]
      BY <1>7 DEF Weights, TokensOf
    <2> HIDE DEF c, f, l, w, B, m, prob
    <2>2. QED
      BY <1>3, <1>7, <2>1
  <1>10. Total(prob) = SumOver(Weight(c, m), 0..(w - 1))
    <2> HIDE DEF c, w, B, m, prob
    <2> DEFINE W == Weight(c, m)
    <2>1. (\A k \in B : W[k] \in Int) /\ \A k \in B : prob[k] = W[k]
      BY <1>7, <1>8
    <2> HIDE DEF W
    <2>2. SumOver(prob, B) = SumOver(W, B)
      BY <1>4, <2>1, SumCongruent
    <2>3. QED
      BY <1>3, <1>7, <2>2 DEF Total, W
  <1>11. ~\E k \in B : prob[k] = Undefined
    <2> HIDE DEF c, w, B, m, prob
    <2>1. QED
      BY <1>7, <1>8, NumberAssumption
  <1>12. RowAtOnce(p, i) = [max |-> m, sum |-> Total(prob), acc |-> Weights(p, prob)]
    BY <1>11 DEF RowAtOnce
  <1>13. RowAtOnce(p, i) = RowAt(c, Tokens, f, l, m, w)
    <2> HIDE DEF c, f, l, w, B, m, prob
    <2>1. QED
      BY <1>9, <1>10, <1>12 DEF RowAt
  <1>14. IsMax(c, m, 0..(w - 1))
    <2> HIDE DEF c, w, B, m
    <2>1. QED
      BY <1>3, <1>5
  <1>15. RowOK(c, Tokens, f, l, RowAtOnce(p, i), w)
    <2> HIDE DEF c, f, l, w, m
    <2>1. QED
      BY <1>5, <1>13, <1>14 DEF RowOK
  <1>16. QED
    BY <1>15 DEF Holds

------------------------------------------------------------------------------
(* What a lane holds, and what it holds at the end.                        *)

LEMMA NewRowHolds ==
  ASSUME LaunchOK, scores \in ScoreTables, NEW p \in Grid, NEW i \in Lanes
  PROVE  Holds(p, i, NewRow, 0)
  <1> DEFINE c == Lane(p, i)
  <1>1. 0..(0 - 1) = {}
    OBVIOUS
  <1>2. IsMax(c, NegInf, 0..(0 - 1))
    BY <1>1 DEF IsMax
  <1>3. SumOver(Weight(c, NegInf), 0..(0 - 1)) = 0
    <2>1. SumOver(Weight(c, NegInf), {}) = 0
      BY FS_EmptySet, SumLaws
    <2>2. QED
      BY <1>1, <2>1
  <1> HIDE DEF c
  <1>4. NewRow = RowAt(c, Tokens, First(p[2]), Length(p[2]), NegInf, 0)
    BY <1>1, <1>3 DEF NewRow, RowAt, Nothing
  <1>5. RowOK(c, Tokens, First(p[2]), Length(p[2]), NewRow, 0)
    BY <1>2, <1>4 DEF RowOK
  <1>6. QED
    BY <1>5 DEF Holds, c

LEMMA HeldRow ==
  ASSUME LaunchOK, scores \in ScoreTables, NEW p \in Grid, NEW i \in Lanes,
         NEW n \in Nat, NEW row, Holds(p, i, row, n)
  PROVE  /\ row.sum \in Nat
         /\ row \in RowRecord
         /\ Length(p[2]) <= n => row.sum > 0
  <1> DEFINE c == Lane(p, i)
             f == First(p[2])
             l == Length(p[2])
             A == 0..(n - 1)
  <1>1. c \in ScoreRows /\ l \in Nat /\ f \in Nat
    BY LaneTyped, GridFacts
  <1>2. PICK m \in Scale \cup {NegInf} : IsMax(c, m, A) /\ row = RowAt(c, Tokens, f, l, m, n)
    BY DEF Holds, RowOK
  <1> DEFINE W == Weight(c, m)
  <1>3. \A k \in A : W[k] \in Nat
    BY <1>1, WeightFacts
  <1>4. IsFiniteSet(A)
    BY RangeIsFinite
  <1>5. /\ row.max = m /\ row.sum = SumOver(W, A)
        /\ row.acc = [t \in Tokens |-> IF t \in f..(f + l - 1) /\ t - f \in A THEN W[t - f] ELSE 0]
        /\ row = [max |-> row.max, sum |-> row.sum, acc |-> row.acc]
    BY <1>2 DEF RowAt
  <1>6. SumOver(W, A) \in Nat /\ \A k \in A : W[k] <= SumOver(W, A)
    <2> HIDE DEF W, A
    <2>1. QED
      BY <1>3, <1>4, SumOfNaturals
  <1>7. row.acc \in [Tokens -> Int]
    <2> HIDE DEF W, A, f, l
    <2>1. QED
      BY <1>3, <1>5
  <1>8. row \in RowRecord
    <2>1. row.acc \in UNION {[tokens -> Int] : tokens \in SUBSET (0..(MaxTokens - 1))}
      BY <1>7, TokensFit
    <2>2. row.max \in Int \cup {NegInf, Undefined} /\ row.sum \in Int \cup {Undefined}
      BY <1>5, <1>6, ScaleFacts
    <2> HIDE DEF W, A, f, l
    <2>3. QED
      BY <1>5, <2>1, <2>2 DEF RowRecord
  <1>9. ASSUME l <= n PROVE row.sum > 0
    <2>1. PICK k \in 0..(l - 1) : c[k] \in Scale
      BY LaneHasKey
    <2>2. k \in A /\ k \in Nat
      BY <1>1, <1>9, <2>1
    <2> HIDE DEF A, c, l
    <2>3. c[k] # NegInf
      BY <2>1, ScaleFacts
    <2>4. m # NegInf
      BY <1>2, <2>2, <2>3 DEF IsMax
    <2>5. W[k] > 0
      BY <1>1, <2>2, <2>3, <2>4, WeightFacts
    <2>6. W[k] \in Nat /\ W[k] <= SumOver(W, A)
      BY <1>3, <1>6, <2>2
    <2> HIDE DEF W
    <2>7. QED
      BY <1>5, <1>6, <2>5, <2>6
  <1>10. QED
    BY <1>5, <1>6, <1>8, <1>9

(* The scores beyond the sequence.                                         *)
LEMMA BeyondIsMasked ==
  ASSUME LaunchOK, NEW p \in Grid, NEW i \in Lanes, NEW k \in Nat, Length(p[2]) <= k
  PROVE  Lane(p, i)[k] = NegInf
  <1>1. Length(p[2]) \in Nat /\ Length(p[2]) > 0
    BY GridFacts
  <1>2. k # 0 /\ ~KeyInBounds(p, k)
    BY <1>1 DEF KeyInBounds
  <1>3. Score(p, i, k) = NegInf
    BY <1>2 DEF Score, Masked
  <1>4. QED
    BY <1>3 DEF Lane

(* The weights of the tokens add up to the sum.                            *)
LEMMA SumIsWhole ==
  ASSUME LaunchOK, scores \in ScoreTables, NEW p \in Grid, NEW i \in Lanes,
         NEW n \in Nat, NEW row, Holds(p, i, row, n), Length(p[2]) <= n
  PROVE  /\ \A t \in Tokens : row.acc[t] \in Int
         /\ row.sum = SumOver(row.acc, Tokens)
         /\ row.max \in Scale /\ IsMax(Lane(p, i), row.max, 0..(n - 1))
         /\ \A t \in TokensOf(p[2]) :
              row.acc[t] = Weight(Lane(p, i), row.max)[t - First(p[2])]
         /\ \A t \in Tokens \ TokensOf(p[2]) : row.acc[t] = 0
  <1> DEFINE c == Lane(p, i)
             f == First(p[2])
             l == Length(p[2])
             A == 0..(n - 1)
             K == 0..(l - 1)
             R == TokensOf(p[2])
  <1>1. c \in ScoreRows /\ l \in Nat /\ f \in Nat /\ R = f..(f + l - 1)
    BY LaneTyped, GridFacts DEF TokensOf
  <1>2. PICK m \in Scale \cup {NegInf} : IsMax(c, m, A) /\ row = RowAt(c, Tokens, f, l, m, n)
    BY DEF Holds, RowOK
  <1> DEFINE W == Weight(c, m)
  <1>3. \A k \in Nat : W[k] \in Nat
    BY <1>1, WeightFacts
  <1>4. IsFiniteSet(A) /\ IsFiniteSet(K) /\ K \in SUBSET A /\ A \in SUBSET Nat
    BY <1>1, RangeIsFinite
  <1>5. /\ row.max = m /\ row.sum = SumOver(W, A)
        /\ row.acc = [t \in Tokens |-> IF t \in f..(f + l - 1) /\ t - f \in A THEN W[t - f] ELSE 0]
    BY <1>2 DEF RowAt
  <1>6. \A t \in R : t - f \in A /\ t - f \in K /\ t - f \in Nat /\ f + (t - f) = t
    <2> HIDE DEF R
    <2>1. QED
      BY <1>1
  <1>7. R \in SUBSET Tokens /\ IsFiniteSet(Tokens)
    BY GridFacts, TokensFit DEF Tokens
  <1>8. \A t \in R : row.acc[t] = W[t - f]
    <2> HIDE DEF R, W, A, f, l
    <2>1. QED
      BY <1>1, <1>5, <1>6, <1>7
  <1>9. \A t \in Tokens \ R : row.acc[t] = 0
    <2> HIDE DEF R, W, A, f, l
    <2>1. QED
      BY <1>1, <1>5
  <1>10. \A t \in Tokens : row.acc[t] \in Int
    <2> HIDE DEF R, W, A, f, l
    <2>1. QED
      BY <1>3, <1>6, <1>8, <1>9
  <1>11. m # NegInf
    <2>1. PICK k \in K : c[k] \in Scale
      BY LaneHasKey
    <2> HIDE DEF K, A, c
    <2>2. QED
      BY <1>2, <1>4, <2>1, ScaleFacts DEF IsMax
  <1>12. SumOver(W, A) = SumOver(W, K)
    <2>1. ASSUME NEW k \in A \ K PROVE W[k] = 0
      <3>1. k \in Nat /\ l <= k
        BY <1>1, <2>1
      <3>2. c[k] = NegInf
        BY <3>1, BeyondIsMasked
      <3> HIDE DEF c
      <3>3. QED
        BY <1>1, <3>1, <3>2, WeightFacts
    <2>2. \A k \in A : W[k] \in Int
      BY <1>3
    <2> HIDE DEF W, A, K
    <2>3. QED
      BY ONLY <1>4, <2>1, <2>2, SumSupport
  <1>13. SumOver(row.acc, R) = SumOver(W, K)
    <2> DEFINE g == [k \in K |-> f + k]
               a == row.acc
    <2>1. g \in [K -> R] /\ \A t \in R : \E k \in K : g[k] = t
      <3>1. \A k \in K : g[k] = f + k /\ f + k \in R
        BY <1>1
      <3>2. \A t \in R : t - f \in K /\ g[t - f] = t
        BY <1>6
      <3>3. g \in [K -> R]
        BY <3>1
      <3> HIDE DEF g, K, R
      <3>4. QED
        BY <3>2, <3>3
    <2>2. \A x, y \in K : g[x] = g[y] => x = y
      BY <1>1
    <2>3. \A k \in K : a[g[k]] = W[k]
      <3>1. \A k \in K : g[k] \in R /\ g[k] - f = k
        BY <1>1
      <3> HIDE DEF g, K, R, W, f, a
      <3>2. QED
        BY <1>8, <3>1 DEF a
    <2>4. \A k \in K : W[k] \in Int
      BY <1>3
    <2> HIDE DEF g, K, R, W, a
    <2>5. SumOver(a, R) = SumOver(W, K)
      <3>1. IsFiniteSet(K)
        BY <1>4
      <3>2. \A h : (\A k \in K : h[g[k]] = W[k]) => SumOver(h, R) = SumOver(W, K)
        BY ONLY <3>1, <2>1, <2>2, <2>4, SumRenamed
      <3>3. QED
        BY ONLY <3>2, <2>3
    <2>6. QED
      BY <2>5 DEF a
  <1>14. SumOver(row.acc, Tokens) = SumOver(row.acc, R)
    <2> DEFINE a == row.acc
    <2>1. (\A t \in Tokens : a[t] \in Int) /\ \A t \in Tokens \ R : a[t] = 0
      BY <1>9, <1>10
    <2> HIDE DEF a, R
    <2>2. SumOver(a, Tokens) = SumOver(a, R)
      BY ONLY <1>7, <2>1, SumSupport
    <2>3. QED
      BY <2>2 DEF a
  <1>15. row.sum = SumOver(row.acc, Tokens)
    <2> HIDE DEF W, A, K, R
    <2>1. QED
      BY <1>5, <1>12, <1>13, <1>14
  <1>16. QED
    BY <1>2, <1>5, <1>8, <1>9, <1>10, <1>11, <1>15

------------------------------------------------------------------------------
(* The reference gives every token a multiple of what the lane gives it.   *)

LEMMA WrittenLane ==
  ASSUME LaunchOK, NEW p \in Grid, NEW i \in Writes(p)
  PROVE  /\ i \in Lanes /\ QueryInBounds(p, i) /\ Query(p, i) \in 0..(Length(p[2]) - 1)
         /\ RowOf(p, i) \in TokensOf(p[2]) /\ RowOf(p, i) \in Tokens
         /\ SequenceOf(RowOf(p, i)) = p[2]
  <1>1. i \in Lanes /\ QueryInBounds(p, i)
    BY DEF Writes
  <1>2. Query(p, i) \in Nat /\ Length(p[2]) \in Nat /\ First(p[2]) \in Nat /\ p[2] \in Batch
    BY <1>1, GridFacts
  <1>3. Query(p, i) < Length(p[2])
    BY <1>1 DEF QueryInBounds
  <1>4. RowOf(p, i) \in TokensOf(p[2])
    BY <1>2, <1>3 DEF RowOf, TokensOf
  <1>5. SequenceOf(RowOf(p, i)) = p[2]
    BY <1>2, <1>4, OneSequence DEF SequenceOf
  <1>6. QED
    BY <1>1, <1>2, <1>3, <1>4, <1>5 DEF Tokens

LEMMA LaneScores ==
  ASSUME LaunchOK, NEW p \in Grid, NEW i \in Writes(p), NEW t \in TokensOf(p[2])
  PROVE  LET k == t - First(p[2]) IN
         /\ k \in 0..(Length(p[2]) - 1)
         /\ ~Kept(p[2], Query(p, i)) => Lane(p, i)[k] = 0 /\ Attended(RowOf(p, i)) = {}
         /\ Kept(p[2], Query(p, i)) =>
              /\ Attended(RowOf(p, i)) # {}
              /\ t \notin Attended(RowOf(p, i)) => Lane(p, i)[k] = NegInf
              /\ t \in Attended(RowOf(p, i)) => Lane(p, i)[k] = scores[<<RowOf(p, i), t>>]
  <1> DEFINE k == t - First(p[2])
             q == RowOf(p, i)
  <1>1. First(p[2]) \in Nat /\ Length(p[2]) \in Nat /\ t \in First(p[2])..(First(p[2]) + Length(p[2]) - 1)
    BY WrittenLane, GridFacts DEF TokensOf
  <1>2. k \in 0..(Length(p[2]) - 1) /\ k \in Nat /\ First(p[2]) + k = t
    BY <1>1
  <1>3. QueryInBounds(p, i) /\ SequenceOf(q) = p[2] /\ q = First(p[2]) + Query(p, i) /\ q \in TokensOf(p[2])
    BY WrittenLane DEF RowOf
  <1>4. KeyInBounds(p, k)
    BY <1>1, <1>2 DEF KeyInBounds
  <1>5. Lane(p, i)[k] = Masked(p, i, k)
    BY <1>2, <1>3 DEF Lane, Score
  <1>6. /\ Kept(p[2], Query(p, i)) <=> (launch.layout = "padded" => q \in launch.kept)
        /\ Kept(p[2], k) <=> (launch.layout = "padded" => t \in launch.kept)
    BY <1>2, <1>3 DEF Kept
  <1>7. Attended(q) = {x \in TokensOf(p[2]) :
                         launch.layout = "padded" => q \in launch.kept /\ x \in launch.kept}
    BY <1>3 DEF Attended
  <1> HIDE DEF k, q
  <1>8. ASSUME ~Kept(p[2], Query(p, i)) PROVE Lane(p, i)[k] = 0 /\ Attended(q) = {}
    BY <1>3, <1>4, <1>5, <1>6, <1>7, <1>8 DEF Masked
  <1>9. ASSUME Kept(p[2], Query(p, i))
        PROVE  /\ Attended(q) # {}
               /\ t \notin Attended(q) => Lane(p, i)[k] = NegInf
               /\ t \in Attended(q) => Lane(p, i)[k] = scores[<<q, t>>]
    <2>1. q \in Attended(q)
      BY <1>3, <1>6, <1>7, <1>9
    <2>2. t \in Attended(q) <=> Kept(p[2], k)
      BY <1>6, <1>7, <1>9
    <2>3. Masked(p, i, k) = IF Kept(p[2], k) THEN scores[<<q, First(p[2]) + k>>] ELSE NegInf
      BY <1>3, <1>4, <1>9 DEF Masked, q
    <2>4. QED
      BY <1>2, <1>5, <2>1, <2>2, <2>3
  <1>10. QED
    BY <1>2, <1>8, <1>9 DEF k, q

LEMMA LaneReference ==
  ASSUME LaunchOK, scores \in ScoreTables, NEW p \in Grid, NEW i \in Writes(p),
         NEW n \in Nat, NEW row, Holds(p, i, row, n), Length(p[2]) <= n
  PROVE  \E x, y \in Nat \ {0} : \A t \in Tokens :
           /\ ReferenceWeight(RowOf(p, i), t) \in Int
           /\ row.acc[t] * x = ReferenceWeight(RowOf(p, i), t) * y
  <1> DEFINE c == Lane(p, i)
             f == First(p[2])
             q == RowOf(p, i)
             R == TokensOf(p[2])
             m == row.max
             W == Weight(c, m)
  <1>1. i \in Lanes /\ c \in ScoreRows /\ SequenceOf(q) = p[2]
    BY WrittenLane, LaneTyped
  <1>2. /\ m \in Scale /\ IsMax(c, m, 0..(n - 1)) /\ m # NegInf
        /\ \A t \in R : row.acc[t] = W[t - f]
        /\ \A t \in Tokens \ R : row.acc[t] = 0
    <2>1. /\ m \in Scale /\ IsMax(c, m, 0..(n - 1))
          /\ \A t \in R : row.acc[t] = W[t - f]
          /\ \A t \in Tokens \ R : row.acc[t] = 0
      BY <1>1, SumIsWhole
    <2>2. m # NegInf
      BY <2>1, ScaleFacts
    <2>3. QED
      BY <2>1, <2>2
  <1>3. /\ Spread \in Nat /\ One \in Nat \ {0} /\ One = Power(2, Spread)
        /\ \A a \in Scale : a \in Int /\ a # NegInf /\ MaxScore + a \in Nat
        /\ \A a \in Nat : Power(2, a) \in Nat \ {0}
    <2>1. \A a \in Scale : MaxScore + a \in Nat
      BY NumberAssumption DEF Scale
    <2>2. QED
      BY <2>1, ScaleFacts DEF One
  <1>4. \A t \in Tokens \ R : ReferenceWeight(q, t) = 0 /\ row.acc[t] = 0
    <2>1. ASSUME NEW t \in Tokens \ R PROVE ReferenceWeight(q, t) = 0
      <3>1. t \notin TokensOf(SequenceOf(q)) /\ t \notin Attended(q)
        BY <1>1 DEF Attended
      <3> HIDE DEF q, R
      <3>2. QED
        BY <3>1 DEF ReferenceWeight
    <2>2. QED
      BY <1>2, <2>1
  <1>5. \A t \in R : t - f \in Nat /\ t - f \in 0..(n - 1)
    <2>1. f \in Nat /\ Length(p[2]) \in Nat /\ R = f..(f + Length(p[2]) - 1)
      BY <1>1, GridFacts DEF TokensOf
    <2> HIDE DEF R, f
    <2>2. QED
      BY <2>1
  <1>6. CASE ~Kept(p[2], Query(p, i))
    <2>1. \A t \in R : c[t - f] = 0 /\ Attended(q) = {}
      BY <1>6, LaneScores
    <2>2. m = 0
      <3>1. PICK k \in 0..(n - 1) : c[k] = m
        BY <1>2 DEF IsMax
      <3>2. k \in 0..(Length(p[2]) - 1)
        <4>1. CASE Length(p[2]) <= k
          BY <1>1, <1>2, <3>1, <4>1, BeyondIsMasked
        <4>2. QED
          BY <1>1, <4>1, <3>1, GridFacts
      <3>3. f + k \in R /\ (f + k) - f = k
        BY <1>1, <3>2, GridFacts DEF TokensOf
      <3>4. QED
        BY <2>1, <3>1, <3>3
    <2>3. ASSUME NEW t \in R PROVE row.acc[t] = One /\ ReferenceWeight(q, t) = 1
      <3>1. W[t - f] = Power(2, Spread + 0 - 0)
        BY <1>1, <1>2, <1>5, <2>1, <2>2, WeightFacts
      <3>2. Spread + 0 - 0 = Spread
        BY <1>3
      <3>3. ReferenceWeight(q, t) = 1
        BY <1>1, <2>1 DEF ReferenceWeight
      <3>4. QED
        BY <1>2, <1>3, <3>1, <3>2, <3>3
    <2> HIDE DEF R, q
    <2>4. \A t \in Tokens : /\ ReferenceWeight(q, t) \in Int
                            /\ row.acc[t] * 1 = ReferenceWeight(q, t) * One
      BY <1>3, <1>4, <2>3
    <2>5. QED
      BY <1>3, <2>4 DEF q
  <1>7. CASE Kept(p[2], Query(p, i))
    <2> DEFINE x == Power(2, MaxScore + m)
    <2>1. x \in Nat \ {0}
      BY <1>2, <1>3
    <2>2. ASSUME NEW t \in R
          PROVE  ReferenceWeight(q, t) \in Int /\ row.acc[t] * x = ReferenceWeight(q, t) * One
      <3> DEFINE k == t - f
      <3>1. k \in Nat /\ k \in 0..(n - 1) /\ Attended(q) # {} /\ row.acc[t] = W[k]
        BY <1>2, <1>5, <1>7, LaneScores
      <3>2. CASE t \notin Attended(q)
        <4>1. c[k] = NegInf
          BY <1>7, <3>2, LaneScores
        <4>2. W[k] = 0
          BY <1>1, <1>2, <3>1, <4>1, WeightFacts
        <4>3. ReferenceWeight(q, t) = 0
          BY <1>1, <3>1, <3>2 DEF ReferenceWeight
        <4> HIDE DEF x
        <4>4. QED
          BY <1>3, <2>1, <3>1, <4>2, <4>3
      <3>3. CASE t \in Attended(q)
        <4> DEFINE a == scores[<<q, t>>]
        <4>1. c[k] = a
          BY <1>7, <3>3, LaneScores
        <4>2. ReferenceWeight(q, t) = Power(2, MaxScore + a)
          BY <1>1, <3>1, <3>3 DEF ReferenceWeight
        <4>3. a \in Scale
          <5>1. a # NegInf => a \in Scale
            BY <1>1, <3>1, <4>1 DEF ScoreRows
          <5>2. QueryInBounds(p, i) /\ KeyInBounds(p, k) /\ f + k = t
            BY <1>1, WrittenLane, LaneScores, GridFacts DEF KeyInBounds, TokensOf
          <5>3. QED
            BY <1>1, <3>1, <5>2, PairTyped
        <4> HIDE DEF a, c, q, R, f, k
        <4>4. W[k] = Power(2, Spread + a - m)
          BY <1>1, <1>2, <1>3, <3>1, <4>1, <4>3, WeightFacts
        <4> DEFINE u == Spread + a - m
                   v == MaxScore + m
                   z == MaxScore + a
        <4>5. u \in Nat /\ v \in Nat /\ z \in Nat /\ u + v = z + Spread
          <5>1. u \in Nat
            BY <1>2, <4>3, ScaleFacts
          <5>2. a \in Int /\ m \in Int /\ v \in Nat /\ z \in Nat
            BY <1>2, <1>3, <4>3
          <5>3. QED
            BY <1>3, <5>1, <5>2, NumberAssumption
        <4> HIDE DEF u, v, z, m
        <4>6. Power(2, u + v) = Power(2, u) * Power(2, v)
          BY <4>5, PowerOfSum
        <4>7. Power(2, z + Spread) = Power(2, z) * Power(2, Spread)
          BY <1>3, <4>5, PowerOfSum
        <4>8. Power(2, u) * Power(2, v) = Power(2, z) * One
          BY <1>3, <4>5, <4>6, <4>7
        <4>9. row.acc[t] = Power(2, u) /\ x = Power(2, v) /\ ReferenceWeight(q, t) = Power(2, z)
          BY <3>1, <4>2, <4>4 DEF u, v, z
        <4>10. QED
          BY <1>3, <4>5, <4>8, <4>9
      <3>4. QED
        BY <3>2, <3>3
    <2> HIDE DEF x, R, q
    <2>3. ASSUME NEW t \in Tokens
          PROVE  ReferenceWeight(q, t) \in Int /\ row.acc[t] * x = ReferenceWeight(q, t) * One
      BY <1>3, <1>4, <2>1, <2>2
    <2>4. QED
      BY <1>3, <2>1, <2>3 DEF q
  <1>8. QED
    BY <1>6, <1>7

LEMMA RowIsReference ==
  ASSUME LaunchOK, scores \in ScoreTables, NEW p \in Grid, NEW i \in Writes(p),
         NEW n \in Nat, NEW row, Holds(p, i, row, n), Length(p[2]) <= n
  PROVE  LET weight == [k \in Tokens |-> ReferenceWeight(RowOf(p, i), k)]
         IN  \A k \in Tokens : row.acc[k] * SumOver(weight, Tokens) = weight[k] * row.sum
  <1> DEFINE weight == [k \in Tokens |-> ReferenceWeight(RowOf(p, i), k)]
             acc == row.acc
             total == SumOver(weight, Tokens)
  <1>1. PICK x \in Nat \ {0}, y \in Nat \ {0} : \A t \in Tokens :
           /\ ReferenceWeight(RowOf(p, i), t) \in Int
           /\ acc[t] * x = ReferenceWeight(RowOf(p, i), t) * y
    BY LaneReference
  <1>2. \A t \in Tokens : weight[t] \in Int /\ acc[t] * x = weight[t] * y
    BY <1>1
  <1>3. (\A t \in Tokens : acc[t] \in Int) /\ row.sum = SumOver(acc, Tokens)
    BY WrittenLane, SumIsWhole
  <1>4. IsFiniteSet(Tokens)
    BY TokensFit
  <1> DEFINE h == [t \in Tokens |-> x * acc[t]]
  <1>5. \A t \in Tokens : h[t] = x * acc[t] /\ h[t] = y * weight[t]
    <2>1. ASSUME NEW t \in Tokens PROVE h[t] = x * acc[t] /\ h[t] = y * weight[t]
      <3>1. h[t] = x * acc[t]
        OBVIOUS
      <3>2. acc[t] \in Int /\ weight[t] \in Int /\ acc[t] * x = weight[t] * y
        BY <1>2, <1>3
      <3> HIDE DEF h, acc, weight
      <3>3. x * acc[t] = y * weight[t]
        BY <3>2
      <3>4. QED
        BY <3>1, <3>3
    <2>2. QED
      BY <2>1
  <1> HIDE DEF weight, acc, h
  <1>6. SumOver(h, Tokens) = x * SumOver(acc, Tokens)
    BY <1>3, <1>4, <1>5, SumScaled
  <1>7. SumOver(h, Tokens) = y * SumOver(weight, Tokens)
    BY <1>2, <1>4, <1>5, SumScaled
  <1>8. SumOver(acc, Tokens) \in Int
    BY <1>3, <1>4, SumLaws
  <1>9. total \in Int
    BY <1>2, <1>4, SumLaws
  <1>10. x * row.sum = y * total /\ row.sum \in Int
    BY <1>3, <1>6, <1>7, <1>8
  <1> HIDE DEF total
  <1>11. ASSUME NEW k \in Tokens PROVE acc[k] * total = weight[k] * row.sum
    <2> DEFINE a == acc[k]
               b == weight[k]
               s == row.sum
    <2>2. a \in Int /\ b \in Int /\ s \in Int /\ x \in Int /\ y \in Int /\ y # 0
      BY <1>2, <1>3, <1>10
    <2>3. a * x = b * y /\ x * s = y * total
      BY <1>2, <1>10
    <2> HIDE DEF a, b, s
    <2>4. (a * total) * y = (b * s) * y
      <3>1. (a * total) * y = a * (y * total)
        BY <1>9, <2>2
      <3>2. a * (x * s) = (a * x) * s
        BY <2>2
      <3>3. (b * y) * s = (b * s) * y
        BY <2>2
      <3>4. QED
        BY <2>3, <3>1, <3>2, <3>3
    <2>5. a * total \in Int /\ b * s \in Int
      BY <1>9, <2>2
    <2>6. a * total = b * s
      BY <2>2, <2>4, <2>5, CancelEqualFactor
    <2>7. QED
      BY <2>6 DEF a, b, s
  <1>12. QED
    BY <1>11 DEF weight, acc, total

------------------------------------------------------------------------------
(* The invariant of a launch. What the lanes hold is what the softmax of   *)
(* the keys so far adds up to, if the host's maximum covers the sequences; *)
(* what is written is what the lanes of a program that stored hold, and a  *)
(* program stores only when no keys are left.                              *)

ProgramsTyped ==
  /\ programs = [p \in Grid |-> programs[p]]
  /\ \A p \in Grid :
       /\ programs[p] = [keyStart |-> programs[p].keyStart, rows |-> programs[p].rows,
                         stored |-> programs[p].stored]
       /\ programs[p].keyStart \in Nat
       /\ programs[p].stored \in BOOLEAN

TilesInOrder ==
  \A p \in Grid :
    /\ programs[p].keyStart = 0 \/ launch.blockN <= programs[p].keyStart
    /\ programs[p].stored => ~KeysLeft(p)

RowsHold ==
  Covered => \A p \in Grid, i \in Lanes :
    Holds(p, i, programs[p].rows[i], programs[p].keyStart)

OutputHolds ==
  /\ output = [t \in Tokens |-> output[t]]
  /\ \A p \in Grid : programs[p].stored =>
       \A i \in Writes(p) : output[RowOf(p, i)] = programs[p].rows[i]
  /\ \A t \in Tokens : output[t] # Unwritten =>
       \E p \in Grid : programs[p].stored /\ \E i \in Writes(p) : RowOf(p, i) = t

TileInv ==
  /\ LaunchOK
  /\ scores \in ScoreTables
  /\ ProgramsTyped
  /\ TilesInOrder
  /\ RowsHold
  /\ OutputHolds

LEMMA FreshLaunch ==
  LaunchOK /\ scores \in ScoreTables /\ programs = NewPrograms /\ output = NewOutput => TileInv
  <1> SUFFICES ASSUME LaunchOK, scores \in ScoreTables, programs = NewPrograms, output = NewOutput
               PROVE  TileInv
    OBVIOUS
  <1>1. \A p \in Grid : programs[p] = NewProgram
    BY DEF NewPrograms
  <1>2. /\ NewProgram.keyStart = 0 /\ NewProgram.stored = FALSE
        /\ NewProgram = [keyStart |-> NewProgram.keyStart, rows |-> NewProgram.rows,
                         stored |-> NewProgram.stored]
        /\ \A i \in Lanes : NewProgram.rows[i] = NewRow
    BY DEF NewProgram
  <1>3. ProgramsTyped
    <2>1. programs = [p \in Grid |-> programs[p]]
      BY DEF NewPrograms
    <2>2. ASSUME NEW p \in Grid
          PROVE  /\ programs[p] = [keyStart |-> programs[p].keyStart, rows |-> programs[p].rows,
                                   stored |-> programs[p].stored]
                 /\ programs[p].keyStart \in Nat
                 /\ programs[p].stored \in BOOLEAN
      <3>1. NewProgram.stored \in BOOLEAN
        BY <1>2, Zenon
      <3>2. NewProgram.keyStart \in Nat
        BY <1>2
      <3>3. programs[p] = NewProgram
        BY <1>1
      <3>4. QED
        BY <1>2, <3>1, <3>2, <3>3
    <2>3. QED
      BY <2>1, <2>2 DEF ProgramsTyped
  <1>4. TilesInOrder
    BY <1>1, <1>2 DEF TilesInOrder
  <1>5. RowsHold
    BY <1>1, <1>2, NewRowHolds DEF RowsHold
  <1>6. OutputHolds
    <2>1. output = [t \in Tokens |-> output[t]] /\ \A t \in Tokens : output[t] = Unwritten
      BY DEF NewOutput
    <2>2. QED
      BY <1>1, <1>2, <2>1 DEF OutputHolds
  <1>7. QED
    BY <1>3, <1>4, <1>5, <1>6 DEF TileInv

(* No two lanes write the same row.                                        *)
LEMMA QuotientUnique ==
  ASSUME NEW a \in Nat, NEW b \in Nat, NEW m \in Nat, NEW i \in Nat, NEW j \in Nat,
         i < m, j < m, a < b
  PROVE  a * m + i # b * m + j
  <1>1. a + 1 \in Nat /\ a + 1 <= b /\ m <= m
    OBVIOUS
  <1>2. (a + 1) * m <= b * m
    BY <1>1, ProductMonotone
  <1>3. (a + 1) * m = a * m + m /\ a * m \in Nat /\ b * m \in Nat
    OBVIOUS
  <1>4. QED
    BY <1>2, <1>3

LEMMA OneWriter ==
  ASSUME LaunchOK, NEW p \in Grid, NEW r \in Grid, NEW i \in Writes(p), NEW j \in Writes(r),
         RowOf(p, i) = RowOf(r, j)
  PROVE  p = r /\ i = j
  <1>1. i \in Lanes /\ j \in Lanes /\ SequenceOf(RowOf(p, i)) = p[2] /\ SequenceOf(RowOf(r, j)) = r[2]
    BY WrittenLane
  <1>2. p[2] = r[2]
    BY <1>1
  <1>3. /\ p[1] \in Nat /\ r[1] \in Nat /\ i \in Nat /\ j \in Nat /\ launch.blockM \in Nat
        /\ i < launch.blockM /\ j < launch.blockM
        /\ p = <<p[1], p[2]>> /\ r = <<r[1], r[2]>>
        /\ First(p[2]) \in Nat /\ Query(p, i) \in Nat /\ Query(r, j) \in Nat
    BY <1>1, GridFacts DEF LaunchOK, Fits
  <1>4. Query(p, i) = Query(r, j)
    BY <1>2, <1>3 DEF RowOf
  <1>5. p[1] * launch.blockM + i = r[1] * launch.blockM + j
    BY <1>4 DEF Query
  <1> DEFINE a == p[1]
             b == r[1]
             m == launch.blockM
  <1>6. a \in Nat /\ b \in Nat /\ m \in Nat /\ i < m /\ j < m /\ (a * m) + i = (b * m) + j
    BY <1>3, <1>5
  <1> HIDE DEF a, b, m
  <1>7. a = b
    <2>1. ~(a < b) /\ ~(b < a)
      BY <1>3, <1>6, QuotientUnique
    <2>2. QED
      BY <1>6, <2>1
  <1>8. i = j
    <2>1. a * m \in Nat /\ b * m = a * m
      BY <1>6, <1>7
    <2>2. (a * m) + i = (a * m) + j
      BY <1>6, <2>1
    <2> DEFINE x == a * m
    <2>3. x \in Int /\ i \in Int /\ j \in Int /\ x + i = x + j
      BY <1>3, <2>1, <2>2
    <2> HIDE DEF x
    <2>4. QED
      BY ONLY <2>3
  <1>9. p[1] = r[1]
    BY <1>7 DEF a, b
  <1>10. QED
    BY <1>2, <1>3, <1>8, <1>9

(* The launch is fixed while its programs run.                             *)
LEMMA LaunchStands ==
  ASSUME launch' = launch, scores' = scores
  PROVE  /\ LaunchOK' = LaunchOK
         /\ Batch' = Batch /\ Grid' = Grid /\ Lanes' = Lanes /\ Tokens' = Tokens
         /\ Covered' = Covered
         /\ \A s : First(s)' = First(s) /\ Length(s)' = Length(s)
         /\ \A p, i : Lane(p, i)' = Lane(p, i) /\ RowOf(p, i)' = RowOf(p, i)
         /\ \A p : Writes(p)' = Writes(p)
  <1>1. Batch' = Batch /\ Longest' = Longest /\ \A s : Length(s)' = Length(s)
    BY DEF Batch, Longest, Length
  <1>2. \A s : First(s)' = First(s)
    BY <1>1 DEF First
  <1>3. \A s : TokensOf(s)' = TokensOf(s)
    BY <1>1, <1>2 DEF TokensOf
  <1>4. Tokens' = Tokens
    BY <1>1, <1>3 DEF Tokens
  <1>5. Grid' = Grid /\ Lanes' = Lanes
    BY <1>1 DEF Grid, Lanes, Blocks
  <1>6. Covered' = Covered
    BY <1>1 DEF Covered
  <1>7. LaunchOK' = LaunchOK
    BY DEF LaunchOK, Fits, RowsOf
  <1>8. \A p, i : Query(p, i)' = Query(p, i)
    BY DEF Query
  <1>9. \A p, i : QueryInBounds(p, i)' = QueryInBounds(p, i) /\ RowOf(p, i)' = RowOf(p, i)
    BY <1>1, <1>2, <1>8 DEF QueryInBounds, RowOf
  <1>10. \A p, k : KeyInBounds(p, k)' = KeyInBounds(p, k)
    BY <1>1 DEF KeyInBounds
  <1>11. \A s, n : Kept(s, n)' = Kept(s, n)
    BY <1>2 DEF Kept
  <1>12. ASSUME NEW p, NEW i, NEW k PROVE Score(p, i, k)' = Score(p, i, k)
    <2>1. Kept(p[2], Query(p, i))' = Kept(p[2], Query(p, i))
      BY <1>2, <1>8 DEF Kept
    <2>2. Masked(p, i, k)' = Masked(p, i, k)
      BY <1>2, <1>9, <1>10, <1>11, <2>1 DEF Masked
    <2>3. QED
      BY <1>9, <2>2 DEF Score
  <1>13. \A p, i : Lane(p, i)' = Lane(p, i)
    BY <1>12 DEF Lane
  <1>14. \A p : Writes(p)' = Writes(p)
    BY <1>5, <1>9 DEF Writes
  <1>15. QED
    BY <1>1, <1>2, <1>4, <1>5, <1>6, <1>7, <1>9, <1>13, <1>14

------------------------------------------------------------------------------
(* The steps of a program preserve the invariant.                          *)

LEMMA AdvanceEffect ==
  ASSUME ProgramsTyped, LaunchOK, NEW p \in Grid, NEW rows, Advance(p, rows)
  PROVE  /\ programs' = [q \in Grid |-> programs'[q]]
         /\ programs'[p].keyStart = programs[p].keyStart + launch.blockN
         /\ programs'[p].rows = rows
         /\ programs'[p].stored = programs[p].stored
         /\ programs'[p] = [keyStart |-> programs'[p].keyStart, rows |-> programs'[p].rows,
                            stored |-> programs'[p].stored]
         /\ \A q \in Grid : q # p => programs'[q] = programs[q]
  <1>1. programs = [q \in Grid |-> programs[q]]
    BY DEF ProgramsTyped
  <1>2. programs[p] = [keyStart |-> programs[p].keyStart, rows |-> programs[p].rows,
                       stored |-> programs[p].stored]
    BY DEF ProgramsTyped
  <1>3. DOMAIN programs = Grid
    BY <1>1
  <1>4. programs' = [programs EXCEPT ![p].rows = rows, ![p].keyStart = @ + launch.blockN]
    BY DEF Advance
  <1>5. programs'[p] = [[programs[p] EXCEPT !.rows = rows]
                          EXCEPT !.keyStart = @ + launch.blockN]
    BY <1>3, <1>4
  <1>6. [programs[p] EXCEPT !.rows = rows] =
          [keyStart |-> programs[p].keyStart, rows |-> rows, stored |-> programs[p].stored]
    BY <1>2
  <1>7. programs'[p] = [keyStart |-> programs[p].keyStart + launch.blockN, rows |-> rows,
                        stored |-> programs[p].stored]
    BY <1>5, <1>6
  <1>8. programs' = [q \in Grid |-> programs'[q]]
    BY <1>3, <1>4
  <1>9. \A q \in Grid : q # p => programs'[q] = programs[q]
    BY <1>3, <1>4
  <1>10. QED
    BY <1>7, <1>8, <1>9

LEMMA AdvancePreserves ==
  ASSUME TileInv, NEW p \in Grid, NEW rows, KeysLeft(p), Advance(p, rows),
         UNCHANGED <<launch, scores, output>>,
         Covered => \A i \in Lanes : Holds(p, i, rows[i], programs[p].keyStart + launch.blockN)
  PROVE  TileInv'
  <1>1. LaunchOK /\ scores \in ScoreTables /\ ProgramsTyped /\ TilesInOrder /\ RowsHold /\ OutputHolds
    BY DEF TileInv
  <1>2. launch' = launch /\ scores' = scores /\ output' = output
    OBVIOUS
  <1>3. /\ LaunchOK' /\ Grid' = Grid /\ Lanes' = Lanes /\ Tokens' = Tokens /\ Covered' = Covered
        /\ \A s : First(s)' = First(s) /\ Length(s)' = Length(s)
        /\ \A q, i : Lane(q, i)' = Lane(q, i) /\ RowOf(q, i)' = RowOf(q, i)
        /\ \A q : Writes(q)' = Writes(q)
    BY <1>1, <1>2, LaunchStands
  <1>4. /\ programs' = [q \in Grid |-> programs'[q]]
        /\ programs'[p].keyStart = programs[p].keyStart + launch.blockN
        /\ programs'[p].rows = rows
        /\ programs'[p].stored = programs[p].stored
        /\ programs'[p] = [keyStart |-> programs'[p].keyStart, rows |-> programs'[p].rows,
                           stored |-> programs'[p].stored]
        /\ \A q \in Grid : q # p => programs'[q] = programs[q]
    BY <1>1, AdvanceEffect
  <1>5. programs[p].keyStart \in Nat /\ launch.blockN \in Nat /\ programs[p].stored \in BOOLEAN
    BY <1>1 DEF ProgramsTyped, LaunchOK, Fits
  <1>6. ~programs[p].stored
    BY <1>1 DEF TilesInOrder
  <1>7. ProgramsTyped'
    <2>1. ASSUME NEW q \in Grid
          PROVE  /\ programs'[q] = [keyStart |-> programs'[q].keyStart, rows |-> programs'[q].rows,
                                    stored |-> programs'[q].stored]
                 /\ programs'[q].keyStart \in Nat
                 /\ programs'[q].stored \in BOOLEAN
      <3>1. CASE q = p
        BY <1>4, <1>5, <3>1
      <3>2. CASE q # p
        BY <1>1, <1>4, <3>2 DEF ProgramsTyped
      <3>3. QED
        BY <3>1, <3>2
    <2>2. QED
      BY <1>3, <1>4, <2>1 DEF ProgramsTyped
  <1>8. TilesInOrder'
    <2>1. ASSUME NEW q \in Grid
          PROVE  /\ programs'[q].keyStart = 0 \/ launch.blockN <= programs'[q].keyStart
                 /\ programs'[q].stored => ~(programs'[q].keyStart < Length(q[2]))
      <3>1. CASE q = p
        BY <1>4, <1>5, <1>6, <3>1
      <3>2. CASE q # p
        BY <1>1, <1>4, <3>2 DEF TilesInOrder, KeysLeft
      <3>3. QED
        BY <3>1, <3>2
    <2>2. QED
      BY <1>2, <1>3, <2>1 DEF TilesInOrder, KeysLeft
  <1>9. RowsHold'
    <2>1. ASSUME Covered, NEW q \in Grid, NEW i \in Lanes
          PROVE  Holds(q, i, programs'[q].rows[i], programs'[q].keyStart)
      <3>1. CASE q = p
        BY <1>4, <2>1, <3>1
      <3>2. CASE q # p
        BY <1>1, <1>4, <2>1, <3>2 DEF RowsHold
      <3>3. QED
        BY <3>1, <3>2
    <2>2. ASSUME Covered, NEW q \in Grid, NEW i \in Lanes
          PROVE  RowOK(Lane(q, i)', Tokens', First(q[2])', Length(q[2])', programs'[q].rows[i],
                       programs'[q].keyStart)
      BY <1>3, <2>1, <2>2 DEF Holds
    <2>3. QED
      BY <1>3, <2>2 DEF RowsHold, Holds
  <1>10. OutputHolds'
    <2>1. ASSUME NEW q \in Grid, programs'[q].stored
          PROVE  q # p /\ programs'[q] = programs[q]
      BY <1>4, <1>6, <2>1
    <2>2. ASSUME NEW q \in Grid, programs'[q].stored, NEW i \in Writes(q)
          PROVE  output'[RowOf(q, i)] = programs'[q].rows[i]
      BY <1>1, <1>2, <2>1, <2>2 DEF OutputHolds
    <2>3. ASSUME NEW t \in Tokens, output'[t] # Unwritten
          PROVE  \E q \in Grid : programs'[q].stored /\ \E i \in Writes(q) : RowOf(q, i) = t
      <3>1. PICK q \in Grid : programs[q].stored /\ \E i \in Writes(q) : RowOf(q, i) = t
        BY <1>1, <1>2, <2>3 DEF OutputHolds
      <3>2. programs'[q] = programs[q]
        BY <1>4, <1>6, <3>1
      <3>3. QED
        BY <3>1, <3>2
    <2>4. output' = [t \in Tokens' |-> output'[t]]
      BY <1>1, <1>2, <1>3 DEF OutputHolds
    <2>5. QED
      BY <1>3, <2>2, <2>3, <2>4 DEF OutputHolds
  <1>11. QED
    BY <1>1, <1>2, <1>3, <1>7, <1>8, <1>9, <1>10 DEF TileInv

LEMMA OnlyTilePreserves ==
  ASSUME TileInv, NEW p \in Grid, OnlyTile(p)
  PROVE  TileInv'
  <1>1. PICK rows : rows = [i \in Lanes |-> RowAtOnce(p, i)]
    OBVIOUS
  <1>2. /\ KeysLeft(p) /\ OneTile /\ Advance(p, rows) /\ UNCHANGED <<launch, scores, output>>
    BY <1>1 DEF OnlyTile
  <1>3. ASSUME Covered, NEW i \in Lanes
        PROVE  Holds(p, i, rows[i], programs[p].keyStart + launch.blockN)
    <2>1. LaunchOK /\ scores \in ScoreTables /\ launch.blockN \in Nat /\ programs[p].keyStart \in Nat
      BY DEF TileInv, LaunchOK, Fits, ProgramsTyped
    <2>2. Length(p[2]) <= launch.blockN /\ Length(p[2]) \in Nat
      BY <1>2, <1>3, <2>1, OneTileHoldsAll, GridFacts
    <2>3. programs[p].keyStart = 0
      BY <1>2, <2>1, <2>2 DEF TileInv, TilesInOrder, KeysLeft
    <2>4. Holds(p, i, RowAtOnce(p, i), launch.blockN)
      BY <1>2, <1>3, <2>1, <2>3, AtOnceStep
    <2>5. rows[i] = RowAtOnce(p, i) /\ programs[p].keyStart + launch.blockN = launch.blockN
      BY <1>1, <2>1, <2>3
    <2>6. QED
      BY <2>4, <2>5
  <1>4. QED
    BY <1>2, <1>3, AdvancePreserves

LEMMA NextTilePreserves ==
  ASSUME TileInv, NEW p \in Grid, NextTile(p)
  PROVE  TileInv'
  <1>1. PICK rows : rows = [i \in Lanes |-> RowOnline(p, i)]
    OBVIOUS
  <1>2. /\ KeysLeft(p) /\ Advance(p, rows) /\ UNCHANGED <<launch, scores, output>>
    BY <1>1 DEF NextTile
  <1>3. ASSUME Covered, NEW i \in Lanes
        PROVE  Holds(p, i, rows[i], programs[p].keyStart + launch.blockN)
    <2>1. LaunchOK /\ scores \in ScoreTables /\ programs[p].keyStart \in Nat
      BY DEF TileInv, ProgramsTyped
    <2>2. Holds(p, i, programs[p].rows[i], programs[p].keyStart)
      BY <1>3 DEF TileInv, RowsHold
    <2>3. Holds(p, i, RowOnline(p, i), programs[p].keyStart + launch.blockN)
      BY <2>1, <2>2, OnlineStep
    <2>4. QED
      BY <1>1, <2>3
  <1>4. QED
    BY <1>2, <1>3, AdvancePreserves

LEMMA StoreEffect ==
  ASSUME TileInv, NEW p \in Grid, Store(p)
  PROVE  /\ launch' = launch /\ scores' = scores
         /\ ~KeysLeft(p) /\ ~programs[p].stored
         /\ programs' = [q \in Grid |-> programs'[q]]
         /\ \A q \in Grid : /\ programs'[q].keyStart = programs[q].keyStart
                            /\ programs'[q].rows = programs[q].rows
                            /\ programs'[q] = [keyStart |-> programs'[q].keyStart,
                                               rows |-> programs'[q].rows,
                                               stored |-> programs'[q].stored]
                            /\ q # p => programs'[q] = programs[q]
         /\ programs'[p].stored = TRUE
         /\ output' = [t \in Tokens |-> output'[t]]
         /\ \A i \in Writes(p) : output'[RowOf(p, i)] = programs[p].rows[i]
         /\ \A t \in Tokens : output'[t] # output[t] => \E i \in Writes(p) : RowOf(p, i) = t
  <1>1. programs = [q \in Grid |-> programs[q]]
    BY DEF TileInv, ProgramsTyped
  <1>2. \A q \in Grid : programs[q] = [keyStart |-> programs[q].keyStart, rows |-> programs[q].rows,
                                       stored |-> programs[q].stored]
    BY DEF TileInv, ProgramsTyped
  <1>3. programs' = [programs EXCEPT ![p].stored = TRUE]
    BY DEF Store
  <1>4. DOMAIN programs = Grid
    BY <1>1
  <1>5. programs'[p] = [programs[p] EXCEPT !.stored = TRUE]
    BY <1>3, <1>4
  <1>6. programs'[p] = [keyStart |-> programs[p].keyStart, rows |-> programs[p].rows, stored |-> TRUE]
    BY <1>2, <1>5
  <1>7. programs' = [q \in Grid |-> programs'[q]] /\ \A q \in Grid : q # p => programs'[q] = programs[q]
    BY <1>3, <1>4
  <1>8. output' = [t \in Tokens |->
                     IF \E i \in Writes(p) : RowOf(p, i) = t
                     THEN programs[p].rows[CHOOSE i \in Writes(p) : RowOf(p, i) = t]
                     ELSE output[t]]
    BY DEF Store
  <1>9. ASSUME NEW i \in Writes(p) PROVE output'[RowOf(p, i)] = programs[p].rows[i]
    <2> DEFINE t == RowOf(p, i)
               j == CHOOSE k \in Writes(p) : RowOf(p, k) = t
    <2>1. LaunchOK
      BY DEF TileInv
    <2>2. t \in Tokens
      BY <2>1, WrittenLane
    <2>3. j \in Writes(p) /\ RowOf(p, j) = t
      OBVIOUS
    <2>4. j = i
      <3> HIDE DEF j
      <3>1. QED
        BY <2>1, <2>3, OneWriter
    <2>5. \E k \in Writes(p) : RowOf(p, k) = t
      OBVIOUS
    <2>6. output'[t] = programs[p].rows[j]
      BY <1>8, <2>2, <2>5
    <2>7. QED
      BY <2>4, <2>6
  <1>10. \A t \in Tokens : output'[t] # output[t] => \E i \in Writes(p) : RowOf(p, i) = t
    BY <1>8
  <1>11. output' = [t \in Tokens |-> output'[t]]
    BY <1>8
  <1>12. ASSUME NEW q \in Grid
         PROVE  /\ programs'[q].keyStart = programs[q].keyStart
                /\ programs'[q].rows = programs[q].rows
                /\ programs'[q] = [keyStart |-> programs'[q].keyStart, rows |-> programs'[q].rows,
                                   stored |-> programs'[q].stored]
    <2>1. CASE q = p
      BY <1>6, <2>1
    <2>2. CASE q # p
      BY <1>2, <1>7, <2>2
    <2>3. QED
      BY <2>1, <2>2
  <1>13. launch' = launch /\ scores' = scores /\ ~KeysLeft(p) /\ ~programs[p].stored
    BY DEF Store
  <1>14. programs'[p].stored = TRUE
    BY <1>6
  <1>15. QED
    BY <1>7, <1>9, <1>10, <1>11, <1>12, <1>13, <1>14

(* A row that is written belongs to a program that has stored, and no      *)
(* other program writes it.                                                *)
LEMMA StoreLeavesWritten ==
  ASSUME TileInv, NEW p \in Grid, Store(p), NEW t \in Tokens, output[t] # Unwritten
  PROVE  output'[t] = output[t]
  <1>1. PICK q \in Grid : programs[q].stored /\ \E i \in Writes(q) : RowOf(q, i) = t
    BY DEF TileInv, OutputHolds
  <1>2. PICK i \in Writes(q) : RowOf(q, i) = t
    BY <1>1
  <1>3. LaunchOK /\ ~programs[p].stored
    BY StoreEffect DEF TileInv
  <1>4. ASSUME NEW j \in Writes(p), RowOf(p, j) = t PROVE FALSE
    BY <1>1, <1>2, <1>3, <1>4, OneWriter
  <1>5. QED
    BY <1>4, StoreEffect

LEMMA StorePreserves ==
  ASSUME TileInv, NEW p \in Grid, Store(p)
  PROVE  TileInv'
  <1>1. LaunchOK /\ scores \in ScoreTables /\ ProgramsTyped /\ TilesInOrder /\ RowsHold /\ OutputHolds
    BY DEF TileInv
  <1>2. /\ launch' = launch /\ scores' = scores
        /\ ~KeysLeft(p) /\ ~programs[p].stored
        /\ programs' = [q \in Grid |-> programs'[q]]
        /\ programs'[p].stored = TRUE
        /\ output' = [t \in Tokens |-> output'[t]]
        /\ \A i \in Writes(p) : output'[RowOf(p, i)] = programs[p].rows[i]
        /\ \A t \in Tokens : output'[t] # output[t] => \E i \in Writes(p) : RowOf(p, i) = t
    BY StoreEffect
  <1>3. \A q \in Grid : /\ programs'[q].keyStart = programs[q].keyStart
                        /\ programs'[q].rows = programs[q].rows
                        /\ programs'[q] = [keyStart |-> programs'[q].keyStart,
                                           rows |-> programs'[q].rows,
                                           stored |-> programs'[q].stored]
                        /\ q # p => programs'[q] = programs[q]
    BY StoreEffect
  <1>4. /\ LaunchOK' /\ Grid' = Grid /\ Lanes' = Lanes /\ Tokens' = Tokens /\ Covered' = Covered
        /\ \A s : First(s)' = First(s) /\ Length(s)' = Length(s)
        /\ \A q, i : Lane(q, i)' = Lane(q, i) /\ RowOf(q, i)' = RowOf(q, i)
        /\ \A q : Writes(q)' = Writes(q)
    BY <1>1, <1>2, LaunchStands
  <1>5. ProgramsTyped'
    <2>1. ASSUME NEW q \in Grid
          PROVE  programs'[q].keyStart \in Nat /\ programs'[q].stored \in BOOLEAN
      <3>1. programs'[q].keyStart \in Nat
        BY <1>1, <1>3 DEF ProgramsTyped
      <3>2. CASE q = p
        <4>1. programs'[q].stored \in BOOLEAN
          BY <1>2, <3>2, Zenon
        <4>2. QED
          BY <3>1, <4>1
      <3>3. CASE q # p
        BY <1>1, <1>3, <3>1, <3>3 DEF ProgramsTyped
      <3>4. QED
        BY <3>2, <3>3
    <2>2. QED
      BY <1>2, <1>3, <1>4, <2>1 DEF ProgramsTyped
  <1>6. TilesInOrder'
    <2>1. ASSUME NEW q \in Grid
          PROVE  /\ programs'[q].keyStart = 0 \/ launch.blockN <= programs'[q].keyStart
                 /\ programs'[q].stored => ~(programs'[q].keyStart < Length(q[2]))
      <3>1. CASE q = p
        BY <1>1, <1>2, <1>3, <3>1 DEF TilesInOrder, KeysLeft
      <3>2. CASE q # p
        BY <1>1, <1>3, <3>2 DEF TilesInOrder, KeysLeft
      <3>3. QED
        BY <3>1, <3>2
    <2>2. QED
      BY <1>2, <1>4, <2>1 DEF TilesInOrder, KeysLeft
  <1>7. RowsHold'
    <2>1. ASSUME Covered, NEW q \in Grid, NEW i \in Lanes
          PROVE  RowOK(Lane(q, i)', Tokens', First(q[2])', Length(q[2])', programs'[q].rows[i],
                       programs'[q].keyStart)
      <3>1. Holds(q, i, programs[q].rows[i], programs[q].keyStart)
        BY <1>1, <2>1 DEF RowsHold
      <3>2. Holds(q, i, programs'[q].rows[i], programs'[q].keyStart)
        BY <1>3, <3>1
      <3>3. QED
        BY <1>4, <3>2 DEF Holds
    <2>2. QED
      BY <1>4, <2>1 DEF RowsHold, Holds
  <1>8. OutputHolds'
    <2>1. ASSUME NEW q \in Grid, programs'[q].stored, NEW i \in Writes(q)
          PROVE  output'[RowOf(q, i)] = programs'[q].rows[i]
      <3>1. CASE q = p
        BY <1>2, <1>3, <2>1, <3>1
      <3>2. CASE q # p
        <4>1. programs[q].stored /\ output[RowOf(q, i)] = programs[q].rows[i]
          BY <1>1, <1>3, <2>1, <3>2 DEF OutputHolds
        <4>2. RowOf(q, i) \in Tokens
          BY <1>1, WrittenLane
        <4>3. ~\E j \in Writes(p) : RowOf(p, j) = RowOf(q, i)
          BY <1>1, <3>2, OneWriter
        <4>4. output'[RowOf(q, i)] = output[RowOf(q, i)]
          BY <1>2, <4>2, <4>3
        <4>5. QED
          BY <1>3, <4>1, <4>4
      <3>3. QED
        BY <3>1, <3>2
    <2>2. ASSUME NEW t \in Tokens, output'[t] # Unwritten
          PROVE  \E q \in Grid : programs'[q].stored /\ \E i \in Writes(q) : RowOf(q, i) = t
      <3>1. CASE output'[t] # output[t]
        BY <1>2, <3>1
      <3>2. CASE output'[t] = output[t]
        <4>1. PICK q \in Grid : programs[q].stored /\ \E i \in Writes(q) : RowOf(q, i) = t
          BY <1>1, <2>2, <3>2 DEF OutputHolds
        <4>2. programs'[q].stored
          BY <1>2, <1>3, <4>1
        <4>3. QED
          BY <4>1, <4>2
      <3>3. QED
        BY <3>1, <3>2
    <2>3. output' = [t \in Tokens' |-> output'[t]]
      BY <1>2, <1>4
    <2>4. QED
      BY <1>4, <2>1, <2>2, <2>3 DEF OutputHolds
  <1>9. QED
    BY <1>1, <1>2, <1>4, <1>5, <1>6, <1>7, <1>8 DEF TileInv

LEMMA StutterPreserves ==
  ASSUME TileInv, UNCHANGED vars
  PROVE  TileInv'
  <1>1. LaunchOK /\ scores \in ScoreTables /\ ProgramsTyped /\ TilesInOrder /\ RowsHold /\ OutputHolds
    BY DEF TileInv
  <1>2. launch' = launch /\ scores' = scores /\ programs' = programs /\ output' = output
    BY DEF vars
  <1>3. /\ LaunchOK' /\ Grid' = Grid /\ Lanes' = Lanes /\ Tokens' = Tokens /\ Covered' = Covered
        /\ \A s : First(s)' = First(s) /\ Length(s)' = Length(s)
        /\ \A q, i : Lane(q, i)' = Lane(q, i) /\ RowOf(q, i)' = RowOf(q, i)
        /\ \A q : Writes(q)' = Writes(q)
    BY <1>1, <1>2, LaunchStands
  <1>4. ProgramsTyped'
    BY <1>1, <1>2, <1>3 DEF ProgramsTyped
  <1>5. TilesInOrder'
    BY <1>1, <1>2, <1>3 DEF TilesInOrder, KeysLeft
  <1>6. RowsHold'
    BY <1>1, <1>2, <1>3 DEF RowsHold, Holds
  <1>7. OutputHolds'
    BY <1>1, <1>2, <1>3 DEF OutputHolds
  <1>8. QED
    BY <1>1, <1>2, <1>3, <1>4, <1>5, <1>6, <1>7 DEF TileInv

LEMMA NextPreserves ==
  ASSUME TileInv, Next
  PROVE  TileInv'
  BY OnlyTilePreserves, NextTilePreserves, StorePreserves DEF Next

------------------------------------------------------------------------------
(* What the invariant says of the lanes and of the output.                 *)

LEMMA InvLanesStayDefined ==
  TileInv => LanesStayDefined
  <1> SUFFICES ASSUME TileInv, Covered, NEW p \in Grid, NEW i \in Lanes
               PROVE  /\ programs[p].rows[i].sum # Undefined
                      /\ ~KeysLeft(p) => programs[p].rows[i].sum > 0
    BY DEF LanesStayDefined
  <1>1. LaunchOK /\ scores \in ScoreTables /\ programs[p].keyStart \in Nat
        /\ Holds(p, i, programs[p].rows[i], programs[p].keyStart)
    BY DEF TileInv, ProgramsTyped, RowsHold
  <1>2. /\ programs[p].rows[i].sum \in Nat
        /\ Length(p[2]) <= programs[p].keyStart => programs[p].rows[i].sum > 0
    BY <1>1, HeldRow
  <1>3. ~KeysLeft(p) => Length(p[2]) <= programs[p].keyStart
    BY <1>1, GridFacts DEF KeysLeft
  <1>4. QED
    BY <1>2, <1>3, NumberAssumption

LEMMA InvOutputMatchesReference ==
  TileInv => OutputMatchesReference
  <1> SUFFICES ASSUME TileInv, Covered, NEW q \in Tokens, output[q] # Unwritten
               PROVE  /\ output[q].sum \notin {0, Undefined}
                      /\ LET weight == [k \in Tokens |-> ReferenceWeight(q, k)]
                         IN  \A k \in Tokens :
                               output[q].acc[k] * SumOver(weight, Tokens) = weight[k] * output[q].sum
    BY DEF OutputMatchesReference
  <1>1. PICK p \in Grid : programs[p].stored /\ \E i \in Writes(p) : RowOf(p, i) = q
    BY DEF TileInv, OutputHolds
  <1>2. PICK i \in Writes(p) : RowOf(p, i) = q
    BY <1>1
  <1>3. output[q] = programs[p].rows[i]
    BY <1>1, <1>2 DEF TileInv, OutputHolds
  <1>4. LaunchOK /\ i \in Lanes
    BY WrittenLane DEF TileInv
  <1>5. /\ scores \in ScoreTables /\ programs[p].keyStart \in Nat
        /\ Holds(p, i, programs[p].rows[i], programs[p].keyStart)
    BY <1>4 DEF TileInv, ProgramsTyped, RowsHold
  <1>6. Length(p[2]) <= programs[p].keyStart
    <2>1. ~(programs[p].keyStart < Length(p[2]))
      BY <1>1 DEF TileInv, TilesInOrder, KeysLeft
    <2>2. QED
      BY <1>4, <1>5, <2>1, GridFacts
  <1>7. output[q].sum \notin {0, Undefined}
    <2>1. output[q].sum \in Nat /\ output[q].sum > 0
      BY <1>3, <1>4, <1>5, <1>6, HeldRow
    <2>2. QED
      BY <2>1, NumberAssumption
  <1>8. LET weight == [k \in Tokens |-> ReferenceWeight(RowOf(p, i), k)]
        IN  \A k \in Tokens :
              programs[p].rows[i].acc[k] * SumOver(weight, Tokens) = weight[k] * programs[p].rows[i].sum
    BY <1>4, <1>5, <1>6, RowIsReference
  <1>9. QED
    BY <1>2, <1>3, <1>7, <1>8

(* The grid reaches every query of the host's maximum.                     *)
LEMMA GridCovers ==
  ASSUME LaunchOK, Covered, NEW t \in Tokens
  PROVE  \E p \in Grid : \E i \in Writes(p) : RowOf(p, i) = t
  <1>1. PICK s \in Batch : t \in TokensOf(s)
    BY DEF Tokens
  <1> DEFINE n == t - First(s)
             m == launch.blockM
             b == n \div m
             i == n - m * b
             p == <<b, s>>
  <1>2. First(s) \in Nat /\ Length(s) \in Nat /\ t \in First(s)..(First(s) + Length(s) - 1)
    BY <1>1, Layout DEF TokensOf
  <1>3. n \in Nat /\ n < Length(s) /\ First(s) + n = t
    BY <1>2
  <1>4. m \in Nat \ {0} /\ Longest \in Int /\ Length(s) <= Longest
    BY DEF LaunchOK, Fits, Longest, Covered
  <1> HIDE DEF n, m
  <1>5. b \in Int /\ m * b <= n /\ n < m * b + m
    BY <1>3, <1>4, DivisionLaws
  <1> HIDE DEF b
  <1>6. i \in Nat /\ i < m /\ (m * b) + i = n
    <2> DEFINE x == m * b
    <2>1. x \in Int /\ x <= n /\ n < x + m
      BY <1>4, <1>5
    <2> HIDE DEF x
    <2>2. n - x \in Nat /\ n - x < m /\ x + (n - x) = n
      BY <1>3, <1>4, <2>1
    <2>3. QED
      BY <2>2 DEF x
  <1> HIDE DEF i
  <1>7. b \in Nat
    <2>1. ASSUME b < 0 PROVE FALSE
      <3>1. m * b <= -m
        <4>1. (-b) \in Nat /\ 1 <= (-b) /\ m \in Nat /\ m <= m
          BY <1>4, <1>5, <2>1
        <4>2. 1 * m <= (-b) * m
          BY <4>1, ProductMonotone
        <4>3. (-b) * m = -(m * b) /\ m * b \in Int
          BY <1>4, <1>5
        <4>4. QED
          BY <1>4, <4>2, <4>3
      <3>2. m * b \in Int
        BY <1>4, <1>5
      <3>3. QED
        BY <1>3, <1>4, <1>5, <3>1, <3>2
    <2>2. QED
      BY <1>5, <2>1
  <1>8. b < Blocks /\ Blocks \in Int
    <2> DEFINE e == Longest + m - 1
               c == e \div m
    <2>1. Blocks = c
      BY DEF Blocks, m
    <2>2. e \in Int /\ m * b + m <= e
      <3> DEFINE x == m * b
      <3>1. x \in Int /\ x <= n
        BY <1>4, <1>5
      <3> HIDE DEF x
      <3>2. e \in Int /\ x + m <= e
        BY <1>2, <1>3, <1>4, <3>1
      <3>3. QED
        BY <3>2 DEF x
    <2> HIDE DEF e
    <2>3. c \in Int /\ e < m * c + m
      BY <1>4, <2>2, DivisionLaws
    <2> HIDE DEF c
    <2>4. m * b < m * c
      <3>1. m * b \in Int /\ m * c \in Int
        BY <1>4, <1>5, <2>3
      <3>2. QED
        BY <1>4, <2>2, <2>3, <3>1
    <2>5. ~(c <= b)
      <3>1. ASSUME c <= b PROVE FALSE
        <4>1. b - c \in Nat /\ 0 <= b - c
          BY <1>5, <2>3, <3>1
        <4>2. m * (b - c) = m * b - m * c /\ m * (b - c) >= 0 /\ m * b \in Int /\ m * c \in Int
          BY <1>4, <1>5, <2>3, <4>1
        <4>3. QED
          BY <2>4, <4>2
      <3>2. QED
        BY <3>1
    <2>6. QED
      BY <1>5, <2>1, <2>3, <2>5
  <1>9. p \in Grid
    BY <1>1, <1>7, <1>8 DEF Grid
  <1>10. i \in Lanes
    BY <1>4, <1>6 DEF Lanes, m
  <1>11. Query(p, i) = n
    <2>1. b * m = m * b
      BY <1>4, <1>7
    <2>2. Query(p, i) = (b * m) + i
      BY DEF Query, m
    <2>3. QED
      BY <1>6, <2>1, <2>2
  <1>12. i \in Writes(p) /\ RowOf(p, i) = t
    BY <1>3, <1>10, <1>11 DEF Writes, QueryInBounds, RowOf
  <1>13. QED
    BY <1>9, <1>12

LEMMA InvOutputComplete ==
  TileInv => OutputComplete
  <1> SUFFICES ASSUME TileInv, Covered, \A p \in Grid : programs[p].stored, NEW t \in Tokens
               PROVE  output[t] # Unwritten
    BY DEF OutputComplete
  <1>1. LaunchOK
    BY DEF TileInv
  <1>2. PICK p \in Grid : \E i \in Writes(p) : RowOf(p, i) = t
    BY <1>1, GridCovers
  <1>3. PICK i \in Writes(p) : RowOf(p, i) = t
    BY <1>2
  <1>4. output[t] = programs[p].rows[i]
    BY <1>3 DEF TileInv, OutputHolds
  <1>5. i \in Lanes
    BY <1>1, WrittenLane
  <1>6. /\ scores \in ScoreTables /\ programs[p].keyStart \in Nat
        /\ Holds(p, i, programs[p].rows[i], programs[p].keyStart)
    BY <1>5 DEF TileInv, ProgramsTyped, RowsHold
  <1>7. output[t] \in RowRecord
    BY <1>1, <1>4, <1>5, <1>6, HeldRow
  <1>8. QED
    BY <1>7, UnwrittenAssumption

LEMMA NextWritesOnce ==
  ASSUME TileInv, Next
  PROVE  \A t \in Tokens : output[t] # Unwritten => output'[t] = output[t]
  <1>1. PICK p \in Grid : OnlyTile(p) \/ NextTile(p) \/ Store(p)
    BY DEF Next
  <1>2. CASE OnlyTile(p)
    BY <1>2 DEF OnlyTile
  <1>3. CASE NextTile(p)
    BY <1>3 DEF NextTile
  <1>4. CASE Store(p)
    BY <1>4, StoreLeavesWritten
  <1>5. QED
    BY <1>1, <1>2, <1>3, <1>4

------------------------------------------------------------------------------
(* Boundaries: cu_seqlens and the lengths say the same.                    *)

LEMMA LengthsTyped ==
  ASSUME NEW o \in Seq(Nat), Len(o) >= 2
  PROVE  /\ LengthsOf(o) \in Seq(Int)
         /\ DOMAIN LengthsOf(o) = 1..(Len(o) - 1) /\ Len(LengthsOf(o)) = Len(o) - 1
         /\ \A i \in 1..(Len(o) - 1) : LengthsOf(o)[i] = o[i + 1] - o[i] /\ LengthsOf(o)[i] \in Int
         /\ LengthsOf(o) # <<>>
  <1> DEFINE n == Len(o) - 1
  <1>1. n \in Nat /\ n > 0 /\ \A i \in 1..n : o[i] \in Nat /\ o[i + 1] \in Nat
    OBVIOUS
  <1>2. LengthsOf(o) = [i \in 1..n |-> o[i + 1] - o[i]]
    BY DEF LengthsOf
  <1> HIDE DEF n
  <1>3. \A i \in 1..n : o[i + 1] - o[i] \in Int
    BY <1>1
  <1>4. LengthsOf(o) \in [1..n -> Int]
    BY <1>2, <1>3
  <1>5. LengthsOf(o) \in Seq(Int) /\ Len(LengthsOf(o)) = n
    BY <1>1, <1>4
  <1>6. DOMAIN LengthsOf(o) = 1..n /\ \A i \in 1..n : LengthsOf(o)[i] = o[i + 1] - o[i]
    BY <1>2
  <1>7. LengthsOf(o) # <<>>
    BY <1>1, <1>5
  <1>8. QED
    BY <1>3, <1>5, <1>6, <1>7 DEF n

(* The lengths add up to where the boundaries end.                         *)
LEMMA LengthsTelescope ==
  ASSUME NEW o \in Seq(Nat), Len(o) >= 2
  PROVE  SumOver(LengthsOf(o), DOMAIN LengthsOf(o)) = Last(o) - Head(o)
  <1> DEFINE n == Len(o) - 1
             l == LengthsOf(o)
             N == {k \in Nat : k <= n => SumOver(l, 1..k) = o[k + 1] - o[1]}
  <1>1. /\ n \in Nat /\ n + 1 = Len(o) /\ DOMAIN l = 1..n
        /\ \A i \in 1..n : l[i] = o[i + 1] - o[i] /\ l[i] \in Int
        /\ \A i \in 1..(n + 1) : o[i] \in Nat
    <2>1. n \in Nat /\ n + 1 = Len(o)
      OBVIOUS
    <2>2. DOMAIN l = 1..n /\ \A i \in 1..n : l[i] = o[i + 1] - o[i] /\ l[i] \in Int
      BY LengthsTyped
    <2>3. \A i \in 1..Len(o) : o[i] \in Nat
      OBVIOUS
    <2> HIDE DEF n, l
    <2>4. QED
      BY <2>1, <2>2, <2>3
  <1> HIDE DEF n, l
  <1>2. 0 \in N
    <2>1. SumOver(l, {}) = 0
      BY FS_EmptySet, SumLaws
    <2>2. 1..0 = {}
      OBVIOUS
    <2>3. SumOver(l, 1..0) = 0
      BY <2>1, <2>2
    <2>4. o[0 + 1] - o[1] = 0
      BY <1>1
    <2>5. QED
      BY <2>3, <2>4
  <1>3. ASSUME NEW k \in Nat, k \in N PROVE k + 1 \in N
    <2>1. ASSUME k + 1 <= n PROVE SumOver(l, 1..(k + 1)) = o[(k + 1) + 1] - o[1]
      <3>1. k + 1 \in 1..n /\ k + 2 \in 1..(n + 1) /\ 1 \in 1..(n + 1) /\ (k + 1) - 1 = k /\ (k + 1) + 1 = k + 2
        BY <1>1, <2>1
      <3>2. SumOver(l, 1..(k + 1)) = l[k + 1] + SumOver(l, 1..((k + 1) - 1))
        BY <1>1, <3>1, SumUpTo
      <3>3. SumOver(l, 1..k) = o[k + 1] - o[1]
        BY <1>1, <1>3, <2>1
      <3>4. l[k + 1] = o[k + 2] - o[k + 1] /\ o[k + 1] \in Nat /\ o[k + 2] \in Nat /\ o[1] \in Nat
        BY <1>1, <3>1
      <3>5. SumOver(l, 1..((k + 1) - 1)) = o[k + 1] - o[1]
        BY <3>1, <3>3
      <3>6. SumOver(l, 1..(k + 1)) = o[k + 2] - o[1]
        BY <3>2, <3>4, <3>5
      <3>7. QED
        BY <3>1, <3>6
    <2>2. QED
      BY <2>1
  <1> HIDE DEF N
  <1>4. n \in N
    BY <1>1, <1>2, <1>3, InductionOnNat
  <1>5. SumOver(l, 1..n) = o[n + 1] - o[1]
    BY <1>1, <1>4 DEF N
  <1>6. Last(o) = o[n + 1] /\ Head(o) = o[1]
    <2>1. Head(o) = o[1]
      OBVIOUS
    <2>2. QED
      BY <1>1, <2>1 DEF Last
  <1>7. QED
    BY <1>1, <1>5, <1>6 DEF l

LEMMA LongestTyped ==
  ASSUME NEW o \in Seq(Nat), Len(o) >= 2
  PROVE  Max(ToSet(LengthsOf(o))) \in Int
  <1> DEFINE l == LengthsOf(o)
             n == Len(o) - 1
             S == ToSet(l)
  <1>1. n \in Nat /\ n > 0 /\ DOMAIN l = 1..n /\ \A i \in 1..n : l[i] \in Int
    BY LengthsTyped
  <1>2. S \in SUBSET Int /\ S # {}
    BY <1>1 DEF ToSet
  <1>3. IsFiniteSet(S)
    <2> DEFINE f == [i \in 1..n |-> l[i]]
    <2>1. f \in Surjection(1..n, S)
      BY <1>1 DEF ToSet, Surjection
    <2>2. IsFiniteSet(1..n)
      BY <1>1, RangeIsFinite
    <2> HIDE DEF f, S
    <2>3. QED
      BY <2>1, <2>2, FS_Surjection
  <1> HIDE DEF S
  <1>4. Max(S) \in S
    BY <1>2, <1>3, FiniteHasMax
  <1>5. QED
    BY <1>2, <1>4 DEF S

(* What resolve_packed_info accepts, validate_cu_seqlens would accept.     *)
LEMMA TrustedIsValidated ==
  ASSUME NEW r, r.info.offsets \in Seq(Nat), Trusts(r),
         r.info = [offsets |-> r.info.offsets, lengths |-> r.info.lengths,
                   maxSeqlen |-> r.info.maxSeqlen]
  PROVE  /\ Validates(r.info.offsets, r.total, r.maxSeqlen)
         /\ InfoOf(r.info.offsets) = r.info
  <1>1. InfoOf(r.info.offsets) = r.info
    BY DEF InfoOf, Trusts
  <1>2. Len(r.info.offsets) >= 2
    BY DEF Trusts
  <1>3. QED
    BY <1>1, <1>2 DEF Validates, Trusts

RequestOK(r) ==
  /\ r.cu \in Seq(Nat)
  /\ r.total \in 0..MaxTokens
  /\ r.info # None =>
       /\ r.info = [offsets |-> r.info.offsets, lengths |-> r.info.lengths,
                    maxSeqlen |-> r.info.maxSeqlen]
       /\ r.info.offsets \in Seq(Nat)
       /\ Trusts(r) => Validates(r.cu, r.total, None)

LEMMA CallerRequestOK ==
  ASSUME NEW r \in Requests
  PROVE  RequestOK(r)
  <1>1. r \in [cu : Seq(Nat), total : 0..MaxTokens, maxSeqlen : Nat \cup {None},
               info : InfoRecord \cup {None}]
    BY PackedAssumption
  <1>2. r.cu \in Seq(Nat) /\ r.total \in 0..MaxTokens /\ r.info \in InfoRecord \cup {None}
    BY <1>1
  <1>3. ASSUME r.info # None
        PROVE  /\ r.info = [offsets |-> r.info.offsets, lengths |-> r.info.lengths,
                            maxSeqlen |-> r.info.maxSeqlen]
               /\ r.info.offsets \in Seq(Nat)
    BY <1>2, <1>3 DEF InfoRecord
  <1>4. r.info # None => Validates(r.cu, r.total, None)
    BY DeviceAssumption
  <1>5. QED
    BY <1>2, <1>3, <1>4 DEF RequestOK

LEMMA AcceptedBoundaries ==
  ASSUME NEW r, RequestOK(r), Accepts(r)
  PROVE  /\ Validates(r.cu, r.total, None)
         /\ Resolved(r).maxSeqlen \in Int
         /\ Validates(Resolved(r).offsets, r.total, r.maxSeqlen)
         /\ InfoOf(Resolved(r).offsets) = Resolved(r)
  <1>1. r.cu \in Seq(Nat)
    BY DEF RequestOK
  <1>2. CASE r.info = None
    <2>1. Validates(r.cu, r.total, r.maxSeqlen) /\ Resolved(r) = InfoOf(r.cu)
      BY <1>2 DEF Accepts, Resolved
    <2>2. InfoOf(r.cu).offsets = r.cu /\ InfoOf(r.cu).maxSeqlen = Max(ToSet(LengthsOf(r.cu)))
      BY DEF InfoOf
    <2>3. Validates(r.cu, r.total, None) /\ Len(r.cu) >= 2
      BY <2>1 DEF Validates, Agrees
    <2>4. Max(ToSet(LengthsOf(r.cu))) \in Int
      BY <1>1, <2>3, LongestTyped
    <2>5. QED
      BY <2>1, <2>2, <2>3, <2>4
  <1>3. CASE r.info # None
    <2>1. Trusts(r) /\ Resolved(r) = r.info
      BY <1>3 DEF Accepts, Resolved
    <2>2. /\ r.info = [offsets |-> r.info.offsets, lengths |-> r.info.lengths,
                       maxSeqlen |-> r.info.maxSeqlen]
          /\ r.info.offsets \in Seq(Nat)
          /\ Validates(r.cu, r.total, None)
      BY <1>3, <2>1 DEF RequestOK
    <2>3. Validates(r.info.offsets, r.total, r.maxSeqlen) /\ InfoOf(r.info.offsets) = r.info
      BY <2>1, <2>2, TrustedIsValidated
    <2>4. Len(r.info.offsets) >= 2 /\ r.info.maxSeqlen = Max(ToSet(LengthsOf(r.info.offsets)))
      BY <2>1 DEF Trusts
    <2>5. r.info.maxSeqlen \in Int
      BY <2>2, <2>4, LongestTyped
    <2>6. QED
      BY <2>1, <2>2, <2>3, <2>5
  <1>4. QED
    BY <1>2, <1>3

------------------------------------------------------------------------------
(* A right-padded batch and its packed rows.                               *)

LEMMA RowLengthsTyped ==
  ASSUME NEW b \in Batches
  PROVE  /\ b.rows \in Nat \ {0} /\ b.width \in Nat /\ b.mask \in SUBSET Places(b)
         /\ IsFiniteSet(b.mask) /\ Cardinality(b.mask) \in 0..MaxTokens
         /\ RowLengths(b) \in Seq(Nat) /\ Len(RowLengths(b)) = b.rows
         /\ DOMAIN RowLengths(b) = 1..b.rows
         /\ \A s \in 1..b.rows : RowLengths(b)[s] \in Nat
  <1>1. /\ b.rows \in Nat \ {0} /\ b.width \in Nat /\ b.mask \in SUBSET Places(b)
        /\ Cardinality(b.mask) <= MaxTokens
    BY PackedAssumption
  <1>2. IsFiniteSet(1..b.rows) /\ IsFiniteSet(0..(b.width - 1))
    BY <1>1, RangeIsFinite
  <1>3. IsFiniteSet(Places(b))
    BY <1>2, FS_Product DEF Places
  <1>4. IsFiniteSet(b.mask) /\ Cardinality(b.mask) \in Nat
    BY <1>1, <1>3, FS_Subset, FS_CardinalityType
  <1>5. ASSUME NEW s PROVE Cardinality(KeptIn(b, s)) \in Nat
    <2>1. KeptIn(b, s) \in SUBSET (0..(b.width - 1))
      BY DEF KeptIn
    <2>2. IsFiniteSet(KeptIn(b, s))
      BY <1>2, <2>1, FS_Subset
    <2>3. QED
      BY <2>2, FS_CardinalityType
  <1>6. RowLengths(b) \in [1..b.rows -> Nat]
    BY <1>5 DEF RowLengths
  <1>7. RowLengths(b) \in Seq(Nat) /\ Len(RowLengths(b)) = b.rows
    BY <1>1, <1>6
  <1>8. QED
    BY <1>1, <1>4, <1>6, <1>7, NumberAssumption

LEMMA OffsetsBack ==
  ASSUME NEW n \in Nat \ {0}, NEW l \in Seq(Nat), Len(l) = n
  PROVE  OffsetsOf(l) \in Seq(Nat) /\ LengthsOf(OffsetsOf(l)) = l
  <1>1. DOMAIN l = 1..n /\ \A i \in 1..n : l[i] \in Nat
    OBVIOUS
  <1>2. OffsetsOf(l) = [i \in 1..(n + 1) |-> SumOver(l, 1..(i - 1))]
    BY DEF OffsetsOf
  <1>3. ASSUME NEW i \in 1..(n + 1) PROVE SumOver(l, 1..(i - 1)) \in Nat
    <2>1. 1..(i - 1) \in SUBSET (1..n) /\ i - 1 \in Int
      OBVIOUS
    <2>2. IsFiniteSet(1..(i - 1)) /\ \A x \in 1..(i - 1) : l[x] \in Nat
      BY <1>1, <2>1, RangeIsFinite
    <2>3. QED
      BY <2>2, SumOfNaturals
  <1> DEFINE o == OffsetsOf(l)
  <1>4. o \in [1..(n + 1) -> Nat]
    BY <1>2, <1>3
  <1>5. o \in Seq(Nat) /\ Len(o) = n + 1
    BY <1>4
  <1>6. LengthsOf(o) = [i \in 1..n |-> o[i + 1] - o[i]]
    <2> HIDE DEF o
    <2>1. Len(o) - 1 = n
      BY <1>5
    <2>2. QED
      BY <2>1 DEF LengthsOf
  <1>7. ASSUME NEW i \in 1..n PROVE o[i + 1] - o[i] = l[i]
    <2>1. i \in 1..(n + 1) /\ i + 1 \in 1..(n + 1) /\ (i + 1) - 1 = i
      OBVIOUS
    <2>2. o[i] = SumOver(l, 1..(i - 1)) /\ o[i + 1] = SumOver(l, 1..((i + 1) - 1))
      BY <1>2, <2>1
    <2>3. SumOver(l, 1..((i + 1) - 1)) = SumOver(l, 1..i)
      BY <2>1
    <2>4. SumOver(l, 1..i) = l[i] + SumOver(l, 1..(i - 1))
      <3>1. \A x \in 1..n : l[x] \in Int
        BY <1>1
      <3>2. QED
        BY <3>1, SumUpTo
    <2>5. SumOver(l, 1..(i - 1)) \in Nat /\ l[i] \in Nat
      BY <1>1, <1>3, <2>1
    <2> HIDE DEF o
    <2>6. QED
      BY <2>2, <2>3, <2>4, <2>5
  <1>8. LengthsOf(o) = [i \in 1..n |-> l[i]]
    <2> HIDE DEF o
    <2>1. QED
      BY <1>6, <1>7
  <1>9. l = [i \in 1..n |-> l[i]]
    BY <1>1
  <1>10. QED
    BY <1>5, <1>8, <1>9

LEMMA MaskIsRows ==
  ASSUME NEW b \in Batches, RightPadded(b)
  PROVE  /\ b.mask = {a \in Places(b) : a[2] < RowLengths(b)[a[1]]}
         /\ \A s \in 1..b.rows, n \in Nat :
              <<s, n>> \in b.mask <=> n < RowLengths(b)[s]
  <1>1. /\ b.rows \in Nat \ {0} /\ b.width \in Nat /\ b.mask \in SUBSET Places(b)
        /\ \A s \in 1..b.rows : RowLengths(b)[s] \in Nat
    BY RowLengthsTyped
  <1>2. ASSUME NEW s \in 1..b.rows, NEW n \in Nat
        PROVE  <<s, n>> \in b.mask <=> n < RowLengths(b)[s]
    <2>1. KeptIn(b, s) = 0..(RowLengths(b)[s] - 1)
      BY DEF RightPadded
    <2>2. n \in KeptIn(b, s) <=> <<s, n>> \in b.mask
      <3>1. <<s, n>> \in b.mask => n \in 0..(b.width - 1)
        BY <1>1 DEF Places
      <3>2. QED
        BY <3>1 DEF KeptIn
    <2>3. n \in 0..(RowLengths(b)[s] - 1) <=> n < RowLengths(b)[s]
      BY <1>1
    <2>4. QED
      BY <2>1, <2>2, <2>3
  <1>3. ASSUME NEW a \in Places(b) PROVE a \in b.mask <=> a[2] < RowLengths(b)[a[1]]
    <2>1. a[1] \in 1..b.rows /\ a[2] \in Nat /\ a = <<a[1], a[2]>>
      BY <1>1 DEF Places
    <2>2. QED
      BY <1>2, <2>1
  <1>4. QED
    BY <1>1, <1>2, <1>3

LEMMA PrefixOfRow ==
  ASSUME NEW s, NEW k \in Nat
  PROVE  /\ IsFiniteSet({s} \X (0..(k - 1)))
         /\ Cardinality({s} \X (0..(k - 1))) = k
  <1>1. IsFiniteSet({s}) /\ Cardinality({s}) = 1
    BY FS_Singleton
  <1>2. IsFiniteSet(0..(k - 1)) /\ Cardinality(0..(k - 1)) = k
    <2>1. 0 \in Int /\ k - 1 \in Int
      OBVIOUS
    <2>2. /\ IsFiniteSet(0..(k - 1))
          /\ Cardinality(0..(k - 1)) = IF 0 > k - 1 THEN 0 ELSE (k - 1) - 0 + 1
      BY <2>1, FS_Interval
    <2>3. QED
      BY <2>2
  <1>3. /\ IsFiniteSet({s} \X (0..(k - 1)))
        /\ Cardinality({s} \X (0..(k - 1))) = Cardinality({s}) * Cardinality(0..(k - 1))
    BY <1>1, <1>2, FS_Product
  <1>4. QED
    BY <1>1, <1>2, <1>3

(* The rows before a row, and their tokens.                                *)
LEMMA RowsBefore ==
  ASSUME NEW b \in Batches, RightPadded(b)
  PROVE  \A s \in 1..b.rows :
           /\ IsFiniteSet({c \in b.mask : c[1] < s})
           /\ Cardinality({c \in b.mask : c[1] < s}) = SumOver(RowLengths(b), 1..(s - 1))
  <1> DEFINE l == RowLengths(b)
             n == b.rows
             U(s) == {c \in b.mask : c[1] < s}
             N == {k \in Nat : k < n => IsFiniteSet(U(k + 1)) /\ Cardinality(U(k + 1)) = SumOver(l, 1..k)}
  <1>1. /\ n \in Nat \ {0} /\ b.mask \in SUBSET Places(b) /\ \A s \in 1..n : l[s] \in Nat
        /\ \A c \in b.mask : c[1] \in 1..n /\ c[2] \in Nat /\ c = <<c[1], c[2]>>
    <2>1. n \in Nat \ {0} /\ b.width \in Nat /\ b.mask \in SUBSET Places(b) /\ \A s \in 1..n : l[s] \in Nat
      BY RowLengthsTyped
    <2>2. QED
      BY <2>1 DEF Places
  <1>2. \A s \in 1..n, k \in Nat : <<s, k>> \in b.mask <=> k < l[s]
    BY MaskIsRows
  <1> HIDE DEF l, n
  <1>3. 0 \in N
    <2>1. U(0 + 1) = {}
      BY <1>1
    <2>2. 1..0 = {} /\ SumOver(l, {}) = 0
      BY FS_EmptySet, SumLaws
    <2>3. SumOver(l, 1..0) = 0
      BY <2>2
    <2>4. QED
      BY <2>1, <2>3, FS_EmptySet
  <1>4. ASSUME NEW k \in Nat, k \in N PROVE k + 1 \in N
    <2>1. ASSUME k + 1 < n
          PROVE  /\ IsFiniteSet(U((k + 1) + 1))
                 /\ Cardinality(U((k + 1) + 1)) = SumOver(l, 1..(k + 1))
      <3> DEFINE s == k + 1
                 R == {s} \X (0..(l[s] - 1))
      <3>1. s \in 1..n /\ s \in Nat /\ s - 1 = k /\ k < n /\ l[s] \in Nat
        BY <1>1, <2>1
      <3>2. IsFiniteSet(U(s)) /\ Cardinality(U(s)) = SumOver(l, 1..k)
        BY <1>4, <3>1
      <3>3. IsFiniteSet(R) /\ Cardinality(R) = l[s]
        BY <3>1, PrefixOfRow
      <3>4. U(s + 1) = U(s) \cup R
        <4>1. ASSUME NEW c \in b.mask, c[1] < s + 1, ~(c[1] < s) PROVE c \in R
          <5>1. c[1] \in Nat /\ c = <<c[1], c[2]>> /\ c[2] \in Nat
            BY <1>1
          <5>2. c[1] = s
            BY <3>1, <4>1, <5>1
          <5>3. c[2] < l[s]
            BY <1>2, <3>1, <5>1, <5>2
          <5> HIDE DEF s
          <5>4. c[2] \in 0..(l[s] - 1)
            BY <3>1, <5>1, <5>3
          <5>5. QED
            BY <5>1, <5>2, <5>4
        <4>2. ASSUME NEW c \in R PROVE c \in b.mask /\ c[1] < s + 1
          <5>1. c = <<s, c[2]>> /\ c[1] = s /\ c[2] \in 0..(l[s] - 1)
            OBVIOUS
          <5> HIDE DEF s
          <5>2. c[2] \in Nat /\ c[2] < l[s]
            BY <3>1, <5>1
          <5>3. c \in b.mask
            BY <1>2, <3>1, <5>1, <5>2
          <5>4. QED
            BY <3>1, <5>1, <5>3
        <4>3. \A c \in b.mask : c[1] \in Int /\ (c[1] < s => c[1] < s + 1)
          BY <1>1, <3>1
        <4> HIDE DEF s, R
        <4>4. QED
          BY <4>1, <4>2, <4>3
      <3>5. U(s) \cap R = {}
        <4>1. \A c \in R : c[1] = s
          OBVIOUS
        <4>2. ~(s < s)
          BY <3>1
        <4> HIDE DEF R, s
        <4>3. QED
          BY <4>1, <4>2
      <3> HIDE DEF s, R
      <3>6. SumOver(l, 1..s) = l[s] + SumOver(l, 1..(s - 1))
        <4>1. \A x \in 1..n : l[x] \in Int
          BY <1>1
        <4>2. n \in Nat
          BY <1>1
        <4>3. QED
          BY <3>1, <4>1, <4>2, SumUpTo
      <3>7. Cardinality(U(s)) \in Nat
        BY <3>2, FS_CardinalityType
      <3> DEFINE V == U(s)
      <3>8. IsFiniteSet(V) /\ V \cap R = {} /\ U(s + 1) = V \cup R
        BY <3>2, <3>4, <3>5
      <3> HIDE DEF U, V
      <3>9. /\ IsFiniteSet(V \cup R)
            /\ Cardinality(V \cup R) = Cardinality(V) + Cardinality(R) - Cardinality(V \cap R)
        BY <3>3, <3>8, FS_Union
      <3>10. Cardinality(V \cap R) = 0
        BY <3>8, FS_EmptySet
      <3>11. Cardinality(V) = SumOver(l, 1..(s - 1)) /\ Cardinality(V) \in Nat
        BY <3>1, <3>2, <3>7 DEF V
      <3>12. Cardinality(U(s + 1)) = SumOver(l, 1..s)
        <4>1. Cardinality(U(s + 1)) = Cardinality(V \cup R)
          BY <3>8
        <4>2. Cardinality(V \cup R) = Cardinality(V) + l[s]
          BY <3>1, <3>3, <3>9, <3>10, <3>11
        <4>3. QED
          BY <3>1, <3>6, <3>11, <4>1, <4>2
      <3>13. QED
        BY <3>8, <3>9, <3>12 DEF s
    <2>2. QED
      BY <2>1
  <1> HIDE DEF N
  <1>5. \A k \in Nat : k \in N
    BY <1>3, <1>4, InductionOnNat
  <1>6. ASSUME NEW s \in 1..n
        PROVE  IsFiniteSet(U(s)) /\ Cardinality(U(s)) = SumOver(l, 1..(s - 1))
    <2>1. s - 1 \in Nat /\ s - 1 < n /\ (s - 1) + 1 = s
      BY <1>1
    <2>2. s - 1 \in N
      BY <1>5, <2>1
    <2> DEFINE k == s - 1
    <2>3. k \in N /\ k < n /\ k + 1 = s
      BY <2>1, <2>2
    <2> HIDE DEF k, U
    <2>4. IsFiniteSet(U(k + 1)) /\ Cardinality(U(k + 1)) = SumOver(l, 1..k)
      BY <2>3 DEF N
    <2>5. QED
      BY <2>3, <2>4 DEF k
  <1>7. QED
    BY <1>6 DEF l, n

(* output[mask] = packed fills a place with the row of its rank.           *)
LEMMA RankIsOffset ==
  ASSUME NEW b \in Batches, RightPadded(b), NEW a \in b.mask
  PROVE  Rank(a, b.mask) = SumOver(RowLengths(b), 1..(a[1] - 1)) + a[2]
  <1> DEFINE U == {c \in b.mask : c[1] < a[1]}
             R == {a[1]} \X (0..(a[2] - 1))
             total == SumOver(RowLengths(b), 1..(a[1] - 1))
  <1>1. /\ \A c \in b.mask : c[1] \in 1..b.rows /\ c[2] \in Nat /\ c = <<c[1], c[2]>>
        /\ \A s \in 1..b.rows : RowLengths(b)[s] \in Nat
        /\ b.rows \in Nat
    BY RowLengthsTyped DEF Places
  <1>2. \A s \in 1..b.rows, k \in Nat : <<s, k>> \in b.mask <=> k < RowLengths(b)[s]
    BY MaskIsRows
  <1>3. a[1] \in 1..b.rows /\ a[2] \in Nat /\ a = <<a[1], a[2]>> /\ a[2] < RowLengths(b)[a[1]]
    BY <1>1, <1>2
  <1>4. IsFiniteSet(U) /\ Cardinality(U) = total
    BY <1>3, RowsBefore
  <1>5. IsFiniteSet(R) /\ Cardinality(R) = a[2]
    BY <1>3, PrefixOfRow
  <1>6. {c \in b.mask : Before(c, a)} = U \cup R
    <2>1. ASSUME NEW c \in b.mask, c[1] = a[1], c[2] < a[2] PROVE c \in R
      <3>1. c = <<c[1], c[2]>> /\ c[2] \in 0..(a[2] - 1)
        BY <1>1, <1>3, <2>1
      <3>2. QED
        BY <2>1, <3>1
    <2>2. ASSUME NEW c \in R PROVE c \in b.mask /\ c[1] = a[1] /\ c[2] < a[2]
      <3>1. c = <<a[1], c[2]>> /\ c[1] = a[1] /\ c[2] \in 0..(a[2] - 1)
        OBVIOUS
      <3>2. c[2] \in Nat /\ c[2] < a[2]
        BY <1>3, <3>1
      <3>3. c[2] < RowLengths(b)[a[1]]
        BY <1>1, <1>3, <3>2
      <3>4. <<a[1], c[2]>> \in b.mask
        BY <1>2, <1>3, <3>2, <3>3
      <3>5. QED
        BY <3>1, <3>2, <3>4
    <2> HIDE DEF R
    <2>3. QED
      BY <2>1, <2>2 DEF Before
  <1>7. U \cap R = {}
    <2>1. \A c \in R : c[1] = a[1]
      OBVIOUS
    <2>2. ~(a[1] < a[1])
      BY <1>3
    <2> HIDE DEF R
    <2>3. QED
      BY <2>1, <2>2
  <1> HIDE DEF U, R, total
  <1>8. Cardinality(U \cup R) = Cardinality(U) + Cardinality(R) - Cardinality(U \cap R)
    BY <1>4, <1>5, FS_Union
  <1>9. Cardinality(U \cap R) = 0 /\ Cardinality(U) \in Nat
    BY <1>4, <1>7, FS_EmptySet, FS_CardinalityType
  <1>10. Cardinality(U \cup R) = total + a[2]
    BY <1>3, <1>4, <1>5, <1>8, <1>9
  <1>11. QED
    BY <1>6, <1>10 DEF Rank, total

------------------------------------------------------------------------------
(* The invariant around the kernel: nothing runs before a launch; a launch *)
(* has boundaries that were accepted; a batch that was packed is           *)
(* right-padded, and its launch has its rows.                              *)

PackedInv ==
  /\ TileInv
  /\ stage \in {"padded", "called"} => launch = NoLaunch
  /\ stage = "padded" => batch \in Batches
  /\ stage = "called" => RequestOK(request)
  /\ stage \in {"running", "unpacked"} /\ request # None => RequestOK(request) /\ Accepts(request)
  /\ stage = "called" /\ batch # None =>
       /\ batch \in Batches /\ RightPadded(batch)
       /\ request.cu = OffsetsOf(RowLengths(batch))
  /\ stage \in {"running", "unpacked"} /\ batch # None =>
       /\ batch \in Batches /\ RightPadded(batch)
       /\ launch.layout = "packed" /\ launch.lengths = RowLengths(batch)
  /\ RowsReturnHome

LEMMA NoLaunchOK ==
  ASSUME launch = NoLaunch
  PROVE  LaunchOK /\ Tokens = {} /\ Grid = {}
  <1>1. /\ launch.layout = "packed" /\ launch.lengths = <<>> /\ launch.maxSeqlen = 0
        /\ launch.blockM = 1 /\ launch.blockN = 1
    BY DEF NoLaunch
  <1>2. DOMAIN launch.lengths = {} /\ launch.lengths \in Seq(Nat \ {0})
    <2>1. DOMAIN <<>> = {} /\ <<>> \in Seq(Nat \ {0})
      OBVIOUS
    <2>2. QED
      BY <1>1, <2>1
  <1>3. RowsOf(launch) = 0
    <2>1. SumOver(launch.lengths, {}) = 0
      BY FS_EmptySet, SumLaws
    <2>2. QED
      BY <1>1, <1>2, <2>1 DEF RowsOf
  <1>4. LaunchOK
    BY <1>1, <1>2, <1>3, NumberAssumption DEF LaunchOK, Fits, Layouts
  <1>5. Batch = {}
    BY <1>2 DEF Batch
  <1>6. QED
    BY <1>4, <1>5 DEF Tokens, Grid

LEMMA LaunchesOK ==
  ASSUME launch \in Launches
  PROVE  LaunchOK
  <1>1. launch \in LaunchRecord /\ RowsOf(launch) <= MaxTokens
    BY LaunchAssumption
  <1>2. launch.layout # "packed" =>
          \A s \in DOMAIN launch.lengths : launch.lengths[s] = launch.maxSeqlen
    BY LaunchAssumption
  <1>3. launch.blockN < Max(Regimes)
    BY TilesBelowLargestRegime
  <1>4. QED
    BY <1>1, <1>2, <1>3 DEF LaunchOK, Fits, LaunchRecord

(* A caller's boundaries, accepted, make a launch.                         *)
LEMMA AcceptedLaunchOK ==
  ASSUME NEW r, RequestOK(r), Accepts(r), NEW shape \in Shapes,
         NEW l, l = [layout |-> "packed", lengths |-> LengthsOf(r.cu),
                     maxSeqlen |-> Resolved(r).maxSeqlen, kept |-> {},
                     blockM |-> shape[1], blockN |-> shape[2]]
  PROVE  Fits(l)
  <1>1. /\ r.cu \in Seq(Nat) /\ r.total \in 0..MaxTokens
        /\ Validates(r.cu, r.total, None) /\ Resolved(r).maxSeqlen \in Int
    BY AcceptedBoundaries DEF RequestOK
  <1>2. Len(r.cu) >= 2 /\ Head(r.cu) = 0 /\ Last(r.cu) = r.total /\ Positive(LengthsOf(r.cu))
    BY <1>1 DEF Validates, Spans
  <1>3. SumOver(LengthsOf(r.cu), DOMAIN LengthsOf(r.cu)) = r.total
    <2>1. SumOver(LengthsOf(r.cu), DOMAIN LengthsOf(r.cu)) = Last(r.cu) - Head(r.cu)
      BY <1>1, <1>2, LengthsTelescope
    <2>2. QED
      BY <1>1, <1>2, <2>1
  <1>4. LengthsOf(r.cu) \in Seq(Nat \ {0})
    <2> DEFINE k == LengthsOf(r.cu)
               n == Len(k)
    <2>1. k \in Seq(Int) /\ \A i \in DOMAIN k : k[i] > 0
      BY <1>1, <1>2, LengthsTyped DEF Positive
    <2> HIDE DEF k
    <2>2. n \in Nat /\ DOMAIN k = 1..n /\ \A i \in 1..n : k[i] \in Nat \ {0}
      BY <2>1
    <2>3. k = [i \in 1..n |-> k[i]]
      BY <2>1
    <2>4. k \in Seq(Nat \ {0})
      BY <2>2, <2>3
    <2>5. QED
      BY <2>4 DEF k
  <1>5. shape[1] \in Nat \ {0} /\ shape[2] \in Nat \ {0} /\ shape[2] < Max(Regimes)
    BY PackedAssumption
  <1>6. RowsOf(l) <= MaxTokens
    BY <1>1, <1>3, NumberAssumption DEF RowsOf
  <1>7. QED
    BY <1>1, <1>4, <1>5, <1>6 DEF Fits, Layouts

LEMMA PackedInitInv ==
  PackedInit => PackedInv
  <1> SUFFICES ASSUME PackedInit PROVE PackedInv
    OBVIOUS
  <1>1. CASE Init /\ stage = "running" /\ batch = None /\ request = None
    <2>1. TileInv
      BY <1>1, LaunchesOK, FreshLaunch DEF Init
    <2>2. QED
      BY <1>1, <2>1 DEF PackedInv, RowsReturnHome
  <1>2. ASSUME launch = NoLaunch, scores \in ScoreTables, programs = NewPrograms, output = NewOutput,
               \/ stage = "padded" /\ batch \in Batches /\ request = None
               \/ stage = "called" /\ batch = None /\ request \in Requests
        PROVE  PackedInv
    <2>1. TileInv
      BY <1>2, NoLaunchOK, FreshLaunch
    <2>2. CASE stage = "padded" /\ batch \in Batches /\ request = None
      BY <1>2, <2>1, <2>2 DEF PackedInv, RowsReturnHome
    <2>3. CASE stage = "called" /\ batch = None /\ request \in Requests
      BY <1>2, <2>1, <2>3, CallerRequestOK DEF PackedInv, RowsReturnHome
    <2>4. QED
      BY <1>2, <2>2, <2>3
  <1>3. QED
    BY <1>1, <1>2 DEF PackedInit

LEMMA PackPreserves ==
  ASSUME PackedInv, Pack
  PROVE  PackedInv'
  <1>1. TileInv'
    BY StutterPreserves DEF PackedInv, Pack
  <1>2. /\ stage = "padded" /\ stage' = "called" /\ launch' = launch /\ batch' = batch
        /\ RightPadded(batch) /\ batch \in Batches /\ launch = NoLaunch
    BY DEF Pack, PackedInv, vars
  <1> DEFINE l == RowLengths(batch)
             o == OffsetsOf(l)
             n == Cardinality(batch.mask)
             info == [offsets |-> o, lengths |-> l, maxSeqlen |-> Max(ToSet(l))]
  <1>3. request' = [cu |-> o, total |-> n, maxSeqlen |-> None, info |-> info]
    BY DEF Pack
  <1>4. o \in Seq(Nat) /\ n \in 0..MaxTokens
    BY <1>2, RowLengthsTyped, OffsetsBack
  <1> HIDE DEF o, l, n
  <1>5. \A r : r = [cu |-> o, total |-> n, maxSeqlen |-> None, info |-> info] => RequestOK(r)
    <2> SUFFICES ASSUME NEW r, r = [cu |-> o, total |-> n, maxSeqlen |-> None, info |-> info]
                 PROVE  RequestOK(r)
      OBVIOUS
    <2>1. r.cu = o /\ r.total = n /\ r.maxSeqlen = None /\ r.info = info
      OBVIOUS
    <2>2. info = [offsets |-> info.offsets, lengths |-> info.lengths, maxSeqlen |-> info.maxSeqlen]
          /\ info.offsets = o
      OBVIOUS
    <2> HIDE DEF info
    <2>3. r.info = [offsets |-> r.info.offsets, lengths |-> r.info.lengths,
                    maxSeqlen |-> r.info.maxSeqlen]
          /\ r.info.offsets = r.cu /\ r.info.offsets \in Seq(Nat)
      BY <1>4, <2>1, <2>2
    <2>4. ASSUME Trusts(r) PROVE Validates(r.cu, r.total, None)
      <3>1. Validates(r.info.offsets, r.total, r.maxSeqlen)
        BY <2>3, <2>4, TrustedIsValidated
      <3>2. QED
        BY <2>1, <2>3, <3>1
    <2>5. QED
      BY <1>4, <2>1, <2>3, <2>4 DEF RequestOK
  <1>6. RequestOK(request')
    BY <1>3, <1>5
  <1>7. request'.cu = o
    BY <1>3
  <1>8. RowsReturnHome'
    BY <1>2 DEF RowsReturnHome
  <1>9. RequestOK(request)' /\ RightPadded(batch)' /\ (batch \in Batches)'
        /\ (request.cu = OffsetsOf(RowLengths(batch)))'
    <2>1. RequestOK(request)'
      BY <1>6 DEF RequestOK, Trusts, Validates, Spans, Positive, LengthsOf, Agrees, InfoOf
    <2>2. RightPadded(batch)'
      BY <1>2 DEF RightPadded, Positive, RowLengths, KeptIn
    <2>3. (request.cu = OffsetsOf(RowLengths(batch)))'
      BY <1>2, <1>7 DEF o, l
    <2>4. QED
      BY <1>2, <2>1, <2>2, <2>3
  <1>10. QED
    BY <1>1, <1>2, <1>8, <1>9 DEF PackedInv

LEMMA RefusePreserves ==
  ASSUME PackedInv, Refuse
  PROVE  PackedInv'
  <1>1. TileInv'
    BY StutterPreserves DEF PackedInv, Refuse
  <1>2. stage' = "refused"
    BY DEF Refuse
  <1>3. QED
    BY <1>1, <1>2 DEF PackedInv, RowsReturnHome

LEMMA FreshLaunchNext ==
  ASSUME LaunchOK', (scores \in ScoreTables)', (programs = NewPrograms)', (output = NewOutput)'
  PROVE  TileInv'
  BY FreshLaunch, PTL

LEMMA LaunchPackedPreserves ==
  ASSUME PackedInv, NEW shape \in Shapes, LaunchPacked(shape)
  PROVE  PackedInv'
  <1>1. /\ stage = "called" /\ stage' = "running" /\ request' = request /\ batch' = batch
        /\ scores' = scores /\ scores \in ScoreTables
        /\ RequestOK(request) /\ Accepts(request)
    BY DEF LaunchPacked, PackedInv, TileInv
  <1>2. launch' = [layout |-> "packed", lengths |-> LengthsOf(request.cu),
                   maxSeqlen |-> Resolved(request).maxSeqlen, kept |-> {},
                   blockM |-> shape[1], blockN |-> shape[2]]
    BY DEF LaunchPacked
  <1>3. PICK r, l : r = request /\ l = launch'
    OBVIOUS
  <1>4. Fits(l)
    <2>1. RequestOK(r) /\ Accepts(r)
      BY <1>1, <1>3
    <2>2. l = [layout |-> "packed", lengths |-> LengthsOf(r.cu),
               maxSeqlen |-> Resolved(r).maxSeqlen, kept |-> {},
               blockM |-> shape[1], blockN |-> shape[2]]
      BY <1>2, <1>3
    <2>3. QED
      BY <2>1, <2>2, AcceptedLaunchOK
  <1>5. LaunchOK'
    BY <1>3, <1>4 DEF LaunchOK, Fits, RowsOf
  <1>6. TileInv'
    <2>1. (programs = NewPrograms)' /\ (output = NewOutput)' /\ (scores \in ScoreTables)'
      BY <1>1 DEF LaunchPacked
    <2>2. QED
      BY <1>5, <2>1, FreshLaunchNext
  <1>7. (RequestOK(request) /\ Accepts(request))'
    <2>1. RequestOK(request)' = RequestOK(request)
      BY <1>1 DEF RequestOK, Trusts, Validates, Spans, Positive, LengthsOf, Agrees, InfoOf
    <2>2. Accepts(request)' = Accepts(request)
      BY <1>1 DEF Accepts, Trusts, Validates, Spans, Positive, LengthsOf, Agrees, InfoOf
    <2>3. QED
      BY <1>1, <2>1, <2>2
  <1>8. ASSUME batch # None
        PROVE  /\ batch \in Batches /\ RightPadded(batch)
               /\ launch'.layout = "packed" /\ launch'.lengths = RowLengths(batch)
    <2>1. batch \in Batches /\ RightPadded(batch) /\ request.cu = OffsetsOf(RowLengths(batch))
      BY <1>1, <1>8 DEF PackedInv
    <2>2. LengthsOf(OffsetsOf(RowLengths(batch))) = RowLengths(batch)
      BY <2>1, RowLengthsTyped, OffsetsBack
    <2>3. QED
      BY <1>2, <2>1, <2>2
  <1>9. (batch # None =>
           /\ batch \in Batches /\ RightPadded(batch)
           /\ launch.layout = "packed" /\ launch.lengths = RowLengths(batch))'
    <2>1. RightPadded(batch)' = RightPadded(batch) /\ RowLengths(batch)' = RowLengths(batch)
      BY <1>1 DEF RightPadded, Positive, RowLengths, KeptIn
    <2>2. QED
      BY <1>1, <1>8, <2>1
  <1>10. RowsReturnHome'
    BY <1>1 DEF RowsReturnHome
  <1>11. QED
    BY <1>1, <1>6, <1>7, <1>9, <1>10 DEF PackedInv

(* Steps that leave the launch, the batch and the request alone.           *)
LEMMA CallStands ==
  ASSUME batch' = batch, request' = request
  PROVE  /\ RequestOK(request)' = RequestOK(request)
         /\ Accepts(request)' = Accepts(request)
         /\ RightPadded(batch)' = RightPadded(batch)
         /\ RowLengths(batch)' = RowLengths(batch)
         /\ Places(batch)' = Places(batch)
         /\ (request.cu = OffsetsOf(RowLengths(batch)))' = (request.cu = OffsetsOf(RowLengths(batch)))
  <1>1. RequestOK(request)' = RequestOK(request)
    BY DEF RequestOK, Trusts, Validates, Spans, Positive, LengthsOf, Agrees, InfoOf
  <1>2. Accepts(request)' = Accepts(request)
    BY DEF Accepts, Trusts, Validates, Spans, Positive, LengthsOf, Agrees, InfoOf
  <1>3. RightPadded(batch)' = RightPadded(batch) /\ RowLengths(batch)' = RowLengths(batch)
    BY DEF RightPadded, Positive, RowLengths, KeptIn
  <1>4. Places(batch)' = Places(batch)
    BY DEF Places
  <1>5. (request.cu = OffsetsOf(RowLengths(batch)))' = (request.cu = OffsetsOf(RowLengths(batch)))
    BY DEF OffsetsOf, RowLengths, KeptIn
  <1>6. QED
    BY <1>1, <1>2, <1>3, <1>4, <1>5

LEMMA NextKeepsLaunch ==
  ASSUME Next
  PROVE  launch' = launch /\ scores' = scores
  BY DEF Next, OnlyTile, NextTile, Store

LEMMA AttendPreserves ==
  ASSUME PackedInv, Attend
  PROVE  PackedInv'
  <1>1. /\ stage = "running" /\ Next /\ stage' = stage /\ batch' = batch /\ request' = request
        /\ launch' = launch
    BY NextKeepsLaunch DEF Attend, packedVars
  <1>2. TileInv'
    BY <1>1, NextPreserves DEF PackedInv
  <1>3. RowsReturnHome'
    BY <1>1 DEF RowsReturnHome
  <1>4. QED
    BY <1>1, <1>2, <1>3, CallStands DEF PackedInv

(* Where the rows go: a place of the mask has the rank its row has.        *)
LEMMA UnpackReturns ==
  ASSUME PackedInv, stage = "running", batch # None, NEW a \in Places(batch)
  PROVE  /\ {c \in Places(batch) : c[2] < Length(c[1])} = batch.mask
         /\ a \in batch.mask => Rank(a, batch.mask) = First(a[1]) + a[2]
  <1>1. /\ batch \in Batches /\ RightPadded(batch)
        /\ launch.layout = "packed" /\ launch.lengths = RowLengths(batch)
    BY DEF PackedInv
  <1>2. {c \in Places(batch) : c[2] < Length(c[1])} = batch.mask
    BY <1>1, MaskIsRows DEF Length
  <1>3. First(a[1]) = SumOver(RowLengths(batch), 1..(a[1] - 1))
    BY <1>1 DEF First
  <1>4. ASSUME a \in batch.mask PROVE Rank(a, batch.mask) = First(a[1]) + a[2]
    BY <1>1, <1>3, <1>4, RankIsOffset
  <1>5. QED
    BY <1>2, <1>4

LEMMA UnpackPreserves ==
  ASSUME PackedInv, Unpack
  PROVE  PackedInv'
  <1>1. /\ stage = "running" /\ stage' = "unpacked" /\ batch # None
        /\ batch' = batch /\ request' = request /\ UNCHANGED vars
    BY DEF Unpack
  <1>2. launch' = launch /\ scores' = scores
    BY <1>1 DEF vars
  <1>3. TileInv'
    BY <1>1, StutterPreserves DEF PackedInv
  <1>4. \A s : First(s)' = First(s)
    BY <1>2, LaunchStands
  <1>5. ASSUME NEW a \in Places(batch)
        PROVE  place'[a] = IF a \in batch.mask THEN First(a[1]) + a[2] ELSE None
    <2> DEFINE filled == {c \in Places(batch) : c[2] < Length(c[1])}
    <2>1. place' = [c \in Places(batch) |-> IF c \in filled THEN Rank(c, filled) ELSE None]
      BY DEF Unpack
    <2>2. filled = batch.mask
      BY <1>1, UnpackReturns
    <2>3. a \in batch.mask => Rank(a, batch.mask) = First(a[1]) + a[2]
      BY <1>1, UnpackReturns
    <2> HIDE DEF filled
    <2>4. QED
      BY <2>1, <2>2, <2>3
  <1>6. RowsReturnHome'
    <2>1. Places(batch)' = Places(batch)
      BY <1>1 DEF Places
    <2>2. QED
      BY <1>1, <1>4, <1>5, <2>1 DEF RowsReturnHome
  <1>7. QED
    BY <1>1, <1>2, <1>3, <1>6, CallStands DEF PackedInv

LEMMA PackedStutterPreserves ==
  ASSUME PackedInv, UNCHANGED allVars
  PROVE  PackedInv'
  <1>1. /\ stage' = stage /\ batch' = batch /\ request' = request /\ place' = place /\ UNCHANGED vars
    BY DEF allVars, packedVars
  <1>2. launch' = launch /\ scores' = scores
    BY <1>1 DEF vars
  <1>3. TileInv'
    BY <1>1, StutterPreserves DEF PackedInv
  <1>4. (\A s : First(s)' = First(s)) /\ Places(batch)' = Places(batch)
    BY <1>1, <1>2, LaunchStands, CallStands
  <1>5. RowsReturnHome'
    BY <1>1, <1>4 DEF RowsReturnHome, PackedInv
  <1>6. QED
    BY <1>1, <1>2, <1>3, <1>5, CallStands DEF PackedInv

(* The invariant is inductive.                                             *)
LEMMA PackedInvariant ==
  PackedSpec => []PackedInv
  <1>1. PackedInit => PackedInv
    BY PackedInitInv
  <1>2. PackedInv /\ [PackedNext]_allVars => PackedInv'
    <2> SUFFICES ASSUME PackedInv, [PackedNext]_allVars PROVE PackedInv'
      OBVIOUS
    <2>1. CASE Pack
      BY <2>1, PackPreserves
    <2>2. CASE Refuse
      BY <2>2, RefusePreserves
    <2>3. CASE \E shape \in Shapes : LaunchPacked(shape)
      BY <2>3, LaunchPackedPreserves
    <2>4. CASE Attend
      BY <2>4, AttendPreserves
    <2>5. CASE Unpack
      BY <2>5, UnpackPreserves
    <2>6. CASE UNCHANGED allVars
      BY <2>6, PackedStutterPreserves
    <2>7. QED
      BY <2>1, <2>2, <2>3, <2>4, <2>5, <2>6 DEF PackedNext
  <1>3. QED
    BY <1>1, <1>2, PTL DEF PackedSpec

------------------------------------------------------------------------------
(* The theorems.                                                           *)

(* Every row a program writes is the reference's, exactly: for every batch *)
(* in every layout, every mask, every table of scores and every tile       *)
(* shape, at once or online, in whatever order the programs run.           *)
THEOREM OutputIsReference == PackedSpec => []OutputMatchesReference
  <1>1. PackedInv => OutputMatchesReference
    BY InvOutputMatchesReference DEF PackedInv
  <1>2. QED
    BY <1>1, PackedInvariant, PTL

(* No lane, in or beyond its sequence, ever holds an undefined number, and *)
(* every lane ends with a positive sum.                                    *)
THEOREM LanesAreDefined == PackedSpec => []LanesStayDefined
  <1>1. PackedInv => LanesStayDefined
    BY InvLanesStayDefined DEF PackedInv
  <1>2. QED
    BY <1>1, PackedInvariant, PTL

(* When all programs have stored, every row is written: the grid, rounded  *)
(* up, reaches every query of every sequence.                              *)
THEOREM EveryRowIsWritten == PackedSpec => []OutputComplete
  <1>1. PackedInv => OutputComplete
    BY InvOutputComplete DEF PackedInv
  <1>2. QED
    BY <1>1, PackedInvariant, PTL

(* A row once written stays as it is, even under a wrong host maximum: no  *)
(* two programs write the same row.                                        *)
THEOREM WrittenRowsStay == PackedSpec => RowsWrittenOnce
  <1> DEFINE Stays == \A t \in Tokens : output[t] # Unwritten => output'[t] = output[t]
  <1>1. PackedInv /\ [PackedNext]_allVars => [Stays]_vars
    <2> SUFFICES ASSUME PackedInv, [PackedNext]_allVars, ~UNCHANGED vars PROVE Stays
      OBVIOUS
    <2>1. CASE Pack
      BY <2>1 DEF Pack
    <2>2. CASE Refuse
      BY <2>2 DEF Refuse
    <2>3. CASE \E shape \in Shapes : LaunchPacked(shape)
      <3>1. launch = NoLaunch
        BY <2>3 DEF LaunchPacked, PackedInv
      <3>2. QED
        BY <3>1, NoLaunchOK
    <2>4. CASE Attend
      BY <2>4, NextWritesOnce DEF Attend, PackedInv
    <2>5. CASE Unpack
      BY <2>5 DEF Unpack
    <2>6. CASE UNCHANGED allVars
      BY <2>6 DEF allVars
    <2>7. QED
      BY <2>1, <2>2, <2>3, <2>4, <2>5, <2>6 DEF PackedNext
  <1>2. QED
    BY <1>1, PackedInvariant, PTL DEF PackedSpec, RowsWrittenOnce

(* What forward_packed takes on trust is what validation would have said.  *)
THEOREM TrustedCallsAreValid == PackedSpec => []TrustedAsValidated
  <1>1. PackedInv => TrustedAsValidated
    <2> SUFFICES ASSUME PackedInv, request # None, stage \in {"running", "unpacked"}
                 PROVE  /\ Validates(Resolved(request).offsets, request.total, request.maxSeqlen)
                        /\ InfoOf(Resolved(request).offsets) = Resolved(request)
      BY DEF TrustedAsValidated
    <2>1. RequestOK(request) /\ Accepts(request)
      BY DEF PackedInv
    <2>2. QED
      BY <2>1, AcceptedBoundaries
  <1>2. QED
    BY <1>1, PackedInvariant, PTL

(* Packing and unpacking a right-padded batch are inverse: every kept      *)
(* token's row returns to its place, and the padding gets none.            *)
THEOREM RowsAreReturned == PackedSpec => []RowsReturnHome
  <1>1. PackedInv => RowsReturnHome
    BY DEF PackedInv
  <1>2. QED
    BY <1>1, PackedInvariant, PTL
==============================================================================
