---------------------------- MODULE PositionProofs ----------------------------
(***************************************************************************)
(* PositionPlan for every set of position settings, lengths and tuning     *)
(* lengths: the lookup table of a representative length and the dense map  *)
(* give the rows of the reference, and which slots have gaps.              *)
(***************************************************************************)
EXTENDS PositionPlan, ArithmeticProofs

------------------------------------------------------------------------------
(* The settings.                                                           *)

LEMMA SettingFacts ==
  ASSUME NEW c \in Configs
  PROVE  /\ c.buckets \in Int /\ c.buckets # 1 /\ c.maxPos \in Nat /\ c.maxPos > 0
         /\ MidOf(c) \in Int /\ 2 * MidOf(c) <= c.buckets /\ c.buckets <= 2 * MidOf(c) + 1
         /\ Span(c) \in Nat /\ Span(c) > 0
         /\ c.buckets > 0 => /\ MidOf(c) > 0 /\ c.maxPos - 1 > MidOf(c)
                             /\ Span(c) = c.buckets
  <1>1. c.buckets \in Int /\ c.buckets # 1 /\ c.maxPos \in Nat /\ c.maxPos > 0
    BY PositionAssumption
  <1>2. MidOf(c) \in Int /\ 2 * MidOf(c) <= c.buckets /\ c.buckets <= 2 * MidOf(c) + 1
    BY <1>1 DEF MidOf
  <1>3. c.buckets > 1 => c.maxPos - 1 > MidOf(c)
    BY PositionAssumption DEF MidOf
  <1>4. Span(c) \in Nat /\ Span(c) > 0 /\ (c.buckets > 0 => Span(c) = c.buckets)
    BY <1>1 DEF Span
  <1>5. c.buckets > 0 => MidOf(c) > 0
    BY <1>1, <1>2
  <1>6. QED
    BY <1>1, <1>2, <1>3, <1>4, <1>5

LEMMA LogStepsLeast ==
  ASSUME NEW c \in Configs, c.buckets > 0, NEW a \in Nat
  PROVE  /\ LogSteps(c, a) \in 0..c.buckets
         /\ LogSteps(c, a) = c.buckets \/ Reaches(c, a, LogSteps(c, a))
         /\ \A m \in 0..(LogSteps(c, a) - 1) : ~Reaches(c, a, m)
  <1> DEFINE S == {n \in 0..c.buckets : n = c.buckets \/ Reaches(c, a, n)}
  <1>1. c.buckets \in Nat
    BY SettingFacts
  <1>2. S \in SUBSET Nat /\ S # {}
    BY <1>1
  <1>3. PICK n \in S : \A m \in S : n <= m
    BY <1>2, LeastNatural
  <1>4. ASSUME NEW m \in 0..(n - 1) PROVE ~Reaches(c, a, m)
    <2>1. n \in Nat /\ n <= c.buckets
      BY <1>1
    <2>2. m \in 0..c.buckets /\ ~(n <= m)
      BY <1>1, <2>1
    <2>3. m \notin S
      BY <1>3, <2>2
    <2>4. QED
      BY <2>2, <2>3
  <1>5. /\ n \in 0..c.buckets
        /\ n = c.buckets \/ Reaches(c, a, n)
    OBVIOUS
  <1> HIDE DEF S
  <1>6. QED
    BY <1>4, <1>5 DEF LogSteps

------------------------------------------------------------------------------
(* The buckets are odd in the relative position, so that one table serves  *)
(* both scores.                                                            *)

LEMMA RelativeType ==
  ASSUME NEW c \in Configs, NEW d \in Int
  PROVE  Relative(c, d) \in Int
  <1>1. CASE c.buckets > 0
    <2> DEFINE a == IF d < 0 THEN -d ELSE d
    <2>1. a \in Nat
      OBVIOUS
    <2> HIDE DEF a
    <2>2. LogSteps(c, a) \in Int
      BY <1>1, <2>1, LogStepsLeast
    <2>3. MidOf(c) \in Int
      BY SettingFacts
    <2>4. LogBucket(c, d) = IF a <= MidOf(c) THEN d
                            ELSE IF d > 0 THEN MidOf(c) + LogSteps(c, a) ELSE -(MidOf(c) + LogSteps(c, a))
      BY <2>1, <2>3 DEF LogBucket, a
    <2>5. QED
      BY <1>1, <2>2, <2>3, <2>4 DEF Relative
  <1>2. CASE ~(c.buckets > 0)
    BY <1>2 DEF Relative
  <1>3. QED
    BY <1>1, <1>2

LEMMA RelativeOfNatural ==
  ASSUME NEW c \in Configs, c.buckets > 0, NEW a \in Nat
  PROVE  Relative(c, a) = IF a <= MidOf(c) THEN a ELSE MidOf(c) + LogSteps(c, a)
  <1>1. MidOf(c) \in Int /\ MidOf(c) > 0
    BY SettingFacts
  <1>2. LogBucket(c, a) = IF a <= MidOf(c) THEN a ELSE MidOf(c) + LogSteps(c, a)
    BY <1>1 DEF LogBucket
  <1>3. QED
    BY <1>2 DEF Relative

LEMMA RelativeOdd ==
  ASSUME NEW c \in Configs, NEW d \in Int
  PROVE  Relative(c, -d) = -Relative(c, d)
  <1>1. ASSUME NEW a \in Nat, a > 0, c.buckets > 0 PROVE Relative(c, -a) = -Relative(c, a)
    <2>1. MidOf(c) \in Int /\ MidOf(c) > 0
      BY <1>1, SettingFacts
    <2>2. LogSteps(c, a) \in Int
      BY <1>1, LogStepsLeast
    <2>3. -a \in Int /\ -a < 0 /\ -(-a) = a /\ ~(-a > 0)
      BY <1>1
    <2>4. LogBucket(c, -a) = IF a <= MidOf(c) THEN -a ELSE -(MidOf(c) + LogSteps(c, a))
      BY <2>1, <2>3 DEF LogBucket
    <2>5. Relative(c, a) = IF a <= MidOf(c) THEN a ELSE MidOf(c) + LogSteps(c, a)
      BY <1>1, RelativeOfNatural
    <2>6. QED
      BY <1>1, <2>1, <2>2, <2>4, <2>5 DEF Relative
  <1>2. CASE c.buckets > 0
    <2>1. CASE d > 0
      BY <1>1, <1>2, <2>1
    <2>2. CASE d = 0
      <3>1. MidOf(c) \in Int /\ MidOf(c) > 0
        BY <1>2, SettingFacts
      <3>2. Relative(c, 0) = 0
        BY <1>2, <3>1, RelativeOfNatural
      <3>3. -d = d
        <4>1. d <= 0 /\ d >= 0
          BY <2>2
        <4>2. QED
          BY <4>1
      <3>4. Relative(c, -d) = Relative(c, d)
        BY <3>3
      <3>5. Relative(c, d) = 0
        BY <2>2, <3>2
      <3>6. QED
        BY <3>4, <3>5
    <2>3. CASE d < 0
      <3>1. -d \in Nat /\ -d > 0 /\ -(-d) = d
        BY <2>3
      <3>2. Relative(c, -(-d)) = -Relative(c, -d)
        BY <1>1, <1>2, <3>1
      <3>3. Relative(c, d) = -Relative(c, -d)
        BY <3>1, <3>2
      <3>4. Relative(c, -d) \in Int
        BY <3>1, RelativeType
      <3>5. QED
        BY <3>3, <3>4
    <2>4. QED
      BY <2>1, <2>2, <2>3
  <1>3. CASE ~(c.buckets > 0)
    BY <1>3 DEF Relative
  <1>4. QED
    BY <1>2, <1>3

LEMMA SlotType ==
  ASSUME NEW c \in Configs, NEW d \in Int
  PROVE  Slot(c, d) \in Nat /\ Slot(c, d) <= 2 * Span(c) - 1
  <1>1. Relative(c, d) \in Int /\ Span(c) \in Nat /\ Span(c) > 0
    BY RelativeType, SettingFacts
  <1>2. QED
    BY <1>1 DEF Slot, Clamped

------------------------------------------------------------------------------
(* The row the kernel reads.                                               *)

LEMMA OffsetOfSlot ==
  ASSUME NEW c \in Configs, NEW n \in Nat, n > 0, NEW d \in Deltas(n),
         Contiguous(CompactPlan(c, n))
  PROVE  FirstSlot(CompactPlan(c, n)) + SlotOffset(c, n, d) = Slot(c, d)
  <1> DEFINE A == ActiveSlots(c, n)
             s == Slot(c, d)
  <1>1. A \in SUBSET Nat
    BY SlotType DEF ActiveSlots, Deltas
  <1>2. s \in A
    BY DEF ActiveSlots
  <1>3. CompactPlan(c, n).active = A
    BY DEF CompactPlan
  <1>4. \A x, y \in A : \A z \in x..y : z \in A
    BY <1>3 DEF Contiguous
  <1>5. SlotOffset(c, n, d) = Cardinality({x \in A : x < s})
    BY DEF SlotOffset
  <1> HIDE DEF A, s
  <1>6. PICK f \in A : \A y \in A : f <= y
    BY <1>1, <1>2, LeastNatural
  <1> DEFINE g == FirstSlot(CompactPlan(c, n))
  <1>7. g \in A /\ \A y \in A : g <= y
    BY <1>3, <1>6 DEF FirstSlot, Least
  <1> HIDE DEF g
  <1>8. g \in Nat /\ s \in Nat /\ g <= s
    BY <1>1, <1>2, <1>7
  <1>9. {x \in A : x < s} = g..(s - 1)
    <2>1. ASSUME NEW x \in A, x < s PROVE x \in g..(s - 1)
      <3>1. x \in Nat /\ g <= x
        BY <1>1, <1>7
      <3>2. QED
        BY <1>8, <2>1, <3>1
    <2>2. ASSUME NEW x \in g..(s - 1) PROVE x \in A /\ x < s
      <3>1. x \in g..s
        BY <1>8
      <3>2. QED
        BY <1>2, <1>4, <1>7, <1>8, <3>1
    <2>3. QED
      BY <2>1, <2>2
  <1>10. Cardinality(g..(s - 1)) = s - g
    <2>1. Cardinality(g..(s - 1)) = IF g > s - 1 THEN 0 ELSE (s - 1) - g + 1
      BY <1>8, FS_Interval
    <2>2. QED
      BY <1>8, <2>1
  <1>11. SlotOffset(c, n, d) = s - g
    BY <1>5, <1>9, <1>10
  <1>12. QED
    BY <1>8, <1>11 DEF s, g

LEMMA RepresentativeFits ==
  ASSUME NEW n \in Lengths
  PROVE  Representative(n) \in TuningLengths /\ n <= Representative(n)
  <1> DEFINE S == {r \in TuningLengths : n <= r}
  <1>1. S \in SUBSET Nat /\ S # {}
    BY PositionAssumption
  <1>2. \E x \in S : \A y \in S : x <= y
    BY <1>1, LeastNatural
  <1>3. Representative(n) \in S
    BY <1>2 DEF Representative, Least
  <1>4. QED
    BY <1>3

LEMMA ReferenceSlots ==
  ASSUME NEW c \in Configs, NEW i \in Int, NEW j \in Int
  PROVE  ReferenceC2P(c, i, j) = Slot(c, i - j) /\ ReferenceP2C(c, i, j) = Slot(c, i - j)
  <1>1. i - j \in Int /\ j - i = -(i - j)
    OBVIOUS
  <1>2. Relative(c, j - i) = -Relative(c, i - j)
    BY <1>1, RelativeOdd
  <1>3. Relative(c, i - j) \in Int
    BY <1>1, RelativeType
  <1>4. -Relative(c, j - i) = Relative(c, i - j)
    BY <1>2, <1>3
  <1>5. QED
    BY <1>4 DEF ReferenceC2P, ReferenceP2C, Slot

LEMMA PairInPlan ==
  ASSUME NEW c \in Configs, NEW n \in Nat, n > 0, NEW i \in 0..(n - 1), NEW j \in 0..(n - 1),
         NEW r \in Nat, n <= r, Contiguous(CompactPlan(c, r))
  PROVE  /\ i - j + r - 1 \in DOMAIN CompactPlan(c, r).local
         /\ FirstSlot(CompactPlan(c, r)) + CompactPlan(c, r).local[i - j + r - 1] = Slot(c, i - j)
  <1>1. /\ i - j \in Deltas(r) /\ i - j + r - 1 \in 0..(2 * r - 2)
        /\ (i - j + r - 1) - (r - 1) = i - j /\ r > 0
    BY DEF Deltas
  <1>2. CompactPlan(c, r).local = [k \in 0..(2 * r - 2) |-> SlotOffset(c, r, k - (r - 1))]
    BY DEF CompactPlan
  <1>3. CompactPlan(c, r).local[i - j + r - 1] = SlotOffset(c, r, i - j)
    BY <1>1, <1>2
  <1>4. FirstSlot(CompactPlan(c, r)) + SlotOffset(c, r, i - j) = Slot(c, i - j)
    BY <1>1, OffsetOfSlot
  <1>5. QED
    BY <1>1, <1>2, <1>3, <1>4

------------------------------------------------------------------------------
(* What the caches hold: the plans of the setting, and a dense map only    *)
(* with the compact plan it was gathered from.                             *)

PlansOfSetting ==
  /\ config \in Configs
  /\ compact \in [Lengths -> {None} \cup {CompactPlan(config, n) : n \in Lengths}]
  /\ \A n \in Lengths : compact[n] # None => compact[n] = CompactPlan(config, n)
  /\ DOMAIN dense = Lengths
  /\ \A n \in Lengths : dense[n] # None =>
       compact[n] = CompactPlan(config, n) /\ dense[n] = DenseMap(CompactPlan(config, n))

LEMMA InitPlans == Init => PlansOfSetting
  BY DEF Init, PlansOfSetting

LEMMA NextPlans == PlansOfSetting /\ [Next]_vars => PlansOfSetting'
  <1> SUFFICES ASSUME PlansOfSetting, [Next]_vars PROVE PlansOfSetting'
    OBVIOUS
  <1> USE DEF PlansOfSetting
  <1>1. ASSUME NEW n \in Lengths, Compact(n) PROVE PlansOfSetting'
    BY <1>1 DEF Compact
  <1>2. ASSUME NEW n \in Lengths, Dense(n) PROVE PlansOfSetting'
    <2> DEFINE p == CompactPlan(config, n)
    <2>1. /\ compact' = [compact EXCEPT ![n] = p]
          /\ dense' = [dense EXCEPT ![n] = DenseMap(p)]
          /\ config' = config
      BY <1>2 DEF Dense
    <2> HIDE DEF p
    <2>2. p = CompactPlan(config, n)
      BY DEF p
    <2>3. QED
      BY <2>1, <2>2
  <1>3. CASE ClearPlans
    BY <1>3 DEF ClearPlans
  <1>4. CASE UNCHANGED vars
    BY <1>4 DEF vars
  <1>5. QED
    BY <1>1, <1>2, <1>3, <1>4 DEF Next

(* The caches hold, whenever they hold anything for a length, the plan of  *)
(* that length for the constructor's setting (SharedPositionPlanCache).    *)
THEOREM PlansOfSettingHold == Spec => []PlansOfSetting
  BY InitPlans, NextPlans, PTL DEF Spec

LEMMA PlansLookup == PlansOfSetting => LookupMatchesReference
  <1> SUFFICES ASSUME PlansOfSetting, NEW n \in Lengths,
                      compact[Representative(n)] # None, Contiguous(compact[Representative(n)]),
                      NEW i \in 0..(n - 1), NEW j \in 0..(n - 1)
               PROVE  LET p == compact[Representative(n)] IN
                      /\ i - j + PositionOffset(p, n) \in DOMAIN p.local
                      /\ KernelSlot(p, n, i, j) = ReferenceC2P(config, i, j)
                      /\ KernelSlot(p, n, i, j) = ReferenceP2C(config, i, j)
    BY DEF LookupMatchesReference
  <1> DEFINE r == Representative(n)
             p == CompactPlan(config, r)
  <1>1. r \in TuningLengths /\ r \in Lengths /\ r \in Nat /\ r > 0 /\ n \in Nat /\ n > 0 /\ n <= r
    <2>1. r \in TuningLengths /\ n <= r
      BY RepresentativeFits
    <2> HIDE DEF r
    <2>2. QED
      BY <2>1, PositionAssumption
  <1>2. config \in Configs /\ compact[r] = p
    BY <1>1 DEF PlansOfSetting
  <1> HIDE DEF r
  <1>3. p.length = r
    BY DEF CompactPlan
  <1>4. i - j + PositionOffset(p, n) = i - j + r - 1
    BY <1>1, <1>3 DEF PositionOffset
  <1>5. /\ i - j + r - 1 \in DOMAIN p.local
        /\ FirstSlot(p) + p.local[i - j + r - 1] = Slot(config, i - j)
    BY <1>1, <1>2, PairInPlan DEF r
  <1>6. i \in Int /\ j \in Int
    OBVIOUS
  <1>7. ReferenceC2P(config, i, j) = Slot(config, i - j) /\ ReferenceP2C(config, i, j) = Slot(config, i - j)
    BY <1>2, <1>6, ReferenceSlots
  <1> HIDE DEF p
  <1>8. QED
    BY <1>2, <1>4, <1>5, <1>7 DEF KernelSlot, r

LEMMA PlansDense == PlansOfSetting => DenseMatchesReference
  <1> SUFFICES ASSUME PlansOfSetting, NEW n \in Lengths,
                      dense[n] # None, Contiguous(compact[n]),
                      NEW i \in 0..(n - 1), NEW j \in 0..(n - 1)
               PROVE  FirstSlot(compact[n]) + dense[n][<<i, j>>] = ReferenceC2P(config, i, j)
    BY DEF DenseMatchesReference
  <1> DEFINE p == CompactPlan(config, n)
  <1>1. n \in Nat /\ n > 0 /\ n <= n
    BY PositionAssumption
  <1>2. config \in Configs /\ compact[n] = p /\ dense[n] = DenseMap(p)
    BY DEF PlansOfSetting
  <1>3. p.length = n
    BY DEF CompactPlan
  <1>4. /\ FirstSlot(p) + p.local[i - j + n - 1] = Slot(config, i - j)
    BY <1>1, <1>2, PairInPlan
  <1> HIDE DEF p
  <1>5. dense[n][<<i, j>>] = p.local[i - j + n - 1]
    BY <1>1, <1>2, <1>3 DEF DenseMap
  <1>6. i \in Int /\ j \in Int
    OBVIOUS
  <1>7. QED
    BY <1>2, <1>4, <1>5, <1>6, ReferenceSlots

(* For every setting and length the kernel reads, with the plan of the     *)
(* representative length, the rows the reference gathers for both scores   *)
(* (LookupMatchesReference).                                               *)
THEOREM LookupIsReference == Spec => []LookupMatchesReference
  BY PlansOfSettingHold, PlansLookup, PTL

(* And so does the PyTorch backend with the dense map                      *)
(* (DenseMatchesReference).                                                *)
THEOREM DenseIsReference == Spec => []DenseMatchesReference
  BY PlansOfSettingHold, PlansDense, PTL

------------------------------------------------------------------------------
(* Gaps. With one more position the bucket grows by at most one, unless    *)
(* the first far position is more than one logarithmic step away.          *)

LEMMA ReachesNearer ==
  ASSUME NEW c \in Configs, c.buckets > 0, NEW a \in Nat, NEW b \in Nat, a <= b,
         NEW n \in Nat, Reaches(c, b, n)
  PROVE  Reaches(c, a, n)
  <1> DEFINE k == MidOf(c) - 1
             pa == Power(a, k)
             pb == Power(b, k)
             pm == Power(MidOf(c), n)
             r == Power(c.maxPos - 1, n) * Power(MidOf(c), k)
  <1>1. MidOf(c) \in Nat /\ k \in Nat /\ c.maxPos - 1 \in Nat
    BY SettingFacts
  <1>2. pa \in Nat /\ pb \in Nat /\ pm \in Nat /\ pa <= pb
    BY <1>1, PowerNatural, PowerMonotone
  <1>3. r \in Int
    <2>1. Power(c.maxPos - 1, n) \in Nat /\ Power(MidOf(c), k) \in Nat
      BY <1>1, PowerNatural
    <2>2. QED
      BY <2>1
  <1>4. pb * pm <= r
    BY DEF Reaches
  <1> HIDE DEF pa, pb, pm, r
  <1>5. pa * pm <= pb * pm
    <2>1. pm <= pm
      BY <1>2
    <2>2. QED
      BY <1>2, <2>1, ProductMonotone
  <1>6. pa * pm <= r
    <2>1. pa * pm \in Int /\ pb * pm \in Int
      BY <1>2
    <2>2. QED
      BY <1>3, <1>4, <1>5, <2>1
  <1>7. QED
    BY <1>6 DEF Reaches, pa, pm, r

LEMMA LogStepsBelow ==
  ASSUME NEW c \in Configs, c.buckets > 0, NEW a \in Nat, NEW n \in Nat,
         Reaches(c, a, n)
  PROVE  LogSteps(c, a) <= n
  <1>1. /\ LogSteps(c, a) \in 0..c.buckets
        /\ \A m \in 0..(LogSteps(c, a) - 1) : ~Reaches(c, a, m)
    BY LogStepsLeast
  <1>2. SUFFICES ASSUME LogSteps(c, a) > n PROVE FALSE
    BY <1>1, SettingFacts
  <1>3. n \in 0..(LogSteps(c, a) - 1)
    BY <1>1, <1>2, SettingFacts
  <1>4. QED
    BY <1>1, <1>3

LEMMA LogStepsMonotone ==
  ASSUME NEW c \in Configs, c.buckets > 0, NEW a \in Nat, NEW b \in Nat, a <= b
  PROVE  LogSteps(c, a) <= LogSteps(c, b)
  <1>1. /\ LogSteps(c, b) \in 0..c.buckets
        /\ LogSteps(c, b) = c.buckets \/ Reaches(c, b, LogSteps(c, b))
        /\ LogSteps(c, a) \in 0..c.buckets
    BY LogStepsLeast
  <1>2. c.buckets \in Nat
    BY SettingFacts
  <1>3. CASE LogSteps(c, b) = c.buckets
    BY <1>1, <1>2, <1>3
  <1>4. CASE Reaches(c, b, LogSteps(c, b))
    <2>1. LogSteps(c, b) \in Nat
      BY <1>1, <1>2
    <2>2. Reaches(c, a, LogSteps(c, b))
      BY <1>4, <2>1, ReachesNearer
    <2>3. QED
      BY <2>1, <2>2, LogStepsBelow
  <1>5. QED
    BY <1>1, <1>3, <1>4

LEMMA FirstStepReaches ==
  ASSUME NEW c \in Configs, c.buckets > 0
  PROVE  FirstStepSpans(c) <=> Reaches(c, MidOf(c) + 1, 1)
  <1> DEFINE mid == MidOf(c)
             M == c.maxPos - 1
  <1>1. mid \in Nat /\ mid > 0 /\ mid - 1 \in Nat /\ mid + 1 \in Nat /\ M \in Nat /\ M > mid
        /\ c.buckets \in Nat /\ c.buckets # 1 /\ 2 * mid <= c.buckets /\ c.buckets <= 2 * mid + 1
    BY SettingFacts
  <1>2. \A b \in Nat : Power(b, 0) = 1 /\ Power(b, 1) = b
    BY PowerOne
  <1>3. Reaches(c, mid + 1, 1) <=> Power(mid + 1, mid - 1) * mid <= M * Power(mid, mid - 1)
    BY <1>1, <1>2 DEF Reaches
  <1>4. FirstStepSpans(c) <=> (c.buckets > 3 => Power(mid + 1, mid - 1) <= M * Power(mid, mid - 2))
    BY DEF FirstStepSpans
  <1> HIDE DEF mid, M
  <1>5. CASE c.buckets <= 3
    <2>1. mid = 1 /\ mid - 1 = 0
      BY <1>1, <1>5
    <2>2. Power(mid + 1, mid - 1) = 1 /\ Power(mid, mid - 1) = 1
      BY <1>1, <1>2, <2>1
    <2>3. Reaches(c, mid + 1, 1) <=> 1 * 1 <= M * 1
      BY <1>3, <2>1, <2>2
    <2>4. Reaches(c, mid + 1, 1)
      BY <1>1, <2>3
    <2>5. FirstStepSpans(c)
      BY <1>1, <1>4, <1>5
    <2>6. QED
      BY <2>4, <2>5 DEF mid
  <1>6. CASE c.buckets > 3
    <2>1. mid - 2 \in Nat /\ (mid - 2) + 1 = mid - 1
      BY <1>1, <1>6
    <2>2. Power(mid, (mid - 2) + 1) = mid * Power(mid, mid - 2)
      BY <1>1, <2>1, PowerLaws
    <2>3. Power(mid, mid - 1) = mid * Power(mid, mid - 2)
      BY <2>1, <2>2
    <2> DEFINE x == Power(mid + 1, mid - 1)
               y == Power(mid, mid - 2)
    <2>4. x \in Nat /\ y \in Nat
      BY <1>1, <2>1, PowerNatural
    <2>5. Reaches(c, MidOf(c) + 1, 1) <=> x * mid <= M * (mid * y)
      BY <1>3, <2>3 DEF mid
    <2>6. FirstStepSpans(c) <=> x <= M * y
      BY <1>4, <1>6
    <2> HIDE DEF x, y
    <2>7. M * (mid * y) = (M * y) * mid /\ M * y \in Nat /\ x * mid \in Nat /\ (M * y) * mid \in Nat
      BY <1>1, <2>4
    <2>8. x * mid <= (M * y) * mid => x <= M * y
      BY <1>1, <2>4, <2>7, CancelFactor
    <2>9. x <= M * y => x * mid <= (M * y) * mid
      <3>1. mid <= mid
        BY <1>1
      <3>2. QED
        BY <1>1, <2>4, <2>7, <3>1, ProductMonotone
    <2>10. QED
      BY <2>5, <2>6, <2>7, <2>8, <2>9
  <1>7. QED
    BY <1>1, <1>5, <1>6

(* (a + 1)^k mid^k <= a^k (mid + 1)^k from mid on, so that the position    *)
(* after a is at most one step further when the first far position is.     *)
LEMMA ReachesNext ==
  ASSUME NEW c \in Configs, c.buckets > 0, FirstStepSpans(c),
         NEW a \in Nat, MidOf(c) <= a, NEW n \in Nat, Reaches(c, a, n)
  PROVE  Reaches(c, a + 1, n + 1)
  <1> DEFINE mid == MidOf(c)
             M == c.maxPos - 1
             k == mid - 1
             A == Power(a, k)
             B == Power(a + 1, k)
             C == Power(mid, k)
             D == Power(mid + 1, k)
             X == Power(mid, n)
             Y == Power(M, n)
  <1>1. mid \in Nat /\ mid > 0 /\ k \in Nat /\ mid + 1 \in Nat /\ M \in Nat /\ M > mid /\ a + 1 \in Nat
    BY SettingFacts
  <1>2. A \in Nat /\ B \in Nat /\ C \in Nat /\ C > 0 /\ D \in Nat /\ X \in Nat /\ Y \in Nat
    BY <1>1, PowerNatural
  <1>3. Power(mid, n + 1) = mid * X /\ Power(M, n + 1) = M * Y
    <2> HIDE DEF mid, M
    <2>1. mid \in Int /\ M \in Int
      BY <1>1
    <2>2. QED
      BY <2>1, PowerNext
  <1>4. A * X <= Y * C
    BY DEF Reaches
  <1>5. D * mid <= M * C
    <2>1. Reaches(c, mid + 1, 1)
      BY FirstStepReaches
    <2>2. Power(mid, 1) = mid /\ Power(M, 1) = M
      BY <1>1, PowerOne
    <2>3. QED
      BY <2>1, <2>2 DEF Reaches
  <1>6. B * C <= A * D
    <2>1. (a + 1) * mid <= a * (mid + 1)
      <3>1. mid <= a
        OBVIOUS
      <3> HIDE DEF mid
      <3>2. (a + 1) * mid = a * mid + mid /\ a * (mid + 1) = a * mid + a /\ a * mid \in Int
        BY <1>1
      <3>3. QED
        BY <1>1, <3>1, <3>2
    <2>2. (a + 1) * mid \in Nat /\ a * (mid + 1) \in Nat
      BY <1>1
    <2>3. Power((a + 1) * mid, k) <= Power(a * (mid + 1), k)
      BY <1>1, <2>1, <2>2, PowerMonotone
    <2>4. Power((a + 1) * mid, k) = B * C /\ Power(a * (mid + 1), k) = A * D
      <3> HIDE DEF mid, k
      <3>1. mid \in Int /\ mid + 1 \in Int /\ a + 1 \in Int /\ a \in Int
        BY <1>1
      <3>2. k \in Nat
        BY <1>1
      <3>3. Power((a + 1) * mid, k) = Power(a + 1, k) * Power(mid, k)
        BY <3>1, <3>2, PowerOfProduct
      <3>4. Power(a * (mid + 1), k) = Power(a, k) * Power(mid + 1, k)
        BY <3>1, <3>2, PowerOfProduct
      <3>5. QED
        BY <3>3, <3>4
    <2>5. QED
      BY <2>3, <2>4
  <1>7. Reaches(c, a + 1, n + 1) <=> B * (mid * X) <= (M * Y) * C
    BY <1>3 DEF Reaches
  <1> HIDE DEF mid, M, k, A, B, C, D, X, Y
  <1>8. \A u, v \in Nat : u * v \in Nat
    OBVIOUS
  <1>9. (B * C) * (mid * X) <= (A * D) * (mid * X)
    <2>1. B * C \in Nat /\ A * D \in Nat /\ mid * X \in Nat /\ mid * X <= mid * X
      BY <1>1, <1>2, <1>8
    <2>2. QED
      BY <1>6, <2>1, ProductMonotone
  <1>10. (A * X) * (D * mid) <= (Y * C) * (M * C)
    <2>1. A * X \in Nat /\ D * mid \in Nat /\ Y * C \in Nat /\ M * C \in Nat
      BY <1>1, <1>2, <1>8
    <2>2. QED
      BY <1>4, <1>5, <2>1, ProductMonotone
  <1>11. \A u, v, x, y \in Nat : (u * v) * (x * y) = (u * y) * (v * x)
    OBVIOUS
  <1>12. (A * D) * (mid * X) = (A * X) * (D * mid)
    BY <1>1, <1>2, <1>11
  <1>13. (B * C) * (mid * X) = (B * (mid * X)) * C
    <2>1. \A u, v, w \in Nat : (u * v) * w = (u * w) * v
      OBVIOUS
    <2>2. mid * X \in Nat
      BY <1>1, <1>2, <1>8
    <2>3. QED
      BY <1>2, <2>1, <2>2
  <1>14. (Y * C) * (M * C) = ((M * Y) * C) * C
    <2>1. \A u, v, w \in Nat : (u * v) * (w * v) = ((w * u) * v) * v
      OBVIOUS
    <2>2. QED
      BY <1>1, <1>2, <2>1
  <1> DEFINE L == B * (mid * X)
             R == (M * Y) * C
  <1>15. L \in Nat /\ R \in Nat
    BY <1>1, <1>2, <1>8
  <1>16. L * C <= R * C
    <2>1. (A * D) * (mid * X) \in Nat /\ L * C \in Nat /\ R * C \in Nat
      BY <1>1, <1>2, <1>8, <1>15
    <2>2. QED
      BY <1>9, <1>10, <1>12, <1>13, <1>14, <2>1
  <1> HIDE DEF L, R
  <1>17. L <= R
    BY <1>2, <1>15, <1>16, CancelFactor
  <1>18. QED
    BY <1>7, <1>17 DEF L, R

LEMMA ReachesLater ==
  ASSUME NEW c \in Configs, c.buckets > 0, NEW a \in Nat, NEW n \in Nat, Reaches(c, a, n)
  PROVE  Reaches(c, a, n + 1)
  <1> DEFINE mid == MidOf(c)
             M == c.maxPos - 1
             A == Power(a, mid - 1)
             C == Power(mid, mid - 1)
             X == Power(mid, n)
             Y == Power(M, n)
  <1>1. mid \in Nat /\ mid - 1 \in Nat /\ M \in Nat /\ mid <= M
    BY SettingFacts
  <1>2. A * X <= Y * C
    BY DEF Reaches
  <1>3. Reaches(c, a, n + 1) <=> A * Power(mid, n + 1) <= Power(M, n + 1) * C
    BY DEF Reaches
  <1> HIDE DEF mid, M
  <1>4. A \in Nat /\ C \in Nat /\ X \in Nat /\ Y \in Nat
    BY <1>1, PowerNatural
  <1>5. Power(mid, n + 1) = mid * X /\ Power(M, n + 1) = M * Y
    <2>1. mid \in Int /\ M \in Int
      BY <1>1
    <2>2. QED
      BY <2>1, PowerNext
  <1>6. Reaches(c, a, n + 1) <=> A * (mid * X) <= (M * Y) * C
    BY <1>3, <1>5
  <1> HIDE DEF A, C, X, Y
  <1>7. mid * (A * X) <= M * (Y * C)
    <2>1. A * X \in Nat /\ Y * C \in Nat
      BY <1>4
    <2>2. QED
      BY <1>1, <1>2, <2>1, ProductMonotone
  <1>8. mid * (A * X) = A * (mid * X) /\ M * (Y * C) = (M * Y) * C
    BY <1>1, <1>4
  <1>9. QED
    BY <1>6, <1>7, <1>8

LEMMA RelativeGrows ==
  ASSUME NEW c \in Configs, NEW d \in Nat, FirstStepSpans(c) \/ d + 1 <= MidOf(c)
  PROVE  Relative(c, d) <= Relative(c, d + 1) /\ Relative(c, d + 1) <= Relative(c, d) + 1
  <1>1. CASE ~(c.buckets > 0)
    BY <1>1 DEF Relative
  <1>2. CASE c.buckets > 0
    <2>1. MidOf(c) \in Nat /\ MidOf(c) > 0 /\ MidOf(c) + 1 \in Nat /\ c.buckets \in Nat
      BY <1>2, SettingFacts
    <2>2. /\ Relative(c, d) = IF d <= MidOf(c) THEN d ELSE MidOf(c) + LogSteps(c, d)
          /\ Relative(c, d + 1) = IF d + 1 <= MidOf(c) THEN d + 1 ELSE MidOf(c) + LogSteps(c, d + 1)
      BY <1>2, RelativeOfNatural
    <2>3. LogSteps(c, d) \in Nat /\ LogSteps(c, d + 1) \in Nat
          /\ LogSteps(c, d) <= c.buckets /\ LogSteps(c, d + 1) <= c.buckets
      BY <1>2, <2>1, LogStepsLeast
    <2>4. CASE d + 1 <= MidOf(c)
      BY <2>1, <2>2, <2>4
    <2>5. CASE d = MidOf(c)
      <3>1. FirstStepSpans(c)
        BY <2>1, <2>5
      <3>2. Reaches(c, d + 1, 1)
        BY <1>2, <2>5, <3>1, FirstStepReaches
      <3>3. LogSteps(c, d + 1) <= 1
        BY <1>2, <3>2, LogStepsBelow
      <3>4. QED
        BY <2>1, <2>2, <2>3, <2>5, <3>3
    <2>6. CASE d > MidOf(c)
      <3>1. FirstStepSpans(c) /\ MidOf(c) <= d
        BY <2>1, <2>6
      <3>2. LogSteps(c, d) <= LogSteps(c, d + 1)
        <4>1. d <= d + 1 /\ d + 1 \in Nat
          OBVIOUS
        <4>2. QED
          BY <1>2, <4>1, LogStepsMonotone
      <3>3. LogSteps(c, d + 1) <= LogSteps(c, d) + 1
        <4>1. CASE LogSteps(c, d) = c.buckets
          BY <2>1, <2>3, <4>1
        <4>2. CASE Reaches(c, d, LogSteps(c, d))
          <5>1. Reaches(c, d + 1, LogSteps(c, d) + 1)
            BY <1>2, <2>3, <3>1, <4>2, ReachesNext
          <5>2. LogSteps(c, d) + 1 \in Nat /\ d + 1 \in Nat
            BY <2>3
          <5>3. QED
            BY <1>2, <5>1, <5>2, LogStepsBelow
        <4>3. QED
          BY <1>2, <4>1, <4>2, LogStepsLeast
      <3>4. QED
        BY <2>1, <2>2, <2>3, <2>6, <3>2, <3>3
    <2>7. QED
      BY <2>1, <2>4, <2>5, <2>6
  <1>3. QED
    BY <1>1, <1>2

LEMMA SlotGrows ==
  ASSUME NEW c \in Configs, NEW n \in Nat, FirstStepSpans(c) \/ n <= MidOf(c) + 1,
         NEW d \in Int, d \in Deltas(n), d + 1 \in Deltas(n)
  PROVE  Slot(c, d) <= Slot(c, d + 1) /\ Slot(c, d + 1) <= Slot(c, d) + 1
  <1>1. MidOf(c) \in Int /\ Span(c) \in Nat /\ Span(c) > 0
    BY SettingFacts
  <1>2. Relative(c, d) \in Int /\ Relative(c, d + 1) \in Int
    BY RelativeType
  <1>3. Relative(c, d) <= Relative(c, d + 1) /\ Relative(c, d + 1) <= Relative(c, d) + 1
    <2>1. CASE d >= 0
      <3>1. d \in Nat /\ (FirstStepSpans(c) \/ d + 1 <= MidOf(c))
        BY <1>1, <2>1 DEF Deltas
      <3>2. QED
        BY <3>1, RelativeGrows
    <2>2. CASE d < 0
      <3> DEFINE e == -(d + 1)
      <3>1. e \in Nat /\ e + 1 = -d /\ (FirstStepSpans(c) \/ e + 1 <= MidOf(c))
        BY <1>1, <2>2 DEF Deltas
      <3>2. Relative(c, e) <= Relative(c, e + 1) /\ Relative(c, e + 1) <= Relative(c, e) + 1
        BY <3>1, RelativeGrows
      <3>3. d + 1 \in Int /\ Relative(c, e) = -Relative(c, d + 1)
        BY RelativeOdd
      <3>4. Relative(c, -d) = -Relative(c, d)
        BY RelativeOdd
      <3>5. Relative(c, e + 1) = -Relative(c, d)
        BY <3>1, <3>4
      <3> HIDE DEF e
      <3>6. QED
        BY <1>2, <3>2, <3>3, <3>5
    <2>3. QED
      BY <2>1, <2>2
  <1>4. QED
    BY <1>1, <1>2, <1>3 DEF Slot, Clamped

(* A function that climbs by at most one takes every value in between.     *)
LEMMA Climbs ==
  ASSUME NEW lo \in Int, NEW hi \in Int, NEW f \in [lo..hi -> Int],
         \A d \in lo..hi : d + 1 \in lo..hi => f[d] <= f[d + 1] /\ f[d + 1] <= f[d] + 1
  PROVE  \A p, q \in lo..hi : \A z \in f[p]..f[q] : \E d \in lo..hi : f[d] = z
  <1> DEFINE N == {k \in Nat : \A p \in lo..hi : p + k \in lo..hi =>
                     /\ f[p] <= f[p + k]
                     /\ \A z \in f[p]..f[p + k] : \E d \in lo..hi : f[d] = z}
  <1>1. 0 \in N
    <2> SUFFICES ASSUME NEW p \in lo..hi, p + 0 \in lo..hi
                 PROVE  /\ f[p] <= f[p + 0]
                        /\ \A z \in f[p]..f[p + 0] : \E d \in lo..hi : f[d] = z
      OBVIOUS
    <2>1. p + 0 = p /\ f[p] \in Int
      OBVIOUS
    <2>2. f[p + 0] = f[p]
      BY <2>1
    <2>3. \A z \in f[p]..f[p + 0] : z = f[p]
      BY <2>1, <2>2
    <2>4. QED
      BY <2>1, <2>2, <2>3
  <1>2. ASSUME NEW k \in Nat, k \in N PROVE k + 1 \in N
    <2> SUFFICES ASSUME NEW p \in lo..hi, p + (k + 1) \in lo..hi
                 PROVE  /\ f[p] <= f[p + (k + 1)]
                        /\ \A z \in f[p]..f[p + (k + 1)] : \E d \in lo..hi : f[d] = z
      OBVIOUS
    <2>1. p + k \in lo..hi /\ (p + k) + 1 = p + (k + 1)
      OBVIOUS
    <2>2. /\ f[p] <= f[p + k]
          /\ \A z \in f[p]..f[p + k] : \E d \in lo..hi : f[d] = z
      BY <1>2, <2>1
    <2>3. f[p + k] <= f[p + (k + 1)] /\ f[p + (k + 1)] <= f[p + k] + 1
      <3>1. (p + k) + 1 \in lo..hi
        BY <2>1
      <3>2. f[p + k] <= f[(p + k) + 1] /\ f[(p + k) + 1] <= f[p + k] + 1
        BY <2>1, <3>1
      <3>3. QED
        BY <2>1, <3>2
    <2>4. f[p] \in Int /\ f[p + k] \in Int /\ f[p + (k + 1)] \in Int
      BY <2>1
    <2>5. ASSUME NEW z \in f[p]..f[p + (k + 1)] PROVE \E d \in lo..hi : f[d] = z
      <3> DEFINE u == f[p]
                 v == f[p + k]
                 w == f[p + (k + 1)]
      <3>1. z \in u..v \/ z = w
        <4>1. u \in Int /\ v \in Int /\ w \in Int /\ w <= v + 1 /\ z \in u..w
          BY <2>3, <2>4
        <4> HIDE DEF u, v, w
        <4>2. QED
          BY <4>1
      <3>2. QED
        BY <2>2, <3>1
    <2>6. QED
      BY <2>2, <2>3, <2>4, <2>5
  <1> HIDE DEF N
  <1>3. \A k \in Nat : k \in N
    BY <1>1, <1>2, InductionOnNat
  <1>4. ASSUME NEW p \in lo..hi, NEW k \in Nat, p + k \in lo..hi
        PROVE  /\ f[p] <= f[p + k]
               /\ \A z \in f[p]..f[p + k] : \E d \in lo..hi : f[d] = z
    BY <1>3, <1>4 DEF N
  <1>5. SUFFICES ASSUME NEW p \in lo..hi, NEW q \in lo..hi, NEW z \in f[p]..f[q]
                 PROVE  \E d \in lo..hi : f[d] = z
    OBVIOUS
  <1>6. CASE p <= q
    <2>1. q - p \in Nat /\ p + (q - p) = q
      BY <1>6
    <2>2. \A w \in f[p]..f[p + (q - p)] : \E d \in lo..hi : f[d] = w
      BY <1>4, <2>1
    <2>3. z \in f[p]..f[p + (q - p)]
      BY <2>1
    <2>4. QED
      BY <2>2, <2>3
  <1>7. CASE ~(p <= q)
    <2>1. p - q \in Nat /\ q + (p - q) = p
      BY <1>7
    <2>2. f[q] <= f[q + (p - q)]
      BY <1>4, <2>1
    <2>3. f[q] <= f[p]
      BY <2>1, <2>2
    <2>4. f[p] \in Int /\ f[q] \in Int
      OBVIOUS
    <2>5. z = f[p]
      BY <2>3, <2>4
    <2>6. QED
      BY <2>5
  <1>8. QED
    BY <1>6, <1>7

LEMMA NoGap ==
  ASSUME NEW c \in Configs, NEW n \in Nat, FirstStepSpans(c) \/ n <= MidOf(c) + 1
  PROVE  Contiguous(CompactPlan(c, n))
  <1> DEFINE lo == 1 - n
             hi == n - 1
             f == [d \in lo..hi |-> Slot(c, d)]
  <1>1. \A d \in lo..hi : f[d] = Slot(c, d) /\ f[d] \in Int
    BY SlotType
  <1>2. \A d \in lo..hi : d + 1 \in lo..hi => f[d] <= f[d + 1] /\ f[d + 1] <= f[d] + 1
    BY SlotGrows DEF Deltas
  <1>3. CompactPlan(c, n).active = {f[d] : d \in lo..hi}
    BY DEF CompactPlan, ActiveSlots, Deltas
  <1>4. lo \in Int /\ hi \in Int
    OBVIOUS
  <1> HIDE DEF f, lo, hi
  <1>5. f \in [lo..hi -> Int]
    BY <1>1 DEF f
  <1>6. \A p, q \in lo..hi : \A z \in f[p]..f[q] : \E d \in lo..hi : f[d] = z
    BY ONLY <1>2, <1>4, <1>5, Climbs
  <1>7. QED
    BY <1>3, <1>6 DEF Contiguous

LEMMA Gap ==
  ASSUME NEW c \in Configs, NEW n \in Nat, ~FirstStepSpans(c), n > MidOf(c) + 1
  PROVE  ~Contiguous(CompactPlan(c, n))
  <1> DEFINE mid == MidOf(c)
             M == c.maxPos - 1
             gap == mid + 1 + Span(c)
  <1>1. c.buckets \in Nat /\ c.buckets > 3 /\ c.buckets > 0
    BY SettingFacts DEF FirstStepSpans
  <1>2. mid \in Nat /\ 2 * mid <= c.buckets /\ Span(c) = c.buckets /\ M > mid /\ M \in Nat /\ mid > 1
    BY <1>1, SettingFacts
  <1>3. mid > 2
    <2>1. SUFFICES ASSUME mid = 2 PROVE FirstStepSpans(c)
      BY <1>2
    <2>2. FirstStepSpans(c) <=> (c.buckets > 3 => Power(mid + 1, mid - 1) <= M * Power(mid, mid - 2))
      BY DEF FirstStepSpans
    <2> HIDE DEF mid, M
    <2>3. mid + 1 = 3 /\ mid - 1 = 1 /\ mid - 2 = 0
      BY <2>1
    <2>4. Power(mid + 1, mid - 1) = 3 /\ Power(mid, mid - 2) = 1
      BY <2>1, <2>3, PowerOne
    <2>5. 3 <= M * 1
      BY <1>2, <2>1
    <2>6. QED
      BY <2>2, <2>4, <2>5
  <1>4. LogSteps(c, mid + 1) >= 2 /\ LogSteps(c, mid + 1) \in Nat
    <2>1. /\ LogSteps(c, mid + 1) \in 0..c.buckets
          /\ LogSteps(c, mid + 1) = c.buckets \/ Reaches(c, mid + 1, LogSteps(c, mid + 1))
      BY <1>1, <1>2, LogStepsLeast
    <2>2. ~Reaches(c, mid + 1, 1)
      BY <1>1, FirstStepReaches
    <2>3. ~Reaches(c, mid + 1, 0)
      <3>1. mid + 1 \in Nat /\ 0 + 1 = 1
        BY <1>2
      <3>2. Reaches(c, mid + 1, 0) => Reaches(c, mid + 1, 0 + 1)
        BY <1>1, <3>1, ReachesLater
      <3>3. Reaches(c, mid + 1, 0 + 1) => Reaches(c, mid + 1, 1)
        BY <3>1
      <3>4. QED
        BY <2>2, <3>2, <3>3
    <2>4. LogSteps(c, mid + 1) # 0
      BY <1>1, <2>1, <2>3
    <2>5. LogSteps(c, mid + 1) # 1
      BY <1>1, <2>1, <2>2
    <2>6. QED
      BY <1>1, <2>1, <2>4, <2>5
  <1>5. ASSUME NEW a \in Nat
        PROVE  /\ a <= mid => Relative(c, a) = a
               /\ a > mid => Relative(c, a) >= mid + 2
               /\ Relative(c, a) >= 0
    <2>1. Relative(c, a) = IF a <= mid THEN a ELSE mid + LogSteps(c, a)
      BY <1>1, RelativeOfNatural
    <2>2. a > mid => LogSteps(c, a) >= LogSteps(c, mid + 1) /\ LogSteps(c, a) \in Nat
      <3>1. SUFFICES ASSUME a > mid PROVE LogSteps(c, mid + 1) <= LogSteps(c, a) /\ LogSteps(c, a) \in Nat
        BY <1>4
      <3>2. mid + 1 \in Nat /\ mid + 1 <= a
        BY <1>2, <3>1
      <3>3. LogSteps(c, a) \in Nat
        BY <1>1, LogStepsLeast
      <3>4. QED
        BY <1>1, <3>2, <3>3, LogStepsMonotone
    <2> HIDE DEF mid
    <2>3. QED
      BY <1>2, <1>4, <2>1, <2>2
  <1>6. \A d \in Int : Relative(c, d) \in Int
    BY RelativeType
  <1> HIDE DEF M, mid
  <1>7. Slot(c, mid) = mid + Span(c)
    <2>1. Relative(c, mid) = mid
      BY <1>2, <1>5
    <2>2. QED
      BY <1>1, <1>2, <2>1 DEF Slot, Clamped
  <1>8. Slot(c, mid + 1) > gap
    <2>1. Relative(c, mid + 1) >= mid + 2 /\ Relative(c, mid + 1) \in Int
      <3>1. mid + 1 \in Nat /\ mid + 1 > mid /\ mid + 1 \in Int
        BY <1>2
      <3>2. QED
        BY <1>5, <1>6, <3>1
    <2>2. QED
      BY <1>1, <1>2, <1>3, <2>1 DEF Slot, Clamped
  <1>9. ASSUME NEW d \in Int PROVE Slot(c, d) # gap
    <2>1. d <= mid => Relative(c, d) <= mid
      <3>1. CASE d >= 0
        BY <1>2, <1>5, <3>1
      <3>2. CASE d < 0
        <4>1. -d \in Nat /\ d \in Int
          BY <3>2
        <4>2. Relative(c, -d) >= 0
          BY <1>5, <4>1
        <4>3. Relative(c, -d) = -Relative(c, d)
          BY RelativeOdd
        <4>4. QED
          BY <1>2, <1>6, <4>2, <4>3
      <3>3. QED
        BY <3>1, <3>2
    <2>2. d > mid => Relative(c, d) >= mid + 2
      BY <1>2, <1>5
    <2>3. Relative(c, d) \in Int
      BY <1>6
    <2>4. QED
      BY <1>1, <1>2, <1>3, <2>1, <2>2, <2>3 DEF Slot, Clamped
  <1>10. mid \in Deltas(n) /\ mid + 1 \in Deltas(n)
    BY <1>2 DEF Deltas, mid
  <1>11. /\ Slot(c, mid) \in CompactPlan(c, n).active
         /\ Slot(c, mid + 1) \in CompactPlan(c, n).active
    BY <1>10 DEF CompactPlan, ActiveSlots
  <1>12. gap \notin CompactPlan(c, n).active
    BY <1>9 DEF CompactPlan, ActiveSlots, Deltas
  <1>13. gap \in Slot(c, mid)..Slot(c, mid + 1)
    <2>1. Slot(c, mid + 1) \in Nat
      BY <1>2, SlotType
    <2>2. QED
      BY <1>1, <1>2, <1>7, <1>8, <2>1
  <1>14. QED
    BY <1>11, <1>12, <1>13 DEF Contiguous

LEMMA PlansGaps == PlansOfSetting => GapsCharacterised
  <1> SUFFICES ASSUME PlansOfSetting, NEW n \in Lengths, compact[n] # None
               PROVE  Contiguous(compact[n]) <=> FirstStepSpans(config) \/ n <= MidOf(config) + 1
    BY DEF GapsCharacterised
  <1>1. config \in Configs /\ compact[n] = CompactPlan(config, n)
    BY DEF PlansOfSetting
  <1>2. n \in Nat /\ MidOf(config) \in Int
    BY <1>1, PositionAssumption, SettingFacts
  <1>3. CASE FirstStepSpans(config) \/ n <= MidOf(config) + 1
    BY <1>1, <1>2, <1>3, NoGap
  <1>4. CASE ~(FirstStepSpans(config) \/ n <= MidOf(config) + 1)
    <2>1. ~FirstStepSpans(config) /\ n > MidOf(config) + 1
      BY <1>2, <1>4
    <2>2. QED
      BY <1>1, <1>2, <2>1, Gap
  <1>5. QED
    BY <1>3, <1>4

(* The slots of a length have a gap exactly when the first far position is *)
(* in use and more than one logarithmic step away (GapsCharacterised), for *)
(* every setting: what _project_active_positions refuses.                  *)
THEOREM GapsAreCharacterised == Spec => []GapsCharacterised
  BY PlansOfSettingHold, PlansGaps, PTL
==============================================================================
