----------------------------- MODULE PositionPlan -----------------------------
(***************************************************************************)
(* SharedPositionPlanCache (position.py): for a sequence length, the       *)
(* embedding slots its relative positions use and the table from a         *)
(* relative position to an index among them; and how the kernels read the  *)
(* plan of a representative length for every length it stands for.         *)
(* The cache uses position bias, as every one behind the gate does: one    *)
(* that does not files plans without slots, which nothing looks up.        *)
(* Lengths are small and logarithms exact: the float rounding of           *)
(* make_log_bucket_position is not modelled.                               *)
(***************************************************************************)
EXTENDS Integers, FiniteSets, Arithmetic

CONSTANTS
  Configs,        \* the position settings of the encoders considered
  Lengths,        \* the lengths asked for
  TuningLengths,  \* TUNING_SEQUENCE_LENGTHS
  None

\* with one bucket make_log_bucket_position divides by zero
ASSUME PositionAssumption ==
  /\ Configs \subseteq [buckets : Int \ {1}, maxPos : Nat \ {0}]
  /\ \A c \in Configs : c.buckets > 1 => c.maxPos - 1 > c.buckets \div 2
  /\ Lengths \subseteq Nat \ {0}
  /\ TuningLengths \subseteq Lengths
  /\ \A n \in Lengths : \E r \in TuningLengths : n <= r

VARIABLES
  config,   \* the arguments of the constructor
  compact,  \* _compact
  dense     \* _dense

vars == <<config, compact, dense>>

------------------------------------------------------------------------------
(* make_log_bucket_position: near positions are kept; far ones are         *)
(* mid + ceil(log(a / mid) / log((maxPos - 1) / mid) * (mid - 1)), stated  *)
(* without logarithms as the least n with                                  *)
(*   (a / mid) ^ (mid - 1) <= ((maxPos - 1) / mid) ^ n.                    *)
(* The count ends at the number of buckets, where the slot is clamped.     *)

MidOf(c) == c.buckets \div 2

Reaches(c, a, n) ==
  Power(a, MidOf(c) - 1) * Power(MidOf(c), n)
    <= Power(c.maxPos - 1, n) * Power(MidOf(c), MidOf(c) - 1)

LogSteps(c, a) ==
  CHOOSE n \in 0..c.buckets :
    /\ n = c.buckets \/ Reaches(c, a, n)
    /\ \A m \in 0..(n - 1) : ~Reaches(c, a, m)

\* a slip: the logarithmic steps are counted from the slot after mid
StepsFromNext(c, d) ==
  LET a == IF d < 0 THEN -d ELSE d
      far == MidOf(c) + 1 + LogSteps(c, a)
  IN  CASE a <= MidOf(c) -> d
        [] a > MidOf(c) /\ d > 0 -> far
        [] OTHER -> -far

LogBucket(c, d) ==
  LET a == IF d < 0 THEN -d ELSE d
      far == MidOf(c) + LogSteps(c, a)
  IN  CASE a <= MidOf(c) -> d
        [] a > MidOf(c) /\ d > 0 -> far
        [] OTHER -> -far

Relative(c, d) == IF c.buckets > 0 THEN LogBucket(c, d) ELSE d

\* pos_ebd_size, or att_span
Span(c) == IF c.buckets > 0 THEN c.buckets ELSE c.maxPos

Clamped(c, x) == IF x < 0 THEN 0 ELSE IF x > 2 * Span(c) - 1 THEN 2 * Span(c) - 1 ELSE x

Slot(c, d) == Clamped(c, Relative(c, d) + Span(c))

(* The reference (disentangled_attention_bias): the slot of the query's    *)
(* content-to-position score, and that of the key's position-to-content    *)
(* score, which is gathered at the negated position and then transposed.   *)
ReferenceC2P(c, i, j) == Clamped(c, Relative(c, i - j) + Span(c))

ReferenceP2C(c, i, j) == Clamped(c, -Relative(c, j - i) + Span(c))

------------------------------------------------------------------------------
(* compact(): slots in use, and for each relative position the number of   *)
(* used slots below its own (searchsorted).                                *)

Deltas(n) == (1 - n)..(n - 1)

ActiveSlots(c, n) == {Slot(c, d) : d \in Deltas(n)}

SlotOffset(c, n, d) == Cardinality({x \in ActiveSlots(c, n) : x < Slot(c, d)})

CompactPlan(c, n) ==
  [length |-> n, active |-> ActiveSlots(c, n),
   local |-> [k \in 0..(2 * n - 2) |-> SlotOffset(c, n, k - (n - 1))]]

\* the slip of indexing the dense map without the offset's last position
DenseShifted(p) ==
  [k \in (0..(p.length - 1)) \X (0..(p.length - 1)) |->
     p.local[IF k[1] - k[2] + p.length > 2 * p.length - 2 THEN 2 * p.length - 2
             ELSE k[1] - k[2] + p.length]]

(* dense(): the same table gathered for every pair of positions.           *)
DenseMap(p) ==
  [k \in (0..(p.length - 1)) \X (0..(p.length - 1)) |-> p.local[k[1] - k[2] + p.length - 1]]

Least(S) == CHOOSE x \in S : \A y \in S : x <= y

FirstSlot(p) == Least(p.active)

(* _project_active_positions refuses slots with a gap.                     *)
Contiguous(p) == \A x, y \in p.active : \A z \in x..y : z \in p.active

(* What row the kernel reads, given the plan p of the representative: the  *)
(* local index of i - j + POSITION_OFFSET, in tables that start at the     *)
(* first slot of p.                                                        *)
OffsetOfLength(p, n) == n - 1

PositionOffset(p, n) == p.length - 1

KernelSlot(p, n, i, j) == FirstSlot(p) + p.local[i - j + PositionOffset(p, n)]

(* tuning_sequence_length, for the lengths prepare_shape accepts           *)
Representative(n) == Least({r \in TuningLengths : n <= r})

------------------------------------------------------------------------------

Init ==
  /\ config \in Configs
  /\ compact = [n \in Lengths |-> None]
  /\ dense = [n \in Lengths |-> None]

Compact(n) ==
  /\ compact[n] = None
  /\ compact' = [compact EXCEPT ![n] = CompactPlan(config, n)]
  /\ UNCHANGED <<config, dense>>

Dense(n) ==
  /\ dense[n] = None
  /\ LET p == IF compact[n] = None THEN CompactPlan(config, n) ELSE compact[n]
     IN /\ compact' = [compact EXCEPT ![n] = p]
        /\ dense' = [dense EXCEPT ![n] = DenseMap(p)]
  /\ UNCHANGED config

ClearPlans ==
  /\ compact' = [n \in Lengths |-> None]
  /\ dense' = [n \in Lengths |-> None]
  /\ UNCHANGED config

Next == ClearPlans \/ \E n \in Lengths : Compact(n) \/ Dense(n)

Spec == Init /\ [][Next]_vars

------------------------------------------------------------------------------
(* Properties                                                              *)

(* For every length, the kernel run with its representative's plan reads,  *)
(* for each pair of positions, the rows the reference attention gathers:   *)
(* one table serves both scores, and no read leaves the lookup table.      *)
LookupMatchesReference ==
  \A n \in Lengths :
    LET p == compact[Representative(n)] IN
    p # None /\ Contiguous(p) => \A i, j \in 0..(n - 1) :
      /\ i - j + PositionOffset(p, n) \in DOMAIN p.local
      /\ KernelSlot(p, n, i, j) = ReferenceC2P(config, i, j)
      /\ KernelSlot(p, n, i, j) = ReferenceP2C(config, i, j)

(* The dense map of the PyTorch backend picks the same rows.               *)
DenseMatchesReference ==
  \A n \in Lengths :
    dense[n] # None /\ Contiguous(compact[n]) => \A i, j \in 0..(n - 1) :
      FirstSlot(compact[n]) + dense[n][<<i, j>>] = ReferenceC2P(config, i, j)

(* The slots of a length have a gap exactly when the first far position is *)
(* in use and lies more than one logarithmic step above the near ones.     *)
FirstStepSpans(c) ==
  c.buckets > 3 =>
    Power(MidOf(c) + 1, MidOf(c) - 1) <= (c.maxPos - 1) * Power(MidOf(c), MidOf(c) - 2)

GapsCharacterised ==
  \A n \in Lengths : compact[n] # None =>
    (Contiguous(compact[n]) <=> FirstStepSpans(config) \/ n <= MidOf(config) + 1)

(* "DeBERTa's monotonic log bucketing maps the complete symmetric delta    *)
(* interval to one contiguous range of embedding slots."                   *)
SlotsContiguous == \A n \in Lengths : compact[n] # None => Contiguous(compact[n])
==============================================================================
