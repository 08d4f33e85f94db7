----------------------------- MODULE PackedBatch ------------------------------
(***************************************************************************)
(* packed.py around the packed kernel: a right-padded batch is packed      *)
(* (pack_padded_with_info), forward_packed decides on the boundaries it is *)
(* given (resolve_packed_info), the kernel runs, and the rows go back      *)
(* where they came from (unpack_packed). The host and the device each have *)
(* a copy of the boundaries; the host's, when the caller hands it over, is *)
(* checked against itself and not against the device's.                    *)
(***************************************************************************)
EXTENDS TiledAttention, SequencesExt

CONSTANTS
  Batches,   \* padded batches: rows, width and attention mask
  Requests,  \* calls of forward_packed by someone who packed by himself
  Shapes,    \* (BLOCK_M, BLOCK_N)
  None

Places(b) == (1..b.rows) \X (0..(b.width - 1))

InfoRecord == [offsets : Seq(Nat), lengths : Seq(Int), maxSeqlen : Int]

ASSUME PackedAssumption ==
  /\ \A b \in Batches :
       /\ b.rows \in Nat \ {0} /\ b.width \in Nat
       /\ b.mask \subseteq Places(b) /\ Cardinality(b.mask) <= MaxTokens
  /\ Requests \subseteq
       [cu : Seq(Nat), total : 0..MaxTokens, maxSeqlen : Nat \cup {None},
        info : InfoRecord \cup {None}]
  /\ Shapes \subseteq (Nat \ {0}) \X (Nat \ {0})
  /\ \A shape \in Shapes : shape[2] < Max(Regimes)

VARIABLES
  stage,    \* padded, called, running, unpacked or refused
  batch,    \* the padded batch, or None
  request,  \* the arguments of forward_packed, or None
  place     \* which token's row each place of the unpacked batch gets, or None

packedVars == <<stage, batch, request, place>>

allVars == <<vars, packedVars>>

------------------------------------------------------------------------------
(* Boundaries.                                                             *)

OffsetsOf(lengths) ==
  [i \in 1..(Len(lengths) + 1) |-> SumOver(lengths, 1..(i - 1))]

LengthsOf(offsets) == [i \in 1..(Len(offsets) - 1) |-> offsets[i + 1] - offsets[i]]

InfoOf(offsets) ==
  [offsets |-> offsets, lengths |-> LengthsOf(offsets), maxSeqlen |-> Max(ToSet(LengthsOf(offsets)))]

Positive(lengths) == \A i \in DOMAIN lengths : lengths[i] > 0

Spans(offsets, total) == Head(offsets) = 0 /\ Last(offsets) = total

Agrees(info, max) == max \in {None, info.maxSeqlen}

(* validate_cu_seqlens                                                     *)
Validates(cu, total, max) ==
  /\ Len(cu) >= 2
  /\ Spans(cu, total)
  /\ Positive(LengthsOf(cu))
  /\ Agrees(InfoOf(cu), max)

\* what the host does not check: that the device's boundaries are a batch's
ASSUME DeviceAssumption ==
  \A r \in Requests : r.info # None => Validates(r.cu, r.total, None)

\* a slip: the lengths are not derived again
TrustsLengths(r) ==
  /\ Len(r.cu) >= 2
  /\ Len(r.info.offsets) = Len(r.cu)
  /\ Spans(r.info.offsets, r.total)
  /\ Len(r.info.lengths) + 1 = Len(r.info.offsets)
  /\ Positive(r.info.lengths)
  /\ r.info.maxSeqlen = Max(ToSet(r.info.lengths))
  /\ Agrees(r.info, r.maxSeqlen)

(* resolve_packed_info, given the host's copy.                             *)
Trusts(r) ==
  /\ Len(r.cu) >= 2
  /\ Len(r.info.offsets) = Len(r.cu)
  /\ Spans(r.info.offsets, r.total)
  /\ Len(r.info.lengths) + 1 = Len(r.info.offsets)
  /\ LengthsOf(r.info.offsets) = r.info.lengths
  /\ Positive(r.info.lengths)
  /\ r.info.maxSeqlen = Max(ToSet(r.info.lengths))
  /\ Agrees(r.info, r.maxSeqlen)

Accepts(r) == IF r.info = None THEN Validates(r.cu, r.total, r.maxSeqlen) ELSE Trusts(r)

Resolved(r) == IF r.info = None THEN InfoOf(r.cu) ELSE r.info

------------------------------------------------------------------------------

NoLaunch ==
  [layout |-> "packed", lengths |-> <<>>, maxSeqlen |-> 0, kept |-> {}, blockM |-> 1, blockN |-> 1]

PackedInit ==
  /\ \/ Init /\ stage = "running" /\ batch = None /\ request = None
     \/ /\ launch = NoLaunch /\ scores \in ScoreTables
        /\ programs = NewPrograms /\ output = NewOutput
        /\ \/ stage = "padded" /\ batch \in Batches /\ request = None
           \/ stage = "called" /\ batch = None /\ request \in Requests
  /\ place = None

(* pack_padded_with_info                                                   *)
KeptIn(b, s) == {n \in 0..(b.width - 1) : <<s, n>> \in b.mask}

RowLengths(b) == [s \in 1..b.rows |-> Cardinality(KeptIn(b, s))]

\* a slip: the mask is not compared with a right-padded one
HasNoEmptyRow(b) == Positive(RowLengths(b))

RightPadded(b) ==
  Positive(RowLengths(b)) /\ \A s \in 1..b.rows : KeptIn(b, s) = 0..(RowLengths(b)[s] - 1)

Pack ==
  /\ stage = "padded"
  /\ RightPadded(batch)
  /\ LET offsets == OffsetsOf(RowLengths(batch)) IN
     request' = [cu |-> offsets, total |-> Cardinality(batch.mask), maxSeqlen |-> None,
                 info |-> [offsets |-> offsets, lengths |-> RowLengths(batch),
                           maxSeqlen |-> Max(ToSet(RowLengths(batch)))]]
  /\ stage' = "called"
  /\ UNCHANGED <<vars, batch, place>>

Refuse ==
  /\ \/ stage = "padded" /\ ~RightPadded(batch)
     \/ stage = "called" /\ ~Accepts(request)
  /\ stage' = "refused"
  /\ UNCHANGED <<vars, batch, request, place>>

(* forward_packed: the grid and the regime are the host's, the sequences   *)
(* the device's.                                                           *)
LaunchPacked(shape) ==
  /\ stage = "called"
  /\ Accepts(request)
  /\ launch' = [layout |-> "packed", lengths |-> LengthsOf(request.cu),
                maxSeqlen |-> Resolved(request).maxSeqlen, kept |-> {},
                blockM |-> shape[1], blockN |-> shape[2]]
  /\ programs' = NewPrograms'
  /\ output' = NewOutput'
  /\ stage' = "running"
  /\ UNCHANGED <<scores, batch, request, place>>

Attend == stage = "running" /\ Next /\ UNCHANGED packedVars

(* unpack_packed: output[mask] = packed, in the order of rows and columns. *)
Before(a, b) == a[1] < b[1] \/ (a[1] = b[1] /\ a[2] < b[2])

Rank(a, places) == Cardinality({b \in places : Before(b, a)})

Unpack ==
  /\ stage = "running"
  /\ batch # None
  /\ \A p \in Grid : programs[p].stored
  /\ LET filled == {a \in Places(batch) : a[2] < Length(a[1])} IN
     place' = [a \in Places(batch) |-> IF a \in filled THEN Rank(a, filled) ELSE None]
  /\ stage' = "unpacked"
  /\ UNCHANGED <<vars, batch, request>>

PackedNext ==
  Pack \/ Refuse \/ (\E shape \in Shapes : LaunchPacked(shape)) \/ Attend \/ Unpack

PackedSpec == PackedInit /\ [][PackedNext]_allVars

------------------------------------------------------------------------------
(* Properties                                                              *)

(* What forward_packed takes on trust is, to the last field, what          *)
(* validate_cu_seqlens would have said of the same boundaries: the checks  *)
(* of resolve_packed_info miss no way of being inconsistent. (That the     *)
(* device has the same boundaries is not checked.)                         *)
TrustedAsValidated ==
  request # None /\ stage \in {"running", "unpacked"} =>
    LET info == Resolved(request) IN
    Validates(info.offsets, request.total, request.maxSeqlen) /\ InfoOf(info.offsets) = info

(* Packing and unpacking are inverse, and keep the positions: a kept token *)
(* of the padded batch is, in the kernel's layout, as far into its         *)
(* sequence as it was into its row, its output row returns to its place,   *)
(* and every other place stays zero.                                       *)
RowsReturnHome ==
  stage = "unpacked" =>
    \A a \in Places(batch) :
      place[a] = IF a \in batch.mask THEN First(a[1]) + a[2] ELSE None
==============================================================================
