--------------------------- MODULE AttentionCaches ---------------------------
(***************************************************************************)
(* The inference caches of one TritonInferenceDisentangledSelfAttention    *)
(* (_torch.py, kernel.py) and the operations on them, as operators on a    *)
(* record: EncoderCache runs them from an encoder's calls.                 *)
(*                                                                         *)
(* A tensor is abstracted to the version of the weights it was computed    *)
(* from, and a position table also to the range of embedding slots it      *)
(* holds. One table stands for the pair (pos_key, pos_query): the code     *)
(* fills, reads and drops the two together.                                *)
(***************************************************************************)
EXTENDS Naturals

CONSTANTS
  Shapes,       \* sequence lengths, each on the one device of the encoder
  Ranges,       \* ranges of embedding slots (slot_start, slot_count)
  Regime,       \* tuning_sequence_length: the representative of a length
  SlotRange,    \* the active slots of a representative's index plan
  Gapped,       \* the ranges with a hole: see SlotsContiguous of PositionPlan
  ProfileHits,  \* the regimes for which a bundled profile has an entry
  Owners,       \* the callers that build packed buffers
  BiasLayout,   \* of the host's Q, K and V projections: a host that mixes them
                \*   is refused by every preparation, see EncoderEntry
  None          \* Python's None

Versions == Nat

BiasLayouts == {"all", "none"}

ASSUME RegimeAssumption ==
  /\ Regime \in [Shapes -> Shapes]
  /\ \A s \in Shapes : Regime[Regime[s]] = Regime[s]
  /\ SlotRange \in [Shapes -> Ranges]
  /\ Gapped \subseteq Ranges
  /\ ProfileHits \subseteq Shapes

ASSUME BiasAssumption == BiasLayout \in BiasLayouts

ASSUME NoneAssumption ==
  /\ None \notin Versions
  /\ None \notin Owners
  /\ None \notin [shape : Shapes, regime : Shapes, ver : Versions, range : Ranges]

\* TritonPreparedPositionPlan: "regime" stands for delta_to_local and
\* position_offset, "ver" and "range" for pos_key and pos_query.
Plan == [shape : Shapes, regime : Shapes, ver : Versions, range : Ranges]

AttentionLayer ==
  [weight    : Versions \cup {None},            \* _cached_qkv_weight
   packer    : Owners \cup {None},              \* who built that buffer
   bound     : Owners \cup {None},              \* whose buffer the host's parameters view
   bias      : Versions \cup {None},            \* _cached_qkv_bias
   workspace : Versions \cup {None},            \* _cached_pos_key, _cached_pos_query
   shapes    : [Shapes -> Plan \cup {None}],    \* _triton_position_projection_cache
   compact   : [Ranges -> Versions \cup {None}],\* _compact_position_projection_cache
   resolved  : SUBSET Shapes,                   \* _resolved_kernel_configs
   failed    : SUBSET Shapes]                   \* _failed_profile_workloads

NewLayer ==
  [weight |-> None, packer |-> None, bound |-> None, bias |-> None,
   workspace |-> None,
   shapes |-> [s \in Shapes |-> None], compact |-> [r \in Ranges |-> None],
   resolved |-> {}, failed |-> {}]

------------------------------------------------------------------------------
(* Plausible slips in the operations that follow, for the mutation runs.   *)

ClearKeepingCompact(a) == [NewLayer EXCEPT !.bound = a.bound, !.compact = a.compact]

ReleaseNothing(a) == a

ReleaseWeightToo(a) == [a EXCEPT !.workspace = None, !.weight = None]

BiasesForgotten(a, v) == a

CompactOnly(a, s) == a.compact[SlotRange[Regime[s]]]

IndexedByItself(a, s) ==
  [shape |-> s, regime |-> s, ver |-> a.workspace, range |-> SlotRange[Regime[s]]]

------------------------------------------------------------------------------
(* clear_inference_cache, with the subclass's override.                    *)
ClearInferenceCache(a) == [NewLayer EXCEPT !.bound = a.bound]

(* _prepare_fused_qkv: torch.cat of the weights into a new buffer, then    *)
(* the host's parameters rebound as views of the caller's own buffer       *)
(* (which another thread may have replaced meanwhile), then the biases.    *)
PackWeights(a, v, t) == [a EXCEPT !.weight = v, !.packer = t]

RebindWeights(a, t) == [a EXCEPT !.bound = t]

PackBiases(a, v) == [a EXCEPT !.bias = IF BiasLayout = "all" THEN v ELSE None]

(* The projections at the end of prepare_for_inference.                    *)
ProjectPositions(a, v) == [a EXCEPT !.workspace = v]

ReleaseWorkspace(a) == [a EXCEPT !.workspace = None]

(* prepare_shape: the layer's own cache, then the representative's tables, *)
(* then _project_active_positions: slots with a hole are refused; the      *)
(* compact tables of the same slots, or a narrowing of the workspace,      *)
(* which must exist.                                                       *)
Representative(a, s) == a.shapes[Regime[s]]

CompactTable(a, s) == a.compact[SlotRange[Regime[s]]]

CanPrepareShape(a, s) ==
  \/ a.shapes[s] # None
  \/ Representative(a, s) # None
  \/ /\ SlotRange[Regime[s]] \notin Gapped
     /\ CompactTable(a, s) # None \/ a.workspace # None

NarrowedTable(a, s) ==
  IF CompactTable(a, s) # None THEN CompactTable(a, s) ELSE a.workspace

ShapePlan(a, s) ==
  LET rep == Representative(a, s) IN
  IF a.shapes[s] # None THEN a.shapes[s]
  ELSE [shape  |-> s,
        regime |-> Regime[s],
        ver    |-> IF rep # None THEN rep.ver ELSE NarrowedTable(a, s),
        range  |-> IF rep # None THEN rep.range ELSE SlotRange[Regime[s]]]

PrepareShape(a, s) ==
  LET projected == a.shapes[s] = None /\ Representative(a, s) = None
      plan      == ShapePlan(a, s)
  IN  [a EXCEPT
        !.shapes[s] = plan,
        !.compact = IF projected
                    THEN [@ EXCEPT ![SlotRange[Regime[s]]] = NarrowedTable(a, s)]
                    ELSE @]

(* _resolve_kernel_config in the "auto" mode every adapter layer runs in:  *)
(* the memo of profile lookups, then the direct launch unless the profile  *)
(* has no entry or its configuration failed before.                        *)
MemoizeConfig(a, r) == [a EXCEPT !.resolved = @ \cup {r}]

DirectLaunch(a, r) == r \in ProfileHits \ a.failed

RecordFailure(a, r) == [a EXCEPT !.failed = @ \cup {r}]
==============================================================================
