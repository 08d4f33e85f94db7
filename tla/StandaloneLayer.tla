--------------------------- MODULE StandaloneLayer ---------------------------
(***************************************************************************)
(* One attention layer used directly, without the encoder adapter: its     *)
(* forward, forward_packed, forward_prepared, prepare_for_inference and    *)
(* prepare_shape by a single caller, with allocations that fail, and the   *)
(* host's train(), _apply(), load_state_dict() and                         *)
(* set_position_plan_cache() between calls. conf.backend tells the PyTorch *)
(* layer (_torch.py) from the Triton one that inherits from it (kernel.py).*)
(*                                                                         *)
(* A tensor is the version of the parameters it was computed from. The     *)
(* choice of a launch configuration is LaunchPolicy's. A position plan     *)
(* keeps apart the slots its index map points into and the slots its       *)
(* tables hold. A plan cache that is attached has the layer's settings: a  *)
(* layer without relative attention has none of its own to build one from  *)
(* (_torch.py:76-81), and is given one.                                    *)
(***************************************************************************)
EXTENDS Naturals

CONSTANTS
  Lengths,      \* sequence lengths, all within the kernel's limit of 8192
  Ranges,       \* ranges of embedding slots (slot_start, slot_count)
  Regime,       \* tuning_sequence_length of each length
  SlotRange,    \* the active slots of a length's index plan
  Gapped,       \* the ranges with a hole: see SlotsContiguous of PositionPlan
  MaxVersion,   \* bound on the changes of the parameters
  MaxCaches,    \* bound on the position plan caches attached in turn
  None          \* Python's None

Kinds == {"c2p", "p2c"}

Versions == 0..MaxVersion

ASSUME LengthsAssumption ==
  /\ Lengths \subseteq Nat
  /\ Regime \in [Lengths -> Lengths]
  /\ \A s \in Lengths : Regime[Regime[s]] = Regime[s]
  /\ SlotRange \in [Lengths -> Ranges]
  /\ Gapped \subseteq Ranges

ASSUME BoundsAssumption == MaxVersion \in Nat /\ MaxCaches \in Nat \ {0}

ASSUME NoneAssumption ==
  /\ None \notin Nat
  /\ None \notin [Kinds -> Versions \cup {None}]
  /\ None \notin [shape : Lengths, index : Ranges, range : Ranges,
                  pos : [Kinds -> Versions \cup {None}], cache : 1..MaxCaches]

Tables == [Kinds -> Versions \cup {None}]       \* pos_key, pos_query

\* TorchPositionPlan, TritonPreparedPositionPlan: "index" and "cache" are the
\* slots its gather map points into and the cache the map came from, "pos" and
\* "range" its tables, if any, and the slots they hold.
Plan == [shape : Lengths, index : Ranges, range : Ranges,
         pos : Tables, cache : 1..MaxCaches]

AttentionLayer ==
  [weight  : Versions \cup {None},              \* _cached_qkv_weight
   bias    : Versions \cup {None},              \* _cached_qkv_bias
   pos     : Tables,                            \* _cached_pos_key, _cached_pos_query
   shapes  : [Lengths -> Plan \cup {None}],     \* _(triton_)position_projection_cache
   compact : [Ranges -> Tables \cup {None}]]    \* _compact_position_projection_cache

\* kinds: the part of pos_att_type a layer with relative attention has.
Configurations ==
  {c \in [backend : {"torch", "triton"}, relative : BOOLEAN, kinds : SUBSET Kinds] :
     c.relative \/ c.kinds = {}}

Operations == {"forward", "packed", "dynamic", "prepared", "prepare", "shape"}

Steps == Kinds \cup {"idle", "clear", "pack", "bias", "shape", "run", "answered", "raised"}

VARIABLES
  conf,         \* the layer's configuration
  training,     \* module.training
  version,      \* how often the parameters have changed
  cache,        \* position_plan_cache
  layer,        \* the layer's inference caches
  call,         \* the call in progress
  held          \* a plan the caller keeps from prepare_shape

vars == <<conf, training, version, cache, layer, call, held>>

CallRecord ==
  [pc : Steps, op : Operations,
   todo : SUBSET Lengths,                       \* lengths still to be planned
   rel : BOOLEAN,                               \* rel_embeddings was given
   plans : SUBSET Plan,                         \* the plans in hand
   used : SUBSET (Versions \cup {None}),        \* what the answer was computed from
   half : BOOLEAN,                              \* arrived on a half-projected layer
   excused : BOOLEAN]                           \* refused input, failed allocation or launch

NoTables == [k \in Kinds |-> None]

EmptyCaches ==
  [weight |-> None, bias |-> None, pos |-> NoTables,
   shapes |-> [s \in Lengths |-> None], compact |-> [r \in Ranges |-> None]]

Idle ==
  [pc |-> "idle", op |-> "forward", todo |-> {}, rel |-> FALSE, plans |-> {},
   used |-> {}, half |-> FALSE, excused |-> FALSE]

TypeOK ==
  /\ conf \in Configurations
  /\ training \in BOOLEAN
  /\ version \in Versions
  /\ cache \in 1..MaxCaches
  /\ layer \in AttentionLayer
  /\ call \in CallRecord
  /\ held \in Plan \cup {None}

\* A module is built in training mode.
Init ==
  /\ conf \in Configurations
  /\ training = TRUE
  /\ version = 0
  /\ cache = 1
  /\ layer = EmptyCaches
  /\ call = Idle
  /\ held = None

------------------------------------------------------------------------------
(* Plausible slips in the operations that follow, for the mutation runs.   *)

ClearedButCompact(a) == [EmptyCaches EXCEPT !.compact = a.compact]

ClearedButPlans(a) == [EmptyCaches EXCEPT !.shapes = a.shapes]

KeyTableMissing(op, todo) ==
  layer.weight = None \/ ("c2p" \in conf.kinds /\ layer.pos["c2p"] = None)

OwnSlots(s) == SlotRange[s]

CompactOnly(r) == IF conf.kinds = {} THEN NoTables ELSE layer.compact[r]

------------------------------------------------------------------------------
(* The caches.                                                             *)

Cleared(a) == EmptyCaches

\* The Triton layer plans a length by its representative's slots, the PyTorch
\* layer by its own.
PlannedAs(s) == IF conf.backend = "triton" THEN Regime[s] ELSE s

\* _project_active_positions: the slots must be one range without a hole; then
\* their compact tables, or a narrowing of the full tables, of which every kind
\* in use must be there.
CanProject(r) ==
  conf.kinds # {} =>
    /\ r \notin Gapped
    /\ layer.compact[r] # None \/ \A k \in conf.kinds : layer.pos[k] # None

Projected(r) ==
  IF conf.kinds = {} THEN NoTables
  ELSE IF layer.compact[r] # None THEN layer.compact[r]
  ELSE [k \in Kinds |-> IF k \in conf.kinds THEN layer.pos[k] ELSE None]

FiledCompact(r) ==
  IF conf.kinds = {} THEN layer.compact
  ELSE [layer.compact EXCEPT ![r] = Projected(r)]

\* prepare_shape: the length's own plan, then the representative's tables, then
\* a projection.
TableSlots(s) == SlotRange[PlannedAs(s)]

CanPlan(s) ==
  \/ layer.shapes[s] # None
  \/ layer.shapes[PlannedAs(s)] # None
  \/ CanProject(TableSlots(s))

PlanFor(s) ==
  LET rep == layer.shapes[PlannedAs(s)] IN
  IF layer.shapes[s] # None THEN layer.shapes[s]
  ELSE [shape |-> s, index |-> SlotRange[PlannedAs(s)], cache |-> cache,
        range |-> IF rep # None THEN rep.range ELSE TableSlots(s),
        pos   |-> IF rep # None THEN rep.pos ELSE Projected(TableSlots(s))]

PlanFiled(s) ==
  [layer EXCEPT
    !.shapes[s] = PlanFor(s),
    !.compact = IF layer.shapes[s] = None /\ layer.shapes[PlannedAs(s)] = None
                THEN FiledCompact(TableSlots(s))
                ELSE @]

------------------------------------------------------------------------------
(* Calls.                                                                  *)

\* forward: a plan and a pack are enough. Otherwise every table in use must be
\* there. forward_packed is content with any one of them, or with plans.
Ready(op, todo) ==
  /\ op = "forward"
  /\ layer.weight # None
  /\ \A s \in todo : layer.shapes[s] # None

TableMissing(op, todo) ==
  \/ layer.weight = None
  \/ \E k \in conf.kinds : layer.pos[k] = None

PackedTableMissing(op, todo) ==
  \/ layer.weight = None
  \/ /\ conf.kinds # {}
     /\ \A k \in Kinds : layer.pos[k] = None
     /\ \E s \in todo : layer.shapes[s] = None

NeedsPreparation(op, todo) ==
  CASE op = "prepare"               -> TRUE
    [] op \in {"forward", "dynamic"} -> ~Ready(op, todo) /\ TableMissing(op, todo)
    [] op = "packed"                -> PackedTableMissing(op, todo)
    [] OTHER                        -> FALSE

Longest(S) == {m \in S : \A n \in S : n <= m}

\* The lengths a call asks plans for: every one of a packed batch on the PyTorch
\* layer, the longest on the Triton layer.
Wanted(op, S) == IF op = "packed" /\ conf.backend = "triton" THEN Longest(S) ELSE S

HalfProjected == \E j, k \in conf.kinds : layer.pos[j] # None /\ layer.pos[k] = None

Offered(op, S) ==
  /\ op = "prepare"  => S = {}
  /\ op = "packed"   => S # {}
  /\ op = "dynamic"  => conf.backend = "torch"
  /\ op = "prepared" => held # None /\ S = {held.shape}
  /\ op \in {"forward", "dynamic", "shape"} => \E s \in Lengths : S = {s}

Arrive(op, S, rel) ==
  /\ call.pc = "idle"
  /\ ~training
  /\ Offered(op, S)
  /\ LET todo == Wanted(op, S) IN
     call' = [Idle EXCEPT
               !.pc = CASE op = "prepared" \/ Ready(op, todo) -> "run"
                        [] NeedsPreparation(op, todo)         -> "clear"
                        [] OTHER                              -> "shape",
               !.op = op, !.todo = todo, !.rel = rel, !.half = HalfProjected,
               !.plans = CASE op = "prepared"  -> {held}
                           [] Ready(op, todo)  -> {layer.shapes[s] : s \in todo}
                           [] OTHER            -> {}]
  /\ UNCHANGED <<conf, training, version, cache, layer, held>>

Answering == {"forward", "packed", "dynamic", "prepared"}

\* Every operation refuses a module in training mode, and those that answer also
\* refuse gradients and inputs the backend has no path for.
ArriveRefused(op) ==
  /\ call.pc = "idle"
  /\ training \/ op \in Answering
  /\ call' = [Idle EXCEPT !.pc = "raised", !.op = op, !.excused = TRUE]
  /\ UNCHANGED <<conf, training, version, cache, layer, held>>

\* prepare_for_inference.
Clear ==
  /\ call.pc = "clear"
  /\ layer' = Cleared(layer)
  /\ call' = [call EXCEPT !.pc = "pack"]
  /\ UNCHANGED <<conf, training, version, cache, held>>

Pack ==
  /\ call.pc = "pack"
  /\ layer' = [layer EXCEPT !.weight = version]
  /\ call' = [call EXCEPT !.pc = "bias"]
  /\ UNCHANGED <<conf, training, version, cache, held>>

AfterPreparing(op) == IF op = "prepare" THEN "answered" ELSE "shape"

Bias ==
  /\ call.pc = "bias"
  /\ layer' = [layer EXCEPT !.bias = version]
  /\ call' = [call EXCEPT !.pc = IF ~conf.relative THEN AfterPreparing(call.op)
                                 ELSE IF call.rel THEN "c2p" ELSE "raised"]
  /\ UNCHANGED <<conf, training, version, cache, held>>

Project(k) ==
  /\ call.pc = k
  /\ layer' = IF k \in conf.kinds THEN [layer EXCEPT !.pos[k] = version] ELSE layer
  /\ call' = [call EXCEPT !.pc = IF k = "c2p" THEN "p2c" ELSE AfterPreparing(call.op)]
  /\ UNCHANGED <<conf, training, version, cache, held>>

Shape(s) ==
  /\ call.pc = "shape"
  /\ call.op # "dynamic"
  /\ s \in call.todo
  /\ CanPlan(s)
  /\ layer' = PlanFiled(s)
  /\ call' = [call EXCEPT !.todo = @ \ {s}, !.plans = @ \cup {PlanFor(s)},
                          !.pc = IF call.todo # {s} THEN "shape"
                                 ELSE IF call.op = "shape" THEN "answered" ELSE "run"]
  /\ held' = IF call.op = "shape" THEN PlanFor(s) ELSE held
  /\ UNCHANGED <<conf, training, version, cache>>

\* "active relative-position slots are unexpectedly non-contiguous", or
\* "call prepare_for_inference() before prepare_shape()"
ShapeRefused(s) ==
  /\ call.pc = "shape"
  /\ call.op # "dynamic"
  /\ s \in call.todo
  /\ ~CanPlan(s)
  /\ call' = [call EXCEPT !.pc = "raised"]
  /\ UNCHANGED <<conf, training, version, cache, layer, held>>

\* The caller's own relative_pos selects the slots; nothing is filed by length.
Dynamic(s, r) ==
  /\ call.pc = "shape"
  /\ call.op = "dynamic"
  /\ conf.relative
  /\ s \in call.todo
  /\ CanProject(r)
  /\ layer' = [layer EXCEPT !.compact = FiledCompact(r)]
  /\ call' = [call EXCEPT
               !.pc = "run", !.todo = {},
               !.plans = {[shape |-> s, index |-> r, cache |-> cache,
                           range |-> r, pos |-> Projected(r)]}]
  /\ UNCHANGED <<conf, training, version, cache, held>>

\* Slots with a hole are the caller's doing.
DynamicRefused(r) ==
  /\ call.pc = "shape"
  /\ call.op = "dynamic"
  /\ conf.relative
  /\ ~CanProject(r)
  /\ call' = [call EXCEPT !.pc = "raised", !.excused = r \in Gapped]
  /\ UNCHANGED <<conf, training, version, cache, layer, held>>

\* Only relative attention has a pos_ebd_size: AttributeError.
DynamicUnrelated ==
  /\ call.pc = "shape"
  /\ call.op = "dynamic"
  /\ ~conf.relative
  /\ call' = [call EXCEPT !.pc = "raised"]
  /\ UNCHANGED <<conf, training, version, cache, layer, held>>

\* forward_prepared.
Run ==
  /\ call.pc = "run"
  /\ layer.weight # None
  /\ call' = [call EXCEPT
               !.pc = "answered",
               !.used = {layer.weight, layer.bias} \cup
                        {p.pos[k] : p \in call.plans, k \in conf.kinds}]
  /\ UNCHANGED <<conf, training, version, cache, layer, held>>

RunUnprepared ==
  /\ call.pc = "run"
  /\ layer.weight = None
  /\ call' = [call EXCEPT !.pc = "raised"]
  /\ UNCHANGED <<conf, training, version, cache, layer, held>>

\* profile_only has no configuration for the workload, or the launch fails: see
\* LaunchPolicy.
LaunchRefused ==
  /\ call.pc = "run"
  /\ conf.backend = "triton"
  /\ call' = [call EXCEPT !.pc = "raised", !.excused = TRUE]
  /\ UNCHANGED <<conf, training, version, cache, layer, held>>

\* An allocation fails at any step that makes a tensor.
AllocationFails ==
  /\ call.pc \in {"pack", "bias", "shape", "run"} \cup conf.kinds
  /\ call' = [call EXCEPT !.pc = "raised", !.excused = TRUE]
  /\ UNCHANGED <<conf, training, version, cache, layer, held>>

Return ==
  /\ call.pc \in {"answered", "raised"}
  /\ call' = Idle
  /\ UNCHANGED <<conf, training, version, cache, layer, held>>

------------------------------------------------------------------------------
(* The host, between calls.                                                *)

Train(mode) ==
  /\ call.pc = "idle"
  /\ training' = mode
  /\ layer' = IF mode THEN Cleared(layer) ELSE layer
  /\ UNCHANGED <<conf, version, cache, call, held>>

\* An optimizer updates the parameters of a module in training mode in place.
OptimizerStep ==
  /\ call.pc = "idle"
  /\ training
  /\ version < MaxVersion
  /\ version' = version + 1
  /\ UNCHANGED <<conf, training, cache, layer, call, held>>

\* _apply, and load_state_dict with its post hook.
ReplaceParameters ==
  /\ call.pc = "idle"
  /\ version < MaxVersion
  /\ version' = version + 1
  /\ layer' = Cleared(layer)
  /\ UNCHANGED <<conf, training, cache, call, held>>

ClearInferenceCache ==
  /\ call.pc = "idle"
  /\ layer' = Cleared(layer)
  /\ UNCHANGED <<conf, training, version, cache, call, held>>

ReleaseWorkspace ==
  /\ call.pc = "idle"
  /\ layer' = [layer EXCEPT !.pos = NoTables]
  /\ UNCHANGED <<conf, training, version, cache, call, held>>

\* The inherited method clears the PyTorch layer's plans; the Triton layer keeps
\* its own in another dictionary.
SetPositionPlanCache ==
  /\ call.pc = "idle"
  /\ cache < MaxCaches
  /\ cache' = cache + 1
  /\ layer' = [layer EXCEPT
                !.compact = EmptyCaches.compact,
                !.shapes = IF conf.backend = "torch" THEN EmptyCaches.shapes ELSE @]
  /\ UNCHANGED <<conf, training, version, call, held>>

CallStep ==
  \/ \E op \in Operations, S \in SUBSET Lengths, rel \in BOOLEAN : Arrive(op, S, rel)
  \/ \E op \in Operations : ArriveRefused(op)
  \/ Clear
  \/ Pack
  \/ Bias
  \/ \E k \in Kinds : Project(k)
  \/ \E s \in Lengths : Shape(s) \/ ShapeRefused(s)
  \/ \E s \in Lengths, r \in Ranges : Dynamic(s, r)
  \/ \E r \in Ranges : DynamicRefused(r)
  \/ DynamicUnrelated
  \/ Run
  \/ RunUnprepared
  \/ LaunchRefused
  \/ AllocationFails
  \/ Return

HostStep ==
  \/ \E mode \in BOOLEAN : Train(mode)
  \/ OptimizerStep
  \/ ReplaceParameters
  \/ ClearInferenceCache
  \/ ReleaseWorkspace
  \/ SetPositionPlanCache

Next == CallStep \/ HostStep

Spec == Init /\ [][Next]_vars

------------------------------------------------------------------------------
(* Properties.                                                             *)

\* Whatever survives in the caches, after any failure, was computed from the
\* parameters as they are: train(), _apply() and the load hook (_torch.py:42-46,
\* 108-126) between them leave nothing behind.
CachesCurrent ==
  LET current(v) == v \in {None, version} IN
  /\ current(layer.weight) /\ current(layer.bias)
  /\ \A k \in Kinds :
       /\ current(layer.pos[k])
       /\ \A s \in Lengths : layer.shapes[s] # None => current(layer.shapes[s].pos[k])
       /\ \A r \in Ranges : layer.compact[r] # None => current(layer.compact[r][k])

\* An answer comes from the current parameters and from all of them: a call never
\* runs on a pack without its biases, even when an earlier call failed between the
\* two (_torch.py:150, 179). The exceptions are a layer without position tables,
\* which nothing makes prepare again, and forward_prepared, which checks no more
\* than the weight and takes the tables of the plan its caller kept.
AnswersCurrent ==
  call.pc = "answered" /\ call.op \in Answering =>
    /\ version \in call.used
    /\ call.op # "prepared" => call.used \subseteq {version, None}
    /\ conf.kinds # {} /\ call.op # "prepared" => None \notin call.used

\* A call in eval mode that brings the relative embeddings is answered whatever
\* earlier calls left behind, unless memory or the launch fails during it or its
\* input is refused. Three calls are not: forward_packed on a layer of which only
\* the first of two tables was projected (kernel.py:1388-1395), until something
\* clears the layer; a relative_pos given to a layer without relative attention
\* (_torch.py:367); and a length whose active slots have a hole (_torch.py:266).
EligibleAnswered ==
  call.pc = "raised" /\ call.rel /\ ~call.excused
    /\ call.op \in {"forward", "packed", "dynamic"}
    => \/ call.op = "packed" /\ call.half
       \/ call.op = "dynamic" /\ ~conf.relative
       \/ /\ call.op # "dynamic"
          /\ conf.kinds # {}
          /\ \E s \in call.todo : TableSlots(s) \in Gapped

\* The tables of a plan hold the slots its index map points into, wherever they
\* were taken from (kernel.py:1500-1516): the representative's plan, the compact
\* tables, or the full ones; and every kind in use has its table.
TablesFitIndex ==
  \A s \in Lengths : layer.shapes[s] # None =>
    LET p == layer.shapes[s] IN
    /\ p.shape = s
    /\ p.range = p.index
    /\ \A k \in conf.kinds : p.pos[k] # None
    /\ p.index = SlotRange[PlannedAs(s)]

\* "Attach a model-wide index cache and discard layer-derived plans"
\* (_torch.py:101): no plan outlives the cache it was made from.
PlansFromAttachedCache ==
  \A s \in Lengths : layer.shapes[s] # None => layer.shapes[s].cache = cache
==============================================================================
