# Formal model of disentangled-flash

`disentangled-flash` replaces the forward pass of a DeBERTa-v2 encoder by Triton
attention kernels that never build the dense relative-position tensor. What makes that
hard to get right is not the arithmetic alone: an encoder keeps packed weights,
projected position tables, plans for the lengths it has served and memos of launch
configurations, all filled lazily, shared by every caller without a lock, and dropped or
rebuilt at moments no test arranges. This directory holds TLA+ modules for those parts,
TLC configurations that check them on small instances, and TLAPS proofs of the
invariants that matter most, for any number of callers, layers, lengths, encoders, files
and devices.

Paths below are relative to `src/torch-ext/disentangled_flash/` unless they start with
`src/`.

## 1. The system

| Component | State it keeps | Operations | What makes it correct |
|---|---|---|---|
| Encoder plan cache (`_encoder.py` 69-81, 180-207, 324-402) | an `OrderedDict` of plans by (length, device), at most `MAX_CACHED_SHAPES`; one shadow attention layer per encoder layer | `_plans_for` (hit, cold preparation, eviction), `_fast_forward` | an LRU that stays well formed; only whole plans are published; answers computed from the weights the host has |
| Per-layer caches (`_torch.py` 80-305, `kernel.py` 1236-1360) | packed QKV weight and bias that the host's parameters view, full position tables (a workspace), compact tables, plans by shape, launch memo, memo of failed configurations | `prepare_for_inference`, `prepare_shape`, `release_position_projection_workspace`, `clear_inference_cache`, `_resolve_kernel_config` | nothing stale survives a clear; what is retained does not grow |
| Encoder registry (`_encoder.py` 58-60, 124-177) | `_STATES` and `_FINALIZERS`, keyed by `id(encoder)` | `_state_for`, `_build_state`, `_drop_state` | an entry dies with its encoder; an address used again never finds the old entry |
| Position plans (`position.py`, `_reference.py` 115-158) | compact and dense plans by length | `compact`, `dense`, `clear` | the one lookup table of a representative length gives the rows the reference gathers |
| Attention kernels (`kernel.py` 162-628) | per program: running maximum, sum and accumulator of a block of rows | one tile, then the next; the store | the reference's softmax, no NaN, each row written once |
| Gate and fallback (`_encoder.py` 210-322, 371-402) | `_WARNED` | `_unsupported_reason`, `_reference_forward` | an answer of the fast path is the encoder's own; what the fast path refuses, the gate could not see |
| Profile files (`tuning.py` 444-589, 671-693) | the files of the user's directory and the temporary ones beside them | `load_profile`, `merge_profile_entry`, `save_profile` | a file is whole whenever it is read, a save changes it at once, and keeps the other entries |
| Launch policy (`tuning.py` 592-649, `kernel.py` 39-152, 1298-1360) | a layer's registry, its memos of resolved and of failed configurations, the autotuner's results | `from_options`, `resolve`, `_resolve_kernel_config`, pruning, falling back | each launch follows the profiles, the mode and the failures seen, on the GPU it runs on |
| Packed batches (`packed.py`, `kernel.py` 857-1031, 1362-1475) | boundaries, twice: the host's and the device's | `pack_padded_with_info`, `validate_cu_seqlens`, `resolve_packed_info`, `forward_packed`, `unpack_packed` | broken boundaries are refused; packing and unpacking invert each other |
| Standalone layer (`kernel.py` 1647-1698, `_torch.py` 108-126) | the per-layer caches above, without an encoder | `forward`, `forward_packed`, `train`, `_apply` | lazy preparation serves the weights of now |
| Reference attention (`_reference.py`) | weights | `forward` | it is what the kernels are compared with |
| Scripts (`src/scripts/`) | vendored files | copying, rewriting, import checks | a refused module is not left behind |

How they interact. `encoder_forward` asks the gate; if it passes, it takes the encoder's
state from the registry (building it on the first call), takes the plans for the input's
length from that state's LRU, and runs every layer's `forward_prepared` with its plan.
A cold length goes through every layer three times: rebuild the QKV pack and the
position tables, derive the plan of the length, release the tables. The pack's storage
*is* the host's parameters afterwards (`_torch.py` 152-168), so the model and the cache
share memory. `weakref.finalize` calls back into the registry when an encoder is
collected. The launch either uses a configuration from a bundled profile or the
autotuned kernel; a failing direct launch is remembered and autotuned instead.

Hard behaviours: callers in several threads interleave inside `_plans_for` (no lock
anywhere); any allocation of a cold preparation may fail and nothing is rolled back;
the host may be updated in place, reassigned, given other modules, or given another
number of layers between calls, and no hook of the shadow layers sees it, since they are
not submodules of the host; an address may be used again; the position table of a longer
length is read for a shorter one; tiles may be masked everywhere; a process that saves a
profile may be killed, or lose power, between any two statements, while others save to and
load from the same path; a configuration a profile names may fail to launch; and the host
may hand the packed kernel boundaries that are not those on the device.
`PROJECT.json` lists each hazard with its line and the properties that cover it.

## 2. The modules

| Module | Models | Composition |
|---|---|---|
| `AttentionCaches` | one layer's caches as a record and its operations as operators | used by `EncoderCache` |
| `EncoderCache` | the LRU, cold preparation, forward, faults, host updates, for interleaved callers | EXTENDS `AttentionCaches`; implements `EncoderContract` |
| `EncoderContract` | what a caller may count on: an undisturbed call is answered exactly | abstract specification |
| `EncoderRegistry` | `_STATES`, `_FINALIZERS`, addresses and collection | - |
| `EncoderEntry` | `encoder_forward`: the gate, the reference encoder, the fast path | EXTENDS `EncoderRegistry`; its steps are the registry's or leave it alone |
| `PositionPlan` | log bucketing, compact and dense plans, the kernel's lookup | EXTENDS `Arithmetic` |
| `StandaloneLayer` | a layer without an encoder: lazy `forward`, `forward_packed`, `train`, `_apply`, plan caches, faults | - |
| `TiledAttention` | one kernel launch: grid, tiles, online softmax, stores | EXTENDS `Arithmetic` |
| `PackedBatch` | packing, the decision on the boundaries, the packed launch, unpacking | EXTENDS `TiledAttention`, which runs what it launches |
| `ProfileStore` | profile files, tuners that load, merge and save, kills and losses of power | implements `AtomicProfile` |
| `AtomicProfile` | what "Atomically save a validated profile" promises to readers | abstract specification |
| `LaunchPolicy` | a layer's registry of profiles, its memos, direct launches, the autotuner | EXTENDS `ProfileStore`: it reads the files while tuners save |
| `Arithmetic` | the sum of a function over a finite set, and powers | used by the two above |
| `EncoderCacheProofs`, `EncoderPublishProofs`, `EncoderEntryProofs`, `StandaloneProofs`, `LaunchPolicyProofs`, `PositionProofs`, `TiledProofs` | theorems | each EXTENDS its component and TLAPS; `EncoderPublishProofs` builds on `EncoderCacheProofs`, `EncoderEntryProofs` holds the registry's theorems too, `LaunchPolicyProofs` the store's, `TiledProofs` those of `PackedBatch` |
| `ArithmeticProofs` | lemmas on sums, powers and induction | used by `PositionProofs` and `TiledProofs` |
| `MCEncoder`, `MCEntry`, `MCPosition`, `MCStandalone`, `MCTiles`, `MCTuning` | values of the constants for TLC | - |

### From the code to the state

**AttentionCaches.** A tensor is the *version* of the weights it was computed from; a
position table also carries the range of embedding slots it holds. `pos_key` and
`pos_query` are one table: the code fills, reads and drops them together for every
`pos_att_type` the gate accepts. `weight`, `bias`, `workspace`, `shapes`, `compact`, `resolved` and
`failed` are `_cached_qkv_weight`, `_cached_qkv_bias`, `_cached_pos_key/_query`,
`_triton_position_projection_cache`, `_compact_position_projection_cache`,
`_resolved_kernel_configs` and `_failed_profile_workloads`. `packer` and `bound` say whose
buffer the cached pack is and whose buffer the host's parameters view: the two differ
only when two preparations of a layer overlap or parameters were reassigned, and decide
whether an in-place update reaches the pack.

**EncoderCache.** `order` and `plans` are the keys and values of `state.plans`; `call[t]`
holds the program counter and the locals of thread `t`'s call. `Clear`, `Pack`, `Rebind`,
`Bias`, `Project` are the statements of `prepare_for_inference` in their order, and a
failing allocation (`AllocationFails`) can end the call before any of them that allocates,
leaving all that went before, as the code does. `_plans_for` has a step for every access to
the LRU: the lookup, `move_to_end`, the store, the test of the length (`EvictMore`) and the
`popitem` (`EvictOldest`, a KeyError if others have emptied the cache meanwhile).
`forward_prepared` is two steps, because `_resolve_kernel_config` inserts into a memo and
reads it back.

Three steps stand for several accesses to one layer: `Clear` empties its dictionaries one
after the other, `Shape` reads a plan or a table and files another, `Run` reads the weight,
the bias and the plan. What splitting them would add is a preparation of another thread in
between, and only calls it disturbs can see that: the contract leaves those any answer, and
since the host is not updated while a call runs, a table filed late is the same table. What
outlasts the overlap is not affected: a layer whose clear was interrupted is packed again by
the call that cleared it.

The raises are steps too: `TouchEvicted` (KeyError of `move_to_end`), `ShapeRefused` (slots
with a gap, the lengths of `Gapped`, or tables that another call has released), `RunRefused`
and `LaunchForgotten`. Host updates happen between calls: in place (reaches the pack through
the views), reassignment (does not), replaced projection modules (the shadow layers keep the
old ones: `source` falls behind `version`), and a changed number of layers. A call's `used`
collects the versions its answer was made from, and `None` for a bias that was missing; the
answer is exact when that is exactly the host's version. A host without biases contributes
none; one with biases on some projections only is refused in the first preparation, which
is `EncoderEntry`'s.

**EncoderContract.** A request is pending or disturbed (another call prepares a length
while it runs); a pending one is answered exactly, a disturbed one may raise or be
inexact. The refinement maps a thread's call to its request, and its outcome to the reply.

**EncoderRegistry.** `address` is `id()`; `Create` picks any free address, `Collect` runs
the finalizers before the address is free again, as the interpreter does. `_state_for` is
split at each access to the two dictionaries.

**EncoderEntry.** Every layer is a record of what `_attention_config` and
`_share_projections` take from its attention: its projections, the attributes an upstream
change may have taken away, the head size, `pos_att_type`, the biases, the positions.
`layers[e]` are the layers the encoder has, `built[s]` those the state `s` was built from;
`Relayer` replaces, adds and removes layers between calls. `Supported` is
`_unsupported_reason`, question by question, with `layers[e][1]` where the code reads
`layers[0]`. The fast path is written from its own statements: `BuildRefused` is what
`_build_state` needs of every layer, `PlansRefused` what `_plans_for` and the preparations
raise on, `RunRefused` the count of the layers and `forward_prepared` of each. `FastLayers`
is what each layer of an answer was computed with (the shadow's projections, the encoder's
own rest, the first layer's index map, paired by `zip`), `HostLayers` what the encoder's own
loop computes, `Extras` what only the reference path does for a call. The gate is one step
with the entry, since nothing it reads changes meanwhile. A thread with `entry` set and no
registry call is in the reference encoder, which holds the encoder alive and has no other
effect here. The reason itself goes to a log line, once (`_WARNED`), and is left out.

**PositionPlan.** The ceiling of the logarithm in `make_log_bucket_position` is stated
exactly over integers (the least `n` with `(a/mid)^(mid-1) <= ((maxPos-1)/mid)^n`), so
the float rounding of the code is not modelled. The count stops at the number of buckets:
whatever the logarithm is beyond it, the slot is clamped to the last one. A setting of one
bucket is left out (`PositionAssumption`): its `mid` is zero, and the code divides by it.
The cache is that of an encoder behind the gate, which has c2p or p2c: the branch of
`compact` for `uses_position_bias=False`, a plan without slots, is left out. `KernelSlot` is
the address the kernel computes, with the representative's table and its `POSITION_OFFSET`.

**StandaloneLayer.** The same caches seen from `forward` and `forward_packed` of the two
classes. Here `pos_key` and `pos_query` are told apart, since `pos_att_type` may have
either and a failure can fall between them, and a plan says which slots its index map
points into, which slots its tables hold, and which plan cache the map came from. A call
is a run of steps in the code's order: `Arrive` is the tests of the entry points
(`NeedsPreparation` differs for `forward` and `forward_packed`, on purpose), then
`Clear`, `Pack`, `Bias`, `Project`, `Shape` once per length (the PyTorch layer plans every
length of a packed batch, the Triton layer the longest), and `Run`, which is
`forward_prepared` with the plans in hand or with one the caller kept. `Dynamic` is the
PyTorch layer's path for positions given by the caller; on a layer without relative
attention it reads attributes the constructor never set, and raises (`DynamicUnrelated`).
The refusals are steps: in training mode, with gradients, or of an input the backend does not
take (`ArriveRefused`), slots with a gap or tables that are missing (`ShapeRefused`,
`DynamicRefused`), an unpacked layer (`RunUnprepared`), a workload that `profile_only` has no
profile for, and a launch that raises in a mode that does not fall back (`LaunchRefused`).
The host's operations fall between calls; an optimizer steps only in training mode, as no
call is answered there.

**TiledAttention.** A score is an integer number of doublings, and a value row stands for
itself, so an output row is the weight it gives to every token: weights are integers in
units of `2^-Spread`, minus infinity and NaN are values of their own, and the comparison
with the reference's masked softmax is exact. `OnlyTile` is the branch for a regime that
fits one tile, `NextTile` the online softmax, `Store` the masked store. The packed layout
addresses rows through `cu_seqlens`, the padded one through `batch * SEQUENCE_LENGTH`;
`unpadded` is `assume_unpadded`, which compiles the mask away.

**PackedBatch.** `stage` leads from a padded batch, or from a caller who packed by himself
and hands over boundaries of any sort, through `resolve_packed_info` to the launch and
back. `launch.lengths` are differences of the device's `cu_seqlens`, as the kernel computes
them; `launch.maxSeqlen`, which sets the grid and the regime, is the host's. For packed
boundaries the host trusts without reading the device's, the two may disagree. With the
host's maximum above the device's longest sequence all is well (the kernel's bounds are
the device's); below it, rows stay as `torch.empty` left them and the one-tile branch may be taken
wrongly, which nothing in the code detects: `Covered` excepts it from the properties of
`TiledAttention`, but not from `RowsWrittenOnce`. The PyTorch backend slices by the host's
offsets instead and is not part of this module.

**ProfileStore.** A step is a statement of `save_profile`: create an empty temporary file,
write, sync, rename, unlink. Any may raise, which leads to the `finally` that unlinks; the
process may be killed between two of them. A file has one datum and whether it was synced:
a loss of power keeps a synced file, tears or keeps another, and may take a path back to
any file it held since the last loss, because the directory entry is not synced. So an
acknowledged save may be undone by a loss of power; `AtomicProfile` says as much
(`survivors`), and no more: never a part, never a mixture. The temporary name is random
(eight characters, opened exclusively), so two savers never share one. A killed process
leaves its file behind; readers list `*.json` and never see it. The tuner, which loads,
measures and merges, is the caller the API is made for; the repository has none.

**LaunchPolicy.** `layer` is one `TritonInferenceDisentangledSelfAttention` as far as
launches go: its options, the phases of `ProfileRegistry.from_options` (each file read at
its own moment), the memo by device and workload, and the failed workloads, without a
device, as in the code. `Resolved` is `_resolve_kernel_config`; a direct launch either
succeeds or raises, and then the mode decides. `compiling` is `torch.compiler.is_compiling`,
under which profiles are not asked. `failures` is no variable of the code: it records the
direct launches that have raised since the memos were last cleared, and `FailureRemembered`
compares what is launched with it instead of with the layer's own memo. In the `fixed` mode a configuration that fails is
tried again at each call: only profile modes look at the failures. `tuned` is Triton's own
cache of winners, by `AUTOTUNE_SPECIALIZATION_KEY` (`kernel.py` 39-48), of which the
regime, head size and element type are told apart. The arms of the pruning for regimes up
to 16 and 32 are there although the shortest regime is 64.

Operators whose comment says "a slip" are plausible mistakes in the operation next to
them. No action uses them: they are put in its place to see that a property notices.

## 3. The runs

| Run | Instance | Question |
|---|---|---|
| `encoder_seq` | one caller, 2 layers, 4 lengths, one with a gap in its slots, in 2 places, 2 updates of any kind, any allocation fails | does sequential use keep every cache sound? |
| `encoder_threads` | two callers, 2 layers, 2 lengths of one regime, one place | does every interleaving implement the contract, and end? |
| `encoder_faults` (violation) | one caller, faults, no updates | "The kernel is exact" after a failed preparation |
| `encoder_updates` (violation) | one caller, in-place updates, no faults | "The kernel is exact" after an update |
| `registry` | two threads, three encoders over time, one whose layers are replaced and removed, one whose layers differ in what the gate does and does not see, one with a convolution; two calls, two addresses, builds may raise | is a state ever used for, or kept beyond, another encoder, and is what passes the gate answered as the encoder would, or refused only for what the gate does not look at? |
| `fallback` (violation) | the same with an encoder whose second layer has head size 48 | "Anything the kernel does not support falls back" |
| `position_plan` | 28 position settings, lengths up to 12, representatives 4, 7, 12 | does one table serve every length of its regime, for both scores? |
| `position_gap` (violation) | the same | "one contiguous range of embedding slots" |
| `standalone` | both backends, all `pos_att_type`, 3 lengths, 2 parameter versions, 2 plan caches, any allocation fails | does lazy preparation recover from everything, and serve the parameters of now? |
| `standalone_plans` (violation) | the same with 2 lengths, 1 version | "discard layer-derived plans" |
| `tiles` | 1 to 3 sequences, up to 6 tokens, every mask, 4 tile shapes, 9 score tables; packed calls with every sort of boundaries | is the tiled softmax the reference's, under every order of programs, and does a packed batch come back as it went? |
| `tuning` | one file, two tuners, two jobs, one fault; two GPUs, three calls of two workloads, five options | are the files whole and the saves atomic, and does every launch follow profiles, failures and pruning? |

Properties, and what would have to go wrong to break them:

- `LruConsistent`, `LastServedRetained`: a key listed twice after two threads store one
  length, a plan listed nowhere, one entry too many, the entry just used evicted.
- `PlansPublishedWhole`: a preparation that failed or was interrupted publishes plans of
  two versions, or a table with the wrong lookup.
- `ColdCallsExact`: something stale survives `clear_inference_cache` and `prepare_shape`
  picks it up; or a preparation fails without a reason of its own (a fault, a changed number
  of layers, a length with a gap in its slots).
- `LayersKeepOneShape`: a layer keeps its workspace, or tables of lengths served before.
- `PacksWholeWhenQuiet`: overlapping preparations leave a weight without a bias behind.
- `ImplementsContract`: an undisturbed call is answered inexactly or raises.
- `EveryCallEnds`: a call spins (the eviction loop) or stops.
- `CallsUseOwnState`, `EntriesAreLive`, `FiledIsWatched`, `SettledStateKept`: an address
  used again finds an old entry; a filed state has no finalizer; a settled state is
  replaced.
- `LookupMatchesReference`, `DenseMatchesReference`, `GapsCharacterised`: an off-by-one in
  a lookup, a lost sign, a clamp; and exactly which settings leave a hole in the slots.
- `CachesCurrent`, `AnswersCurrent`: a cache is forgotten in a clear, or a preparation that
  failed half-way is taken for complete.
- `EligibleAnswered`: the test that decides on a preparation and the tests that raise
  disagree about what is there.
- `TablesFitIndex`: tables found under another length, or another range of slots, are
  combined with an index map they do not fit.
- `OutputMatchesReference`, `LanesStayDefined`, `OutputComplete`, `RowsWrittenOnce`: a
  masked tile turns into NaN, the one-tile branch is taken for a longer sequence, a block
  writes rows of the next sequence, a last partial block is not launched.
- `TrustedAsValidated`, `RowsReturnHome`: an inconsistent description of a batch is taken
  on trust; a mask with holes is packed as if it had none, and tokens change places.
- `AnswersAsHost`: the fast path leaves out something of the call or the encoder that the
  gate should have seen, computes a layer with another one's parts, or answers with fewer
  layers than the encoder has.
- `UniformEncodersServed`: the gate lets through what the build, the preparation or the
  launch refuses, although a look at the call, the encoder and its first layer would tell.
- `ProfilesWhole`, `SavesAtomically`, `OthersKept`: a reader, or a machine that lost power,
  finds a part of a profile; a failing save leaves its mark; a merge drops other entries.
- `ProfilesDecide`, `FailureRemembered`, `ProfileOnlyNeverTunes`, `TunedLaunchesLight`: a
  memo serves another GPU, a failing configuration is tried again, or one that never
  failed is not tried; a mode that forbids the autotuner reaches it; its cache serves a
  tile pruned for this workload, measured for another.

**Bounds, and why they are enough.** Two layers are the first number with a first, a
next and a last one. Three lengths in two places evict; two of them share a
representative, the third has its own slots, so both ways to find a table are taken. One
place and two callers make every store evict what the other uses. Two updates are what it
takes for a cache to be stale by one version and then by another. Two addresses and three
encoders force an address to be used again while another is live. Lengths up to 12 with
up to 8 buckets go through near positions, several logarithmic steps and the clamp on
both sides. Up to six tokens, tiles of one, two and four keys and blocks of two to five
rows give tiles that are masked everywhere, partial last tiles and blocks, blocks beyond
a sequence's end, and regimes on both sides of the one-tile test. Two tuners with a job each overlap in every
way, and one fault at each point is enough to tear a file if anything can: a second one
finds the store as the first one left it, which is a state already explored. `MaxStarts`
and `MaxFaults` bound them. In the run `tuning` the last step of building a layer waits
until no save is under way, and then tuning is over (`MCNext`): from there on launches and
saves touch no common variable, so their interleavings show nothing new, and the proofs are
of `Spec`, which does not wait. Its two GPUs are of different models, so a profile is for
one of them. The encoders of `registry` have one or two layers: a first one, which the
gate looks at, and one behind it, and three modules to put there, so that a layer can be
replaced twice. The bounds are
`MaxVersion`, `MaxCachedShapes` (16 in the code), `NumLayers`, the sets `Threads`,
`Shapes`, `Encoders`, `Ids`, `Layouts`, `Inputs`, `Lengths`, `Configs`, `MaxScore`, and `MaxCaches` (plan
caches attached to a standalone layer; the second one is the first that differs). Two
versions of the parameters suffice in the standalone layer: the caches distinguish the current one from any
other, and the theorems hold for every number. `MaxTokens`
(6) bounds the rows of a launch, so that a table of scores has a domain; its theorems, too,
hold for every value.

**Deadlock** is checked except in `registry`, where in the end every encoder may have
been collected, in `tiles`, where a launch is over when every program has stored, and in
`tuning`, where a layer that could not load a profile it was told to is not built.

**Fairness.** `EncoderCache` assumes weak fairness of each thread's own step while it is
in a call: the code holds no lock and waits for nothing, so a thread in a call can always
take its next step and the scheduler gets to it. Nothing is assumed of callers arriving.
`EveryCallEnds` needs its premise that callers stop coming: `while len(state.plans) >
MAX_CACHED_SHAPES` pops what others store meanwhile, so an endless stream of cold calls
can keep one caller popping. The other modules state no liveness and no fairness.

## 4. What the violation runs show

- **`encoder_faults`.** `_prepare_fused_qkv` stores the packed weight (`_torch.py` 150)
  before it allocates the packed bias (179). If that allocation fails, `_project_qkv`
  (412-425) later takes the pack for prepared, since it looks at the weight only, and a
  call of a length whose plans are still cached computes Q, K and V without biases.
- **`encoder_updates`.** The pack is the storage of the host's parameters, the position
  tables are not: after an in-place update a cached length mixes fresh projections with
  stale tables. The hooks that would clear the caches are registered on the shadow layer,
  which is no submodule of the host. `CARD.md` 91-92 says "The kernel is exact".
- **`fallback`.** The module's docstring (`_encoder.py` 16-17) lets anything the kernel does
  not support fall back to the encoder's own loop. The gate looks at the first layer only
  (251): an encoder whose second layer has a head size of 48 passes it, and
  `forward_prepared` raises (`kernel.py` 1538-1539). Also refused behind the gate are a later
  layer without an attribute the adapter reads, a number of layers other than at the first
  call, mixed biases, slots with a gap, and the empty sequence.
- **`standalone_plans`.** `set_position_plan_cache` promises to discard the plans made from
  the previous cache; on the Triton layer they live in a dictionary of the subclass
  (`kernel.py` 1271), which the inherited method does not know.
- **`position_gap`.** The comment at `_torch.py` 260-263 does not hold for every setting
  that passes the gate: with `mid = position_buckets // 2`, the slots have a gap when
  `(mid+1)^(mid-1) > (max_relative_positions-1) * mid^(mid-2)` and the length reaches the
  first logarithmic distance (`GapsCharacterised`). The encoder then raises instead of
  falling back. The published checkpoints (256 buckets, 512 positions) have no gap.

## 5. What is proved

For every value of the constants that satisfies the named assumptions:

| Theorem | Statement | Argument |
|---|---|---|
| `TypeCorrect` | `Spec => []TypeOK` | `TypeOK` is not inductive: `Store` puts the call's plans into the cache, so the strengthening `PlansInHand` says that a call past `shape` holds a plan for every layer, and one in `shape` for every layer done. `CanPrepareShape` is what makes `ShapePlan` a plan. |
| `LruAlwaysConsistent` | `Spec => []LruConsistent` | inductive over type correctness; a call evicts only after its own store, so the length is over the limit only while someone is in `evict`. The work is in the order: `MovedToEnd` permutes it, `WithKey` keeps it free of duplicates, `Tail` drops the evicted key. |
| `PublishedPlansWhole` | `Spec => []PlansPublishedWhole` | needs `PublishInv`: every table filed in a layer is filed under its own slots (`FilesRight`); a layer prepared since the last host update holds tables of `source` only (`Fresh`); and a preparation under way has cleared every layer before the one it is at (`CallClean`). Host updates happen when no call is under way, so freshness cannot be lost in mid-preparation, whoever else prepares. |
| `LastServedStays` | `Spec => []LastServedRetained` | `LastInv`: a length that missed is not listed (`LruConsistent`), so the store appends it; a hit is moved to the end; a single caller changes the order no further. |
| `PacksEndWhole` | `BiasLayout = "all"`: `Spec => []PacksWholeWhenQuiet` | `PackInv`: a layer without a weight has a call before its pack, or no bias and no call that is going to file one; a weight without a bias has a call that is. Stated per layer over all threads, because any of them may clear what another packs. |
| `ColdCallsStayExact` | `Spec => []ColdCallsExact` | `ExactInv`: two preparations are never under way without their calls knowing (`Exclusive`), and a cold call that knows of none is `OnCourse`: the layers behind it are packed, projected and planned from `source`, and what it has read so far is that one version. Every other call's step changes at most launch memos. |
| `ColdCallTrims` | `Spec => []LayersKeepOneShape` | `TrimInv`: a layer of a preparation is bare once cleared, keeps one shape once shaped and no workspace once released. |
| `EncoderKeepsContract` | no faults, no host updates, no length with a gap: `Spec => ImplementsContract` | `ServiceInv`: all there is, is of one version (`OneVersion`); a layer a call has cleared, or one with published plans, is packed except while someone is between its clear and its pack (`PreparedInv`); hence a warm call that no preparation disturbs finds whole packs and is on the course of a cold one (`ServedInv`). `Arrive` is the abstract submission, a miss the disturbance of the calls under way, the end of a call its answer, all else a stutter. |
| `OwnStateAlways`, `EntriesLiveAlways`, `FiledAlwaysWatched` | the registry's three invariants | `RegistryInv` adds that addresses of live encoders differ, that a caller keeps its encoder alive, and that a filed state is watched or its filer is about to watch it. |
| `SettledAlwaysKept` | `Spec => SettledStateKept` | what a settled state stays, `SettledOrGone`, is inductive over `RegistryInv`: a call at this encoder finds the state and so misses nothing, a call at another files at another address, and only the encoder's own finalizer takes the entry away. |
| `EntryUsesRegistry` | `EntrySpec => Spec` | every step of the entry is one of the registry's or leaves its variables alone, so the theorems above hold behind the gate. |
| `AnswersAlwaysAsHost`, `UniformAlwaysServed` | `EntrySpec => []AnswersAsHost`, `EntrySpec => []UniformEncodersServed` | `PastTheGate`: while a call is under way, what the gate found of its encoder and input still holds, since layers change only when nobody holds the encoder. By `RegistryInv` the state of a call is its own encoder's, and its shadows are layers that encoder had (`built`). Hence nothing of `Extras` is left, the count of the layers is what `RunRefused` compared, and a layer that is neither replaced nor unlike the first in its positions is computed with itself. For uniform layers every refusal is about something the gate asked of the first one. |
| `StoreTypeCorrect`, `ProfilesAlwaysWhole`, `OthersAlwaysKept`, `SavesAreAtomic` | the profile files; the last is the refinement `StoreSpec => Atomic!Spec` | a temporary file's datum and its sync are tied to where its save stands, and every file a path has held since the last loss of power is synced and whole: so whatever remains of it is itself. A rename is the abstract `Publish`, every other statement a stutter, a kill too. |
| `StoreBeneathLayers` | `Spec => StoreSpec` | layers only read: the store's theorems hold while they do. |
| `ProfilesAlwaysDecide`, `FailuresAlwaysRemembered` | `Spec => []ProfilesDecide`, `Spec => FailureRemembered` | a memo entry is what `Lookup` gives, and the registry does not change once built; the workloads in the layer's memo of failures are those of the recorded `failures`, since what records and clears the one records and clears the other. |
| `ProfileOnlyNeverAutotunes`, `TunedAlwaysLight` | the modes and the autotuner | what `tuned` holds for a key was pruned for a workload of that key, and the pruning looks at nothing the key leaves out. |
| `CachesAlwaysCurrent`, `AnswersAlwaysCurrent`, `StandaloneTypeCorrect` | the standalone layer's caches and answers | `IInv`: with position tables in use, tables exist only over a weight *and* a bias (`TablesOverPacks`), because a preparation clears all, packs both and projects last, and everything is cleared together; nothing is cached in training (`NothingInTraining`), so the optimizer's silent updates reach nothing. |
| `EligibleAlwaysAnswered` | `Spec => []EligibleAnswered` | `Progress`: a call that reaches `prepare_shape` finds every table in use, or (`forward_packed`) a plan of every length it wants, unless it arrived at a half-projected layer or the length has a gap. |
| `TablesAlwaysFit` | `Spec => []TablesFitIndex` | only `prepare_shape` files a plan; a representative's plan fits, and is its own representative's. |
| `PlansOfSettingHold` | `Spec => []PlansOfSetting` | a cached plan, compact or dense, is that of its own length under the constructor's setting. |
| `LookupIsReference`, `DenseIsReference` | `Spec => []LookupMatchesReference`, `... => []DenseMatchesReference` | without a gap, the number of used slots below a slot is its distance from the first (`OffsetOfSlot`, by induction on the slot), so the lookup gives the slot back. One table serves both scores because the bucketing is odd (`RelativeOdd`), and one length's table the shorter ones because it holds every distance of theirs. |
| `GapsAreCharacterised` | `Spec => []GapsCharacterised` | powers are monotone, so the bucket grows with the distance (`LogStepsMonotone`), and behind the first logarithmic step by at most one slot for one more position (`ReachesNext`, `ReachesLater`): `(1 + 1/a)^(mid-1)` shrinks with `a`. The first step is the only one that can be wider (`FirstStepReaches`), and then the slot above `mid` is nobody's (`Gap`). |
| `OutputIsReference`, `LanesAreDefined` | `PackedSpec => []OutputMatchesReference`, `... => []LanesStayDefined` | `RowsHold`: after the keys below `keyStart`, the row of a lane is *exactly* the row of a softmax over those keys (`RowAt`): its maximum is theirs, its sum and weights are the powers of two of their distances from it. One online step turns this for `n` keys into this for `n + BLOCK_N`, since the correction multiplies by a power of two (`PowerOfSum`), also where the tile, or all tiles so far, are masked; the one-tile branch is the same row at once. At the end the weights differ from the reference's by one factor. |
| `EveryRowIsWritten`, `WrittenRowsStay` | `PackedSpec => []OutputComplete`, `PackedSpec => RowsWrittenOnce` | sequences lie one behind the other, blocks partition a sequence, and the mask of the store keeps a block within it; so a row has one program and one lane. A row is written only by a program that has stored. |
| `TrustedCallsAreValid`, `RowsAreReturned` | `PackedSpec => []TrustedAsValidated`, `... => []RowsReturnHome` | boundaries are the sums of lengths: the differences of `OffsetsOf` are the lengths again. For a right-padded mask the places before another one are whole rows and a part of its own, so its rank is the sum of the lengths before it and its column (`SumRenamed`, `SumUnion`). |

The exceptions in these statements are behaviours of the code worth knowing.
`AnswersCurrent` excepts a layer without c2p and p2c: after an allocation failure between
the two packs nothing is missing in the eyes of `forward`, and it answers without biases.
`EligibleAnswered` excepts three calls: `forward_packed` after a failure between the two
projections, which takes one table for enough and raises until the layer is cleared; positions
given by the caller to a layer without relative attention (`_torch.py` 367); and a length with
a gap in its slots. `ColdCallsExact` is about the modules the shadow layers hold: projections
that were replaced are not seen again. `AnswersAsHost` likewise excepts a layer replaced since
the state was built, and one whose positions are not the first layer's, which the code answers
with the first's.

Assumptions used: `LengthsAssumption` and the standalone layer's `RegimeAssumption` (a
representative is its own representative), `NoneAssumption` and `NoneIsNoPlans` (`None` is
no version, thread or plan), `BiasAssumption`, `EncoderAssumption` (at least one layer and
one place), `RegistryAssumption`, `EntryAssumption` (calls, encoders and layers of
their types, and builds that may raise), `StoreAssumption` (the special data differ from profiles),
`PolicyAssumption` (calls, options, profiles and candidates of their types, at least one
candidate), `BoundsAssumption`; `PositionAssumption` (`mid` is below the last position,
which is what keeps the code's logarithm positive, and no single bucket); for the kernel
`LaunchAssumption`, `RegimeAssumption`, `NumberAssumption`, `ScoreAssumption`,
`UnwrittenAssumption` and `PackedAssumption` (launches, scores and batches of their types,
within `MaxTokens`, which may be any number; the special values differ from numbers),
`TilesBelowLargestRegime` (a tile has at most 128 keys, the largest regime is 8192); and
`DeviceAssumption`: with boundaries handed over by the host, those on the device are some
batch's of as many tokens. It is the one assumption the code does not enforce: nobody
reads the device's, and the kernel would follow boundaries that decrease. TLC evaluates
each of them in the runs.

The contract's theorem assumes what its statement needs: after a host update, or a failed
allocation, a warm call may answer inexactly, as the runs of section 4 show. `PacksEndWhole`
assumes biases on every projection, since a host without any leaves every bias `None`.

Sums and powers are recursive functions, and what they compute has to be shown by
induction. The library's induction theorems take a predicate as a parameter, which the
provers cannot be given, so `ArithmeticProofs` states induction over *sets*
(`InductionOnNat`, `InductionOnSubsets`: a set that has zero, or the empty set, and is
closed under one more element, has everything below a bound) and derives from it that the
recursions have solutions (`RecursionExists`, `PowerUptoExists`) and the laws of sums and
powers that the proofs cite.

The proofs changed the models in three places. The values of `Difference` and
`ReferenceWeight` were given by CASE expressions whose guards overlapped (minus infinity
less minus infinity; a key that is attended to where none is): TLC takes the first, the
semantics any, and the guards now exclude each other. The number of logarithmic steps was
searched for without a bound that all settings have, and now ends at the number of buckets. And the types of
launches, scores and batches, which the instances had, are assumptions with names.

Only model-checked: `EveryCallEnds`, since liveness under fairness is out of the prover's
reach. Every other property of a passing run has its theorem. The violation runs have
none: their properties are false.

## 6. What is not modelled

The float arithmetic of the kernels and of the log bucketing; GPU memory and streams;
matrix products, which no property tells apart; several devices in the encoder's caches
(the plan cache's key has the device, an encoder lives on one; `LaunchPolicy` has several);
`torch.compile` beyond its not asking for profiles; the text of a profile (it loads, or is
torn, or is another format or version's) and the measurements that fill it; the log line of
the gate; what `_reference_forward` computes, which is the host's own loop over the host's
own layers. An in-place change of the parameters of a standalone layer in eval mode is not
among the host's operations: nothing in the layer can see it. `_WARNED` grows by a message
per distinct reason, lengths included, for ever.

`_vendored.py`, `_validation.py`, `__init__.py`, `layers.py` and the profile JSON hold no
state and no decision. The scripts are sequential: `vendor.py` copies and rewrites files
and then checks their imports (a refused module stays in the tree until the next run, and
the exit status says so), `verify_build.py` reads a build and reports.

What the gate does not see is stated by `UniformEncodersServed`, and shown by the run
`fallback`: the empty sequence, mixed biases, slots with a gap, layers changed since the first
call and anything about the layers behind the first may raise in the fast path, where the
reference encoder would have served.

## 7. Plan

1. (done) the encoder's caches, their contract, the registry, the gate and the entry,
   position plans, the tiles of a launch, packed batches, the standalone layer, the profile
   files and the launch policy, each with its properties checked, and proved where section 5
   says so.
2. (done) a theorem for every property of the passing runs but the liveness one.
3. Next: implementation theorems for the kernel (a launch as one atomic step that writes the
   reference's rows) and for the position cache (a function of the length); the standalone
   layer's launch memos with its plans in one module; a variant that says why each step of
   a call brings it nearer its end, the part of `EveryCallEnds` a prover can reach.
