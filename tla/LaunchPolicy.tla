----------------------------- MODULE LaunchPolicy -----------------------------
(***************************************************************************)
(* How a layer decides on the launch configuration of a workload: its      *)
(* ProfileRegistry, read from the profile files when the layer is built    *)
(* while tuners go on saving; the memo of _resolve_kernel_config; the      *)
(* direct launch, what a failing one leads to; and the autotuner with its  *)
(* pruned candidates. One layer, one caller, several GPUs.                 *)
(***************************************************************************)
EXTENDS ProfileStore, Sequences, SequencesExt, FiniteSetsExt

CONSTANTS
  Configs,       \* KernelConfig
  Options,       \* KernelTuningOptions
  UserPaths,     \* *.json in the user's directory, in their order
  Bundled,       \* load_bundled_profiles
  Calls,         \* what a caller asks for: length, head size, element type
  Regimes,       \* TUNING_SEQUENCE_LENGTHS
  Devices,       \* the GPUs
  MachineOf,     \* HardwareSpec.current and CompilerSpec.current
  Absent         \* no entry in a dictionary

Modes == {"auto", "autotune", "profile_only", "fixed"}

OptionRecord ==
  [mode : Modes, explicit : Seq(Paths), user : BOOLEAN, bundled : BOOLEAN,
   fixed : Configs \cup {None}, candidates : Seq(Configs)]

(* WorkloadKey: a call stands for the least regime that holds its length,  *)
(* or for the largest.                                                     *)
RegimeOf(n) == IF n > Max(Regimes) THEN Max(Regimes) ELSE Min({r \in Regimes : n <= r})

WorkloadOf(c) == [regime |-> RegimeOf(c.length), headDim |-> c.headDim, fp32 |-> c.fp32]

ASSUME PolicyAssumption ==
  /\ Regimes \subseteq Nat \ {0} /\ Regimes # {} /\ IsFiniteSet(Regimes)
  /\ Calls \subseteq [length : Nat \ {0}, headDim : {32, 64, 128}, fp32 : BOOLEAN]
  /\ \A c \in Calls : WorkloadOf(c) \in Workloads
  /\ Options \subseteq OptionRecord
  /\ \A o \in Options : (o.mode = "fixed" <=> o.fixed # None) /\ o.candidates # <<>>
  /\ Configs \subseteq [m : {16, 32, 64, 128}, n : {16, 32, 64, 128}]
  /\ Entries \subseteq [config : Configs, validated : BOOLEAN]
  /\ Workloads \subseteq [regime : Nat, headDim : {32, 64, 128}, fp32 : BOOLEAN]
  /\ UserPaths \in Seq(Paths)
  /\ Bundled \in Seq(Profiles)
  /\ MachineOf \in [Devices -> Machines]
  /\ None \notin Configs
  /\ Absent \notin Configs \cup {None}

Keys == {<<w.regime, w.headDim, w.fp32>> : w \in Workloads}

VARIABLES
  layer,    \* the options, the registry and the memos of a layer
  tuned,    \* the autotuner's results
  last,     \* the last launch
  failures  \* history: the direct launches that raised, and were fallen back from,
            \*   since the memos were cleared. No step reads it.

layerVars == <<layer, tuned, last, failures>>

vars == <<storeVars, layerVars>>

------------------------------------------------------------------------------

Nowhere == [d \in Devices |-> [w \in Workloads |-> Absent]]

NoLaunch ==
  [device |-> None, workload |-> None, compiling |-> FALSE, tried |-> None, how |-> "none",
   config |-> None]

LayerInit ==
  /\ \E o \in Options :
       layer = [options |-> o, phase |-> "explicit", todo |-> o.explicit, registry |-> <<>>,
                resolved |-> Nowhere, failed |-> {}]
  /\ tuned = [k \in Keys |-> Absent]
  /\ last = NoLaunch
  /\ failures = {}

Init == StoreInit /\ LayerInit

Mode == layer.options.mode

UsesProfiles == Mode \in {"auto", "profile_only"}

(* TritonInferenceDisentangledSelfAttention.__init__: a layer that looks   *)
(* nothing up takes an empty registry.                                     *)
BuildWithoutProfiles ==
  /\ layer.phase = "explicit"
  /\ ~UsesProfiles
  /\ layer' = [layer EXCEPT !.phase = "ready", !.todo = <<>>]
  /\ UNCHANGED <<tuned, last, failures>>

Building(phase) == layer.phase = phase /\ UsesProfiles

(* ProfileRegistry.from_options: the named files, which must load; those   *)
(* of the user's directory, one that does not load being skipped; the      *)
(* bundled ones.                                                           *)
LoadExplicit ==
  /\ Building("explicit")
  /\ layer.todo # <<>>
  /\ layer' = IF Loads(Head(layer.todo))
              THEN [layer EXCEPT !.todo = Tail(@),
                                 !.registry = Append(@, DataAt(Head(layer.todo)))]
              ELSE [layer EXCEPT !.phase = "raised"]
  /\ UNCHANGED <<tuned, last, failures>>

ListUserProfiles ==
  /\ Building("explicit")
  /\ layer.todo = <<>>
  /\ layer' = [layer EXCEPT
       !.phase = "user",
       !.todo = IF layer.options.user
                THEN SelectSeq(UserPaths, LAMBDA p : file[p] # None) ELSE <<>>]
  /\ UNCHANGED <<tuned, last, failures>>

LoadUser ==
  /\ Building("user")
  /\ layer.todo # <<>>
  /\ layer' = [layer EXCEPT
       !.todo = Tail(@),
       !.registry = IF Loads(Head(layer.todo)) THEN Append(@, DataAt(Head(layer.todo))) ELSE @]
  /\ UNCHANGED <<tuned, last, failures>>

AddBundled ==
  /\ Building("user")
  /\ layer.todo = <<>>
  /\ layer' = [layer EXCEPT
       !.phase = "ready",
       !.registry = IF layer.options.bundled THEN @ \o Bundled ELSE @]
  /\ UNCHANGED <<tuned, last, failures>>

------------------------------------------------------------------------------
(* ProfileRegistry.resolve                                                 *)

Matches(profile, d, w) ==
  /\ profile.machine = MachineOf[d]
  /\ profile.entries[w] # None
  /\ profile.entries[w].validated

Lookup(d, w) ==
  LET found == {i \in DOMAIN layer.registry : Matches(layer.registry[i], d, w)}
  IN  IF found = {} THEN None ELSE layer.registry[Min(found)].entries[w].config

\* a slip: the memo is asked by workload, whatever the device
MemoOfAnyDevice(d, w) ==
  IF \E e \in Devices : layer.resolved[e][w] # Absent
  THEN layer.resolved[CHOOSE e \in Devices : layer.resolved[e][w] # Absent][w]
  ELSE Lookup(d, w)

Memo(d, w) == IF layer.resolved[d][w] = Absent THEN Lookup(d, w) ELSE layer.resolved[d][w]

(* _resolve_kernel_config, outside and inside a compiled graph.            *)
Consults(compiling) == UsesProfiles /\ ~compiling

Resolved(d, w, compiling) ==
  CASE Mode = "fixed"                             -> layer.options.fixed
    [] Consults(compiling) /\ w \notin layer.failed -> Memo(d, w)
    [] OTHER                                      -> None

Memoized(d, w, compiling) ==
  IF Consults(compiling) THEN [layer EXCEPT !.resolved[d][w] = Memo(d, w)] ELSE layer

------------------------------------------------------------------------------
(* _prune_autotune_configs                                                 *)

Shapes(pairs) == {[m |-> p[1], n |-> p[2]] : p \in pairs}

Allowed(w) ==
  CASE w.regime <= 16 -> Shapes({<<16, 16>>, <<16, 32>>})
    [] w.regime \in 17..32 -> Shapes({<<16, 16>>, <<16, 32>>, <<32, 32>>})
    [] w.regime > 64 /\ ~w.fp32 /\ w.headDim <= 64 ->
         Shapes({32, 64} \X {32, 64} \cup {<<64, 128>>, <<128, 64>>})
    [] OTHER -> Shapes({32, 64} \X {32, 64})

Pruned(candidates, w) ==
  LET kept == ToSet(candidates) \cap Allowed(w)
  IN  IF kept = {} THEN {Head(candidates)} ELSE kept

\* a slip: IS_FP32 is left out of AUTOTUNE_SPECIALIZATION_KEY
KeyWithoutType(w) == <<w.regime, w.headDim, FALSE>>

AutotuneKey(w) == <<w.regime, w.headDim, w.fp32>>

(* triton.autotune: the best of the pruned candidates, measured once for   *)
(* each value of the key.                                                  *)
Autotune(w, c) ==
  IF tuned[AutotuneKey(w)] # Absent
  THEN c = tuned[AutotuneKey(w)] /\ UNCHANGED tuned
  ELSE /\ c \in Pruned(layer.options.candidates, w)
       /\ tuned' = [tuned EXCEPT ![AutotuneKey(w)] = c]

------------------------------------------------------------------------------
(* A launch: forward_prepared and forward_packed from                      *)
(* _resolve_kernel_config on.                                              *)

Record(d, w, compiling, tried, how, c) ==
  last' = [device |-> d, workload |-> w, compiling |-> compiling, tried |-> tried, how |-> how,
           config |-> c]

LaunchDirect(d, w, compiling) ==
  LET c == Resolved(d, w, compiling) IN
  /\ layer.phase = "ready"
  /\ c # None
  /\ layer' = Memoized(d, w, compiling)
  /\ Record(d, w, compiling, c, "direct", c)
  /\ UNCHANGED <<tuned, failures>>

LaunchTuned(d, w, compiling, c) ==
  /\ layer.phase = "ready"
  /\ Resolved(d, w, compiling) = None
  /\ Mode # "profile_only"
  /\ Autotune(w, c)
  /\ layer' = Memoized(d, w, compiling)
  /\ Record(d, w, compiling, None, "tuned", c)
  /\ UNCHANGED failures

(* The two reasons of profile_only: no configuration, or a failing one.    *)
LaunchRefused(d, w, compiling) ==
  /\ layer.phase = "ready"
  /\ Mode = "profile_only"
  /\ layer' = Memoized(d, w, compiling)
  /\ Record(d, w, compiling, Resolved(d, w, compiling), "raised", None)
  /\ UNCHANGED <<tuned, failures>>

\* a slip: the mode is not asked when a direct launch fails
AlwaysFallsBack == TRUE

FallsBack == Mode # "profile_only"

\* a slip: the failure is not remembered
Forgotten(a, w) == a

Remembered(a, w) == [a EXCEPT !.failed = @ \cup {w}]

(* The direct launch raises: remembered by workload, then autotuned.       *)
LaunchFallsBack(d, w, compiling, c) ==
  /\ layer.phase = "ready"
  /\ Resolved(d, w, compiling) # None
  /\ FallsBack
  /\ Autotune(w, c)
  /\ layer' = Remembered(Memoized(d, w, compiling), w)
  /\ failures' = failures \cup {<<d, w>>}
  /\ Record(d, w, compiling, Resolved(d, w, compiling), "tuned", c)

\* a slip: the failures outlive the clear
FailuresKept == [layer EXCEPT !.resolved = Nowhere]

ClearedMemos == [layer EXCEPT !.resolved = Nowhere, !.failed = {}]

(* clear_inference_cache                                                   *)
ClearLaunchMemos ==
  /\ layer.phase = "ready"
  /\ layer' = ClearedMemos
  /\ failures' = {}
  /\ UNCHANGED <<tuned, last>>

BuildLayer ==
  BuildWithoutProfiles \/ LoadExplicit \/ ListUserProfiles \/ LoadUser \/ AddBundled

Launch(d, w) ==
  \E compiling \in BOOLEAN :
    \/ LaunchDirect(d, w, compiling)
    \/ LaunchRefused(d, w, compiling)
    \/ \E c \in Configs : LaunchTuned(d, w, compiling, c) \/ LaunchFallsBack(d, w, compiling, c)

LayerNext == BuildLayer \/ ClearLaunchMemos \/ \E d \in Devices, c \in Calls : Launch(d, WorkloadOf(c))

Next ==
  \/ StoreNext /\ UNCHANGED layerVars
  \/ LayerNext /\ UNCHANGED storeVars

Spec == Init /\ [][Next]_vars

------------------------------------------------------------------------------
(* Properties                                                              *)

(* With profiles in use, what is launched directly is what the first       *)
(* profile of the registry that is for that GPU and compiler and has the   *)
(* workload, validated, says of it: a memo never serves another device's   *)
(* configuration, or one from before.                                      *)
ProfilesDecide ==
  UsesProfiles /\ last.tried # None =>
    /\ last.tried = Lookup(last.device, last.workload)
    /\ last.how = "direct" => last.config = last.tried

(* profile_only never lets the autotuner run, not even after a failure.    *)
ProfileOnlyNeverTunes ==
  Mode = "profile_only" => last.how # "tuned" /\ \A k \in Keys : tuned[k] = Absent

(* In auto mode, outside compiled graphs, a launch tries the profile's     *)
(* configuration exactly when a profile has one and no direct launch of    *)
(* that workload has raised, on whatever device, since the caches were     *)
(* cleared: a failure is paid for once, and clearing gives the             *)
(* configuration another chance.                                           *)
FailureRemembered ==
  [][Mode = "auto" /\ last' # last /\ ~last'.compiling =>
       (last'.tried # None <=>
          /\ Lookup(last'.device, last'.workload) # None
          /\ \A d \in Devices : <<d, last'.workload>> \notin failures)]_vars

(* "Most candidates stay within 64x64; a pair of asymmetric larger tiles   *)
(* is retained for FP16/BF16 and pruned out for heavier FP32/head-dim      *)
(* workloads": what the autotuner launches, now or from its cache, is such *)
(* a tile, unless none of the caller's candidates is in the family.        *)
Light(c, w) ==
  \/ c.m <= 64 /\ c.n <= 64
  \/ c.m + c.n = 192 /\ ~w.fp32 /\ w.headDim <= 64

TunedLaunchesLight ==
  last.how = "tuned" /\ (\E c \in ToSet(layer.options.candidates) : c \in Allowed(last.workload))
    => Light(last.config, last.workload)
==============================================================================
