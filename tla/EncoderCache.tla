----------------------------- MODULE EncoderCache -----------------------------
(***************************************************************************)
(* The per-encoder plan cache of _encoder.py: _EncoderState, _plans_for    *)
(* and _fast_forward, over the shadow attention layers of AttentionCaches. *)
(* An encoder is called by Threads. The code takes no lock, so the steps   *)
(* of their calls interleave. A step is a run of statements between which  *)
(* another thread makes no difference the properties tell apart: one       *)
(* access of the shared dictionaries, or, in Clear, Run and Shape, several *)
(* of one layer. Splitting those would let a preparation of another thread *)
(* come between them, which only a call disturbed by it can see, and       *)
(* EncoderContract allows such a call any answer already.                  *)
(* Between calls the host may be updated.                                  *)
(***************************************************************************)
EXTENDS AttentionCaches, Sequences, FiniteSets

CONSTANTS
  Threads,          \* callers of one encoder
  NumLayers,        \* len(encoder.layer) when the state was built
  MaxCachedShapes,  \* MAX_CACHED_SHAPES
  MaxVersion,       \* bound on the host's updates
  HostEvents,       \* the kinds of update the host makes
  FaultsPossible    \* whether an allocation on the device may fail

HostEventKinds == {"update", "reassign", "replace", "relayout"}

ASSUME EncoderAssumption ==
  /\ Owners = Threads
  /\ NumLayers \in Nat \ {0}
  /\ MaxCachedShapes \in Nat \ {0}
  /\ MaxVersion \in Nat
  /\ HostEvents \subseteq HostEventKinds
  /\ FaultsPossible \in BOOLEAN

Layers == 1..NumLayers

ASSUME NoneIsNoPlans == None \notin [Layers -> Plan]

VARIABLES
  version,     \* of the host's parameters
  source,      \* of the projection modules the shadow layers hold
  layoutFits,  \* whether the host still has NumLayers layers
  layers,      \* state.attentions
  order,       \* the keys of state.plans, least recently used first
  plans,       \* the values of state.plans
  call         \* the latest call of every thread

host == <<version, source, layoutFits>>
lru  == <<order, plans>>
vars == <<host, layers, lru, call>>

ColdSteps == {"clear", "pack", "rebind", "bias", "project", "shape", "release", "store", "evict",
              "pop"}

\* the steps that allocate on the device
AllocatingSteps == {"pack", "bias", "project", "shape", "run"}

Steps == {"idle", "lookup", "touch", "run", "launch"} \cup ColdSteps

Outcomes == {"none", "exact", "inexact", "raised"}

NoPlans == [l \in Layers |-> None]

CallRecord ==
  [pc        : Steps,
   shape     : Shapes \cup {None},
   layer     : Layers,                    \* the layer the next step works on
   plans     : [Layers -> Plan \cup {None}],
   used      : SUBSET (Versions \cup {None}),  \* what the answer is made of, None a missing bias
   cold      : BOOLEAN,                   \* the call prepared its length
   contended : BOOLEAN,                   \* another call prepared during this one
   faulted   : BOOLEAN,                   \* an allocation of this call failed
   outcome   : Outcomes]

NoCall ==
  [pc |-> "idle", shape |-> None, layer |-> 1, plans |-> NoPlans, used |-> {},
   cold |-> FALSE, contended |-> FALSE, faulted |-> FALSE, outcome |-> "none"]

Idle(t) == call[t].pc = "idle"
Cold(t) == call[t].pc \in ColdSteps
Quiet   == \A t \in Threads : Idle(t)

TypeOK ==
  /\ version \in Versions
  /\ source \in Versions
  /\ layoutFits \in BOOLEAN
  /\ layers \in [Layers -> AttentionLayer]
  /\ order \in Seq(Shapes)
  /\ plans \in [Shapes -> [Layers -> Plan] \cup {None}]
  /\ call \in [Threads -> CallRecord]

Init ==
  /\ version = 0
  /\ source = 0
  /\ layoutFits = TRUE
  /\ layers = [l \in Layers |-> NewLayer]
  /\ order = <<>>
  /\ plans = [s \in Shapes |-> None]
  /\ call = [t \in Threads |-> NoCall]

------------------------------------------------------------------------------
(* The end of a call, at which its locals are gone.                        *)

End(t, outcome) ==
  call' = [call EXCEPT ![t].pc = "idle", ![t].layer = 1, ![t].plans = NoPlans,
                       ![t].used = {}, ![t].outcome = outcome]

Goto(t, pc, l) == call' = [call EXCEPT ![t].pc = pc, ![t].layer = l]

(* One iteration of a loop over the layers: the next layer, or what        *)
(* follows the loop.                                                       *)
NextLayer(t, pc, after) ==
  IF call[t].layer < NumLayers THEN Goto(t, pc, call[t].layer + 1) ELSE Goto(t, after, 1)

OnLayer(t, a) == layers' = [layers EXCEPT ![call[t].layer] = a]

ThisLayer(t) == layers[call[t].layer]

------------------------------------------------------------------------------
(* encoder_forward past the gate, and the lookup of _plans_for.            *)

Arrive(t, s) ==
  /\ Idle(t)
  /\ call' = [call EXCEPT ![t] = [NoCall EXCEPT
                !.pc = "lookup", !.shape = s,
                !.contended = \E u \in Threads \ {t} : Cold(u)]]
  /\ UNCHANGED <<host, layers, lru>>

LookupHit(t) ==
  /\ call[t].pc = "lookup"
  /\ plans[call[t].shape] # None
  /\ call' = [call EXCEPT ![t].pc = "touch", ![t].plans = plans[call[t].shape]]
  /\ UNCHANGED <<host, layers, lru>>

LookupMiss(t) ==
  /\ call[t].pc = "lookup"
  /\ plans[call[t].shape] = None
  /\ call' = [u \in Threads |->
                CASE u = t -> [call[t] EXCEPT !.pc = "clear", !.layer = 1, !.cold = TRUE]
                  [] u # t /\ ~Idle(u) -> [call[u] EXCEPT !.contended = TRUE]
                  [] OTHER -> call[u]]
  /\ UNCHANGED <<host, layers, lru>>

Position(s) == CHOOSE i \in DOMAIN order : order[i] = s

Held(s) == \E i \in DOMAIN order : order[i] = s

Unmoved(s) == order    \* a slip: the hit is not moved to the end

(* OrderedDict.move_to_end *)
MovedToEnd(s) ==
  [i \in DOMAIN order |->
     IF i < Position(s) THEN order[i] ELSE IF i < Len(order) THEN order[i + 1] ELSE s]

Touch(t) ==
  /\ call[t].pc = "touch"
  /\ Held(call[t].shape)
  /\ order' = MovedToEnd(call[t].shape)
  /\ Goto(t, "run", 1)
  /\ UNCHANGED <<host, layers, plans>>

\* move_to_end raises KeyError when another thread evicted the key
TouchEvicted(t) ==
  /\ call[t].pc = "touch"
  /\ ~Held(call[t].shape)
  /\ End(t, "raised")
  /\ UNCHANGED <<host, layers, lru>>

------------------------------------------------------------------------------
(* The cold path of _plans_for: prepare_for_inference layer by layer,      *)
(* then prepare_shape layer by layer, then the release layer by layer.     *)

Clear(t) ==
  /\ call[t].pc = "clear"
  /\ OnLayer(t, ClearInferenceCache(ThisLayer(t)))
  /\ Goto(t, "pack", call[t].layer)
  /\ UNCHANGED <<host, lru>>

Pack(t) ==
  /\ call[t].pc = "pack"
  /\ OnLayer(t, PackWeights(ThisLayer(t), source, t))
  /\ Goto(t, "rebind", call[t].layer)
  /\ UNCHANGED <<host, lru>>

Rebind(t) ==
  /\ call[t].pc = "rebind"
  /\ OnLayer(t, RebindWeights(ThisLayer(t), t))
  /\ Goto(t, "bias", call[t].layer)
  /\ UNCHANGED <<host, lru>>

Bias(t) ==
  /\ call[t].pc = "bias"
  /\ OnLayer(t, PackBiases(ThisLayer(t), source))
  /\ Goto(t, "project", call[t].layer)
  /\ UNCHANGED <<host, lru>>

Project(t) ==
  /\ call[t].pc = "project"
  /\ OnLayer(t, ProjectPositions(ThisLayer(t), source))
  /\ NextLayer(t, "clear", "shape")
  /\ UNCHANGED <<host, lru>>

Shape(t) ==
  /\ call[t].pc = "shape"
  /\ CanPrepareShape(ThisLayer(t), call[t].shape)
  /\ OnLayer(t, PrepareShape(ThisLayer(t), call[t].shape))
  /\ LET l == call[t].layer IN
     call' = [call EXCEPT
       ![t].plans[l] = ShapePlan(ThisLayer(t), call[t].shape),
       ![t].layer    = IF l < NumLayers THEN l + 1 ELSE 1,
       ![t].pc       = IF l < NumLayers THEN "shape" ELSE "release"]
  /\ UNCHANGED <<host, lru>>

\* "active relative-position slots are unexpectedly non-contiguous", or
\* "call prepare_for_inference() before prepare_shape()"
ShapeRefused(t) ==
  /\ call[t].pc = "shape"
  /\ ~CanPrepareShape(ThisLayer(t), call[t].shape)
  /\ End(t, "raised")
  /\ UNCHANGED <<host, layers, lru>>

Release(t) ==
  /\ call[t].pc = "release"
  /\ OnLayer(t, ReleaseWorkspace(ThisLayer(t)))
  /\ NextLayer(t, "release", "store")
  /\ UNCHANGED <<host, lru>>

AlwaysAppended(s) == Append(order, s)    \* a slip: the key may be there

(* OrderedDict.__setitem__: a key that is there keeps its place.           *)
WithKey(s) == IF Held(s) THEN order ELSE Append(order, s)

Store(t) ==
  /\ call[t].pc = "store"
  /\ plans' = [plans EXCEPT ![call[t].shape] = call[t].plans]
  /\ order' = WithKey(call[t].shape)
  /\ Goto(t, "evict", 1)
  /\ UNCHANGED <<host, layers>>

OneTooMany == Len(order) > MaxCachedShapes + 1    \* a slip at the limit

OverCapacity == Len(order) > MaxCachedShapes

EvictMore(t) ==
  /\ call[t].pc = "evict"
  /\ OverCapacity
  /\ Goto(t, "pop", 1)
  /\ UNCHANGED <<host, layers, lru>>

\* a slip: the plans are dropped and the key stays listed
DropPlansOnly(t) ==
  /\ call[t].pc = "pop"
  /\ plans' = [plans EXCEPT ![Head(order)] = None]
  /\ Goto(t, "evict", 1)
  /\ UNCHANGED <<host, layers, order>>

(* OrderedDict.popitem(last=False): a KeyError when the others that found  *)
(* the cache too long have emptied it meanwhile.                           *)
EvictOldest(t) ==
  /\ call[t].pc = "pop"
  /\ IF order = <<>>
     THEN End(t, "raised") /\ UNCHANGED lru
     ELSE /\ plans' = [plans EXCEPT ![Head(order)] = None]
          /\ order' = Tail(order)
          /\ Goto(t, "evict", 1)
  /\ UNCHANGED <<host, layers>>

EvictDone(t) ==
  /\ call[t].pc = "evict"
  /\ ~OverCapacity
  /\ Goto(t, "run", 1)
  /\ UNCHANGED <<host, layers, lru>>

------------------------------------------------------------------------------
(* _fast_forward: the layout check, then forward_prepared layer by layer,  *)
(* up to the memo of the launch configuration and then the launch.         *)

Runnable(t) == (call[t].layer = 1 => layoutFits) /\ ThisLayer(t).weight # None

Run(t) ==
  /\ call[t].pc = "run"
  /\ Runnable(t)
  /\ LET a == ThisLayer(t)
         p == call[t].plans[call[t].layer]
     IN /\ OnLayer(t, MemoizeConfig(a, p.regime))
        /\ call' = [call EXCEPT
             ![t].used = @ \cup {a.weight, p.ver} \cup IF BiasLayout = "none" THEN {} ELSE {a.bias},
             ![t].pc   = "launch"]
  /\ UNCHANGED <<host, lru>>

\* "the encoder layout changed after its kernel state was cached", or
\* "fused QKV projection is not prepared"
RunRefused(t) ==
  /\ call[t].pc = "run"
  /\ ~Runnable(t)
  /\ End(t, "raised")
  /\ UNCHANGED <<host, layers, lru>>

LaunchRegime(t) == call[t].plans[call[t].layer].regime

Launched(t) ==
  IF call[t].layer < NumLayers
  THEN Goto(t, "run", call[t].layer + 1)
  ELSE End(t, IF call[t].used = {version} THEN "exact" ELSE "inexact")

Launch(t) ==
  /\ call[t].pc = "launch"
  /\ LaunchRegime(t) \in ThisLayer(t).resolved
  /\ Launched(t)
  /\ UNCHANGED <<host, layers, lru>>

\* a direct launch that fails is remembered and the autotuned kernel runs
LaunchFallsBack(t) ==
  /\ call[t].pc = "launch"
  /\ LaunchRegime(t) \in ThisLayer(t).resolved
  /\ DirectLaunch(ThisLayer(t), LaunchRegime(t))
  /\ OnLayer(t, RecordFailure(ThisLayer(t), LaunchRegime(t)))
  /\ Launched(t)
  /\ UNCHANGED <<host, lru>>

\* the memo was cleared between its insertion and its lookup: KeyError
LaunchForgotten(t) ==
  /\ call[t].pc = "launch"
  /\ LaunchRegime(t) \notin ThisLayer(t).resolved
  /\ End(t, "raised")
  /\ UNCHANGED <<host, layers, lru>>

(* The device is out of memory: the exception leaves everything as the     *)
(* statements before it left it, nothing in encoder_forward catches it.    *)

FailCall(t) ==
  call' = [call EXCEPT ![t] = [NoCall EXCEPT
             !.shape = call[t].shape, !.cold = call[t].cold,
             !.contended = call[t].contended, !.faulted = TRUE, !.outcome = "raised"]]

\* a preparation starts with get_rel_embedding
Allocates(t) ==
  call[t].pc \in AllocatingSteps \/ (call[t].pc = "clear" /\ call[t].layer = 1)

AllocationFails(t) ==
  /\ FaultsPossible
  /\ Allocates(t)
  /\ FailCall(t)
  /\ UNCHANGED <<host, layers, lru>>

\* both the direct launch, if there is one, and the autotuned one fail
LaunchFails(t) ==
  /\ FaultsPossible
  /\ call[t].pc = "launch"
  /\ LaunchRegime(t) \in ThisLayer(t).resolved
  /\ IF DirectLaunch(ThisLayer(t), LaunchRegime(t))
     THEN OnLayer(t, RecordFailure(ThisLayer(t), LaunchRegime(t)))
     ELSE UNCHANGED layers
  /\ FailCall(t)
  /\ UNCHANGED <<host, lru>>

------------------------------------------------------------------------------
(* What the host does between calls. No hook of the shadow layers sees it: *)
(* they are not submodules of the host. "Attached" is lost when the host's *)
(* projection modules are replaced by others.                              *)

Attached == source = version

Update(kind) ==
  /\ Quiet
  /\ kind \in HostEvents
  /\ version < MaxVersion
  /\ version' = version + 1
  /\ UNCHANGED <<layoutFits, lru, call>>

\* optimizer step, or load_state_dict copying into the parameters
UpdateInPlace ==
  /\ Update("update")
  /\ source' = IF Attached THEN version + 1 ELSE source
  /\ layers' = [l \in Layers |->
       LET a == layers[l] IN
       IF Attached /\ a.weight # None /\ a.bound = a.packer
       THEN [a EXCEPT !.weight = version + 1,
                      !.bias = IF @ = None THEN None ELSE version + 1]
       ELSE a]

\* load_state_dict(assign=True), or a change of dtype or device
Reassign ==
  /\ Update("reassign")
  /\ source' = IF Attached THEN version + 1 ELSE source
  /\ layers' = IF Attached THEN [l \in Layers |-> [layers[l] EXCEPT !.bound = None]] ELSE layers

\* other modules take the place of query_proj, key_proj and value_proj
ReplaceProjections ==
  /\ Update("replace")
  /\ UNCHANGED <<source, layers>>

\* layers are added to or removed from encoder.layer
ChangeLayout ==
  /\ Quiet
  /\ "relayout" \in HostEvents
  /\ layoutFits
  /\ layoutFits' = FALSE
  /\ UNCHANGED <<version, source, layers, lru, call>>

HostEvent == UpdateInPlace \/ Reassign \/ ReplaceProjections \/ ChangeLayout

------------------------------------------------------------------------------

Prepare(t) ==
  \/ Clear(t) \/ Pack(t) \/ Rebind(t) \/ Bias(t) \/ Project(t)
  \/ Shape(t) \/ ShapeRefused(t) \/ Release(t)
  \/ Store(t) \/ EvictMore(t) \/ EvictOldest(t) \/ EvictDone(t)

Forward(t) ==
  \/ Run(t) \/ RunRefused(t)
  \/ Launch(t) \/ LaunchFallsBack(t) \/ LaunchForgotten(t) \/ LaunchFails(t)

Step(t) ==
  \/ LookupHit(t) \/ LookupMiss(t) \/ Touch(t) \/ TouchEvicted(t)
  \/ Prepare(t)
  \/ Forward(t)
  \/ AllocationFails(t)

Next ==
  \/ \E t \in Threads : Step(t) \/ \E s \in Shapes : Arrive(t, s)
  \/ HostEvent

\* A thread in a call is never blocked, so the scheduler gets to it.
Fairness == \A t \in Threads : WF_vars(Step(t))

Spec == Init /\ [][Next]_vars /\ Fairness

------------------------------------------------------------------------------
(* Properties                                                              *)

(* The LRU of _plans_for is well formed: no length is listed twice, the    *)
(* lengths listed are those with plans, and once no call is evicting the   *)
(* cache is within MAX_CACHED_SHAPES.                                      *)
LruConsistent ==
  /\ \A i, j \in DOMAIN order : order[i] = order[j] => i = j
  /\ \A s \in Shapes : plans[s] # None <=> Held(s)
  /\ (\A t \in Threads : call[t].pc \notin {"evict", "pop"}) => Len(order) <= MaxCachedShapes

(* What _plans_for publishes is whole: plans for every layer, all made     *)
(* from one version of the weights, each for the length it is filed under  *)
(* and with the tables its lookup table indexes. A preparation that fails  *)
(* halfway, or that another interrupts, publishes nothing.                 *)
PlansPublishedWhole ==
  \A s \in Shapes : plans[s] # None =>
    /\ \A l \in Layers :
         /\ plans[s][l].shape = s
         /\ plans[s][l].regime = Regime[s]
         /\ plans[s][l].range = SlotRange[Regime[s]]
    /\ \A l, m \in Layers : plans[s][l].ver = plans[s][m].ver

(* The length served last is the last to be evicted: the plan a sequence   *)
(* of calls keeps using is never the one _plans_for drops.                 *)
LastServedRetained ==
  \A t \in Threads :
    Threads = {t} /\ Idle(t) /\ call[t].outcome \in {"exact", "inexact"}
      => order[Len(order)] = call[t].shape

HasGap(s) == SlotRange[Regime[s]] \in Gapped

(* A call that prepares its length computes with the weights the host has  *)
(* then, whatever was updated or failed before it: clear_inference_cache   *)
(* leaves nothing behind that prepare_shape could pick up. It fails only   *)
(* for a fault of its own, a host whose number of layers has changed, or a *)
(* length whose slots have a hole. Replaced projections are excepted: the  *)
(* shadow layers never see them.                                           *)
ColdCallsExact ==
  \A t \in Threads :
    Idle(t) /\ call[t].cold /\ ~call[t].contended /\ Attached =>
      \/ call[t].outcome = "exact"
      \/ /\ call[t].outcome = "raised"
         /\ call[t].faulted \/ ~layoutFits \/ HasGap(call[t].shape)

(* After a call that prepared its length and answered, no layer keeps the  *)
(* full position tables, each keeps one compact table and the one plan of  *)
(* the last cold length: what a layer retains does not grow with the       *)
(* number of lengths served.                                               *)
LayersKeepOneShape ==
  \A t \in Threads :
    Threads = {t} /\ Idle(t) /\ call[t].cold /\ call[t].outcome \in {"exact", "inexact"} =>
      \A l \in Layers :
        /\ layers[l].workspace = None
        /\ {s \in Shapes : layers[l].shapes[s] # None} = {call[t].shape}
        /\ Cardinality({r \in Ranges : layers[l].compact[r] # None}) = 1

(* Without faults, once no thread prepares, every layer has a whole QKV    *)
(* pack or was never prepared: interleaved preparations do not leave a     *)
(* weight without its bias behind.                                         *)
PacksWholeWhenQuiet ==
  Quiet /\ ~FaultsPossible => \A l \in Layers :
    layers[l].weight = None <=> layers[l].bias = None

(* "The kernel is exact": every answer is computed from the weights the    *)
(* host has at that call, and from all of them.                            *)
AnswersExact == \A t \in Threads : call[t].outcome # "inexact"

(* Every call returns or raises once the callers stop coming: no           *)
(* interleaving of preparations and evictions keeps one of them going. The *)
(* premise is needed: the eviction loop of _plans_for pops what others     *)
(* store, so a stream of cold calls may keep one caller popping for ever.  *)
NoNewCalls == <>[][\A t \in Threads, s \in Shapes : ~Arrive(t, s)]_vars

EveryCallEnds == NoNewCalls => \A t \in Threads : ~Idle(t) ~> Idle(t)

------------------------------------------------------------------------------
(* What the calls of an encoder promise: see EncoderContract. A call is    *)
(* disturbed by a preparation of another call or by a fault of its own.    *)

Request(t) ==
  CASE Idle(t) -> "none"
    [] ~Idle(t) /\ call[t].contended -> "disturbed"
    [] OTHER -> "pending"

Contract == INSTANCE EncoderContract WITH
  request <- [t \in Threads |-> Request(t)],
  reply   <- [t \in Threads |-> call[t].outcome]

ImplementsContract == Contract!Spec
==============================================================================
