-------------------------- MODULE EncoderCacheProofs --------------------------
(***************************************************************************)
(* Theorems about EncoderCache, for every set of threads, every number of  *)
(* layers, lengths and host updates, with or without faults.               *)
(***************************************************************************)
EXTENDS EncoderCache, TLAPS

------------------------------------------------------------------------------
(* The operations of AttentionCaches stay within their types.              *)

LEMMA NewLayerType == NewLayer \in AttentionLayer
  BY DEF NewLayer, AttentionLayer

LEMMA LayerOperationsTyped ==
  ASSUME NEW a \in AttentionLayer, NEW v \in Versions, NEW t \in Owners
  PROVE  /\ ClearInferenceCache(a) \in AttentionLayer
         /\ PackWeights(a, v, t) \in AttentionLayer
         /\ RebindWeights(a, t) \in AttentionLayer
         /\ PackBiases(a, v) \in AttentionLayer
         /\ ProjectPositions(a, v) \in AttentionLayer
         /\ ReleaseWorkspace(a) \in AttentionLayer
  <1>1. ClearInferenceCache(a) \in AttentionLayer
    BY DEF ClearInferenceCache, NewLayer, AttentionLayer
  <1>2. PackWeights(a, v, t) \in AttentionLayer /\ RebindWeights(a, t) \in AttentionLayer
    BY DEF PackWeights, RebindWeights, AttentionLayer
  <1>3. PackBiases(a, v) \in AttentionLayer
    BY DEF PackBiases, AttentionLayer
  <1>4. ProjectPositions(a, v) \in AttentionLayer /\ ReleaseWorkspace(a) \in AttentionLayer
    BY DEF ProjectPositions, ReleaseWorkspace, AttentionLayer
  <1>5. QED
    BY <1>1, <1>2, <1>3, <1>4

LEMMA LaunchMemosTyped ==
  ASSUME NEW a \in AttentionLayer, NEW r \in Shapes
  PROVE  MemoizeConfig(a, r) \in AttentionLayer /\ RecordFailure(a, r) \in AttentionLayer
  BY DEF MemoizeConfig, RecordFailure, AttentionLayer

(* A length that can be prepared gets a plan, and the layer files it.      *)
LEMMA ShapePlanTyped ==
  ASSUME NEW a \in AttentionLayer, NEW s \in Shapes, CanPrepareShape(a, s)
  PROVE  /\ ShapePlan(a, s) \in Plan
         /\ PrepareShape(a, s) \in AttentionLayer
  <1> DEFINE rep == Representative(a, s)
  <1>1. /\ Regime[s] \in Shapes /\ SlotRange[Regime[s]] \in Ranges
        /\ a.shapes[s] \in Plan \cup {None} /\ rep \in Plan \cup {None}
        /\ CompactTable(a, s) \in Versions \cup {None}
        /\ a.workspace \in Versions \cup {None}
    BY RegimeAssumption DEF AttentionLayer, Representative, CompactTable
  <1>2. a.shapes[s] = None /\ rep = None => NarrowedTable(a, s) \in Versions
    BY <1>1 DEF CanPrepareShape, NarrowedTable
  <1>3. ShapePlan(a, s) \in Plan
    <2>1. CASE a.shapes[s] # None
      BY <2>1, <1>1 DEF ShapePlan
    <2>2. CASE a.shapes[s] = None /\ rep # None
      BY <2>2, <1>1 DEF ShapePlan, Plan
    <2>3. CASE a.shapes[s] = None /\ rep = None
      BY <2>3, <1>1, <1>2 DEF ShapePlan, Plan
    <2>4. QED
      BY <2>1, <2>2, <2>3
  <1>4. PrepareShape(a, s) \in AttentionLayer
    <2> DEFINE projected == a.shapes[s] = None /\ Representative(a, s) = None
    <2>1. [a.shapes EXCEPT ![s] = ShapePlan(a, s)] \in [Shapes -> Plan \cup {None}]
      BY <1>3 DEF AttentionLayer
    <2>2. (IF projected THEN [a.compact EXCEPT ![SlotRange[Regime[s]]] = NarrowedTable(a, s)]
           ELSE a.compact) \in [Ranges -> Versions \cup {None}]
      BY <1>1, <1>2 DEF AttentionLayer
    <2>3. QED
      BY <2>1, <2>2 DEF PrepareShape, AttentionLayer
  <1>5. QED
    BY <1>3, <1>4

------------------------------------------------------------------------------
(* Type correctness. TypeOK alone is not inductive: what a step files or   *)
(* runs with must be plans for every layer, which depends on the step.     *)

HoldsPlans == {"touch", "run", "launch", "release", "store", "evict", "pop"}

InHand(c) ==
  /\ c.pc # "idle" => c.shape \in Shapes
  /\ c.pc \in HoldsPlans => c.plans \in [Layers -> Plan]
  /\ c.pc = "shape" => \A m \in 1..(c.layer - 1) : c.plans[m] \in Plan

PlansInHand == \A t \in Threads : InHand(call[t])

TypeInv == TypeOK /\ PlansInHand

(* The ways a step changes the record of its call.                         *)

LEMMA FirstLayer == 1 \in Layers /\ Layers \subseteq Nat /\ NumLayers \in Layers
  BY EncoderAssumption DEF Layers

LEMMA EndEffect ==
  ASSUME call \in [Threads -> CallRecord], NEW t \in Threads,
         NEW outcome \in Outcomes, End(t, outcome)
  PROVE  /\ call' \in [Threads -> CallRecord]
         /\ \A u \in Threads \ {t} : call'[u] = call[u]
         /\ call'[t].pc = "idle"
  <1> DEFINE ended == [call[t] EXCEPT !.pc = "idle", !.layer = 1, !.plans = NoPlans,
                                      !.used = {}, !.outcome = outcome]
  <1>1. call' = [call EXCEPT ![t] = ended]
    BY DEF End
  <1>2. ended \in CallRecord /\ ended.pc = "idle"
    BY FirstLayer DEF CallRecord, NoPlans, Steps
  <1>3. QED
    BY <1>1, <1>2

LEMMA NoCallTyped == NoCall \in CallRecord /\ NoCall.pc = "idle"
  BY FirstLayer DEF NoCall, CallRecord, NoPlans, Steps, Outcomes

LEMMA FailEffect ==
  ASSUME call \in [Threads -> CallRecord], NEW t \in Threads, FailCall(t)
  PROVE  /\ call' \in [Threads -> CallRecord]
         /\ \A u \in Threads \ {t} : call'[u] = call[u]
         /\ call'[t].pc = "idle"
  <1> DEFINE failed ==
        [NoCall EXCEPT !.shape = call[t].shape, !.cold = call[t].cold,
                       !.contended = call[t].contended, !.faulted = TRUE, !.outcome = "raised"]
  <1>1. call' = [call EXCEPT ![t] = failed]
    BY DEF FailCall
  <1>2. failed \in CallRecord /\ failed.pc = "idle"
    BY FirstLayer DEF NoCall, CallRecord, NoPlans, Steps, Outcomes
  <1>3. QED
    BY <1>1, <1>2

LEMMA OnLayerTyped ==
  ASSUME TypeOK, NEW t \in Threads, NEW a \in AttentionLayer, OnLayer(t, a)
  PROVE  layers' \in [Layers -> AttentionLayer]
  BY DEF TypeOK, OnLayer

LEMMA HereTyped ==
  ASSUME TypeOK, NEW t \in Threads
  PROVE  /\ call[t] \in CallRecord
         /\ call[t].layer \in Layers
         /\ ThisLayer(t) \in AttentionLayer
         /\ source \in Versions
  BY DEF TypeOK, CallRecord, ThisLayer

(* A step of t that leaves t idle, or moves it on with its plans.          *)
LEMMA OneCallMoves ==
  ASSUME TypeInv, NEW t \in Threads,
         \A u \in Threads \ {t} : call'[u] = call[u],
         InHand(call'[t])
  PROVE  PlansInHand'
  BY DEF TypeInv, PlansInHand, InHand

LEMMA EndsInHand ==
  ASSUME TypeInv, NEW t \in Threads,
         \/ \E outcome \in Outcomes : End(t, outcome)
         \/ FailCall(t)
  PROVE  /\ call' \in [Threads -> CallRecord]
         /\ PlansInHand'
  <1>1. /\ call' \in [Threads -> CallRecord]
        /\ \A u \in Threads \ {t} : call'[u] = call[u]
        /\ call'[t].pc = "idle"
    <2> call \in [Threads -> CallRecord]
      BY DEF TypeInv, TypeOK
    <2>1. CASE \E outcome \in Outcomes : End(t, outcome)
      BY <2>1, EndEffect, Zenon
    <2>2. CASE FailCall(t)
      BY <2>2, FailEffect, Zenon
    <2>3. QED
      BY <2>1, <2>2
  <1>2. InHand(call'[t])
    BY <1>1 DEF InHand, HoldsPlans
  <1>3. QED
    BY <1>1, <1>2, OneCallMoves

LEMMA GotoInHand ==
  ASSUME TypeInv, NEW t \in Threads, NEW pc \in Steps, NEW l \in Layers, Goto(t, pc, l),
         call[t].pc # "idle",
         pc \in HoldsPlans => call[t].pc \in HoldsPlans,
         pc = "shape" => l = 1
  PROVE  /\ call' \in [Threads -> CallRecord]
         /\ PlansInHand'
  <1> DEFINE c == [call[t] EXCEPT !.pc = pc, !.layer = l]
  <1>1. call \in [Threads -> CallRecord] /\ call' = [call EXCEPT ![t] = c]
    BY DEF TypeInv, TypeOK, Goto
  <1>2. InHand(call[t]) /\ call[t] \in CallRecord
    BY DEF TypeInv, TypeOK, PlansInHand
  <1>3. c \in CallRecord /\ InHand(c)
    <2>1. /\ c \in CallRecord
          /\ c.pc = pc /\ c.layer = l /\ c.shape = call[t].shape /\ c.plans = call[t].plans
      BY <1>2 DEF CallRecord
    <2>2. 1..(1 - 1) = {}
      OBVIOUS
    <2> HIDE DEF c
    <2>3. QED
      BY <1>2, <2>1, <2>2 DEF InHand
  <1> HIDE DEF c
  <1>4. QED
    BY <1>1, <1>3, OneCallMoves

LEMMA ArriveType ==
  ASSUME TypeInv, NEW t \in Threads, NEW s \in Shapes, Arrive(t, s)
  PROVE  TypeInv'
  <1> DEFINE c == [NoCall EXCEPT !.pc = "lookup", !.shape = s,
                     !.contended = \E u \in Threads \ {t} : Cold(u)]
  <1>1. call' = [call EXCEPT ![t] = c] /\ UNCHANGED <<host, layers, lru>>
    BY DEF Arrive
  <1>2. c \in CallRecord /\ InHand(c)
    BY FirstLayer DEF NoCall, CallRecord, NoPlans, Steps, Outcomes, InHand, HoldsPlans
  <1>3. call' \in [Threads -> CallRecord] /\ PlansInHand'
    BY <1>1, <1>2, OneCallMoves DEF TypeInv, TypeOK
  <1>4. QED
    BY <1>1, <1>3 DEF TypeInv, TypeOK, host, lru

LEMMA LookupType ==
  ASSUME TypeInv, NEW t \in Threads, LookupHit(t) \/ LookupMiss(t)
  PROVE  TypeInv'
  <1>1. CASE LookupHit(t)
    <2> DEFINE c == [call[t] EXCEPT !.pc = "touch", !.plans = plans[call[t].shape]]
    <2>1. call' = [call EXCEPT ![t] = c] /\ UNCHANGED <<host, layers, lru>>
      BY <1>1 DEF LookupHit
    <2>2. call[t].shape \in Shapes /\ plans[call[t].shape] \in [Layers -> Plan]
      BY <1>1 DEF LookupHit, TypeInv, TypeOK, PlansInHand, InHand
    <2>3. c \in CallRecord /\ InHand(c)
      BY <2>2, HereTyped DEF TypeInv, CallRecord, Steps, InHand, HoldsPlans
    <2>4. call' \in [Threads -> CallRecord] /\ PlansInHand'
      BY <2>1, <2>3, OneCallMoves DEF TypeInv, TypeOK
    <2>5. QED
      BY <2>1, <2>4 DEF TypeInv, TypeOK, host, lru
  <1>2. CASE LookupMiss(t)
    <2>1. ASSUME NEW u \in Threads
          PROVE  call'[u] \in CallRecord /\ InHand(call'[u])
      <3>1. InHand(call[u]) /\ call[u] \in CallRecord
        BY DEF TypeInv, TypeOK, PlansInHand
      <3>2. CASE u = t
        BY <1>2, <3>1, <3>2, FirstLayer
        DEF LookupMiss, CallRecord, Steps, ColdSteps, InHand, HoldsPlans
      <3>3. CASE u # t /\ ~Idle(u)
        BY <1>2, <3>1, <3>3 DEF LookupMiss, CallRecord, InHand
      <3>4. CASE u # t /\ Idle(u)
        BY <1>2, <3>1, <3>4 DEF LookupMiss
      <3>5. QED
        BY <3>2, <3>3, <3>4
    <2>2. call' \in [Threads -> CallRecord]
      BY <1>2, <2>1 DEF LookupMiss
    <2>3. QED
      BY <1>2, <2>1, <2>2 DEF LookupMiss, TypeInv, TypeOK, PlansInHand, host, lru
  <1>3. QED
    BY <1>1, <1>2

LEMMA TouchType ==
  ASSUME TypeInv, NEW t \in Threads, Touch(t) \/ TouchEvicted(t)
  PROVE  TypeInv'
  <1>1. CASE Touch(t)
    <2>1. MovedToEnd(call[t].shape) \in Seq(Shapes)
      <3> DEFINE s == call[t].shape
      <3>1. s \in Shapes /\ order \in Seq(Shapes)
        BY <1>1 DEF Touch, TypeInv, TypeOK, PlansInHand, InHand
      <3>2. MovedToEnd(s) \in [1..Len(order) -> Shapes]
        BY <3>1 DEF MovedToEnd
      <3>3. QED
        BY <3>1, <3>2
    <2>2. call' \in [Threads -> CallRecord] /\ PlansInHand'
      BY <1>1, GotoInHand, FirstLayer DEF Touch, Steps, HoldsPlans
    <2>3. QED
      BY <1>1, <2>1, <2>2 DEF Touch, TypeInv, TypeOK, host
  <1>2. CASE TouchEvicted(t)
    BY <1>2, EndsInHand DEF TouchEvicted, Outcomes, TypeInv, TypeOK, host, lru
  <1>3. QED
    BY <1>1, <1>2

(* The loops over the layers.                                              *)
LEMMA NextLayerInHand ==
  ASSUME TypeInv, NEW t \in Threads, NEW pc \in Steps, NEW after \in Steps,
         NextLayer(t, pc, after), call[t].pc # "idle",
         pc # "shape", {pc, after} \cap HoldsPlans # {} => call[t].pc \in HoldsPlans
  PROVE  /\ call' \in [Threads -> CallRecord]
         /\ PlansInHand'
  <1>1. CASE call[t].layer < NumLayers
    <2>1. call[t].layer + 1 \in Layers /\ Goto(t, pc, call[t].layer + 1)
      BY <1>1, HereTyped, EncoderAssumption DEF NextLayer, TypeInv, Layers
    <2>2. QED
      BY <2>1, GotoInHand
  <1>2. CASE ~(call[t].layer < NumLayers)
    BY <1>2, GotoInHand, FirstLayer DEF NextLayer
  <1>3. QED
    BY <1>1, <1>2

LEMMA PrepareLayerType ==
  ASSUME TypeInv, NEW t \in Threads,
         Clear(t) \/ Pack(t) \/ Rebind(t) \/ Bias(t) \/ Project(t) \/ Release(t)
  PROVE  TypeInv'
  <1> t \in Owners
    BY EncoderAssumption
  <1>0. call[t].layer \in Layers /\ ThisLayer(t) \in AttentionLayer /\ source \in Versions
    BY HereTyped DEF TypeInv
  <1>1. call' \in [Threads -> CallRecord] /\ PlansInHand'
    <2>1. CASE Clear(t)
      BY <1>0, <2>1, GotoInHand DEF Clear, Steps, ColdSteps, HoldsPlans
    <2>2. CASE Pack(t)
      BY <1>0, <2>2, GotoInHand DEF Pack, Steps, ColdSteps, HoldsPlans
    <2>3. CASE Rebind(t)
      BY <1>0, <2>3, GotoInHand DEF Rebind, Steps, ColdSteps, HoldsPlans
    <2>4. CASE Bias(t)
      BY <1>0, <2>4, GotoInHand DEF Bias, Steps, ColdSteps, HoldsPlans
    <2>5. CASE Project(t)
      BY <2>5, NextLayerInHand DEF Project, Steps, ColdSteps, HoldsPlans
    <2>6. CASE Release(t)
      BY <2>6, NextLayerInHand DEF Release, Steps, ColdSteps, HoldsPlans
    <2>7. QED
      BY <2>1, <2>2, <2>3, <2>4, <2>5, <2>6
  <1>2. layers' \in [Layers -> AttentionLayer]
    <2> TypeOK
      BY DEF TypeInv
    <2>1. CASE Clear(t)
      BY <1>0, <2>1, LayerOperationsTyped, OnLayerTyped DEF Clear
    <2>2. CASE Pack(t)
      BY <1>0, <2>2, LayerOperationsTyped, OnLayerTyped DEF Pack
    <2>3. CASE Rebind(t)
      BY <1>0, <2>3, LayerOperationsTyped, OnLayerTyped DEF Rebind
    <2>4. CASE Bias(t)
      BY <1>0, <2>4, LayerOperationsTyped, OnLayerTyped DEF Bias
    <2>5. CASE Project(t)
      BY <1>0, <2>5, LayerOperationsTyped, OnLayerTyped DEF Project
    <2>6. CASE Release(t)
      BY <1>0, <2>6, LayerOperationsTyped, OnLayerTyped DEF Release
    <2>7. QED
      BY <2>1, <2>2, <2>3, <2>4, <2>5, <2>6
  <1>3. UNCHANGED <<host, lru>>
    BY DEF Clear, Pack, Rebind, Bias, Project, Release
  <1>4. QED
    BY <1>1, <1>2, <1>3 DEF TypeInv, TypeOK, host, lru

LEMMA ShapeType ==
  ASSUME TypeInv, NEW t \in Threads, Shape(t)
  PROVE  TypeInv'
  <1> DEFINE l == call[t].layer
             p == ShapePlan(ThisLayer(t), call[t].shape)
             ps == [call[t].plans EXCEPT ![l] = p]
             nl == IF l < NumLayers THEN l + 1 ELSE 1
             pc == IF l < NumLayers THEN "shape" ELSE "release"
             c == [call[t] EXCEPT !.plans = ps, !.layer = nl, !.pc = pc]
  <1>1. /\ call[t] \in CallRecord /\ InHand(call[t]) /\ l \in Layers
        /\ ThisLayer(t) \in AttentionLayer /\ call[t].shape \in Shapes
        /\ call[t].plans \in [Layers -> Plan \cup {None}]
        /\ \A m \in 1..(l - 1) : call[t].plans[m] \in Plan
    BY HereTyped DEF TypeInv, PlansInHand, Shape, InHand, CallRecord
  <1>2. p \in Plan /\ PrepareShape(ThisLayer(t), call[t].shape) \in AttentionLayer
    BY <1>1, ShapePlanTyped DEF Shape
  <1>3. call' = [call EXCEPT ![t] = c]
    BY DEF Shape
  <1>4. /\ ps \in [Layers -> Plan \cup {None}]
        /\ \A m \in Layers \ {l} : ps[m] = call[t].plans[m]
        /\ ps[l] = p
        /\ nl \in Layers
        /\ pc \in Steps
    BY <1>1, <1>2, FirstLayer, EncoderAssumption DEF Layers, Steps, ColdSteps
  <1>5. c \in CallRecord /\ InHand(c)
    <2> HIDE DEF p, ps
    <2>1. c \in CallRecord /\ c.plans = ps /\ c.pc = pc /\ c.layer = nl /\ c.shape = call[t].shape
      <3> HIDE DEF nl, pc
      <3> QED BY <1>1, <1>4 DEF CallRecord
    <2>2. CASE l < NumLayers
      <3>1. ASSUME NEW m \in 1..l PROVE ps[m] \in Plan
        <4>1. l \in Nat /\ m \in Layers /\ (m = l \/ m \in 1..(l - 1))
          BY <1>1, EncoderAssumption DEF Layers
        <4>2. QED
          BY <4>1, <1>1, <1>2, <1>4
      <3>2. QED
        BY <2>1, <2>2, <3>1, <1>1 DEF InHand, HoldsPlans, Layers
    <2>3. CASE ~(l < NumLayers)
      <3>1. l = NumLayers
        BY <2>3, <1>1, EncoderAssumption DEF Layers
      <3>2. ps \in [Layers -> Plan]
        BY <3>1, <1>1, <1>2, <1>4, EncoderAssumption DEF Layers
      <3>3. QED
        BY <2>1, <2>3, <3>2, <1>1 DEF InHand, HoldsPlans
    <2>4. QED
      BY <2>1, <2>2, <2>3
  <1>6. call' \in [Threads -> CallRecord] /\ PlansInHand'
    BY <1>3, <1>5, OneCallMoves DEF TypeInv, TypeOK
  <1>7. layers' \in [Layers -> AttentionLayer]
    BY <1>2, OnLayerTyped DEF Shape, TypeInv
  <1>8. QED
    BY <1>6, <1>7 DEF Shape, TypeInv, TypeOK, host, lru

(* popitem takes the oldest length, or raises on an empty cache.           *)
LEMMA PopCases ==
  ASSUME NEW t \in Threads, EvictOldest(t)
  PROVE  /\ call[t].pc = "pop" /\ UNCHANGED <<host, layers>>
         /\ \/ order = <<>> /\ End(t, "raised") /\ UNCHANGED lru
            \/ /\ order # <<>> /\ Goto(t, "evict", 1)
               /\ plans' = [plans EXCEPT ![Head(order)] = None] /\ order' = Tail(order)
  BY DEF EvictOldest

LEMMA StoreEvictType ==
  ASSUME TypeInv, NEW t \in Threads,
         Store(t) \/ EvictOldest(t) \/ EvictMore(t) \/ EvictDone(t)
  PROVE  TypeInv'
  <1>1. CASE Store(t)
    <2>1. call[t].shape \in Shapes /\ call[t].plans \in [Layers -> Plan]
      BY <1>1 DEF Store, TypeInv, PlansInHand, InHand, HoldsPlans
    <2>2. order' \in Seq(Shapes) /\ plans' \in [Shapes -> [Layers -> Plan] \cup {None}]
      BY <1>1, <2>1 DEF Store, WithKey, TypeInv, TypeOK
    <2>3. call' \in [Threads -> CallRecord] /\ PlansInHand'
      BY <1>1, GotoInHand, FirstLayer DEF Store, Steps, ColdSteps, HoldsPlans
    <2>4. QED
      BY <1>1, <2>2, <2>3 DEF Store, TypeInv, TypeOK, host
  <1>2. CASE EvictOldest(t)
    <2>1. /\ call[t].pc = "pop" /\ UNCHANGED <<host, layers>>
          /\ order \in Seq(Shapes) /\ plans \in [Shapes -> [Layers -> Plan] \cup {None}]
      BY <1>2, PopCases DEF TypeInv, TypeOK
    <2>2. CASE End(t, "raised") /\ UNCHANGED lru
      <3>1. call' \in [Threads -> CallRecord] /\ PlansInHand'
        BY <2>2, EndsInHand DEF Outcomes
      <3>2. QED
        BY <2>1, <2>2, <3>1 DEF TypeInv, TypeOK, host, lru
    <2>3. CASE /\ order # <<>> /\ Goto(t, "evict", 1)
               /\ plans' = [plans EXCEPT ![Head(order)] = None] /\ order' = Tail(order)
      <3>1. order' \in Seq(Shapes) /\ plans' \in [Shapes -> [Layers -> Plan] \cup {None}]
        BY <2>1, <2>3
      <3>2. "evict" \in Steps /\ call[t].pc \in HoldsPlans
        BY <2>1 DEF Steps, ColdSteps, HoldsPlans
      <3>3. call' \in [Threads -> CallRecord] /\ PlansInHand'
        BY <2>1, <2>3, <3>2, GotoInHand, FirstLayer
      <3>4. QED
        BY <2>1, <3>1, <3>3 DEF TypeInv, TypeOK, host
    <2>4. QED
      BY <1>2, <2>2, <2>3, PopCases
  <1>3. CASE EvictMore(t) \/ EvictDone(t)
    <2>1. call' \in [Threads -> CallRecord] /\ PlansInHand'
      BY <1>3, GotoInHand, FirstLayer DEF EvictMore, EvictDone, Steps, ColdSteps, HoldsPlans
    <2>2. QED
      BY <1>3, <2>1 DEF EvictMore, EvictDone, TypeInv, TypeOK, host, lru
  <1>4. QED
    BY <1>1, <1>2, <1>3

LEMMA RunType ==
  ASSUME TypeInv, NEW t \in Threads, Run(t)
  PROVE  TypeInv'
  <1> DEFINE a == ThisLayer(t)
             p == call[t].plans[call[t].layer]
             bias == IF BiasLayout = "none" THEN {} ELSE {a.bias}
             used == call[t].used \cup {a.weight, p.ver} \cup bias
             c == [call[t] EXCEPT !.used = used, !.pc = "launch"]
  <1>1. /\ call[t] \in CallRecord /\ InHand(call[t]) /\ call[t].layer \in Layers
        /\ a \in AttentionLayer /\ call[t].plans \in [Layers -> Plan]
    BY HereTyped DEF TypeInv, PlansInHand, Run, InHand, HoldsPlans
  <1>2. p \in Plan /\ p.regime \in Shapes /\ p.ver \in Versions
    BY <1>1 DEF Plan
  <1>3. used \in SUBSET (Versions \cup {None})
    BY <1>1, <1>2 DEF CallRecord, AttentionLayer
  <1>4. c \in CallRecord /\ InHand(c)
    <2> HIDE DEF used
    <2> QED
      BY <1>1, <1>3 DEF CallRecord, Steps, InHand, HoldsPlans, Run
  <1>5. call' = [call EXCEPT ![t] = c]
    BY DEF Run
  <1>6. call' \in [Threads -> CallRecord] /\ PlansInHand'
    <2> HIDE DEF c
    <2> QED
      BY <1>4, <1>5, OneCallMoves DEF TypeInv, TypeOK
  <1>7. layers' \in [Layers -> AttentionLayer]
    BY <1>1, <1>2, LaunchMemosTyped, OnLayerTyped DEF Run, TypeInv
  <1>8. QED
    BY <1>6, <1>7 DEF Run, TypeInv, TypeOK, host, lru

LEMMA LaunchType ==
  ASSUME TypeInv, NEW t \in Threads, Launch(t) \/ LaunchFallsBack(t) \/ LaunchFails(t)
  PROVE  TypeInv'
  <1>1. /\ call[t].layer \in Layers /\ ThisLayer(t) \in AttentionLayer
        /\ call[t].pc = "launch" /\ LaunchRegime(t) \in Shapes
    <2>1. call[t].layer \in Layers /\ ThisLayer(t) \in AttentionLayer /\ call[t].pc = "launch"
      BY HereTyped DEF TypeInv, Launch, LaunchFallsBack, LaunchFails
    <2>2. call[t].plans \in [Layers -> Plan]
      BY <2>1 DEF TypeInv, PlansInHand, InHand, HoldsPlans
    <2>3. QED
      BY <2>1, <2>2 DEF LaunchRegime, Plan
  <1>2. layers' \in [Layers -> AttentionLayer]
    <2>1. CASE UNCHANGED layers
      BY <2>1 DEF TypeInv, TypeOK
    <2>2. CASE OnLayer(t, RecordFailure(ThisLayer(t), LaunchRegime(t)))
      BY <1>1, <2>2, LaunchMemosTyped, OnLayerTyped DEF TypeInv
    <2>3. QED
      BY <2>1, <2>2 DEF Launch, LaunchFallsBack, LaunchFails
  <1>3. ASSUME Launched(t)
        PROVE  call' \in [Threads -> CallRecord] /\ PlansInHand'
    <2>1. CASE call[t].layer < NumLayers
      <3>1. call[t].layer + 1 \in Layers /\ Goto(t, "run", call[t].layer + 1)
        BY <1>1, <1>3, <2>1, EncoderAssumption DEF Launched, Layers
      <3>2. QED
        BY <1>1, <3>1, GotoInHand DEF Steps, HoldsPlans
    <2>2. CASE ~(call[t].layer < NumLayers)
      <3>1. \E outcome \in Outcomes : End(t, outcome)
        BY <1>3, <2>2 DEF Launched, Outcomes
      <3>2. QED
        BY <3>1, EndsInHand
    <2>3. QED
      BY <2>1, <2>2
  <1>4. call' \in [Threads -> CallRecord] /\ PlansInHand'
    BY <1>3, EndsInHand DEF Launch, LaunchFallsBack, LaunchFails
  <1>5. QED
    BY <1>2, <1>4 DEF Launch, LaunchFallsBack, LaunchFails, TypeInv, TypeOK, host, lru

(* The steps that only raise.                                              *)
LEMMA RaiseType ==
  ASSUME TypeInv, NEW t \in Threads,
         \/ ShapeRefused(t) \/ RunRefused(t)
         \/ LaunchForgotten(t) \/ AllocationFails(t)
  PROVE  TypeInv'
  <1>1. UNCHANGED <<host, layers, lru>>
    BY DEF ShapeRefused, RunRefused, LaunchForgotten, AllocationFails
  <1>2. FailCall(t) \/ \E outcome \in Outcomes : End(t, outcome)
    BY DEF ShapeRefused, RunRefused, LaunchForgotten, AllocationFails, Outcomes
  <1>3. QED
    BY <1>1, <1>2, EndsInHand DEF TypeInv, TypeOK, host, lru

LEMMA HostEventType ==
  ASSUME TypeInv, HostEvent
  PROVE  TypeInv'
  <1>0. version \in Versions /\ source \in Versions /\ layoutFits \in BOOLEAN
        /\ version + 1 \in Versions
    BY DEF TypeInv, TypeOK, Versions
  <1>1. version' \in Versions /\ source' \in Versions /\ layoutFits' \in BOOLEAN
    <2>1. CASE UpdateInPlace
      BY <1>0, <2>1 DEF UpdateInPlace, Update
    <2>2. CASE Reassign
      BY <1>0, <2>2 DEF Reassign, Update
    <2>3. CASE ReplaceProjections
      BY <1>0, <2>3 DEF ReplaceProjections, Update
    <2>4. CASE ChangeLayout
      BY <1>0, <2>4 DEF ChangeLayout
    <2>5. QED
      BY <2>1, <2>2, <2>3, <2>4 DEF HostEvent
  <1>2. layers' \in [Layers -> AttentionLayer]
    <2>1. CASE UpdateInPlace
      <3>1. ASSUME NEW a \in AttentionLayer
            PROVE  [a EXCEPT !.weight = version + 1,
                             !.bias = IF a.bias = None THEN None ELSE version + 1]
                     \in AttentionLayer
        <4> DEFINE next == version + 1
                   bias == IF a.bias = None THEN None ELSE next
        <4>1. next \in Versions /\ bias \in Versions \cup {None}
          BY <1>0
        <4> HIDE DEF next, bias
        <4>2. [a EXCEPT !.weight = next, !.bias = bias] \in AttentionLayer
          BY <4>1 DEF AttentionLayer
        <4>3. QED
          BY <4>2 DEF next, bias
      <3>2. QED
        BY <2>1, <3>1 DEF UpdateInPlace, TypeInv, TypeOK
    <2>2. CASE Reassign
      <3>1. ASSUME NEW a \in AttentionLayer
            PROVE  [a EXCEPT !.bound = None] \in AttentionLayer
        BY DEF AttentionLayer
      <3>2. QED
        BY <2>2, <3>1 DEF Reassign, TypeInv, TypeOK
    <2>3. CASE ReplaceProjections \/ ChangeLayout
      BY <2>3 DEF ReplaceProjections, ChangeLayout, TypeInv, TypeOK
    <2>4. QED
      BY <2>1, <2>2, <2>3 DEF HostEvent
  <1>3. UNCHANGED <<lru, call>>
    BY DEF HostEvent, UpdateInPlace, Reassign, ReplaceProjections, ChangeLayout, Update
  <1>4. QED
    BY <1>1, <1>2, <1>3 DEF TypeInv, TypeOK, PlansInHand, lru

LEMMA InitType == Init => TypeInv
  BY NewLayerType, NoCallTyped
  DEF Init, TypeInv, TypeOK, PlansInHand, InHand, HoldsPlans, Versions

LEMMA NextType == TypeInv /\ [Next]_vars => TypeInv'
  <1> SUFFICES ASSUME TypeInv, [Next]_vars PROVE TypeInv'
    OBVIOUS
  <1>1. CASE HostEvent
    BY <1>1, HostEventType
  <1>2. CASE \E t \in Threads, s \in Shapes : Arrive(t, s)
    BY <1>2, ArriveType
  <1>3. ASSUME NEW t \in Threads, Step(t) PROVE TypeInv'
    BY <1>3, LookupType, TouchType, PrepareLayerType, ShapeType, StoreEvictType, RunType,
       LaunchType, RaiseType
    DEF Step, Prepare, Forward
  <1>4. CASE UNCHANGED vars
    BY <1>4 DEF vars, host, lru, TypeInv, TypeOK, PlansInHand
  <1>5. QED
    BY <1>1, <1>2, <1>3, <1>4 DEF Next

(* Every variable of the adapter keeps its type: in particular what        *)
(* _plans_for files and what a running call holds are plans for every      *)
(* layer, never a partial tuple.                                           *)
THEOREM TypeCorrect == Spec => []TypeOK
  <1>1. Spec => []TypeInv
    BY InitType, NextType, PTL DEF Spec
  <1>2. TypeInv => TypeOK
    BY DEF TypeInv
  <1>3. QED
    BY <1>1, <1>2, PTL

------------------------------------------------------------------------------
(* How a step changes its own call, and how little else: cited by the      *)
(* modules that prove more about the cache.                                *)

OthersStand(t) ==
  \A u \in Threads \ {t} :
    /\ call'[u].pc = call[u].pc /\ call'[u].layer = call[u].layer
    /\ call'[u].plans = call[u].plans /\ call'[u].shape = call[u].shape

(* What the three ways of changing a call do to its record.                *)

LEMMA GotoMoves ==
  ASSUME TypeInv, NEW t \in Threads, NEW pc, NEW l, Goto(t, pc, l)
  PROVE  /\ OthersStand(t)
         /\ call'[t].pc = pc /\ call'[t].layer = l
         /\ call'[t].plans = call[t].plans /\ call'[t].shape = call[t].shape
  <1> DEFINE c == [call[t] EXCEPT !.pc = pc, !.layer = l]
  <1>1. call \in [Threads -> CallRecord] /\ call' = [call EXCEPT ![t] = c]
    BY DEF Goto, TypeInv, TypeOK
  <1>2. c.pc = pc /\ c.layer = l /\ c.plans = call[t].plans /\ c.shape = call[t].shape
    BY <1>1 DEF CallRecord
  <1> HIDE DEF c
  <1>3. QED
    BY <1>1, <1>2 DEF OthersStand

LEMMA EndMoves ==
  ASSUME TypeInv, NEW t \in Threads, FailCall(t) \/ \E outcome \in Outcomes : End(t, outcome)
  PROVE  OthersStand(t) /\ call'[t].pc = "idle"
  <1>0. call \in [Threads -> CallRecord]
    BY DEF TypeInv, TypeOK
  <1>1. CASE FailCall(t)
    <2> DEFINE c == [NoCall EXCEPT !.shape = call[t].shape, !.cold = call[t].cold,
                       !.contended = call[t].contended, !.faulted = TRUE, !.outcome = "raised"]
    <2>1. call' = [call EXCEPT ![t] = c] /\ c.pc = "idle"
      BY <1>1 DEF FailCall, NoCall
    <2> HIDE DEF c
    <2>2. QED
      BY <1>0, <2>1 DEF OthersStand
  <1>2. CASE \E outcome \in Outcomes : End(t, outcome)
    <2>1. PICK outcome \in Outcomes : End(t, outcome)
      BY <1>2
    <2> DEFINE c == [call[t] EXCEPT !.pc = "idle", !.layer = 1, !.plans = NoPlans,
                                    !.used = {}, !.outcome = outcome]
    <2>2. call' = [call EXCEPT ![t] = c]
      BY <2>1 DEF End
    <2>3. c.pc = "idle"
      BY <1>0 DEF CallRecord
    <2> HIDE DEF c
    <2>4. QED
      BY <1>0, <2>2, <2>3 DEF OthersStand
  <1>3. QED
    BY <1>1, <1>2

(* What a step does to the other calls: a lookup that misses contends with *)
(* those under way.                                                        *)
LEMMA OthersKept ==
  ASSUME TypeInv, NEW t \in Threads, Step(t), NEW u \in Threads \ {t}
  PROVE  \/ call'[u] = call[u]
         \/ LookupMiss(t) /\ ~Idle(u) /\ call'[u] = [call[u] EXCEPT !.contended = TRUE]
  <1>1. call \in [Threads -> CallRecord]
    BY DEF TypeInv, TypeOK
  <1>2. CASE LookupMiss(t)
    BY <1>1, <1>2 DEF LookupMiss
  <1>3. CASE FailCall(t) \/ \E outcome : End(t, outcome)
    BY <1>1, <1>3 DEF FailCall, End
  <1>4. CASE \E pc, l : Goto(t, pc, l)
    BY <1>1, <1>4 DEF Goto
  <1>5. CASE LookupHit(t)
    BY <1>1, <1>5 DEF LookupHit
  <1>6. CASE Shape(t)
    BY <1>1, <1>6 DEF Shape
  <1>7. CASE Run(t)
    BY <1>1, <1>7 DEF Run
  <1>8. CASE EvictOldest(t)
    BY <1>3, <1>4, <1>8, PopCases
  <1>9. CASE \/ Clear(t) \/ Pack(t) \/ Rebind(t) \/ Bias(t) \/ Project(t) \/ Release(t)
             \/ Store(t) \/ EvictMore(t) \/ EvictDone(t) \/ Touch(t)
    BY <1>4, <1>9 DEF Clear, Pack, Rebind, Bias, Project, Release, Store, EvictMore, EvictDone,
       Touch, NextLayer
  <1>10. CASE \/ TouchEvicted(t) \/ ShapeRefused(t) \/ RunRefused(t)
              \/ Launch(t) \/ LaunchFallsBack(t) \/ LaunchForgotten(t) \/ LaunchFails(t)
              \/ AllocationFails(t)
    BY <1>3, <1>4, <1>10 DEF TouchEvicted, ShapeRefused, RunRefused, Launch,
       LaunchFallsBack, LaunchForgotten, LaunchFails, AllocationFails, Launched
  <1>11. QED
    BY <1>2, <1>5, <1>6, <1>7, <1>8, <1>9, <1>10 DEF Step, Prepare, Forward

LEMMA StepStands ==
  ASSUME TypeInv, NEW t \in Threads, Step(t)
  PROVE  OthersStand(t)
  <1> SUFFICES ASSUME NEW u \in Threads \ {t}
               PROVE  /\ call'[u].pc = call[u].pc /\ call'[u].layer = call[u].layer
                      /\ call'[u].plans = call[u].plans /\ call'[u].shape = call[u].shape
    BY DEF OthersStand
  <1>1. call[u] \in CallRecord
    BY DEF TypeInv, TypeOK
  <1>2. QED
    BY <1>1, OthersKept DEF CallRecord

LEMMA GotoKeeps ==
  ASSUME TypeInv, NEW t \in Threads, NEW pc, NEW l, Goto(t, pc, l)
  PROVE  /\ call'[t].pc = pc /\ call'[t].layer = l
         /\ call'[t].plans = call[t].plans /\ call'[t].used = call[t].used
         /\ call'[t].cold = call[t].cold /\ call'[t].contended = call[t].contended
         /\ call'[t].outcome = call[t].outcome
  <1> DEFINE c == [call[t] EXCEPT !.pc = pc, !.layer = l]
  <1>1. call \in [Threads -> CallRecord] /\ call' = [call EXCEPT ![t] = c]
    BY DEF Goto, TypeInv, TypeOK
  <1>2. /\ c.pc = pc /\ c.layer = l /\ c.plans = call[t].plans /\ c.used = call[t].used
        /\ c.cold = call[t].cold /\ c.contended = call[t].contended
        /\ c.outcome = call[t].outcome
    BY <1>1 DEF CallRecord
  <1> HIDE DEF c
  <1>3. QED
    BY <1>1, <1>2

LEMMA EndKeeps ==
  ASSUME TypeInv, NEW t \in Threads, NEW outcome, End(t, outcome)
  PROVE  /\ call'[t].pc = "idle" /\ call'[t].outcome = outcome /\ call'[t].shape = call[t].shape
         /\ call'[t].cold = call[t].cold /\ call'[t].contended = call[t].contended
  <1> DEFINE c == [call[t] EXCEPT !.pc = "idle", !.layer = 1, !.plans = NoPlans,
                                  !.used = {}, !.outcome = outcome]
  <1>1. call \in [Threads -> CallRecord] /\ call' = [call EXCEPT ![t] = c]
    BY DEF End, TypeInv, TypeOK
  <1>2. /\ c.pc = "idle" /\ c.outcome = outcome /\ c.shape = call[t].shape
        /\ c.cold = call[t].cold /\ c.contended = call[t].contended
    BY <1>1 DEF CallRecord
  <1> HIDE DEF c
  <1>3. QED
    BY <1>1, <1>2

LEMMA FailKeeps ==
  ASSUME TypeInv, NEW t \in Threads, FailCall(t)
  PROVE  call'[t].pc = "idle" /\ call'[t].outcome = "raised" /\ call'[t].faulted = TRUE
  <1> DEFINE c == [NoCall EXCEPT !.shape = call[t].shape, !.cold = call[t].cold,
                     !.contended = call[t].contended, !.faulted = TRUE, !.outcome = "raised"]
  <1>1. call \in [Threads -> CallRecord] /\ call' = [call EXCEPT ![t] = c]
    BY DEF FailCall, TypeInv, TypeOK
  <1>2. c.pc = "idle" /\ c.outcome = "raised" /\ c.faulted = TRUE
    BY DEF NoCall
  <1> HIDE DEF c
  <1>3. QED
    BY <1>1, <1>2

LEMMA OnLayerEffect ==
  ASSUME TypeInv, NEW t \in Threads, NEW b, OnLayer(t, b)
  PROVE  /\ layers'[call[t].layer] = b
         /\ \A m \in Layers : m # call[t].layer => layers'[m] = layers[m]
  BY HereTyped DEF OnLayer, TypeInv, TypeOK

LEMMA ShapeMoves ==
  ASSUME TypeInv, NEW t \in Threads, Shape(t)
  PROVE  call'[t].pc \in {"shape", "release"} /\ call'[t].shape = call[t].shape
  <1> DEFINE ps == [call[t].plans EXCEPT ![call[t].layer] = ShapePlan(ThisLayer(t), call[t].shape)]
             nl == IF call[t].layer < NumLayers THEN call[t].layer + 1 ELSE 1
             pc == IF call[t].layer < NumLayers THEN "shape" ELSE "release"
             c == [call[t] EXCEPT !.plans = ps, !.layer = nl, !.pc = pc]
  <1>1. call \in [Threads -> CallRecord] /\ call' = [call EXCEPT ![t] = c]
    BY DEF Shape, TypeInv, TypeOK
  <1> HIDE DEF ps, nl
  <1>2. c.pc = pc /\ c.shape = call[t].shape
    BY <1>1 DEF CallRecord
  <1> HIDE DEF c
  <1>3. QED
    BY <1>1, <1>2

LEMMA MissMoves ==
  ASSUME TypeInv, NEW t \in Threads, LookupMiss(t)
  PROVE  /\ call'[t].pc = "clear" /\ call'[t].layer = 1 /\ call'[t].cold = TRUE
         /\ call'[t].shape = call[t].shape /\ call'[t].used = call[t].used
  <1> DEFINE c == [call[t] EXCEPT !.pc = "clear", !.layer = 1, !.cold = TRUE]
  <1>1. c.pc = "clear" /\ c.layer = 1 /\ c.cold = TRUE /\ c.shape = call[t].shape /\ c.used = call[t].used
    BY DEF TypeInv, TypeOK, CallRecord
  <1>2. call'[t] = c
    BY DEF LookupMiss
  <1> HIDE DEF c
  <1>3. QED
    BY <1>1, <1>2

LEMMA RunMoves ==
  ASSUME TypeInv, NEW t \in Threads, Run(t)
  PROVE  call'[t].pc = "launch" /\ call'[t].shape = call[t].shape
  <1> DEFINE us == call[t].used
                     \cup {ThisLayer(t).weight, call[t].plans[call[t].layer].ver}
                     \cup IF BiasLayout = "none" THEN {} ELSE {ThisLayer(t).bias}
             c == [call[t] EXCEPT !.used = us, !.pc = "launch"]
  <1>1. call \in [Threads -> CallRecord] /\ call' = [call EXCEPT ![t] = c]
    BY DEF Run, TypeInv, TypeOK
  <1> HIDE DEF us
  <1>2. c.pc = "launch" /\ c.shape = call[t].shape
    BY <1>1 DEF CallRecord
  <1> HIDE DEF c
  <1>3. QED
    BY <1>1, <1>2

(* What becomes of the record of the call that steps.                      *)

LEMMA StepRuns ==
  ASSUME NEW t \in Threads, Step(t)
  PROVE  ~Idle(t)
  BY DEF Idle, Step, Prepare, Forward, LookupHit, LookupMiss, Touch,
     TouchEvicted, Clear, Pack, Rebind, Bias, Project, Shape, ShapeRefused,
     Release, Store, EvictOldest, EvictMore, EvictDone, Run, RunRefused, Launch, LaunchFallsBack,
     LaunchForgotten, LaunchFails, AllocationFails, Allocates, AllocatingSteps

LEMMA OwnKept ==
  ASSUME TypeInv, NEW t \in Threads, Step(t), call'[t].pc # "idle"
  PROVE  /\ ~Idle(t) /\ call'[t].contended = call[t].contended
         /\ call'[t].outcome = call[t].outcome
         /\ call'[t].pc # "lookup"
         /\ \/ LookupMiss(t)
            \/ call'[t].cold = call[t].cold /\ (Cold(t)' => Cold(t))
  <1>1. call \in [Threads -> CallRecord] /\ ~Idle(t)
    BY StepRuns DEF TypeInv, TypeOK
  <1>2. CASE LookupHit(t)
    BY <1>1, <1>2 DEF LookupHit, CallRecord, Cold, ColdSteps
  <1>3. CASE LookupMiss(t)
    BY <1>1, <1>3 DEF LookupMiss, CallRecord
  <1>4. CASE FailCall(t) \/ \E outcome : End(t, outcome)
    BY <1>4, EndKeeps, FailKeeps
  <1>5. ASSUME NEW pc, NEW l, Goto(t, pc, l), pc \notin {"idle", "lookup"},
               pc \in ColdSteps => Cold(t)
        PROVE  /\ call'[t].contended = call[t].contended /\ call'[t].cold = call[t].cold
               /\ call'[t].outcome = call[t].outcome
               /\ call'[t].pc # "lookup" /\ (Cold(t)' => Cold(t))
    BY <1>5, GotoKeeps DEF Cold
  <1>6. CASE \/ Clear(t) \/ Pack(t) \/ Rebind(t) \/ Bias(t) \/ Project(t) \/ Release(t)
             \/ Store(t) \/ EvictMore(t) \/ EvictDone(t) \/ Touch(t)
    <2>1. PICK pc, l : /\ Goto(t, pc, l) /\ pc \notin {"idle", "lookup"}
                       /\ pc \in ColdSteps => Cold(t)
      <3>1. CASE Touch(t) \/ EvictMore(t) \/ EvictDone(t)
        BY <3>1 DEF Touch, EvictMore, EvictDone, Cold, ColdSteps
      <3>2. CASE Project(t) \/ Release(t)
        BY <3>2 DEF Project, Release, NextLayer, Cold, ColdSteps
      <3>3. CASE Clear(t) \/ Pack(t) \/ Rebind(t) \/ Bias(t) \/ Store(t)
        BY <3>3 DEF Clear, Pack, Rebind, Bias, Store, Cold, ColdSteps
      <3>4. QED
        BY <1>6, <3>1, <3>2, <3>3
    <2>2. QED
      BY <1>1, <2>1, <1>5
  <1>7. CASE Launch(t) \/ LaunchFallsBack(t)
    <2>1. CASE Goto(t, "run", call[t].layer + 1)
      BY <1>1, <2>1, <1>5 DEF ColdSteps
    <2>2. QED
      BY <1>4, <1>7, <2>1 DEF Launch, LaunchFallsBack, Launched
  <1>8. CASE Shape(t)
    <2> DEFINE ps == [call[t].plans EXCEPT ![call[t].layer] = ShapePlan(ThisLayer(t), call[t].shape)]
               nl == IF call[t].layer < NumLayers THEN call[t].layer + 1 ELSE 1
               pc == IF call[t].layer < NumLayers THEN "shape" ELSE "release"
               c == [call[t] EXCEPT !.plans = ps, !.layer = nl, !.pc = pc]
    <2>1. call' = [call EXCEPT ![t] = c] /\ call[t].pc = "shape"
      BY <1>8 DEF Shape
    <2> HIDE DEF ps, nl
    <2>2. /\ c.pc = pc /\ c.cold = call[t].cold /\ c.contended = call[t].contended
          /\ c.outcome = call[t].outcome
      BY <1>1 DEF CallRecord
    <2> HIDE DEF c
    <2>3. QED
      BY <1>1, <2>1, <2>2 DEF Cold, ColdSteps
  <1>9. CASE Run(t)
    BY <1>1, <1>9 DEF Run, CallRecord, Cold, ColdSteps
  <1>10. CASE EvictOldest(t)
    <2>1. CASE Goto(t, "evict", 1)
      BY <1>1, <1>5, <1>10, <2>1, PopCases DEF Cold, ColdSteps
    <2>2. QED
      BY <1>4, <1>10, <2>1, PopCases
  <1>11. CASE \/ TouchEvicted(t) \/ ShapeRefused(t) \/ RunRefused(t)
              \/ LaunchForgotten(t) \/ LaunchFails(t) \/ AllocationFails(t)
    BY <1>4, <1>11 DEF TouchEvicted, ShapeRefused, RunRefused, LaunchForgotten,
       LaunchFails, AllocationFails
  <1>12. QED
    BY <1>2, <1>3, <1>6, <1>7, <1>8, <1>9, <1>10, <1>11 DEF Step, Prepare, Forward

(* A step after which its call is over raised, or ended it.                *)
LEMMA StepEnds ==
  ASSUME TypeInv, NEW t \in Threads, Step(t), call'[t].pc = "idle"
  PROVE  /\ FailCall(t) \/ \E outcome \in Outcomes : End(t, outcome)
         /\ \/ AllocationFails(t) \/ LaunchFails(t) \/ RunRefused(t)
            \/ Launch(t) \/ LaunchFallsBack(t)
            \/ TouchEvicted(t) \/ ShapeRefused(t) \/ LaunchForgotten(t)
            \/ EvictOldest(t) /\ order = <<>> /\ End(t, "raised")
  <1>1. call \in [Threads -> CallRecord]
    BY DEF TypeInv, TypeOK
  <1>2. ~ \/ Clear(t) \/ Pack(t) \/ Rebind(t) \/ Bias(t) \/ Project(t) \/ Release(t)
          \/ Store(t) \/ EvictMore(t) \/ EvictDone(t) \/ Touch(t)
    BY GotoKeeps DEF Clear, Pack, Rebind, Bias, Project, Release, Store, EvictMore, EvictDone,
       Touch, NextLayer
  <1>3. ~LookupHit(t) /\ ~LookupMiss(t) /\ ~Run(t)
         /\ (EvictOldest(t) => order = <<>> /\ End(t, "raised"))
    <2>1. ~LookupHit(t) /\ ~Run(t)
      BY <1>1 DEF LookupHit, Run, CallRecord
    <2>2. ASSUME LookupMiss(t) PROVE FALSE
      <3> DEFINE c == [call[t] EXCEPT !.pc = "clear", !.layer = 1, !.cold = TRUE]
      <3>1. c.pc = "clear"
        BY <1>1 DEF CallRecord
      <3>2. call'[t] = c
        BY <2>2 DEF LookupMiss
      <3> HIDE DEF c
      <3>3. QED
        BY <3>1, <3>2
    <2>3. EvictOldest(t) => order = <<>> /\ End(t, "raised")
      BY PopCases, GotoKeeps
    <2>4. QED
      BY <2>1, <2>2, <2>3
  <1>4. ~Shape(t)
    <2> DEFINE ps == [call[t].plans EXCEPT ![call[t].layer] = ShapePlan(ThisLayer(t), call[t].shape)]
               nl == IF call[t].layer < NumLayers THEN call[t].layer + 1 ELSE 1
               pc == IF call[t].layer < NumLayers THEN "shape" ELSE "release"
               c == [call[t] EXCEPT !.plans = ps, !.layer = nl, !.pc = pc]
    <2> SUFFICES ASSUME Shape(t) PROVE FALSE
      OBVIOUS
    <2>1. call' = [call EXCEPT ![t] = c]
      BY DEF Shape
    <2> HIDE DEF ps, nl
    <2>2. c.pc = pc
      BY <1>1 DEF CallRecord
    <2> HIDE DEF c
    <2>3. QED
      BY <1>1, <2>1, <2>2
  <1>5. \/ AllocationFails(t) \/ LaunchFails(t) \/ RunRefused(t)
        \/ Launch(t) \/ LaunchFallsBack(t)
        \/ TouchEvicted(t) \/ ShapeRefused(t) \/ LaunchForgotten(t)
        \/ EvictOldest(t) /\ order = <<>> /\ End(t, "raised")
    BY <1>2, <1>3, <1>4 DEF Step, Prepare, Forward
  <1>6. FailCall(t) \/ \E outcome \in Outcomes : End(t, outcome)
    <2>1. ~Goto(t, "run", call[t].layer + 1)
      BY GotoKeeps
    <2>2. QED
      BY <1>5, <2>1 DEF AllocationFails, LaunchFails, RunRefused, Launch,
         LaunchFallsBack, TouchEvicted, ShapeRefused, LaunchForgotten, Launched, Outcomes
  <1>7. QED
    BY <1>5, <1>6

LEMMA StepHost ==
  ASSUME NEW t \in Threads, Step(t)
  PROVE  source' = source /\ version' = version /\ layoutFits' = layoutFits
  BY DEF host, Step, Prepare, Forward, LookupHit, LookupMiss, Touch,
     TouchEvicted, Clear, Pack, Rebind, Bias, Project, Shape, ShapeRefused,
     Release, Store, EvictOldest, EvictMore, EvictDone, Run, RunRefused, Launch, LaunchFallsBack,
     LaunchForgotten, LaunchFails, AllocationFails

(* The layer a step works on, if it works on one.                          *)
LEMMA StepOnLayer ==
  ASSUME NEW t \in Threads, Step(t)
  PROVE  \/ layers' = layers
         \/ \E b \in {ClearInferenceCache(ThisLayer(t)), PackWeights(ThisLayer(t), source, t),
                      RebindWeights(ThisLayer(t), t), PackBiases(ThisLayer(t), source),
                      ProjectPositions(ThisLayer(t), source), ReleaseWorkspace(ThisLayer(t)),
                      MemoizeConfig(ThisLayer(t), LaunchRegime(t)),
                      RecordFailure(ThisLayer(t), LaunchRegime(t))} : OnLayer(t, b)
         \/ Shape(t)
  <1>1. CASE Clear(t) \/ Pack(t) \/ Rebind(t) \/ Bias(t) \/ Project(t) \/ Release(t)
    BY <1>1 DEF Clear, Pack, Rebind, Bias, Project, Release
  <1>2. CASE Run(t) \/ LaunchFallsBack(t) \/ LaunchFails(t)
    BY <1>2 DEF Run, LaunchFallsBack, LaunchFails, LaunchRegime
  <1>3. QED
    BY <1>1, <1>2 DEF Step, Prepare, Forward, LookupHit, LookupMiss, Touch, TouchEvicted,
       ShapeRefused, Store, EvictOldest, EvictMore, EvictDone, RunRefused, Launch,
       LaunchForgotten, AllocationFails

(* What the cache holds after a step, and where a call's plans come from.  *)
LEMMA StepPlans ==
  ASSUME TypeInv, NEW t \in Threads, Step(t)
  PROVE  /\ \/ plans' = plans
            \/ Cold(t) /\ HoldsPlans \cap {call[t].pc} # {} /\
               \A s \in Shapes : plans'[s] \in {plans[s], call[t].plans, None}
         /\ call'[t].pc \in HoldsPlans =>
              \/ LookupHit(t)
              \/ Shape(t)
              \/ call[t].pc \in HoldsPlans /\ call'[t].plans = call[t].plans
  <1>1. call \in [Threads -> CallRecord] /\ plans \in [Shapes -> [Layers -> Plan] \cup {None}]
    BY DEF TypeInv, TypeOK
  <1>2. \/ plans' = plans
        \/ Cold(t) /\ HoldsPlans \cap {call[t].pc} # {} /\
           \A s \in Shapes : plans'[s] \in {plans[s], call[t].plans, None}
    <2>1. CASE Store(t)
      BY <1>1, <2>1 DEF Store, Cold, ColdSteps, HoldsPlans
    <2>2. CASE EvictOldest(t)
      BY <1>1, <2>2, PopCases DEF lru, Cold, ColdSteps, HoldsPlans
    <2>3. CASE ~Store(t) /\ ~EvictOldest(t)
      BY <2>3 DEF lru, Step, Prepare, Forward, LookupHit, LookupMiss, Touch,
         TouchEvicted, Clear, Pack, Rebind, Bias, Project, Shape, ShapeRefused,
         Release, EvictMore, EvictDone, Run, RunRefused, Launch, LaunchFallsBack,
         LaunchForgotten, LaunchFails, AllocationFails
    <2>4. QED
      BY <2>1, <2>2, <2>3
  <1>3. ASSUME call'[t].pc \in HoldsPlans, ~LookupHit(t), ~Shape(t)
        PROVE  call[t].pc \in HoldsPlans /\ call'[t].plans = call[t].plans
    <2>1. call'[t].pc # "idle"
      BY <1>3 DEF HoldsPlans
    <2>2. ~LookupMiss(t)
      <3> SUFFICES ASSUME LookupMiss(t) PROVE FALSE
        OBVIOUS
      <3> DEFINE c == [call[t] EXCEPT !.pc = "clear", !.layer = 1, !.cold = TRUE]
      <3>1. c.pc = "clear"
        BY <1>1 DEF CallRecord
      <3>2. call'[t] = c
        BY DEF LookupMiss
      <3> HIDE DEF c
      <3>3. QED
        BY <1>3, <3>1, <3>2 DEF HoldsPlans
    <2>3. CASE FailCall(t) \/ \E outcome : End(t, outcome)
      BY <2>1, <2>3, EndKeeps, FailKeeps
    <2>4. CASE \E pc \in {"clear", "pack", "rebind", "bias", "project", "shape"} : \E l : Goto(t, pc, l)
      BY <1>3, <2>4, GotoKeeps DEF HoldsPlans
    <2>5. ASSUME call[t].pc \in HoldsPlans, NEW pc, NEW l, Goto(t, pc, l)
          PROVE  call'[t].plans = call[t].plans
      BY <2>5, GotoKeeps
    <2>6. CASE Clear(t) \/ Pack(t) \/ Rebind(t) \/ Bias(t) \/ Project(t)
      BY <2>4, <2>6 DEF Clear, Pack, Rebind, Bias, Project, NextLayer
    <2>7. CASE Touch(t) \/ Release(t) \/ Store(t) \/ EvictMore(t) \/ EvictDone(t)
      <3>1. call[t].pc \in HoldsPlans
        BY <2>7 DEF Touch, Release, Store, EvictMore, EvictDone, HoldsPlans
      <3>2. \E pc, l : Goto(t, pc, l)
        BY <2>7 DEF Touch, Release, Store, EvictMore, EvictDone, NextLayer
      <3>3. QED
        BY <3>1, <3>2, <2>5
    <2>8. CASE Launch(t) \/ LaunchFallsBack(t)
      <3>1. call[t].pc \in HoldsPlans
        BY <2>8 DEF Launch, LaunchFallsBack, HoldsPlans
      <3>2. CASE Goto(t, "run", call[t].layer + 1)
        BY <3>1, <3>2, <2>5
      <3>3. QED
        BY <2>3, <2>8, <3>1, <3>2 DEF Launch, LaunchFallsBack, Launched
    <2>9. CASE Run(t)
      <3> DEFINE us == call[t].used
                         \cup {ThisLayer(t).weight, call[t].plans[call[t].layer].ver}
                         \cup IF BiasLayout = "none" THEN {} ELSE {ThisLayer(t).bias}
                 c == [call[t] EXCEPT !.used = us, !.pc = "launch"]
      <3>1. call' = [call EXCEPT ![t] = c] /\ call[t].pc = "run"
        BY <2>9 DEF Run
      <3> HIDE DEF us
      <3>2. c.plans = call[t].plans
        BY <1>1 DEF CallRecord
      <3> HIDE DEF c
      <3>3. QED
        BY <1>1, <3>1, <3>2 DEF HoldsPlans
    <2>10. CASE EvictOldest(t)
      BY <2>3, <2>5, <2>10, PopCases DEF HoldsPlans
    <2>11. QED
      BY <1>3, <2>2, <2>3, <2>6, <2>7, <2>8, <2>9, <2>10 DEF Step, Prepare, Forward, TouchEvicted,
         ShapeRefused, RunRefused, LaunchForgotten, LaunchFails, AllocationFails
  <1>4. QED
    BY <1>2, <1>3

------------------------------------------------------------------------------
(***************************************************************************)
(* The LRU of an encoder is well formed in every reachable state, for      *)
(* every number of callers, lengths and places: LruConsistent is inductive *)
(* together with TypeInv.                                                  *)
(***************************************************************************)

------------------------------------------------------------------------------
(* The sequences the LRU goes through.                                     *)

Distinct(o) == \A i, j \in DOMAIN o : o[i] = o[j] => i = j

Occurs(o, s) == \E i \in DOMAIN o : o[i] = s

(* The key a hit moves is listed once before and after, no other key is    *)
(* lost, and none is gained.                                               *)
LEMMA MovedToEndKeeps ==
  ASSUME order \in Seq(Shapes), NEW s \in Shapes, Distinct(order), Held(s)
  PROVE  /\ Len(MovedToEnd(s)) = Len(order)
         /\ Distinct(MovedToEnd(s))
         /\ \A x \in Shapes : Occurs(MovedToEnd(s), x) <=> Occurs(order, x)
  <1> DEFINE n == Len(order)
             p == Position(s)
             m == MovedToEnd(s)
  <1>1. n \in Nat /\ DOMAIN order = 1..n /\ p \in 1..n /\ order[p] = s
    BY DEF Held, Position
  <1>2. m = [i \in 1..n |-> IF i < p THEN order[i] ELSE IF i < n THEN order[i + 1] ELSE s]
    BY <1>1 DEF MovedToEnd
  <1> HIDE DEF n, p, m
  <1>3. \A i \in 1..n : order[i] \in Shapes
    BY <1>1 DEF n
  <1>4. m \in [1..n -> Shapes]
    BY <1>1, <1>2, <1>3
  <1>5. m \in Seq(Shapes) /\ Len(m) = n /\ DOMAIN m = 1..n
    BY <1>1, <1>4
  <1> DEFINE from(i) == IF i < p THEN i ELSE IF i < n THEN i + 1 ELSE p
  <1>6. \A i \in 1..n : from(i) \in 1..n /\ m[i] = order[from(i)]
    BY <1>1, <1>2
  <1>7. \A i, j \in 1..n : from(i) = from(j) => i = j
    BY <1>1
  <1>8. \A k \in 1..n : \E i \in 1..n : from(i) = k
    <2> SUFFICES ASSUME NEW k \in 1..n PROVE \E i \in 1..n : from(i) = k
      OBVIOUS
    <2>1. CASE k < p
      <3>1. from(k) = k
        BY <2>1
      <3>2. QED
        BY <3>1
    <2>2. CASE k = p
      <3>1. n \in 1..n /\ from(n) = p
        BY <1>1
      <3>2. QED
        BY <2>2, <3>1
    <2>3. CASE k > p
      <3>1. k - 1 \in 1..n /\ from(k - 1) = k
        BY <1>1, <2>3
      <3>2. QED
        BY <3>1
    <2>4. QED
      BY <1>1, <2>1, <2>2, <2>3
  <1> HIDE DEF from
  <1>9. Distinct(m)
    <2>1. \A i, j \in 1..n : order[i] = order[j] => i = j
      BY <1>1 DEF Distinct
    <2>2. QED
      BY <1>5, <1>6, <1>7, <2>1 DEF Distinct
  <1>10. \A x \in Shapes : Occurs(m, x) <=> Occurs(order, x)
    <2> SUFFICES ASSUME NEW x \in Shapes PROVE Occurs(m, x) <=> Occurs(order, x)
      OBVIOUS
    <2>1. Occurs(m, x) => Occurs(order, x)
      BY <1>1, <1>5, <1>6 DEF Occurs
    <2>2. ASSUME Occurs(order, x) PROVE Occurs(m, x)
      <3>1. PICK k \in 1..n : order[k] = x
        BY <1>1, <2>2 DEF Occurs
      <3>2. PICK i \in 1..n : from(i) = k
        BY <1>8
      <3>3. QED
        BY <1>5, <1>6, <3>1, <3>2 DEF Occurs
    <2>3. QED
      BY <2>1, <2>2
  <1>11. QED
    BY <1>5, <1>9, <1>10 DEF n, m

LEMMA AppendAddsOne ==
  ASSUME NEW o \in Seq(Shapes), NEW s \in Shapes, Distinct(o), ~Occurs(o, s)
  PROVE  /\ Distinct(Append(o, s))
         /\ \A x \in Shapes : Occurs(Append(o, s), x) <=> (x = s \/ Occurs(o, x))
  <1> DEFINE a == Append(o, s)
  <1>1. /\ Len(o) \in Nat /\ DOMAIN o = 1..Len(o) /\ DOMAIN a = 1..(Len(o) + 1)
        /\ a[Len(o) + 1] = s
        /\ \A i \in 1..Len(o) : a[i] = o[i]
    OBVIOUS
  <1> HIDE DEF a
  <1>2. Distinct(a)
    <2> SUFFICES ASSUME NEW i \in DOMAIN a, NEW j \in DOMAIN a, a[i] = a[j] PROVE i = j
      BY DEF Distinct
    <2>1. i \in 1..Len(o) \/ i = Len(o) + 1
      BY <1>1
    <2>2. j \in 1..Len(o) \/ j = Len(o) + 1
      BY <1>1
    <2>3. QED
      BY <1>1, <2>1, <2>2 DEF Distinct, Occurs
  <1>3. ASSUME NEW x \in Shapes PROVE Occurs(a, x) <=> (x = s \/ Occurs(o, x))
    <2>1. Occurs(a, x) => x = s \/ Occurs(o, x)
      BY <1>1 DEF Occurs
    <2>2. x = s => Occurs(a, x)
      <3>1. Len(o) + 1 \in DOMAIN a
        BY <1>1
      <3>2. QED
        BY <1>1, <3>1 DEF Occurs
    <2>3. Occurs(o, x) => Occurs(a, x)
      BY <1>1 DEF Occurs
    <2>4. QED
      BY <2>1, <2>2, <2>3
  <1>4. QED
    BY <1>2, <1>3 DEF a

LEMMA TailDropsHead ==
  ASSUME NEW o \in Seq(Shapes), o # <<>>, Distinct(o)
  PROVE  /\ Distinct(Tail(o))
         /\ \A x \in Shapes : Occurs(Tail(o), x) <=> (Occurs(o, x) /\ x # Head(o))
  <1> DEFINE r == Tail(o)
  <1>1. /\ Len(o) \in Nat \ {0} /\ DOMAIN o = 1..Len(o) /\ DOMAIN r = 1..(Len(o) - 1)
        /\ Head(o) = o[1]
        /\ \A i \in 1..(Len(o) - 1) : r[i] = o[i + 1]
    OBVIOUS
  <1> HIDE DEF r
  <1>2. Distinct(r)
    BY <1>1 DEF Distinct
  <1>3. ASSUME NEW x \in Shapes PROVE Occurs(r, x) <=> (Occurs(o, x) /\ x # Head(o))
    <2>1. ASSUME Occurs(r, x) PROVE Occurs(o, x) /\ x # Head(o)
      <3>1. PICK i \in 1..(Len(o) - 1) : r[i] = x
        BY <1>1, <2>1 DEF Occurs
      <3>2. i + 1 \in 1..Len(o) /\ o[i + 1] = x /\ i + 1 # 1
        BY <1>1, <3>1
      <3>3. QED
        BY <1>1, <3>2 DEF Occurs, Distinct
    <2>2. ASSUME Occurs(o, x), x # Head(o) PROVE Occurs(r, x)
      <3>1. PICK i \in 1..Len(o) : o[i] = x
        BY <1>1, <2>2 DEF Occurs
      <3>2. i - 1 \in 1..(Len(o) - 1) /\ r[i - 1] = o[(i - 1) + 1] /\ (i - 1) + 1 = i
        BY <1>1, <2>2, <3>1
      <3>3. QED
        BY <1>1, <3>1, <3>2 DEF Occurs
    <2>3. QED
      BY <2>1, <2>2
  <1>4. QED
    BY <1>2, <1>3 DEF r

------------------------------------------------------------------------------
(* The parts of LruConsistent, and the steps that disturb them.            *)

LEMMA LruParts ==
  LruConsistent <=>
    /\ Distinct(order)
    /\ \A s \in Shapes : plans[s] # None <=> Occurs(order, s)
    /\ (\A t \in Threads : call[t].pc \notin {"evict", "pop"}) => Len(order) <= MaxCachedShapes
  BY DEF LruConsistent, Distinct, Occurs, Held

LEMMA LruPartsPrimed ==
  LruConsistent' <=>
    /\ Distinct(order')
    /\ \A s \in Shapes : plans'[s] # None <=> Occurs(order', s)
    /\ (\A t \in Threads : call'[t].pc \notin {"evict", "pop"}) => Len(order') <= MaxCachedShapes
  BY DEF LruConsistent, Distinct, Occurs, Held

(* A step that neither touches the LRU nor ends an eviction.               *)
LEMMA LruUntouched ==
  ASSUME LruConsistent, UNCHANGED lru,
         \A u \in Threads : call[u].pc \in {"evict", "pop"} => call'[u].pc \in {"evict", "pop"}
  PROVE  LruConsistent'
  BY LruParts, LruPartsPrimed DEF lru

(* A step of t that is not evicting leaves evictions under way.            *)
LEMMA EvictionsGoOn ==
  ASSUME TypeInv, NEW t \in Threads, call[t].pc \notin {"evict", "pop"},
         \/ \E pc \in Steps, l \in Nat : Goto(t, pc, l)
         \/ \E outcome \in Outcomes : End(t, outcome)
         \/ FailCall(t)
  PROVE  \A u \in Threads : call[u].pc \in {"evict", "pop"} => call'[u].pc \in {"evict", "pop"}
  <1> call \in [Threads -> CallRecord]
    BY DEF TypeInv, TypeOK
  <1>1. \A u \in Threads \ {t} : call'[u] = call[u]
    <2>1. CASE \E pc \in Steps, l \in Nat : Goto(t, pc, l)
      BY <2>1 DEF Goto
    <2>2. CASE \E outcome \in Outcomes : End(t, outcome)
      BY <2>2 DEF End
    <2>3. CASE FailCall(t)
      BY <2>3 DEF FailCall
    <2>4. QED
      BY <2>1, <2>2, <2>3
  <1>2. QED
    BY <1>1

LEMMA TouchLru ==
  ASSUME TypeInv, LruConsistent, NEW t \in Threads, Touch(t)
  PROVE  LruConsistent'
  <1> DEFINE s == call[t].shape
  <1>1. s \in Shapes /\ order \in Seq(Shapes) /\ Held(s) /\ Distinct(order)
    BY LruParts DEF Touch, TypeInv, TypeOK, PlansInHand, InHand
  <1>2. order' = MovedToEnd(s) /\ UNCHANGED plans
    BY DEF Touch
  <1>3. /\ Len(order') = Len(order) /\ Distinct(order')
        /\ \A x \in Shapes : Occurs(order', x) <=> Occurs(order, x)
    BY <1>1, <1>2, MovedToEndKeeps
  <1>4. \A u \in Threads : call[u].pc \in {"evict", "pop"} => call'[u].pc \in {"evict", "pop"}
    BY EvictionsGoOn DEF Touch, Steps
  <1>5. QED
    BY <1>2, <1>3, <1>4, LruParts, LruPartsPrimed

LEMMA StoreLru ==
  ASSUME TypeInv, LruConsistent, NEW t \in Threads, Store(t)
  PROVE  LruConsistent'
  <1> DEFINE s == call[t].shape
  <1>1. /\ s \in Shapes /\ order \in Seq(Shapes) /\ Distinct(order)
        /\ call[t].plans # None /\ plans \in [Shapes -> [Layers -> Plan] \cup {None}]
    BY LruParts, NoneIsNoPlans DEF Store, TypeInv, TypeOK, PlansInHand, InHand, HoldsPlans
  <1>2. plans' = [plans EXCEPT ![s] = call[t].plans]
    BY DEF Store
  <1>3. /\ Distinct(order')
        /\ \A x \in Shapes : Occurs(order', x) <=> (x = s \/ Occurs(order, x))
    <2>1. CASE Held(s)
      BY <1>1, <2>1 DEF Store, WithKey, Held, Occurs
    <2>2. CASE ~Held(s)
      <3>1. order' = Append(order, s) /\ ~Occurs(order, s)
        BY <2>2 DEF Store, WithKey, Held, Occurs
      <3>2. QED
        BY <1>1, <3>1, AppendAddsOne
    <2>3. QED
      BY <2>1, <2>2
  <1>4. \A x \in Shapes : plans'[x] # None <=> Occurs(order', x)
    BY <1>1, <1>2, <1>3, LruParts
  <1>5. call'[t].pc = "evict"
    BY DEF Store, Goto, TypeInv, TypeOK, CallRecord
  <1>6. QED
    BY <1>3, <1>4, <1>5, LruPartsPrimed

LEMMA EvictLru ==
  ASSUME TypeInv, LruConsistent, NEW t \in Threads, EvictOldest(t)
  PROVE  LruConsistent'
  <1>1. CASE order = <<>> /\ UNCHANGED lru
    <2>1. Len(order') <= MaxCachedShapes /\ UNCHANGED <<order, plans>>
      BY <1>1, EncoderAssumption DEF lru
    <2>2. QED
      BY <2>1, LruParts, LruPartsPrimed
  <1>2. CASE /\ order # <<>> /\ Goto(t, "evict", 1)
             /\ plans' = [plans EXCEPT ![Head(order)] = None] /\ order' = Tail(order)
    <2>1. order \in Seq(Shapes) /\ order # <<>> /\ Distinct(order)
      BY <1>2, LruParts DEF TypeInv, TypeOK
    <2>2. /\ call'[t].pc = "evict"
          /\ plans \in [Shapes -> [Layers -> Plan] \cup {None}]
      BY <1>2, GotoKeeps DEF TypeInv, TypeOK
    <2>3. /\ Distinct(order')
          /\ \A x \in Shapes : Occurs(order', x) <=> (Occurs(order, x) /\ x # Head(order))
      BY <1>2, <2>1, TailDropsHead
    <2>4. \A x \in Shapes : plans'[x] # None <=> Occurs(order', x)
      BY <1>2, <2>2, <2>3, LruParts
    <2>5. QED
      BY <2>2, <2>3, <2>4, LruPartsPrimed
  <1>3. QED
    BY <1>1, <1>2, PopCases

LEMMA EvictDoneLru ==
  ASSUME TypeInv, LruConsistent, NEW t \in Threads, EvictMore(t) \/ EvictDone(t)
  PROVE  LruConsistent'
  <1>1. CASE EvictMore(t)
    <2>1. call'[t].pc = "pop" /\ UNCHANGED <<order, plans>>
      BY <1>1, GotoMoves DEF EvictMore, lru
    <2>2. QED
      BY <2>1, LruParts, LruPartsPrimed
  <1>2. CASE EvictDone(t)
    <2>1. Len(order') <= MaxCachedShapes /\ UNCHANGED <<order, plans>>
      BY <1>2, EncoderAssumption DEF EvictDone, OverCapacity, TypeInv, TypeOK, lru
    <2>2. QED
      BY <2>1, LruParts, LruPartsPrimed
  <1>3. QED
    BY <1>1, <1>2

------------------------------------------------------------------------------

(* Every other step leaves the LRU alone.                                  *)
LEMMA OtherStepsLru ==
  ASSUME TypeInv, LruConsistent, NEW t \in Threads,
         \/ LookupHit(t) \/ LookupMiss(t) \/ TouchEvicted(t)
         \/ Clear(t) \/ Pack(t) \/ Rebind(t) \/ Bias(t) \/ Project(t)
         \/ Shape(t) \/ ShapeRefused(t) \/ Release(t)
         \/ Forward(t) \/ AllocationFails(t)
  PROVE  LruConsistent'
  <1> call \in [Threads -> CallRecord]
    BY DEF TypeInv, TypeOK
  <1> USE DEF Steps, ColdSteps, Outcomes
  <1>1. UNCHANGED lru
    BY DEF LookupHit, LookupMiss, TouchEvicted, Clear, Pack, Rebind, Bias, Project,
           Shape, ShapeRefused, Release, Forward, Run, RunRefused, Launch, LaunchFallsBack,
           LaunchForgotten, LaunchFails, AllocationFails
  <1>2. \A u \in Threads : call[u].pc \in {"evict", "pop"} => call'[u].pc \in {"evict", "pop"}
    <2>1. CASE LookupHit(t) \/ LookupMiss(t)
      <3>1. call[t].pc \notin {"evict", "pop"}
        BY <2>1 DEF LookupHit, LookupMiss
      <3>2. ASSUME NEW u \in Threads \ {t} PROVE call'[u].pc = call[u].pc
        BY <2>1 DEF LookupHit, LookupMiss, CallRecord
      <3>3. QED
        BY <3>1, <3>2
    <2>2. CASE Shape(t) \/ Run(t)
      <3>1. call[t].pc \notin {"evict", "pop"} /\ \A u \in Threads \ {t} : call'[u] = call[u]
        BY <2>2 DEF Shape, Run
      <3>2. QED
        BY <3>1
    <2>3. CASE \/ TouchEvicted(t) \/ ShapeRefused(t) \/ RunRefused(t)
               \/ LaunchForgotten(t) \/ LaunchFails(t) \/ AllocationFails(t)
      BY <2>3, EvictionsGoOn
      DEF TouchEvicted, ShapeRefused, RunRefused, LaunchForgotten, LaunchFails,
          AllocationFails, Allocates, AllocatingSteps
    <2>4. CASE Clear(t) \/ Pack(t) \/ Rebind(t) \/ Bias(t)
      <3>1. call[t].layer \in Nat /\ call[t].pc \notin {"evict", "pop"}
        BY <2>4, FirstLayer DEF Clear, Pack, Rebind, Bias, CallRecord
      <3>2. \E pc \in Steps : Goto(t, pc, call[t].layer)
        BY <2>4 DEF Clear, Pack, Rebind, Bias
      <3>3. QED
        BY <3>1, <3>2, EvictionsGoOn
    <2>5. CASE Project(t) \/ Release(t) \/ Launch(t) \/ LaunchFallsBack(t)
      <3>0. call[t].layer \in Nat
        BY FirstLayer DEF CallRecord
      <3>1. call[t].layer \in Nat /\ call[t].layer + 1 \in Nat /\ call[t].pc \notin {"evict", "pop"}
        BY <2>5, <3>0 DEF Project, Release, Launch, LaunchFallsBack
      <3>2. \/ \E pc \in Steps, l \in Nat : Goto(t, pc, l)
            \/ \E outcome \in Outcomes : End(t, outcome)
        BY <2>5, <3>1 DEF Project, Release, Launch, LaunchFallsBack, NextLayer, Launched
      <3>3. QED
        BY <3>1, <3>2, EvictionsGoOn
    <2>6. QED
      BY <2>1, <2>2, <2>3, <2>4, <2>5 DEF Forward
  <1>3. QED
    BY <1>1, <1>2, LruUntouched

LEMMA ArriveLru ==
  ASSUME TypeInv, LruConsistent, NEW t \in Threads, NEW s \in Shapes, Arrive(t, s)
  PROVE  LruConsistent'
  <1>1. \A u \in Threads : call[u].pc \in {"evict", "pop"} => call'[u].pc \in {"evict", "pop"}
    BY DEF Arrive, Idle, TypeInv, TypeOK
  <1>2. QED
    BY <1>1, LruUntouched DEF Arrive

LEMMA HostEventLru ==
  ASSUME LruConsistent, HostEvent
  PROVE  LruConsistent'
  <1>1. UNCHANGED <<lru, call>>
    BY DEF HostEvent, UpdateInPlace, Reassign, ReplaceProjections, ChangeLayout, Update
  <1>2. QED
    BY <1>1, LruUntouched

LEMMA InitLru == Init => LruConsistent
  <1>1. ASSUME Init PROVE order = <<>> /\ plans = [s \in Shapes |-> None] /\ Len(order) = 0
    BY <1>1 DEF Init
  <1>2. QED
    BY <1>1, EncoderAssumption, LruParts DEF Distinct, Occurs

LEMMA NextLru == TypeInv /\ LruConsistent /\ [Next]_vars => LruConsistent'
  <1> SUFFICES ASSUME TypeInv, LruConsistent, [Next]_vars PROVE LruConsistent'
    OBVIOUS
  <1>1. CASE HostEvent
    BY <1>1, HostEventLru
  <1>2. CASE \E t \in Threads, s \in Shapes : Arrive(t, s)
    BY <1>2, ArriveLru
  <1>3. ASSUME NEW t \in Threads, Step(t) PROVE LruConsistent'
    BY <1>3, TouchLru, StoreLru, EvictLru, EvictDoneLru, OtherStepsLru DEF Step, Prepare
  <1>4. CASE UNCHANGED vars
    BY <1>4, LruUntouched DEF vars
  <1>5. QED
    BY <1>1, <1>2, <1>3, <1>4 DEF Next

(* Whatever callers interleave, fail or find evicted, _plans_for's         *)
(* OrderedDict lists no length twice, lists exactly the lengths that have  *)
(* plans, and holds at most MAX_CACHED_SHAPES of them once nobody evicts.  *)
THEOREM LruAlwaysConsistent == Spec => []LruConsistent
  <1>1. Spec => []TypeInv
    BY InitType, NextType, PTL DEF Spec
  <1>2. QED
    BY <1>1, InitLru, NextLru, PTL DEF Spec

------------------------------------------------------------------------------
(* A single caller. From the store of a cold call or the move of a warm    *)
(* one to the end of the call its length is the last of the LRU: a length  *)
(* that is missing is not listed, so the store appends it.                 *)

LastIs(s) == Len(order) > 0 /\ order[Len(order)] = s

ServedLast(t) ==
  /\ Cold(t) /\ call[t].pc \notin {"evict", "pop"} => plans[call[t].shape] = None
  /\ call[t].pc \in {"evict", "pop", "run", "launch"} => LastIs(call[t].shape)
  /\ call[t].pc = "pop" => OverCapacity
  /\ Idle(t) /\ call[t].outcome \in {"exact", "inexact"} => LastIs(call[t].shape)

LastInv == \A t \in Threads : Threads = {t} => ServedLast(t)

LEMMA PrepareLast ==
  ASSUME TypeInv, NEW t \in Threads, ServedLast(t),
         Clear(t) \/ Pack(t) \/ Rebind(t) \/ Bias(t) \/ Project(t) \/ Shape(t) \/ Release(t)
  PROVE  ServedLast(t)'
  <1>1. plans' = plans /\ Cold(t) /\ call[t].pc \notin {"evict", "pop"}
    BY DEF Clear, Pack, Rebind, Bias, Project, Shape, Release, lru, Cold, ColdSteps
  <1>2. /\ call'[t].pc \in {"clear", "pack", "rebind", "bias", "project", "shape", "release", "store"}
        /\ call'[t].shape = call[t].shape
    <2>1. CASE Shape(t)
      BY <2>1, ShapeMoves
    <2>2. CASE ~Shape(t)
      <3>1. PICK pc \in {"clear", "pack", "rebind", "bias", "project", "shape", "release", "store"} : \E l :
              Goto(t, pc, l)
        BY <2>2 DEF Clear, Pack, Rebind, Bias, Project, Release, NextLayer
      <3>2. QED
        BY <3>1, GotoMoves
    <2>3. QED
      BY <2>1, <2>2
  <1>3. QED
    BY <1>1, <1>2 DEF ServedLast, Idle

LEMMA StoreLast ==
  ASSUME TypeInv, LruConsistent, NEW t \in Threads, ServedLast(t),
         Store(t) \/ EvictOldest(t) \/ EvictMore(t) \/ EvictDone(t) \/ Touch(t)
  PROVE  ServedLast(t)'
  <1> DEFINE s == call[t].shape
  <1>1. order \in Seq(Shapes) /\ s \in Shapes /\ Len(order) \in Nat /\ DOMAIN order = 1..Len(order)
    BY DEF TypeInv, TypeOK, PlansInHand, InHand, Store, EvictOldest, EvictMore, EvictDone, Touch
  <1>2. CASE Store(t)
    <2>1. plans[s] = None /\ ~Held(s)
      BY <1>1, <1>2 DEF Store, ServedLast, Cold, ColdSteps, LruConsistent
    <2>2. order' = Append(order, s) /\ call'[t].pc = "evict" /\ call'[t].shape = s
      BY <1>2, <2>1, GotoMoves DEF Store, WithKey
    <2>3. Len(order') > 0 /\ order'[Len(order')] = s
      BY <1>1, <2>2
    <2>4. QED
      BY <2>2, <2>3 DEF ServedLast, Idle, LastIs
  <1>3. CASE EvictOldest(t)
    <2>1. /\ call[t].pc = "pop" /\ Len(order) > MaxCachedShapes /\ order[Len(order)] = s
      BY <1>3, PopCases DEF OverCapacity, ServedLast, LastIs
    <2>2. order' = Tail(order) /\ call'[t].pc = "evict" /\ call'[t].shape = s
      BY <1>1, <1>3, <2>1, PopCases, GotoMoves, EncoderAssumption
    <2>3. Len(order') > 0 /\ order'[Len(order')] = order[Len(order)]
      BY <1>1, <2>1, <2>2, EncoderAssumption
    <2>4. QED
      BY <2>1, <2>2, <2>3 DEF ServedLast, Idle, LastIs
  <1>4. CASE EvictMore(t) \/ EvictDone(t)
    <2>1. /\ call[t].pc = "evict" /\ order' = order /\ call'[t].shape = s
          /\ \/ call'[t].pc = "run"
             \/ call'[t].pc = "pop" /\ OverCapacity
      BY <1>4, GotoMoves DEF EvictMore, EvictDone, lru
    <2>2. QED
      BY <2>1 DEF ServedLast, Idle, Cold, ColdSteps, LastIs, OverCapacity
  <1>5. CASE Touch(t)
    <2>1. /\ order' = MovedToEnd(s) /\ Held(s) /\ call'[t].pc = "run" /\ call'[t].shape = s
      BY <1>5, GotoMoves DEF Touch
    <2>2. Position(s) \in 1..Len(order)
      BY <1>1, <2>1 DEF Held, Position
    <2>3. order' = [i \in 1..Len(order) |->
                      IF i < Position(s) THEN order[i] ELSE IF i < Len(order) THEN order[i + 1] ELSE s]
      BY <1>1, <2>1 DEF MovedToEnd
    <2>4. Len(order') = Len(order)
      BY <2>1, MovedToEndKeeps, <1>1 DEF LruConsistent, Distinct
    <2>5. Len(order') > 0 /\ order'[Len(order')] = s
      BY <1>1, <2>2, <2>3, <2>4
    <2>6. QED
      BY <2>1, <2>5 DEF ServedLast, Idle, Cold, ColdSteps, LastIs
  <1>6. QED
    BY <1>2, <1>3, <1>4, <1>5

LEMMA StepLast ==
  ASSUME TypeInv, LruConsistent, NEW t \in Threads, ServedLast(t), Step(t)
  PROVE  ServedLast(t)'
  <1>1. CASE LookupMiss(t)
    <2>1. call'[t].pc = "clear" /\ call'[t].shape = call[t].shape
      BY <1>1, MissMoves
    <2>2. QED
      BY <1>1, <2>1 DEF LookupMiss, lru, ServedLast, Idle
  <1>2. CASE LookupHit(t)
    <2>1. call'[t].pc = "touch"
      BY <1>2 DEF LookupHit, TypeInv, TypeOK, CallRecord
    <2>2. QED
      BY <2>1 DEF ServedLast, Idle, Cold, ColdSteps
  <1>3. CASE Run(t)
    <2>1. call'[t].pc = "launch" /\ call'[t].shape = call[t].shape
      BY <1>3, RunMoves
    <2>2. QED
      BY <1>3, <2>1 DEF Run, lru, ServedLast, LastIs, Idle, Cold, ColdSteps
  <1>4. ASSUME FailCall(t) \/ End(t, "raised") PROVE ServedLast(t)'
    <2>1. call'[t].pc = "idle" /\ call'[t].outcome = "raised"
      BY <1>4, FailKeeps, EndKeeps
    <2>2. QED
      BY <2>1 DEF ServedLast, Idle, Cold, ColdSteps
  <1>5. CASE Launch(t) \/ LaunchFallsBack(t)
    <2>1. call[t].pc = "launch" /\ order' = order
      BY <1>5 DEF Launch, LaunchFallsBack, lru
    <2>2. call'[t].pc \in {"run", "idle"} /\ call'[t].shape = call[t].shape
      <3>1. Goto(t, "run", call[t].layer + 1) \/ \E outcome : End(t, outcome)
        BY <1>5 DEF Launch, LaunchFallsBack, Launched
      <3>2. QED
        BY <3>1, GotoMoves, EndKeeps
    <2>3. QED
      BY <2>1, <2>2 DEF ServedLast, LastIs, Cold, ColdSteps
  <1>6. QED
    BY <1>1, <1>2, <1>3, <1>4, <1>5, PrepareLast, StoreLast
    DEF Step, Prepare, Forward, TouchEvicted, ShapeRefused, RunRefused,
        LaunchForgotten, LaunchFails, AllocationFails

LEMMA NextLast == TypeInv /\ LruConsistent /\ LastInv /\ [Next]_vars => LastInv'
  <1> SUFFICES ASSUME TypeInv, LruConsistent, [Next]_vars,
                      NEW t \in Threads, Threads = {t}, ServedLast(t)
               PROVE  ServedLast(t)'
    BY DEF LastInv
  <1>1. CASE \E s \in Shapes : Arrive(t, s)
    <2>1. PICK s \in Shapes : Arrive(t, s)
      BY <1>1
    <2> DEFINE c == [NoCall EXCEPT !.pc = "lookup", !.shape = s,
                       !.contended = \E u \in Threads \ {t} : Cold(u)]
    <2>2. call \in [Threads -> CallRecord] /\ call' = [call EXCEPT ![t] = c]
      BY <2>1 DEF Arrive, TypeInv, TypeOK
    <2>3. c.pc = "lookup"
      BY DEF NoCall
    <2> HIDE DEF c
    <2>4. call'[t].pc = "lookup"
      BY <2>2, <2>3
    <2>5. QED
      BY <2>4 DEF ServedLast, Idle, Cold, ColdSteps
  <1>2. CASE HostEvent
    BY <1>2 DEF HostEvent, UpdateInPlace, Reassign, ReplaceProjections, ChangeLayout, Update, lru,
       OverCapacity, ServedLast, LastIs, Idle, Cold
  <1>3. CASE UNCHANGED vars
    BY <1>3 DEF vars, lru, ServedLast, LastIs, OverCapacity, Idle, Cold
  <1>4. QED
    BY <1>1, <1>2, <1>3, StepLast DEF Next

(* For a single caller, with any updates and faults between its calls, the *)
(* length answered last is the most recently used: eviction drops it only  *)
(* after every other.                                                      *)
THEOREM LastServedStays == Spec => []LastServedRetained
  <1>1. Spec => []TypeInv
    BY InitType, NextType, PTL DEF Spec
  <1>2. Init => LastInv
    BY DEF Init, NoCall, LastInv, ServedLast, Cold, ColdSteps
  <1>3. Spec => []LastInv
    BY <1>1, <1>2, LruAlwaysConsistent, NextLast, PTL DEF Spec
  <1>4. LastInv => LastServedRetained
    BY DEF LastInv, ServedLast, LastIs, LastServedRetained
  <1>5. QED
    BY <1>3, <1>4, PTL
==============================================================================
