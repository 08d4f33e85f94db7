------------------------- MODULE EncoderPublishProofs -------------------------
(***************************************************************************)
(* What preparations leave behind and what calls answer from it, for every *)
(* number of callers, layers and lengths: PlansPublishedWhole,             *)
(* PacksWholeWhenQuiet, ColdCallsExact, LayersKeepOneShape, and that an    *)
(* encoder implements EncoderContract. None is inductive; each section     *)
(* starts with its strengthening.                                          *)
(***************************************************************************)
EXTENDS EncoderCacheProofs, FiniteSetTheorems

------------------------------------------------------------------------------
(* Where a published plan comes from: a layer that a call has cleared      *)
(* holds only tables of the source's present version until the call ends,  *)
(* whichever threads refill it, and what a layer files under a length is a *)
(* plan for that length.                                                   *)

FiledFor(p, s) == p.shape = s /\ p.regime = Regime[s] /\ p.range = SlotRange[Regime[s]]

FilesRight(a) == \A s \in Shapes : a.shapes[s] # None => FiledFor(a.shapes[s], s)

Fresh(a, v) ==
  /\ a.workspace \in {v, None}
  /\ \A r \in Ranges : a.compact[r] \in {v, None}
  /\ \A s \in Shapes : a.shapes[s] # None => a.shapes[s].ver = v

\* the layers a preparation has cleared, and those it has made plans for
HasCleared(c, m) ==
  \/ c.pc = "clear" /\ m < c.layer
  \/ c.pc \in {"pack", "rebind", "bias", "project"} /\ m <= c.layer
  \/ c.pc = "shape"

HasMade(c, m) ==
  \/ c.pc = "shape" /\ m < c.layer
  \/ c.pc \in {"release", "store"}

CallClean(c, ls, v) ==
  \A m \in Layers :
    /\ HasCleared(c, m) => Fresh(ls[m], v)
    /\ HasMade(c, m) => FiledFor(c.plans[m], c.shape) /\ c.plans[m].ver = v

PublishInv ==
  /\ \A l \in Layers : FilesRight(layers[l])
  /\ \A t \in Threads : CallClean(call[t], layers, source)
  /\ PlansPublishedWhole

------------------------------------------------------------------------------
(* The operations of a layer keep it fresh and its plans where they belong. *)

LEMMA ClearedIsFresh ==
  ASSUME NEW a, NEW v
  PROVE  FilesRight(ClearInferenceCache(a)) /\ Fresh(ClearInferenceCache(a), v)
  BY DEF ClearInferenceCache, NewLayer, FilesRight, Fresh

(* An operation that leaves the tables alone, or drops the workspace.      *)
LEMMA TablesKept ==
  ASSUME NEW a, NEW b, NEW v, FilesRight(a),
         b.shapes = a.shapes, b.compact = a.compact, b.workspace \in {a.workspace, v, None}
  PROVE  FilesRight(b) /\ (Fresh(a, v) => Fresh(b, v))
  BY DEF FilesRight, Fresh

LEMMA OperationsKeepTables ==
  ASSUME NEW a \in AttentionLayer, NEW v \in Versions, NEW t \in Owners,
         NEW b \in {PackWeights(a, v, t), RebindWeights(a, t), PackBiases(a, v),
                    ProjectPositions(a, v), ReleaseWorkspace(a)},
         FilesRight(a)
  PROVE  FilesRight(b) /\ (Fresh(a, v) => Fresh(b, v))
  <1>1. b.shapes = a.shapes /\ b.compact = a.compact /\ b.workspace \in {a.workspace, v, None}
    BY DEF PackWeights, RebindWeights, PackBiases, ProjectPositions, ReleaseWorkspace,
           AttentionLayer
  <1>2. QED
    BY <1>1, TablesKept

LEMMA MemosKeepTables ==
  ASSUME NEW a \in AttentionLayer, NEW v, NEW r,
         NEW b \in {MemoizeConfig(a, r), RecordFailure(a, r)}, FilesRight(a)
  PROVE  FilesRight(b) /\ (Fresh(a, v) => Fresh(b, v))
  <1>1. b.shapes = a.shapes /\ b.compact = a.compact /\ b.workspace = a.workspace
    BY DEF MemoizeConfig, RecordFailure, AttentionLayer
  <1>2. QED
    BY <1>1, TablesKept

(* The plan of a fresh layer is of its version; it is filed where it       *)
(* belongs even when it shares the tables of the representative length.    *)
LEMMA ShapePlanFiled ==
  ASSUME NEW a \in AttentionLayer, NEW s \in Shapes, NEW v, FilesRight(a), CanPrepareShape(a, s)
  PROVE  /\ FiledFor(ShapePlan(a, s), s)
         /\ FilesRight(PrepareShape(a, s))
         /\ Fresh(a, v) => ShapePlan(a, s).ver = v /\ Fresh(PrepareShape(a, s), v)
  <1> DEFINE rep == Representative(a, s)
             p == ShapePlan(a, s)
             b == PrepareShape(a, s)
             narrowed == NarrowedTable(a, s)
             range == SlotRange[Regime[s]]
  <1>1. /\ Regime[s] \in Shapes /\ Regime[Regime[s]] = Regime[s]
        /\ SlotRange[Regime[s]] \in Ranges
    BY RegimeAssumption
  <1>2. a.shapes[s] = None /\ rep # None => rep.range = range
    BY <1>1 DEF FilesRight, FiledFor, Representative
  <1>3. FiledFor(p, s)
    <2>1. CASE a.shapes[s] # None
      BY <2>1 DEF ShapePlan, FilesRight
    <2>2. CASE a.shapes[s] = None
      BY <2>2, <1>2 DEF ShapePlan, FiledFor
    <2>3. QED
      BY <2>1, <2>2
  <1>4. /\ b.shapes = [a.shapes EXCEPT ![s] = p]
        /\ b.workspace = a.workspace
        /\ b.compact = IF a.shapes[s] = None /\ rep = None
                       THEN [a.compact EXCEPT ![range] = narrowed] ELSE a.compact
    BY DEF PrepareShape, AttentionLayer
  <1>5. a.shapes \in [Shapes -> Plan \cup {None}] /\ a.compact \in [Ranges -> Versions \cup {None}]
    BY DEF AttentionLayer
  <1>6. FilesRight(b)
    <2> HIDE DEF p, b
    <2> QED
      BY <1>3, <1>4, <1>5 DEF FilesRight
  <1>7. ASSUME Fresh(a, v) PROVE p.ver = v /\ Fresh(b, v)
    <2>1. a.shapes[s] = None /\ rep = None => narrowed = v
      BY <1>1, <1>7 DEF CanPrepareShape, NarrowedTable, CompactTable, Representative, Fresh
    <2>2. p.ver = v
      <3>1. CASE a.shapes[s] # None
        BY <3>1, <1>7 DEF ShapePlan, Fresh
      <3>2. CASE a.shapes[s] = None /\ rep # None
        BY <3>2, <1>1, <1>7 DEF ShapePlan, Fresh, Representative
      <3>3. CASE a.shapes[s] = None /\ rep = None
        BY <3>3, <2>1 DEF ShapePlan
      <3>4. QED
        BY <3>1, <3>2, <3>3
    <2> HIDE DEF p, b, narrowed, range, rep
    <2>3. \A x \in Shapes : b.shapes[x] # None => b.shapes[x].ver = v
      BY <1>4, <1>5, <1>7, <2>2 DEF Fresh
    <2>4. \A r \in Ranges : b.compact[r] \in {v, None}
      BY <1>4, <1>5, <1>7, <2>1 DEF Fresh
    <2>5. QED
      BY <1>4, <1>7, <2>2, <2>3, <2>4 DEF Fresh
  <1>8. QED
    BY <1>3, <1>6, <1>7

------------------------------------------------------------------------------
(* How a step leaves the calls clean.                                      *)

LEMMA NotPreparing ==
  ASSUME NEW c, NEW ls, NEW v,
         \/ c.pc \in {"idle", "lookup", "touch", "evict", "pop", "run", "launch"}
         \/ c.pc = "clear" /\ c.layer = 1
  PROVE  CallClean(c, ls, v)
  <1>1. \A m \in Layers : ~(m < 1)
    BY FirstLayer DEF Layers
  <1>2. QED
    BY <1>1 DEF CallClean, HasCleared, HasMade

LEMMA LayersAfter ==
  ASSUME TypeInv, PublishInv, NEW t \in Threads, NEW b, OnLayer(t, b), FilesRight(b),
         Fresh(ThisLayer(t), source) => Fresh(b, source)
  PROVE  /\ \A l \in Layers : FilesRight(layers'[l])
         /\ \A m \in Layers : Fresh(layers[m], source) => Fresh(layers'[m], source)
         /\ layers'[call[t].layer] = b
  <1>1. /\ layers \in [Layers -> AttentionLayer] /\ call[t].layer \in Layers
        /\ layers' = [layers EXCEPT ![call[t].layer] = b]
        /\ \A l \in Layers : FilesRight(layers[l])
    BY DEF TypeInv, TypeOK, CallRecord, OnLayer, PublishInv
  <1>2. QED
    BY <1>1 DEF ThisLayer

LEMMA CallsAfter ==
  ASSUME PublishInv, NEW t \in Threads, OthersStand(t), source' = source,
         \A m \in Layers : Fresh(layers[m], source) => Fresh(layers'[m], source),
         CallClean(call'[t], layers', source)
  PROVE  \A u \in Threads : CallClean(call'[u], layers', source')
  <1> SUFFICES ASSUME NEW u \in Threads \ {t} PROVE CallClean(call'[u], layers', source)
    OBVIOUS
  <1>1. CallClean(call[u], layers, source)
    BY DEF PublishInv
  <1>2. ASSUME NEW m \in Layers
        PROVE  /\ HasCleared(call'[u], m) <=> HasCleared(call[u], m)
               /\ HasMade(call'[u], m) <=> HasMade(call[u], m)
    BY DEF OthersStand, HasCleared, HasMade
  <1>3. QED
    BY <1>1, <1>2 DEF CallClean, OthersStand

LEMMA PublishedPrimed ==
  ASSUME PlansPublishedWhole, plans' = plans
  PROVE  PlansPublishedWhole'
  BY DEF PlansPublishedWhole

(* The three facts together.                                               *)
LEMMA PublishStep ==
  ASSUME PublishInv, plans' = plans, source' = source, NEW t \in Threads, OthersStand(t),
         \A l \in Layers : FilesRight(layers'[l]),
         \A m \in Layers : Fresh(layers[m], source) => Fresh(layers'[m], source),
         CallClean(call'[t], layers', source)
  PROVE  PublishInv'
  BY CallsAfter, PublishedPrimed DEF PublishInv

------------------------------------------------------------------------------
(* The steps.                                                              *)

LEMMA ClearPublish ==
  ASSUME TypeInv, PublishInv, NEW t \in Threads, Clear(t)
  PROVE  PublishInv'
  <1> DEFINE l == call[t].layer
             b == ClearInferenceCache(ThisLayer(t))
  <1>1. FilesRight(b) /\ Fresh(b, source)
    BY ClearedIsFresh
  <1>2. OnLayer(t, b) /\ Goto(t, "pack", l) /\ source' = source /\ plans' = plans
    BY DEF Clear, host, lru
  <1> HIDE DEF b
  <1>3. /\ \A m \in Layers : FilesRight(layers'[m])
        /\ \A m \in Layers : Fresh(layers[m], source) => Fresh(layers'[m], source)
        /\ Fresh(layers'[l], source)
    BY <1>1, <1>2, LayersAfter
  <1>4. OthersStand(t) /\ call'[t].pc = "pack" /\ call'[t].layer = l
    BY <1>2, GotoMoves
  <1>5. CallClean(call'[t], layers', source)
    <2> SUFFICES ASSUME NEW m \in Layers, m <= l PROVE Fresh(layers'[m], source)
      BY <1>4 DEF CallClean, HasCleared, HasMade
    <2>1. call[t].pc = "clear" /\ CallClean(call[t], layers, source) /\ l \in Layers
      BY HereTyped DEF Clear, PublishInv, TypeInv
    <2>2. m = l \/ m < l
      BY <2>1, EncoderAssumption DEF Layers
    <2>3. QED
      BY <1>3, <2>1, <2>2 DEF CallClean, HasCleared
  <1>6. QED
    BY <1>2, <1>3, <1>4, <1>5, PublishStep

LEMMA RefillPublish ==
  ASSUME TypeInv, PublishInv, NEW t \in Threads,
         Pack(t) \/ Rebind(t) \/ Bias(t) \/ Project(t)
  PROVE  PublishInv'
  <1> DEFINE l == call[t].layer
             a == ThisLayer(t)
  <1>1. /\ a \in AttentionLayer /\ source \in Versions /\ t \in Owners /\ FilesRight(a)
        /\ l \in Layers /\ CallClean(call[t], layers, source)
    BY HereTyped, EncoderAssumption DEF TypeInv, PublishInv, ThisLayer
  <1>2. PICK b \in {PackWeights(a, source, t), RebindWeights(a, t), PackBiases(a, source),
                    ProjectPositions(a, source), ReleaseWorkspace(a)} : OnLayer(t, b)
    BY DEF Pack, Rebind, Bias, Project
  <1>3. source' = source /\ plans' = plans
    BY DEF Pack, Rebind, Bias, Project, host, lru
  <1>4. FilesRight(b) /\ (Fresh(a, source) => Fresh(b, source))
    BY <1>1, <1>2, OperationsKeepTables
  <1>5. /\ \A m \in Layers : FilesRight(layers'[m])
        /\ \A m \in Layers : Fresh(layers[m], source) => Fresh(layers'[m], source)
    BY <1>2, <1>4, LayersAfter
  <1>6. \A m \in Layers : m <= l => Fresh(layers[m], source)
    BY <1>1 DEF CallClean, HasCleared, Pack, Rebind, Bias, Project
  <1>7. \/ \E pc \in {"rebind", "bias", "project"} : Goto(t, pc, l)
        \/ Goto(t, "clear", l + 1)
        \/ Goto(t, "shape", 1) /\ ~(l < NumLayers)
    BY DEF Pack, Rebind, Bias, Project, NextLayer
  <1>8. OthersStand(t) /\ CallClean(call'[t], layers', source)
    <2>1. CASE \E pc \in {"rebind", "bias", "project"} : Goto(t, pc, l)
      <3>1. PICK pc \in {"rebind", "bias", "project"} : Goto(t, pc, l)
        BY <2>1
      <3>2. OthersStand(t) /\ call'[t].pc = pc /\ call'[t].layer = l
        BY <3>1, GotoMoves
      <3>3. QED
        BY <3>2, <1>5, <1>6 DEF CallClean, HasCleared, HasMade
    <2>2. CASE Goto(t, "clear", l + 1)
      <3>1. OthersStand(t) /\ call'[t].pc = "clear" /\ call'[t].layer = l + 1
        BY <2>2, GotoMoves
      <3>2. \A m \in Layers : m < l + 1 => m <= l
        BY <1>1, EncoderAssumption DEF Layers
      <3>3. QED
        BY <3>1, <3>2, <1>5, <1>6 DEF CallClean, HasCleared, HasMade
    <2>3. CASE Goto(t, "shape", 1) /\ ~(l < NumLayers)
      <3>1. OthersStand(t) /\ call'[t].pc = "shape" /\ call'[t].layer = 1
        BY <2>3, GotoMoves
      <3>2. \A m \in Layers : m <= l /\ ~(m < 1)
        BY <1>1, <2>3, EncoderAssumption DEF Layers
      <3>3. QED
        BY <3>1, <3>2, <1>5, <1>6 DEF CallClean, HasCleared, HasMade
    <2>4. QED
      BY <1>7, <2>1, <2>2, <2>3
  <1>9. QED
    BY <1>3, <1>5, <1>8, PublishStep

LEMMA ShapePublish ==
  ASSUME TypeInv, PublishInv, NEW t \in Threads, Shape(t)
  PROVE  PublishInv'
  <1> DEFINE l == call[t].layer
             a == ThisLayer(t)
             s == call[t].shape
             p == ShapePlan(a, s)
             b == PrepareShape(a, s)
             ps == [call[t].plans EXCEPT ![l] = p]
             nl == IF l < NumLayers THEN l + 1 ELSE 1
             pc == IF l < NumLayers THEN "shape" ELSE "release"
             c == [call[t] EXCEPT !.plans = ps, !.layer = nl, !.pc = pc]
  <1>1. /\ a \in AttentionLayer /\ FilesRight(a) /\ l \in Layers /\ s \in Shapes
        /\ call[t].pc = "shape" /\ CallClean(call[t], layers, source)
        /\ call[t].plans \in [Layers -> Plan \cup {None}] /\ call[t] \in CallRecord
    BY HereTyped DEF Shape, TypeInv, PlansInHand, InHand, PublishInv, ThisLayer, CallRecord
  <1>2. Fresh(a, source)
    BY <1>1 DEF CallClean, HasCleared, ThisLayer
  <1>3. FiledFor(p, s) /\ p.ver = source /\ FilesRight(b) /\ Fresh(b, source)
    BY <1>1, <1>2, ShapePlanFiled DEF Shape
  <1>4. source' = source /\ plans' = plans /\ OnLayer(t, b) /\ call' = [call EXCEPT ![t] = c]
    BY DEF Shape, host, lru
  <1> HIDE DEF a, p, b
  <1>5. /\ \A m \in Layers : FilesRight(layers'[m])
        /\ \A m \in Layers : Fresh(layers[m], source) => Fresh(layers'[m], source)
    BY <1>3, <1>4, LayersAfter
  <1>6. /\ ps[l] = p
        /\ \A m \in Layers \ {l} : ps[m] = call[t].plans[m]
    BY <1>1
  <1> HIDE DEF ps, nl, pc
  <1>7. c.plans = ps /\ c.layer = nl /\ c.pc = pc /\ c.shape = s
    BY <1>1 DEF CallRecord
  <1> HIDE DEF c
  <1>8. OthersStand(t) /\ call'[t] = c
    BY <1>4 DEF OthersStand, TypeInv, TypeOK
  <1>9. \A m \in Layers : (m < nl /\ pc = "shape") \/ pc = "release" => m = l \/ m < l
    <2>1. CASE l < NumLayers
      BY <1>1, <2>1, EncoderAssumption DEF nl, pc, Layers
    <2>2. CASE ~(l < NumLayers)
      BY <1>1, <2>2, EncoderAssumption DEF nl, pc, Layers
    <2>3. QED
      BY <2>1, <2>2
  <1>10. ASSUME NEW m \in Layers, HasMade(c, m)
         PROVE  FiledFor(c.plans[m], c.shape) /\ c.plans[m].ver = source
    <2>1. m = l \/ m < l
      BY <1>7, <1>9, <1>10 DEF HasMade, pc
    <2>2. CASE m = l
      BY <2>2, <1>3, <1>6, <1>7
    <2>3. CASE m # l /\ m < l
      BY <2>3, <1>1, <1>6, <1>7 DEF CallClean, HasMade
    <2>4. QED
      BY <2>1, <2>2, <2>3
  <1>11. ASSUME NEW m \in Layers PROVE Fresh(layers'[m], source)
    BY <1>1, <1>5 DEF CallClean, HasCleared
  <1>12. QED
    BY <1>4, <1>5, <1>8, <1>10, <1>11, PublishStep DEF CallClean

LEMMA ReleasePublish ==
  ASSUME TypeInv, PublishInv, NEW t \in Threads, Release(t)
  PROVE  PublishInv'
  <1> DEFINE a == ThisLayer(t)
             b == ReleaseWorkspace(a)
  <1>1. /\ a \in AttentionLayer /\ source \in Versions /\ t \in Owners /\ FilesRight(a)
        /\ CallClean(call[t], layers, source) /\ call[t].pc = "release"
    BY HereTyped, EncoderAssumption DEF TypeInv, PublishInv, ThisLayer, Release
  <1>2. FilesRight(b) /\ (Fresh(a, source) => Fresh(b, source))
    BY <1>1, OperationsKeepTables
  <1>3. source' = source /\ plans' = plans /\ OnLayer(t, b)
    BY DEF Release, host, lru
  <1> HIDE DEF b
  <1>4. /\ \A m \in Layers : FilesRight(layers'[m])
        /\ \A m \in Layers : Fresh(layers[m], source) => Fresh(layers'[m], source)
    BY <1>2, <1>3, LayersAfter
  <1>5. PICK pc \in {"release", "store"}, l \in {call[t].layer + 1, 1} : Goto(t, pc, l)
    BY DEF Release, NextLayer
  <1>6. /\ OthersStand(t) /\ call'[t].pc = pc
        /\ call'[t].plans = call[t].plans /\ call'[t].shape = call[t].shape
    BY <1>5, GotoMoves
  <1>7. CallClean(call'[t], layers', source)
    BY <1>1, <1>6 DEF CallClean, HasCleared, HasMade
  <1>8. QED
    BY <1>3, <1>4, <1>6, <1>7, PublishStep

LEMMA StorePublish ==
  ASSUME TypeInv, PublishInv, NEW t \in Threads, Store(t)
  PROVE  PublishInv'
  <1> DEFINE s == call[t].shape
  <1>1. /\ s \in Shapes /\ plans \in [Shapes -> [Layers -> Plan] \cup {None}]
        /\ call[t].pc = "store" /\ CallClean(call[t], layers, source)
    BY DEF Store, TypeInv, TypeOK, PlansInHand, InHand, PublishInv
  <1>2. /\ plans' = [plans EXCEPT ![s] = call[t].plans]
        /\ layers' = layers /\ source' = source /\ Goto(t, "evict", 1)
    BY DEF Store, host
  <1>3. \A m \in Layers : FiledFor(call[t].plans[m], s) /\ call[t].plans[m].ver = source
    BY <1>1 DEF CallClean, HasMade
  <1>4. PlansPublishedWhole'
    <2> SUFFICES ASSUME NEW x \in Shapes, plans'[x] # None
                 PROVE  /\ \A l \in Layers : FiledFor(plans'[x][l], x)
                        /\ \A l, m \in Layers : plans'[x][l].ver = plans'[x][m].ver
      BY DEF PlansPublishedWhole, FiledFor
    <2>1. CASE x = s
      BY <1>1, <1>2, <1>3, <2>1
    <2>2. CASE x # s
      <3>1. plans'[x] = plans[x]
        BY <1>1, <1>2, <2>2
      <3>2. QED
        BY <3>1 DEF PublishInv, PlansPublishedWhole, FiledFor
    <2>3. QED
      BY <2>1, <2>2
  <1>5. OthersStand(t) /\ call'[t].pc = "evict"
    BY <1>2, GotoMoves
  <1>6. CallClean(call'[t], layers', source)
    BY <1>5, NotPreparing
  <1>7. QED
    BY <1>2, <1>4, <1>5, <1>6, CallsAfter DEF PublishInv

LEMMA EvictPublish ==
  ASSUME TypeInv, PublishInv, NEW t \in Threads, EvictOldest(t)
  PROVE  PublishInv'
  <1>1. layers' = layers /\ source' = source /\ plans \in [Shapes -> [Layers -> Plan] \cup {None}]
    BY PopCases DEF TypeInv, TypeOK, host
  <1>2. \A x \in Shapes : plans'[x] # None => plans'[x] = plans[x]
    BY <1>1, PopCases DEF lru
  <1>3. PlansPublishedWhole'
    <2>1. PlansPublishedWhole
      BY DEF PublishInv
    <2>2. QED
      BY <1>2, <2>1 DEF PlansPublishedWhole
  <1>4. OthersStand(t) /\ call'[t].pc \in {"idle", "evict"}
    <2>1. CASE End(t, "raised")
      BY <2>1, EndMoves DEF Outcomes
    <2>2. CASE Goto(t, "evict", 1)
      BY <2>2, GotoMoves
    <2>3. QED
      BY <2>1, <2>2, PopCases
  <1>5. CallClean(call'[t], layers', source)
    BY <1>4, NotPreparing
  <1>6. QED
    BY <1>1, <1>3, <1>4, <1>5, CallsAfter DEF PublishInv

(* The steps outside a preparation, which change at most launch memos.     *)

LEMMA LookupPublish ==
  ASSUME TypeInv, PublishInv, NEW t \in Threads, LookupHit(t) \/ LookupMiss(t)
  PROVE  PublishInv'
  <1>1. /\ source' = source /\ plans' = plans /\ layers' = layers
        /\ call \in [Threads -> CallRecord]
    BY DEF LookupHit, LookupMiss, TypeInv, TypeOK, host, lru
  <1>2. OthersStand(t)
    <2> SUFFICES ASSUME NEW u \in Threads \ {t}
                 PROVE  /\ call'[u].pc = call[u].pc /\ call'[u].layer = call[u].layer
                        /\ call'[u].plans = call[u].plans /\ call'[u].shape = call[u].shape
      BY DEF OthersStand
    <2>1. CASE LookupHit(t)
      BY <1>1, <2>1 DEF LookupHit
    <2>2. CASE LookupMiss(t)
      BY <1>1, <2>2 DEF LookupMiss, CallRecord
    <2>3. QED
      BY <2>1, <2>2
  <1>3. \/ call'[t].pc = "touch"
        \/ call'[t].pc = "clear" /\ call'[t].layer = 1
    <2>1. CASE LookupHit(t)
      BY <1>1, <2>1 DEF LookupHit, CallRecord
    <2>2. CASE LookupMiss(t)
      BY <1>1, <2>2 DEF LookupMiss, CallRecord
    <2>3. QED
      BY <2>1, <2>2
  <1>4. CallClean(call'[t], layers', source)
    BY <1>3, NotPreparing
  <1>5. QED
    BY <1>1, <1>2, <1>4, PublishStep DEF PublishInv

LEMMA RunPublish ==
  ASSUME TypeInv, PublishInv, NEW t \in Threads, Run(t)
  PROVE  PublishInv'
  <1> DEFINE a == ThisLayer(t)
             b == MemoizeConfig(a, call[t].plans[call[t].layer].regime)
  <1>1. a \in AttentionLayer /\ FilesRight(a) /\ call \in [Threads -> CallRecord]
    BY HereTyped DEF TypeInv, TypeOK, PublishInv, ThisLayer
  <1>2. FilesRight(b) /\ (Fresh(a, source) => Fresh(b, source))
    BY <1>1, MemosKeepTables
  <1>3. source' = source /\ plans' = plans /\ OnLayer(t, b)
    BY DEF Run, host, lru
  <1> HIDE DEF b
  <1>4. /\ \A m \in Layers : FilesRight(layers'[m])
        /\ \A m \in Layers : Fresh(layers[m], source) => Fresh(layers'[m], source)
    BY <1>2, <1>3, LayersAfter
  <1>5. OthersStand(t)
    BY <1>1 DEF Run, OthersStand
  <1>6. call'[t].pc = "launch"
    BY <1>1 DEF Run, CallRecord
  <1>7. CallClean(call'[t], layers', source)
    BY <1>6, NotPreparing
  <1>8. QED
    BY <1>3, <1>4, <1>5, <1>7, PublishStep

LEMMA PassingPublish ==
  ASSUME TypeInv, PublishInv, NEW t \in Threads,
         \/ Touch(t) \/ TouchEvicted(t) \/ ShapeRefused(t) \/ EvictMore(t) \/ EvictDone(t)
         \/ RunRefused(t) \/ Launch(t) \/ LaunchFallsBack(t) \/ LaunchForgotten(t)
         \/ LaunchFails(t) \/ AllocationFails(t)
  PROVE  PublishInv'
  <1> DEFINE a == ThisLayer(t)
             b == RecordFailure(a, LaunchRegime(t))
  <1>1. a \in AttentionLayer /\ FilesRight(a)
    BY HereTyped DEF TypeInv, PublishInv, ThisLayer
  <1>2. FilesRight(b) /\ (Fresh(a, source) => Fresh(b, source))
    BY <1>1, MemosKeepTables
  <1>3. source' = source /\ plans' = plans /\ (layers' = layers \/ OnLayer(t, b))
    BY DEF Touch, TouchEvicted, ShapeRefused, EvictMore, EvictDone, RunRefused, Launch,
           LaunchFallsBack, LaunchForgotten, LaunchFails, AllocationFails, host, lru
  <1> HIDE DEF b
  <1>4. /\ \A m \in Layers : FilesRight(layers'[m])
        /\ \A m \in Layers : Fresh(layers[m], source) => Fresh(layers'[m], source)
    BY <1>2, <1>3, LayersAfter DEF PublishInv
  <1>5. \/ FailCall(t) \/ \E outcome \in Outcomes : End(t, outcome)
        \/ \E pc \in {"run", "pop"}, l \in {1, call[t].layer + 1} : Goto(t, pc, l)
    BY DEF Touch, TouchEvicted, ShapeRefused, EvictMore, EvictDone, RunRefused, Launch,
           LaunchFallsBack, LaunchForgotten, LaunchFails, AllocationFails, Launched, Outcomes
  <1>6. OthersStand(t) /\ call'[t].pc \in {"idle", "run", "pop"}
    <2>1. CASE FailCall(t) \/ \E outcome \in Outcomes : End(t, outcome)
      BY <2>1, EndMoves
    <2>2. CASE \E pc \in {"run", "pop"}, l \in {1, call[t].layer + 1} : Goto(t, pc, l)
      BY <2>2, GotoMoves
    <2>3. QED
      BY <1>5, <2>1, <2>2
  <1>7. CallClean(call'[t], layers', source)
    BY <1>6, NotPreparing
  <1>8. QED
    BY <1>3, <1>4, <1>6, <1>7, PublishStep

LEMMA ArrivePublish ==
  ASSUME TypeInv, PublishInv, NEW t \in Threads, NEW s \in Shapes, Arrive(t, s)
  PROVE  PublishInv'
  <1> DEFINE c == [NoCall EXCEPT !.pc = "lookup", !.shape = s,
                     !.contended = \E u \in Threads \ {t} : Cold(u)]
  <1>1. /\ source' = source /\ plans' = plans /\ layers' = layers
        /\ call \in [Threads -> CallRecord] /\ call' = [call EXCEPT ![t] = c]
        /\ c.pc = "lookup"
    BY DEF Arrive, NoCall, TypeInv, TypeOK, host, lru
  <1> HIDE DEF c
  <1>2. OthersStand(t) /\ call'[t].pc = "lookup"
    BY <1>1 DEF OthersStand
  <1>3. CallClean(call'[t], layers', source)
    BY <1>2, NotPreparing
  <1>4. QED
    BY <1>1, <1>2, <1>3, PublishStep DEF PublishInv

(* The host changes only when no call is under way.                        *)
LEMMA HostEventPublish ==
  ASSUME TypeInv, PublishInv, HostEvent
  PROVE  PublishInv'
  <1>1. /\ \A t \in Threads : call[t].pc = "idle"
        /\ plans' = plans /\ call' = call
    BY DEF HostEvent, UpdateInPlace, Reassign, ReplaceProjections, ChangeLayout, Update, Quiet,
           Idle, lru
  <1>2. \A t \in Threads : CallClean(call'[t], layers', source')
    BY <1>1, NotPreparing
  <1>3. \A l \in Layers : layers'[l].shapes = layers[l].shapes
    <2> USE DEF TypeInv, TypeOK, AttentionLayer
    <2>1. CASE UpdateInPlace
      BY <2>1 DEF UpdateInPlace
    <2>2. CASE Reassign
      BY <2>2 DEF Reassign
    <2>3. CASE ReplaceProjections \/ ChangeLayout
      BY <2>3 DEF ReplaceProjections, ChangeLayout
    <2>4. QED
      BY <2>1, <2>2, <2>3 DEF HostEvent
  <1>4. \A l \in Layers : FilesRight(layers'[l])
    BY <1>3 DEF PublishInv, FilesRight
  <1>5. QED
    BY <1>1, <1>2, <1>4, PublishedPrimed DEF PublishInv

------------------------------------------------------------------------------

LEMMA InitPublish == Init => PublishInv
  <1> SUFFICES ASSUME Init PROVE PublishInv
    OBVIOUS
  <1>1. \A l \in Layers : FilesRight(layers[l])
    BY DEF Init, FilesRight, NewLayer
  <1>2. \A t \in Threads : CallClean(call[t], layers, source)
    BY NotPreparing DEF Init, NoCall
  <1>3. PlansPublishedWhole
    BY DEF Init, PlansPublishedWhole
  <1>4. QED
    BY <1>1, <1>2, <1>3 DEF PublishInv

LEMMA NextPublish == TypeInv /\ PublishInv /\ [Next]_vars => PublishInv'
  <1> SUFFICES ASSUME TypeInv, PublishInv, [Next]_vars PROVE PublishInv'
    OBVIOUS
  <1>1. CASE HostEvent
    BY <1>1, HostEventPublish
  <1>2. CASE \E t \in Threads, s \in Shapes : Arrive(t, s)
    BY <1>2, ArrivePublish
  <1>3. ASSUME NEW t \in Threads, Step(t) PROVE PublishInv'
    BY <1>3, LookupPublish, PassingPublish, ClearPublish, RefillPublish, ShapePublish,
       ReleasePublish, StorePublish, EvictPublish, RunPublish
    DEF Step, Prepare, Forward
  <1>4. CASE UNCHANGED vars
    BY <1>4, PublishedPrimed DEF vars, host, lru, PublishInv
  <1>5. QED
    BY <1>1, <1>2, <1>3, <1>4 DEF Next

(* Whoever interleaves with a preparation and wherever it fails, what      *)
(* _plans_for files under a length is a plan for every layer, of that      *)
(* length, its regime and its slots, and all of one version of the host.   *)
THEOREM PublishedPlansWhole == Spec => []PlansPublishedWhole
  <1>1. Spec => []TypeInv
    BY InitType, NextType, PTL DEF Spec
  <1>2. Spec => []PublishInv
    BY <1>1, InitPublish, NextPublish, PTL DEF Spec
  <1>3. PublishInv => PlansPublishedWhole
    BY DEF PublishInv
  <1>4. QED
    BY <1>2, <1>3, PTL
------------------------------------------------------------------------------
(* Without faults the halves of a pack are put back together: a layer that *)
(* a call cleared has that call before its pack, and one that has a weight *)
(* and no bias has a call that is going to file the bias.                  *)

Packing(t, l) == call[t].pc = "pack" /\ call[t].layer = l

Binding(t, l) == call[t].pc \in {"rebind", "bias"} /\ call[t].layer = l

PackWhole(l) ==
  /\ layers[l].weight = None =>
       \/ \E t \in Threads : Packing(t, l)
       \/ layers[l].bias = None /\ \A t \in Threads : ~Binding(t, l)
  /\ layers[l].weight # None /\ layers[l].bias = None =>
       \E t \in Threads : Packing(t, l) \/ Binding(t, l)

PackInv == ~FaultsPossible /\ BiasLayout = "all" => \A l \in Layers : PackWhole(l)

(* A step that leaves the halves of a layer there or missing, and the      *)
(* calls before and after its pack where they are, keeps it as it is.      *)
LEMMA PackStands ==
  ASSUME NEW l \in Layers, PackWhole(l),
         layers'[l].weight = None <=> layers[l].weight = None,
         layers'[l].bias = None <=> layers[l].bias = None,
         \A t \in Threads : (Packing(t, l)' <=> Packing(t, l)) /\ (Binding(t, l)' <=> Binding(t, l))
  PROVE  PackWhole(l)'
  BY DEF PackWhole

(* The other layers of a step that moves its call over one layer.          *)
LEMMA PackElsewhere ==
  ASSUME TypeInv, NEW t \in Threads, NEW l \in Layers, PackWhole(l), call[t].layer # l,
         NEW b, OnLayer(t, b), OthersStand(t), call'[t].layer = call[t].layer
  PROVE  PackWhole(l)'
  <1>1. layers'[l] = layers[l]
    BY DEF TypeInv, TypeOK, OnLayer
  <1>2. ASSUME NEW u \in Threads
        PROVE  (Packing(u, l)' <=> Packing(u, l)) /\ (Binding(u, l)' <=> Binding(u, l))
    <2>1. CASE u = t
      BY <2>1 DEF Packing, Binding
    <2>2. CASE u # t
      BY <2>2 DEF OthersStand, Packing, Binding
    <2>3. QED
      BY <2>1, <2>2
  <1>3. QED
    BY <1>1, <1>2, PackStands

LEMMA PackStep ==
  ASSUME TypeInv, NEW t \in Threads, \A l \in Layers : PackWhole(l), BiasLayout = "all",
         Clear(t) \/ Pack(t) \/ Rebind(t) \/ Bias(t)
  PROVE  \A l \in Layers : PackWhole(l)'
  <1>0. PICK k \in Layers : k = call[t].layer
    BY HereTyped DEF TypeInv
  <1> DEFINE a == ThisLayer(t)
  <1>1. /\ k \in Layers /\ a \in AttentionLayer /\ layers \in [Layers -> AttentionLayer]
        /\ source # None /\ PackWhole(k) /\ a = layers[k]
    BY <1>0, HereTyped, NoneAssumption DEF TypeInv, TypeOK, ThisLayer
  <1>2. PICK b, pc : OnLayer(t, b) /\ Goto(t, pc, k)
    BY <1>0 DEF Clear, Pack, Rebind, Bias
  <1>3. OthersStand(t) /\ call'[t].layer = k
    BY <1>2, GotoMoves
  <1>4. PackWhole(k)'
    <2>1. CASE Clear(t)
      <3>1. OnLayer(t, ClearInferenceCache(a)) /\ call'[t].pc = "pack"
        BY <2>1, GotoMoves DEF Clear
      <3>2. layers'[k].weight = None /\ Packing(t, k)'
        BY <1>0, <1>1, <1>3, <3>1 DEF OnLayer, ClearInferenceCache, NewLayer, Packing
      <3>3. QED
        BY <3>2 DEF PackWhole
    <2>2. CASE Pack(t)
      <3>1. OnLayer(t, PackWeights(a, source, t)) /\ call'[t].pc = "rebind"
        BY <2>2, GotoMoves DEF Pack
      <3>2. layers'[k].weight = source /\ Binding(t, k)'
        BY <1>0, <1>1, <1>3, <3>1 DEF OnLayer, PackWeights, AttentionLayer, Binding
      <3>3. QED
        BY <1>1, <3>2 DEF PackWhole
    <2>3. CASE Rebind(t)
      <3>1. OnLayer(t, RebindWeights(a, t)) /\ call'[t].pc = "bias" /\ call[t].pc = "rebind"
        BY <2>3, GotoMoves DEF Rebind
      <3>2. layers'[k].weight = a.weight /\ layers'[k].bias = a.bias
        BY <1>0, <1>1, <3>1 DEF OnLayer, RebindWeights, AttentionLayer
      <3>3. ASSUME NEW u \in Threads
            PROVE  (Packing(u, k)' <=> Packing(u, k)) /\ (Binding(u, k)' <=> Binding(u, k))
        <4>1. CASE u = t
          BY <4>1, <1>0, <1>3, <3>1 DEF Packing, Binding
        <4>2. CASE u # t
          BY <4>2, <1>3 DEF OthersStand, Packing, Binding
        <4>3. QED
          BY <4>1, <4>2
      <3>4. QED
        BY <1>1, <3>2, <3>3, PackStands
    <2>4. CASE Bias(t)
      <3>1. OnLayer(t, PackBiases(a, source)) /\ call[t].pc = "bias"
        BY <2>4 DEF Bias
      <3>2. layers'[k].weight = a.weight /\ layers'[k].bias = source /\ Binding(t, k)
        BY <1>0, <1>1, <3>1 DEF OnLayer, PackBiases, AttentionLayer, Binding
      <3>3. ASSUME a.weight = None PROVE \E u \in Threads : Packing(u, k)'
        <4>1. PICK u \in Threads : Packing(u, k)
          BY <1>1, <3>2, <3>3 DEF PackWhole
        <4>2. u # t
          BY <3>1, <4>1 DEF Packing
        <4>3. QED
          BY <1>3, <4>1, <4>2 DEF OthersStand, Packing
      <3>4. QED
        BY <1>1, <3>2, <3>3 DEF PackWhole
    <2>5. QED
      BY <2>1, <2>2, <2>3, <2>4
  <1>5. ASSUME NEW l \in Layers, l # k PROVE PackWhole(l)'
    BY <1>0, <1>2, <1>3, <1>5, PackElsewhere
  <1>6. QED
    BY <1>1, <1>4, <1>5

(* The steps before a call reaches its pack, and after it has packed.      *)
LEMMA PackPassing ==
  ASSUME TypeInv, NEW t \in Threads, \A l \in Layers : PackWhole(l), OthersStand(t),
         call[t].pc \notin {"pack", "rebind", "bias"},
         call'[t].pc \notin {"pack", "rebind", "bias"},
         \A l \in Layers : layers'[l].weight = layers[l].weight /\ layers'[l].bias = layers[l].bias
  PROVE  \A l \in Layers : PackWhole(l)'
  <1> SUFFICES ASSUME NEW l \in Layers PROVE PackWhole(l)'
    OBVIOUS
  <1>1. ASSUME NEW u \in Threads
        PROVE  (Packing(u, l)' <=> Packing(u, l)) /\ (Binding(u, l)' <=> Binding(u, l))
    <2>1. CASE u = t
      BY <2>1 DEF Packing, Binding
    <2>2. CASE u # t
      BY <2>2 DEF OthersStand, Packing, Binding
    <2>3. QED
      BY <2>1, <2>2
  <1>2. QED
    BY <1>1, PackStands

(* A step that neither clears nor packs leaves the packs alone, and its    *)
(* call is nowhere near one.                                               *)
LEMMA PacksLeftAlone ==
  ASSUME TypeInv, NEW t \in Threads, Step(t),
         ~Clear(t), ~Pack(t), ~Rebind(t), ~Bias(t), ~AllocationFails(t)
  PROVE  /\ call[t].pc \notin {"pack", "rebind", "bias"}
         /\ call'[t].pc \notin {"pack", "rebind", "bias"}
         /\ \A l \in Layers : /\ layers'[l].weight = layers[l].weight
                              /\ layers'[l].bias = layers[l].bias
  <1>1. /\ call \in [Threads -> CallRecord] /\ layers \in [Layers -> AttentionLayer]
        /\ call[t].layer \in Layers /\ ThisLayer(t) \in AttentionLayer
        /\ ThisLayer(t) = layers[call[t].layer]
    BY HereTyped DEF TypeInv, TypeOK, ThisLayer
  <1>2. call[t].pc \notin {"pack", "rebind", "bias"}
    BY DEF Step, Prepare, Forward, LookupHit, LookupMiss, Touch, TouchEvicted, Project, Shape,
       ShapeRefused, Release, Store, EvictOldest, EvictMore, EvictDone, Run, RunRefused, Launch,
       LaunchFallsBack, LaunchForgotten, LaunchFails
  <1>3. call'[t].pc \notin {"pack", "rebind", "bias"}
    <2>1. CASE LookupHit(t) \/ LookupMiss(t)
      <3>1. CASE LookupHit(t)
        BY <1>1, <3>1 DEF LookupHit, CallRecord
      <3>2. CASE LookupMiss(t)
        BY <1>1, <3>2 DEF LookupMiss, CallRecord
      <3>3. QED
        BY <2>1, <3>1, <3>2
    <2>2. CASE Shape(t) \/ Run(t)
      BY <1>1, <2>2 DEF Shape, Run, CallRecord
    <2>3. CASE FailCall(t) \/ \E outcome \in Outcomes : End(t, outcome)
      BY <2>3, EndMoves
    <2>4. CASE \E pc \in {"clear", "shape", "release", "store", "evict", "pop", "run"} :
                 \E l : Goto(t, pc, l)
      BY <2>4, GotoMoves
    <2>5. CASE Project(t) \/ Release(t) \/ Store(t) \/ EvictMore(t) \/ EvictDone(t) \/ Touch(t)
      BY <2>4, <2>5 DEF Project, Release, Store, EvictMore, EvictDone, Touch, NextLayer
    <2>6. CASE \/ TouchEvicted(t) \/ ShapeRefused(t) \/ RunRefused(t) \/ Launch(t)
               \/ LaunchFallsBack(t) \/ LaunchForgotten(t) \/ LaunchFails(t)
      BY <2>3, <2>4, <2>6 DEF TouchEvicted, ShapeRefused, RunRefused, Launch,
         LaunchFallsBack, LaunchForgotten, LaunchFails, Launched, Outcomes
    <2>7. CASE EvictOldest(t)
      BY <2>3, <2>4, <2>7, PopCases DEF Outcomes
    <2>8. QED
      BY <2>1, <2>2, <2>5, <2>6, <2>7 DEF Step, Prepare, Forward
  <1>4. \/ layers' = layers
        \/ \E b \in AttentionLayer :
             OnLayer(t, b) /\ b.weight = ThisLayer(t).weight /\ b.bias = ThisLayer(t).bias
    <2> DEFINE a == ThisLayer(t)
    <2>1. CASE Project(t) \/ Release(t)
      <3>1. PICK b \in {ProjectPositions(a, source), ReleaseWorkspace(a)} : OnLayer(t, b)
        BY <2>1 DEF Project, Release
      <3>2. b \in AttentionLayer /\ b.weight = a.weight /\ b.bias = a.bias
        BY <1>1, HereTyped DEF ProjectPositions, ReleaseWorkspace, AttentionLayer, TypeInv
      <3>3. QED
        BY <3>1, <3>2
    <2>2. CASE Shape(t)
      <3>1. OnLayer(t, PrepareShape(a, call[t].shape)) /\ PrepareShape(a, call[t].shape) \in AttentionLayer
        BY <1>1, <2>2, ShapePlanTyped DEF Shape, TypeInv, PlansInHand, InHand
      <3>2. /\ PrepareShape(a, call[t].shape).weight = a.weight
            /\ PrepareShape(a, call[t].shape).bias = a.bias
        BY <1>1 DEF PrepareShape, AttentionLayer
      <3>3. QED
        BY <3>1, <3>2
    <2>3. CASE Run(t) \/ LaunchFallsBack(t) \/ LaunchFails(t)
      <3>1. call[t].plans \in [Layers -> Plan]
        BY <2>3 DEF Run, LaunchFallsBack, LaunchFails, TypeInv, PlansInHand, InHand, HoldsPlans
      <3>2. LaunchRegime(t) \in Shapes
        BY <1>1, <3>1 DEF LaunchRegime, Plan
      <3>3. \/ layers' = layers
            \/ \E b \in {MemoizeConfig(a, LaunchRegime(t)), RecordFailure(a, LaunchRegime(t))} :
                 OnLayer(t, b)
        BY <2>3 DEF Run, LaunchFallsBack, LaunchFails, LaunchRegime
      <3>4. ASSUME NEW b \in {MemoizeConfig(a, LaunchRegime(t)), RecordFailure(a, LaunchRegime(t))}
            PROVE  b \in AttentionLayer /\ b.weight = a.weight /\ b.bias = a.bias
        <4>1. CASE b = MemoizeConfig(a, LaunchRegime(t))
          BY <1>1, <3>2, <4>1 DEF MemoizeConfig, AttentionLayer
        <4>2. CASE b = RecordFailure(a, LaunchRegime(t))
          BY <1>1, <3>2, <4>2 DEF RecordFailure, AttentionLayer
        <4>3. QED
          BY <3>4, <4>1, <4>2
      <3>5. QED
        BY <3>3, <3>4
    <2>4. CASE UNCHANGED layers
      BY <2>4
    <2>5. QED
      BY <2>1, <2>2, <2>3, <2>4 DEF Step, Prepare, Forward, LookupHit, LookupMiss, Touch,
         TouchEvicted, ShapeRefused, Store, EvictOldest, EvictMore, EvictDone, RunRefused, Launch,
         LaunchForgotten
  <1>5. QED
    BY <1>1, <1>2, <1>3, <1>4 DEF OnLayer

LEMMA InitPacks == Init => PackInv
  BY DEF Init, NewLayer, NoCall, PackInv, PackWhole, Binding

LEMMA NextPacks == TypeInv /\ PackInv /\ [Next]_vars => PackInv'
  <1> SUFFICES ASSUME TypeInv, ~FaultsPossible, BiasLayout = "all",
                      \A l \in Layers : PackWhole(l), [Next]_vars
               PROVE  \A l \in Layers : PackWhole(l)'
    BY DEF PackInv
  <1>1. ASSUME call' = call, NEW l \in Layers,
               layers'[l].weight = None <=> layers[l].weight = None,
               layers'[l].bias = None <=> layers[l].bias = None
        PROVE  PackWhole(l)'
    BY <1>1, PackStands DEF Packing, Binding
  <1>2. CASE HostEvent
    <2>1. call' = call
      BY <1>2 DEF HostEvent, UpdateInPlace, Reassign, ReplaceProjections, ChangeLayout, Update
    <2>2. ASSUME NEW l \in Layers
          PROVE  /\ layers'[l].weight = None <=> layers[l].weight = None
                 /\ layers'[l].bias = None <=> layers[l].bias = None
      <3>1. layers[l] \in AttentionLayer /\ version + 1 # None
        BY NoneAssumption DEF TypeInv, TypeOK, Versions
      <3>2. CASE UpdateInPlace
        BY <3>1, <3>2 DEF UpdateInPlace, AttentionLayer
      <3>3. CASE Reassign
        BY <3>1, <3>3 DEF Reassign, AttentionLayer
      <3>4. CASE ReplaceProjections \/ ChangeLayout
        BY <3>4 DEF ReplaceProjections, ChangeLayout
      <3>5. QED
        BY <1>2, <3>2, <3>3, <3>4 DEF HostEvent
    <2>3. QED
      BY <1>1, <2>1, <2>2
  <1>3. ASSUME NEW t \in Threads, NEW s \in Shapes, Arrive(t, s) PROVE \A l \in Layers : PackWhole(l)'
    <2> DEFINE c == [NoCall EXCEPT !.pc = "lookup", !.shape = s,
                       !.contended = \E u \in Threads \ {t} : Cold(u)]
    <2>1. /\ call \in [Threads -> CallRecord] /\ call' = [call EXCEPT ![t] = c]
          /\ c.pc = "lookup" /\ call[t].pc = "idle" /\ layers' = layers
      BY <1>3 DEF TypeInv, TypeOK, Arrive, NoCall, Idle
    <2> HIDE DEF c
    <2>2. OthersStand(t) /\ call'[t].pc = "lookup"
      BY <2>1 DEF OthersStand
    <2>3. QED
      BY <2>1, <2>2, PackPassing
  <1>4. ASSUME NEW t \in Threads, Step(t) PROVE \A l \in Layers : PackWhole(l)'
    <2>1. CASE Clear(t) \/ Pack(t) \/ Rebind(t) \/ Bias(t)
      BY <2>1, PackStep
    <2>2. ~AllocationFails(t)
      BY DEF AllocationFails
    <2>3. CASE ~Clear(t) /\ ~Pack(t) /\ ~Rebind(t) /\ ~Bias(t)
      BY <1>4, <2>2, <2>3, PacksLeftAlone, StepStands, PackPassing
    <2>4. QED
      BY <2>1, <2>3
  <1>5. CASE UNCHANGED vars
    BY <1>1, <1>5 DEF vars
  <1>6. QED
    BY <1>2, <1>3, <1>4, <1>5 DEF Next

(* For a host whose projections all have biases, any number of callers may *)
(* prepare the layers at once: when the last of them is done, no layer is  *)
(* left with a weight and no bias, or the other way round.                 *)
THEOREM PacksEndWhole ==
  ASSUME BiasLayout = "all"
  PROVE  Spec => []PacksWholeWhenQuiet
  <1>1. Spec => []TypeInv
    BY InitType, NextType, PTL DEF Spec
  <1>2. Init => PackInv
    BY InitPacks
  <1>3. TypeInv /\ PackInv /\ [Next]_vars => PackInv'
    BY NextPacks
  <1>4. Spec => []PackInv
    BY <1>1, <1>2, <1>3, PTL DEF Spec
  <1>5. PackInv => PacksWholeWhenQuiet
    BY DEF PackInv, PackWhole, Packing, Binding, PacksWholeWhenQuiet, Quiet, Idle
  <1>6. QED
    BY <1>4, <1>5, PTL

------------------------------------------------------------------------------
(* A cold call that no other preparation meets computes with the weights   *)
(* the host has: layer by layer it has them packed, projected and planned, *)
(* and the calls beside it change at most launch memos.                    *)

Packed(a, v) == a.weight = v /\ (BiasLayout # "none" => a.bias = v)

HasPacked(c, m) ==
  \/ c.pc \in {"clear", "pack", "rebind", "bias"} /\ m < c.layer
  \/ c.pc = "project" /\ m <= c.layer
  \/ c.pc \in {"shape", "release", "store", "evict", "pop", "run", "launch"}

HasProjected(c, m) ==
  \/ c.pc \in {"clear", "pack", "rebind", "bias", "project"} /\ m < c.layer
  \/ c.pc = "shape"

Alone(c) == c.pc # "idle" /\ c.cold /\ c.contended = FALSE

\* what a call has read so far of the layers it ran
ReadSoFar(c, v) == IF c.pc = "launch" \/ (c.pc = "run" /\ c.layer # 1) THEN {v} ELSE {}

OnCourse(c, ls, v) ==
  /\ c.pc \notin {"lookup", "touch"}
  /\ \A m \in Layers : HasPacked(c, m) => Packed(ls[m], v)
  /\ \A m \in Layers : HasProjected(c, m) => ls[m].workspace = v
  /\ c.pc \in {"rebind", "bias"} => ls[c.layer].weight = v
  /\ c.pc \in {"evict", "pop", "run", "launch"} => \A m \in Layers : c.plans[m].ver = v
  /\ c.used = ReadSoFar(c, v)
  /\ c.pc = "launch" => c.plans[c.layer].regime \in ls[c.layer].resolved

\* no two preparations are under way unless both calls know
Exclusive ==
  \A t \in Threads : \A u \in Threads \ {t} : ~Idle(t) /\ Cold(u) => call[t].contended

ExactInv ==
  /\ source <= version
  /\ Exclusive
  /\ \A t \in Threads : call[t].pc = "lookup" => call[t].used = {}
  /\ \A t \in Threads : Alone(call[t]) => OnCourse(call[t], layers, source)
  /\ \A t \in Threads : Alone(call[t]) /\ call[t].pc = "pop" => order # <<>>
  /\ ColdCallsExact

------------------------------------------------------------------------------
(* A lone preparation moves along its course.                              *)

LEMMA ClearCourse ==
  ASSUME TypeInv, NEW t \in Threads, OnCourse(call[t], layers, source), Clear(t)
  PROVE  OnCourse(call'[t], layers', source)
  <1>0. PICK k \in Layers : k = call[t].layer
    BY HereTyped DEF TypeInv
  <1>1. /\ call'[t].pc = "pack" /\ call'[t].layer = k /\ call'[t].used = call[t].used
        /\ call[t].pc = "clear"
    BY <1>0, GotoKeeps DEF Clear
  <1>2. \A m \in Layers : m < k => layers'[m] = layers[m]
    BY <1>0, OnLayerEffect, EncoderAssumption DEF Clear, Layers
  <1>3. QED
    BY <1>0, <1>1, <1>2 DEF OnCourse, HasPacked, HasProjected, ReadSoFar

LEMMA PackCourse ==
  ASSUME TypeInv, NEW t \in Threads, OnCourse(call[t], layers, source),
         Pack(t) \/ Rebind(t) \/ Bias(t)
  PROVE  OnCourse(call'[t], layers', source)
  <1>0. PICK k \in Layers : k = call[t].layer
    BY HereTyped DEF TypeInv
  <1> DEFINE a == layers[k]
  <1>1. a \in AttentionLayer /\ a = ThisLayer(t) /\ k = call[t].layer
    BY <1>0, HereTyped DEF TypeInv, ThisLayer
  <1>2. PICK b, pc : /\ OnLayer(t, b) /\ Goto(t, pc, k)
                     /\ \/ Pack(t) /\ b = PackWeights(a, source, t) /\ pc = "rebind"
                        \/ Rebind(t) /\ b = RebindWeights(a, t) /\ pc = "bias"
                        \/ Bias(t) /\ b = PackBiases(a, source) /\ pc = "project"
    BY <1>1 DEF Pack, Rebind, Bias
  <1>3. /\ call'[t].pc = pc /\ call'[t].layer = k /\ call'[t].used = call[t].used
        /\ call[t].pc \in {"pack", "rebind", "bias"}
    BY <1>2, GotoKeeps DEF Pack, Rebind, Bias
  <1>4. layers'[k] = b /\ \A m \in Layers : m < k => layers'[m] = layers[m]
    BY <1>0, <1>2, OnLayerEffect, EncoderAssumption DEF Layers
  <1>5. b.weight = source
    BY <1>1, <1>2 DEF PackWeights, RebindWeights, PackBiases, AttentionLayer, OnCourse,
       Rebind, Bias
  <1>6. pc = "project" => Packed(b, source)
    BY <1>1, <1>2, <1>5, BiasAssumption DEF Bias, PackBiases, AttentionLayer, Packed, BiasLayouts
  <1>7. \A m \in Layers : m <= k => m = k \/ m < k
    BY EncoderAssumption DEF Layers
  <1>8. \A m \in Layers : m < k => Packed(layers[m], source) /\ layers[m].workspace = source
    BY <1>0, <1>3 DEF OnCourse, HasPacked, HasProjected
  <1>9. call[t].used = {} /\ pc \in {"rebind", "bias", "project"}
    BY <1>2, <1>3 DEF OnCourse, ReadSoFar
  <1> HIDE DEF a
  <1>10. QED
    BY <1>3, <1>4, <1>5, <1>6, <1>7, <1>8, <1>9 DEF OnCourse, HasPacked, HasProjected, ReadSoFar

LEMMA ProjectCourse ==
  ASSUME TypeInv, NEW t \in Threads, OnCourse(call[t], layers, source), Project(t)
  PROVE  OnCourse(call'[t], layers', source)
  <1>0. PICK k \in Layers : k = call[t].layer
    BY HereTyped DEF TypeInv
  <1> DEFINE b == ProjectPositions(layers[k], source)
  <1>1. /\ call[t].pc = "project" /\ call[t].used = {}
        /\ \A m \in Layers : m <= k => Packed(layers[m], source)
        /\ \A m \in Layers : m < k => layers[m].workspace = source
    BY <1>0 DEF Project, OnCourse, HasPacked, HasProjected, ReadSoFar
  <1>2. b.workspace = source /\ b.weight = layers[k].weight /\ b.bias = layers[k].bias
    BY DEF TypeInv, TypeOK, ProjectPositions, AttentionLayer
  <1>3. layers'[k] = b /\ \A m \in Layers : m # k => layers'[m] = layers[m]
    BY <1>0, OnLayerEffect DEF Project, ThisLayer
  <1> HIDE DEF b
  <1>4. \A m \in Layers : m <= k => m = k \/ m < k
    BY EncoderAssumption DEF Layers
  <1>5. \A m \in Layers : m <= k => Packed(layers'[m], source) /\ layers'[m].workspace = source
    BY <1>1, <1>2, <1>3, <1>4 DEF Packed
  <1>6. CASE k < NumLayers
    <2>1. call'[t].pc = "clear" /\ call'[t].layer = k + 1 /\ call'[t].used = {}
      BY <1>0, <1>1, <1>6, GotoKeeps DEF Project, NextLayer
    <2>2. \A m \in Layers : m < k + 1 => m <= k
      BY EncoderAssumption DEF Layers
    <2>3. QED
      BY <2>1, <2>2, <1>5 DEF OnCourse, HasPacked, HasProjected, ReadSoFar
  <1>7. CASE ~(k < NumLayers)
    <2>1. call'[t].pc = "shape" /\ call'[t].layer = 1 /\ call'[t].used = {}
      BY <1>0, <1>1, <1>7, GotoKeeps DEF Project, NextLayer
    <2>2. \A m \in Layers : m <= k
      BY <1>7, EncoderAssumption DEF Layers
    <2>3. QED
      BY <2>1, <2>2, <1>5 DEF OnCourse, HasPacked, HasProjected, ReadSoFar
  <1>8. QED
    BY <1>6, <1>7

LEMMA ShapeCourse ==
  ASSUME TypeInv, NEW t \in Threads, OnCourse(call[t], layers, source), Shape(t)
  PROVE  OnCourse(call'[t], layers', source)
  <1> DEFINE a == ThisLayer(t)
             b == PrepareShape(a, call[t].shape)
             l == call[t].layer
             ps == [call[t].plans EXCEPT ![l] = ShapePlan(a, call[t].shape)]
             nl == IF l < NumLayers THEN l + 1 ELSE 1
             pc == IF l < NumLayers THEN "shape" ELSE "release"
             c == [call[t] EXCEPT !.plans = ps, !.layer = nl, !.pc = pc]
  <1>1. /\ call \in [Threads -> CallRecord] /\ a \in AttentionLayer /\ a = layers[l]
        /\ call[t].pc = "shape" /\ call[t].used = {} /\ l \in Layers
        /\ \A m \in Layers : Packed(layers[m], source) /\ layers[m].workspace = source
    BY HereTyped DEF TypeInv, TypeOK, Shape, OnCourse, HasPacked, HasProjected, ReadSoFar, ThisLayer
  <1>2. b.weight = a.weight /\ b.bias = a.bias /\ b.workspace = a.workspace
    BY <1>1 DEF PrepareShape, AttentionLayer
  <1>3. OnLayer(t, b) /\ call' = [call EXCEPT ![t] = c]
    BY DEF Shape
  <1> HIDE DEF b, ps, nl
  <1>4. c.pc = pc /\ c.used = call[t].used
    BY <1>1 DEF CallRecord
  <1> HIDE DEF c
  <1>5. call'[t].pc \in {"shape", "release"} /\ call'[t].used = {}
    BY <1>1, <1>3, <1>4
  <1>6. \A m \in Layers : Packed(layers'[m], source) /\ layers'[m].workspace = source
    BY <1>1, <1>2, <1>3, OnLayerEffect DEF Packed
  <1>7. QED
    BY <1>5, <1>6 DEF OnCourse, HasPacked, HasProjected, ReadSoFar

LEMMA ReleaseCourse ==
  ASSUME TypeInv, NEW t \in Threads, OnCourse(call[t], layers, source), Release(t)
  PROVE  OnCourse(call'[t], layers', source)
  <1> DEFINE a == ThisLayer(t)
             b == ReleaseWorkspace(a)
  <1>1. /\ a \in AttentionLayer /\ a = layers[call[t].layer] /\ call[t].used = {}
        /\ \A m \in Layers : Packed(layers[m], source)
    BY HereTyped DEF TypeInv, Release, OnCourse, HasPacked, ReadSoFar, ThisLayer
  <1>2. b.weight = a.weight /\ b.bias = a.bias /\ OnLayer(t, b)
    BY <1>1 DEF ReleaseWorkspace, AttentionLayer, Release
  <1> HIDE DEF b
  <1>3. \A m \in Layers : Packed(layers'[m], source)
    BY <1>1, <1>2, OnLayerEffect DEF Packed
  <1>4. PICK pc \in {"release", "store"} : \E l : Goto(t, pc, l)
    BY DEF Release, NextLayer
  <1>5. call'[t].pc \in {"release", "store"} /\ call'[t].used = {}
    BY <1>1, <1>4, GotoKeeps
  <1>6. QED
    BY <1>3, <1>5 DEF OnCourse, HasProjected, ReadSoFar

LEMMA StoreCourse ==
  ASSUME TypeInv, PublishInv, NEW t \in Threads, OnCourse(call[t], layers, source),
         \/ Store(t) \/ EvictMore(t) \/ EvictDone(t)
         \/ EvictOldest(t) /\ Goto(t, "evict", 1)
  PROVE  OnCourse(call'[t], layers', source)
  <1>1. /\ layers' = layers /\ call[t].used = {} /\ call[t].pc \in {"store", "evict", "pop"}
        /\ \A m \in Layers : Packed(layers[m], source)
    BY PopCases DEF Store, EvictMore, EvictDone, OnCourse, HasPacked, ReadSoFar
  <1>2. \A m \in Layers : call[t].plans[m].ver = source
    BY <1>1 DEF OnCourse, PublishInv, CallClean, HasMade
  <1>3. PICK pc \in {"evict", "pop", "run"} : Goto(t, pc, 1)
    BY DEF Store, EvictMore, EvictDone
  <1>4. /\ call'[t].pc = pc /\ call'[t].layer = 1 /\ call'[t].used = {}
        /\ call'[t].plans = call[t].plans
    BY <1>1, <1>3, GotoKeeps
  <1>5. QED
    BY <1>1, <1>2, <1>4 DEF OnCourse, HasProjected, ReadSoFar

LEMMA RunCourse ==
  ASSUME TypeInv, NEW t \in Threads, OnCourse(call[t], layers, source), Run(t)
  PROVE  OnCourse(call'[t], layers', source)
  <1> DEFINE a == ThisLayer(t)
             k == call[t].layer
             p == call[t].plans[k]
             b == MemoizeConfig(a, p.regime)
             us == call[t].used \cup {a.weight, p.ver} \cup IF BiasLayout = "none" THEN {} ELSE {a.bias}
             c == [call[t] EXCEPT !.used = us, !.pc = "launch"]
  <1>1. /\ call \in [Threads -> CallRecord] /\ a \in AttentionLayer /\ a = layers[k] /\ k \in Layers
        /\ call[t].used \in {{}, {source}}
        /\ \A m \in Layers : Packed(layers[m], source) /\ call[t].plans[m].ver = source
    BY HereTyped DEF TypeInv, TypeOK, Run, OnCourse, HasPacked, ReadSoFar, ThisLayer
  <1>2. /\ b.weight = a.weight /\ b.bias = a.bias /\ p.regime \in b.resolved
        /\ OnLayer(t, b) /\ call' = [call EXCEPT ![t] = c]
    BY <1>1 DEF MemoizeConfig, AttentionLayer, Run
  <1>3. us = {source}
    BY <1>1 DEF Packed
  <1> HIDE DEF b, us
  <1>4. c.pc = "launch" /\ c.layer = k /\ c.plans = call[t].plans /\ c.used = us
    BY <1>1 DEF CallRecord
  <1> HIDE DEF c
  <1>5. /\ call'[t].pc = "launch" /\ call'[t].layer = k /\ call'[t].plans = call[t].plans
        /\ call'[t].used = {source}
    BY <1>1, <1>2, <1>3, <1>4
  <1>6. (\A m \in Layers : Packed(layers'[m], source)) /\ layers'[k] = b
    BY <1>1, <1>2, OnLayerEffect DEF Packed
  <1>7. QED
    BY <1>1, <1>2, <1>5, <1>6 DEF OnCourse, HasProjected, ReadSoFar

LEMMA LaunchCourse ==
  ASSUME TypeInv, NEW t \in Threads, OnCourse(call[t], layers, source),
         Launch(t) \/ LaunchFallsBack(t), call[t].layer < NumLayers
  PROVE  OnCourse(call'[t], layers', source)
  <1> DEFINE a == ThisLayer(t)
             b == RecordFailure(a, LaunchRegime(t))
  <1>1. /\ a \in AttentionLayer /\ a = layers[call[t].layer] /\ call[t].layer \in Layers
        /\ call[t].used = {source}
        /\ \A m \in Layers : Packed(layers[m], source) /\ call[t].plans[m].ver = source
    BY HereTyped DEF TypeInv, Launch, LaunchFallsBack, OnCourse, HasPacked, ReadSoFar, ThisLayer
  <1>2. b.weight = a.weight /\ b.bias = a.bias /\ (layers' = layers \/ OnLayer(t, b))
    BY <1>1 DEF RecordFailure, AttentionLayer, Launch, LaunchFallsBack
  <1> HIDE DEF b
  <1>3. \A m \in Layers : Packed(layers'[m], source)
    BY <1>1, <1>2, OnLayerEffect DEF Packed
  <1>4. Goto(t, "run", call[t].layer + 1)
    BY DEF Launch, LaunchFallsBack, Launched
  <1>5. /\ call'[t].pc = "run" /\ call'[t].layer = call[t].layer + 1
        /\ call'[t].plans = call[t].plans /\ call'[t].used = {source}
    BY <1>1, <1>4, GotoKeeps
  <1>6. call[t].layer + 1 # 1
    BY <1>1, EncoderAssumption DEF Layers
  <1>7. QED
    BY <1>1, <1>3, <1>5, <1>6 DEF OnCourse, HasProjected, ReadSoFar

LEMMA StepExclusive ==
  ASSUME TypeInv, Exclusive, NEW t \in Threads, Step(t)
  PROVE  Exclusive'
  <1> SUFFICES ASSUME NEW v \in Threads, NEW u \in Threads \ {v}, ~Idle(v)', Cold(u)'
               PROVE  call'[v].contended
    BY DEF Exclusive
  <1>0. \A w \in Threads : call[w] \in CallRecord
    BY DEF TypeInv, TypeOK
  <1>1. CASE v = t
    <2>1. ~Idle(t) /\ call'[t].contended = call[t].contended
      BY <1>1, OwnKept DEF Idle
    <2>2. Cold(u)
      BY <1>1, StepStands DEF OthersStand, Cold
    <2>3. QED
      BY <1>1, <2>1, <2>2 DEF Exclusive
  <1>2. CASE v # t
    <2>1. ~Idle(v)
      BY <1>2, StepStands DEF OthersStand, Idle
    <2>2. call[v].contended => call'[v].contended
      BY <1>0, <1>2, OthersKept DEF CallRecord
    <2>3. CASE u = t
      <3>1. Cold(t) \/ LookupMiss(t)
        <4>1. call'[t].pc # "idle"
          BY <2>3 DEF Cold, ColdSteps
        <4>2. QED
          BY <2>3, <4>1, OwnKept
      <3>2. CASE LookupMiss(t)
        BY <1>0, <1>2, <2>1, <3>2 DEF LookupMiss, CallRecord
      <3>3. QED
        BY <2>1, <2>2, <2>3, <3>1, <3>2 DEF Exclusive
    <2>4. CASE u # t
      <3>1. Cold(u)
        BY <2>4, StepStands DEF OthersStand, Cold
      <3>2. QED
        BY <2>1, <2>2, <3>1 DEF Exclusive
    <2>5. QED
      BY <2>3, <2>4
  <1>3. QED
    BY <1>1, <1>2

(* The steps outside a preparation leave every pack and workspace alone    *)
(* and forget no launch memo.                                              *)
LEMMA WarmStep ==
  ASSUME TypeInv, NEW t \in Threads, Step(t), ~Cold(t), NEW m \in Layers
  PROVE  /\ layers'[m].weight = layers[m].weight /\ layers'[m].bias = layers[m].bias
         /\ layers'[m].workspace = layers[m].workspace
         /\ layers[m].resolved \subseteq layers'[m].resolved
  <1> DEFINE a == ThisLayer(t)
  <1>1. a \in AttentionLayer /\ a = layers[call[t].layer]
    BY HereTyped DEF TypeInv, ThisLayer
  <1>2. \/ layers' = layers
        \/ \E b \in {MemoizeConfig(a, LaunchRegime(t)), RecordFailure(a, LaunchRegime(t))} :
             OnLayer(t, b)
    <2>1. CASE Run(t) \/ LaunchFallsBack(t) \/ LaunchFails(t)
      BY <2>1 DEF Run, LaunchFallsBack, LaunchFails, LaunchRegime
    <2>2. CASE ~Run(t) /\ ~LaunchFallsBack(t) /\ ~LaunchFails(t)
      BY <2>2 DEF Step, Prepare, Forward, LookupHit, LookupMiss, Touch,
         TouchEvicted, Clear, Pack, Rebind, Bias, Project, Shape, ShapeRefused,
         Release, Store, EvictOldest, EvictMore, EvictDone, RunRefused, Launch,
         LaunchForgotten, AllocationFails, Cold, ColdSteps
    <2>3. QED
      BY <2>1, <2>2
  <1>3. ASSUME NEW b \in {MemoizeConfig(a, LaunchRegime(t)), RecordFailure(a, LaunchRegime(t))}
        PROVE  /\ b.weight = a.weight /\ b.bias = a.bias /\ b.workspace = a.workspace
               /\ a.resolved \subseteq b.resolved
    BY <1>1 DEF MemoizeConfig, RecordFailure, AttentionLayer
  <1> HIDE DEF a
  <1>4. CASE layers' = layers
    BY <1>4
  <1>5. ASSUME NEW b \in {MemoizeConfig(a, LaunchRegime(t)), RecordFailure(a, LaunchRegime(t))},
               OnLayer(t, b)
        PROVE  /\ layers'[m].weight = layers[m].weight /\ layers'[m].bias = layers[m].bias
               /\ layers'[m].workspace = layers[m].workspace
               /\ layers[m].resolved \subseteq layers'[m].resolved
    <2>1. CASE m = call[t].layer
      BY <1>1, <1>3, <1>5, <2>1, OnLayerEffect
    <2>2. CASE m # call[t].layer
      BY <1>5, <2>2, OnLayerEffect
    <2>3. QED
      BY <2>1, <2>2
  <1>6. QED
    BY <1>2, <1>4, <1>5

LEMMA CourseKept ==
  ASSUME TypeInv, NEW t \in Threads, Step(t), ~Cold(t), NEW u \in Threads,
         OnCourse(call[u], layers, source)
  PROVE  OnCourse(call[u], layers', source)
  <1>1. call[u].layer \in Layers
    BY HereTyped DEF TypeInv
  <1>2. ASSUME NEW m \in Layers
        PROVE  /\ Packed(layers[m], source) => Packed(layers'[m], source)
               /\ layers'[m].weight = layers[m].weight
               /\ layers'[m].workspace = layers[m].workspace
               /\ layers[m].resolved \subseteq layers'[m].resolved
    BY WarmStep DEF Packed
  <1>3. QED
    BY <1>1, <1>2 DEF OnCourse

LEMMA OtherCourse ==
  ASSUME TypeInv, ExactInv, NEW t \in Threads, Step(t), NEW u \in Threads \ {t}, Alone(call'[u])
  PROVE  OnCourse(call'[u], layers', source)
  <1>1. call[u] \in CallRecord
    BY DEF TypeInv, TypeOK
  <1>2. call'[u] = call[u]
    BY <1>1, OthersKept DEF Alone, CallRecord
  <1>3. OnCourse(call[u], layers, source) /\ ~Cold(t)
    BY <1>1, <1>2 DEF ExactInv, Exclusive, Alone, Idle
  <1>4. QED
    BY <1>2, <1>3, CourseKept

LEMMA OwnCourse ==
  ASSUME TypeInv, PublishInv, ExactInv, NEW t \in Threads, Step(t), Alone(call'[t])
  PROVE  OnCourse(call'[t], layers', source)
  <1>0. call \in [Threads -> CallRecord] /\ call'[t].pc # "idle"
    BY DEF TypeInv, TypeOK, Alone
  <1>1. CASE LookupMiss(t)
    <2>1. /\ call'[t].pc = "clear" /\ call'[t].layer = 1 /\ call'[t].used = call[t].used
          /\ call[t].pc = "lookup"
      BY <1>0, <1>1 DEF LookupMiss, CallRecord
    <2>2. \A m \in Layers : ~(m < 1)
      BY FirstLayer DEF Layers
    <2>3. call[t].used = {}
      BY <2>1 DEF ExactInv
    <2>4. QED
      BY <2>1, <2>2, <2>3 DEF OnCourse, HasPacked, HasProjected, ReadSoFar
  <1>2. CASE ~LookupMiss(t)
    <2>1. OnCourse(call[t], layers, source)
      BY <1>0, <1>2, OwnKept DEF ExactInv, Alone, Idle
    <2>2. ~LookupHit(t) /\ ~Touch(t)
      BY <2>1 DEF OnCourse, LookupHit, Touch
    <2>3. CASE EvictOldest(t)
      <3>1. Goto(t, "evict", 1)
        BY <1>0, <2>3, PopCases, EndKeeps
      <3>2. QED
        BY <2>1, <2>3, <3>1, StoreCourse
    <2>4. CASE Launch(t) \/ LaunchFallsBack(t)
      <3>1. call[t].layer < NumLayers
        BY <1>0, <2>4, EndKeeps DEF Launch, LaunchFallsBack, Launched
      <3>2. QED
        BY <2>1, <2>4, <3>1, LaunchCourse
    <2>5. CASE FailCall(t) \/ \E outcome : End(t, outcome)
      BY <1>0, <2>5, EndKeeps, FailKeeps
    <2>6. CASE \/ TouchEvicted(t) \/ ShapeRefused(t) \/ RunRefused(t)
               \/ LaunchForgotten(t) \/ LaunchFails(t) \/ AllocationFails(t)
      BY <2>5, <2>6 DEF TouchEvicted, ShapeRefused, RunRefused, LaunchForgotten,
         LaunchFails, AllocationFails
    <2>7. CASE \/ Clear(t) \/ Pack(t) \/ Rebind(t) \/ Bias(t) \/ Project(t) \/ Shape(t)
      BY <2>1, <2>7, ClearCourse, PackCourse, ProjectCourse, ShapeCourse
    <2>8. CASE Release(t) \/ Run(t)
      BY <2>1, <2>8, ReleaseCourse, RunCourse
    <2>9. CASE Store(t) \/ EvictMore(t) \/ EvictDone(t)
      BY <2>1, <2>9, StoreCourse
    <2>10. QED
      BY <1>2, <2>2, <2>3, <2>4, <2>6, <2>7, <2>8, <2>9 DEF Step, Prepare, Forward
  <1>3. QED
    BY <1>1, <1>2

(* How a call on course ends.                                              *)
LEMMA CourseAnswer ==
  ASSUME TypeInv, NEW t \in Threads, Step(t), call'[t].pc = "idle", Attached,
         OnCourse(call[t], layers, source), call[t].pc = "pop" => order # <<>>
  PROVE  \/ FaultsPossible /\ FailCall(t)
         \/ call'[t].outcome = "exact"
         \/ call'[t].outcome = "raised" /\ (~layoutFits \/ HasGap(call[t].shape))
  <1>1. CASE AllocationFails(t) \/ LaunchFails(t)
    BY <1>1 DEF AllocationFails, LaunchFails
  <1>2. ASSUME NEW outcome, End(t, outcome) PROVE call'[t].outcome = outcome
    BY <1>2, EndKeeps
  <1>3. /\ call \in [Threads -> CallRecord] /\ call[t].layer \in Layers
        /\ ThisLayer(t) = layers[call[t].layer] /\ source # None
    BY HereTyped, NoneAssumption DEF TypeInv, TypeOK, ThisLayer
  <1>4. CASE ShapeRefused(t)
    <2>1. End(t, "raised") /\ call[t].pc = "shape" /\ ~CanPrepareShape(ThisLayer(t), call[t].shape)
      BY <1>4 DEF ShapeRefused
    <2>2. ThisLayer(t).workspace = source
      BY <1>3, <2>1 DEF OnCourse, HasProjected
    <2>3. HasGap(call[t].shape)
      BY <1>3, <2>1, <2>2 DEF CanPrepareShape, HasGap
    <2>4. QED
      BY <1>2, <2>1, <2>3
  <1>5. CASE RunRefused(t)
    <2>1. /\ End(t, "raised") /\ call[t].pc = "run" /\ ~Runnable(t)
      BY <1>5 DEF RunRefused
    <2>2. call'[t].outcome = "raised" /\ ThisLayer(t).weight = source
      BY <1>2, <1>3, <2>1 DEF OnCourse, HasPacked, Packed
    <2>3. QED
      BY <1>3, <2>1, <2>2 DEF Runnable
  <1>6. CASE Launch(t) \/ LaunchFallsBack(t)
    <2>1. call[t].pc = "launch" /\ Launched(t)
      BY <1>6 DEF Launch, LaunchFallsBack
    <2>2. End(t, IF call[t].used = {version} THEN "exact" ELSE "inexact")
      BY <2>1, GotoKeeps DEF Launched
    <2>3. call[t].used = {version}
      BY <2>1 DEF OnCourse, ReadSoFar, Attached
    <2>4. QED
      BY <2>2, <2>3, EndKeeps
  <1>7. ~TouchEvicted(t) /\ ~LaunchForgotten(t) /\ ~(EvictOldest(t) /\ order = <<>>)
    <2>1. ASSUME TouchEvicted(t) PROVE FALSE
      BY <2>1 DEF TouchEvicted, OnCourse
    <2>2. ASSUME EvictOldest(t), order = <<>> PROVE FALSE
      BY <2>2, PopCases
    <2>3. ASSUME LaunchForgotten(t) PROVE FALSE
      BY <1>3, <2>3 DEF LaunchForgotten, OnCourse, LaunchRegime
    <2>4. QED
      BY <2>1, <2>2, <2>3
  <1>8. QED
    BY <1>1, <1>4, <1>5, <1>6, <1>7, StepEnds

(* How a lone cold call ends.                                              *)
LEMMA OwnAnswer ==
  ASSUME TypeInv, ExactInv, NEW t \in Threads, Step(t), call'[t].pc = "idle",
         call'[t].cold, call'[t].contended = FALSE, Attached
  PROVE  \/ call'[t].outcome = "exact"
         \/ /\ call'[t].outcome = "raised"
            /\ call'[t].faulted \/ ~layoutFits \/ HasGap(call'[t].shape)
  <1>1. CASE FailCall(t)
    BY <1>1, FailKeeps
  <1>2. CASE \E outcome : End(t, outcome)
    <2>1. Alone(call[t]) /\ call'[t].shape = call[t].shape
      BY <1>2, EndKeeps, StepRuns DEF Alone, Idle
    <2>2. QED
      BY <1>1, <2>1, CourseAnswer DEF ExactInv
  <1>3. QED
    BY <1>1, <1>2, StepEnds

(* The check of the length comes before the popitem.                       *)
LEMMA PopsAfterCheck ==
  ASSUME TypeInv, NEW t \in Threads, Step(t), call'[t].pc = "pop"
  PROVE  EvictMore(t)
  <1>1. call \in [Threads -> CallRecord]
    BY DEF TypeInv, TypeOK
  <1>2. ASSUME NEW pc, NEW l, Goto(t, pc, l) PROVE pc = "pop"
    BY <1>2, GotoKeeps
  <1>3. ~FailCall(t) /\ \A outcome : ~End(t, outcome)
    BY EndKeeps, FailKeeps
  <1>4. ~LookupHit(t) /\ ~Run(t)
    BY <1>1 DEF LookupHit, Run, CallRecord
  <1>5. ~LookupMiss(t) /\ ~Shape(t)
    BY MissMoves, ShapeMoves
  <1>6. ~ \/ Clear(t) \/ Pack(t) \/ Rebind(t) \/ Bias(t) \/ Project(t) \/ Release(t)
          \/ Store(t) \/ EvictDone(t) \/ Touch(t)
    BY <1>2 DEF Clear, Pack, Rebind, Bias, Project, Release, Store, EvictDone, Touch, NextLayer
  <1>7. ~EvictOldest(t)
    BY <1>2, <1>3, PopCases
  <1>8. ~ \/ TouchEvicted(t) \/ ShapeRefused(t) \/ RunRefused(t) \/ Launch(t)
          \/ LaunchFallsBack(t) \/ LaunchForgotten(t) \/ LaunchFails(t) \/ AllocationFails(t)
    BY <1>2, <1>3 DEF TouchEvicted, ShapeRefused, RunRefused, Launch, LaunchFallsBack,
       LaunchForgotten, LaunchFails, AllocationFails, Launched
  <1>9. QED
    BY <1>4, <1>5, <1>6, <1>7, <1>8 DEF Step, Prepare, Forward

(* A step outside the cold path does not empty the cache.                  *)
LEMMA WarmOrder ==
  ASSUME TypeInv, NEW t \in Threads, Step(t), ~Cold(t), order # <<>>
  PROVE  order' # <<>>
  <1>1. CASE Touch(t)
    <2>1. order' = MovedToEnd(call[t].shape) /\ order \in Seq(Shapes)
      BY <1>1 DEF Touch, TypeInv, TypeOK
    <2>2. DOMAIN order' = DOMAIN order /\ DOMAIN order # {}
      BY <2>1 DEF MovedToEnd
    <2>3. QED
      BY <2>2
  <1>2. CASE ~Touch(t)
    BY <1>2 DEF Cold, ColdSteps, lru, Step, Prepare, Forward, LookupHit, LookupMiss,
       TouchEvicted, Clear, Pack, Rebind, Bias, Project, Shape, ShapeRefused,
       Release, Store, EvictOldest, EvictMore, EvictDone, Run, RunRefused, Launch, LaunchFallsBack,
       LaunchForgotten, LaunchFails, AllocationFails
  <1>3. QED
    BY <1>1, <1>2

LEMMA StepExact ==
  ASSUME TypeInv, PublishInv, ExactInv, NEW t \in Threads, Step(t)
  PROVE  ExactInv'
  <1>1. UNCHANGED host /\ \A u \in Threads : call[u] \in CallRecord
    BY DEF TypeInv, TypeOK, Step, Prepare, Forward, LookupHit, LookupMiss, Touch,
       TouchEvicted, Clear, Pack, Rebind, Bias, Project, Shape, ShapeRefused,
       Release, Store, EvictOldest, EvictMore, EvictDone, Run, RunRefused, Launch, LaunchFallsBack,
       LaunchForgotten, LaunchFails, AllocationFails
  <1>2. source' = source /\ version' = version /\ layoutFits' = layoutFits
    BY <1>1 DEF host
  <1>3. Exclusive'
    BY StepExclusive DEF ExactInv
  <1>4. ASSUME NEW u \in Threads, call'[u].pc = "lookup" PROVE call'[u].used = {}
    <2>1. u # t
      BY <1>4, OwnKept
    <2>2. call'[u].used = call[u].used /\ call'[u].pc = call[u].pc
      <3> DEFINE c == [call[u] EXCEPT !.contended = TRUE]
      <3>1. c.used = call[u].used /\ c.pc = call[u].pc
        BY <1>1 DEF CallRecord
      <3>2. call'[u] \in {call[u], c}
        BY <2>1, OthersKept
      <3> HIDE DEF c
      <3>3. QED
        BY <3>1, <3>2
    <2>3. QED
      BY <1>4, <2>2 DEF ExactInv
  <1>5. ASSUME NEW u \in Threads, Alone(call'[u]) PROVE OnCourse(call'[u], layers', source)
    BY <1>5, OwnCourse, OtherCourse
  <1>6. ASSUME NEW u \in Threads, Alone(call'[u]), call'[u].pc = "pop" PROVE order' # <<>>
    <2>1. CASE u = t
      <3>1. EvictMore(t)
        BY <1>6, <2>1, PopsAfterCheck
      <3>2. QED
        BY <3>1, EncoderAssumption DEF EvictMore, OverCapacity, lru, TypeInv, TypeOK
    <2>2. CASE u # t
      <3>1. Alone(call[u]) /\ call[u].pc = "pop" /\ ~Cold(t)
        <4>1. call'[u] = call[u]
          BY <1>1, <1>6, <2>2, OthersKept DEF Alone, CallRecord
        <4>2. QED
          BY <1>6, <2>2, <4>1 DEF ExactInv, Exclusive, Alone, Idle
      <3>2. order # <<>>
        BY <3>1 DEF ExactInv
      <3>3. QED
        BY <3>1, <3>2, WarmOrder
    <2>3. QED
      BY <2>1, <2>2
  <1>7. ColdCallsExact'
    <2> SUFFICES ASSUME NEW u \in Threads, call'[u].pc = "idle", call'[u].cold,
                        ~call'[u].contended, Attached
                 PROVE  \/ call'[u].outcome = "exact"
                        \/ /\ call'[u].outcome = "raised"
                           /\ call'[u].faulted \/ ~layoutFits \/ HasGap(call'[u].shape)
      BY <1>2 DEF ColdCallsExact, Idle, Attached, HasGap
    <2>1. CASE u = t
      <3>1. call'[t].contended = FALSE
        <4>1. call' \in [Threads -> CallRecord]
          BY NextType DEF Next, TypeInv, TypeOK
        <4>2. QED
          BY <2>1, <4>1 DEF CallRecord
      <3>2. QED
        BY <2>1, <3>1, OwnAnswer
    <2>2. CASE u # t
      <3>1. call'[u] = call[u]
        <4>1. call[u].pc = "idle"
          BY <2>2, StepStands DEF OthersStand
        <4>2. QED
          BY <2>2, <4>1, OthersKept DEF Idle
      <3>2. QED
        BY <3>1 DEF ExactInv, ColdCallsExact, Idle
    <2>3. QED
      BY <2>1, <2>2
  <1>8. QED
    BY <1>2, <1>3, <1>4, <1>5, <1>6, <1>7 DEF ExactInv

LEMMA ArriveExact ==
  ASSUME TypeInv, ExactInv, NEW t \in Threads, NEW s \in Shapes, Arrive(t, s)
  PROVE  ExactInv'
  <1> DEFINE met == \E u \in Threads \ {t} : Cold(u)
             c == [NoCall EXCEPT !.pc = "lookup", !.shape = s, !.contended = met]
  <1>1. /\ source' = source /\ version' = version /\ layoutFits' = layoutFits /\ layers' = layers
        /\ call \in [Threads -> CallRecord] /\ call' = [call EXCEPT ![t] = c] /\ Idle(t)
    BY DEF Arrive, TypeInv, TypeOK, host
  <1>2. c.pc = "lookup" /\ c.used = {} /\ c.cold = FALSE /\ c.contended = met
    BY DEF NoCall
  <1> HIDE DEF c
  <1>3. call'[t] = c /\ \A u \in Threads \ {t} : call'[u] = call[u]
    BY <1>1
  <1>4. Exclusive'
    <2> SUFFICES ASSUME NEW v \in Threads, NEW u \in Threads \ {v}, ~Idle(v)', Cold(u)'
                 PROVE  call'[v].contended
      BY DEF Exclusive
    <2>1. u # t /\ Cold(u)
      BY <1>2, <1>3 DEF Cold, ColdSteps
    <2>2. CASE v = t
      BY <1>2, <1>3, <2>1, <2>2
    <2>3. CASE v # t
      BY <1>3, <2>1, <2>3 DEF ExactInv, Exclusive, Idle
    <2>4. QED
      BY <2>2, <2>3
  <1>5. \A u \in Threads : call'[u].pc = "lookup" => call'[u].used = {}
    BY <1>2, <1>3 DEF ExactInv
  <1>6. \A u \in Threads : Alone(call'[u]) =>
          /\ OnCourse(call'[u], layers, source)
          /\ call'[u].pc = "pop" => order # <<>>
    BY <1>2, <1>3 DEF ExactInv, Alone
  <1>7. ColdCallsExact'
    BY <1>1, <1>2, <1>3 DEF ExactInv, ColdCallsExact, Idle, Attached, HasGap
  <1>8. order' = order
    BY DEF Arrive, lru
  <1>9. QED
    BY <1>1, <1>4, <1>5, <1>6, <1>7, <1>8 DEF ExactInv

(* The host changes between calls. It attaches nothing that was detached   *)
(* and restores no layout, so what a call answered stays right.            *)
LEMMA HostEventExact ==
  ASSUME TypeInv, ExactInv, HostEvent
  PROVE  ExactInv'
  <1>1. call' = call /\ \A t \in Threads : call[t].pc = "idle"
    BY DEF HostEvent, UpdateInPlace, Reassign, ReplaceProjections, ChangeLayout, Update, Quiet, Idle
  <1>2. /\ source' <= version' /\ (source' = version' => source = version)
        /\ layoutFits' => layoutFits
    <2>1. version \in Nat /\ source \in Nat /\ source <= version
      BY DEF TypeInv, TypeOK, Versions, ExactInv
    <2>2. CASE UpdateInPlace
      <3>1. /\ version' = version + 1 /\ layoutFits' = layoutFits
            /\ source' = IF source = version THEN version + 1 ELSE source
        BY <2>2 DEF UpdateInPlace, Update, Attached
      <3>2. QED
        BY <2>1, <3>1
    <2>3. CASE Reassign
      BY <2>1, <2>3 DEF Reassign, Update, Attached
    <2>4. CASE ReplaceProjections
      BY <2>1, <2>4 DEF ReplaceProjections, Update
    <2>5. CASE ChangeLayout
      BY <2>1, <2>5 DEF ChangeLayout
    <2>6. QED
      BY <2>2, <2>3, <2>4, <2>5 DEF HostEvent
  <1>3. ColdCallsExact'
    BY <1>1, <1>2 DEF ExactInv, ColdCallsExact, Idle, Attached
  <1>4. QED
    BY <1>1, <1>2, <1>3 DEF ExactInv, Exclusive, Alone, Idle, Cold, ColdSteps

LEMMA InitExact == Init => ExactInv
  BY DEF Init, NoCall, ExactInv, Exclusive, Idle, Alone, ColdCallsExact

LEMMA NextExact == TypeInv /\ PublishInv /\ ExactInv /\ [Next]_vars => ExactInv'
  <1>1. ASSUME UNCHANGED vars, ExactInv PROVE ExactInv'
    BY <1>1 DEF vars, host, lru, ExactInv, Exclusive, Idle, Cold, ColdCallsExact, Attached, HasGap
  <1>2. QED
    BY <1>1, StepExact, ArriveExact, HostEventExact DEF Next

(* Whatever was updated or failed before it and whichever warm calls run   *)
(* beside it, a call that prepares its length alone computes with the      *)
(* weights the host has then, for every layer and from nothing else; it    *)
(* fails only for a fault of its own or a host the kernel cannot serve.    *)
THEOREM ColdCallsStayExact == Spec => []ColdCallsExact
  <1>1. Spec => []TypeInv
    BY InitType, NextType, PTL DEF Spec
  <1>2. Spec => []PublishInv
    BY <1>1, InitPublish, NextPublish, PTL DEF Spec
  <1>3. Spec => []ExactInv
    BY <1>1, <1>2, InitExact, NextExact, PTL DEF Spec
  <1>4. ExactInv => ColdCallsExact
    BY DEF ExactInv
  <1>5. QED
    BY <1>3, <1>4, PTL

------------------------------------------------------------------------------
(* A single caller's cold call leaves each layer with the tables of one    *)
(* length: bare until it is shaped, and then with that shape only.         *)

Bare(a) == (\A s \in Shapes : a.shapes[s] = None) /\ (\A r \in Ranges : a.compact[r] = None)

KeepsOnly(a, s) ==
  /\ s \in Shapes
  /\ \A x \in Shapes : a.shapes[x] # None <=> x = s
  /\ \A r \in Ranges : a.compact[r] # None <=> r = SlotRange[Regime[s]]

Trimmed(a, s) == KeepsOnly(a, s) /\ a.workspace = None

\* the layers a preparation has cleared and not shaped
LeavesBare(c, m) ==
  \/ c.pc = "clear" /\ m < c.layer
  \/ c.pc \in {"pack", "rebind", "bias", "project"} /\ m <= c.layer
  \/ c.pc = "shape" /\ ~(m < c.layer)

HasShaped(c, m) == (c.pc = "shape" /\ m < c.layer) \/ c.pc = "release"

HasReleased(c, m) ==
  \/ c.pc = "release" /\ m < c.layer
  \/ c.pc \in {"store", "evict", "pop"}
  \/ c.cold /\ c.pc \in {"run", "launch"}
  \/ c.cold /\ c.pc = "idle" /\ c.outcome \in {"exact", "inexact"}

TrimsLayer(c, a, m) ==
  /\ LeavesBare(c, m) => Bare(a)
  /\ HasShaped(c, m) => KeepsOnly(a, c.shape)
  /\ HasReleased(c, m) => Trimmed(a, c.shape)

Trims(c, ls) ==
  /\ c.pc \in {"lookup", "touch"} => c.cold = FALSE
  /\ \A m \in Layers : TrimsLayer(c, ls[m], m)

TrimInv == \A t \in Threads : Threads = {t} => Trims(call[t], layers)

LEMMA ShapingKeepsOne ==
  ASSUME NEW a \in AttentionLayer, NEW s \in Shapes, Bare(a), CanPrepareShape(a, s)
  PROVE  KeepsOnly(PrepareShape(a, s), s)
  <1> DEFINE b == PrepareShape(a, s)
             p == ShapePlan(a, s)
             n == NarrowedTable(a, s)
             range == SlotRange[Regime[s]]
  <1>1. Regime[s] \in Shapes /\ range \in Ranges
    BY RegimeAssumption
  <1>2. a.shapes[s] = None /\ Representative(a, s) = None /\ CompactTable(a, s) = None
    BY <1>1 DEF Bare, Representative, CompactTable
  <1>3. p # None /\ n # None
    BY <1>2, ShapePlanTyped, NoneAssumption DEF Plan, CanPrepareShape, NarrowedTable
  <1>4. /\ b.shapes = [a.shapes EXCEPT ![s] = p]
        /\ b.compact = [a.compact EXCEPT ![range] = n]
    BY <1>2 DEF PrepareShape, AttentionLayer
  <1>5. a.shapes \in [Shapes -> Plan \cup {None}] /\ a.compact \in [Ranges -> Versions \cup {None}]
    BY DEF AttentionLayer
  <1> HIDE DEF b, p, n
  <1>6. \A x \in Shapes : b.shapes[x] # None <=> x = s
    BY <1>3, <1>4, <1>5 DEF Bare
  <1>7. \A r \in Ranges : b.compact[r] # None <=> r = range
    BY <1>1, <1>3, <1>4, <1>5 DEF Bare
  <1>8. QED
    BY <1>6, <1>7 DEF KeepsOnly, b

(* An operation that leaves the tables of a layer alone.                   *)
SameTables(a, b) == b.shapes = a.shapes /\ b.compact = a.compact /\ b.workspace = a.workspace

LEMMA TrimmingStands ==
  ASSUME NEW a, NEW b, NEW c, NEW d, NEW m, SameTables(a, b), TrimsLayer(c, a, m), d.shape = c.shape,
         LeavesBare(d, m) => LeavesBare(c, m), HasShaped(d, m) => HasShaped(c, m),
         HasReleased(d, m) => HasReleased(c, m)
  PROVE  TrimsLayer(d, b, m)
  BY DEF SameTables, TrimsLayer, Bare, KeepsOnly, Trimmed

LEMMA PrepareTrims ==
  ASSUME TypeInv, NEW t \in Threads, Trims(call[t], layers),
         Clear(t) \/ Pack(t) \/ Rebind(t) \/ Bias(t) \/ Project(t)
  PROVE  Trims(call'[t], layers')
  <1>0. PICK k \in Layers : k = call[t].layer
    BY HereTyped DEF TypeInv
  <1> DEFINE a == layers[k]
  <1>1. /\ a \in AttentionLayer /\ a = ThisLayer(t) /\ source \in Versions
        /\ \A m \in Layers : m <= k => m = k \/ m < k
        /\ \A m \in Layers : m < k + 1 => m <= k
    BY <1>0, HereTyped, EncoderAssumption DEF TypeInv, ThisLayer, Layers
  <1>2. \A m \in Layers : m < k => Bare(layers[m])
    BY <1>0, EncoderAssumption DEF Trims, TrimsLayer, LeavesBare, Clear, Pack, Rebind, Bias,
       Project, Layers
  <1>3. PICK b : OnLayer(t, b) /\ Bare(b)
    <2>1. CASE Clear(t)
      BY <2>1 DEF Clear, ClearInferenceCache, NewLayer, Bare
    <2>2. CASE Pack(t) \/ Rebind(t) \/ Bias(t) \/ Project(t)
      <3>1. Bare(a)
        BY <1>0, <2>2, EncoderAssumption DEF Trims, TrimsLayer, LeavesBare, Pack, Rebind, Bias,
           Project, Layers
      <3>2. PICK b \in {PackWeights(a, source, t), RebindWeights(a, t), PackBiases(a, source),
                        ProjectPositions(a, source)} : OnLayer(t, b)
        BY <1>1, <2>2 DEF Pack, Rebind, Bias, Project
      <3>3. b.shapes = a.shapes /\ b.compact = a.compact
        BY <1>1 DEF PackWeights, RebindWeights, PackBiases, ProjectPositions, AttentionLayer
      <3>4. QED
        BY <3>1, <3>2, <3>3 DEF Bare
    <2>3. QED
      BY <2>1, <2>2
  <1>4. \A m \in Layers : m <= k => Bare(layers'[m])
    BY <1>0, <1>1, <1>2, <1>3, OnLayerEffect, EncoderAssumption DEF Layers
  <1>5. CASE \E pc \in {"pack", "rebind", "bias", "project"} : Goto(t, pc, k)
    BY <1>4, <1>5, GotoKeeps DEF Trims, TrimsLayer, LeavesBare, HasShaped, HasReleased
  <1>6. CASE Goto(t, "clear", k + 1)
    BY <1>1, <1>4, <1>6, GotoKeeps DEF Trims, TrimsLayer, LeavesBare, HasShaped, HasReleased
  <1>7. CASE Goto(t, "shape", 1) /\ ~(k < NumLayers)
    <2>1. \A m \in Layers : m <= k /\ ~(m < 1)
      BY <1>7, EncoderAssumption DEF Layers
    <2>2. QED
      BY <1>4, <1>7, <2>1, GotoKeeps DEF Trims, TrimsLayer, LeavesBare, HasShaped, HasReleased
  <1>8. QED
    BY <1>0, <1>5, <1>6, <1>7 DEF Clear, Pack, Rebind, Bias, Project, NextLayer

LEMMA ShapeTrims ==
  ASSUME TypeInv, NEW t \in Threads, Trims(call[t], layers), Shape(t)
  PROVE  Trims(call'[t], layers')
  <1>0. PICK k \in Layers : k = call[t].layer
    BY HereTyped DEF TypeInv
  <1> DEFINE s == call[t].shape
             b == PrepareShape(layers[k], s)
             ps == [call[t].plans EXCEPT ![k] = ShapePlan(layers[k], s)]
             nl == IF k < NumLayers THEN k + 1 ELSE 1
             pc == IF k < NumLayers THEN "shape" ELSE "release"
             c == [call[t] EXCEPT !.plans = ps, !.layer = nl, !.pc = pc]
  <1>1. /\ layers[k] \in AttentionLayer /\ s \in Shapes /\ call[t].pc = "shape"
        /\ call \in [Threads -> CallRecord] /\ k \in Nat
    BY <1>0, EncoderAssumption DEF Shape, TypeInv, TypeOK, PlansInHand, InHand, Layers
  <1>2. OnLayer(t, b) /\ CanPrepareShape(layers[k], s) /\ call' = [call EXCEPT ![t] = c]
    BY <1>0 DEF Shape, ThisLayer
  <1>3. /\ Bare(layers[k])
        /\ \A m \in Layers : m < k => KeepsOnly(layers[m], s)
        /\ \A m \in Layers : ~(m < k) => Bare(layers[m])
    BY <1>0, <1>1 DEF Trims, TrimsLayer, LeavesBare, HasShaped
  <1>4. KeepsOnly(b, s)
    BY <1>1, <1>2, <1>3, ShapingKeepsOne
  <1> HIDE DEF b, ps
  <1>5. layers'[k] = b /\ \A m \in Layers : m # k => layers'[m] = layers[m]
    BY <1>0, <1>2, OnLayerEffect
  <1> HIDE DEF nl, pc
  <1>6. c.pc = pc /\ c.layer = nl /\ c.shape = s
    BY <1>1 DEF CallRecord
  <1> HIDE DEF c
  <1>7. call'[t].pc = pc /\ call'[t].layer = nl /\ call'[t].shape = s
    BY <1>1, <1>2, <1>6
  <1>8. CASE k < NumLayers
    <2>1. pc = "shape" /\ nl = k + 1
      BY <1>8 DEF pc, nl
    <2>2. \A m \in Layers : (m < k + 1 => m = k \/ m < k) /\ (~(m < k + 1) => m # k /\ ~(m < k))
      BY EncoderAssumption DEF Layers
    <2>3. QED
      BY <1>3, <1>4, <1>5, <1>7, <2>1, <2>2
      DEF Trims, TrimsLayer, LeavesBare, HasShaped, HasReleased
  <1>9. CASE ~(k < NumLayers)
    <2>1. pc = "release" /\ nl = 1
      BY <1>9 DEF pc, nl
    <2>2. \A m \in Layers : (m = k \/ m < k) /\ ~(m < 1)
      BY <1>9, EncoderAssumption DEF Layers
    <2>3. QED
      BY <1>3, <1>4, <1>5, <1>7, <2>1, <2>2
      DEF Trims, TrimsLayer, LeavesBare, HasShaped, HasReleased
  <1>10. QED
    BY <1>8, <1>9

LEMMA ReleaseTrims ==
  ASSUME TypeInv, NEW t \in Threads, Trims(call[t], layers), Release(t)
  PROVE  Trims(call'[t], layers')
  <1>0. PICK k \in Layers : k = call[t].layer
    BY HereTyped DEF TypeInv
  <1> DEFINE s == call[t].shape
             b == ReleaseWorkspace(layers[k])
  <1>1. call[t].pc = "release" /\ OnLayer(t, b) /\ layers[k] \in AttentionLayer
    BY <1>0 DEF Release, ThisLayer, TypeInv, TypeOK
  <1>2. /\ \A m \in Layers : KeepsOnly(layers[m], s)
        /\ \A m \in Layers : m < k => Trimmed(layers[m], s)
    BY <1>0, <1>1 DEF Trims, TrimsLayer, HasShaped, HasReleased
  <1>3. b.shapes = layers[k].shapes /\ b.compact = layers[k].compact /\ b.workspace = None
    BY <1>1 DEF ReleaseWorkspace, AttentionLayer
  <1> HIDE DEF b
  <1>4. Trimmed(b, s)
    BY <1>2, <1>3 DEF Trimmed, KeepsOnly
  <1>5. layers'[k] = b /\ \A m \in Layers : m # k => layers'[m] = layers[m]
    BY <1>0, <1>1, OnLayerEffect
  <1>6. \A m \in Layers : KeepsOnly(layers'[m], s)
    BY <1>2, <1>4, <1>5 DEF Trimmed
  <1>7. CASE k < NumLayers
    <2>1. call'[t].pc = "release" /\ call'[t].layer = k + 1 /\ call'[t].shape = s
      BY <1>0, <1>7, GotoKeeps, GotoMoves DEF Release, NextLayer
    <2>2. \A m \in Layers : m < k + 1 => m = k \/ m < k
      BY EncoderAssumption DEF Layers
    <2>3. QED
      BY <1>2, <1>4, <1>5, <1>6, <2>1, <2>2
      DEF Trims, TrimsLayer, LeavesBare, HasShaped, HasReleased
  <1>8. CASE ~(k < NumLayers)
    <2>1. call'[t].pc = "store" /\ call'[t].shape = s
      BY <1>0, <1>8, GotoMoves DEF Release, NextLayer
    <2>2. \A m \in Layers : m = k \/ m < k
      BY <1>8, EncoderAssumption DEF Layers
    <2>3. QED
      BY <1>2, <1>4, <1>5, <2>1, <2>2
      DEF Trims, TrimsLayer, LeavesBare, HasShaped, HasReleased
  <1>9. QED
    BY <1>7, <1>8

(* The other steps leave the tables alone.                                 *)
LEMMA OtherTrims ==
  ASSUME TypeInv, NEW t \in Threads, Trims(call[t], layers), Step(t),
         ~ (Clear(t) \/ Pack(t) \/ Rebind(t) \/ Bias(t) \/ Project(t) \/ Shape(t) \/ Release(t))
  PROVE  Trims(call'[t], layers')
  <1>1. \A m \in Layers : SameTables(layers[m], layers'[m])
    <2>1. CASE layers' = layers
      BY <2>1 DEF SameTables
    <2>2. CASE Run(t) \/ LaunchFallsBack(t) \/ LaunchFails(t)
      <3>1. PICK k \in Layers : k = call[t].layer
        BY HereTyped DEF TypeInv
      <3>2. layers[k] \in AttentionLayer
        BY HereTyped DEF TypeInv, TypeOK
      <3>3. \/ layers' = layers
            \/ \E b \in {MemoizeConfig(layers[k], LaunchRegime(t)),
                          RecordFailure(layers[k], LaunchRegime(t))} : OnLayer(t, b)
        BY <2>2, <3>1 DEF Run, LaunchFallsBack, LaunchFails, LaunchRegime, ThisLayer
      <3>4. \A r : /\ SameTables(layers[k], MemoizeConfig(layers[k], r))
                   /\ SameTables(layers[k], RecordFailure(layers[k], r))
        BY <3>2 DEF SameTables, MemoizeConfig, RecordFailure, AttentionLayer
      <3>5. CASE \E b : OnLayer(t, b) /\ SameTables(layers[k], b)
        <4>1. PICK b : OnLayer(t, b) /\ SameTables(layers[k], b)
          BY <3>5
        <4>2. layers'[k] = b /\ \A m \in Layers : m # k => layers'[m] = layers[m]
          BY <3>1, <4>1, OnLayerEffect
        <4>3. QED
          BY <4>1, <4>2 DEF SameTables
      <3>6. QED
        BY <2>1, <3>3, <3>4, <3>5
    <2>3. QED
      BY <2>1, <2>2 DEF Step, Prepare, Forward, LookupHit, LookupMiss, Touch, TouchEvicted,
         ShapeRefused, Store, EvictOldest, EvictMore, EvictDone, RunRefused, Launch,
         LaunchForgotten, AllocationFails
  <1>2. ASSUME \/ call'[t].pc \in {"touch", "run", "launch", "idle"} /\ call'[t].cold = FALSE
               \/ call'[t].pc = "clear" /\ call'[t].layer = 1
               \/ call'[t].pc = "idle" /\ call'[t].outcome = "raised"
        PROVE  Trims(call'[t], layers')
    BY <1>2, EncoderAssumption DEF Trims, TrimsLayer, LeavesBare, HasShaped, HasReleased, Layers
  <1>3. ASSUME call'[t].shape = call[t].shape, call'[t].pc \in {"evict", "pop", "run", "launch", "idle"},
               \A m \in Layers : HasReleased(call'[t], m) => HasReleased(call[t], m)
        PROVE  Trims(call'[t], layers')
    <2>1. \A m \in Layers : ~LeavesBare(call'[t], m) /\ ~HasShaped(call'[t], m)
      BY <1>3 DEF LeavesBare, HasShaped
    <2>2. \A m \in Layers : TrimsLayer(call'[t], layers'[m], m)
      BY <1>1, <1>3, <2>1, TrimmingStands DEF Trims
    <2>3. QED
      BY <1>3, <2>2 DEF Trims
  <1>4. CASE LookupHit(t) \/ Touch(t)
    <2>1. call[t].cold = FALSE
      BY <1>4 DEF LookupHit, Touch, Trims
    <2>2. call'[t].pc \in {"touch", "run"} /\ ~LookupMiss(t)
      <3>1. CASE Touch(t)
        BY <3>1, GotoKeeps DEF Touch, LookupMiss
      <3>2. CASE LookupHit(t)
        BY <3>2 DEF LookupHit, LookupMiss, TypeInv, TypeOK, CallRecord
      <3>3. QED
        BY <1>4, <3>1, <3>2
    <2>3. call'[t].cold = FALSE
      BY <2>1, <2>2, OwnKept
    <2>4. QED
      BY <1>2, <2>2, <2>3
  <1>5. CASE LookupMiss(t)
    BY <1>2, <1>5, MissMoves
  <1>6. CASE \/ Store(t) \/ EvictMore(t) \/ EvictDone(t)
             \/ EvictOldest(t) /\ Goto(t, "evict", 1)
    <2>1. \A m \in Layers : HasReleased(call[t], m)
      BY <1>6 DEF Store, EvictMore, EvictDone, EvictOldest, HasReleased
    <2>2. call'[t].pc \in {"evict", "pop", "run"} /\ call'[t].shape = call[t].shape
      BY <1>6, GotoMoves DEF Store, EvictMore, EvictDone
    <2>3. QED
      BY <1>3, <2>1, <2>2
  <1>7. CASE FailCall(t) \/ End(t, "raised")
    BY <1>2, <1>7, FailKeeps, EndKeeps
  <1>8. CASE Run(t)
    <2>1. call'[t].pc = "launch" /\ call'[t].shape = call[t].shape /\ call'[t].cold = call[t].cold
      <3>1. call'[t].pc = "launch" /\ call'[t].shape = call[t].shape /\ ~LookupMiss(t)
        BY <1>8, RunMoves DEF Run, LookupMiss
      <3>2. QED
        BY <3>1, OwnKept
    <2>2. \A m \in Layers : HasReleased(call'[t], m) => HasReleased(call[t], m)
      BY <1>8, <2>1 DEF Run, HasReleased
    <2>3. QED
      BY <1>3, <2>1, <2>2
  <1>9. CASE Launch(t) \/ LaunchFallsBack(t)
    <2>1. /\ call'[t].pc \in {"run", "idle"} /\ call'[t].shape = call[t].shape
          /\ call'[t].cold = call[t].cold
      <3>1. CASE Goto(t, "run", call[t].layer + 1)
        BY <3>1, GotoKeeps, GotoMoves
      <3>2. CASE \E outcome : End(t, outcome)
        BY <3>2, EndKeeps
      <3>3. QED
        BY <1>9, <3>1, <3>2 DEF Launch, LaunchFallsBack, Launched
    <2>2. \A m \in Layers : HasReleased(call'[t], m) => HasReleased(call[t], m)
      BY <1>9, <2>1 DEF Launch, LaunchFallsBack, HasReleased
    <2>3. QED
      BY <1>3, <2>1, <2>2
  <1>10. CASE EvictOldest(t)
    BY <1>6, <1>7, <1>10, PopCases
  <1>11. QED
    BY <1>4, <1>5, <1>6, <1>7, <1>8, <1>9, <1>10 DEF Step, Prepare, Forward, TouchEvicted,
       ShapeRefused, RunRefused, LaunchForgotten, LaunchFails, AllocationFails

LEMMA NextTrims == TypeInv /\ TrimInv /\ [Next]_vars => TrimInv'
  <1> SUFFICES ASSUME TypeInv, TrimInv, [Next]_vars, NEW t \in Threads, Threads = {t}
               PROVE  Trims(call'[t], layers')
    BY DEF TrimInv
  <1>1. Trims(call[t], layers)
    BY DEF TrimInv
  <1>2. CASE Step(t)
    BY <1>1, <1>2, PrepareTrims, ShapeTrims, ReleaseTrims, OtherTrims
  <1>3. ASSUME NEW s \in Shapes, Arrive(t, s)
        PROVE  Trims(call'[t], layers')
    <2> DEFINE c == [NoCall EXCEPT !.pc = "lookup", !.shape = s,
                       !.contended = \E u \in Threads \ {t} : Cold(u)]
    <2>1. call'[t] = c
      BY <1>3 DEF Arrive, TypeInv, TypeOK
    <2>2. c.pc = "lookup" /\ c.cold = FALSE
      BY DEF NoCall
    <2> HIDE DEF c
    <2>3. QED
      BY <2>1, <2>2 DEF Trims, TrimsLayer, LeavesBare, HasShaped, HasReleased
  <1>4. CASE HostEvent
    <2>1. call' = call /\ layers \in [Layers -> AttentionLayer]
      BY <1>4 DEF HostEvent, UpdateInPlace, Reassign, ReplaceProjections, ChangeLayout, Update,
         TypeInv, TypeOK
    <2>2. \A m \in Layers : SameTables(layers[m], layers'[m])
      <3>1. CASE UpdateInPlace
        BY <2>1, <3>1 DEF UpdateInPlace, SameTables, AttentionLayer
      <3>2. CASE Reassign
        BY <2>1, <3>2 DEF Reassign, SameTables, AttentionLayer
      <3>3. CASE ReplaceProjections \/ ChangeLayout
        BY <3>3 DEF ReplaceProjections, ChangeLayout, SameTables
      <3>4. QED
        BY <1>4, <3>1, <3>2, <3>3 DEF HostEvent
    <2>3. \A m \in Layers : TrimsLayer(call[t], layers'[m], m)
      BY <1>1, <2>2, TrimmingStands DEF Trims
    <2>4. QED
      BY <1>1, <2>1, <2>3 DEF Trims
  <1>5. CASE UNCHANGED vars
    BY <1>1, <1>5 DEF vars
  <1>6. QED
    BY <1>2, <1>3, <1>4, <1>5 DEF Next

LEMMA InitTrims == Init => TrimInv
  BY DEF Init, TrimInv, Trims, TrimsLayer, NoCall, LeavesBare, HasShaped, HasReleased

(* LayersKeepOneShape, for any number of layers and lengths and whatever   *)
(* was updated or failed before: a single caller that prepared a length    *)
(* and answered leaves in every layer one plan and one compact table, and  *)
(* no workspace.                                                           *)
THEOREM ColdCallTrims == Spec => []LayersKeepOneShape
  <1>1. TrimInv => LayersKeepOneShape
    <2> SUFFICES ASSUME TrimInv, NEW t \in Threads, Threads = {t}, Idle(t), call[t].cold,
                        call[t].outcome \in {"exact", "inexact"}, NEW l \in Layers
                 PROVE  /\ layers[l].workspace = None
                        /\ {s \in Shapes : layers[l].shapes[s] # None} = {call[t].shape}
                        /\ Cardinality({r \in Ranges : layers[l].compact[r] # None}) = 1
      BY DEF LayersKeepOneShape
    <2>1. Trimmed(layers[l], call[t].shape)
      BY DEF TrimInv, Trims, TrimsLayer, HasReleased, Idle
    <2>2. /\ call[t].shape \in Shapes
          /\ SlotRange[Regime[call[t].shape]] \in Ranges
      BY <2>1, RegimeAssumption DEF Trimmed, KeepsOnly
    <2>3. {r \in Ranges : layers[l].compact[r] # None} = {SlotRange[Regime[call[t].shape]]}
      BY <2>1, <2>2 DEF Trimmed, KeepsOnly
    <2>4. {s \in Shapes : layers[l].shapes[s] # None} = {call[t].shape}
      BY <2>1, <2>2 DEF Trimmed, KeepsOnly
    <2>5. QED
      BY <2>1, <2>3, <2>4, FS_Singleton DEF Trimmed
  <1>2. Spec => []TypeInv
    BY InitType, NextType, PTL DEF Spec
  <1>3. Spec => []TrimInv
    BY <1>2, InitTrims, NextTrims, PTL DEF Spec
  <1>4. QED
    BY <1>1, <1>3, PTL

------------------------------------------------------------------------------
(* The contract. Without faults and host updates every table, pack and     *)
(* plan is of the one version there is, a layer that was prepared stays so *)
(* but for the moment before a pack, and so what a warm call finds is what *)
(* a cold one would have made.                                             *)

Undisturbed == ~FaultsPossible /\ HostEvents = {} /\ Gapped = {}

OneVersion ==
  /\ Attached /\ layoutFits
  /\ \A l \in Layers :
       /\ Fresh(layers[l], source)
       /\ layers[l].weight \in {source, None} /\ layers[l].bias \in {source, None}
  /\ \A s \in Shapes : plans[s] # None => \A m \in Layers : plans[s][m].ver = source
  /\ \A t \in Threads : call[t].pc \in HoldsPlans => \A m \in Layers : call[t].plans[m].ver = source

Prepared(l) == layers[l].weight # None \/ \E t \in Threads : Packing(t, l)

\* the layers a call has cleared, or whose plans it holds
Reached(c, l) ==
  \/ c.pc = "clear" /\ l < c.layer
  \/ c.pc \in {"pack", "rebind", "bias", "project"} /\ l <= c.layer
  \/ c.pc = "shape"
  \/ c.pc \in HoldsPlans

PreparedInv ==
  /\ \A t \in Threads : \A l \in Layers : Reached(call[t], l) => Prepared(l)
  /\ \A s \in Shapes : plans[s] # None => \A l \in Layers : Prepared(l)

WarmCourse(t) ==
  /\ call[t].pc = "touch" =>
       /\ plans[call[t].shape] # None
       /\ \A m \in Layers : Packed(layers[m], source)
       /\ call[t].used = {}
  /\ call[t].pc \in {"run", "launch"} => OnCourse(call[t], layers, source)

ServedInv ==
  /\ \A t \in Threads : Cold(t) => call[t].cold
  /\ \A t \in Threads : call[t].contended = FALSE => WarmCourse(t)

OfVersion(a, v) == Fresh(a, v) /\ a.weight \in {v, None} /\ a.bias \in {v, None}

LEMMA LayersOfVersion ==
  ASSUME TypeInv, PublishInv, OneVersion, NEW t \in Threads, Step(t), NEW l \in Layers
  PROVE  OfVersion(layers'[l], source)
  <1> DEFINE a == ThisLayer(t)
  <1>1. /\ a \in AttentionLayer /\ source \in Versions /\ t \in Owners /\ FilesRight(a)
        /\ OfVersion(a, source) /\ OfVersion(layers[l], source)
    BY HereTyped, EncoderAssumption DEF TypeInv, PublishInv, ThisLayer, OneVersion, OfVersion
  <1>2. ASSUME NEW b, OnLayer(t, b), OfVersion(b, source) PROVE OfVersion(layers'[l], source)
    BY <1>1, <1>2, OnLayerEffect
  <1>3. ASSUME NEW b \in {PackWeights(a, source, t), RebindWeights(a, t), PackBiases(a, source),
                          ProjectPositions(a, source), ReleaseWorkspace(a)}
        PROVE  OfVersion(b, source)
    <2>1. Fresh(b, source)
      BY <1>1, OperationsKeepTables DEF OfVersion
    <2>2. b.weight \in {source, None} /\ b.bias \in {source, None}
      BY <1>1 DEF PackWeights, RebindWeights, PackBiases, ProjectPositions, ReleaseWorkspace,
         AttentionLayer, OfVersion
    <2>3. QED
      BY <2>1, <2>2 DEF OfVersion
  <1>4. OfVersion(ClearInferenceCache(a), source)
    BY ClearedIsFresh DEF OfVersion, ClearInferenceCache, NewLayer
  <1>5. ASSUME NEW b \in {MemoizeConfig(a, LaunchRegime(t)), RecordFailure(a, LaunchRegime(t))}
        PROVE  OfVersion(b, source)
    <2>1. Fresh(b, source)
      BY <1>1, MemosKeepTables DEF OfVersion
    <2>2. b.weight = a.weight /\ b.bias = a.bias
      BY <1>1 DEF MemoizeConfig, RecordFailure, AttentionLayer
    <2>3. QED
      BY <1>1, <2>1, <2>2 DEF OfVersion
  <1>6. CASE Shape(t)
    <2> DEFINE s == call[t].shape
               b == PrepareShape(a, s)
    <2>1. s \in Shapes /\ CanPrepareShape(a, s) /\ OnLayer(t, b)
      BY <1>6 DEF Shape, TypeInv, PlansInHand, InHand
    <2>2. Fresh(b, source)
      BY <1>1, <2>1, ShapePlanFiled DEF OfVersion
    <2>3. b.weight = a.weight /\ b.bias = a.bias
      BY <1>1 DEF PrepareShape, AttentionLayer
    <2> HIDE DEF b
    <2>4. QED
      BY <1>1, <1>2, <2>1, <2>2, <2>3 DEF OfVersion
  <1>7. CASE layers' = layers
    BY <1>1, <1>7
  <1> HIDE DEF a
  <1>8. QED
    BY <1>2, <1>3, <1>4, <1>5, <1>6, <1>7, StepOnLayer DEF a

LEMMA StepOneVersion ==
  ASSUME TypeInv, PublishInv, PublishInv', OneVersion, NEW t \in Threads, Step(t)
  PROVE  OneVersion'
  <1>1. source' = source /\ version' = version /\ layoutFits' = layoutFits
    BY StepHost
  <1>2. /\ call \in [Threads -> CallRecord]
        /\ call[t].pc \in HoldsPlans => \A m \in Layers : call[t].plans[m].ver = source
        /\ \A s \in Shapes : plans[s] # None => \A m \in Layers : plans[s][m].ver = source
    BY DEF TypeInv, TypeOK, OneVersion
  <1>3. ASSUME NEW s \in Shapes, plans'[s] # None, NEW m \in Layers
        PROVE  plans'[s][m].ver = source
    BY <1>2, <1>3, StepPlans
  <1>4. ASSUME NEW u \in Threads, call'[u].pc \in HoldsPlans, NEW m \in Layers
        PROVE  call'[u].plans[m].ver = source
    <2>1. CASE u # t
      BY <1>4, <2>1, StepStands DEF OthersStand, OneVersion
    <2>2. CASE u = t /\ LookupHit(t)
      <3> DEFINE c == [call[t] EXCEPT !.pc = "touch", !.plans = plans[call[t].shape]]
      <3>1. c.plans = plans[call[t].shape]
        BY <1>2 DEF CallRecord
      <3>2. call'[t] = c /\ plans[call[t].shape] # None /\ call[t].shape \in Shapes
        BY <1>2, <2>2 DEF LookupHit, TypeInv, PlansInHand, InHand
      <3> HIDE DEF c
      <3>3. QED
        BY <1>2, <2>2, <3>1, <3>2
    <2>3. CASE u = t /\ Shape(t)
      <3> DEFINE ps == [call[t].plans EXCEPT ![call[t].layer] = ShapePlan(ThisLayer(t), call[t].shape)]
                 nl == IF call[t].layer < NumLayers THEN call[t].layer + 1 ELSE 1
                 pc == IF call[t].layer < NumLayers THEN "shape" ELSE "release"
                 c == [call[t] EXCEPT !.plans = ps, !.layer = nl, !.pc = pc]
      <3>1. call' = [call EXCEPT ![t] = c]
        BY <2>3 DEF Shape
      <3> HIDE DEF ps, nl
      <3>2. c.pc = pc
        BY <1>2 DEF CallRecord
      <3> HIDE DEF c
      <3>3. call'[t].pc = "release"
        BY <1>2, <1>4, <2>3, <3>1, <3>2 DEF HoldsPlans
      <3>4. CallClean(call'[t], layers', source)
        BY <1>1 DEF PublishInv
      <3>5. QED
        BY <2>3, <3>3, <3>4 DEF CallClean, HasMade
    <2>4. CASE u = t /\ ~LookupHit(t) /\ ~Shape(t)
      BY <1>2, <1>4, <2>4, StepPlans
    <2>5. QED
      BY <2>1, <2>2, <2>3, <2>4
  <1>5. ASSUME NEW l \in Layers PROVE OfVersion(layers'[l], source)
    BY LayersOfVersion
  <1>6. Attached' /\ layoutFits'
    BY <1>1 DEF Attached, OneVersion
  <1>7. QED
    BY <1>1, <1>3, <1>4, <1>5, <1>6 DEF OneVersion, OfVersion

(* Nothing but a pack takes a call from before a pack, and nothing but a   *)
(* call that packs next takes a weight away.                               *)
LEMMA PreparedStays ==
  ASSUME TypeInv, ~FaultsPossible, NEW t \in Threads, Step(t), NEW l \in Layers, Prepared(l)
  PROVE  Prepared(l)'
  <1>1. /\ call[t].layer \in Layers /\ ThisLayer(t) \in AttentionLayer
        /\ ThisLayer(t) = layers[call[t].layer] /\ source # None
    BY HereTyped, NoneAssumption DEF TypeInv, ThisLayer
  <1>2. CASE \E u \in Threads \ {t} : Packing(u, l)
    BY <1>2, StepStands DEF OthersStand, Packing, Prepared
  <1>3. CASE Pack(t)
    <2>1. PackWeights(ThisLayer(t), source, t).weight = source
      BY <1>1 DEF PackWeights, AttentionLayer
    <2>2. OnLayer(t, PackWeights(ThisLayer(t), source, t))
      BY <1>3 DEF Pack
    <2>3. CASE l = call[t].layer
      BY <1>1, <2>1, <2>2, <2>3, OnLayerEffect DEF Prepared
    <2>4. CASE l # call[t].layer
      <3>1. layers'[l] = layers[l] /\ ~Packing(t, l)
        BY <2>2, <2>4, OnLayerEffect DEF Packing
      <3>2. QED
        BY <1>2, <3>1 DEF Prepared
    <2>5. QED
      BY <2>3, <2>4
  <1>4. CASE ~Pack(t) /\ layers[l].weight # None
    <2>1. CASE Clear(t)
      <3>1. call'[t].pc = "pack" /\ call'[t].layer = call[t].layer
        BY <2>1, GotoKeeps DEF Clear
      <3>2. CASE l = call[t].layer
        BY <3>1, <3>2 DEF Packing, Prepared
      <3>3. CASE l # call[t].layer
        BY <1>4, <2>1, <3>3, OnLayerEffect DEF Clear, Prepared
      <3>4. QED
        BY <3>2, <3>3
    <2>2. CASE Rebind(t) \/ Bias(t)
      <3>1. PICK b \in {RebindWeights(ThisLayer(t), t), PackBiases(ThisLayer(t), source)} :
              OnLayer(t, b)
        BY <2>2 DEF Rebind, Bias
      <3>2. b.weight = ThisLayer(t).weight
        BY <1>1 DEF RebindWeights, PackBiases, AttentionLayer
      <3>3. layers'[l].weight = layers[l].weight
        BY <1>1, <3>1, <3>2, OnLayerEffect
      <3>4. QED
        BY <1>4, <3>3 DEF Prepared
    <2>3. CASE ~Clear(t) /\ ~Rebind(t) /\ ~Bias(t)
      BY <1>4, <2>3, PacksLeftAlone DEF AllocationFails, Prepared
    <2>4. QED
      BY <2>1, <2>2, <2>3
  <1>5. CASE Packing(t, l)
    <2>1. Pack(t)
      BY <1>5 DEF Packing, AllocationFails, Step, Prepare, Forward, LookupHit, LookupMiss, Touch,
         TouchEvicted, Clear, Pack, Rebind, Bias, Project, Shape, ShapeRefused,
         Release, Store, EvictOldest, EvictMore, EvictDone, Run, RunRefused, Launch, LaunchFallsBack,
         LaunchForgotten, LaunchFails
    <2>2. QED
      BY <1>3, <2>1
  <1>6. QED
    BY <1>2, <1>3, <1>4, <1>5 DEF Prepared

LEMMA StepPrepared ==
  ASSUME TypeInv, ~FaultsPossible, PreparedInv, NEW t \in Threads, Step(t)
  PROVE  PreparedInv'
  <1>1. \A l \in Layers : Prepared(l) => Prepared(l)'
    BY PreparedStays
  <1>2. call \in [Threads -> CallRecord] /\ call[t].layer \in Layers
    BY HereTyped DEF TypeInv, TypeOK
  <1>3. \A s \in Shapes : plans'[s] # None => \A l \in Layers : Prepared(l)'
    <2>1. CASE plans' = plans
      BY <1>1, <2>1 DEF PreparedInv
    <2>2. CASE plans' # plans
      BY <1>1, <2>2, StepPlans DEF PreparedInv, Reached
    <2>3. QED
      BY <2>1, <2>2
  <1>4. ASSUME NEW l \in Layers, Reached(call'[t], l) PROVE Prepared(l)'
    <2>1. CASE LookupHit(t)
      BY <1>1, <2>1 DEF LookupHit, PreparedInv, TypeInv, PlansInHand, InHand
    <2>2. CASE Reached(call[t], l)
      BY <1>1, <2>2 DEF PreparedInv
    <2>3. CASE Clear(t)
      <3>1. call'[t].pc = "pack" /\ call'[t].layer = call[t].layer /\ call[t].pc = "clear"
        BY <2>3, GotoKeeps DEF Clear
      <3>2. l = call[t].layer \/ l < call[t].layer
        BY <1>2, <1>4, <3>1, EncoderAssumption DEF Reached, Layers, HoldsPlans
      <3>3. CASE l = call[t].layer
        BY <3>1, <3>3 DEF Packing, Prepared
      <3>4. CASE l < call[t].layer
        BY <2>2, <3>1, <3>4 DEF Reached
      <3>5. QED
        BY <3>2, <3>3, <3>4
    <2>4. CASE Pack(t) \/ Rebind(t) \/ Bias(t)
      <3>1. /\ call'[t].pc \in {"rebind", "bias", "project"} /\ call'[t].layer = call[t].layer
            /\ call[t].pc \in {"pack", "rebind", "bias"}
        BY <2>4, GotoKeeps DEF Pack, Rebind, Bias
      <3>2. QED
        BY <1>4, <2>2, <3>1 DEF Reached, HoldsPlans
    <2>5. CASE Project(t)
      <3>1. call[t].pc = "project"
        BY <2>5 DEF Project
      <3>2. CASE call[t].layer < NumLayers
        <4>1. call'[t].pc = "clear" /\ call'[t].layer = call[t].layer + 1
          BY <2>5, <3>2, GotoKeeps DEF Project, NextLayer
        <4>2. l <= call[t].layer
          BY <1>2, <1>4, <4>1, EncoderAssumption DEF Reached, Layers, HoldsPlans
        <4>3. QED
          BY <2>2, <3>1, <4>2 DEF Reached
      <3>3. CASE ~(call[t].layer < NumLayers)
        BY <1>2, <2>2, <3>1, <3>3, EncoderAssumption DEF Reached, Layers
      <3>4. QED
        BY <3>2, <3>3
    <2>6. CASE Shape(t)
      BY <2>2, <2>6 DEF Shape, Reached
    <2>7. CASE LookupMiss(t)
      <3> DEFINE c == [call[t] EXCEPT !.pc = "clear", !.layer = 1, !.cold = TRUE]
      <3>1. c.pc = "clear" /\ c.layer = 1
        BY <1>2 DEF CallRecord
      <3>2. call'[t] = c
        BY <2>7 DEF LookupMiss
      <3> HIDE DEF c
      <3>3. ~(l < 1)
        BY EncoderAssumption DEF Layers
      <3>4. QED
        BY <1>4, <3>1, <3>2, <3>3 DEF Reached, HoldsPlans
    <2>8. CASE call[t].pc \in HoldsPlans
      BY <2>2, <2>8 DEF Reached
    <2>9. CASE call'[t].pc = "idle"
      BY <1>4, <2>9 DEF Reached, HoldsPlans
    <2>10. CASE \/ TouchEvicted(t) \/ ShapeRefused(t) \/ RunRefused(t)
                \/ LaunchForgotten(t) \/ LaunchFails(t) \/ AllocationFails(t)
      BY <2>9, <2>10, EndKeeps, FailKeeps DEF TouchEvicted, ShapeRefused, RunRefused,
         LaunchForgotten, LaunchFails, AllocationFails
    <2>11. CASE \/ Touch(t) \/ Release(t) \/ Store(t) \/ EvictOldest(t) \/ EvictMore(t)
                \/ EvictDone(t) \/ Run(t) \/ Launch(t) \/ LaunchFallsBack(t)
      BY <2>8, <2>11 DEF Touch, Release, Store, EvictOldest, EvictMore, EvictDone, Run, Launch,
         LaunchFallsBack, HoldsPlans
    <2>12. QED
      BY <2>1, <2>3, <2>4, <2>5, <2>6, <2>7, <2>10, <2>11 DEF Step, Prepare, Forward
  <1>5. ASSUME NEW u \in Threads \ {t}, NEW l \in Layers, Reached(call'[u], l) PROVE Prepared(l)'
    <2>1. Reached(call[u], l)
      BY <1>5, StepStands DEF OthersStand, Reached
    <2>2. QED
      BY <1>1, <2>1 DEF PreparedInv
  <1>6. QED
    BY <1>3, <1>4, <1>5 DEF PreparedInv

(* An undisturbed lookup that hits finds every layer packed: nobody is     *)
(* between a clear and a pack.                                             *)
LEMMA HitFindsPacks ==
  ASSUME TypeInv, Undisturbed, ExactInv, PackInv, OneVersion, PreparedInv,
         NEW t \in Threads, LookupHit(t), call[t].contended = FALSE, NEW m \in Layers
  PROVE  Packed(layers[m], source)
  <1>1. \A u \in Threads : call[u].pc \notin {"pack", "rebind", "bias"}
    <2>1. ~Cold(t) /\ ~Idle(t)
      BY DEF LookupHit, Cold, ColdSteps, Idle
    <2>2. \A u \in Threads \ {t} : ~Cold(u)
      BY <2>1 DEF ExactInv, Exclusive
    <2>3. QED
      BY <2>1, <2>2 DEF Cold, ColdSteps
  <1>2. layers[m].weight # None
    BY <1>1 DEF LookupHit, PreparedInv, Prepared, Packing, TypeInv, PlansInHand, InHand
  <1>3. BiasLayout # "none" => layers[m].bias # None
    BY <1>1, <1>2, BiasAssumption
    DEF BiasLayouts, Undisturbed, PackInv, PackWhole, Packing, Binding
  <1>4. QED
    BY <1>2, <1>3 DEF OneVersion, Packed

LEMMA OwnServed ==
  ASSUME TypeInv, Undisturbed, PublishInv, ExactInv, ExactInv', PackInv, OneVersion, PreparedInv,
         ServedInv, NEW t \in Threads, Step(t), call'[t].contended = FALSE
  PROVE  WarmCourse(t)'
  <1>1. call \in [Threads -> CallRecord] /\ source' = source
    BY StepHost DEF TypeInv, TypeOK
  <1>2. CASE LookupHit(t)
    <2> DEFINE c == [call[t] EXCEPT !.pc = "touch", !.plans = plans[call[t].shape]]
    <2>1. /\ c.pc = "touch" /\ c.shape = call[t].shape /\ c.used = call[t].used
          /\ c.contended = call[t].contended
      BY <1>1 DEF CallRecord
    <2>2. /\ call'[t] = c /\ call[t].pc = "lookup" /\ plans[call[t].shape] # None
          /\ layers' = layers /\ plans' = plans
      BY <1>1, <1>2 DEF LookupHit, lru
    <2> HIDE DEF c
    <2>3. \A m \in Layers : Packed(layers[m], source)
      BY <1>2, <2>1, <2>2, HitFindsPacks
    <2>4. call[t].used = {}
      BY <2>2 DEF ExactInv
    <2>5. QED
      BY <1>1, <2>1, <2>2, <2>3, <2>4 DEF WarmCourse
  <1>3. CASE Touch(t)
    <2>1. /\ call'[t].pc = "run" /\ call'[t].layer = 1 /\ call'[t].plans = call[t].plans
          /\ call'[t].used = call[t].used /\ call'[t].contended = call[t].contended
          /\ call[t].pc = "touch" /\ layers' = layers
      BY <1>3, GotoKeeps DEF Touch
    <2>2. /\ \A m \in Layers : Packed(layers[m], source)
          /\ call[t].used = {}
      BY <2>1 DEF ServedInv, WarmCourse
    <2>3. \A m \in Layers : call[t].plans[m].ver = source
      BY <2>1 DEF OneVersion, HoldsPlans
    <2>4. OnCourse(call'[t], layers', source)
      BY <2>1, <2>2, <2>3 DEF OnCourse, HasProjected, ReadSoFar
    <2>5. QED
      BY <1>1, <2>1, <2>4 DEF WarmCourse
  <1>4. CASE Run(t) \/ Launch(t) \/ LaunchFallsBack(t)
    <2>1. CASE call'[t].pc = "idle"
      BY <2>1 DEF WarmCourse
    <2>2. CASE call'[t].pc # "idle"
      <3>1. call[t].pc \in {"run", "launch"} /\ call[t].contended = FALSE
        BY <1>4, <2>2, OwnKept DEF Run, Launch, LaunchFallsBack
      <3>2. OnCourse(call[t], layers, source)
        BY <3>1 DEF ServedInv, WarmCourse
      <3>3. ASSUME Run(t) PROVE OnCourse(call'[t], layers', source)
        BY <3>2, <3>3, RunCourse
      <3>4. ASSUME Launch(t) \/ LaunchFallsBack(t) PROVE OnCourse(call'[t], layers', source)
        <4>1. call[t].layer < NumLayers
          BY <2>2, <3>4, EndKeeps DEF Launch, LaunchFallsBack, Launched
        <4>2. QED
          BY <3>2, <3>4, <4>1, LaunchCourse
      <3>5. OnCourse(call'[t], layers', source)
        BY <1>4, <3>3, <3>4
      <3>6. call'[t].pc # "touch"
        BY <3>5 DEF OnCourse
      <3>7. QED
        BY <1>1, <3>5, <3>6 DEF WarmCourse
    <2>3. QED
      BY <2>1, <2>2
  <1>5. CASE EvictDone(t)
    <2>1. /\ call'[t].pc = "run" /\ call'[t].cold = call[t].cold /\ Cold(t)
      BY <1>5, GotoKeeps DEF EvictDone, Cold, ColdSteps
    <2>2. Alone(call'[t])
      BY <2>1 DEF ServedInv, Alone
    <2>3. OnCourse(call'[t], layers', source)
      BY <1>1, <2>2 DEF ExactInv
    <2>4. QED
      BY <1>1, <2>1, <2>3 DEF WarmCourse
  <1>6. CASE call'[t].pc \notin {"touch", "run", "launch"}
    BY <1>6 DEF WarmCourse
  <1>7. CASE \/ Clear(t) \/ Pack(t) \/ Rebind(t) \/ Bias(t) \/ Project(t) \/ Release(t)
             \/ Store(t) \/ EvictMore(t)
    <2>1. \E pc \in {"clear", "pack", "rebind", "bias", "project", "shape", "release", "store",
                     "evict", "pop"} : \E l : Goto(t, pc, l)
      BY <1>7 DEF Clear, Pack, Rebind, Bias, Project, Release, Store, EvictMore, NextLayer
    <2>2. QED
      BY <2>1, <1>6, GotoKeeps
  <1>8. CASE LookupMiss(t)
    <2> DEFINE c == [call[t] EXCEPT !.pc = "clear", !.layer = 1, !.cold = TRUE]
    <2>1. c.pc = "clear"
      BY <1>1 DEF CallRecord
    <2>2. call'[t] = c
      BY <1>8 DEF LookupMiss
    <2> HIDE DEF c
    <2>3. QED
      BY <1>6, <2>1, <2>2
  <1>9. CASE Shape(t)
    <2> DEFINE ps == [call[t].plans EXCEPT ![call[t].layer] = ShapePlan(ThisLayer(t), call[t].shape)]
               nl == IF call[t].layer < NumLayers THEN call[t].layer + 1 ELSE 1
               pc == IF call[t].layer < NumLayers THEN "shape" ELSE "release"
               c == [call[t] EXCEPT !.plans = ps, !.layer = nl, !.pc = pc]
    <2>1. call' = [call EXCEPT ![t] = c]
      BY <1>9 DEF Shape
    <2> HIDE DEF ps, nl
    <2>2. c.pc = pc
      BY <1>1 DEF CallRecord
    <2> HIDE DEF c
    <2>3. QED
      BY <1>1, <1>6, <2>1, <2>2
  <1>10. CASE EvictOldest(t)
    BY <1>6, <1>10, PopCases, GotoKeeps, EndKeeps
  <1>11. CASE \/ TouchEvicted(t) \/ ShapeRefused(t) \/ RunRefused(t)
              \/ LaunchForgotten(t) \/ LaunchFails(t) \/ AllocationFails(t)
    <2>1. FailCall(t) \/ \E outcome : End(t, outcome)
      BY <1>11 DEF TouchEvicted, ShapeRefused, RunRefused, LaunchForgotten,
         LaunchFails, AllocationFails
    <2>2. QED
      BY <1>6, <2>1, EndKeeps, FailKeeps
  <1>12. QED
    BY <1>2, <1>3, <1>4, <1>5, <1>7, <1>8, <1>9, <1>10, <1>11 DEF Step, Prepare, Forward

LEMMA OtherServed ==
  ASSUME TypeInv, ExactInv, ServedInv, NEW t \in Threads, Step(t), NEW u \in Threads \ {t},
         call'[u].contended = FALSE
  PROVE  WarmCourse(u)'
  <1> SUFFICES ASSUME call'[u].pc # "idle" PROVE WarmCourse(u)'
    BY DEF WarmCourse
  <1>1. call[u] \in CallRecord /\ call[u].pc = call'[u].pc /\ source' = source
    BY StepHost, StepStands DEF TypeInv, TypeOK, OthersStand
  <1>2. call'[u] = call[u]
    <2> DEFINE c == [call[u] EXCEPT !.contended = TRUE]
    <2>1. c.contended = TRUE
      BY <1>1 DEF CallRecord
    <2>2. call'[u] \in {call[u], c}
      BY OthersKept
    <2> HIDE DEF c
    <2>3. QED
      BY <2>1, <2>2
  <1>3. ~Cold(t) /\ WarmCourse(u)
    BY <1>1, <1>2 DEF ExactInv, Exclusive, Idle, ServedInv
  <1>4. plans' = plans
    BY <1>3, StepPlans
  <1>5. \A m \in Layers : Packed(layers[m], source) => Packed(layers'[m], source)
    BY <1>3, WarmStep DEF Packed
  <1>6. QED
    BY <1>1, <1>2, <1>3, <1>4, <1>5, CourseKept DEF WarmCourse

LEMMA StepServed ==
  ASSUME TypeInv, Undisturbed, PublishInv, ExactInv, ExactInv', PackInv, OneVersion, PreparedInv,
         ServedInv, NEW t \in Threads, Step(t)
  PROVE  ServedInv'
  <1>1. ASSUME NEW u \in Threads, Cold(u)' PROVE call'[u].cold
    <2>1. call[u] \in CallRecord /\ call'[u].pc # "idle"
      BY <1>1 DEF TypeInv, TypeOK, Cold, ColdSteps
    <2>2. CASE u = t /\ LookupMiss(t)
      <3> DEFINE c == [call[t] EXCEPT !.pc = "clear", !.layer = 1, !.cold = TRUE]
      <3>1. c.cold = TRUE
        BY <2>1, <2>2 DEF CallRecord
      <3>2. call'[t] = c
        BY <2>2 DEF LookupMiss
      <3> HIDE DEF c
      <3>3. QED
        BY <2>2, <3>1, <3>2
    <2>3. CASE u = t /\ ~LookupMiss(t)
      BY <1>1, <2>1, <2>3, OwnKept DEF ServedInv
    <2>4. CASE u # t
      <3> DEFINE c == [call[u] EXCEPT !.contended = TRUE]
      <3>1. c.cold = call[u].cold /\ call'[u] \in {call[u], c}
        BY <2>1, <2>4, OthersKept DEF CallRecord
      <3> HIDE DEF c
      <3>2. Cold(u)
        BY <1>1, <2>4, StepStands DEF OthersStand, Cold
      <3>3. QED
        BY <3>1, <3>2 DEF ServedInv
    <2>5. QED
      BY <2>2, <2>3, <2>4
  <1>2. QED
    BY <1>1, OwnServed, OtherServed DEF ServedInv

ServiceInv == OneVersion /\ PreparedInv /\ ServedInv

LEMMA ArriveService ==
  ASSUME TypeInv, ServiceInv, NEW t \in Threads, NEW s \in Shapes, Arrive(t, s)
  PROVE  ServiceInv'
  <1> DEFINE c == [NoCall EXCEPT !.pc = "lookup", !.shape = s,
                     !.contended = \E u \in Threads \ {t} : Cold(u)]
  <1>1. /\ source' = source /\ version' = version /\ layoutFits' = layoutFits /\ layers' = layers
        /\ plans' = plans
        /\ call \in [Threads -> CallRecord] /\ call' = [call EXCEPT ![t] = c] /\ call[t].pc = "idle"
    BY DEF Arrive, Idle, TypeInv, TypeOK, host, lru
  <1>2. c.pc = "lookup"
    BY DEF NoCall
  <1> HIDE DEF c
  <1>3. call'[t].pc = "lookup" /\ \A u \in Threads \ {t} : call'[u] = call[u]
    BY <1>1, <1>2
  <1>4. OneVersion'
    BY <1>1, <1>3 DEF ServiceInv, OneVersion, Attached, HoldsPlans
  <1>5. PreparedInv'
    <2>1. \A u \in Threads, l \in Layers : Packing(u, l)' <=> Packing(u, l)
      BY <1>1, <1>3 DEF Packing
    <2>2. \A l \in Layers : Prepared(l) => Prepared(l)'
      BY <1>1, <2>1 DEF Prepared
    <2>3. \A u \in Threads, l \in Layers : Reached(call'[u], l) => Reached(call[u], l)
      BY <1>3 DEF Reached, HoldsPlans
    <2>4. QED
      BY <1>1, <2>2, <2>3 DEF ServiceInv, PreparedInv
  <1>6. ServedInv'
    <2>1. ASSUME NEW u \in Threads, call'[u].contended = FALSE PROVE WarmCourse(u)'
      BY <1>1, <1>3, <2>1 DEF ServiceInv, ServedInv, WarmCourse
    <2>2. \A u \in Threads : Cold(u)' => call'[u].cold
      BY <1>3 DEF ServiceInv, ServedInv, Cold, ColdSteps
    <2>3. QED
      BY <2>1, <2>2 DEF ServedInv
  <1>7. QED
    BY <1>4, <1>5, <1>6 DEF ServiceInv

LEMMA NoHostEvents ==
  ASSUME Undisturbed
  PROVE  ~HostEvent
  BY DEF Undisturbed, HostEvent, UpdateInPlace, Reassign, ReplaceProjections, ChangeLayout, Update

LEMMA InitService == Init => ServiceInv
  <1> SUFFICES ASSUME Init PROVE ServiceInv
    OBVIOUS
  <1>1. \A t \in Threads : call[t].pc = "idle"
    BY DEF Init, NoCall
  <1>2. OneVersion
    BY <1>1 DEF Init, OneVersion, Attached, Fresh, NewLayer, HoldsPlans
  <1>3. PreparedInv
    BY <1>1 DEF Init, PreparedInv, Reached, HoldsPlans
  <1>4. ServedInv
    BY <1>1 DEF ServedInv, Cold, ColdSteps, WarmCourse
  <1>5. QED
    BY <1>2, <1>3, <1>4 DEF ServiceInv

LEMMA NextService ==
  ASSUME Undisturbed
  PROVE  TypeInv /\ PublishInv /\ ExactInv /\ PackInv /\ ServiceInv
           /\ PublishInv' /\ ExactInv' /\ [Next]_vars => ServiceInv'
  <1> SUFFICES ASSUME TypeInv, PublishInv, ExactInv, PackInv, ServiceInv, PublishInv', ExactInv',
                      [Next]_vars
               PROVE  ServiceInv'
    OBVIOUS
  <1>1. ASSUME NEW t \in Threads, Step(t) PROVE ServiceInv'
    BY <1>1, StepOneVersion, StepPrepared, StepServed DEF ServiceInv, Undisturbed
  <1>2. CASE UNCHANGED vars
    BY <1>2 DEF vars, host, lru, ServiceInv, OneVersion, Attached, PreparedInv, Prepared, Packing,
       ServedInv, Cold, WarmCourse
  <1>3. QED
    BY <1>1, <1>2, ArriveService, NoHostEvents DEF Next

(* An undisturbed call ends with the exact answer.                         *)
LEMMA UndisturbedAnswer ==
  ASSUME TypeInv, Undisturbed, ExactInv, LruConsistent, ServiceInv, NEW t \in Threads, Step(t),
         call'[t].pc = "idle", call[t].contended = FALSE
  PROVE  call'[t].outcome = "exact"
  <1>1. /\ Attached /\ layoutFits /\ WarmCourse(t) /\ (Cold(t) => call[t].cold)
        /\ ~FaultsPossible /\ Gapped = {}
    BY DEF ServiceInv, OneVersion, ServedInv, Undisturbed
  <1>2. ASSUME OnCourse(call[t], layers, source), call[t].pc = "pop" => order # <<>>
        PROVE  call'[t].outcome = "exact"
    BY <1>1, <1>2, CourseAnswer DEF HasGap
  <1>3. ASSUME TouchEvicted(t) PROVE FALSE
    <2>1. plans[call[t].shape] # None /\ call[t].shape \in Shapes
      BY <1>1, <1>3 DEF TouchEvicted, WarmCourse, TypeInv, PlansInHand, InHand
    <2>2. QED
      BY <1>3, <2>1 DEF TouchEvicted, LruConsistent
  <1>4. CASE RunRefused(t) \/ Launch(t) \/ LaunchFallsBack(t) \/ LaunchForgotten(t)
    <2>1. call[t].pc \in {"run", "launch"}
      BY <1>4 DEF RunRefused, Launch, LaunchFallsBack, LaunchForgotten
    <2>2. QED
      BY <1>1, <1>2, <2>1 DEF WarmCourse
  <1>5. CASE ShapeRefused(t)
    <2>1. Alone(call[t])
      BY <1>1, <1>5 DEF ShapeRefused, Cold, ColdSteps, Alone
    <2>2. QED
      BY <1>2, <2>1 DEF ExactInv
  <1>6. ~AllocationFails(t) /\ ~LaunchFails(t) /\ ~(EvictOldest(t) /\ order = <<>>)
    <2>1. ASSUME EvictOldest(t) PROVE order # <<>>
      <3>1. Alone(call[t]) /\ call[t].pc = "pop"
        BY <1>1, <2>1, PopCases DEF Cold, ColdSteps, Alone
      <3>2. QED
        BY <3>1 DEF ExactInv
    <2>2. QED
      BY <1>1, <2>1 DEF AllocationFails, LaunchFails
  <1>7. QED
    BY <1>3, <1>4, <1>5, <1>6, StepEnds

(* The state of the contract, and the steps of an encoder as its steps.    *)

Requests == [t \in Threads |-> Request(t)]

Replies == [t \in Threads |-> call[t].outcome]

LEMMA ArriveSubmits ==
  ASSUME TypeInv, NEW t \in Threads, NEW s \in Shapes, Arrive(t, s)
  PROVE  /\ Requests[t] = "none"
         /\ \E r \in {"pending", "disturbed"} : Requests' = [Requests EXCEPT ![t] = r]
         /\ Replies' = [Replies EXCEPT ![t] = "none"]
  <1> DEFINE met == \E u \in Threads \ {t} : Cold(u)
             c == [NoCall EXCEPT !.pc = "lookup", !.shape = s, !.contended = met]
  <1>1. call \in [Threads -> CallRecord] /\ call' = [call EXCEPT ![t] = c] /\ Idle(t)
    BY DEF Arrive, TypeInv, TypeOK
  <1>2. c.pc = "lookup" /\ c.outcome = "none" /\ c.contended = met
    BY DEF NoCall
  <1> HIDE DEF c
  <1>3. call'[t] = c /\ \A u \in Threads \ {t} : call'[u] = call[u]
    BY <1>1
  <1>4. Request(t)' \in {"pending", "disturbed"}
    BY <1>2, <1>3 DEF Request, Idle
  <1>5. \A u \in Threads \ {t} : Request(u)' = Request(u)
    BY <1>3 DEF Request, Idle
  <1>6. Requests[t] = "none"
    BY <1>1 DEF Requests, Request
  <1>7. Requests' = [Requests EXCEPT ![t] = Request(t)']
    BY <1>5 DEF Requests
  <1>8. Replies' = [Replies EXCEPT ![t] = "none"]
    BY <1>2, <1>3 DEF Replies
  <1>9. QED
    BY <1>4, <1>6, <1>7, <1>8

LEMMA OthersAsked ==
  ASSUME TypeInv, NEW t \in Threads, Step(t), NEW u \in Threads \ {t}
  PROVE  /\ call'[u].outcome = call[u].outcome
         /\ \/ Request(u)' = Request(u)
            \/ LookupMiss(t) /\ Request(u) = "pending" /\ Request(u)' = "disturbed"
  <1> DEFINE c == [call[u] EXCEPT !.contended = TRUE]
  <1>1. /\ c.contended = TRUE /\ c.outcome = call[u].outcome /\ c.pc = call[u].pc
        /\ call[u].contended \in BOOLEAN
    BY DEF TypeInv, TypeOK, CallRecord
  <1>2. /\ call'[u] \in {call[u], c}
        /\ call'[u] # call[u] => LookupMiss(t) /\ ~Idle(u)
    BY OthersKept
  <1> HIDE DEF c
  <1>3. CASE call'[u] = call[u]
    BY <1>3 DEF Request, Idle
  <1>4. CASE LookupMiss(t) /\ ~Idle(u) /\ call'[u] = c
    <2>1. Request(u)' = "disturbed"
      BY <1>1, <1>4 DEF Request, Idle
    <2>2. Request(u) \in {"pending", "disturbed"}
      BY <1>4 DEF Request
    <2>3. QED
      BY <1>1, <1>4, <2>1, <2>2
  <1>5. QED
    BY <1>2, <1>3, <1>4

LEMMA StepDisturbs ==
  ASSUME TypeInv, NEW t \in Threads, Step(t), call'[t].pc # "idle"
  PROVE  /\ \E T \in SUBSET {u \in Threads : Requests[u] = "pending"} :
              Requests' = [u \in Threads |-> IF u \in T THEN "disturbed" ELSE Requests[u]]
         /\ Replies' = Replies
  <1>1. Request(t)' = Request(t) /\ call'[t].outcome = call[t].outcome
    BY OwnKept DEF Request, Idle
  <1> DEFINE T == {u \in Threads : Request(u) = "pending" /\ Request(u)' = "disturbed"}
  <1>2. \A u \in Threads : Request(u)' = IF u \in T THEN "disturbed" ELSE Request(u)
    BY <1>1, OthersAsked
  <1>3. T \in SUBSET {u \in Threads : Requests[u] = "pending"}
    BY DEF Requests
  <1> HIDE DEF T
  <1>4. Requests' = [u \in Threads |-> IF u \in T THEN "disturbed" ELSE Requests[u]]
    BY <1>2 DEF Requests
  <1>5. Replies' = Replies
    BY <1>1, OthersAsked DEF Replies
  <1>6. QED
    BY <1>3, <1>4, <1>5

LEMMA StepAnswers ==
  ASSUME TypeInv, Undisturbed, ExactInv, LruConsistent, ServiceInv, NEW t \in Threads, Step(t),
         call'[t].pc = "idle"
  PROVE  /\ Requests[t] # "none"
         /\ Requests' = [Requests EXCEPT ![t] = "none"]
         /\ \E r \in IF Requests[t] = "pending" THEN {"exact"} ELSE {"exact", "inexact", "raised"} :
              Replies' = [Replies EXCEPT ![t] = r]
  <1>1. ~Idle(t) /\ call[t].contended \in BOOLEAN
    BY StepRuns DEF TypeInv, TypeOK, CallRecord
  <1>2. Request(t)' = "none"
    BY DEF Request, Idle
  <1>3. ~LookupMiss(t)
    <2> SUFFICES ASSUME LookupMiss(t) PROVE FALSE
      OBVIOUS
    <2> DEFINE c == [call[t] EXCEPT !.pc = "clear", !.layer = 1, !.cold = TRUE]
    <2>1. c.pc = "clear"
      BY DEF TypeInv, TypeOK, CallRecord
    <2>2. call'[t] = c
      BY DEF LookupMiss
    <2> HIDE DEF c
    <2>3. QED
      BY <2>1, <2>2
  <1>4. \A u \in Threads \ {t} : Request(u)' = Request(u) /\ call'[u].outcome = call[u].outcome
    BY <1>3, OthersAsked
  <1>5. Requests[t] = Request(t) /\ Request(t) # "none" /\ (Request(t) = "pending" => ~call[t].contended)
    BY <1>1 DEF Requests, Request
  <1>6. Requests' = [Requests EXCEPT ![t] = "none"]
    BY <1>2, <1>4 DEF Requests
  <1>7. Replies' = [Replies EXCEPT ![t] = call'[t].outcome]
    BY <1>4 DEF Replies
  <1>8. call'[t].outcome \in IF Requests[t] = "pending" THEN {"exact"}
                             ELSE {"exact", "inexact", "raised"}
    <2>1. CASE call[t].contended = FALSE
      BY <2>1, UndisturbedAnswer
    <2>2. CASE call[t].contended = TRUE
      <3>1. ~FailCall(t) \/ call'[t].outcome = "raised"
        BY FailKeeps
      <3>2. ASSUME NEW outcome, End(t, outcome) PROVE call'[t].outcome = outcome
        BY <3>2, EndKeeps
      <3>3. FailCall(t) \/ \E outcome \in {"exact", "inexact", "raised"} : End(t, outcome)
        <4>1. ~Goto(t, "run", call[t].layer + 1)
          BY GotoKeeps
        <4>2. QED
          BY <4>1, StepEnds DEF AllocationFails, LaunchFails, RunRefused, Launch,
             LaunchFallsBack, TouchEvicted, ShapeRefused, LaunchForgotten, Launched
      <3>4. call'[t].outcome \in {"exact", "inexact", "raised"}
        BY <3>1, <3>2, <3>3
      <3>5. QED
        BY <1>5, <2>2, <3>4
    <2>3. QED
      BY <1>1, <2>1, <2>2
  <1>9. QED
    BY <1>5, <1>6, <1>7, <1>8

LEMMA ContractStep ==
  ASSUME Undisturbed
  PROVE  TypeInv /\ ExactInv /\ LruConsistent /\ ServiceInv /\ [Next]_vars
           => [Contract!Next]_(Contract!vars)
  <1> SUFFICES ASSUME TypeInv, ExactInv, LruConsistent, ServiceInv, [Next]_vars
               PROVE  [Contract!Next]_(Contract!vars)
    OBVIOUS
  <1>1. ASSUME NEW t \in Threads, NEW s \in Shapes, Arrive(t, s) PROVE Contract!Next
    BY <1>1, ArriveSubmits DEF Contract!Next, Contract!Submit, Requests, Replies
  <1>2. ASSUME NEW t \in Threads, Step(t), call'[t].pc # "idle" PROVE Contract!Next
    BY <1>2, StepDisturbs DEF Contract!Next, Contract!Disturb, Requests, Replies
  <1>3. ASSUME NEW t \in Threads, Step(t), call'[t].pc = "idle" PROVE Contract!Next
    BY <1>3, StepAnswers DEF Contract!Next, Contract!Answer, Requests, Replies
  <1>4. ASSUME UNCHANGED vars PROVE UNCHANGED Contract!vars
    BY <1>4 DEF vars, Contract!vars, Request, Idle
  <1>5. QED
    BY <1>1, <1>2, <1>3, <1>4, NoHostEvents DEF Next

LEMMA ContractInit == Init => Contract!Init
  <1> SUFFICES ASSUME Init PROVE Contract!Init
    OBVIOUS
  <1>1. \A t \in Threads : Request(t) = "none" /\ call[t].outcome = "none"
    BY DEF Init, NoCall, Request, Idle
  <1>2. QED
    BY <1>1 DEF Contract!Init

(* Without faults and host updates, and with position settings that leave  *)
(* no gap at any length, an encoder keeps the promise of EncoderContract   *)
(* to any number of callers: a call no preparation disturbs is answered    *)
(* exactly, whether it found its plans or made them, and whatever was      *)
(* evicted before it.                                                      *)
THEOREM EncoderKeepsContract ==
  ASSUME ~FaultsPossible, HostEvents = {}, Gapped = {}
  PROVE  Spec => ImplementsContract
  <1>0. Undisturbed
    BY DEF Undisturbed
  <1>1. Spec => []TypeInv
    BY InitType, NextType, PTL DEF Spec
  <1>2. Spec => []PublishInv
    BY <1>1, InitPublish, NextPublish, PTL DEF Spec
  <1>3. Spec => []ExactInv
    BY <1>1, <1>2, InitExact, NextExact, PTL DEF Spec
  <1>4. Spec => []LruConsistent
    BY LruAlwaysConsistent
  <1>5. Spec => []PackInv
    <2>1. Init => PackInv
      BY InitPacks
    <2>2. TypeInv /\ PackInv /\ [Next]_vars => PackInv'
      BY NextPacks
    <2>3. QED
      BY <1>1, <2>1, <2>2, PTL DEF Spec
  <1>6. Spec => []ServiceInv
    <2>1. TypeInv /\ PublishInv /\ ExactInv /\ PackInv /\ ServiceInv
            /\ PublishInv' /\ ExactInv' /\ [Next]_vars => ServiceInv'
      BY <1>0, NextService
    <2>2. QED
      BY <1>1, <1>2, <1>3, <1>5, <2>1, InitService, PTL DEF Spec
  <1>7. TypeInv /\ ExactInv /\ LruConsistent /\ ServiceInv /\ [Next]_vars
          => [Contract!Next]_(Contract!vars)
    BY <1>0, ContractStep
  <1>8. QED
    BY <1>1, <1>3, <1>4, <1>6, <1>7, ContractInit, PTL
    DEF Spec, ImplementsContract, Contract!Spec
==============================================================================
