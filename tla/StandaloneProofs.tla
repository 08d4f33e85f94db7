--------------------------- MODULE StandaloneProofs ---------------------------
(***************************************************************************)
(* Theorems about StandaloneLayer: for every set of lengths and slot       *)
(* ranges, both backends and every pos_att_type, however many calls fail   *)
(* and however often the parameters change.                                *)
(***************************************************************************)
EXTENDS StandaloneLayer, TLAPS

(* CachesCurrent is not inductive alone. A failed preparation leaves a pack *)
(* without biases behind, and an answer is still whole because tables are   *)
(* only ever projected after both packs and never outlive them; and the     *)
(* parameters of a module in training change without a word because then    *)
(* nothing is cached.                                                       *)

Tableless(a) ==
  /\ \A k \in Kinds : a.pos[k] = None
  /\ \A s \in Lengths : a.shapes[s] = None
  /\ \A r \in Ranges : a.compact[r] = None

Packed == layer.weight # None /\ layer.bias # None

TablesOverPacks == conf.kinds # {} => Tableless(layer) \/ Packed

NothingInTraining ==
  training => layer = EmptyCaches /\ call.pc \in {"idle", "raised"}

PreparationOrder ==
  /\ call.pc = "pack" => layer = EmptyCaches
  /\ call.pc = "bias" => Tableless(layer) /\ layer.weight = version
  /\ call.pc \in Kinds => layer.weight = version /\ layer.bias = version

FullTables ==
  \A k \in conf.kinds :
    /\ \A s \in Lengths : layer.shapes[s] # None => layer.shapes[s].pos[k] # None
    /\ \A r \in Ranges : layer.compact[r] # None => layer.compact[r][k] # None

PlansInHand ==
  call.pc \notin {"idle", "answered", "raised"} /\ call.op # "prepared" =>
    \A p \in call.plans, k \in conf.kinds : p.pos[k] = version

RunsPacked ==
  call.pc = "run" /\ call.op # "prepared" /\ conf.kinds # {} => Packed

IInv ==
  /\ TypeOK
  /\ CachesCurrent
  /\ TablesOverPacks
  /\ NothingInTraining
  /\ PreparationOrder
  /\ FullTables
  /\ PlansInHand
  /\ RunsPacked
  /\ AnswersCurrent

------------------------------------------------------------------------------
(* The operators on the caches.                                            *)

LEMMA NoneIsNoVersion == None \notin Versions
  BY NoneAssumption, BoundsAssumption DEF Versions

LEMMA EmptyCachesTyped == EmptyCaches \in AttentionLayer /\ Tableless(EmptyCaches)
  BY DEF EmptyCaches, AttentionLayer, NoTables, Tables, Tableless

(* A projection that does not raise gives current tables of every kind in   *)
(* use, and it is only possible over whole packs.                           *)
LEMMA ProjectionCurrent ==
  ASSUME IInv, NEW r \in Ranges, CanProject(r)
  PROVE  /\ Projected(r) \in Tables
         /\ \A k \in Kinds : Projected(r)[k] \in {None, version}
         /\ \A k \in conf.kinds : Projected(r)[k] = version
         /\ conf.kinds # {} => Packed
  <1>1. /\ conf.kinds \subseteq Kinds
        /\ layer.pos \in Tables /\ layer.compact[r] \in Tables \cup {None}
        /\ \A k \in Kinds : layer.pos[k] \in {None, version}
    BY DEF IInv, TypeOK, AttentionLayer, Configurations, CachesCurrent
  <1>2. CASE conf.kinds = {}
    BY <1>2, <1>1 DEF Projected, NoTables, Tables
  <1>3. CASE conf.kinds # {} /\ layer.compact[r] # None
    <2>1. Projected(r) = layer.compact[r]
      BY <1>3 DEF Projected
    <2>2. \A k \in Kinds : layer.compact[r][k] \in {None, version}
      BY <1>3 DEF IInv, CachesCurrent
    <2>3. \A k \in conf.kinds : layer.compact[r][k] # None
      BY <1>3 DEF IInv, FullTables
    <2>4. Packed
      BY <1>3 DEF IInv, TablesOverPacks, Tableless
    <2>5. QED
      BY <2>1, <2>2, <2>3, <2>4, <1>1, <1>3
  <1>4. CASE conf.kinds # {} /\ layer.compact[r] = None
    <2>1. Projected(r) = [k \in Kinds |-> IF k \in conf.kinds THEN layer.pos[k] ELSE None]
      BY <1>4 DEF Projected
    <2>2. \A k \in conf.kinds : layer.pos[k] = version
      BY <1>4, <1>1 DEF CanProject
    <2>3. Packed
      BY <1>4, <1>1, <2>2, NoneIsNoVersion DEF IInv, TypeOK, TablesOverPacks, Tableless
    <2>4. Projected(r) \in Tables
      BY <2>1, <1>1 DEF Tables
    <2>5. QED
      BY <2>1, <2>2, <2>3, <2>4, <1>1
  <1>5. QED
    BY <1>2, <1>3, <1>4

LEMMA CompactFiled ==
  ASSUME IInv, NEW r \in Ranges, CanProject(r)
  PROVE  /\ FiledCompact(r) \in [Ranges -> Tables \cup {None}]
         /\ \A q \in Ranges : FiledCompact(r)[q] # None =>
              /\ \A k \in Kinds : FiledCompact(r)[q][k] \in {None, version}
              /\ \A k \in conf.kinds : FiledCompact(r)[q][k] = version
  <1>1. layer.compact \in [Ranges -> Tables \cup {None}]
    BY DEF IInv, TypeOK, AttentionLayer
  <1>2. \A q \in Ranges : layer.compact[q] # None =>
          /\ \A k \in Kinds : layer.compact[q][k] \in {None, version}
          /\ \A k \in conf.kinds : layer.compact[q][k] = version
    <2>1. conf.kinds \subseteq Kinds
      BY DEF IInv, TypeOK, Configurations
    <2>2. QED
      BY <2>1 DEF IInv, CachesCurrent, FullTables
  <1>3. /\ Projected(r) \in Tables
        /\ \A k \in Kinds : Projected(r)[k] \in {None, version}
        /\ \A k \in conf.kinds : Projected(r)[k] = version
    BY ProjectionCurrent
  <1>4. CASE conf.kinds = {}
    BY <1>4, <1>1, <1>2 DEF FiledCompact
  <1>5. CASE conf.kinds # {}
    <2>1. FiledCompact(r) = [layer.compact EXCEPT ![r] = Projected(r)]
      BY <1>5 DEF FiledCompact
    <2>2. \A q \in Ranges : FiledCompact(r)[q] = IF q = r THEN Projected(r) ELSE layer.compact[q]
      BY <2>1, <1>1
    <2>3. QED
      BY <2>1, <2>2, <1>1, <1>2, <1>3
  <1>6. QED
    BY <1>4, <1>5

(* A length that can be planned gets a plan with current tables.            *)
LEMMA PlanCurrent ==
  ASSUME IInv, NEW s \in Lengths, CanPlan(s)
  PROVE  /\ PlanFor(s) \in Plan
         /\ \A k \in Kinds : PlanFor(s).pos[k] \in {None, version}
         /\ \A k \in conf.kinds : PlanFor(s).pos[k] = version
         /\ conf.kinds # {} => Packed
  <1> DEFINE rep == layer.shapes[PlannedAs(s)]
  <1>1. /\ PlannedAs(s) \in Lengths /\ TableSlots(s) \in Ranges
        /\ conf.kinds \subseteq Kinds /\ cache \in 1..MaxCaches
    BY LengthsAssumption DEF IInv, TypeOK, PlannedAs, TableSlots, Configurations
  <1>2. \A m \in Lengths : layer.shapes[m] # None =>
          /\ layer.shapes[m] \in Plan
          /\ \A k \in Kinds : layer.shapes[m].pos[k] \in {None, version}
          /\ \A k \in conf.kinds : layer.shapes[m].pos[k] = version
          /\ conf.kinds # {} => Packed
    BY <1>1 DEF IInv, TypeOK, AttentionLayer, CachesCurrent, FullTables, TablesOverPacks, Tableless
  <1>3. CASE layer.shapes[s] # None
    BY <1>3, <1>2 DEF PlanFor
  <1>4. CASE layer.shapes[s] = None /\ rep # None
    <2>1. PlanFor(s) = [shape |-> s, index |-> SlotRange[PlannedAs(s)], cache |-> cache,
                        range |-> rep.range, pos |-> rep.pos]
      BY <1>4 DEF PlanFor
    <2>2. rep \in Plan
      BY <1>4, <1>1, <1>2
    <2>3. PlanFor(s) \in Plan
      BY <2>1, <2>2, <1>1 DEF Plan, TableSlots
    <2>4. QED
      BY <2>1, <2>3, <1>4, <1>1, <1>2
  <1>5. CASE layer.shapes[s] = None /\ rep = None
    <2>1. PlanFor(s) = [shape |-> s, index |-> SlotRange[PlannedAs(s)], cache |-> cache,
                        range |-> TableSlots(s), pos |-> Projected(TableSlots(s))]
      BY <1>5 DEF PlanFor
    <2>2. CanProject(TableSlots(s))
      BY <1>5 DEF CanPlan
    <2>3. /\ Projected(TableSlots(s)) \in Tables
          /\ \A k \in Kinds : Projected(TableSlots(s))[k] \in {None, version}
          /\ \A k \in conf.kinds : Projected(TableSlots(s))[k] = version
          /\ conf.kinds # {} => Packed
      BY <2>2, <1>1, ProjectionCurrent
    <2>4. PlanFor(s) \in Plan
      BY <2>1, <2>3, <1>1 DEF Plan, TableSlots
    <2>5. QED
      BY <2>1, <2>3, <2>4
  <1>6. QED
    BY <1>3, <1>4, <1>5

------------------------------------------------------------------------------
(* The steps of a call.                                                    *)

LEMMA InitInv == Init => IInv
  <1> SUFFICES ASSUME Init PROVE IInv
    OBVIOUS
  <1>1. TypeOK
    <2>1. call \in CallRecord
      BY DEF Init, Idle, CallRecord, Steps, Operations
    <2>2. version \in Versions /\ cache \in 1..MaxCaches
      BY BoundsAssumption DEF Init, Versions
    <2>3. QED
      BY <2>1, <2>2, EmptyCachesTyped DEF Init, TypeOK
  <1>2. CachesCurrent
    BY DEF Init, CachesCurrent, EmptyCaches, NoTables
  <1>3. TablesOverPacks /\ NothingInTraining /\ FullTables
    BY EmptyCachesTyped
    DEF Init, TablesOverPacks, NothingInTraining, FullTables, EmptyCaches, Idle
  <1>4. PreparationOrder /\ PlansInHand /\ RunsPacked /\ AnswersCurrent
    BY DEF Init, Idle, PreparationOrder, PlansInHand, RunsPacked, AnswersCurrent, Answering, Kinds
  <1>5. QED
    BY <1>1, <1>2, <1>3, <1>4 DEF IInv

(* A step that leaves the caches and the parameters alone preserves what is *)
(* said of them.                                                            *)
LEMMA CachesUntouched ==
  ASSUME IInv, UNCHANGED <<conf, training, version, cache, layer>>
  PROVE  CachesCurrent' /\ TablesOverPacks' /\ FullTables'
  BY DEF IInv, CachesCurrent, TablesOverPacks, FullTables, Tableless, Packed

LEMMA ArriveInv ==
  ASSUME IInv, NEW op \in Operations, NEW S \in SUBSET Lengths, NEW rel \in BOOLEAN,
         Arrive(op, S, rel)
  PROVE  IInv'
  <1> DEFINE todo == Wanted(op, S)
             step == CASE op = "prepared" \/ Ready(op, todo) -> "run"
                       [] NeedsPreparation(op, todo)         -> "clear"
                       [] OTHER                              -> "shape"
             inHand == CASE op = "prepared"  -> {held}
                         [] Ready(op, todo)  -> {layer.shapes[s] : s \in todo}
                         [] OTHER            -> {}
  <1>1. call' = [Idle EXCEPT !.pc = step, !.op = op, !.todo = todo, !.rel = rel,
                             !.half = HalfProjected, !.plans = inHand]
    BY DEF Arrive
  <1>2. /\ step \in {"run", "clear", "shape"}
        /\ todo \subseteq Lengths
        /\ HalfProjected \in BOOLEAN
        /\ step = "run" /\ op # "prepared" => Ready(op, todo)
    BY DEF Wanted, Longest, HalfProjected
  <1>3. \A s \in Lengths : layer.shapes[s] # None =>
          /\ layer.shapes[s] \in Plan
          /\ \A k \in conf.kinds : layer.shapes[s].pos[k] = version
          /\ conf.kinds # {} => Packed
    <2>1. conf.kinds \subseteq Kinds
      BY DEF IInv, TypeOK, Configurations
    <2>2. QED
      BY <2>1 DEF IInv, TypeOK, AttentionLayer, CachesCurrent, FullTables, TablesOverPacks,
                  Tableless
  <1>4. inHand \subseteq Plan
    <2>1. CASE op = "prepared"
      <3>1. held # None
        BY <2>1 DEF Arrive, Offered
      <3>2. inHand = {held}
        BY <2>1 DEF Ready
      <3>3. QED
        BY <3>1, <3>2 DEF IInv, TypeOK
    <2>2. CASE op # "prepared" /\ Ready(op, todo)
      BY <2>2, <1>2, <1>3 DEF Ready
    <2>3. CASE op # "prepared" /\ ~Ready(op, todo)
      BY <2>3
    <2>4. QED
      BY <2>1, <2>2, <2>3
  <1>5. op # "prepared" => \A p \in inHand, k \in conf.kinds : p.pos[k] = version
    <2>1. CASE op # "prepared" /\ Ready(op, todo)
      BY <2>1, <1>2, <1>3 DEF Ready
    <2>2. CASE op # "prepared" /\ ~Ready(op, todo)
      BY <2>2
    <2>3. QED
      BY <2>1, <2>2
  <1>6. op = "forward" => \E s \in Lengths : todo = {s}
    BY DEF Arrive, Offered, Wanted
  <1>7. op # "prepared" /\ Ready(op, todo) /\ conf.kinds # {} => Packed
    BY <1>3, <1>6 DEF Ready
  <1> HIDE DEF todo, step, inHand
  <1>8. /\ call'.pc = step /\ call'.op = op /\ call'.plans = inHand
        /\ call' \in CallRecord
    BY <1>1, <1>2, <1>4 DEF Idle, CallRecord, Steps, Operations
  <1>9. /\ UNCHANGED <<conf, training, version, cache, layer, held>>
        /\ ~training /\ conf' = conf
    BY DEF Arrive
  <1>10. TypeOK'
    BY <1>8, <1>9 DEF IInv, TypeOK
  <1>11. CachesCurrent' /\ TablesOverPacks' /\ FullTables'
    BY <1>9, CachesUntouched
  <1>12. NothingInTraining' /\ PreparationOrder' /\ AnswersCurrent'
    BY <1>2, <1>8, <1>9 DEF NothingInTraining, PreparationOrder, AnswersCurrent, Answering, Kinds
  <1>13. PlansInHand'
    BY <1>5, <1>8, <1>9 DEF PlansInHand
  <1>14. RunsPacked'
    BY <1>2, <1>7, <1>8, <1>9 DEF RunsPacked, Packed
  <1>15. QED
    BY <1>10, <1>11, <1>12, <1>13, <1>14 DEF IInv

(* Steps that only end the call.                                            *)
LEMMA EndsInv ==
  ASSUME IInv, UNCHANGED <<conf, training, version, cache, layer, held>>,
         call' \in CallRecord, call'.pc \in {"idle", "raised"}
  PROVE  IInv'
  <1>1. TypeOK'
    BY DEF IInv, TypeOK
  <1>2. CachesCurrent' /\ TablesOverPacks' /\ FullTables'
    BY CachesUntouched
  <1>3. NothingInTraining'
    BY DEF IInv, NothingInTraining
  <1>4. PreparationOrder' /\ PlansInHand' /\ RunsPacked' /\ AnswersCurrent'
    BY DEF PreparationOrder, PlansInHand, RunsPacked, AnswersCurrent, Answering, Kinds
  <1>5. QED
    BY <1>1, <1>2, <1>3, <1>4 DEF IInv

LEMMA RaisesInv ==
  ASSUME IInv,
         \/ \E op \in Operations : ArriveRefused(op)
         \/ \E s \in Lengths : ShapeRefused(s)
         \/ \E r \in Ranges : DynamicRefused(r)
         \/ DynamicUnrelated \/ RunUnprepared \/ LaunchRefused \/ AllocationFails \/ Return
  PROVE  IInv'
  <1>1. UNCHANGED <<conf, training, version, cache, layer, held>>
    BY DEF ArriveRefused, ShapeRefused, DynamicRefused, DynamicUnrelated, RunUnprepared,
           LaunchRefused, AllocationFails, Return
  <1>2. call \in CallRecord
    BY DEF IInv, TypeOK
  <1>3. Idle \in CallRecord /\ Idle.pc = "idle"
    BY DEF Idle, CallRecord, Steps, Operations
  <1>4. call' \in CallRecord /\ call'.pc \in {"idle", "raised"}
    <2>1. CASE \E op \in Operations : ArriveRefused(op)
      BY <2>1 DEF ArriveRefused, Idle, CallRecord, Steps, Operations
    <2>2. CASE (\E s \in Lengths : ShapeRefused(s)) \/ DynamicUnrelated \/ RunUnprepared
      BY <2>2, <1>2 DEF ShapeRefused, DynamicUnrelated, RunUnprepared, CallRecord, Steps
    <2>3. CASE (\E r \in Ranges : DynamicRefused(r)) \/ LaunchRefused \/ AllocationFails
      <3>1. \E b \in BOOLEAN : call' = [call EXCEPT !.pc = "raised", !.excused = b]
        <4>1. CASE \E r \in Ranges : DynamicRefused(r)
          <5> PICK r \in Ranges : DynamicRefused(r)
            BY <4>1
          <5>1. (r \in Gapped) \in BOOLEAN
            OBVIOUS
          <5>2. call' = [call EXCEPT !.pc = "raised", !.excused = r \in Gapped]
            BY DEF DynamicRefused
          <5>3. QED
            BY <5>1, <5>2, Zenon
        <4>2. CASE LaunchRefused \/ AllocationFails
          BY <4>2 DEF LaunchRefused, AllocationFails
        <4>3. QED
          BY <2>3, <4>1, <4>2
      <3>2. QED
        BY <3>1, <1>2 DEF CallRecord, Steps
    <2>4. CASE Return
      BY <2>4, <1>3 DEF Return
    <2>5. QED
      BY <2>1, <2>2, <2>3, <2>4
  <1>5. QED
    BY <1>1, <1>4, EndsInv

(* prepare_for_inference.                                                   *)
LEMMA ClearInv ==
  ASSUME IInv, Clear
  PROVE  IInv'
  <1>1. /\ layer' = EmptyCaches
        /\ call' = [call EXCEPT !.pc = "pack"]
        /\ UNCHANGED <<conf, training, version, cache, held>>
    BY DEF Clear, Cleared
  <1>2. ~training
    BY DEF IInv, NothingInTraining, Clear
  <1>3. call' \in CallRecord /\ call'.pc = "pack"
    BY <1>1 DEF IInv, TypeOK, CallRecord, Steps
  <1>4. TypeOK'
    BY <1>1, <1>3, EmptyCachesTyped DEF IInv, TypeOK
  <1>5. CachesCurrent'
    BY <1>1 DEF CachesCurrent, EmptyCaches, NoTables
  <1>6. TablesOverPacks' /\ FullTables'
    BY <1>1, EmptyCachesTyped DEF TablesOverPacks, FullTables, EmptyCaches, Tableless
  <1>7. NothingInTraining' /\ PreparationOrder' /\ RunsPacked' /\ AnswersCurrent'
    BY <1>1, <1>2, <1>3
    DEF NothingInTraining, PreparationOrder, RunsPacked, AnswersCurrent, Answering, Kinds
  <1>8. PlansInHand'
    BY <1>1 DEF IInv, TypeOK, CallRecord, PlansInHand, Clear
  <1>9. QED
    BY <1>4, <1>5, <1>6, <1>7, <1>8 DEF IInv

LEMMA PackInv ==
  ASSUME IInv, Pack
  PROVE  IInv'
  <1>1. /\ layer = EmptyCaches /\ ~training
        /\ layer' = [EmptyCaches EXCEPT !.weight = version]
        /\ call' = [call EXCEPT !.pc = "bias"]
        /\ UNCHANGED <<conf, training, version, cache, held>>
    BY DEF IInv, PreparationOrder, NothingInTraining, Pack
  <1>2. call' \in CallRecord /\ call'.pc = "bias"
    BY <1>1 DEF IInv, TypeOK, CallRecord, Steps
  <1>3. TypeOK'
    BY <1>1, <1>2, EmptyCachesTyped DEF IInv, TypeOK, AttentionLayer
  <1>4. CachesCurrent'
    BY <1>1 DEF CachesCurrent, EmptyCaches, NoTables
  <1>5. Tableless(layer')
    BY <1>1 DEF Tableless, EmptyCaches, NoTables
  <1>6. TablesOverPacks' /\ FullTables'
    BY <1>1, <1>5 DEF TablesOverPacks, FullTables, Tableless
  <1>7. NothingInTraining' /\ RunsPacked' /\ AnswersCurrent'
    BY <1>1, <1>2 DEF NothingInTraining, RunsPacked, AnswersCurrent
  <1>8. PreparationOrder'
    BY <1>1, <1>2, <1>5 DEF PreparationOrder, Tableless, EmptyCaches, Kinds
  <1>9. PlansInHand'
    BY <1>1 DEF IInv, TypeOK, CallRecord, PlansInHand, Pack
  <1>10. QED
    BY <1>3, <1>4, <1>6, <1>7, <1>8, <1>9 DEF IInv

LEMMA BiasInv ==
  ASSUME IInv, Bias
  PROVE  IInv'
  <1> DEFINE next == IF ~conf.relative THEN AfterPreparing(call.op)
                     ELSE IF call.rel THEN "c2p" ELSE "raised"
  <1>1. /\ Tableless(layer) /\ layer.weight = version /\ ~training
        /\ layer \in AttentionLayer /\ call \in CallRecord /\ version \in Versions
        /\ layer' = [layer EXCEPT !.bias = version]
        /\ call' = [call EXCEPT !.pc = next]
        /\ UNCHANGED <<conf, training, version, cache, held>>
    BY DEF IInv, TypeOK, PreparationOrder, NothingInTraining, Bias
  <1>2. /\ next \in {"answered", "shape", "c2p", "raised"}
        /\ next = "answered" => call.op = "prepare"
    BY DEF AfterPreparing
  <1> HIDE DEF next
  <1>3. /\ call' \in CallRecord /\ call'.pc = next
        /\ call'.op = call.op /\ call'.plans = call.plans
    BY <1>1, <1>2 DEF CallRecord, Steps, Kinds
  <1>4. TypeOK'
    BY <1>1, <1>3 DEF IInv, TypeOK, AttentionLayer
  <1>5. Tableless(layer') /\ layer'.weight = version /\ layer'.bias = version
    BY <1>1 DEF Tableless, AttentionLayer
  <1>6. CachesCurrent'
    BY <1>1, <1>5 DEF CachesCurrent, Tableless
  <1>7. TablesOverPacks' /\ FullTables'
    BY <1>1, <1>5 DEF TablesOverPacks, FullTables, Tableless
  <1>8. NothingInTraining' /\ PreparationOrder' /\ RunsPacked' /\ AnswersCurrent'
    BY <1>1, <1>2, <1>3, <1>5
    DEF NothingInTraining, PreparationOrder, RunsPacked, AnswersCurrent, Answering, Kinds
  <1>9. PlansInHand'
    BY <1>1, <1>2, <1>3 DEF IInv, PlansInHand, Bias
  <1>10. QED
    BY <1>4, <1>6, <1>7, <1>8, <1>9 DEF IInv

LEMMA ProjectInv ==
  ASSUME IInv, NEW k \in Kinds, Project(k)
  PROVE  IInv'
  <1> DEFINE next == IF k = "c2p" THEN "p2c" ELSE AfterPreparing(call.op)
  <1>1. /\ call.pc \in Kinds
        /\ layer.weight = version /\ layer.bias = version /\ ~training
        /\ layer \in AttentionLayer /\ call \in CallRecord /\ version \in Versions
        /\ layer' = IF k \in conf.kinds THEN [layer EXCEPT !.pos[k] = version] ELSE layer
        /\ call' = [call EXCEPT !.pc = next]
        /\ UNCHANGED <<conf, training, version, cache, held>>
    BY DEF IInv, TypeOK, PreparationOrder, NothingInTraining, Project, Kinds
  <1>2. /\ next \in {"answered", "shape", "p2c"}
        /\ next = "answered" => call.op = "prepare"
    BY DEF AfterPreparing
  <1> HIDE DEF next
  <1>3. /\ call' \in CallRecord /\ call'.pc = next
        /\ call'.op = call.op /\ call'.plans = call.plans
    BY <1>1, <1>2 DEF CallRecord, Steps, Kinds
  <1>4. /\ layer' \in AttentionLayer
        /\ layer'.weight = version /\ layer'.bias = version
        /\ layer'.shapes = layer.shapes /\ layer'.compact = layer.compact
        /\ \A j \in Kinds : layer'.pos[j] \in {layer.pos[j], version}
    BY <1>1 DEF AttentionLayer, Tables
  <1>5. TypeOK'
    BY <1>1, <1>3, <1>4 DEF IInv, TypeOK
  <1>6. CachesCurrent'
    BY <1>1, <1>4 DEF IInv, CachesCurrent
  <1>7. TablesOverPacks' /\ FullTables'
    BY <1>1, <1>4, NoneIsNoVersion DEF IInv, TablesOverPacks, FullTables, Packed
  <1>8. NothingInTraining' /\ PreparationOrder' /\ RunsPacked' /\ AnswersCurrent'
    BY <1>1, <1>2, <1>3, <1>4
    DEF NothingInTraining, PreparationOrder, RunsPacked, AnswersCurrent, Answering, Kinds
  <1>9. PlansInHand'
    BY <1>1, <1>2, <1>3 DEF IInv, PlansInHand, Kinds
  <1>10. QED
    BY <1>5, <1>6, <1>7, <1>8, <1>9 DEF IInv

(* prepare_shape.                                                           *)
LEMMA ShapeInv ==
  ASSUME IInv, NEW s \in Lengths, Shape(s)
  PROVE  IInv'
  <1> DEFINE next == IF call.todo # {s} THEN "shape"
                     ELSE IF call.op = "shape" THEN "answered" ELSE "run"
             slots == TableSlots(s)
             projected == layer.shapes[s] = None /\ layer.shapes[PlannedAs(s)] = None
  <1>1. /\ call.pc = "shape" /\ CanPlan(s) /\ ~training
        /\ layer \in AttentionLayer /\ call \in CallRecord
        /\ layer' = PlanFiled(s)
        /\ call' = [call EXCEPT !.todo = @ \ {s}, !.plans = @ \cup {PlanFor(s)}, !.pc = next]
        /\ held' = (IF call.op = "shape" THEN PlanFor(s) ELSE held)
        /\ UNCHANGED <<conf, training, version, cache>>
    BY DEF IInv, TypeOK, NothingInTraining, Shape
  <1>2. /\ PlanFor(s) \in Plan
        /\ \A k \in Kinds : PlanFor(s).pos[k] \in {None, version}
        /\ \A k \in conf.kinds : PlanFor(s).pos[k] = version
        /\ conf.kinds # {} => Packed
    BY <1>1, PlanCurrent
  <1>3. slots \in Ranges /\ (projected => CanProject(slots))
    BY <1>1, LengthsAssumption DEF IInv, TypeOK, PlannedAs, TableSlots, CanPlan
  <1>4. /\ layer'.weight = layer.weight /\ layer'.bias = layer.bias /\ layer'.pos = layer.pos
        /\ layer'.shapes = [layer.shapes EXCEPT ![s] = PlanFor(s)]
        /\ layer'.compact = IF projected THEN FiledCompact(slots) ELSE layer.compact
        /\ layer' = [layer EXCEPT !.shapes = layer'.shapes, !.compact = layer'.compact]
    BY <1>1 DEF PlanFiled, AttentionLayer
  <1>5. layer'.compact \in [Ranges -> Tables \cup {None}]
    BY <1>1, <1>3, <1>4, CompactFiled DEF AttentionLayer
  <1>6. layer'.shapes \in [Lengths -> Plan \cup {None}]
    BY <1>1, <1>2, <1>4 DEF AttentionLayer
  <1>7. \A m \in Lengths : layer'.shapes[m] = IF m = s THEN PlanFor(s) ELSE layer.shapes[m]
    BY <1>1, <1>4 DEF AttentionLayer
  <1>8. conf.kinds \subseteq Kinds
    BY DEF IInv, TypeOK, Configurations
  <1>9. \A r \in Ranges : layer'.compact[r] # None =>
          /\ \A k \in Kinds : layer'.compact[r][k] \in {None, version}
          /\ \A k \in conf.kinds : layer'.compact[r][k] # None
    <2>1. CASE projected
      BY <2>1, <1>3, <1>4, CompactFiled, NoneIsNoVersion DEF IInv, TypeOK
    <2>2. CASE ~projected
      BY <2>2, <1>4, <1>8 DEF IInv, CachesCurrent, FullTables
    <2>3. QED
      BY <2>1, <2>2
  <1>10. next \in {"shape", "answered", "run"} /\ (next = "answered" => call.op = "shape")
    OBVIOUS
  <1> HIDE DEF next, slots, projected
  <1>11. /\ call' \in CallRecord /\ call'.pc = next /\ call'.op = call.op
         /\ call'.plans = call.plans \cup {PlanFor(s)}
    BY <1>1, <1>2, <1>10 DEF CallRecord, Steps
  <1>12. TypeOK'
    <2>1. layer' \in AttentionLayer
      BY <1>1, <1>4, <1>5, <1>6 DEF AttentionLayer
    <2>2. QED
      BY <2>1, <1>1, <1>2, <1>11 DEF IInv, TypeOK
  <1>13. CachesCurrent'
    BY <1>1, <1>2, <1>4, <1>7, <1>9 DEF IInv, CachesCurrent
  <1>14. TablesOverPacks'
    BY <1>1, <1>2, <1>4 DEF TablesOverPacks, Packed
  <1>15. FullTables'
    BY <1>1, <1>2, <1>7, <1>9, NoneIsNoVersion DEF IInv, TypeOK, FullTables
  <1>16. NothingInTraining' /\ PreparationOrder' /\ AnswersCurrent'
    BY <1>1, <1>10, <1>11 DEF NothingInTraining, PreparationOrder, AnswersCurrent, Answering, Kinds
  <1>17. RunsPacked'
    BY <1>1, <1>2, <1>4 DEF RunsPacked, Packed
  <1>18. PlansInHand'
    BY <1>1, <1>2, <1>11 DEF IInv, PlansInHand
  <1>19. QED
    BY <1>12, <1>13, <1>14, <1>15, <1>16, <1>17, <1>18 DEF IInv

(* The plan of a caller's own relative positions.                           *)
LEMMA DynamicInv ==
  ASSUME IInv, NEW s \in Lengths, NEW r \in Ranges, Dynamic(s, r)
  PROVE  IInv'
  <1> DEFINE plan == [shape |-> s, index |-> r, cache |-> cache, range |-> r,
                      pos |-> Projected(r)]
  <1>1. /\ CanProject(r) /\ ~training
        /\ layer \in AttentionLayer /\ call \in CallRecord
        /\ layer' = [layer EXCEPT !.compact = FiledCompact(r)]
        /\ call' = [call EXCEPT !.pc = "run", !.todo = {}, !.plans = {plan}]
        /\ UNCHANGED <<conf, training, version, cache, held>>
    BY DEF IInv, TypeOK, NothingInTraining, Dynamic
  <1>2. /\ Projected(r) \in Tables
        /\ \A k \in conf.kinds : Projected(r)[k] = version
        /\ conf.kinds # {} => Packed
    BY <1>1, ProjectionCurrent
  <1>3. /\ FiledCompact(r) \in [Ranges -> Tables \cup {None}]
        /\ \A q \in Ranges : FiledCompact(r)[q] # None =>
             /\ \A k \in Kinds : FiledCompact(r)[q][k] \in {None, version}
             /\ \A k \in conf.kinds : FiledCompact(r)[q][k] = version
    BY <1>1, CompactFiled
  <1>4. /\ layer'.weight = layer.weight /\ layer'.bias = layer.bias /\ layer'.pos = layer.pos
        /\ layer'.shapes = layer.shapes /\ layer'.compact = FiledCompact(r)
        /\ layer' \in AttentionLayer
    BY <1>1, <1>3 DEF AttentionLayer
  <1>5. plan \in Plan /\ plan.pos = Projected(r)
    BY <1>2 DEF IInv, TypeOK, Plan
  <1> HIDE DEF plan
  <1>6. /\ call' \in CallRecord /\ call'.pc = "run" /\ call'.plans = {plan}
    BY <1>1, <1>5 DEF CallRecord, Steps
  <1>7. TypeOK'
    BY <1>1, <1>4, <1>6 DEF IInv, TypeOK
  <1>8. CachesCurrent'
    BY <1>1, <1>3, <1>4 DEF IInv, CachesCurrent
  <1>9. TablesOverPacks' /\ RunsPacked'
    BY <1>1, <1>2, <1>4 DEF TablesOverPacks, RunsPacked, Packed
  <1>10. FullTables'
    BY <1>1, <1>3, <1>4, NoneIsNoVersion DEF IInv, TypeOK, FullTables
  <1>11. NothingInTraining' /\ PreparationOrder' /\ AnswersCurrent'
    BY <1>1, <1>6 DEF NothingInTraining, PreparationOrder, AnswersCurrent, Answering, Kinds
  <1>12. PlansInHand'
    BY <1>1, <1>2, <1>5, <1>6 DEF PlansInHand
  <1>13. QED
    BY <1>7, <1>8, <1>9, <1>10, <1>11, <1>12 DEF IInv

(* forward_prepared: what an answer is made of.                             *)
LEMMA RunInv ==
  ASSUME IInv, Run
  PROVE  IInv'
  <1> DEFINE tables == {p.pos[k] : p \in call.plans, k \in conf.kinds}
             used == {layer.weight, layer.bias} \cup tables
  <1>1. /\ call.pc = "run" /\ layer.weight # None /\ ~training
        /\ layer \in AttentionLayer /\ call \in CallRecord /\ conf.kinds \subseteq Kinds
        /\ call' = [call EXCEPT !.pc = "answered", !.used = used]
        /\ UNCHANGED <<conf, training, version, cache, layer, held>>
    BY DEF IInv, TypeOK, NothingInTraining, Run, Configurations
  <1>2. tables \subseteq Versions \cup {None}
    BY <1>1 DEF CallRecord, Plan, Tables
  <1>3. used \subseteq Versions \cup {None}
    BY <1>1, <1>2 DEF AttentionLayer
  <1>4. layer.weight = version /\ layer.bias \in {version, None}
    BY <1>1 DEF IInv, CachesCurrent
  <1>5. call.op # "prepared" => tables \subseteq {version}
    BY <1>1 DEF IInv, PlansInHand
  <1>6. call.op # "prepared" /\ conf.kinds # {} => layer.bias = version
    BY <1>1, <1>4 DEF IInv, RunsPacked, Packed
  <1>7. version # None
    BY NoneIsNoVersion DEF IInv, TypeOK
  <1>8. /\ version \in used
        /\ call.op # "prepared" => used \subseteq {version, None}
        /\ conf.kinds # {} /\ call.op # "prepared" => None \notin used
    BY <1>4, <1>5, <1>6, <1>7
  <1> HIDE DEF tables, used
  <1>9. /\ call' \in CallRecord /\ call'.pc = "answered"
        /\ call'.op = call.op /\ call'.used = used
    BY <1>1, <1>3 DEF CallRecord, Steps
  <1>10. TypeOK'
    BY <1>1, <1>9 DEF IInv, TypeOK
  <1>11. CachesCurrent' /\ TablesOverPacks' /\ FullTables'
    BY <1>1, CachesUntouched
  <1>12. AnswersCurrent'
    BY <1>1, <1>8, <1>9 DEF AnswersCurrent
  <1>13. NothingInTraining' /\ PreparationOrder' /\ PlansInHand' /\ RunsPacked'
    BY <1>1, <1>9 DEF NothingInTraining, PreparationOrder, PlansInHand, RunsPacked, Kinds
  <1>14. QED
    BY <1>10, <1>11, <1>12, <1>13 DEF IInv

------------------------------------------------------------------------------
(* The host's steps, all between calls: they empty the caches, or change no *)
(* parameter and only drop entries.                                         *)

LEMMA EmptyingInv ==
  ASSUME IInv, call.pc = "idle", layer' = EmptyCaches,
         UNCHANGED <<conf, call, held>>, cache' \in 1..MaxCaches,
         training' \in BOOLEAN, version' \in Versions
  PROVE  IInv'
  <1>1. TypeOK'
    BY EmptyCachesTyped DEF IInv, TypeOK
  <1>2. CachesCurrent'
    BY DEF CachesCurrent, EmptyCaches, NoTables
  <1>3. TablesOverPacks' /\ FullTables'
    BY EmptyCachesTyped DEF TablesOverPacks, FullTables, Tableless, EmptyCaches
  <1>4. NothingInTraining'
    BY DEF NothingInTraining
  <1>5. PreparationOrder' /\ PlansInHand' /\ RunsPacked' /\ AnswersCurrent'
    BY DEF PreparationOrder, PlansInHand, RunsPacked, AnswersCurrent, Answering, Kinds
  <1>6. QED
    BY <1>1, <1>2, <1>3, <1>4, <1>5 DEF IInv

LEMMA DroppingInv ==
  ASSUME IInv, call.pc = "idle", training' = FALSE, layer' \in AttentionLayer,
         layer'.weight = layer.weight, layer'.bias = layer.bias,
         \A k \in Kinds : layer'.pos[k] \in {layer.pos[k], None},
         \A s \in Lengths : layer'.shapes[s] \in {layer.shapes[s], None},
         \A r \in Ranges : layer'.compact[r] \in {layer.compact[r], None},
         cache' \in 1..MaxCaches, UNCHANGED <<conf, version, call, held>>
  PROVE  IInv'
  <1>1. TypeOK'
    BY DEF IInv, TypeOK
  <1>2. CachesCurrent'
    BY DEF IInv, CachesCurrent
  <1>3. TablesOverPacks'
    BY DEF IInv, TablesOverPacks, Tableless, Packed
  <1>4. FullTables'
    BY DEF IInv, FullTables
  <1>5. NothingInTraining'
    BY DEF NothingInTraining
  <1>6. PreparationOrder' /\ PlansInHand' /\ RunsPacked' /\ AnswersCurrent'
    BY DEF PreparationOrder, PlansInHand, RunsPacked, AnswersCurrent, Answering, Kinds
  <1>7. QED
    BY <1>1, <1>2, <1>3, <1>4, <1>5, <1>6 DEF IInv

LEMMA HostInv ==
  ASSUME IInv, HostStep
  PROVE  IInv'
  <1>1. ASSUME NEW mode \in BOOLEAN, Train(mode) PROVE IInv'
    <2>1. CASE mode
      BY <1>1, <2>1, EmptyingInv DEF Train, Cleared, IInv, TypeOK
    <2>2. CASE ~mode
      BY <1>1, <2>2, DroppingInv DEF Train, IInv, TypeOK
    <2>3. QED
      BY <2>1, <2>2
  <1>2. \A v \in Versions : v < MaxVersion => v + 1 \in Versions
    BY BoundsAssumption DEF Versions
  <1>3. ASSUME OptimizerStep PROVE IInv'
    BY <1>2, <1>3, EmptyingInv DEF OptimizerStep, IInv, TypeOK, NothingInTraining
  <1>4. ASSUME ReplaceParameters PROVE IInv'
    BY <1>2, <1>4, EmptyingInv DEF ReplaceParameters, Cleared, IInv, TypeOK
  <1>5. ASSUME ClearInferenceCache PROVE IInv'
    BY <1>5, EmptyingInv DEF ClearInferenceCache, Cleared, IInv, TypeOK
  <1>6. ASSUME ReleaseWorkspace PROVE IInv'
    <2>1. CASE training
      BY <1>6, <2>1, EmptyingInv
      DEF ReleaseWorkspace, IInv, TypeOK, NothingInTraining, EmptyCaches
    <2>2. CASE ~training
      BY <1>6, <2>2, DroppingInv
      DEF ReleaseWorkspace, IInv, TypeOK, AttentionLayer, NoTables, Tables
    <2>3. QED
      BY <2>1, <2>2
  <1>7. ASSUME SetPositionPlanCache PROVE IInv'
    <2>1. cache' \in 1..MaxCaches
      BY <1>7, BoundsAssumption DEF SetPositionPlanCache, IInv, TypeOK
    <2>2. CASE training
      <3>1. layer = EmptyCaches
        BY <2>2 DEF IInv, NothingInTraining
      <3>2. layer' = [EmptyCaches EXCEPT !.compact = EmptyCaches.compact,
                                         !.shapes = EmptyCaches.shapes]
        BY <1>7, <3>1 DEF SetPositionPlanCache
      <3>3. layer' = EmptyCaches
        BY <3>2 DEF EmptyCaches
      <3>4. QED
        BY <1>7, <2>1, <3>3, EmptyingInv DEF SetPositionPlanCache, IInv, TypeOK
    <2>3. CASE ~training
      BY <1>7, <2>1, <2>3, DroppingInv
      DEF SetPositionPlanCache, EmptyCaches, IInv, TypeOK, AttentionLayer
    <2>4. QED
      BY <2>2, <2>3
  <1>8. QED
    BY <1>1, <1>3, <1>4, <1>5, <1>6, <1>7 DEF HostStep

LEMMA NextInv == IInv /\ [Next]_vars => IInv'
  <1> SUFFICES ASSUME IInv, [Next]_vars PROVE IInv'
    OBVIOUS
  <1>1. ASSUME CallStep PROVE IInv'
    <2>1. CASE \E op \in Operations, S \in SUBSET Lengths, rel \in BOOLEAN : Arrive(op, S, rel)
      BY <2>1, ArriveInv
    <2>2. CASE Clear
      BY <2>2, ClearInv
    <2>3. CASE Pack
      BY <2>3, PackInv
    <2>4. CASE Bias
      BY <2>4, BiasInv
    <2>5. CASE \E k \in Kinds : Project(k)
      BY <2>5, ProjectInv
    <2>6. CASE \E s \in Lengths : Shape(s)
      BY <2>6, ShapeInv
    <2>7. CASE \E s \in Lengths, r \in Ranges : Dynamic(s, r)
      BY <2>7, DynamicInv
    <2>8. CASE Run
      BY <2>8, RunInv
    <2>9. CASE \/ \E op \in Operations : ArriveRefused(op)
               \/ \E s \in Lengths : ShapeRefused(s)
               \/ \E r \in Ranges : DynamicRefused(r)
               \/ DynamicUnrelated \/ RunUnprepared \/ LaunchRefused \/ AllocationFails
               \/ Return
      BY <2>9, RaisesInv
    <2>10. QED
      BY <1>1, <2>1, <2>2, <2>3, <2>4, <2>5, <2>6, <2>7, <2>8, <2>9 DEF CallStep
  <1>2. ASSUME UNCHANGED vars PROVE IInv'
    BY <1>2 DEF vars, IInv, TypeOK, CachesCurrent, TablesOverPacks, NothingInTraining,
       PreparationOrder, FullTables, PlansInHand, RunsPacked, AnswersCurrent, Tableless, Packed
  <1>3. QED
    BY <1>1, <1>2, HostInv DEF Next

LEMMA AlwaysIInv == Spec => []IInv
  BY InitInv, NextInv, PTL DEF Spec

------------------------------------------------------------------------------
(* Plans and their tables: only prepare_shape files a plan, all other steps  *)
(* keep or drop what is filed.                                              *)
LEMMA OnlyShapeFiles ==
  ASSUME IInv, [Next]_vars, \A s \in Lengths : ~Shape(s)
  PROVE  /\ conf' = conf
         /\ \A s \in Lengths : layer'.shapes[s] \in {layer.shapes[s], None}
  <1>1. layer \in AttentionLayer
    BY DEF IInv, TypeOK
  <1>2. \A s \in Lengths : EmptyCaches.shapes[s] = None
    BY DEF EmptyCaches
  <1>3. CASE UNCHANGED vars
    BY <1>3 DEF vars
  <1>4. CASE HostStep
    <2>1. conf' = conf
      BY <1>4 DEF HostStep, Train, OptimizerStep, ReplaceParameters, ClearInferenceCache,
                  ReleaseWorkspace, SetPositionPlanCache
    <2>2. layer'.shapes \in {layer.shapes, EmptyCaches.shapes}
      BY <1>4, <1>1 DEF HostStep, Train, OptimizerStep, ReplaceParameters, ClearInferenceCache,
                  ReleaseWorkspace, SetPositionPlanCache, Cleared, AttentionLayer
    <2>3. QED
      BY <2>1, <2>2, <1>2
  <1>5. CASE CallStep
    <2> DEFINE keeps == conf' = conf /\ layer'.shapes \in {layer.shapes, EmptyCaches.shapes}
    <2>1. ASSUME NEW op \in Operations, NEW S \in SUBSET Lengths, NEW rel \in BOOLEAN,
                 Arrive(op, S, rel) \/ ArriveRefused(op)
          PROVE  keeps
      BY <2>1 DEF Arrive, ArriveRefused
    <2>2. ASSUME Clear \/ Pack \/ Bias PROVE keeps
      BY <2>2, <1>1 DEF Clear, Pack, Bias, Cleared, AttentionLayer
    <2>3. ASSUME NEW k \in Kinds, Project(k) PROVE keeps
      BY <2>3, <1>1 DEF Project, AttentionLayer
    <2>4. ASSUME NEW s \in Lengths, NEW r \in Ranges, Dynamic(s, r) PROVE keeps
      BY <2>4, <1>1 DEF Dynamic, AttentionLayer
    <2>5. ASSUME \/ \E s \in Lengths : ShapeRefused(s)
                 \/ \E r \in Ranges : DynamicRefused(r)
          PROVE  keeps
      BY <2>5 DEF ShapeRefused, DynamicRefused
    <2>6. ASSUME \/ DynamicUnrelated \/ Run \/ RunUnprepared \/ LaunchRefused
                 \/ AllocationFails \/ Return
          PROVE  keeps
      BY <2>6 DEF DynamicUnrelated, Run, RunUnprepared, LaunchRefused, AllocationFails, Return
    <2>7. keeps
      <3> HIDE DEF keeps
      <3>1. QED
        BY <1>5, <2>1, <2>2, <2>3, <2>4, <2>5, <2>6 DEF CallStep
    <2>8. QED
      BY <2>7, <1>2
  <1>6. QED
    BY <1>3, <1>4, <1>5 DEF Next

(* The representative of a representative is itself, so tables taken from    *)
(* its plan hold the slots this length's map points into.                   *)
LEMMA ShapeFits ==
  ASSUME IInv, TablesFitIndex, NEW s \in Lengths, Shape(s)
  PROVE  TablesFitIndex'
  <1> DEFINE rep == layer.shapes[PlannedAs(s)]
  <1>1. /\ conf' = conf /\ CanPlan(s) /\ layer \in AttentionLayer
        /\ layer' = PlanFiled(s)
    BY DEF IInv, TypeOK, Shape
  <1>2. \A m \in Lengths : layer'.shapes[m] = IF m = s THEN PlanFor(s) ELSE layer.shapes[m]
    BY <1>1 DEF PlanFiled, AttentionLayer
  <1>3. PlannedAs(s) \in Lengths /\ PlannedAs(PlannedAs(s)) = PlannedAs(s)
    BY LengthsAssumption DEF PlannedAs
  <1>4. PlanFor(s) \in Plan /\ \A k \in conf.kinds : PlanFor(s).pos[k] # None
    BY <1>1, PlanCurrent, NoneIsNoVersion DEF IInv, TypeOK
  <1>5. /\ PlanFor(s).shape = s
        /\ PlanFor(s).range = PlanFor(s).index
        /\ PlanFor(s).index = SlotRange[PlannedAs(s)]
    <2>1. CASE layer.shapes[s] # None
      BY <2>1 DEF TablesFitIndex, PlanFor
    <2>2. CASE layer.shapes[s] = None /\ rep # None
      <3>1. rep.range = SlotRange[PlannedAs(s)]
        BY <2>2, <1>3 DEF TablesFitIndex
      <3>2. QED
        BY <2>2, <3>1 DEF PlanFor
    <2>3. CASE layer.shapes[s] = None /\ rep = None
      BY <2>3 DEF PlanFor, TableSlots
    <2>4. QED
      BY <2>1, <2>2, <2>3
  <1>6. \A m \in Lengths : PlannedAs(m)' = PlannedAs(m)
    BY <1>1 DEF PlannedAs
  <1>7. QED
    BY <1>1, <1>2, <1>4, <1>5, <1>6 DEF TablesFitIndex

LEMMA FitInv == IInv /\ TablesFitIndex /\ [Next]_vars => TablesFitIndex'
  <1> SUFFICES ASSUME IInv, TablesFitIndex, [Next]_vars PROVE TablesFitIndex'
    OBVIOUS
  <1>1. CASE \E s \in Lengths : Shape(s)
    BY <1>1, ShapeFits
  <1>2. CASE \A s \in Lengths : ~Shape(s)
    <2>1. /\ conf' = conf
          /\ \A s \in Lengths : layer'.shapes[s] \in {layer.shapes[s], None}
      BY <1>2, OnlyShapeFiles
    <2>2. \A m \in Lengths : PlannedAs(m)' = PlannedAs(m)
      BY <2>1 DEF PlannedAs
    <2>3. QED
      BY <2>1, <2>2 DEF TablesFitIndex
  <1>3. QED
    BY <1>1, <1>2

------------------------------------------------------------------------------

(* Every call that brings the relative embeddings finds, or makes, what it  *)
(* needs: the tables of every kind, or the plans of every length.           *)

AllProjected == \A k \in conf.kinds : layer.pos[k] # None

OnlyKindsProjected == \A k \in Kinds \ conf.kinds : layer.pos[k] = None

Eligible == call.op \in {"forward", "packed", "dynamic"}

Plannable ==
  \/ call.op = "packed" /\ call.half
  \/ AllProjected
  \/ call.op = "packed" /\ \A s \in call.todo : layer.shapes[s] # None

Progress ==
  /\ OnlyKindsProjected
  /\ call.pc = "p2c" /\ "c2p" \in conf.kinds => layer.pos["c2p"] # None
  /\ call.pc = "shape" /\ Eligible => Plannable
  /\ call.pc \in {"shape", "run"} /\ Eligible => layer.weight # None
  /\ EligibleAnswered

LEMMA ArriveProgress ==
  ASSUME IInv, Progress, NEW op \in Operations, NEW S \in SUBSET Lengths,
         NEW rel \in BOOLEAN, Arrive(op, S, rel)
  PROVE  Progress'
  <1> DEFINE todo == Wanted(op, S)
             step == CASE op = "prepared" \/ Ready(op, todo) -> "run"
                       [] NeedsPreparation(op, todo)         -> "clear"
                       [] OTHER                              -> "shape"
  <1>1. UNCHANGED <<conf, layer>>
    BY DEF Arrive
  <1>2. /\ call'.pc = step /\ call'.op = op /\ call'.todo = todo
        /\ call'.half = HalfProjected
    BY DEF Arrive, Idle
  <1>3. /\ step \in {"run", "clear", "shape"}
        /\ step = "run" => op = "prepared" \/ Ready(op, todo)
        /\ step = "shape" => ~Ready(op, todo) /\ ~NeedsPreparation(op, todo)
    OBVIOUS
  <1> HIDE DEF todo, step
  <1>4. step = "shape" /\ op \in {"forward", "dynamic"} => AllProjected /\ layer.weight # None
    BY <1>3 DEF NeedsPreparation, TableMissing, AllProjected
  <1>5. ASSUME step = "shape", op = "packed"
        PROVE  /\ layer.weight # None
               /\ HalfProjected \/ AllProjected \/ \A s \in todo : layer.shapes[s] # None
    <2>1. ~PackedTableMissing(op, todo)
      BY <1>3, <1>5 DEF NeedsPreparation
    <2>2. (\E k \in Kinds : layer.pos[k] # None) => HalfProjected \/ AllProjected
      BY DEF Progress, OnlyKindsProjected, HalfProjected, AllProjected
    <2>3. QED
      BY <2>1, <2>2 DEF PackedTableMissing, AllProjected
  <1>6. step = "run" /\ op # "prepared" => layer.weight # None
    BY <1>3 DEF Ready
  <1>7. OnlyKindsProjected'
    BY <1>1 DEF Progress, OnlyKindsProjected
  <1>8. call'.pc = "shape" /\ Eligible' => Plannable'
    BY <1>1, <1>2, <1>4, <1>5 DEF Eligible, Plannable, AllProjected
  <1>9. call'.pc \in {"shape", "run"} /\ Eligible' => layer'.weight # None
    BY <1>1, <1>2, <1>4, <1>5, <1>6 DEF Eligible
  <1>10. EligibleAnswered' /\ call'.pc # "p2c"
    BY <1>2, <1>3 DEF EligibleAnswered
  <1>11. QED
    BY <1>7, <1>8, <1>9, <1>10 DEF Progress

LEMMA PreparingProgress ==
  ASSUME IInv, Progress, Clear \/ Pack \/ Bias \/ \E k \in Kinds : Project(k)
  PROVE  Progress'
  <1>1. /\ layer \in AttentionLayer /\ call \in CallRecord /\ conf \in Configurations
        /\ version # None
    BY NoneIsNoVersion DEF IInv, TypeOK
  <1>2. CASE Clear \/ Pack
    <2>1. call'.pc \in {"pack", "bias"} /\ conf' = conf
      BY <1>1, <1>2 DEF Clear, Pack, CallRecord
    <2>2. \A k \in Kinds : layer'.pos[k] \in {layer.pos[k], None}
      BY <1>1, <1>2 DEF Clear, Pack, Cleared, EmptyCaches, NoTables, AttentionLayer
    <2>3. QED
      BY <2>1, <2>2 DEF Progress, OnlyKindsProjected, EligibleAnswered
  <1>3. CASE Bias
    <2>1. /\ conf' = conf /\ layer'.pos = layer.pos /\ layer'.weight = version
          /\ call'.rel = call.rel
          /\ call'.pc \in {"answered", "shape", "c2p", "raised"}
      BY <1>1, <1>3 DEF Bias, IInv, PreparationOrder, AttentionLayer, CallRecord, AfterPreparing
    <2>2. call'.pc = "raised" => ~call.rel
      BY <1>1, <1>3 DEF Bias, CallRecord, AfterPreparing
    <2>3. call'.pc = "shape" => conf.kinds = {}
      BY <1>1, <1>3 DEF Bias, CallRecord, Configurations
    <2>4. QED
      BY <2>1, <2>2, <2>3, <1>1
      DEF Progress, OnlyKindsProjected, EligibleAnswered, Plannable, AllProjected
  <1>4. CASE \E k \in Kinds : Project(k)
    <2> PICK k \in Kinds : Project(k)
      BY <1>4
    <2>1. /\ conf' = conf /\ layer'.weight = version /\ call.pc = k
          /\ call'.pc = IF k = "c2p" THEN "p2c" ELSE AfterPreparing(call.op)
      BY <1>1 DEF Project, IInv, PreparationOrder, AttentionLayer, CallRecord
    <2>2. \A j \in Kinds :
            layer'.pos[j] = IF j = k /\ k \in conf.kinds THEN version ELSE layer.pos[j]
      BY <1>1 DEF Project, AttentionLayer, Tables
    <2>3. conf.kinds \subseteq {"c2p", "p2c"}
      BY <1>1 DEF Configurations, Kinds
    <2>4. OnlyKindsProjected'
      BY <2>1, <2>2 DEF Progress, OnlyKindsProjected
    <2>5. CASE k = "c2p"
      BY <2>5, <2>1, <2>2, <2>4, <1>1 DEF Progress, EligibleAnswered, Kinds
    <2>6. CASE k = "p2c"
      <3>1. call'.pc \in {"answered", "shape"}
        BY <2>6, <2>1 DEF AfterPreparing
      <3>2. AllProjected'
        BY <2>6, <2>1, <2>2, <2>3, <1>1 DEF Progress, AllProjected, Kinds
      <3>3. QED
        BY <3>1, <3>2, <2>1, <2>4, <1>1 DEF Progress, EligibleAnswered, Plannable
    <2>7. QED
      BY <2>5, <2>6 DEF Kinds
  <1>5. QED
    BY <1>2, <1>3, <1>4

LEMMA PlanningProgress ==
  ASSUME IInv, Progress, NEW s \in Lengths, Shape(s) \/ ShapeRefused(s)
  PROVE  Progress'
  <1>1. layer \in AttentionLayer /\ call \in CallRecord
    BY DEF IInv, TypeOK
  <1>2. CASE Shape(s)
    <2>1. /\ conf' = conf /\ layer'.pos = layer.pos /\ layer'.weight = layer.weight
          /\ \A m \in Lengths \ {s} : layer'.shapes[m] = layer.shapes[m]
      BY <1>1, <1>2 DEF Shape, PlanFiled, AttentionLayer
    <2>2. /\ call.pc = "shape" /\ call.todo \subseteq Lengths
          /\ call'.pc \in {"shape", "answered", "run"}
          /\ call'.op = call.op /\ call'.half = call.half /\ call'.todo = call.todo \ {s}
      BY <1>1, <1>2 DEF Shape, CallRecord
    <2>3. Plannable => Plannable'
      BY <2>1, <2>2 DEF Plannable, AllProjected
    <2>4. QED
      BY <2>1, <2>2, <2>3 DEF Progress, OnlyKindsProjected, EligibleAnswered, Eligible
  <1>3. CASE ShapeRefused(s)
    <2>1. /\ conf' = conf /\ layer' = layer /\ call.pc = "shape" /\ s \in call.todo
          /\ call.op # "dynamic" /\ ~CanPlan(s)
          /\ call' = [call EXCEPT !.pc = "raised"]
      BY <1>3 DEF ShapeRefused
    <2>2. /\ call'.pc = "raised" /\ call'.op = call.op /\ call'.half = call.half
          /\ call'.todo = call.todo /\ TableSlots(s)' = TableSlots(s)
      BY <1>1, <2>1 DEF CallRecord, TableSlots, PlannedAs
    <2>3. layer.shapes[s] = None /\ ~CanProject(TableSlots(s))
      BY <2>1 DEF CanPlan
    <2>4. Eligible => \/ call.op = "packed" /\ call.half
                      \/ conf.kinds # {} /\ TableSlots(s) \in Gapped
      BY <2>1, <2>3 DEF Progress, Plannable, AllProjected, CanProject
    <2>5. Eligible => \/ call.op = "packed" /\ call.half
                      \/ conf.kinds # {} /\ \E m \in call.todo : TableSlots(m)' \in Gapped
      BY <2>1, <2>2, <2>4
    <2>6. QED
      BY <2>1, <2>2, <2>5 DEF Progress, OnlyKindsProjected, EligibleAnswered, Eligible
  <1>4. QED
    BY <1>2, <1>3

LEMMA EndingProgress ==
  ASSUME IInv, Progress,
         \/ \E op \in Operations : ArriveRefused(op)
         \/ \E s \in Lengths, r \in Ranges : Dynamic(s, r)
         \/ \E r \in Ranges : DynamicRefused(r)
         \/ DynamicUnrelated \/ Run \/ RunUnprepared \/ LaunchRefused \/ AllocationFails
         \/ Return
  PROVE  Progress'
  <1>1. layer \in AttentionLayer /\ call \in CallRecord
    BY DEF IInv, TypeOK
  <1>2. CASE \E s \in Lengths, r \in Ranges : Dynamic(s, r)
    <2>1. /\ conf' = conf /\ layer'.pos = layer.pos /\ layer'.weight = layer.weight
          /\ call.pc = "shape" /\ call'.pc = "run" /\ call'.op = call.op
      BY <1>1, <1>2 DEF Dynamic, AttentionLayer, CallRecord
    <2>2. QED
      BY <2>1 DEF Progress, OnlyKindsProjected, EligibleAnswered, Eligible
  <1>3. ASSUME \/ \E op \in Operations : ArriveRefused(op)
               \/ LaunchRefused \/ AllocationFails
        PROVE  Progress'
    <2>1. /\ conf' = conf /\ layer' = layer /\ call'.pc = "raised" /\ call'.excused = TRUE
      BY <1>1, <1>3 DEF ArriveRefused, LaunchRefused, AllocationFails, Idle, CallRecord
    <2>2. QED
      BY <2>1 DEF Progress, OnlyKindsProjected, EligibleAnswered
  <1>4. CASE Run \/ Return
    <2>1. /\ conf' = conf /\ layer' = layer /\ call'.pc \in {"answered", "idle"}
      <3> DEFINE used == {layer.weight, layer.bias} \cup
                         {p.pos[k] : p \in call.plans, k \in conf.kinds}
      <3>1. Run => call' = [call EXCEPT !.pc = "answered", !.used = used]
                   /\ UNCHANGED <<conf, layer>>
        BY DEF Run
      <3> HIDE DEF used
      <3>2. QED
        <4>1. CASE Run
          BY <1>1, <3>1, <4>1 DEF CallRecord
        <4>2. CASE Return
          BY <4>2 DEF Return, Idle
        <4>3. QED
          BY <1>4, <4>1, <4>2
    <2>2. QED
      BY <2>1 DEF Progress, OnlyKindsProjected, EligibleAnswered
  <1>5. CASE RunUnprepared
    <2>1. /\ conf' = conf /\ layer' = layer /\ call'.pc = "raised"
          /\ call'.op = call.op /\ ~Eligible
      BY <1>1, <1>5 DEF RunUnprepared, CallRecord, Progress
    <2>2. QED
      BY <2>1 DEF Progress, OnlyKindsProjected, EligibleAnswered, Eligible
  <1>6. CASE \E r \in Ranges : DynamicRefused(r)
    <2> PICK r \in Ranges : DynamicRefused(r)
      BY <1>6
    <2>1. /\ conf' = conf /\ layer' = layer /\ call.pc = "shape" /\ call.op = "dynamic"
          /\ ~CanProject(r) /\ call'.pc = "raised" /\ call'.excused = (r \in Gapped)
      BY <1>1 DEF DynamicRefused, CallRecord
    <2>2. call.op = "dynamic" => AllProjected
      BY <2>1 DEF Progress, Plannable, Eligible
    <2>3. r \in Gapped
      BY <2>1, <2>2 DEF CanProject, AllProjected
    <2>4. QED
      BY <2>1, <2>3 DEF Progress, OnlyKindsProjected, EligibleAnswered
  <1>7. CASE DynamicUnrelated
    <2>1. /\ conf' = conf /\ layer' = layer /\ call'.pc = "raised" /\ call'.op = "dynamic"
          /\ ~conf.relative
      BY <1>1, <1>7 DEF DynamicUnrelated, CallRecord
    <2>2. QED
      BY <2>1 DEF Progress, OnlyKindsProjected, EligibleAnswered
  <1>8. QED
    BY <1>2, <1>3, <1>4, <1>5, <1>6, <1>7

LEMMA HostProgress ==
  ASSUME IInv, Progress, HostStep
  PROVE  Progress'
  <1>1. layer \in AttentionLayer
    BY DEF IInv, TypeOK
  <1>2. call' = call /\ call.pc = "idle" /\ conf' = conf
    BY DEF HostStep, Train, OptimizerStep, ReplaceParameters, ClearInferenceCache,
           ReleaseWorkspace, SetPositionPlanCache
  <1>3. layer'.pos \in {layer.pos, NoTables}
    <2>1. CASE (\E mode \in BOOLEAN : Train(mode)) \/ OptimizerStep
      BY <2>1 DEF Train, OptimizerStep, Cleared, EmptyCaches
    <2>2. CASE ReplaceParameters \/ ClearInferenceCache
      BY <2>2 DEF ReplaceParameters, ClearInferenceCache, Cleared, EmptyCaches
    <2>3. CASE ReleaseWorkspace \/ SetPositionPlanCache
      BY <2>3, <1>1 DEF ReleaseWorkspace, SetPositionPlanCache, AttentionLayer
    <2>4. QED
      BY <2>1, <2>2, <2>3 DEF HostStep
  <1>4. QED
    BY <1>2, <1>3 DEF Progress, OnlyKindsProjected, EligibleAnswered, NoTables

LEMMA ProgressInv == IInv /\ Progress /\ [Next]_vars => Progress'
  <1> SUFFICES ASSUME IInv, Progress, [Next]_vars PROVE Progress'
    OBVIOUS
  <1>1. CASE CallStep
    BY <1>1, ArriveProgress, PreparingProgress, PlanningProgress, EndingProgress DEF CallStep
  <1>2. CASE UNCHANGED vars
    BY <1>2 DEF vars, Progress, OnlyKindsProjected, Eligible, Plannable, AllProjected,
                EligibleAnswered, TableSlots, PlannedAs
  <1>3. QED
    BY <1>1, <1>2, HostProgress DEF Next

------------------------------------------------------------------------------

(* A standalone layer never keeps a tensor of parameters it no longer has:  *)
(* train(), _apply() and the load hook discard all that calls derive,       *)
(* whichever calls failed on the way (_torch.py:42-46, 108-126).            *)
THEOREM CachesAlwaysCurrent == Spec => []CachesCurrent
  BY AlwaysIInv, PTL DEF IInv

(* An answer of forward or forward_packed is computed from the current      *)
(* parameters, and on a layer with position tables from the biases too, in  *)
(* spite of every failed preparation before it (_torch.py:204-238).         *)
THEOREM AnswersAlwaysCurrent == Spec => []AnswersCurrent
  BY AlwaysIInv, PTL DEF IInv

(* Type correctness of the standalone layer: no plan is filed with a table  *)
(* that is not there (_torch.py:281-297, kernel.py:1500-1518).              *)
THEOREM StandaloneTypeCorrect == Spec => []TypeOK
  BY AlwaysIInv, PTL DEF IInv

(* The tables of a filed plan hold the slots its map points into, from       *)
(* whichever of three sources they were taken (kernel.py:1500-1516).        *)
THEOREM TablesAlwaysFit == Spec => []TablesFitIndex
  <1>1. Init => TablesFitIndex
    BY DEF Init, TablesFitIndex, EmptyCaches
  <1>2. QED
    BY <1>1, FitInv, AlwaysIInv, PTL DEF Spec

(* A call in eval mode with the relative embeddings is answered whatever     *)
(* failed before it, unless its input, memory or the launch fails it. What   *)
(* remains are forward_packed on a half-projected layer (kernel.py:1388-     *)
(* 1396), a relative_pos without relative attention (_torch.py:367) and a    *)
(* length whose slots have a hole (_torch.py:266-269).                       *)
THEOREM EligibleAlwaysAnswered == Spec => []EligibleAnswered
  <1>1. Init => Progress
    BY DEF Init, Progress, OnlyKindsProjected, EligibleAnswered, EmptyCaches, NoTables, Idle
  <1>2. QED
    BY <1>1, ProgressInv, AlwaysIInv, PTL DEF Spec, Progress
==============================================================================
