----------------------------- MODULE EncoderEntry -----------------------------
(***************************************************************************)
(* encoder_forward: the gate (_unsupported_reason), the reference encoder  *)
(* for what it does not let through, and the fast path, whose state comes  *)
(* from EncoderRegistry. The gate looks at the call, the encoder and its   *)
(* first layer; the fast path computes with the attentions its state was   *)
(* built from, of all layers, and refuses where it meets what it cannot    *)
(* do. Layers may be replaced between calls.                               *)
(***************************************************************************)
EXTENDS EncoderRegistry, Naturals, Sequences

CONSTANTS
  Modules,         \* attention modules, by their projections
  Positions,       \* settings of the position buckets
  Gapped,          \* settings and lengths whose active slots have a gap: see PositionPlan
  Inputs,          \* the calls considered
  Host,            \* of each encoder: relative_attention, conv, get_rel_embedding
  Layouts,         \* of each encoder: the layers it may have, first to last
  TritonInstalled

MAX_SEQUENCE_LENGTH == 8192

SUPPORTED_HEAD_DIMS == {32, 64, 128}

SUPPORTED_DTYPES == {"float16", "bfloat16", "float32"}

(* What _attention_config and _share_projections take from a layer's       *)
(* attention; an upstream change may take attributes away. One without     *)
(* relative attention has no max_relative_positions.                       *)
Attention ==
  [module : Modules, missing : SUBSET {"config", "projection"}, headSize : Nat,
   kinds : SUBSET {"c2p", "p2c"}, biases : {"all", "none", "mixed"}, positions : Positions]

Requests == {"gradients", "output_attentions", "query_states", "relative_pos"}

Input ==
  [asks : SUBSET Requests, device : {"cuda", "cpu"}, dtype : SUPPORTED_DTYPES \cup {"other"},
   mask : {"padding", "other"}, length : Nat]

Arguments == [encoder : Encoders, input : Inputs]

ASSUME EntryAssumption ==
  /\ Gapped \subseteq Positions \X Nat
  /\ Inputs \subseteq Input
  /\ Host \in [Encoders -> [relative : BOOLEAN, conv : BOOLEAN, relEmbedding : BOOLEAN]]
  /\ Layouts \in [Encoders -> SUBSET Seq(Attention)]
  /\ TritonInstalled \in BOOLEAN
  /\ BuildsFail
  /\ None \notin Arguments

VARIABLES
  layers,  \* the attentions of every live encoder's layers
  built,   \* those every state was built from
  entry    \* the arguments of every thread's call, or None

entryVars == <<layers, built, entry>>

allVars == <<vars, entryVars>>

EntryInit ==
  /\ Init
  /\ layers = [e \in Encoders |-> <<>>]
  /\ built = [s \in State |-> <<>>]
  /\ entry = [t \in Threads |-> None]

------------------------------------------------------------------------------
(* _unsupported_reason                                                     *)

CallSupported(x) ==
  /\ x.asks = {}
  /\ TritonInstalled
  /\ x.device = "cuda"
  /\ x.dtype \in SUPPORTED_DTYPES
  /\ x.mask = "padding"
  /\ x.length <= MAX_SEQUENCE_LENGTH

EncoderSupported(e) == ~Host[e].conv /\ Host[e].relative /\ Host[e].relEmbedding

\* a slip: the head size is overlooked
AnySizeSupported(a) == a.missing = {} /\ a.kinds # {}

AttentionSupported(a) ==
  /\ a.missing = {}
  /\ a.headSize \in SUPPORTED_HEAD_DIMS
  /\ a.kinds # {}

Supported(e, x) ==
  /\ CallSupported(x)
  /\ EncoderSupported(e)
  /\ layers[e] # <<>>
  /\ AttentionSupported(layers[e][1])

------------------------------------------------------------------------------
(* The fast path                                                           *)

BuildRefused(e) ==
  \/ layers[e] = <<>>
  \/ \E l \in DOMAIN layers[e] : "config" \in layers[e][l].missing

(* The shadow attentions of a call at "use".                               *)
Shadows(t) == built[call[t].state]

(* _plans_for: get_rel_embedding, prepare_for_inference of every shadow,   *)
(* prepare_shape of every shadow with the slots of the first.              *)
PlansRefused(t) ==
  LET host == Host[entry[t].encoder]
      x == entry[t].input
      first == Shadows(t)[1]
  IN \/ ~host.relEmbedding
     \/ \E l \in DOMAIN Shadows(t) :
          Shadows(t)[l].biases = "mixed" \/ "projection" \in Shadows(t)[l].missing
     \/ ~host.relative
     \/ x.device # "cuda"
     \/ x.length \notin 1..MAX_SEQUENCE_LENGTH
     \/ first.kinds # {} /\ <<first.positions, x.length>> \in Gapped

\* a slip: zip truncates
AnyLayout(t) == TRUE

LayoutKept(t) == Len(layers[entry[t].encoder]) = Len(Shadows(t))

(* _fast_forward: the count of the layers, then forward_prepared of every  *)
(* shadow.                                                                 *)
RunRefused(t) ==
  LET x == entry[t].input
  IN \/ ~LayoutKept(t)
     \/ ~TritonInstalled
     \/ x.device # "cuda"
     \/ x.dtype \notin SUPPORTED_DTYPES
     \/ x.mask # "padding"
     \/ \E l \in DOMAIN Shadows(t) :
          \/ Shadows(t)[l].headSize \notin SUPPORTED_HEAD_DIMS
          \/ Shadows(t)[l].kinds # {} /\ Shadows(t)[1].kinds = {}

CallRefused(t) == PlansRefused(t) \/ RunRefused(t)

(* What each layer computes with, the fast path's paired by zip: the       *)
(* projections are the shadow's, the rest of the layer is the encoder's,   *)
(* the index map is that of the first layer's positions.                   *)
FastLayers(t) ==
  LET current == layers[entry[t].encoder]
  IN [l \in DOMAIN current \cap DOMAIN Shadows(t) |->
        [projections |-> Shadows(t)[l].module, rest |-> current[l].module,
         kinds |-> Shadows(t)[l].kinds, positions |-> Shadows(t)[1].positions]]

HostLayers(e) ==
  [l \in DOMAIN layers[e] |->
     [projections |-> layers[e][l].module, rest |-> layers[e][l].module,
      kinds |-> layers[e][l].kinds, positions |-> layers[e][l].positions]]

(* What the reference encoder does for a call beside its layers; the fast  *)
(* path has none of it, and leaves it out without a word.                  *)
Extras(e, x) == x.asks \cup {o \in {"conv"} : Host[e].conv}

------------------------------------------------------------------------------
(* encoder_forward                                                         *)

Called(t, e, x) ==
  /\ call[t].pc = "idle"
  /\ entry[t] = None
  /\ Live(e)
  /\ entry' = [entry EXCEPT ![t] = [encoder |-> e, input |-> x]]
  /\ UNCHANGED <<layers, built>>

Ended(t) ==
  /\ entry' = [entry EXCEPT ![t] = None]
  /\ UNCHANGED <<layers, built>>

(* _reference_forward holds the encoder as the fast path does, and touches *)
(* nothing else of it.                                                     *)
Refer(t, e, x) ==
  /\ Called(t, e, x)
  /\ ~Supported(e, x)
  /\ UNCHANGED vars

ReferenceEnds(t) ==
  /\ call[t].pc = "idle"
  /\ entry[t] # None
  /\ Ended(t)
  /\ UNCHANGED vars

Pass(t, e, x) ==
  /\ Called(t, e, x)
  /\ Supported(e, x)
  /\ Enter(t, e)

BuildAll(t) ==
  LET e == call[t].encoder
  IN /\ Build(t)
     /\ ~BuildRefused(e)
     /\ built' = [built EXCEPT ![[of |-> e, by |-> t]] = layers[e]]
     /\ UNCHANGED <<layers, entry>>

Proceed(t) ==
  /\ Get(t) \/ File(t) \/ Watch(t)
  /\ UNCHANGED entryVars

(* Refused, or because a bundled profile does not load.                    *)
BuildEnds(t) == BuildRaises(t) /\ Ended(t)

(* _plans_for and _fast_forward, whether they return or raise.             *)
FastEnds(t) == Return(t) /\ Ended(t)

Unheld(e) == \A t \in Threads : entry[t] # None => entry[t].encoder # e

CreateWith(e, i, attentions) ==
  /\ Create(e, i)
  /\ layers' = [layers EXCEPT ![e] = attentions]
  /\ UNCHANGED <<built, entry>>

(* The layers go with the encoder, and with them every state built of it.  *)
CollectUnheld(e) ==
  /\ Unheld(e)
  /\ Collect(e)
  /\ layers' = [layers EXCEPT ![e] = <<>>]
  /\ built' = [s \in State |-> IF s.of = e THEN <<>> ELSE built[s]]
  /\ UNCHANGED entry

(* The program replaces, adds or removes layers between its calls.         *)
Relayer(e, attentions) ==
  /\ Live(e)
  /\ Unheld(e)
  /\ layers' = [layers EXCEPT ![e] = attentions]
  /\ UNCHANGED <<vars, built, entry>>

EntryNext ==
  \/ \E e \in Encoders :
       \/ CollectUnheld(e)
       \/ \E attentions \in Layouts[e] :
            Relayer(e, attentions) \/ \E i \in Ids : CreateWith(e, i, attentions)
  \/ \E t \in Threads :
       \/ \E e \in Encoders, x \in Inputs : Refer(t, e, x) \/ Pass(t, e, x)
       \/ ReferenceEnds(t) \/ Proceed(t) \/ BuildAll(t) \/ BuildEnds(t) \/ FastEnds(t)

EntrySpec == EntryInit /\ [][EntryNext]_allVars

------------------------------------------------------------------------------
(* Properties                                                              *)

EntryTypeOK ==
  /\ layers \in [Encoders -> Seq(Attention)]
  /\ built \in [State -> Seq(Attention)]
  /\ entry \in [Threads -> Arguments \cup {None}]

Replaced(t, l) ==
  /\ call[t].state.of = entry[t].encoder
  /\ Shadows(t)[l] # layers[entry[t].encoder][l]

(* The fast path answers as the encoder itself would or not at all: layer  *)
(* by layer the same, nothing of the call or of the encoder left out. Two  *)
(* exceptions the code has: a layer replaced since the state was built,    *)
(* whose old projections go on; a layer with positions unlike the first's. *)
AnswersAsHost ==
  \A t \in Threads : call[t].pc = "use" /\ ~CallRefused(t) =>
    LET e == entry[t].encoder
        fast == FastLayers(t)
        host == HostLayers(e)
    IN /\ Extras(e, entry[t].input) = {}
       /\ DOMAIN fast = DOMAIN host
       /\ \A l \in DOMAIN host :
            \/ fast[l] = host[l]
            \/ Replaced(t, l)
            \/ layers[e][l].positions # Shadows(t)[1].positions

Uniform(attentions) ==
  \A l \in DOMAIN attentions :
    attentions[l] = [attentions[1] EXCEPT !.module = attentions[l].module]

(* Behind the gate nothing is refused that it could have let fall back,    *)
(* but for what it does not look at: layers behind the first that differ   *)
(* from it, layers changed since the state was built, mixed biases, slots  *)
(* with a gap, and the empty sequence.                                     *)
UniformEncodersServed ==
  \A t \in Threads : call[t].pc # "idle" =>
    LET attentions == layers[entry[t].encoder]
        x == entry[t].input
    IN /\ Uniform(attentions)
       /\ attentions[1].biases # "mixed"
       /\ <<attentions[1].positions, x.length>> \notin Gapped
       /\ x.length # 0
       => /\ call[t].pc = "build" => ~BuildRefused(entry[t].encoder)
          /\ call[t].pc = "use" /\ Shadows(t) = attentions => ~CallRefused(t)

(* "Anything the kernel does not support falls back to the stock           *)
(* Transformers encoder loop": past the gate nothing is refused.           *)
UnsupportedFallsBack ==
  \A t \in Threads :
    /\ call[t].pc = "build" => ~BuildRefused(entry[t].encoder)
    /\ call[t].pc = "use" => ~CallRefused(t)
==============================================================================
