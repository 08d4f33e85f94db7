------------------------------- MODULE MCEntry --------------------------------
(* Three encoders: one whose layers are replaced and removed between calls,    *)
(* one whose layers come to differ in what the gate does not see, and one with *)
(* a convolution.                                                              *)
EXTENDS EncoderEntry

CONSTANTS e1, e2, e3

MCModules == {"m1", "m2", "m3"}

MCPositions == {"bucketed", "sparse"}

MCGapped == {<<"sparse", 600>>}

Layer(module) ==
  [module |-> module, missing |-> {}, headSize |-> 64, kinds |-> {"c2p", "p2c"},
   biases |-> "all", positions |-> "bucketed"]

MCHost ==
  [e \in Encoders |-> [relative |-> TRUE, conv |-> e = e3, relEmbedding |-> TRUE]]

MCLayouts ==
  [e \in Encoders |->
     CASE e = e1 -> {<<Layer("m1"), Layer("m2")>>, <<Layer("m1"), Layer("m3")>>, <<Layer("m1")>>}
       [] e = e2 -> {<<Layer("m1"), [Layer("m2") EXCEPT !.positions = "sparse"]>>,
                     <<Layer("m1"), [Layer("m2") EXCEPT !.missing = {"config"}]>>,
                     <<[Layer("m1") EXCEPT !.headSize = 48]>>}
       [] e = e3 -> {<<Layer("m1"), Layer("m2")>>}]

MCWideLayouts == [e \in Encoders |-> {<<Layer("m1"), [Layer("m2") EXCEPT !.headSize = 48]>>}]

Ordinary ==
  [asks |-> {}, device |-> "cuda", dtype |-> "float16", mask |-> "padding", length |-> 128]

MCInputs == {Ordinary, [Ordinary EXCEPT !.asks = {"output_attentions"}]}
==============================================================================
