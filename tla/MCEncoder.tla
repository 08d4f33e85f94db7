------------------------------ MODULE MCEncoder ------------------------------
(* EncoderCache on small instances. Lengths 100 and 128 share the regime   *)
(* 128; 300 is its own regime with its own slots; those of 600 have a gap. *)
EXTENDS EncoderCache

FourShapes  == {100, 128, 300, 600}
ThreeShapes == {100, 128, 300}
TwoShapes   == {100, 128}

FourRegimes  == [s \in FourShapes |-> IF s = 100 THEN 128 ELSE s]
ThreeRegimes == [s \in ThreeShapes |-> IF s = 100 THEN 128 ELSE s]
TwoRegimes   == [s \in TwoShapes |-> 128]

FourRanges  ==
  [s \in FourShapes |-> IF s = 300 THEN "wide" ELSE IF s = 600 THEN "gapped" ELSE "narrow"]
ThreeRanges == [s \in ThreeShapes |-> IF s = 300 THEN "wide" ELSE "narrow"]
TwoRanges   == [s \in TwoShapes |-> "narrow"]

Hit128 == {128}
Hits   == {}
==============================================================================
