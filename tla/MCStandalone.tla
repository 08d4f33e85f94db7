----------------------------- MODULE MCStandalone -----------------------------
(* StandaloneLayer on small instances. Lengths 100 and 128 share the        *)
(* regime 128; 300 is its own regime with the slots of 128; the slots of    *)
(* 600, its own regime too, have a hole.                                    *)
EXTENDS StandaloneLayer

FourLengths == {100, 128, 300, 600}
TwoLengths  == {100, 128}

FourRegimes == [s \in FourLengths |-> IF s = 100 THEN 128 ELSE s]
TwoRegimes  == [s \in TwoLengths |-> 128]

\* A length plans fewer slots than its representative.
FourRanges ==
  [s \in FourLengths |-> CASE s = 100 -> "narrow" [] s = 600 -> "gapped" [] OTHER -> "wide"]
TwoRanges  == [s \in TwoLengths |-> IF s = 100 THEN "narrow" ELSE "wide"]
==============================================================================
