------------------------------- MODULE MCTiles --------------------------------
(* Small batches in each layout, every mask, and scores that differ between  *)
(* the pairs of a row. The longest batch takes three blocks of queries and   *)
(* five tiles of keys; a regime of 4 fits in one tile of 4. The callers of   *)
(* forward_packed hand over every sort of boundaries: none, the device's,    *)
(* another batch's with a larger or a smaller maximum, and broken ones.      *)
EXTENDS PackedBatch

MCMaxScore == 1

MCMaxTokens == 6

MCRegimes == {2, 4, 8}

MCShapes == {<<5, 1>>, <<2, 2>>, <<3, 2>>, <<4, 4>>}

Arguments(layout, lengths, kept, shape) ==
  [layout |-> layout, lengths |-> lengths, maxSeqlen |-> lengths[1], kept |-> kept,
   blockM |-> shape[1], blockN |-> shape[2]]

EvenBatches == {<<2>>, <<4>>, <<5>>, <<2, 2>>}

Columns(lengths) == 0..(Len(lengths) * lengths[1] - 1)

MCLaunches ==
  UNION {
    {Arguments("padded", b, kept, s) : kept \in SUBSET Columns(b)}
      \cup {Arguments("unpadded", b, {}, s)}
    : b \in EvenBatches, s \in MCShapes}

Padded(rows, width) ==
  {[rows |-> rows, width |-> width, mask |-> m] : m \in SUBSET ((1..rows) \X (0..(width - 1)))}

MCBatches == Padded(1, 4) \cup Padded(3, 2)

Request(cu, max, info) == [cu |-> cu, total |-> Last(cu), maxSeqlen |-> max, info |-> info]

Uneven == {<<0, 1, 4>>, <<0, 3, 5>>, <<0, 5, 6>>}

Validated == {Request(cu, max, None) : cu \in Uneven \cup {<<0, 5>>, <<0>>, <<1, 3>>, <<0, 2, 2>>},
                                       max \in {None, 3}}

\* another batch's boundaries, of as many tokens and sequences
Stale == {Request(<<0, 3, 4>>, None, InfoOf(<<0, 2, 4>>)), Request(<<0, 2, 4>>, None, InfoOf(<<0, 3, 4>>))}

Broken ==
  {Request(<<0, 1, 3>>, max, [offsets |-> o, lengths |-> l, maxSeqlen |-> m]) :
     o \in {<<0, 1, 3>>, <<0, 3, 3>>, <<1, 2, 3>>, <<0, 3>>},
     l \in {<<1, 2>>, <<2, 1>>, <<3, 0>>, <<3>>}, m \in {2, 3}, max \in {None, 2}}

MCRequests == Validated \cup Stale \cup Broken

Bases == {<<x, y, 0>> : x \in -MCMaxScore..MCMaxScore, y \in -MCMaxScore..MCMaxScore}

MCScoreTables == {[q, k \in 0..5 |-> base[((q + k) % 3) + 1]] : base \in Bases}
==============================================================================
