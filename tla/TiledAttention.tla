---------------------------- MODULE TiledAttention ----------------------------
(***************************************************************************)
(* One launch of an attention kernel of kernel.py: a grid of programs,     *)
(* each of which takes a block of query rows of one sequence through the   *)
(* tiles of its keys with an online softmax, and writes its rows. The      *)
(* programs run in any order and share nothing but the output.             *)
(*                                                                         *)
(* The padded, the unpadded (assume_unpadded) and the packed layout differ *)
(* in where a sequence lies and in which keys its rows attend to. Heads    *)
(* are independent: the model has one. A score is an exact power of two,   *)
(* a value row stands for itself, so that an output row is the weight it   *)
(* gives to every token; weights are counted in units of 2^-Spread.        *)
(***************************************************************************)
EXTENDS Integers, Sequences, FiniteSets, FiniteSetsExt, Arithmetic

CONSTANTS
  Launches,     \* the batches and tile shapes considered
  ScoreTables,  \* the scores of pairs of tokens, in units of log 2
  Regimes,      \* TUNING_SEQUENCE_LENGTHS
  MaxScore,     \* bound on the absolute value of a score
  MaxTokens,    \* bound on the rows of a launch, padding included
  NegInf,       \* minus infinity
  Undefined,    \* NaN or plus infinity
  Unwritten     \* what torch.empty leaves in the output

Layouts == {"padded", "unpadded", "packed"}

LaunchRecord ==
  [layout : Layouts, lengths : Seq(Nat \ {0}), maxSeqlen : Nat \ {0}, kept : SUBSET Nat,
   blockM : Nat \ {0}, blockN : Nat \ {0}]

RowsOf(l) ==
  IF l.layout = "packed" THEN SumOver(l.lengths, DOMAIN l.lengths)
  ELSE Len(l.lengths) * l.maxSeqlen

ASSUME LaunchAssumption ==
  /\ \A l \in Launches : l \in LaunchRecord /\ l.lengths # <<>> /\ RowsOf(l) <= MaxTokens
  /\ \A l \in Launches : l.layout # "packed" =>
       \A s \in DOMAIN l.lengths : l.lengths[s] = l.maxSeqlen

ASSUME RegimeAssumption ==
  IsFiniteSet(Regimes) /\ Regimes # {} /\ Regimes \subseteq Nat

\* a tile is at most 128 keys wide, the largest regime is 8192
ASSUME TilesBelowLargestRegime ==
  \A l \in Launches : l.blockN < Max(Regimes)

ASSUME NumberAssumption ==
  /\ MaxScore \in Nat
  /\ MaxTokens \in Nat
  /\ NegInf \notin Int
  /\ Undefined \notin Int
  /\ NegInf # Undefined

ASSUME ScoreAssumption ==
  ScoreTables \subseteq [(0..(MaxTokens - 1)) \X (0..(MaxTokens - 1)) -> -MaxScore..MaxScore]

\* a state of a row, over the tokens of some launch
RowRecord ==
  [max : Int \cup {NegInf, Undefined}, sum : Int \cup {Undefined},
   acc : UNION {[tokens -> Int] : tokens \in SUBSET (0..(MaxTokens - 1))}]

ASSUME UnwrittenAssumption == Unwritten \notin RowRecord

VARIABLES
  launch,    \* the kernel's arguments
  scores,    \* content and position scores of every pair of tokens, scaled
  programs,  \* of every (query_block, sequence): the next tile and the rows
  output

vars == <<launch, scores, programs, output>>

------------------------------------------------------------------------------
(* Layout of the launch: cu_seqlens, or batch * SEQUENCE_LENGTH. The       *)
(* lengths are the device's; the longest is what the host says it is.      *)

Batch == DOMAIN launch.lengths

Length(s) == launch.lengths[s]

Longest == launch.maxSeqlen

First(s) ==
  IF launch.layout = "packed"
  THEN SumOver(launch.lengths, 1..(s - 1))
  ELSE (s - 1) * Longest

TokensOf(s) == First(s)..(First(s) + Length(s) - 1)

Tokens == UNION {TokensOf(s) : s \in Batch}

BlocksRoundedDown == Longest \div launch.blockM    \* a slip in the grid

Blocks == (Longest + launch.blockM - 1) \div launch.blockM    \* triton.cdiv

Grid == (0..(Blocks - 1)) \X Batch

Lanes == 0..(launch.blockM - 1)

LengthRegime ==
  LET fitting == {r \in Regimes : Longest <= r}
  IN  IF fitting = {} THEN Max(Regimes) ELSE Min(fitting)

------------------------------------------------------------------------------
(* Numbers, and the state of a row.                                        *)

Spread == 2 * MaxScore

One == Power(2, Spread)

Difference(a, b) ==
  CASE Undefined \in {a, b} -> Undefined
    [] b = NegInf -> Undefined
    [] a = NegInf /\ b # NegInf -> NegInf
    [] OTHER -> a - b

Exp2(x) ==
  CASE x = Undefined -> Undefined
    [] x = NegInf -> 0
    [] OTHER -> Power(2, Spread + x)

Greatest(S) ==
  IF Undefined \in S THEN Undefined
  ELSE IF S \subseteq {NegInf} THEN NegInf ELSE Max(S \ {NegInf})

Nothing == [t \in Tokens |-> 0]

NewRow == [max |-> NegInf, sum |-> 0, acc |-> Nothing]

BrokenRow == [max |-> Undefined, sum |-> Undefined, acc |-> Nothing]

NewProgram == [keyStart |-> 0, rows |-> [i \in Lanes |-> NewRow], stored |-> FALSE]

NewPrograms == [p \in Grid |-> NewProgram]

NewOutput == [t \in Tokens |-> Unwritten]

Init ==
  /\ launch \in Launches
  /\ scores \in ScoreTables
  /\ programs = NewPrograms
  /\ output = NewOutput

------------------------------------------------------------------------------
(* The scores of one lane against one tile.                                *)

Query(p, i) == p[1] * launch.blockM + i

RowOf(p, i) == First(p[2]) + Query(p, i)

QueryInBounds(p, i) == Query(p, i) < Length(p[2])

Tile(p) == {programs[p].keyStart + j : j \in 0..(launch.blockN - 1)}

KeyInBounds(p, k) == k < Length(p[2])

Kept(s, n) == launch.layout = "padded" => First(s) + n \in launch.kept

Masked(p, i, k) ==
  LET queryKept == QueryInBounds(p, i) /\ Kept(p[2], Query(p, i))
      keyKept   == KeyInBounds(p, k) /\ Kept(p[2], k)
  IN  CASE QueryInBounds(p, i) /\ ~queryKept /\ KeyInBounds(p, k) -> 0
        [] queryKept /\ keyKept -> scores[<<RowOf(p, i), First(p[2]) + k>>]
        [] OTHER -> NegInf

Score(p, i, k) == IF ~QueryInBounds(p, i) /\ k = 0 THEN 0 ELSE Masked(p, i, k)

------------------------------------------------------------------------------
(* The softmax of a tile: at once when the regime fits in one tile, else   *)
(* online, with the rows so far rescaled to the new maximum.               *)

\* tl.dot of the probabilities with the value rows, out-of-bounds rows zero
Weights(p, probability) ==
  [t \in Tokens |->
     LET k == t - First(p[2]) IN
     IF t \in TokensOf(p[2]) /\ k \in DOMAIN probability THEN probability[k] ELSE 0]

Total(probability) == SumOver(probability, DOMAIN probability)

Probabilities(p, i, center) ==
  [k \in Tile(p) |-> Exp2(Difference(Score(p, i, k), center))]

TileMax(p, i) == Greatest({Score(p, i, k) : k \in Tile(p)})

RowAtOnce(p, i) ==
  LET probability == Probabilities(p, i, TileMax(p, i)) IN
  IF \E k \in Tile(p) : probability[k] = Undefined THEN BrokenRow
  ELSE [max |-> TileMax(p, i), sum |-> Total(probability), acc |-> Weights(p, probability)]

Rescaled(x, correction) == (x * correction) \div One

UnguardedCenter(newMax) == newMax    \* a slip: a tile may be masked everywhere

Center(newMax) == IF newMax # NegInf THEN newMax ELSE 0

RowOnline(p, i) ==
  LET row         == programs[p].rows[i]
      newMax      == Greatest({row.max, TileMax(p, i)})
      correction  == IF newMax # NegInf THEN Exp2(Difference(row.max, Center(newMax))) ELSE One
      probability == Probabilities(p, i, Center(newMax))
  IN  IF Undefined \in {row.sum, correction} \/ \E k \in Tile(p) : probability[k] = Undefined
      THEN BrokenRow
      ELSE [max |-> newMax,
            sum |-> Rescaled(row.sum, correction) + Total(probability),
            acc |-> [t \in Tokens |->
                       Rescaled(row.acc[t], correction) + Weights(p, probability)[t]]]

------------------------------------------------------------------------------
(* The steps of a program.                                                 *)

KeysLeft(p) == programs[p].keyStart < Length(p[2])

Advance(p, rows) ==
  programs' = [programs EXCEPT ![p].rows = rows, ![p].keyStart = @ + launch.blockN]

TileWide == Min(Regimes) <= launch.blockN    \* a slip: the smallest regime is tested

OneTile == LengthRegime <= launch.blockN

OnlyTile(p) ==
  /\ KeysLeft(p)
  /\ OneTile
  /\ Advance(p, [i \in Lanes |-> RowAtOnce(p, i)])
  /\ UNCHANGED <<launch, scores, output>>

NextTile(p) ==
  /\ KeysLeft(p)
  /\ ~OneTile
  /\ Advance(p, [i \in Lanes |-> RowOnline(p, i)])
  /\ UNCHANGED <<launch, scores, output>>

\* a slip: the store is bounded by the buffer, not by the sequence
WritesInBuffer(p) == {i \in Lanes : RowOf(p, i) \in Tokens}

Writes(p) == {i \in Lanes : QueryInBounds(p, i)}

Store(p) ==
  /\ ~KeysLeft(p)
  /\ ~programs[p].stored
  /\ programs' = [programs EXCEPT ![p].stored = TRUE]
  /\ output' = [t \in Tokens |->
       IF \E i \in Writes(p) : RowOf(p, i) = t
       THEN programs[p].rows[CHOOSE i \in Writes(p) : RowOf(p, i) = t]
       ELSE output[t]]
  /\ UNCHANGED <<launch, scores>>

Next == \E p \in Grid : OnlyTile(p) \/ NextTile(p) \/ Store(p)

Spec == Init /\ [][Next]_vars

------------------------------------------------------------------------------
(* The reference: masked_fill with the lowest number, then a softmax; in a *)
(* row that is masked everywhere the lowest number is the maximum.         *)

SequenceOf(t) == CHOOSE s \in Batch : t \in TokensOf(s)

Attended(q) ==
  {k \in TokensOf(SequenceOf(q)) :
     launch.layout = "padded" => q \in launch.kept /\ k \in launch.kept}

ReferenceWeight(q, k) ==
  CASE k \in Attended(q) -> Power(2, MaxScore + scores[<<q, k>>])
    [] Attended(q) = {} /\ k \in TokensOf(SequenceOf(q)) -> 1
    [] OTHER -> 0

------------------------------------------------------------------------------
(* Properties. The host's maximum must not be below the device's longest   *)
(* sequence; it may be above.                                              *)

Covered == \A s \in Batch : Length(s) <= Longest

(* Every row a program writes is the row of the reference: the same share  *)
(* of every token, exactly, for kept queries, for queries that are padding *)
(* and for masks with any holes, whatever the tile shape and whichever     *)
(* branch of the kernel runs.                                              *)
OutputMatchesReference ==
  Covered => \A q \in Tokens : output[q] # Unwritten =>
    /\ output[q].sum \notin {0, Undefined}
    /\ LET weight == [k \in Tokens |-> ReferenceWeight(q, k)]
       IN  \A k \in Tokens :
             output[q].acc[k] * SumOver(weight, Tokens) = weight[k] * output[q].sum

(* No lane of any program ever holds a NaN, not even the lanes beyond the  *)
(* sequence, and every lane ends with a sum it can be divided by: "Keep    *)
(* the unused rows of the final partial BLOCK_M numerically well-defined". *)
LanesStayDefined ==
  Covered => \A p \in Grid, i \in Lanes :
    LET row == programs[p].rows[i] IN
    row.sum # Undefined /\ (~KeysLeft(p) => row.sum > 0)

(* When every program has stored, every row of every sequence is written:  *)
(* nothing torch.empty left reaches the caller.                            *)
OutputComplete ==
  Covered /\ (\A p \in Grid : programs[p].stored) => \A t \in Tokens : output[t] # Unwritten

(* A row is written by one program only, whatever the order they run in:   *)
(* a block that reaches beyond its sequence leaves the next one alone,     *)
(* even when the host's maximum is wrong.                                  *)
RowsWrittenOnce ==
  [][\A t \in Tokens : output[t] # Unwritten => output'[t] = output[t]]_vars
==============================================================================
