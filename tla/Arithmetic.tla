----------------------------- MODULE Arithmetic ------------------------------
(***************************************************************************)
(* The sums and powers the models compute with.                            *)
(***************************************************************************)
EXTENDS Integers, FiniteSets, FiniteSetsExt

\* the sum of f over a finite set of indices
SumOver(f, S) == MapThenSumSet(LAMBDA x : f[x], S)

Power(b, n) ==
  LET p[k \in Nat] == IF k = 0 THEN 1 ELSE b * p[k - 1] IN p[n]
==============================================================================
