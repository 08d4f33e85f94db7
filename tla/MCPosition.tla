------------------------------ MODULE MCPosition ------------------------------
(* PositionPlan with lengths up to 12 and the representatives 4, 7 and 12. *)
EXTENDS PositionPlan

SmallLengths == {1, 4, 6, 7, 12}

SmallTuning == {4, 7, 12}

\* without buckets; and with them, those whose first step is too wide included
SmallConfigs ==
  {[buckets |-> -1, maxPos |-> m] : m \in {3, 8, 16}}
    \cup {[buckets |-> b, maxPos |-> m] : b \in {2, 3, 4, 5}, m \in {4, 6, 9, 14}}
    \cup {[buckets |-> 6, maxPos |-> m] : m \in {5, 6, 7, 10, 14}}
    \cup {[buckets |-> 8, maxPos |-> m] : m \in {7, 8, 9, 14}}
==============================================================================
