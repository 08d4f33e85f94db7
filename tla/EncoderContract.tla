--------------------------- MODULE EncoderContract ---------------------------
(***************************************************************************)
(* What a caller of encoder_forward may count on, whatever is cached: a    *)
(* call that nothing disturbs is answered, exactly. A call is disturbed    *)
(* while another prepares a length on the same encoder; then it may raise  *)
(* or be inexact. That it ends is EveryCallEnds of EncoderCache.          *)
(***************************************************************************)
CONSTANT Threads

VARIABLES request, reply

vars == <<request, reply>>

Init ==
  /\ request = [t \in Threads |-> "none"]
  /\ reply = [t \in Threads |-> "none"]

Submit(t) ==
  /\ request[t] = "none"
  /\ \E r \in {"pending", "disturbed"} : request' = [request EXCEPT ![t] = r]
  /\ reply' = [reply EXCEPT ![t] = "none"]

\* one call that starts to prepare disturbs the others under way
Disturb ==
  /\ \E T \in SUBSET {t \in Threads : request[t] = "pending"} :
       request' = [t \in Threads |-> IF t \in T THEN "disturbed" ELSE request[t]]
  /\ UNCHANGED reply

Answer(t) ==
  /\ request[t] # "none"
  /\ request' = [request EXCEPT ![t] = "none"]
  /\ \E r \in IF request[t] = "pending" THEN {"exact"} ELSE {"exact", "inexact", "raised"} :
       reply' = [reply EXCEPT ![t] = r]

Next == Disturb \/ \E t \in Threads : Submit(t) \/ Answer(t)

Spec == Init /\ [][Next]_vars
==============================================================================
