---------------------------- MODULE AtomicProfile -----------------------------
(***************************************************************************)
(* What save_profile promises ("Atomically save a validated profile"): a   *)
(* path holds one whole content at a time; a save changes it at once; a    *)
(* loss of power brings back a content the path has held, never a part or  *)
(* a mixture.                                                              *)
(***************************************************************************)
CONSTANTS
  Paths,     \* the profile files
  Contents   \* what a file can hold and be read, and None for no file

VARIABLES
  content,   \* what a reader of a path finds
  survivors  \* what it may find after a loss of power

vars == <<content, survivors>>

Init ==
  /\ content \in [Paths -> Contents]
  /\ survivors = [p \in Paths |-> {content[p]}]

Publish(p, c) ==
  /\ content' = [content EXCEPT ![p] = c]
  /\ survivors' = [survivors EXCEPT ![p] = @ \cup {c}]

LosePower ==
  /\ content' \in [Paths -> Contents]
  /\ \A p \in Paths : content'[p] \in survivors[p]
  /\ survivors' = [p \in Paths |-> {content'[p]}]

Next == LosePower \/ \E p \in Paths, c \in Contents : Publish(p, c)

Spec == Init /\ [][Next]_vars
==============================================================================
