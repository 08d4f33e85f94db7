---------------------------- MODULE EncoderRegistry ----------------------------
(***************************************************************************)
(* _STATES and _FINALIZERS of _encoder.py: per-encoder states filed under  *)
(* id(encoder), an address the interpreter gives to another encoder once   *)
(* this one is collected. weakref.finalize drops the entry at collection.  *)
(* Threads call encoders; no lock guards _state_for.                       *)
(***************************************************************************)
EXTENDS FiniteSets

CONSTANTS
  Encoders,     \* the encoders ever created
  Ids,          \* the addresses they may get
  Threads,      \* callers
  BuildsFail,   \* whether _build_state may raise
  None

ASSUME RegistryAssumption ==
  /\ BuildsFail \in BOOLEAN
  /\ None \notin Encoders
  /\ None \notin Ids
  /\ None \notin [of : Encoders, by : Threads]

VARIABLES
  address,     \* id() of the live encoders, None of the others
  collected,   \* the encoders that are gone
  states,      \* _STATES
  finalizers,  \* _FINALIZERS: the encoder the entry's finalizer watches
  watched,     \* encoders with a finalizer in weakref's own registry
  call         \* the latest call of every thread

vars == <<address, collected, states, finalizers, watched, call>>

State == [of : Encoders, by : Threads]   \* an _EncoderState, by whoever built it

Steps == {"idle", "get", "build", "file", "watch", "use"}

TypeOK ==
  /\ address \in [Encoders -> Ids \cup {None}]
  /\ collected \subseteq Encoders
  /\ states \in [Ids -> State \cup {None}]
  /\ finalizers \in [Ids -> Encoders \cup {None}]
  /\ watched \subseteq Encoders
  /\ call \in [Threads -> [pc : Steps, encoder : Encoders \cup {None}, state : State \cup {None}]]

NoCall == [pc |-> "idle", encoder |-> None, state |-> None]

Init ==
  /\ address = [e \in Encoders |-> None]
  /\ collected = {}
  /\ states = [i \in Ids |-> None]
  /\ finalizers = [i \in Ids |-> None]
  /\ watched = {}
  /\ call = [t \in Threads |-> NoCall]

Live(e) == address[e] # None

Key(t) == address[call[t].encoder]

Goto(t, pc) == call' = [call EXCEPT ![t].pc = pc]

------------------------------------------------------------------------------
(* The interpreter: an encoder is created at a free address, and collected *)
(* when no caller holds it; the finalizers run before the address is free. *)

Create(e, i) ==
  /\ ~Live(e)
  /\ e \notin collected
  /\ \A f \in Encoders : address[f] # i
  /\ address' = [address EXCEPT ![e] = i]
  /\ UNCHANGED <<collected, states, finalizers, watched, call>>

\* slips: only the finalizer is dropped; no state is
DropFinalizerOnly(e) ==
  /\ finalizers' = IF e \in watched THEN [finalizers EXCEPT ![address[e]] = None] ELSE finalizers
  /\ UNCHANGED states

(* _drop_state, run by every finalizer on e: the second finds nothing.     *)
DropState(e) ==
  IF e \in watched
  THEN /\ states' = [states EXCEPT ![address[e]] = None]
       /\ finalizers' = [finalizers EXCEPT ![address[e]] = None]
  ELSE UNCHANGED <<states, finalizers>>

Collect(e) ==
  /\ Live(e)
  /\ \A t \in Threads : call[t].encoder # e
  /\ DropState(e)
  /\ address' = [address EXCEPT ![e] = None]
  /\ collected' = collected \cup {e}
  /\ watched' = watched \ {e}
  /\ UNCHANGED call

------------------------------------------------------------------------------
(* _state_for                                                              *)

Enter(t, e) ==
  /\ call[t].pc = "idle"
  /\ Live(e)
  /\ call' = [call EXCEPT ![t] = [pc |-> "get", encoder |-> e, state |-> None]]
  /\ UNCHANGED <<address, collected, states, finalizers, watched>>

\* a slip: every call builds
GetNothing(t) ==
  /\ call[t].pc = "get"
  /\ Goto(t, "build")
  /\ UNCHANGED <<address, collected, states, finalizers, watched>>

Get(t) ==
  /\ call[t].pc = "get"
  /\ call' = [call EXCEPT ![t].state = states[Key(t)],
                          ![t].pc = IF states[Key(t)] = None THEN "build" ELSE "use"]
  /\ UNCHANGED <<address, collected, states, finalizers, watched>>

Build(t) ==
  /\ call[t].pc = "build"
  /\ call' = [call EXCEPT ![t].state = [of |-> call[t].encoder, by |-> t], ![t].pc = "file"]
  /\ UNCHANGED <<address, collected, states, finalizers, watched>>

BuildRaises(t) ==
  /\ BuildsFail
  /\ call[t].pc = "build"
  /\ call' = [call EXCEPT ![t] = NoCall]
  /\ UNCHANGED <<address, collected, states, finalizers, watched>>

File(t) ==
  /\ call[t].pc = "file"
  /\ states' = [states EXCEPT ![Key(t)] = call[t].state]
  /\ Goto(t, "watch")
  /\ UNCHANGED <<address, collected, finalizers, watched>>

\* a slip: the state is filed and the encoder is not watched
Unwatched(t) ==
  /\ call[t].pc = "watch"
  /\ Goto(t, "use")
  /\ UNCHANGED <<address, collected, states, finalizers, watched>>

Watch(t) ==
  /\ call[t].pc = "watch"
  /\ finalizers' = [finalizers EXCEPT ![Key(t)] = call[t].encoder]
  /\ watched' = watched \cup {call[t].encoder}
  /\ Goto(t, "use")
  /\ UNCHANGED <<address, collected, states>>

(* The rest of encoder_forward works on the state it got: see EncoderCache. *)
Return(t) ==
  /\ call[t].pc = "use"
  /\ call' = [call EXCEPT ![t] = NoCall]
  /\ UNCHANGED <<address, collected, states, finalizers, watched>>

StateFor(t) ==
  \/ Get(t) \/ Build(t) \/ BuildRaises(t) \/ File(t) \/ Watch(t) \/ Return(t)

Next ==
  \/ \E e \in Encoders : Collect(e) \/ \E i \in Ids : Create(e, i)
  \/ \E t \in Threads : StateFor(t) \/ \E e \in Encoders : Enter(t, e)

Spec == Init /\ [][Next]_vars

------------------------------------------------------------------------------
(* Properties                                                              *)

(* A call computes with a state built from the encoder it was made on,     *)
(* never with one left at the address by an encoder that is gone.          *)
CallsUseOwnState ==
  \A t \in Threads : call[t].state # None => call[t].state.of = call[t].encoder

(* The registry does not outlive the encoders: an entry, state or          *)
(* finalizer, is that of the live encoder at its address.                  *)
EntriesAreLive ==
  \A i \in Ids :
    /\ states[i] # None => address[states[i].of] = i
    /\ finalizers[i] # None => address[finalizers[i]] = i

(* A filed state whose encoder no caller holds will be dropped with it.    *)
FiledIsWatched ==
  \A i \in Ids : states[i] # None =>
    \/ states[i].of \in watched
    \/ \E t \in Threads : call[t].pc = "watch" /\ call[t].encoder = states[i].of

(* Once no call is between its miss and its filing, the state of an        *)
(* encoder is settled: the registry holds that one until the encoder is    *)
(* collected, and every later call is given it. Overlapping first calls    *)
(* may each build a state; the last one filed stays.                       *)
Building(e) == \E t \in Threads : call[t].encoder = e /\ call[t].pc \in {"build", "file"}

SettledStateKept ==
  \A i \in Ids, s \in State :
    [](states[i] = s /\ ~Building(s.of) => [](states[i] = s \/ s.of \in collected))
==============================================================================
