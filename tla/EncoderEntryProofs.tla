-------------------------- MODULE EncoderEntryProofs --------------------------
(***************************************************************************)
(* The registry never confuses two encoders, for any number of encoders,   *)
(* addresses and threads. What makes the reuse of an address harmless is   *)
(* that an entry is watched, or about to be by a call that keeps its       *)
(* encoder alive; that, and not the properties alone, is inductive.        *)
(***************************************************************************)
EXTENDS EncoderEntry, TLAPS

AddressesDistinct ==
  \A e, f \in Encoders : Live(e) /\ address[e] = address[f] => e = f

WatchedAreLive == \A e \in watched : Live(e)

CallsHold ==
  \A t \in Threads :
    /\ call[t].pc = "idle" => call[t] = NoCall
    /\ call[t].pc # "idle" => call[t].encoder \in Encoders /\ Live(call[t].encoder)
    /\ call[t].pc \in {"file", "watch", "use"} => call[t].state # None

FinalizersWatch == \A i \in Ids : finalizers[i] # None => finalizers[i] \in watched

RegistryInv ==
  /\ TypeOK
  /\ AddressesDistinct
  /\ WatchedAreLive
  /\ CallsHold
  /\ CallsUseOwnState
  /\ EntriesAreLive
  /\ FinalizersWatch
  /\ FiledIsWatched

------------------------------------------------------------------------------

CallType == [pc : Steps, encoder : Encoders \cup {None}, state : State \cup {None}]

LEMMA NoStateIsNone == None \notin State
  BY RegistryAssumption DEF State

LEMMA InitRegistry == Init => RegistryInv
  <1> SUFFICES ASSUME Init PROVE RegistryInv
    OBVIOUS
  <1>1. TypeOK
    BY DEF Init, TypeOK, NoCall, Steps
  <1>2. AddressesDistinct /\ WatchedAreLive
    BY DEF Init, AddressesDistinct, WatchedAreLive, Live
  <1>3. CallsHold /\ CallsUseOwnState
    BY DEF Init, CallsHold, CallsUseOwnState, NoCall
  <1>4. EntriesAreLive /\ FinalizersWatch /\ FiledIsWatched
    BY DEF Init, EntriesAreLive, FinalizersWatch, FiledIsWatched
  <1>5. QED
    BY <1>1, <1>2, <1>3, <1>4 DEF RegistryInv

LEMMA CreateKeeps ==
  ASSUME RegistryInv, NEW e \in Encoders, NEW i \in Ids, Create(e, i)
  PROVE  RegistryInv'
  <1>1. /\ ~Live(e) /\ \A f \in Encoders : address[f] # i
        /\ address' = [address EXCEPT ![e] = i]
        /\ UNCHANGED <<collected, states, finalizers, watched, call>>
        /\ i # None
    BY RegistryAssumption DEF Create
  <1>2. TypeOK'
    BY <1>1 DEF RegistryInv, TypeOK
  <1>3. /\ address'[e] = i
        /\ \A f \in Encoders \ {e} : address'[f] = address[f]
    BY <1>1 DEF RegistryInv, TypeOK
  <1>4. AddressesDistinct'
    BY <1>1, <1>3 DEF RegistryInv, AddressesDistinct, Live
  <1>5. \A f \in Encoders : Live(f) => address'[f] = address[f]
    BY <1>1, <1>3 DEF Live
  <1>6. WatchedAreLive' /\ CallsHold'
    BY <1>1, <1>5 DEF RegistryInv, TypeOK, WatchedAreLive, CallsHold, Live
  <1>7. EntriesAreLive'
    <2>1. \A j \in Ids : j # None
      BY RegistryAssumption
    <2>2. QED
      BY <1>1, <1>5, <2>1, NoStateIsNone
      DEF RegistryInv, TypeOK, EntriesAreLive, Live, State
  <1>8. CallsUseOwnState' /\ FinalizersWatch' /\ FiledIsWatched'
    BY <1>1 DEF RegistryInv, CallsUseOwnState, FinalizersWatch, FiledIsWatched
  <1>9. QED
    BY <1>2, <1>4, <1>6, <1>7, <1>8 DEF RegistryInv

(* The finalizer of a collected encoder drops the entries that are its.    *)
LEMMA CollectKeeps ==
  ASSUME RegistryInv, NEW e \in Encoders, Collect(e)
  PROVE  RegistryInv'
  <1>1. /\ Live(e) /\ \A t \in Threads : call[t].encoder # e
        /\ address' = [address EXCEPT ![e] = None]
        /\ collected' = collected \cup {e} /\ watched' = watched \ {e} /\ call' = call
    BY DEF Collect
  <1>2. /\ address[e] \in Ids
        /\ states \in [Ids -> State \cup {None}] /\ finalizers \in [Ids -> Encoders \cup {None}]
    BY <1>1 DEF RegistryInv, TypeOK, Live
  <1>3. ASSUME NEW i \in Ids
        PROVE  /\ states'[i] \in {states[i], None}
               /\ finalizers'[i] \in {finalizers[i], None}
               /\ i = address[e] /\ e \in watched => states'[i] = None /\ finalizers'[i] = None
    <2>1. CASE e \in watched
      BY <1>2, <2>1 DEF Collect, DropState
    <2>2. CASE e \notin watched
      BY <1>2, <2>2 DEF Collect, DropState
    <2>3. QED
      BY <2>1, <2>2
  <1>4. TypeOK'
    <2>1. states' \in [Ids -> State \cup {None}] /\ finalizers' \in [Ids -> Encoders \cup {None}]
      <3>1. CASE e \in watched
        BY <1>2, <3>1 DEF Collect, DropState
      <3>2. CASE e \notin watched
        BY <1>2, <3>2 DEF Collect, DropState
      <3>3. QED
        BY <3>1, <3>2
    <2>2. QED
      BY <1>1, <2>1 DEF RegistryInv, TypeOK
  <1>5. \A f \in Encoders \ {e} : address'[f] = address[f]
    BY <1>1 DEF RegistryInv, TypeOK
  <1>6. address'[e] = None
    BY <1>1 DEF RegistryInv, TypeOK
  <1>7. AddressesDistinct' /\ WatchedAreLive' /\ CallsHold' /\ CallsUseOwnState'
    <2>1. AddressesDistinct'
      BY <1>5, <1>6 DEF RegistryInv, AddressesDistinct, Live
    <2>2. WatchedAreLive'
      BY <1>1, <1>5 DEF RegistryInv, TypeOK, WatchedAreLive, Live
    <2>3. CallsHold'
      BY <1>1, <1>5 DEF RegistryInv, CallsHold, Live
    <2>4. CallsUseOwnState'
      BY <1>1 DEF RegistryInv, CallsUseOwnState
    <2>5. QED
      BY <2>1, <2>2, <2>3, <2>4
  <1>8. ASSUME NEW i \in Ids, states'[i] # None
        PROVE  /\ states'[i] = states[i] /\ states[i] # None /\ states[i].of \in Encoders
               /\ address[states[i].of] = i /\ states[i].of # e
    <2>1. states'[i] = states[i] /\ states[i] # None
      BY <1>3, <1>8
    <2>2. states[i].of \in Encoders /\ address[states[i].of] = i
      BY <1>2, <2>1 DEF RegistryInv, EntriesAreLive, State
    <2>3. ASSUME states[i].of = e PROVE FALSE
      <3>1. e \in watched
        BY <1>1, <2>1, <2>3 DEF RegistryInv, FiledIsWatched
      <3>2. QED
        BY <1>3, <1>8, <2>2, <2>3, <3>1
    <2>4. QED
      BY <2>1, <2>2, <2>3
  <1>9. ASSUME NEW i \in Ids, finalizers'[i] # None
        PROVE  /\ finalizers'[i] = finalizers[i] /\ finalizers[i] \in watched
               /\ address[finalizers[i]] = i /\ finalizers[i] # e /\ finalizers[i] \in Encoders
    <2>1. finalizers'[i] = finalizers[i] /\ finalizers[i] # None /\ finalizers[i] \in Encoders
      BY <1>2, <1>3, <1>9
    <2>2. finalizers[i] \in watched /\ address[finalizers[i]] = i
      BY <2>1 DEF RegistryInv, EntriesAreLive, FinalizersWatch
    <2>3. finalizers[i] # e
      BY <1>3, <1>9, <2>2
    <2>4. QED
      BY <2>1, <2>2, <2>3
  <1>10. EntriesAreLive'
    BY <1>5, <1>8, <1>9 DEF EntriesAreLive
  <1>11. FinalizersWatch'
    BY <1>1, <1>9 DEF FinalizersWatch
  <1>12. FiledIsWatched'
    <2> SUFFICES ASSUME NEW i \in Ids, states'[i] # None
                 PROVE  \/ states'[i].of \in watched'
                        \/ \E t \in Threads : call'[t].pc = "watch" /\ call'[t].encoder = states'[i].of
      BY DEF FiledIsWatched
    <2> QED
      BY <1>1, <1>8 DEF RegistryInv, FiledIsWatched
  <1>13. QED
    BY <1>4, <1>7, <1>10, <1>11, <1>12 DEF RegistryInv

------------------------------------------------------------------------------
(* The steps of a call. Each gives its thread a new record c.              *)

HoldsWell(c) ==
  /\ c \in CallType
  /\ c.pc = "idle" => c = NoCall
  /\ c.pc # "idle" => c.encoder \in Encoders /\ Live(c.encoder)
  /\ c.pc \in {"file", "watch", "use"} => c.state # None
  /\ c.state # None => c.state.of = c.encoder

LEMMA CallsKeep ==
  ASSUME RegistryInv, NEW t \in Threads, NEW c, HoldsWell(c),
         address' = address, call' = [call EXCEPT ![t] = c]
  PROVE  /\ call' \in [Threads -> CallType]
         /\ CallsHold' /\ CallsUseOwnState'
         /\ AddressesDistinct'
  <1>1. call \in [Threads -> CallType]
    BY DEF RegistryInv, TypeOK, CallType
  <1>2. \A u \in Threads : call'[u] = IF u = t THEN c ELSE call[u]
    BY <1>1
  <1>3. call' \in [Threads -> CallType]
    BY <1>1 DEF HoldsWell
  <1>4. CallsHold' /\ CallsUseOwnState'
    BY <1>2 DEF RegistryInv, CallsHold, CallsUseOwnState, HoldsWell, Live
  <1>5. AddressesDistinct'
    BY DEF RegistryInv, AddressesDistinct, Live
  <1>6. QED
    BY <1>3, <1>4, <1>5

(* A step of a call that leaves the registry alone and was not at watch.   *)
LEMMA RegistryUntouched ==
  ASSUME RegistryInv, NEW t \in Threads, NEW c, HoldsWell(c), call[t].pc # "watch",
         UNCHANGED <<address, collected, states, finalizers, watched>>,
         call' = [call EXCEPT ![t] = c]
  PROVE  RegistryInv'
  <1>1. /\ call' \in [Threads -> CallType] /\ CallsHold' /\ CallsUseOwnState'
        /\ AddressesDistinct'
    BY CallsKeep
  <1>2. TypeOK'
    BY <1>1 DEF RegistryInv, TypeOK, CallType
  <1>3. WatchedAreLive' /\ EntriesAreLive' /\ FinalizersWatch'
    BY DEF RegistryInv, WatchedAreLive, EntriesAreLive, FinalizersWatch, Live
  <1>4. FiledIsWatched'
    <2>1. \A u \in Threads : call[u].pc = "watch" => call'[u] = call[u]
      BY DEF RegistryInv, TypeOK
    <2>2. QED
      BY <2>1 DEF RegistryInv, FiledIsWatched
  <1>5. QED
    BY <1>1, <1>2, <1>3, <1>4 DEF RegistryInv

LEMMA InCall ==
  ASSUME RegistryInv, NEW t \in Threads, call[t].pc # "idle"
  PROVE  /\ call[t] \in CallType /\ HoldsWell(call[t])
         /\ call[t].encoder \in Encoders /\ Key(t) \in Ids
  BY DEF RegistryInv, TypeOK, CallType, CallsHold, CallsUseOwnState, HoldsWell, Key, Live

LEMMA EnterKeeps ==
  ASSUME RegistryInv, NEW t \in Threads, NEW e \in Encoders, Enter(t, e)
  PROVE  RegistryInv'
  <1> DEFINE c == [pc |-> "get", encoder |-> e, state |-> None]
  <1>1. HoldsWell(c)
    BY DEF Enter, HoldsWell, CallType, Steps
  <1>2. /\ call[t].pc # "watch" /\ call' = [call EXCEPT ![t] = c]
        /\ UNCHANGED <<address, collected, states, finalizers, watched>>
    BY DEF Enter
  <1> HIDE DEF c
  <1>3. QED
    BY <1>1, <1>2, RegistryUntouched

(* The state found at the address is that of the encoder at the address.   *)
LEMMA GetKeeps ==
  ASSUME RegistryInv, NEW t \in Threads, Get(t)
  PROVE  RegistryInv'
  <1> DEFINE found == states[Key(t)]
             pc == IF found = None THEN "build" ELSE "use"
             c == [call[t] EXCEPT !.state = found, !.pc = pc]
  <1>1. HoldsWell(call[t]) /\ call[t].encoder \in Encoders /\ Key(t) \in Ids /\ call[t].pc = "get"
    BY InCall DEF Get
  <1>2. found \in State \cup {None}
    BY <1>1 DEF RegistryInv, TypeOK
  <1>3. found # None => found.of = call[t].encoder
    <2> SUFFICES ASSUME found # None PROVE found.of = call[t].encoder
      OBVIOUS
    <2>1. found.of \in Encoders /\ address[found.of] = Key(t)
      BY <1>1, <1>2 DEF RegistryInv, EntriesAreLive, State
    <2>2. Key(t) = address[call[t].encoder] /\ Key(t) # None
      BY <1>1, RegistryAssumption DEF Key
    <2>3. QED
      BY <1>1, <2>1, <2>2 DEF RegistryInv, AddressesDistinct, Live
  <1> HIDE DEF found
  <1>4. HoldsWell(c)
    BY <1>1, <1>2, <1>3 DEF HoldsWell, CallType, Steps
  <1>5. call' = [call EXCEPT ![t] = c] /\ UNCHANGED <<address, collected, states, finalizers, watched>>
    BY DEF Get, found
  <1> HIDE DEF c
  <1>6. QED
    BY <1>1, <1>4, <1>5, RegistryUntouched

LEMMA BuildKeeps ==
  ASSUME RegistryInv, NEW t \in Threads, Build(t)
  PROVE  RegistryInv'
  <1> DEFINE filed == [of |-> call[t].encoder, by |-> t]
             c == [call[t] EXCEPT !.state = filed, !.pc = "file"]
  <1>1. HoldsWell(call[t]) /\ call[t].encoder \in Encoders /\ call[t].pc = "build"
    BY InCall DEF Build
  <1>2. filed \in State /\ filed # None /\ filed.of = call[t].encoder
    BY <1>1, NoStateIsNone DEF State
  <1>3. call' = [call EXCEPT ![t] = c] /\ UNCHANGED <<address, collected, states, finalizers, watched>>
    BY DEF Build
  <1> HIDE DEF filed
  <1>4. HoldsWell(c)
    BY <1>1, <1>2 DEF HoldsWell, CallType, Steps
  <1> HIDE DEF c
  <1>5. QED
    BY <1>1, <1>3, <1>4, RegistryUntouched

LEMMA LeaveKeeps ==
  ASSUME RegistryInv, NEW t \in Threads, BuildRaises(t) \/ Return(t)
  PROVE  RegistryInv'
  <1>1. HoldsWell(NoCall)
    BY DEF HoldsWell, NoCall, CallType, Steps
  <1>2. /\ call[t].pc # "watch" /\ call' = [call EXCEPT ![t] = NoCall]
        /\ UNCHANGED <<address, collected, states, finalizers, watched>>
    BY DEF BuildRaises, Return
  <1>3. QED
    BY <1>1, <1>2, RegistryUntouched

LEMMA MovesOn ==
  ASSUME RegistryInv, NEW t \in Threads, NEW pc \in {"watch", "use"}, Goto(t, pc),
         call[t].pc \in {"file", "watch"}
  PROVE  /\ HoldsWell([call[t] EXCEPT !.pc = pc])
         /\ call' = [call EXCEPT ![t] = [call[t] EXCEPT !.pc = pc]]
  <1>1. HoldsWell(call[t])
    BY InCall
  <1>2. QED
    BY <1>1 DEF HoldsWell, CallType, Steps, Goto

LEMMA FileKeeps ==
  ASSUME RegistryInv, NEW t \in Threads, File(t)
  PROVE  RegistryInv'
  <1> DEFINE c == [call[t] EXCEPT !.pc = "watch"]
             filed == call[t].state
  <1>1. /\ HoldsWell(call[t]) /\ call[t].encoder \in Encoders /\ Key(t) \in Ids
        /\ call[t].pc = "file"
    BY InCall DEF File
  <1>2. HoldsWell(c) /\ call' = [call EXCEPT ![t] = c]
    BY <1>1, MovesOn DEF File
  <1>3. c.pc = "watch" /\ c.encoder = call[t].encoder
    BY <1>1 DEF HoldsWell, CallType
  <1>4. /\ filed \in State /\ filed.of = call[t].encoder /\ address[filed.of] = Key(t)
        /\ states' = [states EXCEPT ![Key(t)] = filed]
        /\ UNCHANGED <<address, collected, finalizers, watched>>
    BY <1>1 DEF File, HoldsWell, CallType, Key
  <1> HIDE DEF c, filed
  <1>5. /\ call' \in [Threads -> CallType] /\ CallsHold' /\ CallsUseOwnState'
        /\ AddressesDistinct'
    BY <1>2, <1>4, CallsKeep
  <1>6. TypeOK'
    BY <1>1, <1>4, <1>5 DEF RegistryInv, TypeOK, CallType
  <1>7. \A i \in Ids : states'[i] = IF i = Key(t) THEN filed ELSE states[i]
    BY <1>4 DEF RegistryInv, TypeOK
  <1>8. WatchedAreLive' /\ FinalizersWatch' /\ EntriesAreLive'
    BY <1>4, <1>7 DEF RegistryInv, WatchedAreLive, FinalizersWatch, EntriesAreLive, Live
  <1>9. FiledIsWatched'
    <2>1. call'[t] = c /\ \A u \in Threads : call[u].pc = "watch" => call'[u] = call[u]
      BY <1>1, <1>2 DEF RegistryInv, TypeOK
    <2>2. QED
      BY <1>3, <1>4, <1>7, <2>1 DEF RegistryInv, FiledIsWatched
  <1>10. QED
    BY <1>5, <1>6, <1>8, <1>9 DEF RegistryInv

LEMMA WatchKeeps ==
  ASSUME RegistryInv, NEW t \in Threads, Watch(t)
  PROVE  RegistryInv'
  <1> DEFINE c == [call[t] EXCEPT !.pc = "use"]
             e == call[t].encoder
  <1>1. /\ HoldsWell(call[t]) /\ e \in Encoders /\ Key(t) \in Ids /\ call[t].pc = "watch"
        /\ Live(e) /\ address[e] = Key(t)
    BY InCall DEF Watch, HoldsWell, Key
  <1>2. HoldsWell(c) /\ call' = [call EXCEPT ![t] = c]
    BY <1>1, MovesOn DEF Watch
  <1>3. /\ finalizers' = [finalizers EXCEPT ![Key(t)] = e] /\ watched' = watched \cup {e}
        /\ UNCHANGED <<address, collected, states>>
    BY DEF Watch
  <1> HIDE DEF c, e
  <1>4. /\ call' \in [Threads -> CallType] /\ CallsHold' /\ CallsUseOwnState'
        /\ AddressesDistinct'
    BY <1>2, <1>3, CallsKeep
  <1>5. TypeOK'
    BY <1>1, <1>3, <1>4 DEF RegistryInv, TypeOK, CallType
  <1>6. \A i \in Ids : finalizers'[i] = IF i = Key(t) THEN e ELSE finalizers[i]
    BY <1>3 DEF RegistryInv, TypeOK
  <1>7. WatchedAreLive' /\ FinalizersWatch' /\ EntriesAreLive'
    BY <1>1, <1>3, <1>6 DEF RegistryInv, WatchedAreLive, FinalizersWatch, EntriesAreLive, Live
  <1>8. FiledIsWatched'
    <2>1. \A u \in Threads \ {t} : call'[u] = call[u]
      BY <1>2 DEF RegistryInv, TypeOK
    <2>2. QED
      BY <1>3, <2>1 DEF RegistryInv, FiledIsWatched, e
  <1>9. QED
    BY <1>4, <1>5, <1>7, <1>8 DEF RegistryInv

------------------------------------------------------------------------------

LEMMA NextRegistry == RegistryInv /\ [Next]_vars => RegistryInv'
  <1> SUFFICES ASSUME RegistryInv, [Next]_vars PROVE RegistryInv'
    OBVIOUS
  <1>1. ASSUME NEW e \in Encoders, Collect(e) \/ \E i \in Ids : Create(e, i)
        PROVE  RegistryInv'
    BY <1>1, CollectKeeps, CreateKeeps
  <1>2. ASSUME NEW t \in Threads, StateFor(t) \/ \E e \in Encoders : Enter(t, e)
        PROVE  RegistryInv'
    BY <1>2, EnterKeeps, GetKeeps, BuildKeeps, LeaveKeeps, FileKeeps, WatchKeeps DEF StateFor
  <1>3. CASE UNCHANGED vars
    BY <1>3 DEF vars, RegistryInv, TypeOK, AddressesDistinct, WatchedAreLive, CallsHold,
                CallsUseOwnState, EntriesAreLive, FinalizersWatch, FiledIsWatched, Live
  <1>4. QED
    BY <1>1, <1>2, <1>3 DEF Next

LEMMA RegistryInvariant == Spec => []RegistryInv
  BY InitRegistry, NextRegistry, PTL DEF Spec

(* No call computes with the state of another encoder, however often the   *)
(* interpreter gives an address to a new one and whichever threads race.   *)
THEOREM OwnStateAlways == Spec => []CallsUseOwnState
  <1>1. RegistryInv => CallsUseOwnState
    BY DEF RegistryInv
  <1>2. QED
    BY <1>1, RegistryInvariant, PTL

(* The two dictionaries hold entries of live encoders only, each at its    *)
(* own address.                                                            *)
THEOREM EntriesLiveAlways == Spec => []EntriesAreLive
  <1>1. RegistryInv => EntriesAreLive
    BY DEF RegistryInv
  <1>2. QED
    BY <1>1, RegistryInvariant, PTL

(* No filed state can be left behind by its encoder: it has a finalizer,   *)
(* or a call that is about to set one keeps the encoder alive.             *)
THEOREM FiledAlwaysWatched == Spec => []FiledIsWatched
  <1>1. RegistryInv => FiledIsWatched
    BY DEF RegistryInv
  <1>2. QED
    BY <1>1, RegistryInvariant, PTL

(* The state s is settled at the address i, or its encoder is gone: what a *)
(* settled state stays.                                                    *)
Settled(i, s) == states[i] = s /\ ~Building(s.of)

SettledOrGone(i, s) == Settled(i, s) \/ s.of \in collected

LEMMA SettledAtOwnAddress ==
  ASSUME RegistryInv, NEW i \in Ids, NEW s \in State, Settled(i, s)
  PROVE  s.of \in Encoders /\ address[s.of] = i /\ Live(s.of)
  BY NoStateIsNone, RegistryAssumption DEF RegistryInv, EntriesAreLive, Settled, State, Live

(* Only the finalizer of the encoder itself takes its state away.          *)
LEMMA CollectSettles ==
  ASSUME RegistryInv, NEW i \in Ids, NEW s \in State, Settled(i, s),
         NEW e \in Encoders, Collect(e)
  PROVE  SettledOrGone(i, s)'
  <1>1. s.of \in Encoders /\ address[s.of] = i /\ Live(s.of)
    BY SettledAtOwnAddress
  <1>2. collected' = collected \cup {e} /\ call' = call
    BY DEF Collect
  <1>3. CASE e = s.of
    BY <1>2, <1>3 DEF SettledOrGone
  <1>4. CASE e # s.of
    <2>1. address[e] # i
      BY <1>1, <1>4 DEF RegistryInv, AddressesDistinct
    <2>2. states'[i] = states[i]
      BY <2>1 DEF Collect, DropState, RegistryInv, TypeOK
    <2>3. Building(s.of)' <=> Building(s.of)
      BY <1>2 DEF Building
    <2>4. QED
      BY <2>2, <2>3 DEF SettledOrGone, Settled
  <1>5. QED
    BY <1>3, <1>4

(* A call that finds the settled state uses it, so that no call misses and *)
(* files another; a call at another encoder files at another address.      *)
LEMMA CallSettles ==
  ASSUME RegistryInv, NEW i \in Ids, NEW s \in State, Settled(i, s), NEW t \in Threads,
         StateFor(t) \/ \E e \in Encoders : Enter(t, e)
  PROVE  Settled(i, s)'
  <1>1. s.of \in Encoders /\ address[s.of] = i /\ Live(s.of)
    BY SettledAtOwnAddress
  <1>2. \A u \in Threads \ {t} : call'[u] = call[u]
    BY DEF StateFor, Get, Build, BuildRaises, File, Watch, Return, Enter, Goto, RegistryInv, TypeOK
  <1>3. ~(call[t].encoder = s.of /\ call[t].pc \in {"build", "file"})
    BY DEF Settled, Building
  <1>4. ~(call'[t].encoder = s.of /\ call'[t].pc \in {"build", "file"})
    <2>1. CASE Get(t)
      <3>1. call'[t].encoder = call[t].encoder
            /\ (states[Key(t)] # None => call'[t].pc = "use")
        BY <2>1 DEF Get, RegistryInv, TypeOK
      <3>2. call[t].encoder = s.of => states[Key(t)] = s /\ s # None
        BY <1>1, NoStateIsNone DEF Key, Settled
      <3>3. QED
        BY <3>1, <3>2
    <2>2. CASE Build(t)
      BY <1>3, <2>2 DEF Build, RegistryInv, TypeOK
    <2>3. CASE BuildRaises(t) \/ Return(t)
      BY <2>3 DEF BuildRaises, Return, NoCall, RegistryInv, TypeOK
    <2>4. CASE File(t) \/ Watch(t)
      BY <2>4 DEF File, Watch, Goto, RegistryInv, TypeOK
    <2>5. CASE \E e \in Encoders : Enter(t, e)
      BY <2>5 DEF Enter, RegistryInv, TypeOK
    <2>6. QED
      BY <2>1, <2>2, <2>3, <2>4, <2>5 DEF StateFor
  <1>5. ~Building(s.of)'
    <2>1. \A u \in Threads : ~(call'[u].encoder = s.of /\ call'[u].pc \in {"build", "file"})
      BY <1>2, <1>4 DEF Settled, Building
    <2>2. QED
      BY <2>1 DEF Building
  <1>6. states'[i] = states[i]
    <2>1. CASE File(t)
      <3>1. /\ call[t].encoder \in Encoders /\ Key(t) \in Ids /\ call[t].pc = "file"
            /\ Key(t) = address[call[t].encoder]
        BY <2>1, InCall DEF File, Key
      <3>2. call[t].encoder # s.of
        BY <1>3, <3>1
      <3>3. Key(t) # i
        BY <1>1, <3>1, <3>2 DEF RegistryInv, AddressesDistinct
      <3>4. QED
        BY <2>1, <3>3 DEF File, RegistryInv, TypeOK
    <2>2. CASE states' = states
      BY <2>2
    <2>3. QED
      BY <2>1, <2>2 DEF StateFor, Get, Build, BuildRaises, Watch, Return, Enter
  <1>7. QED
    BY <1>5, <1>6 DEF Settled

LEMMA NextSettles ==
  ASSUME RegistryInv, NEW i \in Ids, NEW s \in State, SettledOrGone(i, s), [Next]_vars
  PROVE  SettledOrGone(i, s)'
  <1>1. CASE s.of \in collected
    <2>1. collected \subseteq collected'
      BY DEF Next, vars, Collect, Create, StateFor, Get, Build, BuildRaises, File, Watch,
             Return, Enter
    <2>2. QED
      BY <1>1, <2>1 DEF SettledOrGone
  <1>2. CASE Settled(i, s)
    <2>1. ASSUME NEW e \in Encoders, Collect(e)
          PROVE  SettledOrGone(i, s)'
      BY <1>2, <2>1, CollectSettles
    <2>2. ASSUME NEW e \in Encoders, NEW j \in Ids, Create(e, j)
          PROVE  SettledOrGone(i, s)'
      BY <1>2, <2>2 DEF Create, SettledOrGone, Settled, Building
    <2>3. ASSUME NEW t \in Threads, StateFor(t) \/ \E e \in Encoders : Enter(t, e)
          PROVE  SettledOrGone(i, s)'
      BY <1>2, <2>3, CallSettles DEF SettledOrGone
    <2>4. CASE UNCHANGED vars
      BY <1>2, <2>4 DEF vars, SettledOrGone, Settled, Building
    <2>5. QED
      BY <2>1, <2>2, <2>3, <2>4 DEF Next
  <1>3. QED
    BY <1>1, <1>2 DEF SettledOrGone

(* Once no call is between its miss and its filing, the registry keeps the *)
(* state it has for an encoder until the encoder is collected.             *)
THEOREM SettledAlwaysKept == Spec => SettledStateKept
  <1> SUFFICES ASSUME NEW i \in Ids, NEW s \in State
               PROVE  Spec => [](states[i] = s /\ ~Building(s.of)
                                   => [](states[i] = s \/ s.of \in collected))
    BY DEF SettledStateKept
  <1>1. RegistryInv /\ SettledOrGone(i, s) /\ [Next]_vars => SettledOrGone(i, s)'
    BY NextSettles
  <1>2. states[i] = s /\ ~Building(s.of) => SettledOrGone(i, s)
    BY DEF SettledOrGone, Settled
  <1>3. SettledOrGone(i, s) => states[i] = s \/ s.of \in collected
    BY DEF SettledOrGone, Settled
  <1>4. QED
    BY <1>1, <1>2, <1>3, RegistryInvariant, PTL DEF Spec

------------------------------------------------------------------------------
(***************************************************************************)
(* What the gate is worth, for any number of encoders, layers, addresses   *)
(* and threads and every kind of call. A call past the gate carries the    *)
(* gate's answer with it: nothing it asked about changes while the call    *)
(* holds its encoder. And the state it gets was built from its encoder,    *)
(* which the registry's own theorems say: the entry only restricts it.     *)
(***************************************************************************)

PastTheGate ==
  \A t \in Threads : call[t].pc # "idle" =>
    /\ entry[t] # None
    /\ entry[t].encoder = call[t].encoder
    /\ Supported(entry[t].encoder, entry[t].input)

EntryInv == EntryTypeOK /\ PastTheGate

------------------------------------------------------------------------------

(* A step of the entry is one of the registry, or leaves it alone.         *)
LEMMA EntryStepIsRegistryStep == [EntryNext]_allVars => [Next]_vars
  <1> SUFFICES ASSUME EntryNext PROVE Next \/ UNCHANGED vars
    BY DEF allVars
  <1>1. ASSUME NEW e \in Encoders, CollectUnheld(e) PROVE Next
    BY <1>1 DEF CollectUnheld, Next
  <1>2. ASSUME NEW e \in Encoders, NEW attentions \in Layouts[e], NEW i \in Ids,
               CreateWith(e, i, attentions)
        PROVE  Next
    BY <1>2 DEF CreateWith, Next
  <1>3. ASSUME NEW e \in Encoders, NEW attentions \in Layouts[e], Relayer(e, attentions)
        PROVE  UNCHANGED vars
    BY <1>3 DEF Relayer
  <1>4. ASSUME NEW t \in Threads, NEW e \in Encoders, NEW x \in Inputs,
               Refer(t, e, x) \/ Pass(t, e, x)
        PROVE  Next \/ UNCHANGED vars
    BY <1>4 DEF Refer, Pass, Next
  <1>5. ASSUME NEW t \in Threads,
               ReferenceEnds(t) \/ Proceed(t) \/ BuildAll(t) \/ BuildEnds(t) \/ FastEnds(t)
        PROVE  Next \/ UNCHANGED vars
    BY <1>5 DEF ReferenceEnds, Proceed, BuildAll, BuildEnds, FastEnds, Next, StateFor
  <1>6. QED
    BY <1>1, <1>2, <1>3, <1>4, <1>5 DEF EntryNext

(* The entry of encoder_forward uses the registry as its specification     *)
(* says: what is proved of _STATES and _FINALIZERS holds behind the gate.  *)
THEOREM EntryUsesRegistry == EntrySpec => Spec
  <1>1. EntryInit => Init
    BY DEF EntryInit
  <1>2. QED
    BY <1>1, EntryStepIsRegistryStep, PTL DEF EntrySpec, Spec

------------------------------------------------------------------------------

LEMMA InitEntry == EntryInit => EntryInv
  <1> SUFFICES ASSUME EntryInit PROVE EntryInv
    OBVIOUS
  <1>1. EntryTypeOK
    BY DEF EntryInit, EntryTypeOK
  <1>2. PastTheGate
    BY DEF EntryInit, Init, NoCall, PastTheGate
  <1>3. QED
    BY <1>1, <1>2 DEF EntryInv

(* A call whose thread goes on, while its arguments and the layers of its  *)
(* encoder stay, keeps the gate's answer.                                  *)
LEMMA GoingOnKeeps ==
  ASSUME PastTheGate,
         \A t \in Threads : call'[t].pc # "idle" =>
           /\ call[t].pc # "idle"
           /\ call'[t].encoder = call[t].encoder
           /\ entry'[t] = entry[t]
           /\ layers'[entry[t].encoder] = layers[entry[t].encoder]
  PROVE  PastTheGate'
  BY DEF PastTheGate, Supported

(* The layers of an encoder change only while no call holds it.            *)
LEMMA UnheldKeeps ==
  ASSUME EntryInv, NEW e \in Encoders, Unheld(e), call' = call, entry' = entry,
         NEW attentions \in Seq(Attention), layers' = [layers EXCEPT ![e] = attentions],
         built' \in [State -> Seq(Attention)]
  PROVE  EntryInv'
  <1>1. EntryTypeOK'
    BY DEF EntryInv, EntryTypeOK
  <1>2. \A t \in Threads : call[t].pc # "idle" =>
          layers'[entry[t].encoder] = layers[entry[t].encoder]
    BY DEF EntryInv, EntryTypeOK, PastTheGate, Unheld
  <1>3. PastTheGate'
    BY <1>2, GoingOnKeeps DEF EntryInv
  <1>4. QED
    BY <1>1, <1>3 DEF EntryInv

LEMMA EncoderKeeps ==
  ASSUME RegistryInv, EntryInv, NEW e \in Encoders,
         \/ CollectUnheld(e)
         \/ \E attentions \in Layouts[e] :
              Relayer(e, attentions) \/ \E i \in Ids : CreateWith(e, i, attentions)
  PROVE  EntryInv'
  <1>1. \A attentions \in Layouts[e] : attentions \in Seq(Attention)
    BY EntryAssumption
  <1>2. <<>> \in Seq(Attention)
    OBVIOUS
  <1>3. CASE CollectUnheld(e)
    <2>1. /\ Unheld(e) /\ call' = call /\ entry' = entry
          /\ layers' = [layers EXCEPT ![e] = <<>>]
          /\ built' = [s \in State |-> IF s.of = e THEN <<>> ELSE built[s]]
      BY <1>3 DEF CollectUnheld, Collect
    <2>2. built' \in [State -> Seq(Attention)]
      BY <1>2, <2>1 DEF EntryInv, EntryTypeOK
    <2>3. QED
      BY <1>2, <2>1, <2>2, UnheldKeeps
  <1>4. ASSUME NEW attentions \in Layouts[e], Relayer(e, attentions) PROVE EntryInv'
    <2>1. /\ Unheld(e) /\ call' = call /\ entry' = entry /\ built' = built
          /\ layers' = [layers EXCEPT ![e] = attentions]
      BY <1>4 DEF Relayer, vars
    <2>2. built' \in [State -> Seq(Attention)]
      BY <2>1 DEF EntryInv, EntryTypeOK
    <2>3. QED
      BY <1>1, <2>1, <2>2, UnheldKeeps
  <1>5. ASSUME NEW attentions \in Layouts[e], NEW i \in Ids, CreateWith(e, i, attentions)
        PROVE  EntryInv'
    <2>1. /\ ~Live(e) /\ call' = call /\ entry' = entry /\ built' = built
          /\ layers' = [layers EXCEPT ![e] = attentions]
      BY <1>5 DEF CreateWith, Create
    <2>2. \A t \in Threads : call[t].pc # "idle" => call[t].encoder # e
      BY <2>1 DEF RegistryInv, CallsHold
    <2>3. EntryTypeOK'
      BY <1>1, <2>1 DEF EntryInv, EntryTypeOK
    <2>4. \A t \in Threads : call[t].pc # "idle" =>
            layers'[entry[t].encoder] = layers[entry[t].encoder]
      BY <2>1, <2>2 DEF EntryInv, EntryTypeOK, PastTheGate
    <2>5. PastTheGate'
      BY <2>1, <2>4, GoingOnKeeps DEF EntryInv
    <2>6. QED
      BY <2>3, <2>5 DEF EntryInv
  <1>6. QED
    BY <1>3, <1>4, <1>5

------------------------------------------------------------------------------
(* The steps of encoder_forward                                            *)

LEMMA BeginKeeps ==
  ASSUME RegistryInv, EntryInv, NEW t \in Threads, NEW e \in Encoders, NEW x \in Inputs,
         Refer(t, e, x) \/ Pass(t, e, x)
  PROVE  EntryInv'
  <1> DEFINE arguments == [encoder |-> e, input |-> x]
  <1>1. /\ entry' = [entry EXCEPT ![t] = arguments]
        /\ layers' = layers /\ built' = built /\ call[t].pc = "idle"
    BY DEF Refer, Pass, Called
  <1>2. arguments \in Arguments /\ arguments # None
    BY EntryAssumption DEF Arguments
  <1>3. EntryTypeOK'
    BY <1>1, <1>2 DEF EntryInv, EntryTypeOK
  <1>4. arguments.encoder = e /\ arguments.input = x
    OBVIOUS
  <1> HIDE DEF arguments
  <1>5. entry'[t] = arguments /\ \A u \in Threads \ {t} : entry'[u] = entry[u]
    BY <1>1 DEF EntryInv, EntryTypeOK
  <1>6. PastTheGate'
    <2>1. CASE Refer(t, e, x)
      <3>1. call' = call
        BY <2>1 DEF Refer, vars
      <3>2. QED
        BY <1>1, <1>5, <3>1, GoingOnKeeps DEF EntryInv
    <2>2. CASE Pass(t, e, x)
      <3>1. /\ Supported(e, x)
            /\ call' = [call EXCEPT ![t] = [pc |-> "get", encoder |-> e, state |-> None]]
        BY <2>2 DEF Pass, Enter
      <3>2. /\ call'[t].encoder = e
            /\ \A u \in Threads \ {t} : call'[u] = call[u]
        BY <3>1 DEF RegistryInv, TypeOK
      <3>3. \A u \in Threads : call'[u].pc # "idle" =>
              /\ entry'[u] # None
              /\ entry'[u].encoder = call'[u].encoder
              /\ Supported(entry'[u].encoder, entry'[u].input)
        BY <1>2, <1>4, <1>5, <3>1, <3>2 DEF EntryInv, PastTheGate
      <3>4. QED
        BY <1>1, <3>3 DEF PastTheGate, Supported
    <2>3. QED
      BY <2>1, <2>2
  <1>7. QED
    BY <1>3, <1>6 DEF EntryInv

LEMMA EndKeeps ==
  ASSUME RegistryInv, EntryInv, NEW t \in Threads,
         ReferenceEnds(t) \/ BuildEnds(t) \/ FastEnds(t)
  PROVE  EntryInv'
  <1>1. /\ entry' = [entry EXCEPT ![t] = None]
        /\ layers' = layers /\ built' = built
    BY DEF ReferenceEnds, BuildEnds, FastEnds, Ended
  <1>2. EntryTypeOK'
    BY <1>1 DEF EntryInv, EntryTypeOK
  <1>3. /\ call'[t].pc = "idle"
        /\ \A u \in Threads \ {t} : call'[u] = call[u]
    <2>1. CASE ReferenceEnds(t)
      BY <2>1 DEF ReferenceEnds, vars
    <2>2. CASE BuildEnds(t) \/ FastEnds(t)
      BY <2>2 DEF BuildEnds, FastEnds, BuildRaises, Return, NoCall, RegistryInv, TypeOK
    <2>3. QED
      BY <2>1, <2>2
  <1>4. \A u \in Threads \ {t} : entry'[u] = entry[u]
    BY <1>1 DEF EntryInv, EntryTypeOK
  <1>5. PastTheGate'
    BY <1>1, <1>3, <1>4, GoingOnKeeps DEF EntryInv
  <1>6. QED
    BY <1>2, <1>5 DEF EntryInv

LEMMA ProceedKeeps ==
  ASSUME RegistryInv, EntryInv, NEW t \in Threads, Proceed(t) \/ BuildAll(t)
  PROVE  EntryInv'
  <1>1. layers' = layers /\ entry' = entry
    BY DEF Proceed, BuildAll, entryVars
  <1>2. /\ call[t].pc # "idle"
        /\ call'[t].encoder = call[t].encoder
        /\ \A u \in Threads \ {t} : call'[u] = call[u]
    BY DEF Proceed, BuildAll, Get, Build, File, Watch, Goto, RegistryInv, TypeOK
  <1>3. built' \in [State -> Seq(Attention)]
    <2>1. CASE Proceed(t)
      BY <2>1 DEF Proceed, entryVars, EntryInv, EntryTypeOK
    <2>2. CASE BuildAll(t)
      <3>1. call[t].encoder \in Encoders
        BY <1>2, InCall
      <3>2. layers[call[t].encoder] \in Seq(Attention)
        BY <3>1 DEF EntryInv, EntryTypeOK
      <3>3. QED
        BY <2>2, <3>2 DEF BuildAll, EntryInv, EntryTypeOK
    <2>3. QED
      BY <2>1, <2>2
  <1>4. EntryTypeOK'
    BY <1>1, <1>3 DEF EntryInv, EntryTypeOK
  <1>5. PastTheGate'
    BY <1>1, <1>2, GoingOnKeeps DEF EntryInv
  <1>6. QED
    BY <1>4, <1>5 DEF EntryInv

LEMMA NextEntry == RegistryInv /\ EntryInv /\ [EntryNext]_allVars => EntryInv'
  <1> SUFFICES ASSUME RegistryInv, EntryInv, [EntryNext]_allVars PROVE EntryInv'
    OBVIOUS
  <1>1. ASSUME NEW e \in Encoders,
               \/ CollectUnheld(e)
               \/ \E attentions \in Layouts[e] :
                    Relayer(e, attentions) \/ \E i \in Ids : CreateWith(e, i, attentions)
        PROVE  EntryInv'
    BY <1>1, EncoderKeeps
  <1>2. ASSUME NEW t \in Threads, NEW e \in Encoders, NEW x \in Inputs,
               Refer(t, e, x) \/ Pass(t, e, x)
        PROVE  EntryInv'
    BY <1>2, BeginKeeps
  <1>3. ASSUME NEW t \in Threads,
               ReferenceEnds(t) \/ Proceed(t) \/ BuildAll(t) \/ BuildEnds(t) \/ FastEnds(t)
        PROVE  EntryInv'
    BY <1>3, ProceedKeeps, EndKeeps
  <1>4. CASE UNCHANGED allVars
    BY <1>4 DEF allVars, vars, entryVars, EntryInv, EntryTypeOK, PastTheGate, Supported
  <1>5. QED
    BY <1>1, <1>2, <1>3, <1>4 DEF EntryNext

LEMMA EntryInvAlways == EntrySpec => [](RegistryInv /\ EntryInv)
  <1>1. EntrySpec => []RegistryInv
    BY EntryUsesRegistry, RegistryInvariant, PTL
  <1>2. QED
    BY <1>1, InitEntry, NextEntry, PTL DEF EntrySpec

------------------------------------------------------------------------------

(* The facts both theorems start from.                                     *)
LEMMA AtTheGate ==
  ASSUME RegistryInv, EntryInv, NEW t \in Threads, call[t].pc # "idle"
  PROVE  /\ entry[t].encoder \in Encoders /\ entry[t].input \in Inputs
         /\ layers[entry[t].encoder] \in Seq(Attention)
         /\ Supported(entry[t].encoder, entry[t].input)
         /\ call[t].pc = "use" => /\ call[t].state.of = entry[t].encoder
                                  /\ Shadows(t) \in Seq(Attention)
  <1>1. entry[t] \in Arguments /\ entry[t].encoder = call[t].encoder
    BY DEF EntryInv, EntryTypeOK, PastTheGate
  <1>2. entry[t].encoder \in Encoders /\ entry[t].input \in Inputs
    BY <1>1 DEF Arguments
  <1>3. layers[entry[t].encoder] \in Seq(Attention)
    BY <1>2 DEF EntryInv, EntryTypeOK
  <1>4. Supported(entry[t].encoder, entry[t].input)
    BY DEF EntryInv, PastTheGate
  <1>5. ASSUME call[t].pc = "use"
        PROVE  call[t].state.of = entry[t].encoder /\ Shadows(t) \in Seq(Attention)
    <2>1. call[t].state # None /\ call[t].state \in State \cup {None}
      BY <1>5 DEF RegistryInv, TypeOK, CallsHold
    <2>2. call[t].state.of = call[t].encoder
      BY <2>1 DEF RegistryInv, CallsUseOwnState
    <2>3. QED
      BY <1>1, <2>1, <2>2 DEF Shadows, EntryInv, EntryTypeOK
  <1>6. QED
    BY <1>2, <1>3, <1>4, <1>5

(* Of every call, every encoder and every stack of layers, also one whose  *)
(* layers were replaced since its state was built: what the fast path      *)
(* answers is what the reference encoder would, but for the replaced       *)
(* layers and those with other positions than the first.                   *)
THEOREM AnswersAlwaysAsHost == EntrySpec => []AnswersAsHost
  <1>1. RegistryInv /\ EntryInv => AnswersAsHost
    <2> SUFFICES ASSUME RegistryInv, EntryInv, NEW t \in Threads,
                        call[t].pc = "use", ~CallRefused(t)
                 PROVE  LET e == entry[t].encoder
                            fast == FastLayers(t)
                            host == HostLayers(e)
                        IN /\ Extras(e, entry[t].input) = {}
                           /\ DOMAIN fast = DOMAIN host
                           /\ \A l \in DOMAIN host :
                                \/ fast[l] = host[l]
                                \/ Replaced(t, l)
                                \/ layers[e][l].positions # Shadows(t)[1].positions
      BY DEF AnswersAsHost
    <2> DEFINE e == entry[t].encoder
    <2>1. /\ layers[e] \in Seq(Attention) /\ Shadows(t) \in Seq(Attention)
          /\ Supported(e, entry[t].input) /\ call[t].state.of = e
      BY AtTheGate
    <2>2. Extras(e, entry[t].input) = {}
      BY <2>1 DEF Supported, CallSupported, EncoderSupported, Extras
    <2>3. DOMAIN layers[e] = DOMAIN Shadows(t)
      <3>1. Len(layers[e]) = Len(Shadows(t))
        BY DEF CallRefused, RunRefused, LayoutKept
      <3>2. QED
        BY <2>1, <3>1
    <2>4. DOMAIN FastLayers(t) = DOMAIN layers[e] /\ DOMAIN HostLayers(e) = DOMAIN layers[e]
      BY <2>3 DEF FastLayers, HostLayers
    <2>5. ASSUME NEW l \in DOMAIN layers[e],
                 ~Replaced(t, l), layers[e][l].positions = Shadows(t)[1].positions
          PROVE  FastLayers(t)[l] = HostLayers(e)[l]
      <3>1. Shadows(t)[l] = layers[e][l]
        BY <2>1, <2>5 DEF Replaced
      <3>2. QED
        BY <2>3, <2>5, <3>1 DEF FastLayers, HostLayers
    <2>6. QED
      BY <2>2, <2>4, <2>5
  <1>2. QED
    BY <1>1, EntryInvAlways, PTL

LEMMA PositiveLength ==
  ASSUME NEW n \in Nat, n # 0, n <= MAX_SEQUENCE_LENGTH
  PROVE  n \in 1..MAX_SEQUENCE_LENGTH
  BY DEF MAX_SEQUENCE_LENGTH

(* Of every call, encoder and stack of alike layers with a state that      *)
(* still fits: what the gate lets through is built and run without a       *)
(* refusal, mixed biases, gaps in the slots and the empty sequence apart.  *)
THEOREM UniformAlwaysServed == EntrySpec => []UniformEncodersServed
  <1>1. RegistryInv /\ EntryInv => UniformEncodersServed
    <2> SUFFICES ASSUME RegistryInv, EntryInv, NEW t \in Threads, call[t].pc # "idle",
                        Uniform(layers[entry[t].encoder]),
                        layers[entry[t].encoder][1].biases # "mixed",
                        <<layers[entry[t].encoder][1].positions, entry[t].input.length>> \notin Gapped,
                        entry[t].input.length # 0
                 PROVE  /\ call[t].pc = "build" => ~BuildRefused(entry[t].encoder)
                        /\ call[t].pc = "use" /\ Shadows(t) = layers[entry[t].encoder]
                             => ~CallRefused(t)
      BY DEF UniformEncodersServed
    <2> DEFINE e == entry[t].encoder
               x == entry[t].input
               a == layers[e]
    <2>1. /\ e \in Encoders /\ x \in Inputs /\ a \in Seq(Attention) /\ Supported(e, x)
      BY AtTheGate
    <2>2. /\ a # <<>> /\ a[1].missing = {} /\ a[1].kinds # {}
          /\ a[1].headSize \in SUPPORTED_HEAD_DIMS
      BY <2>1 DEF Supported, AttentionSupported
    <2>3. 1 \in DOMAIN a /\ a[1] \in Attention
      BY <2>1, <2>2
    <2>4. \A l \in DOMAIN a :
            /\ a[l].missing = a[1].missing /\ a[l].kinds = a[1].kinds
            /\ a[l].headSize = a[1].headSize /\ a[l].biases = a[1].biases
      <3> SUFFICES ASSUME NEW l \in DOMAIN a
                   PROVE  /\ a[l].missing = a[1].missing /\ a[l].kinds = a[1].kinds
                          /\ a[l].headSize = a[1].headSize /\ a[l].biases = a[1].biases
        OBVIOUS
      <3>1. a[l] = [a[1] EXCEPT !.module = a[l].module]
        BY DEF Uniform
      <3> HIDE DEF a
      <3>2. QED
        BY <2>3, <3>1 DEF Attention
    <2>5. x \in Input
      BY <2>1, EntryAssumption
    <2>6. /\ TritonInstalled /\ x.device = "cuda" /\ x.dtype \in SUPPORTED_DTYPES
          /\ x.mask = "padding" /\ x.length \in 1..MAX_SEQUENCE_LENGTH
          /\ Host[e].relative /\ Host[e].relEmbedding
      <3>1. CallSupported(x) /\ EncoderSupported(e)
        BY <2>1 DEF Supported
      <3>2. x.length \in Nat /\ x.length # 0
        BY <2>5 DEF Input
      <3>3. x.length \in 1..MAX_SEQUENCE_LENGTH
        <4>1. x.length <= MAX_SEQUENCE_LENGTH
          BY <3>1 DEF CallSupported
        <4> HIDE DEF x
        <4>2. QED
          BY <3>2, <4>1, PositiveLength
      <3>4. QED
        BY <3>1, <3>3 DEF CallSupported, EncoderSupported
    <2>7. ~BuildRefused(e)
      BY <2>2, <2>4 DEF BuildRefused
    <2>8. ASSUME Shadows(t) = a PROVE ~CallRefused(t)
      <3>1. ~PlansRefused(t)
        BY <2>2, <2>4, <2>6, <2>8 DEF PlansRefused
      <3>2. ~RunRefused(t)
        BY <2>2, <2>4, <2>6, <2>8 DEF RunRefused, LayoutKept
      <3>3. QED
        BY <3>1, <3>2 DEF CallRefused
    <2>9. QED
      BY <2>7, <2>8
  <1>2. QED
    BY <1>1, EntryInvAlways, PTL
==============================================================================
