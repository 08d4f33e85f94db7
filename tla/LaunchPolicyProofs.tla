-------------------------- MODULE LaunchPolicyProofs --------------------------
(***************************************************************************)
(* A profile file is whole at every moment, and saves are atomic, for any  *)
(* number of tuners, files, failures and losses of power. The argument:    *)
(* a temporary file past its write holds what was merged, past its sync it *)
(* survives, and only then is it renamed; so all a path has ever held      *)
(* since the power last failed is synced and whole.                        *)
(***************************************************************************)
EXTENDS LaunchPolicy, TLAPS

Whole(f) == f # None => f \in Files /\ f.synced = TRUE /\ f.data # Torn

FormersWhole == \A p \in Paths : \A f \in former[p] : Whole(f)

FileIsFormer == \A p \in Paths : file[p] \in former[p]

Wanted(t) == Merged(tuner[t].base, tuner[t].job)

BusyTunersHold ==
  \A t \in Tuners :
    /\ tuner[t].pc # "idle" => tuner[t].job \in Jobs
    /\ tuner[t].pc \in {"created", "written", "synced"} => temp[t] \in Files
    /\ tuner[t].pc \in {"written", "synced"} => temp[t].data = Wanted(t)
    /\ tuner[t].pc = "synced" => temp[t].synced = TRUE

StoreInv ==
  /\ StoreTypeOK
  /\ FormersWhole
  /\ FileIsFormer
  /\ BusyTunersHold

------------------------------------------------------------------------------

LEMMA NoneIsNoFile == None \notin Files /\ None \notin Data /\ None \notin Jobs
  BY StoreAssumption

LEMMA ProfilesAreWhole == Torn \notin Profiles
  BY StoreAssumption

(* What is merged is a profile, which no torn file is.                     *)
LEMMA MergedIsProfile ==
  ASSUME NEW base \in Profiles \cup {None}, NEW j \in Jobs
  PROVE  Merged(base, j) \in Profiles
  <1>1. j \in [machine : Machines, workload : Workloads, entry : Entries]
    BY StoreAssumption
  <1>2. base # None => base \in [machine : Machines, entries : [Workloads -> Entries \cup {None}]]
    BY DEF Profiles
  <1>3. \A w \in Workloads :
          (IF w = j.workload THEN j.entry ELSE IF base = None THEN None ELSE base.entries[w])
            \in Entries \cup {None}
    BY <1>1, <1>2
  <1>4. [w \in Workloads |->
           IF w = j.workload THEN j.entry ELSE IF base = None THEN None ELSE base.entries[w]]
          \in [Workloads -> Entries \cup {None}]
    BY <1>3
  <1>5. QED
    BY <1>1, <1>4 DEF Merged, Profiles

LEMMA DataAtPath ==
  ASSUME StoreTypeOK, NEW p \in Paths
  PROVE  DataAt(p) \in Data \cup {None}
  BY DEF StoreTypeOK, DataAt, Files

LEMMA InitStore == StoreInit => StoreInv
  <1> SUFFICES ASSUME StoreInit PROVE StoreInv
    OBVIOUS
  <1>1. PICK found \in [Paths -> InitialFiles] :
          /\ file = [p \in Paths |-> OnDisk(found[p])]
          /\ former = [p \in Paths |-> {OnDisk(found[p])}]
    BY DEF StoreInit
  <1>2. \A p \in Paths : Whole(OnDisk(found[p])) /\ OnDisk(found[p]) \in Files \cup {None}
    <2> TAKE p \in Paths
    <2>1. found[p] \in (Data \ {Torn}) \cup {None}
      BY <1>1, StoreAssumption
    <2>2. CASE found[p] = None
      BY <2>2 DEF OnDisk, Whole
    <2>3. CASE found[p] # None
      BY <2>1, <2>3 DEF OnDisk, Whole, Files
    <2>4. QED
      BY <2>2, <2>3
  <1>3. PICK q \in Paths :
          tuner = [t \in Tuners |-> [pc |-> "idle", path |-> q, job |-> None, base |-> None]]
    BY DEF StoreInit
  <1>4. StoreTypeOK
    BY <1>1, <1>2, <1>3 DEF StoreInit, StoreTypeOK, TunerRecord, Steps
  <1>5. FormersWhole /\ FileIsFormer
    BY <1>1, <1>2 DEF FormersWhole, FileIsFormer
  <1>6. BusyTunersHold
    BY <1>3 DEF BusyTunersHold
  <1>7. QED
    BY <1>4, <1>5, <1>6 DEF StoreInv

------------------------------------------------------------------------------
(* Steps that leave the files alone.                                       *)

(* It is enough to look at the tuner that steps.                           *)
LEMMA TunerSteps ==
  ASSUME StoreInv, NEW t \in Tuners, NEW r \in TunerRecord, NEW g \in Files \cup {None},
         tuner' = [tuner EXCEPT ![t] = r], temp' = [temp EXCEPT ![t] = g],
         r.pc # "idle" => r.job \in Jobs,
         r.pc \in {"created", "written", "synced"} => g \in Files,
         r.pc \in {"written", "synced"} => g.data = Merged(r.base, r.job),
         r.pc = "synced" => g.synced = TRUE
  PROVE  /\ BusyTunersHold'
         /\ temp' \in [Tuners -> Files \cup {None}]
         /\ tuner' \in [Tuners -> TunerRecord]
  <1>1. /\ temp' \in [Tuners -> Files \cup {None}]
        /\ tuner' \in [Tuners -> TunerRecord]
    BY DEF StoreInv, StoreTypeOK
  <1>2. \A u \in Tuners :
          /\ tuner'[u] = IF u = t THEN r ELSE tuner[u]
          /\ temp'[u] = IF u = t THEN g ELSE temp[u]
    BY DEF StoreInv, StoreTypeOK
  <1>3. BusyTunersHold'
    BY <1>2 DEF StoreInv, BusyTunersHold, Wanted
  <1>4. QED
    BY <1>1, <1>3

LEMMA FilesUntouched ==
  ASSUME StoreInv, UNCHANGED <<file, former>>,
         starts' \in Nat, faults' \in Nat,
         temp' \in [Tuners -> Files \cup {None}],
         tuner' \in [Tuners -> TunerRecord],
         BusyTunersHold'
  PROVE  StoreInv'
  <1>1. StoreTypeOK'
    BY DEF StoreInv, StoreTypeOK
  <1>2. FormersWhole' /\ FileIsFormer'
    BY DEF StoreInv, FormersWhole, FileIsFormer
  <1>3. QED
    BY <1>1, <1>2 DEF StoreInv

LEMMA CountsStayNatural ==
  ASSUME StoreInv
  PROVE  /\ starts \in Nat /\ faults \in Nat
         /\ starts + 1 \in Nat
         /\ Fault => faults' \in Nat
  BY DEF StoreInv, StoreTypeOK, Fault

LEMMA FinishedIsRecord ==
  ASSUME NEW p \in Paths
  PROVE  Finished(p) \in TunerRecord /\ Finished(p).pc = "idle"
  BY DEF Finished, TunerRecord, Steps

LEMMA LoadKeeps ==
  ASSUME StoreInv, NEW t \in Tuners, NEW p \in Paths, NEW j \in Jobs, Load(t, p, j)
  PROVE  StoreInv'
  <1> DEFINE r == [pc |-> "loaded", path |-> p, job |-> j, base |-> DataAt(p)]
  <1>1. DataAt(p) \in Profiles \cup {None}
    BY DEF Load, Loads, DataAt
  <1>2. r \in TunerRecord
    BY <1>1 DEF TunerRecord, Steps
  <1>3. temp[t] \in Files \cup {None} /\ temp' = [temp EXCEPT ![t] = temp[t]]
    BY DEF Load, StoreInv, StoreTypeOK
  <1>4. tuner' = [tuner EXCEPT ![t] = r]
    BY DEF Load
  <1>5. r.pc = "loaded" /\ r.job \in Jobs
    OBVIOUS
  <1> HIDE DEF r
  <1>6. BusyTunersHold' /\ temp' \in [Tuners -> Files \cup {None}] /\ tuner' \in [Tuners -> TunerRecord]
    BY <1>2, <1>3, <1>4, <1>5, TunerSteps
  <1>7. QED
    BY <1>6, FilesUntouched, CountsStayNatural DEF Load

(* A tuner goes back to idle: refused, raising early, killed, or done.     *)
LEMMA FinishKeeps ==
  ASSUME StoreInv, NEW t \in Tuners, NEW g \in Files \cup {None},
         tuner' = [tuner EXCEPT ![t] = Finished(tuner[t].path)],
         temp' = [temp EXCEPT ![t] = g],
         UNCHANGED <<file, former>>, starts' \in Nat, faults' \in Nat
  PROVE  StoreInv'
  <1> DEFINE r == Finished(tuner[t].path)
  <1>1. tuner[t].path \in Paths
    BY DEF StoreInv, StoreTypeOK, TunerRecord
  <1>2. r \in TunerRecord /\ r.pc = "idle"
    BY <1>1, FinishedIsRecord
  <1>3. tuner' = [tuner EXCEPT ![t] = r]
    OBVIOUS
  <1> HIDE DEF r
  <1>4. BusyTunersHold' /\ temp' \in [Tuners -> Files \cup {None}] /\ tuner' \in [Tuners -> TunerRecord]
    BY <1>2, <1>3, TunerSteps
  <1>5. QED
    BY <1>4, FilesUntouched

LEMMA TempUnchanged ==
  ASSUME StoreInv, NEW t \in Tuners, UNCHANGED temp
  PROVE  temp' = [temp EXCEPT ![t] = temp[t]] /\ temp[t] \in Files \cup {None}
  BY DEF StoreInv, StoreTypeOK

LEMMA StopKeeps ==
  ASSUME StoreInv, NEW t \in Tuners,
         MergeRefused(t) \/ CreateRaises(t) \/ Kill(t) \/ Unlink(t)
  PROVE  StoreInv'
  <1>1. /\ tuner' = [tuner EXCEPT ![t] = Finished(tuner[t].path)]
        /\ UNCHANGED <<file, former>>
        /\ starts' \in Nat /\ faults' \in Nat
    BY CountsStayNatural DEF MergeRefused, CreateRaises, Kill, Unlink
  <1>2. CASE MergeRefused(t) \/ CreateRaises(t)
    <2>1. UNCHANGED temp
      BY <1>2 DEF MergeRefused, CreateRaises
    <2>2. QED
      BY <1>1, <2>1, TempUnchanged, FinishKeeps
  <1>3. CASE Kill(t) \/ Unlink(t)
    <2>1. temp' = [temp EXCEPT ![t] = None]
      BY <1>3 DEF Kill, Unlink
    <2>2. QED
      BY <1>1, <2>1, FinishKeeps
  <1>4. QED
    BY <1>2, <1>3

LEMMA LaterSteps == \A pc \in {"created", "written", "synced", "closing"} : pc \in Steps \ {"idle"}
  BY DEF Steps

(* A save's statements before the rename, and one that raises.             *)
LEMMA AdvanceKeeps ==
  ASSUME StoreInv, NEW t \in Tuners, NEW pc \in Steps \ {"idle"}, NEW g \in Files \cup {None},
         tuner[t].job \in Jobs,
         tuner' = [tuner EXCEPT ![t].pc = pc], temp' = [temp EXCEPT ![t] = g],
         pc \in {"created", "written", "synced"} => g \in Files,
         pc \in {"written", "synced"} => g.data = Wanted(t),
         pc = "synced" => g.synced = TRUE
  PROVE  /\ BusyTunersHold'
         /\ temp' \in [Tuners -> Files \cup {None}]
         /\ tuner' \in [Tuners -> TunerRecord]
  <1> DEFINE r == [tuner[t] EXCEPT !.pc = pc]
  <1>1. tuner[t] \in TunerRecord
    BY DEF StoreInv, StoreTypeOK
  <1>2. r \in TunerRecord /\ r.pc = pc /\ r.job = tuner[t].job /\ r.base = tuner[t].base
    BY <1>1 DEF TunerRecord
  <1>3. tuner' = [tuner EXCEPT ![t] = r]
    OBVIOUS
  <1> HIDE DEF r
  <1>4. /\ r.pc # "idle" => r.job \in Jobs
        /\ r.pc \in {"created", "written", "synced"} => g \in Files
        /\ r.pc \in {"written", "synced"} => g.data = Merged(r.base, r.job)
        /\ r.pc = "synced" => g.synced = TRUE
    BY <1>2 DEF Wanted
  <1>5. QED
    BY <1>2, <1>3, <1>4, TunerSteps

LEMMA WantedIsProfile ==
  ASSUME StoreInv, NEW t \in Tuners, tuner[t].job \in Jobs
  PROVE  Wanted(t) \in Profiles /\ Wanted(t) \in Data
  <1>1. tuner[t].base \in Profiles \cup {None}
    BY DEF StoreInv, StoreTypeOK, TunerRecord
  <1>2. QED
    BY <1>1, MergedIsProfile DEF Wanted, Data

LEMMA SaveAdvances ==
  ASSUME StoreInv, NEW t \in Tuners,
         Create(t) \/ Write(t) \/ Sync(t) \/ SaveRaises(t)
  PROVE  StoreInv'
  <1>1. /\ UNCHANGED <<file, former>>
        /\ starts' \in Nat /\ faults' \in Nat
    BY CountsStayNatural DEF Create, Write, Sync, SaveRaises
  <1>2. tuner[t].job \in Jobs
    BY DEF StoreInv, BusyTunersHold, Create, Write, Sync, SaveRaises, At
  <1>3. Wanted(t) \in Data
    BY <1>2, WantedIsProfile
  <1>4. CASE Create(t)
    <2> DEFINE g == [data |-> Torn, synced |-> FALSE]
    <2>1. g \in Files
      BY DEF Files, Data
    <2>2. temp' = [temp EXCEPT ![t] = g] /\ tuner' = [tuner EXCEPT ![t].pc = "created"]
      BY <1>4 DEF Create, Goto
    <2> HIDE DEF g
    <2>3. BusyTunersHold' /\ temp' \in [Tuners -> Files \cup {None}] /\ tuner' \in [Tuners -> TunerRecord]
      BY <1>2, <2>1, <2>2, LaterSteps, AdvanceKeeps
    <2>4. QED
      BY <1>1, <2>3, FilesUntouched
  <1>5. CASE Write(t)
    <2> DEFINE g == [temp[t] EXCEPT !.data = Wanted(t)]
    <2>1. temp[t] \in Files
      BY <1>5 DEF StoreInv, BusyTunersHold, Write, At
    <2>2. g \in Files /\ g.data = Wanted(t)
      BY <1>3, <2>1 DEF Files
    <2>3. temp' = [temp EXCEPT ![t] = g] /\ tuner' = [tuner EXCEPT ![t].pc = "written"]
      BY <1>5 DEF Write, Goto, Wanted
    <2> HIDE DEF g
    <2>4. BusyTunersHold' /\ temp' \in [Tuners -> Files \cup {None}] /\ tuner' \in [Tuners -> TunerRecord]
      BY <1>2, <2>2, <2>3, LaterSteps, AdvanceKeeps
    <2>5. QED
      BY <1>1, <2>4, FilesUntouched
  <1>6. CASE Sync(t)
    <2> DEFINE g == [temp[t] EXCEPT !.synced = TRUE]
    <2>1. temp[t] \in Files /\ temp[t].data = Wanted(t)
      BY <1>6 DEF StoreInv, BusyTunersHold, Sync, At
    <2>2. g \in Files /\ g.data = Wanted(t) /\ g.synced = TRUE
      BY <2>1 DEF Files
    <2>3. temp' = [temp EXCEPT ![t] = g] /\ tuner' = [tuner EXCEPT ![t].pc = "synced"]
      BY <1>6 DEF Sync, Goto
    <2> HIDE DEF g
    <2>4. BusyTunersHold' /\ temp' \in [Tuners -> Files \cup {None}] /\ tuner' \in [Tuners -> TunerRecord]
      BY <1>2, <2>2, <2>3, LaterSteps, AdvanceKeeps
    <2>5. QED
      BY <1>1, <2>4, FilesUntouched
  <1>7. CASE SaveRaises(t)
    <2> DEFINE g == temp[t]
    <2>1. tuner' = [tuner EXCEPT ![t].pc = "closing"]
      BY <1>7 DEF SaveRaises, Goto
    <2>2. temp' = [temp EXCEPT ![t] = g]
      BY <1>7, TempUnchanged DEF SaveRaises
    <2>3. g \in Files \cup {None}
      BY DEF StoreInv, StoreTypeOK
    <2> HIDE DEF g
    <2>4. "closing" \in Steps \ {"idle"} /\ "closing" \notin {"created", "written", "synced"}
      BY DEF Steps
    <2>5. BusyTunersHold' /\ temp' \in [Tuners -> Files \cup {None}] /\ tuner' \in [Tuners -> TunerRecord]
      BY <1>2, <2>1, <2>2, <2>3, <2>4, AdvanceKeeps
    <2>6. QED
      BY <1>1, <2>5, FilesUntouched
  <1>8. QED
    BY <1>4, <1>5, <1>6, <1>7

------------------------------------------------------------------------------
(* The rename and the loss of power.                                       *)

LEMMA RenamedIsWhole ==
  ASSUME StoreInv, NEW t \in Tuners, At(t, "synced")
  PROVE  /\ temp[t] \in Files /\ Whole(temp[t])
         /\ tuner[t].job \in Jobs
         /\ temp[t].data = Wanted(t)
         /\ Wanted(t) \in Profiles
  <1>1. /\ temp[t] \in Files /\ temp[t].synced = TRUE /\ temp[t].data = Wanted(t)
        /\ tuner[t].job \in Jobs
    BY DEF StoreInv, BusyTunersHold, At
  <1>2. Wanted(t) \in Profiles
    BY <1>1, WantedIsProfile
  <1>3. QED
    BY <1>1, <1>2, ProfilesAreWhole DEF Whole

LEMMA ReplaceKeeps ==
  ASSUME StoreInv, NEW t \in Tuners, Replace(t)
  PROVE  StoreInv'
  <1> DEFINE q == tuner[t].path
             g == temp[t]
  <1>1. g \in Files /\ Whole(g) /\ tuner[t].job \in Jobs
    BY RenamedIsWhole DEF Replace
  <1>2. q \in Paths
    BY DEF StoreInv, StoreTypeOK, TunerRecord
  <1>3. /\ file' = [file EXCEPT ![q] = g]
        /\ former' = [former EXCEPT ![q] = former[q] \cup {g}]
        /\ temp' = [temp EXCEPT ![t] = None]
        /\ tuner' = [tuner EXCEPT ![t].pc = "closing"]
        /\ UNCHANGED <<starts, faults>>
    BY DEF Replace, Goto
  <1>4. BusyTunersHold' /\ temp' \in [Tuners -> Files \cup {None}] /\ tuner' \in [Tuners -> TunerRecord]
    BY <1>1, <1>3, LaterSteps, AdvanceKeeps
  <1> HIDE DEF q, g
  <1>5. /\ \A p \in Paths : file'[p] = IF p = q THEN g ELSE file[p]
        /\ \A p \in Paths : former'[p] = IF p = q THEN former[q] \cup {g} ELSE former[p]
    BY <1>2, <1>3 DEF StoreInv, StoreTypeOK
  <1>6. file' \in [Paths -> Files \cup {None}] /\ former' \in [Paths -> SUBSET (Files \cup {None})]
    BY <1>1, <1>2, <1>3 DEF StoreInv, StoreTypeOK
  <1>7. StoreTypeOK'
    BY <1>3, <1>4, <1>6 DEF StoreInv, StoreTypeOK
  <1>8. FormersWhole' /\ FileIsFormer'
    BY <1>1, <1>2, <1>5 DEF StoreInv, FormersWhole, FileIsFormer, Whole
  <1>9. QED
    BY <1>4, <1>7, <1>8 DEF StoreInv

(* A synced file is all there after a loss of power.                       *)
LEMMA SurvivorsAreFormer ==
  ASSUME StoreInv, PowerLoss
  PROVE  \A p \in Paths : file'[p] \in former[p] /\ former'[p] = {file'[p]}
  <1>1. \A p \in Paths : \E f \in former[p] : file'[p] \in Remains(f)
    BY DEF PowerLoss
  <1>2. \A p \in Paths : \A f \in former[p] : Remains(f) = {f}
    BY DEF StoreInv, FormersWhole, Whole, Remains
  <1>3. QED
    BY <1>1, <1>2 DEF PowerLoss

LEMMA PowerLossKeeps ==
  ASSUME StoreInv, PowerLoss
  PROVE  StoreInv'
  <1>1. \A p \in Paths : file'[p] \in former[p] /\ former'[p] = {file'[p]}
    BY SurvivorsAreFormer
  <1>2. FormersWhole' /\ FileIsFormer'
    BY <1>1 DEF StoreInv, FormersWhole, FileIsFormer
  <1>3. file' \in [Paths -> Files \cup {None}] /\ former' \in [Paths -> SUBSET (Files \cup {None})]
    <2>1. \A p \in Paths : file'[p] \in Files \cup {None}
      BY <1>1 DEF StoreInv, StoreTypeOK
    <2>2. file' = [p \in Paths |-> file'[p]]
      BY DEF PowerLoss
    <2>3. QED
      BY <2>1, <2>2 DEF PowerLoss
  <1>4. \A t \in Tuners : Finished(tuner[t].path) \in TunerRecord /\ Finished(tuner[t].path).pc = "idle"
    BY FinishedIsRecord DEF StoreInv, StoreTypeOK, TunerRecord
  <1>5. tuner' \in [Tuners -> TunerRecord] /\ \A t \in Tuners : tuner'[t].pc = "idle"
    BY <1>4 DEF PowerLoss
  <1>6. StoreTypeOK'
    BY <1>3, <1>5, CountsStayNatural DEF PowerLoss, StoreInv, StoreTypeOK
  <1>7. BusyTunersHold'
    BY <1>5 DEF BusyTunersHold
  <1>8. QED
    BY <1>2, <1>6, <1>7 DEF StoreInv

LEMMA StoreStep == StoreInv /\ [StoreNext]_storeVars => StoreInv'
  <1> SUFFICES ASSUME StoreInv, [StoreNext]_storeVars PROVE StoreInv'
    OBVIOUS
  <1>1. ASSUME NEW t \in Tuners, NEW p \in Paths, NEW j \in Jobs, Load(t, p, j)
        PROVE  StoreInv'
    BY <1>1, LoadKeeps
  <1>2. ASSUME NEW t \in Tuners, MergeRefused(t) \/ Kill(t)
        PROVE  StoreInv'
    BY <1>2, StopKeeps
  <1>3. ASSUME NEW t \in Tuners, Save(t)
        PROVE  StoreInv'
    BY <1>3, StopKeeps, SaveAdvances, ReplaceKeeps DEF Save
  <1>4. CASE PowerLoss
    BY <1>4, PowerLossKeeps
  <1>5. CASE UNCHANGED storeVars
    BY <1>5 DEF storeVars, StoreInv, StoreTypeOK, FormersWhole, FileIsFormer, BusyTunersHold,
       Wanted
  <1>6. QED
    BY <1>1, <1>2, <1>3, <1>4, <1>5 DEF StoreNext

(* The variables of the store are what they are said to be.                *)
THEOREM StoreTypeCorrect == StoreSpec => []StoreTypeOK
  <1>1. StoreInv => StoreTypeOK
    BY DEF StoreInv
  <1>2. QED
    BY InitStore, StoreStep, <1>1, PTL DEF StoreSpec

(* A reader never finds part of a profile.                                 *)
THEOREM ProfilesAlwaysWhole == StoreSpec => []ProfilesWhole
  <1>1. StoreInv => ProfilesWhole
    BY NoneIsNoFile DEF StoreInv, FormersWhole, FileIsFormer, Whole, ProfilesWhole, DataAt, Data
  <1>2. QED
    BY InitStore, StoreStep, <1>1, PTL DEF StoreSpec

------------------------------------------------------------------------------
(* What a save changes.                                                    *)

(* Only the rename takes a tuner from "synced" to "closing" and changes    *)
(* a file.                                                                 *)
LEMMA OnlyReplacePublishes ==
  ASSUME StoreInv, StoreNext, NEW t \in Tuners, At(t, "synced"), tuner'[t].pc = "closing",
         NEW p \in Paths, file'[p] # file[p]
  PROVE  Replace(t)
  <1>1. \A q \in Paths : Finished(q).pc = "idle"
    BY DEF Finished
  <1>2. ASSUME PowerLoss PROVE FALSE
    BY <1>1, <1>2 DEF PowerLoss, StoreInv, StoreTypeOK, TunerRecord
  <1>3. ASSUME NEW u \in Tuners, u # t, Replace(u) PROVE FALSE
    BY <1>3 DEF Replace, Goto, At, StoreInv, StoreTypeOK
  <1>4. UNCHANGED file \/ PowerLoss \/ \E u \in Tuners : Replace(u)
    BY DEF StoreNext, Save, Load, MergeRefused, Kill, Create, Write, Sync, Unlink, CreateRaises,
       SaveRaises
  <1>5. QED
    BY <1>2, <1>3, <1>4

LEMMA RenamePublishes ==
  ASSUME StoreInv, NEW t \in Tuners, Replace(t)
  PROVE  /\ tuner[t].path \in Paths
         /\ tuner'[t].path = tuner[t].path
         /\ file'[tuner[t].path] = temp[t]
         /\ temp[t] \in Files
         /\ DataAt(tuner[t].path)' = Wanted(t)
         /\ Wanted(t) \in Profiles
  <1>1. tuner[t].path \in Paths
    BY DEF StoreInv, StoreTypeOK, TunerRecord
  <1>2. file'[tuner[t].path] = temp[t] /\ tuner'[t].path = tuner[t].path
    BY <1>1 DEF Replace, Goto, StoreInv, StoreTypeOK, TunerRecord
  <1>3. temp[t] \in Files /\ temp[t].data = Wanted(t) /\ Wanted(t) \in Profiles
    BY RenamedIsWhole DEF Replace
  <1>4. DataAt(tuner[t].path)' = Wanted(t)
    BY <1>2, <1>3, NoneIsNoFile DEF DataAt
  <1>5. QED
    BY <1>1, <1>2, <1>3, <1>4

(* A save nothing overlapped keeps the other workloads' entries.           *)
THEOREM OthersAlwaysKept == StoreSpec => OthersKept
  <1> DEFINE kept(t) ==
        LET p == tuner[t].path IN
        /\ DataAt(p)' \in Profiles
        /\ \A w \in Workloads \ {tuner[t].job.workload} :
             file'[p].data.entries[w] = IF DataAt(p) = None THEN None ELSE DataAt(p).entries[w]
      keeps == \A t \in Tuners :
        /\ At(t, "synced")
        /\ tuner'[t].pc = "closing"
        /\ DataAt(tuner[t].path) = tuner[t].base
        /\ file'[tuner[t].path] # file[tuner[t].path]
        => kept(t)
  <1>1. ASSUME StoreInv, StoreNext PROVE keeps
    <2> SUFFICES ASSUME NEW t \in Tuners, At(t, "synced"), tuner'[t].pc = "closing",
                        DataAt(tuner[t].path) = tuner[t].base,
                        file'[tuner[t].path] # file[tuner[t].path]
                 PROVE  kept(t)
      OBVIOUS
    <2>1. tuner[t].path \in Paths
      BY <1>1 DEF StoreInv, StoreTypeOK, TunerRecord
    <2>2. Replace(t)
      BY <1>1, <2>1, OnlyReplacePublishes
    <2>3. /\ file'[tuner[t].path].data = Wanted(t)
          /\ DataAt(tuner[t].path)' \in Profiles
      BY <1>1, <2>2, RenamePublishes, RenamedIsWhole DEF Replace
    <2>4. \A w \in Workloads \ {tuner[t].job.workload} :
            Wanted(t).entries[w] = IF tuner[t].base = None THEN None ELSE tuner[t].base.entries[w]
      BY DEF Wanted, Merged
    <2>5. QED
      BY <2>3, <2>4
  <1>2. StoreInv /\ [StoreNext]_storeVars => [keeps]_storeVars
    BY <1>1
  <1>3. QED
    BY InitStore, StoreStep, <1>2, PTL DEF StoreSpec, OthersKept

------------------------------------------------------------------------------
(* Saves are atomic: every step is one of AtomicProfile, or changes        *)
(* nothing it can see.                                                     *)

Content == [p \in Paths |-> DataAt(p)]

Survivors == [p \in Paths |-> {DataOf(f) : f \in former[p]}]

LEMMA ReadersFindContents ==
  ASSUME StoreInv
  PROVE  Content \in [Paths -> Contents]
  <1>1. \A p \in Paths : DataAt(p) \in Contents
    BY NoneIsNoFile
    DEF StoreInv, FormersWhole, FileIsFormer, Whole, DataAt, Contents, Files
  <1>2. QED
    BY <1>1 DEF Content

LEMMA AtomicInit == StoreInit => Content \in [Paths -> Contents] /\ Survivors = [p \in Paths |-> {Content[p]}]
  <1> SUFFICES ASSUME StoreInit
               PROVE  Content \in [Paths -> Contents] /\ Survivors = [p \in Paths |-> {Content[p]}]
    OBVIOUS
  <1>1. Content \in [Paths -> Contents]
    BY InitStore, ReadersFindContents
  <1>2. \A p \in Paths : former[p] = {file[p]}
    BY DEF StoreInit
  <1>3. \A p \in Paths : {DataOf(f) : f \in former[p]} = {DataAt(p)}
    BY <1>2 DEF DataOf, DataAt
  <1>4. QED
    BY <1>1, <1>3 DEF Content, Survivors

LEMMA AtomicReplace ==
  ASSUME StoreInv, NEW t \in Tuners, Replace(t)
  PROVE  \E p \in Paths, c \in Contents :
           /\ Content' = [Content EXCEPT ![p] = c]
           /\ Survivors' = [Survivors EXCEPT ![p] = Survivors[p] \cup {c}]
  <1> DEFINE q == tuner[t].path
             g == temp[t]
             c == g.data
  <1>1. q \in Paths /\ g \in Files /\ Whole(g) /\ g # None
    BY RenamedIsWhole, RenamePublishes, NoneIsNoFile DEF Replace
  <1>2. file' = [file EXCEPT ![q] = g] /\ former' = [former EXCEPT ![q] = former[q] \cup {g}]
    BY DEF Replace
  <1> HIDE DEF q, g
  <1>3. c \in Contents
    BY <1>1 DEF Contents, Whole, Files
  <1>4. \A p \in Paths : DataAt(p)' = IF p = q THEN c ELSE DataAt(p)
    BY <1>1, <1>2 DEF DataAt, StoreInv, StoreTypeOK
  <1>5. \A p \in Paths : former'[p] = IF p = q THEN former[q] \cup {g} ELSE former[p]
    BY <1>1, <1>2 DEF StoreInv, StoreTypeOK
  <1>6. DataOf(g) = c
    BY <1>1 DEF DataOf
  <1>7. \A p \in Paths :
          {DataOf(f) : f \in former'[p]}
            = IF p = q THEN {DataOf(f) : f \in former[q]} \cup {c} ELSE {DataOf(f) : f \in former[p]}
    BY <1>5, <1>6
  <1>8. Content' = [Content EXCEPT ![q] = c]
    BY <1>1, <1>4 DEF Content
  <1>9. Survivors' = [Survivors EXCEPT ![q] = Survivors[q] \cup {c}]
    BY <1>1, <1>7 DEF Survivors
  <1>10. QED
    BY <1>1, <1>3, <1>8, <1>9

LEMMA AtomicPowerLoss ==
  ASSUME StoreInv, PowerLoss
  PROVE  /\ Content' \in [Paths -> Contents]
         /\ \A p \in Paths : Content'[p] \in Survivors[p]
         /\ Survivors' = [p \in Paths |-> {Content'[p]}]
  <1>1. \A p \in Paths : file'[p] \in former[p] /\ former'[p] = {file'[p]}
    BY SurvivorsAreFormer
  <1>2. \A p \in Paths : DataAt(p)' = DataOf(file'[p])
    BY DEF DataAt, DataOf
  <1>3. Content' \in [Paths -> Contents]
    <2>1. \A p \in Paths : file'[p] \in Files \cup {None} /\ Whole(file'[p])
      BY <1>1 DEF StoreInv, StoreTypeOK, FormersWhole
    <2>2. \A p \in Paths : DataOf(file'[p]) \in Contents
      BY <2>1 DEF Whole, DataOf, Contents, Files
    <2>3. QED
      BY <1>2, <2>2 DEF Content
  <1>4. \A p \in Paths : Content'[p] = DataOf(file'[p])
    BY <1>2 DEF Content
  <1>5. \A p \in Paths : Content'[p] \in Survivors[p]
    BY <1>1, <1>4 DEF Survivors
  <1>6. \A p \in Paths : {DataOf(f) : f \in former'[p]} = {Content'[p]}
    BY <1>1, <1>4
  <1>7. QED
    BY <1>3, <1>5, <1>6 DEF Survivors

LEMMA StoreImplementsStep ==
  StoreInv /\ [StoreNext]_storeVars => [Atomic!Next]_(Atomic!vars)
  <1> SUFFICES ASSUME StoreInv, [StoreNext]_storeVars PROVE [Atomic!Next]_(Atomic!vars)
    OBVIOUS
  <1>1. ASSUME NEW t \in Tuners, Replace(t) PROVE Atomic!Next
    BY <1>1, AtomicReplace DEF Atomic!Next, Atomic!Publish, Content, Survivors
  <1>2. ASSUME PowerLoss PROVE Atomic!Next
    BY <1>2, AtomicPowerLoss DEF Atomic!Next, Atomic!LosePower, Content, Survivors
  <1>3. ASSUME UNCHANGED <<file, former>> PROVE UNCHANGED Atomic!vars
    BY <1>3 DEF Atomic!vars, DataAt
  <1>4. UNCHANGED <<file, former>> \/ PowerLoss \/ \E t \in Tuners : Replace(t)
    BY DEF StoreNext, Save, Load, MergeRefused, Kill, Create, Write, Sync, Unlink, CreateRaises,
       SaveRaises, storeVars
  <1>5. QED
    BY <1>1, <1>2, <1>3, <1>4

(* save_profile keeps the promise of AtomicProfile.                        *)
THEOREM SavesAreAtomic == StoreSpec => SavesAtomically
  <1>1. StoreInit => Atomic!Init
    BY AtomicInit DEF Atomic!Init, Content, Survivors
  <1>2. QED
    BY InitStore, StoreStep, <1>1, StoreImplementsStep, PTL
    DEF StoreSpec, SavesAtomically, Atomic!Spec

------------------------------------------------------------------------------
(***************************************************************************)
(* What a layer launches, for any registry, profile files, devices and     *)
(* workloads. The inductive invariant says what the memos hold: one of     *)
(* _resolve_kernel_config holds what the registry says of its own device,  *)
(* and the autotuner's what its pruned candidates allow the workload of    *)
(* its key; and that nothing was launched before the registry was whole.   *)
(***************************************************************************)

(* The fields of a layer, and the keys of its memo.                        *)
LayerShaped ==
  /\ layer = [options |-> layer.options, phase |-> layer.phase, todo |-> layer.todo,
              registry |-> layer.registry, resolved |-> layer.resolved, failed |-> layer.failed]
  /\ layer.resolved = [d \in Devices |-> [w \in Workloads |-> layer.resolved[d][w]]]

NothingLaunchedYet == layer.phase # "ready" => layer.resolved = Nowhere /\ last = NoLaunch

MemosOfOwnDevice ==
  \A d \in Devices, w \in Workloads : layer.resolved[d][w] \in {Absent, Lookup(d, w)}

TunedFromPruned ==
  /\ tuned = [k \in Keys |-> tuned[k]]
  /\ \A w \in Workloads :
       tuned[AutotuneKey(w)] # Absent =>
         tuned[AutotuneKey(w)] \in Pruned(layer.options.candidates, w)

LastFromPruned ==
  last.how = "tuned" =>
    last.workload \in Workloads /\ last.config \in Pruned(layer.options.candidates, last.workload)

(* The layer remembers the workloads that failed, on whatever device.      *)
FailedAreRemembered ==
  layer.failed = {w \in Workloads : \E d \in Devices : <<d, w>> \in failures}

PolicyInv ==
  /\ LayerShaped
  /\ FailedAreRemembered
  /\ NothingLaunchedYet
  /\ MemosOfOwnDevice
  /\ ProfilesDecide
  /\ ProfileOnlyNeverTunes
  /\ TunedFromPruned
  /\ LastFromPruned

------------------------------------------------------------------------------

LEMMA CallsHaveWorkloads == \A c \in Calls : WorkloadOf(c) \in Workloads
  BY PolicyAssumption

LEMMA WorkloadsAreRecords ==
  \A w \in Workloads : w \in [regime : Nat, headDim : {32, 64, 128}, fp32 : BOOLEAN]
  BY PolicyAssumption

LEMMA KeysOfWorkloads == \A w \in Workloads : AutotuneKey(w) \in Keys
  BY DEF AutotuneKey, Keys

(* The autotuner's key tells the workloads apart.                          *)
LEMMA KeysDistinguish ==
  \A v, w \in Workloads : AutotuneKey(v) = AutotuneKey(w) => v = w
  BY WorkloadsAreRecords DEF AutotuneKey

LEMMA InitPolicy == Init => PolicyInv
  <1> SUFFICES ASSUME Init PROVE PolicyInv
    OBVIOUS
  <1>1. PICK o \in Options :
          layer = [options |-> o, phase |-> "explicit", todo |-> o.explicit, registry |-> <<>>,
                   resolved |-> Nowhere, failed |-> {}]
    BY DEF Init, LayerInit
  <1>2. tuned = [k \in Keys |-> Absent] /\ last = NoLaunch /\ failures = {}
    BY DEF Init, LayerInit
  <1>3. LayerShaped
    BY <1>1 DEF LayerShaped, Nowhere
  <1>4. NothingLaunchedYet
    BY <1>1, <1>2 DEF NothingLaunchedYet
  <1>5. MemosOfOwnDevice
    BY <1>1 DEF MemosOfOwnDevice, Nowhere
  <1>6. ProfilesDecide /\ ProfileOnlyNeverTunes /\ LastFromPruned
    BY <1>2 DEF ProfilesDecide, ProfileOnlyNeverTunes, LastFromPruned, NoLaunch
  <1>7. TunedFromPruned
    BY <1>2, KeysOfWorkloads DEF TunedFromPruned
  <1>8. FailedAreRemembered
    BY <1>1, <1>2 DEF FailedAreRemembered
  <1>9. QED
    BY <1>3, <1>4, <1>5, <1>6, <1>7, <1>8 DEF PolicyInv

(* Building the layer: no memo, no launch.                                 *)
LEMMA BuildKeeps ==
  ASSUME PolicyInv, BuildLayer
  PROVE  PolicyInv'
  <1>1. /\ layer.phase # "ready"
        /\ UNCHANGED <<tuned, last, failures>>
        /\ layer'.options = layer.options
        /\ layer'.resolved = layer.resolved
        /\ layer'.failed = layer.failed
        /\ LayerShaped'
    <2> USE DEF PolicyInv, LayerShaped
    <2>1. CASE BuildWithoutProfiles
      BY <2>1 DEF BuildWithoutProfiles
    <2>2. CASE LoadExplicit
      BY <2>2 DEF LoadExplicit, Building
    <2>3. CASE ListUserProfiles
      <3> DEFINE todo == IF layer.options.user
                         THEN SelectSeq(UserPaths, LAMBDA p : file[p] # None) ELSE <<>>
      <3>1. layer.phase = "explicit" /\ layer' = [layer EXCEPT !.phase = "user", !.todo = todo]
            /\ UNCHANGED <<tuned, last, failures>>
        BY <2>3 DEF ListUserProfiles, Building
      <3> HIDE DEF todo
      <3>2. QED
        BY <3>1
    <2>4. CASE LoadUser
      BY <2>4 DEF LoadUser, Building
    <2>5. CASE AddBundled
      BY <2>5 DEF AddBundled, Building
    <2>6. QED
      BY <2>1, <2>2, <2>3, <2>4, <2>5 DEF BuildLayer
  <1>2. layer.resolved = Nowhere /\ last = NoLaunch
    BY <1>1 DEF PolicyInv, NothingLaunchedYet
  <1>3. NothingLaunchedYet'
    BY <1>1, <1>2 DEF NothingLaunchedYet, Nowhere, NoLaunch
  <1>4. MemosOfOwnDevice'
    BY <1>1, <1>2 DEF MemosOfOwnDevice, Nowhere
  <1>5. ProfilesDecide'
    BY <1>1, <1>2 DEF ProfilesDecide, NoLaunch
  <1>6. ProfileOnlyNeverTunes' /\ LastFromPruned' /\ TunedFromPruned'
    BY <1>1 DEF PolicyInv, ProfileOnlyNeverTunes, Mode, LastFromPruned, TunedFromPruned
  <1>7. FailedAreRemembered'
    BY <1>1 DEF PolicyInv, FailedAreRemembered
  <1>8. QED
    BY <1>1, <1>3, <1>4, <1>5, <1>6, <1>7 DEF PolicyInv

------------------------------------------------------------------------------
(* Launches.                                                               *)

LEMMA LookupFromRegistry ==
  ASSUME layer'.registry = layer.registry, NEW d, NEW w
  PROVE  Lookup(d, w)' = Lookup(d, w)
  BY DEF Lookup, Matches

LEMMA MemoIsLookup ==
  ASSUME PolicyInv, NEW d \in Devices, NEW w \in Workloads
  PROVE  Memo(d, w) = Lookup(d, w)
  BY DEF PolicyInv, MemosOfOwnDevice, Memo

LEMMA ResolvedIsLookup ==
  ASSUME PolicyInv, NEW d \in Devices, NEW w \in Workloads, NEW compiling \in BOOLEAN, UsesProfiles
  PROVE  /\ Resolved(d, w, compiling) # None => Resolved(d, w, compiling) = Lookup(d, w)
         /\ ~compiling => Resolved(d, w, compiling) = IF w \in layer.failed THEN None ELSE Lookup(d, w)
  BY MemoIsLookup DEF Resolved, Consults, UsesProfiles

(* What every launch does to the layer.                                    *)
LEMMA MemoKeeps ==
  ASSUME PolicyInv, NEW d \in Devices, NEW w \in Workloads, NEW compiling \in BOOLEAN,
         layer.phase = "ready",
         \/ layer' = Memoized(d, w, compiling)
         \/ layer' = Remembered(Memoized(d, w, compiling), w)
  PROVE  /\ LayerShaped'
         /\ NothingLaunchedYet'
         /\ MemosOfOwnDevice'
         /\ layer'.options = layer.options
         /\ layer'.registry = layer.registry
  <1>1. /\ layer' = [options |-> layer'.options, phase |-> layer'.phase, todo |-> layer'.todo,
                     registry |-> layer'.registry, resolved |-> layer'.resolved,
                     failed |-> layer'.failed]
        /\ layer'.options = layer.options
        /\ layer'.registry = layer.registry
        /\ layer'.phase = "ready"
    BY DEF PolicyInv, LayerShaped, Memoized, Remembered
  <1>2. \/ layer'.resolved = layer.resolved
        \/ layer'.resolved = [layer.resolved EXCEPT ![d][w] = Lookup(d, w)]
    BY MemoIsLookup DEF PolicyInv, LayerShaped, Memoized, Remembered
  <1>3. layer'.resolved = [e \in Devices |-> [v \in Workloads |-> layer'.resolved[e][v]]]
    <2> DEFINE old == layer.resolved
               new == layer'.resolved
    <2>1. /\ old = [e \in Devices |-> [v \in Workloads |-> old[e][v]]]
          /\ new = old \/ new = [old EXCEPT ![d][w] = Lookup(d, w)]
      BY <1>2 DEF PolicyInv, LayerShaped
    <2> HIDE DEF old, new
    <2>2. new = [e \in Devices |-> new[e]]
      BY <2>1
    <2>3. \A e \in Devices : old[e] = [v \in Workloads |-> old[e][v]]
      BY <2>1
    <2>4. \A e \in Devices : new[e] = old[e] \/ new[e] = [old[e] EXCEPT ![w] = Lookup(d, w)]
      BY <2>1
    <2>5. \A e \in Devices : new[e] = [v \in Workloads |-> new[e][v]]
      BY <2>3, <2>4
    <2>6. new = [e \in Devices |-> [v \in Workloads |-> new[e][v]]]
      BY <2>2, <2>5
    <2>7. QED
      BY <2>6 DEF new
  <1>4. \A e \in Devices, v \in Workloads : Lookup(e, v)' = Lookup(e, v)
    BY <1>1, LookupFromRegistry
  <1>5. \A e \in Devices, v \in Workloads :
          \/ layer'.resolved[e][v] = layer.resolved[e][v]
          \/ e = d /\ v = w /\ layer'.resolved[e][v] = Lookup(d, w)
    BY <1>2 DEF PolicyInv, LayerShaped
  <1>6. MemosOfOwnDevice'
    BY <1>4, <1>5 DEF PolicyInv, MemosOfOwnDevice
  <1>7. QED
    BY <1>1, <1>3, <1>6 DEF LayerShaped, NothingLaunchedYet

(* What the autotuner returns, and keeps.                                  *)
LEMMA AutotuneKeeps ==
  ASSUME PolicyInv, NEW w \in Workloads, NEW c, Autotune(w, c),
         layer'.options = layer.options
  PROVE  TunedFromPruned' /\ c \in Pruned(layer.options.candidates, w)
  <1>1. CASE tuned[AutotuneKey(w)] # Absent
    BY <1>1 DEF Autotune, PolicyInv, TunedFromPruned
  <1>2. CASE tuned[AutotuneKey(w)] = Absent
    <2>1. /\ c \in Pruned(layer.options.candidates, w)
          /\ tuned' = [tuned EXCEPT ![AutotuneKey(w)] = c]
      BY <1>2 DEF Autotune
    <2>2. \A v \in Workloads :
            tuned'[AutotuneKey(v)] = IF v = w THEN c ELSE tuned[AutotuneKey(v)]
      BY <2>1, KeysOfWorkloads, KeysDistinguish DEF PolicyInv, TunedFromPruned
    <2>3. tuned' = [k \in Keys |-> tuned'[k]]
      BY <2>1 DEF PolicyInv, TunedFromPruned
    <2>4. QED
      BY <2>1, <2>2, <2>3 DEF PolicyInv, TunedFromPruned
  <1>3. QED
    BY <1>1, <1>2

(* A failure enters the layer's memo with the history, or neither changes. *)
LEMMA FailuresKeep ==
  ASSUME PolicyInv, NEW d \in Devices, NEW w \in Workloads, NEW compiling \in BOOLEAN,
         \/ layer' = Memoized(d, w, compiling) /\ UNCHANGED failures
         \/ /\ layer' = Remembered(Memoized(d, w, compiling), w)
            /\ failures' = failures \cup {<<d, w>>}
  PROVE  FailedAreRemembered'
  <1> DEFINE memoized == Memoized(d, w, compiling)
  <1>1. /\ memoized.failed = layer.failed
        /\ Remembered(memoized, w).failed = layer.failed \cup {w}
    BY DEF PolicyInv, LayerShaped, Memoized, Remembered
  <1>2. CASE layer' = memoized /\ UNCHANGED failures
    BY <1>1, <1>2 DEF PolicyInv, FailedAreRemembered
  <1>3. CASE layer' = Remembered(memoized, w) /\ failures' = failures \cup {<<d, w>>}
    <2> HIDE DEF memoized
    <2>1. layer'.failed = layer.failed \cup {w}
      BY <1>1, <1>3
    <2>2. \A v \in Workloads :
            (\E e \in Devices : <<e, v>> \in failures')
              <=> v = w \/ \E e \in Devices : <<e, v>> \in failures
      BY <1>3
    <2>3. QED
      BY <2>1, <2>2 DEF PolicyInv, FailedAreRemembered
  <1>4. QED
    BY <1>2, <1>3

LEMMA LaunchKeeps ==
  ASSUME PolicyInv, NEW d \in Devices, NEW w \in Workloads, NEW compiling \in BOOLEAN,
         NEW how \in {"direct", "tuned", "raised"}, NEW c,
         layer.phase = "ready",
         \/ layer' = Memoized(d, w, compiling) /\ UNCHANGED failures
         \/ /\ layer' = Remembered(Memoized(d, w, compiling), w)
            /\ failures' = failures \cup {<<d, w>>},
         NEW tried, tried \in {None, Resolved(d, w, compiling)},
         Record(d, w, compiling, tried, how, c),
         how = "direct" => c = tried,
         how = "tuned" => Mode # "profile_only" /\ Autotune(w, c),
         how # "tuned" => UNCHANGED tuned
  PROVE  PolicyInv'
  <1>1. /\ LayerShaped' /\ NothingLaunchedYet' /\ MemosOfOwnDevice'
        /\ layer'.options = layer.options
        /\ layer'.registry = layer.registry
    BY MemoKeeps
  <1>2. last' = [device |-> d, workload |-> w, compiling |-> compiling, tried |-> tried,
                 how |-> how, config |-> c]
    BY DEF Record
  <1>3. ProfilesDecide'
    <2> SUFFICES ASSUME UsesProfiles, tried # None
                 PROVE  tried = Lookup(d, w) /\ (how = "direct" => c = tried)
      BY <1>1, <1>2, LookupFromRegistry DEF ProfilesDecide, UsesProfiles, Mode
    <2>1. QED
      BY ResolvedIsLookup
  <1>4. ProfileOnlyNeverTunes'
    BY <1>1, <1>2 DEF PolicyInv, ProfileOnlyNeverTunes, Mode
  <1>5. TunedFromPruned' /\ LastFromPruned'
    <2>1. CASE how = "tuned"
      BY <1>1, <1>2, <2>1, AutotuneKeeps DEF LastFromPruned
    <2>2. CASE how # "tuned"
      BY <1>1, <1>2, <2>2 DEF PolicyInv, TunedFromPruned, LastFromPruned
    <2>3. QED
      BY <2>1, <2>2
  <1>6. FailedAreRemembered'
    BY FailuresKeep
  <1>7. QED
    BY <1>1, <1>3, <1>4, <1>5, <1>6 DEF PolicyInv

LEMMA EveryLaunchKeeps ==
  ASSUME PolicyInv, NEW d \in Devices, NEW w \in Workloads, Launch(d, w)
  PROVE  PolicyInv'
  <1>1. PICK compiling \in BOOLEAN :
          \/ LaunchDirect(d, w, compiling)
          \/ LaunchRefused(d, w, compiling)
          \/ \E c \in Configs : LaunchTuned(d, w, compiling, c) \/ LaunchFallsBack(d, w, compiling, c)
    BY DEF Launch
  <1>2. CASE LaunchDirect(d, w, compiling)
    BY <1>2, LaunchKeeps DEF LaunchDirect
  <1>3. CASE LaunchRefused(d, w, compiling)
    BY <1>3, LaunchKeeps DEF LaunchRefused
  <1>4. ASSUME NEW c \in Configs, LaunchTuned(d, w, compiling, c) PROVE PolicyInv'
    BY <1>4, LaunchKeeps DEF LaunchTuned
  <1>5. ASSUME NEW c \in Configs, LaunchFallsBack(d, w, compiling, c) PROVE PolicyInv'
    BY <1>5, LaunchKeeps DEF LaunchFallsBack, FallsBack
  <1>6. QED
    BY <1>1, <1>2, <1>3, <1>4, <1>5

LEMMA ClearKeeps ==
  ASSUME PolicyInv, ClearLaunchMemos
  PROVE  PolicyInv'
  <1>1. /\ layer.phase = "ready" /\ failures' = {} /\ UNCHANGED <<tuned, last>>
        /\ layer' = [layer EXCEPT !.resolved = Nowhere, !.failed = {}]
    BY DEF ClearLaunchMemos, ClearedMemos
  <1>2. /\ layer'.options = layer.options /\ layer'.registry = layer.registry
        /\ layer'.phase = "ready" /\ layer'.resolved = Nowhere /\ layer'.failed = {}
        /\ LayerShaped'
    BY <1>1 DEF PolicyInv, LayerShaped, Nowhere
  <1>3. NothingLaunchedYet' /\ MemosOfOwnDevice'
    BY <1>2 DEF NothingLaunchedYet, MemosOfOwnDevice, Nowhere
  <1>4. ProfilesDecide'
    BY <1>1, <1>2, LookupFromRegistry DEF PolicyInv, ProfilesDecide, UsesProfiles, Mode
  <1>5. ProfileOnlyNeverTunes' /\ TunedFromPruned' /\ LastFromPruned'
    BY <1>1, <1>2 DEF PolicyInv, ProfileOnlyNeverTunes, Mode, TunedFromPruned, LastFromPruned
  <1>6. FailedAreRemembered'
    BY <1>1, <1>2 DEF FailedAreRemembered
  <1>7. QED
    BY <1>2, <1>3, <1>4, <1>5, <1>6 DEF PolicyInv

LEMMA PolicyStutters ==
  ASSUME PolicyInv, UNCHANGED layerVars
  PROVE  PolicyInv'
  <1>1. \A d, w : Lookup(d, w)' = Lookup(d, w)
    BY DEF layerVars, Lookup, Matches
  <1>2. QED
    BY <1>1 DEF layerVars, PolicyInv, LayerShaped, NothingLaunchedYet, MemosOfOwnDevice,
       FailedAreRemembered, ProfilesDecide, ProfileOnlyNeverTunes, TunedFromPruned, LastFromPruned,
       UsesProfiles, Mode

LEMMA PolicyStep == PolicyInv /\ [Next]_vars => PolicyInv'
  <1> SUFFICES ASSUME PolicyInv, [Next]_vars PROVE PolicyInv'
    OBVIOUS
  <1>1. CASE UNCHANGED layerVars
    BY <1>1, PolicyStutters
  <1>2. CASE BuildLayer
    BY <1>2, BuildKeeps
  <1>3. CASE ClearLaunchMemos
    BY <1>3, ClearKeeps
  <1>4. ASSUME NEW d \in Devices, NEW c \in Calls, Launch(d, WorkloadOf(c)) PROVE PolicyInv'
    BY <1>4, CallsHaveWorkloads, EveryLaunchKeeps
  <1>5. QED
    BY <1>1, <1>2, <1>3, <1>4 DEF Next, LayerNext, vars

------------------------------------------------------------------------------
(* What follows.                                                           *)

(* A direct launch is the registry's for that very device.                 *)
THEOREM ProfilesAlwaysDecide == Spec => []ProfilesDecide
  <1>1. PolicyInv => ProfilesDecide
    BY DEF PolicyInv
  <1>2. QED
    BY InitPolicy, PolicyStep, <1>1, PTL DEF Spec

(* profile_only never autotunes.                                           *)
THEOREM ProfileOnlyNeverAutotunes == Spec => []ProfileOnlyNeverTunes
  <1>1. PolicyInv => ProfileOnlyNeverTunes
    BY DEF PolicyInv
  <1>2. QED
    BY InitPolicy, PolicyStep, <1>1, PTL DEF Spec

LEMMA AllowedAreLight ==
  ASSUME NEW w \in Workloads, NEW c \in Allowed(w)
  PROVE  Light(c, w)
  BY WorkloadsAreRecords DEF Allowed, Shapes, Light

(* What the autotuner launches is within the family of the workload.       *)
THEOREM TunedAlwaysLight == Spec => []TunedLaunchesLight
  <1>1. PolicyInv => TunedLaunchesLight
    <2> SUFFICES ASSUME PolicyInv, last.how = "tuned",
                        NEW b \in ToSet(layer.options.candidates), b \in Allowed(last.workload)
                 PROVE  Light(last.config, last.workload)
      BY DEF TunedLaunchesLight
    <2>1. last.workload \in Workloads
      BY DEF PolicyInv, LastFromPruned
    <2>2. last.config \in Allowed(last.workload)
      BY DEF PolicyInv, LastFromPruned, Pruned
    <2>3. QED
      BY <2>1, <2>2, AllowedAreLight
  <1>2. QED
    BY InitPolicy, PolicyStep, <1>1, PTL DEF Spec

(* The store runs by itself beneath the layers, so its theorems hold here. *)
THEOREM StoreBeneathLayers == Spec => StoreSpec
  <1>1. Init => StoreInit
    BY DEF Init
  <1>2. [Next]_vars => [StoreNext]_storeVars
    BY DEF Next, vars
  <1>3. QED
    BY <1>1, <1>2, PTL DEF Spec, StoreSpec

(* A launch tries what the registry says unless a direct launch of the     *)
(* workload has raised since the memos were cleared: the memo of failures  *)
(* is exactly the history of them.                                         *)
THEOREM FailuresAlwaysRemembered == Spec => FailureRemembered
  <1> DEFINE decided ==
        Mode = "auto" /\ last' # last /\ ~last'.compiling =>
          (last'.tried # None <=>
             /\ Lookup(last'.device, last'.workload) # None
             /\ \A d \in Devices : <<d, last'.workload>> \notin failures)
  <1>1. ASSUME PolicyInv, NEW d \in Devices, NEW w \in Workloads, Launch(d, w), Mode = "auto",
               ~last'.compiling
        PROVE  last'.tried # None <=>
                 Lookup(d, w) # None /\ \A e \in Devices : <<e, w>> \notin failures
    <2>1. PICK compiling \in BOOLEAN :
            \/ LaunchDirect(d, w, compiling)
            \/ LaunchRefused(d, w, compiling)
            \/ \E c \in Configs : LaunchTuned(d, w, compiling, c) \/ LaunchFallsBack(d, w, compiling, c)
      BY <1>1 DEF Launch
    <2>2. last'.tried = Resolved(d, w, compiling) /\ last'.compiling = compiling
      BY <1>1, <2>1 DEF LaunchDirect, LaunchRefused, LaunchTuned, LaunchFallsBack, Record
    <2>3. last'.tried # None <=> Lookup(d, w) # None /\ w \notin layer.failed
      BY <1>1, <2>2, ResolvedIsLookup DEF UsesProfiles
    <2>4. QED
      BY <1>1, <2>3 DEF PolicyInv, FailedAreRemembered
  <1>2. ASSUME NEW d \in Devices, NEW w \in Workloads, Launch(d, w)
        PROVE  last'.device = d /\ last'.workload = w
    BY <1>2 DEF Launch, LaunchDirect, LaunchRefused, LaunchTuned, LaunchFallsBack, Record
  <1>3. ASSUME PolicyInv, Next PROVE decided
    <2>1. CASE UNCHANGED layerVars
      BY <2>1 DEF layerVars
    <2>2. CASE BuildLayer \/ ClearLaunchMemos
      BY <2>2 DEF BuildLayer, BuildWithoutProfiles, LoadExplicit, ListUserProfiles, LoadUser,
         AddBundled, ClearLaunchMemos
    <2>3. ASSUME NEW d \in Devices, NEW c \in Calls, Launch(d, WorkloadOf(c)) PROVE decided
      BY <1>1, <1>2, <1>3, <2>3, CallsHaveWorkloads
    <2>4. QED
      BY <1>3, <2>1, <2>2, <2>3 DEF Next, LayerNext
  <1>4. PolicyInv /\ [Next]_vars => [decided]_vars
    BY <1>3
  <1>5. QED
    BY InitPolicy, PolicyStep, <1>4, PTL DEF Spec, FailureRemembered
==============================================================================
