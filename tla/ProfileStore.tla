----------------------------- MODULE ProfileStore -----------------------------
(***************************************************************************)
(* The profile files of tuning.py, and the processes that tune: each loads *)
(* the profile at a path, measures a workload, merges the entry            *)
(* (merge_profile_entry) and saves the profile (save_profile). The         *)
(* statements of save_profile are steps, any of which may raise; a process *)
(* may be killed between two of them, and the power may fail.              *)
(*                                                                         *)
(* A file holds one datum. Its bytes survive a loss of power if they were  *)
(* synced; the directory is not synced, so after a loss a path may hold    *)
(* again anything it held since the last one. A temporary file has a fresh *)
(* random name that ends in .tmp: who is killed leaves one behind that     *)
(* nobody opens again, since readers look for *.json.                      *)
(***************************************************************************)
EXTENDS Naturals, FiniteSets

CONSTANTS
  Paths,         \* the profile files
  Tuners,        \* the processes that tune
  Machines,      \* HardwareSpec and CompilerSpec
  Workloads,     \* WorkloadKey
  Entries,       \* what is measured of a workload
  Jobs,          \* the measurements made: machine, workload, entry
  InitialFiles,  \* the data found at a path at first
  None,
  Torn,          \* data that does not parse
  Incompatible,  \* data of another format, or of another version of the kernel
  MaxStarts,     \* bound on the jobs taken
  MaxFaults      \* bound on failures, kills and losses of power

Profiles == [machine : Machines, entries : [Workloads -> Entries \cup {None}]]

Data == Profiles \cup {Torn, Incompatible}

Files == [data : Data, synced : BOOLEAN]

ASSUME StoreAssumption ==
  /\ Jobs \subseteq [machine : Machines, workload : Workloads, entry : Entries]
  /\ InitialFiles \subseteq (Data \ {Torn}) \cup {None}
  /\ None \notin Entries \cup Data \cup Files \cup Jobs
  /\ Torn \notin Profiles \cup {Incompatible}
  /\ Incompatible \notin Profiles
  /\ MaxStarts \in Nat
  /\ MaxFaults \in Nat

VARIABLES
  file,    \* the file at a path, or None
  former,  \* the files a path has held since the power last failed
  temp,    \* the temporary file of a tuner's save, or None
  tuner,   \* where a tuner is, and its locals
  starts,
  faults

storeVars == <<file, former, temp, tuner, starts, faults>>

Steps == {"idle", "loaded", "created", "written", "synced", "closing"}

TunerRecord ==
  [pc : Steps, path : Paths, job : Jobs \cup {None}, base : Profiles \cup {None}]

StoreTypeOK ==
  /\ file \in [Paths -> Files \cup {None}]
  /\ former \in [Paths -> SUBSET (Files \cup {None})]
  /\ temp \in [Tuners -> Files \cup {None}]
  /\ tuner \in [Tuners -> TunerRecord]
  /\ starts \in Nat
  /\ faults \in Nat

------------------------------------------------------------------------------

OnDisk(d) == IF d = None THEN None ELSE [data |-> d, synced |-> TRUE]

StoreInit ==
  /\ \E found \in [Paths -> InitialFiles] :
       /\ file = [p \in Paths |-> OnDisk(found[p])]
       /\ former = [p \in Paths |-> {OnDisk(found[p])}]
  /\ temp = [t \in Tuners |-> None]
  /\ \E p \in Paths :
       tuner = [t \in Tuners |-> [pc |-> "idle", path |-> p, job |-> None, base |-> None]]
  /\ starts = 0
  /\ faults = 0

DataAt(p) == IF file[p] = None THEN None ELSE file[p].data

(* load_profile raises for anything but a profile.                         *)
Loads(p) == DataAt(p) \in Profiles

Fault == faults < MaxFaults /\ faults' = faults + 1

At(t, pc) == tuner[t].pc = pc

Goto(t, pc) == tuner' = [tuner EXCEPT ![t].pc = pc]

Finished(p) == [pc |-> "idle", path |-> p, job |-> None, base |-> None]

\* a slip: whatever is there is taken for a profile
LoadUnchecked(t, p, j) ==
  /\ At(t, "idle")
  /\ starts < MaxStarts
  /\ tuner' = [tuner EXCEPT ![t] = [pc |-> "loaded", path |-> p, job |-> j, base |-> DataAt(p)]]
  /\ starts' = starts + 1
  /\ UNCHANGED <<file, former, temp, faults>>

\* a tuner takes a job, with the profile that is there or with none
Load(t, p, j) ==
  /\ At(t, "idle")
  /\ starts < MaxStarts
  /\ Loads(p) \/ file[p] = None
  /\ tuner' = [tuner EXCEPT ![t] = [pc |-> "loaded", path |-> p, job |-> j, base |-> DataAt(p)]]
  /\ starts' = starts + 1
  /\ UNCHANGED <<file, former, temp, faults>>

(* merge_profile_entry                                                     *)
Mergeable(base, j) == base # None => base.machine = j.machine

\* a slip: the profile is made of the new entry alone
OnlyNewEntry(base, j) ==
  [machine |-> j.machine,
   entries |-> [w \in Workloads |-> IF w = j.workload THEN j.entry ELSE None]]

Merged(base, j) ==
  [machine |-> j.machine,
   entries |-> [w \in Workloads |->
     IF w = j.workload THEN j.entry ELSE IF base = None THEN None ELSE base.entries[w]]]

MergeRefused(t) ==
  /\ At(t, "loaded")
  /\ ~Mergeable(tuner[t].base, tuner[t].job)
  /\ tuner' = [tuner EXCEPT ![t] = Finished(tuner[t].path)]
  /\ UNCHANGED <<file, former, temp, starts, faults>>

(* save_profile: an empty temporary file beside the destination ...        *)
Create(t) ==
  /\ At(t, "loaded")
  /\ Mergeable(tuner[t].base, tuner[t].job)
  /\ temp' = [temp EXCEPT ![t] = [data |-> Torn, synced |-> FALSE]]
  /\ Goto(t, "created")
  /\ UNCHANGED <<file, former, starts, faults>>

\* ... the payload, written and flushed ...
Write(t) ==
  /\ At(t, "created")
  /\ temp' = [temp EXCEPT ![t].data = Merged(tuner[t].base, tuner[t].job)]
  /\ Goto(t, "written")
  /\ UNCHANGED <<file, former, starts, faults>>

\* a slip: the file is flushed and not synced
SkipSync(t) ==
  /\ At(t, "written")
  /\ Goto(t, "synced")
  /\ UNCHANGED <<file, former, temp, starts, faults>>

\* ... synced ...
Sync(t) ==
  /\ At(t, "written")
  /\ temp' = [temp EXCEPT ![t].synced = TRUE]
  /\ Goto(t, "synced")
  /\ UNCHANGED <<file, former, starts, faults>>

\* a slip: the temporary file is copied, not renamed
CopyOver(t) ==
  /\ At(t, "synced")
  /\ LET copy == [temp[t] EXCEPT !.synced = FALSE] IN
     /\ file' = [file EXCEPT ![tuner[t].path] = copy]
     /\ former' = [former EXCEPT ![tuner[t].path] = @ \cup {copy}]
  /\ Goto(t, "closing")
  /\ UNCHANGED <<temp, starts, faults>>

\* ... renamed over the destination ...
Replace(t) ==
  /\ At(t, "synced")
  /\ file' = [file EXCEPT ![tuner[t].path] = temp[t]]
  /\ former' = [former EXCEPT ![tuner[t].path] = @ \cup {temp[t]}]
  /\ temp' = [temp EXCEPT ![t] = None]
  /\ Goto(t, "closing")
  /\ UNCHANGED <<starts, faults>>

\* ... and unlinked, when it is still there
Unlink(t) ==
  /\ At(t, "closing")
  /\ temp' = [temp EXCEPT ![t] = None]
  /\ tuner' = [tuner EXCEPT ![t] = Finished(tuner[t].path)]
  /\ UNCHANGED <<file, former, starts, faults>>

(* A statement raises. Before the temporary file has a name there is       *)
(* nothing to unlink.                                                      *)
CreateRaises(t) ==
  /\ At(t, "loaded")
  /\ Fault
  /\ tuner' = [tuner EXCEPT ![t] = Finished(tuner[t].path)]
  /\ UNCHANGED <<file, former, temp, starts>>

SaveRaises(t) ==
  /\ tuner[t].pc \in {"created", "written", "synced"}
  /\ Fault
  /\ Goto(t, "closing")
  /\ UNCHANGED <<file, former, temp, starts>>

Kill(t) ==
  /\ ~At(t, "idle")
  /\ Fault
  /\ tuner' = [tuner EXCEPT ![t] = Finished(tuner[t].path)]
  /\ temp' = [temp EXCEPT ![t] = None]
  /\ UNCHANGED <<file, former, starts>>

(* What may be left of a file.                                             *)
Remains(f) ==
  IF f = None \/ f.synced THEN {f}
  ELSE {[data |-> f.data, synced |-> TRUE], [data |-> Torn, synced |-> TRUE]}

PowerLoss ==
  /\ Fault
  /\ file' \in [Paths -> UNION {Remains(f) : f \in UNION {former[p] : p \in Paths}}]
  /\ \A p \in Paths : \E f \in former[p] : file'[p] \in Remains(f)
  /\ former' = [p \in Paths |-> {file'[p]}]
  /\ temp' = [t \in Tuners |-> None]
  /\ tuner' = [t \in Tuners |-> Finished(tuner[t].path)]
  /\ UNCHANGED starts

Save(t) ==
  \/ Create(t)
  \/ Write(t)
  \/ Sync(t)
  \/ Replace(t)
  \/ Unlink(t)
  \/ CreateRaises(t)
  \/ SaveRaises(t)

StoreNext ==
  \/ \E t \in Tuners :
       \/ \E p \in Paths, j \in Jobs : Load(t, p, j)
       \/ MergeRefused(t)
       \/ Save(t)
       \/ Kill(t)
  \/ PowerLoss

StoreSpec == StoreInit /\ [][StoreNext]_storeVars

------------------------------------------------------------------------------
(* Properties                                                              *)

(* Whoever opens a profile, at whatever moment and after whatever kills,   *)
(* failures and losses of power, never finds part of one: save_profile     *)
(* renames only what it has synced.                                        *)
ProfilesWhole == \A p \in Paths : DataAt(p) # Torn

(* A save that no other save overlapped changes its own workload's entry   *)
(* and no other: merge_profile_entry's "while preserving others", from     *)
(* the load of the profile to the rename. (One that was overlapped takes   *)
(* the file back to what it had loaded: the other's entry is lost.)        *)
OthersKept ==
  [][\A t \in Tuners :
       /\ At(t, "synced")
       /\ tuner'[t].pc = "closing"
       /\ DataAt(tuner[t].path) = tuner[t].base
       /\ file'[tuner[t].path] # file[tuner[t].path]
       => LET p == tuner[t].path IN
          /\ DataAt(p)' \in Profiles
          /\ \A w \in Workloads \ {tuner[t].job.workload} :
               file'[p].data.entries[w] = IF DataAt(p) = None THEN None ELSE DataAt(p).entries[w]
    ]_storeVars

(* The promise of AtomicProfile, for what readers find.                    *)
Contents == (Data \ {Torn}) \cup {None}

DataOf(f) == IF f = None THEN None ELSE f.data

Atomic == INSTANCE AtomicProfile WITH
  content <- [p \in Paths |-> DataAt(p)],
  survivors <- [p \in Paths |-> {DataOf(f) : f \in former[p]}]

SavesAtomically == Atomic!Spec
==============================================================================
