------------------------------- MODULE MCTuning -------------------------------
(* LaunchPolicy with one profile file, two tuners and two GPUs of different   *)
(* models. Once the layer is built it does not look at the files again: its   *)
(* launches and the tuners' steps touch no common variable. So the last step  *)
(* of building waits until no save is under way, and then tuning is over.     *)
EXTENDS LaunchPolicy, TLC

CONSTANTS p1, t1, t2, m1, m2, d1, d2

Half == [regime |-> 128, headDim |-> 64, fp32 |-> FALSE]

Single == [regime |-> 128, headDim |-> 64, fp32 |-> TRUE]

MCWorkloads == {Half, Single}

Square == [m |-> 32, n |-> 32]

Wide == [m |-> 64, n |-> 128]

Huge == [m |-> 128, n |-> 128]

\* two lengths of one regime, and one beyond the largest
MCCalls ==
  {[length |-> n, headDim |-> 64, fp32 |-> FALSE] : n \in {65, 128}}
    \cup {[length |-> 129, headDim |-> 64, fp32 |-> TRUE]}

MCConfigs == {Square, Wide, Huge}

Good == [config |-> Square, validated |-> TRUE]

Other == [config |-> Wide, validated |-> TRUE]

Unvalidated == [config |-> Wide, validated |-> FALSE]

MCEntries == {Good, Other, Unvalidated}

MCJobs ==
  {[machine |-> m1, workload |-> Half, entry |-> Other],
   [machine |-> m2, workload |-> Half, entry |-> Good]}

Made(m, w, e) == [machine |-> m, entries |-> [v \in MCWorkloads |-> IF v = w THEN e ELSE None]]

MCInitialFiles == {None, Incompatible, Made(m1, Single, Unvalidated)}

MCBundled == <<Made(m2, Single, Good), Made(m1, Half, Good), Made(m1, Single, Other)>>

MCOption(mode, explicit, user, fixed, candidates) ==
  [mode |-> mode, explicit |-> explicit, user |-> user, bundled |-> TRUE, fixed |-> fixed,
   candidates |-> candidates]

MCOptions ==
  {MCOption("auto", <<>>, TRUE, None, <<Square, Wide>>),
   MCOption("auto", <<p1>>, TRUE, None, <<Huge>>),
   MCOption("profile_only", <<>>, TRUE, None, <<Square, Wide>>),
   MCOption("autotune", <<>>, TRUE, None, <<Huge, Wide, Square>>),
   MCOption("fixed", <<>>, FALSE, Huge, <<Square, Wide>>)}

MCUserPaths == <<p1>>

MCMachineOf == (d1 :> m1) @@ (d2 :> m2)

Idle == \A t \in Tuners : At(t, "idle")

MCNext ==
  \/ UsesProfiles /\ layer.phase \notin {"ready", "raised"} /\ StoreNext /\ UNCHANGED layerVars
  \/ LayerNext /\ UNCHANGED storeVars /\ (layer'.phase \in {"ready", "raised"} => Idle)

MCSpec == Init /\ [][MCNext]_vars
==============================================================================
