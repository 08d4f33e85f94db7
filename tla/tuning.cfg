\* one file, two tuners, two GPUs, every mode
SPECIFICATION MCSpec
CONSTANTS
  p1 = p1
  t1 = t1
  t2 = t2
  m1 = m1
  m2 = m2
  d1 = d1
  d2 = d2
  None = None
  Absent = Absent
  Torn = Torn
  Incompatible = Incompatible
  Paths = {p1}
  Tuners = {t1, t2}
  Machines = {m1, m2}
  Devices = {d1, d2}
  Workloads <- MCWorkloads
  Calls <- MCCalls
  Regimes = {64, 128}
  Configs <- MCConfigs
  Entries <- MCEntries
  Jobs <- MCJobs
  InitialFiles <- MCInitialFiles
  Options <- MCOptions
  UserPaths <- MCUserPaths
  Bundled <- MCBundled
  MachineOf <- MCMachineOf
  MaxStarts = 2
  MaxFaults = 1
INVARIANTS StoreTypeOK ProfilesWhole ProfilesDecide ProfileOnlyNeverTunes TunedLaunchesLight
PROPERTIES SavesAtomically OthersKept FailureRemembered
CHECK_DEADLOCK FALSE
