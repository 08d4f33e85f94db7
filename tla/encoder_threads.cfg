\* two callers, no faults and no host updates
SPECIFICATION Spec
CONSTANTS
  t1 = t1
  t2 = t2
  None = None
  Threads = {t1, t2}
  Owners = {t1, t2}
  NumLayers = 2
  MaxCachedShapes = 1
  MaxVersion = 0
  HostEvents = {}
  FaultsPossible = FALSE
  BiasLayout = "all"
  Shapes <- TwoShapes
  Ranges = {"narrow"}
  Gapped = {}
  Regime <- TwoRegimes
  SlotRange <- TwoRanges
  ProfileHits <- Hits
INVARIANTS
  LruConsistent
  PacksWholeWhenQuiet
PROPERTIES
  ImplementsContract
  EveryCallEnds
