\* one caller, faults and every kind of host update, a length with a gap
SPECIFICATION Spec
CONSTANTS
  t1 = t1
  None = None
  Threads = {t1}
  Owners = {t1}
  NumLayers = 2
  MaxCachedShapes = 2
  MaxVersion = 2
  HostEvents = {"update", "reassign", "replace", "relayout"}
  FaultsPossible = TRUE
  BiasLayout = "all"
  Shapes <- FourShapes
  Ranges = {"narrow", "wide", "gapped"}
  Gapped = {"gapped"}
  Regime <- FourRegimes
  SlotRange <- FourRanges
  ProfileHits <- Hit128
INVARIANTS
  TypeOK
  LruConsistent
  PlansPublishedWhole
  LastServedRetained
  ColdCallsExact
  LayersKeepOneShape
