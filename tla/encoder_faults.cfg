\* one caller whose allocations may fail, no host updates
SPECIFICATION Spec
CONSTANTS
  t1 = t1
  None = None
  Threads = {t1}
  Owners = {t1}
  NumLayers = 2
  MaxCachedShapes = 2
  MaxVersion = 0
  HostEvents = {}
  FaultsPossible = TRUE
  BiasLayout = "all"
  Shapes <- ThreeShapes
  Ranges = {"narrow", "wide"}
  Gapped = {}
  Regime <- ThreeRegimes
  SlotRange <- ThreeRanges
  ProfileHits <- Hit128
INVARIANT
  AnswersExact
