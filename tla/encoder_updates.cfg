\* one caller, the host's parameters updated in place between calls
SPECIFICATION Spec
CONSTANTS
  t1 = t1
  None = None
  Threads = {t1}
  Owners = {t1}
  NumLayers = 2
  MaxCachedShapes = 2
  MaxVersion = 1
  HostEvents = {"update"}
  FaultsPossible = FALSE
  BiasLayout = "all"
  Shapes <- ThreeShapes
  Ranges = {"narrow", "wide"}
  Gapped = {}
  Regime <- ThreeRegimes
  SlotRange <- ThreeRanges
  ProfileHits <- Hit128
INVARIANT
  AnswersExact
