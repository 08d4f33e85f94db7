\* one layer of either backend, two position plan caches
SPECIFICATION Spec
CONSTANTS
  None = None
  Lengths <- TwoLengths
  Ranges = {"narrow", "wide"}
  Gapped = {}
  Regime <- TwoRegimes
  SlotRange <- TwoRanges
  MaxVersion = 0
  MaxCaches = 2
INVARIANT PlansFromAttachedCache
