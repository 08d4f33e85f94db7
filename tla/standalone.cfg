\* one layer of either backend, four lengths, one change of the parameters
SPECIFICATION Spec
CONSTANTS
  None = None
  Lengths <- FourLengths
  Ranges = {"narrow", "wide", "gapped"}
  Gapped = {"gapped"}
  Regime <- FourRegimes
  SlotRange <- FourRanges
  MaxVersion = 1
  MaxCaches = 2
INVARIANTS
  TypeOK
  CachesCurrent
  AnswersCurrent
  EligibleAnswered
  TablesFitIndex
