\* every small position setting, lengths up to 12
SPECIFICATION Spec
CONSTANTS
  None = None
  Configs <- SmallConfigs
  Lengths <- SmallLengths
  TuningLengths <- SmallTuning
INVARIANTS
  LookupMatchesReference
  DenseMatchesReference
  GapsCharacterised
