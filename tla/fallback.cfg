\* the second layer has a head size the kernels do not have
SPECIFICATION EntrySpec
CONSTANTS
  None = None
  e1 = e1
  e2 = e2
  e3 = e3
  i1 = i1
  i2 = i2
  t1 = t1
  t2 = t2
  Encoders = {e1, e2, e3}
  Ids = {i1, i2}
  Threads = {t1, t2}
  BuildsFail = TRUE
  Modules <- MCModules
  Positions <- MCPositions
  Gapped <- MCGapped
  Inputs <- MCInputs
  Host <- MCHost
  Layouts <- MCWideLayouts
  TritonInstalled = TRUE
\* every encoder may be gone in the end
CHECK_DEADLOCK FALSE
INVARIANT UnsupportedFallsBack
