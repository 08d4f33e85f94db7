SPECIFICATION PackedSpec
CONSTANTS
  Launches <- MCLaunches
  ScoreTables <- MCScoreTables
  Batches <- MCBatches
  Requests <- MCRequests
  Shapes <- MCShapes
  None = None
  Regimes <- MCRegimes
  MaxScore <- MCMaxScore
  MaxTokens <- MCMaxTokens
  NegInf = NegInf
  Undefined = Undefined
  Unwritten = Unwritten
INVARIANTS OutputMatchesReference LanesStayDefined OutputComplete TrustedAsValidated RowsReturnHome
PROPERTY RowsWrittenOnce
CHECK_DEADLOCK FALSE
