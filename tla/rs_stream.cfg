SPECIFICATION FairSpec
CONSTANTS
  Rows = 8
  MayReject = TRUE
  MayStop = TRUE
INVARIANTS FinishedIsComplete
PROPERTIES StreamEnds
