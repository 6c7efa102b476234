SPECIFICATION Spec
CONSTANTS
  NumBlocks = 3
  BlockSize = 2
  MaxRunning = 3
  MaxPrefillTokens = 4
  ChunkSize = 3
  MaxRequests = 3
  Overlap = TRUE
  Radixes = {TRUE}
  tokA = tokA
  tokEnd = tokEnd
  Tokens <- MCTokens
  StopTokens <- MCStops
  Jobs <- MCJobs
  Policies <- OnlyFCFS
CHECK_DEADLOCK FALSE
INVARIANTS
  LoneRequestFits
