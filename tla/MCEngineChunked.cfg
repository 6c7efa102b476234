SPECIFICATION Spec
CONSTANTS
  NumBlocks = 4
  BlockSize = 2
  MaxRunning = 3
  MaxPrefillTokens = 4
  ChunkSize = 2
  MaxRequests = 3
  Overlap = TRUE
  Radixes = {TRUE}
  tokA = tokA
  tokEnd = tokEnd
  Tokens <- MCTokens
  StopTokens <- MCStops
  Jobs <- MCJobs
  Policies <- OnlyFCFS
CHECK_DEADLOCK FALSE
INVARIANTS
  StepWithinBudget
  NothingRaises
  KVMatchesTokens
  FCFSOrder
  NoLeak
PROPERTIES
  EveryRequestEnds
  GeneratesInOrder
