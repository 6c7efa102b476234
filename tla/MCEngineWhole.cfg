SPECIFICATION Spec
CONSTANTS
  NumBlocks = 4
  BlockSize = 2
  MaxRunning = 3
  MaxPrefillTokens = 4
  ChunkSize = 0
  MaxRequests = 3
  Overlap = TRUE
  Radixes = {TRUE, FALSE}
  tokA = tokA
  tokEnd = tokEnd
  Tokens <- MCTokens
  StopTokens <- MCStops
  Jobs <- MCJobs
  Policies <- AllPolicies
CHECK_DEADLOCK FALSE
INVARIANTS
  AdmissionLeavesRoomUncached
PROPERTIES
  OldestKept
  EveryRequestEnds
