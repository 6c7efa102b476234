SPECIFICATION SpecSpec
CONSTANTS
  NumBlocks = 5
  BlockSize = 2
  MaxRunning = 2
  MaxPrefillTokens = 4
  ChunkSize = 3
  MaxRequests = 2
  Overlap = FALSE
  Radixes = {FALSE}
  tokA = tokA
  tokB = tokB
  tokEnd = tokEnd
  Tokens <- MCTokens
  StopTokens <- MCStops
  Jobs <- MCJobs
  Policies <- OnlyFCFS
  Gammas <- MCGammas
  Greedy <- MCGreedy
  RoundGraphs <- Both
CHECK_DEADLOCK FALSE
INVARIANTS
  SpecNothingRaises
  GreedyOutput
  TablesInStep
PROPERTIES
  EverySpecEnds
  RoundsGenerate
