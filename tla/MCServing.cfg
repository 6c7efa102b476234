SPECIFICATION Spec
CONSTANTS
  BlockSize = 2
  BlockBytes = 10
  MaxPosition = 5
  Budgets = {5, 30}
  PoolTokens <- MCPoolTokens
  Requests <- MCRequests
  Batches <- MCBatches
  Fields <- MCFields
  MaxSteps = 2
  Levels = 2
  Warmups = {0, 30}
  Minutes = 1
  MaxRuns = 2
CHECK_DEADLOCK FALSE
INVARIANTS
  AcceptedFits
  LevelCounted
  
