SPECIFICATION Spec
CONSTANTS
  r1 = r1
  r2 = r2
  r3 = r3
  r4 = r4
  r5 = r5
  Requests <- MCRequests
  Batches <- MCBatches
  Prefills <- MCPrefills
  MaxBs = 4
  MaxSteps = 4
CHECK_DEADLOCK FALSE
INVARIANTS
  CopiesUndisturbed
  RunsOnOwnInputs
