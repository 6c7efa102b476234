SPECIFICATION Spec
CONSTANTS
  Clocks = {100, 110}
  Window = 1
  WarmMin = 1
  WarmMax = 2
  Rounds = 2
  Arms <- MCArms
  Changes <- MCChanges
  Slopes <- MCSlopes
  Start = 1000
  MaxAway = 80
INVARIANTS
  EqualNeverFails
  MergedNearReference
  NumbersHaveContext
