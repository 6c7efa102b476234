SPECIFICATION SpecBoth
CONSTANTS
  NumBlocks = 3
  BlockSize = 2
  MaxLen = 5
  r1 = r1
  r2 = r2
  tokA = tokA
  tokB = tokB
  Requests <- MCRequests
  Tokens <- MCTokens
  Prompts <- MCPrompts
SYMMETRY MCSymmetry
INVARIANTS
  SameAsReference
  IndexExact
  NothingRaises
  TreeConsistent
  HoldersCounted
  KVMatchesTokens
