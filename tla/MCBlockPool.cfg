SPECIFICATION Spec
CONSTANTS
  NumBlocks = 4
  BlockSize = 2
  MaxAppend = 3
  MaxBlockArgs = 3
  h1 = h1
  h2 = h2
  h3 = h3
  Holders <- MCHolders
SYMMETRY MCSymmetry
INVARIANTS
  CoreMatchesReference
  BlocksConserved
  AppendsExclusive
