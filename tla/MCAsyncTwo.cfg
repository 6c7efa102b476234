SPECIFICATION Spec
CONSTANTS
  tokA = tokA
  tokB = tokB
  tokEnd = tokEnd
  c1 = c1
  GenTokens <- OneToken
  BytesOf <- MCBytes
  GenStops <- MCStops
  GenMaxNew <- MCMaxNew
  GenMaxStep = 1
  MaxStreams = 2
  Calls <- OneCall
  MaxNew = 1
  EngineFails = TRUE
  DetokFails = FALSE
  MayStop = FALSE
CHECK_DEADLOCK FALSE
INVARIANTS
  NoneLeftBehind
  WaitersServed
