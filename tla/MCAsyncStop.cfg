SPECIFICATION Spec
CONSTANTS
  tokA = tokA
  tokB = tokB
  tokEnd = tokEnd
  c1 = c1
  GenTokens <- OneToken
  BytesOf <- MCBytes
  GenStops <- MCStops
  GenMaxNew <- MCMaxNew
  GenMaxStep = 1
  MaxStreams = 1
  Calls <- NoCalls
  MaxNew = 1
  EngineFails = FALSE
  DetokFails = FALSE
  MayStop = TRUE
CHECK_DEADLOCK FALSE
PROPERTY
  EveryStreamEndsAnyway
