SPECIFICATION Spec
CONSTANTS
  tokA = tokA
  tokB = tokB
  tokEnd = tokEnd
  c1 = c1
  GenTokens <- MCTokens
  BytesOf <- MCBytes
  GenStops <- MCStops
  GenMaxNew <- MCMaxNew
  GenMaxStep = 1
  MaxStreams = 1
  Calls <- NoCalls
  MaxNew = 2
  EngineFails = TRUE
  DetokFails = TRUE
  MayStop = TRUE
CHECK_DEADLOCK FALSE
INVARIANTS
  TextExact
  AbortQueued
  DecoderDropped
PROPERTIES
  ClientSeesGeneration
  EveryStreamEnds
  GoneIsAborted
