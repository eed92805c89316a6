SPECIFICATION Spec
CONSTANTS
  r1 = r1
  r2 = r2
  r3 = r3
  Reqs = {r1, r2}
  Full <- MixedFull
  PromptLen <- MixedPromptLen
  Bits <- MixedBits
  NumRows = 2
  PAGE = 2
  NumPages = 3
  NumInt4 = 5
  Loops = {TRUE}
  MaxRunning = 2
  InputReserve = 1
  ChunkSize = 2
  MaxPrefillTokens = 8
  RetractSteps = 1
  ShareNum = 2
  ShareDen = 5
  MayStop = {}
  MayAbort = {}
  MayPause = FALSE
INVARIANT AbortOnlyWhenFull
CHECK_DEADLOCK FALSE
