SPECIFICATION FairSpec
CONSTANTS
  r1 = r1
  r2 = r2
  r3 = r3
  Reqs = {r1, r2}
  Full <- LargeFull
  PromptLen <- LargePromptLen
  Bits <- LargeBits
  NumRows = 2
  PAGE = 2
  NumPages = 3
  NumInt4 = 2
  Loops = {TRUE}
  MaxRunning = 2
  InputReserve = 1
  ChunkSize = 6
  MaxPrefillTokens = 8
  RetractSteps = 1
  ShareNum = 1
  ShareDen = 4
  MayStop = {}
  MayAbort = {}
  MayPause = FALSE
PROPERTY Served
CHECK_DEADLOCK FALSE
