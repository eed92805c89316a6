SPECIFICATION FairSpec
CONSTANTS
  r1 = r1
  r2 = r2
  r3 = r3
  Reqs = {r1, r2, r3}
  Full <- MCFull
  PromptLen <- MCPromptLen
  Bits <- MCBits
  NumRows = 3
  PAGE = 2
  NumPages = 1
  NumInt4 = 6
  Loops = {TRUE}
  MaxRunning = 2
  InputReserve = 1
  ChunkSize = 2
  MaxPrefillTokens = 4
  RetractSteps = 1
  ShareNum = 3
  ShareDen = 4
  MayStop = {r1}
  MayAbort = {r1, r2}
  MayPause = FALSE
PROPERTIES Served
