SPECIFICATION Spec
CONSTANTS
  r1 = r1
  r2 = r2
  r3 = r3
  Reqs = {r1}
  Full <- Int4Full
  PromptLen <- Int4PromptLen
  Bits <- Int4Bits
  NumRows = 2
  PAGE = 2
  NumPages = 2
  NumInt4 = 4
  Loops = {TRUE}
  MaxRunning = 2
  InputReserve = 1
  ChunkSize = 6
  MaxPrefillTokens = 8
  RetractSteps = 1
  ShareNum = 1
  ShareDen = 2
  MayStop = {}
  MayAbort = {}
  MayPause = FALSE
INVARIANT NoPrefillOOM
CHECK_DEADLOCK FALSE
