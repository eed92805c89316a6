SPECIFICATION Spec
CONSTANTS
  r1 = r1
  r2 = r2
  r3 = r3
  Reqs = {r1, r2, r3}
  Full <- MCFull
  PromptLen <- MCPromptLen
  Bits <- MCBits
  NumRows = 3
  PAGE = 2
  NumPages = 1
  NumInt4 = 5
  Loops = {TRUE, FALSE}
  MaxRunning = 2
  InputReserve = 1
  ChunkSize = 2
  MaxPrefillTokens = 4
  RetractSteps = 1
  ShareNum = 1
  ShareDen = 2
  MayStop = {r1}
  MayAbort = {r1, r2}
  MayPause = TRUE
INVARIANTS NoRaise NoPrefillOOM BusyCheck IdleCheck OnePlace RoomForChunk
PROPERTIES TokenFromWholeInput
