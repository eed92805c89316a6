SPECIFICATION Spec
CONSTANTS
  r1 = r1
  r2 = r2
  Reqs = {r1, r2}
  Full <- MCFull
  PromptLen <- MCPromptLen
  Bits <- MCBits
  NumRows = 2
  PAGE = 2
  NumPages = 1
  NumInt4 = 3
INVARIANTS TypeOK SlotOwnership LeakCheck ReadBack LocksExact SizesExact EvictSuffices
