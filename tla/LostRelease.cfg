SPECIFICATION Spec
CONSTANTS
  Paths <- MCPaths
  Calls <- MCCalls
  InitNames <- MCInitNames
  Pinned = {}
  MaxLoaded = 2
  MaxPinned = 1
  Endings = {"output", "abort"}
  MayFail = FALSE
INVARIANT CountersOfOngoing
CHECK_DEADLOCK FALSE
