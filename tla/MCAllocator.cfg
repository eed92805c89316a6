CONSTANTS
  PAGE = 2
  NumPages = 2
  NumInt4 = 1
  MaxTokens = 3
  MaxGroup = 2
  Reqs = {r1, r2}
SPECIFICATION Spec
INVARIANTS
  ExactAccounting
  NoDoubleGrant
  NothingStranded
  IInv
PROPERTY ImplementsPool
