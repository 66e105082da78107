\* Every kind of root, a tape that tar has written, and an index that is lost.
SPECIFICATION Spec
CONSTANTS
  a = a  b = b  c = c  test = test
  NoRoot = NoRoot
  Paths <- MCPaths
  Proposals <- MCProposals
  Foreign <- MCForeign
  Permit = {}
  MaxTape = 6
INVARIANTS
  FoundAgain
  RootCached
CHECK_DEADLOCK FALSE
