\* A lost index is left to Initialize, whatever is on the tape.
SPECIFICATION Spec
CONSTANTS
  a = a  b = b  c = c  test = test
  NoRoot = NoRoot
  Paths <- MCPaths
  Proposals <- MCProposals
  Foreign <- MCForeign
  Permit = {"initialize"}
  MaxTape = 6
INVARIANT
  RootCached
CHECK_DEADLOCK FALSE
