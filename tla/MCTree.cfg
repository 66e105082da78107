\* A tree of two names in the root and one below one of them; two calls from the
\* first liberty on.
SPECIFICATION TreeSpec
CONSTANTS
  a = a  b = b  c = c
  Components <- MCComponents
  Like <- MCLike
  Stripped <- MCStripped
  NoName = NoName  NoRow = NoRow
  Modes = {m1, m2}
  NewMode = m1
  Data = {}
  Empty = Empty
  FileNames <- MCFileNames
  MaxDepth = 2
  MaxFree = 2
  MaxRows = 4
  MaxFreeRows = 3
INVARIANTS
  MadeIsFound
PROPERTIES
  ImplementsFileTree
  MakingSparesOthers
  RenameLosesNothing
