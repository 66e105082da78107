\* Several entries per call, tapes initialized again.
SPECIFICATION Spec
CONSTANTS
  a = a  b = b  d = d  up = up  gz = gz  w = w
  Components <- MCComponents
  Like <- MCLike
  Stripped <- MCStripped
  NoName = NoName  NoRow = NoRow
  Modes = {m1}
  Data = {x}
  Empty = Empty
  ClientNames <- NamesTree
  Sources <- SourcesTree
  MaxTape = 5
  MaxBatch = 2
  Permit = {"overwrite"}
INVARIANTS
  IndexIsReplay
