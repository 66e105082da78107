\* Plain clients on a small tree, crashes, recovery with `recovery index -o`, and the
\* refinement of FileStore.
SPECIFICATION StoreSpec
CONSTANTS
  a = a  b = b  d = d  up = up  gz = gz  w = w
  Components <- MCComponents
  Like <- MCLike
  Stripped <- MCStripped
  NoName = NoName  NoRow = NoRow
  Modes = {m1, m2}
  Data = {x}
  Empty = Empty
  ClientNames <- NamesTree
  Sources <- SourcesTree
  MaxTape = 5
  MaxBatch = 1
  Permit = {"crash", "lose"}
SYMMETRY ModeSymmetry
INVARIANTS
  Paired CaughtUp IndexIsReplay ContentMatches NoError RecoverySucceeds
PROPERTIES
  ImplementsFileStore HighWaterMark DeleteSparesOthers
