\* Everything clients may do, and crashes, but no tape is initialized again.
SPECIFICATION FairSpec
CONSTANTS
  a = a  b = b  d = d  up = up  gz = gz  w = w
  Components <- MCComponents
  Like <- MCLike
  Stripped <- MCStripped
  NoName = NoName  NoRow = NoRow
  Modes = {m1}
  Data = {x}
  Empty = Empty
  ClientNames <- NamesLoose
  Sources <- SourcesLoose
  MaxTape = 3
  MaxBatch = 1
  Permit = {"crash", "resume", "reindex", "lose", "fresh", "reuse", "onto", "unknown", "symlink", "local"}
INVARIANTS
  TypeOK PrimaryKey Positions
PROPERTIES
  Returns
