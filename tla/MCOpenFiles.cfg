SPECIFICATION OpenSpec
CONSTANTS
  a = a  b = b
  Components <- MCComponents
  Like <- MCLike
  Stripped <- MCStripped
  NoName = NoName  NoRow = NoRow
  Modes = {m1, m2}
  NewMode = m1
  Data <- Contents
  Empty <- NoBytes
  FileNames <- MCFileNames
  MaxDepth = 1
  MaxFree = 1
  MaxRows = 3
  MaxFreeRows = 3
  Handles = {h1}
  NoFile = NoFile
  OpenFlags <- MCOpenFlags
  Chunks <- MCChunks
  Lengths = {1, 2}
  Offsets <- MCOffsets
  MaxSize = 2
  MaxLoose = 1
VIEW WithoutLast
PROPERTIES
  ImplementsByteFiles
  ClosedIsStored
  HandleSparesOthers
