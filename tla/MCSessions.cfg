CONSTANTS
  f1 = f1
  f2 = f2
  g1 = g1
  g2 = g2
  Caller = Caller
  None = None
  Ended = Ended
  Files <- MCFiles
  Goroutines <- MCGoroutines
  Chunks = 2
  MaxHandles = 2
  Permit = {}
SPECIFICATION Spec
INVARIANTS
  TypeOK
  DriveUndisturbed
  LocksReleased
  NoPanic
PROPERTIES
  CallsReturn
  RestoresEnd
