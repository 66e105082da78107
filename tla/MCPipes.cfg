SPECIFICATION Spec
CONSTANTS
  k = k  s = s  NoKey = NoKey  None = None
  Names = {n1, n2}
  Contents = {Empty, x}
  Empty = Empty
  Keys = {k, s}
  Subkeyed = {s}
  Formats <- Compressions
  Read = {"none", "gzip", "brotli"}
  Records = {1, 20, 128}
  Writers <- MCWriters
  Readers <- MCReaders
  MaxHeaders = 3
INVARIANTS
  RoundTrip
  SignedIsOriginal
  IndexedAlike
  SizesMatch
\* The tape ends at its bound, and behind an operation that fails.
CHECK_DEADLOCK FALSE
