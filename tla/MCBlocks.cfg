SPECIFICATION Spec
CONSTANTS
  RecordSize = 4
  BlockUnits = 2
  ContentSizes = {0, 2, 3}
  Padding = {2}
  MaxHeaders = 3
  MaxBatch = 2
  Permit = {"tear", "foreign"}
INVARIANTS Fetchable IndexComplete Ascending QueryFinds
PROPERTY ScanAdvances
