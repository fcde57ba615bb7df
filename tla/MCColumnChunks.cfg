CONSTANTS
  Columns = 3
  Layers = 2
  Cases <- MCCases
  Chunkings <- MCChunkings
SPECIFICATION Spec
INVARIANTS ReadsOwnColumns KeepsEveryColumn
CHECK_DEADLOCK FALSE
