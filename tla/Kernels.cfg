SPECIFICATION Spec
CONSTANTS
  Supers = 2
  Rows16 = {13}
  Rows8 = {6}
  Cols = {7}
INVARIANTS EveryLaneIsReference StoredIsWhole
CHECK_DEADLOCK FALSE
