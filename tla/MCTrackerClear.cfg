CONSTANTS
  MaxErrors = 2
  MaxTracked = 3
SPECIFICATION FairTracker
PROPERTY ClearRemovesAll
CHECK_DEADLOCK FALSE
