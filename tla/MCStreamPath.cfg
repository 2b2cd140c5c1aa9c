SPECIFICATION FairSpec
CONSTANTS
  Bodies <- Ordinary
  Endings = {"eof", "error", "stall"}
  Cap = 6
  Buffer = 6
  MaxEvents = 3
  Capacity = 2
  KeepAlive = 2
INVARIANTS
  TypeOK
  PreflightExact
  EventsInOrder
  PausesBridged
  CaptureComesThrough
PROPERTIES
  ReaderLeaves
  StreamEnds
CHECK_DEADLOCK FALSE
