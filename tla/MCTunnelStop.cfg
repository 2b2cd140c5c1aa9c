CONSTANTS
  Callers = {c1, c2}
  MaxProcs = 1
SPECIFICATION FairTunnel
PROPERTY StopTerminates
CHECK_DEADLOCK FALSE
