CONSTANTS
  Bodies <- MCBodies
  Continuations <- MCContinuations
  Features <- MCFeatures
  Width = 2
  continuationAttempts = 3
SPECIFICATION Spec
INVARIANT
  ClaudeSendsTextOnce
CHECK_DEADLOCK FALSE
