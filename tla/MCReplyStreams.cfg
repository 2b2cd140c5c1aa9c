CONSTANTS
  Bodies <- MCBodies
  Continuations <- MCContinuations
  Features <- MCFeatures
  Width = 2
  continuationAttempts = 3
SPECIFICATION Spec
INVARIANTS
  TypeOK
  MarkerHeldBack
  ChatTextExact
  ResponsesItemsInOrder
  ClaudeBlocksInOrder
  CutIsTold
  ResponsesDeltasAreTheText
  AnswersAgree
  NoTruncatedAnswer
CHECK_DEADLOCK FALSE
