SPECIFICATION Spec
CONSTANTS
  r1 = r1
  r2 = r2
  r3 = r3
  None_ = None
  Callers = {r1, r2, r3}
  None = None
  NoKey = NoKey
  Streaming <- MCStreaming
  Model = "m"
  Objects = {1, 2, 3, 4}
  maxSessions = 1
  maxHistory = 2
  MessageOverhead = 1
  Texts = {"sys", "sys2", "folded", "ask", "other", "long", "user", "eol", "compacted"}
  contextWindow = 12
  RollingHistoryK = 1
  SummaryEveryNTurns <- MCSummaryEvery
  Clients <- MCClients
  DataDirs = {None, "turns", "summaries"}
  MaxRestarts <- MCRestarts
  Conversations <- MCConversations
INVARIANTS TypeOK StoredInOrder TurnsCounted SummaryOfSameText
CHECK_DEADLOCK FALSE
