SPECIFICATION Spec
CONSTANTS
  r1 = r1
  r2 = r2
  r3 = r3
  t1 = t1
  t2 = t2
  prompt = prompt
  turn1 = turn1
  turn2 = turn2
  resp1 = resp1
  session = session
  NoKey = NoKey
  NoChat = NoChat
  NoToken = NoToken
  NoSession = NoSession
  Nobody = Nobody
  Cooldown = 1
  Request <- ThreeRequests
  Endpoints = {"chat", "claude", "responses"}
  Key = {prompt}
  CacheKey <- SamePrompt
  LookupKey <- NoneSet
  StoreKey <- NoneSet
  PrevKey <- NoneSet
  RespKey <- NoneSet
  Session = {}
  SessionOf <- NoSessions
  Chat = {1, 2, 3, 4, 5}
  Token <- OneToken
  TokenSets <- OneSet
  MaxAttempts = 2
  MaxExtraRetries = 1
  RetryOnFailure = TRUE
  Faults = {"auth"}
INVARIANTS
  TypeOK
  CachedChatNeverServedEmpty
  AttemptsCapped
PROPERTIES
  MarkedTokenRests
SYMMETRY Interchangeable
