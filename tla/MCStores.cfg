SPECIFICATION Spec
CONSTANTS
  a = a
  b = b
  c = c
  d = d
  NoToken = NoToken
  Cooldown = 2
  MaxReloads = 2
  Token <- MCToken
  TokenLists <- MCLists
  Renewals <- MCRenewals
  k1 = k1
  k2 = k2
  k3 = k3
  c1 = c1
  c2 = c2
  NoChat = NoChat
  Max = 2
  TTL = 2
  Key <- MCKey
  Chat <- MCChat
INVARIANTS
  PoolTypeOK
  BadTokenRests
  NoTokenStarves
  CacheTypeOK
  QueueMatchesMap
  WithinCapacity
PROPERTIES
  PoolIsService
  CacheIsMemo
