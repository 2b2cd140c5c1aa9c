CONSTANTS
  Admins = {a1, a2}
  Token = {"t", "env"}
  Key = {"k", "l"}
  Setting = {"on", "off"}
  EnvTokens <- MCEnvTokens
  EnvKeys <- MCEnvKeys
  MaxEdits = 3
  MaxKeys = 2
  MaxErrors = 2
  MaxTracked = 4
  Callers = {c1, c2, c3}
  MaxProcs = 2
  MaxSize = 2
  MaxBackups = 3
  MaxEntries = 10
  Own = {"mine"}
  Calls = {d1, d2}
  File_ = {"f1", "f2", "f3"}
  Text_ = {"old", "new", "odd"}
  Hint_ = {"odd"}
  MaxFiles = 2
  FileTTL = 2
SPECIFICATION Spec
INVARIANTS TypeOK EditsTakeEffect TrackerFileCatchesUp NoOrphanTunnel LogKeepsNewest CliSettingsHold HintsExpandToLast
SYMMETRY AnyCall
CHECK_DEADLOCK FALSE
