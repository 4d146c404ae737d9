CONSTANTS
  Users = {u1, u2}
  Reconnect = TRUE
  ReconnectOnDisconnect = TRUE
  MaxAttempts = 2
  NoLimit = NoLimit
  OverflowChecks = TRUE
  MaxConnections = 3
  MaxOutages = 1
  MaxCalls = 1
SPECIFICATION FairSpec
INVARIANT TypeOK
INVARIANT OneLiveConnection
INVARIANT CallsUseCurrent
INVARIANT ReplacedIsAnnounced
PROPERTY AttemptsEnd
PROPERTY Recovers
PROPERTY ReconnectsOnDisconnect
