CONSTANTS
  Users = {u1}
  Reconnect = TRUE
  ReconnectOnDisconnect = TRUE
  MaxAttempts = NoLimit
  NoLimit = NoLimit
  OverflowChecks = FALSE
  MaxConnections = 2
  MaxOutages = 0
  MaxCalls = 0
SPECIFICATION ServedSpec
PROPERTY StoppedReconnects
