CONSTANTS
  Users = {u1}
  Reconnect = TRUE
  ReconnectOnDisconnect = FALSE
  MaxAttempts = NoLimit
  NoLimit = NoLimit
  OverflowChecks = TRUE
  MaxConnections = 2
  MaxOutages = 0
  MaxCalls = 1
SPECIFICATION Spec
INVARIANT StaysStopped
