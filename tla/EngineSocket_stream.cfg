CONSTANTS
  Poller = p1
  Pollers = {p1}
  Users = {u1, u2}
  ServerIds = {"Ping", "Message", "Close", "Open", "Invalid"}
  Reopens = FALSE
  MaxPackets = 3
  MaxBatch = 3
  MaxCalls = 1
SPECIFICATION FairSpec
PROPERTY StreamSpec
PROPERTY HeartbeatKept
PROPERTY IterationEnds
CHECK_DEADLOCK FALSE
