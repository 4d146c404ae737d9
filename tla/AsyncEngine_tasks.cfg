CONSTANTS
  Pollers = {p1, p2}
  Users = {u1}
  ServerIds = {"Ping", "Message", "Close", "Open", "Invalid"}
  MaxPackets = 2
  MaxBatch = 2
  MaxCalls = 2
SPECIFICATION FairSpec
INVARIANT SomebodyListens
INVARIANT PingsAnswered
PROPERTY StreamSpec
PROPERTY ClosedIsKnown
PROPERTY AllSettled
PROPERTY CallsReturn
CHECK_DEADLOCK FALSE
