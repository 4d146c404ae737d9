CONSTANTS
  Poller = poller
  Users = {u1}
  Nobody = nobody
  Ids = {1, 2}
  OnOps = {"request", "panic"}
  AckOps = {"panic"}
  MaxRequests = 2
  MaxDisconnects = 1
  MaxEvents = 2
SPECIFICATION FairSpec
INVARIANT NoWaitCycle
INVARIANT AcksKept
PROPERTY RemovalExact
PROPERTY CallsReturn
CHECK_DEADLOCK FALSE
