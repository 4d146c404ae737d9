CONSTANTS
  Poller = poller
  Users = {u1}
  Nobody = nobody
  Ids = {1}
  OnOps = {"disconnect"}
  AckOps = {}
  MaxRequests = 1
  MaxDisconnects = 1
  MaxEvents = 1
SPECIFICATION Spec
INVARIANT NoWaitCycle
CHECK_DEADLOCK FALSE
