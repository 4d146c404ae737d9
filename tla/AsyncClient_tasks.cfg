CONSTANTS
  Poller = poller
  Users = {u1}
  Ids = {1, 2}
  BodyOps = {"request", "disconnect"}
  AckOps = {"emit"}
  Frames = {2}
  MaxCalls = 2
  MaxBodyCalls = 1
  MaxPackets = 2
  MaxAttachments = 1
SPECIFICATION FairSpec
INVARIANT AttachmentsCollected
INVARIANT OutstandingExact
INVARIANT StoppedIsClosed
PROPERTY LossIsHeard
PROPERTY CallsReturn
CHECK_DEADLOCK FALSE
