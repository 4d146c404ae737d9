CONSTANTS
  Senders = {s}
  Closers = {c}
  Poller = p
  Sizes = {1}
  ServerSizes = {0, 2}
  ServerTypes = {"Connect", "BinaryEvent"}
  MaxSends = 2
  MaxPackets = 2
  MaxControls = 1
SPECIFICATION FairSpec
INVARIANT OwnAttachments
INVARIANT PacketsReadable
INVARIANT RefusedAfterDisconnect
PROPERTY PacketsInOrder
PROPERTY CollectingEnds
CHECK_DEADLOCK FALSE
