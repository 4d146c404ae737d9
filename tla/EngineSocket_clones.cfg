CONSTANTS
  Pollers = {p1, p2}
  Users = {u1}
  ServerIds = {"Ping", "Message", "Close", "Invalid"}
  Reopens = TRUE
  MaxPackets = 3
  MaxBatch = 2
  MaxCalls = 3
SPECIFICATION Spec
SYMMETRY PollerSymmetry
INVARIANT EachPacketOnce
INVARIANT LateFrameBound
