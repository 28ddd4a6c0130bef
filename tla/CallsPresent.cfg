\* One peer and one call, in which the user starts to record.
SPECIFICATION Spec
CONSTANTS
  p1 = p1
  p2 = p2
  Peers = {p1}
  Mates = {}
  MaxCalls = 1
  MaxErrors = 0
  MaxStrays = 0
  MaxTakes = 1
INVARIANT
  PeersPresentAreRecorded
CHECK_DEADLOCK FALSE
