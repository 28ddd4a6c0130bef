\* One peer with two calls, a failing call task and a second answer: what a call
\* leaves behind meets the next one.
SPECIFICATION FairSpec
CONSTANTS
  p1 = p1
  p2 = p2
  Peers = {p1}
  Mates = {p1}
  MaxCalls = 2
  MaxErrors = 1
  MaxStrays = 1
  MaxTakes = 0
PROPERTIES
  ClosedCallIsNoticed
CHECK_DEADLOCK FALSE
