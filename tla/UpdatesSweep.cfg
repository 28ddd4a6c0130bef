\* One friend, one newer build and one launch beside the running program.
SPECIFICATION Spec
CONSTANTS
  Peer = {friend}
  NoPeer = nobody
  MaxBuild = 1
  MaxFiles = 1
  MaxBegins = 1
  MaxLaunches = 1
  MaxFaults = 0
PROPERTIES
  SweepsOnlyLeftovers
CHECK_DEADLOCK FALSE
