SPECIFICATION FairSpec
CONSTANTS
  Node = {a, b}
  Doc = {1, 2}
  Founders = {a, b}
  Clearers = {a}
  Writers = {}
  MaxEpoch = 1
  MaxLost = 1
  MaxCrashes = 1
  MaxErrors = 1
PROPERTIES
  EpochReachesEveryone
\* Every user may fall silent with nothing owed and nothing on its way.
CHECK_DEADLOCK FALSE
