SPECIFICATION FairSpec
CONSTANTS
  Node = {a, b}
  Doc = {1, 2}
  Founders = {a, b}
  Clearers = {}
  Writers = {}
  MaxEpoch = 0
  MaxLost = 1
  MaxCrashes = 0
  MaxErrors = 0
PROPERTIES
  ConcurrentCreationConverges
\* Every user may fall silent with nothing owed and nothing on its way.
CHECK_DEADLOCK FALSE
