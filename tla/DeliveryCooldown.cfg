SPECIFICATION FairSpec
CONSTANTS
  Node = {a, b}
  Writers = {a}
  Clearers = {}
  Unreliable = {}
  DocsWork = FALSE
  MaxMessages = 2
  MaxEpoch = 0
  MaxLost = 0
  MaxCrashes = 0
  QueueAfter = 2
PROPERTIES
  EverySendIsDelivered
\* Users may fall silent with nothing owed.
CHECK_DEADLOCK FALSE
