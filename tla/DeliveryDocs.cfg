SPECIFICATION FairSpec
CONSTANTS
  Node = {a, b}
  Writers = {a}
  Clearers = {}
  Unreliable = {a}
  DocsWork = TRUE
  MaxMessages = 1
  MaxEpoch = 0
  MaxLost = 2
  MaxCrashes = 1
  QueueAfter = 2
INVARIANTS
  CommittedIsOwedOrDelivered
PROPERTIES
  EverySendIsDelivered
\* Users may fall silent with nothing owed.
CHECK_DEADLOCK FALSE
