SPECIFICATION Spec
CONSTANTS
  Node = {a, b}
  Writers = {a}
  Clearers = {a}
  Unreliable = {a}
  DocsWork = FALSE
  MaxMessages = 1
  MaxEpoch = 1
  MaxLost = 2
  MaxCrashes = 0
  QueueAfter = 1
INVARIANTS
  OwedIsScheduled
  ClearDropsWhatIsOwed
PROPERTIES
  DeliveredIsFinal
\* Users may fall silent with nothing owed.
CHECK_DEADLOCK FALSE
