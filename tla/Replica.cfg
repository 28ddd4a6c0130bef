SPECIFICATION Spec
CONSTANTS
  Node = {a, b}
  Doc = {1, 2, 3}
  Founders = {a, b}
  Clearers = {a}
  Writers = {b}
  MaxEpoch = 1
  MaxLost = 0
  MaxCrashes = 1
  MaxErrors = 1
INVARIANTS
  TypeOK
  NothingFromBeforeTheReset
  DroppedNeverReturns
  AckedEpochIsPersisted
  OwnMessagesKeptByHandlers
PROPERTIES
  RefinesElection
\* Every user may fall silent with nothing owed and nothing on its way.
CHECK_DEADLOCK FALSE
