\* Two peers and two calls: every pair of an old and a new call of one peer, and
\* of calls of two peers, and one call task that fails.
SPECIFICATION Spec
CONSTANTS
  p1 = p1
  p2 = p2
  Peers = {p1, p2}
  Mates = {p1, p2}
  MaxCalls = 2
  MaxErrors = 1
  MaxStrays = 0
  MaxTakes = 1
SYMMETRY Symmetry
INVARIANTS
  TypeOK
  EveryCallIsWatched
  NoConnectionIsOrphaned
  OnlyCallsAreDialled
  ScreenIsTold
  VideoFollowsTheCalls
PROPERTIES
  RefinesLines
  RecorderNeverGoesBack
  ManualRecordingIsTheUsers
\* The calls are used up, or nobody calls.
CHECK_DEADLOCK FALSE
