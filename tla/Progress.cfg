\* One component runs in each behaviour.
SPECIFICATION ProgressSpec
CONSTANTS
  MaxFailures = 1
  MaxWishes = 1
  MaxSwitches = 2
  MaxChanges = 3
  MaxLocal = 1
  MaxAcks = 2
  MaxTasks = 2
  MaxOutages = 2
  PageSize = 1
  MaxEntries = 2
  MaxDocs = 2
  OfflineAfter = 2
  UpdateCap = 1
  MaxProbes = 2
  MaxProbeGeneration = 4
  Friend = {friend}
  NoFriend = nobody
  MaxBuild = 1
  MaxFiles = 1
  MaxBegins = 2
  MaxRelaunches = 1
  RingTicks = 1
  TrackCapacity = 1
  FramesPerTick = 1
  MaxUnderflows = 1
  PauseTicks = 1
  Limit = 1
  SkipTicks = 1
  MaxLate = 1
  MaxBuffered = 3
  MaxWire = 1
  MaxLag = 1
  MaxDrift = 1
  MaxLosses = 1
  MaxErrors = 1
  Slots = 3
  EmptyFallback = 2
  ErrorFallback = 2
  Depth = 1
  HoldsBack = 0
  MaxSize = 2
  Textures = 2
  PictureCap = 2
  MaxPools = 2
  Capacity = 1
  MaxFacts = 1
  MaxLaunches = 2
  MaxPictures = 2
  MaxSnapshots = 1
  MaxFetches = 1
  MayRemove = FALSE
INVARIANTS
  ProgressTypeOK
PROPERTIES
  DeletionConverges
  AttachmentArrives
  TimelineFollows
  PresenceConverges
  TransferEnds
  AskedWindowComes
  PictureFollows
  MediaKeepsComing
\* Users may fall silent, and every component's bounds end its behaviours.
CHECK_DEADLOCK FALSE
