\* One component runs in each behaviour.
SPECIFICATION Spec
CONSTANTS
  Peers = {p1, p2}
  Sender = {t1, t2}
  Conn = {1, 2}
  PoolCap = 1
  GateCap = 1
  InviteQueue = 1
  MaxLoops = 1
  Offer = {o1, o2}
  File = {f}
  FileOf <- MCFileOf
  MaxAttempts = 2
  MaxChoices = 1
  Participant = {friend}
  Microphone = microphone
  QueueCapacity = 1
  MaxFrames = 3
  MaxGeneration = 2
  Peer = {friend}
  MaxContexts = 2
  MaxToggles = 2
  MaxCommands = 3
  Wrap = 2
  QueueCap = 1
  WireCap = 1
  PacketCap = 1
  MaxStreams = 2
  MaxPipelines = 2
  MaxClicks = 3
  Node = {a, b}
  Writers = {a}
  Clearers = {}
  Unreliable = {a}
  DocsWork = TRUE
  MaxMessages = 2
  MaxEpoch = 0
  MaxLost = 1
  MaxCrashes = 0
  QueueAfter = 1
  MaxFaults = 1
INVARIANTS
  TypeOK
  OneSendPerPeer
  EveryDownloadIsCancellable
  ActiveIsPinned
  SavedIsReceiptedOrPending
  ManifestIsTrue
  ReferenceIsThere
  DeliveredIsHeld
PROPERTIES
  FreshSessionIsKept
\* Users may fall silent, and every component's bounds end its behaviours.
CHECK_DEADLOCK FALSE
