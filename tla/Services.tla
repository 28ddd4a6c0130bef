------------------------------ MODULE Services ------------------------------
(***************************************************************************)
(* The components whose properties are about safety, in one specification. *)
(* Nothing connects the components: each is the whole system of its part,  *)
(* and its property says nothing of the others.  Those whose proofs have a *)
(* module of their own are instantiated with their theorems.               *)
(***************************************************************************)
EXTENDS Parts

CONSTANTS
  Peers, Sender, Conn, PoolCap, GateCap, InviteQueue,
  MaxLoops,                       \* ChatSessions
  Offer, File, FileOf, MaxAttempts,
  MaxChoices,                     \* FileTransfers
  Participant, Microphone, QueueCapacity, MaxFrames,
  MaxGeneration,                  \* CallRecording
  Peer, MaxContexts, MaxToggles,
  MaxCommands,                    \* CallAudio
  Wrap, QueueCap, WireCap, PacketCap, MaxStreams, MaxPipelines,
  MaxClicks,                      \* ShareStreams, where it is MaxChoices
  Node, Writers, Clearers, Unreliable, DocsWork, MaxMessages, MaxEpoch,
  MaxLost, MaxCrashes,
  QueueAfter,                     \* ChatDelivery
  MaxFaults                       \* the bound of whichever component runs

Sessions == INSTANCE ChatSessions_proofs WITH
  pool <- x1, gates <- x2, senders <- x3, accepting <- x4, inbox <- x5,
  closed <- x6, faults <- x7

Transfers == INSTANCE FileTransfers_proofs WITH
  offered <- x1, stopped <- x2, stoppedDisk <- x3, sharing <- x4,
  publishing <- x5, uploads <- x6, pendingDisk <- x7, pins <- x8, tags <- x9,
  blobs <- x10, saved <- x11, receipts <- x12, pending <- x13, active <- x14,
  tasks <- x15, reports <- x16, shown <- x17, attempts <- x18, choices <- x19,
  faults <- x20, dismissed <- x21

Recording == INSTANCE CallRecording WITH
  session <- x1, speakers <- x2, stop <- x3, tap <- x4, queue <- x5,
  writer <- x6, file <- x7, frames <- x8, outcome <- x9, ticks <- x10,
  dropped <- x11, source <- x12, decoder <- x13, hungUp <- x14,
  summary <- x15, deviceGone <- x16, faults <- x17

Audio == INSTANCE CallAudio WITH
  shown <- x1, wanted <- x2, commands <- x3, opened <- x4, context <- x5,
  running <- x6, call <- x7, recording <- x8, up <- x9, toggles <- x10

Streams == INSTANCE ShareStreams_proofs WITH
  MaxChoices <- MaxClicks,
  worker <- x1, encoder <- x2, sender <- x3, wire <- x4, controls <- x5,
  receiver <- x6, orders <- x7, decoder <- x8, window <- x9, missed <- x10,
  choices <- x11, faults <- x12

Delivery == INSTANCE ChatDelivery_proofs WITH
  replica <- x1, service <- x2, inbox <- x3, lost <- x4, crashes <- x5,
  sent <- x6

Init ==
  \/ part = "sessions" /\ Sessions!Init /\ Zero7
  \/ part = "transfers" /\ Transfers!Init /\ Zero21
  \/ part = "recording" /\ Recording!Init /\ Zero17
  \/ part = "audio" /\ Audio!Init /\ Zero10
  \/ part = "streams" /\ Streams!Init /\ Zero12
  \/ part = "delivery" /\ Delivery!Init /\ Zero6

Next ==
  \/ part = "sessions" /\ Sessions!Next /\ UNCHANGED <<part, After7>>
  \/ part = "transfers" /\ Transfers!Next /\ UNCHANGED <<part, After21>>
  \/ part = "recording" /\ Recording!Next /\ UNCHANGED <<part, After17>>
  \/ part = "audio" /\ Audio!Next /\ UNCHANGED <<part, After10>>
  \/ part = "streams" /\ Streams!Next /\ UNCHANGED <<part, After12>>
  \/ part = "delivery" /\ Delivery!Next /\ UNCHANGED <<part, After6>>

Spec == Init /\ [][Next]_allVars

ASSUME ServiceAssumptions ==
  /\ Sessions!ChatSessionsAssumption
  /\ Transfers!FileTransfersAssumption
  /\ Recording!CallRecordingAssumption
  /\ Audio!CallAudioAssumption
  /\ Streams!ShareStreamsAssumption

\* Those of ChatDelivery, which states them itself.
ASSUME DeliveryAssumptions ==
  /\ Writers \cup Clearers \cup Unreliable \subseteq Node
  /\ MaxMessages \in Nat
  /\ MaxEpoch \in Nat
  /\ MaxLost \in Nat
  /\ MaxCrashes \in Nat
  /\ QueueAfter \in Nat \ {0}
  /\ DocsWork \in BOOLEAN

-----------------------------------------------------------------------------
\* Every component's variables have the values the code gives them.
TypeOK ==
  /\ part = "sessions" => Sessions!TypeOK
  /\ part = "transfers" => Transfers!TypeOK
  /\ part = "recording" => Recording!TypeOK
  /\ part = "audio" => Audio!TypeOK
  /\ part = "streams" => Streams!TypeOK
  /\ part = "delivery" => Delivery!TypeOK

\* Two tasks never send or dial to one peer at once (chat.rs peer_gate).
OneSendPerPeer == part = "sessions" => Sessions!OneSendPerPeer

\* The end of an old connection never takes a fresh pooled one with it
\* (chat.rs forget_pooled_if).
FreshSessionIsKept ==
  [][part = "sessions" => Sessions!FreshSessionStays]_allVars

\* No download runs that the user cannot stop (chat.rs cancel_file, finish).
EveryDownloadIsCancellable ==
  part = "transfers" => Transfers!EveryDownloadIsCancellable

\* The blob of a download in progress is pinned (chat.rs release_pins).
ActiveIsPinned == part = "transfers" => Transfers!ActiveIsPinned

\* A saved file has its receipt, or is recorded on disk as unfinished, or its
\* download was cancelled (chat.rs finish_download).
SavedIsReceiptedOrPending ==
  part = "transfers" => Transfers!SavedIsReceiptedOrPending

\* What the manifest of a recording says of a speaker without an error is what
\* the speaker's file holds, which is behind the clock by one frame for every
\* track that ended and by what was dropped (recording.rs).
ManifestIsTrue == part = "recording" => Recording!ManifestIsTrue

\* No picture is decoded without its reference (video.rs).
ReferenceIsThere == part = "streams" => Streams!ReferenceIsThere

\* Only what a peer has is shown as delivered (chat.rs apply_direct_receipts,
\* publish_timeline).
DeliveredIsHeld == part = "delivery" => Delivery!DeliveredIsHeld
=============================================================================
