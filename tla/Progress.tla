------------------------------ MODULE Progress ------------------------------
(***************************************************************************)
(* The components whose properties are about progress, in one              *)
(* specification.  Nothing connects the components: each is the whole      *)
(* system of its part, and its property says nothing of the others.        *)
(***************************************************************************)
EXTENDS Parts

CONSTANTS
  MaxFailures,                    \* MaxFaults of all but two
  MaxWishes, MaxSwitches,         \* MaxChoices of two components each
  MaxChanges, MaxLocal, MaxAcks,  \* MessageDeletions, PresenceProbe
  MaxTasks,
  MaxOutages,                     \* AttachmentDelivery, ChatTimeline
  PageSize, MaxEntries, MaxDocs,  \* ChatTimeline
  OfflineAfter, UpdateCap, MaxProbes,
  MaxProbeGeneration,             \* PresenceProbe
  Friend, NoFriend, MaxBuild, MaxFiles, MaxBegins,
  MaxRelaunches,                  \* Updates
  RingTicks, TrackCapacity, FramesPerTick, MaxUnderflows, PauseTicks, Limit,
  SkipTicks, MaxLate, MaxBuffered, MaxWire, MaxLag, MaxDrift, MaxLosses,
  MaxErrors,                      \* VoicePath
  Slots, EmptyFallback, ErrorFallback, Depth, HoldsBack,
  MaxSize,                        \* CaptureEncoder
  Textures, PictureCap,
  MaxPools,                       \* VideoPresentation, with ErrorFallback
  Capacity, MaxFacts,
  MaxLaunches,                    \* Presenter
  MaxPictures, MaxSnapshots, MaxFetches,
  MayRemove                       \* Profiles

Deletions == INSTANCE MessageDeletions WITH
  MaxFaults <- MaxFailures,
  history <- x1, doc <- x2, held <- x3, pending <- x4, wakes <- x5,
  acks <- x6, staged <- x7, local <- x8, localDisk <- x9, shown <- x10,
  locals <- x11, faults <- x12

Attachments == INSTANCE AttachmentDelivery WITH
  MaxChoices <- MaxWishes, MaxFaults <- MaxOutages,
  sent <- x1, pending <- x2, push <- x3, ack <- x4, known <- x5, fits <- x6,
  kept <- x7, blob <- x8, downloads <- x9, tasks <- x10, finished <- x11,
  retry <- x12, asked <- x13, given <- x14, choices <- x15, faults <- x16

Timeline == INSTANCE ChatTimeline WITH
  MaxFaults <- MaxOutages,
  current <- x1, opening <- x2, subscription <- x3, streams <- x4,
  signals <- x5, entries <- x6, bodies <- x7, limit <- x8, published <- x9,
  faults <- x10

Presence == INSTANCE PresenceProbe WITH
  QueueCap <- UpdateCap, MaxGeneration <- MaxProbeGeneration,
  MaxFaults <- MaxFailures,
  up <- x1, saved <- x2, health <- x3, probes <- x4, inbound <- x5,
  updates <- x6, shown <- x7, changes <- x8, faults <- x9

Updating == INSTANCE Updates WITH
  Peer <- Friend, NoPeer <- NoFriend, MaxLaunches <- MaxRelaunches,
  MaxFaults <- MaxFailures,
  builds <- x1, prompt <- x2, candidates <- x3, commands <- x4, events <- x5,
  asks <- x6, asking <- x7, downloads <- x8, staged <- x9, hosted <- x10,
  process <- x11, helpers <- x12, installed <- x13, begins <- x14,
  launches <- x15, faults <- x16

Voice == INSTANCE VoicePath WITH
  captured <- x1, sink <- x2, out <- x3, sender <- x4, wire <- x5, gap <- x6,
  receiver <- x7, held <- x8, track <- x9, source <- x10, buffered <- x11,
  underflows <- x12, pause <- x13, playing <- x14, phase <- x15, open <- x16,
  losses <- x17, errors <- x18

Encoder == INSTANCE CaptureEncoder WITH
  MaxChoices <- MaxWishes, MaxFaults <- MaxFailures,
  source <- x1, capturing <- x2, size <- x3, arrived <- x4, channel <- x5,
  step <- x6, frame <- x7, encoder <- x8, transform <- x9, mood <- x10,
  listeners <- x11, made <- x12, preview <- x13, stopFlag <- x14,
  startup <- x15, choices <- x16, faults <- x17

Presentation == INSTANCE VideoPresentation WITH
  QueueCap <- PictureCap, MaxChoices <- MaxSwitches, MaxFaults <- MaxFailures,
  decoder <- x1, mood <- x2, pool <- x3, pools <- x4, queue <- x5,
  picture <- x6, fresh <- x7, painted <- x8, presenter <- x9, window <- x10,
  choices <- x11, faults <- x12

Host == INSTANCE Presenter WITH
  MaxChoices <- MaxSwitches,
  process <- x1, request <- x2, visible <- x3, hidden <- x4, onScreen <- x5,
  posted <- x6, active <- x7, toTray <- x8, quitting <- x9, closing <- x10,
  clicks <- x11, redraw <- x12, gui <- x13, retained <- x14, queue <- x15,
  publisher <- x16, fact <- x17, view <- x18, plays <- x19, kept <- x20,
  watcher <- x21, launches <- x22, choices <- x23

Profile == INSTANCE Profiles WITH
  MaxMessages <- MaxSnapshots, MaxFaults <- MaxFailures,
  own <- x1, editing <- x2, chosen <- x3, disk <- x4, commands <- x5,
  announced <- x6, served <- x7, beat <- x8, timeline <- x9, known <- x10,
  bytes <- x11, cache <- x12, cooling <- x13, asked <- x14, fetches <- x15,
  faults <- x16

ProgressInit ==
  \/ part = "deletions" /\ Deletions!Init /\ Zero12
  \/ part = "attachments" /\ Attachments!Init /\ Zero16
  \/ part = "timeline" /\ Timeline!Init /\ Zero10
  \/ part = "presence" /\ Presence!Init /\ Zero9
  \/ part = "updates" /\ Updating!Init /\ Zero16
  \/ part = "voice" /\ Voice!Init /\ Zero18
  \/ part = "encoder" /\ Encoder!Init /\ Zero17
  \/ part = "presentation" /\ Presentation!Init /\ Zero12
  \/ part = "host" /\ Host!Init
  \/ part = "profiles" /\ Profile!Init /\ Zero16

ProgressNext ==
  \/ part = "deletions" /\ Deletions!Next /\ UNCHANGED <<part, After12>>
  \/ part = "attachments" /\ Attachments!Next /\ UNCHANGED <<part, After16>>
  \/ part = "timeline" /\ Timeline!Next /\ UNCHANGED <<part, After10>>
  \/ part = "presence" /\ Presence!Next /\ UNCHANGED <<part, After9>>
  \/ part = "updates" /\ Updating!Next /\ UNCHANGED <<part, After16>>
  \/ part = "voice" /\ Voice!Next /\ UNCHANGED <<part, After18>>
  \/ part = "encoder" /\ Encoder!Next /\ UNCHANGED <<part, After17>>
  \/ part = "presentation" /\ Presentation!Next /\ UNCHANGED <<part, After12>>
  \/ part = "host" /\ Host!Next /\ UNCHANGED part
  \/ part = "profiles" /\ Profile!Next /\ UNCHANGED <<part, After16>>

ASSUME ProgressAssumptions ==
  /\ Deletions!MessageDeletionsAssumption
  /\ Attachments!AttachmentDeliveryAssumption
  /\ Timeline!ChatTimelineAssumption
  /\ Presence!PresenceProbeAssumption
  /\ Updating!UpdatesAssumption
  /\ Voice!VoicePathAssumption
  /\ Encoder!CaptureEncoderAssumption
  /\ Presentation!VideoPresentationAssumption
  /\ Host!PresenterAssumption
  /\ Profile!ProfilesAssumption

(***************************************************************************)
(* Each component's own fairness: WeakFair(i, p) is the i-th weakly fair    *)
(* step of the component that runs, for the friend p where it has one for  *)
(* each; one component has a strongly fair step.  A component without an   *)
(* i-th step never enables it.                                             *)
(***************************************************************************)
WeakFair(i, p) ==
  CASE part = "encoder" -> Encoder!WeakStep(i) /\ UNCHANGED <<part, After17>>
    [] part = "voice" -> Voice!WeakStep(i) /\ UNCHANGED <<part, After18>>
    [] part = "host" -> Host!WeakStep(i) /\ UNCHANGED part
    [] part = "profiles" -> Profile!WeakStep(i) /\ UNCHANGED <<part, After16>>
    [] part = "updates" -> Updating!WeakStep(i, p) /\ UNCHANGED <<part, After16>>
    [] part = "timeline" -> Timeline!WeakStep(i) /\ UNCHANGED <<part, After10>>
    [] part = "presence" -> Presence!WeakStep(i) /\ UNCHANGED <<part, After9>>
    [] part = "deletions" -> Deletions!WeakStep(i) /\ UNCHANGED <<part, After12>>
    [] part = "presentation" -> Presentation!WeakStep(i) /\ UNCHANGED <<part, After12>>
    [] part = "attachments" -> Attachments!WeakStep(i) /\ UNCHANGED <<part, After16>>

StrongFair ==
  part = "encoder" /\ Encoder!StrongStep(1) /\ UNCHANGED <<part, After17>>

Fairness ==
  /\ \A i \in 1..9, p \in Friend : WF_allVars(WeakFair(i, p))
  /\ SF_allVars(StrongFair)

\* What the components may do, and that they go on doing it.
ProgressSafe == ProgressInit /\ [][ProgressNext]_allVars
ProgressSpec == ProgressSafe /\ Fairness

-----------------------------------------------------------------------------
\* Every component's variables have the values the code gives them.
ProgressTypeOK ==
  /\ part = "deletions" => Deletions!TypeOK
  /\ part = "attachments" => Attachments!TypeOK
  /\ part = "timeline" => Timeline!TypeOK
  /\ part = "presence" => Presence!TypeOK
  /\ part = "updates" => Updating!TypeOK
  /\ part = "voice" => Voice!TypeOK
  /\ part = "encoder" => Encoder!TypeOK
  /\ part = "presentation" => Presentation!TypeOK
  /\ part = "host" => Host!TypeOK
  /\ part = "profiles" => Profile!TypeOK

\* The member's timeline comes to show the author's last choice, whatever was
\* lost, late or repeated, unless an older restoration lies over the document
\* (chat.rs publish_timeline, apply_control_acks, merge_staged_deletions).
DeletionConverges ==
  <>[](part = "deletions" => Deletions!ShowsTheLastWord \/ Deletions!StaleRestoration)

\* A wanted image comes to be in the blob store, unless it was stored without a
\* tag, collected, and is forgotten (chat.rs retry_due_controls,
\* request_missing_attachments).
AttachmentArrives ==
  []<>(part = "attachments" =>
         Attachments!Held \/ ~Attachments!Wanted \/ Attachments!Forgotten)

\* Every message of the document comes to be on screen or within reach, however
\* its event stream breaks, unless the document could not be opened again or the
\* last reading has failed (chat.rs open_and_publish, publish_timeline).
TimelineFollows ==
  <>[](part = "timeline" =>
         Timeline!ScreenIsCurrent \/ Timeline!Detached \/ Timeline!IsUnpublished)

\* The screen comes to say of a contact what is the case, unless it shows an
\* answer that a newer failure overtook on its way to the queue
\* (client_status.rs announce_online).
PresenceConverges ==
  <>[](part = "presence" => Presence!ShownIsTrue \/ Presence!ShownIsLate)

\* An accepted update is installed or its end is shown, unless the friend has
\* accepted the connection and never answers (worker.rs on_peer_update_finished,
\* peer_update.rs download_update).
TransferEnds == []<>(part = "updates" => Updating!HasEnded \/ Updating!Stalled)

\* A launch that finds the program running gets its window (activation.rs,
\* app.rs), whatever else shows, hides and closes it.
AskedWindowComes == []<>(part = "host" => Host!IsAnswered)

\* A picture its owner has settled on is the one friends see, for good
\* (profile_ui.rs).
PictureFollows ==
  <>[](part = "profiles" => Profile!IsSettled)
    => <>[](part = "profiles" => Profile!IsSeen)

\* Voice is heard, pictures are encoded and presented again and again, whatever
\* pauses, fails or is replaced on the way, as long as no transform starves after
\* it has refused a frame and no hardware decoder stays silent (opus.rs,
\* screen_capture.rs, win_mf_codec.rs, video_decode.rs).
MediaKeepsComing ==
  /\ []<>(part = "voice" => Voice!IsHeard)
  /\ <>[](part = "encoder" => Encoder!IsWatched /\ ~Encoder!Starved)
       => /\ []<>(part = "encoder" => Encoder!IsMade)
          /\ []<>(part = "encoder" => ~Encoder!IsMade)
  /\ <>[](part = "presentation" => Presentation!IsShown /\ ~Presentation!IsSilent)
       => /\ []<>(part = "presentation" => Presentation!IsPainted)
          /\ []<>(part = "presentation" => ~Presentation!IsPainted)
=============================================================================
