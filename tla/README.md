# Formal models of Wire

Wire is a peer-to-peer voice, video and chat application: two or more
installations talk directly over QUIC (iroh), with no server. This directory
holds TLA+ models of its logic, the TLC configurations that check them on
small instances, and theorems about them that TLAPS checks for every instance.

Run a check with `tlc -config Calls.cfg MCCallWorker.tla` and the proofs with
`tlapm CallWorker_proofs.tla`. `PROJECT.json` lists the components, the runs, the
code each definition stands for, and the hazards with the properties that watch them.

## The system

| Part | State it keeps | What is hard | What makes it correct | Module |
|---|---|---|---|---|
| Conversation replicas (`chat.rs`) | `index.json`: document id and history epoch of each conversation; the docs store; who is owed an invitation | members act concurrently; invitations are lost, late, repeated; crashes between the awaits of one handler | members settle on one document; a cleared history stays cleared; nothing an author wrote is lost | `ReplicaElection`, `ConversationReplica` |
| Message delivery (`chat.rs`) | pending deliveries, retry state, wakes in flight, staged messages, receipts | answers race retries; receipts and messages travel on two channels | everything sent reaches the peer and is shown delivered only then | `ChatDelivery` |
| Timeline (`chat.rs`) | one document subscription, signals of event streams, the page shown | a stream ends while the conversation moves to another document | the screen follows the document | `ChatTimeline` |
| Deletions (`chat.rs`) | entries of the document, reliable queue, staged and local deletions | opposite changes in flight at once, on two channels | the last choice is shown | `MessageDeletions` |
| Attachments (`chat.rs`, `app.rs`) | retry schedule, tasks, tags, pushes owed | a push, several downloads and garbage collection at once | what is wanted is fetched | `AttachmentDelivery` |
| Files (`chat.rs`, `chat/blob_provider.rs`) | pending downloads on disk, pins, stopped files, attempts | cancel races completion; crashes with partial blobs | what is cancelled ends; what is fetched is pinned; what is saved is acknowledged | `FileTransfers` |
| Session pool (`chat.rs`) | at most 8 warm connections, gates of the peers | tasks share a connection that dies under one of them | one dial a peer; a fresh connection is not dropped by a stale failure | `ChatSessions` |
| Call worker (`runtime/worker.rs`, `wire/src/rtc`) | calls by generation, their tasks, capture and recording | a task of an ended call reports after a new one began | events of an old call never touch the new one | `CallLines`, `CallWorker` |
| Recording (`recording.rs`) | taps, bounded queues, writers, decoders by generation | disk, device and track end at different times | the manifest is true | `CallRecording` |
| Voice (`wire/src/audio`, `codec/opus.rs`, `rtc`) | rings, broadcast tracks, sample builder, decoder buffer | clocks drift, packets are lost, buffers run over and short | voice comes again | `VoicePath` |
| Call audio (`worker.rs`, `app.rs`) | mute and deafen in the window, the worker and every context | contexts are replaced under a call | the buttons are obeyed | `CallAudio` |
| Video streams (`runtime/video.rs`, `wire/src/video`) | subscriptions, streams, keyframe requirements, control messages | lag, congestion, pause, replacement | no picture without its reference | `ShareStreams` |
| Capture and encoding (`screen_capture.rs`, `win_capture.rs`, `win_mf_codec.rs`) | capture source, channel, chain of encoders | a transform refuses, goes silent, waits for input | pictures keep coming | `CaptureEncoder` |
| Decoding and presentation (`video_decode.rs`, `win_video_presenter.rs`) | decoder, pool of textures, presenter | textures are held while decoders are replaced | pictures keep being shown | `VideoPresentation` |
| Presence (`client_status.rs`) | health of each peer, with a generation | a probe's failure arrives after newer evidence | the screen comes to be right | `PresenceProbe` |
| Updates (`peer_update.rs`, `update.rs`, `main.rs`) | prompt, transfer of each peer, staged files, the helper | flows are replaced; processes overlap | an accepted update ends; nothing in use is swept | `Updates` |
| Window, events and host (`app.rs`, `main.rs`, `activation.rs`, `runtime/mod.rs`) | flags of the window, the queue of events, the instance lock | two threads write the same flags; the queue is full | a launch gets its window | `Presenter` |
| Profiles (`profile.rs`, `app/profile_ui.rs`) | own picture, announced hash, caches, fetches | old announcements and fetches arrive late | friends see the last picture | `Profiles` |
| Notifications, persistence, endpoint, remote logs, command-line client | see Not modelled | | | |

The chat service is one Tokio task: it selects over its input queues and runs
one handler to its end, so handlers of one member never interleave with each
other, but a handler awaits and a crash may fall on any await. Wakes, transfers
and probes run in tasks of their own and report back by a queue. The worker is
a second such task. The screen is the GUI thread; capture, encoding, decoding, the
taps of a recording and the loops of the sound cards run on threads of their own.

The parts meet as follows. The document of an epoch that `ChatDelivery`, `MessageDeletions`,
`AttachmentDelivery` and `ChatTimeline` take as given is the one `ConversationReplica` elects
(`ChatTimeline` has the move as an action). Wakes and pushes go through the pool of `ChatSessions`.
The worker of `CallWorker` starts and ends the tracks of `VoicePath`, the contexts of
`CallAudio`, the recorders of `CallRecording` and the streams of `ShareStreams`; the
pictures in `ShareStreams` are made by `CaptureEncoder` and shown by `VideoPresentation`;
its events reach the window through the queue of `Presenter`. Where two modules meet, one has
the other's part as an external action that may happen at any time, which allows
more than the other part does.

## Plan

Done: every module of the table, a theorem for every safety property that a run checks, and
the two refinements, of `ReplicaElection` by `ConversationReplica` and of `CallLines` by
`CallWorker`. Left, in this order:

1. A third refinement: a write-once mailbox that `ChatDelivery` implements.
2. Compositions: two members of `ChatSessions` with the wakes of `ChatDelivery`; `CallWorker`
   with `ShareStreams`.

## Runs at a glance

| Run | Module and configuration | Expected |
|---|---|---|
| `replica`, `replica_reach` | `MCConversationReplica`, `Replica.cfg`, `ReplicaReach.cfg` | pass |
| `replica_split` | `MCConversationReplica`, `ReplicaSplit.cfg` | violation |
| `delivery_race`, `delivery_docs` | `MCChatDelivery`, `DeliveryRace.cfg`, `DeliveryDocs.cfg` | pass |
| `delivery_cooldown` | `MCChatDelivery`, `DeliveryCooldown.cfg` | violation |
| `calls`, `calls_end` | `MCCallWorker`, `Calls.cfg`, `CallsEnd.cfg` | pass |
| `calls_present` | `MCCallWorker`, `CallsPresent.cfg` | violation |
| `services` | `MCServices` (an instance of `Services`), `Services.cfg` | pass |
| `progress` | `Progress`, `Progress.cfg` | pass |
| `updates_sweep` | `Updates`, `UpdatesSweep.cfg` | violation |

## Conversation replicas

`ReplicaElection` is the promise: members name replicas, a replica is a document
with an epoch, and a member only moves to an existing replica that outranks the
one it names (higher epoch, then smaller document id). `ConversationReplica` is
the service.

| Model | Code |
|---|---|
| `index`, `invites`, `held`, `store` | `index.json`, the `invites` of `reliable-control.json`, the documents of the docs store and their messages |
| `task[n]` | the handler that runs: each of its awaited writes is an action, so that a crash may fall between two |
| `EnsureDirect`, `ClearHistory`, `PersistFounded`, `InviteMembersWait` | `ensure_direct`, `create_group`, `clear_history`, `rotate_conversation_document`, `invite_members_wait` |
| `AcceptInvite`, `DropDocument`, `MigrateMessages`, `RecordInvite` | `accept_invite` and the invitation branch of `process_input` |
| `RetryInvites`, `ApplyControlAcks` | `retry_due_controls`, `apply_control_acks` |
| `SyncDocument`, `LosePacket` | iroh-docs and the network, external |
| `Restart`, `HandlerFails` | `initialize`; an error after `persist_index` |

A message is its author and the epoch it was written in, so at most one message
of each kind exists: the properties are about which document it is in, never
about how many there are. An invitation on its way is a set element: the same
invitation twice is the same element, and a retry puts it back.

### Runs

| Run | Instance | Shows |
|---|---|---|
| `replica` | 2 members, 3 documents, both open, one clears, one writes, 1 crash, 1 failing handler | typing; refinement of `ReplicaElection`; cleared messages stay away, dropped documents are never named again, acknowledged epochs are on disk, own messages follow their author through every handler that finishes |
| `replica_reach` | 2 members, 2 documents, both open, one clears, 1 packet lost, 1 crash, 1 failing handler | every epoch a member holds reaches every member, unless a member's own queue entry stays behind its index for good (`QueueIsBehind`) |
| `replica_split` (violation) | both open, 1 packet lost | members stay split, see Findings |

Two members are the whole of a direct conversation. Three documents allow two
concurrent foundings and a clear; one epoch past the first makes every order
of an old and a new invitation happen. `CHECK_DEADLOCK FALSE` because every user may fall silent.

Fairness: a started handler finishes (weak); every packet that keeps being in
the queue is taken, and the retry clock keeps ticking (strong, for a busy
service disables them again and again, while its `select!` is unbiased).

### Proofs

`ConversationReplica_proofs` proves for any members, documents and bounds that
`Inv` is inductive. The safety properties are not inductive alone:
`NothingFromBeforeTheReset` needs that a document belongs to one epoch
(`OneReplicaPerDoc`), that everything named, invited or kept for migration has been
founded (`KnownReplicas`), what the handler in progress may assume at each of its steps
(`TaskInv`) and that a document nobody founded is empty (`EmptyUnlessFounded`).
The assumptions are those of `ConversationReplica`: document ids are ordered as
naturals, bounds are naturals, users are members. `ImplementsElection` maps every step to
`Create`, `Choose` or a stutter.

`OwnMessagesStay` has an invariant of its own, `OwnInv`, beside `Inv`: a message written is not of
an epoch its author has yet to reach (`SentInThePast`), a founding in progress is above the
author's index (`FoundedAbove`), and, as long as nothing was cut short, each message is carried
(`AllCarried`): it is in the document its author names or, while a handler runs, in what that
handler has read and will migrate. It is the second half that makes it inductive: at each of
the awaits of an adoption the message is in another place. Liveness stays with TLC: the
prover has no support for fairness.

### Findings

- An ignored invitation overwrites the receiver's own queue entry
  (`process_input`), so a canonical invitation that was lost is never repeated.
- A crash between the write of the index and the migration loses the author's
  messages (`accept_invite`). No run of its own: with `OwnMessagesKept` in place of
  `OwnMessagesKeptByHandlers` in `Replica.cfg` TLC shows it.

### Not modelled here

`load_messages(...).unwrap_or_default()` failing, an index that cannot be
written, invitation metadata and titles, retention.

## Message delivery

`ChatDelivery` is one conversation of the chat service: the author's messages, the wakes
that carry them, the receipts that come back, and the screen.

| Model | Code |
|---|---|
| `replica[n]` | the member's copy of the document: messages and receipts of the present epoch |
| `service[n].pending`, `.retry`, `.failures` | `pending_deliveries`, the messages of `retry_state`, `wake_failures` |
| `.staged`, `.cooldown` | `staged_inbound`, `receipt_wake_cooldown` |
| `.wakes`, `.finished`, `.changed` | the wake tasks that run, their unread reports, the signal of a remote insert |
| `.shown`, `.timeline` | the delivery state and the messages last published to the screen |
| `SendMessage`, `RetryDueDeliveries`, `ApplyWakeFinished` | `send_message`, `retry_due_deliveries`, `apply_wake_finished` |
| `ApplySyncRequest`, `DocumentChanged` | the sync request and the document event branches of `process_input` |
| `PublishTimeline` | `publish_timeline` with `merge_staged_inbound` and `acknowledge_received_messages`, which every handler ends with |
| `ClearHistory`, `AdoptReset` | `clear_history`, `accept_invite` of a higher epoch |
| `Restart` | `initialize` and `restore_pending_delivery_retries` |
| `WakePeers`, `SyncDocument` | a wake task at the network; iroh-docs, external |

A handler is one action: it runs to its end before the next input is taken. The
tasks of the wakes are separate, so any number of them may be under way or
unread while messages, receipts and clears are handled. A message carries its epoch, so that
a packet from before a clear is told from one after it; the code's packet
carries no epoch, and the model does not let the receiver look at it.

### Runs

| Run | Instance | Shows |
|---|---|---|
| `delivery_race` | one writer who also clears, one message before and one after the clear, 2 failing wakes, queued after 1 failure, no document sync | what is owed is of the present history, has a timer, and nothing else has; what is delivered stays delivered |
| `services` (its part `delivery`) | one writer, 2 messages, 1 failing wake, documents sync, no clear | typing; delivered messages are held by the peer |
| `delivery_docs` | one message, 2 failing wakes, 1 crash, documents sync | a committed message is owed or delivered, and is delivered in the end |
| `delivery_cooldown` (violation) | two messages, no failure, no document sync | a receipt dropped by the cooldown is never sent again, see Findings |

Two members are a direct conversation. Two messages of one writer are the least
that let a receipt, a retry and a report concern different sets of messages, and one on each side
of a clear the least that let a late report concern a history that is gone;
`QueueAfter` is `CHAT_QUEUE_AFTER_FAILURES` and 1 or 2 instead of 5, for only being
below it or at it is told apart. A crash restarts the author or the receiver at any moment
between two handlers. `DeliveredIsHeld` speaks of behaviours until their first crash and their
first clear (`Undisturbed`): the staged messages of the receiver are volatile, and adopting a
cleared history drops them.

Fairness is weak for every input of the loop, every wake and every timer:
`select!` chooses without bias among ready inputs, a wake ends by its own timeouts,
timers stay armed until they fire. Synchronising documents is fair only where
`DocsWork` is TRUE. Failures are bounded by `MaxLost`: from some point on the peer is reachable.

### Proofs

`ChatDelivery_proofs` proves an inductive `Inv` for any members and bounds: each
member's service is `Sound` (typed, pending equals retried, what is owed is of the
present epoch and by the member), `CommittedAt` (an own message of the document is owed or
delivered), the author's document has all it sent, and no message is of an
epoch to come. `TypeCorrect`, `OwedIsAlwaysScheduled`, `CommittedIsNeverForgotten`,
`ClearForgetsDeliveries` follow, and `DeliveredStaysDelivered` for every step. The lemma
`Keeps` carries all of it through `publish_timeline`.

`DeliveredIsReallyHeld` needs to know where "delivered" comes from: `HonestInv` says that, until the
first crash or clear, every receipt anywhere, in a document, a wake or a request, is true, that is,
its giver has the message in its document or staged, and that behind every "delivered" on
a screen there is such a receipt of another member. It is inductive relative to `Inv`: a receipt is
given for what is in the document, a staged message leaves only when the document has it, and no
other step of an undisturbed behaviour takes a message from a member. Only model-checked: liveness.

### Findings

- Receipts of a wake inside the two seconds of the cooldown are dropped after they were
  written to the document, and only receipts that are not in the document yet
  are offered to a wake (`acknowledge_received_messages`, `spawn_receipt_wake`):
  without document sync the author never learns of the delivery.

Two more things met while modelling, with no run of their own.
`resume_queued_deliveries` never does anything, because it returns when the retry
state is not empty and every pending message is in it (lemma `ResumedSame`), while
`docs/chat-offline-queue.md:29` describes it as the way out of the queue. A wake on its way
while the receiver clears the history shows its message in the new history, because the
packet does not say which epoch it is of.

### Not modelled here

The payload budget of a wake, a local insert that fails, paging and retention of the
timeline; deletions and attachments have modules of their own.

## Calls

`CallWorker` is the call state of the worker's task: the entries of the calls, the four
kinds of tasks that act for them, and what hangs on the calls, the recording and the share.

`CallLines` is the promise, with none of the tasks, reports and connections: each peer has one
line; a call is begun on a free line under a number no call had, is taken at most
once, keeps its number and leaves the line free; voice starts only with the taking of
the call on the line, may outlast it, and once silent stays silent; and without an audio device a call is taken in
silence or the worker stops. `Lines` in `CallWorker` is the refinement mapping: the
state of a line is what the screen is told of the entry (`Label`), and the voices are the call tasks that have
not ended.

| Model | Code |
|---|---|
| `calls`, `generation`, `begun`, `aborts` | `active_calls`, `call_generations`, `next_call_generation`, `connect_aborts` |
| `tasks` | `connect_tasks`, `track_tasks`, `incoming_tasks`, `call_tasks`: what runs, and what has reported and is not yet read |
| `open` | the QUIC connections of the calls, by peer and call |
| `handed`, `recording`, `speakers`, `preference` | `voice_track_rx`, `recording`, the taps `attach_recorder_for` installs, `record_calls_automatically` |
| `sharing`, `senders`, `receivers` | `sharing_active`, the peers' video senders and receivers |
| `room`, `news`, `audio`, `running` | `local_group_call`, the last `SetCallState` of each peer, `audio_context`, the loop of `run` |
| `Call`, `Answer`, `Reject`, `Abort`, `EnterGroupCall`, ... | the branches of `handle_command` |
| `HandleConnection` | `handle_incoming` |
| `ConnectReport`, `TrackReport`, `IncomingReport`, `CallReport`, `OnVoiceTrack` | the branches of the `select!` in `run` |
| `ConnectEnds`, `TrackEnds`, `IncomingEnds`, `HandsBackTrack`, `CallEnds`, `VideoReceiverEnds` | the ends of the spawned tasks |
| `ConnectionCloses` | the peer or the network, external |

The worker runs one handler to its end. A task is finished before its report is
read, so between the two anything else may be handled; that is the interleaving the
generations exist for. Commands may come at any time: the screen is drawn from events
it may not have read yet, so a click may concern a state that is gone.

### Runs

| Run | Instance | Shows |
|---|---|---|
| `calls` | 2 peers that also share a group call, 2 calls, 1 failing call task, 1 recording | typing; refinement of `CallLines`; every call is watched by a task of its own; no connection is left open behind the calls; hanging up stops the dial; the screen is told; video follows the calls; recorders never go back; a manual recording is the user's |
| `calls_end` | 1 peer, 2 calls, 1 failing call task, 1 stray answer | a call whose connection has closed goes away |
| `calls_present` (violation) | 1 peer, 1 call | a peer who is in the call when the recording starts is not recorded, see Findings |

Two calls are an old one and a new one of one peer, or one of each peer, and every
stale report needs no more. The peers are interchangeable, hence the
symmetry in `calls`, which checks no liveness. `CHECK_DEADLOCK FALSE` because the
calls are bounded and users may fall silent.

Fairness in `calls_end`: the worker reads every report (its `select!` is unbiased), and a
task whose connection has closed notices it. Nothing obliges a peer to answer, a
dial to end or a user to act.

`errors` and `strays` count two events that some properties exclude, because the code
does not keep them there. A call task that fails on an open connection ends the
call and leaves the connection to the senders of its tracks. An answer to a call that
does not ring (`StrayAnswer`; a second click, or a click on a call that is gone) removes
the entry, for `HandleIncoming` takes it out before it looks at its state: an active call
goes on and cannot be hung up.
`EveryCallIsWatched` and `ClosedCallIsNoticed` hold with both.

### Proofs

`CallWorker_proofs` proves for any peers and bounds: `TypeCorrect`; `CallsAreWatched`, which is
inductive once a task is compared by its kind, peer and call (`AllAttended`), because a
report that is not taken as news is never the one the present call waits for;
`RecordersGoForward`, from the invariant that what a recorder decodes is not newer than
the current call and that call numbers only grow (`RecordersInOrder`); and
`ManualRecordingIsKept`, for every step. The assumption used is that the peers are finite
and the bounds natural numbers.

The other safety properties rest on two more invariants. `TasksInOrder`: no task is of a call
to come, a task of the present call is of a kind that suits its state, and a call has
one task, or a dialogue and the call it became. `AllTruthful`, without stray answers: the number of a
peer's call is the one its generation says, the screen was told its state, and a dial that
runs is that of a call in the state calling, whose handle can abort it. `DialsAreOfCalls` and
`ScreenIsToldAlways` are parts of the latter. `ConnectionsAreHeld` also needs `EndsAreClosed`: a task that has
ended by itself saw its connection closed, so that a report which removes a call leaves no
connection. `VideoIsOfTheCalls` is inductive on top of them. Liveness is model-checked only.

`ImplementsLines` is the refinement, for any peers and bounds and with stray answers and
failing tasks: dialling is `Dial`, an incoming call `Ring` or, from a mate of the
group call, `LetIn`, an accepted one `Take`, the end of a call task `Silence`, and every removal of
an entry `End`, or a stutter when there is none. It needs `AllAttended` for one thing: a report is
matched to a call by `generation`, while the line shows the number in the entry, and the two
agree as long as the worker runs (`CurrentEntry`).

### Findings

- `start_recording` walks over the tracks of the peers present before it stores the
  recording that `attach_recorder_for` looks for, so it attaches none of them, and a call
  hands its track back only once.

Observed while modelling, with no run of their own: switching automatic recording off
stores the preference before `stop_auto_recording` looks at it, so the recording goes on and
survives the calls (`worker.rs:1446`, against `docs/per-speaker-call-recording.md:106`);
an automatic recording may start while a call only rings and stays when the caller gives up;
the end of any one call ends it for all; without an audio context an accepted call stays
listed as active and, when it was accepted from the loop, stops the worker; two peers who
dial each other at once both refuse.

### Not modelled here

Shutdown, volumes and system audio; audio settings, the capture pipeline behind a share
(here only its failure, as `StopSharing`), presence (here `Mates` is a constant) and the media
streams have modules of their own. `peer_voice_tracks` is left out: only `start_recording` reads it, to no effect.

## The services and media in two runs

The other fifteen modules are systems of their own. `Services` (`services`)
instantiates those whose properties are about safety and one instance of `ChatDelivery`, with their
parameters for its own, which `Services.cfg` gives values;
`Progress` (`progress`) instantiates those whose properties are about progress. Both have the set
of variables of `Parts`, `x1`, `x2`, ..., with a variable `part` that the first state chooses: in each
behaviour one component runs, on the first of the variables, and the others stay 0. So one run
explores each component by itself, no product is built, and each property reads
`part = "..." => ...`, which is the component's own property. The fairness of `progress`
is `WeakFair(i)`, the i-th weakly fair step of the component that runs.

| Component | Instance | Properties |
|---|---|---|
| `ChatSessions` | 2 peers, 2 tasks, 2 connections, pool and table of gates of 1, 1 fault | `OneSendPerPeer`, `FreshSessionIsKept` |
| `FileTransfers` | 2 offers of one file, 2 attempts, the owner stops or resumes once, 1 fault | `EveryDownloadIsCancellable`, `ActiveIsPinned`, `SavedIsReceiptedOrPending` |
| `CallRecording` | the microphone and one friend, 3 ticks, 2 tracks, queue of 1, 1 fault | `ManifestIsTrue` |
| `ShareStreams` | numbers modulo 2, broadcast, wire and decoder of 1, 2 streams, 2 pipelines, 3 choices, 1 fault | `ReferenceIsThere` |
| `CallAudio` | one friend, 2 contexts, 2 toggles, 3 commands waiting | typing only, see Findings |
| `ChatDelivery` | 2 messages, 1 failing wake, documents sync | `DeliveredIsHeld` |
| `MessageDeletions` | 3 changes of mind, 1 local one, 2 acknowledgements, 1 fault | `DeletionConverges` |
| `AttachmentDelivery` | 2 tasks, 1 change of limit or retention, 2 faults | `AttachmentArrives` |
| `ChatTimeline` | pages of 1, 2 entries, 2 documents, 2 faults | `TimelineFollows` |
| `PresenceProbe` | offline after 2 failures, queue of 1, 2 probes, 3 changes, 1 fault | `PresenceConverges` |
| `Updates` | one friend, 1 newer build, 1 file, 2 flows, 1 launch, 1 fault | `TransferEnds`; `SweepsOnlyLeftovers` in `updates_sweep` |
| `VoicePath` | rings, tracks and buffers of 1 to 3 ticks, 1 loss, 1 error, clocks 1 tick apart | `MediaKeepsComing` |
| `CaptureEncoder` | 3 textures, fallbacks after 2, 2 sizes, 1 choice, 1 fault | `MediaKeepsComing` |
| `VideoPresentation` | 2 textures, fallback after 2 errors, queue of 2, 2 pools, 2 choices, 1 fault | `MediaKeepsComing` |
| `Presenter` | queue of 1, 1 event, 2 launches, 2 choices | `AskedWindowComes` |
| `Profiles` | 2 pictures, 1 message, 1 fetch at a time, 1 fault | `PictureFollows` |

A full queue, pool or ring of the least size meets the same branches as the code's: what is
told apart is only whether there is room. Two of each actor are the least that overlap, and
one fault may fall at any step. `CHECK_DEADLOCK FALSE` because every bound ends
what it bounds.

### Session pool: `ChatSessions`

| Model | Code |
|---|---|
| `pool`, `gates` | `ChatSessionPool::inner`: the sessions in use by age (`warm`) and those whose `last_used` is too old (`idle`), `peer_gates` (a number tells a gate from its successor) |
| `senders[t]` | where `send_chat_packet` stands: every await is a stage |
| `PeerGate`, `EnterGate`, `Dial`, `ConnectEnds`, `PreferPooled`, `SendAcknowledged`, `SendFails` | its steps, with `get_or_connect`, `insert`, `forget_pooled_if` |
| `Accept`, `AcceptStream`, `AcceptEnds`, `TakePacket` | the accept loop of a peer's connection and the bounded queue of packets |
| `GrowStale`, `CloseConnection` | time and the network, external |

`OneSendPerPeer` is about gates that are swept from a full table: a gate that a task holds or
waits in stays, so two tasks never get different gates of one peer. `FreshSessionIsKept` says that
a step that drops a pooled session of an open connection is an eviction or a stop, never the
failure of an earlier connection.

### Files: `FileTransfers`

| Model | Code |
|---|---|
| `pending`, `pendingDisk`, `active`, `attempts` | `pending_file_downloads` and its file, `active_file_downloads`, the attempt numbers |
| `pins`, `tags`, `blobs`, `saved`, `receipts` | download tags, attachment tags, the blob store, the user's file, receipts in the document |
| `tasks`, `reports` | the download tasks and the channel to the service |
| `stopped`, `stoppedDisk`, `sharing`, `publishing`, `uploads` | `stopped_hashes` and its file, `FileSharingState` entries, the blob provider's events |
| `OfferFile`, `RequestFile`, `CancelFile`, `SetFileServing`, `TakeReport` | the handlers |
| `LookForBlob`, `FetchCompletes`, `FetchEnds`, `Export`, `Save` | the awaits of the task |
| `OwnerRestarts`, `ReceiverRestarts`, `Collect` | `initialize`, and the store's garbage collection |

Each handler is one action, the crash of either side falls between them or, where
a handler writes twice, between the writes. A task hears of a cancel only at its awaits, so
a cancelled task may still export or save: the properties say what that may not do.

### Deletions: `MessageDeletions`

The author's choices are numbered in the order of their time. `doc` is the entry the documents
hold, `pending` the author's queue, `wakes` and `acks` what is on its way, `staged` what the member
holds over its document, `local` each side's own deletion. `DeleteForEveryone` is
`delete_message` and `restore_message`, `RetryDueControls`, `Deliver`, `ApplyControlAcks` the queue,
`DocumentArrives` and `DeletionArrivesFirst` the document. `DeletionConverges`: the member
comes to show the author's last choice, unless an older restoration is staged over the newer
deletion of its document (`StaleRestoration`), which takes three choices. Fair are the retry timer,
the network and document synchronisation.

### Attachments: `AttachmentDelivery`

`pending`, `push`, `ack` are the sender's side; `blob`, `downloads`, `tasks`, `finished`, `retry` the
member's; `asked` and `given` the screen's. `ApplyAttachmentPush`, `Publish`, `RetryDueAttachmentDownloads`,
`DownloadFinished`, `SetMaxImageBytes`, `SetRetentionPolicy`, `LoadAttachment`, `MemberRestarts`
are the handlers of those names, `CollectGarbage` the store's. `AttachmentArrives`: again and again
the image is in the store, not wanted, or `Forgotten`: it was stored without its tag and collected.
Fair are the timers, the tasks and the documents, not the user. A push or a task that fails may leave the
bytes behind without a tag (`LeftBehind`).

### Timeline: `ChatTimeline`

`subscription`, `streams`, `signals` are the service's subscription, the forwarding tasks and
`doc_event_rx`; `Subscribe` and `OpenAndPublish` are `open_and_publish`, `Document` the handling of a
signal, `MoveToDocument` the move of the index. `TimelineFollows`: from some point on every message
of the document is on screen or within reach of a longer page, unless the service rests without a
subscription to it (`Detached`) or its last opening or reading has failed (`IsUnpublished`).
Any opening and any reading may fail.

### Presence: `PresenceProbe`

`health` is `ProbeHealth`, `probes` the tasks of `announce_online`, `inbound` the contact's own
announcements, `updates` the bounded queue to the worker. `RefreshAllowedPeers` waits until the probes
of the last round are over: an exchange ends within 4 seconds and rounds are 15 seconds apart.
The threshold `OFFLINE_AFTER` is 3 in the code and 2 in the run. An update is queued in a step of
its own, after its generation was checked: an "online" that newer failures overtake there is "late",
which the screen cannot tell from "online". `PresenceConverges`: the screen comes to be
right, unless it still shows such an answer (`ShownIsLate`).

### Updates: `Updates`

`prompt` is `PeerUpdateState`, `commands` and `events` the channels between screen and worker,
`downloads` the transfers, `hosted` the flow of the release server, `staged`, `helpers`, `installed`,
`process` the files and processes of the installation. `Screen` reads one event, `Exit`, `HelperMoves`,
`HelperGivesUp`, `Launch`, `SecondLaunch` are the life of the process and its helper.
A download connects, asks, and receives the header and then the body (`Connected`, `HeaderArrives`,
`BodyArrives`). `TransferEnds`: a transfer the user has accepted comes to an end on the screen or with
the process, unless its friend accepted the connection and never answers (`Stalled`). Fair are the loops of
screen and worker and the exchanges with a timeout: the one for the offer (`peer_update.rs:499`), the
connection (`533`) and each chunk of the body (`572`). The wait for the header (`541`) has none, so neither
its answer nor its failure is fair.

### Recording: `CallRecording`

`tap`, `queue`, `writer`, `file`, `frames`, `outcome` follow one speaker from its tap to its file;
`source` and `decoder` are the track a participant is recorded from and the one being decoded,
by generation. `MicrophoneTick` and `DecodeLoop` are the taps (silence when there is no frame),
`WriteFrame`, `Drain`, `WriterEnds` the writer, `StopRecording`, `WaitForWriter`, `Finish` the end.
The tick in which the decode loop finds its track ended pushes nothing; `decoder[p].ended` counts
these. `ManifestIsTrue`: a speaker listed without an error has the file, the frames and the dropped
frames the manifest says, and every tick is one of these frames or one of the at most `source[p]` ticks that
found a track ended, whatever failed. The manifest does not tell of the latter, see Findings.

### Voice and call audio: `VoicePath`, `CallAudio`

`VoicePath` follows one voice: the capture ring, the encoder as a sink, its broadcast track, the
send task, packets, the sample builder, the remote track and the decoder that the mixer plays.
`FramesPerTick` is 1 for the stereo qualities, 2 for Medium and 6 for Low. The
loudspeaker's ring and packets out of order are left out. Fair are the sound cards, the loops and
tasks, and the network between its losses.

`CallAudio` has the flags of the window (`shown`), of the worker (`wanted`) and of every context,
the contexts that calls and the recording hold, and the commands on their way.

### Video: `ShareStreams`, `CaptureEncoder`, `VideoPresentation`

`ShareStreams` has one sharer and one viewer: the encoder's broadcast, the send task with its
keyframe requirement, the items on the stream, the receive task, the decoder and the window. A picture
refers to the one before it. Numbers repeat after `Wrap`, as sequence numbers do.

`CaptureEncoder` has the capture thread with its backend, the encode thread, the chain of encoders
(`EncodeStep`: the one that shares textures, the one fed from memory, OpenH264) and
the asynchronous transform as a partner that asks (`Asks`) and delivers (`Delivers`). The code
has 3 textures, replaces an encoder after 8 empty frames and after 5 errors.
The transform may be good, silent or failing, and change its mood. One that refuses a frame may ask
again or not (`Refused`): one that does not, and has no other wish waiting, is `Starved`.

`VideoPresentation` has the decoder and its fallback, the pool of textures with those that come back,
the queue to the window and the native presenter. The code has 4 textures and falls back
after 5 errors in a row. A hardware decoder may go silent (`IsSilent`), which is no error.

`MediaKeepsComing` puts three together, one a behaviour: the voice is heard, the share somebody
watches gives pictures, the picture of a shown window is painted, each again and again, as long as
no transform stays `Starved` and no decoder stays `IsSilent`. A part of
it is refuted by a mutant of each of the three modules.
Fair are the threads and the transforms; only in `CaptureEncoder` a moving screen is assumed
(a strongly fair frame for the polling backends, which may be busy otherwise).

### Window and host: `Presenter`

`visible`, `hidden`, `onScreen`, `posted`, `closing` are the flags two threads write; `queue`, `publisher`,
`retained` the bounded queue of 1024 events and those taken out while the window is shown again;
`watcher` the thread that polls for `activation.request`; `gui` where the GUI thread
is in `App::update`. `Launch` takes the instance lock or leaves a request.
egui coalesces requests for a repaint, and runs the first frame even when hidden. The exit that an update asks for
is the same step as Quit. `AskedWindowComes`: a request is answered with a window,
or the program ends. Fair are the watcher and the frames.

### Profiles: `Profiles`

The owner's side is `own`, `disk`, `announced`, `served`; the viewer's `known`, `bytes`, `cache`, `cooling`,
`asked`, `fetches`. `Edit` has the two writes of an edit with the screen's command, `SetOwnProfile` the
worker's, `Heartbeat` and `ClientStatus` presence, `ApplyConversation` the hashes of old messages,
`FetchPeerProfiles`, `Served`, `FetchEnds` a fetch. The code runs 8 fetches at once. A failed fetch and a
restart of the viewer share one bound. `PictureFollows`: a picture its owner has settled on
is the one its friend sees from some point on. Fair are both programs, heartbeats, the
minute of the cool-down and fetches between failures.

### Proofs

Every safety property of `services` is a theorem of `Services_proofs`, for any values of its constants
that satisfy `ServiceAssumptions` and `DeliveryAssumptions` (finite sets of peers, tasks and
offers, bounds and capacities in the naturals). Its invariant says of the component that runs
that the component's own invariant holds; each of those is proved inductive in the module beside
the component (`ChatSessions_proofs`, `FileTransfers_proofs`, `ShareStreams_proofs`, `ChatDelivery_proofs`),
which `Services` instantiates, or, for `CallRecording` and `CallAudio`, in place. For `CallAudio`
it is the type invariant with one more conjunct: the contexts opened and the
commands waiting that will open one do not exceed the bound. All invariants were checked by TLC before.

`ChatSessions`: `OneSendPerPeer` holds because the gate a task waits in or holds is the one in the
table (`Gated`): a sweep leaves gates in use, so a second task is given the same one, and one task has its
lock (`Locked`). That the pool fits needs that `sessions` has one entry a peer
(`OnePerPeer`), for an entry touched is then the only one removed and put back; `FreshSessionsStay`
follows from what each operation lets go of.

`FileTransfers`: everything is by the numbers of attempts. A number is one task's
(`AttemptsAreDistinct`) and a task that has said how it ended is gone (`LastWordsAreLast`), so a
late report of an earlier attempt is never the current one's; what is active is pending
(`ActiveIsPending`), and the file on disk is ahead of the memory only by entries with a receipt
(`PendingIsOnDisk`), which is what a restart needs.

`CallRecording`: the ticks of a speaker are balanced (`Balanced`): written, queued, dropped or the end
of a track, unless an error was noted, which the manifest then shows; a writer ends behind its tap, with an
empty queue (`Closed`); and no track ends twice, because the tracks that have ended are no more than those
seen and, while one is open, fewer (`TracksInOrder`, `Due`). `ManifestIsTrue` is inductive with these.

`ShareStreams`: a picture that is no keyframe comes right behind the picture it refers to, at each
place on its way, or will be skipped: among the decoder's packets (`PacketsFollow`), on the stream
(`WireFollows`), in the queue of the send task (`QueueFollows`), between these (`HeadFollows`), and the one
the encoder makes next (`NextFollows`). A receiver that waits for a keyframe takes nothing, so its
conjuncts ask nothing then. That streams are counted alike on both sides (`Generations`) is what bounds the
receiver's generation.

`Progress_proofs` has the ten components of `Progress`: `ProgressTypeCorrect` says that each
keeps its types and bounds, for any constants with `ProgressAssumptions`, and needs no fairness (it
is proved of `ProgressSafe`). The variables are there by their numbers; the comment at the
head of each component's section names them. TLC has checked the invariant, `ProgressInv`, on the states
of `progress`. Of five components (`MessageDeletions`, `AttachmentDelivery`, `ChatTimeline`,
`VoicePath`, `Profiles`) `TypeOK` is inductive. The others need more:

| Component | What its types rest on |
|---|---|
| `PresenceProbe` | the probes are a finite set, so that one more can be counted (`PresenceInv`) |
| `Updates` | a friend's requests that wait for the worker, counted in the queue of commands, and those being answered are no more than the user began (`AskedWasBegun`); what can be accepted is a friend's offer (`Flow`) |
| `CaptureEncoder` | a transform's input that waits or is asked for was granted, and what it granted and holds is within its depth (`TransformIsCredited`) |
| `VideoPresentation` | each texture of the decoder's pool is free, given back, or one of the pictures in the queue or on the screen (`TexturesAreConserved`), also when the pool is replaced and pictures of the old one come back |
| `Presenter` | the Boolean flags apart, the queue within its capacity; what is retained or seen of a queue is defined by recursion over it |

Two components define a value by recursion over a sequence (`StateEvents`, `LearntFromAll`).
That such a definition has a value, and its type, is proved from the well-foundedness of the naturals: a set of
naturals has a least element (`Least`), so what is true at 0 and passes on is true up to any number (`UpTo`),
and so there is a function that takes each value from the one before (`Recursion`). How often a value is
in a queue that grows at either end, loses its head or gives up its last element for a new first one is
`CountAppend`, `CountPrepend`, `CountTail` and `CountRotate`.

The other properties of `progress` are about progress under fairness, which the prover cannot do; TLC
alone checks them.

### Findings

`updates_sweep` is a run: `main` sweeps staged executables before it takes the instance lock, so a
second launch deletes the file the helper is about to move into place.

The following properties are in the modules, and the code does not keep them. None is in a
passing run; each is seen with `SPECIFICATION Spec` of its module, the property as `PROPERTIES` or
`INVARIANTS`, and the constants given, those not given as in `Services.cfg` and `Progress.cfg`.

| Property | Constants | What happens |
|---|---|---|
| `ButtonsSpeakForEveryCall` (`CallAudio`) | as in `Services.cfg` | new audio settings replace the worker's context while a call goes on with the old one, which no later mute or deafen reaches (`worker.rs:1345`, `1455`; `audio.rs:185`) |
| `RecordingHasTheLocalVoice` (`CallAudio`) | as in `Services.cfg` | the capture loop silences the samples of a muted microphone before the recorder's sink sees them (`capture.rs:425`), against `docs/per-speaker-call-recording.md:74` |
| `WatchedIsShown` (`ShareStreams`) | `MaxStreams = 1`, `MaxPipelines = 1`, `MaxChoices = 2`, `MaxFaults = 0` | a pause cancels the receiving of a picture half way; the stream is then read from the middle of it, and the share does not come back (`video.rs:579`) |
| `StopEnds` (`CaptureEncoder`) | `MaxSize = 1`, `MaxFaults = 0` | graphics capture waits for a frame with no timeout (`win_capture.rs:287`) and the worker joins its thread (`worker.rs:1271`): on a screen that does not change the stop waits until it does |
| `RemovedPictureGoes` (`Profiles`) | `MaxPictures = 1`, `MaxMessages = 0`, `MaxFaults = 0`, `MayRemove = TRUE` | an announcement or a fetched profile without a picture leaves the old one (`profile_ui.rs:105`, `178`) |
| `AskedIsGiven` (`AttachmentDelivery`) | `MaxFaults = 1` | a push ends the download and the retry the screen waits for, and hands the bytes to the store only (`chat.rs:3406`): the preview stays empty until it is asked for again |
| `DeliveredHasHolder` (`ChatDelivery`) | `DeliveryRace.cfg` | a message of a new epoch that the peer staged before it adopted that epoch is dropped when it does: until the documents are in step the peer has nothing of what the author sees as delivered |

The passing properties about progress name the states in which the code stays short of them. Each is a
disjunct of its property, or a condition of it: nothing in the constants switches the faults off that lead
there, and without it TLC refutes the property on the same instance.

| State | Property | What happens |
|---|---|---|
| `QueueIsBehind` (`ConversationReplica`) | `EpochReachesEveryone` | the member's own queue entry is older than its index: an ignored invitation has overwritten it (`chat.rs:1370`), or a handler failed between the two |
| `StaleRestoration` (`MessageDeletions`) | `DeletionConverges` | a wake with an old restoration comes after the document's newer deletion, and is staged over it, for the document's entry is not compared (`chat.rs:3723`): the message is back until a restart |
| `Forgotten` (`AttachmentDelivery`) | `AttachmentArrives` | bytes stored without a tag end the retry (`chat.rs:4404`) and are collected; a wanted image is missing until something asks for it again |
| `Detached` (`ChatTimeline`) | `TimelineFollows` | opening again after an ended event stream fails once and is not tried again (`chat.rs:1449`) |
| `IsUnpublished` (`ChatTimeline`) | `TimelineFollows` | the last opening or reading failed and was reported; the next signal reads again (`chat.rs:1430`) |
| `ShownIsLate` (`PresenceProbe`) | `PresenceConverges` | an answer passes its generation, its thread is held up before it queues it (`client_status.rs:302`), and newer probes report offline first; the report is not made twice. Senders that wait for room are served in order, so in the code only the thread itself can be late |
| `Stalled` (`Updates`) | `TransferEnds` | the friend accepts and never sends the header, for which there is no timeout (`peer_update.rs:541`) |
| `Starved` (`CaptureEncoder`) | `MediaKeepsComing` | a transform refuses a frame after the wish for it was counted off (`win_mf_codec.rs:1782`), asks no more, and the thread waits for it for ever: the fallback is not reached |
| `IsSilent` (`VideoPresentation`) | `MediaKeepsComing` | a hardware decoder that takes packets and gives nothing is never replaced, for only errors are counted (`video_decode.rs:3`) |

From the code alone, with no property of their own:

- The tick that finds a participant's track ended pushes no frame (`recording.rs:586`), against
  `docs/per-speaker-call-recording.md:28` and the comment at `recording.rs:10`: each hang-up leaves the
  file one frame short, and the manifest does not say so (`TracksEnded` in `ManifestIsTrue`).
- The capture thread hands stereo samples to encoders of mono qualities, which take them for
  mono: two frames a tick for Medium, six for Low (`opus.rs:287`; `FramesPerTick` in `VoicePath`).
  The voice is stretched until the decoder is at its limit and skips, again and again.
- A peer who joins a recorded call later has a file that starts with their first frame
  (`recording.rs:205`), against `docs/per-speaker-call-recording.md:31`.
- A change of call state that is dropped from the full event queue is not sent again, and events
  put back when the window is shown follow newer ones (`runtime/mod.rs:170`).
- The end of a peer update sets its error and is then reset with the flow (`app.rs:1678`).
- `FetchPeerProfiles` drops what is beyond the eight fetches (`worker.rs:1578`); the cool-down
  asks again after a minute.

## Not modelled

Notifications are rendered by operating-system calls on state that is overwritten and never awaited.
Persistence is an atomic rename of a file; that it may fail is part of the modules that write.
The endpoint's set-up and the transfer of remote logs are one request and one answer each.
The command-line client demonstrates the library. Drawing, sound effects, global hot keys, the overlay,
autostart and title bars are glue around the operating system; pixel conversion, resampling, noise
suppression and the parsing of H.264 units are computations on data no property here is about.

Left open although a model checker would reach them: `persist_index` failing after the index in
memory has moved (`chat.rs:3665`), a capture failure that arrives after its share was replaced
by one of the same generation (`worker.rs:1294`), the loop in `video.rs:581` when its control
channel is closed, a receipt for a message that is only staged when the receiver crashes
(`chat.rs:4482`).
