-------------------------- MODULE AttachmentDelivery --------------------------
(***************************************************************************)
(* One image of one message on its way to one member (wire-app/src/chat.rs) *)
(* and to the member's screen (wire-app/src/app.rs).  The sender pushes the *)
(* bytes over its own connection until they are acknowledged; the member    *)
(* also downloads them by itself as soon as it knows the message, unless    *)
(* the image is over its limit or outside its retention.                   *)
(*                                                                         *)
(* A download is a task of its own.  The screen asks for the bytes once,    *)
(* and shows what AttachmentData brings.                                   *)
(***************************************************************************)
EXTENDS Naturals, Sequences, FiniteSets

CONSTANTS
  MaxTasks,   \* bound on the downloads that run at one time
  MaxChoices, \* bound on how often the member changes limit or retention
  MaxFaults   \* bound on lost packets, failed operations and crashes

AttachmentDeliveryAssumption ==
  /\ MaxTasks \in Nat \ {0}
  /\ {MaxChoices, MaxFaults} \subseteq Nat

VARIABLES
  sent,       \* the message is in the sender's document
  pending,    \* reliable_control.attachments: the member is in pending_peers
  push,       \* an AttachmentPush is under way
  ack,        \* an attachment_ack is under way
  known,      \* the member's timeline has the message
  fits,       \* the image is within max_image_bytes
  kept,       \* the message is within the retention policy
  blob,       \* the member's blob store: "none", "loose" (no tag), "tagged", or
              \* "collected": none, for it was taken when it was wanted and had no tag
  downloads,  \* attachment_downloads has the hash
  tasks,      \* download tasks: where each stands
  finished,   \* AttachmentDownloadFinished queued, with what it says
  retry,      \* attachment_retries: "none", "later" or "due"
  asked,      \* attachment_requests of the screen has the hash
  given,      \* the screen has the bytes
  choices, faults

senderVars     == <<sent, pending, push>>
screenVars     == <<asked, given>>
attachmentVars == <<senderVars, ack, known, fits, kept, blob, downloads, tasks,
                    finished, retry, screenVars, choices, faults>>

AttachmentRetry == {"none", "later", "due"}
Blob            == {"none", "loose", "tagged", "collected"}

Wanted  == known /\ fits /\ kept
Held    == blob \in {"loose", "tagged"}

Init ==
  /\ sent = FALSE /\ pending = FALSE /\ push = FALSE /\ ack = FALSE
  /\ known = FALSE
  /\ fits \in BOOLEAN /\ kept = TRUE
  /\ blob = "none" /\ downloads = FALSE /\ tasks = 0 /\ finished = <<>>
  /\ retry = "none" /\ asked = FALSE /\ given = FALSE
  /\ choices = 0 /\ faults = 0

\* What a fetch or an import that failed may have stored: the tag is set last.
LeftBehind == IF Held THEN {blob} ELSE {blob, "loose"}

Fault == faults < MaxFaults /\ faults' = faults + 1
-----------------------------------------------------------------------------
(***************************************************************************)
(* request_missing_attachments, which every publish_timeline runs: over the *)
(* state the handler leaves, given the retry r and the mark d it found.    *)
(***************************************************************************)
MayRequest(r) == known' /\ fits' /\ kept' /\ r # "later"

RequestMissing(r, d) ==
  LET starts == MayRequest(r) /\ ~Held' /\ ~d
  IN /\ tasks + 1 <= MaxTasks \/ ~starts
     /\ tasks' = IF starts THEN tasks + 1 ELSE tasks
     /\ downloads' = (d \/ starts)
     /\ retry' = IF MayRequest(r) /\ Held' THEN "none" ELSE r

RequestNothing(r, d) == downloads' = d /\ retry' = r /\ UNCHANGED tasks
-----------------------------------------------------------------------------
(***************************************************************************)
(* The sender.                                                             *)
(***************************************************************************)
\* import_attachment_bytes, register_attachment_deliveries and the wake,
\* which pushes before it carries the message.
SendMessage ==
  /\ ~sent
  /\ sent' = TRUE /\ pending' = TRUE /\ push' = TRUE
  /\ UNCHANGED <<ack, known, fits, kept, blob, downloads, tasks, finished, retry,
                 screenVars, choices, faults>>

\* retry_due_controls and push_pending_attachments.
RetryDueControls ==
  /\ pending /\ ~push
  /\ push' = TRUE
  /\ UNCHANGED <<sent, pending, ack, known, fits, kept, blob, downloads, tasks,
                 finished, retry, screenVars, choices, faults>>

PushIsLost ==
  /\ Fault /\ push
  /\ push' = FALSE
  /\ UNCHANGED <<sent, pending, ack, known, fits, kept, blob, downloads, tasks,
                 finished, retry, screenVars, choices>>

ApplyControlAcks ==
  /\ ack
  /\ ack' = FALSE
  /\ pending' = FALSE
  /\ UNCHANGED <<sent, push, known, fits, kept, blob, downloads, tasks,
                 finished, retry, screenVars, choices, faults>>

AckIsLost ==
  /\ Fault /\ ack
  /\ ack' = FALSE
  /\ UNCHANGED <<senderVars, known, fits, kept, blob, downloads, tasks,
                 finished, retry, screenVars, choices>>
-----------------------------------------------------------------------------
(***************************************************************************)
(* The member's service.                                                   *)
(***************************************************************************)
AckedBeforeImport ==  \* mutation: acknowledged although the import failed
  /\ push
  /\ push' = FALSE
  /\ ack' = TRUE
  /\ RequestNothing("none", FALSE)
  /\ UNCHANGED <<sent, pending, known, fits, kept, blob, finished, screenVars,
                 choices, faults>>

\* apply_attachment_push: what the member does not want is acknowledged too.
ApplyAttachmentPush ==
  /\ push
  /\ push' = FALSE
  /\ ack' = TRUE
  /\ UNCHANGED <<sent, pending, known, fits, kept, finished, screenVars, choices, faults>>
  /\ IF fits /\ kept
     THEN /\ blob' = "tagged"
          /\ RequestMissing("none", FALSE)
     ELSE UNCHANGED <<blob, downloads, tasks, retry>>

\* The import or the tag fails: no acknowledgement.
PushFails ==
  /\ Fault /\ push /\ fits /\ kept
  /\ push' = FALSE
  /\ blob' \in LeftBehind
  /\ UNCHANGED <<sent, pending, ack, known, fits, kept, downloads, tasks,
                 finished, retry, screenVars, choices>>

\* The message arrives by wake or by document.
MessageArrives ==
  /\ sent /\ ~known
  /\ known' = TRUE
  /\ UNCHANGED <<senderVars, ack, fits, kept, blob, finished, screenVars, choices, faults>>
  /\ RequestMissing(retry, downloads)

\* Any other signal that publishes the timeline.
Publish ==
  /\ known
  /\ UNCHANGED <<senderVars, ack, known, fits, kept, blob, finished, screenVars, choices, faults>>
  /\ RequestMissing(retry, downloads)

RetryFallsDue ==
  /\ retry = "later"
  /\ retry' = "due"
  /\ UNCHANGED <<senderVars, ack, known, fits, kept, blob, downloads, tasks,
                 finished, screenVars, choices, faults>>

RetriesAreDropped ==  \* mutation: the retry is spent when it is looked at
  /\ retry = "due" /\ ~downloads
  /\ retry' = "none"
  /\ UNCHANGED <<senderVars, ack, known, fits, kept, blob, downloads, tasks,
                 finished, screenVars, choices, faults>>

\* retry_due_attachment_downloads.
RetryDueAttachmentDownloads ==
  /\ retry = "due" /\ ~downloads
  /\ UNCHANGED <<senderVars, ack, known, fits, kept, blob, finished, screenVars, choices, faults>>
  /\ IF Wanted THEN RequestMissing(retry, FALSE) ELSE RequestNothing("none", FALSE)

\* The task: the fetch, its timeout, and the tag, which may fail by itself.
TaskSucceeds ==
  /\ tasks > 0 /\ sent
  /\ tasks' = tasks - 1
  /\ blob' = "tagged"
  /\ finished' = Append(finished, TRUE)
  /\ UNCHANGED <<senderVars, ack, known, fits, kept, downloads, retry, screenVars,
                 choices, faults>>

TaskFails ==
  /\ Fault /\ tasks > 0
  /\ tasks' = tasks - 1
  /\ blob' \in LeftBehind
  /\ finished' = Append(finished, FALSE)
  /\ UNCHANGED <<senderVars, ack, known, fits, kept, downloads, retry, screenVars, choices>>

\* The bytes, when they are still there, go to the screen by themselves.
QueueAttachmentData ==
  /\ given' = (given \/ Held)
  /\ asked' = (asked /\ ~Held)

\* ChatInput::AttachmentDownloadFinished; queue_attachment_data when it went
\* well, schedule_attachment_retry when it did not.
DownloadFinished ==
  /\ finished # <<>>
  /\ finished' = Tail(finished)
  /\ UNCHANGED <<senderVars, ack, known, fits, kept, blob, choices, faults>>
  /\ IF Head(finished)
     THEN /\ RequestMissing("none", FALSE)
          /\ QueueAttachmentData
     ELSE /\ RequestNothing("later", FALSE)
          /\ UNCHANGED screenVars

\* The garbage collector of the blob store; a task holds a pin of its own.
CollectGarbage ==
  /\ blob = "loose" /\ tasks = 0
  /\ blob' = IF Wanted THEN "collected" ELSE "none"
  /\ UNCHANGED <<senderVars, ack, known, fits, kept, downloads, tasks, finished,
                 retry, screenVars, choices, faults>>

\* set_max_image_bytes, which asks for a new timeline by a document signal.
SetMaxImageBytes ==
  /\ choices < MaxChoices
  /\ choices' = choices + 1
  /\ fits' = ~fits
  /\ UNCHANGED <<senderVars, ack, known, kept, blob, finished, screenVars, faults>>
  /\ RequestMissing(retry, downloads)

\* set_retention_policy with release_expired_attachment_tags; the hourly
\* sweep does the same when the message's time has come, and then the screen
\* forgets what it has asked for.
SetRetentionPolicy ==
  /\ choices < MaxChoices
  /\ choices' = choices + 1
  /\ kept' = ~kept
  /\ blob' = IF kept /\ blob = "tagged" THEN "loose" ELSE blob
  /\ asked' = FALSE /\ given' = FALSE
  /\ UNCHANGED <<senderVars, ack, known, fits, finished, faults>>
  /\ RequestMissing(retry, downloads)

\* load_attachment_data, for an image the screen shows and does not have.
LoadAttachment ==
  /\ Wanted /\ ~given /\ ~asked
  /\ given' = Held
  /\ asked' = ~Held
  /\ UNCHANGED <<senderVars, ack, known, fits, kept, blob, finished, choices, faults>>
  /\ RequestNothing(IF Held THEN retry ELSE "later", downloads)

\* open_and_publish brings the timeline back; the rest was in memory.
MemberRestarts ==
  /\ Fault /\ known
  /\ tasks' = IF Wanted /\ ~Held THEN 1 ELSE 0
  /\ downloads' = (Wanted /\ ~Held)
  /\ finished' = <<>> /\ retry' = "none"
  /\ asked' = FALSE /\ given' = FALSE
  /\ UNCHANGED <<senderVars, ack, known, fits, kept, blob, choices>>
-----------------------------------------------------------------------------
Next ==
  \/ SendMessage \/ RetryDueControls \/ PushIsLost \/ ApplyControlAcks \/ AckIsLost
  \/ ApplyAttachmentPush \/ PushFails \/ MessageArrives \/ Publish
  \/ RetryFallsDue \/ RetryDueAttachmentDownloads
  \/ TaskSucceeds \/ TaskFails \/ DownloadFinished \/ CollectGarbage
  \/ SetMaxImageBytes \/ SetRetentionPolicy \/ LoadAttachment \/ MemberRestarts

\* The timers of both services, the tasks and the documents; nothing makes
\* the user, the garbage collector or a further signal come.
WeakStep(i) ==
  \/ i = 1 /\ RetryDueControls
  \/ i = 2 /\ ApplyAttachmentPush
  \/ i = 3 /\ ApplyControlAcks
  \/ i = 4 /\ MessageArrives
  \/ i = 5 /\ RetryFallsDue
  \/ i = 6 /\ RetryDueAttachmentDownloads
  \/ i = 7 /\ TaskSucceeds
  \/ i = 8 /\ DownloadFinished
  \/ i = 9 /\ LoadAttachment
Fairness == \A i \in 1..9 : WF_attachmentVars(WeakStep(i))

Spec == Init /\ [][Next]_attachmentVars /\ Fairness
-----------------------------------------------------------------------------
TypeOK ==
  /\ {sent, pending, push, ack, known, fits, kept, downloads, asked, given} \subseteq BOOLEAN
  /\ blob \in Blob
  /\ tasks \in 0..MaxTasks
  /\ finished \in Seq(BOOLEAN)
  /\ retry \in AttachmentRetry
  /\ choices \in 0..MaxChoices
  /\ faults \in 0..MaxFaults

\* The image had been stored without its tag, which failed or was released; that
\* counts as held and ends the retry (chat.rs:4404), nothing sets the tag again,
\* and the garbage collector has taken it.  Nobody asks for it any more.
Forgotten ==
  /\ blob = "collected" /\ ~pending /\ ~push
  /\ tasks = 0 /\ finished = <<>> /\ retry = "none"

\* An image the member wants comes to be in the blob store, whatever packets,
\* fetches, imports and tags fail, unless the member comes to want it no longer,
\* or it was there without a tag and is forgotten (retry_due_controls,
\* request_missing_attachments, AttachmentDownloadFinished).
AttachmentArrives == []<>(Held \/ ~Wanted \/ Forgotten)

\* What the screen has asked for it is given, unless it is no longer wanted
\* (load_attachment_data, AttachmentDownloadFinished, apply_attachment_push).
\* The code does not keep this: see the findings in README.md.
AskedIsGiven == (asked /\ Wanted) ~> (~asked \/ ~Wanted)
=============================================================================
