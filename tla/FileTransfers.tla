---------------------------- MODULE FileTransfers ----------------------------
(***************************************************************************)
(* Files offered in Wire's chat (wire-app/src/chat.rs and                  *)
(* chat/blob_provider.rs): the owner, who offers files and may stop sharing *)
(* them, and one receiver, who downloads, cancels and downloads again.     *)
(*                                                                         *)
(* Each side has one service task that runs one handler at a time.  A       *)
(* download is a task of its own: it reports to the service over a channel *)
(* and hears of a cancellation only where it looks.  Two offers may name   *)
(* one file, and then share its blob and its pin.                          *)
(***************************************************************************)
EXTENDS Naturals, Sequences, FiniteSets

CONSTANTS
  Offer,       \* the file offers: a message and the hash of one of its files
  File,        \* the files
  FileOf,      \* FileOf[o]: the file offered by o
  MaxAttempts, \* bound on the downloads that are started
  MaxChoices,  \* bound on how often the owner stops or resumes sharing
  MaxFaults    \* bound on the operations that fail and the crashes of either side

FileTransfersAssumption == FileOf \in [Offer -> File] /\ MaxAttempts \in Nat

VARIABLES
  \* The owner.
  offered,     \* the offers that have been sent
  stopped,     \* stopped_hashes, which the blob provider reads
  stoppedDisk, \* stopped-files.json
  sharing,     \* the files whose newest FileSharingState is a stop
  publishing,  \* the offers set_file_serving has yet to write, and what
  uploads,     \* uploads[a]: what the owner's screen says of the request of attempt a
  \* The receiver, on disk.
  pendingDisk, \* file-downloads.json
  pins,        \* the files with a download tag
  tags,        \* the files with an attachment tag
  blobs,       \* the complete files of the blob store
  saved,       \* the offers whose file is where the user wanted it
  receipts,    \* the file receipts in the document
  \* The receiver, volatile.
  pending,     \* pending_file_downloads
  active,      \* active_file_downloads: the attempt that is current, or 0
  tasks,       \* the download tasks
  reports,     \* what tasks have told the service, in order
  shown,       \* what the screen says of each offer
  \* History.
  attempts, choices, faults,
  dismissed    \* the offers whose last download the user has cancelled

ownerVars    == <<offered, stopped, stoppedDisk, sharing, publishing, uploads, choices>>
storeVars    == <<pendingDisk, pins, tags, blobs, saved, receipts>>
serviceVars  == <<pending, active, tasks, reports, shown, dismissed>>
transferVars == <<ownerVars, storeVars, serviceVars, attempts, faults>>

Attempt == 1..MaxAttempts
Stage   == {"look", "fetch", "saving", "exported"}
Task    == [offer : Offer, attempt : Attempt, stage : Stage, cancelled : BOOLEAN]
Report  == [offer : Offer, attempt : Attempt, is : {"progress", "saved", "failed"}]
Screen  == {"offer", "downloading", "saved", "failed", "cancelled", "paused"}

\* What is written down: hashes in stopped-files.json and of the newest
\* FileSharingState, offers in file-downloads.json and in the receipts.
StoppedFiles         == SUBSET File
FileSharingStates    == SUBSET File
PendingFileDownloads == SUBSET Offer
FileReceipts         == SUBSET Offer
ServingRequest       == {"none", "sending", "sent", "interrupted"}

Init ==
  /\ offered = {} /\ stopped = {} /\ stoppedDisk = {} /\ sharing = {}
  /\ publishing = [offers |-> {}, stop |-> FALSE]
  /\ uploads = [a \in Attempt |-> "none"]
  /\ pendingDisk = {} /\ pins = {} /\ tags = {} /\ blobs = {} /\ saved = {} /\ receipts = {}
  /\ pending = {} /\ active = [o \in Offer |-> 0] /\ tasks = {} /\ reports = <<>>
  /\ shown = [o \in Offer |-> "offer"]
  /\ attempts = 0 /\ choices = 0 /\ faults = 0 /\ dismissed = {}

Fault == faults < MaxFaults /\ faults' = faults + 1
Show(o, s) == shown' = [shown EXCEPT ![o] = s]
-----------------------------------------------------------------------------
(***************************************************************************)
(* The owner.                                                              *)
(***************************************************************************)
OwnerIdle == publishing.offers = {}

\* offer_files, FilesImported and send_message: an offer of a file that is
\* stopped is marked as stopped at once, unless that write fails.
OfferFile(o) ==
  /\ OwnerIdle
  /\ o \notin offered
  /\ offered' = offered \cup {o}
  /\ \/ /\ sharing' = IF FileOf[o] \in stoppedDisk THEN sharing \cup {FileOf[o]} ELSE sharing
        /\ UNCHANGED faults
     \/ /\ FileOf[o] \in stoppedDisk
        /\ Fault
        /\ UNCHANGED sharing
  /\ UNCHANGED <<stopped, stoppedDisk, publishing, uploads, choices, storeVars, serviceVars,
                 attempts>>

\* The provider and stopped-files.json change together or not at all; the
\* documents follow one offer at a time.
SetFileServing(f, stop) ==
  LET offers == {o \in offered : FileOf[o] = f} IN
  /\ OwnerIdle
  /\ offers # {}
  /\ choices < MaxChoices
  /\ choices' = choices + 1
  /\ \/ /\ stopped' = IF stop THEN stopped \cup {f} ELSE stopped \ {f}
        /\ stoppedDisk' = stopped'
        /\ publishing' = [offers |-> offers, stop |-> stop]
        /\ UNCHANGED faults
     \/ Fault /\ UNCHANGED <<stopped, stoppedDisk, publishing>>
  /\ UNCHANGED <<offered, sharing, uploads, storeVars, serviceVars, attempts>>

\* One write of FileSharingState; the first that fails ends the handler.
PublishSharing(o) ==
  /\ o \in publishing.offers
  /\ \/ /\ sharing' = IF publishing.stop THEN sharing \cup {FileOf[o]} ELSE sharing \ {FileOf[o]}
        /\ publishing' = [publishing EXCEPT !.offers = @ \ {o}]
        /\ UNCHANGED faults
     \/ /\ Fault
        /\ publishing' = [publishing EXCEPT !.offers = {}]
        /\ UNCHANGED sharing
  /\ UNCHANGED <<offered, stopped, stoppedDisk, uploads, choices, storeVars, serviceVars,
                 attempts>>

OwnerRestarts ==
  /\ Fault
  /\ stopped' = stoppedDisk
  /\ publishing' = [publishing EXCEPT !.offers = {}]
  /\ uploads' = [a \in Attempt |-> "none"]
  /\ UNCHANGED <<offered, stoppedDisk, sharing, choices, storeVars, serviceVars, attempts>>

\* handle_blob_provider_event, of the requests the provider has accepted.
Serving(a, phase) == uploads' = [uploads EXCEPT ![a] = phase]
-----------------------------------------------------------------------------
(***************************************************************************)
(* The receiver's service.                                                 *)
(***************************************************************************)

\* load_messages_query: the newest state of the owner's file counts, whichever
\* of its offers it was written for.
IsServed(o) == FileOf[o] \notin sharing

\* request_file: the entry is on disk before the pin is set and the task is
\* spawned, and stays there when setting the pin fails.
RequestFile(o) ==
  /\ o \in offered /\ IsServed(o)
  /\ active[o] = 0
  /\ attempts < MaxAttempts
  /\ \/ /\ pending' = pending \cup {o}
        /\ pendingDisk' = pending'
        /\ pins' = pins \cup {FileOf[o]}
        /\ attempts' = attempts + 1
        /\ active' = [active EXCEPT ![o] = attempts']
        /\ tasks' = tasks \cup {[offer |-> o, attempt |-> attempts', stage |-> "look",
                                 cancelled |-> FALSE]}
        /\ Show(o, "downloading")
        /\ dismissed' = dismissed \ {o}
        /\ UNCHANGED faults
     \/ /\ Fault
        /\ \/ UNCHANGED <<pending, pendingDisk>>
           \/ pending' = pending \cup {o} /\ pendingDisk' = pending'
        /\ Show(o, "failed")
        /\ UNCHANGED <<pins, attempts, active, tasks, dismissed>>
  /\ UNCHANGED <<ownerVars, tags, blobs, saved, receipts, reports>>

\* release_download_pin: other downloads of the file keep its pin.
PinsDropped(o, waiting) == pins \ {FileOf[o]}  \* mutation: whoever else waits
PinsReleased(o, waiting) ==
  IF \E w \in waiting : FileOf[w] = FileOf[o] THEN pins ELSE pins \ {FileOf[o]}

CancelTask(o) ==
  {IF t.attempt = active[o] THEN [t EXCEPT !.cancelled = TRUE] ELSE t : t \in tasks}

CancelFile(o) ==
  /\ active[o] # 0 \/ o \in pending
  /\ \/ /\ pending' = pending \ {o}
        /\ pendingDisk' = pending'
        /\ tasks' = CancelTask(o)
        /\ active' = [active EXCEPT ![o] = 0]
        /\ Show(o, "cancelled")
        /\ dismissed' = dismissed \cup {o}
        /\ \/ pins' = PinsReleased(o, pending') /\ UNCHANGED faults
           \/ Fault /\ UNCHANGED pins
     \/ Fault /\ UNCHANGED <<pending, pendingDisk, tasks, active, shown, dismissed, pins>>
  /\ UNCHANGED <<ownerVars, tags, blobs, saved, receipts, reports, attempts>>

\* FileDownloadFinished and FileDownloadProgress of an attempt that is no
\* longer current are dropped.
AnyAttempt(r) == active[r.offer] # 0  \* mutation: the attempt is not compared
IsCurrent(r) == active[r.offer] = r.attempt

FinishSaved(o) ==
  \/ /\ receipts' = receipts \cup {o}
     /\ pending' = pending \ {o}
     /\ Show(o, "saved")
     /\ \/ pendingDisk' = pending' /\ pins' = PinsReleased(o, pending') /\ UNCHANGED faults
        \/ Fault /\ pins' = PinsReleased(o, pending') /\ UNCHANGED pendingDisk
        \/ Fault /\ pendingDisk' = pending' /\ UNCHANGED pins
  \/ /\ Fault
     /\ Show(o, "failed")
     /\ UNCHANGED <<receipts, pending, pendingDisk, pins>>

\* mutation: the entry goes although the receipt could not be written
FinishSavedRegardless(o) ==
  /\ pending' = pending \ {o}
  /\ pendingDisk' = pending'
  /\ pins' = PinsReleased(o, pending')
  /\ \/ receipts' = receipts \cup {o} /\ Show(o, "saved") /\ UNCHANGED faults
     \/ Fault /\ Show(o, "failed") /\ UNCHANGED receipts

FinishDownload(o) == FinishSaved(o)

TakeReport ==
  LET r == Head(reports) IN
  /\ reports # <<>>
  /\ reports' = Tail(reports)
  /\ IF ~IsCurrent(r)
     THEN UNCHANGED <<active, receipts, pending, pendingDisk, pins, shown, faults>>
     ELSE /\ active' = IF r.is = "progress" THEN active ELSE [active EXCEPT ![r.offer] = 0]
          /\ \/ r.is = "saved" /\ FinishDownload(r.offer)
             \/ /\ r.is # "saved"
                /\ Show(r.offer, IF r.is = "progress" THEN "downloading" ELSE "failed")
                /\ UNCHANGED <<receipts, pending, pendingDisk, pins, faults>>
  /\ UNCHANGED <<ownerVars, tags, blobs, saved, tasks, attempts, dismissed>>

\* A restart: restore_file_downloads shows what was pending as paused, and
\* pins it again unless that fails.
ReceiverRestarts ==
  /\ Fault
  /\ pending' = pendingDisk
  /\ active' = [o \in Offer |-> 0]
  /\ tasks' = {}
  /\ reports' = <<>>
  /\ shown' = [o \in Offer |-> IF o \in pendingDisk THEN "paused" ELSE "offer"]
  /\ pins' \in {pins, pins \cup {FileOf[o] : o \in pendingDisk}}
  /\ UNCHANGED <<ownerVars, pendingDisk, tags, blobs, saved, receipts, attempts, dismissed>>
-----------------------------------------------------------------------------
(***************************************************************************)
(* A download task.  It ends with a report.                                *)
(***************************************************************************)
Advance(t, stage) == tasks' = (tasks \ {t}) \cup {[t EXCEPT !.stage = stage]}
Tell(t, is) == Append(reports, [offer |-> t.offer, attempt |-> t.attempt, is |-> is])
End(t, is) == tasks' = tasks \ {t} /\ reports' = Tell(t, is)

\* A complete blob needs no download; an owner without an address is an error.
LookForBlob(t) ==
  /\ t.stage = "look"
  /\ \/ /\ FileOf[t.offer] \in blobs
        /\ Advance(t, "saving")
        /\ UNCHANGED <<faults, uploads, reports>>
     \/ /\ FileOf[t.offer] \notin blobs
        /\ Advance(t, "fetch")
        /\ IF FileOf[t.offer] \in stopped
           THEN UNCHANGED uploads
           ELSE Serving(t.attempt, "sending")
        /\ UNCHANGED <<faults, reports>>
     \/ FileOf[t.offer] \notin blobs /\ Fault /\ End(t, "failed") /\ UNCHANGED uploads
  /\ UNCHANGED <<offered, stopped, stoppedDisk, sharing, publishing, choices, storeVars,
                 pending, active, shown, attempts, dismissed>>

\* The guarded provider answers every read; the blob is tagged when it is
\* complete.  The progress report is dropped when the channel is full.
FetchCompletes(t) ==
  /\ t.stage = "fetch"
  /\ FileOf[t.offer] \notin stopped
  /\ blobs' = blobs \cup {FileOf[t.offer]}
  /\ tags' = tags \cup {FileOf[t.offer]}
  /\ Advance(t, "saving")
  /\ reports' \in {reports, Tell(t, "progress")}
  /\ Serving(t.attempt, "sent")
  /\ UNCHANGED <<offered, stopped, stoppedDisk, sharing, publishing, choices, pendingDisk, pins,
                 saved, receipts, pending, active, shown, attempts, faults, dismissed>>

\* The owner has stopped sharing, the connection stalls, or the user cancels.
FetchEnds(t) ==
  /\ t.stage = "fetch"
  /\ IF t.cancelled \/ FileOf[t.offer] \in stopped THEN UNCHANGED faults ELSE Fault
  /\ End(t, "failed")
  /\ IF uploads[t.attempt] = "sending" THEN Serving(t.attempt, "interrupted")
                                       ELSE UNCHANGED uploads
  /\ UNCHANGED <<offered, stopped, stoppedDisk, sharing, publishing, choices, storeVars,
                 pending, active, shown, attempts, dismissed>>

\* The blob is exported beside the target; a cancellation is looked for
\* before and after.
Export(t) ==
  /\ t.stage = "saving"
  /\ IF t.cancelled \/ FileOf[t.offer] \notin blobs
     THEN End(t, "failed")
     ELSE Advance(t, "exported") /\ UNCHANGED reports
  /\ UNCHANGED <<ownerVars, storeVars, pending, active, shown, attempts, faults,
                 dismissed>>

Save(t) ==
  /\ t.stage = "exported"
  /\ \/ t.cancelled /\ End(t, "failed") /\ UNCHANGED <<saved, faults>>
     \/ ~t.cancelled /\ End(t, "saved") /\ saved' = saved \cup {t.offer} /\ UNCHANGED faults
     \/ ~t.cancelled /\ Fault /\ End(t, "failed") /\ UNCHANGED saved
  /\ UNCHANGED <<ownerVars, pendingDisk, pins, tags, blobs, receipts, pending, active, shown,
                 attempts, dismissed>>

\* The collector of the blob store takes what no tag protects, as when a
\* retention sweep has removed the attachment tag.
Collect(f) ==
  /\ f \in tags
  /\ tags' = tags \ {f}
  /\ blobs' = IF f \in pins THEN blobs ELSE blobs \ {f}
  /\ UNCHANGED <<ownerVars, pendingDisk, pins, saved, receipts, serviceVars, attempts, faults>>
-----------------------------------------------------------------------------
Next ==
  \/ \E o \in Offer : OfferFile(o) \/ PublishSharing(o) \/ RequestFile(o) \/ CancelFile(o)
  \/ \E f \in File : Collect(f) \/ \E stop \in BOOLEAN : SetFileServing(f, stop)
  \/ OwnerRestarts
  \/ TakeReport
  \/ ReceiverRestarts
  \/ \E t \in tasks : LookForBlob(t) \/ FetchCompletes(t) \/ FetchEnds(t) \/ Export(t) \/ Save(t)

Spec == Init /\ [][Next]_transferVars
-----------------------------------------------------------------------------
TypeOK ==
  /\ sharing \in FileSharingStates /\ offered \subseteq Offer
  /\ stopped = stoppedDisk /\ stopped \in StoppedFiles
  /\ publishing \in [offers : SUBSET Offer, stop : BOOLEAN]
  /\ uploads \in [Attempt -> ServingRequest]
  /\ pending \in PendingFileDownloads /\ pendingDisk \in PendingFileDownloads
  /\ receipts \in FileReceipts
  /\ saved \cup dismissed \subseteq Offer
  /\ pins \cup tags \cup blobs \subseteq File
  /\ active \in [Offer -> {0} \cup Attempt]
  /\ tasks \subseteq Task
  /\ \A i \in DOMAIN reports : reports[i] \in Report
  /\ shown \in [Offer -> Screen]

(***************************************************************************)
(* No download runs that the user cannot stop: every task has been told to *)
(* end, or is the current attempt of its offer, which is what cancel_file   *)
(* reaches.  A late report of an earlier attempt never unseats a newer one. *)
(***************************************************************************)
EveryDownloadIsCancellable ==
  \A t \in tasks : t.cancelled \/ active[t.offer] = t.attempt

(***************************************************************************)
(* The blob of a download in progress is pinned, whichever other download   *)
(* of the same file ends or is cancelled meanwhile.                         *)
(***************************************************************************)
ActiveIsPinned ==
  \A o \in Offer : active[o] # 0 => FileOf[o] \in pins

(***************************************************************************)
(* A file that is where the user wanted it has its receipt, or is still     *)
(* recorded on disk as a download to be resumed, so that a crash or a       *)
(* failed write never loses the receipt; unless the user has cancelled.     *)
(***************************************************************************)
SavedIsReceiptedOrPending ==
  saved \subseteq receipts \cup pendingDisk \cup dismissed
=============================================================================
