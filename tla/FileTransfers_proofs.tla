------------------------- MODULE FileTransfers_proofs -------------------------
(***************************************************************************)
(* Proofs about FileTransfers, for any offers, files and bounds.  A task    *)
(* and the service never act at one time on one piece of state; what ties   *)
(* them together is the number of the attempt, so the invariant says whose  *)
(* number is where.                                                        *)
(***************************************************************************)
EXTENDS FileTransfers, TLAPS

\* A number belongs to one task, and none is ahead of the counter.
AttemptsAreDistinct ==
  /\ attempts \in 0..MaxAttempts
  /\ \A t \in tasks : t.attempt =< attempts
  /\ \A t, u \in tasks : t.attempt = u.attempt => t = u
  /\ \A i \in DOMAIN reports : reports[i].attempt =< attempts

\* Only a task that has ended has said how it ended.
LastWordsAreLast ==
  \A i \in DOMAIN reports :
    reports[i].is # "progress" => \A t \in tasks : t.attempt # reports[i].attempt

\* file-downloads.json is behind the service's memory only in entries it has
\* a receipt for.
PendingIsOnDisk ==
  /\ pending \subseteq pendingDisk
  /\ pendingDisk \ pending \subseteq receipts

\* What runs is pending; the screen and cancel_file go by the latter.
ActiveIsPending == \A o \in Offer : active[o] # 0 => o \in pending

Typed == TypeOK /\ reports \in Seq(Report)

Numbered == AttemptsAreDistinct /\ LastWordsAreLast

Promises ==
  /\ EveryDownloadIsCancellable
  /\ ActiveIsPinned
  /\ SavedIsReceiptedOrPending

Inv ==
  /\ FileTransfersAssumption
  /\ Typed
  /\ Numbered
  /\ PendingIsOnDisk
  /\ ActiveIsPending
  /\ Promises

LEMMA InitInv == FileTransfersAssumption /\ Init => Inv
BY DEF Init, Inv, FileTransfersAssumption, Typed, TypeOK, Numbered, AttemptsAreDistinct,
       LastWordsAreLast, PendingIsOnDisk, ActiveIsPending, Promises,
       EveryDownloadIsCancellable, ActiveIsPinned, SavedIsReceiptedOrPending,
       StoppedFiles, FileSharingStates, PendingFileDownloads, FileReceipts,
       ServingRequest, Screen, Attempt, Task, Report
-----------------------------------------------------------------------------
(***************************************************************************)
(* What the steps of a task leave of the tasks: each of them comes from one *)
(* that was there, of the same offer and the same number, and a number is   *)
(* still one task's.                                                       *)
(***************************************************************************)
Same(u, v) == u.offer = v.offer /\ u.attempt = v.attempt /\ (v.cancelled => u.cancelled)

TasksAreOld == \A u \in tasks' : \E v \in tasks : Same(u, v)
OneTaskEach == \A u, v \in tasks' : u.attempt = v.attempt => u = v

LEMMA AdvanceTasks ==
  ASSUME Typed, AttemptsAreDistinct, NEW t \in tasks, NEW s \in Stage, Advance(t, s)
  PROVE  tasks' \subseteq Task /\ TasksAreOld /\ OneTaskEach
<1> DEFINE u == [t EXCEPT !.stage = s]
<1>1. t \in Task
  BY DEF Typed, TypeOK
<1>2. u \in Task /\ Same(u, t)
  BY <1>1 DEF Task, Same
<1>3. tasks' = (tasks \ {t}) \cup {u}
  BY DEF Advance
<1> HIDE DEF u
<1>4. tasks' \subseteq Task
  BY <1>2, <1>3 DEF Typed, TypeOK
<1>5. TasksAreOld
  BY <1>2, <1>3 DEF TasksAreOld, Same
<1>6. OneTaskEach
  BY <1>2, <1>3 DEF OneTaskEach, Same, AttemptsAreDistinct
<1>7. QED
  BY <1>4, <1>5, <1>6

LEMMA EndTasks ==
  ASSUME Typed, AttemptsAreDistinct, NEW t \in tasks, tasks' = tasks \ {t}
  PROVE  /\ tasks' \subseteq Task /\ TasksAreOld /\ OneTaskEach
         /\ \A u \in tasks' : u.attempt # t.attempt
BY DEF Typed, TypeOK, AttemptsAreDistinct, TasksAreOld, OneTaskEach, Same

LEMMA CancelTasks ==
  ASSUME Typed, AttemptsAreDistinct, NEW o \in Offer, tasks' = CancelTask(o)
  PROVE  /\ tasks' \subseteq Task /\ TasksAreOld /\ OneTaskEach
         /\ \A u \in tasks' : u.attempt = active[o] => u.cancelled
<1> DEFINE c(t) == IF t.attempt = active[o] THEN [t EXCEPT !.cancelled = TRUE] ELSE t
<1>1. tasks' = {c(t) : t \in tasks}
  BY DEF CancelTask
<1>2. ASSUME NEW t \in tasks
      PROVE  /\ c(t) \in Task /\ Same(c(t), t)
             /\ c(t).attempt = active[o] => c(t).cancelled
  BY DEF Typed, TypeOK, Task, Same
<1> HIDE DEF c
<1>3. tasks' \subseteq Task /\ TasksAreOld
  BY <1>1, <1>2 DEF TasksAreOld
<1>4. OneTaskEach
  BY <1>1, <1>2 DEF OneTaskEach, Same, AttemptsAreDistinct
<1>5. QED
  BY <1>1, <1>2, <1>3, <1>4

\* Telling the service something adds a report at the end.
LEMMA TellFacts ==
  ASSUME Typed, NEW t \in Task, NEW w \in {"progress", "saved", "failed"}
  PROVE  /\ Tell(t, w) \in Seq(Report)
         /\ DOMAIN Tell(t, w) = 1..(Len(reports) + 1)
         /\ \A i \in DOMAIN reports : Tell(t, w)[i] = reports[i]
         /\ Tell(t, w)[Len(reports) + 1] =
              [offer |-> t.offer, attempt |-> t.attempt, is |-> w]
         /\ DOMAIN reports = 1..Len(reports)
<1> DEFINE r == [offer |-> t.offer, attempt |-> t.attempt, is |-> w]
<1>1. r \in Report
  BY DEF Report, Task
<1>2. Tell(t, w) = Append(reports, r) /\ reports \in Seq(Report)
  BY DEF Tell, Typed
<1> HIDE DEF r
<1>3. /\ Tell(t, w) \in Seq(Report)
      /\ DOMAIN Tell(t, w) = 1..(Len(reports) + 1)
      /\ \A i \in DOMAIN reports : Tell(t, w)[i] = reports[i]
      /\ Tell(t, w)[Len(reports) + 1] = r
      /\ DOMAIN reports = 1..Len(reports)
  BY <1>1, <1>2
<1>4. QED
  BY <1>3 DEF r

\* A handler takes the oldest report.
LEMMA HeadFacts ==
  ASSUME reports \in Seq(Report), reports # <<>>, reports' = Tail(reports)
  PROVE  /\ Head(reports) \in Report /\ Head(reports) = reports[1] /\ 1 \in DOMAIN reports
         /\ reports' \in Seq(Report)
         /\ \A i \in DOMAIN reports' : i + 1 \in DOMAIN reports /\ reports'[i] = reports[i + 1]
OBVIOUS

\* A file's pin is released, or kept for another download that waits.
LEMMA PinsReleasedFacts ==
  ASSUME NEW o, NEW W
  PROVE  /\ PinsReleased(o, W) \subseteq pins
         /\ \A f \in pins : f # FileOf[o] => f \in PinsReleased(o, W)
         /\ \A w \in W : FileOf[w] \in pins => FileOf[w] \in PinsReleased(o, W)
BY DEF PinsReleased
-----------------------------------------------------------------------------
(***************************************************************************)
(* Types.                                                                  *)
(***************************************************************************)
LEMMA OfferFileType ==
  ASSUME FileTransfersAssumption, Typed, NEW o \in Offer, OfferFile(o) PROVE Typed'
BY DEF FileTransfersAssumption, OfferFile, Typed, TypeOK, storeVars, serviceVars,
       FileSharingStates

LEMMA SetFileServingType ==
  ASSUME Typed, NEW f \in File, NEW stop \in BOOLEAN, SetFileServing(f, stop)
  PROVE  Typed'
BY DEF SetFileServing, Typed, TypeOK, storeVars, serviceVars, StoppedFiles

LEMMA PublishSharingType ==
  ASSUME FileTransfersAssumption, Typed, NEW o \in Offer, PublishSharing(o) PROVE Typed'
<1>1. FileOf[o] \in File
  BY DEF FileTransfersAssumption
<1>2. sharing' \in FileSharingStates
  BY <1>1 DEF PublishSharing, Typed, TypeOK, FileSharingStates
<1>3. publishing' \in [offers : SUBSET Offer, stop : BOOLEAN]
  BY DEF PublishSharing, Typed, TypeOK
<1>4. QED
  BY <1>2, <1>3 DEF PublishSharing, Typed, TypeOK, storeVars, serviceVars

LEMMA OwnerRestartsType == ASSUME Typed, OwnerRestarts PROVE Typed'
BY DEF OwnerRestarts, Typed, TypeOK, storeVars, serviceVars, ServingRequest

LEMMA NewTaskType ==
  ASSUME FileTransfersAssumption, AttemptsAreDistinct, attempts < MaxAttempts,
         NEW o \in Offer
  PROVE  /\ attempts + 1 \in Attempt
         /\ [offer |-> o, attempt |-> attempts + 1, stage |-> "look", cancelled |-> FALSE]
              \in Task
<1>1. attempts + 1 \in Attempt
  BY DEF FileTransfersAssumption, AttemptsAreDistinct, Attempt
<1>2. QED
  BY <1>1 DEF Task, Stage

LEMMA RequestFileType ==
  ASSUME FileTransfersAssumption, Typed, AttemptsAreDistinct, NEW o \in Offer,
         RequestFile(o)
  PROVE  Typed'
<1>1. FileOf[o] \in File /\ attempts < MaxAttempts
  BY DEF FileTransfersAssumption, RequestFile
<1>2. pending' \in PendingFileDownloads /\ pendingDisk' \in PendingFileDownloads
  BY DEF RequestFile, Typed, TypeOK, PendingFileDownloads
<1>3. shown' \in [Offer -> Screen] /\ dismissed' \subseteq Offer
  BY DEF RequestFile, Typed, TypeOK, Show, Screen
<1> DEFINE t == [offer |-> o, attempt |-> attempts + 1, stage |-> "look",
                 cancelled |-> FALSE]
<1>4. attempts + 1 \in Attempt /\ t \in Task
  BY <1>1, NewTaskType
<1>5. /\ pins' \subseteq File /\ tasks' \in {tasks, tasks \cup {t}}
      /\ active' \in {active, [active EXCEPT ![o] = attempts + 1]}
  BY <1>1 DEF RequestFile, Typed, TypeOK
<1> HIDE DEF t
<1>6. active' \in [Offer -> {0} \cup Attempt] /\ tasks' \subseteq Task
  BY <1>4, <1>5 DEF Typed, TypeOK
<1>7. QED
  BY <1>2, <1>3, <1>5, <1>6 DEF RequestFile, Typed, TypeOK, ownerVars

LEMMA CancelFileType ==
  ASSUME Typed, AttemptsAreDistinct, NEW o \in Offer, CancelFile(o) PROVE Typed'
<1>1. pending' \in PendingFileDownloads /\ pendingDisk' \in PendingFileDownloads
  BY DEF CancelFile, Typed, TypeOK, PendingFileDownloads
<1>2. shown' \in [Offer -> Screen] /\ dismissed' \subseteq Offer
      /\ active' \in [Offer -> {0} \cup Attempt]
  BY DEF CancelFile, Typed, TypeOK, Show, Screen
<1>3. tasks' \subseteq Task
  BY CancelTasks DEF CancelFile, Typed, TypeOK
<1>4. pins' \subseteq File
  BY PinsReleasedFacts DEF CancelFile, Typed, TypeOK
<1>5. QED
  BY <1>1, <1>2, <1>3, <1>4 DEF CancelFile, Typed, TypeOK, ownerVars

LEMMA TakeReportType == ASSUME Typed, TakeReport PROVE Typed'
<1> DEFINE r == Head(reports)
<1>1. r \in Report /\ reports' \in Seq(Report)
      /\ \A i \in DOMAIN reports' : i + 1 \in DOMAIN reports /\ reports'[i] = reports[i + 1]
  BY HeadFacts DEF TakeReport, Typed
<1>2. r.offer \in Offer
  BY <1>1 DEF Report
<1>3. CASE ~IsCurrent(r)
  <2>1. UNCHANGED <<active, receipts, pending, pendingDisk, pins, shown>>
    BY <1>3 DEF TakeReport
  <2>2. QED
    BY <1>1, <2>1 DEF TakeReport, Typed, TypeOK, ownerVars
<1>4. CASE IsCurrent(r)
  <2>1. active' \in [Offer -> {0} \cup Attempt]
    BY <1>4 DEF TakeReport, Typed, TypeOK
  <2>2. /\ receipts' \in FileReceipts /\ pending' \in PendingFileDownloads
        /\ pendingDisk' \in PendingFileDownloads /\ pins' \subseteq File
        /\ shown' \in [Offer -> Screen]
    <3>1. CASE FinishDownload(r.offer)
      BY <1>2, <3>1, PinsReleasedFacts
         DEF FinishDownload, FinishSaved, Show, Typed, TypeOK, FileReceipts,
             PendingFileDownloads, Screen
    <3>2. CASE /\ Show(r.offer, IF r.is = "progress" THEN "downloading" ELSE "failed")
               /\ UNCHANGED <<receipts, pending, pendingDisk, pins>>
      BY <1>2, <3>2 DEF Show, Typed, TypeOK, Screen
    <3>3. QED
      BY <1>4, <3>1, <3>2 DEF TakeReport
  <2>3. QED
    BY <1>1, <2>1, <2>2 DEF TakeReport, Typed, TypeOK, ownerVars
<1>5. QED
  BY <1>3, <1>4

LEMMA ReceiverRestartsType ==
  ASSUME FileTransfersAssumption, Typed, ReceiverRestarts PROVE Typed'
<1>1. pins' \subseteq File
  BY DEF ReceiverRestarts, FileTransfersAssumption, Typed, TypeOK, PendingFileDownloads
<1>2. shown' \in [Offer -> Screen] /\ active' \in [Offer -> {0} \cup Attempt]
      /\ tasks' \subseteq Task /\ reports' \in Seq(Report)
      /\ \A i \in DOMAIN reports' : reports'[i] \in Report
  BY DEF ReceiverRestarts, Screen
<1>3. QED
  BY <1>1, <1>2 DEF ReceiverRestarts, Typed, TypeOK, ownerVars

\* The steps of a task move its stage or end it, and may tell of it.
TaskStep(t) == LookForBlob(t) \/ FetchCompletes(t) \/ FetchEnds(t) \/ Export(t) \/ Save(t)

LEMMA TaskStepTasks ==
  ASSUME Typed, AttemptsAreDistinct, NEW t \in tasks, TaskStep(t)
  PROVE  /\ tasks' \subseteq Task /\ TasksAreOld /\ OneTaskEach
         /\ \/ reports' = reports
            \/ reports' = Tell(t, "progress")
            \/ /\ reports' = Tell(t, "saved") \/ reports' = Tell(t, "failed")
               /\ \A u \in tasks' : u.attempt # t.attempt
<1>1. ASSUME NEW s \in Stage, Advance(t, s), reports' = reports \/ reports' = Tell(t, "progress")
      PROVE  /\ tasks' \subseteq Task /\ TasksAreOld /\ OneTaskEach
             /\ reports' = reports \/ reports' = Tell(t, "progress")
  BY <1>1, AdvanceTasks
<1>2. ASSUME NEW w \in {"saved", "failed"}, End(t, w)
      PROVE  /\ tasks' \subseteq Task /\ TasksAreOld /\ OneTaskEach
             /\ reports' = Tell(t, "saved") \/ reports' = Tell(t, "failed")
             /\ \A u \in tasks' : u.attempt # t.attempt
  BY <1>2, EndTasks DEF End
<1>3. CASE LookForBlob(t)
  BY <1>1, <1>2, <1>3 DEF LookForBlob, Stage
<1>4. CASE FetchCompletes(t)
  BY <1>1, <1>4 DEF FetchCompletes, Stage
<1>5. CASE FetchEnds(t)
  BY <1>2, <1>5 DEF FetchEnds
<1>6. CASE Export(t)
  BY <1>1, <1>2, <1>6 DEF Export, Stage
<1>7. CASE Save(t)
  BY <1>2, <1>7 DEF Save
<1>8. QED
  BY <1>3, <1>4, <1>5, <1>6, <1>7 DEF TaskStep

\* What a task does to the state of others: it sets what the owner's screen says
\* of it, completes the blob, and saves the file of an offer.
LEMMA TaskStepRest ==
  ASSUME FileTransfersAssumption, Typed, NEW t \in tasks, TaskStep(t)
  PROVE  /\ UNCHANGED <<offered, stopped, stoppedDisk, sharing, publishing, pendingDisk, pins,
                        receipts, pending, active, shown, attempts, dismissed>>
         /\ uploads' \in [Attempt -> ServingRequest]
         /\ tags' \cup blobs' \subseteq File
         /\ saved' = saved \/ (saved' = saved \cup {t.offer} /\ ~t.cancelled)
<1>1. t \in Task /\ t.offer \in Offer /\ FileOf[t.offer] \in File
  BY DEF FileTransfersAssumption, Typed, TypeOK, Task
<1>2. \A s \in ServingRequest : Serving(t.attempt, s) => uploads' \in [Attempt -> ServingRequest]
  BY DEF Serving, Typed, TypeOK
<1>3. CASE LookForBlob(t)
  BY <1>2, <1>3 DEF LookForBlob, Typed, TypeOK, storeVars, ServingRequest
<1>4. CASE FetchCompletes(t)
  BY <1>1, <1>2, <1>4 DEF FetchCompletes, Typed, TypeOK, ServingRequest
<1>5. CASE FetchEnds(t)
  BY <1>2, <1>5 DEF FetchEnds, Typed, TypeOK, storeVars, ServingRequest
<1>6. CASE Export(t)
  BY <1>6 DEF Export, Typed, TypeOK, ownerVars, storeVars
<1>7. CASE Save(t)
  BY <1>7 DEF Save, Typed, TypeOK, ownerVars
<1>8. QED
  BY <1>3, <1>4, <1>5, <1>6, <1>7 DEF TaskStep

LEMMA TaskStepType ==
  ASSUME FileTransfersAssumption, Typed, AttemptsAreDistinct, NEW t \in tasks, TaskStep(t)
  PROVE  Typed'
<1>1. t \in Task /\ t.offer \in Offer
  BY DEF Typed, TypeOK, Task
<1>2. reports' \in Seq(Report)
  BY <1>1, TaskStepTasks, TellFacts DEF Typed
<1>3. \A i \in DOMAIN reports' : reports'[i] \in Report
  BY <1>2
<1>4. tasks' \subseteq Task
  BY TaskStepTasks
<1>5. saved' \subseteq Offer
  BY <1>1, TaskStepRest DEF Typed, TypeOK
<1>6. QED
  BY <1>2, <1>3, <1>4, <1>5, TaskStepRest DEF Typed, TypeOK

LEMMA CollectType == ASSUME Typed, NEW f \in File, Collect(f) PROVE Typed'
BY DEF Collect, Typed, TypeOK, ownerVars, serviceVars

LEMMA TypedStep ==
  ASSUME FileTransfersAssumption, Typed, AttemptsAreDistinct, [Next]_transferVars
  PROVE  Typed'
<1>1. CASE UNCHANGED transferVars
  BY <1>1 DEF transferVars, ownerVars, storeVars, serviceVars, Typed, TypeOK
<1>2. CASE Next
  BY <1>2, OfferFileType, SetFileServingType, PublishSharingType, OwnerRestartsType,
     RequestFileType, CancelFileType, TakeReportType, ReceiverRestartsType, TaskStepType,
     CollectType
     DEF Next, TaskStep
<1>3. QED
  BY <1>1, <1>2

-----------------------------------------------------------------------------
(***************************************************************************)
(* The numbers of the attempts.                                            *)
(***************************************************************************)
\* What the owner does, and the collector, is nothing to the service and to the
\* tasks.
OwnerStep ==
  \/ \E o \in Offer : OfferFile(o) \/ PublishSharing(o)
  \/ \E f \in File, stop \in BOOLEAN : SetFileServing(f, stop)
  \/ OwnerRestarts
  \/ \E f \in File : Collect(f) 

LEMMA OwnerStepRest ==
  ASSUME OwnerStep
  PROVE  UNCHANGED <<serviceVars, attempts, pendingDisk, pins, saved, receipts>>
BY DEF OwnerStep, OfferFile, PublishSharing, SetFileServing, OwnerRestarts, Collect, storeVars

\* Where tasks are old ones and no report is new, numbers stay in order.
LEMMA OldNumbers ==
  ASSUME AttemptsAreDistinct, LastWordsAreLast, TasksAreOld, OneTaskEach,
         UNCHANGED <<attempts, reports>>
  PROVE  Numbered'
BY DEF AttemptsAreDistinct, LastWordsAreLast, TasksAreOld, OneTaskEach, Same, Numbered

LEMMA TaskStepNumbered ==
  ASSUME FileTransfersAssumption, Typed, Numbered, NEW t \in tasks, TaskStep(t)
  PROVE  Numbered'
<1>1. t \in Task /\ UNCHANGED attempts
  BY TaskStepRest DEF Typed, TypeOK
<1>2. /\ AttemptsAreDistinct /\ LastWordsAreLast
      /\ TasksAreOld /\ OneTaskEach
  BY TaskStepTasks DEF Numbered
<1>3. CASE reports' = reports
  BY <1>1, <1>2, <1>3, OldNumbers
<1>4. ASSUME NEW w \in {"progress", "saved", "failed"}, reports' = Tell(t, w),
             w # "progress" => \A u \in tasks' : u.attempt # t.attempt
      PROVE  Numbered'
  <2>1. \A i \in DOMAIN reports' :
          \/ i \in DOMAIN reports /\ reports'[i] = reports[i]
          \/ reports'[i].attempt = t.attempt /\ reports'[i].is = w
    <3>1. /\ DOMAIN reports' = 1..(Len(reports) + 1) /\ DOMAIN reports = 1..Len(reports)
          /\ \A i \in DOMAIN reports : reports'[i] = reports[i]
          /\ reports'[Len(reports) + 1] =
               [offer |-> t.offer, attempt |-> t.attempt, is |-> w]
      BY <1>1, <1>4, TellFacts
    <3>2. Len(reports) \in Nat
      BY DEF Typed
    <3>3. \A i \in DOMAIN reports' : i \in DOMAIN reports \/ i = Len(reports) + 1
      BY <3>1, <3>2
    <3>4. QED
      BY <3>1, <3>3
  <2>2. \A u \in tasks' : \E v \in tasks : u.attempt = v.attempt
    BY <1>2 DEF TasksAreOld, Same
  <2>3. AttemptsAreDistinct'
    BY <1>1, <1>2, <2>1, <2>2 DEF AttemptsAreDistinct, OneTaskEach
  <2>4. LastWordsAreLast'
    BY <1>2, <1>4, <2>1, <2>2 DEF LastWordsAreLast
  <2>5. QED
    BY <2>3, <2>4 DEF Numbered
<1>5. QED
  BY <1>2, <1>3, <1>4, TaskStepTasks

LEMMA RequestFileNumbered ==
  ASSUME FileTransfersAssumption, Typed, Numbered, NEW o \in Offer, RequestFile(o)
  PROVE  Numbered'
<1> DEFINE t == [offer |-> o, attempt |-> attempts + 1, stage |-> "look",
                 cancelled |-> FALSE]
<1>1. reports' = reports /\ attempts < MaxAttempts
  BY DEF RequestFile
<1>2. CASE UNCHANGED <<tasks, attempts>>
  BY <1>1, <1>2 DEF Numbered, AttemptsAreDistinct, LastWordsAreLast
<1>3. CASE attempts' = attempts + 1 /\ tasks' = tasks \cup {t}
  <2>1. t.attempt = attempts + 1
    OBVIOUS
  <2>2. /\ attempts \in Nat /\ MaxAttempts \in Nat
        /\ \A u \in tasks : u.attempt \in Nat /\ u.attempt =< attempts
        /\ \A i \in DOMAIN reports :
             reports[i].attempt \in Nat /\ reports[i].attempt =< attempts
    BY DEF FileTransfersAssumption, Numbered, AttemptsAreDistinct, Typed, TypeOK, Task,
           Attempt, Report
  <2>3. tasks' = tasks \cup {t}
    BY <1>3
  <2> HIDE DEF t
  <2>4. AttemptsAreDistinct'
    <3>1. attempts' \in 0..MaxAttempts
      BY <1>1, <1>3, <2>2
    <3>2. \A u \in tasks' : u.attempt =< attempts'
      BY <1>3, <2>1, <2>2, <2>3
    <3>3. \A u, v \in tasks' : u.attempt = v.attempt => u = v
      BY <2>1, <2>2, <2>3 DEF Numbered, AttemptsAreDistinct
    <3>4. \A i \in DOMAIN reports' : reports'[i].attempt =< attempts'
      BY <1>1, <1>3, <2>2
    <3>5. QED
      BY <3>1, <3>2, <3>3, <3>4 DEF AttemptsAreDistinct
  <2>5. LastWordsAreLast'
    BY <1>1, <2>1, <2>2, <2>3 DEF Numbered, LastWordsAreLast
  <2>6. QED
    BY <2>4, <2>5 DEF Numbered
<1>4. QED
  BY <1>2, <1>3 DEF RequestFile

LEMMA NumberedStep ==
  ASSUME FileTransfersAssumption, Typed, Numbered, [Next]_transferVars
  PROVE  Numbered'
<1>1. AttemptsAreDistinct /\ LastWordsAreLast
  BY DEF Numbered
<1>2. CASE UNCHANGED <<tasks, reports, attempts>>
  BY <1>2 DEF Numbered, AttemptsAreDistinct, LastWordsAreLast
<1>3. CASE OwnerStep
  BY <1>2, <1>3, OwnerStepRest DEF serviceVars
<1>4. ASSUME NEW o \in Offer, CancelFile(o) PROVE Numbered'
  <2>1. UNCHANGED <<reports, attempts>> /\ (tasks' = CancelTask(o) \/ tasks' = tasks)
    BY <1>4 DEF CancelFile
  <2>2. CASE tasks' = CancelTask(o)
    BY <1>1, <2>1, <2>2, CancelTasks, OldNumbers
  <2>3. CASE tasks' = tasks
    BY <1>2, <2>1, <2>3
  <2>4. QED
    BY <2>1, <2>2, <2>3
<1>5. CASE TakeReport
  <2>1. /\ UNCHANGED <<tasks, attempts>>
        /\ \A i \in DOMAIN reports' : i + 1 \in DOMAIN reports /\ reports'[i] = reports[i + 1]
    BY <1>5, HeadFacts DEF TakeReport, Typed
  <2>2. QED
    BY <2>1 DEF Numbered, AttemptsAreDistinct, LastWordsAreLast
<1>6. CASE ReceiverRestarts
  <2>1. tasks' = {} /\ reports' = <<>> /\ attempts' = attempts
    BY <1>6 DEF ReceiverRestarts
  <2>2. QED
    BY <2>1 DEF Numbered, AttemptsAreDistinct, LastWordsAreLast
<1>7. CASE UNCHANGED transferVars
  BY <1>2, <1>7 DEF transferVars, serviceVars
<1>8. CASE Next
  BY <1>3, <1>4, <1>5, <1>6, <1>8, RequestFileNumbered, TaskStepNumbered
     DEF Next, OwnerStep, TaskStep
<1>9. QED
  BY <1>7, <1>8
-----------------------------------------------------------------------------
(***************************************************************************)
(* What is pending, what is written down and what is pinned.               *)
(***************************************************************************)
Waiting == PendingIsOnDisk /\ ActiveIsPending

Kept == Waiting /\ ActiveIsPinned /\ SavedIsReceiptedOrPending

\* The end of a download that was saved.  Whoever else waits for the file keeps
\* its pin, and an entry left on disk has its receipt.
LEMMA FinishDownloadKeeps ==
  ASSUME Typed, Kept, NEW o \in Offer, active' = [active EXCEPT ![o] = 0],
         FinishDownload(o), UNCHANGED <<saved, dismissed>>
  PROVE  Kept'
<1>1. active'[o] = 0 /\ \A p \in Offer : p # o => active'[p] = active[p]
  BY DEF Typed, TypeOK
<1>2. CASE UNCHANGED <<receipts, pending, pendingDisk, pins>>
  BY <1>1, <1>2 DEF Kept, Waiting, PendingIsOnDisk, ActiveIsPending, ActiveIsPinned,
                    SavedIsReceiptedOrPending
<1>3. CASE /\ receipts' = receipts \cup {o}
           /\ pending' = pending \ {o}
           /\ pendingDisk' \in {pendingDisk, pending'}
           /\ pins' \in {pins, PinsReleased(o, pending')}
  <2>1. PendingIsOnDisk'
    BY <1>3 DEF Kept, Waiting, PendingIsOnDisk
  <2>2. ActiveIsPending'
    BY <1>1, <1>3 DEF Kept, Waiting, ActiveIsPending
  <2>3. ActiveIsPinned'
    BY <1>1, <1>3, <2>2, PinsReleasedFacts DEF Kept, ActiveIsPinned, ActiveIsPending
  <2>4. SavedIsReceiptedOrPending'
    BY <1>3 DEF Kept, Waiting, PendingIsOnDisk, SavedIsReceiptedOrPending
  <2>5. QED
    BY <2>1, <2>2, <2>3, <2>4 DEF Kept, Waiting
<1>4. QED
  BY <1>2, <1>3 DEF FinishDownload, FinishSaved

LEMMA RequestFileKeeps ==
  ASSUME FileTransfersAssumption, Typed, Kept, NEW o \in Offer, RequestFile(o)
  PROVE  Kept'
<1>1. UNCHANGED <<saved, receipts>>
  BY DEF RequestFile
<1>2. CASE /\ pending' = pending \cup {o} /\ pendingDisk' = pending'
           /\ pins' = pins \cup {FileOf[o]}
           /\ active' = [active EXCEPT ![o] = attempts']
           /\ dismissed' = dismissed \ {o}
  <2>1. \A p \in Offer : p # o => active'[p] = active[p]
    BY <1>2 DEF Typed, TypeOK
  <2>2. PendingIsOnDisk' /\ SavedIsReceiptedOrPending'
    BY <1>1, <1>2 DEF Kept, Waiting, PendingIsOnDisk, SavedIsReceiptedOrPending
  <2>3. ActiveIsPending' /\ ActiveIsPinned'
    BY <1>2, <2>1 DEF Kept, Waiting, ActiveIsPending, ActiveIsPinned
  <2>4. QED
    BY <2>2, <2>3 DEF Kept, Waiting
<1>3. CASE /\ \/ UNCHANGED <<pending, pendingDisk>>
              \/ pending' = pending \cup {o} /\ pendingDisk' = pending'
           /\ UNCHANGED <<pins, active, dismissed>>
  BY <1>1, <1>3 DEF Kept, Waiting, PendingIsOnDisk, SavedIsReceiptedOrPending,
                    ActiveIsPending, ActiveIsPinned
<1>4. QED
  BY <1>2, <1>3 DEF RequestFile

LEMMA CancelFileKeeps ==
  ASSUME Typed, Kept, NEW o \in Offer, CancelFile(o) PROVE Kept'
<1>1. UNCHANGED <<saved, receipts>>
  BY DEF CancelFile
<1>2. CASE /\ pending' = pending \ {o} /\ pendingDisk' = pending'
           /\ active' = [active EXCEPT ![o] = 0]
           /\ dismissed' = dismissed \cup {o}
           /\ pins' \in {pins, PinsReleased(o, pending')}
  <2>1. active'[o] = 0 /\ \A p \in Offer : p # o => active'[p] = active[p]
    BY <1>2 DEF Typed, TypeOK
  <2>2. PendingIsOnDisk' /\ SavedIsReceiptedOrPending'
    BY <1>1, <1>2 DEF Kept, Waiting, PendingIsOnDisk, SavedIsReceiptedOrPending
  <2>3. ActiveIsPending'
    BY <1>2, <2>1 DEF Kept, Waiting, ActiveIsPending
  <2>4. ActiveIsPinned'
    BY <1>2, <2>1, <2>3, PinsReleasedFacts DEF Kept, ActiveIsPinned, ActiveIsPending
  <2>5. QED
    BY <2>2, <2>3, <2>4 DEF Kept, Waiting
<1>3. CASE UNCHANGED <<pending, pendingDisk, active, dismissed, pins>>
  BY <1>1, <1>3 DEF Kept, Waiting, PendingIsOnDisk, SavedIsReceiptedOrPending,
                    ActiveIsPending, ActiveIsPinned
<1>4. QED
  BY <1>2, <1>3 DEF CancelFile

\* A file is saved by a task nobody has cancelled: its offer is the one that is
\* active, hence pending, hence on disk.
LEMMA TaskStepKeeps ==
  ASSUME FileTransfersAssumption, Typed, Kept, EveryDownloadIsCancellable,
         NEW t \in tasks, TaskStep(t)
  PROVE  Kept'
<1>1. /\ UNCHANGED <<pendingDisk, pins, receipts, pending, active, dismissed>>
      /\ saved' = saved \/ (saved' = saved \cup {t.offer} /\ ~t.cancelled)
  BY TaskStepRest
<1>2. t.offer \in Offer /\ t.attempt # 0
  BY DEF Typed, TypeOK, Task, Attempt
<1>3. ~t.cancelled => t.offer \in pendingDisk
  BY <1>2 DEF EveryDownloadIsCancellable, Kept, Waiting, ActiveIsPending, PendingIsOnDisk
<1>4. QED
  BY <1>1, <1>3 DEF Kept, Waiting, PendingIsOnDisk, ActiveIsPending, ActiveIsPinned,
                    SavedIsReceiptedOrPending

LEMMA KeptStep ==
  ASSUME FileTransfersAssumption, Typed, Kept, EveryDownloadIsCancellable,
         [Next]_transferVars
  PROVE  Kept'
<1>1. CASE UNCHANGED <<pending, pendingDisk, pins, active, saved, receipts, dismissed>>
  BY <1>1 DEF Kept, Waiting, PendingIsOnDisk, ActiveIsPending, ActiveIsPinned,
              SavedIsReceiptedOrPending
<1>2. CASE OwnerStep
  BY <1>1, <1>2, OwnerStepRest DEF serviceVars
<1>3. CASE TakeReport
  <2> DEFINE r == Head(reports)
  <2>1. r \in Report /\ r.offer \in Offer
    BY <1>3, HeadFacts DEF TakeReport, Typed, Report
  <2>2. UNCHANGED <<saved, dismissed>>
    BY <1>3 DEF TakeReport
  <2>3. CASE ~IsCurrent(r)
    BY <1>1, <1>3, <2>2, <2>3 DEF TakeReport
  <2>4. CASE IsCurrent(r) /\ r.is = "saved" /\ FinishDownload(r.offer)
    BY <1>3, <2>1, <2>2, <2>4, FinishDownloadKeeps DEF TakeReport
  <2>5. CASE IsCurrent(r) /\ UNCHANGED <<receipts, pending, pendingDisk, pins>>
    <3>1. \A p \in Offer : active'[p] \in {0, active[p]}
      BY <1>3, <2>1, <2>5 DEF TakeReport, Typed, TypeOK
    <3>2. QED
      BY <2>2, <2>5, <3>1 DEF Kept, Waiting, PendingIsOnDisk, ActiveIsPending,
                              ActiveIsPinned, SavedIsReceiptedOrPending
  <2>6. QED
    BY <1>3, <2>3, <2>4, <2>5 DEF TakeReport
<1>4. CASE ReceiverRestarts
  <2>1. /\ pending' = pendingDisk
        /\ \A o \in Offer : active'[o] = 0
        /\ UNCHANGED <<pendingDisk, saved, receipts, dismissed>>
    BY <1>4 DEF ReceiverRestarts
  <2>2. QED
    BY <2>1 DEF Kept, Waiting, PendingIsOnDisk, ActiveIsPending, ActiveIsPinned,
                SavedIsReceiptedOrPending
<1>5. CASE UNCHANGED transferVars
  BY <1>1, <1>5 DEF transferVars, serviceVars, storeVars
<1>6. CASE Next
  BY <1>2, <1>3, <1>4, <1>6, RequestFileKeeps, CancelFileKeeps, TaskStepKeeps
     DEF Next, OwnerStep, TaskStep
<1>7. QED
  BY <1>5, <1>6
-----------------------------------------------------------------------------
(***************************************************************************)
(* Nothing runs that the user cannot stop.                                 *)
(***************************************************************************)
LEMMA CancellableStep ==
  ASSUME FileTransfersAssumption, Typed, Numbered, EveryDownloadIsCancellable,
         [Next]_transferVars
  PROVE  EveryDownloadIsCancellable'
<1>1. AttemptsAreDistinct /\ LastWordsAreLast
  BY DEF Numbered
<1>2. \A t \in tasks : t.offer \in Offer /\ t.attempt # 0
  BY DEF Typed, TypeOK, Task, Attempt
<1>3. CASE TasksAreOld /\ active' = active
  BY <1>3 DEF EveryDownloadIsCancellable, TasksAreOld, Same
<1>4. CASE UNCHANGED <<tasks, active>>
  BY <1>4 DEF EveryDownloadIsCancellable
<1>5. CASE OwnerStep
  BY <1>4, <1>5, OwnerStepRest DEF serviceVars
<1>6. ASSUME NEW t \in tasks, TaskStep(t) PROVE EveryDownloadIsCancellable'
  BY <1>1, <1>3, <1>6, TaskStepTasks, TaskStepRest
<1>7. ASSUME NEW o \in Offer, RequestFile(o) PROVE EveryDownloadIsCancellable'
  <2> DEFINE t == [offer |-> o, attempt |-> attempts + 1, stage |-> "look",
                   cancelled |-> FALSE]
  <2>1. CASE UNCHANGED <<tasks, active>>
    BY <1>4, <2>1
  <2>2. CASE tasks' = tasks \cup {t} /\ active' = [active EXCEPT ![o] = attempts + 1]
    <3>1. t.offer = o /\ t.attempt = attempts + 1
      OBVIOUS
    <3>2. tasks' = tasks \cup {t}
      BY <2>2
    <3> HIDE DEF t
    <3>3. /\ active'[o] = attempts + 1
          /\ \A p \in Offer : p # o => active'[p] = active[p]
      BY <2>2 DEF Typed, TypeOK
    <3>4. active[o] = 0
      BY <1>7 DEF RequestFile
    <3>5. \A u \in tasks : u.offer = o => u.cancelled
      BY <1>2, <3>4 DEF EveryDownloadIsCancellable
    <3>6. QED
      BY <1>2, <3>1, <3>2, <3>3, <3>5 DEF EveryDownloadIsCancellable
  <2>3. QED
    BY <1>7, <2>1, <2>2 DEF RequestFile
<1>8. ASSUME NEW o \in Offer, CancelFile(o) PROVE EveryDownloadIsCancellable'
  <2>1. CASE UNCHANGED <<tasks, active>>
    BY <1>4, <2>1
  <2>2. CASE tasks' = CancelTask(o) /\ active' = [active EXCEPT ![o] = 0]
    <3>1. /\ TasksAreOld
          /\ \A u \in tasks' : u.attempt = active[o] => u.cancelled
      BY <1>1, <2>2, CancelTasks
    <3>2. \A p \in Offer : p # o => active'[p] = active[p]
      BY <2>2 DEF Typed, TypeOK
    <3>3. SUFFICES ASSUME NEW u \in tasks' PROVE u.cancelled \/ active'[u.offer] = u.attempt
      BY DEF EveryDownloadIsCancellable
    <3>4. PICK v \in tasks : Same(u, v)
      BY <3>1 DEF TasksAreOld
    <3>5. v.cancelled \/ active[v.offer] = v.attempt
      BY DEF EveryDownloadIsCancellable
    <3>6. QED
      BY <1>2, <3>1, <3>2, <3>4, <3>5 DEF Same
  <2>3. QED
    BY <1>8, <2>1, <2>2 DEF CancelFile
<1>9. CASE TakeReport
  <2> DEFINE r == Head(reports)
  <2>1. /\ r \in Report /\ r = reports[1] /\ 1 \in DOMAIN reports /\ tasks' = tasks
        /\ r.offer \in Offer
    BY <1>9, HeadFacts DEF TakeReport, Typed, Report
  <2>2. CASE active' = active
    BY <1>4, <2>1, <2>2
  <2>3. CASE IsCurrent(r) /\ r.is # "progress" /\ active' = [active EXCEPT ![r.offer] = 0]
    <3>1. \A t \in tasks : t.attempt # r.attempt
      BY <1>1, <2>1, <2>3 DEF LastWordsAreLast
    <3>2. \A p \in Offer : p # r.offer => active'[p] = active[p]
      BY <2>1, <2>3 DEF Typed, TypeOK
    <3>3. \A t \in tasks : t.offer = r.offer => t.cancelled
      BY <2>3, <3>1 DEF EveryDownloadIsCancellable, IsCurrent
    <3>4. QED
      BY <1>2, <2>1, <3>2, <3>3 DEF EveryDownloadIsCancellable
  <2>4. QED
    BY <1>9, <2>2, <2>3 DEF TakeReport
<1>10. CASE ReceiverRestarts
  BY <1>10 DEF ReceiverRestarts, EveryDownloadIsCancellable
<1>11. CASE UNCHANGED transferVars
  BY <1>4, <1>11 DEF transferVars, serviceVars
<1>12. CASE Next
  BY <1>5, <1>6, <1>7, <1>8, <1>9, <1>10, <1>12 DEF Next, OwnerStep, TaskStep
<1>13. QED
  BY <1>11, <1>12
-----------------------------------------------------------------------------
LEMMA InvStep == Inv /\ [Next]_transferVars => Inv'
<1> SUFFICES ASSUME Inv, [Next]_transferVars PROVE Inv'
  OBVIOUS
<1>1. FileTransfersAssumption'
  BY DEF Inv, FileTransfersAssumption
<1>2. Typed'
  BY TypedStep DEF Inv, Numbered
<1>3. Numbered'
  BY NumberedStep DEF Inv
<1>4. EveryDownloadIsCancellable'
  BY CancellableStep DEF Inv, Promises
<1>5. Kept'
  BY KeptStep DEF Inv, Kept, Waiting, Promises
<1>6. QED
  BY <1>1, <1>2, <1>3, <1>4, <1>5 DEF Inv, Kept, Waiting, Promises

LEMMA InvPromises ==
  Inv => /\ TypeOK
         /\ EveryDownloadIsCancellable
         /\ ActiveIsPinned
         /\ SavedIsReceiptedOrPending
BY DEF Inv, Typed, Promises

LEMMA Invariance == FileTransfersAssumption /\ Spec => []Inv
BY InitInv, InvStep, PTL DEF Spec

(***************************************************************************)
(* Every variable keeps its type, for any offers, files and bounds.        *)
(***************************************************************************)
THEOREM TypeCorrect == FileTransfersAssumption /\ Spec => []TypeOK
BY InvPromises, Invariance, PTL

(***************************************************************************)
(* Every download that runs is the one cancel_file reaches, or has been     *)
(* told to end: no report of an earlier attempt, however late, and no       *)
(* restart unseats the current one.                                        *)
(***************************************************************************)
THEOREM DownloadsAreCancellable ==
  FileTransfersAssumption /\ Spec => []EveryDownloadIsCancellable
BY InvPromises, Invariance, PTL

(***************************************************************************)
(* release_download_pin never takes the pin of a download in progress, of   *)
(* whichever offer of the file.                                            *)
(***************************************************************************)
THEOREM DownloadsArePinned == FileTransfersAssumption /\ Spec => []ActiveIsPinned
BY InvPromises, Invariance, PTL

(***************************************************************************)
(* finish_download and file-downloads.json between them never lose the      *)
(* receipt of a saved file, through failed writes and restarts.             *)
(***************************************************************************)
THEOREM ReceiptsAreNotLost ==
  FileTransfersAssumption /\ Spec => []SavedIsReceiptedOrPending
BY InvPromises, Invariance, PTL
=============================================================================
