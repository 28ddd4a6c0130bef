-------------------------- MODULE Services_proofs --------------------------
(***************************************************************************)
(* The safety properties of Services hold for every value of its constants. *)
(* The invariant of the whole is that of the component which runs; each    *)
(* component's invariant is proved beside it, those of CallAudio and       *)
(* CallRecording here.                                                     *)
(***************************************************************************)
EXTENDS Services, FiniteSetTheorems, TLAPS

\* Every SetAudioConfig that waits may open a context (x4 counts them).
Opening(commands) == {i \in DOMAIN commands : commands[i].op = "SetAudioConfig"}

AudioInv == Audio!TypeOK /\ x4 + Cardinality(Opening(x3)) <= MaxContexts

(***************************************************************************)
(* CallRecording, for any participants, capacities and bounds: x1 session,  *)
(* x2 speakers, x3 stop, x4 tap, x5 queue, x6 writer, x7 file, x8 frames,   *)
(* x9 outcome, x10 ticks, x11 dropped, x12 source, x13 decoder, x14 hungUp, *)
(* x15 summary, x16 deviceGone.  The manifest is right because the frames   *)
(* of a speaker are accounted for all along: in the file, in the queue or  *)
(* dropped, unless an error has been noted or a track ended in the tick,    *)
(* which no track does twice; and because a writer ends only behind its tap. *)
(***************************************************************************)
\* The ticks of a speaker's tap that handed something on.
Due(s) == x10[s] - Recording!TracksEnded(s)

\* Where they have gone.
Balanced ==
  \A s \in Recording!Speaker :
    /\ x8[s] + x5[s] + x11[s] =< Due(s)
    /\ ~x9[s].error => x8[s] + x5[s] + x11[s] = Due(s)
    /\ x9[s].frames = x8[s]

\* Every track that ended had been taken up, and the open one has yet to end; who
\* has not been attached has no track.
InOrder(d, newest) == d.ended + (IF d.open = 0 THEN 0 ELSE 1) =< d.seen /\ d.seen =< newest
TracksInOrder ==
  \A p \in Participant :
    /\ InOrder(x13[p], x12[p])
    /\ x1 = "none" \/ (x1 = "live" /\ p \notin x2) => x12[p] = 0

\* What a writer has done by the time it ends.
Closed ==
  \A s \in Recording!Speaker :
    /\ x6[s] = "drains" => x9[s].error
    /\ x6[s] = "ended" =>
         x5[s] = 0 /\ x4[s] = "gone" /\ (x9[s].error \/ x7[s] # "open")

\* Nothing is reported before the recording is told to stop.
NoSummaryYet == x1 \in {"none", "live"} => \A s \in Recording!Speaker : ~x15[s].is

RecordingInv ==
  /\ Recording!CallRecordingAssumption
  /\ Recording!TypeOK
  /\ Balanced
  /\ TracksInOrder
  /\ Closed
  /\ NoSummaryYet
  /\ Recording!ManifestIsTrue

Inv ==
  /\ part = "sessions" => Sessions!Inv
  /\ part = "transfers" => Transfers!Inv
  /\ part = "recording" => RecordingInv
  /\ part = "audio" => AudioInv
  /\ part = "streams" => Streams!Inv
  /\ part = "delivery" => Delivery!Inv /\ Delivery!HonestInv

-----------------------------------------------------------------------------
LEMMA SessionsPart ==
  /\ Sessions!Init => Sessions!Inv
  /\ Sessions!Inv /\ [Sessions!Next]_(Sessions!sessionVars) => Sessions!Inv'
BY ServiceAssumptions, Sessions!InitInv, Sessions!InvStep

LEMMA TransfersPart ==
  /\ Transfers!Init => Transfers!Inv
  /\ Transfers!Inv /\ [Transfers!Next]_(Transfers!transferVars) => Transfers!Inv'
BY ServiceAssumptions, Transfers!InitInv, Transfers!InvStep

LEMMA RecordingBounds ==
  ASSUME Recording!CallRecordingAssumption
  PROVE  /\ QueueCapacity \in Nat /\ MaxFrames \in Nat /\ MaxGeneration \in Nat
         /\ 1 \in 0..MaxGeneration /\ 0 \in 0..MaxGeneration
         /\ Microphone \in Recording!Speaker /\ Participant \subseteq Recording!Speaker
BY DEF Recording!CallRecordingAssumption, Recording!Speaker

LEMMA RecordingInitInv == Recording!CallRecordingAssumption /\ Recording!Init => RecordingInv
<1> SUFFICES ASSUME Recording!CallRecordingAssumption, Recording!Init PROVE RecordingInv
  OBVIOUS
<1>1. Recording!TypeOK
  <2>1. /\ 0 \in 0..QueueCapacity /\ 0 \in 0..MaxFrames /\ 0 \in 0..MaxGeneration
    BY RecordingBounds
  <2>2. [frames |-> 0, error |-> FALSE] \in Recording!Outcome /\ Recording!NoReport \in Recording!Report
    BY <2>1 DEF Recording!Outcome, Recording!Report, Recording!NoReport
  <2>3. QED
    BY <2>1, <2>2 DEF Recording!Init, Recording!TypeOK
<1>2. Balanced /\ TracksInOrder /\ Closed /\ NoSummaryYet /\ Recording!ManifestIsTrue
  BY DEF Recording!Init, Balanced, Due, Recording!TracksEnded, TracksInOrder, InOrder, Closed,
     NoSummaryYet, Recording!ManifestIsTrue, Recording!NoReport
<1>3. QED
  BY <1>1, <1>2 DEF RecordingInv
-----------------------------------------------------------------------------
(***************************************************************************)
(* The steps by what they do to the frames: the session's steps do nothing  *)
(* to them, a tick of the tap of s, a step of the writer of s, and a report. *)
(***************************************************************************)
\* What the frames of every speaker but s, and its files, depend on.
OthersStay(s) ==
  \A q \in Recording!Speaker : q # s =>
    /\ x8'[q] = x8[q] /\ x5'[q] = x5[q] /\ x11'[q] = x11[q]
    /\ x10'[q] = x10[q] /\ Recording!TracksEnded(q)' = Recording!TracksEnded(q)
    /\ x9'[q] = x9[q] /\ x7'[q] = x7[q]
    /\ x4'[q] = x4[q] /\ x6'[q] = x6[q]

SessionStep ==
  \/ Recording!StartWithMicrophone \/ Recording!StartWithoutMicrophone
  \/ Recording!StopRecording \/ Recording!Finish \/ Recording!DeviceGoes
  \/ \E p \in Participant :
       Recording!AttachParticipant(p) \/ Recording!ReplaceParticipantTrack(p)
         \/ Recording!HangUp(p)

TapStep ==
  \/ Recording!MicrophoneTick \/ Recording!CaptureLoopEnds
  \/ \E p \in Participant : Recording!DecodeLoop(p)

WriterStep(s) == Recording!WriteFrame(s) \/ Recording!Drain(s) \/ Recording!WriterEnds(s)

LEMMA DueType ==
  ASSUME Recording!CallRecordingAssumption, Recording!TypeOK, NEW s \in Recording!Speaker
  PROVE  /\ Recording!TracksEnded(s) \in Nat
         /\ Due(s) \in Int /\ Due(s) =< x10[s] /\ Due(s) =< MaxFrames
<1>1. Recording!TracksEnded(s) \in Nat
  BY DEF Recording!TracksEnded, Recording!TypeOK
<1>2. x10[s] \in 0..MaxFrames /\ MaxFrames \in Nat
  BY RecordingBounds DEF Recording!TypeOK
<1>3. QED
  BY <1>1, <1>2 DEF Due

LEMMA DueStays ==
  ASSUME NEW s \in Recording!Speaker, x13' = x13
  PROVE  /\ Recording!TracksEnded(s)' = Recording!TracksEnded(s)
         /\ x10'[s] = x10[s] => Due(s)' = Due(s)
<1>1. Recording!TracksEnded(s)' = Recording!TracksEnded(s)
  BY DEF Recording!TracksEnded
<1>2. QED
  BY <1>1 DEF Due

LEMMA SessionStepFacts ==
  ASSUME Recording!CallRecordingAssumption, Recording!TypeOK, SessionStep
  PROVE  /\ Recording!TypeOK'
         /\ UNCHANGED <<x5, x7, x8, x9, x10, x11, x13, x15>>
         /\ x1' \in {"none", "live"} => x1 \in {"none", "live"}
         /\ \/ UNCHANGED <<x4, x6>>
            \/ x1 = "none" \/ x1 = "live"
         /\ \A q \in Recording!Speaker : (x6'[q] = x6[q] /\ x4'[q] = x4[q]) \/ x6'[q] = "runs"
<1>1. CASE Recording!StartWithMicrophone
  BY <1>1, RecordingBounds DEF Recording!StartWithMicrophone, Recording!StartSpeakerWriter,
     Recording!TypeOK
<1>2. CASE Recording!StartWithoutMicrophone
  BY <1>2 DEF Recording!StartWithoutMicrophone, Recording!tapVars, Recording!writerVars,
     Recording!TypeOK
<1>3. CASE Recording!StopRecording
  BY <1>3 DEF Recording!StopRecording, Recording!writerVars, Recording!TypeOK
<1>4. CASE Recording!Finish
  BY <1>4 DEF Recording!Finish, Recording!tapVars, Recording!writerVars, Recording!TypeOK
<1>5. CASE Recording!DeviceGoes
  BY <1>5 DEF Recording!DeviceGoes, Recording!Fault, Recording!tapVars, Recording!writerVars,
     Recording!TypeOK
<1>6. ASSUME NEW p \in Participant, Recording!AttachParticipant(p)
      PROVE  /\ Recording!TypeOK'
             /\ UNCHANGED <<x5, x7, x8, x9, x10, x11, x13, x15>>
             /\ x1 = "live"
             /\ \A q \in Recording!Speaker : (x6'[q] = x6[q] /\ x4'[q] = x4[q]) \/ x6'[q] = "runs"
  <2>1. p \in Recording!Speaker /\ 1 \in 0..MaxGeneration
    BY RecordingBounds
  <2>2. QED
    BY <1>6, <2>1 DEF Recording!AttachParticipant, Recording!StartSpeakerWriter,
       Recording!TypeOK
<1>7. ASSUME NEW p \in Participant, Recording!ReplaceParticipantTrack(p)
      PROVE  Recording!TypeOK' /\ UNCHANGED <<x5, x7, x8, x9, x10, x11, x13, x15,
                                              x1, x4, x6>>
  <2>1. x12[p] + 1 \in 0..MaxGeneration
    BY <1>7, RecordingBounds DEF Recording!ReplaceParticipantTrack, Recording!TypeOK
  <2>2. QED
    BY <1>7, <2>1 DEF Recording!ReplaceParticipantTrack, Recording!writerVars, Recording!TypeOK
<1>8. ASSUME NEW p \in Participant, Recording!HangUp(p)
      PROVE  Recording!TypeOK' /\ UNCHANGED <<x5, x7, x8, x9, x10, x11, x13, x15,
                                              x1, x4, x6>>
  BY <1>8 DEF Recording!HangUp, Recording!tapVars, Recording!writerVars, Recording!TypeOK
<1>9. QED
  BY <1>1, <1>2, <1>3, <1>4, <1>5, <1>6, <1>7, <1>8
     DEF SessionStep, Recording!StartWithMicrophone, Recording!StartWithoutMicrophone,
     Recording!StopRecording, Recording!Finish,
         Recording!DeviceGoes, Recording!tapVars, Recording!writerVars

LEMMA SessionStepTracks ==
  ASSUME Recording!CallRecordingAssumption, Recording!TypeOK, TracksInOrder, SessionStep
  PROVE  TracksInOrder'
<1> SUFFICES ASSUME NEW p \in Participant
             PROVE  /\ InOrder(x13[p], x12[p])'
                    /\ (x1 = "none" \/ (x1 = "live" /\ p \notin x2) => x12[p] = 0)'
  BY DEF TracksInOrder
<1>1. /\ InOrder(x13[p], x12[p])
      /\ x1 = "none" \/ (x1 = "live" /\ p \notin x2) => x12[p] = 0
      /\ x12 \in [Participant -> 0..MaxGeneration] /\ x13[p].seen \in 0..MaxGeneration
      /\ MaxGeneration \in Nat
  BY RecordingBounds DEF TracksInOrder, Recording!TypeOK
<1>2. CASE \/ Recording!StartWithMicrophone \/ Recording!StartWithoutMicrophone
           \/ Recording!StopRecording \/ Recording!Finish \/ Recording!DeviceGoes
           \/ \E q \in Participant : Recording!HangUp(q)
  <2>1. x12' = x12 /\ x13' = x13
    BY <1>2 DEF Recording!StartWithMicrophone, Recording!StartWithoutMicrophone,
       Recording!StopRecording, Recording!Finish, Recording!DeviceGoes, Recording!HangUp,
       Recording!tapVars
  <2>2. \/ x1 = "none"
        \/ x1' \notin {"none", "live"}
        \/ x1' = x1 /\ x2' = x2
    BY <1>2 DEF Recording!StartWithMicrophone, Recording!StartWithoutMicrophone,
       Recording!StopRecording, Recording!Finish, Recording!DeviceGoes, Recording!HangUp
  <2>3. QED
    BY <1>1, <2>1, <2>2 DEF InOrder
<1>3. ASSUME NEW q \in Participant, Recording!AttachParticipant(q)
      PROVE  /\ InOrder(x13[p], x12[p])'
             /\ (x1 = "none" \/ (x1 = "live" /\ p \notin x2) => x12[p] = 0)'
  <2>1. /\ x1 = "live" /\ q \notin x2 /\ x1' = x1 /\ x2' = x2 \cup {q}
        /\ x12' = [x12 EXCEPT ![q] = 1] /\ x13' = x13
    BY <1>3 DEF Recording!AttachParticipant
  <2>2. CASE p = q
    <3>1. x12[p] = 0 /\ x12'[p] = 1
      BY <1>1, <2>1, <2>2
    <3>2. InOrder(x13[p], x12[p])'
      BY <1>1, <2>1, <3>1 DEF InOrder
    <3>3. QED
      BY <2>1, <2>2, <3>2
  <2>3. CASE p # q
    <3>1. x12'[p] = x12[p]
      BY <1>1, <2>1, <2>3
    <3>2. QED
      BY <1>1, <2>1, <3>1 DEF InOrder
  <2>4. QED
    BY <2>2, <2>3
<1>4. ASSUME NEW q \in Participant, Recording!ReplaceParticipantTrack(q)
      PROVE  /\ InOrder(x13[p], x12[p])'
             /\ (x1 = "none" \/ (x1 = "live" /\ p \notin x2) => x12[p] = 0)'
  <2>1. /\ x1 = "live" /\ q \in x2 /\ x1' = x1 /\ x2' = x2 /\ x13' = x13
        /\ x12' = [x12 EXCEPT ![q] = @ + 1]
    BY <1>4 DEF Recording!ReplaceParticipantTrack
  <2>2. /\ x12'[p] = x12[p] \/ (p = q /\ x12'[p] = x12[p] + 1)
        /\ x12[p] \in Nat
    BY <1>1, <2>1
  <2>3. InOrder(x13[p], x12[p])'
    BY <1>1, <2>1, <2>2 DEF InOrder
  <2>4. QED
    BY <1>1, <2>1, <2>2, <2>3
<1>5. QED
  BY <1>2, <1>3, <1>4 DEF SessionStep

\* A tick pushes, which hands on a frame or counts it, or finds that a track has
\* ended, or the tap goes; the rest stays.
Ticked(s) ==
  /\ x4[s] = "runs"
  /\ \/ /\ Recording!Push(s) \/ Recording!DropTap(s)
        /\ Recording!Push(s) => UNCHANGED x4
        /\ Recording!TracksEnded(s)' = Recording!TracksEnded(s)
     \/ /\ Recording!Tick(s) /\ UNCHANGED <<x4, x5, x11>>
        /\ Recording!TracksEnded(s)' = Recording!TracksEnded(s) + 1
  /\ \A q \in Recording!Speaker :
       q # s => Recording!TracksEnded(q)' = Recording!TracksEnded(q)
  /\ UNCHANGED <<x1, x2, x3, Recording!writerVars, x12, x14, x15>>

DecoderState == [seen : 0..MaxGeneration, open : 0..MaxGeneration, ended : Nat]

LEMMA AdoptedFacts ==
  ASSUME Recording!CallRecordingAssumption, Recording!TypeOK, TracksInOrder,
         NEW p \in Participant, NEW b \in BOOLEAN
  PROVE  /\ Recording!Adopted(p, b) \in DecoderState
         /\ Recording!Adopted(p, b).ended = x13[p].ended
         /\ InOrder(Recording!Adopted(p, b), x12[p])
<1>1. /\ x13[p] \in DecoderState /\ x12[p] \in 0..MaxGeneration /\ MaxGeneration \in Nat
      /\ InOrder(x13[p], x12[p])
  BY RecordingBounds DEF Recording!TypeOK, DecoderState, TracksInOrder
<1>2. CASE x12[p] = x13[p].seen
  BY <1>1, <1>2 DEF Recording!Adopted
<1>3. CASE x12[p] # x13[p].seen
  <2> DEFINE d == [x13[p] EXCEPT !.seen = x12[p], !.open = IF b THEN x12[p] ELSE @]
  <2>1. Recording!Adopted(p, b) = d
    BY <1>3 DEF Recording!Adopted
  <2>2. /\ d \in DecoderState /\ d.seen = x12[p] /\ d.ended = x13[p].ended
        /\ d.open = IF b THEN x12[p] ELSE x13[p].open
    BY <1>1 DEF DecoderState
  <2>3. x13[p].seen \in Nat /\ x13[p].ended \in Nat /\ x13[p].open \in Nat
    BY <1>1 DEF DecoderState
  <2>4. x13[p].ended + 1 =< x12[p]
    BY <1>1, <1>3, <2>3 DEF InOrder
  <2> HIDE DEF d
  <2>5. InOrder(d, x12[p])
    BY <1>1, <2>2, <2>3, <2>4 DEF InOrder
  <2>6. QED
    BY <2>1, <2>2, <2>5
<1>4. QED
  BY <1>2, <1>3

LEMMA DecodeLoopTicks ==
  ASSUME Recording!CallRecordingAssumption, Recording!TypeOK, TracksInOrder,
         NEW p \in Participant, Recording!DecodeLoop(p)
  PROVE  /\ Ticked(p)
         /\ x13' \in [Participant -> DecoderState]
         /\ \A q \in Participant : InOrder(x13'[q], x12[q])
         /\ x16' = x16
<1>1. /\ x13 \in [Participant -> DecoderState] /\ p \in Recording!Speaker
      /\ x13[p].ended \in Nat
      /\ \A q \in Participant : InOrder(x13[q], x12[q])
      /\ x4[p] = "runs" /\ x16' = x16
      /\ UNCHANGED <<x1, x2, x3, Recording!writerVars, x12, x14, x15>>
  BY RecordingBounds DEF Recording!TypeOK, DecoderState, TracksInOrder, Recording!DecodeLoop
\* It suffices to look at the decoder of p.
<1>2. ASSUME NEW d \in DecoderState, x13' = [x13 EXCEPT ![p] = d], InOrder(d, x12[p])
      PROVE  /\ x13' \in [Participant -> DecoderState]
             /\ \A q \in Participant : InOrder(x13'[q], x12[q])
             /\ Recording!TracksEnded(p)' = d.ended
             /\ Recording!TracksEnded(p) = x13[p].ended
             /\ \A q \in Recording!Speaker :
                  q # p => Recording!TracksEnded(q)' = Recording!TracksEnded(q)
  <2>1. x13'[p] = d /\ \A q \in Participant : q # p => x13'[q] = x13[q]
    BY <1>1, <1>2
  <2>2. QED
    BY <1>1, <1>2, <2>1 DEF Recording!TracksEnded
<1>3. CASE Recording!DropTap(p) /\ x13' = x13
  <2>1. \A q \in Recording!Speaker : Recording!TracksEnded(q)' = Recording!TracksEnded(q)
    BY <1>3, DueStays
  <2>2. ~Recording!Push(p) \/ UNCHANGED x4
    BY <1>1, <1>3 DEF Recording!Push, Recording!Tick, Recording!DropTap, Recording!TypeOK,
       Recording!CallRecordingAssumption
  <2>3. QED
    BY <1>1, <1>3, <2>1, <2>2 DEF Ticked
<1>4. CASE /\ Recording!DropTap(p)
           /\ x13' = [x13 EXCEPT ![p] = [Recording!Adopted(p, TRUE) EXCEPT !.open = 0]]
  <2> DEFINE n == Recording!Adopted(p, TRUE)
             d == [n EXCEPT !.open = 0]
  <2>1. n \in DecoderState /\ n.ended = x13[p].ended /\ InOrder(n, x12[p])
    BY AdoptedFacts
  <2>2. x13' = [x13 EXCEPT ![p] = d]
    BY <1>4
  <2> HIDE DEF n
  <2>3. d \in DecoderState /\ d.ended = n.ended /\ d.open = 0 /\ d.seen = n.seen
    BY <2>1, RecordingBounds DEF DecoderState
  <2> HIDE DEF d
  <2>4. n.ended \in Nat /\ n.seen \in Int
    BY <2>1 DEF DecoderState
  <2>5. InOrder(d, x12[p])
    BY <2>1, <2>3, <2>4 DEF InOrder
  <2>6. ~Recording!Push(p) \/ UNCHANGED x4
    BY <1>1, <1>4 DEF Recording!Push, Recording!Tick, Recording!DropTap, Recording!TypeOK,
       Recording!CallRecordingAssumption
  <2>7. QED
    BY <1>1, <1>2, <1>4, <2>1, <2>2, <2>3, <2>5, <2>6 DEF Ticked
<1>5. ASSUME NEW b \in BOOLEAN, Recording!DecodeTick(p, Recording!Adopted(p, b)), UNCHANGED x4
      PROVE  /\ Ticked(p)
             /\ x13' \in [Participant -> DecoderState]
             /\ \A q \in Participant : InOrder(x13'[q], x12[q])
  <2> DEFINE n == Recording!Adopted(p, b)
             d == [n EXCEPT !.open = 0, !.ended = @ + 1]
  <2>1. n \in DecoderState /\ n.ended = x13[p].ended /\ InOrder(n, x12[p])
    BY AdoptedFacts
  <2>2. \/ Recording!Push(p) /\ x13' = [x13 EXCEPT ![p] = n]
        \/ /\ n.open # 0 /\ Recording!Tick(p) /\ UNCHANGED <<x5, x11>>
           /\ x13' = [x13 EXCEPT ![p] = d]
    BY <1>5 DEF Recording!DecodeTick, Recording!MayHaveEnded
  <2> HIDE DEF n
  <2>3. CASE Recording!Push(p) /\ x13' = [x13 EXCEPT ![p] = n]
    BY <1>1, <1>2, <1>5, <2>1, <2>3 DEF Ticked
  <2>4. CASE /\ n.open # 0 /\ Recording!Tick(p) /\ UNCHANGED <<x5, x11>>
             /\ x13' = [x13 EXCEPT ![p] = d]
    <3>1. n.ended \in Nat /\ n.seen \in 0..MaxGeneration /\ n.open \in 0..MaxGeneration
      BY <2>1 DEF DecoderState
    <3>2. d \in DecoderState /\ d.ended = n.ended + 1 /\ d.open = 0 /\ d.seen = n.seen
      <4> DEFINE e == [n EXCEPT !.open = 0]
      <4>1. /\ e \in DecoderState /\ e.ended = n.ended /\ e.open = 0 /\ e.seen = n.seen
        BY <2>1, RecordingBounds DEF DecoderState
      <4>2. d = [e EXCEPT !.ended = n.ended + 1] /\ n.ended + 1 \in Nat
        BY <3>1, <4>1
      <4> HIDE DEF d, e
      <4>3. QED
        BY <4>1, <4>2 DEF DecoderState
    <3> HIDE DEF d
    <3>3. n.ended + 1 =< n.seen /\ n.seen =< x12[p]
      BY <2>1, <2>4 DEF InOrder
    <3>4. InOrder(d, x12[p])
      BY <3>1, <3>2, <3>3 DEF InOrder
    <3>5. QED
      BY <1>1, <1>2, <1>5, <2>1, <2>4, <3>2, <3>4 DEF Ticked
  <2>5. QED
    BY <2>2, <2>3, <2>4
<1>6. \/ Recording!DropTap(p) /\ x13' = x13
      \/ /\ Recording!DropTap(p)
         /\ x13' = [x13 EXCEPT ![p] = [Recording!Adopted(p, TRUE) EXCEPT !.open = 0]]
      \/ \E b \in BOOLEAN :
           Recording!DecodeTick(p, Recording!Adopted(p, b)) /\ UNCHANGED x4
  BY DEF Recording!DecodeLoop
<1>7. QED
  BY <1>1, <1>3, <1>4, <1>5, <1>6

LEMMA TapStepTicks ==
  ASSUME Recording!CallRecordingAssumption, Recording!TypeOK, TracksInOrder, TapStep
  PROVE  /\ \E s \in Recording!Speaker : Ticked(s)
         /\ x13' \in [Participant -> DecoderState]
         /\ \A q \in Participant : InOrder(x13'[q], x12[q])
         /\ x16' = x16
<1>1. CASE Recording!MicrophoneTick \/ Recording!CaptureLoopEnds
  <2>1. /\ x13' = x13 /\ x16' = x16 /\ x4[Microphone] = "runs"
        /\ \/ Recording!Push(Microphone) /\ UNCHANGED x4
           \/ Recording!DropTap(Microphone) /\ x4' # x4
        /\ UNCHANGED <<x1, x2, x3, Recording!writerVars, x12, x14, x15>>
    BY <1>1, RecordingBounds DEF Recording!MicrophoneTick, Recording!CaptureLoopEnds,
       Recording!DropTap, Recording!TypeOK
  <2>2. \A q \in Recording!Speaker : Recording!TracksEnded(q)' = Recording!TracksEnded(q)
    BY <2>1, DueStays
  <2>3. Recording!Push(Microphone) => UNCHANGED x4
    BY <2>1, RecordingBounds DEF Recording!Push, Recording!Tick, Recording!DropTap,
       Recording!TypeOK
  <2>4. Ticked(Microphone) /\ Microphone \in Recording!Speaker
    BY <2>1, <2>2, <2>3, RecordingBounds DEF Ticked
  <2>5. QED
    BY <2>1, <2>4 DEF Recording!TypeOK, DecoderState, TracksInOrder
<1>2. CASE \E p \in Participant : Recording!DecodeLoop(p)
  BY <1>2, DecodeLoopTicks, RecordingBounds
<1>3. QED
  BY <1>1, <1>2 DEF TapStep

LEMMA TickedFacts ==
  ASSUME Recording!CallRecordingAssumption, Recording!TypeOK, NEW s \in Recording!Speaker, Ticked(s)
  PROVE  /\ x4' \in [Recording!Speaker -> {"none", "runs", "gone"}]
         /\ x5' \in [Recording!Speaker -> 0..QueueCapacity]
         /\ x10' \in [Recording!Speaker -> 0..MaxFrames]
         /\ x11'[s] + x5'[s] - Due(s)' = x11[s] + x5[s] - Due(s)
         /\ Due(s)' \in Int /\ Due(s)' =< MaxFrames
         /\ x11'[s] \in Nat
         /\ x11' = [x11 EXCEPT ![s] = x11'[s]]
         /\ OthersStay(s)
<1>1. /\ x5[s] \in 0..QueueCapacity /\ x10[s] \in 0..MaxFrames
      /\ x11[s] \in 0..MaxFrames /\ MaxFrames \in Nat /\ QueueCapacity \in Nat
      /\ Recording!TracksEnded(s) \in Nat /\ Due(s) \in Int
  BY RecordingBounds, DueType DEF Recording!TypeOK
<1>2. OthersStay(s)
  BY DEF Ticked, Recording!Push, Recording!Tick, Recording!DropTap, OthersStay,
     Recording!TypeOK, Recording!writerVars
<1>3. CASE /\ Recording!DropTap(s)
           /\ Recording!TracksEnded(s)' = Recording!TracksEnded(s)
  BY <1>1, <1>2, <1>3 DEF Recording!DropTap, Recording!TypeOK, Due
<1>4. CASE /\ Recording!Push(s) /\ UNCHANGED x4
           /\ Recording!TracksEnded(s)' = Recording!TracksEnded(s)
  <2>1. x10[s] + 1 \in 0..MaxFrames /\ x10' = [x10 EXCEPT ![s] = @ + 1]
    BY <1>1, <1>4 DEF Recording!Push, Recording!Tick
  <2>2. /\ x10' \in [Recording!Speaker -> 0..MaxFrames] /\ x10'[s] = x10[s] + 1
        /\ Due(s)' = Due(s) + 1 /\ Due(s)' =< MaxFrames
    <3>1. x10' \in [Recording!Speaker -> 0..MaxFrames] /\ x10'[s] = x10[s] + 1
      BY <2>1 DEF Recording!TypeOK
    <3>2. Due(s)' = x10'[s] - Recording!TracksEnded(s)
      BY <1>4 DEF Due
    <3>3. QED
      BY <1>1, <2>1, <3>1, <3>2 DEF Due
  <2>3. CASE Recording!Full(s)
    <3>1. x11' = [x11 EXCEPT ![s] = @ + 1] /\ x5' = x5
      BY <1>4, <2>3 DEF Recording!Push
    <3>2. x11'[s] = x11[s] + 1 /\ x11' = [x11 EXCEPT ![s] = x11'[s]]
      BY <3>1 DEF Recording!TypeOK
    <3>3. x11'[s] \in Nat
      BY <1>1, <3>2
    <3>4. x11'[s] + x5'[s] - Due(s)' = x11[s] + x5[s] - Due(s)
      BY <1>1, <2>2, <3>1, <3>2
    <3>5. x4' \in [Recording!Speaker -> {"none", "runs", "gone"}] /\ x5' \in [Recording!Speaker -> 0..QueueCapacity]
      BY <1>4, <3>1 DEF Recording!TypeOK
    <3>6. QED
      BY <1>1, <1>2, <2>2, <3>2, <3>3, <3>4, <3>5
  <2>4. CASE ~Recording!Full(s)
    <3>1. x5' = [x5 EXCEPT ![s] = @ + 1] /\ x11' = x11
      BY <1>4, <2>4 DEF Recording!Push
    <3>2. x5[s] + 1 \in 0..QueueCapacity
      BY <1>1, <2>4 DEF Recording!Full
    <3>3. x5' \in [Recording!Speaker -> 0..QueueCapacity] /\ x5'[s] = x5[s] + 1
      BY <3>1, <3>2 DEF Recording!TypeOK
    <3>4. QED
      BY <1>1, <1>2, <1>4, <2>2, <3>1, <3>3 DEF Recording!TypeOK
  <2>5. QED
    BY <2>3, <2>4
\* The tick in which a track ends hands on nothing, and nothing is due.
<1>5. CASE /\ Recording!Tick(s) /\ UNCHANGED <<x4, x5, x11>>
           /\ Recording!TracksEnded(s)' = Recording!TracksEnded(s) + 1
  <2>1. x10[s] + 1 \in 0..MaxFrames /\ x10' = [x10 EXCEPT ![s] = @ + 1]
    BY <1>1, <1>5 DEF Recording!Tick
  <2>2. x10' \in [Recording!Speaker -> 0..MaxFrames] /\ x10'[s] = x10[s] + 1
    BY <2>1 DEF Recording!TypeOK
  <2>3. Due(s)' = x10'[s] - (Recording!TracksEnded(s) + 1)
    BY <1>5 DEF Due
  <2>4. Due(s)' = Due(s) /\ Due(s)' =< MaxFrames
    BY <1>1, <2>2, <2>3 DEF Due
  <2>5. QED
    BY <1>1, <1>2, <1>5, <2>2, <2>4 DEF Recording!TypeOK
<1>6. QED
  BY <1>3, <1>4, <1>5 DEF Ticked

\* Where what a speaker has is what it had, so is what is said of it.
LEMMA OthersBalanced ==
  ASSUME NEW s \in Recording!Speaker, Balanced, Closed, OthersStay(s), NEW q \in Recording!Speaker, q # s
  PROVE  /\ x8'[q] + x5'[q] + x11'[q] =< Due(q)'
         /\ ~x9'[q].error => x8'[q] + x5'[q] + x11'[q] = Due(q)'
         /\ x9'[q].frames = x8'[q]
         /\ x6'[q] = "drains" => x9'[q].error
         /\ x6'[q] = "ended" =>
              x5'[q] = 0 /\ x4'[q] = "gone" /\ (x9'[q].error \/ x7'[q] # "open")
<1>1. Due(q)' = Due(q)
  BY DEF OthersStay, Due
<1>2. QED
  BY <1>1 DEF Balanced, Closed, OthersStay

LEMMA OthersTrue ==
  ASSUME Recording!CallRecordingAssumption, Recording!TypeOK,
         NEW s \in Recording!Speaker, OthersStay(s), x15' = x15, x12' = x12,
         Recording!ManifestIsTrue, x6[s] # "ended" \/ ~x15[s].is \/ x15[s].error
  PROVE  Recording!ManifestIsTrue'
<1> SUFFICES ASSUME NEW q \in Recording!Speaker, x15[q].is, ~x15[q].error
             PROVE  /\ x15[q].frames = x8'[q]
                    /\ x10'[q] = x15[q].frames + x15[q].dropped + Recording!TracksEnded(q)'
                    /\ q \in Participant => Recording!TracksEnded(q)' =< x12[q]
                    /\ x6'[q] = "ended" /\ (x15[q].file <=> x7'[q] = "final")
  BY DEF Recording!ManifestIsTrue
<1>1. q # s
  BY DEF Recording!ManifestIsTrue
<1>2. QED
  BY <1>1 DEF Recording!ManifestIsTrue, OthersStay

LEMMA TapStepInv ==
  ASSUME RecordingInv, TapStep PROVE RecordingInv'
<1>1. Recording!CallRecordingAssumption /\ Recording!TypeOK /\ Balanced /\ TracksInOrder
                                        /\ Closed /\ NoSummaryYet /\ Recording!ManifestIsTrue
  BY DEF RecordingInv
<1>2. PICK s \in Recording!Speaker : Ticked(s)
  BY <1>1, TapStepTicks
<1>3. /\ x4' \in [Recording!Speaker -> {"none", "runs", "gone"}]
      /\ x5' \in [Recording!Speaker -> 0..QueueCapacity]
      /\ x10' \in [Recording!Speaker -> 0..MaxFrames]
      /\ x11'[s] + x5'[s] - Due(s)' = x11[s] + x5[s] - Due(s)
      /\ Due(s)' \in Int /\ Due(s)' =< MaxFrames
      /\ x11'[s] \in Nat
      /\ x11' = [x11 EXCEPT ![s] = x11'[s]]
      /\ OthersStay(s)
  BY <1>1, <1>2, TickedFacts
<1>4. /\ UNCHANGED <<x1, x2, x3, x6, x7, x8, x9, x12, x14,
                     x15>>
      /\ x4[s] = "runs"
  BY <1>2 DEF Ticked, Recording!writerVars
<1>5. /\ x8[s] \in Nat /\ x5[s] \in Nat /\ x11[s] \in Nat /\ Due(s) \in Int
      /\ x5'[s] \in Nat /\ MaxFrames \in Nat
  BY <1>1, <1>3, RecordingBounds, DueType DEF Recording!TypeOK
<1>6. /\ x8[s] + x5'[s] + x11'[s] =< Due(s)'
      /\ ~x9[s].error => x8[s] + x5'[s] + x11'[s] = Due(s)'
  <2>1. /\ x8[s] + x5[s] + x11[s] =< Due(s)
        /\ ~x9[s].error => x8[s] + x5[s] + x11[s] = Due(s)
    BY <1>1 DEF Balanced
  <2>2. QED
    BY <1>3, <1>5, <2>1
<1>7. x11' \in [Recording!Speaker -> 0..MaxFrames]
  <2>1. x11'[s] \in 0..MaxFrames
    BY <1>3, <1>5, <1>6
  <2>2. QED
    BY <1>1, <1>3, <2>1 DEF Recording!TypeOK
<1>8. Recording!TypeOK'
  BY <1>1, <1>3, <1>4, <1>7, TapStepTicks DEF Recording!TypeOK, DecoderState
<1>9. Balanced'
  <2>1. ASSUME NEW q \in Recording!Speaker
        PROVE  /\ x8'[q] + x5'[q] + x11'[q] =< Due(q)'
               /\ ~x9'[q].error => x8'[q] + x5'[q] + x11'[q] = Due(q)'
               /\ x9'[q].frames = x8'[q]
    <3>1. CASE q = s
      BY <1>1, <1>4, <1>6, <3>1 DEF Balanced
    <3>2. CASE q # s
      BY <1>1, <1>3, <3>2, OthersBalanced
    <3>3. QED
      BY <3>1, <3>2
  <2>2. QED
    BY <2>1 DEF Balanced
<1>10. x6[s] # "ended"
  BY <1>1, <1>4 DEF Closed
<1>11. Closed'
  BY <1>1, <1>3, <1>4, <1>10, OthersBalanced DEF Closed
<1>12. Recording!ManifestIsTrue'
  BY <1>1, <1>3, <1>4, <1>10, OthersTrue
<1>13. TracksInOrder'
  BY <1>1, <1>4, TapStepTicks DEF TracksInOrder
<1>14. NoSummaryYet' /\ Recording!CallRecordingAssumption'
  BY <1>1, <1>4 DEF NoSummaryYet, Recording!CallRecordingAssumption
<1>15. QED
  BY <1>8, <1>9, <1>11, <1>12, <1>13, <1>14 DEF RecordingInv

LEMMA SessionStepInv ==
  ASSUME RecordingInv, SessionStep PROVE RecordingInv'
<1>1. Recording!CallRecordingAssumption /\ Recording!TypeOK /\ Balanced /\ TracksInOrder
                                        /\ Closed /\ NoSummaryYet /\ Recording!ManifestIsTrue
  BY DEF RecordingInv
<1>2. /\ Recording!TypeOK'
      /\ UNCHANGED <<x5, x7, x8, x9, x10, x11, x13, x15>>
      /\ x1' \in {"none", "live"} => x1 \in {"none", "live"}
      /\ UNCHANGED <<x4, x6>> \/ x1 = "none" \/ x1 = "live"
      /\ \A q \in Recording!Speaker : (x6'[q] = x6[q] /\ x4'[q] = x4[q]) \/ x6'[q] = "runs"
  BY <1>1, SessionStepFacts
<1>3. \A q \in Recording!Speaker :
        Due(q)' = Due(q) /\ Recording!TracksEnded(q)' = Recording!TracksEnded(q)
  BY <1>2, DueStays
<1>4. Balanced' /\ Closed'
  BY <1>1, <1>2, <1>3 DEF Balanced, Closed
<1>5. NoSummaryYet' /\ Recording!CallRecordingAssumption'
  BY <1>1, <1>2 DEF NoSummaryYet, Recording!CallRecordingAssumption
<1>6. TracksInOrder'
  BY <1>1, SessionStepTracks
<1>7. Recording!ManifestIsTrue'
  <2>1. SUFFICES ASSUME NEW q \in Recording!Speaker, x15[q].is, ~x15[q].error
                 PROVE  /\ x15[q].frames = x8[q]
                        /\ x10[q] = x15[q].frames + x15[q].dropped + Recording!TracksEnded(q)
                        /\ q \in Participant => Recording!TracksEnded(q) =< x12'[q]
                        /\ x6'[q] = "ended" /\ (x15[q].file <=> x7[q] = "final")
    BY <1>2, <1>3 DEF Recording!ManifestIsTrue
  <2>2. x1 \notin {"none", "live"}
    BY <1>1, <2>1 DEF NoSummaryYet
  <2>3. ASSUME q \in Participant PROVE Recording!TracksEnded(q) =< x12'[q]
    <3>1. x13[q] \in DecoderState /\ x12'[q] \in 0..MaxGeneration /\ MaxGeneration \in Nat
      BY <1>1, <1>2, <2>3, RecordingBounds DEF Recording!TypeOK, DecoderState
    <3>2. InOrder(x13[q], x12'[q])
      BY <1>2, <1>6, <2>3 DEF TracksInOrder
    <3>3. QED
      BY <2>3, <3>1, <3>2 DEF InOrder, DecoderState, Recording!TracksEnded
  <2>4. QED
    BY <1>1, <1>2, <2>1, <2>2, <2>3 DEF Recording!ManifestIsTrue
<1>8. QED
  BY <1>1, <1>2, <1>4, <1>5, <1>6, <1>7 DEF RecordingInv
-----------------------------------------------------------------------------
(***************************************************************************)
(* The writers.                                                            *)
(***************************************************************************)
\* One frame leaves the queue of s, and nothing else happens to its tap.
LEMMA TakeFacts ==
  ASSUME Recording!CallRecordingAssumption, Recording!TypeOK, NEW s \in Recording!Speaker,
         Recording!Take(s)
  PROVE  /\ x5' \in [Recording!Speaker -> 0..QueueCapacity]
         /\ x5[s] \in Nat /\ x5[s] > 0 /\ x5'[s] = x5[s] - 1
         /\ \A q \in Recording!Speaker : q # s => x5'[q] = x5[q]
<1>1. x5[s] \in 0..QueueCapacity /\ QueueCapacity \in Nat
  BY RecordingBounds DEF Recording!TypeOK
<1>2. x5[s] - 1 \in 0..QueueCapacity /\ x5[s] \in Nat /\ x5[s] > 0
  BY <1>1 DEF Recording!Take
<1>3. QED
  BY <1>2 DEF Recording!Take, Recording!TypeOK

LEMMA FailedFacts ==
  ASSUME Recording!TypeOK, NEW s \in Recording!Speaker, Recording!Failed(s)
  PROVE  /\ x9' \in [Recording!Speaker -> Recording!Outcome]
         /\ x9'[s].error /\ x9'[s].frames = x9[s].frames
         /\ \A q \in Recording!Speaker : q # s => x9'[q] = x9[q]
<1>1. x9[s] \in Recording!Outcome
  BY DEF Recording!TypeOK
<1>2. /\ [x9[s] EXCEPT !.error = TRUE] \in Recording!Outcome
      /\ [x9[s] EXCEPT !.error = TRUE].error
      /\ [x9[s] EXCEPT !.error = TRUE].frames = x9[s].frames
  BY <1>1 DEF Recording!Outcome
<1>3. QED
  BY <1>2 DEF Recording!Failed, Recording!TypeOK

LEMMA CountedFacts ==
  ASSUME Recording!TypeOK, NEW s \in Recording!Speaker, Recording!Counted(s),
         x9[s].frames + 1 \in 0..MaxFrames
  PROVE  /\ x9' \in [Recording!Speaker -> Recording!Outcome]
         /\ x9'[s].error = x9[s].error
         /\ x9'[s].frames = x9[s].frames + 1
         /\ \A q \in Recording!Speaker : q # s => x9'[q] = x9[q]
<1> DEFINE o == [x9[s] EXCEPT !.frames = @ + 1]
<1>1. x9[s] \in Recording!Outcome
  BY DEF Recording!TypeOK
<1>2. /\ o \in Recording!Outcome /\ o.error = x9[s].error
      /\ o.frames = x9[s].frames + 1
  BY <1>1 DEF Recording!Outcome
<1>3. x9' = [x9 EXCEPT ![s] = o]
  BY DEF Recording!Counted
<1> HIDE DEF o
<1>4. QED
  BY <1>2, <1>3 DEF Recording!TypeOK

\* What a step of the writer of s has to show.
WriterKeeps(s) ==
  /\ x5' \in [Recording!Speaker -> 0..QueueCapacity]
  /\ x8' \in [Recording!Speaker -> 0..MaxFrames]
  /\ x9' \in [Recording!Speaker -> Recording!Outcome]
  /\ x7' \in [Recording!Speaker -> {"none", "open", "final"}]
  /\ x6' \in [Recording!Speaker -> {"none", "runs", "drains", "ended"}]
  /\ OthersStay(s) /\ x6[s] # "ended"
  /\ x8'[s] + x5'[s] + x11[s] =< Due(s)
  /\ ~x9'[s].error => x8'[s] + x5'[s] + x11[s] = Due(s)
  /\ x9'[s].frames = x8'[s]
  /\ x6'[s] = "drains" => x9'[s].error
  /\ x6'[s] = "ended" =>
       x5'[s] = 0 /\ x4[s] = "gone" /\ (x9'[s].error \/ x7'[s] # "open")

LEMMA WriteFrameKeeps ==
  ASSUME RecordingInv, NEW s \in Recording!Speaker, Recording!WriteFrame(s) PROVE WriterKeeps(s)
<1>1. Recording!CallRecordingAssumption /\ Recording!TypeOK /\ Balanced /\ Closed
  BY DEF RecordingInv
<1>2. x6[s] = "runs" /\ Recording!Take(s) /\ UNCHANGED Recording!tapVars
  BY DEF Recording!WriteFrame
<1>3. /\ x5' \in [Recording!Speaker -> 0..QueueCapacity]
      /\ x5[s] \in Nat /\ x5[s] > 0 /\ x5'[s] = x5[s] - 1
      /\ \A q \in Recording!Speaker : q # s => x5'[q] = x5[q]
  BY <1>1, <1>2, TakeFacts
<1>4. /\ x8[s] \in Nat /\ x11[s] \in Nat /\ MaxFrames \in Nat
      /\ Due(s) \in Int /\ Due(s) =< MaxFrames
      /\ \A q \in Recording!Speaker : Recording!TracksEnded(q)' = Recording!TracksEnded(q)
  BY <1>1, <1>2, RecordingBounds, DueType, DueStays DEF Recording!TypeOK, Recording!tapVars
<1>5. /\ x8[s] + x5[s] + x11[s] =< Due(s)
      /\ ~x9[s].error => x8[s] + x5[s] + x11[s] = Due(s)
      /\ x9[s].frames = x8[s]
  BY <1>1 DEF Balanced
<1>6. CASE /\ x8' = [x8 EXCEPT ![s] = @ + 1]
           /\ x7' = [x7 EXCEPT ![s] = "open"]
           /\ Recording!Counted(s) /\ UNCHANGED x6
  <2>1. x8[s] + 1 \in 0..MaxFrames
    BY <1>3, <1>4, <1>5
  <2>2. /\ x9' \in [Recording!Speaker -> Recording!Outcome]
        /\ x9'[s].error = x9[s].error
        /\ x9'[s].frames = x9[s].frames + 1
        /\ \A q \in Recording!Speaker : q # s => x9'[q] = x9[q]
    BY <1>1, <1>5, <1>6, <2>1, CountedFacts
  <2>3. /\ x8' \in [Recording!Speaker -> 0..MaxFrames] /\ x8'[s] = x8[s] + 1
        /\ \A q \in Recording!Speaker : q # s => x8'[q] = x8[q]
    BY <1>1, <1>6, <2>1 DEF Recording!TypeOK
  <2>4. /\ x7' \in [Recording!Speaker -> {"none", "open", "final"}]
        /\ \A q \in Recording!Speaker : q # s => x7'[q] = x7[q]
        /\ x6' \in [Recording!Speaker -> {"none", "runs", "drains", "ended"}]
    BY <1>1, <1>6 DEF Recording!TypeOK
  <2>5. /\ x8'[s] + x5'[s] + x11[s] = x8[s] + x5[s] + x11[s]
    BY <1>3, <1>4, <2>3
  <2>6. OthersStay(s)
    BY <1>2, <1>3, <1>4, <1>6, <2>2, <2>3, <2>4 DEF OthersStay, Recording!tapVars
  <2>7. QED
    BY <1>2, <1>3, <1>5, <1>6, <2>2, <2>3, <2>4, <2>5, <2>6 DEF WriterKeeps
<1>7. CASE /\ Recording!Failed(s) /\ x6' = [x6 EXCEPT ![s] = "drains"]
           /\ UNCHANGED <<x8, x7>>
  <2>1. /\ x9' \in [Recording!Speaker -> Recording!Outcome]
        /\ x9'[s].error /\ x9'[s].frames = x9[s].frames
        /\ \A q \in Recording!Speaker : q # s => x9'[q] = x9[q]
    BY <1>1, <1>7, FailedFacts
  <2>2. /\ x6' \in [Recording!Speaker -> {"none", "runs", "drains", "ended"}]
        /\ x6'[s] = "drains" /\ \A q \in Recording!Speaker : q # s => x6'[q] = x6[q]
    BY <1>1, <1>7 DEF Recording!TypeOK
  <2>3. x8'[s] + x5'[s] + x11[s] =< Due(s)
    BY <1>3, <1>4, <1>5, <1>7
  <2>4. OthersStay(s)
    BY <1>2, <1>3, <1>4, <1>7, <2>1, <2>2 DEF OthersStay, Recording!tapVars
  <2>5. QED
    BY <1>1, <1>2, <1>3, <1>5, <1>7, <2>1, <2>2, <2>3, <2>4 DEF WriterKeeps, Recording!TypeOK
<1>8. QED
  BY <1>6, <1>7 DEF Recording!WriteFrame

LEMMA DrainKeeps ==
  ASSUME RecordingInv, NEW s \in Recording!Speaker, Recording!Drain(s) PROVE WriterKeeps(s)
<1>1. Recording!CallRecordingAssumption /\ Recording!TypeOK /\ Balanced /\ Closed
  BY DEF RecordingInv
<1>2. x6[s] = "drains" /\ Recording!Take(s)
                       /\ UNCHANGED <<Recording!tapVars, Recording!writerVars>>
  BY DEF Recording!Drain
<1>3. /\ x5' \in [Recording!Speaker -> 0..QueueCapacity]
      /\ x5[s] \in Nat /\ x5[s] > 0 /\ x5'[s] = x5[s] - 1
      /\ \A q \in Recording!Speaker : q # s => x5'[q] = x5[q]
  BY <1>1, <1>2, TakeFacts
<1>4. /\ x8[s] \in Nat /\ x11[s] \in Nat /\ Due(s) \in Int
      /\ \A q \in Recording!Speaker : Recording!TracksEnded(q)' = Recording!TracksEnded(q)
  BY <1>1, <1>2, RecordingBounds, DueType, DueStays DEF Recording!TypeOK, Recording!tapVars
<1>5. x9[s].error /\ x9[s].frames = x8[s]
      /\ x8[s] + x5[s] + x11[s] =< Due(s)
  BY <1>1, <1>2 DEF Balanced, Closed
<1>6. OthersStay(s)
  BY <1>2, <1>3, <1>4 DEF OthersStay, Recording!tapVars, Recording!writerVars
<1>7. x8[s] + x5'[s] + x11[s] =< Due(s)
  BY <1>3, <1>4, <1>5
<1>8. QED
  BY <1>1, <1>2, <1>3, <1>5, <1>6, <1>7 DEF WriterKeeps, Recording!TypeOK, Recording!writerVars

LEMMA WriterEndsKeeps ==
  ASSUME RecordingInv, NEW s \in Recording!Speaker, Recording!WriterEnds(s) PROVE WriterKeeps(s)
<1>1. Recording!CallRecordingAssumption /\ Recording!TypeOK /\ Balanced /\ Closed
  BY DEF RecordingInv
<1>2. /\ x6[s] # "ended" /\ x5[s] = 0 /\ x4[s] = "gone"
      /\ x6' = [x6 EXCEPT ![s] = "ended"]
      /\ UNCHANGED <<x4, x10, x11, x5, x8>>
      /\ \A q \in Recording!Speaker : Recording!TracksEnded(q)' = Recording!TracksEnded(q)
  BY DueStays DEF Recording!WriterEnds, Recording!tapVars
<1>3. /\ x6' \in [Recording!Speaker -> {"none", "runs", "drains", "ended"}]
      /\ x6'[s] = "ended" /\ \A q \in Recording!Speaker : q # s => x6'[q] = x6[q]
  BY <1>1, <1>2 DEF Recording!TypeOK
<1>4. CASE /\ x7' = [x7 EXCEPT ![s] = IF @ = "open" THEN "final" ELSE @]
           /\ UNCHANGED x9
  <2>1. /\ x7' \in [Recording!Speaker -> {"none", "open", "final"}] /\ x7'[s] # "open"
        /\ \A q \in Recording!Speaker : q # s => x7'[q] = x7[q]
    BY <1>1, <1>4 DEF Recording!TypeOK
  <2>2. OthersStay(s)
    BY <1>2, <1>3, <1>4, <2>1 DEF OthersStay
  <2>3. QED
    BY <1>1, <1>2, <1>3, <1>4, <2>1, <2>2 DEF WriterKeeps, Recording!TypeOK, Balanced
<1>5. CASE Recording!Failed(s) /\ UNCHANGED x7
  <2>1. /\ x9' \in [Recording!Speaker -> Recording!Outcome]
        /\ x9'[s].error /\ x9'[s].frames = x9[s].frames
        /\ \A q \in Recording!Speaker : q # s => x9'[q] = x9[q]
    BY <1>1, <1>5, FailedFacts
  <2>2. OthersStay(s)
    BY <1>2, <1>3, <1>5, <2>1 DEF OthersStay
  <2>3. QED
    BY <1>1, <1>2, <1>3, <1>5, <2>1, <2>2 DEF WriterKeeps, Recording!TypeOK, Balanced
<1>6. QED
  BY <1>4, <1>5 DEF Recording!WriterEnds, Recording!Finalized

LEMMA WriterStepInv ==
  ASSUME RecordingInv, NEW s \in Recording!Speaker, WriterStep(s) PROVE RecordingInv'
<1>1. Recording!CallRecordingAssumption /\ Recording!TypeOK /\ Balanced /\ TracksInOrder
                                        /\ Closed /\ NoSummaryYet
                                        /\ Recording!ManifestIsTrue
  BY DEF RecordingInv
<1>2. WriterKeeps(s)
  BY WriteFrameKeeps, DrainKeeps, WriterEndsKeeps DEF WriterStep
<1>3. /\ UNCHANGED <<x1, x2, Recording!tapVars, x14, x15, x16>>
      /\ Due(s)' = Due(s)
  BY DueStays DEF WriterStep, Recording!WriteFrame, Recording!Drain, Recording!WriterEnds,
     Recording!tapVars
<1>4. Recording!TypeOK'
  BY <1>1, <1>2, <1>3 DEF Recording!TypeOK, WriterKeeps, Recording!tapVars
<1>5. Balanced' /\ Closed'
  <2>1. ASSUME NEW q \in Recording!Speaker
        PROVE  /\ x8'[q] + x5'[q] + x11'[q] =< Due(q)'
               /\ ~x9'[q].error => x8'[q] + x5'[q] + x11'[q] = Due(q)'
               /\ x9'[q].frames = x8'[q]
               /\ x6'[q] = "drains" => x9'[q].error
               /\ x6'[q] = "ended" =>
                    /\ x5'[q] = 0 /\ x4'[q] = "gone"
                    /\ x9'[q].error \/ x7'[q] # "open"
    <3>1. CASE q = s
      BY <1>2, <1>3, <3>1 DEF WriterKeeps, Recording!tapVars
    <3>2. CASE q # s
      BY <1>1, <1>2, <3>2, OthersBalanced DEF WriterKeeps
    <3>3. QED
      BY <3>1, <3>2
  <2>2. QED
    BY <2>1 DEF Balanced, Closed
<1>6. Recording!ManifestIsTrue'
  BY <1>1, <1>2, <1>3, OthersTrue DEF WriterKeeps, Recording!tapVars
<1>7. NoSummaryYet' /\ TracksInOrder' /\ Recording!CallRecordingAssumption'
  BY <1>1, <1>3 DEF NoSummaryYet, TracksInOrder, Recording!CallRecordingAssumption,
     Recording!tapVars
<1>8. QED
  BY <1>4, <1>5, <1>6, <1>7 DEF RecordingInv
-----------------------------------------------------------------------------
(***************************************************************************)
(* The manifest.                                                           *)
(***************************************************************************)
LEMMA WaitForWriterInv ==
  ASSUME RecordingInv, NEW s \in Recording!Speaker, Recording!WaitForWriter(s) PROVE RecordingInv'
<1>1. Recording!CallRecordingAssumption /\ Recording!TypeOK /\ Balanced /\ TracksInOrder
                                        /\ Closed /\ NoSummaryYet
                                        /\ Recording!ManifestIsTrue
  BY DEF RecordingInv
<1>2. /\ UNCHANGED <<x1, Recording!tapVars, x5, Recording!writerVars, x14, x16>>
      /\ x2' = x2 \ {s} /\ x1 = "stopping"
  BY DEF Recording!WaitForWriter
<1>3. PICK r \in Recording!Report :
        /\ x15' = [x15 EXCEPT ![s] = r]
        /\ \/ r.error
           \/ /\ x6[s] = "ended" /\ ~x9[s].error
              /\ r.frames = x9[s].frames /\ r.dropped = x11[s]
              /\ r.file = (x7[s] # "none")
  <2>1. CASE /\ x6[s] = "ended"
             /\ Recording!WriteManifest(s, Recording!ReportOf(s, x9[s], x7[s] # "none"))
    <3> DEFINE r == Recording!ReportOf(s, x9[s], x7[s] # "none")
    <3>1. x9[s] \in Recording!Outcome /\ x11[s] \in 0..MaxFrames
      BY <1>1 DEF Recording!TypeOK
    <3>2. r \in Recording!Report
      BY <3>1 DEF Recording!ReportOf, Recording!Report, Recording!Outcome
    <3>3. /\ r.frames = x9[s].frames /\ r.dropped = x11[s]
          /\ r.file = (x7[s] # "none") /\ r.error = x9[s].error
      BY DEF Recording!ReportOf
    <3>4. QED
      BY <2>1, <3>2, <3>3 DEF Recording!WriteManifest
  <2>2. CASE Recording!WriteManifest(s, Recording!ReportOf(s, Recording!TimedOut, FALSE))
    <3> DEFINE r == Recording!ReportOf(s, Recording!TimedOut, FALSE)
    <3>1. x11[s] \in 0..MaxFrames /\ 0 \in 0..MaxFrames
      BY <1>1, RecordingBounds DEF Recording!TypeOK
    <3>2. r \in Recording!Report /\ r.error
      BY <3>1 DEF Recording!ReportOf, Recording!Report, Recording!TimedOut
    <3>3. QED
      BY <2>2, <3>2 DEF Recording!WriteManifest
  <2>3. QED
    BY <2>1, <2>2 DEF Recording!WaitForWriter
<1>4. Recording!TypeOK'
  BY <1>1, <1>2, <1>3 DEF Recording!TypeOK, Recording!tapVars, Recording!writerVars
<1>5. /\ Balanced' /\ TracksInOrder' /\ Closed' /\ NoSummaryYet'
      /\ Recording!CallRecordingAssumption'
  <2>1. \A q \in Recording!Speaker :
          Due(q)' = Due(q) /\ Recording!TracksEnded(q)' = Recording!TracksEnded(q)
    BY <1>2, DueStays DEF Recording!tapVars
  <2>2. Balanced' /\ Closed'
    BY <1>1, <1>2, <2>1 DEF Balanced, Closed, Recording!tapVars, Recording!writerVars
  <2>3. TracksInOrder'
    BY <1>1, <1>2 DEF TracksInOrder, Recording!tapVars
  <2>4. QED
    BY <1>1, <1>2, <2>2, <2>3 DEF NoSummaryYet, Recording!CallRecordingAssumption
<1>6. Recording!ManifestIsTrue'
  <2>1. SUFFICES ASSUME NEW q \in Recording!Speaker, x15'[q].is, ~x15'[q].error
                 PROVE  /\ x15'[q].frames = x8[q]
                        /\ x10[q] = x15'[q].frames + x15'[q].dropped
                                      + Recording!TracksEnded(q)
                        /\ q \in Participant => Recording!TracksEnded(q) =< x12[q]
                        /\ x6[q] = "ended"
                        /\ x15'[q].file <=> x7[q] = "final"
    BY <1>2, DueStays DEF Recording!ManifestIsTrue, Recording!tapVars, Recording!writerVars
  <2>2. CASE q # s
    <3>1. x15'[q] = x15[q]
      BY <1>1, <1>3, <2>2 DEF Recording!TypeOK
    <3>2. QED
      BY <1>1, <2>1, <3>1 DEF Recording!ManifestIsTrue
  <2>3. CASE q = s
    <3>1. x15'[s] = r
      BY <1>1, <1>3 DEF Recording!TypeOK
    <3>2. /\ x6[s] = "ended" /\ ~x9[s].error
          /\ r.frames = x9[s].frames /\ r.dropped = x11[s]
          /\ r.file = (x7[s] # "none")
      BY <1>3, <2>1, <2>3, <3>1
    <3>3. /\ x8[s] + x5[s] + x11[s] = Due(s) /\ x5[s] = 0
          /\ x9[s].frames = x8[s] /\ x7[s] # "open"
      BY <1>1, <3>2 DEF Balanced, Closed
    <3>4. /\ x8[s] \in Nat /\ x11[s] \in Nat /\ x10[s] \in Nat
          /\ x7[s] \in {"none", "open", "final"} /\ Recording!TracksEnded(s) \in Nat
      BY <1>1, RecordingBounds, DueType DEF Recording!TypeOK
    <3>5. x10[s] = x8[s] + x11[s] + Recording!TracksEnded(s)
      BY <3>3, <3>4 DEF Due
    <3>6. ASSUME s \in Participant PROVE Recording!TracksEnded(s) =< x12[s]
      <4>1. x13[s] \in DecoderState /\ x12[s] \in 0..MaxGeneration /\ MaxGeneration \in Nat
        BY <1>1, <3>6, RecordingBounds DEF Recording!TypeOK, DecoderState
      <4>2. InOrder(x13[s], x12[s])
        BY <1>1, <3>6 DEF TracksInOrder
      <4>3. QED
        BY <3>6, <4>1, <4>2 DEF InOrder, DecoderState, Recording!TracksEnded
    <3>7. QED
      BY <2>3, <3>1, <3>2, <3>3, <3>4, <3>5, <3>6
  <2>4. QED
    BY <2>2, <2>3
<1>7. QED
  BY <1>4, <1>5, <1>6 DEF RecordingInv

LEMMA RecordingInvStep == RecordingInv /\ [Recording!Next]_(Recording!recordingVars) => RecordingInv'
<1> SUFFICES ASSUME RecordingInv, [Recording!Next]_(Recording!recordingVars) PROVE RecordingInv'
  OBVIOUS
<1>1. CASE UNCHANGED Recording!recordingVars
  BY <1>1 DEF Recording!recordingVars, RecordingInv, Recording!CallRecordingAssumption,
     Recording!TypeOK, Balanced, Due, Recording!TracksEnded, TracksInOrder, Closed,
     NoSummaryYet, Recording!ManifestIsTrue
<1>2. CASE Recording!Next
  BY <1>2, SessionStepInv, TapStepInv, WriterStepInv, WaitForWriterInv
     DEF Recording!Next, SessionStep, TapStep, WriterStep
<1>3. QED
  BY <1>1, <1>2

LEMMA RecordingPromises == RecordingInv => Recording!TypeOK /\ Recording!ManifestIsTrue
BY DEF RecordingInv

LEMMA RecordingPart ==
  /\ Recording!Init => RecordingInv
  /\ RecordingInv /\ [Recording!Next]_(Recording!recordingVars) => RecordingInv'
BY ServiceAssumptions, RecordingInitInv, RecordingInvStep

-----------------------------------------------------------------------------
\* CallAudio.
LEMMA SameCardinality == \A S : Audio!Cardinality(S) = Cardinality(S)
BY DEF Audio!Cardinality, Cardinality

LEMMA Appended ==
  ASSUME NEW c \in Seq(Audio!Command), NEW d \in Seq(Audio!Command)
  PROVE  /\ IsFiniteSet(Opening(c)) /\ Cardinality(Opening(c)) \in Nat
         /\ c \o d \in Seq(Audio!Command) /\ Len(c \o d) = Len(c) + Len(d)
         /\ (\A i \in DOMAIN d : d[i].op # "SetAudioConfig") => Opening(c \o d) = Opening(c)
         /\ Len(d) = 1 => Cardinality(Opening(c \o d)) <= Cardinality(Opening(c)) + 1
<1>1. DOMAIN c = 1..Len(c) /\ Len(c) \in Nat /\ DOMAIN d = 1..Len(d) /\ Len(d) \in Nat
  OBVIOUS
<1>2. c \o d \in Seq(Audio!Command) /\ Len(c \o d) = Len(c) + Len(d)
  OBVIOUS
<1>3. \A i \in DOMAIN (c \o d) :
        \/ i \in DOMAIN c /\ (c \o d)[i] = c[i]
        \/ i - Len(c) \in DOMAIN d /\ (c \o d)[i] = d[i - Len(c)]
  OBVIOUS
<1>4. DOMAIN c \subseteq DOMAIN (c \o d) /\ \A i \in DOMAIN c : (c \o d)[i] = c[i]
  OBVIOUS
<1>5. IsFiniteSet(Opening(c)) /\ Cardinality(Opening(c)) \in Nat
  <2>1. IsFiniteSet(1..Len(c))
    BY <1>1, FS_Interval
  <2>2. Opening(c) \in SUBSET (1..Len(c))
    BY <1>1 DEF Opening
  <2> QED
    BY <2>1, <2>2, FS_Subset, FS_CardinalityType
<1>6. ASSUME \A i \in DOMAIN d : d[i].op # "SetAudioConfig"
      PROVE  Opening(c \o d) = Opening(c)
  BY <1>3, <1>4, <1>6 DEF Opening
<1>7. ASSUME Len(d) = 1 PROVE Cardinality(Opening(c \o d)) <= Cardinality(Opening(c)) + 1
  <2>1. Opening(c \o d) \in SUBSET (Opening(c) \cup {Len(c) + 1})
    BY <1>1, <1>3, <1>7 DEF Opening
  <2>2. /\ IsFiniteSet(Opening(c) \cup {Len(c) + 1})
        /\ Cardinality(Opening(c) \cup {Len(c) + 1}) <= Cardinality(Opening(c)) + 1
    <3>1. /\ IsFiniteSet(Opening(c) \cup {Len(c) + 1})
          /\ Cardinality(Opening(c) \cup {Len(c) + 1}) =
               IF Len(c) + 1 \in Opening(c) THEN Cardinality(Opening(c))
               ELSE Cardinality(Opening(c)) + 1
      BY <1>5, FS_AddElement
    <3> QED
      BY <1>5, <3>1
  <2>3. /\ IsFiniteSet(Opening(c \o d))
        /\ Cardinality(Opening(c \o d)) <= Cardinality(Opening(c) \cup {Len(c) + 1})
    BY <2>1, <2>2, FS_Subset
  <2> QED
    BY <1>5, <2>2, <2>3, FS_CardinalityType
<1> QED
  BY <1>2, <1>5, <1>6, <1>7

LEMMA Taken ==
  ASSUME NEW c \in Seq(Audio!Command), c # <<>>
  PROVE  /\ Tail(c) \in Seq(Audio!Command) /\ Len(Tail(c)) = Len(c) - 1
         /\ Head(c) \in Audio!Command
         /\ Cardinality(Opening(Tail(c))) \in Nat
         /\ Cardinality(Opening(Tail(c))) <= Cardinality(Opening(c))
         /\ Head(c).op = "SetAudioConfig" =>
              Cardinality(Opening(Tail(c))) + 1 <= Cardinality(Opening(c))
<1>1. /\ Tail(c) \in Seq(Audio!Command) /\ Len(Tail(c)) = Len(c) - 1 /\ Len(c) \in Nat \ {0}
      /\ Head(c) = c[1] /\ Head(c) \in Audio!Command
      /\ DOMAIN c = 1..Len(c) /\ DOMAIN Tail(c) = 1..(Len(c) - 1)
      /\ \A i \in 1..(Len(c) - 1) : Tail(c)[i] = c[i + 1]
  OBVIOUS
<1> DEFINE rest == Opening(c) \ {1}
           moved == [i \in rest |-> i - 1]
<1>2. IsFiniteSet(Opening(c)) /\ Cardinality(Opening(c)) \in Nat
  BY Appended
<1>3. moved \in Surjection(rest, Opening(Tail(c)))
  <2>1. \A i \in rest : i - 1 \in Opening(Tail(c))
    BY <1>1 DEF Opening
  <2>2. \A j \in Opening(Tail(c)) : j + 1 \in rest /\ (j + 1) - 1 = j
    BY <1>1 DEF Opening
  <2>3. moved \in [rest -> Opening(Tail(c))]
    BY <2>1
  <2>4. \A j \in Opening(Tail(c)) : \E i \in rest : moved[i] = j
    BY <2>2
  <2> QED
    BY <2>3, <2>4 DEF Surjection
<1>4. /\ IsFiniteSet(rest)
      /\ Cardinality(rest) = IF 1 \in Opening(c) THEN Cardinality(Opening(c)) - 1
                             ELSE Cardinality(Opening(c))
  BY <1>2, FS_RemoveElement
<1>5. /\ IsFiniteSet(Opening(Tail(c)))
      /\ Cardinality(Opening(Tail(c))) <= Cardinality(rest)
  BY <1>3, <1>4, FS_Surjection
<1>6. Cardinality(Opening(Tail(c))) \in Nat /\ Cardinality(rest) \in Nat
  BY <1>4, <1>5, FS_CardinalityType
<1>7. Head(c).op = "SetAudioConfig" => 1 \in Opening(c)
  BY <1>1 DEF Opening
<1> HIDE DEF rest, moved
<1> QED
  BY <1>1, <1>2, <1>4, <1>5, <1>6, <1>7

LEMMA AudioInit == Audio!Init => AudioInv
<1> SUFFICES ASSUME Audio!Init PROVE AudioInv
  OBVIOUS
<1>1. MaxContexts \in Nat \ {0} /\ MaxCommands \in Nat \ {0} /\ MaxToggles \in Nat
  BY ServiceAssumptions DEF Audio!CallAudioAssumption
<1> DEFINE open == [op |-> "SetAudioConfig"]
<1>2. open \in Audio!Command
  BY DEF Audio!Command
<1>3. x3 = <<>> \o <<open>> /\ x4 = 0
  BY DEF Audio!Init
<1>4. <<>> \in Seq(Audio!Command) /\ <<open>> \in Seq(Audio!Command) /\ Len(<<open>>) = 1
      /\ Len(<<>>) = 0
  BY <1>2
<1>5. Opening(<<>>) = {}
  BY DEF Opening
<1> HIDE DEF open
<1>6. /\ Len(x3) = 1 /\ x3 \in Seq(Audio!Command)
      /\ Cardinality(Opening(x3)) \in Nat /\ Cardinality(Opening(x3)) <= 1
  <2>1. Cardinality(Opening(<<>>)) = 0
    BY <1>5, FS_EmptySet
  <2>2. Cardinality(Opening(<<>> \o <<open>>)) <= Cardinality(Opening(<<>>)) + 1
    BY <1>4, Appended
  <2>3. Len(<<>> \o <<open>>) = 1 /\ <<>> \o <<open>> \in Seq(Audio!Command)
    BY <1>4, Appended
  <2>4. Cardinality(Opening(<<>> \o <<open>>)) \in Nat
    BY <2>3, Appended
  <2> QED
    BY <1>3, <2>1, <2>2, <2>3, <2>4
<1>7. Audio!TypeOK
  BY <1>1, <1>3, <1>6 DEF Audio!Init, Audio!TypeOK, Audio!Flags, Audio!Context
<1> QED
  BY <1>1, <1>3, <1>6, <1>7 DEF AudioInv

\* What the buttons send.
LEMMA Sends ==
  ASSUME AudioInv, NEW more \in Seq(Audio!Command), Audio!Sent(more), x4' = x4,
         \/ \A i \in DOMAIN more : more[i].op # "SetAudioConfig"
         \/ Len(more) = 1 /\ x4 + Cardinality(Opening(x3)) < MaxContexts
  PROVE  /\ x3' \in Seq(Audio!Command) /\ Len(x3') <= MaxCommands
         /\ x4' + Cardinality(Opening(x3')) <= MaxContexts
<1>1. x3 \in Seq(Audio!Command) /\ x4 \in Nat /\ x4 \in 0..MaxContexts /\ MaxContexts \in Nat
  BY ServiceAssumptions DEF AudioInv, Audio!TypeOK, Audio!CallAudioAssumption
<1>2. x3' = x3 \o more /\ Len(x3) + Len(more) <= MaxCommands
  BY DEF Audio!Sent
<1>3. /\ x3' \in Seq(Audio!Command) /\ Len(x3') = Len(x3) + Len(more)
      /\ Cardinality(Opening(x3)) \in Nat
  BY <1>1, <1>2, Appended
<1>4. Cardinality(Opening(x3')) \in Nat
  BY <1>3, Appended
<1>5. ASSUME \A i \in DOMAIN more : more[i].op # "SetAudioConfig"
      PROVE  x4' + Cardinality(Opening(x3')) <= MaxContexts
  <2>1. Opening(x3') = Opening(x3)
    BY <1>1, <1>2, <1>5, Appended
  <2>2. x4 + Cardinality(Opening(x3)) <= MaxContexts
    BY DEF AudioInv
  <2> QED
    BY <2>1, <2>2
<1>6. ASSUME Len(more) = 1, x4 + Cardinality(Opening(x3)) < MaxContexts
      PROVE  x4' + Cardinality(Opening(x3')) <= MaxContexts
  <2>1. Cardinality(Opening(x3')) <= Cardinality(Opening(x3)) + 1
    BY <1>1, <1>2, <1>6, Appended
  <2> QED
    BY <1>1, <1>3, <1>4, <1>6, <2>1
<1>7. x4' + Cardinality(Opening(x3')) <= MaxContexts
  BY <1>5, <1>6
<1> QED
  BY <1>2, <1>3, <1>7

\* What the worker takes.
LEMMA Takes ==
  ASSUME AudioInv, NEW op, Audio!Receives(op)
  PROVE  /\ x3' \in Seq(Audio!Command) /\ Len(x3') <= MaxCommands
         /\ Head(x3) \in Audio!Command /\ Head(x3).op = op
         /\ x4 + Cardinality(Opening(x3')) <= MaxContexts
         /\ op = "SetAudioConfig" => x4 < MaxContexts
                                     /\ x4 + 1 + Cardinality(Opening(x3')) <= MaxContexts
<1>1. /\ x3 \in Seq(Audio!Command) /\ Len(x3) <= MaxCommands
      /\ x4 \in Nat /\ MaxContexts \in Nat /\ MaxCommands \in Nat
  BY ServiceAssumptions DEF AudioInv, Audio!TypeOK, Audio!CallAudioAssumption
<1>2. x3 # <<>> /\ x3' = Tail(x3) /\ Head(x3).op = op
  BY DEF Audio!Receives
<1>3. /\ x3' \in Seq(Audio!Command) /\ Len(x3') = Len(x3) - 1 /\ Len(x3) \in Nat
      /\ Head(x3) \in Audio!Command
      /\ Cardinality(Opening(x3')) \in Nat
      /\ Cardinality(Opening(x3')) <= Cardinality(Opening(x3))
      /\ op = "SetAudioConfig" =>
           Cardinality(Opening(x3')) + 1 <= Cardinality(Opening(x3))
  BY <1>1, <1>2, Taken
<1>4. Cardinality(Opening(x3)) \in Nat /\ x4 + Cardinality(Opening(x3)) <= MaxContexts
  BY <1>1, Appended DEF AudioInv
<1> QED
  BY <1>1, <1>2, <1>3, <1>4

LEMMA AudioStep == AudioInv /\ [Audio!Next]_(Audio!audioVars) => AudioInv'
<1> SUFFICES ASSUME AudioInv, [Audio!Next]_(Audio!audioVars) PROVE AudioInv'
  OBVIOUS
<1>0. /\ Audio!TypeOK /\ MaxContexts \in Nat /\ MaxCommands \in Nat /\ MaxToggles \in Nat
      /\ x4 \in Nat /\ x10 \in Nat
  BY ServiceAssumptions DEF AudioInv, Audio!TypeOK, Audio!CallAudioAssumption
<1> DEFINE QueueOK == /\ x3' \in Seq(Audio!Command) /\ Len(x3') <= MaxCommands
                      /\ x4' + Cardinality(Opening(x3')) <= MaxContexts
<1>1. CASE Audio!ToggleMuted
  <2> DEFINE more == <<[op |-> "SetMuted", value |-> ~x1.muted]>>
  <2>1. more \in Seq(Audio!Command) /\ \A i \in DOMAIN more : more[i].op # "SetAudioConfig"
    BY <1>0 DEF Audio!Command, Audio!TypeOK, Audio!Flags
  <2>2. Audio!Sent(more) /\ x4' = x4
    BY <1>1 DEF Audio!ToggleMuted
  <2> HIDE DEF more
  <2>3. QueueOK
    BY <2>1, <2>2, Sends
  <2>4. x10' \in 0..MaxToggles
    BY <1>0, <1>1 DEF Audio!ToggleMuted, Audio!Toggled, Audio!TypeOK
  <2>5. x1' \in Audio!Flags
    <3>1. x1 \in Audio!Flags /\ x1' = [x1 EXCEPT !.muted = ~@]
      BY <1>0, <1>1 DEF Audio!ToggleMuted, Audio!TypeOK
    <3> QED
      BY <3>1, Zenon DEF Audio!Flags
  <2> QED
    BY <1>1, <1>0, <2>3, <2>4, <2>5 DEF Audio!ToggleMuted, AudioInv, Audio!TypeOK
<1>2. CASE Audio!ToggleDeafened
  <2> DEFINE value == ~x1.deafened
             muting == [op |-> "SetMuted", value |-> value]
             deafening == [op |-> "SetDeafened", value |-> value]
             more == IF value THEN <<muting, deafening>> ELSE <<deafening, muting>>
  <2>1. more \in Seq(Audio!Command) /\ \A i \in DOMAIN more : more[i].op # "SetAudioConfig"
    <3>1. value \in BOOLEAN
      OBVIOUS
    <3>2. /\ muting \in Audio!Command /\ deafening \in Audio!Command
          /\ muting.op = "SetMuted" /\ deafening.op = "SetDeafened"
      BY <3>1 DEF Audio!Command
    <3> HIDE DEF muting, deafening, value
    <3> QED
      BY <3>1, <3>2
  <2>2. Audio!Sent(more) /\ x4' = x4
    BY <1>2 DEF Audio!ToggleDeafened
  <2> HIDE DEF more
  <2>3. QueueOK
    BY <2>1, <2>2, Sends
  <2>4. x1' \in Audio!Flags
    <3>1. x1' = [muted |-> ~x1.deafened, deafened |-> ~x1.deafened]
      BY <1>2 DEF Audio!ToggleDeafened, Audio!NextDeafen
    <3>2. (~x1.deafened) \in BOOLEAN
      OBVIOUS
    <3> QED
      BY <3>1, <3>2 DEF Audio!Flags
  <2>5. x10' \in 0..MaxToggles
    BY <1>0, <1>2 DEF Audio!ToggleDeafened, Audio!Toggled, Audio!TypeOK
  <2> QED
    BY <1>2, <1>0, <2>3, <2>4, <2>5 DEF Audio!ToggleDeafened, AudioInv, Audio!TypeOK
<1>3. CASE Audio!SaveSettings
  <2> DEFINE more == <<[op |-> "SetAudioConfig"]>>
  <2>1. more \in Seq(Audio!Command) /\ Len(more) = 1
    BY DEF Audio!Command
  <2>2. Audio!Sent(more) /\ x4' = x4 /\ x4 + Cardinality(Opening(x3)) < MaxContexts
    BY <1>3, SameCardinality DEF Audio!SaveSettings, Opening
  <2> HIDE DEF more
  <2>3. QueueOK
    BY <2>1, <2>2, Sends
  <2> QED
    BY <1>3, <1>0, <2>3 DEF Audio!SaveSettings, AudioInv, Audio!TypeOK
<1>4. CASE Audio!SetMuted
  <2>1. Audio!Receives("SetMuted")
    BY <1>4 DEF Audio!SetMuted
  <2>2. QueueOK /\ Head(x3) \in Audio!Command /\ Head(x3).op = "SetMuted"
    BY <1>4, <2>1, Takes DEF Audio!SetMuted
  <2>3. Head(x3).value \in BOOLEAN
    BY <2>2 DEF Audio!Command
  <2>4. x2' \in Audio!Flags /\ x5' \in [Audio!Context -> Audio!Flags]
    BY <1>4, <1>0, <2>3 DEF Audio!SetMuted, Audio!TypeOK, Audio!Flags, Audio!Context
  <2> QED
    BY <1>4, <1>0, <2>2, <2>4 DEF Audio!SetMuted, AudioInv, Audio!TypeOK
<1>5. CASE Audio!SetDeafened
  <2>1. Audio!Receives("SetDeafened")
    BY <1>5 DEF Audio!SetDeafened
  <2>2. QueueOK /\ Head(x3) \in Audio!Command /\ Head(x3).op = "SetDeafened"
    BY <1>5, <2>1, Takes DEF Audio!SetDeafened
  <2>3. Head(x3).value \in BOOLEAN
    BY <2>2 DEF Audio!Command
  <2>4. x2' \in Audio!Flags /\ x5' \in [Audio!Context -> Audio!Flags]
    BY <1>5, <1>0, <2>3 DEF Audio!SetDeafened, Audio!TypeOK, Audio!Flags, Audio!Context
  <2> QED
    BY <1>5, <1>0, <2>2, <2>4 DEF Audio!SetDeafened, AudioInv, Audio!TypeOK
<1>6. CASE Audio!SetAudioConfig
  <2>1. Audio!Receives("SetAudioConfig")
    BY <1>6 DEF Audio!SetAudioConfig
  <2>2. /\ x3' \in Seq(Audio!Command) /\ Len(x3') <= MaxCommands
        /\ x4 + Cardinality(Opening(x3')) <= MaxContexts
        /\ x4 < MaxContexts /\ x4 + 1 + Cardinality(Opening(x3')) <= MaxContexts
    BY <2>1, Takes
  <2>3. CASE Audio!ContextOpens /\ UNCHANGED <<x7, x8, x9>>
    <3>1. /\ x4' = x4 + 1 /\ x6' = x6 \cup {x4 + 1}
          /\ x5' = [x5 EXCEPT ![x4 + 1] = x2]
      BY <2>3 DEF Audio!ContextOpens, Audio!ThreadsStart
    <3>2. x5' \in [Audio!Context -> Audio!Flags]
      BY <3>1, <1>0 DEF Audio!TypeOK, Audio!Flags
    <3>3. x4' \in 0..MaxContexts /\ 0..x4 \subseteq 0..x4' /\ x6' \subseteq 1..x4'
      BY <3>1, <2>2, <1>0 DEF Audio!TypeOK
    <3> QED
      BY <1>6, <1>0, <2>2, <2>3, <3>1, <3>2, <3>3
         DEF Audio!SetAudioConfig, AudioInv, Audio!TypeOK
  <2>4. CASE /\ x9' = FALSE /\ x7' = [p \in Peer |-> 0] /\ x8' = 0
             /\ UNCHANGED <<x4, x5, x6>>
    <3> DEFINE R == 0..x4
    <3>0. 0 \in R /\ R' = R
      BY <1>0, <2>4
    <3> HIDE DEF R
    <3>1. x7' \in [Peer -> R'] /\ x8' \in R' /\ x9' \in BOOLEAN
      BY <2>4, <3>0
    <3> USE DEF R
    <3>2. UNCHANGED <<x1, x2, x10>>
      BY <1>6 DEF Audio!SetAudioConfig
    <3> QED
      BY <1>0, <2>2, <2>4, <3>1, <3>2 DEF AudioInv, Audio!TypeOK
  <2> QED
    BY <1>6, <2>3, <2>4 DEF Audio!SetAudioConfig
<1>7. ASSUME NEW p \in Peer, Audio!CallStarts(p) \/ Audio!CallEnds(p) PROVE AudioInv'
  <2>1. /\ x7' \in [Peer -> 0..x4]
        /\ UNCHANGED <<x1, x2, x3, x4, x5, x6, x8, x9, x10>>
    BY <1>7, <1>0 DEF Audio!CallStarts, Audio!CallEnds, Audio!TypeOK
  <2> QED
    BY <2>1 DEF AudioInv, Audio!TypeOK
<1>8. CASE Audio!StartRecording \/ Audio!StopRecording
  <2>1. x8' \in 0..x4 /\ UNCHANGED <<x1, x2, x3, x4, x5, x6, x7, x9, x10>>
    BY <1>8, <1>0 DEF Audio!StartRecording, Audio!StopRecording, Audio!TypeOK
  <2> QED
    BY <2>1 DEF AudioInv, Audio!TypeOK
<1>9. ASSUME NEW c \in Audio!Context, Audio!LoopsEnd(c) PROVE AudioInv'
  BY <1>9, <1>0 DEF Audio!LoopsEnd, AudioInv, Audio!TypeOK
<1>10. CASE UNCHANGED Audio!audioVars
  BY <1>10 DEF Audio!audioVars, AudioInv, Audio!TypeOK
<1> QED
  BY <1>1, <1>2, <1>3, <1>4, <1>5, <1>6, <1>7, <1>8, <1>9, <1>10 DEF Audio!Next

LEMMA StreamsPart ==
  /\ Streams!Init => Streams!Inv
  /\ Streams!Inv /\ [Streams!Next]_(Streams!shareVars) => Streams!Inv'
BY ServiceAssumptions, Streams!InitInv, Streams!InvStep

LEMMA DeliveryPart ==
  /\ Delivery!Init => Delivery!Inv /\ Delivery!HonestInv
  /\ Delivery!Inv /\ Delivery!HonestInv /\ [Delivery!Next]_(Delivery!vars)
       => (Delivery!Inv /\ Delivery!HonestInv)'
BY DeliveryAssumptions, Delivery!InitInv, Delivery!HonestInit, Delivery!NextKeeps,
   Delivery!HonestNext

LEMMA InitInv == Init => Inv
BY SessionsPart, TransfersPart, RecordingPart, StreamsPart, DeliveryPart,
   AudioInit, AudioStep DEF Init, Inv

\* What a step of the whole is to the component that runs.
LEMMA ComponentSteps ==
  ASSUME [Next]_allVars
  PROVE  /\ part' = part
         /\ part = "sessions" => [Sessions!Next]_(Sessions!sessionVars)
         /\ part = "transfers" => [Transfers!Next]_(Transfers!transferVars)
         /\ part = "recording" => [Recording!Next]_(Recording!recordingVars)
         /\ part = "audio" => [Audio!Next]_(Audio!audioVars)
         /\ part = "streams" => [Streams!Next]_(Streams!shareVars)
         /\ part = "delivery" => [Delivery!Next]_(Delivery!vars)
<1>1. CASE Next
  BY <1>1 DEF Next
<1>2. CASE UNCHANGED allVars
  BY <1>2 DEF allVars, Sessions!sessionVars, Transfers!transferVars, Transfers!ownerVars,
              Transfers!storeVars, Transfers!serviceVars, Recording!recordingVars,
              Audio!audioVars, Streams!shareVars, Delivery!vars
<1>3. QED
  BY <1>1, <1>2

LEMMA InvStep == Inv /\ [Next]_allVars => Inv'
BY ComponentSteps, SessionsPart, TransfersPart, RecordingPart, StreamsPart, DeliveryPart,
   AudioInit, AudioStep DEF Inv

LEMMA Invariance == Spec => []Inv
BY InitInv, InvStep, PTL DEF Spec

-----------------------------------------------------------------------------
LEMMA DeliveryPromises == Delivery!Inv => Delivery!TypeOK
BY DEF Delivery!Inv

\* Every variable of every component keeps its type and its bounds.
THEOREM TypeCorrect == Spec => []TypeOK
<1>1. Inv => TypeOK
  BY Sessions!InvPromises, Transfers!InvPromises, RecordingPromises, Streams!InvPromises,
     DeliveryPromises DEF Inv, AudioInv, TypeOK
<1>2. QED
  BY <1>1, Invariance, PTL

\* peer_gate keeps two tasks from sending or dialling to one peer at once.
THEOREM SendsAreSerial == Spec => []OneSendPerPeer
<1>1. Inv => OneSendPerPeer
  BY Sessions!InvPromises DEF Inv, OneSendPerPeer
<1>2. QED
  BY <1>1, Invariance, PTL

\* forget_pooled_if takes no fresh session for the one it means.
THEOREM FreshSessionsStay == Spec => FreshSessionIsKept
<1>1. Inv /\ [Next]_allVars => [part = "sessions" => Sessions!FreshSessionStays]_allVars
  BY ComponentSteps, Sessions!FreshStays DEF Inv
<1>2. QED
  BY <1>1, Invariance, PTL DEF Spec, FreshSessionIsKept

\* cancel_file reaches every download that runs and was not told to end.
THEOREM DownloadsAreCancellable == Spec => []EveryDownloadIsCancellable
<1>1. Inv => EveryDownloadIsCancellable
  BY Transfers!InvPromises DEF Inv, EveryDownloadIsCancellable
<1>2. QED
  BY <1>1, Invariance, PTL

\* release_download_pin leaves the pin of every download in progress.
THEOREM DownloadsArePinned == Spec => []ActiveIsPinned
<1>1. Inv => ActiveIsPinned
  BY Transfers!InvPromises DEF Inv, ActiveIsPinned
<1>2. QED
  BY <1>1, Invariance, PTL

\* A failed write or a restart never loses the receipt of a saved file.
THEOREM ReceiptsAreNotLost == Spec => []SavedIsReceiptedOrPending
<1>1. Inv => SavedIsReceiptedOrPending
  BY Transfers!InvPromises DEF Inv, SavedIsReceiptedOrPending
<1>2. QED
  BY <1>1, Invariance, PTL

\* What the manifest says without an error is what the speaker's file holds.
THEOREM ManifestIsTrueAlways == Spec => []ManifestIsTrue
<1>1. Inv => ManifestIsTrue
  BY RecordingPromises DEF Inv, ManifestIsTrue
<1>2. QED
  BY <1>1, Invariance, PTL

\* The decoder is never handed a picture whose reference it has not seen.
THEOREM ReferencesAreThere == Spec => []ReferenceIsThere
<1>1. Inv => ReferenceIsThere
  BY Streams!InvPromises DEF Inv, ReferenceIsThere
<1>2. QED
  BY <1>1, Invariance, PTL

\* Until the first crash or clear, only what a peer has is shown as delivered.
THEOREM DeliveredIsReallyHeld == Spec => []DeliveredIsHeld
<1>1. Inv => DeliveredIsHeld
  BY DeliveryAssumptions, Delivery!HonestPromises DEF Inv, DeliveredIsHeld
<1>2. QED
  BY <1>1, Invariance, PTL
=============================================================================
