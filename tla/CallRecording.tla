----------------------------- MODULE CallRecording -----------------------------
(***************************************************************************)
(* One recording of a call (wire-app/src/recording.rs): a file for each     *)
(* speaker, written by a thread of its own from a bounded queue which a tap  *)
(* fills once in every 20 ms.  The tap of the microphone is a sink of the    *)
(* capture loop, the tap of a participant belongs to a decoder thread.      *)
(* Stopping sets the stop flag of every tap, waits for the writers and      *)
(* writes the summary.  A frame is a number of samples that never changes,   *)
(* so a file is the count of its frames.                                   *)
(***************************************************************************)
EXTENDS Naturals, FiniteSets

CONSTANTS
  Participant,    \* remote speakers
  Microphone,     \* the local one
  QueueCapacity,  \* FRAME_QUEUE_CAPACITY
  MaxFrames,      \* bound on the ticks of one speaker
  MaxGeneration,  \* bound on the calls of one participant
  MaxFaults       \* bound on failures of the disk, of a decoder, of the device

CallRecordingAssumption ==
  /\ Microphone \notin Participant
  /\ {QueueCapacity, MaxFrames} \subseteq Nat /\ MaxGeneration \in Nat \ {0}

VARIABLES
  session,    \* "none", "live", "stopping" (stop_and_join) or "finished"
  speakers,   \* RecordingSession::speakers
  stop,       \* TapState::stop of each of them
  tap,        \* "none", "runs" or "gone": the sender is dropped
  queue,      \* frames in the queue of each writer
  writer,     \* "none", "runs", "drains" (after an error) or "ended"
  file,       \* on disk: "none", "open" or "final" (the sizes in its header are set)
  frames,     \* frames in the file
  outcome,    \* WriterOutcome: frames it counts, whether there was an error
  ticks,      \* ticks the tap has been given
  dropped,    \* TapState::dropped_frames
  source,     \* VoiceSource::current: the generation of the track, 0: none
  decoder,    \* of a participant: the generation seen last, the one that is open (0: none),
              \* and how many have ended under it
  hungUp,     \* participants whose current track has ended
  summary,    \* RecordingSummary::speakers, once there is one
  deviceGone, \* the capture loop has stopped
  faults

tapVars      == <<stop, tap, ticks, dropped, source, decoder>>
writerVars   == <<writer, file, frames, outcome>>
recordingVars == <<session, speakers, stop, tap, queue, writer, file, frames, outcome, ticks,
                   dropped, source, decoder, hungUp, summary, deviceGone, faults>>

Speaker == Participant \cup {Microphone}
Outcome == [frames : 0..MaxFrames, error : BOOLEAN]
Report  == [file : BOOLEAN, frames : 0..MaxFrames, dropped : 0..MaxFrames, error : BOOLEAN,
            is : BOOLEAN]
NoReport == [file |-> FALSE, frames |-> 0, dropped |-> 0, error |-> FALSE, is |-> FALSE]

TypeOK ==
  /\ session \in {"none", "live", "stopping", "finished"}
  /\ speakers \subseteq Speaker /\ stop \subseteq Speaker
  /\ tap \in [Speaker -> {"none", "runs", "gone"}]
  /\ queue \in [Speaker -> 0..QueueCapacity]
  /\ writer \in [Speaker -> {"none", "runs", "drains", "ended"}]
  /\ file \in [Speaker -> {"none", "open", "final"}]
  /\ frames \in [Speaker -> 0..MaxFrames] /\ outcome \in [Speaker -> Outcome]
  /\ ticks \in [Speaker -> 0..MaxFrames] /\ dropped \in [Speaker -> 0..MaxFrames]
  /\ source \in [Participant -> 0..MaxGeneration]
  /\ decoder \in [Participant -> [seen : 0..MaxGeneration, open : 0..MaxGeneration,
                                 ended : Nat]]
  /\ hungUp \subseteq Participant
  /\ summary \in [Speaker -> Report] /\ deviceGone \in BOOLEAN

Init ==
  /\ session = "none" /\ speakers = {} /\ stop = {}
  /\ tap = [s \in Speaker |-> "none"] /\ queue = [s \in Speaker |-> 0]
  /\ writer = [s \in Speaker |-> "none"] /\ file = [s \in Speaker |-> "none"]
  /\ frames = [s \in Speaker |-> 0]
  /\ outcome = [s \in Speaker |-> [frames |-> 0, error |-> FALSE]]
  /\ ticks = [s \in Speaker |-> 0] /\ dropped = [s \in Speaker |-> 0]
  /\ source = [p \in Participant |-> 0]
  /\ decoder = [p \in Participant |-> [seen |-> 0, open |-> 0, ended |-> 0]]
  /\ hungUp = {} /\ summary = [s \in Speaker |-> NoReport]
  /\ deviceGone = FALSE /\ faults = 0

Fault == faults < MaxFaults /\ faults' = faults + 1

\* start_speaker_writer: the queue, the tap and the thread; the file comes with
\* the first frame.
StartSpeakerWriter(s) ==
  /\ tap' = [tap EXCEPT ![s] = "runs"] /\ writer' = [writer EXCEPT ![s] = "runs"]
-----------------------------------------------------------------------------
(***************************************************************************)
(* The session.  The microphone is attached with the start, if there is an  *)
(* audio context; the capture loop may be dead by then, which fails the      *)
(* start and drops the session and with it the tap.                        *)
(***************************************************************************)
StartWithMicrophone ==
  /\ session = "none" /\ ~deviceGone
  /\ session' = "live" /\ speakers' = {Microphone}
  /\ StartSpeakerWriter(Microphone)
  /\ UNCHANGED <<stop, queue, file, frames, outcome, ticks, dropped, source, decoder, hungUp,
                 summary, deviceGone, faults>>

StartWithoutMicrophone ==
  /\ session = "none" /\ session' = "live"
  /\ UNCHANGED <<speakers, tapVars, queue, writerVars, hungUp, summary, deviceGone, faults>>

AttachParticipant(p) ==
  /\ session = "live" /\ p \notin speakers
  /\ speakers' = speakers \cup {p} /\ source' = [source EXCEPT ![p] = 1]
  /\ StartSpeakerWriter(p)
  /\ UNCHANGED <<session, stop, queue, file, frames, outcome, ticks, dropped, decoder, hungUp,
                 summary, deviceGone, faults>>

\* replace_participant_track: the participant has hung up and joined again.
ReplaceParticipantTrack(p) ==
  /\ session = "live" /\ p \in speakers /\ source[p] < MaxGeneration
  /\ source' = [source EXCEPT ![p] = @ + 1] /\ hungUp' = hungUp \ {p}
  /\ UNCHANGED <<session, speakers, stop, tap, queue, writerVars, ticks, dropped, decoder,
                 summary, deviceGone, faults>>

HangUp(p) ==
  /\ p \in speakers \ hungUp /\ hungUp' = hungUp \cup {p}
  /\ UNCHANGED <<session, speakers, tapVars, queue, writerVars, summary, deviceGone, faults>>
-----------------------------------------------------------------------------
(***************************************************************************)
(* Taps.  push hands over exactly one frame, of silence where nothing came,  *)
(* or counts it as dropped when the writer is behind.  A tick without a push  *)
(* leaves the file a frame behind the clock.                               *)
(***************************************************************************)
Full(s) == queue[s] = QueueCapacity

Tick(s) == ticks[s] < MaxFrames /\ ticks' = [ticks EXCEPT ![s] = @ + 1]

Push(s) ==
  /\ Tick(s)
  /\ IF Full(s)
     THEN dropped' = [dropped EXCEPT ![s] = @ + 1] /\ UNCHANGED queue
     ELSE queue' = [queue EXCEPT ![s] = @ + 1] /\ UNCHANGED dropped

DropTap(s) ==
  /\ tap' = [tap EXCEPT ![s] = "gone"] /\ UNCHANGED <<ticks, dropped, queue>>

\* RecordingTap::tick, in the capture loop.
MicrophoneTick ==
  /\ tap[Microphone] = "runs" /\ ~deviceGone
  /\ \/ Microphone \in stop /\ DropTap(Microphone)
     \/ Microphone \notin stop /\ Push(Microphone) /\ UNCHANGED tap
  /\ UNCHANGED <<session, speakers, stop, writerVars, source, decoder, hungUp, summary,
                 deviceGone, faults>>

\* The stream has failed: nobody ticks the tap again and nobody drops it.
DeviceGoes ==
  /\ ~deviceGone /\ Fault /\ deviceGone' = TRUE
  /\ UNCHANGED <<session, speakers, tapVars, queue, writerVars, hungUp, summary>>

\* SetAudioConfig replaces the audio context while no call holds the old one: its
\* capture loop returns and drops its sinks, whatever the recording needs.
CaptureLoopEnds ==
  /\ tap[Microphone] = "runs" /\ ~deviceGone /\ Fault /\ DropTap(Microphone)
  /\ UNCHANGED <<session, speakers, stop, writerVars, source, decoder, hungUp, summary,
                 deviceGone>>

\* decode_loop.  A newer track is taken up first; one that cannot be opened counts
\* as seen, and the older one is decoded further.  A track that has ended is closed
\* in the tick that finds it so, which pushes nothing; the ticks after it push
\* silence.  A decoder that fails ends the thread, and the tap with it.
Adopted(p, opens) ==
  IF source[p] = decoder[p].seen THEN decoder[p]
  ELSE [decoder[p] EXCEPT !.seen = source[p], !.open = IF opens THEN source[p] ELSE @]

\* The sender of the track is gone; one that has been replaced may go at any time.
HasEnded(p, track) == track = source[p] /\ p \in hungUp
MayHaveEnded(p, track) == track # 0 /\ (track < source[p] \/ p \in hungUp)

DecodeTick(p, next) ==
  \/ /\ ~HasEnded(p, next.open) /\ Push(p)
     /\ decoder' = [decoder EXCEPT ![p] = next]
  \/ /\ MayHaveEnded(p, next.open) /\ Tick(p) /\ UNCHANGED <<queue, dropped>>
     /\ decoder' = [decoder EXCEPT ![p] = [next EXCEPT !.open = 0, !.ended = @ + 1]]

DecodeLoop(p) ==
  /\ tap[p] = "runs"
  /\ \/ p \in stop /\ DropTap(p) /\ UNCHANGED <<decoder, faults>>
     \/ /\ p \notin stop /\ UNCHANGED tap
        /\ \/ DecodeTick(p, Adopted(p, TRUE)) /\ UNCHANGED faults
           \/ /\ source[p] # decoder[p].seen /\ Fault
              /\ DecodeTick(p, Adopted(p, FALSE))
     \/ /\ p \notin stop /\ Fault /\ DropTap(p)
        /\ decoder' = [decoder EXCEPT ![p] = [Adopted(p, TRUE) EXCEPT !.open = 0]]
  /\ UNCHANGED <<session, speakers, stop, writerVars, source, hungUp, summary, deviceGone>>
-----------------------------------------------------------------------------
(***************************************************************************)
(* write_loop.  After an error it drains the queue until the tap is gone.   *)
(***************************************************************************)
Take(s) == queue[s] > 0 /\ queue' = [queue EXCEPT ![s] = @ - 1]
Counted(s) == outcome' = [outcome EXCEPT ![s].frames = @ + 1]
Ignored(s) == UNCHANGED outcome   \* mutation: the error is only logged
Failed(s)  == outcome' = [outcome EXCEPT ![s].error = TRUE]

WriteFrame(s) ==
  /\ writer[s] = "runs" /\ Take(s)
  /\ \/ /\ frames' = [frames EXCEPT ![s] = @ + 1] /\ file' = [file EXCEPT ![s] = "open"]
        /\ Counted(s) /\ UNCHANGED <<writer, faults>>
     \/ /\ Fault /\ Failed(s) /\ writer' = [writer EXCEPT ![s] = "drains"]
        /\ UNCHANGED <<frames, file>>
  /\ UNCHANGED <<session, speakers, tapVars, hungUp, summary, deviceGone>>

Drain(s) ==
  /\ writer[s] = "drains" /\ Take(s)
  /\ UNCHANGED <<session, speakers, tapVars, writerVars, hungUp, summary, deviceGone, faults>>

\* WavFile::finalize, which may fail.
Finalized(s) ==
  \/ /\ file' = [file EXCEPT ![s] = IF @ = "open" THEN "final" ELSE @]
     /\ UNCHANGED <<outcome, faults>>
  \/ file[s] = "open" /\ Fault /\ Failed(s) /\ UNCHANGED file

\* The queue is empty and its sender gone.
WriterEnds(s) ==
  /\ writer[s] \in {"runs", "drains"} /\ queue[s] = 0 /\ tap[s] = "gone"
  /\ writer' = [writer EXCEPT ![s] = "ended"] /\ Finalized(s)
  /\ UNCHANGED <<session, speakers, tapVars, queue, frames, hungUp, summary, deviceGone>>
-----------------------------------------------------------------------------
(***************************************************************************)
(* finish: stop_and_join, the new names and the manifest.                   *)
(***************************************************************************)
StopRecording ==
  /\ session = "live" /\ session' = "stopping" /\ stop' = speakers
  /\ UNCHANGED <<speakers, tap, ticks, dropped, source, decoder, queue, writerVars, hungUp,
                 summary, deviceGone, faults>>

ReportOf(s, o, named) ==
  [file |-> named, frames |-> o.frames, dropped |-> dropped[s], error |-> o.error,
   is |-> TRUE]
\* The row of s in the manifest, which write_manifest writes once all are there.
WriteManifest(s, report) == summary' = [summary EXCEPT ![s] = report]

TimedOut == [frames |-> 0, error |-> TRUE]

\* wait_for_writer gives up after WRITER_SHUTDOWN_TIMEOUT: a writer ends in that
\* time unless nobody ticks its tap any more, or the disk is slow.
WaitForWriter(s) ==
  /\ session = "stopping" /\ s \in speakers
  /\ \/ /\ writer[s] = "ended" /\ UNCHANGED faults
        /\ WriteManifest(s, ReportOf(s, outcome[s], file[s] # "none"))
     \/ /\ writer[s] # "ended"
        /\ \/ s = Microphone /\ deviceGone /\ UNCHANGED faults
           \/ Fault
        /\ WriteManifest(s, ReportOf(s, TimedOut, FALSE))
  /\ speakers' = speakers \ {s}
  /\ UNCHANGED <<session, tapVars, queue, writerVars, hungUp, deviceGone>>

Finish ==
  /\ session = "stopping" /\ speakers = {} /\ session' = "finished"
  /\ UNCHANGED <<speakers, tapVars, queue, writerVars, hungUp, summary, deviceGone, faults>>
-----------------------------------------------------------------------------
Next ==
  \/ StartWithMicrophone \/ StartWithoutMicrophone \/ StopRecording \/ Finish
  \/ MicrophoneTick \/ DeviceGoes \/ CaptureLoopEnds
  \/ \E p \in Participant :
       AttachParticipant(p) \/ ReplaceParticipantTrack(p) \/ HangUp(p) \/ DecodeLoop(p)
  \/ \E s \in Speaker :
       WriteFrame(s) \/ Drain(s) \/ WriterEnds(s) \/ WaitForWriter(s)

Spec == Init /\ [][Next]_recordingVars
-----------------------------------------------------------------------------
TracksEnded(s) == IF s \in Participant THEN decoder[s].ended ELSE 0

\* Whoever reads the manifest can trust it, and knows how far a file may be behind
\* the clock: a speaker without an error has a file with its final header, closed
\* for good, or none because no tick got through, and every tick of the tap is a
\* frame, is counted as dropped, or is the one in which a track of the speaker
\* ended, which decode_loop writes nothing for (recording.rs:586) and which no
\* track has twice (recording.rs write_loop, wait_for_writer, finish).
ManifestIsTrue ==
  \A s \in Speaker :
    summary[s].is /\ ~summary[s].error =>
      /\ summary[s].frames = frames[s]
      /\ ticks[s] = summary[s].frames + summary[s].dropped + TracksEnded(s)
      /\ s \in Participant => TracksEnded(s) <= source[s]
      /\ writer[s] = "ended" /\ (summary[s].file <=> file[s] = "final")
=============================================================================
