--------------------------- MODULE CaptureEncoder ---------------------------
(***************************************************************************)
(* One capture pipeline of a shared screen: the capture thread, the encode *)
(* thread and the preview thread, the graphics-capture callback that feeds *)
(* the first, and the chain of encoders the second falls back along: the   *)
(* one that shares the capture device, the one fed through memory, and     *)
(* OpenH264.  The worker starts the pipeline, waits for its first frame,   *)
(* and stops it by a flag and a join.                                      *)
(*                                                                         *)
(* A frame is the size of the target when it was taken, 0 when it has been *)
(* scaled in memory.  A transform of Media Foundation is external: whether *)
(* it gives pictures (its mood) is chosen freely, its events follow the    *)
(* asynchronous protocol.                                                  *)
(***************************************************************************)
EXTENDS Naturals, Sequences

CONSTANTS
    Slots,          \* textures of the capture ring
    EmptyFallback,  \* frames without output before an encoder is replaced
    ErrorFallback,  \* errors before the memory-fed encoder is replaced
    Depth,          \* inputs an asynchronous transform asks for ahead
    HoldsBack,      \* frames a transform keeps before it gives the first
    MaxSize,        \* bound: sizes the target takes
    MaxChoices,     \* bound: viewers that come and go
    MaxFaults       \* bound: moods, devices and sizes that change

CaptureEncoderAssumption ==
    /\ {Slots, EmptyFallback, ErrorFallback, Depth, MaxSize} \subseteq Nat \ {0}
    /\ {HoldsBack, MaxChoices, MaxFaults} \subseteq Nat

VARIABLES
    source,     \* the capture source of the capture thread
    capturing,  \* the capture thread is inside capture_frame
    size,       \* the size of the target
    arrived,    \* frames between the callback and the capture thread
    channel,    \* the frame between the capture and the encode thread
    step,       \* where the encode thread is
    frame,      \* the frame the encode thread holds
    encoder,    \* its encoder, and what it remembers of it
    transform,  \* the transform behind a Media Foundation encoder
    mood,       \* what each kind of transform does with a frame
    listeners,  \* some send task subscribes to the pictures
    made,       \* the last frame encoded gave a picture
    preview,    \* a frame waits for the preview thread
    stopFlag, startup,
    choices, faults

captureVars == <<source, capturing, size, arrived, channel, step, frame,
                 encoder, transform, mood, listeners, made, preview, stopFlag,
                 startup, choices, faults>>

Sizes == 1..MaxSize
CaptureSource == {"opening", "graphics", "polled", "over"}
FrameEncoder == [kind : {"none", "shared", "fed", "openh264"},
                 fit : 0..MaxSize, empty : 0..EmptyFallback,
                 errors : 0..ErrorFallback]
MfH264Encoder == [async : BOOLEAN, pending : 0..Depth, granted : 0..Depth,
                  asked : 0..Depth, ready : 0..1, inside : 0..Depth,
                  refused : BOOLEAN]
Mood == {"good", "silent", "failing"}
Frames == UNION {[1..n -> 0..MaxSize] : n \in 0..1}

Chosen == choices < MaxChoices /\ choices' = choices + 1
Faulty == faults < MaxFaults /\ faults' = faults + 1

-----------------------------------------------------------------------------
(* The capture thread. *)

\* Graphics capture starts with the frame its constructor has waited for.
StartsGraphics == source' = "graphics" /\ arrived' = <<size>>
StartsPolling == source' = "polled" /\ UNCHANGED arrived
StartsNothing == source' = "over" /\ UNCHANGED arrived

\* Graphics capture first, then the polling backends; a chosen target has
\* graphics capture alone.
InitCaptureSource ==
    /\ source = "opening"
    /\ StartsGraphics \/ StartsPolling \/ StartsNothing
    /\ startup' = IF source' = "over" THEN "failed" ELSE startup
    /\ UNCHANGED <<capturing, size, channel, step, frame, encoder, transform,
                   mood, listeners, made, preview, stopFlag, choices,
                   faults>>

\* The textures of the present size that somebody still holds.
InUse == LET holds(q) == q # <<>> /\ q[1] = size
         IN  Len(SelectSeq(<<arrived, channel, frame>>, holds))

\* The callback copies into a free texture and drops the frame when there
\* is none or the queue is full.
OnFrameArrived ==
    /\ source = "graphics" /\ arrived = <<>> /\ InUse < Slots
    /\ arrived' = <<size>>
    /\ UNCHANGED <<source, capturing, size, channel, step, frame, encoder,
                   transform, mood, listeners, made, preview, stopFlag,
                   startup, choices, faults>>

\* The flag is read between two frames only.
BeginCapture ==
    /\ source \in {"graphics", "polled"} /\ ~capturing
    /\ IF stopFlag THEN source' = "over" /\ UNCHANGED capturing
                   ELSE capturing' = TRUE /\ UNCHANGED source
    /\ UNCHANGED <<size, arrived, channel, step, frame, encoder, transform,
                   mood, listeners, made, preview, stopFlag, startup,
                   choices, faults>>

\* A full channel drops the frame; a closed one ends the thread.
Forward(f) ==
    /\ capturing' = FALSE
    /\ startup' = IF startup = "waiting" THEN "started" ELSE startup
    /\ IF step = "over" THEN source' = "over" /\ UNCHANGED channel
       ELSE /\ channel' = IF channel = <<>> THEN <<f>> ELSE channel
            /\ UNCHANGED source
    /\ UNCHANGED <<size, step, frame, encoder, transform, mood, listeners,
                   made, preview, stopFlag, choices, faults>>

\* Graphics capture waits for the callback, however long that takes.
CaptureGpu == source = "graphics" /\ capturing /\ arrived # <<>>
              /\ arrived' = <<>> /\ Forward(arrived[1])

\* A polled frame has been fitted into the size of the stream.
Scaled == 0

CapturePolled == source = "polled" /\ capturing /\ Forward(Scaled) /\ UNCHANGED arrived

\* A polling backend with nothing new returns an empty frame.
CaptureIdle ==
    /\ source = "polled" /\ capturing /\ capturing' = FALSE
    /\ UNCHANGED <<source, size, arrived, channel, step, frame, encoder,
                   transform, mood, listeners, made, preview, stopFlag,
                   startup, choices, faults>>

\* capture_frame, whichever backend it asks.
CaptureFrame == CaptureGpu \/ CapturePolled \/ CaptureIdle

\* The target is closed, or its backend fails.
CaptureFails ==
    /\ source \in {"graphics", "polled"} /\ capturing /\ arrived = <<>> /\ Faulty
    /\ source' = "over" /\ capturing' = FALSE
    /\ startup' = IF startup = "waiting" THEN "failed" ELSE startup
    /\ UNCHANGED <<size, arrived, channel, step, frame, encoder, transform,
                   mood, listeners, made, preview, stopFlag, choices>>

-----------------------------------------------------------------------------
(* The encoders. *)

NoTransform == [async |-> FALSE, pending |-> 0, granted |-> 0, asked |-> 0,
                ready |-> 0, inside |-> 0, refused |-> FALSE]
\* The mutant: the request taken while setting up is not counted.
ConfiguredUncounted(async) == [NoTransform EXCEPT !.async = async, !.granted = 1]

\* Setting an asynchronous transform up takes its first request for input.
Configured(async) ==
    [NoTransform EXCEPT !.async = async, !.pending = IF async THEN 1 ELSE 0,
                        !.granted = @ + 1]

\* The transforms the machine offers: hardware ones are asynchronous or not.
Candidates == BOOLEAN

\* What becomes of a frame that is converted on the capture device,
OnDevice == mood["shared"]
\* and of one that goes through memory.
ThroughMemory == mood["fed"]
Outcome == IF encoder.kind = "shared" THEN OnDevice ELSE ThroughMemory

\* A transform that is built has given a picture of the probe.
AnswersProbe == ThroughMemory = "good"

\* The encoder on the capture device: some hardware candidate takes the
\* device and answers the probe, on a way of its own.
OpenOnDevice == [kind : {"shared"}, async : Candidates]
\* The encoder fed through memory: hardware on its adapter, hardware with
\* plain samples, software; each must give a picture of the probe.
OpenForCpu == IF AnswersProbe THEN [kind : {"fed"}, async : Candidates]
              ELSE {[kind |-> "openh264", async |-> FALSE]}
OpenSoftware == {[kind |-> "openh264", async |-> FALSE]}

\* An encoder in place of the present one, which then remembers `now'.
Replaces(o, now) ==
    /\ encoder' = [now EXCEPT !.kind = o.kind]
    /\ transform' = IF o.kind = "openh264" THEN NoTransform ELSE Configured(o.async)

\* The window was resized: the encoder on the device starts anew.
Outgrown(f) == encoder.kind = "shared" /\ encoder.fit # f

\* Whatever else becomes of a frame, its copy goes to the preview, unless the
\* capture device cannot scale it.
Scales == BOOLEAN
OffersPreview == \E scaled \in Scales : preview' = (preview \/ scaled)

\* A frame with a listener opens what is missing; one without is only shown
\* in the preview.
TakeFrame ==
    /\ step = "idle" /\ ~stopFlag /\ channel # <<>>
    /\ channel' = <<>> /\ OffersPreview
    /\ LET f == channel[1] IN
       IF ~listeners
       THEN UNCHANGED <<step, frame, encoder, transform, made>>
       ELSE /\ step' = "submitting" /\ frame' = <<f>> /\ made' = FALSE
            /\ IF encoder.kind # "none" /\ ~Outgrown(f)
               THEN UNCHANGED <<encoder, transform>>
               ELSE \E o \in IF f = 0 THEN OpenForCpu
                             ELSE OpenOnDevice \cup OpenForCpu :
                       Replaces(o, [encoder EXCEPT !.fit = f])
    /\ UNCHANGED <<source, capturing, size, arrived, mood, listeners, stopFlag,
                   startup, choices, faults>>

Gave(picture) ==
    /\ made' = picture /\ step' = "idle" /\ frame' = <<>>
    /\ UNCHANGED <<source, capturing, size, arrived, channel, mood, listeners,
                   preview, stopFlag, startup, choices, faults>>

\* A picture goes to every send task.
GivesPicture ==
    /\ encoder' = [encoder EXCEPT !.empty = 0]
    /\ UNCHANGED transform /\ Gave(TRUE)

\* So many frames without output replace the encoder by the next of the chain.
GivesNothing ==
    /\ IF encoder.empty + 1 < EmptyFallback
       THEN encoder' = [encoder EXCEPT !.empty = @ + 1] /\ UNCHANGED transform
       ELSE \E o \in IF encoder.kind = "shared" THEN OpenForCpu ELSE OpenSoftware :
              Replaces(o, [encoder EXCEPT !.empty = 0])
    /\ Gave(FALSE)

\* The first error gives the device up; errors of the encoder fed through
\* memory are counted for good.
GivesError(left) ==
    /\ \/ /\ encoder.kind = "fed" /\ encoder.errors + 1 < ErrorFallback
          /\ encoder' = [encoder EXCEPT !.errors = @ + 1] /\ transform' = left
       \/ /\ encoder.kind = "shared" \/ encoder.errors + 1 >= ErrorFallback
          /\ \E o \in IF encoder.kind = "shared" THEN OpenForCpu ELSE OpenSoftware :
                Replaces(o, [encoder EXCEPT !.errors = 0])
    /\ Gave(FALSE)

EncodeSoftware == step = "submitting" /\ encoder.kind = "openh264" /\ GivesPicture

\* A synchronous transform answers at once.
ProcessSync ==
    /\ step = "submitting" /\ encoder.kind # "openh264" /\ ~transform.async
    /\ CASE Outcome = "good" -> GivesPicture
         [] Outcome = "silent" -> GivesNothing
         [] OTHER -> GivesError(transform)

\* All the events that wait are taken; HaveOutput adds to the result.
Pumped == [transform EXCEPT !.pending = @ + transform.asked, !.asked = 0,
                            !.ready = 0]

\* The thread counts the request for input as answered even when the transform
\* has refused the frame; whether it then asks again is up to the transform.
Refused(again) == [Pumped EXCEPT !.pending = @ - 1,
                                 !.granted = IF again THEN @ - 1 ELSE @,
                                 !.refused = ~again]

\* An asynchronous one takes a frame when it has asked for one, and the
\* thread then waits for an event of it.
ProcessInput ==
    /\ step = "submitting" /\ encoder.kind # "openh264" /\ transform.async
    /\ Pumped.pending > 0
    /\ \/ Outcome = "failing" /\ \E again \in BOOLEAN : GivesError(Refused(again))
       \/ /\ Outcome # "failing"
          /\ transform' = [Pumped EXCEPT !.pending = @ - 1, !.granted = @ - 1,
                                         !.inside = @ + 1]
          /\ made' = (transform.ready > 0) /\ step' = "waiting"
          /\ UNCHANGED <<source, capturing, size, arrived, channel, frame,
                         encoder, mood, listeners, preview, stopFlag, startup,
                         choices, faults>>

WaitForEvent ==
    /\ step = "waiting" /\ transform.asked + transform.ready > 0
    /\ LET picture == made \/ transform.ready > 0 IN
       IF picture
       THEN /\ encoder' = [encoder EXCEPT !.empty = 0]
            /\ transform' = Pumped /\ Gave(TRUE)
       ELSE IF encoder.empty + 1 < EmptyFallback
       THEN /\ encoder' = [encoder EXCEPT !.empty = @ + 1]
            /\ transform' = Pumped /\ Gave(FALSE)
       ELSE GivesNothing

\* The transform: it asks for input, and gives what it has taken.
Asks ==
    /\ transform.async /\ transform.granted + transform.inside < Depth
    /\ transform' = [transform EXCEPT !.granted = @ + 1, !.asked = @ + 1]
    /\ UNCHANGED <<source, capturing, size, arrived, channel, step, frame,
                   encoder, mood, listeners, made, preview, stopFlag, startup,
                   choices, faults>>

Delivers ==
    /\ transform.async /\ transform.inside > HoldsBack
    /\ transform' = [transform EXCEPT !.inside = @ - 1,
                       !.ready = IF Outcome = "good" THEN 1 ELSE @]
    /\ UNCHANGED <<source, capturing, size, arrived, channel, step, frame,
                   encoder, mood, listeners, made, preview, stopFlag, startup,
                   choices, faults>>

\* The flag ends the thread between two frames; a closed channel does too.
EncodeEnds ==
    /\ step = "idle" /\ (stopFlag \/ (source = "over" /\ channel = <<>>))
    /\ step' = "over"
    /\ UNCHANGED <<source, capturing, size, arrived, channel, frame, encoder,
                   transform, mood, listeners, made, preview, stopFlag,
                   startup, choices, faults>>

\* No encoder of the chain can be made any more.
EncodeFails ==
    /\ step = "submitting" /\ Faulty
    /\ step' = "over" /\ frame' = <<>>
    /\ UNCHANGED <<source, capturing, size, arrived, channel, encoder,
                   transform, mood, listeners, made, preview, stopFlag,
                   startup, choices>>

\* The preview is scaled, on the device or in memory, and offered to the window.
PreviewLoop ==
    /\ preview /\ preview' = FALSE
    /\ UNCHANGED <<source, capturing, size, arrived, channel, step, frame,
                   encoder, transform, mood, listeners, made, stopFlag,
                   startup, choices, faults>>

-----------------------------------------------------------------------------
(* The worker, the viewers and the machine. *)

Ended == source = "over" /\ step = "over"

\* The outer thread has joined the others and reports what failed, unless the
\* worker has stopped them.
ReportFailure ==
    /\ Ended /\ ~stopFlag /\ startup = "started" /\ startup' = "reported"
    /\ UNCHANGED <<source, capturing, size, arrived, channel, step, frame,
                   encoder, transform, mood, listeners, made, preview,
                   stopFlag, choices, faults>>

SetsStopFlag ==
    /\ ~stopFlag /\ stopFlag' = TRUE
    /\ UNCHANGED <<source, capturing, size, arrived, channel, step, frame,
                   encoder, transform, mood, listeners, made, preview,
                   choices, faults>>

\* The first frame has not come in time.
StartupTimesOut == startup = "waiting" /\ startup' = "failed" /\ SetsStopFlag

\* stop_capture_thread; its join is `Ended'.
Stop == startup # "waiting" /\ UNCHANGED startup /\ SetsStopFlag

Listen ==
    /\ Chosen /\ listeners' = ~listeners
    /\ UNCHANGED <<source, capturing, size, arrived, channel, step, frame,
                   encoder, transform, mood, made, preview, stopFlag, startup,
                   faults>>

\* The captured window takes another size.
Resize ==
    /\ size < MaxSize /\ size' = size + 1 /\ Faulty
    /\ UNCHANGED <<source, capturing, arrived, channel, step, frame, encoder,
                   transform, mood, listeners, made, preview, stopFlag,
                   startup, choices>>

MoodChanges ==
    /\ Faulty /\ \E k \in DOMAIN mood, m \in Mood : mood' = [mood EXCEPT ![k] = m]
    /\ UNCHANGED <<source, capturing, size, arrived, channel, step, frame,
                   encoder, transform, listeners, made, preview, stopFlag,
                   startup, choices>>

Init ==
    /\ source = "opening" /\ capturing = FALSE /\ size = 1
    /\ arrived = <<>> /\ channel = <<>> /\ step = "idle" /\ frame = <<>>
    /\ encoder = [kind |-> "none", fit |-> 0, empty |-> 0, errors |-> 0]
    /\ transform = NoTransform
    /\ mood \in [{"shared", "fed"} -> Mood]
    /\ listeners = FALSE /\ made = FALSE /\ preview = FALSE
    /\ stopFlag = FALSE /\ startup = "waiting"
    /\ choices = 0 /\ faults = 0

CaptureStep == InitCaptureSource \/ BeginCapture \/ CaptureFrame
EncodeStep == \/ TakeFrame \/ EncodeSoftware \/ ProcessSync \/ ProcessInput
              \/ WaitForEvent \/ EncodeEnds

Next ==
    \/ CaptureStep \/ CaptureFails \/ OnFrameArrived
    \/ EncodeStep \/ EncodeFails \/ PreviewLoop \/ Asks \/ Delivers
    \/ ReportFailure \/ StartupTimesOut \/ Stop \/ Listen \/ Resize \/ MoodChanges

\* The threads run and the transform answers; the screen need not change.
WeakStep(i) ==
    \/ i = 1 /\ InitCaptureSource
    \/ i = 2 /\ BeginCapture
    \/ i = 3 /\ CaptureGpu
    \/ i = 4 /\ CaptureIdle
    \/ i = 5 /\ EncodeStep
    \/ i = 6 /\ Asks
    \/ i = 7 /\ Delivers
    \/ i = 8 /\ OnFrameArrived
StrongStep(i) == i = 1 /\ CapturePolled
ThreadsRun == \A i \in 1..7 : WF_captureVars(WeakStep(i))
\* A screen that moves gives frames again and again.
ScreenMoves == WF_captureVars(WeakStep(8)) /\ SF_captureVars(StrongStep(1))

Spec == Init /\ [][Next]_captureVars /\ ThreadsRun
MovingSpec == Spec /\ ScreenMoves

-----------------------------------------------------------------------------

TypeOK ==
    /\ source \in CaptureSource
    /\ step \in {"idle", "submitting", "waiting", "over"}
    /\ size \in Sizes /\ {arrived, channel, frame} \subseteq Frames
    /\ encoder \in FrameEncoder /\ transform \in MfH264Encoder
    /\ mood \in [{"shared", "fed"} -> Mood]
    /\ startup \in {"waiting", "started", "failed", "reported"}
    /\ {capturing, listeners, made, preview, stopFlag} \subseteq BOOLEAN

IsWatched == listeners /\ ~stopFlag /\ source # "over" /\ step # "over"
IsMade == made

\* A transform that has refused a frame and does not ask again: its request was
\* counted off before the frame was handed over (win_mf_codec.rs:1782), and the
\* thread waits for the next one without counting an error.
Starved == transform.refused /\ Pumped.pending = 0

\* As long as somebody listens to a share that runs, pictures keep coming,
\* whatever the transforms do, but for one that starves: an encoder that fails or
\* goes silent is replaced by the next of the chain, and an asynchronous one
\* never waits for input the thread has already been asked for.
PicturesAreMade == <>[](IsWatched /\ ~Starved) => []<>IsMade /\ []<>~IsMade

\* A pipeline told to stop ends, and with it the worker's wait for it: the
\* capture loop comes back "so it can observe a stop request".  The code does not
\* keep this with every backend: see the findings in README.md.
StopEnds == stopFlag ~> Ended
=============================================================================
