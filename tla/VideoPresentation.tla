------------------------- MODULE VideoPresentation -------------------------
(***************************************************************************)
(* A watched screen between the packets and the eye: the decode thread     *)
(* with its hardware decoder and the software decoder it falls back to,    *)
(* the few textures in which hardware pictures travel to the window, the   *)
(* event queue, and the window, which puts a texture on screen by a native *)
(* child window or, when that fails or something covers it, reads it back. *)
(*                                                                         *)
(* A picture is the pool its texture belongs to, or 0 when it is in        *)
(* memory.  Pools are numbered over all decoders of the stream, so an old  *)
(* number is a texture of a size or a device that is gone.                 *)
(***************************************************************************)
EXTENDS Naturals, Sequences, FiniteSets

CONSTANTS
    Textures,       \* textures of a pool
    ErrorFallback,  \* errors in a row before the software decoder takes over
    QueueCap,       \* pictures the window may be behind
    MaxPools,       \* bound: sizes and decoders
    MaxChoices,     \* bound: covering, hiding and showing the window
    MaxFaults       \* bound: failures of devices and decoders

VideoPresentationAssumption ==
    /\ {Textures, ErrorFallback, QueueCap} \subseteq Nat \ {0}
    /\ {MaxPools, MaxChoices, MaxFaults} \subseteq Nat

VARIABLES
    decoder,    \* the decoder and what the decode loop remembers of it
    mood,       \* what the hardware decoder does with a packet
    pool,       \* the textures of the decoder's pool
    pools,      \* pools made so far
    queue,      \* pictures on their way to the window
    picture,    \* the picture the window keeps for the stream
    fresh,      \* it is not on screen yet
    painted,    \* flips whenever a new picture comes on screen
    presenter,  \* the native child window: whether it is visible, has failed
    window,     \* whether it is shown and whether something covers the video
    choices, faults

presentationVars == <<decoder, mood, pool, pools, queue, picture, fresh,
                      painted, presenter, window, choices, faults>>

Mood == {"good", "silent", "failing"}
Pools == 0..MaxPools
MfH264Decoder == [kind : {"hardware", "openh264"}, device : BOOLEAN, pool : Pools,
                  errors : 0..ErrorFallback, waiting : BOOLEAN, configured : BOOLEAN]
DecoderPresentationPool == [allocated : 0..Textures, free : 0..Textures,
                            returned : 0..Textures]

Chosen == choices < MaxChoices /\ choices' = choices + 1
Faulty == faults < MaxFaults /\ faults' = faults + 1

-----------------------------------------------------------------------------
(* Textures. *)

NewPool == [allocated |-> 0, free |-> 0, returned |-> 0]
NoPool == NewPool

\* The mutant: a picture that is dropped keeps its texture.
KeepsTexture(p, dropped) == p

\* A dropped picture gives its texture back to the pool it came from, if
\* that pool is still there.
GivenBack(p, dropped) ==
    LET ours == {i \in DOMAIN dropped : dropped[i] = decoder.pool /\ dropped[i] # 0}
    IN  [p EXCEPT !.returned = @ + Cardinality(ours)]

Reclaimed == [pool EXCEPT !.free = @ + pool.returned, !.returned = 0]

\* The pool after a texture was taken from it.
Taken == IF Reclaimed.free > 0 THEN [Reclaimed EXCEPT !.free = @ - 1]
         ELSE [Reclaimed EXCEPT !.allocated = @ + 1]
AllHeld == Reclaimed.free = 0 /\ pool.allocated >= Textures

\* The queue drops what it has no room for.
Publish(p, left) ==
    IF Len(queue) < QueueCap
    THEN queue' = Append(queue, p) /\ pool' = left
    ELSE UNCHANGED queue /\ pool' = GivenBack(left, <<p>>)

-----------------------------------------------------------------------------
(* The decode thread. *)

Software == [kind |-> "openh264", device |-> FALSE, pool |-> 0, errors |-> 0,
             waiting |-> FALSE, configured |-> TRUE]

\* Hardware first, with or without a device of its own to keep pictures on.
MakeDecoder ==
    {[Software EXCEPT !.kind = "hardware", !.device = d, !.configured = FALSE] :
        d \in BOOLEAN}
        \cup {Software}

\* The stream is torn down and opened again: a new decoder, and pictures of
\* the old one that keep their old pool.
Restart ==
    /\ Faulty /\ pools < MaxPools
    /\ decoder' \in MakeDecoder /\ pool' = NoPool
    /\ UNCHANGED <<mood, pools, queue, picture, fresh, painted, presenter, window, choices>>

\* The first picture, or one of another size, brings a pool of its own.
Renegotiate ==
    /\ decoder.kind = "hardware" /\ mood = "good" /\ ~decoder.waiting
    /\ pools < MaxPools
    /\ pools' = pools + 1
    /\ decoder' = [decoder EXCEPT !.pool = IF decoder.device THEN pools + 1 ELSE 0,
                                  !.errors = 0, !.configured = TRUE]
    /\ pool' = NewPool
    /\ UNCHANGED <<mood, queue, picture, fresh, painted, presenter, window, choices, faults>>

\* A picture of the hardware decoder goes to the window in a texture; with
\* every texture in the window's hands it is skipped.
HardwarePicture ==
    IF decoder.pool = 0 THEN Publish(0, pool)
    ELSE IF AllHeld THEN UNCHANGED queue /\ pool' = Reclaimed
    ELSE Publish(decoder.pool, Taken)

DecodePacket(key) ==
    /\ key \/ ~decoder.waiting
    /\ \/ /\ decoder.kind = "openh264"
          /\ decoder' = [decoder EXCEPT !.waiting = FALSE, !.errors = 0]
          /\ Publish(0, pool)
       \/ /\ decoder.kind = "hardware" /\ mood = "good" /\ decoder.configured
          /\ decoder' = [decoder EXCEPT !.errors = 0]
          /\ HardwarePicture
       \/ /\ decoder.kind = "hardware" /\ mood = "silent"
          /\ decoder' = [decoder EXCEPT !.errors = 0]
          /\ UNCHANGED <<queue, pool>>
       \/ /\ decoder.kind = "hardware" /\ mood = "failing"
          /\ IF decoder.errors + 1 < ErrorFallback
             THEN decoder' = [decoder EXCEPT !.errors = @ + 1] /\ UNCHANGED pool
             ELSE decoder' = [Software EXCEPT !.waiting = TRUE] /\ pool' = NoPool
          /\ UNCHANGED queue
    /\ UNCHANGED <<mood, pools, picture, fresh, painted, presenter, window, choices, faults>>

\* A texture that cannot be handed over turns the rest of this size into
\* pictures in memory, this one included.
HandoffFails ==
    /\ decoder.kind = "hardware" /\ mood = "good" /\ decoder.pool # 0 /\ Faulty
    /\ decoder' = [decoder EXCEPT !.pool = 0]
    /\ Publish(0, NoPool)
    /\ UNCHANGED <<mood, pools, picture, fresh, painted, presenter, window, choices>>

MoodChanges ==
    /\ Faulty /\ mood' \in Mood
    /\ UNCHANGED <<decoder, pool, pools, queue, picture, fresh,
                   painted, presenter, window, choices>>

-----------------------------------------------------------------------------
(* The window. *)

\* The newest picture of the queue replaces the one the window keeps.
Newest == IF queue = <<>> THEN picture ELSE queue[Len(queue)]
Dropped == IF queue = <<>> THEN <<>>
           ELSE <<picture>> \o SubSeq(queue, 1, Len(queue) - 1)

Shows == fresh' = FALSE /\ painted' = ~painted
Later == fresh' = TRUE /\ UNCHANGED painted

Hidden == [presenter EXCEPT !.visible = FALSE]

\* A picture in memory is uploaded; the child window, unused, is hidden.
PaintMemory(left) ==
    /\ picture' = 0 /\ Shows
    /\ presenter' = Hidden /\ pool' = left

\* Something covers the video: the texture is read back.
PaintCovered ==
    \/ PaintMemory(GivenBack(pool, Append(Dropped, Newest))) /\ UNCHANGED faults
    \/ /\ Faulty /\ Newest # 0
       /\ picture' = Newest /\ Later
       /\ presenter' = Hidden /\ pool' = GivenBack(pool, Dropped)

\* A busy swap chain leaves the picture for the next repaint.
Blit == \/ Shows /\ UNCHANGED faults
        \/ Faulty /\ Later

\* A presenter of another device is replaced.
Present ==
    /\ ~presenter.failed
    /\ picture' = Newest /\ pool' = GivenBack(pool, Dropped)
    /\ presenter' = [presenter EXCEPT !.visible = TRUE]
    /\ Blit

\* A failure, of making the presenter too, is for good: the texture is read back.
PresenterFails ==
    /\ presenter.failed \/ Faulty
    /\ presenter.failed => UNCHANGED faults
    /\ picture' = 0 /\ Shows
    /\ presenter' = [Hidden EXCEPT !.failed = TRUE]
    /\ pool' = GivenBack(pool, Append(Dropped, Newest))

PaintNative == Present \/ PresenterFails

Repaint ==
    /\ window.shown /\ (queue # <<>> \/ fresh)
    /\ queue' = <<>>
    /\ IF Newest = 0 THEN PaintMemory(GivenBack(pool, Dropped)) /\ UNCHANGED faults
       ELSE IF window.covered THEN PaintCovered ELSE PaintNative
    /\ UNCHANGED <<decoder, mood, pools, window, choices>>

\* Hiding throws the waiting pictures away; overlays come and go.
HideWindow ==
    /\ window.shown /\ Chosen
    /\ window' = [window EXCEPT !.shown = FALSE]
    /\ queue' = <<>> /\ pool' = GivenBack(pool, queue)
    /\ UNCHANGED <<decoder, mood, pools, picture, fresh, painted, presenter, faults>>

ShowWindow ==
    /\ ~window.shown /\ Chosen
    /\ window' = [window EXCEPT !.shown = TRUE]
    /\ UNCHANGED <<decoder, mood, pool, pools, queue, picture, fresh, painted,
                   presenter, faults>>

Cover ==
    /\ Chosen /\ window' = [window EXCEPT !.covered = ~@]
    /\ UNCHANGED <<decoder, mood, pool, pools, queue, picture, fresh, painted,
                   presenter, faults>>

Init ==
    /\ decoder \in MakeDecoder /\ mood \in Mood
    /\ pool = NoPool /\ pools = 0 /\ queue = <<>> /\ picture = 0
    /\ fresh = FALSE /\ painted = FALSE
    /\ presenter = [visible |-> FALSE, failed |-> FALSE]
    /\ window = [shown |-> TRUE, covered |-> FALSE]
    /\ choices = 0 /\ faults = 0

Next ==
    \/ Restart \/ Renegotiate \/ (\E key \in BOOLEAN : DecodePacket(key))
    \/ HandoffFails \/ MoodChanges \/ Repaint \/ HideWindow
    \/ ShowWindow \/ Cover

\* Keyframes come at least every two seconds and the shown window repaints.
WeakStep(i) ==
    \/ i = 1 /\ ~decoder.configured /\ Renegotiate
    \/ i = 2 /\ DecodePacket(TRUE)
    \/ i = 3 /\ Repaint
Fairness == \A i \in 1..3 : WF_presentationVars(WeakStep(i))

Spec == Init /\ [][Next]_presentationVars /\ Fairness

-----------------------------------------------------------------------------

TypeOK ==
    /\ decoder \in MfH264Decoder
    /\ mood \in Mood /\ pools \in Pools /\ picture \in Pools
    /\ pool \in DecoderPresentationPool
    /\ queue \in Seq(Pools) /\ Len(queue) <= QueueCap
    /\ {fresh, painted} \subseteq BOOLEAN
    /\ presenter \in [visible : BOOLEAN, failed : BOOLEAN]
    /\ window \in [shown : BOOLEAN, covered : BOOLEAN]

IsShown == window.shown
IsPainted == painted

\* A hardware decoder that takes packets and gives nothing is kept, for only errors
\* lead to the next one (video_decode.rs:3).
IsSilent == decoder.kind = "hardware" /\ mood = "silent"

\* A window that is shown keeps putting new pictures on screen, as long as the
\* decoder does not stay silent: whatever fails on the way, no texture is lost
\* for good and some path is left.
PictureIsShown == <>[](IsShown /\ ~IsSilent) => []<>IsPainted /\ []<>~IsPainted
=============================================================================
