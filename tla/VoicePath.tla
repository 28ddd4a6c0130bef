----------------------------- MODULE VoicePath -----------------------------
(***************************************************************************)
(* One voice from a microphone to the loudspeaker of one other member of   *)
(* the call.  The sound card's callback fills the capture ring, the        *)
(* capture loop drains one tick of it every 20 ms and hands it to the Opus *)
(* encoder, a task turns the encoder's frames into RTP packets, the        *)
(* network loses some, a task at the other end puts them into order and    *)
(* passes them on, and every 20 ms the playback loop decodes what has come *)
(* and mixes one tick of it into the ring of the loudspeaker.              *)
(*                                                                         *)
(* A frame is what the encoder makes of one tick; all that is kept of a    *)
(* packet is the number of frames missing before it.                       *)
(***************************************************************************)
EXTENDS Integers, Sequences, FiniteSets

CONSTANTS
    RingTicks,       \* ticks the capture ring holds
    TrackCapacity,   \* frames a track's broadcast channel keeps
    FramesPerTick,   \* frames the encoder makes of one tick of the engine
    MaxUnderflows,   \* short ticks the decoder accepts before it pauses
    PauseTicks,      \* ticks it then stays silent
    Limit,           \* buffered ticks above which the decoder skips ahead
    SkipTicks,       \* ticks it then skips
    MaxLate,         \* packets the sample builder waits for a missing one
    MaxBuffered,     \* bound: a longer buffer is not told apart
    MaxLag,          \* bound: a longer row of missing frames is not told apart
    MaxWire,         \* bound: packets under way
    MaxDrift,        \* bound: ticks one sound card is ahead of the other
    MaxLosses,       \* bound: packets lost
    MaxErrors        \* bound: packets the decoder refuses

VoicePathAssumption ==
    /\ {RingTicks, TrackCapacity, FramesPerTick, PauseTicks, SkipTicks,
        MaxWire, MaxDrift} \subseteq Nat \ {0}
    /\ {Limit, MaxUnderflows, MaxLate, MaxBuffered, MaxLag, MaxLosses,
        MaxErrors} \subseteq Nat
    /\ SkipTicks <= Limit /\ Limit < MaxBuffered

VARIABLES
    captured,    \* ticks in the capture ring
    sink,        \* the encoder is still in the capture loop
    out,         \* the encoder's track: frames waiting, frames overwritten
    sender,      \* the task of send_track still runs
    wire,        \* packets under way
    gap,         \* frames missing before the next packet
    receiver,    \* the task of recv_track: "waiting", "running", "ended"
    held,        \* packets in the sample builder
    track,       \* the remote track: frames waiting, frames overwritten
    source,      \* "none", "queued", "mixed" or "removed"
    buffered,    \* ticks decoded and not yet played
    underflows,  \* short ticks counted since the last pause
    pause,       \* silent ticks left
    playing,     \* the last tick of the mixer carried this voice
    phase,       \* capture ticks minus playback ticks
    open,        \* the connection is open
    losses, errors

capturing == <<captured, sink>>
network == <<wire, gap, losses>>
arriving == <<receiver, held>>
decoder == <<source, buffered, underflows, pause>>
voiceVars == <<capturing, out, sender, network, arriving, track, decoder,
               playing, phase, open, errors>>

-----------------------------------------------------------------------------
Smaller(a, b) == IF a <= b THEN a ELSE b

\* A broadcast channel keeps the newest frames; what it overwrites is
\* reported to the reader as a lag.
Broadcast(channel, frames) ==
    LET all == channel.frames \o frames
        over == IF Len(all) > TrackCapacity THEN Len(all) - TrackCapacity ELSE 0
    IN  [frames |-> SubSeq(all, over + 1, Len(all)),
         lag |-> Smaller(channel.lag + over, MaxLag)]

MediaTrack == [frames : Seq(Nat), lag : 0..MaxLag]
Empty == [frames |-> <<>>, lag |-> 0]

\* The sample builder gives its oldest packet away once the next one has
\* come, unless packets are missing before it: then it waits for MaxLate more.
Releases(packets) ==
    /\ Len(packets) >= 2
    /\ Head(packets) = 0 \/ Len(packets) > MaxLate

-----------------------------------------------------------------------------
\* The engine's stereo samples are cut into frames of the encoder's own
\* channel count and rate: 1 for the stereo qualities, 2 for Medium, 6 for Low.
Encoded(ticks) == [i \in 1..(ticks * FramesPerTick) |-> 0]

\* The callback of the input device pushes what it has, and drops the rest
\* when the ring is full.
CaptureCallback ==
    /\ captured' = Smaller(captured + 1, RingTicks)
    /\ UNCHANGED <<sink, out, sender, network, arriving, track, decoder,
                   playing, phase, open, errors>>

\* MediaTrackOpusEncoder::tick.  An encoder whose track nobody reads is removed
\* when it has something to send.
EncoderTicks(ticks) ==
    IF sink /\ sender
    THEN out' = Broadcast(out, Encoded(ticks)) /\ UNCHANGED sink
    ELSE sink' = (sink /\ ticks = 0) /\ UNCHANGED out

\* One round of the capture loop.
CaptureTick ==
    LET ticks == Smaller(captured, 1) IN
    /\ phase < MaxDrift
    /\ phase' = phase + 1
    /\ captured' = captured - ticks
    /\ EncoderTicks(ticks)
    /\ UNCHANGED <<sender, network, arriving, track, decoder, playing, open,
                   errors>>

\* One round of the sending task: frames it was too slow for only advance
\* the sequence number, the next one becomes a packet.  A failed send ends it.
Transmit ==
    /\ sender
    /\ IF ~open THEN sender' = FALSE /\ UNCHANGED <<out, wire>>
       ELSE /\ out.frames # <<>>
            /\ Len(wire) < MaxWire
            /\ wire' = Append(wire, out.lag)
            /\ out' = [frames |-> Tail(out.frames), lag |-> 0]
            /\ UNCHANGED sender
    /\ UNCHANGED <<capturing, gap, losses, arriving, track, decoder, playing,
                   phase, open, errors>>

\* The network loses a packet.
Lose ==
    /\ wire # <<>> /\ losses < MaxLosses
    /\ losses' = losses + 1
    /\ wire' = Tail(wire)
    /\ gap' = gap + 1 + Head(wire)
    /\ UNCHANGED <<capturing, out, sender, arriving, track, decoder, playing,
                   phase, open, errors>>

\* recv_track returns the track once the first packet has told the codec.
RecvTrack == receiver' = "running"

\* add_track: it goes to the playback loop.
AddTrack == source' = IF receiver = "waiting" THEN "queued" ELSE source

\* A packet arrives.  Each packet releases one sample at most.  A task whose
\* track has no reader left ends.
Receive ==
    /\ open /\ wire # <<>> /\ receiver # "ended"
    /\ wire' = Tail(wire)
    /\ gap' = 0
    /\ LET packets == Append(held, Smaller(gap + Head(wire), MaxLag)) IN
       IF ~Releases(packets)
       THEN held' = packets /\ RecvTrack /\ UNCHANGED track
       ELSE /\ held' = Tail(packets)
            /\ IF source = "removed"
               THEN receiver' = "ended" /\ UNCHANGED track
               ELSE /\ RecvTrack
                    /\ track' = Broadcast(track, <<Head(packets)>>)
    /\ AddTrack
    /\ UNCHANGED <<capturing, out, sender, losses, buffered, underflows, pause,
                   playing, phase, open, errors>>

\* The connection is closed: the task that reads it ends, and with it the
\* track it feeds.
ReceiverEnds ==
    /\ ~open /\ receiver # "ended"
    /\ receiver' = "ended"
    /\ UNCHANGED <<capturing, out, sender, network, held, track, decoder,
                   playing, phase, open, errors>>

\* What packets decode to: one frame each, and one concealed frame for each
\* that is missing before it.
Frames(packets) == UNION {{i} \X (0..packets[i]) : i \in DOMAIN packets}

\* Ticks the decoder has once it has taken everything that waits.
Decoded ==
    Smaller(MaxBuffered, buffered + track.lag + Cardinality(Frames(track.frames)))

\* Mutant: a backlog is played to the end.
NeverShorten(ticks) == ticks

\* A decoder that has too much skips ahead.
Shorten(ticks) == IF ticks > Limit THEN ticks - SkipTicks ELSE ticks

\* Mutant: the silent ticks of a pause are not counted down.
PausesForGood(ticks) ==
    IF pause > 0
    THEN buffered' = ticks /\ playing' = FALSE /\ UNCHANGED <<underflows, pause>>
    ELSE IF ticks = 0
    THEN /\ underflows' = IF underflows + 1 > MaxUnderflows THEN 0
                                                            ELSE underflows + 1
         /\ pause' = IF underflows + 1 > MaxUnderflows THEN PauseTicks ELSE 0
         /\ buffered' = ticks
         /\ playing' = FALSE
    ELSE /\ buffered' = Shorten(ticks) - 1
         /\ playing' = TRUE
         /\ UNCHANGED <<underflows, pause>>

\* What the decoder does with the ticks it has: stay silent to the end of a
\* pause, note that it has too few and begin a pause once that has happened
\* too often, or skip ahead when it has too many and play one.
PlayFrom(ticks) ==
    IF pause > 0
    THEN /\ pause' = pause - 1
         /\ buffered' = ticks
         /\ playing' = FALSE
         /\ UNCHANGED underflows
    ELSE IF ticks = 0
    THEN /\ underflows' = IF underflows + 1 > MaxUnderflows THEN 0
                                                            ELSE underflows + 1
         /\ pause' = IF underflows + 1 > MaxUnderflows THEN PauseTicks ELSE 0
         /\ buffered' = ticks
         /\ playing' = FALSE
    ELSE /\ buffered' = Shorten(ticks) - 1
         /\ playing' = TRUE
         /\ UNCHANGED <<underflows, pause>>

Removed ==
    /\ source' = "removed"
    /\ playing' = FALSE
    /\ buffered' = 0
    /\ UNCHANGED <<underflows, pause>>

\* One round of the playback loop.  It takes new sources in, ticks each of
\* them, drops those whose track is closed or cannot be decoded, and pushes
\* the mix to the loudspeaker, whose own ring is left out.
PlaybackTick ==
    /\ phase > -MaxDrift
    /\ phase' = phase - 1
    /\ IF source \in {"queued", "mixed"}
       THEN /\ track' = Empty
            /\ \/ receiver = "ended" /\ Removed /\ UNCHANGED errors
               \/ /\ track.frames # <<>> /\ errors < MaxErrors
                  /\ errors' = errors + 1
                  /\ Removed
               \/ /\ receiver # "ended"
                  /\ source' = "mixed"
                  /\ PlayFrom(Decoded)
                  /\ UNCHANGED errors
       ELSE playing' = FALSE /\ UNCHANGED <<decoder, track, errors>>
    /\ UNCHANGED <<capturing, out, sender, network, arriving, open>>

\* Either side closes the connection of the call, or the network does.
Close ==
    /\ open
    /\ open' = FALSE
    /\ wire' = <<>>
    /\ UNCHANGED <<capturing, out, sender, gap, losses, arriving, track,
                   decoder, playing, phase, errors>>

Init ==
    /\ captured = 0 /\ sink = TRUE /\ out = Empty /\ sender = TRUE
    /\ wire = <<>> /\ gap = 0 /\ receiver = "waiting" /\ held = <<>>
    /\ track = Empty /\ source = "none" /\ buffered = 0 /\ underflows = 0
    /\ pause = 0 /\ playing = FALSE /\ phase = 0 /\ open = TRUE
    /\ losses = 0 /\ errors = 0

Next ==
    \/ CaptureCallback \/ CaptureTick \/ Transmit \/ Lose \/ Receive
    \/ ReceiverEnds \/ PlaybackTick \/ Close

\* The sound cards keep calling, the loops keep ticking, the tasks run, and
\* the network delivers what it does not lose.
WeakStep(i) ==
    \/ i = 1 /\ CaptureCallback
    \/ i = 2 /\ CaptureTick
    \/ i = 3 /\ Transmit
    \/ i = 4 /\ Receive
    \/ i = 5 /\ ReceiverEnds
    \/ i = 6 /\ PlaybackTick
Fairness == \A i \in 1..6 : WF_voiceVars(WeakStep(i))

Spec == Init /\ [][Next]_voiceVars /\ Fairness

-----------------------------------------------------------------------------
TypeOK ==
    /\ captured \in 0..RingTicks /\ sink \in BOOLEAN
    /\ {out, track} \subseteq MediaTrack
    /\ Len(out.frames) <= TrackCapacity /\ Len(track.frames) <= TrackCapacity
    /\ sender \in BOOLEAN
    /\ wire \in Seq(Nat) /\ Len(wire) <= MaxWire /\ gap \in Nat
    /\ receiver \in {"waiting", "running", "ended"}
    /\ held \in Seq(Nat) /\ Len(held) <= MaxLate + 1
    /\ source \in {"none", "queued", "mixed", "removed"}
    /\ buffered \in 0..MaxBuffered /\ underflows \in 0..MaxUnderflows
    /\ pause \in 0..PauseTicks
    /\ playing \in BOOLEAN /\ phase \in -MaxDrift..MaxDrift
    /\ open \in BOOLEAN /\ losses \in 0..MaxLosses /\ errors \in 0..MaxErrors

\* While the call lasts and the decoder has not refused a packet, the voice
\* is heard again and again: neither the pauses the decoder makes nor what it
\* skips nor what the network loses silences it for good.
IsHeard == playing \/ source = "removed" \/ ~open
VoiceKeepsComing == []<>IsHeard
=============================================================================
