---------------------------- MODULE ShareStreams ----------------------------
(***************************************************************************)
(* A shared screen on its way to one viewer.  The sharer's worker owns the *)
(* capture pipeline and one send task; the pipeline's encoder broadcasts   *)
(* pictures, the task writes them on a QUIC stream of the call.  The       *)
(* viewer's task reads them, feeds a decoder thread and writes pause and   *)
(* resume back on the stream's other half; the window keeps the newest     *)
(* picture of the newest stream.                                           *)
(*                                                                         *)
(* A picture is a number, counted modulo Wrap, and whether it is a         *)
(* keyframe: a picture that is none can only be decoded right after the    *)
(* one before it.                                                          *)
(***************************************************************************)
EXTENDS Naturals, Sequences, FiniteSets

CONSTANTS
    Wrap,          \* the numbers of pictures repeat after so many
    QueueCap,      \* pictures the broadcast keeps for a slow task
    WireCap,       \* bound: items in flight on the streams
    PacketCap,     \* packets the decoder may be behind
    MaxStreams,    \* bound: streams opened
    MaxPipelines,  \* bound: capture pipelines started
    MaxChoices,    \* bound: clicks of the viewer and of the sharer
    MaxFaults      \* bound: slow sends, errors and failures

ShareStreamsAssumption ==
    /\ {QueueCap, WireCap, PacketCap, MaxStreams, MaxPipelines, MaxChoices,
        MaxFaults} \subseteq Nat
    /\ Wrap \in Nat \ {0, 1} /\ PacketCap > 0

VARIABLES
    worker,     \* the sharer's worker: sharing, pipeline, failures queued
    encoder,    \* the encode loop: alive, next number, force a keyframe
    sender,     \* the send task
    wire,       \* what the viewer has still to read, stream after stream
    controls,   \* pause and resume on their way back
    receiver,   \* the viewer's receive task
    orders,     \* what the window has asked of the receive task
    decoder,    \* packets waiting for the decode thread and its reference
    window,     \* what the viewer's window remembers of the streams
    missed,     \* a picture was decoded without its reference
    choices, faults

shareVars == <<worker, encoder, sender, wire, controls, receiver, orders,
               decoder, window, missed, choices, faults>>

Number == 0..(Wrap - 1)
Picture == [n : Number, key : BOOLEAN]
Item == [kind : {"open", "eof", "torn"}] \cup
        [kind : {"picture"}, picture : Picture]
Nothing == Wrap
After(n) == (n + 1) % Wrap

SendTask == [task : BOOLEAN, subscribed : BOOLEAN, waiting : BOOLEAN,
             queue : Seq(Picture), lagged : BOOLEAN, stream : 0..MaxStreams]
Receiver == [generation : 0..MaxStreams, reading : BOOLEAN, watching : BOOLEAN,
             waiting : BOOLEAN, half : BOOLEAN, torn : BOOLEAN,
             gaveUp : 0..MaxStreams]
Encoder == [alive : BOOLEAN, next : Number, force : BOOLEAN]
Control == [stream : 1..MaxStreams, watching : BOOLEAN]
Packet == [picture : Picture, stream : 1..MaxStreams]

Chosen == choices < MaxChoices /\ choices' = choices + 1
Faulty == faults < MaxFaults /\ faults' = faults + 1

-----------------------------------------------------------------------------
(* The sharer: capture, encoder and worker. *)

NewEncoder == [alive |-> TRUE, next |-> 0, force |-> TRUE]
NoSender(s) == [task |-> FALSE, subscribed |-> FALSE, waiting |-> FALSE,
                queue |-> <<>>, lagged |-> FALSE, stream |-> s]
NewSender(s) == [task |-> TRUE, subscribed |-> TRUE, waiting |-> TRUE,
                 queue |-> <<>>, lagged |-> FALSE, stream |-> s]

\* A task told to finish ends its stream at once, in the middle of a picture
\* if it was writing one.
Finished ==
    IF ~sender.task THEN {wire}
    ELSE {Append(wire, [kind |-> "eof"]),
          Append(Append(wire, [kind |-> "torn"]), [kind |-> "eof"])}

\* The first frame of the target must come within the startup time.
StartsCapture(ok) ==
    /\ worker.pipeline < MaxPipelines
    /\ worker' = [worker EXCEPT !.sharing = ok, !.pipeline = @ + 1]
    /\ encoder' = IF ok THEN NewEncoder ELSE [encoder EXCEPT !.alive = FALSE]

\* The share button: the pipeline first, then a new task for every call.
ToggleSharingOn ==
    /\ ~worker.sharing /\ Chosen /\ sender.stream < MaxStreams
    /\ \/ /\ StartsCapture(TRUE)
          /\ wire' = Append(wire, [kind |-> "open"])
          /\ sender' = NewSender(sender.stream + 1)
          /\ UNCHANGED faults
       \/ /\ Faulty /\ StartsCapture(FALSE)
          /\ UNCHANGED <<wire, sender>>
    /\ UNCHANGED <<controls, receiver, orders, decoder, window, missed>>

\* Ending the share: every task finishes, then the pipeline is joined.
StopsSharing ==
    /\ wire' \in Finished
    /\ sender' = NoSender(sender.stream)
    /\ encoder' = [encoder EXCEPT !.alive = FALSE]

ToggleSharingOff ==
    /\ worker.sharing /\ Chosen
    /\ worker' = [worker EXCEPT !.sharing = FALSE]
    /\ StopsSharing
    /\ UNCHANGED <<controls, receiver, orders, decoder, window, missed,
                   faults>>

\* New video settings restart the pipeline under the tasks that run.
SetVideoConfig ==
    /\ worker.sharing /\ Chosen
    /\ \/ /\ StartsCapture(TRUE)
          /\ UNCHANGED <<sender, wire, faults>>
       \/ /\ Faulty /\ StartsCapture(FALSE)
          /\ wire' \in Finished
          /\ sender' = NoSender(sender.stream)
    /\ UNCHANGED <<controls, receiver, orders, decoder, window, missed>>

\* The target is closed, or capturing or encoding fails for good.
PipelineFails ==
    /\ encoder.alive /\ Faulty
    /\ encoder' = [encoder EXCEPT !.alive = FALSE]
    /\ worker' = [worker EXCEPT !.failures = Append(@, worker.pipeline)]
    /\ UNCHANGED <<sender, wire, controls, receiver, orders, decoder, window,
                   missed, choices>>

\* The message of a failed pipeline says nothing of which pipeline it was.
HandleCaptureFailure ==
    /\ worker.failures # <<>>
    /\ IF worker.sharing
       THEN /\ worker' = [worker EXCEPT !.failures = Tail(@), !.sharing = FALSE]
            /\ StopsSharing
       ELSE /\ worker' = [worker EXCEPT !.failures = Tail(@)]
            /\ UNCHANGED <<sender, wire, encoder>>
    /\ UNCHANGED <<controls, receiver, orders, decoder, window, missed,
                   choices, faults>>

\* The encode loop works only while a task listens.  It answers a request
\* with a keyframe, and makes one of its own accord now and then.  A task
\* that is behind, because it is paused or the network is slow, loses the
\* oldest pictures.
EncodePicture ==
    /\ encoder.alive /\ sender.task
    /\ \E key \in BOOLEAN :
         LET picture == [n |-> encoder.next, key |-> key]
             all == Append(sender.queue, picture)
         IN  /\ encoder.force => key
             /\ \/ /\ Len(all) <= QueueCap
                   /\ sender' = [sender EXCEPT !.queue = all]
                   /\ UNCHANGED faults
                \/ /\ Len(all) > QueueCap
                   /\ IF sender.subscribed THEN Faulty ELSE UNCHANGED faults
                   /\ sender' = [sender EXCEPT !.queue = Tail(all),
                                               !.lagged = TRUE]
    /\ encoder' = [encoder EXCEPT !.next = After(@), !.force = FALSE]
    /\ UNCHANGED <<worker, wire, controls, receiver, orders, decoder, window,
                   missed, choices>>

-----------------------------------------------------------------------------
(* The send task. *)

\* The gate left open.
GoesOn(task) == task

RequireKeyframe(task) == [task EXCEPT !.waiting = TRUE]
RequestKeyframe == encoder' = [encoder EXCEPT !.force = TRUE]

\* Pause and resume of the viewer, read from the stream's other half.
TakeControl ==
    /\ sender.task /\ controls # <<>> /\ controls' = Tail(controls)
    /\ LET control == Head(controls)
       IN  IF control.stream # sender.stream
              \/ control.watching = sender.subscribed
           THEN UNCHANGED <<sender, encoder>>
           ELSE IF control.watching
           THEN /\ sender' = RequireKeyframe([sender EXCEPT !.subscribed = TRUE])
                /\ RequestKeyframe
           ELSE /\ sender' = [sender EXCEPT !.subscribed = FALSE]
                /\ UNCHANGED encoder
    /\ UNCHANGED <<worker, wire, receiver, orders, decoder, window, missed, choices, faults>>

\* Pictures were lost in the broadcast: go on at the next keyframe.
RecoverFromLag ==
    /\ sender.task /\ sender.subscribed /\ sender.lagged
    /\ sender' = RequireKeyframe([sender EXCEPT !.lagged = FALSE])
    /\ RequestKeyframe
    /\ UNCHANGED <<worker, wire, controls, receiver, orders, decoder, window,
                   missed, choices, faults>>

Accepted(task, picture) == task.waiting => picture.key

\* A picture the gate lets through is written; one that took longer than
\* the budget makes the task skip to the next keyframe.
SendPicture ==
    /\ sender.task /\ sender.subscribed /\ ~sender.lagged
    /\ sender.queue # <<>>
    /\ LET picture == Head(sender.queue)
           rest == [sender EXCEPT !.queue = Tail(@)]
       IN  IF ~Accepted(sender, picture)
           THEN sender' = rest /\ UNCHANGED <<wire, encoder, faults>>
           ELSE /\ Len(wire) < WireCap
                /\ wire' = Append(wire, [kind |-> "picture", picture |-> picture])
                /\ \/ /\ sender' = [rest EXCEPT !.waiting = FALSE]
                      /\ UNCHANGED <<encoder, faults>>
                   \/ /\ Faulty
                      /\ sender' = RequireKeyframe(rest)
                      /\ RequestKeyframe
    /\ UNCHANGED <<worker, controls, receiver, orders, decoder, window, missed, choices>>

\* The viewer has given up the stream: the next write fails and the task
\* ends; nothing starts another before the next share.
SendFails ==
    /\ sender.task /\ sender.subscribed /\ sender.queue # <<>>
    /\ receiver.gaveUp = sender.stream
    /\ sender' = NoSender(sender.stream)
    /\ wire' = Append(wire, [kind |-> "eof"])
    /\ UNCHANGED <<worker, encoder, controls, receiver, orders, decoder,
                   window, missed, choices, faults>>

-----------------------------------------------------------------------------
(* The viewer: receive task, decode thread and window. *)

Reading == receiver.reading
NextItem(kind) == wire # <<>> /\ Head(wire).kind = kind /\ wire' = Tail(wire)

\* The window takes an accepted stream unless it knows a newer one; a click
\* on "stop watching" is about the stream it was made for.
WindowAccepts(g) ==
    window' = IF g < window.stream THEN window
              ELSE [window EXCEPT !.stream = g, !.ended = 0,
                    !.stopped = IF @ < g THEN 0 ELSE @]

AcceptStream ==
    /\ ~Reading /\ NextItem("open")
    /\ LET g == receiver.generation + 1
       IN  /\ receiver' = [receiver EXCEPT !.generation = g, !.reading = TRUE,
                  !.watching = TRUE, !.waiting = FALSE, !.half = FALSE,
                  !.torn = FALSE]
           /\ WindowAccepts(g)
    /\ UNCHANGED <<worker, encoder, sender, controls, orders, decoder, missed, choices, faults>>

\* What is left of a stream nobody reads is thrown away.
DiscardRest ==
    /\ ~Reading /\ wire # <<>> /\ Head(wire).kind # "open"
    /\ wire' = Tail(wire)
    /\ UNCHANGED <<worker, encoder, sender, controls, receiver, orders, decoder,
                   window, missed, choices, faults>>

\* A picture comes in pieces; the first have been read.
ReadPart ==
    /\ Reading /\ ~receiver.half /\ wire # <<>>
    /\ Head(wire).kind = "picture"
    /\ receiver' = [receiver EXCEPT !.half = TRUE]
    /\ UNCHANGED <<worker, encoder, sender, wire, controls, orders, decoder,
                   window, missed, choices, faults>>

IsPaused == ~receiver.watching
IsSkipped(picture) == receiver.waiting /\ ~picture.key

\* The decode thread takes packets from a bounded channel of its own.
SubmitPacket(picture) ==
    /\ Len(decoder.packets) < PacketCap
    /\ decoder' = [decoder EXCEPT !.packets =
           Append(@, [picture |-> picture, stream |-> receiver.generation])]

\* The picture is complete: while paused, or until the keyframe after a
\* pause, it is dropped; else it waits for the decode thread to take it.
ReadPicture ==
    /\ Reading /\ receiver.half /\ ~receiver.torn /\ NextItem("picture")
    /\ LET picture == Head(wire).picture
       IN  IF IsPaused \/ IsSkipped(picture)
           THEN /\ receiver' = [receiver EXCEPT !.half = FALSE]
                /\ UNCHANGED decoder
           ELSE /\ SubmitPacket(picture)
                /\ receiver' = [receiver EXCEPT !.half = FALSE,
                                                !.waiting = FALSE]
    /\ UNCHANGED <<worker, encoder, sender, controls, orders, window, missed, choices, faults>>

\* An order for this stream that changes something is written back.  It
\* abandons the picture being read, and the parts of it already taken.
TakeOrder ==
    /\ Reading /\ orders # <<>> /\ orders' = Tail(orders)
    /\ LET order == Head(orders)
       IN  IF \/ order.stream # receiver.generation
              \/ order.watching = receiver.watching
           THEN /\ receiver' = [receiver EXCEPT !.torn = @ \/ receiver.half]
                /\ UNCHANGED controls
           ELSE /\ receiver' = [receiver EXCEPT
                       !.watching = order.watching,
                       !.waiting = order.watching,
                       !.torn = @ \/ receiver.half]
                /\ controls' = Append(controls, order)
    /\ UNCHANGED <<worker, encoder, sender, wire, decoder, window, missed,
                   choices, faults>>

\* The window clears the picture of the stream it still shows.
WindowEnds(g) ==
    window' = IF g # window.stream THEN window
              ELSE [window EXCEPT !.ended = g, !.picture = 0,
                    !.stopped = IF @ = g THEN 0 ELSE @]

Ends(failed) ==
    /\ receiver' = [receiver EXCEPT !.reading = FALSE, !.half = FALSE,
           !.torn = FALSE,
           !.gaveUp = IF failed THEN receiver.generation ELSE @]
    /\ WindowEnds(receiver.generation)

StreamFinished ==
    /\ Reading /\ ~receiver.half /\ NextItem("eof")
    /\ Ends(FALSE)
    /\ UNCHANGED <<worker, encoder, sender, controls, orders, decoder, missed,
                   choices, faults>>

\* Bytes that are no picture, or the end in the middle of one.
StreamFailed ==
    /\ Reading
    /\ \/ receiver.torn /\ wire # <<>> /\ UNCHANGED wire
       \/ NextItem("torn")
    /\ Ends(TRUE)
    /\ UNCHANGED <<worker, encoder, sender, controls, orders, decoder, missed,
                   choices, faults>>

\* The picture of an ended, stopped or older stream is not shown.
IsStale(g) == g < window.stream \/ g <= window.ended \/ g <= window.stopped

DecodePacket ==
    /\ decoder.packets # <<>>
    /\ LET packet == Head(decoder.packets)
           picture == packet.picture
       IN  /\ decoder' = [packets |-> Tail(decoder.packets), last |-> picture.n]
           /\ missed' = (missed \/ (~picture.key /\
                  (decoder.last = Nothing \/ picture.n # After(decoder.last))))
           /\ window' = IF IsStale(packet.stream) THEN window
                        ELSE [window EXCEPT !.stream = packet.stream,
                                            !.picture = packet.stream]
    /\ UNCHANGED <<worker, encoder, sender, wire, controls, receiver, orders, choices, faults>>

\* Command::SetWatching: the worker passes the order on to the receive task.
SetWatching(g, watching) ==
    orders' = Append(orders, [stream |-> g, watching |-> watching])

\* Stop watching, from the picture or because the window is hidden.
StopWatching ==
    /\ window.stream # 0 /\ window.stopped = 0 /\ Chosen
    /\ window' = [window EXCEPT !.stopped = window.stream, !.picture = 0]
    /\ SetWatching(window.stream, FALSE)
    /\ UNCHANGED <<worker, encoder, sender, wire, controls, receiver, decoder,
                   missed, faults>>

ResumeWatching ==
    /\ window.stopped # 0
    /\ window' = [window EXCEPT !.stopped = 0]
    /\ SetWatching(window.stopped, TRUE)
    /\ UNCHANGED <<worker, encoder, sender, wire, controls, receiver, decoder,
                   missed, choices, faults>>

-----------------------------------------------------------------------------
Init ==
    /\ worker = [sharing |-> FALSE, pipeline |-> 0, failures |-> <<>>]
    /\ encoder = [NewEncoder EXCEPT !.alive = FALSE, !.force = FALSE]
    /\ sender = NoSender(0)
    /\ wire = <<>> /\ controls = <<>> /\ orders = <<>>
    /\ receiver = [generation |-> 0, reading |-> FALSE, watching |-> TRUE,
                   waiting |-> FALSE, half |-> FALSE, torn |-> FALSE,
                   gaveUp |-> 0]
    /\ decoder = [packets |-> <<>>, last |-> Nothing]
    /\ window = [stream |-> 0, stopped |-> 0, ended |-> 0, picture |-> 0]
    /\ missed = FALSE
    /\ choices = 0 /\ faults = 0

Next ==
    \/ ToggleSharingOn \/ ToggleSharingOff \/ SetVideoConfig
    \/ PipelineFails \/ HandleCaptureFailure \/ EncodePicture
    \/ TakeControl \/ RecoverFromLag \/ SendPicture \/ SendFails
    \/ AcceptStream \/ DiscardRest \/ ReadPart \/ ReadPicture \/ TakeOrder
    \/ StreamFinished \/ StreamFailed
    \/ DecodePacket \/ StopWatching \/ ResumeWatching

Fairness ==
    /\ WF_shareVars(EncodePicture) /\ WF_shareVars(TakeControl)
    /\ WF_shareVars(RecoverFromLag) /\ WF_shareVars(SendPicture)
    /\ WF_shareVars(AcceptStream) /\ WF_shareVars(DiscardRest)
    /\ WF_shareVars(ReadPart) /\ WF_shareVars(ReadPicture)
    /\ WF_shareVars(TakeOrder) /\ WF_shareVars(StreamFinished)
    /\ WF_shareVars(StreamFailed) /\ WF_shareVars(DecodePacket)
    /\ WF_shareVars(HandleCaptureFailure)

Spec == Init /\ [][Next]_shareVars /\ Fairness

-----------------------------------------------------------------------------
TypeOK ==
    /\ worker \in [sharing : BOOLEAN, pipeline : 0..MaxPipelines,
                   failures : Seq(1..MaxPipelines)]
    /\ encoder \in Encoder /\ sender \in SendTask /\ receiver \in Receiver
    /\ wire \in Seq(Item)
    /\ controls \in Seq(Control) /\ orders \in Seq(Control)
    /\ decoder \in [packets : Seq(Packet),
                    last : Number \cup {Nothing}]
    /\ window \in [stream : 0..MaxStreams, stopped : 0..MaxStreams,
                   ended : 0..MaxStreams, picture : 0..MaxStreams]
    /\ missed \in BOOLEAN
    /\ choices \in 0..MaxChoices /\ faults \in 0..MaxFaults

\* The decoder is never handed a picture whose reference it has not seen,
\* whatever lag, congestion, pause, replacement or new settings skipped.
ReferenceIsThere == ~missed

\* A viewer who watches a share that goes on without a failure has, again and
\* again, its picture on the screen.  The code does not keep this: see the
\* findings in README.md.
IsShown == window.picture # 0
IsWanted == /\ worker.sharing /\ encoder.alive /\ faults = 0
            /\ window.stopped = 0
WatchedIsShown == <>[]IsWanted => []<>IsShown
=============================================================================
