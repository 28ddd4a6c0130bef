------------------------- MODULE ShareStreams_proofs -------------------------
(***************************************************************************)
(* Proofs about ShareStreams, for any capacities and bounds.  No picture is  *)
(* decoded without its reference, because on its whole way, from the        *)
(* encoder through the queue of the send task, the stream and the packets    *)
(* of the decoder, a picture that is no keyframe comes right behind the     *)
(* picture it refers to, or is bound to be skipped.                        *)
(***************************************************************************)
EXTENDS ShareStreams, TLAPS

\* The picture that is decoded last, of those the decoder has been handed.
LastIn ==
  IF decoder.packets = <<>> THEN decoder.last
  ELSE decoder.packets[Len(decoder.packets)].picture.n

Refers(n, m) == m # Nothing /\ n = After(m)

\* The next picture that is read goes to the decoder.
Takes == Reading /\ receiver.watching /\ ~receiver.waiting

PacketsFollow ==
  \A i \in 1..Len(decoder.packets) :
    \/ decoder.packets[i].picture.key
    \/ Refers(decoder.packets[i].picture.n,
              IF i = 1 THEN decoder.last ELSE decoder.packets[i - 1].picture.n)

\* What is on its way.  A stream begins with a keyframe.
WireFollows ==
  \A i \in 1..Len(wire) :
    wire[i].kind = "picture" /\ ~wire[i].picture.key =>
      IF i = 1 THEN Takes => Refers(wire[i].picture.n, LastIn)
      ELSE wire[i - 1].kind = "picture"
           /\ wire[i].picture.n = After(wire[i - 1].picture.n)

\* Picture n can be decoded behind everything that has been written.
Follows(n) ==
  IF wire = <<>> THEN Takes => Refers(n, LastIn)
  ELSE /\ wire[Len(wire)].kind = "picture"
       /\ n = After(wire[Len(wire)].picture.n)

QueueFollows ==
  \A i \in 2..Len(sender.queue) :
    sender.queue[i].key \/ sender.queue[i].n = After(sender.queue[i - 1].n)

\* The gate of the send task: past a lost picture it waits for a keyframe.
Open == sender.task /\ ~sender.waiting /\ ~sender.lagged

HeadFollows ==
  Open /\ sender.queue # <<>> => sender.queue[1].key \/ Follows(sender.queue[1].n)

\* The encoder makes a keyframe unless its next picture follows.
NextFollows ==
  sender.task /\ encoder.alive /\ ~encoder.force =>
    IF sender.queue # <<>>
    THEN encoder.next = After(sender.queue[Len(sender.queue)].n)
    ELSE Open => Follows(encoder.next)

\* The generations of the receive tasks count the streams: b is the number of
\* the last stream opened on w, of which a have been accepted before.
Opening(x) == IF x.kind = "open" THEN 1 ELSE 0
Streams(w, a, b) ==
  \E f \in [0..Len(w) -> 0..MaxStreams] :
    /\ f[0] = a /\ f[Len(w)] = b
    /\ \A i \in 1..Len(w) : f[i] = f[i - 1] + Opening(w[i])
Generations == Streams(wire, receiver.generation, sender.stream)

Started ==
  /\ Reading => receiver.generation # 0
  /\ encoder.alive => worker.pipeline # 0

Inv ==
  /\ ShareStreamsAssumption
  /\ TypeOK
  /\ Started /\ Generations
  /\ PacketsFollow
  /\ WireFollows
  /\ QueueFollows
  /\ HeadFollows
  /\ NextFollows
  /\ ~missed
-----------------------------------------------------------------------------
(***************************************************************************)
(* Sequences, numbers and items.                                           *)
(***************************************************************************)
LEMMA AppendedFacts ==
  ASSUME NEW S, NEW s \in Seq(S), NEW x \in S
  PROVE  /\ Append(s, x) \in Seq(S) /\ Len(Append(s, x)) = Len(s) + 1 /\ Append(s, x) # <<>>
         /\ \A j \in 1..Len(s) : Append(s, x)[j] = s[j]
         /\ Append(s, x)[Len(s) + 1] = x
         /\ Len(s) \in Nat /\ (s = <<>> <=> Len(s) = 0)
<1>1. /\ Append(s, x) \in Seq(S) /\ Len(Append(s, x)) = Len(s) + 1
      /\ \A j \in 1..Len(s) : Append(s, x)[j] = s[j]
      /\ Append(s, x)[Len(s) + 1] = x
      /\ Len(s) \in Nat /\ (s = <<>> <=> Len(s) = 0)
  OBVIOUS
<1>2. Len(Append(s, x)) # 0
  BY <1>1
<1>3. QED
  BY <1>1, <1>2

LEMMA Elements ==
  ASSUME NEW S, NEW s \in Seq(S)
  PROVE  Len(s) \in Nat /\ (s = <<>> <=> Len(s) = 0) /\ \A j \in 1..Len(s) : s[j] \in S
OBVIOUS

LEMMA TailFacts ==
  ASSUME NEW S, NEW s \in Seq(S), s # <<>>
  PROVE  /\ Tail(s) \in Seq(S) /\ Len(Tail(s)) = Len(s) - 1 /\ Head(s) = s[1] /\ Head(s) \in S
         /\ Len(s) \in Nat /\ Len(s) >= 1
         /\ (Tail(s) = <<>> <=> Len(s) = 1)
         /\ \A j \in 1..(Len(s) - 1) : Tail(s)[j] = s[j + 1]
<1>1. /\ Tail(s) \in Seq(S) /\ Len(Tail(s)) = Len(s) - 1 /\ Head(s) = s[1] /\ Head(s) \in S
      /\ Len(s) \in Nat /\ Len(s) >= 1
      /\ \A j \in 1..(Len(s) - 1) : Tail(s)[j] = s[j + 1]
  OBVIOUS
<1>2. Tail(s) = <<>> <=> Len(Tail(s)) = 0
  <2>1. \A u \in Seq(S) : u = <<>> <=> Len(u) = 0
    BY Elements
  <2>2. QED
    BY <1>1, <2>1, Zenon
<1>3. QED
  BY <1>1, <1>2

LEMMA Numbers ==
  ASSUME ShareStreamsAssumption
  PROVE  /\ 0 \in Number /\ Nothing \notin Number
         /\ \A n \in Number : After(n) \in Number
BY DEF ShareStreamsAssumption, Number, Nothing, After

LEMMA Items ==
  ASSUME ShareStreamsAssumption
  PROVE  /\ \A x \in Item : x.kind = "picture" => x.picture \in Picture
         /\ \A k \in {"open", "eof", "torn"} : [kind |-> k] \in Item /\ [kind |-> k].kind = k
         /\ \A p \in Picture : [kind |-> "picture", picture |-> p] \in Item
         /\ \A p \in Picture : p.n \in Number /\ p.key \in BOOLEAN
BY DEF Item, Picture
-----------------------------------------------------------------------------
(***************************************************************************)
(* The wire.                                                               *)
(***************************************************************************)
\* An item is written: a picture that is no keyframe must follow.
LEMMA Written ==
  ASSUME ShareStreamsAssumption, wire \in Seq(Item), WireFollows, NEW x \in Item,
         wire' = Append(wire, x), UNCHANGED <<receiver, decoder>>,
         x.kind = "picture" /\ ~x.picture.key => Follows(x.picture.n)
  PROVE  /\ WireFollows'
         /\ \A n \in Number : x.kind = "picture" /\ n = After(x.picture.n) => Follows(n)'
<1>1. /\ wire' # <<>> /\ Len(wire') = Len(wire) + 1 /\ wire'[Len(wire) + 1] = x
      /\ \A j \in 1..Len(wire) : wire'[j] = wire[j]
      /\ Len(wire) \in Nat /\ (wire = <<>> <=> Len(wire) = 0)
  BY AppendedFacts
<1>2. Takes' = Takes /\ LastIn' = LastIn
  BY DEF Takes, Reading, LastIn
<1>3. ASSUME NEW i \in 1..Len(wire'), wire'[i].kind = "picture", ~wire'[i].picture.key
      PROVE  IF i = 1 THEN Takes' => Refers(wire'[i].picture.n, LastIn')
             ELSE wire'[i - 1].kind = "picture"
                  /\ wire'[i].picture.n = After(wire'[i - 1].picture.n)
  <2>1. CASE i \in 1..Len(wire)
    <3>1. wire'[i] = wire[i] /\ (i # 1 => i - 1 \in 1..Len(wire) /\ wire'[i - 1] = wire[i - 1])
      BY <1>1, <2>1
    <3>2. QED
      BY <1>2, <1>3, <2>1, <3>1 DEF WireFollows
  <2>2. CASE i = Len(wire) + 1
    <3>1. wire'[i] = x /\ Follows(x.picture.n)
      BY <1>1, <1>3, <2>2
    <3>2. CASE wire = <<>>
      BY <1>1, <1>2, <2>2, <3>1, <3>2 DEF Follows
    <3>3. CASE wire # <<>>
      <4>1. i # 1 /\ i - 1 = Len(wire) /\ wire'[i - 1] = wire[Len(wire)]
        BY <1>1, <2>2, <3>3
      <4>2. QED
        BY <3>1, <3>3, <4>1 DEF Follows
    <3>4. QED
      BY <3>2, <3>3
  <2>3. QED
    BY <1>1, <2>1, <2>2
<1>4. WireFollows'
  BY <1>3 DEF WireFollows, Refers, Nothing, After
<1>5. \A n \in Number : x.kind = "picture" /\ n = After(x.picture.n) => Follows(n)'
  BY <1>1 DEF Follows, After
<1>6. QED
  BY <1>4, <1>5

\* The wire is left alone, and the decoder has been handed nothing.
LEMMA Unread ==
  ASSUME WireFollows, wire' = wire, LastIn' = LastIn, Takes' => Takes
  PROVE  WireFollows' /\ \A n \in Number : Follows(n) => Follows(n)'
<1>1. WireFollows'
  BY DEF WireFollows, Refers, Nothing, After
<1>2. \A n \in Number : Follows(n) => Follows(n)'
  BY DEF Follows, Refers, Nothing, After
<1>3. QED
  BY <1>1, <1>2

\* An item is read: it is dropped for good, begins a stream, or has been handed
\* to the decoder.
LEMMA Read ==
  ASSUME ShareStreamsAssumption, wire \in Seq(Item), WireFollows,
         wire # <<>>, wire' = Tail(wire),
         Takes' => \/ Head(wire).kind = "open"
                   \/ Head(wire).kind = "picture" /\ LastIn' = Head(wire).picture.n
  PROVE  WireFollows' /\ \A n \in Number : Follows(n) => Follows(n)'
<1>1. /\ Len(wire') = Len(wire) - 1 /\ Head(wire) = wire[1] /\ wire[1] \in Item
      /\ Len(wire) \in Nat /\ Len(wire) >= 1 /\ (wire' = <<>> <=> Len(wire) = 1)
      /\ \A j \in 1..(Len(wire) - 1) : wire'[j] = wire[j + 1]
  BY TailFacts
<1>2. wire[1].kind = "picture" => wire[1].picture.n # Nothing
  BY <1>1, Numbers, Items
<1>3. ASSUME NEW i \in 1..Len(wire'), wire'[i].kind = "picture", ~wire'[i].picture.key
      PROVE  IF i = 1 THEN Takes' => Refers(wire'[i].picture.n, LastIn')
             ELSE wire'[i - 1].kind = "picture"
                  /\ wire'[i].picture.n = After(wire'[i - 1].picture.n)
  <2>1. i + 1 \in 1..Len(wire) /\ i + 1 # 1 /\ wire'[i] = wire[i + 1] /\ (i + 1) - 1 = i
    BY <1>1
  <2>2. wire[i].kind = "picture" /\ wire[i + 1].picture.n = After(wire[i].picture.n)
    BY <1>3, <2>1 DEF WireFollows
  <2>3. CASE i = 1
    BY <1>1, <1>2, <2>1, <2>2, <2>3 DEF Refers
  <2>4. CASE i # 1
    <3>1. i - 1 \in 1..(Len(wire) - 1) /\ (i - 1) + 1 = i
      BY <1>1, <2>4
    <3>2. wire'[i - 1] = wire[i]
      BY <1>1, <3>1
    <3>3. QED
      BY <2>1, <2>2, <2>4, <3>2
  <2>5. QED
    BY <2>3, <2>4
<1>4. WireFollows'
  BY <1>3 DEF WireFollows, Refers, Nothing, After
<1>5. ASSUME NEW n \in Number, Follows(n) PROVE Follows(n)'
  <2>1. wire[Len(wire)].kind = "picture" /\ n = After(wire[Len(wire)].picture.n)
    BY <1>5 DEF Follows
  <2>2. CASE Len(wire) = 1
    <3>1. wire' = <<>> /\ (Takes' => LastIn' = wire[1].picture.n)
      BY <1>1, <2>1, <2>2
    <3>2. Takes' => Refers(n, LastIn')
      BY <1>2, <2>1, <2>2, <3>1 DEF Refers
    <3>3. QED
      BY <3>1, <3>2 DEF Follows, Refers, Nothing, After
  <2>3. CASE Len(wire) # 1
    <3>1. Len(wire) - 1 \in 1..(Len(wire) - 1) /\ (Len(wire) - 1) + 1 = Len(wire)
      BY <1>1, <2>3
    <3>2. wire' # <<>> /\ wire'[Len(wire')] = wire[Len(wire)]
      BY <1>1, <2>3, <3>1
    <3>3. QED
      BY <2>1, <3>2 DEF Follows, After
  <2>4. QED
    BY <2>2, <2>3
<1>6. QED
  BY <1>4, <1>5

\* Where the sender and the encoder do nothing, what followed follows still.
LEMMA SenderRests ==
  ASSUME ShareStreamsAssumption, sender \in SendTask, encoder \in Encoder,
         QueueFollows, HeadFollows, NextFollows, UNCHANGED <<sender, encoder>>,
         \A n \in Number : Follows(n) => Follows(n)'
  PROVE  QueueFollows' /\ HeadFollows' /\ NextFollows'
<1>1. QueueFollows'
  BY DEF QueueFollows, After
<1>2. HeadFollows'
  <2>1. SUFFICES ASSUME Open, sender.queue # <<>>, ~sender.queue[1].key
                 PROVE  Follows(sender.queue[1].n)'
    BY DEF HeadFollows, Open
  <2>2. sender.queue[1].n \in Number
    <3>1. sender.queue \in Seq(Picture)
      BY DEF SendTask
    <3>2. sender.queue[1] \in Picture
      BY <2>1, <3>1
    <3>3. QED
      BY <3>2, Items
  <2>3. Follows(sender.queue[1].n)
    BY <2>1 DEF HeadFollows
  <2>4. QED
    BY <2>2, <2>3
<1>3. NextFollows'
  <2>1. encoder.next \in Number
    BY DEF Encoder
  <2>2. QED
    BY <2>1 DEF NextFollows, Open, After
<1>4. QED
  BY <1>1, <1>2, <1>3
-----------------------------------------------------------------------------
(***************************************************************************)
(* The steps of the sharer.                                                *)
(***************************************************************************)
Chain == PacketsFollow /\ WireFollows /\ QueueFollows /\ HeadFollows /\ NextFollows /\ ~missed

\* Nothing is sent any more, whatever is written about it.
LEMMA SenderGone ==
  ASSUME ~sender'.task, sender'.queue = <<>>
  PROVE  QueueFollows' /\ HeadFollows' /\ NextFollows'
<1>1. Len(<<>>) = 0
  OBVIOUS
<1>2. QueueFollows'
  BY <1>1 DEF QueueFollows
<1>3. QED
  BY <1>2 DEF HeadFollows, NextFollows, Open

\* The viewer's part of the chain is left alone.
LEMMA DecoderRests ==
  ASSUME PacketsFollow, ~missed, UNCHANGED <<decoder, missed>>
  PROVE  PacketsFollow' /\ ~missed'
BY DEF PacketsFollow, Refers, After, Nothing

\* Items that are no pictures.
LEMMA EndWritten ==
  ASSUME Inv, UNCHANGED <<receiver, decoder>>,
         \/ wire' = wire
         \/ \E k \in {"open", "eof", "torn"} : wire' = Append(wire, [kind |-> k])
         \/ wire' = Append(Append(wire, [kind |-> "torn"]), [kind |-> "eof"])
  PROVE  WireFollows' /\ wire' \in Seq(Item)
<1>1. /\ ShareStreamsAssumption /\ wire \in Seq(Item) /\ WireFollows
      /\ \A k \in {"open", "eof", "torn"} : [kind |-> k] \in Item /\ [kind |-> k].kind = k
  BY Items DEF Inv, TypeOK
<1>2. Takes' = Takes /\ LastIn' = LastIn
  BY DEF Takes, Reading, LastIn
<1>3. CASE wire' = wire
  BY <1>1, <1>2, <1>3, Unread
<1>4. ASSUME NEW w \in Seq(Item), NEW k \in {"open", "eof", "torn"}
      PROVE  LET x == [kind |-> k] IN
             /\ Append(w, x) \in Seq(Item) /\ Len(Append(w, x)) = Len(w) + 1
             /\ Len(w) \in Nat
             /\ \A j \in 1..Len(w) : Append(w, x)[j] = w[j]
             /\ Append(w, x)[Len(w) + 1].kind = k
  BY <1>1, AppendedFacts
<1>5. ASSUME NEW n \in Nat, n >= Len(wire), Len(wire') = n, wire' \in Seq(Item),
             \A j \in 1..Len(wire) : wire'[j] = wire[j],
             \A j \in (Len(wire) + 1)..n : wire'[j].kind # "picture"
      PROVE  WireFollows'
  <2>1. Len(wire) \in Nat
    BY <1>1, Elements
  <2>2. ASSUME NEW i \in 1..n, wire'[i].kind = "picture", ~wire'[i].picture.key
        PROVE  IF i = 1 THEN Takes' => Refers(wire'[i].picture.n, LastIn')
               ELSE wire'[i - 1].kind = "picture"
                    /\ wire'[i].picture.n = After(wire'[i - 1].picture.n)
    <3>1. i \in 1..Len(wire)
      BY <1>5, <2>1, <2>2
    <3>2. wire'[i] = wire[i] /\ (i # 1 => i - 1 \in 1..Len(wire) /\ wire'[i - 1] = wire[i - 1])
      BY <1>5, <2>1, <3>1
    <3>3. QED
      BY <1>1, <1>2, <2>2, <3>1, <3>2 DEF WireFollows
  <2>3. QED
    BY <1>5, <2>2 DEF WireFollows, Refers, Nothing, After
<1>6. ASSUME NEW k \in {"open", "eof", "torn"}, wire' = Append(wire, [kind |-> k])
      PROVE  WireFollows' /\ wire' \in Seq(Item)
  <2>1. /\ wire' \in Seq(Item) /\ Len(wire') = Len(wire) + 1 /\ Len(wire) \in Nat
        /\ \A j \in 1..Len(wire) : wire'[j] = wire[j]
        /\ wire'[Len(wire) + 1].kind = k
    BY <1>1, <1>4, <1>6
  <2>2. \A j \in (Len(wire) + 1)..(Len(wire) + 1) : wire'[j].kind # "picture"
    BY <2>1
  <2>3. Len(wire) + 1 \in Nat /\ Len(wire) + 1 >= Len(wire)
    BY <2>1
  <2>4. QED
    BY <1>5, <2>1, <2>2, <2>3
<1>7. ASSUME wire' = Append(Append(wire, [kind |-> "torn"]), [kind |-> "eof"])
      PROVE  WireFollows' /\ wire' \in Seq(Item)
  <2> DEFINE w == Append(wire, [kind |-> "torn"])
  <2>1. /\ w \in Seq(Item) /\ Len(w) = Len(wire) + 1 /\ Len(wire) \in Nat
        /\ \A j \in 1..Len(wire) : w[j] = wire[j]
        /\ w[Len(wire) + 1].kind = "torn"
    BY <1>1, <1>4
  <2> HIDE DEF w
  <2>2. wire' = Append(w, [kind |-> "eof"])
    BY <1>7 DEF w
  <2>3. /\ wire' \in Seq(Item) /\ Len(wire') = Len(w) + 1
        /\ \A j \in 1..Len(w) : wire'[j] = w[j]
        /\ wire'[Len(w) + 1].kind = "eof"
    BY <1>4, <2>1, <2>2
  <2>4. /\ \A j \in 1..Len(wire) : wire'[j] = wire[j]
        /\ Len(wire') = Len(wire) + 2
        /\ wire'[Len(wire) + 1].kind = "torn" /\ wire'[Len(wire) + 2].kind = "eof"
    BY <2>1, <2>3
  <2>5. \A j \in (Len(wire) + 1)..(Len(wire) + 2) : wire'[j].kind # "picture"
    BY <2>1, <2>4
  <2>6. Len(wire) + 2 \in Nat /\ Len(wire) + 2 >= Len(wire)
    BY <2>1
  <2>7. QED
    BY <1>5, <2>3, <2>4, <2>5, <2>6
<1>8. QED
  BY <1>3, <1>6, <1>7

\* Sharing begins, ends, fails or gets another pipeline.
WorkerStep ==
  ToggleSharingOn \/ ToggleSharingOff \/ SetVideoConfig \/ PipelineFails
    \/ HandleCaptureFailure \/ SendFails

LEMMA FinishedWrites ==
  ASSUME wire' \in Finished
  PROVE  \/ wire' = wire
         \/ \E k \in {"open", "eof", "torn"} : wire' = Append(wire, [kind |-> k])
         \/ wire' = Append(Append(wire, [kind |-> "torn"]), [kind |-> "eof"])
BY DEF Finished

LEMMA NoSenders ==
  ASSUME sender \in SendTask
  PROVE  /\ \A s \in 0..MaxStreams : NoSender(s) \in SendTask /\ NewSender(s) \in SendTask
         /\ NoSender(sender.stream) \in SendTask
<1>1. <<>> \in Seq(Picture)
  OBVIOUS
<1>2. \A s \in 0..MaxStreams : NoSender(s) \in SendTask /\ NewSender(s) \in SendTask
  BY <1>1 DEF SendTask, NewSender, NoSender
<1>3. sender.stream \in 0..MaxStreams
  BY DEF SendTask
<1>4. QED
  BY <1>2, <1>3

LEMMA WorkerWrites ==
  ASSUME Inv, WorkerStep
  PROVE  /\ WireFollows' /\ wire' \in Seq(Item)
         /\ sender' \in SendTask
         /\ QueueFollows' /\ HeadFollows' /\ NextFollows'
         /\ UNCHANGED <<controls, receiver, orders, decoder, window, missed>>
<1>1. /\ ShareStreamsAssumption /\ wire \in Seq(Item) /\ sender \in SendTask
      /\ sender.stream \in 0..MaxStreams /\ MaxStreams \in Nat /\ encoder \in Encoder
  BY DEF Inv, TypeOK, SendTask, ShareStreamsAssumption
<1>2. UNCHANGED <<controls, receiver, orders, decoder, window, missed>>
  BY DEF WorkerStep, ToggleSharingOn, ToggleSharingOff, SetVideoConfig, PipelineFails,
         HandleCaptureFailure, SendFails
<1>3. WireFollows' /\ wire' \in Seq(Item)
  <2>1. \/ wire' = wire
        \/ \E k \in {"open", "eof", "torn"} : wire' = Append(wire, [kind |-> k])
        \/ wire' = Append(Append(wire, [kind |-> "torn"]), [kind |-> "eof"])
    BY FinishedWrites DEF WorkerStep, ToggleSharingOn, ToggleSharingOff, SetVideoConfig,
       PipelineFails, HandleCaptureFailure, SendFails, StopsSharing
  <2>2. QED
    BY <1>2, <2>1, EndWritten
<1>4. CASE sender' = NoSender(sender.stream)
  <2>1. sender' \in SendTask /\ ~sender'.task /\ sender'.queue = <<>>
    BY <1>1, <1>4, NoSenders DEF NoSender
  <2>2. QED
    BY <1>2, <1>3, <2>1, SenderGone
<1>5. CASE sender' = NewSender(sender.stream + 1) /\ sender.stream < MaxStreams
           /\ encoder' = NewEncoder
  <2>1. sender' \in SendTask
    BY <1>1, <1>5, NoSenders
  <2>2. sender'.queue = <<>> /\ sender'.waiting /\ encoder'.force
    BY <1>5 DEF NewSender, NewEncoder
  <2>3. Len(<<>>) = 0
    OBVIOUS
  <2>4. QueueFollows' /\ HeadFollows' /\ NextFollows'
    BY <2>2, <2>3 DEF QueueFollows, HeadFollows, NextFollows, Open
  <2>5. QED
    BY <1>2, <1>3, <2>1, <2>4
<1>6. CASE /\ UNCHANGED <<sender, wire>>
           /\ \/ encoder' = encoder
              \/ encoder' = NewEncoder
              \/ encoder' = [encoder EXCEPT !.alive = FALSE]
  <2>1. Takes' = Takes /\ LastIn' = LastIn
    BY <1>2 DEF Takes, Reading, LastIn
  <2>2. \A n \in Number : Follows(n) => Follows(n)'
    BY <1>6, <2>1, Unread DEF Inv
  <2>3. QueueFollows' /\ HeadFollows'
    <3>2. QueueFollows'
      BY <1>6 DEF Inv, QueueFollows, After
    <3>3. HeadFollows'
      <4>1. SUFFICES ASSUME Open, sender.queue # <<>>, ~sender.queue[1].key
                     PROVE  Follows(sender.queue[1].n)'
        BY <1>6 DEF HeadFollows, Open
      <4>2. sender.queue \in Seq(Picture)
        BY <1>1 DEF SendTask
      <4>3. sender.queue[1] \in Picture
        BY <4>1, <4>2
      <4>4. sender.queue[1].n \in Number
        BY <1>1, <4>3, Items
      <4>5. Follows(sender.queue[1].n)
        BY <4>1 DEF Inv, HeadFollows
      <4>6. QED
        BY <1>6, <2>2, <4>4, <4>5
    <3>4. QED
      BY <3>2, <3>3
  <2>4. NextFollows'
    <3>1. CASE encoder' = encoder
      BY <1>1, <1>6, <2>2, <3>1, SenderRests DEF Inv
    <3>2. CASE encoder' = NewEncoder
      BY <3>2 DEF NewEncoder, NextFollows
    <3>3. CASE encoder' = [encoder EXCEPT !.alive = FALSE]
      <4>1. ~encoder'.alive
        BY <1>1, <3>3 DEF Encoder
      <4>2. QED
        BY <4>1 DEF NextFollows
    <3>4. QED
      BY <1>6, <3>1, <3>2, <3>3
  <2>5. QED
    BY <1>1, <1>2, <1>3, <1>6, <2>3, <2>4
<1>7. CASE ToggleSharingOn
  BY <1>5, <1>6, <1>7 DEF ToggleSharingOn, StartsCapture
<1>8. CASE ToggleSharingOff
  BY <1>4, <1>8 DEF ToggleSharingOff, StopsSharing
<1>9. CASE SetVideoConfig
  BY <1>4, <1>6, <1>9 DEF SetVideoConfig, StartsCapture
<1>10. CASE PipelineFails
  BY <1>6, <1>10 DEF PipelineFails
<1>11. CASE HandleCaptureFailure
  BY <1>4, <1>6, <1>11 DEF HandleCaptureFailure, StopsSharing
<1>12. CASE SendFails
  BY <1>4, <1>12 DEF SendFails
<1>13. QED
  BY <1>7, <1>8, <1>9, <1>10, <1>11, <1>12 DEF WorkerStep

\* What follows everything that has been written by the end of the step.
NowFollows(n) ==
  IF wire' = <<>> THEN Takes' => Refers(n, LastIn')
  ELSE /\ wire'[Len(wire')].kind = "picture"
       /\ n = After(wire'[Len(wire')].picture.n)

LEMMA Primed ==
  /\ \A n \in Number : Follows(n)' <=> NowFollows(n)
  /\ HeadFollows' <=>
       (Open' /\ sender'.queue # <<>> =>
          sender'.queue[1].key \/ NowFollows(sender'.queue[1].n))
  /\ NextFollows' <=>
       (sender'.task /\ encoder'.alive /\ ~encoder'.force =>
          IF sender'.queue # <<>>
          THEN encoder'.next = After(sender'.queue[Len(sender'.queue)].n)
          ELSE Open' => NowFollows(encoder'.next))
BY DEF NowFollows, Follows, HeadFollows, NextFollows, Refers, After, Nothing

\* Without a write, what follows everything written is the same.
LEMMA NothingWritten ==
  ASSUME Inv, UNCHANGED <<wire, receiver, decoder, missed>>
  PROVE  /\ WireFollows' /\ PacketsFollow' /\ ~missed'
         /\ \A n \in Number : Follows(n) => NowFollows(n)
<1>1. Takes' = Takes /\ LastIn' = LastIn
  BY DEF Takes, Reading, LastIn
<1>2. QED
  BY <1>1, Unread, DecoderRests, Primed DEF Inv

LEMMA EncodeSteps ==
  ASSUME Inv, EncodePicture
  PROVE  Chain' /\ sender' \in SendTask /\ encoder' \in Encoder
<1>1. /\ ShareStreamsAssumption /\ sender \in SendTask /\ encoder \in Encoder
      /\ encoder.next \in Number /\ sender.queue \in Seq(Picture)
      /\ QueueFollows /\ HeadFollows /\ NextFollows /\ encoder.alive /\ sender.task
  BY DEF Inv, TypeOK, Encoder, SendTask, EncodePicture
<1>2. PICK key \in BOOLEAN :
        LET picture == [n |-> encoder.next, key |-> key]
            all == Append(sender.queue, picture)
        IN  /\ encoder.force => key
            /\ \/ /\ Len(all) <= QueueCap
                  /\ sender' = [sender EXCEPT !.queue = all]
               \/ /\ Len(all) > QueueCap
                  /\ sender' = [sender EXCEPT !.queue = Tail(all), !.lagged = TRUE]
  BY DEF EncodePicture
<1> DEFINE picture == [n |-> encoder.next, key |-> key]
           all == Append(sender.queue, picture)
           old == sender.queue
<1>3. picture \in Picture /\ picture.n = encoder.next /\ picture.key = key
  BY <1>1 DEF Picture
<1> HIDE DEF picture
<1>4. /\ all \in Seq(Picture) /\ Len(all) = Len(old) + 1 /\ all # <<>>
      /\ \A j \in 1..Len(old) : all[j] = old[j]
      /\ all[Len(old) + 1] = picture
      /\ Len(old) \in Nat /\ (old = <<>> <=> Len(old) = 0)
  BY <1>1, <1>3, AppendedFacts
<1>5. /\ encoder.force => key
      /\ \/ sender' = [sender EXCEPT !.queue = all]
         \/ sender' = [sender EXCEPT !.queue = Tail(all), !.lagged = TRUE]
  BY <1>2 DEF picture
<1> HIDE DEF all
<1>6. encoder' \in Encoder /\ encoder'.next = After(encoder.next)
  BY <1>1, Numbers DEF EncodePicture, Encoder
<1>7. WireFollows' /\ PacketsFollow' /\ ~missed' /\ \A n \in Number : Follows(n) => NowFollows(n)
  BY NothingWritten DEF EncodePicture
<1>8. \A j \in 2..Len(all) : all[j].key \/ all[j].n = After(all[j - 1].n)
  <2>1. ASSUME NEW j \in 2..Len(all), j \in 1..Len(old)
        PROVE  all[j].key \/ all[j].n = After(all[j - 1].n)
    <3>1. j \in 2..Len(old) /\ j - 1 \in 1..Len(old)
      BY <1>4, <2>1
    <3>2. QED
      BY <1>1, <1>4, <3>1 DEF QueueFollows
  <2>2. ASSUME NEW j \in 2..Len(all), j = Len(old) + 1, ~key
        PROVE  all[j].n = After(all[j - 1].n)
    <3>1. old # <<>> /\ j - 1 = Len(old) /\ Len(old) \in 1..Len(old) /\ all[j - 1] = old[Len(old)]
      BY <1>4, <2>2
    <3>2. encoder.next = After(old[Len(old)].n)
      BY <1>1, <1>5, <2>2, <3>1 DEF NextFollows
    <3>3. QED
      BY <1>3, <1>4, <2>2, <3>1, <3>2
  <2>3. QED
    BY <1>3, <1>4, <2>1, <2>2
<1>9. CASE sender' = [sender EXCEPT !.queue = all]
  <2>1. /\ sender' \in SendTask /\ sender'.queue = all /\ (Open' = Open) /\ sender'.task
    BY <1>1, <1>4, <1>9 DEF SendTask, Open
  <2>2. QueueFollows'
    BY <1>8, <2>1 DEF QueueFollows, After
  <2>3. NextFollows'
    BY <1>3, <1>4, <1>6, <2>1, Primed
  <2>4. HeadFollows'
    <3>1. CASE old = <<>>
      <4>1. all[1] = picture
        BY <1>4, <3>1
      <4>2. Open /\ ~key => Follows(encoder.next)
        BY <1>1, <1>5, <3>1 DEF NextFollows
      <4>3. Open /\ ~key => NowFollows(all[1].n)
        BY <1>1, <1>3, <1>7, <4>1, <4>2
      <4>4. QED
        BY <1>3, <2>1, <4>1, <4>3, Primed
    <3>2. CASE old # <<>>
      <4>1. all[1] = old[1] /\ old[1] \in Picture
        BY <1>1, <1>4, <3>2
      <4>2. old[1].n \in Number
        BY <1>1, <4>1, Items
      <4>3. Open => old[1].key \/ Follows(old[1].n)
        BY <1>1, <3>2 DEF HeadFollows
      <4>4. Open => all[1].key \/ NowFollows(all[1].n)
        BY <1>7, <4>1, <4>2, <4>3
      <4>5. QED
        BY <2>1, <4>4, Primed
    <3>3. QED
      BY <3>1, <3>2
  <2>5. QED
    BY <1>6, <1>7, <2>1, <2>2, <2>3, <2>4 DEF Chain
<1>10. CASE sender' = [sender EXCEPT !.queue = Tail(all), !.lagged = TRUE]
  <2>1. /\ Tail(all) \in Seq(Picture) /\ Len(Tail(all)) = Len(all) - 1
        /\ (Tail(all) = <<>> <=> Len(all) = 1)
        /\ \A j \in 1..(Len(all) - 1) : Tail(all)[j] = all[j + 1]
    BY <1>4, TailFacts
  <2> DEFINE rest == Tail(all)
  <2> HIDE DEF rest
  <2>2. /\ sender' \in SendTask /\ sender'.queue = rest /\ ~Open' /\ sender'.task
    BY <1>1, <1>10, <2>1 DEF SendTask, Open, rest
  <2>3. ASSUME NEW j \in 2..Len(rest) PROVE rest[j].key \/ rest[j].n = After(rest[j - 1].n)
    <3>1. /\ j + 1 \in 2..Len(all) /\ (j + 1) - 1 = j /\ rest[j] = all[j + 1]
          /\ j - 1 \in 1..(Len(all) - 1) /\ (j - 1) + 1 = j
      BY <1>4, <2>1 DEF rest
    <3>2. rest[j - 1] = all[j]
      BY <2>1, <3>1 DEF rest
    <3>3. QED
      BY <1>8, <3>1, <3>2
  <2>4. QueueFollows'
    BY <2>2, <2>3 DEF QueueFollows, After
  <2>5. HeadFollows'
    BY <2>2 DEF HeadFollows
  <2>6. rest # <<>> => rest[Len(rest)] = picture
    <3>1. SUFFICES ASSUME rest # <<>> PROVE rest[Len(rest)] = picture
      OBVIOUS
    <3>2. Len(old) \in 1..(Len(all) - 1) /\ Len(rest) = Len(old)
      BY <1>4, <2>1, <3>1 DEF rest
    <3>3. QED
      BY <1>4, <2>1, <3>2 DEF rest
  <2>7. NextFollows'
    BY <1>3, <1>6, <2>2, <2>6 DEF NextFollows, After
  <2>8. QED
    BY <1>6, <1>7, <2>2, <2>4, <2>5, <2>7 DEF Chain
<1>11. QED
  BY <1>5, <1>9, <1>10

LEMMA GateSteps ==
  ASSUME Inv, TakeControl \/ RecoverFromLag
  PROVE  Chain' /\ sender' \in SendTask /\ encoder' \in Encoder
<1>1. /\ ShareStreamsAssumption /\ sender \in SendTask /\ encoder \in Encoder
      /\ QueueFollows /\ HeadFollows /\ NextFollows
  BY DEF Inv, TypeOK
<1>2. WireFollows' /\ PacketsFollow' /\ ~missed' /\ \A n \in Number : Follows(n) => NowFollows(n)
  BY NothingWritten DEF TakeControl, RecoverFromLag
<1>3. CASE UNCHANGED <<sender, encoder>>
  BY <1>1, <1>2, <1>3, SenderRests, Primed DEF Chain
<1>4. CASE \/ sender' = RequireKeyframe([sender EXCEPT !.subscribed = TRUE]) /\ RequestKeyframe
           \/ sender' = RequireKeyframe([sender EXCEPT !.lagged = FALSE]) /\ RequestKeyframe
  <2>1. /\ sender' \in SendTask /\ sender'.waiting /\ sender'.queue = sender.queue
        /\ encoder' \in Encoder /\ encoder'.force
    BY <1>1, <1>4 DEF RequireKeyframe, RequestKeyframe, SendTask, Encoder
  <2>2. QueueFollows' /\ HeadFollows' /\ NextFollows'
    BY <1>1, <2>1 DEF QueueFollows, HeadFollows, NextFollows, Open, After
  <2>3. QED
    BY <1>2, <2>1, <2>2 DEF Chain
<1>5. CASE sender' = [sender EXCEPT !.subscribed = FALSE] /\ encoder' = encoder
  <2>1. /\ sender' \in SendTask /\ sender'.queue = sender.queue /\ Open' = Open
        /\ sender'.task = sender.task
    BY <1>1, <1>5 DEF SendTask, Open
  <2>2. sender.queue # <<>> => sender.queue[1].n \in Number
    <3>1. sender.queue \in Seq(Picture)
      BY <1>1 DEF SendTask
    <3>2. sender.queue # <<>> => sender.queue[1] \in Picture
      BY <3>1
    <3>3. QED
      BY <1>1, <3>2, Items
  <2>3. encoder.next \in Number
    BY <1>1 DEF Encoder
  <2>4. QueueFollows'
    BY <1>1, <2>1 DEF QueueFollows, After
  <2>5. HeadFollows'
    <3>1. Open /\ sender.queue # <<>> => sender.queue[1].key \/ NowFollows(sender.queue[1].n)
      BY <1>1, <1>2, <2>1, <2>2 DEF HeadFollows
    <3>2. QED
      BY <2>1, <3>1, Primed
  <2>6. NextFollows'
    <3>1. Follows(encoder.next) => NowFollows(encoder.next)
      BY <1>2, <1>5, <2>3
    <3>2. QED
      BY <1>1, <1>5, <2>1, <3>1, Primed DEF NextFollows
  <2>7. QED
    BY <1>1, <1>2, <1>5, <2>1, <2>4, <2>5, <2>6 DEF Chain
<1>6. QED
  BY <1>3, <1>4, <1>5 DEF TakeControl, RecoverFromLag

LEMMA SendSteps ==
  ASSUME Inv, SendPicture
  PROVE  Chain' /\ sender' \in SendTask /\ encoder' \in Encoder /\ wire' \in Seq(Item)
<1> DEFINE old == sender.queue
           p == Head(sender.queue)
           rest == [sender EXCEPT !.queue = Tail(@)]
           item == [kind |-> "picture", picture |-> p]
<1>1. /\ ShareStreamsAssumption /\ sender \in SendTask /\ encoder \in Encoder
      /\ encoder.next \in Number /\ old \in Seq(Picture) /\ wire \in Seq(Item)
      /\ QueueFollows /\ HeadFollows /\ NextFollows /\ WireFollows
      /\ sender.task /\ ~sender.lagged /\ old # <<>>
      /\ UNCHANGED <<worker, controls, receiver, orders, decoder, window, missed, choices>>
  BY DEF Inv, TypeOK, Encoder, SendTask, SendPicture
<1>2. /\ Tail(old) \in Seq(Picture) /\ Len(Tail(old)) = Len(old) - 1
      /\ p = old[1] /\ p \in Picture
      /\ Len(old) \in Nat /\ Len(old) >= 1 /\ (Tail(old) = <<>> <=> Len(old) = 1)
      /\ \A j \in 1..(Len(old) - 1) : Tail(old)[j] = old[j + 1]
  BY <1>1, TailFacts
<1>3. item \in Item /\ item.kind = "picture" /\ item.picture = p /\ p.n \in Number
  BY <1>1, <1>2, Items
<1>4. /\ rest \in SendTask /\ rest.queue = Tail(old) /\ rest.task
      /\ rest.waiting = sender.waiting /\ ~rest.lagged
      /\ [rest EXCEPT !.waiting = FALSE] \in SendTask
      /\ [rest EXCEPT !.waiting = TRUE] \in SendTask
      /\ [rest EXCEPT !.waiting = FALSE].queue = Tail(old)
      /\ [rest EXCEPT !.waiting = TRUE].queue = Tail(old)
      /\ [rest EXCEPT !.waiting = TRUE].waiting
      /\ [rest EXCEPT !.waiting = FALSE].task /\ ~[rest EXCEPT !.waiting = FALSE].waiting
      /\ ~[rest EXCEPT !.waiting = FALSE].lagged
  BY <1>1, <1>2 DEF SendTask
<1>5. /\ Accepted(sender, p) \/ ~Accepted(sender, p)
      /\ ~Accepted(sender, p) => sender' = rest /\ UNCHANGED <<wire, encoder>>
      /\ Accepted(sender, p) =>
           /\ wire' = Append(wire, item)
           /\ \/ sender' = [rest EXCEPT !.waiting = FALSE] /\ UNCHANGED encoder
              \/ sender' = [rest EXCEPT !.waiting = TRUE] /\ RequestKeyframe
  BY DEF SendPicture, RequireKeyframe
<1>6. PacketsFollow' /\ ~missed'
  BY <1>1, DecoderRests DEF Inv
<1> DEFINE q == Tail(old)
<1>7. ASSUME NEW j \in 2..Len(q) PROVE q[j].key \/ q[j].n = After(q[j - 1].n)
  <2>1. /\ j + 1 \in 2..Len(old) /\ (j + 1) - 1 = j /\ q[j] = old[j + 1]
        /\ j - 1 \in 1..(Len(old) - 1) /\ (j - 1) + 1 = j
    BY <1>2
  <2>2. q[j - 1] = old[j]
    BY <1>2, <2>1
  <2>3. QED
    BY <1>1, <2>1, <2>2 DEF QueueFollows
<1>8. q # <<>> => q[1].key \/ q[1].n = After(p.n)
  <2>1. SUFFICES ASSUME q # <<>> PROVE q[1].key \/ q[1].n = After(p.n)
    OBVIOUS
  <2>2. 2 \in 2..Len(old) /\ 2 - 1 = 1 /\ q[1] = old[2]
    BY <1>2, <2>1
  <2>3. old[2].key \/ old[2].n = After(old[2 - 1].n)
    BY <1>1, <2>2 DEF QueueFollows
  <2>4. QED
    BY <1>2, <2>2, <2>3
<1>9. q # <<>> => q[Len(q)] = old[Len(old)]
  <2>1. SUFFICES ASSUME q # <<>> PROVE q[Len(q)] = old[Len(old)]
    OBVIOUS
  <2>2. Len(q) \in 1..(Len(old) - 1) /\ Len(q) + 1 = Len(old)
    BY <1>2, <2>1
  <2>3. QED
    BY <1>2, <2>2
<1>10. q = <<>> => old[Len(old)] = p
  BY <1>2
<1>11. sender'.queue = q => QueueFollows'
  BY <1>7 DEF QueueFollows, After
<1> HIDE DEF rest, item, q, p
<1>12. CASE ~Accepted(sender, p)
  <2>1. sender' = rest /\ UNCHANGED <<wire, encoder>> /\ sender.waiting
    BY <1>5, <1>12 DEF Accepted
  <2>2. /\ sender' \in SendTask /\ sender'.queue = q /\ ~Open' /\ sender'.task
    BY <1>4, <2>1 DEF Open, q
  <2>3. WireFollows'
    BY <1>1, <2>1, NothingWritten
  <2>4. HeadFollows' /\ NextFollows'
    BY <1>1, <1>9, <2>1, <2>2, Primed DEF NextFollows
  <2>5. QED
    BY <1>1, <1>6, <1>11, <2>1, <2>2, <2>3, <2>4 DEF Chain
<1>13. CASE Accepted(sender, p)
  <2>1. wire' = Append(wire, item)
    BY <1>5, <1>13
  <2>2. ~p.key => Follows(p.n)
    <3>1. ~p.key => Open
      BY <1>1, <1>13 DEF Accepted, Open
    <3>2. QED
      BY <1>1, <1>2, <3>1 DEF HeadFollows
  <2>3. WireFollows' /\ \A n \in Number : n = After(p.n) => NowFollows(n)
    BY <1>1, <1>3, <2>1, <2>2, Written, Primed
  <2>4. wire' \in Seq(Item)
    BY <1>1, <1>3, <2>1, AppendedFacts
  <2>5. CASE sender' = [rest EXCEPT !.waiting = TRUE] /\ RequestKeyframe
    <3>1. /\ sender' \in SendTask /\ sender'.queue = q /\ ~Open'
          /\ encoder' \in Encoder /\ encoder'.force
      BY <1>1, <1>4, <2>5 DEF Open, q, RequestKeyframe, Encoder
    <3>2. HeadFollows' /\ NextFollows'
      BY <3>1, Primed
    <3>3. QED
      BY <1>6, <1>11, <2>3, <2>4, <3>1, <3>2 DEF Chain
  <2>6. CASE sender' = [rest EXCEPT !.waiting = FALSE] /\ UNCHANGED encoder
    <3>1. /\ sender' \in SendTask /\ sender'.queue = q /\ Open' /\ sender'.task
      BY <1>4, <2>6 DEF Open, q
    <3>2. HeadFollows'
      <4>1. q # <<>> => q[1] \in Picture
        BY <1>2 DEF q
      <4>2. q # <<>> => q[1].n \in Number
        BY <1>1, <4>1, Items
      <4>3. QED
        BY <1>8, <2>3, <3>1, <4>2, Primed
    <3>3. NextFollows'
      <4>1. encoder.alive /\ ~encoder.force => encoder.next = After(old[Len(old)].n)
        BY <1>1 DEF NextFollows
      <4>2. q = <<>> /\ encoder.alive /\ ~encoder.force => NowFollows(encoder.next)
        BY <1>1, <1>10, <2>3, <4>1
      <4>3. QED
        BY <1>9, <2>6, <3>1, <4>1, <4>2, Primed
    <3>4. QED
      BY <1>1, <1>6, <1>11, <2>3, <2>4, <2>6, <3>1, <3>2, <3>3 DEF Chain
  <2>7. QED
    BY <1>5, <1>13, <2>5, <2>6
<1>14. QED
  BY <1>12, <1>13
-----------------------------------------------------------------------------
(***************************************************************************)
(* The steps of the viewer, who leaves the sharer alone.                   *)
(***************************************************************************)
ViewerStep ==
  \/ AcceptStream \/ DiscardRest \/ ReadPart \/ ReadPicture \/ TakeOrder
  \/ StreamFinished \/ StreamFailed \/ DecodePacket \/ StopWatching \/ ResumeWatching

ViewerKeeps ==
  /\ PacketsFollow' /\ WireFollows' /\ ~missed' /\ wire' \in Seq(Item)
  /\ \A n \in Number : Follows(n) => Follows(n)'

\* The decoder takes its first packet.
LEMMA DecodeStep ==
  ASSUME Inv, DecodePacket
  PROVE  ViewerKeeps
<1> DEFINE packets == decoder.packets
           first == decoder.packets[1]
<1>1. /\ ShareStreamsAssumption /\ packets \in Seq(Packet) /\ packets # <<>>
      /\ UNCHANGED <<worker, encoder, sender, wire, receiver>>
      /\ PacketsFollow /\ WireFollows /\ ~missed /\ wire \in Seq(Item)
  BY DEF Inv, TypeOK, DecodePacket
<1>2. /\ Tail(packets) \in Seq(Packet) /\ Len(Tail(packets)) = Len(packets) - 1
      /\ Head(packets) = first /\ first \in Packet
      /\ Len(packets) \in Nat /\ Len(packets) >= 1
      /\ (Tail(packets) = <<>> <=> Len(packets) = 1)
      /\ \A j \in 1..(Len(packets) - 1) : Tail(packets)[j] = packets[j + 1]
  BY <1>1, TailFacts
<1>3. /\ decoder'.packets = Tail(packets) /\ decoder'.last = first.picture.n
      /\ missed' = (missed \/ (~first.picture.key /\
           (decoder.last = Nothing \/ first.picture.n # After(decoder.last))))
  BY <1>2 DEF DecodePacket
<1>4. ~missed'
  <2>1. first.picture.key \/ Refers(first.picture.n, decoder.last)
    BY <1>1, <1>2 DEF PacketsFollow
  <2>2. QED
    BY <1>1, <1>3, <2>1 DEF Refers
<1>5. LastIn' = LastIn
  <2>1. CASE Len(packets) = 1
    BY <1>2, <1>3, <2>1 DEF LastIn
  <2>2. CASE Len(packets) # 1
    <3>1. /\ Tail(packets) # <<>> /\ Len(Tail(packets)) \in 1..(Len(packets) - 1)
          /\ Len(Tail(packets)) + 1 = Len(packets)
      BY <1>2, <2>2
    <3>2. Tail(packets)[Len(Tail(packets))] = packets[Len(packets)]
      BY <1>2, <3>1
    <3>3. QED
      BY <1>1, <1>3, <3>1, <3>2 DEF LastIn
  <2>3. QED
    BY <2>1, <2>2
<1>6. PacketsFollow'
  <2>1. ASSUME NEW i \in 1..Len(Tail(packets))
        PROVE  \/ Tail(packets)[i].picture.key
               \/ Refers(Tail(packets)[i].picture.n,
                         IF i = 1 THEN first.picture.n ELSE Tail(packets)[i - 1].picture.n)
    <3>1. /\ i + 1 \in 1..Len(packets) /\ i + 1 # 1 /\ (i + 1) - 1 = i
          /\ Tail(packets)[i] = packets[i + 1]
      BY <1>2
    <3>2. \/ packets[i + 1].picture.key
          \/ Refers(packets[i + 1].picture.n, packets[i].picture.n)
      BY <1>1, <3>1 DEF PacketsFollow
    <3>3. i # 1 => Tail(packets)[i - 1] = packets[i]
      <4>1. i # 1 => i - 1 \in 1..(Len(packets) - 1) /\ (i - 1) + 1 = i
        BY <1>2
      <4>2. QED
        BY <1>2, <4>1
    <3>4. QED
      BY <3>1, <3>2, <3>3
  <2>2. QED
    BY <1>3, <2>1 DEF PacketsFollow, Refers, After, Nothing
<1>7. Takes' => Takes
  BY <1>1 DEF Takes, Reading
<1>8. QED
  BY <1>1, <1>4, <1>5, <1>6, <1>7, Unread DEF ViewerKeeps

\* The decoder is handed the picture at the front.
LEMMA SubmitStep ==
  ASSUME Inv, wire # <<>>, wire' = Tail(wire), wire[1].kind = "picture",
         SubmitPacket(wire[1].picture), Takes \/ wire[1].picture.key, missed' = missed,
         Reading
  PROVE  ViewerKeeps /\ decoder'.packets \in Seq(Packet) /\ decoder'.last = decoder.last
<1> DEFINE packets == decoder.packets
           p == wire[1].picture
           packet == [picture |-> p, stream |-> receiver.generation]
<1>1. /\ ShareStreamsAssumption /\ packets \in Seq(Packet) /\ wire \in Seq(Item)
      /\ PacketsFollow /\ WireFollows /\ ~missed /\ receiver \in Receiver
      /\ decoder.last \in Number \cup {Nothing} /\ MaxStreams \in Nat
  BY DEF Inv, TypeOK, ShareStreamsAssumption
<1>2. /\ Len(wire') = Len(wire) - 1 /\ Head(wire) = wire[1] /\ wire[1] \in Item
      /\ Len(wire) \in Nat /\ Len(wire) >= 1 /\ wire' \in Seq(Item)
  BY <1>1, TailFacts
<1>3. p \in Picture /\ p.n \in Number
  BY <1>1, <1>2, Items
<1>4. receiver.generation \in 1..MaxStreams
  BY <1>1 DEF Inv, Started, Receiver
<1>5. packet \in Packet /\ packet.picture = p
  BY <1>3, <1>4 DEF Packet
<1>6. /\ decoder'.packets = Append(packets, packet) /\ decoder'.last = decoder.last
  BY <1>1 DEF SubmitPacket, Inv, TypeOK
<1> HIDE DEF p, packet
<1>7. /\ Append(packets, packet) \in Seq(Packet)
      /\ Len(Append(packets, packet)) = Len(packets) + 1 /\ Append(packets, packet) # <<>>
      /\ \A j \in 1..Len(packets) : Append(packets, packet)[j] = packets[j]
      /\ Append(packets, packet)[Len(packets) + 1] = packet
      /\ Len(packets) \in Nat /\ (packets = <<>> <=> Len(packets) = 0)
  BY <1>1, <1>5, AppendedFacts
<1> DEFINE new == Append(packets, packet)
<1> HIDE DEF new
<1>8. LastIn' = p.n
  BY <1>5, <1>6, <1>7 DEF LastIn
<1>9. p.key \/ Refers(p.n, LastIn)
  <2>1. 1 \in 1..Len(wire)
    BY <1>2
  <2>2. QED
    BY <1>1, <2>1 DEF WireFollows, p
<1>10. PacketsFollow'
  <2>1. ASSUME NEW i \in 1..Len(new)
        PROVE  \/ new[i].picture.key
               \/ Refers(new[i].picture.n,
                         IF i = 1 THEN decoder.last ELSE new[i - 1].picture.n)
    <3>1. CASE i \in 1..Len(packets)
      <4>1. new[i] = packets[i] /\ (i # 1 => new[i - 1] = packets[i - 1])
        BY <1>7, <3>1 DEF new
      <4>2. QED
        BY <1>1, <3>1, <4>1 DEF PacketsFollow
    <3>2. CASE i = Len(packets) + 1
      <4>1. new[i].picture = p
        BY <1>5, <1>7, <3>2 DEF new
      <4>2. CASE packets = <<>>
        BY <1>7, <1>9, <3>2, <4>1, <4>2 DEF LastIn
      <4>3. CASE packets # <<>>
        <5>1. i # 1 /\ i - 1 = Len(packets) /\ new[i - 1] = packets[Len(packets)]
          BY <1>7, <3>2, <4>3 DEF new
        <5>2. QED
          BY <1>9, <4>1, <4>3, <5>1 DEF LastIn
      <4>4. QED
        BY <4>2, <4>3
    <3>3. QED
      BY <1>7, <3>1, <3>2 DEF new
  <2>2. QED
    BY <1>6, <2>1 DEF PacketsFollow, Refers, After, Nothing, new
<1>11. WireFollows' /\ \A n \in Number : Follows(n) => Follows(n)'
  BY <1>1, <1>2, <1>8, Read DEF p
<1>12. QED
  BY <1>1, <1>2, <1>6, <1>7, <1>10, <1>11 DEF ViewerKeeps

LEMMA ViewerSteps ==
  ASSUME Inv, ViewerStep
  PROVE  ViewerKeeps /\ UNCHANGED <<worker, encoder, sender>>
<1>1. /\ ShareStreamsAssumption /\ wire \in Seq(Item) /\ receiver \in Receiver
      /\ WireFollows /\ PacketsFollow /\ ~missed
  BY DEF Inv, TypeOK
<1>2. UNCHANGED <<worker, encoder, sender>>
  BY DEF ViewerStep, AcceptStream, DiscardRest, ReadPart, ReadPicture, TakeOrder,
         StreamFinished, StreamFailed, DecodePacket, StopWatching, ResumeWatching
\* Nothing is handed to the decoder, and what is read is not needed.
<1>3. ASSUME UNCHANGED <<decoder, missed>>,
             \/ wire' = wire /\ (Takes' => Takes)
             \/ /\ wire # <<>> /\ wire' = Tail(wire)
                /\ Takes' => Head(wire).kind = "open"
      PROVE  ViewerKeeps
  <2>1. PacketsFollow' /\ ~missed' /\ LastIn' = LastIn
    BY <1>1, <1>3, DecoderRests DEF LastIn
  <2>2. wire' \in Seq(Item)
    BY <1>1, <1>3, TailFacts
  <2>3. CASE wire' = wire /\ (Takes' => Takes)
    BY <1>1, <2>1, <2>2, <2>3, Unread DEF ViewerKeeps
  <2>4. CASE wire # <<>> /\ wire' = Tail(wire) /\ (Takes' => Head(wire).kind = "open")
    BY <1>1, <2>1, <2>2, <2>4, Read DEF ViewerKeeps
  <2>5. QED
    BY <1>3, <2>3, <2>4
<1>4. CASE AcceptStream
  BY <1>3, <1>4 DEF AcceptStream, NextItem
<1>5. CASE DiscardRest
  <2>1. ~Takes'
    BY <1>5 DEF DiscardRest, Takes, Reading
  <2>2. QED
    BY <1>3, <1>5, <2>1 DEF DiscardRest
<1>6. CASE ReadPart
  <2>1. Takes' = Takes
    BY <1>1, <1>6 DEF ReadPart, Takes, Reading, Receiver
  <2>2. QED
    BY <1>3, <1>6, <2>1 DEF ReadPart
<1>7. CASE ReadPicture
  <2>1. /\ wire # <<>> /\ wire' = Tail(wire) /\ Head(wire) = wire[1]
        /\ wire[1].kind = "picture" /\ missed' = missed /\ Reading
    BY <1>1, <1>7, TailFacts DEF ReadPicture, NextItem
  <2>2. CASE IsPaused \/ IsSkipped(wire[1].picture)
    <3>1. receiver' = [receiver EXCEPT !.half = FALSE] /\ UNCHANGED decoder
      BY <1>7, <2>1, <2>2 DEF ReadPicture
    <3>2. ~Takes'
      BY <1>1, <2>2, <3>1 DEF IsPaused, IsSkipped, Takes, Reading, Receiver
    <3>3. QED
      BY <1>2, <1>3, <2>1, <3>1, <3>2
  <2>3. CASE ~(IsPaused \/ IsSkipped(wire[1].picture))
    <3>1. SubmitPacket(wire[1].picture)
      BY <1>7, <2>1, <2>3 DEF ReadPicture
    <3>2. Takes \/ wire[1].picture.key
      BY <2>1, <2>3 DEF IsPaused, IsSkipped, Takes
    <3>3. QED
      BY <1>2, <2>1, <3>1, <3>2, SubmitStep
  <2>4. QED
    BY <2>2, <2>3
<1>8. CASE TakeOrder
  <2>1. Takes' => Takes
    BY <1>1, <1>8 DEF TakeOrder, Takes, Reading, Receiver
  <2>2. QED
    BY <1>3, <1>8, <2>1 DEF TakeOrder
<1>9. CASE StreamFinished \/ StreamFailed
  <2>1. ~Takes'
    BY <1>1, <1>9 DEF StreamFinished, StreamFailed, Ends, Takes, Reading, Receiver
  <2>2. QED
    BY <1>3, <1>9, <2>1 DEF StreamFinished, StreamFailed, NextItem
<1>10. CASE DecodePacket
  BY <1>2, <1>10, DecodeStep
<1>11. CASE StopWatching \/ ResumeWatching
  <2>1. Takes' = Takes
    BY <1>11 DEF StopWatching, ResumeWatching, Takes, Reading
  <2>2. QED
    BY <1>3, <1>11, <2>1 DEF StopWatching, ResumeWatching
<1>12. QED
  BY <1>2, <1>4, <1>5, <1>6, <1>7, <1>8, <1>9, <1>10, <1>11 DEF ViewerStep

LEMMA ChainStep ==
  ASSUME Inv, [Next]_shareVars
  PROVE  Chain' /\ sender' \in SendTask /\ wire' \in Seq(Item)
<1>1. /\ ShareStreamsAssumption /\ sender \in SendTask /\ encoder \in Encoder
      /\ wire \in Seq(Item) /\ QueueFollows /\ HeadFollows /\ NextFollows
      /\ PacketsFollow /\ ~missed
  BY DEF Inv, TypeOK
<1>2. CASE WorkerStep
  BY <1>1, <1>2, WorkerWrites, DecoderRests DEF Chain
<1>3. CASE EncodePicture
  BY <1>1, <1>3, EncodeSteps DEF EncodePicture
<1>4. CASE TakeControl \/ RecoverFromLag
  <2>1. wire' = wire
    BY <1>4 DEF TakeControl, RecoverFromLag
  <2>2. QED
    BY <1>1, <1>4, <2>1, GateSteps
<1>5. CASE SendPicture
  BY <1>5, SendSteps
<1>6. CASE ViewerStep
  <2>1. ViewerKeeps /\ UNCHANGED <<worker, encoder, sender>>
    BY <1>6, ViewerSteps
  <2>2. QueueFollows' /\ HeadFollows' /\ NextFollows'
    BY <1>1, <2>1, SenderRests DEF ViewerKeeps
  <2>3. QED
    BY <1>1, <2>1, <2>2 DEF ViewerKeeps, Chain
<1>7. CASE UNCHANGED shareVars
  <2>1. UNCHANGED <<wire, receiver, decoder, missed, sender, encoder>>
    BY <1>7 DEF shareVars
  <2>2. /\ WireFollows' /\ PacketsFollow' /\ ~missed'
        /\ \A n \in Number : Follows(n) => Follows(n)'
    BY <2>1, NothingWritten, Primed
  <2>3. QED
    BY <1>1, <2>1, <2>2, SenderRests DEF Chain
<1>8. QED
  BY <1>2, <1>3, <1>4, <1>5, <1>6, <1>7 DEF Next, WorkerStep, ViewerStep
-----------------------------------------------------------------------------
(***************************************************************************)
(* The count of the streams.                                               *)
(***************************************************************************)
LEMMA CountRead ==
  ASSUME MaxStreams \in Nat, NEW w \in Seq(Item), w # <<>>, NEW a, NEW b, Streams(w, a, b)
  PROVE  /\ a + Opening(w[1]) \in 0..MaxStreams
         /\ Streams(Tail(w), a + Opening(w[1]), b)
<1>1. /\ Len(w) \in Nat /\ Len(w) >= 1 /\ Len(Tail(w)) = Len(w) - 1
      /\ \A j \in 1..(Len(w) - 1) : Tail(w)[j] = w[j + 1]
  BY TailFacts
<1>2. PICK f \in [0..Len(w) -> 0..MaxStreams] :
        /\ f[0] = a /\ f[Len(w)] = b
        /\ \A i \in 1..Len(w) : f[i] = f[i - 1] + Opening(w[i])
  BY DEF Streams
<1>3. 1 \in 1..Len(w) /\ 1 - 1 = 0 /\ 1 \in 0..Len(w)
  BY <1>1
<1>4. f[1] = a + Opening(w[1]) /\ f[1] \in 0..MaxStreams
  BY <1>2, <1>3
<1> DEFINE k == Len(w) - 1
           g == [i \in 0..k |-> f[i + 1]]
<1>5. k \in Nat /\ k = Len(Tail(w)) /\ \A i \in 0..k : i + 1 \in 0..Len(w)
  BY <1>1
<1>6. g \in [0..k -> 0..MaxStreams]
  BY <1>2, <1>5
<1>7. 0 \in 0..k /\ k \in 0..k /\ 0 + 1 = 1 /\ k + 1 = Len(w)
  BY <1>1
<1>8. g[0] = a + Opening(w[1]) /\ g[k] = b
  BY <1>2, <1>4, <1>7
<1>9. ASSUME NEW i \in 1..k PROVE g[i] = g[i - 1] + Opening(Tail(w)[i])
  <2>1. /\ i + 1 \in 1..Len(w) /\ (i + 1) - 1 = i /\ i \in 0..k /\ i - 1 \in 0..k
        /\ (i - 1) + 1 = i /\ Tail(w)[i] = w[i + 1]
    BY <1>1
  <2>2. f[i + 1] = f[i] + Opening(w[i + 1])
    BY <1>2, <2>1
  <2>3. g[i] = f[i + 1] /\ g[i - 1] = f[i]
    BY <2>1
  <2> HIDE DEF g, k
  <2>4. QED
    BY <2>1, <2>2, <2>3
<1> HIDE DEF g, k
<1>10. QED
  BY <1>4, <1>5, <1>6, <1>8, <1>9 DEF Streams

LEMMA CountWritten ==
  ASSUME NEW w \in Seq(Item), NEW a, NEW b, Streams(w, a, b), NEW x \in Item,
         b + Opening(x) \in 0..MaxStreams
  PROVE  Streams(Append(w, x), a, b + Opening(x))
<1>1. /\ Len(w) \in Nat /\ Len(Append(w, x)) = Len(w) + 1
      /\ \A j \in 1..Len(w) : Append(w, x)[j] = w[j]
      /\ Append(w, x)[Len(w) + 1] = x
  BY AppendedFacts
<1>2. PICK f \in [0..Len(w) -> 0..MaxStreams] :
        /\ f[0] = a /\ f[Len(w)] = b
        /\ \A i \in 1..Len(w) : f[i] = f[i - 1] + Opening(w[i])
  BY DEF Streams
<1> DEFINE k == Len(w) + 1
           c == b + Opening(x)
           new == Append(w, x)
           g == [i \in 0..k |-> IF i = k THEN c ELSE f[i]]
<1> HIDE DEF new, c
<1>3. k \in Nat /\ k = Len(new) /\ \A i \in 0..k : i # k => i \in 0..Len(w)
  BY <1>1 DEF new
<1>4. g \in [0..k -> 0..MaxStreams]
  BY <1>2, <1>3 DEF c
<1>5. 0 \in 0..k /\ k \in 0..k /\ 0 # k /\ Len(w) \in 0..k /\ Len(w) # k
  BY <1>1
<1>6. g[0] = a /\ g[k] = c /\ g[Len(w)] = b
  BY <1>2, <1>5
<1>7. ASSUME NEW i \in 1..k PROVE g[i] = g[i - 1] + Opening(new[i])
  <2>1. CASE i = k
    <3>1. i - 1 = Len(w) /\ new[i] = x
      BY <1>1, <2>1 DEF new
    <3> HIDE DEF g, k
    <3>2. QED
      BY <1>6, <2>1, <3>1 DEF c
  <2>2. CASE i # k
    <3>1. /\ i \in 1..Len(w) /\ i - 1 \in 0..k /\ i - 1 # k /\ i \in 0..k /\ new[i] = w[i]
      BY <1>1, <2>2 DEF new
    <3>2. f[i] = f[i - 1] + Opening(w[i]) /\ g[i] = f[i] /\ g[i - 1] = f[i - 1]
      BY <1>2, <2>2, <3>1
    <3> HIDE DEF g, k
    <3>3. QED
      BY <3>1, <3>2
  <2>3. QED
    BY <2>1, <2>2
<1> HIDE DEF g, k
<1>8. QED
  BY <1>3, <1>4, <1>6, <1>7 DEF Streams, new, c

\* Writing what opens nothing, once or twice.
LEMMA CountEnds ==
  ASSUME ShareStreamsAssumption, NEW w \in Seq(Item), NEW a, NEW b, Streams(w, a, b),
         b \in 0..MaxStreams, NEW x \in Item, x.kind # "open"
  PROVE  Streams(Append(w, x), a, b) /\ Append(w, x) \in Seq(Item)
<1>1. Opening(x) = 0 /\ b + Opening(x) = b
  BY DEF Opening, ShareStreamsAssumption
<1>2. QED
  BY <1>1, CountWritten, AppendedFacts

LEMMA GenerationsStep ==
  ASSUME Inv, [Next]_shareVars
  PROVE  /\ Generations' /\ receiver' \in Receiver
         /\ (Reading' => receiver'.generation # 0)
<1>1. /\ ShareStreamsAssumption /\ wire \in Seq(Item) /\ MaxStreams \in Nat
      /\ receiver \in Receiver /\ receiver.generation \in 0..MaxStreams
      /\ sender \in SendTask /\ sender.stream \in 0..MaxStreams
      /\ Streams(wire, receiver.generation, sender.stream)
      /\ (Reading => receiver.generation # 0)
  BY DEF Inv, TypeOK, Receiver, SendTask, ShareStreamsAssumption, Generations, Started
\* The streams and the receive task stay.
<1>2. ASSUME wire' = wire, receiver'.generation = receiver.generation,
             sender'.stream = sender.stream
      PROVE  Generations'
  BY <1>1, <1>2 DEF Generations, Streams, Opening
<1>3. ASSUME NEW x \in Item, x.kind # "open", wire' = Append(wire, x),
             receiver' = receiver, sender'.stream = sender.stream
      PROVE  Generations'
  <2>1. Streams(wire', receiver.generation, sender.stream)
    BY <1>1, <1>3, CountEnds
  <2>2. QED
    BY <1>3, <2>1 DEF Generations, Streams, Opening
<1>4. \A k \in {"open", "eof", "torn"} : [kind |-> k] \in Item /\ [kind |-> k].kind = k
  BY <1>1, Items
<1>5. ASSUME wire' \in Finished, receiver' = receiver, sender'.stream = sender.stream
      PROVE  Generations'
  <2>1. CASE wire' = wire
    BY <1>2, <1>5, <2>1
  <2>2. CASE wire' = Append(wire, [kind |-> "eof"])
    BY <1>3, <1>4, <1>5, <2>2
  <2>3. CASE wire' = Append(Append(wire, [kind |-> "torn"]), [kind |-> "eof"])
    <3> DEFINE w == Append(wire, [kind |-> "torn"])
    <3>1. Streams(w, receiver.generation, sender.stream) /\ w \in Seq(Item)
      BY <1>1, <1>4, CountEnds
    <3> HIDE DEF w
    <3>2. Streams(Append(w, [kind |-> "eof"]), receiver.generation, sender.stream)
      BY <1>1, <1>4, <3>1, CountEnds
    <3>3. Streams(wire', receiver.generation, sender.stream)
      BY <2>3, <3>2 DEF w
    <3>4. QED
      BY <1>5, <3>3 DEF Generations, Streams, Opening
  <2>4. QED
    BY <1>5, <2>1, <2>2, <2>3 DEF Finished
\* The receive task has read the item at the front.
<1>6. ASSUME wire # <<>>, wire' = Tail(wire), UNCHANGED sender,
             receiver'.generation = receiver.generation + Opening(wire[1])
      PROVE  Generations'
  <2>1. Streams(Tail(wire), receiver.generation + Opening(wire[1]), sender.stream)
    BY <1>1, <1>6, CountRead
  <2>2. Streams(wire', receiver'.generation, sender.stream)
    BY <1>6, <2>1
  <2>3. QED
    BY <1>6, <2>2 DEF Generations, Streams, Opening
<1>7. wire # <<>> => /\ Head(wire) = wire[1]
                     /\ receiver.generation + Opening(wire[1]) \in 0..MaxStreams
  BY <1>1, CountRead, TailFacts
<1>8. CASE ToggleSharingOn
  <2>1. CASE wire' = Append(wire, [kind |-> "open"]) /\ sender' = NewSender(sender.stream + 1)
    <3>1. sender'.stream = sender.stream + 1 /\ sender.stream + 1 \in 0..MaxStreams
      BY <1>1, <1>8, <2>1 DEF ToggleSharingOn, NewSender
    <3>2. Opening([kind |-> "open"]) = 1
      BY DEF Opening
    <3>3. Streams(wire', receiver.generation, sender.stream + 1)
      BY <1>1, <1>4, <2>1, <3>1, <3>2, CountWritten
    <3>4. receiver' = receiver
      BY <1>8 DEF ToggleSharingOn
    <3>5. Generations'
      BY <3>1, <3>3, <3>4 DEF Generations, Streams, Opening
    <3>6. QED
      BY <1>1, <3>4, <3>5 DEF Reading
  <2>2. CASE UNCHANGED <<wire, sender>>
    BY <1>1, <1>2, <1>8, <2>2 DEF ToggleSharingOn, Reading
  <2>3. QED
    BY <1>8, <2>1, <2>2 DEF ToggleSharingOn
<1>9. CASE ToggleSharingOff \/ SetVideoConfig \/ PipelineFails \/ HandleCaptureFailure
  <2>1. /\ receiver' = receiver
        /\ \/ wire' = wire /\ sender' = sender
           \/ wire' \in Finished /\ sender' = NoSender(sender.stream)
    <3>1. CASE ToggleSharingOff
      BY <3>1 DEF ToggleSharingOff, StopsSharing
    <3>2. CASE SetVideoConfig
      BY <3>2 DEF SetVideoConfig
    <3>3. CASE PipelineFails
      BY <3>3 DEF PipelineFails
    <3>4. CASE HandleCaptureFailure
      BY <3>4 DEF HandleCaptureFailure, StopsSharing
    <3>5. QED
      BY <1>9, <3>1, <3>2, <3>3, <3>4
  <2>2. sender'.stream = sender.stream
    BY <2>1 DEF NoSender
  <2>3. QED
    BY <1>1, <1>2, <1>5, <2>1, <2>2 DEF Reading
<1>10. CASE SendFails
  <2>1. /\ receiver' = receiver /\ wire' = Append(wire, [kind |-> "eof"])
        /\ sender'.stream = sender.stream
    BY <1>10 DEF SendFails, NoSender
  <2>2. QED
    BY <1>1, <1>3, <1>4, <2>1 DEF Reading
<1>11. CASE EncodePicture \/ TakeControl \/ RecoverFromLag
  <2>1. receiver' = receiver /\ wire' = wire
    BY <1>11 DEF EncodePicture, TakeControl, RecoverFromLag
  <2>2. sender'.stream = sender.stream
    BY <1>1, <1>11 DEF EncodePicture, TakeControl, RecoverFromLag, RequireKeyframe, SendTask
  <2>3. QED
    BY <1>1, <1>2, <2>1, <2>2 DEF Reading
<1>12. CASE SendPicture
  <2>1. receiver' = receiver
    BY <1>12 DEF SendPicture
  <2>2. sender'.stream = sender.stream
    BY <1>1, <1>12 DEF SendPicture, RequireKeyframe, SendTask
  <2>3. wire' = wire \/ wire' = Append(wire, [kind |-> "picture", picture |-> Head(sender.queue)])
    BY <1>12 DEF SendPicture
  <2>4. /\ [kind |-> "picture", picture |-> Head(sender.queue)] \in Item
        /\ [kind |-> "picture", picture |-> Head(sender.queue)].kind # "open"
    <3>1. sender.queue \in Seq(Picture) /\ sender.queue # <<>>
      BY <1>1, <1>12 DEF SendTask, SendPicture
    <3>2. Head(sender.queue) \in Picture
      BY <3>1, TailFacts
    <3>3. QED
      BY <1>1, <3>2, Items
  <2>5. QED
    BY <1>1, <1>2, <1>3, <2>1, <2>2, <2>3, <2>4 DEF Reading
<1>13. CASE AcceptStream
  <2>1. /\ wire # <<>> /\ wire' = Tail(wire) /\ Head(wire).kind = "open" /\ UNCHANGED sender
        /\ receiver' = [receiver EXCEPT !.generation = receiver.generation + 1,
             !.reading = TRUE, !.watching = TRUE, !.waiting = FALSE, !.half = FALSE, !.torn = FALSE]
    BY <1>13 DEF AcceptStream, NextItem
  <2>2. Opening(wire[1]) = 1 /\ receiver.generation + 1 \in 0..MaxStreams
    BY <1>7, <2>1 DEF Opening
  <2>3. /\ receiver' \in Receiver /\ receiver'.generation = receiver.generation + 1
    BY <1>1, <2>1, <2>2 DEF Receiver
  <2>4. receiver'.generation # 0
    BY <1>1, <2>3
  <2>5. Generations'
    BY <1>6, <2>1, <2>2, <2>3
  <2>6. QED
    BY <2>3, <2>4, <2>5
<1>14. CASE DiscardRest
  <2>1. /\ wire # <<>> /\ wire' = Tail(wire) /\ UNCHANGED <<sender, receiver>>
        /\ Opening(wire[1]) = 0
    BY <1>7, <1>14 DEF DiscardRest, Opening
  <2>2. QED
    BY <1>1, <1>6, <2>1 DEF Reading
<1>15. CASE ReadPart \/ TakeOrder
  <2>1. /\ receiver' \in Receiver /\ receiver'.generation = receiver.generation
        /\ receiver'.reading = receiver.reading /\ wire' = wire /\ UNCHANGED sender
    <3>1. CASE ReadPart
      BY <1>1, <3>1 DEF ReadPart, Receiver
    <3>2. CASE TakeOrder
      <4>1. Head(orders).watching \in BOOLEAN
        <5>1. orders \in Seq(Control) /\ orders # <<>>
          BY <3>2 DEF Inv, TypeOK, TakeOrder
        <5>2. Head(orders) \in Control
          BY <5>1, TailFacts
        <5>3. QED
          BY <5>2 DEF Control
      <4>2. QED
        BY <1>1, <3>2, <4>1 DEF TakeOrder, Receiver
    <3>3. QED
      BY <1>15, <3>1, <3>2
  <2>2. QED
    BY <1>1, <1>2, <2>1 DEF Reading
<1>16. CASE ReadPicture
  <2>1. /\ receiver' \in Receiver /\ receiver'.generation = receiver.generation
        /\ receiver'.reading = receiver.reading /\ UNCHANGED sender
    BY <1>1, <1>16 DEF ReadPicture, Receiver
  <2>2. wire # <<>> /\ wire' = Tail(wire) /\ Opening(wire[1]) = 0
    BY <1>7, <1>16 DEF ReadPicture, NextItem, Opening
  <2>3. QED
    BY <1>1, <1>6, <2>1, <2>2 DEF Reading
<1>17. CASE StreamFinished \/ StreamFailed
  <2>1. /\ receiver' \in Receiver /\ receiver'.generation = receiver.generation
        /\ ~receiver'.reading /\ UNCHANGED sender
    BY <1>1, <1>17 DEF StreamFinished, StreamFailed, Ends, Receiver
  <2>2. \/ wire' = wire
        \/ wire # <<>> /\ wire' = Tail(wire) /\ Opening(wire[1]) = 0
    <3>1. CASE StreamFinished
      BY <1>7, <3>1 DEF StreamFinished, NextItem, Opening
    <3>2. CASE StreamFailed
      BY <1>7, <3>2 DEF StreamFailed, NextItem, Opening
    <3>3. QED
      BY <1>17, <3>1, <3>2
  <2>3. QED
    BY <1>1, <1>2, <1>6, <2>1, <2>2 DEF Reading
<1>18. CASE DecodePacket \/ StopWatching \/ ResumeWatching \/ UNCHANGED shareVars
  <2>1. UNCHANGED <<wire, receiver, sender>>
    BY <1>18 DEF DecodePacket, StopWatching, ResumeWatching, shareVars
  <2>2. QED
    BY <1>1, <1>2, <2>1 DEF Reading
<1>19. QED
  BY <1>8, <1>9, <1>10, <1>11, <1>12, <1>13, <1>14, <1>15, <1>16, <1>17, <1>18 DEF Next

-----------------------------------------------------------------------------
(***************************************************************************)
(* The rest of the types.                                                  *)
(***************************************************************************)
WorkerTyped == worker \in [sharing : BOOLEAN, pipeline : 0..MaxPipelines,
                           failures : Seq(1..MaxPipelines)]
EncoderStarted == encoder.alive => worker.pipeline # 0

LEMMA StartsTyped ==
  ASSUME Inv, NEW ok \in BOOLEAN, StartsCapture(ok)
  PROVE  WorkerTyped' /\ encoder' \in Encoder /\ EncoderStarted'
<1>1. /\ ShareStreamsAssumption /\ MaxPipelines \in Nat /\ WorkerTyped /\ encoder \in Encoder
      /\ worker.pipeline \in 0..MaxPipelines
  BY DEF Inv, TypeOK, ShareStreamsAssumption, WorkerTyped
<1>2. worker.pipeline + 1 \in 0..MaxPipelines /\ worker.pipeline + 1 # 0
  BY <1>1 DEF StartsCapture
<1>3. worker' = [worker EXCEPT !.sharing = ok, !.pipeline = worker.pipeline + 1]
  BY DEF StartsCapture
<1>4. WorkerTyped' /\ worker'.pipeline # 0
  BY <1>1, <1>2, <1>3 DEF WorkerTyped
<1>5. NewEncoder \in Encoder /\ [encoder EXCEPT !.alive = FALSE] \in Encoder
  BY <1>1, Numbers DEF NewEncoder, Encoder
<1>6. QED
  BY <1>4, <1>5 DEF StartsCapture, EncoderStarted

LEMMA SharerTyped ==
  ASSUME Inv, [Next]_shareVars
  PROVE  WorkerTyped' /\ encoder' \in Encoder /\ EncoderStarted'
<1>1. /\ ShareStreamsAssumption /\ MaxPipelines \in Nat /\ WorkerTyped /\ encoder \in Encoder
      /\ worker.pipeline \in 0..MaxPipelines /\ worker.failures \in Seq(1..MaxPipelines)
      /\ EncoderStarted
  BY DEF Inv, TypeOK, ShareStreamsAssumption, WorkerTyped, Started, EncoderStarted
<1>2. /\ [encoder EXCEPT !.alive = FALSE] \in Encoder
      /\ [encoder EXCEPT !.force = TRUE] \in Encoder
      /\ [encoder EXCEPT !.next = After(@), !.force = FALSE] \in Encoder
      /\ ~[encoder EXCEPT !.alive = FALSE].alive
  BY <1>1, Numbers DEF Encoder
<1>3. CASE ToggleSharingOn
  BY <1>3, StartsTyped DEF ToggleSharingOn
<1>4. CASE SetVideoConfig
  BY <1>4, StartsTyped DEF SetVideoConfig
<1>5. CASE ToggleSharingOff
  <2>1. worker' = [worker EXCEPT !.sharing = FALSE] /\ encoder' = [encoder EXCEPT !.alive = FALSE]
    BY <1>5 DEF ToggleSharingOff, StopsSharing
  <2>2. QED
    BY <1>1, <1>2, <2>1 DEF WorkerTyped, EncoderStarted
<1>6. CASE PipelineFails
  <2>1. /\ worker' = [worker EXCEPT !.failures = Append(worker.failures, worker.pipeline)]
        /\ encoder' = [encoder EXCEPT !.alive = FALSE] /\ encoder.alive
    BY <1>6 DEF PipelineFails
  <2>2. worker.pipeline \in 1..MaxPipelines
    BY <1>1, <2>1 DEF EncoderStarted
  <2>3. Append(worker.failures, worker.pipeline) \in Seq(1..MaxPipelines)
    BY <1>1, <2>2, AppendedFacts
  <2>4. QED
    BY <1>1, <1>2, <2>1, <2>3 DEF WorkerTyped, EncoderStarted
<1>7. CASE HandleCaptureFailure
  <2>1. Tail(worker.failures) \in Seq(1..MaxPipelines)
    BY <1>1, <1>7, TailFacts DEF HandleCaptureFailure
  <2>2. CASE worker.sharing
    <3>1. /\ worker' = [worker EXCEPT !.failures = Tail(worker.failures), !.sharing = FALSE]
          /\ encoder' = [encoder EXCEPT !.alive = FALSE]
      BY <1>7, <2>2 DEF HandleCaptureFailure, StopsSharing
    <3>2. QED
      BY <1>1, <1>2, <2>1, <3>1 DEF WorkerTyped, EncoderStarted
  <2>3. CASE ~worker.sharing
    <3>1. worker' = [worker EXCEPT !.failures = Tail(worker.failures)] /\ encoder' = encoder
      BY <1>7, <2>3 DEF HandleCaptureFailure
    <3>2. QED
      BY <1>1, <2>1, <3>1 DEF WorkerTyped, EncoderStarted
  <2>4. QED
    BY <2>2, <2>3
<1>8. CASE EncodePicture
  <2>1. worker' = worker /\ encoder' = [encoder EXCEPT !.next = After(@), !.force = FALSE]
    BY <1>8 DEF EncodePicture
  <2>2. encoder'.alive = encoder.alive
    BY <1>1, <2>1 DEF Encoder
  <2>3. QED
    BY <1>1, <1>2, <2>1, <2>2 DEF WorkerTyped, EncoderStarted
<1>9. ASSUME worker' = worker, encoder' = encoder \/ RequestKeyframe
      PROVE  WorkerTyped' /\ encoder' \in Encoder /\ EncoderStarted'
  <2>1. encoder'.alive = encoder.alive /\ encoder' \in Encoder
    BY <1>1, <1>2, <1>9 DEF RequestKeyframe, Encoder
  <2>2. QED
    BY <1>1, <1>9, <2>1 DEF WorkerTyped, EncoderStarted
<1>10. CASE TakeControl
  BY <1>9, <1>10 DEF TakeControl
<1>11. CASE RecoverFromLag
  BY <1>9, <1>11 DEF RecoverFromLag
<1>12. CASE SendPicture
  BY <1>9, <1>12 DEF SendPicture
<1>13. CASE SendFails
  BY <1>9, <1>13 DEF SendFails
<1>14. CASE ViewerStep
  BY <1>9, <1>14 DEF ViewerStep, AcceptStream, DiscardRest, ReadPart, ReadPicture, TakeOrder,
     StreamFinished, StreamFailed, DecodePacket, StopWatching, ResumeWatching
<1>15. CASE UNCHANGED shareVars
  BY <1>9, <1>15 DEF shareVars
<1>16. QED
  BY <1>3, <1>4, <1>5, <1>6, <1>7, <1>8, <1>10, <1>11, <1>12, <1>13, <1>14, <1>15
     DEF Next, ViewerStep

Window == [stream : 0..MaxStreams, stopped : 0..MaxStreams,
           ended : 0..MaxStreams, picture : 0..MaxStreams]

LEMMA WindowsTyped ==
  ASSUME Inv
  PROVE  \A g \in 0..MaxStreams :
           /\ [window EXCEPT !.stream = g, !.ended = 0,
                 !.stopped = IF window.stopped < g THEN 0 ELSE window.stopped] \in Window
           /\ [window EXCEPT !.ended = g, !.picture = 0,
                 !.stopped = IF window.stopped = g THEN 0 ELSE window.stopped] \in Window
           /\ [window EXCEPT !.stream = g, !.picture = g] \in Window
           /\ [window EXCEPT !.stopped = g, !.picture = 0] \in Window
           /\ [window EXCEPT !.stopped = 0] \in Window
<1>1. window \in Window /\ MaxStreams \in Nat /\ 0 \in 0..MaxStreams
  BY DEF Inv, TypeOK, ShareStreamsAssumption, Window
<1>2. QED
  BY <1>1 DEF Window

LEMMA ViewerTyped ==
  ASSUME Inv, [Next]_shareVars
  PROVE  /\ window' \in Window
         /\ orders' \in Seq(Control) /\ controls' \in Seq(Control)
         /\ decoder' \in [packets : Seq(Packet), last : Number \cup {Nothing}]
<1>1. /\ ShareStreamsAssumption /\ MaxStreams \in Nat
      /\ window \in Window /\ window.stream \in 0..MaxStreams /\ window.stopped \in 0..MaxStreams
      /\ orders \in Seq(Control) /\ controls \in Seq(Control)
      /\ decoder \in [packets : Seq(Packet), last : Number \cup {Nothing}]
      /\ receiver \in Receiver /\ receiver.generation \in 0..MaxStreams
      /\ (Reading => receiver.generation # 0) /\ wire \in Seq(Item)
  BY DEF Inv, TypeOK, ShareStreamsAssumption, Started, Window, Receiver
<1>2. receiver' \in Receiver /\ receiver'.generation \in 0..MaxStreams
  BY GenerationsStep DEF Receiver
<1>3. CASE UNCHANGED <<window, orders, controls, decoder>>
  BY <1>1, <1>3
<1>4. CASE \/ WorkerStep \/ EncodePicture \/ RecoverFromLag \/ SendPicture
           \/ DiscardRest \/ ReadPart \/ UNCHANGED shareVars
  <2>1. UNCHANGED <<window, orders, controls, decoder>>
    BY <1>4 DEF WorkerStep, EncodePicture, RecoverFromLag, SendPicture, DiscardRest, ReadPart,
       ToggleSharingOn, ToggleSharingOff, SetVideoConfig, PipelineFails, HandleCaptureFailure,
       SendFails, shareVars
  <2>2. QED
    BY <1>3, <2>1
<1>5. CASE TakeControl
  <2>1. controls # <<>> /\ controls' = Tail(controls) /\ UNCHANGED <<window, orders, decoder>>
    BY <1>5 DEF TakeControl
  <2>2. QED
    BY <1>1, <2>1, TailFacts
<1>6. CASE AcceptStream
  <2> DEFINE g == receiver.generation + 1
  <2>1. /\ receiver' = [receiver EXCEPT !.generation = g, !.reading = TRUE,
                  !.watching = TRUE, !.waiting = FALSE, !.half = FALSE, !.torn = FALSE]
        /\ WindowAccepts(g) /\ UNCHANGED <<orders, controls, decoder>>
    BY <1>6 DEF AcceptStream
  <2>2. g \in 0..MaxStreams
    BY <1>1, <1>2, <2>1 DEF Receiver
  <2>3. window' \in Window
    BY <1>1, <2>1, <2>2, WindowsTyped DEF WindowAccepts
  <2>4. QED
    BY <1>1, <2>1, <2>3
<1>7. CASE ReadPicture
  <2>1. /\ UNCHANGED <<window, orders, controls>> /\ Reading
        /\ wire # <<>> /\ Head(wire).kind = "picture"
        /\ decoder' = decoder \/ SubmitPacket(Head(wire).picture)
    BY <1>7 DEF ReadPicture, NextItem
  <2>2. Head(wire).picture \in Picture
    BY <1>1, <2>1, TailFacts, Items
  <2>3. receiver.generation \in 1..MaxStreams
    BY <1>1, <2>1
  <2> DEFINE p == [picture |-> Head(wire).picture, stream |-> receiver.generation]
  <2>4. p \in Packet
    BY <2>2, <2>3 DEF Packet
  <2>5. decoder.packets \in Seq(Packet)
    BY <1>1
  <2>6. Append(decoder.packets, p) \in Seq(Packet)
    BY <2>4, <2>5, AppendedFacts
  <2>7. decoder' = decoder \/ decoder' = [decoder EXCEPT !.packets = Append(decoder.packets, p)]
    BY <2>1 DEF SubmitPacket
  <2> HIDE DEF p
  <2>8. QED
    BY <1>1, <2>1, <2>6, <2>7
<1>8. CASE TakeOrder
  <2>1. /\ orders # <<>> /\ orders' = Tail(orders) /\ UNCHANGED <<window, decoder>>
        /\ controls' = controls \/ controls' = Append(controls, Head(orders))
    BY <1>8 DEF TakeOrder
  <2>2. Tail(orders) \in Seq(Control) /\ Head(orders) \in Control
    BY <1>1, <2>1, TailFacts
  <2>3. Append(controls, Head(orders)) \in Seq(Control)
    BY <1>1, <2>2, AppendedFacts
  <2>4. QED
    BY <1>1, <2>1, <2>2, <2>3
<1>9. CASE StreamFinished \/ StreamFailed
  <2>1. WindowEnds(receiver.generation) /\ UNCHANGED <<orders, controls, decoder>>
    BY <1>9 DEF StreamFinished, StreamFailed, Ends
  <2>2. window' \in Window
    BY <1>1, <2>1, WindowsTyped DEF WindowEnds
  <2>3. QED
    BY <1>1, <2>1, <2>2
<1>10. CASE DecodePacket
  <2> DEFINE packet == Head(decoder.packets)
  <2>1. /\ decoder.packets # <<>> /\ UNCHANGED <<orders, controls>>
        /\ decoder' = [packets |-> Tail(decoder.packets), last |-> packet.picture.n]
        /\ \/ window' = window
           \/ window' = [window EXCEPT !.stream = packet.stream, !.picture = packet.stream]
    BY <1>10 DEF DecodePacket
  <2>2. decoder.packets \in Seq(Packet)
    BY <1>1
  <2>3. packet \in Packet /\ Tail(decoder.packets) \in Seq(Packet)
    BY <2>1, <2>2, TailFacts
  <2> HIDE DEF packet
  <2>4. packet.picture.n \in Number /\ packet.stream \in 0..MaxStreams
    BY <1>1, <2>3 DEF Packet, Picture
  <2>5. QED
    BY <1>1, <2>1, <2>3, <2>4, WindowsTyped
<1>11. \A g \in 1..MaxStreams, b \in BOOLEAN :
          Append(orders, [stream |-> g, watching |-> b]) \in Seq(Control)
  <2>1. \A g \in 1..MaxStreams, b \in BOOLEAN : [stream |-> g, watching |-> b] \in Control
    BY DEF Control
  <2>2. QED
    BY <1>1, <2>1, AppendedFacts
<1>12. CASE StopWatching
  <2>1. /\ window.stream # 0 /\ UNCHANGED <<controls, decoder>>
        /\ window' = [window EXCEPT !.stopped = window.stream, !.picture = 0]
        /\ orders' = Append(orders, [stream |-> window.stream, watching |-> FALSE])
    BY <1>12 DEF StopWatching, SetWatching
  <2>2. window.stream \in 1..MaxStreams
    BY <1>1, <2>1
  <2>3. QED
    BY <1>1, <1>11, <2>1, <2>2, WindowsTyped
<1>13. CASE ResumeWatching
  <2>1. /\ window.stopped # 0 /\ UNCHANGED <<controls, decoder>>
        /\ window' = [window EXCEPT !.stopped = 0]
        /\ orders' = Append(orders, [stream |-> window.stopped, watching |-> TRUE])
    BY <1>13 DEF ResumeWatching, SetWatching
  <2>2. window.stopped \in 1..MaxStreams
    BY <1>1, <2>1
  <2>3. QED
    BY <1>1, <1>11, <2>1, <2>2, WindowsTyped
<1>14. QED
  BY <1>4, <1>5, <1>6, <1>7, <1>8, <1>9, <1>10, <1>12, <1>13 DEF Next, WorkerStep


LEMMA BoundsKept ==
  ASSUME Inv, [Next]_shareVars
  PROVE  choices' \in 0..MaxChoices /\ faults' \in 0..MaxFaults
<1>1. /\ MaxChoices \in Nat /\ MaxFaults \in Nat
      /\ choices \in 0..MaxChoices /\ faults \in 0..MaxFaults
  BY DEF Inv, TypeOK, ShareStreamsAssumption
<1>2. choices' = choices \/ Chosen
  BY DEF Next, shareVars, ToggleSharingOn, ToggleSharingOff, SetVideoConfig, PipelineFails,
     HandleCaptureFailure, EncodePicture, TakeControl, RecoverFromLag, SendPicture, SendFails,
     AcceptStream, DiscardRest, ReadPart, ReadPicture, TakeOrder, StreamFinished, StreamFailed,
     DecodePacket, StopWatching, ResumeWatching
<1>3. faults' = faults \/ Faulty
  BY DEF Next, shareVars, ToggleSharingOn, ToggleSharingOff, SetVideoConfig, PipelineFails,
     HandleCaptureFailure, EncodePicture, TakeControl, RecoverFromLag, SendPicture, SendFails,
     AcceptStream, DiscardRest, ReadPart, ReadPicture, TakeOrder, StreamFinished, StreamFailed,
     DecodePacket, StopWatching, ResumeWatching
<1>4. QED
  BY <1>1, <1>2, <1>3 DEF Chosen, Faulty
-----------------------------------------------------------------------------
(***************************************************************************)
(* The inductive invariant and what follows from it.                       *)
(***************************************************************************)
LEMMA InitInv ==
  ASSUME ShareStreamsAssumption, Init
  PROVE  Inv
<1>1. /\ 0 \in 0..MaxStreams /\ 0 \in 0..MaxPipelines /\ 0 \in 0..MaxChoices
      /\ 0 \in 0..MaxFaults /\ MaxStreams \in Nat
  BY DEF ShareStreamsAssumption
<1>2. Len(<<>>) = 0 /\ \A S : <<>> \in Seq(S)
  OBVIOUS
<1>3. TypeOK
  <2>1. worker \in [sharing : BOOLEAN, pipeline : 0..MaxPipelines,
                    failures : Seq(1..MaxPipelines)]
    BY <1>1, <1>2 DEF Init
  <2>2. encoder \in Encoder
    BY Numbers DEF Init, NewEncoder, Encoder
  <2>3. sender \in SendTask
    BY <1>1, <1>2 DEF Init, NoSender, SendTask
  <2>4. receiver \in Receiver
    BY <1>1 DEF Init, Receiver
  <2>5. wire \in Seq(Item) /\ controls \in Seq(Control) /\ orders \in Seq(Control)
    BY <1>2 DEF Init
  <2>6. decoder \in [packets : Seq(Packet), last : Number \cup {Nothing}]
    BY <1>2 DEF Init
  <2>7. window \in [stream : 0..MaxStreams, stopped : 0..MaxStreams,
                    ended : 0..MaxStreams, picture : 0..MaxStreams]
    BY <1>1 DEF Init
  <2>8. missed \in BOOLEAN /\ choices \in 0..MaxChoices /\ faults \in 0..MaxFaults
    BY <1>1 DEF Init
  <2>9. QED
    BY <2>1, <2>2, <2>3, <2>4, <2>5, <2>6, <2>7, <2>8 DEF TypeOK
<1>4. Started
  BY DEF Init, Started, Reading, NewEncoder
<1>5. Generations
  <2>1. wire = <<>> /\ receiver.generation = 0 /\ sender.stream = 0
    BY DEF Init, NoSender
  <2> DEFINE f == [i \in 0..0 |-> 0]
  <2>2. f \in [0..0 -> 0..MaxStreams] /\ f[0] = 0 /\ \A i \in 1..0 : FALSE
    BY <1>1
  <2>3. Streams(wire, 0, 0)
    BY <1>2, <2>1, <2>2 DEF Streams
  <2>4. QED
    BY <2>1, <2>3 DEF Generations
<1>6. PacketsFollow /\ WireFollows /\ QueueFollows
  BY <1>2 DEF Init, PacketsFollow, WireFollows, QueueFollows, NoSender
<1>7. HeadFollows /\ NextFollows /\ ~missed
  BY DEF Init, HeadFollows, NextFollows, Open, NoSender
<1>8. QED
  BY <1>3, <1>4, <1>5, <1>6, <1>7 DEF Inv

LEMMA InvStep ==
  ASSUME Inv, [Next]_shareVars
  PROVE  Inv'
<1>1. Chain' /\ sender' \in SendTask /\ wire' \in Seq(Item)
  BY ChainStep
<1>2. Generations' /\ receiver' \in Receiver /\ (Reading' => receiver'.generation # 0)
  BY GenerationsStep
<1>3. WorkerTyped' /\ encoder' \in Encoder /\ EncoderStarted'
  BY SharerTyped
<1>4. /\ window' \in Window /\ orders' \in Seq(Control) /\ controls' \in Seq(Control)
      /\ decoder' \in [packets : Seq(Packet), last : Number \cup {Nothing}]
  BY ViewerTyped
<1>5. choices' \in 0..MaxChoices /\ faults' \in 0..MaxFaults
  BY BoundsKept
<1>6. missed' \in BOOLEAN
  <2>1. missed \in BOOLEAN
    BY DEF Inv, TypeOK
  <2>2. CASE DecodePacket
    BY <2>2 DEF DecodePacket
  <2>3. CASE ~DecodePacket
    <3>1. missed' = missed
      BY <2>3 DEF Next, shareVars, ToggleSharingOn, ToggleSharingOff, SetVideoConfig,
         PipelineFails, HandleCaptureFailure, EncodePicture, TakeControl, RecoverFromLag,
         SendPicture, SendFails, AcceptStream, DiscardRest, ReadPart, ReadPicture, TakeOrder,
         StreamFinished, StreamFailed, StopWatching, ResumeWatching
    <3>2. QED
      BY <2>1, <3>1
  <2>4. QED
    BY <2>2, <2>3
<1>7. TypeOK'
  BY <1>1, <1>2, <1>3, <1>4, <1>5, <1>6, Zenon
     DEF TypeOK, WorkerTyped, Window, Encoder, SendTask, Receiver, Item, Control, Packet,
         Nothing, Picture, Number
<1>8. Started'
  BY <1>2, <1>3 DEF Started, EncoderStarted
<1>9. ShareStreamsAssumption'
  BY DEF Inv, ShareStreamsAssumption
<1>10. QED
  BY <1>1, <1>2, <1>7, <1>8, <1>9 DEF Inv, Chain

\* The invariant holds whatever the scheduler does.
LEMMA InvPromises == Inv => TypeOK /\ ReferenceIsThere
BY DEF Inv, ReferenceIsThere

LEMMA Invariance == ShareStreamsAssumption /\ Init /\ [][Next]_shareVars => []Inv
<1>1. ShareStreamsAssumption /\ Init => Inv
  BY InitInv
<1>2. Inv /\ [Next]_shareVars => Inv'
  BY InvStep
<1>3. QED
  BY <1>1, <1>2, PTL

\* The tasks, threads and queues of a share keep to their states, and streams
\* are counted alike on both sides.
THEOREM TypeCorrect == ShareStreamsAssumption /\ Spec => []TypeOK
BY InvPromises, Invariance, PTL DEF Spec

\* The decoder is never handed a picture whose reference it has not seen,
\* whatever lag, congestion, pause, replacement or new settings skipped.
THEOREM ReferencesAreThere == ShareStreamsAssumption /\ Spec => []ReferenceIsThere
BY InvPromises, Invariance, PTL DEF Spec
=============================================================================
