------------------------------ MODULE ChatTimeline ------------------------------
(***************************************************************************)
(* How one conversation's document becomes the timeline on the screen       *)
(* (wire-app/src/chat.rs): the subscription to the document's events, the   *)
(* signals it sends the service, and the page of messages that             *)
(* publish_timeline reads.                                                 *)
(*                                                                         *)
(* A message is an entry of the document and, apart from it, a blob with    *)
(* its body, which may come later.  The conversation moves to a new         *)
(* document when its history is cleared or a smaller one is adopted.        *)
(***************************************************************************)
EXTENDS Naturals, Sequences, FiniteSets

CONSTANTS
  PageSize,    \* CHAT_TIMELINE_PAGE
  MaxEntries,  \* bound on the messages of a document
  MaxDocs,     \* bound on the documents the conversation moves through
  MaxFaults    \* bound on broken event streams, failed openings and readings

ChatTimelineAssumption ==
  /\ {PageSize, MaxEntries, MaxDocs} \subseteq Nat \ {0}
  /\ MaxFaults \in Nat

VARIABLES
  current,     \* the document the index names
  opening,     \* open_and_publish: "open" or "publish", what is to be done; otherwise
               \* "no", or "unpublished": the last opening or reading has failed
  subscription,\* subscriptions: the document that is subscribed, or 0
  streams,     \* streams[d]: "none", "live", or "ended" and about to say so
  signals,     \* doc_event_rx
  entries,     \* the entries of the current document
  bodies,      \* the entries whose blob is complete
  limit,       \* timeline_limits
  published,   \* the last ChatNotification::Conversation: [messages, hasMore]
  faults

timelineVars == <<current, opening, subscription, streams, signals, entries,
                  bodies, limit, published, faults>>

Doc    == 1..MaxDocs
Entry  == 1..MaxEntries
Signal == [is : {"Changed", "SubscriptionEnded"}, doc : Doc]

Init ==
  /\ current = 1 /\ opening = "open" /\ subscription = 0
  /\ streams = [d \in Doc |-> "none"]
  /\ signals = <<>>
  /\ entries \in {{}, {1}} /\ bodies = {}
  /\ limit = PageSize
  /\ published = [messages |-> {}, hasMore |-> FALSE]
  /\ faults = 0

Fault == faults < MaxFaults /\ faults' = faults + 1
Changed == [is |-> "Changed", doc |-> current]
Idle == opening \in {"no", "unpublished"}
-----------------------------------------------------------------------------
(***************************************************************************)
(* load_recent_messages: the newest limit + 1 entries, those of them whose  *)
(* body is here, and of these the newest limit.                            *)
(***************************************************************************)
Newest(S, n) == {e \in S : Cardinality({f \in S : f > e}) < n}

Page ==
  LET queried == Newest(entries, limit' + 1) \cap bodies
  IN [messages |-> Newest(queried, limit'),
      hasMore  |-> Cardinality(queried) > limit']

\* publish_timeline; a page that cannot be read is an error on the screen, and
\* nothing reads it again before the next signal.
PublishTimeline ==
  \/ published' = Page /\ opening' = "no" /\ UNCHANGED faults
  \/ Fault /\ opening' = "unpublished" /\ UNCHANGED published

\* A live stream turns a change of its document into a signal.
Signalled == IF streams[current] = "live" THEN Append(signals, Changed) ELSE signals
-----------------------------------------------------------------------------
(***************************************************************************)
(* The document.                                                           *)
(***************************************************************************)
InsertEntry ==
  /\ Cardinality(entries) < MaxEntries
  /\ entries' = entries \cup {Cardinality(entries) + 1}
  /\ signals' = Signalled
  /\ UNCHANGED <<current, opening, subscription, streams, bodies, limit, published, faults>>

ContentReady ==
  /\ \E e \in entries \ bodies : bodies' = bodies \cup {e}
  /\ signals' = Signalled
  /\ UNCHANGED <<current, opening, subscription, streams, entries, limit, published, faults>>

\* The stream fails; its task sleeps and then reports it.
StreamEnds(d) ==
  /\ Fault /\ streams[d] = "live"
  /\ streams' = [streams EXCEPT ![d] = "ended"]
  /\ UNCHANGED <<current, opening, subscription, signals, entries, bodies, limit, published>>

ReportEnd(d) ==
  /\ streams[d] = "ended"
  /\ streams' = [streams EXCEPT ![d] = "none"]
  /\ signals' = Append(signals, [is |-> "SubscriptionEnded", doc |-> d])
  /\ UNCHANGED <<current, opening, subscription, entries, bodies, limit, published, faults>>
-----------------------------------------------------------------------------
(***************************************************************************)
(* The service.  open_and_publish takes two steps: other tasks run between  *)
(* its awaits.                                                             *)
(***************************************************************************)
Subscribe ==
  /\ opening = "open"
  /\ opening' = "publish"
  /\ IF subscription = current
     THEN UNCHANGED <<subscription, streams>>
     ELSE /\ subscription' = current
          /\ streams' = [streams EXCEPT ![current] = "live"]
  /\ UNCHANGED <<current, signals, entries, bodies, limit, published, faults>>

OpenAndPublish ==
  /\ opening = "publish"
  /\ UNCHANGED <<current, subscription, streams, signals, entries, bodies, limit>>
  /\ PublishTimeline

\* The document cannot be opened, joined or subscribed, and is not read.
OpeningFails ==
  /\ Fault /\ opening = "open"
  /\ opening' = "unpublished"
  /\ UNCHANGED <<current, subscription, streams, signals, entries, bodies, limit, published>>

Reattaches(d) == subscription = d

SubscriptionKept(d) == subscription  \* mutation: the entry is not removed
SubscriptionWithout(d) == IF Reattaches(d) THEN 0 ELSE subscription

\* process_input, ChatInput::Document.
Document ==
  /\ Idle /\ signals # <<>>
  /\ signals' = Tail(signals)
  /\ UNCHANGED <<current, streams, entries, bodies, limit>>
  /\ LET s == Head(signals) IN
     IF s.is = "Changed"
     THEN PublishTimeline /\ UNCHANGED subscription
     ELSE /\ subscription' = SubscriptionWithout(s.doc)
          /\ opening' = IF Reattaches(s.doc) THEN "open" ELSE opening
          /\ UNCHANGED <<published, faults>>

\* clear_history or accept_invite has moved the index to another document.
MoveToDocument ==
  /\ Idle /\ current < MaxDocs
  /\ current' = current + 1
  /\ entries' = {} /\ bodies' = {}
  /\ opening' = "open"
  /\ UNCHANGED <<subscription, streams, signals, limit, published, faults>>

\* load_older_messages, which the screen offers when there is more.
LoadOlderMessages ==
  /\ Idle /\ published.hasMore
  /\ limit' = limit + PageSize
  /\ UNCHANGED <<current, subscription, streams, signals, entries, bodies>>
  /\ PublishTimeline

\* ensure_direct and initialize open what exists already once more.
OpenAgain ==
  /\ Idle
  /\ opening' = "open"
  /\ UNCHANGED <<current, subscription, streams, signals, entries, bodies, limit,
                 published, faults>>
-----------------------------------------------------------------------------
Next ==
  \/ InsertEntry \/ ContentReady
  \/ \E d \in Doc : StreamEnds(d) \/ ReportEnd(d)
  \/ Subscribe \/ OpenAndPublish \/ OpeningFails \/ Document
  \/ MoveToDocument \/ LoadOlderMessages \/ OpenAgain

\* The service's loop and its tasks run on; bodies follow their entries.
WeakStep(i) ==
  \/ i = 1 /\ ContentReady
  \/ i = 2 /\ \E d \in Doc : ReportEnd(d)
  \/ i = 3 /\ Subscribe
  \/ i = 4 /\ OpenAndPublish
  \/ i = 5 /\ Document
Fairness == \A i \in 1..5 : WF_timelineVars(WeakStep(i))

Spec == Init /\ [][Next]_timelineVars /\ Fairness
-----------------------------------------------------------------------------
TypeOK ==
  /\ current \in Doc /\ subscription \in {0} \cup Doc
  /\ opening \in {"no", "open", "publish", "unpublished"}
  /\ streams \in [Doc -> {"none", "live", "ended"}]
  /\ signals \in Seq(Signal)
  /\ bodies \subseteq entries /\ entries \subseteq Entry
  /\ limit \in Nat /\ limit >= PageSize
  /\ published \in [messages : SUBSET Entry, hasMore : BOOLEAN]
  /\ faults \in 0..MaxFaults

ScreenIsCurrent ==
  /\ published.messages = Newest(entries, limit)
  /\ published.hasMore \/ published.messages = entries

\* The service rests without a subscription to the document: opening it has
\* failed, which is reported and not tried again (chat.rs:1453), also where a
\* signal of the stream that has ended has made it read the page since.
Detached == Idle /\ subscription # current

\* The last opening or reading of the page has failed (chat.rs:1430).
IsUnpublished == opening = "unpublished"

\* Every message of the document comes to be on the screen, or can be reached
\* with "load older", however the event stream breaks and whatever document
\* the conversation moves to; unless the document could not be opened again, or
\* the last reading of it has failed (open_and_publish, DocumentSignal,
\* load_recent_messages).
TimelineFollows == <>[](ScreenIsCurrent \/ Detached \/ IsUnpublished)
=============================================================================
