---------------------------- MODULE ChatDelivery ----------------------------
(***************************************************************************)
(* Delivery of messages in one conversation of Wire's chat service          *)
(* (wire-app/src/chat.rs).  A message travels twice: as an entry of the    *)
(* replicated document, and in the body of a wake, the packet that nudges  *)
(* the peer.  Receipts travel the same two ways.  The wakes of a member    *)
(* run in tasks of their own and report back; the author's screen shows    *)
(* what the service knows of each of its messages.                         *)
(*                                                                         *)
(* Timers fire at any time after they are armed.  The documents of one     *)
(* epoch are one document here: which one it is, is ConversationReplica's. *)
(***************************************************************************)
EXTENDS Integers, Sequences, FiniteSets, SequencesExt

CONSTANTS
  Node,         \* the members of the conversation
  Writers,      \* the members whose user writes messages
  Clearers,     \* the members whose user may clear the history
  Unreliable,   \* the members whose connections to the others may fail
  DocsWork,     \* whether the documents can be synchronised at all
  MaxMessages,  \* bound: messages of one writer in one epoch
  MaxEpoch,     \* bound: no clear beyond this epoch
  MaxLost,      \* bound on the wakes that fail
  MaxCrashes,   \* bound on the crashes
  QueueAfter    \* CHAT_QUEUE_AFTER_FAILURES

ASSUME MemberAssumption == Writers \cup Clearers \cup Unreliable \subseteq Node
ASSUME BoundAssumption ==
  /\ MaxMessages \in Nat
  /\ MaxEpoch \in Nat
  /\ MaxLost \in Nat
  /\ MaxCrashes \in Nat
  /\ QueueAfter \in Nat \ {0}
  /\ DocsWork \in BOOLEAN

VARIABLES
  replica,   \* replica[n]: the document in the member's docs store
  service,   \* service[n]: the state of the member's service and its tasks
  inbox,     \* sync requests accepted and not yet handled
  lost,      \* how many wakes failed
  crashes,   \* how many crashes happened
  sent       \* the messages committed so far

vars == <<replica, service, inbox, lost, crashes, sent>>

Message == [author : Node, number : 1..MaxMessages, epoch : 0..MaxEpoch]
Receipt == [by : Node, message : Message]
Replica == [epoch : 0..MaxEpoch, messages : SUBSET Message, receipts : SUBSET Receipt]
Payload == [messages : SUBSET Message, receipts : SUBSET Receipt]
Request == [from : Node, to : Node, messages : SUBSET Message, receipts : SUBSET Receipt]
Shown   == {"nothing", "pending", "retrying", "queued", "delivered"}

Others(n) == Node \ {n}

(***************************************************************************)
(* The service's volatile state: pending_deliveries, the messages of       *)
(* retry_state, wake_failures, the receipt cooldown and staged_inbound;    *)
(* the wakes that run and their unread reports; whether a remote insert    *)
(* waits to be handled; and what the user sees, the delivery state of each *)
(* message and the last timeline.                                          *)
(***************************************************************************)
Service == [pending : SUBSET Message, retry : SUBSET Message,
            failures : 0..QueueAfter, cooldown : BOOLEAN, staged : SUBSET Message,
            wakes : Seq(Payload), finished : Seq(BOOLEAN), changed : BOOLEAN,
            shown : [Message -> Shown], timeline : SUBSET Message]

NewService ==
  [pending |-> {}, retry |-> {}, failures |-> 0, cooldown |-> FALSE, staged |-> {},
   wakes |-> <<>>, finished |-> <<>>, changed |-> FALSE,
   shown |-> [m \in Message |-> "nothing"], timeline |-> {}]

EmptyReplica(e) == [epoch |-> e, messages |-> {}, receipts |-> {}]

Init ==
  /\ replica = [n \in Node |-> EmptyReplica(0)]
  /\ service = [n \in Node |-> NewService]
  /\ inbox = {}
  /\ lost = 0
  /\ crashes = 0
  /\ sent = {}
-----------------------------------------------------------------------------
(***************************************************************************)
(* Parts of the handlers: each maps a state of the service to the next.    *)
(***************************************************************************)

InFlight(s) == Len(s.wakes) + Len(s.finished)
IsQueued(s) == s.failures = QueueAfter

\* spawn_wake_with: the payload is read when the wake is spawned.
Woken(s, receipts) ==
  [s EXCEPT !.wakes = Append(@, [messages |-> s.pending, receipts |-> receipts])]

Show(s, ms, state) ==
  [s EXCEPT !.shown = [m \in Message |-> IF m \in ms THEN state ELSE @[m]]]

\* schedule_delivery_retry for every pending message.
Scheduled(s) == [s EXCEPT !.retry = @ \cup s.pending]

\* resume_queued_deliveries
Resumed(s) ==
  IF s.pending = {} \/ s.retry # {} \/ InFlight(s) > 0
  THEN s
  ELSE Woken(Show(Scheduled([s EXCEPT !.failures = 0]), s.pending, "pending"), {})

\* Of the deliveries ms nothing more is owed.
RetiredAndKept(s, ms) ==  \* mutation: the message stays owed
  Show(s, ms, "delivered")

Retired(s, ms) ==
  [Show(s, ms, "delivered") EXCEPT
     !.pending = @ \ ms,
     !.retry = @ \ ms]

\* merge_staged_inbound: a staged message leaves once the document has it.
StagedOnce(s, r) ==  \* mutation: a staged message leaves when it is shown
  [s EXCEPT !.staged = {}, !.timeline = r.messages \cup s.staged]

Merged(s, r) ==
  [s EXCEPT !.staged = @ \ r.messages, !.timeline = r.messages \cup s.staged]

\* acknowledge_received_messages
NewReceipts(n, s, r) ==
  {[by |-> n, message |-> m] : m \in {t \in s.timeline : t.author # n}} \ r.receipts

\* spawn_receipt_wake: at most one in CHAT_RECEIPT_WAKE_COOLDOWN.
ReceiptsWoken(s, receipts) ==
  IF receipts = {} \/ s.cooldown
  THEN s
  ELSE Woken([s EXCEPT !.cooldown = TRUE], receipts)

\* load_delivered_message_ids
DeliveredNowhere(n, r) == {}  \* mutation: the receipts of the document are not found
Delivered(n, r) == {c.message : c \in {d \in r.receipts : d.by # n}}

PublishTimeline(n, s, r) ==
  LET merged   == Merged(s, r)
      receipts == NewReceipts(n, merged, r)
      written  == [r EXCEPT !.receipts = @ \cup receipts]
      woken    == ReceiptsWoken(merged, receipts)
      due      == {m \in woken.pending \cap woken.timeline : m \in Delivered(n, written)}
  IN /\ service' = [service EXCEPT ![n] = Retired(woken, due)]
     /\ replica' = [replica EXCEPT ![n] = written]

\* forget_conversation_local_state
ForgottenLate(s) == [s EXCEPT !.staged = {}]  \* mutation: pending deliveries survive
ForgottenTimers(s) == [s EXCEPT !.pending = {}, !.staged = {}]  \* mutation
Forgotten(s) == [s EXCEPT !.pending = {}, !.retry = {}, !.staged = {}]
-----------------------------------------------------------------------------
(***************************************************************************)
(* The author's side.                                                      *)
(***************************************************************************)
\* The author's messages are numbered in the order they are written.
NextMessage(n, m) ==
  /\ m \notin sent
  /\ m.author = n
  /\ m.epoch = replica[n].epoch
  /\ \A k \in 1..(m.number - 1) : [m EXCEPT !.number = k] \in sent

SendMessage(n) ==
  /\ n \in Writers
  /\ \E m \in Message :
       LET s == Scheduled([service[n] EXCEPT !.pending = @ \cup {m}])
           r == [replica[n] EXCEPT !.messages = @ \cup {m}]
       IN /\ NextMessage(n, m)
          /\ sent' = sent \cup {m}
          /\ PublishTimeline(n, Woken(Show(s, {m}, "pending"), {}), r)
  /\ UNCHANGED <<inbox, lost, crashes>>

\* A wake reaches the peers of got; those of answered also say so in time.
WakePeers(n) ==
  \E i \in 1..Len(service[n].wakes), got, answered \in SUBSET Others(n) :
    LET wake == service[n].wakes[i] IN
       /\ answered \subseteq got
       /\ IF answered = Others(n)
          THEN UNCHANGED lost
          ELSE n \in Unreliable /\ lost < MaxLost /\ lost' = lost + 1
       /\ inbox' = inbox \cup
            {[from |-> n, to |-> p, messages |-> wake.messages,
              receipts |-> wake.receipts] : p \in got}
       /\ service' = [service EXCEPT ![n].wakes = RemoveAt(@, i),
                                     ![n].finished = Append(@, answered # {})]
       /\ UNCHANGED <<replica, crashes, sent>>

FailureCounted(s) == [s EXCEPT !.failures = IF @ = QueueAfter THEN @ ELSE @ + 1]

WakeFailed(s) ==
  LET counted == FailureCounted(s)
      shown   == IF IsQueued(counted) THEN Show(counted, s.pending, "queued") ELSE counted
  IN IF InFlight(s) > 0 THEN shown ELSE Scheduled(shown)

ApplyWakeFinished(n) ==
  LET reached == Head(service[n].finished)
      s == [service[n] EXCEPT !.finished = Tail(@)]
  IN /\ service[n].finished # <<>>
     /\ service' = [service EXCEPT ![n] =
          IF s.pending = {} THEN s
          ELSE IF reached THEN Scheduled([s EXCEPT !.failures = 0])
          ELSE WakeFailed(s)]
     /\ UNCHANGED <<replica, inbox, lost, crashes, sent>>

\* Never while a wake is in flight.  While the peer is taken for offline the screen keeps showing "queued".
RetryDueDeliveries(n) ==
  LET s == service[n] IN
  /\ s.retry # {}
  /\ InFlight(s) = 0
  /\ service' = [service EXCEPT ![n] =
       IF IsQueued(s)
       THEN Woken(s, {})
       ELSE Show(Woken(s, {}), s.retry \cap s.pending, "retrying")]
  /\ UNCHANGED <<replica, inbox, lost, crashes, sent>>
-----------------------------------------------------------------------------
(***************************************************************************)
(* The receiving side.                                                     *)
(***************************************************************************)

\* apply_direct_receipts, for the receipts of deliveries still owed.
ReceiptsApplied(s, request) ==
  Retired(s, {c.message : c \in request.receipts} \cap s.pending)

ApplySyncRequest(n, p) ==
  \E request \in inbox :
    /\ request.to = n
    /\ request.from = p
    /\ inbox' = inbox \ {request}
    /\ LET mine == {m \in request.messages : m.author = p}
           s    == ReceiptsApplied([service[n] EXCEPT !.staged = @ \cup mine], request)
       IN PublishTimeline(n, Resumed(s), replica[n])
    /\ UNCHANGED <<lost, crashes, sent>>

DocumentChanged(n) ==
  /\ service[n].changed
  /\ PublishTimeline(n, Resumed([service[n] EXCEPT !.changed = FALSE]), replica[n])
  /\ UNCHANGED <<inbox, lost, crashes, sent>>

CooldownEnds(n) ==
  /\ service[n].cooldown
  /\ service' = [service EXCEPT ![n].cooldown = FALSE]
  /\ UNCHANGED <<replica, inbox, lost, crashes, sent>>

\* iroh-docs: n pulls what p's copy of the same document has.
SyncDocument(n, p) ==
  LET r == replica[n]
      q == replica[p]
      all == [r EXCEPT !.messages = @ \cup q.messages, !.receipts = @ \cup q.receipts]
  IN /\ DocsWork
     /\ r.epoch = q.epoch
     /\ r # all
     /\ replica' = [replica EXCEPT ![n] = all]
     /\ service' = [service EXCEPT ![n].changed = TRUE]
     /\ UNCHANGED <<inbox, lost, crashes, sent>>
-----------------------------------------------------------------------------
(***************************************************************************)
(* History clears and crashes.                                             *)
(***************************************************************************)

\* clear_history ends with a wake of its own.
ClearHistory(n) ==
  /\ n \in Clearers
  /\ replica[n].epoch < MaxEpoch
  /\ PublishTimeline(n, Woken(Forgotten(service[n]), {}), EmptyReplica(replica[n].epoch + 1))
  /\ UNCHANGED <<inbox, lost, crashes, sent>>

\* accept_invite of a higher epoch.
AdoptReset(n, p) ==
  /\ replica[p].epoch > replica[n].epoch
  /\ PublishTimeline(n, Forgotten(service[n]), EmptyReplica(replica[p].epoch))
  /\ UNCHANGED <<inbox, lost, crashes, sent>>

\* restore_pending_delivery_retries, after the first timeline.
RestoredNothing(n, s, r) == s  \* mutation: the owed deliveries are not looked for

Restored(n, s, r) ==
  LET owed == {m \in r.messages : m.author = n} \ Delivered(n, r) IN
  IF owed = {}
  THEN s
  ELSE Woken(Show([s EXCEPT !.pending = owed, !.retry = owed], owed, "pending"), {})

\* The first timeline may already wake the peer with its receipts.
Restart(n) ==
  LET r == replica[n]
      s == Merged(NewService, r)
      receipts == NewReceipts(n, s, r)
      written == [r EXCEPT !.receipts = @ \cup receipts]
  IN /\ crashes < MaxCrashes
     /\ crashes' = crashes + 1
     /\ inbox' = {i \in inbox : i.to # n}
     /\ replica' = [replica EXCEPT ![n] = written]
     /\ service' = [service EXCEPT ![n] = Restored(n, ReceiptsWoken(s, receipts), written)]
     /\ UNCHANGED <<lost, sent>>
-----------------------------------------------------------------------------
Next ==
  \E n \in Node :
    \/ SendMessage(n)
    \/ WakePeers(n)
    \/ ApplyWakeFinished(n)
    \/ RetryDueDeliveries(n)
    \/ DocumentChanged(n)
    \/ CooldownEnds(n)
    \/ ClearHistory(n)
    \/ Restart(n)
    \/ \E p \in Others(n) :
         \/ ApplySyncRequest(n, p)
         \/ SyncDocument(n, p)
         \/ AdoptReset(n, p)

Spec == Init /\ [][Next]_vars

(***************************************************************************)
(* Every input of the select loop is served, every wake ends, the retry    *)
(* clock ticks, an invitation arrives and, while it works at all, the      *)
(* synchronisation of documents gets through.  Users and failures are      *)
(* under no obligation.                                                    *)
(***************************************************************************)
Fairness ==
  \A n \in Node :
    /\ WF_vars(WakePeers(n))
    /\ WF_vars(ApplyWakeFinished(n))
    /\ WF_vars(RetryDueDeliveries(n))
    /\ WF_vars(DocumentChanged(n))
    /\ WF_vars(CooldownEnds(n))
    /\ \A p \in Others(n) :
         /\ WF_vars(ApplySyncRequest(n, p))
         /\ WF_vars(SyncDocument(n, p))
         /\ WF_vars(AdoptReset(n, p))

FairSpec == Spec /\ Fairness
-----------------------------------------------------------------------------
TypeOK ==
  /\ replica \in [Node -> Replica]
  /\ service \in [Node -> Service]
  /\ inbox \subseteq Request
  /\ lost \in Nat
  /\ crashes \in Nat
  /\ sent \subseteq Message

(***************************************************************************)
(* No delivery is owed without a timer that will retry it: whatever order  *)
(* sends, reports, receipts, clears and restarts come in, every pending    *)
(* message is in the retry state of its conversation, and nothing else is. *)
(***************************************************************************)
OwedIsScheduled ==
  \A n \in Node : service[n].pending = service[n].retry

(***************************************************************************)
(* A message the author has committed is owed until its user sees that a   *)
(* peer has it: the three records of it, the document, pending_deliveries  *)
(* and the screen, never drop it between them.                             *)
(***************************************************************************)
CommittedIsOwedOrDelivered ==
  \A n \in Node : \A m \in replica[n].messages :
    m.author = n => \/ m \in service[n].pending
                    \/ service[n].shown[m] = "delivered"
                    \/ m \in Delivered(n, replica[n])

(***************************************************************************)
(* A history clear drops the deliveries that were owed with the document   *)
(* (docs/chat-offline-queue.md: "drop pending/queued for that conversation *)
(* with the doc"): nothing of an earlier epoch is still owed.              *)
(***************************************************************************)
ClearDropsWhatIsOwed ==
  \A n \in Node : \A m \in service[n].pending : m.epoch = replica[n].epoch

(***************************************************************************)
(* The screen says "delivered" only of messages another member has, in its *)
(* document or staged (docs/why-chat-retries-when-online.md: "Their app    *)
(* has to actually receive it").                                           *)
(***************************************************************************)
DeliveredHasHolder ==
  \A n \in Node, m \in sent :
    service[n].shown[m] = "delivered" =>
      \E p \in Others(n) : m \in replica[p].messages \cup service[p].staged

(***************************************************************************)
(* A crash loses what is staged and a clear discards the document; until   *)
(* then nothing the screen says of deliveries is untrue.                   *)
(***************************************************************************)
Undisturbed == crashes = 0 /\ \A n \in Node : replica[n].epoch = 0

DeliveredIsHeld == Undisturbed => DeliveredHasHolder

(***************************************************************************)
(* What the screen has called delivered it does not call pending, retrying *)
(* or queued again while the program runs: the reports of wakes that were  *)
(* spawned before the receipt came are no news.                            *)
(***************************************************************************)
DeliveredIsFinal ==
  [][\A n \in Node, m \in Message :
       service[n].shown[m] = "delivered" /\ crashes' = crashes
         => service'[n].shown[m] = "delivered"]_vars

(***************************************************************************)
(* The author of every message eventually sees that it was delivered, or   *)
(* after a restart finds the receipt in the document.  With DocsWork FALSE *)
(* this is what the wakes promise alone: publish_timeline's "Receipts ride *)
(* the chat ALPN wake so the sender need not wait on docs".                *)
(***************************************************************************)
EverySendIsDelivered ==
  \A m \in Message :
    m \in sent ~> \/ service[m.author].shown[m] = "delivered"
                 \/ m \in Delivered(m.author, replica[m.author])
=============================================================================
