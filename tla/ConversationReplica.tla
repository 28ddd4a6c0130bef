------------------------- MODULE ConversationReplica -------------------------
(***************************************************************************)
(* One conversation of Wire's chat service (wire-app/src/chat.rs), seen by  *)
(* all of its members: the index entry that names the member's document,   *)
(* the reliable queue of invitations, the documents themselves and the     *)
(* messages in them.                                                       *)
(*                                                                         *)
(* The service of a member is one task that runs one handler at a time; a  *)
(* handler that awaits between two writes is several actions here, linked  *)
(* by task[n], so that a crash may fall between any two of its writes and  *)
(* other members' steps interleave with it.  A message is identified by    *)
(* its author and the history epoch it was written in.                     *)
(***************************************************************************)
EXTENDS Integers, FiniteSets

CONSTANTS
  Node,        \* the members of the conversation
  Doc,         \* the document ids that may be drawn
  Founders,    \* the members whose user may open the conversation
  Clearers,    \* the members whose user may clear its history
  Writers,     \* the members whose user writes messages
  MaxEpoch,    \* bound: no clear beyond this epoch
  MaxLost,     \* bound on the packets that never arrive
  MaxCrashes,  \* bound on the crashes
  MaxErrors    \* bound on the handlers that fail half way

ASSUME DocAssumption == Doc \subseteq Nat
ASSUME BoundAssumption ==
  /\ MaxEpoch \in Nat
  /\ MaxLost \in Nat
  /\ MaxCrashes \in Nat
  /\ MaxErrors \in Nat
ASSUME UserAssumption == Founders \cup Clearers \cup Writers \subseteq Node

VARIABLES
  \* Persisted by each member.
  index,      \* index[n]: the replica the member's index.json names
  invites,    \* invites[n]: the invitation entry of reliable-control.json
  held,       \* held[n]: the documents in the member's docs store
  store,      \* store[n][d]: the messages in the member's copy of d
  \* Volatile.
  task,       \* task[n]: the handler in progress
  \* The network.
  sending,    \* invitations on their way
  acks,       \* epoch acknowledgements on their way
  lost,       \* how many packets were lost
  crashes,    \* how many crashes happened
  errors,     \* how many handlers failed half way
  \* History.
  created,    \* the replicas founded so far
  dropped,    \* dropped[n]: the replicas the member has deleted
  sent        \* the messages written so far

failures == <<lost, crashes, errors>>

vars == <<index, invites, held, store, task, sending, acks, failures,
          created, dropped, sent>>

Replica   == [epoch : Nat, doc : Doc]
NoReplica == [epoch |-> -1, doc |-> 0]
Message   == [author : Node, epoch : Nat]
Invite    == [from : Node, to : Node, replica : Replica]
Ack       == [from : Node, to : Node, epoch : Nat]
\* An absent entry: no replica has its epoch.
NoInvites == [epoch |-> -1, peers |-> {}]

Others(n) == Node \ {n}

(***************************************************************************)
(* The canonical order of accept_invite.  BetterAnyEpoch lets a stale      *)
(* invitation win, and tests the properties about the order.               *)
(***************************************************************************)
BetterAnyEpoch(r, s) ==
  \/ r.epoch # s.epoch
  \/ r.epoch = s.epoch /\ r.doc < s.doc

Better(r, s) ==
  \/ r.epoch > s.epoch
  \/ r.epoch = s.epoch /\ r.doc < s.doc

(***************************************************************************)
(* The handler in progress: op is its next step, new the replica it        *)
(* brings, old the one it replaces, from the sender of the invitation it    *)
(* serves and kept the messages it has read for migration.                 *)
(***************************************************************************)
Step == {"idle", "founded", "rotated", "announce", "adopted", "migrate", "record"}
Task == [op : Step, new : Replica \cup {NoReplica}, old : Replica \cup {NoReplica},
         from : Node, kept : SUBSET Message]

IdleTask(n) == [op |-> "idle", new |-> NoReplica, old |-> NoReplica,
                from |-> n, kept |-> {}]
Idle(n) == task[n].op = "idle"

Fresh(d) == \A r \in created : r.doc # d

Init ==
  /\ index = [n \in Node |-> NoReplica]
  /\ invites = [n \in Node |-> NoInvites]
  /\ held = [n \in Node |-> {}]
  /\ store = [n \in Node |-> [d \in Doc |-> {}]]
  /\ task = [n \in Node |-> IdleTask(n)]
  /\ sending = {}
  /\ acks = {}
  /\ lost = 0
  /\ crashes = 0
  /\ errors = 0
  /\ created = {}
  /\ dropped = [n \in Node |-> {}]
  /\ sent = {}
-----------------------------------------------------------------------------
(***************************************************************************)
(* Founding a replica: opening the conversation, or clearing its history.  *)
(***************************************************************************)

\* create_conversation: a new document, one epoch above the member's own.
CreateConversation(n) ==
  \E d \in Doc :
    /\ Fresh(d)
    /\ LET r == [epoch |-> index[n].epoch + 1, doc |-> d] IN
         /\ created' = created \cup {r}
         /\ held' = [held EXCEPT ![n] = @ \cup {d}]
         /\ task' = [task EXCEPT ![n] = [IdleTask(n) EXCEPT !.op = "founded",
                                                           !.new = r,
                                                           !.old = index[n]]]

EnsureDirect(n) ==
  /\ Idle(n)
  /\ n \in Founders
  /\ index[n] = NoReplica
  /\ CreateConversation(n)
  /\ UNCHANGED <<index, invites, store, sending, acks, failures, dropped, sent>>

\* The new document exists before forget_conversation_local_state empties the
\* queue of invitations; the index still names the old document.
ClearHistory(n) ==
  /\ Idle(n)
  /\ n \in Clearers
  /\ index[n] # NoReplica
  /\ index[n].epoch < MaxEpoch
  /\ CreateConversation(n)
  /\ invites' = [invites EXCEPT ![n] = NoInvites]
  /\ UNCHANGED <<index, store, sending, acks, failures, dropped, sent>>

PersistFounded(n) ==
  /\ task[n].op = "founded"
  /\ index' = [index EXCEPT ![n] = task[n].new]
  /\ task' = [task EXCEPT ![n].op = "rotated"]
  /\ UNCHANGED <<invites, held, store, sending, acks, failures, created, dropped, sent>>

\* invite_members_wait: the epoch is owed to every other member, and each is
\* sent one invitation.
InviteMembersWait(n) ==
  /\ task[n].op = "announce"
  /\ invites' = [invites EXCEPT ![n] = [epoch |-> index[n].epoch, peers |-> Others(n)]]
  /\ sending' = sending \cup
       {[from |-> n, to |-> p, replica |-> index[n]] : p \in Others(n)}
  /\ task' = [task EXCEPT ![n] = IdleTask(n)]
  /\ UNCHANGED <<index, held, store, acks, failures, created, dropped, sent>>
-----------------------------------------------------------------------------
(***************************************************************************)
(* Accepting an invitation.                                                *)
(***************************************************************************)

\* The member's own messages: insert_message refuses everyone else's.
NoMessages(n) == {}  \* mutation: the read of the old document fails unnoticed
OwnMessages(n) == {m \in store[n][index[n].doc] : m.author = n}

\* A higher epoch resets the history and so forgets the queue of invitations;
\* a smaller document of the same epoch takes the member's own messages along.
ResetsNever(n, r) == FALSE  \* mutation: history_reset is never set
Resets(n, r) == index[n] # NoReplica /\ r.epoch > index[n].epoch

Adopted(n, i) ==
  [op |-> "adopted", new |-> i.replica, old |-> index[n], from |-> i.from,
   kept |-> IF index[n] = NoReplica \/ Resets(n, i.replica) THEN {} ELSE OwnMessages(n)]

\* mutation: the index is not written before the invitation is acknowledged
AdoptUnsaved(n, i) ==
  /\ task' = [task EXCEPT ![n] = Adopted(n, i)]
  /\ UNCHANGED <<index, invites>>

AdoptInvite(n, i) ==
  /\ index' = [index EXCEPT ![n] = i.replica]
  /\ invites' = IF Resets(n, i.replica) THEN [invites EXCEPT ![n] = NoInvites] ELSE invites
  /\ task' = [task EXCEPT ![n] = Adopted(n, i)]

\* Not canonical, or already named: nothing changes but the queue, in the
\* handler's last step.
IgnoreInvite(n, i) ==
  /\ task' = [task EXCEPT ![n] = [IdleTask(n) EXCEPT !.op = "record",
                                                    !.new = i.replica,
                                                    !.from = i.from]]
  /\ UNCHANGED <<index, invites>>

AcceptInvite(n) ==
  \E i \in sending :
    /\ i.to = n
    /\ Idle(n)
    /\ sending' = sending \ {i}
    /\ IF Better(i.replica, index[n]) THEN AdoptInvite(n, i) ELSE IgnoreInvite(n, i)
    /\ UNCHANGED <<held, store, acks, failures, created, dropped, sent>>

\* drop_document, once the index names the new one.
DropDocument(n) ==
  /\ task[n].op \in {"rotated", "adopted"}
  /\ IF task[n].old = NoReplica
     THEN UNCHANGED <<held, store, dropped>>
     ELSE /\ held' = [held EXCEPT ![n] = @ \ {task[n].old.doc}]
          /\ store' = [store EXCEPT ![n][task[n].old.doc] = {}]
          /\ dropped' = [dropped EXCEPT ![n] = @ \cup {task[n].old}]
  /\ task' = [task EXCEPT ![n].op = IF @ = "rotated" THEN "announce" ELSE "migrate"]
  /\ UNCHANGED <<index, invites, sending, acks, failures, created, sent>>

\* open_and_publish imports the document and insert_message copies the kept
\* messages into it.
MigrateMessages(n) ==
  /\ task[n].op = "migrate"
  /\ held' = [held EXCEPT ![n] = @ \cup {task[n].new.doc}]
  /\ store' = [store EXCEPT ![n][task[n].new.doc] = @ \cup task[n].kept]
  /\ task' = [task EXCEPT ![n].op = "record"]
  /\ UNCHANGED <<index, invites, sending, acks, failures, created, dropped, sent>>

\* The invitation is settled whether it was adopted or not: the member's own
\* entry becomes "nobody is owed this epoch", and the sender is told.
RecordInvite(n) ==
  /\ task[n].op = "record"
  /\ invites' = [invites EXCEPT ![n] = [epoch |-> task[n].new.epoch, peers |-> {}]]
  /\ acks' = acks \cup {[from |-> n, to |-> task[n].from, epoch |-> task[n].new.epoch]}
  /\ task' = [task EXCEPT ![n] = IdleTask(n)]
  /\ UNCHANGED <<index, held, store, sending, failures, created, dropped, sent>>
-----------------------------------------------------------------------------
(***************************************************************************)
(* The queue of invitations.                                               *)
(***************************************************************************)

\* retry_due_controls and send_pending_invites: only the epoch the index names.
RetryInvites(n) ==
  /\ Idle(n)
  /\ index[n] # NoReplica
  /\ invites[n].epoch = index[n].epoch
  /\ invites[n].peers # {}
  /\ sending' = sending \cup
       {[from |-> n, to |-> p, replica |-> index[n]] : p \in invites[n].peers}
  /\ UNCHANGED <<index, invites, held, store, task, acks, failures, created, dropped, sent>>

AcksAnyEpoch(n, a) == TRUE  \* mutation: the epoch of an acknowledgement is not compared
AcksPending(n, a) == invites[n].epoch = a.epoch

ApplyControlAcks(n) ==
  \E a \in acks :
    /\ a.to = n
    /\ Idle(n)
    /\ acks' = acks \ {a}
    /\ invites' = IF AcksPending(n, a)
                  THEN [invites EXCEPT ![n].peers = @ \ {a.from}]
                  ELSE invites
    /\ UNCHANGED <<index, held, store, task, sending, failures, created, dropped, sent>>
-----------------------------------------------------------------------------
(***************************************************************************)
(* Messages and documents.                                                 *)
(***************************************************************************)
SendMessage(n) ==
  LET m == [author |-> n, epoch |-> index[n].epoch] IN
  /\ Idle(n)
  /\ n \in Writers
  /\ index[n] # NoReplica
  /\ m \notin sent
  /\ sent' = sent \cup {m}
  /\ store' = [store EXCEPT ![n][index[n].doc] = @ \cup {m}]
  /\ UNCHANGED <<index, invites, held, task, sending, acks, failures, created, dropped>>

\* iroh-docs: the open copies of one document exchange their entries.
SyncDocument(n, p) ==
  \E d \in held[n] \cap held[p] :
    /\ ~ store[p][d] \subseteq store[n][d]
    /\ store' = [store EXCEPT ![n][d] = @ \cup store[p][d]]
    /\ UNCHANGED <<index, invites, held, task, sending, acks, failures, created,
                   dropped, sent>>
-----------------------------------------------------------------------------
(***************************************************************************)
(* Failures.                                                               *)
(***************************************************************************)
LosePacket ==
  /\ lost < MaxLost
  /\ lost' = lost + 1
  /\ \/ \E i \in sending : sending' = sending \ {i} /\ UNCHANGED acks
     \/ \E a \in acks : acks' = acks \ {a} /\ UNCHANGED sending
  /\ UNCHANGED <<index, invites, held, store, task, crashes, errors, created,
                 dropped, sent>>

\* What initialize_invite_deliveries leaves of the queue: an entry of another
\* epoch, or none, is replaced by "everyone is owed the epoch the index names".
RestoredBlindly(n) ==  \* mutation: a member without the conversation owes it too
  IF invites[n].epoch = index[n].epoch /\ index[n] # NoReplica
  THEN invites[n]
  ELSE [epoch |-> index[n].epoch, peers |-> Others(n)]

RestoredInvites(n) ==
  IF index[n] = NoReplica \/ invites[n].epoch = index[n].epoch
  THEN invites[n]
  ELSE [epoch |-> index[n].epoch, peers |-> Others(n)]

\* The process dies at any point and initialize runs: the indexed document is
\* opened, or imported again.
Restart(n) ==
  /\ crashes < MaxCrashes
  /\ crashes' = crashes + 1
  /\ task' = [task EXCEPT ![n] = IdleTask(n)]
  /\ held' = [held EXCEPT ![n] = IF index[n] = NoReplica THEN @ ELSE @ \cup {index[n].doc}]
  /\ invites' = [invites EXCEPT ![n] = RestoredInvites(n)]
  /\ UNCHANGED <<index, store, sending, acks, lost, errors, created, dropped, sent>>

\* A docs call after persist_index fails: the handler returns its error with
\* the index already moved, and nothing after that call happens.
HandlerFails(n) ==
  /\ errors < MaxErrors
  /\ task[n].op \in {"rotated", "announce", "migrate"}
  /\ errors' = errors + 1
  /\ task' = [task EXCEPT ![n] = IdleTask(n)]
  /\ UNCHANGED <<index, invites, held, store, sending, acks, lost, crashes, created,
                 dropped, sent>>
-----------------------------------------------------------------------------
Handle(n) ==
  \/ PersistFounded(n)
  \/ InviteMembersWait(n)
  \/ DropDocument(n)
  \/ MigrateMessages(n)
  \/ RecordInvite(n)

Next ==
  \/ \E n \in Node :
       \/ EnsureDirect(n)
       \/ ClearHistory(n)
       \/ Handle(n)
       \/ AcceptInvite(n)
       \/ RetryInvites(n)
       \/ ApplyControlAcks(n)
       \/ SendMessage(n)
       \/ Restart(n)
       \/ HandlerFails(n)
       \/ \E p \in Others(n) : SyncDocument(n, p)
  \/ LosePacket

Spec == Init /\ [][Next]_vars

(***************************************************************************)
(* A started handler finishes; the service's select loop takes every       *)
(* queued packet and ticks its retry clock, however busy it is.  Users and *)
(* failures are under no obligation.                                       *)
(***************************************************************************)
Fairness ==
  \A n \in Node :
    /\ WF_vars(Handle(n))
    /\ SF_vars(AcceptInvite(n))
    /\ SF_vars(ApplyControlAcks(n))
    /\ SF_vars(RetryInvites(n))

FairSpec == Spec /\ Fairness
-----------------------------------------------------------------------------
TypeOK ==
  /\ index \in [Node -> Replica \cup {NoReplica}]
  /\ invites \in [Node -> [epoch : Nat, peers : SUBSET Node] \cup {NoInvites}]
  /\ held \in [Node -> SUBSET Doc]
  /\ store \in [Node -> [Doc -> SUBSET Message]]
  /\ task \in [Node -> Task]
  /\ sending \subseteq Invite
  /\ acks \subseteq Ack
  /\ lost \in Nat
  /\ crashes \in Nat
  /\ errors \in Nat
  /\ created \subseteq Replica
  /\ dropped \in [Node -> SUBSET Replica]
  /\ sent \subseteq Message

Election == INSTANCE ReplicaElection WITH chosen <- index

(***************************************************************************)
(* A history clear discards what was written before it: no copy of a       *)
(* document ever holds a message of another epoch than the document's, for  *)
(* all that migration carries messages from one document to another.       *)
(* accept_invite's history_reset is what this is about.                    *)
(***************************************************************************)
NothingFromBeforeTheReset ==
  \A n \in Node, r \in created : \A m \in store[n][r.doc] : m.epoch = r.epoch

(***************************************************************************)
(* A document a member has deleted is never the one it names again, so     *)
(* drop_document is safe whatever old invitations are still on their way.  *)
(***************************************************************************)
DroppedNeverReturns ==
  \A n \in Node : \A r \in dropped[n] : Election!Better(index[n], r)

(***************************************************************************)
(* An acknowledgement retires the sender's only reason to repeat the       *)
(* invitation, so the acknowledging member's index on disk must already    *)
(* be at that epoch or past it, crash or no crash.                         *)
(***************************************************************************)
AckedEpochIsPersisted ==
  \A a \in acks : index[a.from].epoch >= a.epoch

(***************************************************************************)
(* A message stays in its author's replica until a history reset: adopting *)
(* a canonical document of the same epoch takes the author's messages      *)
(* along, "Concurrent DM creation still migrates into the canonical        *)
(* replica" (accept_invite).                                               *)
(***************************************************************************)
OwnMessagesKept ==
  \A m \in sent :
    Idle(m.author) /\ index[m.author].epoch = m.epoch
      => m \in store[m.author][index[m.author].doc]

(***************************************************************************)
(* As long as no handler was cut short, by a crash or an error.            *)
(***************************************************************************)
OwnMessagesKeptByHandlers ==
  crashes = 0 /\ errors = 0 => OwnMessagesKept

(***************************************************************************)
(* The documents members name follow the election of ReplicaElection: only  *)
(* existing replicas are named and no step, restart or late invitation     *)
(* moves a member back to an outranked one.                                *)
(***************************************************************************)
RefinesElection == Election!Spec

(***************************************************************************)
(* The queue of a member at rest asks for an older replica than the index   *)
(* names: serving an invitation that accept_invite ignored has overwritten  *)
(* the entry (chat.rs:1370), or a handler has failed between the index and  *)
(* the entry.  Nothing but a restart or a newer replica mends it.          *)
(***************************************************************************)
QueueIsBehind(n) == Idle(n) /\ invites[n].epoch < index[n].epoch

(***************************************************************************)
(* The reliable queue: whoever founds or clears, an epoch a member's index  *)
(* has reached is reached by every member, though packets are lost and      *)
(* services restart; unless the member's own queue entry is behind for good. *)
(***************************************************************************)
EpochReachesEveryone ==
  \A n \in Node, e \in 0..MaxEpoch :
    []<>~QueueIsBehind(n)
      => (index[n].epoch = e ~> \A p \in Node : index[p].epoch >= e)

(***************************************************************************)
(* Two members that opened the same conversation independently end on one  *)
(* document, the canonical one: accept_invite's comment on concurrent      *)
(* creation.                                                               *)
(***************************************************************************)
ConcurrentCreationConverges ==
  (\A n \in Node : index[n] # NoReplica) ~> (\A n, p \in Node : index[n] = index[p])
=============================================================================
