---------------------- MODULE ConversationReplica_proofs ----------------------
(***************************************************************************)
(* Proofs about ConversationReplica, for any members, document ids and     *)
(* bounds.  Inv is the inductive invariant; its parts are named for what   *)
(* they say of one piece of the state.                                     *)
(***************************************************************************)
EXTENDS ConversationReplica, TLAPS

\* Only replicas somebody founded are named, sent or worked on.
KnownReplicas ==
  /\ \A n \in Node : index[n] \in created \cup {NoReplica}
  /\ \A i \in sending : i.replica \in created
  /\ \A n \in Node : task[n].op # "idle" /\ task[n].op # "announce"
                       => task[n].new \in created
  /\ \A n \in Node : task[n].old \in created \cup {NoReplica}

\* A document belongs to one replica.
OneReplicaPerDoc == \A r, s \in created : r.doc = s.doc => r = s

\* Where each handler stands relative to the index.
TaskInv ==
  \A n \in Node :
    /\ task[n].op = "founded" => Better(task[n].new, index[n]) /\ task[n].old = index[n]
    /\ task[n].op \in {"rotated", "adopted"} =>
         index[n] = task[n].new /\ Better(index[n], task[n].old)
    /\ task[n].op = "migrate" => index[n] = task[n].new
    /\ task[n].op = "announce" => index[n] # NoReplica
    /\ task[n].op = "record" => index[n].epoch >= task[n].new.epoch
    /\ \A m \in task[n].kept : m.epoch = task[n].new.epoch

\* A document nobody founded holds nothing.
EmptyUnlessFounded == \A n \in Node, d \in Doc : Fresh(d) => store[n][d] = {}

Inv ==
  /\ TypeOK
  /\ KnownReplicas
  /\ OneReplicaPerDoc
  /\ TaskInv
  /\ EmptyUnlessFounded
  /\ NothingFromBeforeTheReset
  /\ DroppedNeverReturns
  /\ AckedEpochIsPersisted

LEMMA ReplicaFields ==
  \A r \in Replica \cup {NoReplica} : r.epoch \in Int /\ r.doc \in Int
<1>1. ASSUME NEW r \in Replica PROVE r.epoch \in Int /\ r.doc \in Int
  <2>1. r.epoch \in Nat /\ r.doc \in Doc
    BY DEF Replica
  <2>2. r.doc \in Nat
    BY <2>1, DocAssumption
  <2>3. QED
    BY <2>1, <2>2
<1>2. NoReplica.epoch \in Int /\ NoReplica.doc \in Int
  BY DEF NoReplica
<1>3. QED
  BY <1>1, <1>2

(***************************************************************************)
(* The canonical order is a strict order on the replicas and NoReplica, so *)
(* a member that moves to a better one stays above all it has dropped.     *)
(***************************************************************************)
LEMMA BetterTransitive ==
  ASSUME NEW r \in Replica \cup {NoReplica}, NEW s \in Replica \cup {NoReplica},
         NEW t \in Replica \cup {NoReplica}, Better(r, s), Better(s, t)
  PROVE  Better(r, t)
BY ReplicaFields DEF Better

LEMMA BetterEpoch ==
  ASSUME NEW r \in Replica \cup {NoReplica}, NEW s \in Replica \cup {NoReplica},
         Better(r, s)
  PROVE  r.epoch >= s.epoch
BY ReplicaFields DEF Better

\* Every replica is better than none.
LEMMA BetterThanNone ==
  ASSUME NEW r \in Replica
  PROVE  Better(r, NoReplica)
BY DEF Better, Replica, NoReplica

LEMMA SameBetter ==
  ASSUME NEW r, NEW s
  PROVE  Election!Better(r, s) = Better(r, s)
BY DEF Election!Better, Better

LEMMA InitInv == Init => Inv
BY DEF Init, Inv, TypeOK, KnownReplicas, OneReplicaPerDoc, TaskInv, EmptyUnlessFounded,
       NothingFromBeforeTheReset, DroppedNeverReturns, AckedEpochIsPersisted,
       IdleTask, Task, Step, NoReplica, NoInvites, Replica, Message, Invite, Ack

(***************************************************************************)
(* Type correctness.                                                       *)
(***************************************************************************)
LEMMA IdleTaskType == ASSUME NEW n \in Node PROVE IdleTask(n) \in Task
BY DEF IdleTask, Task, Step

LEMMA NewReplicaType ==
  ASSUME TypeOK, NEW n \in Node, NEW d \in Doc
  PROVE  [epoch |-> index[n].epoch + 1, doc |-> d] \in Replica
<1>1. index[n] \in Replica \cup {NoReplica}
  BY DEF TypeOK
<1>2. CASE index[n] \in Replica
  BY <1>2 DEF Replica
<1>3. CASE index[n] = NoReplica
  BY <1>3 DEF Replica, NoReplica
<1>4. QED
  BY <1>1, <1>2, <1>3

LEMMA CreateConversationType ==
  ASSUME TypeOK, NEW n \in Node, CreateConversation(n)
  PROVE  /\ created' \subseteq Replica
         /\ held' \in [Node -> SUBSET Doc]
         /\ task' \in [Node -> Task]
<1>1. PICK d \in Doc :
        LET r == [epoch |-> index[n].epoch + 1, doc |-> d] IN
          /\ created' = created \cup {r}
          /\ held' = [held EXCEPT ![n] = @ \cup {d}]
          /\ task' = [task EXCEPT ![n] = [IdleTask(n) EXCEPT !.op = "founded",
                                                           !.new = r,
                                                           !.old = index[n]]]
  BY DEF CreateConversation
<1> DEFINE r == [epoch |-> index[n].epoch + 1, doc |-> d]
<1>2. r \in Replica
  BY NewReplicaType
<1>3. created' \subseteq Replica /\ held' \in [Node -> SUBSET Doc]
  BY <1>1, <1>2 DEF TypeOK
<1>4. [IdleTask(n) EXCEPT !.op = "founded", !.new = r, !.old = index[n]] \in Task
  BY <1>2 DEF IdleTask, Task, Step, TypeOK
<1>5. task' \in [Node -> Task]
  BY <1>1, <1>4 DEF TypeOK
<1>6. QED
  BY <1>3, <1>5

\* The steps that only move a task to its next operation, or end it.
LEMMA NextOpType ==
  ASSUME TypeOK, NEW n \in Node, NEW o \in Step
  PROVE  /\ [task EXCEPT ![n].op = o] \in [Node -> Task]
         /\ [task EXCEPT ![n] = IdleTask(n)] \in [Node -> Task]
<1>1. task \in [Node -> Task]
  BY DEF TypeOK
<1>2. [task[n] EXCEPT !.op = o] \in Task
  BY <1>1 DEF Task
<1>3. [task EXCEPT ![n].op = o] \in [Node -> Task]
  BY <1>1, <1>2
<1>4. QED
  BY <1>1, <1>3, IdleTaskType

\* What a member names, once it names something, is a replica.
LEMMA IndexType ==
  ASSUME TypeOK, NEW n \in Node, index[n] # NoReplica
  PROVE  index[n] \in Replica
BY DEF TypeOK

LEMMA OwnMessagesType ==
  ASSUME TypeOK, NEW n \in Node, index[n] # NoReplica
  PROVE  OwnMessages(n) \subseteq Message
<1>1. index[n].doc \in Doc
  BY IndexType DEF Replica
<1>2. QED
  BY <1>1 DEF OwnMessages, TypeOK

LEMMA AdoptedType ==
  ASSUME TypeOK, NEW n \in Node, NEW i \in sending
  PROVE  Adopted(n, i) \in Task
<1>1. i.replica \in Replica /\ i.from \in Node
  BY DEF TypeOK, Invite
<1> DEFINE k == IF index[n] = NoReplica \/ Resets(n, i.replica) THEN {} ELSE OwnMessages(n)
<1>2. k \subseteq Message
  BY OwnMessagesType
<1>3. index[n] \in Replica \cup {NoReplica}
  BY DEF TypeOK
<1> HIDE DEF k
<1>4. [op |-> "adopted", new |-> i.replica, old |-> index[n], from |-> i.from, kept |-> k]
        \in Task
  BY <1>1, <1>2, <1>3 DEF Task, Step
<1>5. QED
  BY <1>4 DEF Adopted, k

LEMMA TypeOKStep == TypeOK /\ KnownReplicas /\ TaskInv /\ [Next]_vars => TypeOK'
<1> SUFFICES ASSUME TypeOK, KnownReplicas, TaskInv, [Next]_vars PROVE TypeOK'
  OBVIOUS
<1>1. ASSUME NEW n \in Node, EnsureDirect(n) PROVE TypeOK'
  BY <1>1, CreateConversationType DEF EnsureDirect, TypeOK, failures
<1>2. ASSUME NEW n \in Node, ClearHistory(n) PROVE TypeOK'
  BY <1>2, CreateConversationType DEF ClearHistory, TypeOK, failures, NoInvites
<1>3. ASSUME NEW n \in Node, PersistFounded(n) PROVE TypeOK'
  <2>1. task[n].new \in Replica \cup {NoReplica}
    BY DEF TypeOK, Task
  <2>2. task' \in [Node -> Task]
    BY <1>3, NextOpType DEF PersistFounded, Step
  <2>3. QED
    BY <1>3, <2>1, <2>2 DEF PersistFounded, TypeOK, failures
<1>4. ASSUME NEW n \in Node, InviteMembersWait(n) PROVE TypeOK'
  <2>1. index[n] \in Replica /\ index[n].epoch \in Nat
    BY <1>4, IndexType DEF InviteMembersWait, TaskInv, Replica
  <2>2. task' \in [Node -> Task]
    BY <1>4, IdleTaskType DEF InviteMembersWait, TypeOK
  <2>3. sending' \subseteq Invite
    BY <1>4, <2>1 DEF InviteMembersWait, TypeOK, Invite, Others
  <2>4. invites' \in [Node -> [epoch : Nat, peers : SUBSET Node] \cup {NoInvites}]
    BY <1>4, <2>1 DEF InviteMembersWait, TypeOK, Others
  <2>5. QED
    BY <1>4, <2>2, <2>3, <2>4 DEF InviteMembersWait, TypeOK, failures
<1>5. ASSUME NEW n \in Node, AcceptInvite(n) PROVE TypeOK'
  <2>1. PICK i \in sending :
          /\ sending' = sending \ {i}
          /\ IF Better(i.replica, index[n]) THEN AdoptInvite(n, i) ELSE IgnoreInvite(n, i)
          /\ UNCHANGED <<held, store, acks, failures, created, dropped, sent>>
    BY <1>5 DEF AcceptInvite
  <2>2. i.replica \in Replica /\ i.from \in Node
    BY DEF TypeOK, Invite
  <2>3. CASE AdoptInvite(n, i)
    BY <2>1, <2>2, <2>3, AdoptedType DEF AdoptInvite, TypeOK, failures
  <2>4. CASE IgnoreInvite(n, i)
    <3>1. [IdleTask(n) EXCEPT !.op = "record", !.new = i.replica, !.from = i.from] \in Task
      BY <2>2 DEF IdleTask, Task, Step
    <3>2. QED
      BY <2>1, <2>4, <3>1 DEF IgnoreInvite, TypeOK, failures
  <2>5. QED
    BY <2>1, <2>3, <2>4
<1>6. ASSUME NEW n \in Node, DropDocument(n) PROVE TypeOK'
  <2>1. task' \in [Node -> Task]
    BY <1>6, NextOpType DEF DropDocument, Step
  <2>2. dropped' \in [Node -> SUBSET Replica]
    BY <1>6 DEF DropDocument, TypeOK, Task
  <2>3. held' \in [Node -> SUBSET Doc] /\ store' \in [Node -> [Doc -> SUBSET Message]]
    <3>1. CASE task[n].old = NoReplica
      BY <1>6, <3>1 DEF DropDocument, TypeOK
    <3>2. CASE task[n].old # NoReplica
      <4>1. task[n].old.doc \in Doc
        BY <3>2 DEF TypeOK, Task, Replica
      <4>2. [store[n] EXCEPT ![task[n].old.doc] = {}] \in [Doc -> SUBSET Message]
        BY <4>1 DEF TypeOK
      <4>3. store' \in [Node -> [Doc -> SUBSET Message]]
        BY <1>6, <3>2, <4>2 DEF DropDocument, TypeOK
      <4>4. held' \in [Node -> SUBSET Doc]
        BY <1>6, <3>2, <4>1 DEF DropDocument, TypeOK
      <4>5. QED
        BY <4>3, <4>4
    <3>3. QED
      BY <3>1, <3>2
  <2>4. QED
    BY <1>6, <2>1, <2>2, <2>3 DEF DropDocument, TypeOK, failures
<1>7. ASSUME NEW n \in Node, MigrateMessages(n) PROVE TypeOK'
  <2>1. task' \in [Node -> Task]
    BY <1>7, NextOpType DEF MigrateMessages, Step
  <2>2. task[n].new \in Replica /\ task[n].kept \subseteq Message
    BY <1>7 DEF MigrateMessages, KnownReplicas, TypeOK, Task
  <2>3. task[n].new.doc \in Doc
    BY <2>2 DEF Replica
  <2>4. QED
    BY <1>7, <2>1, <2>2, <2>3 DEF MigrateMessages, TypeOK, failures
<1>8. ASSUME NEW n \in Node, RecordInvite(n) PROVE TypeOK'
  <2>1. task' \in [Node -> Task]
    BY <1>8, IdleTaskType DEF RecordInvite, TypeOK
  <2>2. task[n].new \in Replica /\ task[n].from \in Node
    BY <1>8 DEF RecordInvite, KnownReplicas, TypeOK, Task
  <2>3. task[n].new.epoch \in Nat
    BY <2>2 DEF Replica
  <2>4. QED
    BY <1>8, <2>1, <2>2, <2>3 DEF RecordInvite, TypeOK, failures, Ack
<1>9. ASSUME NEW n \in Node, RetryInvites(n) PROVE TypeOK'
  <2>1. index[n] \in Replica
    BY <1>9, IndexType DEF RetryInvites
  <2>2. invites[n].peers \subseteq Node
    BY DEF TypeOK, NoInvites
  <2>3. sending' \subseteq Invite
    BY <1>9, <2>1, <2>2 DEF RetryInvites, TypeOK, Invite
  <2>4. QED
    BY <1>9, <2>3 DEF RetryInvites, TypeOK, failures
<1>10. ASSUME NEW n \in Node, ApplyControlAcks(n) PROVE TypeOK'
  <2>1. PICK a \in acks :
          /\ acks' = acks \ {a}
          /\ invites' = IF AcksPending(n, a)
                        THEN [invites EXCEPT ![n].peers = @ \ {a.from}]
                        ELSE invites
          /\ UNCHANGED <<index, held, store, task, sending, failures, created, dropped, sent>>
    BY <1>10 DEF ApplyControlAcks
  <2>2. [invites[n] EXCEPT !.peers = @ \ {a.from}]
          \in [epoch : Nat, peers : SUBSET Node] \cup {NoInvites}
    <3>1. CASE invites[n] = NoInvites
      BY <3>1 DEF NoInvites
    <3>2. CASE invites[n] \in [epoch : Nat, peers : SUBSET Node]
      BY <3>2
    <3>3. QED
      BY <3>1, <3>2 DEF TypeOK
  <2>3. invites' \in [Node -> [epoch : Nat, peers : SUBSET Node] \cup {NoInvites}]
    BY <2>1, <2>2 DEF TypeOK
  <2>4. QED
    BY <2>1, <2>3 DEF TypeOK, failures
<1>11. ASSUME NEW n \in Node, SendMessage(n) PROVE TypeOK'
  <2>1. index[n].doc \in Doc /\ index[n].epoch \in Nat
    BY <1>11, IndexType DEF SendMessage, Replica
  <2>2. [author |-> n, epoch |-> index[n].epoch] \in Message
    BY <2>1 DEF Message
  <2>3. QED
    BY <1>11, <2>1, <2>2 DEF SendMessage, TypeOK, failures
<1>12. ASSUME NEW n \in Node, Restart(n) PROVE TypeOK'
  <2>1. RestoredInvites(n) \in [epoch : Nat, peers : SUBSET Node] \cup {NoInvites}
    <3>1. CASE index[n] = NoReplica
      BY <3>1 DEF RestoredInvites, TypeOK
    <3>2. CASE index[n] # NoReplica
      BY <3>2, IndexType DEF RestoredInvites, TypeOK, Replica, Others
    <3>3. QED
      BY <3>1, <3>2
  <2>2. held' \in [Node -> SUBSET Doc]
    BY <1>12, IndexType DEF Restart, TypeOK, Replica
  <2>3. QED
    BY <1>12, <2>1, <2>2, IdleTaskType DEF Restart, TypeOK
<1>13. ASSUME NEW n \in Node, HandlerFails(n) PROVE TypeOK'
  BY <1>13, IdleTaskType DEF HandlerFails, TypeOK
<1>14. ASSUME NEW n \in Node, NEW q \in Others(n), SyncDocument(n, q) PROVE TypeOK'
  BY <1>14 DEF SyncDocument, TypeOK, Others, failures
<1>15. CASE LosePacket
  BY <1>15 DEF LosePacket, TypeOK
<1>16. CASE UNCHANGED vars
  BY <1>16 DEF vars, TypeOK, failures
<1>17. QED
  BY <1>1, <1>2, <1>3, <1>4, <1>5, <1>6, <1>7, <1>8, <1>9, <1>10, <1>11, <1>12, <1>13,
     <1>14, <1>15, <1>16 DEF Next, Handle

(***************************************************************************)
(* The control part of the invariant: which replicas are known, and where  *)
(* each handler stands.                                                    *)
(***************************************************************************)
ControlInv == KnownReplicas /\ OneReplicaPerDoc /\ TaskInv

LEMMA CreateConversationControl ==
  ASSUME TypeOK, ControlInv, NEW n \in Node, CreateConversation(n),
         UNCHANGED <<index, sending>>
  PROVE  ControlInv'
<1>1. PICK d \in Doc :
        LET r == [epoch |-> index[n].epoch + 1, doc |-> d] IN
          /\ Fresh(d)
          /\ created' = created \cup {r}
          /\ task' = [task EXCEPT ![n] = [IdleTask(n) EXCEPT !.op = "founded",
                                                           !.new = r,
                                                           !.old = index[n]]]
  BY DEF CreateConversation
<1> DEFINE r == [epoch |-> index[n].epoch + 1, doc |-> d]
           t == [IdleTask(n) EXCEPT !.op = "founded", !.new = r, !.old = index[n]]
<1>2. /\ task' = [task EXCEPT ![n] = t]
      /\ created' = created \cup {r}
      /\ Fresh(d)
  BY <1>1
<1>3. /\ t.op = "founded" /\ t.new = r /\ t.old = index[n] /\ t.kept = {}
      /\ r.doc = d /\ r.epoch = index[n].epoch + 1
  BY DEF IdleTask
<1>4. index[n].epoch \in Int
  BY ReplicaFields DEF TypeOK
<1>5. Better(r, index[n])
  BY <1>3, <1>4 DEF Better
<1> HIDE DEF r, t
<1>6. /\ task'[n] = t
      /\ \A q \in Node : q # n => task'[q] = task[q]
  BY <1>2 DEF TypeOK
<1>7. KnownReplicas'
  BY <1>2, <1>3, <1>6 DEF ControlInv, KnownReplicas
<1>8. OneReplicaPerDoc'
  BY <1>2, <1>3 DEF ControlInv, OneReplicaPerDoc, Fresh
<1>9. TaskInv'
  BY <1>3, <1>5, <1>6 DEF ControlInv, TaskInv
<1>10. QED
  BY <1>7, <1>8, <1>9 DEF ControlInv

\* A handler that ends leaves nothing to say of its task.
LEMMA EndTaskControl ==
  ASSUME TypeOK, ControlInv, NEW n \in Node,
         task' = [task EXCEPT ![n] = IdleTask(n)],
         UNCHANGED <<index, created>>,
         \A i \in sending' : i.replica \in created
  PROVE  ControlInv'
<1>1. /\ task'[n].op = "idle" /\ task'[n].old = NoReplica /\ task'[n].kept = {}
      /\ \A q \in Node : q # n => task'[q] = task[q]
  BY DEF TypeOK, IdleTask
<1>2. KnownReplicas' /\ OneReplicaPerDoc'
  BY <1>1 DEF ControlInv, KnownReplicas, OneReplicaPerDoc
<1>3. TaskInv'
  BY <1>1 DEF ControlInv, TaskInv
<1>4. QED
  BY <1>2, <1>3 DEF ControlInv

\* A handler that goes on to its next operation: only op moves.
LEMMA NextOpFields ==
  ASSUME TypeOK, NEW n \in Node, NEW o,
         task' = [task EXCEPT ![n].op = o]
  PROVE  /\ task'[n].op = o
         /\ task'[n].new = task[n].new /\ task'[n].old = task[n].old
         /\ task'[n].kept = task[n].kept
         /\ \A q \in Node : q # n => task'[q] = task[q]
BY DEF TypeOK, Task

LEMMA AcceptInviteControl ==
  ASSUME TypeOK, ControlInv, NothingFromBeforeTheReset, NEW n \in Node, AcceptInvite(n)
  PROVE  ControlInv'
<1>1. PICK i \in sending :
        /\ sending' = sending \ {i}
        /\ IF Better(i.replica, index[n]) THEN AdoptInvite(n, i) ELSE IgnoreInvite(n, i)
        /\ UNCHANGED created
  BY DEF AcceptInvite
<1>2. i.replica \in Replica /\ i.replica \in created
  BY DEF TypeOK, Invite, ControlInv, KnownReplicas
<1>3. index[n] \in created \cup {NoReplica} /\ index[n] \in Replica \cup {NoReplica}
  BY DEF ControlInv, KnownReplicas, TypeOK
<1>4. CASE Better(i.replica, index[n])
  <2>1. /\ index' = [index EXCEPT ![n] = i.replica]
        /\ task' = [task EXCEPT ![n] = Adopted(n, i)]
    BY <1>1, <1>4 DEF AdoptInvite
  <2>2. /\ index'[n] = i.replica /\ task'[n] = Adopted(n, i)
        /\ \A q \in Node : q # n => index'[q] = index[q] /\ task'[q] = task[q]
    BY <2>1 DEF TypeOK
  <2>3. /\ Adopted(n, i).op = "adopted" /\ Adopted(n, i).new = i.replica
        /\ Adopted(n, i).old = index[n]
    BY DEF Adopted
  <2>4. \A m \in Adopted(n, i).kept : m.epoch = i.replica.epoch
    <3>1. CASE index[n] = NoReplica \/ Resets(n, i.replica)
      BY <3>1 DEF Adopted
    <3>2. CASE ~(index[n] = NoReplica \/ Resets(n, i.replica))
      <4>1. index[n] \in created /\ ~(i.replica.epoch > index[n].epoch)
        BY <1>3, <3>2 DEF Resets
      <4>2. i.replica.epoch = index[n].epoch
        BY <1>2, <1>3, <1>4, <4>1, ReplicaFields DEF Better
      <4>3. Adopted(n, i).kept \subseteq store[n][index[n].doc]
        BY <3>2 DEF Adopted, OwnMessages
      <4>4. \A m \in store[n][index[n].doc] : m.epoch = index[n].epoch
        BY <4>1 DEF NothingFromBeforeTheReset
      <4>5. QED
        BY <4>2, <4>3, <4>4
    <3>3. QED
      BY <3>1, <3>2
  <2>5. KnownReplicas'
    BY <1>1, <1>2, <1>3, <2>2, <2>3 DEF ControlInv, KnownReplicas
  <2>6. OneReplicaPerDoc'
    BY <1>1 DEF ControlInv, OneReplicaPerDoc
  <2>7. TaskInv'
    BY <1>4, <2>2, <2>3, <2>4 DEF ControlInv, TaskInv
  <2>8. QED
    BY <2>5, <2>6, <2>7 DEF ControlInv
<1>5. CASE ~Better(i.replica, index[n])
  <2>1. /\ UNCHANGED index
        /\ task' = [task EXCEPT ![n] = [IdleTask(n) EXCEPT !.op = "record",
                                                         !.new = i.replica,
                                                         !.from = i.from]]
    BY <1>1, <1>5 DEF IgnoreInvite
  <2>2. /\ task'[n].op = "record" /\ task'[n].new = i.replica
        /\ task'[n].old = NoReplica /\ task'[n].kept = {}
        /\ \A q \in Node : q # n => task'[q] = task[q]
    BY <2>1 DEF TypeOK, IdleTask
  <2>3. index[n].epoch >= i.replica.epoch
    BY <1>2, <1>3, <1>5, ReplicaFields DEF Better
  <2>4. KnownReplicas' /\ OneReplicaPerDoc'
    BY <1>1, <1>2, <2>1, <2>2 DEF ControlInv, KnownReplicas, OneReplicaPerDoc
  <2>5. TaskInv'
    BY <2>1, <2>2, <2>3 DEF ControlInv, TaskInv
  <2>6. QED
    BY <2>4, <2>5 DEF ControlInv
<1>6. QED
  BY <1>4, <1>5

LEMMA ControlInvStep ==
  TypeOK /\ ControlInv /\ NothingFromBeforeTheReset /\ [Next]_vars => ControlInv'
<1> SUFFICES ASSUME TypeOK, ControlInv, NothingFromBeforeTheReset, [Next]_vars
             PROVE  ControlInv'
  OBVIOUS
<1>1. ASSUME NEW n \in Node, EnsureDirect(n) \/ ClearHistory(n) PROVE ControlInv'
  BY <1>1, CreateConversationControl DEF EnsureDirect, ClearHistory
<1>2. ASSUME NEW n \in Node, PersistFounded(n) PROVE ControlInv'
  <2>1. /\ index'[n] = task[n].new
        /\ \A q \in Node : q # n => index'[q] = index[q]
        /\ UNCHANGED <<created, sending>>
    BY <1>2 DEF PersistFounded, TypeOK
  <2>2. /\ task'[n].op = "rotated" /\ task'[n].new = task[n].new
        /\ task'[n].old = task[n].old /\ task'[n].kept = task[n].kept
        /\ \A q \in Node : q # n => task'[q] = task[q]
    BY <1>2, NextOpFields DEF PersistFounded
  <2>3. task[n].op = "founded"
    BY <1>2 DEF PersistFounded
  <2>4. KnownReplicas' /\ OneReplicaPerDoc'
    BY <2>1, <2>2, <2>3 DEF ControlInv, KnownReplicas, OneReplicaPerDoc
  <2>5. TaskInv'
    BY <2>1, <2>2, <2>3 DEF ControlInv, TaskInv
  <2>6. QED
    BY <2>4, <2>5 DEF ControlInv
<1>3. ASSUME NEW n \in Node, InviteMembersWait(n) PROVE ControlInv'
  <2>1. index[n] \in created
    BY <1>3 DEF InviteMembersWait, ControlInv, KnownReplicas, TaskInv
  <2>2. \A i \in sending' : i.replica \in created
    BY <1>3, <2>1 DEF InviteMembersWait, ControlInv, KnownReplicas
  <2>3. QED
    BY <1>3, <2>2, EndTaskControl DEF InviteMembersWait
<1>4. ASSUME NEW n \in Node, AcceptInvite(n) PROVE ControlInv'
  BY <1>4, AcceptInviteControl
<1>5. ASSUME NEW n \in Node, DropDocument(n) PROVE ControlInv'
  <2> DEFINE o == IF task[n].op = "rotated" THEN "announce" ELSE "migrate"
  <2>1. task' = [task EXCEPT ![n].op = o] /\ task[n].op \in {"rotated", "adopted"}
    BY <1>5 DEF DropDocument
  <2>2. /\ task'[n].op = o /\ task'[n].new = task[n].new
        /\ task'[n].old = task[n].old /\ task'[n].kept = task[n].kept
        /\ \A q \in Node : q # n => task'[q] = task[q]
    BY <2>1, NextOpFields
  <2>3. UNCHANGED <<index, created, sending>>
    BY <1>5 DEF DropDocument
  <2>4. KnownReplicas' /\ OneReplicaPerDoc'
    BY <2>1, <2>2, <2>3 DEF ControlInv, KnownReplicas, OneReplicaPerDoc
  <2>5. index[n] # NoReplica
    <3>1. task[n].new \in Replica
      BY <2>1 DEF ControlInv, KnownReplicas, TypeOK
    <3>2. QED
      BY <2>1, <3>1 DEF ControlInv, TaskInv, Replica, NoReplica
  <2>6. TaskInv'
    BY <2>1, <2>2, <2>3, <2>5 DEF ControlInv, TaskInv
  <2>7. QED
    BY <2>4, <2>6 DEF ControlInv
<1>6. ASSUME NEW n \in Node, MigrateMessages(n) PROVE ControlInv'
  <2>1. /\ task'[n].op = "record" /\ task'[n].new = task[n].new
        /\ task'[n].old = task[n].old /\ task'[n].kept = task[n].kept
        /\ \A q \in Node : q # n => task'[q] = task[q]
    BY <1>6, NextOpFields DEF MigrateMessages
  <2>2. UNCHANGED <<index, created, sending>> /\ task[n].op = "migrate"
    BY <1>6 DEF MigrateMessages
  <2>3. KnownReplicas' /\ OneReplicaPerDoc'
    BY <2>1, <2>2 DEF ControlInv, KnownReplicas, OneReplicaPerDoc
  <2>4. index[n].epoch >= index[n].epoch
    BY ReplicaFields DEF TypeOK
  <2>5. TaskInv'
    BY <2>1, <2>2, <2>4 DEF ControlInv, TaskInv
  <2>6. QED
    BY <2>3, <2>5 DEF ControlInv
<1>7. ASSUME NEW n \in Node, RecordInvite(n) \/ Restart(n) \/ HandlerFails(n)
      PROVE ControlInv'
  BY <1>7, EndTaskControl DEF RecordInvite, Restart, HandlerFails, ControlInv, KnownReplicas
<1>8. ASSUME NEW n \in Node, RetryInvites(n) PROVE ControlInv'
  <2>1. index[n] \in created
    BY <1>8 DEF RetryInvites, ControlInv, KnownReplicas
  <2>2. \A i \in sending' : i.replica \in created
    BY <1>8, <2>1 DEF RetryInvites, ControlInv, KnownReplicas
  <2>3. QED
    BY <1>8, <2>2 DEF RetryInvites, ControlInv, KnownReplicas, OneReplicaPerDoc, TaskInv
<1>9. CASE /\ UNCHANGED <<index, created, task>>
           /\ sending' \subseteq sending
  BY <1>9 DEF ControlInv, KnownReplicas, OneReplicaPerDoc, TaskInv
<1>10. ASSUME NEW n \in Node, ApplyControlAcks(n) \/ SendMessage(n) PROVE ControlInv'
  BY <1>9, <1>10 DEF ApplyControlAcks, SendMessage
<1>11. ASSUME NEW n \in Node, NEW q \in Others(n), SyncDocument(n, q) PROVE ControlInv'
  BY <1>9, <1>11 DEF SyncDocument
<1>12. CASE LosePacket
  BY <1>9, <1>12 DEF LosePacket
<1>13. CASE UNCHANGED vars
  BY <1>9, <1>13 DEF vars
<1>14. QED
  BY <1>1, <1>2, <1>3, <1>4, <1>5, <1>6, <1>7, <1>8, <1>10, <1>11, <1>12, <1>13
     DEF Next, Handle

(***************************************************************************)
(* What the documents hold.                                                *)
(***************************************************************************)
StoreInv == EmptyUnlessFounded /\ NothingFromBeforeTheReset

\* Messages of the right epoch may be added to any copy of a known document.
LEMMA StoreGrows ==
  ASSUME TypeOK, ControlInv, StoreInv, NEW n \in Node, NEW r \in created,
         NEW M, \A m \in M : m.epoch = r.epoch,
         store' = [store EXCEPT ![n][r.doc] = @ \cup M], UNCHANGED created
  PROVE  StoreInv'
<1>1. r.doc \in Doc
  BY DEF TypeOK, Replica
<1>2. \A q \in Node, d \in Doc :
        store'[q][d] = IF q = n /\ d = r.doc THEN store[q][d] \cup M ELSE store[q][d]
  BY <1>1 DEF TypeOK
<1>3. EmptyUnlessFounded'
  BY <1>1, <1>2 DEF StoreInv, EmptyUnlessFounded, Fresh
<1>4. NothingFromBeforeTheReset'
  <2>1. SUFFICES ASSUME NEW q \in Node, NEW s \in created, NEW m \in store'[q][s.doc]
                 PROVE  m.epoch = s.epoch
    BY DEF NothingFromBeforeTheReset
  <2>2. s.doc \in Doc
    BY DEF TypeOK, Replica
  <2>3. CASE m \in store[q][s.doc]
    BY <2>3 DEF StoreInv, NothingFromBeforeTheReset
  <2>4. CASE m \notin store[q][s.doc]
    <3>1. s.doc = r.doc /\ m \in M
      BY <1>2, <2>1, <2>2, <2>4
    <3>2. s = r
      BY <3>1 DEF ControlInv, OneReplicaPerDoc
    <3>3. QED
      BY <3>1, <3>2
  <2>5. QED
    BY <2>3, <2>4
<1>5. QED
  BY <1>3, <1>4 DEF StoreInv

\* A founded document is new, hence empty.
LEMMA CreateConversationStore ==
  ASSUME TypeOK, StoreInv, NEW n \in Node, CreateConversation(n), UNCHANGED store
  PROVE  StoreInv'
<1>1. PICK d \in Doc : /\ Fresh(d)
                       /\ created' = created \cup
                            {[epoch |-> index[n].epoch + 1, doc |-> d]}
  BY DEF CreateConversation
<1>2. \A q \in Node : store[q][d] = {}
  BY <1>1 DEF StoreInv, EmptyUnlessFounded
<1>3. EmptyUnlessFounded'
  BY <1>1 DEF StoreInv, EmptyUnlessFounded, Fresh
<1>4. NothingFromBeforeTheReset'
  BY <1>1, <1>2 DEF StoreInv, NothingFromBeforeTheReset
<1>5. QED
  BY <1>3, <1>4 DEF StoreInv

LEMMA StoreInvStep ==
  TypeOK /\ ControlInv /\ StoreInv /\ [Next]_vars => StoreInv'
<1> SUFFICES ASSUME TypeOK, ControlInv, StoreInv, [Next]_vars PROVE StoreInv'
  OBVIOUS
<1>1. ASSUME NEW n \in Node, EnsureDirect(n) \/ ClearHistory(n) PROVE StoreInv'
  BY <1>1, CreateConversationStore DEF EnsureDirect, ClearHistory
<1>2. ASSUME NEW n \in Node, DropDocument(n) PROVE StoreInv'
  <2>1. UNCHANGED created
    BY <1>2 DEF DropDocument
  <2>2. \A q \in Node, d \in Doc : store'[q][d] \subseteq store[q][d]
    <3>1. CASE task[n].old = NoReplica
      BY <1>2, <3>1 DEF DropDocument
    <3>2. CASE task[n].old # NoReplica
      <4>1. task[n].old.doc \in Doc
        BY <3>2 DEF TypeOK, Task, Replica
      <4>2. store' = [store EXCEPT ![n][task[n].old.doc] = {}]
        BY <1>2, <3>2 DEF DropDocument
      <4>3. QED
        BY <4>1, <4>2 DEF TypeOK
    <3>3. QED
      BY <3>1, <3>2
  <2>3. \A r \in created : r.doc \in Doc
    BY DEF TypeOK, Replica
  <2>4. EmptyUnlessFounded'
    BY <2>1, <2>2 DEF StoreInv, EmptyUnlessFounded, Fresh
  <2>5. NothingFromBeforeTheReset'
    BY <2>1, <2>2, <2>3 DEF StoreInv, NothingFromBeforeTheReset
  <2>6. QED
    BY <2>4, <2>5 DEF StoreInv
<1>3. ASSUME NEW n \in Node, MigrateMessages(n) PROVE StoreInv'
  <2>1. task[n].new \in created /\ \A m \in task[n].kept : m.epoch = task[n].new.epoch
    BY <1>3 DEF MigrateMessages, ControlInv, KnownReplicas, TaskInv
  <2>2. QED
    BY <1>3, <2>1, StoreGrows DEF MigrateMessages
<1>4. ASSUME NEW n \in Node, SendMessage(n) PROVE StoreInv'
  <2>1. index[n] \in created
    BY <1>4 DEF SendMessage, ControlInv, KnownReplicas
  <2> DEFINE m == [author |-> n, epoch |-> index[n].epoch]
  <2>2. store' = [store EXCEPT ![n][index[n].doc] = @ \cup {m}] /\ UNCHANGED created
    BY <1>4 DEF SendMessage
  <2>3. \A x \in {m} : x.epoch = index[n].epoch
    OBVIOUS
  <2> HIDE DEF m
  <2>4. QED
    BY <2>1, <2>2, <2>3, StoreGrows
<1>5. ASSUME NEW n \in Node, NEW q \in Others(n), SyncDocument(n, q) PROVE StoreInv'
  <2>1. PICK d \in held[n] \cap held[q] :
          /\ store' = [store EXCEPT ![n][d] = @ \cup store[q][d]]
          /\ UNCHANGED created
    BY <1>5 DEF SyncDocument
  <2>2. d \in Doc /\ q \in Node
    BY DEF TypeOK, Others
  <2>3. CASE Fresh(d)
    <3>1. store[q][d] = {} /\ store[n][d] = {}
      BY <2>2, <2>3 DEF StoreInv, EmptyUnlessFounded
    <3>2. \A p \in Node, e \in Doc : store'[p][e] = store[p][e]
      BY <2>1, <2>2, <3>1 DEF TypeOK
    <3>3. \A r \in created : r.doc \in Doc
      BY DEF TypeOK, Replica
    <3>4. QED
      BY <2>1, <3>2, <3>3
         DEF StoreInv, EmptyUnlessFounded, NothingFromBeforeTheReset, Fresh
  <2>4. CASE ~Fresh(d)
    <3>1. PICK r \in created : r.doc = d
      BY <2>4 DEF Fresh
    <3>2. \A m \in store[q][r.doc] : m.epoch = r.epoch
      BY <2>2 DEF StoreInv, NothingFromBeforeTheReset
    <3>3. store' = [store EXCEPT ![n][r.doc] = @ \cup store[q][r.doc]]
      BY <2>1, <3>1
    <3>4. QED
      BY <2>1, <3>2, <3>3, StoreGrows
  <2>5. QED
    BY <2>3, <2>4
<1>6. CASE UNCHANGED <<store, created>>
  BY <1>6 DEF StoreInv, EmptyUnlessFounded, NothingFromBeforeTheReset, Fresh
<1>7. ASSUME NEW n \in Node,
             \/ PersistFounded(n) \/ InviteMembersWait(n) \/ RecordInvite(n)
             \/ AcceptInvite(n) \/ RetryInvites(n) \/ ApplyControlAcks(n)
             \/ Restart(n) \/ HandlerFails(n)
      PROVE  StoreInv'
  BY <1>6, <1>7 DEF PersistFounded, InviteMembersWait, RecordInvite, AcceptInvite,
                    RetryInvites, ApplyControlAcks, Restart, HandlerFails
<1>8. CASE LosePacket \/ UNCHANGED vars
  BY <1>6, <1>8 DEF LosePacket, vars
<1>9. QED
  BY <1>1, <1>2, <1>3, <1>4, <1>5, <1>7, <1>8 DEF Next, Handle

(***************************************************************************)
(* A member's index moves up the canonical order or stays.                 *)
(***************************************************************************)
IndexAdvances ==
  \A n \in Node : index'[n] = index[n] \/ Better(index'[n], index[n])

LEMMA IndexAdvancesStep == TypeOK /\ ControlInv /\ [Next]_vars => IndexAdvances
<1> SUFFICES ASSUME TypeOK, ControlInv, [Next]_vars PROVE IndexAdvances
  OBVIOUS
<1>1. ASSUME NEW n \in Node, PersistFounded(n) PROVE IndexAdvances
  <2>1. index' = [index EXCEPT ![n] = task[n].new] /\ Better(task[n].new, index[n])
    BY <1>1 DEF PersistFounded, ControlInv, TaskInv
  <2>2. QED
    BY <2>1 DEF IndexAdvances, TypeOK
<1>2. ASSUME NEW n \in Node, AcceptInvite(n) PROVE IndexAdvances
  <2>1. PICK i \in sending :
          IF Better(i.replica, index[n]) THEN AdoptInvite(n, i) ELSE IgnoreInvite(n, i)
    BY <1>2 DEF AcceptInvite
  <2>2. CASE Better(i.replica, index[n]) /\ AdoptInvite(n, i)
    BY <2>2 DEF AdoptInvite, IndexAdvances, TypeOK
  <2>3. CASE IgnoreInvite(n, i)
    BY <2>3 DEF IgnoreInvite, IndexAdvances
  <2>4. QED
    BY <2>1, <2>2, <2>3
<1>3. CASE UNCHANGED index
  BY <1>3 DEF IndexAdvances
<1>4. ASSUME NEW n \in Node,
             \/ EnsureDirect(n) \/ ClearHistory(n) \/ InviteMembersWait(n)
             \/ DropDocument(n) \/ MigrateMessages(n) \/ RecordInvite(n)
             \/ RetryInvites(n) \/ ApplyControlAcks(n) \/ SendMessage(n)
             \/ Restart(n) \/ HandlerFails(n)
      PROVE  IndexAdvances
  BY <1>3, <1>4 DEF EnsureDirect, ClearHistory, InviteMembersWait, DropDocument,
                    MigrateMessages, RecordInvite, RetryInvites, ApplyControlAcks,
                    SendMessage, Restart, HandlerFails
<1>5. ASSUME NEW n \in Node, NEW q \in Others(n), SyncDocument(n, q) PROVE IndexAdvances
  BY <1>3, <1>5 DEF SyncDocument
<1>6. CASE LosePacket \/ UNCHANGED vars
  BY <1>3, <1>6 DEF LosePacket, vars
<1>7. QED
  BY <1>1, <1>2, <1>4, <1>5, <1>6 DEF Next, Handle

LEMMA DroppedStep ==
  TypeOK /\ TypeOK' /\ ControlInv /\ DroppedNeverReturns /\ [Next]_vars
    => DroppedNeverReturns'
<1> SUFFICES ASSUME TypeOK, TypeOK', ControlInv, DroppedNeverReturns, [Next]_vars,
                    NEW n \in Node, NEW r \in dropped'[n]
             PROVE  Better(index'[n], r)
  BY SameBetter DEF DroppedNeverReturns
<1>1. IndexAdvances
  BY IndexAdvancesStep
<1>2. r \in dropped[n] \/ Better(index[n], r)
  <2>1. ASSUME NEW p \in Node, DropDocument(p) PROVE r \in dropped[n] \/ Better(index[n], r)
    <3>1. r \in dropped[n] \/ (n = p /\ r = task[p].old)
      BY <2>1 DEF DropDocument, TypeOK
    <3>2. Better(index[p], task[p].old)
      BY <2>1 DEF DropDocument, ControlInv, TaskInv
    <3>3. QED
      BY <3>1, <3>2
  <2>2. CASE UNCHANGED dropped
    BY <2>2
  <2>3. ASSUME NEW p \in Node,
               \/ EnsureDirect(p) \/ ClearHistory(p) \/ InviteMembersWait(p)
               \/ PersistFounded(p) \/ AcceptInvite(p) \/ MigrateMessages(p)
               \/ RecordInvite(p) \/ RetryInvites(p) \/ ApplyControlAcks(p)
               \/ SendMessage(p) \/ Restart(p) \/ HandlerFails(p)
        PROVE  UNCHANGED dropped
    BY <2>3 DEF EnsureDirect, ClearHistory, InviteMembersWait, PersistFounded,
                AcceptInvite, MigrateMessages, RecordInvite, RetryInvites,
                ApplyControlAcks, SendMessage, Restart, HandlerFails
  <2>4. ASSUME NEW p \in Node, NEW q \in Others(p), SyncDocument(p, q)
        PROVE  UNCHANGED dropped
    BY <2>4 DEF SyncDocument
  <2>5. CASE LosePacket \/ UNCHANGED vars
    BY <2>2, <2>5 DEF LosePacket, vars
  <2>6. QED
    BY <2>1, <2>2, <2>3, <2>4, <2>5 DEF Next, Handle
<1>3. Better(index[n], r)
  BY <1>2, SameBetter DEF DroppedNeverReturns
<1>4. /\ r \in Replica \cup {NoReplica} /\ index[n] \in Replica \cup {NoReplica}
      /\ index'[n] \in Replica \cup {NoReplica}
  BY DEF TypeOK
<1>5. QED
  BY <1>1, <1>3, <1>4, BetterTransitive DEF IndexAdvances

LEMMA AckedStep ==
  TypeOK /\ TypeOK' /\ ControlInv /\ AckedEpochIsPersisted /\ [Next]_vars
    => AckedEpochIsPersisted'
<1> SUFFICES ASSUME TypeOK, TypeOK', ControlInv, AckedEpochIsPersisted, [Next]_vars,
                    NEW a \in acks'
             PROVE  index'[a.from].epoch >= a.epoch
  BY DEF AckedEpochIsPersisted
<1>1. index[a.from].epoch >= a.epoch
  <2>1. ASSUME NEW n \in Node, RecordInvite(n) PROVE index[a.from].epoch >= a.epoch
    <3>1. a \in acks \/ (a.from = n /\ a.epoch = task[n].new.epoch)
      BY <2>1 DEF RecordInvite
    <3>2. index[n].epoch >= task[n].new.epoch
      BY <2>1 DEF RecordInvite, ControlInv, TaskInv
    <3>3. QED
      BY <3>1, <3>2 DEF AckedEpochIsPersisted
  <2>2. CASE acks' \subseteq acks
    BY <2>2 DEF AckedEpochIsPersisted
  <2>3. ASSUME NEW n \in Node,
               \/ EnsureDirect(n) \/ ClearHistory(n) \/ InviteMembersWait(n)
               \/ PersistFounded(n) \/ AcceptInvite(n) \/ DropDocument(n)
               \/ MigrateMessages(n) \/ RetryInvites(n) \/ ApplyControlAcks(n)
               \/ SendMessage(n) \/ Restart(n) \/ HandlerFails(n)
        PROVE  acks' \subseteq acks
    BY <2>3 DEF EnsureDirect, ClearHistory, InviteMembersWait, PersistFounded,
                AcceptInvite, DropDocument, MigrateMessages, RetryInvites,
                ApplyControlAcks, SendMessage, Restart, HandlerFails
  <2>4. ASSUME NEW n \in Node, NEW q \in Others(n), SyncDocument(n, q)
        PROVE  acks' \subseteq acks
    BY <2>4 DEF SyncDocument
  <2>5. CASE LosePacket \/ UNCHANGED vars
    BY <2>2, <2>5 DEF LosePacket, vars
  <2>6. QED
    BY <2>1, <2>2, <2>3, <2>4, <2>5 DEF Next, Handle
<1>2. a.from \in Node /\ a.epoch \in Int
  BY DEF TypeOK, Ack
<1>3. index'[a.from] = index[a.from] \/ Better(index'[a.from], index[a.from])
  BY <1>2, IndexAdvancesStep DEF IndexAdvances
<1>4. /\ index[a.from] \in Replica \cup {NoReplica}
      /\ index'[a.from] \in Replica \cup {NoReplica}
  BY <1>2 DEF TypeOK
<1>5. index'[a.from].epoch >= index[a.from].epoch
  BY <1>3, <1>4, BetterEpoch, ReplicaFields
<1>6. QED
  BY <1>1, <1>2, <1>4, <1>5, ReplicaFields
-----------------------------------------------------------------------------
LEMMA InvStep == Inv /\ [Next]_vars => Inv'
BY TypeOKStep, ControlInvStep, StoreInvStep, DroppedStep, AckedStep
   DEF Inv, ControlInv, StoreInv

LEMMA Invariance == Spec => []Inv
BY InitInv, InvStep, PTL DEF Spec

(***************************************************************************)
(* Every variable keeps its type, for any members and any bounds.          *)
(***************************************************************************)
THEOREM TypeCorrect == Spec => []TypeOK
<1>1. Inv => TypeOK
  BY DEF Inv
<1>2. QED
  BY <1>1, Invariance, PTL

(***************************************************************************)
(* No document ever holds a message from before its history reset: what    *)
(* accept_invite migrates and what documents exchange stays in its epoch.  *)
(***************************************************************************)
THEOREM ResetDiscards == Spec => []NothingFromBeforeTheReset
<1>1. Inv => NothingFromBeforeTheReset
  BY DEF Inv
<1>2. QED
  BY <1>1, Invariance, PTL

(***************************************************************************)
(* drop_document never deletes a document the member will name again.      *)
(***************************************************************************)
THEOREM DropIsFinal == Spec => []DroppedNeverReturns
<1>1. Inv => DroppedNeverReturns
  BY DEF Inv
<1>2. QED
  BY <1>1, Invariance, PTL

(***************************************************************************)
(* An epoch acknowledgement never runs ahead of the index on disk.         *)
(***************************************************************************)
THEOREM AckAfterPersist == Spec => []AckedEpochIsPersisted
<1>1. Inv => AckedEpochIsPersisted
  BY DEF Inv
<1>2. QED
  BY <1>1, Invariance, PTL
-----------------------------------------------------------------------------
(***************************************************************************)
(* The conversation implements the election: founding a document is        *)
(* Create, writing the index is Choose, everything else stutters.          *)
(***************************************************************************)
LEMMA ElectionStep == Inv /\ [Next]_vars => [Election!Next]_(Election!vars)
<1> SUFFICES ASSUME Inv, [Next]_vars PROVE [Election!Next]_(Election!vars)
  OBVIOUS
<1> USE DEF Election!vars
<1>1. ASSUME NEW n \in Node, EnsureDirect(n) \/ ClearHistory(n)
      PROVE  [Election!Next]_(Election!vars)
  <2>1. CreateConversation(n) /\ UNCHANGED index
    BY <1>1 DEF EnsureDirect, ClearHistory
  <2>2. Election!Create(n)
    BY <2>1 DEF CreateConversation, Fresh, Election!Create, Election!Fresh
  <2>3. QED
    BY <2>2 DEF Election!Next
<1>2. ASSUME NEW n \in Node, PersistFounded(n) PROVE [Election!Next]_(Election!vars)
  <2>1. task[n].new \in created /\ Better(task[n].new, index[n])
    BY <1>2 DEF PersistFounded, Inv, KnownReplicas, TaskInv
  <2>2. Election!Choose(n)
    BY <1>2, <2>1, SameBetter DEF PersistFounded, Election!Choose
  <2>3. QED
    BY <2>2 DEF Election!Next
<1>3. ASSUME NEW n \in Node, AcceptInvite(n) PROVE [Election!Next]_(Election!vars)
  <2>1. PICK i \in sending :
          /\ IF Better(i.replica, index[n]) THEN AdoptInvite(n, i) ELSE IgnoreInvite(n, i)
          /\ UNCHANGED created
    BY <1>3 DEF AcceptInvite
  <2>2. i.replica \in created
    BY DEF Inv, KnownReplicas
  <2>3. CASE Better(i.replica, index[n]) /\ AdoptInvite(n, i)
    <3>1. Election!Choose(n)
      BY <2>1, <2>2, <2>3, SameBetter DEF AdoptInvite, Election!Choose
    <3>2. QED
      BY <3>1 DEF Election!Next
  <2>4. CASE IgnoreInvite(n, i)
    BY <2>1, <2>4 DEF IgnoreInvite
  <2>5. QED
    BY <2>1, <2>3, <2>4
<1>4. CASE UNCHANGED <<created, index>>
  BY <1>4
<1>5. ASSUME NEW n \in Node,
             \/ InviteMembersWait(n) \/ DropDocument(n) \/ MigrateMessages(n)
             \/ RecordInvite(n) \/ RetryInvites(n) \/ ApplyControlAcks(n)
             \/ SendMessage(n) \/ Restart(n) \/ HandlerFails(n)
      PROVE  [Election!Next]_(Election!vars)
  BY <1>4, <1>5 DEF InviteMembersWait, DropDocument, MigrateMessages, RecordInvite,
                    RetryInvites, ApplyControlAcks, SendMessage, Restart, HandlerFails
<1>6. ASSUME NEW n \in Node, NEW q \in Others(n), SyncDocument(n, q)
      PROVE  [Election!Next]_(Election!vars)
  BY <1>4, <1>6 DEF SyncDocument
<1>7. CASE LosePacket \/ UNCHANGED vars
  BY <1>4, <1>7 DEF LosePacket, vars
<1>8. QED
  BY <1>1, <1>2, <1>3, <1>5, <1>6, <1>7 DEF Next, Handle

THEOREM ImplementsElection == Spec => RefinesElection
<1>1. Init => Election!Init
  BY DEF Init, Election!Init, NoReplica, Election!NoReplica
<1>2. QED
  BY <1>1, ElectionStep, Invariance, PTL DEF Spec, RefinesElection, Election!Spec

-----------------------------------------------------------------------------
(***************************************************************************)
(* The author's own messages.  OwnMessagesKept speaks of idle members only; *)
(* what carries it through a handler is where the messages are meanwhile:   *)
(* in the document the index names, or read and not yet copied.             *)
(***************************************************************************)

\* A member writes into its present epoch, and its epoch never falls.
SentInThePast == \A m \in sent : m.epoch =< index[m.author].epoch

\* A founded replica opens an epoch in which nothing has been written.
FoundedAbove ==
  \A n \in Node : task[n].op = "founded" => task[n].new.epoch > index[n].epoch

Carried(m) ==
  index[m.author].epoch = m.epoch =>
    IF task[m.author].op \in {"adopted", "migrate"}
    THEN m \in task[m.author].kept
    ELSE m \in store[m.author][index[m.author].doc]

AllCarried == crashes = 0 /\ errors = 0 => \A m \in sent : Carried(m)

OwnInv == SentInThePast /\ FoundedAbove /\ AllCarried

LEMMA OwnInit == Init => OwnInv
BY DEF Init, OwnInv, SentInThePast, FoundedAbove, AllCarried, IdleTask

LEMMA SentStep ==
  TypeOK /\ TypeOK' /\ IndexAdvances /\ SentInThePast /\ [Next]_vars => SentInThePast'
<1> SUFFICES ASSUME TypeOK, TypeOK', IndexAdvances, SentInThePast, [Next]_vars,
                    NEW m \in sent'
             PROVE  m.epoch =< index'[m.author].epoch
  BY DEF SentInThePast
<1>1. m.author \in Node /\ m.epoch \in Nat
  BY DEF TypeOK, Message
<1>2. /\ index[m.author] \in Replica \cup {NoReplica}
      /\ index'[m.author] \in Replica \cup {NoReplica}
  BY <1>1 DEF TypeOK
<1>3. index'[m.author].epoch >= index[m.author].epoch
  BY <1>1, <1>2, BetterEpoch, ReplicaFields DEF IndexAdvances
<1>4. CASE m \in sent
  BY <1>1, <1>2, <1>3, <1>4, ReplicaFields DEF SentInThePast
<1>5. CASE m \notin sent
  <2>1. PICK n \in Node : SendMessage(n)
    <3>1. CASE Next
      BY <1>5, <3>1 DEF Next, Handle, EnsureDirect, ClearHistory, PersistFounded,
            InviteMembersWait, DropDocument, MigrateMessages, RecordInvite, AcceptInvite,
            RetryInvites, ApplyControlAcks, Restart, HandlerFails, SyncDocument, LosePacket
    <3>2. CASE UNCHANGED vars
      BY <1>5, <3>2 DEF vars
    <3>3. QED
      BY <3>1, <3>2
  <2>2. m = [author |-> n, epoch |-> index[n].epoch]
    BY <1>5, <2>1 DEF SendMessage
  <2>3. m.author = n /\ m.epoch = index[m.author].epoch
    BY <2>2
  <2>4. QED
    BY <1>2, <1>3, <2>3, ReplicaFields
<1>6. QED
  BY <1>4, <1>5

LEMMA CreateConversationFounds ==
  ASSUME TypeOK, NEW n \in Node, CreateConversation(n)
  PROVE  /\ task'[n].op = "founded"
         /\ task'[n].new.epoch = index[n].epoch + 1
         /\ \A q \in Node : q # n => task'[q] = task[q]
<1>1. PICK d \in Doc :
        LET r == [epoch |-> index[n].epoch + 1, doc |-> d] IN
          task' = [task EXCEPT ![n] = [IdleTask(n) EXCEPT !.op = "founded",
                                                          !.new = r,
                                                          !.old = index[n]]]
  BY DEF CreateConversation
<1> DEFINE r == [epoch |-> index[n].epoch + 1, doc |-> d]
           t == [IdleTask(n) EXCEPT !.op = "founded", !.new = r, !.old = index[n]]
<1>2. t.op = "founded" /\ t.new = r /\ r.epoch = index[n].epoch + 1
  BY DEF IdleTask
<1>3. task' = [task EXCEPT ![n] = t]
  BY <1>1
<1> HIDE DEF t, r
<1>4. task'[n] = t /\ \A q \in Node : q # n => task'[q] = task[q]
  BY <1>3 DEF TypeOK
<1>5. QED
  BY <1>2, <1>4

\* The steps of one member leave every other member's index and task alone.
LEMMA OthersStay ==
  ASSUME TypeOK, NEW n \in Node, NEW q \in Node, q # n,
         \/ EnsureDirect(n) \/ ClearHistory(n) \/ Handle(n) \/ AcceptInvite(n)
         \/ RetryInvites(n) \/ ApplyControlAcks(n) \/ SendMessage(n) \/ Restart(n)
         \/ HandlerFails(n)
  PROVE  index'[q] = index[q] /\ task'[q] = task[q] /\ store'[q] = store[q]
<1>1. CASE EnsureDirect(n) \/ ClearHistory(n)
  BY <1>1, CreateConversationFounds DEF EnsureDirect, ClearHistory
<1>2. CASE AcceptInvite(n)
  BY <1>2 DEF AcceptInvite, AdoptInvite, IgnoreInvite, TypeOK
<1>3. CASE Handle(n)
  BY <1>3 DEF Handle, PersistFounded, InviteMembersWait, DropDocument, MigrateMessages,
              RecordInvite, TypeOK
<1>4. CASE RetryInvites(n) \/ ApplyControlAcks(n) \/ SendMessage(n)
  BY <1>4 DEF RetryInvites, ApplyControlAcks, SendMessage, TypeOK
<1>5. CASE Restart(n) \/ HandlerFails(n)
  BY <1>5 DEF Restart, HandlerFails, TypeOK
<1>6. QED
  BY <1>1, <1>2, <1>3, <1>4, <1>5

LEMMA FoundedStep ==
  TypeOK /\ FoundedAbove /\ [Next]_vars => FoundedAbove'
<1> SUFFICES ASSUME TypeOK, FoundedAbove, [Next]_vars, NEW q \in Node,
                    task'[q].op = "founded"
             PROVE  task'[q].new.epoch > index'[q].epoch
  BY DEF FoundedAbove
<1>1. index[q].epoch \in Int
  BY ReplicaFields DEF TypeOK
<1>2. CASE index'[q] = index[q] /\ task'[q] = task[q]
  BY <1>2 DEF FoundedAbove
<1>3. ASSUME EnsureDirect(q) \/ ClearHistory(q)
      PROVE  task'[q].new.epoch > index'[q].epoch
  <2>1. task'[q].new.epoch = index[q].epoch + 1 /\ index' = index
    BY <1>3, CreateConversationFounds DEF EnsureDirect, ClearHistory
  <2>2. QED
    BY <1>1, <2>1
<1>4. ASSUME Handle(q) PROVE FALSE
  <2>1. \A o \in Step : task' = [task EXCEPT ![q].op = o] => task'[q].op = o
    BY NextOpFields
  <2>2. task' = [task EXCEPT ![q] = IdleTask(q)] => task'[q].op = "idle"
    BY DEF TypeOK, IdleTask
  <2>3. CASE PersistFounded(q)
    BY <2>1, <2>3 DEF PersistFounded, Step
  <2>4. CASE DropDocument(q)
    <3>1. task' = [task EXCEPT ![q].op = IF @ = "rotated" THEN "announce" ELSE "migrate"]
      BY <2>4 DEF DropDocument
    <3>2. \/ task' = [task EXCEPT ![q].op = "announce"]
          \/ task' = [task EXCEPT ![q].op = "migrate"]
      BY <3>1
    <3>3. QED
      BY <2>1, <3>2 DEF Step
  <2>5. CASE MigrateMessages(q)
    BY <2>1, <2>5 DEF MigrateMessages, Step
  <2>6. CASE InviteMembersWait(q) \/ RecordInvite(q)
    BY <2>2, <2>6 DEF InviteMembersWait, RecordInvite
  <2>7. QED
    BY <1>4, <2>3, <2>4, <2>5, <2>6 DEF Handle
<1>5. ASSUME AcceptInvite(q) PROVE FALSE
  <2>1. PICK i \in sending : AdoptInvite(q, i) \/ IgnoreInvite(q, i)
    BY <1>5 DEF AcceptInvite
  <2>2. CASE AdoptInvite(q, i)
    <3>1. task'[q] = Adopted(q, i)
      BY <2>2 DEF AdoptInvite, TypeOK
    <3>2. QED
      BY <3>1 DEF Adopted
  <2>3. CASE IgnoreInvite(q, i)
    BY <2>3 DEF IgnoreInvite, IdleTask, TypeOK
  <2>4. QED
    BY <2>1, <2>2, <2>3
<1>6. ASSUME Restart(q) \/ HandlerFails(q) PROVE FALSE
  BY <1>6 DEF Restart, HandlerFails, IdleTask, TypeOK
<1>7. ASSUME RetryInvites(q) \/ ApplyControlAcks(q) \/ SendMessage(q)
      PROVE  task'[q].new.epoch > index'[q].epoch
  BY <1>2, <1>7 DEF RetryInvites, ApplyControlAcks, SendMessage
<1>8. ASSUME NEW n \in Node, n # q,
             \/ EnsureDirect(n) \/ ClearHistory(n) \/ Handle(n) \/ AcceptInvite(n)
             \/ RetryInvites(n) \/ ApplyControlAcks(n) \/ SendMessage(n) \/ Restart(n)
             \/ HandlerFails(n)
      PROVE  task'[q].new.epoch > index'[q].epoch
  BY <1>2, <1>8, OthersStay
<1>9. ASSUME NEW n \in Node, NEW p \in Others(n), SyncDocument(n, p)
      PROVE  task'[q].new.epoch > index'[q].epoch
  BY <1>2, <1>9 DEF SyncDocument
<1>10. CASE LosePacket \/ UNCHANGED vars
  BY <1>2, <1>10 DEF LosePacket, vars
<1>11. QED
  BY <1>3, <1>4, <1>5, <1>6, <1>7, <1>8, <1>9, <1>10 DEF Next

\* Where index and task stay and the documents only grow, nothing is lost.
LEMMA CarriedOn ==
  ASSUME NEW m \in Message, Carried(m),
         index'[m.author] = index[m.author], task'[m.author] = task[m.author],
         \A d \in Doc : store[m.author][d] \subseteq store'[m.author][d],
         TypeOK
  PROVE  Carried(m)'
<1>1. m.author \in Node /\ m.epoch \in Nat
  BY DEF Message
<1>2. CASE index[m.author].epoch = m.epoch
  <2>1. index[m.author] # NoReplica
    BY <1>1, <1>2 DEF NoReplica
  <2>2. index[m.author].doc \in Doc
    BY <1>1, <2>1, IndexType DEF Replica
  <2>3. QED
    BY <2>2 DEF Carried
<1>3. QED
  BY <1>2 DEF Carried

\* The founder goes to an epoch above everything it has sent.
LEMMA PersistFoundedCarries ==
  ASSUME TypeOK, OwnInv, NEW n \in Node, PersistFounded(n), NEW m \in sent,
         m.author = n
  PROVE  Carried(m)'
<1>1. m.epoch \in Nat /\ index[n].epoch \in Int /\ task[n].new.epoch \in Int
  BY ReplicaFields DEF TypeOK, Message, Task
<1>2. m.epoch =< index[n].epoch /\ task[n].new.epoch > index[n].epoch
  BY DEF OwnInv, SentInThePast, FoundedAbove, PersistFounded
<1>3. index'[n] = task[n].new
  BY DEF PersistFounded, TypeOK
<1>4. index'[n].epoch # m.epoch
  BY <1>1, <1>2, <1>3
<1>5. QED
  BY <1>4 DEF Carried

\* accept_invite reads them before the index moves, or moves past their epoch.
LEMMA AcceptInviteCarries ==
  ASSUME TypeOK, OwnInv, NEW n \in Node, AcceptInvite(n), NEW m \in sent,
         m.author = n, Carried(m), Idle(n)
  PROVE  Carried(m)'
<1>1. PICK i \in sending :
        /\ IF Better(i.replica, index[n]) THEN AdoptInvite(n, i) ELSE IgnoreInvite(n, i)
        /\ UNCHANGED store
  BY DEF AcceptInvite
<1>2. m.epoch \in Nat /\ index[n].epoch \in Int /\ i.replica \in Replica
      /\ i.replica.epoch \in Int
  BY ReplicaFields DEF TypeOK, Message, Invite
<1>3. m.epoch =< index[n].epoch
  BY DEF OwnInv, SentInThePast
<1>4. index[n] # NoReplica
  BY <1>2, <1>3 DEF NoReplica
<1>5. CASE Better(i.replica, index[n]) /\ AdoptInvite(n, i)
  <2>1. index'[n] = i.replica /\ task'[n] = Adopted(n, i)
    BY <1>5 DEF AdoptInvite, TypeOK
  <2>2. task'[n].op = "adopted"
    BY <2>1 DEF Adopted
  <2>3. CASE i.replica.epoch = m.epoch
    <3>1. index[n].epoch = m.epoch
      BY <1>2, <1>3, <1>5, <2>3 DEF Better
    <3>2. ~Resets(n, i.replica)
      BY <1>2, <2>3, <3>1 DEF Resets
    <3>3. task'[n].kept = OwnMessages(n)
      BY <1>4, <2>1, <3>2 DEF Adopted
    <3>4. m \in store[n][index[n].doc]
      BY <3>1 DEF Carried, Idle
    <3>5. m \in task'[n].kept
      BY <3>3, <3>4 DEF OwnMessages
    <3>6. QED
      BY <2>2, <3>5 DEF Carried
  <2>4. CASE i.replica.epoch # m.epoch
    BY <2>1, <2>4 DEF Carried
  <2>5. QED
    BY <2>3, <2>4
<1>6. CASE IgnoreInvite(n, i)
  <2>1. index' = index /\ task'[n].op = "record"
    BY <1>6 DEF IgnoreInvite, IdleTask, TypeOK
  <2>2. QED
    BY <1>1, <2>1 DEF Carried, Idle
<1>7. QED
  BY <1>1, <1>5, <1>6

\* drop_document deletes another document than the one the index names.
LEMMA DropDocumentCarries ==
  ASSUME TypeOK, ControlInv, NEW n \in Node, DropDocument(n), NEW m \in sent,
         m.author = n, Carried(m)
  PROVE  Carried(m)'
<1>1. index' = index
  BY DEF DropDocument
<1>2. m.epoch \in Nat
  BY DEF TypeOK, Message
<1>3. CASE task[n].op = "adopted"
  <2>1. task' = [task EXCEPT ![n].op = "migrate"]
    BY <1>3 DEF DropDocument
  <2>2. task'[n].op = "migrate" /\ task'[n].kept = task[n].kept
    BY <2>1, NextOpFields
  <2>3. QED
    BY <1>1, <1>3, <2>2 DEF Carried
<1>4. CASE task[n].op = "rotated"
  <2>1. task' = [task EXCEPT ![n].op = "announce"]
    BY <1>4 DEF DropDocument
  <2>2. task'[n].op = "announce"
    BY <2>1, NextOpFields
  <2>3. CASE index[n].epoch # m.epoch
    BY <1>1, <2>3 DEF Carried
  <2>4. CASE index[n].epoch = m.epoch
    <3>1. m \in store[n][index[n].doc]
      BY <1>4, <2>4 DEF Carried
    <3>2. index[n] # NoReplica
      BY <1>2, <2>4 DEF NoReplica
    <3>3. index[n].doc \in Doc
      BY <3>2, IndexType DEF Replica
    <3>4. m \in store'[n][index[n].doc]
      <4>1. CASE task[n].old = NoReplica
        BY <3>1, <4>1 DEF DropDocument
      <4>2. CASE task[n].old # NoReplica
        <5>1. Better(index[n], task[n].old)
          BY <1>4 DEF ControlInv, TaskInv
        <5>2. /\ index[n] \in created /\ task[n].old \in created
              /\ task[n].old \in Replica /\ index[n] \in Replica
          BY <3>2, <4>2 DEF ControlInv, KnownReplicas, TypeOK
        <5>3. index[n] # task[n].old
          BY <5>1, <5>2, ReplicaFields DEF Better
        <5>4. index[n].doc # task[n].old.doc
          BY <5>2, <5>3 DEF ControlInv, OneReplicaPerDoc
        <5>5. store' = [store EXCEPT ![n][task[n].old.doc] = {}]
          BY <4>2 DEF DropDocument
        <5>6. store'[n][index[n].doc] = store[n][index[n].doc]
          BY <3>3, <5>4, <5>5 DEF TypeOK
        <5>7. QED
          BY <3>1, <5>6
      <4>3. QED
        BY <4>1, <4>2
    <3>5. QED
      BY <1>1, <2>2, <3>4 DEF Carried
  <2>5. QED
    BY <2>3, <2>4
<1>5. QED
  BY <1>3, <1>4 DEF DropDocument

\* insert_message copies what was read into the document the index names.
LEMMA MigrateMessagesCarries ==
  ASSUME TypeOK, ControlInv, NEW n \in Node, MigrateMessages(n), NEW m \in sent,
         m.author = n, Carried(m)
  PROVE  Carried(m)'
<1>1. index' = index /\ task' = [task EXCEPT ![n].op = "record"]
  BY DEF MigrateMessages
<1>2. task'[n].op = "record"
  BY <1>1, NextOpFields
<1>3. index[n] = task[n].new
  BY DEF ControlInv, TaskInv, MigrateMessages
<1>4. task[n].new \in created
  BY DEF ControlInv, KnownReplicas, MigrateMessages
<1>5. task[n].new.doc \in Doc
  BY <1>4 DEF TypeOK, Replica
<1>6. store'[n][index[n].doc] = store[n][index[n].doc] \cup task[n].kept
  BY <1>3, <1>5 DEF MigrateMessages, TypeOK
<1>7. index[n].epoch = m.epoch => m \in task[n].kept
  BY DEF Carried, MigrateMessages
<1>8. QED
  BY <1>1, <1>2, <1>6, <1>7 DEF Carried

LEMMA CarriedStep ==
  Inv /\ Inv' /\ OwnInv /\ [Next]_vars => AllCarried'
<1> SUFFICES ASSUME Inv, Inv', OwnInv, [Next]_vars, crashes' = 0, errors' = 0,
                    NEW m \in sent'
             PROVE  Carried(m)'
  BY DEF AllCarried
<1>1. TypeOK /\ ControlInv
  BY DEF Inv, ControlInv
<1>2. m \in Message /\ m.author \in Node /\ m.epoch \in Nat
  BY DEF Inv, TypeOK, Message
<1> DEFINE a == m.author
<1>3. crashes = 0 /\ errors = 0
  <2>1. crashes \in Nat /\ errors \in Nat
    BY <1>1 DEF TypeOK
  <2>2. CASE \E n \in Node : Restart(n) \/ HandlerFails(n)
    BY <2>1, <2>2 DEF Restart, HandlerFails
  <2>3. CASE ~\E n \in Node : Restart(n) \/ HandlerFails(n)
    <3>1. UNCHANGED <<crashes, errors>>
      BY <2>3 DEF Next, Handle, EnsureDirect, ClearHistory, PersistFounded,
         InviteMembersWait, DropDocument, MigrateMessages, RecordInvite, AcceptInvite,
         RetryInvites, ApplyControlAcks, SyncDocument, LosePacket, SendMessage, vars, failures
    <3>2. QED
      BY <3>1
  <2>4. QED
    BY <2>2, <2>3
<1>4. \A x \in sent : Carried(x)
  BY <1>3 DEF OwnInv, AllCarried
<1>5. ASSUME NEW n \in Node, SendMessage(n) PROVE Carried(m)'
  <2> DEFINE x == [author |-> n, epoch |-> index[n].epoch]
  <2>1. /\ sent' = sent \cup {x}
        /\ store' = [store EXCEPT ![n][index[n].doc] = @ \cup {x}]
        /\ index' = index /\ task' = task /\ Idle(n) /\ index[n] # NoReplica
    BY <1>5 DEF SendMessage
  <2>2. index[n].doc \in Doc
    BY <1>1, <2>1, IndexType DEF Replica
  <2>3. x.author = n
    OBVIOUS
  <2> HIDE DEF x
  <2>4. \A q \in Node, d \in Doc : store[q][d] \subseteq store'[q][d]
    BY <1>1, <2>1, <2>2 DEF TypeOK
  <2>5. CASE m \in sent
    BY <1>1, <1>2, <1>4, <2>1, <2>4, <2>5, CarriedOn
  <2>6. CASE m = x
    <3>1. x \in store'[n][index[n].doc]
      BY <1>1, <2>1, <2>2 DEF TypeOK
    <3>2. QED
      BY <2>1, <2>3, <2>6, <3>1 DEF Carried, Idle
  <2>7. QED
    BY <2>1, <2>5, <2>6
<1>6. SUFFICES ASSUME \A n \in Node : ~SendMessage(n) PROVE Carried(m)'
  BY <1>5
<1>7. m \in sent
  <2>1. sent' = sent
    BY <1>6 DEF Next, Handle, EnsureDirect, ClearHistory, PersistFounded,
          InviteMembersWait, DropDocument, MigrateMessages, RecordInvite, AcceptInvite,
          RetryInvites, ApplyControlAcks, Restart, HandlerFails, SyncDocument, LosePacket,
          vars
  <2>2. QED
    BY <2>1
<1>8. Carried(m)
  BY <1>4, <1>7
<1>9. ASSUME index' = index, task' = task, store' = store PROVE Carried(m)'
  BY <1>1, <1>2, <1>8, <1>9, CarriedOn
<1>10. ASSUME NEW n \in Node, n # a,
              \/ EnsureDirect(n) \/ ClearHistory(n) \/ Handle(n) \/ AcceptInvite(n)
              \/ RetryInvites(n) \/ ApplyControlAcks(n) \/ Restart(n) \/ HandlerFails(n)
       PROVE  Carried(m)'
  <2>1. index'[a] = index[a] /\ task'[a] = task[a] /\ store'[a] = store[a]
    BY <1>1, <1>2, <1>10, OthersStay
  <2>2. QED
    BY <1>1, <1>2, <1>8, <2>1, CarriedOn
<1>11. ASSUME EnsureDirect(a) \/ ClearHistory(a) PROVE Carried(m)'
  <2>1. task'[a].op = "founded" /\ index' = index /\ store' = store /\ Idle(a)
    BY <1>1, <1>2, <1>11, CreateConversationFounds DEF EnsureDirect, ClearHistory
  <2>2. QED
    BY <1>8, <2>1 DEF Carried, Idle
<1>12. ASSUME Handle(a) PROVE Carried(m)'
  <2>1. CASE PersistFounded(a)
    BY <1>1, <1>2, <1>7, <2>1, PersistFoundedCarries
  <2>2. CASE DropDocument(a)
    BY <1>1, <1>2, <1>7, <1>8, <2>2, DropDocumentCarries
  <2>3. CASE MigrateMessages(a)
    BY <1>1, <1>2, <1>7, <1>8, <2>3, MigrateMessagesCarries
  <2>4. CASE InviteMembersWait(a) \/ RecordInvite(a)
    <3>1. /\ task[a].op \notin {"adopted", "migrate"}
          /\ task'[a].op = "idle" /\ index' = index /\ store' = store
      BY <1>1, <1>2, <2>4 DEF InviteMembersWait, RecordInvite, IdleTask, TypeOK
    <3>2. QED
      BY <1>8, <3>1 DEF Carried
  <2>5. QED
    BY <1>12, <2>1, <2>2, <2>3, <2>4 DEF Handle
<1>13. ASSUME AcceptInvite(a) PROVE Carried(m)'
  <2>1. Idle(a)
    BY <1>13 DEF AcceptInvite
  <2>2. QED
    BY <1>1, <1>2, <1>7, <1>8, <1>13, <2>1, AcceptInviteCarries
<1>14. ASSUME NEW n \in Node, Restart(n) \/ HandlerFails(n) PROVE FALSE
  BY <1>3, <1>14 DEF Restart, HandlerFails
<1>15. ASSUME NEW n \in Node, NEW p \in Others(n), SyncDocument(n, p) PROVE Carried(m)'
  <2>1. index' = index /\ task' = task
    BY <1>15 DEF SyncDocument
  <2>2. \A q \in Node, d \in Doc : store[q][d] \subseteq store'[q][d]
    BY <1>1, <1>15 DEF SyncDocument, TypeOK
  <2>3. QED
    BY <1>1, <1>2, <1>8, <2>1, <2>2, CarriedOn
<1>16. ASSUME NEW n \in Node, RetryInvites(n) \/ ApplyControlAcks(n) PROVE Carried(m)'
  BY <1>9, <1>16 DEF RetryInvites, ApplyControlAcks
<1>17. CASE LosePacket \/ UNCHANGED vars
  BY <1>9, <1>17 DEF LosePacket, vars
<1>18. QED
  BY <1>2, <1>6, <1>10, <1>11, <1>12, <1>13, <1>14, <1>15, <1>16, <1>17 DEF Next

(***************************************************************************)
(* A message its author has sent stays in the author's own replica until a  *)
(* history reset, through every concurrent creation and migration, as long  *)
(* as no handler was cut short: accept_invite reads the messages, moves the *)
(* index, deletes the old document and copies them, in that order, and      *)
(* whatever arrives meanwhile waits.                                        *)
(***************************************************************************)
THEOREM OwnMessagesStay == Spec => []OwnMessagesKeptByHandlers
<1>1. Init => Inv /\ OwnInv
  BY InitInv, OwnInit
<1>2. Inv /\ OwnInv /\ [Next]_vars => (Inv /\ OwnInv)'
  <2> SUFFICES ASSUME Inv, OwnInv, [Next]_vars PROVE Inv' /\ OwnInv'
    OBVIOUS
  <2>1. Inv' /\ TypeOK /\ TypeOK' /\ ControlInv
    BY InvStep DEF Inv, ControlInv
  <2>2. SentInThePast'
    BY <2>1, IndexAdvancesStep, SentStep DEF OwnInv
  <2>3. FoundedAbove'
    BY <2>1, FoundedStep DEF OwnInv
  <2>4. AllCarried'
    BY <2>1, CarriedStep
  <2>5. QED
    BY <2>1, <2>2, <2>3, <2>4 DEF OwnInv
<1>3. Inv /\ OwnInv => OwnMessagesKeptByHandlers
  <2> SUFFICES ASSUME Inv, OwnInv, crashes = 0, errors = 0, NEW m \in sent,
                      Idle(m.author), index[m.author].epoch = m.epoch
               PROVE  m \in store[m.author][index[m.author].doc]
    BY DEF OwnMessagesKeptByHandlers, OwnMessagesKept
  <2>1. Carried(m)
    BY DEF OwnInv, AllCarried
  <2>2. QED
    BY <2>1 DEF Carried, Idle
<1>4. QED
  BY <1>1, <1>2, <1>3, PTL DEF Spec
=============================================================================
