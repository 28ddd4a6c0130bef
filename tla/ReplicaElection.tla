--------------------------- MODULE ReplicaElection ---------------------------
(***************************************************************************)
(* What the chat service promises about the replica of one conversation:   *)
(* every member names one document at a time, a history clear or a first   *)
(* message founds a document one epoch above the member's own, and a       *)
(* member only ever moves to a document that already exists and outranks   *)
(* the one it names.  A higher history epoch outranks a lower one, and     *)
(* within an epoch the smaller document id does.                           *)
(***************************************************************************)
EXTENDS Integers

CONSTANTS
  Node,      \* the members of the conversation
  Doc        \* document ids, as the numbers their order makes them

VARIABLES
  created,   \* the replicas founded so far
  chosen     \* the replica each member names

vars == <<created, chosen>>

Replica   == [epoch : Nat, doc : Doc]
NoReplica == [epoch |-> -1, doc |-> 0]

\* The order accept_invite decides by; NoReplica is below every replica.
Better(r, s) ==
  \/ r.epoch > s.epoch
  \/ r.epoch = s.epoch /\ r.doc < s.doc

Fresh(d) == \A r \in created : r.doc # d

Init ==
  /\ created = {}
  /\ chosen = [n \in Node |-> NoReplica]

Create(n) ==
  \E d \in Doc :
    /\ Fresh(d)
    /\ created' = created \cup {[epoch |-> chosen[n].epoch + 1, doc |-> d]}
    /\ UNCHANGED chosen

Choose(n) ==
  \E r \in created :
    /\ Better(r, chosen[n])
    /\ chosen' = [chosen EXCEPT ![n] = r]
    /\ UNCHANGED created

Next == \E n \in Node : Create(n) \/ Choose(n)

Spec == Init /\ [][Next]_vars
=============================================================================
