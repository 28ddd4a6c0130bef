----------------------------- MODULE ChatSessions -----------------------------
(***************************************************************************)
(* The pool of chat sessions of one member (ChatSessionPool in             *)
(* wire-app/src/chat.rs): QUIC connections kept warm, at most one a peer,   *)
(* shared by the tasks that send packets and by the accept loops of the     *)
(* connections that peers have opened.                                     *)
(*                                                                         *)
(* The mutex `inner` covers one look-up or one update, so that every await  *)
(* of send_chat_packet is a step of its own here.  A connection lives while *)
(* the pool, a task or an accept loop holds it.  remember_connection only   *)
(* repeats to the endpoint what the endpoint knows, and is left out.        *)
(***************************************************************************)
EXTENDS Naturals, FiniteSets, SequencesExt

CONSTANTS
  Peers,       \* the peers
  Sender,      \* the tasks that send packets
  Conn,        \* connection ids, reused once nothing holds them
  PoolCap,     \* CHAT_SESSION_POOL_CAP
  GateCap,     \* CHAT_PEER_GATE_CAP
  InviteQueue, \* the capacity of the queue of incoming packets
  MaxLoops,    \* bound on the accept loops at one time
  MaxFaults    \* bound: how often the network or a peer fails

ChatSessionsAssumption ==
  /\ IsFiniteSet(Peers) /\ Peers # {} /\ IsFiniteSet(Sender)
  /\ Conn \subseteq Nat \ {0} /\ {PoolCap, InviteQueue, MaxFaults} \subseteq Nat

VARIABLES
  pool,      \* the sessions: warm, the least recently used first, or idle for too long
  gates,     \* gates[p]: the gate of p in peer_gates, 0 when it has none
  senders,   \* senders[t]: where send_chat_packet of t stands
  accepting, \* the accept loops: [peer, conn, pooled]
  inbox,     \* packets queued for the service
  closed,    \* the connections that are closed
  faults     \* how many faults there were

sessionVars == <<pool, gates, senders, accepting, inbox, closed, faults>>

NoConn == 0
Stage  == {"idle", "wait", "reuse", "dial", "connecting", "inserted", "send"}
Session == [peer : Peers, conn : Conn]
SendTask == [stage : Stage, peer : Peers, gate : Nat, conn : Conn \cup {NoConn}]
Loop   == [peer : Peers, conn : Conn, pooled : BOOLEAN]

AtRest == [stage |-> "idle", peer |-> CHOOSE p \in Peers : TRUE,
           gate |-> 0, conn |-> NoConn]
Inside == Stage \ {"idle", "wait"}  \* the stages that hold the gate's lock

All(s) == Range(s.warm) \cup s.idle
Held == {e.conn : e \in All(pool)} \cup {senders[t].conn : t \in Sender}
          \cup {l.conn : l \in accepting}
FreshConn(c) == c \in Conn \ Held /\ \A d \in Conn \ Held : c <= d

Init ==
  /\ pool = [warm |-> <<>>, idle |-> {}]
  /\ gates = [p \in Peers |-> 0]
  /\ senders = [t \in Sender |-> AtRest]
  /\ accepting = {}
  /\ inbox = 0
  /\ closed = {}
  /\ faults = 0

Fault == faults < MaxFaults /\ faults' = faults + 1
-----------------------------------------------------------------------------
(***************************************************************************)
(* The operations of the pool.  Sessions fall idle in the order of their    *)
(* last use, so that the idle ones are older than all the others.          *)
(***************************************************************************)
Swept(s)     == [warm |-> s.warm, idle |-> {}]
Of(s, p)     == {e \in All(s) : e.peer = p}
Pooled(s, p) == {e.conn : e \in Of(s, p)}

At(w, p) == {i \in DOMAIN w : w[i].peer = p}
Without(s, p) ==
  [warm |-> IF At(s.warm, p) = {} THEN s.warm
            ELSE RemoveAt(s.warm, CHOOSE i \in At(s.warm, p) : TRUE),
   idle |-> {e \in s.idle : e.peer # p}]

Touched(s, p) ==
  IF Of(s, p) = {} THEN s
  ELSE [Without(s, p) EXCEPT !.warm = Append(@, CHOOSE e \in Of(s, p) : TRUE)]

NeverEvicted(w) == w  \* mutation: the pool grows beyond its capacity
EvictLocked(w) == IF Len(w) > PoolCap THEN Tail(w) ELSE w

\* A session that is there already stays; the new connection is left alone.
Insert(s, p, c) ==
  LET kept == Swept(s) IN
  IF Of(kept, p) # {}
  THEN Touched(kept, p)
  ELSE [kept EXCEPT !.warm = EvictLocked(Append(@, [peer |-> p, conn |-> c]))]

ForgetPeer(s, p, c) == Without(s, p)  \* mutation: whatever connection is pooled
ForgetIf(s, p, c) == IF c \in Pooled(s, p) THEN Without(s, p) ELSE s

\* last_used of the session used least recently falls CHAT_SESSION_IDLE behind.
GrowStale ==
  /\ pool.warm # <<>>
  /\ pool' = [warm |-> Tail(pool.warm), idle |-> pool.idle \cup {Head(pool.warm)}]
  /\ UNCHANGED <<gates, senders, accepting, inbox, closed, faults>>
-----------------------------------------------------------------------------
(***************************************************************************)
(* send_chat_packet.  A gate in use (strong_count > 1) survives the sweep   *)
(* of a full peer_gates.                                                   *)
(***************************************************************************)
GatesInUse == {senders[t].gate : t \in Sender}
FreshGate == CHOOSE g \in 1..(Cardinality(Sender) + Cardinality(Peers) + 1) :
               g \notin GatesInUse \cup {gates[p] : p \in Peers}

SweptOfAll == [p \in Peers |-> 0]  \* mutation: the gates in use go too
SweptGates == [p \in Peers |-> IF gates[p] \in GatesInUse THEN gates[p] ELSE 0]

PeerGate(t, p) ==
  LET full == Cardinality({q \in Peers : gates[q] # 0}) >= GateCap
      kept == IF full THEN SweptGates ELSE gates
      gate == IF kept[p] # 0 THEN kept[p] ELSE FreshGate
  IN /\ senders[t].stage = "idle"
     /\ gates' = [kept EXCEPT ![p] = gate]
     /\ senders' = [senders EXCEPT ![t] =
          [stage |-> "wait", peer |-> p, gate |-> gate, conn |-> NoConn]]
     /\ UNCHANGED <<pool, accepting, inbox, closed, faults>>

Goto(t, stage, c) ==
  senders' = [senders EXCEPT ![t].stage = stage, ![t].conn = c]
Return(t) == senders' = [senders EXCEPT ![t] = AtRest]

\* The lock of the gate, then the warm session if there is one.
EnterGate(t) ==
  LET swept == Swept(pool)
      warm  == Pooled(swept, senders[t].peer)
  IN /\ senders[t].stage = "wait"
     /\ \A u \in Sender : senders[u].gate = senders[t].gate => senders[u].stage \notin Inside
     /\ pool' = swept
     /\ \/ warm = {} /\ Goto(t, "dial", NoConn)
        \/ \E c \in warm : Goto(t, "reuse", c)
     /\ UNCHANGED <<gates, accepting, inbox, closed, faults>>

\* The peer acknowledges what was sent on a warm or a fresh connection.
SendAcknowledged(t) ==
  /\ senders[t].stage \in {"reuse", "send"}
  /\ senders[t].conn \notin closed
  /\ pool' = Touched(pool, senders[t].peer)
  /\ Return(t)
  /\ UNCHANGED <<gates, accepting, inbox, closed, faults>>

\* An error, or CHAT_REUSE_TIMEOUT passes: redial.  On a fresh connection the
\* send has failed.
SendFails(t) ==
  /\ senders[t].stage \in {"reuse", "send"}
  /\ IF senders[t].conn \in closed THEN UNCHANGED faults ELSE Fault
  /\ pool' = ForgetIf(pool, senders[t].peer, senders[t].conn)
  /\ IF senders[t].stage = "reuse" THEN Goto(t, "dial", NoConn) ELSE Return(t)
  /\ UNCHANGED <<gates, accepting, inbox, closed>>

\* dial looks again: an accept loop may have pooled a session meanwhile.
Dial(t) ==
  LET swept == Swept(pool)
      warm  == Pooled(swept, senders[t].peer)
  IN /\ senders[t].stage = "dial"
     /\ pool' = swept
     /\ \/ warm = {} /\ Goto(t, "connecting", NoConn)
        \/ \E c \in warm : Goto(t, "send", c)
     /\ UNCHANGED <<gates, accepting, inbox, closed, faults>>

ConnectEnds(t) ==
  /\ senders[t].stage = "connecting"
  /\ \/ \E c \in Conn :
          /\ FreshConn(c)
          /\ closed' = closed \ {c}
          /\ pool' = Insert(pool, senders[t].peer, c)
          /\ Goto(t, "inserted", c)
          /\ UNCHANGED faults
     \/ /\ Fault
        /\ Return(t)
        /\ UNCHANGED <<pool, closed>>
  /\ UNCHANGED <<gates, accepting, inbox>>

\* "Another task may have won the insert race - prefer pooled session."
PreferPooled(t) ==
  LET swept == Swept(pool)
      warm  == Pooled(swept, senders[t].peer)
  IN /\ senders[t].stage = "inserted"
     /\ pool' = swept
     /\ \/ warm = {} /\ Goto(t, "send", senders[t].conn)
        \/ \E c \in warm : Goto(t, "send", c)
     /\ UNCHANGED <<gates, accepting, inbox, closed, faults>>
-----------------------------------------------------------------------------
(***************************************************************************)
(* ChatInviteProtocol::accept.                                             *)
(***************************************************************************)
Accept(p) ==
  \E c \in Conn :
    /\ FreshConn(c)
    /\ Cardinality(accepting) < MaxLoops
    /\ closed' = closed \ {c}
    /\ pool' = Insert(pool, p, c)
    /\ accepting' = accepting \cup
         {[peer |-> p, conn |-> c, pooled |-> Pooled(Swept(pool), p) = {}]}
    /\ UNCHANGED <<gates, senders, inbox, faults>>

\* The acknowledgement is written before the packet is queued, and the loop
\* waits while the queue of the service is full.
AcceptStream(l) ==
  /\ l.conn \notin closed
  /\ inbox < InviteQueue
  /\ inbox' = inbox + 1
  /\ pool' = Touched(pool, l.peer)
  /\ UNCHANGED <<gates, senders, accepting, closed, faults>>

\* A bad or late stream, CHAT_SESSION_IDLE without a stream, or the end of the
\* connection.  A stream that is opened touches the session first.
AcceptEnds(l) ==
  \E opened \in BOOLEAN :
    LET used == IF opened THEN Touched(pool, l.peer) ELSE pool IN
    /\ IF l.conn \in closed THEN ~opened /\ UNCHANGED faults ELSE Fault
    /\ pool' = IF l.pooled THEN ForgetIf(used, l.peer, l.conn) ELSE used
    /\ accepting' = accepting \ {l}
    /\ UNCHANGED <<gates, senders, inbox, closed>>

\* next_input of the service takes a packet.
TakePacket ==
  /\ inbox > 0
  /\ inbox' = inbox - 1
  /\ UNCHANGED <<pool, gates, senders, accepting, closed, faults>>

\* The other side, or the network, closes a connection in use.
CloseConnection(c) ==
  /\ c \in Held \ closed
  /\ Fault
  /\ closed' = closed \cup {c}
  /\ UNCHANGED <<pool, gates, senders, accepting, inbox>>
-----------------------------------------------------------------------------
Next ==
  \/ GrowStale
  \/ \E t \in Sender :
       \/ \E p \in Peers : PeerGate(t, p)
       \/ EnterGate(t)
       \/ SendAcknowledged(t)
       \/ SendFails(t)
       \/ Dial(t)
       \/ ConnectEnds(t)
       \/ PreferPooled(t)
  \/ \E p \in Peers : Accept(p)
  \/ \E l \in accepting : AcceptStream(l) \/ AcceptEnds(l)
  \/ TakePacket
  \/ \E c \in Conn : c # NoConn /\ CloseConnection(c)

Spec == Init /\ [][Next]_sessionVars
-----------------------------------------------------------------------------
TypeOK ==
  /\ pool \in [warm : Seq(Session), idle : SUBSET Session]
  /\ Len(pool.warm) + Cardinality(pool.idle) <= PoolCap
  /\ gates \in [Peers -> Nat]
  /\ senders \in [Sender -> SendTask]
  /\ accepting \subseteq Loop
  /\ inbox \in 0..InviteQueue
  /\ closed \subseteq Conn
  /\ faults \in 0..MaxFaults

(***************************************************************************)
(* Two tasks never send or dial to one peer at once ("Serialize dial/send  *)
(* per peer so concurrent wakes don't kill each other's fresh              *)
(* connections"), however full the table of gates has been meanwhile.      *)
(***************************************************************************)
OneSendPerPeer ==
  \A t, u \in Sender :
    /\ senders[t].stage \in Inside
    /\ senders[u].stage \in Inside
    /\ senders[t].peer = senders[u].peer
    => t = u

(***************************************************************************)
(* A session leaves the pool because it is idle, because it is the oldest  *)
(* one of a full pool, or because the task or loop that lets go of it has   *)
(* used that very connection: the end of an old connection never takes a    *)
(* fresh one with it.                                                       *)
(***************************************************************************)
FreshSessionStays ==
  \A e \in Range(pool.warm) :
    \/ e.conn \in {f.conn : f \in All(pool')}
    \/ Len(pool.warm) = PoolCap /\ e = Head(pool.warm) /\ Len(pool'.warm) = PoolCap
    \/ \E t \in Sender : senders[t].conn = e.conn /\ senders'[t].conn # e.conn
    \/ \E l \in accepting \ accepting' : l.conn = e.conn

FreshSessionIsKept == [][FreshSessionStays]_sessionVars
=============================================================================
