------------------------------ MODULE CallLines ------------------------------
(***************************************************************************)
(* What Wire's worker promises about calls.  Every peer has one line, and a *)
(* line carries one call at a time.  A call has a number that no call had  *)
(* before.  It is begun on a free line, is taken at most once, keeps its   *)
(* number till it ends, and leaves the line free.  Voice starts only when  *)
(* the call on the line is taken; it may outlast the call, but once silent *)
(* a call is silent for good.  A worker without an audio device takes calls *)
(* nobody speaks in, or stops.                                             *)
(***************************************************************************)
EXTENDS Integers

CONSTANTS
  Peers

VARIABLES
  lines,     \* what the line of each peer carries
  begun,     \* the number of the last call begun
  speaking,  \* the calls in which voice is carried, each with its peer
  voice,     \* whether there is an audio device
  up         \* whether the worker runs

vars == <<lines, begun, speaking, voice, up>>

Free == [state |-> "none", call |-> 0]

Init ==
  /\ lines = [p \in Peers |-> Free]
  /\ begun = 0
  /\ speaking = {}
  /\ voice \in BOOLEAN
  /\ up = TRUE

(* The calls to all of the targets, each with a number of its own. *)
Dial(targets) ==
  /\ up
  /\ \A p \in targets : lines[p] = Free
  /\ begun' \in Nat /\ begun <= begun'
  /\ \E number \in [targets -> (begun + 1)..begun'] :
       /\ \A p, q \in targets : number[p] = number[q] => p = q
       /\ lines' = [p \in Peers |-> IF p \in targets
                      THEN [state |-> "calling", call |-> number[p]] ELSE lines[p]]
  /\ UNCHANGED <<speaking, voice, up>>

Ring(p) ==
  /\ up
  /\ lines[p] = Free
  /\ begun' = begun + 1
  /\ lines' = [lines EXCEPT ![p] = [state |-> "incoming", call |-> begun + 1]]
  /\ UNCHANGED <<speaking, voice, up>>

Carried(p, c) ==
  /\ lines' = [lines EXCEPT ![p] = [state |-> "active", call |-> c]]
  /\ \/ voice /\ speaking' = speaking \cup {<<p, c>>} /\ UNCHANGED up
     \/ ~voice /\ UNCHANGED <<speaking, up>>
     \/ ~voice /\ speaking' = {} /\ up' = FALSE
  /\ UNCHANGED voice

(* The call on the line is answered, by the peer or by us. *)
Take(p) ==
  /\ up
  /\ lines[p].state \in {"calling", "incoming"}
  /\ Carried(p, lines[p].call)
  /\ UNCHANGED begun

(* A mate of the group call is let in without ringing. *)
LetIn(p) ==
  /\ up
  /\ lines[p] = Free
  /\ begun' = begun + 1
  /\ Carried(p, begun + 1)

End(p) ==
  /\ up
  /\ lines[p] # Free
  /\ lines' = [lines EXCEPT ![p] = Free]
  /\ UNCHANGED <<begun, speaking, voice, up>>

Silence(s) ==
  /\ speaking' = speaking \ {s}
  /\ UNCHANGED <<lines, begun, voice, up>>

Next ==
  \/ \E targets \in SUBSET Peers : Dial(targets)
  \/ \E p \in Peers : Ring(p) \/ Take(p) \/ LetIn(p) \/ End(p)
  \/ \E s \in speaking : Silence(s)

Spec == Init /\ [][Next]_vars
=============================================================================
