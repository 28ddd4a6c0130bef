----------------------------- MODULE PresenceProbe -----------------------------
(***************************************************************************)
(* Who is online (wire-app/src/client_status.rs): one member probes one     *)
(* saved contact every PRESENCE_REFRESH_INTERVAL and whenever the contacts  *)
(* change, and the contact itself announces its coming and going.  Each     *)
(* probe is a task; probe_health tells by a generation which of them still  *)
(* counts, and an update it lets pass is queued in a step of its own.      *)
(***************************************************************************)
EXTENDS Naturals, Sequences, FiniteSets

CONSTANTS
  OfflineAfter,   \* OFFLINE_AFTER_CONSECUTIVE_FAILURES
  QueueCap,       \* the capacity of update_tx
  MaxProbes,      \* bound on the probes under way
  MaxGeneration,  \* bound: the generation wraps here to 1, in the code at 2^64
  MaxChanges,     \* bound on how often the contact or the contacts change
  MaxFaults       \* bound on the exchanges that fail although it is there

PresenceProbeAssumption ==
  /\ {OfflineAfter, QueueCap, MaxProbes, MaxGeneration} \subseteq Nat \ {0}
  /\ {MaxChanges, MaxFaults} \subseteq Nat

VARIABLES
  up,        \* the contact runs
  saved,     \* it is in allowed_peers
  health,    \* probe_health of the contact
  probes,    \* tasks of announce_online: [generation, says]
  inbound,   \* announcements of the contact under way
  updates,   \* update_rx
  shown,     \* what the screen says of the contact
  changes, faults

presenceVars == <<up, saved, health, probes, inbound, updates, shown, changes, faults>>

Says        == {"online", "offline"}
\* What is queued and shown: "late" is an "online" that the report of a newer
\* failure has overtaken on the way.  The screen shows the two alike.
Update      == Says \cup {"late"}
Generation  == 0..MaxGeneration
\* "asks" until the exchange ends; then the update that is about to be queued.
Probe       == [generation : Generation, says : Says \cup {"asks"}]
ProbeHealth == [generation : Generation, failures : 0..OfflineAfter,
                offlineEmitted : BOOLEAN]

Init ==
  /\ up \in BOOLEAN /\ saved = TRUE
  /\ health = [generation |-> 0, failures |-> 0, offlineEmitted |-> FALSE]
  /\ probes = {} /\ inbound = <<>> /\ updates = <<>>
  /\ shown = "offline"
  /\ changes = 0 /\ faults = 0

Fault == faults < MaxFaults /\ faults' = faults + 1
-----------------------------------------------------------------------------
(***************************************************************************)
(* ProbeHealth.                                                            *)
(***************************************************************************)
NextGeneration(h) == IF h.generation = MaxGeneration THEN 1 ELSE h.generation + 1

Begin(h) == [h EXCEPT !.generation = NextGeneration(h)]

Current(h, g) == g = h.generation
Succeeded(h, g) ==
  IF Current(h, g) THEN [h EXCEPT !.failures = 0, !.offlineEmitted = FALSE] ELSE h

\* Failures are counted to the threshold only: more of them change nothing.
Failed(h, g) ==
  IF ~Current(h, g) THEN h
  ELSE LET n == IF h.failures < OfflineAfter THEN h.failures + 1 ELSE h.failures
       IN [h EXCEPT !.failures = n,
                    !.offlineEmitted = @ \/ n = OfflineAfter]

ConfirmedOffline(h, g) == Failed(h, g).offlineEmitted /\ ~h.offlineEmitted

OnlyGenerationMoves(h) == Begin(h)  \* mutation: the flag of an offline report stays
ObservedInbound(h) ==
  [generation |-> NextGeneration(h), failures |-> 0, offlineEmitted |-> FALSE]
-----------------------------------------------------------------------------
Asking == {p \in probes : p.says = "asks"}

\* announce_online.  A generation is not used again while a task has it.
AnnounceOnline ==
  /\ saved /\ Cardinality(probes) < MaxProbes
  /\ \A p \in probes : p.generation # NextGeneration(health)
  /\ health' = Begin(health)
  /\ probes' = probes \cup {[generation |-> health'.generation, says |-> "asks"]}
  /\ UNCHANGED <<up, saved, inbound, updates, shown, faults>>

\* refresh_allowed_peers by the timer: CONNECT_TIMEOUT is far shorter than its
\* interval, so that the tasks of the last round have ended.
RefreshAllowedPeers ==
  /\ probes = {}
  /\ AnnounceOnline
  /\ UNCHANGED changes

\* The contacts or the group calls change.
AnnounceChange ==
  /\ changes < MaxChanges
  /\ changes' = changes + 1
  /\ AnnounceOnline

\* The contact answers, and its answer always says online.
ExchangeSucceeds(p) ==
  /\ up
  /\ health' = Succeeded(health, p.generation)
  /\ probes' = IF Current(health, p.generation)
               THEN (probes \ {p}) \cup {[p EXCEPT !.says = "online"]}
               ELSE probes \ {p}
  /\ UNCHANGED <<up, saved, inbound, updates, shown, changes, faults>>

\* It refuses, is away, or does not answer within CONNECT_TIMEOUT.
ExchangeFails(p) ==
  /\ IF up THEN Fault ELSE UNCHANGED faults
  /\ health' = Failed(health, p.generation)
  /\ probes' = IF ConfirmedOffline(health, p.generation)
               THEN (probes \ {p}) \cup {[p EXCEPT !.says = "offline"]}
               ELSE probes \ {p}
  /\ UNCHANGED <<up, saved, inbound, updates, shown, changes>>

\* A newer probe has failed often enough, and has queued that already.
Overtaken(p) ==
  /\ p.says = "online" /\ health.offlineEmitted
  /\ \A q \in probes : q.says # "offline"

\* update_tx.send, after the lock of probe_health is released: nothing compares
\* the generation once more.
QueueUpdate(p) ==
  /\ p.says # "asks" /\ Len(updates) < QueueCap
  /\ updates' = Append(updates, IF Overtaken(p) THEN "late" ELSE p.says)
  /\ probes' = probes \ {p}
  /\ UNCHANGED <<up, saved, health, inbound, shown, changes, faults>>

\* ProtocolHandler::accept; a node that is not a saved contact is refused.
Accept ==
  /\ inbound # <<>> /\ Len(updates) < QueueCap
  /\ inbound' = Tail(inbound)
  /\ IF saved
     THEN /\ health' = ObservedInbound(health)
          /\ updates' = Append(updates, Head(inbound))
     ELSE UNCHANGED <<health, updates>>
  /\ UNCHANGED <<up, saved, probes, shown, changes, faults>>

\* next_update, taken by the worker and told to the screen.
NextUpdate ==
  /\ updates # <<>>
  /\ shown' = Head(updates)
  /\ updates' = Tail(updates)
  /\ UNCHANGED <<up, saved, health, probes, inbound, changes, faults>>

\* The contact starts, or broadcasts that it is going; it may also just die.
ContactStarts ==
  /\ ~up /\ changes < MaxChanges
  /\ up' = TRUE /\ changes' = changes + 1
  /\ inbound' = Append(inbound, "online")
  /\ UNCHANGED <<saved, health, probes, updates, shown, faults>>

ContactStops ==
  /\ up /\ changes < MaxChanges
  /\ up' = FALSE /\ changes' = changes + 1
  /\ inbound' \in {<<>>, Append(inbound, "offline")}
  /\ UNCHANGED <<saved, health, probes, updates, shown, faults>>

\* AllowedPeers::replace.
ReplaceAllowedPeers ==
  /\ changes < MaxChanges
  /\ saved' = ~saved /\ changes' = changes + 1
  /\ UNCHANGED <<up, health, probes, inbound, updates, shown, faults>>
-----------------------------------------------------------------------------
Ends(p)  == p \in Asking /\ (ExchangeSucceeds(p) \/ ExchangeFails(p))

Next ==
  \/ RefreshAllowedPeers \/ AnnounceChange
  \/ \E p \in probes : Ends(p) \/ QueueUpdate(p)
  \/ Accept \/ NextUpdate
  \/ ContactStarts \/ ContactStops \/ ReplaceAllowedPeers

\* The timer of the worker fires for ever, and every task ends: an exchange
\* has a timeout.
WeakStep(i) ==
  \/ i = 1 /\ RefreshAllowedPeers
  \/ i = 2 /\ \E p \in probes : Ends(p)
  \/ i = 3 /\ \E p \in probes : QueueUpdate(p)
  \/ i = 4 /\ Accept
  \/ i = 5 /\ NextUpdate
Fairness == \A i \in 1..5 : WF_presenceVars(WeakStep(i))

Spec == Init /\ [][Next]_presenceVars /\ Fairness
-----------------------------------------------------------------------------
TypeOK ==
  /\ up \in BOOLEAN /\ saved \in BOOLEAN
  /\ health \in ProbeHealth
  /\ probes \subseteq Probe /\ Cardinality(probes) <= MaxProbes
  /\ inbound \in Seq(Says) /\ updates \in Seq(Update)
  /\ shown \in Update
  /\ changes \in 0..MaxChanges /\ faults \in 0..MaxFaults

ShownIsTrue == saved => shown = IF up THEN "online" ELSE "offline"

\* The screen still shows the answer of a probe that was queued after a newer
\* probe's report of the failure, which is not made twice (client_status.rs:302).
ShownIsLate == shown = "late"

\* Once a contact stays up or stays away, the screen comes to say so and goes
\* on saying so: a late result of a probe or a late announcement may show the
\* wrong state for a while, and for good only an answer that was overtaken
\* between the check of its generation and its queueing (announce_online,
\* ProbeHealth).
PresenceConverges == <>[](ShownIsTrue \/ ShownIsLate)
=============================================================================
