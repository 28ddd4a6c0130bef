----------------------------- MODULE CallWorker -----------------------------
(***************************************************************************)
(* The calls of Wire's background worker (wire-app/src/runtime/worker.rs). *)
(* The worker is one task: it takes commands of the screen and reports of  *)
(* the tasks it spawned, one at a time.  A task outlives the call it was   *)
(* spawned for, so calls are numbered and a report of an older call is     *)
(* told from one of the present.  Recording and screen sharing hang on the *)
(* calls and are modelled with them; the picture, the files and the audio  *)
(* device are not.                                                         *)
(*                                                                         *)
(* A connection is the pair of its peer and the number of its call.  The   *)
(* screen reads its events when it can: a command may come at any time     *)
(* after the state it was given in is gone.                                *)
(***************************************************************************)
EXTENDS Integers, Sequences, FiniteSets, Functions

CONSTANTS
  Peers,
  Mates,       \* the peers that advertise the group call we may enter
  MaxCalls,    \* bound on the calls begun
  MaxErrors,   \* bound on the call tasks that fail while their connection lives
  MaxStrays,   \* bound on the answers to a call that does not ring
  MaxTakes     \* bound on the recordings started; a start beyond it fails

ASSUME PeersAssumption  == IsFiniteSet(Peers) /\ Mates \subseteq Peers
ASSUME BoundsAssumption == {MaxCalls, MaxErrors, MaxStrays, MaxTakes} \subseteq Nat

VARIABLES
  calls,       \* active_calls: the entry of each peer
  generation,  \* call_generations: the current call of each peer, 0 for none
  begun,       \* next_call_generation
  aborts,      \* connect_aborts: the call whose dial can be aborted, 0 for none
  tasks,       \* the tasks that run and the reports not yet taken
  open,        \* the connections that are open
  handed,      \* voice_track_rx: tracks handed back by call tasks
  recording,   \* the live recording, and who started it
  speakers,    \* the call whose track each participant's recorder decodes
  takes,       \* recordings started
  preference,  \* record_calls_automatically
  sharing,     \* sharing_active
  senders,     \* the call each peer's video sender was started for
  receivers,   \* the call each running video receiver listens to
  room,        \* whether local_group_call is set
  news,        \* the last call state emitted for each peer
  audio,       \* whether there is an audio context
  running,     \* whether the worker's loop runs
  errors,      \* call tasks that failed on an open connection
  strays       \* answers to a call that does not ring

callVars   == <<calls, generation, begun, aborts>>
recordVars == <<recording, speakers, takes>>
videoVars  == <<sharing, senders, receivers>>
boundVars  == <<errors, strays>>
vars == <<callVars, tasks, open, handed, recordVars, preference, videoVars, room,
          news, audio, running, boundVars>>

Generation == 1..MaxCalls
CallInfo   == {"calling", "connecting", "incoming", "active"}
Presented  == {"none", "calling", "incoming", "active"}
NoCall     == [state |-> "none", call |-> 0]
Entry      == {NoCall} \cup [state : CallInfo, call : Generation]
Nobody     == [p \in Peers |-> 0]

(* The four JoinSets.  A dial and a wait for the first track report "ok" or
   "failed", the monitor of a ringing call and the call itself that they ended. *)
Task == [kind : {"connect", "track"}, peer : Peers, call : Generation,
         stage : {"running", "ok", "failed"}]
   \cup [kind : {"incoming"}, peer : Peers, call : Generation, stage : {"running", "ended"}]
   \cup [kind : {"call"}, peer : Peers, call : Generation,
         stage : {"starting", "talking", "ended"}]

TaskOf(k, p, c, s) == [kind |-> k, peer |-> p, call |-> c, stage |-> s]

(* What the screen is told of an entry: Connecting has no event of its own. *)
Label(s) == IF s = "connecting" THEN "calling" ELSE s

InCall(entries) == {p \in Peers : entries[p].state # "none"}

IsKnown(p, c)   == generation[p] # 0  \* mutation: any call of the peer is the current one
IsCurrent(p, c) == generation[p] = c

\* begin_call numbers calls from 1 on.
CallBefore == begun  \* mutation: the counter is read before it is increased
FirstCall == begun + 1

Init ==
  /\ calls = [p \in Peers |-> NoCall]
  /\ generation = Nobody
  /\ begun = 0
  /\ aborts = Nobody
  /\ tasks = {}
  /\ open = {}
  /\ handed = <<>>
  /\ recording = "off"
  /\ speakers = Nobody
  /\ takes = 0
  /\ preference \in BOOLEAN
  /\ sharing = FALSE
  /\ senders = Nobody
  /\ receivers = Nobody
  /\ room = FALSE
  /\ news = [p \in Peers |-> "none"]
  /\ audio \in BOOLEAN
  /\ running = TRUE
  /\ errors = 0
  /\ strays = 0

----------------------------------------------------------------------------
(* Recording.  start_recording walks over the tracks of the peers in the    *)
(* call before it stores the session that attach_recorder_for looks for, so *)
(* it attaches nobody.                                                      *)

StartRecording(by) ==
  \/ /\ takes < MaxTakes
     /\ recording' = by
     /\ speakers' = Nobody
     /\ takes' = takes + 1
  \/ UNCHANGED recordVars

StopRecording ==
  /\ recording' = "off"
  /\ speakers' = Nobody
  /\ UNCHANGED takes

MaybeAutoRecord(wanted, entries) ==
  IF wanted /\ recording = "off" /\ InCall(entries) # {}
  THEN StartRecording("automatic")
  ELSE UNCHANGED recordVars

StopAnyRecording(wanted) ==  \* mutation: whoever started it
  IF wanted THEN StopRecording ELSE UNCHANGED recordVars

StopAutoRecording(wanted) ==
  IF wanted /\ recording = "automatic" THEN StopRecording ELSE UNCHANGED recordVars

(* A track of a call that is over is dropped. *)
OnVoiceTrack ==
  /\ running
  /\ handed # <<>>
  /\ handed' = Tail(handed)
  /\ LET p == Head(handed).peer
         c == Head(handed).call
     IN speakers' = IF IsCurrent(p, c) /\ recording # "off"
                    THEN [speakers EXCEPT ![p] = c] ELSE speakers
  /\ UNCHANGED <<callVars, tasks, open, recording, takes, preference, videoVars, room,
                 news, audio, running, boundVars>>

SetCallRecording(enabled) ==
  /\ running
  /\ IF enabled
     THEN /\ recording = "off"
          /\ StartRecording("manual")
     ELSE /\ recording # "off"
          /\ StopRecording
  /\ UNCHANGED <<callVars, tasks, open, handed, preference, videoVars, room,
                 news, audio, running, boundVars>>

SetRecordCallsAutomatically(enabled) ==
  /\ running
  /\ preference # enabled
  /\ preference' = enabled
  /\ IF enabled THEN MaybeAutoRecord(enabled, calls) ELSE StopAutoRecording(enabled)
  /\ UNCHANGED <<callVars, tasks, open, handed, videoVars, room,
                 news, audio, running, boundVars>>

----------------------------------------------------------------------------
(* Video.  A receiver that has finished is replaced, a running one is kept. *)

EnsureVideoStreams(p, c) ==
  /\ receivers' = IF receivers[p] = 0 THEN [receivers EXCEPT ![p] = c] ELSE receivers
  /\ senders' = IF sharing THEN [senders EXCEPT ![p] = c] ELSE senders
  /\ UNCHANGED sharing

CleanupAfterCallEnd(left, sending) ==
  LET stop == sharing /\ InCall(left) = {}
  IN /\ sharing' = (sharing /\ ~stop)
     /\ senders' = IF stop THEN Nobody ELSE sending
     /\ StopAutoRecording(preference)

KeptVideoPeer(streams, p)    == streams  \* mutation: the tasks of the last call stay
RemovedVideoPeer(streams, p) == [streams EXCEPT ![p] = 0]

(* A share that cannot start leaves nothing behind. *)
StartSharing ==
  /\ running
  /\ ~sharing
  /\ sharing' = TRUE
  /\ LET active(p) == calls[p].state = "active"
     IN /\ senders' = [p \in Peers |-> IF active(p) THEN calls[p].call ELSE senders[p]]
        /\ receivers' = [p \in Peers |-> IF active(p) /\ receivers[p] = 0
                                         THEN calls[p].call ELSE receivers[p]]
  /\ UNCHANGED <<callVars, tasks, open, handed, recordVars, preference, room,
                 news, audio, running, boundVars>>

(* The user stops it, or the capture pipeline failed. *)
StopSharing ==
  /\ running
  /\ sharing
  /\ sharing' = FALSE
  /\ senders' = Nobody
  /\ UNCHANGED <<callVars, tasks, open, handed, recordVars, preference, receivers, room,
                 news, audio, running, boundVars>>

VideoReceiverEnds(p) ==
  /\ receivers[p] # 0
  /\ <<p, receivers[p]>> \notin open
  /\ receivers' = [receivers EXCEPT ![p] = 0]
  /\ UNCHANGED <<callVars, tasks, open, handed, recordVars, preference, sharing, senders,
                 room, news, audio, running, boundVars>>

----------------------------------------------------------------------------
(* Calls. *)

(* begin_call for each of the targets in turn, in some order. *)
Dial(targets) ==
  /\ begun + Cardinality(targets) <= MaxCalls
  /\ begun' = begun + Cardinality(targets)
  /\ \E number \in Injection(targets, FirstCall..(FirstCall + Cardinality(targets) - 1)) :
       /\ calls' = [p \in Peers |-> IF p \in targets
                      THEN [state |-> "calling", call |-> number[p]] ELSE calls[p]]
       /\ generation' = [p \in Peers |-> IF p \in targets THEN number[p] ELSE generation[p]]
       /\ aborts' = [p \in Peers |-> IF p \in targets THEN number[p] ELSE aborts[p]]
       /\ tasks' = tasks \cup {TaskOf("connect", p, number[p], "running") : p \in targets}
       /\ news' = [p \in Peers |-> IF p \in targets THEN "calling" ELSE news[p]]

(* A peer that has an entry is not called again. *)
Call(p) ==
  /\ running
  /\ calls[p] = NoCall
  /\ Dial({p})
  /\ UNCHANGED <<open, handed, recordVars, preference, videoVars, room,
                 audio, running, boundVars>>

EnterGroupCall(targets) ==
  /\ running
  /\ ~room
  /\ room' = TRUE
  /\ Dial({p \in targets : calls[p] = NoCall})
  /\ UNCHANGED <<open, handed, recordVars, preference, videoVars,
                 audio, running, boundVars>>

LeaveGroupCall ==
  /\ running
  /\ room
  /\ room' = FALSE
  /\ UNCHANGED <<callVars, tasks, open, handed, recordVars, preference, videoVars,
                 news, audio, running, boundVars>>

(* Both directions end here with an Active entry.  Without an audio context
   the function fails after it has stored and announced the entry: in a
   command the error is logged, in the loop it ends the worker. *)
Accepted(p, c, rest, inLoop) ==
  LET dies == ~audio /\ inLoop
  IN /\ calls' = [calls EXCEPT ![p] = [state |-> "active", call |-> c]]
     /\ news' = [news EXCEPT ![p] = "active"]
     /\ MaybeAutoRecord(preference, calls')
     /\ IF audio THEN EnsureVideoStreams(p, c) ELSE UNCHANGED videoVars
     /\ tasks' = IF audio THEN rest \cup {TaskOf("call", p, c, "starting")}
                 ELSE IF dies THEN {} ELSE rest
     /\ running' = ~dies

(* A peer calls.  When it has an entry its connection is closed at once and
   nothing changes. *)
HandleConnection(p) ==
  /\ running
  /\ calls[p] = NoCall
  /\ begun < MaxCalls
  /\ LET c == FirstCall
     IN /\ begun' = begun + 1
        /\ generation' = [generation EXCEPT ![p] = c]
        /\ IF room /\ p \in Mates
           THEN /\ Accepted(p, c, tasks, TRUE)
                /\ open' = IF running' THEN open \cup {<<p, c>>} ELSE {}
           ELSE /\ calls' = [calls EXCEPT ![p] = [state |-> "incoming", call |-> c]]
                /\ news' = [news EXCEPT ![p] = "incoming"]
                /\ tasks' = tasks \cup {TaskOf("incoming", p, c, "running")}
                /\ open' = open \cup {<<p, c>>}
                /\ UNCHANGED <<recordVars, videoVars, running>>
  /\ UNCHANGED <<aborts, handed, preference, room, audio, boundVars>>

(* The entry is taken out before its state is looked at: an answer to a call
   that has been answered or has gone drops the entry and does nothing else. *)
StrayAnswer(p) ==
  /\ running
  /\ calls[p].state \notin {"none", "incoming"}
  /\ strays < MaxStrays
  /\ strays' = strays + 1
  /\ calls' = [calls EXCEPT ![p] = NoCall]
  /\ UNCHANGED <<generation, begun, aborts, tasks, open, handed, recordVars, preference,
                 videoVars, room, news, audio, running, errors>>

Answer(p) ==
  /\ running
  /\ calls[p].state = "incoming"
  /\ room' = (room \/ p \in Mates)
  /\ Accepted(p, calls[p].call, tasks, FALSE)
  /\ UNCHANGED <<generation, begun, aborts, open, handed, preference,
                 audio, boundVars>>

(* The entry, its number and its video tasks go; what is left of the calls
   decides on the share, and any end of a call ends an automatic recording. *)
Untold(p)  == news  \* mutation: the screen is not told
ToldEnd(p) == [news EXCEPT ![p] = "none"]

EndCall(p) ==
  /\ calls' = [calls EXCEPT ![p] = NoCall]
  /\ generation' = [generation EXCEPT ![p] = 0]
  /\ receivers' = RemovedVideoPeer(receivers, p)
  /\ CleanupAfterCallEnd(calls', RemovedVideoPeer(senders, p))
  /\ news' = ToldEnd(p)

Reject(p) ==
  /\ running
  /\ calls[p].state = "incoming"
  /\ open' = open \ {<<p, calls[p].call>>}
  /\ EndCall(p)
  /\ UNCHANGED <<begun, aborts, tasks, handed, preference, room, audio, running,
                 boundVars>>

(* A dial that still runs is aborted and never reports; one that has
   finished already will. *)
UnabortedDial(p) == tasks  \* mutation: the dial goes on
AbortedDial(p) ==
  IF aborts[p] # 0 /\ IsCurrent(p, aborts[p])
  THEN tasks \ {TaskOf("connect", p, aborts[p], "running")} ELSE tasks

Abort(p) ==
  /\ running
  /\ calls[p] # NoCall
  /\ aborts' = [aborts EXCEPT ![p] = 0]
  /\ tasks' = AbortedDial(p)
  /\ open' = IF calls[p].state = "calling" THEN open  \* a dial's connection is not here yet
             ELSE open \ {<<p, calls[p].call>>}
  /\ EndCall(p)
  /\ UNCHANGED <<begun, handed, preference, room, audio, running, boundVars>>

----------------------------------------------------------------------------
(* The worker takes the reports of its tasks. *)

(* A connection that came too late is closed. *)
KeptLate(p, c)   == open  \* mutation: it is only ignored
ClosedLate(p, c) == open \ {<<p, c>>}

DiallingAny(p, c) == calls[p].state = "calling"  \* mutation: the report of any dial will do
Dialling(p, c)    == IsCurrent(p, c) /\ calls[p].state = "calling"

ConnectedLate(p, c) ==
  /\ ~Dialling(p, c)
  /\ open' = ClosedLate(p, c)
  /\ UNCHANGED <<calls, generation, recordVars, videoVars, news>>

QuicConnected(p, c) ==
  /\ Dialling(p, c)
  /\ calls' = [calls EXCEPT ![p] = [state |-> "connecting", call |-> c]]
  /\ UNCHANGED <<generation, open, recordVars, videoVars, news>>

ConnectFailed(p, c) ==
  /\ Dialling(p, c)
  /\ calls' = [calls EXCEPT ![p] = NoCall]
  /\ generation' = [generation EXCEPT ![p] = 0]
  /\ CleanupAfterCallEnd(calls', senders)
  /\ news' = [news EXCEPT ![p] = "none"]
  /\ UNCHANGED <<open, receivers>>

ConnectReport(p, c) ==
  /\ running
  /\ aborts' = IF aborts[p] = c THEN [aborts EXCEPT ![p] = 0] ELSE aborts
  /\ \E s \in {"ok", "failed"} :
       LET t == TaskOf("connect", p, c, s)
       IN /\ t \in tasks
          /\ \/ /\ ConnectedLate(p, c)
                /\ tasks' = tasks \ {t}
             \/ /\ s = "ok"
                /\ QuicConnected(p, c)
                /\ tasks' = (tasks \ {t}) \cup {TaskOf("track", p, c, "running")}
             \/ /\ s = "failed"
                /\ ConnectFailed(p, c)
                /\ tasks' = tasks \ {t}
  /\ UNCHANGED <<begun, handed, preference, room, audio, running, boundVars>>

(* The entry is taken out before it is looked at here too. *)
TrackReport(p, c) ==
  /\ running
  /\ \E s \in {"ok", "failed"} :
       LET t          == TaskOf("track", p, c, s)
           connecting == calls[p].state = "connecting"
       IN /\ t \in tasks
          /\ \/ /\ ~IsCurrent(p, c)
                /\ tasks' = tasks \ {t}
                /\ UNCHANGED <<calls, generation, open, recordVars, videoVars, news, running>>
             \/ /\ IsCurrent(p, c) /\ ~connecting
                /\ calls' = [calls EXCEPT ![p] = NoCall]
                /\ tasks' = tasks \ {t}
                /\ UNCHANGED <<generation, open, recordVars, videoVars, news, running>>
             \/ /\ IsCurrent(p, c) /\ connecting /\ s = "ok"
                /\ Accepted(p, c, tasks \ {t}, TRUE)
                /\ open' = IF running' THEN open ELSE {}
                /\ UNCHANGED generation
             \/ /\ IsCurrent(p, c) /\ connecting /\ s = "failed"
                /\ open' = open \ {<<p, c>>}
                /\ EndCall(p)
                /\ tasks' = tasks \ {t}
                /\ UNCHANGED running
  /\ UNCHANGED <<begun, aborts, handed, preference, room, audio, boundVars>>

(* The caller gave up before we answered. *)
GivesUpLater(p, c) == IsCurrent(p, c) /\ calls[p].state = "connecting"  \* mutation
GivesUp(p, c)      == IsCurrent(p, c) /\ calls[p].state = "incoming"

IncomingReport(p, c) ==
  /\ running
  /\ TaskOf("incoming", p, c, "ended") \in tasks
  /\ tasks' = tasks \ {TaskOf("incoming", p, c, "ended")}
  /\ IF GivesUp(p, c)
     THEN /\ calls' = [calls EXCEPT ![p] = NoCall]
          /\ generation' = [generation EXCEPT ![p] = 0]
          /\ news' = [news EXCEPT ![p] = "none"]
     ELSE UNCHANGED <<calls, generation, news>>
  /\ UNCHANGED <<begun, aborts, open, handed, recordVars, preference, videoVars, room,
                 audio, running, boundVars>>

CallReport(p, c) ==
  /\ running
  /\ TaskOf("call", p, c, "ended") \in tasks
  /\ tasks' = tasks \ {TaskOf("call", p, c, "ended")}
  /\ IF IsCurrent(p, c)
     THEN EndCall(p)
     ELSE UNCHANGED <<calls, generation, recordVars, videoVars, news>>
  /\ UNCHANGED <<begun, aborts, open, handed, preference, room, audio, running,
                 boundVars>>

----------------------------------------------------------------------------
(* The tasks, the network and the screen. *)

Becomes(t, stage) == (tasks \ {t}) \cup {[t EXCEPT !.stage = stage]}

ConnectEnds(p, c) ==
  LET t == TaskOf("connect", p, c, "running")
  IN /\ t \in tasks
     /\ \/ tasks' = Becomes(t, "ok") /\ open' = open \cup {<<p, c>>}
        \/ tasks' = Becomes(t, "failed") /\ UNCHANGED open
     /\ UNCHANGED <<callVars, handed, recordVars, preference, videoVars, room,
                    news, audio, running, boundVars>>

(* The peer answers and sends its voice, or the connection is closed.  A
   track may still be read from a connection that has closed since. *)
TrackEnds(p, c) ==
  LET t == TaskOf("track", p, c, "running")
  IN /\ t \in tasks
     /\ \/ tasks' = Becomes(t, "ok")
        \/ <<p, c>> \notin open /\ tasks' = Becomes(t, "failed")
     /\ UNCHANGED <<callVars, open, handed, recordVars, preference, videoVars, room,
                    news, audio, running, boundVars>>

IncomingEnds(p, c) ==
  LET t == TaskOf("incoming", p, c, "running")
  IN /\ t \in tasks
     /\ <<p, c>> \notin open
     /\ tasks' = Becomes(t, "ended")
     /\ UNCHANGED <<callVars, open, handed, recordVars, preference, videoVars, room,
                    news, audio, running, boundVars>>

HandsBackTrack(p, c) ==
  LET t == TaskOf("call", p, c, "starting")
  IN /\ t \in tasks
     /\ tasks' = Becomes(t, "talking")
     /\ handed' = Append(handed, [peer |-> p, call |-> c])
     /\ UNCHANGED <<callVars, open, recordVars, preference, videoVars, room,
                    news, audio, running, boundVars>>

(* The connection is closed, or the audio device fails on an open one: the
   senders of our tracks keep that one open. *)
CallEnds(p, c) ==
  \E t \in {TaskOf("call", p, c, s) : s \in {"starting", "talking"}} \cap tasks :
    /\ \/ <<p, c>> \notin open /\ UNCHANGED errors
       \/ /\ <<p, c>> \in open
          /\ errors < MaxErrors
          /\ errors' = errors + 1
    /\ tasks' = Becomes(t, "ended")
    /\ UNCHANGED <<callVars, open, handed, recordVars, preference, videoVars, room,
                   news, audio, running, strays>>

(* The peer hangs up, dies, or is out of reach for longer than the idle timeout. *)
ConnectionCloses(p, c) ==
  /\ <<p, c>> \in open
  /\ open' = open \ {<<p, c>>}
  /\ UNCHANGED <<callVars, tasks, handed, recordVars, preference, videoVars, room,
                 news, audio, running, boundVars>>

Reports(p, c) ==
  \/ ConnectReport(p, c)
  \/ TrackReport(p, c)
  \/ IncomingReport(p, c)
  \/ CallReport(p, c)

Commands(p) ==
  \/ Call(p)
  \/ Answer(p)
  \/ StrayAnswer(p)
  \/ Reject(p)
  \/ Abort(p)

Environment(p, c) ==
  \/ ConnectEnds(p, c)
  \/ TrackEnds(p, c)
  \/ IncomingEnds(p, c)
  \/ HandsBackTrack(p, c)
  \/ CallEnds(p, c)
  \/ ConnectionCloses(p, c)

Next ==
  \/ \E p \in Peers :
       \/ Commands(p)
       \/ HandleConnection(p)
       \/ VideoReceiverEnds(p)
       \/ \E c \in Generation : Reports(p, c) \/ Environment(p, c)
  \/ \E targets \in SUBSET Peers : EnterGroupCall(targets)
  \/ LeaveGroupCall
  \/ OnVoiceTrack
  \/ \E enabled \in BOOLEAN : SetCallRecording(enabled) \/ SetRecordCallsAutomatically(enabled)
  \/ StartSharing
  \/ StopSharing

Spec == Init /\ [][Next]_vars

(* A task that can report does, and the worker, whose select! is unbiased,
   takes every report. *)
Fairness ==
  \A p \in Peers, c \in Generation :
    /\ WF_vars(Reports(p, c))
    /\ WF_vars(IncomingEnds(p, c))
    /\ WF_vars(<<p, c>> \notin open /\ (TrackEnds(p, c) \/ CallEnds(p, c)))

FairSpec == Spec /\ Fairness

----------------------------------------------------------------------------
(* Properties. *)

TypeOK ==
  /\ calls \in [Peers -> Entry]
  /\ generation \in [Peers -> 0..MaxCalls]
  /\ begun \in 0..MaxCalls
  /\ aborts \in [Peers -> 0..MaxCalls]
  /\ tasks \subseteq Task
  /\ open \subseteq (Peers \X Generation)
  /\ handed \in Seq([peer : Peers, call : Generation])
  /\ recording \in {"off", "manual", "automatic"}
  /\ speakers \in [Peers -> 0..MaxCalls]
  /\ takes \in 0..MaxTakes
  /\ preference \in BOOLEAN
  /\ sharing \in BOOLEAN
  /\ senders \in [Peers -> 0..MaxCalls]
  /\ receivers \in [Peers -> 0..MaxCalls]
  /\ room \in BOOLEAN
  /\ news \in [Peers -> Presented]
  /\ audio \in BOOLEAN
  /\ running \in BOOLEAN
  /\ errors \in 0..MaxErrors
  /\ strays \in 0..MaxStrays

(* The screen's view of the entries, and the voice of the call tasks that have
   not ended. *)
line      == [p \in Peers |-> [state |-> Label(calls[p].state), call |-> calls[p].call]]
Voiced(t) == t.kind = "call" /\ t.stage # "ended"
voices    == {<<t.peer, t.call>> : t \in {u \in tasks : Voiced(u)}}

Lines == INSTANCE CallLines WITH
  lines <- line, speaking <- voices, voice <- audio, up <- running

(* One call per peer: whatever dials, answers, reports of earlier calls and
   late connections do, a call is taken once and under its own number, and no
   line goes from one call to another without being free in between. *)
RefinesLines == Lines!Spec

(* Every call the worker holds is watched by a task of that very call, whose
   report will end it or take it further: no call can become stuck.  Without
   an audio context an answered call has no task (accept_from_accept). *)
WatchedBy(p) ==
  LET c == calls[p].call
      has(kind, stages) == \E s \in stages : TaskOf(kind, p, c, s) \in tasks
  IN CASE calls[p].state = "calling"    -> has("connect", {"running", "ok", "failed"})
       [] calls[p].state = "connecting" -> has("track", {"running", "ok", "failed"})
       [] calls[p].state = "incoming"   -> has("incoming", {"running", "ended"})
       [] calls[p].state = "active"     -> audio => has("call", {"starting", "talking", "ended"})
       [] OTHER                         -> TRUE

EveryCallIsWatched ==
  running => \A p \in Peers :
    calls[p] # NoCall => generation[p] = calls[p].call /\ WatchedBy(p)

(* No connection is left open behind the user's back: it is the connection of
   the peer's present call, or of a dial whose report will close it.  A call
   task that fails on an open connection and a second answer break this. *)
NoConnectionIsOrphaned ==
  errors = 0 /\ strays = 0 =>
    \A p \in Peers, c \in Generation : <<p, c>> \in open =>
      \/ calls[p].call = c /\ calls[p].state # "calling"
      \/ TaskOf("connect", p, c, "ok") \in tasks

(* Only a call that is being made is dialled: hanging up stops the dial. *)
OnlyCallsAreDialled ==
  strays = 0 => \A p \in Peers, c \in Generation :
    TaskOf("connect", p, c, "running") \in tasks =>
      calls[p] = [state |-> "calling", call |-> c]

(* What the screen will show, once it has read its events, is what the worker
   holds: no call is shown that cannot be hung up, none goes on unseen. *)
ScreenIsTold ==
  strays = 0 => \A p \in Peers : news[p] = Label(calls[p].state)

(* Video follows the calls: each active call has the receiver and, during a
   share, the sender of its own connection, and no other peer has one. *)
VideoFollowsTheCalls ==
  audio /\ strays = 0 => \A p \in Peers :
    LET c == calls[p].call
        active == calls[p].state = "active"
    IN /\ senders[p] = IF active /\ sharing THEN c ELSE 0
       /\ ~active => receivers[p] = 0
       /\ active /\ <<p, c>> \in open => receivers[p] = c

(* A recorder never goes back to the track of an earlier call. *)
RecorderNeverGoesBack ==
  [][\A p \in Peers : speakers'[p] # 0 => speakers'[p] >= speakers[p]]_vars

(* A recording started by hand outlives the calls and the preference: only the
   user's own command ends it. *)
ManualRecordingIsTheUsers ==
  [][recording = "manual" /\ recording' # "manual"
       => UNCHANGED <<calls, preference, tasks>>]_vars

(* A call whose connection has closed does not stay: the worker notices and
   the peer can be called again. *)
ClosedCallIsNoticed ==
  \A p \in Peers, c \in Generation :
    /\ running /\ audio
    /\ calls[p].call = c
    /\ calls[p].state # "calling"
    /\ <<p, c>> \notin open
    ~> calls[p].call # c

(* docs/per-speaker-call-recording.md:101, "peers already present attach
   immediately from their stored tracks". *)
PeersPresentAreRecorded ==
  \A p \in Peers, c \in Generation :
    /\ recording # "off"
    /\ IsCurrent(p, c)
    /\ TaskOf("call", p, c, "talking") \in tasks
    /\ [peer |-> p, call |-> c] \notin Range(handed)
    => speakers[p] = c
=============================================================================
