-------------------------- MODULE CallWorker_proofs --------------------------
(***************************************************************************)
(* Theorems about CallWorker, for any peers and bounds.  The state is      *)
(* typed in four parts, because a step touches few of them.                *)
(***************************************************************************)
EXTENDS CallWorker, FiniteSetTheorems, TLAPS

Numbers == [Peers -> 0..MaxCalls]

CallTypes ==
  /\ calls \in [Peers -> Entry]
  /\ generation \in Numbers
  /\ begun \in 0..MaxCalls
  /\ aborts \in Numbers
  /\ news \in [Peers -> Presented]

TaskTypes ==
  /\ tasks \subseteq Task
  /\ open \subseteq (Peers \X Generation)
  /\ handed \in Seq([peer : Peers, call : Generation])

RecordTypes ==
  /\ recording \in {"off", "manual", "automatic"}
  /\ speakers \in Numbers
  /\ takes \in 0..MaxTakes
  /\ preference \in BOOLEAN

VideoTypes ==
  /\ sharing \in BOOLEAN
  /\ senders \in Numbers
  /\ receivers \in Numbers

FlagTypes ==
  /\ room \in BOOLEAN
  /\ audio \in BOOLEAN
  /\ running \in BOOLEAN
  /\ errors \in 0..MaxErrors
  /\ strays \in 0..MaxStrays

Typed == CallTypes /\ TaskTypes /\ RecordTypes /\ VideoTypes /\ FlagTypes

LEMMA TypedIsTypeOK == Typed <=> TypeOK
BY DEF Typed, TypeOK, CallTypes, TaskTypes, RecordTypes, VideoTypes, FlagTypes, Numbers

LEMMA Bounds ==
  /\ MaxCalls \in Nat /\ MaxErrors \in Nat /\ MaxStrays \in Nat /\ MaxTakes \in Nat
BY BoundsAssumption

LEMMA NobodyTyped == Nobody \in Numbers
BY Bounds DEF Nobody, Numbers

LEMMA TaskOfTyped ==
  ASSUME NEW p \in Peers, NEW c \in Generation
  PROVE  /\ \A s \in {"running", "ok", "failed"} :
              TaskOf("connect", p, c, s) \in Task /\ TaskOf("track", p, c, s) \in Task
         /\ \A s \in {"running", "ended"} : TaskOf("incoming", p, c, s) \in Task
         /\ \A s \in {"starting", "talking", "ended"} : TaskOf("call", p, c, s) \in Task
BY DEF TaskOf, Task

LEMMA EntryFacts ==
  ASSUME NEW e \in Entry
  PROVE  /\ e.call \in 0..MaxCalls
         /\ e.state # "none" => e.call \in Generation /\ e # NoCall
         /\ e.state = "none" => e = NoCall
         /\ e = NoCall => e.state = "none" /\ e.call = 0
BY Bounds DEF Entry, NoCall, CallInfo, Generation

LEMMA EntryTyped ==
  ASSUME NEW c \in Generation, NEW s \in CallInfo
  PROVE  [state |-> s, call |-> c] \in Entry
BY DEF Entry

-----------------------------------------------------------------------------
(* The parts of the handlers. *)

LEMMA StartRecordingTyped ==
  ASSUME RecordTypes, NEW by \in {"manual", "automatic"}, StartRecording(by),
         preference' \in BOOLEAN
  PROVE  RecordTypes'
BY Bounds DEF RecordTypes, StartRecording, Numbers, Nobody, recordVars

LEMMA StopAutoRecordingTyped ==
  ASSUME RecordTypes, NEW wanted, StopAutoRecording(wanted), preference' \in BOOLEAN
  PROVE  RecordTypes'
BY Bounds DEF RecordTypes, StopAutoRecording, StopRecording, Numbers, Nobody, recordVars

LEMMA MaybeAutoRecordTyped ==
  ASSUME RecordTypes, NEW wanted, NEW entries, MaybeAutoRecord(wanted, entries),
         preference' \in BOOLEAN
  PROVE  RecordTypes'
<1>1. CASE wanted /\ recording = "off" /\ InCall(entries) # {}
  BY <1>1, StartRecordingTyped DEF MaybeAutoRecord
<1>2. CASE ~(wanted /\ recording = "off" /\ InCall(entries) # {})
  BY <1>2 DEF MaybeAutoRecord, RecordTypes, recordVars
<1> QED
  BY <1>1, <1>2

LEMMA EnsureVideoStreamsTyped ==
  ASSUME VideoTypes, NEW p \in Peers, NEW c \in 0..MaxCalls, EnsureVideoStreams(p, c)
  PROVE  VideoTypes'
BY DEF VideoTypes, EnsureVideoStreams, Numbers

LEMMA RemovedVideoPeerTyped ==
  ASSUME NEW streams \in Numbers, NEW p \in Peers
  PROVE  RemovedVideoPeer(streams, p) \in Numbers
BY Bounds DEF Numbers, RemovedVideoPeer

LEMMA CleanupTyped ==
  ASSUME VideoTypes, RecordTypes, NEW left, NEW sending \in Numbers,
         CleanupAfterCallEnd(left, sending), preference' \in BOOLEAN
  PROVE  RecordTypes' /\ sharing' \in BOOLEAN /\ senders' \in Numbers
<1>1. Nobody \in Numbers
  BY Bounds DEF Nobody, Numbers
<1>2. sharing' \in BOOLEAN /\ senders' \in Numbers
  BY <1>1 DEF CleanupAfterCallEnd, VideoTypes
<1>3. RecordTypes'
  BY StopAutoRecordingTyped DEF CleanupAfterCallEnd
<1> QED
  BY <1>2, <1>3

LEMMA EndCallTyped ==
  ASSUME Typed, NEW p \in Peers, EndCall(p), preference' \in BOOLEAN,
         begun' = begun, aborts' \in Numbers
  PROVE  CallTypes' /\ RecordTypes' /\ VideoTypes'
<1>1. RemovedVideoPeer(senders, p) \in Numbers /\ RemovedVideoPeer(receivers, p) \in Numbers
  BY RemovedVideoPeerTyped DEF Typed, VideoTypes
<1>2. RecordTypes' /\ VideoTypes'
  BY <1>1, CleanupTyped DEF EndCall, Typed, VideoTypes
<1>3. calls' \in [Peers -> Entry]
  BY Bounds DEF EndCall, Typed, CallTypes, Entry
<1>4. generation' \in Numbers /\ news' \in [Peers -> Presented]
  BY Bounds DEF EndCall, Typed, CallTypes, Numbers, ToldEnd, Presented
<1>5. CallTypes'
  BY <1>3, <1>4 DEF Typed, CallTypes
<1> QED
  BY <1>2, <1>5

LEMMA AcceptedTyped ==
  ASSUME Typed, NEW p \in Peers, NEW c \in Generation, NEW rest, rest \subseteq Task,
         NEW inLoop \in BOOLEAN, Accepted(p, c, rest, inLoop), preference' \in BOOLEAN
  PROVE  /\ RecordTypes' /\ VideoTypes' /\ running' \in BOOLEAN /\ tasks' \subseteq Task
         /\ calls' \in [Peers -> Entry] /\ news' \in [Peers -> Presented]
<1>1. RecordTypes'
  BY MaybeAutoRecordTyped DEF Accepted, Typed
<1>2. VideoTypes'
  <2>1. CASE audio
    BY <2>1, Bounds, EnsureVideoStreamsTyped DEF Accepted, Typed, Generation
  <2>2. CASE ~audio
    BY <2>2 DEF Accepted, Typed, VideoTypes, videoVars
  <2> QED
    BY <2>1, <2>2
<1>3. tasks' \subseteq Task
  BY TaskOfTyped DEF Accepted
<1>4. [state |-> "active", call |-> c] \in Entry
  BY EntryTyped DEF CallInfo
<1>5. calls' \in [Peers -> Entry] /\ news' \in [Peers -> Presented] /\ running' \in BOOLEAN
  BY <1>4 DEF Accepted, Typed, CallTypes, Presented, FlagTypes
<1> QED
  BY <1>1, <1>2, <1>3, <1>5

LEMMA DialTyped ==
  ASSUME Typed, NEW targets \in SUBSET Peers, Dial(targets)
  PROVE  CallTypes' /\ tasks' \subseteq Task
<1>1. Cardinality(targets) \in Nat
  BY PeersAssumption, FS_Subset, FS_CardinalityType
<1>2. begun' \in 0..MaxCalls
  BY <1>1, Bounds DEF Dial, Typed, CallTypes
<1> DEFINE range == FirstCall..(FirstCall + Cardinality(targets) - 1)
<1>3. range \subseteq Generation
  BY <1>1, Bounds DEF Dial, Typed, CallTypes, Generation, FirstCall
<1>4. PICK number \in [targets -> range] :
        /\ calls' = [p \in Peers |-> IF p \in targets
                       THEN [state |-> "calling", call |-> number[p]] ELSE calls[p]]
        /\ generation' = [p \in Peers |-> IF p \in targets THEN number[p] ELSE generation[p]]
        /\ aborts' = [p \in Peers |-> IF p \in targets THEN number[p] ELSE aborts[p]]
        /\ tasks' = tasks \cup {TaskOf("connect", p, number[p], "running") : p \in targets}
        /\ news' = [p \in Peers |-> IF p \in targets THEN "calling" ELSE news[p]]
  BY DEF Dial, Injection
<1>5. \A p \in targets : p \in Peers /\ number[p] \in Generation /\ number[p] \in 0..MaxCalls
  BY <1>3, <1>4, Bounds DEF Generation
<1>6. tasks' \subseteq Task
  BY <1>4, <1>5, TaskOfTyped DEF Typed, TaskTypes
<1> HIDE DEF range
<1>7. \A p \in targets : [state |-> "calling", call |-> number[p]] \in Entry
  BY <1>5, EntryTyped DEF CallInfo
<1>8. calls' \in [Peers -> Entry]
  BY <1>4, <1>7 DEF Typed, CallTypes
<1>9. CallTypes'
  BY <1>2, <1>4, <1>5, <1>8 DEF Typed, CallTypes, Presented, Numbers
<1> QED
  BY <1>6, <1>9

LEMMA BecomesTyped ==
  ASSUME Typed, NEW p \in Peers, NEW c \in Generation, NEW k, NEW s, NEW stage,
         TaskOf(k, p, c, s) \in tasks, TaskOf(k, p, c, stage) \in Task
  PROVE  Becomes(TaskOf(k, p, c, s), stage) \subseteq Task
<1>1. [TaskOf(k, p, c, s) EXCEPT !.stage = stage] = TaskOf(k, p, c, stage)
  BY DEF TaskOf
<1> QED
  BY <1>1 DEF Becomes, Typed, TaskTypes

LEMMA TailTyped ==
  ASSUME NEW S, NEW q \in Seq(S), q # <<>>
  PROVE  Head(q) \in S /\ Tail(q) \in Seq(S)
OBVIOUS

LEMMA AppendTyped ==
  ASSUME NEW S, NEW q \in Seq(S), NEW e \in S
  PROVE  Append(q, e) \in Seq(S)
OBVIOUS

-----------------------------------------------------------------------------
(***************************************************************************)
(* Every step keeps the types.                                             *)
(***************************************************************************)
LEMMA OnVoiceTrackTyped ==
  ASSUME Typed, OnVoiceTrack
  PROVE  Typed'
<1>1. Head(handed) \in [peer : Peers, call : Generation]
        /\ Tail(handed) \in Seq([peer : Peers, call : Generation])
  BY TailTyped DEF Typed, TaskTypes, OnVoiceTrack
<1>2. TaskTypes'
  BY <1>1 DEF Typed, TaskTypes, OnVoiceTrack
<1>3. speakers' \in Numbers
  BY <1>1, Bounds DEF Typed, RecordTypes, OnVoiceTrack, Numbers, Generation
<1>4. RecordTypes'
  BY <1>3 DEF Typed, RecordTypes, OnVoiceTrack
<1>5. CallTypes' /\ VideoTypes' /\ FlagTypes'
  BY DEF Typed, CallTypes, VideoTypes, FlagTypes, OnVoiceTrack, callVars, videoVars, boundVars
<1> QED
  BY <1>2, <1>4, <1>5 DEF Typed

LEMMA RecordingTyped ==
  ASSUME Typed, NEW enabled \in BOOLEAN,
         SetCallRecording(enabled) \/ SetRecordCallsAutomatically(enabled)
  PROVE  Typed'
<1>1. preference' \in BOOLEAN
  BY DEF SetCallRecording, SetRecordCallsAutomatically, Typed, RecordTypes
<1>2. CASE SetCallRecording(enabled)
  <2>1. RecordTypes'
    <3>1. CASE enabled
      BY <1>1, <1>2, <3>1, StartRecordingTyped DEF SetCallRecording, Typed
    <3>2. CASE ~enabled
      BY <1>1, <1>2, <3>2, Bounds
         DEF SetCallRecording, Typed, RecordTypes, StopRecording, Numbers, Nobody
    <3> QED
      BY <3>1, <3>2
  <2> QED
    BY <1>2, <2>1 DEF SetCallRecording, Typed, CallTypes, TaskTypes, VideoTypes, FlagTypes,
                      callVars, videoVars, boundVars
<1>3. CASE SetRecordCallsAutomatically(enabled)
  <2>1. RecordTypes'
    BY <1>1, <1>3, MaybeAutoRecordTyped, StopAutoRecordingTyped
       DEF SetRecordCallsAutomatically, Typed
  <2> QED
    BY <1>3, <2>1 DEF SetRecordCallsAutomatically, Typed, CallTypes, TaskTypes, VideoTypes,
                      FlagTypes, callVars, videoVars, boundVars
<1> QED
  BY <1>2, <1>3

LEMMA SharingTyped ==
  ASSUME Typed, StartSharing \/ StopSharing \/ (\E p \in Peers : VideoReceiverEnds(p))
  PROVE  Typed'
<1>1. VideoTypes'
  <2>1. CASE StartSharing
    <3>1. \A p \in Peers : calls[p].call \in 0..MaxCalls
      BY EntryFacts DEF Typed, CallTypes
    <3>2. senders' \in Numbers /\ receivers' \in Numbers
      BY <2>1, <3>1 DEF StartSharing, Typed, VideoTypes, Numbers
    <3> QED
      BY <2>1, <3>2 DEF StartSharing, VideoTypes
  <2>2. CASE StopSharing
    BY <2>2, NobodyTyped DEF StopSharing, Typed, VideoTypes
  <2>3. CASE \E p \in Peers : VideoReceiverEnds(p)
    BY <2>3, Bounds DEF VideoReceiverEnds, Typed, VideoTypes, Numbers
  <2> QED
    BY <2>1, <2>2, <2>3
<1>2. CallTypes' /\ TaskTypes' /\ RecordTypes' /\ FlagTypes'
  BY DEF StartSharing, StopSharing, VideoReceiverEnds, Typed, CallTypes, TaskTypes,
         RecordTypes, FlagTypes, callVars, recordVars, boundVars
<1> QED
  BY <1>1, <1>2 DEF Typed

LEMMA DiallingTyped ==
  ASSUME Typed, \/ \E p \in Peers : Call(p)
                \/ \E targets \in SUBSET Peers : EnterGroupCall(targets)
                \/ LeaveGroupCall
  PROVE  Typed'
<1>1. CASE \E p \in Peers : Call(p)
  <2>1. PICK p \in Peers : Call(p)
    BY <1>1
  <2>2. CallTypes' /\ tasks' \subseteq Task
    BY <2>1, DialTyped DEF Call
  <2> QED
    BY <2>1, <2>2 DEF Call, Typed, TaskTypes, RecordTypes, VideoTypes, FlagTypes,
                      recordVars, videoVars, boundVars
<1>2. CASE \E targets \in SUBSET Peers : EnterGroupCall(targets)
  <2>1. PICK targets \in SUBSET Peers : EnterGroupCall(targets)
    BY <1>2
  <2>2. CallTypes' /\ tasks' \subseteq Task
    BY <2>1, DialTyped DEF EnterGroupCall
  <2> QED
    BY <2>1, <2>2 DEF EnterGroupCall, Typed, TaskTypes, RecordTypes, VideoTypes, FlagTypes,
                      recordVars, videoVars, boundVars
<1>3. CASE LeaveGroupCall
  BY <1>3 DEF LeaveGroupCall, Typed, CallTypes, TaskTypes, RecordTypes, VideoTypes, FlagTypes,
              callVars, recordVars, videoVars, boundVars
<1> QED
  BY <1>1, <1>2, <1>3

LEMMA HandleConnectionTyped ==
  ASSUME Typed, NEW p \in Peers, HandleConnection(p)
  PROVE  Typed'
<1> DEFINE c == FirstCall
<1>1. c \in Generation /\ c \in 0..MaxCalls /\ begun' = c
  BY Bounds DEF HandleConnection, FirstCall, Typed, CallTypes, Generation
<1>2. preference' \in BOOLEAN /\ audio' \in BOOLEAN /\ handed' = handed
  BY DEF HandleConnection, Typed, RecordTypes, FlagTypes
<1>3. generation' \in Numbers /\ begun' \in 0..MaxCalls /\ aborts' \in Numbers
  BY <1>1 DEF HandleConnection, Typed, CallTypes, Numbers
<1>4. /\ RecordTypes' /\ VideoTypes' /\ running' \in BOOLEAN /\ tasks' \subseteq Task
      /\ calls' \in [Peers -> Entry] /\ news' \in [Peers -> Presented]
  <2>1. CASE room /\ p \in Mates
    <3>1. Accepted(p, c, tasks, TRUE) /\ tasks \subseteq Task
      BY <2>1 DEF HandleConnection, Typed, TaskTypes
    <3> HIDE DEF c
    <3> QED
      BY <1>1, <1>2, <3>1, AcceptedTyped
  <2>2. CASE ~(room /\ p \in Mates)
    <3>1. calls' = [calls EXCEPT ![p] = [state |-> "incoming", call |-> c]]
            /\ tasks' = tasks \cup {TaskOf("incoming", p, c, "running")}
      BY <2>2 DEF HandleConnection
    <3>2. tasks' \subseteq Task
      BY <1>1, <3>1, TaskOfTyped DEF Typed, TaskTypes
    <3>3. calls' \in [Peers -> Entry]
      BY <1>1, <3>1, EntryTyped DEF Typed, CallTypes, CallInfo
    <3>4. RecordTypes' /\ VideoTypes' /\ running' \in BOOLEAN /\ news' \in [Peers -> Presented]
      BY <2>2 DEF HandleConnection, Typed, CallTypes, RecordTypes, VideoTypes, FlagTypes,
                  recordVars, videoVars, Presented
    <3> QED
      BY <3>2, <3>3, <3>4
  <2> QED
    BY <2>1, <2>2
<1>5. open' \subseteq (Peers \X Generation)
  <2>1. open' \subseteq open \cup {<<p, c>>}
    BY DEF HandleConnection
  <2> QED
    BY <1>1, <2>1 DEF Typed, TaskTypes
<1> HIDE DEF c
<1>6. CallTypes' /\ TaskTypes'
  BY <1>2, <1>3, <1>4, <1>5 DEF CallTypes, TaskTypes, Typed
<1>7. FlagTypes'
  BY <1>2, <1>4 DEF HandleConnection, Typed, FlagTypes, boundVars
<1> QED
  BY <1>4, <1>6, <1>7 DEF Typed

LEMMA AnswerTyped ==
  ASSUME Typed, NEW p \in Peers, Answer(p)
  PROVE  Typed'
<1>1. calls[p].call \in Generation
  BY EntryFacts DEF Answer, Typed, CallTypes
<1>2. /\ RecordTypes' /\ VideoTypes' /\ running' \in BOOLEAN /\ tasks' \subseteq Task
      /\ calls' \in [Peers -> Entry] /\ news' \in [Peers -> Presented]
  BY <1>1, AcceptedTyped DEF Answer, Typed, TaskTypes, RecordTypes
<1>3. CallTypes' /\ TaskTypes' /\ FlagTypes'
  BY <1>2 DEF Answer, Typed, CallTypes, TaskTypes, FlagTypes, boundVars
<1> QED
  BY <1>2, <1>3 DEF Typed

LEMMA HangingUpTyped ==
  ASSUME Typed, NEW p \in Peers, StrayAnswer(p) \/ Reject(p) \/ Abort(p)
  PROVE  Typed'
<1>1. CASE StrayAnswer(p)
  <2>1. CallTypes'
    BY <1>1 DEF StrayAnswer, Typed, CallTypes, Entry
  <2>2. FlagTypes'
    BY <1>1, Bounds DEF StrayAnswer, Typed, FlagTypes
  <2> QED
    BY <1>1, <2>1, <2>2 DEF StrayAnswer, Typed, TaskTypes, RecordTypes, VideoTypes,
                            recordVars, videoVars
<1>2. CASE Reject(p)
  <2>1. CallTypes' /\ RecordTypes' /\ VideoTypes'
    BY <1>2, EndCallTyped DEF Reject, Typed, CallTypes, RecordTypes
  <2> QED
    BY <1>2, <2>1 DEF Reject, Typed, TaskTypes, FlagTypes, boundVars
<1>3. CASE Abort(p)
  <2>1. aborts' \in Numbers
    BY <1>3, Bounds DEF Abort, Typed, CallTypes, Numbers
  <2>2. CallTypes' /\ RecordTypes' /\ VideoTypes'
    BY <1>3, <2>1, EndCallTyped DEF Abort, Typed, RecordTypes
  <2> QED
    BY <1>3, <2>2 DEF Abort, AbortedDial, Typed, TaskTypes, FlagTypes, boundVars
<1> QED
  BY <1>1, <1>2, <1>3

LEMMA ConnectReportTyped ==
  ASSUME Typed, NEW p \in Peers, NEW c \in Generation, ConnectReport(p, c)
  PROVE  Typed'
<1>1. begun' = begun /\ preference' \in BOOLEAN /\ aborts' \in Numbers
  BY Bounds DEF ConnectReport, Typed, CallTypes, RecordTypes, Numbers
<1>2. tasks' \subseteq Task
  BY TaskOfTyped DEF ConnectReport, Typed, TaskTypes
<1>3. FlagTypes' /\ handed' = handed
  BY DEF ConnectReport, Typed, FlagTypes, boundVars
<1>4. \/ ConnectedLate(p, c)
      \/ QuicConnected(p, c)
      \/ ConnectFailed(p, c)
  BY DEF ConnectReport
<1>5. open' \subseteq open
  BY <1>4 DEF ConnectedLate, QuicConnected, ConnectFailed, ClosedLate
<1>6. CallTypes' /\ RecordTypes' /\ VideoTypes'
  <2>1. CASE ConnectedLate(p, c)
    BY <1>1, <2>1 DEF ConnectedLate, Typed, CallTypes, RecordTypes, VideoTypes,
                      recordVars, videoVars
  <2>2. CASE QuicConnected(p, c)
    <3>1. calls' \in [Peers -> Entry]
      BY <2>2, EntryTyped DEF QuicConnected, Typed, CallTypes, CallInfo
    <3> QED
      BY <1>1, <2>2, <3>1 DEF QuicConnected, Typed, CallTypes, RecordTypes, VideoTypes,
                              recordVars, videoVars
  <2>3. CASE ConnectFailed(p, c)
    <3>1. RecordTypes' /\ VideoTypes'
      BY <1>1, <2>3, CleanupTyped DEF ConnectFailed, Typed, VideoTypes
    <3>2. calls' \in [Peers -> Entry]
      BY <2>3 DEF ConnectFailed, Typed, CallTypes, Entry
    <3>3. generation' \in Numbers /\ news' \in [Peers -> Presented]
      BY <2>3, Bounds DEF ConnectFailed, Typed, CallTypes, Numbers, Presented
    <3> QED
      BY <1>1, <3>1, <3>2, <3>3 DEF Typed, CallTypes
  <2> QED
    BY <1>4, <2>1, <2>2, <2>3
<1> QED
  BY <1>2, <1>3, <1>5, <1>6 DEF Typed, TaskTypes

LEMMA TrackReportTyped ==
  ASSUME Typed, NEW p \in Peers, NEW c \in Generation, TrackReport(p, c)
  PROVE  Typed'
<1>1. begun' = begun /\ aborts' = aborts /\ preference' \in BOOLEAN /\ handed' = handed
        /\ room' = room /\ audio' = audio /\ errors' = errors /\ strays' = strays
        /\ aborts \in Numbers
  BY DEF TrackReport, Typed, RecordTypes, CallTypes, boundVars
<1>2. PICK s \in {"ok", "failed"} :
        \/ /\ tasks' = tasks \ {TaskOf("track", p, c, s)}
           /\ calls' = calls \/ calls' = [calls EXCEPT ![p] = NoCall]
           /\ UNCHANGED <<generation, open, recordVars, videoVars, news, running>>
        \/ /\ Accepted(p, c, tasks \ {TaskOf("track", p, c, s)}, TRUE)
           /\ open' = IF running' THEN open ELSE {}
           /\ UNCHANGED generation
        \/ /\ open' = open \ {<<p, c>>}
           /\ EndCall(p)
           /\ tasks' = tasks \ {TaskOf("track", p, c, s)}
           /\ UNCHANGED running
  BY DEF TrackReport
<1>3. /\ RecordTypes' /\ VideoTypes' /\ running' \in BOOLEAN /\ tasks' \subseteq Task
      /\ open' \subseteq open /\ CallTypes'
  <2>1. CASE /\ tasks' = tasks \ {TaskOf("track", p, c, s)}
             /\ calls' = calls \/ calls' = [calls EXCEPT ![p] = NoCall]
             /\ UNCHANGED <<generation, open, recordVars, videoVars, news, running>>
    <3>1. calls' \in [Peers -> Entry]
      BY <2>1 DEF Typed, CallTypes, Entry
    <3> QED
      BY <1>1, <2>1, <3>1 DEF Typed, CallTypes, TaskTypes, RecordTypes, VideoTypes, FlagTypes,
                              recordVars, videoVars
  <2>2. CASE /\ Accepted(p, c, tasks \ {TaskOf("track", p, c, s)}, TRUE)
             /\ open' = IF running' THEN open ELSE {}
             /\ UNCHANGED generation
    <3>1. tasks \ {TaskOf("track", p, c, s)} \subseteq Task
      BY DEF Typed, TaskTypes
    <3>2. /\ RecordTypes' /\ VideoTypes' /\ running' \in BOOLEAN /\ tasks' \subseteq Task
          /\ calls' \in [Peers -> Entry] /\ news' \in [Peers -> Presented]
      BY <1>1, <2>2, <3>1, AcceptedTyped
    <3> QED
      BY <1>1, <2>2, <3>2 DEF Typed, CallTypes
  <2>3. CASE /\ open' = open \ {<<p, c>>}
             /\ EndCall(p)
             /\ tasks' = tasks \ {TaskOf("track", p, c, s)}
             /\ UNCHANGED running
    <3>1. CallTypes' /\ RecordTypes' /\ VideoTypes'
      BY <1>1, <2>3, EndCallTyped
    <3> QED
      BY <2>3, <3>1 DEF Typed, TaskTypes, FlagTypes
  <2> QED
    BY <1>2, <2>1, <2>2, <2>3
<1> QED
  BY <1>1, <1>3 DEF Typed, TaskTypes, FlagTypes

LEMMA EndReportsTyped ==
  ASSUME Typed, NEW p \in Peers, NEW c \in Generation,
         IncomingReport(p, c) \/ CallReport(p, c)
  PROVE  Typed'
<1>1. CASE IncomingReport(p, c)
  <2>1. calls' \in [Peers -> Entry]
    BY <1>1 DEF IncomingReport, Typed, CallTypes, Entry
  <2>2. generation' \in Numbers /\ news' \in [Peers -> Presented]
    BY <1>1, Bounds DEF IncomingReport, Typed, CallTypes, Numbers, Presented
  <2>3. CallTypes'
    BY <1>1, <2>1, <2>2 DEF IncomingReport, Typed, CallTypes
  <2> QED
    BY <1>1, <2>3 DEF IncomingReport, Typed, TaskTypes, RecordTypes, VideoTypes, FlagTypes,
                      recordVars, videoVars, boundVars
<1>2. CASE CallReport(p, c)
  <2>1. CallTypes' /\ RecordTypes' /\ VideoTypes'
    <3>1. CASE IsCurrent(p, c)
      BY <1>2, <3>1, EndCallTyped DEF CallReport, Typed, CallTypes, RecordTypes
    <3>2. CASE ~IsCurrent(p, c)
      BY <1>2, <3>2 DEF CallReport, Typed, CallTypes, RecordTypes, VideoTypes,
                        recordVars, videoVars
    <3> QED
      BY <3>1, <3>2
  <2> QED
    BY <1>2, <2>1 DEF CallReport, Typed, TaskTypes, FlagTypes, boundVars
<1> QED
  BY <1>1, <1>2

LEMMA EnvironmentTyped ==
  ASSUME Typed, NEW p \in Peers, NEW c \in Generation, Environment(p, c)
  PROVE  Typed'
<1>1. tasks' \subseteq Task
  <2>1. CASE ConnectEnds(p, c)
    BY <2>1, BecomesTyped, TaskOfTyped DEF ConnectEnds
  <2>2. CASE TrackEnds(p, c)
    BY <2>2, BecomesTyped, TaskOfTyped DEF TrackEnds
  <2>3. CASE IncomingEnds(p, c)
    BY <2>3, BecomesTyped, TaskOfTyped DEF IncomingEnds
  <2>4. CASE HandsBackTrack(p, c)
    BY <2>4, BecomesTyped, TaskOfTyped DEF HandsBackTrack
  <2>5. CASE CallEnds(p, c)
    <3>1. PICK s \in {"starting", "talking"} :
            /\ TaskOf("call", p, c, s) \in tasks
            /\ tasks' = Becomes(TaskOf("call", p, c, s), "ended")
      BY <2>5 DEF CallEnds
    <3> QED
      BY <3>1, BecomesTyped, TaskOfTyped
  <2>6. CASE ConnectionCloses(p, c)
    BY <2>6 DEF ConnectionCloses, Typed, TaskTypes
  <2> QED
    BY <2>1, <2>2, <2>3, <2>4, <2>5, <2>6 DEF Environment
<1>2. open' \subseteq open \cup {<<p, c>>}
  BY DEF Environment, ConnectEnds, TrackEnds, IncomingEnds, HandsBackTrack, CallEnds,
         ConnectionCloses
<1>3. handed' \in Seq([peer : Peers, call : Generation])
  <2>1. handed' = handed \/ handed' = Append(handed, [peer |-> p, call |-> c])
    BY DEF Environment, ConnectEnds, TrackEnds, IncomingEnds, HandsBackTrack, CallEnds,
           ConnectionCloses
  <2> QED
    BY <2>1, AppendTyped DEF Typed, TaskTypes
<1>4. CallTypes' /\ RecordTypes' /\ VideoTypes'
  BY DEF Environment, ConnectEnds, TrackEnds, IncomingEnds, HandsBackTrack, CallEnds,
         ConnectionCloses, Typed, CallTypes, RecordTypes, VideoTypes,
         callVars, recordVars, videoVars
<1>5. FlagTypes'
  BY Bounds DEF Environment, ConnectEnds, TrackEnds, IncomingEnds, HandsBackTrack, CallEnds,
         ConnectionCloses, Typed, FlagTypes, boundVars
<1> QED
  BY <1>1, <1>2, <1>3, <1>4, <1>5 DEF Typed, TaskTypes

LEMMA InitTyped == Init => Typed
<1> SUFFICES ASSUME Init PROVE Typed
  OBVIOUS
<1>1. CallTypes
  <2>1. calls \in [Peers -> Entry]
    BY DEF Init, Entry
  <2>2. generation \in Numbers /\ aborts \in Numbers
    BY NobodyTyped DEF Init
  <2>3. begun \in 0..MaxCalls
    BY Bounds DEF Init
  <2>4. news \in [Peers -> Presented]
    BY DEF Init, Presented
  <2> QED
    BY <2>1, <2>2, <2>3, <2>4 DEF CallTypes
<1>2. RecordTypes /\ VideoTypes
  <2>1. takes \in 0..MaxTakes
    BY Bounds DEF Init
  <2>2. speakers \in Numbers /\ senders \in Numbers /\ receivers \in Numbers
    BY NobodyTyped DEF Init
  <2>3. recording = "off" /\ sharing \in BOOLEAN /\ preference \in BOOLEAN
    BY Zenon DEF Init
  <2> QED
    BY <2>1, <2>2, <2>3 DEF RecordTypes, VideoTypes
<1>3. TaskTypes
  BY DEF Init, TaskTypes
<1>4. FlagTypes
  <2>1. errors \in 0..MaxErrors /\ strays \in 0..MaxStrays
    BY Bounds DEF Init
  <2>2. room \in BOOLEAN /\ audio \in BOOLEAN /\ running \in BOOLEAN
    BY Zenon DEF Init
  <2> QED
    BY <2>1, <2>2 DEF FlagTypes
<1> QED
  BY <1>1, <1>2, <1>3, <1>4 DEF Typed

LEMMA StepTyped == Typed /\ [Next]_vars => Typed'
<1> SUFFICES ASSUME Typed, [Next]_vars PROVE Typed'
  OBVIOUS
<1>1. CASE UNCHANGED vars
  BY <1>1 DEF vars, callVars, recordVars, videoVars, boundVars, Typed, CallTypes, TaskTypes,
              RecordTypes, VideoTypes, FlagTypes
<1>2. ASSUME NEW p \in Peers, Commands(p) \/ HandleConnection(p)
      PROVE  Typed'
  BY <1>2, DiallingTyped, AnswerTyped, HangingUpTyped, HandleConnectionTyped DEF Commands
<1>3. ASSUME NEW p \in Peers, NEW c \in Generation, Reports(p, c) \/ Environment(p, c)
      PROVE  Typed'
  BY <1>3, ConnectReportTyped, TrackReportTyped, EndReportsTyped, EnvironmentTyped DEF Reports
<1>4. ASSUME NEW enabled \in BOOLEAN,
             SetCallRecording(enabled) \/ SetRecordCallsAutomatically(enabled)
      PROVE  Typed'
  BY <1>4, RecordingTyped
<1> QED
  BY <1>1, <1>2, <1>3, <1>4, OnVoiceTrackTyped, SharingTyped, DiallingTyped DEF Next

(***************************************************************************)
(* Every reachable state of the worker is well typed; among the rest, that *)
(* an entry always has a number and a task reports of a call that began.   *)
(***************************************************************************)
THEOREM TypeCorrect == Spec => []TypeOK
<1>1. Spec => []Typed
  BY InitTyped, StepTyped, PTL DEF Spec
<1> QED
  BY <1>1, TypedIsTypeOK, PTL

-----------------------------------------------------------------------------
(***************************************************************************)
(* Every call is watched.  The tasks are compared by their kind, peer and  *)
(* call, because a step changes the stage of one, adds one or takes one.   *)
(***************************************************************************)
Runs(ts, k, p, c) == \E t \in ts : t.kind = k /\ t.peer = p /\ t.call = c

Watcher == [calling |-> "connect", connecting |-> "track", incoming |-> "incoming",
            active |-> "call"]

Attended(p) ==
  calls[p].state # "none" =>
    /\ generation[p] = calls[p].call
    /\ \/ calls[p].state = "active" /\ ~audio
       \/ Runs(tasks, Watcher[calls[p].state], p, calls[p].call)

AllAttended == running => \A p \in Peers : Attended(p)

LEMMA TaskFields ==
  ASSUME NEW t \in Task
  PROVE  /\ t = TaskOf(t.kind, t.peer, t.call, t.stage)
         /\ t.kind \in {"connect", "track"} => t.stage \in {"running", "ok", "failed"}
         /\ t.kind = "incoming" => t.stage \in {"running", "ended"}
         /\ t.kind = "call" => t.stage \in {"starting", "talking", "ended"}
BY DEF Task, TaskOf

LEMMA AttendedIsWatched == Typed /\ AllAttended => EveryCallIsWatched
<1> SUFFICES ASSUME Typed, AllAttended, running,
                    NEW p \in Peers, calls[p] # NoCall
             PROVE  generation[p] = calls[p].call /\ WatchedBy(p)
  BY DEF EveryCallIsWatched
<1> DEFINE e == calls[p]
<1>1. e.state \in CallInfo
  BY EntryFacts DEF Typed, CallTypes, Entry
<1>2. Attended(p) /\ e.state # "none"
  BY <1>1 DEF AllAttended, CallInfo
<1>3. CASE e.state = "active" /\ ~audio
  BY <1>2, <1>3 DEF Attended, WatchedBy
<1>4. CASE Runs(tasks, Watcher[e.state], p, e.call)
  <2>1. PICK t \in tasks : t.kind = Watcher[e.state] /\ t.peer = p /\ t.call = e.call
    BY <1>4 DEF Runs
  <2>2. t \in Task
    BY <2>1 DEF Typed, TaskTypes
  <2>3. t = TaskOf(Watcher[e.state], p, e.call, t.stage)
    BY <2>1, <2>2, TaskFields
  <2>4. CASE e.state = "calling"
    BY <1>2, <2>1, <2>2, <2>3, <2>4, TaskFields DEF Attended, WatchedBy, Watcher
  <2>5. CASE e.state = "connecting"
    BY <1>2, <2>1, <2>2, <2>3, <2>5, TaskFields DEF Attended, WatchedBy, Watcher
  <2>6. CASE e.state = "incoming"
    BY <1>2, <2>1, <2>2, <2>3, <2>6, TaskFields DEF Attended, WatchedBy, Watcher
  <2>7. CASE e.state = "active"
    BY <1>2, <2>1, <2>2, <2>3, <2>7, TaskFields DEF Attended, WatchedBy, Watcher
  <2> QED
    BY <1>1, <2>4, <2>5, <2>6, <2>7 DEF CallInfo
<1> QED
  BY <1>2, <1>3, <1>4 DEF Attended

(* A step at one peer leaves the calls of the others alone. *)
LEMMA OthersAttended ==
  ASSUME AllAttended, running' => running, audio' = audio, NEW p \in Peers,
         \A q \in Peers \ {p} : calls'[q] = calls[q] /\ generation'[q] = generation[q],
         running' => \A t \in tasks : t.peer # p => t \in tasks',
         running' => Attended(p)'
  PROVE  AllAttended'
<1> SUFFICES ASSUME running', NEW q \in Peers \ {p} PROVE Attended(q)'
  BY DEF AllAttended
<1>1. Attended(q)
  BY DEF AllAttended
<1>2. \A k, c : Runs(tasks, k, q, c) => Runs(tasks, k, q, c)'
  BY DEF Runs
<1> QED
  BY <1>1, <1>2 DEF Attended

LEMMA TaskOfFields ==
  ASSUME NEW k, NEW p, NEW c, NEW s
  PROVE  /\ TaskOf(k, p, c, s).kind = k
         /\ TaskOf(k, p, c, s).peer = p
         /\ TaskOf(k, p, c, s).call = c
BY DEF TaskOf

LEMMA EndCallAttended ==
  ASSUME Typed, NEW p \in Peers, EndCall(p)
  PROVE  /\ Attended(p)'
         /\ \A q \in Peers \ {p} : calls'[q] = calls[q] /\ generation'[q] = generation[q]
BY DEF EndCall, Typed, CallTypes, Numbers, Attended, NoCall

LEMMA AcceptedAttended ==
  ASSUME Typed, NEW p \in Peers, NEW c \in Generation, NEW rest, NEW inLoop \in BOOLEAN,
         Accepted(p, c, rest, inLoop), audio' = audio, generation' \in Numbers,
         generation'[p] = c
  PROVE  /\ running' => Attended(p)'
         /\ \A q \in Peers \ {p} : calls'[q] = calls[q]
         /\ running' => rest \subseteq tasks'
<1>1. /\ calls'[p] = [state |-> "active", call |-> c]
      /\ \A q \in Peers \ {p} : calls'[q] = calls[q]
  BY DEF Accepted, Typed, CallTypes
<1>2. running' => rest \subseteq tasks'
  BY DEF Accepted
<1>3. audio => Runs(tasks, "call", p, c)'
  BY TaskOfFields DEF Accepted, Runs
<1> QED
  BY <1>1, <1>2, <1>3 DEF Attended, Watcher

LEMMA DialAttended ==
  ASSUME Typed, AllAttended, NEW targets \in SUBSET Peers, Dial(targets),
         running' = running, audio' = audio
  PROVE  AllAttended'
<1>1. PICK number :
        /\ calls' = [p \in Peers |-> IF p \in targets
                       THEN [state |-> "calling", call |-> number[p]] ELSE calls[p]]
        /\ generation' = [p \in Peers |-> IF p \in targets THEN number[p] ELSE generation[p]]
        /\ tasks' = tasks \cup {TaskOf("connect", p, number[p], "running") : p \in targets}
  BY DEF Dial
<1> SUFFICES ASSUME running', NEW p \in Peers PROVE Attended(p)'
  BY DEF AllAttended
<1>2. CASE p \in targets
  <2>1. Runs(tasks, "connect", p, number[p])'
    BY <1>1, <1>2, TaskOfFields DEF Runs
  <2> QED
    BY <1>1, <1>2, <2>1 DEF Attended, Watcher
<1>3. CASE p \notin targets
  <2>1. \A k, c : Runs(tasks, k, p, c) => Runs(tasks, k, p, c)'
    BY <1>1 DEF Runs
  <2> QED
    BY <1>1, <1>3, <2>1 DEF Attended, AllAttended
<1> QED
  BY <1>2, <1>3

LEMMA CommandsAttended ==
  ASSUME Typed, AllAttended, NEW p \in Peers, Commands(p)
  PROVE  AllAttended'
<1>1. CASE Call(p)
  BY <1>1, DialAttended DEF Call
<1>2. CASE Answer(p)
  <2>1. calls[p].call \in Generation /\ generation[p] = calls[p].call
    BY <1>2, EntryFacts DEF Answer, Typed, CallTypes, AllAttended, Attended
  <2>2. generation' = generation /\ generation' \in Numbers /\ audio' = audio /\ running
    BY <1>2 DEF Answer, Typed, CallTypes
  <2>3. Accepted(p, calls[p].call, tasks, FALSE)
    BY <1>2 DEF Answer
  <2> QED
    BY <2>1, <2>2, <2>3, AcceptedAttended, OthersAttended
<1>3. CASE StrayAnswer(p)
  <2>1. Attended(p)'
    BY <1>3 DEF StrayAnswer, Typed, CallTypes, NoCall, Attended
  <2> QED
    BY <1>3, <2>1, OthersAttended DEF StrayAnswer, Typed, CallTypes
<1>4. CASE Reject(p)
  BY <1>4, EndCallAttended, OthersAttended DEF Reject
<1>5. CASE Abort(p)
  <2>1. \A t \in tasks : t.peer # p => t \in tasks'
    BY <1>5, TaskOfFields DEF Abort, AbortedDial
  <2> QED
    BY <1>5, <2>1, EndCallAttended, OthersAttended DEF Abort
<1> QED
  BY <1>1, <1>2, <1>3, <1>4, <1>5 DEF Commands

LEMMA HandleConnectionAttended ==
  ASSUME Typed, AllAttended, NEW p \in Peers, HandleConnection(p)
  PROVE  AllAttended'
<1> DEFINE c == FirstCall
<1>1. c \in Generation
  BY Bounds DEF HandleConnection, FirstCall, Typed, CallTypes, Generation
<1>2. /\ generation' \in Numbers /\ generation'[p] = c /\ audio' = audio /\ running
      /\ \A q \in Peers \ {p} : generation'[q] = generation[q]
  BY <1>1, Bounds DEF HandleConnection, Typed, CallTypes, Numbers, Generation
<1>3. CASE room /\ p \in Mates
  <2>1. Accepted(p, c, tasks, TRUE)
    BY <1>3 DEF HandleConnection
  <2> HIDE DEF c
  <2> QED
    BY <1>1, <1>2, <2>1, AcceptedAttended, OthersAttended
<1>4. CASE ~(room /\ p \in Mates)
  <2>1. /\ calls' = [calls EXCEPT ![p] = [state |-> "incoming", call |-> c]]
        /\ tasks' = tasks \cup {TaskOf("incoming", p, c, "running")}
        /\ running' = running
    BY <1>4 DEF HandleConnection
  <2> HIDE DEF c
  <2>2. Runs(tasks', "incoming", p, c)
    BY <2>1, TaskOfFields DEF Runs
  <2>3. /\ calls'[p] = [state |-> "incoming", call |-> c]
        /\ \A q \in Peers \ {p} : calls'[q] = calls[q]
    BY <2>1 DEF Typed, CallTypes
  <2>4. Attended(p)'
    BY <1>2, <2>2, <2>3 DEF Attended, Watcher
  <2> QED
    BY <1>2, <2>1, <2>3, <2>4, OthersAttended
<1> QED
  BY <1>3, <1>4

(* A report that is not taken as news removes its own task only, and no call
   is watched by it. *)
LEMMA ReportsAttended ==
  ASSUME Typed, AllAttended, NEW p \in Peers, NEW c \in Generation, Reports(p, c)
  PROVE  AllAttended'
<1>1. running /\ audio' = audio /\ Attended(p)
  BY DEF Reports, ConnectReport, TrackReport, IncomingReport, CallReport, AllAttended
<1> DEFINE Spared(k) == \A t \in tasks : ~(t.kind = k /\ t.peer = p /\ t.call = c) => t \in tasks'
           OthersStay == \A q \in Peers \ {p} : calls'[q] = calls[q] /\ generation'[q] = generation[q]
<1>2. ASSUME NEW k, Spared(k), running' = running, OthersStay, Attended(p)'
      PROVE  AllAttended'
  BY <1>1, <1>2, OthersAttended
<1>3. ASSUME NEW k, Spared(k), running' = running, calls' = calls, generation' = generation,
             ~(calls[p].call = c /\ generation[p] = c /\ Watcher[calls[p].state] = k)
      PROVE  AllAttended'
  <2>1. Attended(p)'
    BY <1>1, <1>3 DEF Attended, Runs
  <2> QED
    BY <1>2, <1>3, <2>1
<1>4. ASSUME NEW k, Spared(k), running' = running, calls' = [calls EXCEPT ![p] = NoCall],
             OthersStay
      PROVE  AllAttended'
  <2>1. Attended(p)'
    BY <1>4 DEF Attended, NoCall, Typed, CallTypes
  <2> QED
    BY <1>2, <1>4, <2>1
<1>5. ASSUME EndCall(p), NEW k, Spared(k), running' = running
      PROVE  AllAttended'
  BY <1>2, <1>5, EndCallAttended
<1>6. CASE ConnectReport(p, c)
  <2>1. Spared("connect") /\ running' = running
    BY <1>6, TaskOfFields DEF ConnectReport
  <2>2. CASE ConnectedLate(p, c)
    <3>1. ~(calls[p].call = c /\ generation[p] = c /\ Watcher[calls[p].state] = "connect")
      BY <2>2, EntryFacts
         DEF ConnectedLate, Dialling, IsCurrent, Watcher, Typed, CallTypes, Entry, CallInfo, NoCall, Generation
    <3> QED
      BY <1>3, <2>1, <2>2, <3>1 DEF ConnectedLate
  <2>3. CASE QuicConnected(p, c) /\ TaskOf("track", p, c, "running") \in tasks'
    <3>1. Runs(tasks', "track", p, c)
      BY <2>3, TaskOfFields DEF Runs
    <3>2. calls'[p] = [state |-> "connecting", call |-> c] /\ OthersStay /\ generation'[p] = c
      BY <2>3 DEF QuicConnected, Dialling, IsCurrent, Typed, CallTypes
    <3>3. Attended(p)'
      BY <3>1, <3>2 DEF Attended, Watcher
    <3> QED
      BY <1>2, <2>1, <3>2, <3>3
  <2>4. CASE ConnectFailed(p, c)
    BY <1>4, <2>1, <2>4 DEF ConnectFailed, Typed, CallTypes, Numbers
  <2> QED
    BY <1>6, <2>2, <2>3, <2>4 DEF ConnectReport
<1>7. CASE TrackReport(p, c)
  <2>1. CASE Spared("track") /\ ~IsCurrent(p, c)
             /\ UNCHANGED <<calls, generation, running>>
    BY <1>3, <2>1 DEF IsCurrent
  <2>2. CASE Spared("track") /\ calls' = [calls EXCEPT ![p] = NoCall]
             /\ UNCHANGED <<generation, running>>
    BY <1>4, <2>2 DEF Typed, CallTypes
  <2>3. CASE Spared("track") /\ EndCall(p) /\ UNCHANGED running
    BY <1>5, <2>3
  <2>4. CASE \E s : /\ IsCurrent(p, c)
                    /\ Accepted(p, c, tasks \ {TaskOf("track", p, c, s)}, TRUE)
                    /\ UNCHANGED generation
    <3>1. PICK s : Accepted(p, c, tasks \ {TaskOf("track", p, c, s)}, TRUE)
      BY <2>4
    <3>2. generation' \in Numbers /\ generation'[p] = c
            /\ \A q \in Peers \ {p} : generation'[q] = generation[q]
      BY <2>4 DEF IsCurrent, Typed, CallTypes
    <3>3. /\ running' => Attended(p)'
          /\ \A q \in Peers \ {p} : calls'[q] = calls[q]
          /\ running' => tasks \ {TaskOf("track", p, c, s)} \subseteq tasks'
      BY <1>1, <3>1, <3>2, AcceptedAttended
    <3> QED
      BY <1>1, <3>2, <3>3, OthersAttended, TaskOfFields
  <2>5. \A s : tasks' = tasks \ {TaskOf("track", p, c, s)} => Spared("track")
    BY TaskOfFields
  <2>6. \E s \in {"ok", "failed"} :
          \/ /\ tasks' = tasks \ {TaskOf("track", p, c, s)}
             /\ \/ ~IsCurrent(p, c) /\ UNCHANGED <<calls, generation, running>>
                \/ calls' = [calls EXCEPT ![p] = NoCall] /\ UNCHANGED <<generation, running>>
                \/ EndCall(p) /\ UNCHANGED running
          \/ /\ IsCurrent(p, c)
             /\ Accepted(p, c, tasks \ {TaskOf("track", p, c, s)}, TRUE)
             /\ UNCHANGED generation
    BY <1>7 DEF TrackReport
  <2> HIDE DEF Spared
  <2> QED
    BY <2>1, <2>2, <2>3, <2>4, <2>5, <2>6
<1>8. CASE IncomingReport(p, c)
  <2>1. Spared("incoming") /\ running' = running
    BY <1>8, TaskOfFields DEF IncomingReport
  <2>2. CASE GivesUp(p, c)
    BY <1>4, <1>8, <2>1, <2>2 DEF IncomingReport, Typed, CallTypes, Numbers
  <2>3. CASE ~GivesUp(p, c)
    <3>1. ~(calls[p].call = c /\ generation[p] = c /\ Watcher[calls[p].state] = "incoming")
      BY <2>3, EntryFacts
         DEF GivesUp, IsCurrent, Watcher, Typed, CallTypes, Entry, CallInfo, NoCall, Generation
    <3> QED
      BY <1>3, <1>8, <2>1, <2>3, <3>1 DEF IncomingReport
  <2> QED
    BY <2>2, <2>3
<1>9. CASE CallReport(p, c)
  <2>1. Spared("call") /\ running' = running
    BY <1>9, TaskOfFields DEF CallReport
  <2>2. CASE IsCurrent(p, c)
    BY <1>5, <1>9, <2>1, <2>2 DEF CallReport
  <2>3. CASE ~IsCurrent(p, c)
    BY <1>3, <1>9, <2>1, <2>3 DEF CallReport, IsCurrent
  <2> QED
    BY <2>2, <2>3
<1> QED
  BY <1>6, <1>7, <1>8, <1>9 DEF Reports

LEMMA BecomesKeeps ==
  ASSUME NEW t, NEW stage, tasks' = Becomes(t, stage),
         t \in Task, NEW k, NEW p, NEW c, Runs(tasks, k, p, c)
  PROVE  Runs(tasks, k, p, c)'
<1> DEFINE u == [t EXCEPT !.stage = stage]
<1>1. u.kind = t.kind /\ u.peer = t.peer /\ u.call = t.call
  BY DEF Task
<1>2. u \in tasks' /\ \A v \in tasks : v = t \/ v \in tasks'
  BY DEF Becomes
<1> QED
  BY <1>1, <1>2 DEF Runs

LEMMA EnvironmentAttended ==
  ASSUME Typed, AllAttended, NEW p \in Peers, NEW c \in Generation, Environment(p, c)
  PROVE  AllAttended'
<1>1. UNCHANGED <<calls, generation, audio, running>>
  BY DEF Environment, ConnectEnds, TrackEnds, IncomingEnds, HandsBackTrack, CallEnds,
         ConnectionCloses, callVars
<1>2. tasks' = tasks \/ \E t \in tasks : \E stage : tasks' = Becomes(t, stage)
  BY DEF Environment, ConnectEnds, TrackEnds, IncomingEnds, HandsBackTrack, CallEnds,
         ConnectionCloses
<1>3. \A k, q, d : Runs(tasks, k, q, d) => Runs(tasks, k, q, d)'
  BY <1>2, BecomesKeeps DEF Typed, TaskTypes
<1> QED
  BY <1>1, <1>3 DEF AllAttended, Attended

LEMMA StepAttended == Typed /\ AllAttended /\ [Next]_vars => AllAttended'
<1> SUFFICES ASSUME Typed, AllAttended, [Next]_vars PROVE AllAttended'
  OBVIOUS
<1>1. CASE UNCHANGED <<calls, generation, audio, running, tasks>>
  BY <1>1 DEF AllAttended, Attended, Runs
<1>2. CASE \E targets \in SUBSET Peers : EnterGroupCall(targets)
  <2>1. PICK targets \in SUBSET Peers : EnterGroupCall(targets)
    BY <1>2
  <2> QED
    BY <2>1, DialAttended DEF EnterGroupCall
<1>3. ASSUME NEW p \in Peers, Commands(p) \/ HandleConnection(p) PROVE AllAttended'
  BY <1>3, CommandsAttended, HandleConnectionAttended
<1>4. ASSUME NEW p \in Peers, NEW c \in Generation, Reports(p, c) \/ Environment(p, c)
      PROVE  AllAttended'
  BY <1>4, ReportsAttended, EnvironmentAttended
<1>5. ASSUME \/ UNCHANGED vars
             \/ LeaveGroupCall
             \/ OnVoiceTrack
             \/ \E enabled \in BOOLEAN :
                  SetCallRecording(enabled) \/ SetRecordCallsAutomatically(enabled)
             \/ StartSharing
             \/ StopSharing
             \/ \E p \in Peers : VideoReceiverEnds(p)
      PROVE  UNCHANGED <<calls, generation, audio, running, tasks>>
  BY <1>5 DEF vars, callVars, LeaveGroupCall, OnVoiceTrack, SetCallRecording,
              SetRecordCallsAutomatically, StartSharing, StopSharing, VideoReceiverEnds
<1> QED
  BY <1>1, <1>2, <1>3, <1>4, <1>5 DEF Next

(***************************************************************************)
(* Every call the worker holds is watched by a task of that very call:     *)
(* whichever way call, report and hanging up follow one another, the       *)
(* handlers of worker.rs keep entry, number and task together.             *)
(***************************************************************************)
THEOREM CallsAreWatched == Spec => []EveryCallIsWatched
<1>1. Init => Typed /\ AllAttended
  BY InitTyped DEF Init, AllAttended, Attended, NoCall
<1>2. Typed /\ AllAttended /\ [Next]_vars => (Typed /\ AllAttended)'
  BY StepTyped, StepAttended
<1>3. Spec => [](Typed /\ AllAttended)
  BY <1>1, <1>2, PTL DEF Spec
<1> QED
  BY <1>3, AttendedIsWatched, PTL

-----------------------------------------------------------------------------
(***************************************************************************)
(* The recording.  A recorder decodes a call of the peer that is not newer *)
(* than the current one, and call numbers only grow.                       *)
(***************************************************************************)
Ordered(p) ==
  /\ generation[p] <= begun
  /\ speakers[p] <= begun
  /\ generation[p] # 0 => speakers[p] <= generation[p]

RecordersInOrder == \A p \in Peers : Ordered(p)

(* What a step does to the numbers: a peer's number stays, goes or is new. *)
NumbersGrow ==
  /\ begun <= begun'
  /\ \A p \in Peers : \/ generation'[p] \in {generation[p], 0}
                      \/ begun < generation'[p] /\ generation'[p] <= begun'

RecordersStay == \A p \in Peers : speakers'[p] \in {speakers[p], 0}

LEMMA OrderedKept ==
  ASSUME Typed, Typed', RecordersInOrder, NumbersGrow, RecordersStay
  PROVE  /\ RecordersInOrder'
         /\ \A p \in Peers : speakers'[p] # 0 => speakers'[p] >= speakers[p]
<1> SUFFICES ASSUME NEW p \in Peers
             PROVE  Ordered(p)' /\ (speakers'[p] # 0 => speakers'[p] >= speakers[p])
  BY DEF RecordersInOrder
<1>1. /\ begun \in Nat /\ speakers[p] \in Nat /\ generation[p] \in Nat
      /\ begun' \in Nat /\ speakers'[p] \in Nat /\ generation'[p] \in Nat
  BY Bounds DEF Typed, CallTypes, RecordTypes, Numbers
<1>2. Ordered(p)
  BY DEF RecordersInOrder
<1> QED
  BY <1>1, <1>2 DEF Ordered, NumbersGrow, RecordersStay

LEMMA OnVoiceTrackOrdered ==
  ASSUME Typed, RecordersInOrder, OnVoiceTrack
  PROVE  /\ RecordersInOrder'
         /\ \A p \in Peers : speakers'[p] # 0 => speakers'[p] >= speakers[p]
<1> DEFINE q == Head(handed).peer
           c == Head(handed).call
<1>1. q \in Peers /\ c \in Generation
  <2>1. Head(handed) \in [peer : Peers, call : Generation]
    BY TailTyped DEF Typed, TaskTypes, OnVoiceTrack
  <2> QED
    BY <2>1
<1>2. speakers' = IF IsCurrent(q, c) /\ recording # "off"
                  THEN [speakers EXCEPT ![q] = c] ELSE speakers
  BY DEF OnVoiceTrack
<1>3. begun' = begun /\ generation' = generation
  BY DEF OnVoiceTrack, callVars
<1> HIDE DEF q, c
<1> SUFFICES ASSUME NEW p \in Peers
             PROVE  Ordered(p)' /\ (speakers'[p] # 0 => speakers'[p] >= speakers[p])
  BY DEF RecordersInOrder
<1>4. begun \in Nat /\ speakers[p] \in Nat /\ generation[p] \in Nat /\ Ordered(p)
  BY Bounds DEF Typed, CallTypes, RecordTypes, Numbers, RecordersInOrder
<1>5. CASE speakers'[p] = speakers[p]
  BY <1>3, <1>4, <1>5 DEF Ordered
<1>6. CASE speakers'[p] # speakers[p]
  <2>1. p = q /\ speakers'[p] = c /\ generation[p] = c
    BY <1>1, <1>2, <1>6 DEF IsCurrent, Typed, RecordTypes, Numbers
  <2> QED
    BY <1>1, <1>3, <1>4, <2>1, Bounds DEF Ordered, Generation
<1> QED
  BY <1>5, <1>6

LEMMA StopAutoRecordingStays ==
  ASSUME Typed, NEW wanted, StopAutoRecording(wanted)
  PROVE  RecordersStay
BY DEF StopAutoRecording, StopRecording, Nobody, recordVars, RecordersStay

LEMMA StartRecordingStays ==
  ASSUME Typed, NEW by, StartRecording(by)
  PROVE  RecordersStay
BY DEF StartRecording, Nobody, recordVars, RecordersStay

LEMMA MaybeAutoRecordStays ==
  ASSUME Typed, NEW wanted, NEW entries, MaybeAutoRecord(wanted, entries)
  PROVE  RecordersStay
BY StartRecordingStays DEF MaybeAutoRecord, recordVars, RecordersStay

LEMMA EndCallOrder ==
  ASSUME Typed, NEW p \in Peers, EndCall(p), begun' = begun
  PROVE  NumbersGrow /\ RecordersStay
<1>1. RecordersStay
  BY StopAutoRecordingStays DEF EndCall, CleanupAfterCallEnd
<1>2. begun \in Nat
  BY Bounds DEF Typed, CallTypes
<1>3. NumbersGrow
  BY <1>2 DEF EndCall, Typed, CallTypes, Numbers, NumbersGrow
<1> QED
  BY <1>1, <1>3

LEMMA DialOrder ==
  ASSUME Typed, NEW targets \in SUBSET Peers, Dial(targets)
  PROVE  NumbersGrow
<1>1. Cardinality(targets) \in Nat /\ begun \in Nat
  BY Bounds, PeersAssumption, FS_Subset, FS_CardinalityType DEF Typed, CallTypes
<1>2. begun' = begun + Cardinality(targets)
  BY DEF Dial
<1>3. PICK number \in [targets -> FirstCall..(FirstCall + Cardinality(targets) - 1)] :
        generation' = [p \in Peers |-> IF p \in targets THEN number[p] ELSE generation[p]]
  BY DEF Dial, Injection
<1>4. \A p \in targets : begun < number[p] /\ number[p] <= begun'
  BY <1>1, <1>2, <1>3 DEF FirstCall
<1> QED
  BY <1>1, <1>2, <1>3, <1>4 DEF NumbersGrow

LEMMA CommandsOrder ==
  ASSUME Typed, NEW p \in Peers, Commands(p) \/ HandleConnection(p)
  PROVE  NumbersGrow /\ RecordersStay
<1>1. begun \in Nat
  BY Bounds DEF Typed, CallTypes
<1>2. CASE Call(p)
  BY <1>2, DialOrder DEF Call, recordVars, RecordersStay
<1>3. CASE Answer(p)
  BY <1>1, <1>3, MaybeAutoRecordStays DEF Answer, Accepted, NumbersGrow
<1>4. CASE StrayAnswer(p)
  BY <1>1, <1>4 DEF StrayAnswer, NumbersGrow, recordVars, RecordersStay
<1>5. CASE Reject(p) \/ Abort(p)
  BY <1>5, EndCallOrder DEF Reject, Abort
<1>6. CASE HandleConnection(p)
  <2>1. NumbersGrow
    BY <1>1, <1>6 DEF HandleConnection, NumbersGrow, FirstCall, Typed, CallTypes, Numbers
  <2>2. RecordersStay
    BY <1>6, MaybeAutoRecordStays DEF HandleConnection, Accepted, recordVars, RecordersStay
  <2> QED
    BY <2>1, <2>2
<1> QED
  BY <1>2, <1>3, <1>4, <1>5, <1>6 DEF Commands

LEMMA ReportsOrder ==
  ASSUME Typed, NEW p \in Peers, NEW c \in Generation, Reports(p, c) \/ Environment(p, c)
  PROVE  NumbersGrow /\ RecordersStay
<1>1. begun \in Nat /\ generation \in [Peers -> 0..MaxCalls]
  BY Bounds DEF Typed, CallTypes, Numbers
<1>2. begun' = begun
  BY DEF Reports, ConnectReport, TrackReport, IncomingReport, CallReport, Environment,
         ConnectEnds, TrackEnds, IncomingEnds, HandsBackTrack, CallEnds, ConnectionCloses,
         callVars
<1>3. CASE generation' = generation /\ UNCHANGED recordVars
  BY <1>1, <1>2, <1>3 DEF NumbersGrow, RecordersStay, recordVars
<1>4. CASE EndCall(p)
  BY <1>2, <1>4, EndCallOrder
<1>5. CASE ConnectFailed(p, c)
  BY <1>1, <1>2, <1>5, StopAutoRecordingStays
     DEF ConnectFailed, CleanupAfterCallEnd, NumbersGrow
<1>6. CASE \E rest : Accepted(p, c, rest, TRUE) /\ UNCHANGED generation
  BY <1>1, <1>2, <1>6, MaybeAutoRecordStays DEF Accepted, NumbersGrow
<1>7. CASE IncomingReport(p, c)
  BY <1>1, <1>2, <1>7 DEF IncomingReport, NumbersGrow, RecordersStay, recordVars
<1>8. CASE ConnectReport(p, c)
  BY <1>3, <1>5, <1>8 DEF ConnectReport, ConnectedLate, QuicConnected
<1>9. CASE TrackReport(p, c)
  BY <1>3, <1>4, <1>6, <1>9 DEF TrackReport
<1>10. CASE CallReport(p, c)
  BY <1>3, <1>4, <1>10 DEF CallReport
<1>11. CASE Environment(p, c)
  BY <1>3, <1>11 DEF Environment, ConnectEnds, TrackEnds, IncomingEnds, HandsBackTrack,
                     CallEnds, ConnectionCloses, callVars
<1> QED
  BY <1>7, <1>8, <1>9, <1>10, <1>11 DEF Reports

LEMMA StepOrdered ==
  ASSUME Typed, RecordersInOrder, [Next]_vars
  PROVE  /\ RecordersInOrder'
         /\ \A p \in Peers : speakers'[p] # 0 => speakers'[p] >= speakers[p]
<1>1. Typed'
  BY StepTyped
<1>2. begun \in Nat
  BY Bounds DEF Typed, CallTypes
<1>3. ASSUME UNCHANGED callVars, RecordersStay
      PROVE  NumbersGrow
  BY <1>2, <1>3 DEF callVars, NumbersGrow
<1>4. CASE OnVoiceTrack
  BY <1>4, OnVoiceTrackOrdered
<1>5. ASSUME \/ UNCHANGED vars
             \/ LeaveGroupCall
             \/ \E enabled \in BOOLEAN :
                  SetCallRecording(enabled) \/ SetRecordCallsAutomatically(enabled)
             \/ StartSharing
             \/ StopSharing
             \/ \E p \in Peers : VideoReceiverEnds(p)
      PROVE  NumbersGrow /\ RecordersStay
  <2>1. UNCHANGED callVars
    BY <1>5 DEF vars, LeaveGroupCall, SetCallRecording, SetRecordCallsAutomatically,
                StartSharing, StopSharing, VideoReceiverEnds
  <2>2. CASE \E enabled \in BOOLEAN :
               SetCallRecording(enabled) \/ SetRecordCallsAutomatically(enabled)
    <3>1. PICK enabled \in BOOLEAN :
                 SetCallRecording(enabled) \/ SetRecordCallsAutomatically(enabled)
      BY <2>2
    <3>2. \/ \E by : StartRecording(by)
          \/ StopRecording
          \/ MaybeAutoRecord(enabled, calls)
          \/ StopAutoRecording(enabled)
      BY <3>1 DEF SetCallRecording, SetRecordCallsAutomatically
    <3>3. StopRecording => RecordersStay
      BY DEF StopRecording, Nobody, RecordersStay
    <3>4. RecordersStay
      BY <3>2, <3>3, StartRecordingStays, MaybeAutoRecordStays, StopAutoRecordingStays
    <3> QED
      BY <1>3, <2>1, <3>4
  <2>3. CASE UNCHANGED recordVars
    <3>1. RecordersStay
      BY <2>3 DEF recordVars, RecordersStay
    <3> QED
      BY <1>3, <2>1, <3>1
  <2> QED
    BY <1>5, <2>2, <2>3 DEF vars, LeaveGroupCall, StartSharing, StopSharing, VideoReceiverEnds
<1>6. ASSUME NEW targets \in SUBSET Peers, EnterGroupCall(targets)
      PROVE  NumbersGrow /\ RecordersStay
  <2>1. Dial({p \in targets : calls[p] = NoCall}) /\ UNCHANGED recordVars
    BY <1>6 DEF EnterGroupCall
  <2> QED
    BY <2>1, DialOrder DEF recordVars, RecordersStay
<1>7. OnVoiceTrack \/ (NumbersGrow /\ RecordersStay)
  BY <1>5, <1>6, CommandsOrder, ReportsOrder DEF Next
<1> QED
  BY <1>1, <1>4, <1>7, OrderedKept

(***************************************************************************)
(* A recorder never goes back to the track of an earlier call, however     *)
(* late that track was handed back: on_voice_track drops what is not of    *)
(* the current call.                                                       *)
(***************************************************************************)
THEOREM RecordersGoForward == Spec => RecorderNeverGoesBack
<1>1. Init => RecordersInOrder
  <2> SUFFICES ASSUME Init, NEW p \in Peers PROVE Ordered(p)
    BY DEF RecordersInOrder
  <2>1. generation[p] = 0 /\ speakers[p] = 0 /\ begun = 0
    BY DEF Init, Nobody
  <2> QED
    BY <2>1 DEF Ordered
<1>2. Typed /\ RecordersInOrder /\ [Next]_vars => RecordersInOrder'
  BY StepOrdered
<1>3. Typed /\ RecordersInOrder /\ [Next]_vars =>
        [\A p \in Peers : speakers'[p] # 0 => speakers'[p] >= speakers[p]]_vars
  BY StepOrdered
<1>4. Spec => [](Typed /\ RecordersInOrder)
  BY <1>1, <1>2, InitTyped, StepTyped, PTL DEF Spec
<1> QED
  BY <1>3, <1>4, PTL DEF Spec, RecorderNeverGoesBack

-----------------------------------------------------------------------------
(***************************************************************************)
(* A recording that the user started.                                      *)
(***************************************************************************)
LEMMA AutomaticSparesManual ==
  ASSUME NEW wanted, NEW entries, recording = "manual",
         StopAutoRecording(wanted) \/ MaybeAutoRecord(wanted, entries)
  PROVE  recording' = "manual"
BY DEF StopAutoRecording, MaybeAutoRecord, recordVars

LEMMA StepSparesManual ==
  ASSUME [Next]_vars, recording = "manual", recording' # "manual"
  PROVE  UNCHANGED <<calls, preference, tasks>>
<1>1. ASSUME NEW p \in Peers, EndCall(p) PROVE FALSE
  BY <1>1, AutomaticSparesManual DEF EndCall, CleanupAfterCallEnd
<1>2. ASSUME NEW p, NEW c, NEW rest, NEW inLoop, Accepted(p, c, rest, inLoop) PROVE FALSE
  BY <1>2, AutomaticSparesManual DEF Accepted
<1>3. ASSUME UNCHANGED recordVars PROVE FALSE
  BY <1>3 DEF recordVars
<1>4. ASSUME NEW p \in Peers, Commands(p) \/ HandleConnection(p) \/ VideoReceiverEnds(p)
      PROVE  FALSE
  BY <1>1, <1>2, <1>3, <1>4 DEF Commands, Call, Answer, StrayAnswer, Reject, Abort,
                                HandleConnection, VideoReceiverEnds
<1>5. ASSUME NEW p \in Peers, NEW c \in Generation, Reports(p, c) \/ Environment(p, c)
      PROVE  FALSE
  <2>1. ASSUME ConnectFailed(p, c) PROVE FALSE
    BY <2>1, AutomaticSparesManual DEF ConnectFailed, CleanupAfterCallEnd
  <2>2. CASE Reports(p, c)
    BY <1>1, <1>2, <1>3, <2>1, <2>2
       DEF Reports, ConnectReport, ConnectedLate, QuicConnected, TrackReport, IncomingReport,
           CallReport
  <2>3. CASE Environment(p, c)
    BY <1>3, <2>3 DEF Environment, ConnectEnds, TrackEnds, IncomingEnds, HandsBackTrack,
                      CallEnds, ConnectionCloses
  <2> QED
    BY <1>5, <2>2, <2>3
<1>6. ASSUME \/ UNCHANGED vars
             \/ LeaveGroupCall
             \/ OnVoiceTrack
             \/ \E targets \in SUBSET Peers : EnterGroupCall(targets)
             \/ StartSharing
             \/ StopSharing
      PROVE  FALSE
  BY <1>3, <1>6 DEF vars, recordVars, LeaveGroupCall, OnVoiceTrack, EnterGroupCall,
                    StartSharing, StopSharing
<1>7. ASSUME NEW enabled \in BOOLEAN, SetRecordCallsAutomatically(enabled) PROVE FALSE
  BY <1>7, AutomaticSparesManual DEF SetRecordCallsAutomatically
<1>8. ASSUME NEW enabled \in BOOLEAN, SetCallRecording(enabled)
      PROVE  UNCHANGED <<calls, preference, tasks>>
  BY <1>8 DEF SetCallRecording, callVars
<1> QED
  BY <1>4, <1>5, <1>6, <1>7, <1>8 DEF Next

(***************************************************************************)
(* Only the user's own command ends a recording started by hand: no end of *)
(* a call and no change of the preference does (stop_auto_recording).      *)
(***************************************************************************)
THEOREM ManualRecordingIsKept == Spec => ManualRecordingIsTheUsers
<1>1. [Next]_vars =>
        [recording = "manual" /\ recording' # "manual"
           => UNCHANGED <<calls, preference, tasks>>]_vars
  BY StepSparesManual
<1> QED
  BY <1>1, PTL DEF Spec, ManualRecordingIsTheUsers

-----------------------------------------------------------------------------
(***************************************************************************)
(* The tasks in order.  A task belongs to a call that began; a task of the *)
(* peer's present call fits the state of its entry; and a call has one     *)
(* task at a time, but for the monitor of a ringing call, which ends after *)
(* the call has been answered.                                             *)
(***************************************************************************)
Suits(kind, state) == kind = Watcher[state] \/ (kind = "incoming" /\ state = "active")

SameCall(t, u) == t.peer = u.peer /\ t.call = u.call

Alone(t) == \A u \in tasks : SameCall(t, u) => t = u \/ {t.kind, u.kind} = {"incoming", "call"}

Fits(t) == t.call = calls[t.peer].call => Suits(t.kind, calls[t.peer].state)

InOrder(t) == t.call <= begun /\ Fits(t) /\ Alone(t)

TasksInOrder == \A t \in tasks : InOrder(t)

LEMMA TaskTypedFields ==
  ASSUME NEW t \in Task
  PROVE  /\ t.kind \in {"connect", "track", "incoming", "call"}
         /\ t.peer \in Peers
         /\ t.call \in Generation
         /\ t.call \in Nat /\ t.call # 0
BY Bounds DEF Task, Generation

(* A step that begins no call, starts no task and at most ends calls. *)
LEMMA FewerInOrder ==
  ASSUME Typed, TasksInOrder, tasks' \subseteq tasks, begun' = begun,
         \A q \in Peers : calls'[q] \in {calls[q], NoCall}
  PROVE  TasksInOrder'
<1> SUFFICES ASSUME NEW t \in tasks' PROVE InOrder(t)'
  BY DEF TasksInOrder
<1>1. t \in tasks /\ t \in Task /\ InOrder(t)
  BY DEF Typed, TaskTypes, TasksInOrder
<1>2. t.peer \in Peers /\ t.call # 0
  BY <1>1, TaskTypedFields
<1>3. Fits(t)'
  BY <1>1, <1>2 DEF InOrder, Fits, NoCall
<1> QED
  BY <1>1, <1>3 DEF InOrder, Alone

LEMMA BecomesInOrder ==
  ASSUME Typed, TasksInOrder, NEW t \in tasks, NEW stage, tasks' = Becomes(t, stage),
         calls' = calls, begun' = begun
  PROVE  TasksInOrder'
<1> DEFINE n == [t EXCEPT !.stage = stage]
<1>1. t \in Task
  BY DEF Typed, TaskTypes
<1>2. n.kind = t.kind /\ n.peer = t.peer /\ n.call = t.call
  BY <1>1 DEF Task
<1>3. tasks' = (tasks \ {t}) \cup {n}
  BY DEF Becomes
<1> HIDE DEF n
<1>4. \A u \in tasks : InOrder(u)
  BY DEF TasksInOrder
<1> SUFFICES ASSUME NEW u \in tasks' PROVE InOrder(u)'
  BY DEF TasksInOrder
<1>5. CASE u = n
  <2>1. u.call <= begun /\ Fits(u)'
    BY <1>2, <1>4, <1>5 DEF InOrder, Fits
  <2>2. Alone(u)'
    BY <1>2, <1>3, <1>4, <1>5 DEF InOrder, Alone, SameCall
  <2> QED
    BY <2>1, <2>2 DEF InOrder
<1>6. CASE u # n
  <2>1. u \in tasks /\ u # t /\ InOrder(u)
    BY <1>3, <1>4, <1>6
  <2>2. Alone(u)'
    BY <1>2, <1>3, <2>1 DEF InOrder, Alone, SameCall
  <2> QED
    BY <2>1, <2>2 DEF InOrder, Fits
<1> QED
  BY <1>5, <1>6

(* Calls that begin get numbers that no task has. *)
Begins(targets, s, stage) ==
  /\ begun <= begun'
  /\ \A p \in targets :
       /\ calls'[p].state = s
       /\ calls'[p].call \in Generation
       /\ begun < calls'[p].call /\ calls'[p].call <= begun'
  /\ \A p \in Peers \ targets : calls'[p] = calls[p]
  /\ \A t \in tasks' \ tasks :
       \E p \in targets : t = TaskOf(Watcher[s], p, calls'[p].call, stage)

LEMMA FreshInOrder ==
  ASSUME Typed, Typed', TasksInOrder, NEW targets \in SUBSET Peers, NEW s, NEW stage,
         Begins(targets, s, stage)
  PROVE  TasksInOrder'
<1>1. begun \in Nat /\ begun' \in Nat
  BY Bounds DEF Typed, CallTypes
<1>2. \A p \in targets : calls'[p].call \in Nat /\ begun < calls'[p].call
  BY Bounds DEF Begins, Generation
<1>3. ASSUME NEW u \in tasks' PROVE u.peer \in Peers /\ u.call \in Nat
  BY <1>3, TaskTypedFields DEF Typed, TaskTypes
<1>4. ASSUME NEW u \in tasks', u \notin tasks
      PROVE  /\ u.peer \in targets
             /\ u = TaskOf(Watcher[s], u.peer, calls'[u.peer].call, stage)
             /\ u.kind = Watcher[s] /\ u.call = calls'[u.peer].call
  BY <1>4 DEF TaskOf, Begins
<1>5. ASSUME NEW u \in tasks PROVE u.call <= begun /\ InOrder(u)
  BY <1>5 DEF TasksInOrder, InOrder
<1> SUFFICES ASSUME NEW t \in tasks' PROVE InOrder(t)'
  BY DEF TasksInOrder
<1>6. CASE t \in tasks
  <2>1. t.call <= begun' /\ t.peer \in Peers /\ t.call \in Nat
    BY <1>1, <1>3, <1>5, <1>6 DEF Begins
  <2>2. Fits(t)'
    <3>1. CASE t.peer \in targets
      <4>1. t.call # calls'[t.peer].call
        BY <1>1, <1>2, <1>5, <1>6, <2>1, <3>1
      <4> QED
        BY <4>1 DEF Fits
    <3>2. CASE t.peer \notin targets
      BY <1>5, <1>6, <2>1, <3>2 DEF Fits, InOrder, Begins
    <3> QED
      BY <3>1, <3>2
  <2>3. ASSUME NEW u \in tasks', SameCall(t, u) PROVE u \in tasks
    BY <1>1, <1>2, <1>4, <1>5, <1>6, <2>1, <2>3 DEF SameCall
  <2>4. Alone(t)'
    BY <1>5, <1>6, <2>3 DEF InOrder, Alone, SameCall
  <2> QED
    BY <2>1, <2>2, <2>4 DEF InOrder
<1>7. CASE t \notin tasks
  <2>1. /\ t.peer \in targets /\ t.kind = Watcher[s] /\ t.call = calls'[t.peer].call
        /\ t.call <= begun'
    BY <1>4, <1>7 DEF Begins
  <2>2. Fits(t)'
    <3>1. calls'[t.peer].state = s
      BY <2>1 DEF Begins
    <3> QED
      BY <2>1, <3>1 DEF Fits, Suits
  <2>3. ASSUME NEW u \in tasks', SameCall(t, u) PROVE u = t
    <3>1. u \notin tasks
      BY <1>1, <1>2, <1>5, <2>1, <2>3, <1>3 DEF SameCall
    <3> QED
      BY <1>4, <1>7, <2>3, <3>1 DEF SameCall
  <2>4. Alone(t)'
    BY <2>3 DEF Alone
  <2> QED
    BY <2>1, <2>2, <2>4 DEF InOrder
<1> QED
  BY <1>6, <1>7

(* A task that reports is followed by the next one of its call. *)
LEMMA FollowedInOrder ==
  ASSUME Typed, TasksInOrder, NEW t \in tasks, t.kind \in {"connect", "track"},
         NEW s, NEW stage, begun' = begun,
         calls' = [calls EXCEPT ![t.peer] = [state |-> s, call |-> t.call]],
         tasks' \subseteq (tasks \ {t}) \cup {TaskOf(Watcher[s], t.peer, t.call, stage)}
  PROVE  TasksInOrder'
<1> DEFINE n == TaskOf(Watcher[s], t.peer, t.call, stage)
<1>1. n.kind = Watcher[s] /\ n.peer = t.peer /\ n.call = t.call
  BY DEF TaskOf
<1>2. \A u \in tasks : InOrder(u) /\ u.peer \in Peers
  BY TaskTypedFields DEF TasksInOrder, Typed, TaskTypes
<1>3. \A u \in tasks \ {t} : ~SameCall(t, u)
  BY <1>2, Zenon DEF InOrder, Alone
<1>4. /\ calls'[t.peer] = [state |-> s, call |-> t.call]
      /\ \A p \in Peers \ {t.peer} : calls'[p] = calls[p]
  BY <1>2 DEF Typed, CallTypes
<1>5. tasks' \subseteq (tasks \ {t}) \cup {n}
  OBVIOUS
<1> HIDE DEF n
<1> SUFFICES ASSUME NEW u \in tasks' PROVE InOrder(u)'
  BY DEF TasksInOrder
<1>6. CASE u = n
  <2>1. u.call <= begun /\ Fits(u)'
    BY <1>1, <1>2, <1>4, <1>6 DEF Fits, Suits, InOrder
  <2>2. Alone(u)'
    BY <1>1, <1>3, <1>5, <1>6 DEF Alone, SameCall
  <2> QED
    BY <2>1, <2>2 DEF InOrder
<1>7. CASE u # n
  <2>1. u \in tasks /\ u # t /\ InOrder(u) /\ u.peer \in Peers /\ ~SameCall(t, u)
    BY <1>2, <1>3, <1>5, <1>7
  <2>2. Fits(u)'
    BY <1>4, <2>1 DEF InOrder, Fits, SameCall
  <2>3. Alone(u)'
    BY <1>1, <1>5, <2>1 DEF InOrder, Alone, SameCall
  <2> QED
    BY <2>1, <2>2, <2>3 DEF InOrder
<1> QED
  BY <1>6, <1>7

(* An answered call keeps its monitor beside its own task. *)
LEMMA AnsweredInOrder ==
  ASSUME Typed, TasksInOrder, NEW p \in Peers, calls[p].state = "incoming", begun' = begun,
         calls' = [calls EXCEPT ![p] = [state |-> "active", call |-> calls[p].call]],
         tasks' \subseteq tasks \cup {TaskOf("call", p, calls[p].call, "starting")},
         calls[p].call <= begun
  PROVE  TasksInOrder'
<1> DEFINE n == TaskOf("call", p, calls[p].call, "starting")
<1>1. n.kind = "call" /\ n.peer = p /\ n.call = calls[p].call
  BY DEF TaskOf
<1>2. \A u \in tasks : InOrder(u) /\ u.peer \in Peers
  BY TaskTypedFields DEF TasksInOrder, Typed, TaskTypes
<1>3. \A u \in tasks : u.peer = p /\ u.call = calls[p].call => u.kind = "incoming"
  BY <1>2 DEF InOrder, Fits, Suits, Watcher
<1>4. /\ calls'[p] = [state |-> "active", call |-> calls[p].call]
      /\ \A q \in Peers \ {p} : calls'[q] = calls[q]
  BY DEF Typed, CallTypes
<1>5. tasks' \subseteq tasks \cup {n}
  OBVIOUS
<1> HIDE DEF n
<1> SUFFICES ASSUME NEW u \in tasks' PROVE InOrder(u)'
  BY DEF TasksInOrder
<1>6. CASE u = n
  <2>1. u.call <= begun /\ Fits(u)'
    BY <1>1, <1>4, <1>6 DEF Fits, Suits, Watcher
  <2>2. Alone(u)'
    BY <1>1, <1>3, <1>5, <1>6 DEF Alone, SameCall
  <2> QED
    BY <2>1, <2>2 DEF InOrder
<1>7. CASE u # n
  <2>1. u \in tasks /\ InOrder(u) /\ u.peer \in Peers
    BY <1>2, <1>5, <1>7
  <2>2. Fits(u)'
    BY <1>3, <1>4, <2>1 DEF InOrder, Fits, Suits, Watcher
  <2>3. Alone(u)'
    BY <1>1, <1>3, <1>5, <2>1 DEF InOrder, Alone, SameCall
  <2> QED
    BY <2>1, <2>2, <2>3 DEF InOrder
<1> QED
  BY <1>6, <1>7

LEMMA EndCallShrinks ==
  ASSUME Typed, NEW p \in Peers, EndCall(p)
  PROVE  \A q \in Peers : calls'[q] \in {calls[q], NoCall}
BY DEF EndCall, Typed, CallTypes

LEMMA DialFacts ==
  ASSUME Typed, NEW targets \in SUBSET Peers, Dial(targets)
  PROVE  /\ Begins(targets, "calling", "running")
         /\ tasks \subseteq tasks'
         /\ \A p \in targets : /\ generation'[p] = calls'[p].call
                               /\ aborts'[p] = calls'[p].call
                               /\ news'[p] = "calling"
         /\ \A p \in Peers \ targets :
              generation'[p] = generation[p] /\ aborts'[p] = aborts[p] /\ news'[p] = news[p]
<1>1. Cardinality(targets) \in Nat /\ begun \in Nat
  BY Bounds, PeersAssumption, FS_Subset, FS_CardinalityType DEF Typed, CallTypes
<1>2. begun' = begun + Cardinality(targets) /\ begun' <= MaxCalls
  BY DEF Dial
<1> DEFINE range == FirstCall..(FirstCall + Cardinality(targets) - 1)
<1>3. PICK number \in [targets -> range] :
        /\ calls' = [p \in Peers |-> IF p \in targets
                       THEN [state |-> "calling", call |-> number[p]] ELSE calls[p]]
        /\ generation' = [p \in Peers |-> IF p \in targets THEN number[p] ELSE generation[p]]
        /\ aborts' = [p \in Peers |-> IF p \in targets THEN number[p] ELSE aborts[p]]
        /\ tasks' = tasks \cup {TaskOf("connect", p, number[p], "running") : p \in targets}
        /\ news' = [p \in Peers |-> IF p \in targets THEN "calling" ELSE news[p]]
  BY DEF Dial, Injection
<1>4. \A p \in targets : number[p] \in range
  BY <1>3
<1>5. \A n \in range : n \in Generation /\ begun < n /\ n <= begun'
  BY <1>1, <1>2, Bounds DEF Generation, FirstCall
<1> HIDE DEF range
<1>6. ASSUME NEW p \in targets
      PROVE  /\ calls'[p].state = "calling"
             /\ calls'[p].call = number[p]
             /\ number[p] \in Generation /\ begun < number[p] /\ number[p] <= begun'
             /\ generation'[p] = number[p] /\ aborts'[p] = number[p] /\ news'[p] = "calling"
  <2>1. p \in Peers
    OBVIOUS
  <2> QED
    BY <1>3, <1>4, <1>5, <2>1
<1>7. ASSUME NEW p \in Peers \ targets
      PROVE  /\ calls'[p] = calls[p] /\ generation'[p] = generation[p]
             /\ aborts'[p] = aborts[p] /\ news'[p] = news[p]
  BY <1>3, <1>7
<1>8. begun <= begun'
  BY <1>1, <1>2
<1>9. /\ tasks \subseteq tasks'
      /\ \A t \in tasks' \ tasks :
           \E p \in targets : t = TaskOf("connect", p, calls'[p].call, "running")
  BY <1>3, <1>6
<1>10. Begins(targets, "calling", "running")
  BY <1>6, <1>7, <1>8, <1>9 DEF Begins, Watcher
<1> QED
  BY <1>6, <1>7, <1>9, <1>10

LEMMA HandleConnectionFacts ==
  ASSUME Typed, NEW p \in Peers, HandleConnection(p)
  PROVE  \E s \in {"active", "incoming"}, stage \in {"starting", "running"} :
            Begins({p}, s, stage)
<1> DEFINE c == FirstCall
<1>1. begun \in Nat /\ c \in Generation /\ begun < c /\ begun' = c
  BY Bounds DEF HandleConnection, FirstCall, Typed, CallTypes, Generation
<1>2. PICK s \in {"active", "incoming"}, stage \in {"starting", "running"} :
        /\ calls' = [calls EXCEPT ![p] = [state |-> s, call |-> c]]
        /\ tasks' \subseteq tasks \cup {TaskOf(Watcher[s], p, c, stage)}
  BY DEF HandleConnection, Accepted, Watcher
<1>3. /\ calls'[p].state = s /\ calls'[p].call = c
      /\ \A q \in Peers \ {p} : calls'[q] = calls[q]
  BY <1>2 DEF Typed, CallTypes
<1> HIDE DEF c
<1>4. Begins({p}, s, stage)
  BY <1>1, <1>2, <1>3 DEF Begins, Generation
<1> QED
  BY <1>4

LEMMA CommandsInOrder ==
  ASSUME Typed, Typed', AllAttended, RecordersInOrder, TasksInOrder,
         NEW p \in Peers, Commands(p)
  PROVE  TasksInOrder'
<1>1. CASE Call(p)
  BY <1>1, DialFacts, FreshInOrder DEF Call
<1>2. CASE Answer(p)
  <2>1. calls[p].call <= begun
    BY <1>2 DEF Answer, AllAttended, Attended, RecordersInOrder, Ordered
  <2>2. begun' = begun /\ calls[p].state = "incoming"
    BY <1>2 DEF Answer
  <2>3. /\ calls' = [calls EXCEPT ![p] = [state |-> "active", call |-> calls[p].call]]
        /\ tasks' \subseteq tasks \cup {TaskOf("call", p, calls[p].call, "starting")}
    BY <1>2 DEF Answer, Accepted
  <2> QED
    BY <2>1, <2>2, <2>3, AnsweredInOrder
<1>3. CASE StrayAnswer(p)
  BY <1>3, FewerInOrder DEF StrayAnswer, Typed, CallTypes
<1>4. CASE Reject(p)
  BY <1>4, FewerInOrder, EndCallShrinks DEF Reject
<1>5. CASE Abort(p)
  <2>1. tasks' \subseteq tasks /\ begun' = begun /\ EndCall(p)
    BY <1>5 DEF Abort, AbortedDial
  <2> QED
    BY <2>1, FewerInOrder, EndCallShrinks
<1> QED
  BY <1>1, <1>2, <1>3, <1>4, <1>5 DEF Commands

LEMMA ReportsInOrder ==
  ASSUME Typed, Typed', TasksInOrder, NEW p \in Peers, NEW c \in Generation, Reports(p, c)
  PROVE  TasksInOrder'
<1>1. begun' = begun
  BY DEF Reports, ConnectReport, TrackReport, IncomingReport, CallReport
<1>2. ASSUME NEW e, calls' = [calls EXCEPT ![p] = NoCall] \/ calls' = calls
      PROVE  \A q \in Peers : calls'[q] \in {calls[q], NoCall}
  BY <1>2 DEF Typed, CallTypes
<1>3. ASSUME NEW k \in {"connect", "track"}, NEW r, TaskOf(k, p, c, r) \in tasks,
             NEW s, NEW stage, calls' = [calls EXCEPT ![p] = [state |-> s, call |-> c]],
             tasks' \subseteq (tasks \ {TaskOf(k, p, c, r)})
                                \cup {TaskOf(Watcher[s], p, c, stage)}
      PROVE  TasksInOrder'
  <2> DEFINE t == TaskOf(k, p, c, r)
  <2>1. t \in tasks /\ t.kind = k /\ t.peer = p /\ t.call = c
    BY <1>3, TaskOfFields
  <2>2. /\ calls' = [calls EXCEPT ![t.peer] = [state |-> s, call |-> t.call]]
        /\ tasks' \subseteq (tasks \ {t}) \cup {TaskOf(Watcher[s], t.peer, t.call, stage)}
    BY <1>3, <2>1
  <2> HIDE DEF t
  <2> QED
    BY <1>1, <1>3, <2>1, <2>2, FollowedInOrder
<1>4. CASE ConnectReport(p, c)
  <2>1. PICK s \in {"ok", "failed"} :
          LET t == TaskOf("connect", p, c, s)
          IN /\ t \in tasks
             /\ \/ ConnectedLate(p, c) /\ tasks' = tasks \ {t}
                \/ /\ QuicConnected(p, c)
                   /\ tasks' = (tasks \ {t}) \cup {TaskOf("track", p, c, "running")}
                \/ ConnectFailed(p, c) /\ tasks' = tasks \ {t}
    BY <1>4 DEF ConnectReport
  <2>2. CASE QuicConnected(p, c)
               /\ tasks' = (tasks \ {TaskOf("connect", p, c, s)})
                             \cup {TaskOf("track", p, c, "running")}
    BY <1>3, <2>1, <2>2 DEF QuicConnected, Watcher
  <2>3. CASE (ConnectedLate(p, c) \/ ConnectFailed(p, c)) /\ tasks' \subseteq tasks
    BY <1>1, <1>2, <2>3, FewerInOrder DEF ConnectedLate, ConnectFailed
  <2> QED
    BY <2>1, <2>2, <2>3
<1>5. CASE TrackReport(p, c)
  <2>1. PICK s \in {"ok", "failed"} :
          LET t == TaskOf("track", p, c, s)
          IN /\ t \in tasks
             /\ \/ calls' = calls /\ tasks' = tasks \ {t}
                \/ calls' = [calls EXCEPT ![p] = NoCall] /\ tasks' = tasks \ {t}
                \/ Accepted(p, c, tasks \ {t}, TRUE)
    BY <1>5 DEF TrackReport, EndCall
  <2>2. CASE Accepted(p, c, tasks \ {TaskOf("track", p, c, s)}, TRUE)
    <3>1. /\ calls' = [calls EXCEPT ![p] = [state |-> "active", call |-> c]]
          /\ tasks' \subseteq (tasks \ {TaskOf("track", p, c, s)})
                                \cup {TaskOf(Watcher["active"], p, c, "starting")}
      BY <2>2 DEF Accepted, Watcher
    <3> QED
      BY <1>3, <2>1, <3>1
  <2>3. CASE (calls' = calls \/ calls' = [calls EXCEPT ![p] = NoCall]) /\ tasks' \subseteq tasks
    BY <1>1, <1>2, <2>3, FewerInOrder
  <2> QED
    BY <2>1, <2>2, <2>3
<1>6. CASE IncomingReport(p, c) \/ CallReport(p, c)
  <2>1. tasks' \subseteq tasks
    BY <1>6 DEF IncomingReport, CallReport
  <2>2. calls' = calls \/ calls' = [calls EXCEPT ![p] = NoCall]
    BY <1>6 DEF IncomingReport, CallReport, EndCall
  <2> QED
    BY <1>1, <1>2, <2>1, <2>2, FewerInOrder
<1> QED
  BY <1>4, <1>5, <1>6 DEF Reports

LEMMA StepInOrder ==
  ASSUME Typed, AllAttended, RecordersInOrder, TasksInOrder, [Next]_vars
  PROVE  TasksInOrder'
<1>1. Typed'
  BY StepTyped
<1>2. ASSUME UNCHANGED <<calls, begun, tasks>> PROVE TasksInOrder'
  BY <1>2, FewerInOrder
<1>3. ASSUME NEW p \in Peers, NEW c \in Generation, Environment(p, c)
      PROVE  TasksInOrder'
  <2>1. calls' = calls /\ begun' = begun
    BY <1>3 DEF Environment, ConnectEnds, TrackEnds, IncomingEnds, HandsBackTrack, CallEnds,
                ConnectionCloses, callVars
  <2>2. tasks' = tasks \/ \E t \in tasks : \E stage : tasks' = Becomes(t, stage)
    BY <1>3 DEF Environment, ConnectEnds, TrackEnds, IncomingEnds, HandsBackTrack, CallEnds,
                ConnectionCloses
  <2> QED
    BY <1>2, <2>1, <2>2, BecomesInOrder
<1>4. ASSUME NEW targets \in SUBSET Peers, EnterGroupCall(targets)
      PROVE  TasksInOrder'
  BY <1>1, <1>4, DialFacts, FreshInOrder DEF EnterGroupCall
<1>5. ASSUME \/ UNCHANGED vars
             \/ LeaveGroupCall
             \/ OnVoiceTrack
             \/ \E enabled \in BOOLEAN :
                  SetCallRecording(enabled) \/ SetRecordCallsAutomatically(enabled)
             \/ StartSharing
             \/ StopSharing
             \/ \E p \in Peers : VideoReceiverEnds(p)
      PROVE  UNCHANGED <<calls, begun, tasks>>
  BY <1>5 DEF vars, callVars, LeaveGroupCall, OnVoiceTrack, SetCallRecording,
              SetRecordCallsAutomatically, StartSharing, StopSharing, VideoReceiverEnds
<1>6. ASSUME NEW p \in Peers, HandleConnection(p) PROVE TasksInOrder'
  BY <1>1, <1>6, HandleConnectionFacts, FreshInOrder
<1> QED
  BY <1>1, <1>2, <1>3, <1>4, <1>5, <1>6, CommandsInOrder, ReportsInOrder DEF Next

-----------------------------------------------------------------------------
(***************************************************************************)
(* What the worker holds of a peer's call agrees, as long as no answer     *)
(* strays: the number, the abort handle of a running dial, and what the    *)
(* screen was told.                                                        *)
(***************************************************************************)
DialOf(t, p) == t.kind = "connect" /\ t.peer = p /\ t.stage = "running"

Truthful(p) ==
  /\ generation[p] = calls[p].call
  /\ news[p] = Label(calls[p].state)
  /\ \A t \in tasks : DialOf(t, p) =>
       /\ calls[p].state = "calling" /\ calls[p].call = t.call
       /\ aborts[p] = t.call

AllTruthful == strays = 0 => \A p \in Peers : Truthful(p)

(* A step at one peer says nothing of the others. *)
OnlyAt(p) ==
  \A q \in Peers \ {p} : /\ calls'[q] = calls[q] /\ generation'[q] = generation[q]
                         /\ aborts'[q] = aborts[q] /\ news'[q] = news[q]

LEMMA OthersTruthful ==
  ASSUME AllTruthful, strays' = strays, NEW p \in Peers, OnlyAt(p),
         \A t \in tasks' : t.peer # p => t \in tasks,
         strays = 0 => Truthful(p)'
  PROVE  AllTruthful'
<1> SUFFICES ASSUME strays = 0, NEW q \in Peers \ {p} PROVE Truthful(q)'
  BY DEF AllTruthful
<1>1. Truthful(q)
  BY DEF AllTruthful
<1>2. \A t \in tasks' : DialOf(t, q) => t \in tasks
  BY DEF DialOf
<1> QED
  BY <1>1, <1>2 DEF Truthful, OnlyAt, DialOf

(* The tasks of a peer's present call tell the state of its entry. *)
LEMMA StateOfTask ==
  ASSUME Typed, TasksInOrder, NEW t \in tasks, NEW p \in Peers, t.peer = p,
         t.call = calls[p].call
  PROVE  /\ t.kind = "connect" => calls[p].state = "calling"
         /\ t.kind = "track" => calls[p].state = "connecting"
         /\ t.kind = "call" => calls[p].state = "active"
         /\ t.kind = "incoming" => calls[p].state \in {"incoming", "active"}
<1>1. t.call # 0 /\ Suits(t.kind, calls[p].state)
  BY TaskTypedFields DEF Typed, TaskTypes, TasksInOrder, InOrder, Fits
<1>2. calls[p].state \in CallInfo
  BY <1>1 DEF Typed, CallTypes, Entry, NoCall
<1> QED
  BY <1>1, <1>2 DEF Suits, Watcher, CallInfo

LEMMA EndCallTruthful ==
  ASSUME Typed, NEW p \in Peers, EndCall(p), aborts' \in Numbers,
         \A q \in Peers \ {p} : aborts'[q] = aborts[q],
         \A t \in tasks' : ~DialOf(t, p)
  PROVE  Truthful(p)' /\ OnlyAt(p)
<1>1. OnlyAt(p)
  BY DEF EndCall, ToldEnd, OnlyAt, Typed, CallTypes, Numbers
<1>2. calls'[p] = NoCall /\ generation'[p] = 0 /\ news'[p] = "none"
  BY DEF EndCall, ToldEnd, Typed, CallTypes, Numbers
<1> QED
  BY <1>1, <1>2 DEF Truthful, NoCall, Label, DialOf

LEMMA AcceptedTruthful ==
  ASSUME Typed, NEW p \in Peers, NEW c \in Generation, NEW rest, rest \subseteq tasks,
         NEW inLoop \in BOOLEAN, Accepted(p, c, rest, inLoop), generation'[p] = c,
         \A q \in Peers \ {p} : generation'[q] = generation[q], aborts' = aborts,
         \A t \in rest : ~DialOf(t, p)
  PROVE  /\ Truthful(p)' /\ OnlyAt(p)
         /\ \A t \in tasks' : t.peer # p => t \in tasks
<1>1. /\ calls'[p] = [state |-> "active", call |-> c] /\ news'[p] = "active"
      /\ \A q \in Peers \ {p} : calls'[q] = calls[q] /\ news'[q] = news[q]
  BY DEF Accepted, Typed, CallTypes
<1>2. tasks' \subseteq rest \cup {TaskOf("call", p, c, "starting")}
  BY DEF Accepted
<1>3. \A t \in tasks' : ~DialOf(t, p)
  BY <1>2, TaskOfFields DEF DialOf
<1>4. \A t \in tasks' : t.peer # p => t \in tasks
  BY <1>2, TaskOfFields
<1> QED
  BY <1>1, <1>3, <1>4 DEF Truthful, OnlyAt, Label, DialOf

LEMMA DialTruthful ==
  ASSUME Typed, AllTruthful, NEW targets \in SUBSET Peers, Dial(targets),
         \A p \in targets : calls[p] = NoCall, strays' = strays
  PROVE  AllTruthful'
<1> SUFFICES ASSUME strays = 0, NEW p \in Peers PROVE Truthful(p)'
  BY DEF AllTruthful
<1>1. Truthful(p)
  BY DEF AllTruthful
<1>2. /\ \A t \in tasks' \ tasks :
           \E q \in targets : t = TaskOf("connect", q, calls'[q].call, "running")
      /\ p \in targets => calls'[p].state = "calling"
      /\ p \notin targets => calls'[p] = calls[p]
  BY DialFacts DEF Begins, Watcher
<1>3. CASE p \in targets
  <2>1. \A t \in tasks : ~DialOf(t, p)
    BY <1>1, <1>3 DEF Truthful, NoCall
  <2>2. \A t \in tasks' : DialOf(t, p) => t.call = calls'[p].call
    BY <1>2, <2>1, TaskOfFields DEF DialOf
  <2>3. generation'[p] = calls'[p].call /\ aborts'[p] = calls'[p].call /\ news'[p] = "calling"
    BY <1>3, DialFacts
  <2> QED
    BY <1>2, <1>3, <2>2, <2>3 DEF Truthful, Label, DialOf
<1>4. CASE p \notin targets
  <2>1. \A t \in tasks' : DialOf(t, p) => t \in tasks
    BY <1>2, <1>4, TaskOfFields DEF DialOf
  <2>2. generation'[p] = generation[p] /\ aborts'[p] = aborts[p] /\ news'[p] = news[p]
    BY <1>4, DialFacts
  <2> QED
    BY <1>1, <1>2, <1>4, <2>1, <2>2 DEF Truthful, DialOf
<1> QED
  BY <1>3, <1>4

LEMMA HandleConnectionTruthful ==
  ASSUME Typed, AllTruthful, NEW p \in Peers, HandleConnection(p)
  PROVE  AllTruthful'
<1> DEFINE c == FirstCall
<1>1. c \in Generation
  BY Bounds DEF HandleConnection, FirstCall, Typed, CallTypes, Generation
<1>2. /\ generation'[p] = c /\ \A q \in Peers \ {p} : generation'[q] = generation[q]
      /\ aborts' = aborts /\ strays' = strays /\ calls[p] = NoCall
  BY DEF HandleConnection, Typed, CallTypes, Numbers, boundVars
<1>3. strays = 0 => \A t \in tasks : ~DialOf(t, p)
  BY <1>2 DEF AllTruthful, Truthful, NoCall
<1>4. CASE room /\ p \in Mates
  <2>1. Accepted(p, c, tasks, TRUE)
    BY <1>4 DEF HandleConnection
  <2> HIDE DEF c
  <2>2. CASE strays = 0
    <3>1. /\ Truthful(p)' /\ OnlyAt(p)
          /\ \A t \in tasks' : t.peer # p => t \in tasks
      BY <1>1, <1>2, <1>3, <2>1, <2>2, AcceptedTruthful
    <3> QED
      BY <1>2, <3>1, OthersTruthful
  <2> QED
    BY <1>2, <2>2 DEF AllTruthful
<1>5. CASE ~(room /\ p \in Mates)
  <2>1. /\ calls' = [calls EXCEPT ![p] = [state |-> "incoming", call |-> c]]
        /\ news' = [news EXCEPT ![p] = "incoming"]
        /\ tasks' = tasks \cup {TaskOf("incoming", p, c, "running")}
    BY <1>5 DEF HandleConnection
  <2>2. OnlyAt(p) /\ calls'[p] = [state |-> "incoming", call |-> c] /\ news'[p] = "incoming"
    BY <1>2, <2>1 DEF OnlyAt, Typed, CallTypes
  <2>3. \A t \in tasks' : (t.peer # p => t \in tasks) /\ (DialOf(t, p) => t \in tasks)
    BY <2>1, TaskOfFields DEF DialOf
  <2> HIDE DEF c
  <2>4. strays = 0 => Truthful(p)'
    BY <1>2, <1>3, <2>2, <2>3 DEF Truthful, Label, DialOf
  <2> QED
    BY <1>2, <2>2, <2>3, <2>4, OthersTruthful
<1> QED
  BY <1>4, <1>5

LEMMA CommandsTruthful ==
  ASSUME Typed, Typed', AllTruthful, NEW p \in Peers, Commands(p)
  PROVE  AllTruthful'
<1>1. CASE Call(p)
  BY <1>1, DialTruthful DEF Call, boundVars
<1>2. CASE StrayAnswer(p)
  BY <1>2 DEF StrayAnswer, AllTruthful, Typed, FlagTypes
<1>3. ASSUME strays = 0
      PROVE  /\ Truthful(p)
             /\ \A t \in tasks : DialOf(t, p) =>
                  calls[p].state = "calling" /\ calls[p].call = t.call /\ aborts[p] = t.call
  BY <1>3 DEF AllTruthful, Truthful
<1>4. aborts \in Numbers /\ aborts' \in Numbers
  BY DEF Typed, CallTypes
<1>5. CASE Answer(p)
  <2>1. calls[p].call \in Generation
    BY <1>5, EntryFacts DEF Answer, Typed, CallTypes
  <2>2. /\ Accepted(p, calls[p].call, tasks, FALSE) /\ strays' = strays
        /\ generation' = generation /\ aborts' = aborts /\ calls[p].state = "incoming"
    BY <1>5 DEF Answer, boundVars
  <2>3. CASE strays = 0
    <3>1. /\ Truthful(p)' /\ OnlyAt(p)
          /\ \A t \in tasks' : t.peer # p => t \in tasks
      BY <1>3, <2>1, <2>2, <2>3, AcceptedTruthful DEF Truthful
    <3> QED
      BY <2>2, <3>1, OthersTruthful
  <2> QED
    BY <2>2, <2>3 DEF AllTruthful
<1>6. CASE Reject(p)
  <2>1. EndCall(p) /\ aborts' = aborts /\ tasks' = tasks /\ strays' = strays
          /\ calls[p].state = "incoming"
    BY <1>6 DEF Reject, boundVars
  <2>2. CASE strays = 0
    <3>1. Truthful(p)' /\ OnlyAt(p)
      BY <1>3, <1>4, <2>1, <2>2, EndCallTruthful
    <3> QED
      BY <2>1, <3>1, OthersTruthful
  <2> QED
    BY <2>1, <2>2 DEF AllTruthful
<1>7. CASE Abort(p)
  <2>1. EndCall(p) /\ aborts' = [aborts EXCEPT ![p] = 0] /\ tasks' = AbortedDial(p)
          /\ strays' = strays
    BY <1>7 DEF Abort, boundVars
  <2>2. tasks' \subseteq tasks /\ \A q \in Peers \ {p} : aborts'[q] = aborts[q]
    BY <2>1, <1>4 DEF AbortedDial, Numbers
  <2>3. CASE strays = 0
    <3>1. ASSUME NEW t \in tasks', DialOf(t, p) PROVE FALSE
      <4>1. t \in tasks /\ t \in Task
        BY <2>2, <3>1 DEF Typed, TaskTypes
      <4>2. aborts[p] = t.call /\ IsCurrent(p, aborts[p]) /\ aborts[p] # 0
        BY <1>3, <2>3, <3>1, <4>1, TaskTypedFields DEF Truthful, IsCurrent
      <4>3. t = TaskOf("connect", p, aborts[p], "running")
        BY <3>1, <4>1, <4>2, TaskFields DEF DialOf
      <4> QED
        BY <2>1, <3>1, <4>2, <4>3 DEF AbortedDial
    <3>2. Truthful(p)' /\ OnlyAt(p)
      BY <1>4, <2>1, <2>2, <3>1, EndCallTruthful
    <3> QED
      BY <2>1, <2>2, <3>2, OthersTruthful
  <2> QED
    BY <2>1, <2>3 DEF AllTruthful
<1> QED
  BY <1>1, <1>2, <1>5, <1>6, <1>7 DEF Commands

(* A track that comes for the present call finds it connecting. *)
LEMMA TrackFindsConnecting ==
  ASSUME Typed, TasksInOrder, AllTruthful, strays = 0, NEW p \in Peers, NEW c \in Generation,
         NEW s, TaskOf("track", p, c, s) \in tasks, IsCurrent(p, c)
  PROVE  calls[p].state = "connecting" /\ calls[p].call = c
<1>1. calls[p].call = c
  BY DEF AllTruthful, Truthful, IsCurrent
<1> DEFINE t == TaskOf("track", p, c, s)
<1>2. t \in tasks /\ t.kind = "track" /\ t.peer = p /\ t.call = c
  BY TaskOfFields
<1> HIDE DEF t
<1> QED
  BY <1>1, <1>2, StateOfTask

LEMMA ConnectReportTruthful ==
  ASSUME Typed, Typed', TasksInOrder, AllTruthful, NEW p \in Peers, NEW c \in Generation,
         ConnectReport(p, c)
  PROVE  AllTruthful'
<1>1. PICK s \in {"ok", "failed"} :
        /\ TaskOf("connect", p, c, s) \in tasks
        /\ \/ ConnectedLate(p, c) /\ tasks' = tasks \ {TaskOf("connect", p, c, s)}
           \/ /\ QuicConnected(p, c)
              /\ tasks' = (tasks \ {TaskOf("connect", p, c, s)})
                            \cup {TaskOf("track", p, c, "running")}
           \/ ConnectFailed(p, c) /\ tasks' = tasks \ {TaskOf("connect", p, c, s)}
  BY DEF ConnectReport
<1> DEFINE r == TaskOf("connect", p, c, s)
<1>2. r \in tasks /\ r.kind = "connect" /\ r.peer = p /\ r.call = c /\ r.stage = s
  BY <1>1 DEF TaskOf
<1> HIDE DEF r
<1>3. strays' = strays /\ aborts' = IF aborts[p] = c THEN [aborts EXCEPT ![p] = 0] ELSE aborts
  BY DEF ConnectReport, boundVars
<1>4. OnlyAt(p)
  BY <1>1, <1>3 DEF OnlyAt, ConnectedLate, QuicConnected, ConnectFailed, Typed, CallTypes, Numbers
<1>5. \A t \in tasks' : t \in tasks \/ (t.kind = "track" /\ t.peer = p)
  BY <1>1, TaskOfFields
<1> SUFFICES ASSUME strays = 0 PROVE Truthful(p)'
  BY <1>3, <1>4, <1>5, OthersTruthful
<1>6. Truthful(p)
  BY DEF AllTruthful
<1>7. ASSUME NEW t \in tasks, DialOf(t, p) PROVE t.call # c
  <2>1. Alone(r) /\ (SameCall(r, t) => r = t)
    BY <1>2, <1>7 DEF TasksInOrder, InOrder, Alone, DialOf
  <2> QED
    BY <1>2, <1>7, <2>1 DEF SameCall, DialOf
<1>8. \A t \in tasks' : DialOf(t, p) => t \in tasks /\ t.call # c
  BY <1>5, <1>7 DEF DialOf
<1>9. CASE ConnectedLate(p, c)
  BY <1>3, <1>6, <1>8, <1>9 DEF ConnectedLate, Truthful, DialOf
<1>10. ASSUME Dialling(p, c), NEW t \in tasks' PROVE ~DialOf(t, p)
  BY <1>6, <1>8, <1>10 DEF Dialling, IsCurrent, Truthful
<1>11. CASE QuicConnected(p, c)
  <2>1. calls'[p] = [state |-> "connecting", call |-> c] /\ generation'[p] = c
          /\ news'[p] = news[p] /\ news[p] = "calling"
    BY <1>6, <1>11 DEF QuicConnected, Dialling, IsCurrent, Typed, CallTypes, Truthful, Label
  <2> QED
    BY <1>10, <1>11, <2>1 DEF QuicConnected, Truthful, Label, DialOf
<1>12. CASE ConnectFailed(p, c)
  <2>1. calls'[p] = NoCall /\ generation'[p] = 0 /\ news'[p] = "none"
    BY <1>12 DEF ConnectFailed, Typed, CallTypes, Numbers
  <2> QED
    BY <1>10, <1>12, <2>1 DEF ConnectFailed, Truthful, Label, NoCall, DialOf
<1> QED
  BY <1>1, <1>9, <1>11, <1>12

LEMMA TrackReportTruthful ==
  ASSUME Typed, Typed', TasksInOrder, AllTruthful, NEW p \in Peers, NEW c \in Generation,
         TrackReport(p, c)
  PROVE  AllTruthful'
<1>1. strays' = strays /\ aborts' = aborts
  BY DEF TrackReport, boundVars
<1> SUFFICES ASSUME strays = 0 PROVE AllTruthful'
  BY <1>1 DEF AllTruthful
<1>2. PICK s \in {"ok", "failed"} :
        LET t == TaskOf("track", p, c, s)
        IN /\ t \in tasks
           /\ \/ /\ ~IsCurrent(p, c) /\ tasks' = tasks \ {t}
                 /\ UNCHANGED <<calls, generation, news>>
              \/ IsCurrent(p, c) /\ calls[p].state # "connecting"
              \/ /\ IsCurrent(p, c) /\ Accepted(p, c, tasks \ {t}, TRUE)
                 /\ UNCHANGED generation
              \/ /\ IsCurrent(p, c)
                 /\ EndCall(p) /\ tasks' = tasks \ {t}
  BY DEF TrackReport
<1>3. Truthful(p) /\ \A q \in Peers : Truthful(q)
  BY DEF AllTruthful
<1>4. CASE ~IsCurrent(p, c)
  <2>1. tasks' \subseteq tasks /\ UNCHANGED <<calls, generation, news, aborts>>
    BY <1>1, <1>2, <1>4
  <2> QED
    BY <1>3, <2>1 DEF AllTruthful, Truthful, DialOf
<1>5. CASE IsCurrent(p, c)
  <2>1. calls[p].state = "connecting"
    BY <1>2, <1>5, TrackFindsConnecting
  <2>2. \A t \in tasks : ~DialOf(t, p)
    BY <1>3, <2>1 DEF Truthful
  <2>3. CASE EndCall(p) /\ tasks' = tasks \ {TaskOf("track", p, c, s)}
    <3>1. Truthful(p)' /\ OnlyAt(p)
      BY <1>1, <2>2, <2>3, EndCallTruthful DEF Typed, CallTypes
    <3> QED
      BY <1>1, <2>3, <3>1, OthersTruthful
  <2>4. CASE Accepted(p, c, tasks \ {TaskOf("track", p, c, s)}, TRUE) /\ UNCHANGED generation
    <3>1. /\ Truthful(p)' /\ OnlyAt(p)
          /\ \A t \in tasks' : t.peer # p => t \in tasks
      BY <1>1, <1>5, <2>2, <2>4, AcceptedTruthful DEF IsCurrent
    <3> QED
      BY <1>1, <3>1, OthersTruthful
  <2> QED
    BY <1>2, <1>5, <2>1, <2>3, <2>4
<1> QED
  BY <1>4, <1>5

LEMMA EndReportsTruthful ==
  ASSUME Typed, Typed', TasksInOrder, AllTruthful, NEW p \in Peers, NEW c \in Generation,
         IncomingReport(p, c) \/ CallReport(p, c)
  PROVE  AllTruthful'
<1>1. strays' = strays /\ aborts' = aborts /\ tasks' \subseteq tasks
  BY DEF IncomingReport, CallReport, boundVars
<1> SUFFICES ASSUME strays = 0 PROVE AllTruthful'
  BY <1>1 DEF AllTruthful
<1>2. Truthful(p) /\ \A q \in Peers : Truthful(q)
  BY DEF AllTruthful
<1>3. CASE UNCHANGED <<calls, generation, news>>
  BY <1>1, <1>2, <1>3 DEF AllTruthful, Truthful, DialOf
<1>4. CASE IncomingReport(p, c) /\ GivesUp(p, c)
  <2>1. calls'[p] = NoCall /\ generation'[p] = 0 /\ news'[p] = "none" /\ OnlyAt(p)
    BY <1>1, <1>4 DEF IncomingReport, OnlyAt, Typed, CallTypes, Numbers
  <2>2. Truthful(p)'
    BY <1>1, <1>2, <1>4, <2>1 DEF GivesUp, Truthful, NoCall, Label, DialOf
  <2> QED
    BY <1>1, <2>1, <2>2, OthersTruthful
<1>5. CASE CallReport(p, c) /\ IsCurrent(p, c)
  <2>1. EndCall(p) /\ TaskOf("call", p, c, "ended") \in tasks /\ calls[p].call = c
    BY <1>2, <1>5 DEF CallReport, IsCurrent, Truthful
  <2>2. calls[p].state = "active"
    <3> DEFINE t == TaskOf("call", p, c, "ended")
    <3>1. t \in tasks /\ t.kind = "call" /\ t.peer = p /\ t.call = c
      BY <2>1, TaskOfFields
    <3> HIDE DEF t
    <3> QED
      BY <2>1, <3>1, StateOfTask
  <2>3. \A t \in tasks : ~DialOf(t, p)
    BY <1>2, <2>2 DEF Truthful
  <2>4. Truthful(p)' /\ OnlyAt(p)
    BY <1>1, <2>1, <2>3, EndCallTruthful DEF Typed, CallTypes
  <2> QED
    BY <1>1, <2>4, OthersTruthful
<1> QED
  BY <1>3, <1>4, <1>5 DEF IncomingReport, CallReport

LEMMA EnvironmentTruthful ==
  ASSUME Typed, AllTruthful, NEW p \in Peers, NEW c \in Generation, Environment(p, c)
  PROVE  AllTruthful'
<1>1. UNCHANGED <<callVars, news, strays>>
  BY DEF Environment, ConnectEnds, TrackEnds, IncomingEnds, HandsBackTrack, CallEnds,
         ConnectionCloses, boundVars
<1>2. tasks' = tasks \/ \E t \in tasks : \E stage \in {"ok", "failed", "ended", "talking"} :
                          tasks' = Becomes(t, stage)
  BY DEF Environment, ConnectEnds, TrackEnds, IncomingEnds, HandsBackTrack, CallEnds,
         ConnectionCloses
<1>3. \A t \in tasks : \A stage : [t EXCEPT !.stage = stage].stage = stage
  BY DEF Typed, TaskTypes, Task
<1>4. \A t \in tasks' : \A q : DialOf(t, q) => t \in tasks
  BY <1>2, <1>3 DEF Becomes, DialOf
<1> QED
  BY <1>1, <1>4 DEF AllTruthful, Truthful, callVars, DialOf

LEMMA StepTruthful ==
  ASSUME Typed, TasksInOrder, AllTruthful, [Next]_vars
  PROVE  AllTruthful'
<1>1. Typed'
  BY StepTyped
<1>2. ASSUME UNCHANGED <<callVars, news, strays, tasks>> PROVE AllTruthful'
  BY <1>2 DEF callVars, AllTruthful, Truthful, DialOf
<1>3. ASSUME NEW targets \in SUBSET Peers, EnterGroupCall(targets)
      PROVE  AllTruthful'
  BY <1>3, DialTruthful DEF EnterGroupCall, boundVars
<1>4. ASSUME \/ UNCHANGED vars
             \/ LeaveGroupCall
             \/ OnVoiceTrack
             \/ \E enabled \in BOOLEAN :
                  SetCallRecording(enabled) \/ SetRecordCallsAutomatically(enabled)
             \/ StartSharing
             \/ StopSharing
             \/ \E p \in Peers : VideoReceiverEnds(p)
      PROVE  UNCHANGED <<callVars, news, strays, tasks>>
  BY <1>4 DEF vars, boundVars, LeaveGroupCall, OnVoiceTrack, SetCallRecording,
              SetRecordCallsAutomatically, StartSharing, StopSharing, VideoReceiverEnds
<1>5. ASSUME NEW p \in Peers, NEW c \in Generation, Reports(p, c) PROVE AllTruthful'
  BY <1>1, <1>5, ConnectReportTruthful, TrackReportTruthful, EndReportsTruthful DEF Reports
<1> QED
  BY <1>1, <1>2, <1>3, <1>4, <1>5, CommandsTruthful, HandleConnectionTruthful,
     EnvironmentTruthful DEF Next

(* What the invariance of the rest is built on. *)
Grounded == Typed /\ AllAttended /\ RecordersInOrder /\ TasksInOrder /\ AllTruthful

LEMMA SpecGrounded == Spec => []Grounded
<1>1. Init => Grounded
  <2> SUFFICES ASSUME Init PROVE Grounded
    OBVIOUS
  <2>1. Typed
    BY InitTyped
  <2>2. AllAttended
    BY DEF Init, AllAttended, Attended, NoCall
  <2>3. RecordersInOrder
    <3>1. \A p \in Peers : generation[p] = 0 /\ speakers[p] = 0 /\ begun = 0
      BY DEF Init, Nobody
    <3> QED
      BY <3>1 DEF RecordersInOrder, Ordered
  <2>4. TasksInOrder
    BY DEF Init, TasksInOrder
  <2>5. AllTruthful
    BY DEF Init, AllTruthful, Truthful, NoCall, Nobody, Label
  <2> QED
    BY <2>1, <2>2, <2>3, <2>4, <2>5 DEF Grounded
<1>2. Grounded /\ [Next]_vars => Grounded'
  BY StepTyped, StepAttended, StepOrdered, StepInOrder, StepTruthful DEF Grounded
<1> QED
  BY <1>1, <1>2, PTL DEF Spec

(***************************************************************************)
(* Hanging up stops the dial: a dial that still runs is of the call that   *)
(* is being made, because its abort handle is kept until it reports        *)
(* (connect_aborts, Command::Abort).                                       *)
(***************************************************************************)
THEOREM DialsAreOfCalls == Spec => []OnlyCallsAreDialled
<1>1. Grounded => OnlyCallsAreDialled
  <2> SUFFICES ASSUME Grounded, strays = 0, NEW p \in Peers, NEW c \in Generation,
                      TaskOf("connect", p, c, "running") \in tasks
               PROVE  calls[p] = [state |-> "calling", call |-> c]
    BY DEF OnlyCallsAreDialled
  <2>1. DialOf(TaskOf("connect", p, c, "running"), p)
          /\ TaskOf("connect", p, c, "running").call = c
    BY DEF DialOf, TaskOf
  <2>2. calls[p].state = "calling" /\ calls[p].call = c
    BY <2>1, Zenon DEF Grounded, AllTruthful, Truthful
  <2>3. calls[p] \in [state : CallInfo, call : Generation]
    BY <2>2 DEF Grounded, Typed, CallTypes, Entry, NoCall
  <2> QED
    BY <2>2, <2>3
<1> QED
  BY <1>1, SpecGrounded, PTL

(***************************************************************************)
(* Every change of an entry is emitted with it: what the screen will show  *)
(* is what the worker holds.                                               *)
(***************************************************************************)
THEOREM ScreenIsToldAlways == Spec => []ScreenIsTold
<1>1. Grounded => ScreenIsTold
  BY DEF Grounded, AllTruthful, Truthful, ScreenIsTold
<1> QED
  BY <1>1, SpecGrounded, PTL

-----------------------------------------------------------------------------
(***************************************************************************)
(* The connections.  A task that has ended saw its connection closed, as   *)
(* long as no call task failed on an open one, and a connection that is    *)
(* open belongs to the present call or to a dial that will be reported.    *)
(***************************************************************************)
EndsAreClosed == errors = 0 =>
  \A t \in tasks : t.stage = "ended" => <<t.peer, t.call>> \notin open

LEMMA BecomesFacts ==
  ASSUME Typed, NEW t \in tasks, NEW stage, tasks' = Becomes(t, stage)
  PROVE  \A u \in tasks' : \/ u \in tasks
                          \/ /\ u.kind = t.kind /\ u.peer = t.peer /\ u.call = t.call
                             /\ u.stage = stage
<1> DEFINE n == [t EXCEPT !.stage = stage]
<1>1. n.kind = t.kind /\ n.peer = t.peer /\ n.call = t.call /\ n.stage = stage
  BY DEF Typed, TaskTypes, Task
<1>2. tasks' = (tasks \ {t}) \cup {n}
  BY DEF Becomes
<1> HIDE DEF n
<1> QED
  BY <1>1, <1>2

LEMMA EndsStayClosed ==
  ASSUME EndsAreClosed, errors' = errors, open' \subseteq open,
         \A t \in tasks' : t.stage = "ended" => t \in tasks
  PROVE  EndsAreClosed'
BY DEF EndsAreClosed

LEMMA EnvironmentEnds ==
  ASSUME Typed, TasksInOrder, EndsAreClosed, NEW p \in Peers, NEW c \in Generation,
         Environment(p, c)
  PROVE  EndsAreClosed'
<1>1. CASE ConnectEnds(p, c)
  <2> DEFINE r == TaskOf("connect", p, c, "running")
  <2>1. r \in tasks /\ r.kind = "connect" /\ r.peer = p /\ r.call = c /\ r.stage = "running"
    BY <1>1 DEF ConnectEnds, TaskOf
  <2>2. errors' = errors /\ open' \subseteq open \cup {<<p, c>>}
          /\ \E stage \in {"ok", "failed"} : tasks' = Becomes(r, stage)
    BY <1>1 DEF ConnectEnds, boundVars
  <2> HIDE DEF r
  <2>3. ASSUME NEW t \in tasks, t.stage = "ended" PROVE ~(t.peer = p /\ t.call = c)
    BY <2>1, <2>3, Zenon DEF TasksInOrder, InOrder, Alone, SameCall
  <2>4. \A t \in tasks' : t.stage = "ended" => t \in tasks
    BY <2>1, <2>2, BecomesFacts
  <2> QED
    BY <2>2, <2>3, <2>4 DEF EndsAreClosed
<1>2. CASE TrackEnds(p, c)
  <2> DEFINE r == TaskOf("track", p, c, "running")
  <2>1. r \in tasks
    BY <1>2 DEF TrackEnds
  <2>2. errors' = errors /\ open' = open
          /\ \E stage \in {"ok", "failed"} : tasks' = Becomes(r, stage)
    BY <1>2 DEF TrackEnds, boundVars
  <2> HIDE DEF r
  <2>3. \A t \in tasks' : t.stage = "ended" => t \in tasks
    BY <2>1, <2>2, BecomesFacts
  <2> QED
    BY <2>2, <2>3, EndsStayClosed
<1>3. CASE HandsBackTrack(p, c)
  <2> DEFINE r == TaskOf("call", p, c, "starting")
  <2>1. r \in tasks /\ errors' = errors /\ open' = open /\ tasks' = Becomes(r, "talking")
    BY <1>3 DEF HandsBackTrack, boundVars
  <2> HIDE DEF r
  <2>2. \A t \in tasks' : t.stage = "ended" => t \in tasks
    BY <2>1, BecomesFacts
  <2> QED
    BY <2>1, <2>2, EndsStayClosed
<1>4. ASSUME NEW r \in tasks, r.peer = p, r.call = c, <<p, c>> \notin open,
             tasks' = Becomes(r, "ended"), open' = open, errors' = errors
      PROVE  EndsAreClosed'
  <2>1. \A u \in tasks' : u \in tasks \/ (u.peer = p /\ u.call = c)
    BY <1>4, BecomesFacts
  <2> QED
    BY <1>4, <2>1 DEF EndsAreClosed
<1>5. CASE IncomingEnds(p, c)
  <2> DEFINE r == TaskOf("incoming", p, c, "running")
  <2>1. r \in tasks /\ r.peer = p /\ r.call = c
    BY <1>5 DEF IncomingEnds, TaskOf
  <2>2. <<p, c>> \notin open /\ tasks' = Becomes(r, "ended") /\ open' = open /\ errors' = errors
    BY <1>5 DEF IncomingEnds, boundVars
  <2> HIDE DEF r
  <2> QED
    BY <1>4, <2>1, <2>2
<1>6. CASE CallEnds(p, c)
  <2>1. PICK r \in tasks :
          /\ r \in {TaskOf("call", p, c, s) : s \in {"starting", "talking"}}
          /\ \/ <<p, c>> \notin open /\ errors' = errors
             \/ errors' = errors + 1
          /\ tasks' = Becomes(r, "ended") /\ open' = open
    BY <1>6 DEF CallEnds
  <2>2. r.peer = p /\ r.call = c
    BY <2>1, TaskOfFields
  <2>3. errors \in Nat
    BY Bounds DEF Typed, FlagTypes
  <2>4. CASE errors' = errors + 1
    BY <2>3, <2>4 DEF EndsAreClosed
  <2> QED
    BY <1>4, <2>1, <2>2, <2>4
<1>7. CASE ConnectionCloses(p, c)
  BY <1>7, EndsStayClosed DEF ConnectionCloses, boundVars
<1> QED
  BY <1>1, <1>2, <1>3, <1>5, <1>6, <1>7 DEF Environment

LEMMA HandleConnectionEnds ==
  ASSUME Typed, TasksInOrder, EndsAreClosed, NEW p \in Peers, HandleConnection(p)
  PROVE  EndsAreClosed'
<1> DEFINE c == FirstCall
<1>1. begun \in Nat /\ begun < c
  BY Bounds DEF FirstCall, Typed, CallTypes
<1>2. errors' = errors /\ open' \subseteq open \cup {<<p, c>>}
  BY DEF HandleConnection, boundVars
<1>3. \A t \in tasks' : t.stage = "ended" => t \in tasks
  <2>1. \/ tasks' \subseteq tasks \cup {TaskOf("call", p, c, "starting")}
        \/ tasks' \subseteq tasks \cup {TaskOf("incoming", p, c, "running")}
    BY DEF HandleConnection, Accepted
  <2> QED
    BY <2>1 DEF TaskOf
<1>4. \A t \in tasks : t.call <= begun /\ t.call \in Nat
  BY TaskTypedFields DEF TasksInOrder, InOrder, Typed, TaskTypes
<1>5. \A t \in tasks : t.call # c
  BY <1>1, <1>4 DEF FirstCall
<1> HIDE DEF c
<1> QED
  BY <1>2, <1>3, <1>5 DEF EndsAreClosed

LEMMA StepEnds ==
  ASSUME Grounded, EndsAreClosed, [Next]_vars
  PROVE  EndsAreClosed'
<1>1. ASSUME NEW p \in Peers, NEW c \in Generation, Reports(p, c)
      PROVE  EndsAreClosed'
  <2>1. errors' = errors
    BY <1>1 DEF Reports, ConnectReport, TrackReport, IncomingReport, CallReport, boundVars
  <2>2. open' \subseteq open
    BY <1>1 DEF Reports, ConnectReport, ConnectedLate, ClosedLate, QuicConnected, ConnectFailed,
                TrackReport, IncomingReport, CallReport
  <2>3. \E k \in {"track", "call"} : \E s \in {"running", "starting"} :
          tasks' \subseteq tasks \cup {TaskOf(k, p, c, s)}
    BY <1>1 DEF Reports, ConnectReport, TrackReport, IncomingReport, CallReport, Accepted
  <2>4. \A t \in tasks' : t.stage = "ended" => t \in tasks
    BY <2>3 DEF TaskOf
  <2> QED
    BY <2>1, <2>2, <2>4, EndsStayClosed
<1>2. ASSUME NEW targets \in SUBSET Peers, Dial(targets), errors' = errors, open' = open
      PROVE  EndsAreClosed'
  <2>1. \A t \in tasks' \ tasks : t.stage = "running"
    BY <1>2, DialFacts DEF Begins, TaskOf, Grounded
  <2> QED
    BY <1>2, <2>1, EndsStayClosed
<1>3. ASSUME NEW p \in Peers, Commands(p)
      PROVE  EndsAreClosed'
  <2>1. CASE Call(p)
    BY <1>2, <2>1 DEF Call, boundVars
  <2>2. CASE Answer(p)
    <3>1. tasks' \subseteq tasks \cup {TaskOf("call", p, calls[p].call, "starting")}
      BY <2>2 DEF Answer, Accepted
    <3>2. \A t \in tasks' : t.stage = "ended" => t \in tasks
      BY <3>1 DEF TaskOf
    <3> QED
      BY <2>2, <3>2, EndsStayClosed DEF Answer, boundVars
  <2>3. CASE StrayAnswer(p) \/ Reject(p) \/ Abort(p)
    <3>1. errors' = errors /\ open' \subseteq open /\ tasks' \subseteq tasks
      BY <2>3 DEF StrayAnswer, Reject, Abort, AbortedDial, boundVars
    <3> QED
      BY <3>1, EndsStayClosed
  <2> QED
    BY <1>3, <2>1, <2>2, <2>3 DEF Commands
<1>4. ASSUME NEW targets \in SUBSET Peers, EnterGroupCall(targets)
      PROVE  EndsAreClosed'
  BY <1>2, <1>4 DEF EnterGroupCall, boundVars
<1>5. ASSUME UNCHANGED <<errors, open, tasks>>
      PROVE  EndsAreClosed'
  BY <1>5, EndsStayClosed
<1>6. ASSUME \/ UNCHANGED vars
             \/ LeaveGroupCall
             \/ OnVoiceTrack
             \/ \E enabled \in BOOLEAN :
                  SetCallRecording(enabled) \/ SetRecordCallsAutomatically(enabled)
             \/ StartSharing
             \/ StopSharing
             \/ \E p \in Peers : VideoReceiverEnds(p)
      PROVE  UNCHANGED <<errors, open, tasks>>
  BY <1>6 DEF vars, boundVars, LeaveGroupCall, OnVoiceTrack, SetCallRecording,
              SetRecordCallsAutomatically, StartSharing, StopSharing, VideoReceiverEnds
<1> QED
  BY <1>1, <1>3, <1>4, <1>5, <1>6, HandleConnectionEnds, EnvironmentEnds DEF Next, Grounded

Held(p, c) ==
  <<p, c>> \in open =>
    \/ calls[p].call = c /\ calls[p].state # "calling"
    \/ TaskOf("connect", p, c, "ok") \in tasks

(* What is open after a step at one peer was open and held before, but at that
   peer. *)
LEMMA OthersHeld ==
  ASSUME NoConnectionIsOrphaned, errors' = errors, strays' = strays, NEW p \in Peers,
         \A q \in Peers \ {p} : calls'[q] = calls[q],
         \A q \in Peers \ {p}, c \in Generation : <<q, c>> \in open' =>
           /\ <<q, c>> \in open
           /\ TaskOf("connect", q, c, "ok") \in tasks => TaskOf("connect", q, c, "ok") \in tasks',
         errors = 0 /\ strays = 0 => \A c \in Generation : Held(p, c)'
  PROVE  NoConnectionIsOrphaned'
BY DEF NoConnectionIsOrphaned, Held

LEMMA DialHeld ==
  ASSUME Typed, NoConnectionIsOrphaned, NEW targets \in SUBSET Peers, Dial(targets),
         \A p \in targets : calls[p] = NoCall, open' = open, errors' = errors, strays' = strays
  PROVE  NoConnectionIsOrphaned'
<1> SUFFICES ASSUME errors = 0, strays = 0, NEW p \in Peers, NEW c \in Generation
             PROVE  Held(p, c)'
  BY DEF NoConnectionIsOrphaned, Held
<1>1. Held(p, c) /\ c # 0
  BY DEF NoConnectionIsOrphaned, Held, Generation
<1>2. tasks \subseteq tasks' /\ (p \notin targets => calls'[p] = calls[p])
  BY DialFacts DEF Begins
<1> QED
  BY <1>1, <1>2 DEF Held, NoCall

LEMMA HandleConnectionHeld ==
  ASSUME Typed, NoConnectionIsOrphaned, NEW p \in Peers, HandleConnection(p)
  PROVE  NoConnectionIsOrphaned'
<1> DEFINE n == FirstCall
<1>1. errors' = errors /\ strays' = strays /\ calls[p] = NoCall
  BY DEF HandleConnection, boundVars
<1>2. /\ calls'[p].call = n /\ calls'[p].state \in {"active", "incoming"}
      /\ \A q \in Peers \ {p} : calls'[q] = calls[q]
  <2>1. \E s \in {"active", "incoming"} :
          calls' = [calls EXCEPT ![p] = [state |-> s, call |-> n]]
    BY DEF HandleConnection, Accepted
  <2> HIDE DEF n
  <2> QED
    BY <2>1 DEF Typed, CallTypes
<1>3. /\ open' \subseteq open \cup {<<p, n>>}
      /\ open' = {} \/ tasks \subseteq tasks'
  BY DEF HandleConnection, Accepted
<1> HIDE DEF n
<1>4. ASSUME errors = 0, strays = 0, NEW c \in Generation PROVE Held(p, c)'
  <2>1. Held(p, c) /\ c # 0
    BY <1>4 DEF NoConnectionIsOrphaned, Held, Generation
  <2> QED
    BY <1>1, <1>2, <1>3, <2>1 DEF Held, NoCall
<1> QED
  BY <1>1, <1>2, <1>3, <1>4, OthersHeld

LEMMA CommandsHeld ==
  ASSUME Grounded, NoConnectionIsOrphaned, NEW p \in Peers, Commands(p)
  PROVE  NoConnectionIsOrphaned'
<1>1. Typed
  BY DEF Grounded
<1>2. CASE Call(p)
  BY <1>1, <1>2, DialHeld DEF Call, boundVars
<1>3. CASE StrayAnswer(p)
  BY <1>1, <1>3 DEF StrayAnswer, NoConnectionIsOrphaned, Typed, FlagTypes
<1>4. ASSUME errors = 0, strays = 0, NEW c \in Generation PROVE Held(p, c)
  BY <1>4 DEF NoConnectionIsOrphaned, Held
<1>5. CASE Answer(p)
  <2>1. /\ calls'[p].call = calls[p].call /\ calls'[p].state = "active"
        /\ \A q \in Peers \ {p} : calls'[q] = calls[q]
        /\ tasks \subseteq tasks' /\ UNCHANGED <<open, errors, strays>>
    BY <1>1, <1>5 DEF Answer, Accepted, Typed, CallTypes, boundVars
  <2>2. ASSUME errors = 0, strays = 0, NEW c \in Generation PROVE Held(p, c)'
    BY <1>4, <2>1, <2>2 DEF Held
  <2> QED
    BY <2>1, <2>2, OthersHeld
<1>6. CASE Reject(p) \/ Abort(p)
  <2>1. /\ UNCHANGED <<errors, strays>>
        /\ open' = open \/ open' = open \ {<<p, calls[p].call>>}
        /\ calls[p].state # "calling" => open' = open \ {<<p, calls[p].call>>}
        /\ \A q \in Peers \ {p} : calls'[q] = calls[q]
    BY <1>1, <1>6 DEF Reject, Abort, boundVars, EndCall, Typed, CallTypes
  <2>2. \A q, c : TaskOf("connect", q, c, "ok") \in tasks => TaskOf("connect", q, c, "ok") \in tasks'
    BY <1>6 DEF Reject, Abort, AbortedDial, TaskOf
  <2>3. ASSUME errors = 0, strays = 0, NEW c \in Generation PROVE Held(p, c)'
    BY <1>4, <2>1, <2>2, <2>3 DEF Held
  <2> QED
    BY <2>1, <2>2, <2>3, OthersHeld
<1> QED
  BY <1>2, <1>3, <1>5, <1>6 DEF Commands

LEMMA ConnectReportHeld ==
  ASSUME Grounded, NoConnectionIsOrphaned, NEW p \in Peers, NEW c \in Generation,
         ConnectReport(p, c)
  PROVE  NoConnectionIsOrphaned'
<1>1. Typed /\ TasksInOrder
  BY DEF Grounded
<1>2. PICK s \in {"ok", "failed"} :
        LET t == TaskOf("connect", p, c, s)
        IN /\ t \in tasks
           /\ tasks \ {t} \subseteq tasks'
           /\ \/ ConnectedLate(p, c)
              \/ s = "ok" /\ QuicConnected(p, c)
              \/ s = "failed" /\ ConnectFailed(p, c)
  BY DEF ConnectReport
<1>3. UNCHANGED <<errors, strays>>
  BY DEF ConnectReport, boundVars
<1>4. \A q \in Peers \ {p} : calls'[q] = calls[q]
  BY <1>1, <1>2 DEF ConnectedLate, QuicConnected, ConnectFailed, Typed, CallTypes
<1>5. open' \subseteq open
  BY <1>2 DEF ConnectedLate, QuicConnected, ConnectFailed, ClosedLate
<1>6. \A q, d : TaskOf("connect", q, d, "ok") \in tasks /\ ~(q = p /\ d = c)
                  => TaskOf("connect", q, d, "ok") \in tasks'
  BY <1>2, TaskOfFields
<1>7. ASSUME errors = 0, strays = 0, NEW d \in Generation PROVE Held(p, d)'
  <2>1. Held(p, d)
    BY <1>7 DEF NoConnectionIsOrphaned, Held
  <2>2. CASE ConnectedLate(p, c)
    BY <1>5, <1>6, <2>1, <2>2 DEF ConnectedLate, ClosedLate, Held
  <2>3. CASE s = "ok" /\ QuicConnected(p, c)
    <3>1. calls'[p].call = c /\ calls'[p].state = "connecting"
      BY <1>1, <2>3 DEF QuicConnected, Typed, CallTypes
    <3> QED
      BY <1>5, <1>6, <2>1, <2>3, <3>1 DEF QuicConnected, Dialling, Held
  <2>4. CASE s = "failed" /\ ConnectFailed(p, c)
    <3>1. TaskOf("connect", p, c, "ok") \notin tasks
      <4> DEFINE t == TaskOf("connect", p, c, "failed")
                 u == TaskOf("connect", p, c, "ok")
      <4>1. /\ t.kind = "connect" /\ t.peer = p /\ t.call = c /\ t.stage = "failed"
            /\ u.kind = "connect" /\ u.peer = p /\ u.call = c /\ u.stage = "ok"
        BY DEF TaskOf
      <4>2. Alone(t)
        BY <1>1, <1>2, <2>4 DEF TasksInOrder, InOrder
      <4> HIDE DEF t, u
      <4>3. u \notin tasks
        BY <4>1, <4>2 DEF Alone, SameCall
      <4> QED
        BY <4>3 DEF u
    <3> QED
      BY <1>5, <1>6, <2>1, <2>4, <3>1 DEF ConnectFailed, Dialling, Held
  <2> QED
    BY <1>2, <2>2, <2>3, <2>4
<1> QED
  BY <1>3, <1>4, <1>5, <1>6, <1>7, OthersHeld

LEMMA TrackReportHeld ==
  ASSUME Grounded, NoConnectionIsOrphaned, NEW p \in Peers, NEW c \in Generation,
         TrackReport(p, c)
  PROVE  NoConnectionIsOrphaned'
<1>1. Typed /\ TasksInOrder /\ AllTruthful
  BY DEF Grounded
<1>2. PICK s \in {"ok", "failed"} :
        LET t == TaskOf("track", p, c, s)
        IN /\ t \in tasks
           /\ open' = {} \/ tasks \ {t} \subseteq tasks'
           /\ \/ calls' = calls /\ open' = open
              \/ IsCurrent(p, c) /\ calls[p].state # "connecting" /\ open' = open
                   /\ calls' = [calls EXCEPT ![p] = NoCall]
              \/ /\ IsCurrent(p, c) /\ Accepted(p, c, tasks \ {t}, TRUE)
                 /\ open' = IF running' THEN open ELSE {}
              \/ IsCurrent(p, c) /\ open' = open \ {<<p, c>>} /\ EndCall(p)
  BY DEF TrackReport, Accepted
<1>3. UNCHANGED <<errors, strays>>
  BY DEF TrackReport, boundVars
<1>4. \A q \in Peers \ {p} : calls'[q] = calls[q]
  BY <1>1, <1>2 DEF Accepted, EndCall, Typed, CallTypes
<1>5. open' \subseteq open
  BY <1>2
<1>6. open' = {} \/ \A q, d : TaskOf("connect", q, d, "ok") \in tasks
                                => TaskOf("connect", q, d, "ok") \in tasks'
  BY <1>2, TaskOfFields
<1>7. ASSUME errors = 0, strays = 0, NEW d \in Generation PROVE Held(p, d)'
  <2>1. Held(p, d)
    BY <1>7 DEF NoConnectionIsOrphaned, Held
  <2>2. CASE calls' = calls
    BY <1>5, <1>6, <2>1, <2>2 DEF Held
  <2>3. CASE IsCurrent(p, c)
    <3>1. calls[p].state = "connecting" /\ calls[p].call = c
      BY <1>1, <1>2, <1>7, <2>3, TrackFindsConnecting
    <3>2. CASE Accepted(p, c, tasks \ {TaskOf("track", p, c, s)}, TRUE)
      <4>1. calls'[p].call = c /\ calls'[p].state = "active"
        BY <1>1, <3>2 DEF Accepted, Typed, CallTypes
      <4> QED
        BY <1>5, <1>6, <2>1, <3>1, <4>1 DEF Held
    <3>3. CASE open' = open \ {<<p, c>>}
      BY <1>6, <2>1, <3>1, <3>3 DEF Held
    <3> QED
      BY <1>2, <2>2, <3>1, <3>2, <3>3
  <2> QED
    BY <1>2, <2>2, <2>3
<1> QED
  BY <1>3, <1>4, <1>5, <1>6, <1>7, OthersHeld

(* A call that ends by itself has closed its connection. *)
LEMMA EndReportsHeld ==
  ASSUME Grounded, EndsAreClosed, NoConnectionIsOrphaned,
         NEW p \in Peers, NEW c \in Generation, IncomingReport(p, c) \/ CallReport(p, c)
  PROVE  NoConnectionIsOrphaned'
<1>1. Typed /\ AllTruthful
  BY DEF Grounded
<1>2. UNCHANGED <<errors, strays, open>>
  BY DEF IncomingReport, CallReport, boundVars
<1>3. \E k \in {"incoming", "call"} : /\ TaskOf(k, p, c, "ended") \in tasks
                                      /\ tasks' = tasks \ {TaskOf(k, p, c, "ended")}
  BY DEF IncomingReport, CallReport
<1>4. \A q, d : TaskOf("connect", q, d, "ok") \in tasks => TaskOf("connect", q, d, "ok") \in tasks'
  BY <1>3, TaskOfFields
<1>5. errors = 0 => <<p, c>> \notin open
  BY <1>3 DEF EndsAreClosed, TaskOf
<1>6. \/ calls' = calls
      \/ IsCurrent(p, c) /\ calls' = [calls EXCEPT ![p] = NoCall]
  BY DEF IncomingReport, CallReport, GivesUp, EndCall
<1>7. \A q \in Peers \ {p} : calls'[q] = calls[q]
  BY <1>1, <1>6 DEF Typed, CallTypes
<1>8. ASSUME errors = 0, strays = 0, NEW d \in Generation PROVE Held(p, d)'
  <2>1. Held(p, d)
    BY <1>8 DEF NoConnectionIsOrphaned, Held
  <2>2. calls' = calls \/ calls[p].call = c
    BY <1>1, <1>6, <1>8 DEF AllTruthful, Truthful, IsCurrent
  <2> QED
    BY <1>2, <1>4, <1>5, <1>8, <2>1, <2>2 DEF Held
<1> QED
  BY <1>2, <1>4, <1>7, <1>8, OthersHeld

LEMMA EnvironmentHeld ==
  ASSUME Grounded, NoConnectionIsOrphaned, NEW p \in Peers, NEW c \in Generation,
         Environment(p, c)
  PROVE  NoConnectionIsOrphaned'
<1>1. Typed
  BY DEF Grounded
<1>2. calls' = calls /\ strays' = strays
  BY DEF Environment, ConnectEnds, TrackEnds, IncomingEnds, HandsBackTrack, CallEnds,
         ConnectionCloses, callVars, boundVars
<1>3. errors' = errors \/ errors' = errors + 1
  BY DEF Environment, ConnectEnds, TrackEnds, IncomingEnds, HandsBackTrack, CallEnds,
         ConnectionCloses, boundVars
<1>4. errors \in Nat
  BY <1>1, Bounds DEF Typed, FlagTypes
<1> SUFFICES ASSUME errors = 0, strays = 0, errors' = errors, NEW q \in Peers, NEW d \in Generation
             PROVE  Held(q, d)'
  BY <1>2, <1>3, <1>4 DEF NoConnectionIsOrphaned, Held
<1>5. Held(q, d)
  BY DEF NoConnectionIsOrphaned, Held
<1>6. /\ open' \subseteq open \/ \E t : /\ t = TaskOf("connect", p, c, "running")
                                        /\ tasks' = Becomes(t, "ok")
                                        /\ open' = open \cup {<<p, c>>}
      /\ tasks' = tasks \/ \E k \in {"connect", "track", "incoming", "call"} :
                             \E r \in {"running", "starting", "talking"} : \E stage :
                               tasks' = Becomes(TaskOf(k, p, c, r), stage)
  BY DEF Environment, ConnectEnds, TrackEnds, IncomingEnds, HandsBackTrack, CallEnds,
         ConnectionCloses
<1>7. TaskOf("connect", q, d, "ok") \in tasks => TaskOf("connect", q, d, "ok") \in tasks'
  <2>1. \A k, r : r \in {"running", "starting", "talking"} =>
          TaskOf("connect", q, d, "ok") # TaskOf(k, p, c, r)
    BY DEF TaskOf
  <2> QED
    BY <1>6, <2>1 DEF Becomes
<1>8. CASE open' \subseteq open
  BY <1>2, <1>5, <1>7, <1>8 DEF Held
<1>9. CASE /\ tasks' = Becomes(TaskOf("connect", p, c, "running"), "ok")
           /\ open' = open \cup {<<p, c>>}
  <2>1. [TaskOf("connect", p, c, "running") EXCEPT !.stage = "ok"] = TaskOf("connect", p, c, "ok")
    BY DEF TaskOf
  <2>2. TaskOf("connect", p, c, "ok") \in tasks'
    BY <1>9, <2>1 DEF Becomes
  <2> QED
    BY <1>2, <1>5, <1>7, <1>9, <2>2 DEF Held
<1> QED
  BY <1>6, <1>8, <1>9

LEMMA StepHeld ==
  ASSUME Grounded, EndsAreClosed, NoConnectionIsOrphaned, [Next]_vars
  PROVE  NoConnectionIsOrphaned'
<1>1. ASSUME NEW targets \in SUBSET Peers, EnterGroupCall(targets)
      PROVE  NoConnectionIsOrphaned'
  BY <1>1, DialHeld DEF EnterGroupCall, boundVars, Grounded
<1>2. ASSUME UNCHANGED <<calls, errors, strays, open, tasks>>
      PROVE  NoConnectionIsOrphaned'
  BY <1>2 DEF NoConnectionIsOrphaned
<1>3. ASSUME \/ UNCHANGED vars
             \/ LeaveGroupCall
             \/ OnVoiceTrack
             \/ \E enabled \in BOOLEAN :
                  SetCallRecording(enabled) \/ SetRecordCallsAutomatically(enabled)
             \/ StartSharing
             \/ StopSharing
             \/ \E p \in Peers : VideoReceiverEnds(p)
      PROVE  UNCHANGED <<calls, errors, strays, open, tasks>>
  BY <1>3 DEF vars, callVars, boundVars, LeaveGroupCall, OnVoiceTrack, SetCallRecording,
              SetRecordCallsAutomatically, StartSharing, StopSharing, VideoReceiverEnds
<1>4. ASSUME NEW p \in Peers, HandleConnection(p) PROVE NoConnectionIsOrphaned'
  BY <1>4, HandleConnectionHeld DEF Grounded
<1>5. ASSUME NEW p \in Peers, NEW c \in Generation, Reports(p, c)
      PROVE  NoConnectionIsOrphaned'
  BY <1>5, ConnectReportHeld, TrackReportHeld, EndReportsHeld DEF Reports
<1> QED
  BY <1>1, <1>2, <1>3, <1>4, <1>5, CommandsHeld, EnvironmentHeld DEF Next

LEMMA SpecEnds == Spec => []EndsAreClosed
<1>1. Init => EndsAreClosed
  BY DEF Init, EndsAreClosed
<1>2. Grounded /\ EndsAreClosed /\ [Next]_vars => EndsAreClosed'
  BY StepEnds
<1> QED
  BY <1>1, <1>2, SpecGrounded, PTL DEF Spec

(***************************************************************************)
(* No connection stays open behind the user's back: whichever way hanging  *)
(* up meets a dial that has just come through, an answer or the end of a   *)
(* call, the handlers of worker.rs close what no entry holds.              *)
(***************************************************************************)
THEOREM ConnectionsAreHeld == Spec => []NoConnectionIsOrphaned
<1>1. Init => NoConnectionIsOrphaned
  BY DEF Init, NoConnectionIsOrphaned
<1>2. Grounded /\ EndsAreClosed /\ NoConnectionIsOrphaned /\ [Next]_vars
        => NoConnectionIsOrphaned'
  BY StepHeld
<1> QED
  BY <1>1, <1>2, SpecGrounded, SpecEnds, PTL DEF Spec

-----------------------------------------------------------------------------
(***************************************************************************)
(* Video.                                                                  *)
(***************************************************************************)
Filmed(p) ==
  LET c == calls[p].call
      active == calls[p].state = "active"
  IN /\ senders[p] = IF active /\ sharing THEN c ELSE 0
     /\ ~active => receivers[p] = 0
     /\ active /\ <<p, c>> \in open => receivers[p] = c

LEMMA OthersFilmed ==
  ASSUME VideoFollowsTheCalls, audio' = audio, strays' = strays, NEW p \in Peers,
         \A q \in Peers \ {p} :
           /\ calls'[q] = calls[q] /\ receivers'[q] = receivers[q]
           /\ <<q, calls[q].call>> \in open' => <<q, calls[q].call>> \in open,
         \/ /\ sharing' = sharing
            /\ \A q \in Peers \ {p} : senders'[q] = senders[q]
         \/ /\ ~sharing'
            /\ \A q \in Peers \ {p} : senders'[q] = 0,
         audio /\ strays = 0 => Filmed(p)'
  PROVE  VideoFollowsTheCalls'
<1> SUFFICES ASSUME audio, strays = 0, NEW q \in Peers \ {p} PROVE Filmed(q)'
  BY DEF VideoFollowsTheCalls, Filmed
<1>1. Filmed(q)
  BY DEF VideoFollowsTheCalls, Filmed
<1> QED
  BY <1>1 DEF Filmed

LEMMA EndCallFilmed ==
  ASSUME Typed, VideoFollowsTheCalls, NEW p \in Peers, EndCall(p), audio' = audio,
         strays' = strays, open' \subseteq open
  PROVE  VideoFollowsTheCalls'
<1>1. /\ calls'[p] = NoCall /\ receivers'[p] = 0
      /\ \A q \in Peers \ {p} : calls'[q] = calls[q] /\ receivers'[q] = receivers[q]
  BY DEF EndCall, RemovedVideoPeer, Typed, CallTypes, VideoTypes, Numbers
<1>2. \/ ~sharing' /\ senders' = Nobody
      \/ sharing' = sharing /\ senders' = [senders EXCEPT ![p] = 0]
  BY DEF EndCall, CleanupAfterCallEnd, RemovedVideoPeer, Typed, VideoTypes
<1>3. /\ senders'[p] = 0
      /\ \/ ~sharing' /\ \A q \in Peers \ {p} : senders'[q] = 0
         \/ sharing' = sharing /\ \A q \in Peers \ {p} : senders'[q] = senders[q]
  BY <1>2 DEF Nobody, Typed, VideoTypes, Numbers
<1>4. Filmed(p)'
  BY <1>1, <1>3 DEF Filmed, NoCall
<1> QED
  BY <1>1, <1>3, <1>4, OthersFilmed

LEMMA AcceptedFilmed ==
  ASSUME Typed, VideoFollowsTheCalls, NEW p \in Peers, NEW c \in Generation, NEW rest,
         NEW inLoop \in BOOLEAN, Accepted(p, c, rest, inLoop), audio' = audio,
         strays' = strays, calls[p].state # "active", open' \subseteq open \cup {<<p, c>>}
  PROVE  VideoFollowsTheCalls'
<1> SUFFICES ASSUME audio PROVE VideoFollowsTheCalls'
  BY DEF VideoFollowsTheCalls
<1>1. /\ calls'[p] = [state |-> "active", call |-> c]
      /\ \A q \in Peers \ {p} : calls'[q] = calls[q]
  BY DEF Accepted, Typed, CallTypes
<1>2. EnsureVideoStreams(p, c)
  BY DEF Accepted
<1>3. /\ sharing' = sharing
      /\ \A q \in Peers \ {p} : senders'[q] = senders[q] /\ receivers'[q] = receivers[q]
      /\ senders'[p] = IF sharing THEN c ELSE senders[p]
      /\ receivers[p] = 0 => receivers'[p] = c
  BY <1>2 DEF EnsureVideoStreams, Typed, VideoTypes, Numbers
<1>4. ASSUME strays = 0 PROVE Filmed(p)'
  <2>1. senders[p] = 0 /\ receivers[p] = 0
    BY <1>4 DEF VideoFollowsTheCalls
  <2> QED
    BY <1>1, <1>3, <2>1 DEF Filmed
<1> QED
  BY <1>1, <1>3, <1>4, OthersFilmed

(* A step that moves a call between states that have no video, or none. *)
LEMMA UnfilmedMoves ==
  ASSUME Typed, VideoFollowsTheCalls, strays = 0 => strays' = 0, audio' = audio, videoVars' = videoVars,
         \A p \in Peers :
           \/ calls'[p] = calls[p]
                /\ (calls[p].state = "active" /\ <<p, calls[p].call>> \in open'
                      => <<p, calls[p].call>> \in open)
           \/ calls[p].state # "active" /\ calls'[p].state # "active",
         strays' = 0 => strays = 0
  PROVE  VideoFollowsTheCalls'
<1> SUFFICES ASSUME audio, strays = 0, NEW p \in Peers PROVE Filmed(p)'
  BY DEF VideoFollowsTheCalls, Filmed
<1>1. Filmed(p)
  BY DEF VideoFollowsTheCalls, Filmed
<1>2. sharing' = sharing /\ senders' = senders /\ receivers' = receivers
  BY DEF videoVars
<1> QED
  BY <1>1, <1>2 DEF Filmed

LEMMA DialFilmed ==
  ASSUME Typed, VideoFollowsTheCalls, NEW targets \in SUBSET Peers, Dial(targets),
         \A p \in targets : calls[p] = NoCall, UNCHANGED <<videoVars, open, audio, strays>>
  PROVE  VideoFollowsTheCalls'
<1>1. ASSUME NEW p \in Peers
      PROVE  \/ calls'[p] = calls[p]
             \/ calls[p].state # "active" /\ calls'[p].state # "active"
  BY DialFacts DEF Begins, NoCall
<1> QED
  BY <1>1, UnfilmedMoves

LEMMA SharingFilmed ==
  ASSUME Typed, VideoFollowsTheCalls,
         StartSharing \/ StopSharing \/ (\E p \in Peers : VideoReceiverEnds(p))
  PROVE  VideoFollowsTheCalls'
<1>1. UNCHANGED <<calls, audio, strays, open>>
  BY DEF StartSharing, StopSharing, VideoReceiverEnds, callVars, boundVars
<1> SUFFICES ASSUME audio, strays = 0, NEW p \in Peers PROVE Filmed(p)'
  BY <1>1 DEF VideoFollowsTheCalls, Filmed
<1>2. Filmed(p)
  BY DEF VideoFollowsTheCalls, Filmed
<1>3. CASE StartSharing
  <2>1. /\ sharing' /\ ~sharing
        /\ senders'[p] = IF calls[p].state = "active" THEN calls[p].call ELSE senders[p]
        /\ receivers'[p] = IF calls[p].state = "active" /\ receivers[p] = 0
                           THEN calls[p].call ELSE receivers[p]
    BY <1>3 DEF StartSharing
  <2> QED
    BY <1>1, <1>2, <2>1 DEF Filmed
<1>4. CASE StopSharing
  <2>1. ~sharing' /\ senders'[p] = 0 /\ receivers' = receivers
    BY <1>4 DEF StopSharing, Nobody
  <2> QED
    BY <1>1, <1>2, <2>1 DEF Filmed
<1>5. ASSUME NEW q \in Peers, VideoReceiverEnds(q) PROVE Filmed(p)'
  <2>1. /\ <<q, receivers[q]>> \notin open /\ receivers' = [receivers EXCEPT ![q] = 0]
        /\ sharing' = sharing /\ senders' = senders
    BY <1>5 DEF VideoReceiverEnds
  <2>2. receivers'[p] = receivers[p] \/ (receivers'[p] = 0 /\ <<p, receivers[p]>> \notin open)
    BY <2>1 DEF Typed, VideoTypes, Numbers
  <2> QED
    BY <1>1, <1>2, <2>1, <2>2 DEF Filmed
<1> QED
  BY <1>3, <1>4, <1>5

LEMMA CommandsFilmed ==
  ASSUME Typed, VideoFollowsTheCalls, NEW p \in Peers, Commands(p) \/ HandleConnection(p)
  PROVE  VideoFollowsTheCalls'
<1>1. CASE Call(p)
  BY <1>1, DialFilmed DEF Call, boundVars
<1>2. CASE StrayAnswer(p)
  BY <1>2 DEF StrayAnswer, VideoFollowsTheCalls, Typed, FlagTypes
<1>3. CASE Answer(p)
  <2>1. calls[p].call \in Generation
    BY <1>3, EntryFacts DEF Answer, Typed, CallTypes
  <2>2. /\ Accepted(p, calls[p].call, tasks, FALSE) /\ UNCHANGED <<open, audio, strays>>
        /\ calls[p].state = "incoming"
    BY <1>3 DEF Answer, boundVars
  <2> QED
    BY <2>1, <2>2, AcceptedFilmed
<1>4. CASE Reject(p) \/ Abort(p)
  BY <1>4, EndCallFilmed DEF Reject, Abort, boundVars
<1>5. CASE HandleConnection(p)
  <2> DEFINE c == FirstCall
  <2>1. c \in Generation
    BY <1>5, Bounds DEF HandleConnection, FirstCall, Typed, CallTypes, Generation
  <2>2. UNCHANGED <<audio, strays>> /\ calls[p].state = "none"
    BY <1>5 DEF HandleConnection, boundVars, NoCall
  <2>5. open' \subseteq open \cup {<<p, c>>}
    BY <1>5 DEF HandleConnection
  <2>3. CASE room /\ p \in Mates
    <3>1. Accepted(p, c, tasks, TRUE)
      BY <1>5, <2>3 DEF HandleConnection
    <3> HIDE DEF c
    <3> QED
      BY <2>1, <2>2, <2>5, <3>1, AcceptedFilmed
  <2>4. CASE ~(room /\ p \in Mates)
    <3>1. calls' = [calls EXCEPT ![p] = [state |-> "incoming", call |-> c]] /\ videoVars' = videoVars
      BY <1>5, <2>4 DEF HandleConnection
    <3> HIDE DEF c
    <3>2. calls'[p].state = "incoming" /\ \A q \in Peers \ {p} : calls'[q] = calls[q]
      BY <3>1 DEF Typed, CallTypes
    <3> QED
      BY <2>2, <2>5, <3>1, <3>2, UnfilmedMoves
  <2> QED
    BY <2>3, <2>4
<1> QED
  BY <1>1, <1>2, <1>3, <1>4, <1>5 DEF Commands

LEMMA ReportsFilmed ==
  ASSUME Grounded, VideoFollowsTheCalls, NEW p \in Peers, NEW c \in Generation, Reports(p, c)
  PROVE  VideoFollowsTheCalls'
<1>1. Typed /\ TasksInOrder /\ AllTruthful
  BY DEF Grounded
<1>2. UNCHANGED <<audio, strays>>
  BY DEF Reports, ConnectReport, TrackReport, IncomingReport, CallReport, boundVars
<1>3. open' \subseteq open
  BY DEF Reports, ConnectReport, ConnectedLate, ClosedLate, QuicConnected, ConnectFailed,
         TrackReport, IncomingReport, CallReport
<1>4. CASE UNCHANGED <<calls, videoVars>>
  BY <1>1, <1>2, <1>3, <1>4, UnfilmedMoves
<1>5. CASE EndCall(p)
  BY <1>1, <1>2, <1>3, <1>5, EndCallFilmed
<1>6. CASE ConnectReport(p, c)
  <2>1. CASE ConnectedLate(p, c)
    BY <1>4, <2>1 DEF ConnectedLate
  <2>2. CASE QuicConnected(p, c)
    <3>1. /\ calls[p].state = "calling" /\ calls'[p].state = "connecting"
          /\ \A q \in Peers \ {p} : calls'[q] = calls[q]
      BY <1>1, <2>2 DEF QuicConnected, Dialling, Typed, CallTypes
    <3> QED
      BY <1>1, <1>2, <1>3, <2>2, <3>1, UnfilmedMoves DEF QuicConnected
  <2>3. CASE ConnectFailed(p, c)
    <3>1. /\ calls[p].state = "calling" /\ calls'[p] = NoCall /\ receivers' = receivers
          /\ \A q \in Peers \ {p} : calls'[q] = calls[q]
      BY <1>1, <2>3 DEF ConnectFailed, Dialling, Typed, CallTypes
    <3>2. \/ ~sharing' /\ senders' = Nobody
          \/ sharing' = sharing /\ senders' = senders
      BY <1>1, <2>3 DEF ConnectFailed, CleanupAfterCallEnd, Typed, VideoTypes
    <3>3. ASSUME audio, strays = 0 PROVE Filmed(p)'
      <4>1. senders[p] = 0 /\ receivers[p] = 0
        BY <3>1, <3>3 DEF VideoFollowsTheCalls
      <4>2. senders'[p] = 0
        BY <3>2, <4>1 DEF Nobody
      <4> QED
        BY <3>1, <4>1, <4>2 DEF Filmed, NoCall
    <3>4. \/ sharing' = sharing /\ \A q \in Peers \ {p} : senders'[q] = senders[q]
          \/ ~sharing' /\ \A q \in Peers \ {p} : senders'[q] = 0
      BY <3>2 DEF Nobody
    <3> QED
      BY <1>2, <1>3, <3>1, <3>3, <3>4, OthersFilmed
  <2> QED
    BY <1>6, <2>1, <2>2, <2>3 DEF ConnectReport
<1>7. CASE TrackReport(p, c)
  <2>1. PICK s \in {"ok", "failed"} :
          LET t == TaskOf("track", p, c, s)
          IN /\ t \in tasks
             /\ \/ UNCHANGED <<calls, videoVars>>
                \/ IsCurrent(p, c) /\ calls[p].state # "connecting"
                \/ /\ IsCurrent(p, c) /\ calls[p].state = "connecting"
                   /\ Accepted(p, c, tasks \ {t}, TRUE)
                \/ EndCall(p)
    BY <1>7 DEF TrackReport
  <2>2. CASE IsCurrent(p, c) /\ calls[p].state # "connecting"
    <3>1. strays # 0
      BY <1>1, <2>1, <2>2, TrackFindsConnecting
    <3> QED
      BY <1>2, <3>1 DEF VideoFollowsTheCalls
  <2>3. CASE /\ calls[p].state = "connecting"
             /\ Accepted(p, c, tasks \ {TaskOf("track", p, c, s)}, TRUE)
    BY <1>1, <1>2, <1>3, <2>3, AcceptedFilmed
  <2> QED
    BY <1>4, <1>5, <2>1, <2>2, <2>3
<1>8. CASE IncomingReport(p, c)
  <2>1. CASE GivesUp(p, c)
    <3>1. /\ calls[p].state = "incoming" /\ calls'[p] = NoCall
          /\ \A q \in Peers \ {p} : calls'[q] = calls[q]
          /\ videoVars' = videoVars
      BY <1>1, <1>8, <2>1 DEF IncomingReport, GivesUp, Typed, CallTypes
    <3>2. calls'[p].state # "active"
      BY <3>1 DEF NoCall
    <3> QED
      BY <1>1, <1>2, <1>3, <3>1, <3>2, UnfilmedMoves
  <2>2. CASE ~GivesUp(p, c)
    BY <1>4, <1>8, <2>2 DEF IncomingReport
  <2> QED
    BY <2>1, <2>2
<1>9. CASE CallReport(p, c)
  BY <1>4, <1>5, <1>9 DEF CallReport
<1> QED
  BY <1>6, <1>7, <1>8, <1>9 DEF Reports

LEMMA EnvironmentFilmed ==
  ASSUME Grounded, VideoFollowsTheCalls, NEW p \in Peers, NEW c \in Generation,
         Environment(p, c)
  PROVE  VideoFollowsTheCalls'
<1>1. Typed /\ TasksInOrder
  BY DEF Grounded
<1>2. UNCHANGED <<calls, videoVars, audio, strays>>
  BY DEF Environment, ConnectEnds, TrackEnds, IncomingEnds, HandsBackTrack, CallEnds,
         ConnectionCloses, callVars, boundVars
<1>3. \/ open' \subseteq open
      \/ /\ TaskOf("connect", p, c, "running") \in tasks
         /\ open' = open \cup {<<p, c>>}
  BY DEF Environment, ConnectEnds, TrackEnds, IncomingEnds, HandsBackTrack, CallEnds,
         ConnectionCloses
<1>4. ASSUME TaskOf("connect", p, c, "running") \in tasks
      PROVE  ~(calls[p].state = "active" /\ calls[p].call = c)
  <2> DEFINE t == TaskOf("connect", p, c, "running")
  <2>1. t \in tasks /\ t.kind = "connect" /\ t.peer = p /\ t.call = c
    BY <1>4, TaskOfFields
  <2> HIDE DEF t
  <2> QED
    BY <1>1, <2>1, StateOfTask
<1>5. \A q \in Peers : calls[q].state = "active" /\ <<q, calls[q].call>> \in open'
                         => <<q, calls[q].call>> \in open
  BY <1>3, <1>4
<1> QED
  BY <1>1, <1>2, <1>5, UnfilmedMoves

LEMMA StepFilmed ==
  ASSUME Grounded, VideoFollowsTheCalls, [Next]_vars
  PROVE  VideoFollowsTheCalls'
<1>1. Typed
  BY DEF Grounded
<1>2. ASSUME NEW targets \in SUBSET Peers, EnterGroupCall(targets)
      PROVE  VideoFollowsTheCalls'
  BY <1>1, <1>2, DialFilmed DEF EnterGroupCall, boundVars
<1>3. ASSUME UNCHANGED <<calls, videoVars, open, audio, strays>>
      PROVE  VideoFollowsTheCalls'
  BY <1>3 DEF VideoFollowsTheCalls, videoVars
<1>4. ASSUME \/ UNCHANGED vars
             \/ LeaveGroupCall
             \/ OnVoiceTrack
             \/ \E enabled \in BOOLEAN :
                  SetCallRecording(enabled) \/ SetRecordCallsAutomatically(enabled)
      PROVE  UNCHANGED <<calls, videoVars, open, audio, strays>>
  BY <1>4 DEF vars, callVars, boundVars, LeaveGroupCall, OnVoiceTrack, SetCallRecording,
              SetRecordCallsAutomatically
<1> QED
  BY <1>1, <1>2, <1>3, <1>4, SharingFilmed, CommandsFilmed, ReportsFilmed, EnvironmentFilmed
     DEF Next

(***************************************************************************)
(* Video follows the calls: whichever way sharing, answers and ends follow *)
(* one another, an active call on an open connection has the receiver, and *)
(* during a share the sender, of that very connection.                     *)
(***************************************************************************)
THEOREM VideoIsOfTheCalls == Spec => []VideoFollowsTheCalls
<1>1. Init => VideoFollowsTheCalls
  BY DEF Init, VideoFollowsTheCalls, NoCall, Nobody
<1>2. Grounded /\ VideoFollowsTheCalls /\ [Next]_vars => VideoFollowsTheCalls'
  BY StepFilmed
<1> QED
  BY <1>1, <1>2, SpecGrounded, PTL DEF Spec

-----------------------------------------------------------------------------
(***************************************************************************)
(* The refinement of CallLines.  A step that leaves the entries and the    *)
(* voices alone stutters; the others are one step of one line each, but    *)
(* for the dialling of a group.                                            *)
(***************************************************************************)
LEMMA LineFacts ==
  ASSUME Typed, NEW p \in Peers
  PROVE  /\ line[p] = [state |-> Label(calls[p].state), call |-> calls[p].call]
         /\ calls[p] = NoCall => line[p] = Lines!Free
         /\ calls[p].state # "none" => line[p] # Lines!Free
<1>1. line[p] = [state |-> Label(calls[p].state), call |-> calls[p].call]
  BY DEF line
<1>2. calls[p] = NoCall => line[p] = Lines!Free
  BY <1>1 DEF NoCall, Lines!Free, Label
<1>3. ASSUME calls[p].state # "none" PROVE line[p] # Lines!Free
  <2>1. line[p].state = Label(calls[p].state)
    BY <1>1
  <2>2. Label(calls[p].state) # "none"
    BY <1>3 DEF Label
  <2>3. Lines!Free.state = "none"
    BY DEF Lines!Free
  <2> QED
    BY <2>1, <2>2, <2>3
<1> QED
  BY <1>1, <1>2, <1>3

\* One entry is set: one line is.
LEMMA LineSet ==
  ASSUME Typed, NEW p \in Peers, NEW e, calls' = [calls EXCEPT ![p] = e]
  PROVE  line' = [line EXCEPT ![p] = [state |-> Label(e.state), call |-> e.call]]
<1>1. calls'[p] = e /\ \A q \in Peers \ {p} : calls'[q] = calls[q]
  BY DEF Typed, CallTypes
<1>2. line' = [q \in Peers |-> [state |-> Label(calls'[q].state), call |-> calls'[q].call]]
  BY DEF line
<1>3. [line EXCEPT ![p] = [state |-> Label(e.state), call |-> e.call]]
        = [q \in Peers |-> IF q = p THEN [state |-> Label(e.state), call |-> e.call]
                           ELSE line[q]]
  BY DEF line
<1>4. \A q \in Peers : line[q] = [state |-> Label(calls[q].state), call |-> calls[q].call]
  BY DEF line
<1> QED
  BY <1>1, <1>2, <1>3, <1>4

LEMMA VoicesKept ==
  ASSUME \A t \in tasks : Voiced(t) => t \in tasks',
         \A t \in tasks' : Voiced(t) => t \in tasks
  PROVE  voices' = voices
<1>1. {t \in tasks : Voiced(t)} = {t \in tasks' : Voiced(t)}
  OBVIOUS
<1>2. voices' = {<<t.peer, t.call>> : t \in {u \in tasks' : Voiced(u)}}
  BY DEF voices, Voiced
<1> QED
  BY <1>1, <1>2 DEF voices

LEMMA VoiceOf ==
  ASSUME NEW v
  PROVE  /\ v \in voices <=> \E t \in tasks : Voiced(t) /\ v = <<t.peer, t.call>>
         /\ v \in voices' <=> \E t \in tasks' : Voiced(t) /\ v = <<t.peer, t.call>>
BY DEF voices, Voiced

LEMMA Stutters ==
  ASSUME UNCHANGED <<calls, begun, audio, running>>,
         \A t \in tasks : Voiced(t) => t \in tasks',
         \A t \in tasks' : Voiced(t) => t \in tasks
  PROVE  UNCHANGED Lines!vars
<1>1. line' = line
  BY DEF line
<1> QED
  BY <1>1, VoicesKept DEF Lines!vars

\* The entry of a peer goes, and no call task with it that has not ended.
LEMMA LineEnds ==
  ASSUME Typed, running, NEW p \in Peers, calls' = [calls EXCEPT ![p] = NoCall],
         UNCHANGED <<begun, audio, running>>,
         \A t \in tasks : Voiced(t) => t \in tasks',
         \A t \in tasks' : Voiced(t) => t \in tasks
  PROVE  Lines!End(p) \/ UNCHANGED Lines!vars
<1>1. CASE calls[p] = NoCall
  <2>1. calls' = calls
    BY <1>1 DEF Typed, CallTypes
  <2> QED
    BY <2>1, Stutters
<1>2. CASE calls[p] # NoCall
  <2>1. line[p] # Lines!Free
    BY <1>2, EntryFacts, LineFacts DEF Typed, CallTypes
  <2>2. line' = [line EXCEPT ![p] = [state |-> Label(NoCall.state), call |-> NoCall.call]]
    BY LineSet
  <2>3. [state |-> Label(NoCall.state), call |-> NoCall.call] = Lines!Free
    BY DEF NoCall, Label, Lines!Free
  <2> QED
    BY <2>1, <2>2, <2>3, VoicesKept DEF Lines!End
<1> QED
  BY <1>1, <1>2

LEMMA AcceptedCarries ==
  ASSUME Typed, NEW p \in Peers, NEW c \in Generation, NEW rest, NEW inLoop \in BOOLEAN,
         Accepted(p, c, rest, inLoop), running, audio' = audio, rest \subseteq tasks,
         \A t \in tasks \ rest : ~Voiced(t)
  PROVE  Lines!Carried(p, c)
<1>1. line' = [line EXCEPT ![p] = [state |-> "active", call |-> c]]
  <2>1. calls' = [calls EXCEPT ![p] = [state |-> "active", call |-> c]]
    BY DEF Accepted
  <2> QED
    BY <2>1, LineSet DEF Label
<1>2. CASE audio
  <2>1. tasks' = rest \cup {TaskOf("call", p, c, "starting")} /\ running'
    BY <1>2 DEF Accepted
  <2>2. /\ Voiced(TaskOf("call", p, c, "starting"))
        /\ TaskOf("call", p, c, "starting").peer = p
        /\ TaskOf("call", p, c, "starting").call = c
    BY DEF Voiced, TaskOf
  <2> HIDE DEF TaskOf
  <2>3. ASSUME NEW v PROVE v \in voices' <=> v \in voices \cup {<<p, c>>}
    <3>1. v \in voices' => v \in voices \cup {<<p, c>>}
      BY <2>1, <2>2, VoiceOf
    <3>2. v \in voices => v \in voices'
      BY <2>1, VoiceOf
    <3>3. <<p, c>> \in voices'
      BY <2>1, <2>2, VoiceOf
    <3> QED
      BY <3>1, <3>2, <3>3
  <2>4. voices' = voices \cup {<<p, c>>}
    BY <2>3
  <2> QED
    BY <1>1, <1>2, <2>1, <2>4 DEF Lines!Carried
<1>3. CASE ~audio /\ ~inLoop
  <2>1. tasks' = rest /\ running'
    BY <1>3 DEF Accepted
  <2>2. voices' = voices
    BY <2>1, VoicesKept
  <2> QED
    BY <1>1, <1>3, <2>1, <2>2 DEF Lines!Carried
<1>4. CASE ~audio /\ inLoop
  <2>1. tasks' = {} /\ running' = FALSE
    BY <1>4 DEF Accepted
  <2>2. voices' = {}
    BY <2>1, VoiceOf
  <2> QED
    BY <1>1, <1>4, <2>1, <2>2 DEF Lines!Carried
<1> QED
  BY <1>2, <1>3, <1>4

LEMMA DialLines ==
  ASSUME Typed, running, NEW targets \in SUBSET Peers, Dial(targets),
         \A p \in targets : calls[p] = NoCall, UNCHANGED <<audio, running>>
  PROVE  Lines!Dial(targets)
<1>1. Cardinality(targets) \in Nat /\ begun \in Nat
  BY Bounds, PeersAssumption, FS_Subset, FS_CardinalityType DEF Typed, CallTypes
<1>2. begun' = begun + Cardinality(targets)
  BY DEF Dial
<1> DEFINE range == FirstCall..(FirstCall + Cardinality(targets) - 1)
<1>3. range = (begun + 1)..begun'
  BY <1>1, <1>2 DEF FirstCall
<1>4. PICK number \in Injection(targets, range) :
        /\ calls' = [p \in Peers |-> IF p \in targets
                       THEN [state |-> "calling", call |-> number[p]] ELSE calls[p]]
        /\ tasks' = tasks \cup {TaskOf("connect", p, number[p], "running") : p \in targets}
  BY DEF Dial
<1>5. /\ number \in [targets -> (begun + 1)..begun']
      /\ \A p, q \in targets : number[p] = number[q] => p = q
  BY <1>3, <1>4 DEF Injection, IsInjective
<1> HIDE DEF range
<1>6. ASSUME NEW p \in Peers
      PROVE  line'[p] = IF p \in targets THEN [state |-> "calling", call |-> number[p]]
                        ELSE line[p]
  <2>1. line'[p] = [state |-> Label(calls'[p].state), call |-> calls'[p].call]
    BY DEF line
  <2>2. CASE p \in targets
    <3>1. calls'[p] = [state |-> "calling", call |-> number[p]]
      BY <1>4, <2>2
    <3> QED
      BY <2>1, <2>2, <3>1 DEF Label
  <2>3. CASE p \notin targets
    <3>1. calls'[p] = calls[p]
      BY <1>4, <2>3
    <3> QED
      BY <2>1, <2>3, <3>1 DEF line
  <2> QED
    BY <2>2, <2>3
<1>7. line' = [p \in Peers |-> IF p \in targets
                 THEN [state |-> "calling", call |-> number[p]] ELSE line[p]]
  <2>1. line' = [p \in Peers |-> line'[p]]
    BY DEF line
  <2> QED
    BY <1>6, <2>1
<1>8. voices' = voices
  <2>1. \A p \in targets : ~Voiced(TaskOf("connect", p, number[p], "running"))
    BY DEF Voiced, TaskOf
  <2> QED
    BY <1>4, <2>1, VoicesKept
<1>9. \A p \in targets : line[p] = Lines!Free
  BY LineFacts
<1>10. begun' \in Nat /\ begun <= begun'
  BY <1>1, <1>2
<1> QED
  BY <1>5, <1>7, <1>8, <1>9, <1>10 DEF Lines!Dial

LEMMA CommandsLines ==
  ASSUME Typed, NEW p \in Peers, Commands(p)
  PROVE  [Lines!Next]_(Lines!vars)
<1>1. CASE Call(p)
  <2>1. Lines!Dial({p})
    BY <1>1, DialLines DEF Call
  <2> QED
    BY <2>1 DEF Lines!Next
<1>2. CASE Answer(p)
  <2>1. /\ running /\ calls[p].state = "incoming" /\ audio' = audio /\ begun' = begun
        /\ Accepted(p, calls[p].call, tasks, FALSE)
    BY <1>2 DEF Answer
  <2>2. calls[p].call \in Generation
    BY <2>1, EntryFacts DEF Typed, CallTypes
  <2>3. line[p].state = "incoming" /\ line[p].call = calls[p].call
    <3>1. line[p] = [state |-> Label(calls[p].state), call |-> calls[p].call]
      BY LineFacts
    <3>2. Label(calls[p].state) = "incoming"
      BY <2>1 DEF Label
    <3> QED
      BY <3>1, <3>2
  <2>4. Lines!Carried(p, line[p].call)
    BY <2>1, <2>2, <2>3, AcceptedCarries
  <2>5. Lines!Take(p)
    BY <2>1, <2>3, <2>4 DEF Lines!Take
  <2> QED
    BY <2>5 DEF Lines!Next
<1>3. CASE StrayAnswer(p)
  <2>1. Lines!End(p) \/ UNCHANGED Lines!vars
    BY <1>3, LineEnds DEF StrayAnswer
  <2> QED
    BY <2>1 DEF Lines!Next
<1>4. CASE Reject(p)
  <2>1. Lines!End(p) \/ UNCHANGED Lines!vars
    BY <1>4, LineEnds DEF Reject, EndCall
  <2> QED
    BY <2>1 DEF Lines!Next
<1>5. CASE Abort(p)
  <2>1. /\ running /\ calls' = [calls EXCEPT ![p] = NoCall]
        /\ tasks' = AbortedDial(p) /\ UNCHANGED <<begun, audio, running>>
    BY <1>5 DEF Abort, EndCall
  <2>2. tasks' \subseteq tasks /\ \A t \in tasks \ tasks' : ~Voiced(t)
    BY <2>1 DEF AbortedDial, TaskOf, Voiced
  <2>3. Lines!End(p) \/ UNCHANGED Lines!vars
    BY <2>1, <2>2, LineEnds
  <2> QED
    BY <2>3 DEF Lines!Next
<1> QED
  BY <1>1, <1>2, <1>3, <1>4, <1>5 DEF Commands

LEMMA HandleConnectionLines ==
  ASSUME Typed, NEW p \in Peers, HandleConnection(p)
  PROVE  [Lines!Next]_(Lines!vars)
<1> DEFINE c == FirstCall
<1>1. begun \in Nat /\ c \in Generation /\ c = begun + 1
  BY Bounds DEF HandleConnection, FirstCall, Typed, CallTypes, Generation
<1>2. running /\ audio' = audio /\ begun' = begun + 1 /\ line[p] = Lines!Free
  BY LineFacts DEF HandleConnection
<1>3. CASE room /\ p \in Mates
  <2>1. Accepted(p, c, tasks, TRUE)
    BY <1>3 DEF HandleConnection
  <2>2. Lines!Carried(p, begun + 1)
    BY <1>1, <1>2, <2>1, AcceptedCarries
  <2>3. Lines!LetIn(p)
    BY <1>2, <2>2 DEF Lines!LetIn
  <2> QED
    BY <2>3 DEF Lines!Next
<1>4. CASE ~(room /\ p \in Mates)
  <2>1. /\ calls' = [calls EXCEPT ![p] = [state |-> "incoming", call |-> c]]
        /\ tasks' = tasks \cup {TaskOf("incoming", p, c, "running")}
        /\ running' = running
    BY <1>4 DEF HandleConnection
  <2>2. line' = [line EXCEPT ![p] = [state |-> "incoming", call |-> begun + 1]]
    <3>1. line' = [line EXCEPT ![p] = [state |-> Label("incoming"), call |-> c]]
      BY <2>1, LineSet
    <3> QED
      BY <1>1, <3>1 DEF Label
  <2>3. ~Voiced(TaskOf("incoming", p, c, "running"))
    BY DEF Voiced, TaskOf
  <2>4. voices' = voices
    BY <2>1, <2>3, VoicesKept
  <2>5. Lines!Ring(p)
    BY <1>2, <2>1, <2>2, <2>4 DEF Lines!Ring
  <2> QED
    BY <2>5 DEF Lines!Next
<1> QED
  BY <1>3, <1>4

\* An entry that the current call of its peer is looked up by is that call's.
LEMMA CurrentEntry ==
  ASSUME Typed, AllAttended, running, NEW p \in Peers, NEW c \in Generation,
         IsCurrent(p, c), calls[p].state # "none"
  PROVE  calls[p].call = c
BY DEF AllAttended, Attended, IsCurrent

LEMMA ConnectReportLines ==
  ASSUME Typed, AllAttended, NEW p \in Peers, NEW c \in Generation, ConnectReport(p, c)
  PROVE  [Lines!Next]_(Lines!vars)
<1>1. running /\ UNCHANGED <<begun, audio, running>>
  BY DEF ConnectReport
<1>2. PICK s \in {"ok", "failed"} :
        \/ /\ ConnectedLate(p, c)
           /\ tasks' = tasks \ {TaskOf("connect", p, c, s)}
        \/ /\ QuicConnected(p, c)
           /\ tasks' = (tasks \ {TaskOf("connect", p, c, s)})
                         \cup {TaskOf("track", p, c, "running")}
        \/ /\ ConnectFailed(p, c)
           /\ tasks' = tasks \ {TaskOf("connect", p, c, s)}
  BY DEF ConnectReport
<1>3. ~Voiced(TaskOf("connect", p, c, s)) /\ ~Voiced(TaskOf("track", p, c, "running"))
  BY DEF Voiced, TaskOf
<1>4. /\ \A t \in tasks : Voiced(t) => t \in tasks'
      /\ \A t \in tasks' : Voiced(t) => t \in tasks
  BY <1>2, <1>3
<1>5. CASE ConnectedLate(p, c)
  <2>1. UNCHANGED Lines!vars
    BY <1>1, <1>4, <1>5, Stutters DEF ConnectedLate
  <2> QED
    BY <2>1
<1>6. CASE QuicConnected(p, c)
  <2>1. calls[p].state = "calling" /\ calls[p].call = c
    BY <1>1, <1>6, CurrentEntry DEF QuicConnected, Dialling
  <2>2. calls' = [calls EXCEPT ![p] = [state |-> "connecting", call |-> c]]
    BY <1>6 DEF QuicConnected
  <2>3. line' = [line EXCEPT ![p] = [state |-> "calling", call |-> c]]
    <3>1. line' = [line EXCEPT ![p] = [state |-> Label("connecting"), call |-> c]]
      BY <2>2, LineSet
    <3> QED
      BY <3>1 DEF Label
  <2>4. line[p] = [state |-> "calling", call |-> c]
    <3>1. line[p] = [state |-> Label(calls[p].state), call |-> calls[p].call]
      BY LineFacts
    <3> QED
      BY <2>1, <3>1 DEF Label
  <2>5. line' = line
    BY <2>3, <2>4 DEF line
  <2> QED
    BY <1>1, <1>4, <2>5, VoicesKept DEF Lines!vars
<1>7. CASE ConnectFailed(p, c)
  <2>1. Lines!End(p) \/ UNCHANGED Lines!vars
    BY <1>1, <1>4, <1>7, LineEnds DEF ConnectFailed
  <2> QED
    BY <2>1 DEF Lines!Next
<1> QED
  BY <1>2, <1>5, <1>6, <1>7

LEMMA TrackReportLines ==
  ASSUME Typed, AllAttended, NEW p \in Peers, NEW c \in Generation, TrackReport(p, c)
  PROVE  [Lines!Next]_(Lines!vars)
<1>1. running /\ UNCHANGED <<begun, audio>>
  BY DEF TrackReport
<1>2. PICK s \in {"ok", "failed"} :
        \/ /\ UNCHANGED <<calls, running>>
           /\ tasks' = tasks \ {TaskOf("track", p, c, s)}
        \/ /\ calls' = [calls EXCEPT ![p] = NoCall]
           /\ tasks' = tasks \ {TaskOf("track", p, c, s)}
           /\ UNCHANGED running
        \/ /\ IsCurrent(p, c) /\ calls[p].state = "connecting"
           /\ Accepted(p, c, tasks \ {TaskOf("track", p, c, s)}, TRUE)
  BY DEF TrackReport, EndCall
<1>3. ~Voiced(TaskOf("track", p, c, s))
  BY DEF Voiced, TaskOf
<1> DEFINE rest == tasks \ {TaskOf("track", p, c, s)}
<1>4. rest \subseteq tasks /\ \A t \in tasks \ rest : ~Voiced(t)
  BY <1>3
<1> HIDE DEF rest
<1>5. CASE UNCHANGED <<calls, running>> /\ tasks' = rest
  <2>1. UNCHANGED Lines!vars
    BY <1>1, <1>4, <1>5, Stutters
  <2> QED
    BY <2>1
<1>6. CASE calls' = [calls EXCEPT ![p] = NoCall] /\ tasks' = rest /\ UNCHANGED running
  <2>1. Lines!End(p) \/ UNCHANGED Lines!vars
    BY <1>1, <1>4, <1>6, LineEnds
  <2> QED
    BY <2>1 DEF Lines!Next
<1>7. CASE IsCurrent(p, c) /\ calls[p].state = "connecting" /\ Accepted(p, c, rest, TRUE)
  <2>1. calls[p].call = c
    BY <1>1, <1>7, CurrentEntry
  <2>2. line[p].state = "calling" /\ line[p].call = c
    <3>1. line[p] = [state |-> Label(calls[p].state), call |-> calls[p].call]
      BY LineFacts
    <3> QED
      BY <1>7, <2>1, <3>1 DEF Label
  <2>3. Lines!Carried(p, c)
    BY <1>1, <1>4, <1>7, AcceptedCarries
  <2>4. Lines!Take(p)
    BY <1>1, <2>2, <2>3 DEF Lines!Take
  <2> QED
    BY <2>4 DEF Lines!Next
<1> QED
  BY <1>2, <1>5, <1>6, <1>7 DEF rest

LEMMA EndReportsLines ==
  ASSUME Typed, NEW p \in Peers, NEW c \in Generation,
         IncomingReport(p, c) \/ CallReport(p, c)
  PROVE  [Lines!Next]_(Lines!vars)
<1>1. running /\ UNCHANGED <<begun, audio, running>>
  BY DEF IncomingReport, CallReport
<1>2. calls' = calls \/ calls' = [calls EXCEPT ![p] = NoCall]
  BY DEF IncomingReport, CallReport, EndCall
<1>3. PICK k \in {"incoming", "call"} : tasks' = tasks \ {TaskOf(k, p, c, "ended")}
  BY DEF IncomingReport, CallReport
<1>4. ~Voiced(TaskOf(k, p, c, "ended"))
  BY DEF Voiced, TaskOf
<1>5. /\ \A t \in tasks : Voiced(t) => t \in tasks'
      /\ \A t \in tasks' : Voiced(t) => t \in tasks
  BY <1>3, <1>4
<1>6. Lines!End(p) \/ UNCHANGED Lines!vars
  BY <1>1, <1>2, <1>5, Stutters, LineEnds
<1> QED
  BY <1>6 DEF Lines!Next

LEMMA QuietBecomes ==
  ASSUME NEW t \in tasks, t.kind # "call", NEW stage, tasks' = Becomes(t, stage),
         UNCHANGED <<calls, begun, audio, running>>, TaskTypes
  PROVE  UNCHANGED Lines!vars
<1>1. t \in Task
  BY DEF TaskTypes
<1>2. [t EXCEPT !.stage = stage].kind = t.kind
  BY <1>1 DEF Task
<1>3. ~Voiced(t) /\ ~Voiced([t EXCEPT !.stage = stage])
  BY <1>2 DEF Voiced
<1> QED
  BY <1>3, Stutters DEF Becomes

LEMMA HandsBackLines ==
  ASSUME Typed, NEW p \in Peers, NEW c \in Generation, HandsBackTrack(p, c)
  PROVE  UNCHANGED Lines!vars
<1> DEFINE t == TaskOf("call", p, c, "starting")
           u == [t EXCEPT !.stage = "talking"]
<1>1. t \in tasks /\ tasks' = (tasks \ {t}) \cup {u}
  BY DEF HandsBackTrack, Becomes
<1>2. /\ Voiced(t) /\ t.peer = p /\ t.call = c
      /\ Voiced(u) /\ u.peer = p /\ u.call = c
  BY DEF Voiced, TaskOf
<1> HIDE DEF t, u
<1>3. ASSUME NEW v PROVE v \in voices' <=> v \in voices
  <2>1. v \in voices' => v \in voices
    BY <1>1, <1>2, VoiceOf
  <2>2. v \in voices => v \in voices'
    BY <1>1, <1>2, VoiceOf
  <2> QED
    BY <2>1, <2>2
<1>4. voices' = voices
  BY <1>3
<1>5. line' = line
  BY DEF HandsBackTrack, line, callVars
<1> QED
  BY <1>4, <1>5 DEF Lines!vars, HandsBackTrack, callVars

LEMMA CallEndsLines ==
  ASSUME Typed, NEW p \in Peers, NEW c \in Generation, CallEnds(p, c)
  PROVE  [Lines!Next]_(Lines!vars)
<1>1. PICK t \in {TaskOf("call", p, c, s) : s \in {"starting", "talking"}} \cap tasks :
        tasks' = Becomes(t, "ended")
  BY DEF CallEnds
<1> DEFINE u == [t EXCEPT !.stage = "ended"]
<1>2. t \in tasks /\ tasks' = (tasks \ {t}) \cup {u}
  BY <1>1 DEF Becomes
<1>3. Voiced(t) /\ t.peer = p /\ t.call = c /\ ~Voiced(u)
  BY <1>1 DEF Voiced, TaskOf
<1> HIDE DEF u
<1>4. UNCHANGED <<line, begun, audio, running>>
  BY DEF CallEnds, line, callVars
<1>5. <<p, c>> \in voices
  BY <1>2, <1>3, VoiceOf
<1>6. ASSUME NEW v, v # <<p, c>> PROVE v \in voices' <=> v \in voices
  <2>1. v \in voices' => v \in voices
    BY <1>2, <1>3, VoiceOf
  <2>2. v \in voices => v \in voices'
    BY <1>2, <1>3, <1>6, VoiceOf
  <2> QED
    BY <2>1, <2>2
<1>7. voices' = voices \/ voices' = voices \ {<<p, c>>}
  BY <1>5, <1>6
<1>8. CASE voices' = voices
  BY <1>4, <1>8 DEF Lines!vars
<1>9. CASE voices' = voices \ {<<p, c>>}
  <2>1. Lines!Silence(<<p, c>>)
    BY <1>4, <1>9 DEF Lines!Silence
  <2> QED
    BY <1>5, <2>1 DEF Lines!Next
<1> QED
  BY <1>7, <1>8, <1>9

LEMMA EnvironmentLines ==
  ASSUME Typed, NEW p \in Peers, NEW c \in Generation, Environment(p, c)
  PROVE  [Lines!Next]_(Lines!vars)
<1>1. CASE ConnectEnds(p, c) \/ TrackEnds(p, c) \/ IncomingEnds(p, c)
  <2>1. PICK k \in {"connect", "track", "incoming"}, stage \in {"ok", "failed", "ended"} :
          /\ TaskOf(k, p, c, "running") \in tasks
          /\ tasks' = Becomes(TaskOf(k, p, c, "running"), stage)
    BY <1>1 DEF ConnectEnds, TrackEnds, IncomingEnds
  <2>2. UNCHANGED <<calls, begun, audio, running>>
    BY <1>1 DEF ConnectEnds, TrackEnds, IncomingEnds, callVars
  <2>3. TaskOf(k, p, c, "running").kind # "call"
    BY DEF TaskOf
  <2> QED
    BY <2>1, <2>2, <2>3, QuietBecomes DEF Typed
<1>2. CASE HandsBackTrack(p, c)
  BY <1>2, HandsBackLines
<1>3. CASE CallEnds(p, c)
  BY <1>3, CallEndsLines
<1>4. CASE ConnectionCloses(p, c)
  <2>1. UNCHANGED <<calls, begun, audio, running, tasks>>
    BY <1>4 DEF ConnectionCloses, callVars
  <2> QED
    BY <2>1, Stutters
<1> QED
  BY <1>1, <1>2, <1>3, <1>4 DEF Environment

LEMMA StepLines ==
  ASSUME Typed, AllAttended, [Next]_vars
  PROVE  [Lines!Next]_(Lines!vars)
<1>1. ASSUME UNCHANGED <<calls, begun, audio, running, tasks>>
      PROVE  [Lines!Next]_(Lines!vars)
  BY <1>1, Stutters
<1>2. CASE \/ UNCHANGED vars
           \/ LeaveGroupCall
           \/ OnVoiceTrack
           \/ \E enabled \in BOOLEAN :
                SetCallRecording(enabled) \/ SetRecordCallsAutomatically(enabled)
           \/ StartSharing
           \/ StopSharing
           \/ \E p \in Peers : VideoReceiverEnds(p)
  <2>1. UNCHANGED <<calls, begun, audio, running, tasks>>
    BY <1>2 DEF vars, callVars, LeaveGroupCall, OnVoiceTrack, SetCallRecording,
                SetRecordCallsAutomatically, StartSharing, StopSharing, VideoReceiverEnds
  <2> QED
    BY <1>1, <2>1
<1>3. ASSUME NEW targets \in SUBSET Peers, EnterGroupCall(targets)
      PROVE  [Lines!Next]_(Lines!vars)
  <2> DEFINE free == {p \in targets : calls[p] = NoCall}
  <2>1. /\ free \in SUBSET Peers /\ Dial(free) /\ running /\ UNCHANGED <<audio, running>>
        /\ \A p \in free : calls[p] = NoCall
    BY <1>3 DEF EnterGroupCall
  <2> HIDE DEF free
  <2>2. Lines!Dial(free)
    BY <2>1, DialLines
  <2> QED
    BY <2>1, <2>2 DEF Lines!Next
<1>4. ASSUME NEW p \in Peers, NEW c \in Generation, Reports(p, c)
      PROVE  [Lines!Next]_(Lines!vars)
  BY <1>4, ConnectReportLines, TrackReportLines, EndReportsLines DEF Reports
<1> QED
  BY <1>2, <1>3, <1>4, CommandsLines, HandleConnectionLines, EnvironmentLines DEF Next

(***************************************************************************)
(* The worker implements CallLines: one call per peer, taken once and under *)
(* its own number, whatever the commands, the reports of earlier calls and  *)
(* the connections that come too late do (call_is_current).                *)
(***************************************************************************)
THEOREM ImplementsLines == Spec => RefinesLines
<1>1. Init => Lines!Init
  <2> SUFFICES ASSUME Init PROVE Lines!Init
    OBVIOUS
  <2>1. line = [p \in Peers |-> Lines!Free]
    BY DEF Init, line, NoCall, Label, Lines!Free
  <2>2. voices = {}
    BY VoiceOf DEF Init
  <2> QED
    BY <2>1, <2>2 DEF Init, Lines!Init
<1>2. Grounded /\ [Next]_vars => [Lines!Next]_(Lines!vars)
  BY StepLines DEF Grounded
<1> QED
  BY <1>1, <1>2, SpecGrounded, PTL DEF Spec, RefinesLines, Lines!Spec
=============================================================================
