----------------------------- MODULE CallAudio -----------------------------
(***************************************************************************)
(* The audio contexts of the client.  A context is one microphone thread   *)
(* and one loudspeaker thread, opened together for the chosen devices; it  *)
(* lives while somebody holds a clone of it: the call worker, for calls to *)
(* come, and the task of every call that began with it.  Saving the        *)
(* settings opens a new one.  Muting and deafening are flags of a context, *)
(* set by the worker on the one it holds.                                  *)
(***************************************************************************)
EXTENDS Naturals, Sequences, FiniteSets

CONSTANTS
    Peer,          \* the others in the calls
    MaxContexts,   \* bound: contexts opened
    MaxToggles,    \* bound: presses of mute and deafen
    MaxCommands    \* bound: commands waiting for the worker

CallAudioAssumption ==
    /\ IsFiniteSet(Peer)
    /\ {MaxContexts, MaxToggles, MaxCommands} \subseteq Nat
    /\ MaxContexts # 0 /\ MaxCommands # 0

VARIABLES
    shown,      \* what the buttons show: [muted, deafened]
    wanted,     \* what the worker remembers of them
    commands,   \* commands waiting for the worker
    opened,     \* contexts opened so far, the last one is the worker's
    context,    \* the flags of each context
    running,    \* contexts whose threads run
    call,       \* the context the task of a call holds, 0 without a call
    recording,  \* the context that feeds the recording of the local voice
    up,         \* the worker runs
    toggles

audioVars == <<shown, wanted, commands, opened, context, running, call,
               recording, up, toggles>>

Context == 1..MaxContexts
Flags == [muted : BOOLEAN, deafened : BOOLEAN]
Command == [op : {"SetMuted", "SetDeafened"}, value : BOOLEAN]
           \cup [op : {"SetAudioConfig"}]

-----------------------------------------------------------------------------
Sent(more) ==
    /\ Len(commands) + Len(more) <= MaxCommands
    /\ commands' = commands \o more

Toggled == toggles < MaxToggles /\ toggles' = toggles + 1

ToggleMuted ==
    /\ Toggled
    /\ shown' = [shown EXCEPT !.muted = ~@]
    /\ Sent(<<[op |-> "SetMuted", value |-> ~shown.muted]>>)
    /\ UNCHANGED <<wanted, opened, context, running, call, recording, up>>

\* Deafening mutes too, and undeafening unmutes, whatever was before.
NextDeafen(value) == [muted |-> value, deafened |-> value]

ToggleDeafened ==
    LET value == ~shown.deafened
        muting == [op |-> "SetMuted", value |-> value]
        deafening == [op |-> "SetDeafened", value |-> value]
    IN  /\ Toggled
        /\ shown' = NextDeafen(value)
        /\ Sent(IF value THEN <<muting, deafening>> ELSE <<deafening, muting>>)
        /\ UNCHANGED <<wanted, opened, context, running, call, recording, up>>

SaveSettings ==
    /\ opened + Cardinality({i \in DOMAIN commands :
                             commands[i].op = "SetAudioConfig"}) < MaxContexts
    /\ Sent(<<[op |-> "SetAudioConfig"]>>)
    /\ UNCHANGED <<shown, wanted, opened, context, running, call, recording,
                   up, toggles>>

-----------------------------------------------------------------------------
Receives(op) == up /\ commands # <<>> /\ Head(commands).op = op
             /\ commands' = Tail(commands)

\* The worker remembers the choice and sets it on the context it holds.
SetMuted ==
    /\ Receives("SetMuted")
    /\ wanted' = [wanted EXCEPT !.muted = Head(commands).value]
    /\ context' = IF opened = 0 THEN context
                  ELSE [context EXCEPT ![opened].muted = Head(commands).value]
    /\ UNCHANGED <<shown, opened, running, call, recording, up, toggles>>

SetDeafened ==
    /\ Receives("SetDeafened")
    /\ wanted' = [wanted EXCEPT !.deafened = Head(commands).value]
    /\ context' = IF opened = 0 THEN context
                  ELSE [context EXCEPT ![opened].deafened = Head(commands).value]
    /\ UNCHANGED <<shown, opened, running, call, recording, up, toggles>>

\* A device named in the settings that is gone is replaced by the default
\* one; the stream's format is the closest the device has.  Opening fails
\* only when there is no device or it refuses.
Opens == BOOLEAN

\* AudioCapture::build and AudioPlayback::build start the threads.
ThreadsStart(c) == running' = running \cup {c}

\* A new context takes over the flags and the worker's handle.
ContextOpens ==
    /\ opened' = opened + 1
    /\ context' = [context EXCEPT ![opened + 1] = wanted]
    /\ ThreadsStart(opened + 1)

\* An error stops the worker and, with it, every task of its calls.
SetAudioConfig ==
    /\ Receives("SetAudioConfig")
    /\ \E succeeds \in Opens :
         IF succeeds
         THEN ContextOpens /\ UNCHANGED <<call, recording, up>>
         ELSE /\ up' = FALSE
              /\ call' = [p \in Peer |-> 0]
              /\ recording' = 0
              /\ UNCHANGED <<opened, context, running>>
    /\ UNCHANGED <<shown, wanted, toggles>>

\* The task of a call holds a clone of the context the worker has now.
CallStarts(p) ==
    /\ up /\ opened > 0 /\ call[p] = 0
    /\ call' = [call EXCEPT ![p] = opened]
    /\ UNCHANGED <<shown, wanted, commands, opened, context, running,
                   recording, up, toggles>>

CallEnds(p) ==
    /\ call[p] # 0
    /\ call' = [call EXCEPT ![p] = 0]
    /\ UNCHANGED <<shown, wanted, commands, opened, context, running,
                   recording, up, toggles>>

\* A recording takes the local voice from the context of the moment.
StartRecording ==
    /\ up /\ opened > 0 /\ recording = 0
    /\ recording' = opened
    /\ UNCHANGED <<shown, wanted, commands, opened, context, running, call, up,
                   toggles>>

StopRecording ==
    /\ recording # 0
    /\ recording' = 0
    /\ UNCHANGED <<shown, wanted, commands, opened, context, running, call, up,
                   toggles>>

IsHeld(c) ==
    \/ up /\ c = opened
    \/ \E p \in Peer : call[p] = c

\* The loops of a context end once the channels of their handles are closed;
\* the sinks and sources in them go with them.
LoopsEnd(c) ==
    /\ c \in running /\ ~IsHeld(c)
    /\ running' = running \ {c}
    /\ UNCHANGED <<shown, wanted, commands, opened, context, call, recording,
                   up, toggles>>

Init ==
    /\ shown = [muted |-> FALSE, deafened |-> FALSE]
    /\ wanted = shown
    /\ commands = <<[op |-> "SetAudioConfig"]>>
    /\ opened = 0
    /\ context = [c \in Context |-> shown]
    /\ running = {} /\ call = [p \in Peer |-> 0] /\ recording = 0
    /\ up = TRUE /\ toggles = 0

Next ==
    \/ ToggleMuted \/ ToggleDeafened \/ SaveSettings
    \/ SetMuted \/ SetDeafened \/ SetAudioConfig
    \/ \E p \in Peer : CallStarts(p) \/ CallEnds(p)
    \/ StartRecording \/ StopRecording
    \/ \E c \in Context : LoopsEnd(c)

Spec == Init /\ [][Next]_audioVars

-----------------------------------------------------------------------------
TypeOK ==
    /\ shown \in Flags /\ wanted \in Flags
    /\ commands \in Seq(Command) /\ Len(commands) <= MaxCommands
    /\ opened \in 0..MaxContexts /\ context \in [Context -> Flags]
    /\ running \subseteq 1..opened
    /\ call \in [Peer -> 0..opened] /\ recording \in 0..opened
    /\ up \in BOOLEAN /\ toggles \in 0..MaxToggles

\* Once the worker has handled every command, no microphone that a call
\* listens to is open while the button says muted, and no loudspeaker plays
\* while it says deafened.  The code does not keep this: see the findings in
\* README.md.
ButtonsSpeakForEveryCall ==
    up /\ commands = <<>> =>
        \A p \in Peer : call[p] # 0 =>
            /\ shown.muted => context[call[p]].muted
            /\ shown.deafened => context[call[p]].deafened

\* What a context's capture loop hands to its sinks is silence while the
\* context is muted, and nothing once the loop has ended.
CarriesVoice(c) == c \in running /\ ~context[c].muted

\* A recording that runs has the local voice in it, whether or not the
\* microphone is muted for the call and whatever calls are left.  The code does not
\* keep this: see the findings in README.md.
RecordingHasTheLocalVoice == recording # 0 => CarriesVoice(recording)
=============================================================================
