------------------------------ MODULE Presenter ------------------------------
(***************************************************************************)
(* The window of the program and what reaches it (host.rs, activation.rs,  *)
(* hidden_event_loop.rs, tray.rs, main.rs, runtime/mod.rs, app.rs).  One   *)
(* process holds the instance lock.  A further launch leaves a request     *)
(* file and ends; a watcher thread polls for the file, the tray answers    *)
(* clicks, and the event loop throws redraws away while the window is      *)
(* hidden.  Service threads publish events into a bounded queue that only  *)
(* a frame of the window empties.                                          *)
(***************************************************************************)
EXTENDS Integers, Sequences

CONSTANTS
    Capacity,     \* events the queue holds (EVENT_BUFFER_CAPACITY)
    MaxFacts,     \* bound: state events the service publishes
    MaxLaunches,  \* bound: times the program is started
    MaxChoices    \* bound: closes, tray clicks and streams that start

PresenterAssumption ==
    /\ Capacity \in Nat \ {0}
    /\ MaxFacts \in Nat /\ MaxLaunches \in Nat /\ MaxChoices \in Nat

VARIABLES
    process,    \* "gone", "running", or "stopping": window gone, lock held
    request,    \* whether activation.request exists
    visible,    \* App::window_visible
    hidden,     \* the flag the event loop drops redraws by
    onScreen,   \* whether the native window is shown
    posted,     \* a ShowWindowAsync the GUI thread has not executed
    active,     \* EventPublisher::presenter_active
    toTray,     \* App::close_to_tray
    quitting,   \* App::quit_requested
    closing,    \* the viewport's close request
    clicks,     \* signals of the tray nobody has read
    redraw,     \* whether a repaint has been asked for
    gui,        \* where the GUI thread is in App::update, "idle" between frames
    retained,   \* state events show_window took out to put back
    queue,      \* the event queue: Frame or the number of a state event
    publisher,  \* the service thread that is publishing
    fact, view, \* last state event of the service, last one the window applied
    plays, kept,   \* a remote stream decodes; hiding has paused it
    watcher,    \* the activation watcher, "asleep" or having "seen" the file
    launches, choices

windowVars == <<visible, hidden, onScreen, posted, closing, toTray, quitting>>
eventVars == <<active, retained, queue, publisher, fact, view, plays, kept>>
hostVars == <<process, request, watcher, launches>>
presenterVars == <<windowVars, eventVars, hostVars, clicks, redraw, gui, choices>>

Frame == 0
Fact == 1 .. MaxFacts
TrayAction == {"Show", "Quit"}
Idle == [pc |-> "idle", event |-> Frame, wakes |-> FALSE]

TypeOK ==
    /\ process \in {"gone", "running", "stopping"}
    /\ {request, visible, hidden, onScreen, posted, active, toTray,
        quitting, closing, redraw, plays, kept} \subseteq BOOLEAN
    /\ clicks \in Seq(TrayAction)
    /\ gui \in {"idle", "tray", "trayShow", "activation", "show", "close", "events"}
    /\ retained \in Seq(Fact)
    /\ queue \in Seq(Fact \cup {Frame}) /\ Len(queue) <= Capacity
    /\ publisher \in [pc : {"idle", "send", "wake"}, event : Fact \cup {Frame}, wakes : BOOLEAN]
    /\ {fact, view} \subseteq 0 .. MaxFacts
    /\ watcher \in {"asleep", "seen"}
    /\ launches \in 0 .. MaxLaunches /\ choices \in 0 .. MaxChoices

Init ==
    /\ process = "gone" /\ request \in BOOLEAN
    /\ visible = FALSE /\ hidden = TRUE /\ onScreen = FALSE /\ posted = FALSE
    /\ active = FALSE /\ toTray = FALSE /\ quitting = FALSE /\ closing = FALSE
    /\ clicks = <<>> /\ redraw = FALSE /\ gui = "idle"
    /\ retained = <<>> /\ queue = <<>> /\ publisher = Idle
    /\ fact = 0 /\ view = 0 /\ plays = FALSE /\ kept = FALSE
    /\ watcher = "asleep" /\ launches = 0 /\ choices = 0

-----------------------------------------------------------------------------
(* Starting the program. *)

\* Without a tray icon a hidden start fails, and closing the window ends the
\* program.
TrayIcon(shown) == \E tray \in BOOLEAN : (tray \/ shown) /\ toTray' = tray

NewApp(shown) ==
    /\ visible' = shown /\ hidden' = ~shown /\ onScreen' = shown
    /\ active' = shown /\ redraw' = shown
    /\ posted' = FALSE /\ quitting' = FALSE /\ closing' = FALSE
    /\ view' = 0 /\ plays' = FALSE /\ kept' = FALSE

\* The lock is free: a leftover request is removed, the service starts with an
\* empty queue, and the first frame hands the presenter its callback.
Start(shown) ==
    /\ process = "gone" /\ launches < MaxLaunches
    /\ process' = "running" /\ request' = FALSE /\ launches' = launches + 1
    /\ TrayIcon(shown) /\ NewApp(shown)
    /\ gui' = "idle" /\ clicks' = <<>> /\ watcher' = "asleep"
    /\ queue' = <<>> /\ retained' = <<>> /\ publisher' = Idle
    /\ fact' = 0
    /\ UNCHANGED choices

\* The lock is taken: this launch leaves a request and ends, whether the holder
\* still has a window or is only waiting for its service to stop.
LaunchAgain ==
    /\ process # "gone" /\ launches < MaxLaunches
    /\ request' = TRUE /\ launches' = launches + 1
    /\ UNCHANGED <<windowVars, eventVars, process, watcher, clicks, redraw, gui, choices>>

\* host.shutdown has joined the worker; the lock goes with the host.
Stopped ==
    /\ process = "stopping" /\ process' = "gone"
    /\ UNCHANGED <<windowVars, eventVars, request, watcher, launches, clicks, redraw, gui, choices>>

-----------------------------------------------------------------------------
(* The watcher thread, the tray and the user. *)

\* The file is there.
WatcherLooks ==
    /\ process = "running" /\ watcher = "asleep" /\ request
    /\ watcher' = "seen"
    /\ UNCHANGED <<windowVars, eventVars, process, request, launches, clicks, redraw, gui, choices>>

\* What the watcher would do if it left the event loop's flag alone.
WatcherOnlyShows ==
    /\ watcher = "seen" /\ watcher' = "asleep"
    /\ posted' = TRUE /\ redraw' = TRUE
    /\ UNCHANGED hidden

\* It lets redraws through, posts the native show and asks for a frame, whatever
\* has become of the file since.
WatcherReveals ==
    /\ watcher = "seen" /\ watcher' = "asleep"
    /\ hidden' = FALSE /\ posted' = TRUE /\ redraw' = TRUE

WatcherActs ==
    /\ process = "running" /\ WatcherReveals
    /\ UNCHANGED <<visible, onScreen, closing, toTray, quitting, eventVars,
                   process, request, launches, clicks, gui, choices>>

\* Between frames the GUI thread pumps messages: the posted show, ...
PumpShow ==
    /\ process = "running" /\ gui = "idle" /\ posted
    /\ posted' = FALSE /\ onScreen' = TRUE
    /\ UNCHANGED <<visible, hidden, closing, toTray, quitting, eventVars, hostVars,
                   clicks, redraw, gui, choices>>

\* ... a click on the tray icon or its menu, which reveals the window at once, ...
TrayClick(what) ==
    /\ process = "running" /\ gui = "idle" /\ toTray /\ choices < MaxChoices
    /\ choices' = choices + 1
    /\ clicks' = Append(clicks, what)
    /\ hidden' = FALSE /\ onScreen' = TRUE /\ redraw' = TRUE
    /\ UNCHANGED <<visible, posted, closing, toTray, quitting, eventVars, hostVars, gui>>

\* ... and the user closing a window that is on the screen.
UserCloses ==
    /\ process = "running" /\ gui = "idle" /\ onScreen /\ choices < MaxChoices
    /\ choices' = choices + 1
    /\ closing' = TRUE /\ redraw' = TRUE
    /\ UNCHANGED <<visible, hidden, onScreen, posted, toTray, quitting, eventVars, hostVars,
                   clicks, gui>>

-----------------------------------------------------------------------------
(* One frame of the window. *)

\* A redraw becomes a frame, or is thrown away while the window is hidden.
Redraw ==
    /\ process = "running" /\ gui = "idle" /\ redraw
    /\ redraw' = FALSE
    /\ gui' = IF hidden THEN "idle" ELSE "tray"
    /\ UNCHANGED <<windowVars, eventVars, hostVars, clicks, choices>>

\* process_tray reads one signal; Quit ends the loop.
ProcessTray ==
    /\ gui = "tray"
    /\ \/ clicks = <<>> /\ gui' = "activation" /\ UNCHANGED <<clicks, quitting, closing>>
       \/ /\ clicks # <<>> /\ Head(clicks) = "Show"
          /\ clicks' = Tail(clicks) /\ gui' = "trayShow"
          /\ UNCHANGED <<quitting, closing>>
       \/ /\ clicks # <<>> /\ Head(clicks) = "Quit"
          /\ clicks' = Tail(clicks) /\ gui' = "activation"
          /\ quitting' = TRUE /\ closing' = TRUE
    /\ UNCHANGED <<visible, hidden, onScreen, posted, toTray, eventVars, hostVars, redraw, choices>>

\* take_activation_request removes the file; the window is shown for it.
TakeActivationRequest ==
    /\ gui = "activation"
    /\ request' = FALSE
    /\ gui' = IF request THEN "show" ELSE "close"
    /\ UNCHANGED <<windowVars, eventVars, process, watcher, launches, clicks, redraw, choices>>

\* The state events of a queue, in their order.
StateEvents(q) ==
    LET upTo[i \in 0 .. Len(q)] ==
          IF i = 0 THEN <<>>
          ELSE IF q[i] = Frame THEN upTo[i - 1] ELSE Append(upTo[i - 1], q[i])
    IN  upTo[Len(q)]

\* show_window takes everything out of the queue and keeps the state events.
\* It has become visible before that and is active only after it.
Discard ==
    /\ gui \in {"trayShow", "show"} /\ ~visible
    /\ visible' = TRUE /\ hidden' = FALSE
    /\ retained' = StateEvents(queue)
    /\ queue' = <<>>
    /\ UNCHANGED <<onScreen, posted, closing, toTray, quitting, active, publisher, fact, view,
                   plays, kept, hostVars, clicks, redraw, gui, choices>>

SentUnbounded(event) == Append(queue, event)  \* mutation: a channel without bound
\* The queue with an event put in, which a full queue refuses.
Sent(event) == IF Len(queue) < Capacity THEN Append(queue, event) ELSE queue

\* They go back one by one, behind whatever the service has sent meanwhile.
PutBack ==
    /\ gui \in {"trayShow", "show"} /\ visible /\ retained # <<>>
    /\ queue' = Sent(Head(retained)) /\ retained' = Tail(retained)
    /\ UNCHANGED <<windowVars, active, publisher, fact, view, plays, kept, hostVars,
                   clicks, redraw, gui, choices>>

\* The streams hiding has paused are watched again.
ResumeHiddenVideo == plays' = (plays \/ kept) /\ kept' = FALSE

\* The end of show_window: the service may wake the window again, the
\* paused streams are watched again, and another frame is asked for.
Shown ==
    /\ gui \in {"trayShow", "show"} /\ visible /\ retained = <<>>
    /\ active' = TRUE
    /\ ResumeHiddenVideo
    /\ onScreen' = TRUE /\ redraw' = TRUE
    /\ gui' = IF gui = "trayShow" THEN "tray" ELSE "close"
    /\ UNCHANGED <<visible, hidden, posted, closing, toTray, quitting, retained, queue,
                   publisher, fact, view, hostVars, clicks, choices>>

\* handle_close_request: without a tray, or when quitting, the close is left to
\* the event loop.  Otherwise it is cancelled and a window that counts as
\* visible is hidden.
PauseRemoteVideo == kept' = plays /\ plays' = FALSE

Hides == closing /\ toTray /\ ~quitting
HandleCloseRequest ==
    /\ gui = "close" /\ gui' = "events"
    /\ closing' = (closing /\ ~Hides)
    /\ IF Hides /\ visible
          THEN /\ visible' = FALSE /\ hidden' = TRUE /\ active' = FALSE /\ onScreen' = FALSE
               /\ PauseRemoteVideo
          ELSE UNCHANGED <<visible, hidden, active, onScreen, plays, kept>>
    /\ UNCHANGED <<posted, toTray, quitting, retained, queue, publisher, fact, view, hostVars,
                   clicks, redraw, choices>>

\* process_events empties the queue; the last state event is what the window
\* shows.  A close nobody has cancelled then ends the event loop: the window and
\* its watcher are dropped, and the service is told to stop.
ProcessEvents ==
    /\ gui = "events" /\ gui' = "idle"
    /\ queue' = <<>>
    /\ LET facts == StateEvents(queue)
       IN  view' = IF facts = <<>> THEN view ELSE facts[Len(facts)]
    /\ IF closing
          THEN /\ process' = "stopping"
               /\ active' = FALSE /\ visible' = FALSE /\ onScreen' = FALSE /\ posted' = FALSE
               /\ redraw' = FALSE /\ watcher' = "asleep" /\ clicks' = <<>>
          ELSE UNCHANGED <<process, active, visible, onScreen, posted, redraw, watcher, clicks>>
    /\ UNCHANGED <<hidden, closing, toTray, quitting, retained, publisher, fact, plays, kept,
                   request, launches, choices>>

-----------------------------------------------------------------------------
(* The service. *)

\* publish looks at presenter_active first; pictures never wake the window.
PublishFact ==
    /\ process # "gone" /\ publisher = Idle /\ fact < MaxFacts
    /\ fact' = fact + 1
    /\ publisher' = [pc |-> "send", event |-> fact', wakes |-> active]
    /\ UNCHANGED <<windowVars, active, retained, queue, view, plays, kept, hostVars,
                   clicks, redraw, gui, choices>>

PublishFrame ==
    /\ process = "running" /\ publisher = Idle /\ plays
    /\ publisher' = [pc |-> "send", event |-> Frame, wakes |-> FALSE]
    /\ UNCHANGED <<windowVars, active, retained, queue, fact, view, plays, kept, hostVars,
                   clicks, redraw, gui, choices>>

\* try_send: a full queue drops the event.
Send ==
    /\ process # "gone" /\ publisher.pc = "send"
    /\ queue' = Sent(publisher.event)
    /\ publisher' = IF publisher.wakes THEN [publisher EXCEPT !.pc = "wake"] ELSE Idle
    /\ UNCHANGED <<windowVars, active, retained, fact, view, plays, kept, hostVars,
                   clicks, redraw, gui, choices>>

\* The callback asks for a repaint; it is gone once the client is dropped.
Wake ==
    /\ publisher.pc = "wake" /\ publisher' = Idle
    /\ redraw' = (redraw \/ process = "running")
    /\ UNCHANGED <<windowVars, active, retained, queue, fact, view, plays, kept, hostVars,
                   clicks, gui, choices>>

\* A participant starts to share.  The stream plays at once, window or not.
StreamStarts ==
    /\ process = "running" /\ ~plays /\ ~kept /\ choices < MaxChoices
    /\ plays' = TRUE /\ choices' = choices + 1
    /\ UNCHANGED <<windowVars, active, kept, retained, queue, publisher, fact, view, hostVars,
                   clicks, redraw, gui>>

-----------------------------------------------------------------------------
Watcher == WatcherLooks \/ WatcherActs
FrameStep ==
    \/ Redraw \/ ProcessTray \/ TakeActivationRequest \/ Discard \/ PutBack \/ Shown
    \/ HandleCloseRequest \/ ProcessEvents
Gui == PumpShow \/ FrameStep
Service == PublishFact \/ PublishFrame \/ Send \/ Wake \/ StreamStarts
User == UserCloses \/ \E what \in TrayAction : TrayClick(what)
Launch == LaunchAgain \/ \E shown \in BOOLEAN : Start(shown)

Next == Watcher \/ Gui \/ Service \/ User \/ Launch \/ Stopped

\* The watcher polls every 100 ms, the event loop serves its messages and redraws,
\* and a step of a frame is never the last one.
WeakStep(i) ==
    \/ i = 1 /\ Watcher
    \/ i = 2 /\ FrameStep
Fairness == \A i \in 1..2 : WF_presenterVars(WeakStep(i))

Spec == Init /\ [][Next]_presenterVars /\ Fairness

-----------------------------------------------------------------------------
\* A launch that found the program running and left a request gets its window:
\* it is shown, or the program ends.  The watcher, the close that hides the
\* window again and the event loop that drops redraws each write the same flag,
\* and the request must survive every order of them (activation.rs, app.rs).
IsAnswered ==
    \/ ~request /\ gui # "show"
    \/ visible
    \/ process # "running"
AskedWindowComes == []<>IsAnswered
=============================================================================
