-------------------------------- MODULE Updates --------------------------------
(***************************************************************************)
(* How a client replaces itself by a newer build: from a friend             *)
(* (wire-app/src/peer_update.rs, the worker's update tasks, the prompt of   *)
(* app.rs) or from the release server (update.rs).  Every transfer writes a *)
(* staged file of its own next to the executable; a helper moves a verified *)
(* one into place once the process has gone; and every launch of the        *)
(* program first sweeps the staged files it finds.                          *)
(*                                                                          *)
(* A build is a number and 0 is the build that runs here; it also stands    *)
(* for one made for another platform, which is refused the same way.        *)
(***************************************************************************)
EXTENDS Naturals, Sequences, FiniteSets

CONSTANTS
  Peer,         \* friends who may run a newer build
  NoPeer,
  MaxBuild,     \* bound on the builds there are
  MaxFiles,     \* bound on the transfers: staged_name counts them
  MaxBegins,    \* bound on how often the user opens the flow
  MaxLaunches,  \* bound on the launches of the program beside the first
  MaxFaults     \* bound on the exchanges, transfers and launches that fail

UpdatesAssumption ==
  /\ NoPeer \notin Peer
  /\ {MaxBuild, MaxFiles, MaxBegins, MaxLaunches, MaxFaults} \subseteq Nat

VARIABLES
  builds,      \* what each friend runs
  prompt,      \* PeerUpdateState, and whether its panel is open
  candidates,  \* PeerUpdateState::candidates: the advertised builds; 0: none
  commands,    \* the commands of the flow on their way to the worker
  events,      \* its answers on their way to the screen
  asks,        \* tasks that fetch an offer for the screen
  asking,      \* the friend whose offer the worker itself waits for
  downloads,   \* peer_updates: [file, expects, sends, stage]
  staged,      \* the staged files: "unused", "absent", "partial" or a build
  hosted,      \* update_status of the release server's flow
  process,     \* of this client: "runs", "exits" (exit_requested) or "gone"
  helpers,     \* files a helper waits to move into place
  installed,   \* the build that has been moved into place; 0: still the old one
  begins, launches, faults

promptVars == <<prompt, candidates>>
workerVars == <<asks, asking, downloads>>
boundVars  == <<begins, launches, faults>>
updateVars == <<builds, prompt, candidates, commands, events, asks, asking, downloads,
                staged, hosted, process, helpers, installed, begins, launches, faults>>

Builds == 0..MaxBuild
Newer  == 1..MaxBuild          \* is_version_newer(build, 0)
File   == 1..MaxFiles

PeerUpdateState == [active : Peer \cup {NoPeer}, offer : Builds, transfer : BOOLEAN,
                    error : BOOLEAN, open : BOOLEAN]
NoFlow == [active |-> NoPeer, offer |-> 0, transfer |-> FALSE,
           error |-> FALSE, open |-> FALSE]

NoDownload == [file |-> 0, expects |-> 0, sends |-> 0, stage |-> "none"]
Download   == [file : 0..MaxFiles, expects : Builds, sends : Builds,
               stage : {"none", "connects", "asks", "receives", "received", "ended"}]

Command == [kind : {"fetch", "download"}, peer : Peer]
Event   == [kind : {"offer", "progress", "failed"}, peer : Peer, build : Builds]
             \cup [kind : {"ready"}, peer : Peer, file : File]
Answer(k, p, b) == [kind |-> k, peer |-> p, build |-> b]


Content == [is : {"unused", "absent", "partial", "whole"}, build : Builds]
Absent  == [is |-> "absent", build |-> 0]
Partial == [is |-> "partial", build |-> 0]
Whole(b) == [is |-> "whole", build |-> b]

Hosted == [status : {"idle", "checking", "uptodate", "available", "downloading", "error"},
           file : 0..MaxFiles]     \* the file of a finished download

TypeOK ==
  /\ builds \in [Peer -> Builds] /\ candidates \in [Peer -> Builds]
  /\ prompt \in PeerUpdateState
  /\ commands \in Seq(Command) /\ events \in Seq(Event)
  /\ asks \in [Peer -> 0..MaxBegins] /\ asking \in Peer \cup {NoPeer}
  /\ downloads \in [Peer -> Download]
  /\ staged \in [File -> Content] /\ hosted \in Hosted
  /\ process \in {"runs", "exits", "gone"}
  /\ helpers \subseteq File /\ installed \in Builds

Init ==
  /\ builds \in [Peer -> Builds]
  /\ prompt = NoFlow /\ candidates = [p \in Peer |-> 0]
  /\ commands = <<>> /\ events = <<>>
  /\ asks = [p \in Peer |-> 0] /\ asking = NoPeer
  /\ downloads = [p \in Peer |-> NoDownload]
  /\ hosted = [status |-> "checking", file |-> 0] \* a launch checks at once
  /\ process = "runs"
  /\ staged = [f \in File |-> [is |-> "unused", build |-> 0]]
  /\ helpers = {} /\ installed = 0
  /\ begins = 0 /\ launches = 0 /\ faults = 0

Fault   == faults < MaxFaults /\ faults' = faults + 1
Runs    == process = "runs"
Unused  == {f \in File : staged[f].is = "unused"}
NextFile == CHOOSE f \in Unused : \A g \in Unused : f <= g
Emit(e) == events' = Append(events, e)
-----------------------------------------------------------------------------
(***************************************************************************)
(* Friends and their presence: PeerUpdateProtocol answers from the build    *)
(* that runs, whose header it caches, and refuses whoever is not older.     *)
(***************************************************************************)
FriendUpdates(p) ==
  /\ builds[p] < MaxBuild /\ \E b \in Newer : b > builds[p] /\ builds' = [builds EXCEPT ![p] = b]
  /\ UNCHANGED <<promptVars, commands, events, workerVars, staged, hosted, process,
                 helpers, installed, boundVars>>

\* sync_peer_update_candidates, from a report of presence: online with its
\* build, or gone.
Presence(p) ==
  /\ Runs
  /\ candidates' \in {[candidates EXCEPT ![p] = b] : b \in {0, builds[p]}}
  /\ candidates' # candidates
  /\ UNCHANGED <<builds, prompt, commands, events, workerVars, staged, hosted, process,
                 helpers, installed, boundVars>>

Refuses(p) == builds[p] \notin Newer
-----------------------------------------------------------------------------
(***************************************************************************)
(* The user and the prompt.                                                *)
(***************************************************************************)
InFlight == prompt.transfer

\* A click on the title bar: the best candidate, or the panel of the transfer
\* under way.
BeginPeerUpdate(p) ==
  /\ Runs /\ begins < MaxBegins /\ candidates[p] # 0
  /\ \A q \in Peer : candidates[q] <= candidates[p]
  /\ begins' = begins + 1
  /\ IF InFlight
     THEN prompt' = [prompt EXCEPT !.open = TRUE] /\ UNCHANGED commands
     ELSE /\ prompt' = [NoFlow EXCEPT !.active = p, !.open = TRUE]
          /\ commands' = Append(commands, [kind |-> "fetch", peer |-> p])
  /\ UNCHANGED <<builds, candidates, events, workerVars, staged, hosted, process, helpers,
                 installed, launches, faults>>

\* ui_peer_update_prompt closes itself when the friend has gone and nothing
\* moves, and "Not now" resets the flow; neither is there during a transfer.
ResetPrompt ==
  /\ Runs /\ prompt.open /\ prompt.active # NoPeer /\ ~InFlight
  /\ prompt' = NoFlow
  /\ UNCHANGED <<builds, candidates, commands, events, workerVars, staged, hosted, process,
                 helpers, installed, boundVars>>

Accept ==
  /\ Runs /\ prompt.open /\ ~InFlight /\ prompt.offer \in Newer
  /\ candidates[prompt.active] # 0
  /\ prompt' = [prompt EXCEPT !.transfer = TRUE, !.open = FALSE]
  /\ commands' = Append(commands, [kind |-> "download", peer |-> prompt.active])
  /\ UNCHANGED <<builds, candidates, events, workerVars, staged, hosted, process, helpers,
                 installed, boundVars>>
-----------------------------------------------------------------------------
(***************************************************************************)
(* The worker and its tasks.  A task that has ended is joined in the step   *)
(* that ends it: the loop has been round many times before the user has     *)
(* gone through another offer.                                             *)
(***************************************************************************)
Working == process # "gone" /\ asking = NoPeer

FetchPeerUpdateOffer ==
  /\ Working /\ commands # <<>> /\ Head(commands).kind = "fetch"
  /\ asks' = [asks EXCEPT ![Head(commands).peer] = @ + 1]
  /\ commands' = Tail(commands)
  /\ UNCHANGED <<builds, promptVars, events, asking, downloads, staged, hosted, process,
                 helpers, installed, boundVars>>

FetchOffer(p) ==
  /\ process # "gone" /\ asks[p] > 0
  /\ asks' = [asks EXCEPT ![p] = @ - 1]
  /\ \/ ~Refuses(p) /\ Emit(Answer("offer", p, builds[p])) /\ UNCHANGED faults
     \/ Refuses(p) /\ Emit(Answer("failed", p, 0)) /\ UNCHANGED faults
     \/ Fault /\ Emit(Answer("failed", p, 0))
  /\ UNCHANGED <<builds, promptVars, commands, asking, downloads, staged, hosted, process,
                 helpers, installed, begins, launches>>

Pending(p) == downloads[p].stage # "none"

\* The handler asks for the offer once more and holds up the worker meanwhile.
DownloadPeerUpdate ==
  /\ Working /\ commands # <<>> /\ Head(commands).kind = "download"
  /\ asking' = IF Pending(Head(commands).peer) THEN NoPeer ELSE Head(commands).peer
  /\ commands' = Tail(commands)
  /\ UNCHANGED <<builds, promptVars, events, asks, downloads, staged, hosted, process,
                 helpers, installed, boundVars>>

OfferAnswered ==
  /\ process # "gone" /\ asking # NoPeer
  /\ asking' = NoPeer
  /\ \/ /\ ~Refuses(asking) /\ Unused # {}
        /\ downloads' = [downloads EXCEPT ![asking] =
             [NoDownload EXCEPT !.file = NextFile, !.expects = builds[asking],
                                !.stage = "connects"]]
        /\ staged' = [staged EXCEPT ![NextFile] = Absent]
        /\ UNCHANGED <<events, faults>>
     \/ /\ \/ (Refuses(asking) \/ Unused = {}) /\ UNCHANGED faults
           \/ Fault
        /\ Emit(Answer("failed", asking, 0)) /\ UNCHANGED <<downloads, staged>>
  /\ UNCHANGED <<builds, promptVars, commands, asks, hosted, process, helpers, installed,
                 begins, launches>>

\* run_peer_update_download.  Its end clears the entry in every case.
StillPending(p) ==   \* mutation: the friend stays in pending_peer_updates
  downloads' = [downloads EXCEPT ![p] = [NoDownload EXCEPT !.stage = "ended"]]
Ended(p) == downloads' = [downloads EXCEPT ![p] = NoDownload]
Dropped(f) == [staged EXCEPT ![f] = Absent]

\* The connection is there and the request is written.
Connected(p) ==
  /\ process # "gone" /\ downloads[p].stage = "connects"
  /\ downloads' = [downloads EXCEPT ![p].stage = "asks"]
  /\ UNCHANGED <<builds, promptVars, commands, events, asks, asking, staged, hosted, process,
                 helpers, installed, boundVars>>

HeaderArrives(p) ==
  /\ process # "gone" /\ downloads[p].stage = "asks" /\ ~Refuses(p)
  /\ downloads' = [downloads EXCEPT ![p].stage = "receives", ![p].sends = builds[p]]
  /\ staged' = [staged EXCEPT ![downloads[p].file] = Partial]
  /\ UNCHANGED <<builds, promptVars, commands, events, asks, asking, hosted, process,
                 helpers, installed, boundVars>>

\* on_progress; one report at a time stands for the many there are.
Progress(p) ==
  /\ process # "gone" /\ downloads[p].stage = "receives"
  /\ \A i \in DOMAIN events : events[i].kind # "progress"
  /\ Emit(Answer("progress", p, 0))
  /\ UNCHANGED <<builds, promptVars, commands, workerVars, staged, hosted, process, helpers,
                 installed, boundVars>>

\* A file that has been swept away under the transfer stays away.
BodyArrives(p) ==
  LET f == downloads[p].file IN
  /\ process # "gone" /\ downloads[p].stage = "receives"
  /\ downloads' = [downloads EXCEPT ![p].stage = "received"]
  /\ staged' = IF staged[f] = Partial
               THEN [staged EXCEPT ![f] = Whole(downloads[p].sends)] ELSE staged
  /\ UNCHANGED <<builds, promptVars, commands, events, asks, asking, hosted, process,
                 helpers, installed, boundVars>>

AwaitsHeader(p) == downloads[p].stage = "asks"

TransferFails(p) ==
  /\ process # "gone"
  /\ \/ downloads[p].stage \in {"connects", "asks", "receives"} /\ Fault
     \/ AwaitsHeader(p) /\ Refuses(p) /\ UNCHANGED faults
  /\ staged' = Dropped(downloads[p].file) /\ Ended(p)
  /\ Emit(Answer("failed", p, 0))
  /\ UNCHANGED <<builds, promptVars, commands, asks, asking, hosted, process, helpers,
                 installed, begins, launches>>

\* StagedUpdate::verify, against the digest of the offer the worker looked at.
Verified(f, b) == staged[f] = Whole(b)

OnPeerUpdateFinished(p) ==
  LET f == downloads[p].file IN
  /\ process # "gone" /\ downloads[p].stage = "received"
  /\ Ended(p)
  /\ IF Verified(f, downloads[p].expects)
     THEN Emit([kind |-> "ready", peer |-> p, file |-> f]) /\ UNCHANGED staged
     ELSE Emit(Answer("failed", p, 0)) /\ staged' = Dropped(f)
  /\ UNCHANGED <<builds, promptVars, commands, asks, asking, hosted, process, helpers,
                 installed, boundVars>>
-----------------------------------------------------------------------------
(***************************************************************************)
(* The answers on the screen.  One for a friend who is not active counts    *)
(* for nothing, but its file goes.                                         *)
(***************************************************************************)
IsActive(e) == prompt.active = e.peer
TakeEvent(k) == Runs /\ events # <<>> /\ Head(events).kind = k /\ events' = Tail(events)

OnPeerUpdateOffer ==
  LET e == Head(events) IN
  /\ TakeEvent("offer")
  /\ prompt' = IF ~IsActive(e) THEN prompt
               ELSE IF e.build \notin Newer THEN [prompt EXCEPT !.error = TRUE, !.open = TRUE]
               ELSE [prompt EXCEPT !.offer = e.build, !.error = FALSE, !.open = TRUE]
  /\ UNCHANGED <<builds, candidates, commands, workerVars, staged, hosted, process, helpers,
                 installed, boundVars>>

OnPeerUpdateProgress ==
  /\ TakeEvent("progress")
  /\ prompt' = IF IsActive(Head(events))
               THEN [prompt EXCEPT !.transfer = TRUE, !.open = TRUE] ELSE prompt
  /\ UNCHANGED <<builds, candidates, commands, workerVars, staged, hosted, process, helpers,
                 installed, boundVars>>

OnPeerUpdateFailed ==
  /\ TakeEvent("failed")
  /\ prompt' = IF IsActive(Head(events))
               THEN [prompt EXCEPT !.error = TRUE, !.transfer = FALSE, !.open = TRUE]
               ELSE prompt
  /\ UNCHANGED <<builds, candidates, commands, workerVars, staged, hosted, process, helpers,
                 installed, boundVars>>

\* install_and_relaunch starts the helper, or cannot.
InstallAndRelaunch(f) == helpers' = helpers \cup {f} /\ process' = "exits" /\ UNCHANGED <<staged, faults>>
CannotInstall(f) == Fault /\ staged' = Dropped(f) /\ UNCHANGED <<helpers, process>>

\* The error is assigned and then cleared with the rest by reset().
OnPeerUpdateReady ==
  LET e == Head(events) IN
  /\ TakeEvent("ready")
  /\ \/ /\ ~IsActive(e) /\ staged' = Dropped(e.file)
        /\ UNCHANGED <<prompt, helpers, process, faults>>
     \/ IsActive(e) /\ InstallAndRelaunch(e.file) /\ prompt' = NoFlow
     \/ IsActive(e) /\ CannotInstall(e.file) /\ prompt' = [NoFlow EXCEPT !.open = TRUE]
  /\ UNCHANGED <<builds, candidates, commands, workerVars, hosted, installed, begins,
                 launches>>
-----------------------------------------------------------------------------
(***************************************************************************)
(* The release server: a thread for each check and each download.           *)
(***************************************************************************)
Status(s) == hosted' = [status |-> s, file |-> 0]

StartUpdateCheck ==
  /\ Runs /\ hosted.status \in {"idle", "uptodate", "error"} /\ begins < MaxBegins
  /\ begins' = begins + 1 /\ Status("checking")
  /\ UNCHANGED <<builds, promptVars, commands, events, workerVars, staged, process, helpers,
                 installed, launches, faults>>

CheckFinished ==
  /\ Runs /\ hosted.status = "checking"
  /\ \/ \E s \in {"available", "uptodate"} : Status(s) /\ UNCHANGED faults
     \/ Status("error") /\ Fault
  /\ UNCHANGED <<builds, promptVars, commands, events, workerVars, staged, process, helpers,
                 installed, begins, launches>>

StartUpdateDownload ==
  /\ Runs /\ hosted.status = "available" /\ Status("downloading")
  /\ UNCHANGED <<builds, promptVars, commands, events, workerVars, staged, process, helpers,
                 installed, boundVars>>

\* The archive is checked in memory; its executable is written in one go.
DownloadUpdate ==
  /\ process # "gone" /\ hosted.status = "downloading" /\ hosted.file = 0
  /\ \/ /\ Unused # {}
        /\ staged' = [staged EXCEPT ![NextFile] = Whole(MaxBuild)]
        /\ hosted' = [hosted EXCEPT !.file = NextFile] /\ UNCHANGED faults
     \/ /\ (Unused = {} /\ UNCHANGED faults) \/ Fault
        /\ Status("error") /\ UNCHANGED staged
  /\ UNCHANGED <<builds, promptVars, commands, events, workerVars, process, helpers,
                 installed, begins, launches>>

DownloadFinished ==
  /\ Runs /\ hosted.status = "downloading" /\ hosted.file # 0
  /\ \/ InstallAndRelaunch(hosted.file) /\ hosted' = [hosted EXCEPT !.file = 0]
     \/ CannotInstall(hosted.file) /\ Status("error")
  /\ UNCHANGED <<builds, promptVars, commands, events, workerVars, installed, begins,
                 launches>>
-----------------------------------------------------------------------------
(***************************************************************************)
(* Processes.  main sweeps before it asks for the instance lock, so that a  *)
(* second launch sweeps too, and only then hands over and ends.             *)
(***************************************************************************)
SweepStaged == [f \in File |-> IF staged[f].is = "unused" THEN staged[f] ELSE Absent]

SecondLaunch ==
  /\ process # "gone" /\ launches < MaxLaunches /\ launches' = launches + 1
  /\ staged' = SweepStaged
  /\ UNCHANGED <<builds, promptVars, commands, events, workerVars, hosted, process, helpers,
                 installed, begins, faults>>

\* The user quits, the process dies, or the window has closed for the helper.
Exit ==
  /\ process = "exits" \/ (Runs /\ launches < MaxLaunches)
  /\ process' = "gone"
  /\ prompt' = NoFlow /\ candidates' = [p \in Peer |-> 0]
  /\ commands' = <<>> /\ events' = <<>>
  /\ asks' = [p \in Peer |-> 0] /\ asking' = NoPeer
  /\ downloads' = [p \in Peer |-> NoDownload]
  /\ Status("checking")
  /\ UNCHANGED <<builds, staged, helpers, installed, boundVars>>

Launch ==
  /\ process = "gone" /\ installed = 0 /\ launches < MaxLaunches /\ launches' = launches + 1
  /\ process' = "runs" /\ staged' = SweepStaged
  /\ UNCHANGED <<builds, promptVars, commands, events, workerVars, hosted, helpers, installed,
                 begins, faults>>

\* The helper tries for two minutes to move its file over the executable.
HelperMoves(f) ==
  /\ process = "gone" /\ f \in helpers /\ staged[f].is # "absent"
  /\ installed' = staged[f].build
  /\ staged' = Dropped(f) /\ helpers' = helpers \ {f}
  /\ UNCHANGED <<builds, promptVars, commands, events, workerVars, hosted, process,
                 boundVars>>

HelperGivesUp(f) ==
  /\ f \in helpers /\ staged[f].is = "absent"
  /\ helpers' = helpers \ {f}
  /\ UNCHANGED <<builds, promptVars, commands, events, workerVars, staged, hosted, process,
                 installed, boundVars>>
-----------------------------------------------------------------------------
Screen ==
  \/ OnPeerUpdateOffer \/ OnPeerUpdateProgress \/ OnPeerUpdateFailed \/ OnPeerUpdateReady
  \/ CheckFinished \/ DownloadFinished

Next ==
  \/ \E p \in Peer :
       FriendUpdates(p) \/ Presence(p) \/ BeginPeerUpdate(p) \/ FetchOffer(p)
         \/ Connected(p) \/ HeaderArrives(p) \/ Progress(p) \/ BodyArrives(p) \/ TransferFails(p)
         \/ OnPeerUpdateFinished(p)
  \/ ResetPrompt \/ Accept
  \/ FetchPeerUpdateOffer \/ DownloadPeerUpdate \/ OfferAnswered
  \/ Screen \/ StartUpdateCheck \/ StartUpdateDownload \/ DownloadUpdate
  \/ SecondLaunch \/ Exit \/ Launch
  \/ \E f \in File : HelperMoves(f) \/ HelperGivesUp(f)

\* The loops of the screen and of the worker go round.  The exchange for an offer
\* has a timeout (peer_update.rs:499), and so has each part of a download but one:
\* the connection (533) and every chunk of the body (572), but not the wait for
\* the header (541), which a friend who accepts and says nothing never ends.
WeakStep(i, p) ==
  \/ i = 1 /\ Screen
  \/ i = 2 /\ FetchPeerUpdateOffer
  \/ i = 3 /\ DownloadPeerUpdate
  \/ i = 4 /\ OfferAnswered
  \/ i = 5 /\ ~AwaitsHeader(p)
            /\ \/ Connected(p) \/ BodyArrives(p)
               \/ TransferFails(p) \/ OnPeerUpdateFinished(p)
Fairness == \A i \in 1..5, p \in Peer : WF_updateVars(WeakStep(i, p))

Spec == Init /\ [][Next]_updateVars /\ Fairness
-----------------------------------------------------------------------------
HasEnded == ~prompt.transfer \/ process # "runs"
Stalled == prompt.active # NoPeer /\ AwaitsHeader(prompt.active)

\* A transfer the user has accepted does not hang on the screen: it is installed
\* or its end is shown, unless the friend it comes from has accepted the
\* connection and never answers (worker.rs on_peer_update_finished: "a failure
\* must not leave the peer marked busy").
TransferEnds == []<>(HasEnded \/ Stalled)

\* What a launch sweeps is left behind by a run before it (update.rs:39).
SweepsOnlyLeftovers ==
  [][SecondLaunch => \A f \in File : staged'[f] # staged[f] => f \notin helpers]_updateVars
=============================================================================
