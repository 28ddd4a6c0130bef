------------------------------- MODULE Profiles -------------------------------
(***************************************************************************)
(* The picture of one user as another user sees it (profile.rs,            *)
(* app/profile_ui.rs, worker.rs).  The owner's window writes files and     *)
(* tells its worker, which announces the hash with its presence and serves *)
(* the bytes on request.  The viewer learns hashes from presence and from  *)
(* every message of a timeline, and fetches bytes it has no match for.  A  *)
(* picture and its hash are one number; None is having no picture.         *)
(***************************************************************************)
EXTENDS Integers, Sequences

CONSTANTS
    MaxPictures,  \* bound: pictures the owner chooses
    MaxMessages,  \* bound: messages the owner sends
    MaxFetches,   \* fetches the viewer's worker runs at once (8)
    MaxFaults,    \* bound: fetches that fail and viewer restarts
    MayRemove     \* whether the owner may end up without a picture

ProfilesAssumption ==
    /\ MaxPictures \in Nat \ {0} /\ MaxFetches \in Nat \ {0}
    /\ MaxMessages \in Nat /\ MaxFaults \in Nat /\ MayRemove \in BOOLEAN

VARIABLES
    own,        \* AppState::own_avatar_hash of the owner
    editing,    \* the bytes are written or removed, profile.json not yet
    chosen,     \* how many pictures have been chosen
    disk,       \* avatar.png and the hash in profile.json
    commands,   \* SetOwnProfile commands the owner's worker has not seen
    announced,  \* the hash in the presence snapshot
    served,     \* the ServedProfile: bytes and hash
    beat,       \* the hash in a heartbeat on its way, or Nothing
    timeline,   \* hashes in the owner's messages, in the viewer's order
    known,      \* PeerProfile::avatar_hash, on the viewer's disk too
    bytes,      \* peer_avatar_bytes of the viewer
    cache,      \* the file of peer_avatar_path
    cooling,    \* pending_profile_fetches has an entry younger than a minute
    asked,      \* FetchPeerProfiles commands of the viewer, not yet seen
    fetches,    \* fetches under way: what was served, or Nothing so far
    faults

ownerVars == <<own, editing, chosen, disk, commands, announced, served>>
viewerVars == <<known, bytes, cache, cooling, asked>>
profileVars == <<ownerVars, beat, timeline, viewerVars, fetches, faults>>

None == 0
Nothing == -1
Picture == 0 .. MaxPictures
Profile == [hash : Picture, png : Picture]
Unserved == [hash |-> Nothing, png |-> Nothing]

TypeOK ==
    /\ {own, announced, known, bytes, cache} \subseteq Picture
    /\ editing \in {"no", "picture", "removal"} /\ chosen \in Picture
    /\ disk \in Profile /\ served \in Profile
    /\ commands \in 0 .. 2 /\ asked \in 0 .. 2
    /\ beat \in Picture \cup {Nothing}
    /\ timeline \in Seq(Picture) /\ Len(timeline) <= MaxMessages
    /\ cooling \in BOOLEAN
    /\ fetches \in Seq(Profile \cup {Unserved}) /\ Len(fetches) <= MaxFetches
    /\ faults \in 0 .. MaxFaults

Init ==
    /\ own = None /\ editing = "no" /\ chosen = 0
    /\ disk = [hash |-> None, png |-> None] /\ served = disk /\ announced = None
    /\ commands = 0 /\ asked = 0 /\ beat = Nothing /\ timeline = <<>>
    /\ known = None /\ bytes = None /\ cache = None /\ cooling = FALSE
    /\ fetches = <<>> /\ faults = 0

-----------------------------------------------------------------------------
(* The owner. *)

\* confirm_avatar_crop writes the picture first; clear_own_avatar removes it first.
WriteBytes ==
    /\ editing = "no" /\ chosen < MaxPictures
    /\ chosen' = chosen + 1
    /\ editing' = "picture" /\ disk' = [disk EXCEPT !.png = chosen']
    /\ UNCHANGED <<own, commands, announced, served, beat, timeline, viewerVars, fetches, faults>>

RemoveBytes ==
    /\ editing = "no" /\ own # None /\ (MayRemove \/ chosen < MaxPictures)
    /\ editing' = "removal" /\ disk' = [disk EXCEPT !.png = None]
    /\ UNCHANGED <<own, chosen, commands, announced, served, beat, timeline, viewerVars,
                   fetches, faults>>

SyncOwnProfile == commands < 2 /\ commands' = commands + 1

\* Then profile.json is written and the worker is told (at most two commands
\* wait in the model; a further edit waits for the worker).
SaveOwnProfile ==
    /\ editing # "no"
    /\ own' = IF editing = "picture" THEN disk.png ELSE None
    /\ disk' = [disk EXCEPT !.hash = own'] /\ editing' = "no"
    /\ SyncOwnProfile
    /\ UNCHANGED <<chosen, announced, served, beat, timeline, viewerVars, fetches, faults>>

\* A hash without bytes behind it is dropped when the profile is read.
Loaded == IF disk.png = None THEN [hash |-> None, png |-> None] ELSE disk

\* A worker that kept serving what it read when it started.
StartupProfile == served

\* refresh_served_profile reads the disk, whatever the command says.
Refreshed == Loaded

SetOwnProfile ==
    /\ commands > 0 /\ commands' = commands - 1
    /\ announced' = Loaded.hash /\ served' = Refreshed
    /\ UNCHANGED <<own, editing, chosen, disk, beat, timeline, viewerVars, fetches, faults>>

\* Presence carries the announced hash, over and over.
Heartbeat ==
    /\ beat = Nothing /\ beat' = announced
    /\ UNCHANGED <<ownerVars, timeline, viewerVars, fetches, faults>>

\* A message carries the hash of the moment it is sent, for good.
SendMessage ==
    /\ Len(timeline) < MaxMessages
    /\ timeline' = Append(timeline, announced)
    /\ UNCHANGED <<ownerVars, beat, viewerVars, fetches, faults>>

-----------------------------------------------------------------------------
(* The viewer. *)

Viewer == [known |-> known, bytes |-> bytes, cooling |-> cooling, asked |-> asked]

LoadPeerAvatar(v) == [v EXCEPT !.bytes = cache]

\* request_peer_profile: at most one request a minute.
Requested(v) ==
    IF v.cooling THEN v
    ELSE [v EXCEPT !.cooling = TRUE, !.asked = IF @ = 2 THEN 2 ELSE @ + 1]

\* learn_peer_snapshot, of a snapshot with a name: a hash that is missing from it
\* leaves the known one.  A new hash lifts the cool-down; bytes come from the file
\* of an earlier run if they match and are asked for otherwise.
Learn(v, hash) ==
    LET now == IF hash = None THEN v.known ELSE hash
        seen == [v EXCEPT !.known = now]
        lifted == [seen EXCEPT !.cooling = @ /\ now = v.known]
    IN  CASE now = None \/ v.bytes = now -> seen
          [] now # None /\ v.bytes # now /\ cache = now -> LoadPeerAvatar(seen)
          [] OTHER -> Requested(lifted)

Becomes(v) ==
    /\ known' = v.known /\ bytes' = v.bytes /\ cooling' = v.cooling /\ asked' = v.asked

ClientStatus ==
    /\ beat # Nothing /\ beat' = Nothing
    /\ Becomes(Learn(Viewer, beat))
    /\ UNCHANGED <<ownerVars, timeline, cache, fetches, faults>>

\* Every snapshot of the conversation is learnt from, message by message.
LearntFromAll ==
    LET learnt[i \in 0 .. Len(timeline)] ==
          IF i = 0 THEN Viewer ELSE Learn(learnt[i - 1], timeline[i])
    IN  learnt[Len(timeline)]

ApplyConversation ==
    /\ timeline # <<>>
    /\ Becomes(LearntFromAll)
    /\ UNCHANGED <<ownerVars, beat, timeline, cache, fetches, faults>>

\* The lists on the screen load the file, and ask where there are no bytes.
EnsurePeerProfiles ==
    /\ bytes = None
    /\ Becomes(IF cache # None THEN LoadPeerAvatar(Viewer) ELSE Requested(Viewer))
    /\ UNCHANGED <<ownerVars, beat, timeline, cache, fetches, faults>>

CooldownEnds ==
    /\ cooling /\ cooling' = FALSE
    /\ UNCHANGED <<ownerVars, beat, timeline, known, bytes, cache, asked, fetches, faults>>

\* The worker starts a fetch, unless its slots are taken: then the request is
\* gone and the window believes it made.
FetchPeerProfiles ==
    /\ asked > 0 /\ asked' = asked - 1
    /\ fetches' = IF Len(fetches) < MaxFetches THEN Append(fetches, Unserved) ELSE fetches
    /\ UNCHANGED <<ownerVars, beat, timeline, known, bytes, cache, cooling, faults>>

\* The owner's protocol handler answers with what it serves at that moment.
Serve(i) ==
    /\ fetches[i] = Unserved
    /\ fetches' = [fetches EXCEPT ![i] = served]
    /\ UNCHANGED <<ownerVars, beat, timeline, viewerVars, faults>>

\* The fetches but the i-th.
Without(q, i) == SubSeq(q, 1, i - 1) \o SubSeq(q, i + 1, Len(q))

\* apply_fetched_profile: the answer ends the cool-down; a hash or bytes that
\* are missing from it leave what is known as it is.
FetchDone(i) ==
    /\ fetches[i] # Unserved
    /\ cooling' = FALSE
    /\ known' = IF fetches[i].hash # None THEN fetches[i].hash ELSE known
    /\ LET png == fetches[i].png
       IN  /\ bytes' = IF png # None THEN png ELSE bytes
           /\ cache' = IF png # None THEN png ELSE cache
    /\ fetches' = Without(fetches, i)
    /\ UNCHANGED <<ownerVars, beat, timeline, asked, faults>>

\* A fetch that fails or times out, before the owner has seen it or after, is
\* only logged; its cool-down stays.
FetchFails(i) ==
    /\ faults < MaxFaults /\ faults' = faults + 1
    /\ fetches' = Without(fetches, i)
    /\ UNCHANGED <<ownerVars, beat, timeline, viewerVars>>

\* The viewer starts again: profiles and the file are read back.
Restart ==
    /\ faults < MaxFaults /\ faults' = faults + 1
    /\ bytes' = None /\ cooling' = FALSE /\ asked' = 0 /\ fetches' = <<>>
    /\ UNCHANGED <<ownerVars, beat, timeline, known, cache>>

-----------------------------------------------------------------------------
FetchEnds == \E i \in 1 .. Len(fetches) : FetchDone(i) \/ FetchFails(i)
Served == \E i \in 1 .. Len(fetches) : Serve(i)
Answered == \E i \in 1 .. Len(fetches) : FetchDone(i)
Edit == WriteBytes \/ RemoveBytes \/ SaveOwnProfile

Next ==
    \/ Edit \/ SetOwnProfile \/ Heartbeat \/ SendMessage
    \/ ClientStatus \/ ApplyConversation \/ EnsurePeerProfiles \/ CooldownEnds
    \/ FetchPeerProfiles \/ Served \/ FetchEnds \/ Restart

\* Both programs run, heartbeats come, minutes pass, and a fetch that does not
\* fail reaches the owner and is answered.
WeakStep(i) ==
    \/ i = 1 /\ SaveOwnProfile
    \/ i = 2 /\ SetOwnProfile
    \/ i = 3 /\ Heartbeat
    \/ i = 4 /\ ClientStatus
    \/ i = 5 /\ CooldownEnds
    \/ i = 6 /\ FetchPeerProfiles
    \/ i = 7 /\ Served
    \/ i = 8 /\ Answered
Fairness == \A i \in 1..8 : WF_profileVars(WeakStep(i))

Spec == Init /\ [][Next]_profileVars /\ Fairness

-----------------------------------------------------------------------------
\* A user who ends up with a picture is seen with that picture in the end, and
\* for good: neither a fetch answered before the last edit, nor old messages
\* whose hashes the viewer learns again and again, nor a failed fetch, a full
\* worker or a restart leaves an older one on the screen (profile_ui.rs).
IsSettled == own # None /\ editing = "no"
IsSeen == bytes = own
PictureFollows == <>[]IsSettled => <>[]IsSeen

\* A user who ends up without a picture is seen without one in the end.  The
\* worker announces the edit "so friends learn the new identity immediately".
\* The code does not keep this: see the findings in README.md.
RemovedPictureGoes ==
    <>[](own = None /\ editing = "no") => <>[](bytes = None)
=============================================================================
