--------------------------- MODULE MessageDeletions ---------------------------
(***************************************************************************)
(* Deleting and restoring one message (wire-app/src/chat.rs).  Its author   *)
(* deletes it for everyone and restores it again; another member hears of   *)
(* that twice: from the document, which keeps the last entry only, and      *)
(* from wakes, which the author's reliable control queue sends until they   *)
(* are acknowledged, and which the member stages in memory over what its    *)
(* document says.  Either side may delete the message for itself.          *)
(*                                                                         *)
(* Entries are numbered in the order of their deleted_at: a later choice    *)
(* of the author has the greater number.                                   *)
(***************************************************************************)
EXTENDS Naturals, Sequences, FiniteSets

CONSTANTS
  MaxChanges, \* bound on the author's deletions and restorations
  MaxLocal,   \* bound on the local deletions and restorations of one side
  MaxAcks,    \* bound on the acknowledgements under way
  MaxFaults   \* bound on lost calls, failed saves and crashes

MessageDeletionsAssumption ==
  {MaxChanges, MaxLocal, MaxAcks, MaxFaults} \subseteq Nat

Side == {"author", "member"}

VARIABLES
  history,    \* history[v]: entry v, "delete" or "restore"
  doc,        \* doc[s]: the entry the document of s holds, 0 for none
  held,       \* does the member's document hold the message itself
  pending,    \* reliable_control.deletions: the entry in the queue, or 0
  wakes,      \* wakes under way: the entry each took along when it started
  acks,       \* deletion_acks under way; they name the message only
  staged,     \* the member's staged_deletions: an entry, or 0
  local,      \* local[s]: the message is in local_deletions of s
  localDisk,  \* localDisk[s]: and in local-deletions.json
  shown,      \* shown[s]: the deletion the timeline of s shows
  locals, faults

deletionVars == <<history, doc, held, pending, wakes, acks, staged,
                  local, localDisk, shown, locals, faults>>

Entry == 1..MaxChanges
Shown == {"none", "local", "everyone"}

Init ==
  /\ history = <<>>
  /\ doc = [s \in Side |-> 0]
  /\ held \in BOOLEAN
  /\ pending = 0 /\ wakes = <<>> /\ acks = 0 /\ staged = 0
  /\ local = [s \in Side |-> FALSE]
  /\ localDisk = [s \in Side |-> FALSE]
  /\ shown = [s \in Side |-> "none"]
  /\ locals = [s \in Side |-> 0]
  /\ faults = 0

Fault == faults < MaxFaults /\ faults' = faults + 1
Is(v, kind) == v # 0 /\ history'[v] = kind
-----------------------------------------------------------------------------
(***************************************************************************)
(* What publish_timeline shows: the document, then the local deletions,    *)
(* then the staged deletion, which it drops once the document agrees.      *)
(***************************************************************************)
Loaded(s) ==
  IF local'[s] THEN "local"
  ELSE IF Is(doc'[s], "delete") THEN "everyone" ELSE "none"

\* A staged entry waits for its message, and goes when the document holds a
\* restoration, or holds a deletion as it does.
DroppedWhenDeleted(v) == held' /\ Is(v, "delete") /\ Loaded("member") = "everyone" \* mutation
Agreed(v) ==
  held' /\ \/ Is(doc'["member"], "restore")
           \/ Is(v, "delete") /\ Loaded("member") = "everyone"

Merged(v) ==
  IF v = 0 \/ ~held' \/ Agreed(v) THEN Loaded("member")
  ELSE IF Is(v, "delete") THEN "everyone"
  ELSE IF local'["member"] THEN "local" ELSE "none"

\* The member's timeline, after v has been staged.
MemberPublishes(v) ==
  /\ staged' = IF Agreed(v) THEN 0 ELSE v
  /\ shown' = [shown EXCEPT !["member"] = Merged(v)]

LoadLocalDeletions(s) == local' = [local EXCEPT ![s] = localDisk[s]]

AuthorPublishes == shown' = [shown EXCEPT !["author"] = Loaded("author")]
-----------------------------------------------------------------------------
(***************************************************************************)
(* The author.                                                             *)
(***************************************************************************)
Replaceable(kind) == kind = "restore" => shown["author"] = "everyone"

\* insert_replicated_deletion and insert_replicated_restoration.
InsertReplicated(kind) ==
  /\ Len(history) < MaxChanges
  /\ Replaceable(kind)
  /\ history' = Append(history, kind)
  /\ doc' = [doc EXCEPT !["author"] = Len(history')]
  /\ UNCHANGED <<held, acks, staged, local, localDisk, locals>>

\* What a wake carries is what is true when it starts (wake_payload_for).
SpawnWake(v) == wakes' = Append(wakes, v)

\* delete_message, restore_message with DeleteScope::Everyone.
DeleteForEveryone(kind) ==
  /\ InsertReplicated(kind)
  /\ AuthorPublishes
  /\ pending' = Len(history')
  /\ SpawnWake(Len(history'))
  /\ UNCHANGED faults

\* The service dies between the entry and register_deletion_delivery.
CrashAfterInsert(kind) ==
  /\ Fault
  /\ InsertReplicated(kind)
  /\ AuthorPublishes
  /\ wakes' = <<>>
  /\ UNCHANGED pending

HasPendingControl == pending # 0

\* retry_due_controls: not while a wake is under way.
RetryDueControls ==
  /\ HasPendingControl /\ wakes = <<>>
  /\ SpawnWake(pending)
  /\ UNCHANGED <<history, doc, held, pending, acks, staged, local, localDisk,
                 shown, locals, faults>>

TakenFrom(s, i) == [j \in 1..(Len(s) - 1) |-> IF j < i THEN s[j] ELSE s[j + 1]]

WakeIsLost(i) ==
  /\ Fault
  /\ wakes' = TakenFrom(wakes, i)
  /\ UNCHANGED <<history, doc, held, pending, acks, staged, local, localDisk,
                 shown, locals>>

\* apply_control_acks: whatever entry of the message is in the queue goes.
ApplyControlAcks ==
  /\ acks > 0
  /\ acks' = acks - 1
  /\ pending' = 0
  /\ UNCHANGED <<history, doc, held, wakes, staged, local, localDisk,
                 shown, locals, faults>>

AckIsLost ==
  /\ Fault /\ acks > 0
  /\ acks' = acks - 1
  /\ UNCHANGED <<history, doc, held, pending, wakes, staged, local, localDisk,
                 shown, locals>>

\* reliable-control.json survives; wakes do not.
AuthorRestarts ==
  /\ Fault
  /\ wakes' = <<>>
  /\ LoadLocalDeletions("author")
  /\ UNCHANGED <<history, doc, held, pending, acks, staged, localDisk, locals>>
  /\ AuthorPublishes
-----------------------------------------------------------------------------
(***************************************************************************)
(* The member.                                                             *)
(***************************************************************************)
ReplacesAlways(v) == v # 0  \* mutation: a late wake of an older entry wins
Replaces(v) == v >= staged

\* apply_sync_request and apply_direct_deletions: every entry is acknowledged.
ApplyDirectDeletions(i) ==
  /\ acks < MaxAcks
  /\ wakes' = TakenFrom(wakes, i)
  /\ acks' = acks + 1
  /\ UNCHANGED <<history, doc, held, pending, local, localDisk, locals, faults>>
  /\ MemberPublishes(IF Replaces(wakes[i]) THEN wakes[i] ELSE staged)

\* Documents synchronise: the message and the entry in either order.
DocumentArrives ==
  /\ held' = TRUE
  /\ doc' = [doc EXCEPT !["member"] = doc["author"]]
  /\ doc' # doc \/ ~held
  /\ UNCHANGED <<history, pending, wakes, acks, local, localDisk, locals, faults>>
  /\ MemberPublishes(staged)

DeletionArrivesFirst ==
  /\ ~held
  /\ doc' = [doc EXCEPT !["member"] = doc["author"]]
  /\ doc' # doc
  /\ UNCHANGED <<history, held, pending, wakes, acks, staged, local, localDisk,
                 shown, locals, faults>>

\* staged_deletions is kept in memory only.
MemberRestarts ==
  /\ Fault
  /\ LoadLocalDeletions("member")
  /\ UNCHANGED <<history, doc, held, pending, wakes, acks, localDisk, locals>>
  /\ MemberPublishes(0)
-----------------------------------------------------------------------------
(***************************************************************************)
(* delete_message_locally and restore_message_locally; a save that fails    *)
(* takes the change back.                                                  *)
(***************************************************************************)
Publishes(s) ==
  IF s = "author" THEN AuthorPublishes /\ UNCHANGED staged
                  ELSE MemberPublishes(staged)

ChangeLocally(s, hidden) ==
  /\ locals[s] < MaxLocal
  /\ ~hidden => local[s]   \* "message is not deleted locally"
  /\ locals' = [locals EXCEPT ![s] = @ + 1]
  /\ local' = [local EXCEPT ![s] = hidden]
  /\ localDisk' = [localDisk EXCEPT ![s] = hidden]
  /\ UNCHANGED <<history, doc, held, pending, wakes, acks, faults>>
  /\ Publishes(s)

SaveFails(s) ==
  /\ locals[s] < MaxLocal /\ Fault
  /\ locals' = [locals EXCEPT ![s] = @ + 1]
  /\ UNCHANGED <<history, doc, held, pending, wakes, acks, local, localDisk>>
  /\ Publishes(s)
-----------------------------------------------------------------------------
Deliver  == \E i \in DOMAIN wakes : ApplyDirectDeletions(i)

Next ==
  \/ \E kind \in {"delete", "restore"} :
        DeleteForEveryone(kind) \/ CrashAfterInsert(kind)
  \/ RetryDueControls \/ Deliver \/ ApplyControlAcks \/ AckIsLost
  \/ \E i \in DOMAIN wakes : WakeIsLost(i)
  \/ DocumentArrives \/ DeletionArrivesFirst
  \/ AuthorRestarts \/ MemberRestarts
  \/ \E s \in Side : \/ \E hidden \in BOOLEAN : ChangeLocally(s, hidden)
                     \/ SaveFails(s)

\* The network and the documents go on working between their faults, and the
\* service's retry timer keeps firing.
WeakStep(i) ==
  \/ i = 1 /\ RetryDueControls
  \/ i = 2 /\ Deliver
  \/ i = 3 /\ ApplyControlAcks
  \/ i = 4 /\ DocumentArrives
Fairness == \A i \in 1..4 : WF_deletionVars(WeakStep(i))

Spec == Init /\ [][Next]_deletionVars /\ Fairness
-----------------------------------------------------------------------------
TypeOK ==
  /\ history \in Seq({"delete", "restore"}) /\ Len(history) <= MaxChanges
  /\ doc \in [Side -> 0..MaxChanges]
  /\ held \in BOOLEAN
  /\ pending \in 0..MaxChanges
  /\ wakes \in Seq(Entry)
  /\ acks \in 0..MaxAcks
  /\ staged \in 0..MaxChanges
  /\ local \in [Side -> BOOLEAN] /\ localDisk \in [Side -> BOOLEAN]
  /\ shown \in [Side -> Shown]
  /\ locals \in [Side -> 0..MaxLocal]
  /\ faults \in 0..MaxFaults

\* The author's last word.
Settled == IF history = <<>> \/ history[Len(history)] = "restore"
           THEN "none" ELSE "everyone"

ShowsTheLastWord == held /\ (shown["member"] = Settled \/ local["member"])

\* A late wake has staged an old restoration over the newer deletion the document
\* holds: merge_staged_deletions lays what is staged over the document's entry
\* without comparing the two (chat.rs:3723), until the member restarts.
StaleRestoration ==
  staged # 0 /\ history[staged] = "restore" /\ staged < doc["member"]

\* Once the author has made up their mind, the member's timeline comes to
\* show their last choice and stays with it, whatever wakes and
\* acknowledgements were lost, late or repeated on the way; unless a stale
\* restoration lies over it (publish_timeline, merge_staged_deletions,
\* apply_control_acks).
DeletionConverges == <>[](ShowsTheLastWord \/ StaleRestoration)
=============================================================================
