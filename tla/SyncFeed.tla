------------------------------ MODULE SyncFeed ------------------------------
(***************************************************************************)
(* Two-way sync: the server's changelog (triggers of startup.rs, services/  *)
(* sync.rs, repositories/sync.rs) and a client that follows it (bootstrap,  *)
(* push and pull of crates/sarca-sync/src/engine.rs) for one storage.       *)
(*                                                                          *)
(* The server keeps a live row and a trashed row per path; every write of a *)
(* row appends events.  The client keeps a folder, an index of what it last *)
(* saw equal on both sides, and a cursor.  A pass bootstraps from a         *)
(* snapshot, pushes, and pulls page by page.  One step is one statement,    *)
(* request, event, or access to the folder: the user edits between the      *)
(* download of a file, the reading of its stamp and of its content, and its *)
(* entry.  A content is its hash; 0 is no content.  How an upload is        *)
(* carried out is in AutoUpload: here a push is one step.                   *)
(***************************************************************************)
EXTENDS Integers, Sequences, FiniteSets

CONSTANTS
    Paths, Versions,
    NoPath,       \* no path
    PageSize,     \* the limit of a changelog request
    MaxChanges,   \* bound: changes on the server by others
    MaxEdits,     \* bound: changes of the folder
    MaxFaults     \* bound: failed requests and restarts of the app

Contents == Versions \cup {0}

(* A page has room for an event, and the bounds are numbers.                *)
SyncFeedConstants ==
    /\ Versions \subseteq Nat \ {0} /\ NoPath \notin Paths /\ PageSize \in Nat \ {0}
    /\ MaxChanges \in Nat /\ MaxEdits \in Nat /\ MaxFaults \in Nat

ASSUME SyncFeedAssumption == SyncFeedConstants

Upsert(p, v) == [op |-> "upsert", path |-> p, hash |-> v]
Deleted(p) == [op |-> "delete", path |-> p, hash |-> 0]
Events == {Upsert(p, v) : p \in Paths, v \in Contents} \cup {Deleted(p) : p \in Paths}

VARIABLES
    live, trash,          \* table files: the live and the trashed row of a path
    log,                  \* table file_sync_events; an id is a position
    stray,                \* history: paths whose state the feed does not tell
    local, fresh,         \* the folder, and whether its stamp is the entry's
    idx,                  \* the index: content hash, 0 for no entry
    passed,               \* history: paths whose entry is the folder's own content: their event
                          \* was passed over, or they were edited while they were fetched
    conflicts,            \* table conflicts
    cursor,               \* the cursor of the binding, as saved
    pc, snap, snapCursor, todo, \* the pass: step, snapshot, paths to do
    at, page,             \* the pull: its cursor and the rest of the page
    more,                 \* has_more of the page
    leg, now,             \* a file under way: the next step for it, and its path
    stamped,              \* the file under way still has the stamp that was read
    changes, edits, faults

serverVars == <<live, trash, log, stray, changes>>
folderVars == <<local, fresh, edits>>
indexVars == <<idx, passed, conflicts>>
handVars == <<leg, now, stamped>>
passVars == <<snap, snapCursor, todo, at, page, more, handVars>>
vars == <<serverVars, folderVars, indexVars, cursor, pc, passVars, faults>>

Empty == [p \in Paths |-> 0]

(* The client is connected to a new storage, or to one where a file has     *)
(* taken the path of a trashed one.                                         *)
Init ==
    /\ \/ live = Empty /\ trash = Empty /\ log = <<>>
       \/ \E p \in Paths, v, w \in Versions :
              /\ live = [Empty EXCEPT ![p] = w] /\ trash = [Empty EXCEPT ![p] = v]
              /\ log = <<Upsert(p, v), Deleted(p), Upsert(p, w)>>
    /\ stray = {}
    /\ local = Empty /\ fresh = [p \in Paths |-> FALSE]
    /\ idx = Empty /\ passed = {} /\ conflicts = {} /\ cursor = 0
    /\ pc = "idle" /\ snap = Empty /\ snapCursor = 0 /\ todo = {}
    /\ at = 0 /\ page = <<>> /\ more = FALSE
    /\ leg = "none" /\ now = NoPath /\ stamped = FALSE
    /\ changes = 0 /\ edits = 0 /\ faults = 0

Fault == faults < MaxFaults /\ faults' = faults + 1
EndLeg == leg' = "none" /\ now' = NoPath /\ stamped' = FALSE
ToIdle ==
    /\ pc' = "idle" /\ snap' = Empty /\ snapCursor' = 0 /\ todo' = {}
    /\ at' = 0 /\ page' = <<>> /\ more' = FALSE /\ EndLeg

-----------------------------------------------------------------------------
(* The server: what others do to the files, with the events of the triggers. *)

Change == changes < MaxChanges /\ changes' = changes + 1

(* An upload that completes, new or in the place of the live row.           *)
Upload(p, v) ==
    /\ Change /\ live[p] # v
    /\ live' = [live EXCEPT ![p] = v]
    /\ log' = Append(log, Upsert(p, v)) /\ stray' = stray \ {p}
    /\ UNCHANGED <<trash, folderVars, indexVars, cursor, pc, passVars, faults>>

Trash(p) ==
    /\ Change /\ live[p] # 0 /\ trash[p] = 0
    /\ live' = [live EXCEPT ![p] = 0] /\ trash' = [trash EXCEPT ![p] = live[p]]
    /\ log' = Append(log, Deleted(p)) /\ stray' = stray \ {p}
    /\ UNCHANGED <<folderVars, indexVars, cursor, pc, passVars, faults>>

Restore(p) ==
    /\ Change /\ trash[p] # 0 /\ live[p] = 0
    /\ live' = [live EXCEPT ![p] = trash[p]] /\ trash' = [trash EXCEPT ![p] = 0]
    /\ log' = Append(log, Upsert(p, trash[p])) /\ stray' = stray \ {p}
    /\ UNCHANGED <<folderVars, indexVars, cursor, pc, passVars, faults>>

(* Restoring to a path in use, as the user answers: first the file there is *)
(* purged (then Restore) ...                                                *)
RestoreReplaces(p) ==
    /\ Change /\ trash[p] # 0 /\ live[p] # 0
    /\ live' = [live EXCEPT ![p] = 0]
    /\ log' = Append(log, Deleted(p)) /\ stray' = stray \ {p}
    /\ UNCHANGED <<trash, folderVars, indexVars, cursor, pc, passVars, faults>>

(* ... or the trashed row first gets a free path (then Restore there).  The *)
(* trigger reports the old path as deleted though the other file is there.  *)
RestoreRenames(p, q) ==
    /\ Change /\ trash[p] # 0 /\ live[p] # 0
    /\ live[q] = 0 /\ trash[q] = 0
    /\ trash' = [trash EXCEPT ![p] = 0, ![q] = trash[p]]
    /\ log' = Append(log, Deleted(p)) /\ stray' = stray \cup {p}
    /\ UNCHANGED <<live, folderVars, indexVars, cursor, pc, passVars, faults>>

(* A trashed row is purged: its row is deleted, and the trigger reports its *)
(* path although another live row may be there.                             *)
Purge(p) ==
    /\ Change /\ trash[p] # 0
    /\ trash' = [trash EXCEPT ![p] = 0]
    /\ log' = Append(log, Deleted(p))
    /\ stray' = IF live[p] # 0 THEN stray \cup {p} ELSE stray \ {p}
    /\ UNCHANGED <<live, folderVars, indexVars, cursor, pc, passVars, faults>>

\* mutant: a rename reports the new path only
RenameNewOnly(p, q) ==
    /\ Change /\ live[p] # 0 /\ live[q] = 0
    /\ live' = [live EXCEPT ![p] = 0, ![q] = live[p]]
    /\ log' = Append(log, Upsert(q, live[p]))
    /\ stray' = stray \ {p, q}
    /\ UNCHANGED <<trash, folderVars, indexVars, cursor, pc, passVars, faults>>

Rename(p, q) ==
    /\ Change /\ live[p] # 0 /\ live[q] = 0
    /\ live' = [live EXCEPT ![p] = 0, ![q] = live[p]]
    /\ log' = log \o <<Deleted(p), Upsert(q, live[p])>>
    /\ stray' = stray \ {p, q}
    /\ UNCHANGED <<trash, folderVars, indexVars, cursor, pc, passVars, faults>>

-----------------------------------------------------------------------------
(* The client: the beginning of a pass.                                     *)

Start ==
    /\ pc = "idle"
    /\ pc' = IF cursor = 0 THEN "snapshot" ELSE "push"
    /\ at' = cursor
    /\ todo' = Paths
    /\ UNCHANGED <<serverVars, folderVars, indexVars, cursor, snap, snapCursor, page, more,
                   handVars, faults>>

(* The snapshot endpoint: the files, then the highest event.  What changed  *)
(* between the two reads is in neither the snapshot nor the events to come, *)
(* and what an interrupted bootstrap fetched is not compared again.         *)
SnapshotFiles ==
    /\ pc = "snapshot"
    /\ snap' = live /\ pc' = "max_cursor"
    /\ UNCHANGED <<serverVars, folderVars, indexVars, cursor, snapCursor, todo, at, page,
                   more, handVars, faults>>

MaxCursor ==
    /\ pc = "max_cursor"
    /\ snapCursor' = Len(log) /\ pc' = "bootstrap"
    /\ stray' = stray \cup {p \in Paths : live[p] # snap[p] \/ idx[p] \notin {0, snap[p]}}
    /\ UNCHANGED <<live, trash, log, changes, folderVars, indexVars, cursor, snap, todo, at,
                   page, more, handVars, faults>>

(* A file under way.  Its download puts the current content in its place:   *)
(* an excuse for its old content ends.                                      *)
Download ==
    /\ leg = "download" /\ live[now] # 0
    /\ local' = [local EXCEPT ![now] = live[now]] /\ fresh' = [fresh EXCEPT ![now] = FALSE]
    /\ passed' = passed \ {now}
    /\ leg' = "stat"
    /\ UNCHANGED <<serverVars, edits, idx, conflicts, cursor, pc, snap, snapCursor, todo, at,
                   page, more, now, stamped, faults>>

(* Its size and time are read, then its content.  A content that cannot be  *)
(* read is taken to be the expected one.                                    *)
Stat ==
    /\ leg = "stat" /\ local[now] # 0
    /\ stamped' = TRUE /\ leg' = "hash"
    /\ UNCHANGED <<serverVars, folderVars, indexVars, cursor, pc, snap, snapCursor, todo, at,
                   page, more, now, faults>>

Expected == IF pc = "bootstrap" THEN snap[now] ELSE Head(page).hash

(* The entry takes the expected size, which another content may have too.   *)
(* What changes in the folder after the content is read finds its entry.    *)
Entered ==
    /\ leg = "hash"
    /\ LET got == IF local[now] = 0 THEN Expected ELSE local[now] IN
           /\ idx' = [idx EXCEPT ![now] = got]
           /\ \E sameSize \in BOOLEAN :
                  /\ got = Expected => sameSize
                  /\ fresh' = [fresh EXCEPT ![now] = stamped /\ sameSize]
    /\ EndLeg

(* A file that is gone, on the server before it is downloaded or in the     *)
(* folder afterwards: the pass ends with an error, its cursor is not saved. *)
FileMissing ==
    /\ \/ leg = "download" /\ live[now] = 0
       \/ leg = "stat" /\ local[now] = 0
    /\ ToIdle
    /\ UNCHANGED <<serverVars, folderVars, indexVars, cursor, faults>>

(* An entry of the snapshot: a local file that differs is a conflict, one   *)
(* that is missing is downloaded, one that is equal is indexed.             *)
Bootstrap(p) ==
    /\ pc = "bootstrap" /\ leg = "none" /\ p \in todo
    /\ snap[p] = 0 \/ local[p] \notin {0, snap[p]}
    /\ todo' = todo \ {p}
    /\ conflicts' = IF snap[p] = 0 THEN conflicts ELSE conflicts \cup {p}
    /\ UNCHANGED <<serverVars, folderVars, idx, passed, cursor, pc, snap, snapCursor, at, page,
                   more, handVars, faults>>

ToBootstrap(p) ==
    /\ pc = "bootstrap" /\ leg = "none" /\ p \in todo
    /\ snap[p] # 0 /\ local[p] \in {0, snap[p]}
    /\ now' = p /\ leg' = IF local[p] = 0 THEN "download" ELSE "stat"
    /\ UNCHANGED <<serverVars, folderVars, indexVars, cursor, pc, snap, snapCursor, todo, at,
                   page, more, stamped, faults>>

BootstrapEnter ==
    /\ pc = "bootstrap" /\ Entered
    /\ todo' = todo \ {now}
    /\ UNCHANGED <<serverVars, local, edits, passed, conflicts, cursor, pc, snap, snapCursor,
                   at, page, more, faults>>

Bootstrapped ==
    /\ pc = "bootstrap" /\ todo = {}
    /\ cursor' = snapCursor /\ at' = snapCursor
    /\ pc' = "push" /\ todo' = Paths
    /\ UNCHANGED <<serverVars, folderVars, indexVars, snap, snapCursor, page, more, handVars,
                   faults>>

-----------------------------------------------------------------------------
(* The push.                                                                *)

Pending(p) == local[p] # 0 /\ (idx[p] = 0 \/ ~fresh[p])

PushNothing(p) ==
    /\ pc = "push" /\ p \in todo /\ ~Pending(p)
    /\ todo' = todo \ {p}
    /\ UNCHANGED <<serverVars, folderVars, indexVars, cursor, pc, snap, snapCursor, at, page,
                   more, handVars, faults>>

(* A pending file is stored, in the place of what the server has, or found  *)
(* there, or only its stamp had changed.                                    *)
Push(p) ==
    /\ pc = "push" /\ p \in todo /\ Pending(p)
    /\ todo' = todo \ {p}
    /\ idx' = [idx EXCEPT ![p] = local[p]] /\ fresh' = [fresh EXCEPT ![p] = TRUE]
    /\ IF local[p] \in {idx[p], live[p]}
       THEN UNCHANGED <<live, log, stray>>
       ELSE /\ live' = [live EXCEPT ![p] = local[p]]
            /\ log' = Append(log, Upsert(p, local[p])) /\ stray' = stray \ {p}
    /\ passed' = IF local[p] = live'[p] THEN passed \ {p} ELSE passed
    /\ UNCHANGED <<trash, changes, local, edits, conflicts, cursor, pc, snap, snapCursor, at,
                   page, more, handVars, faults>>

(* A push that fails is noted and the pass goes on.                         *)
PushFails(p) ==
    /\ pc = "push" /\ p \in todo /\ Pending(p) /\ Fault
    /\ todo' = todo \ {p}
    /\ UNCHANGED <<serverVars, folderVars, indexVars, cursor, pc, snap, snapCursor, at, page,
                   more, handVars>>

Pushed ==
    /\ pc = "push" /\ todo = {}
    /\ pc' = "page"
    /\ UNCHANGED <<serverVars, folderVars, indexVars, cursor, passVars, faults>>

-----------------------------------------------------------------------------
(* The pull.                                                                *)

Least(a, b) == IF a < b THEN a ELSE b

\* mutant: the cursor is saved with the page, before its events are applied
PageSavingFirst ==
    /\ pc = "page"
    /\ LET last == Least(at + PageSize, Len(log)) IN
           /\ page' = SubSeq(log, at + 1, last)
           /\ more' = (last - at = PageSize)
           /\ cursor' = last
    /\ pc' = "event"
    /\ UNCHANGED <<serverVars, folderVars, indexVars, snap, snapCursor, todo, at, handVars, faults>>

(* A page of the changelog after the cursor of the pull.                    *)
Page ==
    /\ pc = "page"
    /\ LET last == Least(at + PageSize, Len(log)) IN
           /\ page' = SubSeq(log, at + 1, last)
           /\ more' = (last - at = PageSize)
    /\ pc' = "event"
    /\ UNCHANGED <<serverVars, folderVars, indexVars, cursor, snap, snapCursor, todo, at,
                   handVars, faults>>

EventDone == page' = Tail(page) /\ at' = at + 1

(* A delete event removes the file, its entry and its conflict.             *)
ApplyDelete ==
    /\ pc = "event" /\ leg = "none" /\ page # <<>> /\ Head(page).op = "delete"
    /\ LET p == Head(page).path IN
           /\ local' = [local EXCEPT ![p] = 0] /\ fresh' = [fresh EXCEPT ![p] = FALSE]
           /\ idx' = [idx EXCEPT ![p] = 0] /\ conflicts' = conflicts \ {p}
           /\ passed' = passed \ {p}
    /\ EventDone
    /\ UNCHANGED <<serverVars, edits, cursor, pc, snap, snapCursor, todo, more, handVars, faults>>

(* Local and remote changed: the user is asked.                             *)
Conflict(p, v) == local[p] \notin {0, v} /\ idx[p] # local[p]

(* An upsert event: nothing to do when the file is that content already,    *)
(* with whatever entry.                                                     *)
ApplyEqual ==
    /\ pc = "event" /\ leg = "none" /\ page # <<>> /\ Head(page).op = "upsert"
    /\ local[Head(page).path] = Head(page).hash
    /\ passed' = IF idx[Head(page).path] = Head(page).hash THEN passed
                 ELSE passed \cup {Head(page).path}
    /\ EventDone
    /\ UNCHANGED <<serverVars, folderVars, idx, conflicts, cursor, pc, snap, snapCursor, todo,
                   more, handVars, faults>>

KeepLocal ==
    /\ pc = "event" /\ leg = "none" /\ page # <<>> /\ Head(page).op = "upsert"
    /\ Conflict(Head(page).path, Head(page).hash)
    /\ conflicts' = conflicts \ {Head(page).path} /\ passed' = passed \cup {Head(page).path}
    /\ EventDone
    /\ UNCHANGED <<serverVars, folderVars, idx, cursor, pc, snap, snapCursor, todo, more,
                   handVars, faults>>

(* Without a conflict, or with the answer keep remote, or keep both (the    *)
(* local file is renamed), the current content is downloaded next.          *)
ToFetch ==
    /\ pc = "event" /\ leg = "none" /\ page # <<>> /\ Head(page).op = "upsert"
    /\ local[Head(page).path] # Head(page).hash
    /\ now' = Head(page).path /\ leg' = "download"
    /\ UNCHANGED <<serverVars, folderVars, indexVars, cursor, pc, snap, snapCursor, todo, at,
                   page, more, stamped, faults>>

PullEnter ==
    /\ pc = "event" /\ Entered
    /\ conflicts' = conflicts \ {now}
    /\ EventDone
    /\ UNCHANGED <<serverVars, local, edits, passed, cursor, pc, snap, snapCursor, todo, more,
                   faults>>

RequestFails ==
    /\ pc \in {"snapshot", "max_cursor", "bootstrap", "page", "event"} /\ Fault
    /\ ToIdle
    /\ UNCHANGED <<serverVars, folderVars, indexVars, cursor>>

(* A full page is followed by another; then the cursor is saved.            *)
PageDone ==
    /\ pc = "event" /\ page = <<>>
    /\ IF more THEN pc' = "page" /\ UNCHANGED <<cursor, passVars>>
       ELSE cursor' = at /\ ToIdle
    /\ UNCHANGED <<serverVars, folderVars, indexVars, faults>>

-----------------------------------------------------------------------------
(* The user of the client.  A file that is edited after its download and    *)
(* before its content is read is entered with the edit, as the server's.    *)

LocalEdit(p, v) ==
    /\ edits < MaxEdits /\ edits' = edits + 1
    /\ local[p] # v
    /\ local' = [local EXCEPT ![p] = v] /\ fresh' = [fresh EXCEPT ![p] = FALSE]
    /\ stamped' = (stamped /\ p # now)
    /\ passed' = IF p = now /\ leg \in {"stat", "hash"} THEN passed \cup {p} ELSE passed
    /\ UNCHANGED <<serverVars, idx, conflicts, cursor, pc, snap, snapCursor, todo, at, page,
                   more, leg, now, faults>>

Reopen ==
    /\ pc # "idle" /\ Fault
    /\ ToIdle
    /\ UNCHANGED <<serverVars, folderVars, indexVars, cursor>>

Server ==
    \/ \E p \in Paths, v \in Versions : Upload(p, v)
    \/ \E p \in Paths : Trash(p) \/ Restore(p) \/ RestoreReplaces(p) \/ Purge(p)
    \/ \E p, q \in Paths : p # q /\ (Rename(p, q) \/ RestoreRenames(p, q))

Client ==
    \/ Start \/ SnapshotFiles \/ MaxCursor \/ Bootstrapped \/ Pushed
    \/ \E p \in Paths : Bootstrap(p) \/ ToBootstrap(p) \/ PushNothing(p) \/ Push(p)
    \/ Download \/ Stat \/ FileMissing \/ BootstrapEnter \/ PullEnter
    \/ Page \/ ApplyDelete \/ ApplyEqual \/ KeepLocal \/ ToFetch \/ PageDone

Next ==
    \/ Server \/ Client
    \/ RequestFails \/ Reopen
    \/ \E p \in Paths : PushFails(p)
    \/ \E p \in Paths, v \in Contents : LocalEdit(p, v)

Spec == Init /\ [][Next]_vars

(* The client's loop ticks and its pass is a task that is always polled.    *)
FairSpec == Spec /\ WF_vars(Client)

-----------------------------------------------------------------------------
(* Every variable stays in its range.                                       *)
TypeOK ==
    /\ live \in [Paths -> Contents] /\ trash \in [Paths -> Contents]
    /\ log \in Seq(Events) /\ stray \subseteq Paths
    /\ local \in [Paths -> Contents] /\ fresh \in [Paths -> BOOLEAN]
    /\ idx \in [Paths -> Contents] /\ passed \subseteq Paths /\ conflicts \subseteq Paths
    /\ cursor \in 0 .. Len(log)
    /\ pc \in {"idle", "snapshot", "max_cursor", "bootstrap", "push", "page", "event"}
    /\ leg \in {"none", "download", "stat", "hash"} /\ now \in Paths \cup {NoPath}
    /\ stamped \in BOOLEAN
    /\ snap \in [Paths -> Contents] /\ snapCursor \in 0 .. Len(log) /\ todo \subseteq Paths
    /\ at \in 0 .. Len(log) /\ page \in Seq(Events) /\ more \in BOOLEAN
    /\ changes \in 0 .. MaxChanges /\ edits \in 0 .. MaxEdits /\ faults \in 0 .. MaxFaults

Told(p, from) == \E i \in from + 1 .. Len(log) : log[i].path = p

(* The file is as the client last saw it: no edit and no removal of it is   *)
(* waiting to be noticed, and no conflict is recorded for the user.         *)
Untouched(p) == ~Pending(p) /\ (local[p] = 0 => idx[p] = 0) /\ p \notin conflicts

(* Between passes, a path the changelog has nothing new about is the same   *)
(* on both sides, unless it was touched in the folder, or its last event    *)
(* did not tell its state, or was passed over because the user kept the     *)
(* local file, or had made it the same, or it was edited while it was being *)
(* fetched: no event is skipped by a pull that failed half way, by the      *)
(* pages, or by a change during the bootstrap (pull_remote,                 *)
(* sync_binding_scoped).                                                    *)
CaughtUp ==
    pc = "idle" /\ cursor > 0 =>
        \A p \in Paths : ~Told(p, cursor) /\ p \notin stray \cup passed /\ Untouched(p) =>
            local[p] = live[p]

(* An upsert that cannot be followed: its path is not there any more, here  *)
(* or on the server.                                                        *)
Blocked ==
    \E i \in cursor + 1 .. Len(log) :
        log[i].op = "upsert" /\ live[log[i].path] = 0

(* The last event of every path says what the path is now: a delete is      *)
(* reported for the row that was live (files_sync_event_delete).            *)
(* False, and in no run: purging a trashed row reports its path as deleted  *)
(* though another file is live there.                                       *)
FeedIsTrue ==
    \A p \in Paths : Told(p, 0) =>
        LET last == CHOOSE i \in 1 .. Len(log) : /\ log[i].path = p
                                                 /\ \A j \in i + 1 .. Len(log) : log[j].path # p
        IN  log[last].hash = live[p]

(* Once changes cease, every untouched path is the same on both sides in    *)
(* the end, after conflicts, failed requests and restarts, unless the feed  *)
(* names a file that is gone (pull_remote).                                 *)
EventuallyInSync ==
    \/ <>[]Blocked
    \/ \A p \in Paths :
           <>[](Untouched(p) /\ p \notin stray \cup passed) => <>[](local[p] = live[p])

(* The client's folder and index follow the feed without a gap.             *)
FeedIsFollowed == TypeOK /\ CaughtUp
=============================================================================
