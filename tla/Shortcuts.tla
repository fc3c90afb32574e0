------------------------------- MODULE Shortcuts -------------------------------
(***************************************************************************)
(* The files a user starred and the files a user viewed last (services and  *)
(* repositories favorites.rs, recent.rs, recent_files.rs).  Both tables name *)
(* rows of files, found by their path in one statement and written in a      *)
(* later one; in between the row may be renamed, trashed or purged.  Foreign *)
(* keys remove what names a purged row or a removed user, and refuse to add  *)
(* it.  Times have the resolution of a second.                               *)
(*                                                                          *)
(* One storage.  What happens to the rows is in Library; here each change is *)
(* one step.                                                                 *)
(***************************************************************************)
EXTENDS Integers, FiniteSets

CONSTANTS
    Users, Rows,
    Paths, Folders,     \* paths of files; those of folders, which end with "/"
    Tasks,
    RECENT_LIMIT,
    MaxRequests, MaxChanges, MaxTime \* bounds: requests; changes of rows and grants; seconds

None == "none"

VARIABLES
    st,             \* of every row: "free", "partial", "live", "trash", "gone"
    path,
    users,          \* users that exist
    readers,        \* users with access to the storage
    stars,          \* favorites: pairs of user and row
    viewed,         \* recent_files: of every user and row the second of viewed_at, -1 for no row
    now,
    task,
    last,           \* history: of every user and row the second of the last view, -1 for none
    wanted,         \* history: stars set and not taken back from a file that was shown
    swept,          \* history: of these, those that went with the path of a hidden file
    requests, changes

rows == <<st, path>>
hist == <<wanted, swept>>
bounds == <<requests, changes>>
vars == <<rows, users, readers, stars, viewed, now, task, last, hist, bounds>>

Idle == [pc |-> "idle", op |-> "", user |-> None, path |-> None, row |-> 0]

(* The tables may come to a storage with files.                             *)
Init ==
    /\ st \in [Rows -> {"free", "live"}]
    /\ path \in [Rows -> Paths \union {None}]
    /\ \A r, s \in Rows : st[s] = "live" /\ r <= s => st[r] = "live" /\ path[r] # None
    /\ \A r, s \in Rows : /\ st[r] = "free" <=> path[r] = None
                          /\ path[r] = path[s] => r = s \/ st[r] = "free"
    /\ users = Users /\ readers = Users
    /\ stars = {} /\ wanted = {} /\ swept = {}
    /\ viewed = [x \in Users \X Rows |-> -1] /\ last = viewed
    /\ now = 0 /\ task = [t \in Tasks |-> Idle]
    /\ requests = 0 /\ changes = 0

Exists(r) == st[r] \in {"partial", "live", "trash"}
AliveAt(p) == {r \in Rows : st[r] \in {"partial", "live"} /\ path[r] = p}
At(t, pc) == task[t].pc = pc
Go(t, pc) == task' = [task EXCEPT ![t].pc = pc]
End(t) == task' = [task EXCEPT ![t] = Idle]

-----------------------------------------------------------------------------
(* What the lists show: live uploaded files.                                *)

Shows(r) == st[r] = "live" /\ path[r] \notin Folders

Starred(u) == {r \in Rows : <<u, r>> \in stars /\ Shows(r)}

Recents(u) == {r \in Rows : viewed[u, r] >= 0 /\ Shows(r)}

-----------------------------------------------------------------------------
(* The requests.                                                            *)

Ask(t) ==
    /\ At(t, "idle") /\ requests < MaxRequests /\ requests' = requests + 1
    /\ \E op \in {"star", "unstar", "view"}, u \in users, p \in Paths \union Folders :
           task' = [task EXCEPT ![t] =
               [pc |-> "access", op |-> op, user |-> u, path |-> p, row |-> 0]]
    /\ UNCHANGED <<rows, users, readers, stars, viewed, now, last, hist, changes>>

(* check_access, then normalize_file_path, which refuses a folder.          *)
Access(t) ==
    /\ At(t, "access")
    /\ IF task[t].user \in readers /\ task[t].path \notin Folders
       THEN Go(t, IF task[t].op = "unstar" THEN "unstar" ELSE "find")
       ELSE End(t)
    /\ UNCHANGED <<rows, users, readers, stars, viewed, now, last, hist, bounds>>

Finds(t, op, pc) ==
    /\ At(t, "find") /\ task[t].op = op
    /\ LET found == {r \in AliveAt(task[t].path) : st[r] = "live"} IN
           \/ found = {} /\ End(t)
           \/ \E r \in found : task' = [task EXCEPT ![t].pc = pc, ![t].row = r]
    /\ UNCHANGED <<rows, users, readers, stars, viewed, now, last, hist, bounds>>

AddFinds(t) == Finds(t, "star", "star")
RecordFinds(t) == Finds(t, "view", "view")

\* mutant: the row need not be there any more
ReferencesAny(t) == TRUE

(* The foreign keys of both tables.                                         *)
References(t) == Exists(task[t].row) /\ task[t].user \in users

Star(t) ==
    /\ At(t, "star") /\ End(t)
    /\ LET new == {x \in {<<task[t].user, task[t].row>>} : References(t)} IN
           /\ stars' = stars \union new
           /\ wanted' = wanted \union new /\ swept' = swept \ new
    /\ UNCHANGED <<rows, users, readers, viewed, now, last, bounds>>

(* By path: of every row there, one in the trash included.                  *)
Unstar(t) ==
    /\ At(t, "unstar") /\ End(t)
    /\ LET lost == {x \in stars : x[1] = task[t].user /\ path[x[2]] = task[t].path} IN
           /\ stars' = stars \ lost
           /\ wanted' = wanted \ {x \in lost : Shows(x[2])}
           /\ swept' = swept \union {x \in lost : ~Shows(x[2])}
    /\ UNCHANGED <<rows, users, readers, viewed, now, last, bounds>>

Views(u, v) == {r \in Rows : v[u, r] >= 0}

\* mutant: the trim keeps those viewed first
TrimmedOldFirst(u, v) ==
    {keep \in SUBSET Views(u, v) :
        /\ Cardinality(keep) = IF Cardinality(Views(u, v)) < RECENT_LIMIT
                               THEN Cardinality(Views(u, v)) ELSE RECENT_LIMIT
        /\ \A r \in keep, s \in Views(u, v) \ keep : v[u, r] <= v[u, s]}

(* The RECENT_LIMIT latest of a user; among those of one second, any.       *)
Trimmed(u, v) ==
    {keep \in SUBSET Views(u, v) :
        /\ Cardinality(keep) = IF Cardinality(Views(u, v)) < RECENT_LIMIT
                               THEN Cardinality(Views(u, v)) ELSE RECENT_LIMIT
        /\ \A r \in keep, s \in Views(u, v) \ keep : v[u, r] >= v[u, s]}

View(t) ==
    /\ At(t, "view") /\ End(t)
    /\ LET u == task[t].user
           v == [viewed EXCEPT ![<<u, task[t].row>>] = now]
       IN \/ ~References(t) /\ UNCHANGED <<viewed, last>>
          \/ /\ References(t)
             /\ \E keep \in Trimmed(u, v) :
                    viewed' = [x \in Users \X Rows |->
                                  IF x[1] = u /\ x[2] \notin keep THEN -1 ELSE v[x]]
             /\ last' = [last EXCEPT ![<<u, task[t].row>>] = now]
    /\ UNCHANGED <<rows, users, readers, stars, now, hist, bounds>>

-----------------------------------------------------------------------------
(* What happens to the rows, the users and the grants meanwhile.            *)

Change == changes < MaxChanges /\ changes' = changes + 1

Create ==
    /\ Change
    /\ \E r \in Rows, p \in Paths \union Folders :
           /\ st[r] = "free" /\ \A s \in Rows : s < r => st[s] # "free"
           /\ AliveAt(p) = {}
           /\ st' = [st EXCEPT ![r] = IF p \in Folders THEN "live" ELSE "partial"]
           /\ path' = [path EXCEPT ![r] = p]
    /\ UNCHANGED <<users, readers, stars, viewed, now, task, last, hist, requests>>

Becomes(from, to) ==
    \E r \in Rows :
        /\ st[r] = from /\ (from = "trash" => AliveAt(path[r]) = {})
        /\ st' = [st EXCEPT ![r] = to]

(* A relay ends, a row is trashed, restored or replaced: it keeps its id.   *)
Turn ==
    /\ Change
    /\ \/ Becomes("partial", "live") \/ Becomes("live", "trash")
       \/ Becomes("trash", "live") \/ Becomes("live", "partial")
    /\ UNCHANGED <<path, users, readers, stars, viewed, now, task, last, hist, requests>>

Rename ==
    /\ Change
    /\ \E r \in Rows, p \in Paths :
           /\ st[r] = "live" /\ path[r] \in Paths /\ AliveAt(p) = {}
           /\ path' = [path EXCEPT ![r] = p]
    /\ UNCHANGED <<st, users, readers, stars, viewed, now, task, last, hist, requests>>

Without(gone) ==
    /\ stars' = stars \ gone /\ wanted' = wanted \ gone /\ swept' = swept \ gone
    /\ viewed' = [x \in Users \X Rows |-> IF x \in gone THEN -1 ELSE viewed[x]]

(* The foreign keys cascade.                                                *)
Purge ==
    /\ Change
    /\ \E r \in Rows : /\ st[r] \in {"trash", "partial"} /\ st' = [st EXCEPT ![r] = "gone"]
                       /\ Without(Users \X {r})
    /\ UNCHANGED <<path, users, readers, now, task, last, requests>>

RemoveUser ==
    /\ Change
    /\ \E u \in users : /\ users' = users \ {u} /\ readers' = readers \ {u}
                        /\ Without({u} \X Rows)
    /\ UNCHANGED <<rows, now, task, last, requests>>

Grant ==
    /\ Change
    /\ \E u \in users : readers' = IF u \in readers THEN readers \ {u} ELSE readers \union {u}
    /\ UNCHANGED <<rows, users, stars, viewed, now, task, last, hist, requests>>

Tick ==
    /\ now < MaxTime /\ now' = now + 1
    /\ UNCHANGED <<rows, users, readers, stars, viewed, task, last, hist, bounds>>

Step(t) == Access(t) \/ AddFinds(t) \/ RecordFinds(t) \/ Star(t) \/ Unstar(t) \/ View(t)

(* Requests and changes are bounded: once they are used up, nothing moves.   *)
Rests == (\A t \in Tasks : At(t, "idle")) /\ UNCHANGED vars

Next ==
    \/ \E t \in Tasks : Ask(t) \/ Step(t)
    \/ Create \/ Turn \/ Rename \/ Purge \/ RemoveUser \/ Grant \/ Tick \/ Rests

Spec == Init /\ [][Next]_vars

-----------------------------------------------------------------------------
(* Properties.                                                              *)

TypeOK ==
    /\ st \in [Rows -> {"free", "partial", "live", "trash", "gone"}]
    /\ path \in [Rows -> Paths \union Folders \union {None}]
    /\ readers \subseteq users /\ users \subseteq Users
    /\ viewed \in [Users \X Rows -> -1 .. MaxTime] /\ last \in [Users \X Rows -> -1 .. MaxTime]
    /\ requests \in 0 .. MaxRequests /\ changes \in 0 .. MaxChanges /\ now \in 0 .. MaxTime

(* However a request straddles a purge or the removal of its user, no star  *)
(* and no view is left that names what is gone (FavoritesService::add,      *)
(* RecentService::record, hard_delete_ids).                                 *)
NoneDangles ==
    \A u \in Users, r \in Rows :
        <<u, r>> \in stars \/ viewed[u, r] >= 0 => u \in users /\ Exists(r)

(* A star stays on the row it was set for, wherever that is renamed, trashed*)
(* or restored, until its user takes it back: one taken back stays away, and*)
(* one that was not is lost only in the trash, with the path its user took  *)
(* the star from (FavoritesService::add, remove_by_path).                   *)
StarsFollow ==
    \A u \in users, r \in Rows :
        Shows(r) => (r \in Starred(u) <=> <<u, r>> \in wanted \ swept)

(* The recent files are at most RECENT_LIMIT, and none is left out that was *)
(* viewed after one that is shown (upsert_and_trim, list).                  *)
RecentsAreLatest ==
    \A u \in users :
        /\ Cardinality(Recents(u)) <= RECENT_LIMIT
        /\ \A r \in Recents(u), s \in Rows : Shows(s) /\ last[u, s] > last[u, r] => s \in Recents(u)

(* Stars and recent files: all of these, with the types.                    *)
ShortcutsHold == TypeOK /\ NoneDangles /\ StarsFollow /\ RecentsAreLatest
=============================================================================
