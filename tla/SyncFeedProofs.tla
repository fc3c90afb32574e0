----------------------------- MODULE SyncFeedProofs -----------------------------
(***************************************************************************)
(* The client's folder and index follow the feed without a gap, for every   *)
(* set of paths, page size and number of changes, edits and failures.       *)
(*                                                                          *)
(* FeedInv says what the index owes to the feed at every step of a pass:    *)
(* a path without an event after the position the pass has reached has its  *)
(* entry equal to the server's row, unless the feed does not tell it, the   *)
(* user was asked about it, or its event was passed over.  A pass that      *)
(* fails falls back to an earlier position, where less is owed.             *)
(***************************************************************************)
EXTENDS SyncFeed, TLAPS

(* The steps of a pass in which the pull's own cursor counts.               *)
Following == {"push", "page", "event"}

Excused == stray \cup passed \cup conflicts

Owed(p, from) == ~Told(p, from) /\ p \notin Excused

(* An entry that is fresh is the file.                                      *)
FreshIsFile == \A p \in Paths : fresh[p] => idx[p] = local[p]

(* The last event of a path says what the server has.                       *)
LastTells ==
    \A i \in 1 .. Len(log) :
        Told(log[i].path, i) \/ log[i].path \in stray \/ live[log[i].path] = log[i].hash

(* The page is what follows the pull's cursor in the log.                   *)
PageIsLog ==
    /\ pc = "event" =>
           /\ at + Len(page) =< Len(log)
           /\ \A k \in 1 .. Len(page) : page[k] = log[at + k]
    /\ pc = "event" /\ leg # "none" =>
           page # <<>> /\ Head(page).op = "upsert" /\ Head(page).path = now

(* The file under way, and where the feed was read when it was chosen.      *)
HandFrom == IF pc = "bootstrap" THEN snapCursor ELSE at + 1

(* A file under way is the server's, unless it is told again, or was edited *)
(* since; it is there when its stamp is the one that was read.              *)
HandHolds ==
    /\ leg # "none" => pc \in {"bootstrap", "event"} /\ now \in Paths
    /\ leg # "none" /\ pc = "bootstrap" => now \in todo
    /\ stamped => leg = "hash" /\ local[now] # 0
    /\ leg \in {"stat", "hash"} /\ ~Told(now, HandFrom) /\ now \notin stray \cup passed =>
           local[now] = live[now]

(* What the bootstrap has still to do is as the snapshot says.              *)
SnapshotTells ==
    /\ pc \in {"snapshot", "max_cursor"} => todo = Paths
    /\ pc = "bootstrap" =>
           \A p \in Paths :
               /\ p \notin todo /\ Owed(p, snapCursor) => idx[p] = live[p]
               /\ p \in todo /\ ~Told(p, snapCursor) /\ p \notin stray =>
                      snap[p] = live[p] /\ idx[p] \in {0, snap[p]}

(* What is behind the position is in the index.                             *)
Caught ==
    /\ pc \in Following => cursor =< at /\ \A p \in Paths : Owed(p, at) => idx[p] = live[p]
    /\ pc = "idle" /\ cursor > 0 => \A p \in Paths : Owed(p, cursor) => idx[p] = live[p]
    /\ pc \in {"snapshot", "max_cursor", "bootstrap"} => cursor = 0

FeedInv ==
    /\ TypeOK /\ FreshIsFile /\ LastTells /\ PageIsLog /\ HandHolds /\ SnapshotTells /\ Caught
-----------------------------------------------------------------------------
(* How the feed grows.                                                      *)

(* Events are only appended; one is there for every row that changed and    *)
(* for every path that is told again, and the last one of a path says what  *)
(* the row is.                                                              *)
Grows ==
    /\ Len(log) =< Len(log') /\ \A i \in 1 .. Len(log) : log'[i] = log[i]
    /\ \A p \in Paths :
           live'[p] # live[p] \/ (p \in stray /\ p \notin stray')
           => \E i \in Len(log) + 1 .. Len(log') : log'[i].path = p
    /\ \A i \in Len(log) + 1 .. Len(log') :
           \/ \E k \in i + 1 .. Len(log') : log'[k].path = log'[i].path
           \/ log'[i].path \in stray' \/ live'[log'[i].path] = log'[i].hash

FeedType ==
    /\ live \in [Paths -> Contents] /\ trash \in [Paths -> Contents]
    /\ log \in Seq(Events) /\ stray \subseteq Paths /\ changes \in 0 .. MaxChanges

LEMMA EventTypes ==
  \A p \in Paths, v \in Contents :
    /\ Upsert(p, v) \in Events /\ Upsert(p, v).path = p /\ Upsert(p, v).hash = v
    /\ Deleted(p) \in Events /\ Deleted(p).path = p /\ Deleted(p).hash = 0
<1> TAKE p \in Paths, v \in Contents
<1>1. Upsert(p, v) \in Events
  BY DEF Events
<1>2. Deleted(p) \in Events
  BY DEF Events
<1> QED BY <1>1, <1>2 DEF Upsert, Deleted

LEMMA EventFacts ==
  \A e \in Events : e.path \in Paths /\ e.hash \in Contents /\ (e.op = "delete" => e.hash = 0)
BY DEF Events, Upsert, Deleted, Contents

LEMMA GrowsByOne ==
  ASSUME FeedType, NEW e \in Events, log' = Append(log, e),
         \A q \in Paths \ {e.path} : live'[q] = live[q] /\ (q \in stray => q \in stray'),
         e.path \in stray' \/ live'[e.path] = e.hash
  PROVE  Grows /\ log' \in Seq(Events)
<1>1. log \in Seq(Events) /\ Len(log) \in Nat /\ e.path \in Paths
  BY EventFacts DEF FeedType
<1>2. /\ Len(log') = Len(log) + 1 /\ log'[Len(log) + 1] = e /\ log' \in Seq(Events)
      /\ \A i \in 1 .. Len(log) : log'[i] = log[i]
  BY <1>1
<1>3. \A i \in Len(log) + 1 .. Len(log') : log'[i] = e
  BY <1>1, <1>2
<1>4. Len(log) + 1 \in Len(log) + 1 .. Len(log') /\ Len(log) =< Len(log')
  BY <1>1, <1>2
<1>5. \A p \in Paths : live'[p] # live[p] \/ (p \in stray /\ p \notin stray')
        => \E i \in Len(log) + 1 .. Len(log') : log'[i].path = p
  BY <1>2, <1>4
<1> QED BY <1>2, <1>3, <1>4, <1>5 DEF Grows

LEMMA GrowsByTwo ==
  ASSUME FeedType, NEW d \in Events, NEW e \in Events, log' = log \o <<d, e>>, d.path # e.path,
         \A q \in Paths \ {d.path, e.path} :
             live'[q] = live[q] /\ (q \in stray => q \in stray'),
         live'[d.path] = d.hash, live'[e.path] = e.hash
  PROVE  Grows /\ log' \in Seq(Events)
<1>1. log \in Seq(Events) /\ Len(log) \in Nat /\ d.path \in Paths /\ e.path \in Paths
  BY EventFacts DEF FeedType
<1>2. /\ Len(log') = Len(log) + 2 /\ log'[Len(log) + 1] = d /\ log'[Len(log) + 2] = e
      /\ log' \in Seq(Events) /\ \A i \in 1 .. Len(log) : log'[i] = log[i]
  BY <1>1
<1>3. \A i \in Len(log) + 1 .. Len(log') : log'[i] \in {d, e}
  BY <1>1, <1>2
<1>4. /\ Len(log) + 1 \in Len(log) + 1 .. Len(log')
      /\ Len(log) + 2 \in Len(log) + 1 .. Len(log')
      /\ Len(log) =< Len(log')
  BY <1>1, <1>2
<1>5. \A p \in Paths : live'[p] # live[p] \/ (p \in stray /\ p \notin stray')
        => \E i \in Len(log) + 1 .. Len(log') : log'[i].path = p
  BY <1>2, <1>4
<1> QED BY <1>2, <1>3, <1>4, <1>5 DEF Grows

(* A step that appends nothing.                                             *)
LEMMA GrowsNot ==
  ASSUME FeedType, UNCHANGED <<live, log>>, stray \subseteq stray' PROVE Grows
<1>1. Len(log) \in Nat
  BY DEF FeedType
<1> QED BY <1>1 DEF Grows

(* The steps of the client that are not a push, and the user's.             *)
Rest == \/ Start \/ SnapshotFiles \/ Bootstrapped \/ Pushed
        \/ \E p \in Paths : Bootstrap(p) \/ ToBootstrap(p) \/ PushNothing(p) \/ PushFails(p)
        \/ Page \/ ApplyDelete \/ ApplyEqual \/ KeepLocal \/ ToFetch \/ Download \/ Stat
        \/ FileMissing \/ BootstrapEnter \/ PullEnter
        \/ PageDone \/ RequestFails \/ Reopen
        \/ \E p \in Paths, v \in Contents : LocalEdit(p, v)

LEMMA Kinds ==
  [Next]_vars => \/ Server \/ Rest \/ MaxCursor \/ (\E p \in Paths : Push(p)) \/ UNCHANGED vars
BY DEF Next, Client, Rest

LEMMA RestKeepsFeed == Rest => UNCHANGED serverVars
BY DEF Rest, Start, SnapshotFiles, Bootstrapped, Pushed, Bootstrap, ToBootstrap, PushNothing,
    PushFails,
       Page, ApplyDelete, ApplyEqual, KeepLocal, ToFetch, Download, Stat, Entered, FileMissing,
           BootstrapEnter,
       PullEnter, PageDone,
       RequestFails, Reopen,
       LocalEdit

LEMMA FeedStep ==
  SyncFeedConstants /\ TypeOK /\ [Next]_vars => Grows /\ FeedType'
<1> SUFFICES ASSUME SyncFeedConstants, TypeOK, [Next]_vars PROVE Grows /\ FeedType'
  OBVIOUS
<1>0. /\ FeedType /\ local \in [Paths -> Contents] /\ snap \in [Paths -> Contents]
      /\ MaxChanges \in Nat
      /\ 0 \in Contents /\ Versions \subseteq Contents
  BY DEF TypeOK, FeedType, SyncFeedConstants, Contents
<1>1. ASSUME NEW p \in Paths, NEW v \in Versions, Upload(p, v) PROVE Grows /\ FeedType'
  <2>1. Grows /\ log' \in Seq(Events)
    BY <1>0, <1>1, EventTypes, GrowsByOne DEF Upload, FeedType
  <2> QED BY <1>0, <1>1, <2>1 DEF Upload, Change, FeedType
<1>2. ASSUME NEW p \in Paths, Trash(p) PROVE Grows /\ FeedType'
  <2>1. Grows /\ log' \in Seq(Events)
    BY <1>0, <1>2, EventTypes, GrowsByOne DEF Trash, FeedType
  <2> QED BY <1>0, <1>2, <2>1 DEF Trash, Change, FeedType
<1>3. ASSUME NEW p \in Paths, Restore(p) PROVE Grows /\ FeedType'
  <2>1. Grows /\ log' \in Seq(Events)
    BY <1>0, <1>3, EventTypes, GrowsByOne DEF Restore, FeedType
  <2> QED BY <1>0, <1>3, <2>1 DEF Restore, Change, FeedType
<1>9. ASSUME NEW p \in Paths, RestoreReplaces(p) PROVE Grows /\ FeedType'
  <2>1. Grows /\ log' \in Seq(Events)
    BY <1>0, <1>9, EventTypes, GrowsByOne DEF RestoreReplaces, FeedType
  <2> QED BY <1>0, <1>9, <2>1 DEF RestoreReplaces, Change, FeedType
<1>10. ASSUME NEW p \in Paths, NEW q \in Paths, p # q, RestoreRenames(p, q)
       PROVE Grows /\ FeedType'
  <2>1. Grows /\ log' \in Seq(Events)
    BY <1>0, <1>10, EventTypes, GrowsByOne DEF RestoreRenames, FeedType
  <2> QED BY <1>0, <1>10, <2>1 DEF RestoreRenames, Change, FeedType
<1>4. ASSUME NEW p \in Paths, Purge(p) PROVE Grows /\ FeedType'
  <2>1. Grows /\ log' \in Seq(Events)
    BY <1>0, <1>4, EventTypes, GrowsByOne DEF Purge, FeedType
  <2> QED BY <1>0, <1>4, <2>1 DEF Purge, Change, FeedType
<1>5. ASSUME NEW p \in Paths, NEW q \in Paths, p # q, Rename(p, q) PROVE Grows /\ FeedType'
  <2>1. Grows /\ log' \in Seq(Events)
    <3> DEFINE d == Deleted(p)
               e == Upsert(q, live[p])
    <3>1. d \in Events /\ e \in Events /\ d.path = p /\ e.path = q /\ d.hash = 0
          /\ e.hash = live[p]
      BY <1>0, EventTypes DEF FeedType
    <3>2. /\ log' = log \o <<d, e>> /\ stray' = stray \ {p, q}
          /\ live' = [live EXCEPT ![p] = 0, ![q] = live[p]]
      BY <1>5 DEF Rename
    <3> HIDE DEF d, e
    <3>3. /\ live'[p] = 0 /\ live'[q] = live[p]
          /\ \A r \in Paths \ {p, q} : live'[r] = live[r] /\ (r \in stray => r \in stray')
      BY <1>0, <1>5, <3>2 DEF FeedType
    <3> QED BY <1>0, <1>5, <3>1, <3>2, <3>3, GrowsByTwo
  <2> QED BY <1>0, <1>5, <2>1 DEF Rename, Change, FeedType
<1>6. CASE Rest \/ UNCHANGED vars
  <2>1. UNCHANGED serverVars
    BY <1>6, RestKeepsFeed DEF vars
  <2> QED BY <1>0, <2>1, GrowsNot DEF serverVars, FeedType
<1>7. CASE MaxCursor
  BY <1>0, <1>7, GrowsNot DEF MaxCursor, FeedType
<1>8. ASSUME NEW p \in Paths, Push(p) PROVE Grows /\ FeedType'
  <2>1. CASE local[p] \in {idx[p], live[p]}
    BY <1>0, <1>8, <2>1, GrowsNot DEF Push, FeedType
  <2>2. CASE local[p] \notin {idx[p], live[p]}
    <3>1. Grows /\ log' \in Seq(Events)
      BY <1>0, <1>8, <2>2, EventTypes, GrowsByOne DEF Push, FeedType
    <3> QED BY <1>0, <1>8, <2>2, <3>1 DEF Push, FeedType
  <2> QED BY <2>1, <2>2
<1> QED BY <1>1, <1>2, <1>3, <1>4, <1>5, <1>6, <1>7, <1>8, <1>9, <1>10, Kinds DEF Server

(* What is owed after a step was owed before it, for the same row.          *)
LEMMA OwedBefore ==
  ASSUME FeedType, FeedType', Grows, NEW p \in Paths, NEW from \in 0 .. Len(log),
         \A i \in from + 1 .. Len(log') : log'[i].path # p, p \notin stray'
  PROVE  ~Told(p, from) /\ p \notin stray /\ live'[p] = live[p]
<1>0. log \in Seq(Events) /\ log' \in Seq(Events)
  BY DEF FeedType
<1>1. Len(log) \in Nat /\ Len(log') \in Nat /\ Len(log) =< Len(log')
  BY <1>0 DEF Grows
<1>2. \A i \in from + 1 .. Len(log) : log[i].path # p
  BY <1>1 DEF Grows
<1>3. \A i \in Len(log) + 1 .. Len(log') : log'[i].path # p
  BY <1>1
<1> QED BY <1>2, <1>3 DEF Told, Grows

LEMMA LastTellsStep ==
  ASSUME FeedType, FeedType', LastTells, Grows PROVE LastTells'
<1> SUFFICES ASSUME NEW i \in 1 .. Len(log'),
                    \A k \in i + 1 .. Len(log') : log'[k].path # log'[i].path,
                    log'[i].path \notin stray'
             PROVE  live'[log'[i].path] = log'[i].hash
  BY DEF LastTells, Told
<1>0. log \in Seq(Events) /\ log' \in Seq(Events)
  BY DEF FeedType
<1>1. Len(log) \in Nat /\ Len(log') \in Nat /\ Len(log) =< Len(log')
  BY <1>0 DEF Grows
<1>2. CASE i \in 1 .. Len(log)
  <2>1. log'[i] = log[i] /\ log[i].path \in Paths
    <3>1. log[i] \in Events
      BY <1>0, <1>2
    <3>2. log'[i] = log[i]
      BY <1>2 DEF Grows
    <3> QED BY <3>1, <3>2, EventFacts
  <2>2. ~Told(log[i].path, i) /\ log[i].path \notin stray
        /\ live'[log[i].path] = live[log[i].path]
    BY <1>1, <1>2, <2>1, OwedBefore
  <2> QED BY <1>2, <2>1, <2>2 DEF LastTells
<1>3. CASE i \in Len(log) + 1 .. Len(log')
  BY <1>3 DEF Grows
<1> QED BY <1>1, <1>2, <1>3
-----------------------------------------------------------------------------
(* What the client keeps.                                                   *)

IndexType ==
    /\ local \in [Paths -> Contents] /\ fresh \in [Paths -> BOOLEAN]
    /\ idx \in [Paths -> Contents] /\ passed \subseteq Paths /\ conflicts \subseteq Paths
    /\ edits \in 0 .. MaxEdits
PassType ==
    /\ pc \in Following \cup {"idle", "snapshot", "max_cursor", "bootstrap"}
    /\ snap \in [Paths -> Contents] /\ todo \subseteq Paths /\ page \in Seq(Events)
    /\ more \in BOOLEAN /\ faults \in 0 .. MaxFaults
    /\ leg \in {"none", "download", "stat", "hash"} /\ now \in Paths \cup {NoPath}
    /\ stamped \in BOOLEAN

(* The cursors do not run ahead of the log.                                 *)
Cursors == cursor \in 0 .. Len(log) /\ snapCursor \in 0 .. Len(log) /\ at \in 0 .. Len(log)

LEMMA Types == TypeOK <=> FeedType /\ IndexType /\ PassType /\ Cursors
BY DEF TypeOK, FeedType, IndexType, PassType, Cursors, Following

(* The event that a step of the pull is about.                              *)
LEMMA HeadEvent ==
  ASSUME FeedType, PassType, Cursors, PageIsLog, pc = "event", page # <<>>
  PROVE  /\ Head(page) \in Events /\ Head(page).path \in Paths /\ Head(page) = log[at + 1]
         /\ at + 1 \in 1 .. Len(log) /\ Tail(page) \in Seq(Events)
         /\ Len(Tail(page)) = Len(page) - 1
         /\ \A k \in 1 .. Len(page) - 1 : Tail(page)[k] = page[k + 1]
<1>1. page \in Seq(Events) /\ log \in Seq(Events) /\ at \in Nat
  BY DEF FeedType, PassType, Cursors
<1>2. Len(page) \in Nat \ {0} /\ Head(page) = page[1] /\ page[1] \in Events
  BY <1>1
<1>3. at + Len(page) =< Len(log) /\ page[1] = log[at + 1]
  BY <1>2 DEF PageIsLog
<1> QED BY <1>1, <1>2, <1>3, EventFacts

(* The step that ends an event.                                             *)
Applied == pc = "event" /\ page # <<>> /\ EventDone /\ pc' = "event"

(* How a step moves the pass.                                               *)
LEMMA PassMoves ==
  PageIsLog /\ [Next]_vars =>
    \/ UNCHANGED <<pc, at, page, cursor, snap, snapCursor>> /\ todo' \subseteq todo
    \/ ToIdle /\ (UNCHANGED cursor \/ (pc = "event" /\ page = <<>> /\ cursor' = at))
    \/ Start
    \/ SnapshotFiles \/ MaxCursor \/ Bootstrapped
    \/ /\ pc = "push" /\ todo = {} /\ pc' = "page"
       /\ UNCHANGED <<todo, at, cursor, snap, snapCursor, page>>
    \/ Page
    \/ Applied /\ UNCHANGED <<todo, cursor, snap, snapCursor>>
    \/ /\ pc = "event" /\ page = <<>> /\ pc' = "page"
       /\ UNCHANGED <<todo, at, cursor, snap, snapCursor, page>>
<1> SUFFICES ASSUME PageIsLog, [Next]_vars,
                    ~(Start \/ SnapshotFiles \/ MaxCursor \/ Bootstrapped \/ Page)
             PROVE  \/ UNCHANGED <<pc, at, page, cursor, snap, snapCursor>> /\ todo' \subseteq todo
                    \/ /\ ToIdle
                       /\ UNCHANGED cursor \/ (pc = "event" /\ page = <<>> /\ cursor' = at)
                    \/ /\ pc = "push" /\ todo = {} /\ pc' = "page"
                       /\ UNCHANGED <<todo, at, cursor, snap, snapCursor, page>>
                    \/ Applied /\ UNCHANGED <<todo, cursor, snap, snapCursor>>
                    \/ /\ pc = "event" /\ page = <<>> /\ pc' = "page"
                       /\ UNCHANGED <<todo, at, cursor, snap, snapCursor, page>>
  OBVIOUS
<1>1. CASE Server \/ UNCHANGED vars
  BY <1>1 DEF Server, Upload, Trash, Restore, RestoreReplaces, RestoreRenames, Purge, Rename,
      vars, passVars, handVars
<1>2. CASE \E p \in Paths : Push(p)
  BY <1>2 DEF Push
<1>3. CASE Rest
  <2>1. CASE Pushed \/ PageDone
    BY <2>1 DEF Pushed, PageDone, passVars, handVars
  <2>2. CASE \/ \E p \in Paths : Bootstrap(p) \/ ToBootstrap(p) \/ PushNothing(p) \/ PushFails(p)
             \/ ToFetch \/ Download \/ Stat \/ BootstrapEnter
    BY <2>2 DEF Bootstrap, ToBootstrap, PushNothing, PushFails, ToFetch, Download, Stat,
        BootstrapEnter
  <2>3. CASE FileMissing \/ RequestFails \/ Reopen
    BY <2>3 DEF FileMissing, RequestFails, Reopen
  <2>4. CASE ApplyDelete \/ ApplyEqual \/ KeepLocal
    BY <2>4 DEF ApplyDelete, ApplyEqual, KeepLocal, Applied
  <2>5. CASE PullEnter
    BY <2>5 DEF PullEnter, Entered, PageIsLog, Applied
  <2>6. CASE \E p \in Paths, v \in Contents : LocalEdit(p, v)
    BY <2>6 DEF LocalEdit
  <2> QED BY <1>3, <2>1, <2>2, <2>3, <2>4, <2>5, <2>6 DEF Rest
<1> QED BY <1>1, <1>2, <1>3, Kinds

(* How a step moves what is known of the paths: nothing, one path by a      *)
(* bootstrap, a push or an event, or the folder alone.                      *)
LEMMA IndexMoves ==
  [Next]_vars =>
    \/ UNCHANGED <<local, fresh, idx, passed, conflicts>>
    \/ \E p \in Paths : Bootstrap(p) \/ Push(p)
    \/ ApplyDelete \/ ApplyEqual \/ KeepLocal \/ Download \/ BootstrapEnter \/ PullEnter
    \/ \E p \in Paths, v \in Contents : LocalEdit(p, v)
<1>1. CASE Server \/ MaxCursor \/ UNCHANGED vars
  BY <1>1 DEF Server, Upload, Trash, Restore, RestoreReplaces, RestoreRenames, Purge, Rename,
      MaxCursor, vars, folderVars,
      indexVars
<1>2. CASE Rest
  BY <1>2 DEF Rest, Start, SnapshotFiles, Bootstrapped, Pushed, ToBootstrap, PushNothing,
      PushFails,
       Page, ToFetch, Stat, FileMissing, PageDone, RequestFails, Reopen, folderVars, indexVars
<1> QED BY <1>1, <1>2, Kinds
LEMMA IndexTypeStep ==
  SyncFeedConstants /\ TypeOK /\ PageIsLog /\ HandHolds /\ [Next]_vars => IndexType'
<1> SUFFICES ASSUME SyncFeedConstants, TypeOK, PageIsLog, HandHolds, [Next]_vars
             PROVE IndexType'
  OBVIOUS
<1>0. /\ IndexType /\ FeedType /\ PassType /\ Cursors /\ 0 \in Contents /\ MaxEdits \in Nat
  BY Types DEF SyncFeedConstants, Contents
<1>1. edits' \in 0 .. MaxEdits
  <2>1. UNCHANGED edits \/ \E p \in Paths, v \in Contents : LocalEdit(p, v)
    <3>1. CASE Server \/ MaxCursor \/ (\E p \in Paths : Push(p)) \/ UNCHANGED vars
      BY <3>1 DEF Server, Upload, Trash, Restore, RestoreReplaces, RestoreRenames, Purge,
          Rename, MaxCursor, Push, vars,
          folderVars
    <3>2. CASE Rest
      BY <3>2 DEF Rest, Start, SnapshotFiles, Bootstrapped, Pushed, Bootstrap, ToBootstrap,
          PushNothing,
           PushFails, Page, ApplyDelete, ApplyEqual, KeepLocal, ToFetch, Download, Stat,
               Entered, FileMissing, BootstrapEnter,
       PullEnter,
           PageDone,
           RequestFails, Reopen, folderVars
    <3> QED BY <3>1, <3>2, Kinds
  <2> QED BY <1>0, <2>1 DEF LocalEdit, IndexType
<1>2. CASE UNCHANGED <<local, fresh, idx, passed, conflicts>>
  BY <1>0, <1>1, <1>2 DEF IndexType
<1>3. ASSUME NEW p \in Paths, Bootstrap(p) \/ Push(p) PROVE IndexType'
  <2>1. CASE Bootstrap(p)
    BY <1>0, <1>1, <2>1 DEF Bootstrap, folderVars, IndexType
  <2>2. CASE Push(p)
    BY <1>0, <1>1, <2>2 DEF Push, IndexType, FeedType
  <2> QED BY <1>3, <2>1, <2>2
<1>4. CASE ApplyDelete \/ ApplyEqual \/ KeepLocal \/ PullEnter
  <2>1. Head(page).path \in Paths
    BY <1>0, <1>4, HeadEvent DEF ApplyDelete, ApplyEqual, KeepLocal, PullEnter, Entered, PageIsLog
  <2>2. CASE ApplyDelete
    BY <1>0, <1>1, <2>1, <2>2 DEF ApplyDelete, IndexType
  <2>3. CASE ApplyEqual
    BY <1>0, <1>1, <2>1, <2>3 DEF ApplyEqual, folderVars, IndexType
  <2>4. CASE KeepLocal
    BY <1>0, <1>1, <2>1, <2>4 DEF KeepLocal, folderVars, IndexType
  <2>5. CASE PullEnter
    <3>1. Expected \in Contents
      BY <1>0, <2>5, HeadEvent, EventFacts DEF PullEnter, Entered, PageIsLog, Expected
    <3> QED BY <1>0, <1>1, <2>5, <3>1 DEF PullEnter, Entered, HandHolds, IndexType
  <2> QED BY <1>4, <2>2, <2>3, <2>4, <2>5
<1>5. ASSUME NEW p \in Paths, NEW v \in Contents, LocalEdit(p, v) PROVE IndexType'
  BY <1>0, <1>1, <1>5 DEF LocalEdit, IndexType
<1>6. CASE Download
  BY <1>0, <1>1, <1>6 DEF Download, HandHolds, IndexType, FeedType
<1>7. CASE BootstrapEnter
  <2>1. now \in Paths /\ Expected \in Contents
    BY <1>0, <1>7 DEF BootstrapEnter, Entered, HandHolds, Expected, PassType
  <2> QED BY <1>0, <1>1, <1>7, <2>1 DEF BootstrapEnter, Entered, IndexType
<1> QED BY <1>2, <1>3, <1>4, <1>5, <1>6, <1>7, IndexMoves

LEMMA FreshIsFileStep ==
  TypeOK /\ PageIsLog /\ HandHolds /\ FreshIsFile /\ [Next]_vars => FreshIsFile'
<1> SUFFICES ASSUME TypeOK, PageIsLog, HandHolds, FreshIsFile, [Next]_vars
             PROVE FreshIsFile'
  OBVIOUS
<1>0. IndexType /\ FeedType /\ PassType /\ Cursors
  BY Types
<1>2. CASE UNCHANGED <<local, fresh, idx, passed, conflicts>>
  BY <1>2 DEF FreshIsFile
<1>3. ASSUME NEW p \in Paths, Bootstrap(p) \/ Push(p) PROVE FreshIsFile'
  <2>1. CASE Bootstrap(p)
    BY <2>1 DEF Bootstrap, folderVars, FreshIsFile
  <2>2. CASE Push(p)
    BY <1>0, <2>2 DEF Push, IndexType, FreshIsFile
  <2> QED BY <1>3, <2>1, <2>2
<1>4. CASE ApplyDelete \/ ApplyEqual \/ KeepLocal
  <2>1. Head(page).path \in Paths
    BY <1>0, <1>4, HeadEvent DEF ApplyDelete, ApplyEqual, KeepLocal, PageIsLog
  <2> QED BY <1>0, <1>4, <2>1 DEF ApplyDelete, ApplyEqual, KeepLocal, IndexType, FreshIsFile,
           folderVars
<1>5. ASSUME NEW p \in Paths, NEW v \in Contents, LocalEdit(p, v) PROVE FreshIsFile'
  BY <1>0, <1>5 DEF LocalEdit, IndexType, FreshIsFile
<1>6. CASE Download
  BY <1>0, <1>6 DEF Download, HandHolds, IndexType, FreshIsFile
<1>7. CASE BootstrapEnter \/ PullEnter
  <2>1. /\ Entered /\ UNCHANGED local /\ now \in Paths /\ (stamped => local[now] # 0)
    BY <1>7 DEF BootstrapEnter, PullEnter, HandHolds, Entered
  <2>2. /\ \A p \in Paths \ {now} : fresh'[p] = fresh[p] /\ idx'[p] = idx[p]
        /\ fresh'[now] => stamped
        /\ local[now] # 0 => idx'[now] = local[now]
    BY <1>0, <2>1 DEF Entered, IndexType
  <2> QED BY <2>1, <2>2 DEF FreshIsFile
<1> QED BY <1>2, <1>3, <1>4, <1>5, <1>6, <1>7, IndexMoves

(* How a step moves the file under way.                                     *)
LEMMA HandMoves ==
  [Next]_vars =>
    \/ UNCHANGED handVars \/ EndLeg \/ Download \/ Stat \/ ToFetch
    \/ \E p \in Paths : ToBootstrap(p) \/ \E v \in Contents : LocalEdit(p, v)
<1>1. CASE Server \/ MaxCursor \/ (\E p \in Paths : Push(p)) \/ UNCHANGED vars
  BY <1>1 DEF Server, Upload, Trash, Restore, RestoreReplaces, RestoreRenames, Purge, Rename,
      MaxCursor, Push, vars, passVars
<1>2. CASE Rest
  BY <1>2 DEF Rest, Start, SnapshotFiles, Bootstrapped, Pushed, Bootstrap, PushNothing,
       PushFails, Page, ApplyDelete, ApplyEqual, KeepLocal, Entered, FileMissing,
       BootstrapEnter, PullEnter, PageDone, RequestFails, Reopen, ToIdle, passVars
<1> QED BY <1>1, <1>2, Kinds

LEMMA PassTypeStep ==
  SyncFeedConstants /\ TypeOK /\ PageIsLog /\ HandHolds /\ [Next]_vars => PassType' /\ Cursors'
<1> SUFFICES ASSUME SyncFeedConstants, TypeOK, PageIsLog, HandHolds, [Next]_vars
             PROVE PassType' /\ Cursors'
  OBVIOUS
<1>0. /\ IndexType /\ FeedType /\ PassType /\ Cursors /\ MaxFaults \in Nat
      /\ PageSize \in Nat \ {0}
      /\ Empty \in [Paths -> Contents] /\ log \in Seq(Events)
  BY Types DEF SyncFeedConstants, Contents, Empty, FeedType
<1>1. Len(log) \in Nat /\ Len(log') \in Nat /\ Len(log) =< Len(log')
  <2>1. log' \in Seq(Events)
    BY FeedStep DEF FeedType
  <2> QED BY <1>0, <2>1, FeedStep DEF Grows
<1>2. faults' \in 0 .. MaxFaults
  <2>1. UNCHANGED faults \/ Fault
    <3>1. CASE Server \/ MaxCursor \/ (\E p \in Paths : Push(p)) \/ UNCHANGED vars
      BY <3>1 DEF Server, Upload, Trash, Restore, RestoreReplaces, RestoreRenames, Purge,
          Rename, MaxCursor, Push, vars
    <3>2. CASE Rest
      BY <3>2 DEF Rest, Start, SnapshotFiles, Bootstrapped, Pushed, Bootstrap, ToBootstrap,
          PushNothing,
           PushFails, Page, ApplyDelete, ApplyEqual, KeepLocal, ToFetch, Download, Stat,
               Entered, FileMissing, BootstrapEnter,
       PullEnter,
           PageDone,
           RequestFails, Reopen, LocalEdit
    <3> QED BY <3>1, <3>2, Kinds
  <2> QED BY <1>0, <2>1 DEF Fault, PassType
<1>3. more' \in BOOLEAN
  <2>1. \/ UNCHANGED more \/ more' = FALSE
        \/ more' = (Least(at + PageSize, Len(log)) - at = PageSize)
    <3>1. CASE Server \/ MaxCursor \/ (\E p \in Paths : Push(p)) \/ UNCHANGED vars
      BY <3>1 DEF Server, Upload, Trash, Restore, RestoreReplaces, RestoreRenames, Purge,
          Rename, MaxCursor, Push, vars, passVars, handVars
    <3>2. CASE Rest
      BY <3>2 DEF Rest, Start, SnapshotFiles, Bootstrapped, Pushed, Bootstrap, ToBootstrap,
          PushNothing,
           PushFails, Page, ApplyDelete, ApplyEqual, KeepLocal, ToFetch, Download, Stat,
               Entered, FileMissing, BootstrapEnter,
       PullEnter,
           PageDone,
           RequestFails, Reopen, LocalEdit, ToIdle, passVars, handVars
    <3> QED BY <3>1, <3>2, Kinds
  <2> QED BY <1>0, <2>1, Zenon DEF PassType
<1>11. /\ leg' \in {"none", "download", "stat", "hash"} /\ now' \in Paths \cup {NoPath}
       /\ stamped' \in BOOLEAN
  <2>1. \/ UNCHANGED handVars \/ EndLeg \/ Download \/ Stat \/ ToFetch
        \/ \E p \in Paths : ToBootstrap(p) \/ \E v \in Contents : LocalEdit(p, v)
    BY HandMoves
  <2>2. ToFetch => Head(page).path \in Paths
    BY <1>0, HeadEvent DEF ToFetch
  <2> QED BY <1>0, <2>1, <2>2
        DEF PassType, handVars, EndLeg, Download, Stat, ToFetch, ToBootstrap, LocalEdit
<1>4. CASE UNCHANGED <<pc, at, page, cursor, snap, snapCursor>> /\ todo' \subseteq todo
  BY <1>0, <1>1, <1>2, <1>3, <1>11, <1>4 DEF PassType, Cursors
<1>5. CASE ToIdle /\ (UNCHANGED cursor \/ cursor' = at)
  BY <1>0, <1>1, <1>2, <1>3, <1>11, <1>5 DEF PassType, Cursors, ToIdle
<1>6. CASE Start \/ SnapshotFiles \/ MaxCursor \/ Bootstrapped
  BY <1>0, <1>1, <1>2, <1>3, <1>11, <1>6 DEF PassType, FeedType, Cursors, Start, SnapshotFiles,
      MaxCursor, Bootstrapped,
       serverVars, Following
<1>7. CASE pc' = "page" /\ UNCHANGED <<todo, at, cursor, snap, snapCursor, page>>
  BY <1>0, <1>1, <1>2, <1>3, <1>11, <1>7 DEF PassType, Cursors, Following
<1>8. CASE Page
  <2>1. page' \in Seq(Events)
    <3> DEFINE last == Least(at + PageSize, Len(log))
    <3>1. last \in Nat /\ last =< Len(log) /\ at + 1 \in 1 .. Len(log) + 1
      BY <1>0, <1>1 DEF Least, Cursors
    <3>2. page' = SubSeq(log, at + 1, last)
      BY <1>8 DEF Page
    <3> HIDE DEF last
    <3> QED BY <1>0, <3>1, <3>2
  <2> QED BY <1>0, <1>1, <1>2, <1>3, <1>11, <1>8, <2>1 DEF PassType, Cursors, Page, Following
<1>9. CASE Applied /\ UNCHANGED <<todo, cursor, snap, snapCursor>>
  BY <1>0, <1>1, <1>2, <1>3, <1>11, <1>9, HeadEvent
      DEF PassType, Cursors, Applied, EventDone, Following
<1> QED BY <1>4, <1>5, <1>6, <1>7, <1>8, <1>9, PassMoves

(* While a file is under way nothing else of the pass moves.                *)
LEMMA BusyMoves ==
  ASSUME [Next]_vars, PageIsLog, HandHolds, leg # "none"
  PROVE  \/ UNCHANGED <<local, passed, pc, snap, snapCursor, todo, at, page, handVars>>
         \/ ToIdle \/ Download \/ Stat \/ BootstrapEnter \/ PullEnter
         \/ \E p \in Paths, v \in Contents : LocalEdit(p, v)
<1>1. pc \in {"bootstrap", "event"} /\ (pc = "bootstrap" => todo # {})
      /\ (pc = "event" => page # <<>>)
  BY DEF HandHolds, PageIsLog
<1>2. CASE Server \/ UNCHANGED vars
  BY <1>2 DEF Server, Upload, Trash, Restore, RestoreReplaces, RestoreRenames, Purge, Rename,
      vars, passVars, handVars, folderVars, indexVars
<1>3. CASE MaxCursor \/ (\E p \in Paths : Push(p))
  BY <1>1, <1>3 DEF MaxCursor, Push
<1>4. CASE Rest
  BY <1>1, <1>4 DEF Rest, Start, SnapshotFiles, Bootstrapped, Pushed, Bootstrap, ToBootstrap,
       PushNothing, PushFails, Page, ApplyDelete, ApplyEqual, KeepLocal, ToFetch, FileMissing,
       PageDone, RequestFails, Reopen
<1> QED BY <1>2, <1>3, <1>4, Kinds

LEMMA PageIsLogStep ==
  SyncFeedConstants /\ TypeOK /\ PageIsLog /\ HandHolds /\ [Next]_vars => PageIsLog'
<1> SUFFICES ASSUME SyncFeedConstants, TypeOK, PageIsLog, HandHolds, [Next]_vars
             PROVE PageIsLog'
  OBVIOUS
<1>0. FeedType /\ PassType /\ Cursors /\ log \in Seq(Events) /\ page \in Seq(Events)
      /\ PageSize \in Nat \ {0}
  BY Types DEF FeedType, PassType, SyncFeedConstants
<1>1. /\ Len(log) \in Nat /\ Len(log') \in Nat /\ Len(log) =< Len(log') /\ at \in Nat
      /\ \A i \in 1 .. Len(log) : log'[i] = log[i]
  <2>1. log' \in Seq(Events)
    BY FeedStep DEF FeedType
  <2> QED BY <1>0, <2>1, FeedStep DEF Grows, Cursors
<1>2. ASSUME pc = "event", UNCHANGED <<at, page>>
      PROVE  /\ at' + Len(page') =< Len(log')
             /\ \A k \in 1 .. Len(page') : page'[k] = log'[at' + k]
  <2>1. /\ at + Len(page) =< Len(log) /\ Len(page) \in Nat
        /\ \A k \in 1 .. Len(page) : page[k] = log[at + k]
    BY <1>0, <1>2 DEF PageIsLog
  <2>2. \A k \in 1 .. Len(page) : at + k \in 1 .. Len(log)
    BY <1>1, <2>1
  <2> QED BY <1>1, <1>2, <2>1, <2>2
<1>3. ASSUME pc' = "event", leg' # "none"
      PROVE  page' # <<>> /\ Head(page').op = "upsert" /\ Head(page').path = now'
  <2>1. CASE ToFetch
    BY <2>1 DEF ToFetch
  <2>2. CASE Download \/ Stat \/ \E p \in Paths, v \in Contents : LocalEdit(p, v)
    BY <1>3, <2>2 DEF Download, Stat, LocalEdit, PageIsLog
  <2>3. CASE UNCHANGED handVars
    <3>1. UNCHANGED <<pc, page>>
      BY <1>3, <2>3, BusyMoves DEF handVars, ToIdle, EndLeg, Download, Stat, BootstrapEnter,
         PullEnter, Entered, LocalEdit
    <3> QED BY <1>3, <2>3, <3>1 DEF PageIsLog, handVars
  <2> QED BY <1>3, <2>1, <2>2, <2>3, HandMoves DEF EndLeg, ToBootstrap
<1>4. CASE UNCHANGED <<pc, at, page>>
  BY <1>2, <1>3, <1>4 DEF PageIsLog
<1>5. CASE pc' \notin {"event"}
  BY <1>5 DEF PageIsLog
<1>8. CASE Page
  <2> DEFINE last == Least(at + PageSize, Len(log))
  <2>1. last \in at .. Len(log) /\ at \in Nat
    BY <1>0, <1>1 DEF Least, Cursors
  <2>2. page' = SubSeq(log, at + 1, last) /\ at' = at /\ pc' = "event" /\ log' = log
    BY <1>8 DEF Page, serverVars
  <2> HIDE DEF last
  <2>3. Len(page') = last - at /\ \A k \in 1 .. last - at : page'[k] = log[at + k]
    BY <1>0, <1>1, <2>1, <2>2
  <2> QED BY <1>1, <1>3, <2>1, <2>2, <2>3 DEF PageIsLog
<1>9. CASE Applied
  <2>1. /\ page' = Tail(page) /\ at' = at + 1 /\ pc' = "event" /\ Len(page) \in Nat
        /\ at + Len(page) =< Len(log) /\ \A k \in 1 .. Len(page) : page[k] = log[at + k]
    BY <1>0, <1>9 DEF Applied, EventDone, PageIsLog
  <2>2. /\ Len(Tail(page)) = Len(page) - 1
        /\ \A k \in 1 .. Len(page) - 1 : Tail(page)[k] = page[k + 1]
    BY <1>0, <1>9, HeadEvent DEF Applied
  <2>3. \A k \in 1 .. Len(page) - 1 : k + 1 \in 1 .. Len(page) /\ at + (k + 1) \in 1 .. Len(log)
    BY <1>1, <2>1
  <2>6. \A k \in 1 .. Len(page) - 1 : at + (k + 1) = (at + 1) + k
    BY <1>1, <2>1
  <2>4. \A k \in 1 .. Len(page) - 1 : page[k + 1] = log[at + (k + 1)]
        /\ at + (k + 1) = (at + 1) + k
    BY <2>1, <2>3, <2>6
  <2>5. /\ at' + Len(page') =< Len(log')
        /\ \A k \in 1 .. Len(page') : page'[k] = log'[at' + k]
    <3>1. Len(page') = Len(page) - 1 /\ at' + Len(page') =< Len(log')
      <4>1. Len(page') = Len(page) - 1
        BY <2>1, <2>2
      <4>2. (at + 1) + (Len(page) - 1) =< Len(log')
        BY <1>1, <2>1
      <4> QED BY <2>1, <4>1, <4>2
    <3>2. ASSUME NEW k \in 1 .. Len(page) - 1 PROVE page'[k] = log'[at' + k]
      <4>1. page'[k] = log[at + (k + 1)]
        BY <2>1, <2>2, <2>4
      <4>2. log'[at + (k + 1)] = log[at + (k + 1)]
        BY <1>1, <2>3
      <4> QED BY <2>1, <2>4, <4>1, <4>2
    <3> QED BY <3>1, <3>2
  <2> QED BY <1>3, <2>1, <2>5 DEF PageIsLog
<1> QED BY <1>4, <1>5, <1>8, <1>9, PassMoves
      DEF ToIdle, Start, SnapshotFiles, MaxCursor, Bootstrapped
-----------------------------------------------------------------------------
(* What is owed.                                                            *)

(* Behind a position, every path without a later event is in the index.     *)
Behind(from) == \A p \in Paths : Owed(p, from) => idx[p] = live[p]

(* A position that is further on owes more.                                 *)
LEMMA LessBehind ==
  ASSUME Cursors, FeedType, NEW to \in 0 .. Len(log), NEW from \in 0 .. to,
  Behind(to) PROVE Behind(from)
<1>1. Len(log) \in Nat
  BY DEF FeedType
<1>2. \A p \in Paths : Told(p, to) => Told(p, from)
  BY <1>1 DEF Told
<1> QED BY <1>2 DEF Behind, Owed

(* A step that does not consume an event leaves what is owed: the server's  *)
(* changes are told, a push makes both sides equal, and a conflict or an    *)
(* event passed over is remembered.                                         *)
LEMMA StillOwed ==
  ASSUME TypeOK, TypeOK', Grows, NEW p \in Paths, NEW from \in 0 .. Len(log),
         \A i \in from + 1 .. Len(log') : log'[i].path # p, p \notin Excused'
  PROVE  /\ ~Told(p, from) /\ p \notin stray /\ live'[p] = live[p]
<1>1. FeedType /\ FeedType' /\ p \notin stray'
  BY Types DEF Excused, TypeOK, FeedType
<1> QED BY <1>1, OwedBefore

LEMMA QuietStep ==
  ASSUME TypeOK, TypeOK', PageIsLog, Grows, [Next]_vars, ~Applied,
         NEW p \in Paths, NEW from \in 0 .. Len(log), p \notin stray', live'[p] = live[p],
         p \notin Excused', Download => p # now,
         ~BootstrapEnter, ~\E q \in Paths : Bootstrap(q)
  PROVE  \/ idx'[p] = live'[p]
         \/ idx'[p] = idx[p] /\ p \notin passed \cup conflicts
<1>0. IndexType /\ FeedType /\ PassType /\ Cursors
  BY Types
<1>1. CASE UNCHANGED <<local, fresh, idx, passed, conflicts>>
  BY <1>1 DEF Excused
<1>2. ASSUME NEW q \in Paths, Push(q)
      PROVE  \/ idx'[p] = live'[p]
             \/ idx'[p] = idx[p] /\ p \notin passed \cup conflicts
  BY <1>0, <1>2 DEF Push, IndexType, FeedType, Excused
<1>3. CASE ApplyDelete \/ ApplyEqual \/ KeepLocal \/ PullEnter
  BY <1>3 DEF ApplyDelete, ApplyEqual, KeepLocal, PullEnter, Entered, Applied, PageIsLog
<1>5. CASE Download
  BY <1>5 DEF Download, Excused
<1>4. ASSUME NEW q \in Paths, NEW v \in Contents, LocalEdit(q, v)
      PROVE  idx'[p] = idx[p] /\ p \notin passed \cup conflicts
  BY <1>4 DEF LocalEdit, Excused
<1> QED BY <1>1, <1>2, <1>3, <1>4, <1>5, IndexMoves

(* ... so that where it was in the index it still is.                       *)
LEMMA BehindStays ==
  ASSUME TypeOK, TypeOK', PageIsLog, Grows, [Next]_vars, ~Applied,
         ~BootstrapEnter, ~\E q \in Paths : Bootstrap(q),
         NEW from \in 0 .. Len(log), Behind(from), Download => Told(now, from),
         NEW p \in Paths, \A i \in from + 1 .. Len(log') : log'[i].path # p, p \notin Excused'
  PROVE  idx'[p] = live'[p]
<1>1. ~Told(p, from) /\ p \notin stray /\ live'[p] = live[p] /\ p \notin stray'
  BY StillOwed DEF Excused
<1>2. \/ idx'[p] = live'[p]
      \/ idx'[p] = idx[p] /\ p \notin passed \cup conflicts
  BY <1>1, QuietStep
<1> QED BY <1>1, <1>2 DEF Behind, Owed, Excused

(* Only these steps end an event.                                           *)
LEMMA PullActs ==
  ASSUME [Next]_vars, Applied, PassType, page # <<>>
  PROVE  ApplyDelete \/ ApplyEqual \/ KeepLocal \/ PullEnter
<1>1. page' # page /\ pc = "event" /\ pc' = "event"
  <2>1. page \in Seq(Events) /\ page' = Tail(page)
    BY DEF PassType, Applied, EventDone
  <2>2. Len(page') = Len(page) - 1 /\ Len(page) \in Nat
    BY <2>1
  <2> QED BY <2>2 DEF Applied
<1>2. CASE Server \/ MaxCursor \/ (\E p \in Paths : Push(p)) \/ UNCHANGED vars
  BY <1>1, <1>2 DEF Server, Upload, Trash, Restore, RestoreReplaces, RestoreRenames, Purge,
      Rename, MaxCursor, Push, vars,
      passVars, handVars
<1>3. CASE Rest
  BY <1>1, <1>3 DEF Rest, Start, SnapshotFiles, Bootstrapped, Pushed, Bootstrap, ToBootstrap,
      PushNothing,
       PushFails, Page, ToFetch, Download, Stat, BootstrapEnter, FileMissing, PageDone,
           RequestFails, Reopen, LocalEdit,
       ToIdle, passVars, handVars
<1> QED BY <1>2, <1>3, Kinds

(* An event that is applied makes its path equal, or passes it over.        *)
LEMMA AppliedStep ==
  ASSUME TypeOK, TypeOK', PageIsLog, HandHolds, LastTells, Grows, [Next]_vars, Applied, Behind(at),
         NEW p \in Paths, \A i \in at + 2 .. Len(log') : log'[i].path # p, p \notin Excused'
  PROVE  idx'[p] = live'[p]
<1>0. /\ IndexType /\ FeedType /\ PassType /\ Cursors /\ page # <<>>
      /\ pc = "event"
      /\ log \in Seq(Events) /\ at \in Nat
  BY Types DEF Applied, FeedType, Cursors
<1>1. /\ Head(page) = log[at + 1] /\ at + 1 \in 1 .. Len(log) /\ Head(page).path \in Paths
  BY <1>0, HeadEvent
<1>2. ApplyDelete \/ ApplyEqual \/ KeepLocal \/ PullEnter
  BY <1>0, PullActs
<1> DEFINE q == Head(page).path
<1>3. UNCHANGED <<log, live, stray>>
  BY <1>2 DEF ApplyDelete, ApplyEqual, KeepLocal, PullEnter, serverVars
<1>4. p \notin stray /\ p \notin passed' /\ p \notin conflicts'
  BY <1>3 DEF Excused
<1>5. CASE p # q
  <2>1. ~Told(p, at)
    <3>1. \A i \in at + 1 .. Len(log) : i = at + 1 \/ i \in at + 2 .. Len(log')
      BY <1>0, <1>3
    <3> QED BY <1>1, <1>3, <1>5, <3>1 DEF Told
  <2>2. idx'[p] = idx[p] /\ p \notin passed \cup conflicts
    BY <1>0, <1>1, <1>2, <1>4, <1>5 DEF ApplyDelete, ApplyEqual, KeepLocal, PullEnter, Entered,
        PageIsLog, IndexType
  <2> QED BY <1>3, <1>4, <2>1, <2>2 DEF Behind, Owed, Excused
<1>6. CASE p = q
  <2>1. live[p] = Head(page).hash
    <3>1. ~Told(p, at + 1)
      <4>1. (at + 1) + 1 = at + 2
        BY <1>0
      <4> QED BY <1>3, <4>1 DEF Told
    <3> QED BY <1>1, <1>4, <1>6, <3>1 DEF LastTells
  <2>2. CASE ApplyDelete
    <3>1. live[p] = 0
      BY <1>0, <1>1, <2>1, <2>2, HeadEvent, EventFacts DEF ApplyDelete
    <3> QED BY <1>0, <1>1, <1>3, <1>6, <2>2, <3>1 DEF ApplyDelete, IndexType
  <2>3. CASE ApplyEqual
    BY <1>3, <1>4, <1>6, <2>1, <2>3 DEF ApplyEqual
  <2>4. CASE KeepLocal
    BY <1>4, <1>6, <2>4 DEF KeepLocal
  <2>5. CASE PullEnter
    <3>1. now = p /\ leg = "hash" /\ pc = "event" /\ passed' = passed
      BY <1>6, <2>5 DEF PullEnter, Entered, PageIsLog
    <3>2. local[p] = live[p]
      <4>1. ~Told(p, at + 1)
        <5>1. (at + 1) + 1 = at + 2
          BY <1>0
        <5> QED BY <1>3, <5>1 DEF Told
      <4> QED BY <1>4, <3>1, <4>1 DEF HandHolds, HandFrom
    <3>3. idx'[p] = IF local[p] = 0 THEN Head(page).hash ELSE local[p]
      BY <1>0, <2>5, <3>1 DEF PullEnter, Entered, Expected, IndexType
    <3> QED BY <1>3, <2>1, <3>2, <3>3
  <2> QED BY <1>2, <2>2, <2>3, <2>4, <2>5
<1> QED BY <1>5, <1>6
LEMMA CaughtStep ==
  ASSUME SyncFeedConstants, TypeOK, TypeOK', PageIsLog, HandHolds, LastTells, SnapshotTells, Caught,
  Grows, [Next]_vars
  PROVE  Caught'
<1>0. /\ FeedType /\ Cursors /\ Cursors' /\ at \in Nat /\ Len(log) \in Nat /\ cursor \in Nat
  <2>1. FeedType /\ Cursors
    BY Types
  <2>2. Cursors'
    BY DEF TypeOK, Cursors
  <2>3. Len(log) \in Nat
    BY <2>1 DEF FeedType
  <2> QED BY <2>1, <2>2, <2>3 DEF Cursors
<1>1. CASE pc' \in {"snapshot", "max_cursor", "bootstrap"}
  <2>1. cursor' = 0
    BY <1>1, PassMoves DEF Caught, ToIdle, Start, SnapshotFiles, MaxCursor, Bootstrapped,
        Page, Applied
  <2> QED BY <1>1, <2>1 DEF Caught, Following
<1>2. ASSUME NEW from \in 0 .. Len(log), Behind(from), ~Applied, ~BootstrapEnter,
             ~\E q \in Paths : Bootstrap(q), Download => Told(now, from),
             NEW p \in Paths, \A i \in from + 1 .. Len(log') : log'[i].path # p,
             p \notin Excused'
      PROVE  idx'[p] = live'[p]
  BY <1>2, BehindStays
<1>3. CASE pc' = "idle"
  <2>1. ~Applied /\ pc' \notin Following /\ ~BootstrapEnter /\ ~Download
        /\ ~\E q \in Paths : Bootstrap(q)
    BY <1>3 DEF Applied, Bootstrap, BootstrapEnter, Download, HandHolds, Following
  <2>2. cursor' > 0 => \E from \in 0 .. Len(log) : from = cursor' /\ Behind(from)
    <3>1. CASE UNCHANGED cursor
      <4>1. CASE pc \in Following
        <5>1. Behind(at) /\ cursor \in 0 .. at /\ at \in 0 .. Len(log)
              /\ cursor \in 0 .. Len(log)
          BY <1>0, <4>1 DEF Caught, Cursors, Behind
        <5>2. Behind(cursor)
          BY <1>0, <5>1, LessBehind
        <5> QED BY <3>1, <5>1, <5>2
      <4>2. CASE pc = "idle"
        <5>1. cursor > 0 => Behind(cursor)
          BY <4>2 DEF Caught, Behind
        <5> QED BY <1>0, <3>1, <5>1 DEF Cursors
      <4>3. CASE pc \in {"snapshot", "max_cursor", "bootstrap"}
        BY <1>0, <3>1, <4>3 DEF Caught
      <4> QED BY <4>1, <4>2, <4>3 DEF TypeOK, Following
    <3>2. CASE pc = "event" /\ cursor' = at
      <4>1. Behind(at)
        BY <3>2 DEF Caught, Following, Behind
      <4> QED BY <1>0, <3>2, <4>1 DEF Cursors
    <3> QED BY <1>3, <3>1, <3>2, PassMoves
          DEF Start, SnapshotFiles, MaxCursor, Bootstrapped, Page, Applied
  <2>3. ASSUME cursor' > 0, NEW p \in Paths, Owed(p, cursor)' PROVE idx'[p] = live'[p]
    <3>1. PICK from \in 0 .. Len(log) : from = cursor' /\ Behind(from)
      BY <2>2, <2>3
    <3>2. p \notin Excused' /\ \A i \in from + 1 .. Len(log') : log'[i].path # p
      BY <2>3, <3>1 DEF Owed, Told
    <3> QED BY <1>2, <2>1, <3>1, <3>2
  <2> QED BY <1>3, <2>1, <2>3 DEF Caught
<1>4. CASE pc' \in Following
  <2>1. CASE Applied
    <3>1. at' = at + 1 /\ cursor' = cursor /\ cursor =< at /\ Behind(at)
      BY <1>0, <2>1, PassMoves
         DEF Applied, EventDone, Caught, Following, Behind, ToIdle, Start, SnapshotFiles,
             MaxCursor, Bootstrapped,
             Page, Cursors
    <3>2. at' + 1 = at + 2 /\ cursor' =< at'
      BY <1>0, <3>1
    <3>3. ASSUME NEW p \in Paths, Owed(p, at)' PROVE idx'[p] = live'[p]
      BY <2>1, <3>1, <3>2, <3>3, AppliedStep DEF Owed, Told
    <3> QED BY <1>4, <3>2, <3>3 DEF Caught, Following
  <2>2. CASE ~Applied
    <3>1. at' \in 0 .. Len(log) /\ cursor' =< at' /\ Behind(at') /\ ~BootstrapEnter
          /\ (Download => Told(now, at')) /\ ~\E q \in Paths : Bootstrap(q)
      <4>1. CASE pc \in Following /\ UNCHANGED <<at, cursor>>
        <5>1. Download => Told(now, at)
          <6> SUFFICES ASSUME Download PROVE Told(now, at)
            OBVIOUS
          <6>1. pc = "event" /\ page # <<>> /\ Head(page).path = now
            BY <4>1 DEF Download, HandHolds, PageIsLog, Following
          <6>2. Head(page) = log[at + 1] /\ at + 1 \in at + 1 .. Len(log)
            BY <1>0, <6>1, HeadEvent, Types
          <6> QED BY <6>1, <6>2 DEF Told
        <5> QED BY <1>0, <4>1, <5>1 DEF Caught, Cursors, Behind, Bootstrap, BootstrapEnter,
            Following
      <4>2. CASE Start
        <5>1. pc = "idle" /\ cursor # 0 /\ at' = cursor /\ cursor' = cursor
          BY <1>4, <4>2 DEF Start, Following
        <5>2. cursor > 0
          BY <1>0, <5>1
        <5> QED BY <1>0, <5>1, <5>2 DEF Caught, Cursors, Behind, Bootstrap, BootstrapEnter,
              Download, HandHolds
      <4>3. CASE Bootstrapped
        <5>1. pc = "bootstrap" /\ pc' = "push" /\ todo = {} /\ at' = snapCursor
              /\ cursor' = snapCursor
          BY <4>3 DEF Bootstrapped
        <5>2. at' \in 0 .. Len(log) /\ cursor' =< at'
          BY <1>0, <5>1 DEF Cursors
        <5>3. leg = "none"
          BY <5>1 DEF HandHolds
        <5> QED BY <5>1, <5>2, <5>3 DEF SnapshotTells, Behind, Bootstrap, BootstrapEnter, Entered,
              Download
      <4> QED BY <1>4, <2>2, <4>1, <4>2, <4>3, PassMoves
            DEF ToIdle, SnapshotFiles, MaxCursor, Page, Following, passVars, handVars
    <3>2. ASSUME NEW p \in Paths, Owed(p, at)' PROVE idx'[p] = live'[p]
      BY <1>2, <2>2, <3>1, <3>2 DEF Owed, Told
    <3> QED BY <1>4, <3>1, <3>2 DEF Caught, Following
  <2> QED BY <2>1, <2>2
<1> QED BY <1>1, <1>3, <1>4 DEF TypeOK, Following

(* During a bootstrap only its own steps touch what it has to do.           *)
LEMMA BootstrapQuiet ==
  ASSUME [Next]_vars, pc \in {"snapshot", "max_cursor", "bootstrap"}, pc' = pc
  PROVE  \/ BootstrapEnter \/ \E q \in Paths : Bootstrap(q)
         \/ /\ UNCHANGED <<todo, snap, snapCursor, idx, conflicts>>
            /\ passed \subseteq passed' \/ Download
<1>1. CASE Server \/ UNCHANGED vars
  BY <1>1 DEF Server, Upload, Trash, Restore, RestoreReplaces, RestoreRenames, Purge, Rename,
      vars, passVars, indexVars
<1>2. CASE MaxCursor \/ \E p \in Paths : Push(p)
  BY <1>2 DEF MaxCursor, Push
<1>3. CASE Rest
  BY <1>3 DEF Rest, Start, SnapshotFiles, Bootstrapped, Pushed, ToBootstrap, PushNothing,
      PushFails,
       Page, ApplyDelete, ApplyEqual, KeepLocal, ToFetch, Download, Stat, Entered, FileMissing,
           BootstrapEnter,
       PullEnter, PageDone,
       RequestFails, Reopen,
       LocalEdit, ToIdle, passVars, indexVars
<1> QED BY <1>1, <1>2, <1>3, Kinds

LEMMA SnapshotTellsStep ==
  ASSUME TypeOK, TypeOK', PageIsLog, HandHolds, SnapshotTells, Grows,
      [Next]_vars PROVE SnapshotTells'
<1>0. /\ FeedType /\ FeedType' /\ IndexType /\ Cursors /\ todo \subseteq Paths
  BY DEF TypeOK, FeedType, IndexType, Cursors
<1>1. pc' \in {"snapshot", "max_cursor"} => todo' = Paths
  <2>1. CASE pc \in {"snapshot", "max_cursor"} /\ pc' = pc
    BY <2>1, BootstrapQuiet DEF SnapshotTells, Bootstrap, BootstrapEnter
  <2>2. CASE ~(pc \in {"snapshot", "max_cursor"} /\ pc' = pc)
    BY <2>2, PassMoves DEF SnapshotTells, ToIdle, Start, SnapshotFiles, MaxCursor,
        Bootstrapped, Page, Applied
  <2> QED BY <2>1, <2>2
<1> SUFFICES ASSUME pc' = "bootstrap", NEW p \in Paths
             PROVE  /\ p \notin todo' /\ Owed(p, snapCursor)' => idx'[p] = live'[p]
                    /\ p \in todo' /\ ~Told(p, snapCursor)' /\ p \notin stray' =>
                           snap'[p] = live'[p] /\ idx'[p] \in {0, snap'[p]}
  BY <1>1 DEF SnapshotTells
<1>2. pc = "bootstrap" \/ MaxCursor
  BY PassMoves DEF ToIdle, Start, SnapshotFiles, Bootstrapped, Page, Applied
<1>3. CASE MaxCursor
  <2>1. todo' = Paths /\ UNCHANGED <<live, snap, idx>>
    BY <1>3 DEF MaxCursor, SnapshotTells, indexVars
  <2>2. stray' = stray \cup {q \in Paths : live[q] # snap[q] \/ idx[q] \notin {0, snap[q]}}
    BY <1>3 DEF MaxCursor
  <2> QED BY <2>1, <2>2
<1>4. ASSUME NEW q \in Paths, Bootstrap(q)
      PROVE  /\ p \notin todo' /\ Owed(p, snapCursor)' => idx'[p] = live'[p]
             /\ p \in todo' /\ ~Told(p, snapCursor)' /\ p \notin stray' =>
                    snap'[p] = live'[p] /\ idx'[p] \in {0, snap'[p]}
  <2>1. pc = "bootstrap" /\ UNCHANGED <<live, log, stray, snap, snapCursor>>
        /\ todo' = todo \ {q}
    BY <1>4 DEF Bootstrap, serverVars
  <2>2. Told(p, snapCursor)' <=> Told(p, snapCursor)
    BY <2>1 DEF Told
  <2>3. CASE p # q
    <3>1. /\ idx'[p] = idx[p] /\ (p \in passed => p \in passed')
          /\ conflicts \subseteq conflicts'
      BY <1>0, <1>4, <2>3 DEF Bootstrap, IndexType
    <3> QED BY <2>1, <2>2, <2>3, <3>1 DEF SnapshotTells, Owed, Excused
  <2>4. CASE p = q
    <3>1. CASE snap[p] = 0
      <4>1. p \in todo /\ idx' = idx
        BY <1>4, <2>4 DEF Bootstrap
      <4> QED BY <2>1, <2>2, <2>4, <3>1, <4>1 DEF SnapshotTells, Owed, Excused
    <3>2. CASE snap[p] # 0
      <4>1. p \in conflicts'
        BY <1>4, <2>4, <3>2 DEF Bootstrap
      <4> QED BY <2>1, <2>4, <4>1 DEF Owed, Excused
    <3> QED BY <3>1, <3>2
  <2> QED BY <2>3, <2>4
<1>6. CASE BootstrapEnter
  <2>1. /\ pc = "bootstrap" /\ UNCHANGED <<live, log, stray, snap, snapCursor, passed, conflicts>>
        /\ todo' = todo \ {now} /\ leg = "hash" /\ now \in todo /\ now \in Paths
    BY <1>6 DEF BootstrapEnter, Entered, serverVars, HandHolds
  <2>2. Told(p, snapCursor)' <=> Told(p, snapCursor)
    BY <2>1 DEF Told
  <2>3. CASE p # now
    <3>1. idx'[p] = idx[p]
      BY <1>0, <1>6, <2>3 DEF BootstrapEnter, Entered, IndexType
    <3> QED BY <2>1, <2>2, <2>3, <3>1 DEF SnapshotTells, Owed, Excused
  <2>4. CASE p = now
    <3>1. SUFFICES ASSUME ~Told(p, snapCursor), p \notin stray, p \notin passed
                   PROVE idx'[p] = live[p]
      BY <2>1, <2>2, <2>4 DEF Owed, Excused
    <3>2. snap[p] = live[p] /\ local[p] = live[p]
      BY <2>1, <2>4, <3>1 DEF SnapshotTells, HandHolds, HandFrom
    <3> QED BY <1>0, <1>6, <2>1, <2>4, <3>2 DEF BootstrapEnter, Entered, Expected, IndexType
  <2> QED BY <2>3, <2>4
<1>5. CASE pc = "bootstrap" /\ ~BootstrapEnter /\ ~\E q \in Paths : Bootstrap(q)
  <2>1. /\ UNCHANGED <<todo, snap, snapCursor, idx, conflicts>>
        /\ passed \subseteq passed' \/ Download
    BY <1>5, BootstrapQuiet
  <2>2. p \notin todo /\ p \notin passed' => p \notin passed
    BY <1>5, <2>1 DEF Download, HandHolds
  <2>3. SUFFICES ASSUME ~Told(p, snapCursor)', p \notin stray'
                 PROVE  /\ ~Told(p, snapCursor) /\ p \notin stray /\ live'[p] = live[p]
    BY <1>5, <2>1, <2>2, <2>3 DEF SnapshotTells, Owed, Excused
  <2>4. snapCursor \in 0 .. Len(log) /\ \A i \in snapCursor + 1 .. Len(log') : log'[i].path # p
    BY <1>0, <2>1, <2>3 DEF Cursors, Told
  <2> QED BY <1>0, <2>3, <2>4, OwedBefore
<1> QED BY <1>2, <1>3, <1>4, <1>5, <1>6

(* The file under way.                                                      *)
LEMMA HandHoldsStep ==
  ASSUME SyncFeedConstants, TypeOK, TypeOK', PageIsLog, HandHolds, SnapshotTells, Grows,
         [Next]_vars
  PROVE  HandHolds'
<1>0. /\ FeedType /\ FeedType' /\ IndexType /\ PassType /\ Cursors
      /\ log \in Seq(Events) /\ Len(log) \in Nat /\ at \in Nat
  <2>1. FeedType /\ IndexType /\ PassType /\ Cursors
    BY Types
  <2>2. FeedType'
    BY DEF TypeOK, FeedType
  <2> QED BY <2>1, <2>2 DEF FeedType, Cursors
<1>1. CASE leg = "none"
  <2>1. \/ UNCHANGED handVars \/ EndLeg \/ ToFetch
        \/ \E p \in Paths : ToBootstrap(p) \/ \E v \in Contents : LocalEdit(p, v)
    BY <1>1, HandMoves DEF Download, Stat
  <2>2. stamped = FALSE
    BY <1>0, <1>1 DEF HandHolds, PassType
  <2>3. CASE ToFetch
    <3>1. Head(page).path \in Paths
      BY <1>0, <2>3, HeadEvent DEF ToFetch
    <3>2. leg' = "download" /\ now' = Head(page).path /\ pc' = "event" /\ UNCHANGED stamped
      BY <2>3 DEF ToFetch
    <3> QED BY <2>2, <3>1, <3>2 DEF HandHolds
  <2>4. ASSUME NEW p \in Paths, ToBootstrap(p) PROVE HandHolds'
    <3>1. leg' \in {"download", "stat"} /\ now' = p /\ pc' = "bootstrap" /\ p \in todo'
          /\ UNCHANGED <<stamped, local, live, stray, passed, log, snapCursor>>
      BY <2>4 DEF ToBootstrap, serverVars, folderVars, indexVars
    <3>2. leg' = "stat" /\ ~Told(p, snapCursor) /\ p \notin stray => local[p] = live[p]
      BY <2>4 DEF ToBootstrap, SnapshotTells
    <3>3. Told(now, HandFrom)' <=> Told(p, snapCursor)
      BY <3>1 DEF Told, HandFrom
    <3> QED BY <2>2, <3>1, <3>2, <3>3 DEF HandHolds
  <2>5. CASE leg' = "none" /\ stamped' = FALSE
    BY <2>5 DEF HandHolds
  <2>6. UNCHANGED handVars \/ EndLeg => leg' = "none" /\ stamped' = FALSE
    BY <1>1, <2>2 DEF handVars, EndLeg
  <2>7. ASSUME NEW p \in Paths, NEW v \in Contents, LocalEdit(p, v)
        PROVE  leg' = "none" /\ stamped' = FALSE
    BY <1>1, <2>2, <2>7 DEF LocalEdit
  <2> QED BY <2>1, <2>3, <2>4, <2>5, <2>6, <2>7
<1>2. CASE leg # "none"
  <2>1. /\ pc \in {"bootstrap", "event"} /\ now \in Paths /\ (pc = "bootstrap" => now \in todo)
        /\ (stamped => leg = "hash" /\ local[now] # 0)
    BY <1>2 DEF HandHolds
  <2>2. HandFrom \in 0 .. Len(log)
    <3>1. pc = "event" => at + 1 \in 1 .. Len(log)
      BY <1>0, <1>2, HeadEvent DEF PageIsLog
    <3> QED BY <1>0, <2>1, <3>1 DEF HandFrom, Cursors
  <2>3. CASE UNCHANGED <<local, passed, pc, snap, snapCursor, todo, at, page, handVars>>
    <3>1. HandFrom' = HandFrom /\ UNCHANGED <<leg, now, stamped>>
      BY <2>3 DEF HandFrom, handVars
    <3>2. ASSUME ~Told(now, HandFrom)', now \notin stray'
          PROVE  ~Told(now, HandFrom) /\ now \notin stray /\ live'[now] = live[now]
      <4>1. \A i \in HandFrom + 1 .. Len(log') : log'[i].path # now
        BY <3>1, <3>2 DEF Told
      <4> QED BY <1>0, <2>1, <2>2, <3>2, <4>1, OwedBefore
    <3> QED BY <2>1, <2>3, <3>1, <3>2 DEF HandHolds
  <2>4. CASE ToIdle \/ BootstrapEnter \/ PullEnter
    BY <2>4 DEF ToIdle, BootstrapEnter, PullEnter, Entered, EndLeg, HandHolds
  <2>5. CASE Download
    <3>1. leg' = "stat" /\ local'[now] = live[now]
          /\ UNCHANGED <<now, stamped, pc, todo, live>>
      BY <1>0, <2>1, <2>5 DEF Download, serverVars, IndexType
    <3>2. ~stamped
      BY <2>1, <2>5 DEF Download
    <3> QED BY <2>1, <3>1, <3>2 DEF HandHolds
  <2>6. CASE Stat
    <3>1. /\ leg = "stat" /\ leg' = "hash" /\ local[now] # 0
          /\ UNCHANGED <<now, pc, todo, live, log, stray, local, passed, snapCursor, at>>
      BY <2>6 DEF Stat, serverVars, folderVars, indexVars
    <3>2. HandFrom' = HandFrom /\ (Told(now, HandFrom)' <=> Told(now, HandFrom))
      BY <3>1 DEF HandFrom, Told
    <3> QED BY <2>1, <3>1, <3>2 DEF HandHolds
  <2>7. ASSUME NEW p \in Paths, NEW v \in Contents, LocalEdit(p, v) PROVE HandHolds'
    <3>1. /\ UNCHANGED <<leg, now, pc, todo, live, log, stray, snapCursor, at>>
          /\ stamped' = (stamped /\ p # now)
          /\ p # now => local'[now] = local[now] /\ (now \in passed' <=> now \in passed)
          /\ p = now /\ leg \in {"stat", "hash"} => now \in passed'
      BY <1>0, <2>1, <2>7 DEF LocalEdit, serverVars, IndexType
    <3>2. HandFrom' = HandFrom /\ (Told(now, HandFrom)' <=> Told(now, HandFrom))
      BY <3>1 DEF HandFrom, Told
    <3> QED BY <2>1, <3>1, <3>2 DEF HandHolds
  <2> QED BY <1>2, <2>3, <2>4, <2>5, <2>6, <2>7, BusyMoves
<1> QED BY <1>1, <1>2
-----------------------------------------------------------------------------
LEMMA FeedInit == SyncFeedConstants /\ Init => FeedInv
<1> SUFFICES ASSUME SyncFeedConstants, Init PROVE FeedInv
  OBVIOUS
<1>1. Empty \in [Paths -> Contents] /\ (\A p \in Paths : Empty[p] = 0) /\ 0 \in Contents
      /\ Versions \subseteq Contents
  BY DEF Empty, Contents
<1>4. /\ live \in [Paths -> Contents] /\ trash \in [Paths -> Contents] /\ log \in Seq(Events)
      /\ LastTells
  <2>1. CASE live = Empty /\ trash = Empty /\ log = <<>>
    BY <1>1, <2>1 DEF LastTells
  <2>2. ASSUME NEW p \in Paths, NEW v \in Versions, NEW w \in Versions,
               live = [Empty EXCEPT ![p] = w], trash = [Empty EXCEPT ![p] = v],
               log = <<Upsert(p, v), Deleted(p), Upsert(p, w)>>
        PROVE  /\ live \in [Paths -> Contents] /\ trash \in [Paths -> Contents]
               /\ log \in Seq(Events) /\ LastTells
    <3> DEFINE a == Upsert(p, v)
               b == Deleted(p)
               c == Upsert(p, w)
    <3>1. /\ a \in Events /\ b \in Events /\ c \in Events
          /\ a.path = p /\ b.path = p /\ c.path = p /\ c.hash = w
      BY <1>1, EventTypes
    <3>2. log = <<a, b, c>>
      BY <2>2
    <3> HIDE DEF a, b, c
    <3>3. /\ log \in Seq(Events) /\ Len(log) = 3 /\ log[3] = c
          /\ \A i \in 1 .. 3 : log[i].path = p
      BY <3>1, <3>2
    <3>4. live[p] = w /\ live \in [Paths -> Contents] /\ trash \in [Paths -> Contents]
      BY <1>1, <2>2
    <3>5. ASSUME NEW i \in 1 .. Len(log), ~Told(log[i].path,
        i) PROVE live[log[i].path] = log[i].hash
      <4>1. i = 3
        <5>1. i # 3 => 3 \in i + 1 .. Len(log)
          BY <3>3
        <5> QED BY <3>3, <3>5, <5>1 DEF Told
      <4> QED BY <3>1, <3>3, <3>4, <4>1
    <3> QED BY <3>3, <3>4, <3>5 DEF LastTells
  <2> QED BY <2>1, <2>2 DEF Init
<1>2. Len(log) \in Nat /\ 0 \in 0 .. Len(log) /\ page \in Seq(Events)
  BY <1>4 DEF Init
<1>3. TypeOK
  <2>1. FeedType
    BY <1>1, <1>2, <1>4 DEF Init, FeedType, SyncFeedConstants
  <2>2. IndexType
    BY <1>1 DEF Init, IndexType, SyncFeedConstants
  <2>3. Cursors
    BY <1>2 DEF Init, Cursors
  <2>4. PassType
    <3>1. page \in Seq(Events) /\ todo \subseteq Paths /\ snap \in [Paths -> Contents]
          /\ pc = "idle"
      BY <1>1, <1>2 DEF Init
    <3>2. faults \in 0 .. MaxFaults
      BY DEF Init, SyncFeedConstants
    <3>3. more \in BOOLEAN /\ stamped \in BOOLEAN
      BY Zenon DEF Init
    <3>4. leg = "none" /\ now = NoPath
      BY DEF Init
    <3> QED BY <3>1, <3>2, <3>3, <3>4 DEF PassType
  <2> QED BY <2>1, <2>2, <2>3, <2>4, Types
<1> QED BY <1>1, <1>2, <1>3, <1>4
      DEF FeedInv, Init, FreshIsFile, PageIsLog, HandHolds, SnapshotTells, Caught, Following

LEMMA FeedInvStep == SyncFeedConstants /\ FeedInv /\ [Next]_vars => FeedInv'
<1> SUFFICES ASSUME SyncFeedConstants, FeedInv, [Next]_vars PROVE FeedInv'
  OBVIOUS
<1>1. TypeOK /\ FreshIsFile /\ LastTells /\ PageIsLog /\ HandHolds /\ SnapshotTells /\ Caught
  BY DEF FeedInv
<1>2. Grows /\ FeedType' /\ FeedType
  BY <1>1, FeedStep, Types
<1>3. TypeOK'
  <2>1. IndexType' /\ PassType' /\ Cursors'
    BY <1>1, IndexTypeStep, PassTypeStep
  <2> QED BY <1>2, <2>1, Types DEF TypeOK, FeedType, IndexType, PassType, Cursors, Following
<1>4. FreshIsFile' /\ PageIsLog'
  BY <1>1, FreshIsFileStep, PageIsLogStep
<1>5. LastTells'
  BY <1>1, <1>2, LastTellsStep
<1>6. SnapshotTells'
  BY <1>1, <1>2, <1>3, SnapshotTellsStep
<1>7. Caught'
  BY <1>1, <1>2, <1>3, CaughtStep
<1>8. HandHolds'
  BY <1>1, <1>2, <1>3, HandHoldsStep
<1> QED BY <1>3, <1>4, <1>5, <1>6, <1>7, <1>8 DEF FeedInv

(* Between passes a path that the feed has nothing new about is the same on *)
(* both sides, unless it was touched in the folder, its last event did not  *)
(* tell its state, its event was passed over for the folder's sake, or it   *)
(* was edited between its download and the reading of its content: no       *)
(* event is lost to a pull that failed half way, to the border of a page or *)
(* to a change during the bootstrap (pull_remote, sync_binding_scoped).     *)
THEOREM FeedAlwaysFollowed == Spec => []FeedIsFollowed
<1>1. Init => FeedInv
  BY FeedInit, SyncFeedAssumption
<1>2. FeedInv /\ [Next]_vars => FeedInv'
  BY FeedInvStep, SyncFeedAssumption
<1>3. FeedInv => FeedIsFollowed
  <2> SUFFICES ASSUME FeedInv PROVE CaughtUp
    BY DEF FeedInv, FeedIsFollowed
  <2> SUFFICES ASSUME pc = "idle", cursor > 0, NEW p \in Paths, ~Told(p, cursor),
                      p \notin stray \cup passed,
                      Untouched(p)
               PROVE  local[p] = live[p]
    BY DEF CaughtUp
  <2>1. idx[p] = live[p]
    BY DEF FeedInv, Caught, Owed, Excused, Untouched
  <2>2. local[p] = 0 => idx[p] = 0
    BY DEF Untouched
  <2>3. local[p] # 0 => fresh[p]
    BY DEF Untouched, Pending
  <2> QED BY <2>1, <2>2, <2>3 DEF FeedInv, FreshIsFile
<1> QED BY <1>1, <1>2, <1>3, PTL DEF Spec
=============================================================================
