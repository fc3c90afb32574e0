----------------------------- MODULE MessageGC -----------------------------
(***************************************************************************)
(* Who may delete a Telegram message (sarca/src/services/trash.rs,          *)
(* trash_purge.rs, replication.rs and the copy of services/files.rs).       *)
(* A stored file is rows that name messages; a copy of it names the same    *)
(* messages, the replicator adds messages of its own, and a purge deletes   *)
(* the rows first and then, in a task nobody waits for, every message that  *)
(* no row names any more.                                                   *)
(*                                                                          *)
(* One step is one SQL statement, transaction or Telegram call: between two *)
(* of them every other task may run.  The chunks of a file move together in *)
(* every statement, so one chunk stands for all; message ids count up in    *)
(* each chat on its own, as Telegram's do.                                  *)
(***************************************************************************)
EXTENDS Integers, FiniteSets

CONSTANTS
    Requests,    \* user requests and purge ticks that may be in progress
    Copiers,     \* the requests that copy files
    Purgers,     \* the requests that delete forever (or are the purge tick)
    Restorers,   \* the requests that restore from the trash
    Rows,        \* ids of rows of table files
    Paths,       \* paths of the storage
    Channels,    \* the storage's channels, each a chat
    Primary,     \* the channel uploads go to
    Pictures,    \* rows whose upload stores a thumbnail as well
    NoRow, NoPath,
    MaxActive,   \* bound: requests in progress at the same time
    MaxMessages, \* bound: messages sent to one chat
    MaxFaults,   \* bound: deleteMessage calls that fail
    MaxAborts,   \* bound: requests cut off by their client
    MaxCrashes   \* bound: restarts of the server

ASSUME GCAssumption ==
    /\ Copiers \cup Purgers \cup Restorers \subseteq Requests
    /\ Primary \in Channels
    /\ NoRow \notin Rows
    /\ NoPath \notin Paths
    /\ {MaxActive, MaxMessages, MaxFaults, MaxAborts, MaxCrashes} \subseteq Nat

VARIABLES
    rowSt,     \* table files: none (no such row), live or trash
    path,      \* its path
    hasChunks, \* its rows of file_chunks are there
    replica,   \* its row of chunk_replicas on each channel
    thumb,     \* thumb_telegram_message_id, 0 when there is none
    kept,      \* history: an upload's row, or a copy whose source outlived it
    telegram,  \* [channel -> ids of the messages in the chat]
    nextId,    \* [channel -> the next message id of the chat]
    \* the requests, and what each carries from one statement to the next
    at,                    \* the statement it runs next
    from, to,              \* the paths it works on
    src, dst, pic, got,    \* a copy: source, clone, thumbnail, replicas read
    doomed, listed, after, \* a purge: rows, their messages, what follows it
    gcTodo,    \* what is left to the GC task each request spawned
    gcNow,     \* the message that task found unreferenced and is deleting
    job,       \* the replicator's current job
    faults, aborts, crashes

fileVars == <<rowSt, path, hasChunks, replica, thumb, kept>>
chatVars == <<telegram, nextId>>
gcVars == <<gcTodo, gcNow>>
boundVars == <<faults, aborts, crashes>>
pathVars == <<from, to>>
copyVars == <<src, dst, pic, got>>
purgeVars == <<doomed, listed, after>>
reqVars == <<at, pathVars, copyVars, purgeVars>>
vars == <<fileVars, chatVars, reqVars, gcVars, job, boundVars>>

-----------------------------------------------------------------------------
(* A row of chunk_replicas: absent, pending or failed (the replicator takes *)
(* both), or uploaded as the message of that id.                            *)
NoReplica == 0
Queued == -1
NoReplicas == [c \in Channels |-> NoReplica]
Stored(reps, c) == reps[c] > 0

Messages == Channels \X Nat
NoMessage == <<Primary, 0>>

NoJob == [row |-> NoRow, on |-> Primary, source |-> NoMessage, sent |-> 0]

Exists(f) == rowSt[f] # "none"
LiveAt(p) == {f \in Rows : rowSt[f] = "live" /\ path[f] = p}
TrashedAt(p) == {f \in Rows : rowSt[f] = "trash" /\ path[f] = p}

(* next_available_live_path: a name no live row has. *)
AnyName == {NoPath} \cup {p \in Paths : LiveAt(p) = {}}  \* mutant: gives up without a name
FreePaths == {p \in Paths : LiveAt(p) = {}}

(* A new row id: no row has it and no task remembers it. *)
Fresh(f) ==
    /\ ~ Exists(f)
    /\ job.row # f
    /\ \A k \in Requests : f \notin {src[k], dst[k]} \cup doomed[k]

Room == Cardinality({k \in Requests : at[k] # "idle"}) < MaxActive
At(k, place) == at[k] = place
GoTo(k, place) == at' = [at EXCEPT ![k] = place]
Go(k, place) == GoTo(k, place) /\ UNCHANGED <<pathVars, copyVars, purgeVars>>
Finish(k) ==
    /\ at' = [at EXCEPT ![k] = "idle"]
    /\ from' = [from EXCEPT ![k] = NoPath]
    /\ to' = [to EXCEPT ![k] = NoPath]
    /\ src' = [src EXCEPT ![k] = NoRow]
    /\ dst' = [dst EXCEPT ![k] = NoRow]
    /\ pic' = [pic EXCEPT ![k] = 0]
    /\ got' = [got EXCEPT ![k] = NoReplicas]
    /\ doomed' = [doomed EXCEPT ![k] = {}]
    /\ listed' = [listed EXCEPT ![k] = {}]
    /\ after' = [after EXCEPT ![k] = "idle"]

(* message_still_referenced or derived_message_still_referenced: rows in    *)
(* the trash count, and a thumbnail id counts for every chat of the storage.*)
ReferencedByLive(m) ==  \* mutant: the trash is forgotten
    \E f \in Rows : rowSt[f] = "live" /\ (replica[f][m[1]] = m[2] \/ thumb[f] = m[2])
Referenced(m) ==
    \E f \in Rows : Exists(f) /\ (replica[f][m[1]] = m[2] \/ thumb[f] = m[2])

(* list_telegram_messages_for_files and list_derived_messages_for_files,    *)
(* deduplicated by chat and message: a thumbnail is listed for every chat.  *)
MessagesOf(ids) ==
    {m \in Channels \X (1 .. MaxMessages) : \E f \in ids :
        Exists(f) /\ (replica[f][m[1]] = m[2] \/ thumb[f] = m[2])}

Init ==
    /\ rowSt = [f \in Rows |-> "none"]
    /\ path = [f \in Rows |-> NoPath]
    /\ hasChunks = [f \in Rows |-> FALSE]
    /\ replica = [f \in Rows |-> NoReplicas]
    /\ thumb = [f \in Rows |-> 0]
    /\ kept = [f \in Rows |-> FALSE]
    /\ telegram = [c \in Channels |-> {}]
    /\ nextId = [c \in Channels |-> 1]
    /\ at = [k \in Requests |-> "idle"]
    /\ from = [k \in Requests |-> NoPath] /\ to = from
    /\ src = [k \in Requests |-> NoRow] /\ dst = src
    /\ pic = [k \in Requests |-> 0]
    /\ got = [k \in Requests |-> NoReplicas]
    /\ doomed = [k \in Requests |-> {}] /\ listed = doomed
    /\ after = at
    /\ gcTodo = [k \in Requests |-> {}]
    /\ gcNow = [k \in Requests |-> NoMessage]
    /\ job = NoJob
    /\ faults = 0 /\ aborts = 0 /\ crashes = 0

-----------------------------------------------------------------------------
(* A finished upload (module UploadRelay) as one step: the chunks and, for  *)
(* a picture, its thumbnail are messages of the primary channel, and the    *)
(* fan-out queues a replica on every other channel.                         *)
Upload(f, p) ==
    LET n == nextId[Primary]
        last == IF f \in Pictures THEN n + 1 ELSE n
    IN  /\ Fresh(f)
        /\ LiveAt(p) = {}
        /\ last <= MaxMessages
        /\ rowSt' = [rowSt EXCEPT ![f] = "live"]
        /\ path' = [path EXCEPT ![f] = p]
        /\ hasChunks' = [hasChunks EXCEPT ![f] = TRUE]
        /\ replica' = [replica EXCEPT ![f] =
                          [c \in Channels |-> IF c = Primary THEN n ELSE Queued]]
        /\ thumb' = [thumb EXCEPT ![f] = IF f \in Pictures THEN last ELSE 0]
        /\ kept' = [kept EXCEPT ![f] = TRUE]
        /\ telegram' = [telegram EXCEPT ![Primary] = @ \cup (n .. last)]
        /\ nextId' = [nextId EXCEPT ![Primary] = last + 1]
        /\ UNCHANGED <<reqVars, gcVars, job, boundVars>>

(* Soft delete of a path, in one transaction. *)
Delete(p) ==
    /\ LiveAt(p) # {}
    /\ rowSt' = [f \in Rows |-> IF f \in LiveAt(p) THEN "trash" ELSE rowSt[f]]
    /\ UNCHANGED <<path, hasChunks, replica, thumb, kept, chatVars, reqVars, gcVars,
                   job, boundVars>>

-----------------------------------------------------------------------------
(* purge_file_ids, from the ids its caller read: list the messages, delete  *)
(* the rows (chunks and replicas go with them), spawn the GC task.  Each    *)
(* request has room for one GC task: two at once are those of two requests. *)
NoGC(k) == gcTodo[k] = {} /\ gcNow[k] = NoMessage

(* delete_forever, empty and the retention tick: the ids of trashed rows.   *)
PurgeStart(k) ==
    /\ k \in Purgers /\ At(k, "idle")
    /\ NoGC(k) /\ Room
    /\ \E ids \in SUBSET {f \in Rows : rowSt[f] = "trash"} \ {{}} :
          doomed' = [doomed EXCEPT ![k] = ids]
    /\ GoTo(k, "list")
    /\ UNCHANGED <<pathVars, copyVars, listed, after, fileVars, chatVars, gcVars,
                   job, boundVars>>

PurgeList(k) ==
    /\ At(k, "list")
    /\ listed' = [listed EXCEPT ![k] = MessagesOf(doomed[k])]
    /\ GoTo(k, "erase")
    /\ UNCHANGED <<pathVars, copyVars, doomed, after, fileVars, chatVars, gcVars,
                   job, boundVars>>

PurgeErase(k) ==
    LET gone == doomed[k]
    IN  /\ At(k, "erase")
        /\ rowSt' = [f \in Rows |-> IF f \in gone THEN "none" ELSE rowSt[f]]
        /\ path' = [f \in Rows |-> IF f \in gone THEN NoPath ELSE path[f]]
        /\ hasChunks' = [f \in Rows |-> f \notin gone /\ hasChunks[f]]
        /\ replica' = [f \in Rows |-> IF f \in gone THEN NoReplicas ELSE replica[f]]
        /\ thumb' = [f \in Rows |-> IF f \in gone THEN 0 ELSE thumb[f]]
        /\ kept' = [f \in Rows |-> f \notin gone /\ kept[f]]
        /\ gcTodo' = [gcTodo EXCEPT ![k] = listed[k]]
        /\ GoTo(k, after[k])
        /\ doomed' = [doomed EXCEPT ![k] = {}]
        /\ listed' = [listed EXCEPT ![k] = {}]
        /\ after' = [after EXCEPT ![k] = "idle"]
        /\ UNCHANGED <<pathVars, copyVars, chatVars, gcNow, job, boundVars>>

(* gc_telegram_messages: the two reads ask of all rows at once; skip the    *)
(* message, or go on to delete it.                                          *)
GcSkipAll(k, m) ==  \* mutant: the first message still in use ends the task
    /\ m \in gcTodo[k] /\ gcNow[k] = NoMessage
    /\ Referenced(m)
    /\ gcTodo' = [gcTodo EXCEPT ![k] = {}]
    /\ UNCHANGED <<fileVars, chatVars, reqVars, gcNow, job, boundVars>>
GcSkip(k, m) ==
    /\ m \in gcTodo[k] /\ gcNow[k] = NoMessage
    /\ Referenced(m)
    /\ gcTodo' = [gcTodo EXCEPT ![k] = @ \ {m}]
    /\ UNCHANGED <<fileVars, chatVars, reqVars, gcNow, job, boundVars>>

GcClaim(k, m) ==
    /\ m \in gcTodo[k] /\ gcNow[k] = NoMessage
    /\ ~ Referenced(m)
    /\ gcNow' = [gcNow EXCEPT ![k] = m]
    /\ gcTodo' = [gcTodo EXCEPT ![k] = @ \ {m}]
    /\ UNCHANGED <<fileVars, chatVars, reqVars, job, boundVars>>

GcDelete(k) ==
    LET c == gcNow[k][1]
    IN  /\ gcNow[k] # NoMessage
        /\ telegram' = [telegram EXCEPT ![c] = @ \ {gcNow[k][2]}]
        /\ gcNow' = [gcNow EXCEPT ![k] = NoMessage]
        /\ UNCHANGED <<fileVars, nextId, reqVars, gcTodo, job, boundVars>>

(* deleteMessage failed: logged, never tried again. *)
GcFailed(k) ==
    /\ gcNow[k] # NoMessage
    /\ faults < MaxFaults
    /\ faults' = faults + 1
    /\ gcNow' = [gcNow EXCEPT ![k] = NoMessage]
    /\ UNCHANGED <<fileVars, chatVars, reqVars, gcTodo, job, aborts, crashes>>

-----------------------------------------------------------------------------
(* What on_conflict=replace and on_conflict=rename do, for copies and       *)
(* restores alike: purge_file_ids of what is live there, or a free name.    *)
PurgeThen(k, ids, place) ==
    /\ GoTo(k, "list")
    /\ doomed' = [doomed EXCEPT ![k] = ids]
    /\ after' = [after EXCEPT ![k] = place]
    /\ UNCHANGED <<pathVars, copyVars, listed>>
RenameThen(k, place) ==
    /\ GoTo(k, place)
    /\ \E free \in FreePaths : to' = [to EXCEPT ![k] = free]
    /\ UNCHANGED <<from, copyVars, purgeVars>>

(* copy_to: resolve a conflict at the destination, read the source row,     *)
(* insert the clone, then its chunks, then its replicas.                    *)
CopyStart(k, p, q) ==
    /\ k \in Copiers /\ At(k, "idle") /\ NoGC(k) /\ Room
    /\ LiveAt(p) # {}          \* canonicalize_live_path
    /\ GoTo(k, "resolve")
    /\ from' = [from EXCEPT ![k] = p]
    /\ to' = [to EXCEPT ![k] = q]
    /\ UNCHANGED <<copyVars, purgeVars, fileVars, chatVars, gcVars, job, boundVars>>

(* resolve_dest_conflict: a destination nobody has, one whose live rows are *)
(* purged on request, or a free name instead (also what a file copied onto  *)
(* itself gets, whatever was asked).                                        *)
CopyAsIs(k) ==
    /\ At(k, "resolve")
    /\ LiveAt(to[k]) = {}
    /\ Go(k, "readSource")
    /\ UNCHANGED <<fileVars, chatVars, gcVars, job, boundVars>>

CopyReplacing(k) ==
    /\ At(k, "resolve")
    /\ LiveAt(to[k]) # {} /\ to[k] # from[k]
    /\ PurgeThen(k, LiveAt(to[k]), "readSource")
    /\ UNCHANGED <<fileVars, chatVars, gcVars, job, boundVars>>

CopyRenamed(k) ==
    /\ At(k, "resolve")
    /\ LiveAt(to[k]) # {}
    /\ RenameThen(k, "readSource")
    /\ UNCHANGED <<fileVars, chatVars, gcVars, job, boundVars>>

CopyReadSource(k, f) ==
    /\ At(k, "readSource")
    /\ f \in LiveAt(from[k])
    /\ src' = [src EXCEPT ![k] = f]
    /\ pic' = [pic EXCEPT ![k] = thumb[f]]
    /\ GoTo(k, "insert")
    /\ UNCHANGED <<pathVars, dst, got, purgeVars, fileVars, chatVars, gcVars, job,
                   boundVars>>

(* insert_cloned_file: flags and thumbnail come from the row as it was read; *)
(* a live row at the destination refuses it.                                *)
CopyInsert(k, f) ==
    /\ At(k, "insert")
    /\ Fresh(f)
    /\ LiveAt(to[k]) = {}
    /\ rowSt' = [rowSt EXCEPT ![f] = "live"]
    /\ path' = [path EXCEPT ![f] = to[k]]
    /\ thumb' = [thumb EXCEPT ![f] = pic[k]]
    /\ GoTo(k, "readChunks")
    /\ dst' = [dst EXCEPT ![k] = f]
    /\ UNCHANGED <<pathVars, src, pic, got, purgeVars, hasChunks, replica, kept,
                   chatVars, gcVars, job, boundVars>>

(* list_chunks_of_file, then create_chunks_batch. *)
CopyReadChunks(k) ==
    /\ At(k, "readChunks")
    /\ hasChunks[src[k]]
    /\ Go(k, "writeChunks")
    /\ UNCHANGED <<fileVars, chatVars, gcVars, job, boundVars>>

CopyWriteChunks(k) ==
    /\ At(k, "writeChunks")
    /\ Exists(dst[k])
    /\ hasChunks' = [hasChunks EXCEPT ![dst[k]] = TRUE]
    /\ Go(k, "readReplicas")
    /\ UNCHANGED <<rowSt, path, replica, thumb, kept, chatVars, gcVars, job,
                   boundVars>>

(* list_for_file, then insert_batch. *)
CopyReadReplicas(k) ==
    /\ At(k, "readReplicas")
    /\ replica[src[k]] # NoReplicas
    /\ got' = [got EXCEPT ![k] = replica[src[k]]]
    /\ GoTo(k, "writeReplicas")
    /\ UNCHANGED <<pathVars, src, dst, pic, purgeVars, fileVars, chatVars, gcVars,
                   job, boundVars>>

CopyWriteReplicas(k) ==
    /\ At(k, "writeReplicas")
    /\ Exists(dst[k])
    /\ replica' = [replica EXCEPT ![dst[k]] = got[k]]
    /\ kept' = [kept EXCEPT ![dst[k]] = kept[src[k]]]
    /\ Finish(k)
    /\ UNCHANGED <<rowSt, path, hasChunks, thumb, chatVars, gcVars, job, boundVars>>

(* Where a copy ends early: 409, no source (404), a destination taken in    *)
(* the meantime, a source whose chunks or replicas are gone (that one with  *)
(* Ok), and a clone that is gone, which the foreign keys notice.            *)
CopyStops(k) ==
    /\ \/ at[k] \in {"resolve", "insert"} /\ LiveAt(to[k]) # {}
       \/ At(k, "readSource") /\ LiveAt(from[k]) = {}
       \/ At(k, "readChunks") /\ ~ hasChunks[src[k]]
       \/ At(k, "readReplicas") /\ replica[src[k]] = NoReplicas
       \/ at[k] \in {"writeChunks", "writeReplicas"} /\ ~ Exists(dst[k])
    /\ Finish(k)
    /\ UNCHANGED <<fileVars, chatVars, gcVars, job, boundVars>>

-----------------------------------------------------------------------------
(* restore: what is trashed at a path comes back, here or at a free path,   *)
(* after what is live there was purged on request.                          *)
RestoreStart(k, p) ==
    /\ k \in Restorers /\ At(k, "idle") /\ NoGC(k) /\ Room
    /\ TrashedAt(p) # {}
    /\ GoTo(k, "restoreResolve")
    /\ from' = [from EXCEPT ![k] = p]
    /\ to' = [to EXCEPT ![k] = p]
    /\ UNCHANGED <<copyVars, purgeVars, fileVars, chatVars, gcVars, job, boundVars>>

RestoreAsIs(k) ==
    /\ At(k, "restoreResolve")
    /\ LiveAt(to[k]) = {}
    /\ Go(k, "restore")
    /\ UNCHANGED <<fileVars, chatVars, gcVars, job, boundVars>>

RestoreReplacing(k) ==
    /\ At(k, "restoreResolve")
    /\ LiveAt(to[k]) # {}
    /\ PurgeThen(k, LiveAt(to[k]), "restore")
    /\ UNCHANGED <<fileVars, chatVars, gcVars, job, boundVars>>

RestoreRenamed(k) ==
    /\ At(k, "restoreResolve")
    /\ LiveAt(to[k]) # {}
    /\ RenameThen(k, "moveTrashed")
    /\ UNCHANGED <<fileVars, chatVars, gcVars, job, boundVars>>

(* update_trashed_path *)
MoveTrashed(k) ==
    /\ At(k, "moveTrashed")
    /\ path' = [f \in Rows |-> IF f \in TrashedAt(from[k]) THEN to[k]
                               ELSE path[f]]
    /\ Go(k, "restore")
    /\ UNCHANGED <<rowSt, hasChunks, replica, thumb, kept, chatVars, gcVars, job,
                   boundVars>>

(* FilesRepository::restore: one row comes back, unless the path is taken:  *)
(* the first row restored is the live twin that keeps the others out.       *)
Restore(k, f) ==
    /\ At(k, "restore")
    /\ f \in TrashedAt(to[k])
    /\ LiveAt(to[k]) = {}
    /\ rowSt' = [rowSt EXCEPT ![f] = "live"]
    /\ Finish(k)
    /\ UNCHANGED <<path, hasChunks, replica, thumb, kept, chatVars, gcVars, job,
                   boundVars>>

(* 409, or nothing left to restore, or the path is taken. *)
RestoreStops(k) ==
    /\ \/ at[k] \in {"restoreResolve", "restore"} /\ LiveAt(to[k]) # {}
       \/ At(k, "restore") /\ TrashedAt(to[k]) = {}
    /\ Finish(k)
    /\ UNCHANGED <<fileVars, chatVars, gcVars, job, boundVars>>

-----------------------------------------------------------------------------
(* ReplicationService::run_once, one job at a time: find a source, copy the *)
(* message, record it on the replica if that row is still there.            *)
ReplicaSource(f, c, m) ==
    /\ Exists(f) /\ replica[f][c] = Queued
    /\ m[1] # c /\ m[2] > 0 /\ replica[f][m[1]] = m[2]

TakeJob(f, c, m) ==
    /\ job = NoJob
    /\ ReplicaSource(f, c, m)
    /\ job' = [row |-> f, on |-> c, source |-> m, sent |-> 0]
    /\ UNCHANGED <<fileVars, chatVars, reqVars, gcVars, boundVars>>

SourceIsThere == job.source[2] \in telegram[job.source[1]]

CopyMessage ==
    LET c == job.on
    IN  /\ job # NoJob /\ job.sent = 0
        /\ SourceIsThere
        /\ nextId[c] <= MaxMessages
        /\ telegram' = [telegram EXCEPT ![c] = @ \cup {nextId[c]}]
        /\ nextId' = [nextId EXCEPT ![c] = @ + 1]
        /\ job' = [job EXCEPT !.sent = nextId[c]]
        /\ UNCHANGED <<fileVars, reqVars, gcVars, boundVars>>

(* mark_uploaded. *)
MarkReplicaAsSource ==  \* mutant: records the message it copied from
    /\ job.sent > 0
    /\ Exists(job.row)
    /\ replica' = [replica EXCEPT ![job.row][job.on] = job.source[2]]
    /\ job' = NoJob
    /\ UNCHANGED <<rowSt, path, hasChunks, thumb, kept, chatVars, reqVars, gcVars,
                   boundVars>>
MarkReplica ==
    /\ job.sent > 0
    /\ Exists(job.row)
    /\ replica' = [replica EXCEPT ![job.row][job.on] = job.sent]
    /\ job' = NoJob
    /\ UNCHANGED <<rowSt, path, hasChunks, thumb, kept, chatVars, reqVars, gcVars,
                   boundVars>>

(* The message to copy is gone (the replica is marked failed, which is as   *)
(* good as pending), or the replica went with its file: nothing is marked.  *)
JobLost ==
    /\ job # NoJob
    /\ \/ job.sent = 0 /\ ~ SourceIsThere
       \/ job.sent > 0 /\ ~ Exists(job.row)
    /\ job' = NoJob
    /\ UNCHANGED <<fileVars, chatVars, reqVars, gcVars, boundVars>>

-----------------------------------------------------------------------------
(* The client hangs up: the handler stops at the statement it awaits, the   *)
(* GC tasks it spawned go on.                                               *)
Abort(k) ==
    /\ ~ At(k, "idle")
    /\ aborts < MaxAborts
    /\ aborts' = aborts + 1
    /\ Finish(k)
    /\ UNCHANGED <<fileVars, chatVars, gcVars, job, faults, crashes>>

(* A restart: every task is gone, the database and the chats stay. *)
Restart ==
    /\ crashes < MaxCrashes
    /\ crashes' = crashes + 1
    /\ at' = [k \in Requests |-> "idle"]
    /\ from' = [k \in Requests |-> NoPath]
    /\ to' = [k \in Requests |-> NoPath]
    /\ src' = [k \in Requests |-> NoRow]
    /\ dst' = [k \in Requests |-> NoRow]
    /\ pic' = [k \in Requests |-> 0]
    /\ got' = [k \in Requests |-> NoReplicas]
    /\ doomed' = [k \in Requests |-> {}]
    /\ listed' = [k \in Requests |-> {}]
    /\ after' = [k \in Requests |-> "idle"]
    /\ gcTodo' = [k \in Requests |-> {}]
    /\ gcNow' = [k \in Requests |-> NoMessage]
    /\ job' = NoJob
    /\ UNCHANGED <<fileVars, chatVars, faults, aborts>>

-----------------------------------------------------------------------------
GcStep(k) ==
    \/ \E m \in gcTodo[k] : GcSkip(k, m) \/ GcClaim(k, m)
    \/ GcDelete(k) \/ GcFailed(k)

PurgeStep(k) == PurgeStart(k) \/ PurgeList(k) \/ PurgeErase(k)

CopyStep(k) ==
    \/ \E p, q \in Paths : CopyStart(k, p, q)
    \/ CopyAsIs(k) \/ CopyReplacing(k) \/ CopyRenamed(k)
    \/ \E f \in Rows : CopyReadSource(k, f) \/ CopyInsert(k, f)
    \/ CopyReadChunks(k) \/ CopyWriteChunks(k)
    \/ CopyReadReplicas(k) \/ CopyWriteReplicas(k)
    \/ CopyStops(k)

RestoreStep(k) ==
    \/ \E p \in Paths : RestoreStart(k, p)
    \/ RestoreAsIs(k) \/ RestoreReplacing(k) \/ RestoreRenamed(k)
    \/ MoveTrashed(k)
    \/ \E f \in Rows : Restore(k, f)
    \/ RestoreStops(k)

Replicate ==
    \/ \E f \in Rows, c \in Channels, m \in Channels \X (1 .. MaxMessages) :
          TakeJob(f, c, m)
    \/ CopyMessage \/ MarkReplica \/ JobLost

Next ==
    \/ \E f \in Rows, p \in Paths : Upload(f, p)
    \/ \E p \in Paths : Delete(p)
    \/ \E k \in Requests : PurgeStep(k) \/ GcStep(k) \/ CopyStep(k) \/ RestoreStep(k)
    \/ Replicate
    \/ \E k \in Requests : Abort(k)
    \/ Restart

Spec == Init /\ [][Next]_vars

(* The runtime polls every spawned GC task and every request in progress. *)
Fairness ==
    \A k \in Requests :
        /\ WF_vars(GcStep(k))
        /\ WF_vars(PurgeList(k) \/ PurgeErase(k))
FairSpec == Spec /\ Fairness

-----------------------------------------------------------------------------
Places == {"idle", "list", "erase", "resolve", "readSource", "insert",
           "readChunks", "writeChunks", "readReplicas", "writeReplicas",
           "restoreResolve", "moveTrashed", "restore"}
ReplicaRows == [Channels -> Int]
JobState ==
    [row : Rows \cup {NoRow}, on : Channels, source : Messages, sent : Nat]

(* A request holds the paths and rows its next statement uses, a job its row. *)
HoldsItsData ==
    /\ \A k \in Requests :
          /\ \/ after[k] # "idle"
             \/ at[k] \in {"resolve", "readSource", "insert", "restoreResolve",
                            "moveTrashed", "restore"}
             => from[k] \in Paths /\ to[k] \in Paths
          /\ at[k] \in {"insert", "readChunks", "writeChunks", "readReplicas",
                        "writeReplicas"} => src[k] \in Rows
          /\ at[k] \in {"readChunks", "writeChunks", "readReplicas",
                        "writeReplicas"} => dst[k] \in Rows
    /\ job # NoJob => job.row \in Rows

(* The shape of the tables, the chats and the tasks (repositories/files.rs, *)
(* chunk_replicas.rs and the locals of the handlers).                       *)
TypeOK ==
    /\ rowSt \in [Rows -> {"none", "live", "trash"}]
    /\ path \in [Rows -> Paths \cup {NoPath}]
    /\ hasChunks \in [Rows -> BOOLEAN]
    /\ replica \in [Rows -> ReplicaRows]
    /\ thumb \in [Rows -> Nat]
    /\ kept \in [Rows -> BOOLEAN]
    /\ telegram \in [Channels -> SUBSET Nat]
    /\ nextId \in [Channels -> Nat \ {0}]
    /\ at \in [Requests -> Places]
    /\ after \in [Requests -> {"idle", "readSource", "restore"}]
    /\ from \in [Requests -> Paths \cup {NoPath}]
    /\ to \in [Requests -> Paths \cup {NoPath}]
    /\ src \in [Requests -> Rows \cup {NoRow}]
    /\ dst \in [Requests -> Rows \cup {NoRow}]
    /\ pic \in [Requests -> Nat]
    /\ got \in [Requests -> ReplicaRows]
    /\ doomed \in [Requests -> SUBSET Rows]
    /\ listed \in [Requests -> SUBSET Messages]
    /\ gcTodo \in [Requests -> SUBSET Messages]
    /\ gcNow \in [Requests -> Messages]
    /\ job \in JobState
    /\ HoldsItsData
    /\ faults \in Nat /\ aborts \in Nat /\ crashes \in Nat

(* purge_file_ids and its GC task against copies, restores, the replicator  *)
(* and each other: a file that was uploaded, or copied from a file that was *)
(* still there when the copy was done, keeps every message its replicas     *)
(* name, in the trash as well.                                              *)
KeptAreReadable ==
    \A f \in Rows, c \in Channels :
        kept[f] /\ Stored(replica[f], c) => replica[f][c] \in telegram[c]

(* Why KeptAreReadable is kept, in a storage without thumbnails.  An id that *)
(* is not given out yet is nowhere; the message the replicator just sent is *)
(* named by nobody; a clone is empty until its one copier fills it, with    *)
(* what its source still has; and no kept file names a message some GC task *)
(* has decided to delete.                                                   *)
IdsGivenOut ==
    /\ \A c \in Channels : \A n \in telegram[c] : n < nextId[c]
    /\ \A f \in Rows, c \in Channels : replica[f][c] < nextId[c]
    /\ \A k \in Requests, c \in Channels : got[k][c] < nextId[c]
    /\ \A k \in Requests : \A m \in listed[k] \cup gcTodo[k] :
          0 < m[2] /\ m[2] < nextId[m[1]]
    /\ \A k \in Requests : gcNow[k] # NoMessage =>
          0 < gcNow[k][2] /\ gcNow[k][2] < nextId[gcNow[k][1]]
SentIsPrivate ==
    job.sent > 0 =>
        /\ job.sent \in telegram[job.on]
        /\ job.sent < nextId[job.on]
        /\ \A f \in Rows : replica[f][job.on] # job.sent
        /\ \A k \in Requests :
              /\ got[k][job.on] # job.sent
              /\ \A m \in listed[k] \cup gcTodo[k] : m[1] = job.on => m[2] # job.sent
              /\ gcNow[k][1] = job.on => gcNow[k][2] # job.sent
JobIsQueued ==
    job # NoJob /\ Exists(job.row) => replica[job.row][job.on] = Queued
GoneRowsAreEmpty ==
    \A f \in Rows : ~ Exists(f) => ~ kept[f] /\ replica[f] = NoReplicas
OneCopierPerClone ==
    \A k, l \in Requests : dst[k] # NoRow /\ dst[k] = dst[l] => k = l
CloneIsEmpty ==
    \A k \in Requests : dst[k] # NoRow => replica[dst[k]] = NoReplicas
CopiedFromSource ==
    \A k \in Requests : At(k, "writeReplicas") =>
        \A c \in Channels : Exists(src[k]) /\ Stored(got[k], c)
                               => replica[src[k]][c] = got[k][c]
NoThumbs ==
    /\ \A f \in Rows : thumb[f] = 0
    /\ \A k \in Requests : pic[k] = 0
ClaimedIsUnkept ==
    \A k \in Requests : gcNow[k] # NoMessage =>
        \A f \in Rows : kept[f] => replica[f][gcNow[k][1]] # gcNow[k][2]
KeptInv ==
    /\ NoThumbs /\ IdsGivenOut /\ SentIsPrivate /\ JobIsQueued
    /\ GoneRowsAreEmpty /\ OneCopierPerClone /\ CloneIsEmpty
    /\ CopiedFromSource /\ ClaimedIsUnkept /\ KeptAreReadable

(* gc_telegram_messages: once the requests and the GC tasks get to run, a    *)
(* message no row names is deleted, whoever shared it and in whatever order *)
(* the files that named it were purged, unless Telegram refused a deletion. *)
EventuallyCollected ==
    \A c \in Channels : \A n \in 1 .. MaxMessages :
        (n \in telegram[c] /\ ~ Referenced(<<c, n>>)) ~>
            (n \notin telegram[c] \/ faults > 0)

(* purge_file_ids, with what its doc comment promises: a message that is    *)
(* deleted is one no chunk replica and no thumbnail names at that moment.   *)
(* False, and in no run: a copy may add rows between the question and the   *)
(* deletion.                                                                *)
DeletesOnlyUnreferenced ==
    [][\A c \in Channels : \A n \in telegram[c] \ telegram'[c] :
          ~ Referenced(<<c, n>>)]_vars

(* delete_forever, empty and the retention tick remove what is in the trash:*)
(* a purge never erases a file that is live when it runs.                   *)
(* False, and in no run: a row that is restored after it was listed is      *)
(* erased.                                                                  *)
PurgesOnlyTrash ==
    [][\A k \in Requests : PurgeErase(k) /\ after[k] = "idle" =>
          \A f \in doomed[k] : rowSt[f] # "live"]_vars

(* Emptying the trash removes the Telegram copies: a message in a chat is   *)
(* named by a row, or some task still has it in hand.                       *)
InHand(m) ==
    \/ job.sent = m[2] /\ job.on = m[1]
    \/ \E k \in Requests : m \in gcTodo[k] \cup listed[k] \cup {gcNow[k]}
(* False, and in no run: a row purged between copyMessage and mark_uploaded *)
(* leaves its new message.                                                  *)
NothingLeaks ==
    \A c \in Channels : \A n \in telegram[c] :
        Referenced(<<c, n>>) \/ InHand(<<c, n>>)

(* is_uploaded is set once the last chunk is away: a row marked uploaded     *)
(* (every row here is) that no copy is still filling has its chunks.        *)
(* False, and in no run: a client that hangs up in a copy leaves an         *)
(* uploaded row without chunks.                                             *)
UploadedHasChunks ==
    \A f \in Rows : Exists(f) /\ (\A k \in Requests : dst[k] # f) => hasChunks[f]
=============================================================================
