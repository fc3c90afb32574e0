-------------------------- MODULE StorageChannels --------------------------
(***************************************************************************)
(* The channels of one storage (sarca/src/services/storages.rs,             *)
(* channel_health.rs, replication.rs and the channel choice of             *)
(* storage_manager.rs).  A storage has a few numbered slots, each a channel *)
(* bound to a Telegram chat; uploads go to the active ones, the replicator  *)
(* copies every chunk to the others, the health loop and the replicator     *)
(* mark channels dead, administrators add, re-point and remove them, and    *)
(* all of them move the primary position.                                   *)
(*                                                                          *)
(* One step is one SQL statement, transaction or Telegram call.  A message  *)
(* is known by the chat it was sent to: the ids of a chat mean nothing in   *)
(* another.  Messages are not deleted here (module MessageGC does that).    *)
(***************************************************************************)
EXTENDS Integers, FiniteSets

CONSTANTS
    Slots,       \* MAX_CHANNELS
    Channels,    \* ids of rows of table storage_channels; never used twice
    Chats,       \* Telegram chats a channel can be bound to
    Chunks,      \* chunks, each the content of one upload
    Admins,      \* requests of administrators
    First,       \* the channel the storage was created with
    FirstChat,   \* its chat
    NoChannel, NoChat, NoChunk,
    RowId,       \* the order of the random ids of the rows of chunk_replicas
    Batch,       \* BATCH_SIZE of the replicator
    MaxEdits,    \* bound: requests of administrators in a behaviour
    MaxDeaths,   \* bound: chats that stop accepting the bot
    MaxCrashes   \* bound: restarts of the server

Positions == 1 .. Slots
Rows == Chunks \X Channels

ASSUME ChannelsAssumption ==
    /\ Slots \in Nat \ {0}
    /\ First \in Channels /\ FirstChat \in Chats
    /\ NoChannel \notin Channels /\ NoChat \notin Chats /\ NoChunk \notin Chunks
    /\ RowId \in [Rows -> Nat]
    /\ {Batch, MaxEdits, MaxDeaths, MaxCrashes} \subseteq Nat

VARIABLES
    status,   \* table storage_channels: none (no such row), active or dead
    slot,     \* its position; a row that is gone keeps its last values
    chat,     \* its chat
    primary,  \* storages.primary_position
    alive,    \* the chats that accept the bot
    replica,  \* table chunk_replicas: none, queued (pending, failed) or stored
    sentTo,   \* the chat the stored message was sent to
    recorded, \* table file_chunks
    \* an upload: the statement it runs next, the position and channels it read
    upAt, upPrimary, upChannels, upTo, upChat,
    \* a request: the statement it runs next, what it works on and read
    adAt, adChannel, adChat, adSlot, adChunks,
    \* the health loop: channels to probe with their chats, and the dead one
    hAt, hTodo, hNow, hSlot,
    \* the replicator: the batch with its target chats, the job, its source
    jAt, jTodo, jChunk, jTo, jChat, jFrom, jMessage,
    edits, deaths, crashes

tableVars == <<status, slot, chat, replica, sentTo, recorded>>
upVars == <<upAt, upPrimary, upChannels, upTo, upChat>>
adVars == <<adAt, adChannel, adChat, adSlot, adChunks>>
hVars == <<hAt, hTodo, hNow, hSlot>>
jVars == <<jAt, jTodo, jChunk, jTo, jChat, jFrom, jMessage>>
boundVars == <<edits, deaths, crashes>>
vars == <<tableVars, primary, alive, upVars, adVars, hVars, jVars, boundVars>>

-----------------------------------------------------------------------------
Exists(c) == status[c] # "none"
Active == {c \in Channels : status[c] = "active"}
Taken == {slot[c] : c \in {d \in Channels : Exists(d)}}
Bound(x, but) == \E c \in Channels \ {but} : Exists(c) /\ chat[c] = x
Lowest(P) == CHOOSE p \in P : \A q \in P : p <= q

(* next_active_position: the next active slot after `from`, cyclically; the *)
(* lowest active one when `from` is not active; none when nothing is.       *)
ActiveSlots == {slot[c] : c \in Active}
SlotAfter(from) == from + 1  \* mutant: the slot after it, without wrapping
NextActive(from) ==
    LET above == {p \in ActiveSlots : p > from}
    IN  IF from \in ActiveSlots /\ above # {} THEN Lowest(above)
        ELSE Lowest(ActiveSlots)

(* insert_batch and the insertion of enqueue_for_channel: a row that exists *)
(* is left alone, a channel that is gone fails the whole statement.         *)
QueueOver(ks, cs) ==  \* mutant: an existing row goes back to pending
    replica' = [k \in Chunks |-> [c \in Channels |->
                   IF k \in ks /\ c \in cs THEN "queued" ELSE replica[k][c]]]
Queue(ks, cs) ==
    replica' = [k \in Chunks |-> [c \in Channels |->
                   IF k \in ks /\ c \in cs /\ replica[k][c] = "none"
                   THEN "queued" ELSE replica[k][c]]]

Nowhere == [c \in Channels |-> NoChat]
NoJobs == [r \in Rows |-> NoChat]

Init ==
    /\ status = [c \in Channels |-> IF c = First THEN "active" ELSE "none"]
    /\ slot = [c \in Channels |-> 1]
    /\ chat = [c \in Channels |-> IF c = First THEN FirstChat ELSE NoChat]
    /\ primary = 1
    /\ alive = Chats
    /\ replica = [k \in Chunks |-> [c \in Channels |-> "none"]]
    /\ sentTo = [k \in Chunks |-> Nowhere]
    /\ recorded = {}
    /\ upAt = [k \in Chunks |-> "idle"]
    /\ upPrimary = [k \in Chunks |-> 1]
    /\ upChannels = [k \in Chunks |-> {}]
    /\ upTo = [k \in Chunks |-> NoChannel]
    /\ upChat = [k \in Chunks |-> Nowhere]
    /\ adAt = [a \in Admins |-> "idle"]
    /\ adChannel = [a \in Admins |-> NoChannel]
    /\ adChat = [a \in Admins |-> NoChat]
    /\ adSlot = [a \in Admins |-> 1]
    /\ adChunks = [a \in Admins |-> {}]
    /\ hAt = "probe" /\ hTodo = Nowhere /\ hNow = NoChannel /\ hSlot = 1
    /\ jAt = "next" /\ jTodo = NoJobs
    /\ jChunk = NoChunk /\ jTo = NoChannel
    /\ jChat = NoChat /\ jFrom = NoChat /\ jMessage = NoChat
    /\ edits = 0 /\ deaths = 0 /\ crashes = 0

-----------------------------------------------------------------------------
(* StorageManagerService::upload, seen from one of the file's chunks: load  *)
(* the storage, list the active channels, persist a rotation, send, record, *)
(* fan out.                                                                 *)
UploadEnds(k, place) ==
    /\ upAt' = [upAt EXCEPT ![k] = place]
    /\ upPrimary' = [upPrimary EXCEPT ![k] = 1]
    /\ upChannels' = [upChannels EXCEPT ![k] = {}]
    /\ upTo' = [upTo EXCEPT ![k] = NoChannel]
    /\ upChat' = [upChat EXCEPT ![k] = Nowhere]

UploadLoad(k) ==
    /\ upAt[k] = "idle"
    /\ upAt' = [upAt EXCEPT ![k] = "list"]
    /\ upPrimary' = [upPrimary EXCEPT ![k] = primary]
    /\ UNCHANGED <<upChannels, upTo, upChat, tableVars, primary, alive, adVars,
                   hVars, jVars, boundVars>>

(* resolve_primary_channel: the channel at the primary position if it is    *)
(* active, else the first active one.                                       *)
ResolvedSlot(p) == IF p \in ActiveSlots THEN p ELSE Lowest(ActiveSlots)

UploadList(k) ==
    /\ upAt[k] = "list"
    /\ Active # {}
    /\ upAt' = [upAt EXCEPT ![k] =
                   IF ResolvedSlot(upPrimary[k]) = upPrimary[k] THEN "plan"
                   ELSE "rotate"]
    /\ upPrimary' = [upPrimary EXCEPT ![k] = ResolvedSlot(@)]
    /\ upChannels' = [upChannels EXCEPT ![k] = Active]
    /\ upChat' = [upChat EXCEPT ![k] =
                     [c \in Channels |-> IF c \in Active THEN chat[c] ELSE NoChat]]
    /\ UNCHANGED <<upTo, tableVars, primary, alive, adVars, hVars, jVars, boundVars>>

UploadRotate(k) ==
    /\ upAt[k] = "rotate"
    /\ primary' = upPrimary[k]
    /\ upAt' = [upAt EXCEPT ![k] = "plan"]
    /\ UNCHANGED <<upPrimary, upChannels, upTo, upChat, tableVars, alive, adVars,
                   hVars, jVars, boundVars>>

(* list_stored_chunk_positions: a chunk some channel has stored is not sent. *)
UploadPlan(k) ==
    /\ upAt[k] = "plan"
    /\ upAt' = [upAt EXCEPT ![k] =
                   IF \E c \in Channels : replica[k][c] = "stored" THEN "fanOut"
                   ELSE "send"]
    /\ UNCHANGED <<upPrimary, upChannels, upTo, upChat, tableVars, primary, alive,
                   adVars, hVars, jVars, boundVars>>

(* Chunks are dealt round-robin: any of the channels may be its target. *)
UploadSend(k, c) ==
    /\ upAt[k] = "send"
    /\ c \in upChannels[k] /\ upChat[k][c] \in alive
    /\ upTo' = [upTo EXCEPT ![k] = c]
    /\ upAt' = [upAt EXCEPT ![k] = "record"]
    /\ UNCHANGED <<upPrimary, upChannels, upChat, tableVars, primary, alive, adVars,
                   hVars, jVars, boundVars>>

(* create_chunk_with_replica: one row per chunk, and the channel is there. *)
UploadRecord(k) ==
    /\ upAt[k] = "record"
    /\ k \notin recorded /\ Exists(upTo[k])
    /\ recorded' = recorded \cup {k}
    /\ replica' = [replica EXCEPT ![k][upTo[k]] = "stored"]
    /\ sentTo' = [sentTo EXCEPT ![k][upTo[k]] = upChat[k][upTo[k]]]
    /\ upAt' = [upAt EXCEPT ![k] = "fanOut"]
    /\ UNCHANGED <<upPrimary, upChannels, upTo, upChat, status, slot, chat, primary,
                   alive, adVars, hVars, jVars, boundVars>>

UploadFanOut(k) ==
    /\ upAt[k] = "fanOut"
    /\ \A c \in upChannels[k] : Exists(c)
    /\ Queue({k}, upChannels[k])
    /\ UploadEnds(k, "done")
    /\ UNCHANGED <<status, slot, chat, sentTo, recorded, primary, alive, adVars,
                   hVars, jVars, boundVars>>

(* No active channel, a chat that refuses this chunk or another one of the  *)
(* file, a chunk whose row outlived its replicas, or a channel removed      *)
(* under the upload: the next attempt resumes what is recorded.             *)
UploadFails(k) ==
    /\ \/ upAt[k] = "list" /\ Active = {}
       \/ /\ upAt[k] \in {"send", "record", "fanOut"}
          /\ \E c \in upChannels[k] : upChat[k][c] \notin alive
       \/ upAt[k] = "record" /\ (k \in recorded \/ ~ Exists(upTo[k]))
       \/ upAt[k] = "fanOut" /\ \E c \in upChannels[k] : ~ Exists(c)
    /\ UploadEnds(k, "idle")
    /\ UNCHANGED <<tableVars, primary, alive, adVars, hVars, jVars, boundVars>>

-----------------------------------------------------------------------------
(* Requests of administrators. *)
AdminStart(a) == adAt[a] = "idle" /\ edits < MaxEdits /\ edits' = edits + 1
AdminEnds(a) ==
    /\ adAt' = [adAt EXCEPT ![a] = "idle"]
    /\ adChannel' = [adChannel EXCEPT ![a] = NoChannel]
    /\ adChat' = [adChat EXCEPT ![a] = NoChat]
    /\ adSlot' = [adSlot EXCEPT ![a] = 1]
    /\ adChunks' = [adChunks EXCEPT ![a] = {}]

(* add_channel: a free slot (none: TooManyChannels), the row, the catch-up. *)
AddStart(a, x) ==
    /\ AdminStart(a)
    /\ Positions \ Taken # {}
    /\ adAt' = [adAt EXCEPT ![a] = "insert"]
    /\ adChat' = [adChat EXCEPT ![a] = x]
    /\ adSlot' = [adSlot EXCEPT ![a] = Lowest(Positions \ Taken)]
    /\ UNCHANGED <<adChannel, adChunks, tableVars, primary, alive, upVars, hVars,
                   jVars, deaths, crashes>>

(* The unique keys of the table: (storage, position) and chat_id. *)
NotUnique(x, p) == FALSE  \* mutant: nothing refuses a slot taken meanwhile
Conflict(x, p) == Bound(x, NoChannel) \/ p \in Taken

AddInsert(a, c) ==
    /\ adAt[a] = "insert"
    /\ chat[c] = NoChat            \* a new id
    /\ ~ Conflict(adChat[a], adSlot[a])
    /\ status' = [status EXCEPT ![c] = "active"]
    /\ slot' = [slot EXCEPT ![c] = adSlot[a]]
    /\ chat' = [chat EXCEPT ![c] = adChat[a]]
    /\ adChannel' = [adChannel EXCEPT ![a] = c]
    /\ adAt' = [adAt EXCEPT ![a] = "chunks"]
    /\ UNCHANGED <<adChat, adSlot, adChunks, replica, sentTo, recorded, primary,
                   alive, upVars, hVars, jVars, boundVars>>

(* update_channel with a chat id: another chat, or the same one again. *)
UpdateChat(a, c, x) ==
    /\ AdminStart(a)
    /\ Exists(c) /\ ~ Bound(x, c)
    /\ status' = [status EXCEPT ![c] = "active"]
    /\ chat' = [chat EXCEPT ![c] = x]
    /\ adChannel' = [adChannel EXCEPT ![a] = c]
    /\ adAt' = [adAt EXCEPT ![a] = "chunks"]
    /\ UNCHANGED <<adChat, adSlot, adChunks, slot, replica, sentTo, recorded,
                   primary, alive, upVars, hVars, jVars, deaths, crashes>>

(* enqueue_for_channel: list the chunks, then insert a row for each. *)
EnqueueList(a) ==
    /\ adAt[a] = "chunks"
    /\ adChunks' = [adChunks EXCEPT ![a] = recorded]
    /\ adAt' = [adAt EXCEPT ![a] = "enqueue"]
    /\ UNCHANGED <<adChannel, adChat, adSlot, tableVars, primary, alive, upVars,
                   hVars, jVars, boundVars>>

EnqueueInsert(a) ==
    /\ adAt[a] = "enqueue"
    /\ Exists(adChannel[a])
    /\ Queue(adChunks[a], {adChannel[a]})
    /\ AdminEnds(a)
    /\ UNCHANGED <<status, slot, chat, sentTo, recorded, primary, alive, upVars,
                   hVars, jVars, boundVars>>

(* remove_channel: not the last active one; move the primary position away; *)
(* delete the row, and its replicas with it.                                *)
RemoveStart(a, c) ==
    /\ AdminStart(a)
    /\ Exists(c)
    /\ adChannel' = [adChannel EXCEPT ![a] = c]
    /\ adAt' = [adAt EXCEPT ![a] = IF status[c] = "active" THEN "count" ELSE "load"]
    /\ UNCHANGED <<adChat, adSlot, adChunks, tableVars, primary, alive, upVars,
                   hVars, jVars, deaths, crashes>>

RemoveCount(a) ==
    /\ adAt[a] = "count"
    /\ Cardinality(Active) > 1
    /\ adAt' = [adAt EXCEPT ![a] = "load"]
    /\ UNCHANGED <<adChannel, adChat, adSlot, adChunks, tableVars, primary, alive,
                   upVars, hVars, jVars, boundVars>>

RemoveLoad(a) ==
    /\ adAt[a] = "load"
    /\ adAt' = [adAt EXCEPT ![a] =
                   IF primary = slot[adChannel[a]] THEN "siblings" ELSE "delete"]
    /\ UNCHANGED <<adChannel, adChat, adSlot, adChunks, tableVars, primary, alive,
                   upVars, hVars, jVars, boundVars>>

RemoveSiblings(a) ==
    /\ adAt[a] = "siblings"
    /\ adAt' = [adAt EXCEPT ![a] = IF Active = {} THEN "delete" ELSE "rotate"]
    /\ adSlot' = [adSlot EXCEPT ![a] =
                     IF Active = {} THEN @ ELSE NextActive(slot[adChannel[a]])]
    /\ UNCHANGED <<adChannel, adChat, adChunks, tableVars, primary, alive, upVars,
                   hVars, jVars, boundVars>>

RemoveRotate(a) ==
    /\ adAt[a] = "rotate"
    /\ primary' = adSlot[a]
    /\ adAt' = [adAt EXCEPT ![a] = "delete"]
    /\ UNCHANGED <<adChannel, adChat, adSlot, adChunks, tableVars, alive, upVars,
                   hVars, jVars, boundVars>>

RemoveDelete(a) ==
    /\ adAt[a] = "delete"
    /\ status' = [status EXCEPT ![adChannel[a]] = "none"]
    /\ replica' = [k \in Chunks |-> [replica[k] EXCEPT ![adChannel[a]] = "none"]]
    /\ AdminEnds(a)
    /\ UNCHANGED <<slot, chat, sentTo, recorded, primary, alive, upVars, hVars,
                   jVars, boundVars>>

(* The slot or chat is taken after all, the channel is gone, or it is the    *)
(* last active one.                                                         *)
AdminFails(a) ==
    /\ \/ adAt[a] = "insert" /\ Conflict(adChat[a], adSlot[a])
       \/ adAt[a] = "enqueue" /\ ~ Exists(adChannel[a])
       \/ adAt[a] = "count" /\ Cardinality(Active) <= 1
    /\ AdminEnds(a)
    /\ UNCHANGED <<tableVars, primary, alive, upVars, hVars, jVars, boundVars>>

-----------------------------------------------------------------------------
(* ChannelHealthService::run_once: list, then for each active channel probe *)
(* its chat, mark it dead, and rotate the primary position away from it.    *)
MarkDead(c) ==
    status' = [status EXCEPT ![c] = IF Exists(c) THEN "dead" ELSE "none"]

HealthList ==
    /\ hAt = "probe" /\ hTodo = Nowhere
    /\ hTodo' = [c \in Channels |-> IF c \in Active THEN chat[c] ELSE NoChat]
    /\ UNCHANGED <<hAt, hNow, hSlot, tableVars, primary, alive, upVars, adVars,
                   jVars, boundVars>>

HealthProbe(c) ==
    /\ hAt = "probe" /\ hTodo[c] # NoChat
    /\ hTodo' = [hTodo EXCEPT ![c] = NoChat]
    /\ hAt' = IF hTodo[c] \in alive THEN "probe" ELSE "mark"
    /\ hNow' = IF hTodo[c] \in alive THEN NoChannel ELSE c
    /\ UNCHANGED <<hSlot, tableVars, primary, alive, upVars, adVars, jVars, boundVars>>

HealthMark ==
    /\ hAt = "mark"
    /\ MarkDead(hNow)
    /\ hAt' = "load"
    /\ UNCHANGED <<hTodo, hNow, hSlot, slot, chat, replica, sentTo, recorded,
                   primary, alive, upVars, adVars, jVars, boundVars>>

HealthLoad ==
    /\ hAt = "load"
    /\ hAt' = IF primary = slot[hNow] THEN "siblings" ELSE "probe"
    /\ hNow' = IF primary = slot[hNow] THEN hNow ELSE NoChannel
    /\ UNCHANGED <<hTodo, hSlot, tableVars, primary, alive, upVars, adVars, jVars,
                   boundVars>>

HealthSiblings ==
    /\ hAt = "siblings"
    /\ hAt' = IF Active = {} THEN "probe" ELSE "rotate"
    /\ hSlot' = IF Active = {} THEN hSlot ELSE NextActive(slot[hNow])
    /\ hNow' = NoChannel
    /\ UNCHANGED <<hTodo, tableVars, primary, alive, upVars, adVars, jVars, boundVars>>

HealthRotate ==
    /\ hAt = "rotate"
    /\ primary' = hSlot
    /\ hAt' = "probe" /\ hSlot' = 1
    /\ UNCHANGED <<hTodo, hNow, tableVars, alive, upVars, adVars, jVars, boundVars>>

-----------------------------------------------------------------------------
(* ReplicationService::run_once.  list_pending takes the first rows by id   *)
(* that are queued on an active channel, with the chats they have then.     *)
Pending == {r \in Rows : replica[r[1]][r[2]] = "queued" /\ r[2] \in Active}
InBatch(r) ==
    r \in Pending /\ Cardinality({q \in Pending : RowId[q] < RowId[r]}) < Batch

JobsList ==
    /\ jAt = "next" /\ jTodo = NoJobs
    /\ jTodo' = [r \in Rows |-> IF InBatch(r) THEN chat[r[2]] ELSE NoChat]
    /\ UNCHANGED <<jAt, jChunk, jTo, jChat, jFrom, jMessage, tableVars, primary,
                   alive, upVars, adVars, hVars, boundVars>>

RetryJob(r) ==  \* mutant: the job stays in the batch
    /\ jAt = "next" /\ jTodo[r] # NoChat
    /\ \A q \in Rows : jTodo[q] # NoChat => RowId[r] <= RowId[q]
    /\ UNCHANGED jTodo
NextJob(r) ==
    /\ jAt = "next" /\ jTodo[r] # NoChat
    /\ \A q \in Rows : jTodo[q] # NoChat => RowId[r] <= RowId[q]
    /\ jTodo' = [jTodo EXCEPT ![r] = NoChat]

(* find_source_for_chunk: a stored replica on another active channel. *)
Sources(k, c) == {s \in Active \ {c} : replica[k][s] = "stored"}

JobSource(r, s) ==
    /\ NextJob(r)
    /\ s \in Sources(r[1], r[2])
    /\ jAt' = "copy"
    /\ jChunk' = r[1] /\ jTo' = r[2] /\ jChat' = jTodo[r]
    /\ jFrom' = chat[s] /\ jMessage' = sentTo[r[1]][s]
    /\ UNCHANGED <<tableVars, primary, alive, upVars, adVars, hVars, boundVars>>

JobNoSource(r) ==
    /\ NextJob(r)
    /\ Sources(r[1], r[2]) = {}
    /\ UNCHANGED <<jAt, jChunk, jTo, jChat, jFrom, jMessage, tableVars, primary,
                   alive, upVars, adVars, hVars, boundVars>>

JobEnds ==
    /\ jAt' = "next"
    /\ jChunk' = NoChunk /\ jTo' = NoChannel
    /\ jChat' = NoChat /\ jFrom' = NoChat /\ jMessage' = NoChat
    /\ UNCHANGED jTodo

(* copyMessage: between two chats that accept the bot.  An id that belongs  *)
(* to another chat may or may not be somebody's in this one.                *)
JobCopy ==
    /\ jAt = "copy"
    /\ jFrom \in alive /\ jChat \in alive
    /\ jAt' = "mark"
    /\ UNCHANGED <<jTodo, jChunk, jTo, jChat, jFrom, jMessage, tableVars, primary,
                   alive, upVars, adVars, hVars, boundVars>>

JobNotFound ==
    /\ jAt = "copy"
    /\ jFrom \in alive /\ jChat \in alive /\ jMessage # jFrom
    /\ jAt' = "failed"
    /\ UNCHANGED <<jTodo, jChunk, jTo, jChat, jFrom, jMessage, tableVars, primary, alive,
                   upVars, adVars, hVars, boundVars>>

(* Either chat refuses the bot: the error names neither. *)
JobRefused ==
    /\ jAt = "copy"
    /\ jFrom \notin alive \/ jChat \notin alive
    /\ jAt' = "refused"
    /\ UNCHANGED <<jTodo, jChunk, jTo, jChat, jFrom, jMessage, tableVars, primary,
                   alive, upVars, adVars, hVars, boundVars>>

(* mark_uploaded, mark_failed: the row, if it is still there. *)
MarkRow(value) ==
    replica' = [replica EXCEPT ![jChunk][jTo] = IF @ = "none" THEN "none" ELSE value]

JobMark ==
    /\ jAt = "mark"
    /\ MarkRow("stored")
    /\ sentTo' = [sentTo EXCEPT ![jChunk][jTo] = jChat]
    /\ JobEnds
    /\ UNCHANGED <<status, slot, chat, recorded, primary, alive, upVars, adVars,
                   hVars, boundVars>>

JobMarkFailed ==
    /\ jAt \in {"failed", "refused"}
    /\ MarkRow("queued")
    /\ IF jAt = "failed" THEN JobEnds
       ELSE jAt' = "dead" /\ UNCHANGED <<jTodo, jChunk, jTo, jChat, jFrom, jMessage>>
    /\ UNCHANGED <<status, slot, chat, sentTo, recorded, primary, alive, upVars,
                   adVars, hVars, boundVars>>

JobMarkDead ==
    /\ jAt = "dead"
    /\ MarkDead(jTo)
    /\ JobEnds
    /\ UNCHANGED <<slot, chat, replica, sentTo, recorded, primary, alive, upVars,
                   adVars, hVars, boundVars>>

-----------------------------------------------------------------------------
(* Telegram: a chat is deleted, or the bot loses its rights in it. *)
ChatDies(x) ==
    /\ deaths < MaxDeaths /\ deaths' = deaths + 1
    /\ x \in alive /\ alive' = alive \ {x}
    /\ UNCHANGED <<tableVars, primary, upVars, adVars, hVars, jVars, edits, crashes>>

(* A restart: the tables stay, every task starts over. *)
Restart ==
    /\ crashes < MaxCrashes /\ crashes' = crashes + 1
    /\ upAt' = [k \in Chunks |-> IF upAt[k] = "done" THEN "done" ELSE "idle"]
    /\ upPrimary' = [k \in Chunks |-> 1]
    /\ upChannels' = [k \in Chunks |-> {}]
    /\ upTo' = [k \in Chunks |-> NoChannel]
    /\ upChat' = [k \in Chunks |-> Nowhere]
    /\ adAt' = [a \in Admins |-> "idle"]
    /\ adChannel' = [a \in Admins |-> NoChannel]
    /\ adChat' = [a \in Admins |-> NoChat]
    /\ adSlot' = [a \in Admins |-> 1]
    /\ adChunks' = [a \in Admins |-> {}]
    /\ hAt' = "probe" /\ hTodo' = Nowhere /\ hNow' = NoChannel /\ hSlot' = 1
    /\ jAt' = "next" /\ jTodo' = NoJobs /\ jChunk' = NoChunk /\ jTo' = NoChannel
    /\ jChat' = NoChat /\ jFrom' = NoChat /\ jMessage' = NoChat
    /\ UNCHANGED <<tableVars, primary, alive, edits, deaths>>

-----------------------------------------------------------------------------
Upload(k) ==
    \/ UploadLoad(k) \/ UploadList(k) \/ UploadRotate(k) \/ UploadPlan(k)
    \/ \E c \in Channels : UploadSend(k, c)
    \/ UploadRecord(k) \/ UploadFanOut(k) \/ UploadFails(k)

Administer(a) ==
    \/ \E x \in Chats : AddStart(a, x)
    \/ \E c \in Channels : AddInsert(a, c) \/ RemoveStart(a, c)
    \/ \E c \in Channels, x \in Chats : UpdateChat(a, c, x)
    \/ EnqueueList(a) \/ EnqueueInsert(a)
    \/ RemoveCount(a) \/ RemoveLoad(a) \/ RemoveSiblings(a) \/ RemoveRotate(a) \/ RemoveDelete(a)
    \/ AdminFails(a)

Health ==
    \/ HealthList \/ HealthMark \/ HealthLoad \/ HealthSiblings \/ HealthRotate
    \/ \E c \in Channels : HealthProbe(c)

Replicate ==
    \/ JobsList
    \/ \E r \in Rows : JobNoSource(r) \/ \E s \in Channels : JobSource(r, s)
    \/ JobCopy \/ JobNotFound \/ JobRefused
    \/ JobMark \/ JobMarkFailed \/ JobMarkDead

Next ==
    \/ \E k \in Chunks : Upload(k)
    \/ \E a \in Admins : Administer(a)
    \/ Health
    \/ Replicate
    \/ \E x \in Chats : ChatDies(x)
    \/ Restart

Spec == Init /\ [][Next]_vars

(* The replication loop is spawned at startup and supervised. *)
FairSpec == Spec /\ WF_vars(Replicate)

-----------------------------------------------------------------------------
UploadPlaces == {"idle", "list", "rotate", "plan", "send", "record", "fanOut", "done"}
AdminPlaces == {"idle", "insert", "chunks", "enqueue", "count", "load", "siblings",
                "rotate", "delete"}

JobPlaces == {"next", "copy", "mark", "failed", "refused", "dead"}

(* The shape of the tables and of what the tasks carry (startup.rs schema). *)
TypeOK ==
    /\ status \in [Channels -> {"none", "active", "dead"}]
    /\ slot \in [Channels -> Positions]
    /\ chat \in [Channels -> Chats \cup {NoChat}]
    /\ primary \in Positions
    /\ alive \subseteq Chats
    /\ replica \in [Chunks -> [Channels -> {"none", "queued", "stored"}]]
    /\ sentTo \in [Chunks -> [Channels -> Chats \cup {NoChat}]]
    /\ recorded \subseteq Chunks
    /\ upAt \in [Chunks -> UploadPlaces]
    /\ upPrimary \in [Chunks -> Positions]
    /\ upChannels \in [Chunks -> SUBSET Channels]
    /\ upTo \in [Chunks -> Channels \cup {NoChannel}]
    /\ upChat \in [Chunks -> [Channels -> Chats \cup {NoChat}]]
    /\ adAt \in [Admins -> AdminPlaces]
    /\ adChannel \in [Admins -> Channels \cup {NoChannel}]
    /\ adChat \in [Admins -> Chats \cup {NoChat}]
    /\ adSlot \in [Admins -> Positions]
    /\ adChunks \in [Admins -> SUBSET Chunks]
    /\ hAt \in {"probe", "mark", "load", "siblings", "rotate"}
    /\ hTodo \in [Channels -> Chats \cup {NoChat}]
    /\ hNow \in Channels \cup {NoChannel}
    /\ hSlot \in Positions
    /\ jAt \in JobPlaces
    /\ jTodo \in [Rows -> Chats \cup {NoChat}]
    /\ jChunk \in Chunks \cup {NoChunk}
    /\ jTo \in Channels \cup {NoChannel}
    /\ {jChat, jFrom, jMessage} \subseteq Chats \cup {NoChat}
    /\ edits \in Nat /\ deaths \in Nat /\ crashes \in Nat

(* add_channel and update_channel read a free slot or a chat first and write *)
(* later: however they interleave, no two channels share a slot or a chat.  *)
SlotsAreDistinct ==
    \A c, d \in Channels :
        c # d /\ Exists(c) /\ Exists(d) => slot[c] # slot[d] /\ chat[c] # chat[d]

(* insert_batch, enqueue_for_channel, mark_uploaded and the mark_failed of a *)
(* job listed long before: a stored copy is never demoted or forgotten while *)
(* its channel is there.                                                     *)
StoredStays ==
    [][\A k \in Chunks, c \in Channels :
          replica[k][c] = "stored" =>
              replica'[k][c] = "stored" \/ status'[c] = "none"]_vars

(* ReplicationService: a row that stays queued on a channel that works, with *)
(* sources that work, is not left waiting for ever.                         *)
Works(c) == status[c] = "active" /\ chat[c] \in alive
Replicable(k, c) ==
    /\ replica[k][c] = "queued" /\ Works(c)
    /\ Sources(k, c) # {}
    /\ \A s \in Sources(k, c) : Works(s) /\ sentTo[k][s] = chat[s]
QueuedIsReplicated ==
    \A k \in Chunks, c \in Channels : []<>(~ Replicable(k, c))

(* ChannelHealthService and ReplicationService mark dead the channels whose *)
(* chat is gone, and no others.                                             *)
(* False, and in no run: a channel that is probed and then re-pointed is    *)
(* marked dead for its former chat.                                         *)
DeadIsDead == \A c \in Channels : status[c] = "dead" => chat[c] \notin alive

(* "Replication still ends up putting every chunk everywhere": once the      *)
(* uploads and requests are over, every chunk has a row on every active     *)
(* channel, stored or queued.                                               *)
(* False, and in no run: an upload that listed the channels before one was  *)
(* added queues nothing on it.                                              *)
QueuedEverywhere ==
    (\A k \in Chunks : upAt[k] \in {"idle", "done"}) /\ (\A a \in Admins : adAt[a] = "idle")
        => \A k \in Chunks, c \in Active : upAt[k] = "done" => replica[k][c] # "none"
=============================================================================
