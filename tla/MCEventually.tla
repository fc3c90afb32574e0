----------------------------- MODULE MCEventually -----------------------------
(***************************************************************************)
(* What must happen in the end in the parts that move content: an upload    *)
(* that is offered again and again lands, messages that nothing names are   *)
(* deleted, queued copies are made, and the client's folder catches up with *)
(* the feed (SyncFeed, whose names are not prefixed). A run takes one of    *)
(* them; symmetry is off, as liveness needs.                                *)
(***************************************************************************)
EXTENDS SyncFeed

(* The ids of the rows of chunk_replicas, ordered chunk by chunk.           *)
ChunkByChunk == [r \in {1, 2} \X {1, 2} |-> r[1] * 10 + r[2]]

VARIABLES
    part,       \* which one runs
    u_rowSt, u_rowVersion, u_rowName, u_isUploaded, u_chunk, u_ledger, u_spool, u_pc, u_file,
    u_seen, u_armed, u_rpc, u_rfile, u_todo, u_faults, u_aborts, u_crashes, u_deletes,
    m_rowSt, m_path, m_hasChunks, m_replica, m_thumb, m_kept, m_telegram, m_nextId, m_at, m_from,
    m_to, m_src, m_dst, m_pic, m_got, m_doomed, m_listed, m_after, m_gcTodo, m_gcNow, m_job,
    m_faults, m_aborts, m_crashes,
    c_status, c_slot, c_chat, c_primary, c_alive, c_replica, c_sentTo, c_recorded, c_upAt,
    c_upPrimary, c_upChannels, c_upTo, c_upChat, c_adAt, c_adChannel, c_adChat, c_adSlot,
    c_adChunks, c_hAt, c_hTodo, c_hNow, c_hSlot, c_jAt, c_jTodo, c_jChunk, c_jTo, c_jChat,
    c_jFrom, c_jMessage, c_edits, c_deaths, c_crashes

uploadVars == <<u_rowSt, u_rowVersion, u_rowName, u_isUploaded, u_chunk, u_ledger, u_spool, u_pc,
               u_file, u_seen, u_armed, u_rpc, u_rfile, u_todo, u_faults, u_aborts, u_crashes,
               u_deletes>>
gcVars == <<m_rowSt, m_path, m_hasChunks, m_replica, m_thumb, m_kept, m_telegram, m_nextId, m_at,
           m_from, m_to, m_src, m_dst, m_pic, m_got, m_doomed, m_listed, m_after, m_gcTodo,
           m_gcNow, m_job, m_faults, m_aborts, m_crashes>>
channelsVars == <<c_status, c_slot, c_chat, c_primary, c_alive, c_replica, c_sentTo, c_recorded,
                 c_upAt, c_upPrimary, c_upChannels, c_upTo, c_upChat, c_adAt, c_adChannel,
                 c_adChat, c_adSlot, c_adChunks, c_hAt, c_hTodo, c_hNow, c_hSlot, c_jAt, c_jTodo,
                 c_jChunk, c_jTo, c_jChat, c_jFrom, c_jMessage, c_edits, c_deaths, c_crashes>>
feedVars == vars
allVars == <<part, uploadVars, gcVars, channelsVars, feedVars>>

UploadRelay_ == INSTANCE UploadRelay WITH
    Requests <- {"r1", "r2"}, Versions <- {"v1"}, Hashes <- {"h1"},
    HashOf <- [v \in {"v1"} |-> "h1"], VersionOf <- [r \in {"r1", "r2"} |-> "v1"],
    Replacers <- {}, Rows <- 1..3, Positions <- {1}, NoRow <- 0, NoChunk <- "none",
    MaxActive <- 2, MaxFaults <- 1, MaxAborts <- 1, MaxCrashes <- 0, MaxDeletes <- 0,
    rowSt <- u_rowSt, rowVersion <- u_rowVersion, rowName <- u_rowName,
    isUploaded <- u_isUploaded, chunk <- u_chunk, ledger <- u_ledger, spool <- u_spool,
    pc <- u_pc, file <- u_file, seen <- u_seen, armed <- u_armed, rpc <- u_rpc, rfile <- u_rfile,
    todo <- u_todo, faults <- u_faults, aborts <- u_aborts, crashes <- u_crashes,
    deletes <- u_deletes

MessageGC_ == INSTANCE MessageGC WITH
    Requests <- {"k1", "k2"}, Copiers <- {"k1"}, Purgers <- {"k1", "k2"}, Restorers <- {"k2"},
    Rows <- 1..3, Paths <- {"a", "b"}, Channels <- {"c1"}, Primary <- "c1", Pictures <- {},
    NoRow <- 0, NoPath <- "none", MaxActive <- 1, MaxMessages <- 2, MaxFaults <- 1,
    MaxAborts <- 0, MaxCrashes <- 0, rowSt <- m_rowSt, path <- m_path, hasChunks <- m_hasChunks,
    replica <- m_replica, thumb <- m_thumb, kept <- m_kept, telegram <- m_telegram,
    nextId <- m_nextId, at <- m_at, from <- m_from, to <- m_to, src <- m_src, dst <- m_dst,
    pic <- m_pic, got <- m_got, doomed <- m_doomed, listed <- m_listed, after <- m_after,
    gcTodo <- m_gcTodo, gcNow <- m_gcNow, job <- m_job, faults <- m_faults, aborts <- m_aborts,
    crashes <- m_crashes

StorageChannels_ == INSTANCE StorageChannels WITH
    Slots <- 2, Channels <- {1, 2}, Chats <- {"x", "y"}, Chunks <- {1, 2}, Admins <- {"a"},
    First <- 1, FirstChat <- "x", NoChannel <- 0, NoChat <- "none", NoChunk <- 0, Batch <- 25,
    MaxEdits <- 1, MaxDeaths <- 0, MaxCrashes <- 1, RowId <- ChunkByChunk, status <- c_status,
    slot <- c_slot, chat <- c_chat, primary <- c_primary, alive <- c_alive, replica <- c_replica,
    sentTo <- c_sentTo, recorded <- c_recorded, upAt <- c_upAt, upPrimary <- c_upPrimary,
    upChannels <- c_upChannels, upTo <- c_upTo, upChat <- c_upChat, adAt <- c_adAt,
    adChannel <- c_adChannel, adChat <- c_adChat, adSlot <- c_adSlot, adChunks <- c_adChunks,
    hAt <- c_hAt, hTodo <- c_hTodo, hNow <- c_hNow, hSlot <- c_hSlot, jAt <- c_jAt,
    jTodo <- c_jTodo, jChunk <- c_jChunk, jTo <- c_jTo, jChat <- c_jChat, jFrom <- c_jFrom,
    jMessage <- c_jMessage, edits <- c_edits, deaths <- c_deaths, crashes <- c_crashes

-----------------------------------------------------------------------------
(* The feed of a storage that is already in use; nothing fails there.       *)
UsedLog == <<Upsert("p", 1), Deleted("p"), Upsert("p", 2)>>

(* The parts that do not run stay as they start, in one of their initial    *)
(* states.                                                                  *)
MCInit ==
    /\ part \in {"upload", "gc", "channels", "feed", "used"}
    /\ UploadRelay_!Init
    /\ MessageGC_!Init
    /\ StorageChannels_!Init
    /\ Init /\ log = (IF part = "used" THEN UsedLog ELSE <<>>)

UploadRelayRuns ==
    /\ part = "upload" /\ UploadRelay_!Next
    /\ UNCHANGED <<part, gcVars, channelsVars, feedVars>>

MessageGCRuns ==
    /\ part = "gc" /\ MessageGC_!Next
    /\ UNCHANGED <<part, uploadVars, channelsVars, feedVars>>

StorageChannelsRuns ==
    /\ part = "channels" /\ StorageChannels_!Next
    /\ UNCHANGED <<part, uploadVars, gcVars, feedVars>>

SyncFeedRuns ==
    /\ part \in {"feed", "used"} /\ Next
    /\ part = "used" => faults' = 0
    /\ UNCHANGED <<part, uploadVars, gcVars, channelsVars>>

(* Rows and messages are bounded: once they are used up, nothing moves.       *)
Rests == part \in {"upload", "gc"} /\ UNCHANGED allVars

MCNext == UploadRelayRuns \/ MessageGCRuns \/ StorageChannelsRuns \/ SyncFeedRuns \/ Rests

(* Each part under its own fairness, while it is the one that runs.         *)
MCFairness ==
    /\ \A r \in {"r1", "r2"} :
        /\ WF_uploadVars(part = "upload" /\ UploadRelay_!Submit(r))
        /\ WF_uploadVars(part = "upload" /\ UploadRelay_!RequestStep(r))
        /\ WF_uploadVars(part = "upload" /\ UploadRelay_!RelayStep(r))
    /\ \A k \in {"k1", "k2"} :
        /\ WF_gcVars(part = "gc" /\ MessageGC_!GcStep(k))
        /\ WF_gcVars(part = "gc" /\ (MessageGC_!PurgeList(k) \/ MessageGC_!PurgeErase(k)))
    /\ WF_channelsVars(part = "channels" /\ StorageChannels_!Replicate)
    /\ WF_feedVars(part \in {"feed", "used"} /\ Client)

MCSpec == MCInit /\ [][MCNext]_allVars /\ MCFairness

-----------------------------------------------------------------------------
(* With finitely many failures a client that keeps offering its file gets it*)
(* stored (upload_anyway_from_path_with_progress).                          *)
EventuallyLands == part = "upload" => UploadRelay_!EventuallyLands

(* A message that no file names is deleted in the end, whatever the order of*)
(* deletions, restores and purges (gc_telegram_messages).                   *)
EventuallyCollected == part = "gc" => MessageGC_!EventuallyCollected

(* No row waits for ever while its channel and all its sources work (the    *)
(* replication loop).                                                       *)
QueuedIsReplicated == part = "channels" => StorageChannels_!QueuedIsReplicated

(* Once changes cease, every untouched path is the same on both sides in the*)
(* end (pull_remote).                                                       *)
FeedCatchesUp == part \in {"feed", "used"} => EventuallyInSync
=============================================================================
