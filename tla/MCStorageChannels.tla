------------------------- MODULE MCStorageChannels -------------------------
(***************************************************************************)
(* Two small instances of StorageChannels on the same variables; a run      *)
(* takes one of them:                                                       *)
(*   "restart"  one request, a dying chat and a restart;                    *)
(*   "edits"    two requests that overlap, and a dying chat.                *)
(* Chunks and channels are numbers, and the ids of the rows of              *)
(* chunk_replicas are ordered chunk by chunk.                               *)
(***************************************************************************)
EXTENDS StorageChannels

VARIABLE part

ChunkByChunk == [r \in Rows |-> r[1] * 10 + r[2]]

Edits_ == INSTANCE StorageChannels WITH
    MaxEdits <- 2, MaxCrashes <- 0

MCInit == part \in {"restart", "edits"} /\ Init

Restarts == part = "restart" /\ Next /\ UNCHANGED part
Edits == part = "edits" /\ Edits_!Next /\ UNCHANGED part

MCSpec == MCInit /\ [][Restarts \/ Edits]_<<vars, part>>
=============================================================================
