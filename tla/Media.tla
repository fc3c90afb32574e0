-------------------------------- MODULE Media --------------------------------
(***************************************************************************)
(* Reading files: downloads, folder archives, previews and thumbnails       *)
(* (routers/files.rs), the single flight and the caches behind them         *)
(* (common/single_flight.rs, chunk_cache.rs, media_cache.rs), the warmer    *)
(* (services/media_warmer.rs), and the writers of the one path they race    *)
(* for: uploads with their derived pictures, replacements, deletions, moves.*)
(*                                                                          *)
(* A picture and a chunk stand for the version of the file they were made   *)
(* from.  A row keeps its id when its content is replaced.  Decoding and    *)
(* encoding succeed or fail; a flight is a lock, first come not assumed.    *)
(***************************************************************************)
EXTENDS Integers, Sequences, FiniteSets, FiniteSetsExt

CONSTANTS
    Clients, Warmers,\* requests, and the warmer's tasks
    Asks,            \* pairs of a reader and a request it may make
    MediaPermits, ThumbPermits,
    Parts,           \* chunks of every version
    Channels,        \* 1 .. n, in the order of ordered_active_channels
    CacheLimit,      \* chunks that CHUNK_CACHE_LIMIT_BYTES holds
    MaxVersion,      \* bound: versions of the path's content
    MaxChanges,      \* bound: uploads, replacements, deletions and moves
    MaxFails         \* bound: failed Telegram calls

Readers == Clients \cup Warmers
Requests == {"thumb", "preview", "download", "zip", "first"}
Versions == 1 .. MaxVersion
Docs == Versions \X (1 .. Parts) \X Channels
ThumbKey == <<"thumb">>
PreviewKey == <<"preview">>
Flights == {ThumbKey, PreviewKey} \cup Docs
Free == "free"

ASSUME MediaAssumption ==
    /\ {MediaPermits, ThumbPermits, Parts, MaxVersion} \subseteq Nat \ {0}
    /\ IsFiniteSet(Channels) /\ Channels = 1 .. Cardinality(Channels)
    /\ {CacheLimit, MaxChanges, MaxFails} \subseteq Nat
    /\ Asks \subseteq Readers \X Requests /\ Free \notin Readers

Chunk(v, i, ch) == <<v, i, ch>>

VARIABLES
    kind,            \* "photo" or "video", by the path's extension
    live,            \* the row at the path, 0 for none
    rowVer, rowParts,\* of every row: its version, and how many chunks are recorded
    thumbDoc, previewDoc, \* the version the live row's stored pictures show, 0 for NULL
    relay,           \* the upload in flight: row, step, and whether it has the path
    thumbs, previews,\* the two MediaCache entries of the path
    inval,           \* invalidate_media_cache tasks that have not run
    backfills,       \* detached backfill_thumb and backfill_preview: what, row, version
    disk, young,     \* chunk cache, and its entries within the grace
    dead,            \* channels
    loose,           \* history: versions a change left behind while something used them
    task,            \* the tasks' own state
    flight, media, tiles, \* lock holders, permit holders
    zips,            \* archives under work_dir/zips
    hung,            \* history: requests dropped with an archive on disk
    changes, fails

rowVars == <<changes, kind, live, rowVer, rowParts, thumbDoc, previewDoc, relay>>
tileVars == <<thumbs, previews, inval, backfills, loose>>
chunkVars == <<disk, young, dead>>
readVars == <<task, flight, media, tiles, zips, hung>>
vars == <<rowVars, tileVars, chunkVars, readVars, fails>>

Asleep == [pc |-> "start", q |-> "", trow |-> 0, row |-> 0, doc |-> 0, got |-> 0,
           lver |-> 0, lnum |-> 0, idx |-> 1, all |-> {}, cs |-> {}, doomed |-> {},
           risky |-> FALSE]
NoRelay == [row |-> 0, step |-> "off", here |-> FALSE]
Done == [Asleep EXCEPT !.pc = "done"]

(* A file is at the path, with or without its stored pictures and its       *)
(* chunks in the cache.                                                     *)
Init ==
    /\ kind \in {"photo", "video"}
    /\ live = 1 /\ rowVer = [w \in Versions |-> IF w = 1 THEN live ELSE 0]
    /\ rowParts = [w \in Versions |-> IF w = live THEN Parts ELSE 0]
    /\ thumbDoc \in {0, live} /\ previewDoc \in {0, live}
    /\ relay = NoRelay
    /\ thumbs = 0 /\ previews = 0 /\ inval = 0 /\ backfills = {} /\ loose = {}
    /\ disk \in {{}, {1} \X (1 .. Parts) \X Channels} /\ young = {} /\ dead = {}
    /\ task = [r \in Readers |-> Asleep] /\ flight = [k \in Flights |-> Free]
    /\ media = {} /\ tiles = {} /\ zips = {} /\ hung = {} /\ changes = 0 /\ fails = 0

Latest == Max({rowVer[w] : w \in Versions})
Active(r) == task[r].pc \notin {"start", "done"}
At(r, pcs) == task[r].pc \in pcs
Change == changes < MaxChanges /\ changes' = changes + 1
Fail == fails < MaxFails /\ fails' = fails + 1

-----------------------------------------------------------------------------
(* The writers of the path.                                                 *)

(* The old version is loose when a request, an upload or a backfill that    *)
(* knows its row is still under way.                                        *)
Loosen ==
    loose' = IF \/ \E r \in Readers :
                      /\ Active(r)
                      /\ live \in {task[r].row, task[r].trow} \/ task[r].got = rowVer[live]
                \/ relay.row = live \/ \E b \in backfills : b[2] = live
             THEN loose \cup {rowVer[live]} ELSE loose

(* A new row at a free path; nothing is invalidated.                        *)
Upload ==
    /\ Change
    /\ live = 0 /\ relay = NoRelay /\ Latest < MaxVersion
    /\ LET w == Latest + 1 IN
           /\ live' = w /\ rowVer' = [rowVer EXCEPT ![w] = w]
           /\ relay' = [row |-> w, step |-> "chunks", here |-> TRUE]
    /\ thumbDoc' = 0 /\ previewDoc' = 0
    /\ UNCHANGED <<kind, rowParts, tileVars, chunkVars, readVars, fails>>

(* The row keeps its id and loses its chunks and pictures to the trash.     *)
Replace ==
    /\ Change
    /\ live # 0 /\ relay.row # live /\ relay = NoRelay /\ Latest < MaxVersion
    /\ rowVer' = [rowVer EXCEPT ![live] = Latest + 1]
    /\ rowParts' = [rowParts EXCEPT ![live] = 0]
    /\ thumbDoc' = 0 /\ previewDoc' = 0
    /\ relay' = [row |-> live, step |-> "chunks", here |-> TRUE]
    /\ inval' = inval + 1 /\ Loosen
    /\ UNCHANGED <<kind, live, thumbs, previews, backfills, chunkVars, readVars, fails>>

\* mutant: a deletion leaves the path's pictures in the caches
DeleteOnly ==
    /\ Change
    /\ live # 0 /\ live' = 0 /\ thumbDoc' = 0 /\ previewDoc' = 0 /\ Loosen
    /\ UNCHANGED <<kind, rowVer, rowParts, relay, thumbs, previews, inval, backfills, chunkVars,
                   readVars, fails>>

(* Into the trash, with its path.                                           *)
Delete ==
    /\ Change
    /\ live # 0 /\ live' = 0 /\ thumbDoc' = 0 /\ previewDoc' = 0
    /\ inval' = inval + 1 /\ Loosen
    /\ UNCHANGED <<kind, rowVer, rowParts, relay, thumbs, previews,
                   backfills, chunkVars, readVars, fails>>

(* rename and move_to invalidate nothing at the path the file leaves.       *)
MoveAway ==
    /\ Change
    /\ live # 0 /\ live' = 0 /\ thumbDoc' = 0 /\ previewDoc' = 0
    /\ relay' = IF relay.row = live /\ relay.step = "chunks" THEN [relay EXCEPT !.here = FALSE]
                ELSE relay
    /\ loose' = loose \cup {rowVer[live]}
    /\ UNCHANGED <<kind, rowVer, rowParts, thumbs, previews, inval,
                   backfills, chunkVars, readVars, fails>>

(* invalidate_media_cache: a detached task removes the two entries.         *)
Invalidate ==
    /\ inval > 0 /\ inval' = inval - 1
    /\ previews' = 0 /\ thumbs' = 0
    /\ UNCHANGED <<rowVars, backfills, loose, chunkVars, readVars, fails>>

RelayChunk ==
    /\ relay.step = "chunks"
    /\ rowParts' = [rowParts EXCEPT ![relay.row] = @ + 1]
    /\ relay' = IF rowParts'[relay.row] = Parts THEN [relay EXCEPT !.step = "derive"] ELSE relay
    /\ UNCHANGED <<changes, kind, live, rowVer, thumbDoc, previewDoc, tileVars, chunkVars,
                   readVars, fails>>

(* maybe_upload_thumb and maybe_upload_preview: either picture may fail to  *)
(* be made.  The preview goes into the cache, at the path the row had, and  *)
(* is stored when it is worth a document.                                   *)
UploadDerived ==
    /\ relay.step = "derive" /\ relay' = NoRelay
    /\ LET mine == {rowVer[w] : w \in {live} \cap {relay.row}} IN
           /\ thumbDoc' \in {thumbDoc} \cup mine
           /\ \/ UNCHANGED <<previews, previewDoc>>
              \/ /\ previews' = IF relay.here THEN rowVer[relay.row] ELSE previews
                 /\ previewDoc' \in {previewDoc} \cup mine
    /\ UNCHANGED <<changes, kind, live, rowVer, rowParts, thumbs, inval, backfills, loose,
                   chunkVars, readVars, fails>>

(* A detached backfill writes its document into the row, whatever its       *)
(* version is by then.                                                      *)
Backfill(b) ==
    /\ b \in backfills /\ backfills' = backfills \ {b}
    /\ \/ UNCHANGED <<thumbDoc, previewDoc>>
       \/ b[1] = "thumb" /\ b[2] = live /\ thumbDoc' = b[3] /\ UNCHANGED previewDoc
       \/ b[1] = "preview" /\ b[2] = live /\ previewDoc' = b[3] /\ UNCHANGED thumbDoc
    /\ UNCHANGED <<changes, kind, live, rowVer, rowParts, relay, thumbs, previews, inval, loose,
                   chunkVars, readVars, fails>>

-----------------------------------------------------------------------------
(* A request, and what the warmer asks for without one.                     *)

(* The locks and permits a future holds are given up when it is dropped.    *)
Release(r) ==
    /\ flight' = [k \in Flights |-> IF flight[k] = r THEN Free ELSE flight[k]]
    /\ media' = media \ {r} /\ tiles' = tiles \ {r}

(* The end, with or without an answer.                                      *)
Finish(r) == task' = [task EXCEPT ![r] = Done] /\ Release(r)

Go(r, upd) == task' = [task EXCEPT ![r] = upd]
Same == UNCHANGED <<flight, media, tiles>>
NoFile == UNCHANGED <<rowVars, chunkVars, zips, hung, fails>>

Ask(r, q) ==
    /\ <<r, q>> \in Asks /\ r \in Clients /\ task[r] = Asleep
    /\ Go(r, [Asleep EXCEPT !.pc = q, !.q = q])
    /\ UNCHANGED <<rowVars, tileVars, chunkVars, flight, media, tiles, zips, hung, fails>>

(* warm_one asks for what is not cached, and for a video's first chunk.     *)
Missing(q) ==
    \/ (q = "thumb" /\ thumbs = 0) \/ (q = "preview" /\ previews = 0)
    \/ (q = "first" /\ kind = "video")

(* A sweep warms the files it collected in a few tasks, each on its own.    *)
WarmOne(r, q) ==
    /\ <<r, q>> \in Asks /\ r \in Warmers /\ task[r] = Asleep
    /\ Missing(q)
    /\ Go(r, [Asleep EXCEPT !.pc = q, !.q = q])
    /\ UNCHANGED <<rowVars, tileVars, chunkVars, flight, media, tiles, zips, hung, fails>>

(* thumb_for_path: the row, then the cache, then the flight.                *)
Thumb(r) ==
    /\ At(r, {"thumb"})
    /\ IF live = 0 \/ thumbs # 0 THEN Finish(r)
       ELSE /\ Go(r, [task[r] EXCEPT !.pc = "thumb flight", !.trow = live, !.row = live,
                                     !.doc = thumbDoc])
            /\ Same
    /\ UNCHANGED tileVars /\ NoFile

(* A preview is there, the flight ends: a thumbnail may be waiting for it.  *)
PreviewReturns(r, v) ==
    IF flight[ThumbKey] = r
    THEN /\ Go(r, [task[r] EXCEPT !.pc = "derive", !.got = v])
         /\ flight' = [flight EXCEPT ![PreviewKey] = IF @ = r THEN Free ELSE @]
         /\ media' = media \ {r} /\ UNCHANGED tiles
    ELSE Finish(r)

(* A tile is about to be made of a preview that is out of date.             *)
Outdated(r) ==
    loose' = IF flight[ThumbKey] = r /\ previews # 0 /\ (live = 0 \/ previews # rowVer[live])
             THEN loose \cup {previews} ELSE loose

(* preview_for_path; a video has one only when it was stored.               *)
Preview(r) ==
    /\ At(r, {"preview"})
    /\ IF live = 0 \/ (kind = "video" /\ previewDoc = 0)
       THEN Finish(r)
       ELSE IF previews # 0 THEN PreviewReturns(r, previews)
       ELSE /\ Go(r, [task[r] EXCEPT !.pc = "preview flight", !.row = live,
                                     !.doc = previewDoc])
            /\ Same
    /\ Outdated(r) /\ UNCHANGED <<thumbs, previews, inval, backfills>> /\ NoFile

(* Whoever gets the flight looks at the cache again.                        *)
ThumbFlight(r) ==
    /\ At(r, {"thumb flight"}) /\ flight[ThumbKey] = Free
    /\ IF thumbs # 0 THEN Finish(r)
       ELSE /\ flight' = [flight EXCEPT ![ThumbKey] = r] /\ UNCHANGED <<media, tiles>>
            /\ Go(r, [task[r] EXCEPT !.pc = IF task[r].doc = 0 THEN "preview" ELSE "thumb permit"])
    /\ UNCHANGED tileVars /\ NoFile

PreviewFlight(r) ==
    /\ At(r, {"preview flight"}) /\ flight[PreviewKey] = Free
    /\ IF previews # 0 THEN PreviewReturns(r, previews)
       ELSE /\ flight' = [flight EXCEPT ![PreviewKey] = r] /\ UNCHANGED <<media, tiles>>
            /\ Go(r, [task[r] EXCEPT !.pc = IF task[r].doc = 0 THEN "assemble" ELSE "permit"])
    /\ Outdated(r) /\ UNCHANGED <<thumbs, previews, inval, backfills>> /\ NoFile

ThumbPermit(r) ==
    /\ At(r, {"thumb permit", "first permit"}) /\ Cardinality(tiles) < ThumbPermits
    /\ tiles' = tiles \cup {r}
    /\ Go(r, [task[r] EXCEPT !.pc = IF @ = "thumb permit" THEN "thumb get" ELSE "chunk"])
    /\ UNCHANGED <<flight, media, tileVars>> /\ NoFile

\* mutant: the read begins without waiting for a permit
MediaPermitAny(r) ==
    /\ At(r, {"permit", "read permit"})
    /\ media' = media \cup {r}
    /\ Go(r, [task[r] EXCEPT !.pc = IF @ = "permit" THEN "preview get" ELSE "chunk"])
    /\ UNCHANGED <<flight, tiles, tileVars>> /\ NoFile

MediaPermit(r) ==
    /\ At(r, {"permit", "read permit"})
    /\ Cardinality(media) < MediaPermits
    /\ media' = media \cup {r}
    /\ Go(r, [task[r] EXCEPT !.pc = IF @ = "permit" THEN "preview get" ELSE "chunk"])
    /\ UNCHANGED <<flight, tiles, tileVars>> /\ NoFile

(* The cache takes it, or the write is skipped.                             *)
ThumbGot(r) ==
    /\ At(r, {"thumb get"}) /\ thumbs' \in {thumbs, task[r].doc}
    /\ Finish(r)
    /\ UNCHANGED <<previews, inval, backfills, loose>> /\ NoFile

(* No token before the deadline (503), or an error.                         *)
ThumbLost(r) ==
    /\ At(r, {"thumb get"}) /\ Fail /\ Finish(r)
    /\ UNCHANGED <<rowVars, tileVars, chunkVars, zips, hung>>

PreviewGot(r) ==
    /\ At(r, {"preview get"}) /\ previews' \in {previews, task[r].doc}
    /\ PreviewReturns(r, task[r].doc)
    /\ UNCHANGED <<thumbs, inval, backfills, loose>> /\ NoFile

\* mutant: the permit of the stored preview is kept on the way to the chunks
PreviewLostKeepsPermit(r) ==
    /\ At(r, {"preview get"}) /\ Fail
    /\ \/ Finish(r)
       \/ /\ kind = "photo" /\ UNCHANGED <<media, flight, tiles>>
          /\ Go(r, [task[r] EXCEPT !.pc = "assemble"])
    /\ UNCHANGED <<rowVars, tileVars, chunkVars, zips, hung>>

(* Busy ends it; a lost document is made again from a photo's chunks.       *)
PreviewLost(r) ==
    /\ At(r, {"preview get"}) /\ Fail
    /\ \/ Finish(r)
       \/ /\ kind = "photo" /\ media' = media \ {r} /\ UNCHANGED <<flight, tiles>>
          /\ Go(r, [task[r] EXCEPT !.pc = "assemble"])
    /\ UNCHANGED <<rowVars, tileVars, chunkVars, zips, hung>>

(* derived_thumb: a tile of that preview, stored into the row first read.   *)
DerivedThumb(r) ==
    /\ At(r, {"derive"})
    /\ \/ UNCHANGED <<thumbs, backfills>>
       \/ /\ thumbs' = task[r].got
          /\ backfills' = backfills \cup {<<"thumb", task[r].trow, task[r].got>>}
    /\ Finish(r)
    /\ UNCHANGED <<previews, inval, loose>> /\ NoFile

-----------------------------------------------------------------------------
(* Chunks: assemble_file_bytes, download_file, download_folder and          *)
(* warm_first_chunk.                                                        *)

Reads(r) == task[r].q
Assembles(r) == flight[PreviewKey] = r
Candidates == Channels \ dead

(* The row at the path, or 404.                                             *)
Find(r) ==
    /\ At(r, {"download", "zip", "first"})
    /\ IF live = 0 THEN Finish(r) ELSE Go(r, [task[r] EXCEPT !.pc = "list", !.row = live]) /\ Same
    /\ UNCHANGED tileVars /\ NoFile

(* The chunks of the row, in one statement, and their candidates.           *)
List(r, pc) ==
    IF Candidates = {} THEN Finish(r)
    ELSE /\ Go(r, [task[r] EXCEPT !.pc = pc, !.lver = rowVer[task[r].row],
                                  !.lnum = rowParts[task[r].row], !.idx = 1,
                                  !.all = Candidates, !.cs = Candidates])
         /\ Same

(* A permit for every chunk, none without chunks.                           *)
FirstOf(r) == IF rowParts[task[r].row] = 0 THEN "chunk" ELSE "read permit"

DownloadFile(r) ==
    /\ At(r, {"list"}) /\ Reads(r) = "download" /\ List(r, FirstOf(r))
    /\ UNCHANGED tileVars /\ NoFile

(* The archive is a file of its own until it has been sent.                 *)
DownloadFolder(r) ==
    /\ At(r, {"list"}) /\ Reads(r) = "zip" /\ List(r, FirstOf(r))
    /\ zips' = IF Candidates = {} THEN zips ELSE zips \cup {r}
    /\ UNCHANGED <<rowVars, tileVars, chunkVars, hung, fails>>

WarmFirstChunk(r) ==
    /\ At(r, {"list"}) /\ Reads(r) = "first"
    /\ IF rowParts[task[r].row] = 0 THEN Finish(r) ELSE List(r, "first permit")
    /\ UNCHANGED tileVars /\ NoFile

AssembleFileBytes(r) ==
    /\ At(r, {"assemble"}) /\ List(r, "read permit")
    /\ UNCHANGED tileVars /\ NoFile

Wanted(r) == Chunk(task[r].lver, task[r].idx, Min(task[r].cs))

(* An eviction that is under way has listed this entry.                     *)
Condemned(d) == \E e \in Readers : d \in task[e].doomed

\* mutant: a hit is not touched, and stays as old as it was
ChunkHitUntouched(r) ==
    /\ At(r, {"chunk", "chunk flight"}) /\ task[r].idx =< task[r].lnum /\ Reads(r) # "zip"
    /\ Wanted(r) \in disk /\ (At(r, {"chunk flight"}) => flight[Wanted(r)] = Free)
    /\ Go(r, [task[r] EXCEPT !.pc = "open", !.risky = Condemned(Wanted(r))]) /\ Same
    /\ UNCHANGED <<rowVars, tileVars, chunkVars, zips, hung, fails>>

(* ChunkCache::ensure without the flight: a hit is touched.                 *)
ChunkHit(r) ==
    /\ At(r, {"chunk", "chunk flight"}) /\ task[r].idx =< task[r].lnum /\ Reads(r) # "zip"
    /\ Wanted(r) \in disk /\ (At(r, {"chunk flight"}) => flight[Wanted(r)] = Free)
    /\ young' = young \cup {Wanted(r)}
    /\ Go(r, [task[r] EXCEPT !.pc = "open", !.risky = Condemned(Wanted(r))]) /\ Same
    /\ UNCHANGED <<rowVars, tileVars, disk, dead, zips, hung, fails>>

ChunkMiss(r) ==
    /\ At(r, {"chunk"}) /\ task[r].idx =< task[r].lnum /\ Reads(r) # "zip" /\ Wanted(r) \notin disk
    /\ Go(r, [task[r] EXCEPT !.pc = "chunk flight"]) /\ Same
    /\ UNCHANGED tileVars /\ NoFile

ChunkFlight(r) ==
    /\ At(r, {"chunk flight"}) /\ flight[Wanted(r)] = Free /\ Wanted(r) \notin disk
    /\ flight' = [flight EXCEPT ![Wanted(r)] = r] /\ UNCHANGED <<media, tiles>>
    /\ Go(r, [task[r] EXCEPT !.pc = "chunk get"])
    /\ UNCHANGED tileVars /\ NoFile

(* Streamed into a file of its own and renamed; then the oldest entries     *)
(* over the limit are listed, the young ones left out.                      *)
ChunkGot(r) ==
    /\ At(r, {"chunk get"})
    /\ disk' = disk \cup {Wanted(r)} /\ young' = young \cup {Wanted(r)}
    /\ LET old == disk' \ young'
           over == Cardinality(disk') - CacheLimit IN
       \E D \in SUBSET old :
           /\ IF over > 0 THEN Cardinality(D) = Min({over, Cardinality(old)}) ELSE D = {}
           /\ Go(r, [task[r] EXCEPT !.pc = IF D = {} THEN "open" ELSE "evict", !.doomed = D,
                                    !.risky = Condemned(Wanted(r))])
           /\ flight' = IF D = {} THEN [flight EXCEPT ![Wanted(r)] = Free] ELSE flight
    /\ UNCHANGED <<rowVars, tileVars, dead, media, tiles, zips, hung, fails>>

(* evict_oldest removes what it listed, touched since or not.               *)
Evict(r) ==
    /\ At(r, {"evict"})
    /\ \E d \in task[r].doomed :
           LET left == task[r].doomed \ {d} IN
           /\ disk' = disk \ {d} /\ young' = young \ {d}
           /\ Go(r, [task[r] EXCEPT !.pc = IF left = {} THEN "open" ELSE "evict", !.doomed = left])
           /\ flight' = IF left = {} THEN [flight EXCEPT ![Wanted(r)] = Free] ELSE flight
    /\ UNCHANGED <<media, tiles>>
    /\ UNCHANGED <<rowVars, tileVars, dead, zips, hung, fails>>

(* The next candidate, and after the last one the request fails.  A chat    *)
(* that is gone makes its channel dead.                                     *)
ChunkFails(r) ==
    /\ \/ At(r, {"chunk get"})
       \/ At(r, {"chunk"}) /\ Reads(r) = "zip" /\ task[r].idx =< task[r].lnum
    /\ Fail /\ dead' \in {dead, dead \cup {Min(task[r].cs)}}
    /\ IF Cardinality(task[r].cs) > 1
       THEN /\ Go(r, [task[r] EXCEPT !.pc = "chunk", !.cs = @ \ {Min(@)}])
            /\ flight' = [flight EXCEPT ![Wanted(r)] = IF @ = r THEN Free ELSE @]
            /\ UNCHANGED <<media, tiles, zips>>
       ELSE Finish(r) /\ zips' = zips \ {r}
    /\ UNCHANGED <<rowVars, tileVars, disk, young, hung>>

(* The chunk is handed out, and the next one is due.                        *)
Following(r) ==
    [task[r] EXCEPT !.idx = @ + 1, !.cs = task[r].all, !.risky = FALSE,
                    !.pc = IF Assembles(r) \/ task[r].idx = task[r].lnum
                           THEN "chunk" ELSE "read permit"]

(* The file is opened by its path; a download has given its permit back.    *)
Open(r) ==
    /\ At(r, {"open"})
    /\ IF Reads(r) = "first"
          \/ Wanted(r) \notin disk
       THEN Finish(r)
       ELSE /\ Go(r, Following(r)) /\ UNCHANGED <<flight, tiles>>
            /\ media' = IF Assembles(r) THEN media ELSE media \ {r}
    /\ UNCHANGED <<rowVars, tileVars, chunkVars, zips, hung, fails>>

(* An archive is streamed from Telegram, past the cache.                    *)
ZipChunk(r) ==
    /\ At(r, {"chunk"}) /\ Reads(r) = "zip" /\ task[r].idx =< task[r].lnum
    /\ media' = media \ {r} /\ UNCHANGED <<flight, tiles>>
    /\ Go(r, Following(r))
    /\ UNCHANGED <<rowVars, tileVars, chunkVars, zips, hung, fails>>

(* A photo that was there as a whole is encoded, cached, and stored for the *)
(* next time.                                                               *)
Encode(r) ==
    /\ At(r, {"chunk"}) /\ task[r].idx > task[r].lnum /\ Assembles(r)
    /\ \/ /\ task[r].lnum = Parts /\ previews' \in {previews, task[r].lver}
          /\ backfills' = backfills \cup {<<"preview", task[r].row, task[r].lver>>}
          /\ PreviewReturns(r, task[r].lver)
       \/ Finish(r) /\ UNCHANGED <<previews, backfills>>
    /\ UNCHANGED <<thumbs, inval, loose>> /\ NoFile

\* mutant: the archive is sent and stays on disk
LastChunkKeepsZip(r) ==
    /\ At(r, {"chunk"}) /\ task[r].idx > task[r].lnum /\ ~Assembles(r)
    /\ Finish(r)
    /\ UNCHANGED <<rowVars, tileVars, chunkVars, zips, hung, fails>>

(* After the last chunk an archive is sent and removed; a download is over. *)
LastChunk(r) ==
    /\ At(r, {"chunk"}) /\ task[r].idx > task[r].lnum /\ ~Assembles(r)
    /\ Finish(r) /\ zips' = zips \ {r}
    /\ UNCHANGED <<rowVars, tileVars, chunkVars, hung, fails>>

(* Two minutes pass for an entry; whoever was given it has opened it.       *)
Age(d) ==
    /\ d \in young
    /\ \A r \in Readers : ~(At(r, {"open", "evict"}) /\ Wanted(r) = d)
    /\ young' = young \ {d}
    /\ UNCHANGED <<rowVars, tileVars, disk, dead, readVars, fails>>

(* The client hangs up: the future is dropped where it stands.              *)
HangUp(r) ==
    /\ r \in Clients /\ Active(r)
    /\ Fail
    /\ task' = [task EXCEPT ![r] = Done] /\ Release(r) /\ hung' = hung \cup ({r} \cap zips)
    /\ UNCHANGED <<rowVars, tileVars, chunkVars, zips>>

Step(r) ==
    \/ Thumb(r) \/ Preview(r) \/ ThumbFlight(r) \/ PreviewFlight(r) \/ ThumbPermit(r)
    \/ MediaPermit(r) \/ ThumbGot(r) \/ PreviewGot(r) \/ Encode(r)
    \/ DerivedThumb(r) \/ Find(r) \/ DownloadFile(r) \/ DownloadFolder(r)
    \/ WarmFirstChunk(r) \/ AssembleFileBytes(r) \/ ChunkHit(r)
    \/ ChunkMiss(r) \/ ChunkFlight(r) \/ ChunkGot(r) \/ Evict(r) \/ Open(r) \/ ZipChunk(r)
    \/ LastChunk(r)

(* No event: the server waits.                                              *)
Quiet == UNCHANGED vars

Next ==
    \/ Upload \/ Replace \/ Delete \/ MoveAway \/ Invalidate \/ RelayChunk \/ UploadDerived
    \/ Quiet
    \/ \E b \in backfills : Backfill(b)
    \/ \E d \in Docs : Age(d)
    \/ \E r \in Readers : Step(r) \/ ThumbLost(r) \/ PreviewLost(r) \/ ChunkFails(r) \/ HangUp(r)
    \/ \E a \in Asks : Ask(a[1], a[2]) \/ WarmOne(a[1], a[2])

Spec == Init /\ [][Next]_vars

(* A task that can go on is polled.                                         *)
FairSpec == Spec /\ WF_vars(\E r \in Readers : Step(r))

-----------------------------------------------------------------------------
(* Every variable stays in its range, and no more permits are out than      *)
(* there are.                                                               *)
TypeOK ==
    /\ live \in 0 .. MaxVersion /\ relay.row \in 0 .. MaxVersion
    /\ rowVer \in [Versions -> 0 .. MaxVersion] /\ rowParts \in [Versions -> 0 .. Parts]
    /\ {thumbs, previews} \subseteq 0 .. MaxVersion /\ young \subseteq disk /\ disk \subseteq Docs
    /\ flight \in [Flights -> Readers \cup {Free}]
    /\ Cardinality(media) =< MediaPermits /\ Cardinality(tiles) =< ThumbPermits

(* The caches are keyed by path: with no invalidation under way, a picture  *)
(* in them is of the file at the path now, unless that version was moved    *)
(* away or something still worked on its row when it left                   *)
(* (FilesService::invalidate_media_cache and its callers).                  *)
TilesAreOfTheirPath ==
    inval = 0 =>
        \A v \in {thumbs, previews} :
            v = 0 \/ v \in loose \/ (live # 0 /\ v = rowVer[live])

(* A chunk that was just handed out is there to be opened, unless an        *)
(* eviction that listed it as old was already under way (evict_oldest,      *)
(* CHUNK_EVICT_GRACE).                                                      *)
HandedOutIsThere ==
    \A r \in Readers : At(r, {"open"}) => task[r].risky \/ Wanted(r) \in disk

(* An archive is left on disk only by a client that hung up.                *)
ArchivesAreRemoved == \A r \in zips : Active(r) \/ r \in hung

(* Every request ends: thumbnail, preview and chunk flights and the two     *)
(* semaphores are taken in an order without a cycle, and given back.        *)
EveryReadEnds == []<>(\A r \in Readers : ~Active(r))

(* The caches on disk and in memory: pictures are of their path, chunks     *)
(* that were handed out are there, archives are removed.                    *)
CachesHold == TypeOK /\ TilesAreOfTheirPath /\ HandedOutIsThere /\ ArchivesAreRemoved
=============================================================================
