# A TLA+ verification of sarca

sarca stores files in Telegram chats. A server (`sarca/`, Rust, SQLite) cuts each
file into chunks, sends every chunk as a message to one of the storage's channels,
copies it to the others, and keeps rows that say which message holds what. Clients
(`ui/`, `client/`, `crates/sarca-sync/`) upload, sync and browse. The only durable
state is the database, the working directory and the chats, and nothing spans the
three atomically. Almost every handler is a sequence of separate SQL statements and
Telegram calls that other requests, spawned tasks and background loops interleave
with. That is what the models are about.

## Inventory

| Component | State | Operations | What makes it correct |
|---|---|---|---|
| Upload requests (`routers/files.rs`, `services/files.rs`) | spool files, relay ledger `RELAYS_IN_FLIGHT`, tables `files`, `file_chunks` | look up, wait for a running relay, resume, replace, create, claim, hand off, settle | bytes of one version never end under another; nothing is "uploaded" with a hole; no ledger entry or row blocks a path for ever |
| Traffic to Telegram (`storage_manager.rs`, `bot_api.rs`, `SpoolUsage`, `get_token`) | inbox, semaphores, bots' usage per minute, flood windows | admit, gate a file, send its chunks, wait out a flood | floods serialise, a failing file lets go of everything, every upload ends |
| Trash, purge, message GC, copies (`services/trash.rs`, `services/files.rs`) | `files.deleted_at`, rows that share messages, a list in a spawned task | delete, restore, purge, clone, `deleteMessage` | no kept file loses a message; no message is left behind |
| Storage channels, health, replication (`services/storages.rs`, `channel_health.rs`, `replication.rs`) | `storage_channels`, `primary_position`, `chunk_replicas` | add, re-point, remove, probe, rotate, `copyMessage` | slots and chats are distinct, no stored copy is demoted, every queued one is made |
| Storage deletion (`services/storage_purge.rs`) | outbox `storage_purge_jobs`, `_messages` | list, enqueue, claim, retry, complete | every owed message is deleted or given up after its attempts |
| Tree of files, share links (`services/files.rs`, `shares.rs`) | paths, trash, links | upload, folder, rename, move, copy, delete, restore, purge, share, revoke | links and places follow a rename, a source is not purged to make room for itself |
| Favourites, recent files | stars and views by row id | star, view, trim | none dangles; the latest are kept |
| Downloads, pictures (`routers/files.rs`, `common/*cache*.rs`, `media_warmer.rs`) | chunk cache, picture caches, flights, permits, archives on disk | read, derive, backfill, evict, invalidate | a picture is of the file at its path, every read ends |
| Sync changelog (`services/sync.rs`, triggers) and client (`crates/sarca-sync`) | events; index, cursor, retry ladder, transfer queue | changelog, snapshot; bootstrap, push, pull, heal | no event is skipped, nothing is sent twice, both sides agree in the end |
| Accounts, access (`services/users.rs`, `storages.rs`) | users, storages, access rows | create, delete, grant, withdraw | every storage has an admin, a shared one survives its owner |
| Sessions (`services/auth.rs`, client `state.rs`, `commands.rs`) | tokens; `server.json`, memory, engine, page | log in, refresh, revoke, connect, disconnect | what was revoked stays out; a session is not lost to a network that fails |
| Guests (`throttle.rs`, `public_shares.rs`) | failure records, cookies | guess, unlock, read | guesses are bounded, locks lapse, nothing outlives its link |
| Set-up (`services/setup.rs`, `set_bot`, `refresh_channels`) | storages, channels, bots | Finish, replace a bot, discover | all or nothing; chats go with their bot |
| Imports (`services/import/`) | jobs and items | scan, claim, copy, settle, pause, cancel, retry | each file in one task's hands, every job ends |
| Certificates (`tls/`) | two files, the served pair, the identity | issue, renew, watch the address, reload | the pinned key stays, the address is covered in the end |
| Self-update (`services/update.rs`) | install, staging directory, process | stage, swap, roll back, restart | binary and interface of one version |
| Backup and restore (`services/backup.rs`) | database, snapshots, safety copies | snapshot, scrub, validate, copy tables | a restore is the archive and nothing else; an admin gets in |
| Client's app lock, previews (`commands.rs`) | `client_prefs.json`; cached files | set and verify a PIN; put, get, evict | only its PIN opens a lock; a preview is whole |

How they interact: an upload request hands its spool to the storage manager through a
channel and waits for the answer, but may be aborted by its client while the relay goes
on. The relay records a chunk the moment Telegram accepted it and leaves the other
channels to the replicator. Copies make rows share messages, so a purge must ask who
else names a message, while the replicator adds new ones. Administrators, the health
loop, the replicator and every upload write the channel table or the primary position
from values they read some statements earlier. Triggers turn each write of a row into
an event that the sync clients pull; imports and the client's engine are uploads of
another origin. The client writes its session to three stores in turn.

What is hard: state read before an await and used after it; a Telegram call between
two statements; tasks nobody waits for; retries of what is half done; restarts between
any two of these. `PROJECT.json` lists the weightiest hazards at their lines, and
"Further hazards" below the others.

## Modules

| Module | Models | Run by |
|---|---|---|
| `UploadRelay` | uploads to one path: requests, ledger, relays, aborts, restarts | `upload`, `eventually`; `UploadRelayProofs` |
| `MessageGC` | trash, purge, copies, replication and the deletion of messages | `gc`, `eventually`; `MessageGCProofs` |
| `StorageChannels` | the channels of one storage: requests, uploads, health, replication | `channels`, `eventually`; `RecordsProofs` |
| `Outbox` | what the deletion of a storage promises (abstract) | refined by `StoragePurge` |
| `StoragePurge` | the list, the transaction, the loop with lease and attempts | `purge`; `StoragePurgeProofs` |
| `Traffic` | admission, file gate, chunks, bots' budget, send gates, floods | `traffic` |
| `Media` | downloads, archives, pictures, caches, flights, warm-up | `media`; `MediaProofs` |
| `AutoUpload` | a pass of an upload-only binding | `client`; `AutoUploadProofs` |
| `SyncFeed` | triggers, changelog, snapshot, two-way sync | `eventually`; `SyncFeedProofs` |
| `Library` | the tree of a storage and its share links | `records`, `library_wide` |
| `Shortcuts` | favourites and recent files | `records` |
| `Accounts`, `Setup` | users and grants; bots and channels | `records`; `RecordsProofs` |
| `Restore` | backup and restore | `records`; `RecordsProofs` |
| `Sessions` | tokens, and the client's stores of them | `records`, `agents` |
| `AppLock`, `PreviewCache` | the client's preferences with the PIN; its cache of previews | `records` |
| `Guests`, `Imports`, `Certs` | throttle and links; import jobs; certificates | `agents`; `AgentsProofs` |
| `Update` | the server's update of itself | `agents`, `update_linux`; `AgentsProofs` |

In every module one action is the code between two awaits (or two file operations) that
another task can use; `pc`, `task`, `at` or `stage` is the statement that runs next and
the fields beside it are the locals it carries. Faults, aborts, restarts, edits and
requests are counted, and a constant `Max...` bounds what the environment may do, never
what the code does. `PROJECT.json` "map" names the lines of every definition.

The operators marked `\* mutant` are deliberate wrong versions of the definition after
them; no specification uses them. `PROJECT.json` names, for every property of a passing
run, the ones that break it. A definition whose comment says "False, and in no run" is a
property one might expect and that TLC refutes: see "What does not hold".

`MCRecords` and `MCAgents` put small instances of parts that share no state on one run:
a variable (`chosen`, `part`) says which of them runs. In `MCRecords` the others are absent; in
`MCAgents` and `MCEventually` they stay in an initial state, so that their temporal
formulas stay defined; these two extend one of their parts (`Imports`, `SyncFeed`) and take
the others by INSTANCE. The sizes of the parts that are proved about are CONSTANTS of these
modules, the others are fixed in them. `MCUploadRelay` and `MCMessageGC` run two instances of
one module the same way. The properties of these modules are those of the parts, joined
by what they are about.

### UploadRelay

One path, any number of requests, each offering a version (a content hash with a size;
two versions may share a hash). `rowSt, rowVersion, rowName, isUploaded, chunk` are the
tables: `rowName` 0 is the path itself and n its "(n)" copy; a chunk is the version
whose bytes it holds. `ledger` is the key set of `RELAYS_IN_FLIGHT`, `spool` the spool
files. `pc, file, seen, armed` are the locals of
`upload_anyway_from_path_with_progress`, and `rpc, rfile, todo` the storage manager's
relay of the same spool, which runs on its own.

- `Submit` .. `LookupOther`: the first look-up, and what is remembered of it.
- `CheckRelay`, `RelayOver`, `WaitTimeout`, `Woken*`: the wait of up to 90 s for a
  relay of the same row.
- `Resume`, `PurgeStale`, `Replace*`, `Create`: the four ways to get a row.
- `Claim`, `Handoff`, `Settle*`, `KeepForResume`, `NothingStored`, `PurgeEmpty`:
  `upload_from_path` with its guard.
- `Relay*`: `StorageManagerService::upload`.
- `Abort`, `Delete`, `DeleteForever`, `Restart` (with `purge_interrupted_uploads`).

Abstracted: the channels (a chunk is accepted or the relay fails), thumbnails, byte
offsets, database errors. `create_file_anyway` retries its insertion on a name conflict;
scan and insertion are one step. `Submit` asks for a free row id, because `Rows` is finite.

### MessageGC

Rows of `files` with one chunk each (the chunks of a file move together in every
statement here) and its replica per channel: absent, queued, or a message id. Ids
count up per chat, as Telegram's do. `at` is the statement a request runs next, and
`from .. after` what it carries. `gcTodo, gcNow` are the spawned deletion task, `job`
is the replicator. `kept` is a history variable: the row is an upload, or a copy
whose source was still there when the copy was complete.

- `Purge*`, `Gc*`: `purge_file_ids` (list, then erase) and `gc_telegram_messages` (two
  reads, then the call).
- `Copy*`: `copy_to` with the four statements of `clone_one_row`; `Restore*`,
  `MoveTrashed`: `restore` with both conflict answers.
- `TakeJob`, `CopyMessage`, `MarkReplica`, `JobLost`: the replicator.
- `Abort` (a client hangs up between two statements), `Restart`.

Abstracted: an upload is one step (UploadRelay has its parts), folders and links (Library
has them), previews (same columns and rule as thumbnails).

### StorageChannels

One storage. `status, slot, chat` are its channel rows (an id is used once; a removed
row keeps its last values), `replica` and `sentTo` the rows of `chunk_replicas` and
the chat each stored message was really sent to, and `alive` the chats that accept
the bot. Uploads (`up*`), administrators' requests (`ad*`), the health loop (`h*`) and
the replicator (`j*`) each carry what they read. `copyMessage` needs both chats; an id
that belongs to another chat may or may not exist in this one.

Abstracted: names, pending and failed are one state, transient Telegram errors, `set_bot`
(in Setup), the marking of channels by downloads, and sources without a message id.

### Outbox and StoragePurge

`Outbox` has five variables: the messages in the chats, the storages dropped, the entries
owed and settled, and the attempts. A drop makes the storage's messages owed in the same
step; only owed messages are removed; an owed one is settled in the end. `StoragePurge`
has the tables, the request that read the messages before its transaction, and the loop
with its lease, attempts and completion. `ImplementsOutbox` is the refinement, with the
abstract fairness, under the mapping of owed to rows that are pending or in progress.
The list of a request is `missed` where a message is posted after it was read: such a
message is never owed, and `OutboxHolds` excepts exactly these.

### Traffic, Media

`Traffic`: `stage` is where an upload stands, `st` where each send stands; gates are
fair queues (tokio's semaphores); windows and minutes end by steps of their own. `Media`:
a row keeps its id when its content is replaced, a picture and a chunk stand for the
version they were made from; flights, permits and caches are those of `single_flight.rs`,
`chunk_cache.rs` and `media_cache.rs`, and uploads, replacements, deletions and moves race
for the one path.

### AutoUpload, SyncFeed

`AutoUpload` is a pass of `sync_binding_scoped` for an upload-only binding, request by
request, against a server that relays after it took the bytes; time is counted in passes.
`Scan` gives each file its place in the walk of the folder; `todo` is the set of files the
pass has still to look at, taken in that order. `SyncFeed` keeps a live and a trashed row
per path and the log the triggers write, and the client's folder, index and cursor; the
table `conflicts` is the user's list. What is done for one file of a snapshot or of an event
is in `leg` and `now`: `Download` puts the server's content into the folder, `Stat` reads size
and time, `Entered` reads the content and writes the entry, and the user may edit the file
between any two of these. An edit after the size and time were read leaves a stamp that is
not the file's (`stamped`), which the next push notices; one between the download and these
does not, and the entry says of the user's content that it is in sync. A restore to a path
in use is `RestoreReplaces` or `RestoreRenames` followed by `Restore`, with the events the
trigger writes for each. History variables: `overtaken` (the server took other bytes since
the index entry was written), `stray` (changed between the two reads of a snapshot, or told
wrongly by the feed) and `passed` (the path's entry is the folder's own content and not the
server's: its last event was passed over because the user kept the local file, or because the
file was that content already, or the file was edited while it was fetched).

### Library, Shortcuts

`Library`: a path is the sequence of its names, a name a stem with a number, so that
prefixes, "(n)" copies, LIKE's wildcards (`Like`) and letters of two bytes (`Wide`) are
told apart without characters. `torn` are the links whose request was dropped between
the two statements. `Shortcuts`: stars and views are found by path in one statement and
written by row id in a later one, while rows are renamed, trashed and purged.

### Accounts, Setup, Restore, Sessions, AppLock, PreviewCache

Requests of a few statements each, two at a time, with failures and kills. What undoes a
failed creation is a statement of its own (`CreateUndone`, `Undo`) and may fail as well.
`Accounts` remembers in `unseen` the storages that a grant after a deletion's look, or such a
failure, leaves; `Setup` in `mixed`, `crashed` and `left` those that two first bots, a kill or
a removal that failed left; `Restore` in `copy` and `late` what the safety copy of a request
holds, and in `missed` the fixups that failed or were not come to. `Cut` ends a backup or a
restore at any step, by an error, a panic or a client that hangs up, the server running on;
a thread that was encoding or decoding by then may still make a file (`Stray`). `Sessions` has the stores `file`, `mem`, `eng`, `web`
and lets every write to them interleave. `AppLock` truncates before it writes, as
`state.rs` does, lets each of the two fail (`SaveFails`, in both modules: the file stays as it
is by then), and remembers saves that overlapped (`mixed`). In `PreviewCache` a name
leads to a file, and a file that lost its name is still written by who has it open.

### Guests, Imports, Certs, Update

`Guests` counts time down in ticks; `Imports` has the runner, the upload tasks it leaves
behind and every call of the API; `Certs` has each write of each file, with kills that cut
it short, and counts the days a certificate has left; `Update` has each rename of the
swap, and `InodePath` says whether `current_exe()` follows the running file.

## Runs

TLC explores every reachable state of each instance.

| Run | Instance | Shows |
|---|---|---|
| `upload` | a replacing client, one upload at a time, 2 faults, a restart, a deletion; or 2 clients at once, 2 contents under one hash, a fault, an abort, a restart, a deletion; 3 rows, 2 positions | `TypeOK`, `BytesAreTheRows`, `UploadedIsComplete`, `LedgerHasAnOwner`; one upload at a time `OneCopy`, `Progress` |
| `gc` | a copier and a purger at once; or in turn, with a client that hangs up; or that with one message per chat and a restart; replicator, 2 channels, 2 rows | `TypeOK`, `KeptAreReadable` |
| `channels` | 2 administrators, 2 slots, 3 channel ids and chats, one death; 2 overlapping requests, or one and a restart | `TypeOK`, `SlotsAreDistinct`, `StoredStays` |
| `eventually` | fair instances of these three; `SyncFeed`: 2 paths, pages of 2, 2 changes, an edit, a fault; one file under way at a time, in three steps | `EventuallyLands`, `EventuallyCollected`, `QueuedIsReplicated`; `FeedIsFollowed`, `FeedCatchesUp` |
| `purge` | 2 deletions, 2 messages (one Telegram refuses to delete), batches of 1, 2 attempts, 2 faults | `OutboxHolds`, `ImplementsOutbox` |
| `traffic` | 2 uploads of 2 chunks, each larger than the budget, a send of its own, 2 chats, 1 bot, a flood, 2 errors | `GatesHold`, `EveryUploadEnds` |
| `media` | a client, a warmer, one permit each, a cache of 1 chunk, 2 versions, 2 changes, a failure | `CachesHold`, `EveryReadEnds` |
| `client` | 2 files, one always refused, one of a gallery, 2 edits, a fault, a replaced storage | `IndexIsTrue`, `SentOnce`, `EventuallyStored` |
| `records` | `Accounts` 2 users and the superuser, 2 storages, 2 requests; `Setup` 2 storages, bots, chats, requests, room for 2 channels; 2 faults in each; `Library` 22 kinds of request on a file, a folder with a file of that name, and a folder in a folder of its name, 4 requests, 6 rows, a link, a hang-up; `Restore` 2 requests, 2 copies kept, two failures, or one and a second that passes; `Sessions` a loop, a command, and of 2 seconds, 1 fault and 2 commands one less, or two less where a session was stored before; `AppLock`, `PreviewCache` 2 tasks, 3 calls, a kill or a failing write; `Shortcuts` 2 rows, 2 tasks, 3 requests, 3 changes | `CreationIsWhole`, `GrantsHold`, `LinksHold`, `TreeIsKept`, `BackupsAreSafe`, `RestoreIsFaithful`, `ClientStateHolds` |
| `agents` | fair; `Guests` 2 visitors, 3 keys of which 2 are kept; `Imports` 1 job, 2 files, 3 calls, 2 faults; `Certs` 2 addresses, 2 moves, 3 faults; `Update` 2 requests, 2 releases, a fault; `Sessions` | `ThrottleHolds`, `NothingComesBack`, `ItemsAreAccounted`, `ServerIsWhole`, `PinHolds`, `AgentsGoOn`, `EventuallyCovered`, `StaysFresh` |
| `library_wide` | a folder with a letter of two bytes is renamed | violates `MovedWhole` |
| `update_linux` | one update, no fault, `InodePath` | violates `RestartsIntoNew` |

Why the bounds are enough: a race of this code needs two requests, or a request and a
task, and one fault between two statements; every instance has both. Two positions tell a
partial relay from an empty and a complete one; three versions with two hashes tell "same
hash, other size" from "other content". Two rows on the same path and one more let a copy
share, replace and be renamed. Two slots with three ids let a slot be freed and taken
again while a request still holds it. A page of two events, with two changes (a rename is
two events) and a push, makes a pull of more than one page, and an edit lets the folder
and the feed disagree about a path; more edits are the proof's. Three failed
guesses with one free attempt lock a key while another guess is under way; a day of margin
out of three lets a certificate run out if it is not renewed. A path that is a folder's, and
one below it of the same name, let a move stand in its own way. Calls, rows and ids that
nothing tells apart are a SYMMETRY set, in runs without liveness only. The purge's two messages of
which one cannot be deleted let a job end by its attempts and by deletion.

`CHECK_DEADLOCK FALSE` is set in `upload` and `gc`, where finite ids run out, and in
`client`, where a disabled binding has nothing more to do; elsewhere loops go on, or a module says in its own next-state relation that it rests once its bounds
are used up.

Fairness: request, relay and GC tasks are spawned on the runtime and each await ends
(every Telegram call has a timeout), so each task's next step is weakly fair.
`EventuallyLands` also needs a client that keeps offering its file, as the sync client does.
The background loops are spawned under `spawn_supervised`, which restarts them: `Replicate`,
the purge loop, `Runs` of `Imports`, `Certs_!Steps`. A day passes however often a handshake
wakes the renewal task, which is why `Certs_!Day` is strongly fair. Time passes (`Tick`).
In `Traffic` and `Media` only some step of the whole is promised while one is possible, and
in `Traffic` that minutes pass: the work is finite and the gates are queues, so no more is
needed. The lease of the purge elapses again and again, however often the loop turns in
between, hence `SF_vars(RequeueAll)`.
Nothing is assumed of administrators, users, chats, aborts, kills or restarts.

## What does not hold

Two runs contradict the repository (`PROJECT.json` "findings"):

1. `library_wide`: `rewrite_paths` counts the old prefix in bytes and cuts it off in
   characters; below a folder with a non-ASCII name, files lose the beginning of theirs.
2. `update_linux`: on Linux `current_exe()` follows the inode to the renamed and deleted
   old binary; the restart fails and nothing runs the server again.

Properties stated in the modules that TLC refutes. To see one fail, add it to an instance
of its module with two requests and one fault:

- `UploadRelay`. `NotRetiredUnderARelay` (one request replaces): the check that no relay
  runs on the row (files.rs:475) and the transaction are apart; a relay claims the row in
  between and writes chunks of the old version into the new one, so `BytesAreTheRows` and
  `UploadedIsComplete` are for clients that do not replace at once. `ClaimFindsItsRow`: who
  waits for a relay that fails with nothing stored claims a row that is gone; the client has
  to come again. `RelayIsInLedger`: an aborted request drops its guard while its relay goes
  on. `ProgressIsKept` with two requests: chunks are counted and the row purged in two steps.
  `SpoolIsOwned` with an abort: a spool stays on disk until the next start.
- `MessageGC`. `DeletesOnlyUnreferenced`: between the reference check and `deleteMessage` a
  copy may insert replicas it read before; with a picture and two channels, ids of two chats
  are confused as well. `PurgesOnlyTrash`: a file restored after the purge listed it is
  erased. `NothingLeaks`: a row purged between `copyMessage` and `mark_uploaded` leaves its
  message, and a restart loses the list of a GC task. `UploadedHasChunks`: a client that
  hangs up in a copy leaves an uploaded row without chunks.
- `StorageChannels`. `DeadIsDead`: the health loop marks a channel for the chat it had at
  the start of the tick; dead channels are not probed again. `QueuedEverywhere`: an upload
  that listed its channels before another was added, or a restart between the insertion and
  the catch-up. `QueuedIsReplicated` with `Batch = 1`: rows that cannot be copied fill every
  batch; with the real size, 25 such rows stop all others. Without a property: re-pointing
  keeps "uploaded" rows whose ids belong to the old chat; two removals at once can take the
  last active channel; a resumed upload counts a copy on a dead channel as stored.
- `Traffic`. `BacklogIsCapped`: admission is decided before the body is read (files.rs:203).
  Also visible: `storage_manager.rs:39` says "strictly in order", while the chunks of a file
  are sent side by side.
- `AutoUpload`. `QuietIsStored`: a file put back before its hand-over is confirmed is skipped
  as unchanged. `HealedIsStored`: a healed binding keeps the index of the old storage, so its
  files are never sent to the new one.
- `SyncFeed`. `FeedIsTrue`: purging a trashed row reports its path as deleted though another
  file is live there (startup.rs:351; repositories/files.rs:771 says otherwise), and so does a
  restore under a new name (trash.rs:97), whose path changes while another file has the old
  one: a client removes its copy of a file that is live. Excepted by
  `FeedIsFollowed` and `EventuallyInSync`: paths that changed between the two reads of a
  snapshot, or under a restarted bootstrap, or that the feed tells wrongly (`stray`); paths
  whose event was passed over (`passed`): the entry still names the content before, so a file
  that is kept, or was equal, and is then removed or put back before the next push is taken for
  unchanged, and differs from the server until someone writes it again; a file edited between
  its download and the reading of its size, time and content (engine.rs:1267, 1269; 676, 678 in
  a bootstrap), also `passed`: the entry holds the user's content with the file's own stamp, so
  no push looks at it, or one that does finds the same hash (push_one, 1076), no event follows,
  and the edit is never sent; and an upsert event whose file is gone, which stops the pull for
  good (`Blocked`). A pass that fails between a download and its entry leaves an older entry
  beside the downloaded file: the next push takes it for an edit and stores it in the place of
  what the server has by then. A delete event removes a file edited since.
- `Library`. `NeverReplacesItself` (services/files.rs:917 says "cannot replace a file with a
  copy of itself"): what is moved may be in the folder whose path it takes. Restoring one
  trashed file twice with replace purges what was just restored; links are rewritten with
  LIKE, whose `_` and `%` match other names; renaming the file "d" rewrites the links below
  the folder "d/"; the links of a live file go when a trashed row of its path is purged; two
  trashed rows of one path cannot both be restored by folder.
- `Shortcuts` excepts (`swept`) stars of trashed or replaced rows, which are un-starred by
  path; the trim counts trashed rows in whole seconds, so a list may be short of its limit.
- `Sessions` excepts refreshes under way when tokens are revoked, tokens of the revocation's
  own second, a database failure that is answered 401, and a kill or a failing write while
  `server.json` is empty: `write_private` truncates first, its callers log or ignore the error
  (state.rs:1574), and the session is gone with the next start. A refresh under way writes the
  old session back after a disconnect.
- `AppLock` excepts saves that overlap and saves killed or failing between the truncation and
  the end of the write (`loose`; commands.rs:180 and 1198 drop the error): the file then reads
  as the defaults, without a lock, for anyone; `export_logs` overwrites a PIN set meanwhile. `PreviewCache`
  excepts two puts of one preview, which share a file and may mix; a put that fails evicts
  nothing, and a lowered limit waits for the next put.
- `Accounts` excepts (`unseen`) a grant between the look and the purge: the storage goes; and
  a creation whose grant or channels are refused and whose removal is refused as well
  (storages.rs:152, 171 drop the error): the storage stays, with nobody who administers it
  until the next start gives it to the superuser.
- `Setup` excepts (`left`) a storage whose removal after a failed Finish is itself refused
  (setup.rs:259 logs it): it stays half made, and its chats taken. `FinishedStays`: of two Finishes at once the failing one deletes the other's
  storage. A kill between two channels is a dead end for the retry; two first bots race.
- `Imports`. `RetryRuns`: a retry between the last look for items and the end of the job
  leaves its items pending in a finished job. The model lets every `finish_item` be written
  (the code ignores its failure), restarts process and loop together, and lets a paused job
  finish the file in hand, as the code does.
- `Certs`. `MoveReissues` (public_ip.rs:62): the task is woken for a new address and looks
  at the days left only. A file cut short by a kill stops every later start, though
  acme.rs:340 says a key that cannot be parsed is replaced; a certificate stored without its
  key is not loaded until the next renewal; without address and certificate the server does
  not start, though main.rs:106 logs a self-signed identity.
- `Update` excepts (`torn`) two swaps at once, which nothing prevents, and a kill, or a
  binary that cannot be moved aside, between two renames. A roll-back is assumed to succeed.
- `Restore` excepts a restore that ends between COMMIT and `create_superuser` while the server
  runs on (`missed`): its client hangs up (the restore is awaited in the request,
  routers/settings.rs:255), or `init_db` or `create_superuser` panics (startup.rs:32, 783, 789);
  the database is then another instance's, without this operator, until the next start. A
  failure of `delete_orphan_storage_workers` is only logged. A file that the thread of a dropped
  request makes after its guard is gone stays until the next start (`Stray`). Also excepted:
  writes between the safety copy and BEGIN IMMEDIATE, and two safety copies of one second, of
  which the later one takes the earlier away, also when it then fails; a copy may be pruned while
  its restore waits, and newer ones have to do. Sessions survive a restore though backup.rs:184 logs that they do not; a
  restore emits no events; safety copies are not scrubbed.
- `Media` excepts archives of clients that hang up, entries an eviction had already listed
  (media_cache.rs:120), and pictures that a backfill or a deletion of a folder leaves at an
  old path.
- The uplink governor (`uplink.rs`) is built and never asked: it has no effect to model.

## Proofs

`tlapm` checks every proof, for every value of the constants that satisfies the named
`ASSUME` of the module, which TLC checks of the values the runs use. The assumptions ask for
numbers where numbers are counted, a page, a batch and a number of attempts of at least
one, and names that are not mistaken for others.

- `UploadRelayProofs`: `TypeCorrect`; `LedgerOwned` (`LedgerHasAnOwner` is inductive with
  the types, with any number of replacing requests); `BytesMatch` and `UploadedComplete`
  when `Replacers = {}`. These two rest on `IntegrityInv`: whoever holds a row offers the
  row's version (`HeldRowsMatch`), a relay that skips a position skips a stored one
  (`RelaysCover`), and an id without a row has no chunks (`NoChunkWithoutRow`). With
  replacing requests at once they are false, hence the assumption; with `OneAtATime` (one
  upload under way, none aborted) they hold of replacing ones too: `WholeInTurn`, through
  `SerialInv`, in which a relay runs only while its request waits for it and holds its row.
  On the same invariant no path has two live rows (`NeverTwoCopies`, `OneCopyAlways`), and no
  chunk is lost (`StoredChunksStay`, `ProgressAlways`), the latter where no two versions have
  one hash (`DistinctHashes`): a resume by hash takes over the row of the other size.
- `MessageGCProofs`: `TypeCorrect`; `KeptFilesAreReadable` when `Pictures = {}`, through
  `KeptInv`: ids not given out are nowhere, the replicator's new message is named by
  nobody, a clone is empty until its one copier fills it with what its source still has,
  and no kept file names a message some GC task has decided to delete. The last one is
  the point: `DeletesOnlyUnreferenced` is false, and `kept` is exactly what survives.
- `RecordsProofs`, about `StorageChannels` and about `RecordsSpec` of `MCRecords`. Channels:
  `TypeCorrect`, which needs that the lowest of a non-empty set of slots exists (well-foundedness of the naturals); `ChannelsAreDistinct`; and
  `StoredCopiesStay`, an action property from `RowsInv`: a chunk with any row is
  recorded, rows still in the batch or in hand are not stored, and the row in hand is no
  longer in the batch. Without it `mark_failed` on a row listed long before could demote
  a stored copy; it cannot, because the only insertion of a stored row needs a chunk that
  is not recorded yet. Accounts: `GrantsAlwaysHold` through `AccountsHold`. Past its start a
  request works on a storage whose id is taken (`StoragesInUse`), so a storage that is being
  made is on nobody's list and given to nobody (`NewIsUntouched`); the superuser administers
  every storage but one that is being made or was left half made (`RootSees`); who is about to
  write a row passed the guard, or the row changed after it (`AdminIsKept`); and a storage
  that goes with a user is that user's alone, or was given away after the look
  (`OrphansHold`). Set-up: `CreationStaysWhole` through `SetupHolds`, and `RootSees` for the
  accounts. A storage is reported as set up or the Finish that made it is still running
  (`FinishHolds`); where no two requests worked on a storage together, one works on it
  (`WorksAlone`), what that one has seen of bots and channels is still so (`KnowsItsBot`), and
  the storage has at most one bot, under which its chats were linked (`OneBot`). A removal that
  fails leaves the storage to `left`, and its request holds nothing any more (`HandHolds`). That no
  storage gets more chats than it has positions (`OneMoreChannel`) rests on the schema
  (startup.rs:146, the CHECK and the UNIQUE of a position), whose refusal undoes a
  Finish. Backup and restore: `BackupsStaySafe` and `RestoreStaysFaithful` through
  `RestoreHolds`: the lock is whose restore is under way, and what it commits is the archive
  with the triggers put back (`LockAgrees`); what a commit leaves to be put right, its request
  puts right, or it is `missed`, or the next start does it (`FixupsCome`); what is encoded was scrubbed
  (`SecretsStay`); and while a restore can still commit, its safety copy is there or was
  pruned for enough newer ones, and the own and all newer copies have what the commit wipes
  (`CopiesHold`). The proof found the second case of `WipedIsCopied`: the copy is written
  before the lock is held, so a restore that waits while `SAFETY_COPIES_KEPT` others make
  theirs finds its own pruned. Newer ones then have what it wipes: all that are kept, but for
  the one of the current second, which a copy that fails takes away. So the invariant counts
  the copies of seconds that are over (`Between`, `Enough`), which pruning (`PruneKeeps`) and a
  failing copy (`MoreIsEnough`) leave, and asks that at least two are kept; the code keeps three
  (backup.rs:58). Two requests, the run's bound, do not get there.

- `StoragePurgeProofs`: `TypeCorrect`; `OutboxHoldsAlways` through `PurgeInv`: a request's list
  is of the storage it deletes, it writes one job per storage, a row belongs to a job, open or
  completed, and the loop holds rows in progress only, so that what it marks done is gone
  (`HandIsInProgress`); and `RefinesOutbox`, that every step is one of `Outbox` or a stutter
  under the mapping of `ImplementsOutbox`, which leaves only the fairness of that property to
  TLC. No storage is named like a step of a request: both are kept in `req`.
- `AgentsProofs`, about `MCSpec` of `MCAgents`, one part after the other. Imports:
  `ItemsAlwaysAccounted` through `ImportsInv`. Two uploads never hold one file (`OneHolder`)
  because a claim needs a pending row and every way back to pending goes through the one who
  holds it; a file in progress has a holder (`SomeHolder`) until the process ends; a folder
  that is still to be listed is on the runner's list (`ListingHolds`), so the job that is
  closed was listed to its end (`DoneHolds`). What is under way when a job is paused or
  cancelled does not set it going again (`StoppedJobsStay`). Guesses: `GuessesStayBounded`
  through `GuestsInv`: the wrong guesses of a record and the visitors who passed its check
  together stay below the lock plus the number of visitors (`InsideIsBounded`), and the map of
  records below its limit (`MapIsBounded`); with `StoppedJobsStay`, `EndedIsEnded`. Certificates: `PinStays` through
  `CertsInv`: the files, the task's copy of them and the acceptor agree on key and certificate
  but for the write that is under way (`FilesAgree`, `UnderWay`, `ServedAgrees`), and a
  certificate of the CA that is served has days left unless issuing failed or was cut short
  (`InTime`). Update: the
  release that is staged is the one that was asked for (`OneRelease`), and at each rename of the
  swap the old or the new pair is complete (`SwapHolds`); with `CertsInv`, `ServerStaysWhole`,
  for either value of `InodePath`.
- `AutoUploadProofs`: `IndexAlwaysTrue` and the action property `NothingIsSentTwice`, through
  `IndexInv`: stamps and bindings are not ahead of their time (`Stamps`), the transfers are
  those of the files still to do and of the current one (`Queued`), an entry with the file's
  stamp holds its content (`EntryIsFile`), what was hashed is the file unless its stamp moved on
  (`ReadIsFile`), what the preflight said of the row is still so (`RemoteIsRow`), and an entry
  of the account's storage is what the server has (`EntryIsStored`).
- `SyncFeedProofs`: `FeedAlwaysFollowed` through `FeedInv`. The last event of a path says what
  the server has (`LastTells`), the page is what follows the pull's cursor (`PageIsLog`), what
  the bootstrap has still to do is as its snapshot says (`SnapshotTells`), and behind the
  position a pass has reached every path without a later event has its entry equal to the
  server's row (`Caught`). A pass that fails falls back to an earlier position, where less is
  owed. This proof found `passed`: without it the invariant is not inductive, and TLC
  shows the run that breaks it (see "What does not hold").
- `MediaProofs`: `CachesAlwaysHold` through `MediaInv`. A task that is under way knows the row it
  read: its row, documents and chunks are of the file at the path, or the change that took
  that version away has counted it among the ones let be (`Knows`); the row an upload takes
  is a new one (`RowsAreSound`); with no invalidation to come the two cached pictures, the
  stored ones and what a backfill will store are of the path (`PicturesAreFine`); a chunk in
  somebody's hand is young and on no list of an eviction (`HandedOut`); and an archive belongs
  to a task that reads its chunks (`ZipsAreHeld`), which holds no flight of a picture
  (`HeldByReaders`). The steps of a reader are taken one action at a time, first what they
  make of the task (`ReaderMoves`), then what they touch of the rest.

Only model-checked: all liveness properties, which are beyond this prover, among them the
temporal part of the refinement of `Outbox`; `GatesHold` of `traffic`, which sums up the
uploads under way with a fold, so that what it says of a step needs induction over the set;
and of the run `records` what is said of `Library`, `Shortcuts`, `Sessions`, `AppLock` and
`PreviewCache` (`LinksHold`, `TreeIsKept`, `ClientStateHolds`).

## Not modelled

- Settings and configuration: values read at start or on demand; where one matters (the
  number of replicas, the batch of a pass, the spool budget) it is a constant of a model.
- Migrations: each runs once on a database nobody else has open. The schema's keys,
  cascades and triggers, and the clean-up at start, are in the models.
- Supervision: its back-off is time only; it is the reason the loops are fair.
- HTTP, the proxy and the pinned certificate check of the clients; windows, tray and
  platform services; the client's own updater.
- The web interface: rendering, and a queue in one page without persistence.
- Scripts, containers and end-to-end tests.
- The removal of a file that fails (scratch files, spools), and what a failing VACUUM INTO
  leaves of a safety copy.
- What each model leaves out of its component is in `PROJECT.json` "components".

## Further hazards

Beside those in `PROJECT.json`, with the property that would catch each, or why none does:

- `services/files.rs:417` The resume decision uses the row as read before a wait of up to
  90 seconds. (`BytesAreTheRows`.) That a waiter finds its row again (ClaimFindsItsRow)
  does not hold; the bytes are safe all the same.
- `services/files.rs:134` A ledger entry that is not removed makes every later upload to
  the path wait and fail, and holds spool budget for good. (`LedgerHasAnOwner`,
  `EventuallyLands`.)
- `services/files.rs:455` A sequence of failed, resumed and replacing uploads that ends
  with a second copy of the file beside it. (`OneCopy`.)
- `services/trash.rs:118` A purge works on ids read before; the rows may have been
  restored, purged by another request, or their replicas extended since.
  (`KeptAreReadable`.) That a row restored in between is not erased (PurgesOnlyTrash) does
  not hold.
- `services/replication.rs:94` The replicator sends a message before the row names it: a
  purge that runs in between neither lists nor deletes it. (`KeptAreReadable`.) The
  message itself may stay behind (NothingLeaks does not hold).
- `repositories/files.rs:634` Message ids are counted per chat, a thumbnail's chat is not
  stored: ids of different chats may coincide. DeletesOnlyUnreferenced with a picture and
  two channels does not hold.
- `services/files.rs:940` A copy is four statements: a client that hangs up or a purge in
  between leaves the first ones done. UploadedHasChunks does not hold.
- `services/trash.rs:216` The list of messages to delete lives in a spawned task only: a
  restart, or a failed deletion, leaves them in the chat for good. Best effort by its doc
  (trash.rs:169): no property of the code is violated, NothingLeaks and
  EventuallyCollected are stated for runs without a restart.
- `services/trash.rs:92` A restore that replaces purges the live file and then restores:
  when the trashed row was purged by another request in between, both are gone. No text of
  the repository promises otherwise; the model has the behaviour (RestoreStops after
  PurgeErase).
- `services/channel_health.rs:71` A channel is marked dead for a chat read at the start of
  the tick; a request may have re-pointed the channel since. DeadIsDead does not hold.
- `services/replication.rs:111` copyMessage fails when either chat refuses the bot and the
  error names neither: the target is marked dead also when the source's chat is the one
  that is gone. DeadIsDead does not hold.
- `services/replication.rs:110` mark_failed writes a row listed a whole batch earlier,
  whatever its status is by then. (`StoredStays`.)
- `services/channel_health.rs:25` The rotation wraps around the slots: it must end on a
  slot of the storage whichever channels were removed or died meanwhile. (`TypeOK`.)
- `services/storage_manager.rs:154` An upload queues copies on the channels it listed at
  its start; a channel added meanwhile has listed the chunks before this one was recorded.
  QueuedEverywhere does not hold.
- `services/storages.rs:542` Two requests that remove different channels both count two
  active ones and leave the storage with none. The model has the behaviour; uploads then
  fail with NoActiveChannel until a channel is added, and no stored file changes.
- `services/storages.rs:485` A restart between the insertion of a channel and its catch-up
  leaves it without rows for the chunks that are there, and nothing queues them later.
  Same property as for a late channel, QueuedEverywhere, which does not hold.
- `services/storages.rs:509` Re-pointing a channel keeps its uploaded rows, whose message
  ids belong to the old chat, and the catch-up skips them: reads and the message GC then
  use those ids in the new chat. No text of the repository says what re-pointing means for
  the copies of the old chat; the model keeps the chat of every message (sentTo) and shows
  the rows (JobNotFound).
- `sarca-sync/engine.rs:1076` The index entry still names the content before a hand-over:
  a file that is put back to it before the next pass is skipped as unchanged while the
  server stores, or loses, the version handed over. (`IndexIsTrue`.) That a file left
  alone is stored (QuietIsStored) does not hold once it was put back.
- `sarca-sync/engine.rs:364` A binding repointed to the storage that is left keeps its
  index: files recorded for the old storage are never sent to the new one. The write also
  restores the binding as the pass read it, enabled, if the user disabled it meanwhile.
  HealedIsStored in AutoUpload states it; it does not hold.
- `sarca-sync/engine.rs:888` A batch that stops early holds transfers and temporary copies
  of files it never attempted. (`IndexIsTrue`.)
- `sarca-sync/engine.rs:38` A file the server never takes sits at the head of every scan;
  it must not keep the files behind it from being sent. (`EventuallyStored`.)
- `sarca-sync/engine.rs:338` A binding is disabled, and its transfers dropped, while a
  pass is running. (`IndexIsTrue`.)
- `sarca-sync/engine.rs:640` A bootstrap that fails half way starts over from a newer
  snapshot, with the files and entries of the first attempt on disk. (`FeedIsFollowed`.) A
  file the first attempt fetched and the server then changed or deleted is left behind
  (stray).
- `services/trash.rs:97` A restore under a new name changes the path of the trashed row while
  another file is live at the old one: the trigger reports that path as deleted. FeedIsTrue
  does not hold, and `FeedIsFollowed` excepts the path (stray).
- `sarca-sync/engine.rs:1258` A pass that ends between a download and its entry leaves a newer
  file beside an older entry, and the next push stores it over what came after. Not stated as
  a property: the push compares with the entry only, and the server keeps no version.
- `services/backup.rs:126` The thread that encodes or decodes outlives the request that is
  dropped, and makes its file after the guard removed it. (`BackupsAreSafe`, which excepts it
  until the next start.)
- `startup.rs:351` Trash, upload to the same path, purge: the purge of the old row is
  reported as a deletion of the path. FeedIsTrue does not hold.
- `sarca-sync/engine.rs:1198` A delete event removes a local file that was edited after
  the push of the same pass. Not stated: the code removes the file without comparing it
  with the index, and no text promises otherwise.
- `services/storage_purge.rs:91` Telegram deleted the message and the row cannot be
  updated: the message is asked for again, and the second answer is an error that has to
  count as done. (`ImplementsOutbox`.)
- `services/storage_purge.rs:71` A restart between the claim of a batch and its marks: the
  rows are in progress with nobody working on them. (`ImplementsOutbox`, `OutboxHolds`.)
- `services/users.rs:214` Two requests delete the same storage: both have read the same
  messages and write a job of their own. (`ImplementsOutbox`, `OutboxHolds`.)
- `repositories/storage_purge.rs:47` One INSERT binds three values per message: a storage
  with more than about ten thousand messages exceeds SQLite's limit and cannot be deleted.
  The limit is SQLite's; DeleteFails models the refusal, and no property can tell it from
  a busy database.
- `services/files.rs:219` An upload larger than the whole budget must be let in at some
  time. (`EveryUploadEnds`.)
- `services/storage_manager.rs:291` The first chunk that runs out of attempts ends the
  file and drops the futures of its other chunks, which may be waiting in a gate's line,
  holding permits or sleeping through a flood wait. (`GatesHold`, `TypeOK`.)
- `services/files.rs:203` Admission is decided before the body is read, and the backlog
  counts an upload once it is spooled: uploads that start together are all admitted
  against the same backlog. BacklogIsCapped does not hold by the order of the two.
- `common/media_cache.rs:165` evict_oldest deletes what an earlier listing called old; a
  reader that was handed the entry in between finds no file. (`CachesHold`.) Entries an
  eviction had already listed are excepted: for them the grace does not hold.
- `routers/files.rs:955` An archive under WORK_DIR/zips is removed at the end of the
  stream that sends it, and nothing sweeps the directory. (`CachesHold`.) A client that
  hangs up leaves it for ever: the property names that exception.
- `routers/files.rs:715` A download reads the size of the row and then its chunks; a
  replacement between the two sends the bytes of the new version cut to the old length.
  The model keeps the version a list of chunks belongs to and not the length announced.
- `services/storage_manager.rs:536` A backfill writes its document into the row by id:
  when the content was replaced in between, the old picture becomes the stored one of the
  new version. Backfill models it; the stored picture has no property, since the code does
  not prevent it.
- `services/trash.rs:92` Two requests restore the same file with replace: the second finds
  what the first one restored as the file in its way and purges it. The code does not
  prevent it: a restore does not re-read the trash after it resolved the conflict.
- `repositories/files.rs:940` Deleting the last file of a folder that has no row of its
  own has to leave one, in the same transaction. (`TreeIsKept`.)
- `models/users.rs:40` Tokens and revocations are compared in whole seconds, so a token of
  the revocation's own second survives it. (`ClientStateHolds`.)
- `client/commands.rs:533` A refresh under way when the user disconnects writes the old
  session back over the emptied one. (`ClientStateHolds`.)
- `client/state.rs:1678` server.json is truncated before it is written: a kill, or a write
  that fails, in between is a session lost. (`ClientStateHolds`, which excepts it.)
- `client/state.rs:1595` A failed refresh must be told from a refused one.
  (`ClientStateHolds`.)
- `services/auth.rs:57` A database error on the server is answered as a refused refresh,
  which ends the client's session. The model lets it happen and SessionIsKept excepts it:
  the code does not prevent it.
- `services/storages.rs:142` A creation is four statements with calls to Telegram between
  them; each failure has to undo the ones before. (`CreationIsWhole`.)
- `services/storages.rs:584` The guard reads the target's row before the write: two
  requests of two admins may cross. (`GrantsHold`.)
- `services/shares.rs:260` The cookie outlives the request that set it, and must not
  outlive its link. (`NothingComesBack`.)
- `common/throttle.rs:110` The map of keys is bounded: a new key may push another's record
  out. (`TypeOK`.) That a flood of other keys frees a locked one is what the code does;
  the model has it.
- `services/setup.rs:176` A Finish is sent again after a lost answer: it must find what
  the first one made. (`CreationIsWhole`.) A kill between two channels leaves some of the
  chats linked: the retry finds them neither all its own nor free, and is refused until
  the storage is deleted by hand.
- `services/storages.rs:286` Whether the storage has a bot is asked before the channels
  are dropped and again before the row is written: two first bots both pass the question.
  (`CreationIsWhole`.)
- `services/import/mod.rs:85` Files that were being copied when the server stopped are put
  back; after a panic of the loop alone their uploads still run. (`ItemsAreAccounted`.)
  The restart of the loop without the process is left out: two uploads of one file then
  run at once.
- `services/import/mod.rs:528` A retry of failed files decides on the job as it was before
  the files were put back: when the job ends in between, they wait in a job that is done.
  (`ItemsAreAccounted`.) RetryRuns, that a retry is run, does not hold.
- `services/import/mod.rs:354` A file that fails again and again must be given up, or the
  job would never end. (`AgentsGoOn`.)
- `services/import/mod.rs:335` The end of an upload is written with `let _ =`: a database
  error leaves the file in progress for ever. The code does not prevent it: the model lets
  every finish_item succeed.
- `tls/renew.rs:129` The listeners hold the certificate they were started with until they
  are told. (`ServerIsWhole`.)
- `tls/renew.rs:158` A CA that fails is asked again, and a renewal has to be through
  before the old certificate runs out. (`ServerIsWhole`.)
- `tls/public_ip.rs:84` The task is woken for a new address, but looks only at the days
  that are left on the stored certificate. (`EventuallyCovered`.) MoveReissues, that a
  move re-issues at once, does not hold.
- `services/update.rs:269` Two requests share one staging directory: the second clears
  what the first is unpacking. (`ServerIsWhole`.) Two swaps at once are possible and leave
  a mixture (torn): nothing keeps a second request out.
- `services/backup.rs:459` The triggers must be gone while rows are copied and back when
  the copy is through, on every path. (`RestoreIsFaithful`.)
- `services/backup.rs:345` Whole copies of the database lie in the working directory while
  a request runs: each path has to remove its own. (`BackupsAreSafe`.)
- `services/backup.rs:259` A password of another service must not be in a file that is
  handed around. (`BackupsAreSafe`.) The safety copies keep it.
- `client/state.rs:1665` A kill or a failing write during a save leaves a preference file that
  reads as the defaults, without a lock. (`ClientStateHolds`.) The lock is then open:
  OnlyItsPinOpens is about saves that were neither killed nor failed half-way.
- `client/commands.rs:1196` An export reads the preferences, works, and saves them over
  what a command in between has set. (`ClientStateHolds`.) A PIN set in between is lost
  again: OnlyItsPinOpens is about saves that overlapped nothing.
- `client/commands.rs:1343` Two puts of one preview write the same file beside it.
  (`ClientStateHolds`.) They may mix their bytes: GivenIsWhole is about previews that one
  command put.
- `client/commands.rs:1348` A put that fails before its end evicts nothing.
  (`ClientStateHolds`.)
- `services/favorites.rs:45` A star is added by the id of a row found a statement before,
  which may be purged by then. (`LinksHold`.)
- `repositories/recent_files.rs:103` The trim works on seconds and counts files in the
  trash: what was just viewed may be dropped among the views of one second. (`LinksHold`.)

## Plan

1. Proofs about the stores of a session (`ClientStateHolds`) and the tree (`TreeIsKept`).
2. `UploadRelay` and `MessageGC` on the same rows: a purge while a relay of the row runs.
3. Several bindings of one client on one storage, which share the permits and the feed.
4. Folders in `SyncFeed`.

The order follows what a failure costs: lost content first, then lost updates.
