---------------------------- MODULE UploadRelay ----------------------------
(***************************************************************************)
(* How a spooled upload becomes a stored file (sarca/src/services/files.rs *)
(* and services/storage_manager.rs).  Every upload request offers one       *)
(* version of the file at ONE path; it is decided from rows it read some    *)
(* steps ago whether it is a duplicate, a resume, a new version or a new    *)
(* file; it then claims a row in the relay ledger and hands its spool to    *)
(* the storage manager, whose relay runs on its own: the request may be     *)
(* aborted while the relay goes on.                                         *)
(*                                                                          *)
(* One step is the code between two points where another task can run.     *)
(* Telegram and the other channels are abstracted to "a chunk is accepted   *)
(* or the relay fails"; a chunk row is the version whose bytes it holds.    *)
(***************************************************************************)
EXTENDS Naturals, FiniteSets

CONSTANTS
    Requests,    \* upload requests; a request may be submitted again once over
    Versions,    \* contents a client can offer: a hash with a size
    Hashes,      \* content hashes
    HashOf,      \* the hash the client sends with a version
    VersionOf,   \* the version each request offers
    Replacers,   \* the requests sent with on_conflict=replace
    Rows,        \* ids of rows of table files
    Positions,   \* chunk positions of the file
    NoRow,       \* "no row"
    NoChunk,     \* "no chunk row at this position"
    MaxActive,   \* bound: requests in progress at the same time
    MaxFaults,   \* bound: relays that fail at Telegram
    MaxAborts,   \* bound: requests cut off by their client before "spooled"
    MaxCrashes,  \* bound: restarts of the server
    MaxDeletes   \* bound: deletions by users

ASSUME RelayAssumption ==
    /\ HashOf \in [Versions -> Hashes]
    /\ VersionOf \in [Requests -> Versions]
    /\ Replacers \subseteq Requests
    /\ Versions # {}
    /\ NoRow \notin Rows
    /\ NoChunk \notin Versions
    /\ {MaxActive, MaxFaults, MaxAborts, MaxCrashes, MaxDeletes} \subseteq Nat

VARIABLES
    \* table files, and table file_chunks with its uploaded replica
    rowSt,       \* none (no such row), live or trash (deleted_at is set)
    rowVersion,  \* content_hash and size of the row
    rowName,     \* 0: the path itself; n: "name (n).ext"
    isUploaded,
    chunk,       \* [row -> [position -> version of the stored bytes | NoChunk]]
    \* the process
    ledger,      \* keys of RELAYS_IN_FLIGHT
    spool,       \* requests whose spool file is on disk
    \* the request task of upload_anyway_from_path_with_progress
    pc, file, seen, armed,
    \* the storage manager's relay of that request's spool
    rpc, rfile, todo,
    \* counters of the bounds
    faults, aborts, crashes, deletes

rowVars == <<rowSt, rowVersion, rowName, isUploaded, chunk>>
reqVars == <<pc, file, seen, armed>>
relayVars == <<rpc, rfile, todo>>
boundVars == <<faults, aborts, crashes, deletes>>
vars == <<rowVars, ledger, spool, reqVars, relayVars, boundVars>>

RowStates == {"none", "live", "trash"}
ReqStates == {"idle", "lookup", "sameHash", "wait", "woken", "retry",
              "replaceLookup", "replaceCheck", "replaceTx", "create",
              "claim", "handoff", "relaying", "failed", "purge"}
RelayStates == {"none", "queued", "sending", "stored", "failed"}

(* Points of the request task where an abort can take effect: its awaits. *)
AwaitStates == {"lookup", "wait", "woken", "replaceLookup", "replaceTx",
                "create", "handoff", "relaying", "failed", "purge"}
GuardStates == {"handoff", "relaying", "failed", "purge"}

-----------------------------------------------------------------------------
NoChunks == [p \in Positions |-> NoChunk]
StoredAt(f) == {p \in Positions : chunk[f][p] # NoChunk}
Exists(f) == rowSt[f] # "none"
Complete(f) == StoredAt(f) = Positions
LiveAt(n) == {f \in Rows : rowSt[f] = "live" /\ rowName[f] = n}
RelayRunning(r) == rpc[r] \in {"queued", "sending"}

(* FilesRepository::get_file_by_path for the path all requests name: no row *)
(* or, by the unique index on live paths, one.                             *)
RowAtPath == LiveAt(0)

(* A new id: no row has it and no task remembers it (ids are random and   *)
(* never come back, so an id nobody refers to stands for any new one).     *)
Fresh(f) ==
    /\ ~ Exists(f)
    /\ \A r \in Requests : file[r] # f /\ rfile[r] # f

(* pick_duplicate_path: the path itself, else the first free number. *)
FirstFree(n) ==
    /\ LiveAt(n) = {}
    /\ \A m \in 0 .. (n - 1) : LiveAt(m) # {}

(* resumable(): the row read earlier was unfinished (the caller established *)
(* that) and has the size being offered; hashes are equal already, so this *)
(* is "the same version".                                                  *)
ResumableAnySize(r) == TRUE  \* mutant: the size is not compared
Resumable(r) == seen[r] = VersionOf[r]

Init ==
    /\ rowSt = [f \in Rows |-> "none"]
    /\ rowVersion \in [Rows -> {CHOOSE v \in Versions : TRUE}]
    /\ rowName = [f \in Rows |-> 0]
    /\ isUploaded = [f \in Rows |-> FALSE]
    /\ chunk = [f \in Rows |-> NoChunks]
    /\ ledger = {} /\ spool = {}
    /\ pc = [r \in Requests |-> "idle"]
    /\ file = [r \in Requests |-> NoRow]
    /\ seen = [r \in Requests |-> VersionOf[r]]
    /\ armed = [r \in Requests |-> FALSE]
    /\ rpc = [r \in Requests |-> "none"]
    /\ rfile = [r \in Requests |-> NoRow]
    /\ todo = [r \in Requests |-> {}]
    /\ faults = 0 /\ aborts = 0 /\ crashes = 0 /\ deletes = 0

-----------------------------------------------------------------------------
(* The request task.                                                        *)

Goto(r, label) == pc' = [pc EXCEPT ![r] = label]
AlwaysCreate(r) == Goto(r, "create")  \* mutant: replace is not looked at
ToReplaceOrCreate(r) ==
    Goto(r, IF r \in Replacers THEN "replaceLookup" ELSE "create")

(* The request returns: an error or a short-circuited success removes the  *)
(* spool; the guard, if the task holds one, is dropped.                    *)
Return(r) ==
    /\ Goto(r, "idle")
    /\ file' = [file EXCEPT ![r] = NoRow]
    /\ seen' = [seen EXCEPT ![r] = VersionOf[r]]
    /\ armed' = [armed EXCEPT ![r] = FALSE]
    /\ spool' = spool \ {r}

ReturnWithoutGuard(r) ==
    /\ Return(r)
    /\ UNCHANGED <<ledger, rowVars, relayVars, boundVars>>

Active == {q \in Requests : pc[q] # "idle"}

(* routers/files.rs upload: the body is on disk, the task is spawned.       *)
(* (Rows is a bound too: a request starts while an id is left for it.)      *)
Submit(r) ==
    /\ pc[r] = "idle" /\ rpc[r] = "none"
    /\ Cardinality(Active) < MaxActive
    /\ Cardinality({f \in Rows : Fresh(f)}) > Cardinality(Active)
    /\ Goto(r, "lookup")
    /\ armed' = [armed EXCEPT ![r] = TRUE]
    /\ spool' = spool \cup {r}
    /\ UNCHANGED <<file, seen, ledger, rowVars, relayVars, boundVars>>

(* The first get_file_by_path; what it read stays in the task's hands. *)
SameHash(f, r) == HashOf[rowVersion[f]] = HashOf[VersionOf[r]]
RememberOnlyContent(f, r) ==  \* mutant: the id is not kept
    /\ seen' = [seen EXCEPT ![r] = rowVersion[f]]
    /\ UNCHANGED file
Remember(f, r) ==
    /\ file' = [file EXCEPT ![r] = f]
    /\ seen' = [seen EXCEPT ![r] = rowVersion[f]]

LookupSettled(r) ==
    /\ pc[r] = "lookup"
    /\ \E f \in RowAtPath : SameHash(f, r) /\ isUploaded[f]
    /\ ReturnWithoutGuard(r)

LookupUnfinished(r) ==
    /\ pc[r] = "lookup"
    /\ \E f \in RowAtPath : SameHash(f, r) /\ ~ isUploaded[f] /\ Remember(f, r)
    /\ Goto(r, "sameHash")
    /\ UNCHANGED <<armed, ledger, spool, rowVars, relayVars, boundVars>>

LookupOther(r) ==
    /\ pc[r] = "lookup"
    /\ \A f \in RowAtPath : ~ SameHash(f, r)
    /\ ToReplaceOrCreate(r)
    /\ UNCHANGED <<file, seen, armed, ledger, spool, rowVars, relayVars, boundVars>>

(* relay_in_flight(existing.id) *)
CheckRelay(r) ==
    /\ pc[r] = "sameHash"
    /\ Goto(r, IF file[r] \in ledger THEN "wait" ELSE "retry")
    /\ UNCHANGED <<file, seen, armed, ledger, spool, rowVars, relayVars, boundVars>>

(* The poll of DUPLICATE_RELAY_WAIT, and its 90 s deadline. *)
RelayOver(r) ==
    /\ pc[r] = "wait" /\ file[r] \notin ledger
    /\ Goto(r, "woken")
    /\ UNCHANGED <<file, seen, armed, ledger, spool, rowVars, relayVars, boundVars>>

WaitTimeout(r) == pc[r] = "wait" /\ file[r] \in ledger /\ ReturnWithoutGuard(r)

(* get_by_id once the other relay is over *)
WokenSettled(r) ==
    /\ pc[r] = "woken"
    /\ Exists(file[r]) /\ isUploaded[file[r]]
    /\ ReturnWithoutGuard(r)

WokenRetry(r) ==
    /\ pc[r] = "woken"
    /\ ~ (Exists(file[r]) /\ isUploaded[file[r]])
    /\ Goto(r, "retry")
    /\ UNCHANGED <<file, seen, armed, ledger, spool, rowVars, relayVars, boundVars>>

(* The resume decision, on the row as the first lookup read it. *)
Resume(r) ==
    /\ pc[r] = "retry" /\ Resumable(r)
    /\ Goto(r, "claim")
    /\ UNCHANGED <<file, seen, armed, ledger, spool, rowVars, relayVars, boundVars>>

(* purge_file_ids: hard_delete_ids cascades to the chunks *)
Purged(f) ==
    /\ rowSt' = [rowSt EXCEPT ![f] = "none"]
    /\ chunk' = [chunk EXCEPT ![f] = NoChunks]
    /\ UNCHANGED <<rowVersion, rowName, isUploaded>>

PurgeStale(r) ==
    /\ pc[r] = "retry" /\ ~ Resumable(r)
    /\ Purged(file[r])
    /\ ToReplaceOrCreate(r)
    /\ UNCHANGED <<file, seen, armed, ledger, spool, relayVars, boundVars>>

(* replace: the second lookup, the ledger check, the guarded transaction *)
ReplaceLookup(r) ==
    /\ pc[r] = "replaceLookup"
    /\ \E f \in RowAtPath : Remember(f, r)
    /\ Goto(r, "replaceCheck")
    /\ UNCHANGED <<armed, ledger, spool, rowVars, relayVars, boundVars>>

ReplaceNothing(r) ==
    /\ pc[r] = "replaceLookup" /\ RowAtPath = {}
    /\ Goto(r, "create")
    /\ UNCHANGED <<file, seen, armed, ledger, spool, rowVars, relayVars, boundVars>>

ReplaceRefused(r) ==
    pc[r] = "replaceCheck" /\ file[r] \in ledger /\ ReturnWithoutGuard(r)

ReplaceAllowed(r) ==
    /\ pc[r] = "replaceCheck" /\ file[r] \notin ledger
    /\ Goto(r, "replaceTx")
    /\ UNCHANGED <<file, seen, armed, ledger, spool, rowVars, relayVars, boundVars>>

(* FilesRepository::replace_content *)
StillExpected(r) ==
    rowSt[file[r]] = "live" /\ HashOf[rowVersion[file[r]]] = HashOf[seen[r]]

ReplaceMissed(r) ==
    pc[r] = "replaceTx" /\ ~ StillExpected(r) /\ ReturnWithoutGuard(r)

(* What the transaction leaves in the row and in its retired copy. *)
MoveChunks(f, old) == [chunk EXCEPT ![old] = chunk[f], ![f] = NoChunks]
MoveFlag(f, old) == [isUploaded EXCEPT ![old] = isUploaded[f], ![f] = FALSE]

ReplaceContent(r) ==
    LET f == file[r] IN
    /\ pc[r] = "replaceTx" /\ StillExpected(r)
    /\ IF isUploaded[f] \/ StoredAt(f) # {}
       THEN \E old \in {g \in Rows : Fresh(g)} :
              /\ rowSt' = [rowSt EXCEPT ![old] = "trash"]
              /\ rowVersion' = [rowVersion EXCEPT ![old] = rowVersion[f],
                                                  ![f] = VersionOf[r]]
              /\ isUploaded' = MoveFlag(f, old)
              /\ chunk' = MoveChunks(f, old)
       ELSE /\ rowVersion' = [rowVersion EXCEPT ![f] = VersionOf[r]]
            /\ isUploaded' = [isUploaded EXCEPT ![f] = FALSE]
            /\ UNCHANGED <<rowSt, chunk>>
    /\ Goto(r, "claim")
    /\ UNCHANGED <<rowName, file, seen, armed, ledger, spool, relayVars, boundVars>>

(* FilesRepository::create_file_anyway *)
Create(r) ==
    /\ pc[r] = "create"
    /\ \E f \in {g \in Rows : Fresh(g)}, n \in 0 .. Cardinality(Rows) :
         /\ FirstFree(n)
         /\ rowSt' = [rowSt EXCEPT ![f] = "live"]
         /\ rowVersion' = [rowVersion EXCEPT ![f] = VersionOf[r]]
         /\ rowName' = [rowName EXCEPT ![f] = n]
         /\ isUploaded' = [isUploaded EXCEPT ![f] = FALSE]
         /\ file' = [file EXCEPT ![r] = f]
    /\ Goto(r, "claim")
    /\ UNCHANGED <<chunk, seen, armed, ledger, spool, relayVars, boundVars>>

(* upload_from_path: RelayGuard::new, then the "spooled" event *)
Claim(r) ==
    /\ pc[r] = "claim"
    /\ ledger' = ledger \cup {file[r]}
    /\ Goto(r, "handoff")
    /\ UNCHANGED <<file, seen, armed, spool, rowVars, relayVars, boundVars>>

(* the message enters the storage manager's channel *)
Handoff(r) ==
    /\ pc[r] = "handoff"
    /\ rpc' = [rpc EXCEPT ![r] = "queued"]
    /\ rfile' = [rfile EXCEPT ![r] = file[r]]
    /\ Goto(r, "relaying")
    /\ UNCHANGED <<file, seen, armed, todo, ledger, spool, rowVars, boundVars>>

(* The response stream reads "spooled": a disconnect no longer aborts. *)
SeeSpooled(r) ==
    /\ pc[r] \in GuardStates /\ armed[r]
    /\ armed' = [armed EXCEPT ![r] = FALSE]
    /\ UNCHANGED <<pc, file, seen, ledger, spool, rowVars, relayVars, boundVars>>

RelayForgotten(r) ==
    /\ rpc' = [rpc EXCEPT ![r] = "none"]
    /\ rfile' = [rfile EXCEPT ![r] = NoRow]
    /\ todo' = [todo EXCEPT ![r] = {}]

(* The relay answered Ok: set_as_uploaded (an UPDATE: no row is no error), *)
(* then the guard is dropped.                                              *)
SettleStored(r) ==
    /\ pc[r] = "relaying" /\ rpc[r] = "stored"
    /\ isUploaded' = [isUploaded EXCEPT ![file[r]] = @ \/ Exists(file[r])]
    /\ ledger' = ledger \ {file[r]}
    /\ Return(r)
    /\ RelayForgotten(r)
    /\ UNCHANGED <<rowSt, rowVersion, rowName, chunk, boundVars>>

SettleFailed(r) ==
    /\ pc[r] = "relaying" /\ rpc[r] = "failed"
    /\ Goto(r, "failed")
    /\ RelayForgotten(r)
    /\ UNCHANGED <<file, seen, armed, ledger, spool, rowVars, boundVars>>

(* list_stored_chunk_positions, then purge or keep *)
KeepForResumeLeaking(r) ==  \* mutant: the guard is not dropped
    /\ pc[r] = "failed" /\ StoredAt(file[r]) # {}
    /\ Return(r)
    /\ UNCHANGED <<ledger, rowVars, relayVars, boundVars>>

KeepForResume(r) ==
    /\ pc[r] = "failed" /\ StoredAt(file[r]) # {}
    /\ ledger' = ledger \ {file[r]}
    /\ Return(r)
    /\ UNCHANGED <<rowVars, relayVars, boundVars>>

PurgeAnyway(r) ==  \* mutant: the former behaviour, every failed row is purged
    /\ pc[r] = "failed"
    /\ Goto(r, "purge")
    /\ UNCHANGED <<file, seen, armed, ledger, spool, rowVars, relayVars, boundVars>>

NothingStored(r) ==
    /\ pc[r] = "failed" /\ StoredAt(file[r]) = {}
    /\ Goto(r, "purge")
    /\ UNCHANGED <<file, seen, armed, ledger, spool, rowVars, relayVars, boundVars>>

PurgeEmpty(r) ==
    /\ pc[r] = "purge"
    /\ Purged(file[r])
    /\ ledger' = ledger \ {file[r]}
    /\ Return(r)
    /\ UNCHANGED <<relayVars, boundVars>>

-----------------------------------------------------------------------------
(* The storage manager's relay.                                             *)

RelayFailed(r) ==
    /\ rpc' = [rpc EXCEPT ![r] = "failed"]
    /\ todo' = [todo EXCEPT ![r] = {}]
    /\ spool' = spool \ {r}
    /\ UNCHANGED <<rfile, rowVars, ledger, reqVars>>

(* storages.get_by_file_id, list_stored_chunk_positions, remaining_chunk_plan *)
RelayPlan(r) ==
    /\ rpc[r] = "queued" /\ Exists(rfile[r])
    /\ rpc' = [rpc EXCEPT ![r] = "sending"]
    /\ todo' = [todo EXCEPT ![r] = Positions \ StoredAt(rfile[r])]
    /\ UNCHANGED <<rfile, rowVars, ledger, spool, reqVars, boundVars>>

RelayNoRow(r) ==
    /\ rpc[r] = "queued" /\ ~ Exists(rfile[r])
    /\ RelayFailed(r)
    /\ UNCHANGED boundVars

(* create_chunk_with_replica: one transaction; the foreign key wants the   *)
(* row, the unique index wants the position free.                          *)
RelayChunk(r) ==
    /\ rpc[r] = "sending"
    /\ \E p \in todo[r] :
         /\ Exists(rfile[r]) /\ chunk[rfile[r]][p] = NoChunk
         /\ chunk' = [chunk EXCEPT ![rfile[r]][p] = VersionOf[r]]
         /\ todo' = [todo EXCEPT ![r] = @ \ {p}]
    /\ UNCHANGED <<rowSt, rowVersion, rowName, isUploaded, rpc, rfile, ledger,
                   spool, reqVars, boundVars>>

RelayChunkRefused(r) ==
    /\ rpc[r] = "sending"
    /\ \E p \in todo[r] : ~ Exists(rfile[r]) \/ chunk[rfile[r]][p] # NoChunk
    /\ RelayFailed(r)
    /\ UNCHANGED boundVars

(* Telegram runs out of retries, or no channel is active *)
RelayFault(r) ==
    /\ RelayRunning(r)
    /\ faults < MaxFaults
    /\ faults' = faults + 1
    /\ RelayFailed(r)
    /\ UNCHANGED <<aborts, crashes, deletes>>

(* All chunks are away: insert_batch of pending replicas (a foreign key    *)
(* again), set_as_uploaded, and the spool goes.                            *)
RelayMarkEarly(r) ==  \* mutant: a chunk still to send does not hold it back
    /\ rpc[r] = "sending" /\ Exists(rfile[r])
    /\ rpc' = [rpc EXCEPT ![r] = "stored"]
    /\ isUploaded' = [isUploaded EXCEPT ![rfile[r]] = TRUE]
    /\ spool' = spool \ {r}
    /\ UNCHANGED <<rowSt, rowVersion, rowName, chunk, rfile, todo, ledger,
                   reqVars, boundVars>>

RelayMark(r) ==
    /\ rpc[r] = "sending" /\ todo[r] = {} /\ Exists(rfile[r])
    /\ rpc' = [rpc EXCEPT ![r] = "stored"]
    /\ isUploaded' = [isUploaded EXCEPT ![rfile[r]] = TRUE]
    /\ spool' = spool \ {r}
    /\ UNCHANGED <<rowSt, rowVersion, rowName, chunk, rfile, todo, ledger,
                   reqVars, boundVars>>

RelayMarkRefused(r) ==
    /\ rpc[r] = "sending" /\ todo[r] = {} /\ ~ Exists(rfile[r])
    /\ RelayFailed(r)
    /\ UNCHANGED boundVars

(* A relay whose request was aborted answers nobody. *)
RelayUnheard(r) ==
    /\ rpc[r] \in {"stored", "failed"} /\ pc[r] # "relaying"
    /\ RelayForgotten(r)
    /\ UNCHANGED <<rowVars, ledger, spool, reqVars, boundVars>>

-----------------------------------------------------------------------------
(* Clients, users and the process.                                          *)

(* AbortOnDrop: the client went away before the stream read "spooled".  The *)
(* guard is dropped with the task; a relay already handed over runs on.    *)
(* The spool stays unless the relay owns it.                               *)
Abort(r) ==
    /\ armed[r] /\ pc[r] \in AwaitStates
    /\ aborts < MaxAborts
    /\ aborts' = aborts + 1
    /\ ledger' = IF pc[r] \in GuardStates THEN ledger \ {file[r]} ELSE ledger
    /\ Goto(r, "idle")
    /\ file' = [file EXCEPT ![r] = NoRow]
    /\ seen' = [seen EXCEPT ![r] = VersionOf[r]]
    /\ armed' = [armed EXCEPT ![r] = FALSE]
    /\ UNCHANGED <<spool, rowVars, relayVars, faults, crashes, deletes>>

Delete(f) ==
    /\ rowSt[f] = "live" /\ deletes < MaxDeletes
    /\ deletes' = deletes + 1
    /\ rowSt' = [rowSt EXCEPT ![f] = "trash"]
    /\ UNCHANGED <<rowVersion, rowName, isUploaded, chunk, ledger, spool,
                   reqVars, relayVars, faults, aborts, crashes>>

DeleteForever(f) ==
    /\ rowSt[f] = "trash" /\ deletes < MaxDeletes
    /\ deletes' = deletes + 1
    /\ Purged(f)
    /\ UNCHANGED <<ledger, spool, reqVars, relayVars, faults, aborts, crashes>>

(* The process dies and starts again: purge_interrupted_uploads. *)
Restart ==
    /\ crashes < MaxCrashes
    /\ crashes' = crashes + 1
    /\ rowSt' = [f \in Rows |-> IF rowSt[f] = "live" /\ ~ isUploaded[f]
                                     /\ StoredAt(f) = {}
                                THEN "none" ELSE rowSt[f]]
    /\ ledger' = {} /\ spool' = {}
    /\ pc' = [r \in Requests |-> "idle"]
    /\ file' = [r \in Requests |-> NoRow]
    /\ seen' = [r \in Requests |-> VersionOf[r]]
    /\ armed' = [r \in Requests |-> FALSE]
    /\ rpc' = [r \in Requests |-> "none"]
    /\ rfile' = [r \in Requests |-> NoRow]
    /\ todo' = [r \in Requests |-> {}]
    /\ UNCHANGED <<rowVersion, rowName, isUploaded, chunk, faults, aborts, deletes>>

RequestStep(r) ==
    \/ LookupSettled(r) \/ LookupUnfinished(r) \/ LookupOther(r)
    \/ CheckRelay(r) \/ RelayOver(r) \/ WaitTimeout(r)
    \/ WokenSettled(r) \/ WokenRetry(r) \/ Resume(r) \/ PurgeStale(r)
    \/ ReplaceLookup(r) \/ ReplaceNothing(r) \/ ReplaceRefused(r) \/ ReplaceAllowed(r)
    \/ ReplaceMissed(r) \/ ReplaceContent(r) \/ Create(r)
    \/ Claim(r) \/ Handoff(r) \/ SeeSpooled(r)
    \/ SettleStored(r) \/ SettleFailed(r)
    \/ KeepForResume(r) \/ NothingStored(r) \/ PurgeEmpty(r)

RelayStep(r) ==
    \/ RelayPlan(r) \/ RelayNoRow(r) \/ RelayChunk(r) \/ RelayChunkRefused(r)
    \/ RelayMark(r) \/ RelayMarkRefused(r) \/ RelayUnheard(r)

Next ==
    \/ \E r \in Requests : \/ Submit(r) \/ RequestStep(r) \/ RelayStep(r)
                           \/ RelayFault(r) \/ Abort(r)
    \/ \E f \in Rows : Delete(f) \/ DeleteForever(f)
    \/ Restart

Spec == Init /\ [][Next]_vars

(* Every task the server spawned is scheduled; the client keeps offering   *)
(* the file (a sync client retries until the path holds it).               *)
Fairness ==
    \A r \in Requests : /\ WF_vars(Submit(r))
                        /\ WF_vars(RequestStep(r))
                        /\ WF_vars(RelayStep(r))

FairSpec == Spec /\ Fairness
-----------------------------------------------------------------------------
(* Type invariant.  A request past its lookup names a row id; what it read  *)
(* of that row is in seen.                                                  *)
TypeOK ==
    /\ rowSt \in [Rows -> RowStates]
    /\ rowVersion \in [Rows -> Versions]
    /\ rowName \in [Rows -> Nat]
    /\ isUploaded \in [Rows -> BOOLEAN]
    /\ chunk \in [Rows -> [Positions -> Versions \cup {NoChunk}]]
    /\ ledger \subseteq Rows
    /\ spool \subseteq Requests
    /\ pc \in [Requests -> ReqStates]
    /\ file \in [Requests -> Rows \cup {NoRow}]
    /\ seen \in [Requests -> Versions]
    /\ armed \in [Requests -> BOOLEAN]
    /\ rpc \in [Requests -> RelayStates]
    /\ rfile \in [Requests -> Rows \cup {NoRow}]
    /\ todo \in [Requests -> SUBSET Positions]
    /\ faults \in Nat /\ aborts \in Nat /\ crashes \in Nat /\ deletes \in Nat
    /\ \A r \in Requests :
         /\ pc[r] \notin {"idle", "lookup", "replaceLookup", "create"}
              => file[r] \in Rows
         /\ rpc[r] # "none" => rfile[r] \in Rows

(* Every stored position of a row holds the bytes of the version the row    *)
(* names, whatever attempts and resumes filled it: "position n means the    *)
(* same bytes it meant last time" (upload_anyway_from_path_with_progress).  *)
BytesAreTheRows ==
    \A f \in Rows, p \in Positions :
        Exists(f) /\ chunk[f][p] # NoChunk => chunk[f][p] = rowVersion[f]

(* A row marked uploaded has a stored chunk at every position: downloads    *)
(* and clients that drop their own copy rely on it (set_as_uploaded runs    *)
(* after the last chunk only).                                              *)
UploadedIsComplete ==
    \A f \in Rows : Exists(f) /\ isUploaded[f] => Complete(f)

(* Short of a deletion by a user, a chunk that reached a channel stays      *)
(* recorded, in its row or in the row that retired it: "keep whatever       *)
(* reached a channel" (upload_from_path).                                   *)
KeepsProgress ==
    deletes' = deletes =>
        \A f \in Rows, p \in Positions :
            Exists(f) /\ chunk[f][p] # NoChunk =>
              \E g \in Rows : /\ rowSt'[g] # "none"
                              /\ rowVersion'[g] = rowVersion[f]
                              /\ chunk'[g][p] = chunk[f][p]
ProgressIsKept == [][KeepsProgress]_vars

(* A client that replaces, one upload at a time, never gets a second live   *)
(* copy of its file, whatever fails in between (the "(N)" copies that the   *)
(* comment above the replace branch tells of).                              *)
OneLiveRow == Cardinality({f \in Rows : rowSt[f] = "live"}) <= 1

(* A request waiting for, or claiming, a row never outlives every trace of  *)
(* it unnoticed: the row an attempt claims exists, so "retry the upload     *)
(* below" has something to write to.                                        *)
(* False, and in no run: who waits for a relay that fails with nothing      *)
(* stored claims the row it purged.                                         *)
ClaimFindsItsRow ==
    [][\A r \in Requests :
         pc[r] = "claim" /\ pc'[r] = "handoff" => Exists(file[r])]_vars

(* RelayGuard: "marks file_id as relaying for as long as it is alive"; a    *)
(* relay that runs is one relay_in_flight() answers for.                    *)
(* False, and in no run: the guard of a request whose client hangs up is    *)
(* dropped, and its relay goes on.                                          *)
RelayIsInLedger ==
    \A r \in Requests : RelayRunning(r) /\ Exists(rfile[r]) => rfile[r] \in ledger

(* No entry of the ledger outlives its request: a leaked one would hold off *)
(* every later upload to the path and count against the spool budget for    *)
(* good (RelayGuard's Drop "covers the panic and cancellation paths").      *)
LedgerHasAnOwner ==
    \A f \in ledger : \E r \in Requests : pc[r] \in GuardStates /\ file[r] = f

(* "Its chunks are going into this row right now, so it cannot be retired   *)
(* under it": no step gives another version to a row some relay writes to.  *)
(* False, and in no run: the ledger is read before the transaction, and a   *)
(* relay may claim the row in between.                                      *)
NotRetiredUnderARelay ==
    [][\A r \in Requests :
         RelayRunning(r) /\ Exists(rfile[r]) /\ rowSt'[rfile[r]] # "none"
           => rowVersion'[rfile[r]] = rowVersion[rfile[r]]]_vars

(* A spool on disk belongs to a request or a relay that will remove it.     *)
(* False, and in no run: a request whose client hangs up before the hand-   *)
(* over leaves its spool to the next start.                                 *)
SpoolIsOwned ==
    \A r \in spool : pc[r] # "idle" \/ RelayRunning(r)

(* With finitely many failures a client that keeps offering its file gets   *)
(* it stored: no leftover row, ledger entry or wait holds it off for good.  *)
Landed(v) == \E f \in Rows : rowSt[f] = "live" /\ rowVersion[f] = v
                              /\ isUploaded[f]
EventuallyLands == \A r \in Requests : <>[]Landed(VersionOf[r])

-----------------------------------------------------------------------------
(* The inductive strengthening of BytesAreTheRows and UploadedIsComplete    *)
(* when no request replaces: whoever holds a row offers the row's version,  *)
(* a relay that skips a position skips a stored one, and a row that is gone *)
(* left no chunk behind for its successor.                                  *)
HeldRowsMatch ==
    \A r \in Requests :
      /\ pc[r] \notin {"replaceLookup", "replaceCheck", "replaceTx"}
      /\ pc[r] \in {"sameHash", "wait", "woken", "retry"} /\ Exists(file[r])
           => rowVersion[file[r]] = seen[r]
      /\ pc[r] \in {"claim"} \cup GuardStates /\ Exists(file[r])
           => rowVersion[file[r]] = VersionOf[r]
      /\ RelayRunning(r) /\ Exists(rfile[r]) => rowVersion[rfile[r]] = VersionOf[r]
RelaysCover ==
    \A r \in Requests :
      /\ pc[r] \notin {"idle", "relaying"} => rpc[r] = "none"
      /\ pc[r] = "relaying" => rfile[r] = file[r]
      /\ rpc[r] = "sending" /\ Exists(rfile[r])
           => Positions \ todo[r] \subseteq StoredAt(rfile[r])
      /\ rpc[r] = "stored" /\ Exists(rfile[r]) => Complete(rfile[r])
NoChunkWithoutRow ==
    \A f \in Rows, p \in Positions : ~ Exists(f) => chunk[f][p] = NoChunk
IntegrityInv ==
    /\ TypeOK /\ HeldRowsMatch /\ RelaysCover /\ NoChunkWithoutRow
    /\ BytesAreTheRows /\ UploadedIsComplete
=============================================================================
