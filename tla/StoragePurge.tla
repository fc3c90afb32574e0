---------------------------- MODULE StoragePurge ----------------------------
(***************************************************************************)
(* The deletion of storages and the durable purge of their Telegram         *)
(* messages: services/storages.rs (delete), services/users.rs (the storages *)
(* a deleted user leaves behind), services/storage_purge.rs (the loop) and  *)
(* repositories/storage_purge.rs (the tables).                              *)
(*                                                                          *)
(* A request reads the messages of a storage, and in a later transaction    *)
(* writes a job for them and deletes the storage.  The loop claims pending  *)
(* rows, asks Telegram to delete each message and marks the row.  One step  *)
(* is one transaction or one call of Telegram; every one may fail.          *)
(* The order in which a claim takes rows is left open, and so is the time   *)
(* after which a row in progress counts as abandoned.                       *)
(***************************************************************************)
EXTENDS Integers, FiniteSets

CONSTANTS
    Requests,     \* deletions: DELETE storage, or DELETE user
    Messages,     \* messages that may be posted
    Storages,
    Home,         \* the storage a message is posted for
    Bots,         \* the storages that have a bot
    Stuck,        \* messages Telegram says cannot be deleted
    BatchSize,    \* PURGE_BATCH_SIZE
    MaxAttempts,  \* MAX_ATTEMPTS
    MaxFaults     \* bound: failed calls and transactions, restarts

ASSUME StoragePurgeAssumption ==
    /\ Home \in [Messages -> Storages] /\ Bots \subseteq Storages
    /\ Stuck \subseteq Messages
    /\ {BatchSize, MaxAttempts} \subseteq Nat \ {0}
    /\ MaxFaults \in Nat
    /\ {"idle", "snapshot", "done"} \cap Storages = {}   \* a step of a request, or its storage

VARIABLES
    alive,            \* table storages
    chat, recorded,   \* messages in Telegram; those the tables name
    posted,           \* history: messages ever posted
    missed,           \* history: posted, but not in the list its deletion read
    req, todo, list,  \* requests: their step, storages to delete, messages read
    jobs, closed,     \* table storage_purge_jobs: open and completed ones
    status, attempts, \* table storage_purge_messages
    loop, batch, row, answer, \* the purge loop
    faults

storageVars == <<alive, chat, recorded, posted, missed>>
requestVars == <<req, todo, list>>
tableVars == <<jobs, closed, status, attempts>>
loopVars == <<loop, batch, row, answer>>
vars == <<storageVars, requestVars, tableVars, loopVars, faults>>

Entries == Requests \X Messages
NoRow == <<>>
Unread == {}

Init ==
    /\ alive = Storages /\ chat = {} /\ recorded = {} /\ posted = {} /\ missed = {}
    /\ req = [r \in Requests |-> "idle"] /\ todo = [r \in Requests |-> {}]
    /\ list = [r \in Requests |-> Unread]
    /\ jobs = {} /\ closed = {}
    /\ status = [e \in Entries |-> "none"] /\ attempts = [e \in Entries |-> 0]
    /\ loop = "idle" /\ batch = {} /\ row = NoRow /\ answer = "none"
    /\ faults = 0

Fault == faults < MaxFaults /\ faults' = faults + 1

-----------------------------------------------------------------------------
(* Uploads and replicas: a message is posted, then recorded, unless its     *)
(* storage went meanwhile.  Nobody deletes a message that was not recorded. *)

Post(m) ==
    /\ m \notin posted /\ Home[m] \in alive \cap Bots
    /\ chat' = chat \cup {m} /\ posted' = posted \cup {m}
    /\ UNCHANGED <<alive, recorded, missed, requestVars, tableVars, loopVars, faults>>

RecordMessage(m) ==
    /\ m \in posted \ recorded /\ m \in chat /\ Home[m] \in alive
    /\ recorded' = recorded \cup {m}
    /\ UNCHANGED <<alive, chat, posted, missed, requestVars, tableVars, loopVars, faults>>

-----------------------------------------------------------------------------
(* A request.                                                               *)

(* DELETE storage has one storage; DELETE user has those that would be left *)
(* to nobody, listed once.                                                  *)
Delete(r, S) ==
    /\ req[r] = "idle" /\ S # {} /\ S \subseteq alive
    /\ req' = [req EXCEPT ![r] = "snapshot"] /\ todo' = [todo EXCEPT ![r] = S]
    /\ UNCHANGED <<storageVars, list, tableVars, loopVars, faults>>

MessagesOf(s) == {m \in recorded : Home[m] = s /\ s \in alive}

(* The list of messages, read outside the transaction; without a bot there  *)
(* is nothing to delete them with.                                          *)
Snapshot(r, s) ==
    /\ req[r] = "snapshot" /\ s \in todo[r]
    /\ list' = [list EXCEPT ![r] = IF s \in Bots THEN MessagesOf(s) ELSE {}]
    /\ todo' = [todo EXCEPT ![r] = @ \ {s}]
    /\ req' = [req EXCEPT ![r] = s]
    /\ UNCHANGED <<storageVars, tableVars, loopVars, faults>>

Following(r) == IF todo[r] = {} THEN "done" ELSE "snapshot"

(* The storage and every row under it are deleted.                          *)
DeleteStorageInTx(s, kept) ==
    /\ alive' = alive \ {s}
    /\ recorded' = {m \in recorded : Home[m] # s}
    /\ missed' = missed \cup ({m \in posted : Home[m] = s} \ kept)

\* mutant: the job is written, and the storage deleted in another transaction
EnqueueOnly(r, s) ==
    /\ req[r] = s
    /\ jobs' = IF list[r] = {} THEN jobs ELSE jobs \cup {<<r, s>>}
    /\ status' = [e \in Entries |->
                     IF e[1] = r /\ e[2] \in list[r] THEN "pending" ELSE status[e]]
    /\ req' = [req EXCEPT ![r] = Following(r)] /\ list' = [list EXCEPT ![r] = Unread]
    /\ UNCHANGED <<storageVars, todo, closed, attempts, loopVars, faults>>

(* One transaction: the job with its messages, and the storage gone.        *)
EnqueueAndDelete(r, s) ==
    /\ req[r] = s
    /\ jobs' = IF list[r] = {} THEN jobs ELSE jobs \cup {<<r, s>>}
    /\ status' = [e \in Entries |->
                     IF e[1] = r /\ e[2] \in list[r] THEN "pending" ELSE status[e]]
    /\ DeleteStorageInTx(s, list[r])
    /\ req' = [req EXCEPT ![r] = Following(r)] /\ list' = [list EXCEPT ![r] = Unread]
    /\ UNCHANGED <<chat, posted, todo, closed, attempts, loopVars, faults>>

(* The transaction fails (more messages than one INSERT can bind, a busy    *)
(* database): rolled back, and the request answers with an error.           *)
DeleteFails(r, s) ==
    /\ req[r] = s /\ Fault
    /\ req' = [req EXCEPT ![r] = "done"] /\ todo' = [todo EXCEPT ![r] = {}]
    /\ list' = [list EXCEPT ![r] = Unread]
    /\ UNCHANGED <<storageVars, tableVars, loopVars>>

-----------------------------------------------------------------------------
(* The purge loop.                                                          *)

JobOf(e) == <<e[1], Home[e[2]]>>
Open(e) == status[e] \in {"pending", "in_progress"}
InProgress == {e \in Entries : status[e] = "in_progress"}
Claimable == {e \in Entries : status[e] = "pending" /\ JobOf(e) \in jobs}

(* At most once a minute: rows that are in progress for longer than the     *)
(* lease are pending again.  The lease is compared as text in two formats,  *)
(* so which of them are taken is open, but none is passed over for ever.    *)
Requeue ==
    /\ loop = "idle"
    /\ \E E \in SUBSET InProgress :
           status' = [e \in Entries |-> IF e \in E THEN "pending" ELSE status[e]]
    /\ loop' = "claim"
    /\ UNCHANGED <<storageVars, requestVars, jobs, closed, attempts, batch, row, answer,
                   faults>>

RequeueAll ==
    /\ loop = "idle"
    /\ status' = [e \in Entries |-> IF e \in InProgress THEN "pending" ELSE status[e]]
    /\ loop' = "claim"
    /\ UNCHANGED <<storageVars, requestVars, jobs, closed, attempts, batch, row, answer,
                   faults>>

\* mutant: a row is settled when it is claimed
ClaimAsDone ==
    /\ loop = "claim"
    /\ \E B \in SUBSET Claimable :
           /\ Cardinality(B) = BatchSize \/ (Cardinality(B) < BatchSize /\ B = Claimable)
           /\ status' = [e \in Entries |-> IF e \in B THEN "done" ELSE status[e]]
           /\ attempts' = [e \in Entries |-> IF e \in B THEN attempts[e] + 1 ELSE attempts[e]]
           /\ batch' = B
           /\ loop' = IF B = {} THEN "complete" ELSE "row"
    /\ UNCHANGED <<storageVars, requestVars, jobs, closed, row, answer, faults>>

(* A batch of pending rows of open jobs, each one attempt further.          *)
ClaimPending ==
    /\ loop = "claim"
    /\ \E B \in SUBSET Claimable :
           /\ Cardinality(B) = BatchSize \/ (Cardinality(B) < BatchSize /\ B = Claimable)
           /\ status' = [e \in Entries |-> IF e \in B THEN "in_progress" ELSE status[e]]
           /\ attempts' = [e \in Entries |-> IF e \in B THEN attempts[e] + 1 ELSE attempts[e]]
           /\ batch' = B
           /\ loop' = IF B = {} THEN "complete" ELSE "row"
    /\ UNCHANGED <<storageVars, requestVars, jobs, closed, row, answer, faults>>

NextRow(e) ==
    /\ loop = "row" /\ e \in batch
    /\ batch' = batch \ {e} /\ row' = e /\ loop' = "call"
    /\ UNCHANGED <<storageVars, requestVars, tableVars, answer, faults>>

BatchDone ==
    /\ loop = "row" /\ batch = {}
    /\ loop' = "complete"
    /\ UNCHANGED <<storageVars, requestVars, tableVars, batch, row, answer, faults>>

(* deleteMessage: a message that is gone, or cannot be deleted, is a        *)
(* success.                                                                 *)
DeleteMessageWithToken ==
    /\ loop = "call"
    /\ chat' = IF row[2] \in Stuck THEN chat ELSE chat \ {row[2]}
    /\ answer' = "ok" /\ loop' = "mark"
    /\ UNCHANGED <<alive, recorded, posted, missed, requestVars, tableVars, batch, row, faults>>

(* It failed, or it was done and the answer is lost.                        *)
DeleteMessageFails ==
    /\ loop = "call" /\ Fault
    /\ \E m \in {{}, {row[2]} \ Stuck} : chat' = chat \ m
    /\ answer' = "error" /\ loop' = "mark"
    /\ UNCHANGED <<alive, recorded, posted, missed, requestVars, tableVars, batch, row>>

IsTerminalAttempt(n) == n >= MaxAttempts

MarkAs(st) ==
    /\ loop = "mark"
    /\ status' = [status EXCEPT ![row] = st]
    /\ row' = NoRow /\ answer' = "none" /\ loop' = "row"
    /\ UNCHANGED <<storageVars, requestVars, jobs, closed, attempts, batch, faults>>

MarkDone == answer = "ok" /\ MarkAs("done")
MarkFailed == answer = "error" /\ IsTerminalAttempt(attempts[row]) /\ MarkAs("failed")
MarkRetry == answer = "error" /\ ~IsTerminalAttempt(attempts[row]) /\ MarkAs("pending")

\* mutant: the row of the lost mark is not let go
MarkLostKeepsRow ==
    /\ loop = "mark" /\ Fault
    /\ loop' = "row"
    /\ UNCHANGED <<storageVars, requestVars, tableVars, batch, row, answer>>

(* The row cannot be updated: it stays in progress.                         *)
MarkLost ==
    /\ loop = "mark" /\ Fault
    /\ row' = NoRow /\ answer' = "none" /\ loop' = "row"
    /\ UNCHANGED <<storageVars, requestVars, tableVars, batch>>

\* mutant: rows in progress do not keep a job open
DrainedOfPending(j) ==
    \A e \in Entries : JobOf(e) = j => status[e] # "pending"

Drained(j) == \A e \in Entries : JobOf(e) = j => ~Open(e)

(* Jobs without open rows are completed; the loop then sleeps.              *)
TryCompleteJobs ==
    /\ loop = "complete"
    /\ jobs' = {j \in jobs : ~Drained(j)} /\ closed' = closed \cup {j \in jobs : Drained(j)}
    /\ loop' = "idle"
    /\ UNCHANGED <<storageVars, requestVars, status, attempts, batch, row, answer, faults>>

(* A claim or a completion the database refuses: the tick ends.             *)
TickFails ==
    /\ loop \in {"claim", "complete"} /\ Fault
    /\ loop' = "idle"
    /\ UNCHANGED <<storageVars, requestVars, tableVars, batch, row, answer>>

(* Requests and the loop's batch are lost; the tables stay.                 *)
Restart ==
    /\ Fault
    /\ req' = [r \in Requests |-> IF req[r] = "idle" THEN "idle" ELSE "done"]
    /\ todo' = [r \in Requests |-> {}] /\ list' = [r \in Requests |-> Unread]
    /\ loop' = "idle" /\ batch' = {} /\ row' = NoRow /\ answer' = "none"
    /\ UNCHANGED <<storageVars, tableVars>>

Loop ==
    \/ RequeueAll \/ ClaimPending \/ BatchDone \/ DeleteMessageWithToken
    \/ MarkDone \/ MarkFailed \/ MarkRetry \/ TryCompleteJobs
    \/ \E e \in Entries : NextRow(e)

Next ==
    \/ \E m \in Messages : Post(m) \/ RecordMessage(m)
    \/ \E r \in Requests, S \in SUBSET Storages : Delete(r, S)
    \/ \E r \in Requests, s \in Storages :
           Snapshot(r, s) \/ EnqueueAndDelete(r, s) \/ DeleteFails(r, s)
    \/ Loop \/ Requeue \/ DeleteMessageFails \/ MarkLost \/ TickFails \/ Restart

Spec == Init /\ [][Next]_vars

(* The loop is supervised and sleeps for a bounded time; a row in progress  *)
(* is taken back in the end, so a whole requeue happens now and then.       *)
FairSpec == Spec /\ WF_vars(Loop) /\ SF_vars(RequeueAll)

-----------------------------------------------------------------------------
Statuses == {"none", "pending", "in_progress", "done", "failed"}

(* Every variable stays in its range; the loop holds a row from the call to *)
(* its mark.                                                                *)
TypeOK ==
    /\ alive \subseteq Storages
    /\ recorded \subseteq posted /\ chat \subseteq posted /\ posted \subseteq Messages
    /\ missed \subseteq Messages
    /\ req \in [Requests -> {"idle", "snapshot", "done"} \cup Storages]
    /\ todo \in [Requests -> SUBSET Storages] /\ list \in [Requests -> SUBSET Messages]
    /\ jobs \subseteq Requests \X Storages /\ closed \subseteq Requests \X Storages
    /\ status \in [Entries -> Statuses] /\ attempts \in [Entries -> Nat]
    /\ loop \in {"idle", "claim", "row", "call", "mark", "complete"}
    /\ batch \subseteq Entries /\ row \in Entries \cup {NoRow}
    /\ answer \in {"none", "ok", "error"} /\ faults \in 0 .. MaxFaults
    /\ row # NoRow <=> loop \in {"call", "mark"}

Owed == {e \in Entries : Open(e)}
Settled == {e \in Entries : status[e] \in {"done", "failed"}}

Abstract == INSTANCE Outbox
    WITH Jobs <- Requests, MaxTries <- MaxAttempts, dropped <- Storages \ alive,
         owed <- Owed, settled <- Settled, tries <- attempts

(* The tables and the loop implement the outbox: a storage's messages are   *)
(* owed from the transaction that drops it, only owed ones are deleted, and *)
(* each is settled in the end, after lost answers, failed marks and         *)
(* restarts (services/storage_purge.rs run_once).                           *)
ImplementsOutbox == Abstract!Promise

(* A message of a deleted storage that is still in Telegram is owed, was    *)
(* given up, cannot be deleted, or was not in the tables when the deletion  *)
(* read them (snapshot_storage_telegram_purge).                             *)
NothingForgotten ==
    \A m \in chat : Home[m] \notin alive =>
        \/ \E r \in Requests : status[<<r, m>>] \in {"pending", "in_progress", "failed"}
        \/ m \in Stuck \cup missed

(* A completed job has nothing left to delete: its rows are never claimed   *)
(* again (claim_pending looks at open jobs only).                           *)
ClosedIsDrained == \A j \in closed : Drained(j)

(* The tables of the outbox: nothing of a deleted storage is forgotten, and *)
(* a job that is closed has nothing left.                                   *)
OutboxHolds == TypeOK /\ NothingForgotten /\ ClosedIsDrained
=============================================================================
