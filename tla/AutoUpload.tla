----------------------------- MODULE AutoUpload -----------------------------
(***************************************************************************)
(* The upload side of the sync engine (crates/sarca-sync: engine.rs, api.rs,*)
(* index.rs, transfer.rs, scheduler.rs) for one upload-only binding: a pass *)
(* lists the folder, offers every file whose stamp differs from its index   *)
(* entry, one at a time, and records what the server confirmed.  Its        *)
(* counterpart is the server as the client sees it: a row per path that is  *)
(* relayed to Telegram after the bytes were taken, and a storage that may   *)
(* be deleted and created anew.                                             *)
(*                                                                          *)
(* One step is one request, one index transaction or one read of the disk.  *)
(* A content is a version; its hash is the version itself.  A stamp stands  *)
(* for size and mtime and changes with every edit.  Time is counted in      *)
(* passes: a deadline is the number of passes a file still sits out.        *)
(***************************************************************************)
EXTENDS Integers, Sequences, FiniteSets

CONSTANTS
    Scan,        \* the files of the folder, each with its place in the order of the walk
    Versions,    \* contents, positive numbers; 0 stands for none
    SizeOf,      \* their sizes
    Refused,     \* the files the server never takes
    UriOnly,     \* gallery items, read through a temporary copy
    Ladder,      \* UPLOAD_BACKOFF_MS, in passes
    MaxInARow,   \* MAX_CONSECUTIVE_UPLOAD_FAILURES
    MaxEdits,    \* bound: changes of the folder
    MaxFaults,   \* bound: lost links, busy answers, failed relays, restarts
    MaxMoves     \* bound: storages deleted and created anew

Files == DOMAIN Scan
Contents == Versions \cup {0}

NoFile == "no file"

(* The sizes, the ladder and the bounds are numbers.                        *)
AutoUploadConstants ==
    /\ Versions \subseteq Nat \ {0} /\ SizeOf \in [Contents -> Nat]
    /\ Ladder \in Seq(Nat) /\ Ladder # <<>>
    /\ MaxEdits \in Nat /\ MaxFaults \in Nat /\ MaxMoves \in Nat

ASSUME AutoUploadAssumption == AutoUploadConstants

VARIABLES
    disk, stamp,            \* the folder: content (0: no such file) and stamp
    idx, idxStamp,          \* table entries: content hash (0: no entry), stamp
    idxIn,                  \* history: the storage the entry was written for
    overtaken,              \* history: the server took other bytes since then
    fails, wait,            \* table upload_failures: count and deadline
    enabled, bound,         \* table bindings: the switch and the storage
    waiting, active,        \* the transfer queue
    pc, todo, seen, sizes,  \* the pass: its step, files to offer, stamps and sizes
    cur, known, remote, hash, copy, \* push_one: file, entry, preflight, hash, copy
    blind,                  \* history: the preflight failed
    inARow, error,          \* consecutive failures; is there a first_error
    row, label, bytes,      \* the server's row of each path: state, hash, content
    storage,                \* the storage the account has
    edits, faults, moves

folderVars == <<disk, stamp, edits>>
indexVars == <<idx, idxStamp, idxIn, overtaken>>
ladderVars == <<fails, wait>>
bindingVars == <<enabled, bound>>
queueVars == <<waiting, active>>
fileVars == <<cur, known, remote, hash, copy, blind>>
passVars == <<todo, seen, sizes, inARow, error>>
serverVars == <<row, label, bytes, storage, moves>>
vars == <<folderVars, indexVars, ladderVars, bindingVars, queueVars, pc, fileVars,
          passVars, serverVars, faults>>

RowStates == {"none", "relaying", "dead", "stored"}
NoRemote == [st |-> "none", label |-> 0, size |-> 0]
Steps == {"idle", "list", "next", "preflight", "read", "hash", "compare", "send",
          "drain", "heal"}

Init ==
    /\ \E v \in Versions : disk = [f \in Files |-> v]
    /\ stamp = [f \in Files |-> 1]
    /\ idx = [f \in Files |-> 0] /\ idxStamp = [f \in Files |-> 0]
    /\ idxIn = [f \in Files |-> 0] /\ overtaken = [f \in Files |-> FALSE]
    /\ fails = [f \in Files |-> 0] /\ wait = [f \in Files |-> 0]
    /\ enabled = TRUE /\ bound = 1
    /\ waiting = {} /\ active = {}
    /\ pc = "idle" /\ todo = {} /\ seen = [f \in Files |-> 0]
    /\ sizes = [f \in Files |-> 0]
    /\ cur = NoFile /\ known = 0 /\ remote = NoRemote /\ hash = 0 /\ copy = 0
    /\ blind = FALSE /\ inARow = 0 /\ error = FALSE
    /\ row = [f \in Files |-> "none"] /\ label = [f \in Files |-> 0]
    /\ bytes = [f \in Files |-> 0] /\ storage = 1
    /\ edits = 0 /\ faults = 0 /\ moves = 0

Fault == faults < MaxFaults /\ faults' = faults + 1

(* The transfer queue, one entry per path.                                  *)
EnqueueWaiting(fs) == waiting' = waiting \cup fs /\ active' = active \ fs
Promote(f) == waiting' = waiting \ {f} /\ active' = active \cup {f}
ClearBinding == waiting' = {} /\ active' = {}

-----------------------------------------------------------------------------
(* A pass.                                                                  *)

\* mutant: deadlines that have passed go on counting
TickBelowZero ==
    /\ pc = "idle" /\ enabled
    /\ pc' = "list"
    /\ wait' = [f \in Files |-> wait[f] - 1]
    /\ UNCHANGED <<folderVars, indexVars, fails, bindingVars, queueVars, fileVars,
                   passVars, serverVars, faults>>

(* The scheduler takes the pass unless one of this binding is in flight;    *)
(* the time since the last pass brings the deadlines nearer.                *)
Tick ==
    /\ pc = "idle" /\ enabled
    /\ pc' = "list"
    /\ wait' = [f \in Files |-> IF wait[f] = 0 THEN 0 ELSE wait[f] - 1]
    /\ UNCHANGED <<folderVars, indexVars, fails, bindingVars, queueVars, fileVars,
                   passVars, serverVars, faults>>

\* mutant: the backoff is not looked at
PendingAlways(f) == disk[f] # 0 /\ (idx[f] = 0 \/ idxStamp[f] # stamp[f])

(* A file of the folder is offered when its entry is missing or has another *)
(* stamp, and its deadline has passed.                                      *)
Pending(f) ==
    /\ disk[f] # 0
    /\ idx[f] = 0 \/ idxStamp[f] # stamp[f]
    /\ wait[f] = 0

(* The scan, with the stamps it saw; every pending file becomes a waiting   *)
(* transfer, replacing an active one of its path.                           *)
List ==
    /\ pc = "list"
    /\ todo' = {f \in Files : Pending(f)}
    /\ seen' = stamp /\ sizes' = [f \in Files |-> SizeOf[disk[f]]]
    /\ EnqueueWaiting(todo')
    /\ inARow' = 0 /\ error' = FALSE
    /\ pc' = "next"
    /\ UNCHANGED <<folderVars, indexVars, ladderVars, bindingVars, fileVars,
                   serverVars, faults>>

(* The next candidate: its entry is read and its transfer becomes active,   *)
(* anew if the queue was cleared meanwhile.                                 *)
NextFile ==
    /\ pc = "next"
    /\ \E f \in todo :
           /\ \A g \in todo : Scan[f] =< Scan[g]
           /\ cur' = f /\ todo' = todo \ {f}
    /\ known' = idx[cur']
    /\ Promote(cur')
    /\ remote' = NoRemote /\ hash' = 0 /\ copy' = 0 /\ blind' = FALSE
    /\ pc' = "preflight"
    /\ UNCHANGED <<folderVars, indexVars, ladderVars, bindingVars, seen, sizes, inARow, error,
                   serverVars, faults>>

(* The batch is over: a pass with an error looks at the storages.           *)
BatchDone ==
    /\ pc = "next" /\ todo = {}
    /\ pc' = IF error THEN "heal" ELSE "idle"
    /\ UNCHANGED <<folderVars, indexVars, ladderVars, bindingVars, queueVars, fileVars,
                   passVars, serverVars, faults>>

-----------------------------------------------------------------------------
(* How push_one ends, and what the batch makes of it.  Every ending removes *)
(* the temporary copy and the transfer.                                     *)

Release == copy' = 0 /\ active' = active \ {cur}

ClearUploadFailure(f) ==
    fails' = [fails EXCEPT ![f] = 0] /\ wait' = [wait EXCEPT ![f] = 0]

(* Stored, skipped, handed over or still relayed: the ladder starts anew.   *)
Healthy ==
    /\ ClearUploadFailure(cur)
    /\ inARow' = 0
    /\ pc' = "next"
    /\ UNCHANGED <<todo, seen, sizes, error, waiting>>

(* The entry of the file, with the stamp of the scan.                       *)
Record ==
    /\ idx' = [idx EXCEPT ![cur] = hash]
    /\ idxStamp' = [idxStamp EXCEPT ![cur] = seen[cur]]
    /\ idxIn' = [idxIn EXCEPT ![cur] = bound]
    /\ overtaken' = [overtaken EXCEPT ![cur] = FALSE]

(* upload_backoff_ms: the delay stays on the last rung, so a count past it  *)
(* is not told apart from it.                                               *)
Rung(n) == IF n > Len(Ladder) THEN Len(Ladder) ELSE n

\* mutant: the transfers of the files that were not attempted stay in the queue
StopBatchOnly(rest) == todo' = {} /\ UNCHANGED waiting

(* The failure of a file is counted and its next attempt put off.           *)
NoteUploadFailure(f) ==
    /\ fails' = [fails EXCEPT ![f] = Rung(@ + 1)]
    /\ wait' = [wait EXCEPT ![f] = Ladder[Rung(fails[f] + 1)]]

(* The rest of the batch is given up: its transfers are abandoned.          *)
StopBatch(rest) == todo' = {} /\ waiting' = waiting \ rest

(* A verdict about this file: it goes on the ladder, and after too many of  *)
(* them in a row the batch stops.                                           *)
FileFailed ==
    /\ NoteUploadFailure(cur)
    /\ inARow' = inARow + 1 /\ error' = TRUE
    /\ IF inARow' >= MaxInARow THEN StopBatch(todo) ELSE UNCHANGED <<todo, waiting>>
    /\ pc' = "next"
    /\ UNCHANGED <<seen, sizes>>

(* The link is down: nothing was learned about any file, the batch stops.   *)
LinkFailed ==
    /\ error' = TRUE
    /\ StopBatch(todo)
    /\ pc' = "next"
    /\ UNCHANGED <<ladderVars, seen, sizes, inARow>>

(* The server has no room yet: the file keeps its place, the batch goes on. *)
Busy ==
    /\ pc' = "next"
    /\ UNCHANGED <<ladderVars, passVars, waiting>>

-----------------------------------------------------------------------------
(* push_one                                                                 *)

\* mutant: rows that are being relayed are not recognised
NeverRelaying(r) == FALSE

(* still_relaying: an unfinished row that the server says it works on.      *)
StillRelaying(r) == r.st = "relaying"

RemoteRow(f) ==
    IF bound = storage /\ row[f] # "none"
    THEN [st |-> row[f], label |-> label[f], size |-> SizeOf[bytes[f]]] ELSE NoRemote

(* A row of the scanned size that is being relayed is this file: leave it.  *)
(* A preflight without an answer is no reason not to send.                  *)
Preflight ==
    /\ pc = "preflight"
    /\ \/ remote' = RemoteRow(cur) /\ blind' = FALSE /\ UNCHANGED faults
       \/ Fault /\ remote' = NoRemote /\ blind' = TRUE
    /\ IF StillRelaying(remote') /\ remote'.size = sizes[cur]
       THEN Release /\ Healthy
       ELSE /\ pc' = IF cur \in UriOnly THEN "read" ELSE "hash"
            /\ UNCHANGED <<active, copy, ladderVars, passVars, waiting>>
    /\ UNCHANGED <<folderVars, indexVars, bindingVars, cur, known, hash, serverVars>>

(* materialize: a gallery item is copied, or cannot be.                     *)
Materialize ==
    /\ pc = "read"
    /\ \/ /\ disk[cur] # 0
          /\ copy' = disk[cur] /\ pc' = "hash"
          /\ UNCHANGED <<active, ladderVars, passVars, waiting>>
       \/ disk[cur] = 0 /\ Release /\ FileFailed
    /\ UNCHANGED <<folderVars, indexVars, bindingVars, cur, known, remote, hash, blind,
                   serverVars, faults>>

(* What hashing and sending read: the copy, or the file as it is now.       *)
Source == IF copy # 0 THEN copy ELSE disk[cur]

Hash ==
    /\ pc = "hash"
    /\ \/ /\ Source # 0
          /\ hash' = Source /\ pc' = "compare"
          /\ UNCHANGED <<active, copy, ladderVars, passVars, waiting>>
       \/ Source = 0 /\ Release /\ FileFailed /\ UNCHANGED hash
    /\ UNCHANGED <<folderVars, indexVars, bindingVars, cur, known, remote, blind,
                   serverVars, faults>>

(* Unchanged content, or a row that holds these bytes: record, send nothing. *)
Compare ==
    /\ pc = "compare"
    /\ IF known = hash
       THEN /\ idxStamp' = [idxStamp EXCEPT ![cur] = seen[cur]]
            /\ Release /\ Healthy /\ UNCHANGED <<idx, idxIn, overtaken>>
       ELSE IF remote.st = "stored" /\ remote.label = hash
       THEN Record /\ Release /\ Healthy
       ELSE /\ pc' = "send"
            /\ UNCHANGED <<indexVars, active, copy, ladderVars, passVars, waiting>>
    /\ UNCHANGED <<folderVars, bindingVars, cur, known, remote, hash, blind, serverVars,
                   faults>>

(* The server takes the bytes unless the row is done, or is being filled.   *)
TakesBytes(f) == row[f] \in {"none", "dead"} \/ (row[f] = "stored" /\ label[f] # hash)

(* The bytes are taken and a relay of them starts.                          *)
SendTaken ==
    /\ pc = "send" /\ bound = storage /\ cur \notin Refused /\ Source # 0
    /\ TakesBytes(cur)
    /\ row' = [row EXCEPT ![cur] = "relaying"]
    /\ label' = [label EXCEPT ![cur] = hash]
    /\ bytes' = [bytes EXCEPT ![cur] = Source]
    /\ overtaken' = [overtaken EXCEPT ![cur] = idx[cur] # 0]
    /\ pc' = "drain"
    /\ UNCHANGED <<folderVars, idx, idxStamp, idxIn, ladderVars, bindingVars, queueVars, fileVars,
                   passVars, storage, moves, faults>>

(* The row is already there, uploaded: done at once.                        *)
SendKnown ==
    /\ pc = "send" /\ bound = storage /\ cur \notin Refused /\ Source # 0
    /\ row[cur] = "stored" /\ label[cur] = hash
    /\ Record /\ Release /\ Healthy
    /\ UNCHANGED <<folderVars, bindingVars, cur, known, remote, hash, blind, serverVars,
                   faults>>

(* Another request relays these bytes: in_progress, handed over.            *)
SendInProgress ==
    /\ pc = "send" /\ bound = storage /\ cur \notin Refused /\ Source # 0
    /\ row[cur] = "relaying" /\ label[cur] = hash
    /\ Release /\ Healthy
    /\ UNCHANGED <<folderVars, indexVars, bindingVars, cur, known, remote, hash, blind,
                   serverVars, faults>>

(* A verdict: the file is not taken, the row is being filled with another   *)
(* version, the storage is gone (404), or the file cannot be opened.        *)
SendRefused ==
    /\ pc = "send"
    /\ \/ cur \in Refused \/ bound # storage \/ Source = 0
       \/ row[cur] = "relaying" /\ label[cur] # hash
    /\ Release /\ FileFailed
    /\ UNCHANGED <<folderVars, indexVars, bindingVars, cur, known, remote, hash, blind,
                   serverVars, faults>>

(* No answer, a stalled send, a 5xx, an expired session.                    *)
SendLost ==
    /\ pc = "send" /\ Fault
    /\ Release /\ LinkFailed
    /\ UNCHANGED <<folderVars, indexVars, bindingVars, cur, known, remote, hash, blind,
                   serverVars>>

(* 503 with the busy header.                                                *)
SendBusy ==
    /\ pc = "send" /\ Fault
    /\ Release /\ Busy
    /\ UNCHANGED <<folderVars, indexVars, bindingVars, cur, known, remote, hash, blind,
                   serverVars>>

\* mutant: bytes the server has taken are called stored
DrainHandedOffAsStored ==
    /\ pc = "drain"
    /\ Record /\ Release /\ Healthy
    /\ UNCHANGED <<folderVars, bindingVars, cur, known, remote, hash, blind, serverVars,
                   faults>>

(* The grace ran out, or the response ended without a verdict: no entry.    *)
DrainHandedOff ==
    /\ pc = "drain"
    /\ Release /\ Healthy
    /\ UNCHANGED <<folderVars, indexVars, bindingVars, cur, known, remote, hash, blind,
                   serverVars, faults>>

(* phase done                                                               *)
DrainStored ==
    /\ pc = "drain" /\ bound = storage /\ row[cur] = "stored" /\ label[cur] = hash
    /\ Record /\ Release /\ Healthy
    /\ UNCHANGED <<folderVars, bindingVars, cur, known, remote, hash, blind, serverVars,
                   faults>>

(* phase error: the relay failed                                            *)
DrainFailed ==
    /\ pc = "drain" /\ (bound # storage \/ row[cur] \in {"dead", "none"})
    /\ Release /\ FileFailed
    /\ UNCHANGED <<folderVars, indexVars, bindingVars, cur, known, remote, hash, blind,
                   serverVars, faults>>

(* The response went quiet or broke.                                        *)
DrainLost ==
    /\ pc = "drain" /\ Fault
    /\ Release /\ LinkFailed
    /\ UNCHANGED <<folderVars, indexVars, bindingVars, cur, known, remote, hash, blind,
                   serverVars>>

(* heal_stale_storage, after a pass with an error: a binding whose storage  *)
(* is gone is repointed to the one there is, written back as the pass read  *)
(* it, enabled.                                                             *)
Heal ==
    /\ pc = "heal"
    /\ \/ bound = storage /\ UNCHANGED bindingVars
       \/ bound # storage /\ bound' = storage /\ enabled' = TRUE
    /\ pc' = "idle"
    /\ UNCHANGED <<folderVars, indexVars, ladderVars, queueVars, fileVars, passVars,
                   serverVars, faults>>

HealUnheard ==
    /\ pc = "heal" /\ Fault
    /\ pc' = "idle"
    /\ UNCHANGED <<folderVars, indexVars, ladderVars, bindingVars, queueVars, fileVars,
                   passVars, serverVars>>

-----------------------------------------------------------------------------
(* The user.                                                                *)

Edit(f, v) ==
    /\ edits < MaxEdits /\ edits' = edits + 1
    /\ disk' = [disk EXCEPT ![f] = v] /\ stamp' = [stamp EXCEPT ![f] = @ + 1]
    /\ UNCHANGED <<indexVars, ladderVars, bindingVars, queueVars, pc, fileVars, passVars,
                   serverVars, faults>>

(* "Upload now": the backoff is cleared (the pass it starts is Tick).       *)
RetryFailedUploads ==
    /\ \E f \in Files : fails[f] # 0
    /\ edits < MaxEdits /\ edits' = edits + 1
    /\ fails' = [f \in Files |-> 0] /\ wait' = [f \in Files |-> 0]
    /\ UNCHANGED <<disk, stamp, indexVars, bindingVars, queueVars, pc, fileVars, passVars,
                   serverVars, faults>>

(* A disabled binding's unfinished transfers are dropped; a pass goes on.   *)
SetBindingEnabled(on) ==
    /\ enabled # on /\ edits < MaxEdits
    /\ enabled' = on /\ edits' = edits + 1
    /\ IF on THEN UNCHANGED queueVars ELSE ClearBinding
    /\ UNCHANGED <<disk, stamp, indexVars, ladderVars, bound, pc, fileVars, passVars,
                   serverVars, faults>>

(* The app is closed and opened: the index survives, the queue does not.    *)
Reopen ==
    /\ pc # "idle" /\ Fault
    /\ pc' = "idle" /\ ClearBinding /\ todo' = {}
    /\ cur' = NoFile /\ known' = 0 /\ remote' = NoRemote /\ hash' = 0 /\ copy' = 0
    /\ blind' = FALSE /\ inARow' = 0 /\ error' = FALSE
    /\ UNCHANGED <<folderVars, indexVars, ladderVars, bindingVars, seen, sizes, serverVars>>

-----------------------------------------------------------------------------
(* The server's side: relays end, a restart purges or keeps what they left, *)
(* an administrator deletes the storage and creates another.                *)

RelayStores(f) ==
    /\ row[f] = "relaying"
    /\ row' = [row EXCEPT ![f] = "stored"]
    /\ UNCHANGED <<folderVars, indexVars, ladderVars, bindingVars, queueVars, pc, fileVars,
                   passVars, label, bytes, storage, moves, faults>>

RelayDies(f) ==
    /\ row[f] = "relaying" /\ Fault
    /\ \/ row' = [row EXCEPT ![f] = "dead"] /\ UNCHANGED <<label, bytes>>
       \/ /\ row' = [row EXCEPT ![f] = "none"]
          /\ label' = [label EXCEPT ![f] = 0] /\ bytes' = [bytes EXCEPT ![f] = 0]
    /\ UNCHANGED <<folderVars, indexVars, ladderVars, bindingVars, queueVars, pc, fileVars,
                   passVars, storage, moves>>

StorageReplaced ==
    /\ moves < MaxMoves /\ moves' = moves + 1
    /\ storage' = storage + 1
    /\ row' = [f \in Files |-> "none"] /\ label' = [f \in Files |-> 0]
    /\ bytes' = [f \in Files |-> 0]
    /\ UNCHANGED <<folderVars, indexVars, ladderVars, bindingVars, queueVars, pc, fileVars,
                   passVars, faults>>

PushOne ==
    \/ Preflight \/ Materialize \/ Hash \/ Compare
    \/ SendTaken \/ SendKnown \/ SendInProgress \/ SendRefused
    \/ DrainHandedOff \/ DrainStored \/ DrainFailed

Pass == Tick \/ List \/ NextFile \/ BatchDone \/ PushOne \/ Heal

Next ==
    \/ Pass
    \/ SendLost \/ SendBusy \/ DrainLost \/ HealUnheard \/ Reopen
    \/ \E f \in Files, v \in Contents : Edit(f, v)
    \/ RetryFailedUploads
    \/ \E on \in BOOLEAN : SetBindingEnabled(on)
    \/ \E f \in Files : RelayStores(f) \/ RelayDies(f)
    \/ StorageReplaced

Spec == Init /\ [][Next]_vars

(* The loop ticks while the app runs, a pass is a task that is always       *)
(* polled, and a relay the server works on comes to an end.                 *)
FairSpec ==
    /\ Spec
    /\ WF_vars(Pass)
    /\ \A f \in Files : WF_vars(RelayStores(f))

-----------------------------------------------------------------------------
(* Every variable stays in its range.                                       *)
TypeOK ==
    /\ disk \in [Files -> Contents] /\ stamp \in [Files -> 1 .. MaxEdits + 1]
    /\ idx \in [Files -> Contents] /\ idxStamp \in [Files -> 0 .. MaxEdits + 1]
    /\ idxIn \in [Files -> 0 .. MaxMoves + 1] /\ overtaken \in [Files -> BOOLEAN]
    /\ fails \in [Files -> Nat] /\ wait \in [Files -> Nat]
    /\ enabled \in BOOLEAN /\ bound \in 1 .. MaxMoves + 1
    /\ waiting \subseteq Files /\ active \subseteq Files
    /\ pc \in Steps /\ todo \subseteq Files /\ seen \in [Files -> 0 .. MaxEdits + 1]
    /\ sizes \in [Files -> Nat]
    /\ cur \in Files \cup {NoFile} /\ known \in Contents /\ hash \in Contents
    /\ copy \in Contents /\ blind \in BOOLEAN
    /\ remote \in [st : RowStates, label : Contents, size : Nat]
    /\ inARow \in Nat /\ error \in BOOLEAN
    /\ row \in [Files -> RowStates] /\ label \in [Files -> Contents]
    /\ bytes \in [Files -> Contents] /\ storage \in 1 .. MaxMoves + 1
    /\ edits \in 0 .. MaxEdits /\ faults \in 0 .. MaxFaults /\ moves \in 0 .. MaxMoves

(* The engine will not look at this file again: its entry has its stamp.    *)
Quiet(f) == disk[f] # 0 /\ idx[f] # 0 /\ idxStamp[f] = stamp[f]

(* A file the scan passes over is in the storage it was recorded for, with  *)
(* its present content, whatever was edited, lost, handed over or restarted *)
(* on the way, unless the server took other bytes since the entry was       *)
(* written (push_one writes an entry only for what the server confirmed).   *)
ConfirmedIsStored ==
    \A f \in Files : Quiet(f) /\ idxIn[f] = storage /\ ~overtaken[f] =>
        row[f] = "stored" /\ label[f] = disk[f]

(* The same without the exception: what push_one skips as unchanged is what *)
(* the server has.                                                          *)
(* False, and in no run: a file that is edited, sent and put back before    *)
(* the server answers is passed over as unchanged.                          *)
QuietIsStored ==
    \A f \in Files : Quiet(f) /\ idxIn[f] = storage =>
        row[f] = "stored" /\ label[f] = disk[f]

(* Between passes the transfer queue holds nothing: no stopped batch, and   *)
(* no binding disabled under a pass, leaves a transfer behind (push_local,  *)
(* push_one, clear_transfers).                                              *)
IdleLeavesNothing == pc = "idle" => waiting = {} /\ active = {}

(* A file whose bytes the server is relaying is not sent to it once more,   *)
(* unless the preflight was lost or the file changed (push_one).            *)
SentOnce ==
    [][ SendInProgress => blind \/ stamp[cur] # seen[cur] \/ SizeOf[bytes[cur]] # sizes[cur] ]_vars

(* Files the server always refuses do not starve the others, nor does a     *)
(* lost link or a dead relay: every other file of an enabled binding is in  *)
(* the storage in the end, and known to be (the ladder and the stop of a    *)
(* failing batch in push_local).                                            *)
EventuallyStored ==
    \A f \in Files \ Refused :
        <>[](enabled /\ disk[f] # 0 /\ moves = 0) =>
            <>[](Quiet(f) /\ (row[f] = "stored" \/ overtaken[f]))

(* A binding that was repointed carries on: what the scan passes over is in *)
(* the storage the binding names now (heal_stale_storage).                  *)
(* False, and in no run: the healing leaves in the index what was stored    *)
(* where the binding pointed before.                                        *)
HealedIsStored ==
    \A f \in Files : Quiet(f) /\ bound = storage => row[f] = "stored"

(* The index and the queue tell the truth: what the scan passes over is     *)
(* stored, and nothing is queued between passes.                            *)
IndexIsTrue == TypeOK /\ ConfirmedIsStored /\ IdleLeavesNothing
=============================================================================
