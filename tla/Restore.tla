------------------------------ MODULE Restore ------------------------------
(***************************************************************************)
(* Backup and restore of the metadata database (services/backup.rs,         *)
(* routers/settings.rs) beside the edits of a running server, with its      *)
(* working files, its safety copies, requests that end anywhere and a server*)
(* that is killed anywhere.                                                 *)
(*                                                                          *)
(* A database is its files, the sync events, its users, whether an import   *)
(* job has a password, whether a bot belongs to no storage, and whether the *)
(* triggers that mint the events are there.                                 *)
(***************************************************************************)
EXTENDS FiniteSets, Integers

CONSTANTS
    Requests,           \* backups and restores under way at once
    Files,              \* rows
    SAFETY_COPIES_KEPT,
    MaxTime, MaxFaults, MaxArchives, MaxEvents  \* bounds

None == "none"
Root == "root"

VARIABLES
    now,        \* the clock's second
    db,         \* the live database
    seq,        \* AUTOINCREMENT's counter
    lock,       \* who holds the write lock
    tx,         \* the database in the holder's transaction
    up,         \* "up", "booting" or "down"
    scratch,    \* working files: request and prefix
    safety,     \* pre-restore copies: second and files
    archives,   \* what clients hold
    at, src, copy, late,  \* each request: step, content, its copy's second, files added since
    missed,     \* history: the fixups that failed or were not come to, until the next start
    faults

work == <<at, src, copy, late>>
vars == <<now, db, seq, lock, tx, up, scratch, safety, archives, work, missed, faults>>

Fresh == [files |-> {}, events |-> {}, users |-> {Root}, secret |-> TRUE, orphan |-> FALSE,
          triggers |-> TRUE]
(* Of another instance: its superuser has another name; a bot was orphaned. *)
Foreign == [Fresh EXCEPT !.users = {"other"}, !.secret = FALSE, !.orphan = TRUE,
                         !.files = {"theirs"}, !.events = {1}]
(* No database of this program: torn, sealed with another password, or      *)
(* without its tables.                                                      *)
Broken == [Fresh EXCEPT !.users = {}]

Init ==
    /\ now \in 0 .. MaxTime /\ db = Fresh /\ seq = 0 /\ lock = None /\ tx = Fresh /\ up = "up"
    /\ scratch = {} /\ safety = {} /\ archives = {Foreign, Broken}
    /\ at = [r \in Requests |-> "idle"] /\ src = [r \in Requests |-> Broken]
    /\ copy = [r \in Requests |-> -1] /\ late = [r \in Requests |-> {}]
    /\ missed = {} /\ faults \in 0 .. MaxFaults

Fault == faults < MaxFaults /\ faults' = faults + 1
Goto(r, step) == at' = [at EXCEPT ![r] = step]
Own(r, prefix) == <<r, prefix>>
(* A request's guards remove its files.  One that a thread of its own is    *)
(* making by then may come after that, under any prefix, and is nobody's.   *)
Stray == Own(None, "any")
Drops(r, making) ==
    \/ scratch' = {w \in scratch : w[1] # r}
    \/ making /\ scratch' = {w \in scratch : w[1] # r} \cup {Stray}
Ends(r) ==
    /\ Goto(r, "idle") /\ Drops(r, FALSE) /\ src' = [src EXCEPT ![r] = Broken]

Later(files) == [r \in Requests |-> IF copy[r] >= 0 THEN late[r] \cup files ELSE {}]

-----------------------------------------------------------------------------
(* The rest of the server.                                                  *)

Tick == now < MaxTime /\ now' = now + 1
        /\ UNCHANGED <<db, seq, lock, tx, up, scratch, safety, archives, work, missed, faults>>

(* A new file: its trigger mints the event.  A writer waits for the lock.   *)
Edit ==
    /\ up = "up" /\ lock = None /\ seq < MaxEvents
    /\ \E f \in Files \ db.files :
          /\ db' = [db EXCEPT !.files = @ \cup {f},
                              !.events = IF db.triggers THEN @ \cup {seq + 1} ELSE @]
          /\ seq' = IF db.triggers THEN seq + 1 ELSE seq
          /\ late' = Later({f})
    /\ UNCHANGED <<now, lock, tx, up, scratch, safety, archives, at, src, copy, missed, faults>>

-----------------------------------------------------------------------------
(* create: snapshot, scrub, encode, stream; every file goes with its guard. *)
(* Where one of the steps of a request may fail, it may end: see Cut.       *)

BackingUp(r) == at[r] \in {"scrub", "encode", "stream"}

Snapshot(r) ==
    /\ at[r] = "idle" /\ up = "up"
    /\ Cardinality(archives) + Cardinality({q \in Requests : BackingUp(q)}) < MaxArchives
    /\ \/ /\ src' = [src EXCEPT ![r] = db] /\ scratch' = scratch \cup {Own(r, "snapshot-")}
          /\ Goto(r, "scrub") /\ UNCHANGED faults
       \/ Fault /\ Drops(r, TRUE) /\ UNCHANGED <<at, src>>
    /\ UNCHANGED <<now, db, seq, lock, tx, up, safety, archives, copy, late, missed>>

\* mutant: the passwords go into the archive
ScrubNothing(r) ==
    /\ at[r] = "scrub" /\ Goto(r, "encode")
    /\ UNCHANGED <<now, db, seq, lock, tx, up, scratch, safety, archives, src, copy, late, missed,
                    faults>>

Scrub(r) ==
    /\ at[r] = "scrub" /\ Goto(r, "encode") /\ src' = [src EXCEPT ![r].secret = FALSE]
    /\ UNCHANGED <<now, db, seq, lock, tx, up, scratch, safety, archives, copy, late, missed,
                    faults>>

Encode(r) ==
    /\ at[r] = "encode" /\ Goto(r, "stream")
    /\ scratch' = {Own(r, "archive-")} \cup {w \in scratch : w[1] # r}
    /\ UNCHANGED <<now, db, seq, lock, tx, up, safety, archives, src, copy, late, missed, faults>>

Stream(r) ==
    /\ at[r] = "stream" /\ Ends(r) /\ archives' = archives \cup {src[r]}
    /\ UNCHANGED <<now, db, seq, lock, tx, up, safety, copy, late, missed, faults>>

-----------------------------------------------------------------------------
(* restore: the upload is decoded and looked at before anything is touched. *)

Upload(r) ==
    /\ at[r] = "idle" /\ up = "up"
    /\ \/ /\ \E a \in archives : src' = [src EXCEPT ![r] = a]
          /\ scratch' = scratch \cup {Own(r, "upload-"), Own(r, "staged-")}
          /\ Goto(r, "validate") /\ UNCHANGED faults
       \/ Fault /\ Drops(r, TRUE) /\ UNCHANGED <<at, src>>
    /\ UNCHANGED <<now, db, seq, lock, tx, up, safety, archives, copy, late, missed>>

Validate(r) ==
    /\ at[r] = "validate"
    /\ IF src[r] = Broken THEN Ends(r) ELSE Goto(r, "copy") /\ UNCHANGED <<src, scratch>>
    /\ UNCHANGED <<now, db, seq, lock, tx, up, safety, archives, copy, late, missed, faults>>

\* mutant: one copy too many goes
PrunedShort(copies) ==
    {c \in copies : Cardinality({d \in copies : d.second > c.second}) + 1 < SAFETY_COPIES_KEPT}

(* The newest by name are kept.                                             *)
Pruned(copies) ==
    {c \in copies : Cardinality({d \in copies : d.second > c.second}) < SAFETY_COPIES_KEPT}

(* The name is the second: an earlier copy of the same second is removed    *)
(* first, and is no longer its request's.                                   *)
Earlier == {c \in safety : c.second # now}
NewCopy == [second |-> now, files |-> db.files]
Disowned == [s \in Requests |-> IF copy[s] = now THEN -1 ELSE copy[s]]

(* Best-effort.                                                             *)
SafetyCopy(r) ==
    /\ at[r] = "copy" /\ Goto(r, "begin")
    /\ \/ /\ safety' = Pruned(Earlier \cup {NewCopy})
          /\ copy' = [Disowned EXCEPT ![r] = now] /\ UNCHANGED faults
       \/ Fault /\ safety' = Earlier /\ copy' = Disowned
    /\ late' = [late EXCEPT ![r] = {}]
    /\ UNCHANGED <<now, db, seq, lock, tx, up, scratch, archives, src, missed>>

(* BEGIN IMMEDIATE waits, or gives up; the triggers are dropped in it.      *)
Begin(r) ==
    /\ at[r] = "begin"
    /\ \/ /\ lock = None /\ lock' = r /\ tx' = [db EXCEPT !.triggers = FALSE]
          /\ Goto(r, "tables") /\ UNCHANGED <<src, scratch, copy, late>>
       \/ /\ lock # None /\ Ends(r) /\ UNCHANGED <<lock, tx>>
          /\ copy' = [copy EXCEPT ![r] = -1] /\ late' = [late EXCEPT ![r] = {}]
    /\ UNCHANGED <<now, db, seq, up, safety, archives, missed, faults>>

\* mutant: the triggers stay dropped
CopyTablesUntriggered(r) ==
    /\ at[r] = "tables" /\ Goto(r, "commit") /\ tx' = [src[r] EXCEPT !.triggers = FALSE]
    /\ UNCHANGED <<now, db, seq, lock, up, scratch, safety, archives, src, copy, late, missed,
                    faults>>

(* Every live table is emptied, those that the archive has not, too, then   *)
(* the archive's are copied; with a trigger in place each row of files      *)
(* would mint an event beside the archive's.  The triggers are made again.  *)
CopyTables(r) ==
    /\ at[r] = "tables" /\ Goto(r, "commit")
    /\ tx' = [src[r] EXCEPT !.events = IF tx.triggers THEN @ \cup {seq + 1} ELSE @, !.triggers = TRUE]
    /\ UNCHANGED <<now, db, seq, lock, up, scratch, safety, archives, src, copy, late, missed,
                    faults>>

MaxOf(S) == CHOOSE m \in S : \A n \in S : n =< m

Commit(r) ==
    /\ at[r] = "commit" /\ db' = tx /\ lock' = None /\ tx' = Fresh /\ Goto(r, "orphans")
    /\ seq' = MaxOf({seq} \cup tx.events)
    /\ scratch' = scratch \ {Own(r, "staged-")}
    /\ late' = [Later(tx.files) EXCEPT ![r] = {}] /\ copy' = [copy EXCEPT ![r] = -1]
    /\ UNCHANGED <<now, up, safety, archives, src, missed, faults>>

(* delete_orphan_storage_workers: its failure is only logged.               *)
Swept ==
    \/ db' = [db EXCEPT !.orphan = FALSE] /\ missed' = missed \ {"orphans"} /\ UNCHANGED faults
    \/ Fault /\ missed' = missed \cup {"orphans"} /\ UNCHANGED db

(* The fixups of a boot, on the restored rows.                              *)
Orphans(r) ==
    /\ at[r] = "orphans" /\ lock = None /\ Swept /\ Goto(r, "superuser")
    /\ UNCHANGED <<now, seq, lock, tx, up, scratch, safety, archives, src, copy, late>>

\* mutant: the superuser comes with the next boot
SuperuserLater(r) ==
    /\ at[r] = "superuser" /\ Ends(r)
    /\ UNCHANGED <<now, db, seq, lock, tx, up, safety, archives, copy, late, missed, faults>>

CreateSuperuser(r) ==
    /\ at[r] = "superuser" /\ lock = None /\ db' = [db EXCEPT !.users = @ \cup {Root}] /\ Ends(r)
    /\ missed' = missed \ {"superuser"}
    /\ UNCHANGED <<now, seq, lock, tx, up, safety, archives, copy, late, faults>>

-----------------------------------------------------------------------------
(* The request ends where it is: what it waits for fails or panics, or its  *)
(* client hangs up and the request is dropped.  A transaction is rolled     *)
(* back, and what comes after the commit does not come; the archive and the *)
(* safety copy are made by another thread, which goes on.                   *)
Missing(r) ==
    IF at[r] = "orphans" THEN {"orphans", "superuser"}
    ELSE IF at[r] = "superuser" THEN {"superuser"} ELSE {}

Cut(r) ==
    /\ at[r] # "idle" /\ Fault
    /\ Goto(r, "idle") /\ Drops(r, at[r] = "encode") /\ src' = [src EXCEPT ![r] = Broken]
    /\ IF lock = r THEN lock' = None /\ tx' = Fresh ELSE UNCHANGED <<lock, tx>>
    /\ \/ UNCHANGED safety /\ copy' = [copy EXCEPT ![r] = -1]
       \/ /\ at[r] = "copy" /\ safety' \in {Earlier, Earlier \cup {NewCopy}}
          /\ copy' = [Disowned EXCEPT ![r] = -1]
    /\ late' = [late EXCEPT ![r] = {}]
    /\ missed' = missed \cup Missing(r)
    /\ UNCHANGED <<now, db, seq, up, archives>>

(* A transaction under way is rolled back; working files stay.              *)
Kill ==
    /\ up # "down" /\ Fault /\ up' = "down" /\ lock' = None
    /\ at' = [r \in Requests |-> "idle"] /\ src' = [r \in Requests |-> Broken] /\ tx' = Fresh
    /\ copy' = [r \in Requests |-> -1] /\ late' = [r \in Requests |-> {}]
    /\ UNCHANGED <<now, db, seq, scratch, safety, archives, missed>>

\* mutant: the working files of the last run stay
BootSweepsNothing ==
    /\ up = "down" /\ up' = "booting" /\ Swept
    /\ UNCHANGED <<now, seq, lock, tx, scratch, safety, archives, work>>

(* delete_orphan_storage_workers, cleanup_scratch.                          *)
Boot ==
    /\ up = "down" /\ up' = "booting" /\ Swept /\ scratch' = {}
    /\ UNCHANGED <<now, seq, lock, tx, safety, archives, work>>

(* create_superuser: a failure is the end of the start.                     *)
Booted ==
    /\ up = "booting" /\ up' = "up" /\ db' = [db EXCEPT !.users = @ \cup {Root}]
    /\ missed' = missed \ {"superuser"}
    /\ UNCHANGED <<now, seq, lock, tx, scratch, safety, archives, work, faults>>

Step(r) ==
    \/ Snapshot(r) \/ Scrub(r) \/ Encode(r) \/ Stream(r) \/ Upload(r) \/ Validate(r) \/ SafetyCopy(r)
    \/ Begin(r) \/ CopyTables(r) \/ Commit(r)
    \/ Orphans(r) \/ CreateSuperuser(r) \/ Cut(r)

Next == Tick \/ Edit \/ Kill \/ Boot \/ Booted \/ \E r \in Requests : Step(r)

Spec == Init /\ [][Next]_vars

-----------------------------------------------------------------------------
Idle == up = "up" /\ \A r \in Requests : at[r] = "idle"
Restoring(r) == at[r] \in {"tables", "commit"}

TypeOK ==
    /\ db.files \subseteq Files \cup {"theirs"} /\ db.events \subseteq 0..seq
    /\ lock # None => Restoring(lock)
    /\ \A r \in Requests : Restoring(r) => lock = r

(* What a restore puts in the place of the database is the archive, every   *)
(* table of it and nothing else, and edits are logged as before; nothing    *)
(* else takes a file away (copy_tables_in_transaction, take_triggers, restore_triggers).   *)
RestoreIsExact ==
    \/ db.files \subseteq db'.files /\ db.events \subseteq db'.events /\ db'.triggers
    \/ \E r \in Requests : Restoring(r) /\ db' = [src[r] EXCEPT !.triggers = TRUE]

(* Whatever a restore wipes is in its safety copy, when there is one, but   *)
(* for what came after it; two copies of one second aside.  A restore that  *)
(* waits while so many others make a copy that its own is pruned has all    *)
(* the newer ones that are kept, but that of the second: a copy that fails  *)
(* takes it away (write_safety_copy, prune_safety_copies, apply_snapshot).  *)
Newer(copies, second) == {c \in copies : c.second > second}

WipedIsCopied ==
    \A r \in Requests : Restoring(r) /\ db' # db /\ copy[r] >= 0 =>
        \E c \in safety :
            /\ db.files \subseteq c.files \cup late[r]
            /\ \/ c.second = copy[r]
               \/ c \in Newer(safety, copy[r])
                  /\ Cardinality(Newer(safety, copy[r])) >= SAFETY_COPIES_KEPT - 1

(* A server that answers has its superuser again when no restore is under   *)
(* way, also after a kill between the copy and the fixups; a restore that   *)
(* ended between these two, the server running on, has it with the next     *)
(* start.  The same of the bots of no storage, where their removal did not  *)
(* fail (restore, main).                                                    *)
OperatorGetsIn ==
    Idle => /\ Root \in db.users \/ "superuser" \in missed
            /\ ~db.orphan \/ "orphans" \in missed

(* No archive carries an import's password (scrub_secrets).                 *)
NoSecretLeaves == \A a \in archives \ {Broken} : ~a.secret

(* Only the requests under way have working files, and what a thread made   *)
(* when its request had gone, until the next start (ScratchFile,            *)
(* cleanup_scratch).                                                        *)
ScratchIsOwned ==
    /\ up = "up" => \A w \in scratch : w = Stray \/ at[w[1]] # "idle"
    /\ up = "booting" => scratch = {}

(* A restore replaces the database by the archive and by nothing else, and  *)
(* what it replaces can be had back.                                        *)
RestoreIsFaithful == [][RestoreIsExact /\ WipedIsCopied]_vars

(* Whatever fails or is killed, the operator can sign in, no archive holds  *)
(* a secret of another service, and no copy of the database is left over;   *)
(* at the latest, after the next start.                                     *)
BackupsAreSafe == TypeOK /\ OperatorGetsIn /\ NoSecretLeaves /\ ScratchIsOwned
=============================================================================
