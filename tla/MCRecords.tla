------------------------------ MODULE MCRecords ------------------------------
(***************************************************************************)
(* One small instance of each of the parts that keep records, of the server *)
(* and the client, and share no state: accounts, the set-up of storages, the*)
(* library of files and its shortcuts, backups, the sessions of a user, and *)
(* the client's app lock and previews. A run takes one of them.             *)
(***************************************************************************)
EXTENDS Integers, Sequences, FiniteSets, TLC

CONSTANTS
    People,                                         \* of Accounts
    Owners, Bots, Groups, MAX_CHANNELS,             \* of Setup
    Storages, MaxAsked,                             \* of these two
    Calls,                                          \* what runs at once, of all but the sessions
    Restores, Documents, SAFETY_COPIES_KEPT,        \* of Restore
    MaxSeconds, MaxArchives, MaxEvents,
    MaxErrors                                       \* of all three

(* The superuser is nobody else, and a name is not taken for there being    *)
(* none, for the lock being free or for a file of another instance.         *)
ASSUME RecordsAssumption ==
    /\ "root" \notin People /\ "none" \notin Restores /\ SAFETY_COPIES_KEPT \in Nat \ {0, 1}
    /\ "none" \notin Storages \cup Owners \cup Bots /\ MAX_CHANNELS \in Nat
    /\ {MaxAsked, MaxSeconds, MaxArchives, MaxEvents, MaxErrors} \subseteq Nat

N(s) == <<s, 0>>
A == <<N("a")>>
D == <<N("d"), <<"", 0>>>>
E == <<N("e"), <<"", 0>>>>
DA == <<N("d"), N("a")>>
DD == <<N("d")>> \o D
Req(op, p, to, mode) == [op |-> op, path |-> p, to |-> to, mode |-> mode]

(* A file and a folder with a file of the same name, one with a folder of   *)
(* its name, and every operation.                                           *)
SmallRequests ==
    {Req("upload", DA, <<>>, "fail"), Req("folder", D, <<>>, "fail"),
     Req("delete", DA, <<>>, "fail"), Req("delete", D, <<>>, "fail"),
     Req("rename", DA, A, "fail"), Req("rename", D, E, "fail"),
     Req("restore", DA, <<>>, "rename"), Req("restore", DA, <<>>, "replace"),
     Req("restore", D, <<>>, "rename"),
     Req("forever", DA, <<>>, "fail"), Req("empty", DA, <<>>, "fail"),
     Req("move", A, <<N("d")>>, "replace"), Req("move", DA, <<>>, "rename"),
     Req("folder", DD, <<>>, "fail"), Req("move", DD, <<>>, "replace"),
     Req("move", D, <<N("e")>>, "replace"), Req("copy", D, <<N("e")>>, "fail"),
     Req("copy", DA, <<N("d")>>, "replace"), Req("copy", D, <<>>, "rename"),
     Req("share", D, <<>>, "fail"), Req("share", DA, <<>>, "fail"), Req("revoke", DA, <<>>, "fail")}

(* Set, change and turn off a PIN, rightly and wrongly, and ask for it.      *)
Lock(op, on, pin, current, logs) ==
    [op |-> op, on |-> on, pin |-> pin, current |-> current, logs |-> logs]
LockRequests ==
    {Lock("set", TRUE, "p", "no pin", TRUE), Lock("set", TRUE, "q", "p", FALSE),
     Lock("set", FALSE, "no pin", "p", TRUE), Lock("set", FALSE, "no pin", "q", TRUE),
     Lock("set", TRUE, "no pin", "no pin", FALSE), Lock("set", TRUE, "too short", "no pin", TRUE),
     Lock("verify", FALSE, "no pin", "p", TRUE), Lock("verify", FALSE, "no pin", "q", TRUE),
     Lock("get", FALSE, "no pin", "no pin", TRUE), Lock("export", FALSE, "no pin", "no pin", TRUE)}

VARIABLES
    chosen,     \* which one runs
    a_users, a_storages, a_level, a_used, a_task, a_unseen, a_requests, a_faults,
    s_owner, s_chan, s_under, s_workers, s_task, s_made, s_said, s_mixed, s_crashed, s_left,
    s_requests, s_faults,
    l_path, l_st, l_target, l_of, l_torn, l_task, l_asked, l_hangs,
    b_now, b_db, b_seq, b_lock, b_tx, b_up, b_scratch, b_safety, b_archives, b_at, b_src, b_copy,
    b_late, b_missed, b_faults,
    e_now, e_valid, e_disabled, e_revs, e_file, e_mem, e_eng, e_web, e_page, e_pending, e_task,
    e_off, e_kept, e_faults, e_commands,
    k_file, k_whole, k_logging, k_task, k_lock, k_mixed, k_loose, k_broken, k_calls, k_faults,
    p_dir, p_at, p_bytes, p_byAge, p_task, p_latest, p_overlapped, p_cut, p_served, p_calls,
    p_faults,
    h_st, h_path, h_users, h_readers, h_stars, h_viewed, h_now, h_task, h_last, h_wanted,
    h_swept, h_requests, h_changes

accountsVars == <<a_users, a_storages, a_level, a_used, a_task, a_unseen, a_requests, a_faults>>
setupVars == <<s_owner, s_chan, s_under, s_workers, s_task, s_made, s_said, s_mixed, s_crashed,
              s_left, s_requests, s_faults>>
libraryVars == <<l_path, l_st, l_target, l_of, l_torn, l_task, l_asked, l_hangs>>
restoreVars == <<b_now, b_db, b_seq, b_lock, b_tx, b_up, b_scratch, b_safety, b_archives, b_at,
                b_src, b_copy, b_late, b_missed, b_faults>>
userSessionsVars == <<e_now, e_valid, e_disabled, e_revs, e_file, e_mem, e_eng, e_web, e_page,
                     e_pending, e_task, e_off, e_kept, e_faults, e_commands>>
lockVars == <<k_file, k_whole, k_logging, k_task, k_lock, k_mixed, k_loose, k_broken, k_calls,
             k_faults>>
previewsVars == <<p_dir, p_at, p_bytes, p_byAge, p_task, p_latest, p_overlapped, p_cut, p_served,
                 p_calls, p_faults>>
shortcutsVars == <<h_st, h_path, h_users, h_readers, h_stars, h_viewed, h_now, h_task, h_last,
                  h_wanted, h_swept, h_requests, h_changes>>
recordsVars == <<chosen, accountsVars, setupVars, libraryVars, restoreVars, userSessionsVars,
                 lockVars, previewsVars, shortcutsVars>>

Accounts_ == INSTANCE Accounts WITH
    Root <- "root", Tasks <- Calls, MaxRequests <- MaxAsked, MaxFaults <- MaxErrors,
    users <- a_users, storages <- a_storages, level <- a_level, used <- a_used, task <- a_task,
    unseen <- a_unseen, requests <- a_requests, faults <- a_faults

Setup_ == INSTANCE Setup WITH
    Users <- Owners, Tokens <- Bots, Chats <- Groups, AdminOf <- [k \in Bots |-> Groups],
    Tasks <- Calls, MaxChannels <- MAX_CHANNELS, MaxRequests <- MaxAsked,
    MaxFaults <- MaxErrors, owner <- s_owner, chan <- s_chan, under <- s_under,
    workers <- s_workers, task <- s_task, made <- s_made, said <- s_said, mixed <- s_mixed,
    crashed <- s_crashed, left <- s_left, requests <- s_requests, faults <- s_faults

Library_ == INSTANCE Library WITH
    Tasks <- Calls, Requests <- SmallRequests, Like <- {}, Wide <- {}, MaxRows <- 6,
    MaxLinks <- 1, MaxRequests <- 4, MaxNumber <- 2, MaxHangs <- 1, path <- l_path, st <- l_st,
    target <- l_target, of <- l_of, torn <- l_torn, task <- l_task, asked <- l_asked,
    hangs <- l_hangs

Restore_ == INSTANCE Restore WITH
    Requests <- Restores, Files <- Documents, MaxTime <- MaxSeconds, MaxFaults <- MaxErrors,
    now <- b_now, db <- b_db, seq <- b_seq, lock <- b_lock, tx <- b_tx, up <- b_up,
    scratch <- b_scratch, safety <- b_safety, archives <- b_archives, at <- b_at,
    src <- b_src, copy <- b_copy, late <- b_late, missed <- b_missed, faults <- b_faults

UserSessions_ == INSTANCE Sessions WITH
    Loops <- {"loop"}, Keepers <- {}, Commands <- {"c"}, Life <- 1, MaxTime <- 2,
    MaxRevokes <- 1, MaxFaults <- 1, MaxCommands <- 2, now <- e_now, valid <- e_valid,
    disabled <- e_disabled, revs <- e_revs, file <- e_file, mem <- e_mem, eng <- e_eng,
    web <- e_web, page <- e_page, pending <- e_pending, task <- e_task, off <- e_off,
    kept <- e_kept, faults <- e_faults, commands <- e_commands

AppLock_ == INSTANCE AppLock WITH
    Tasks <- Calls, Pins <- {"p", "q"}, Requests <- LockRequests, MaxCalls <- 3,
    MaxFaults <- 1, file <- k_file, whole <- k_whole, logging <- k_logging, task <- k_task,
    lock <- k_lock, mixed <- k_mixed, loose <- k_loose, broken <- k_broken, calls <- k_calls,
    faults <- k_faults

PreviewCache_ == INSTANCE PreviewCache WITH
    Tasks <- Calls, Keys <- {"a", "b"}, Limit <- 1, MaxCalls <- 3, MaxFaults <- 1,
    dir <- p_dir, at <- p_at, bytes <- p_bytes, byAge <- p_byAge, task <- p_task,
    latest <- p_latest, overlapped <- p_overlapped, cut <- p_cut, served <- p_served,
    calls <- p_calls, faults <- p_faults

Shortcuts_ == INSTANCE Shortcuts WITH
    Users <- {"u"}, Rows <- {1, 2}, Paths <- {"p", "q"}, Folders <- {"d/"},
    Tasks <- Calls, RECENT_LIMIT <- 1, MaxRequests <- 3, MaxChanges <- 3, MaxTime <- 1,
    st <- h_st, path <- h_path, users <- h_users, readers <- h_readers, stars <- h_stars,
    viewed <- h_viewed, now <- h_now, task <- h_task, last <- h_last, wanted <- h_wanted,
    swept <- h_swept, requests <- h_requests, changes <- h_changes

-----------------------------------------------------------------------------
(* Which call is which makes no difference.                                 *)
CallsAlike == Permutations(Calls)

(* The parts that do not run are not there.                                 *)
Absent == "absent"

AccountsAbsent ==
    /\ a_users = Absent /\ a_storages = Absent /\ a_level = Absent /\ a_used = Absent
    /\ a_task = Absent /\ a_unseen = Absent /\ a_requests = Absent /\ a_faults = Absent

SetupAbsent ==
    /\ s_owner = Absent /\ s_chan = Absent /\ s_under = Absent /\ s_workers = Absent
    /\ s_task = Absent /\ s_made = Absent /\ s_said = Absent /\ s_mixed = Absent
    /\ s_crashed = Absent /\ s_left = Absent /\ s_requests = Absent /\ s_faults = Absent

LibraryAbsent ==
    /\ l_path = Absent /\ l_st = Absent /\ l_target = Absent /\ l_of = Absent /\ l_torn = Absent
    /\ l_task = Absent /\ l_asked = Absent /\ l_hangs = Absent

RestoreAbsent ==
    /\ b_now = Absent /\ b_db = Absent /\ b_seq = Absent /\ b_lock = Absent /\ b_tx = Absent
    /\ b_up = Absent /\ b_scratch = Absent /\ b_safety = Absent /\ b_archives = Absent
    /\ b_at = Absent /\ b_src = Absent /\ b_copy = Absent /\ b_late = Absent /\ b_missed = Absent
    /\ b_faults = Absent

SessionsAbsent ==
    /\ e_now = Absent /\ e_valid = Absent /\ e_disabled = Absent /\ e_revs = Absent
    /\ e_file = Absent /\ e_mem = Absent /\ e_eng = Absent /\ e_web = Absent /\ e_page = Absent
    /\ e_pending = Absent /\ e_task = Absent /\ e_off = Absent /\ e_kept = Absent
    /\ e_faults = Absent /\ e_commands = Absent

AppLockAbsent ==
    /\ k_file = Absent /\ k_whole = Absent /\ k_logging = Absent /\ k_task = Absent
    /\ k_lock = Absent /\ k_mixed = Absent /\ k_loose = Absent /\ k_broken = Absent
    /\ k_calls = Absent /\ k_faults = Absent

PreviewCacheAbsent ==
    /\ p_dir = Absent /\ p_at = Absent /\ p_bytes = Absent /\ p_byAge = Absent /\ p_task = Absent
    /\ p_latest = Absent /\ p_overlapped = Absent /\ p_cut = Absent /\ p_served = Absent
    /\ p_calls = Absent /\ p_faults = Absent

ShortcutsAbsent ==
    /\ h_st = Absent /\ h_path = Absent /\ h_users = Absent /\ h_readers = Absent
    /\ h_stars = Absent /\ h_viewed = Absent /\ h_now = Absent /\ h_task = Absent
    /\ h_last = Absent /\ h_wanted = Absent /\ h_swept = Absent /\ h_requests = Absent
    /\ h_changes = Absent

(* A bound of the instance: a second or a fault less than the bounds allow. *)
RestoreBegins == Restore_!Init /\ b_now + b_faults = 1

(* And of the seconds, faults and commands of a session one less, of one    *)
(* that was stored before two less.                                         *)
SessionsBegin ==
    UserSessions_!Init /\ e_now + e_faults + e_commands = IF e_file.base = "" THEN 1 ELSE 2

RecordsInit ==
    /\ chosen \in {"accounts", "setup", "library", "restore", "sessions", "lock", "previews",
                 "shortcuts"}
    /\ IF chosen = "accounts" THEN Accounts_!Init ELSE AccountsAbsent
    /\ IF chosen = "setup" THEN Setup_!Init ELSE SetupAbsent
    /\ IF chosen = "library" THEN Library_!Init ELSE LibraryAbsent
    /\ IF chosen = "restore" THEN RestoreBegins ELSE RestoreAbsent
    /\ IF chosen = "sessions" THEN SessionsBegin ELSE SessionsAbsent
    /\ IF chosen = "lock" THEN AppLock_!Init /\ k_file.logs ELSE AppLockAbsent
    /\ IF chosen = "previews" THEN PreviewCache_!Init ELSE PreviewCacheAbsent
    /\ IF chosen = "shortcuts" THEN Shortcuts_!Init ELSE ShortcutsAbsent

AccountsRuns ==
    /\ chosen = "accounts" /\ Accounts_!Next
    /\ UNCHANGED <<chosen, setupVars, libraryVars, restoreVars, userSessionsVars, lockVars,
                    previewsVars, shortcutsVars>>

SetupRuns ==
    /\ chosen = "setup" /\ Setup_!Next
    /\ UNCHANGED <<chosen, accountsVars, libraryVars, restoreVars, userSessionsVars, lockVars,
                    previewsVars, shortcutsVars>>

LibraryRuns ==
    /\ chosen = "library" /\ Library_!Next
    /\ UNCHANGED <<chosen, accountsVars, setupVars, restoreVars, userSessionsVars, lockVars,
                    previewsVars, shortcutsVars>>

RestoreRuns ==
    /\ chosen = "restore" /\ Restore_!Next
    /\ UNCHANGED <<chosen, accountsVars, setupVars, libraryVars, userSessionsVars, lockVars,
                    previewsVars, shortcutsVars>>

UserSessionsRuns ==
    /\ chosen = "sessions" /\ UserSessions_!Next
    /\ UNCHANGED <<chosen, accountsVars, setupVars, libraryVars, restoreVars, lockVars,
                    previewsVars, shortcutsVars>>

AppLockRuns ==
    /\ chosen = "lock" /\ AppLock_!Next
    /\ UNCHANGED <<chosen, accountsVars, setupVars, libraryVars, restoreVars, userSessionsVars,
                    previewsVars, shortcutsVars>>

PreviewCacheRuns ==
    /\ chosen = "previews" /\ PreviewCache_!Next
    /\ UNCHANGED <<chosen, accountsVars, setupVars, libraryVars, restoreVars, userSessionsVars,
                    lockVars, shortcutsVars>>

ShortcutsRuns ==
    /\ chosen = "shortcuts" /\ Shortcuts_!Next
    /\ UNCHANGED <<chosen, accountsVars, setupVars, libraryVars, restoreVars, userSessionsVars,
                    lockVars, previewsVars>>

RecordsNext ==
    \/ AccountsRuns
    \/ SetupRuns
    \/ LibraryRuns
    \/ RestoreRuns
    \/ UserSessionsRuns
    \/ AppLockRuns
    \/ PreviewCacheRuns
    \/ ShortcutsRuns

RecordsSpec == RecordsInit /\ [][RecordsNext]_recordsVars

-----------------------------------------------------------------------------
(* The making of a storage is one thing, whatever fails on the way but its  *)
(* own undo: a storage has somebody who administers it, a set-up that failed*)
(* leaves nothing, and the chats are linked under the bot that the storage  *)
(* has.  Where the removal of a half-made storage fails as well it stays,   *)
(* without an admin until the next start                                    *)
(* (StoragesService::create, set_bot, SetupService::create_storage).        *)
CreationIsWhole ==
    /\ chosen = "accounts" => Accounts_!TypeOK /\ Accounts_!EveryStorageHasAnAdmin
    /\ chosen = "setup" => Setup_!TypeOK /\ Setup_!FailedLeavesNothing /\ Setup_!ChatsFollowTheirBot

(* Whatever fails, is dropped or is killed in a backup or a restore, the    *)
(* operator can sign in and no copy of the database is left over, with the  *)
(* next start at the latest; and no archive holds a secret of another       *)
(* service (main, scrub_secrets, ScratchFile, cleanup_scratch).             *)
BackupsAreSafe == chosen = "restore" => Restore_!BackupsAreSafe

(* What the client keeps is what was stored: a revoked token stays out and a*)
(* session is lost only to what ends one, the app lock opens for its PIN    *)
(* only, and a preview is given out whole, from a cache within its limit    *)
(* (session_is_live, force_refresh_session_with, apply_dto,                 *)
(* verify_app_lock_pin, cache_put_preview, evict_cache_if_needed).          *)
ClientStateHolds ==
    /\ chosen = "sessions" => UserSessions_!SessionsHold
    /\ chosen = "lock" => AppLock_!LockHolds
    /\ chosen = "previews" => PreviewCache_!PreviewsHold

(* A share link, a star or a view leads to the row it was made for, wherever*)
(* that is renamed or moved, and none of a star or a view is left once that *)
(* is purged (FilesService::rename, move_to, delete, rewrite_share_paths,   *)
(* FavoritesService::add, RecentService::record).                           *)
LinksHold ==
    /\ chosen = "library" => Library_!TypeOK /\ Library_!LinksFollow
    /\ chosen = "shortcuts" => Shortcuts_!ShortcutsHold

(* Admins keep their row and members their storage, but for who may take it *)
(* (guard_admin_target, delete_by_superuser).                               *)
GrantsHold ==
    [][chosen = "accounts" =>
         Accounts_!AdminsAreTheSuperusers /\ Accounts_!SharedIsKept]_recordsVars

(* The source of a move is not what is purged to make room for it, what is  *)
(* in a folder keeps its place, and a folder does not go with its last file *)
(* (resolve_dest_conflict, rewrite_paths, FilesRepository::delete).         *)
TreeIsKept ==
    [][chosen = "library" =>
         Library_!SourceIsKept /\ Library_!KeepsPlaces /\ Library_!FoldersStay]_recordsVars

(* A restore puts the archive, and nothing else, in the place of the        *)
(* database, and what it wipes is in the safety copy                        *)
(* (copy_tables_in_transaction, write_safety_copy).                         *)
RestoreIsFaithful ==
    [][chosen = "restore" => Restore_!RestoreIsExact /\ Restore_!WipedIsCopied]_recordsVars
=============================================================================
