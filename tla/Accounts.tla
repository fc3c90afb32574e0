------------------------------ MODULE Accounts ------------------------------
(***************************************************************************)
(* Users, storages and the access rows between them: creating and deleting  *)
(* users and storages, granting and taking access (services/users.rs,       *)
(* services/storages.rs, repositories/access.rs) and what the start of the  *)
(* server repairs (startup.rs).                                             *)
(*                                                                          *)
(* Each request is a few statements, and the statements of two requests     *)
(* interleave: what one has checked the other may change.                   *)
(***************************************************************************)
EXTENDS Integers, FiniteSets

CONSTANTS
    Root, People,   \* the configured superuser, everybody else
    Storages, Tasks,
    MaxRequests, MaxFaults  \* bounds

Users == People \cup {Root}
Levels == {"none", "r", "w", "a"}

VARIABLES
    users,      \* the users that exist
    storages,   \* the storages that exist
    level,      \* the access rows
    used,       \* history: the users and storages that were ever made
    task,       \* the requests under way
    unseen,     \* history: storages whose creation or grants failed, until the next start
    requests, faults

vars == <<users, storages, level, used, task, unseen, requests, faults>>

Idle == [pc |-> "idle", op |-> "none", actor |-> Root, target |-> Root, sto |-> {}, lvl |-> "none",
         look |-> {}, orphans |-> {}, raced |-> FALSE]

(* The superuser and one owner of a storage to begin with.                  *)
Init ==
    /\ \E owner \in People, s \in Storages :
           /\ users = {Root, owner} /\ storages = {s} /\ used = {owner, s}
           /\ level = [u \in Users |-> [x \in Storages |-> IF u \in users /\ x = s THEN "a" ELSE "none"]]
    /\ task = [t \in Tasks |-> Idle]
    /\ unseen = {} /\ requests = 0 /\ faults = 0

Fault == faults < MaxFaults /\ faults' = faults + 1

(* has_access, for AccessType::A.                                           *)
IsAdmin(u, s) == level[u][s] = "a"

Go(t, rec) == task' = [task EXCEPT ![t] = rec]
At(t, pc) == Go(t, [task[t] EXCEPT !.pc = pc])
Rows == <<users, storages, level, used, unseen>>

(* The one storage of a request.                                            *)
Sto(t) == CHOOSE s \in task[t].sto : TRUE

(* Deleting a storage or a user takes the access rows along.                *)
DropStorage(s) ==
    /\ storages' = storages \ {s} /\ unseen' = unseen \ {s}
    /\ level' = [u \in Users |-> [level[u] EXCEPT ![s] = "none"]]

(* A request of a user whose account is there.                              *)
Ask(t) ==
    /\ task[t] = Idle /\ requests < MaxRequests /\ requests' = requests + 1
    /\ \E op \in {"create", "grant", "restrict", "delete", "remove"}, actor \in users,
          target \in Users, s \in Storages, lvl \in {"r", "a"} :
           /\ op = "create" => s \notin used /\ target = actor /\ lvl = "a"
           /\ op \in {"grant", "restrict"} => target # actor
           /\ op # "grant" => lvl = "a"
           /\ op = "delete" => target = actor
           /\ op = "remove" => actor = Root /\ target \notin {Root, actor} /\ target \in users
           /\ Go(t, [Idle EXCEPT !.pc = "start", !.op = op, !.actor = actor, !.target = target,
                                 !.sto = {s}, !.lvl = lvl])
    /\ UNCHANGED <<Rows, faults>>

-----------------------------------------------------------------------------
(* StoragesService::create.                                                 *)

CreateRow(t) ==
    /\ task[t].pc = "start" /\ task[t].op = "create"
    /\ IF Sto(t) \in used THEN Go(t, Idle) /\ UNCHANGED <<storages, used>>
       ELSE At(t, "owner") /\ storages' = storages \cup task[t].sto /\ used' = used \cup task[t].sto
    /\ UNCHANGED <<users, level, unseen, requests, faults>>

(* grant_for_user_id: refused by the foreign key when the creator is gone,  *)
(* or by a database that fails.                                             *)
GrantForUserId(u, s) == u \in users /\ level' = [level EXCEPT ![u][s] = "a"]

\* mutant: a failed grant leaves the storage
CreateGrantsKeeps(t) ==
    /\ task[t].pc = "owner"
    /\ \/ GrantForUserId(task[t].actor, Sto(t)) /\ At(t, "channels") /\ UNCHANGED faults
       \/ /\ IF task[t].actor \in users THEN Fault ELSE UNCHANGED faults
          /\ Go(t, Idle) /\ UNCHANGED level
    /\ UNCHANGED <<users, storages, unseen, used, requests>>

(* A failed grant undoes the creation.                                      *)
CreateGrants(t) ==
    /\ task[t].pc = "owner"
    /\ \/ GrantForUserId(task[t].actor, Sto(t)) /\ At(t, "channels") /\ UNCHANGED faults
       \/ /\ IF task[t].actor \in users THEN Fault ELSE UNCHANGED faults
          /\ At(t, "undo") /\ UNCHANGED level
    /\ UNCHANGED <<users, storages, unseen, used, requests>>

(* A channel that cannot be linked undoes the whole.                        *)
CreateChannels(t) ==
    /\ task[t].pc = "channels"
    /\ \/ Sto(t) \in storages /\ At(t, "root") /\ UNCHANGED faults
       \/ /\ IF Sto(t) \in storages THEN Fault ELSE UNCHANGED faults
          /\ At(t, "undo")
    /\ UNCHANGED <<Rows, requests>>

(* The storage goes again; should that fail too, nobody hears of it.        *)
CreateUndone(t) ==
    /\ task[t].pc = "undo" /\ Go(t, Idle)
    /\ \/ DropStorage(Sto(t)) /\ UNCHANGED faults
       \/ /\ Fault /\ unseen' = unseen \cup (task[t].sto \cap storages)
          /\ UNCHANGED <<storages, level>>
    /\ UNCHANGED <<users, used, requests>>

(* The superuser's row is a matter of best effort.                          *)
CreateForRoot(t) ==
    /\ task[t].pc = "root"
    /\ \/ /\ Sto(t) \in storages
          /\ level' = [level EXCEPT ![Root][Sto(t)] = "a"] /\ UNCHANGED <<unseen, faults>>
       \/ /\ IF Sto(t) \in storages THEN Fault ELSE UNCHANGED faults
          /\ unseen' = unseen \cup (task[t].sto \cap storages) /\ UNCHANGED level
    /\ Go(t, Idle)
    /\ UNCHANGED <<users, storages, used, requests>>

-----------------------------------------------------------------------------
(* grant_access and restrict_access.                                        *)

(* check_access, and what is refused without a look at the members.         *)
AccessChecked(t) ==
    /\ task[t].pc = "start" /\ task[t].op \in {"grant", "restrict"}
    /\ IF /\ IsAdmin(task[t].actor, Sto(t))
          /\ task[t].actor # Root /\ task[t].op = "grant" => task[t].target # Root /\ task[t].lvl # "a"
       THEN At(t, "guard") ELSE Go(t, Idle)
    /\ UNCHANGED <<Rows, requests, faults>>

\* mutant: only the superuser's row is guarded
GuardTargetRoot(t) ==
    /\ task[t].pc = "guard"
    /\ IF task[t].actor = Root \/ task[t].target # Root THEN At(t, "write") ELSE Go(t, Idle)
    /\ UNCHANGED <<Rows, requests, faults>>

(* guard_admin_target: admins do not manage admins, nor the superuser.      *)
GuardTarget(t) ==
    /\ task[t].pc = "guard"
    /\ IF task[t].actor = Root \/ (task[t].target # Root /\ ~IsAdmin(task[t].target, Sto(t)))
       THEN At(t, "write") ELSE Go(t, Idle)
    /\ UNCHANGED <<Rows, requests, faults>>

(* A request that looked at the row before, and relies on what it saw.      *)
Overtaken(u, t, v, s) ==
    \/ u # t /\ task[u].pc = "write" /\ task[u].target = v /\ s \in task[u].sto
    \/ task[u].op = "remove" /\ s \in task[u].orphans

Write(t, v, s, lvl) ==
    /\ level' = [level EXCEPT ![v][s] = lvl]
    /\ task' = [u \in Tasks |-> IF u = t THEN Idle
                                ELSE [task[u] EXCEPT !.raced = @ \/ Overtaken(u, t, v, s)]]

(* create_or_update: the user is found by address, the storage must exist.  *)
Grant(t) ==
    /\ task[t].pc = "write" /\ task[t].op = "grant"
    /\ IF task[t].target \in users /\ Sto(t) \in storages
       THEN Write(t, task[t].target, Sto(t), task[t].lvl)
       ELSE Go(t, Idle) /\ UNCHANGED level
    /\ UNCHANGED <<users, storages, used, unseen, requests, faults>>

(* delete_access.                                                           *)
Restrict(t) ==
    /\ task[t].pc = "write" /\ task[t].op = "restrict"
    /\ Write(t, task[t].target, Sto(t), "none")
    /\ UNCHANGED <<users, storages, used, unseen, requests, faults>>

(* StoragesService::delete, by an admin.                                    *)
DeleteChecked(t) ==
    /\ task[t].pc = "start" /\ task[t].op = "delete"
    /\ IF IsAdmin(task[t].actor, Sto(t)) THEN At(t, "drop") ELSE Go(t, Idle)
    /\ UNCHANGED <<Rows, requests, faults>>

Delete(t) ==
    /\ task[t].pc = "drop"
    /\ DropStorage(Sto(t)) /\ Go(t, Idle)
    /\ UNCHANGED <<users, used, requests, faults>>

-----------------------------------------------------------------------------
(* UsersService.                                                            *)

(* create_by_superuser: the address is new.                                 *)
CreateUser ==
    /\ \E u \in People \ used : users' = users \cup {u} /\ used' = used \cup {u}
    /\ UNCHANGED <<storages, level, task, unseen, requests, faults>>

(* delete_by_superuser: the storages of the user are listed,                *)
RemoveLists(t) ==
    /\ task[t].pc = "start" /\ task[t].op = "remove"
    /\ Go(t, [task[t] EXCEPT !.pc = "look",
                             !.look = {s \in storages : level[task[t].target][s] # "none"}])
    /\ UNCHANGED <<Rows, requests, faults>>

\* mutant: a storage is its owner's when somebody else's row is the superuser's
OnlyOwnerAny(v, s) ==
    /\ level[v][s] = "a" /\ level[Root][s] # "none"

(* one with no other member than the superuser, and the user its admin,     *)
(* goes with the user,                                                      *)
OnlyOwner(v, s) ==
    /\ level[v][s] = "a"
    /\ \A u \in People \ {v} : level[u][s] = "none"

RemoveLooks(t) ==
    /\ task[t].pc = "look"
    /\ IF task[t].look = {} THEN At(t, "purge")
       ELSE \E s \in task[t].look :
                Go(t, [task[t] EXCEPT !.look = @ \ {s},
                           !.orphans = @ \cup (IF OnlyOwner(task[t].target, s) THEN {s} ELSE {})])
    /\ UNCHANGED <<Rows, requests, faults>>

(* each in a transaction of its own, the request failing where one does,    *)
RemovePurges(t) ==
    /\ task[t].pc = "purge"
    /\ \E s \in task[t].orphans :
           \/ /\ DropStorage(s) /\ Go(t, [task[t] EXCEPT !.orphans = @ \ {s}])
              /\ UNCHANGED faults
           \/ Fault /\ Go(t, Idle) /\ UNCHANGED <<storages, level, unseen>>
    /\ UNCHANGED <<users, used, requests>>

(* and then the user, whose rows cascade.                                   *)
RemoveUser(t) ==
    /\ task[t].pc = "purge" /\ task[t].orphans = {}
    /\ users' = users \ {task[t].target}
    /\ level' = [level EXCEPT ![task[t].target] = [s \in Storages |-> "none"]]
    /\ Go(t, Idle)
    /\ UNCHANGED <<storages, used, unseen, requests, faults>>

-----------------------------------------------------------------------------
(* A client hangs up: its request ends where it waits.                      *)
HangUp(t) ==
    /\ task[t] # Idle /\ Fault /\ Go(t, Idle)
    /\ unseen' = IF task[t].pc \in {"owner", "channels", "root", "undo"}
                 THEN unseen \cup (task[t].sto \cap storages) ELSE unseen
    /\ UNCHANGED <<users, storages, level, used, requests>>

(* The server restarts: the superuser gets a row on every storage           *)
(* (grant_superuser_access_to_all_storages).                                *)
Restart ==
    /\ Fault
    /\ task' = [t \in Tasks |-> Idle]
    /\ level' = [level EXCEPT ![Root] = [s \in Storages |-> IF s \in storages THEN "a" ELSE "none"]]
    /\ unseen' = {}
    /\ UNCHANGED <<users, storages, used, requests>>

(* No request comes.                                                        *)
Quiet == UNCHANGED vars

Next ==
    \/ CreateUser \/ Restart \/ Quiet
    \/ \E t \in Tasks :
           \/ Ask(t) \/ HangUp(t)
           \/ CreateRow(t) \/ CreateGrants(t) \/ CreateChannels(t) \/ CreateForRoot(t)
           \/ CreateUndone(t)
           \/ AccessChecked(t) \/ GuardTarget(t) \/ Grant(t) \/ Restrict(t)
           \/ DeleteChecked(t) \/ Delete(t)
           \/ RemoveLists(t) \/ RemoveLooks(t) \/ RemovePurges(t) \/ RemoveUser(t)

Spec == Init /\ [][Next]_vars

-----------------------------------------------------------------------------
(* An access row has its user and its storage (the schema's foreign keys).  *)
TypeOK ==
    /\ level \in [Users -> [Storages -> Levels]] /\ Root \in users
    /\ \A u \in Users, s \in Storages : level[u][s] # "none" => u \in users /\ s \in storages

(* Every storage has an admin who exists, but for one that is being made    *)
(* and one whose creation was cut short, or failed together with its undo,  *)
(* or whose row for the superuser failed: the next start repairs these      *)
(* (StoragesService::create, delete_by_superuser, guard_admin_target,       *)
(* grant_superuser_access_to_all_storages).                                 *)
EveryStorageHasAnAdmin ==
    \A s \in storages :
        \/ \E u \in users : IsAdmin(u, s)
        \/ s \in unseen
        \/ \E t \in Tasks :
               s \in task[t].sto /\ task[t].pc \in {"owner", "channels", "root", "undo"}

(* Nobody but the superuser takes away or lowers an admin's row, save when  *)
(* the superuser gave it after the request had looked                       *)
(* (guard_admin_target).                                                    *)
AdminsAreTheSuperusers ==
    \A u \in users', s \in storages' :
        IsAdmin(u, s) /\ ~IsAdmin(u, s)' =>
            \E t \in Tasks : /\ task[t].pc = "write" /\ task[t].target = u /\ s \in task[t].sto
                             /\ task[t].actor = Root \/ task[t].raced

OnlyMember(v, s) ==
    (v \in users => IsAdmin(v, s)) /\ \A u \in users \ {v, Root} : level[u][s] = "none"

(* Removing a user destroys no storage that somebody else was given, and    *)
(* none of which the user was a mere member, save by a grant that came      *)
(* after the look (delete_by_superuser).                                    *)
SharedIsKept ==
    \A t \in Tasks, s \in storages \ storages' :
        task[t].pc = "purge" /\ task'[t].pc = "purge" /\ s \in task[t].orphans \ task'[t].orphans
            => OnlyMember(task[t].target, s) \/ task[t].raced

(* What somebody was given is taken only by who may take it: admins keep    *)
(* their row and members their storage (guard_admin_target,                 *)
(* delete_by_superuser).                                                    *)
GrantsHold == [][AdminsAreTheSuperusers /\ SharedIsKept]_vars
=============================================================================
