---------------------------- MODULE RecordsProofs ----------------------------
(***************************************************************************)
(* Proofs about the records the server keeps of its storages.               *)
(*                                                                         *)
(* MCRecords, for any people, storages, requests and bounds: what somebody  *)
(* was given is taken only by who may take it, a storage is made as a whole *)
(* or not at all, and a backup or a restore, whatever fails or is killed,   *)
(* loses nothing and gives no secret away.                                  *)
(*                                                                         *)
(* StorageChannels, for any number of slots, channels, chats, chunks and    *)
(* administrators and any bounds: type correctness, distinct slots and      *)
(* chats, and that a stored copy is never demoted.                          *)
(***************************************************************************)
EXTENDS StorageChannels, MCRecords, FiniteSetTheorems, WellFoundedInduction, TLAPS

-----------------------------------------------------------------------------
(* Accounts: the inductive invariant.                                       *)

AccountSteps ==
    {"idle", "start", "owner", "channels", "root", "undo", "guard", "write", "drop", "look", "purge"}
AccountTask ==
    [pc : AccountSteps, op : {"none", "create", "grant", "restrict", "delete", "remove"},
     actor : Accounts_!Users, target : Accounts_!Users, sto : SUBSET Storages,
     lvl : Accounts_!Levels, look : SUBSET Storages, orphans : SUBSET Storages, raced : BOOLEAN]

AccountRows ==
    /\ a_users \subseteq Accounts_!Users /\ a_storages \subseteq Storages
    /\ a_storages \subseteq a_used /\ a_users \ {"root"} \subseteq a_used
    /\ Accounts_!TypeOK

(* What a request is at, and what it knows by then.                         *)
AccountTasks ==
    /\ a_task \in [Calls -> AccountTask]
    /\ \A t \in Calls : a_task[t].pc # "idle" => \E s \in Storages : a_task[t].sto = {s}
    /\ \A t \in Calls : a_task[t].pc = "idle" =>
          /\ a_task[t].op = "none" /\ a_task[t].sto = {} /\ a_task[t].look = {}
          /\ a_task[t].orphans = {}
    /\ \A t \in Calls :
          /\ a_task[t].pc \in {"guard", "write"} => a_task[t].op \in {"grant", "restrict"}
          /\ a_task[t].pc \in {"look", "purge"} => a_task[t].op = "remove"
          /\ a_task[t].look # {} \/ a_task[t].orphans # {} => a_task[t].pc \in {"look", "purge"}
          /\ a_task[t].op = "remove" => a_task[t].target # "root" /\ a_task[t].target \in a_used
          /\ a_task[t].op \in {"grant", "restrict"} => a_task[t].target # a_task[t].actor

(* Past its start a request works on a storage that exists or did, so that  *)
(* no new storage gets its id.                                              *)
PassiveSteps == {"idle", "start", "look", "purge"}
StoragesInUse ==
    \A t \in Calls :
        /\ a_task[t].pc \notin PassiveSteps => a_task[t].sto \subseteq a_used
        /\ a_task[t].look \cup a_task[t].orphans \subseteq a_used

(* A storage whose owner is still to be entered is known to nobody else.    *)
NewIsUntouched ==
    \A t \in Calls, s \in Storages : a_task[t].pc = "owner" /\ s \in a_task[t].sto =>
        /\ s \in a_storages /\ \A u \in Accounts_!Users : a_level[u][s] = "none"
        /\ \A v \in Calls \ {t} :
              /\ s \in a_task[v].sto => a_task[v].pc \in {"idle", "start", "look", "purge"}
              /\ s \notin a_task[v].look \cup a_task[v].orphans

(* The superuser administers every storage but one that is being made, or   *)
(* whose making broke off there.                                            *)
MakesStorage(t) == a_task[t].pc \in {"owner", "channels", "root", "undo"}
RootSees ==
    \A s \in a_storages :
        \/ Accounts_!IsAdmin("root", s) \/ s \in a_unseen
        \/ \E t \in Calls : s \in a_task[t].sto /\ MakesStorage(t)

(* Who is about to write an admin's row is the superuser, or the target     *)
(* became an admin after the look at it.                                    *)
AdminIsKept ==
    \A t \in Calls, s \in Storages : a_task[t].pc = "write" /\ s \in a_task[t].sto =>
        /\ a_task[t].target # "root"
        /\ a_task[t].actor # "root" /\ ~a_task[t].raced
           => ~Accounts_!IsAdmin(a_task[t].target, s)

(* A storage on the list of what goes with a user is that user's alone, or  *)
(* was given to somebody after the look at it.                              *)
OrphansHold ==
    \A t \in Calls : \A s \in a_task[t].orphans \cap a_storages :
        a_task[t].raced \/ Accounts_!OnlyMember(a_task[t].target, s)

AccountsHold ==
    /\ AccountRows /\ AccountTasks /\ StoragesInUse /\ NewIsUntouched /\ RootSees /\ AdminIsKept
    /\ OrphansHold

-----------------------------------------------------------------------------
(* What the requests are, and how they go on.                               *)

LEMMA TaskShapes ==
    /\ Accounts_!Idle \in AccountTask
    /\ Accounts_!Idle.pc = "idle" /\ Accounts_!Idle.op = "none"
    /\ Accounts_!Idle.look = {} /\ Accounts_!Idle.orphans = {} /\ Accounts_!Idle.sto = {}
    /\ \A c \in AccountTask : \A p \in AccountSteps : [c EXCEPT !.pc = p] \in AccountTask
<1>1. Accounts_!Idle \in AccountTask
  BY DEF AccountTask, AccountSteps, Accounts_!Idle, Accounts_!Users, Accounts_!Levels
<1>2. /\ Accounts_!Idle.pc = "idle" /\ Accounts_!Idle.op = "none"
      /\ Accounts_!Idle.look = {} /\ Accounts_!Idle.orphans = {} /\ Accounts_!Idle.sto = {}
  BY DEF Accounts_!Idle
<1>3. ASSUME NEW c \in AccountTask, NEW p \in AccountSteps
      PROVE  [c EXCEPT !.pc = p] \in AccountTask
  BY DEF AccountTask
<1> QED BY <1>1, <1>2, <1>3

LEMMA StoIs ==
  ASSUME NEW t \in Calls, NEW s, a_task[t].sto = {s}
  PROVE  Accounts_!Sto(t) = s
BY DEF Accounts_!Sto

(* What a request asks for.                                                 *)
AskedFor(t, op, actor, target, s, lvl) ==
    /\ op = "create" => s \notin a_used /\ target = actor /\ lvl = "a"
    /\ op \in {"grant", "restrict"} => target # actor
    /\ op # "grant" => lvl = "a"
    /\ op = "delete" => target = actor
    /\ op = "remove" => actor = "root" /\ target \notin {"root", actor} /\ target \in a_users
    /\ Accounts_!Go(t, [Accounts_!Idle EXCEPT !.pc = "start", !.op = op, !.actor = actor,
                                              !.target = target, !.sto = {s}, !.lvl = lvl])

LEMMA AskIs ==
  ASSUME NEW t \in Calls, Accounts_!Ask(t)
  PROVE  \E op \in {"create", "grant", "restrict", "delete", "remove"}, actor \in a_users,
            target \in Accounts_!Users, s \in Storages, lvl \in {"r", "a"} :
                AskedFor(t, op, actor, target, s, lvl)
BY Zenon DEF Accounts_!Ask, AskedFor

LEMMA AccountTasksStep ==
  ASSUME AccountsHold, Accounts_!Next
  PROVE  AccountTasks'
<1> USE DEF Accounts_!Go, Accounts_!At
<1>0. /\ AccountTasks /\ a_task \in [Calls -> AccountTask]
      /\ a_users \subseteq Accounts_!Users
      /\ "root" \in Accounts_!Users
  BY DEF AccountsHold, AccountTasks, AccountRows, Accounts_!Users
<1>a. ASSUME NEW t \in Calls, NEW c \in AccountTask, a_task' = [a_task EXCEPT ![t] = c],
             c.pc # "idle" => \E s \in Storages : c.sto = {s},
             c.pc = "idle" => c.op = "none" /\ c.sto = {} /\ c.look = {} /\ c.orphans = {},
             c.pc \in {"guard", "write"} => c.op \in {"grant", "restrict"},
             c.pc \in {"look", "purge"} => c.op = "remove",
             c.look # {} \/ c.orphans # {} => c.pc \in {"look", "purge"},
             c.op = "remove" => c.target # "root" /\ c.target \in a_used',
             c.op \in {"grant", "restrict"} => c.target # c.actor,
             a_used \subseteq a_used'
      PROVE  AccountTasks'
  <2>1. a_task' \in [Calls -> AccountTask]
    BY <1>0, <1>a
  <2>2. \A u \in Calls : a_task'[u] = IF u = t THEN c ELSE a_task[u]
    BY <1>0, <1>a
  <2> QED BY <1>0, <1>a, <2>1, <2>2, TaskShapes DEF AccountTasks
<1>1. ASSUME UNCHANGED <<a_task, a_used>> PROVE AccountTasks'
  BY <1>0, <1>1 DEF AccountTasks
<1> USE DEF Accounts_!Rows, Accounts_!Fault
<1>2. ASSUME NEW t \in Calls, Accounts_!Ask(t) PROVE AccountTasks'
  <2>1. PICK op \in {"create", "grant", "restrict", "delete", "remove"}, actor \in a_users,
             target \in Accounts_!Users, s \in Storages, lvl \in {"r", "a"} :
                 AskedFor(t, op, actor, target, s, lvl)
    BY <1>2, AskIs
  <2> DEFINE c == [Accounts_!Idle EXCEPT !.pc = "start", !.op = op, !.actor = actor,
                                         !.target = target, !.sto = {s}, !.lvl = lvl]
  <2>0. a_task' = [a_task EXCEPT ![t] = c] /\ a_used' = a_used
    BY <1>2, <2>1 DEF Accounts_!Ask, AskedFor, Accounts_!Rows
  <2>2. /\ c \in AccountTask /\ c.pc = "start" /\ c.op = op /\ c.actor = actor
        /\ c.target = target /\ c.sto = {s} /\ c.look = {} /\ c.orphans = {}
    BY <1>0 DEF AccountTask, AccountSteps, Accounts_!Idle, Accounts_!Levels
  <2>3. /\ op = "remove" => target # "root" /\ target \in a_used
        /\ op \in {"grant", "restrict"} => target # actor
    BY <2>1 DEF AskedFor, AccountsHold, AccountRows
  <2> HIDE DEF c
  <2> QED BY <1>a, <2>0, <2>2, <2>3
<1>b. ASSUME NEW t \in Calls, NEW p \in AccountSteps \ {"idle"}, a_task[t].pc # "idle",
             a_task' = [a_task EXCEPT ![t] = [a_task[t] EXCEPT !.pc = p]],
             p \in {"guard", "write"} => a_task[t].op \in {"grant", "restrict"},
             p \in {"look", "purge"} => a_task[t].op = "remove",
             a_task[t].pc \in {"look", "purge"} => p \in {"look", "purge"},
             a_used \subseteq a_used'
      PROVE  AccountTasks'
  <2> DEFINE c == [a_task[t] EXCEPT !.pc = p]
  <2>0. a_task[t] \in AccountTask
    BY <1>0
  <2>1. c \in AccountTask
    BY <2>0, TaskShapes
  <2>2. /\ c.pc = p /\ c.op = a_task[t].op /\ c.actor = a_task[t].actor
        /\ c.target = a_task[t].target /\ c.sto = a_task[t].sto /\ c.look = a_task[t].look
        /\ c.orphans = a_task[t].orphans
    BY <2>0 DEF AccountTask
  <2> HIDE DEF c
  <2> QED BY <1>0, <1>a, <1>b, <2>1, <2>2 DEF AccountTasks, c
<1>c. ASSUME NEW t \in Calls, a_task' = [a_task EXCEPT ![t] = Accounts_!Idle],
             a_used \subseteq a_used'
      PROVE  AccountTasks'
  <2> DEFINE c == Accounts_!Idle
  <2>1. /\ c \in AccountTask /\ c = Accounts_!Idle /\ c.pc = "idle" /\ c.op = "none"
           /\ c.sto = {}
        /\ c.look = {} /\ c.orphans = {}
    BY TaskShapes
  <2> HIDE DEF c
  <2> QED BY <1>a, <1>c, <2>1
<1>3. ASSUME NEW t \in Calls, Accounts_!CreateRow(t) PROVE AccountTasks'
  BY <1>3, <1>b, <1>c DEF Accounts_!CreateRow, AccountSteps
<1>4. ASSUME NEW t \in Calls, Accounts_!CreateGrants(t) PROVE AccountTasks'
  BY <1>4, <1>b, <1>c DEF Accounts_!CreateGrants, AccountSteps
<1>5. ASSUME NEW t \in Calls, Accounts_!CreateChannels(t) PROVE AccountTasks'
  BY <1>5, <1>b, <1>c DEF Accounts_!CreateChannels, AccountSteps
<1>6. ASSUME NEW t \in Calls, Accounts_!CreateForRoot(t) PROVE AccountTasks'
  BY <1>6, <1>c DEF Accounts_!CreateForRoot
<1>7. ASSUME NEW t \in Calls, Accounts_!AccessChecked(t) PROVE AccountTasks'
  BY <1>7, <1>b, <1>c DEF Accounts_!AccessChecked, AccountSteps
<1>8. ASSUME NEW t \in Calls, Accounts_!GuardTarget(t) PROVE AccountTasks'
  BY <1>0, <1>8, <1>b, <1>c DEF Accounts_!GuardTarget, AccountSteps, AccountTasks
<1>9. ASSUME NEW t \in Calls, Accounts_!Grant(t) \/ Accounts_!Restrict(t) PROVE AccountTasks'
  <2> DEFINE Overtakes(v, s) == a_task' =
                 [u \in Calls |-> IF u = t THEN Accounts_!Idle
                      ELSE [a_task[u] EXCEPT !.raced = @ \/ Accounts_!Overtaken(u, t, v, s)]]
  <2>1. /\ a_used' = a_used
        /\ \/ a_task' = [a_task EXCEPT ![t] = Accounts_!Idle]
           \/ \E v, s : Overtakes(v, s)
    BY <1>9 DEF Accounts_!Grant, Accounts_!Restrict, Accounts_!Write
  <2>2. CASE a_task' = [a_task EXCEPT ![t] = Accounts_!Idle]
    BY <2>1, <2>2, <1>c
  <2>3. ASSUME NEW v, NEW s, Overtakes(v, s)
        PROVE  AccountTasks'
    <3>1. ASSUME NEW u \in Calls
          PROVE  /\ a_task'[u] \in AccountTask
                 /\ u = t => a_task'[u] = Accounts_!Idle
                 /\ u # t => /\ a_task'[u].pc = a_task[u].pc /\ a_task'[u].op = a_task[u].op
                             /\ a_task'[u].actor = a_task[u].actor
                             /\ a_task'[u].target = a_task[u].target
                             /\ a_task'[u].sto = a_task[u].sto
                             /\ a_task'[u].look = a_task[u].look
                             /\ a_task'[u].orphans = a_task[u].orphans
      <4>1. a_task[u] \in AccountTask
        BY <1>0
      <4>2. (a_task[u].raced \/ Accounts_!Overtaken(u, t, v, s)) \in BOOLEAN
        BY Zenon
      <4>3. CASE u = t
        BY <2>3, <4>3, TaskShapes
      <4>4. CASE u # t
        <5> DEFINE b == a_task[u].raced \/ Accounts_!Overtaken(u, t, v, s)
        <5>1. a_task'[u] = [a_task[u] EXCEPT !.raced = b]
          BY <2>3, <4>4
        <5>2. b \in BOOLEAN
          BY <4>2
        <5> HIDE DEF b
        <5> QED BY <4>1, <4>4, <5>1, <5>2 DEF AccountTask
      <4> QED BY <4>3, <4>4
    <3>2. a_task' \in [Calls -> AccountTask]
      BY <2>3, <3>1
    <3>3. a_used \subseteq a_used'
      BY <2>1
    <3>4. ASSUME NEW u \in Calls
          PROVE  /\ a_task'[u].pc # "idle" => \E x \in Storages : a_task'[u].sto = {x}
                 /\ a_task'[u].pc = "idle" =>
                       /\ a_task'[u].op = "none" /\ a_task'[u].sto = {} /\ a_task'[u].look = {}
                       /\ a_task'[u].orphans = {}
      <4>1. CASE u = t
        BY <3>1, <4>1, TaskShapes
      <4>2. CASE u # t
        BY <1>0, <3>1, <4>2 DEF AccountTasks
      <4> QED BY <4>1, <4>2
    <3>5. ASSUME NEW u \in Calls
          PROVE  /\ a_task'[u].pc \in {"guard", "write"} => a_task'[u].op \in {"grant", "restrict"}
                 /\ a_task'[u].pc \in {"look", "purge"} => a_task'[u].op = "remove"
                 /\ a_task'[u].look # {} \/ a_task'[u].orphans # {} =>
                       a_task'[u].pc \in {"look", "purge"}
                 /\ a_task'[u].op = "remove" =>
                       a_task'[u].target # "root" /\ a_task'[u].target \in a_used'
                 /\ a_task'[u].op \in {"grant", "restrict"} => a_task'[u].target # a_task'[u].actor
      <4>1. CASE u = t
        BY <3>1, <4>1, TaskShapes
      <4>2. CASE u # t
        BY <1>0, <3>1, <3>3, <4>2 DEF AccountTasks
      <4> QED BY <4>1, <4>2
    <3> QED BY <3>2, <3>4, <3>5 DEF AccountTasks
  <2> HIDE DEF Overtakes
  <2> QED BY <2>1, <2>2, <2>3
<1>10. ASSUME NEW t \in Calls, Accounts_!DeleteChecked(t) PROVE AccountTasks'
  BY <1>10, <1>b, <1>c DEF Accounts_!DeleteChecked, AccountSteps
<1>11. ASSUME NEW t \in Calls, Accounts_!Delete(t) \/ Accounts_!RemoveUser(t)
              \/ Accounts_!HangUp(t) \/ Accounts_!CreateUndone(t)
       PROVE  AccountTasks'
  BY <1>11, <1>c DEF Accounts_!Delete, Accounts_!RemoveUser, Accounts_!HangUp,
     Accounts_!CreateUndone
<1>12. ASSUME NEW t \in Calls, NEW look \in SUBSET Storages, NEW orphans \in SUBSET Storages,
              NEW p \in {"look", "purge"}, a_task[t].op = "remove", a_task[t].pc # "idle",
              a_task' = [a_task EXCEPT ![t] =
                           [a_task[t] EXCEPT !.pc = p, !.look = look, !.orphans = orphans]],
              a_used \subseteq a_used'
       PROVE  AccountTasks'
  <2> DEFINE c == [a_task[t] EXCEPT !.pc = p, !.look = look, !.orphans = orphans]
  <2>0. a_task[t] \in AccountTask
    BY <1>0
  <2>1. /\ c \in AccountTask /\ c.pc = p /\ c.op = "remove" /\ c.sto = a_task[t].sto
        /\ c.target = a_task[t].target /\ c.actor = a_task[t].actor
    BY <1>12, <2>0 DEF AccountTask, AccountSteps
  <2> HIDE DEF c
  <2>2. a_task' = [a_task EXCEPT ![t] = c]
    BY <1>12 DEF c
  <2> QED BY <1>0, <1>a, <1>12, <2>1, <2>2 DEF AccountTasks
<1>13. ASSUME NEW t \in Calls, Accounts_!RemoveLists(t) PROVE AccountTasks'
  <2> DEFINE look == {s \in a_storages : a_level[a_task[t].target][s] # "none"}
  <2>1. /\ look \in SUBSET Storages /\ a_task[t].orphans \in SUBSET Storages
        /\ a_task[t] \in AccountTask
    BY <1>0 DEF AccountsHold, AccountRows, AccountTask
  <2>2. /\ a_task' = [a_task EXCEPT ![t] = [a_task[t] EXCEPT !.pc = "look", !.look = look]]
        /\ a_task[t].pc = "start" /\ a_task[t].op = "remove" /\ a_used' = a_used
    BY <1>13 DEF Accounts_!RemoveLists
  <2> HIDE DEF look
  <2>3. [a_task[t] EXCEPT !.pc = "look", !.look = look]
          = [a_task[t] EXCEPT !.pc = "look", !.look = look, !.orphans = a_task[t].orphans]
    BY <2>1 DEF AccountTask
  <2> QED BY <1>12, <2>1, <2>2, <2>3
<1>14. ASSUME NEW t \in Calls, Accounts_!RemoveLooks(t) PROVE AccountTasks'
  <2>1. /\ a_task[t] \in AccountTask /\ a_task[t].pc = "look" /\ a_task[t].op = "remove"
        /\ a_used' = a_used
    BY <1>0, <1>14 DEF Accounts_!RemoveLooks, AccountTasks
  <2>2. CASE a_task' = [a_task EXCEPT ![t] = [a_task[t] EXCEPT !.pc = "purge"]]
    BY <1>b, <2>1, <2>2 DEF AccountSteps
  <2>3. CASE a_task[t].look # {}
    <3>1. PICK s \in a_task[t].look :
             a_task' = [a_task EXCEPT ![t] = [a_task[t] EXCEPT !.look = @ \ {s},
                !.orphans = @ \cup (IF Accounts_!OnlyOwner(a_task[t].target,
                s) THEN {s} ELSE {})]]
      BY <1>14, <2>3 DEF Accounts_!RemoveLooks
    <3> DEFINE look == a_task[t].look \ {s}
               orphans == a_task[t].orphans
                            \cup (IF Accounts_!OnlyOwner(a_task[t].target, s) THEN {s} ELSE {})
    <3>2. look \in SUBSET Storages /\ orphans \in SUBSET Storages
      BY <2>1 DEF AccountTask
    <3>3. a_task' = [a_task EXCEPT ![t] = [a_task[t] EXCEPT !.look = look, !.orphans = orphans]]
      BY <3>1
    <3> HIDE DEF look, orphans
    <3>4. [a_task[t] EXCEPT !.look = look, !.orphans = orphans]
            = [a_task[t] EXCEPT !.pc = "look", !.look = look, !.orphans = orphans]
      BY <2>1 DEF AccountTask
    <3> QED BY <1>12, <2>1, <3>2, <3>3, <3>4
  <2> QED BY <1>14, <2>2, <2>3 DEF Accounts_!RemoveLooks
<1>15. ASSUME NEW t \in Calls, Accounts_!RemovePurges(t) PROVE AccountTasks'
  <2>1. /\ a_task[t] \in AccountTask /\ a_task[t].pc = "purge" /\ a_task[t].op = "remove"
        /\ a_used' = a_used
    BY <1>0, <1>15 DEF Accounts_!RemovePurges, AccountTasks
  <2>2. CASE a_task' = [a_task EXCEPT ![t] = Accounts_!Idle]
    BY <1>c, <2>1, <2>2
  <2>3. ASSUME NEW s \in a_task[t].orphans,
               a_task' = [a_task EXCEPT ![t] = [a_task[t] EXCEPT !.orphans = @ \ {s}]]
        PROVE  AccountTasks'
    <3> DEFINE orphans == a_task[t].orphans \ {s}
    <3>1. a_task[t].look \in SUBSET Storages /\ orphans \in SUBSET Storages
      BY <2>1 DEF AccountTask
    <3>2. a_task' = [a_task EXCEPT ![t] = [a_task[t] EXCEPT !.orphans = orphans]]
      BY <2>3
    <3> HIDE DEF orphans
    <3>3. [a_task[t] EXCEPT !.orphans = orphans]
            = [a_task[t] EXCEPT !.pc = "purge", !.look = a_task[t].look, !.orphans = orphans]
      BY <2>1 DEF AccountTask
    <3> QED BY <1>12, <2>1, <3>1, <3>2, <3>3
  <2> QED BY <1>15, <2>2, <2>3 DEF Accounts_!RemovePurges
<1>16. CASE Accounts_!CreateUser
  <2>1. a_task' = a_task /\ a_used \subseteq a_used'
    BY <1>16 DEF Accounts_!CreateUser
  <2> QED BY <1>0, <2>1 DEF AccountTasks
<1>17. CASE Accounts_!Restart
  <2>1. a_task' = [t \in Calls |-> Accounts_!Idle]
    BY <1>17 DEF Accounts_!Restart
  <2> QED BY <2>1, TaskShapes DEF AccountTasks
<1>18. CASE Accounts_!Quiet
  BY <1>1, <1>18 DEF Accounts_!Quiet, Accounts_!vars
<1> QED BY <1>2, <1>3, <1>4, <1>5, <1>6, <1>7, <1>8, <1>9, <1>10, <1>11, <1>13, <1>14, <1>15,
           <1>16, <1>17, <1>18 DEF Accounts_!Next

-----------------------------------------------------------------------------
(* What the steps change, point by point.                                   *)

LevelsTyped == a_level \in [Accounts_!Users -> [Storages -> Accounts_!Levels]]

SetsLevel(u, s, l) == a_level' = [a_level EXCEPT ![u][s] = l]
SetsRow(u, f) == a_level' = [a_level EXCEPT ![u] = f]

LEMMA LevelSet ==
  ASSUME LevelsTyped, NEW u \in Accounts_!Users, NEW s \in Storages, NEW l \in Accounts_!Levels,
         SetsLevel(u, s, l)
  PROVE  /\ LevelsTyped'
         /\ \A v \in Accounts_!Users, x \in Storages :
               a_level'[v][x] = IF v = u /\ x = s THEN l ELSE a_level[v][x]
<1>1. a_level[u] \in [Storages -> Accounts_!Levels]
  BY DEF LevelsTyped
<1>2. a_level' = [a_level EXCEPT ![u] = [a_level[u] EXCEPT ![s] = l]]
  BY DEF SetsLevel
<1>3. [a_level[u] EXCEPT ![s] = l] \in [Storages -> Accounts_!Levels]
  BY <1>1
<1>4. LevelsTyped'
  BY <1>2, <1>3 DEF LevelsTyped
<1> QED BY <1>1, <1>2, <1>4 DEF LevelsTyped

LEMMA LevelDropped ==
  ASSUME LevelsTyped, NEW s, Accounts_!DropStorage(s)
  PROVE  /\ LevelsTyped'
         /\ \A v \in Accounts_!Users, x \in Storages :
               a_level'[v][x] = IF x = s THEN "none" ELSE a_level[v][x]
         /\ a_storages' = a_storages \ {s} /\ a_unseen' = a_unseen \ {s}
<1>0. "none" \in Accounts_!Levels
  BY DEF Accounts_!Levels
<1>1. a_level' = [u \in Accounts_!Users |-> [a_level[u] EXCEPT ![s] = "none"]]
  BY DEF Accounts_!DropStorage
<1>2. ASSUME NEW v \in Accounts_!Users
      PROVE  /\ a_level'[v] = [a_level[v] EXCEPT ![s] = "none"]
             /\ a_level[v] \in [Storages -> Accounts_!Levels]
             /\ a_level'[v] \in [Storages -> Accounts_!Levels]
  <2>1. a_level'[v] = [a_level[v] EXCEPT ![s] = "none"]
    BY <1>1
  <2>2. a_level[v] \in [Storages -> Accounts_!Levels]
    BY DEF LevelsTyped
  <2> QED BY <1>0, <2>1, <2>2
<1>3. LevelsTyped'
  BY <1>1, <1>2 DEF LevelsTyped
<1>4. ASSUME NEW v \in Accounts_!Users, NEW x \in Storages
      PROVE  a_level'[v][x] = IF x = s THEN "none" ELSE a_level[v][x]
  BY <1>2
<1> QED BY <1>3, <1>4 DEF Accounts_!DropStorage

LEMMA LevelRow ==
  ASSUME LevelsTyped, NEW u \in Accounts_!Users, NEW f \in [Storages -> Accounts_!Levels],
         SetsRow(u, f)
  PROVE  /\ LevelsTyped'
         /\ \A v \in Accounts_!Users, x \in Storages :
               a_level'[v][x] = IF v = u THEN f[x] ELSE a_level[v][x]
BY DEF LevelsTyped, SetsRow

OthersStay(t) == \A u \in Calls \ {t} : a_task'[u] = a_task[u]

LEMMA TaskMoves ==
  ASSUME a_task \in [Calls -> AccountTask], NEW t \in Calls, NEW p,
         a_task' = [a_task EXCEPT ![t] = [a_task[t] EXCEPT !.pc = p]]
  PROVE  /\ OthersStay(t)
         /\ a_task'[t].pc = p /\ a_task'[t].op = a_task[t].op
         /\ a_task'[t].actor = a_task[t].actor /\ a_task'[t].target = a_task[t].target
         /\ a_task'[t].sto = a_task[t].sto /\ a_task'[t].look = a_task[t].look
         /\ a_task'[t].orphans = a_task[t].orphans /\ a_task'[t].raced = a_task[t].raced
BY DEF OthersStay, AccountTask

LEMMA TaskEnds ==
  ASSUME a_task \in [Calls -> AccountTask], NEW t \in Calls,
         a_task' = [a_task EXCEPT ![t] = Accounts_!Idle]
  PROVE  /\ OthersStay(t)
         /\ a_task'[t].pc = "idle" /\ a_task'[t].sto = {} /\ a_task'[t].look = {}
         /\ a_task'[t].orphans = {}
BY TaskShapes DEF OthersStay

LEMMA AccountRowsStep ==
  ASSUME AccountsHold, Accounts_!Next
  PROVE  AccountRows'
<1> USE DEF Accounts_!Go, Accounts_!At, Accounts_!Rows, Accounts_!Fault
<1>0. /\ AccountRows /\ LevelsTyped /\ a_task \in [Calls -> AccountTask]
      /\ "root" \in Accounts_!Users /\ "none" \in Accounts_!Levels /\ "a" \in Accounts_!Levels
      /\ \A t \in Calls : /\ a_task[t].actor \in Accounts_!Users
                          /\ a_task[t].target \in Accounts_!Users
                          /\ a_task[t].lvl \in Accounts_!Levels
                             /\ a_task[t].orphans \subseteq Storages
                          /\ a_task[t].sto \subseteq Storages
      /\ \A t \in Calls : a_task[t].pc # "idle" => Accounts_!Sto(t) \in Storages
         /\ a_task[t].sto = {Accounts_!Sto(t)}
  <2>1. /\ AccountRows /\ LevelsTyped /\ a_task \in [Calls -> AccountTask]
        /\ "root" \in Accounts_!Users /\ "none" \in Accounts_!Levels /\ "a" \in Accounts_!Levels
    BY DEF AccountsHold, AccountTasks, AccountRows, Accounts_!TypeOK, Accounts_!Users,
           Accounts_!Levels, LevelsTyped
  <2>2. ASSUME NEW t \in Calls
        PROVE  /\ a_task[t].actor \in Accounts_!Users /\ a_task[t].target \in Accounts_!Users
               /\ a_task[t].lvl \in Accounts_!Levels /\ a_task[t].orphans \subseteq Storages
               /\ a_task[t].sto \subseteq Storages
    BY <2>1 DEF AccountTask
  <2>3. ASSUME NEW t \in Calls, a_task[t].pc # "idle"
        PROVE  Accounts_!Sto(t) \in Storages /\ a_task[t].sto = {Accounts_!Sto(t)}
    BY <2>3, StoIs DEF AccountsHold, AccountTasks
  <2> QED BY <2>1, <2>2, <2>3
<1>1. ASSUME UNCHANGED <<a_users, a_storages, a_level>>, a_used \subseteq a_used'
      PROVE AccountRows'
  BY <1>0, <1>1 DEF AccountRows, Accounts_!TypeOK
<1>2. ASSUME UNCHANGED <<a_users, a_storages, a_used>>, NEW u \in a_users, NEW s \in a_storages,
             NEW l \in Accounts_!Levels, SetsLevel(u, s, l)
      PROVE  AccountRows'
  <2>1. /\ LevelsTyped'
        /\ \A v \in Accounts_!Users, x \in Storages :
               a_level'[v][x] = IF v = u /\ x = s THEN l ELSE a_level[v][x]
    <3>1. u \in Accounts_!Users /\ s \in Storages
      BY <1>0 DEF AccountRows
    <3> QED BY <1>0, <1>2, <3>1, LevelSet
  <2> QED BY <1>0, <1>2, <2>1 DEF AccountRows, Accounts_!TypeOK, LevelsTyped
<1>3. ASSUME UNCHANGED <<a_users, a_used>>, NEW s, Accounts_!DropStorage(s) PROVE AccountRows'
  <2>1. /\ LevelsTyped'
        /\ \A v \in Accounts_!Users, x \in Storages :
               a_level'[v][x] = IF x = s THEN "none" ELSE a_level[v][x]
        /\ a_storages' = a_storages \ {s}
    BY <1>0, <1>3, LevelDropped
  <2> QED BY <1>0, <1>3, <2>1 DEF AccountRows, Accounts_!TypeOK, LevelsTyped
<1>4. ASSUME NEW t \in Calls, Accounts_!Ask(t) \/ Accounts_!AccessChecked(t)
                              \/ Accounts_!GuardTarget(t) \/ Accounts_!DeleteChecked(t)
                              \/ Accounts_!RemoveLists(t) \/ Accounts_!RemoveLooks(t)
                              \/ Accounts_!HangUp(t)
      PROVE  AccountRows'
  BY <1>1, <1>4 DEF Accounts_!Ask, Accounts_!AccessChecked, Accounts_!GuardTarget,
     Accounts_!DeleteChecked, Accounts_!RemoveLists, Accounts_!RemoveLooks, Accounts_!HangUp
<1>5. ASSUME NEW t \in Calls, Accounts_!CreateRow(t) PROVE AccountRows'
  <2>1. CASE UNCHANGED <<a_storages, a_used>>
    BY <1>1, <1>5, <2>1 DEF Accounts_!CreateRow
  <2>2. CASE a_storages' = a_storages \cup a_task[t].sto /\ a_used' = a_used \cup a_task[t].sto
    <3>1. UNCHANGED <<a_users, a_level>>
      BY <1>5 DEF Accounts_!CreateRow
    <3> QED BY <1>0, <2>2, <3>1 DEF AccountRows, Accounts_!TypeOK
  <2> QED BY <1>5, <2>1, <2>2 DEF Accounts_!CreateRow
<1>6. ASSUME NEW t \in Calls, Accounts_!CreateGrants(t) PROVE AccountRows'
  <2>1. CASE Accounts_!GrantForUserId(a_task[t].actor, Accounts_!Sto(t))
    <3>1. Accounts_!Sto(t) \in a_storages
      BY <1>0, <1>6 DEF AccountsHold, NewIsUntouched, Accounts_!CreateGrants
    <3> QED BY <1>0, <1>2, <1>6, <2>1, <3>1
          DEF Accounts_!CreateGrants, Accounts_!GrantForUserId, SetsLevel
  <2>2. CASE UNCHANGED a_level
    BY <1>1, <1>6, <2>2 DEF Accounts_!CreateGrants
  <2> QED BY <1>6, <2>1, <2>2 DEF Accounts_!CreateGrants
<1>7. ASSUME NEW t \in Calls, Accounts_!CreateChannels(t) \/ Accounts_!CreateUndone(t)
      PROVE  AccountRows'
  BY <1>1, <1>3, <1>7 DEF Accounts_!CreateChannels, Accounts_!CreateUndone
<1>8. ASSUME NEW t \in Calls, Accounts_!CreateForRoot(t) PROVE AccountRows'
  <2>1. "root" \in a_users
    BY <1>0 DEF AccountRows, Accounts_!TypeOK
  <2> QED BY <1>0, <1>1, <1>2, <1>8, <2>1 DEF Accounts_!CreateForRoot, SetsLevel
<1>9. ASSUME NEW t \in Calls, Accounts_!Grant(t) PROVE AccountRows'
  BY <1>0, <1>1, <1>2, <1>9 DEF Accounts_!Grant, Accounts_!Write, SetsLevel
<1>10. ASSUME NEW t \in Calls, Accounts_!Restrict(t) PROVE AccountRows'
  <2>1. /\ SetsLevel(a_task[t].target, Accounts_!Sto(t), "none")
        /\ UNCHANGED <<a_users, a_storages, a_used>>
    BY <1>10 DEF Accounts_!Restrict, Accounts_!Write, SetsLevel
  <2>2. Accounts_!Sto(t) \in Storages
    BY <1>0, <1>10 DEF Accounts_!Restrict
  <2>3. /\ LevelsTyped'
        /\ \A v \in Accounts_!Users, x \in Storages :
               a_level'[v][x] = IF v = a_task[t].target /\ x = Accounts_!Sto(t) THEN "none"
                                ELSE a_level[v][x]
    <3>1. a_task[t].target \in Accounts_!Users
      BY <1>0
    <3>2. "none" \in Accounts_!Levels
      BY <1>0
    <3>3. LevelsTyped
      BY <1>0
    <3> QED BY <2>1, <2>2, <3>1, <3>2, <3>3, LevelSet
  <2> QED BY <1>0, <2>1, <2>3 DEF AccountRows, Accounts_!TypeOK, LevelsTyped
<1>11. ASSUME NEW t \in Calls, Accounts_!Delete(t) PROVE AccountRows'
  BY <1>3, <1>11 DEF Accounts_!Delete
<1>12. ASSUME NEW t \in Calls, Accounts_!RemovePurges(t) PROVE AccountRows'
  BY <1>1, <1>3, <1>12 DEF Accounts_!RemovePurges
<1>13. ASSUME NEW t \in Calls, Accounts_!RemoveUser(t) PROVE AccountRows'
  <2>1. /\ a_level' = [a_level EXCEPT ![a_task[t].target] = [s \in Storages |-> "none"]]
        /\ a_users' = a_users \ {a_task[t].target} /\ UNCHANGED <<a_storages, a_used>>
    BY <1>13 DEF Accounts_!RemoveUser
  <2>2. a_task[t].target # "root"
    BY <1>13 DEF Accounts_!RemoveUser, AccountsHold, AccountTasks
  <2>3. /\ LevelsTyped'
        /\ \A v \in Accounts_!Users, x \in Storages :
              a_level'[v][x] = IF v = a_task[t].target THEN "none" ELSE a_level[v][x]
    <3>1. [s \in Storages |-> "none"] \in [Storages -> Accounts_!Levels]
      BY <1>0
    <3>2. a_task[t].target \in Accounts_!Users
      BY <1>0
    <3>3. LevelsTyped
      BY <1>0
    <3> DEFINE g == [s \in Storages |-> "none"]
    <3>4. \A x \in Storages : g[x] = "none"
      OBVIOUS
    <3> HIDE DEF g
    <3>5. SetsRow(a_task[t].target, g) /\ g \in [Storages -> Accounts_!Levels]
      BY <2>1, <3>1 DEF g, SetsRow
    <3> QED BY <3>2, <3>3, <3>4, <3>5, LevelRow
  <2> QED BY <1>0, <2>1, <2>2, <2>3 DEF AccountRows, Accounts_!TypeOK, LevelsTyped
<1>14. CASE Accounts_!CreateUser
  BY <1>0, <1>14 DEF Accounts_!CreateUser, AccountRows, Accounts_!TypeOK, Accounts_!Users
<1>15. CASE Accounts_!Restart
  <2> DEFINE f == [s \in Storages |-> IF s \in a_storages THEN "a" ELSE "none"]
  <2>1. a_level' = [a_level EXCEPT !["root"] = f] /\ UNCHANGED <<a_users, a_storages, a_used>>
    BY <1>15 DEF Accounts_!Restart
  <2>2. /\ LevelsTyped'
        /\ \A v \in Accounts_!Users, x \in Storages :
              a_level'[v][x] = IF v = "root" THEN f[x] ELSE a_level[v][x]
    <3>1. f \in [Storages -> Accounts_!Levels]
      BY <1>0
    <3>2. SetsRow("root", f)
      BY <2>1 DEF SetsRow
    <3> HIDE DEF f
    <3> QED BY <1>0, <3>1, <3>2, LevelRow
  <2> QED BY <1>0, <2>1, <2>2 DEF AccountRows, Accounts_!TypeOK, LevelsTyped
<1>16. CASE Accounts_!Quiet
  BY <1>1, <1>16 DEF Accounts_!Quiet, Accounts_!vars
<1> QED BY <1>4, <1>5, <1>6, <1>7, <1>8, <1>9, <1>10, <1>11, <1>12, <1>13, <1>14, <1>15,
           <1>16 DEF Accounts_!Next

-----------------------------------------------------------------------------
(* What the steps leave true of the storages and their requests.            *)

AccountsRest == StoragesInUse /\ NewIsUntouched /\ RootSees /\ AdminIsKept /\ OrphansHold

WorksOn(t, s) == s \in a_task[t].sto /\ a_task[t].pc \notin PassiveSteps
HasListed(t, s) == s \in a_task[t].look \cup a_task[t].orphans
IsGiven(s) == \E u \in Accounts_!Users : a_level[u][s] # "none"

LEMMA AccountTypes ==
  ASSUME AccountsHold
  PROVE  /\ a_task \in [Calls -> AccountTask] /\ LevelsTyped
         /\ "root" \in Accounts_!Users /\ a_users \subseteq Accounts_!Users
         /\ a_storages \subseteq Storages /\ a_storages \subseteq a_used
         /\ \A t \in Calls : /\ a_task[t].actor \in Accounts_!Users
                             /\ a_task[t].target \in Accounts_!Users
                             /\ a_task[t].look \subseteq Storages
                             /\ a_task[t].orphans \subseteq Storages
                             /\ a_task[t].sto \subseteq Storages
         /\ \A t \in Calls : a_task[t].pc # "idle" =>
               Accounts_!Sto(t) \in Storages /\ a_task[t].sto = {Accounts_!Sto(t)}
<1>1. /\ a_task \in [Calls -> AccountTask] /\ LevelsTyped
      /\ "root" \in Accounts_!Users /\ a_users \subseteq Accounts_!Users
      /\ a_storages \subseteq Storages /\ a_storages \subseteq a_used
  BY DEF AccountsHold, AccountTasks, AccountRows, Accounts_!TypeOK, Accounts_!Users, LevelsTyped
<1>2. ASSUME NEW t \in Calls
      PROVE  /\ a_task[t].actor \in Accounts_!Users /\ a_task[t].target \in Accounts_!Users
             /\ a_task[t].look \subseteq Storages /\ a_task[t].orphans \subseteq Storages
             /\ a_task[t].sto \subseteq Storages
  BY <1>1 DEF AccountTask
<1>3. ASSUME NEW t \in Calls, a_task[t].pc # "idle"
      PROVE  Accounts_!Sto(t) \in Storages /\ a_task[t].sto = {Accounts_!Sto(t)}
  BY <1>3, StoIs DEF AccountsHold, AccountTasks
<1> QED BY <1>1, <1>2, <1>3

LEMMA OwnersAlone ==
  ASSUME AccountsHold, NEW t \in Calls, NEW v \in Calls, NEW s \in Storages, v # t,
         a_task[v].pc = "owner", s \in a_task[v].sto
  PROVE  ~WorksOn(t, s) /\ ~HasListed(t, s) /\ ~IsGiven(s)
BY DEF AccountsHold, NewIsUntouched, WorksOn, HasListed, IsGiven, PassiveSteps

(* A step of one request that leaves the rows alone.                        *)
LEMMA LocalStep ==
  ASSUME AccountsHold, AccountTasks', NEW t \in Calls, OthersStay(t),
         UNCHANGED <<a_users, a_storages, a_level, a_used>>, a_unseen \subseteq a_unseen',
         a_task'[t].pc \notin PassiveSteps => a_task'[t].sto \subseteq a_used,
         a_task'[t].pc # "owner",
         \A s \in Storages : WorksOn(t, s)' => WorksOn(t, s) \/ IsGiven(s),
         \A s \in Storages : HasListed(t, s)' => HasListed(t, s)
         \/ (s \in a_storages /\ IsGiven(s)),
         MakesStorage(t) => \/ MakesStorage(t)' /\ a_task'[t].sto = a_task[t].sto
                     \/ a_task[t].sto \cap a_storages \subseteq a_unseen',
         a_task'[t].pc = "write" => \A s \in a_task'[t].sto :
            /\ a_task'[t].target # "root"
            /\ a_task'[t].actor # "root" => ~Accounts_!IsAdmin(a_task'[t].target, s),
         \A s \in a_task'[t].orphans :
            \/ /\ s \in a_task[t].orphans /\ a_task'[t].target = a_task[t].target
               /\ a_task'[t].raced = a_task[t].raced
            \/ Accounts_!OnlyMember(a_task'[t].target, s)
  PROVE  AccountsRest'
<1>0. AccountsRest /\ \A u \in Calls : u # t => a_task'[u] = a_task[u]
  BY DEF AccountsHold, AccountsRest, OthersStay
<1>t. a_storages \subseteq a_used /\ a_task' \in [Calls -> AccountTask]
  BY AccountTypes DEF AccountTasks
<1>l. \A s \in Storages : s \in a_task'[t].look \cup a_task'[t].orphans => HasListed(t, s)'
  BY DEF HasListed
<1>1. StoragesInUse'
  <2>1. a_task'[t].look \cup a_task'[t].orphans \subseteq Storages
    BY <1>t DEF AccountTask
  <2>2. \A s \in Storages : HasListed(t, s)' => s \in a_used
    BY <1>0, <1>t DEF AccountsRest, StoragesInUse, HasListed
  <2> QED BY <1>0, <1>l, <2>1, <2>2 DEF AccountsRest, StoragesInUse
<1>2. NewIsUntouched'
  <2> SUFFICES ASSUME NEW v \in Calls, NEW s \in Storages,
                      a_task'[v].pc = "owner", s \in a_task'[v].sto
               PROVE  /\ s \in a_storages /\ \A u \in Accounts_!Users : a_level[u][s] = "none"
                      /\ \A w \in Calls \ {v} :
                            /\ s \in a_task'[w].sto => a_task'[w].pc \in PassiveSteps
                            /\ s \notin a_task'[w].look \cup a_task'[w].orphans
    BY DEF NewIsUntouched, PassiveSteps
  <2>1. v # t /\ a_task'[v] = a_task[v]
    BY <1>0
  <2>2. ~WorksOn(t, s) /\ ~HasListed(t, s) /\ ~IsGiven(s)
    BY <2>1, OwnersAlone
  <2>3. ~WorksOn(t, s)' /\ ~HasListed(t, s)'
    BY <2>2
  <2> QED BY <1>0, <2>1, <2>3 DEF AccountsRest, NewIsUntouched, WorksOn, HasListed, PassiveSteps
<1>3. RootSees'
  <2> SUFFICES ASSUME NEW s \in a_storages, ~Accounts_!IsAdmin("root", s), s \notin a_unseen'
               PROVE  \E u \in Calls : s \in a_task'[u].sto /\ MakesStorage(u)'
    BY DEF RootSees, Accounts_!IsAdmin
  <2>1. PICK u \in Calls : s \in a_task[u].sto /\ MakesStorage(u)
    BY <1>0 DEF AccountsRest, RootSees
  <2>2. CASE u = t
    BY <2>1, <2>2
  <2>3. CASE u # t
    BY <1>0, <2>1, <2>3 DEF MakesStorage
  <2> QED BY <2>2, <2>3
<1>4. AdminIsKept'
  BY <1>0 DEF AccountsRest, AdminIsKept, Accounts_!IsAdmin
<1>5. OrphansHold'
  BY <1>0 DEF AccountsRest, OrphansHold, Accounts_!OnlyMember, Accounts_!IsAdmin
<1> QED BY <1>1, <1>2, <1>3, <1>4, <1>5 DEF AccountsRest

(* The storage of a request is deleted.                                     *)
LEMMA DropStep ==
  ASSUME AccountsHold, AccountTasks', NEW t \in Calls, NEW s \in Storages, OthersStay(t),
         UNCHANGED <<a_users, a_used>>, Accounts_!DropStorage(s),
         WorksOn(t, s) \/ HasListed(t, s), MakesStorage(t) => a_task[t].sto = {s},
         \/ a_task'[t].pc = "idle"
         \/ /\ a_task'[t].pc = "purge" /\ a_task[t].pc = "purge"
            /\ a_task'[t].op = a_task[t].op /\ a_task'[t].look = a_task[t].look
            /\ a_task'[t].orphans \subseteq a_task[t].orphans
            /\ a_task'[t].target = a_task[t].target /\ a_task'[t].raced = a_task[t].raced
  PROVE  AccountsRest'
<1>0. AccountsRest /\ \A u \in Calls : u # t => a_task'[u] = a_task[u]
  BY DEF AccountsHold, AccountsRest, OthersStay
<1>t. /\ a_task \in [Calls -> AccountTask] /\ a_users \subseteq Accounts_!Users
      /\ "root" \in Accounts_!Users /\ a_storages \subseteq Storages
      /\ \A u \in Calls : a_task[u].target \in Accounts_!Users
         /\ a_task[u].sto \subseteq Storages
      /\ a_task'[t].pc = "idle" => a_task'[t].look = {} /\ a_task'[t].orphans = {}
      /\ a_task'[t].pc = "purge" => a_task'[t].op = "remove"
  BY AccountTypes DEF AccountTasks
<1>d. /\ \A v \in Accounts_!Users, x \in Storages :
            a_level'[v][x] = IF x = s THEN "none" ELSE a_level[v][x]
      /\ a_storages' = a_storages \ {s} /\ a_unseen' = a_unseen \ {s}
  BY AccountTypes, LevelDropped
<1>1. StoragesInUse'
  BY <1>0, <1>t DEF AccountsRest, StoragesInUse, PassiveSteps
<1>2. NewIsUntouched'
  <2> SUFFICES ASSUME NEW v \in Calls, NEW x \in Storages,
                      a_task'[v].pc = "owner", x \in a_task'[v].sto
               PROVE  /\ x \in a_storages' /\ \A u \in Accounts_!Users : a_level'[u][x] = "none"
                      /\ \A w \in Calls \ {v} :
                            /\ x \in a_task'[w].sto => a_task'[w].pc \in PassiveSteps
                            /\ x \notin a_task'[w].look \cup a_task'[w].orphans
    BY DEF NewIsUntouched, PassiveSteps
  <2>1. v # t /\ a_task'[v] = a_task[v]
    BY <1>0
  <2>2. ~WorksOn(t, x) /\ ~HasListed(t, x)
    BY <2>1, OwnersAlone
  <2>3. x # s
    BY <2>2
  <2>4. a_task'[t].pc \in PassiveSteps /\ x \notin a_task'[t].look \cup a_task'[t].orphans
    BY <1>t, <2>2 DEF PassiveSteps, HasListed
  <2>5. \A u \in Accounts_!Users : a_level'[u][x] = "none"
    BY <1>0, <1>d, <2>1 DEF AccountsRest, NewIsUntouched
  <2> QED BY <1>0, <1>d, <2>1, <2>3, <2>4, <2>5 DEF AccountsRest, NewIsUntouched, PassiveSteps
<1>3. RootSees'
  <2> SUFFICES ASSUME NEW x \in a_storages, x # s, ~Accounts_!IsAdmin("root", x)',
                      x \notin a_unseen
               PROVE  \E u \in Calls : x \in a_task'[u].sto /\ MakesStorage(u)'
    BY <1>d DEF RootSees
  <2>1. ~Accounts_!IsAdmin("root", x)
    BY <1>t, <1>d DEF Accounts_!IsAdmin
  <2>2. PICK u \in Calls : x \in a_task[u].sto /\ MakesStorage(u)
    BY <1>0, <2>1 DEF AccountsRest, RootSees
  <2>3. u # t
    BY <2>2
  <2> QED BY <1>0, <2>2, <2>3 DEF MakesStorage
<1>4. AdminIsKept'
  <2> SUFFICES ASSUME NEW v \in Calls, NEW x \in Storages,
                      a_task'[v].pc = "write", x \in a_task'[v].sto
               PROVE  /\ a_task'[v].target # "root"
                      /\ a_task'[v].actor # "root" /\ ~a_task'[v].raced
                           => a_level'[a_task'[v].target][x] # "a"
    BY DEF AdminIsKept, Accounts_!IsAdmin
  <2>1. a_task'[v] = a_task[v] /\ a_task[v].target \in Accounts_!Users
    BY <1>0, <1>t
  <2>2. a_level'[a_task[v].target][x] = "a" => a_level[a_task[v].target][x] = "a"
    BY <1>d, <2>1
  <2> QED BY <1>0, <2>1, <2>2 DEF AccountsRest, AdminIsKept, Accounts_!IsAdmin
<1>5. OrphansHold'
  <2>0. a_users' = a_users /\ a_storages' = a_storages \ {s}
    BY <1>d
  <2>1. ASSUME NEW v \in Calls, NEW x \in a_task'[v].orphans, x \in a_storages, x # s,
               ~a_task'[v].raced
        PROVE  Accounts_!OnlyMember(a_task[v].target, x)'
    <3>1. /\ x \in a_task[v].orphans /\ a_task'[v].raced = a_task[v].raced
          /\ a_task'[v].target = a_task[v].target /\ a_task[v].target \in Accounts_!Users
      BY <1>0, <1>t, <2>1
    <3>2. Accounts_!OnlyMember(a_task[v].target, x)
      BY <1>0, <2>1, <3>1 DEF AccountsRest, OrphansHold
    <3>3. \A u \in Accounts_!Users : a_level'[u][x] = a_level[u][x]
      BY <1>t, <1>d, <2>1
    <3>4. a_task[v].target \in a_users => a_level'[a_task[v].target][x] = "a"
      BY <3>1, <3>2, <3>3 DEF Accounts_!OnlyMember, Accounts_!IsAdmin
    <3>5. \A u \in a_users \ {a_task[v].target, "root"} : a_level'[u][x] = "none"
      BY <1>t, <3>2, <3>3 DEF Accounts_!OnlyMember
    <3> QED BY <2>0, <3>1, <3>4, <3>5 DEF Accounts_!OnlyMember, Accounts_!IsAdmin
  <2>2. \A v \in Calls : \A x \in a_task'[v].orphans \cap a_storages' :
            a_task'[v].raced \/ Accounts_!OnlyMember(a_task[v].target, x)'
    BY <2>0, <2>1
  <2> QED BY <2>2 DEF OrphansHold
<1> QED BY <1>1, <1>2, <1>3, <1>4, <1>5 DEF AccountsRest

LEMMA AccountsRestStep ==
  ASSUME AccountsHold, AccountTasks', AccountRows', Accounts_!Next
  PROVE  AccountsRest'
<1> USE DEF Accounts_!Go, Accounts_!At, Accounts_!Rows, Accounts_!Fault
<1>0. AccountsRest /\ AccountTasks /\ AccountRows
  BY DEF AccountsHold, AccountsRest
<1>t. /\ a_task \in [Calls -> AccountTask] /\ LevelsTyped
      /\ "root" \in Accounts_!Users /\ a_users \subseteq Accounts_!Users
      /\ a_storages \subseteq Storages /\ a_storages \subseteq a_used
      /\ \A t \in Calls : /\ a_task[t].actor \in Accounts_!Users
                          /\ a_task[t].target \in Accounts_!Users
                          /\ a_task[t].orphans \subseteq Storages
                          /\ a_task[t].sto \subseteq Storages
      /\ \A t \in Calls : a_task[t].pc # "idle" =>
            Accounts_!Sto(t) \in Storages /\ a_task[t].sto = {Accounts_!Sto(t)}
  BY AccountTypes
<1>g. \A u \in Accounts_!Users, s \in Storages : a_level[u][s] # "none" =>
         IsGiven(s) /\ s \in a_storages /\ s \in a_used /\ u \in a_users
  BY <1>0, <1>t DEF AccountRows, Accounts_!TypeOK, IsGiven
<1>e. ASSUME NEW t \in Calls, a_task' = [a_task EXCEPT ![t] = Accounts_!Idle],
             UNCHANGED <<a_users, a_storages, a_level, a_used>>, a_unseen \subseteq a_unseen',
             MakesStorage(t) => a_task[t].sto \cap a_storages \subseteq a_unseen'
      PROVE  AccountsRest'
  <2>1. /\ OthersStay(t) /\ a_task'[t].pc = "idle" /\ a_task'[t].sto = {}
        /\ a_task'[t].look = {} /\ a_task'[t].orphans = {}
    BY <1>e, <1>t, TaskEnds
  <2>2. \A s \in Storages : ~WorksOn(t, s)' /\ ~HasListed(t, s)'
    BY <2>1 DEF WorksOn, HasListed
  <2>3. a_task'[t].pc \in PassiveSteps
    BY <2>1 DEF PassiveSteps
  <2> QED BY <1>e, <2>1, <2>2, <2>3, LocalStep
<1>1. ASSUME NEW t \in Calls, Accounts_!Ask(t) PROVE AccountsRest'
  <2>1. PICK op \in {"create", "grant", "restrict", "delete", "remove"}, actor \in a_users,
             target \in Accounts_!Users, s \in Storages, lvl \in {"r", "a"} :
                 AskedFor(t, op, actor, target, s, lvl)
    BY <1>1, AskIs
  <2> DEFINE c == [Accounts_!Idle EXCEPT !.pc = "start", !.op = op, !.actor = actor,
                                         !.target = target, !.sto = {s}, !.lvl = lvl]
  <2>2. /\ a_task' = [a_task EXCEPT ![t] = c] /\ a_task[t] = Accounts_!Idle
        /\ UNCHANGED <<a_users, a_storages, a_level, a_used, a_unseen>>
    BY <1>1, <2>1 DEF Accounts_!Ask, AskedFor
  <2>3. c.pc = "start" /\ c.look = {} /\ c.orphans = {}
    BY DEF Accounts_!Idle
  <2> HIDE DEF c
  <2>4. OthersStay(t) /\ a_task'[t] = c /\ ~MakesStorage(t)
    BY <1>t, <2>2, TaskShapes DEF OthersStay, MakesStorage
  <2>5. \A x \in Storages : ~WorksOn(t, x)' /\ ~HasListed(t, x)'
    BY <2>3, <2>4 DEF WorksOn, HasListed, PassiveSteps
  <2>6. a_task'[t].pc \in PassiveSteps /\ a_task'[t].orphans = {}
    BY <2>3, <2>4 DEF PassiveSteps
  <2> QED BY <2>2, <2>3, <2>4, <2>5, <2>6, LocalStep
<1>2. ASSUME NEW t \in Calls, Accounts_!CreateRow(t) PROVE AccountsRest'
  <2> DEFINE s == Accounts_!Sto(t)
  <2>0. /\ a_task[t].pc = "start" /\ s \in Storages /\ a_task[t].sto = {s}
        /\ UNCHANGED <<a_users, a_level, a_unseen>>
    BY <1>2, <1>t DEF Accounts_!CreateRow
  <2>1. CASE s \in a_used
    BY <1>2, <1>e, <2>0, <2>1 DEF Accounts_!CreateRow, MakesStorage
  <2>2. CASE s \notin a_used
    <3>1. /\ a_task' = [a_task EXCEPT ![t] = [a_task[t] EXCEPT !.pc = "owner"]]
          /\ a_storages' = a_storages \cup {s} /\ a_used' = a_used \cup {s}
      BY <1>2, <2>0, <2>2 DEF Accounts_!CreateRow
    <3>2. /\ \A u \in Calls : u # t => a_task'[u] = a_task[u]
          /\ a_task'[t].pc = "owner" /\ a_task'[t].op = a_task[t].op
          /\ a_task'[t].actor = a_task[t].actor /\ a_task'[t].target = a_task[t].target
          /\ a_task'[t].sto = {s} /\ a_task'[t].look = a_task[t].look
          /\ a_task'[t].orphans = a_task[t].orphans /\ a_task'[t].raced = a_task[t].raced
      BY <1>t, <2>0, <3>1, TaskMoves DEF OthersStay
    <3>3. \A w \in Calls : ~WorksOn(w, s) /\ s \notin a_task[w].look \cup a_task[w].orphans
      BY <1>0, <2>0, <2>2 DEF AccountsRest, StoragesInUse, WorksOn
    <3>4. \A u \in Accounts_!Users : a_level[u][s] = "none"
      BY <1>g, <2>0, <2>2
    <3> HIDE DEF s
    <3>5. StoragesInUse'
      BY <1>0, <3>1, <3>2 DEF AccountsRest, StoragesInUse
    <3>6. NewIsUntouched'
      <4> SUFFICES ASSUME NEW v \in Calls, NEW x \in Storages,
                          a_task'[v].pc = "owner", x \in a_task'[v].sto
                   PROVE  /\ x \in a_storages' /\ \A u \in Accounts_!Users : a_level'[u][x] = "none"
                          /\ \A w \in Calls \ {v} :
                                /\ x \in a_task'[w].sto => a_task'[w].pc \in PassiveSteps
                                /\ x \notin a_task'[w].look \cup a_task'[w].orphans
        BY DEF NewIsUntouched, PassiveSteps
      <4>1. CASE v = t
        BY <2>0, <3>1, <3>2, <3>3, <3>4, <4>1 DEF WorksOn
      <4>2. CASE v # t
        <5>1. a_task'[v] = a_task[v]
          BY <3>2, <4>2
        <5>2. x # s
          BY <3>3, <5>1 DEF WorksOn, PassiveSteps
        <5> QED BY <1>0, <2>0, <3>1, <3>2, <4>2, <5>1, <5>2
              DEF AccountsRest, NewIsUntouched, PassiveSteps
      <4> QED BY <4>1, <4>2
    <3>7. RootSees'
      <4> SUFFICES ASSUME NEW x \in a_storages', ~Accounts_!IsAdmin("root", x),
                          x \notin a_unseen
                   PROVE  \E u \in Calls : x \in a_task'[u].sto /\ MakesStorage(u)'
        BY <2>0 DEF RootSees, Accounts_!IsAdmin
      <4>1. CASE x = s
        BY <3>2, <4>1 DEF MakesStorage
      <4>2. CASE x # s
        <5>1. PICK u \in Calls : x \in a_task[u].sto /\ MakesStorage(u)
          BY <1>0, <3>1, <4>2 DEF AccountsRest, RootSees
        <5> QED BY <2>0, <3>2, <4>2, <5>1 DEF MakesStorage
      <4> QED BY <4>1, <4>2
    <3>8. AdminIsKept'
      BY <1>0, <2>0, <3>2 DEF AccountsRest, AdminIsKept, Accounts_!IsAdmin
    <3>9. OrphansHold'
      <4>1. ASSUME NEW v \in Calls, NEW x \in a_task'[v].orphans \cap a_storages'
            PROVE  a_task'[v].raced \/ Accounts_!OnlyMember(a_task'[v].target, x)
        <5>1. /\ x \in a_task[v].orphans /\ a_task'[v].raced = a_task[v].raced
              /\ a_task'[v].target = a_task[v].target
          BY <3>2
        <5>2. x # s /\ x \in a_storages
          BY <3>1, <3>3, <5>1
        <5> QED BY <1>0, <5>1, <5>2 DEF AccountsRest, OrphansHold
      <4> QED BY <2>0, <4>1 DEF OrphansHold, Accounts_!OnlyMember, Accounts_!IsAdmin
    <3> QED BY <3>5, <3>6, <3>7, <3>8, <3>9 DEF AccountsRest
  <2> QED BY <2>1, <2>2
<1>k. ASSUME NEW t \in Calls, NEW p \in {"root", "undo"}, MakesStorage(t),
             a_task' = [a_task EXCEPT ![t] = [a_task[t] EXCEPT !.pc = p]],
             UNCHANGED <<a_users, a_storages, a_level, a_used, a_unseen>>
      PROVE  AccountsRest'
  <2>1. /\ OthersStay(t) /\ a_task'[t].pc = p /\ a_task'[t].sto = a_task[t].sto
        /\ a_task'[t].look = a_task[t].look /\ a_task'[t].orphans = a_task[t].orphans
        /\ a_task'[t].target = a_task[t].target /\ a_task'[t].raced = a_task[t].raced
    BY <1>k, <1>t, TaskMoves
  <2>2. a_task[t].pc \notin PassiveSteps /\ a_task[t].sto \subseteq a_used
    BY <1>0, <1>k DEF AccountsRest, StoragesInUse, PassiveSteps, MakesStorage
  <2>3. \A x \in Storages : WorksOn(t, x)' => WorksOn(t, x) \/ IsGiven(x)
    BY <2>1, <2>2 DEF WorksOn
  <2>4. MakesStorage(t)'
    BY <2>1 DEF MakesStorage
  <2>5. a_unseen \subseteq a_unseen'
    BY <1>k
  <2>6. /\ a_task'[t].pc \notin {"owner", "write"} /\ a_task'[t].sto \subseteq a_used
        /\ UNCHANGED <<a_users, a_storages, a_level, a_used>>
    BY <1>k, <2>1, <2>2
  <2>7. \A x \in Storages : HasListed(t, x)' => HasListed(t, x)
        \/ (x \in a_storages /\ IsGiven(x))
    BY <2>1 DEF HasListed
  <2>8. \A x \in a_task'[t].orphans :
          \/ /\ x \in a_task[t].orphans /\ a_task'[t].target = a_task[t].target
             /\ a_task'[t].raced = a_task[t].raced
          \/ Accounts_!OnlyMember(a_task'[t].target, x)
    BY <2>1
  <2>9. MakesStorage(t) => \/ MakesStorage(t)' /\ a_task'[t].sto = a_task[t].sto
                    \/ a_task[t].sto \cap a_storages \subseteq a_unseen'
    BY <2>1, <2>4
  <2> QED BY <2>1, <2>3, <2>5, <2>6, <2>7, <2>8, <2>9, LocalStep
<1>3. ASSUME NEW t \in Calls, Accounts_!CreateGrants(t) PROVE AccountsRest'
  <2> DEFINE s == Accounts_!Sto(t)
             a == a_task[t].actor
  <2>0. /\ a_task[t].pc = "owner" /\ s \in Storages /\ a_task[t].sto = {s}
        /\ UNCHANGED <<a_users, a_used>> /\ WorksOn(t, s) /\ a \in Accounts_!Users
    BY <1>3, <1>t DEF Accounts_!CreateGrants, WorksOn, PassiveSteps
  <2>1. CASE /\ a_task' = [a_task EXCEPT ![t] = [a_task[t] EXCEPT !.pc = "undo"]]
             /\ UNCHANGED a_level
    BY <1>3, <1>k, <2>0, <2>1 DEF Accounts_!CreateGrants, MakesStorage
  <2>2. CASE /\ Accounts_!GrantForUserId(a, s)
             /\ a_task' = [a_task EXCEPT ![t] = [a_task[t] EXCEPT !.pc = "channels"]]
    <3>1. /\ a_task' = [a_task EXCEPT ![t] = [a_task[t] EXCEPT !.pc = "channels"]]
          /\ SetsLevel(a, s, "a") /\ UNCHANGED <<a_storages, a_unseen>>
      BY <1>3, <2>2 DEF Accounts_!CreateGrants, Accounts_!GrantForUserId, SetsLevel
    <3>2. /\ \A u \in Calls : u # t => a_task'[u] = a_task[u]
          /\ a_task'[t].pc = "channels" /\ a_task'[t].op = a_task[t].op
          /\ a_task'[t].actor = a_task[t].actor /\ a_task'[t].target = a_task[t].target
          /\ a_task'[t].sto = {s} /\ a_task'[t].look = a_task[t].look
          /\ a_task'[t].orphans = a_task[t].orphans /\ a_task'[t].raced = a_task[t].raced
      BY <1>t, <2>0, <3>1, TaskMoves DEF OthersStay
    <3>3. \A w \in Calls : /\ w # t => ~WorksOn(w, s)
                           /\ s \notin a_task[w].look \cup a_task[w].orphans
      BY <1>0, <2>0 DEF AccountsRest, NewIsUntouched, AccountTasks, WorksOn, PassiveSteps
    <3> HIDE DEF s, a
    <3>4. \A v \in Accounts_!Users, x \in Storages :
             a_level'[v][x] = IF v = a /\ x = s THEN "a" ELSE a_level[v][x]
      <4>1. "a" \in Accounts_!Levels
        BY DEF Accounts_!Levels
      <4> QED BY <1>t, <2>0, <3>1, <4>1, LevelSet
    <3>5. StoragesInUse'
      BY <1>0, <2>0, <3>2 DEF AccountsRest, StoragesInUse, WorksOn, PassiveSteps
    <3>6. NewIsUntouched'
      <4> SUFFICES ASSUME NEW v \in Calls, NEW x \in Storages,
                          a_task'[v].pc = "owner", x \in a_task'[v].sto
                   PROVE  /\ x \in a_storages' /\ \A u \in Accounts_!Users : a_level'[u][x] = "none"
                          /\ \A w \in Calls \ {v} :
                                /\ x \in a_task'[w].sto => a_task'[w].pc \in PassiveSteps
                                /\ x \notin a_task'[w].look \cup a_task'[w].orphans
        BY DEF NewIsUntouched, PassiveSteps
      <4>1. v # t /\ a_task'[v] = a_task[v]
        BY <3>2
      <4>2. x # s
        BY <3>3, <4>1 DEF WorksOn, PassiveSteps
      <4> QED BY <1>0, <2>0, <3>1, <3>2, <3>4, <4>1, <4>2
            DEF AccountsRest, NewIsUntouched, PassiveSteps
    <3>7. RootSees'
      <4> SUFFICES ASSUME NEW x \in a_storages, a_level'["root"][x] # "a", x \notin a_unseen
                   PROVE  \E u \in Calls : x \in a_task'[u].sto /\ MakesStorage(u)'
        BY <3>1 DEF RootSees, Accounts_!IsAdmin
      <4>1. ~Accounts_!IsAdmin("root", x)
        BY <1>t, <3>4 DEF Accounts_!IsAdmin
      <4>2. PICK u \in Calls : x \in a_task[u].sto /\ MakesStorage(u)
        BY <1>0, <4>1 DEF AccountsRest, RootSees
      <4> QED BY <2>0, <3>2, <4>2 DEF MakesStorage
    <3>8. AdminIsKept'
      <4> SUFFICES ASSUME NEW v \in Calls, NEW x \in Storages,
                          a_task'[v].pc = "write", x \in a_task'[v].sto
                   PROVE  /\ a_task'[v].target # "root"
                          /\ a_task'[v].actor # "root" /\ ~a_task'[v].raced
                               => a_level'[a_task'[v].target][x] # "a"
        BY DEF AdminIsKept, Accounts_!IsAdmin
      <4>1. v # t /\ a_task'[v] = a_task[v]
        BY <3>2
      <4>2. x # s
        BY <3>3, <4>1 DEF WorksOn, PassiveSteps
      <4> QED BY <1>0, <1>t, <3>4, <4>1, <4>2 DEF AccountsRest, AdminIsKept, Accounts_!IsAdmin
    <3>9. OrphansHold'
      <4>1. ASSUME NEW v \in Calls, NEW x \in a_task'[v].orphans, x \in a_storages,
                   ~a_task'[v].raced
            PROVE  Accounts_!OnlyMember(a_task[v].target, x)'
        <5>1. /\ x \in a_task[v].orphans /\ a_task'[v].raced = a_task[v].raced
              /\ a_task[v].target \in Accounts_!Users
          BY <1>t, <3>2, <4>1
        <5>2. x # s
          BY <3>3, <5>1
        <5>3. Accounts_!OnlyMember(a_task[v].target, x)
          BY <1>0, <4>1, <5>1 DEF AccountsRest, OrphansHold
        <5>4. \A u \in Accounts_!Users : a_level'[u][x] = a_level[u][x]
          BY <1>t, <3>4, <4>1, <5>2
        <5>5. a_task[v].target \in a_users => a_level'[a_task[v].target][x] = "a"
          BY <5>1, <5>3, <5>4 DEF Accounts_!OnlyMember, Accounts_!IsAdmin
        <5>6. \A u \in a_users \ {a_task[v].target, "root"} : a_level'[u][x] = "none"
          BY <1>t, <5>3, <5>4 DEF Accounts_!OnlyMember
        <5>7. a_task'[v].target = a_task[v].target
          BY <3>2
        <5> QED BY <2>0, <5>5, <5>6, <5>7 DEF Accounts_!OnlyMember, Accounts_!IsAdmin
      <4>2. \A v \in Calls : a_task'[v].target = a_task[v].target
        BY <3>2
      <4>3. \A v \in Calls : \A x \in a_task'[v].orphans \cap a_storages' :
                a_task'[v].raced \/ Accounts_!OnlyMember(a_task[v].target, x)'
        BY <3>1, <4>1
      <4> QED BY <4>2, <4>3 DEF OrphansHold, Accounts_!OnlyMember, Accounts_!IsAdmin
    <3> QED BY <3>5, <3>6, <3>7, <3>8, <3>9 DEF AccountsRest
  <2> QED BY <1>3, <2>1, <2>2 DEF Accounts_!CreateGrants
<1>d. ASSUME NEW t \in Calls, NEW s \in Storages, Accounts_!DropStorage(s),
             a_task' = [a_task EXCEPT ![t] = Accounts_!Idle],
             UNCHANGED <<a_users, a_used>>, WorksOn(t, s), a_task[t].sto = {s}
      PROVE  AccountsRest'
  <2>1. OthersStay(t) /\ a_task'[t].pc = "idle"
    BY <1>t, <1>d, TaskEnds
  <2> QED BY <1>d, <2>1, DropStep
<1>4. ASSUME NEW t \in Calls, Accounts_!CreateChannels(t) PROVE AccountsRest'
  BY <1>4, <1>k DEF Accounts_!CreateChannels, MakesStorage
<1>u. ASSUME NEW t \in Calls, Accounts_!CreateUndone(t) PROVE AccountsRest'
  <2> DEFINE s == Accounts_!Sto(t)
  <2>0. /\ a_task[t].pc = "undo" /\ s \in Storages /\ a_task[t].sto = {s}
        /\ UNCHANGED <<a_users, a_used>> /\ WorksOn(t, s)
        /\ a_task' = [a_task EXCEPT ![t] = Accounts_!Idle]
    BY <1>u, <1>t DEF Accounts_!CreateUndone, WorksOn, PassiveSteps
  <2>1. CASE Accounts_!DropStorage(s)
    <3> HIDE DEF s
    <3> QED BY <1>d, <2>0, <2>1
  <2>2. CASE /\ a_unseen' = a_unseen \cup (a_task[t].sto \cap a_storages)
             /\ UNCHANGED <<a_storages, a_level>>
    BY <1>e, <2>0, <2>2
  <2> QED BY <1>u, <2>1, <2>2 DEF Accounts_!CreateUndone
<1>5. ASSUME NEW t \in Calls, Accounts_!Delete(t) PROVE AccountsRest'
  <2> DEFINE s == Accounts_!Sto(t)
  <2>1. /\ a_task[t].pc = "drop" /\ s \in Storages /\ a_task[t].sto = {s}
        /\ UNCHANGED <<a_users, a_used>> /\ WorksOn(t, s) /\ Accounts_!DropStorage(s)
        /\ a_task' = [a_task EXCEPT ![t] = Accounts_!Idle]
    BY <1>5, <1>t DEF Accounts_!Delete, WorksOn, PassiveSteps
  <2> HIDE DEF s
  <2> QED BY <1>d, <2>1
<1>6. ASSUME NEW t \in Calls, Accounts_!CreateForRoot(t) PROVE AccountsRest'
  <2> DEFINE s == Accounts_!Sto(t)
  <2>0. /\ a_task[t].pc = "root" /\ s \in Storages /\ a_task[t].sto = {s}
        /\ UNCHANGED <<a_users, a_storages, a_used>> /\ WorksOn(t, s)
        /\ a_task' = [a_task EXCEPT ![t] = Accounts_!Idle]
    BY <1>6, <1>t DEF Accounts_!CreateForRoot, WorksOn, PassiveSteps
  <2>1. CASE a_unseen' = a_unseen \cup (a_task[t].sto \cap a_storages) /\ UNCHANGED a_level
    BY <1>e, <2>0, <2>1
  <2>2. CASE /\ s \in a_storages /\ a_level' = [a_level EXCEPT !["root"][s] = "a"]
             /\ UNCHANGED a_unseen
    <3>1. /\ \A u \in Calls : u # t => a_task'[u] = a_task[u]
          /\ a_task'[t].pc = "idle" /\ a_task'[t].sto = {}
          /\ a_task'[t].look = {} /\ a_task'[t].orphans = {}
      BY <1>t, <2>0, TaskEnds DEF OthersStay
    <3>2. SetsLevel("root", s, "a")
      BY <2>2 DEF SetsLevel
    <3> HIDE DEF s
    <3>3. \A v \in Accounts_!Users, x \in Storages :
             a_level'[v][x] = IF v = "root" /\ x = s THEN "a" ELSE a_level[v][x]
      <4>1. "a" \in Accounts_!Levels
        BY DEF Accounts_!Levels
      <4> QED BY <1>t, <2>0, <3>2, <4>1, LevelSet
    <3>4. StoragesInUse'
      BY <1>0, <2>0, <3>1 DEF AccountsRest, StoragesInUse, PassiveSteps
    <3>5. NewIsUntouched'
      <4> SUFFICES ASSUME NEW v \in Calls, NEW x \in Storages,
                          a_task'[v].pc = "owner", x \in a_task'[v].sto
                   PROVE  /\ x \in a_storages' /\ \A u \in Accounts_!Users : a_level'[u][x] = "none"
                          /\ \A w \in Calls \ {v} :
                                /\ x \in a_task'[w].sto => a_task'[w].pc \in PassiveSteps
                                /\ x \notin a_task'[w].look \cup a_task'[w].orphans
        BY DEF NewIsUntouched, PassiveSteps
      <4>1. v # t /\ a_task'[v] = a_task[v]
        BY <3>1
      <4>2. x # s
        BY <2>0, <4>1, OwnersAlone
      <4> QED BY <1>0, <2>0, <3>1, <3>3, <4>1, <4>2
            DEF AccountsRest, NewIsUntouched, PassiveSteps
    <3>6. RootSees'
      <4> SUFFICES ASSUME NEW x \in a_storages, a_level'["root"][x] # "a", x \notin a_unseen
                   PROVE  \E u \in Calls : x \in a_task'[u].sto /\ MakesStorage(u)'
        BY <2>0, <2>2 DEF RootSees, Accounts_!IsAdmin
      <4>1. ~Accounts_!IsAdmin("root", x) /\ x # s
        BY <1>t, <3>3 DEF Accounts_!IsAdmin
      <4>2. PICK u \in Calls : x \in a_task[u].sto /\ MakesStorage(u)
        BY <1>0, <4>1 DEF AccountsRest, RootSees
      <4> QED BY <2>0, <3>1, <4>1, <4>2 DEF MakesStorage
    <3>7. AdminIsKept'
      <4> SUFFICES ASSUME NEW v \in Calls, NEW x \in Storages,
                          a_task'[v].pc = "write", x \in a_task'[v].sto
                   PROVE  /\ a_task'[v].target # "root"
                          /\ a_task'[v].actor # "root" /\ ~a_task'[v].raced
                               => a_level'[a_task'[v].target][x] # "a"
        BY DEF AdminIsKept, Accounts_!IsAdmin
      <4>1. v # t /\ a_task'[v] = a_task[v]
        BY <3>1
      <4> QED BY <1>0, <1>t, <3>3, <4>1 DEF AccountsRest, AdminIsKept, Accounts_!IsAdmin
    <3>8. OrphansHold'
      <4>1. ASSUME NEW v \in Calls, NEW x \in a_task'[v].orphans, x \in a_storages,
                   ~a_task'[v].raced
            PROVE  Accounts_!OnlyMember(a_task[v].target, x)'
        <5>1. /\ x \in a_task[v].orphans /\ a_task'[v] = a_task[v]
              /\ a_task[v].target \in Accounts_!Users
          BY <1>t, <3>1, <4>1
        <5>2. a_task[v].target # "root"
          BY <1>0, <5>1 DEF AccountTasks
        <5>3. Accounts_!OnlyMember(a_task[v].target, x)
          BY <1>0, <4>1, <5>1 DEF AccountsRest, OrphansHold
        <5>4. \A u \in Accounts_!Users \ {"root"} : a_level'[u][x] = a_level[u][x]
          BY <1>t, <3>3, <4>1
        <5>5. a_task[v].target \in a_users => a_level'[a_task[v].target][x] = "a"
          BY <5>1, <5>2, <5>3, <5>4 DEF Accounts_!OnlyMember, Accounts_!IsAdmin
        <5>6. \A u \in a_users \ {a_task[v].target, "root"} : a_level'[u][x] = "none"
          BY <1>t, <5>3, <5>4 DEF Accounts_!OnlyMember
        <5> QED BY <2>0, <5>1, <5>5, <5>6 DEF Accounts_!OnlyMember, Accounts_!IsAdmin
      <4>2. \A v \in Calls : \A x \in a_task'[v].orphans :
               v # t /\ a_task'[v].target = a_task[v].target
        BY <3>1
      <4>3. \A v \in Calls : \A x \in a_task'[v].orphans \cap a_storages' :
                a_task'[v].raced \/ Accounts_!OnlyMember(a_task[v].target, x)'
        BY <2>0, <4>1
      <4> QED BY <4>2, <4>3 DEF OrphansHold, Accounts_!OnlyMember, Accounts_!IsAdmin
    <3> QED BY <3>4, <3>5, <3>6, <3>7, <3>8 DEF AccountsRest
  <2> QED BY <1>6, <2>1, <2>2 DEF Accounts_!CreateForRoot
<1>m. ASSUME NEW t \in Calls, NEW p \in {"guard", "write", "drop"}, a_task[t].pc # "idle",
             a_task' = [a_task EXCEPT ![t] = [a_task[t] EXCEPT !.pc = p]],
             UNCHANGED <<a_users, a_storages, a_level, a_used, a_unseen>>, ~MakesStorage(t),
             \A s \in a_task[t].sto : IsGiven(s) \/ WorksOn(t, s),
             a_task[t].sto \subseteq a_used,
             p = "write" => \A s \in a_task[t].sto :
                /\ a_task[t].target # "root"
                /\ a_task[t].actor # "root" => ~Accounts_!IsAdmin(a_task[t].target, s)
      PROVE  AccountsRest'
  <2>1. /\ OthersStay(t) /\ a_task'[t].pc = p /\ a_task'[t].sto = a_task[t].sto
        /\ a_task'[t].look = a_task[t].look /\ a_task'[t].orphans = a_task[t].orphans
        /\ a_task'[t].target = a_task[t].target /\ a_task'[t].raced = a_task[t].raced
        /\ a_task'[t].actor = a_task[t].actor
    BY <1>t, <1>m, TaskMoves
  <2>2. \A x \in Storages : WorksOn(t, x)' => WorksOn(t, x) \/ IsGiven(x)
    BY <1>m, <2>1 DEF WorksOn, PassiveSteps
  <2>3. \A x \in Storages : HasListed(t, x)' => HasListed(t, x)
        \/ (x \in a_storages /\ IsGiven(x))
    BY <2>1 DEF HasListed
  <2>4. \A x \in a_task'[t].orphans :
            \/ /\ x \in a_task[t].orphans /\ a_task'[t].target = a_task[t].target
               /\ a_task'[t].raced = a_task[t].raced
            \/ Accounts_!OnlyMember(a_task'[t].target, x)
    BY <2>1
  <2>5. a_task'[t].pc = "write" => \A x \in a_task'[t].sto :
            /\ a_task'[t].target # "root"
            /\ a_task'[t].actor # "root" => ~Accounts_!IsAdmin(a_task'[t].target, x)
    BY <1>m, <2>1
  <2>6. a_task'[t].pc # "owner" /\ a_unseen \subseteq a_unseen'
    BY <1>m, <2>1
  <2> QED BY <1>m, <2>1, <2>2, <2>3, <2>4, <2>5, <2>6, LocalStep
<1>7. ASSUME NEW t \in Calls, Accounts_!AccessChecked(t) \/ Accounts_!DeleteChecked(t)
      PROVE  AccountsRest'
  <2> DEFINE s == Accounts_!Sto(t)
  <2>0. /\ a_task[t].pc = "start" /\ s \in Storages /\ a_task[t].sto = {s} /\ ~MakesStorage(t)
        /\ UNCHANGED <<a_users, a_storages, a_level, a_used, a_unseen>>
    BY <1>7, <1>t DEF Accounts_!AccessChecked, Accounts_!DeleteChecked, MakesStorage
  <2>1. CASE a_task' = [a_task EXCEPT ![t] = Accounts_!Idle]
    BY <1>e, <2>0, <2>1
  <2>2. ASSUME a_task' # [a_task EXCEPT ![t] = Accounts_!Idle]
        PROVE  /\ Accounts_!IsAdmin(a_task[t].actor, s)
               /\ \E p \in {"guard", "drop"} :
                     a_task' = [a_task EXCEPT ![t] = [a_task[t] EXCEPT !.pc = p]]
    BY <1>7, <2>2 DEF Accounts_!AccessChecked, Accounts_!DeleteChecked
  <2>3. CASE a_task' # [a_task EXCEPT ![t] = Accounts_!Idle]
    <3>1. IsGiven(s) /\ s \in a_used
      BY <1>g, <1>t, <2>0, <2>2, <2>3 DEF Accounts_!IsAdmin
    <3> HIDE DEF s
    <3> QED BY <1>m, <2>0, <2>2, <2>3, <3>1
  <2> QED BY <2>1, <2>3
<1>8. ASSUME NEW t \in Calls, Accounts_!GuardTarget(t) PROVE AccountsRest'
  <2> DEFINE s == Accounts_!Sto(t)
  <2>0. /\ a_task[t].pc = "guard" /\ s \in Storages /\ a_task[t].sto = {s} /\ ~MakesStorage(t)
        /\ UNCHANGED <<a_users, a_storages, a_level, a_used, a_unseen>>
        /\ WorksOn(t, s)
    BY <1>8, <1>t DEF Accounts_!GuardTarget, MakesStorage, WorksOn, PassiveSteps
  <2>1. CASE a_task' = [a_task EXCEPT ![t] = Accounts_!Idle]
    BY <1>e, <2>0, <2>1
  <2>2. CASE /\ a_task' = [a_task EXCEPT ![t] = [a_task[t] EXCEPT !.pc = "write"]]
             /\ \/ a_task[t].actor = "root"
                \/ a_task[t].target # "root" /\ ~Accounts_!IsAdmin(a_task[t].target, s)
    <3>1. a_task[t].target # a_task[t].actor /\ a_task[t].sto \subseteq a_used
      BY <1>0, <2>0 DEF AccountTasks, AccountsRest, StoragesInUse, PassiveSteps
    <3> HIDE DEF s
    <3> QED BY <1>m, <2>0, <2>2, <3>1
  <2> QED BY <1>8, <2>1, <2>2 DEF Accounts_!GuardTarget
<1>w. ASSUME NEW t \in Calls, NEW l \in Accounts_!Levels, a_task[t].pc = "write",
             Accounts_!Write(t, a_task[t].target, Accounts_!Sto(t), l),
             UNCHANGED <<a_users, a_storages, a_used, a_unseen>>
      PROVE  AccountsRest'
  <2> DEFINE s == Accounts_!Sto(t)
             v == a_task[t].target
  <2>0. /\ s \in Storages /\ a_task[t].sto = {s} /\ WorksOn(t, s) /\ ~MakesStorage(t)
        /\ v \in Accounts_!Users /\ v # "root" /\ SetsLevel(v, s, l)
        /\ a_task' = [u \in Calls |-> IF u = t THEN Accounts_!Idle
                     ELSE [a_task[u] EXCEPT !.raced = @ \/ Accounts_!Overtaken(u, t, v, s)]]
    BY <1>0, <1>t, <1>w DEF Accounts_!Write, WorksOn, PassiveSteps, MakesStorage, AccountsRest,
       AdminIsKept,
       SetsLevel
  <2>1. a_task'[t] = Accounts_!Idle
    BY <2>0
  <2>2. ASSUME NEW u \in Calls, u # t
        PROVE  /\ a_task'[u].pc = a_task[u].pc /\ a_task'[u].op = a_task[u].op
               /\ a_task'[u].actor = a_task[u].actor /\ a_task'[u].target = a_task[u].target
               /\ a_task'[u].sto = a_task[u].sto /\ a_task'[u].look = a_task[u].look
               /\ a_task'[u].orphans = a_task[u].orphans
    <3>1. a_task'[u] = [a_task[u] EXCEPT !.raced = @ \/ Accounts_!Overtaken(u, t, v, s)]
      BY <2>0, <2>2
    <3> QED BY <1>t, <3>1 DEF AccountTask
  <2>3. ASSUME NEW u \in Calls, u # t
        PROVE  a_task'[u].raced = (a_task[u].raced \/ Accounts_!Overtaken(u, t, v, s))
    <3>1. a_task'[u] = [a_task[u] EXCEPT !.raced = @ \/ Accounts_!Overtaken(u, t, v, s)]
      BY <2>0, <2>3
    <3> QED BY <1>t, <3>1 DEF AccountTask
  <2>i. /\ a_task'[t].pc = "idle" /\ a_task'[t].sto = {}
        /\ a_task'[t].look = {} /\ a_task'[t].orphans = {}
    BY <2>1, TaskShapes
  <2>o. \A u \in Calls \ {t} : (a_task[u].pc = "write" /\ a_task[u].target = v
  /\ s \in a_task[u].sto)
               \/ (a_task[u].op = "remove" /\ s \in a_task[u].orphans) => a_task'[u].raced
    BY <2>3 DEF Accounts_!Overtaken
  <2>r. \A u \in Calls \ {t} : a_task[u].raced => a_task'[u].raced
    BY <2>3
  <2> HIDE DEF s, v
  <2>4. \A u \in Accounts_!Users, x \in Storages :
           a_level'[u][x] = IF u = v /\ x = s THEN l ELSE a_level[u][x]
    BY <1>t, <2>0, LevelSet
  <2>5. StoragesInUse'
    BY <1>0, <1>w, <2>2, <2>i DEF AccountsRest, StoragesInUse, PassiveSteps
  <2>6. NewIsUntouched'
    <3> SUFFICES ASSUME NEW w \in Calls, NEW x \in Storages,
                        a_task'[w].pc = "owner", x \in a_task'[w].sto
                 PROVE  /\ x \in a_storages' /\ \A u \in Accounts_!Users : a_level'[u][x] = "none"
                        /\ \A u \in Calls \ {w} :
                              /\ x \in a_task'[u].sto => a_task'[u].pc \in PassiveSteps
                              /\ x \notin a_task'[u].look \cup a_task'[u].orphans
      BY DEF NewIsUntouched, PassiveSteps
    <3>1. w # t /\ a_task[w].pc = "owner" /\ x \in a_task[w].sto
      BY <2>2, <2>i
    <3>2. x # s
      BY <2>0, <3>1, OwnersAlone
    <3> QED BY <1>0, <1>w, <2>2, <2>i, <2>4, <3>1, <3>2
          DEF AccountsRest, NewIsUntouched, PassiveSteps
  <2>7. RootSees'
    <3> SUFFICES ASSUME NEW x \in a_storages, a_level'["root"][x] # "a", x \notin a_unseen
                 PROVE  \E u \in Calls : x \in a_task'[u].sto /\ MakesStorage(u)'
      BY <1>w DEF RootSees, Accounts_!IsAdmin
    <3>1. ~Accounts_!IsAdmin("root", x)
      BY <1>t, <2>0, <2>4 DEF Accounts_!IsAdmin
    <3>2. PICK u \in Calls : x \in a_task[u].sto /\ MakesStorage(u)
      BY <1>0, <3>1 DEF AccountsRest, RootSees
    <3>3. u # t
      BY <2>0, <3>2
    <3> QED BY <2>2, <3>2, <3>3 DEF MakesStorage
  <2>8. AdminIsKept'
    <3> SUFFICES ASSUME NEW w \in Calls, NEW x \in Storages,
                        a_task'[w].pc = "write", x \in a_task'[w].sto
                 PROVE  /\ a_task'[w].target # "root"
                        /\ a_task'[w].actor # "root" /\ ~a_task'[w].raced
                             => a_level'[a_task'[w].target][x] # "a"
      BY DEF AdminIsKept, Accounts_!IsAdmin
    <3>1. w # t
      BY <2>i
    <3>2. /\ a_task[w].pc = "write" /\ x \in a_task[w].sto
          /\ a_task'[w].actor = a_task[w].actor /\ a_task'[w].target = a_task[w].target
          /\ a_task[w].target \in Accounts_!Users
      BY <1>t, <2>2, <3>1
    <3>3. a_task[w].target = v /\ x = s => a_task'[w].raced
      BY <2>o, <3>1, <3>2
    <3>4. a_task[w].raced => a_task'[w].raced
      BY <2>r, <3>1
    <3>5. /\ a_task[w].target # "root"
          /\ a_task[w].actor # "root" /\ ~a_task[w].raced => a_level[a_task[w].target][x] # "a"
      BY <1>0, <3>2 DEF AccountsRest, AdminIsKept, Accounts_!IsAdmin
    <3>6. ~(a_task[w].target = v /\ x = s) =>
             a_level'[a_task[w].target][x] = a_level[a_task[w].target][x]
      BY <2>4, <3>2
    <3> QED BY <3>2, <3>3, <3>4, <3>5, <3>6
  <2>9. OrphansHold'
    <3>1. ASSUME NEW w \in Calls, NEW x \in a_task'[w].orphans, x \in a_storages,
                 ~a_task'[w].raced
          PROVE  Accounts_!OnlyMember(a_task[w].target, x)'
      <4>1. w # t
        BY <2>i, <3>1
      <4>2. /\ x \in a_task[w].orphans /\ a_task'[w].target = a_task[w].target
            /\ a_task[w].target \in Accounts_!Users
        BY <1>t, <2>2, <3>1, <4>1
      <4>3. a_task[w].op = "remove"
        BY <1>0, <4>2 DEF AccountTasks
      <4>4. x # s
        BY <2>o, <3>1, <4>1, <4>2, <4>3
      <4>5. Accounts_!OnlyMember(a_task[w].target, x)
        BY <1>0, <2>r, <3>1, <4>1, <4>2 DEF AccountsRest, OrphansHold
      <4>6. \A u \in Accounts_!Users : a_level'[u][x] = a_level[u][x]
        BY <1>t, <2>4, <3>1, <4>4
      <4>7. a_task[w].target \in a_users => a_level'[a_task[w].target][x] = "a"
        BY <4>2, <4>5, <4>6 DEF Accounts_!OnlyMember, Accounts_!IsAdmin
      <4>8. \A u \in a_users \ {a_task[w].target, "root"} : a_level'[u][x] = "none"
        BY <1>t, <4>5, <4>6 DEF Accounts_!OnlyMember
      <4> QED BY <1>w, <4>2, <4>7, <4>8 DEF Accounts_!OnlyMember, Accounts_!IsAdmin
    <3>2. \A w \in Calls : \A x \in a_task'[w].orphans : a_task'[w].target = a_task[w].target
      BY <2>2, <2>i
    <3>3. \A w \in Calls : \A x \in a_task'[w].orphans \cap a_storages' :
              a_task'[w].raced \/ Accounts_!OnlyMember(a_task[w].target, x)'
      BY <1>w, <3>1
    <3> QED BY <3>2, <3>3 DEF OrphansHold, Accounts_!OnlyMember, Accounts_!IsAdmin
  <2> QED BY <2>5, <2>6, <2>7, <2>8, <2>9 DEF AccountsRest
<1>9. ASSUME NEW t \in Calls, Accounts_!Grant(t) \/ Accounts_!Restrict(t) PROVE AccountsRest'
  <2>1. CASE a_task' = [a_task EXCEPT ![t] = Accounts_!Idle] /\ UNCHANGED a_level
    BY <1>e, <1>9, <2>1 DEF Accounts_!Grant, Accounts_!Restrict, MakesStorage
  <2>2. a_task[t].lvl \in Accounts_!Levels /\ "none" \in Accounts_!Levels
    BY <1>t DEF AccountTask, Accounts_!Levels
  <2> QED BY <1>9, <1>w, <2>1, <2>2 DEF Accounts_!Grant, Accounts_!Restrict
<1>10. ASSUME NEW t \in Calls, Accounts_!RemoveLists(t) PROVE AccountsRest'
  <2> DEFINE look == {s \in a_storages : a_level[a_task[t].target][s] # "none"}
  <2>1. /\ a_task' = [a_task EXCEPT ![t] = [a_task[t] EXCEPT !.pc = "look", !.look = look]]
        /\ a_task[t].pc = "start"
        /\ UNCHANGED <<a_users, a_storages, a_level, a_used, a_unseen>>
    BY <1>10 DEF Accounts_!RemoveLists
  <2>2. \A x \in look : x \in a_storages /\ IsGiven(x)
    BY <1>g, <1>t
  <2> HIDE DEF look
  <2>3. /\ OthersStay(t) /\ a_task'[t].pc = "look" /\ a_task'[t].sto = a_task[t].sto
        /\ a_task'[t].look = look /\ a_task'[t].orphans = a_task[t].orphans
        /\ a_task'[t].target = a_task[t].target /\ a_task'[t].raced = a_task[t].raced
    BY <1>t, <2>1 DEF OthersStay, AccountTask
  <2>4. \A x \in Storages : ~WorksOn(t, x)'
    BY <2>3 DEF WorksOn, PassiveSteps
  <2>5. \A x \in Storages : HasListed(t, x)' => HasListed(t, x)
        \/ (x \in a_storages /\ IsGiven(x))
    BY <2>2, <2>3 DEF HasListed
  <2>6. a_task'[t].pc \in PassiveSteps /\ ~MakesStorage(t) /\ a_task'[t].pc \notin {"owner",
        "write"}
    BY <2>1, <2>3 DEF PassiveSteps, MakesStorage
  <2>7. \A x \in a_task'[t].orphans :
            \/ /\ x \in a_task[t].orphans /\ a_task'[t].target = a_task[t].target
               /\ a_task'[t].raced = a_task[t].raced
            \/ Accounts_!OnlyMember(a_task'[t].target, x)
    BY <2>3
  <2> QED BY <2>1, <2>3, <2>4, <2>5, <2>6, <2>7, LocalStep
<1>11. ASSUME NEW t \in Calls, Accounts_!RemoveLooks(t) PROVE AccountsRest'
  <2>1. /\ a_task[t].pc = "look" /\ ~MakesStorage(t)
        /\ UNCHANGED <<a_users, a_storages, a_level, a_used, a_unseen>>
    BY <1>11 DEF Accounts_!RemoveLooks, MakesStorage
  <2>2. CASE a_task' = [a_task EXCEPT ![t] = [a_task[t] EXCEPT !.pc = "purge"]]
    <3>1. /\ OthersStay(t) /\ a_task'[t].pc = "purge" /\ a_task'[t].sto = a_task[t].sto
          /\ a_task'[t].look = a_task[t].look /\ a_task'[t].orphans = a_task[t].orphans
          /\ a_task'[t].target = a_task[t].target /\ a_task'[t].raced = a_task[t].raced
      BY <1>t, <2>2, TaskMoves
    <3>2. \A x \in Storages : ~WorksOn(t, x)'
      BY <3>1 DEF WorksOn, PassiveSteps
    <3>3. \A x \in Storages : HasListed(t, x)' => HasListed(t, x)
          \/ (x \in a_storages /\ IsGiven(x))
      BY <3>1 DEF HasListed
    <3>4. a_task'[t].pc \in PassiveSteps /\ a_task'[t].pc \notin {"owner", "write"}
      BY <3>1 DEF PassiveSteps
    <3>5. \A x \in a_task'[t].orphans :
            \/ /\ x \in a_task[t].orphans /\ a_task'[t].target = a_task[t].target
               /\ a_task'[t].raced = a_task[t].raced
            \/ Accounts_!OnlyMember(a_task'[t].target, x)
      BY <3>1
    <3> QED BY <2>1, <3>1, <3>2, <3>3, <3>4, <3>5, LocalStep
  <2>3. CASE a_task[t].look # {}
    <3>1. PICK s \in a_task[t].look :
             a_task' = [a_task EXCEPT ![t] = [a_task[t] EXCEPT !.look = @ \ {s},
                !.orphans = @ \cup (IF Accounts_!OnlyOwner(a_task[t].target,
                s) THEN {s} ELSE {})]]
      BY <1>11, <2>3 DEF Accounts_!RemoveLooks
    <3>2. /\ OthersStay(t) /\ a_task'[t].pc = "look" /\ a_task'[t].sto = a_task[t].sto
          /\ a_task'[t].look \subseteq a_task[t].look
          /\ \A x \in a_task'[t].orphans :
                x \in a_task[t].orphans \/ (x = s /\ Accounts_!OnlyOwner(a_task[t].target, s))
          /\ a_task'[t].target = a_task[t].target /\ a_task'[t].raced = a_task[t].raced
      BY <1>t, <2>1, <3>1 DEF OthersStay, AccountTask
    <3>3. \A x \in Storages : ~WorksOn(t, x)'
      BY <3>2 DEF WorksOn, PassiveSteps
    <3>4. \A x \in Storages : HasListed(t, x)' => HasListed(t, x)
          \/ (x \in a_storages /\ IsGiven(x))
      BY <3>1, <3>2 DEF HasListed
    <3>5. a_task'[t].pc \in PassiveSteps /\ a_task'[t].pc \notin {"owner", "write"}
      BY <3>2 DEF PassiveSteps
    <3>6. Accounts_!OnlyOwner(a_task[t].target, s) => Accounts_!OnlyMember(a_task[t].target, s)
      BY <1>t DEF Accounts_!OnlyOwner, Accounts_!OnlyMember, Accounts_!IsAdmin, Accounts_!Users
    <3>7. \A x \in a_task'[t].orphans :
            \/ /\ x \in a_task[t].orphans /\ a_task'[t].target = a_task[t].target
               /\ a_task'[t].raced = a_task[t].raced
            \/ Accounts_!OnlyMember(a_task'[t].target, x)
      BY <3>2, <3>6
    <3> QED BY <2>1, <3>2, <3>3, <3>4, <3>5, <3>7, LocalStep
  <2> QED BY <1>11, <2>2, <2>3 DEF Accounts_!RemoveLooks
<1>12. ASSUME NEW t \in Calls, Accounts_!RemovePurges(t) PROVE AccountsRest'
  <2>1. CASE /\ a_task' = [a_task EXCEPT ![t] = Accounts_!Idle]
             /\ UNCHANGED <<a_storages, a_level, a_unseen>>
    BY <1>e, <1>12, <2>1 DEF Accounts_!RemovePurges, MakesStorage
  <2>2. ASSUME NEW s \in a_task[t].orphans, Accounts_!DropStorage(s),
               a_task' = [a_task EXCEPT ![t] = [a_task[t] EXCEPT !.orphans = @ \ {s}]]
        PROVE  AccountsRest'
    <3>1. /\ OthersStay(t) /\ a_task'[t].pc = a_task[t].pc /\ a_task'[t].op = a_task[t].op
          /\ a_task'[t].look = a_task[t].look /\ a_task'[t].orphans \subseteq a_task[t].orphans
          /\ a_task'[t].target = a_task[t].target /\ a_task'[t].raced = a_task[t].raced
      BY <1>t, <2>2 DEF OthersStay, AccountTask
    <3>2. /\ a_task[t].pc = "purge" /\ UNCHANGED <<a_users, a_used>> /\ ~MakesStorage(t)
          /\ s \in Storages /\ HasListed(t, s)
      BY <1>12, <1>t DEF Accounts_!RemovePurges, MakesStorage, HasListed
    <3> QED BY <2>2, <3>1, <3>2, DropStep
  <2> QED BY <1>12, <2>1, <2>2 DEF Accounts_!RemovePurges
<1>13. ASSUME NEW t \in Calls, Accounts_!RemoveUser(t) PROVE AccountsRest'
  <2> DEFINE v == a_task[t].target
             g == [s \in Storages |-> "none"]
  <2>1. /\ a_task' = [a_task EXCEPT ![t] = Accounts_!Idle] /\ a_task[t].pc = "purge"
        /\ a_users' = a_users \ {v} /\ UNCHANGED <<a_storages, a_used, a_unseen>>
        /\ v \in Accounts_!Users /\ ~MakesStorage(t)
    BY <1>13, <1>t DEF Accounts_!RemoveUser, MakesStorage
  <2>2. v # "root"
    BY <1>0, <2>1 DEF AccountTasks
  <2>3. \A u \in Accounts_!Users, x \in Storages :
           a_level'[u][x] = IF u = v THEN "none" ELSE a_level[u][x]
    <3>1. SetsRow(v, g) /\ g \in [Storages -> Accounts_!Levels]
          /\ \A x \in Storages : g[x] = "none"
      BY <1>13 DEF Accounts_!RemoveUser, SetsRow, Accounts_!Levels
    <3> HIDE DEF g
    <3> QED BY <1>t, <2>1, <3>1, LevelRow
  <2>4. /\ \A u \in Calls : u # t => a_task'[u] = a_task[u]
        /\ a_task'[t].pc = "idle" /\ a_task'[t].sto = {}
        /\ a_task'[t].look = {} /\ a_task'[t].orphans = {}
    BY <1>t, <2>1, TaskEnds DEF OthersStay
  <2> HIDE DEF v, g
  <2>5. StoragesInUse'
    BY <1>0, <2>1, <2>4 DEF AccountsRest, StoragesInUse, PassiveSteps
  <2>6. NewIsUntouched'
    <3> SUFFICES ASSUME NEW w \in Calls, NEW x \in Storages,
                        a_task'[w].pc = "owner", x \in a_task'[w].sto
                 PROVE  /\ x \in a_storages' /\ \A u \in Accounts_!Users : a_level'[u][x] = "none"
                        /\ \A u \in Calls \ {w} :
                              /\ x \in a_task'[u].sto => a_task'[u].pc \in PassiveSteps
                              /\ x \notin a_task'[u].look \cup a_task'[u].orphans
      BY DEF NewIsUntouched, PassiveSteps
    <3>1. w # t /\ a_task'[w] = a_task[w]
      BY <2>4
    <3> QED BY <1>0, <2>1, <2>3, <2>4, <3>1 DEF AccountsRest, NewIsUntouched, PassiveSteps
  <2>7. RootSees'
    <3> SUFFICES ASSUME NEW x \in a_storages, a_level'["root"][x] # "a", x \notin a_unseen
                 PROVE  \E u \in Calls : x \in a_task'[u].sto /\ MakesStorage(u)'
      BY <2>1 DEF RootSees, Accounts_!IsAdmin
    <3>1. ~Accounts_!IsAdmin("root", x)
      BY <1>t, <2>2, <2>3 DEF Accounts_!IsAdmin
    <3>2. PICK u \in Calls : x \in a_task[u].sto /\ MakesStorage(u)
      BY <1>0, <3>1 DEF AccountsRest, RootSees
    <3> QED BY <2>1, <2>4, <3>2 DEF MakesStorage
  <2>8. AdminIsKept'
    <3> SUFFICES ASSUME NEW w \in Calls, NEW x \in Storages,
                        a_task'[w].pc = "write", x \in a_task'[w].sto
                 PROVE  /\ a_task'[w].target # "root"
                        /\ a_task'[w].actor # "root" /\ ~a_task'[w].raced
                             => a_level'[a_task'[w].target][x] # "a"
      BY DEF AdminIsKept, Accounts_!IsAdmin
    <3>1. a_task'[w] = a_task[w]
      BY <2>4
    <3> QED BY <1>0, <1>t, <2>3, <3>1 DEF AccountsRest, AdminIsKept, Accounts_!IsAdmin
  <2>9. OrphansHold'
    <3>1. ASSUME NEW w \in Calls, NEW x \in a_task'[w].orphans, x \in a_storages,
                 ~a_task'[w].raced
          PROVE  Accounts_!OnlyMember(a_task[w].target, x)'
      <4>1. /\ x \in a_task[w].orphans /\ a_task'[w] = a_task[w]
            /\ a_task[w].target \in Accounts_!Users
        BY <1>t, <2>4, <3>1
      <4>2. Accounts_!OnlyMember(a_task[w].target, x)
        BY <1>0, <3>1, <4>1 DEF AccountsRest, OrphansHold
      <4>3. a_task[w].target \in a_users' => a_level'[a_task[w].target][x] = "a"
        BY <1>t, <2>1, <2>3, <3>1, <4>1, <4>2 DEF Accounts_!OnlyMember, Accounts_!IsAdmin
      <4>4. \A u \in a_users' \ {a_task[w].target, "root"} : a_level'[u][x] = "none"
        BY <1>t, <2>1, <2>3, <3>1, <4>2 DEF Accounts_!OnlyMember
      <4> QED BY <4>1, <4>3, <4>4 DEF Accounts_!OnlyMember, Accounts_!IsAdmin
    <3>2. \A w \in Calls : \A x \in a_task'[w].orphans : a_task'[w].target = a_task[w].target
      BY <2>4
    <3>3. \A w \in Calls : \A x \in a_task'[w].orphans \cap a_storages' :
              a_task'[w].raced \/ Accounts_!OnlyMember(a_task[w].target, x)'
      BY <2>1, <3>1
    <3> QED BY <3>2, <3>3 DEF OrphansHold, Accounts_!OnlyMember, Accounts_!IsAdmin
  <2> QED BY <2>5, <2>6, <2>7, <2>8, <2>9 DEF AccountsRest
<1>14. ASSUME NEW t \in Calls, Accounts_!HangUp(t) PROVE AccountsRest'
  BY <1>14, <1>e DEF Accounts_!HangUp, MakesStorage
<1>15. CASE Accounts_!CreateUser
  <2>1. PICK u \in People \ a_used : a_users' = a_users \cup {u} /\ a_used' = a_used \cup {u}
    BY <1>15 DEF Accounts_!CreateUser
  <2>2. UNCHANGED <<a_storages, a_level, a_task, a_unseen>>
    BY <1>15 DEF Accounts_!CreateUser
  <2>3. u # "root" /\ u \notin a_users /\ u \in Accounts_!Users
    BY <1>0, <2>1, RecordsAssumption DEF AccountRows, Accounts_!Users
  <2>4. \A x \in Storages : a_level[u][x] = "none"
    BY <1>g, <2>3
  <2>5. StoragesInUse' /\ NewIsUntouched' /\ RootSees' /\ AdminIsKept'
    <3>1. StoragesInUse'
      BY <1>0, <2>1, <2>2 DEF AccountsRest, StoragesInUse
    <3>2. NewIsUntouched'
      BY <1>0, <2>2 DEF AccountsRest, NewIsUntouched
    <3>3. RootSees'
      BY <1>0, <2>2 DEF AccountsRest, RootSees, MakesStorage, Accounts_!IsAdmin
    <3>4. AdminIsKept'
      BY <1>0, <2>2 DEF AccountsRest, AdminIsKept, Accounts_!IsAdmin
    <3> QED BY <3>1, <3>2, <3>3, <3>4
  <2>6. OrphansHold'
    <3>1. ASSUME NEW w \in Calls, NEW x \in a_task[w].orphans, x \in a_storages,
                 ~a_task[w].raced
          PROVE  Accounts_!OnlyMember(a_task[w].target, x)'
      <4>1. a_task[w].op = "remove" /\ a_task[w].target \in a_used
        BY <1>0, <3>1 DEF AccountTasks
      <4>2. Accounts_!OnlyMember(a_task[w].target, x)
        BY <1>0, <3>1 DEF AccountsRest, OrphansHold
      <4> QED BY <1>t, <2>1, <2>2, <2>4, <3>1, <4>1, <4>2
            DEF Accounts_!OnlyMember, Accounts_!IsAdmin
    <3> QED BY <2>2, <3>1 DEF OrphansHold, Accounts_!OnlyMember, Accounts_!IsAdmin
  <2> QED BY <2>5, <2>6 DEF AccountsRest
<1>16. CASE Accounts_!Restart
  <2> DEFINE f == [s \in Storages |-> IF s \in a_storages THEN "a" ELSE "none"]
  <2>1. /\ SetsRow("root", f) /\ f \in [Storages -> Accounts_!Levels]
        /\ \A x \in a_storages : f[x] = "a"
    BY <1>16, <1>t DEF Accounts_!Restart, SetsRow, Accounts_!Levels
  <2>2. /\ \A t \in Calls : a_task'[t] = Accounts_!Idle
        /\ UNCHANGED <<a_users, a_storages, a_used>>
    BY <1>16 DEF Accounts_!Restart
  <2>3. \A t \in Calls : /\ a_task'[t].pc = "idle" /\ a_task'[t].sto = {}
                         /\ a_task'[t].look = {} /\ a_task'[t].orphans = {}
    BY <2>2, TaskShapes
  <2> HIDE DEF f
  <2>4. \A x \in a_storages : a_level'["root"][x] = "a"
    BY <1>t, <2>1, LevelRow
  <2> QED BY <2>2, <2>3, <2>4 DEF AccountsRest, StoragesInUse, NewIsUntouched, RootSees,
             AdminIsKept,
             OrphansHold, PassiveSteps, Accounts_!IsAdmin
<1>17. CASE Accounts_!Quiet
  <2>1. UNCHANGED <<a_users, a_storages, a_level, a_used, a_task, a_unseen>>
    BY <1>17 DEF Accounts_!Quiet, Accounts_!vars
  <2>2. StoragesInUse' /\ NewIsUntouched'
    BY <1>0, <2>1 DEF AccountsRest, StoragesInUse, NewIsUntouched
  <2>3. RootSees' /\ AdminIsKept'
    BY <1>0, <2>1 DEF AccountsRest, RootSees, AdminIsKept, MakesStorage, Accounts_!IsAdmin
  <2>4. OrphansHold'
    BY <1>0, <2>1 DEF AccountsRest, OrphansHold, Accounts_!OnlyMember, Accounts_!IsAdmin
  <2> QED BY <2>2, <2>3, <2>4 DEF AccountsRest
<1> QED BY <1>1, <1>2, <1>3, <1>4, <1>5, <1>6, <1>7, <1>8, <1>9, <1>10, <1>11, <1>12, <1>13,
           <1>14, <1>15, <1>16, <1>17, <1>u DEF Accounts_!Next

LEMMA AccountsInit ==
  ASSUME Accounts_!Init
  PROVE  AccountsHold
<1>1. PICK owner \in People, s \in Storages :
         /\ a_users = {"root", owner} /\ a_storages = {s} /\ a_used = {owner, s}
         /\ a_level = [u \in Accounts_!Users |->
                         [x \in Storages |-> IF u \in a_users /\ x = s THEN "a" ELSE "none"]]
  BY DEF Accounts_!Init
<1>2. a_task = [t \in Calls |-> Accounts_!Idle]
  BY DEF Accounts_!Init
<1>3. \A u \in Accounts_!Users, x \in Storages :
         a_level[u][x] = IF u \in a_users /\ x = s THEN "a" ELSE "none"
  BY <1>1
<1>4. a_level \in [Accounts_!Users -> [Storages -> Accounts_!Levels]]
  BY <1>1 DEF Accounts_!Levels
<1>5. AccountRows
  BY <1>1, <1>3, <1>4 DEF AccountRows, Accounts_!TypeOK, Accounts_!Users
<1>6. AccountTasks
  BY <1>2, TaskShapes DEF AccountTasks
<1>7. \A t \in Calls : /\ a_task[t].pc = "idle" /\ a_task[t].sto = {} /\ a_task[t].look = {}
                       /\ a_task[t].orphans = {}
  BY <1>2, TaskShapes
<1>8. RootSees
  BY <1>1, <1>3 DEF RootSees, Accounts_!IsAdmin, Accounts_!Users
<1> QED BY <1>5, <1>6, <1>7, <1>8 DEF AccountsHold, StoragesInUse, NewIsUntouched, AdminIsKept,
           OrphansHold, PassiveSteps

(* The rows of admins and members, from what the invariant says of who is   *)
(* about to write and of who is about to purge.                             *)
LEMMA AccountsKeepGrants ==
  ASSUME AccountsHold, Accounts_!Next
  PROVE  Accounts_!AdminsAreTheSuperusers /\ Accounts_!SharedIsKept
<1> USE DEF Accounts_!Go, Accounts_!At, Accounts_!Rows, Accounts_!Fault
<1>t. /\ a_task \in [Calls -> AccountTask] /\ LevelsTyped
      /\ "root" \in Accounts_!Users /\ a_users \subseteq Accounts_!Users
      /\ a_storages \subseteq Storages /\ a_storages \subseteq a_used
      /\ \A t \in Calls : /\ a_task[t].actor \in Accounts_!Users
                          /\ a_task[t].target \in Accounts_!Users
      /\ \A t \in Calls : a_task[t].pc # "idle" =>
            Accounts_!Sto(t) \in Storages /\ a_task[t].sto = {Accounts_!Sto(t)}
      /\ "a" \in Accounts_!Levels /\ "none" \in Accounts_!Levels
  BY AccountTypes DEF Accounts_!Levels
<1>r. AccountRows' /\ a_users' \subseteq Accounts_!Users /\ a_storages' \subseteq Storages
  BY AccountRowsStep DEF AccountRows
<1>1. Accounts_!SharedIsKept
  BY DEF Accounts_!SharedIsKept, AccountsHold, OrphansHold
<1>2. ASSUME NEW u \in a_users', NEW s \in a_storages', a_level[u][s] = "a",
             a_level'[u][s] # "a"
      PROVE  \E t \in Calls : /\ a_task[t].pc = "write" /\ a_task[t].target = u
                              /\ s \in a_task[t].sto
                              /\ a_task[t].actor = "root" \/ a_task[t].raced
  <2>0. u \in Accounts_!Users /\ s \in Storages /\ ~UNCHANGED a_level
    BY <1>r, <1>2
  <2>1. ASSUME NEW t \in Calls, NEW v \in Accounts_!Users, NEW x \in Storages,
               SetsLevel(v, x, "a")
        PROVE  FALSE
    BY <1>t, <1>2, <2>0, <2>1, LevelSet
  <2>2. ASSUME NEW x, Accounts_!DropStorage(x) PROVE FALSE
    <3>1. /\ \A v \in Accounts_!Users, y \in Storages :
                a_level'[v][y] = IF y = x THEN "none" ELSE a_level[v][y]
          /\ a_storages' = a_storages \ {x}
      BY <1>t, <2>2, LevelDropped
    <3> QED BY <1>2, <2>0, <3>1
  <2>3. ASSUME NEW t \in Calls, Accounts_!CreateGrants(t) PROVE FALSE
    BY <1>t, <2>0, <2>1, <2>2, <2>3 DEF Accounts_!CreateGrants, Accounts_!GrantForUserId,
       SetsLevel
  <2>4. ASSUME NEW t \in Calls, Accounts_!CreateChannels(t) \/ Accounts_!CreateUndone(t)
                                \/ Accounts_!Delete(t) \/ Accounts_!RemovePurges(t)
        PROVE  FALSE
    BY <2>0, <2>2, <2>4 DEF Accounts_!CreateChannels, Accounts_!CreateUndone, Accounts_!Delete,
       Accounts_!RemovePurges
  <2>5. ASSUME NEW t \in Calls, Accounts_!CreateForRoot(t) PROVE FALSE
    BY <1>t, <2>0, <2>1, <2>5 DEF Accounts_!CreateForRoot, SetsLevel
  <2>6. ASSUME NEW t \in Calls, Accounts_!RemoveUser(t) PROVE FALSE
    <3> DEFINE v == a_task[t].target
               g == [x \in Storages |-> "none"]
    <3>1. /\ a_users' = a_users \ {v} /\ v \in Accounts_!Users
          /\ SetsRow(v, g) /\ g \in [Storages -> Accounts_!Levels]
      BY <1>t, <2>6 DEF Accounts_!RemoveUser, SetsRow
    <3> HIDE DEF v, g
    <3>2. \A w \in Accounts_!Users, x \in Storages :
             a_level'[w][x] = IF w = v THEN g[x] ELSE a_level[w][x]
      BY <1>t, <3>1, LevelRow
    <3> QED BY <1>2, <2>0, <3>1, <3>2
  <2>7. ASSUME Accounts_!Restart PROVE FALSE
    <3> DEFINE f == [x \in Storages |-> IF x \in a_storages THEN "a" ELSE "none"]
    <3>1. /\ a_storages' = a_storages /\ \A x \in a_storages : f[x] = "a"
          /\ SetsRow("root", f) /\ f \in [Storages -> Accounts_!Levels]
      BY <1>t, <2>7 DEF Accounts_!Restart, SetsRow
    <3> HIDE DEF f
    <3>2. \A w \in Accounts_!Users, x \in Storages :
             a_level'[w][x] = IF w = "root" THEN f[x] ELSE a_level[w][x]
      BY <1>t, <3>1, LevelRow
    <3> QED BY <1>2, <2>0, <3>1, <3>2
  <2>8. ASSUME NEW t \in Calls, Accounts_!Grant(t) \/ Accounts_!Restrict(t)
        PROVE  /\ a_task[t].pc = "write" /\ a_task[t].target = u /\ s \in a_task[t].sto
               /\ a_task[t].actor = "root" \/ a_task[t].raced
    <3>1. a_task[t].lvl \in Accounts_!Levels
      BY <1>t DEF AccountTask
    <3>2. PICK l \in Accounts_!Levels : SetsLevel(a_task[t].target, Accounts_!Sto(t), l)
      BY <1>t, <2>0, <2>8, <3>1 DEF Accounts_!Grant, Accounts_!Restrict, Accounts_!Write,
         SetsLevel
    <3>3. a_task[t].pc = "write"
      BY <2>8 DEF Accounts_!Grant, Accounts_!Restrict
    <3>4. \A w \in Accounts_!Users, x \in Storages :
             a_level'[w][x] = IF w = a_task[t].target /\ x = Accounts_!Sto(t) THEN l
                              ELSE a_level[w][x]
      BY <1>t, <3>2, <3>3, LevelSet
    <3>5. u = a_task[t].target /\ s = Accounts_!Sto(t)
      BY <1>2, <2>0, <3>4
    <3>6. s \in a_task[t].sto
      BY <1>t, <3>3, <3>5
    <3> QED BY <1>2, <2>0, <3>3, <3>5, <3>6 DEF AccountsHold, AdminIsKept, Accounts_!IsAdmin
  <2>9. ASSUME NEW t \in Calls,
               \/ Accounts_!Ask(t) \/ Accounts_!HangUp(t) \/ Accounts_!CreateRow(t)
               \/ Accounts_!AccessChecked(t) \/ Accounts_!GuardTarget(t)
               \/ Accounts_!DeleteChecked(t) \/ Accounts_!RemoveLists(t)
               \/ Accounts_!RemoveLooks(t)
        PROVE  UNCHANGED a_level
    BY <2>9 DEF Accounts_!Ask, Accounts_!HangUp, Accounts_!CreateRow, Accounts_!AccessChecked,
       Accounts_!GuardTarget, Accounts_!DeleteChecked, Accounts_!RemoveLists,
       Accounts_!RemoveLooks
  <2>10. Accounts_!CreateUser \/ Accounts_!Quiet => UNCHANGED a_level
    BY DEF Accounts_!CreateUser, Accounts_!Quiet, Accounts_!vars
  <2> QED BY <2>0, <2>3, <2>4, <2>5, <2>6, <2>7, <2>8, <2>9, <2>10 DEF Accounts_!Next
<1>3. Accounts_!AdminsAreTheSuperusers
  BY <1>2 DEF Accounts_!AdminsAreTheSuperusers, Accounts_!IsAdmin
<1> QED BY <1>1, <1>3

ChosenAccountsHold == chosen = "accounts" => AccountsHold

LEMMA AccountsStay == RecordsSpec => []ChosenAccountsHold
<1>1. RecordsInit => ChosenAccountsHold
  BY AccountsInit DEF RecordsInit, ChosenAccountsHold
<1>2. ChosenAccountsHold /\ [RecordsNext]_recordsVars => ChosenAccountsHold'
  <2> SUFFICES ASSUME ChosenAccountsHold, [RecordsNext]_recordsVars, chosen' = "accounts"
               PROVE  AccountsHold'
    BY DEF ChosenAccountsHold
  <2>1. CASE AccountsRuns
    <3>1. AccountsHold /\ Accounts_!Next
      BY <2>1 DEF AccountsRuns, ChosenAccountsHold
    <3>2. AccountTasks' /\ AccountRows'
      BY <3>1, AccountTasksStep, AccountRowsStep
    <3> QED BY <3>1, <3>2, AccountsRestStep DEF AccountsHold, AccountsRest
  <2>2. CASE ~AccountsRuns
    <3>1. chosen = "accounts" /\ UNCHANGED accountsVars
      BY <2>2 DEF RecordsNext, SetupRuns, LibraryRuns, RestoreRuns, UserSessionsRuns,
         AppLockRuns, PreviewCacheRuns, ShortcutsRuns, recordsVars
    <3>2. AccountsHold
      BY <3>1 DEF ChosenAccountsHold
    <3>3. Accounts_!Quiet
      BY <3>1 DEF accountsVars, Accounts_!Quiet, Accounts_!vars
    <3>4. Accounts_!Next
      BY <3>3 DEF Accounts_!Next
    <3>5. AccountTasks' /\ AccountRows'
      BY <3>2, <3>4, AccountTasksStep, AccountRowsStep
    <3> QED BY <3>2, <3>4, <3>5, AccountsRestStep DEF AccountsHold, AccountsRest
  <2> QED BY <2>1, <2>2
<1> QED BY <1>1, <1>2, PTL DEF RecordsSpec

(* What somebody was given is taken only by who may take it, for any number *)
(* of people, storages and requests (guard_admin_target,                    *)
(* delete_by_superuser).                                                    *)
THEOREM GrantsAlwaysHold == RecordsSpec => GrantsHold
<1>1. ChosenAccountsHold /\ [RecordsNext]_recordsVars
        => [chosen = "accounts" => Accounts_!AdminsAreTheSuperusers
                                   /\ Accounts_!SharedIsKept]_recordsVars
  <2> SUFFICES ASSUME ChosenAccountsHold, RecordsNext, chosen = "accounts"
               PROVE  Accounts_!AdminsAreTheSuperusers /\ Accounts_!SharedIsKept
    OBVIOUS
  <2>1. AccountsHold
    BY DEF ChosenAccountsHold
  <2>2. Accounts_!Next
    BY DEF RecordsNext, AccountsRuns, SetupRuns, LibraryRuns, RestoreRuns, UserSessionsRuns,
       AppLockRuns, PreviewCacheRuns, ShortcutsRuns
  <2> QED BY <2>1, <2>2, AccountsKeepGrants
<1> QED BY <1>1, AccountsStay, PTL DEF RecordsSpec, GrantsHold

-----------------------------------------------------------------------------
(* Set-up of storages: the inductive invariant.                             *)

BotRow == [tok : Bots, sto : Storages, user : Owners \cup {"none"}]
SetupSteps ==
    {"idle", "look", "create", "again", "link", "conflict", "bot", "getMe", "drop", "read", "write",
     "done", "failed", "discover", "add"}
SetupTask ==
    [pc : SetupSteps, op : {"none", "setup", "bot", "refresh"}, user : Owners \cup {"none"},
     tok : Bots \cup {"none"}, chats : SUBSET Groups, sto : Storages \cup {"none"},
     fresh : BOOLEAN, drop : BOOLEAN, saw : SUBSET (Groups \cup BotRow)]

(* The rows, and that only what was made has an owner.                      *)
SetupRows ==
    /\ s_owner \in [Storages -> Owners \cup {"none"}]
    /\ s_chan \in [Groups -> Storages \cup {"none"}]
    /\ s_under \in [Groups -> Bots \cup {"none"}]
    /\ s_workers \subseteq BotRow
    /\ \A s \in Storages : s_owner[s] # "none" => s \in s_made

SchemaHolds ==
    /\ \A c \in Groups : s_chan[c] # "none" => s_owner[s_chan[c]] # "none"
    /\ \A w \in s_workers : s_owner[w.sto] # "none"
    /\ \A v, w \in s_workers : v.tok = w.tok => v = w

ChannelsFit ==
    \A s \in Storages :
        /\ IsFiniteSet(Setup_!ChannelsOf(s))
        /\ Cardinality(Setup_!ChannelsOf(s)) =< MAX_CHANNELS

(* What a request is at, and what it knows by then.                         *)
Unplaced == {"idle", "look", "create", "again"}
SetupTaskHolds(c) ==
    /\ c.pc = "idle" => c = Setup_!Idle
    /\ c.pc \in Unplaced <=> c.sto = "none"
    /\ c.pc \in {"look", "create", "again", "link", "conflict"} => c.user \in Owners
    /\ c.pc \in {"look", "create", "again", "link", "conflict", "bot", "getMe", "drop", "read",
                 "write", "add"}
       => c.tok \in Bots
    /\ c.fresh \/ c.pc \in {"look", "create"} => c.op = "setup"
    /\ c.fresh => c.sto # "none"
    /\ c.pc \in {"link", "drop", "add"} => c.saw \subseteq Groups
    /\ c.pc \in {"discover", "add"} => ~c.fresh
    /\ c.pc = "drop" => c.drop
SetupTasks == s_task \in [Calls -> SetupTask] /\ \A t \in Calls : SetupTaskHolds(s_task[t])

(* A storage is reported as set up, was left by a Finish that could not     *)
(* remove it, or the Finish that made it is running.                        *)
StillMaking(s) == \E t \in Calls : s_task[t].fresh /\ s_task[t].sto = s
FinishHolds ==
    ~s_crashed => \A s \in Storages :
                      s_owner[s] # "none" => s \in s_said \cup s_left \/ StillMaking(s)

(* Where no two requests worked on a storage together, one works on it, it  *)
(* has one bot, and that bot is the one of its chats.                       *)
WorksAlone ==
    \A s \in Storages \ s_mixed : \A t, u \in Calls :
        s_task[t].sto = s /\ s_task[u].sto = s => t = u

BotsOf(s) == {w \in s_workers : w.sto = s}
OneBot ==
    \A s \in Storages \ s_mixed :
        /\ \A v, w \in BotsOf(s) : v = w
        /\ \A c \in Groups : s_chan[c] = s /\ s_under[c] # "none" =>
              \E w \in BotsOf(s) : w.tok = s_under[c]

(* What a request that changes the bot, or discovers with it, has seen of   *)
(* the channels C, the bots W and the owner o of its storage.               *)
Knows(c, C, W, o) ==
    /\ c.pc = "drop" => C \subseteq c.saw
    /\ c.pc \in {"read", "write"} => IF c.drop THEN C = {} ELSE W = {}
    /\ c.pc = "write" => W \subseteq c.saw
    /\ c.pc = "add" /\ o # "none" => \E w \in W : w.tok = c.tok
KnowsItsBot ==
    \A t \in Calls, s \in Storages \ s_mixed : s_task[t].sto = s =>
        Knows(s_task[t], Setup_!ChannelsOf(s), BotsOf(s), s_owner[s])

SetupHolds ==
    /\ SetupRows /\ SchemaHolds /\ ChannelsFit /\ SetupTasks
    /\ FinishHolds /\ WorksAlone /\ OneBot /\ KnowsItsBot

-----------------------------------------------------------------------------
(* What the requests are, and how they go on.                               *)

LEMMA SetupShapes ==
    /\ Setup_!Idle \in SetupTask /\ SetupTaskHolds(Setup_!Idle)
    /\ Setup_!Idle.pc = "idle" /\ Setup_!Idle.sto = "none" /\ ~Setup_!Idle.fresh
    /\ Setup_!Idle.sto \notin Storages
<1>1. Setup_!Idle \in SetupTask
  BY DEF SetupTask, SetupSteps, Setup_!Idle, Setup_!Nil
<1>2. SetupTaskHolds(Setup_!Idle)
  BY DEF SetupTaskHolds, Unplaced, Setup_!Idle, Setup_!Nil
<1> QED BY <1>1, <1>2, RecordsAssumption DEF Setup_!Idle, Setup_!Nil

(* The row of bots that a request reads is one of the storage's, if any.    *)
LEMMA BotIs ==
  ASSUME NEW s
  PROVE  /\ Setup_!BotOf(s) \subseteq BotsOf(s)
         /\ Setup_!BotOf(s) = {} <=> BotsOf(s) = {}
         /\ Setup_!TokenOf(s) = {w.tok : w \in Setup_!BotOf(s)}
<1>1. {w \in s_workers : w.sto = s} # {}
      => (CHOOSE w \in {w \in s_workers : w.sto = s} : TRUE) \in {w \in s_workers : w.sto = s}
  OBVIOUS
<1> QED BY <1>1 DEF Setup_!BotOf, Setup_!TokenOf, BotsOf

LEMMA SetupTasksStep ==
  ASSUME SetupRows, SetupTasks, Setup_!Next
  PROVE  SetupTasks'
<1> USE DEF Setup_!Go, Setup_!At, Setup_!Finish, Setup_!Nil
<1>0. /\ s_task \in [Calls -> SetupTask]
      /\ \A t \in Calls : s_task[t] \in SetupTask /\ SetupTaskHolds(s_task[t])
  BY DEF SetupTasks
<1>a. ASSUME NEW t \in Calls, NEW c \in SetupTask, SetupTaskHolds(c),
             s_task' = [s_task EXCEPT ![t] = c]
      PROVE  SetupTasks'
  BY <1>0, <1>a DEF SetupTasks
<1>b. ASSUME UNCHANGED s_task PROVE SetupTasks'
  BY <1>0, <1>b DEF SetupTasks
<1>c. ASSUME NEW t \in Calls, s_task' = [s_task EXCEPT ![t] = Setup_!Idle] PROVE SetupTasks'
  BY <1>a, <1>c, SetupShapes
<1>d. ASSUME NEW t \in Calls, NEW p \in SetupSteps \ Unplaced, s_task[t].pc \notin Unplaced,
             s_task' = [s_task EXCEPT ![t] = [s_task[t] EXCEPT !.pc = p]],
             p \in {"conflict", "bot", "getMe", "drop", "read", "write"} => s_task[t].tok \in Bots,
             p = "conflict" => s_task[t].user \in Owners,
             p \notin {"link", "drop", "discover", "add"}
      PROVE  SetupTasks'
  <2> DEFINE c == [s_task[t] EXCEPT !.pc = p]
  <2>1. s_task[t] \in SetupTask /\ SetupTaskHolds(s_task[t])
    BY <1>0
  <2>2. /\ c \in SetupTask /\ c.pc = p /\ c.sto = s_task[t].sto /\ c.tok = s_task[t].tok
        /\ c.fresh = s_task[t].fresh /\ c.op = s_task[t].op /\ c.user = s_task[t].user
    BY <2>1 DEF SetupTask
  <2> HIDE DEF c
  <2>3. SetupTaskHolds(c)
    BY <1>d, <2>1, <2>2 DEF SetupTaskHolds, Unplaced
  <2> QED BY <1>a, <1>d, <2>2, <2>3 DEF c
<1>e. ASSUME NEW t \in Calls, NEW x, s_task[t].pc # "idle",
             s_task' = [s_task EXCEPT ![t] = [s_task[t] EXCEPT !.saw = @ \ {x}]]
      PROVE  SetupTasks'
  <2> DEFINE c == s_task[t]
             d == [c EXCEPT !.saw = c.saw \ {x}]
  <2>1. c \in SetupTask /\ SetupTaskHolds(c)
    BY <1>0
  <2> HIDE DEF c
  <2>2. /\ d \in SetupTask /\ d.pc = c.pc /\ d.sto = c.sto /\ d.tok = c.tok /\ d.user = c.user
        /\ d.fresh = c.fresh /\ d.op = c.op /\ d.drop = c.drop /\ d.saw = c.saw \ {x}
    BY <2>1 DEF SetupTask
  <2>3. s_task' = [s_task EXCEPT ![t] = d] /\ c.pc # "idle"
    BY <1>e DEF c
  <2> HIDE DEF d
  <2>4. SetupTaskHolds(d)
    BY <2>1, <2>2, <2>3 DEF SetupTaskHolds
  <2> QED BY <1>a, <2>2, <2>3, <2>4
<1> USE DEF Setup_!Fault
<1>1. CASE Setup_!AddWorker \/ Setup_!DeleteWorker \/ Setup_!DeleteStorage \/ Setup_!Quiet
  BY <1>b, <1>1 DEF Setup_!AddWorker, Setup_!DeleteWorker, Setup_!DeleteStorage, Setup_!Quiet,
     Setup_!vars
<1>2. CASE Setup_!Crash
  <2>1. PICK T \in SUBSET Calls :
            s_task' = [t \in Calls |-> IF t \in T THEN Setup_!Idle ELSE s_task[t]]
    BY <1>2 DEF Setup_!Crash
  <2> QED BY <1>0, <2>1, SetupShapes DEF SetupTasks
<1>3. ASSUME NEW t \in Calls, Setup_!Ask(t) PROVE SetupTasks'
  <2>1. CASE \E u \in Owners, k \in Bots, C \in SUBSET Groups \ {{}} :
                Setup_!Go(t, [Setup_!Idle EXCEPT !.pc = "look", !.op = "setup", !.user = u,
                                                 !.tok = k, !.chats = C])
    <3>1. PICK u \in Owners, k \in Bots, C \in SUBSET Groups \ {{}} :
              Setup_!Go(t, [Setup_!Idle EXCEPT !.pc = "look", !.op = "setup", !.user = u,
                                               !.tok = k, !.chats = C])
      BY <2>1
    <3> DEFINE c == [Setup_!Idle EXCEPT !.pc = "look", !.op = "setup", !.user = u, !.tok = k,
                                        !.chats = C]
    <3>2. c \in SetupTask /\ SetupTaskHolds(c)
      BY DEF SetupTask, SetupSteps, SetupTaskHolds, Unplaced, Setup_!Idle
    <3> QED BY <1>a, <3>1, <3>2
  <2>2. CASE \E s \in Storages, k \in Bots, drop \in BOOLEAN :
                Setup_!Go(t, [Setup_!Idle EXCEPT !.pc = "bot", !.op = "bot",
                                                 !.user = s_owner[s], !.tok = k, !.sto = s,
                                                 !.drop = drop])
    <3>1. PICK s \in Storages, k \in Bots, drop \in BOOLEAN :
              Setup_!Go(t, [Setup_!Idle EXCEPT !.pc = "bot", !.op = "bot",
                                               !.user = s_owner[s], !.tok = k, !.sto = s,
                                               !.drop = drop])
      BY <2>2
    <3> DEFINE c == [Setup_!Idle EXCEPT !.pc = "bot", !.op = "bot", !.user = s_owner[s],
                                        !.tok = k, !.sto = s, !.drop = drop]
    <3>2. c \in SetupTask /\ SetupTaskHolds(c)
      BY RecordsAssumption
         DEF SetupTask, SetupSteps, SetupTaskHolds, Unplaced, Setup_!Idle, SetupRows
    <3> QED BY <1>a, <3>1, <3>2
  <2>3. CASE \E s \in Storages :
                Setup_!Go(t, [Setup_!Idle EXCEPT !.pc = "discover", !.op = "refresh",
                                                 !.user = s_owner[s], !.sto = s])
    <3>1. PICK s \in Storages :
              Setup_!Go(t, [Setup_!Idle EXCEPT !.pc = "discover", !.op = "refresh",
                                               !.user = s_owner[s], !.sto = s])
      BY <2>3
    <3> DEFINE c == [Setup_!Idle EXCEPT !.pc = "discover", !.op = "refresh",
                                        !.user = s_owner[s], !.sto = s]
    <3>2. c \in SetupTask /\ SetupTaskHolds(c)
      BY RecordsAssumption
         DEF SetupTask, SetupSteps, SetupTaskHolds, Unplaced, Setup_!Idle, SetupRows
    <3> QED BY <1>a, <3>1, <3>2
  <2> HIDE DEF Setup_!Go
  <2> QED BY Zenon, <1>3, <2>1, <2>2, <2>3 DEF Setup_!Ask
<1>4. ASSUME NEW t \in Calls, NEW s \in Storages, s_task[t].pc \in {"look", "again"},
             s_task' = [s_task EXCEPT ![t] = [s_task[t] EXCEPT !.pc = "bot", !.sto = s]]
      PROVE  SetupTasks'
  <2> DEFINE c == [s_task[t] EXCEPT !.pc = "bot", !.sto = s]
  <2>1. s_task[t] \in SetupTask /\ SetupTaskHolds(s_task[t])
    BY <1>0
  <2>2. /\ c \in SetupTask /\ c.pc = "bot" /\ c.sto = s /\ c.tok = s_task[t].tok
        /\ c.fresh = s_task[t].fresh
    BY <2>1 DEF SetupTask, SetupSteps
  <2> HIDE DEF c
  <2>3. SetupTaskHolds(c)
    BY <1>4, <2>1, <2>2, RecordsAssumption DEF SetupTaskHolds, Unplaced
  <2> QED BY <1>a, <1>4, <2>2, <2>3 DEF c
<1>5. ASSUME NEW t \in Calls, Setup_!SetupLooks(t) PROVE SetupTasks'
  <2>1. CASE s_task' = [s_task EXCEPT ![t] = [s_task[t] EXCEPT !.pc = "create"]]
    <3> DEFINE c == [s_task[t] EXCEPT !.pc = "create"]
    <3>1. s_task[t] \in SetupTask /\ SetupTaskHolds(s_task[t]) /\ s_task[t].pc = "look"
      BY <1>0, <1>5 DEF Setup_!SetupLooks
    <3>2. /\ c \in SetupTask /\ c.pc = "create" /\ c.sto = s_task[t].sto
          /\ c.tok = s_task[t].tok /\ c.fresh = s_task[t].fresh /\ c.user = s_task[t].user
          /\ c.op = s_task[t].op
      BY <3>1 DEF SetupTask, SetupSteps
    <3> HIDE DEF c
    <3>3. SetupTaskHolds(c)
      BY <3>1, <3>2 DEF SetupTaskHolds, Unplaced
    <3> QED BY <1>a, <2>1, <3>2, <3>3 DEF c
  <2> QED BY <1>4, <1>5, <2>1 DEF Setup_!SetupLooks, Setup_!OwnedByChats
<1>6. ASSUME NEW t \in Calls, Setup_!SetupCreates(t) PROVE SetupTasks'
  <2>1. PICK s \in Storages : s_task' =
            [s_task EXCEPT ![t] = [s_task[t] EXCEPT !.pc = "link", !.sto = s, !.fresh = TRUE,
                                                    !.saw = s_task[t].chats]]
    BY <1>6 DEF Setup_!SetupCreates
  <2> DEFINE c == [s_task[t] EXCEPT !.pc = "link", !.sto = s, !.fresh = TRUE,
                                    !.saw = s_task[t].chats]
  <2>2. s_task[t] \in SetupTask /\ SetupTaskHolds(s_task[t]) /\ s_task[t].pc = "create"
    BY <1>0, <1>6 DEF Setup_!SetupCreates
  <2>3. /\ c \in SetupTask /\ c.pc = "link" /\ c.sto = s /\ c.tok = s_task[t].tok /\ c.fresh
        /\ c.user = s_task[t].user /\ c.op = s_task[t].op /\ c.saw \subseteq Groups
    BY <2>2 DEF SetupTask, SetupSteps
  <2> HIDE DEF c
  <2>4. SetupTaskHolds(c)
    BY <2>2, <2>3, RecordsAssumption DEF SetupTaskHolds, Unplaced
  <2> QED BY <1>a, <2>1, <2>3, <2>4 DEF c
<1>7. ASSUME NEW t \in Calls, Setup_!SetupLinks(t) PROVE SetupTasks'
  <2>1. s_task[t] \in SetupTask /\ SetupTaskHolds(s_task[t]) /\ s_task[t].pc = "link"
    BY <1>0, <1>7 DEF Setup_!SetupLinks
  <2>5. s_task[t].tok \in Bots /\ s_task[t].user \in Owners
    BY <2>1 DEF SetupTaskHolds
  <2>2. ASSUME NEW p \in {"bot", "conflict", "failed"},
               s_task' = [s_task EXCEPT ![t] = [s_task[t] EXCEPT !.pc = p]]
        PROVE  SetupTasks'
    BY <1>d, <2>1, <2>2, <2>5 DEF SetupSteps, Unplaced
  <2>3. CASE \E c : s_task' = [s_task EXCEPT ![t] = [s_task[t] EXCEPT !.saw = @ \ {c}]]
    BY <1>e, <2>1, <2>3
  <2> QED BY <1>7, <2>2, <2>3 DEF Setup_!SetupLinks
<1>16. ASSUME NEW t \in Calls, Setup_!SetupConflict(t) PROVE SetupTasks'
  <2> DEFINE c == [s_task[t] EXCEPT !.pc = "again", !.sto = "none", !.fresh = FALSE]
  <2>1. s_task[t] \in SetupTask /\ SetupTaskHolds(s_task[t]) /\ s_task[t].pc = "conflict"
    BY <1>0, <1>16 DEF Setup_!SetupConflict
  <2>2. /\ c \in SetupTask /\ c.pc = "again" /\ c.sto = "none" /\ c.tok = s_task[t].tok
        /\ ~c.fresh /\ c.user = s_task[t].user
    BY <2>1 DEF SetupTask, SetupSteps
  <2>3. s_task' = [s_task EXCEPT ![t] = c]
    BY <1>16 DEF Setup_!SetupConflict
  <2> HIDE DEF c
  <2>4. SetupTaskHolds(c)
    BY <2>1, <2>2 DEF SetupTaskHolds, Unplaced
  <2> QED BY <1>a, <2>2, <2>3, <2>4
<1>8. ASSUME NEW t \in Calls, Setup_!SetupAgain(t) PROVE SetupTasks'
  BY <1>4, <1>8, <1>c DEF Setup_!SetupAgain, Setup_!OwnedByChats
<1>9. ASSUME NEW t \in Calls,
             Setup_!BotChecked(t) \/ Setup_!BotFails(t) \/ Setup_!BotWrites(t)
      PROVE  SetupTasks'
  <2>1. /\ s_task[t].pc \in {"link", "bot", "getMe", "read", "write"}
        /\ \E p \in {"failed", "getMe", "done"} :
              s_task' = [s_task EXCEPT ![t] = [s_task[t] EXCEPT !.pc = p]]
    BY <1>0, <1>9 DEF Setup_!BotChecked, Setup_!BotFails, Setup_!BotWrites
  <2> QED BY <1>0, <1>d, <2>1 DEF SetupSteps, Unplaced, SetupTaskHolds
<1>10. ASSUME NEW t \in Calls, Setup_!BotConfirmed(t) PROVE SetupTasks'
  <2>1. s_task[t] \in SetupTask /\ SetupTaskHolds(s_task[t]) /\ s_task[t].pc = "getMe"
    BY <1>0, <1>10 DEF Setup_!BotConfirmed
  <2>2. ASSUME NEW p \in {"failed", "read"},
               s_task' = [s_task EXCEPT ![t] = [s_task[t] EXCEPT !.pc = p]]
        PROVE  SetupTasks'
    BY <1>d, <2>1, <2>2 DEF SetupSteps, Unplaced, SetupTaskHolds
  <2>3. CASE /\ s_task[t].drop
             /\ s_task' = [s_task EXCEPT ![t] =
                              [s_task[t] EXCEPT !.pc = "drop",
                                                !.saw = Setup_!ChannelsOf(s_task[t].sto)]]
    <3> DEFINE c == [s_task[t] EXCEPT !.pc = "drop",
                                      !.saw = Setup_!ChannelsOf(s_task[t].sto)]
    <3>1. /\ c \in SetupTask /\ c.pc = "drop" /\ c.sto = s_task[t].sto
          /\ c.tok = s_task[t].tok /\ c.fresh = s_task[t].fresh /\ c.op = s_task[t].op
          /\ c.drop = s_task[t].drop /\ c.saw \subseteq Groups
      BY <2>1 DEF SetupTask, SetupSteps, Setup_!ChannelsOf
    <3> HIDE DEF c
    <3>2. SetupTaskHolds(c)
      BY <2>1, <2>3, <3>1 DEF SetupTaskHolds, Unplaced
    <3> QED BY <1>a, <2>3, <3>1, <3>2 DEF c
  <2> QED BY <1>10, <2>2, <2>3 DEF Setup_!BotConfirmed
<1>11. ASSUME NEW t \in Calls, Setup_!BotDropsChannel(t) PROVE SetupTasks'
  <2>1. s_task[t] \in SetupTask /\ SetupTaskHolds(s_task[t]) /\ s_task[t].pc = "drop"
    BY <1>0, <1>11 DEF Setup_!BotDropsChannel
  <2>5. s_task[t].tok \in Bots
    BY <2>1 DEF SetupTaskHolds
  <2>2. ASSUME NEW p \in {"read"}, s_task' = [s_task EXCEPT ![t] = [s_task[t] EXCEPT !.pc = p]]
        PROVE  SetupTasks'
    BY <1>d, <2>1, <2>2, <2>5 DEF SetupSteps, Unplaced
  <2>3. CASE \E c : s_task' = [s_task EXCEPT ![t] = [s_task[t] EXCEPT !.saw = @ \ {c}]]
    BY <1>e, <2>1, <2>3
  <2> QED BY <1>11, <2>2, <2>3 DEF Setup_!BotDropsChannel
<1>12. ASSUME NEW t \in Calls, Setup_!BotReads(t) PROVE SetupTasks'
  <2>1. s_task[t] \in SetupTask /\ SetupTaskHolds(s_task[t]) /\ s_task[t].pc = "read"
    BY <1>0, <1>12 DEF Setup_!BotReads
  <2>2. ASSUME NEW p \in {"failed"}, s_task' = [s_task EXCEPT ![t] = [s_task[t] EXCEPT !.pc = p]]
        PROVE  SetupTasks'
    BY <1>d, <2>1, <2>2 DEF SetupSteps, Unplaced
  <2>3. CASE \E rows \in SUBSET BotRow : s_task' =
                 [s_task EXCEPT ![t] = [s_task[t] EXCEPT !.pc = "write", !.saw = rows]]
    <3>1. PICK rows \in SUBSET BotRow : s_task' =
              [s_task EXCEPT ![t] = [s_task[t] EXCEPT !.pc = "write", !.saw = rows]]
      BY <2>3
    <3> DEFINE c == [s_task[t] EXCEPT !.pc = "write", !.saw = rows]
    <3>2. /\ c \in SetupTask /\ c.pc = "write" /\ c.sto = s_task[t].sto
          /\ c.tok = s_task[t].tok /\ c.fresh = s_task[t].fresh /\ c.op = s_task[t].op
      BY <2>1 DEF SetupTask, SetupSteps
    <3> HIDE DEF c
    <3>3. SetupTaskHolds(c)
      BY <2>1, <3>2 DEF SetupTaskHolds, Unplaced
    <3> QED BY <1>a, <3>1, <3>2, <3>3 DEF c
  <2>4. Setup_!BotOf(s_task[t].sto) \in SUBSET BotRow
    BY BotIs DEF BotsOf, SetupRows
  <2>5. {w \in s_workers : w.tok = s_task[t].tok} \in SUBSET BotRow
    BY DEF SetupRows
  <2> QED BY <1>12, <2>2, <2>3, <2>4, <2>5 DEF Setup_!BotReads
<1>13. ASSUME NEW t \in Calls, Setup_!Done(t) \/ Setup_!Failed(t) PROVE SetupTasks'
  BY <1>13, <1>c DEF Setup_!Done, Setup_!Failed
<1>14. ASSUME NEW t \in Calls, Setup_!Discover(t) PROVE SetupTasks'
  <2>1. s_task[t] \in SetupTask /\ SetupTaskHolds(s_task[t]) /\ s_task[t].pc = "discover"
    BY <1>0, <1>14 DEF Setup_!Discover
  <2>2. CASE \E k \in Bots, C \in SUBSET Groups : s_task' =
               [s_task EXCEPT ![t] = [s_task[t] EXCEPT !.pc = "add", !.tok = k, !.saw = C]]
    <3>1. PICK k \in Bots, C \in SUBSET Groups : s_task' =
              [s_task EXCEPT ![t] = [s_task[t] EXCEPT !.pc = "add", !.tok = k, !.saw = C]]
      BY <2>2
    <3> DEFINE c == [s_task[t] EXCEPT !.pc = "add", !.tok = k, !.saw = C]
    <3>2. /\ c \in SetupTask /\ c.pc = "add" /\ c.sto = s_task[t].sto /\ c.tok = k
          /\ c.fresh = s_task[t].fresh /\ c.op = s_task[t].op /\ c.saw = C
      BY <2>1 DEF SetupTask, SetupSteps
    <3> HIDE DEF c
    <3>3. SetupTaskHolds(c)
      BY <2>1, <3>2 DEF SetupTaskHolds, Unplaced
    <3> QED BY <1>a, <3>1, <3>2, <3>3 DEF c
  <2>3. CASE s_task' = [s_task EXCEPT ![t] = Setup_!Idle]
    BY <1>c, <2>3
  <2>4. ASSUME NEW k \in Setup_!TokenOf(s_task[t].sto),
               NEW C \in SUBSET ([b \in Bots |-> Groups][k]
                                   \ Setup_!ChannelsOf(s_task[t].sto))
        PROVE  k \in Bots /\ C \in SUBSET Groups
    BY BotIs DEF BotsOf, SetupRows, BotRow
  <2> QED BY <1>14, <2>2, <2>3, <2>4 DEF Setup_!Discover
<1>15. ASSUME NEW t \in Calls, Setup_!AddChannel(t) PROVE SetupTasks'
  <2>1. s_task[t] \in SetupTask /\ SetupTaskHolds(s_task[t]) /\ s_task[t].pc = "add"
    BY <1>0, <1>15 DEF Setup_!AddChannel
  <2>2. CASE s_task' = [s_task EXCEPT ![t] = Setup_!Idle]
    BY <1>c, <2>2
  <2>3. CASE \E c : s_task' = [s_task EXCEPT ![t] = [s_task[t] EXCEPT !.saw = @ \ {c}]]
    BY <1>e, <2>1, <2>3
  <2> QED BY <1>15, <2>2, <2>3 DEF Setup_!AddChannel
<1> QED BY <1>1, <1>2, <1>3, <1>5, <1>6, <1>7, <1>8, <1>9, <1>10, <1>11, <1>12, <1>13, <1>14,
           <1>15, <1>16 DEF Setup_!Next

-----------------------------------------------------------------------------
(* The rows.                                                                *)

LEMMA SetupCount == \A S : Setup_!Cardinality(S) = Cardinality(S)
BY Zenon DEF Setup_!Cardinality, Cardinality

LEMMA FewerChannels ==
  ASSUME ChannelsFit, \A c \in Groups, s \in Storages : s_chan'[c] = s => s_chan[c] = s
  PROVE  ChannelsFit'
<1>1. ASSUME NEW s \in Storages
      PROVE  /\ IsFiniteSet(Setup_!ChannelsOf(s)')
             /\ Cardinality(Setup_!ChannelsOf(s)') =< MAX_CHANNELS
  <2>1. Setup_!ChannelsOf(s)' \in SUBSET Setup_!ChannelsOf(s)
    BY DEF Setup_!ChannelsOf
  <2>2. /\ IsFiniteSet(Setup_!ChannelsOf(s))
        /\ Cardinality(Setup_!ChannelsOf(s)) =< MAX_CHANNELS
    BY DEF ChannelsFit
  <2> DEFINE S == Setup_!ChannelsOf(s)
             T == Setup_!ChannelsOf(s)'
  <2> HIDE DEF S, T
  <2>3. IsFiniteSet(T) /\ Cardinality(T) <= Cardinality(S)
    BY <2>1, <2>2, FS_Subset DEF S, T
  <2>4. Cardinality(S) \in Nat /\ Cardinality(T) \in Nat
    BY <2>2, <2>3, FS_CardinalityType DEF S, T
  <2>5. Cardinality(T) =< MAX_CHANNELS
    BY <2>2, <2>3, <2>4, RecordsAssumption DEF S
  <2> QED BY <2>3, <2>5 DEF T
<1> QED BY <1>1 DEF ChannelsFit

LEMMA OneMoreChannel ==
  ASSUME SetupRows, ChannelsFit, NEW c \in Groups, NEW s \in Storages, s_chan[c] = "none",
         s_chan' = [s_chan EXCEPT ![c] = s],
         Setup_!Cardinality(Setup_!ChannelsOf(s)) < MAX_CHANNELS
  PROVE  ChannelsFit'
<1>1. s \in Storages /\ s # "none" /\ s_chan'[c] = s
      /\ \A d \in Groups \ {c} : s_chan'[d] = s_chan[d]
  BY RecordsAssumption DEF SetupRows
<1>2. ASSUME NEW r \in Storages
      PROVE  /\ IsFiniteSet(Setup_!ChannelsOf(r)')
             /\ Cardinality(Setup_!ChannelsOf(r)') =< MAX_CHANNELS
  <2>1. /\ IsFiniteSet(Setup_!ChannelsOf(r))
        /\ Cardinality(Setup_!ChannelsOf(r)) =< MAX_CHANNELS
    BY DEF ChannelsFit
  <2>2. CASE r # s
    <3>1. Setup_!ChannelsOf(r)' = Setup_!ChannelsOf(r)
      BY <1>1, <2>2, RecordsAssumption DEF Setup_!ChannelsOf
    <3> QED BY <2>1, <3>1
  <2>3. CASE r = s
    <3> DEFINE S == Setup_!ChannelsOf(s)
    <3>1. Setup_!ChannelsOf(r)' = S \cup {c} /\ c \notin S
      BY <1>1, <2>3 DEF Setup_!ChannelsOf
    <3>2. IsFiniteSet(S) /\ Cardinality(S) < MAX_CHANNELS
      BY <2>1, <2>3, SetupCount
    <3> HIDE DEF S
    <3>3. IsFiniteSet(S \cup {c}) /\ Cardinality(S \cup {c}) = Cardinality(S) + 1
      BY <3>1, <3>2, FS_AddElement
    <3>4. Cardinality(S) \in Nat
      BY <3>2, FS_CardinalityType
    <3>5. Cardinality(S \cup {c}) =< MAX_CHANNELS
      BY <3>2, <3>3, <3>4, RecordsAssumption
    <3> QED BY <3>1, <3>3, <3>5
  <2> QED BY <2>2, <2>3
<1> QED BY <1>2 DEF ChannelsFit

SetupRowsHold == SetupRows /\ SchemaHolds /\ ChannelsFit

(* With a storage go its channels and its bots.                             *)
LEMMA StorageDropped ==
  ASSUME SetupRowsHold, NEW s \in Storages, Setup_!DropStorage(s), s_under' = s_under,
         s_made' = s_made
  PROVE  SetupRowsHold'
<1> USE DEF SetupRowsHold, Setup_!DropStorage, Setup_!Nil
<1>1. SetupRows'
  BY DEF SetupRows
<1>2. \A c \in Groups : s_chan'[c] # "none" => s_chan'[c] = s_chan[c] /\ s_chan[c] # s
  BY DEF SetupRows
<1>3. \A r \in Storages \ {s} : s_owner'[r] = s_owner[r]
  BY DEF SetupRows
<1>4. SchemaHolds'
  <2>1. \A c \in Groups : s_chan'[c] # "none" => s_owner'[s_chan'[c]] # "none"
    BY <1>2, <1>3 DEF SchemaHolds, SetupRows
  <2>2. \A w \in s_workers' : s_owner'[w.sto] # "none"
    BY <1>3 DEF SchemaHolds, SetupRows, BotRow
  <2>3. \A v, w \in s_workers' : v.tok = w.tok => v = w
    BY DEF SchemaHolds
  <2> QED BY <2>1, <2>2, <2>3 DEF SchemaHolds
<1>5. \A c \in Groups, r \in Storages : s_chan'[c] = r => s_chan[c] = r
  BY <1>2, RecordsAssumption
<1> QED BY <1>1, <1>4, <1>5, FewerChannels

(* An undo leaves all, or drops the storage.                                *)
LEMMA UndoIs ==
  ASSUME NEW s, Setup_!Undo(s)
  PROVE  /\ UNCHANGED Setup_!rows \/ (Setup_!DropStorage(s) /\ s_under' = s_under)
         /\ \/ Setup_!DropStorage(s) /\ s_left' = s_left
            \/ UNCHANGED Setup_!rows /\ s_left' = s_left \cup {s}
BY Zenon DEF Setup_!Undo

LEMMA SetupRowsStep ==
  ASSUME SetupRowsHold, SetupTasks, Setup_!Next
  PROVE  SetupRowsHold'
<1> USE DEF Setup_!Nil
<1>0. /\ s_task \in [Calls -> SetupTask]
      /\ \A t \in Calls : s_task[t] \in SetupTask /\ SetupTaskHolds(s_task[t])
      /\ \A t \in Calls : s_task[t].pc \notin Unplaced => s_task[t].sto \in Storages
  BY DEF SetupTasks, SetupTaskHolds, SetupTask
<1>1. ASSUME UNCHANGED Setup_!rows, UNCHANGED s_made PROVE SetupRowsHold'
  BY <1>1 DEF Setup_!rows, SetupRowsHold, SetupRows, SchemaHolds, ChannelsFit, Setup_!ChannelsOf
<1>2. CASE Setup_!AddWorker \/ Setup_!DeleteWorker
  <2>1. UNCHANGED <<s_owner, s_chan, s_under, s_made>>
    BY <1>2 DEF Setup_!AddWorker, Setup_!DeleteWorker, Setup_!hist
  <2>2. ChannelsFit'
    BY <2>1 DEF SetupRowsHold, ChannelsFit, Setup_!ChannelsOf
  <2>3. CASE Setup_!AddWorker
    <3>1. PICK s \in Storages, k \in Bots :
              /\ s_owner[s] # "none" /\ \A w \in s_workers : w.tok # k
              /\ s_workers' = s_workers \cup {[tok |-> k, sto |-> s, user |-> s_owner[s]]}
      BY <2>3 DEF Setup_!AddWorker
    <3> DEFINE new == [tok |-> k, sto |-> s, user |-> s_owner[s]]
    <3>2. new \in BotRow /\ new.tok = k /\ new.sto = s
      BY DEF SetupRowsHold, SetupRows, BotRow
    <3> HIDE DEF new
    <3>3. s_workers' = s_workers \cup {new}
      BY <3>1 DEF new
    <3> QED BY <2>1, <2>2, <3>1, <3>2, <3>3 DEF SetupRowsHold, SetupRows, SchemaHolds
  <2>4. CASE Setup_!DeleteWorker
    <3>1. s_workers' \subseteq s_workers
      BY <2>4 DEF Setup_!DeleteWorker
    <3> QED BY <2>1, <2>2, <3>1 DEF SetupRowsHold, SetupRows, SchemaHolds
  <2> QED BY <1>2, <2>3, <2>4
<1>3. CASE Setup_!DeleteStorage
  BY <1>3, StorageDropped DEF Setup_!DeleteStorage, Setup_!hist
<1>4. CASE Setup_!Crash \/ Setup_!Quiet
  BY <1>1, <1>4 DEF Setup_!Crash, Setup_!Quiet, Setup_!vars, Setup_!hist
<1>5. ASSUME NEW t \in Calls,
             \/ Setup_!Ask(t) \/ Setup_!SetupLooks(t) \/ Setup_!SetupAgain(t)
             \/ Setup_!BotChecked(t) \/ Setup_!BotConfirmed(t) \/ Setup_!BotFails(t)
             \/ Setup_!BotReads(t) \/ Setup_!Done(t) \/ Setup_!Discover(t)
      PROVE  SetupRowsHold'
  <2>1. UNCHANGED Setup_!rows /\ UNCHANGED s_made
    BY <1>5 DEF Setup_!Ask, Setup_!SetupLooks, Setup_!SetupAgain, Setup_!BotChecked,
       Setup_!BotConfirmed, Setup_!BotFails, Setup_!BotReads, Setup_!Done, Setup_!Discover,
       Setup_!hist
  <2> QED BY <1>1, <2>1
<1>6. ASSUME NEW t \in Calls, Setup_!SetupCreates(t) PROVE SetupRowsHold'
  <2>1. PICK s \in Storages \ s_made : /\ s_owner' = [s_owner EXCEPT ![s] = s_task[t].user]
                                       /\ s_made' = s_made \cup {s}
    BY <1>6 DEF Setup_!SetupCreates
  <2>2. UNCHANGED <<s_chan, s_under, s_workers>> /\ s_task[t].user \in Owners
    BY <1>0, <1>6 DEF Setup_!SetupCreates, SetupTaskHolds
  <2>3. /\ s_owner' \in [Storages -> Owners \cup {"none"}]
        /\ \A r \in Storages : s_owner[r] # "none" => s_owner'[r] # "none"
        /\ \A r \in Storages \ {s} : s_owner'[r] = s_owner[r]
    BY <2>1, <2>2, RecordsAssumption DEF SetupRowsHold, SetupRows
  <2>4. SetupRows'
    BY <2>1, <2>2, <2>3 DEF SetupRowsHold, SetupRows
  <2>5. SchemaHolds'
    BY <2>2, <2>3 DEF SetupRowsHold, SetupRows, SchemaHolds, BotRow
  <2>6. ChannelsFit'
    BY <2>2 DEF SetupRowsHold, ChannelsFit, Setup_!ChannelsOf
  <2> QED BY <2>4, <2>5, <2>6 DEF SetupRowsHold
<1>7. ASSUME NEW c \in Groups, NEW s \in Storages, s_chan[c] = "none", s_owner[s] # "none",
             s_chan' = [s_chan EXCEPT ![c] = s], NEW k \in Bots \cup {"none"},
             s_under' = [s_under EXCEPT ![c] = k], UNCHANGED <<s_owner, s_workers, s_made>>,
             Setup_!Cardinality(Setup_!ChannelsOf(s)) < MAX_CHANNELS
      PROVE  SetupRowsHold'
  <2>1. ChannelsFit'
    BY <1>7, OneMoreChannel DEF SetupRowsHold
  <2>2. SetupRows'
    BY <1>7 DEF SetupRowsHold, SetupRows
  <2>3. SchemaHolds'
    BY <1>7 DEF SetupRowsHold, SetupRows, SchemaHolds
  <2> QED BY <2>1, <2>2, <2>3 DEF SetupRowsHold
<1>8. ASSUME NEW t \in Calls, Setup_!SetupLinks(t) PROVE SetupRowsHold'
  <2>1. /\ s_task[t].sto \in Storages /\ s_task[t].saw \subseteq Groups /\ s_made' = s_made
    BY <1>0, <1>8 DEF Setup_!SetupLinks, Setup_!hist, SetupTaskHolds, Unplaced
  <2>2. CASE UNCHANGED Setup_!rows
    BY <1>1, <2>1, <2>2
  <2>4. ASSUME NEW c \in s_task[t].saw, s_chan[c] = "none", s_owner[s_task[t].sto] # "none",
               Setup_!Cardinality(Setup_!ChannelsOf(s_task[t].sto)) < MAX_CHANNELS,
               s_chan' = [s_chan EXCEPT ![c] = s_task[t].sto],
               s_under' = [s_under EXCEPT ![c] = "none"], UNCHANGED <<s_owner, s_workers>>
        PROVE  SetupRowsHold'
    BY <1>7, <2>1, <2>4
  <2> QED BY <1>8, <2>2, <2>4 DEF Setup_!SetupLinks
<1>9. ASSUME NEW t \in Calls, Setup_!BotDropsChannel(t) PROVE SetupRowsHold'
  <2>1. /\ \/ s_chan' = s_chan
           \/ \E c : s_chan' = [s_chan EXCEPT ![c] = IF @ = s_task[t].sto THEN "none" ELSE @]
        /\ UNCHANGED <<s_owner, s_under, s_workers, s_made>>
    BY <1>9 DEF Setup_!BotDropsChannel, Setup_!hist
  <2>2. /\ s_chan' \in [Groups -> Storages \cup {"none"}]
        /\ \A c \in Groups : s_chan'[c] \in {"none", s_chan[c]}
    BY <2>1 DEF SetupRowsHold, SetupRows
  <2>3. SetupRows' /\ SchemaHolds'
    BY <2>1, <2>2 DEF SetupRowsHold, SetupRows, SchemaHolds
  <2>4. \A c \in Groups, s \in Storages : s_chan'[c] = s => s_chan[c] = s
    BY <2>2, RecordsAssumption
  <2> QED BY <2>3, <2>4, FewerChannels DEF SetupRowsHold
<1>10. ASSUME NEW t \in Calls, Setup_!BotWrites(t) PROVE SetupRowsHold'
  <2>1. UNCHANGED <<s_owner, s_chan, s_made>>
    BY <1>10 DEF Setup_!BotWrites, Setup_!hist
  <2>2. ChannelsFit'
    BY <2>1 DEF SetupRowsHold, ChannelsFit, Setup_!ChannelsOf
  <2>3. CASE UNCHANGED <<s_workers, s_under>>
    BY <1>1, <2>1, <2>3 DEF Setup_!rows
  <2>4. CASE ~UNCHANGED <<s_workers, s_under>>
    <3> DEFINE old == s_task[t].saw \cap s_workers
               by == IF old = {} THEN s_task[t].user ELSE (CHOOSE w \in old : TRUE).user
               new == [tok |-> s_task[t].tok, sto |-> s_task[t].sto, user |-> by]
    <3>1. /\ s_owner[s_task[t].sto] # "none"
          /\ \A w \in s_workers \ old : w.tok # s_task[t].tok
          /\ s_workers' = (s_workers \ old) \cup {new}
          /\ s_under' = [c \in Groups |-> IF s_chan[c] = new.sto /\ s_under[c] = "none"
                                         THEN new.tok ELSE s_under[c]]
      BY <1>10, <2>4 DEF Setup_!BotWrites
    <3>2. /\ s_task[t].tok \in Bots /\ s_task[t].sto \in Storages
          /\ s_task[t].user \in Owners \cup {"none"}
      BY <1>0, <1>10 DEF Setup_!BotWrites, SetupTaskHolds, SetupTask, Unplaced
    <3>3. by \in Owners \cup {"none"}
      BY <3>2 DEF SetupRowsHold, SetupRows, BotRow
    <3>4. new \in BotRow /\ new.tok = s_task[t].tok /\ new.sto = s_task[t].sto
      <4> HIDE DEF by
      <4> QED BY <3>2, <3>3 DEF BotRow
    <3> HIDE DEF new
    <3>5. SetupRows'
      BY <2>1, <3>1, <3>2, <3>4 DEF SetupRowsHold, SetupRows
    <3>6. SchemaHolds'
      BY <2>1, <3>1, <3>4 DEF SetupRowsHold, SchemaHolds
    <3> QED BY <2>2, <3>5, <3>6 DEF SetupRowsHold
  <2> QED BY <2>3, <2>4
<1>11. ASSUME NEW t \in Calls, Setup_!SetupConflict(t) \/ Setup_!Failed(t)
       PROVE  SetupRowsHold'
  <2>1. s_task[t].sto \in Storages /\ s_made' = s_made
    BY <1>0, <1>11 DEF Setup_!SetupConflict, Setup_!Failed, Unplaced
  <2>2. UNCHANGED Setup_!rows \/ Setup_!Undo(s_task[t].sto)
    BY Zenon, <1>11 DEF Setup_!SetupConflict, Setup_!Failed
  <2> QED BY <1>1, <2>1, <2>2, UndoIs, StorageDropped
<1>12. ASSUME NEW t \in Calls, Setup_!AddChannel(t) PROVE SetupRowsHold'
  <2>1. /\ s_task[t].sto \in Storages /\ s_task[t].saw \subseteq Groups
        /\ s_task[t].tok \in Bots /\ UNCHANGED <<s_owner, s_workers, s_made>>
    BY <1>0, <1>12 DEF Setup_!AddChannel, Setup_!hist, SetupTaskHolds, Unplaced
  <2>2. CASE UNCHANGED <<s_chan, s_under>>
    BY <1>1, <2>1, <2>2 DEF Setup_!rows
  <2>3. CASE ~UNCHANGED <<s_chan, s_under>>
    <3>1. /\ s_owner[s_task[t].sto] # "none"
          /\ ~(Setup_!Cardinality(Setup_!ChannelsOf(s_task[t].sto)) >= MAX_CHANNELS)
          /\ \E c \in s_task[t].saw :
                /\ s_chan[c] = "none"
                /\ s_chan' = [s_chan EXCEPT ![c] = s_task[t].sto]
                /\ s_under' = [s_under EXCEPT ![c] = s_task[t].tok]
      BY <1>12, <2>3 DEF Setup_!AddChannel
    <3>2. Cardinality(Setup_!ChannelsOf(s_task[t].sto)) \in Nat
      BY <2>1, FS_CardinalityType DEF SetupRowsHold, ChannelsFit
    <3>3. Setup_!Cardinality(Setup_!ChannelsOf(s_task[t].sto)) < MAX_CHANNELS
      BY <3>1, <3>2, SetupCount, RecordsAssumption
    <3> QED BY <1>7, <2>1, <3>1, <3>3
  <2> QED BY <2>2, <2>3
<1> QED BY <1>2, <1>3, <1>4, <1>5, <1>6, <1>8, <1>9, <1>10, <1>11, <1>12 DEF Setup_!Next

-----------------------------------------------------------------------------
(* One request after the other, and together.                               *)

SetupGoes(t) ==
    \/ Setup_!Ask(t) \/ Setup_!SetupLooks(t) \/ Setup_!SetupCreates(t) \/ Setup_!SetupLinks(t)
    \/ Setup_!SetupConflict(t) \/ Setup_!SetupAgain(t) \/ Setup_!BotChecked(t)
    \/ Setup_!BotConfirmed(t) \/ Setup_!BotFails(t) \/ Setup_!BotDropsChannel(t) \/ Setup_!BotReads(t)
    \/ Setup_!BotWrites(t) \/ Setup_!Done(t) \/ Setup_!Failed(t) \/ Setup_!Discover(t)
    \/ Setup_!AddChannel(t)

(* A step of one request leaves the others alone, and is remembered where   *)
(* it comes to a storage that another one is at.                            *)
Turn(t) ==
    /\ \A u \in Calls \ {t} : s_task'[u] = s_task[u]
    /\ s_mixed \subseteq s_mixed'
    /\ \A s \in Storages \ s_mixed', u \in Calls \ {t} :
          s_task'[t].sto = s => s_task[u].sto # s \/ s_task[t].sto = s

LEMMA SetupTurns ==
  ASSUME SetupTasks, NEW t \in Calls, SetupGoes(t)
  PROVE  Turn(t)
<1>0. s_task \in [Calls -> SetupTask] /\ s_task[t] \in SetupTask
  BY DEF SetupTasks
<1>1. ASSUME NEW c, Setup_!Go(t, c) PROVE Turn(t)
  <2>1. s_task'[t] = c /\ \A u \in Calls \ {t} : s_task'[u] = s_task[u]
    BY <1>0, <1>1 DEF Setup_!Go
  <2>2. /\ s_mixed \subseteq s_mixed'
        /\ \A s \in Storages \ {"none"} :
              c.sto = s /\ (\E u \in Calls \ {t} : s_task[u].sto = s) => s \in s_mixed'
    BY <1>1 DEF Setup_!Go, Setup_!Nil
  <2> QED BY <2>1, <2>2, RecordsAssumption DEF Turn
<1>2. ASSUME Setup_!Finish(t) PROVE Turn(t)
  BY <1>0, <1>2, SetupShapes DEF Setup_!Finish, Turn
<1>3. CASE Setup_!Ask(t)
  BY <1>1, <1>3 DEF Setup_!Ask
<1>4. CASE Setup_!SetupLooks(t)
  BY <1>1, <1>4 DEF Setup_!SetupLooks, Setup_!At
<1>5. CASE Setup_!SetupCreates(t)
  BY <1>1, <1>5 DEF Setup_!SetupCreates
<1>6. CASE Setup_!SetupLinks(t)
  BY <1>1, <1>6 DEF Setup_!SetupLinks, Setup_!At
<1>16. CASE Setup_!SetupConflict(t)
  BY <1>1, <1>16 DEF Setup_!SetupConflict
<1>7. CASE Setup_!SetupAgain(t)
  BY <1>1, <1>2, <1>7 DEF Setup_!SetupAgain
<1>8. CASE Setup_!BotChecked(t) \/ Setup_!BotFails(t)
  BY <1>1, <1>8 DEF Setup_!BotChecked, Setup_!BotFails, Setup_!At
<1>9. CASE Setup_!BotConfirmed(t)
  BY <1>1, <1>9 DEF Setup_!BotConfirmed, Setup_!At
<1>10. CASE Setup_!BotDropsChannel(t)
  BY <1>1, <1>10 DEF Setup_!BotDropsChannel, Setup_!At
<1>11. CASE Setup_!BotReads(t)
  BY <1>1, <1>11 DEF Setup_!BotReads, Setup_!At
<1>12. CASE Setup_!BotWrites(t)
  <2>1. CASE Setup_!At(t, "failed")
    BY <1>1, <2>1 DEF Setup_!At
  <2>2. CASE /\ s_task' = [s_task EXCEPT ![t].pc = "done"]
             /\ s_mixed \subseteq s_mixed'
    <3>1. s_task'[t].sto = s_task[t].sto /\ \A u \in Calls \ {t} : s_task'[u] = s_task[u]
      BY <1>0, <2>2 DEF SetupTask
    <3> QED BY <2>2, <3>1 DEF Turn
  <2> QED BY <1>12, <2>1, <2>2 DEF Setup_!BotWrites
<1>13. CASE Setup_!Done(t) \/ Setup_!Failed(t)
  BY <1>2, <1>13 DEF Setup_!Done, Setup_!Failed
<1>14. CASE Setup_!Discover(t)
  BY <1>1, <1>2, <1>14 DEF Setup_!Discover
<1>15. CASE Setup_!AddChannel(t)
  BY <1>1, <1>2, <1>15 DEF Setup_!AddChannel
<1> QED BY <1>3, <1>4, <1>5, <1>6, <1>7, <1>8, <1>9, <1>10, <1>11, <1>12, <1>13, <1>14, <1>15,
           <1>16
        DEF SetupGoes

LEMMA SetupIs ==
  ASSUME Setup_!Next
  PROVE  \/ Setup_!AddWorker \/ Setup_!DeleteWorker \/ Setup_!DeleteStorage \/ Setup_!Crash
         \/ Setup_!Quiet \/ \E t \in Calls : SetupGoes(t)
BY Zenon DEF Setup_!Next, SetupGoes

LEMMA WorksAloneStep ==
  ASSUME SetupTasks, WorksAlone, Setup_!Next
  PROVE  WorksAlone'
<1>1. ASSUME NEW t \in Calls, SetupGoes(t) PROVE WorksAlone'
  BY <1>1, SetupTurns DEF Turn, WorksAlone
<1>2. CASE \/ Setup_!AddWorker \/ Setup_!DeleteWorker \/ Setup_!DeleteStorage \/ Setup_!Quiet
  <2>1. s_task' = s_task /\ s_mixed \subseteq s_mixed'
    BY <1>2 DEF Setup_!AddWorker, Setup_!DeleteWorker, Setup_!DeleteStorage, Setup_!Quiet,
       Setup_!vars
  <2> QED BY <2>1 DEF WorksAlone
<1>3. CASE Setup_!Crash
  <2>1. s_mixed' = s_mixed /\ \A t \in Calls : s_task'[t] \in {Setup_!Idle, s_task[t]}
    BY <1>3 DEF Setup_!Crash
  <2> QED BY <2>1, SetupShapes DEF WorksAlone
<1> QED BY <1>1, <1>2, <1>3, SetupIs

(* The storage that a Finish made stays its own until it is reported.       *)
LEMMA FinishHoldsStep ==
  ASSUME SetupRows, SetupTasks, FinishHolds, Setup_!Next
  PROVE  FinishHolds'
<1> USE DEF Setup_!Nil
<1>0. /\ s_task \in [Calls -> SetupTask]
      /\ \A t \in Calls : s_task[t] \in SetupTask /\ SetupTaskHolds(s_task[t])
      /\ \A t \in Calls : s_task[t].fresh => s_task[t].pc \notin Unplaced \cup {"discover", "add"}
  BY DEF SetupTasks, SetupTaskHolds
<1>1. ASSUME NEW t \in Calls, SetupGoes(t), s_crashed' = s_crashed, s_said \subseteq s_said',
             s_left \subseteq s_left',
             \A s \in Storages : s_owner'[s] # "none" => s_owner[s] # "none",
             \A s \in Storages :
                 s_task[t].fresh /\ s_task[t].sto = s /\ s_owner'[s] # "none" =>
                     s \in s_said' \cup s_left' \/ (s_task'[t].fresh /\ s_task'[t].sto = s)
      PROVE  FinishHolds'
  <2>1. \A u \in Calls \ {t} : s_task'[u] = s_task[u]
    BY <1>1, SetupTurns DEF Turn
  <2> QED BY <1>1, <2>1 DEF FinishHolds, StillMaking
<1>2. ASSUME NEW t \in Calls, SetupGoes(t), UNCHANGED <<s_crashed, s_said, s_left, s_owner>>,
             s_task[t].fresh => s_task'[t].fresh /\ s_task'[t].sto = s_task[t].sto
      PROVE  FinishHolds'
  BY <1>1, <1>2
<1>3. CASE \/ Setup_!AddWorker \/ Setup_!DeleteWorker \/ Setup_!DeleteStorage \/ Setup_!Quiet
  <2>1. /\ UNCHANGED <<s_task, s_crashed, s_said, s_left>>
        /\ \A s \in Storages : s_owner'[s] # "none" => s_owner[s] # "none"
    BY <1>3 DEF Setup_!AddWorker, Setup_!DeleteWorker, Setup_!DeleteStorage, Setup_!Quiet,
       Setup_!vars, Setup_!hist, Setup_!rows, Setup_!DropStorage, SetupRows
  <2> QED BY <2>1 DEF FinishHolds, StillMaking
<1>4. CASE Setup_!Crash
  BY <1>4 DEF Setup_!Crash, FinishHolds
<1>5. ASSUME NEW t \in Calls,
             \/ Setup_!Ask(t) \/ Setup_!SetupLooks(t) \/ Setup_!SetupAgain(t)
             \/ Setup_!Discover(t) \/ Setup_!AddChannel(t)
      PROVE  FinishHolds'
  <2>1. /\ s_task[t].pc \in Unplaced \cup {"discover", "add"}
        /\ UNCHANGED <<s_crashed, s_said, s_left, s_owner>>
    BY <1>5, SetupShapes DEF Setup_!Ask, Setup_!SetupLooks, Setup_!SetupAgain, Setup_!Discover,
       Setup_!AddChannel, Setup_!hist, Setup_!rows, Unplaced
  <2>2. SetupGoes(t)
    BY Zenon, <1>5 DEF SetupGoes
  <2> QED BY <1>0, <1>2, <2>1, <2>2
<1>6. ASSUME NEW t \in Calls, Setup_!SetupCreates(t) PROVE FinishHolds'
  <2>1. PICK s \in Storages \ s_made :
            /\ s_owner' = [s_owner EXCEPT ![s] = s_task[t].user]
            /\ Setup_!Go(t, [s_task[t] EXCEPT !.pc = "link", !.sto = s, !.fresh = TRUE,
                                              !.saw = s_task[t].chats])
    BY <1>6 DEF Setup_!SetupCreates
  <2>2. s_task'[t].fresh /\ s_task'[t].sto = s
    BY <1>0, <2>1 DEF Setup_!Go, SetupTask
  <2>3. \A u \in Calls \ {t} : s_task'[u] = s_task[u]
    BY <1>0, <2>1 DEF Setup_!Go
  <2>4. ~s_task[t].fresh /\ UNCHANGED <<s_crashed, s_said, s_left>>
    BY <1>0, <1>6 DEF Setup_!SetupCreates, Unplaced
  <2>5. \A r \in Storages \ {s} : s_owner'[r] = s_owner[r]
    BY <2>1 DEF SetupRows
  <2> QED BY <2>2, <2>3, <2>4, <2>5 DEF FinishHolds, StillMaking
<1>7. ASSUME NEW t \in Calls, NEW s \in Storages, SetupGoes(t), Setup_!Undo(s),
             s_task[t].sto = s, UNCHANGED <<s_crashed, s_said>>
      PROVE  FinishHolds'
  <2>1. CASE Setup_!DropStorage(s) /\ s_left' = s_left
    <3>1. /\ s_owner'[s] = "none"
          /\ \A r \in Storages : s_owner'[r] # "none" => s_owner[r] # "none"
      BY <2>1 DEF Setup_!DropStorage, SetupRows
    <3> QED BY <1>1, <1>7, <2>1, <3>1
  <2>2. CASE UNCHANGED Setup_!rows /\ s_left' = s_left \cup {s}
    <3>1. s_owner' = s_owner /\ s_left \subseteq s_left' /\ s \in s_left'
      BY <2>2 DEF Setup_!rows
    <3> QED BY <1>1, <1>7, <3>1
  <2> QED BY <1>7, <2>1, <2>2, UndoIs
<1>8. ASSUME NEW t \in Calls, Setup_!SetupLinks(t) PROVE FinishHolds'
  <2>1. SetupGoes(t) /\ UNCHANGED <<s_crashed, s_said, s_left>>
    BY <1>8 DEF SetupGoes, Setup_!SetupLinks, Setup_!hist
  <2>2. s_owner' = s_owner
    BY <1>8 DEF Setup_!SetupLinks, Setup_!rows
  <2>3. CASE \E p : Setup_!Go(t, [s_task[t] EXCEPT !.pc = p])
    BY <1>0, <1>2, <2>1, <2>2, <2>3 DEF Setup_!Go, SetupTask
  <2>4. CASE \E c : Setup_!Go(t, [s_task[t] EXCEPT !.saw = @ \ {c}])
    BY <1>0, <1>2, <2>1, <2>2, <2>4 DEF Setup_!Go, SetupTask
  <2> QED BY <1>8, <2>3, <2>4 DEF Setup_!SetupLinks, Setup_!At
<1>9. ASSUME NEW t \in Calls,
             \/ Setup_!BotChecked(t) \/ Setup_!BotConfirmed(t) \/ Setup_!BotFails(t)
             \/ Setup_!BotDropsChannel(t) \/ Setup_!BotReads(t) \/ Setup_!BotWrites(t)
      PROVE  FinishHolds'
  <2>1. /\ SetupGoes(t) /\ UNCHANGED <<s_crashed, s_said, s_left, s_owner>>
    BY <1>9 DEF SetupGoes, Setup_!BotChecked, Setup_!BotConfirmed, Setup_!BotFails,
       Setup_!BotDropsChannel, Setup_!BotReads, Setup_!BotWrites, Setup_!hist, Setup_!rows
  <2>2. \/ \E p : s_task' = [s_task EXCEPT ![t] = [s_task[t] EXCEPT !.pc = p]]
        \/ \E p, C : s_task' = [s_task EXCEPT ![t] = [s_task[t] EXCEPT !.pc = p, !.saw = C]]
        \/ \E C : s_task' = [s_task EXCEPT ![t] = [s_task[t] EXCEPT !.saw = C]]
    BY <1>0, <1>9 DEF Setup_!BotChecked, Setup_!BotConfirmed, Setup_!BotFails,
       Setup_!BotDropsChannel, Setup_!BotReads, Setup_!BotWrites, Setup_!Go, Setup_!At
  <2>3. s_task'[t].fresh = s_task[t].fresh /\ s_task'[t].sto = s_task[t].sto
    <3>1. s_task \in [Calls -> SetupTask] /\ s_task[t] \in SetupTask
      BY <1>0
    <3>2. CASE \E p : s_task' = [s_task EXCEPT ![t] = [s_task[t] EXCEPT !.pc = p]]
      BY <3>1, <3>2 DEF SetupTask
    <3>3. CASE \E p, C : s_task' = [s_task EXCEPT ![t] =
                                      [s_task[t] EXCEPT !.pc = p, !.saw = C]]
      BY <3>1, <3>3 DEF SetupTask
    <3>4. CASE \E C : s_task' = [s_task EXCEPT ![t] = [s_task[t] EXCEPT !.saw = C]]
      BY <3>1, <3>4 DEF SetupTask
    <3> QED BY <2>2, <3>2, <3>3, <3>4
  <2> QED BY <1>2, <2>1, <2>3
<1>10. ASSUME NEW t \in Calls, Setup_!Done(t) PROVE FinishHolds'
  <2>1. SetupGoes(t)
    BY <1>10 DEF SetupGoes
  <2>2. UNCHANGED <<s_crashed, s_left, s_owner>> /\ s_said \subseteq s_said'
    BY <1>10 DEF Setup_!Done, Setup_!rows
  <2>3. s_task[t].fresh => s_task[t].sto \in s_said'
    <3>1. s_task[t].fresh => s_task[t].op = "setup"
      BY <1>0 DEF SetupTaskHolds
    <3> QED BY <1>10, <3>1 DEF Setup_!Done
  <2> QED BY <1>1, <2>1, <2>2, <2>3
<1>11. ASSUME NEW t \in Calls, Setup_!SetupConflict(t) \/ Setup_!Failed(t) PROVE FinishHolds'
  <2>1. /\ SetupGoes(t) /\ UNCHANGED <<s_crashed, s_said>> /\ s_task[t].sto \in Storages
    <3>1. s_task[t].pc \notin Unplaced /\ s_task[t].sto # "none"
      BY <1>0, <1>11 DEF Setup_!SetupConflict, Setup_!Failed, SetupTaskHolds, Unplaced
    <3> QED BY <1>0, <1>11, <3>1 DEF SetupGoes, Setup_!SetupConflict, Setup_!Failed, SetupTask
  <2>2. CASE Setup_!Undo(s_task[t].sto)
    BY <1>7, <2>1, <2>2
  <2>3. CASE ~s_task[t].fresh /\ UNCHANGED <<s_owner, s_left>>
    BY <1>2, <2>1, <2>3
  <2>4. \/ Setup_!Undo(s_task[t].sto)
        \/ ~s_task[t].fresh /\ UNCHANGED <<s_owner, s_left>>
    BY Zenon, <1>11 DEF Setup_!SetupConflict, Setup_!Failed, Setup_!rows
  <2> QED BY <2>2, <2>3, <2>4
<1> QED BY <1>3, <1>4, <1>5, <1>6, <1>8, <1>9, <1>10, <1>11 DEF Setup_!Next

-----------------------------------------------------------------------------
(* One bot, and its chats.                                                  *)

LEMMA KnowsNothing ==
  ASSUME NEW c, NEW C, NEW W, NEW o,
         \/ c.pc \notin {"drop", "read", "write", "add"}
         \/ C = {} /\ W = {} /\ o = "none"
  PROVE  Knows(c, C, W, o)
BY DEF Knows

(* With a storage goes what could be known of it.                           *)
LEMMA KnowledgeDropped ==
  ASSUME SetupRows, NEW s \in Storages, Setup_!DropStorage(s), s_under' = s_under,
         s_mixed \subseteq s_mixed', OneBot
  PROVE  /\ OneBot'
         /\ Setup_!ChannelsOf(s)' = {} /\ BotsOf(s)' = {} /\ s_owner'[s] = "none"
         /\ \A r \in Storages \ {s} :
               /\ Setup_!ChannelsOf(r)' = Setup_!ChannelsOf(r) /\ BotsOf(r)' = BotsOf(r)
               /\ s_owner'[r] = s_owner[r]
<1> USE DEF Setup_!DropStorage, Setup_!Nil
<1>1. \A c \in Groups, r \in Storages : s_chan'[c] = r <=> s_chan[c] = r /\ r # s
  BY RecordsAssumption DEF SetupRows
<1>2. /\ Setup_!ChannelsOf(s)' = {}
      /\ \A r \in Storages \ {s} : Setup_!ChannelsOf(r)' = Setup_!ChannelsOf(r)
  BY <1>1 DEF Setup_!ChannelsOf
<1>3. BotsOf(s)' = {} /\ \A r \in Storages \ {s} : BotsOf(r)' = BotsOf(r)
  BY DEF BotsOf
<1>4. s_owner'[s] = "none" /\ \A r \in Storages \ {s} : s_owner'[r] = s_owner[r]
  BY DEF SetupRows
<1>5. OneBot'
  BY <1>1, <1>3 DEF OneBot
<1> QED BY <1>2, <1>3, <1>4, <1>5

LEMMA BotsStep ==
  ASSUME SetupRows, SetupTasks, WorksAlone, OneBot, KnowsItsBot, Setup_!Next
  PROVE  OneBot' /\ KnowsItsBot'
<1> USE DEF Setup_!Nil
<1>0. /\ s_task \in [Calls -> SetupTask]
      /\ \A t \in Calls : s_task[t] \in SetupTask /\ SetupTaskHolds(s_task[t])
      /\ \A t \in Calls : s_task[t].pc \notin Unplaced => s_task[t].sto \in Storages
      /\ "none" \notin Storages
  BY RecordsAssumption DEF SetupTasks, SetupTaskHolds, SetupTask
<1>1. ASSUME NEW t \in Calls, SetupGoes(t),
             \A s \in Storages \ s_mixed' :
                 \/ \A u \in Calls \ {t} : s_task[u].sto # s
                 \/ /\ Setup_!ChannelsOf(s)' = Setup_!ChannelsOf(s) /\ BotsOf(s)' = BotsOf(s)
                    /\ s_owner'[s] = s_owner[s],
             \A s \in Storages \ s_mixed' : s_task'[t].sto = s =>
                 Knows(s_task'[t], Setup_!ChannelsOf(s)', BotsOf(s)', s_owner'[s])
      PROVE  KnowsItsBot'
  <2>1. Turn(t)
    BY <1>1, SetupTurns
  <2>2. ASSUME NEW u \in Calls, NEW s \in Storages \ s_mixed', s_task'[u].sto = s
        PROVE  Knows(s_task'[u], Setup_!ChannelsOf(s)', BotsOf(s)', s_owner'[s])
    <3>1. CASE u = t
      BY <1>1, <2>2, <3>1
    <3>2. CASE u # t
      <4>1. s_task'[u] = s_task[u] /\ s \in Storages \ s_mixed
        BY <2>1, <3>2 DEF Turn
      <4>2. Knows(s_task[u], Setup_!ChannelsOf(s), BotsOf(s), s_owner[s])
        BY <2>2, <4>1 DEF KnowsItsBot
      <4> QED BY <1>1, <2>2, <3>2, <4>1, <4>2
    <3> QED BY <3>1, <3>2
  <2> QED BY <2>2 DEF KnowsItsBot
<1>2. ASSUME NEW t \in Calls, SetupGoes(t), UNCHANGED Setup_!rows,
             \A s \in Storages \ s_mixed' : s_task'[t].sto = s =>
                 Knows(s_task'[t], Setup_!ChannelsOf(s), BotsOf(s), s_owner[s])
      PROVE  OneBot' /\ KnowsItsBot'
  <2>1. s_mixed \subseteq s_mixed'
    BY <1>2, SetupTurns DEF Turn
  <2>2. UNCHANGED <<s_owner, s_chan, s_under, s_workers>>
    BY <1>2 DEF Setup_!rows
  <2>3. \A s : Setup_!ChannelsOf(s)' = Setup_!ChannelsOf(s) /\ BotsOf(s)' = BotsOf(s)
    BY <2>2 DEF Setup_!ChannelsOf, BotsOf
  <2>4. KnowsItsBot'
    BY <1>1, <1>2, <2>2, <2>3
  <2>5. OneBot'
    BY <2>1, <2>2, <2>3 DEF OneBot
  <2> QED BY <2>4, <2>5
<1>3. ASSUME NEW t \in Calls, SetupGoes(t), UNCHANGED Setup_!rows,
             s_task'[t].pc \notin {"drop", "read", "write", "add"}
      PROVE  OneBot' /\ KnowsItsBot'
  BY <1>2, <1>3, KnowsNothing
<1>4. ASSUME NEW t \in Calls, NEW s \in Storages, s_task[t].sto = s, s \notin s_mixed
      PROVE  \A u \in Calls \ {t} : s_task[u].sto # s
  BY <1>4 DEF WorksAlone
<1>5. ASSUME NEW t \in Calls, SetupGoes(t), NEW s \in Storages, Setup_!DropStorage(s),
             s_task[t].sto = s, s_under' = s_under,
             s_task'[t].pc \notin {"drop", "read", "write", "add"}
      PROVE  OneBot' /\ KnowsItsBot'
  <2>1. s_mixed \subseteq s_mixed'
    BY <1>5, SetupTurns DEF Turn
  <2>2. /\ OneBot'
        /\ \A r \in Storages \ {s} :
              /\ Setup_!ChannelsOf(r)' = Setup_!ChannelsOf(r) /\ BotsOf(r)' = BotsOf(r)
              /\ s_owner'[r] = s_owner[r]
    BY <1>5, <2>1, KnowledgeDropped
  <2>3. \A r \in Storages \ s_mixed' : s_task'[t].sto = r =>
            Knows(s_task'[t], Setup_!ChannelsOf(r)', BotsOf(r)', s_owner'[r])
    BY <1>5, KnowsNothing
  <2>4. s \notin s_mixed' => \A u \in Calls \ {t} : s_task[u].sto # s
    BY <1>4, <1>5, <2>1
  <2>5. KnowsItsBot'
    BY <1>1, <1>5, <2>2, <2>3, <2>4
  <2> QED BY <2>2, <2>5
<1>6. CASE Setup_!AddWorker \/ Setup_!DeleteWorker
  <2>1. /\ UNCHANGED <<s_owner, s_chan, s_under, s_task>> /\ s_mixed \subseteq s_mixed'
        /\ \A s \in Storages \ s_mixed' : BotsOf(s)' = BotsOf(s)
    <3>1. CASE Setup_!AddWorker
      <4>1. PICK s \in Storages, k \in Bots :
                /\ s_workers' = s_workers \cup {[tok |-> k, sto |-> s, user |-> s_owner[s]]}
                /\ s_mixed' = s_mixed \cup {s}
        BY <3>1 DEF Setup_!AddWorker
      <4> DEFINE new == [tok |-> k, sto |-> s, user |-> s_owner[s]]
      <4>2. new.sto = s
        OBVIOUS
      <4> HIDE DEF new
      <4>3. s_workers' = s_workers \cup {new}
        BY <4>1 DEF new
      <4> QED BY <3>1, <4>1, <4>2, <4>3 DEF Setup_!AddWorker, BotsOf
    <3>2. CASE Setup_!DeleteWorker
      BY <3>2 DEF Setup_!DeleteWorker, BotsOf
    <3> QED BY <1>6, <3>1, <3>2
  <2>2. \A s : Setup_!ChannelsOf(s)' = Setup_!ChannelsOf(s)
    BY <2>1 DEF Setup_!ChannelsOf
  <2>3. OneBot'
    BY <2>1 DEF OneBot
  <2>4. KnowsItsBot'
    BY <2>1, <2>2 DEF KnowsItsBot
  <2> QED BY <2>3, <2>4
<1>7. CASE Setup_!DeleteStorage
  <2>1. PICK s \in Storages : Setup_!DropStorage(s)
    BY <1>7 DEF Setup_!DeleteStorage
  <2>2. UNCHANGED <<s_under, s_task, s_mixed>>
    BY <1>7 DEF Setup_!DeleteStorage
  <2>3. /\ OneBot'
        /\ Setup_!ChannelsOf(s)' = {} /\ BotsOf(s)' = {} /\ s_owner'[s] = "none"
        /\ \A r \in Storages \ {s} :
              /\ Setup_!ChannelsOf(r)' = Setup_!ChannelsOf(r) /\ BotsOf(r)' = BotsOf(r)
              /\ s_owner'[r] = s_owner[r]
    BY <2>1, <2>2, KnowledgeDropped
  <2>4. \A t \in Calls : Knows(s_task[t], Setup_!ChannelsOf(s)', BotsOf(s)', s_owner'[s])
    BY <2>3, KnowsNothing
  <2>5. KnowsItsBot'
    BY <2>2, <2>3, <2>4 DEF KnowsItsBot
  <2> QED BY <2>3, <2>5
<1>8. CASE Setup_!Crash \/ Setup_!Quiet
  <2>1. /\ UNCHANGED <<s_owner, s_chan, s_under, s_workers, s_mixed>>
        /\ \A t \in Calls : s_task'[t] \in {Setup_!Idle, s_task[t]}
    BY <1>8 DEF Setup_!Crash, Setup_!Quiet, Setup_!vars, Setup_!rows
  <2>2. \A s : Setup_!ChannelsOf(s)' = Setup_!ChannelsOf(s) /\ BotsOf(s)' = BotsOf(s)
    BY <2>1 DEF Setup_!ChannelsOf, BotsOf
  <2>3. OneBot'
    BY <2>1, <2>2 DEF OneBot
  <2>4. KnowsItsBot'
    BY <2>1, <2>2, SetupShapes DEF KnowsItsBot
  <2> QED BY <2>3, <2>4
<1>9. ASSUME NEW t \in Calls, NEW c, s_task' = [s_task EXCEPT ![t] = c],
             c.pc \notin {"drop", "read", "write", "add"}
      PROVE  s_task'[t].pc \notin {"drop", "read", "write", "add"}
  BY <1>0, <1>9
<1>10. ASSUME NEW t \in Calls, NEW p, s_task' = [s_task EXCEPT ![t] = [s_task[t] EXCEPT !.pc = p]]
       PROVE  s_task'[t].pc = p /\ s_task'[t].drop = s_task[t].drop
              /\ s_task'[t].sto = s_task[t].sto /\ s_task'[t].saw = s_task[t].saw
  BY <1>0, <1>10 DEF SetupTask
<1>11. ASSUME NEW t \in Calls,
              \/ Setup_!Ask(t) \/ Setup_!SetupLooks(t) \/ Setup_!SetupAgain(t)
              \/ Setup_!BotChecked(t) \/ Setup_!BotFails(t) \/ Setup_!Done(t)
       PROVE  OneBot' /\ KnowsItsBot'
  <2>1. SetupGoes(t)
    BY Zenon, <1>11 DEF SetupGoes
  <2>2. UNCHANGED Setup_!rows
    BY <1>11 DEF Setup_!Ask, Setup_!SetupLooks, Setup_!SetupAgain, Setup_!BotChecked,
       Setup_!BotFails, Setup_!Done
  <2>3. ASSUME Setup_!Ask(t)
        PROVE  s_task'[t].pc \notin {"drop", "read", "write", "add"}
    <3>1. ASSUME NEW c, Setup_!Go(t, c), c.pc \notin {"drop", "read", "write", "add"}
          PROVE  s_task'[t].pc \notin {"drop", "read", "write", "add"}
      BY <1>9, <3>1 DEF Setup_!Go
    <3>2. CASE \E u \in Owners, k \in Bots, C \in SUBSET Groups \ {{}} :
                  Setup_!Go(t, [Setup_!Idle EXCEPT !.pc = "look", !.op = "setup", !.user = u,
                                                   !.tok = k, !.chats = C])
      BY <3>1, <3>2 DEF Setup_!Idle
    <3>3. CASE \E s \in Storages, k \in Bots, drop \in BOOLEAN :
                  Setup_!Go(t, [Setup_!Idle EXCEPT !.pc = "bot", !.op = "bot",
                                                   !.user = s_owner[s], !.tok = k, !.sto = s,
                                                   !.drop = drop])
      BY <3>1, <3>3 DEF Setup_!Idle
    <3>4. CASE \E s \in Storages :
                  Setup_!Go(t, [Setup_!Idle EXCEPT !.pc = "discover", !.op = "refresh",
                                                   !.user = s_owner[s], !.sto = s])
      BY <3>1, <3>4 DEF Setup_!Idle
    <3> QED BY Zenon, <2>3, <3>2, <3>3, <3>4 DEF Setup_!Ask
  <2>4. ASSUME Setup_!SetupLooks(t) \/ Setup_!SetupAgain(t)
        PROVE  s_task'[t].pc \notin {"drop", "read", "write", "add"}
    <3>1. \/ s_task' = [s_task EXCEPT ![t] = [s_task[t] EXCEPT !.pc = "create"]]
          \/ s_task' = [s_task EXCEPT ![t] = Setup_!Idle]
          \/ \E s : s_task' = [s_task EXCEPT ![t] = [s_task[t] EXCEPT !.pc = "bot", !.sto = s]]
      BY <2>4 DEF Setup_!SetupLooks, Setup_!SetupAgain, Setup_!Go, Setup_!At, Setup_!Finish
    <3>2. s_task[t] \in SetupTask /\ s_task \in [Calls -> SetupTask]
      BY <1>0
    <3>3. CASE s_task' = [s_task EXCEPT ![t] = [s_task[t] EXCEPT !.pc = "create"]]
      BY <3>2, <3>3 DEF SetupTask
    <3>4. CASE s_task' = [s_task EXCEPT ![t] = Setup_!Idle]
      BY <3>2, <3>4, SetupShapes
    <3>5. CASE \E s : s_task' = [s_task EXCEPT ![t] =
                                     [s_task[t] EXCEPT !.pc = "bot", !.sto = s]]
      BY <3>2, <3>5 DEF SetupTask
    <3> QED BY <3>1, <3>3, <3>4, <3>5
  <2>5. ASSUME Setup_!BotChecked(t) \/ Setup_!BotFails(t) \/ Setup_!Done(t)
        PROVE  s_task'[t].pc \notin {"drop", "read", "write", "add"}
    BY <1>0, <2>5, SetupShapes DEF Setup_!BotChecked, Setup_!BotFails, Setup_!Done, Setup_!Go,
       Setup_!At, Setup_!Finish, SetupTask
  <2> QED BY <1>3, <1>11, <2>1, <2>2, <2>3, <2>4, <2>5
<1>12. ASSUME NEW t \in Calls, Setup_!SetupCreates(t) PROVE OneBot' /\ KnowsItsBot'
  <2>1. PICK s \in Storages \ s_made :
            /\ s_owner' = [s_owner EXCEPT ![s] = s_task[t].user]
            /\ Setup_!Go(t, [s_task[t] EXCEPT !.pc = "link", !.sto = s, !.fresh = TRUE,
                                              !.saw = s_task[t].chats])
    BY <1>12 DEF Setup_!SetupCreates
  <2>2. SetupGoes(t) /\ Turn(t)
    BY <1>12, SetupTurns DEF SetupGoes
  <2>3. s_task'[t].pc = "link" /\ s_task'[t].sto = s
    BY <1>0, <2>1 DEF Setup_!Go, SetupTask
  <2>4. s_task[t].sto = "none"
    BY <1>0, <1>12 DEF Setup_!SetupCreates, SetupTaskHolds, Unplaced
  <2>5. UNCHANGED <<s_chan, s_under, s_workers>>
        /\ \A r \in Storages \ {s} : s_owner'[r] = s_owner[r]
    BY <1>12, <2>1 DEF Setup_!SetupCreates, SetupRows
  <2>6. \A r : Setup_!ChannelsOf(r)' = Setup_!ChannelsOf(r) /\ BotsOf(r)' = BotsOf(r)
    BY <2>5 DEF Setup_!ChannelsOf, BotsOf
  <2>7. s \notin s_mixed' => \A u \in Calls \ {t} : s_task[u].sto # s
    BY <1>0, <2>2, <2>3, <2>4 DEF Turn
  <2>8. KnowsItsBot'
    BY <1>1, <2>2, <2>3, <2>5, <2>6, <2>7, KnowsNothing
  <2>9. OneBot'
    BY <2>2, <2>5, <2>6 DEF OneBot, Turn
  <2> QED BY <2>8, <2>9
<1>13. ASSUME NEW t \in Calls, Setup_!SetupLinks(t) PROVE OneBot' /\ KnowsItsBot'
  <2>0. PICK s \in Storages : s_task[t].sto = s
    BY <1>0, <1>13 DEF Setup_!SetupLinks, Unplaced
  <2> USE <2>0
  <2>1. SetupGoes(t) /\ Turn(t)
    BY <1>13, SetupTurns DEF SetupGoes
  <2>2. s \in Storages /\ s_task[t].saw \subseteq Groups /\ s_task[t].pc = "link"
    BY <1>0, <1>13 DEF Setup_!SetupLinks, SetupTaskHolds, Unplaced
  <2>3. ASSUME UNCHANGED Setup_!rows, NEW p \in {"bot", "conflict", "failed"},
               s_task' = [s_task EXCEPT ![t] = [s_task[t] EXCEPT !.pc = p]]
        PROVE  OneBot' /\ KnowsItsBot'
    <3>1. s_task'[t].pc = p
      BY <1>0, <2>3 DEF SetupTask
    <3> QED BY <1>3, <2>1, <2>3, <3>1
  <2>5. ASSUME NEW c \in s_task[t].saw, s_chan[c] = "none",
               s_chan' = [s_chan EXCEPT ![c] = s], s_under' = [s_under EXCEPT ![c] = "none"],
               UNCHANGED <<s_owner, s_workers>>,
               s_task' = [s_task EXCEPT ![t] = [s_task[t] EXCEPT !.saw = @ \ {c}]]
        PROVE  OneBot' /\ KnowsItsBot'
    <3>1. s_task'[t].pc = "link"
      BY <1>0, <2>2, <2>5 DEF SetupTask
    <3>2. \A r : BotsOf(r)' = BotsOf(r)
      BY <2>5 DEF BotsOf
    <3>3. /\ c \in Groups /\ s_under'[c] = "none"
          /\ \A d \in Groups \ {c} : s_chan'[d] = s_chan[d] /\ s_under'[d] = s_under[d]
          /\ s_chan'[c] = s
      BY <2>2, <2>5 DEF SetupRows
    <3>4. \A r \in Storages \ {s} : Setup_!ChannelsOf(r)' = Setup_!ChannelsOf(r)
      BY <1>0, <2>5, <3>3 DEF Setup_!ChannelsOf
    <3>5. s \notin s_mixed' => \A u \in Calls \ {t} : s_task[u].sto # s
      BY <1>4, <2>1, <2>2 DEF Turn
    <3>6. KnowsItsBot'
      BY <1>1, <2>1, <2>5, <3>1, <3>2, <3>4, <3>5, KnowsNothing
    <3>7. OneBot'
      BY <2>1, <3>2, <3>3 DEF OneBot, Turn
    <3> QED BY <3>6, <3>7
  <2> QED BY <1>13, <2>3, <2>5 DEF Setup_!SetupLinks, Setup_!Go, Setup_!At
<1>14. ASSUME NEW t \in Calls, Setup_!BotConfirmed(t) PROVE OneBot' /\ KnowsItsBot'
  <2>0. PICK s \in Storages : s_task[t].sto = s
    BY <1>0, <1>14 DEF Setup_!BotConfirmed, Unplaced
  <2> USE <2>0
  <2>1. SetupGoes(t) /\ UNCHANGED Setup_!rows
    BY <1>14 DEF SetupGoes, Setup_!BotConfirmed
  <2>2. CASE s_task' = [s_task EXCEPT ![t] = [s_task[t] EXCEPT !.pc = "failed"]]
    <3>1. s_task'[t].pc = "failed"
      BY <1>0, <2>2 DEF SetupTask
    <3> QED BY <1>3, <2>1, <2>2, <3>1
  <2>3. CASE s_task' = [s_task EXCEPT ![t] =
                           [s_task[t] EXCEPT !.pc = "drop", !.saw = Setup_!ChannelsOf(s)]]
    <3>1. /\ s_task'[t].pc = "drop" /\ s_task'[t].saw = Setup_!ChannelsOf(s)
          /\ s_task'[t].sto = s
      BY <1>0, <2>3 DEF SetupTask
    <3>2. \A r \in Storages : s_task'[t].sto = r =>
              Knows(s_task'[t], Setup_!ChannelsOf(r), BotsOf(r), s_owner[r])
      BY <3>1 DEF Knows
    <3> QED BY <1>2, <2>1, <3>2
  <2>4. CASE /\ s_task' = [s_task EXCEPT ![t] = [s_task[t] EXCEPT !.pc = "read"]]
             /\ Setup_!BotOf(s) = {} /\ ~s_task[t].drop
    <3>1. s_task'[t].pc = "read" /\ s_task'[t].sto = s /\ ~s_task'[t].drop
      BY <1>10, <2>4
    <3>2. BotsOf(s) = {}
      BY <2>4, BotIs
    <3>3. \A r \in Storages : s_task'[t].sto = r =>
              Knows(s_task'[t], Setup_!ChannelsOf(r), BotsOf(r), s_owner[r])
      BY <3>1, <3>2 DEF Knows
    <3> QED BY <1>2, <2>1, <3>3
  <2> QED BY <1>14, <2>2, <2>3, <2>4 DEF Setup_!BotConfirmed, Setup_!Go, Setup_!At
<1>15. ASSUME NEW t \in Calls, Setup_!BotDropsChannel(t) PROVE OneBot' /\ KnowsItsBot'
  <2>0. PICK s \in Storages : s_task[t].sto = s
    BY <1>0, <1>15 DEF Setup_!BotDropsChannel, Unplaced
  <2> USE <2>0
  <2>1. SetupGoes(t) /\ Turn(t) /\ UNCHANGED <<s_owner, s_under, s_workers>>
    BY <1>15, SetupTurns DEF SetupGoes, Setup_!BotDropsChannel
  <2>2. s \in Storages /\ s_task[t].pc = "drop" /\ s_task[t].drop
    BY <1>0, <1>15 DEF Setup_!BotDropsChannel, SetupTaskHolds, Unplaced
  <2>3. s \notin s_mixed' => Setup_!ChannelsOf(s) \subseteq s_task[t].saw
    BY <2>1, <2>2 DEF KnowsItsBot, Knows, Turn
  <2>4. CASE /\ s_task[t].saw = {} /\ s_chan' = s_chan
             /\ s_task' = [s_task EXCEPT ![t] = [s_task[t] EXCEPT !.pc = "read"]]
    <3>1. s_task'[t].pc = "read" /\ s_task'[t].sto = s /\ s_task'[t].drop
      BY <1>10, <2>2, <2>4
    <3>2. s \notin s_mixed' => Setup_!ChannelsOf(s) = {}
      BY <2>3, <2>4
    <3>3. \A r \in Storages \ s_mixed' : s_task'[t].sto = r =>
              Knows(s_task'[t], Setup_!ChannelsOf(r), BotsOf(r), s_owner[r])
      BY <3>1, <3>2 DEF Knows
    <3>4. UNCHANGED Setup_!rows
      BY <2>1, <2>4 DEF Setup_!rows
    <3> QED BY <1>2, <2>1, <3>3, <3>4
  <2>5. ASSUME NEW c, s_chan' = [s_chan EXCEPT ![c] = IF @ = s THEN "none" ELSE @],
               s_task' = [s_task EXCEPT ![t] = [s_task[t] EXCEPT !.saw = @ \ {c}]]
        PROVE  OneBot' /\ KnowsItsBot'
    <3>1. /\ s_task'[t].pc = "drop" /\ s_task'[t].sto = s
          /\ s_task'[t].saw = s_task[t].saw \ {c}
      BY <1>0, <2>2, <2>5 DEF SetupTask
    <3>2. \A r : BotsOf(r)' = BotsOf(r)
      BY <2>1 DEF BotsOf
    <3>3. \A d \in Groups, r \in Storages :
              s_chan'[d] = r <=> s_chan[d] = r /\ (d = c => r # s)
      BY <1>0, <2>5 DEF SetupRows
    <3>4. /\ \A r \in Storages \ {s} : Setup_!ChannelsOf(r)' = Setup_!ChannelsOf(r)
          /\ Setup_!ChannelsOf(s)' \subseteq Setup_!ChannelsOf(s) \ {c}
      BY <2>2, <3>3 DEF Setup_!ChannelsOf
    <3>5. s \notin s_mixed' => \A u \in Calls \ {t} : s_task[u].sto # s
      BY <1>4, <2>1, <2>2 DEF Turn
    <3>6. s \notin s_mixed' => Knows(s_task'[t], Setup_!ChannelsOf(s)', BotsOf(s)', s_owner'[s])
      BY <2>3, <3>1, <3>4 DEF Knows
    <3>7. KnowsItsBot'
      BY <1>1, <2>1, <3>1, <3>2, <3>4, <3>5, <3>6
    <3>8. OneBot'
      BY <2>1, <3>2, <3>3 DEF OneBot, Turn
    <3> QED BY <3>7, <3>8
  <2> QED BY <1>15, <2>4, <2>5 DEF Setup_!BotDropsChannel, Setup_!Go, Setup_!At
<1>16. ASSUME NEW t \in Calls, Setup_!BotReads(t) PROVE OneBot' /\ KnowsItsBot'
  <2>0. PICK s \in Storages : s_task[t].sto = s
    BY <1>0, <1>16 DEF Setup_!BotReads, Unplaced
  <2> USE <2>0
  <2>1. SetupGoes(t) /\ Turn(t) /\ UNCHANGED Setup_!rows
    BY <1>16, SetupTurns DEF SetupGoes, Setup_!BotReads
  <2>2. s \in Storages /\ s_task[t].pc = "read"
    BY <1>0, <1>16 DEF Setup_!BotReads, Unplaced
  <2>3. CASE s_task' = [s_task EXCEPT ![t] = [s_task[t] EXCEPT !.pc = "failed"]]
    <3>1. s_task'[t].pc = "failed"
      BY <1>0, <2>3 DEF SetupTask
    <3> QED BY <1>3, <2>1, <2>3, <3>1
  <2>4. ASSUME NEW rows, Setup_!BotOf(s) # {} => rows = Setup_!BotOf(s),
               s_task' = [s_task EXCEPT ![t] = [s_task[t] EXCEPT !.pc = "write", !.saw = rows]]
        PROVE  OneBot' /\ KnowsItsBot'
    <3>1. /\ s_task'[t].pc = "write" /\ s_task'[t].sto = s /\ s_task'[t].saw = rows
          /\ s_task'[t].drop = s_task[t].drop
      BY <1>0, <2>4 DEF SetupTask
    <3>2. s \notin s_mixed' => s \in Storages \ s_mixed
      BY <2>1, <2>2 DEF Turn
    <3>3. s \notin s_mixed' =>
              IF s_task[t].drop THEN Setup_!ChannelsOf(s) = {} ELSE BotsOf(s) = {}
      BY <2>2, <3>2 DEF KnowsItsBot, Knows
    <3>4. s \notin s_mixed' => BotsOf(s) \subseteq rows
      <4>1. s \notin s_mixed' => \A v, w \in BotsOf(s) : v = w
        BY <3>2 DEF OneBot
      <4> QED BY <2>4, <4>1, BotIs
    <3>5. s \notin s_mixed' => Knows(s_task'[t], Setup_!ChannelsOf(s), BotsOf(s), s_owner[s])
      BY <3>1, <3>3, <3>4 DEF Knows
    <3> QED BY <1>2, <2>1, <3>1, <3>5
  <2> QED BY <1>16, <2>3, <2>4 DEF Setup_!BotReads, Setup_!Go, Setup_!At
<1>17. ASSUME NEW t \in Calls, Setup_!BotWrites(t) PROVE OneBot' /\ KnowsItsBot'
  <2>0. PICK s \in Storages : s_task[t].sto = s
    BY <1>0, <1>17 DEF Setup_!BotWrites, Unplaced
  <2> USE <2>0
  <2>1. SetupGoes(t) /\ Turn(t) /\ UNCHANGED <<s_owner, s_chan>>
    BY <1>17, SetupTurns DEF SetupGoes, Setup_!BotWrites
  <2>2. s \in Storages /\ s_task[t].pc = "write"
    BY <1>0, <1>17 DEF Setup_!BotWrites, Unplaced
  <2>3. CASE /\ s_task' = [s_task EXCEPT ![t] = [s_task[t] EXCEPT !.pc = "failed"]]
             /\ UNCHANGED <<s_workers, s_under>>
    <3>1. s_task'[t].pc = "failed"
      BY <1>0, <2>3 DEF SetupTask
    <3> QED BY <1>3, <2>1, <2>3, <3>1 DEF Setup_!rows
  <2>4. CASE s_task' = [s_task EXCEPT ![t].pc = "done"]
    <3> DEFINE old == s_task[t].saw \cap s_workers
               by == IF old = {} THEN s_task[t].user ELSE (CHOOSE w \in old : TRUE).user
               new == [tok |-> s_task[t].tok, sto |-> s, user |-> by]
    <3>0. s_task'[t].pc = "done"
      BY <1>0, <2>4 DEF SetupTask
    <3>1. /\ s_workers' = (s_workers \ old) \cup {new}
          /\ s_under' = [c \in Groups |-> IF s_chan[c] = new.sto /\ s_under[c] = "none"
                                         THEN new.tok ELSE s_under[c]]
          /\ s_mixed' = s_mixed \cup {w.sto : w \in {w \in old : w.sto # new.sto}}
      <4>1. ~(s_task' = [s_task EXCEPT ![t] = [s_task[t] EXCEPT !.pc = "failed"]])
        <5>1. ASSUME s_task' = [s_task EXCEPT ![t] = [s_task[t] EXCEPT !.pc = "failed"]]
              PROVE  FALSE
          <6>1. s_task'[t].pc = "failed"
            BY <1>0, <5>1 DEF SetupTask
          <6> QED BY <3>0, <6>1
        <5> QED BY <5>1
      <4> QED BY <1>17, <4>1 DEF Setup_!BotWrites, Setup_!Go, Setup_!At
    <3>2. new.tok = s_task[t].tok /\ new.sto = s
      OBVIOUS
    <3> HIDE DEF by, new
    <3>3. s \notin s_mixed' => s \in Storages \ s_mixed
      BY <2>1, <2>2 DEF Turn
    <3>4. s \notin s_mixed' =>
              /\ IF s_task[t].drop THEN Setup_!ChannelsOf(s) = {} ELSE BotsOf(s) = {}
              /\ BotsOf(s) \subseteq s_task[t].saw
      BY <2>2, <3>3 DEF KnowsItsBot, Knows
    <3>5. s \notin s_mixed' => BotsOf(s)' = {new}
      BY <3>1, <3>2, <3>4 DEF BotsOf
    <3>6. \A r \in Storages \ {s} : r \notin s_mixed' => BotsOf(r)' = BotsOf(r)
      BY <3>1, <3>2 DEF BotsOf
    <3>7. \A r \in Storages : Setup_!ChannelsOf(r)' = Setup_!ChannelsOf(r)
      BY <2>1 DEF Setup_!ChannelsOf
    <3>8. s \notin s_mixed' => \A c \in Groups : s_chan[c] = s => s_under'[c] = new.tok
      <4>1. ASSUME s \notin s_mixed', NEW c \in Groups, s_chan[c] = s
            PROVE  s_under[c] = "none"
        <5>1. c \in Setup_!ChannelsOf(s)
          BY <4>1 DEF Setup_!ChannelsOf
        <5>2. BotsOf(s) = {}
          BY <3>4, <4>1, <5>1
        <5> QED BY <3>3, <4>1, <5>2 DEF OneBot
      <4> QED BY <3>1, <3>2, <4>1
    <3>9. \A c \in Groups : s_chan[c] # s => s_under'[c] = s_under[c]
      BY <3>1, <3>2
    <3>10. OneBot'
      <4>1. ASSUME NEW r \in Storages \ s_mixed'
            PROVE  /\ \A v, w \in BotsOf(r)' : v = w
                   /\ \A c \in Groups : s_chan'[c] = r /\ s_under'[c] # "none" =>
                         \E w \in BotsOf(r)' : w.tok = s_under'[c]
        <5>1. CASE r = s
          BY <2>1, <3>5, <3>8, <5>1
        <5>2. CASE r # s
          <6>1. r \in Storages \ s_mixed /\ BotsOf(r)' = BotsOf(r)
            BY <2>1, <3>6, <5>2 DEF Turn
          <6> QED BY <2>1, <3>9, <5>2, <6>1 DEF OneBot
        <5> QED BY <5>1, <5>2
      <4> QED BY <4>1 DEF OneBot
    <3>11. s \notin s_mixed' => \A u \in Calls \ {t} : s_task[u].sto # s
      BY <1>4, <2>2, <3>3
    <3>12. KnowsItsBot'
      BY <1>1, <2>1, <3>0, <3>6, <3>7, <3>11, KnowsNothing
    <3> QED BY <3>10, <3>12
  <2> QED BY <1>17, <2>3, <2>4 DEF Setup_!BotWrites, Setup_!Go, Setup_!At
<1>18. ASSUME NEW t \in Calls, Setup_!SetupConflict(t) \/ Setup_!Failed(t)
       PROVE  OneBot' /\ KnowsItsBot'
  <2>1. SetupGoes(t) /\ s_task[t].sto \in Storages
    BY <1>0, <1>18 DEF SetupGoes, Setup_!SetupConflict, Setup_!Failed, Unplaced
  <2>2. s_task'[t].pc \in {"idle", "again"}
    <3>1. CASE Setup_!SetupConflict(t)
      <4>1. s_task' = [s_task EXCEPT ![t] = [s_task[t] EXCEPT !.pc = "again", !.sto = "none",
                                                              !.fresh = FALSE]]
        BY <3>1 DEF Setup_!SetupConflict, Setup_!Go
      <4> QED BY <1>0, <4>1 DEF SetupTask
    <3>2. CASE Setup_!Failed(t)
      BY <1>0, <3>2, SetupShapes DEF Setup_!Failed, Setup_!Finish
    <3> QED BY <1>18, <3>1, <3>2
  <2>3. UNCHANGED Setup_!rows \/ Setup_!Undo(s_task[t].sto)
    BY Zenon, <1>18 DEF Setup_!SetupConflict, Setup_!Failed
  <2> QED BY <1>3, <1>5, <2>1, <2>2, <2>3, UndoIs
<1>19. ASSUME NEW t \in Calls, Setup_!Discover(t) PROVE OneBot' /\ KnowsItsBot'
  <2>0. PICK s \in Storages : s_task[t].sto = s
    BY <1>0, <1>19 DEF Setup_!Discover, Unplaced
  <2> USE <2>0
  <2>1. SetupGoes(t) /\ UNCHANGED Setup_!rows
    BY <1>19 DEF SetupGoes, Setup_!Discover
  <2>2. CASE s_task' = [s_task EXCEPT ![t] = Setup_!Idle]
    BY <1>3, <1>9, <2>1, <2>2, SetupShapes
  <2>3. ASSUME NEW k \in Setup_!TokenOf(s), NEW C,
               s_task' = [s_task EXCEPT ![t] =
                             [s_task[t] EXCEPT !.pc = "add", !.tok = k, !.saw = C]]
        PROVE  OneBot' /\ KnowsItsBot'
    <3>1. s_task'[t].pc = "add" /\ s_task'[t].sto = s /\ s_task'[t].tok = k
      BY <1>0, <2>3 DEF SetupTask
    <3>2. \E w \in BotsOf(s) : w.tok = k
      BY <2>3, BotIs
    <3>3. \A r \in Storages : s_task'[t].sto = r =>
              Knows(s_task'[t], Setup_!ChannelsOf(r), BotsOf(r), s_owner[r])
      BY <3>1, <3>2 DEF Knows
    <3> QED BY <1>2, <2>1, <3>3
  <2> QED BY <1>19, <2>2, <2>3 DEF Setup_!Discover, Setup_!Go, Setup_!Finish
<1>20. ASSUME NEW t \in Calls, Setup_!AddChannel(t) PROVE OneBot' /\ KnowsItsBot'
  <2>0. PICK s \in Storages : s_task[t].sto = s
    BY <1>0, <1>20 DEF Setup_!AddChannel, Unplaced
  <2> USE <2>0
  <2>1. SetupGoes(t) /\ Turn(t) /\ UNCHANGED <<s_owner, s_workers>>
    BY <1>20, SetupTurns DEF SetupGoes, Setup_!AddChannel
  <2>2. /\ s \in Storages /\ s_task[t].pc = "add" /\ s_task[t].saw \subseteq Groups
        /\ s_task[t].tok \in Bots
    BY <1>0, <1>20 DEF Setup_!AddChannel, SetupTaskHolds, Unplaced
  <2>3. CASE s_task' = [s_task EXCEPT ![t] = Setup_!Idle] /\ UNCHANGED <<s_chan, s_under>>
    <3>1. s_task'[t].pc = "idle" /\ UNCHANGED Setup_!rows
      BY <1>0, <2>1, <2>3, SetupShapes DEF Setup_!rows
    <3> QED BY <1>3, <2>1, <3>1
  <2>4. ASSUME NEW c \in s_task[t].saw, s_owner[s] # "none",
               s_task' = [s_task EXCEPT ![t] = [s_task[t] EXCEPT !.saw = @ \ {c}]]
        PROVE  /\ s_task'[t].pc = "add" /\ s_task'[t].sto = s
               /\ s \notin s_mixed' =>
                     /\ s \notin s_mixed /\ \E w \in BotsOf(s) : w.tok = s_task[t].tok
                     /\ \A C : Knows(s_task'[t], C, BotsOf(s), s_owner[s])
    <3>1. s_task'[t].pc = "add" /\ s_task'[t].sto = s /\ s_task'[t].tok = s_task[t].tok
      BY <1>0, <2>2, <2>4 DEF SetupTask
    <3>2. s \notin s_mixed' =>
              s \notin s_mixed /\ \E w \in BotsOf(s) : w.tok = s_task[t].tok
      BY <2>1, <2>2, <2>4 DEF KnowsItsBot, Knows, Turn
    <3> QED BY <3>1, <3>2 DEF Knows
  <2>5. ASSUME NEW c \in s_task[t].saw, s_owner[s] # "none", UNCHANGED <<s_chan, s_under>>,
               s_task' = [s_task EXCEPT ![t] = [s_task[t] EXCEPT !.saw = @ \ {c}]]
        PROVE  OneBot' /\ KnowsItsBot'
    <3>1. UNCHANGED Setup_!rows
      BY <2>1, <2>5 DEF Setup_!rows
    <3> QED BY <1>2, <2>1, <2>4, <2>5, <3>1
  <2>6. ASSUME NEW c \in s_task[t].saw, s_owner[s] # "none", s_chan[c] = "none",
               s_chan' = [s_chan EXCEPT ![c] = s],
               s_under' = [s_under EXCEPT ![c] = s_task[t].tok],
               s_task' = [s_task EXCEPT ![t] = [s_task[t] EXCEPT !.saw = @ \ {c}]]
        PROVE  OneBot' /\ KnowsItsBot'
    <3>1. \A r : BotsOf(r)' = BotsOf(r)
      BY <2>1 DEF BotsOf
    <3>2. /\ c \in Groups /\ s_under'[c] = s_task[t].tok /\ s_chan'[c] = s
          /\ \A d \in Groups \ {c} : s_chan'[d] = s_chan[d] /\ s_under'[d] = s_under[d]
      BY <2>2, <2>6 DEF SetupRows
    <3>3. \A r \in Storages \ {s} : Setup_!ChannelsOf(r)' = Setup_!ChannelsOf(r)
      BY <1>0, <2>6, <3>2 DEF Setup_!ChannelsOf
    <3>4. s \notin s_mixed' => \A u \in Calls \ {t} : s_task[u].sto # s
      BY <1>4, <2>1, <2>2 DEF Turn
    <3>5. KnowsItsBot'
      BY <1>1, <2>1, <2>4, <2>6, <3>1, <3>3, <3>4
    <3>6. OneBot'
      <4>1. ASSUME NEW r \in Storages \ s_mixed', NEW d \in Groups, s_chan'[d] = r,
                   s_under'[d] # "none"
            PROVE  \E w \in BotsOf(r) : w.tok = s_under'[d]
        <5>1. r \in Storages \ s_mixed
          BY <2>1 DEF Turn
        <5>2. CASE d = c
          <6>1. r = s
            BY <3>2, <4>1, <5>2
          <6>2. \E w \in BotsOf(s) : w.tok = s_task[t].tok
            BY <2>4, <2>6, <4>1, <6>1
          <6> QED BY <3>2, <5>2, <6>1, <6>2
        <5>3. CASE d # c
          BY <3>2, <4>1, <5>1, <5>3 DEF OneBot
        <5> QED BY <5>2, <5>3
      <4>2. \A r \in Storages \ s_mixed' : \A v, w \in BotsOf(r) : v = w
        BY <2>1 DEF OneBot, Turn
      <4> QED BY <3>1, <4>1, <4>2 DEF OneBot
    <3> QED BY <3>5, <3>6
  <2> QED BY <1>20, <2>3, <2>5, <2>6 DEF Setup_!AddChannel, Setup_!Go, Setup_!Finish
<1> QED BY <1>6, <1>7, <1>8, <1>11, <1>12, <1>13, <1>14, <1>15, <1>16, <1>17, <1>18, <1>19, <1>20
        DEF Setup_!Next

-----------------------------------------------------------------------------
LEMMA SetupInit == Setup_!Init => SetupHolds
<1> SUFFICES ASSUME Setup_!Init PROVE SetupHolds
  OBVIOUS
<1> USE DEF Setup_!Init, Setup_!Nil
<1>1. SetupRows /\ SchemaHolds
  BY DEF SetupRows, SchemaHolds
<1>2. ChannelsFit
  <2>1. \A s \in Storages : Setup_!ChannelsOf(s) = {}
    BY RecordsAssumption DEF Setup_!ChannelsOf
  <2>2. IsFiniteSet({}) /\ Cardinality({}) =< MAX_CHANNELS
    BY FS_EmptySet, RecordsAssumption
  <2> QED BY <2>1, <2>2 DEF ChannelsFit
<1>3. SetupTasks
  BY SetupShapes DEF SetupTasks
<1>4. FinishHolds
  BY DEF FinishHolds
<1>5. WorksAlone /\ KnowsItsBot
  BY SetupShapes DEF WorksAlone, KnowsItsBot
<1>6. OneBot
  BY RecordsAssumption DEF OneBot, BotsOf
<1> QED BY <1>1, <1>2, <1>3, <1>4, <1>5, <1>6 DEF SetupHolds

LEMMA SetupStep == SetupHolds /\ Setup_!Next => SetupHolds'
BY SetupRowsStep, SetupTasksStep, FinishHoldsStep, WorksAloneStep, BotsStep
   DEF SetupHolds, SetupRowsHold

LEMMA SetupIsWhole ==
  ASSUME SetupHolds
  PROVE  Setup_!TypeOK /\ Setup_!FailedLeavesNothing /\ Setup_!ChatsFollowTheirBot
<1> USE DEF Setup_!Nil
<1>1. Setup_!TypeOK
  BY SetupCount DEF SetupHolds, SchemaHolds, ChannelsFit, Setup_!TypeOK
<1>2. Setup_!FailedLeavesNothing
  BY SetupShapes DEF SetupHolds, FinishHolds, StillMaking, Setup_!FailedLeavesNothing
<1>3. Setup_!ChatsFollowTheirBot
  <2> SUFFICES ASSUME NEW c \in Groups, s_chan[c] # "none", s_chan[c] \notin s_mixed,
                      s_under[c] # "none"
               PROVE  s_under[c] \in Setup_!TokenOf(s_chan[c])
    BY DEF Setup_!ChatsFollowTheirBot
  <2>1. s_chan[c] \in Storages
    BY DEF SetupHolds, SetupRows
  <2>2. PICK w \in BotsOf(s_chan[c]) : w.tok = s_under[c]
    BY <2>1 DEF SetupHolds, OneBot
  <2>3. \A v \in BotsOf(s_chan[c]) : v = w
    BY <2>1 DEF SetupHolds, OneBot
  <2>4. w \in Setup_!BotOf(s_chan[c])
    BY <2>3, BotIs
  <2> QED BY <2>2, <2>4, BotIs
<1> QED BY <1>1, <1>2, <1>3

ChosenSetupHolds == chosen = "setup" => SetupHolds

(* The making of a storage is one thing, whatever fails on the way, for any *)
(* people, bots, chats and requests: a storage has somebody who administers *)
(* it, a set-up that failed leaves nothing, and the chats are linked under  *)
(* the bot that the storage has (StoragesService::create, set_bot,          *)
(* SetupService::create_storage).                                           *)
THEOREM CreationStaysWhole == RecordsSpec => []CreationIsWhole
<1>1. RecordsInit => ChosenSetupHolds
  BY SetupInit DEF RecordsInit, ChosenSetupHolds
<1>2. ChosenSetupHolds /\ [RecordsNext]_recordsVars => ChosenSetupHolds'
  <2> SUFFICES ASSUME ChosenSetupHolds, [RecordsNext]_recordsVars, chosen' = "setup"
               PROVE  SetupHolds'
    BY DEF ChosenSetupHolds
  <2>1. CASE SetupRuns
    BY <2>1, SetupStep DEF SetupRuns, ChosenSetupHolds
  <2>2. CASE ~SetupRuns
    <3>1. chosen = "setup" /\ UNCHANGED setupVars
      BY <2>2 DEF RecordsNext, AccountsRuns, LibraryRuns, RestoreRuns, UserSessionsRuns,
         AppLockRuns, PreviewCacheRuns, ShortcutsRuns, recordsVars
    <3>2. Setup_!Quiet
      BY <3>1 DEF setupVars, Setup_!Quiet, Setup_!vars, Setup_!rows, Setup_!hist
    <3>3. Setup_!Next
      BY <3>2 DEF Setup_!Next
    <3> QED BY <3>1, <3>3, SetupStep DEF ChosenSetupHolds
  <2> QED BY <2>1, <2>2
<1>3. ChosenSetupHolds /\ ChosenAccountsHold => CreationIsWhole
  <2>1. ASSUME AccountsHold
        PROVE  Accounts_!TypeOK /\ Accounts_!EveryStorageHasAnAdmin
    <3>1. Accounts_!TypeOK /\ RootSees
      BY <2>1 DEF AccountsHold, AccountRows
    <3>2. ASSUME NEW s \in a_storages, Accounts_!IsAdmin("root", s)
          PROVE  \E u \in a_users : Accounts_!IsAdmin(u, s)
      BY <3>1, <3>2 DEF Accounts_!TypeOK
    <3> QED BY <3>1, <3>2 DEF RootSees, MakesStorage, Accounts_!EveryStorageHasAnAdmin
  <2> QED BY <2>1, SetupIsWhole DEF ChosenSetupHolds, ChosenAccountsHold, CreationIsWhole
<1> QED BY <1>1, <1>2, <1>3, AccountsStay, PTL DEF RecordsSpec

-----------------------------------------------------------------------------
(* Backup and restore: the inductive invariant.                             *)

LastEvent == MaxEvents + 1
DocumentRows == Documents \cup {"theirs"}
Databases ==
    [files : SUBSET DocumentRows, events : SUBSET (0 .. LastEvent),
     users : SUBSET {"root", "other"}, secret : BOOLEAN, orphan : BOOLEAN, triggers : BOOLEAN]
RestoreSteps ==
    {"idle", "scrub", "encode", "stream", "validate", "copy", "begin", "tables", "commit",
     "orphans", "superuser"}

RestoreTypes ==
    /\ b_now \in Nat /\ b_up \in {"up", "booting", "down"}
    /\ b_db \in Databases /\ b_db.triggers /\ b_seq \in 0..LastEvent
       /\ b_db.events \subseteq 0..b_seq
    /\ b_tx \in Databases /\ b_archives \subseteq Databases
    /\ b_at \in [Restores -> RestoreSteps] /\ b_src \in [Restores -> Databases]
    /\ b_copy \in [Restores -> Int] /\ b_late \in [Restores -> SUBSET DocumentRows]
    /\ b_safety \subseteq [second : Nat, files : SUBSET DocumentRows]
    /\ \A w \in b_scratch : w[1] \in Restores \/ w = Restore_!Stray

(* The lock belongs to whoever restores, whose transaction has no triggers  *)
(* while it copies the tables, and the archive once it has.                 *)
LockAgrees ==
    /\ b_lock # "none" => b_lock \in Restores /\ Restore_!Restoring(b_lock)
    /\ \A r \in Restores : Restore_!Restoring(r) => b_lock = r
    /\ \A r \in Restores : b_at[r] = "tables" => ~b_tx.triggers
    /\ \A r \in Restores : b_at[r] = "commit" => b_tx = [b_src[r] EXCEPT !.triggers = TRUE]

DownIsIdle ==
    /\ b_up # "up" => \A r \in Restores : b_at[r] = "idle"
    /\ b_up = "booting" => b_scratch = {}

(* What a commit leaves to be put right, whoever committed is about to put  *)
(* right, or the next start is; or it failed, or did not come to it.        *)
FixupsCome ==
    /\ b_up # "down" /\ b_db.orphan =>
          "orphans" \in b_missed \/ \E r \in Restores : b_at[r] = "orphans"
    /\ b_up = "up" /\ "root" \notin b_db.users =>
          \/ "superuser" \in b_missed
          \/ \E r \in Restores : b_at[r] \in {"orphans", "superuser"}

(* What is about to be sent was scrubbed.                                   *)
SecretsStay ==
    /\ Restore_!NoSecretLeaves
    /\ \A r \in Restores : b_at[r] \in {"encode", "stream"} => ~b_src[r].secret

(* While a restore may still commit, its own copy is there, or was pruned   *)
(* for enough newer ones, all but one of which are of seconds that are over *)
(* and stay; and each of these has what the commit will wipe.               *)
Between(S, k, n) == {c \in S : k < c.second /\ c.second < n}
Enough(S, k, n) == Cardinality(Between(S, k, n)) >= SAFETY_COPIES_KEPT - 1
OwnCopy(r) == \E c \in b_safety : c.second = b_copy[r]
Covers(c, r) == b_db.files \subseteq c.files \cup b_late[r]
CopiesHold ==
    /\ IsFiniteSet(b_safety)
    /\ \A c \in b_safety : c.second <= b_now
    /\ \A c, d \in b_safety : c.second = d.second => c = d
    /\ \A r \in Restores : b_copy[r] >= 0 =>
          /\ b_at[r] \in {"begin", "tables", "commit"} /\ b_copy[r] <= b_now
          /\ OwnCopy(r) \/ Enough(b_safety, b_copy[r], b_now)
          /\ \A c \in b_safety : c.second >= b_copy[r] => Covers(c, r)

RestoreHolds ==
    /\ RestoreTypes /\ LockAgrees /\ DownIsIdle /\ FixupsCome /\ SecretsStay
    /\ Restore_!ScratchIsOwned /\ CopiesHold /\ Restore_!TypeOK

-----------------------------------------------------------------------------
(* Counting the copies.                                                     *)

LEMMA RestoreCount == \A S : Restore_!Cardinality(S) = Cardinality(S)
BY Zenon DEF Restore_!Cardinality, Cardinality

(* A bounded set of naturals has a greatest element.                        *)
LEMMA GreatestIs ==
  ASSUME NEW S \in SUBSET Nat, S # {}, NEW n \in Nat, \A s \in S : s <= n
  PROVE  \E m \in S : \A s \in S : s <= m
<1> DEFINE T == {n - s : s \in S}
<1>0. \A s \in S : s \in Nat /\ s <= n /\ n - s \in Nat
  OBVIOUS
<1>1. T \subseteq Nat /\ T # {}
  BY <1>0
<1>2. PICK p \in T : \A q \in T : ~ (<<q, p>> \in OpToRel(<, Nat))
  BY <1>1, NatLessThanWellFounded, WFMin, Zenon
<1>3. \A q \in T : ~ (q < p)
  BY <1>1, <1>2 DEF OpToRel
<1>4. PICK m \in S : p = n - m
  OBVIOUS
<1>5. \A s \in S : ~ (n - s < n - m)
  BY <1>3, <1>4
<1>6. \A s \in S : s <= m
  BY <1>0, <1>4, <1>5
<1> QED BY <1>6

(* The copies of a second are one at most: of those newer than k, all but   *)
(* one are of the seconds before the last, n.                               *)
LEMMA NewerIsBetween ==
  ASSUME NEW S, IsFiniteSet(S), NEW n \in Nat, \A c \in S : c.second \in 0..n,
         \A c, d \in S : c.second = d.second => c = d, NEW k \in Nat,
         Cardinality(Restore_!Newer(S, k)) >= SAFETY_COPIES_KEPT
  PROVE  Enough(S, k, n)
<1> DEFINE All == Restore_!Newer(S, k)
           Some == Between(S, k, n)
<1>1. /\ IsFiniteSet(All) /\ IsFiniteSet(Some)
      /\ Cardinality(All) \in Nat /\ Cardinality(Some) \in Nat
  BY FS_Subset, FS_CardinalityType DEF Restore_!Newer, Between
<1>2. CASE All \subseteq Some
  <2>1. Cardinality(All) <= Cardinality(Some)
    BY <1>1, <1>2, FS_Subset
  <2> HIDE DEF All, Some
  <2>2. Cardinality(Some) >= SAFETY_COPIES_KEPT - 1
    BY <1>1, <2>1, RecordsAssumption DEF All
  <2> QED BY <2>2 DEF Enough, Some
<1>3. CASE ~(All \subseteq Some)
  <2>1. PICK d \in All : d \notin Some
    BY <1>3
  <2>2. d \in S /\ d.second = n
    BY <2>1 DEF Restore_!Newer, Between
  <2>3. All \ {d} \subseteq Some
    BY <2>2 DEF Restore_!Newer, Between
  <2>4. IsFiniteSet(All \ {d}) /\ Cardinality(All \ {d}) = Cardinality(All) - 1
    BY <1>1, <2>1, FS_RemoveElement
  <2>5. Cardinality(All \ {d}) <= Cardinality(Some)
    BY <1>1, <2>3, FS_Subset
  <2> HIDE DEF All, Some
  <2>6. Cardinality(Some) >= SAFETY_COPIES_KEPT - 1
    BY <1>1, <2>4, <2>5, RecordsAssumption DEF All
  <2> QED BY <2>6 DEF Enough, Some
<1> QED BY <1>2, <1>3

LEMMA PrunedAre ==
  ASSUME NEW S, IsFiniteSet(S)
  PROVE  /\ Restore_!Pruned(S) \subseteq S
         /\ \A c \in S \ Restore_!Pruned(S) :
               Cardinality(Restore_!Newer(S, c.second)) >= SAFETY_COPIES_KEPT
<1>1. \A c \in S : Cardinality(Restore_!Newer(S, c.second)) \in Nat
  BY FS_Subset, FS_CardinalityType DEF Restore_!Newer
<1>2. \A c \in S : {d \in S : d.second > c.second} = Restore_!Newer(S, c.second)
  BY DEF Restore_!Newer
<1> QED BY <1>1, <1>2, RestoreCount, RecordsAssumption DEF Restore_!Pruned

(* The newest copies stay: where enough are newer than a second, enough of  *)
(* those that are kept are.                                                 *)
LEMMA PruneKeeps ==
  ASSUME NEW S, IsFiniteSet(S), NEW n \in Nat, \A c \in S : c.second \in 0..n,
         \A c, d \in S : c.second = d.second => c = d, NEW k \in Nat, Enough(S, k, n)
  PROVE  Enough(Restore_!Pruned(S), k, n)
<1> DEFINE Kept == Restore_!Pruned(S)
           All == Between(S, k, n)
           Fresher == Between(Kept, k, n)
<1>1. Kept \subseteq S
      /\ \A c \in S \ Kept : Cardinality(Restore_!Newer(S, c.second)) >= SAFETY_COPIES_KEPT
  BY PrunedAre
<1>2. Fresher \subseteq All /\ All \subseteq S
  BY <1>1 DEF Between
<1>3. IsFiniteSet(All) /\ IsFiniteSet(Fresher)
  BY <1>2, FS_Subset
<1>4. CASE All \subseteq Fresher
  <2>1. All = Fresher
    BY <1>2, <1>4
  <2> QED BY <2>1 DEF Enough
<1>5. CASE ~(All \subseteq Fresher)
  <2> DEFINE Gone == {c.second : c \in All \ Fresher}
  <2>1. Gone \in SUBSET Nat /\ Gone # {} /\ \A s \in Gone : s <= n
    BY <1>2, <1>5
  <2>2. PICK m \in Gone : \A s \in Gone : s <= m
    BY <2>1, GreatestIs
  <2>3. PICK d \in All \ Fresher : d.second = m
    BY <2>2
  <2>4. d \in S /\ d.second > k /\ d.second < n /\ d \notin Kept /\ d.second \in Nat
    BY <1>2, <2>3 DEF Between
  <2>5. Enough(S, d.second, n)
    <3>1. Cardinality(Restore_!Newer(S, d.second)) >= SAFETY_COPIES_KEPT
      BY <1>1, <2>4
    <3> HIDE DEF Kept, All, Fresher
    <3> QED BY <2>4, <3>1, NewerIsBetween
  <2>6. Between(S, d.second, n) \subseteq Fresher
    <3> SUFFICES ASSUME NEW e \in S, d.second < e.second, e.second < n PROVE e \in Fresher
      BY DEF Between
    <3>1. e \in All
      BY <2>4 DEF Between
    <3>2. e \notin Fresher => e.second \in Gone
      BY <3>1
    <3>3. e.second \in Nat /\ m \in Nat
      BY <2>1, <2>2
    <3>4. e.second \in Gone => e.second <= m
      BY <2>2
    <3> QED BY <2>3, <3>2, <3>3, <3>4
  <2>7. Cardinality(Between(S, d.second, n)) <= Cardinality(Fresher)
    BY <1>3, <2>6, FS_Subset
  <2>8. Cardinality(Fresher) \in Nat /\ Cardinality(Between(S, d.second, n)) \in Nat
    BY <1>3, <2>6, FS_CardinalityType, FS_Subset
  <2> HIDE DEF Fresher
  <2>9. Cardinality(Fresher) >= SAFETY_COPIES_KEPT - 1
    BY <2>5, <2>7, <2>8, RecordsAssumption DEF Enough
  <2> QED BY <2>9 DEF Enough, Fresher
<1> QED BY <1>4, <1>5

-----------------------------------------------------------------------------
(* The databases.                                                           *)

LEMMA DatabaseShapes ==
    /\ Restore_!Fresh \in Databases /\ Restore_!Foreign \in Databases
    /\ Restore_!Broken \in Databases
    /\ Restore_!Fresh.triggers /\ Restore_!Fresh.events = {} /\ ~Restore_!Fresh.orphan
    /\ Restore_!Fresh.users = {"root"} /\ Restore_!Fresh.files = {}
    /\ ~Restore_!Foreign.secret
    /\ LastEvent \in Nat \ {0}
<1>1. LastEvent \in Nat \ {0} /\ 1 \in 0..LastEvent
  BY RecordsAssumption DEF LastEvent
<1>2. /\ Restore_!Fresh \in Databases /\ Restore_!Broken \in Databases
      /\ Restore_!Foreign \in Databases
  BY <1>1 DEF Databases, DocumentRows, Restore_!Fresh, Restore_!Foreign, Restore_!Broken,
     Restore_!Root
<1> QED BY <1>1, <1>2 DEF Restore_!Fresh, Restore_!Foreign, Restore_!Root

LEMMA DatabaseChanges ==
  ASSUME NEW d \in Databases
  PROVE  /\ \A b \in BOOLEAN : /\ [d EXCEPT !.triggers = b] \in Databases
                               /\ [d EXCEPT !.triggers = b].triggers = b
                               /\ [d EXCEPT !.triggers = b].events = d.events
                               /\ [d EXCEPT !.triggers = b].files = d.files
         /\ [d EXCEPT !.secret = FALSE] \in Databases /\ ~[d EXCEPT !.secret = FALSE].secret
         /\ d.events \subseteq 0..LastEvent /\ d.files \subseteq DocumentRows
BY DEF Databases

(* The fixups of a start and of a restore.                                  *)
LEMMA DatabaseFixups ==
  ASSUME NEW d \in Databases, NEW e
  PROVE  /\ e = [d EXCEPT !.orphan = FALSE] =>
               /\ e \in Databases /\ ~e.orphan /\ e.triggers = d.triggers
               /\ e.events = d.events /\ e.files = d.files /\ e.users = d.users
         /\ e = [d EXCEPT !.users = @ \cup {"root"}] =>
               /\ e \in Databases /\ "root" \in e.users /\ e.triggers = d.triggers
               /\ e.events = d.events /\ e.files = d.files /\ e.orphan = d.orphan
BY DEF Databases

(* Each request has its own step and content.                               *)
LEMMA StepIsLocal ==
  ASSUME RestoreHolds, NEW r \in Restores, Restore_!Step(r)
  PROVE  /\ b_at' \in [Restores -> RestoreSteps] /\ b_src' \in [Restores -> Databases]
         /\ \A q \in Restores \ {r} : b_at'[q] = b_at[q] /\ b_src'[q] = b_src[q]
         /\ UNCHANGED <<b_now, b_up>>
<1> USE DEF Restore_!Goto, Restore_!Ends, Restore_!Drops
<1>0. /\ b_at \in [Restores -> RestoreSteps] /\ b_src \in [Restores -> Databases]
      /\ b_archives \subseteq Databases /\ b_db \in Databases /\ Restore_!Broken \in Databases
  BY DatabaseShapes DEF RestoreHolds, RestoreTypes
<1>1. UNCHANGED <<b_now, b_up>>
  BY DEF Restore_!Step, Restore_!Snapshot, Restore_!Scrub, Restore_!Encode, Restore_!Stream,
     Restore_!Upload, Restore_!Validate, Restore_!SafetyCopy, Restore_!Begin,
     Restore_!CopyTables,
     Restore_!Commit, Restore_!Orphans, Restore_!CreateSuperuser, Restore_!Cut
<1>2. \E step \in RestoreSteps : b_at' = [b_at EXCEPT ![r] = step]
  <2>1. CASE Restore_!Snapshot(r) \/ Restore_!Upload(r)
    <3>1. b_at[r] = "idle" /\ "idle" \in RestoreSteps
      BY <2>1 DEF Restore_!Snapshot, Restore_!Upload, RestoreSteps
    <3>2. b_at = [b_at EXCEPT ![r] = "idle"]
      BY <1>0, <3>1
    <3> QED BY <2>1, <3>1, <3>2 DEF Restore_!Snapshot, Restore_!Upload, RestoreSteps
  <2>2. CASE ~(Restore_!Snapshot(r) \/ Restore_!Upload(r))
    BY <2>2 DEF Restore_!Step, Restore_!Scrub, Restore_!Encode, Restore_!Stream,
       Restore_!Validate, Restore_!SafetyCopy, Restore_!Begin, Restore_!CopyTables,
       Restore_!Commit, Restore_!Orphans, Restore_!CreateSuperuser, Restore_!Cut, RestoreSteps
  <2> QED BY <2>1, <2>2
<1>3. b_src' = b_src \/ \E d \in Databases : b_src' = [b_src EXCEPT ![r] = d]
  <2>1. CASE Restore_!Scrub(r)
    <3>1. [b_src[r] EXCEPT !.secret = FALSE] \in Databases
      BY <1>0, DatabaseChanges
    <3>2. b_src' = [b_src EXCEPT ![r] = [b_src[r] EXCEPT !.secret = FALSE]]
      BY <2>1 DEF Restore_!Scrub
    <3> QED BY <1>0, <3>1, <3>2
  <2>2. CASE Restore_!Snapshot(r) \/ Restore_!Upload(r)
    BY <1>0, <2>2 DEF Restore_!Snapshot, Restore_!Upload
  <2>3. CASE Restore_!Encode(r) \/ Restore_!Stream(r) \/ Restore_!Validate(r)
              \/ Restore_!CreateSuperuser(r) \/ Restore_!Cut(r)
    BY <1>0, <2>3 DEF Restore_!Encode, Restore_!Stream, Restore_!Validate,
       Restore_!CreateSuperuser, Restore_!Cut
  <2>4. CASE Restore_!SafetyCopy(r) \/ Restore_!Begin(r) \/ Restore_!CopyTables(r)
              \/ Restore_!Commit(r) \/ Restore_!Orphans(r)
    BY <1>0, <2>4 DEF Restore_!SafetyCopy, Restore_!Begin, Restore_!CopyTables, Restore_!Commit,
       Restore_!Orphans
  <2> QED BY <2>1, <2>2, <2>3, <2>4 DEF Restore_!Step
<1> QED BY <1>0, <1>1, <1>2, <1>3

(* The copy of the tables is the archive, since the triggers are gone.      *)
LEMMA TablesAreTheArchive ==
  ASSUME RestoreHolds, NEW r \in Restores, Restore_!CopyTables(r)
  PROVE  /\ b_at' = [b_at EXCEPT ![r] = "commit"]
         /\ b_tx' = [b_src[r] EXCEPT !.triggers = TRUE]
         /\ UNCHANGED <<b_lock, b_src, b_scratch, b_copy, b_late>>
<1>1. b_src[r] \in Databases /\ ~b_tx.triggers
  BY DEF Restore_!CopyTables, RestoreHolds, RestoreTypes, LockAgrees
<1>2. ASSUME b_tx' = [b_src[r] EXCEPT !.events = IF b_tx.triggers THEN @ \cup {b_seq + 1} ELSE @,
                                      !.triggers = TRUE]
      PROVE  b_tx' = [b_src[r] EXCEPT !.triggers = TRUE]
  BY <1>1, <1>2 DEF Databases
<1> QED BY <1>2 DEF Restore_!CopyTables, Restore_!Goto

LEMMA LockAgreesStep ==
  ASSUME RestoreHolds, Restore_!Next
  PROVE  LockAgrees' /\ b_tx' \in Databases
<1> USE DEF Restore_!Goto, Restore_!Ends, Restore_!Drops, Restore_!Restoring,
        Restore_!None
<1>0. /\ b_at \in [Restores -> RestoreSteps] /\ b_src \in [Restores -> Databases]
      /\ b_tx \in Databases /\ LockAgrees /\ "none" \notin Restores
  BY RecordsAssumption DEF RestoreHolds, RestoreTypes
<1>1. ASSUME NEW r \in Restores, Restore_!Step(r), UNCHANGED <<b_lock, b_tx>>,
             b_at[r] \notin {"tables", "commit"}, b_at'[r] \notin {"tables", "commit"}
      PROVE  LockAgrees' /\ b_tx' \in Databases
  BY <1>0, <1>1, StepIsLocal DEF LockAgrees
<1>2. ASSUME NEW r \in Restores, Restore_!Step(r), b_lock' = "none",
             b_at[r] \in {"tables", "commit"},
             b_at'[r] \notin {"tables", "commit"}, b_tx' = Restore_!Fresh
      PROVE  LockAgrees' /\ b_tx' \in Databases
  BY <1>0, <1>2, StepIsLocal, DatabaseShapes DEF LockAgrees
<1>3. ASSUME NEW r \in Restores, Restore_!Snapshot(r) \/ Restore_!Scrub(r) \/ Restore_!Encode(r)
             \/ Restore_!Stream(r) \/ Restore_!Upload(r) \/ Restore_!Validate(r)
             \/ Restore_!SafetyCopy(r) \/ Restore_!Orphans(r) \/ Restore_!CreateSuperuser(r)
      PROVE  LockAgrees' /\ b_tx' \in Databases
  <2>1. UNCHANGED <<b_lock, b_tx>> /\ b_at[r] \notin {"tables", "commit"} /\ Restore_!Step(r)
    BY <1>3 DEF Restore_!Snapshot, Restore_!Scrub, Restore_!Encode, Restore_!Stream,
       Restore_!Upload, Restore_!Validate, Restore_!SafetyCopy, Restore_!Orphans,
       Restore_!CreateSuperuser, Restore_!Step
  <2>2. b_at'[r] \notin {"tables", "commit"}
    BY <1>0, <1>3 DEF Restore_!Snapshot, Restore_!Scrub, Restore_!Encode, Restore_!Stream,
       Restore_!Upload, Restore_!Validate, Restore_!SafetyCopy, Restore_!Orphans,
       Restore_!CreateSuperuser, RestoreSteps
  <2> QED BY <1>1, <2>1, <2>2
<1>4. ASSUME NEW r \in Restores, Restore_!Begin(r) PROVE LockAgrees' /\ b_tx' \in Databases
  <2>1. Restore_!Step(r) /\ b_at[r] = "begin"
    BY <1>4 DEF Restore_!Step, Restore_!Begin
  <2>2. CASE UNCHANGED <<b_lock, b_tx>> /\ b_at' = [b_at EXCEPT ![r] = "idle"]
    BY <1>0, <1>1, <2>1, <2>2
  <2>3. CASE /\ b_lock = "none" /\ b_lock' = r /\ b_tx' = [b_db EXCEPT !.triggers = FALSE]
             /\ b_at' = [b_at EXCEPT ![r] = "tables"]
    <3>1. b_tx' \in Databases /\ ~b_tx'.triggers
      BY <2>3, DatabaseChanges DEF RestoreHolds, RestoreTypes
    <3>2. \A q \in Restores : b_at'[q] = IF q = r THEN "tables" ELSE b_at[q]
      BY <1>0, <2>3
    <3>3. \A q \in Restores : q # r => b_at[q] \notin {"tables", "commit"}
      BY <1>0, <2>3 DEF LockAgrees
    <3> QED BY <1>0, <2>3, <3>1, <3>2, <3>3 DEF LockAgrees
  <2> QED BY <1>4, <2>2, <2>3 DEF Restore_!Begin
<1>5. ASSUME NEW r \in Restores, Restore_!CopyTables(r) PROVE LockAgrees' /\ b_tx' \in Databases
  <2>1. Restore_!Step(r) /\ b_at[r] = "tables"
    BY <1>5 DEF Restore_!Step, Restore_!CopyTables
  <2>3. CASE /\ b_at' = [b_at EXCEPT ![r] = "commit"]
             /\ b_tx' = [b_src[r] EXCEPT !.triggers = TRUE] /\ UNCHANGED <<b_lock, b_src>>
    <3>1. b_tx' \in Databases
      BY <1>0, <2>3, DatabaseChanges
    <3>2. \A q \in Restores : b_at'[q] = IF q = r THEN "commit" ELSE b_at[q]
      BY <1>0, <2>3
    <3>3. b_lock = r /\ \A q \in Restores : q # r => b_at[q] \notin {"tables", "commit"}
      BY <1>0, <2>1 DEF LockAgrees
    <3> QED BY <1>0, <2>3, <3>1, <3>2, <3>3 DEF LockAgrees
  <2> QED BY <1>5, <2>3, TablesAreTheArchive
<1>6. ASSUME NEW r \in Restores, Restore_!Commit(r) PROVE LockAgrees' /\ b_tx' \in Databases
  <2>1. /\ Restore_!Step(r) /\ b_at[r] = "commit" /\ b_lock' = "none" /\ b_tx' = Restore_!Fresh
        /\ b_at' = [b_at EXCEPT ![r] = "orphans"]
    BY <1>6 DEF Restore_!Step, Restore_!Commit
  <2> QED BY <1>0, <1>2, <2>1
<1>7. ASSUME Restore_!Tick \/ Restore_!Edit \/ Restore_!Boot \/ Restore_!Booted
      PROVE  LockAgrees' /\ b_tx' \in Databases
  <2>1. UNCHANGED <<b_lock, b_tx, b_at, b_src>>
    BY <1>7 DEF Restore_!Tick, Restore_!Edit, Restore_!Boot, Restore_!Booted, Restore_!work
  <2> QED BY <1>0, <2>1 DEF LockAgrees
<1>8. CASE Restore_!Kill
  BY <1>0, <1>8, DatabaseShapes DEF Restore_!Kill, LockAgrees
<1>9. ASSUME NEW r \in Restores, Restore_!Cut(r) PROVE LockAgrees' /\ b_tx' \in Databases
  <2>1. Restore_!Step(r) /\ b_at' = [b_at EXCEPT ![r] = "idle"]
    BY <1>9 DEF Restore_!Step, Restore_!Cut
  <2>2. b_at'[r] = "idle"
    BY <1>0, <2>1
  <2>3. CASE b_lock = r
    BY <1>0, <1>2, <1>9, <2>1, <2>2, <2>3 DEF Restore_!Cut, LockAgrees
  <2>4. CASE b_lock # r
    BY <1>0, <1>1, <1>9, <2>1, <2>2, <2>4 DEF Restore_!Cut, LockAgrees
  <2> QED BY <2>3, <2>4
<1> QED BY <1>3, <1>4, <1>5, <1>6, <1>7, <1>8, <1>9 DEF Restore_!Next, Restore_!Step

LEMMA DatabaseStep ==
  ASSUME RestoreHolds, Restore_!Next
  PROVE  b_db' \in Databases /\ b_db'.triggers /\ b_seq' \in 0..LastEvent
         /\ b_db'.events \subseteq 0..b_seq'
<1>0. /\ b_db \in Databases /\ b_db.triggers /\ b_seq \in 0..LastEvent
      /\ b_db.events \subseteq 0..b_seq /\ b_tx \in Databases
         /\ b_src \in [Restores -> Databases]
      /\ LockAgrees
  BY DEF RestoreHolds, RestoreTypes
<1>1. ASSUME UNCHANGED <<b_db, b_seq>>
      PROVE  b_db' \in Databases /\ b_db'.triggers /\ b_seq' \in 0..LastEvent
             /\ b_db'.events \subseteq 0..b_seq'
  BY <1>0, <1>1
<1>2. CASE Restore_!Edit
  <2>1. PICK f \in Documents :
           b_db' = [b_db EXCEPT !.files = @ \cup {f},
                                !.events = IF b_db.triggers THEN @ \cup {b_seq + 1} ELSE @]
    BY <1>2 DEF Restore_!Edit
  <2>2. b_seq' = b_seq + 1 /\ b_seq < MaxEvents
    BY <1>0, <1>2 DEF Restore_!Edit
  <2>3. /\ b_seq' \in 0..LastEvent /\ 0..b_seq \subseteq 0..b_seq'
        /\ 0..b_seq' \subseteq 0..LastEvent
    BY <1>0, <2>2, RecordsAssumption DEF LastEvent
  <2>4. b_db.events \cup {b_seq + 1} \subseteq 0..b_seq'
    BY <1>0, <2>2, <2>3
  <2>5. b_db.events \cup {b_seq + 1} \subseteq 0..LastEvent
    BY <1>0, <2>3, <2>4
  <2>6. b_db' = [b_db EXCEPT !.files = b_db.files \cup {f},
        !.events = b_db.events \cup {b_seq + 1}]
    BY <1>0, <2>1
  <2>7. b_db' \in Databases /\ b_db'.triggers /\ b_db'.events = b_db.events \cup {b_seq + 1}
    BY <1>0, <2>5, <2>6 DEF Databases, DocumentRows
  <2> QED BY <2>3, <2>4, <2>7
<1>3. ASSUME NEW r \in Restores, Restore_!Commit(r)
      PROVE  b_db' \in Databases /\ b_db'.triggers /\ b_seq' \in 0..LastEvent
             /\ b_db'.events \subseteq 0..b_seq'
  <2> DEFINE S == {b_seq} \cup b_tx.events
  <2>1. b_db' = b_tx /\ b_seq' = Restore_!MaxOf(S) /\ b_tx = [b_src[r] EXCEPT !.triggers = TRUE]
    BY <1>0, <1>3 DEF Restore_!Commit, LockAgrees
  <2>2. b_tx.triggers
    BY <1>0, <2>1, DatabaseChanges
  <2>3. S \subseteq 0..LastEvent /\ S # {} /\ LastEvent \in Nat
    BY <1>0, DatabaseChanges, DatabaseShapes
  <2> HIDE DEF S
  <2>4. S \in SUBSET Nat /\ \A s \in S : s <= LastEvent
    BY <2>3
  <2>5. PICK m \in S : \A s \in S : s <= m
    BY <2>3, <2>4, GreatestIs
  <2>6. b_seq' \in S /\ \A s \in S : s <= b_seq'
    BY <2>1, <2>5 DEF Restore_!MaxOf
  <2>7. b_tx.events \subseteq S
    BY DEF S
  <2>8. \A s \in b_tx.events : s \in 0..b_seq'
    <3>1. b_seq' \in Nat
      BY <2>4, <2>6
    <3>2. \A s \in b_tx.events : s \in Nat /\ s <= b_seq'
      BY <2>4, <2>6, <2>7
    <3> QED BY <3>1, <3>2
  <2> QED BY <1>0, <2>1, <2>2, <2>3, <2>6, <2>8
<1>4. ASSUME NEW r \in Restores, Restore_!Orphans(r) \/ Restore_!CreateSuperuser(r)
      PROVE  b_db' \in Databases /\ b_db'.triggers /\ b_seq' \in 0..LastEvent
             /\ b_db'.events \subseteq 0..b_seq'
  <2>1. b_seq' = b_seq /\ \/ b_db' = b_db
                          \/ b_db' = [b_db EXCEPT !.orphan = FALSE]
                          \/ b_db' = [b_db EXCEPT !.users = @ \cup {"root"}]
    BY <1>4 DEF Restore_!Orphans, Restore_!Swept, Restore_!CreateSuperuser, Restore_!Root
  <2> QED BY <1>0, <2>1, DatabaseFixups
<1>5. CASE Restore_!Boot \/ Restore_!Booted
  <2>1. b_seq' = b_seq /\ \/ b_db' = b_db
                          \/ b_db' = [b_db EXCEPT !.orphan = FALSE]
                          \/ b_db' = [b_db EXCEPT !.users = @ \cup {"root"}]
    BY <1>5 DEF Restore_!Boot, Restore_!Swept, Restore_!Booted, Restore_!Root
  <2> QED BY <1>0, <2>1, DatabaseFixups
<1>6. ASSUME NEW r \in Restores, Restore_!Snapshot(r) \/ Restore_!Scrub(r) \/ Restore_!Encode(r)
             \/ Restore_!Stream(r) \/ Restore_!Upload(r) \/ Restore_!Validate(r)
             \/ Restore_!SafetyCopy(r) \/ Restore_!Begin(r) \/ Restore_!CopyTables(r)
             \/ Restore_!Cut(r)
      PROVE  UNCHANGED <<b_db, b_seq>>
  BY <1>6 DEF Restore_!Snapshot, Restore_!Scrub, Restore_!Encode, Restore_!Stream,
     Restore_!Upload, Restore_!Validate, Restore_!SafetyCopy, Restore_!Begin,
     Restore_!CopyTables, Restore_!Cut
<1>7. CASE Restore_!Tick \/ Restore_!Kill
  BY <1>1, <1>7 DEF Restore_!Tick, Restore_!Kill
<1> QED BY <1>1, <1>2, <1>3, <1>4, <1>5, <1>6, <1>7 DEF Restore_!Next, Restore_!Step

LEMMA RestoreTypesStep ==
  ASSUME RestoreHolds, Restore_!Next
  PROVE  RestoreTypes'
<1> USE DEF Restore_!Goto, Restore_!Ends, Restore_!Drops
<1>0. /\ RestoreTypes /\ b_at \in [Restores -> RestoreSteps]
         /\ b_src \in [Restores -> Databases]
      /\ b_copy \in [Restores -> Int] /\ b_late \in [Restores -> SUBSET DocumentRows]
      /\ b_now \in Nat /\ b_db \in Databases /\ b_db.files \subseteq DocumentRows
      /\ b_tx \in Databases /\ b_tx.files \subseteq DocumentRows
  BY DatabaseChanges DEF RestoreHolds, RestoreTypes
<1>1. b_at' \in [Restores -> RestoreSteps] /\ b_src' \in [Restores -> Databases]
  <2>1. CASE Restore_!Tick \/ Restore_!Edit \/ Restore_!Boot \/ Restore_!Booted
    BY <1>0, <2>1 DEF Restore_!Tick, Restore_!Edit, Restore_!Boot, Restore_!Booted,
       Restore_!work
  <2>2. CASE Restore_!Kill
    BY <2>2, DatabaseShapes DEF Restore_!Kill, RestoreSteps
  <2> QED BY <2>1, <2>2, StepIsLocal DEF Restore_!Next
<1>2. b_now' \in Nat /\ b_up' \in {"up", "booting", "down"}
  <2>1. CASE Restore_!Tick
    BY <1>0, <2>1 DEF Restore_!Tick, RestoreTypes
  <2>2. CASE Restore_!Edit \/ Restore_!Boot \/ Restore_!Booted \/ Restore_!Kill
    BY <1>0, <2>2 DEF Restore_!Edit, Restore_!Boot, Restore_!Booted, Restore_!Kill, RestoreTypes
  <2>3. ASSUME NEW r \in Restores, Restore_!Step(r) PROVE UNCHANGED <<b_now, b_up>>
    BY <2>3, StepIsLocal
  <2> QED BY <1>0, <2>1, <2>2, <2>3 DEF Restore_!Next, RestoreTypes
<1>3. b_archives' \subseteq Databases
  <2>1. ASSUME NEW r \in Restores, Restore_!Stream(r) PROVE b_archives' \subseteq Databases
    BY <1>0, <2>1 DEF Restore_!Stream, RestoreTypes
  <2>2. ASSUME NEW r \in Restores, Restore_!Step(r), ~Restore_!Stream(r)
        PROVE UNCHANGED b_archives
    BY <2>2 DEF Restore_!Step, Restore_!Snapshot, Restore_!Scrub, Restore_!Encode,
       Restore_!Upload, Restore_!Validate, Restore_!SafetyCopy, Restore_!Begin,
       Restore_!CopyTables, Restore_!Commit, Restore_!Orphans, Restore_!CreateSuperuser, Restore_!Cut
  <2>3. CASE Restore_!Tick \/ Restore_!Edit \/ Restore_!Boot \/ Restore_!Booted \/ Restore_!Kill
    BY <1>0, <2>3 DEF Restore_!Tick, Restore_!Edit, Restore_!Boot, Restore_!Booted,
       Restore_!Kill,
       RestoreTypes
  <2> QED BY <1>0, <2>1, <2>2, <2>3 DEF Restore_!Next, RestoreTypes
<1>4. b_safety' \subseteq [second : Nat, files : SUBSET DocumentRows]
  <2>1. ASSUME NEW r \in Restores, Restore_!SafetyCopy(r) \/ Restore_!Cut(r)
        PROVE  b_safety' \subseteq [second : Nat, files : SUBSET DocumentRows]
    <3>1. b_safety' \subseteq b_safety \cup {[second |-> b_now, files |-> b_db.files]}
      BY <2>1 DEF Restore_!SafetyCopy, Restore_!Cut, Restore_!Pruned, Restore_!Earlier,
         Restore_!NewCopy
    <3> QED BY <1>0, <3>1 DEF RestoreTypes
  <2>2. ASSUME NEW r \in Restores, Restore_!Step(r), ~Restore_!SafetyCopy(r), ~Restore_!Cut(r)
        PROVE  UNCHANGED b_safety
    BY <2>2 DEF Restore_!Step, Restore_!Snapshot, Restore_!Scrub, Restore_!Encode,
       Restore_!Stream, Restore_!Upload, Restore_!Validate, Restore_!Begin,
       Restore_!CopyTables, Restore_!Commit, Restore_!Orphans, Restore_!CreateSuperuser, Restore_!Cut
  <2>3. CASE Restore_!Tick \/ Restore_!Edit \/ Restore_!Boot \/ Restore_!Booted \/ Restore_!Kill
    BY <1>0, <2>3 DEF Restore_!Tick, Restore_!Edit, Restore_!Boot, Restore_!Booted,
       Restore_!Kill,
       RestoreTypes
  <2> QED BY <1>0, <2>1, <2>2, <2>3 DEF Restore_!Next, RestoreTypes
<1>5. b_copy' \in [Restores -> Int]
  <2>1. ASSUME NEW r \in Restores, Restore_!Step(r) PROVE b_copy' \in [Restores -> Int]
    <3>0. Restore_!Disowned \in [Restores -> Int]
      BY <1>0 DEF Restore_!Disowned
    <3>1. b_copy' \in {b_copy, [b_copy EXCEPT ![r] = -1], Restore_!Disowned,
                      [Restore_!Disowned EXCEPT ![r] = b_now],
                      [Restore_!Disowned EXCEPT ![r] = -1]}
      BY <2>1 DEF Restore_!Step, Restore_!Snapshot, Restore_!Scrub, Restore_!Encode,
         Restore_!Stream, Restore_!Upload, Restore_!Validate, Restore_!SafetyCopy,
         Restore_!Begin,
         Restore_!CopyTables, Restore_!Commit, Restore_!Orphans, Restore_!CreateSuperuser, Restore_!Cut
    <3> QED BY <1>0, <3>0, <3>1
  <2>2. CASE Restore_!Tick \/ Restore_!Edit \/ Restore_!Boot \/ Restore_!Booted
    BY <1>0, <2>2 DEF Restore_!Tick, Restore_!Edit, Restore_!Boot, Restore_!Booted,
       Restore_!work
  <2>3. CASE Restore_!Kill
    BY <2>3 DEF Restore_!Kill
  <2> QED BY <2>1, <2>2, <2>3 DEF Restore_!Next
<1>6. b_late' \in [Restores -> SUBSET DocumentRows]
  <2>0. ASSUME NEW S \in SUBSET DocumentRows
        PROVE Restore_!Later(S) \in [Restores -> SUBSET DocumentRows]
    BY <1>0 DEF Restore_!Later
  <2>1. ASSUME NEW r \in Restores, Restore_!Step(r)
        PROVE b_late' \in [Restores -> SUBSET DocumentRows]
    <3>1. b_late' \in {b_late, [b_late EXCEPT ![r] = {}],
                      [Restore_!Later(b_tx.files) EXCEPT ![r] = {}]}
      BY <2>1 DEF Restore_!Step, Restore_!Snapshot, Restore_!Scrub, Restore_!Encode,
         Restore_!Stream, Restore_!Upload, Restore_!Validate, Restore_!SafetyCopy,
         Restore_!Begin,
         Restore_!CopyTables, Restore_!Commit, Restore_!Orphans, Restore_!CreateSuperuser, Restore_!Cut
    <3>2. Restore_!Later(b_tx.files) \in [Restores -> SUBSET DocumentRows]
      BY <1>0, <2>0
    <3> QED BY <1>0, <3>1, <3>2
  <2>2. CASE Restore_!Edit
    <3>1. PICK f \in Documents : b_late' = Restore_!Later({f})
      BY <2>2 DEF Restore_!Edit
    <3>2. {f} \in SUBSET DocumentRows
      BY DEF DocumentRows
    <3> QED BY <2>0, <3>1, <3>2
  <2>3. CASE Restore_!Tick \/ Restore_!Boot \/ Restore_!Booted \/ Restore_!Kill
    BY <1>0, <2>3 DEF Restore_!Tick, Restore_!Boot, Restore_!Booted, Restore_!Kill,
       Restore_!work
  <2> QED BY <2>1, <2>2, <2>3 DEF Restore_!Next
<1>7. \A w \in b_scratch' : w[1] \in Restores \/ w = Restore_!Stray
  <2>1. ASSUME NEW r \in Restores, Restore_!Step(r)
        PROVE \A w \in b_scratch' : w[1] \in Restores \/ w = Restore_!Stray
    <3>1. \A w \in b_scratch' : w \in b_scratch \/ w[1] = r \/ w = Restore_!Stray
      BY <2>1 DEF Restore_!Step, Restore_!Snapshot, Restore_!Scrub, Restore_!Encode,
         Restore_!Stream, Restore_!Upload, Restore_!Validate, Restore_!SafetyCopy,
         Restore_!Begin,
         Restore_!CopyTables, Restore_!Commit, Restore_!Orphans, Restore_!CreateSuperuser, Restore_!Cut,
         Restore_!Own
    <3> QED BY <1>0, <3>1 DEF RestoreTypes
  <2>2. CASE Restore_!Tick \/ Restore_!Edit \/ Restore_!Boot \/ Restore_!Booted \/ Restore_!Kill
    BY <1>0, <2>2 DEF Restore_!Tick, Restore_!Edit, Restore_!Boot, Restore_!Booted,
       Restore_!Kill,
       RestoreTypes
  <2> QED BY <2>1, <2>2 DEF Restore_!Next
<1>8. b_tx' \in Databases
  BY LockAgreesStep
<1> QED BY <1>1, <1>2, <1>3, <1>4, <1>5, <1>6, <1>7, <1>8, DatabaseStep DEF RestoreTypes

-----------------------------------------------------------------------------
(* Starts, fixups, secrets and working files.                               *)

LEMMA DownIsIdleStep ==
  ASSUME RestoreHolds, Restore_!Next
  PROVE  DownIsIdle'
<1>0. DownIsIdle /\ b_at \in [Restores -> RestoreSteps]
  BY DEF RestoreHolds, RestoreTypes
<1>1. ASSUME NEW r \in Restores, Restore_!Step(r) PROVE DownIsIdle'
  <2>1. b_up = "up"
    <3>1. b_at[r] # "idle" \/ b_up = "up"
      BY <1>1 DEF Restore_!Step, Restore_!Snapshot, Restore_!Scrub, Restore_!Encode,
         Restore_!Stream, Restore_!Upload, Restore_!Validate, Restore_!SafetyCopy,
         Restore_!Begin,
         Restore_!CopyTables, Restore_!Commit, Restore_!Orphans, Restore_!CreateSuperuser, Restore_!Cut
    <3> QED BY <1>0, <3>1 DEF DownIsIdle
  <2> QED BY <1>1, <2>1, StepIsLocal DEF DownIsIdle
<1>2. CASE Restore_!Tick \/ Restore_!Edit
  BY <1>0, <1>2 DEF Restore_!Tick, Restore_!Edit, Restore_!work, DownIsIdle
<1>3. CASE Restore_!Boot \/ Restore_!Booted
  BY <1>0, <1>3 DEF Restore_!Boot, Restore_!Booted, Restore_!work, DownIsIdle
<1>4. CASE Restore_!Kill
  BY <1>4 DEF Restore_!Kill, DownIsIdle
<1> QED BY <1>1, <1>2, <1>3, <1>4 DEF Restore_!Next

LEMMA FixupsComeStep ==
  ASSUME RestoreHolds, Restore_!Next
  PROVE  FixupsCome'
<1> USE DEF Restore_!Goto, Restore_!Ends, Restore_!Drops
<1>0. FixupsCome /\ DownIsIdle /\ b_at \in [Restores -> RestoreSteps] /\ b_db \in Databases
  BY DEF RestoreHolds, RestoreTypes
<1>1. ASSUME NEW r \in Restores, Restore_!Step(r), UNCHANGED b_db,
             b_at[r] \notin {"orphans", "superuser"}, UNCHANGED b_missed
      PROVE  FixupsCome'
  BY <1>0, <1>1, StepIsLocal DEF FixupsCome
<1>2. ASSUME NEW r \in Restores, Restore_!Snapshot(r) \/ Restore_!Scrub(r) \/ Restore_!Encode(r)
             \/ Restore_!Stream(r) \/ Restore_!Upload(r) \/ Restore_!Validate(r)
             \/ Restore_!SafetyCopy(r) \/ Restore_!Begin(r) \/ Restore_!CopyTables(r)
      PROVE  FixupsCome'
  <2>1. /\ Restore_!Step(r) /\ UNCHANGED <<b_db, b_missed>>
        /\ b_at[r] \notin {"orphans", "superuser"}
    BY <1>2 DEF Restore_!Snapshot, Restore_!Scrub, Restore_!Encode, Restore_!Stream,
       Restore_!Upload, Restore_!Validate, Restore_!SafetyCopy, Restore_!Begin,
       Restore_!CopyTables, Restore_!Step
  <2> QED BY <1>1, <2>1
<1>3. ASSUME NEW r \in Restores, Restore_!Commit(r) PROVE FixupsCome'
  <2>1. b_at'[r] = "orphans"
    BY <1>0, <1>3 DEF Restore_!Commit
  <2> QED BY <2>1 DEF FixupsCome
<1>4. ASSUME NEW r \in Restores, Restore_!Orphans(r) PROVE FixupsCome'
  <2>1. b_at'[r] = "superuser" /\ (~b_db'.orphan \/ "orphans" \in b_missed')
    BY <1>0, <1>4, DatabaseFixups DEF Restore_!Orphans, Restore_!Swept
  <2> QED BY <2>1 DEF FixupsCome
<1>5. ASSUME NEW r \in Restores, Restore_!CreateSuperuser(r) PROVE FixupsCome'
  <2>1. "root" \in b_db'.users /\ b_db'.orphan = b_db.orphan
    BY <1>0, <1>5, DatabaseFixups DEF Restore_!CreateSuperuser, Restore_!Root
  <2>2. /\ b_at[r] = "superuser" /\ b_up' = b_up /\ b_missed' = b_missed \ {"superuser"}
        /\ \A q \in Restores : q # r => b_at'[q] = b_at[q]
    BY <1>0, <1>5 DEF Restore_!CreateSuperuser
  <2> QED BY <1>0, <2>1, <2>2 DEF FixupsCome
<1>6. CASE Restore_!Tick \/ Restore_!Edit
  <2>1. /\ b_db'.orphan = b_db.orphan /\ b_db'.users = b_db.users
        /\ UNCHANGED <<b_up, b_at, b_missed>>
    BY <1>0, <1>6 DEF Restore_!Tick, Restore_!Edit, Restore_!work, Databases
  <2> QED BY <1>0, <2>1 DEF FixupsCome
<1>7. CASE Restore_!Boot
  <2>1. (~b_db'.orphan \/ "orphans" \in b_missed') /\ b_up' = "booting"
    BY <1>0, <1>7, DatabaseFixups DEF Restore_!Boot, Restore_!Swept
  <2> QED BY <2>1 DEF FixupsCome
<1>8. CASE Restore_!Booted
  <2>1. /\ b_up = "booting" /\ \A r \in Restores : b_at[r] = "idle"
        /\ "root" \in b_db'.users /\ b_db'.orphan = b_db.orphan
        /\ b_missed' = b_missed \ {"superuser"}
    BY <1>0, <1>8, DatabaseFixups DEF Restore_!Booted, Restore_!Root, DownIsIdle
  <2>2. ~b_db.orphan \/ "orphans" \in b_missed
    BY <1>0, <2>1 DEF FixupsCome
  <2> QED BY <2>1, <2>2 DEF FixupsCome
<1>9. CASE Restore_!Kill
  BY <1>9 DEF Restore_!Kill, FixupsCome
<1>10. ASSUME NEW r \in Restores, Restore_!Cut(r) PROVE FixupsCome'
  <2>1. /\ UNCHANGED <<b_db, b_up>> /\ b_missed' = b_missed \cup Restore_!Missing(r)
        /\ \A q \in Restores : q # r => b_at'[q] = b_at[q]
    BY <1>0, <1>10 DEF Restore_!Cut
  <2>2. /\ b_at[r] = "orphans" => Restore_!Missing(r) = {"orphans", "superuser"}
        /\ b_at[r] = "superuser" => Restore_!Missing(r) = {"superuser"}
    BY DEF Restore_!Missing
  <2> QED BY <1>0, <2>1, <2>2 DEF FixupsCome
<1> QED BY <1>2, <1>3, <1>4, <1>5, <1>6, <1>7, <1>8, <1>9, <1>10 DEF Restore_!Next, Restore_!Step

LEMMA SecretsStayStep ==
  ASSUME RestoreHolds, Restore_!Next
  PROVE  SecretsStay'
<1> USE DEF Restore_!Goto, Restore_!Ends, Restore_!Drops
<1>0. /\ SecretsStay /\ b_at \in [Restores -> RestoreSteps] /\ b_src \in [Restores -> Databases]
      /\ \A a \in b_archives \ {Restore_!Broken} : ~a.secret
      /\ \A r \in Restores : b_at[r] \in {"encode", "stream"} => ~b_src[r].secret
  BY DEF RestoreHolds, RestoreTypes, SecretsStay, Restore_!NoSecretLeaves
<1>1. ASSUME UNCHANGED b_archives, NEW r \in Restores, Restore_!Step(r),
             b_at'[r] \in {"encode", "stream"} => ~b_src'[r].secret
      PROVE  SecretsStay'
  BY <1>0, <1>1, StepIsLocal DEF SecretsStay, Restore_!NoSecretLeaves
<1>2. ASSUME NEW r \in Restores, Restore_!Snapshot(r) \/ Restore_!Upload(r)
             \/ Restore_!Validate(r) \/ Restore_!SafetyCopy(r) \/ Restore_!Begin(r)
             \/ Restore_!CopyTables(r) \/ Restore_!Commit(r) \/ Restore_!Orphans(r)
             \/ Restore_!CreateSuperuser(r) \/ Restore_!Cut(r)
      PROVE  SecretsStay'
  <2>1. Restore_!Step(r)
    BY <1>2 DEF Restore_!Step
  <2>2. UNCHANGED b_archives
    BY <1>2 DEF Restore_!Snapshot, Restore_!Upload, Restore_!Validate, Restore_!SafetyCopy,
       Restore_!Begin, Restore_!CopyTables, Restore_!Commit, Restore_!Orphans,
       Restore_!CreateSuperuser, Restore_!Cut
  <2>3. b_at'[r] \notin {"encode", "stream"}
    BY <1>0, <1>2 DEF Restore_!Snapshot, Restore_!Upload, Restore_!Validate,
       Restore_!SafetyCopy, Restore_!Begin, Restore_!CopyTables, Restore_!Commit,
       Restore_!Orphans, Restore_!CreateSuperuser, Restore_!Cut
  <2> QED BY <1>1, <2>1, <2>2, <2>3
<1>3. ASSUME NEW r \in Restores, Restore_!Scrub(r) PROVE SecretsStay'
  <2>1. Restore_!Step(r) /\ UNCHANGED b_archives
    BY <1>3 DEF Restore_!Scrub, Restore_!Step
  <2>2. b_src' = [b_src EXCEPT ![r] = [b_src[r] EXCEPT !.secret = FALSE]]
    BY <1>3 DEF Restore_!Scrub
  <2>3. ~[b_src[r] EXCEPT !.secret = FALSE].secret
    BY <1>0, DatabaseChanges
  <2>4. b_at'[r] \in {"encode", "stream"} => ~b_src'[r].secret
    BY <1>0, <2>2, <2>3
  <2> QED BY <1>1, <2>1, <2>4
<1>4. ASSUME NEW r \in Restores, Restore_!Encode(r) PROVE SecretsStay'
  <2>1. Restore_!Step(r) /\ UNCHANGED b_archives /\ b_at[r] = "encode"
    BY <1>4 DEF Restore_!Encode, Restore_!Step
  <2>2. UNCHANGED b_src
    BY <1>4 DEF Restore_!Encode
  <2> QED BY <1>0, <1>1, <2>1, <2>2
<1>5. ASSUME NEW r \in Restores, Restore_!Stream(r) PROVE SecretsStay'
  <2>1. /\ Restore_!Step(r) /\ b_at[r] = "stream" /\ b_at' = [b_at EXCEPT ![r] = "idle"]
        /\ b_archives' \subseteq b_archives \cup {b_src[r]}
    BY <1>5 DEF Restore_!Stream, Restore_!Step
  <2>2. \A a \in b_archives' \ {Restore_!Broken} : ~a.secret
    BY <1>0, <2>1
  <2>3. \A q \in Restores : b_at'[q] \in {"encode", "stream"} => ~b_src'[q].secret
    BY <1>0, <2>1, StepIsLocal
  <2>4. Restore_!Broken' = Restore_!Broken
    BY DEF Restore_!Broken, Restore_!Fresh, Restore_!Root
  <2> QED BY <2>2, <2>3, <2>4 DEF SecretsStay, Restore_!NoSecretLeaves
<1>6. CASE Restore_!Tick \/ Restore_!Edit \/ Restore_!Boot \/ Restore_!Booted
  BY <1>0, <1>6 DEF Restore_!Tick, Restore_!Edit, Restore_!Boot, Restore_!Booted, Restore_!work,
     SecretsStay, Restore_!NoSecretLeaves
<1>7. CASE Restore_!Kill
  BY <1>0, <1>7 DEF Restore_!Kill, SecretsStay, Restore_!NoSecretLeaves
<1> QED BY <1>2, <1>3, <1>4, <1>5, <1>6, <1>7 DEF Restore_!Next, Restore_!Step

LEMMA ScratchStep ==
  ASSUME RestoreHolds, Restore_!Next
  PROVE  Restore_!ScratchIsOwned'
<1> USE DEF Restore_!Goto, Restore_!Ends, Restore_!Drops,
        Restore_!Own
<1>0. /\ Restore_!ScratchIsOwned /\ DownIsIdle /\ b_at \in [Restores -> RestoreSteps]
      /\ \A w \in b_scratch : w[1] \in Restores \/ w = Restore_!Stray
      /\ b_up # "up" => \A r \in Restores : b_at[r] = "idle"
  BY DEF RestoreHolds, RestoreTypes, DownIsIdle
<1>1. ASSUME NEW r \in Restores, Restore_!Step(r) PROVE Restore_!ScratchIsOwned'
  <2>0. b_up = "up"
    BY <1>0, <1>1 DEF Restore_!Step, Restore_!Snapshot, Restore_!Scrub, Restore_!Encode,
         Restore_!Stream, Restore_!Upload, Restore_!Validate, Restore_!SafetyCopy,
         Restore_!Begin,
         Restore_!CopyTables, Restore_!Commit, Restore_!Orphans, Restore_!CreateSuperuser,
         Restore_!Cut
  <2>1. \/ b_at'[r] # "idle" /\ \A w \in b_scratch' : w \in b_scratch \/ w[1] = r
        \/ \A w \in b_scratch' : (w \in b_scratch /\ w[1] # r) \/ w = Restore_!Stray
    BY <1>0, <1>1 DEF Restore_!Step, Restore_!Snapshot, Restore_!Scrub, Restore_!Encode,
         Restore_!Stream, Restore_!Upload, Restore_!Validate, Restore_!SafetyCopy,
         Restore_!Begin,
         Restore_!CopyTables, Restore_!Commit, Restore_!Orphans, Restore_!CreateSuperuser, Restore_!Cut
  <2>2. Restore_!Stray' = Restore_!Stray
    BY DEF Restore_!Stray, Restore_!Own, Restore_!None
  <2> QED BY <1>0, <1>1, <2>0, <2>1, <2>2, StepIsLocal DEF Restore_!ScratchIsOwned
<1>2. CASE Restore_!Tick \/ Restore_!Edit \/ Restore_!Boot \/ Restore_!Booted \/ Restore_!Kill
  BY <1>0, <1>2 DEF Restore_!Tick, Restore_!Edit, Restore_!Boot, Restore_!Booted, Restore_!Kill,
     Restore_!work, Restore_!ScratchIsOwned, DownIsIdle
<1> QED BY <1>1, <1>2 DEF Restore_!Next

-----------------------------------------------------------------------------
(* The safety copies.                                                       *)

Replaced(S, c) == {d \in S : d.second # c.second} \cup {c}

(* What a new copy, and the pruning after it, leave of the others.          *)
LEMMA CopyIsKept ==
  ASSUME RestoreTypes, CopiesHold, NEW k \in Nat, k < b_now,
         NEW c, c = [second |-> b_now, files |-> b_db.files],
         (\E d \in b_safety : d.second = k) \/ Enough(b_safety, k, b_now)
  PROVE  LET Left == Restore_!Pruned(Replaced(b_safety, c))
         IN  (\E d \in Left : d.second = k) \/ Enough(Left, k, b_now)
<1> DEFINE S == Replaced(b_safety, c)
           Left == Restore_!Pruned(S)
<1> SUFFICES (\E d \in Left : d.second = k) \/ Enough(Left, k, b_now)
  OBVIOUS
<1>1. /\ IsFiniteSet(b_safety) /\ b_now \in Nat
      /\ \A d \in b_safety : d.second \in 0..b_now
      /\ \A d, e \in b_safety : d.second = e.second => d = e
      /\ c.second = b_now
  BY DEF RestoreTypes, CopiesHold
<1>2. IsFiniteSet(S) /\ \A d \in S : d.second \in 0..b_now
  <2>1. IsFiniteSet({d \in b_safety : d.second # c.second})
    BY <1>1, FS_Subset
  <2>2. IsFiniteSet({d \in b_safety : d.second # c.second} \cup {c})
    BY <2>1, FS_AddElement
  <2>3. \A d \in S : d \in b_safety \/ d = c
    BY DEF Replaced
  <2>4. b_now \in 0..b_now
    BY <1>1
  <2> QED BY <1>1, <2>2, <2>3, <2>4 DEF Replaced
<1>3. \A d, e \in S : d.second = e.second => d = e
  BY <1>1 DEF Replaced
<1>4. Between(S, k, b_now) = Between(b_safety, k, b_now)
  BY <1>1 DEF Between, Replaced
<1>5. Enough(S, k, b_now) => Enough(Left, k, b_now)
  <2> HIDE DEF S
  <2> QED BY <1>1, <1>2, <1>3, PruneKeeps
<1>6. CASE Enough(b_safety, k, b_now)
  BY <1>4, <1>5, <1>6 DEF Enough
<1>7. CASE \E d \in b_safety : d.second = k
  <2>1. PICK d \in b_safety : d.second = k
    BY <1>7
  <2>2. d \in S
    BY <1>1, <2>1 DEF Replaced
  <2>3. d \notin Left => Enough(S, k, b_now)
    <3> HIDE DEF S
    <3>1. d \notin Left => Cardinality(Restore_!Newer(S, k)) >= SAFETY_COPIES_KEPT
      BY <1>2, <2>1, <2>2, PrunedAre
    <3> QED BY <1>1, <1>2, <1>3, <3>1, NewerIsBetween
  <2> QED BY <1>5, <2>1, <2>3
<1> QED BY <1>6, <1>7

LEMMA MoreIsEnough ==
  ASSUME NEW S, IsFiniteSet(S), \A c \in S : c.second \in Nat, NEW k \in Int, NEW n \in Nat,
         Enough(S, k, n), NEW T, IsFiniteSet(T), NEW m \in Nat, n <= m,
         \A c \in S : c.second < n => c \in T
  PROVE  Enough(T, k, m)
<1> DEFINE Fewer == Between(S, k, n)
           More == Between(T, k, m)
<1>1. Fewer \subseteq More /\ IsFiniteSet(More)
  BY FS_Subset DEF Between
<1>2. Cardinality(Fewer) <= Cardinality(More) /\ IsFiniteSet(Fewer)
  BY <1>1, FS_Subset
<1>3. Cardinality(Fewer) \in Nat /\ Cardinality(More) \in Nat
  BY <1>1, <1>2, FS_CardinalityType
<1>4. Cardinality(Fewer) >= SAFETY_COPIES_KEPT - 1
  BY DEF Enough
<1> HIDE DEF Fewer, More
<1>5. Cardinality(More) >= SAFETY_COPIES_KEPT - 1
  BY <1>2, <1>3, <1>4, RecordsAssumption
<1> QED BY <1>5 DEF Enough, More

LEMMA CopiesHoldStep ==
  ASSUME RestoreHolds, Restore_!Next
  PROVE  CopiesHold'
<1> USE DEF Restore_!Goto, Restore_!Ends, Restore_!Drops
<1>0. /\ RestoreTypes /\ CopiesHold /\ b_at \in [Restores -> RestoreSteps] /\ b_now \in Nat
      /\ b_copy \in [Restores -> Int] /\ b_late \in [Restores -> SUBSET DocumentRows]
      /\ b_db \in Databases /\ IsFiniteSet(b_safety)
      /\ \A c \in b_safety : c.second <= b_now /\ c.second \in Nat
      /\ \A c, d \in b_safety : c.second = d.second => c = d
      /\ \A r \in Restores : b_copy[r] >= 0 => b_at[r] \in {"begin", "tables", "commit"}
  BY DEF RestoreHolds, RestoreTypes, CopiesHold
<1>a. ASSUME UNCHANGED b_safety, b_now' \in {b_now, b_now + 1},
             \A r \in Restores : b_copy'[r] >= 0 =>
                /\ b_copy'[r] = b_copy[r] /\ b_at'[r] \in {"begin", "tables", "commit"}
                /\ \/ b_db'.files = b_db.files /\ b_late'[r] = b_late[r]
                   \/ \E T : b_db'.files \subseteq b_db.files \cup T
                      /\ b_late'[r] = b_late[r] \cup T
      PROVE  CopiesHold'
  <2>1. ASSUME NEW r \in Restores, b_copy'[r] >= 0
        PROVE  /\ b_at'[r] \in {"begin", "tables", "commit"} /\ b_copy'[r] <= b_now'
               /\ OwnCopy(r)' \/ Enough(b_safety, b_copy'[r], b_now')
               /\ \A c \in b_safety : c.second >= b_copy'[r] => Covers(c, r)'
    <3>1. /\ b_copy'[r] = b_copy[r] /\ b_at'[r] \in {"begin", "tables", "commit"}
          /\ b_copy[r] >= 0 /\ b_copy[r] \in Int
      BY <1>0, <1>a, <2>1
    <3>2. /\ b_copy[r] <= b_now
          /\ OwnCopy(r) \/ Enough(b_safety, b_copy[r], b_now)
          /\ \A c \in b_safety : c.second >= b_copy[r] => Covers(c, r)
      BY <1>0, <3>1 DEF CopiesHold
    <3>3. OwnCopy(r) => OwnCopy(r)'
      BY <1>a, <3>1 DEF OwnCopy
    <3>4. \A c \in b_safety : Covers(c, r) => Covers(c, r)'
      BY <1>a, <2>1 DEF Covers
    <3>5. Enough(b_safety, b_copy[r], b_now) => Enough(b_safety, b_copy[r], b_now')
      BY <1>0, <1>a, <3>1, MoreIsEnough
    <3> QED BY <1>0, <1>a, <3>1, <3>2, <3>3, <3>4, <3>5
  <2>2. \A c \in b_safety : c.second <= b_now'
    BY <1>0, <1>a
  <2> QED BY <1>0, <1>a, <2>1, <2>2 DEF CopiesHold
<1>b. ASSUME NEW r \in Restores, Restore_!Step(r), UNCHANGED <<b_now, b_db>>, b_copy[r] < 0,
             b_late' = [b_late EXCEPT ![r] = {}],
             b_safety' \in {Restore_!Earlier, Restore_!Earlier \cup {Restore_!NewCopy}},
             \A q \in Restores : b_copy'[q] = -1 \/ b_copy'[q] = Restore_!Disowned[q]
      PROVE  CopiesHold'
  <2>1. /\ \A c \in b_safety' : (c \in b_safety /\ c.second < b_now) \/ c = Restore_!NewCopy
        /\ \A c \in b_safety : c.second < b_now => c \in b_safety'
        /\ Restore_!NewCopy.second = b_now /\ Restore_!NewCopy.files = b_db.files
    BY <1>0, <1>b DEF Restore_!Earlier, Restore_!NewCopy
  <2>2. IsFiniteSet(b_safety')
    <3>1. IsFiniteSet(b_safety \cup {Restore_!NewCopy})
          /\ b_safety' \subseteq b_safety \cup {Restore_!NewCopy}
      BY <1>0, <2>1, FS_AddElement
    <3> QED BY <3>1, FS_Subset
  <2>3. /\ \A c \in b_safety' : c.second <= b_now'
        /\ \A c, d \in b_safety' : c.second = d.second => c = d
    BY <1>0, <1>b, <2>1
  <2>4. ASSUME NEW q \in Restores, b_copy'[q] >= 0
        PROVE  /\ b_at'[q] \in {"begin", "tables", "commit"} /\ b_copy'[q] <= b_now'
               /\ OwnCopy(q)' \/ Enough(b_safety', b_copy'[q], b_now')
               /\ \A c \in b_safety' : c.second >= b_copy'[q] => Covers(c, q)'
    <3>1. /\ b_copy'[q] = b_copy[q] /\ b_copy[q] # b_now /\ b_copy[q] >= 0 /\ q # r
          /\ b_copy[q] \in Int
      BY <1>0, <1>b, <2>4 DEF Restore_!Disowned
    <3>2. b_at'[q] = b_at[q] /\ b_late'[q] = b_late[q]
      BY <1>0, <1>b, <3>1, StepIsLocal
    <3>3. /\ b_at[q] \in {"begin", "tables", "commit"} /\ b_copy[q] <= b_now
          /\ OwnCopy(q) \/ Enough(b_safety, b_copy[q], b_now)
          /\ \A c \in b_safety : c.second >= b_copy[q] => Covers(c, q)
      BY <3>1 DEF RestoreHolds, CopiesHold
    <3>4. OwnCopy(q) => OwnCopy(q)'
      BY <1>0, <2>1, <3>1, <3>3 DEF OwnCopy
    <3>5. Enough(b_safety, b_copy[q], b_now) => Enough(b_safety', b_copy[q], b_now)
      BY <1>0, <2>1, <2>2, <3>1, MoreIsEnough
    <3>6. ASSUME NEW c \in b_safety', c.second >= b_copy[q] PROVE Covers(c, q)'
      BY <1>b, <2>1, <3>2, <3>3, <3>6 DEF Covers
    <3> QED BY <1>b, <3>1, <3>2, <3>3, <3>4, <3>5, <3>6
  <2> QED BY <2>2, <2>3, <2>4 DEF CopiesHold
<1>1. CASE Restore_!Tick
  BY <1>0, <1>1, <1>a DEF Restore_!Tick, Restore_!work
<1>2. CASE Restore_!Edit
  <2>1. PICK f \in Documents : /\ b_db'.files = b_db.files \cup {f}
                               /\ b_late' = Restore_!Later({f})
    BY <1>0, <1>2 DEF Restore_!Edit, Databases
  <2>2. \A r \in Restores : b_copy[r] >= 0 => b_late'[r] = b_late[r] \cup {f}
    BY <2>1 DEF Restore_!Later
  <2>3. UNCHANGED <<b_safety, b_now, b_copy, b_at>>
    BY <1>2 DEF Restore_!Edit
  <2> QED BY <1>0, <1>a, <2>1, <2>2, <2>3
<1>3. ASSUME NEW r \in Restores, Restore_!Step(r), b_copy[r] < 0,
             UNCHANGED <<b_safety, b_copy, b_late>>, b_db'.files = b_db.files
      PROVE  CopiesHold'
  BY <1>0, <1>3, <1>a, StepIsLocal
<1>4. ASSUME NEW r \in Restores, Restore_!Snapshot(r) \/ Restore_!Scrub(r) \/ Restore_!Encode(r)
             \/ Restore_!Stream(r) \/ Restore_!Upload(r) \/ Restore_!Validate(r)
             \/ Restore_!Orphans(r) \/ Restore_!CreateSuperuser(r)
      PROVE  CopiesHold'
  <2>1. /\ Restore_!Step(r) /\ UNCHANGED <<b_safety, b_copy, b_late>>
        /\ b_at[r] \notin {"begin", "tables", "commit"}
        /\ \/ b_db' = b_db \/ b_db' = [b_db EXCEPT !.orphan = FALSE]
           \/ b_db' = [b_db EXCEPT !.users = @ \cup {"root"}]
    BY <1>4 DEF Restore_!Snapshot, Restore_!Scrub, Restore_!Encode, Restore_!Stream,
       Restore_!Upload, Restore_!Validate, Restore_!Orphans, Restore_!Swept,
       Restore_!CreateSuperuser, Restore_!Step, Restore_!Root
  <2>2. b_db'.files = b_db.files
    BY <1>0, <2>1, DatabaseFixups
  <2>3. b_copy[r] < 0
    BY <1>0, <2>1
  <2> QED BY <1>3, <2>1, <2>2, <2>3
<1>5. ASSUME NEW r \in Restores, Restore_!Step(r), UNCHANGED <<b_safety, b_db>>,
             \/ b_copy' = [b_copy EXCEPT ![r] = -1] /\ b_late' = [b_late EXCEPT ![r] = {}]
             \/ b_at'[r] \in {"begin", "tables", "commit"} /\ UNCHANGED <<b_copy, b_late>>
      PROVE  CopiesHold'
  <2>1. \A q \in Restores : b_copy'[q] >= 0 =>
           /\ b_copy'[q] = b_copy[q] /\ b_late'[q] = b_late[q]
           /\ q = r => b_at'[r] \in {"begin", "tables", "commit"}
    BY <1>0, <1>5
  <2> QED BY <1>0, <1>5, <1>a, <2>1, StepIsLocal
<1>6. ASSUME NEW r \in Restores, Restore_!Begin(r) PROVE CopiesHold'
  <2>1. b_at' = [b_at EXCEPT ![r] = "tables"] => b_at'[r] = "tables"
    BY <1>0
  <2> QED BY <1>5, <1>6, <2>1 DEF Restore_!Begin, Restore_!Step
<1>7. ASSUME NEW r \in Restores, Restore_!CopyTables(r) PROVE CopiesHold'
  <2>1. b_at'[r] = "commit"
    BY <1>0, <1>7, TablesAreTheArchive
  <2>2. Restore_!Step(r) /\ UNCHANGED <<b_safety, b_db>>
    BY <1>7 DEF Restore_!CopyTables, Restore_!Step
  <2> QED BY <1>5, <1>7, <2>1, <2>2, TablesAreTheArchive
<1>8. ASSUME NEW r \in Restores, Restore_!Commit(r) PROVE CopiesHold'
  <2>1. /\ Restore_!Step(r) /\ UNCHANGED <<b_safety, b_now>> /\ b_db' = b_tx
        /\ b_copy' = [b_copy EXCEPT ![r] = -1]
        /\ b_late' = [Restore_!Later(b_tx.files) EXCEPT ![r] = {}]
    BY <1>8 DEF Restore_!Commit, Restore_!Step
  <2>2. \A q \in Restores : b_copy'[q] >= 0 =>
           /\ q # r /\ b_copy'[q] = b_copy[q] /\ b_late'[q] = b_late[q] \cup b_tx.files
    BY <1>0, <2>1 DEF Restore_!Later
  <2>3. \A q \in Restores : q # r => b_at'[q] = b_at[q]
    BY <2>1, StepIsLocal
  <2>4. b_db'.files \subseteq b_db.files \cup b_tx.files
    BY <2>1
  <2> QED BY <1>0, <1>a, <2>1, <2>2, <2>3, <2>4
<1>9. CASE Restore_!Kill
  <2>1. UNCHANGED <<b_safety, b_now>> /\ \A r \in Restores : b_copy'[r] = -1
    BY <1>9 DEF Restore_!Kill
  <2> QED BY <1>0, <1>a, <2>1
<1>10. CASE Restore_!Boot \/ Restore_!Booted
  <2>1. /\ UNCHANGED <<b_safety, b_now, b_copy, b_at, b_late>>
        /\ \/ b_db' = b_db \/ b_db' = [b_db EXCEPT !.orphan = FALSE]
           \/ b_db' = [b_db EXCEPT !.users = @ \cup {"root"}]
    BY <1>10 DEF Restore_!Boot, Restore_!Swept, Restore_!Booted, Restore_!work, Restore_!Root
  <2>2. b_db'.files = b_db.files
    BY <1>0, <2>1, DatabaseFixups
  <2> QED BY <1>0, <1>a, <2>1, <2>2
<1>11. ASSUME NEW r \in Restores, Restore_!SafetyCopy(r) PROVE CopiesHold'
  <2> DEFINE c == [second |-> b_now, files |-> b_db.files]
  <2>1. /\ Restore_!Step(r) /\ b_at[r] = "copy" /\ b_at' = [b_at EXCEPT ![r] = "begin"]
        /\ UNCHANGED <<b_now, b_db>> /\ b_late' = [b_late EXCEPT ![r] = {}]
    BY <1>11 DEF Restore_!SafetyCopy, Restore_!Step
  <2>2. b_copy[r] < 0
    BY <1>0, <2>1
  <2>3. CASE b_safety' = Restore_!Earlier /\ b_copy' = Restore_!Disowned
    BY <1>b, <2>1, <2>2, <2>3 DEF Restore_!Disowned
  <2>4. CASE /\ b_safety' = Restore_!Pruned(Restore_!Earlier \cup {Restore_!NewCopy})
             /\ b_copy' = [Restore_!Disowned EXCEPT ![r] = b_now]
    <3>1. b_safety' = Restore_!Pruned(Replaced(b_safety, c)) /\ c.second = b_now
      BY <2>4 DEF Replaced, Restore_!Earlier, Restore_!NewCopy
    <3> HIDE DEF c
    <3>2. \A d \in b_safety' : (d \in b_safety /\ d.second # b_now) \/ d = c
      BY <3>1 DEF Restore_!Pruned, Replaced
    <3>3. IsFiniteSet(b_safety')
      <4>1. IsFiniteSet(b_safety \cup {c}) /\ b_safety' \subseteq b_safety \cup {c}
        BY <1>0, <3>2, FS_AddElement
      <4> QED BY <4>1, FS_Subset
    <3>4. /\ \A d \in b_safety' : d.second <= b_now'
          /\ \A d, e \in b_safety' : d.second = e.second => d = e
      BY <1>0, <2>1, <3>1, <3>2
    <3>5. ASSUME NEW q \in Restores, b_copy'[q] >= 0
          PROVE  /\ b_at'[q] \in {"begin", "tables", "commit"} /\ b_copy'[q] <= b_now'
                 /\ OwnCopy(q)' \/ Enough(b_safety', b_copy'[q], b_now')
                 /\ \A d \in b_safety' : d.second >= b_copy'[q] => Covers(d, q)'
      <4>1. CASE q = r
        <5>1. b_at'[q] = "begin" /\ b_copy'[q] = b_now
          BY <1>0, <2>1, <2>4, <4>1 DEF Restore_!Disowned
        <5>2. Replaced(b_safety, c) \subseteq b_safety \cup {c} /\ c \in Replaced(b_safety, c)
          BY DEF Replaced
        <5>3. {d \in Replaced(b_safety, c) : d.second > c.second} = {}
          BY <1>0, <3>1, <5>2
        <5>4. Cardinality({}) = 0
          BY FS_EmptySet
        <5>5. c \in b_safety'
          BY <3>1, <5>2, <5>3, <5>4, RestoreCount, RecordsAssumption DEF Restore_!Pruned
        <5>6. OwnCopy(q)'
          BY <3>1, <5>1, <5>5 DEF OwnCopy
        <5>7. ASSUME NEW d \in b_safety', d.second >= b_copy'[q] PROVE Covers(d, q)'
          <6>1. d = c
            BY <1>0, <3>2, <5>1, <5>7
          <6> QED BY <2>1, <6>1 DEF Covers, c
        <5> QED BY <1>0, <2>1, <5>1, <5>6, <5>7
      <4>2. CASE q # r
        <5>1. /\ b_copy'[q] = b_copy[q] /\ b_copy[q] # b_now /\ b_at'[q] = b_at[q]
              /\ b_late'[q] = b_late[q] /\ b_copy[q] >= 0
          BY <1>0, <2>1, <2>4, <3>5, <4>2 DEF Restore_!Disowned
        <5>2. /\ b_at[q] \in {"begin", "tables", "commit"} /\ b_copy[q] <= b_now
              /\ OwnCopy(q) \/ Enough(b_safety, b_copy[q], b_now)
              /\ \A d \in b_safety : d.second >= b_copy[q] => Covers(d, q)
          BY <5>1 DEF RestoreHolds, CopiesHold
        <5>3. b_copy[q] \in Nat /\ b_copy[q] < b_now
          BY <1>0, <5>1, <5>2
        <5>4. \/ \E d \in b_safety' : d.second = b_copy[q]
              \/ Enough(b_safety', b_copy[q], b_now)
          BY <1>0, <3>1, <5>2, <5>3, CopyIsKept DEF OwnCopy, c
        <5>5. ASSUME NEW d \in b_safety', d.second >= b_copy[q] PROVE Covers(d, q)'
          <6>1. CASE d \in b_safety
            BY <2>1, <5>1, <5>2, <5>5, <6>1 DEF Covers
          <6>2. CASE d = c
            BY <2>1, <6>2 DEF Covers, c
          <6> QED BY <3>2, <6>1, <6>2
        <5> QED BY <2>1, <5>1, <5>2, <5>4, <5>5 DEF OwnCopy
      <4> QED BY <4>1, <4>2
    <3> QED BY <3>3, <3>4, <3>5 DEF CopiesHold
  <2> QED BY <1>11, <2>3, <2>4 DEF Restore_!SafetyCopy
<1>12. ASSUME NEW r \in Restores, Restore_!Cut(r) PROVE CopiesHold'
  <2>1. /\ Restore_!Step(r) /\ b_at' = [b_at EXCEPT ![r] = "idle"]
        /\ UNCHANGED <<b_now, b_db>> /\ b_late' = [b_late EXCEPT ![r] = {}]
    BY <1>12 DEF Restore_!Cut, Restore_!Step
  <2>2. CASE UNCHANGED b_safety /\ b_copy' = [b_copy EXCEPT ![r] = -1]
    BY <1>5, <2>1, <2>2
  <2>3. CASE /\ b_safety' \in {Restore_!Earlier, Restore_!Earlier \cup {Restore_!NewCopy}}
             /\ b_at[r] = "copy" /\ b_copy' = [Restore_!Disowned EXCEPT ![r] = -1]
    <3>1. b_copy[r] < 0
      BY <1>0, <2>3
    <3>2. \A q \in Restores : b_copy'[q] = -1 \/ b_copy'[q] = Restore_!Disowned[q]
      BY <1>0, <2>3 DEF Restore_!Disowned
    <3> QED BY <1>b, <2>1, <2>3, <3>1, <3>2
  <2> QED BY <1>12, <2>2, <2>3 DEF Restore_!Cut
<1> QED BY <1>1, <1>2, <1>4, <1>6, <1>7, <1>8, <1>9, <1>10, <1>11, <1>12
      DEF Restore_!Next, Restore_!Step

-----------------------------------------------------------------------------
(* Backups and restores.                                                    *)

LEMMA RestoreTypeOK ==
  ASSUME RestoreTypes, LockAgrees
  PROVE  Restore_!TypeOK
BY DatabaseChanges DEF RestoreTypes, LockAgrees, Restore_!TypeOK, Restore_!None, DocumentRows

LEMMA RestoreStep ==
  ASSUME RestoreHolds, Restore_!Next
  PROVE  RestoreHolds'
<1>1. RestoreTypes' /\ LockAgrees'
  BY RestoreTypesStep, LockAgreesStep
<1>2. Restore_!TypeOK'
  BY <1>1, RestoreTypeOK, PTL
<1> QED BY <1>1, <1>2, DownIsIdleStep, FixupsComeStep, SecretsStayStep, ScratchStep,
           CopiesHoldStep
        DEF RestoreHolds

LEMMA RestoreInit ==
  ASSUME Restore_!Init
  PROVE  RestoreHolds
<1> USE DEF Restore_!Init
<1>1. /\ b_db = Restore_!Fresh /\ b_tx = Restore_!Fresh /\ b_seq = 0 /\ b_now \in Nat
      /\ b_up = "up"
      /\ b_safety = {} /\ b_scratch = {} /\ b_lock = "none"
      /\ b_archives = {Restore_!Foreign, Restore_!Broken}
      /\ \A r \in Restores : b_at[r] = "idle" /\ b_copy[r] = -1
  BY RecordsAssumption DEF Restore_!None
<1>2. RestoreTypes
  BY <1>1, DatabaseShapes DEF RestoreTypes, RestoreSteps, DocumentRows
<1>3. LockAgrees /\ DownIsIdle /\ FixupsCome
  BY <1>1, DatabaseShapes DEF LockAgrees, DownIsIdle, FixupsCome, Restore_!Restoring
<1>4. SecretsStay /\ Restore_!ScratchIsOwned
  BY <1>1, DatabaseShapes DEF SecretsStay, Restore_!NoSecretLeaves, Restore_!ScratchIsOwned
<1>5. CopiesHold
  BY <1>1, FS_EmptySet DEF CopiesHold
<1> QED BY <1>2, <1>3, <1>4, <1>5, RestoreTypeOK DEF RestoreHolds

(* What a restore, or anything else, puts in the place of the database.     *)
LEMMA RestoreKeepsFaith ==
  ASSUME RestoreHolds, Restore_!Next
  PROVE  Restore_!RestoreIsExact /\ Restore_!WipedIsCopied
<1>0. /\ b_db \in Databases /\ b_db.triggers /\ LockAgrees /\ CopiesHold
      /\ b_copy \in [Restores -> Int]
  BY DEF RestoreHolds, RestoreTypes
<1>1. Restore_!RestoreIsExact
  <2>1. ASSUME b_db'.files = b_db.files, b_db'.events = b_db.events,
               b_db'.triggers = b_db.triggers
        PROVE  Restore_!RestoreIsExact
    BY <1>0, <2>1 DEF Restore_!RestoreIsExact
  <2>2. CASE Restore_!Edit
    BY <1>0, <2>2 DEF Restore_!Edit, Restore_!RestoreIsExact, Databases
  <2>3. ASSUME NEW r \in Restores, Restore_!Commit(r) PROVE Restore_!RestoreIsExact
    BY <1>0, <2>3 DEF Restore_!Commit, Restore_!RestoreIsExact, LockAgrees, Restore_!Restoring
  <2>4. ASSUME \/ b_db' = [b_db EXCEPT !.orphan = FALSE]
               \/ b_db' = [b_db EXCEPT !.users = @ \cup {"root"}]
        PROVE  Restore_!RestoreIsExact
    BY <1>0, <2>1, <2>4, DatabaseFixups
  <2>5. ASSUME NEW r \in Restores, Restore_!Orphans(r) \/ Restore_!CreateSuperuser(r)
        PROVE  Restore_!RestoreIsExact
    BY <2>1, <2>4, <2>5 DEF Restore_!Orphans, Restore_!Swept, Restore_!CreateSuperuser,
       Restore_!Root
  <2>6. CASE Restore_!Boot \/ Restore_!Booted
    BY <2>1, <2>4, <2>6 DEF Restore_!Boot, Restore_!Swept, Restore_!Booted, Restore_!Root
  <2>7. ASSUME NEW r \in Restores, Restore_!Snapshot(r) \/ Restore_!Scrub(r)
               \/ Restore_!Encode(r)
             \/ Restore_!Stream(r) \/ Restore_!Upload(r) \/ Restore_!Validate(r)
             \/ Restore_!SafetyCopy(r) \/ Restore_!Begin(r) \/ Restore_!CopyTables(r)
             \/ Restore_!Cut(r)
        PROVE  UNCHANGED b_db
    BY <2>7 DEF Restore_!Snapshot, Restore_!Scrub, Restore_!Encode, Restore_!Stream,
       Restore_!Upload, Restore_!Validate, Restore_!SafetyCopy, Restore_!Begin,
       Restore_!CopyTables, Restore_!Cut
  <2>8. Restore_!Tick \/ Restore_!Kill => UNCHANGED b_db
    BY DEF Restore_!Tick, Restore_!Kill
  <2> QED BY <2>1, <2>2, <2>3, <2>5, <2>6, <2>7, <2>8 DEF Restore_!Next, Restore_!Step
<1>2. Restore_!WipedIsCopied
  <2> SUFFICES ASSUME NEW r \in Restores, b_copy[r] >= 0
               PROVE  \E c \in b_safety :
                         /\ Covers(c, r)
                         /\ \/ c.second = b_copy[r]
                            \/ c \in Restore_!Newer(b_safety, b_copy[r])
                               /\ Restore_!Cardinality(Restore_!Newer(b_safety, b_copy[r]))
                                    >= SAFETY_COPIES_KEPT - 1
    BY DEF Restore_!WipedIsCopied, Covers
  <2>1. /\ OwnCopy(r) \/ Enough(b_safety, b_copy[r], b_now)
        /\ \A c \in b_safety : c.second >= b_copy[r] => Covers(c, r)
        /\ \A c \in b_safety : c.second \in Nat
        /\ IsFiniteSet(b_safety)
    BY <1>0 DEF CopiesHold, RestoreHolds, RestoreTypes
  <2>2. CASE OwnCopy(r)
    BY <1>0, <2>1, <2>2 DEF OwnCopy
  <2>3. CASE Enough(b_safety, b_copy[r], b_now)
    <3> DEFINE Fewer == Between(b_safety, b_copy[r], b_now)
               More == Restore_!Newer(b_safety, b_copy[r])
    <3>5. Fewer \subseteq More /\ IsFiniteSet(More)
      BY <2>1, FS_Subset DEF Between, Restore_!Newer
    <3>6. Cardinality(Fewer) <= Cardinality(More) /\ IsFiniteSet(Fewer)
      BY <3>5, FS_Subset
    <3>7. Cardinality(Fewer) \in Nat /\ Cardinality(More) \in Nat
      BY <3>5, <3>6, FS_CardinalityType
    <3>8. Cardinality(Fewer) >= SAFETY_COPIES_KEPT - 1
      BY <2>3 DEF Enough
    <3> HIDE DEF Fewer, More
    <3>9. Cardinality(More) >= SAFETY_COPIES_KEPT - 1 /\ Cardinality(More) # 0
      BY <3>6, <3>7, <3>8, RecordsAssumption
    <3>1. Restore_!Newer(b_safety, b_copy[r]) # {}
      BY <3>9, FS_EmptySet DEF More
    <3>2. PICK c \in Restore_!Newer(b_safety, b_copy[r]) : TRUE
      BY <3>1
    <3>3. c \in b_safety /\ c.second > b_copy[r]
      BY <3>2 DEF Restore_!Newer
    <3>4. Covers(c, r)
      BY <1>0, <2>1, <3>3
    <3> QED BY <3>2, <3>3, <3>4, <3>9, RestoreCount DEF More
  <2> QED BY <2>1, <2>2, <2>3
<1> QED BY <1>1, <1>2

ChosenRestoreHolds == chosen = "restore" => RestoreHolds

LEMMA ChosenRestoreStays == RecordsSpec => []ChosenRestoreHolds
<1>1. RecordsInit => ChosenRestoreHolds
  BY RestoreInit DEF RecordsInit, RestoreBegins, ChosenRestoreHolds
<1>2. ChosenRestoreHolds /\ [RecordsNext]_recordsVars => ChosenRestoreHolds'
  <2> SUFFICES ASSUME ChosenRestoreHolds, [RecordsNext]_recordsVars, chosen' = "restore"
               PROVE  RestoreHolds'
    BY DEF ChosenRestoreHolds
  <2>1. CASE RestoreRuns
    BY <2>1, RestoreStep DEF RestoreRuns, ChosenRestoreHolds
  <2>2. CASE ~RestoreRuns
    <3>1. chosen = "restore" /\ UNCHANGED restoreVars
      BY <2>2 DEF RecordsNext, AccountsRuns, SetupRuns, LibraryRuns, UserSessionsRuns,
         AppLockRuns, PreviewCacheRuns, ShortcutsRuns, recordsVars
    <3>2. RestoreHolds
      BY <3>1 DEF ChosenRestoreHolds
    <3> USE <3>1, <3>2 DEF restoreVars, RestoreHolds
    <3>3. RestoreTypes' /\ LockAgrees' /\ DownIsIdle'
      BY DEF RestoreTypes, LockAgrees, DownIsIdle, Restore_!Restoring
    <3>4. FixupsCome' /\ SecretsStay' /\ Restore_!ScratchIsOwned'
      BY DEF FixupsCome, SecretsStay, Restore_!NoSecretLeaves, Restore_!ScratchIsOwned
    <3>5. CopiesHold' /\ Restore_!TypeOK'
      BY DEF CopiesHold, OwnCopy, Covers, Restore_!TypeOK, Restore_!Restoring
    <3> QED BY <3>3, <3>4, <3>5
  <2> QED BY <2>1, <2>2
<1> QED BY <1>1, <1>2, PTL DEF RecordsSpec

(* Whatever fails or is killed in a backup or a restore, the operator can   *)
(* sign in, no archive holds a secret of another service, and no copy of    *)
(* the database is left over, for any number of requests at once (main,     *)
(* scrub_secrets, ScratchFile, cleanup_scratch).                            *)
THEOREM BackupsStaySafe == RecordsSpec => []BackupsAreSafe
<1>1. ChosenRestoreHolds => BackupsAreSafe
  BY DEF ChosenRestoreHolds, BackupsAreSafe, Restore_!BackupsAreSafe, RestoreHolds, SecretsStay,
     FixupsCome, Restore_!OperatorGetsIn, Restore_!Idle, Restore_!Root
<1> QED BY <1>1, ChosenRestoreStays, PTL

(* A restore puts the archive, and nothing else, in the place of the        *)
(* database, and what it wipes is in a safety copy, for any number of       *)
(* requests and of copies that are kept (copy_tables_in_transaction,        *)
(* write_safety_copy, prune_safety_copies).                                 *)
THEOREM RestoreStaysFaithful == RecordsSpec => RestoreIsFaithful
<1>1. ChosenRestoreHolds /\ [RecordsNext]_recordsVars
        => [chosen = "restore" => Restore_!RestoreIsExact /\ Restore_!WipedIsCopied]_recordsVars
  <2> SUFFICES ASSUME ChosenRestoreHolds, RecordsNext, chosen = "restore"
               PROVE  Restore_!RestoreIsExact /\ Restore_!WipedIsCopied
    OBVIOUS
  <2>1. RestoreHolds /\ Restore_!Next
    BY DEF ChosenRestoreHolds, RecordsNext, AccountsRuns, SetupRuns, LibraryRuns, RestoreRuns,
       UserSessionsRuns, AppLockRuns, PreviewCacheRuns, ShortcutsRuns
  <2> QED BY <2>1, RestoreKeepsFaith
<1> QED BY <1>1, ChosenRestoreStays, PTL DEF RecordsSpec, RestoreIsFaithful

-----------------------------------------------------------------------------
(* The channels of a storage.                                               *)

USE DEF tableVars, upVars, adVars, hVars, jVars, boundVars, Exists

-----------------------------------------------------------------------------
(* The type invariant.                                                      *)

(* Lowest picks a position: what next_free_position and                     *)
(* next_active_position return is a slot of the storage.                    *)
LEMMA LowestIsIn ==
  ASSUME NEW P \in SUBSET Positions, P # {}
  PROVE  Lowest(P) \in Positions /\ Lowest(P) \in P
<1>1. P \subseteq Nat
  BY ChannelsAssumption DEF Positions
<1>2. PICK p \in P : \A q \in P : ~ (<<q, p>> \in OpToRel(<, Nat))
  BY <1>1, NatLessThanWellFounded, WFMin, Zenon
<1>3. \A q \in P : ~ (q < p)
  BY <1>1, <1>2 DEF OpToRel
<1>4. \A q \in P : p <= q
  BY <1>1, <1>3
<1> QED BY <1>4 DEF Lowest

LEMMA ActiveSlotsAreSlots ==
  ASSUME TypeOK, Active # {}
  PROVE  ActiveSlots \subseteq Positions /\ ActiveSlots # {}
<1>1. slot \in [Channels -> Positions] /\ Active \subseteq Channels
  BY DEF TypeOK, Active
<1>2. PICK c \in Active : TRUE
  OBVIOUS
<1>3. slot[c] \in ActiveSlots
  BY <1>2 DEF ActiveSlots
<1>4. ActiveSlots \subseteq Positions
  BY <1>1 DEF ActiveSlots
<1> QED BY <1>3, <1>4

LEMMA NextActiveIsASlot ==
  ASSUME TypeOK, Active # {}, NEW from
  PROVE  NextActive(from) \in Positions
<1>1. ActiveSlots \subseteq Positions /\ ActiveSlots # {}
  BY ActiveSlotsAreSlots
<1>2. Lowest(ActiveSlots) \in Positions
  BY <1>1, LowestIsIn
<1>3. ASSUME {p \in ActiveSlots : p > from} # {}
      PROVE  Lowest({p \in ActiveSlots : p > from}) \in Positions
  BY <1>1, <1>3, LowestIsIn
<1> QED BY <1>2, <1>3 DEF NextActive

LEMMA ResolvedIsASlot ==
  ASSUME TypeOK, Active # {}, NEW q \in Positions
  PROVE  ResolvedSlot(q) \in Positions
<1>1. ActiveSlots \subseteq Positions /\ ActiveSlots # {}
  BY ActiveSlotsAreSlots
<1> QED BY <1>1, LowestIsIn DEF ResolvedSlot

LEMMA FreeIsASlot ==
  ASSUME Positions \ Taken # {}
  PROVE  Lowest(Positions \ Taken) \in Positions
BY LowestIsIn

LEMMA PlaceNames ==
  /\ {"idle", "list", "rotate", "plan", "send", "record", "fanOut",
     "done"} \subseteq UploadPlaces
  /\ {"idle", "insert", "chunks", "enqueue", "count", "load", "siblings", "rotate",
     "delete"} \subseteq AdminPlaces
  /\ {"next", "copy", "mark", "failed", "refused", "dead"} \subseteq JobPlaces
BY DEF UploadPlaces, AdminPlaces, JobPlaces

LEMMA TypeInit == Init => TypeOK
<1> SUFFICES ASSUME Init PROVE TypeOK
  OBVIOUS
<1>1. 1 \in Positions
  BY ChannelsAssumption DEF Positions
<1> QED BY <1>1, PlaceNames, ChannelsAssumption DEF Init, TypeOK, Nowhere, NoJobs

LEMMA OneIsASlot == 1 \in Positions
BY ChannelsAssumption DEF Positions

LEMMA TypeStep == TypeOK /\ [Next]_vars => TypeOK'
<1> SUFFICES ASSUME TypeOK, [Next]_vars PROVE TypeOK'
  OBVIOUS
<1> USE ChannelsAssumption, PlaceNames DEF TypeOK
<1>1. ASSUME NEW k \in Chunks, Upload(k) PROVE TypeOK'
  <2>1. CASE UploadLoad(k)
    BY <2>1 DEF UploadLoad
  <2>2. CASE UploadList(k)
    <3>1. upPrimary' \in [Chunks -> Positions]
      BY <2>2, ResolvedIsASlot DEF UploadList
    <3>2. Active \subseteq Channels
      BY DEF Active
    <3>3. upChannels' \in [Chunks -> SUBSET Channels]
      BY <2>2, <3>2 DEF UploadList
    <3>4. upChat' \in [Chunks -> [Channels -> Chats \cup {NoChat}]]
      BY <2>2 DEF UploadList
    <3>5. upAt' \in [Chunks -> UploadPlaces]
      BY <2>2 DEF UploadList
    <3> QED BY <2>2, <3>1, <3>3, <3>4, <3>5 DEF UploadList
  <2>3. CASE UploadRotate(k)
    BY <2>3 DEF UploadRotate
  <2>4. CASE UploadPlan(k)
    BY <2>4 DEF UploadPlan
  <2>5. ASSUME NEW c \in Channels, UploadSend(k, c) PROVE TypeOK'
    BY <2>5 DEF UploadSend
  <2>6. CASE UploadRecord(k)
    <3>1. CASE upTo[k] \in Channels
      BY <2>6, <3>1 DEF UploadRecord
    <3>2. CASE upTo[k] = NoChannel
      <4>1. replica' = replica /\ sentTo' = sentTo
        BY <2>6, <3>2 DEF UploadRecord
      <4> QED BY <2>6, <4>1 DEF UploadRecord
    <3> QED BY <3>1, <3>2
  <2>7. CASE UploadFanOut(k)
    BY <2>7, OneIsASlot DEF UploadFanOut, UploadEnds, Queue, Nowhere
  <2>8. CASE UploadFails(k)
    BY <2>8, OneIsASlot DEF UploadFails, UploadEnds, Nowhere
  <2> QED BY <1>1, <2>1, <2>2, <2>3, <2>4, <2>5, <2>6, <2>7, <2>8 DEF Upload
<1>2. ASSUME NEW a \in Admins, Administer(a) PROVE TypeOK'
  <2>1. ASSUME NEW x \in Chats, AddStart(a, x) PROVE TypeOK'
    BY <2>1, FreeIsASlot DEF AddStart, AdminStart
  <2>2. ASSUME NEW c \in Channels, AddInsert(a, c) PROVE TypeOK'
    BY <2>2 DEF AddInsert
  <2>3. ASSUME NEW c \in Channels, RemoveStart(a, c) PROVE TypeOK'
    BY <2>3 DEF RemoveStart, AdminStart
  <2>4. ASSUME NEW c \in Channels, NEW x \in Chats, UpdateChat(a, c, x) PROVE TypeOK'
    BY <2>4 DEF UpdateChat, AdminStart
  <2>5. CASE EnqueueList(a)
    BY <2>5 DEF EnqueueList
  <2>6. CASE EnqueueInsert(a)
    BY <2>6, OneIsASlot DEF EnqueueInsert, Queue, AdminEnds
  <2>7. CASE RemoveCount(a)
    BY <2>7 DEF RemoveCount
  <2>8. CASE RemoveLoad(a)
    BY <2>8 DEF RemoveLoad
  <2>9. CASE RemoveSiblings(a)
    BY <2>9, NextActiveIsASlot DEF RemoveSiblings
  <2>10. CASE RemoveRotate(a)
    BY <2>10 DEF RemoveRotate
  <2>11. CASE RemoveDelete(a)
    BY <2>11, OneIsASlot DEF RemoveDelete, AdminEnds
  <2>12. CASE AdminFails(a)
    BY <2>12, OneIsASlot DEF AdminFails, AdminEnds
  <2> QED BY <1>2, <2>1, <2>2, <2>3, <2>4, <2>5, <2>6, <2>7, <2>8, <2>9, <2>10, <2>11, <2>12
        DEF Administer
<1>3. CASE Health
  <2>1. CASE HealthList
    BY <2>1 DEF HealthList, Nowhere
  <2>2. CASE HealthMark
    BY <2>2 DEF HealthMark, MarkDead
  <2>3. CASE HealthLoad
    BY <2>3 DEF HealthLoad
  <2>4. CASE HealthSiblings
    BY <2>4, NextActiveIsASlot DEF HealthSiblings
  <2>5. CASE HealthRotate
    BY <2>5, OneIsASlot DEF HealthRotate
  <2>6. ASSUME NEW c \in Channels, HealthProbe(c) PROVE TypeOK'
    BY <2>6 DEF HealthProbe
  <2> QED BY <1>3, <2>1, <2>2, <2>3, <2>4, <2>5, <2>6 DEF Health
<1>4. CASE Replicate
  <2>1. CASE JobsList
    <3>1. \A r \in Rows : r[2] \in Channels
      BY DEF Rows
    <3>2. jTodo' \in [Rows -> Chats \cup {NoChat}]
      BY <2>1, <3>1 DEF JobsList
    <3> QED BY <2>1, <3>2 DEF JobsList
  <2>2. ASSUME NEW r \in Rows, JobNoSource(r) PROVE TypeOK'
    BY <2>2 DEF JobNoSource, NextJob
  <2>3. ASSUME NEW r \in Rows, NEW s \in Channels, JobSource(r, s) PROVE TypeOK'
    BY <2>3 DEF JobSource, NextJob, Rows
  <2>4. CASE JobCopy
    BY <2>4 DEF JobCopy
  <2>5. CASE JobNotFound
    BY <2>5 DEF JobNotFound
  <2>6. CASE JobRefused
    BY <2>6 DEF JobRefused
  <2>7. CASE JobMark
    BY <2>7 DEF JobMark, JobEnds, MarkRow
  <2>8. CASE JobMarkFailed
    <3>1. replica' \in [Chunks -> [Channels -> {"none", "queued", "stored"}]]
      BY <2>8 DEF JobMarkFailed, MarkRow
    <3>2. CASE JobEnds
      BY <2>8, <3>1, <3>2 DEF JobMarkFailed, JobEnds
    <3>3. CASE jAt' = "dead" /\ UNCHANGED <<jTodo, jChunk, jTo, jChat, jFrom, jMessage>>
      BY <2>8, <3>1, <3>3 DEF JobMarkFailed
    <3> QED BY <2>8, <3>2, <3>3 DEF JobMarkFailed
  <2>9. CASE JobMarkDead
    BY <2>9 DEF JobMarkDead, JobEnds, MarkDead
  <2> QED BY <1>4, <2>1, <2>2, <2>3, <2>4, <2>5, <2>6, <2>7, <2>8, <2>9 DEF Replicate
<1>5. ASSUME NEW x \in Chats, ChatDies(x) PROVE TypeOK'
  BY <1>5 DEF ChatDies
<1>6. CASE Restart
  BY <1>6, OneIsASlot DEF Restart, Nowhere, NoJobs
<1>7. CASE UNCHANGED vars
  BY <1>7 DEF vars
<1> QED BY <1>1, <1>2, <1>3, <1>4, <1>5, <1>6, <1>7 DEF Next

(* TypeOK holds in every reachable state of the channel model. *)
THEOREM TypeCorrect == Spec => []TypeOK
BY TypeInit, TypeStep, PTL DEF Spec

-----------------------------------------------------------------------------
(* Slots and chats.  Only five steps touch the table of channels.           *)

LEMMA SlotsFrame ==
  ASSUME SlotsAreDistinct, UNCHANGED <<status, slot, chat>>
  PROVE  SlotsAreDistinct'
BY DEF SlotsAreDistinct

LEMMA SlotsStep == TypeOK /\ SlotsAreDistinct /\ [Next]_vars => SlotsAreDistinct'
<1> SUFFICES ASSUME TypeOK, SlotsAreDistinct, [Next]_vars PROVE SlotsAreDistinct'
  OBVIOUS
<1>1. ASSUME NEW k \in Chunks, Upload(k) PROVE SlotsAreDistinct'
  <2>1. CASE UploadLoad(k)
    BY <2>1, SlotsFrame DEF UploadLoad
  <2>2. CASE UploadList(k)
    BY <2>2, SlotsFrame DEF UploadList
  <2>3. CASE UploadRotate(k)
    BY <2>3, SlotsFrame DEF UploadRotate
  <2>4. CASE UploadPlan(k)
    BY <2>4, SlotsFrame DEF UploadPlan
  <2>5. ASSUME NEW c \in Channels, UploadSend(k, c) PROVE SlotsAreDistinct'
    BY <2>5, SlotsFrame DEF UploadSend
  <2>6. CASE UploadRecord(k)
    BY <2>6, SlotsFrame DEF UploadRecord
  <2>7. CASE UploadFanOut(k)
    BY <2>7, SlotsFrame DEF UploadFanOut
  <2>8. CASE UploadFails(k)
    BY <2>8, SlotsFrame DEF UploadFails
  <2> QED BY <1>1, <2>1, <2>2, <2>3, <2>4, <2>5, <2>6, <2>7, <2>8 DEF Upload
<1>2. ASSUME NEW a \in Admins, Administer(a) PROVE SlotsAreDistinct'
  <2>1. ASSUME NEW x \in Chats, AddStart(a, x) PROVE SlotsAreDistinct'
    BY <2>1, SlotsFrame DEF AddStart
  <2>2. ASSUME NEW c \in Channels, AddInsert(a, c) PROVE SlotsAreDistinct'
    <3>1. \A d \in Channels : Exists(d) => slot[d] # adSlot[a] /\ chat[d] # adChat[a]
      BY <2>2, ChannelsAssumption DEF AddInsert, Conflict, Bound, Taken
    <3> QED BY <2>2, <3>1 DEF AddInsert, TypeOK, SlotsAreDistinct
  <2>3. ASSUME NEW c \in Channels, RemoveStart(a, c) PROVE SlotsAreDistinct'
    BY <2>3, SlotsFrame DEF RemoveStart
  <2>4. ASSUME NEW c \in Channels, NEW x \in Chats, UpdateChat(a, c, x) PROVE SlotsAreDistinct'
    BY <2>4 DEF UpdateChat, Bound, TypeOK, SlotsAreDistinct
  <2>5. CASE EnqueueList(a)
    BY <2>5, SlotsFrame DEF EnqueueList
  <2>6. CASE EnqueueInsert(a)
    BY <2>6, SlotsFrame DEF EnqueueInsert
  <2>7. CASE RemoveCount(a)
    BY <2>7, SlotsFrame DEF RemoveCount
  <2>8. CASE RemoveLoad(a)
    BY <2>8, SlotsFrame DEF RemoveLoad
  <2>9. CASE RemoveSiblings(a)
    BY <2>9, SlotsFrame DEF RemoveSiblings
  <2>10. CASE RemoveRotate(a)
    BY <2>10, SlotsFrame DEF RemoveRotate
  <2>11. CASE RemoveDelete(a)
    BY <2>11 DEF RemoveDelete, TypeOK, SlotsAreDistinct
  <2>12. CASE AdminFails(a)
    BY <2>12, SlotsFrame DEF AdminFails
  <2> QED BY <1>2, <2>1, <2>2, <2>3, <2>4, <2>5, <2>6, <2>7, <2>8, <2>9, <2>10, <2>11, <2>12
        DEF Administer
<1>3. CASE Health
  <2>1. CASE HealthList
    BY <2>1, SlotsFrame DEF HealthList
  <2>2. CASE HealthMark
    BY <2>2 DEF HealthMark, MarkDead, TypeOK, SlotsAreDistinct
  <2>3. CASE HealthLoad
    BY <2>3, SlotsFrame DEF HealthLoad
  <2>4. CASE HealthSiblings
    BY <2>4, SlotsFrame DEF HealthSiblings
  <2>5. CASE HealthRotate
    BY <2>5, SlotsFrame DEF HealthRotate
  <2>6. ASSUME NEW c \in Channels, HealthProbe(c) PROVE SlotsAreDistinct'
    BY <2>6, SlotsFrame DEF HealthProbe
  <2> QED BY <1>3, <2>1, <2>2, <2>3, <2>4, <2>5, <2>6 DEF Health
<1>4. CASE Replicate
  <2>1. CASE JobsList
    BY <2>1, SlotsFrame DEF JobsList
  <2>2. ASSUME NEW r \in Rows, JobNoSource(r) PROVE SlotsAreDistinct'
    BY <2>2, SlotsFrame DEF JobNoSource
  <2>3. ASSUME NEW r \in Rows, NEW s \in Channels, JobSource(r, s) PROVE SlotsAreDistinct'
    BY <2>3, SlotsFrame DEF JobSource
  <2>4. CASE JobCopy
    BY <2>4, SlotsFrame DEF JobCopy
  <2>5. CASE JobNotFound
    BY <2>5, SlotsFrame DEF JobNotFound
  <2>6. CASE JobRefused
    BY <2>6, SlotsFrame DEF JobRefused
  <2>7. CASE JobMark
    BY <2>7, SlotsFrame DEF JobMark
  <2>8. CASE JobMarkFailed
    BY <2>8, SlotsFrame DEF JobMarkFailed
  <2>9. CASE JobMarkDead
    BY <2>9 DEF JobMarkDead, MarkDead, TypeOK, SlotsAreDistinct
  <2> QED BY <1>4, <2>1, <2>2, <2>3, <2>4, <2>5, <2>6, <2>7, <2>8, <2>9 DEF Replicate
<1>5. ASSUME NEW x \in Chats, ChatDies(x) PROVE SlotsAreDistinct'
  BY <1>5, SlotsFrame DEF ChatDies
<1>6. CASE Restart
  BY <1>6, SlotsFrame DEF Restart
<1>7. CASE UNCHANGED vars
  BY <1>7, SlotsFrame DEF vars
<1> QED BY <1>1, <1>2, <1>3, <1>4, <1>5, <1>6, <1>7 DEF Next

(* No two channels of the storage share a slot or a chat, however requests  *)
(* that read a free slot interleave.                                        *)
THEOREM ChannelsAreDistinct == Spec => []SlotsAreDistinct
<1>1. Init => SlotsAreDistinct
  BY DEF Init, SlotsAreDistinct
<1> QED BY <1>1, TypeInit, TypeStep, SlotsStep, PTL DEF Spec

-----------------------------------------------------------------------------
(* Stored copies.  A job works on a row it listed long before; the row is   *)
(* not stored meanwhile because only a recorded chunk has rows, and the one *)
(* insertion of a stored row records the chunk.                             *)

RowsAreOfRecorded ==
    /\ \A k \in Chunks, c \in Channels : replica[k][c] # "none" => k \in recorded
    /\ \A k \in Chunks : upAt[k] = "fanOut" => k \in recorded
    /\ \A a \in Admins : adChunks[a] \subseteq recorded

(* The rows of the batch that are still to come, and the one in hand. *)
BatchIsNotStored ==
    \A k \in Chunks, c \in Channels :
        jTodo[<<k, c>>] # NoChat => k \in recorded /\ replica[k][c] # "stored"
JobIsNotStored ==
    jAt # "next" =>
        /\ jChunk \in recorded /\ jTo \in Channels
        /\ replica[jChunk][jTo] # "stored"
        /\ jTodo[<<jChunk, jTo>>] = NoChat

RowsInv == RowsAreOfRecorded /\ BatchIsNotStored /\ JobIsNotStored

LEMMA RowsInit == Init => RowsInv
BY DEF Init, RowsInv, RowsAreOfRecorded, BatchIsNotStored, JobIsNotStored, NoJobs, Rows

LEMMA RowsFrame ==
  ASSUME RowsInv, UNCHANGED <<replica, recorded, jVars>>,
         \A k \in Chunks : upAt'[k] = "fanOut" => k \in recorded,
         \A a \in Admins : adChunks'[a] \subseteq recorded
  PROVE  RowsInv'
BY DEF RowsInv, RowsAreOfRecorded, BatchIsNotStored, JobIsNotStored

(* Steps that leave the table, the uploads and the requests alone. *)
LEMMA RowsFrameJob ==
  ASSUME RowsInv, UNCHANGED <<replica, recorded, upAt, adChunks>>,
         BatchIsNotStored', JobIsNotStored'
  PROVE  RowsInv'
BY DEF RowsInv, RowsAreOfRecorded

LEMMA RowsStep == TypeOK /\ RowsInv /\ [Next]_vars => RowsInv'
<1> SUFFICES ASSUME TypeOK, RowsInv, [Next]_vars PROVE RowsInv'
  OBVIOUS
<1> USE DEF TypeOK
<1>1. ASSUME NEW k \in Chunks, Upload(k) PROVE RowsInv'
  <2>1. CASE UploadLoad(k)
    BY <2>1, RowsFrame DEF UploadLoad, RowsInv, RowsAreOfRecorded
  <2>2. CASE UploadList(k)
    BY <2>2, RowsFrame DEF UploadList, RowsInv, RowsAreOfRecorded
  <2>3. CASE UploadRotate(k)
    BY <2>3, RowsFrame DEF UploadRotate, RowsInv, RowsAreOfRecorded
  <2>4. CASE UploadPlan(k)
    BY <2>4, RowsFrame DEF UploadPlan, RowsInv, RowsAreOfRecorded
  <2>5. ASSUME NEW c \in Channels, UploadSend(k, c) PROVE RowsInv'
    BY <2>5, RowsFrame DEF UploadSend, RowsInv, RowsAreOfRecorded
  <2>6. CASE UploadRecord(k)
    <3>1. RowsAreOfRecorded'
      BY <2>6 DEF UploadRecord, RowsInv, RowsAreOfRecorded, JobIsNotStored
    <3>2. BatchIsNotStored'
      BY <2>6 DEF UploadRecord, RowsInv, RowsAreOfRecorded, BatchIsNotStored, JobIsNotStored
    <3>3. JobIsNotStored'
      BY <2>6 DEF UploadRecord, RowsInv, RowsAreOfRecorded, BatchIsNotStored, JobIsNotStored
    <3> QED BY <3>1, <3>2, <3>3 DEF RowsInv
  <2>7. CASE UploadFanOut(k)
    <3>1. RowsAreOfRecorded'
      BY <2>7 DEF UploadFanOut, UploadEnds, Queue, RowsInv, RowsAreOfRecorded, JobIsNotStored
    <3>2. BatchIsNotStored'
      BY <2>7 DEF UploadFanOut, UploadEnds, Queue, RowsInv, RowsAreOfRecorded, BatchIsNotStored,
         JobIsNotStored
    <3>3. JobIsNotStored'
      BY <2>7 DEF UploadFanOut, UploadEnds, Queue, RowsInv, RowsAreOfRecorded, BatchIsNotStored,
         JobIsNotStored
    <3> QED BY <3>1, <3>2, <3>3 DEF RowsInv
  <2>8. CASE UploadFails(k)
    BY <2>8, RowsFrame DEF UploadFails, UploadEnds, RowsInv, RowsAreOfRecorded
  <2> QED BY <1>1, <2>1, <2>2, <2>3, <2>4, <2>5, <2>6, <2>7, <2>8 DEF Upload
<1>2. ASSUME NEW a \in Admins, Administer(a) PROVE RowsInv'
  <2>1. ASSUME NEW x \in Chats, AddStart(a, x) PROVE RowsInv'
    BY <2>1, RowsFrame DEF AddStart, RowsInv, RowsAreOfRecorded
  <2>2. ASSUME NEW c \in Channels, AddInsert(a, c) PROVE RowsInv'
    BY <2>2, RowsFrame DEF AddInsert, RowsInv, RowsAreOfRecorded
  <2>3. ASSUME NEW c \in Channels, RemoveStart(a, c) PROVE RowsInv'
    BY <2>3, RowsFrame DEF RemoveStart, RowsInv, RowsAreOfRecorded
  <2>4. ASSUME NEW c \in Channels, NEW x \in Chats, UpdateChat(a, c, x) PROVE RowsInv'
    BY <2>4, RowsFrame DEF UpdateChat, RowsInv, RowsAreOfRecorded
  <2>5. CASE EnqueueList(a)
    BY <2>5, RowsFrame DEF EnqueueList, RowsInv, RowsAreOfRecorded
  <2>6. CASE EnqueueInsert(a)
    <3>1. RowsAreOfRecorded'
      BY <2>6 DEF EnqueueInsert, Queue, AdminEnds, RowsInv, RowsAreOfRecorded, JobIsNotStored
    <3>2. BatchIsNotStored'
      BY <2>6 DEF EnqueueInsert, Queue, AdminEnds, RowsInv, RowsAreOfRecorded, BatchIsNotStored,
         JobIsNotStored
    <3>3. JobIsNotStored'
      BY <2>6 DEF EnqueueInsert, Queue, AdminEnds, RowsInv, RowsAreOfRecorded, BatchIsNotStored,
         JobIsNotStored
    <3> QED BY <3>1, <3>2, <3>3 DEF RowsInv
  <2>7. CASE RemoveCount(a)
    BY <2>7, RowsFrame DEF RemoveCount, RowsInv, RowsAreOfRecorded
  <2>8. CASE RemoveLoad(a)
    BY <2>8, RowsFrame DEF RemoveLoad, RowsInv, RowsAreOfRecorded
  <2>9. CASE RemoveSiblings(a)
    BY <2>9, RowsFrame DEF RemoveSiblings, RowsInv, RowsAreOfRecorded
  <2>10. CASE RemoveRotate(a)
    BY <2>10, RowsFrame DEF RemoveRotate, RowsInv, RowsAreOfRecorded
  <2>11. CASE RemoveDelete(a)
    <3>1. RowsAreOfRecorded'
      BY <2>11 DEF RemoveDelete, AdminEnds, RowsInv, RowsAreOfRecorded, JobIsNotStored
    <3>2. BatchIsNotStored'
      BY <2>11 DEF RemoveDelete, AdminEnds, RowsInv, RowsAreOfRecorded, BatchIsNotStored,
         JobIsNotStored
    <3>3. JobIsNotStored'
      BY <2>11 DEF RemoveDelete, AdminEnds, RowsInv, RowsAreOfRecorded, BatchIsNotStored,
         JobIsNotStored
    <3> QED BY <3>1, <3>2, <3>3 DEF RowsInv
  <2>12. CASE AdminFails(a)
    BY <2>12, RowsFrame DEF AdminFails, AdminEnds, RowsInv, RowsAreOfRecorded
  <2> QED BY <1>2, <2>1, <2>2, <2>3, <2>4, <2>5, <2>6, <2>7, <2>8, <2>9, <2>10, <2>11, <2>12
        DEF Administer
<1>3. CASE Health
  <2>1. CASE HealthList
    BY <2>1, RowsFrame DEF HealthList, RowsInv, RowsAreOfRecorded
  <2>2. CASE HealthMark
    BY <2>2, RowsFrame DEF HealthMark, RowsInv, RowsAreOfRecorded
  <2>3. CASE HealthLoad
    BY <2>3, RowsFrame DEF HealthLoad, RowsInv, RowsAreOfRecorded
  <2>4. CASE HealthSiblings
    BY <2>4, RowsFrame DEF HealthSiblings, RowsInv, RowsAreOfRecorded
  <2>5. CASE HealthRotate
    BY <2>5, RowsFrame DEF HealthRotate, RowsInv, RowsAreOfRecorded
  <2>6. ASSUME NEW c \in Channels, HealthProbe(c) PROVE RowsInv'
    BY <2>6, RowsFrame DEF HealthProbe, RowsInv, RowsAreOfRecorded
  <2> QED BY <1>3, <2>1, <2>2, <2>3, <2>4, <2>5, <2>6 DEF Health
<1>4. CASE Replicate
  <2>1. CASE JobsList
    <3>1. \A k \in Chunks, c \in Channels : <<k, c>> \in Rows
      BY DEF Rows
    <3>2. \A k \in Chunks, c \in Channels : InBatch(<<k, c>>) => replica[k][c] = "queued"
      BY DEF InBatch, Pending
    <3>3. BatchIsNotStored'
      BY <2>1, <3>1, <3>2 DEF JobsList, RowsInv, RowsAreOfRecorded, BatchIsNotStored
    <3>4. JobIsNotStored'
      BY <2>1 DEF JobsList, JobIsNotStored
    <3> QED BY <2>1, <3>3, <3>4, RowsFrameJob DEF JobsList
  <2>2. ASSUME NEW r \in Rows, JobNoSource(r) PROVE RowsInv'
    <3>1. r[1] \in Chunks /\ r[2] \in Channels /\ r = <<r[1], r[2]>>
      BY DEF Rows
    <3>2. BatchIsNotStored'
      BY <2>2, <3>1 DEF JobNoSource, NextJob, RowsInv, BatchIsNotStored
    <3>3. JobIsNotStored'
      BY <2>2, <3>1 DEF JobNoSource, NextJob, RowsInv, BatchIsNotStored, JobIsNotStored
    <3> QED BY <2>2, <3>2, <3>3, RowsFrameJob DEF JobNoSource, NextJob
  <2>3. ASSUME NEW r \in Rows, NEW s \in Channels, JobSource(r, s) PROVE RowsInv'
    <3>1. r[1] \in Chunks /\ r[2] \in Channels /\ r = <<r[1], r[2]>>
      BY DEF Rows
    <3>2. BatchIsNotStored'
      BY <2>3, <3>1 DEF JobSource, NextJob, RowsInv, BatchIsNotStored
    <3>3. jChunk' = r[1] /\ jTo' = r[2] /\ jTodo' = [jTodo EXCEPT ![r] = NoChat]
          /\ jTodo[r] # NoChat
      BY <2>3 DEF JobSource, NextJob
    <3>4. r[1] \in recorded /\ replica[r[1]][r[2]] # "stored"
      BY <3>1, <3>3 DEF RowsInv, BatchIsNotStored
    <3>5. jTodo'[<<r[1], r[2]>>] = NoChat
      <4>1. jTodo'[r] = NoChat
        BY <3>3
      <4> QED BY <3>1, <4>1
    <3>6. JobIsNotStored'
      BY <2>3, <3>1, <3>3, <3>4, <3>5 DEF JobSource, JobIsNotStored
    <3> QED BY <2>3, <3>2, <3>6, RowsFrameJob DEF JobSource, NextJob
  <2>4. CASE JobCopy
    BY <2>4, RowsFrameJob DEF JobCopy, RowsInv, BatchIsNotStored, JobIsNotStored
  <2>5. CASE JobNotFound
    BY <2>5, RowsFrameJob DEF JobNotFound, RowsInv, BatchIsNotStored, JobIsNotStored
  <2>6. CASE JobRefused
    BY <2>6, RowsFrameJob DEF JobRefused, RowsInv, BatchIsNotStored, JobIsNotStored
  <2>7. CASE JobMark
    <3>1. RowsAreOfRecorded'
      BY <2>7 DEF JobMark, MarkRow, JobEnds, RowsInv, RowsAreOfRecorded, JobIsNotStored
    <3>2. BatchIsNotStored'
      <4>1. jChunk \in Chunks /\ jTo \in Channels /\ jTodo[<<jChunk, jTo>>] = NoChat
        BY <2>7 DEF JobMark, RowsInv, JobIsNotStored
      <4>2. \A k \in Chunks, c \in Channels :
              replica'[k][c] # replica[k][c] => k = jChunk /\ c = jTo
        BY <2>7, <4>1 DEF JobMark, MarkRow
      <4>3. jTodo' = jTodo /\ recorded' = recorded
        BY <2>7 DEF JobMark, JobEnds
      <4>4. ASSUME NEW k \in Chunks, NEW c \in Channels, jTodo[<<k, c>>] # NoChat
            PROVE  k \in recorded' /\ replica'[k][c] # "stored"
        <5>1. k \in recorded /\ replica[k][c] # "stored"
          BY <4>4 DEF RowsInv, BatchIsNotStored
        <5>2. replica'[k][c] = replica[k][c]
          BY <4>1, <4>2, <4>4
        <5> QED BY <4>3, <5>1, <5>2
      <4> QED BY <4>3, <4>4 DEF BatchIsNotStored
    <3>3. JobIsNotStored'
      BY <2>7 DEF JobMark, MarkRow, JobEnds, RowsInv, RowsAreOfRecorded, BatchIsNotStored,
         JobIsNotStored
    <3> QED BY <3>1, <3>2, <3>3 DEF RowsInv
  <2>8. CASE JobMarkFailed
    <3>1. RowsAreOfRecorded'
      BY <2>8 DEF JobMarkFailed, MarkRow, JobEnds, RowsInv, RowsAreOfRecorded, JobIsNotStored
    <3>2. BatchIsNotStored'
      <4>1. jChunk \in Chunks /\ jTo \in Channels /\ jTodo[<<jChunk, jTo>>] = NoChat
        BY <2>8 DEF JobMarkFailed, RowsInv, JobIsNotStored
      <4>2. \A k \in Chunks, c \in Channels :
              replica'[k][c] # replica[k][c] => k = jChunk /\ c = jTo
        BY <2>8, <4>1 DEF JobMarkFailed, MarkRow
      <4>3. jTodo' = jTodo /\ recorded' = recorded
        BY <2>8 DEF JobMarkFailed, JobEnds
      <4>4. ASSUME NEW k \in Chunks, NEW c \in Channels, jTodo[<<k, c>>] # NoChat
            PROVE  k \in recorded' /\ replica'[k][c] # "stored"
        <5>1. k \in recorded /\ replica[k][c] # "stored"
          BY <4>4 DEF RowsInv, BatchIsNotStored
        <5>2. replica'[k][c] = replica[k][c]
          BY <4>1, <4>2, <4>4
        <5> QED BY <4>3, <5>1, <5>2
      <4> QED BY <4>3, <4>4 DEF BatchIsNotStored
    <3>3. JobIsNotStored'
      BY <2>8 DEF JobMarkFailed, MarkRow, JobEnds, RowsInv, RowsAreOfRecorded, BatchIsNotStored,
         JobIsNotStored
    <3> QED BY <3>1, <3>2, <3>3 DEF RowsInv
  <2>9. CASE JobMarkDead
    BY <2>9, RowsFrameJob DEF JobMarkDead, JobEnds, RowsInv, BatchIsNotStored, JobIsNotStored
  <2> QED BY <1>4, <2>1, <2>2, <2>3, <2>4, <2>5, <2>6, <2>7, <2>8, <2>9 DEF Replicate
<1>5. ASSUME NEW x \in Chats, ChatDies(x) PROVE RowsInv'
  BY <1>5, RowsFrame DEF ChatDies, RowsInv, RowsAreOfRecorded
<1>6. CASE Restart
  BY <1>6 DEF Restart, RowsInv, RowsAreOfRecorded, BatchIsNotStored, JobIsNotStored, NoJobs,
     Rows
<1>7. CASE UNCHANGED vars
  BY <1>7, RowsFrame DEF vars, RowsInv, RowsAreOfRecorded
<1> QED BY <1>1, <1>2, <1>3, <1>4, <1>5, <1>6, <1>7 DEF Next

StoredKept ==
    \A k \in Chunks, c \in Channels :
        replica[k][c] = "stored" =>
            replica'[k][c] = "stored" \/ status'[c] = "none"

LEMMA StoredStep == TypeOK /\ RowsInv /\ [Next]_vars => StoredKept
<1> SUFFICES ASSUME TypeOK, RowsInv, [Next]_vars PROVE StoredKept
  OBVIOUS
<1> USE DEF TypeOK, StoredKept
<1>1. ASSUME NEW k \in Chunks, Upload(k) PROVE StoredKept
  <2>1. CASE UploadLoad(k)
    BY <2>1 DEF UploadLoad
  <2>2. CASE UploadList(k)
    BY <2>2 DEF UploadList
  <2>3. CASE UploadRotate(k)
    BY <2>3 DEF UploadRotate
  <2>4. CASE UploadPlan(k)
    BY <2>4 DEF UploadPlan
  <2>5. ASSUME NEW c \in Channels, UploadSend(k, c) PROVE StoredKept
    BY <2>5 DEF UploadSend
  <2>6. CASE UploadRecord(k)
    BY <2>6 DEF UploadRecord
  <2>7. CASE UploadFanOut(k)
    BY <2>7 DEF UploadFanOut, Queue
  <2>8. CASE UploadFails(k)
    BY <2>8 DEF UploadFails
  <2> QED BY <1>1, <2>1, <2>2, <2>3, <2>4, <2>5, <2>6, <2>7, <2>8 DEF Upload
<1>2. ASSUME NEW a \in Admins, Administer(a) PROVE StoredKept
  <2>1. ASSUME NEW x \in Chats, AddStart(a, x) PROVE StoredKept
    BY <2>1 DEF AddStart
  <2>2. ASSUME NEW c \in Channels, AddInsert(a, c) PROVE StoredKept
    BY <2>2 DEF AddInsert
  <2>3. ASSUME NEW c \in Channels, RemoveStart(a, c) PROVE StoredKept
    BY <2>3 DEF RemoveStart
  <2>4. ASSUME NEW c \in Channels, NEW x \in Chats, UpdateChat(a, c, x) PROVE StoredKept
    BY <2>4 DEF UpdateChat
  <2>5. CASE EnqueueList(a)
    BY <2>5 DEF EnqueueList
  <2>6. CASE EnqueueInsert(a)
    BY <2>6 DEF EnqueueInsert, Queue
  <2>7. CASE RemoveCount(a)
    BY <2>7 DEF RemoveCount
  <2>8. CASE RemoveLoad(a)
    BY <2>8 DEF RemoveLoad
  <2>9. CASE RemoveSiblings(a)
    BY <2>9 DEF RemoveSiblings
  <2>10. CASE RemoveRotate(a)
    BY <2>10 DEF RemoveRotate
  <2>11. CASE RemoveDelete(a)
    BY <2>11 DEF RemoveDelete
  <2>12. CASE AdminFails(a)
    BY <2>12 DEF AdminFails
  <2> QED BY <1>2, <2>1, <2>2, <2>3, <2>4, <2>5, <2>6, <2>7, <2>8, <2>9, <2>10, <2>11, <2>12
        DEF Administer
<1>3. CASE Health
  <2>1. CASE HealthList
    BY <2>1 DEF HealthList
  <2>2. CASE HealthMark
    BY <2>2 DEF HealthMark
  <2>3. CASE HealthLoad
    BY <2>3 DEF HealthLoad
  <2>4. CASE HealthSiblings
    BY <2>4 DEF HealthSiblings
  <2>5. CASE HealthRotate
    BY <2>5 DEF HealthRotate
  <2>6. ASSUME NEW c \in Channels, HealthProbe(c) PROVE StoredKept
    BY <2>6 DEF HealthProbe
  <2> QED BY <1>3, <2>1, <2>2, <2>3, <2>4, <2>5, <2>6 DEF Health
<1>4. CASE Replicate
  <2>1. CASE JobsList
    BY <2>1 DEF JobsList
  <2>2. ASSUME NEW r \in Rows, JobNoSource(r) PROVE StoredKept
    BY <2>2 DEF JobNoSource
  <2>3. ASSUME NEW r \in Rows, NEW s \in Channels, JobSource(r, s) PROVE StoredKept
    BY <2>3 DEF JobSource
  <2>4. CASE JobCopy
    BY <2>4 DEF JobCopy
  <2>5. CASE JobNotFound
    BY <2>5 DEF JobNotFound
  <2>6. CASE JobRefused
    BY <2>6 DEF JobRefused
  <2>7. CASE JobMark
    BY <2>7 DEF JobMark, MarkRow
  <2>8. CASE JobMarkFailed
    BY <2>8 DEF JobMarkFailed, MarkRow, RowsInv, JobIsNotStored
  <2>9. CASE JobMarkDead
    BY <2>9 DEF JobMarkDead
  <2> QED BY <1>4, <2>1, <2>2, <2>3, <2>4, <2>5, <2>6, <2>7, <2>8, <2>9 DEF Replicate
<1>5. ASSUME NEW x \in Chats, ChatDies(x) PROVE StoredKept
  BY <1>5 DEF ChatDies
<1>6. CASE Restart
  BY <1>6 DEF Restart
<1>7. CASE UNCHANGED vars
  BY <1>7 DEF vars
<1> QED BY <1>1, <1>2, <1>3, <1>4, <1>5, <1>6, <1>7 DEF Next

(* A stored copy stays stored as long as its channel is there, whatever     *)
(* uploads, catch-ups, jobs listed before, removals and restarts do.        *)
THEOREM StoredCopiesStay == Spec => StoredStays
<1>1. TypeOK /\ RowsInv /\ [Next]_vars => [StoredKept]_vars
  BY StoredStep
<1> QED BY <1>1, TypeInit, TypeStep, RowsInit, RowsStep, PTL DEF Spec, StoredStays, StoredKept

=============================================================================
