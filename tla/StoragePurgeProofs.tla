------------------------- MODULE StoragePurgeProofs -------------------------
(***************************************************************************)
(* Proofs about StoragePurge for any requests, storages and messages, any   *)
(* batch size and any bounds: type correctness, that nothing of a deleted   *)
(* storage is forgotten, and that the tables and the loop implement Outbox  *)
(* step by step.                                                            *)
(***************************************************************************)
EXTENDS StoragePurge, TLAPS

USE DEF storageVars, requestVars, tableVars, loopVars, Fault, Entries, Unread

-----------------------------------------------------------------------------
(* The type invariant.                                                      *)

LEMMA EntryIsPair == \A e \in Entries : e[1] \in Requests /\ e[2] \in Messages /\ e = <<e[1],
  e[2]>>
BY Z3

LEMMA NoRowIsNoEntry == NoRow \notin Entries
BY DEF NoRow

LEMMA TypeInit == Init => TypeOK
BY StoragePurgeAssumption DEF Init, TypeOK, Statuses

LEMMA TypeStep == TypeOK /\ [Next]_vars => TypeOK'
<1> SUFFICES ASSUME TypeOK, [Next]_vars PROVE TypeOK'
  OBVIOUS
<1> USE StoragePurgeAssumption, NoRowIsNoEntry DEF TypeOK, Statuses
<1>1. ASSUME NEW m \in Messages, Post(m) PROVE TypeOK'
  BY <1>1 DEF Post
<1>2. ASSUME NEW m \in Messages, RecordMessage(m) PROVE TypeOK'
  BY <1>2 DEF RecordMessage
<1>3. ASSUME NEW r \in Requests, NEW S \in SUBSET Storages, Delete(r, S) PROVE TypeOK'
  BY <1>3 DEF Delete
<1>4. ASSUME NEW r \in Requests, NEW s \in Storages, Snapshot(r, s) PROVE TypeOK'
  BY <1>4 DEF Snapshot, MessagesOf
<1>5. ASSUME NEW r \in Requests, NEW s \in Storages, EnqueueAndDelete(r, s) PROVE TypeOK'
  BY <1>5 DEF EnqueueAndDelete, DeleteStorageInTx, Following
<1>6. ASSUME NEW r \in Requests, NEW s \in Storages, DeleteFails(r, s) PROVE TypeOK'
  BY <1>6 DEF DeleteFails
<1>7. CASE RequeueAll
  BY <1>7 DEF RequeueAll, InProgress
<1>8. CASE Requeue
  BY <1>8 DEF Requeue, InProgress
<1>9. CASE ClaimPending
  BY <1>9 DEF ClaimPending, Claimable
<1>10. CASE BatchDone
  BY <1>10 DEF BatchDone
<1>11. ASSUME NEW e \in Entries, NextRow(e) PROVE TypeOK'
  BY <1>11 DEF NextRow
<1>12. CASE DeleteMessageWithToken
  BY <1>12 DEF DeleteMessageWithToken
<1>13. CASE DeleteMessageFails
  BY <1>13 DEF DeleteMessageFails
<1>14. CASE MarkDone \/ MarkFailed \/ MarkRetry
  BY <1>14 DEF MarkDone, MarkFailed, MarkRetry, MarkAs
<1>15. CASE MarkLost
  BY <1>15 DEF MarkLost
<1>16. CASE TryCompleteJobs
  BY <1>16 DEF TryCompleteJobs
<1>17. CASE TickFails
  BY <1>17 DEF TickFails
<1>18. CASE Restart
  BY <1>18 DEF Restart
<1>19. CASE UNCHANGED vars
  BY <1>19 DEF vars
<1> QED
  BY <1>1, <1>2, <1>3, <1>4, <1>5, <1>6, <1>7, <1>8, <1>9, <1>10, <1>11, <1>12, <1>13,
     <1>14, <1>15, <1>16, <1>17, <1>18, <1>19 DEF Next, Loop

(* Every variable stays in its range, and the loop holds a row from the     *)
(* call of Telegram to its mark, for any numbers of requests, storages and  *)
(* messages and any bounds.                                                 *)
THEOREM TypeCorrect == Spec => []TypeOK
BY TypeInit, TypeStep, PTL DEF Spec

-----------------------------------------------------------------------------
(* The inductive invariant.                                                 *)

(* What a request has read is of the storage it is about to delete, and was *)
(* posted.                                                                  *)
ListsAreOfTheirStorage ==
    \A r \in Requests : \A m \in list[r] : m \in posted /\ req[r] = Home[m]

(* A request deletes a storage once: its job is written when the storage is *)
(* no longer on its list.                                                   *)
JobsAreWrittenOnce ==
    \A r \in Requests, s \in Storages :
        /\ <<r, s>> \in jobs \cup closed => req[r] # "idle" /\ s \notin todo[r] /\ req[r] # s
        /\ req[r] = s => s \notin todo[r]

(* The row of a message belongs to a job, open or completed.                *)
RowsHaveJobs ==
    \A r \in Requests, m \in Messages :
        status[<<r, m>>] # "none" => <<r, Home[m]>> \in jobs \cup closed /\ m \in posted

(* The loop works on rows in progress that nobody requeues meanwhile, and a *)
(* row is marked done when its message is gone or cannot be deleted.        *)
HandIsInProgress ==
    /\ \A e \in batch : status[e] = "in_progress"
    /\ loop \notin {"row", "call", "mark"} => batch = {}
    /\ loop \in {"call", "mark"} => row \notin batch /\ status[row] = "in_progress"
    /\ loop = "mark" /\ answer = "ok" => row[2] \notin chat \ Stuck

PurgeInv ==
    /\ TypeOK /\ ListsAreOfTheirStorage /\ JobsAreWrittenOnce /\ RowsHaveJobs
    /\ HandIsInProgress /\ NothingForgotten /\ ClosedIsDrained

LEMMA PurgeInit == Init => PurgeInv
<1> SUFFICES ASSUME Init PROVE PurgeInv
  OBVIOUS
<1>1. TypeOK
  BY TypeInit
<1> QED
  BY <1>1 DEF Init, PurgeInv, ListsAreOfTheirStorage, JobsAreWrittenOnce, RowsHaveJobs,
              HandIsInProgress, NothingForgotten, ClosedIsDrained

LEMMA PurgeStep == PurgeInv /\ [Next]_vars => PurgeInv'
<1> SUFFICES ASSUME PurgeInv, [Next]_vars PROVE PurgeInv'
  OBVIOUS
<1>0. TypeOK /\ TypeOK'
  BY TypeStep DEF PurgeInv
<1> USE StoragePurgeAssumption, <1>0, NoRowIsNoEntry, EntryIsPair
    DEF PurgeInv, TypeOK, Statuses
<1>1. ASSUME NEW m \in Messages, Post(m) PROVE PurgeInv'
  <2>1. ListsAreOfTheirStorage'
    BY <1>1 DEF Post, ListsAreOfTheirStorage
  <2>2. JobsAreWrittenOnce'
    BY <1>1 DEF Post, JobsAreWrittenOnce
  <2>3. RowsHaveJobs'
    BY <1>1 DEF Post, RowsHaveJobs
  <2>4. HandIsInProgress'
    <3>1. ASSUME NEW e \in Entries, status[e] # "none" PROVE e[2] \in posted
      <4>1. e[1] \in Requests /\ e[2] \in Messages /\ status[<<e[1], e[2]>>] # "none"
        BY <3>1
      <4> QED BY <4>1 DEF RowsHaveJobs
    <3> QED BY <1>1, <3>1 DEF Post, HandIsInProgress
  <2>5. NothingForgotten'
    BY <1>1 DEF Post, NothingForgotten, Open
  <2>6. ClosedIsDrained'
    BY <1>1 DEF Post, ClosedIsDrained, Drained, Open, JobOf
  <2> QED BY <2>1, <2>2, <2>3, <2>4, <2>5, <2>6
<1>2. ASSUME NEW m \in Messages, RecordMessage(m) PROVE PurgeInv'
  BY <1>2 DEF RecordMessage,
     ListsAreOfTheirStorage, JobsAreWrittenOnce, RowsHaveJobs, HandIsInProgress,
     NothingForgotten,
     ClosedIsDrained, Drained, Open, JobOf
<1>3. ASSUME NEW r \in Requests, NEW S \in SUBSET Storages, Delete(r, S) PROVE PurgeInv'
  <2>1. ListsAreOfTheirStorage'
    BY <1>3 DEF Delete, ListsAreOfTheirStorage
  <2>2. JobsAreWrittenOnce'
    <3> SUFFICES ASSUME NEW q \in Requests, NEW t \in Storages
                 PROVE  /\ <<q, t>> \in jobs' \cup closed'
                              => req'[q] # "idle" /\ t \notin todo'[q] /\ req'[q] # t
                        /\ req'[q] = t => t \notin todo'[q]
      BY DEF JobsAreWrittenOnce
    <3>1. /\ <<q, t>> \in jobs \cup closed => req[q] # "idle" /\ t \notin todo[q] /\ req[q] # t
          /\ req[q] = t => t \notin todo[q]
      BY DEF JobsAreWrittenOnce
    <3>2. CASE q = r
      BY <1>3, <3>1, <3>2 DEF Delete
    <3> QED BY <1>3, <3>1, <3>2 DEF Delete
  <2>3. RowsHaveJobs'
    BY <1>3 DEF Delete, RowsHaveJobs
  <2>4. HandIsInProgress'
    BY <1>3 DEF Delete, HandIsInProgress
  <2>5. NothingForgotten'
    BY <1>3 DEF Delete, NothingForgotten, Open
  <2>6. ClosedIsDrained'
    BY <1>3 DEF Delete, ClosedIsDrained, Drained, Open, JobOf
  <2> QED BY <2>1, <2>2, <2>3, <2>4, <2>5, <2>6
<1>4. ASSUME NEW r \in Requests, NEW s \in Storages, Snapshot(r, s) PROVE PurgeInv'
  <2>1. ListsAreOfTheirStorage'
    BY <1>4 DEF Snapshot, MessagesOf, ListsAreOfTheirStorage
  <2>2. JobsAreWrittenOnce'
    <3> SUFFICES ASSUME NEW q \in Requests, NEW t \in Storages
                 PROVE  /\ <<q, t>> \in jobs' \cup closed'
                              => req'[q] # "idle" /\ t \notin todo'[q] /\ req'[q] # t
                        /\ req'[q] = t => t \notin todo'[q]
      BY DEF JobsAreWrittenOnce
    <3>1. /\ <<q, t>> \in jobs \cup closed => req[q] # "idle" /\ t \notin todo[q] /\ req[q] # t
          /\ req[q] = t => t \notin todo[q]
      BY DEF JobsAreWrittenOnce
    <3>2. CASE q = r
      BY <1>4, <3>1, <3>2 DEF Snapshot
    <3> QED BY <1>4, <3>1, <3>2 DEF Snapshot
  <2>3. RowsHaveJobs'
    BY <1>4 DEF Snapshot, MessagesOf, RowsHaveJobs
  <2>4. HandIsInProgress'
    BY <1>4 DEF Snapshot, MessagesOf, HandIsInProgress
  <2>5. NothingForgotten'
    BY <1>4 DEF Snapshot, MessagesOf, NothingForgotten, Open
  <2>6. ClosedIsDrained'
    BY <1>4 DEF Snapshot, MessagesOf, ClosedIsDrained, Drained, Open, JobOf
  <2> QED BY <2>1, <2>2, <2>3, <2>4, <2>5, <2>6
<1>5. ASSUME NEW r \in Requests, NEW s \in Storages, EnqueueAndDelete(r, s) PROVE PurgeInv'
  <2>1. ListsAreOfTheirStorage'
    BY <1>5 DEF EnqueueAndDelete, DeleteStorageInTx, Following, ListsAreOfTheirStorage
  <2>2. JobsAreWrittenOnce'
    <3> SUFFICES ASSUME NEW q \in Requests, NEW t \in Storages
                 PROVE  /\ <<q, t>> \in jobs' \cup closed'
                              => req'[q] # "idle" /\ t \notin todo'[q] /\ req'[q] # t
                        /\ req'[q] = t => t \notin todo'[q]
      BY DEF JobsAreWrittenOnce
    <3>1. /\ <<q, t>> \in jobs \cup closed => req[q] # "idle" /\ t \notin todo[q] /\ req[q] # t
          /\ req[q] = t => t \notin todo[q]
      BY DEF JobsAreWrittenOnce
    <3>2. closed' = closed /\ todo' = todo /\ jobs' \subseteq jobs \cup {<<r, s>>}
      BY <1>5 DEF EnqueueAndDelete
    <3>3. CASE q = r
      <4>1. req[q] = s /\ s \notin todo[q]
        BY <1>5, <3>3 DEF EnqueueAndDelete, JobsAreWrittenOnce
      <4>2. req'[q] \in {"done", "snapshot"}
        BY <1>5, <3>3 DEF EnqueueAndDelete, Following
      <4> QED BY <3>1, <3>2, <3>3, <4>1, <4>2
    <3>4. CASE q # r
      <4>1. req'[q] = req[q]
        BY <1>5, <3>4 DEF EnqueueAndDelete
      <4>2. <<q, t>> \in jobs' \cup closed' => <<q, t>> \in jobs \cup closed
        BY <3>2, <3>4
      <4> QED BY <3>1, <3>2, <4>1, <4>2
    <3> QED BY <3>3, <3>4
  <2>3. RowsHaveJobs'
    BY <1>5 DEF EnqueueAndDelete, DeleteStorageInTx, Following, ListsAreOfTheirStorage,
        RowsHaveJobs
  <2>4. HandIsInProgress'
    <3>1. \A e \in Entries : status[e] = "in_progress" => status'[e] = "in_progress"
      <4> SUFFICES ASSUME NEW e \in Entries, status[e] = "in_progress", e[1] = r,
                          e[2] \in list[r]
                   PROVE  FALSE
        BY <1>5 DEF EnqueueAndDelete
      <4>1. <<r, Home[e[2]]>> \in jobs \cup closed /\ req[r] = Home[e[2]]
        BY DEF RowsHaveJobs, ListsAreOfTheirStorage
      <4> QED BY <4>1 DEF JobsAreWrittenOnce
    <3>2. UNCHANGED <<chat, batch, row, answer, loop>>
      BY <1>5 DEF EnqueueAndDelete
    <3> QED BY <3>1, <3>2 DEF HandIsInProgress
  <2>5. NothingForgotten'
    BY <1>5 DEF EnqueueAndDelete, DeleteStorageInTx, Following, NothingForgotten, Open
  <2>6. ClosedIsDrained'
    BY <1>5 DEF EnqueueAndDelete, DeleteStorageInTx, Following, ListsAreOfTheirStorage,
        JobsAreWrittenOnce, ClosedIsDrained, Drained, Open, JobOf
  <2> QED BY <2>1, <2>2, <2>3, <2>4, <2>5, <2>6
<1>6. ASSUME NEW r \in Requests, NEW s \in Storages, DeleteFails(r, s) PROVE PurgeInv'
  <2>1. ListsAreOfTheirStorage'
    BY <1>6 DEF DeleteFails, ListsAreOfTheirStorage
  <2>2. JobsAreWrittenOnce'
    <3> SUFFICES ASSUME NEW q \in Requests, NEW t \in Storages
                 PROVE  /\ <<q, t>> \in jobs' \cup closed'
                              => req'[q] # "idle" /\ t \notin todo'[q] /\ req'[q] # t
                        /\ req'[q] = t => t \notin todo'[q]
      BY DEF JobsAreWrittenOnce
    <3>1. /\ <<q, t>> \in jobs \cup closed => req[q] # "idle" /\ t \notin todo[q] /\ req[q] # t
          /\ req[q] = t => t \notin todo[q]
      BY DEF JobsAreWrittenOnce
    <3>2. CASE q = r
      BY <1>6, <3>1, <3>2 DEF DeleteFails
    <3> QED BY <1>6, <3>1, <3>2 DEF DeleteFails
  <2>3. RowsHaveJobs'
    BY <1>6 DEF DeleteFails, RowsHaveJobs
  <2>4. HandIsInProgress'
    BY <1>6 DEF DeleteFails, HandIsInProgress
  <2>5. NothingForgotten'
    BY <1>6 DEF DeleteFails, NothingForgotten, Open
  <2>6. ClosedIsDrained'
    BY <1>6 DEF DeleteFails, ClosedIsDrained, Drained, Open, JobOf
  <2> QED BY <2>1, <2>2, <2>3, <2>4, <2>5, <2>6
<1>7. CASE RequeueAll
  <2>1. ListsAreOfTheirStorage'
    BY <1>7 DEF RequeueAll, InProgress, ListsAreOfTheirStorage
  <2>2. JobsAreWrittenOnce'
    BY <1>7 DEF RequeueAll, InProgress, JobsAreWrittenOnce
  <2>3. RowsHaveJobs'
    BY <1>7 DEF RequeueAll, InProgress, RowsHaveJobs
  <2>4. HandIsInProgress'
    BY <1>7 DEF RequeueAll, InProgress, HandIsInProgress
  <2>5. NothingForgotten'
    BY <1>7 DEF RequeueAll, InProgress, NothingForgotten, Open
  <2>6. ClosedIsDrained'
    BY <1>7 DEF RequeueAll, InProgress, ClosedIsDrained, Drained, Open, JobOf
  <2> QED BY <2>1, <2>2, <2>3, <2>4, <2>5, <2>6
<1>8. CASE Requeue
  <2>1. ListsAreOfTheirStorage'
    BY <1>8 DEF Requeue, InProgress, ListsAreOfTheirStorage
  <2>2. JobsAreWrittenOnce'
    BY <1>8 DEF Requeue, InProgress, JobsAreWrittenOnce
  <2>3. RowsHaveJobs'
    BY <1>8 DEF Requeue, InProgress, RowsHaveJobs
  <2>4. HandIsInProgress'
    BY <1>8 DEF Requeue, InProgress, HandIsInProgress
  <2>5. NothingForgotten'
    <3>1. \A e \in Entries : status'[e] # status[e] => Open(e)
          /\ status'[e] \in {"pending", "in_progress"}
      BY <1>8 DEF Requeue, InProgress, Open
    <3>2. UNCHANGED <<chat, alive, missed>>
      BY <1>8 DEF Requeue
    <3>3. \A r \in Requests, m \in Messages : <<r, m>> \in Entries
      OBVIOUS
    <3> QED BY <3>1, <3>2, <3>3 DEF NothingForgotten, Open
  <2>6. ClosedIsDrained'
    BY <1>8 DEF Requeue, InProgress, ClosedIsDrained, Drained, Open, JobOf
  <2> QED BY <2>1, <2>2, <2>3, <2>4, <2>5, <2>6
<1>9. CASE ClaimPending
  <2>1. ListsAreOfTheirStorage'
    BY <1>9 DEF ClaimPending, Claimable, ListsAreOfTheirStorage
  <2>2. JobsAreWrittenOnce'
    BY <1>9 DEF ClaimPending, Claimable, JobsAreWrittenOnce
  <2>3. RowsHaveJobs'
    BY <1>9 DEF ClaimPending, Claimable, RowsHaveJobs
  <2>4. HandIsInProgress'
    BY <1>9 DEF ClaimPending, Claimable, HandIsInProgress
  <2>5. NothingForgotten'
    <3>1. \A e \in Entries : status'[e] # status[e] => Open(e)
          /\ status'[e] \in {"pending", "in_progress"}
      BY <1>9 DEF ClaimPending, Claimable, Open
    <3>2. UNCHANGED <<chat, alive, missed>>
      BY <1>9 DEF ClaimPending
    <3>3. \A r \in Requests, m \in Messages : <<r, m>> \in Entries
      OBVIOUS
    <3> QED BY <3>1, <3>2, <3>3 DEF NothingForgotten, Open
  <2>6. ClosedIsDrained'
    BY <1>9 DEF ClaimPending, Claimable, ClosedIsDrained, Drained, Open, JobOf
  <2> QED BY <2>1, <2>2, <2>3, <2>4, <2>5, <2>6
<1>10. CASE BatchDone
  BY <1>10 DEF BatchDone,
     ListsAreOfTheirStorage, JobsAreWrittenOnce, RowsHaveJobs, HandIsInProgress,
     NothingForgotten,
     ClosedIsDrained, Drained, Open, JobOf
<1>11. ASSUME NEW e \in Entries, NextRow(e) PROVE PurgeInv'
  BY <1>11 DEF NextRow,
     ListsAreOfTheirStorage, JobsAreWrittenOnce, RowsHaveJobs, HandIsInProgress,
     NothingForgotten,
     ClosedIsDrained, Drained, Open, JobOf
<1>12. CASE DeleteMessageWithToken
  BY <1>12 DEF DeleteMessageWithToken,
     ListsAreOfTheirStorage, JobsAreWrittenOnce, RowsHaveJobs, HandIsInProgress,
     NothingForgotten,
     ClosedIsDrained, Drained, Open, JobOf
<1>13. CASE DeleteMessageFails
  BY <1>13 DEF DeleteMessageFails,
     ListsAreOfTheirStorage, JobsAreWrittenOnce, RowsHaveJobs, HandIsInProgress,
     NothingForgotten,
     ClosedIsDrained, Drained, Open, JobOf
<1>14. CASE MarkDone \/ MarkFailed \/ MarkRetry
  <2>1. ListsAreOfTheirStorage'
    BY <1>14 DEF MarkDone, MarkFailed, MarkRetry, MarkAs, ListsAreOfTheirStorage
  <2>2. JobsAreWrittenOnce'
    BY <1>14 DEF MarkDone, MarkFailed, MarkRetry, MarkAs, JobsAreWrittenOnce
  <2>3. RowsHaveJobs'
    <3>0. row \in Entries /\ jobs' = jobs /\ closed' = closed /\ UNCHANGED <<chat, alive,
          missed, posted>>
      BY <1>14 DEF MarkDone, MarkFailed, MarkRetry, MarkAs
    <3>1. status[row] = "in_progress"
      BY <1>14 DEF MarkDone, MarkFailed, MarkRetry, MarkAs, HandIsInProgress
    <3>2. \A e \in Entries : e # row => status'[e] = status[e]
      BY <1>14 DEF MarkDone, MarkFailed, MarkRetry, MarkAs
    <3>3. SUFFICES ASSUME NEW r \in Requests, NEW m \in Messages, status'[<<r, m>>] # "none"
                 PROVE  <<r, Home[m]>> \in jobs \cup closed /\ m \in posted
      BY <3>0 DEF RowsHaveJobs
    <3>4. status[<<r, m>>] # "none"
      BY <3>1, <3>2, <3>3
    <3> QED BY <3>4 DEF RowsHaveJobs
  <2>4. HandIsInProgress'
    BY <1>14 DEF MarkDone, MarkFailed, MarkRetry, MarkAs, ListsAreOfTheirStorage,
        RowsHaveJobs, JobsAreWrittenOnce, HandIsInProgress
  <2>5. NothingForgotten'
    <3>0. row \in Entries /\ jobs' = jobs /\ closed' = closed /\ UNCHANGED <<chat, alive,
          missed, posted>>
      BY <1>14 DEF MarkDone, MarkFailed, MarkRetry, MarkAs
    <3>1. status[row] = "in_progress"
      BY <1>14 DEF MarkDone, MarkFailed, MarkRetry, MarkAs, HandIsInProgress
    <3>2. \A e \in Entries : e # row => status'[e] = status[e]
      BY <1>14 DEF MarkDone, MarkFailed, MarkRetry, MarkAs
    <3>3. \/ status'[row] \in {"pending", "failed"}
          \/ row[2] \notin chat \ Stuck
      BY <1>14 DEF MarkDone, MarkFailed, MarkRetry, MarkAs, HandIsInProgress
    <3> SUFFICES ASSUME NEW m \in chat, Home[m] \notin alive
                 PROVE  \/ \E r \in Requests : status'[<<r, m>>] \in {"pending", "in_progress",
                           "failed"}
                        \/ m \in Stuck \cup missed
      BY <3>0 DEF NothingForgotten
    <3>4. CASE m = row[2]
      BY <3>0, <3>3, <3>4
    <3>5. CASE m # row[2]
      <4>1. \A r \in Requests : status'[<<r, m>>] = status[<<r, m>>]
        BY <3>2, <3>5
      <4> QED BY <4>1 DEF NothingForgotten
    <3> QED BY <3>4, <3>5
  <2>6. ClosedIsDrained'
    <3>0. row \in Entries /\ jobs' = jobs /\ closed' = closed /\ UNCHANGED <<chat, alive,
          missed, posted>>
      BY <1>14 DEF MarkDone, MarkFailed, MarkRetry, MarkAs
    <3>1. status[row] = "in_progress"
      BY <1>14 DEF MarkDone, MarkFailed, MarkRetry, MarkAs, HandIsInProgress
    <3>2. \A e \in Entries : e # row => status'[e] = status[e]
      BY <1>14 DEF MarkDone, MarkFailed, MarkRetry, MarkAs
    <3>3. Open(row)
      BY <3>1 DEF Open
    <3> SUFFICES ASSUME NEW j \in closed, NEW e \in Entries, JobOf(e) = j
                 PROVE  ~Open(e)'
      BY <3>0 DEF ClosedIsDrained, Drained, JobOf
    <3>4. ~Open(e) /\ e # row
      BY <3>3 DEF ClosedIsDrained, Drained
    <3> QED BY <3>2, <3>4 DEF Open
  <2> QED BY <2>1, <2>2, <2>3, <2>4, <2>5, <2>6
<1>15. CASE MarkLost
  BY <1>15 DEF MarkLost,
     ListsAreOfTheirStorage, JobsAreWrittenOnce, RowsHaveJobs, HandIsInProgress,
     NothingForgotten,
     ClosedIsDrained, Drained, Open, JobOf
<1>16. CASE TryCompleteJobs
  BY <1>16 DEF TryCompleteJobs,
     ListsAreOfTheirStorage, JobsAreWrittenOnce, RowsHaveJobs, HandIsInProgress,
     NothingForgotten,
     ClosedIsDrained, Drained, Open, JobOf
<1>17. CASE TickFails
  BY <1>17 DEF TickFails,
     ListsAreOfTheirStorage, JobsAreWrittenOnce, RowsHaveJobs, HandIsInProgress,
     NothingForgotten,
     ClosedIsDrained, Drained, Open, JobOf
<1>18. CASE Restart
  BY <1>18 DEF Restart,
     ListsAreOfTheirStorage, JobsAreWrittenOnce, RowsHaveJobs, HandIsInProgress,
     NothingForgotten,
     ClosedIsDrained, Drained, Open, JobOf
<1>19. CASE UNCHANGED vars
  BY <1>19 DEF vars,
     ListsAreOfTheirStorage, JobsAreWrittenOnce, RowsHaveJobs, HandIsInProgress,
     NothingForgotten,
     ClosedIsDrained, Drained, Open, JobOf
<1> QED
  BY <1>1, <1>2, <1>3, <1>4, <1>5, <1>6, <1>7, <1>8, <1>9, <1>10, <1>11, <1>12, <1>13,
     <1>14, <1>15, <1>16, <1>17, <1>18, <1>19 DEF Next, Loop

(* The tables of the outbox, run purge: a message of a deleted storage that *)
(* is still in Telegram is owed, given up, undeletable or was never in the  *)
(* tables when they were read, and a completed job has nothing left.        *)
THEOREM OutboxHoldsAlways == Spec => []OutboxHolds
<1>1. PurgeInv => OutboxHolds
  BY DEF PurgeInv, OutboxHolds
<1> QED BY <1>1, PurgeInit, PurgeStep, PTL DEF Spec
-----------------------------------------------------------------------------
(* The tables and the loop implement Outbox: a step is a step of Outbox or  *)
(* leaves what is in Telegram, dropped, owed, settled and tried alone.      *)

LEMMA SameEntries == Abstract!Entries = Entries
BY DEF Abstract!Entries

LEMMA DropsAndOwes ==
  ASSUME PurgeInv, NEW r \in Requests, NEW s \in Storages, EnqueueAndDelete(r, s)
  PROVE  Abstract!Drop
<1> USE DEF PurgeInv, TypeOK
<1> DEFINE E == {e \in Entries : e[1] = r /\ e[2] \in list[r]}
<1>1. \A e \in E : Home[e[2]] = s
  BY DEF ListsAreOfTheirStorage, EnqueueAndDelete
<1>2. \A e \in E : status[e] = "none"
  <2> SUFFICES ASSUME NEW e \in E, status[e] # "none" PROVE FALSE
    OBVIOUS
  <2>1. e[2] \in Messages /\ status[<<r, e[2]>>] # "none"
    BY EntryIsPair
  <2>2. <<r, Home[e[2]]>> \in jobs \cup closed /\ req[r] = s /\ Home[e[2]] = s
    BY <1>1, <2>1 DEF RowsHaveJobs, EnqueueAndDelete
  <2> QED BY <2>2 DEF JobsAreWrittenOnce
<1>3. status' = [e \in Entries |-> IF e \in E THEN "pending" ELSE status[e]]
  BY DEF EnqueueAndDelete
<1>4. E \cap (Owed \cup Settled) = {}
  BY <1>2 DEF Owed, Settled, Open
<1>5. Owed' = Owed \cup E /\ Settled' = Settled
  BY <1>2, <1>3 DEF Owed, Settled, Open
<1>6. (Storages \ alive)' = (Storages \ alive) \cup {s} /\ chat' = chat /\ attempts' = attempts
  BY DEF EnqueueAndDelete, DeleteStorageInTx
<1>7. E \in SUBSET {e \in Abstract!Entries : Home[Abstract!Message(e)] = s}
  BY <1>1, SameEntries DEF Abstract!Message
<1> QED BY <1>4, <1>5, <1>6, <1>7 DEF Abstract!Drop

LEMMA ClaimTries == PurgeInv /\ ClaimPending => Abstract!Try
<1> SUFFICES ASSUME PurgeInv, ClaimPending PROVE Abstract!Try
  OBVIOUS
<1>1. PICK B \in SUBSET Claimable :
        /\ status' = [e \in Entries |-> IF e \in B THEN "in_progress" ELSE status[e]]
        /\ attempts' = [e \in Entries |-> IF e \in B THEN attempts[e] + 1 ELSE attempts[e]]
  BY DEF ClaimPending
<1>2. B \in SUBSET Owed
  BY DEF Claimable, Owed, Open
<1>3. Owed' = Owed /\ Settled' = Settled
  BY <1>1 DEF Owed, Settled, Open, Claimable
<1>4. alive' = alive /\ chat' = chat
  BY DEF ClaimPending
<1> QED BY <1>1, <1>2, <1>3, <1>4, SameEntries DEF Abstract!Try

LEMMA AbstractStep == PurgeInv /\ [Next]_vars => [Abstract!Next]_(Abstract!outboxVars)
<1> SUFFICES ASSUME PurgeInv, [Next]_vars PROVE Abstract!Next \/ UNCHANGED Abstract!outboxVars
  OBVIOUS
<1> DEFINE Stutter == UNCHANGED Abstract!outboxVars
<1>0. UNCHANGED <<chat, alive, status, attempts>> => Stutter
  BY DEF Abstract!outboxVars, Owed, Settled, Open
<1> HIDE DEF Stutter
<1>1. ASSUME NEW m \in Messages, Post(m) PROVE Abstract!Post
  BY <1>1 DEF Post, Abstract!Post, Owed, Settled, Open
<1>2. ASSUME NEW m \in Messages, RecordMessage(m) PROVE Stutter
  BY <1>0, <1>2 DEF RecordMessage
<1>3. ASSUME NEW r \in Requests, NEW S \in SUBSET Storages, Delete(r, S) PROVE Stutter
  BY <1>0, <1>3 DEF Delete
<1>4. ASSUME NEW r \in Requests, NEW s \in Storages, Snapshot(r, s) PROVE Stutter
  BY <1>0, <1>4 DEF Snapshot
<1>5. ASSUME NEW r \in Requests, NEW s \in Storages, EnqueueAndDelete(r, s) PROVE Abstract!Drop
  BY <1>5, DropsAndOwes
<1>6. ASSUME NEW r \in Requests, NEW s \in Storages, DeleteFails(r, s) PROVE Stutter
  BY <1>0, <1>6 DEF DeleteFails
<1>7. CASE RequeueAll \/ Requeue
  <2>1. Owed' = Owed /\ Settled' = Settled
    BY <1>7 DEF RequeueAll, Requeue, InProgress, Owed, Settled, Open
  <2> QED BY <1>7, <2>1 DEF RequeueAll, Requeue, Stutter, Abstract!outboxVars
<1>8. CASE ClaimPending
  BY <1>8, ClaimTries DEF Abstract!Next
<1>9. CASE BatchDone \/ TryCompleteJobs \/ TickFails \/ MarkLost \/ Restart
  BY <1>0, <1>9 DEF BatchDone, TryCompleteJobs, TickFails, MarkLost, Restart, Stutter
<1>10. ASSUME NEW e \in Entries, NextRow(e) PROVE Stutter
  BY <1>0, <1>10 DEF NextRow
<1>11. CASE DeleteMessageWithToken \/ DeleteMessageFails
  <2>1. row \in Owed
    BY <1>11, NoRowIsNoEntry DEF DeleteMessageWithToken, DeleteMessageFails, PurgeInv, TypeOK,
         HandIsInProgress, Owed, Open
  <2>2. UNCHANGED <<alive, status, attempts>> /\ Owed' = Owed /\ Settled' = Settled
    BY <1>11 DEF DeleteMessageWithToken, DeleteMessageFails, Owed, Settled, Open
  <2>3. chat' = chat \/ chat' = chat \ {row[2]}
    BY <1>11 DEF DeleteMessageWithToken, DeleteMessageFails
  <2> QED BY <1>0, <2>1, <2>2, <2>3 DEF Abstract!Next, Abstract!Remove, Abstract!Message,
        Stutter
<1>12. CASE MarkDone \/ MarkFailed \/ MarkRetry
  <2>1. row \in Entries /\ status[row] = "in_progress"
    BY <1>12, NoRowIsNoEntry DEF MarkDone, MarkFailed, MarkRetry, MarkAs, PurgeInv, TypeOK,
         HandIsInProgress
  <2>2. UNCHANGED <<chat, alive, attempts>> /\ status \in [Entries -> Statuses]
    BY <1>12 DEF MarkDone, MarkFailed, MarkRetry, MarkAs, PurgeInv, TypeOK
  <2>3. CASE MarkRetry
    <3>1. Owed' = Owed /\ Settled' = Settled
      BY <2>1, <2>2, <2>3 DEF MarkRetry, MarkAs, Owed, Settled, Open
    <3> QED BY <2>2, <3>1 DEF Stutter, Abstract!outboxVars
  <2>4. CASE MarkDone \/ MarkFailed
    <3>1. Owed' = Owed \ {row} /\ Settled' = Settled \cup {row} /\ row \in Owed
      BY <2>1, <2>2, <2>4 DEF MarkDone, MarkFailed, MarkAs, Owed, Settled, Open
    <3>2. row[2] \notin chat \ Stuck \/ attempts[row] >= MaxAttempts
      BY <2>4 DEF MarkDone, MarkFailed, MarkAs, PurgeInv, HandIsInProgress, IsTerminalAttempt
    <3> QED BY <2>2, <3>1, <3>2 DEF Abstract!Next, Abstract!Settle, Abstract!Message
  <2> QED BY <1>12, <2>3, <2>4
<1>13. CASE UNCHANGED vars
  BY <1>0, <1>13 DEF vars, Stutter
<1> QED
  BY <1>1, <1>2, <1>3, <1>4, <1>5, <1>6, <1>7, <1>8, <1>9, <1>10, <1>11, <1>12, <1>13
  DEF Next, Loop, Abstract!Next, Stutter

(* The purge implements Outbox: in the step that drops a storage the        *)
(* messages read for it become owed, only owed messages leave Telegram, and *)
(* one is settled only when it is gone, undeletable, or tried as often as   *)
(* allowed; after lost answers, lost marks and restarts too (run_once).     *)
THEOREM RefinesOutbox == Spec => Abstract!Safe
<1>1. Init => Abstract!Init
  BY SameEntries, Zenon DEF Init, Abstract!Init, Owed, Settled, Open
<1> QED BY <1>1, PurgeInit, PurgeStep, AbstractStep, PTL DEF Spec, Abstract!Safe
=============================================================================
