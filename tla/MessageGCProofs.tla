-------------------------- MODULE MessageGCProofs --------------------------
(***************************************************************************)
(* Proofs about MessageGC for any set of requests, rows, paths and channels *)
(* and any bounds: type correctness and, for a storage without thumbnails,  *)
(* that purges never take a message from a file that was uploaded or copied *)
(* from a file that outlived the copy.                                      *)
(***************************************************************************)
EXTENDS MessageGC, TLAPS

USE DEF Exists, LiveAt, TrashedAt, At, GoTo, Go, Finish,
        PurgeThen, RenameThen, NoReplica, Queued,
        NoReplicas, Stored, Messages, NoMessage, NoJob, FreePaths,
        fileVars, chatVars, gcVars, boundVars, reqVars, pathVars, copyVars, purgeVars

-----------------------------------------------------------------------------
(* The type invariant.                                                      *)

LEMMA PlaceNames ==
  {"idle", "list", "erase", "resolve", "readSource", "insert", "readChunks",
   "writeChunks", "readReplicas", "writeReplicas", "restoreResolve",
   "moveTrashed", "restore"} \subseteq Places
BY DEF Places

LEMMA TypeInit == Init => TypeOK
<1> SUFFICES ASSUME Init PROVE TypeOK
  OBVIOUS
<1>1. NoReplicas \in ReplicaRows
  BY DEF ReplicaRows
<1>2. NoJob \in JobState /\ NoMessage \in Messages
  BY GCAssumption DEF JobState
<1>3. HoldsItsData
  BY DEF Init, HoldsItsData
<1>4. /\ rowSt \in [Rows -> {"none", "live", "trash"}]
      /\ path \in [Rows -> Paths \cup {NoPath}]
      /\ hasChunks \in [Rows -> BOOLEAN]
      /\ replica \in [Rows -> ReplicaRows]
      /\ thumb \in [Rows -> Nat]
      /\ kept \in [Rows -> BOOLEAN]
      /\ telegram \in [Channels -> SUBSET Nat]
      /\ nextId \in [Channels -> Nat \ {0}]
  BY <1>1 DEF Init
<1>5. /\ at \in [Requests -> Places]
      /\ after \in [Requests -> {"idle", "readSource", "restore"}]
  BY PlaceNames DEF Init
<1>6. /\ got \in [Requests -> ReplicaRows]
      /\ gcNow \in [Requests -> Messages]
      /\ job \in JobState
  BY <1>1, <1>2 DEF Init
<1> QED BY <1>3, <1>4, <1>5, <1>6 DEF Init, TypeOK

LEMMA TypeStep == TypeOK /\ [Next]_vars => TypeOK'
<1> SUFFICES ASSUME TypeOK, [Next]_vars PROVE TypeOK'
  OBVIOUS
<1> USE GCAssumption, PlaceNames DEF TypeOK, HoldsItsData, ReplicaRows, JobState
<1>1. ASSUME NEW k \in Requests, PurgeStep(k) PROVE TypeOK'
  <2>1. CASE PurgeStart(k)
    BY <2>1 DEF PurgeStart
  <2>2. CASE PurgeList(k)
    BY <2>2 DEF PurgeList, MessagesOf
  <2>3. CASE PurgeErase(k)
    <3>1. after[k] \in Places
      BY PlaceNames
    <3>2. at' \in [Requests -> Places] /\ after' \in [Requests -> {"idle", "readSource", "restore"}]
      BY <2>3, <3>1 DEF PurgeErase
    <3>3. HoldsItsData'
      BY <2>3 DEF PurgeErase
    <3>4. /\ rowSt' \in [Rows -> {"none", "live", "trash"}]
          /\ path' \in [Rows -> Paths \cup {NoPath}]
          /\ hasChunks' \in [Rows -> BOOLEAN]
          /\ replica' \in [Rows -> ReplicaRows]
          /\ thumb' \in [Rows -> Nat]
          /\ kept' \in [Rows -> BOOLEAN]
      BY <2>3 DEF PurgeErase
    <3>5. /\ doomed' \in [Requests -> SUBSET Rows]
          /\ listed' \in [Requests -> SUBSET Messages]
          /\ gcTodo' \in [Requests -> SUBSET Messages]
      BY <2>3 DEF PurgeErase
    <3> QED BY <2>3, <3>2, <3>3, <3>4, <3>5 DEF PurgeErase
  <2> QED BY <1>1, <2>1, <2>2, <2>3 DEF PurgeStep
<1>2. ASSUME NEW k \in Requests, GcStep(k) PROVE TypeOK'
  <2>1. ASSUME NEW m \in gcTodo[k], GcSkip(k, m) PROVE TypeOK'
    BY <2>1 DEF GcSkip
  <2>2. ASSUME NEW m \in gcTodo[k], GcClaim(k, m) PROVE TypeOK'
    BY <2>2 DEF GcClaim
  <2>3. CASE GcDelete(k)
    BY <2>3 DEF GcDelete
  <2>4. CASE GcFailed(k)
    BY <2>4 DEF GcFailed
  <2> QED BY <1>2, <2>1, <2>2, <2>3, <2>4 DEF GcStep
<1>3. ASSUME NEW k \in Requests, CopyStep(k) PROVE TypeOK'
  <2>1. ASSUME NEW p \in Paths, NEW q \in Paths, CopyStart(k, p, q) PROVE TypeOK'
    BY <2>1 DEF CopyStart
  <2>2. CASE CopyAsIs(k)
    BY <2>2 DEF CopyAsIs
  <2>3. CASE CopyReplacing(k)
    BY <2>3 DEF CopyReplacing
  <2>4. CASE CopyRenamed(k)
    BY <2>4 DEF CopyRenamed
  <2>5. ASSUME NEW f \in Rows, CopyReadSource(k, f) PROVE TypeOK'
    BY <2>5 DEF CopyReadSource
  <2>6. ASSUME NEW f \in Rows, CopyInsert(k, f) PROVE TypeOK'
    BY <2>6 DEF CopyInsert
  <2>7. CASE CopyReadChunks(k)
    BY <2>7 DEF CopyReadChunks
  <2>8. CASE CopyWriteChunks(k)
    BY <2>8 DEF CopyWriteChunks
  <2>9. CASE CopyReadReplicas(k)
    BY <2>9 DEF CopyReadReplicas
  <2>10. CASE CopyWriteReplicas(k)
    BY <2>10 DEF CopyWriteReplicas
  <2>11. CASE CopyStops(k)
    BY <2>11 DEF CopyStops
  <2> QED BY <1>3, <2>1, <2>2, <2>3, <2>4, <2>5, <2>6, <2>7, <2>8, <2>9, <2>10, <2>11 DEF CopyStep
<1>4. ASSUME NEW k \in Requests, RestoreStep(k) PROVE TypeOK'
  <2>1. ASSUME NEW p \in Paths, RestoreStart(k, p) PROVE TypeOK'
    BY <2>1 DEF RestoreStart
  <2>2. CASE RestoreAsIs(k)
    BY <2>2 DEF RestoreAsIs
  <2>3. CASE RestoreReplacing(k)
    BY <2>3 DEF RestoreReplacing
  <2>4. CASE RestoreRenamed(k)
    BY <2>4 DEF RestoreRenamed
  <2>5. CASE MoveTrashed(k)
    BY <2>5 DEF MoveTrashed
  <2>6. ASSUME NEW f \in Rows, Restore(k, f) PROVE TypeOK'
    BY <2>6 DEF Restore
  <2>7. CASE RestoreStops(k)
    BY <2>7 DEF RestoreStops
  <2> QED BY <1>4, <2>1, <2>2, <2>3, <2>4, <2>5, <2>6, <2>7 DEF RestoreStep
<1>5. ASSUME NEW f \in Rows, NEW p \in Paths, Upload(f, p) PROVE TypeOK'
  BY <1>5 DEF Upload
<1>6. ASSUME NEW p \in Paths, Delete(p) PROVE TypeOK'
  BY <1>6 DEF Delete
<1>7. ASSUME NEW f \in Rows, NEW c \in Channels, NEW m \in Channels \X (1 .. MaxMessages), TakeJob(f, c, m) PROVE TypeOK'
  BY <1>7 DEF TakeJob, ReplicaSource
<1>8. CASE CopyMessage
  <2>1. nextId[job.on] \in Nat \ {0}
    OBVIOUS
  <2>2. job' \in JobState /\ (job' # NoJob => job'.row \in Rows)
    BY <1>8, <2>1 DEF CopyMessage
  <2>3. telegram' \in [Channels -> SUBSET Nat] /\ nextId' \in [Channels -> Nat \ {0}]
    BY <1>8, <2>1 DEF CopyMessage
  <2> QED BY <1>8, <2>2, <2>3 DEF CopyMessage
<1>9. CASE MarkReplica
  BY <1>9 DEF MarkReplica
<1>10. CASE JobLost
  BY <1>10 DEF JobLost
<1>11. ASSUME NEW k \in Requests, Abort(k) PROVE TypeOK'
  BY <1>11 DEF Abort
<1>12. CASE Restart
  BY <1>12 DEF Restart
<1>13. CASE UNCHANGED vars
  BY <1>13 DEF vars
<1> QED BY <1>1, <1>2, <1>3, <1>4, <1>5, <1>6, <1>7, <1>8, <1>9, <1>10, <1>11, <1>12, <1>13 DEF Next, Replicate

(* Type correctness for all parameters: in particular a purge, a copy and a *)
(* job only ever hold rows of the table and messages of a chat.             *)
THEOREM TypeCorrect == Spec => []TypeOK
BY TypeInit, TypeStep, PTL DEF Spec

-----------------------------------------------------------------------------
(* Kept files stay readable, by the parts of KeptInv together.              *)

LEMMA KeptInit == Init => KeptInv
BY GCAssumption DEF Init, KeptInv, NoThumbs, IdsGivenOut, SentIsPrivate, JobIsQueued,
   GoneRowsAreEmpty, OneCopierPerClone, CloneIsEmpty, CopiedFromSource,
   ClaimedIsUnkept, KeptAreReadable

(* What the steps that only move a request along have in common. *)
Unrelated ==
    /\ UNCHANGED <<replica, thumb, kept, chatVars, gcVars, job>>
    /\ \A f \in Rows : Exists(f)' <=> Exists(f)
    /\ \A k \in Requests :
          /\ dst'[k] \in {dst[k], NoRow}
          /\ pic'[k] \in {pic[k], 0}
          /\ \A c \in Channels : got'[k][c] \in {got[k][c], NoReplica}
          /\ listed'[k] \in {listed[k], {}}
          /\ at'[k] = "writeReplicas" =>
                at[k] = "writeReplicas" /\ src'[k] = src[k] /\ got'[k] = got[k]

LEMMA KeptFrame ==
  ASSUME TypeOK, KeptInv, Unrelated
  PROVE  KeptInv'
<1> USE GCAssumption DEF TypeOK, HoldsItsData, Unrelated, KeptInv
<1>1. NoThumbs'
  BY DEF NoThumbs, ReplicaRows, JobState
<1>2. IdsGivenOut'
  <2>1. \A k \in Requests : listed'[k] \cup gcTodo'[k] \subseteq listed[k] \cup gcTodo[k]
    OBVIOUS
  <2>2. \A k \in Requests, c \in Channels : got'[k][c] < nextId'[c]
    <3> SUFFICES ASSUME NEW k \in Requests, NEW c \in Channels
                 PROVE  got'[k][c] < nextId'[c]
      OBVIOUS
    <3>1. got'[k][c] \in {got[k][c], 0}
      OBVIOUS
    <3>2. 0 < nextId[c] /\ nextId'[c] = nextId[c] /\ got[k][c] < nextId[c]
      BY DEF IdsGivenOut
    <3> QED BY <3>1, <3>2
  <2>3. /\ \A c \in Channels : \A n \in telegram'[c] : n < nextId'[c]
        /\ \A f \in Rows, c \in Channels : replica'[f][c] < nextId'[c]
    BY DEF IdsGivenOut
  <2>4. /\ \A k \in Requests : \A m \in listed'[k] \cup gcTodo'[k] :
              0 < m[2] /\ m[2] < nextId'[m[1]]
        /\ \A k \in Requests : gcNow'[k] # NoMessage =>
              0 < gcNow'[k][2] /\ gcNow'[k][2] < nextId'[gcNow'[k][1]]
    BY <2>1 DEF IdsGivenOut
  <2> QED BY <2>2, <2>3, <2>4 DEF IdsGivenOut
<1>3. SentIsPrivate'
  <2>1. \A k \in Requests : listed'[k] \cup gcTodo'[k] \subseteq listed[k] \cup gcTodo[k]
    OBVIOUS
  <2>2. job.sent > 0 => \A k \in Requests : got'[k][job.on] # job.sent
    <3> SUFFICES ASSUME job.sent > 0, NEW k \in Requests
                 PROVE  got'[k][job.on] # job.sent
      OBVIOUS
    <3>1. job.on \in Channels /\ job.sent # 0
      BY DEF JobState
    <3>2. got'[k][job.on] \in {got[k][job.on], 0}
      BY <3>1
    <3> QED BY <3>1, <3>2 DEF SentIsPrivate
  <2>3. job.sent > 0 => \A k \in Requests : \A m \in listed'[k] \cup gcTodo'[k] :
           m[1] = job.on => m[2] # job.sent
    BY <2>1 DEF SentIsPrivate
  <2> QED BY <2>2, <2>3 DEF SentIsPrivate
<1>4. JobIsQueued'
  BY DEF JobIsQueued, ReplicaRows, JobState
<1>5. GoneRowsAreEmpty'
  BY DEF GoneRowsAreEmpty, ReplicaRows, JobState
<1>6. OneCopierPerClone'
  BY DEF OneCopierPerClone, ReplicaRows, JobState
<1>7. CloneIsEmpty'
  BY DEF CloneIsEmpty, ReplicaRows, JobState
<1>8. CopiedFromSource'
  BY DEF CopiedFromSource, ReplicaRows, JobState
<1>9. ClaimedIsUnkept'
  BY DEF ClaimedIsUnkept, ReplicaRows, JobState
<1>10. KeptAreReadable'
  BY DEF KeptAreReadable, ReplicaRows, JobState
<1> QED BY <1>1, <1>2, <1>3, <1>4, <1>5, <1>6, <1>7, <1>8, <1>9, <1>10

LEMMA KeptStep ==
  ASSUME Pictures = {}, TypeOK, KeptInv, [Next]_vars
  PROVE  KeptInv'
<1>0. TypeOK'
  BY TypeStep
<1> USE GCAssumption, <1>0 DEF TypeOK, HoldsItsData, ReplicaRows, JobState, KeptInv
<1>1. ASSUME NEW k \in Requests, PurgeStep(k) PROVE KeptInv'
  <2>1. CASE PurgeStart(k)
    BY <2>1, KeptFrame DEF PurgeStart, Unrelated
  <2>2. CASE PurgeList(k)
    <3>1. IdsGivenOut'
      BY <2>2 DEF PurgeList, IdsGivenOut, MessagesOf, NoThumbs
    <3>2. SentIsPrivate'
      BY <2>2 DEF PurgeList, SentIsPrivate, MessagesOf, NoThumbs
    <3>3. (NoThumbs /\ JobIsQueued /\ GoneRowsAreEmpty /\ OneCopierPerClone /\ CloneIsEmpty /\ CopiedFromSource /\ ClaimedIsUnkept /\ KeptAreReadable)'
      BY <2>2 DEF PurgeList, NoThumbs, JobIsQueued, GoneRowsAreEmpty, OneCopierPerClone, CloneIsEmpty, CopiedFromSource, ClaimedIsUnkept, KeptAreReadable
    <3> QED BY <3>1, <3>2, <3>3 DEF KeptInv
  <2>3. CASE PurgeErase(k)
    <3>1. NoThumbs'
      BY <2>3 DEF PurgeErase, NoThumbs
    <3>2. IdsGivenOut'
      BY <2>3 DEF PurgeErase, IdsGivenOut
    <3>3. SentIsPrivate'
      BY <2>3 DEF PurgeErase, SentIsPrivate
    <3>4. JobIsQueued'
      BY <2>3 DEF PurgeErase, JobIsQueued
    <3>5. GoneRowsAreEmpty'
      BY <2>3 DEF PurgeErase, GoneRowsAreEmpty
    <3>6. OneCopierPerClone'
      BY <2>3 DEF PurgeErase, OneCopierPerClone
    <3>7. CloneIsEmpty'
      BY <2>3 DEF PurgeErase, CloneIsEmpty
    <3>8. CopiedFromSource'
      <4>0. at' = [at EXCEPT ![k] = after[k]] /\ after[k] # "writeReplicas"
        BY <2>3 DEF PurgeErase, GoTo
      <4>1. \A l \in Requests : at'[l] = "writeReplicas" => l # k /\ at[l] = "writeReplicas"
        BY <4>0
      <4>2. \A f \in Rows : Exists(f)' => Exists(f) /\ replica'[f] = replica[f]
        BY <2>3 DEF PurgeErase
      <4> QED BY <2>3, <4>1, <4>2 DEF PurgeErase, CopiedFromSource
    <3>9. ClaimedIsUnkept'
      BY <2>3 DEF PurgeErase, ClaimedIsUnkept
    <3>10. KeptAreReadable'
      BY <2>3 DEF PurgeErase, KeptAreReadable
    <3> QED BY <3>1, <3>2, <3>3, <3>4, <3>5, <3>6, <3>7, <3>8, <3>9, <3>10 DEF KeptInv
  <2> QED BY <1>1, <2>1, <2>2, <2>3 DEF PurgeStep
<1>2. ASSUME NEW k \in Requests, GcStep(k) PROVE KeptInv'
  <2>1. ASSUME NEW m \in gcTodo[k], GcSkip(k, m) PROVE KeptInv'
    <3>1. IdsGivenOut'
      BY <2>1 DEF GcSkip, IdsGivenOut
    <3>2. SentIsPrivate'
      BY <2>1 DEF GcSkip, SentIsPrivate
    <3>3. (NoThumbs /\ JobIsQueued /\ GoneRowsAreEmpty /\ OneCopierPerClone /\ CloneIsEmpty /\ CopiedFromSource /\ ClaimedIsUnkept /\ KeptAreReadable)'
      BY <2>1 DEF GcSkip, NoThumbs, JobIsQueued, GoneRowsAreEmpty, OneCopierPerClone, CloneIsEmpty, CopiedFromSource, ClaimedIsUnkept, KeptAreReadable
    <3> QED BY <3>1, <3>2, <3>3 DEF KeptInv
  <2>2. ASSUME NEW m \in gcTodo[k], GcClaim(k, m) PROVE KeptInv'
    <3>1. IdsGivenOut'
      BY <2>2 DEF GcClaim, IdsGivenOut
    <3>2. SentIsPrivate'
      BY <2>2 DEF GcClaim, SentIsPrivate, IdsGivenOut
    <3>3. ClaimedIsUnkept'
      BY <2>2 DEF GcClaim, ClaimedIsUnkept, Referenced, GoneRowsAreEmpty
    <3>4. (NoThumbs /\ JobIsQueued /\ GoneRowsAreEmpty /\ OneCopierPerClone /\ CloneIsEmpty /\ CopiedFromSource /\ KeptAreReadable)'
      BY <2>2 DEF GcClaim, NoThumbs, JobIsQueued, GoneRowsAreEmpty, OneCopierPerClone, CloneIsEmpty, CopiedFromSource, KeptAreReadable
    <3> QED BY <3>1, <3>2, <3>3, <3>4 DEF KeptInv
  <2>3. CASE GcDelete(k)
    <3>1. IdsGivenOut'
      BY <2>3 DEF GcDelete, IdsGivenOut
    <3>2. SentIsPrivate'
      BY <2>3 DEF GcDelete, SentIsPrivate
    <3>3. ClaimedIsUnkept'
      BY <2>3 DEF GcDelete, ClaimedIsUnkept
    <3>4. KeptAreReadable'
      BY <2>3 DEF GcDelete, KeptAreReadable, ClaimedIsUnkept
    <3>5. (NoThumbs /\ JobIsQueued /\ GoneRowsAreEmpty /\ OneCopierPerClone /\ CloneIsEmpty /\ CopiedFromSource)'
      BY <2>3 DEF GcDelete, NoThumbs, JobIsQueued, GoneRowsAreEmpty, OneCopierPerClone, CloneIsEmpty, CopiedFromSource
    <3> QED BY <3>1, <3>2, <3>3, <3>4, <3>5 DEF KeptInv
  <2>4. CASE GcFailed(k)
    <3>1. IdsGivenOut'
      BY <2>4 DEF GcFailed, IdsGivenOut
    <3>2. SentIsPrivate'
      BY <2>4 DEF GcFailed, SentIsPrivate
    <3>3. ClaimedIsUnkept'
      BY <2>4 DEF GcFailed, ClaimedIsUnkept
    <3>4. (NoThumbs /\ JobIsQueued /\ GoneRowsAreEmpty /\ OneCopierPerClone /\ CloneIsEmpty /\ CopiedFromSource /\ KeptAreReadable)'
      BY <2>4 DEF GcFailed, NoThumbs, JobIsQueued, GoneRowsAreEmpty, OneCopierPerClone, CloneIsEmpty, CopiedFromSource, KeptAreReadable
    <3> QED BY <3>1, <3>2, <3>3, <3>4 DEF KeptInv
  <2> QED BY <1>2, <2>1, <2>2, <2>3, <2>4 DEF GcStep
<1>3. ASSUME NEW k \in Requests, CopyStep(k) PROVE KeptInv'
  <2>1. ASSUME NEW p \in Paths, NEW q \in Paths, CopyStart(k, p, q) PROVE KeptInv'
    BY <2>1, KeptFrame DEF CopyStart, Unrelated
  <2>2. CASE CopyAsIs(k)
    BY <2>2, KeptFrame DEF CopyAsIs, Unrelated
  <2>3. CASE CopyReplacing(k)
    BY <2>3, KeptFrame DEF CopyReplacing, Unrelated
  <2>4. CASE CopyRenamed(k)
    BY <2>4, KeptFrame DEF CopyRenamed, Unrelated
  <2>5. ASSUME NEW f \in Rows, CopyReadSource(k, f) PROVE KeptInv'
    <3>1. NoThumbs'
      BY <2>5 DEF CopyReadSource, NoThumbs
    <3>2. CopiedFromSource'
      BY <2>5 DEF CopyReadSource, CopiedFromSource
    <3>3. (IdsGivenOut /\ SentIsPrivate /\ JobIsQueued /\ GoneRowsAreEmpty /\ OneCopierPerClone /\ CloneIsEmpty /\ ClaimedIsUnkept /\ KeptAreReadable)'
      BY <2>5 DEF CopyReadSource, IdsGivenOut, SentIsPrivate, JobIsQueued, GoneRowsAreEmpty, OneCopierPerClone, CloneIsEmpty, ClaimedIsUnkept, KeptAreReadable
    <3> QED BY <3>1, <3>2, <3>3 DEF KeptInv
  <2>6. ASSUME NEW f \in Rows, CopyInsert(k, f) PROVE KeptInv'
    <3>1. NoThumbs'
      BY <2>6 DEF CopyInsert, NoThumbs
    <3>2. JobIsQueued'
      BY <2>6 DEF CopyInsert, JobIsQueued, Fresh
    <3>3. GoneRowsAreEmpty'
      BY <2>6 DEF CopyInsert, GoneRowsAreEmpty
    <3>4. OneCopierPerClone'
      BY <2>6 DEF CopyInsert, OneCopierPerClone, Fresh
    <3>5. CloneIsEmpty'
      BY <2>6 DEF CopyInsert, CloneIsEmpty, Fresh, GoneRowsAreEmpty
    <3>6. CopiedFromSource'
      BY <2>6 DEF CopyInsert, CopiedFromSource, Fresh
    <3>7. ClaimedIsUnkept'
      BY <2>6 DEF CopyInsert, ClaimedIsUnkept, Fresh, GoneRowsAreEmpty
    <3>8. KeptAreReadable'
      BY <2>6 DEF CopyInsert, KeptAreReadable, Fresh, GoneRowsAreEmpty
    <3>9. (IdsGivenOut /\ SentIsPrivate)'
      BY <2>6 DEF CopyInsert, IdsGivenOut, SentIsPrivate
    <3> QED BY <3>1, <3>2, <3>3, <3>4, <3>5, <3>6, <3>7, <3>8, <3>9 DEF KeptInv
  <2>7. CASE CopyReadChunks(k)
    BY <2>7, KeptFrame DEF CopyReadChunks, Unrelated
  <2>8. CASE CopyWriteChunks(k)
    BY <2>8, KeptFrame DEF CopyWriteChunks, Unrelated
  <2>9. CASE CopyReadReplicas(k)
    <3>1. IdsGivenOut'
      BY <2>9 DEF CopyReadReplicas, IdsGivenOut
    <3>2. SentIsPrivate'
      BY <2>9 DEF CopyReadReplicas, SentIsPrivate
    <3>3. CopiedFromSource'
      BY <2>9 DEF CopyReadReplicas, CopiedFromSource
    <3>4. (NoThumbs /\ JobIsQueued /\ GoneRowsAreEmpty /\ OneCopierPerClone /\ CloneIsEmpty /\ ClaimedIsUnkept /\ KeptAreReadable)'
      BY <2>9 DEF CopyReadReplicas, NoThumbs, JobIsQueued, GoneRowsAreEmpty, OneCopierPerClone, CloneIsEmpty, ClaimedIsUnkept, KeptAreReadable
    <3> QED BY <3>1, <3>2, <3>3, <3>4 DEF KeptInv
  <2>10. CASE CopyWriteReplicas(k)
    <3>1. IdsGivenOut'
      BY <2>10 DEF CopyWriteReplicas, IdsGivenOut
    <3>2. SentIsPrivate'
      BY <2>10 DEF CopyWriteReplicas, SentIsPrivate
    <3>3. JobIsQueued'
      BY <2>10 DEF CopyWriteReplicas, JobIsQueued, CloneIsEmpty
    <3>4. GoneRowsAreEmpty'
      BY <2>10 DEF CopyWriteReplicas, GoneRowsAreEmpty
    <3>5. OneCopierPerClone'
      BY <2>10 DEF CopyWriteReplicas, OneCopierPerClone
    <3>6. CloneIsEmpty'
      BY <2>10 DEF CopyWriteReplicas, CloneIsEmpty, OneCopierPerClone
    <3>7. CopiedFromSource'
      BY <2>10 DEF CopyWriteReplicas, CopiedFromSource, CloneIsEmpty
    <3>8. ClaimedIsUnkept'
      BY <2>10 DEF CopyWriteReplicas, ClaimedIsUnkept, CopiedFromSource, GoneRowsAreEmpty, IdsGivenOut
    <3>9. KeptAreReadable'
      BY <2>10 DEF CopyWriteReplicas, KeptAreReadable, CopiedFromSource, GoneRowsAreEmpty
    <3>10. (NoThumbs)'
      BY <2>10 DEF CopyWriteReplicas, NoThumbs
    <3> QED BY <3>1, <3>2, <3>3, <3>4, <3>5, <3>6, <3>7, <3>8, <3>9, <3>10 DEF KeptInv
  <2>11. CASE CopyStops(k)
    BY <2>11, KeptFrame DEF CopyStops, Unrelated
  <2> QED BY <1>3, <2>1, <2>2, <2>3, <2>4, <2>5, <2>6, <2>7, <2>8, <2>9, <2>10, <2>11 DEF CopyStep
<1>4. ASSUME NEW k \in Requests, RestoreStep(k) PROVE KeptInv'
  <2>1. ASSUME NEW p \in Paths, RestoreStart(k, p) PROVE KeptInv'
    BY <2>1, KeptFrame DEF RestoreStart, Unrelated
  <2>2. CASE RestoreAsIs(k)
    BY <2>2, KeptFrame DEF RestoreAsIs, Unrelated
  <2>3. CASE RestoreReplacing(k)
    BY <2>3, KeptFrame DEF RestoreReplacing, Unrelated
  <2>4. CASE RestoreRenamed(k)
    BY <2>4, KeptFrame DEF RestoreRenamed, Unrelated
  <2>5. CASE MoveTrashed(k)
    BY <2>5, KeptFrame DEF MoveTrashed, Unrelated
  <2>6. ASSUME NEW f \in Rows, Restore(k, f) PROVE KeptInv'
    BY <2>6, KeptFrame DEF Restore, Unrelated
  <2>7. CASE RestoreStops(k)
    BY <2>7, KeptFrame DEF RestoreStops, Unrelated
  <2> QED BY <1>4, <2>1, <2>2, <2>3, <2>4, <2>5, <2>6, <2>7 DEF RestoreStep
<1>5. ASSUME NEW f \in Rows, NEW p \in Paths, Upload(f, p) PROVE KeptInv'
  <2>1. NoThumbs'
    BY <1>5 DEF Upload, NoThumbs
  <2>2. IdsGivenOut'
    BY <1>5 DEF Upload, IdsGivenOut
  <2>3. SentIsPrivate'
    BY <1>5 DEF Upload, SentIsPrivate
  <2>4. JobIsQueued'
    BY <1>5 DEF Upload, JobIsQueued, Fresh
  <2>5. GoneRowsAreEmpty'
    BY <1>5 DEF Upload, GoneRowsAreEmpty
  <2>6. CloneIsEmpty'
    BY <1>5 DEF Upload, CloneIsEmpty, Fresh
  <2>7. CopiedFromSource'
    BY <1>5 DEF Upload, CopiedFromSource, Fresh
  <2>8. ClaimedIsUnkept'
    BY <1>5 DEF Upload, ClaimedIsUnkept, IdsGivenOut
  <2>9. KeptAreReadable'
    BY <1>5 DEF Upload, KeptAreReadable
  <2>10. (OneCopierPerClone)'
    BY <1>5 DEF Upload, OneCopierPerClone
  <2> QED BY <2>1, <2>2, <2>3, <2>4, <2>5, <2>6, <2>7, <2>8, <2>9, <2>10 DEF KeptInv
<1>6. ASSUME NEW p \in Paths, Delete(p) PROVE KeptInv'
  BY <1>6, KeptFrame DEF Delete, Unrelated
<1>7. ASSUME NEW f \in Rows, NEW c \in Channels, NEW m \in Channels \X (1 .. MaxMessages), TakeJob(f, c, m) PROVE KeptInv'
  <2>1. SentIsPrivate'
    BY <1>7 DEF TakeJob, SentIsPrivate
  <2>2. JobIsQueued'
    BY <1>7 DEF TakeJob, JobIsQueued, ReplicaSource
  <2>3. (NoThumbs /\ IdsGivenOut /\ GoneRowsAreEmpty /\ OneCopierPerClone /\ CloneIsEmpty /\ CopiedFromSource /\ ClaimedIsUnkept /\ KeptAreReadable)'
    BY <1>7 DEF TakeJob, NoThumbs, IdsGivenOut, GoneRowsAreEmpty, OneCopierPerClone, CloneIsEmpty, CopiedFromSource, ClaimedIsUnkept, KeptAreReadable
  <2> QED BY <2>1, <2>2, <2>3 DEF KeptInv
<1>8. CASE CopyMessage
  <2>1. IdsGivenOut'
    BY <1>8 DEF CopyMessage, IdsGivenOut
  <2>2. SentIsPrivate'
    BY <1>8 DEF CopyMessage, SentIsPrivate, IdsGivenOut
  <2>3. JobIsQueued'
    BY <1>8 DEF CopyMessage, JobIsQueued
  <2>4. KeptAreReadable'
    BY <1>8 DEF CopyMessage, KeptAreReadable
  <2>5. (NoThumbs /\ GoneRowsAreEmpty /\ OneCopierPerClone /\ CloneIsEmpty /\ CopiedFromSource /\ ClaimedIsUnkept)'
    BY <1>8 DEF CopyMessage, NoThumbs, GoneRowsAreEmpty, OneCopierPerClone, CloneIsEmpty, CopiedFromSource, ClaimedIsUnkept
  <2> QED BY <2>1, <2>2, <2>3, <2>4, <2>5 DEF KeptInv
<1>9. CASE MarkReplica
  <2>1. IdsGivenOut'
    BY <1>9 DEF MarkReplica, IdsGivenOut, SentIsPrivate
  <2>2. SentIsPrivate'
    BY <1>9 DEF MarkReplica, SentIsPrivate
  <2>3. JobIsQueued'
    BY <1>9 DEF MarkReplica, JobIsQueued
  <2>4. GoneRowsAreEmpty'
    BY <1>9 DEF MarkReplica, GoneRowsAreEmpty
  <2>5. CloneIsEmpty'
    BY <1>9 DEF MarkReplica, CloneIsEmpty, JobIsQueued
  <2>6. CopiedFromSource'
    BY <1>9 DEF MarkReplica, CopiedFromSource, JobIsQueued
  <2>7. ClaimedIsUnkept'
    BY <1>9 DEF MarkReplica, ClaimedIsUnkept, SentIsPrivate
  <2>8. KeptAreReadable'
    BY <1>9 DEF MarkReplica, KeptAreReadable, SentIsPrivate
  <2>9. (NoThumbs /\ OneCopierPerClone)'
    BY <1>9 DEF MarkReplica, NoThumbs, OneCopierPerClone
  <2> QED BY <2>1, <2>2, <2>3, <2>4, <2>5, <2>6, <2>7, <2>8, <2>9 DEF KeptInv
<1>10. CASE JobLost
  <2>1. SentIsPrivate'
    BY <1>10 DEF JobLost, SentIsPrivate
  <2>2. JobIsQueued'
    BY <1>10 DEF JobLost, JobIsQueued
  <2>3. (NoThumbs /\ IdsGivenOut /\ GoneRowsAreEmpty /\ OneCopierPerClone /\ CloneIsEmpty /\ CopiedFromSource /\ ClaimedIsUnkept /\ KeptAreReadable)'
    BY <1>10 DEF JobLost, NoThumbs, IdsGivenOut, GoneRowsAreEmpty, OneCopierPerClone, CloneIsEmpty, CopiedFromSource, ClaimedIsUnkept, KeptAreReadable
  <2> QED BY <2>1, <2>2, <2>3 DEF KeptInv
<1>11. ASSUME NEW k \in Requests, Abort(k) PROVE KeptInv'
  BY <1>11, KeptFrame DEF Abort, Unrelated
<1>12. CASE Restart
  <2>1. NoThumbs'
    BY <1>12 DEF Restart, NoThumbs
  <2>2. IdsGivenOut'
    BY <1>12 DEF Restart, IdsGivenOut
  <2>3. SentIsPrivate'
    BY <1>12 DEF Restart, SentIsPrivate
  <2>4. JobIsQueued'
    BY <1>12 DEF Restart, JobIsQueued
  <2>5. OneCopierPerClone'
    BY <1>12 DEF Restart, OneCopierPerClone
  <2>6. CloneIsEmpty'
    BY <1>12 DEF Restart, CloneIsEmpty
  <2>7. CopiedFromSource'
    BY <1>12 DEF Restart, CopiedFromSource
  <2>8. ClaimedIsUnkept'
    BY <1>12 DEF Restart, ClaimedIsUnkept
  <2>9. (GoneRowsAreEmpty /\ KeptAreReadable)'
    BY <1>12 DEF Restart, GoneRowsAreEmpty, KeptAreReadable
  <2> QED BY <2>1, <2>2, <2>3, <2>4, <2>5, <2>6, <2>7, <2>8, <2>9 DEF KeptInv
<1>13. CASE UNCHANGED vars
  BY <1>13, KeptFrame DEF vars, Unrelated
<1> QED BY <1>1, <1>2, <1>3, <1>4, <1>5, <1>6, <1>7, <1>8, <1>9, <1>10, <1>11, <1>12, <1>13 DEF Next, Replicate

(* KeptAreReadable for all parameters, where uploads store no thumbnail.    *)
THEOREM KeptFilesAreReadable ==
  ASSUME Pictures = {}
  PROVE  Spec => []KeptAreReadable
<1>1. TypeOK /\ KeptInv /\ [Next]_vars => KeptInv'
  BY KeptStep
<1>2. KeptInv => KeptAreReadable
  BY DEF KeptInv
<1> QED BY <1>1, <1>2, KeptInit, TypeCorrect, PTL DEF Spec
=============================================================================
