------------------------- MODULE UploadRelayProofs -------------------------
(***************************************************************************)
(* Proofs about UploadRelay for any set of requests, rows and positions and *)
(* any bounds.  The type invariant and the ownership of ledger entries hold *)
(* of every behaviour.  That stored bytes match their row and that a row    *)
(* marked uploaded is complete are proved where no request replaces, for    *)
(* any number of uploads at once, and for replacing ones one at a time;     *)
(* these keep one live row and lose no chunk, too.                          *)
(***************************************************************************)
EXTENDS MCUploadRelay, FiniteSetTheorems, TLAPS

USE DEF Exists, StoredAt, Goto, Return, ReturnWithoutGuard, NoChunks, Remember,
        RowAtPath, LiveAt, Purged, ToReplaceOrCreate, RelayForgotten, RelayFailed,
        RelayRunning, GuardStates, MoveChunks, MoveFlag

-----------------------------------------------------------------------------
(* The type invariant.                                                      *)

LEMMA TypeInit == Init => TypeOK
BY RelayAssumption DEF Init, TypeOK, RowStates, ReqStates, RelayStates

(* Every step keeps the type invariant: in particular a request that may    *)
(* write to a row still knows which row it is.                              *)
LEMMA TypeStep == TypeOK /\ [Next]_vars => TypeOK'
<1> SUFFICES ASSUME TypeOK, [Next]_vars PROVE TypeOK'
  OBVIOUS
<1> USE RelayAssumption DEF TypeOK, RowStates, ReqStates, RelayStates,
        rowVars, reqVars, relayVars, boundVars
<1>1. ASSUME NEW r \in Requests, RequestStep(r) PROVE TypeOK'
  <2>1. CASE LookupSettled(r)
    BY <2>1 DEF LookupSettled
  <2>2. CASE LookupUnfinished(r)
    BY <2>2 DEF LookupUnfinished
  <2>3. CASE LookupOther(r)
    BY <2>3 DEF LookupOther
  <2>4. CASE CheckRelay(r)
    BY <2>4 DEF CheckRelay
  <2>5. CASE RelayOver(r)
    BY <2>5 DEF RelayOver
  <2>6. CASE WaitTimeout(r)
    BY <2>6 DEF WaitTimeout
  <2>7. CASE WokenSettled(r)
    BY <2>7 DEF WokenSettled
  <2>8. CASE WokenRetry(r)
    BY <2>8 DEF WokenRetry
  <2>9. CASE Resume(r)
    BY <2>9 DEF Resume
  <2>10. CASE PurgeStale(r)
    BY <2>10 DEF PurgeStale
  <2>11. CASE ReplaceLookup(r)
    BY <2>11 DEF ReplaceLookup
  <2>12. CASE ReplaceNothing(r)
    BY <2>12 DEF ReplaceNothing
  <2>13. CASE ReplaceRefused(r)
    BY <2>13 DEF ReplaceRefused
  <2>14. CASE ReplaceAllowed(r)
    BY <2>14 DEF ReplaceAllowed
  <2>15. CASE ReplaceMissed(r)
    BY <2>15 DEF ReplaceMissed
  <2>16. CASE ReplaceContent(r)
    <3> DEFINE f == file[r]
    <3>1. f \in Rows /\ VersionOf[r] \in Versions
      BY <2>16 DEF ReplaceContent
    <3>2. CASE isUploaded[f] \/ StoredAt(f) # {}
      <4>1. PICK old \in Rows :
              /\ rowSt' = [rowSt EXCEPT ![old] = "trash"]
              /\ rowVersion' = [rowVersion EXCEPT ![old] = rowVersion[f],
                                                  ![f] = VersionOf[r]]
              /\ isUploaded' = [isUploaded EXCEPT ![old] = isUploaded[f],
                                                  ![f] = FALSE]
              /\ chunk' = [chunk EXCEPT ![old] = chunk[f], ![f] = NoChunks]
        BY <2>16, <3>2 DEF ReplaceContent
      <4>2. /\ rowSt' \in [Rows -> RowStates]
            /\ rowVersion' \in [Rows -> Versions]
            /\ isUploaded' \in [Rows -> BOOLEAN]
        BY <3>1, <4>1
      <4>3. chunk' \in [Rows -> [Positions -> Versions \cup {NoChunk}]]
        BY <3>1, <4>1
      <4> QED BY <2>16, <4>2, <4>3 DEF ReplaceContent
    <3>3. CASE ~ (isUploaded[f] \/ StoredAt(f) # {})
      BY <2>16, <3>1, <3>3 DEF ReplaceContent
    <3> QED BY <3>2, <3>3
  <2>17. CASE Create(r)
    BY <2>17 DEF Create
  <2>18. CASE Claim(r)
    BY <2>18 DEF Claim
  <2>19. CASE Handoff(r)
    BY <2>19 DEF Handoff
  <2>20. CASE SeeSpooled(r)
    BY <2>20 DEF SeeSpooled
  <2>21. CASE SettleStored(r)
    BY <2>21 DEF SettleStored
  <2>22. CASE SettleFailed(r)
    BY <2>22 DEF SettleFailed
  <2>23. CASE KeepForResume(r)
    BY <2>23 DEF KeepForResume
  <2>24. CASE NothingStored(r)
    BY <2>24 DEF NothingStored
  <2>25. CASE PurgeEmpty(r)
    BY <2>25 DEF PurgeEmpty
  <2> QED BY <1>1, <2>1, <2>2, <2>3, <2>4, <2>5, <2>6, <2>7, <2>8, <2>9, <2>10, <2>11, <2>12,
             <2>13, <2>14, <2>15, <2>16, <2>17, <2>18, <2>19, <2>20, <2>21, <2>22, <2>23, <2>24,
             <2>25 DEF RequestStep
<1>2. ASSUME NEW r \in Requests, RelayStep(r) PROVE TypeOK'
  <2>1. CASE RelayPlan(r)
    BY <2>1 DEF RelayPlan
  <2>2. CASE RelayNoRow(r)
    BY <2>2 DEF RelayNoRow
  <2>3. CASE RelayChunk(r)
    BY <2>3 DEF RelayChunk
  <2>4. CASE RelayChunkRefused(r)
    BY <2>4 DEF RelayChunkRefused
  <2>5. CASE RelayMark(r)
    BY <2>5 DEF RelayMark
  <2>6. CASE RelayMarkRefused(r)
    BY <2>6 DEF RelayMarkRefused
  <2>7. CASE RelayUnheard(r)
    BY <2>7 DEF RelayUnheard
  <2> QED BY <1>2, <2>1, <2>2, <2>3, <2>4, <2>5, <2>6, <2>7 DEF RelayStep
<1>3. ASSUME NEW r \in Requests, Submit(r) PROVE TypeOK'
  BY <1>3 DEF Submit
<1>4. ASSUME NEW r \in Requests, RelayFault(r) PROVE TypeOK'
  BY <1>4 DEF RelayFault
<1>5. ASSUME NEW r \in Requests, Abort(r) PROVE TypeOK'
  BY <1>5 DEF Abort
<1>6. ASSUME NEW f \in Rows, Delete(f) PROVE TypeOK'
  BY <1>6 DEF Delete
<1>7. ASSUME NEW f \in Rows, DeleteForever(f) PROVE TypeOK'
  BY <1>7 DEF DeleteForever
<1>8. CASE Restart
  BY <1>8 DEF Restart
<1>9. CASE UNCHANGED vars
  BY <1>9 DEF vars
<1> QED BY <1>1, <1>2, <1>3, <1>4, <1>5, <1>6, <1>7, <1>8, <1>9 DEF Next

(* Type correctness for all parameters.                                     *)
THEOREM TypeCorrect == Spec => []TypeOK
BY TypeInit, TypeStep, PTL DEF Spec

-----------------------------------------------------------------------------
(* A ledger entry has a request that will remove it.                        *)

LEMMA LedgerStep == TypeOK /\ LedgerHasAnOwner /\ [Next]_vars => LedgerHasAnOwner'
<1> SUFFICES ASSUME TypeOK, LedgerHasAnOwner, [Next]_vars
             PROVE  LedgerHasAnOwner'
  OBVIOUS
<1> USE DEF TypeOK, LedgerHasAnOwner, rowVars, reqVars, relayVars, boundVars
<1>1. ASSUME NEW r \in Requests, RequestStep(r) PROVE LedgerHasAnOwner'
  <2>1. CASE LookupSettled(r)
    BY <2>1 DEF LookupSettled
  <2>2. CASE LookupUnfinished(r)
    <3>1. ledger' = ledger /\ pc[r] \notin GuardStates
      BY <2>2 DEF LookupUnfinished
    <3>2. \A s \in Requests \ {r} : pc'[s] = pc[s] /\ file'[s] = file[s]
      BY <2>2 DEF LookupUnfinished, Goto, Remember
    <3> QED BY <3>1, <3>2
  <2>3. CASE LookupOther(r)
    BY <2>3 DEF LookupOther
  <2>4. CASE CheckRelay(r)
    BY <2>4 DEF CheckRelay
  <2>5. CASE RelayOver(r)
    BY <2>5 DEF RelayOver
  <2>6. CASE WaitTimeout(r)
    BY <2>6 DEF WaitTimeout
  <2>7. CASE WokenSettled(r)
    BY <2>7 DEF WokenSettled
  <2>8. CASE WokenRetry(r)
    BY <2>8 DEF WokenRetry
  <2>9. CASE Resume(r)
    BY <2>9 DEF Resume
  <2>10. CASE PurgeStale(r)
    BY <2>10 DEF PurgeStale
  <2>11. CASE ReplaceLookup(r)
    <3>1. ledger' = ledger /\ pc[r] \notin GuardStates
      BY <2>11 DEF ReplaceLookup
    <3>2. \A s \in Requests \ {r} : pc'[s] = pc[s] /\ file'[s] = file[s]
      BY <2>11 DEF ReplaceLookup, Goto, Remember
    <3> QED BY <3>1, <3>2
  <2>12. CASE ReplaceNothing(r)
    BY <2>12 DEF ReplaceNothing
  <2>13. CASE ReplaceRefused(r)
    BY <2>13 DEF ReplaceRefused
  <2>14. CASE ReplaceAllowed(r)
    BY <2>14 DEF ReplaceAllowed
  <2>15. CASE ReplaceMissed(r)
    BY <2>15 DEF ReplaceMissed
  <2>16. CASE ReplaceContent(r)
    BY <2>16 DEF ReplaceContent
  <2>17. CASE Create(r)
    BY <2>17 DEF Create
  <2>18. CASE Claim(r)
    BY <2>18 DEF Claim
  <2>19. CASE Handoff(r)
    BY <2>19 DEF Handoff
  <2>20. CASE SeeSpooled(r)
    BY <2>20 DEF SeeSpooled
  <2>21. CASE SettleStored(r)
    BY <2>21 DEF SettleStored
  <2>22. CASE SettleFailed(r)
    BY <2>22 DEF SettleFailed
  <2>23. CASE KeepForResume(r)
    BY <2>23 DEF KeepForResume
  <2>24. CASE NothingStored(r)
    BY <2>24 DEF NothingStored
  <2>25. CASE PurgeEmpty(r)
    BY <2>25 DEF PurgeEmpty
  <2> QED BY <1>1, <2>1, <2>2, <2>3, <2>4, <2>5, <2>6, <2>7, <2>8, <2>9, <2>10, <2>11, <2>12,
             <2>13, <2>14, <2>15, <2>16, <2>17, <2>18, <2>19, <2>20, <2>21, <2>22, <2>23, <2>24,
             <2>25 DEF RequestStep
<1>2. ASSUME NEW r \in Requests, RelayStep(r) PROVE LedgerHasAnOwner'
  <2>1. CASE RelayPlan(r)
    BY <2>1 DEF RelayPlan
  <2>2. CASE RelayNoRow(r)
    BY <2>2 DEF RelayNoRow
  <2>3. CASE RelayChunk(r)
    BY <2>3 DEF RelayChunk
  <2>4. CASE RelayChunkRefused(r)
    BY <2>4 DEF RelayChunkRefused
  <2>5. CASE RelayMark(r)
    BY <2>5 DEF RelayMark
  <2>6. CASE RelayMarkRefused(r)
    BY <2>6 DEF RelayMarkRefused
  <2>7. CASE RelayUnheard(r)
    BY <2>7 DEF RelayUnheard
  <2> QED BY <1>2, <2>1, <2>2, <2>3, <2>4, <2>5, <2>6, <2>7 DEF RelayStep
<1>3. ASSUME NEW r \in Requests, Submit(r) PROVE LedgerHasAnOwner'
  BY <1>3 DEF Submit
<1>4. ASSUME NEW r \in Requests, RelayFault(r) PROVE LedgerHasAnOwner'
  BY <1>4 DEF RelayFault
<1>5. ASSUME NEW r \in Requests, Abort(r) PROVE LedgerHasAnOwner'
  BY <1>5 DEF Abort
<1>6. ASSUME NEW f \in Rows, Delete(f) PROVE LedgerHasAnOwner'
  BY <1>6 DEF Delete
<1>7. ASSUME NEW f \in Rows, DeleteForever(f) PROVE LedgerHasAnOwner'
  BY <1>7 DEF DeleteForever
<1>8. CASE Restart
  BY <1>8 DEF Restart
<1>9. CASE UNCHANGED vars
  BY <1>9 DEF vars
<1> QED BY <1>1, <1>2, <1>3, <1>4, <1>5, <1>6, <1>7, <1>8, <1>9 DEF Next

(* No entry of the relay ledger is ever left behind, whichever way its      *)
(* request ends: stored, failed, purged, aborted or cut off by a restart.   *)
THEOREM LedgerOwned == Spec => []LedgerHasAnOwner
<1>1. Init => LedgerHasAnOwner
  BY DEF Init, LedgerHasAnOwner
<1> QED BY <1>1, TypeCorrect, LedgerStep, PTL DEF Spec

-----------------------------------------------------------------------------
(* Integrity without replacing requests: by IntegrityInv, in which a task   *)
(* only ever holds rows of the version it offers.                           *)

LEMMA IntegrityInit == Init => IntegrityInv
BY TypeInit DEF Init, IntegrityInv, HeldRowsMatch, RelaysCover,
   NoChunkWithoutRow, BytesAreTheRows, UploadedIsComplete

LEMMA IntegrityStep ==
  ASSUME Replacers = {}, IntegrityInv, [Next]_vars
  PROVE  IntegrityInv'
<1> DEFINE Kept == /\ HeldRowsMatch /\ RelaysCover /\ NoChunkWithoutRow
                   /\ BytesAreTheRows /\ UploadedIsComplete
<1>0. TypeOK'
  BY TypeStep DEF IntegrityInv
<1> USE RelayAssumption, <1>0 DEF TypeOK, IntegrityInv, HeldRowsMatch, RelaysCover,
        NoChunkWithoutRow, BytesAreTheRows, UploadedIsComplete, Complete,
        rowVars, reqVars, relayVars, boundVars
<1>1. ASSUME NEW r \in Requests, RequestStep(r) PROVE Kept'
  <2>1. CASE LookupSettled(r)
    BY <2>1 DEF LookupSettled
  <2>2. CASE LookupUnfinished(r)
    BY <2>2 DEF LookupUnfinished
  <2>3. CASE LookupOther(r)
    BY <2>3 DEF LookupOther
  <2>4. CASE CheckRelay(r)
    BY <2>4 DEF CheckRelay
  <2>5. CASE RelayOver(r)
    BY <2>5 DEF RelayOver
  <2>6. CASE WaitTimeout(r)
    BY <2>6 DEF WaitTimeout
  <2>7. CASE WokenSettled(r)
    BY <2>7 DEF WokenSettled
  <2>8. CASE WokenRetry(r)
    BY <2>8 DEF WokenRetry
  <2>9. CASE Resume(r)
    BY <2>9 DEF Resume, Resumable
  <2>10. CASE PurgeStale(r)
    BY <2>10 DEF PurgeStale
  <2>11. CASE ReplaceLookup(r)
    BY <2>11 DEF ReplaceLookup
  <2>12. CASE ReplaceNothing(r)
    BY <2>12 DEF ReplaceNothing
  <2>13. CASE ReplaceRefused(r)
    BY <2>13 DEF ReplaceRefused
  <2>14. CASE ReplaceAllowed(r)
    BY <2>14 DEF ReplaceAllowed
  <2>15. CASE ReplaceMissed(r)
    BY <2>15 DEF ReplaceMissed
  <2>16. CASE ReplaceContent(r)
    BY <2>16 DEF ReplaceContent
  <2>17. CASE Create(r)
    BY <2>17 DEF Create, Fresh
  <2>18. CASE Claim(r)
    BY <2>18 DEF Claim
  <2>19. CASE Handoff(r)
    BY <2>19 DEF Handoff
  <2>20. CASE SeeSpooled(r)
    BY <2>20 DEF SeeSpooled
  <2>21. CASE SettleStored(r)
    BY <2>21 DEF SettleStored
  <2>22. CASE SettleFailed(r)
    BY <2>22 DEF SettleFailed
  <2>23. CASE KeepForResume(r)
    BY <2>23 DEF KeepForResume
  <2>24. CASE NothingStored(r)
    BY <2>24 DEF NothingStored
  <2>25. CASE PurgeEmpty(r)
    BY <2>25 DEF PurgeEmpty
  <2> QED BY <1>1, <2>1, <2>2, <2>3, <2>4, <2>5, <2>6, <2>7, <2>8, <2>9, <2>10, <2>11, <2>12,
             <2>13, <2>14, <2>15, <2>16, <2>17, <2>18, <2>19, <2>20, <2>21, <2>22, <2>23, <2>24,
             <2>25 DEF RequestStep
<1>2. ASSUME NEW r \in Requests, RelayStep(r) PROVE Kept'
  <2>1. CASE RelayPlan(r)
    BY <2>1 DEF RelayPlan
  <2>2. CASE RelayNoRow(r)
    BY <2>2 DEF RelayNoRow
  <2>3. CASE RelayChunk(r)
    BY <2>3 DEF RelayChunk
  <2>4. CASE RelayChunkRefused(r)
    BY <2>4 DEF RelayChunkRefused
  <2>5. CASE RelayMark(r)
    BY <2>5 DEF RelayMark
  <2>6. CASE RelayMarkRefused(r)
    BY <2>6 DEF RelayMarkRefused
  <2>7. CASE RelayUnheard(r)
    BY <2>7 DEF RelayUnheard
  <2> QED BY <1>2, <2>1, <2>2, <2>3, <2>4, <2>5, <2>6, <2>7 DEF RelayStep
<1>3. ASSUME NEW r \in Requests, Submit(r) PROVE Kept'
  BY <1>3 DEF Submit
<1>4. ASSUME NEW r \in Requests, RelayFault(r) PROVE Kept'
  BY <1>4 DEF RelayFault
<1>5. ASSUME NEW r \in Requests, Abort(r) PROVE Kept'
  BY <1>5 DEF Abort
<1>6. ASSUME NEW f \in Rows, Delete(f) PROVE Kept'
  BY <1>6 DEF Delete
<1>7. ASSUME NEW f \in Rows, DeleteForever(f) PROVE Kept'
  BY <1>7 DEF DeleteForever
<1>8. CASE Restart
  BY <1>8 DEF Restart
<1>9. CASE UNCHANGED vars
  BY <1>9 DEF vars
<1> QED BY <1>0, <1>1, <1>2, <1>3, <1>4, <1>5, <1>6, <1>7, <1>8, <1>9 DEF Next
LEMMA IntegrityInvariant ==
  ASSUME Replacers = {}
  PROVE  Spec => []IntegrityInv
<1>1. IntegrityInv /\ [Next]_vars => IntegrityInv'
  BY IntegrityStep
<1> QED BY <1>1, IntegrityInit, PTL DEF Spec

(* Whatever the interleaving of retries, aborts, restarts and deletions, a  *)
(* row is only ever filled with the bytes it names, unless some request     *)
(* replaces.                                                                *)
THEOREM BytesMatch ==
  ASSUME Replacers = {}
  PROVE  Spec => []BytesAreTheRows
<1>1. IntegrityInv => BytesAreTheRows
  BY DEF IntegrityInv
<1> QED BY <1>1, IntegrityInvariant, PTL

(* ... and a row marked uploaded has every one of its chunks.               *)
THEOREM UploadedComplete ==
  ASSUME Replacers = {}
  PROVE  Spec => []UploadedIsComplete
<1>1. IntegrityInv => UploadedIsComplete
  BY DEF IntegrityInv
<1> QED BY <1>1, IntegrityInvariant, PTL

-----------------------------------------------------------------------------
(* One upload at a time, whose client waits for its relay: replacing is     *)
(* safe then, by what the one request knows of the row it holds.            *)

OneAtATime == MaxActive = 1 /\ MaxAborts = 0

(* At most one request is under way, and a relay only with its request.     *)
OneActive == \A r, s \in Requests : pc[r] # "idle" /\ pc[s] # "idle" => r = s
RelaysAreAwaited ==
    \A r \in Requests : rpc[r] # "none" => pc[r] = "relaying" /\ rfile[r] = file[r]

(* What that request knows of its row: before the decision, the version it  *)
(* read; after it, that the version is its own.  A row is empty when it is  *)
(* purged, and full when its relay has ended well.                          *)
Looked == {"sameHash", "wait", "woken", "retry"}
Offered == {VersionOf[r] : r \in Requests}
HeldIsKnown(r) ==
    /\ seen[r] \in Offered
    /\ pc[r] \in Looked => HashOf[seen[r]] = HashOf[VersionOf[r]]
    /\ pc[r] \in Looked /\ Exists(file[r]) => rowVersion[file[r]] = seen[r]
    /\ pc[r] \in {"claim"} \cup GuardStates /\ Exists(file[r])
          => rowVersion[file[r]] = VersionOf[r]
    /\ pc[r] = "purge" => StoredAt(file[r]) = {}
RelayCovers(r) ==
    /\ rpc[r] = "sending" /\ Exists(file[r]) => Positions \ todo[r] \subseteq StoredAt(file[r])
    /\ rpc[r] = "stored" /\ Exists(file[r]) => Complete(file[r])

SerialShape == OneActive /\ RelaysAreAwaited
RowsAreWhole ==
    /\ NoChunkWithoutRow /\ BytesAreTheRows /\ UploadedIsComplete
    /\ \A f \in Rows : Exists(f) => rowVersion[f] \in Offered
SerialInv ==
    /\ TypeOK /\ SerialShape /\ RowsAreWhole
    /\ \A r \in Requests : HeldIsKnown(r) /\ RelayCovers(r)

(* Where every request replaces, no copy is made: whoever creates a row     *)
(* creates it at the path itself, and finds no other there.                 *)
OneLiveInv ==
    /\ \A f \in Rows : rowSt[f] = "live" => rowName[f] = 0
    /\ \A f, g \in Rows : rowSt[f] = "live" /\ rowSt[g] = "live" => f = g
    /\ \A r \in Requests : pc[r] = "create" => RowAtPath = {}

(* A step of the one request changes nothing that another one holds, and    *)
(* leaves its own row known and every row whole.                            *)
Awaited(r) == rpc[r] # "none" => pc[r] = "relaying" /\ rfile[r] = file[r]
Unmoved(r) ==
    \A s \in Requests \ {r} : pc'[s] = pc[s] /\ rpc'[s] = rpc[s] /\ seen'[s] = seen[s]

Retired(f, old, r) ==
    /\ rowSt' = [rowSt EXCEPT ![old] = "trash"]
    /\ rowVersion' = [rowVersion EXCEPT ![old] = rowVersion[f], ![f] = VersionOf[r]]
    /\ isUploaded' = [isUploaded EXCEPT ![old] = isUploaded[f], ![f] = FALSE]
    /\ chunk' = [chunk EXCEPT ![old] = chunk[f], ![f] = NoChunks]

LEMMA ReplaceEffect ==
  ASSUME NEW r \in Requests, ReplaceContent(r)
  PROVE  IF isUploaded[file[r]] \/ StoredAt(file[r]) # {}
         THEN \E old \in Rows : ~Exists(old) /\ Retired(file[r], old, r)
         ELSE /\ rowVersion' = [rowVersion EXCEPT ![file[r]] = VersionOf[r]]
              /\ isUploaded' = [isUploaded EXCEPT ![file[r]] = FALSE]
              /\ rowSt' = rowSt /\ chunk' = chunk
<1>1. CASE isUploaded[file[r]] \/ StoredAt(file[r]) # {}
  BY <1>1 DEF ReplaceContent, Fresh, Retired
<1>2. CASE ~(isUploaded[file[r]] \/ StoredAt(file[r]) # {})
  BY <1>2 DEF ReplaceContent
<1> QED BY <1>1, <1>2

LEMMA RequestSerial ==
  ASSUME TypeOK, TypeOK', NEW r \in Requests, RequestStep(r), Awaited(r), HeldIsKnown(r),
         RelayCovers(r), RowsAreWhole
  PROVE  /\ pc[r] # "idle" /\ Unmoved(r)
         /\ Awaited(r)' /\ HeldIsKnown(r)' /\ RelayCovers(r)' /\ RowsAreWhole'
<1> USE RelayAssumption DEF TypeOK, Awaited, Unmoved, HeldIsKnown, RelayCovers, RowsAreWhole,
        Looked, Offered, NoChunkWithoutRow, BytesAreTheRows, UploadedIsComplete, Complete,
        rowVars, reqVars, relayVars, boundVars
<1>1. CASE LookupSettled(r)
  BY <1>1 DEF LookupSettled
<1>2. CASE LookupUnfinished(r)
  BY <1>2 DEF LookupUnfinished, SameHash
<1>3. CASE LookupOther(r)
  BY <1>3 DEF LookupOther
<1>4. CASE CheckRelay(r)
  BY <1>4 DEF CheckRelay
<1>5. CASE RelayOver(r)
  BY <1>5 DEF RelayOver
<1>6. CASE WaitTimeout(r)
  BY <1>6 DEF WaitTimeout
<1>7. CASE WokenSettled(r)
  BY <1>7 DEF WokenSettled
<1>8. CASE WokenRetry(r)
  BY <1>8 DEF WokenRetry
<1>9. CASE Resume(r)
  BY <1>9 DEF Resume, Resumable
<1>10. CASE PurgeStale(r)
  BY <1>10 DEF PurgeStale
<1>11. CASE ReplaceLookup(r)
  BY <1>11 DEF ReplaceLookup
<1>12. CASE ReplaceNothing(r)
  BY <1>12 DEF ReplaceNothing
<1>13. CASE ReplaceRefused(r)
  BY <1>13 DEF ReplaceRefused
<1>14. CASE ReplaceAllowed(r)
  BY <1>14 DEF ReplaceAllowed
<1>15. CASE ReplaceMissed(r)
  BY <1>15 DEF ReplaceMissed
<1>16. CASE ReplaceContent(r)
  <2> SUFFICES ASSUME NEW f \in Rows, f = file[r]
               PROVE  /\ pc[r] # "idle" /\ Unmoved(r)
                      /\ Awaited(r)' /\ HeldIsKnown(r)' /\ RelayCovers(r)' /\ RowsAreWhole'
    BY <1>16 DEF ReplaceContent
  <2>1. Exists(f)
    BY <1>16 DEF ReplaceContent, StillExpected
  <2>2. /\ pc[r] = "replaceTx" /\ pc' = [pc EXCEPT ![r] = "claim"]
        /\ file' = file /\ rpc' = rpc /\ rpc[r] = "none" /\ seen' = seen
    BY <1>16 DEF ReplaceContent
  <2>3. rowVersion'[f] = VersionOf[r] /\ RowsAreWhole'
    <3>1. CASE isUploaded[f] \/ StoredAt(f) # {}
      <4>1. PICK old \in Rows : ~Exists(old) /\ Retired(f, old, r)
        BY <1>16, <3>1, ReplaceEffect
      <4>2. old # f
        BY <2>1, <4>1
      <4>3. \A g \in Rows \ {f, old} :
              /\ rowSt'[g] = rowSt[g] /\ rowVersion'[g] = rowVersion[g]
              /\ chunk'[g] = chunk[g] /\ isUploaded'[g] = isUploaded[g]
        BY <4>1 DEF Retired
      <4>4. /\ rowVersion'[old] = rowVersion[f] /\ chunk'[old] = chunk[f]
            /\ isUploaded'[old] = isUploaded[f] /\ rowSt'[old] = "trash"
        BY <4>1, <4>2 DEF Retired
      <4>5. /\ rowVersion'[f] = VersionOf[r] /\ isUploaded'[f] = FALSE
            /\ chunk'[f] = NoChunks /\ rowSt'[f] = rowSt[f]
        BY <4>1, <4>2 DEF Retired
      <4>6. ASSUME NEW g \in Rows
            PROVE  /\ \A p \in Positions :
                         /\ ~Exists(g)' => chunk'[g][p] = NoChunk
                         /\ chunk'[g][p] # NoChunk => chunk'[g][p] = rowVersion'[g]
                   /\ Exists(g)' => rowVersion'[g] \in Offered
                   /\ Exists(g)' /\ isUploaded'[g]
                      => \A p \in Positions : chunk'[g][p] # NoChunk
        <5>1. CASE g = f
          BY <2>1, <4>5, <5>1
        <5>2. CASE g = old
          BY <2>1, <4>2, <4>4, <5>2
        <5>3. CASE g \notin {f, old}
          BY <4>3, <5>3
        <5> QED BY <5>1, <5>2, <5>3
      <4> QED BY <4>5, <4>6
    <3>2. CASE ~(isUploaded[f] \/ StoredAt(f) # {})
      <4>1. /\ rowVersion' = [rowVersion EXCEPT ![f] = VersionOf[r]]
            /\ isUploaded' = [isUploaded EXCEPT ![f] = FALSE]
            /\ rowSt' = rowSt /\ chunk' = chunk
        BY <1>16, <3>2, ReplaceEffect
      <4> QED BY <3>2, <4>1
    <3> QED BY <3>1, <3>2
  <2> QED BY <2>2, <2>3
<1>17. CASE Create(r)
  BY <1>17 DEF Create, Fresh
<1>18. CASE Claim(r)
  BY <1>18 DEF Claim
<1>19. CASE Handoff(r)
  BY <1>19 DEF Handoff
<1>20. CASE SeeSpooled(r)
  BY <1>20 DEF SeeSpooled
<1>21. CASE SettleStored(r)
  BY <1>21 DEF SettleStored
<1>22. CASE SettleFailed(r)
  BY <1>22 DEF SettleFailed
<1>23. CASE KeepForResume(r)
  BY <1>23 DEF KeepForResume
<1>24. CASE NothingStored(r)
  BY <1>24 DEF NothingStored
<1>25. CASE PurgeEmpty(r)
  BY <1>25 DEF PurgeEmpty
<1> QED BY <1>1, <1>2, <1>3, <1>4, <1>5, <1>6, <1>7, <1>8, <1>9, <1>10, <1>11, <1>12, <1>13,
           <1>14, <1>15, <1>16, <1>17, <1>18, <1>19, <1>20, <1>21, <1>22, <1>23, <1>24, <1>25
              DEF RequestStep

LEMMA RelaySerial ==
  ASSUME TypeOK, TypeOK', NEW r \in Requests, RelayStep(r) \/ RelayFault(r), Awaited(r),
         HeldIsKnown(r), RelayCovers(r), RowsAreWhole
  PROVE  /\ rpc[r] # "none" /\ Unmoved(r) /\ pc' = pc
         /\ Awaited(r)' /\ HeldIsKnown(r)' /\ RelayCovers(r)' /\ RowsAreWhole'
<1> USE RelayAssumption DEF TypeOK, Awaited, Unmoved, HeldIsKnown, RelayCovers, RowsAreWhole,
        Looked, Offered, NoChunkWithoutRow, BytesAreTheRows, UploadedIsComplete, Complete,
        rowVars, reqVars, relayVars, boundVars
<1>1. CASE RelayPlan(r)
  BY <1>1 DEF RelayPlan
<1>2. CASE RelayNoRow(r)
  BY <1>2 DEF RelayNoRow
<1>3. CASE RelayChunk(r)
  BY <1>3 DEF RelayChunk
<1>4. CASE RelayChunkRefused(r)
  BY <1>4 DEF RelayChunkRefused
<1>5. CASE RelayMark(r)
  BY <1>5 DEF RelayMark
<1>6. CASE RelayMarkRefused(r)
  BY <1>6 DEF RelayMarkRefused
<1>7. CASE RelayUnheard(r)
  BY <1>7 DEF RelayUnheard
<1>8. CASE RelayFault(r)
  BY <1>8 DEF RelayFault
<1> QED BY <1>1, <1>2, <1>3, <1>4, <1>5, <1>6, <1>7, <1>8 DEF RelayStep

LEMMA AloneStays ==
  ASSUME NEW r \in Requests, SerialShape, pc[r] # "idle", Unmoved(r), Awaited(r)'
  PROVE  /\ SerialShape'
         /\ \A s \in Requests \ {r} : pc'[s] = "idle" /\ rpc'[s] = "none"
BY DEF SerialShape, OneActive, RelaysAreAwaited, Unmoved, Awaited

LEMMA IdleIsKnown ==
  ASSUME NEW r \in Requests, pc'[r] = "idle", rpc'[r] = "none", seen'[r] \in Offered
  PROVE  HeldIsKnown(r)' /\ RelayCovers(r)' /\ Awaited(r)'
BY DEF HeldIsKnown, RelayCovers, Awaited, Looked

LEMMA SubmitsAlone ==
  ASSUME OneAtATime, OneActive, NEW r \in Requests, Submit(r)
  PROVE  Active = {}
<1>1. ASSUME NEW s \in Requests, pc[s] # "idle" PROVE FALSE
  <2>1. Active = {s}
    BY <1>1 DEF Active, OneActive
  <2>2. Cardinality(Active) = 1
    BY <2>1, FS_Singleton
  <2> QED BY <2>2 DEF Submit, OneAtATime
<1> QED BY <1>1 DEF Active

LEMMA SerialStep ==
  ASSUME OneAtATime, SerialInv, [Next]_vars
  PROVE  SerialInv'
<1>0. TypeOK /\ TypeOK' /\ SerialShape /\ RowsAreWhole
      /\ \A r \in Requests : HeldIsKnown(r) /\ RelayCovers(r) /\ Awaited(r)
  BY TypeStep DEF SerialInv, SerialShape, RelaysAreAwaited, Awaited
<1>1. ASSUME NEW r \in Requests, pc[r] # "idle", Unmoved(r), Awaited(r)', HeldIsKnown(r)',
             RelayCovers(r)', RowsAreWhole'
      PROVE  SerialInv'
  <2>1. SerialShape'
    BY <1>0, <1>1, AloneStays
  <2>2. ASSUME NEW s \in Requests \ {r} PROVE HeldIsKnown(s)' /\ RelayCovers(s)'
    <3>1. pc'[s] = "idle" /\ rpc'[s] = "none"
      BY <1>0, <1>1, AloneStays
    <3>2. seen'[s] \in Offered
      BY <1>0, <1>1 DEF HeldIsKnown, Unmoved
    <3> QED BY <3>1, <3>2, IdleIsKnown
  <2> QED BY <1>0, <1>1, <2>1, <2>2 DEF SerialInv
<1>2. ASSUME NEW r \in Requests, RequestStep(r) PROVE SerialInv'
  BY <1>0, <1>1, <1>2, RequestSerial
<1>3. ASSUME NEW r \in Requests, RelayStep(r) \/ RelayFault(r) PROVE SerialInv'
  BY <1>0, <1>1, <1>3, RelaySerial DEF Awaited
<1>4. ASSUME NEW r \in Requests, Submit(r) PROVE SerialInv'
  <2>1. \A s \in Requests : pc[s] = "idle" /\ rpc[s] = "none"
    BY <1>0, <1>4, SubmitsAlone DEF SerialShape, RelaysAreAwaited, Active
  <2>2. /\ UNCHANGED <<file, seen, rowVars, relayVars>>
        /\ pc' = [pc EXCEPT ![r] = "lookup"]
    BY <1>4 DEF Submit
  <2>3. SerialShape'
    BY <1>0, <2>1, <2>2 DEF SerialShape, OneActive, RelaysAreAwaited, TypeOK, relayVars
  <2>4. RowsAreWhole'
    BY <1>0, <2>2 DEF RowsAreWhole, NoChunkWithoutRow, BytesAreTheRows, UploadedIsComplete,
                      Complete, rowVars
  <2>5. ASSUME NEW s \in Requests PROVE HeldIsKnown(s)' /\ RelayCovers(s)'
    BY <1>0, <2>1, <2>2 DEF HeldIsKnown, RelayCovers, Looked, TypeOK, relayVars
  <2> QED BY <1>0, <2>3, <2>4, <2>5 DEF SerialInv
<1>5. ASSUME NEW r \in Requests, Abort(r) PROVE SerialInv'
  BY <1>0, <1>5 DEF Abort, OneAtATime, TypeOK
<1>6. ASSUME NEW f \in Rows, Delete(f) \/ DeleteForever(f) PROVE SerialInv'
  <2>1. /\ UNCHANGED <<reqVars, relayVars, rowVersion, isUploaded>>
        /\ \A g \in Rows : Exists(g)' => Exists(g) /\ chunk'[g] = chunk[g]
        /\ \A g \in Rows :
               ~Exists(g)' => chunk'[g] = NoChunks \/ (~Exists(g) /\ chunk'[g] = chunk[g])
    <3>1. CASE Delete(f)
      BY <1>0, <3>1 DEF Delete, TypeOK, reqVars, relayVars
    <3>2. CASE DeleteForever(f)
      BY <1>0, <3>2 DEF DeleteForever, TypeOK, reqVars, relayVars
    <3> QED BY <1>6, <3>1, <3>2
  <2>2. SerialShape'
    BY <1>0, <2>1 DEF SerialShape, OneActive, RelaysAreAwaited, reqVars, relayVars
  <2>3. RowsAreWhole'
    BY <1>0, <2>1 DEF RowsAreWhole, NoChunkWithoutRow, BytesAreTheRows, UploadedIsComplete,
                      Complete
  <2>4. ASSUME NEW s \in Requests PROVE HeldIsKnown(s)' /\ RelayCovers(s)'
    <3>1. UNCHANGED <<pc, file, seen, rpc, todo, rowVersion>>
      BY <2>1 DEF reqVars, relayVars
    <3>2. /\ pc[s] \in Looked \cup {"claim", "purge"} \cup GuardStates => file[s] \in Rows
          /\ rpc[s] # "none" => file[s] \in Rows
      BY <1>0 DEF TypeOK, Awaited, Looked
    <3>3. HeldIsKnown(s)'
      <4>1. pc[s] = "purge" => StoredAt(file[s])' = {}
        BY <1>0, <2>1, <3>1, <3>2 DEF HeldIsKnown, RowsAreWhole, NoChunkWithoutRow
      <4> QED BY <1>0, <2>1, <3>1, <3>2, <4>1 DEF HeldIsKnown, Looked
    <3>4. RelayCovers(s)'
      BY <1>0, <2>1, <3>1, <3>2 DEF RelayCovers, Complete
    <3> QED BY <3>3, <3>4
  <2> QED BY <1>0, <2>2, <2>3, <2>4 DEF SerialInv
<1>7. CASE Restart
  <2>1. SerialShape'
    BY <1>7 DEF Restart, SerialShape, OneActive, RelaysAreAwaited
  <2>2. RowsAreWhole'
    BY <1>0, <1>7 DEF Restart, RowsAreWhole, NoChunkWithoutRow, BytesAreTheRows,
                      UploadedIsComplete, Complete
  <2>3. ASSUME NEW s \in Requests PROVE HeldIsKnown(s)' /\ RelayCovers(s)'
    BY <1>7, IdleIsKnown DEF Restart, Offered
  <2> QED BY <1>0, <2>1, <2>2, <2>3 DEF SerialInv
<1>8. CASE UNCHANGED vars
  BY <1>0, <1>8 DEF SerialInv, SerialShape, OneActive, RelaysAreAwaited, RowsAreWhole, vars,
     NoChunkWithoutRow, BytesAreTheRows, UploadedIsComplete, Complete, HeldIsKnown, RelayCovers,
     Looked, rowVars, reqVars, relayVars
<1> QED BY <1>2, <1>3, <1>4, <1>5, <1>6, <1>7, <1>8 DEF Next

LEMMA SerialInit == Init => SerialInv
<1>1. Init => TypeOK
  BY TypeInit
<1>2. Init => SerialShape /\ RowsAreWhole
  BY DEF Init, SerialShape, OneActive, RelaysAreAwaited, RowsAreWhole, NoChunkWithoutRow,
         BytesAreTheRows, UploadedIsComplete
<1>3. Init => \A r \in Requests : HeldIsKnown(r) /\ RelayCovers(r)
  BY DEF Init, HeldIsKnown, RelayCovers, Looked, Offered
<1> QED BY <1>1, <1>2, <1>3 DEF SerialInv

LEMMA SerialInvariant ==
  ASSUME OneAtATime
  PROVE  Spec => []SerialInv
<1>1. SerialInv /\ [Next]_vars => SerialInv'
  BY SerialStep
<1> QED BY <1>1, SerialInit, PTL DEF Spec

(* One upload at a time, replacing or not, fills a row with the bytes it    *)
(* names, and marks it uploaded when they are all there: a row whose        *)
(* content is replaced gives its chunks to the row that retires them.       *)
THEOREM WholeInTurn ==
  ASSUME OneAtATime
  PROVE  Spec => [](BytesAreTheRows /\ UploadedIsComplete)
<1>1. SerialInv => BytesAreTheRows /\ UploadedIsComplete
  BY DEF SerialInv, RowsAreWhole
<1> QED BY <1>1, SerialInvariant, PTL

-----------------------------------------------------------------------------
(* One live row.  Only Create makes a row live.                             *)

LEMMA LiveFrame ==
  ASSUME TypeOK, Replacers = Requests, NEW r \in Requests, RequestStep(r), ~Create(r)
  PROVE  /\ pc'[r] = "create" => RowAtPath = {} /\ rowSt' = rowSt /\ rowName' = rowName
         /\ rowName' = rowName
         /\ \A f \in Rows : rowSt'[f] = "live" => rowSt[f] = "live"
<1> USE DEF TypeOK, rowVars, reqVars, relayVars, boundVars
<1>1. CASE LookupSettled(r)
  BY <1>1 DEF LookupSettled
<1>2. CASE LookupUnfinished(r)
  BY <1>2 DEF LookupUnfinished
<1>3. CASE LookupOther(r)
  BY <1>3 DEF LookupOther
<1>4. CASE CheckRelay(r)
  BY <1>4 DEF CheckRelay
<1>5. CASE RelayOver(r)
  BY <1>5 DEF RelayOver
<1>6. CASE WaitTimeout(r)
  BY <1>6 DEF WaitTimeout
<1>7. CASE WokenSettled(r)
  BY <1>7 DEF WokenSettled
<1>8. CASE WokenRetry(r)
  BY <1>8 DEF WokenRetry
<1>9. CASE Resume(r)
  BY <1>9 DEF Resume
<1>10. CASE PurgeStale(r)
  BY <1>10 DEF PurgeStale
<1>11. CASE ReplaceLookup(r)
  BY <1>11 DEF ReplaceLookup
<1>12. CASE ReplaceNothing(r)
  BY <1>12 DEF ReplaceNothing
<1>13. CASE ReplaceRefused(r)
  BY <1>13 DEF ReplaceRefused
<1>14. CASE ReplaceAllowed(r)
  BY <1>14 DEF ReplaceAllowed
<1>15. CASE ReplaceMissed(r)
  BY <1>15 DEF ReplaceMissed
<1>16. CASE ReplaceContent(r)
  <2>1. pc' = [pc EXCEPT ![r] = "claim"] /\ rowName' = rowName
    BY <1>16 DEF ReplaceContent, Goto
  <2>2. \A f \in Rows : rowSt'[f] = "live" => rowSt[f] = "live"
    <3>1. CASE rowSt' = rowSt
      BY <3>1
    <3>2. ASSUME NEW old \in Rows, rowSt' = [rowSt EXCEPT ![old] = "trash"]
          PROVE  \A f \in Rows : rowSt'[f] = "live" => rowSt[f] = "live"
      BY <3>2
    <3> QED BY <1>16, <3>1, <3>2 DEF ReplaceContent
  <2> QED BY <2>1, <2>2
<1>17. CASE Create(r)
  BY <1>17
<1>18. CASE Claim(r)
  BY <1>18 DEF Claim
<1>19. CASE Handoff(r)
  BY <1>19 DEF Handoff
<1>20. CASE SeeSpooled(r)
  BY <1>20 DEF SeeSpooled
<1>21. CASE SettleStored(r)
  BY <1>21 DEF SettleStored
<1>22. CASE SettleFailed(r)
  BY <1>22 DEF SettleFailed
<1>23. CASE KeepForResume(r)
  BY <1>23 DEF KeepForResume
<1>24. CASE NothingStored(r)
  BY <1>24 DEF NothingStored
<1>25. CASE PurgeEmpty(r)
  BY <1>25 DEF PurgeEmpty
<1> QED BY <1>1, <1>2, <1>3, <1>4, <1>5, <1>6, <1>7, <1>8, <1>9, <1>10, <1>11, <1>12, <1>13,
           <1>14, <1>15, <1>16, <1>17, <1>18, <1>19, <1>20, <1>21, <1>22, <1>23, <1>24, <1>25
              DEF RequestStep

LEMMA OneLiveStep ==
  ASSUME OneAtATime, Replacers = Requests, SerialInv, OneLiveInv, [Next]_vars
  PROVE  OneLiveInv'
<1>0. TypeOK /\ SerialShape
      /\ \A r \in Requests : HeldIsKnown(r) /\ RelayCovers(r) /\ Awaited(r)
  BY DEF SerialInv, SerialShape, RelaysAreAwaited, Awaited
<1>1. ASSUME rowName' = rowName, \A f \in Rows : rowSt'[f] = "live" => rowSt[f] = "live",
             \A r \in Requests : pc'[r] = "create" => RowAtPath = {}
      PROVE  OneLiveInv'
  BY <1>1 DEF OneLiveInv
<1>2. ASSUME NEW r \in Requests, RequestStep(r) PROVE OneLiveInv'
  <2>1. \A s \in Requests \ {r} : pc'[s] = "idle"
    BY <1>0, <1>2, RequestSerial, AloneStays, SerialStep DEF SerialInv
  <2>2. CASE Create(r)
    <3>1. \A f \in Rows : rowSt[f] # "live"
      BY <2>2 DEF Create, OneLiveInv
    <3>2. PICK f \in Rows, n \in 0 .. Cardinality(Rows) :
            FirstFree(n) /\ rowSt' = [rowSt EXCEPT ![f] = "live"]
            /\ rowName' = [rowName EXCEPT ![f] = n]
      BY <2>2 DEF Create
    <3>3. n = 0
      <4>1. n # 0 => 0 \in 0 .. n - 1
        OBVIOUS
      <4> QED BY <3>1, <3>2, <4>1 DEF FirstFree
    <3>4. pc'[r] # "create"
      BY <1>0, <2>2 DEF Create, TypeOK
    <3> QED BY <1>0, <2>1, <3>1, <3>2, <3>3, <3>4 DEF OneLiveInv, TypeOK
  <2>3. CASE ~Create(r)
    BY <1>0, <1>1, <1>2, <2>1, <2>3, LiveFrame
  <2> QED BY <2>2, <2>3
<1>3. ASSUME NEW r \in Requests, RelayStep(r) \/ RelayFault(r) PROVE OneLiveInv'
  <2>1. UNCHANGED <<pc, rowSt, rowName>>
    BY <1>3 DEF RelayStep, RelayPlan, RelayNoRow, RelayChunk, RelayChunkRefused, RelayMark,
       RelayMarkRefused, RelayUnheard, RelayFault, rowVars, reqVars
  <2> QED BY <2>1 DEF OneLiveInv
<1>4. ASSUME NEW r \in Requests, Submit(r) \/ Abort(r) PROVE OneLiveInv'
  <2>1. UNCHANGED <<rowSt, rowName>> /\ \A s \in Requests : pc'[s] = "create"
        => pc[s] = "create"
    BY <1>0, <1>4 DEF Submit, Abort, TypeOK, rowVars
  <2> QED BY <2>1 DEF OneLiveInv
<1>5. ASSUME NEW f \in Rows, Delete(f) \/ DeleteForever(f) PROVE OneLiveInv'
  <2>1. /\ rowName' = rowName /\ pc' = pc
        /\ \A g \in Rows : rowSt'[g] = "live" => rowSt[g] = "live"
    BY <1>0, <1>5 DEF Delete, DeleteForever, TypeOK, reqVars
  <2> QED BY <1>1, <2>1 DEF OneLiveInv
<1>6. CASE Restart
  BY <1>1, <1>6 DEF Restart
<1>7. CASE UNCHANGED vars
  BY <1>7 DEF OneLiveInv, vars, rowVars, reqVars
<1> QED BY <1>2, <1>3, <1>4, <1>5, <1>6, <1>7 DEF Next

LEMMA OneLive == OneLiveInv => OneLiveRow
<1> SUFFICES ASSUME OneLiveInv PROVE OneLiveRow
  OBVIOUS
<1> DEFINE Live == {f \in Rows : rowSt[f] = "live"}
<1>1. CASE Live = {}
  BY <1>1, FS_EmptySet DEF OneLiveRow
<1>2. CASE Live # {}
  <2>1. PICK f \in Rows : Live = {f}
    BY <1>2 DEF OneLiveInv
  <2> QED BY <2>1, FS_Singleton DEF OneLiveRow
<1> QED BY <1>1, <1>2

(* A client that replaces, one upload at a time, never has two live copies  *)
(* of its file, whatever fails, restarts or is deleted in between.          *)
THEOREM NeverTwoCopies ==
  ASSUME OneAtATime, Replacers = Requests
  PROVE  Spec => []OneLiveRow
<1>1. Init => OneLiveInv
  BY DEF Init, OneLiveInv
<1>2. SerialInv /\ OneLiveInv /\ [Next]_vars => OneLiveInv'
  BY OneLiveStep
<1> QED BY <1>1, <1>2, SerialInvariant, OneLive, PTL DEF Spec

-----------------------------------------------------------------------------
(* What was stored stays recorded.                                          *)

DistinctHashes ==
    \A r, s \in Requests :
        HashOf[VersionOf[r]] = HashOf[VersionOf[s]] => VersionOf[r] = VersionOf[s]

LEMMA RequestKeeps ==
  ASSUME TypeOK, DistinctHashes, RowsAreWhole, NEW r \in Requests, HeldIsKnown(r),
         RequestStep(r)
  PROVE  KeepsProgress
<1> USE DEF TypeOK, KeepsProgress, rowVars, reqVars, relayVars, boundVars
<1>1. CASE LookupSettled(r)
  BY <1>1 DEF LookupSettled
<1>2. CASE LookupUnfinished(r)
  BY <1>2 DEF LookupUnfinished
<1>3. CASE LookupOther(r)
  BY <1>3 DEF LookupOther
<1>4. CASE CheckRelay(r)
  BY <1>4 DEF CheckRelay
<1>5. CASE RelayOver(r)
  BY <1>5 DEF RelayOver
<1>6. CASE WaitTimeout(r)
  BY <1>6 DEF WaitTimeout
<1>7. CASE WokenSettled(r)
  BY <1>7 DEF WokenSettled
<1>8. CASE WokenRetry(r)
  BY <1>8 DEF WokenRetry
<1>9. CASE Resume(r)
  BY <1>9 DEF Resume
<1>10. CASE PurgeStale(r)
  <2>1. seen[r] = VersionOf[r]
    BY <1>10 DEF PurgeStale, HeldIsKnown, Looked, Offered, DistinctHashes
  <2> QED BY <1>10, <2>1 DEF PurgeStale, Resumable
<1>11. CASE ReplaceLookup(r)
  BY <1>11 DEF ReplaceLookup
<1>12. CASE ReplaceNothing(r)
  BY <1>12 DEF ReplaceNothing
<1>13. CASE ReplaceRefused(r)
  BY <1>13 DEF ReplaceRefused
<1>14. CASE ReplaceAllowed(r)
  BY <1>14 DEF ReplaceAllowed
<1>15. CASE ReplaceMissed(r)
  BY <1>15 DEF ReplaceMissed
<1>16. CASE ReplaceContent(r)
  <2> SUFFICES ASSUME NEW f \in Rows, f = file[r] PROVE KeepsProgress
    BY <1>16 DEF ReplaceContent
  <2>1. CASE isUploaded[f] \/ StoredAt(f) # {}
    <3>1. PICK old \in Rows : ~Exists(old) /\ Retired(f, old, r)
      BY <1>16, <2>1, ReplaceEffect
    <3>2. Exists(f)
      BY <1>16 DEF ReplaceContent, StillExpected
    <3>3. /\ rowSt'[old] = "trash" /\ rowVersion'[old] = rowVersion[f] /\ chunk'[old] = chunk[f]
      BY <3>1, <3>2 DEF Retired
    <3>4. \A g \in Rows \ {f, old} :
            rowSt'[g] = rowSt[g] /\ rowVersion'[g] = rowVersion[g] /\ chunk'[g] = chunk[g]
      BY <3>1 DEF Retired
    <3> QED BY <3>1, <3>3, <3>4
  <2>2. CASE ~(isUploaded[f] \/ StoredAt(f) # {})
    <3>1. /\ rowVersion' = [rowVersion EXCEPT ![f] = VersionOf[r]]
          /\ rowSt' = rowSt /\ chunk' = chunk
      BY <1>16, <2>2, ReplaceEffect
    <3> QED BY <2>2, <3>1
  <2> QED BY <2>1, <2>2
<1>17. CASE Create(r)
  BY <1>17 DEF Create, Fresh
<1>18. CASE Claim(r)
  BY <1>18 DEF Claim
<1>19. CASE Handoff(r)
  BY <1>19 DEF Handoff
<1>20. CASE SeeSpooled(r)
  BY <1>20 DEF SeeSpooled
<1>21. CASE SettleStored(r)
  BY <1>21 DEF SettleStored
<1>22. CASE SettleFailed(r)
  BY <1>22 DEF SettleFailed
<1>23. CASE KeepForResume(r)
  BY <1>23 DEF KeepForResume
<1>24. CASE NothingStored(r)
  BY <1>24 DEF NothingStored
<1>25. CASE PurgeEmpty(r)
  <2>1. \A p \in Positions : chunk[file[r]][p] = NoChunk
    BY <1>25 DEF PurgeEmpty, HeldIsKnown
  <2> QED BY <1>25, <2>1 DEF PurgeEmpty
<1> QED BY <1>1, <1>2, <1>3, <1>4, <1>5, <1>6, <1>7, <1>8, <1>9, <1>10, <1>11, <1>12, <1>13,
           <1>14, <1>15, <1>16, <1>17, <1>18, <1>19, <1>20, <1>21, <1>22, <1>23, <1>24, <1>25
              DEF RequestStep

LEMMA StepKeeps ==
  ASSUME OneAtATime, DistinctHashes, SerialInv, [Next]_vars
  PROVE  KeepsProgress
<1>0. TypeOK /\ RowsAreWhole /\ \A r \in Requests : HeldIsKnown(r)
  BY DEF SerialInv
<1> USE DEF KeepsProgress
<1>1. ASSUME NEW r \in Requests, RequestStep(r) PROVE KeepsProgress
  BY <1>0, <1>1, RequestKeeps
<1>2. ASSUME NEW r \in Requests, RelayStep(r) \/ RelayFault(r) PROVE KeepsProgress
  <2>1. UNCHANGED <<rowSt, rowVersion>>
    BY <1>2 DEF RelayStep, RelayPlan, RelayNoRow, RelayChunk, RelayChunkRefused, RelayMark,
       RelayMarkRefused, RelayUnheard, RelayFault, rowVars, reqVars
  <2>2. \A f \in Rows, p \in Positions : chunk[f][p] # NoChunk => chunk'[f][p] = chunk[f][p]
    <3>1. CASE RelayChunk(r)
      BY <1>0, <3>1 DEF RelayChunk, TypeOK
    <3>2. CASE ~RelayChunk(r)
      BY <1>2, <3>2 DEF RelayStep, RelayPlan, RelayNoRow, RelayChunkRefused, RelayMark,
         RelayMarkRefused, RelayUnheard, RelayFault, rowVars
    <3> QED BY <3>1, <3>2
  <2> QED BY <2>1, <2>2
<1>3. ASSUME NEW r \in Requests, Submit(r) \/ Abort(r) PROVE KeepsProgress
  BY <1>3 DEF Submit, Abort, rowVars
<1>4. ASSUME NEW f \in Rows, Delete(f) \/ DeleteForever(f) PROVE KeepsProgress
  BY <1>0, <1>4 DEF Delete, DeleteForever, TypeOK
<1>5. CASE Restart
  BY <1>0, <1>5 DEF Restart, TypeOK
<1>6. CASE UNCHANGED vars
  BY <1>6 DEF vars, rowVars
<1> QED BY <1>1, <1>2, <1>3, <1>4, <1>5, <1>6 DEF Next

(* A chunk that reached a channel stays recorded, in its row or in the one  *)
(* that retired it, short of a deletion by a user: for uploads one at a     *)
(* time, no two of the same hash and another size.                          *)
THEOREM StoredChunksStay ==
  ASSUME OneAtATime, DistinctHashes
  PROVE  Spec => ProgressIsKept
<1>1. SerialInv /\ [Next]_vars => [KeepsProgress]_vars
  BY StepKeeps
<1> QED BY <1>1, SerialInvariant, PTL DEF Spec, ProgressIsKept

-----------------------------------------------------------------------------
(* The composed specification: the part in which one client replaces keeps  *)
(* its one copy and its chunks for any constants of that kind.              *)

LEMMA ReplacePart ==
  ASSUME OneAtATime
  PROVE  MCSpec => [](part = "replace" => SerialInv)
<1>1. MCInit => (part = "replace" => SerialInv)
  <2>1. Init => SerialInv
    BY SerialInit
  <2> QED BY <2>1 DEF MCInit
<1>2. (part = "replace" => SerialInv) /\ [MCNext]_<<vars, part>>
        => (part = "replace" => SerialInv)'
  BY SerialStep DEF MCNext, Replaces, Retries
<1> QED BY <1>1, <1>2, PTL DEF MCSpec

(* Of the two parts of the run, the one that replaces has one live row.     *)
THEOREM OneCopyAlways ==
  ASSUME OneAtATime, Replacers = Requests
  PROVE  MCSpec => []OneCopy
<1> DEFINE Inv == part = "replace" => SerialInv
           Live == part = "replace" => OneLiveInv
<1>1. MCInit => Live
  BY DEF MCInit, Init, OneLiveInv
<1>2. Inv /\ Live /\ [MCNext]_<<vars, part>> => Live'
  BY OneLiveStep DEF MCNext, Replaces, Retries
<1>3. Live => OneCopy
  BY OneLive DEF OneCopy
<1>4. MCSpec => []Inv
  BY ReplacePart
<1> QED BY <1>1, <1>2, <1>3, <1>4, PTL DEF MCSpec

(* ... and loses no chunk.                                                  *)
THEOREM ProgressAlways ==
  ASSUME OneAtATime, DistinctHashes
  PROVE  MCSpec => Progress
<1> DEFINE Inv == part = "replace" => SerialInv
<1>1. Inv /\ [MCNext]_<<vars, part>> => [part = "replace" => KeepsProgress]_vars
  BY StepKeeps DEF MCNext, Replaces, Retries
<1>2. MCSpec => []Inv
  BY ReplacePart
<1> QED BY <1>1, <1>2, PTL DEF MCSpec, Progress
=============================================================================
