---------------------------- MODULE AutoUploadProofs ----------------------------
(***************************************************************************)
(* The index of the upload side tells the truth, for every folder, ladder   *)
(* and bound.                                                               *)
(*                                                                          *)
(* IndexInv adds to the properties what a pass knows while it works: what   *)
(* it has read of the file is the file, unless a later stamp says           *)
(* otherwise; what it was told of the server's row is the row, because      *)
(* nobody else writes it; and what it has queued is what it still has to do.*)
(***************************************************************************)
EXTENDS AutoUpload, TLAPS

(* The steps of push_one.                                                   *)
Asked == {"read", "hash", "compare", "send"}
Pushing == Asked \cup {"preflight", "drain"}

(* A stamp is never behind one that was noted, nor the account's storage    *)
(* behind one that was bound.                                               *)
Stamps ==
    /\ storage = moves + 1 /\ bound =< storage
    /\ \A f \in Files :
           /\ idxStamp[f] =< stamp[f] /\ seen[f] =< stamp[f] /\ stamp[f] =< edits + 1
           /\ idxIn[f] =< storage

(* The transfers are those of the files still to do and of the current one. *)
Queued ==
    /\ pc \in {"idle", "list", "heal"} => waiting = {} /\ active = {}
    /\ pc = "next" => waiting \subseteq todo /\ active = {}
    /\ pc \in Pushing => waiting \subseteq todo /\ active \subseteq {cur} /\ cur \in Files

(* An entry with the stamp of the file holds its content.                   *)
EntryIsFile == \A f \in Files : idx[f] # 0 /\ idxStamp[f] = stamp[f] => idx[f] = disk[f]

(* What was copied and hashed is the file, unless its stamp has moved on.   *)
ReadIsFile ==
    pc \in Pushing =>
        /\ known = idx[cur]
        /\ seen[cur] = stamp[cur] => copy \in {0, disk[cur]} /\ hash \in {0, disk[cur]}
        /\ pc \in {"compare", "send", "drain"} => hash # 0

(* What the preflight said of the row is still so.                          *)
RemoteIsRow ==
    pc \in Asked /\ bound = storage =>
        /\ remote.st = "stored" => row[cur] = "stored" /\ label[cur] = remote.label
        /\ row[cur] = "relaying" /\ ~blind => SizeOf[bytes[cur]] # sizes[cur]

(* An entry of the account's storage is what the server has.                *)
EntryIsStored ==
    \A f \in Files : idx[f] # 0 /\ idxIn[f] = storage /\ ~overtaken[f] =>
        row[f] = "stored" /\ label[f] = idx[f]

IndexInv ==
    TypeOK /\ Stamps /\ Queued /\ EntryIsFile /\ ReadIsFile /\ RemoteIsRow /\ EntryIsStored
-----------------------------------------------------------------------------
(* What a step does to each table.                                          *)

(* The ends of a push_one that sends nothing, or nothing more.              *)
Ends == \/ SendInProgress \/ SendRefused \/ SendLost \/ SendBusy
        \/ DrainHandedOff \/ DrainFailed \/ DrainLost

(* The steps of the pass around push_one, and of the user.                  *)
Around == \/ Tick \/ List \/ NextFile \/ BatchDone \/ Heal \/ HealUnheard \/ Reopen
          \/ RetryFailedUploads \/ \E on \in BOOLEAN : SetBindingEnabled(on)

(* A request to the server changes neither folder nor bindings.             *)
Requests == \/ Preflight \/ Materialize \/ Hash \/ Compare \/ SendTaken \/ SendKnown
            \/ DrainStored \/ Ends

Outside == \/ \E f \in Files, v \in Contents : Edit(f, v)
           \/ \E f \in Files : RelayStores(f) \/ RelayDies(f)
           \/ StorageReplaced

LEMMA Kinds == [Next]_vars => Around \/ Requests \/ Outside \/ UNCHANGED vars
BY DEF Next, Pass, PushOne, Ends, Around, Requests, Outside

(* The folder: an edit moves the stamp on; the user's other acts are only   *)
(* counted.                                                                 *)
LEMMA FolderMoves ==
  [Next]_vars =>
    \/ UNCHANGED folderVars
    \/ /\ edits < MaxEdits /\ edits' = edits + 1
       /\ \/ UNCHANGED <<disk, stamp>>
          \/ \E f \in Files, v \in Contents :
                /\ disk' = [disk EXCEPT ![f] = v] /\ stamp' = [stamp EXCEPT ![f] = @ + 1]
                /\ UNCHANGED <<indexVars, pc, fileVars, passVars, serverVars>>
<1> SUFFICES ASSUME [Next]_vars, ~UNCHANGED folderVars
             PROVE  /\ edits < MaxEdits /\ edits' = edits + 1
                    /\ \/ UNCHANGED <<disk, stamp>>
                       \/ \E f \in Files, v \in Contents :
                             /\ disk' = [disk EXCEPT ![f] = v]
                             /\ stamp' = [stamp EXCEPT ![f] = @ + 1]
                             /\ UNCHANGED <<indexVars, pc, fileVars, passVars, serverVars>>
  OBVIOUS
<1>1. ~Requests
  BY DEF Requests, Ends, Preflight, Materialize, Hash, Compare, SendTaken, SendKnown,
      SendInProgress,
       SendRefused, SendLost, SendBusy, DrainHandedOff, DrainStored, DrainFailed, DrainLost
<1>2. CASE Around
  <2>1. RetryFailedUploads \/ \E on \in BOOLEAN : SetBindingEnabled(on)
    BY <1>2 DEF Around, Tick, List, NextFile, BatchDone, Heal, HealUnheard, Reopen
  <2> QED BY <2>1 DEF RetryFailedUploads, SetBindingEnabled
<1>3. CASE Outside
  BY <1>3 DEF Outside, Edit, RelayStores, RelayDies, StorageReplaced
<1> QED BY <1>1, <1>2, <1>3, Kinds DEF vars

(* An entry is written for what the server confirmed, now or to the         *)
(* preflight; its stamp alone where the content is the same.                *)
Confirmed ==
    \/ pc = "compare" /\ remote.st = "stored" /\ remote.label = hash
    \/ pc \in {"send", "drain"} /\ bound = storage /\ row[cur] = "stored" /\ label[cur] = hash

LEMMA IndexMoves ==
  [Next]_vars =>
    \/ UNCHANGED indexVars
    \/ Record /\ Confirmed /\ pc' = "next" /\ UNCHANGED <<folderVars, bindingVars, serverVars>>
    \/ /\ pc = "compare" /\ known = hash /\ pc' = "next"
       /\ idxStamp' = [idxStamp EXCEPT ![cur] = seen[cur]]
       /\ UNCHANGED <<idx, idxIn, overtaken>>
       /\ UNCHANGED <<folderVars, bindingVars, serverVars>>
    \/ SendTaken
<1> SUFFICES ASSUME [Next]_vars, ~UNCHANGED indexVars, ~SendTaken
             PROVE  \/ /\ Record /\ Confirmed /\ pc' = "next"
                       /\ UNCHANGED <<folderVars, bindingVars, serverVars>>
                    \/ /\ pc = "compare" /\ known = hash /\ pc' = "next"
                       /\ idxStamp' = [idxStamp EXCEPT ![cur] = seen[cur]]
                       /\ UNCHANGED <<idx, idxIn, overtaken>>
                       /\ UNCHANGED <<folderVars, bindingVars, serverVars>>
  OBVIOUS
<1>1. ~Around /\ ~Outside
  BY DEF Around, Tick, List, NextFile, BatchDone, Heal, HealUnheard, Reopen, RetryFailedUploads,
       SetBindingEnabled, Outside, Edit, RelayStores, RelayDies, StorageReplaced
<1>2. Compare \/ SendKnown \/ DrainStored
  BY <1>1, Kinds DEF Requests, Ends, Preflight, Materialize, Hash, SendInProgress,
      SendRefused, SendLost,
       SendBusy, DrainHandedOff, DrainFailed, DrainLost, vars
<1>3. CASE Compare
  BY <1>3 DEF Compare, Confirmed, Healthy, indexVars
<1>4. CASE SendKnown \/ DrainStored
  BY <1>4 DEF SendKnown, DrainStored, Confirmed, Healthy
<1> QED BY <1>2, <1>3, <1>4

(* The retry table.                                                         *)
LEMMA LadderMoves ==
  [Next]_vars =>
    \/ UNCHANGED ladderVars
    \/ UNCHANGED fails /\ wait' = [f \in Files |-> IF wait[f] = 0 THEN 0 ELSE wait[f] - 1]
    \/ pc \in Pushing /\ (ClearUploadFailure(cur) \/ NoteUploadFailure(cur))
    \/ fails' = [f \in Files |-> 0] /\ wait' = [f \in Files |-> 0]
<1> SUFFICES ASSUME [Next]_vars, ~UNCHANGED ladderVars
             PROVE  \/ /\ UNCHANGED fails
                       /\ wait' = [f \in Files |-> IF wait[f] = 0 THEN 0 ELSE wait[f] - 1]
                    \/ pc \in Pushing /\ (ClearUploadFailure(cur) \/ NoteUploadFailure(cur))
                    \/ fails' = [f \in Files |-> 0] /\ wait' = [f \in Files |-> 0]
  OBVIOUS
<1>1. ~Outside
  BY DEF Outside, Edit, RelayStores, RelayDies, StorageReplaced
<1>2. CASE Around
  <2>1. Tick \/ RetryFailedUploads
    BY <1>2 DEF Around, List, NextFile, BatchDone, Heal, HealUnheard, Reopen, SetBindingEnabled
  <2> QED BY <2>1 DEF Tick, RetryFailedUploads
<1>3. CASE Requests
  <2>1. pc \in Pushing
    BY <1>3 DEF Requests, Ends, Preflight, Materialize, Hash, Compare, SendTaken, SendKnown,
        SendInProgress,
         SendRefused, SendLost, SendBusy, DrainHandedOff, DrainStored, DrainFailed, DrainLost,
         Pushing, Asked
  <2>2. Healthy \/ FileFailed
    BY <1>3 DEF Requests, Ends, Preflight, Materialize, Hash, Compare, SendTaken, SendKnown,
        SendInProgress,
         SendRefused, SendLost, SendBusy, DrainHandedOff, DrainStored, DrainFailed, DrainLost,
         LinkFailed, Busy
  <2> QED BY <2>1, <2>2 DEF Healthy, FileFailed
<1> QED BY <1>1, <1>2, <1>3, Kinds DEF vars

(* The binding: its switch, and its storage when a pass ends.               *)
LEMMA BindingMoves ==
  [Next]_vars =>
    \/ UNCHANGED bindingVars
    \/ UNCHANGED bound /\ enabled' \in BOOLEAN
    \/ /\ pc = "heal" /\ pc' = "idle" /\ bound' = storage /\ enabled' = TRUE
       /\ UNCHANGED <<indexVars, serverVars>>
<1> SUFFICES ASSUME [Next]_vars, ~UNCHANGED bindingVars
             PROVE  \/ UNCHANGED bound /\ enabled' \in BOOLEAN
                    \/ /\ pc = "heal" /\ pc' = "idle" /\ bound' = storage /\ enabled' = TRUE
                       /\ UNCHANGED <<indexVars, serverVars>>
  OBVIOUS
<1>1. ~Requests /\ ~Outside
  BY DEF Requests, Ends, Preflight, Materialize, Hash, Compare, SendTaken, SendKnown,
      SendInProgress,
       SendRefused, SendLost, SendBusy, DrainHandedOff, DrainStored, DrainFailed, DrainLost,
       Outside, Edit, RelayStores, RelayDies, StorageReplaced
<1>2. Heal \/ \E on \in BOOLEAN : SetBindingEnabled(on)
  BY <1>1, Kinds DEF Around, Tick, List, NextFile, BatchDone, HealUnheard, Reopen,
      RetryFailedUploads, vars
<1> QED BY <1>2 DEF Heal, SetBindingEnabled

(* The server's rows: the client's own send, the relays, a new storage.     *)
LEMMA ServerMoves ==
  [Next]_vars =>
    \/ UNCHANGED serverVars
    \/ SendTaken
    \/ \E f \in Files : RelayStores(f) \/ RelayDies(f)
    \/ StorageReplaced
<1> SUFFICES ASSUME [Next]_vars, ~UNCHANGED serverVars, ~SendTaken
             PROVE  (\E f \in Files : RelayStores(f) \/ RelayDies(f)) \/ StorageReplaced
  OBVIOUS
<1>1. ~Around
  BY DEF Around, Tick, List, NextFile, BatchDone, Heal, HealUnheard, Reopen,
      RetryFailedUploads, SetBindingEnabled
<1>2. ~Requests
  BY DEF Requests, Ends, Preflight, Materialize, Hash, Compare, SendKnown, SendInProgress,
       SendRefused, SendLost, SendBusy, DrainHandedOff, DrainStored, DrainFailed, DrainLost
<1> QED BY <1>1, <1>2, Kinds DEF Outside, Edit, vars

(* The pass: it stands still, or goes on to another file, or one step on in *)
(* push_one, or ends the file.                                              *)
LEMMA PassMoves ==
  Queued /\ [Next]_vars =>
    \/ UNCHANGED <<pc, todo, seen, sizes, fileVars>> /\ waiting' = waiting /\ active' = active
    \/ Around
    \/ Requests /\ cur \in Files /\ UNCHANGED <<cur, known, seen, sizes>>
<1> SUFFICES ASSUME Queued, [Next]_vars, ~Around
             PROVE  \/ UNCHANGED <<pc, todo, seen, sizes, fileVars>> /\ waiting' = waiting
                       /\ active' = active
                    \/ Requests /\ cur \in Files /\ UNCHANGED <<cur, known, seen, sizes>>
  OBVIOUS
<1>1. CASE Outside
  BY <1>1 DEF Outside, Edit, RelayStores, RelayDies, StorageReplaced, queueVars, passVars
<1>2. CASE UNCHANGED vars
  BY <1>2 DEF vars, queueVars, passVars
<1>3. CASE Requests
  <2>1. cur \in Files
    BY <1>3 DEF Queued, Requests, Ends, Preflight, Materialize, Hash, Compare, SendTaken,
        SendKnown, SendInProgress,
         SendRefused, SendLost, SendBusy, DrainHandedOff, DrainStored, DrainFailed, DrainLost,
         Pushing, Asked
  <2>2. UNCHANGED <<cur, known, seen, sizes>>
    BY <1>3 DEF Requests, Ends, Preflight, Materialize, Hash, Compare, SendTaken, SendKnown,
        SendInProgress,
         SendRefused, SendLost, SendBusy, DrainHandedOff, DrainStored, DrainFailed, DrainLost,
         Healthy, FileFailed, LinkFailed, Busy, passVars, fileVars
  <2> QED BY <1>3, <2>1, <2>2
<1> QED BY <1>1, <1>2, <1>3, Kinds
-----------------------------------------------------------------------------
(* Every variable stays in its range.                                       *)

(* What a pass works with, by the tables it belongs to.                     *)
PassType ==
    /\ pc \in Steps /\ todo \subseteq Files /\ seen \in [Files -> 0 .. MaxEdits + 1]
    /\ sizes \in [Files -> Nat] /\ inARow \in Nat /\ error \in BOOLEAN
    /\ waiting \subseteq Files /\ active \subseteq Files
FileType ==
    /\ cur \in Files \cup {NoFile} /\ known \in Contents /\ hash \in Contents
    /\ copy \in Contents /\ blind \in BOOLEAN
    /\ remote \in [st : RowStates, label : Contents, size : Nat]
ServerType ==
    /\ row \in [Files -> RowStates] /\ label \in [Files -> Contents]
    /\ bytes \in [Files -> Contents] /\ storage \in 1 .. MaxMoves + 1 /\ moves \in 0 .. MaxMoves
FolderType ==
    /\ disk \in [Files -> Contents] /\ stamp \in [Files -> 1 .. MaxEdits + 1]
    /\ edits \in 0 .. MaxEdits
IndexType ==
    /\ idx \in [Files -> Contents] /\ idxStamp \in [Files -> 0 .. MaxEdits + 1]
    /\ idxIn \in [Files -> 0 .. MaxMoves + 1] /\ overtaken \in [Files -> BOOLEAN]
LadderType == fails \in [Files -> Nat] /\ wait \in [Files -> Nat]

LEMMA Types ==
  TypeOK <=> /\ PassType /\ FileType /\ ServerType /\ FolderType /\ IndexType /\ LadderType
             /\ enabled \in BOOLEAN /\ bound \in 1 .. MaxMoves + 1 /\ faults \in 0 .. MaxFaults
BY DEF TypeOK, PassType, FileType, ServerType, FolderType, IndexType, LadderType

LEMMA FolderStep ==
  AutoUploadConstants /\ FolderType /\ Stamps /\ [Next]_vars
  => FolderType' /\ \A f \in Files : stamp'[f] =< edits' + 1 /\ stamp[f] =< stamp'[f]
<1> SUFFICES ASSUME AutoUploadConstants, FolderType, Stamps, [Next]_vars
             PROVE  FolderType' /\ \A f \in Files : stamp'[f] =< edits' + 1
                    /\ stamp[f] =< stamp'[f]
  OBVIOUS
<1>0. /\ FolderType /\ MaxEdits \in Nat
      /\ \A f \in Files : stamp[f] =< edits + 1 /\ stamp[f] \in Nat
  BY DEF AutoUploadConstants, Stamps, FolderType
<1>1. CASE UNCHANGED folderVars
  BY <1>0, <1>1 DEF folderVars, FolderType
<1>2. CASE edits < MaxEdits /\ edits' = edits + 1 /\ UNCHANGED <<disk, stamp>>
  BY <1>0, <1>2 DEF FolderType
<1>3. ASSUME NEW f \in Files, NEW v \in Contents, edits < MaxEdits, edits' = edits + 1,
             disk' = [disk EXCEPT ![f] = v], stamp' = [stamp EXCEPT ![f] = @ + 1]
      PROVE  FolderType' /\ \A g \in Files : stamp'[g] =< edits' + 1 /\ stamp[g] =< stamp'[g]
  BY <1>0, <1>3 DEF FolderType
<1> QED BY <1>1, <1>2, <1>3, FolderMoves

LEMMA ServerStep ==
  AutoUploadConstants /\ TypeOK /\ Stamps /\ Queued /\ [Next]_vars
  => ServerType' /\ storage' = moves' + 1 /\ storage =< storage'
<1> SUFFICES ASSUME AutoUploadConstants, TypeOK, Stamps, Queued, [Next]_vars
             PROVE  ServerType' /\ storage' = moves' + 1 /\ storage =< storage'
  OBVIOUS
<1>0. ServerType /\ storage = moves + 1 /\ MaxMoves \in Nat
  BY Types DEF AutoUploadConstants, Stamps
<1>1. CASE UNCHANGED serverVars
  BY <1>0, <1>1 DEF serverVars, ServerType
<1>2. CASE SendTaken
  <2>1. cur \in Files /\ hash \in Contents /\ Source \in Contents
    BY <1>2, Types DEF SendTaken, Queued, Pushing, Asked, FileType, FolderType, Source
  <2> QED BY <1>0, <1>2, <2>1 DEF SendTaken, ServerType, RowStates
<1>3. ASSUME NEW f \in Files, RelayStores(f) \/ RelayDies(f)
      PROVE  ServerType' /\ storage' = moves' + 1 /\ storage =< storage'
  BY <1>0, <1>3 DEF RelayStores, RelayDies, ServerType, RowStates, Contents
<1>4. CASE StorageReplaced
  BY <1>0, <1>4 DEF StorageReplaced, ServerType, RowStates, Contents
<1> QED BY <1>1, <1>2, <1>3, <1>4, ServerMoves

LEMMA LadderStep == AutoUploadConstants /\ TypeOK /\ Queued /\ [Next]_vars => LadderType'
<1> SUFFICES ASSUME AutoUploadConstants, TypeOK, Queued, [Next]_vars PROVE LadderType'
  OBVIOUS
<1>0. LadderType /\ (pc \in Pushing => cur \in Files)
  BY Types DEF Queued
<1>1. \A n \in Nat : Rung(n + 1) \in Nat /\ Ladder[Rung(n + 1)] \in Nat
  BY DEF AutoUploadConstants, Rung
<1>2. CASE UNCHANGED ladderVars
  BY <1>0, <1>2 DEF ladderVars, LadderType
<1>3. CASE UNCHANGED fails /\ wait' = [f \in Files |-> IF wait[f] = 0 THEN 0 ELSE wait[f] - 1]
  BY <1>0, <1>3 DEF LadderType
<1>4. CASE pc \in Pushing /\ ClearUploadFailure(cur)
  BY <1>0, <1>4 DEF ClearUploadFailure, LadderType
<1>5. CASE pc \in Pushing /\ NoteUploadFailure(cur)
  <2>1. fails[cur] \in Nat
    BY <1>0, <1>5 DEF LadderType
  <2> QED BY <1>0, <1>1, <1>5, <2>1 DEF NoteUploadFailure, LadderType
<1>6. CASE fails' = [f \in Files |-> 0] /\ wait' = [f \in Files |-> 0]
  BY <1>6 DEF LadderType
<1> QED BY <1>2, <1>3, <1>4, <1>5, <1>6, LadderMoves

LEMMA BindingStep ==
  AutoUploadConstants /\ TypeOK /\ Stamps /\ [Next]_vars
  => enabled' \in BOOLEAN /\ bound' \in 1 .. MaxMoves + 1 /\ bound' =< storage
<1> SUFFICES ASSUME AutoUploadConstants, TypeOK, Stamps, [Next]_vars
             PROVE  enabled' \in BOOLEAN /\ bound' \in 1 .. MaxMoves + 1 /\ bound' =< storage
  OBVIOUS
<1>0. /\ enabled \in BOOLEAN /\ bound \in 1 .. MaxMoves + 1 /\ bound =< storage
      /\ storage \in 1 .. MaxMoves + 1 /\ MaxMoves \in Nat
  BY DEF AutoUploadConstants, TypeOK, Stamps
<1>1. CASE UNCHANGED bindingVars
  BY <1>0, <1>1 DEF bindingVars
<1>2. CASE UNCHANGED bound /\ enabled' \in BOOLEAN
  BY <1>0, <1>2
<1>3. CASE bound' = storage /\ enabled' = TRUE
  BY <1>0, <1>3
<1> QED BY <1>1, <1>2, <1>3, BindingMoves

LEMMA IndexStep ==
  AutoUploadConstants /\ TypeOK /\ Stamps /\ Queued /\ [Next]_vars
  => IndexType' /\ \A f \in Files : idxStamp'[f] =< stamp[f] /\ idxIn'[f] =< storage
<1> SUFFICES ASSUME AutoUploadConstants, TypeOK, Stamps, Queued, [Next]_vars
             PROVE  IndexType' /\ \A f \in Files : idxStamp'[f] =< stamp[f]
                    /\ idxIn'[f] =< storage
  OBVIOUS
<1>0. /\ IndexType /\ bound \in 0 .. MaxMoves + 1 /\ bound =< storage /\ hash \in Contents
      /\ seen \in [Files -> 0 .. MaxEdits + 1]
      /\ \A f \in Files : idxStamp[f] =< stamp[f] /\ seen[f] =< stamp[f] /\ idxIn[f] =< storage
      /\ pc \in Pushing => cur \in Files
  BY Types DEF Stamps, Queued, PassType, FileType
<1>1. CASE UNCHANGED indexVars
  BY <1>0, <1>1 DEF indexVars, IndexType
<1>2. CASE Record /\ Confirmed
  <2>1. cur \in Files
    BY <1>0, <1>2 DEF Confirmed, Pushing, Asked
  <2> QED BY <1>0, <1>2, <2>1 DEF Record, IndexType
<1>3. CASE /\ pc = "compare" /\ idxStamp' = [idxStamp EXCEPT ![cur] = seen[cur]]
           /\ UNCHANGED <<idx, idxIn, overtaken>>
  BY <1>0, <1>3 DEF IndexType, Pushing, Asked
<1>4. CASE SendTaken
  BY <1>0, <1>4 DEF SendTaken, IndexType, Pushing, Asked
<1> QED BY <1>1, <1>2, <1>3, <1>4, IndexMoves

LEMMA FaultsStep == AutoUploadConstants /\ TypeOK /\ [Next]_vars => faults' \in 0 .. MaxFaults
<1> SUFFICES ASSUME AutoUploadConstants, TypeOK, [Next]_vars PROVE faults' \in 0 .. MaxFaults
  OBVIOUS
<1>1. faults \in 0 .. MaxFaults /\ MaxFaults \in Nat
  BY DEF TypeOK, AutoUploadConstants
<1>2. UNCHANGED faults \/ Fault
  BY Kinds DEF vars, Outside, Edit, RelayStores, RelayDies, StorageReplaced, Requests, Ends,
      Preflight, Materialize, Hash, Compare, SendTaken, SendKnown, SendInProgress,
       SendRefused, SendLost, SendBusy, DrainHandedOff, DrainStored, DrainFailed, DrainLost,
       Around, Tick, List, NextFile, BatchDone, Heal, HealUnheard, Reopen, RetryFailedUploads,
       SetBindingEnabled
<1> QED BY <1>1, <1>2 DEF Fault

LEMMA FileStep ==
  AutoUploadConstants /\ TypeOK /\ Queued /\ [Next]_vars
  => FileType' /\ (pc' \in Pushing => cur' \in Files)
<1> SUFFICES ASSUME AutoUploadConstants, TypeOK, Queued, [Next]_vars
             PROVE  FileType' /\ (pc' \in Pushing => cur' \in Files)
  OBVIOUS
<1>0. /\ FileType /\ todo \subseteq Files /\ (pc \in Pushing => cur \in Files)
      /\ \A f \in Files : idx[f] \in Contents /\ disk[f] \in Contents /\ row[f] \in RowStates
                         /\ label[f] \in Contents /\ SizeOf[bytes[f]] \in Nat
  BY Types DEF AutoUploadConstants, PassType, IndexType, FolderType, ServerType, Queued
<1>1. 0 \in Contents /\ NoRemote \in [st : RowStates, label : Contents, size : Nat]
  BY DEF Contents, NoRemote, RowStates
<1>2. CASE UNCHANGED <<pc, fileVars>>
  BY <1>0, <1>2 DEF fileVars, FileType
<1>3. CASE Around
  <2>1. CASE NextFile \/ Reopen
    BY <1>0, <1>1, <2>1 DEF NextFile, Reopen, FileType, Pushing, Asked
  <2>2. CASE \/ Tick \/ List \/ BatchDone \/ Heal \/ HealUnheard \/ RetryFailedUploads
             \/ \E on \in BOOLEAN : SetBindingEnabled(on)
    BY <1>0, <2>2 DEF Tick, List, BatchDone, Heal, HealUnheard, RetryFailedUploads,
        SetBindingEnabled,
         fileVars, FileType, Pushing, Asked
  <2> QED BY <1>3, <2>1, <2>2 DEF Around
<1>4. ASSUME Requests, cur \in Files, UNCHANGED <<cur, known>>
      PROVE  FileType' /\ (pc' \in Pushing => cur' \in Files)
  <2>1. hash' \in Contents /\ copy' \in Contents
    BY <1>0, <1>1, <1>4 DEF FileType, Source, Requests, Ends, Preflight, Materialize, Hash,
        Compare, SendTaken, SendKnown, SendInProgress,
         SendRefused, SendLost, SendBusy, DrainHandedOff, DrainStored, DrainFailed, DrainLost,
         Release, fileVars
  <2>2. blind' \in BOOLEAN /\ remote' \in [st : RowStates, label : Contents, size : Nat]
    <3>1. RemoteRow(cur) \in [st : RowStates, label : Contents, size : Nat]
      BY <1>0, <1>1, <1>4 DEF RemoteRow
    <3>2. CASE Preflight
      BY <1>1, <3>1, <3>2 DEF Preflight
    <3>3. CASE ~Preflight
      <4>1. UNCHANGED <<blind, remote>>
        BY <1>4, <3>3 DEF Requests, Ends, Materialize, Hash, Compare, SendTaken, SendKnown,
            SendInProgress,
         SendRefused, SendLost, SendBusy, DrainHandedOff, DrainStored, DrainFailed, DrainLost,
         fileVars
      <4> QED BY <1>0, <4>1 DEF FileType
    <3> QED BY <3>2, <3>3
  <2> QED BY <1>0, <1>4, <2>1, <2>2 DEF FileType
<1> QED BY <1>2, <1>3, <1>4, PassMoves

(* How a request leaves the pass: on to the next step, or at the end of the *)
(* file, where a stopped batch gives up the rest.                           *)
LEMMA RequestMoves ==
  Requests =>
    /\ pc \in Pushing /\ pc' \in Steps
    /\ inARow' \in {inARow, 0, inARow + 1} /\ error' \in {error, TRUE}
    /\ UNCHANGED <<seen, sizes>>
    /\ \/ pc' \in Pushing /\ UNCHANGED <<todo, queueVars>>
       \/ /\ pc' = "next" /\ active' = active \ {cur}
          /\ \/ UNCHANGED <<todo, waiting>>
             \/ todo' = {} /\ waiting' = waiting \ todo
<1> SUFFICES ASSUME Requests
             PROVE  /\ pc \in Pushing /\ pc' \in Steps
                    /\ inARow' \in {inARow, 0, inARow + 1} /\ error' \in {error, TRUE}
                    /\ UNCHANGED <<seen, sizes>>
                    /\ \/ pc' \in Pushing /\ UNCHANGED <<todo, queueVars>>
                       \/ /\ pc' = "next" /\ active' = active \ {cur}
                          /\ \/ UNCHANGED <<todo, waiting>>
                             \/ todo' = {} /\ waiting' = waiting \ todo
  OBVIOUS
<1>1. pc \in Pushing
  BY DEF Requests, Ends, Preflight, Materialize, Hash, Compare, SendTaken, SendKnown,
         SendInProgress, SendRefused, SendLost, SendBusy, DrainHandedOff, DrainStored,
         DrainFailed, DrainLost, Pushing, Asked
<1>2. \/ pc' \in Pushing /\ UNCHANGED <<passVars, queueVars>>
      \/ Release /\ (Healthy \/ FileFailed \/ LinkFailed \/ Busy)
  BY DEF Requests, Ends, Preflight, Materialize, Hash, Compare, SendTaken, SendKnown,
         SendInProgress, SendRefused, SendLost, SendBusy, DrainHandedOff, DrainStored,
         DrainFailed, DrainLost, passVars, queueVars, Pushing, Asked
<1>3. CASE pc' \in Pushing /\ UNCHANGED <<passVars, queueVars>>
  BY <1>1, <1>3 DEF passVars, Pushing, Asked, Steps
<1>4. CASE Release /\ (Healthy \/ FileFailed \/ LinkFailed \/ Busy)
  BY <1>1, <1>4 DEF Release, Healthy, FileFailed, LinkFailed, Busy, StopBatch, passVars, Steps
<1> QED BY <1>2, <1>3, <1>4

LEMMA PassStep ==
  AutoUploadConstants /\ TypeOK /\ Queued /\ [Next]_vars => PassType'
<1> SUFFICES ASSUME AutoUploadConstants, TypeOK, Queued, [Next]_vars PROVE PassType'
  OBVIOUS
<1>0. /\ PassType /\ stamp \in [Files -> 0 .. MaxEdits + 1]
      /\ \A f \in Files : SizeOf[disk[f]] \in Nat
  BY Types DEF AutoUploadConstants, FolderType
<1>1. CASE Outside \/ UNCHANGED vars
  BY <1>0, <1>1 DEF Outside, Edit, RelayStores, RelayDies, StorageReplaced, vars, queueVars,
      passVars, PassType
<1>2. CASE Around
  <2>1. CASE List
    BY <1>0, <2>1 DEF List, EnqueueWaiting, PassType, Steps
  <2>2. CASE NextFile
    BY <1>0, <2>2 DEF NextFile, Promote, PassType, Steps
  <2>3. CASE Reopen
    BY <1>0, <2>3 DEF Reopen, ClearBinding, PassType, Steps
  <2>4. CASE Tick \/ BatchDone \/ Heal \/ HealUnheard
    BY <1>0, <2>4 DEF Tick, BatchDone, Heal, HealUnheard, passVars, queueVars, PassType, Steps
  <2>5. CASE RetryFailedUploads \/ \E on \in BOOLEAN : SetBindingEnabled(on)
    BY <1>0, <2>5 DEF RetryFailedUploads, SetBindingEnabled, ClearBinding, passVars,
        queueVars, PassType
  <2> QED BY <1>2, <2>1, <2>2, <2>3, <2>4, <2>5 DEF Around
<1>3. CASE Requests
  <2>0. inARow \in Nat /\ error \in BOOLEAN
    BY <1>0 DEF PassType
  <2>1. inARow' \in Nat /\ error' \in BOOLEAN
    <3>1. inARow' \in {inARow, 0, inARow + 1} /\ error' \in {error, TRUE}
      BY <1>3, RequestMoves
    <3>2. inARow' \in Nat
      BY <2>0, <3>1
    <3>3. error' \in BOOLEAN
      BY <2>0, <3>1, Zenon
    <3> QED BY <3>2, <3>3
  <2>2. pc' \in Steps /\ UNCHANGED <<seen, sizes>>
    BY <1>3, RequestMoves
  <2>3. todo' \subseteq Files /\ waiting' \subseteq Files /\ active' \subseteq Files
    BY <1>0, <1>3, RequestMoves DEF PassType, queueVars
  <2> QED BY <1>0, <2>1, <2>2, <2>3 DEF PassType
<1> QED BY <1>1, <1>2, <1>3, Kinds

LEMMA QueuedStep ==
  TypeOK /\ Queued /\ [Next]_vars => Queued'
<1> SUFFICES ASSUME TypeOK, Queued, [Next]_vars PROVE Queued'
  OBVIOUS
<1>0. Queued /\ todo \subseteq Files
  BY Types DEF PassType
<1>1. CASE UNCHANGED <<pc, todo, seen, sizes,
fileVars>> /\ waiting' = waiting /\ active' = active
  BY <1>0, <1>1 DEF Queued, fileVars
<1>2. CASE Around
  <2>1. CASE List
    BY <1>0, <2>1 DEF List, EnqueueWaiting, Queued, Pushing, Asked
  <2>2. CASE NextFile
    BY <1>0, <2>2 DEF NextFile, Promote, Queued, Pushing, Asked
  <2>3. CASE Reopen
    BY <1>0, <2>3 DEF Reopen, ClearBinding, Queued, Pushing, Asked
  <2>4. CASE Tick \/ BatchDone \/ Heal \/ HealUnheard
    BY <1>0, <2>4 DEF Tick, BatchDone, Heal, HealUnheard, passVars, queueVars, Queued,
        Pushing, Asked
  <2>5. CASE RetryFailedUploads \/ \E on \in BOOLEAN : SetBindingEnabled(on)
    BY <1>0, <2>5 DEF RetryFailedUploads, SetBindingEnabled, ClearBinding, passVars,
        queueVars, fileVars,
         Queued
  <2> QED BY <1>2, <2>1, <2>2, <2>3, <2>4, <2>5 DEF Around
<1>3. ASSUME Requests, cur \in Files, UNCHANGED <<cur, known, seen, sizes>> PROVE Queued'
  BY <1>0, <1>3, RequestMoves DEF Queued, queueVars, Pushing, Asked
<1> QED BY <1>1, <1>2, <1>3, PassMoves

(* The tables of the next state are typed as those of this one.             *)
LEMMA TypeStep ==
  AutoUploadConstants /\ TypeOK /\ Stamps /\ Queued /\ [Next]_vars => TypeOK'
BY Types, FolderStep, ServerStep, LadderStep, BindingStep, IndexStep, FaultsStep, FileStep,
    PassStep
DEF TypeOK, PassType, FileType, ServerType, FolderType, IndexType, LadderType

LEMMA StampsStep ==
  AutoUploadConstants /\ TypeOK /\ Stamps /\ Queued /\ [Next]_vars => Stamps'
<1> SUFFICES ASSUME AutoUploadConstants, TypeOK, Stamps, Queued, [Next]_vars PROVE Stamps'
  OBVIOUS
<1>0. /\ storage' = moves' + 1 /\ storage =< storage' /\ bound' =< storage
      /\ \A f \in Files : /\ stamp'[f] =< edits' + 1 /\ stamp[f] =< stamp'[f]
                          /\ idxStamp'[f] =< stamp[f] /\ idxIn'[f] =< storage
  BY FolderStep, ServerStep, BindingStep, IndexStep, Types
<1>1. TypeOK'
  BY TypeStep
<1>2. /\ storage \in Nat /\ storage' \in Nat /\ bound' \in Nat
      /\ \A f \in Files : /\ stamp[f] \in Nat /\ stamp'[f] \in Nat /\ idxStamp'[f] \in Nat
                          /\ idxIn'[f] \in Nat /\ seen'[f] \in Nat /\ seen[f] \in Nat
  BY <1>1 DEF TypeOK
<1>3. UNCHANGED seen \/ seen' = stamp
  <2>1. CASE Around
    BY <2>1 DEF Around, Tick, List, NextFile, BatchDone, Heal, HealUnheard, Reopen,
        RetryFailedUploads,
         SetBindingEnabled, passVars
  <2> QED BY <2>1, PassMoves
<1>4. \A f \in Files : seen[f] =< stamp[f]
  BY DEF Stamps
<1> QED BY <1>0, <1>2, <1>3, <1>4 DEF Stamps
-----------------------------------------------------------------------------
(* What the pass knows is so.                                               *)

LEMMA EntryIsFileStep ==
  AutoUploadConstants /\ TypeOK /\ Stamps /\ Queued /\ EntryIsFile /\ ReadIsFile /\ [Next]_vars
  => EntryIsFile'
<1> SUFFICES ASSUME AutoUploadConstants, TypeOK, Stamps, Queued, EntryIsFile, ReadIsFile,
                    [Next]_vars,
                    NEW f \in Files, idx'[f] # 0, idxStamp'[f] = stamp'[f]
             PROVE  idx'[f] = disk'[f]
  BY DEF EntryIsFile
<1>0. /\ stamp \in [Files -> Nat] /\ disk \in [Files -> Contents] /\ idx \in [Files -> Contents]
      /\ idxStamp \in [Files -> Nat] /\ seen \in [Files -> Nat]
      /\ idxStamp[f] =< stamp[f] /\ seen[f] =< stamp[f]
      /\ idx[f] # 0 /\ idxStamp[f] = stamp[f] => idx[f] = disk[f]
  BY DEF TypeOK, Stamps, EntryIsFile
<1>1. CASE UNCHANGED indexVars
  <2>1. idx'[f] = idx[f] /\ idxStamp'[f] = idxStamp[f]
    BY <1>1 DEF indexVars
  <2>2. CASE UNCHANGED <<disk, stamp>>
    BY <1>0, <2>1, <2>2
  <2>3. ASSUME NEW g \in Files, NEW v \in Contents,
               disk' = [disk EXCEPT ![g] = v], stamp' = [stamp EXCEPT ![g] = @ + 1]
        PROVE  idx'[f] = disk'[f]
    <3>1. CASE f = g
      <4>1. stamp'[f] = stamp[f] + 1 /\ idxStamp[f] =< stamp[f] /\ stamp[f] \in Nat
            /\ idxStamp[f] \in Nat
        BY <1>0, <2>3, <3>1
      <4>2. idxStamp[f] # stamp[f] + 1
        BY <4>1
      <4> QED BY <2>1, <4>1, <4>2
    <3>2. CASE f # g
      BY <1>0, <2>1, <2>3, <3>2
    <3> QED BY <3>1, <3>2
  <2> QED BY <2>2, <2>3, FolderMoves DEF folderVars
<1>2. CASE Record /\ Confirmed /\ UNCHANGED folderVars
  <2>1. CASE f = cur
    <3>1. idx'[f] = hash /\ idxStamp'[f] = seen[f] /\ UNCHANGED <<disk, stamp>>
      BY <1>0, <1>2, <2>1 DEF Record, folderVars
    <3>2. seen[f] = stamp[f] => hash \in {0, disk[f]}
      BY <1>2, <2>1 DEF ReadIsFile, Confirmed, Pushing, Asked
    <3> QED BY <3>1, <3>2
  <2>2. CASE f # cur
    <3>1. idx'[f] = idx[f] /\ idxStamp'[f] = idxStamp[f] /\ UNCHANGED <<disk, stamp>>
      BY <1>0, <1>2, <2>2 DEF Record, folderVars
    <3> QED BY <1>0, <3>1
  <2> QED BY <2>1, <2>2
<1>3. CASE /\ pc = "compare" /\ known = hash /\ idxStamp' = [idxStamp EXCEPT ![cur] = seen[cur]]
           /\ UNCHANGED <<idx, idxIn, overtaken>> /\ UNCHANGED folderVars
  <2>1. idx'[f] = idx[f] /\ UNCHANGED <<disk, stamp>>
    BY <1>3 DEF folderVars
  <2>2. CASE f = cur
    <3>1. known = idx[f] /\ (seen[f] = stamp[f] => hash \in {0, disk[f]})
      BY <1>3, <2>2 DEF ReadIsFile, Pushing, Asked
    <3>2. idxStamp'[f] = seen[f]
      BY <1>0, <1>3, <2>2
    <3> QED BY <1>3, <2>1, <3>1, <3>2
  <2>3. CASE f # cur
    BY <1>0, <1>3, <2>1, <2>3
  <2> QED BY <2>2, <2>3
<1>4. CASE SendTaken
  <2>1. UNCHANGED <<idx, idxStamp, disk, stamp>>
    BY <1>4 DEF SendTaken, folderVars
  <2> QED BY <1>0, <2>1
<1> QED BY <1>1, <1>2, <1>3, <1>4, IndexMoves

(* What one step of push_one reads.                                         *)
LEMMA ReadMoves ==
  Requests /\ pc' \in Pushing =>
    /\ UNCHANGED <<idx, disk, stamp, cur, known>>
    /\ copy' \in {copy, disk[cur]} /\ hash' \in {hash, Source}
    /\ pc' \in {"compare", "send", "drain"} => hash' # 0 \/ pc \in {"compare", "send", "drain"}
BY DEF Requests, Ends, Preflight, Materialize, Hash, Compare, SendTaken, SendKnown,
         SendInProgress, SendRefused, SendLost, SendBusy, DrainHandedOff, DrainStored,
         DrainFailed, DrainLost, Pushing, Asked, Source, Release, Healthy, FileFailed,
         LinkFailed, Busy, folderVars, indexVars, fileVars

LEMMA ReadIsFileStep ==
  AutoUploadConstants /\ TypeOK /\ Stamps /\ Queued /\ ReadIsFile /\ [Next]_vars => ReadIsFile'
<1> SUFFICES ASSUME AutoUploadConstants, TypeOK, Stamps, Queued, ReadIsFile, [Next]_vars,
                    pc' \in Pushing
             PROVE  /\ known' = idx'[cur']
                    /\ seen'[cur'] = stamp'[cur']
                       => copy' \in {0, disk'[cur']} /\ hash' \in {0, disk'[cur']}
                    /\ pc' \in {"compare", "send", "drain"} => hash' # 0
  BY DEF ReadIsFile
<1>0. /\ stamp \in [Files -> Nat] /\ disk \in [Files -> Contents] /\ seen \in [Files -> Nat]
      /\ \A f \in Files : seen[f] =< stamp[f]
      /\ pc \in Pushing => cur \in Files
  BY DEF TypeOK, Stamps, Queued
<1>1. CASE Outside \/ UNCHANGED vars
  <2>1. UNCHANGED <<pc, cur, known, copy, hash, seen, idx>>
    BY <1>1 DEF Outside, Edit, RelayStores, RelayDies, StorageReplaced, vars, fileVars,
        passVars, indexVars
  <2>2. /\ cur \in Files /\ known = idx[cur]
        /\ (pc \in {"compare", "send", "drain"} => hash # 0)
        /\ seen[cur] = stamp[cur] => copy \in {0, disk[cur]} /\ hash \in {0, disk[cur]}
    BY <1>0, <2>1 DEF ReadIsFile
  <2>3. CASE UNCHANGED <<disk, stamp>>
    BY <2>1, <2>2, <2>3
  <2>4. ASSUME NEW g \in Files, NEW v \in Contents,
               disk' = [disk EXCEPT ![g] = v], stamp' = [stamp EXCEPT ![g] = @ + 1]
        PROVE  seen[cur] = stamp'[cur] => seen[cur] = stamp[cur] /\ disk'[cur] = disk[cur]
    BY <1>0, <2>2, <2>4
  <2>5. seen[cur] = stamp'[cur] => seen[cur] = stamp[cur] /\ disk'[cur] = disk[cur]
    BY <2>3, <2>4, FolderMoves DEF folderVars
  <2> QED BY <2>1, <2>2, <2>5
<1>2. CASE Around
  <2>1. CASE NextFile
    BY <2>1 DEF NextFile, indexVars, Pushing, Asked
  <2>2. CASE RetryFailedUploads \/ \E on \in BOOLEAN : SetBindingEnabled(on)
    <3>1. UNCHANGED <<pc, cur, known, copy, hash, seen, idx, disk, stamp>>
      BY <2>2 DEF RetryFailedUploads, SetBindingEnabled, fileVars, passVars, indexVars
    <3> QED BY <3>1 DEF ReadIsFile
  <2>3. CASE Tick \/ List \/ BatchDone \/ Heal \/ HealUnheard \/ Reopen
    BY <2>3 DEF Tick, List, BatchDone, Heal, HealUnheard, Reopen, Pushing, Asked
  <2> QED BY <1>2, <2>1, <2>2, <2>3 DEF Around
<1>3. CASE Requests
  <2>0. pc \in Pushing /\ cur \in Files
    BY <1>0, <1>3, RequestMoves
  <2>1. UNCHANGED <<cur, known, seen, idx, disk, stamp>>
    BY <1>3, ReadMoves, RequestMoves
  <2>2. /\ known = idx[cur] /\ (pc \in {"compare", "send", "drain"} => hash # 0)
        /\ seen[cur] = stamp[cur] => copy \in {0, disk[cur]} /\ hash \in {0, disk[cur]}
    BY <2>0 DEF ReadIsFile
  <2>3. seen[cur] = stamp[cur] => Source \in {0, disk[cur]}
    BY <2>2 DEF Source
  <2>4. /\ copy' \in {copy, disk[cur]} /\ hash' \in {hash, Source}
        /\ pc' \in {"compare", "send", "drain"} => hash' # 0
           \/ pc \in {"compare", "send", "drain"}
    BY <1>3, ReadMoves
  <2>5. pc \in {"compare", "send", "drain"} => hash' = hash
    BY <1>3 DEF Requests, Ends, Preflight, Materialize, Hash, Compare, SendTaken, SendKnown,
         SendInProgress, SendRefused, SendLost, SendBusy, DrainHandedOff, DrainStored,
         DrainFailed, DrainLost, fileVars
  <2> QED BY <2>1, <2>2, <2>3, <2>4, <2>5
<1> QED BY <1>1, <1>2, <1>3, Kinds
(* An answer to the preflight is the row of the account's storage, or says  *)
(* nothing; it is not looked at again when the file is left alone.          *)
LEMMA RemoteMoves ==
  Requests /\ pc' \in Asked =>
    /\ UNCHANGED <<cur, sizes, bound, storage, row, label, bytes>>
    /\ \/ pc \in Asked /\ UNCHANGED <<remote, blind>>
       \/ /\ remote' = RemoteRow(cur) \/ (remote' = NoRemote /\ blind')
          /\ ~(StillRelaying(remote') /\ remote'.size = sizes[cur])
BY DEF Requests, Ends, Preflight, Materialize, Hash, Compare, SendTaken, SendKnown,
         SendInProgress, SendRefused, SendLost, SendBusy, DrainHandedOff, DrainStored,
         DrainFailed, DrainLost, Pushing, Asked, Release, Healthy, FileFailed, LinkFailed,
         Busy, passVars, bindingVars,
       serverVars, fileVars

LEMMA RemoteIsRowStep ==
  AutoUploadConstants /\ TypeOK /\ Stamps /\ Queued /\ RemoteIsRow /\ [Next]_vars
  => RemoteIsRow'
<1> SUFFICES ASSUME AutoUploadConstants, TypeOK, Stamps, Queued, RemoteIsRow, [Next]_vars,
                    pc' \in Asked, bound' = storage'
             PROVE  /\ remote'.st = "stored"
                       => row'[cur'] = "stored" /\ label'[cur'] = remote'.label
                    /\ row'[cur'] = "relaying" /\ ~blind' => SizeOf[bytes'[cur']] # sizes'[cur']
  BY DEF RemoteIsRow
<1>0. /\ row \in [Files -> RowStates] /\ label \in [Files -> Contents] /\ storage \in Nat
      /\ bound \in Nat /\ bound =< storage /\ (pc \in Asked => cur \in Files)
  BY DEF TypeOK, Stamps, Queued, Pushing
<1>1. CASE Requests
  <2>1. UNCHANGED <<cur, sizes, bound, storage, row, label, bytes>>
    BY <1>1, RemoteMoves
  <2>2. CASE pc \in Asked /\ UNCHANGED <<remote, blind>>
    BY <2>1, <2>2 DEF RemoteIsRow
  <2>3. CASE remote' = RemoteRow(cur) /\ ~(StillRelaying(remote') /\ remote'.size = sizes[cur])
    BY <2>1, <2>3 DEF RemoteRow, StillRelaying, NoRemote
  <2>4. CASE remote' = NoRemote /\ blind'
    BY <2>4 DEF NoRemote
  <2> QED BY <1>1, <2>2, <2>3, <2>4, RemoteMoves
<1>2. CASE Around
  <2>1. RetryFailedUploads \/ \E on \in BOOLEAN : SetBindingEnabled(on)
    BY <1>2 DEF Around, Tick, List, NextFile, BatchDone, Heal, HealUnheard, Reopen, Asked
  <2>2. UNCHANGED <<pc, cur, remote, blind, sizes, bound, storage, row, label, bytes>>
    BY <2>1 DEF RetryFailedUploads, SetBindingEnabled, fileVars, passVars, bindingVars,
        serverVars
  <2> QED BY <2>2 DEF RemoteIsRow
<1>3. CASE Outside
  <2>1. UNCHANGED <<pc, cur, remote, blind, sizes, bound>>
    BY <1>3 DEF Outside, Edit, RelayStores, RelayDies, StorageReplaced, fileVars, passVars,
        bindingVars
  <2>2. CASE StorageReplaced
    <3>1. storage' = storage + 1 /\ bound' = bound
      BY <2>1, <2>2 DEF StorageReplaced
    <3>2. storage + 1 # bound
      BY <1>0
    <3> QED BY <3>1, <3>2
  <2>4. ASSUME NEW f \in Files, RelayStores(f) \/ RelayDies(f)
        PROVE  /\ UNCHANGED storage
               /\ row'[cur] = "relaying" => row[cur] = "relaying" /\ bytes'[cur] = bytes[cur]
               /\ row[cur] = "stored" => row'[cur] = "stored" /\ label'[cur] = label[cur]
    <3>1. cur \in Files
      BY <1>0, <2>1
    <3>2. bytes \in [Files -> Contents]
      BY DEF TypeOK
    <3> QED BY <1>0, <2>4, <3>1, <3>2 DEF RelayStores, RelayDies
  <2>5. CASE UNCHANGED serverVars
    BY <2>1, <2>5 DEF RemoteIsRow, serverVars
  <2>6. CASE \E f \in Files : RelayStores(f) \/ RelayDies(f)
    <3>1. /\ UNCHANGED storage
          /\ row'[cur] = "relaying" => row[cur] = "relaying" /\ bytes'[cur] = bytes[cur]
          /\ row[cur] = "stored" => row'[cur] = "stored" /\ label'[cur] = label[cur]
      BY <2>4, <2>6
    <3> QED BY <2>1, <3>1 DEF RemoteIsRow
  <2> QED BY <1>3, <2>2, <2>5, <2>6 DEF Outside, Edit
<1>4. CASE UNCHANGED vars
  BY <1>4 DEF vars, fileVars, passVars, bindingVars, serverVars, RemoteIsRow
<1> QED BY <1>1, <1>2, <1>3, <1>4, Kinds

LEMMA EntryIsStoredStep ==
  AutoUploadConstants /\ TypeOK /\ Stamps /\ Queued /\ RemoteIsRow /\ EntryIsStored /\ [Next]_vars
  => EntryIsStored'
<1> SUFFICES ASSUME AutoUploadConstants, TypeOK, Stamps, Queued, RemoteIsRow, EntryIsStored,
                    [Next]_vars,
                    NEW f \in Files, idx'[f] # 0, idxIn'[f] = storage', ~overtaken'[f]
             PROVE  row'[f] = "stored" /\ label'[f] = idx'[f]
  BY DEF EntryIsStored
<1>0. /\ row \in [Files -> RowStates] /\ label \in [Files -> Contents] /\ storage \in Nat
      /\ idx \in [Files -> Contents] /\ idxIn \in [Files -> Nat]
      /\ overtaken \in [Files -> BOOLEAN]
      /\ idxIn[f] =< storage /\ bound =< storage /\ bound \in Nat
      /\ idx[f] # 0 /\ idxIn[f] = storage /\ ~overtaken[f] => row[f] = "stored"
         /\ label[f] = idx[f]
  BY DEF TypeOK, Stamps, EntryIsStored
<1>1. CASE SendTaken
  <2>1. UNCHANGED <<idx, idxIn,
  storage>> /\ overtaken' = [overtaken EXCEPT ![cur] = idx[cur] # 0]
        /\ row' = [row EXCEPT ![cur] = "relaying"] /\ label' = [label EXCEPT ![cur] = hash]
    BY <1>1 DEF SendTaken
  <2>2. f # cur
    BY <1>0, <2>1
  <2> QED BY <1>0, <2>1, <2>2
<1>2. CASE /\ Record /\ Confirmed /\ UNCHANGED serverVars
  <2>1. UNCHANGED <<row, label, storage>>
    BY <1>2 DEF serverVars
  <2>2. CASE f = cur
    <3>1. idx'[f] = hash /\ idxIn'[f] = bound
      BY <1>0, <1>2, <2>2 DEF Record
    <3>2. bound = storage
      BY <2>1, <3>1
    <3>3. row[cur] = "stored" /\ label[cur] = hash
      BY <1>2, <3>2 DEF Confirmed, RemoteIsRow, Asked
    <3> QED BY <2>1, <2>2, <3>1, <3>3
  <2>3. CASE f # cur
    BY <1>0, <1>2, <2>1, <2>3 DEF Record
  <2> QED BY <2>2, <2>3
<1>3. CASE UNCHANGED <<idx, idxIn, overtaken>>
  <2>1. CASE UNCHANGED serverVars
    BY <1>0, <1>3, <2>1 DEF serverVars
  <2>2. ASSUME NEW g \in Files, RelayStores(g) \/ RelayDies(g)
        PROVE  row'[f] = "stored" /\ label'[f] = idx'[f]
    BY <1>0, <1>3, <2>2 DEF RelayStores, RelayDies
  <2>3. ~StorageReplaced
    BY <1>0, <1>3 DEF StorageReplaced
  <2> QED BY <1>1, <2>1, <2>2, <2>3, ServerMoves
<1> QED BY <1>1, <1>2, <1>3, IndexMoves DEF indexVars

-----------------------------------------------------------------------------
(* The invariant.                                                           *)

LEMMA IndexInit == AutoUploadConstants /\ Init => IndexInv
<1> SUFFICES ASSUME AutoUploadConstants, Init PROVE IndexInv
  OBVIOUS
<1>1. PassType /\ FileType
  <2>1. PassType
    <3>1. seen \in [Files -> 0 .. MaxEdits + 1] /\ sizes \in [Files -> Nat] /\ inARow \in Nat
      BY DEF AutoUploadConstants, Init
    <3>2. error \in BOOLEAN
      BY Zenon DEF Init
    <3>3. pc \in Steps /\ todo \subseteq Files /\ waiting \subseteq Files
          /\ active \subseteq Files
      BY DEF Init, Steps
    <3> QED BY <3>1, <3>2, <3>3 DEF PassType
  <2>2. FileType
    BY DEF Init, FileType, Contents, RowStates, NoRemote
  <2> QED BY <2>1, <2>2
<1>2. ServerType /\ FolderType /\ IndexType /\ LadderType
  BY DEF AutoUploadConstants, Init, ServerType, FolderType, IndexType, LadderType, Contents,
      RowStates
<1>3. enabled \in BOOLEAN /\ bound \in 1 .. MaxMoves + 1 /\ faults \in 0 .. MaxFaults
  BY DEF AutoUploadConstants, Init
<1>4. TypeOK
  BY <1>1, <1>2, <1>3, Types
<1>5. Stamps /\ Queued /\ EntryIsFile /\ ReadIsFile /\ RemoteIsRow /\ EntryIsStored
  BY DEF Init, Stamps, Queued, EntryIsFile, ReadIsFile, RemoteIsRow, EntryIsStored, Pushing,
      Asked
<1> QED BY <1>4, <1>5 DEF IndexInv

LEMMA IndexInvStep == AutoUploadConstants /\ IndexInv /\ [Next]_vars => IndexInv'
BY TypeStep, StampsStep, QueuedStep, EntryIsFileStep, ReadIsFileStep, RemoteIsRowStep,
    EntryIsStoredStep
DEF IndexInv

LEMMA IndexHolds == Spec => []IndexInv
<1>1. Init => IndexInv
  BY IndexInit, AutoUploadAssumption
<1>2. IndexInv /\ [Next]_vars => IndexInv'
  BY IndexInvStep, AutoUploadAssumption
<1> QED BY <1>1, <1>2, PTL DEF Spec

(* What the scan passes over is in the storage it was recorded for, with    *)
(* its present content, and nothing is queued between passes, whatever was  *)
(* edited, lost, handed over, disabled or restarted on the way, for every   *)
(* folder, ladder and number of edits, faults and storages (push_one,       *)
(* push_local, clear_transfers).                                            *)
THEOREM IndexAlwaysTrue == Spec => []IndexIsTrue
<1>1. IndexInv => IndexIsTrue
  BY DEF IndexInv, IndexIsTrue, ConfirmedIsStored, IdleLeavesNothing, Quiet, EntryIsFile,
      EntryIsStored,
       Queued
<1> QED BY <1>1, IndexHolds, PTL

(* A file that the server is relaying is not sent once more, unless the     *)
(* preflight went unanswered or the file changed (push_one): between the    *)
(* preflight and the send nobody else starts a relay of its path.           *)
THEOREM NothingIsSentTwice == Spec => SentOnce
<1>1. IndexInv /\ [Next]_vars
      => [SendInProgress =>
              blind \/ stamp[cur] # seen[cur] \/ SizeOf[bytes[cur]] # sizes[cur]]_vars
  BY DEF IndexInv, RemoteIsRow, SendInProgress, Asked
<1> QED BY <1>1, IndexHolds, PTL DEF Spec, SentOnce
=============================================================================
