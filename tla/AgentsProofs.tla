----------------------------- MODULE AgentsProofs -----------------------------
(***************************************************************************)
(* Proofs about the parts that go on by themselves, MCAgents, for any       *)
(* jobs, visitors, keys, addresses, releases and bounds: every file of an   *)
(* import is in the hands of one task while it is being copied, and stored  *)
(* or given up when its job is done; a throttle lets through no more        *)
(* guesses than it says; the server works from a certificate and an install *)
(* that are whole, and keeps the key its clients pinned; and what was ended *)
(* stays ended.                                                             *)
(***************************************************************************)
EXTENDS MCAgents, FiniteSetTheorems, TLAPS

-----------------------------------------------------------------------------
(* The inductive invariant.                                                 *)

States == {Nil, "scanning", "running", "paused", "done", "failed", "cancelled", "gone"}
ItemStates == {Nil, "pending", "in_progress", "done", "skipped", "failed"}
RunnerSteps == {"start", "idle", "scan", "list", "listed", "claim", "drained", "close", "copy",
                "busy", "download", "handed", "abort"}
Copying == {"copy", "busy", "download"}

JobType == [st : States, scanned : BOOLEAN, secret : BOOLEAN]
ItemType == [st : ItemStates, att : Nat]
RunnerType == [pc : RunnerSteps, j : Jobs \cup {0}, f : Files \cup {Nil}, att : Nat,
               dirs : SUBSET (Dirs \cup {""})]
RelayType == [j : Jobs, f : Files, att : Nat, pc : {"spool", "relay", "stored"}]
CallType == [op : {Nil, "resume", "retry", "move", "delete"}, j : Jobs \cup {0}, st : States,
             scanned : BOOLEAN]

Shapes ==
    /\ job \in [Jobs -> JobType] /\ item \in [Jobs -> [Files -> ItemType]]
    /\ runner \in RunnerType /\ relays \subseteq RelayType /\ stored \subseteq Files
    /\ call \in CallType /\ raced \subseteq Jobs /\ faults \in 0 .. MaxFaults
    /\ runner.pc \notin {"start", "idle"} => runner.j \in Jobs
    /\ runner.pc \in Copying \cup {"handed"} => runner.f \in Files
    /\ call.op # Nil => call.j \in Jobs

(* Attempts are counted up to the last one, and once more for every restart *)
(* that took a file out of somebody's hands.                                *)
AttemptsHold ==
    \A j \in Jobs, f \in Files :
        /\ item[j][f].st # Nil => Exists(j)
        /\ item[j][f].att =< MAX_ATTEMPTS + faults
        /\ item[j][f].st = "pending" => item[j][f].att < MAX_ATTEMPTS + faults
        /\ item[j][f].st = "in_progress" /\ runner.pc = "start"
              => item[j][f].att < MAX_ATTEMPTS + faults

(* Whoever holds a file holds it alone, and its row is claimed for this     *)
(* attempt, unless its job was removed.                                     *)
Claimed(j, f, att) ==
    job[j].st = "gone" \/ (item[j][f].st = "in_progress" /\ item[j][f].att = att)

OneHolder ==
    /\ \A r \in relays : Claimed(r.j, r.f, r.att) /\ (r.pc = "stored" => r.f \in stored)
    /\ \A r, q \in relays : r.j = q.j /\ r.f = q.f => r = q
    /\ runner.pc \in Copying => /\ Claimed(runner.j, runner.f, runner.att)
                                /\ \A r \in relays : ~(r.j = runner.j /\ r.f = runner.f)
    /\ runner.pc = "start" => relays = {}

SomeHolder ==
    \A j \in Jobs, f \in Files : item[j][f].st = "in_progress" =>
        \/ runner.pc = "start"
        \/ runner.pc \in Copying /\ runner.j = j /\ runner.f = f
        \/ \E r \in relays : r.j = j /\ r.f = f

(* A file has a row once its folder was listed, so every file has one when  *)
(* the job was scanned.                                                     *)
Listed(j) == \A f \in Files : item[j][f].st # Nil

ListingHolds ==
    /\ \A j \in Jobs : Exists(j) /\ job[j].scanned => Listed(j)
    /\ \A j \in Jobs : job[j].st \in {"running", "done"} => job[j].scanned
    /\ \A j \in Jobs : job[j].scanned => job[j].st # Nil
    /\ call.op # Nil /\ call.scanned => job[call.j].scanned
    /\ runner.j \in Jobs => job[runner.j].st # Nil
    /\ runner.pc = "listed" /\ Exists(runner.j) => Listed(runner.j)
    /\ runner.pc \in {"scan", "list"} /\ Exists(runner.j) =>
          \A f \in Files :
              item[runner.j][f].st = Nil => DirOf[f] \in runner.dirs \/ "" \in runner.dirs

(* The runner is done with a job when the job is, and leaves no file open   *)
(* that no retry has put back.                                              *)
Retried(j) == call.op = "move" /\ call.j = j /\ call.st \in {"done", "failed"}

DoneHolds ==
    /\ \A j \in Jobs, f \in Files : item[j][f].st \in {"done", "skipped"} => f \in stored
    /\ runner.j \in Jobs => job[runner.j].st # "done"
    /\ runner.pc = "close" => \A f \in Files : item[runner.j][f].st # "in_progress"
    /\ \A j \in Jobs : job[j].st = "done" => \A f \in Files :
          /\ item[j][f].st # "in_progress"
          /\ j \in raced \/ Retried(j) \/ item[j][f].st # "pending"

ImportsInv == Shapes /\ AttemptsHold /\ OneHolder /\ SomeHolder /\ ListingHolds /\ DoneHolds
-----------------------------------------------------------------------------
(* What the helpers of the model do to the rows and to the runner.          *)

LEMMA RunnerAt ==
  ASSUME runner \in RunnerType, NEW pc \in RunnerSteps, At(pc)
  PROVE  /\ runner' \in RunnerType /\ runner'.pc = pc
         /\ runner'.j = runner.j /\ runner'.f = runner.f
         /\ runner'.att = runner.att /\ runner'.dirs = runner.dirs
BY DEF At, RunnerType

LEMMA ClaimGoes ==
  ASSUME runner \in RunnerType, Claim
  PROVE  runner'.pc \in {"drained", "copy"}
<1>1. CASE At("drained")
  BY <1>1, RunnerAt DEF RunnerSteps
<1>2. ASSUME NEW f \in Files, NEW n, runner' = [runner EXCEPT !.pc = "copy", !.f = f, !.att = n]
      PROVE  runner'.pc = "copy"
  BY <1>2 DEF RunnerType
<1> QED BY <1>1, <1>2 DEF Claim

LEMMA RunnerRests ==
  ASSUME Rest
  PROVE  /\ runner' \in RunnerType /\ runner'.pc = "idle" /\ runner'.j = 0
         /\ runner'.f = Nil /\ runner'.dirs = {}
BY DEF Rest, RunnerType, Free, RunnerSteps

LEMMA JobMoved ==
  ASSUME job \in [Jobs -> JobType], NEW j \in Jobs, NEW from, NEW to \in States,
         Moved(j, from, to)
  PROVE  /\ job' \in [Jobs -> JobType]
         /\ \A k \in Jobs : k # j => job'[k] = job[k]
         /\ job'[j].st = IF job[j].st \in from THEN to ELSE job[j].st
         /\ job'[j].scanned = job[j].scanned /\ job'[j].secret = job[j].secret
BY DEF Moved, JobType

(* Only the row of one file changes, and a row that is gone stays gone.     *)
OnlyRow(j, f) ==
    /\ item' \in [Jobs -> [Files -> ItemType]]
    /\ \A k \in Jobs, g \in Files : k # j \/ g # f => item'[k][g] = item[k][g]
    /\ item'[j][f].st = Nil <=> item[j][f].st = Nil

LEMMA ItemSettled ==
  ASSUME item \in [Jobs -> [Files -> ItemType]], NEW j \in Jobs, NEW f \in Files,
         NEW st \in ItemStates \ {Nil}, Settled(j, f, st)
  PROVE  /\ OnlyRow(j, f) /\ item'[j][f].att = item[j][f].att
         /\ item[j][f].st # Nil => item'[j][f].st = st
<1>1. CASE item[j][f].st = Nil
  BY <1>1 DEF Settled, OnlyRow
<1>2. CASE item[j][f].st # Nil
  <2>1. item' = [item EXCEPT ![j][f].st = st]
    BY <1>2 DEF Settled
  <2>2. item[j] \in [Files -> ItemType] /\ item[j][f] \in ItemType
    OBVIOUS
  <2>3. item'[j][f] = [item[j][f] EXCEPT !.st = st]
    BY <2>1, <2>2
  <2>4. item'[j][f].st = st /\ item'[j][f].att = item[j][f].att
    BY <2>2, <2>3 DEF ItemType
  <2>5. \A k \in Jobs, g \in Files : k # j \/ g # f => item'[k][g] = item[k][g]
    BY <2>1
  <2>6. item' \in [Jobs -> [Files -> ItemType]]
    BY <2>1 DEF ItemType
  <2> QED BY <1>2, <2>4, <2>5, <2>6 DEF OnlyRow
<1> QED BY <1>1, <1>2

LEMMA ItemSettledFailure ==
  ASSUME item \in [Jobs -> [Files -> ItemType]], NEW j \in Jobs, NEW f \in Files, NEW att,
         SettledFailure(j, f, att)
  PROVE  /\ OnlyRow(j, f) /\ item'[j][f].att = item[j][f].att
         /\ item[j][f].st # Nil =>
               item'[j][f].st = IF att >= MAX_ATTEMPTS THEN "failed" ELSE "pending"
<1> DEFINE st == IF att >= MAX_ATTEMPTS THEN "failed" ELSE "pending"
<1>1. st \in ItemStates \ {Nil} /\ Settled(j, f, st)
  BY DEF SettledFailure, ItemStates, Nil
<1> HIDE DEF st
<1>2. OnlyRow(j, f) /\ item'[j][f].att = item[j][f].att
      /\ (item[j][f].st # Nil => item'[j][f].st = st)
  BY <1>1, ItemSettled
<1> QED BY <1>2 DEF st

LEMMA ItemReleased ==
  ASSUME item \in [Jobs -> [Files -> ItemType]], NEW j \in Jobs, NEW f \in Files, Released(j, f)
  PROVE  /\ OnlyRow(j, f) /\ item'[j][f].att =< item[j][f].att
         /\ item[j][f].st # Nil =>
               /\ item'[j][f].st = "pending"
               /\ item'[j][f].att = IF item[j][f].att = 0 THEN 0 ELSE item[j][f].att - 1
<1>1. item[j][f].att \in Nat
  BY DEF ItemType
<1>2. CASE item[j][f].st = Nil
  BY <1>1, <1>2 DEF Released, OnlyRow
<1>3. CASE item[j][f].st # Nil
  <2> DEFINE n == IF item[j][f].att = 0 THEN 0 ELSE item[j][f].att - 1
             new == [st |-> "pending", att |-> n]
  <2>0. n \in Nat /\ n =< item[j][f].att
    BY <1>1
  <2>1. item' = [item EXCEPT ![j][f] = new]
    BY <1>3 DEF Released
  <2> HIDE DEF n
  <2>2. new \in ItemType /\ new.st # Nil /\ new.st = "pending" /\ new.att = n
    BY <2>0 DEF ItemType, ItemStates, Nil
  <2> HIDE DEF new
  <2>3. OnlyRow(j, f) /\ item'[j][f] = new
    BY <1>3, <2>1, <2>2 DEF OnlyRow
  <2> QED BY <2>0, <2>2, <2>3 DEF n
<1> QED BY <1>2, <1>3

-----------------------------------------------------------------------------
(* Every variable keeps its shape.                                          *)

LEMMA JobStep == ImportsConstants /\ Shapes /\ [Next]_vars => job' \in [Jobs -> JobType]
<1> SUFFICES ASSUME ImportsConstants, Shapes, [Next]_vars, job' # job
             PROVE  job' \in [Jobs -> JobType]
  BY DEF Shapes
<1>0. /\ job \in [Jobs -> JobType]
      /\ runner.pc \notin {"start", "idle"} => runner.j \in Jobs
      /\ call.op # Nil => call.j \in Jobs
  BY DEF Shapes
<1>1. CASE Abort \/ Close
  <2>1. /\ runner.j \in Jobs /\ {"failed", "done"} \subseteq States
        /\ Moved(runner.j, Active, "failed") \/ Moved(runner.j, {"running"}, "done")
    BY <1>0, <1>1 DEF Abort, Close, States
  <2> QED BY <1>0, <2>1, JobMoved
<1>2. CASE ScanLists
  <2>1. runner.j \in Jobs /\ Moved(runner.j, {"scanning"}, "failed") /\ "failed" \in States
    BY <1>0, <1>2 DEF ScanLists, States
  <2> QED BY <1>0, <2>1, JobMoved
<1>3. CASE FinishScan
  BY <1>0, <1>3 DEF FinishScan, JobType, States
<1>4. CASE Resume
  <2>1. call.j \in Jobs
    BY <1>0, <1>4 DEF Resume, Nil
  <2> DEFINE to == IF call.scanned THEN "running" ELSE "scanning"
             kept(given) == [job EXCEPT ![call.j].secret = @ \/ given]
  <2>2. \A given \in BOOLEAN : kept(given) \in [Jobs -> JobType]
    BY <1>0, <2>1 DEF JobType
  <2>3. to \in States
    BY DEF States
  <2>4. PICK given \in BOOLEAN :
          job' \in {job, kept(given), [kept(given) EXCEPT ![call.j].st = to]}
    BY <1>4 DEF Resume
  <2>5. \A k \in [Jobs -> JobType] : [k EXCEPT ![call.j].st = to] \in [Jobs -> JobType]
    BY <2>1, <2>3 DEF JobType
  <2> HIDE DEF to, kept
  <2> QED BY <1>0, <2>2, <2>4, <2>5
<1>5. CASE RetryMoves
  <2>1. PICK to \in States : Moved(call.j, {"done", "failed"}, to)
    BY <1>5 DEF RetryMoves, States
  <2>2. call.j \in Jobs
    BY <1>0, <1>5 DEF RetryMoves, Nil
  <2> QED BY <1>0, <2>1, <2>2, JobMoved
<1>6. CASE Delete
  BY <1>0, <1>6 DEF Delete, JobType, States, Nil
<1>7. CASE Create
  BY <1>0, <1>7 DEF Create, JobType, States
<1>8. CASE Pause \/ Cancel
  <2>1. PICK j \in Jobs :
          Moved(j, Active, "paused") \/ Moved(j, Active \cup {"paused"}, "cancelled")
    BY <1>8 DEF Pause, Cancel
  <2>2. {"paused", "cancelled"} \subseteq States
    BY DEF States
  <2> QED BY <1>0, <2>1, <2>2, JobMoved
<1>9. CASE \/ Requeue \/ Pick \/ ScanChecks \/ Claim \/ Drained \/ Copy \/ Busy \/ Download
           \/ DownloadRejected \/ DownloadFails \/ HandedOff \/ Relays \/ RetryItems
           \/ CallReads \/ Restart \/ UNCHANGED vars
  BY <1>9 DEF Requeue, Pick, ScanChecks, Claim, Drained, Copy, Busy, Download, DownloadRejected,
       DownloadFails, HandedOff, Relays, Spools, Stores, Reports, RetryItems, CallReads,
       Restart, vars
<1> QED
  BY <1>1, <1>2, <1>3, <1>4, <1>5, <1>6, <1>7, <1>8, <1>9 DEF Next, Runs, Calls, Quiet

LEMMA ItemStep == ImportsConstants /\ Shapes /\ [Next]_vars
  => item' \in [Jobs -> [Files -> ItemType]]
<1> SUFFICES ASSUME ImportsConstants, Shapes, [Next]_vars, item' # item
             PROVE  item' \in [Jobs -> [Files -> ItemType]]
  BY DEF Shapes
<1>0. /\ item \in [Jobs -> [Files -> ItemType]]
      /\ runner.pc \notin {"start", "idle"} => runner.j \in Jobs
      /\ runner.pc \in Copying => runner.j \in Jobs /\ runner.f \in Files
  BY DEF Shapes, Copying
<1>1. CASE Requeue
  <2> DEFINE row(j, f) == IF item[j][f].st = "in_progress"
                          THEN [item[j][f] EXCEPT !.st = "pending"] ELSE item[j][f]
  <2>1. \A j \in Jobs, f \in Files : row(j, f) \in ItemType
    BY <1>0 DEF ItemType, ItemStates
  <2>2. item' = [j \in Jobs |-> [f \in Files |-> row(j, f)]]
    BY <1>1 DEF Requeue
  <2> QED BY <2>1, <2>2
<1>2. CASE ScanLists
  BY <1>0, <1>2 DEF ScanLists, ItemType, ItemStates
<1>3. CASE Claim
  <2>1. PICK f \in Files :
           item' = [item EXCEPT ![runner.j][f] = [st |-> "in_progress", att |-> @.att + 1]]
    BY <1>3 DEF Claim
  <2>2. [st |-> "in_progress", att |-> item[runner.j][f].att + 1] \in ItemType
    <3>1. runner.j \in Jobs
      BY <1>0, <1>3 DEF Claim
    <3>2. item[runner.j][f].att \in Nat
      BY <1>0, <3>1 DEF ItemType
    <3> QED BY <3>2 DEF ItemType, ItemStates
  <2> QED BY <1>0, <2>1, <2>2
<1>4. CASE Copy
  <2>1. \E st \in ItemStates \ {Nil} : Settled(runner.j, runner.f, st)
    BY <1>4 DEF Copy, ItemStates, Nil
  <2>2. runner.pc \in Copying
    BY <1>4 DEF Copy, Copying
  <2> QED BY <1>0, <2>1, <2>2, ItemSettled DEF OnlyRow
<1>5. CASE Busy \/ DownloadRejected
  <2>1. Released(runner.j, runner.f) /\ runner.pc \in Copying
    BY <1>5 DEF Busy, DownloadRejected, Copying
  <2> QED BY <1>0, <2>1, ItemReleased DEF OnlyRow
<1>6. CASE DownloadFails
  <2>1. SettledFailure(runner.j, runner.f, runner.att) /\ runner.pc \in Copying
    BY <1>6 DEF DownloadFails, Copying
  <2> QED BY <1>0, <2>1, ItemSettledFailure DEF OnlyRow
<1>7. ASSUME NEW r \in relays, Reports(r) PROVE item' \in [Jobs -> [Files -> ItemType]]
  <2>1. r.j \in Jobs /\ r.f \in Files /\ "done" \in ItemStates \ {Nil}
    BY DEF Shapes, RelayType, ItemStates, Nil
  <2>2. Settled(r.j, r.f, "done") \/ SettledFailure(r.j, r.f, r.att)
    BY <1>7 DEF Reports
  <2> QED BY <1>0, <2>1, <2>2, ItemSettled, ItemSettledFailure DEF OnlyRow
<1>8. CASE RetryItems
  BY <1>0, <1>8 DEF RetryItems, ItemType, ItemStates
<1>9. CASE Delete
  BY <1>0, <1>9 DEF Delete, ItemType, ItemStates, NoItem
<1>10. ASSUME NEW r \in relays, Spools(r) \/ Stores(r) PROVE FALSE
  BY <1>10 DEF Spools, Stores
<1>11. CASE \/ Pick \/ Abort \/ ScanChecks \/ FinishScan \/ Drained \/ Close \/ Download
            \/ HandedOff \/ Resume \/ RetryMoves \/ Create \/ Pause \/ Cancel \/ CallReads
            \/ Restart \/ UNCHANGED vars
  BY <1>11 DEF Pick, Abort, ScanChecks, FinishScan, Drained, Close, Download, HandedOff, Resume,
       RetryMoves, Create, Pause, Cancel, CallReads, Restart, vars
<1> QED
  BY <1>1, <1>2, <1>3, <1>4, <1>5, <1>6, <1>7, <1>8, <1>9, <1>10, <1>11
  DEF Next, Runs, Calls, Relays, Quiet

LEMMA RunnerStep ==
  ImportsConstants /\ Shapes /\ [Next]_vars
  => /\ runner' \in RunnerType
     /\ runner'.pc \notin {"start", "idle"} => runner'.j \in Jobs
     /\ runner'.pc \in Copying \cup {"handed"} => runner'.f \in Files
<1> DEFINE Held(r) == /\ r \in RunnerType
                      /\ r.pc \notin {"start", "idle"} => r.j \in Jobs
                      /\ r.pc \in Copying \cup {"handed"} => r.f \in Files
<1> SUFFICES ASSUME ImportsConstants, Shapes, [Next]_vars PROVE Held(runner')
  OBVIOUS
<1>0. Held(runner)
  BY DEF Shapes
<1>1. Rest => Held(runner')
  BY RunnerRests DEF Copying
<1>2. ASSUME NEW pc \in RunnerSteps \ (Copying \cup {"handed"}), At(pc),
             runner.pc \notin {"start", "idle"}
      PROVE  Held(runner')
  BY <1>0, <1>2, RunnerAt
<1>3. ASSUME NEW pc \in Copying \cup {"handed"}, At(pc), runner.pc \in Copying
      PROVE  Held(runner')
  BY <1>0, <1>3, RunnerAt DEF Copying, RunnerSteps
<1> HIDE DEF Held
<1>4. CASE Requeue \/ Abort \/ FinishScan \/ Close \/ DownloadFails \/ HandedOff
  BY <1>1, <1>4 DEF Requeue, Abort, FinishScan, Close, DownloadFails, HandedOff
<1>5. CASE Pick
  <2>1. PICK j \in Jobs :
           \/ \E pc \in {"scan", "claim"} :
                  runner' = [Free EXCEPT !.j = j, !.dirs = {""}, !.pc = pc]
           \/ runner' = [Free EXCEPT !.j = j, !.pc = "abort"]
    BY <1>5 DEF Pick
  <2>2. /\ Free \in RunnerType /\ {""} \subseteq Dirs \cup {""}
        /\ {"scan", "claim", "abort"} \subseteq RunnerSteps
    BY DEF Free, RunnerType, RunnerSteps
  <2>3. /\ runner' \in RunnerType /\ runner'.j = j /\ runner'.pc \in {"scan", "claim", "abort"}
    BY <2>1, <2>2 DEF RunnerType
  <2> QED BY <2>3 DEF Held, Copying
<1>6. CASE ScanChecks \/ Drained
  BY <1>1, <1>2, <1>6 DEF ScanChecks, Drained, RunnerSteps, Copying
<1>7. CASE ScanLists
  <2>1. CASE Rest
    BY <1>1, <2>1
  <2>2. CASE \E d \in runner.dirs :
                 runner' = [runner EXCEPT !.pc = "scan",
                                !.dirs = (@ \ {d}) \cup IF d = "" THEN Dirs \ {""} ELSE {}]
    <3>1. PICK ds \in SUBSET (Dirs \cup {""}) :
             runner' = [runner EXCEPT !.pc = "scan", !.dirs = ds]
      BY <1>0, <2>2 DEF Held, RunnerType
    <3>2. runner.j \in Jobs
      BY <1>0, <1>7 DEF ScanLists, Held
    <3>3. runner' \in RunnerType /\ runner'.pc = "scan" /\ runner'.j = runner.j
      BY <1>0, <3>1 DEF Held, RunnerType, RunnerSteps
    <3> QED BY <3>2, <3>3 DEF Held, Copying
  <2> QED BY <1>7, <2>1, <2>2 DEF ScanLists
<1>8. CASE Claim
  <2>1. CASE At("drained")
    BY <1>2, <1>8, <2>1 DEF Claim, RunnerSteps, Copying
  <2>2. CASE \E f \in Files :
                 runner' = [runner EXCEPT !.pc = "copy", !.f = f,
                                          !.att = item[runner.j][f].att + 1]
    <3>1. \A f \in Files : item[runner.j][f].att + 1 \in Nat
      <4>1. runner.j \in Jobs
        BY <1>0, <1>8 DEF Claim, Held
      <4>2. \A f \in Files : item[runner.j][f].att \in Nat
        BY <4>1 DEF Shapes, ItemType
      <4> QED BY <4>2
    <3>2. PICK f \in Files, n \in Nat :
             runner' = [runner EXCEPT !.pc = "copy", !.f = f, !.att = n]
      BY <2>2, <3>1
    <3>3. runner' \in RunnerType /\ runner'.f = f /\ runner'.j = runner.j
      BY <1>0, <3>2 DEF Held, RunnerType, RunnerSteps
    <3> QED BY <1>0, <1>8, <3>3 DEF Claim, Held
  <2> QED BY <1>8, <2>1, <2>2 DEF Claim
<1>9. CASE Copy \/ Busy \/ Download
  BY <1>1, <1>3, <1>9 DEF Copy, Busy, Download, Copying
<1>10. CASE DownloadRejected
  BY <1>2, <1>10 DEF DownloadRejected, RunnerSteps, Copying
<1>11. CASE Restart
  BY <1>11 DEF Restart, Held, Free, RunnerType, RunnerSteps, Copying
<1>12. CASE \/ Relays \/ Resume \/ RetryItems \/ RetryMoves \/ Delete \/ Create \/ Pause
               \/ Cancel
            \/ CallReads \/ UNCHANGED vars
  BY <1>0, <1>12 DEF Relays, Spools, Stores, Reports, Resume, RetryItems, RetryMoves, Delete,
      Create,
       Pause, Cancel, CallReads, vars
<1>13. Held(runner')
  BY <1>4, <1>5, <1>6, <1>7, <1>8, <1>9, <1>10, <1>11, <1>12 DEF Next, Runs, Calls, Quiet
<1> QED BY <1>13

LEMMA RelaysStep ==
  ImportsConstants /\ Shapes /\ [Next]_vars
  => relays' \subseteq RelayType /\ stored' \subseteq Files
<1> SUFFICES ASSUME ImportsConstants, Shapes, [Next]_vars
             PROVE  relays' \subseteq RelayType /\ stored' \subseteq Files
  OBVIOUS
<1>0. relays \subseteq RelayType /\ stored \subseteq Files
  BY DEF Shapes
<1>1. CASE Download
  <2>1. runner.j \in Jobs /\ runner.f \in Files /\ runner.att \in Nat
    BY <1>1 DEF Download, Shapes, Copying, RunnerType
  <2> QED BY <1>0, <1>1, <2>1 DEF Download, RelayType
<1>2. ASSUME NEW r \in relays,
Spools(r) PROVE relays' \subseteq RelayType /\ stored' \subseteq Files
  BY <1>0, <1>2 DEF Spools, RelayType
<1>3. ASSUME NEW r \in relays,
Stores(r) PROVE relays' \subseteq RelayType /\ stored' \subseteq Files
  BY <1>0, <1>3 DEF Stores, RelayType
<1>4. ASSUME NEW r \in relays,
Reports(r) PROVE relays' \subseteq RelayType /\ stored' \subseteq Files
  BY <1>0, <1>4 DEF Reports
<1>5. CASE Restart
  BY <1>0, <1>5 DEF Restart
<1>6. CASE \/ Requeue \/ Pick \/ Abort \/ ScanChecks \/ ScanLists \/ FinishScan \/ Claim
              \/ Drained
           \/ Close \/ Copy \/ Busy \/ DownloadRejected \/ DownloadFails \/ HandedOff \/ Resume
           \/ RetryItems \/ RetryMoves \/ Delete \/ Create \/ Pause \/ Cancel \/ CallReads
           \/ UNCHANGED vars
  BY <1>0, <1>6 DEF Requeue, Pick, Abort, ScanChecks, ScanLists, FinishScan, Claim, Drained,
      Close,
       Copy, Busy, DownloadRejected, DownloadFails, HandedOff, Resume, RetryItems, RetryMoves,
       Delete, Create, Pause, Cancel, CallReads, vars
<1> QED
  BY <1>1, <1>2, <1>3, <1>4, <1>5, <1>6 DEF Next, Runs, Calls, Relays, Quiet

LEMMA CallStep ==
  ImportsConstants /\ Shapes /\ [Next]_vars
  => /\ call' \in CallType /\ (call'.op # Nil => call'.j \in Jobs)
     /\ raced' \subseteq Jobs /\ faults' \in 0 .. MaxFaults
<1> SUFFICES ASSUME ImportsConstants, Shapes, [Next]_vars
             PROVE  /\ call' \in CallType /\ (call'.op # Nil => call'.j \in Jobs)
                    /\ raced' \subseteq Jobs /\ faults' \in 0 .. MaxFaults
  OBVIOUS
<1>0. /\ call \in CallType /\ (call.op # Nil => call.j \in Jobs)
      /\ runner.pc \notin {"start", "idle"} => runner.j \in Jobs
      /\ raced \subseteq Jobs /\ faults \in 0 .. MaxFaults /\ job \in [Jobs -> JobType]
      /\ MaxFaults \in Nat
  BY DEF Shapes, ImportsConstants
<1>1. NoCall \in CallType /\ NoCall.op = Nil
  BY DEF NoCall, CallType, States
<1>2. faults' = faults \/ Fault
  BY DEF Next, Runs, Calls, Relays, Quiet, Requeue, Pick, Abort, ScanChecks, ScanLists,
       FinishScan, Claim, Drained, Close, Copy, Busy, Download, DownloadRejected, DownloadFails,
       HandedOff, Resume, RetryItems, RetryMoves, Delete, Create, Pause, Cancel, CallReads,
       Restart,
       Spools, Stores, Reports, vars
<1>3. raced' \subseteq Jobs
  BY <1>0 DEF Next, Runs, Calls, Relays, Quiet, Requeue, Pick, Abort, ScanChecks, ScanLists,
       FinishScan, Claim, Drained, Close, Copy, Busy, Download, DownloadRejected, DownloadFails,
       HandedOff, Resume, RetryItems, RetryMoves, Delete, Create, Pause, Cancel, CallReads,
       Restart,
       Spools, Stores, Reports, vars, Nil
<1>4. call' \in CallType /\ (call'.op # Nil => call'.j \in Jobs)
  <2>1. CASE Resume \/ RetryMoves \/ Delete \/ Restart
    BY <1>1, <2>1 DEF Resume, RetryMoves, Delete, Restart
  <2>2. CASE RetryItems
    BY <1>0, <2>2 DEF RetryItems, CallType, Nil
  <2>3. CASE CallReads
    BY <1>0, <2>3 DEF CallReads, CallType, JobType
  <2>4. CASE UNCHANGED call
    BY <1>0, <2>4
  <2>5. CASE \/ Requeue \/ Pick \/ Abort \/ ScanChecks \/ ScanLists \/ FinishScan \/ Claim
                \/ Drained
             \/ Close \/ Copy \/ Busy \/ Download \/ DownloadRejected \/ DownloadFails
                \/ HandedOff
             \/ Relays \/ Create \/ Pause \/ Cancel \/ UNCHANGED vars
    BY <2>4, <2>5 DEF Requeue, Pick, Abort, ScanChecks, ScanLists, FinishScan, Claim, Drained,
        Close,
         Copy, Busy, Download, DownloadRejected, DownloadFails, HandedOff, Create, Pause,
         Cancel,
         Relays, Spools, Stores, Reports, vars
  <2> QED BY <2>1, <2>2, <2>3, <2>5 DEF Next, Runs, Calls, Quiet
<1> QED BY <1>0, <1>2, <1>3, <1>4 DEF Fault

LEMMA ShapesStep == ImportsConstants /\ Shapes /\ [Next]_vars => Shapes'
BY JobStep, ItemStep, RunnerStep, RelaysStep, CallStep
DEF Shapes, JobType, ItemType, RunnerType, RelayType, CallType, States, ItemStates,
    RunnerSteps, Copying

-----------------------------------------------------------------------------
(* What a step does to a job.                                               *)

JobRemoved(j) == Delete /\ call.j = j /\ job'[j].st = "gone" /\ job'[j].scanned = job[j].scanned
JobCreated(j) == Create /\ job[j].st = Nil /\ job'[j].st = "scanning" /\ ~job'[j].scanned
JobListed(j) ==
    FinishScan /\ j = runner.j /\ job[j].st = "scanning" /\ job'[j].st = "running"
    /\ job'[j].scanned
JobClosed(j) ==
    /\ Close /\ j = runner.j /\ job[j].st = "running" /\ job'[j].st = "done"
    /\ job'[j].scanned = job[j].scanned
JobResumed(j) ==
    /\ Resume \/ RetryMoves
    /\ j = call.j /\ Exists(j) /\ job'[j].scanned = job[j].scanned
    /\ \/ job'[j].st = job[j].st /\ Resume
       \/ job'[j].st = "running" /\ call.scanned
       \/ job'[j].st = "scanning"
JobStopped(j) ==
    /\ job[j].st \in {"scanning", "running", "paused"}
    /\ job'[j].st \in {"failed", "paused", "cancelled"} /\ job'[j].scanned = job[j].scanned

LEMMA JobSteps ==
  ASSUME Shapes, [Next]_vars, NEW j \in Jobs, job'[j] # job[j]
  PROVE  \/ JobRemoved(j) \/ JobCreated(j) \/ JobListed(j) \/ JobClosed(j) \/ JobResumed(j)
         \/ JobStopped(j)
<1>0. /\ job \in [Jobs -> JobType] /\ job' # job
      /\ runner.pc \notin {"start", "idle"} => runner.j \in Jobs
      /\ call.op # Nil => call.j \in Jobs
  BY DEF Shapes
<1>1. ASSUME NEW k \in Jobs, NEW from, NEW to, Moved(k, from, to)
      PROVE  j = k /\ job[j].st \in from /\ job'[j].st = to /\ job'[j].scanned = job[j].scanned
  BY <1>0, <1>1 DEF Moved, JobType
<1>2. CASE Abort
  BY <1>0, <1>1, <1>2 DEF Abort, JobStopped, Active
<1>3. CASE Close
  BY <1>0, <1>1, <1>3 DEF Close, JobClosed
<1>4. CASE ScanLists
  <2>1. runner.j \in Jobs /\ Moved(runner.j, {"scanning"}, "failed")
    BY <1>0, <1>4 DEF ScanLists
  <2> QED BY <1>1, <2>1 DEF JobStopped
<1>5. CASE FinishScan
  BY <1>0, <1>5 DEF FinishScan, JobType, JobListed
<1>6. CASE Resume
  <2>1. call.j \in Jobs
    BY <1>0, <1>6 DEF Resume, Nil
  <2>2. PICK given \in BOOLEAN, st \in {job[call.j].st, "running", "scanning"} :
          /\ job' = [job EXCEPT ![call.j].secret = @ \/ given, ![call.j].st = st]
          /\ Exists(call.j) /\ (st = job[call.j].st \/ (st = "running" /\ call.scanned)
             \/ st = "scanning")
    <3> DEFINE to == IF call.scanned THEN "running" ELSE "scanning"
    <3>1. PICK given \in BOOLEAN :
            LET kept == [job EXCEPT ![call.j].secret = @ \/ given] IN
            job' = IF ~kept[call.j].secret THEN job
                   ELSE IF job[call.j].st \in {"paused", "failed"}
                   THEN [kept EXCEPT ![call.j].st = to]
                   ELSE IF Exists(call.j) THEN kept ELSE job
      BY <1>6 DEF Resume
    <3> DEFINE kept == [job EXCEPT ![call.j].secret = @ \/ given]
    <3>2. CASE job' = kept /\ Exists(call.j)
      <4>1. job' = [job EXCEPT ![call.j].secret = @ \/ given, ![call.j].st = job[call.j].st]
        BY <1>0, <2>1, <3>2 DEF JobType
      <4> QED BY <3>2, <4>1
    <3>3. CASE job' = [kept EXCEPT ![call.j].st = to] /\ job[call.j].st \in {"paused", "failed"}
      BY <1>0, <2>1, <3>3 DEF JobType, Exists, Nil
    <3> QED BY <1>0, <3>1, <3>2, <3>3
  <2> QED BY <1>0, <1>6, <2>1, <2>2 DEF JobType, JobResumed
<1>7. CASE RetryMoves
  <2>1. call.j \in Jobs
    BY <1>0, <1>7 DEF RetryMoves, Nil
  <2>2. \/ Moved(call.j, {"done", "failed"}, "running") /\ call.scanned
        \/ Moved(call.j, {"done", "failed"}, "scanning")
    BY <1>0, <1>7 DEF RetryMoves
  <2> QED BY <1>1, <1>7, <2>1, <2>2 DEF JobResumed, Exists, Nil
<1>8. CASE Delete
  BY <1>0, <1>8 DEF Delete, JobType, JobRemoved, Nil
<1>9. CASE Create
  <2>1. PICK k \in Jobs : /\ job[k].st = Nil
                          /\ job' = [job EXCEPT ![k] =
                                 [st |-> "scanning", scanned |-> FALSE, secret |-> TRUE]]
    BY <1>9 DEF Create
  <2>2. j = k
    BY <1>0, <2>1
  <2> QED BY <1>0, <1>9, <2>1, <2>2 DEF JobCreated
<1>10. CASE Pause \/ Cancel
  <2>1. PICK k \in Jobs : \/ Moved(k, Active, "paused")
                           \/ Moved(k, Active \cup {"paused"}, "cancelled")
    BY <1>10 DEF Pause, Cancel
  <2> QED BY <1>1, <2>1 DEF Active, JobStopped
<1>11. CASE \/ Requeue \/ Pick \/ ScanChecks \/ Claim \/ Drained \/ Copy \/ Busy \/ Download
            \/ DownloadRejected \/ DownloadFails \/ HandedOff \/ Relays \/ RetryItems
            \/ CallReads \/ Restart \/ UNCHANGED vars
  BY <1>0, <1>11 DEF Requeue, Pick, ScanChecks, Claim, Drained, Copy, Busy, Download,
      DownloadRejected,
       DownloadFails, HandedOff, Relays, Spools, Stores, Reports, RetryItems, CallReads,
       Restart, vars
<1> QED
  BY <1>2, <1>3, <1>4, <1>5, <1>6, <1>7, <1>8, <1>9, <1>10, <1>11 DEF Next, Runs, Calls, Quiet

(* A job that exists is moved by the runner, or by a call, or removed.      *)
LEMMA JobMoves ==
  ASSUME Shapes, [Next]_vars, NEW j \in Jobs, job'[j] # job[j]
  PROVE  \/ Exists(j)' /\ Exists(j) /\ (job[j].scanned => job'[j].scanned)
         \/ Delete /\ call.j = j /\ ~Exists(j)'
         \/ Create /\ job[j].st = Nil
BY JobSteps DEF JobRemoved, JobCreated, JobListed, JobClosed, JobResumed, JobStopped, Exists,
    Nil

(* What a step does to the row of a file.                                   *)
Becomes(j, f, st) == item'[j][f].st = st

RowRequeued(j, f) ==
    /\ Requeue /\ item[j][f].st = "in_progress"
    /\ Becomes(j, f, "pending") /\ item'[j][f].att = item[j][f].att
RowListed(j, f) ==
    /\ ScanLists /\ j = runner.j /\ Exists(j) /\ item[j][f].st = Nil /\ UNCHANGED job
    /\ Becomes(j, f, "pending") /\ item'[j][f].att = 0
RowClaimed(j, f) ==
    /\ Claim /\ j = runner.j /\ item[j][f].st = "pending"
    /\ Becomes(j, f, "in_progress") /\ item'[j][f].att = item[j][f].att + 1
    /\ runner'.pc = "copy" /\ runner'.j = j /\ runner'.f = f /\ runner'.att = item'[j][f].att
RowLetGo(j, f) ==
    /\ Copy \/ Busy \/ DownloadRejected \/ DownloadFails
    /\ j = runner.j /\ f = runner.f /\ runner.pc \in Copying /\ runner'.pc \in {"idle", "abort"}
    /\ item[j][f].st # Nil
    /\ \/ Becomes(j, f, "skipped") /\ f \in stored /\ item'[j][f].att = item[j][f].att
       \/ Becomes(j, f, "failed") /\ item'[j][f].att = item[j][f].att
       \/ Becomes(j, f, "pending") /\ runner.att < MAX_ATTEMPTS
          /\ item'[j][f].att = item[j][f].att
       \/ Becomes(j, f, "pending")
          /\ item'[j][f].att = IF item[j][f].att = 0 THEN 0 ELSE item[j][f].att - 1
RowReported(j, f) ==
    \E r \in relays : /\ r.j = j /\ r.f = f /\ Reports(r) /\ item[j][f].st # Nil
                      /\ item'[j][f].att = item[j][f].att
                      /\ \/ Becomes(j, f, "done") /\ r.pc = "stored"
                         \/ Becomes(j, f, "failed")
                         \/ Becomes(j, f, "pending") /\ r.att < MAX_ATTEMPTS
RowRetried(j, f) ==
    /\ RetryItems /\ call.j = j /\ item[j][f].st = "failed"
    /\ Becomes(j, f, "pending") /\ item'[j][f].att = 0
RowDeleted(j, f) ==
    /\ Delete /\ call.j = j /\ Becomes(j, f, Nil) /\ item'[j][f].att = 0

LEMMA RowMoves ==
  ASSUME ImportsConstants, Shapes, [Next]_vars, NEW j \in Jobs, NEW f \in Files,
  item'[j][f] # item[j][f]
  PROVE  \/ RowRequeued(j, f) \/ RowListed(j, f) \/ RowClaimed(j, f) \/ RowLetGo(j, f)
         \/ RowReported(j, f) \/ RowRetried(j, f) \/ RowDeleted(j, f)
<1>0. /\ item \in [Jobs -> [Files -> ItemType]] /\ item' # item
      /\ runner.pc \notin {"start", "idle"} => runner.j \in Jobs
      /\ runner.pc \in Copying => runner.j \in Jobs /\ runner.f \in Files
      /\ call.op # Nil => call.j \in Jobs
  BY DEF Shapes, Copying
<1>1. CASE Requeue
  BY <1>0, <1>1 DEF Requeue, RowRequeued, Becomes, ItemType
<1>2. CASE ScanLists
  <2>1. PICK d \in runner.dirs :
          item' = [item EXCEPT ![runner.j] = [g \in Files |->
                      IF DirOf[g] = d /\ @[g].st = Nil
                      THEN [st |-> "pending", att |-> 0] ELSE @[g]]]
    BY <1>0, <1>2 DEF ScanLists
  <2>2. Exists(runner.j) /\ UNCHANGED job
    BY <1>0, <1>2 DEF ScanLists
  <2>3. j = runner.j
    BY <1>0, <2>1
  <2>4. item'[j][f] = [st |-> "pending", att |-> 0] /\ item[j][f].st = Nil
    BY <1>0, <2>1, <2>3
  <2> QED BY <1>2, <2>2, <2>3, <2>4 DEF RowListed, Becomes
<1>3. CASE Claim
  <2>1. PICK g \in Files :
          /\ item[runner.j][g].st = "pending"
          /\ item' = [item EXCEPT ![runner.j][g] = [st |-> "in_progress", att |-> @.att + 1]]
          /\ runner' = [runner EXCEPT !.pc = "copy", !.f = g, !.att = item[runner.j][g].att + 1]
    BY <1>0, <1>3 DEF Claim
  <2>2. runner.j \in Jobs /\ runner \in RunnerType
    BY <1>0, <1>3 DEF Claim, Shapes
  <2>3. j = runner.j /\ f = g
    BY <1>0, <2>1, <2>2
  <2> QED BY <1>0, <1>3, <2>1, <2>2, <2>3 DEF RowClaimed, Becomes, RunnerType
<1>4. CASE Copy
  <2>1. \E st \in {"skipped", "failed"} : /\ Settled(runner.j, runner.f, st) /\ Rest
                                          /\ st = "skipped" => runner.f \in stored
    BY <1>0, <1>4 DEF Copy
  <2>2. runner.pc \in Copying /\ {"skipped", "failed"} \subseteq ItemStates \ {Nil}
    BY <1>4 DEF Copy, Copying, ItemStates, Nil
  <2>3. OnlyRow(runner.j, runner.f)
    BY <1>0, <2>1, <2>2, ItemSettled
  <2>4. j = runner.j /\ f = runner.f
    BY <2>3 DEF OnlyRow
  <2>5. item[j][f].st # Nil
    BY <1>0, <2>1, <2>4 DEF Settled
  <2> QED BY <1>0, <1>4, <2>1, <2>2, <2>4, <2>5, ItemSettled, RunnerRests DEF RowLetGo, Becomes
<1>5. CASE Busy \/ DownloadRejected
  <2>1. Released(runner.j, runner.f) /\ runner.pc \in Copying
    BY <1>0, <1>5 DEF Busy, DownloadRejected, Copying
  <2>2. runner'.pc \in {"idle", "abort"}
    BY <1>0, <1>5, RunnerRests, RunnerAt DEF Busy, DownloadRejected, Shapes, RunnerSteps
  <2>3. j = runner.j /\ f = runner.f
    BY <1>0, <2>1, ItemReleased DEF OnlyRow
  <2>4. item[j][f].st # Nil
    BY <1>0, <2>1, <2>3 DEF Released
  <2> QED BY <1>0, <1>5, <2>1, <2>2, <2>3, <2>4, ItemReleased DEF RowLetGo, Becomes
<1>6. CASE DownloadFails
  <2>1. SettledFailure(runner.j, runner.f, runner.att) /\ runner.pc \in Copying /\ Rest
    BY <1>6 DEF DownloadFails, Copying
  <2>2. j = runner.j /\ f = runner.f
    BY <1>0, <2>1, ItemSettledFailure DEF OnlyRow
  <2>3. item[j][f].st # Nil
    BY <1>0, <2>1, <2>2 DEF SettledFailure, Settled
  <2>4. runner.att \in Nat /\ MAX_ATTEMPTS \in Nat
    BY DEF Shapes, RunnerType, ImportsConstants
  <2> QED BY <1>0, <1>6, <2>1, <2>2, <2>3, <2>4, ItemSettledFailure, RunnerRests
        DEF RowLetGo, Becomes
<1>7. ASSUME NEW r \in relays, Reports(r) PROVE RowReported(j, f)
  <2>1. r.j \in Jobs /\ r.f \in Files /\ r.att \in Nat /\ MAX_ATTEMPTS \in Nat
    BY DEF Shapes, RelayType, ImportsConstants
  <2>2. CASE r.pc = "stored" /\ Settled(r.j, r.f, "done")
    <3>1. "done" \in ItemStates \ {Nil}
      BY DEF ItemStates, Nil
    <3>2. j = r.j /\ f = r.f
      BY <1>0, <2>1, <2>2, <3>1, ItemSettled DEF OnlyRow
    <3>3. item[j][f].st # Nil
      BY <1>0, <2>2, <3>2 DEF Settled
    <3> QED BY <1>0, <1>7, <2>1, <2>2, <3>1, <3>2, <3>3, ItemSettled DEF RowReported, Becomes
  <2>3. CASE SettledFailure(r.j, r.f, r.att)
    <3>1. j = r.j /\ f = r.f
      BY <1>0, <2>1, <2>3, ItemSettledFailure DEF OnlyRow
    <3>2. item[j][f].st # Nil
      BY <1>0, <2>3, <3>1 DEF SettledFailure, Settled
    <3> QED BY <1>0, <1>7, <2>1, <2>3, <3>1, <3>2, ItemSettledFailure DEF RowReported, Becomes
  <2> QED BY <1>7, <2>2, <2>3 DEF Reports
<1>8. CASE RetryItems
  BY <1>0, <1>8 DEF RetryItems, RowRetried, Becomes
<1>9. CASE Delete
  BY <1>0, <1>9 DEF Delete, RowDeleted, Becomes, NoItem
<1>10. ASSUME NEW r \in relays, Spools(r) \/ Stores(r) PROVE FALSE
  BY <1>0, <1>10 DEF Spools, Stores
<1>11. CASE \/ Pick \/ Abort \/ ScanChecks \/ FinishScan \/ Drained \/ Close \/ Download
            \/ HandedOff \/ Resume \/ RetryMoves \/ Create \/ Pause \/ Cancel \/ CallReads
            \/ Restart \/ UNCHANGED vars
  BY <1>0, <1>11 DEF Pick, Abort, ScanChecks, FinishScan, Drained, Close, Download, HandedOff,
      Resume,
       RetryMoves, Create, Pause, Cancel, CallReads, Restart, vars
<1> QED
  BY <1>1, <1>2, <1>3, <1>4, <1>5, <1>6, <1>7, <1>8, <1>9, <1>10, <1>11
  DEF Next, Runs, Calls, Relays, Quiet

LEMMA FaultsMove == [Next]_vars => faults' = faults \/ faults' = faults + 1
BY DEF Next, Runs, Calls, Relays, Quiet, Fault, Requeue, Pick, Abort, ScanChecks, ScanLists,
       FinishScan, Claim, Drained, Close, Copy, Busy, Download, DownloadRejected, DownloadFails,
       HandedOff, Resume, RetryItems, RetryMoves, Delete, Create, Pause, Cancel, CallReads,
       Restart,
       Spools, Stores, Reports, vars

LEMMA StoredGrows == [Next]_vars => stored \subseteq stored'
BY DEF Next, Runs, Calls, Relays, Quiet, Requeue, Pick, Abort, ScanChecks, ScanLists,
       FinishScan, Claim, Drained, Close, Copy, Busy, Download, DownloadRejected, DownloadFails,
       HandedOff, Resume, RetryItems, RetryMoves, Delete, Create, Pause, Cancel, CallReads,
       Restart,
       Spools, Stores, Reports, vars

LEMMA StartsAfresh ==
  ASSUME Shapes, [Next]_vars, runner'.pc = "start"
  PROVE  runner.pc = "start" \/ Restart
<1>0. runner \in RunnerType /\ ~Rest
  BY RunnerRests DEF Shapes
<1>1. \A pc \in RunnerSteps : At(pc) => pc = "start"
  BY <1>0, RunnerAt
<1>2. CASE Pick
  BY <1>2 DEF Pick, Free
<1>3. CASE ScanLists
  BY <1>0, <1>3 DEF ScanLists, RunnerType
<1>4. CASE Claim
  BY <1>0, <1>1, <1>4 DEF Claim, RunnerType, RunnerSteps
<1>5. CASE \/ Requeue \/ Abort \/ ScanChecks \/ FinishScan \/ Drained \/ Close \/ Copy \/ Busy
              \/ Download
           \/ DownloadRejected \/ DownloadFails \/ HandedOff
  BY <1>0, <1>1, <1>5 DEF Requeue, Abort, ScanChecks, FinishScan, Drained, Close, Copy, Busy,
      Download,
       DownloadRejected, DownloadFails, HandedOff, RunnerSteps
<1>6. CASE \/ Resume \/ RetryItems \/ RetryMoves \/ Delete \/ Create \/ Pause \/ Cancel
           \/ CallReads \/ UNCHANGED vars
  BY <1>6 DEF Resume, RetryItems, RetryMoves, Delete, Create, Pause, Cancel, CallReads, vars
<1>7. CASE Relays
  BY <1>7 DEF Relays, Spools, Stores, Reports
<1> QED BY <1>2, <1>3, <1>4, <1>5, <1>6, <1>7 DEF Next, Runs, Calls, Quiet

-----------------------------------------------------------------------------
(* One part of the invariant after the other.                               *)

LEMMA AttemptsStep == ImportsConstants /\ ImportsInv /\ [Next]_vars => AttemptsHold'
<1> SUFFICES ASSUME ImportsConstants, ImportsInv, [Next]_vars, NEW j \in Jobs, NEW f \in Files
             PROVE  /\ item'[j][f].st # Nil => Exists(j)'
                    /\ item'[j][f].att =< MAX_ATTEMPTS + faults'
                    /\ item'[j][f].st = "pending" => item'[j][f].att < MAX_ATTEMPTS + faults'
                    /\ item'[j][f].st = "in_progress" /\ runner'.pc = "start"
                          => item'[j][f].att < MAX_ATTEMPTS + faults'
  BY DEF AttemptsHold, Exists
<1>0. /\ Shapes /\ item[j][f].att \in Nat /\ item'[j][f].att \in Nat /\ faults \in Nat
      /\ MAX_ATTEMPTS \in Nat \ {0}
  <2>1. Shapes /\ Shapes'
    BY ShapesStep DEF ImportsInv
  <2>2. item[j][f] \in ItemType /\ item'[j][f] \in ItemType'
    BY <2>1 DEF Shapes
  <2>3. MaxFaults \in Nat /\ MAX_ATTEMPTS \in Nat \ {0}
    BY DEF ImportsConstants
  <2>4. faults \in Nat
    BY <2>1, <2>3 DEF Shapes
  <2> QED BY <2>1, <2>2, <2>3, <2>4 DEF ItemType
<1>1. /\ item[j][f].st # Nil => Exists(j)
      /\ item[j][f].att =< MAX_ATTEMPTS + faults
      /\ item[j][f].st = "pending" => item[j][f].att < MAX_ATTEMPTS + faults
      /\ item[j][f].st = "in_progress" /\ runner.pc = "start"
         => item[j][f].att < MAX_ATTEMPTS + faults
  BY DEF ImportsInv, AttemptsHold
<1>2. faults' = faults \/ faults' = faults + 1
  BY FaultsMove
<1>3. runner'.pc = "start" => runner.pc = "start" \/ Restart
  BY <1>0, StartsAfresh
<1>4. Restart => faults' = faults + 1 /\ item' = item
  BY DEF Restart, Fault
<1>5. Exists(j) /\ ~Exists(j)' => Delete /\ call.j = j
  BY <1>0, JobMoves DEF Exists
<1>6. Delete /\ call.j = j => item'[j][f].st = Nil /\ item'[j][f].att = 0
  BY <1>0 DEF Delete, NoItem, Shapes
<1>7. CASE item'[j][f] = item[j][f]
  BY <1>0, <1>1, <1>2, <1>3, <1>4, <1>5, <1>6, <1>7
<1>8. CASE item'[j][f] # item[j][f]
  <2>1. CASE RowRequeued(j, f)
    BY <1>0, <1>1, <1>2, <1>5, <1>6, <2>1 DEF RowRequeued, Becomes, Requeue, Nil
  <2>2. CASE RowListed(j, f)
    BY <1>0, <1>2, <2>2 DEF RowListed, Becomes, Exists, Nil
  <2>3. CASE RowClaimed(j, f)
    BY <1>0, <1>1, <1>2, <1>5, <1>6, <2>3 DEF RowClaimed, Becomes, Nil
  <2>4. CASE RowLetGo(j, f)
    <3>1. Claimed(j, f, runner.att) /\ Exists(j) /\ runner.att = item[j][f].att
      BY <1>1, <2>4 DEF RowLetGo, ImportsInv, OneHolder, Claimed, Exists, Nil
    <3> QED BY <1>0, <1>1, <1>2, <1>5, <1>6, <2>4, <3>1 DEF RowLetGo, Becomes, Nil
  <2>5. CASE RowReported(j, f)
    <3>1. PICK r \in relays : /\ r.j = j /\ r.f = f /\ item'[j][f].att = item[j][f].att
                              /\ Reports(r)
                              /\ Becomes(j, f, "pending") => r.att < MAX_ATTEMPTS
                              /\ item[j][f].st # Nil /\ ~Becomes(j, f, "in_progress")
      BY <2>5 DEF RowReported, Becomes
    <3>2. r.att = item[j][f].att
      BY <1>1, <3>1 DEF ImportsInv, OneHolder, Claimed, Exists
    <3> QED BY <1>0, <1>1, <1>2, <1>5, <1>6, <3>1, <3>2 DEF Becomes
  <2>6. CASE RowRetried(j, f)
    BY <1>0, <1>1, <1>2, <1>5, <1>6, <2>6 DEF RowRetried, Becomes, Nil
  <2>7. CASE RowDeleted(j, f)
    BY <1>0, <1>2, <2>7 DEF RowDeleted, Becomes, Nil
  <2> QED BY <1>0, <1>8, <2>1, <2>2, <2>3, <2>4, <2>5, <2>6, <2>7, RowMoves
<1> QED BY <1>7, <1>8

(* Whoever holds a file when a step begins, and has not let go.             *)
LEMMA StillClaimed ==
  ASSUME ImportsConstants, ImportsInv, [Next]_vars, NEW j \in Jobs, NEW f \in Files, NEW att,
         Claimed(j, f, att), ~RowRequeued(j, f), ~RowLetGo(j, f), ~RowReported(j, f)
  PROVE  Claimed(j, f, att)'
<1>0. Shapes
  BY DEF ImportsInv
<1>a. Delete /\ call.j = j => job'[j].st = "gone"
  BY <1>0 DEF Delete, Shapes, JobType
<1>1. CASE job[j].st = "gone"
  <2>1. job'[j].st = "gone"
    BY <1>0, <1>a, <1>1, JobMoves DEF Exists, Nil
  <2> QED BY <2>1 DEF Claimed
<1>2. CASE job[j].st # "gone" /\ job'[j].st # "gone"
  <2>1. item[j][f].st = "in_progress"
    BY <1>2 DEF Claimed
  <2>2. ~RowListed(j, f) /\ ~RowClaimed(j, f) /\ ~RowRetried(j, f)
    BY <2>1 DEF RowListed, RowClaimed, RowRetried, Nil
  <2>3. item'[j][f] = item[j][f]
    BY <1>0, <1>a, <1>2, <2>2, RowMoves DEF RowDeleted
  <2> QED BY <1>2, <2>3 DEF Claimed
<1>3. CASE job'[j].st = "gone"
  BY <1>3 DEF Claimed
<1> QED BY <1>1, <1>2, <1>3

(* Where an upload task comes from: it was there, or the runner hands over.   *)
LEMMA RelayMoves ==
  ASSUME Shapes, [Next]_vars, NEW r \in relays'
  PROVE  \/ \E q \in relays : /\ q.j = r.j /\ q.f = r.f /\ q.att = r.att
                              /\ r.pc = "stored" => q.pc = "stored" \/ r.f \in stored'
                              /\ r = q \/ Spools(q) \/ Stores(q)
                              /\ ~Reports(q)
         \/ /\ Download /\ r.j = runner.j /\ r.f = runner.f /\ r.att = runner.att
            /\ r.pc = "spool"
<1>0. relays \subseteq RelayType /\ faults \in Int
  BY DEF Shapes
<1>1. CASE Download
  <2>1. \A q \in relays : ~Reports(q)
    BY <1>1 DEF Download, Reports
  <2> QED BY <1>1, <2>1 DEF Download
<1>2. ASSUME NEW q \in relays, Spools(q)
      PROVE  \E p \in relays : /\ p.j = r.j /\ p.f = r.f /\ p.att = r.att
                               /\ r.pc = "stored" => p.pc = "stored" \/ r.f \in stored'
                               /\ r = p \/ Spools(p) \/ Stores(p)
                               /\ ~Reports(p)
  <2>1. \A p \in relays : ~Reports(p)
    <3> SUFFICES ASSUME NEW p \in relays, Reports(p) PROVE FALSE
      OBVIOUS
    <3>1. q \notin relays'
      BY <1>0, <1>2 DEF Spools, RelayType
    <3>2. p = q
      BY <3>1 DEF Reports
    <3>3. faults' = faults + 1 /\ faults' = faults /\ faults \in Int
      BY <1>0, <1>2, <3>2 DEF Reports, Spools, Fault
    <3> QED BY <3>3
  <2>2. r \in relays \/ r = [q EXCEPT !.pc = "relay"]
    BY <1>2 DEF Spools
  <2> QED BY <1>0, <1>2, <2>1, <2>2 DEF RelayType
<1>3. ASSUME NEW q \in relays, Stores(q)
      PROVE  \E p \in relays : /\ p.j = r.j /\ p.f = r.f /\ p.att = r.att
                               /\ r.pc = "stored" => p.pc = "stored" \/ r.f \in stored'
                               /\ r = p \/ Spools(p) \/ Stores(p)
                               /\ ~Reports(p)
  <2>1. \A p \in relays : ~Reports(p)
    <3> SUFFICES ASSUME NEW p \in relays, Reports(p) PROVE FALSE
      OBVIOUS
    <3>1. q \notin relays'
      BY <1>0, <1>3 DEF Stores, RelayType
    <3>2. p = q
      BY <3>1 DEF Reports
    <3>3. faults' = faults + 1 /\ faults' = faults /\ faults \in Int
      BY <1>0, <1>3, <3>2 DEF Reports, Stores, Fault
    <3> QED BY <3>3
  <2>2. r \in relays \/ (r = [q EXCEPT !.pc = "stored"] /\ q.f \in stored')
    BY <1>3 DEF Stores
  <2> QED BY <1>0, <1>3, <2>1, <2>2 DEF RelayType
<1>4. ASSUME NEW q \in relays, Reports(q)
      PROVE  r \in relays /\ ~Reports(r)
  BY <1>4 DEF Reports
<1>5. CASE Restart
  BY <1>5 DEF Restart
<1>6. CASE \/ Requeue \/ Pick \/ Abort \/ ScanChecks \/ ScanLists \/ FinishScan \/ Claim
              \/ Drained
           \/ Close \/ Copy \/ Busy \/ DownloadRejected \/ DownloadFails \/ HandedOff \/ Resume
           \/ RetryItems \/ RetryMoves \/ Delete \/ Create \/ Pause \/ Cancel \/ CallReads
           \/ UNCHANGED vars
  <2>1. relays' = relays
    BY <1>6 DEF Requeue, Pick, Abort, ScanChecks, ScanLists, FinishScan, Claim, Drained, Close,
       Copy, Busy, DownloadRejected, DownloadFails, HandedOff, Resume, RetryItems, RetryMoves,
       Delete, Create, Pause, Cancel, CallReads, vars
  <2>2. \A q \in relays : ~Reports(q)
    BY <2>1 DEF Reports
  <2> QED BY <2>1, <2>2
<1> QED
  BY <1>1, <1>2, <1>3, <1>4, <1>5, <1>6 DEF Next, Runs, Calls, Relays, Quiet

(* How the runner comes to hold a file.                                     *)
LEMMA RunnerCopies ==
  ASSUME Shapes, [Next]_vars, runner'.pc \in Copying
  PROVE  \/ /\ runner.pc \in Copying /\ ~Download
            /\ runner'.j = runner.j /\ runner'.f = runner.f /\ runner'.att = runner.att
         \/ RowClaimed(runner'.j, runner'.f) /\ runner'.j \in Jobs /\ runner'.f \in Files
<1>0. runner \in RunnerType /\ ~Rest
  BY RunnerRests DEF Shapes, Copying
<1>1. CASE Pick
  BY <1>1 DEF Pick, Free, Copying
<1>2. CASE ScanLists
  BY <1>0, <1>2 DEF ScanLists, RunnerType, Copying
<1>3. CASE Claim
  <2>1. ~At("drained")
    BY <1>0, RunnerAt DEF RunnerSteps, Copying
  <2>2. PICK g \in Files :
          /\ item[runner.j][g].st = "pending"
          /\ item' = [item EXCEPT ![runner.j][g] = [st |-> "in_progress", att |-> @.att + 1]]
          /\ runner' = [runner EXCEPT !.pc = "copy", !.f = g, !.att = item[runner.j][g].att + 1]
    BY <1>3, <2>1 DEF Claim
  <2>3. runner.j \in Jobs /\ item \in [Jobs -> [Files -> ItemType]]
    BY <1>3 DEF Claim, Shapes
  <2>4. /\ runner'.pc = "copy" /\ runner'.j = runner.j /\ runner'.f = g
        /\ runner'.att = item[runner.j][g].att + 1
    BY <1>0, <2>2 DEF RunnerType
  <2>5. item'[runner.j][g] = [st |-> "in_progress", att |-> item[runner.j][g].att + 1]
    BY <2>2, <2>3
  <2> QED BY <1>3, <2>2, <2>3, <2>4, <2>5 DEF RowClaimed, Becomes
<1>4. CASE \/ Requeue \/ Abort \/ ScanChecks \/ FinishScan \/ Drained \/ Close \/ Download
           \/ DownloadRejected \/ DownloadFails \/ HandedOff \/ Restart
  <2>1. \A pc \in RunnerSteps \ Copying : ~At(pc)
    BY <1>0, RunnerAt
  <2>2. {"list", "listed", "close", "handed", "abort"} \subseteq RunnerSteps \ Copying
    BY DEF RunnerSteps, Copying
  <2> QED BY <1>0, <1>4, <2>1, <2>2 DEF Requeue, Abort, ScanChecks, FinishScan, Drained,
        Close, Download,
       DownloadRejected, DownloadFails, HandedOff, Restart, Free, Copying
<1>5. CASE Copy \/ Busy
  <2>1. At("download") \/ At("busy") \/ At("copy")
    BY <1>0, <1>5 DEF Copy, Busy
  <2>2. runner.pc \in Copying /\ ~Download
    BY <1>5 DEF Copy, Busy, Copying, Download
  <2> QED BY <1>0, <2>1, <2>2, RunnerAt DEF RunnerSteps
<1>6. CASE \/ Resume \/ RetryItems \/ RetryMoves \/ Delete \/ Create \/ Pause \/ Cancel
           \/ CallReads \/ UNCHANGED vars \/ Relays
  <2>1. UNCHANGED runner
    BY <1>6 DEF Resume, RetryItems, RetryMoves, Delete, Create, Pause, Cancel, CallReads, vars,
         Relays, Spools, Stores, Reports
  <2>2. ~Download
    BY <1>0, <2>1, RunnerAt DEF Download, RunnerSteps
  <2> QED BY <2>1, <2>2
<1> QED BY <1>1, <1>2, <1>3, <1>4, <1>5, <1>6 DEF Next, Runs, Calls, Quiet

LEMMA OneHolderStep == ImportsConstants /\ ImportsInv /\ [Next]_vars => OneHolder'
<1> SUFFICES ASSUME ImportsConstants, ImportsInv, [Next]_vars PROVE OneHolder'
  OBVIOUS
<1>0. Shapes /\ OneHolder /\ relays \subseteq RelayType
  BY DEF ImportsInv, Shapes
<1>1. \A q \in relays : q.j \in Jobs /\ q.f \in Files
  BY <1>0 DEF RelayType
<1>2. runner.pc \in Copying => runner.j \in Jobs /\ runner.f \in Files
  BY <1>0 DEF Shapes, Copying
<1>3. ASSUME NEW q \in relays, ~Reports(q) PROVE Claimed(q.j, q.f, q.att)'
  <2>1. ~RowRequeued(q.j, q.f)
    BY <1>0 DEF RowRequeued, Requeue, OneHolder
  <2>2. ~RowLetGo(q.j, q.f)
    BY <1>0 DEF RowLetGo, OneHolder
  <2>3. ~RowReported(q.j, q.f)
    BY <1>0, <1>3 DEF RowReported, OneHolder
  <2> QED BY <1>0, <1>1, <2>1, <2>2, <2>3, StillClaimed DEF OneHolder
<1>4. ASSUME NEW j \in Jobs, NEW f \in Files, NEW att, runner.pc \in Copying,
             runner.j = j, runner.f = f, runner.att = att, ~RowLetGo(j, f)
      PROVE  Claimed(j, f, att)'
  <2>1. ~RowRequeued(j, f)
    BY <1>4 DEF RowRequeued, Requeue, Copying
  <2>2. ~RowReported(j, f)
    BY <1>0, <1>4 DEF RowReported, OneHolder
  <2> QED BY <1>0, <1>4, <2>1, <2>2, StillClaimed DEF OneHolder
<1>5. Download => runner.pc \in Copying /\ runner'.pc = "handed" /\ item' = item
  BY <1>0, RunnerAt DEF Download, Copying, RunnerSteps, Shapes
<1>6. ASSUME NEW r \in relays' PROVE Claimed(r.j, r.f, r.att)'
             /\ (r.pc = "stored" => r.f \in stored')
  <2>1. stored \subseteq stored'
    BY StoredGrows
  <2>2. CASE \E q \in relays : /\ q.j = r.j /\ q.f = r.f /\ q.att = r.att /\ ~Reports(q)
                               /\ r.pc = "stored" => q.pc = "stored" \/ r.f \in stored'
    BY <1>0, <1>3, <2>1, <2>2 DEF OneHolder
  <2>3. CASE Download /\ r.j = runner.j /\ r.f = runner.f /\ r.att = runner.att
             /\ r.pc = "spool"
    <3>1. ~RowLetGo(r.j, r.f)
      BY <1>5, <2>3 DEF RowLetGo
    <3>2. runner.pc \in Copying /\ r.j \in Jobs /\ r.f \in Files
      BY <1>2, <1>5, <2>3
    <3> QED BY <1>4, <2>3, <3>1, <3>2
  <2> QED BY <1>0, <2>2, <2>3, RelayMoves
<1>7. ASSUME NEW r \in relays', NEW q \in relays', r.j = q.j, r.f = q.f PROVE r = q
  <2>1. CASE Download
    BY <1>0, <1>5, <1>7, <2>1 DEF Download, OneHolder
  <2>2. ASSUME NEW p \in relays, Spools(p) PROVE r = q
    BY <1>0, <1>7, <2>2 DEF Spools, OneHolder, RelayType
  <2>3. ASSUME NEW p \in relays, Stores(p) PROVE r = q
    BY <1>0, <1>7, <2>3 DEF Stores, OneHolder, RelayType
  <2>4. CASE relays' \subseteq relays
    BY <1>0, <1>7, <2>4 DEF OneHolder
  <2>5. CASE ~Download /\ \A p \in relays : ~Spools(p) /\ ~Stores(p)
    <3>1. relays' \subseteq relays
      BY <1>0, <2>5, RelayMoves
    <3> QED BY <2>4, <3>1
  <2> QED BY <2>1, <2>2, <2>3, <2>5
<1>8. ASSUME NEW j, NEW f, NEW att, runner'.pc \in Copying,
             j = runner'.j, f = runner'.f, att = runner'.att
      PROVE  Claimed(j, f, att)' /\ \A r \in relays' : ~(r.j = j /\ r.f = f)
  <2>1. ~Download
    BY <1>5, <1>8 DEF Copying
  <2>2. CASE runner.pc \in Copying /\ j = runner.j /\ f = runner.f /\ att = runner.att
    <3>1. ~RowLetGo(j, f)
      BY <1>8 DEF RowLetGo, Copying
    <3>2. Claimed(j, f, att)'
      BY <1>2, <1>4, <2>2, <3>1
    <3> QED BY <1>0, <2>1, <2>2, <3>2, RelayMoves DEF OneHolder
  <2>3. CASE RowClaimed(j, f) /\ j \in Jobs /\ f \in Files
    <3>1. Claimed(j, f, att)'
      BY <1>8, <2>3 DEF RowClaimed, Becomes, Claimed
    <3>2. ASSUME NEW q \in relays, q.j = j, q.f = f PROVE FALSE
      <4>1. Claimed(j, f, q.att) /\ item[j][f].st = "pending"
        BY <1>0, <2>3, <3>2 DEF OneHolder, RowClaimed
      <4>2. job[j].st # "gone"
        BY <2>3, <4>1 DEF ImportsInv, AttemptsHold, Exists, Nil
      <4> QED BY <4>1, <4>2 DEF Claimed
    <3> QED BY <1>0, <2>1, <3>1, <3>2, RelayMoves
  <2> QED BY <1>0, <1>8, <2>2, <2>3, RunnerCopies
<1>9. ASSUME runner'.pc = "start" PROVE relays' = {}
  <2>1. CASE Restart
    BY <2>1 DEF Restart
  <2>2. CASE runner.pc = "start"
    <3>1. relays = {} /\ ~Download
      BY <1>0, <2>2 DEF OneHolder, Download
    <3> QED BY <1>0, <3>1, RelayMoves
  <2> QED BY <1>0, <1>9, <2>1, <2>2, StartsAfresh
<1>10. runner'.pc \in Copying => /\ Claimed(runner.j, runner.f, runner.att)'
                                 /\ \A r \in relays' : ~(r.j = runner'.j /\ r.f = runner'.f)
  BY <1>8 DEF Claimed
<1> QED BY <1>6, <1>7, <1>9, <1>10 DEF OneHolder

(* The first thing that a runner does is to put back what was in progress.  *)
LEMMA LeavesStart ==
  ASSUME [Next]_vars, runner.pc = "start", runner'.pc # "start"
  PROVE  Requeue
<1>1. ~(Abort \/ ScanChecks \/ FinishScan \/ Drained \/ Close \/ Copy \/ Busy \/ Download)
  BY DEF Abort, ScanChecks, FinishScan, Drained, Close, Copy, Busy, Download
<1>2. ~(Pick \/ ScanLists \/ Claim \/ DownloadRejected \/ DownloadFails \/ HandedOff \/ Restart)
  BY DEF Pick, ScanLists, Claim, DownloadRejected, DownloadFails, HandedOff, Restart, Free
<1>3. ~(Resume \/ RetryItems \/ RetryMoves \/ Delete \/ Create \/ Pause \/ Cancel \/ CallReads)
  BY DEF Resume, RetryItems, RetryMoves, Delete, Create, Pause, Cancel, CallReads
<1>4. ~Relays /\ ~UNCHANGED vars
  BY DEF Relays, Spools, Stores, Reports, vars
<1> QED BY <1>1, <1>2, <1>3, <1>4 DEF Next, Runs, Calls, Quiet

(* A runner that does not settle its file keeps it, or hands it to a task.  *)
LEMMA HandsOn ==
  ASSUME Shapes, OneHolder, [Next]_vars, runner.pc \in Copying, runner'.pc # "start",
         item[runner.j][runner.f].st = "in_progress",
         item'[runner.j][runner.f] = item[runner.j][runner.f]
  PROVE  \/ runner'.pc \in Copying /\ runner'.j = runner.j /\ runner'.f = runner.f
         \/ \E r \in relays' : r.j = runner.j /\ r.f = runner.f
<1>0. /\ runner \in RunnerType /\ item \in [Jobs -> [Files -> ItemType]]
      /\ runner.j \in Jobs /\ runner.f \in Files /\ item[runner.j][runner.f].st # Nil
  BY DEF Shapes, Copying, Nil
<1>a. ASSUME NEW st \in {"skipped", "failed"}, Settled(runner.j, runner.f, st) PROVE FALSE
  <2>1. st \in ItemStates \ {Nil}
    BY DEF ItemStates, Nil
  <2> QED BY <1>0, <1>a, <2>1, ItemSettled
<1>b. ~Released(runner.j, runner.f)
  BY <1>0, ItemReleased
<1>c. \A att : ~SettledFailure(runner.j, runner.f, att)
  BY <1>0, ItemSettledFailure
<1>1. CASE Copy
  <2>1. At("download") \/ At("busy")
    BY <1>1, <1>a DEF Copy
  <2> QED BY <1>0, <2>1, RunnerAt DEF RunnerSteps, Copying
<1>2. CASE Busy
  <2>1. At("copy")
    BY <1>2, <1>b DEF Busy
  <2> QED BY <1>0, <2>1, RunnerAt DEF RunnerSteps, Copying
<1>3. CASE Download
  <2> DEFINE new == [j |-> runner.j, f |-> runner.f, att |-> runner.att, pc |-> "spool"]
  <2>1. new \in relays' /\ new.j = runner.j /\ new.f = runner.f
    BY <1>3 DEF Download
  <2> QED BY <2>1
<1>4. ~DownloadRejected /\ ~DownloadFails
  BY <1>b, <1>c DEF DownloadRejected, DownloadFails
<1>5. ~(\/ Requeue \/ Pick \/ Abort \/ ScanChecks \/ ScanLists \/ FinishScan \/ Claim
        \/ Drained \/ Close \/ HandedOff \/ Restart)
  BY DEF Requeue, Pick, Abort, ScanChecks, ScanLists, FinishScan, Claim, Drained, Close,
         HandedOff, Restart, Free, Copying
<1>6. CASE \/ Resume \/ RetryItems \/ RetryMoves \/ Delete \/ Create \/ Pause \/ Cancel
           \/ CallReads \/ Relays \/ UNCHANGED vars
  BY <1>6 DEF Resume, RetryItems, RetryMoves, Delete, Create, Pause, Cancel, CallReads, vars,
       Relays, Spools, Stores, Reports
<1> QED BY <1>1, <1>2, <1>3, <1>4, <1>5, <1>6 DEF Next, Runs, Calls, Quiet

(* A task whose file is not settled goes on.                                *)
LEMMA TaskGoesOn ==
  ASSUME Shapes, [Next]_vars, runner'.pc # "start", NEW r \in relays,
         item[r.j][r.f].st = "in_progress", item'[r.j][r.f] = item[r.j][r.f]
  PROVE  \E q \in relays' : q.j = r.j /\ q.f = r.f
<1>0. /\ relays \subseteq RelayType /\ item \in [Jobs -> [Files -> ItemType]]
      /\ r.j \in Jobs /\ r.f \in Files
  BY DEF Shapes, RelayType
<1>1. ASSUME NEW p \in relays, Spools(p) PROVE \E q \in relays' : q.j = r.j /\ q.f = r.f
  <2>1. relays' = (relays \ {p}) \cup {[p EXCEPT !.pc = "relay"]}
    BY <1>1 DEF Spools
  <2>2. [p EXCEPT !.pc = "relay"].j = p.j /\ [p EXCEPT !.pc = "relay"].f = p.f
    BY <1>0 DEF RelayType
  <2>3. CASE r = p
    BY <2>1, <2>2, <2>3
  <2> QED BY <2>1, <2>3
<1>2. ASSUME NEW p \in relays, Stores(p) PROVE \E q \in relays' : q.j = r.j /\ q.f = r.f
  <2>1. relays' = (relays \ {p}) \cup {[p EXCEPT !.pc = "stored"]}
    BY <1>2 DEF Stores
  <2>2. [p EXCEPT !.pc = "stored"].j = p.j /\ [p EXCEPT !.pc = "stored"].f = p.f
    BY <1>0 DEF RelayType
  <2>3. CASE r = p
    BY <2>1, <2>2, <2>3
  <2> QED BY <2>1, <2>3
<1>3. ASSUME NEW p \in relays, Reports(p) PROVE r \in relays'
  <2>1. SUFFICES ASSUME p = r PROVE FALSE
    BY <1>3 DEF Reports
  <2>2. ~Settled(r.j, r.f, "done")
    BY <1>0, ItemSettled DEF ItemStates, Nil
  <2>3. ~SettledFailure(r.j, r.f, r.att)
    BY <1>0, ItemSettledFailure DEF Nil
  <2> QED BY <1>3, <2>1, <2>2, <2>3 DEF Reports
<1>4. ~Restart
  BY DEF Restart, Free
<1>5. CASE \/ Requeue \/ Pick \/ Abort \/ ScanChecks \/ ScanLists \/ FinishScan \/ Claim
              \/ Drained
           \/ Close \/ Copy \/ Busy \/ Download \/ DownloadRejected \/ DownloadFails
              \/ HandedOff \/ Resume
           \/ RetryItems \/ RetryMoves \/ Delete \/ Create \/ Pause \/ Cancel \/ CallReads
           \/ UNCHANGED vars
  BY <1>5 DEF Requeue, Pick, Abort, ScanChecks, ScanLists, FinishScan, Claim, Drained, Close,
       Copy, Busy, Download, DownloadRejected, DownloadFails, HandedOff, Resume, RetryItems,
       RetryMoves,
       Delete, Create, Pause, Cancel, CallReads, vars
<1> QED
  BY <1>1, <1>2, <1>3, <1>4, <1>5 DEF Next, Runs, Calls, Relays, Quiet

LEMMA SomeHolderStep == ImportsConstants /\ ImportsInv /\ [Next]_vars => SomeHolder'
<1> SUFFICES ASSUME ImportsConstants, ImportsInv, [Next]_vars, NEW j \in Jobs, NEW f \in Files,
                    item'[j][f].st = "in_progress", runner'.pc # "start"
             PROVE  \/ runner'.pc \in Copying /\ runner'.j = j /\ runner'.f = f
                    \/ \E r \in relays' : r.j = j /\ r.f = f
  BY DEF SomeHolder
<1>0. Shapes /\ SomeHolder /\ OneHolder /\ relays \subseteq RelayType
  BY DEF ImportsInv, Shapes
<1>1. CASE item'[j][f] # item[j][f]
  <2>1. RowClaimed(j, f)
    BY <1>0, <1>1, RowMoves DEF RowRequeued, RowListed, RowLetGo, RowReported, RowRetried,
        RowDeleted,
       Becomes, Nil
  <2> QED BY <2>1 DEF RowClaimed, Copying
<1>2. CASE item'[j][f] = item[j][f]
  <2>1. CASE runner.pc = "start"
    <3>1. Requeue
      BY <1>0, <2>1, LeavesStart
    <3> QED BY <1>0, <1>2, <3>1 DEF Requeue, Shapes, ItemType
  <2>2. CASE runner.pc \in Copying /\ runner.j = j /\ runner.f = f
    BY <1>0, <1>2, <2>2, HandsOn
  <2>3. ASSUME NEW r \in relays, r.j = j, r.f = f PROVE \E q \in relays' : q.j = j /\ q.f = f
    BY <1>0, <1>2, <2>3, TaskGoesOn
  <2> QED BY <1>0, <1>2, <2>1, <2>2, <2>3 DEF SomeHolder
<1> QED BY <1>1, <1>2

(* What a call knows, it has read.                                          *)
LEMMA CallMoves ==
  ASSUME Shapes, [Next]_vars, call'.op # Nil
  PROVE  \/ /\ call.op # Nil /\ call'.j = call.j /\ call'.st = call.st
            /\ call'.scanned = call.scanned
            /\ call' = call \/ RetryItems
         \/ CallReads /\ call'.j \in Jobs /\ call'.scanned = job[call'.j].scanned
            /\ call'.op # "move"
<1>0. call \in CallType /\ NoCall.op = Nil
  BY DEF Shapes, NoCall
<1>1. CASE RetryItems
  BY <1>0, <1>1 DEF RetryItems, CallType, Nil
<1>2. CASE CallReads
  BY <1>2 DEF CallReads
<1>3. ~(Resume \/ RetryMoves \/ Delete \/ Restart)
  BY <1>0 DEF Resume, RetryMoves, Delete, Restart
<1>4. CASE \/ Requeue \/ Pick \/ Abort \/ ScanChecks \/ ScanLists \/ FinishScan \/ Claim
              \/ Drained
           \/ Close \/ Copy \/ Busy \/ Download \/ DownloadRejected \/ DownloadFails
              \/ HandedOff
           \/ Relays \/ Create \/ Pause \/ Cancel \/ UNCHANGED vars
  BY <1>4 DEF Requeue, Pick, Abort, ScanChecks, ScanLists, FinishScan, Claim, Drained, Close,
       Copy, Busy, Download, DownloadRejected, DownloadFails, HandedOff, Create, Pause, Cancel,
       Relays, Spools, Stores, Reports, vars
<1> QED BY <1>1, <1>2, <1>3, <1>4 DEF Next, Runs, Calls, Quiet

(* The runner rests, goes to the next step, or picks, lists or claims.      *)
LEMMA RunnerGoes ==
  ASSUME [Next]_vars, ~Pick, ~ScanLists, ~Claim, ~Restart
  PROVE  \/ Rest \/ runner' = runner
         \/ ScanChecks /\ At("list")
         \/ ScanChecks /\ At("listed") /\ runner.dirs = {}
         \/ /\ Drained /\ At("close")
            /\ \A f \in Files : item[runner.j][f].st \notin {"pending", "in_progress"}
         \/ runner.pc \in Copying /\ \E pc \in Copying \cup {"handed", "abort"} : At(pc)
<1>1. CASE Relays
  BY <1>1 DEF Relays, Spools, Stores, Reports
<1>2. CASE Copy \/ Busy \/ Download \/ DownloadRejected
  BY <1>2 DEF Copy, Busy, Download, DownloadRejected, Copying
<1>3. CASE ScanChecks \/ Drained
  BY <1>3 DEF ScanChecks, Drained
<1>4. CASE Requeue \/ Abort \/ FinishScan \/ Close \/ DownloadFails \/ HandedOff
  BY <1>4 DEF Requeue, Abort, FinishScan, Close, DownloadFails, HandedOff
<1>5. CASE Calls \/ Create \/ Pause \/ Cancel \/ CallReads \/ UNCHANGED vars
  BY <1>5 DEF Calls, Resume, RetryItems, RetryMoves, Delete, Create, Pause, Cancel, CallReads,
      vars
<1> QED BY <1>1, <1>2, <1>3, <1>4, <1>5 DEF Next, Quiet, Runs

LEMMA RunnerMoves ==
  ASSUME Shapes, [Next]_vars, runner'.j # 0
  PROVE  \/ runner'.j = runner.j /\ ~Pick
         \/ Pick /\ runner'.j \in Jobs /\ job[runner'.j].st \in Active /\ job' = job
<1>0. /\ runner \in RunnerType /\ ~Rest
      /\ Copying \cup {"handed", "abort", "list", "listed", "close"} \subseteq RunnerSteps
  BY RunnerRests DEF Shapes, Copying, RunnerSteps
<1>1. CASE Pick
  BY <1>1 DEF Pick, Free
<1>2. CASE ScanLists
  BY <1>0, <1>2 DEF ScanLists, RunnerType, Pick
<1>3. CASE Claim
  BY <1>0, <1>3, RunnerAt DEF Claim, RunnerType, RunnerSteps, Pick
<1>4. ~Restart
  BY DEF Restart, Free
<1> QED BY <1>0, <1>1, <1>2, <1>3, <1>4, RunnerGoes, RunnerAt

LEMMA RunnerLists ==
  ASSUME Shapes, [Next]_vars, runner'.pc \in {"list", "listed"}, ~ScanLists
  PROVE  /\ runner'.j = runner.j /\ runner'.dirs = runner.dirs
         /\ \/ runner.pc = runner'.pc
            \/ runner.pc = "scan" /\ (runner'.pc = "listed" => runner.dirs = {})
<1>0. /\ runner \in RunnerType /\ ~Rest /\ {"list", "listed", "close"} \subseteq RunnerSteps
      /\ Copying \cup {"handed", "abort"} \subseteq RunnerSteps \ {"list", "listed"}
  BY RunnerRests DEF Shapes, RunnerSteps, Copying
<1>1. ~Pick /\ ~Restart
  BY DEF Pick, Restart, Free
<1>2. ~Claim
  BY <1>0, ClaimGoes
<1>3. ASSUME NEW pc \in RunnerSteps, At(pc)
      PROVE  runner'.pc = pc /\ runner'.j = runner.j /\ runner'.dirs = runner.dirs
  BY <1>0, <1>3, RunnerAt
<1>4. CASE ScanChecks
  BY <1>0, <1>3, <1>4 DEF ScanChecks
<1>5. CASE ~ScanChecks
  <2>1. ~At("close") /\ \A pc \in Copying \cup {"handed", "abort"} : ~At(pc)
    BY <1>0, <1>3
  <2> QED BY <1>0, <1>1, <1>2, <1>5, <2>1, RunnerGoes
<1> QED BY <1>4, <1>5

(* A listing loses a folder only when what it holds has been recorded.      *)
LEMMA RunnerScans ==
  ASSUME Shapes, [Next]_vars, runner'.pc \in {"scan", "list"}
  PROVE  \/ "" \in runner'.dirs
         \/ runner'.j = runner.j /\ runner.pc \in {"scan", "list"} /\ runner'.dirs = runner.dirs
         \/ \E d \in runner.dirs :
               /\ runner'.j = runner.j /\ runner.pc = "list" /\ Exists(runner.j)
               /\ runner'.dirs = (runner.dirs \ {d}) \cup IF d = "" THEN Dirs \ {""} ELSE {}
               /\ \A f \in Files : item'[runner.j][f].st = Nil => DirOf[f] # d
<1>0. /\ runner \in RunnerType /\ ~Rest
      /\ Copying \cup {"handed", "abort", "listed", "close"} \subseteq RunnerSteps \ {"scan"}
  BY RunnerRests DEF Shapes, RunnerSteps, Copying
<1>1. CASE Pick
  <2>1. PICK j \in Jobs, pc \in {"scan", "claim", "abort"} :
          \/ runner' = [Free EXCEPT !.j = j, !.dirs = {""}, !.pc = pc]
          \/ runner' = [Free EXCEPT !.j = j, !.pc = "abort"]
    BY <1>1 DEF Pick
  <2>2. runner' # [Free EXCEPT !.j = j, !.pc = "abort"]
    BY DEF Free
  <2>3. runner'.dirs = {""}
    BY <2>1, <2>2 DEF Free
  <2> QED BY <2>3
<1>2. CASE ScanLists
  <2>1. PICK d \in runner.dirs :
          /\ Exists(runner.j)
          /\ runner' = [runner EXCEPT !.pc = "scan",
             !.dirs = (@ \ {d}) \cup IF d = "" THEN Dirs \ {""} ELSE {}]
          /\ item' = [item EXCEPT ![runner.j] = [f \in Files |->
                        IF DirOf[f] = d /\ @[f].st = Nil THEN [st |-> "pending", att |-> 0]
                        ELSE @[f]]]
    BY <1>0, <1>2 DEF ScanLists
  <2>2. runner.j \in Jobs /\ item \in [Jobs -> [Files -> ItemType]]
    BY <1>2 DEF ScanLists, Shapes
  <2>3. /\ runner'.j = runner.j
        /\ runner'.dirs = (runner.dirs \ {d}) \cup IF d = "" THEN Dirs \ {""} ELSE {}
    BY <1>0, <2>1 DEF RunnerType
  <2>4. \A f \in Files : item'[runner.j][f].st = Nil => DirOf[f] # d
    BY <2>1, <2>2 DEF Nil
  <2> QED BY <1>2, <2>1, <2>3, <2>4 DEF ScanLists
<1>3. CASE runner'.pc = "list" /\ ~ScanLists
  BY <1>3, RunnerLists
<1>4. CASE runner'.pc = "scan" /\ ~ScanLists /\ ~Pick
  <2>1. ~Claim /\ ~Restart
    BY <1>0, <1>4, ClaimGoes DEF Restart, Free
  <2>2. \A pc \in RunnerSteps \ {"scan"} : ~At(pc)
    BY <1>0, <1>4, RunnerAt
  <2>3. runner' = runner
    BY <1>0, <1>4, <2>1, <2>2, RunnerGoes DEF RunnerSteps
  <2> QED BY <1>4, <2>3
<1> QED BY <1>1, <1>2, <1>3, <1>4

LEMMA ListingStep == ImportsConstants /\ ImportsInv /\ [Next]_vars => ListingHolds'
<1> SUFFICES ASSUME ImportsConstants, ImportsInv, [Next]_vars PROVE ListingHolds'
  OBVIOUS
<1>0. Shapes /\ Shapes' /\ ListingHolds
  BY ShapesStep DEF ImportsInv
<1>1. ASSUME NEW j \in Jobs, Exists(j)', job[j].st # Nil
      PROVE  Exists(j) /\ \A f \in Files : item[j][f].st # Nil => item'[j][f].st # Nil
  <2>1. Exists(j)
    BY <1>0, <1>1, JobMoves DEF Exists
  <2>2. ~(Delete /\ call.j = j)
    BY <1>0, <1>1 DEF Delete, Exists, Shapes, JobType
  <2>3. ASSUME NEW f \in Files, item[j][f].st # Nil PROVE item'[j][f].st # Nil
    BY <1>0, <2>2, <2>3, RowMoves DEF RowRequeued, RowListed, RowClaimed, RowLetGo,
        RowReported, RowRetried,
       RowDeleted, Becomes, Nil
  <2> QED BY <2>1, <2>3
<1>2. ASSUME NEW j \in Jobs, job'[j].scanned PROVE job[j].scanned \/ JobListed(j)
  BY <1>0, <1>2, JobSteps DEF JobRemoved, JobCreated, JobClosed, JobResumed, JobStopped
<1>3. ASSUME NEW j \in Jobs, job[j].scanned PROVE job'[j].scanned
  BY <1>0, <1>3, JobSteps DEF JobRemoved, JobCreated, JobListed, JobClosed, JobResumed,
      JobStopped, ListingHolds
<1>4. ASSUME NEW j \in Jobs, job[j].st # Nil PROVE job'[j].st # Nil
  BY <1>0, <1>4, JobSteps
  DEF JobRemoved, JobCreated, JobListed, JobClosed, JobResumed, JobStopped, Exists, Nil
<1>5. ASSUME NEW j \in Jobs, Exists(j)', job'[j].scanned PROVE Listed(j)'
  <2>1. CASE job[j].scanned
    <3>1. Exists(j) /\ Listed(j)
      BY <1>0, <1>1, <1>5, <2>1 DEF ListingHolds
    <3> QED BY <1>0, <1>1, <1>5, <2>1, <3>1 DEF Listed, ListingHolds
  <2>2. CASE JobListed(j)
    <3>1. runner.pc = "listed" /\ Exists(j) /\ item' = item
      BY <2>2 DEF JobListed, FinishScan, Exists, Nil
    <3> QED BY <1>0, <2>2, <3>1 DEF ListingHolds, Listed, JobListed
  <2> QED BY <1>2, <1>5, <2>1, <2>2
<1>6. ASSUME NEW j \in Jobs, job'[j].st \in {"running", "done"} PROVE job'[j].scanned
  <2>1. CASE job'[j].st = job[j].st
    BY <1>0, <1>3, <1>6, <2>1 DEF ListingHolds
  <2>2. CASE job'[j].st # job[j].st
    <3>1. JobListed(j) \/ JobClosed(j) \/ JobResumed(j)
      BY <1>0, <1>6, <2>2, JobSteps DEF JobRemoved, JobCreated, JobStopped
    <3>2. JobResumed(j) => call.op # Nil /\ call.scanned
      BY <1>6, <2>2 DEF JobResumed, Resume, RetryMoves, Nil
    <3> QED BY <1>0, <1>3, <3>1, <3>2 DEF JobListed, JobClosed, JobResumed, ListingHolds
  <2> QED BY <2>1, <2>2
<1>7. ASSUME NEW j \in Jobs, job'[j].scanned PROVE job'[j].st # Nil
  BY <1>0, <1>2, <1>4, <1>7 DEF ListingHolds, JobListed, Nil
<1>8. ASSUME NEW j \in Jobs, call'.op # Nil, j = call'.j, call'.scanned PROVE job'[j].scanned
  <2>1. (call.op # Nil /\ j = call.j /\ call.scanned) \/ job[j].scanned
    BY <1>0, <1>8, CallMoves
  <2> QED BY <1>0, <1>3, <2>1 DEF ListingHolds
<1>9. ASSUME NEW j \in Jobs, j = runner'.j PROVE job'[j].st # Nil
  <2>1. job[j].st # Nil
    BY <1>0, <1>9, RunnerMoves DEF ListingHolds, Active, Nil, ImportsConstants
  <2> QED BY <1>4, <2>1
<1>10. ASSUME NEW j \in Jobs, j = runner'.j, runner'.pc = "listed", Exists(j)' PROVE Listed(j)'
  <2>1. j = runner.j /\ (runner.pc = "listed" \/ (runner.pc = "scan" /\ runner.dirs = {}))
    <3>1. ~ScanLists
      BY <1>0, <1>10, RunnerRests DEF ScanLists, Shapes, RunnerType
    <3> QED BY <1>0, <1>10, <3>1, RunnerLists
  <2>2. job[j].st # Nil
    BY <1>0, <2>1 DEF ListingHolds
  <2>3. Exists(j) /\ Listed(j)
    BY <1>0, <1>1, <1>10, <2>1, <2>2 DEF ListingHolds, Listed
  <2> QED BY <1>1, <1>10, <2>2, <2>3 DEF Listed
<1>11. ASSUME NEW j \in Jobs, j = runner'.j, runner'.pc \in {"scan", "list"}, Exists(j)',
              NEW f \in Files, item'[j][f].st = Nil
       PROVE  DirOf[f] \in runner'.dirs \/ "" \in runner'.dirs
  <2>1. CASE "" \in runner'.dirs
    BY <2>1
  <2>2. CASE j = runner.j /\ runner.pc \in {"scan", "list"} /\ runner'.dirs = runner.dirs
    BY <1>0, <1>1, <1>11, <2>2 DEF ListingHolds
  <2>3. ASSUME NEW d \in runner.dirs, j = runner.j, runner.pc = "list", Exists(j),
               runner'.dirs = (runner.dirs \ {d}) \cup IF d = "" THEN Dirs \ {""} ELSE {},
               DirOf[f] # d
        PROVE  DirOf[f] \in runner'.dirs \/ "" \in runner'.dirs
    <3>1. item[j][f].st = Nil
      BY <1>0, <1>1, <1>11, <2>3 DEF ListingHolds
    <3>2. DirOf[f] \in Dirs \cup {""}
      BY DEF ImportsConstants
    <3>3. DirOf[f] \in runner.dirs \/ "" \in runner.dirs
      BY <1>0, <2>3, <3>1 DEF ListingHolds
    <3> QED BY <2>3, <3>1, <3>2, <3>3
  <2> QED BY <1>0, <1>11, <2>1, <2>2, <2>3, RunnerScans
<1> QED
  BY <1>0, <1>5, <1>6, <1>7, <1>8, <1>9, <1>10, <1>11 DEF ListingHolds, Shapes, Listed, Exists

LEMMA RunnerCloses ==
  ASSUME Shapes, [Next]_vars, runner'.pc = "close"
  PROVE  /\ runner'.j = runner.j
         /\ runner.pc = "close" \/ \A f \in Files : item[runner.j][f].st # "in_progress"
<1>0. /\ runner \in RunnerType /\ ~Rest /\ "close" \in RunnerSteps
      /\ Copying \cup {"handed", "abort", "list", "listed"} \subseteq RunnerSteps \ {"close"}
  BY RunnerRests DEF Shapes, RunnerSteps, Copying
<1>1. ~Pick /\ ~Restart /\ ~ScanLists
  BY <1>0 DEF Pick, Restart, Free, ScanLists, RunnerType
<1>2. ~Claim
  BY <1>0, ClaimGoes
<1>3. ASSUME NEW pc \in RunnerSteps \ {"close"} PROVE ~At(pc)
  BY <1>0, <1>3, RunnerAt
<1>4. CASE runner' = runner
  BY <1>4
<1>5. CASE /\ At("close")
           /\ \A f \in Files : item[runner.j][f].st \notin {"pending", "in_progress"}
  BY <1>0, <1>5, RunnerAt
<1> QED BY <1>0, <1>1, <1>2, <1>3, <1>4, <1>5, RunnerGoes

LEMMA CloseHasJob == Shapes' => (runner'.pc = "close" => runner'.j \in Jobs)
BY DEF Shapes

LEMMA RacedGrows == [Next]_vars => raced \subseteq raced'
BY DEF Next, Runs, Calls, Relays, Quiet, Requeue, Pick, Abort, ScanChecks, ScanLists,
       FinishScan, Claim, Drained, Close, Copy, Busy, Download, DownloadRejected, DownloadFails,
       HandedOff, Resume, RetryItems, RetryMoves, Delete, Create, Pause, Cancel, CallReads,
       Restart,
       Spools, Stores, Reports, vars

(* Between the two writes of a retry no other call is made.                 *)
LEMMA MoveStays ==
  ASSUME [Next]_vars, call.op = "move", ~RetryMoves, ~Restart
  PROVE  call' = call
<1>1. ~(Resume \/ RetryItems \/ Delete \/ CallReads)
  BY DEF Resume, RetryItems, Delete, CallReads, NoCall, Nil
<1> QED BY <1>1 DEF Next, Runs, Calls, Relays, Quiet, Requeue, Pick, Abort, ScanChecks,
      ScanLists,
       FinishScan, Claim, Drained, Close, Copy, Busy, Download, DownloadRejected, DownloadFails,
       HandedOff, Create, Pause, Cancel, Spools, Stores, Reports, vars

LEMMA DoneStep == ImportsConstants /\ ImportsInv /\ [Next]_vars => DoneHolds'
<1> SUFFICES ASSUME ImportsConstants, ImportsInv, [Next]_vars PROVE DoneHolds'
  OBVIOUS
<1>0. /\ Shapes /\ Shapes' /\ DoneHolds /\ OneHolder /\ stored \subseteq stored'
      /\ 0 \notin Jobs
  BY ShapesStep, StoredGrows DEF ImportsInv, ImportsConstants
<1>1. ASSUME NEW j \in Jobs, NEW f \in Files, item'[j][f].st \in {"done", "skipped"}
      PROVE f \in stored'
  <2>1. CASE item'[j][f] = item[j][f]
    BY <1>0, <1>1, <2>1 DEF DoneHolds
  <2>2. CASE item'[j][f] # item[j][f]
    <3>1. RowLetGo(j, f) \/ RowReported(j, f)
      BY <1>0, <1>1, <2>2, RowMoves
      DEF RowRequeued, RowListed, RowClaimed, RowRetried, RowDeleted, Becomes, Nil
    <3>2. RowReported(j, f) => f \in stored
      BY <1>0, <1>1 DEF RowReported, OneHolder, Becomes
    <3> QED BY <1>0, <1>1, <3>1, <3>2 DEF RowLetGo, Becomes
  <2> QED BY <2>1, <2>2
<1>2. ASSUME NEW j \in Jobs, job'[j].st = "done", job[j].st # "done" PROVE JobClosed(j)
  BY <1>0, <1>2, JobSteps DEF JobRemoved, JobCreated, JobListed, JobResumed, JobStopped
<1>3. ASSUME NEW j \in Jobs, runner'.j = j PROVE job'[j].st # "done"
  <2>1. job[j].st # "done"
    BY <1>0, <1>3, RunnerMoves DEF DoneHolds, Active
  <2>2. ~JobClosed(j)
    BY <1>0, <1>3, RunnerRests DEF JobClosed, Close
  <2> QED BY <1>2, <2>1, <2>2
<1>4. ASSUME NEW j \in Jobs, runner'.j = j, runner'.pc = "close", NEW f \in Files
      PROVE  item'[j][f].st # "in_progress"
  <2>1. ~RowClaimed(j, f)
    BY <1>4 DEF RowClaimed
  <2>2. item'[j][f] # item[j][f] => item'[j][f].st # "in_progress"
    BY <1>0, <2>1, RowMoves
    DEF RowRequeued, RowListed, RowLetGo, RowReported, RowRetried, RowDeleted, Becomes, Nil
  <2>3. j = runner.j /\ (runner.pc = "close" \/ item[j][f].st # "in_progress")
    BY <1>0, <1>4, RunnerCloses
  <2> QED BY <1>0, <2>2, <2>3 DEF DoneHolds
<1>5. ASSUME NEW j \in Jobs, job'[j].st = "done", NEW f \in Files
      PROVE  /\ item'[j][f].st # "in_progress"
             /\ j \in raced' \/ Retried(j)' \/ item'[j][f].st # "pending"
  <2>1. CASE job[j].st # "done"
    <3>1. /\ runner.pc = "close" /\ runner.j = j /\ item' = item
          /\ item[j][f].st = "pending" => j \in raced'
      BY <1>2, <1>5, <2>1 DEF JobClosed, Close
    <3> QED BY <1>0, <3>1 DEF DoneHolds
  <2>2. CASE job[j].st = "done"
    <3>1. /\ item[j][f].st # "in_progress"
          /\ j \in raced \/ Retried(j) \/ item[j][f].st # "pending"
          /\ runner.j # j
      BY <1>0, <2>2 DEF DoneHolds
    <3>2. ASSUME item'[j][f] # item[j][f] PROVE RowRetried(j, f) \/ RowDeleted(j, f)
      <4>1. ~RowReported(j, f)
        BY <1>0, <2>2, <3>1 DEF RowReported, OneHolder, Claimed
      <4> QED BY <1>0, <3>1, <3>2, <4>1, RowMoves
            DEF RowRequeued, RowListed, RowClaimed, RowLetGo
    <3>3. CASE RowRetried(j, f)
      <4>1. /\ call'.j = j /\ call'.op = "move" /\ call'.st = call.st
            /\ job[j].st # call.st => j \in raced'
        BY <1>0, <3>3 DEF RowRetried, RetryItems, Shapes, CallType
      <4> QED BY <2>2, <3>3, <4>1 DEF RowRetried, Becomes, Retried
    <3>4. CASE RowDeleted(j, f)
      BY <3>4 DEF RowDeleted, Becomes, Nil
    <3>5. CASE item'[j][f] = item[j][f]
      <4>1. raced \subseteq raced'
        BY RacedGrows
      <4>2. ASSUME Retried(j), j \notin raced' PROVE Retried(j)'
        <5>1. ~RetryMoves
          <6>1. ASSUME RetryMoves PROVE FALSE
            <7>1. \E to \in {"running", "scanning"} : Moved(j, {"done", "failed"}, to)
              BY <4>2, <6>1 DEF RetryMoves, Retried
            <7>2. job'[j].st \in {"running", "scanning"}
              BY <1>0, <2>2, <7>1, JobMoved DEF Shapes, States
            <7> QED BY <1>5, <7>2
          <6> QED BY <6>1
        <5>2. ~Restart
          BY <4>2 DEF Restart, Retried
        <5>3. call' = call
          BY <4>2, <5>1, <5>2, MoveStays DEF Retried
        <5> QED BY <4>2, <5>3 DEF Retried
      <4> QED BY <3>1, <3>5, <4>1, <4>2
    <3> QED BY <3>2, <3>3, <3>4, <3>5
  <2> QED BY <2>1, <2>2
<1> QED
  BY <1>0, <1>1, <1>3, <1>4, <1>5, CloseHasJob DEF DoneHolds, Retried

-----------------------------------------------------------------------------
(* The theorems.                                                            *)

LEMMA ImportsInit == ImportsConstants /\ Init => ImportsInv
<1> SUFFICES ASSUME ImportsConstants, Init PROVE ImportsInv
  OBVIOUS
<1>1. /\ job \in [Jobs -> JobType]
      /\ \A j \in Jobs : ~job[j].scanned /\ job[j].st \in {Nil, "scanning", "paused"}
  BY DEF Init, JobType, States, Nil
<1>2. item \in [Jobs -> [Files -> ItemType]] /\ \A j \in Jobs,
f \in Files : item[j][f].st = Nil /\ item[j][f].att = 0
  BY DEF Init, ItemType, ItemStates, NoItem
<1>3. runner \in RunnerType /\ runner.pc = "start" /\ runner.j = 0
  BY DEF Init, Free, RunnerType, RunnerSteps
<1>4. call \in CallType /\ call.op = Nil
  BY DEF Init, NoCall, CallType, States
<1>5. relays = {} /\ stored = {} /\ raced = {} /\ faults = 0 /\ MaxFaults \in Nat
      /\ MAX_ATTEMPTS \in Nat \ {0}
      /\ 0 \notin Jobs
  BY DEF Init, ImportsConstants
<1>6. Shapes
  BY <1>1, <1>2, <1>3, <1>4, <1>5 DEF Shapes, Copying
<1>7. AttemptsHold
  BY <1>2, <1>5 DEF AttemptsHold, Nil
<1>8. OneHolder /\ SomeHolder
  BY <1>2, <1>3, <1>5 DEF OneHolder, SomeHolder, Copying, Nil
<1>9. ListingHolds
  BY <1>1, <1>3, <1>4, <1>5 DEF ListingHolds, Nil
<1>10. DoneHolds
  BY <1>1, <1>2, <1>3, <1>5 DEF DoneHolds, Nil
<1> QED BY <1>6, <1>7, <1>8, <1>9, <1>10 DEF ImportsInv

LEMMA ImportsStep == ImportsConstants /\ ImportsInv /\ [Next]_vars => ImportsInv'
BY ShapesStep, AttemptsStep, OneHolderStep, SomeHolderStep, ListingStep, DoneStep DEF ImportsInv

LEMMA Accounted == ImportsConstants /\ ImportsInv => ItemsAreAccounted
<1> SUFFICES ASSUME ImportsConstants, ImportsInv PROVE ItemsAreAccounted
  OBVIOUS
<1>0. /\ Shapes /\ AttemptsHold /\ OneHolder /\ SomeHolder /\ ListingHolds /\ DoneHolds
      /\ MaxFaults \in Nat /\ MAX_ATTEMPTS \in Nat \ {0} /\ faults \in 0 .. MaxFaults
  BY DEF ImportsInv, ImportsConstants, Shapes
<1>1. TypeOK
  <2> SUFFICES ASSUME NEW j \in Jobs, NEW f \in Files
               PROVE  /\ item[j][f].st \in ItemStates
                      /\ item[j][f].st # Nil => Exists(j)
                      /\ item[j][f].att =< MAX_ATTEMPTS + MaxFaults
    BY DEF TypeOK, ItemStates
  <2>1. item[j][f].st \in ItemStates /\ item[j][f].att \in Nat
    BY <1>0 DEF Shapes, ItemType
  <2>2. item[j][f].att =< MAX_ATTEMPTS + faults /\ (item[j][f].st # Nil => Exists(j))
    BY <1>0 DEF AttemptsHold
  <2> QED BY <1>0, <2>1, <2>2
<1>2. ClaimedIsCopied
  <2> SUFFICES ASSUME NEW j \in Jobs, NEW f \in Files, item[j][f].st = "in_progress",
                      runner.pc # "start"
               PROVE  LET held == {r \in relays : r.j = j /\ r.f = f}
                          here == runner.j = j /\ runner.f = f /\ runner.pc \in Copying IN
                      \/ here /\ held = {}
                      \/ ~here /\ Cardinality(held) = 1
    BY DEF ClaimedIsCopied, Copying
  <2> DEFINE held == {r \in relays : r.j = j /\ r.f = f}
             here == runner.j = j /\ runner.f = f /\ runner.pc \in Copying
  <2>1. CASE here
    BY <1>0, <2>1 DEF OneHolder
  <2>2. CASE ~here
    <3>1. PICK r \in relays : r.j = j /\ r.f = f
      BY <1>0, <2>2 DEF SomeHolder
    <3>2. held = {r}
      BY <1>0, <3>1 DEF OneHolder
    <3>3. Cardinality(held) = 1
      BY <3>2, FS_Singleton
    <3> QED BY <2>2, <3>3
  <2> QED BY <2>1, <2>2
<1>3. DoneIsComplete
  <2> SUFFICES ASSUME NEW j \in Jobs, job[j].st = "done", j \notin raced,
                      ~(call.op = "move" /\ call.j = j),
                      NEW f \in Files
               PROVE  f \in stored \/ item[j][f].st = "failed"
    BY DEF DoneIsComplete
  <2>1. item[j][f].st \notin {Nil, "pending", "in_progress"}
    BY <1>0 DEF ListingHolds, Listed, DoneHolds, Retried, Exists, Nil
  <2>2. item[j][f].st \in ItemStates
    BY <1>0 DEF Shapes, ItemType
  <2> QED BY <1>0, <2>1, <2>2 DEF DoneHolds, ItemStates
<1> QED BY <1>1, <1>2, <1>3 DEF ItemsAreAccounted

(* Every file of every import is accounted for, run agents: the one that is *)
(* being copied is in the hands of exactly one task, attempts are bounded,  *)
(* and a job that is done has each of its files stored or counted as        *)
(* failed, however many jobs, files, calls, failures and restarts there are *)
(* (claim_next_item, finish_item, is_drained).                              *)
THEOREM ItemsAlwaysAccounted == Spec => []ItemsAreAccounted
<1>1. Init => ImportsInv
  BY ImportsInit, ImportsAssumption
<1>2. ImportsInv /\ [Next]_vars => ImportsInv'
  BY ImportsStep, ImportsAssumption
<1>3. ImportsInv => ItemsAreAccounted
  BY Accounted, ImportsAssumption
<1> QED BY <1>1, <1>2, <1>3, PTL DEF Spec

LEMMA StoppedStep == ImportsInv /\ [Next]_vars => [KeepsEnd]_vars
<1> SUFFICES ASSUME ImportsInv, [Next]_vars, NEW j \in Jobs,
                    job[j].st \in {"paused", "cancelled"}, job'[j].st \in Active
             PROVE  call.op = "resume" /\ call.j = j /\ job[j].st = "paused"
  BY DEF KeepsEnd
<1>1. Shapes /\ job \in [Jobs -> JobType]
  BY DEF ImportsInv, Shapes
<1>2. JobResumed(j)
  <2>1. job'[j] # job[j]
    BY DEF Active
  <2> QED BY <1>1, <2>1, JobSteps
        DEF JobRemoved, JobCreated, JobListed, JobClosed, JobStopped, Active, Nil
<1>3. CASE Resume
  <2>1. call.op = "resume" /\ call.j = j
    BY <1>2, <1>3 DEF Resume, JobResumed
  <2>2. job[j].st # "paused" => job'[j].st = job[j].st
    BY <1>1, <1>3, <2>1 DEF Resume, JobType
  <2> QED BY <2>1, <2>2 DEF Active
<1>4. CASE RetryMoves
  BY <1>1, <1>2, <1>4 DEF RetryMoves, Moved, JobResumed, JobType, Active
<1> QED BY <1>2, <1>3, <1>4 DEF JobResumed

(* A job that the user paused or cancelled runs again only when the user    *)
(* resumes it, and a cancelled one never does: neither the scan or the copy *)
(* under way, nor a retry, sets it going (transition, finish_scan).         *)
THEOREM StoppedJobsStay == Spec => [][KeepsEnd]_vars
<1>1. Init => ImportsInv
  BY ImportsInit, ImportsAssumption
<1>2. ImportsInv /\ [Next]_vars => ImportsInv'
  BY ImportsStep, ImportsAssumption
<1> QED BY <1>1, <1>2, StoppedStep, PTL DEF Spec

-----------------------------------------------------------------------------
(* Guesses.  The inductive invariant.                                       *)

GuestSteps == {"idle", "delayed", "load", "compare", "serving"}

(* The visitors whose guess the throttle has let through.                   *)
Inside == {v \in Visitors : g_req[v] \in {"delayed", "load", "compare"}}

GuestShapes ==
    /\ g_count \in [Guests_!Keys -> Nat] /\ g_left \in [Guests_!Keys -> 0 .. DECAY]
    /\ g_expires \in Nat /\ g_cookie \in [Visitors -> 0 .. MAX_COOKIE]
    /\ g_req \in [Visitors -> GuestSteps]
    /\ \A k \in Guests_!Keys : g_count[k] > 0 <=> g_left[k] > 0
    /\ g_guesses = g_count["target"]

MapIsBounded == Cardinality(Guests_!Tracked) =< MAX_KEYS

(* Each guess that is inside was let in below the lock.                     *)
InsideIsBounded ==
    g_count["target"] + Cardinality(Inside) =< LOCK_ATTEMPTS - 1 + Cardinality(Visitors)

GuestsInv == GuestShapes /\ MapIsBounded /\ InsideIsBounded

-----------------------------------------------------------------------------

(* An instance has the Cardinality of its own FiniteSets.                   *)
LEMMA GuestsCount == \A S : Guests_!Cardinality(S) = Cardinality(S)
BY Zenon DEF Guests_!Cardinality, Cardinality

LEMMA GuestsBounds ==
  /\ IsFiniteSet(Visitors) /\ IsFiniteSet(Others) /\ "target" \notin Others
  /\ LOCK_ATTEMPTS \in Nat \ {0} /\ DECAY \in Nat \ {0} /\ FREE_ATTEMPTS \in Nat
  /\ MAX_COOKIE \in Nat /\ LinkLife \in Nat /\ MAX_KEYS \in Nat
BY AgentsAssumption DEF AgentsAssumption

LEMMA KeysOf ==
  /\ "target" \in Guests_!Keys /\ IsFiniteSet(Guests_!Keys)
  /\ \A k \in Others : k \in Guests_!Keys /\ k # "target"
<1>1. IsFiniteSet({"target"} \cup Others)
  BY GuestsBounds, FS_Singleton, FS_Union
<1> QED BY <1>1, GuestsBounds DEF Guests_!Keys, Guests_!Target

LEMMA TrackedIsFinite ==
  /\ Guests_!Tracked = {k \in Guests_!Keys : g_left[k] > 0}
  /\ IsFiniteSet(Guests_!Tracked) /\ Cardinality(Guests_!Tracked) \in Nat
<1>1. /\ Guests_!Tracked = {k \in Guests_!Keys : g_left[k] > 0}
      /\ Guests_!Tracked \subseteq Guests_!Keys
  BY DEF Guests_!Tracked
<1>2. IsFiniteSet(Guests_!Tracked)
  BY <1>1, KeysOf, FS_Subset
<1> QED BY <1>1, <1>2, FS_CardinalityType

LEMMA InsideIsFinite ==
  /\ IsFiniteSet(Inside) /\ Cardinality(Inside) \in Nat /\ Cardinality(Visitors) \in Nat
  /\ Cardinality(Inside) =< Cardinality(Visitors)
<1>1. Inside \subseteq Visitors
  BY DEF Inside
<1> QED BY <1>1, GuestsBounds, FS_Subset, FS_CardinalityType
(* A failure is counted for its key; where the map is full, another key is  *)
(* forgotten for it.                                                        *)
LEMMA FailureCounted ==
  ASSUME GuestsInv, NEW k \in Guests_!Keys, Guests_!RecordFailure(k)
  PROVE  /\ g_count' \in [Guests_!Keys -> Nat] /\ g_left' \in [Guests_!Keys -> 0 .. DECAY]
         /\ \A x \in Guests_!Keys : g_count'[x] > 0 <=> g_left'[x] > 0
         /\ g_guesses' = g_count'["target"]
         /\ MapIsBounded'
         /\ k = "target" => g_count'["target"] = g_count["target"] + 1
         /\ k # "target" => g_count'["target"] =< g_count["target"]
<1>0. /\ g_count \in [Guests_!Keys -> Nat] /\ g_left \in [Guests_!Keys -> 0 .. DECAY]
      /\ \A x \in Guests_!Keys : g_count[x] > 0 <=> g_left[x] > 0
      /\ g_guesses = g_count["target"] /\ "target" \in Guests_!Keys /\ DECAY \in Nat \ {0}
  BY KeysOf, GuestsBounds DEF GuestsInv, GuestShapes
<1>1. PICK gone \in Guests_!Evicted(k) :
         /\ g_count' = [x \in Guests_!Keys |-> IF x = k THEN g_count[k] + 1
                                               ELSE IF x \in gone THEN 0 ELSE g_count[x]]
         /\ g_left' = [x \in Guests_!Keys |-> IF x = k THEN DECAY
                                              ELSE IF x \in gone THEN 0 ELSE g_left[x]]
         /\ g_guesses' = IF k = "target" THEN g_guesses + 1
                         ELSE IF "target" \in gone THEN 0 ELSE g_guesses
  BY DEF Guests_!RecordFailure, Guests_!Target
<1>2. g_count' \in [Guests_!Keys -> Nat] /\ g_left' \in [Guests_!Keys -> 0 .. DECAY]
  BY <1>0, <1>1
<1>3. \A x \in Guests_!Keys : g_count'[x] > 0 <=> g_left'[x] > 0
  BY <1>0, <1>1
<1>4. /\ g_guesses' = g_count'["target"]
      /\ k = "target" => g_count'["target"] = g_count["target"] + 1
      /\ k # "target" => g_count'["target"] =< g_count["target"]
  BY <1>0, <1>1
<1>5. Guests_!Tracked' = (Guests_!Tracked \ gone) \cup {k}
  <2>1. Guests_!Tracked' = {x \in Guests_!Keys : g_left'[x] > 0}
    BY DEF Guests_!Tracked
  <2>2. \A x \in Guests_!Keys : g_left'[x] > 0 <=> x = k \/ (x \notin gone /\ g_left[x] > 0)
    BY <1>0, <1>1
  <2> QED BY <2>1, <2>2, TrackedIsFinite
<1>6. MapIsBounded'
  <2>0. /\ Cardinality(Guests_!Tracked) =< MAX_KEYS /\ MAX_KEYS \in Nat
        /\ IsFiniteSet(Guests_!Tracked) /\ Cardinality(Guests_!Tracked) \in Nat
    BY GuestsBounds, TrackedIsFinite DEF GuestsInv, MapIsBounded
  <2>1. CASE k \in Guests_!Tracked
    <3>1. gone = {}
      BY <1>1, <2>1 DEF Guests_!Evicted
    <3>2. Guests_!Tracked' = Guests_!Tracked
      BY <1>5, <2>1, <3>1
    <3> QED BY <2>0, <3>2 DEF MapIsBounded
  <2>2. CASE k \notin Guests_!Tracked /\ Cardinality(Guests_!Tracked) < MAX_KEYS
    <3>1. gone = {}
      BY <1>1, <2>2, GuestsCount DEF Guests_!Evicted
    <3>2. Guests_!Tracked' = Guests_!Tracked \cup {k}
      BY <1>5, <3>1
    <3>3. Cardinality(Guests_!Tracked \cup {k}) = Cardinality(Guests_!Tracked) + 1
      BY <2>0, <2>2, FS_AddElement
    <3> QED BY <2>0, <2>2, <3>2, <3>3 DEF MapIsBounded
  <2>3. CASE k \notin Guests_!Tracked /\ ~(Cardinality(Guests_!Tracked) < MAX_KEYS)
    <3>1. PICK o \in Guests_!Tracked : gone = {o}
      BY <1>1, <2>3, GuestsCount DEF Guests_!Evicted
    <3>2. /\ Cardinality(Guests_!Tracked \ {o}) = Cardinality(Guests_!Tracked) - 1
          /\ IsFiniteSet(Guests_!Tracked \ {o})
      BY <2>0, <3>1, FS_RemoveElement
    <3>3. Cardinality((Guests_!Tracked \ {o}) \cup {k}) = Cardinality(Guests_!Tracked \ {o}) + 1
      BY <2>3, <3>2, FS_AddElement
    <3>4. Guests_!Tracked' = (Guests_!Tracked \ {o}) \cup {k}
      BY <1>5, <3>1
    <3> QED BY <2>0, <3>2, <3>3, <3>4 DEF MapIsBounded
  <2> QED BY <2>1, <2>2, <2>3
<1> QED BY <1>2, <1>3, <1>4, <1>6

(* Where a request goes.                                                    *)
LEMMA GuestGoes ==
  ASSUME GuestShapes, NEW v \in Visitors, NEW pc \in GuestSteps, Guests_!To(v, pc)
  PROVE  /\ g_req' \in [Visitors -> GuestSteps] /\ g_req'[v] = pc
         /\ \A w \in Visitors : w # v => g_req'[w] = g_req[w]
BY DEF GuestShapes, Guests_!To

(* One request less, one more, or the same ones have been let through.      *)
LEMMA InsideGoes ==
  ASSUME NEW v \in Visitors, \A w \in Visitors : w # v => g_req'[w] = g_req[w]
  PROVE  /\ Cardinality(Inside') \in Nat /\ Cardinality(Inside') =< Cardinality(Visitors)
         /\ v \notin Inside' => Cardinality(Inside') =< Cardinality(Inside)
         /\ v \in Inside => Cardinality(Inside') =< Cardinality(Inside)
         /\ v \in Inside /\ v \notin Inside' => Cardinality(Inside') = Cardinality(Inside) - 1
<1>1. Inside' \subseteq Visitors /\ Inside' \subseteq Inside \cup {v}
  BY DEF Inside
<1>2. IsFiniteSet(Inside') /\ Cardinality(Inside') \in Nat
      /\ Cardinality(Inside') =< Cardinality(Visitors)
  BY <1>1, GuestsBounds, FS_Subset, FS_CardinalityType
<1>3. v \notin Inside' \/ v \in Inside => Inside' \subseteq Inside
  BY <1>1
<1>4. v \notin Inside' \/ v \in Inside => Cardinality(Inside') =< Cardinality(Inside)
  BY <1>3, InsideIsFinite, FS_Subset
<1>5. v \in Inside /\ v \notin Inside' => Inside' = Inside \ {v}
  BY DEF Inside
<1>6. v \in Inside /\ v \notin Inside' => Cardinality(Inside') = Cardinality(Inside) - 1
  BY <1>5, InsideIsFinite, FS_RemoveElement
<1> QED BY <1>2, <1>4, <1>6

(* The steps that leave the throttle alone.                                 *)
LEMMA ThrottleStays ==
  ASSUME GuestsInv, UNCHANGED <<g_count, g_left, g_guesses>>
  PROVE  /\ g_count' \in [Guests_!Keys -> Nat] /\ g_left' \in [Guests_!Keys -> 0 .. DECAY]
         /\ \A k \in Guests_!Keys : g_count'[k] > 0 <=> g_left'[k] > 0
         /\ g_guesses' = g_count'["target"] /\ MapIsBounded'
BY DEF GuestsInv, GuestShapes, MapIsBounded, Guests_!Tracked
LEMMA GuestsInit == Guests_!Init => GuestsInv
<1> SUFFICES ASSUME Guests_!Init PROVE GuestsInv
  OBVIOUS
<1>1. GuestShapes
  BY GuestsBounds, KeysOf
  DEF GuestShapes, Guests_!Init, GuestSteps, Guests_!Idle
<1>2. Guests_!Tracked = {}
  BY DEF Guests_!Tracked, Guests_!Init
<1>3. Cardinality(Guests_!Tracked) = 0
  BY <1>2, FS_EmptySet
<1>4. g_count["target"] = 0
  BY KeysOf DEF Guests_!Init
<1> QED
  BY <1>1, <1>3, <1>4, GuestsBounds, InsideIsFinite DEF GuestsInv, MapIsBounded, InsideIsBounded

(* A step of one visitor that leaves the throttle alone.                    *)
LEMMA VisitorStep ==
  ASSUME GuestsInv, NEW v \in Visitors, NEW pc \in GuestSteps, Guests_!To(v, pc),
         UNCHANGED <<g_count, g_left, g_guesses, g_expires>>,
         g_cookie' \in [Visitors -> 0 .. MAX_COOKIE],
         pc \in {"delayed", "load", "compare"} => v \in Inside
         \/ g_count["target"] < LOCK_ATTEMPTS
  PROVE  GuestsInv'
<1>0. /\ GuestShapes /\ InsideIsBounded /\ g_count["target"] \in Nat
         /\ LOCK_ATTEMPTS \in Nat \ {0}
      /\ g_count'["target"] = g_count["target"]
  BY KeysOf, GuestsBounds DEF GuestsInv, GuestShapes
<1>1. /\ g_req' \in [Visitors -> GuestSteps] /\ g_req'[v] = pc
      /\ \A w \in Visitors : w # v => g_req'[w] = g_req[w]
  BY <1>0, GuestGoes
<1>2. GuestShapes' /\ MapIsBounded'
  BY <1>0, <1>1, ThrottleStays DEF GuestShapes
<1>3. InsideIsBounded'
  <2>1. CASE v \in Inside \/ pc \notin {"delayed", "load", "compare"}
    <3>1. Cardinality(Inside') =< Cardinality(Inside) /\ Cardinality(Inside') \in Nat
      BY <1>1, <2>1, InsideGoes DEF Inside
    <3> QED BY <1>0, <3>1, InsideIsFinite DEF InsideIsBounded
  <2>2. CASE g_count["target"] < LOCK_ATTEMPTS
    <3>1. Cardinality(Inside') =< Cardinality(Visitors) /\ Cardinality(Inside') \in Nat
      BY <1>1, InsideGoes
    <3> QED BY <1>0, <2>2, <3>1, InsideIsFinite DEF InsideIsBounded
  <2> QED BY <2>1, <2>2
<1> QED BY <1>2, <1>3 DEF GuestsInv

LEMMA GuestsStep == GuestsInv /\ [Guests_!Next]_guestsVars => GuestsInv'
<1> SUFFICES ASSUME GuestsInv, [Guests_!Next]_guestsVars PROVE GuestsInv'
  OBVIOUS
<1>0. /\ GuestShapes /\ MapIsBounded /\ InsideIsBounded
      /\ g_count["target"] \in Nat /\ LOCK_ATTEMPTS \in Nat \ {0}
      /\ g_cookie \in [Visitors -> 0 .. MAX_COOKIE] /\ g_expires \in Nat /\ MAX_COOKIE \in Nat
  BY KeysOf, GuestsBounds DEF GuestsInv, GuestShapes
<1>1. CASE UNCHANGED guestsVars
  BY <1>1 DEF GuestsInv, GuestShapes, MapIsBounded, InsideIsBounded, Inside, Guests_!Tracked,
      guestsVars
<1>2. CASE Guests_!Tick
  <2>1. /\ g_left' = [k \in Guests_!Keys |-> IF g_left[k] > 0 THEN g_left[k] - 1 ELSE 0]
        /\ g_count' = [k \in Guests_!Keys |-> IF g_left[k] =< 1 THEN 0 ELSE g_count[k]]
        /\ g_guesses' = IF g_left["target"] =< 1 THEN 0 ELSE g_guesses
        /\ g_expires' = IF g_expires > 0 THEN g_expires - 1 ELSE 0
        /\ g_cookie' = [v \in Visitors |-> IF g_cookie[v] > 0 THEN g_cookie[v] - 1 ELSE 0]
        /\ g_req' = g_req
    BY <1>2 DEF Guests_!Tick, Guests_!Aged, Guests_!Target
  <2>2. /\ g_left \in [Guests_!Keys -> 0 .. DECAY] /\ g_count \in [Guests_!Keys -> Nat]
        /\ DECAY \in Nat /\ g_guesses = g_count["target"] /\ "target" \in Guests_!Keys
        /\ \A k \in Guests_!Keys : g_count[k] > 0 <=> g_left[k] > 0
    BY <1>0, GuestsBounds, KeysOf DEF GuestShapes
  <2>3. g_left' \in [Guests_!Keys -> 0 .. DECAY] /\ g_count' \in [Guests_!Keys -> Nat]
    BY <2>1, <2>2
  <2>4. \A k \in Guests_!Keys : g_count'[k] > 0 <=> g_left'[k] > 0
    BY <2>1, <2>2
  <2>5. g_guesses' = g_count'["target"] /\ g_count'["target"] =< g_count["target"]
        /\ g_count'["target"] \in Nat
    BY <2>1, <2>2
  <2>6. g_cookie' \in [Visitors -> 0 .. MAX_COOKIE] /\ g_expires' \in Nat
    BY <1>0, <2>1
  <2>7. GuestShapes'
    BY <1>0, <2>1, <2>3, <2>4, <2>5, <2>6 DEF GuestShapes
  <2>8. MapIsBounded'
    <3>1. Guests_!Tracked' \subseteq Guests_!Tracked
      BY <2>1, <2>2 DEF Guests_!Tracked
    <3>2. Cardinality(Guests_!Tracked') =< Cardinality(Guests_!Tracked)
          /\ Cardinality(Guests_!Tracked') \in Nat
      BY <3>1, TrackedIsFinite, FS_Subset, FS_CardinalityType
    <3> QED BY <1>0, <3>2, TrackedIsFinite, GuestsBounds DEF MapIsBounded
  <2>9. Inside' = Inside
    BY <2>1 DEF Inside
  <2> QED
    BY <1>0, <2>5, <2>7, <2>8, <2>9, InsideIsFinite DEF GuestsInv, InsideIsBounded
<1>3. CASE Guests_!Elsewhere
  <2>1. PICK k \in Others : Guests_!RecordFailure(k)
    BY <1>3 DEF Guests_!Elsewhere
  <2>2. /\ k \in Guests_!Keys /\ k # "target" /\ UNCHANGED <<g_expires, g_cookie, g_req>>
    BY <1>3, KeysOf DEF Guests_!Elsewhere
  <2>3. /\ GuestShapes' /\ MapIsBounded' /\ g_count'["target"] =< g_count["target"]
        /\ g_count'["target"] \in Nat
    BY <1>0, <2>1, <2>2, FailureCounted, KeysOf DEF GuestShapes
  <2>4. Inside' = Inside
    BY <2>2 DEF Inside
  <2> QED BY <1>0, <2>3, <2>4, InsideIsFinite DEF GuestsInv, InsideIsBounded
<1>4. CASE Guests_!Revoke
  <2>1. UNCHANGED <<g_count, g_left, g_guesses, g_expires, g_cookie, g_req>>
    BY <1>4 DEF Guests_!Revoke, Guests_!throttleVars
  <2> QED BY <2>1 DEF GuestsInv, GuestShapes, MapIsBounded, InsideIsBounded, Inside,
                      Guests_!Tracked
<1>5. ASSUME NEW v \in Visitors, Guests_!Check(v) PROVE GuestsInv'
  <2> DEFINE pc == IF g_count["target"] >= FREE_ATTEMPTS THEN "delayed" ELSE "load"
  <2>1. /\ Guests_!To(v, pc) /\ g_count["target"] < LOCK_ATTEMPTS
        /\ UNCHANGED <<g_count, g_left, g_guesses, g_expires, g_cookie>>
    BY <1>5 DEF Guests_!Check, Guests_!throttleVars, Guests_!Target
  <2>2. pc \in GuestSteps
    BY DEF GuestSteps
  <2> HIDE DEF pc
  <2> QED BY <1>0, <2>1, <2>2, VisitorStep
<1>6. ASSUME NEW v \in Visitors, Guests_!Slept(v) PROVE GuestsInv'
  <2>1. /\ Guests_!To(v, "load") /\ v \in Inside /\ "load" \in GuestSteps
        /\ UNCHANGED <<g_count, g_left, g_guesses, g_expires, g_cookie>>
    BY <1>6 DEF Guests_!Slept, Guests_!throttleVars, Inside, GuestSteps
  <2> QED BY <1>0, <2>1, VisitorStep
<1>7. ASSUME NEW v \in Visitors, Guests_!Load(v) PROVE GuestsInv'
  <2> DEFINE pc == IF Guests_!Available THEN "compare" ELSE "idle"
  <2>1. /\ Guests_!To(v, pc) /\ v \in Inside
        /\ UNCHANGED <<g_count, g_left, g_guesses, g_expires, g_cookie>>
    BY <1>7 DEF Guests_!Load, Guests_!throttleVars, Inside, Guests_!Idle
  <2>2. pc \in GuestSteps
    BY DEF GuestSteps
  <2> HIDE DEF pc
  <2> QED BY <1>0, <2>1, <2>2, VisitorStep
<1>8. ASSUME NEW v \in Visitors, Guests_!Wrong(v) PROVE GuestsInv'
  <2>1. /\ Guests_!To(v, "idle") /\ v \in Inside /\ "idle" \in GuestSteps
        /\ Guests_!RecordFailure("target") /\ UNCHANGED <<g_expires, g_cookie>>
    BY <1>8 DEF Guests_!Wrong, Inside, GuestSteps, Guests_!Idle, Guests_!Target
  <2>2. /\ g_req' \in [Visitors -> GuestSteps] /\ g_req'[v] = "idle"
        /\ \A w \in Visitors : w # v => g_req'[w] = g_req[w]
    BY <1>0, <2>1, GuestGoes
  <2>3. /\ GuestShapes' /\ MapIsBounded' /\ g_count'["target"] = g_count["target"] + 1
    BY <1>0, <2>1, <2>2, FailureCounted, KeysOf DEF GuestShapes
  <2>4. v \notin Inside'
    BY <2>2 DEF Inside
  <2>5. Cardinality(Inside') = Cardinality(Inside) - 1
    BY <2>1, <2>2, <2>4, InsideGoes
  <2> QED BY <1>0, <2>3, <2>5, InsideIsFinite DEF GuestsInv, InsideIsBounded
<1>9. ASSUME NEW v \in Visitors, Guests_!Unlock(v) PROVE GuestsInv'
  <2>1. /\ Guests_!To(v, "idle") /\ "idle" \in GuestSteps /\ g_expires' = g_expires
        /\ g_count' = [g_count EXCEPT !["target"] = 0]
        /\ g_left' = [g_left EXCEPT !["target"] = 0] /\ g_guesses' = 0
        /\ g_cookie' = [g_cookie EXCEPT ![v] = IF Guests_!MaxAge > 0 THEN Guests_!MaxAge ELSE @]
    BY <1>9 DEF Guests_!Unlock, Guests_!RecordSuccess, GuestSteps, Guests_!Idle, Guests_!Target
  <2>2. /\ g_req' \in [Visitors -> GuestSteps] /\ g_req'[v] = "idle"
        /\ \A w \in Visitors : w # v => g_req'[w] = g_req[w]
    BY <1>0, <2>1, GuestGoes
  <2>3. g_cookie' \in [Visitors -> 0 .. MAX_COOKIE]
    BY <1>0, <2>1 DEF Guests_!MaxAge
  <2>4. /\ g_left \in [Guests_!Keys -> 0 .. DECAY] /\ g_count \in [Guests_!Keys -> Nat]
        /\ DECAY \in Nat /\ "target" \in Guests_!Keys
        /\ \A k \in Guests_!Keys : g_count[k] > 0 <=> g_left[k] > 0
    BY <1>0, GuestsBounds, KeysOf DEF GuestShapes
  <2>5. /\ g_left' \in [Guests_!Keys -> 0 .. DECAY] /\ g_count' \in [Guests_!Keys -> Nat]
        /\ \A k \in Guests_!Keys : g_count'[k] > 0 <=> g_left'[k] > 0
        /\ g_guesses' = g_count'["target"] /\ g_count'["target"] = 0
    BY <2>1, <2>4
  <2>6. GuestShapes'
    BY <1>0, <2>1, <2>2, <2>3, <2>5 DEF GuestShapes
  <2>7. MapIsBounded'
    <3>1. Guests_!Tracked' \subseteq Guests_!Tracked
      BY <2>1, <2>4 DEF Guests_!Tracked
    <3>2. Cardinality(Guests_!Tracked') =< Cardinality(Guests_!Tracked)
          /\ Cardinality(Guests_!Tracked') \in Nat
      BY <3>1, TrackedIsFinite, FS_Subset, FS_CardinalityType
    <3> QED BY <1>0, <3>2, TrackedIsFinite, GuestsBounds DEF MapIsBounded
  <2>8. Cardinality(Inside') =< Cardinality(Visitors) /\ Cardinality(Inside') \in Nat
    BY <2>2, InsideGoes
  <2> QED BY <1>0, <2>5, <2>6, <2>7, <2>8, InsideIsFinite DEF GuestsInv, InsideIsBounded
<1>10. ASSUME NEW v \in Visitors, Guests_!Gate(v) PROVE GuestsInv'
  <2>1. /\ Guests_!To(v, "serving") /\ "serving" \in GuestSteps
        /\ UNCHANGED <<g_count, g_left, g_guesses, g_expires, g_cookie>>
    BY <1>10 DEF Guests_!Gate, Guests_!throttleVars, GuestSteps
  <2> QED BY <1>0, <2>1, VisitorStep
<1>11. ASSUME NEW v \in Visitors, Guests_!Served(v) \/ Guests_!HangUp(v) PROVE GuestsInv'
  <2>1. /\ Guests_!To(v, "idle") /\ "idle" \in GuestSteps
        /\ UNCHANGED <<g_count, g_left, g_guesses, g_expires, g_cookie>>
    BY <1>11 DEF Guests_!Served, Guests_!HangUp, Guests_!throttleVars, GuestSteps, Guests_!Idle
  <2> QED BY <1>0, <2>1, VisitorStep
<1> QED
  BY <1>1, <1>2, <1>3, <1>4, <1>5, <1>6, <1>7, <1>8, <1>9, <1>10, <1>11 DEF Guests_!Next

LEMMA GuessesHold == GuestsInv => ThrottleHolds
<1> SUFFICES ASSUME GuestsInv PROVE ThrottleHolds
  OBVIOUS
<1>1. Guests_!TypeOK
  BY GuestsCount DEF GuestsInv, GuestShapes, MapIsBounded, Guests_!TypeOK
<1>2. Guests_!GuessesAreBounded
  BY GuestsCount, GuestsBounds, InsideIsFinite, KeysOf
  DEF GuestsInv, GuestShapes, InsideIsBounded, Guests_!GuessesAreBounded
<1> QED BY <1>1, <1>2 DEF ThrottleHolds, Guests_!ThrottleHolds

LEMMA LinkKeepsEnd == GuestsInv /\ [Guests_!Next]_guestsVars => Guests_!KeepsEnd
<1> SUFFICES ASSUME GuestsInv, [Guests_!Next]_guestsVars, NEW v \in Visitors
             PROVE  /\ g_req[v] # "serving" /\ g_req'[v] = "serving" => Guests_!Available
                    /\ g_cookie'[v] > g_cookie[v] => g_cookie'[v] =< g_expires
  BY DEF Guests_!KeepsEnd
<1>0. /\ GuestShapes /\ g_cookie \in [Visitors -> 0 .. MAX_COOKIE] /\ g_expires \in Nat
      /\ g_req \in [Visitors -> GuestSteps] /\ MAX_COOKIE \in Nat
  BY GuestsBounds DEF GuestsInv, GuestShapes
<1>1. g_req[v] # "serving" /\ g_req'[v] = "serving" => \E w \in Visitors : Guests_!Gate(w)
  BY <1>0
  DEF Guests_!Next, Guests_!Tick, Guests_!Elsewhere, Guests_!Revoke, Guests_!Check,
      Guests_!Slept,
      Guests_!Load, Guests_!Wrong, Guests_!Unlock, Guests_!Served, Guests_!HangUp, Guests_!To,
      Guests_!Idle, guestsVars
<1>2. CASE Guests_!Tick
  <2>1. g_cookie'[v] = IF g_cookie[v] > 0 THEN g_cookie[v] - 1 ELSE 0
    BY <1>2 DEF Guests_!Tick, Guests_!Aged
  <2>2. g_cookie[v] \in Nat
    BY <1>0
  <2>3. ~(g_cookie'[v] > g_cookie[v])
    BY <2>1, <2>2
  <2> QED BY <1>1, <2>3 DEF Guests_!Gate
<1>3. ASSUME NEW w \in Visitors, Guests_!Unlock(w)
      PROVE  g_cookie'[v] > g_cookie[v] => g_cookie'[v] =< g_expires
  <2>1. g_cookie' = [g_cookie EXCEPT ![w] = IF Guests_!MaxAge > 0 THEN Guests_!MaxAge ELSE @]
    BY <1>3 DEF Guests_!Unlock
  <2>2. Guests_!MaxAge \in Nat /\ Guests_!MaxAge =< g_expires /\ g_cookie[v] \in Nat
    BY <1>0 DEF Guests_!MaxAge
  <2> QED BY <1>0, <2>1, <2>2
<1>4. CASE UNCHANGED g_cookie
  <2>1. g_cookie'[v] = g_cookie[v] /\ g_cookie[v] \in Nat
    BY <1>0, <1>4
  <2>2. ~(g_cookie'[v] > g_cookie[v])
    BY <2>1
  <2> QED BY <1>1, <2>2 DEF Guests_!Gate
<1>5. Guests_!Tick \/ (\E w \in Visitors : Guests_!Unlock(w)) \/ UNCHANGED g_cookie
  BY DEF Guests_!Next, Guests_!Elsewhere, Guests_!Revoke, Guests_!Check, Guests_!Slept,
         Guests_!Load, Guests_!Wrong, Guests_!Gate, Guests_!Served, Guests_!HangUp, guestsVars
<1> QED BY <1>1, <1>2, <1>3, <1>4, <1>5 DEF Guests_!Gate

-----------------------------------------------------------------------------
(* The certificate.  The inductive invariant.                               *)

CertTasks == {"boot", "selfCert", "selfKey", "dead", "check", "woken", "order", "key",
  "finalize",
              "saveCert", "saveKey", "reload", "sleep", "backoff"}
Names == Addresses \cup {"none"}
CertType == [ca : BOOLEAN, id : Names, key : Int, left : 0 .. LIFE]

CertShapes ==
    /\ c_address \in Addresses /\ c_identity \in Names /\ c_task \in CertTasks
    /\ c_cert \in CertType /\ c_new \in CertType
    /\ c_key \in Nat \cup {-1, -2}
    /\ c_served \in [cert : CertType, key : Int]
    /\ c_keys \in Nat \ {0} /\ c_faults \in 0 .. MaxCertFaults /\ c_late \in BOOLEAN

(* A key is made for every start without one, and once where the operator's *)
(* own cannot be read: each of the others took a fault.                     *)
KeysAreFew ==
    /\ c_keys =< c_faults + 2
    /\ c_key = 0 /\ c_task \notin {"selfCert", "selfKey"} => c_keys =< c_faults + 1
    /\ c_key = -2 => c_keys = 1

(* The files: without a key there is nothing to serve, and a certificate    *)
(* that can be read is the one of the key that can be read.                 *)
FilesAgree ==
    /\ c_cert = Certs_!NoCert => c_key = 0
    /\ c_key = 0 => c_task \in {"boot", "selfCert", "selfKey", "dead"}
    /\ c_key = -1 => c_task \in {"boot", "dead"}
    /\ c_task \in {"selfCert", "selfKey"} => c_key = 0
    /\ c_cert.key > 0 /\ c_key \notin {0, -1} => c_cert.key = c_key

(* The certificate under way.                                               *)
UnderWay ==
    /\ c_task \in {"selfCert", "selfKey"} => ~c_new.ca /\ c_new.key > 0 /\ c_new.left = LIFE
    /\ c_task \in {"key", "finalize", "saveCert", "saveKey", "reload"} =>
          c_new.ca /\ c_new.left = LIFE
    /\ c_task \in {"finalize", "saveCert", "saveKey", "reload"} => c_new.key = c_key
       /\ c_key > 0
    /\ c_task \in {"selfKey", "saveKey", "reload"} => c_cert = c_new

(* What the listeners show.                                                 *)
ServedAgrees ==
    Certs_!Serving =>
        /\ c_served.cert # Certs_!NoCert /\ c_served.cert.key # -1 /\ c_served.key # -1
        /\ c_served.key > 0 => c_key = c_served.key
        /\ c_served.cert.key > 0 => c_served.cert.key = c_served.key
        /\ ~c_late /\ c_task \notin {"saveKey", "reload"} => c_served.cert = c_cert

InTime ==
    /\ ~c_late /\ c_cert.ca => c_cert.left > 0
    /\ ~c_late /\ Certs_!Serving /\ c_served.cert.ca => c_served.cert.left > 0
    /\ c_task = "sleep" => c_cert.ca /\ c_cert.left > RENEW_BEFORE_EXPIRY

CertsInv == CertShapes /\ KeysAreFew /\ FilesAgree /\ UnderWay /\ ServedAgrees /\ InTime

-----------------------------------------------------------------------------

LEMMA CertsBounds ==
  /\ "none" \notin Addresses /\ LIFE \in Nat /\ RENEW_BEFORE_EXPIRY \in Nat \ {0}
  /\ RENEW_BEFORE_EXPIRY < LIFE /\ MaxCertFaults \in Nat
BY AgentsAssumption DEF AgentsAssumption

LEMMA CertsBootStep == CertsInv /\ Certs_!Boot => CertsInv'
<1> SUFFICES ASSUME CertsInv, Certs_!Boot PROVE CertsInv'
  OBVIOUS
<1>0. CertShapes /\ KeysAreFew /\ FilesAgree /\ UnderWay /\ ServedAgrees /\ InTime
  BY DEF CertsInv
<1> USE CertsBounds DEF Certs_!Boot, Certs_!Fault, Certs_!NoCert, Certs_!disk, Certs_!Nil
<1>1. CertShapes'
  <2>1. c_cert' \in CertType /\ c_new' \in CertType
    <3>1. c_identity' \in Names
      BY <1>0 DEF CertShapes, Names
    <3>2. [ca |-> FALSE, id |-> c_identity', key |-> c_keys + 1, left |-> LIFE] \in CertType
      BY <1>0, <3>1 DEF CertShapes, CertType
    <3> QED BY <1>0, <3>2 DEF CertShapes
  <2>2. c_served' \in [cert : CertType, key : Int]
    BY <1>0 DEF CertShapes
  <2>3. /\ c_address' \in Addresses /\ c_identity' \in Names /\ c_task' \in CertTasks
        /\ c_key' \in Nat \cup {-1, -2} /\ c_keys' \in Nat \ {0}
        /\ c_faults' \in 0 .. MaxCertFaults /\ c_late' \in BOOLEAN
    BY <1>0 DEF CertShapes, CertTasks, Names
  <2> QED BY <2>1, <2>2, <2>3 DEF CertShapes
<1>2. KeysAreFew'
  BY <1>0 DEF CertShapes, KeysAreFew, FilesAgree
<1>3. FilesAgree'
  BY <1>0 DEF FilesAgree, Certs_!Torn, Certs_!Readable
<1>4. UnderWay'
  BY <1>0 DEF CertShapes, UnderWay
<1>5. ServedAgrees'
  BY <1>0 DEF FilesAgree, ServedAgrees, Certs_!Serving, Certs_!Torn, Certs_!Readable
<1>6. InTime'
  BY <1>0 DEF InTime, Certs_!Serving
<1> QED BY <1>1, <1>2, <1>3, <1>4, <1>5, <1>6 DEF CertsInv

LEMMA CertsSelfCertStep == CertsInv /\ Certs_!SelfCert => CertsInv'
<1> SUFFICES ASSUME CertsInv, Certs_!SelfCert PROVE CertsInv'
  OBVIOUS
<1>0. CertShapes /\ KeysAreFew /\ FilesAgree /\ UnderWay /\ ServedAgrees /\ InTime
  BY DEF CertsInv
<1> USE CertsBounds DEF Certs_!SelfCert, Certs_!NoCert, Certs_!Nil
<1>1. CertShapes'
  BY <1>0 DEF CertShapes, CertTasks
<1>2. KeysAreFew'
  BY <1>0 DEF KeysAreFew
<1>3. FilesAgree'
  BY <1>0 DEF FilesAgree
<1>4. UnderWay'
  BY <1>0 DEF UnderWay
<1>5. ServedAgrees'
  BY <1>0 DEF ServedAgrees, Certs_!Serving
<1>6. InTime'
  BY <1>0 DEF UnderWay, InTime, Certs_!Serving
<1> QED BY <1>1, <1>2, <1>3, <1>4, <1>5, <1>6 DEF CertsInv

LEMMA CertsSelfKeyStep == CertsInv /\ Certs_!SelfKey => CertsInv'
<1> SUFFICES ASSUME CertsInv, Certs_!SelfKey PROVE CertsInv'
  OBVIOUS
<1>0. CertShapes /\ KeysAreFew /\ FilesAgree /\ UnderWay /\ ServedAgrees /\ InTime
  BY DEF CertsInv
<1> USE CertsBounds DEF Certs_!SelfKey, Certs_!NoCert, Certs_!Nil
<1>1. CertShapes'
  BY <1>0 DEF CertShapes, UnderWay, CertType, Names, CertTasks
<1>2. KeysAreFew'
  BY <1>0 DEF KeysAreFew, UnderWay
<1>3. FilesAgree'
  BY <1>0 DEF FilesAgree, UnderWay
<1>4. UnderWay'
  BY <1>0 DEF UnderWay
<1>5. ServedAgrees'
  BY <1>0 DEF UnderWay, ServedAgrees
<1>6. InTime'
  BY <1>0 DEF UnderWay, InTime
<1> QED BY <1>1, <1>2, <1>3, <1>4, <1>5, <1>6 DEF CertsInv

LEMMA CertsCheckStep == CertsInv /\ Certs_!Check => CertsInv'
<1> SUFFICES ASSUME CertsInv, Certs_!Check PROVE CertsInv'
  OBVIOUS
<1>0. CertShapes /\ KeysAreFew /\ FilesAgree /\ UnderWay /\ ServedAgrees /\ InTime
  BY DEF CertsInv
<1> USE CertsBounds DEF Certs_!Check, Certs_!NoCert, Certs_!disk, Certs_!Nil
<1>1. CertShapes'
  BY <1>0 DEF CertShapes, CertTasks
<1>2. KeysAreFew'
  BY <1>0 DEF KeysAreFew
<1>3. FilesAgree'
  BY <1>0 DEF FilesAgree
<1>4. UnderWay'
  BY <1>0 DEF UnderWay
<1>5. ServedAgrees'
  BY <1>0 DEF ServedAgrees, Certs_!Serving
<1>6. InTime'
  BY <1>0 DEF CertShapes, InTime, CertType, Certs_!Serving, Certs_!Due
<1> QED BY <1>1, <1>2, <1>3, <1>4, <1>5, <1>6 DEF CertsInv

LEMMA CertsOrderStep == CertsInv /\ Certs_!Order => CertsInv'
<1> SUFFICES ASSUME CertsInv, Certs_!Order PROVE CertsInv'
  OBVIOUS
<1>0. CertShapes /\ KeysAreFew /\ FilesAgree /\ UnderWay /\ ServedAgrees /\ InTime
  BY DEF CertsInv
<1> USE CertsBounds DEF Certs_!Order, Certs_!NoCert, Certs_!disk, Certs_!Nil
<1>1. CertShapes'
  BY <1>0 DEF CertShapes, CertType, CertTasks
<1>2. KeysAreFew'
  BY <1>0 DEF KeysAreFew
<1>3. FilesAgree'
  BY <1>0 DEF FilesAgree
<1>4. UnderWay'
  BY <1>0 DEF UnderWay
<1>5. ServedAgrees'
  BY <1>0 DEF ServedAgrees, Certs_!Serving
<1>6. InTime'
  BY <1>0 DEF InTime, Certs_!Serving
<1> QED BY <1>1, <1>2, <1>3, <1>4, <1>5, <1>6 DEF CertsInv

LEMMA CertsKeyStep == CertsInv /\ Certs_!Key => CertsInv'
<1> SUFFICES ASSUME CertsInv, Certs_!Key PROVE CertsInv'
  OBVIOUS
<1>0. CertShapes /\ KeysAreFew /\ FilesAgree /\ UnderWay /\ ServedAgrees /\ InTime
  BY DEF CertsInv
<1> USE CertsBounds DEF Certs_!Key, Certs_!NoCert, Certs_!Nil
<1>1. CertShapes'
  BY <1>0 DEF CertShapes, CertType, CertTasks
<1>2. KeysAreFew'
  BY <1>0 DEF CertShapes, KeysAreFew, FilesAgree
<1>3. FilesAgree'
  BY <1>0 DEF CertShapes, FilesAgree
<1>4. UnderWay'
  BY <1>0 DEF CertShapes, UnderWay
<1>5. ServedAgrees'
  BY <1>0 DEF ServedAgrees, Certs_!Serving
<1>6. InTime'
  BY <1>0 DEF InTime, Certs_!Serving
<1> QED BY <1>1, <1>2, <1>3, <1>4, <1>5, <1>6 DEF CertsInv

LEMMA CertsFinalizeStep == CertsInv /\ Certs_!Finalize => CertsInv'
<1> SUFFICES ASSUME CertsInv, Certs_!Finalize PROVE CertsInv'
  OBVIOUS
<1>0. CertShapes /\ KeysAreFew /\ FilesAgree /\ UnderWay /\ ServedAgrees /\ InTime
  BY DEF CertsInv
<1> USE CertsBounds DEF Certs_!Finalize, Certs_!NoCert, Certs_!disk, Certs_!Nil
<1>1. CertShapes'
  BY <1>0 DEF CertShapes, CertTasks
<1>2. KeysAreFew'
  BY <1>0 DEF KeysAreFew
<1>3. FilesAgree'
  BY <1>0 DEF FilesAgree
<1>4. UnderWay'
  BY <1>0 DEF UnderWay
<1>5. ServedAgrees'
  BY <1>0 DEF ServedAgrees, Certs_!Serving
<1>6. InTime'
  BY <1>0 DEF InTime, Certs_!Serving
<1> QED BY <1>1, <1>2, <1>3, <1>4, <1>5, <1>6 DEF CertsInv

LEMMA CertsSaveCertStep == CertsInv /\ Certs_!SaveCert => CertsInv'
<1> SUFFICES ASSUME CertsInv, Certs_!SaveCert PROVE CertsInv'
  OBVIOUS
<1>0. CertShapes /\ KeysAreFew /\ FilesAgree /\ UnderWay /\ ServedAgrees /\ InTime
  BY DEF CertsInv
<1> USE CertsBounds DEF Certs_!SaveCert, Certs_!NoCert, Certs_!Nil
<1>1. CertShapes'
  BY <1>0 DEF CertShapes, CertTasks
<1>2. KeysAreFew'
  BY <1>0 DEF KeysAreFew
<1>3. FilesAgree'
  BY <1>0 DEF FilesAgree, UnderWay
<1>4. UnderWay'
  BY <1>0 DEF UnderWay
<1>5. ServedAgrees'
  BY <1>0 DEF ServedAgrees, Certs_!Serving
<1>6. InTime'
  BY <1>0 DEF UnderWay, InTime, Certs_!Serving
<1> QED BY <1>1, <1>2, <1>3, <1>4, <1>5, <1>6 DEF CertsInv

LEMMA CertsSaveKeyStep == CertsInv /\ Certs_!SaveKey => CertsInv'
<1> SUFFICES ASSUME CertsInv, Certs_!SaveKey PROVE CertsInv'
  OBVIOUS
<1>0. CertShapes /\ KeysAreFew /\ FilesAgree /\ UnderWay /\ ServedAgrees /\ InTime
  BY DEF CertsInv
<1> USE CertsBounds DEF Certs_!SaveKey, Certs_!NoCert, Certs_!Nil
<1>1. CertShapes'
  BY <1>0 DEF CertShapes, UnderWay, CertTasks
<1>2. KeysAreFew'
  BY <1>0 DEF KeysAreFew, UnderWay
<1>3. FilesAgree'
  BY <1>0 DEF FilesAgree, UnderWay
<1>4. UnderWay'
  BY <1>0 DEF UnderWay
<1>5. ServedAgrees'
  BY <1>0 DEF UnderWay, ServedAgrees, Certs_!Serving
<1>6. InTime'
  BY <1>0 DEF InTime, Certs_!Serving
<1> QED BY <1>1, <1>2, <1>3, <1>4, <1>5, <1>6 DEF CertsInv

LEMMA CertsReloadStep == CertsInv /\ Certs_!Reload => CertsInv'
<1> SUFFICES ASSUME CertsInv, Certs_!Reload PROVE CertsInv'
  OBVIOUS
<1>0. CertShapes /\ KeysAreFew /\ FilesAgree /\ UnderWay /\ ServedAgrees /\ InTime
  BY DEF CertsInv
<1> USE CertsBounds DEF Certs_!Reload, Certs_!NoCert, Certs_!disk, Certs_!Nil
<1>1. CertShapes'
  <2>1. c_cert' \in CertType /\ c_new' \in CertType
    BY <1>0 DEF CertShapes, CertType, Names
  <2>2. c_served' \in [cert : CertType, key : Int]
    BY <1>0 DEF CertShapes, UnderWay
  <2>3. /\ c_address' \in Addresses /\ c_identity' \in Names /\ c_task' \in CertTasks
        /\ c_key' \in Nat \cup {-1, -2} /\ c_keys' \in Nat \ {0}
        /\ c_faults' \in 0 .. MaxCertFaults /\ c_late' \in BOOLEAN
    BY <1>0 DEF CertShapes, CertTasks
  <2> QED BY <2>1, <2>2, <2>3 DEF CertShapes
<1>2. KeysAreFew'
  BY <1>0 DEF KeysAreFew
<1>3. FilesAgree'
  BY <1>0 DEF FilesAgree
<1>4. UnderWay'
  BY <1>0 DEF UnderWay
<1>5. ServedAgrees'
  BY <1>0 DEF UnderWay, ServedAgrees
<1>6. InTime'
  BY <1>0 DEF UnderWay, InTime
<1> QED BY <1>1, <1>2, <1>3, <1>4, <1>5, <1>6 DEF CertsInv

LEMMA CertsIssueFailsStep == CertsInv /\ Certs_!IssueFails => CertsInv'
<1> SUFFICES ASSUME CertsInv, Certs_!IssueFails PROVE CertsInv'
  OBVIOUS
<1>0. CertShapes /\ KeysAreFew /\ FilesAgree /\ UnderWay /\ ServedAgrees /\ InTime
  BY DEF CertsInv
<1> USE CertsBounds DEF Certs_!IssueFails, Certs_!Fault, Certs_!NoCert, Certs_!disk, Certs_!Nil
<1>1. CertShapes'
  BY <1>0 DEF CertShapes, CertType, Names, CertTasks
<1>2. KeysAreFew'
  BY <1>0 DEF CertShapes, KeysAreFew
<1>3. FilesAgree'
  BY <1>0 DEF FilesAgree
<1>4. UnderWay'
  BY <1>0 DEF UnderWay
<1>5. ServedAgrees'
  BY <1>0 DEF ServedAgrees, Certs_!Serving
<1>6. InTime'
  BY <1>0 DEF InTime, Certs_!Serving
<1> QED BY <1>1, <1>2, <1>3, <1>4, <1>5, <1>6 DEF CertsInv

LEMMA CertsRetryStep == CertsInv /\ Certs_!Retry => CertsInv'
<1> SUFFICES ASSUME CertsInv, Certs_!Retry PROVE CertsInv'
  OBVIOUS
<1>0. CertShapes /\ KeysAreFew /\ FilesAgree /\ UnderWay /\ ServedAgrees /\ InTime
  BY DEF CertsInv
<1> USE CertsBounds DEF Certs_!Retry, Certs_!NoCert, Certs_!disk, Certs_!Nil
<1>1. CertShapes'
  BY <1>0 DEF CertShapes, CertTasks
<1>2. KeysAreFew'
  BY <1>0 DEF KeysAreFew
<1>3. FilesAgree'
  BY <1>0 DEF FilesAgree
<1>4. UnderWay'
  BY <1>0 DEF UnderWay
<1>5. ServedAgrees'
  BY <1>0 DEF ServedAgrees, Certs_!Serving
<1>6. InTime'
  BY <1>0 DEF InTime, Certs_!Serving
<1> QED BY <1>1, <1>2, <1>3, <1>4, <1>5, <1>6 DEF CertsInv

LEMMA CertsWokenStep == CertsInv /\ Certs_!Woken => CertsInv'
<1> SUFFICES ASSUME CertsInv, Certs_!Woken PROVE CertsInv'
  OBVIOUS
<1>0. CertShapes /\ KeysAreFew /\ FilesAgree /\ UnderWay /\ ServedAgrees /\ InTime
  BY DEF CertsInv
<1> USE CertsBounds DEF Certs_!Woken, Certs_!NoCert, Certs_!disk, Certs_!Nil
<1>1. CertShapes'
  BY <1>0 DEF CertShapes, CertTasks
<1>2. KeysAreFew'
  BY <1>0 DEF KeysAreFew
<1>3. FilesAgree'
  BY <1>0 DEF FilesAgree
<1>4. UnderWay'
  BY <1>0 DEF UnderWay
<1>5. ServedAgrees'
  BY <1>0 DEF ServedAgrees, Certs_!Serving
<1>6. InTime'
  BY <1>0 DEF InTime, Certs_!Serving
<1> QED BY <1>1, <1>2, <1>3, <1>4, <1>5, <1>6 DEF CertsInv

LEMMA CertsDayStep == CertsInv /\ Certs_!Day => CertsInv'
<1> SUFFICES ASSUME CertsInv, Certs_!Day PROVE CertsInv'
  OBVIOUS
<1>0. CertShapes /\ KeysAreFew /\ FilesAgree /\ UnderWay /\ ServedAgrees /\ InTime
  BY DEF CertsInv
<1> USE CertsBounds DEF Certs_!Day, Certs_!NoCert, Certs_!Nil
<1>1. CertShapes'
  <2>1. \A c \in CertType : Certs_!Older(c) \in CertType
    BY DEF CertType, Certs_!Older
  <2>2. c_cert' \in CertType /\ c_new' \in CertType
    BY <1>0, <2>1 DEF CertShapes
  <2>3. c_served' \in [cert : CertType, key : Int]
    BY <1>0, <2>1 DEF CertShapes
  <2>4. /\ c_address' \in Addresses /\ c_identity' \in Names /\ c_task' \in CertTasks
        /\ c_key' \in Nat \cup {-1, -2} /\ c_keys' \in Nat \ {0}
        /\ c_faults' \in 0 .. MaxCertFaults /\ c_late' \in BOOLEAN
    BY <1>0 DEF CertShapes, CertTasks
  <2> QED BY <2>2, <2>3, <2>4 DEF CertShapes
<1>2. KeysAreFew'
  BY <1>0 DEF KeysAreFew
<1>3. FilesAgree'
  BY <1>0 DEF FilesAgree, Certs_!Older
<1>4. UnderWay'
  BY <1>0 DEF UnderWay
<1>5. ServedAgrees'
  BY <1>0 DEF ServedAgrees, Certs_!Serving, Certs_!Older
<1>6. InTime'
  BY <1>0 DEF CertShapes, ServedAgrees, InTime, CertType, Certs_!Serving, Certs_!Older
<1> QED BY <1>1, <1>2, <1>3, <1>4, <1>5, <1>6 DEF CertsInv

LEMMA CertsMovesStep == CertsInv /\ Certs_!Moves => CertsInv'
<1> SUFFICES ASSUME CertsInv, Certs_!Moves PROVE CertsInv'
  OBVIOUS
<1>0. CertShapes /\ KeysAreFew /\ FilesAgree /\ UnderWay /\ ServedAgrees /\ InTime
  BY DEF CertsInv
<1> USE CertsBounds DEF Certs_!Moves, Certs_!NoCert, Certs_!disk, Certs_!Nil
<1>1. CertShapes'
  BY <1>0 DEF CertShapes
<1>2. KeysAreFew'
  BY <1>0 DEF KeysAreFew
<1>3. FilesAgree'
  BY <1>0 DEF FilesAgree
<1>4. UnderWay'
  BY <1>0 DEF UnderWay
<1>5. ServedAgrees'
  BY <1>0 DEF ServedAgrees, Certs_!Serving
<1>6. InTime'
  BY <1>0 DEF InTime, Certs_!Serving
<1> QED BY <1>1, <1>2, <1>3, <1>4, <1>5, <1>6 DEF CertsInv

LEMMA CertsWatchStep == CertsInv /\ Certs_!Watch => CertsInv'
<1> SUFFICES ASSUME CertsInv, Certs_!Watch PROVE CertsInv'
  OBVIOUS
<1>0. CertShapes /\ KeysAreFew /\ FilesAgree /\ UnderWay /\ ServedAgrees /\ InTime
  BY DEF CertsInv
<1> USE CertsBounds DEF Certs_!Watch, Certs_!NoCert, Certs_!disk, Certs_!Nil
<1>1. CertShapes'
  BY <1>0 DEF CertShapes, Names
<1>2. KeysAreFew'
  BY <1>0 DEF KeysAreFew
<1>3. FilesAgree'
  BY <1>0 DEF FilesAgree
<1>4. UnderWay'
  BY <1>0 DEF UnderWay
<1>5. ServedAgrees'
  BY <1>0 DEF ServedAgrees
<1>6. InTime'
  BY <1>0 DEF InTime
<1> QED BY <1>1, <1>2, <1>3, <1>4, <1>5, <1>6 DEF CertsInv

LEMMA CertsHandshakeStep == CertsInv /\ Certs_!Handshake => CertsInv'
<1> SUFFICES ASSUME CertsInv, Certs_!Handshake PROVE CertsInv'
  OBVIOUS
<1>0. CertShapes /\ KeysAreFew /\ FilesAgree /\ UnderWay /\ ServedAgrees /\ InTime
  BY DEF CertsInv
<1> USE CertsBounds DEF Certs_!Handshake, Certs_!NoCert, Certs_!disk, Certs_!Nil
<1>1. CertShapes'
  BY <1>0 DEF CertShapes
<1>2. KeysAreFew'
  BY <1>0 DEF KeysAreFew
<1>3. FilesAgree'
  BY <1>0 DEF FilesAgree
<1>4. UnderWay'
  BY <1>0 DEF UnderWay
<1>5. ServedAgrees'
  BY <1>0 DEF ServedAgrees
<1>6. InTime'
  BY <1>0 DEF InTime
<1> QED BY <1>1, <1>2, <1>3, <1>4, <1>5, <1>6 DEF CertsInv

LEMMA CertsKillStep == CertsInv /\ Certs_!Kill => CertsInv'
<1> SUFFICES ASSUME CertsInv, Certs_!Kill PROVE CertsInv'
  OBVIOUS
<1>0. CertShapes /\ KeysAreFew /\ FilesAgree /\ UnderWay /\ ServedAgrees /\ InTime
  BY DEF CertsInv
<1> USE CertsBounds DEF Certs_!Kill, Certs_!Fault, Certs_!NoCert, Certs_!disk, Certs_!Nil
<1>1. CertShapes'
  <2>1. c_cert' \in CertType /\ c_new' \in CertType
    <3>1. Certs_!NoCert \in CertType
      BY DEF CertType, Names
    <3>2. \A c \in CertType : [c EXCEPT !.key = -1] \in CertType
      BY DEF CertType
    <3> HIDE DEF Certs_!NoCert
    <3> QED BY <1>0, <3>1, <3>2 DEF CertShapes, Certs_!Torn
  <2>2. c_served' = [cert |-> Certs_!NoCert, key |-> 0] /\ Certs_!NoCert \in CertType
    BY DEF CertType, Names
  <2>3. c_served' \in [cert : CertType, key : Int]
    BY <2>2
  <2>4. /\ c_address' \in Addresses /\ c_identity' \in Names /\ c_task' \in CertTasks
        /\ c_key' \in Nat \cup {-1, -2} /\ c_keys' \in Nat \ {0}
        /\ c_faults' \in 0 .. MaxCertFaults /\ c_late' \in BOOLEAN
    BY <1>0 DEF CertShapes, CertTasks, Certs_!Torn
  <2> QED BY <2>1, <2>3, <2>4 DEF CertShapes
<1>2. KeysAreFew'
  BY <1>0 DEF CertShapes, KeysAreFew, Certs_!Torn
<1>3. FilesAgree'
  BY <1>0 DEF FilesAgree, UnderWay, Certs_!Torn
<1>4. UnderWay'
  BY <1>0 DEF UnderWay
<1>5. ServedAgrees'
  BY <1>0 DEF ServedAgrees, Certs_!Serving
<1>6. InTime'
  BY <1>0 DEF InTime
<1> QED BY <1>1, <1>2, <1>3, <1>4, <1>5, <1>6 DEF CertsInv

LEMMA CertsStep == CertsInv /\ [Certs_!Next]_certsVars => CertsInv'
<1> SUFFICES ASSUME CertsInv, [Certs_!Next]_certsVars PROVE CertsInv'
  OBVIOUS
<1>1. CASE UNCHANGED certsVars
  BY <1>1 DEF certsVars, CertsInv, CertShapes, KeysAreFew, FilesAgree, UnderWay, ServedAgrees,
      InTime, Certs_!Serving
<1>2. CASE UNCHANGED Certs_!vars
  <2>1. UNCHANGED certsVars
    BY <1>2 DEF Certs_!vars, Certs_!disk, certsVars
  <2> QED BY <1>1, <2>1
<1> QED
  BY <1>1, <1>2, CertsBootStep, CertsSelfCertStep, CertsSelfKeyStep, CertsCheckStep,
     CertsOrderStep,
     CertsKeyStep, CertsFinalizeStep, CertsSaveCertStep, CertsSaveKeyStep, CertsReloadStep,
     CertsIssueFailsStep, CertsRetryStep, CertsWokenStep, CertsDayStep, CertsMovesStep,
     CertsWatchStep, CertsHandshakeStep, CertsKillStep
  DEF Certs_!Next, Certs_!Steps

LEMMA CertsInit == Certs_!Init => CertsInv
<1> SUFFICES ASSUME Certs_!Init PROVE CertsInv
  OBVIOUS
<1>1. CertShapes
  <2>1. Certs_!NoCert \in CertType
    BY CertsBounds DEF CertType, Names, Certs_!NoCert, Certs_!Nil
  <2>2. /\ c_address \in Addresses
        /\ [ca |-> TRUE, id |-> c_address, key |-> 1, left |-> LIFE] \in CertType
        /\ [ca |-> TRUE, id |-> c_address, key |-> -2, left |-> LIFE] \in CertType
    BY CertsBounds DEF CertType, Names, Certs_!Init
  <2>3. c_cert \in CertType /\ c_key \in {0, 1, -2}
    BY <2>1, <2>2 DEF Certs_!Init
  <2>4. c_served \in [cert : CertType, key : Int] /\ c_new \in CertType
    BY <2>1 DEF Certs_!Init
  <2>5. c_identity \in Names /\ c_task \in CertTasks
    BY <2>2 DEF Certs_!Init, Names, CertTasks
  <2>6. c_keys = 1 /\ c_faults = 0
    BY DEF Certs_!Init
  <2>7. c_late \in BOOLEAN
    BY DEF Certs_!Init
  <2> QED BY <2>2, <2>3, <2>4, <2>5, <2>6, <2>7, CertsBounds DEF CertShapes
<1>2. KeysAreFew /\ FilesAgree /\ UnderWay /\ ServedAgrees /\ InTime
  BY CertsBounds DEF KeysAreFew, FilesAgree, UnderWay, ServedAgrees, InTime, Certs_!Init,
      Certs_!Serving, Certs_!NoCert, Certs_!Nil
<1> QED BY <1>1, <1>2 DEF CertsInv

LEMMA ServedStaysValid == CertsInv => Certs_!ServedIsValid
<1> SUFFICES ASSUME CertsInv PROVE Certs_!ServedIsValid
  OBVIOUS
<1>1. Certs_!TypeOK
  BY CertsBounds DEF CertsInv, CertShapes, KeysAreFew, ServedAgrees, CertType, Names,
     Certs_!TypeOK,
      Certs_!Torn, Certs_!Nil
<1>2. Certs_!NeverExpires
  BY DEF CertsInv, InTime, Certs_!NeverExpires
<1> QED BY <1>1, <1>2 DEF Certs_!ServedIsValid

(* The pinned key: only a reload puts another pair into the listeners that  *)
(* serve, and it has the key of the file.                                   *)
LEMMA PinStep ==
  CertsInv /\ CertsInv' /\ [Certs_!Next]_certsVars =>
      /\ Certs_!Serving /\ Certs_!Serving' /\ c_served.key > 0 => c_served'.key = c_served.key
      /\ Certs_!Serving' /\ c_served'.cert.key > 0 => c_served'.cert.key = c_served'.key
<1> SUFFICES ASSUME CertsInv, CertsInv', [Certs_!Next]_certsVars
             PROVE  /\ Certs_!Serving /\ Certs_!Serving' /\ c_served.key > 0
                          => c_served'.key = c_served.key
                    /\ Certs_!Serving' /\ c_served'.cert.key > 0
                          => c_served'.cert.key = c_served'.key
  OBVIOUS
<1>1. Certs_!Serving' /\ c_served'.cert.key > 0 => c_served'.cert.key = c_served'.key
  BY DEF CertsInv, ServedAgrees
<1>2. ASSUME Certs_!Serving, Certs_!Serving', c_served.key > 0
      PROVE  c_served'.key = c_served.key
  <2>1. CASE Certs_!Reload
    BY <1>2, <2>1 DEF CertsInv, ServedAgrees, UnderWay, Certs_!Reload
  <2>2. CASE Certs_!Day
    BY <2>2 DEF CertsInv, CertShapes, Certs_!Day
  <2>3. CASE UNCHANGED c_served
    BY <2>3
  <2> QED
    BY <1>2, <2>1, <2>2, <2>3
    DEF Certs_!Next, Certs_!Steps, Certs_!Serving, Certs_!vars, certsVars, Certs_!Boot,
        Certs_!SelfCert, Certs_!SelfKey, Certs_!Check, Certs_!Order, Certs_!Key,
        Certs_!Finalize,
        Certs_!SaveCert, Certs_!SaveKey, Certs_!IssueFails, Certs_!Retry, Certs_!Woken,
        Certs_!Moves, Certs_!Watch, Certs_!Handshake, Certs_!Kill
<1> QED BY <1>1, <1>2

-----------------------------------------------------------------------------
(* The update.  The inductive invariant.                                    *)

UpdateSteps == {"idle", "clear", "make", "open", "download", "unpack", "unpackUi", "layout",
                "clean", "uiAside", "uiIn", "binAside", "binIn", "sweep", "done", "fail"}
Versions == 0 .. MaxRelease
StageType == [dir : BOOLEAN, unpacked : BOOLEAN, archive : -1 .. MaxRelease, bin : Versions,
              ui : Versions]

UpdateShapes ==
    /\ u_latest \in 1 .. MaxRelease /\ u_version \in 1 .. u_latest
    /\ u_bin \in Versions /\ u_ui \in Versions /\ u_oldBin \in Versions /\ u_oldUi \in Versions
    /\ u_running \in Versions /\ u_exe \in {"bin", "old", "gone"}
    /\ u_stage \in StageType /\ u_torn \in BOOLEAN
    /\ u_at \in [Updates -> UpdateSteps] /\ u_want \in [Updates -> Versions]

(* Requests under way belong to the process that runs and to the release    *)
(* there is, and so does what they stage.                                   *)
OneRelease ==
    /\ \A r \in Updates : u_at[r] # "idle" => u_running # 0 /\ u_want[r] = u_latest
    /\ \A r \in Updates : u_at[r] \notin {"idle", "clear"} =>
          /\ u_stage.archive \in {-1, 0, u_latest}
          /\ u_stage.bin \in {0, u_latest} /\ u_stage.ui \in {0, u_latest}

Whole == u_bin # 0 /\ u_ui = u_bin

(* The version of the install, in the middle of a swap too.                 *)
Installed == IF u_bin # 0 THEN u_bin ELSE u_oldBin

(* Which entries there are at each rename of the one that swaps.            *)
SwapAt(r) ==
    /\ u_at[r] = "clean" => Whole
    /\ u_at[r] = "uiAside" => Whole /\ u_oldUi = 0
    /\ u_at[r] = "uiIn" => u_bin # 0 /\ u_ui = 0 /\ u_oldUi = u_bin
    /\ u_at[r] = "binAside" => u_bin # 0 /\ u_ui = u_latest /\ u_oldUi = u_bin
    /\ u_at[r] = "binIn" =>
          u_bin = 0 /\ u_oldBin # 0 /\ u_ui = u_latest /\ u_oldUi = u_oldBin
    /\ u_at[r] = "sweep" => u_bin = u_latest /\ u_ui = u_latest

SwapHolds ==
    ~u_torn =>
        /\ u_version =< Installed
        /\ \A r \in Updates : u_at[r] = "done" => Installed = u_latest
        /\ \A r, s \in Updates : Update_!InSwap(r) /\ Update_!InSwap(s) => r = s
        /\ (\A r \in Updates : ~Update_!InSwap(r)) => Whole
        /\ \A r \in Updates : SwapAt(r)

UpdateInv == UpdateShapes /\ OneRelease /\ SwapHolds

-----------------------------------------------------------------------------
LEMMA UpdateBounds == MaxRelease \in Nat \ {0} /\ InodePath \in BOOLEAN
BY AgentsAssumption DEF AgentsAssumption

(* Where a request goes.                                                    *)
LEMMA UpdateGoes ==
  ASSUME UpdateShapes, NEW r \in Updates, NEW step \in UpdateSteps, Update_!Goto(r, step)
  PROVE  /\ u_at' \in [Updates -> UpdateSteps] /\ u_at'[r] = step
         /\ \A s \in Updates : s # r => u_at'[s] = u_at[s]
BY DEF UpdateShapes, Update_!Goto

(* A request that does not swap, and does not begin to, leaves the install  *)
(* as it is.                                                                *)
LEMMA SwapStays ==
  ASSUME UpdateShapes, SwapHolds, NEW r \in Updates, NEW step \in UpdateSteps,
         Update_!Goto(r, step), ~Update_!InSwap(r),
         step \notin Update_!Swapping \cup {"done"},
         UNCHANGED <<u_latest, u_bin, u_ui, u_oldBin, u_oldUi, u_version, u_torn>>
  PROVE  SwapHolds'
<1>1. /\ u_at'[r] = step /\ \A s \in Updates : s # r => u_at'[s] = u_at[s]
  BY UpdateGoes
<1>2. \A s \in Updates : Update_!InSwap(s)' <=> Update_!InSwap(s)
  BY <1>1 DEF Update_!InSwap
<1>3. Installed' = Installed /\ (Whole' <=> Whole)
  BY DEF Installed, Whole
<1>4. ASSUME NEW s \in Updates, SwapAt(s) PROVE SwapAt(s)'
  <2>1. CASE s = r
    BY <1>1, <2>1 DEF SwapAt, Update_!Swapping
  <2>2. CASE s # r
    BY <1>1, <1>3, <1>4, <2>2 DEF SwapAt
  <2> QED BY <2>1, <2>2
<1> QED BY <1>1, <1>2, <1>3, <1>4 DEF SwapHolds

(* A rename by the one request that swaps.                                  *)
LEMMA SwapMoves ==
  ASSUME UpdateShapes, SwapHolds, NEW r \in Updates, NEW step \in UpdateSteps,
         Update_!Goto(r, step), Update_!InSwap(r),
         UNCHANGED <<u_latest, u_version>>, ~u_torn' => ~u_torn,
         ~u_torn' => /\ SwapAt(r)' /\ Installed' \in {Installed, u_latest}
                     /\ step \notin Update_!Swapping => Whole'
                     /\ step = "done" => Installed' = u_latest
  PROVE  SwapHolds'
<1> SUFFICES ASSUME ~u_torn' PROVE SwapHolds'
  BY DEF SwapHolds
<1>1. /\ u_at'[r] = step /\ \A s \in Updates : s # r => u_at'[s] = u_at[s]
  BY UpdateGoes
<1>2. /\ u_version =< Installed /\ (\A s \in Updates : u_at[s] = "done" => Installed = u_latest)
      /\ \A s \in Updates : Update_!InSwap(s) => s = r
  BY DEF SwapHolds
<1>3. \A s \in Updates : Update_!InSwap(s)' => s = r
  BY <1>1, <1>2 DEF Update_!InSwap
<1>4. ASSUME NEW s \in Updates PROVE SwapAt(s)'
  <2>1. CASE s = r
    BY <2>1
  <2>2. CASE s # r
    BY <1>3, <2>2 DEF SwapAt, Update_!InSwap, Update_!Swapping
  <2> QED BY <2>1, <2>2
<1>5. u_version' =< Installed'
  BY <1>2 DEF UpdateShapes
<1>6. \A s \in Updates : u_at'[s] = "done" => Installed' = u_latest'
  BY <1>1, <1>2
<1>7. (\A s \in Updates : ~Update_!InSwap(s)') => Whole'
  BY <1>1 DEF Update_!InSwap
<1> QED BY <1>3, <1>4, <1>5, <1>6, <1>7 DEF SwapHolds

(* What one that swaps finds.                                               *)
LEMMA SwapFinds ==
  ASSUME SwapHolds, ~u_torn, NEW r \in Updates
  PROVE  SwapAt(r)
BY DEF SwapHolds

LEMMA UpdateCheckStep ==
  ASSUME UpdateInv, NEW r \in Updates, Update_!Check(r)
  PROVE  UpdateInv'
<1>0. UpdateShapes /\ OneRelease /\ SwapHolds /\ MaxRelease \in Nat \ {0}
  BY UpdateBounds DEF UpdateInv
<1>1. /\ Update_!Goto(r, "clear")
      /\ ~Update_!InSwap(r)
      /\ UNCHANGED <<u_latest, u_bin, u_ui, u_oldBin, u_oldUi, u_version, u_torn>>
  BY DEF Update_!Check, Update_!InSwap, Update_!Swapping, Update_!install
<1>2. PICK step \in {"clear"} : Update_!Goto(r, step)
  BY <1>1
<1>3. step \in UpdateSteps /\ step \notin Update_!Swapping \cup {"done"}
  BY DEF UpdateSteps, Update_!Swapping
<1>4. /\ u_at' \in [Updates -> UpdateSteps] /\ u_at'[r] = step
      /\ \A s \in Updates : s # r => u_at'[s] = u_at[s]
  BY <1>0, <1>2, <1>3, UpdateGoes
<1>5. UpdateShapes'
  BY <1>0, <1>1, <1>4 DEF Update_!Check, UpdateShapes, Versions
<1>6. OneRelease'
  BY <1>0, <1>1, <1>4 DEF Update_!Check, UpdateShapes, OneRelease, Update_!Nil
<1>7. SwapHolds'
  BY <1>0, <1>1, <1>2, <1>3, SwapStays
<1> QED BY <1>5, <1>6, <1>7 DEF UpdateInv

LEMMA UpdateClearStep ==
  ASSUME UpdateInv, NEW r \in Updates, Update_!Clear(r)
  PROVE  UpdateInv'
<1>0. UpdateShapes /\ OneRelease /\ SwapHolds /\ MaxRelease \in Nat \ {0}
  BY UpdateBounds DEF UpdateInv
<1>1. /\ Update_!Goto(r, "make")
      /\ ~Update_!InSwap(r)
      /\ UNCHANGED <<u_latest, u_bin, u_ui, u_oldBin, u_oldUi, u_version, u_torn>>
  BY DEF Update_!Clear, Update_!InSwap, Update_!Swapping, Update_!install
<1>2. PICK step \in {"make"} : Update_!Goto(r, step)
  BY <1>1
<1>3. step \in UpdateSteps /\ step \notin Update_!Swapping \cup {"done"}
  BY DEF UpdateSteps, Update_!Swapping
<1>4. /\ u_at' \in [Updates -> UpdateSteps] /\ u_at'[r] = step
      /\ \A s \in Updates : s # r => u_at'[s] = u_at[s]
  BY <1>0, <1>2, <1>3, UpdateGoes
<1>5. UpdateShapes'
  BY <1>0, <1>1, <1>4 DEF Update_!Clear, UpdateShapes, Versions, StageType, Update_!NoStage,
     Update_!Nil
<1>6. OneRelease'
  BY <1>0, <1>1, <1>4 DEF Update_!Clear, OneRelease, Update_!NoStage, Update_!Nil
<1>7. SwapHolds'
  BY <1>0, <1>1, <1>2, <1>3, SwapStays
<1> QED BY <1>5, <1>6, <1>7 DEF UpdateInv

LEMMA UpdateMakeStep ==
  ASSUME UpdateInv, NEW r \in Updates, Update_!Make(r)
  PROVE  UpdateInv'
<1>0. UpdateShapes /\ OneRelease /\ SwapHolds /\ MaxRelease \in Nat \ {0}
  BY UpdateBounds DEF UpdateInv
<1>1. /\ Update_!Goto(r, "open")
      /\ ~Update_!InSwap(r)
      /\ UNCHANGED <<u_latest, u_bin, u_ui, u_oldBin, u_oldUi, u_version, u_torn>>
  BY DEF Update_!Make, Update_!InSwap, Update_!Swapping, Update_!install
<1>2. PICK step \in {"open"} : Update_!Goto(r, step)
  BY <1>1
<1>3. step \in UpdateSteps /\ step \notin Update_!Swapping \cup {"done"}
  BY DEF UpdateSteps, Update_!Swapping
<1>4. /\ u_at' \in [Updates -> UpdateSteps] /\ u_at'[r] = step
      /\ \A s \in Updates : s # r => u_at'[s] = u_at[s]
  BY <1>0, <1>2, <1>3, UpdateGoes
<1>5. UpdateShapes'
  BY <1>0, <1>1, <1>4 DEF Update_!Make, UpdateShapes, StageType
<1>6. OneRelease'
  BY <1>0, <1>1, <1>4 DEF Update_!Make, OneRelease
<1>7. SwapHolds'
  BY <1>0, <1>1, <1>2, <1>3, SwapStays
<1> QED BY <1>5, <1>6, <1>7 DEF UpdateInv

LEMMA UpdateOpenStep ==
  ASSUME UpdateInv, NEW r \in Updates, Update_!Open(r)
  PROVE  UpdateInv'
<1>0. UpdateShapes /\ OneRelease /\ SwapHolds /\ MaxRelease \in Nat \ {0}
  BY UpdateBounds DEF UpdateInv
<1>1. /\ Update_!Goto(r, "download") \/ Update_!Goto(r, "idle")
      /\ ~Update_!InSwap(r)
      /\ UNCHANGED <<u_latest, u_bin, u_ui, u_oldBin, u_oldUi, u_version, u_torn>>
  BY DEF Update_!Open, Update_!InSwap, Update_!Swapping, Update_!install, Update_!Fails
<1>2. PICK step \in {"download", "idle"} : Update_!Goto(r, step)
  BY <1>1
<1>3. step \in UpdateSteps /\ step \notin Update_!Swapping \cup {"done"}
  BY DEF UpdateSteps, Update_!Swapping
<1>4. /\ u_at' \in [Updates -> UpdateSteps] /\ u_at'[r] = step
      /\ \A s \in Updates : s # r => u_at'[s] = u_at[s]
  BY <1>0, <1>2, <1>3, UpdateGoes
<1>5. UpdateShapes'
  BY <1>0, <1>1, <1>4 DEF Update_!Open, UpdateShapes, StageType, Update_!Part, Update_!Fails
<1>6. OneRelease'
  BY <1>0, <1>1, <1>4 DEF Update_!Open, UpdateShapes, OneRelease, StageType, Update_!Part,
     Update_!Fails
<1>7. SwapHolds'
  BY <1>0, <1>1, <1>2, <1>3, SwapStays
<1> QED BY <1>5, <1>6, <1>7 DEF UpdateInv

LEMMA UpdateDownloadStep ==
  ASSUME UpdateInv, NEW r \in Updates, Update_!Download(r)
  PROVE  UpdateInv'
<1>0. UpdateShapes /\ OneRelease /\ SwapHolds /\ MaxRelease \in Nat \ {0}
  BY UpdateBounds DEF UpdateInv
<1>1. /\ Update_!Goto(r, "unpack") \/ Update_!Goto(r, "idle")
      /\ ~Update_!InSwap(r)
      /\ UNCHANGED <<u_latest, u_bin, u_ui, u_oldBin, u_oldUi, u_version, u_torn>>
  BY DEF Update_!Download, Update_!InSwap, Update_!Swapping, Update_!install, Update_!Fails
<1>2. PICK step \in {"unpack", "idle"} : Update_!Goto(r, step)
  BY <1>1
<1>3. step \in UpdateSteps /\ step \notin Update_!Swapping \cup {"done"}
  BY DEF UpdateSteps, Update_!Swapping
<1>4. /\ u_at' \in [Updates -> UpdateSteps] /\ u_at'[r] = step
      /\ \A s \in Updates : s # r => u_at'[s] = u_at[s]
  BY <1>0, <1>2, <1>3, UpdateGoes
<1>5. UpdateShapes'
  BY <1>0, <1>1, <1>4 DEF Update_!Download, UpdateShapes, Versions, StageType, Update_!Fails
<1>6. OneRelease'
  BY <1>0, <1>1, <1>4 DEF Update_!Download, UpdateShapes, OneRelease, StageType, Update_!Fails
<1>7. SwapHolds'
  BY <1>0, <1>1, <1>2, <1>3, SwapStays
<1> QED BY <1>5, <1>6, <1>7 DEF UpdateInv

LEMMA UpdateUnpackStep ==
  ASSUME UpdateInv, NEW r \in Updates, Update_!Unpack(r)
  PROVE  UpdateInv'
<1>0. UpdateShapes /\ OneRelease /\ SwapHolds /\ MaxRelease \in Nat \ {0}
  BY UpdateBounds DEF UpdateInv
<1>1. /\ Update_!Goto(r, "unpackUi") \/ Update_!Goto(r, "idle")
      /\ ~Update_!InSwap(r)
      /\ UNCHANGED <<u_latest, u_bin, u_ui, u_oldBin, u_oldUi, u_version, u_torn>>
  BY DEF Update_!Unpack, Update_!InSwap, Update_!Swapping, Update_!install, Update_!Fails
<1>2. PICK step \in {"unpackUi", "idle"} : Update_!Goto(r, step)
  BY <1>1
<1>3. step \in UpdateSteps /\ step \notin Update_!Swapping \cup {"done"}
  BY DEF UpdateSteps, Update_!Swapping
<1>4. /\ u_at' \in [Updates -> UpdateSteps] /\ u_at'[r] = step
      /\ \A s \in Updates : s # r => u_at'[s] = u_at[s]
  BY <1>0, <1>2, <1>3, UpdateGoes
<1>5. UpdateShapes'
  BY <1>0, <1>1, <1>4 DEF Update_!Unpack, UpdateShapes, OneRelease, StageType, Update_!Nil,
     Update_!Part, Update_!Fails
<1>6. OneRelease'
  BY <1>0, <1>1, <1>4 DEF Update_!Unpack, UpdateShapes, OneRelease, StageType, Update_!Part,
     Update_!Fails
<1>7. SwapHolds'
  BY <1>0, <1>1, <1>2, <1>3, SwapStays
<1> QED BY <1>5, <1>6, <1>7 DEF UpdateInv

LEMMA UpdateUnpackUiStep ==
  ASSUME UpdateInv, NEW r \in Updates, Update_!UnpackUi(r)
  PROVE  UpdateInv'
<1>0. UpdateShapes /\ OneRelease /\ SwapHolds /\ MaxRelease \in Nat \ {0}
  BY UpdateBounds DEF UpdateInv
<1>1. /\ Update_!Goto(r, "layout") \/ Update_!Goto(r, "idle")
      /\ ~Update_!InSwap(r)
      /\ UNCHANGED <<u_latest, u_bin, u_ui, u_oldBin, u_oldUi, u_version, u_torn>>
  BY DEF Update_!UnpackUi, Update_!InSwap, Update_!Swapping, Update_!install, Update_!Fails
<1>2. PICK step \in {"layout", "idle"} : Update_!Goto(r, step)
  BY <1>1
<1>3. step \in UpdateSteps /\ step \notin Update_!Swapping \cup {"done"}
  BY DEF UpdateSteps, Update_!Swapping
<1>4. /\ u_at' \in [Updates -> UpdateSteps] /\ u_at'[r] = step
      /\ \A s \in Updates : s # r => u_at'[s] = u_at[s]
  BY <1>0, <1>2, <1>3, UpdateGoes
<1>5. UpdateShapes'
  BY <1>0, <1>1, <1>4 DEF Update_!UnpackUi, UpdateShapes, StageType, Update_!Fails
<1>6. OneRelease'
  BY <1>0, <1>1, <1>4 DEF Update_!UnpackUi, UpdateShapes, OneRelease, StageType, Update_!Fails
<1>7. SwapHolds'
  BY <1>0, <1>1, <1>2, <1>3, SwapStays
<1> QED BY <1>5, <1>6, <1>7 DEF UpdateInv

LEMMA UpdateCleanStep ==
  ASSUME UpdateInv, NEW r \in Updates, Update_!Clean(r)
  PROVE  UpdateInv'
<1>0. UpdateShapes /\ OneRelease /\ SwapHolds /\ MaxRelease \in Nat \ {0}
  BY UpdateBounds DEF UpdateInv
<1>1. /\ Update_!Goto(r, "uiAside")
      /\ Update_!InSwap(r) /\ UNCHANGED <<u_latest, u_version>> /\ (~u_torn' => ~u_torn)
  BY <1>0 DEF UpdateShapes, Update_!Clean, Update_!InSwap, Update_!Swapping
<1>2. PICK step \in {"uiAside"} : Update_!Goto(r, step)
  BY <1>1
<1>3. step \in UpdateSteps
  BY DEF UpdateSteps
<1>4. /\ u_at' \in [Updates -> UpdateSteps] /\ u_at'[r] = step
      /\ \A s \in Updates : s # r => u_at'[s] = u_at[s]
  BY <1>0, <1>2, <1>3, UpdateGoes
<1>5. UpdateShapes'
  BY <1>0, <1>1, <1>4 DEF Update_!Clean, UpdateShapes, Versions, Update_!Nil
<1>6. OneRelease'
  BY <1>0, <1>1, <1>4 DEF Update_!Clean, OneRelease
<1>7. ASSUME ~u_torn'
      PROVE  /\ SwapAt(r)' /\ Installed' \in {Installed, u_latest}
             /\ step \notin Update_!Swapping => Whole'
             /\ step = "done" => Installed' = u_latest
  <2>1. SwapAt(r)
    BY <1>0, <1>1, <1>7, SwapFinds
  <2> QED
    BY <1>0, <1>1, <1>4, <1>7, <2>1 DEF Update_!Clean, SwapAt, Whole, Installed, Update_!Nil
<1>8. SwapHolds'
  BY <1>0, <1>1, <1>2, <1>3, <1>7, SwapMoves
<1> QED BY <1>5, <1>6, <1>8 DEF UpdateInv

LEMMA UpdateUiAsideStep ==
  ASSUME UpdateInv, NEW r \in Updates, Update_!UiAside(r)
  PROVE  UpdateInv'
<1>0. UpdateShapes /\ OneRelease /\ SwapHolds /\ MaxRelease \in Nat \ {0}
  BY UpdateBounds DEF UpdateInv
<1>1. /\ Update_!Goto(r, "uiIn") \/ Update_!Goto(r, "fail")
      /\ Update_!InSwap(r) /\ UNCHANGED <<u_latest, u_version>> /\ (~u_torn' => ~u_torn)
  BY <1>0 DEF UpdateShapes, Update_!UiAside, Update_!InSwap, Update_!Swapping
<1>2. PICK step \in {"uiIn", "fail"} : Update_!Goto(r, step)
  BY <1>1
<1>3. step \in UpdateSteps
  BY DEF UpdateSteps
<1>4. /\ u_at' \in [Updates -> UpdateSteps] /\ u_at'[r] = step
      /\ \A s \in Updates : s # r => u_at'[s] = u_at[s]
  BY <1>0, <1>2, <1>3, UpdateGoes
<1>5. UpdateShapes'
  BY <1>0, <1>1, <1>4 DEF Update_!UiAside, UpdateShapes
<1>6. OneRelease'
  BY <1>0, <1>1, <1>4 DEF Update_!UiAside, OneRelease
<1>7. ASSUME ~u_torn'
      PROVE  /\ SwapAt(r)' /\ Installed' \in {Installed, u_latest}
             /\ step \notin Update_!Swapping => Whole'
             /\ step = "done" => Installed' = u_latest
  <2>1. u_at[r] = "uiAside" /\ SwapAt(r)
    BY <1>0, <1>1, <1>7, SwapFinds DEF Update_!UiAside
  <2>2. /\ u_bin' = u_bin /\ u_oldBin' = u_oldBin /\ u_bin # 0 /\ u_ui = u_bin
        /\ \/ step = "uiIn" /\ u_ui' = 0 /\ u_oldUi' = u_ui
           \/ step = "fail" /\ u_ui' = u_ui
    BY <1>0, <1>4, <1>7, <2>1 DEF Update_!UiAside, Update_!Goto, Update_!Nil, SwapAt, Whole
  <2> QED BY <1>1, <1>4, <2>1, <2>2 DEF SwapAt, Whole, Installed, Update_!Swapping
<1>8. SwapHolds'
  BY <1>0, <1>1, <1>2, <1>3, <1>7, SwapMoves
<1> QED BY <1>5, <1>6, <1>8 DEF UpdateInv

LEMMA UpdateUiInStep ==
  ASSUME UpdateInv, NEW r \in Updates, Update_!UiIn(r)
  PROVE  UpdateInv'
<1>0. UpdateShapes /\ OneRelease /\ SwapHolds /\ MaxRelease \in Nat \ {0}
  BY UpdateBounds DEF UpdateInv
<1>1. /\ Update_!Goto(r, "binAside") \/ Update_!Goto(r, "fail")
      /\ Update_!InSwap(r) /\ UNCHANGED <<u_latest, u_version>> /\ (~u_torn' => ~u_torn)
  BY <1>0 DEF UpdateShapes, Update_!UiIn, Update_!InSwap, Update_!Swapping
<1>2. PICK step \in {"binAside", "fail"} : Update_!Goto(r, step)
  BY <1>1
<1>3. step \in UpdateSteps
  BY DEF UpdateSteps
<1>4. /\ u_at' \in [Updates -> UpdateSteps] /\ u_at'[r] = step
      /\ \A s \in Updates : s # r => u_at'[s] = u_at[s]
  BY <1>0, <1>2, <1>3, UpdateGoes
<1>5. UpdateShapes'
  BY <1>0, <1>1, <1>4 DEF Update_!UiIn, Update_!UiBack, UpdateShapes, StageType
<1>6. OneRelease'
  BY <1>0, <1>1, <1>4 DEF Update_!UiIn, UpdateShapes, OneRelease, StageType, Update_!Nil
<1>7. ASSUME ~u_torn'
      PROVE  /\ SwapAt(r)' /\ Installed' \in {Installed, u_latest}
             /\ step \notin Update_!Swapping => Whole'
             /\ step = "done" => Installed' = u_latest
  <2>1. u_at[r] = "uiIn" /\ SwapAt(r)
    BY <1>0, <1>1, <1>7, SwapFinds DEF Update_!UiIn
  <2>2. u_stage.ui \in {0, u_latest}
    BY <1>0, <2>1 DEF OneRelease
  <2>3. /\ u_bin' = u_bin /\ u_oldBin' = u_oldBin
        /\ u_bin # 0 /\ u_ui = 0 /\ u_oldUi = u_bin
        /\ \/ step = "binAside" /\ u_ui' = u_latest /\ u_oldUi' = u_oldUi
           \/ step = "fail" /\ u_ui' = u_oldUi
    BY <1>0, <1>4, <1>7, <2>1, <2>2 DEF Update_!UiIn, Update_!UiBack, Update_!Goto, Update_!Nil,
       SwapAt
  <2> QED BY <1>1, <1>4, <2>1, <2>3 DEF SwapAt, Whole, Installed, Update_!Swapping
<1>8. SwapHolds'
  BY <1>0, <1>1, <1>2, <1>3, <1>7, SwapMoves
<1> QED BY <1>5, <1>6, <1>8 DEF UpdateInv

LEMMA UpdateBinAsideStep ==
  ASSUME UpdateInv, NEW r \in Updates, Update_!BinAside(r)
  PROVE  UpdateInv'
<1>0. UpdateShapes /\ OneRelease /\ SwapHolds /\ MaxRelease \in Nat \ {0}
  BY UpdateBounds DEF UpdateInv
<1>1. /\ Update_!Goto(r, "binIn") \/ Update_!Goto(r, "fail")
      /\ Update_!InSwap(r) /\ UNCHANGED <<u_latest, u_version>> /\ (~u_torn' => ~u_torn)
  BY <1>0 DEF UpdateShapes, Update_!BinAside, Update_!InSwap, Update_!Swapping
<1>2. PICK step \in {"binIn", "fail"} : Update_!Goto(r, step)
  BY <1>1
<1>3. step \in UpdateSteps
  BY DEF UpdateSteps
<1>4. /\ u_at' \in [Updates -> UpdateSteps] /\ u_at'[r] = step
      /\ \A s \in Updates : s # r => u_at'[s] = u_at[s]
  BY <1>0, <1>2, <1>3, UpdateGoes
<1>5. UpdateShapes'
  <2>1. /\ u_bin' \in Versions /\ u_oldBin' \in Versions /\ u_ui' = u_ui /\ u_oldUi' = u_oldUi
        /\ u_version' = u_version /\ u_running' = u_running /\ u_stage' = u_stage
        /\ u_want' = u_want /\ u_latest' = u_latest
    BY <1>0 DEF Update_!BinAside, UpdateShapes, Versions, Update_!Nil
  <2>2. u_exe' \in {"bin", "old", "gone"} /\ u_torn' \in BOOLEAN
    BY <1>0 DEF Update_!BinAside, UpdateShapes
  <2> QED BY <1>0, <1>4, <2>1, <2>2 DEF UpdateShapes
<1>6. OneRelease'
  BY <1>0, <1>1, <1>4 DEF Update_!BinAside, OneRelease
<1>7. ASSUME ~u_torn'
      PROVE  /\ SwapAt(r)' /\ Installed' \in {Installed, u_latest}
             /\ step \notin Update_!Swapping => Whole'
             /\ step = "done" => Installed' = u_latest
  <2>1. u_at[r] = "binAside" /\ SwapAt(r)
    BY <1>0, <1>1, <1>7, SwapFinds DEF Update_!BinAside
  <2>2. /\ u_ui' = u_ui /\ u_oldUi' = u_oldUi /\ step = "binIn"
        /\ u_bin # 0 /\ u_ui = u_latest /\ u_oldUi = u_bin
        /\ u_bin' = 0 /\ u_oldBin' = u_bin
    BY <1>0, <1>4, <1>7, <2>1 DEF Update_!BinAside, Update_!Goto, Update_!Nil, SwapAt
  <2> QED BY <1>1, <1>4, <2>1, <2>2 DEF SwapAt, Whole, Installed, Update_!Swapping
<1>8. SwapHolds'
  BY <1>0, <1>1, <1>2, <1>3, <1>7, SwapMoves
<1> QED BY <1>5, <1>6, <1>8 DEF UpdateInv

LEMMA UpdateBinInStep ==
  ASSUME UpdateInv, NEW r \in Updates, Update_!BinIn(r)
  PROVE  UpdateInv'
<1>0. UpdateShapes /\ OneRelease /\ SwapHolds /\ MaxRelease \in Nat \ {0}
  BY UpdateBounds DEF UpdateInv
<1>1. /\ Update_!Goto(r, "sweep") \/ Update_!Goto(r, "fail")
      /\ Update_!InSwap(r) /\ UNCHANGED <<u_latest, u_version>> /\ (~u_torn' => ~u_torn)
  BY <1>0 DEF UpdateShapes, Update_!BinIn, Update_!InSwap, Update_!Swapping
<1>2. PICK step \in {"sweep", "fail"} : Update_!Goto(r, step)
  BY <1>1
<1>3. step \in UpdateSteps
  BY DEF UpdateSteps
<1>4. /\ u_at' \in [Updates -> UpdateSteps] /\ u_at'[r] = step
      /\ \A s \in Updates : s # r => u_at'[s] = u_at[s]
  BY <1>0, <1>2, <1>3, UpdateGoes
<1>5. UpdateShapes'
  BY <1>0, <1>1, <1>4 DEF Update_!BinIn, UpdateShapes, Versions, StageType, Update_!Nil
<1>6. OneRelease'
  BY <1>0, <1>1, <1>4 DEF Update_!BinIn, UpdateShapes, OneRelease, StageType, Update_!Nil
<1>7. ASSUME ~u_torn'
      PROVE  /\ SwapAt(r)' /\ Installed' \in {Installed, u_latest}
             /\ step \notin Update_!Swapping => Whole'
             /\ step = "done" => Installed' = u_latest
  <2>1. u_at[r] = "binIn" /\ SwapAt(r)
    BY <1>0, <1>1, <1>7, SwapFinds DEF Update_!BinIn
  <2>2. u_stage.bin \in {0, u_latest} /\ u_latest # 0
    BY <1>0, <2>1 DEF OneRelease, UpdateShapes
  <2>3. /\ u_bin = 0 /\ u_oldBin # 0 /\ u_ui = u_latest /\ u_oldUi = u_oldBin
        /\ \/ step = "sweep" /\ u_bin' = u_latest /\ u_latest # 0 /\ u_ui' = u_ui
           \/ step = "fail" /\ u_bin' = u_oldBin /\ u_ui' = u_oldUi
    BY <1>0, <1>4, <1>7, <2>1, <2>2 DEF Update_!BinIn, Update_!Goto, Update_!Nil, SwapAt
  <2> QED BY <1>1, <1>4, <2>1, <2>3 DEF SwapAt, Whole, Installed, Update_!Swapping
<1>8. SwapHolds'
  BY <1>0, <1>1, <1>2, <1>3, <1>7, SwapMoves
<1> QED BY <1>5, <1>6, <1>8 DEF UpdateInv

LEMMA UpdateSweepStep ==
  ASSUME UpdateInv, NEW r \in Updates, Update_!Sweep(r)
  PROVE  UpdateInv'
<1>0. UpdateShapes /\ OneRelease /\ SwapHolds /\ MaxRelease \in Nat \ {0}
  BY UpdateBounds DEF UpdateInv
<1>1. /\ Update_!Goto(r, "done")
      /\ Update_!InSwap(r) /\ UNCHANGED <<u_latest, u_version>> /\ (~u_torn' => ~u_torn)
  BY <1>0 DEF UpdateShapes, Update_!Sweep, Update_!InSwap, Update_!Swapping
<1>2. PICK step \in {"done"} : Update_!Goto(r, step)
  BY <1>1
<1>3. step \in UpdateSteps
  BY DEF UpdateSteps
<1>4. /\ u_at' \in [Updates -> UpdateSteps] /\ u_at'[r] = step
      /\ \A s \in Updates : s # r => u_at'[s] = u_at[s]
  BY <1>0, <1>2, <1>3, UpdateGoes
<1>5. UpdateShapes'
  BY <1>0, <1>1, <1>4 DEF Update_!Sweep, UpdateShapes, Versions, Update_!Nil
<1>6. OneRelease'
  BY <1>0, <1>1, <1>4 DEF Update_!Sweep, OneRelease
<1>7. ASSUME ~u_torn'
      PROVE  /\ SwapAt(r)' /\ Installed' \in {Installed, u_latest}
             /\ step \notin Update_!Swapping => Whole'
             /\ step = "done" => Installed' = u_latest
  <2>1. SwapAt(r)
    BY <1>0, <1>1, <1>7, SwapFinds
  <2> QED
    BY <1>0, <1>1, <1>4, <1>7, <2>1 DEF Update_!Sweep, SwapAt, Whole, Installed, UpdateShapes
<1>8. SwapHolds'
  BY <1>0, <1>1, <1>2, <1>3, <1>7, SwapMoves
<1> QED BY <1>5, <1>6, <1>8 DEF UpdateInv

LEMMA UpdateLayoutStep ==
  ASSUME UpdateInv, NEW r \in Updates, Update_!Layout(r)
  PROVE  UpdateInv'
<1>0. UpdateShapes /\ OneRelease /\ SwapHolds /\ MaxRelease \in Nat \ {0}
  BY UpdateBounds DEF UpdateInv
<1>1. /\ u_at[r] = "layout" /\ ~Update_!InSwap(r)
      /\ UNCHANGED <<u_latest, u_bin, u_ui, u_oldBin, u_oldUi, u_version>>
      /\ UNCHANGED <<u_running, u_exe, u_want>>
  BY DEF Update_!Layout, Update_!InSwap, Update_!Swapping, Update_!install
<1>2. CASE Update_!Goto(r, "idle") /\ u_stage' = Update_!NoStage /\ u_torn' = u_torn
  <2>1. /\ u_at' \in [Updates -> UpdateSteps] /\ u_at'[r] = "idle"
        /\ \A s \in Updates : s # r => u_at'[s] = u_at[s]
    BY <1>0, <1>2, UpdateGoes DEF UpdateSteps
  <2>2. UpdateShapes' /\ OneRelease'
    BY <1>0, <1>1, <1>2, <2>1
    DEF UpdateShapes, OneRelease, Versions, StageType, Update_!NoStage, Update_!Nil
  <2>3. "idle" \in UpdateSteps /\ "idle" \notin Update_!Swapping \cup {"done"}
    BY DEF UpdateSteps, Update_!Swapping
  <2>4. SwapHolds'
    BY <1>0, <1>1, <1>2, <2>3, SwapStays
  <2> QED BY <2>2, <2>4 DEF UpdateInv
<1>3. CASE /\ Update_!Goto(r, "clean") /\ u_stage' = u_stage
           /\ u_torn' = (u_torn \/ \E s \in Updates \ {r} : Update_!InSwap(s))
  <2>1. /\ u_at' \in [Updates -> UpdateSteps] /\ u_at'[r] = "clean"
        /\ \A s \in Updates : s # r => u_at'[s] = u_at[s]
    BY <1>0, <1>3, UpdateGoes DEF UpdateSteps
  <2>2. UpdateShapes' /\ OneRelease'
    BY <1>0, <1>1, <1>3, <2>1 DEF UpdateShapes, OneRelease
  <2>3. SwapHolds'
    <3> SUFFICES ASSUME ~u_torn' PROVE SwapHolds'
      BY DEF SwapHolds
    <3>1. ~u_torn /\ \A s \in Updates : ~Update_!InSwap(s)
      BY <1>1, <1>3
    <3>2. /\ Whole /\ u_version =< Installed
          /\ \A s \in Updates : u_at[s] = "done" => Installed = u_latest
      BY <1>0, <3>1 DEF SwapHolds
    <3>3. Whole' /\ Installed' = Installed
      BY <1>1, <3>2 DEF Whole, Installed
    <3>4. \A s \in Updates : Update_!InSwap(s)' => s = r
      BY <2>1, <3>1 DEF Update_!InSwap
    <3>5. \A s \in Updates : SwapAt(s)'
      BY <2>1, <3>3, <3>4 DEF SwapAt, Update_!InSwap, Update_!Swapping
    <3> QED BY <1>1, <2>1, <3>2, <3>3, <3>4, <3>5 DEF SwapHolds
  <2> QED BY <2>2, <2>3 DEF UpdateInv
<1> QED BY <1>2, <1>3 DEF Update_!Layout

LEMMA UpdateFinishStep ==
  ASSUME UpdateInv, NEW r \in Updates, Update_!Finish(r)
  PROVE  UpdateInv'
<1>0. UpdateShapes /\ OneRelease /\ SwapHolds /\ MaxRelease \in Nat \ {0}
  BY UpdateBounds DEF UpdateInv
<1>1. /\ u_at[r] \in {"done", "fail"} /\ ~Update_!InSwap(r) /\ Update_!Goto(r, "idle")
      /\ u_stage' = Update_!NoStage
      /\ UNCHANGED <<u_latest, u_bin, u_ui, u_oldBin, u_oldUi, u_running, u_exe, u_want,
         u_torn>>
      /\ u_version' = u_version \/ (u_at[r] = "done" /\ u_version' = u_want[r])
  BY DEF Update_!Finish, Update_!InSwap, Update_!Swapping
<1>2. /\ u_at' \in [Updates -> UpdateSteps] /\ u_at'[r] = "idle"
      /\ \A s \in Updates : s # r => u_at'[s] = u_at[s]
  BY <1>0, <1>1, UpdateGoes DEF UpdateSteps
<1>3. u_at[r] = "done" => u_want[r] = u_latest
  BY <1>0 DEF OneRelease
<1>4. u_version' \in 1 .. u_latest
  BY <1>0, <1>1, <1>3 DEF UpdateShapes
<1>5. UpdateShapes' /\ OneRelease'
  BY <1>0, <1>1, <1>2, <1>4
  DEF UpdateShapes, OneRelease, Versions, StageType, Update_!NoStage, Update_!Nil
<1>6. SwapHolds'
  <2>1. Installed' = Installed /\ (Whole' <=> Whole)
    BY <1>1 DEF Installed, Whole
  <2>2. ~u_torn => u_version' =< Installed
    BY <1>0, <1>1, <1>3 DEF SwapHolds, UpdateShapes
  <2>3. \A s \in Updates : Update_!InSwap(s)' <=> Update_!InSwap(s)
    BY <1>1, <1>2 DEF Update_!InSwap, Update_!Swapping
  <2>4. \A s \in Updates : SwapAt(s) => SwapAt(s)'
    BY <1>1, <1>2, <2>1 DEF SwapAt
  <2> QED BY <1>0, <1>1, <1>2, <2>1, <2>2, <2>3, <2>4 DEF SwapHolds
<1> QED BY <1>5, <1>6 DEF UpdateInv

(* Nobody is under way: before a release appears, and once the process has  *)
(* ended.                                                                   *)
LEMMA NobodySwaps ==
  ASSUME UpdateShapes', SwapHolds, u_at' \in [Updates -> {"idle"}],
         UNCHANGED <<u_bin, u_ui, u_oldBin, u_oldUi, u_version>>,
         ~u_torn' => ~u_torn /\ \A r \in Updates : ~Update_!InSwap(r)
  PROVE  OneRelease' /\ SwapHolds'
<1>1. \A r \in Updates : u_at'[r] = "idle" /\ ~Update_!InSwap(r)'
  BY DEF Update_!InSwap, Update_!Swapping
<1>2. OneRelease'
  BY <1>1 DEF OneRelease
<1>3. ASSUME ~u_torn' PROVE Whole' /\ u_version' =< Installed'
  <2>1. Whole /\ u_version =< Installed
    BY <1>3 DEF SwapHolds
  <2> QED BY <2>1 DEF Whole, Installed
<1>4. SwapHolds'
  BY <1>1, <1>3 DEF SwapHolds, SwapAt
<1> QED BY <1>2, <1>4

LEMMA UpdatePublishStep == UpdateInv /\ Update_!Publish => UpdateInv'
<1> SUFFICES ASSUME UpdateInv, Update_!Publish PROVE UpdateInv'
  OBVIOUS
<1>0. UpdateShapes /\ OneRelease /\ SwapHolds /\ MaxRelease \in Nat \ {0}
  BY UpdateBounds DEF UpdateInv
<1>1. UpdateShapes'
  BY <1>0 DEF UpdateShapes, Update_!Publish, Update_!install, StageType
<1>2. u_at' \in [Updates -> {"idle"}] /\ \A r \in Updates : ~Update_!InSwap(r)
  BY <1>0 DEF UpdateShapes, Update_!Publish, Update_!InSwap, Update_!Swapping
<1>3. UNCHANGED <<u_bin, u_ui, u_oldBin, u_oldUi, u_version, u_torn>>
  BY DEF Update_!Publish, Update_!install
<1> QED BY <1>0, <1>1, <1>2, <1>3, NobodySwaps DEF UpdateInv

LEMMA UpdateEndsStep ==
  ASSUME UpdateInv, NEW v \in Versions, Update_!Ends(v)
  PROVE  UpdateInv'
<1>0. UpdateShapes /\ OneRelease /\ SwapHolds
  BY DEF UpdateInv
<1>1. /\ u_at' = [r \in Updates |-> "idle"]
      /\ u_torn' = (u_torn \/ \E r \in Updates : Update_!InSwap(r))
      /\ u_running' = v /\ u_exe' \in {"bin", "old"}
      /\ UNCHANGED <<u_latest, u_bin, u_ui, u_oldBin, u_oldUi, u_version, u_stage, u_want>>
  BY DEF Update_!Ends, Update_!install
<1>2. UpdateShapes'
  BY <1>0, <1>1 DEF UpdateShapes, UpdateSteps
<1>3. u_at' \in [Updates -> {"idle"}]
      /\ (~u_torn' => ~u_torn /\ \A r \in Updates : ~Update_!InSwap(r))
  BY <1>0, <1>1 DEF UpdateShapes
<1> QED BY <1>0, <1>1, <1>2, <1>3, NobodySwaps DEF UpdateInv

LEMMA UpdateRestStep ==
  UpdateInv /\ (Update_!Restart \/ Update_!Kill \/ Update_!Start \/ UNCHANGED updateVars)
      => UpdateInv'
<1> SUFFICES ASSUME UpdateInv PROVE (Update_!Restart \/ Update_!Kill \/ Update_!Start
                                     \/ UNCHANGED updateVars) => UpdateInv'
  OBVIOUS
<1>0. UpdateShapes /\ OneRelease /\ SwapHolds /\ 0 \in Versions
  BY UpdateBounds DEF UpdateInv, Versions
<1>1. CASE Update_!Restart
  <2>1. Update_!Target \in Versions
    BY <1>0, UpdateBounds DEF Update_!Target, UpdateShapes, Update_!Nil
  <2> QED BY <1>1, <2>1, UpdateEndsStep DEF Update_!Restart
<1>2. CASE Update_!Kill
  BY <1>0, <1>2, UpdateEndsStep DEF Update_!Kill, Update_!Nil
<1>3. CASE Update_!Start
  <2>1. UNCHANGED <<u_latest, u_bin, u_ui, u_oldBin, u_oldUi, u_version, u_stage, u_at, u_want,
                    u_torn>>
        /\ u_running' = u_bin /\ u_bin # 0 /\ u_exe' = "bin"
    BY <1>3 DEF Update_!Start, Update_!install, Update_!Nil
  <2>2. UpdateShapes' /\ OneRelease'
    BY <1>0, <2>1 DEF UpdateShapes, OneRelease
  <2>3. SwapHolds'
    BY <1>0, <2>1 DEF SwapHolds, SwapAt, Whole, Installed, Update_!InSwap
  <2> QED BY <2>2, <2>3 DEF UpdateInv
<1>4. CASE UNCHANGED updateVars
  BY <1>0, <1>4 DEF updateVars, UpdateInv, UpdateShapes, OneRelease, SwapHolds, SwapAt, Whole,
      Installed, Update_!InSwap
<1> QED BY <1>1, <1>2, <1>3, <1>4

LEMMA UpdateStep == UpdateInv /\ [Update_!Next]_updateVars => UpdateInv'
<1> SUFFICES ASSUME UpdateInv, [Update_!Next]_updateVars PROVE UpdateInv'
  OBVIOUS
<1>1. CASE UNCHANGED updateVars
  BY <1>1, UpdateRestStep
<1>2. CASE Update_!Next
  <2>1. ASSUME NEW r \in Updates, Update_!Check(r) \/ Update_!Step(r) PROVE UpdateInv'
    BY <2>1, UpdateCheckStep, UpdateClearStep, UpdateMakeStep, UpdateOpenStep,
       UpdateDownloadStep,
       UpdateUnpackStep, UpdateUnpackUiStep, UpdateLayoutStep, UpdateCleanStep,
       UpdateUiAsideStep,
       UpdateUiInStep, UpdateBinAsideStep, UpdateBinInStep, UpdateSweepStep, UpdateFinishStep
    DEF Update_!Step
  <2>2. CASE UNCHANGED Update_!vars
    <3>1. UNCHANGED updateVars
      BY <2>2 DEF Update_!vars, Update_!install, updateVars
    <3> QED BY <3>1, UpdateRestStep
  <2> QED BY <1>2, <2>1, <2>2, UpdatePublishStep, UpdateRestStep DEF Update_!Next
<1> QED BY <1>1, <1>2

LEMMA UpdateInit == Update_!Init => UpdateInv
<1> SUFFICES ASSUME Update_!Init PROVE UpdateInv
  OBVIOUS
<1>1. UpdateShapes
  <2>1. Update_!NoStage \in StageType
    BY UpdateBounds DEF StageType, Versions, Update_!NoStage, Update_!Nil
  <2>2. u_at \in [Updates -> UpdateSteps] /\ u_want \in [Updates -> Versions]
    BY UpdateBounds DEF Update_!Init, UpdateSteps, Versions, Update_!Nil
  <2>3. u_stage \in StageType /\ u_torn \in BOOLEAN /\ u_exe \in {"bin", "old", "gone"}
    BY <2>1 DEF Update_!Init
  <2>4. /\ u_latest = 1 /\ u_version = 1 /\ u_bin = 1 /\ u_ui = 1 /\ u_oldBin = 0 /\ u_oldUi = 0
        /\ u_running = 1
    BY DEF Update_!Init, Update_!Nil
  <2> QED BY <2>2, <2>3, <2>4, UpdateBounds DEF UpdateShapes, Versions
<1>2. \A r \in Updates : u_at[r] = "idle"
  BY DEF Update_!Init
<1>3. OneRelease /\ SwapHolds
  BY <1>2 DEF OneRelease, SwapHolds, SwapAt, Whole, Installed, Update_!Init, Update_!InSwap,
      Update_!Swapping
<1> QED BY <1>1, <1>3 DEF UpdateInv

LEMMA InstallStaysWhole == UpdateInv => Update_!InstallHolds
<1> SUFFICES ASSUME UpdateInv PROVE Update_!InstallHolds
  OBVIOUS
<1>0. UpdateShapes /\ OneRelease /\ SwapHolds /\ MaxRelease \in Nat \ {0}
  BY UpdateBounds DEF UpdateInv
<1>1. Update_!TypeOK
  BY <1>0 DEF UpdateShapes, OneRelease, Versions, StageType, Update_!TypeOK, Update_!Nil
<1>2. Update_!InstallIsWhole
  BY <1>0 DEF SwapHolds, Whole, Installed, Update_!InstallIsWhole, Update_!Nil
<1> QED BY <1>1, <1>2 DEF Update_!InstallHolds

-----------------------------------------------------------------------------
(* The theorems about the parts together.  A part that does not run stays.  *)

LEMMA GuestsTurn == [MCNext]_allVars => [Guests_!Next]_guestsVars
BY DEF MCNext, GuestsRuns, ImportsRuns, CertsRuns, UpdateRuns, SessionsRuns, allVars

LEMMA ImportsTurn == [MCNext]_allVars => [Next]_vars
BY DEF MCNext, GuestsRuns, ImportsRuns, CertsRuns, UpdateRuns, SessionsRuns, allVars,
   importsVars

(* A record lets through no more wrong guesses than those below the lock    *)
(* and one for each visitor, and the map of records stays within its size,  *)
(* run agents: for any visitors, keys and bounds (FailureThrottle::check,   *)
(* record_failure_at, evict).                                               *)
THEOREM GuessesStayBounded == MCSpec => []ThrottleHolds
<1>1. MCInit => GuestsInv
  BY GuestsInit DEF MCInit
<1>2. GuestsInv /\ [MCNext]_allVars => GuestsInv'
  BY GuestsStep, GuestsTurn
<1> QED BY <1>1, <1>2, GuessesHold, PTL DEF MCSpec
(* What was ended stays ended, run agents: nothing is served over a link    *)
(* that is revoked or has expired, a cookie does not outlive its link, and  *)
(* a job that the user stopped goes on only when the user says so, for any  *)
(* visitors, jobs, files, calls and faults (gate, unlock_max_age_secs,      *)
(* transition, finish_scan).                                                *)
THEOREM EndedIsEnded == MCSpec => NothingComesBack
<1>1. MCInit => GuestsInv /\ ImportsInv
  BY GuestsInit, ImportsInit, ImportsAssumption DEF MCInit
<1>2. GuestsInv /\ ImportsInv /\ [MCNext]_allVars => GuestsInv' /\ ImportsInv'
  BY GuestsStep, GuestsTurn, ImportsStep, ImportsTurn, ImportsAssumption
<1>3. GuestsInv /\ [MCNext]_allVars => Guests_!KeepsEnd
  BY GuestsTurn, LinkKeepsEnd
<1>4. ImportsInv /\ [MCNext]_allVars => KeepsEnd
  <2> SUFFICES ASSUME ImportsInv, [MCNext]_allVars PROVE KeepsEnd
    OBVIOUS
  <2>1. CASE UNCHANGED vars
    BY <2>1 DEF vars, KeepsEnd, Active
  <2> QED BY <2>1, StoppedStep, ImportsTurn
<1>5. GuestsInv /\ ImportsInv /\ [MCNext]_allVars => [Guests_!KeepsEnd /\ KeepsEnd]_allVars
  BY <1>3, <1>4
<1> QED BY <1>1, <1>2, <1>5, PTL DEF MCSpec, NothingComesBack
LEMMA CertsTurn == [MCNext]_allVars => [Certs_!Next]_certsVars
BY DEF MCNext, GuestsRuns, ImportsRuns, CertsRuns, UpdateRuns, SessionsRuns, allVars

LEMMA UpdateTurn == [MCNext]_allVars => [Update_!Next]_updateVars
BY DEF MCNext, GuestsRuns, ImportsRuns, CertsRuns, UpdateRuns, SessionsRuns, allVars

(* The server works from what is whole, run agents: the certificate in the  *)
(* listeners was parsed and does not run out while issuance works, keys are *)
(* made only where one was lost, and outside a swap the install has a       *)
(* binary and an interface of one version, for any addresses, lives of a    *)
(* certificate, releases, requests for an update, kills and failures        *)
(* (spawn_renewal_task, load_or_create_key, apply, swap_in_place).          *)
THEOREM ServerStaysWhole == MCSpec => []ServerIsWhole
<1>1. MCInit => CertsInv /\ UpdateInv
  BY CertsInit, UpdateInit DEF MCInit
<1>2. CertsInv /\ UpdateInv /\ [MCNext]_allVars => CertsInv' /\ UpdateInv'
  BY CertsStep, CertsTurn, UpdateStep, UpdateTurn
<1>3. CertsInv /\ UpdateInv => ServerIsWhole
  BY ServedStaysValid, InstallStaysWhole DEF ServerIsWhole
<1> QED BY <1>1, <1>2, <1>3, PTL DEF MCSpec

(* The key that clients have pinned is the key of every later certificate,  *)
(* run agents: whatever is lost, refused or killed between the writes of    *)
(* the certificate and of its key, listeners that serve a key of ours go on *)
(* with that key, and what they serve is a pair (load_or_create_key,        *)
(* save_issued).                                                            *)
THEOREM PinStays == MCSpec => PinHolds
<1>1. MCInit => CertsInv
  BY CertsInit DEF MCInit
<1>2. CertsInv /\ [MCNext]_allVars => CertsInv'
  BY CertsStep, CertsTurn
<1>3. CertsInv /\ CertsInv' /\ [MCNext]_allVars =>
        [/\ Certs_!Serving /\ Certs_!Serving' /\ c_served.key > 0
               => c_served'.key = c_served.key
         /\ Certs_!Serving' /\ c_served'.cert.key > 0
               => c_served'.cert.key = c_served'.key]_(Certs_!vars)
  BY PinStep, CertsTurn
<1> QED BY <1>1, <1>2, <1>3, PTL DEF MCSpec, PinHolds, Certs_!PinHolds
=============================================================================
