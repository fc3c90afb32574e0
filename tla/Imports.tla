------------------------------- MODULE Imports -------------------------------
(***************************************************************************)
(* Imports from another cloud: services/import/mod.rs (the runner and what  *)
(* the API does with jobs), services/import/webdav.rs (the source) and      *)
(* repositories/imports.rs (the rows of jobs and of their files).           *)
(*                                                                          *)
(* One runner works on the oldest active job: it lists the source folder by *)
(* folder, then claims one file after the other, downloads it and hands it  *)
(* to an upload task that settles the file's row when it ends.  The API     *)
(* moves jobs meanwhile.                                                    *)
(***************************************************************************)
EXTENDS Integers, FiniteSets

CONSTANTS
    Jobs,                   \* numbers, in the order of creation
    Dirs,                   \* the folders of the source
    DirOf,                  \* each file of the source: its folder
    MAX_ATTEMPTS,
    MaxAsks, MaxFaults      \* bounds

Files == DOMAIN DirOf
Nil == "none"

(* What the proofs assume of the constants; "" is the root of the source.   *)
ImportsConstants ==
    /\ Jobs \subseteq Nat \ {0} /\ MAX_ATTEMPTS \in Nat \ {0} /\ {MaxAsks, MaxFaults} \subseteq Nat
    /\ \A f \in Files : DirOf[f] \in Dirs \cup {""}

ASSUME ImportsAssumption == ImportsConstants

VARIABLES
    job,        \* import_jobs: status, scanned, and whether the password is stored
    item,       \* import_items: the status and attempts of each file of each job
    runner,     \* the import loop
    relays,     \* upload tasks: their job, file, attempt and phase
    stored,     \* the files that are in the storage
    call,       \* a call of the API between its read of the job and its writes
    raced,      \* history: jobs that a retry, or a removal, moved on a read that was stale
    asks, faults

vars == <<job, item, runner, relays, stored, call, raced, asks, faults>>

Active == {"scanning", "running"}
Free == [pc |-> "idle", j |-> 0, f |-> Nil, att |-> 0, dirs |-> {}]
NoCall == [op |-> Nil, j |-> 0, st |-> Nil, scanned |-> FALSE]
NoItem == [st |-> Nil, att |-> 0]

(* A server that was restored from a backup may hold a job without its      *)
(* password.                                                                *)
Init ==
    /\ \E st \in {Nil, "scanning", "paused"} :
           job = [j \in Jobs |-> [st |-> IF j = 1 THEN st ELSE Nil, scanned |-> FALSE,
                                  secret |-> FALSE]]
    /\ item = [j \in Jobs |-> [f \in Files |-> NoItem]]
    /\ runner = [Free EXCEPT !.pc = "start"]
    /\ relays = {} /\ stored = {} /\ call = NoCall /\ raced = {} /\ asks = 0 /\ faults = 0

Exists(j) == job[j].st \notin {Nil, "gone"}
Fault == faults < MaxFaults /\ faults' = faults + 1

(* transition: from one of the listed states only.                          *)
Moved(j, from, to) ==
    job' = IF job[j].st \in from THEN [job EXCEPT ![j].st = to] ELSE job

(* finish_item writes whatever the row holds; a row that is gone stays gone. *)
Settled(j, f, st) ==
    item' = IF item[j][f].st = Nil THEN item ELSE [item EXCEPT ![j][f].st = st]

\* mutant: a file that failed stays claimed
SettledFailureNever(j, f, att) ==
    IF att >= MAX_ATTEMPTS THEN Settled(j, f, "failed") ELSE UNCHANGED item

SettledFailure(j, f, att) ==
    Settled(j, f, IF att >= MAX_ATTEMPTS THEN "failed" ELSE "pending")

(* release_item: the claim does not count.                                  *)
Released(j, f) ==
    item' = IF item[j][f].st = Nil THEN item
            ELSE [item EXCEPT ![j][f] = [st |-> "pending", att |-> IF @.att = 0 THEN 0 ELSE @.att - 1]]

At(pc) == runner' = [runner EXCEPT !.pc = pc]
Rest == runner' = Free

-----------------------------------------------------------------------------
(* ImportRunner::run_once.                                                  *)

(* A fresh process puts back what the last one was copying.                 *)
Requeue ==
    /\ runner.pc = "start" /\ Rest
    /\ item' = [j \in Jobs |-> [f \in Files |->
                   IF item[j][f].st = "in_progress" THEN [item[j][f] EXCEPT !.st = "pending"]
                   ELSE item[j][f]]]
    /\ UNCHANGED <<job, relays, stored, call, raced, asks, faults>>

(* The oldest active job; one whose password or account is gone fails.      *)
Pick ==
    /\ runner.pc = "idle"
    /\ \E j \in Jobs :
           /\ job[j].st \in Active /\ \A k \in Jobs : job[k].st \in Active => j =< k
           /\ \/ /\ job[j].secret /\ UNCHANGED <<job, faults>>
                 /\ runner' = [Free EXCEPT !.j = j, !.dirs = {""},
                                   !.pc = IF job[j].st = "scanning" THEN "scan" ELSE "claim"]
              \/ /\ \/ ~job[j].secret /\ UNCHANGED faults
                    \/ job[j].secret /\ Fault
                 /\ runner' = [Free EXCEPT !.j = j, !.pc = "abort"]
                 /\ UNCHANGED job
    /\ UNCHANGED <<item, relays, stored, call, raced, asks>>

(* The whole job stops: preparation failed, or the source rejects the       *)
(* password while a file is copied.                                         *)
Abort ==
    /\ runner.pc = "abort" /\ Rest
    /\ Moved(runner.j, Active, "failed")
    /\ UNCHANGED <<item, relays, stored, call, raced, asks, faults>>

(* Before each folder the job is read again.                                *)
ScanChecks ==
    /\ runner.pc = "scan"
    /\ IF job[runner.j].st # "scanning" THEN Rest
       ELSE IF runner.dirs = {} THEN At("listed") ELSE At("list")
    /\ UNCHANGED <<job, item, relays, stored, call, raced, asks, faults>>

(* A folder was listed: what it holds is recorded once, and the folders in  *)
(* it, here all below the root, are queued.  The source may fail.           *)
ScanLists ==
    /\ runner.pc = "list"
    /\ \E d \in runner.dirs :
       \/ /\ Exists(runner.j)
          /\ runner' = [runner EXCEPT !.pc = "scan",
                            !.dirs = (@ \ {d}) \cup IF d = "" THEN Dirs \ {""} ELSE {}]
          /\ item' = [item EXCEPT ![runner.j] = [f \in Files |->
                        IF DirOf[f] = d /\ @[f].st = Nil THEN [st |-> "pending", att |-> 0]
                        ELSE @[f]]]
          /\ UNCHANGED <<job, faults>>
       \/ /\ Fault \/ (~Exists(runner.j) /\ UNCHANGED faults)
          /\ Moved(runner.j, {"scanning"}, "failed") /\ Rest /\ UNCHANGED item
    /\ UNCHANGED <<relays, stored, call, raced, asks>>

\* mutant: the listing's end is written whatever the job was moved to
FinishScanAnyway ==
    /\ runner.pc = "listed" /\ Rest
    /\ job' = IF Exists(runner.j)
              THEN [job EXCEPT ![runner.j].scanned = TRUE, ![runner.j].st = "running"] ELSE job
    /\ UNCHANGED <<item, relays, stored, call, raced, asks, faults>>

(* finish_scan, unless the job was moved meanwhile.                         *)
FinishScan ==
    /\ runner.pc = "listed" /\ Rest
    /\ job' = IF job[runner.j].st = "scanning"
              THEN [job EXCEPT ![runner.j].scanned = TRUE, ![runner.j].st = "running"] ELSE job
    /\ UNCHANGED <<item, relays, stored, call, raced, asks, faults>>

(* claim_next_item: the fewest attempts first, whatever the job's state.    *)
Claim ==
    /\ runner.pc = "claim"
    /\ LET open == {f \in Files : item[runner.j][f].st = "pending"} IN
       IF open = {} THEN At("drained") /\ UNCHANGED item
       ELSE \E f \in open :
            /\ \A g \in open : item[runner.j][f].att =< item[runner.j][g].att
            /\ item' = [item EXCEPT ![runner.j][f] = [st |-> "in_progress", att |-> @.att + 1]]
            /\ runner' = [runner EXCEPT !.pc = "copy", !.f = f, !.att = item[runner.j][f].att + 1]
    /\ UNCHANGED <<job, relays, stored, call, raced, asks, faults>>

\* mutant: the uploads that are under way are not waited for
DrainedEarly ==
    /\ runner.pc = "drained"
    /\ IF \A f \in Files : item[runner.j][f].st # "pending" THEN At("close") ELSE Rest
    /\ UNCHANGED <<job, item, relays, stored, call, raced, asks, faults>>

(* is_drained: the last relay has reported, too.                            *)
Drained ==
    /\ runner.pc = "drained"
    /\ IF \A f \in Files : item[runner.j][f].st \notin {"pending", "in_progress"} THEN At("close")
       ELSE Rest
    /\ UNCHANGED <<job, item, relays, stored, call, raced, asks, faults>>

Close ==
    /\ runner.pc = "close" /\ Rest
    /\ Moved(runner.j, {"running"}, "done")
    /\ raced' = IF \E f \in Files : item[runner.j][f].st = "pending" THEN raced \cup {runner.j} ELSE raced
    /\ UNCHANGED <<item, relays, stored, call, asks, faults>>

(* copy_item: a file that is there already is skipped; the spool may be     *)
(* busy, or never have room.                                                *)
Copy ==
    /\ runner.pc = "copy"
    /\ IF runner.f \in stored
       THEN Settled(runner.j, runner.f, "skipped") /\ Rest /\ UNCHANGED faults
       ELSE \/ At("download") /\ UNCHANGED <<item, faults>>
            \/ Fault /\ At("busy") /\ UNCHANGED item
            \/ Fault /\ Settled(runner.j, runner.f, "failed") /\ Rest
    /\ UNCHANGED <<job, relays, stored, call, raced, asks>>

Busy ==
    /\ runner.pc = "busy"
    /\ IF job[runner.j].st = "running" THEN At("copy") /\ UNCHANGED item
       ELSE Released(runner.j, runner.f) /\ Rest
    /\ UNCHANGED <<job, relays, stored, call, raced, asks, faults>>

(* The spool is handed to a task of its own.                                *)
Download ==
    /\ runner.pc = "download" /\ At("handed")
    /\ relays' = relays \cup {[j |-> runner.j, f |-> runner.f, att |-> runner.att, pc |-> "spool"]}
    /\ UNCHANGED <<job, item, stored, call, raced, asks, faults>>

(* The source rejects the password: the file is released, the job fails.    *)
DownloadRejected ==
    /\ runner.pc = "download" /\ Fault
    /\ Released(runner.j, runner.f) /\ At("abort")
    /\ UNCHANGED <<job, relays, stored, call, raced, asks>>

DownloadFails ==
    /\ runner.pc = "download" /\ Fault /\ Rest
    /\ SettledFailure(runner.j, runner.f, runner.att)
    /\ UNCHANGED <<job, relays, stored, call, raced, asks>>

(* The upload has spooled the file, or has ended before.                    *)
HandedOff ==
    /\ runner.pc = "handed" /\ Rest
    /\ ~\E r \in relays : r.j = runner.j /\ r.f = runner.f /\ r.pc = "spool"
    /\ UNCHANGED <<job, item, relays, stored, call, raced, asks, faults>>

(* The upload task.                                                         *)
Spools(r) ==
    /\ r.pc = "spool" /\ relays' = (relays \ {r}) \cup {[r EXCEPT !.pc = "relay"]}
    /\ UNCHANGED <<job, item, runner, stored, call, raced, asks, faults>>

Stores(r) ==
    /\ r.pc = "relay" /\ stored' = stored \cup {r.f}
    /\ relays' = (relays \ {r}) \cup {[r EXCEPT !.pc = "stored"]}
    /\ UNCHANGED <<job, item, runner, call, raced, asks, faults>>

Reports(r) ==
    /\ relays' = relays \ {r}
    /\ \/ r.pc = "stored" /\ Settled(r.j, r.f, "done") /\ UNCHANGED faults
       \/ r.pc \in {"spool", "relay"} /\ Fault /\ SettledFailure(r.j, r.f, r.att)
    /\ UNCHANGED <<job, runner, stored, call, raced, asks>>

-----------------------------------------------------------------------------
(* ImportService.                                                           *)

Asked == asks < MaxAsks /\ asks' = asks + 1

Create ==
    /\ Asked
    /\ \E j \in Jobs :
           /\ job[j].st = Nil /\ \A k \in Jobs : k < j => job[k].st # Nil
           /\ job' = [job EXCEPT ![j] = [st |-> "scanning", scanned |-> FALSE, secret |-> TRUE]]
    /\ UNCHANGED <<item, runner, relays, stored, call, raced, faults>>

(* pause and cancel are one statement each.                                 *)
Pause ==
    /\ Asked /\ \E j \in Jobs : job[j].st \in Active /\ Moved(j, Active, "paused")
    /\ UNCHANGED <<item, runner, relays, stored, call, raced, faults>>

Cancel ==
    /\ Asked
    /\ \E j \in Jobs : /\ job[j].st \in Active \cup {"paused"}
                       /\ Moved(j, Active \cup {"paused"}, "cancelled")
    /\ UNCHANGED <<item, runner, relays, stored, call, raced, faults>>

(* resume, retry_failed and delete read the job first.                      *)
CallReads ==
    /\ call = NoCall /\ Asked
    /\ \E j \in Jobs, op \in {"resume", "retry", "delete"} :
           /\ Exists(j)
           /\ op = "delete" => job[j].st \notin Active
           /\ call' = [op |-> op, j |-> j, st |-> job[j].st, scanned |-> job[j].scanned]
    /\ UNCHANGED <<job, item, runner, relays, stored, raced, faults>>

(* With a password, or where one is stored; as far as the job had come.     *)
Resume ==
    /\ call.op = "resume" /\ call' = NoCall
    /\ LET to == IF call.scanned THEN "running" ELSE "scanning" IN
       \E given \in BOOLEAN :
           LET kept == [job EXCEPT ![call.j].secret = @ \/ given] IN
           job' = IF ~kept[call.j].secret THEN job
                  ELSE IF job[call.j].st \in {"paused", "failed"} THEN [kept EXCEPT ![call.j].st = to]
                  ELSE IF Exists(call.j) THEN kept ELSE job
    /\ UNCHANGED <<item, runner, relays, stored, raced, asks, faults>>

(* retry_failed: the files are put back, then the job is run again if it    *)
(* had ended when it was read.                                              *)
RetryItems ==
    /\ call.op = "retry" /\ call' = [call EXCEPT !.op = "move"]
    /\ item' = [item EXCEPT ![call.j] = [f \in Files |->
                   IF @[f].st = "failed" THEN [st |-> "pending", att |-> 0] ELSE @[f]]]
    /\ raced' = IF job[call.j].st # call.st THEN raced \cup {call.j} ELSE raced
    /\ UNCHANGED <<job, runner, relays, stored, asks, faults>>

RetryMoves ==
    /\ call.op = "move" /\ call' = NoCall
    /\ IF call.st \in {"done", "failed"}
       THEN Moved(call.j, {"done", "failed"}, IF call.scanned THEN "running" ELSE "scanning")
       ELSE UNCHANGED job
    /\ UNCHANGED <<item, runner, relays, stored, raced, asks, faults>>

Delete ==
    /\ call.op = "delete" /\ call' = NoCall
    /\ job' = [job EXCEPT ![call.j].st = "gone"]
    /\ item' = [item EXCEPT ![call.j] = [f \in Files |-> NoItem]]
    /\ UNCHANGED <<runner, relays, stored, raced, asks, faults>>

(* The server stops and starts again.                                       *)
Restart ==
    /\ Fault
    /\ runner' = [Free EXCEPT !.pc = "start"] /\ relays' = {} /\ call' = NoCall
    /\ raced' = IF call.op = "move" THEN raced \cup {call.j} ELSE raced
    /\ UNCHANGED <<job, item, stored, asks>>

Runs ==
    \/ Requeue \/ Pick \/ Abort \/ ScanChecks \/ ScanLists \/ FinishScan \/ Claim \/ Drained \/ Close
    \/ Copy \/ Busy \/ Download \/ DownloadRejected \/ DownloadFails \/ HandedOff

Calls == Resume \/ RetryItems \/ RetryMoves \/ Delete
Relays == \E r \in relays : Spools(r) \/ Stores(r) \/ Reports(r)
Quiet == UNCHANGED vars

Next == Runs \/ Calls \/ Relays \/ Create \/ Pause \/ Cancel \/ CallReads \/ Restart \/ Quiet

(* The supervised loop and the upload tasks go on; everything else may stop. *)
Fairness == WF_vars(Runs) /\ WF_vars(Relays)

Spec == Init /\ [][Next]_vars /\ Fairness

-----------------------------------------------------------------------------
(* Rows exist for jobs that do.                                             *)
TypeOK ==
    \A j \in Jobs, f \in Files :
        /\ item[j][f].st \in {Nil, "pending", "in_progress", "done", "skipped", "failed"}
        /\ item[j][f].st # Nil => Exists(j)
        /\ item[j][f].att =< MAX_ATTEMPTS + MaxFaults

(* A file that is claimed is being copied by exactly one task, until the    *)
(* process ends (copy_item, settle_failure, release_item).                  *)
ClaimedIsCopied ==
    \A j \in Jobs, f \in Files :
        LET held == {r \in relays : r.j = j /\ r.f = f}
            here == runner.j = j /\ runner.f = f /\ runner.pc \in {"copy", "busy", "download"} IN
        item[j][f].st = "in_progress" =>
            \/ runner.pc = "start"
            \/ here /\ held = {}
            \/ ~here /\ Cardinality(held) = 1

(* A job that is done has dealt with every file of the source, each in the  *)
(* storage or counted as failed; a retry that overlaps the job's end aside  *)
(* (is_drained, finish_scan).                                               *)
DoneIsComplete ==
    \A j \in Jobs : job[j].st = "done" /\ j \notin raced /\ ~(call.op = "move" /\ call.j = j) =>
        \A f \in Files : f \in stored \/ item[j][f].st = "failed"

(* A job that the user stopped goes on only when the user says so           *)
(* (transition, finish_scan).                                               *)
KeepsEnd ==
    \A j \in Jobs : job[j].st \in {"paused", "cancelled"} /\ job'[j].st \in Active =>
        call.op = "resume" /\ call.j = j /\ job[j].st = "paused"

(* No job is active for ever (run_once).                                    *)
EveryImportEnds == []<>(\A j \in Jobs : job[j].st \notin Active)

(* What a retry puts back is run (ImportService::retry_failed).             *)
(* False, and in no run: a retry that comes between the last look for items *)
(* and the end of the job leaves its items pending in a job that is done.   *)
RetryRuns ==
    \A j \in Jobs : job[j].st = "done" /\ call = NoCall =>
        \A f \in Files : item[j][f].st # "pending"

(* Every file of a job is accounted for: in one task's hands while it is    *)
(* being copied, and stored or failed when the job is done.                 *)
ItemsAreAccounted == TypeOK /\ ClaimedIsCopied /\ DoneIsComplete
=============================================================================
