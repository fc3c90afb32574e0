------------------------------- MODULE Update -------------------------------
(***************************************************************************)
(* The server's update of itself (services/update.rs): apply() stages the   *)
(* newest release beside the live install, swaps it in by renames, and the  *)
(* request's timer re-executes the process (routers/settings.rs).           *)
(* The requests share one staging directory and take no lock.               *)
(*                                                                          *)
(* Versions are numbers.  A release appears while no update is under way.   *)
(***************************************************************************)
EXTENDS Integers

CONSTANTS
    Requests,       \* concurrent POST /settings/update
    InodePath,      \* TRUE where current_exe() follows the running file (Linux), FALSE elsewhere
    MaxRelease, MaxFaults   \* bounds

Nil == 0
(* A file that is still being written.                                      *)
Part == -1

VARIABLES
    latest,     \* the newest release
    bin, ui, oldBin, oldUi, version,  \* the install's entries and its VERSION file
    stage,      \* .sarca-update: whether it and unpacked/ exist, and what they hold
    writers,    \* requests whose download is the archive that is linked there
    running,    \* the version that runs (Nil: none)
    exe,        \* where the running file is now
    at, want,   \* each request: its step and the version it found
    timer,      \* a restart is due
    torn,       \* history: a kill in a swap, two swaps at once, or a file that could not move aside
    faults

install == <<bin, ui, oldBin, oldUi, version>>
vars == <<latest, install, stage, writers, running, exe, at, want, timer, torn, faults>>

NoStage == [dir |-> FALSE, unpacked |-> FALSE, archive |-> Nil, bin |-> Nil, ui |-> Nil]

Init ==
    /\ latest = 1 /\ bin = 1 /\ ui = 1 /\ oldBin = Nil /\ oldUi = Nil /\ version = 1
    /\ stage = NoStage /\ writers = {} /\ running = 1 /\ exe = "bin"
    /\ at = [r \in Requests |-> "idle"] /\ want = [r \in Requests |-> Nil]
    /\ timer = FALSE /\ torn = FALSE /\ faults = 0

Fault == faults < MaxFaults /\ faults' = faults + 1
Goto(r, step) == at' = [at EXCEPT ![r] = step]
Swapping == {"clean", "uiAside", "uiIn", "binAside", "binIn", "sweep"}
InSwap(r) == at[r] \in Swapping

-----------------------------------------------------------------------------
(* apply(): check() finds a newer release, then it is asked for again.      *)

Publish ==
    /\ latest < MaxRelease /\ \A r \in Requests : at[r] = "idle"
    /\ latest' = latest + 1
    /\ UNCHANGED <<install, stage, writers, running, exe, at, want, timer, torn, faults>>

Check(r) ==
    /\ at[r] = "idle" /\ running # Nil /\ latest > running
    /\ want' = [want EXCEPT ![r] = latest] /\ Goto(r, "clear")
    /\ UNCHANGED <<latest, install, stage, writers, running, exe, timer, torn, faults>>

(* What an earlier attempt left is removed: also what another one stages.   *)
Clear(r) ==
    /\ at[r] = "clear" /\ stage' = NoStage /\ writers' = {} /\ Goto(r, "make")
    /\ UNCHANGED <<latest, install, running, exe, want, timer, torn, faults>>

Make(r) ==
    /\ at[r] = "make" /\ stage' = [stage EXCEPT !.dir = TRUE] /\ Goto(r, "open")
    /\ UNCHANGED <<latest, install, writers, running, exe, want, timer, torn, faults>>

(* The error leaves the staging directory as it is.                         *)
Fails(r) == Goto(r, "idle") /\ UNCHANGED <<install, stage, writers, torn>>

Open(r) ==
    /\ at[r] = "open"
    /\ \/ /\ stage.dir
          /\ stage' = [stage EXCEPT !.archive = Part] /\ writers' = writers \cup {r}
          /\ Goto(r, "download") /\ UNCHANGED <<install, torn, faults>>
       \/ ~stage.dir /\ Fails(r) /\ UNCHANGED faults
       \/ Fault /\ Fails(r)
    /\ UNCHANGED <<latest, running, exe, want, timer>>

(* The archive is whole when nobody else still writes into the file.        *)
Download(r) ==
    /\ at[r] = "download"
    /\ \/ /\ writers' = writers \ {r}
          /\ stage' = IF writers = {r} THEN [stage EXCEPT !.archive = want[r]] ELSE stage
          /\ Goto(r, "unpack") /\ UNCHANGED <<install, torn, faults>>
       \/ Fault /\ Fails(r)
    /\ UNCHANGED <<latest, running, exe, want, timer>>

(* extract: an archive that is not whole does not unpack.                   *)
Unpack(r) ==
    /\ at[r] = "unpack"
    /\ \/ /\ stage.archive \notin {Nil, Part}
          /\ stage' = [stage EXCEPT !.unpacked = TRUE, !.bin = stage.archive] /\ Goto(r, "unpackUi")
          /\ UNCHANGED <<install, writers, torn, faults>>
       \/ /\ stage.archive \in {Nil, Part} /\ Goto(r, "idle")
          /\ stage' = [stage EXCEPT !.dir = TRUE, !.unpacked = TRUE]
          /\ UNCHANGED <<install, writers, torn, faults>>
       \/ Fault /\ Fails(r)
    /\ UNCHANGED <<latest, running, exe, want, timer>>

UnpackUi(r) ==
    /\ at[r] = "unpackUi"
    /\ \/ /\ stage.unpacked /\ stage' = [stage EXCEPT !.ui = want[r]] /\ Goto(r, "layout")
          /\ UNCHANGED <<install, writers, torn, faults>>
       \/ ~stage.unpacked /\ Fails(r) /\ UNCHANGED faults
       \/ Fault /\ Fails(r)
    /\ UNCHANGED <<latest, running, exe, want, timer>>

(* Both parts are there, or nothing is replaced.                            *)
Layout(r) ==
    /\ at[r] = "layout"
    /\ IF stage.bin # Nil /\ stage.ui # Nil
       THEN /\ Goto(r, "clean") /\ UNCHANGED <<stage, writers>>
            /\ torn' = (torn \/ \E s \in Requests \ {r} : InSwap(s))
       ELSE Goto(r, "idle") /\ stage' = NoStage /\ writers' = {} /\ UNCHANGED torn
    /\ UNCHANGED <<latest, install, running, exe, want, timer, faults>>

-----------------------------------------------------------------------------
(* swap_in_place, one rename a step.                                        *)

Clean(r) ==
    /\ at[r] = "clean" /\ oldBin' = Nil /\ oldUi' = Nil /\ Goto(r, "uiAside")
    /\ exe' = IF exe = "old" THEN "gone" ELSE exe
    /\ UNCHANGED <<latest, bin, ui, version, stage, writers, running, want, timer, torn, faults>>

UiAside(r) ==
    /\ at[r] = "uiAside"
    /\ \/ /\ ui = Nil \/ oldUi = Nil
          /\ oldUi' = IF ui = Nil THEN oldUi ELSE ui
          /\ ui' = Nil /\ Goto(r, "uiIn") /\ UNCHANGED faults
       \/ /\ \/ ui # Nil /\ oldUi # Nil /\ UNCHANGED faults
             \/ Fault
          /\ Goto(r, "fail") /\ UNCHANGED <<ui, oldUi>>
    /\ UNCHANGED <<latest, bin, oldBin, version, stage, writers, running, exe, want, timer, torn>>

(* The old one is put back.                                                 *)
UiBack == IF oldUi # Nil THEN ui' = oldUi /\ oldUi' = Nil ELSE UNCHANGED <<ui, oldUi>>

UiIn(r) ==
    /\ at[r] = "uiIn"
    /\ \/ /\ stage.ui # Nil /\ ui = Nil
          /\ ui' = stage.ui /\ stage' = [stage EXCEPT !.ui = Nil] /\ Goto(r, "binAside")
          /\ UNCHANGED <<oldUi, faults>>
       \/ /\ \/ (stage.ui = Nil \/ ui # Nil) /\ UNCHANGED faults
             \/ Fault
          /\ IF ui = Nil THEN UiBack ELSE UNCHANGED <<ui, oldUi>>
          /\ Goto(r, "fail") /\ UNCHANGED stage
    /\ UNCHANGED <<latest, bin, oldBin, version, writers, running, exe, want, timer, torn>>

(* A binary that cannot be moved aside leaves the new interface in place.   *)
BinAside(r) ==
    /\ at[r] = "binAside"
    /\ \/ /\ IF bin = Nil THEN UNCHANGED <<bin, oldBin, exe>>
             ELSE /\ oldBin' = bin /\ bin' = Nil
                  /\ exe' = IF exe = "bin" THEN "old" ELSE IF exe = "old" THEN "gone" ELSE exe
          /\ Goto(r, "binIn") /\ UNCHANGED <<torn, faults>>
       \/ bin # Nil /\ Fault /\ torn' = TRUE /\ Goto(r, "fail") /\ UNCHANGED <<bin, oldBin, exe>>
    /\ UNCHANGED <<latest, ui, oldUi, version, stage, writers, running, want, timer>>

\* mutant: the interface stays the new one
BinInForgets(r) ==
    /\ at[r] = "binIn"
    /\ \/ /\ stage.bin # Nil /\ bin' = stage.bin /\ stage' = [stage EXCEPT !.bin = Nil] /\ Goto(r, "sweep")
          /\ exe' = IF exe = "bin" THEN "gone" ELSE exe
          /\ UNCHANGED <<ui, oldUi, oldBin, faults>>
       \/ /\ \/ stage.bin = Nil /\ UNCHANGED faults
             \/ Fault
          /\ IF oldBin # Nil
             THEN bin' = oldBin /\ oldBin' = Nil /\ exe' = IF exe = "old" THEN "bin" ELSE exe
             ELSE UNCHANGED <<bin, oldBin, exe>>
          /\ Goto(r, "fail") /\ UNCHANGED <<stage, ui, oldUi>>
    /\ UNCHANGED <<latest, version, writers, running, want, timer, torn>>

BinIn(r) ==
    /\ at[r] = "binIn"
    /\ \/ /\ stage.bin # Nil /\ bin' = stage.bin /\ stage' = [stage EXCEPT !.bin = Nil] /\ Goto(r, "sweep")
          /\ exe' = IF exe = "bin" THEN "gone" ELSE exe
          /\ UNCHANGED <<ui, oldUi, oldBin, faults>>
       \/ /\ \/ stage.bin = Nil /\ UNCHANGED faults
             \/ Fault
          /\ IF oldBin # Nil
             THEN bin' = oldBin /\ oldBin' = Nil /\ exe' = IF exe = "old" THEN "bin" ELSE exe
             ELSE UNCHANGED <<bin, oldBin, exe>>
          /\ ui' = oldUi /\ oldUi' = Nil
          /\ Goto(r, "fail") /\ UNCHANGED stage
    /\ UNCHANGED <<latest, version, writers, running, want, timer, torn>>

Sweep(r) ==
    /\ at[r] = "sweep" /\ oldBin' = Nil /\ oldUi' = Nil /\ Goto(r, "done")
    /\ exe' = IF exe = "old" THEN "gone" ELSE exe
    /\ UNCHANGED <<latest, bin, ui, version, stage, writers, running, want, timer, torn, faults>>

-----------------------------------------------------------------------------
(* The staging directory goes, whether the swap was made or not.            *)

Finish(r) ==
    /\ at[r] \in {"done", "fail"} /\ Goto(r, "idle")
    /\ stage' = NoStage /\ writers' = {}
    /\ \/ at[r] = "done" /\ version' = want[r] /\ timer' = TRUE /\ UNCHANGED faults
       \/ at[r] = "done" /\ Fault /\ timer' = TRUE /\ UNCHANGED version
       \/ at[r] = "fail" /\ UNCHANGED <<version, timer, faults>>
    /\ UNCHANGED <<latest, bin, ui, oldBin, oldUi, running, exe, want, torn>>

(* The file that exec would run.                                            *)
Target ==
    IF ~InodePath THEN bin
    ELSE CASE exe = "bin" -> bin [] exe = "old" -> oldBin [] exe = "gone" -> Nil

(* Every request under way ends with the process.                           *)
Ends(v) ==
    /\ running' = v /\ timer' = FALSE
    /\ exe' = IF v # Nil /\ v # bin THEN "old" ELSE "bin"
    /\ at' = [r \in Requests |-> "idle"] /\ writers' = {}
    /\ torn' = (torn \/ \E r \in Requests : InSwap(r))
    /\ UNCHANGED <<latest, install, stage, want>>

(* restart_into_new_binary: an exec that fails ends the process.            *)
Restart == timer /\ Ends(Target) /\ UNCHANGED faults

Kill == running # Nil /\ Fault /\ Ends(Nil)

(* Nothing but the operator starts a server that has ended.                 *)
Start ==
    /\ running = Nil /\ bin # Nil /\ running' = bin /\ exe' = "bin"
    /\ UNCHANGED <<latest, install, stage, writers, at, want, timer, torn, faults>>

Step(r) ==
    \/ Clear(r) \/ Make(r) \/ Open(r) \/ Download(r) \/ Unpack(r) \/ UnpackUi(r) \/ Layout(r)
    \/ Clean(r) \/ UiAside(r) \/ UiIn(r) \/ BinAside(r) \/ BinIn(r) \/ Sweep(r) \/ Finish(r)

Next ==
    \/ Publish \/ Restart \/ Kill \/ Start \/ UNCHANGED vars
    \/ \E r \in Requests : Check(r) \/ Step(r)

Spec == Init /\ [][Next]_vars

-----------------------------------------------------------------------------
TypeOK ==
    /\ {bin, ui, oldBin, oldUi, running} \subseteq 0..MaxRelease /\ version \in 1..latest
    /\ exe \in {"bin", "old", "gone"} /\ stage.archive \in -1..MaxRelease
    /\ \A r \in Requests : at[r] # "idle" => running # Nil /\ want[r] \in 1..latest

(* "Nothing is replaced until everything has been downloaded and unpacked": *)
(* outside a swap the install has a binary and an interface, of one         *)
(* version, whatever fails and whoever else updates; a kill inside a swap,  *)
(* two swaps at once and a binary that cannot be moved aside set torn       *)
(* (apply, swap_in_place).                                                  *)
InstallIsWhole ==
    ~torn /\ (\A r \in Requests : ~InSwap(r)) => bin # Nil /\ ui = bin /\ version =< bin

(* A restart that is due brings the version of the install up: nothing else *)
(* would (restart_into_new_binary).                                         *)
RestartsIntoNew == [][timer /\ ~timer' /\ faults' = faults /\ ~torn => running' = bin]_vars

(* The install is whole and every request works on a release there is.      *)
InstallHolds == TypeOK /\ InstallIsWhole
=============================================================================
