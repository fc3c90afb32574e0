------------------------------- MODULE AppLock -------------------------------
(***************************************************************************)
(* The preferences of the client, which hold the app lock (state.rs and     *)
(* commands.rs of the client).  Every command reads client_prefs.json       *)
(* anew, on its own thread and without a lock, and a save truncates the     *)
(* file before it writes it: what cannot be read counts as the defaults,    *)
(* with no lock.                                                            *)
(*                                                                          *)
(* Of the preferences the lock and the log switch are kept: the switch is   *)
(* the one an export writes as well.  A PIN stands for its salt and hash.   *)
(***************************************************************************)
EXTENDS Integers, FiniteSets

CONSTANTS
    Tasks,          \* commands that may run together
    Pins,
    Requests,       \* what they may ask for: op, on, pin, current, logs
    MaxCalls, MaxFaults \* bounds: commands; kills and failing writes

NoPin == "no pin"
Unusable == "too short"     \* what set_pin refuses

VARIABLES
    file,           \* what client_prefs.json says, when it can be read
    whole,          \* it can be read
    logging,        \* the process-wide log switch
    task,
    lock,           \* history: the PIN that the last save, or the first file, locks with
    mixed,          \* history: tasks during which another one saved
    loose,          \* history: the last save was mixed, killed half-way or failed half-way
    broken,         \* history: what went round the lock
    calls, faults

vars == <<file, whole, logging, task, lock, mixed, loose, broken, calls, faults>>

Default == [on |-> FALSE, pin |-> NoPin, old |-> NoPin, logs |-> TRUE]
NoAsk == [op |-> "", on |-> FALSE, pin |-> NoPin, current |-> NoPin, logs |-> TRUE]
Idle == [pc |-> "idle", ask |-> NoAsk, mine |-> Default]

Locks(p) == IF p.on THEN p.pin ELSE NoPin

\* mutant: an unusable old PIN leaves the lock on
MigratedStaysOn(p) == [p EXCEPT !.old = NoPin, !.pin = IF @ = NoPin /\ p.old \in Pins THEN p.old ELSE @]

(* A PIN in clear becomes a hash; one that cannot be one turns the lock off. *)
Migrated(p) ==
    CASE p.old = NoPin \/ p.pin # NoPin -> [p EXCEPT !.old = NoPin]
      [] p.pin = NoPin /\ p.old \in Pins -> [p EXCEPT !.old = NoPin, !.pin = p.old]
      [] OTHER -> [p EXCEPT !.old = NoPin, !.on = FALSE]

(* Files of this build and of those before it.                              *)
Init ==
    /\ whole \in BOOLEAN
    /\ file \in [on : BOOLEAN, pin : {NoPin}, old : Pins \union {NoPin, Unusable}, logs : BOOLEAN]
    /\ file.on => file.old # NoPin
    /\ whole \/ file = Default
    /\ logging = file.logs
    /\ task = [t \in Tasks |-> Idle]
    /\ lock = Locks(Migrated(file))
    /\ mixed = {} /\ loose = FALSE /\ broken = {}
    /\ calls = 0 /\ faults = 0

At(t, pc) == task[t].pc = pc
Go(t, pc) == task' = [task EXCEPT ![t].pc = pc]
Busy == {t \in Tasks : ~At(t, "idle")}
Has(p) == p.pin # NoPin

-----------------------------------------------------------------------------
(* A command from the page.                                                 *)

Ask(t) ==
    /\ At(t, "idle") /\ calls < MaxCalls
    /\ \E ask \in Requests :
           task' = [task EXCEPT ![t] = [pc |-> IF ask.op = "export" THEN "export" ELSE "load",
                                        ask |-> ask, mine |-> Default]]
    /\ mixed' = IF \E u \in Tasks : At(u, "migrating") \/ At(u, "saving")
                THEN mixed \union {t} ELSE mixed \ {t}
    /\ calls' = calls + 1
    /\ UNCHANGED <<file, whole, logging, lock, loose, broken, faults>>

(* export_logs: logging that is off is switched on, and the switch saved.   *)
Export(t) ==
    /\ At(t, "export")
    /\ logging' = TRUE /\ Go(t, IF logging THEN "idle" ELSE "load")
    /\ UNCHANGED <<file, whole, lock, mixed, loose, broken, calls, faults>>

Load(t) ==
    /\ At(t, "load")
    /\ LET p == IF whole THEN file ELSE Default IN
           task' = [task EXCEPT ![t].mine = Migrated(p),
                                ![t].pc = IF p.old = NoPin THEN "loaded" ELSE "migrate"]
    /\ UNCHANGED <<file, whole, logging, lock, mixed, loose, broken, calls, faults>>

(* write_private opens the file with truncate ...                           *)
SaveTruncates(t) ==
    /\ At(t, "migrate") \/ At(t, "save")
    /\ whole' = FALSE /\ mixed' = mixed \union (Busy \ {t})
    /\ Go(t, IF At(t, "migrate") THEN "migrating" ELSE "saving")
    /\ UNCHANGED <<file, logging, lock, loose, broken, calls, faults>>

(* ... and writes it, at worst over a longer text whose end is left.        *)
Writes(t) ==
    /\ file' = task[t].mine /\ whole' \in (IF whole THEN BOOLEAN ELSE {TRUE})
    /\ lock' = Locks(task[t].mine)
    /\ mixed' = mixed \union (Busy \ {t})
    /\ loose' = (t \in mixed)
    /\ broken' = IF /\ lock # NoPin /\ lock' # lock
                    /\ t \notin mixed /\ ~loose /\ task[t].ask.current # lock
                 THEN broken \union {"changed"} ELSE broken

(* load_prefs saves what it migrated, and goes on whether that worked.      *)
Migrates(t) == At(t, "migrate") \/ At(t, "migrating")
Saved(t) == Go(t, IF Migrates(t) THEN "loaded" ELSE "idle")

(* Both switches of the log follow.                                         *)
SaveWrites(t) ==
    /\ At(t, "migrating") \/ At(t, "saving")
    /\ Writes(t) /\ logging' = task[t].mine.logs /\ Saved(t)
    /\ UNCHANGED <<calls, faults>>

(* The file cannot be opened, or not be written once it was truncated, or   *)
(* not be synced once it was written: the command reports the error or      *)
(* ignores it, and puts nothing back.                                       *)
SaveFails(t) ==
    /\ faults < MaxFaults /\ faults' = faults + 1
    /\ \/ /\ At(t, "migrate") \/ At(t, "save")
          /\ UNCHANGED <<file, whole, lock, mixed, loose, broken>>
       \/ /\ At(t, "migrating") \/ At(t, "saving")
          /\ loose' = TRUE /\ mixed' = mixed \union (Busy \ {t})
          /\ UNCHANGED <<file, whole, lock, broken>>
       \/ (At(t, "migrating") \/ At(t, "saving")) /\ Writes(t)
    /\ Saved(t)
    /\ UNCHANGED <<logging, calls>>

-----------------------------------------------------------------------------
(* What the commands do with what they read.                                *)

\* mutant: only a change of the PIN asks for it
WrongPinOnChange(p, ask) == Has(p) /\ ask.pin # NoPin /\ ask.current # p.pin

WrongPin(p, ask) ==
    /\ Has(p) /\ (ask.pin # NoPin \/ (p.on /\ ~ask.on))
    /\ ask.current # p.pin

(* apply_dto: an error leaves the file alone.                               *)
Set(t) ==
    /\ At(t, "loaded") /\ task[t].ask.op = "set"
    /\ LET ask == task[t].ask
           p == task[t].mine
           pin == IF ask.pin = NoPin THEN p.pin ELSE ask.pin
       IN IF WrongPin(p, ask) \/ ask.pin = Unusable \/ (ask.on /\ pin = NoPin)
          THEN Go(t, "idle")
          ELSE task' = [task EXCEPT
                   ![t].pc = "save",
                   ![t].mine = [p EXCEPT !.on = ask.on, !.pin = IF ask.on THEN pin ELSE NoPin,
                                         !.logs = ask.logs]]
    /\ UNCHANGED <<file, whole, logging, lock, mixed, loose, broken, calls, faults>>

Exported(t) ==
    /\ At(t, "loaded") /\ task[t].ask.op = "export"
    /\ task' = [task EXCEPT ![t].pc = "save", ![t].mine.logs = TRUE]
    /\ UNCHANGED <<file, whole, logging, lock, mixed, loose, broken, calls, faults>>

Got(t) ==
    /\ At(t, "loaded") /\ task[t].ask.op = "get"
    /\ Go(t, "idle")
    /\ UNCHANGED <<file, whole, logging, lock, mixed, loose, broken, calls, faults>>

Opens(p, pin) == ~p.on \/ ~Has(p) \/ (pin # NoPin /\ pin = p.pin)

(* The answer is about the preferences read before the delay of a guess.    *)
Verify(t) ==
    /\ At(t, "loaded") /\ task[t].ask.op = "verify"
    /\ Go(t, "idle")
    /\ LET pin == task[t].ask.current IN
           broken' = IF /\ Opens(task[t].mine, pin) /\ lock # NoPin /\ pin # lock
                        /\ t \notin mixed /\ ~loose
                     THEN broken \union {"opened"} ELSE broken
    /\ UNCHANGED <<file, whole, logging, lock, mixed, loose, calls, faults>>

(* The app ends and is started: the first load, which nothing races.        *)
Kill ==
    /\ Busy # {} /\ faults < MaxFaults
    /\ LET p == IF whole THEN file ELSE Default IN
           /\ file' = Migrated(p) /\ whole' = (whole \/ p.old # NoPin)
           /\ logging' = p.logs
           /\ loose' = (loose \/ ~whole)
    /\ task' = [t \in Tasks |-> Idle] /\ mixed' = {} /\ faults' = faults + 1
    /\ UNCHANGED <<lock, broken, calls>>

Step(t) ==
    \/ Export(t) \/ Load(t) \/ SaveTruncates(t) \/ SaveWrites(t) \/ SaveFails(t)
    \/ Set(t) \/ Exported(t) \/ Got(t) \/ Verify(t)

Next == (\E t \in Tasks : Ask(t) \/ Step(t)) \/ Kill \/ (calls = MaxCalls /\ Busy = {} /\ UNCHANGED vars)

Spec == Init /\ [][Next]_vars

-----------------------------------------------------------------------------
(* Properties.                                                              *)

AllPins == Pins \union {NoPin, Unusable}

TypeOK ==
    /\ file \in [on : BOOLEAN, pin : AllPins, old : AllPins, logs : BOOLEAN]
    /\ whole \in BOOLEAN /\ logging \in BOOLEAN /\ loose \in BOOLEAN
    /\ lock \in Pins \union {NoPin} /\ mixed \subseteq Tasks /\ broken \subseteq {"opened", "changed"}
    /\ calls \in 0..MaxCalls /\ faults \in 0..MaxFaults

(* A lock that is on has a PIN to be opened with, in the file and in every  *)
(* command's hands: "nothing to verify against would make the gate wave     *)
(* everyone through" (migrate_legacy_pin, apply_dto).                       *)
LockedHasPin ==
    /\ file.on => file.pin # NoPin \/ file.old # NoPin
    /\ \A t \in Tasks : task[t].mine.on => Has(task[t].mine)

(* A command that overlaps no save, after saves that overlapped nothing and *)
(* were neither killed nor failed between truncating and writing, opens for *)
(* the PIN of the last save only, and only who gives that PIN changes it or *)
(* turns it off (verify_app_lock_pin, set_client_prefs, export_logs).       *)
OnlyItsPinOpens == broken = {}

(* The app lock: both, with the types.                                      *)
LockHolds == TypeOK /\ LockedHasPin /\ OnlyItsPinOpens
=============================================================================
