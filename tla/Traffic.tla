------------------------------- MODULE Traffic -------------------------------
(***************************************************************************)
(* What stands between an upload and Telegram: the admission to the spool   *)
(* (services/files.rs SpoolUsage, routers/files.rs upload), the storage     *)
(* manager's gate (storage_manager.rs), the chunks of a file in flight      *)
(* (services/storage_manager.rs), the bots' budget (repositories/           *)
(* storage_workers.rs get_token) and the send gate of each bot and chat     *)
(* with its flood window (common/telegram_api/bot_api.rs).                  *)
(*                                                                          *)
(* A send is a chunk of a file or a copy, deletion or thumbnail of its own. *)
(* Windows and minutes end by steps of their own; a gate is a fair queue.   *)
(***************************************************************************)
EXTENDS Integers, Sequences, FiniteSets, SequencesExt, FiniteSetsExt, Functions

CONSTANTS
    Files,           \* uploads
    Chunks,          \* 1 .. n, of every file; one unit of space each
    Others,          \* sends that belong to no file
    Chats,           \* 0 .. n - 1, the storage's channels, the primary first
    Bots,
    UploadLimit,     \* upload_concurrency
    ChunkLimit,      \* chunk_concurrency
    SendLimit,       \* send_concurrency
    Rate,            \* telegram_rate_limit
    MaxAttempts,
    Budget,          \* upload_spool_budget_bytes
    Disk,            \* space under WORK_DIR, less the reserve
    MaxFloods,       \* bound: flood answers
    MaxErrors        \* bound: network errors and 5xx

ASSUME TrafficAssumption ==
    /\ Chunks = 1 .. Cardinality(Chunks) /\ Chats = 0 .. Cardinality(Chats) - 1
    /\ {UploadLimit, ChunkLimit, SendLimit, Rate, MaxAttempts} \subseteq Nat \ {0}
    /\ {Budget, Disk, MaxFloods, MaxErrors} \subseteq Nat

Size == Cardinality(Chunks)
Sends == (Files \X Chunks) \cup Others
Gates == Bots \X Chats
NoBot == "no bot"

(* Chunks are dealt to the channels in turn; the rest goes to the primary.  *)
ChatOf(t) == IF t \in Others THEN 0 ELSE (t[2] - 1) % Cardinality(Chats)
SendsOf(f) == {f} \X Chunks

VARIABLES
    stage,            \* files: "out", "spooling", "queued", "running", "done", "failed"
    inbox,            \* the storage manager's channel
    weight,           \* permits of the file gate a running file holds
    st,               \* sends: "todo", "token", "gate", "send", "flood", "done", "dropped"
    bot, slots, tries,\* their bot, their permits (asked for or held), failed attempts
    line,             \* the waiters of each send gate, first come first served
    window,           \* gates inside their flood window
    flooded,          \* the process-wide window
    sorry,            \* history: the files and sends that began inside a window
    used,             \* sends of each bot in the last minute
    floods, errors

fileVars == <<stage, inbox, weight>>
sendVars == <<st, bot, slots, tries>>
gateVars == <<line, window, flooded, sorry>>
vars == <<fileVars, sendVars, gateVars, used, floods, errors>>

Init ==
    /\ stage = [f \in Files |-> "out"] /\ inbox = <<>> /\ weight = [f \in Files |-> 0]
    /\ st = [t \in Sends |-> "todo"] /\ bot = [t \in Sends |-> NoBot]
    /\ slots = [t \in Sends |-> 0] /\ tries = [t \in Sends |-> 0]
    /\ line = [g \in Gates |-> <<>>] /\ window = {} /\ flooded = FALSE
    /\ sorry = {}
    /\ used = [b \in Bots |-> 0] /\ floods = 0 /\ errors = 0

-----------------------------------------------------------------------------
(* Admission to the spool.                                                  *)

Relaying == {f \in Files : stage[f] \in {"queued", "running"}}
OnDisk == Size * Cardinality({f \in Files : stage[f] \in {"spooling", "queued", "running"}})
Stored(f) == Cardinality({t \in SendsOf(f) : st[t] = "done"})

(* spool_usage: what the running relays have not sent yet.                  *)
Unrelayed == FoldSet(LAMBDA f, n : n + Size - Stored(f), 0, Relaying)

\* mutant: an empty backlog does not admit what is larger than the budget
AdmitWithinBudget(n) ==
    IF Disk - OnDisk < n THEN IF Disk >= n THEN "busy" ELSE "no room"
    ELSE IF Unrelayed + n > Budget THEN "busy" ELSE "admit"

(* Disk first: what a relay holds is room one gets by waiting.  Then the    *)
(* backlog; an empty one admits anything.                                   *)
Admit(n) ==
    IF Disk - OnDisk < n THEN IF Disk >= n THEN "busy" ELSE "no room"
    ELSE IF Unrelayed > 0 /\ Unrelayed + n > Budget THEN "busy" ELSE "admit"

(* The upload is let in before its body is read; the spool is on disk       *)
(* before its relay counts as backlog.  Busy ones come back.                *)
Upload(f) ==
    /\ stage[f] = "out" /\ Admit(Size) = "admit"
    /\ stage' = [stage EXCEPT ![f] = "spooling"]
    /\ UNCHANGED <<inbox, weight, sendVars, gateVars, used, floods, errors>>

(* 503 with the busy header, or 507: nothing was read of the body.          *)
TurnedAway(f) ==
    /\ stage[f] = "out" /\ Admit(Size) # "admit"
    /\ UNCHANGED vars

Spooled(f) ==
    /\ stage[f] = "spooling"
    /\ stage' = [stage EXCEPT ![f] = "queued"] /\ inbox' = Append(inbox, f)
    /\ UNCHANGED <<weight, sendVars, gateVars, used, floods, errors>>

-----------------------------------------------------------------------------
(* The storage manager: one message at a time waits at the file gate, for   *)
(* all of it while a flood window is open.                                  *)

GateFree == UploadLimit - FoldSet(LAMBDA f, n : n + weight[f], 0, Files)

\* mutant: a flood window does not make a file run alone
WeightOne == 1

Weight == IF flooded THEN UploadLimit ELSE 1

Run ==
    /\ inbox # <<>>
    /\ GateFree >= Weight
    /\ weight' = [weight EXCEPT ![Head(inbox)] = Weight]
    /\ stage' = [stage EXCEPT ![Head(inbox)] = "running"] /\ inbox' = Tail(inbox)
    /\ sorry' = IF flooded THEN sorry \cup {Head(inbox)} ELSE sorry
    /\ UNCHANGED <<sendVars, line, window, flooded, used, floods, errors>>

Active(f) == {t \in SendsOf(f) : st[t] \in {"token", "gate", "send", "flood"}}

(* buffer_unordered: the next chunks start while there is room.             *)
StartChunk(f) ==
    /\ stage[f] = "running" /\ Cardinality(Active(f)) < ChunkLimit
    /\ \E t \in SendsOf(f) :
           /\ st[t] = "todo" /\ \A u \in SendsOf(f) : u[2] < t[2] => st[u] # "todo"
           /\ st' = [st EXCEPT ![t] = "token"]
    /\ UNCHANGED <<fileVars, bot, slots, tries, gateVars, used, floods, errors>>

StartOther(t) ==
    /\ t \in Others /\ st[t] = "todo"
    /\ st' = [st EXCEPT ![t] = "token"]
    /\ UNCHANGED <<fileVars, bot, slots, tries, gateVars, used, floods, errors>>

FileDone(f) ==
    /\ stage[f] = "running" /\ \A t \in SendsOf(f) : st[t] = "done"
    /\ stage' = [stage EXCEPT ![f] = "done"] /\ weight' = [weight EXCEPT ![f] = 0]
    /\ UNCHANGED <<inbox, sendVars, gateVars, used, floods, errors>>

-----------------------------------------------------------------------------
(* The bots' budget, and the gate of a bot and a chat.                      *)

(* The bot that was used least, if one is under the rate.                   *)
GetToken(t, b) ==
    /\ st[t] = "token"
    /\ used[b] < Rate /\ \A c \in Bots : used[b] =< used[c]
    /\ used' = [used EXCEPT ![b] = @ + 1]
    /\ bot' = [bot EXCEPT ![t] = b]
    /\ LET g == <<b, ChatOf(t)>> IN
           /\ slots' = [slots EXCEPT ![t] = IF g \in window THEN SendLimit ELSE 1]
           /\ line' = [line EXCEPT ![g] = Append(@, t)]
           /\ sorry' = IF g \in window THEN sorry \cup {t} ELSE sorry
    /\ st' = [st EXCEPT ![t] = "gate"]
    /\ UNCHANGED <<fileVars, tries, window, flooded, floods, errors>>

Gate(t) == <<bot[t], ChatOf(t)>>
Holders(g) == {t \in Sends : st[t] \in {"send", "flood"} /\ Gate(t) = g}
SlotsFree(g) == SendLimit - FoldSet(LAMBDA t, n : n + slots[t], 0, Holders(g))

\* mutant: a waiter is let in as soon as one permit is free
AcquireAny(g) ==
    /\ line[g] # <<>> /\ SlotsFree(g) >= 1
    /\ st' = [st EXCEPT ![Head(line[g])] = "send"]
    /\ line' = [line EXCEPT ![g] = Tail(@)]
    /\ UNCHANGED <<fileVars, bot, slots, tries, window, flooded, sorry, used, floods, errors>>

(* The first of the line, when the permits it asked for are free.           *)
Acquire(g) ==
    /\ line[g] # <<>> /\ SlotsFree(g) >= slots[Head(line[g])]
    /\ st' = [st EXCEPT ![Head(line[g])] = "send"]
    /\ line' = [line EXCEPT ![g] = Tail(@)]
    /\ UNCHANGED <<fileVars, bot, slots, tries, window, flooded, sorry, used, floods, errors>>

Sent(t) ==
    /\ st[t] = "send"
    /\ st' = [st EXCEPT ![t] = "done"]
    /\ UNCHANGED <<fileVars, bot, slots, tries, gateVars, used, floods, errors>>

(* A flood answer: the permits are held while the wait is honoured, and the *)
(* window opens after it; any number of them is retried.                    *)
FloodWait(t) ==
    /\ st[t] = "send" /\ floods < MaxFloods /\ floods' = floods + 1
    /\ st' = [st EXCEPT ![t] = "flood"]
    /\ UNCHANGED <<fileVars, bot, slots, tries, gateVars, used, errors>>

NoteFlood(t) ==
    /\ st[t] = "flood"
    /\ st' = [st EXCEPT ![t] = "send"]
    /\ window' = window \cup {Gate(t)} /\ flooded' = TRUE
    /\ UNCHANGED <<fileVars, bot, slots, tries, line, sorry, used, floods, errors>>

Error == errors < MaxErrors /\ errors' = errors + 1

SendAgain(t) ==
    /\ st[t] = "send" /\ Error /\ tries[t] + 1 < MaxAttempts
    /\ tries' = [tries EXCEPT ![t] = @ + 1]
    /\ UNCHANGED <<fileVars, st, bot, slots, gateVars, used, floods>>

\* mutant: the other chunks of the file are not called off
DropOnly(T) == st' = [t \in Sends |-> IF t \in T /\ st[t] = "send" THEN "dropped" ELSE st[t]]

(* Sends that are called off: they leave their lines and their gates.       *)
Drop(T) == st' = [t \in Sends |-> IF t \in T /\ st[t] # "done" THEN "dropped" ELSE st[t]]

LeaveLines(T) == line' = [g \in Gates |-> SelectSeq(line[g], LAMBDA t : t \notin T)]

(* Out of attempts: the first error ends the file, with its other chunks.   *)
SendFails(f) ==
    /\ \E t \in SendsOf(f) : st[t] = "send" /\ tries[t] + 1 >= MaxAttempts
    /\ Error
    /\ Drop(SendsOf(f)) /\ LeaveLines(SendsOf(f))
    /\ stage' = [stage EXCEPT ![f] = "failed"] /\ weight' = [weight EXCEPT ![f] = 0]
    /\ UNCHANGED <<inbox, bot, slots, tries, window, flooded, sorry, used, floods>>

OtherFails(t) ==
    /\ t \in Others /\ st[t] = "send" /\ tries[t] + 1 >= MaxAttempts
    /\ Error
    /\ st' = [st EXCEPT ![t] = "dropped"]
    /\ UNCHANGED <<fileVars, bot, slots, tries, gateVars, used, floods>>

-----------------------------------------------------------------------------
(* Time: a minute passes, a window closes; the process-wide window is at    *)
(* least as long as any other.                                              *)

MinutePasses ==
    /\ \E b \in Bots : used[b] > 0
    /\ used' = [b \in Bots |-> 0]
    /\ UNCHANGED <<fileVars, sendVars, gateVars, floods, errors>>

WindowCloses(g) ==
    /\ g \in window
    /\ window' = window \ {g}
    /\ UNCHANGED <<fileVars, sendVars, line, flooded, sorry, used, floods, errors>>

FloodEnds ==
    /\ flooded /\ window = {}
    /\ flooded' = FALSE
    /\ UNCHANGED <<fileVars, sendVars, line, window, sorry, used, floods, errors>>

(* Everything is stored or failed: the server waits for requests.           *)
Rest ==
    /\ \A f \in Files : stage[f] \in {"done", "failed"}
    /\ UNCHANGED vars

Work ==
    \/ Run
    \/ \E f \in Files : Upload(f) \/ Spooled(f) \/ StartChunk(f) \/ FileDone(f)
    \/ \E t \in Sends : Sent(t) \/ NoteFlood(t) \/ \E b \in Bots : GetToken(t, b)
    \/ \E g \in Gates : Acquire(g)

Next ==
    \/ Work \/ MinutePasses \/ FloodEnds \/ Rest
    \/ \E f \in Files : TurnedAway(f) \/ SendFails(f)
    \/ \E t \in Sends : StartOther(t) \/ FloodWait(t) \/ SendAgain(t) \/ OtherFails(t)
    \/ \E g \in Gates : WindowCloses(g)

Spec == Init /\ [][Next]_vars

(* The server's tasks are polled, a busy client comes back, a send is       *)
(* answered in the end, and time passes.                                    *)
FairSpec == Spec /\ WF_vars(Work) /\ WF_vars(MinutePasses)

-----------------------------------------------------------------------------
(* Every variable stays in its range, and no gate has given out more        *)
(* permits than it has.                                                     *)
TypeOK ==
    /\ stage \in [Files -> {"out", "spooling", "queued", "running", "done", "failed"}]
    /\ inbox \in Seq(Files) /\ weight \in [Files -> 0 .. UploadLimit]
    /\ st \in [Sends -> {"todo", "token", "gate", "send", "flood", "done", "dropped"}]
    /\ bot \in [Sends -> Bots \cup {NoBot}] /\ slots \in [Sends -> 0 .. SendLimit]
    /\ tries \in [Sends -> 0 .. MaxAttempts] /\ line \in [Gates -> Seq(Sends)]
    /\ window \subseteq Gates /\ flooded \in BOOLEAN
    /\ sorry \subseteq Files \cup Sends
    /\ used \in [Bots -> 0 .. Rate] /\ floods \in 0 .. MaxFloods /\ errors \in 0 .. MaxErrors
    /\ GateFree >= 0 /\ \A g \in Gates : SlotsFree(g) >= 0

(* Whoever starts inside a flood window sends alone on its bot and chat,    *)
(* and a file that starts while one is open anywhere is relayed alone       *)
(* (SendPermit::acquire, StorageManager::run).                              *)
FloodedRunAlone ==
    /\ \A g \in Gates : \A t \in Holders(g) : t \in sorry => Holders(g) = {t}
    /\ \A f, h \in Files : f # h /\ f \in sorry /\ stage[f] = "running" => stage[h] # "running"

(* Only chunks of files that are being relayed are on their way: a file     *)
(* that failed leaves nobody in a line and nobody at a gate                 *)
(* (buffer_unordered and try_collect in StorageManagerService::upload).     *)
NothingOutlivesItsFile ==
    \A f \in Files : stage[f] # "running" =>
        /\ Active(f) = {}
        /\ \A g \in Gates : \A i \in 1 .. Len(line[g]) : line[g][i] \notin SendsOf(f)

(* Every upload ends, stored or failed: admission, the file gate, the rate, *)
(* and the send gates in a flood never hold each other up, and an upload    *)
(* larger than the budget is let in when the backlog is empty.              *)
EveryUploadEnds == \A f \in Files : <>(stage[f] \in {"done", "failed"})

(* The spool budget caps the bytes that are not relayed yet, one upload     *)
(* that is larger than all of it excepted (SpoolUsage::admit).              *)
(* False, and in no run: an upload is let in before its body is read, and   *)
(* counts only once its relay has begun.                                    *)
BacklogIsCapped == Unrelayed =< Budget \/ Cardinality(Relaying) =< 1

(* The permits: none is given out twice or kept by what was dropped, and a  *)
(* flood leaves one holder at a time.                                       *)
GatesHold == TypeOK /\ FloodedRunAlone /\ NothingOutlivesItsFile
=============================================================================
