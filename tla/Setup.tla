-------------------------------- MODULE Setup --------------------------------
(***************************************************************************)
(* Setting up a storage: the wizard's Finish (services/setup.rs), the       *)
(* replacement of a storage's bot and the discovery of its channels         *)
(* (services/storages.rs set_bot and refresh_channels, token_client.rs),    *)
(* and the rows of bots themselves (repositories/storage_workers.rs).       *)
(*                                                                          *)
(* A bot is named by its token.  Between the statements of a request there  *)
(* are calls to Telegram, so requests for one storage overlap easily: a     *)
(* Finish that is sent twice, or two first bots.                            *)
(***************************************************************************)
EXTENDS Integers, FiniteSets

CONSTANTS
    Users, Storages, Tokens, Chats,
    AdminOf,                    \* chats that each token's bot administers
    Tasks, MaxChannels,
    MaxRequests, MaxFaults      \* bounds

Nil == "none"

VARIABLES
    owner,      \* the user who administers each storage, Nil where there is none
    chan,       \* each chat's storage: the rows of storage_channels
    under,      \* history: the bot that the storage had, or got first, for the chat
    workers,    \* the rows of storage_workers
    task,
    made, said, \* history: storages ever created, reported as set up
    mixed,      \* history: storages that two requests worked on together, or whose bot was
                \* added or taken away by hand or by a set_bot of another storage
    crashed,    \* history: a request was cut short
    left,       \* history: storages whose creation failed, and whose removal failed too
    requests, faults

rows == <<owner, chan, under, workers>>
hist == <<made, said, crashed, left>>
vars == <<rows, task, hist, mixed, requests, faults>>

Idle == [pc |-> "idle", op |-> "none", user |-> Nil, tok |-> Nil, chats |-> {}, sto |-> Nil,
         fresh |-> FALSE, drop |-> FALSE, saw |-> {}]

Init ==
    /\ owner = [x \in Storages |-> Nil] /\ made = {}
    /\ chan = [x \in Chats |-> Nil] /\ under = [x \in Chats |-> Nil]
    /\ workers = {}
    /\ task = [t \in Tasks |-> Idle]
    /\ said = made /\ mixed = {} /\ crashed = FALSE /\ left = {}
    /\ requests = 0 /\ faults = 0

ChannelsOf(s) == {c \in Chats : chan[c] = s}

(* get_by_storage_id: one row, or none.                                     *)
BotOf(s) == LET W == {w \in workers : w.sto = s} IN
            IF W = {} THEN {} ELSE {CHOOSE w \in W : TRUE}

TokenOf(s) == {w.tok : w \in BotOf(s)}

(* Requests that work on one storage at the same time are remembered.       *)
Go(t, rec) ==
    /\ task' = [task EXCEPT ![t] = rec]
    /\ mixed' = mixed \cup {s \in Storages \ {Nil} :
                                rec.sto = s /\ \E u \in Tasks \ {t} : task[u].sto = s}

At(t, pc) == Go(t, [task[t] EXCEPT !.pc = pc])
Finish(t) == task' = [task EXCEPT ![t] = Idle] /\ UNCHANGED mixed

Fault == faults < MaxFaults /\ faults' = faults + 1

(* delete_storage: the bot's row goes first, the channels cascade.          *)
DropStorage(s) ==
    /\ owner' = [owner EXCEPT ![s] = Nil]
    /\ chan' = [c \in Chats |-> IF chan[c] = s THEN Nil ELSE chan[c]]
    /\ workers' = {w \in workers : w.sto # s}

(* What was made goes again; where that fails too, the storage stays and    *)
(* the error is only logged, or dropped.                                    *)
Undo(s) ==
    \/ DropStorage(s) /\ UNCHANGED <<under, left, faults>>
    \/ Fault /\ left' = left \cup {s} /\ UNCHANGED rows

Ask(t) ==
    /\ task[t] = Idle /\ requests < MaxRequests /\ requests' = requests + 1
    /\ \/ \E u \in Users, k \in Tokens, C \in SUBSET Chats \ {{}} :
              /\ Cardinality(C) =< MaxChannels
              /\ Go(t, [Idle EXCEPT !.pc = "look", !.op = "setup", !.user = u, !.tok = k,
                             !.chats = C])
       \/ \E s \in Storages, k \in Tokens, drop \in BOOLEAN :
              /\ owner[s] # Nil
              /\ Go(t, [Idle EXCEPT !.pc = "bot", !.op = "bot", !.user = owner[s], !.tok = k,
                                    !.sto = s, !.drop = drop])
       \/ \E s \in Storages :
              /\ owner[s] # Nil
              /\ Go(t, [Idle EXCEPT !.pc = "discover", !.op = "refresh", !.user = owner[s], !.sto = s])
    /\ UNCHANGED <<rows, hist, faults>>

-----------------------------------------------------------------------------
(* SetupService::create_storage.                                            *)

(* storage_owned_by_chats: all of them belong to one storage of the user's. *)
OwnedByChats(u, C) == {s \in Storages : owner[s] = u /\ \A c \in C : chan[c] = s}

(* The retry of a Finish that made the channels and not the bot; otherwise  *)
(* a storage is made.                                                       *)
SetupLooks(t) ==
    /\ task[t].pc = "look"
    /\ LET own == OwnedByChats(task[t].user, task[t].chats) IN
       IF own # {}
       THEN \E s \in own : Go(t, [task[t] EXCEPT !.pc = "bot", !.sto = s])
       ELSE At(t, "create")
    /\ UNCHANGED <<rows, hist, requests, faults>>

(* The creator's row comes with the storage: what may fail between the two  *)
(* is in Accounts.                                                          *)
SetupCreates(t) ==
    /\ task[t].pc = "create"
    /\ \E s \in Storages \ made :
           /\ owner' = [owner EXCEPT ![s] = task[t].user] /\ made' = made \cup {s}
           /\ Go(t, [task[t] EXCEPT !.pc = "link", !.sto = s, !.fresh = TRUE, !.saw = task[t].chats])
    /\ UNCHANGED <<chan, under, workers, said, crashed, left, requests, faults>>

(* The channels one by one, each at its own position; a chat that is linked *)
(* already, or a position that a discovered channel has, is a conflict, and *)
(* a storage that is gone an error.                                         *)
SetupLinks(t) ==
    /\ task[t].pc = "link"
    /\ IF task[t].saw = {} THEN At(t, "bot") /\ UNCHANGED rows
       ELSE \E c \in task[t].saw :
            \/ /\ chan[c] = Nil /\ owner[task[t].sto] # Nil
               /\ Cardinality(ChannelsOf(task[t].sto)) < MaxChannels
               /\ chan' = [chan EXCEPT ![c] = task[t].sto]
               /\ under' = [under EXCEPT ![c] = Nil]
               /\ Go(t, [task[t] EXCEPT !.saw = @ \ {c}])
               /\ UNCHANGED <<owner, workers>>
            \/ /\ chan[c] # Nil \/ ~(ChannelsOf(task[t].sto) \subseteq task[t].chats)
               /\ At(t, "conflict") /\ UNCHANGED rows
            \/ chan[c] = Nil /\ owner[task[t].sto] = Nil /\ At(t, "failed") /\ UNCHANGED rows
    /\ UNCHANGED <<hist, requests, faults>>

(* A conflict undoes all, and is not the end of the request.                *)
SetupConflict(t) ==
    /\ task[t].pc = "conflict" /\ Undo(task[t].sto)
    /\ Go(t, [task[t] EXCEPT !.pc = "again", !.sto = Nil, !.fresh = FALSE])
    /\ UNCHANGED <<made, said, crashed, requests>>

(* "Lost race / partial prior attempt".                                     *)
SetupAgain(t) ==
    /\ task[t].pc = "again"
    /\ LET own == OwnedByChats(task[t].user, task[t].chats) IN
       IF own # {} THEN \E s \in own : Go(t, [task[t] EXCEPT !.pc = "bot", !.sto = s])
       ELSE Finish(t)
    /\ UNCHANGED <<rows, hist, requests, faults>>

-----------------------------------------------------------------------------
(* StoragesService::set_bot.                                                *)

(* The bot that the storage has already is refused.                         *)
BotChecked(t) ==
    /\ task[t].pc = "bot"
    /\ IF owner[task[t].sto] # task[t].user \/ task[t].tok \in TokenOf(task[t].sto)
       THEN At(t, "failed") ELSE At(t, "getMe")
    /\ UNCHANGED <<rows, hist, requests, faults>>

\* mutant: another bot needs no confirmation
BotConfirmedAny(t) ==
    /\ task[t].pc = "getMe"
    /\ IF task[t].drop THEN Go(t, [task[t] EXCEPT !.pc = "drop", !.saw = ChannelsOf(task[t].sto)])
       ELSE At(t, "read")
    /\ UNCHANGED <<rows, hist, requests, faults>>

(* getMe has answered: a second bot needs the consent to lose the channels. *)
BotConfirmed(t) ==
    /\ task[t].pc = "getMe"
    /\ IF BotOf(task[t].sto) # {} /\ ~task[t].drop THEN At(t, "failed")
       ELSE IF task[t].drop THEN Go(t, [task[t] EXCEPT !.pc = "drop", !.saw = ChannelsOf(task[t].sto)])
       ELSE At(t, "read")
    /\ UNCHANGED <<rows, hist, requests, faults>>

(* getMe, or a statement, fails.                                            *)
BotFails(t) ==
    /\ task[t].pc \in {"link", "bot", "getMe", "read", "write"}
    /\ Fault /\ At(t, "failed")
    /\ UNCHANGED <<rows, hist, requests>>

(* The channels that were listed go; a failure to drop one is passed over.  *)
BotDropsChannel(t) ==
    /\ task[t].pc = "drop"
    /\ IF task[t].saw = {} THEN At(t, "read") /\ UNCHANGED chan
       ELSE \E c \in task[t].saw :
                /\ chan' = [chan EXCEPT ![c] = IF @ = task[t].sto THEN Nil ELSE @]
                /\ Go(t, [task[t] EXCEPT !.saw = @ \ {c}])
    /\ UNCHANGED <<owner, under, workers, hist, requests, faults>>

(* The storage's row is looked up, and the token's where there is none.     *)
BotReads(t) ==
    /\ task[t].pc = "read"
    /\ LET own == BotOf(task[t].sto)
           same == {w \in workers : w.tok = task[t].tok} IN
       IF own = {} /\ \E w \in same : w.user # task[t].user THEN At(t, "failed")
       ELSE Go(t, [task[t] EXCEPT !.pc = "write", !.saw = IF own # {} THEN own ELSE same])
    /\ UNCHANGED <<rows, hist, requests, faults>>

(* update_credentials, rebind_to_storage, or create: the token is unique    *)
(* over all rows, the storage of a row must exist.                          *)
BotWrites(t) ==
    /\ task[t].pc = "write"
    /\ LET old == task[t].saw \cap workers
           new == [tok |-> task[t].tok, sto |-> task[t].sto,
                   user |-> IF old = {} THEN task[t].user ELSE (CHOOSE w \in old : TRUE).user]
           rest == workers \ old IN
       IF \/ old # task[t].saw \/ owner[task[t].sto] = Nil
          \/ \E w \in rest : w.tok = task[t].tok
       THEN At(t, "failed") /\ UNCHANGED <<workers, under>>
       ELSE /\ workers' = rest \cup {new}
            /\ under' = [c \in Chats |-> IF chan[c] = new.sto /\ under[c] = Nil
                                        THEN new.tok ELSE under[c]]
            /\ task' = [task EXCEPT ![t].pc = "done"]
            /\ mixed' = mixed \cup {w.sto : w \in {w \in old : w.sto # new.sto}}
    /\ UNCHANGED <<owner, chan, hist, requests, faults>>

(* The answer: the storage is set up.                                       *)
Done(t) ==
    /\ task[t].pc = "done" /\ Finish(t)
    /\ said' = IF task[t].op = "setup" THEN said \cup {task[t].sto} ELSE said
    /\ UNCHANGED <<rows, made, crashed, left, requests, faults>>

\* mutant: what was made stays where the bot failed
FailedKeeps(t) ==
    /\ task[t].pc = "failed" /\ Finish(t)
    /\ UNCHANGED <<rows, hist, requests, faults>>

(* A Finish that made the storage removes it again.                         *)
Failed(t) ==
    /\ task[t].pc = "failed" /\ Finish(t)
    /\ IF task[t].fresh THEN Undo(task[t].sto) ELSE UNCHANGED <<rows, left, faults>>
    /\ UNCHANGED <<made, said, crashed, requests>>

-----------------------------------------------------------------------------
(* refresh_channels: the chats that the bot administers, as far as an       *)
(* update of theirs is still pending, are added.                            *)
Discover(t) ==
    /\ task[t].pc = "discover"
    /\ IF BotOf(task[t].sto) = {} THEN Finish(t)
       ELSE \E k \in TokenOf(task[t].sto) :
            \E C \in SUBSET (AdminOf[k] \ ChannelsOf(task[t].sto)) :
                Go(t, [task[t] EXCEPT !.pc = "add", !.tok = k, !.saw = C])
    /\ UNCHANGED <<rows, hist, requests, faults>>

AddChannel(t) ==
    /\ task[t].pc = "add"
    /\ IF \/ task[t].saw = {} \/ Cardinality(ChannelsOf(task[t].sto)) >= MaxChannels
          \/ owner[task[t].sto] = Nil
       THEN Finish(t) /\ UNCHANGED <<chan, under>>
       ELSE \E c \in task[t].saw :
                /\ Go(t, [task[t] EXCEPT !.saw = @ \ {c}])
                /\ IF chan[c] = Nil
                   THEN /\ chan' = [chan EXCEPT ![c] = task[t].sto]
                        /\ under' = [under EXCEPT ![c] = task[t].tok]
                   ELSE UNCHANGED <<chan, under>>
    /\ UNCHANGED <<owner, workers, hist, requests, faults>>

(* StorageWorkersService: a further bot by hand, and one less.              *)
AddWorker ==
    /\ requests < MaxRequests /\ requests' = requests + 1
    /\ \E s \in Storages, k \in Tokens :
           /\ owner[s] # Nil /\ \A w \in workers : w.tok # k
           /\ workers' = workers \cup {[tok |-> k, sto |-> s, user |-> owner[s]]}
           /\ mixed' = mixed \cup {s}
    /\ UNCHANGED <<owner, chan, under, task, hist, faults>>

DeleteWorker ==
    /\ requests < MaxRequests /\ requests' = requests + 1
    /\ \E w \in workers : workers' = workers \ {w} /\ mixed' = mixed \cup {w.sto}
    /\ UNCHANGED <<owner, chan, under, task, hist, faults>>

DeleteStorage ==
    /\ requests < MaxRequests /\ requests' = requests + 1
    /\ \E s \in Storages : owner[s] # Nil /\ DropStorage(s)
    /\ UNCHANGED <<under, task, hist, mixed, faults>>

(* A client hangs up, or the server stops: requests end where they wait.    *)
Crash ==
    /\ Fault
    /\ \E T \in SUBSET Tasks : task' = [t \in Tasks |-> IF t \in T THEN Idle ELSE task[t]]
    /\ crashed' = TRUE
    /\ UNCHANGED <<rows, made, said, mixed, left, requests>>

Quiet == UNCHANGED vars

Next ==
    \/ AddWorker \/ DeleteWorker \/ DeleteStorage \/ Crash \/ Quiet
    \/ \E t \in Tasks :
           \/ Ask(t) \/ SetupLooks(t) \/ SetupCreates(t) \/ SetupLinks(t) \/ SetupConflict(t)
           \/ SetupAgain(t)
           \/ BotChecked(t) \/ BotConfirmed(t) \/ BotFails(t) \/ BotDropsChannel(t) \/ BotReads(t)
           \/ BotWrites(t) \/ Done(t) \/ Failed(t) \/ Discover(t) \/ AddChannel(t)

Spec == Init /\ [][Next]_vars

-----------------------------------------------------------------------------
(* Channels and bots belong to storages that exist, and tokens are unique   *)
(* (the schema, and delete_storage_in_tx).                                  *)
TypeOK ==
    /\ \A c \in Chats : chan[c] # Nil => owner[chan[c]] # Nil
    /\ \A w \in workers : owner[w.sto] # Nil
    /\ \A v, w \in workers : v.tok = w.tok => v = w
    /\ \A s \in Storages : Cardinality(ChannelsOf(s)) =< MaxChannels

(* A Finish that was not cut short leaves a storage only where it says so,  *)
(* or where it could not remove what it had made                            *)
(* (SetupService::create_storage, StoragesService::create).                 *)
FailedLeavesNothing ==
    (\A t \in Tasks : task[t] = Idle) /\ ~crashed =>
        \A s \in Storages : owner[s] # Nil => s \in said \cup left

(* A storage's chats were linked under the bot that it has: another bot     *)
(* does not take over chats that it may not read, unless two requests       *)
(* worked on the storage together or its bot was taken away (set_bot).      *)
ChatsFollowTheirBot ==
    \A c \in Chats :
        LET s == chan[c] IN
        s # Nil /\ s \notin mixed /\ under[c] # Nil => under[c] \in TokenOf(s)

(* A storage that was reported as set up is deleted by nobody's Finish      *)
(* (SetupService::create_storage).                                          *)
(* False, and in no run: of two Finishes of one wizard, the one that fails  *)
(* deletes the storage of the other.                                        *)
FinishedStays ==
    [][\A s \in said : owner[s] # Nil /\ owner'[s] = Nil => \A t \in Tasks : task'[t] = task[t]]_vars
=============================================================================
