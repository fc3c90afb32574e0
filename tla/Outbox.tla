------------------------------- MODULE Outbox -------------------------------
(***************************************************************************)
(* What the purge of a deleted storage promises: in the step in which a     *)
(* storage is dropped its messages become owed, only owed messages are      *)
(* removed from Telegram, and an owed message is settled in the end, by its *)
(* removal or after a number of attempts.                                   *)
(***************************************************************************)
EXTENDS Naturals

CONSTANTS
    Jobs,        \* deletions of a storage
    Messages,    \* Telegram messages
    Storages,
    Home,        \* the storage a message is posted for
    Stuck,       \* messages Telegram refuses to delete
    MaxTries

VARIABLES
    chat,        \* messages in Telegram
    dropped,     \* storages that are gone
    owed, settled, \* entries: a message a job has to remove
    tries        \* attempts, per entry

outboxVars == <<chat, dropped, owed, settled, tries>>

Entries == Jobs \X Messages
Message(e) == e[2]

Init ==
    /\ chat = {} /\ dropped = {} /\ owed = {} /\ settled = {}
    /\ tries = [e \in Entries |-> 0]

Post == \E m \in Messages :
    chat' = chat \cup {m} /\ UNCHANGED <<dropped, owed, settled, tries>>

(* A storage goes and its messages are owed, in one step.                   *)
Drop == \E s \in Storages : \E E \in SUBSET {e \in Entries : Home[Message(e)] = s} :
    /\ E \cap (owed \cup settled) = {}
    /\ dropped' = dropped \cup {s} /\ owed' = owed \cup E
    /\ UNCHANGED <<chat, settled, tries>>

Try == \E E \in SUBSET owed :
    /\ tries' = [e \in Entries |-> IF e \in E THEN tries[e] + 1 ELSE tries[e]]
    /\ UNCHANGED <<chat, dropped, owed, settled>>

Remove == \E e \in owed :
    chat' = chat \ {Message(e)} /\ UNCHANGED <<dropped, owed, settled, tries>>

Settle == \E e \in owed :
    /\ Message(e) \notin chat \ Stuck \/ tries[e] >= MaxTries
    /\ owed' = owed \ {e} /\ settled' = settled \cup {e}
    /\ UNCHANGED <<chat, dropped, tries>>

Next == Post \/ Drop \/ Try \/ Remove \/ Settle

Safe == Init /\ [][Next]_outboxVars

Promise == Safe /\ \A e \in Entries : e \in owed ~> e \in settled
=============================================================================
