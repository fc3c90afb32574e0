-------------------------------- MODULE Certs --------------------------------
(***************************************************************************)
(* The server's certificate: what it starts with (tls/serve.rs), the task   *)
(* that renews it (tls/renew.rs, tls/acme.rs), its files (tls/store.rs),    *)
(* the watch over the public address (tls/public_ip.rs) and the swap into   *)
(* the running listeners (CertResolver).                                    *)
(*                                                                          *)
(* Time is counted in days that a CA's certificate has left.  The server    *)
(* may be killed at any step, in the middle of a write, too.                *)
(***************************************************************************)
EXTENDS Integers

CONSTANTS
    Addresses,          \* public addresses the machine may have
    LIFE,               \* days a certificate of the CA is valid
    RENEW_BEFORE_EXPIRY,
    H3_FAILURE_THRESHOLD,
    MaxFaults, MaxMoves \* bounds

Nil == "none"
(* Keys are numbered; 0 and Torn are no keys that can be read.              *)
Torn == -1
NoCert == [ca |-> FALSE, id |-> Nil, key |-> 0, left |-> 0]

VARIABLES
    address,    \* the machine's public address
    identity,   \* the slot that the watch writes and issuance reads
    cert, key,  \* cert.pem and key.pem
    served,     \* what the resolver holds: the certificate and the key
    task,       \* the process: booting, serving with the renewal task at a step, or dead
    new,        \* the certificate under way
    signal,     \* the renewal signal's permit
    failures,   \* HTTP/3 handshakes that failed in a row
    keys,       \* keys generated
    late,       \* history: issuance failed for a day, or stored a certificate it did not serve
    faults, moves

disk == <<cert, key>>
vars == <<address, identity, disk, served, task, new, signal, failures, keys, late, faults, moves>>

(* A fresh installation, or an operator's own pair of files that need not   *)
(* be of a kind that rcgen reads (odd keys are negative).                   *)
Init ==
    /\ address \in Addresses /\ identity = address
    /\ \/ cert = NoCert /\ key = 0
       \/ \E k \in {1, -2} : cert = [ca |-> TRUE, id |-> address, key |-> k, left |-> LIFE] /\ key = k
    /\ served = [cert |-> NoCert, key |-> 0] /\ task = "boot" /\ new = NoCert
    /\ signal = FALSE /\ failures = 0 /\ keys = 1 /\ late = FALSE /\ faults = 0 /\ moves = 0

Fault == faults < MaxFaults /\ faults' = faults + 1
Serving == task \notin {"boot", "selfCert", "selfKey", "dead"}

-----------------------------------------------------------------------------
(* Start: the address is looked up, the stored pair is parsed or a          *)
(* self-signed one is made and stored, certificate first.                   *)

(* load_from_pem_files.                                                     *)
Readable == cert.key # Torn /\ key # Torn

Boot ==
    /\ task = "boot"
    /\ \/ identity' = address /\ UNCHANGED faults
       \/ Fault /\ identity' = Nil
    /\ IF cert # NoCert /\ key # 0
       THEN /\ IF Readable
               THEN task' = "check" /\ served' = [cert |-> cert, key |-> key]
               ELSE task' = "dead" /\ UNCHANGED served
            /\ UNCHANGED <<new, keys>>
       ELSE IF identity' = Nil
            THEN task' = "dead" /\ UNCHANGED <<served, new, keys>>
            ELSE /\ task' = "selfCert" /\ keys' = keys + 1
                 /\ new' = [ca |-> FALSE, id |-> identity', key |-> keys + 1, left |-> LIFE]
                 /\ UNCHANGED served
    /\ UNCHANGED <<address, disk, signal, failures, late, moves>>

SelfCert ==
    /\ task = "selfCert" /\ cert' = new /\ task' = "selfKey"
    /\ UNCHANGED <<address, identity, key, served, new, signal, failures, keys, late, faults,
                   moves>>

SelfKey ==
    /\ task = "selfKey" /\ key' = new.key /\ task' = "check"
    /\ served' = [cert |-> new, key |-> new.key] /\ new' = NoCert
    /\ UNCHANGED <<address, identity, cert, signal, failures, keys, late, faults, moves>>

-----------------------------------------------------------------------------
(* The renewal task.  Without an identity there is none.                    *)

\* mutant: a self-signed placeholder counts as a certificate
DueTrusting == cert.left =< RENEW_BEFORE_EXPIRY

(* Nothing from the CA on the disk, or less than the margin left.           *)
Due == ~cert.ca \/ cert.left =< RENEW_BEFORE_EXPIRY

Check ==
    /\ task \in {"check", "woken"} /\ identity # Nil
    /\ task' = IF Due THEN "order" ELSE "sleep"
    /\ UNCHANGED <<address, identity, disk, served, new, signal, failures, keys, late, faults,
                   moves>>

(* The order names the identity of now; the CA validates it at the address  *)
(* it resolves to.                                                          *)
Order ==
    /\ task = "order" /\ identity = address
    /\ new' = [ca |-> TRUE, id |-> identity, key |-> 0, left |-> LIFE] /\ task' = "key"
    /\ UNCHANGED <<address, identity, disk, served, signal, failures, keys, late, faults, moves>>

\* mutant: a fresh key for every certificate
KeyFresh ==
    /\ task = "key"
    /\ keys < 4 /\ keys' = keys + 1 /\ key' = keys + 1
    /\ new' = [new EXCEPT !.key = key'] /\ task' = "finalize"
    /\ UNCHANGED <<address, identity, cert, served, signal, failures, late, faults, moves>>

(* load_or_create_key: the stored key signs again; one that cannot be read  *)
(* is replaced, before the CA has answered.                                 *)
Key ==
    /\ task = "key"
    /\ IF key > 0 THEN UNCHANGED <<key, keys>> ELSE keys' = keys + 1 /\ key' = keys + 1
    /\ new' = [new EXCEPT !.key = key'] /\ task' = "finalize"
    /\ UNCHANGED <<address, identity, cert, served, signal, failures, late, faults, moves>>

Finalize ==
    /\ task = "finalize" /\ task' = "saveCert"
    /\ UNCHANGED <<address, identity, disk, served, new, signal, failures, keys, late, faults,
                   moves>>

SaveCert ==
    /\ task = "saveCert" /\ cert' = new /\ task' = "saveKey"
    /\ UNCHANGED <<address, identity, key, served, new, signal, failures, keys, late, faults,
                   moves>>

SaveKey ==
    /\ task = "saveKey" /\ key' = new.key /\ task' = "reload"
    /\ UNCHANGED <<address, identity, cert, served, new, signal, failures, keys, late, faults,
                   moves>>

\* mutant: the listeners keep what they were started with
ReloadForgotten ==
    /\ task = "reload" /\ task' = "sleep" /\ new' = NoCert /\ late' = FALSE
    /\ UNCHANGED <<address, identity, disk, served, signal, failures, keys, faults, moves>>

(* Both listeners ask the resolver on every handshake.                      *)
Reload ==
    /\ task = "reload" /\ task' = "sleep"
    /\ served' = [cert |-> new, key |-> new.key] /\ failures' = 0
    /\ new' = NoCert /\ late' = FALSE
    /\ UNCHANGED <<address, identity, disk, signal, keys, faults, moves>>

(* The CA refuses, does not answer, or a file cannot be written: the task   *)
(* backs off, for less than a day.                                          *)
IssueFails ==
    /\ task \in {"order", "finalize", "saveCert", "saveKey"}
    /\ \/ Fault
       \/ task = "order" /\ identity # address /\ UNCHANGED faults
    /\ task' = "backoff" /\ new' = NoCert /\ late' = (late \/ task = "saveKey")
    /\ UNCHANGED <<address, identity, disk, served, signal, failures, keys, moves>>

Retry ==
    /\ task = "backoff" /\ task' = "check"
    /\ UNCHANGED <<address, identity, disk, served, new, signal, failures, keys, late, faults,
                   moves>>

(* The signal ends both waits.                                              *)
Woken ==
    /\ task \in {"sleep", "backoff"} /\ signal /\ signal' = FALSE /\ task' = "woken"
    /\ UNCHANGED <<address, identity, disk, served, new, failures, keys, late, faults, moves>>

Older(c) == IF c.ca /\ c.left > 0 THEN [c EXCEPT !.left = @ - 1] ELSE c

(* A day passes while the task waits: it wakes at least once a day.         *)
Day ==
    /\ \/ task = "sleep" /\ task' = "check" /\ UNCHANGED late
       \/ task = "backoff" /\ task' = "check" /\ late' = TRUE
       \/ task = "check" /\ identity = Nil /\ UNCHANGED task /\ late' = TRUE
    /\ cert' = Older(cert) /\ served' = [served EXCEPT !.cert = Older(@)]
    /\ UNCHANGED <<address, identity, key, new, signal, failures, keys, faults, moves>>

-----------------------------------------------------------------------------
(* The machine moves to another address.                                    *)
Moves ==
    /\ moves < MaxMoves /\ moves' = moves + 1
    /\ address' \in Addresses \ {address}
    /\ UNCHANGED <<identity, disk, served, task, new, signal, failures, keys, late, faults>>

(* spawn_public_ip_watch.                                                   *)
Watch ==
    /\ Serving /\ identity \notin {Nil, address}
    /\ identity' = address /\ signal' = TRUE
    /\ UNCHANGED <<address, disk, served, task, new, failures, keys, late, faults, moves>>

(* A handshake over QUIC: it fails where the pair, or the name, is wrong.   *)
Handshake ==
    /\ Serving /\ H3_FAILURE_THRESHOLD > 0
    /\ IF served.cert.key = served.key /\ served.cert.id = address /\ served.cert.left > 0
       THEN failures' = 0 /\ UNCHANGED signal
       ELSE IF failures + 1 >= H3_FAILURE_THRESHOLD THEN failures' = 0 /\ signal' = TRUE
       ELSE failures' = failures + 1 /\ UNCHANGED signal
    /\ UNCHANGED <<address, identity, disk, served, task, new, keys, late, faults, moves>>

(* The server is killed and started again; a file that was being written    *)
(* may be cut short.                                                        *)
Kill ==
    /\ task # "dead" /\ Fault
    /\ \/ UNCHANGED disk
       \/ task \in {"selfCert", "saveCert"} /\ cert' = [NoCert EXCEPT !.key = Torn] /\ UNCHANGED key
       \/ task \in {"selfKey", "saveKey"} /\ key' = Torn /\ UNCHANGED cert
       \/ task = "key" /\ key =< 0 /\ key' = Torn /\ UNCHANGED cert
    /\ task' = "boot" /\ served' = [cert |-> NoCert, key |-> 0]
    /\ new' = NoCert /\ signal' = FALSE /\ failures' = 0
    /\ UNCHANGED <<address, identity, keys, late, moves>>

Steps ==
    \/ Boot \/ SelfCert \/ SelfKey \/ Check \/ Order \/ Key \/ Finalize \/ SaveCert \/ SaveKey
    \/ Reload \/ IssueFails \/ Retry \/ Woken

Next == Steps \/ Day \/ Moves \/ Watch \/ Handshake \/ Kill \/ UNCHANGED vars

(* The process runs and the watch goes on; days pass however often          *)
(* handshakes wake the task.  A machine that stays where it is and a CA     *)
(* that answers are the bounds on moves and faults.                         *)
Fairness == WF_vars(Steps) /\ SF_vars(Day) /\ WF_vars(Watch)

Spec == Init /\ [][Next]_vars /\ Fairness

-----------------------------------------------------------------------------
(* The pair that is served was parsed.                                      *)
TypeOK ==
    /\ Serving => served.cert # NoCert /\ served.cert.key # Torn /\ served.key # Torn
    /\ identity \in Addresses \cup {Nil} /\ cert.left \in 0..LIFE /\ keys =< 3 + MaxFaults

(* The key that clients pinned is the key of every later certificate, kills *)
(* at any step included, and what is served is a pair; an operator's key    *)
(* that cannot be read aside (load_or_create_key, save_issued).             *)
PinHolds ==
    [][/\ Serving /\ Serving' /\ served.key > 0 => served'.key = served.key
       /\ Serving' /\ served'.cert.key > 0 => served'.cert.key = served'.key]_vars

(* No certificate of the CA runs out while it is served, unless issuance    *)
(* has been failing for a day, or has stored the certificate and not the    *)
(* key (renew_at, due_for_renewal, sleep_until_utc).                        *)
NeverExpires == Serving /\ served.cert.ca /\ ~late => served.cert.left > 0

(* In the end the listeners show a certificate of the CA for the machine's  *)
(* address, unless the server cannot start or does not know its address     *)
(* (spawn_renewal_task, is_self_signed, reload_material).                   *)
EventuallyCovered ==
    []<>(\/ task = "dead" \/ identity = Nil
         \/ served.cert.ca /\ served.cert.id = address /\ served.cert.left > 0)

(* "Track the public address and re-issue the certificate when it moves":   *)
(* a task that is woken with a certificate for the old address does not go  *)
(* back to sleep (spawn_public_ip_watch, spawn_renewal_task).               *)
(* False, and in no run: what is due is told by the life that is left, and  *)
(* the address is not compared.                                             *)
MoveReissues ==
    [][task = "woken" /\ identity = address /\ cert.id # address => task' # "sleep"]_vars

(* What is served was parsed, and has not run out.                          *)
ServedIsValid == TypeOK /\ NeverExpires
=============================================================================
