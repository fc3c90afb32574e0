------------------------------- MODULE MCAgents -------------------------------
(***************************************************************************)
(* One small instance of each of the parts that go on by themselves and     *)
(* share no state: imports (Imports, whose names are not prefixed), link    *)
(* guesses, certificates, the server's update and a session of the client.  *)
(* A run takes one of them.                                                 *)
(***************************************************************************)
EXTENDS Imports, Sequences

CONSTANTS
    Visitors, Others, FREE_ATTEMPTS, LOCK_ATTEMPTS, DECAY, MAX_COOKIE, LinkLife, MAX_KEYS,
    Addresses, LIFE, RENEW_BEFORE_EXPIRY, H3_FAILURE_THRESHOLD, MaxCertFaults, MaxMoves,
    Updates, InodePath, MaxRelease, MaxUpdateFaults

(* A failure counts for some time and a key is locked after some failures;  *)
(* a certificate is renewed before it runs out and not as soon as it is     *)
(* there.                                                                   *)
ASSUME AgentsAssumption ==
    /\ IsFiniteSet(Visitors) /\ IsFiniteSet(Others) /\ "target" \notin Others
    /\ {LOCK_ATTEMPTS, DECAY} \subseteq Nat \ {0}
    /\ {FREE_ATTEMPTS, MAX_COOKIE, LinkLife, MAX_KEYS} \subseteq Nat
    /\ RENEW_BEFORE_EXPIRY \in Nat \ {0} /\ LIFE \in Nat /\ RENEW_BEFORE_EXPIRY < LIFE
    /\ {H3_FAILURE_THRESHOLD, MaxCertFaults, MaxMoves, MaxUpdateFaults} \subseteq Nat
    /\ "none" \notin Addresses /\ InodePath \in BOOLEAN /\ MaxRelease \in Nat \ {0}

VARIABLES
    part,       \* which one runs
    g_count, g_left, g_link, g_expires, g_cookie, g_req, g_guesses,
    c_address, c_identity, c_cert, c_key, c_served, c_task, c_new, c_signal, c_failures, c_keys,
    c_late, c_faults, c_moves,
    u_latest, u_bin, u_ui, u_oldBin, u_oldUi, u_version, u_stage, u_writers, u_running, u_exe,
    u_at, u_want, u_timer, u_torn, u_faults,
    n_now, n_valid, n_disabled, n_revs, n_file, n_mem, n_eng, n_web, n_page, n_pending, n_task,
    n_off, n_kept, n_faults, n_commands

guestsVars == <<g_count, g_left, g_link, g_expires, g_cookie, g_req, g_guesses>>
importsVars == vars
certsVars == <<c_address, c_identity, c_cert, c_key, c_served, c_task, c_new, c_signal,
              c_failures, c_keys, c_late, c_faults, c_moves>>
updateVars == <<u_latest, u_bin, u_ui, u_oldBin, u_oldUi, u_version, u_stage, u_writers,
               u_running, u_exe, u_at, u_want, u_timer, u_torn, u_faults>>
sessionsVars == <<n_now, n_valid, n_disabled, n_revs, n_file, n_mem, n_eng, n_web, n_page,
                 n_pending, n_task, n_off, n_kept, n_faults, n_commands>>
allVars == <<part, guestsVars, importsVars, certsVars, updateVars, sessionsVars>>

Guests_ == INSTANCE Guests WITH
    Free <- FREE_ATTEMPTS, Lock <- LOCK_ATTEMPTS, Decay <- DECAY, Day <- MAX_COOKIE,
    MaxKeys <- MAX_KEYS, count <- g_count, left <- g_left, link <- g_link,
    expires <- g_expires, cookie <- g_cookie, req <- g_req, guesses <- g_guesses

MCAddress == CHOOSE a \in Addresses : TRUE

MCDirOf == [f \in {"f", "g"} |-> IF f = "f" THEN "" ELSE "d"]

Certs_ == INSTANCE Certs WITH
    MaxFaults <- MaxCertFaults, address <- c_address, identity <- c_identity, cert <- c_cert,
    key <- c_key, served <- c_served, task <- c_task, new <- c_new, signal <- c_signal,
    failures <- c_failures, keys <- c_keys, late <- c_late, faults <- c_faults, moves <- c_moves

Update_ == INSTANCE Update WITH
    Requests <- Updates, MaxFaults <- MaxUpdateFaults, latest <- u_latest,
    bin <- u_bin, ui <- u_ui, oldBin <- u_oldBin, oldUi <- u_oldUi, version <- u_version,
    stage <- u_stage, writers <- u_writers, running <- u_running, exe <- u_exe, at <- u_at,
    want <- u_want, timer <- u_timer, torn <- u_torn, faults <- u_faults

Sessions_ == INSTANCE Sessions WITH
    Loops <- {"loop"}, Keepers <- {}, Commands <- {"c"}, Life <- 1, MaxTime <- 2,
    MaxRevokes <- 1, MaxFaults <- 1, MaxCommands <- 1, now <- n_now, valid <- n_valid,
    disabled <- n_disabled, revs <- n_revs, file <- n_file, mem <- n_mem, eng <- n_eng,
    web <- n_web, page <- n_page, pending <- n_pending, task <- n_task, off <- n_off,
    kept <- n_kept, faults <- n_faults, commands <- n_commands

-----------------------------------------------------------------------------
(* The parts that do not run stay as they start, in one of their initial    *)
(* states.                                                                  *)
MCInit ==
    /\ part \in {"guests", "imports", "certs", "update", "sessions"}
    /\ Guests_!Init
    /\ Init /\ (part # "imports" => job[1].st = "none")
    /\ Certs_!Init /\ (part # "certs" => c_address = MCAddress /\ c_key = 0)
    /\ Update_!Init
    /\ Sessions_!Init /\ n_now + n_faults + n_commands = 0
    /\ (part # "sessions" => n_file.base = "")

GuestsRuns ==
    /\ part = "guests" /\ Guests_!Next
    /\ UNCHANGED <<part, importsVars, certsVars, updateVars, sessionsVars>>

ImportsRuns ==
    /\ part = "imports" /\ Next
    /\ UNCHANGED <<part, guestsVars, certsVars, updateVars, sessionsVars>>

CertsRuns ==
    /\ part = "certs" /\ Certs_!Next
    /\ UNCHANGED <<part, guestsVars, importsVars, updateVars, sessionsVars>>

UpdateRuns ==
    /\ part = "update" /\ Update_!Next
    /\ UNCHANGED <<part, guestsVars, importsVars, certsVars, sessionsVars>>

SessionsRuns ==
    /\ part = "sessions" /\ Sessions_!Next
    /\ UNCHANGED <<part, guestsVars, importsVars, certsVars, updateVars>>

MCNext == GuestsRuns \/ ImportsRuns \/ CertsRuns \/ UpdateRuns \/ SessionsRuns

(* Each part under its own fairness, while it is the one that runs.         *)
MCFairness ==
    /\ WF_guestsVars(part = "guests" /\ Guests_!Tick)
    /\ \A v \in Visitors : WF_guestsVars(part = "guests" /\ Guests_!Answers(v))
    /\ WF_importsVars(part = "imports" /\ Runs)
    /\ WF_importsVars(part = "imports" /\ Relays)
    /\ WF_certsVars(part = "certs" /\ Certs_!Steps) /\ WF_certsVars(part = "certs" /\ Certs_!Watch)
    /\ SF_certsVars(part = "certs" /\ Certs_!Day)
    /\ \A t \in {"loop", "c"} : WF_sessionsVars(part = "sessions" /\ Sessions_!Step(t))

MCSpec == MCInit /\ [][MCNext]_allVars /\ MCFairness

-----------------------------------------------------------------------------
(* However many visitors guess at once, a record lets through no more wrong *)
(* guesses than those below the lock and those that had passed the check    *)
(* (FailureThrottle::check, record_failure_at).                             *)
ThrottleHolds == Guests_!ThrottleHolds

(* What the server works from is whole: the certificate it serves is parsed *)
(* and has not run out, and its install has a binary and an interface of one*)
(* version (spawn_renewal_task, apply, swap_in_place).                      *)
ServerIsWhole == Certs_!ServedIsValid /\ Update_!InstallHolds

(* What was ended stays ended: nothing is served over a link that is gone,  *)
(* with whatever cookie, and a job that the user stopped goes on only when  *)
(* the user says so (gate, transition, finish_scan).                        *)
NothingComesBack == [][Guests_!KeepsEnd /\ KeepsEnd]_allVars

(* The key that clients pinned is the key of every later certificate, and   *)
(* what is served is a pair (load_or_create_key, save_issued).              *)
PinHolds == Certs_!PinHolds

(* What is held up goes on in the end: a locked key is free again although  *)
(* guesses go on, and every import ends or is stopped, through failures and *)
(* restarts (decide_at, run_once, settle_failure).                          *)
AgentsGoOn == /\ part = "guests" => Guests_!LockLapses
              /\ part = "imports" => EveryImportEnds

(* In the end the listeners show a certificate of the CA for the machine's  *)
(* address (spawn_renewal_task, reload_material).                           *)
EventuallyCovered == part = "certs" => Certs_!EventuallyCovered

(* The stored session of a client is gone or fresh again and again          *)
(* (start_background_loop, ensure_fresh_session_with).                      *)
StaysFresh == part = "sessions" => Sessions_!StaysFresh
=============================================================================
