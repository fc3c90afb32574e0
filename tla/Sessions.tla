------------------------------ MODULE Sessions ------------------------------
(***************************************************************************)
(* One user's session: the tokens the server issues and revokes             *)
(* (services/auth.rs, common/jwt_manager.rs, repositories/users.rs) and the *)
(* client that keeps them in three places, the file server.json, the server *)
(* configuration in memory and the sync engine, next to the web page's own  *)
(* copy (client/src-tauri state.rs and commands.rs).                        *)
(*                                                                          *)
(* A token stands for the pair of an access and a refresh token issued      *)
(* together; time passes in the seconds that both sides compare.  A         *)
(* background loop refreshes what is about to expire, commands of the user  *)
(* change the configuration, and each write goes to the three places in     *)
(* turn, with others in between.                                            *)
(***************************************************************************)
EXTENDS Integers, FiniteSets

CONSTANTS
    Loops, Keepers, \* background tasks: the sync loop, the session keeper
    Commands,       \* commands of the user under way together
    Life,           \* seconds an access token is fresh
    MaxTime, MaxRevokes, MaxFaults, MaxCommands  \* bounds

Tasks == Loops \cup Keepers \cup Commands

None == [iat |-> -1, era |-> 0, late |-> FALSE]
Off == [base |-> "", tok |-> None]
Idle == [pc |-> "idle", op |-> "", cfg |-> Off, old |-> Off, era |-> 0, tries |-> 0]

VARIABLES
    now,
    valid, disabled,    \* the user's row: sessions_valid_after, disabled_at
    revs,               \* history: how often the sessions were revoked
    file, mem, eng,     \* server.json, AppSyncState.server, the engine's credentials
    web, page, pending, \* the page's token, "shell" or "server", the token to inject
    task,
    off,                \* history: the client was disconnected, with nothing under way
    kept,               \* history: a sign-in was stored undisturbed, and nothing has ended it
    faults, commands

userVars == <<valid, disabled, revs>>
storeVars == <<file, mem, eng>>
pageVars == <<web, page, pending>>
countVars == <<faults, commands>>
histVars == <<off, kept>>
vars == <<now, userVars, storeVars, pageVars, task, histVars, countVars>>

(* The client starts for the first time, or with a session that was stored, *)
(* which may have expired by then.                                          *)
Init ==
    /\ now \in 0 .. MaxTime /\ valid = 0 /\ disabled = FALSE /\ revs = 0
    /\ file \in {Off, [base |-> "s", tok |-> [None EXCEPT !.iat = 0]]}
    /\ mem = file /\ eng = file
    /\ web = None /\ page = "shell" /\ pending = None
    /\ task = [t \in Tasks |-> Idle] /\ off = FALSE /\ kept = FALSE
    /\ faults \in 0 .. MaxFaults /\ commands \in 0 .. MaxCommands

-----------------------------------------------------------------------------
(* The server.                                                              *)

(* session_is_live, and the account is not disabled.                        *)
Live(tok) == tok # None /\ tok.iat >= valid /\ ~disabled

(* logged_in_required: the access token is live and not expired.            *)
Accepted(tok) == Live(tok) /\ now =< tok.iat + Life

(* access_token_needs_refresh: missing, expired or about to.                *)
NeedsRefresh(tok) == tok = None \/ now >= tok.iat + Life

(* issue_tokens.  late, history: issued from the row as it was before a     *)
(* revocation, or from a token of the second of one.                        *)
Token(era, late) == [iat |-> now, era |-> era, late |-> late]

Tick ==
    /\ now < MaxTime /\ now' = now + 1
    /\ UNCHANGED <<userVars, storeVars, pageVars, task, histVars, countVars>>

(* What was issued before this second is no longer accepted.                *)
RevokeSessions ==
    /\ revs < MaxRevokes /\ revs' = revs + 1
    /\ valid' = now /\ kept' = FALSE
    /\ UNCHANGED <<now, storeVars, page, pending, task, off, countVars>>

Logout == web # None /\ web' = None /\ RevokeSessions /\ UNCHANGED disabled

SetPassword == RevokeSessions /\ UNCHANGED <<disabled, web>>

Disable == disabled' = TRUE /\ RevokeSessions /\ UNCHANGED web

Enable ==
    /\ disabled /\ disabled' = FALSE
    /\ UNCHANGED <<now, valid, revs, storeVars, pageVars, task, histVars, countVars>>

Go(t, rec) == task' = [task EXCEPT ![t] = rec]
At(t, pc) == Go(t, [task[t] EXCEPT !.pc = pc])

\* mutant: a refresh token outlives the revocation
RefreshReadsAny(t) ==
    /\ task[t].pc = "asked"
    /\ IF disabled THEN At(t, "refused")
       ELSE Go(t, [task[t] EXCEPT !.pc = "issuing", !.era = revs])
    /\ UNCHANGED <<now, userVars, storeVars, pageVars, histVars, countVars>>

(* AuthService::refresh: the row is read and the token held against it.     *)
RefreshReads(t) ==
    /\ task[t].pc = "asked"
    /\ IF Live(task[t].cfg.tok) THEN Go(t, [task[t] EXCEPT !.pc = "issuing", !.era = revs])
       ELSE At(t, "refused")
    /\ UNCHANGED <<now, userVars, storeVars, pageVars, histVars, countVars>>

(* ... or the database cannot be read: the answer is the same 401, which    *)
(* ends the client's session.                                               *)
RefreshBusy(t) ==
    /\ task[t].pc = "asked" /\ faults < MaxFaults /\ faults' = faults + 1
    /\ At(t, "refused") /\ kept' = FALSE
    /\ UNCHANGED <<now, userVars, storeVars, pageVars, off, commands>>

(* ... and then a new pair is issued.                                       *)
RefreshIssues(t) ==
    /\ task[t].pc = "issuing"
    /\ LET old == task[t].cfg.tok
           late == old.late \/ task[t].era # revs \/ (old.era # revs /\ old.iat = valid) IN
       Go(t, [task[t] EXCEPT !.pc = "save", !.cfg.tok = Token(old.era, late),
                                   !.old = task[t].cfg, !.era = 0])
    /\ UNCHANGED <<now, userVars, storeVars, pageVars, histVars, countVars>>

-----------------------------------------------------------------------------
(* The client: refreshing.                                                  *)

Connected(cfg) == cfg.base # "" /\ cfg.tok # None

(* ensure_fresh_session_with: the file is read, and its token exchanged     *)
(* when it needs to be.                                                     *)
EnsureFresh(t, rec) ==
    IF file.tok # None /\ NeedsRefresh(file.tok)
    THEN Go(t, [rec EXCEPT !.pc = "asked", !.cfg = file])
    ELSE Go(t, [rec EXCEPT !.pc = "fresh", !.cfg = file])

\* mutant: the loop works with the configuration in memory
LoopWakesMem(t) ==
    /\ t \in Loops \cup Keepers /\ task[t] = Idle
    /\ mem.tok # None /\ NeedsRefresh(mem.tok)
    /\ Go(t, [Idle EXCEPT !.pc = "asked", !.op = "loop", !.cfg = mem])
    /\ UNCHANGED <<now, userVars, storeVars, pageVars, histVars, countVars>>

LoopWakes(t) ==
    /\ t \in Loops \cup Keepers /\ task[t] = Idle
    /\ file.tok # None /\ (NeedsRefresh(file.tok) \/ (t \in Loops /\ eng # file))
    /\ EnsureFresh(t, [Idle EXCEPT !.op = "loop"])
    /\ UNCHANGED <<now, userVars, storeVars, pageVars, histVars, countVars>>

\* mutant: only a refresh tells the engine
LoopTicksOnly(t) ==
    /\ task[t].pc = "fresh" /\ task[t].op = "loop"
    /\ Go(t, Idle)
    /\ UNCHANGED <<now, userVars, storeVars, pageVars, histVars, countVars>>

(* The sync loop's tick works with what was loaded; the keeper has no tick. *)
LoopTicks(t) ==
    /\ task[t].pc = "fresh" /\ task[t].op = "loop"
    /\ eng' = IF t \in Loops /\ Connected(task[t].cfg) THEN task[t].cfg ELSE eng
    /\ Go(t, Idle)
    /\ UNCHANGED <<now, userVars, file, mem, pageVars, histVars, countVars>>

\* mutant: a lost answer ends the session as a refusal does
RefreshLostEnds(t) ==
    /\ task[t].pc \in {"asked", "issuing"} /\ faults < MaxFaults /\ faults' = faults + 1
    /\ At(t, "refused")
    /\ UNCHANGED <<now, userVars, storeVars, pageVars, histVars, commands>>

(* No answer: the configuration stays as it is.                             *)
RefreshLost(t) ==
    /\ task[t].pc \in {"asked", "issuing"} /\ faults < MaxFaults /\ faults' = faults + 1
    /\ Go(t, [task[t] EXCEPT !.pc = "fresh", !.era = 0])
    /\ UNCHANGED <<now, userVars, storeVars, pageVars, histVars, commands>>

(* A 401: the session is over, the server is remembered.                    *)
RefreshRefused(t) ==
    /\ task[t].pc = "refused"
    /\ Go(t, [task[t] EXCEPT !.pc = "save", !.cfg.tok = None, !.old = [task[t].cfg EXCEPT !.tok = None]])
    /\ UNCHANGED <<now, userVars, storeVars, pageVars, histVars, countVars>>

(* save_server_with: the file is truncated and written, then the memory,    *)
(* then the engine.                                                         *)
SaveTruncates(t) ==
    /\ task[t].pc = "save"
    /\ file' = Off /\ At(t, "truncated")
    /\ UNCHANGED <<now, userVars, mem, eng, pageVars, histVars, countVars>>

SaveWrites(t) ==
    /\ task[t].pc = "truncated"
    /\ file' = task[t].cfg /\ At(t, "written")
    /\ UNCHANGED <<now, userVars, mem, eng, pageVars, histVars, countVars>>

SaveRemembers(t) ==
    /\ task[t].pc = "written"
    /\ mem' = task[t].cfg /\ At(t, "remembered")
    /\ UNCHANGED <<now, userVars, file, eng, pageVars, histVars, countVars>>

SaveTells(t) ==
    /\ task[t].pc = "remembered"
    /\ eng' = task[t].cfg /\ Go(t, [task[t] EXCEPT !.pc = "fresh", !.old = Off])
    /\ UNCHANGED <<now, userVars, file, mem, pageVars, histVars, countVars>>

(* After a 401 the page's token was tried, and the refresh is forced.       *)
Forced(rec) ==
    IF mem.tok # None THEN [rec EXCEPT !.pc = "asked", !.cfg = mem, !.old = Off, !.tries = 2] ELSE Idle

(* The file cannot be opened, or not be written once it was truncated, or   *)
(* not be synced once it was written; nothing puts its contents back.  The  *)
(* memory and the engine keep what they had.  A refresh and a redirect go   *)
(* on with the configuration as it was, a takeover without it, the tray's   *)
(* disconnect all the same; a command reports the error.                    *)
SaveFails(t) ==
    /\ task[t].pc \in {"save", "truncated", "written"}
    /\ faults < MaxFaults /\ faults' = faults + 1
    /\ \/ task[t].old # Off /\ Go(t, [task[t] EXCEPT !.pc = "fresh", !.cfg = task[t].old, !.old = Off])
       \/ task[t].old = Off /\ task[t].op \in {"ensure", "disconnect"} /\ At(t, "fresh")
       \/ task[t].old = Off /\ task[t].op = "folder" /\ Go(t, Forced(task[t]))
       \/ task[t].old = Off /\ task[t].op \in {"connect", "push", "retry", "disconnect"} /\ Go(t, Idle)
    /\ kept' = (kept /\ task[t].pc # "truncated")
    /\ UNCHANGED <<now, userVars, storeVars, pageVars, off, commands>>

-----------------------------------------------------------------------------
(* The client: commands.                                                    *)

Command(t, rec) ==
    /\ t \in Commands /\ task[t] = Idle
    /\ commands < MaxCommands /\ commands' = commands + 1
    /\ Go(t, rec)

(* connect: the tokens are kept when the server is the same.                *)
Connect(t) ==
    /\ page = "shell"
    /\ \E base \in {"s", "r"} :
           Command(t, [Idle EXCEPT !.pc = "save", !.op = "connect",
                                   !.cfg = [base |-> base,
                                            tok |-> IF mem.base = base THEN mem.tok ELSE None]])
    /\ off' = FALSE /\ kept' = FALSE
    /\ UNCHANGED <<now, userVars, storeVars, pageVars, faults>>

(* open_app, and navigate_to_sync_settings.                                 *)
OpenApp(t) ==
    /\ page = "shell" /\ Connected(mem)
    /\ Command(t, [Idle EXCEPT !.pc = "fresh", !.op = "connect", !.cfg = mem])
    /\ off' = FALSE
    /\ UNCHANGED <<now, userVars, storeVars, pageVars, kept, faults>>

(* canonicalized_server: the address "r" redirects to "s", when it answers. *)
Canonicalize(t) ==
    /\ task[t].pc = "fresh" /\ task[t].op = "connect" /\ task[t].cfg.base = "r"
    /\ Go(t, [task[t] EXCEPT !.pc = "save", !.op = "open", !.cfg.base = "s", !.old = task[t].cfg])
    /\ UNCHANGED <<now, userVars, storeVars, pageVars, histVars, countVars>>

(* navigate_to_server: the tokens, if any, are queued for the page.         *)
Navigate(t) ==
    /\ task[t].pc = "fresh" /\ task[t].op \in {"connect", "open"}
    /\ page' = "server" /\ web' = None
    /\ pending' = IF Connected(task[t].cfg) THEN task[t].cfg.tok ELSE pending
    /\ Go(t, Idle)
    /\ UNCHANGED <<now, userVars, storeVars, histVars, countVars>>

(* take_inject_for, when the page has loaded.                               *)
Inject ==
    /\ page = "server" /\ pending # None
    /\ web' = pending /\ pending' = None
    /\ UNCHANGED <<now, userVars, storeVars, page, task, histVars, countVars>>

(* The user signs in on the page; the page refreshes its own token.         *)
WebLogin ==
    /\ page = "server" /\ ~disabled /\ web = None /\ pending = None
    /\ web' = Token(revs, FALSE)
    /\ UNCHANGED <<now, userVars, storeVars, page, pending, task, histVars, countVars>>

(* update_session, and sync_session_from_webview: the page's token goes to  *)
(* the server in memory.                                                    *)
Push(t) ==
    /\ page = "server" /\ web # None /\ mem.base # "" /\ web # mem.tok
    /\ Command(t, [Idle EXCEPT !.pc = "save", !.op = "push", !.cfg = [mem EXCEPT !.tok = web]])
    /\ UNCHANGED <<now, userVars, storeVars, pageVars, histVars, faults>>

Alone(t) == \A u \in Tasks \ {t} : task[u] = Idle

Pushed(t) ==
    /\ task[t].pc = "fresh" /\ task[t].op = "push"
    /\ kept' = (kept \/ (Alone(t) /\ file.tok = web /\ web.era = revs))
    /\ Go(t, Idle)
    /\ UNCHANGED <<now, userVars, storeVars, pageVars, off, countVars>>

(* disconnect: everything is emptied; after five seconds the file alone has *)
(* to do.                                                                   *)
Disconnect(t) ==
    /\ page = "server"
    /\ Command(t, [Idle EXCEPT !.pc = "save", !.op = "disconnect"])
    /\ kept' = FALSE
    /\ UNCHANGED <<now, userVars, storeVars, pageVars, off, faults>>

DisconnectTimesOut(t) ==
    /\ task[t].op = "disconnect" /\ task[t].pc \in {"written", "remembered"}
    /\ At(t, "fresh")
    /\ UNCHANGED <<now, userVars, storeVars, pageVars, histVars, countVars>>

Disconnected(t) ==
    /\ task[t].pc = "fresh" /\ task[t].op = "disconnect"
    /\ page' = "shell" /\ web' = None /\ pending' = None
    /\ off' = (file = Off /\ Alone(t))
    /\ Go(t, Idle)
    /\ UNCHANGED <<now, userVars, storeVars, kept, countVars>>

(* create_remote_folder: the page's token is taken over, the session made   *)
(* fresh and, when that has no token, the page's taken over once more.      *)
Takeover(rec) == [rec EXCEPT !.pc = "save", !.cfg = [mem EXCEPT !.tok = web], !.old = Off]
HasPage == web # None /\ mem.base # ""

EnsureFolder(t) ==
    /\ page = "server"
    /\ LET rec == [Idle EXCEPT !.pc = "fresh", !.op = "ensure"] IN
       Command(t, IF HasPage THEN Takeover(rec) ELSE rec)
    /\ UNCHANGED <<now, userVars, storeVars, pageVars, histVars, faults>>

Ensured(t) ==
    /\ task[t].pc = "fresh"
    /\ \/ task[t].op = "ensure" /\ EnsureFresh(t, [task[t] EXCEPT !.op = "ensured"])
       \/ /\ task[t].op = "ensured"
          /\ Go(t, IF Connected(task[t].cfg) THEN [task[t] EXCEPT !.op = "folder"]
                   ELSE IF HasPage THEN Takeover([task[t] EXCEPT !.op = "retry"]) ELSE Idle)
       \/ task[t].op = "retry" /\ Go(t, [task[t] EXCEPT !.op = "folder", !.cfg = mem])
    /\ UNCHANGED <<now, userVars, storeVars, pageVars, histVars, countVars>>

(* The folder is asked for; after a 401 the page's token is tried, then the *)
(* refresh is forced.                                                       *)
CreateFolder(t) ==
    /\ task[t].pc = "fresh" /\ task[t].op = "folder"
    /\ LET use == IF task[t].tries = 1 THEN mem ELSE task[t].cfg
           next == [task[t] EXCEPT !.tries = @ + 1] IN
       Go(t, IF Accepted(use.tok) \/ task[t].tries = 2 THEN Idle
             ELSE IF task[t].tries = 0 /\ HasPage THEN Takeover(next)
             ELSE Forced(next))
    /\ UNCHANGED <<now, userVars, storeVars, pageVars, histVars, countVars>>

(* The process is killed and started again.                                 *)
Kill ==
    /\ faults < MaxFaults /\ faults' = faults + 1
    /\ task' = [t \in Tasks |-> Idle] /\ mem' = file /\ eng' = file
    /\ page' = "shell" /\ web' = None /\ pending' = None
    /\ kept' = (kept /\ file # Off)
    /\ UNCHANGED <<now, userVars, file, off, commands>>

Step(t) ==
    \/ RefreshReads(t) \/ RefreshIssues(t) \/ RefreshRefused(t)
    \/ SaveTruncates(t) \/ SaveWrites(t) \/ SaveRemembers(t) \/ SaveTells(t)
    \/ LoopWakes(t) \/ LoopTicks(t) \/ Canonicalize(t) \/ Navigate(t) \/ Pushed(t)
    \/ Disconnected(t) \/ Ensured(t) \/ CreateFolder(t)

(* No event: everybody waits.                                               *)
Quiet == UNCHANGED vars

Next ==
    \/ Quiet \/ Tick \/ Logout \/ SetPassword \/ Disable \/ Enable \/ Inject \/ WebLogin \/ Kill
    \/ \E t \in Tasks :
           \/ Step(t) \/ RefreshBusy(t) \/ RefreshLost(t) \/ SaveFails(t)
           \/ Connect(t) \/ OpenApp(t) \/ Push(t) \/ Disconnect(t) \/ DisconnectTimesOut(t) \/ EnsureFolder(t)

(* Requests are answered or time out, and the loops keep waking.            *)
Spec == Init /\ [][Next]_vars /\ \A t \in Tasks : WF_vars(Step(t))

-----------------------------------------------------------------------------
(* Every variable stays in its range.                                       *)
TypeOK ==
    /\ now \in 0 .. MaxTime /\ valid \in 0 .. now /\ revs \in 0 .. MaxRevokes
    /\ \A c \in {file, mem, eng} : c.base \in {"", "s", "r"} /\ (c.base = "" => c.tok = None)
    /\ \A t \in Tasks : task[t].tries \in 0 .. 2

Tokens == {file.tok, mem.tok, eng.tok, web, pending} \cup {task[t].cfg.tok : t \in Tasks}

(* A revocation ends every session: what the server accepts descends from a *)
(* sign-in after the last one, except what was issued in its very second or *)
(* by a refresh that was under way (UsersRepository::revoke_sessions,       *)
(* AuthService::refresh).                                                   *)
RevokedStaysOut ==
    \A k \in Tokens : Live(k) => k.era = revs \/ k.late \/ k.iat = valid

(* Disconnecting lasts: with nothing else under way when it was done, the   *)
(* client stays without a server until the user connects or opens the app   *)
(* again (commands.rs, disconnect, open_app).                               *)
DisconnectHolds == off => file = Off

(* A session that was stored undisturbed is lost only to what ends one: a   *)
(* revocation, a disconnect, a new connect, a kill or a failing write while *)
(* the file was empty, a server that cannot read its database; never to a   *)
(* network that fails (force_refresh_session_with).                         *)
SessionIsKept ==
    kept => file.tok # None \/ \E t \in Tasks : task[t].pc = "truncated"

(* The client's session never stays stale: again and again the stored token *)
(* is gone or fresh, and the engine works with what is stored               *)
(* (start_background_loop).                                                 *)
StaysFresh ==
    []<>(file.tok = None \/ (~NeedsRefresh(file.tok) /\ eng = file))

(* The three stores of a session and the server's rows agree on who is in.  *)
SessionsHold == TypeOK /\ RevokedStaysOut /\ DisconnectHolds /\ SessionIsKept
=============================================================================
