------------------------------- MODULE Guests -------------------------------
(***************************************************************************)
(* The secrets that callers without a session offer: the password of a      *)
(* login and the one of a share link, with the throttle that counts the     *)
(* failures (common/throttle.rs, routers/auth.rs), and the cookie that an   *)
(* unlocked link leaves with a visitor (routers/public_shares.rs,           *)
(* services/shares.rs).                                                     *)
(*                                                                          *)
(* Time is counted down: a record of failures has the ticks left until it   *)
(* no longer counts, a link and a cookie those until they expire.           *)
(***************************************************************************)
EXTENDS Integers, FiniteSets

CONSTANTS
    Visitors,           \* callers, each with one request at a time
    Others,             \* further keys that failures are counted for
    Free, Lock,         \* FREE_ATTEMPTS, LOCK_ATTEMPTS
    Decay, Day,         \* ticks: DECAY, the longest life of a cookie
    LinkLife,           \* ticks until the link expires
    MaxKeys             \* MAX_KEYS

Target == "target"      \* the key of the link (or the address) in question
Keys == {Target} \cup Others

VARIABLES
    count, left,    \* the throttle: failures of each key, ticks until they lapse
    link, expires,  \* the link: "live" or "revoked", ticks until it expires
    cookie,         \* each visitor's unlock cookie: ticks left
    req,            \* each visitor's request
    guesses         \* history: wrong guesses since the key's record began

throttleVars == <<count, left, guesses>>
vars == <<throttleVars, link, expires, cookie, req>>

Idle == "idle"

Init ==
    /\ count = [k \in Keys |-> 0] /\ left = [k \in Keys |-> 0] /\ guesses = 0
    /\ link = "live" /\ expires = LinkLife
    /\ cookie = [v \in Visitors |-> 0] /\ req = [v \in Visitors |-> Idle]

Available == link = "live" /\ expires > 0

To(v, pc) == req' = [req EXCEPT ![v] = pc]

-----------------------------------------------------------------------------
(* The throttle.                                                            *)

Tracked == {k \in Keys : left[k] > 0}

(* prune, at the next use of the map.                                       *)
Aged(n) == IF n > 0 THEN n - 1 ELSE 0

Tick ==
    /\ left' = [k \in Keys |-> Aged(left[k])]
    /\ count' = [k \in Keys |-> IF left[k] =< 1 THEN 0 ELSE count[k]]
    /\ guesses' = IF left[Target] =< 1 THEN 0 ELSE guesses
    /\ expires' = Aged(expires)
    /\ cookie' = [v \in Visitors |-> Aged(cookie[v])]
    /\ UNCHANGED <<link, req>>

\* mutant: a new key always finds room
EvictedNot(k) == {{}}

(* Room for a new key: the one that was touched least recently goes.        *)
Evicted(k) ==
    IF k \in Tracked \/ Cardinality(Tracked) < MaxKeys THEN {{}}
    ELSE {{o} : o \in {o \in Tracked : \A p \in Tracked : left[o] =< left[p]}}

(* record_failure: one more, in the record as it is now.                    *)
RecordFailure(k) ==
    \E gone \in Evicted(k) :
        /\ count' = [x \in Keys |-> IF x = k THEN count[k] + 1 ELSE IF x \in gone THEN 0 ELSE count[x]]
        /\ left' = [x \in Keys |-> IF x = k THEN Decay ELSE IF x \in gone THEN 0 ELSE left[x]]
        /\ guesses' = IF k = Target THEN guesses + 1 ELSE IF Target \in gone THEN 0 ELSE guesses

(* record_success.                                                          *)
RecordSuccess(k) ==
    /\ count' = [count EXCEPT ![k] = 0] /\ left' = [left EXCEPT ![k] = 0]
    /\ guesses' = IF k = Target THEN 0 ELSE guesses

\* mutant: an attempt on a locked key keeps its record fresh
CheckTouches(v) ==
    /\ req[v] = Idle
    /\ IF count[Target] >= Lock
       THEN left' = [left EXCEPT ![Target] = Decay] /\ UNCHANGED <<count, guesses, req>>
       ELSE To(v, "load") /\ UNCHANGED throttleVars
    /\ UNCHANGED <<link, expires, cookie>>

\* mutant: the lock is one failure late
CheckLate(v) ==
    /\ req[v] = Idle /\ count[Target] =< Lock
    /\ To(v, IF count[Target] >= Free THEN "delayed" ELSE "load")
    /\ UNCHANGED <<throttleVars, link, expires, cookie>>

(* decide: a locked key is refused, and nothing else happens; some failures *)
(* cost a delay before the secret is looked at.                             *)
Check(v) ==
    /\ req[v] = Idle /\ count[Target] < Lock
    /\ To(v, IF count[Target] >= Free THEN "delayed" ELSE "load")
    /\ UNCHANGED <<throttleVars, link, expires, cookie>>

Slept(v) ==
    /\ req[v] = "delayed" /\ To(v, "load")
    /\ UNCHANGED <<throttleVars, link, expires, cookie>>

(* load_available, or the user's row: a secret that is not there any more   *)
(* is not compared.                                                         *)
Load(v) ==
    /\ req[v] = "load"
    /\ To(v, IF Available THEN "compare" ELSE Idle)
    /\ UNCHANGED <<throttleVars, link, expires, cookie>>

(* verify_password: wrong.                                                  *)
Wrong(v) ==
    /\ req[v] = "compare"
    /\ RecordFailure(Target) /\ To(v, Idle)
    /\ UNCHANGED <<link, expires, cookie>>

(* unlock_max_age_secs: a day, or what is left of the link.                 *)
MaxAge == IF expires < Day THEN expires ELSE Day

(* ... and right: the record is forgotten and the cookie set, unless the    *)
(* link has expired meanwhile.                                              *)
Unlock(v) ==
    /\ req[v] = "compare"
    /\ RecordSuccess(Target) /\ To(v, Idle)
    /\ cookie' = [cookie EXCEPT ![v] = IF MaxAge > 0 THEN MaxAge ELSE @]
    /\ UNCHANGED <<link, expires>>

(* Failures of the keys of others.                                          *)
Elsewhere ==
    /\ \E k \in Others : count[k] < Lock /\ RecordFailure(k)
    /\ UNCHANGED <<link, expires, cookie, req>>

-----------------------------------------------------------------------------
(* The link.                                                                *)

(* revoke.                                                                  *)
Revoke ==
    /\ link = "live" /\ link' = "revoked"
    /\ UNCHANGED <<throttleVars, expires, cookie, req>>

\* mutant: the cookie is enough
GateCookie(v) ==
    /\ req[v] = Idle /\ cookie[v] > 0
    /\ To(v, "serving")
    /\ UNCHANGED <<throttleVars, link, expires, cookie>>

(* gate: what is behind the link goes to a visitor with a cookie, as long   *)
(* as the link is there.                                                    *)
Gate(v) ==
    /\ req[v] = Idle /\ Available /\ cookie[v] > 0
    /\ To(v, "serving")
    /\ UNCHANGED <<throttleVars, link, expires, cookie>>

(* The answer is sent, whatever has become of the link.                     *)
Served(v) ==
    /\ req[v] = "serving" /\ To(v, Idle)
    /\ UNCHANGED <<throttleVars, link, expires, cookie>>

HangUp(v) ==
    /\ req[v] # Idle /\ To(v, Idle)
    /\ UNCHANGED <<throttleVars, link, expires, cookie>>

Next ==
    \/ Tick \/ Elsewhere \/ Revoke
    \/ \E v \in Visitors :
           \/ Check(v) \/ Slept(v) \/ Load(v) \/ Wrong(v) \/ Unlock(v)
           \/ Gate(v) \/ Served(v) \/ HangUp(v)

(* The clock goes on and requests are answered.                             *)
Answers(v) == Slept(v) \/ Load(v) \/ Wrong(v) \/ Unlock(v) \/ Served(v)

Fairness == WF_vars(Tick) /\ \A v \in Visitors : WF_vars(Answers(v))

Spec == Init /\ [][Next]_vars /\ Fairness

-----------------------------------------------------------------------------
(* The map is bounded, and a key without ticks left has no failures.        *)
TypeOK ==
    /\ Cardinality(Tracked) =< MaxKeys
    /\ \A k \in Keys : left[k] \in 0 .. Decay /\ (count[k] > 0 <=> left[k] > 0)
    /\ \A v \in Visitors : cookie[v] \in 0 .. Day

(* Wrong guesses of one record stay below the lock, plus one for each       *)
(* request that was let through before the last failures were counted       *)
(* (FailureThrottle::check, record_failure).                                *)
GuessesAreBounded == guesses =< Lock - 1 + Cardinality(Visitors)

(* A cookie does not outlive its link, and nothing is served that begins    *)
(* after the link was revoked or has expired (gate, unlock_max_age_secs).   *)
KeepsEnd ==
    \A v \in Visitors :
        /\ req[v] # "serving" /\ req'[v] = "serving" => Available
        /\ cookie'[v] > cookie[v] => cookie'[v] =< expires

(* A locked key is free again: attempts that are refused do not keep the    *)
(* lock (decide_at).                                                        *)
LockLapses == []<>(count[Target] < Lock)

(* The record of each key is kept within its bounds, and so are the guesses *)
(* it allows.                                                               *)
ThrottleHolds == TypeOK /\ GuessesAreBounded
=============================================================================
