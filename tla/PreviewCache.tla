----------------------------- MODULE PreviewCache -----------------------------
(***************************************************************************)
(* The client's cache of previews (commands.rs of the client): files named  *)
(* by a hash of scope and path, written beside their name and renamed, and  *)
(* removed, oldest first, while the cache is over its limit.  The commands  *)
(* run on threads of their own and share no lock, and the file beside the   *)
(* name is the same for every write of one preview.                         *)
(*                                                                          *)
(* A name leads to a file, and a file that has lost its name is still       *)
(* written by who has it open.  Every file counts for one towards the limit.*)
(***************************************************************************)
EXTENDS Integers, Sequences, FiniteSets, SequencesExt

CONSTANTS
    Tasks,          \* commands that may run together
    Keys,           \* previews: a scope and a path
    Limit,          \* cache_limit_bytes
    MaxCalls, MaxFaults \* bounds: commands; kills, full disks

Names == Keys \X {"jpg", "tmp"}
None == 0
Mixed == -1         \* bytes of two versions

VARIABLES
    dir,            \* the directories of the previews are there
    at,             \* the file every name leads to, None if it does not exist
    bytes,          \* of every file ever opened: the put it holds, None when empty, Mixed
    byAge,          \* the names that exist, by their time of change, oldest first
    task,
    latest,         \* history: of every key, the put that was renamed last
    overlapped,     \* history: keys that two commands put together
    cut,            \* history: puts cut short since the cache was last within its limit
    served,         \* history: somebody was given what no put had finished, or an old one
    calls, faults

names == <<at, byAge>>
hist == <<latest, overlapped, cut, served>>
vars == <<dir, names, bytes, task, hist, calls, faults>>

Idle == [pc |-> "idle", key |-> "", put |-> 0, file |-> None, total |-> 0, list |-> <<>>]
Jpg(k) == <<k, "jpg">>
Tmp(k) == <<k, "tmp">>
There(n) == at[n] # None

Init ==
    /\ dir = FALSE
    /\ at = [n \in Names |-> None] /\ bytes = <<>> /\ byAge = <<>>
    /\ task = [t \in Tasks |-> Idle]
    /\ latest = [k \in Keys |-> 0] /\ overlapped = {} /\ cut = 0 /\ served = FALSE
    /\ calls = 0 /\ faults = 0

At(t, pc) == task[t].pc = pc
Go(t, pc) == task' = [task EXCEPT ![t].pc = pc]
End(t) == task' = [task EXCEPT ![t] = Idle]
Fault == faults < MaxFaults /\ faults' = faults + 1
Puts == {t \in Tasks : task[t].pc \in {"open", "write", "unlink", "rename", "measure", "list", "evict"}}
Without(n) == SelectSeq(byAge, LAMBDA m : m # n)
Unlinked(n) == at' = [at EXCEPT ![n] = None] /\ byAge' = Without(n)

Ask(t) ==
    /\ At(t, "idle") /\ calls < MaxCalls /\ calls' = calls + 1
    /\ \E k \in Keys, pc \in {"dir", "get", "clear"} :
           task' = [task EXCEPT ![t] = [Idle EXCEPT !.pc = pc, !.key = k, !.put = calls + 1]]
    /\ UNCHANGED <<dir, names, bytes, hist, faults>>

-----------------------------------------------------------------------------
(* cache_put_preview.                                                       *)

MakeDir(t) ==
    /\ At(t, "dir")
    /\ dir' = TRUE /\ Go(t, "open")
    /\ overlapped' = overlapped \union {k \in {task[t].key} : \E u \in Puts : task[u].key = k}
    /\ UNCHANGED <<names, bytes, latest, cut, served, calls, faults>>

\* mutant: the preview is written under its own name
OpenInPlace(t) == Jpg(task[t].key)

Beside(t) == Tmp(task[t].key)

(* fs::write opens the file with truncate, and fails without its directory. *)
OpenTmp(t) ==
    /\ At(t, "open")
    /\ LET n == Beside(t)
           f == IF There(n) THEN at[n] ELSE Len(bytes) + 1
       IN \/ /\ ~dir /\ End(t) /\ UNCHANGED <<names, bytes>>
          \/ /\ dir
             /\ at' = [at EXCEPT ![n] = f] /\ byAge' = Append(Without(n), n)
             /\ bytes' = IF There(n) THEN [bytes EXCEPT ![f] = None] ELSE Append(bytes, None)
             /\ task' = [task EXCEPT ![t].pc = "write", ![t].file = f]
    /\ UNCHANGED <<dir, hist, calls, faults>>

(* The bytes go over what another write put there meanwhile.                *)
WriteTmp(t) ==
    /\ At(t, "write")
    /\ LET f == task[t].file IN
           \E b \in {task[t].put} \union (IF bytes[f] = None THEN {} ELSE {Mixed}) :
               bytes' = [bytes EXCEPT ![f] = b]
    /\ Go(t, "unlink")
    /\ UNCHANGED <<dir, names, hist, calls, faults>>

(* The disk is full: the file stays as it is, and nothing is evicted.       *)
WriteFails(t) ==
    /\ At(t, "write") /\ Fault
    /\ End(t) /\ cut' = cut + 1
    /\ UNCHANGED <<dir, names, bytes, latest, overlapped, served, calls>>

UnlinkOld(t) ==
    /\ At(t, "unlink")
    /\ Unlinked(Jpg(task[t].key)) /\ Go(t, "rename")
    /\ UNCHANGED <<dir, bytes, hist, calls, faults>>

(* Without the file beside it there is an error, and no eviction.           *)
Rename(t) ==
    /\ At(t, "rename")
    /\ LET k == task[t].key IN
           \/ /\ ~There(Tmp(k)) /\ End(t) /\ UNCHANGED <<names, latest>>
           \/ /\ There(Tmp(k))
              /\ at' = [at EXCEPT ![Jpg(k)] = at[Tmp(k)], ![Tmp(k)] = None]
              /\ byAge' = [i \in 1 .. Len(Without(Jpg(k))) |->
                              IF Without(Jpg(k))[i] = Tmp(k) THEN Jpg(k) ELSE Without(Jpg(k))[i]]
              /\ latest' = [latest EXCEPT ![k] = task[t].put]
              /\ Go(t, "measure")
    /\ UNCHANGED <<dir, bytes, overlapped, cut, served, calls, faults>>

-----------------------------------------------------------------------------
(* evict_cache_if_needed.                                                   *)

Measure(t) ==
    /\ At(t, "measure")
    /\ \/ Len(byAge) <= Limit /\ End(t) /\ cut' = 0
       \/ /\ Len(byAge) > Limit /\ cut' = cut
          /\ task' = [task EXCEPT ![t].pc = "list", ![t].total = Len(byAge)]
    /\ UNCHANGED <<dir, names, bytes, latest, overlapped, served, calls, faults>>

List(t) ==
    /\ At(t, "list")
    /\ task' = [task EXCEPT ![t].pc = "evict", ![t].list = byAge]
    /\ UNCHANGED <<dir, names, bytes, hist, calls, faults>>

Evicted(t) == task[t].total <= Limit \/ task[t].list = <<>>

Evict(t) ==
    /\ At(t, "evict") /\ ~Evicted(t)
    /\ LET n == Head(task[t].list) IN
           /\ Unlinked(n)
           /\ task' = [task EXCEPT ![t].total = IF There(n) THEN @ - 1 ELSE @, ![t].list = Tail(@)]
    /\ UNCHANGED <<dir, bytes, hist, calls, faults>>

EvictDone(t) ==
    /\ At(t, "evict") /\ Evicted(t)
    /\ End(t)
    /\ UNCHANGED <<dir, names, bytes, hist, calls, faults>>

-----------------------------------------------------------------------------
(* cache_get_preview touches the file and reads it, clear_local_cache       *)
(* removes the files and then their directories.                            *)

Get(t) ==
    /\ At(t, "get")
    /\ LET n == Jpg(task[t].key) IN
           \/ ~There(n) /\ End(t) /\ UNCHANGED byAge
           \/ There(n) /\ Go(t, "read") /\ byAge' = Append(Without(n), n)
    /\ UNCHANGED <<dir, at, bytes, hist, calls, faults>>

Read(t) ==
    /\ At(t, "read")
    /\ LET k == task[t].key
           n == Jpg(k)
       IN served' = (served \/ (There(n) /\ k \notin overlapped /\ bytes[at[n]] # latest[k]))
    /\ End(t)
    /\ UNCHANGED <<dir, names, bytes, latest, overlapped, cut, calls, faults>>

Clear(t) ==
    /\ At(t, "clear")
    /\ at' = [n \in Names |-> None] /\ byAge' = <<>> /\ Go(t, "rmdir")
    /\ UNCHANGED <<dir, bytes, hist, calls, faults>>

ClearDirs(t) ==
    /\ At(t, "rmdir")
    /\ dir' = (dir /\ byAge # <<>>) /\ End(t)
    /\ UNCHANGED <<names, bytes, hist, calls, faults>>

Kill ==
    /\ Puts # {} /\ Fault
    /\ task' = [t \in Tasks |-> Idle] /\ cut' = cut + Cardinality(Puts)
    /\ UNCHANGED <<dir, names, bytes, latest, overlapped, served, calls>>

Step(t) ==
    \/ MakeDir(t) \/ OpenTmp(t) \/ WriteTmp(t) \/ WriteFails(t) \/ UnlinkOld(t) \/ Rename(t)
    \/ Measure(t) \/ List(t) \/ Evict(t) \/ EvictDone(t)
    \/ Get(t) \/ Read(t) \/ Clear(t) \/ ClearDirs(t)

Rests == calls = MaxCalls /\ (\A t \in Tasks : At(t, "idle")) /\ UNCHANGED vars

Next == (\E t \in Tasks : Ask(t) \/ Step(t)) \/ Kill \/ Rests

Spec == Init /\ [][Next]_vars

-----------------------------------------------------------------------------
(* Properties.                                                              *)

TypeOK ==
    /\ dir \in BOOLEAN /\ served \in BOOLEAN
    /\ \A n \in Names : at[n] \in 0 .. Len(bytes)
    /\ \A f \in 1 .. Len(bytes) : bytes[f] \in Mixed .. MaxCalls
    /\ Len(byAge) = Cardinality({n \in Names : There(n)})
    /\ \A i \in 1 .. Len(byAge) : There(byAge[i])
    /\ overlapped \subseteq Keys /\ calls \in 0 .. MaxCalls /\ faults \in 0 .. MaxFaults

(* A preview that is given out is the one put last, whole, unless two       *)
(* commands put it together: they share the file beside it                  *)
(* (cache_get_preview, cache_put_preview).                                  *)
GivenIsWhole == ~served

(* While nobody puts, the cache is within its limit but for the puts that   *)
(* were cut short: a put that returns an error before its eviction leaves   *)
(* nothing more behind (evict_cache_if_needed).                             *)
StaysBounded == Puts = {} => Len(byAge) <= Limit + cut

(* The preview cache: both, with the types.                                 *)
PreviewsHold == TypeOK /\ GivenIsWhole /\ StaysBounded
=============================================================================
