---------------------------- MODULE MCMessageGC ----------------------------
(***************************************************************************)
(* Three small instances of MessageGC on the same variables; a run takes    *)
(* one of them:                                                             *)
(*   "together"  a copier and a purger at once;                             *)
(*   "hang up"   one request at a time, and a client that hangs up, next to *)
(*               the GC tasks of the earlier ones;                          *)
(*   "restart"   the same with one message per chat, and a restart.         *)
(***************************************************************************)
EXTENDS MessageGC, TLC

CONSTANTS c1, c2, k1, k2

VARIABLE part

HangUp_ == INSTANCE MessageGC WITH
    MaxActive <- 1, MaxAborts <- 1
Restart_ == INSTANCE MessageGC WITH
    MaxActive <- 1, MaxAborts <- 1, MaxCrashes <- 1, MaxMessages <- 1

MCInit == part \in {"together", "hang up", "restart"} /\ Init

Together == part = "together" /\ Next /\ UNCHANGED part
HangsUp == part = "hang up" /\ HangUp_!Next /\ UNCHANGED part
Restarts == part = "restart" /\ Restart_!Next /\ UNCHANGED part

MCSpec == MCInit /\ [][Together \/ HangsUp \/ Restarts]_<<vars, part>>

RowsAlike == Permutations(Rows) \cup Permutations(Paths)
=============================================================================
