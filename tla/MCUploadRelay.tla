--------------------------- MODULE MCUploadRelay ---------------------------
(***************************************************************************)
(* Two small   instances of UploadRelay, on the same variables; a run takes *)
(* one of them:                                                             *)
(*   "replace"  a replacing client, one upload at a time, two versions in   *)
(*              turn, with failures, a restart and a deletion;              *)
(*   "retry"    two clients at once that do not replace, with everything.   *)
(***************************************************************************)
EXTENDS UploadRelay, TLC

CONSTANTS r1, r2, v1, v1big, v2, h1, h2

VARIABLE part

MCHashOf == (v1 :> h1) @@ (v1big :> h1) @@ (v2 :> h2)

(* r1 offers one version, r2 the next *)
TwoVersions == (r1 :> v1) @@ (r2 :> v2)

(* r2 offers other bytes under the hash r1 sends: a file that grew between  *)
(* the hash and the upload                                                  *)
Grown == (r1 :> v1) @@ (r2 :> v1big)

Retry_ == INSTANCE UploadRelay WITH
    VersionOf <- Grown, Replacers <- {}, MaxActive <- 2, MaxFaults <- 1, MaxAborts <- 1

MCInit ==
    \/ part = "replace" /\ Init
    \/ part = "retry" /\ Retry_!Init

Replaces == part = "replace" /\ Next /\ UNCHANGED part
Retries == part = "retry" /\ Retry_!Next /\ UNCHANGED part
MCNext == Replaces \/ Retries

MCSpec == MCInit /\ [][MCNext]_<<vars, part>>

(* One upload at a time leaves one live row (OneLiveRow). *)
OneCopy == part = "replace" => OneLiveRow

(* One upload at a time keeps what was stored (ProgressIsKept). *)
Progress == [][part = "replace" => KeepsProgress]_vars

RowsAlike == Permutations(Rows) \cup Permutations(Positions)
=============================================================================
