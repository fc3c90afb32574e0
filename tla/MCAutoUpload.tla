---------------------------- MODULE MCAutoUpload ----------------------------
(***************************************************************************)
(* The client's upload of a folder on a small instance: a photo that the     *)
(* server always refuses, ahead of a gallery item in every scan.             *)
(***************************************************************************)
EXTENDS AutoUpload

(* The order of a scan, and the sizes: no bytes, or a file's worth.         *)
MCScan == [x \in {"f", "g"} |-> IF x = "f" THEN 1 ELSE 2]
MCSizeOf == [v \in 0 .. 2 |-> IF v = 0 THEN 0 ELSE 1]
MCLadder == <<1, 2>>
=============================================================================
