--------------------------- MODULE MCStoragePurge ---------------------------
EXTENDS StoragePurge
(* Both messages are in one storage; the other one is empty.                *)
MCHome == [m \in Messages |-> "t"]
=============================================================================
