----------------------------- MODULE MCLibrary -----------------------------
(***************************************************************************)
(* Library on a folder whose name has a letter of two bytes: a file is     *)
(* uploaded below it and the folder is renamed.                            *)
(***************************************************************************)
EXTENDS Library

N(s) == <<s, 0>>
D == <<N("d"), Slash>>
E == <<N("e"), Slash>>
Req(op, p, new) == [op |-> op, path |-> p, to |-> new, mode |-> "fail"]

WideName == {N("d")}
WideRequests == {Req("upload", <<N("d"), N("a")>>, <<>>), Req("rename", D, E)}
=============================================================================
