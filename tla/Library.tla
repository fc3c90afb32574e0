------------------------------- MODULE Library -------------------------------
(***************************************************************************)
(* The tree of one storage: folders, moves, renames, copies, the trash and  *)
(* the share links that point into it (services/files.rs, services/trash.rs,*)
(* services/shares.rs and the statements of repositories/files.rs and       *)
(* repositories/share_links.rs).                                            *)
(*                                                                          *)
(* A path is the sequence of its names, split at the slashes, so a folder's *)
(* path ends with the empty name.  A name is a stem and a number: "a" is    *)
(* <<"a", 0>> and "a (1)" is <<"a", 1>>.  Every row is one that was         *)
(* uploaded; how the bytes get there is in UploadRelay.  Each statement, or *)
(* transaction, is a step; a request runs several, and others run between   *)
(* them.                                                                    *)
(***************************************************************************)
EXTENDS Integers, Sequences, FiniteSets, FiniteSetsExt, SequencesExt, Functions, TLC

CONSTANTS
    Tasks,          \* requests that may be under way together
    Requests,       \* what they may ask for: op, path, to, mode
    Like,           \* pairs of different names that SQL's LIKE takes for one
    Wide,           \* names with a letter that takes more than one byte
    MaxRows, MaxLinks, \* bounds: rows and links ever made
    MaxRequests,    \* bound: requests
    MaxNumber,      \* bound: the number in a name
    MaxHangs        \* bound: requests dropped half-way

Rows == 1 .. MaxRows
Links == 1 .. MaxLinks
Slash == <<"", 0>>

VARIABLES
    path, st,       \* of every row: its path; "none", "live", "trash" or "gone"
    target,         \* the path of every link, <<>> when there is none
    of,             \* history: the row a link was made for
    torn,           \* history: links that a half-done or overtaken request left behind
    task,           \* the requests
    asked, hangs

fileVars == <<path, st>>
linkVars == <<target, of, torn>>
vars == <<fileVars, linkVars, task, asked, hangs>>

Idle == [pc |-> "idle", req |-> [op |-> ""], src |-> <<>>, dst |-> <<>>, own |-> {}, ids |-> {}]

-----------------------------------------------------------------------------
(* Paths.                                                                   *)

IsFolder(p) == Last(p) = Slash
Bare(p) == IF IsFolder(p) THEN Front(p) ELSE p
Folder(p) == Append(Bare(p), Slash)

(* Equal to a file's path, or inside a folder, the folder itself included.  *)
Covers(o, p) ==
    IF IsFolder(o) THEN IsPrefix(Bare(o), p) /\ Len(p) > Len(Bare(o)) ELSE p = o

PathInFolder(p, dir) ==
    LET new == Append(dir, Last(Bare(p))) IN IF IsFolder(p) THEN Folder(new) ELSE new

(* The statement cuts off as many characters as the folder's path has       *)
(* bytes: one more for every wide name in it.                               *)
Skipped(o) == Cardinality({i \in DOMAIN o : o[i] \in Wide})

(* The names left of a path, each one letter, without its first k letters.  *)
Cut(names, k) ==
    LET left == SubSeq(names, k \div 2 + 1, Len(names)) IN
    IF left = <<>> THEN <<Slash>>
    ELSE IF k % 2 = 0 THEN left ELSE <<Slash>> \o Tail(left)

\* mutant: one letter more is cut off
RewrittenShort(p, o, n) ==
    IF IsFolder(o) THEN Bare(n) \o Cut(SubSeq(p, Len(Bare(o)) + 1, Len(p)), Skipped(o) + 1) ELSE n

(* p with its beginning o replaced by n.                                    *)
Rewritten(p, o, n) ==
    IF IsFolder(o) THEN Bare(n) \o Cut(SubSeq(p, Len(Bare(o)) + 1, Len(p)), Skipped(o)) ELSE n

Numbered(p, i) ==
    LET b == Bare(p)
        new == Append(Front(b), <<Last(b)[1], i>>) IN
    IF IsFolder(p) THEN Folder(new) ELSE new

(* The folders above a path.                                                *)
Parents(p) == {Append(SubSeq(p, 1, i), Slash) : i \in 1 .. Len(Bare(p)) - 1}

LiveRows == {r \in Rows : st[r] = "live"}
TrashedRows == {r \in Rows : st[r] = "trash"}
LivePathExists(p) == \E r \in LiveRows : path[r] = p
LiveBasenameTaken(p) == LivePathExists(Bare(p)) \/ LivePathExists(Folder(p))
LiveConflictAt(p) == LivePathExists(p) \/ (~IsFolder(p) /\ LivePathExists(Folder(p)))

(* The rows of a set at a path: those inside the folder of that name when   *)
(* there are any, the file otherwise.                                       *)
At(rows, p) ==
    LET inside == {r \in rows : Covers(Folder(p), path[r])} IN
    IF IsFolder(p) \/ inside # {} THEN inside ELSE {r \in rows : path[r] = p}

(* A folder a listing shows: something is in it.                            *)
Listed(f) == \E r \in LiveRows : Covers(f, path[r])

Numbers == 1 .. MaxNumber
FreshPath(p) ==
    IF ~LivePathExists(p) THEN {p}
    ELSE LET free == {i \in Numbers : ~LivePathExists(Numbered(p, i))} IN
         IF free = {} THEN {} ELSE {Numbered(p, Min(free))}

NextAvailable(p) ==
    LET f == IF LivePathExists(Folder(p)) /\ ~LivePathExists(Bare(p)) THEN Folder(p) ELSE p
        free == {i \in Numbers : ~LiveBasenameTaken(Numbered(f, i))} IN
    IF ~LiveBasenameTaken(f) THEN {f}
    ELSE IF free = {} THEN {} ELSE {Numbered(f, Min(free))}

(* New rows, one for each path, with the next ids.                          *)
Unused == {r \in Rows : st[r] = "none"}
Insert(ps) ==
    /\ Cardinality(Unused) >= Cardinality(ps)
    /\ LET q == SetToSeq(ps)
           first == MaxRows - Cardinality(Unused) IN
       /\ path' = [r \in Rows |-> IF r - first \in DOMAIN q THEN q[r - first] ELSE path[r]]
       /\ st' = [r \in Rows |-> IF r - first \in DOMAIN q THEN "live" ELSE st[r]]

-----------------------------------------------------------------------------
(* Requests.                                                                *)

Init ==
    /\ path = [r \in Rows |-> <<>>] /\ st = [r \in Rows |-> "none"]
    /\ target = [l \in Links |-> <<>>] /\ of = [l \in Links |-> 0] /\ torn = {}
    /\ task = [t \in Tasks |-> Idle] /\ asked = 0 /\ hangs = 0

Go(t, rec) == task' = [task EXCEPT ![t] = rec]
End(t) == Go(t, Idle)
Op(t) == task[t].req.op
Is(t, pc, ops) == task[t].pc = pc /\ Op(t) \in ops
Path(t) == task[t].req.path

(* Access is checked, the paths are valid; a rename keeps files files.      *)
Ask(t, q) ==
    /\ task[t] = Idle /\ asked < MaxRequests /\ asked' = asked + 1
    /\ q.op = "rename" => (IsFolder(q.path) <=> IsFolder(q.to))
    /\ Go(t, [Idle EXCEPT !.pc = "start", !.req = q])
    /\ UNCHANGED <<fileVars, linkVars, hangs>>

(* create_file_anyway: the path, or the first free number.                  *)
Upload(t) ==
    /\ Is(t, "start", {"upload"})
    /\ \E p \in FreshPath(Path(t)) : Insert({p})
    /\ End(t) /\ UNCHANGED <<linkVars, asked, hangs>>

CreateFolder(t) ==
    /\ Is(t, "start", {"folder"})
    /\ IF LivePathExists(Path(t)) THEN UNCHANGED fileVars ELSE Insert({Path(t)})
    /\ End(t) /\ UNCHANGED <<linkVars, asked, hangs>>

\* mutant: the folder of the last file is not kept
DeleteOnly(t) ==
    /\ Is(t, "start", {"delete"})
    /\ LET hit == At(LiveRows, Path(t)) IN
       IF hit = {} THEN End(t) /\ UNCHANGED fileVars
       ELSE /\ st' = [r \in Rows |-> IF r \in hit THEN "trash" ELSE st[r]] /\ UNCHANGED path
            /\ Go(t, [task[t] EXCEPT !.pc = "unlink",
                                     !.src = IF \E r \in hit : path[r] = Path(t) THEN Path(t)
                                             ELSE Folder(Path(t))])
    /\ UNCHANGED <<linkVars, asked, hangs>>

(* Into the trash, in one transaction that keeps an emptied parent folder.  *)
Delete(t) ==
    /\ Is(t, "start", {"delete"})
    /\ LET p == Path(t)
           hit == At(LiveRows, p)
           what == IF IsFolder(p) \/ \E r \in hit : path[r] # p THEN Folder(p) ELSE p
           up == {Append(Front(Bare(p)), Slash)} \ {<<Slash>>}
           bare == {f \in up : \A r \in LiveRows \ hit : ~Covers(f, path[r])}
           new == Min(Unused \cup {MaxRows + 1}) IN
       IF hit = {} THEN End(t) /\ UNCHANGED fileVars
       ELSE /\ bare # {} => Unused # {}
            /\ st' = [r \in Rows |-> IF r \in hit THEN "trash"
                                     ELSE IF bare # {} /\ r = new THEN "live" ELSE st[r]]
            /\ path' = [r \in Rows |-> IF bare # {} /\ r = new THEN CHOOSE f \in bare : TRUE
                                       ELSE path[r]]
            /\ Go(t, [task[t] EXCEPT !.pc = "unlink", !.src = what])
    /\ UNCHANGED <<linkVars, asked, hangs>>

(* What the links' statements take for the target: LIKE ignores case.       *)
Alike(a, b) == a = b \/ <<a, b>> \in Like
LikeCovers(o, p) ==
    IF IsFolder(o)
    THEN /\ Len(p) > Len(Bare(o))
         /\ \A i \in 1 .. Len(Bare(o)) : Alike(Bare(o)[i], p[i])
    ELSE p = o
Open(l) == target[l] # <<>>
LinksAt(o) == {l \in Links : Open(l) /\ LikeCovers(o, target[l])}

\* mutant: the links of what was deleted stay
DropLinksNot(t) ==
    /\ task[t].pc = "unlink"
    /\ End(t) /\ UNCHANGED <<fileVars, linkVars, asked, hangs>>

(* delete_for_target.                                                       *)
DropLinks(t) ==
    /\ task[t].pc = "unlink"
    /\ target' = [l \in Links |-> IF l \in LinksAt(task[t].src) THEN <<>> ELSE target[l]]
    /\ End(t) /\ UNCHANGED <<fileVars, of, torn, asked, hangs>>

(* canonicalize_live_path, and the checks that need no more.                *)
Canonicalize(t) ==
    /\ Is(t, "start", {"move", "copy"})
    /\ LET p == Path(t)
           src == IF LivePathExists(p) THEN p ELSE Folder(p)
           dst == PathInFolder(src, task[t].req.to) IN
       IF \/ ~LivePathExists(src) /\ (IsFolder(p) \/ At(LiveRows, src) = {})
          \/ Op(t) = "move" /\ (src = dst \/ (IsFolder(src) /\ Covers(src, dst)))
       THEN End(t)
       ELSE Go(t, [task[t] EXCEPT !.pc = "resolve", !.src = src, !.dst = dst])
    /\ UNCHANGED <<fileVars, linkVars, asked, hangs>>

(* TrashService::restore: what is in the trash at the path.                 *)
FindTrashed(t) ==
    /\ Is(t, "start", {"restore", "forever", "empty"})
    /\ LET p == Path(t)
           hit == IF Op(t) = "empty" THEN TrashedRows ELSE At(TrashedRows, p)
           src == IF \E r \in hit : path[r] # p THEN Folder(p) ELSE p IN
       IF hit = {} THEN End(t)
       ELSE IF Op(t) # "restore" THEN Go(t, [task[t] EXCEPT !.pc = "purge", !.ids = hit])
       ELSE Go(t, [task[t] EXCEPT !.pc = "resolve", !.src = src, !.dst = src])
    /\ UNCHANGED <<fileVars, linkVars, asked, hangs>>

\* mutant: a copy onto itself may replace
OverlapsNot(t) == FALSE

(* A path cannot be replaced by what is in it, or by what it is in.         *)
Overlaps(t) ==
    LET s == task[t].src
        d == task[t].dst IN
    Op(t) # "restore" /\ (d = s \/ (IsFolder(s) /\ Covers(s, d)) \/ (IsFolder(d) /\ Covers(d, s)))

(* resolve_dest_conflict: fail, replace, or take the next free name.        *)
Resolve(t) ==
    /\ task[t].pc = "resolve"
    /\ LET d == task[t].dst
           mode == task[t].req.mode IN
       IF ~LiveConflictAt(d) THEN Go(t, [task[t] EXCEPT !.pc = "parents"])
       ELSE IF Overlaps(t) \/ mode = "rename"
       THEN \E n \in NextAvailable(d) :
                Go(t, [task[t] EXCEPT !.pc = IF Op(t) = "restore" THEN "rename trashed" ELSE "parents",
                                      !.dst = n])
       ELSE IF mode = "replace"
       THEN Go(t, [task[t] EXCEPT !.pc = "purge", !.ids = At(LiveRows, d)])
       ELSE End(t)
    /\ UNCHANGED <<fileVars, linkVars, asked, hangs>>

(* purge_file_ids: the links at the rows' paths, then the rows.             *)
Purge(t) ==
    /\ task[t].pc = "purge"
    /\ LET there == {r \in task[t].ids : st[r] \in {"live", "trash"}} IN
       /\ target' = [l \in Links |->
              IF Open(l) /\ \E r \in there : LikeCovers(path[r], target[l]) THEN <<>> ELSE target[l]]
       /\ st' = [r \in Rows |-> IF r \in there THEN "gone" ELSE st[r]] /\ UNCHANGED path
    /\ IF Op(t) \in {"forever", "empty"} THEN End(t) ELSE Go(t, [task[t] EXCEPT !.pc = "parents"])
    /\ UNCHANGED <<of, torn, asked, hangs>>

(* update_trashed_path.                                                     *)
RenameTrashed(t) ==
    /\ task[t].pc = "rename trashed"
    /\ LET s == task[t].src
           d == task[t].dst IN
       path' = [r \in Rows |-> IF r \in TrashedRows /\ Covers(s, path[r])
                               THEN Rewritten(path[r], s, d) ELSE path[r]]
    /\ Go(t, [task[t] EXCEPT !.pc = "parents", !.src = task[t].dst])
    /\ UNCHANGED <<st, linkVars, asked, hangs>>

(* ensure_live_parent_folders: a marker comes back from the trash, or is    *)
(* made; the rows of new follow.                                            *)
MakeUnder(p, new) ==
    LET missing == {f \in Parents(p) : ~LivePathExists(f)}
        old == {f \in missing : \E r \in TrashedRows : path[r] = f}
        made == SetToSeq((missing \ old) \cup new)
        first == MaxRows - Cardinality(Unused) IN
    /\ Cardinality(Unused) >= Len(made)
    /\ \E back \in SUBSET {r \in TrashedRows : path[r] \in old} :
           /\ \A f \in old : Cardinality({r \in back : path[r] = f}) = 1
           /\ st' = [r \in Rows |-> IF r \in back \/ r - first \in DOMAIN made THEN "live" ELSE st[r]]
    /\ path' = [r \in Rows |-> IF r - first \in DOMAIN made THEN made[r - first] ELSE path[r]]

EnsureParents(t) ==
    /\ task[t].pc = "parents"
    /\ MakeUnder(task[t].dst, {})
    /\ Go(t, [task[t] EXCEPT !.pc = IF Op(t) = "restore" THEN "undelete" ELSE "change"])
    /\ UNCHANGED <<linkVars, asked, hangs>>

(* FilesRepository::restore: rows whose path is taken stay; two rows of one *)
(* path break the unique index, and nothing comes back.                     *)
Undelete(t) ==
    /\ task[t].pc = "undelete"
    /\ LET back == {r \in At(TrashedRows, task[t].dst) : ~LivePathExists(path[r])} IN
       st' = IF \E r, s \in back : r # s /\ path[r] = path[s] THEN st
             ELSE [r \in Rows |-> IF r \in back THEN "live" ELSE st[r]]
    /\ End(t) /\ UNCHANGED <<path, linkVars, asked, hangs>>

\* mutant: a path that is taken is not looked for
RewriteBlind(t) ==
    /\ Is(t, "change", {"move"}) \/ Is(t, "start", {"rename"})
    /\ LET s == IF Op(t) = "move" THEN task[t].src ELSE Path(t)
           d == IF Op(t) = "move" THEN task[t].dst ELSE task[t].req.to
           moved == {r \in LiveRows : Covers(s, path[r])} IN
       /\ path' = [r \in Rows |-> IF r \in moved THEN Rewritten(path[r], s, d) ELSE path[r]]
       /\ Go(t, [task[t] EXCEPT !.pc = "relink", !.src = s, !.dst = d])
    /\ UNCHANGED <<st, linkVars, asked, hangs>>

(* update_path, of a move or a rename: all rows, or none when a path is     *)
(* taken.                                                                   *)
Rewrite(t) ==
    /\ Is(t, "change", {"move"}) \/ Is(t, "start", {"rename"})
    /\ LET s == IF Op(t) = "move" THEN task[t].src ELSE Path(t)
           d == IF Op(t) = "move" THEN task[t].dst ELSE task[t].req.to
           moved == {r \in LiveRows : Covers(s, path[r])}
           new == [r \in LiveRows |-> IF r \in moved THEN Rewritten(path[r], s, d) ELSE path[r]] IN
       IF ~IsInjective(new)
       THEN End(t) /\ UNCHANGED path
       ELSE /\ path' = new @@ path
            /\ Go(t, [task[t] EXCEPT !.pc = "relink", !.src = s, !.dst = d])
    /\ UNCHANGED <<st, linkVars, asked, hangs>>

\* mutant: the links below the folder stay
RelinkedItself(p, s, d) == IF p = s THEN d ELSE p

(* rewrite_share_paths: the links at the path, and below it, also when it   *)
(* is a file's.  History: a link whose row is no longer where the rows'     *)
(* statement took it was overtaken.                                         *)
Relinked(p, s, d) ==
    IF p = s THEN d ELSE IF LikeCovers(Folder(s), p) THEN Rewritten(p, Folder(s), Folder(d)) ELSE p

Relink(t) ==
    /\ task[t].pc = "relink"
    /\ LET s == task[t].src
           d == task[t].dst IN
       /\ target' = [l \in Links |-> IF Open(l) THEN Relinked(target[l], s, d) ELSE <<>>]
       /\ torn' = torn \cup {l \in Links : /\ Open(l) /\ Covers(s, target[l])
                                           /\ \/ st[of[l]] # "live"
                                              \/ path[of[l]] # Rewritten(target[l], s, d)}
    /\ End(t) /\ UNCHANGED <<fileVars, of, asked, hangs>>

(* The rows that are to be copied, and where.                               *)
ListSource(t) ==
    /\ Is(t, "change", {"copy"})
    /\ LET rows == {r \in LiveRows : Covers(task[t].src, path[r])} IN
       IF rows = {} THEN End(t) ELSE Go(t, [task[t] EXCEPT !.pc = "clone", !.ids = rows])
    /\ UNCHANGED <<fileVars, linkVars, asked, hangs>>

(* clone_one_row, a folder before what is in it; a taken path ends the      *)
(* copy.                                                                    *)
CloneOne(t) ==
    /\ task[t].pc = "clone"
    /\ LET depth(r) == Len(Bare(path[r]))
           r == CHOOSE x \in task[t].ids : \A y \in task[t].ids : depth(x) =< depth(y)
           p == Rewritten(path[r], task[t].src, task[t].dst)
           left == task[t].ids \ {r} IN
       /\ MakeUnder(p, IF LivePathExists(p) THEN {} ELSE {p})
       /\ IF LivePathExists(p) \/ left = {} THEN End(t) ELSE Go(t, [task[t] EXCEPT !.ids = left])
    /\ UNCHANGED <<linkVars, asked, hangs>>

-----------------------------------------------------------------------------
(* Share links.                                                             *)

(* normalize_and_resolve_target.                                            *)
ResolveTarget(t) ==
    /\ Is(t, "start", {"share"})
    /\ LET at == IF LivePathExists(Path(t)) THEN Path(t) ELSE Folder(Path(t))
           rows == {r \in LiveRows : Covers(at, path[r])} IN
       IF rows = {} THEN End(t)
       ELSE Go(t, [task[t] EXCEPT !.pc = "share", !.src = at,
                                  !.own = IF LivePathExists(at) THEN {r \in rows : path[r] = at} ELSE rows])
    /\ UNCHANGED <<fileVars, linkVars, asked, hangs>>

(* ShareLinksRepository::create.  A folder without a row of its own is      *)
(* followed by no property.                                                 *)
CreateLink(t) ==
    /\ task[t].pc = "share"
    /\ \E l \in Links :
           /\ of[l] = 0 /\ \A k \in Links : k < l => of[k] # 0
           /\ target' = [target EXCEPT ![l] = task[t].src]
           /\ \E r \in task[t].own :
                  /\ of' = [of EXCEPT ![l] = r]
                  /\ torn' = IF st[r] = "live" /\ path[r] = task[t].src THEN torn ELSE torn \cup {l}
    /\ End(t) /\ UNCHANGED <<fileVars, asked, hangs>>

(* A revoked link, like one past its expiry, shows nothing.                 *)
Revoke(t) ==
    /\ Is(t, "start", {"revoke"})
    /\ \E l \in Links : Open(l) /\ target' = [target EXCEPT ![l] = <<>>]
    /\ End(t) /\ UNCHANGED <<fileVars, of, torn, asked, hangs>>

(* The client hangs up and the request is dropped where it stands.          *)
HangUp(t) ==
    /\ task[t] # Idle /\ hangs < MaxHangs /\ hangs' = hangs + 1
    /\ torn' = IF task[t].pc \in {"unlink", "relink"}
               THEN torn \cup {l \in Links : Open(l) /\ Covers(task[t].src, target[l])} ELSE torn
    /\ End(t) /\ UNCHANGED <<fileVars, target, of, asked>>

Step(t) ==
    \/ Upload(t) \/ CreateFolder(t) \/ Delete(t) \/ DropLinks(t) \/ Canonicalize(t)
    \/ FindTrashed(t) \/ Resolve(t) \/ Purge(t) \/ RenameTrashed(t) \/ EnsureParents(t)
    \/ Undelete(t) \/ Rewrite(t) \/ Relink(t) \/ ListSource(t) \/ CloneOne(t)
    \/ ResolveTarget(t) \/ CreateLink(t) \/ Revoke(t)

(* No event: the server waits.                                              *)
Quiet == UNCHANGED vars

Next ==
    \/ Quiet
    \/ \E t \in Tasks : Step(t) \/ HangUp(t) \/ \E q \in Requests : Ask(t, q)

Spec == Init /\ [][Next]_vars

-----------------------------------------------------------------------------
(* Every variable stays in its range, a live path is one row's, and a row   *)
(* that was never made has no path.                                         *)
TypeOK ==
    /\ \A r \in Rows : st[r] \in {"none", "live", "trash", "gone"} /\ (st[r] = "none") = (path[r] = <<>>)
    /\ \A r, s \in LiveRows : path[r] = path[s] => r = s
    /\ \A l \in Links : of[l] \in 0 .. MaxRows
    /\ asked \in 0 .. MaxRequests /\ hangs \in 0 .. MaxHangs

(* A link leads to what it was made for: once the statements for the links  *)
(* have followed the ones for the files, its target is the row it was made  *)
(* for, live, at the link's path; a request that was dropped or overtaken   *)
(* between the two is excepted (FilesService::delete, rename, move_to).     *)
LinksFollow ==
    \A l \in Links :
        \/ ~Open(l) \/ l \in torn
        \/ \E t \in Tasks : task[t].pc \in {"unlink", "relink"} /\ Covers(task[t].src, target[l])
        \/ st[of[l]] = "live" /\ path[of[l]] = target[l]

(* What a move or a copy works on is not among the rows it chooses to       *)
(* destroy to make room, unless the file's new path names the folder it is  *)
(* in (resolve_dest_conflict).                                              *)
Chosen(t) == IF Is(t, "resolve", {"move", "copy"}) /\ task[t]'.pc = "purge" THEN task[t]'.ids ELSE {}
SourceIsKept ==
    \A t \in Tasks :
        \A r \in Chosen(t) : \/ ~Covers(task[t].src, path[r])
                             \/ Covers(Folder(task[t].dst), task[t].src)

(* The same without the exception: services/files.rs says that a file      *)
(* cannot be replaced with a copy of itself.                                *)
(* False, and in no run: what is moved may be in the folder whose path it   *)
(* takes.                                                                   *)
NeverReplacesItself ==
    [][\A t \in Tasks : \A r \in Chosen(t) : ~Covers(task[t].src, path[r])]_vars

(* What is in a folder keeps its place in it when the folder is moved or    *)
(* renamed (FilesRepository::rewrite_paths).                                *)
Below(p, o) == SubSeq(p, Len(Bare(o)) + 1, Len(p))
KeepsPlaces ==
    \A t \in Tasks : task[t].pc # "relink" /\ task[t]'.pc = "relink" =>
        \A r \in LiveRows :
            path[r]' # path[r] => Below(path[r]', task[t]'.dst) = Below(path[r], task[t]'.src)
MovedWhole == [][KeepsPlaces]_vars

(* A folder goes from the listing only by name: it or one above it is       *)
(* deleted, moved or replaced; deleting the last file in it does not do it  *)
(* (FilesRepository::delete), moving that file out does.                    *)
Tops == UNION {Parents(path[r]) : r \in LiveRows}
FoldersStay ==
    \A f \in Tops :
        Listed(f)' \/ \E t \in Tasks :
            /\ task[t] # task[t]'
            /\ \/ task[t].pc = "purge" \/ Op(t) = "rename" \/ task[t].pc = "change"
               \/ Op(t) = "delete" /\ Covers(Folder(Path(t)), f)

(* No step of a request changes more of the tree than was asked for: the    *)
(* source of a move is kept, what is in a folder keeps its place, and       *)
(* folders do not vanish with their files.                                  *)
TreeIsKept == [][SourceIsKept /\ KeepsPlaces /\ FoldersStay]_vars
=============================================================================
