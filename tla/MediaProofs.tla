----------------------------- MODULE MediaProofs -----------------------------
(***************************************************************************)
(* Media: that the caches hold what is at their path, that a chunk handed   *)
(* out is there, and that only a client that hung up leaves an archive. The *)
(* invariant says what each task knows of the row it reads: its versions    *)
(* are of that row, or a change that met the task has let them be.          *)
(***************************************************************************)
EXTENDS Media, FiniteSetTheorems, WellFoundedInduction, TLAPS

-----------------------------------------------------------------------------
(* The inductive invariant.                                                 *)

(* A picture of the file at the path, or one that is let be.                *)
Fine(v, lv, rv, lo) == v = 0 \/ v \in lo \/ (lv # 0 /\ v = rv[lv])
OfRow(t, v, lv, rv, lo) ==
    v = 0 \/ v \in lo \/ (lv # 0 /\ v = rv[lv] /\ lv \in {t.row, t.trow})
RowKnown(w, lv, rv, lo) == w = 0 \/ (rv[w] # 0 /\ (w = lv \/ rv[w] \in lo))

Pictures ==
    {"thumb", "thumb flight", "thumb permit", "thumb get", "preview", "preview flight",
    "permit",
     "preview get", "derive", "assemble"}
Located ==
    {"thumb flight", "preview flight", "permit", "preview get", "assemble", "list",
     "first permit", "read permit", "chunk", "chunk flight", "chunk get", "evict", "open"}
Listed == {"first permit", "read permit", "chunk", "chunk flight", "chunk get", "evict", "open"}
OnChunk == {"chunk flight", "chunk get", "evict", "open"}

Steps_ == Pictures \cup Located \cup {"start", "done", "download", "zip", "first"}

(* The fields of a task, and what they are by its step.                     *)
TaskType ==
    [pc : Steps_, q : Requests \cup {""}, trow : 0 .. MaxVersion, row : 0 .. MaxVersion,
     doc : 0 .. MaxVersion, got : 0 .. MaxVersion, lver : 0 .. MaxVersion, lnum : 0 .. Parts,
     idx : Nat \ {0}, all : SUBSET Channels, cs : SUBSET Channels, doomed : SUBSET Docs,
     risky : BOOLEAN]

Shape(t) ==
    /\ t.pc \in Pictures => t.q \in {"thumb", "preview"}
    /\ t.pc \in Located => t.row # 0
    /\ t.pc \in {"thumb flight", "derive"} => t.trow # 0
    /\ t.pc \in Listed => t.lver # 0 /\ t.cs # {} /\ t.all # {}
    /\ t.pc \in OnChunk => t.idx =< t.lnum

(* What a task has read of rows and documents is of the file at the path,  *)
(* or is let be.                                                            *)
Knows(t, lv, rv, lo) ==
    t.pc \notin {"start", "done"} =>
        /\ RowKnown(t.row, lv, rv, lo) /\ RowKnown(t.trow, lv, rv, lo)
        /\ OfRow(t, t.doc, lv, rv, lo) /\ OfRow(t, t.lver, lv, rv, lo)
        /\ Fine(t.got, lv, rv, lo)

TasksAreSound ==
    \A r \in Readers : Shape(task[r]) /\ Knows(task[r], live, rowVer, loose)

(* Rows are used in the order of their ids, the relay fills one of them.    *)
RowsAreSound ==
    /\ live # 0 => rowVer[live] # 0
    /\ \A w \in Versions : rowVer[w] # 0 => w =< rowVer[w]
    /\ \A w \in Versions : rowVer[w] = 0 => rowParts[w] = 0
    /\ relay.step # "off" => relay.row # 0
    /\ RowKnown(relay.row, live, rowVer, loose)
    /\ relay.step = "chunks" => rowParts[relay.row] < Parts

(* Pictures stored or cached, with no invalidation to come, are of the path.*)
PicturesAreFine ==
    /\ Fine(thumbDoc, live, rowVer, loose) /\ Fine(previewDoc, live, rowVer, loose)
    /\ inval = 0 => Fine(thumbs, live, rowVer, loose) /\ Fine(previews, live, rowVer, loose)
    /\ \A b \in backfills : rowVer[b[2]] # 0 /\ (b[2] = live => Fine(b[3], live, rowVer, loose))

(* Flights for pictures are held by those who make one.                     *)
HeldByReaders ==
    \A r \in Readers :
        /\ flight[ThumbKey] = r => task[r].trow # 0
        /\ flight[PreviewKey] = r => task[r].q \in {"thumb", "preview"}

(* A chunk handed out is young, and on nobody's list.                       *)
HandedOut ==
    \A r \in Readers : task[r].pc \in {"open", "evict"} /\ ~task[r].risky =>
        Wanted(r) \in young /\ ~Condemned(Wanted(r))

(* Who has an archive is sending it.                                        *)
ZipsAreHeld ==
    \A r \in zips :
        \/ task[r].pc = "done" /\ r \in hung
        \/ task[r].pc \in {"chunk", "read permit"} /\ task[r].q = "zip"

(* The sets the variables range over, those of TypeOK among them.           *)
TasksType == task \in [Readers -> TaskType]
RowsType ==
    /\ live \in 0 .. MaxVersion /\ rowVer \in [Versions -> 0 .. MaxVersion]
    /\ rowParts \in [Versions -> 0 .. Parts]
    /\ relay \in [row : 0 .. MaxVersion, step : {"off", "chunks", "derive"}, here : BOOLEAN]
    /\ thumbDoc \in 0 .. MaxVersion /\ previewDoc \in 0 .. MaxVersion
TilesType ==
    /\ thumbs \in 0 .. MaxVersion /\ previews \in 0 .. MaxVersion /\ inval \in Nat
    /\ backfills \subseteq {"thumb", "preview"} \X Versions \X (0 .. MaxVersion)
CacheType ==
    /\ young \subseteq disk /\ disk \subseteq Docs /\ zips \subseteq Readers
FlightType == flight \in [Flights -> Readers \cup {Free}]
PermitsHold ==
    /\ IsFiniteSet(media) /\ Cardinality(media) =< MediaPermits
    /\ IsFiniteSet(tiles) /\ Cardinality(tiles) =< ThumbPermits

Types == TasksType /\ RowsType /\ TilesType /\ CacheType /\ FlightType /\ PermitsHold

MediaInv ==
    /\ Types /\ TasksAreSound /\ RowsAreSound /\ PicturesAreFine /\ HeldByReaders
    /\ HandedOut /\ ZipsAreHeld

-----------------------------------------------------------------------------
(* The least and the greatest of a set, and the keys of the flights.        *)

LEMMA VersionsAre == Versions = (0 .. MaxVersion) \ {0}
BY MediaAssumption DEF Versions

LEMMA Constants ==
  /\ MediaPermits \in Nat \ {0} /\ ThumbPermits \in Nat \ {0} /\ Parts \in Nat \ {0}
  /\ MaxVersion \in Nat \ {0} /\ Channels \subseteq Nat /\ IsFiniteSet(Channels)
  /\ Asks \subseteq Readers \X Requests /\ Free \notin Readers
<1>1. Cardinality(Channels) \in Nat
  BY FS_CardinalityType, MediaAssumption
<1> QED BY <1>1, MediaAssumption

(* Min, which ordered_active_channels is modelled with, picks an element.   *)
LEMMA MinIsIn ==
  ASSUME NEW S \in SUBSET Nat, S # {}
  PROVE  Min(S) \in S /\ \A y \in S : Min(S) =< y
<1>1. PICK p \in S : \A q \in S : ~ (<<q, p>> \in OpToRel(<, Nat))
  BY NatLessThanWellFounded, WFMin, Zenon
<1>2. \A q \in S : ~ (q < p)
  BY <1>1 DEF OpToRel
<1>3. \A q \in S : p =< q
  <2>1. S \subseteq Nat
    OBVIOUS
  <2> QED BY <1>2, <2>1
<1> QED BY <1>3 DEF Min

(* The latest version is one, and no row has a later one.                   *)
LEMMA LatestIs ==
  ASSUME RowsType
  PROVE  Latest \in 0 .. MaxVersion /\ \A w \in Versions : rowVer[w] =< Latest
<1> DEFINE S == {rowVer[w] : w \in Versions}
           T == {n \in Nat : \E s \in S : n = MaxVersion - s}
<1>1. S \subseteq 0 .. MaxVersion /\ S # {}
  BY Constants DEF RowsType, Versions
<1>2. T \subseteq Nat /\ T # {}
  <2>1. PICK s \in S : TRUE
    BY <1>1
  <2>2. s \in 0 .. MaxVersion
    BY <1>1, <2>1
  <2>3. MaxVersion - s \in Nat
    BY <2>2, Constants
  <2> QED BY <2>1, <2>3
<1>3. Min(T) \in T /\ \A y \in T : Min(T) =< y
  BY <1>2, MinIsIn
<1>4. PICK m \in S : Min(T) = MaxVersion - m
  BY <1>3
<1>5. \A y \in S : m >= y
  <2> SUFFICES ASSUME NEW y \in S PROVE m >= y
    OBVIOUS
  <2>1. MaxVersion - y \in T
    BY <1>1, Constants
  <2>2. Min(T) =< MaxVersion - y
    BY <2>1, <1>3
  <2> QED BY <2>2, <1>1, <1>4, Constants
<1> HIDE DEF S
<1>6. Max(S) \in S /\ \A y \in S : Max(S) >= y
  BY <1>5 DEF Max
<1> QED BY <1>6, <1>1 DEF Latest, S, RowsType

(* The flight of a chunk is not that of a picture.                          *)
LEMMA FlightKeys ==
  /\ ThumbKey \in Flights /\ PreviewKey \in Flights /\ ThumbKey # PreviewKey
  /\ Docs \subseteq Flights
  /\ \A v, i, ch : Chunk(v, i, ch) # ThumbKey /\ Chunk(v, i, ch) # PreviewKey
BY DEF ThumbKey, PreviewKey, Flights, Chunk

-----------------------------------------------------------------------------
(* The steps: those of one reader, those of the writers, and time.          *)

Reads_(r) ==
    \/ Step(r) \/ ThumbLost(r) \/ PreviewLost(r) \/ ChunkFails(r) \/ HangUp(r)
    \/ \E q \in Requests : Ask(r, q) \/ WarmOne(r, q)

Writes ==
    \/ Upload \/ Replace \/ Delete \/ MoveAway \/ Invalidate \/ RelayChunk \/ UploadDerived
    \/ \E b \in backfills : Backfill(b)

LEMMA Kinds ==
  ASSUME [Next]_vars
  PROVE  \/ \E r \in Readers : Reads_(r)
         \/ Writes
         \/ \E d \in Docs : Age(d)
         \/ UNCHANGED vars
BY Constants DEF Next, Reads_, Writes, Quiet

-----------------------------------------------------------------------------
(* What a reader's step makes of its task.                                  *)

Moved(r) ==
    \E u \in TaskType :
        /\ task' = [task EXCEPT ![r] = u]
        /\ Shape(u) /\ Knows(u, live, rowVer, loose')

LEMMA Weaken ==
  ASSUME NEW t, NEW lv, NEW rv, NEW lo, NEW lo2, lo \subseteq lo2
  PROVE  /\ \A v : Fine(v, lv, rv, lo) => Fine(v, lv, rv, lo2)
         /\ \A w : RowKnown(w, lv, rv, lo) => RowKnown(w, lv, rv, lo2)
         /\ Knows(t, lv, rv, lo) => Knows(t, lv, rv, lo2)
BY DEF Fine, RowKnown, OfRow, Knows

LEMMA StepNames ==
  /\ {"start", "done", "download", "zip", "first", "thumb", "preview"} \subseteq Steps_
  /\ Pictures \subseteq Steps_ /\ Located \subseteq Steps_ /\ Listed \subseteq Located
  /\ OnChunk \subseteq Listed
BY DEF Steps_, Pictures, Located, Listed, OnChunk

LEMMA EndsSound ==
  /\ Done \in TaskType /\ Asleep \in TaskType
  /\ \A q \in Requests : [Asleep EXCEPT !.pc = q, !.q = q] \in TaskType
<1>1. Asleep \in TaskType
  BY Constants, StepNames DEF Asleep, TaskType
<1>2. Done \in TaskType
  BY <1>1, StepNames DEF Done, TaskType
<1>3. ASSUME NEW q \in Requests PROVE [Asleep EXCEPT !.pc = q, !.q = q] \in TaskType
  <2>1. q \in Steps_
    BY StepNames DEF Requests
  <2> QED BY <1>1, <2>1 DEF TaskType
<1> QED BY <1>1, <1>2, <1>3

(* A task with a step, a picture, a row or a candidate of its own.          *)
LEMMA Updates ==
  ASSUME NEW t \in TaskType, NEW pc \in Steps_, NEW v \in 0 .. MaxVersion,
         NEW w \in 0 .. MaxVersion, NEW n \in 0 .. Parts, NEW C \in SUBSET Channels
  PROVE  /\ [t EXCEPT !.pc = pc] \in TaskType
         /\ [t EXCEPT !.pc = pc, !.got = v] \in TaskType
         /\ [t EXCEPT !.pc = pc, !.row = w] \in TaskType
         /\ [t EXCEPT !.pc = pc, !.row = w, !.doc = v] \in TaskType
         /\ [t EXCEPT !.pc = pc, !.trow = w, !.row = w, !.doc = v] \in TaskType
         /\ [t EXCEPT !.pc = pc, !.cs = C] \in TaskType
         /\ [t EXCEPT !.pc = pc, !.lver = v, !.lnum = n, !.idx = 1, !.all = C, !.cs = C]
            \in TaskType
<1>1. [t EXCEPT !.pc = pc] \in TaskType
  BY DEF TaskType
<1>2. [t EXCEPT !.pc = pc, !.got = v] \in TaskType
  BY DEF TaskType
<1>3. [t EXCEPT !.pc = pc, !.row = w] \in TaskType
  BY DEF TaskType
<1>4. [t EXCEPT !.pc = pc, !.row = w, !.doc = v] \in TaskType
  BY DEF TaskType
<1>5. [t EXCEPT !.pc = pc, !.trow = w, !.row = w, !.doc = v] \in TaskType
  BY DEF TaskType
<1>6. [t EXCEPT !.pc = pc, !.cs = C] \in TaskType
  BY DEF TaskType
<1>7. [t EXCEPT !.pc = pc, !.lver = v, !.lnum = n, !.idx = 1, !.all = C, !.cs = C] \in TaskType
  <2> DEFINE a == [t EXCEPT !.pc = pc, !.lver = v, !.lnum = n]
             b == [a EXCEPT !.idx = 1, !.all = C, !.cs = C]
  <2>1. a \in TaskType
    BY DEF TaskType
  <2>2. b \in TaskType
    <3>1. 1 \in Nat \ {0}
      OBVIOUS
    <3> HIDE DEF a
    <3> QED BY <2>1, <3>1 DEF TaskType
  <2>3. b = [t EXCEPT !.pc = pc, !.lver = v, !.lnum = n, !.idx = 1, !.all = C, !.cs = C]
    BY DEF TaskType
  <2> QED BY <2>2, <2>3
<1> QED BY <1>1, <1>2, <1>3, <1>4, <1>5, <1>6, <1>7

LEMMA AnyKnows ==
  ASSUME NEW lv, NEW rv, NEW lo
  PROVE  /\ Shape(Done) /\ Knows(Done, lv, rv, lo)
         /\ \A q \in Requests :
                /\ Shape([Asleep EXCEPT !.pc = q, !.q = q])
                /\ Knows([Asleep EXCEPT !.pc = q, !.q = q], lv, rv, lo)
<1>1. Shape(Done) /\ Knows(Done, lv, rv, lo)
  BY DEF Done, Asleep, Shape, Knows, Pictures, Located, Listed, OnChunk
<1>2. ASSUME NEW q \in Requests
      PROVE  /\ Shape([Asleep EXCEPT !.pc = q, !.q = q])
             /\ Knows([Asleep EXCEPT !.pc = q, !.q = q], lv, rv, lo)
  BY DEF Asleep, Shape, Knows, Pictures, Located, Listed, OnChunk, Requests, RowKnown, OfRow,
      Fine
<1> QED BY <1>1, <1>2

(* A task that ends, that goes on with what it knows, or that learns one    *)
(* thing more.                                                              *)
LEMMA FinishMoves ==
  ASSUME NEW r \in Readers, Finish(r)
  PROVE  Moved(r)
BY EndsSound, AnyKnows DEF Finish, Moved

LEMMA GoMoves ==
  ASSUME Types, TasksAreSound, loose \subseteq loose', NEW r \in Readers, NEW u,
         Go(r, u), u \in TaskType, Shape(u), Knows(u, live, rowVer, loose')
  PROVE  Moved(r)
BY DEF Go, Moved

LEMMA PcMoves ==
  ASSUME Types, TasksAreSound, loose \subseteq loose', NEW r \in Readers, NEW pc \in Steps_,
         task[r].pc \notin {"start", "done"},
         Go(r, [task[r] EXCEPT !.pc = pc]), Shape([task[r] EXCEPT !.pc = pc])
  PROVE  Moved(r)
<1> DEFINE t == task[r]
           u == [t EXCEPT !.pc = pc]
<1>1. t \in TaskType /\ Knows(t, live, rowVer, loose)
  BY DEF Types, TasksType, TasksAreSound
<1>2. u \in TaskType
  BY <1>1 DEF TaskType
<1>3. Knows(t, live, rowVer, loose')
  BY <1>1, Weaken
<1>4. Knows(u, live, rowVer, loose')
  BY <1>1, <1>3 DEF TaskType, Knows, OfRow
<1> QED BY <1>2, <1>4, GoMoves

LEMMA ListMoves ==
  ASSUME Types, TasksAreSound, RowsAreSound, loose' = loose, NEW r \in Readers, NEW pc,
         pc \in {"first permit", "read permit", "chunk"},
         task[r].pc \in {"list", "assemble"}, List(r, pc)
  PROVE  Moved(r)
<1> DEFINE t == task[r]
           w == t.row
           u == [t EXCEPT !.pc = pc, !.lver = rowVer[w], !.lnum = rowParts[w], !.idx = 1,
                          !.all = Candidates, !.cs = Candidates]
<1>1. t \in TaskType /\ Shape(t) /\ Knows(t, live, rowVer, loose)
  BY DEF Types, TasksType, TasksAreSound
<1>2. CASE Candidates = {}
  BY <1>2, FinishMoves DEF List
<1>3. CASE Candidates # {}
  <2>1. Go(r, u)
    BY <1>3 DEF List
  <2>2. w \in Versions /\ w # 0 /\ RowKnown(w, live, rowVer, loose) /\ RowKnown(t.trow, live,
        rowVer, loose)
        /\ OfRow(t, t.doc, live, rowVer, loose) /\ Fine(t.got, live, rowVer, loose)
    <3>1. w \in 0 .. MaxVersion /\ w # 0 /\ t.pc \notin {"start", "done"}
      BY <1>1 DEF Shape, Located, TaskType
    <3>2. w \in Versions
      BY <3>1, VersionsAre
    <3> QED BY <1>1, <3>1, <3>2 DEF Knows
  <2>3. rowVer[w] \in 0 .. MaxVersion /\ rowParts[w] \in 0 .. Parts
    BY <2>2 DEF Types, RowsType
  <2>4. Candidates \subseteq Channels /\ pc \in Steps_
    BY StepNames DEF Candidates, Listed
  <2>5. u \in TaskType
    BY <1>1, <2>3, <2>4, Updates
  <2>6. u.pc = pc /\ u.q = t.q /\ u.trow = t.trow /\ u.row = w /\ u.lver = rowVer[w]
        /\ u.cs = Candidates /\ u.all = Candidates /\ u.doc = t.doc /\ u.got = t.got
    BY <1>1 DEF TaskType
  <2> HIDE DEF u
  <2>7. Shape(u)
    BY <1>1, <1>3, <2>2, <2>6 DEF Shape, RowKnown, Pictures, Located, Listed, OnChunk
  <2>8. OfRow(u, u.lver, live, rowVer, loose)
    BY <2>2, <2>6 DEF RowKnown, OfRow
  <2>9. Knows(u, live, rowVer, loose)
    BY <2>2, <2>6, <2>8 DEF OfRow, Knows
  <2> QED BY <2>1, <2>5, <2>7, <2>9, GoMoves
<1> QED BY <1>2, <1>3

LEMMA ReturnMoves ==
  ASSUME Types, TasksAreSound, HeldByReaders, loose \subseteq loose', NEW r \in Readers,
         NEW v \in 0 .. MaxVersion, flight[ThumbKey] = r => Fine(v, live, rowVer, loose'),
         task[r].pc \in Pictures \/ Assembles(r), task[r].pc \notin {"start", "done"},
         PreviewReturns(r, v)
  PROVE  Moved(r)
<1> DEFINE t == task[r]
           u == [t EXCEPT !.pc = "derive", !.got = v]
<1>1. t \in TaskType /\ Shape(t) /\ Knows(t, live, rowVer, loose)
  BY DEF Types, TasksType, TasksAreSound
<1>2. CASE flight[ThumbKey] # r
  BY <1>2, FinishMoves DEF PreviewReturns
<1>3. CASE flight[ThumbKey] = r
  <2>1. Go(r, u)
    BY <1>3 DEF PreviewReturns
  <2>2. t.trow # 0 /\ t.q \in {"thumb", "preview"}
    BY <1>1, <1>3 DEF HeldByReaders, Assembles, Shape
  <2>3. u \in TaskType
    <3>1. "derive" \in Steps_
      BY StepNames DEF Pictures
    <3> QED BY <1>1, <3>1 DEF TaskType
  <2>4. u.pc = "derive" /\ u.q = t.q /\ u.trow = t.trow /\ u.row = t.row /\ u.doc = t.doc
        /\ u.lver = t.lver /\ u.got = v
    BY <1>1 DEF TaskType
  <2> HIDE DEF u
  <2>5. Shape(u)
    BY <2>2, <2>4 DEF Shape, Located, Listed, OnChunk
  <2>6. Knows(t, live, rowVer, loose')
    BY <1>1, Weaken
  <2>7. Knows(u, live, rowVer, loose')
    BY <1>3, <2>4, <2>6 DEF OfRow, Knows
  <2> QED BY <2>1, <2>3, <2>5, <2>7, GoMoves
<1> QED BY <1>2, <1>3

LEMMA FollowingMoves ==
  ASSUME Types, TasksAreSound, loose' = loose, NEW r \in Readers,
         task[r].pc \in Listed, Go(r, Following(r))
  PROVE  Moved(r)
<1> DEFINE t == task[r]
           u == Following(r)
<1>1. t \in TaskType /\ Shape(t) /\ Knows(t, live, rowVer, loose)
  BY DEF Types, TasksType, TasksAreSound
<1>2. u \in TaskType
  <2> DEFINE pc == IF Assembles(r) \/ t.idx = t.lnum THEN "chunk" ELSE "read permit"
             i == t.idx + 1
  <2>1. pc \in Steps_ /\ i \in Nat \ {0} /\ t.all \in SUBSET Channels
    <3>1. t.idx \in Nat \ {0} /\ t.all \in SUBSET Channels
      BY <1>1 DEF TaskType
    <3>2. "chunk" \in Steps_ /\ "read permit" \in Steps_
      BY StepNames DEF Listed
    <3>3. pc \in {"chunk", "read permit"}
      OBVIOUS
    <3>4. i \in Nat \ {0}
      <4> HIDE DEF t
      <4> QED BY <3>1
    <3> HIDE DEF pc, i
    <3> QED BY <3>1, <3>2, <3>3, <3>4
  <2>2. u = [t EXCEPT !.idx = i, !.cs = t.all, !.risky = FALSE, !.pc = pc]
    BY <1>1 DEF Following, TaskType
  <2> HIDE DEF pc, i, u
  <2> QED BY <1>1, <2>1, <2>2 DEF TaskType
<1>3. u.pc \in {"chunk", "read permit"} /\ u.q = t.q /\ u.trow = t.trow /\ u.row = t.row
      /\ u.doc = t.doc /\ u.lver = t.lver /\ u.got = t.got /\ u.cs = t.all /\ u.all = t.all
  BY <1>1 DEF TaskType, Following
<1>6. Go(r, u)
  OBVIOUS
<1> HIDE DEF u
<1>4. Shape(u)
  BY <1>1, <1>3 DEF Shape, Pictures, Located, Listed, OnChunk
<1>5. Knows(u, live, rowVer, loose)
  <2>1. t.pc \notin {"start", "done"}
    BY DEF Listed
  <2> QED BY <1>1, <1>3, <2>1 DEF OfRow, Knows
<1> QED BY <1>2, <1>4, <1>5, <1>6, GoMoves

LEMMA WantedIsIn ==
  ASSUME Types, TasksAreSound, NEW r \in Readers, task[r].pc \in Listed,
         task[r].idx =< task[r].lnum
  PROVE  Wanted(r) \in Docs /\ Min(task[r].cs) \in task[r].cs
<1> DEFINE t == task[r]
<1>1. t \in TaskType /\ Shape(t)
  BY DEF Types, TasksType, TasksAreSound
<1>2. /\ t.lver \in 0 .. MaxVersion /\ t.lnum \in 0 .. Parts /\ t.idx \in Nat \ {0}
      /\ t.cs \subseteq Channels /\ t.idx =< t.lnum
  BY <1>1 DEF TaskType
<1>3. t.lver # 0 /\ t.cs # {}
  BY <1>1 DEF Shape
<1>4. Min(t.cs) \in t.cs
  BY <1>2, <1>3, MinIsIn, Constants
<1>5. t.lver \in Versions
  BY <1>2, <1>3, VersionsAre
<1>6. t.idx \in 1 .. Parts
  <2> HIDE DEF t
  <2> QED BY <1>2, Constants
<1> QED BY <1>2, <1>4, <1>5, <1>6 DEF Wanted, Chunk, Docs

LEMMA OutdatedTells ==
  ASSUME NEW r, Outdated(r)
  PROVE  /\ loose \subseteq loose'
         /\ flight[ThumbKey] = r => Fine(previews, live, rowVer, loose')
BY DEF Outdated, Fine

(* The row a task finds at the path, and the documents it reads there.      *)
LEMMA FindKnows ==
  ASSUME RowsAreSound, live # 0, NEW t, NEW u, Knows(t, live, rowVer, loose),
         t.pc \notin {"start", "done"},
         u.row = live, u.trow \in {t.trow, live}, u.lver = t.lver, u.got = t.got,
         u.doc = t.doc \/ Fine(u.doc, live, rowVer, loose)
  PROVE  Knows(u, live, rowVer, loose)
BY DEF RowsAreSound, Knows, RowKnown, OfRow, Fine

LEMMA ThumbMoves ==
  ASSUME Types, TasksAreSound, RowsAreSound, PicturesAreFine, NEW r \in Readers, Thumb(r)
  PROVE  Moved(r)
<1> DEFINE t == task[r]
           u == [t EXCEPT !.pc = "thumb flight", !.trow = live, !.row = live, !.doc = thumbDoc]
<1>1. t \in TaskType /\ Shape(t) /\ Knows(t, live, rowVer, loose) /\ t.pc = "thumb"
      /\ loose' = loose
  BY DEF Types, TasksType, TasksAreSound, Thumb, At, tileVars
<1>2. CASE live = 0 \/ thumbs # 0
  BY <1>2, FinishMoves DEF Thumb
<1>3. CASE ~(live = 0 \/ thumbs # 0)
  <2>1. Go(r, u) /\ live # 0
    BY <1>3 DEF Thumb
  <2>2. u \in TaskType
    <3>1. "thumb flight" \in Steps_ /\ live \in 0 .. MaxVersion /\ thumbDoc \in 0 .. MaxVersion
      BY StepNames DEF Pictures, Types, RowsType
    <3> QED BY <1>1, <3>1 DEF TaskType
  <2>3. u.pc = "thumb flight" /\ u.q = t.q /\ u.trow = live /\ u.row = live
        /\ u.doc = thumbDoc /\ u.lver = t.lver /\ u.got = t.got
    BY <1>1 DEF TaskType
  <2> HIDE DEF u
  <2>4. Shape(u)
    BY <1>1, <2>1, <2>3 DEF Shape, Pictures, Located, Listed, OnChunk
  <2>5. Knows(u, live, rowVer, loose)
    BY <1>1, <2>1, <2>3, FindKnows DEF PicturesAreFine
  <2> QED BY <1>1, <2>1, <2>2, <2>4, <2>5, GoMoves
<1> QED BY <1>2, <1>3

LEMMA PreviewMoves ==
  ASSUME Types, TasksAreSound, RowsAreSound, PicturesAreFine, HeldByReaders,
         NEW r \in Readers, Preview(r)
  PROVE  Moved(r)
<1> DEFINE t == task[r]
           u == [t EXCEPT !.pc = "preview flight", !.row = live, !.doc = previewDoc]
<1>1. t \in TaskType /\ Shape(t) /\ Knows(t, live, rowVer, loose) /\ t.pc = "preview"
  BY DEF Types, TasksType, TasksAreSound, Preview, At
<1>2. loose \subseteq loose' /\ (flight[ThumbKey] = r => Fine(previews, live, rowVer, loose'))
  BY OutdatedTells DEF Preview
<1>3. CASE live = 0 \/ (kind = "video" /\ previewDoc = 0)
  BY <1>3, FinishMoves DEF Preview
<1>4. CASE ~(live = 0 \/ (kind = "video" /\ previewDoc = 0)) /\ previews # 0
  <2>1. PreviewReturns(r, previews)
    BY <1>4 DEF Preview
  <2>2. previews \in 0 .. MaxVersion /\ t.pc \in Pictures /\ t.pc \notin {"start", "done"}
    BY <1>1 DEF Types, TilesType, Pictures
  <2> QED BY <1>2, <2>1, <2>2, ReturnMoves
<1>5. CASE ~(live = 0 \/ (kind = "video" /\ previewDoc = 0)) /\ previews = 0
  <2>1. Go(r, u) /\ live # 0
    BY <1>5 DEF Preview
  <2>2. u \in TaskType
    <3>1. "preview flight" \in Steps_ /\ live \in 0 .. MaxVersion
          /\ previewDoc \in 0 .. MaxVersion
      BY StepNames DEF Pictures, Types, RowsType
    <3> QED BY <1>1, <3>1 DEF TaskType
  <2>3. u.pc = "preview flight" /\ u.q = t.q /\ u.trow = t.trow /\ u.row = live
        /\ u.doc = previewDoc /\ u.lver = t.lver /\ u.got = t.got
    BY <1>1 DEF TaskType
  <2> HIDE DEF u
  <2>4. Shape(u)
    BY <1>1, <2>1, <2>3 DEF Shape, Pictures, Located, Listed, OnChunk
  <2>5. Knows(u, live, rowVer, loose)
    BY <1>1, <2>1, <2>3, FindKnows DEF PicturesAreFine
  <2> QED BY <1>2, <2>1, <2>2, <2>4, <2>5, GoMoves, Weaken
<1> QED BY <1>3, <1>4, <1>5

LEMMA FindMoves ==
  ASSUME Types, TasksAreSound, RowsAreSound, NEW r \in Readers, Find(r)
  PROVE  Moved(r)
<1> DEFINE t == task[r]
           u == [t EXCEPT !.pc = "list", !.row = live]
<1>1. t \in TaskType /\ Shape(t) /\ Knows(t, live, rowVer, loose)
      /\ t.pc \in {"download", "zip", "first"} /\ loose' = loose
  BY DEF Types, TasksType, TasksAreSound, Find, At, tileVars
<1>2. CASE live = 0
  BY <1>2, FinishMoves DEF Find
<1>3. CASE live # 0
  <2>1. Go(r, u)
    BY <1>3 DEF Find
  <2>2. u \in TaskType
    <3>1. "list" \in Steps_ /\ live \in 0 .. MaxVersion
      BY StepNames DEF Located, Types, RowsType
    <3> QED BY <1>1, <3>1 DEF TaskType
  <2>3. u.pc = "list" /\ u.q = t.q /\ u.trow = t.trow /\ u.row = live
        /\ u.doc = t.doc /\ u.lver = t.lver /\ u.got = t.got
    BY <1>1 DEF TaskType
  <2> HIDE DEF u
  <2>4. Shape(u)
    BY <1>1, <1>3, <2>3 DEF Shape, Pictures, Located, Listed, OnChunk
  <2>5. Knows(u, live, rowVer, loose)
    BY <1>1, <1>3, <2>3, FindKnows
  <2> QED BY <1>1, <2>1, <2>2, <2>4, <2>5, GoMoves
<1> QED BY <1>2, <1>3

(* A task on a chunk: what it knows of its row stays.                       *)
LEMMA ChunkKnows ==
  ASSUME NEW t, NEW u, NEW lv, NEW rv, NEW lo, Knows(t, lv, rv, lo), Shape(t),
         t.pc \in Listed, u.q = t.q, u.trow = t.trow, u.row = t.row, u.doc = t.doc,
         u.got = t.got, u.lver = t.lver, u.all = t.all, u.cs # {}, u.pc \in Listed,
         u.pc \in OnChunk => u.idx =< u.lnum
  PROVE  Shape(u) /\ Knows(u, lv, rv, lo)
<1>1. t.pc \notin {"start", "done"}
  BY DEF Listed
<1>2. Knows(u, lv, rv, lo)
  BY <1>1 DEF Knows, OfRow
<1>3. u.pc \notin Pictures /\ u.pc \notin {"thumb flight", "derive"} /\ t.pc \in Located
  BY DEF Listed, Pictures, Located
<1>4. Shape(u)
  BY <1>3 DEF Shape
<1> QED BY <1>2, <1>4

LEMMA HitMoves ==
  ASSUME Types, TasksAreSound, NEW r \in Readers, ChunkHit(r)
  PROVE  Moved(r)
<1> DEFINE t == task[r]
           x == Condemned(Wanted(r))
           u == [t EXCEPT !.pc = "open", !.risky = x]
<1>1. t \in TaskType /\ Shape(t) /\ Knows(t, live, rowVer, loose)
      /\ t.pc \in {"chunk", "chunk flight"} /\ loose' = loose /\ t.idx =< t.lnum /\ Go(r, u)
  BY DEF Types, TasksType, TasksAreSound, ChunkHit, At, tileVars
<1>2. x \in BOOLEAN
  BY DEF Condemned
<1> HIDE DEF x
<1>3. u \in TaskType
  <2>1. "open" \in Steps_
    BY StepNames DEF Located
  <2> QED BY <1>1, <1>2, <2>1 DEF TaskType
<1>4. u.pc = "open" /\ u.q = t.q /\ u.trow = t.trow /\ u.row = t.row /\ u.doc = t.doc
      /\ u.got = t.got /\ u.lver = t.lver /\ u.all = t.all /\ u.cs = t.cs /\ u.idx = t.idx
      /\ u.lnum = t.lnum
  BY <1>1 DEF TaskType
<1> HIDE DEF u
<1>5. t.pc \in Listed /\ u.pc \in Listed /\ t.cs # {}
  BY <1>1, <1>4 DEF Listed, Shape
<1>6. Shape(u) /\ Knows(u, live, rowVer, loose)
  BY <1>1, <1>4, <1>5, ChunkKnows
<1> QED BY <1>1, <1>3, <1>6, GoMoves

LEMMA GotMoves ==
  ASSUME Types, TasksAreSound, NEW r \in Readers, ChunkGot(r)
  PROVE  Moved(r)
<1> DEFINE t == task[r]
           x == Condemned(Wanted(r))
<1>1. t \in TaskType /\ Shape(t) /\ Knows(t, live, rowVer, loose)
      /\ t.pc = "chunk get" /\ loose' = loose
  BY DEF Types, TasksType, TasksAreSound, ChunkGot, At, tileVars
<1>2. t.pc \in Listed /\ t.idx =< t.lnum /\ t.cs # {}
  BY <1>1 DEF Listed, Shape, OnChunk
<1>3. disk' = disk \cup {Wanted(r)} /\ disk' \subseteq Docs
  BY <1>2, WantedIsIn DEF ChunkGot, Types, CacheType
<1>4. PICK D \in SUBSET Docs :
          Go(r, [t EXCEPT !.pc = IF D = {} THEN "open" ELSE "evict", !.doomed = D, !.risky = x])
  BY <1>3 DEF ChunkGot
<1>5. x \in BOOLEAN
  BY DEF Condemned
<1> HIDE DEF x
<1> DEFINE pc == IF D = {} THEN "open" ELSE "evict"
           u == [t EXCEPT !.pc = pc, !.doomed = D, !.risky = x]
<1>6. Go(r, u)
  BY <1>4
<1>7. pc \in {"open", "evict"} /\ pc \in Steps_
  BY StepNames DEF Located
<1> HIDE DEF pc
<1>8. u \in TaskType
  BY <1>1, <1>5, <1>7 DEF TaskType
<1>9. u.pc = pc /\ u.q = t.q /\ u.trow = t.trow /\ u.row = t.row /\ u.doc = t.doc
      /\ u.got = t.got /\ u.lver = t.lver /\ u.all = t.all /\ u.cs = t.cs /\ u.idx = t.idx
      /\ u.lnum = t.lnum
  BY <1>1 DEF TaskType
<1> HIDE DEF u
<1>10. u.pc \in Listed
  BY <1>7, <1>9 DEF Listed
<1>11. Shape(u) /\ Knows(u, live, rowVer, loose)
  BY <1>1, <1>2, <1>9, <1>10, ChunkKnows
<1> QED BY <1>1, <1>6, <1>8, <1>11, GoMoves

LEMMA EvictMoves ==
  ASSUME Types, TasksAreSound, NEW r \in Readers, Evict(r)
  PROVE  Moved(r)
<1> DEFINE t == task[r]
<1>1. t \in TaskType /\ Shape(t) /\ Knows(t, live, rowVer, loose)
      /\ t.pc = "evict" /\ loose' = loose
  BY DEF Types, TasksType, TasksAreSound, Evict, At, tileVars
<1>2. t.pc \in Listed /\ t.idx =< t.lnum /\ t.cs # {} /\ t.doomed \subseteq Docs
  BY <1>1 DEF Listed, Shape, OnChunk, TaskType
<1>3. PICK D \in SUBSET Docs :
          Go(r, [t EXCEPT !.pc = IF D = {} THEN "open" ELSE "evict", !.doomed = D])
  BY <1>2 DEF Evict
<1> DEFINE pc == IF D = {} THEN "open" ELSE "evict"
           u == [t EXCEPT !.pc = pc, !.doomed = D]
<1>6. Go(r, u)
  BY <1>3
<1>7. pc \in {"open", "evict"} /\ pc \in Steps_
  BY StepNames DEF Located
<1> HIDE DEF pc
<1>8. u \in TaskType
  BY <1>1, <1>7 DEF TaskType
<1>9. u.pc = pc /\ u.q = t.q /\ u.trow = t.trow /\ u.row = t.row /\ u.doc = t.doc
      /\ u.got = t.got /\ u.lver = t.lver /\ u.all = t.all /\ u.cs = t.cs /\ u.idx = t.idx
      /\ u.lnum = t.lnum
  BY <1>1 DEF TaskType
<1> HIDE DEF u
<1>10. u.pc \in Listed
  BY <1>7, <1>9 DEF Listed
<1>11. Shape(u) /\ Knows(u, live, rowVer, loose)
  BY <1>1, <1>2, <1>9, <1>10, ChunkKnows
<1> QED BY <1>1, <1>6, <1>8, <1>11, GoMoves

(* The candidates that are left after the first: there were several.        *)
LEMMA MoreThanOne ==
  ASSUME NEW S, IsFiniteSet(S), Cardinality(S) > 1, NEW m
  PROVE  S \ {m} # {}
<1> SUFFICES ASSUME S \ {m} = {} PROVE FALSE
  OBVIOUS
<1>1. S \in SUBSET {m}
  OBVIOUS
<1>2. IsFiniteSet({m}) /\ Cardinality({m}) = 1
  BY FS_Singleton
<1>3. Cardinality(S) =< 1 /\ Cardinality(S) \in Nat
  BY <1>1, <1>2, FS_Subset, FS_CardinalityType
<1> QED BY <1>3

LEMMA FailMoves ==
  ASSUME Types, TasksAreSound, NEW r \in Readers, ChunkFails(r)
  PROVE  Moved(r)
<1> DEFINE t == task[r]
           C == t.cs \ {Min(t.cs)}
           u == [t EXCEPT !.pc = "chunk", !.cs = C]
<1>1. t \in TaskType /\ Shape(t) /\ Knows(t, live, rowVer, loose)
      /\ t.pc \in {"chunk get", "chunk"} /\ loose' = loose
  BY DEF Types, TasksType, TasksAreSound, ChunkFails, At, tileVars
<1>2. CASE ~(Cardinality(t.cs) > 1)
  BY <1>2, FinishMoves DEF ChunkFails
<1>3. CASE Cardinality(t.cs) > 1
  <2>1. Go(r, u)
    BY <1>1, <1>3 DEF ChunkFails, TaskType
  <2>2. t.cs \in SUBSET Channels
    BY <1>1 DEF TaskType
  <2>3. C # {} /\ C \in SUBSET Channels
    BY <1>3, <2>2, MoreThanOne, FS_Subset, Constants
  <2> HIDE DEF C
  <2>4. "chunk" \in Steps_ /\ t.pc \in Listed
    BY <1>1, StepNames DEF Located, Listed
  <2>5. u \in TaskType
    BY <1>1, <2>3, <2>4 DEF TaskType
  <2>6. u.pc = "chunk" /\ u.q = t.q /\ u.trow = t.trow /\ u.row = t.row /\ u.doc = t.doc
        /\ u.got = t.got /\ u.lver = t.lver /\ u.all = t.all /\ u.cs = C
    BY <1>1 DEF TaskType
  <2> HIDE DEF u
  <2>7. u.pc \in Listed /\ u.pc \notin OnChunk
    BY <2>6 DEF Listed, OnChunk
  <2>8. Shape(u) /\ Knows(u, live, rowVer, loose)
    BY <1>1, <2>3, <2>4, <2>6, <2>7, ChunkKnows
  <2> QED BY <1>1, <2>1, <2>5, <2>8, GoMoves
<1> QED BY <1>2, <1>3

(* A step that only changes where a task is.                                *)
LEMMA PlaceMoves ==
  ASSUME Types, TasksAreSound, loose \subseteq loose', NEW r \in Readers, NEW pc \in Steps_,
         task[r].pc \notin {"start", "done"},
         pc \in Pictures => task[r].q \in {"thumb", "preview"},
         pc \in Located => task[r].row # 0,
         pc \in {"thumb flight", "derive"} => task[r].trow # 0,
         pc \in Listed => task[r].pc \in Listed,
         pc \in OnChunk => task[r].idx =< task[r].lnum,
         Go(r, [task[r] EXCEPT !.pc = pc])
  PROVE  Moved(r)
<1> DEFINE t == task[r]
           u == [t EXCEPT !.pc = pc]
<1>1. t \in TaskType /\ Shape(t)
  BY DEF Types, TasksType, TasksAreSound
<1>2. u.pc = pc /\ u.q = t.q /\ u.trow = t.trow /\ u.row = t.row /\ u.lver = t.lver
      /\ u.all = t.all /\ u.cs = t.cs /\ u.idx = t.idx /\ u.lnum = t.lnum
  BY <1>1 DEF TaskType
<1> HIDE DEF u
<1>3. Shape(u)
  BY <1>1, <1>2 DEF Shape
<1> QED BY <1>3, PcMoves DEF u

LEMMA ThumbFlightMoves ==
  ASSUME Types, TasksAreSound, NEW r \in Readers, ThumbFlight(r)
  PROVE  Moved(r)
<1> DEFINE t == task[r]
           pc == IF t.doc = 0 THEN "preview" ELSE "thumb permit"
<1>1. t.pc = "thumb flight" /\ Shape(t) /\ loose' = loose
  BY DEF ThumbFlight, At, tileVars, TasksAreSound
<1>2. CASE thumbs # 0
  BY <1>2, FinishMoves DEF ThumbFlight
<1>3. CASE thumbs = 0
  <2>1. Go(r, [t EXCEPT !.pc = pc])
    BY <1>3 DEF ThumbFlight
  <2>2. pc \in Steps_ /\ pc \notin Located /\ pc \notin {"thumb flight", "derive"}
        /\ pc \notin Listed /\ pc \notin OnChunk
    BY StepNames DEF Pictures, Located, Listed, OnChunk
  <2>3. t.q \in {"thumb", "preview"}
    BY <1>1 DEF Shape, Pictures
  <2> HIDE DEF pc
  <2> QED BY <1>1, <2>1, <2>2, <2>3, PlaceMoves
<1> QED BY <1>2, <1>3

LEMMA PreviewFlightMoves ==
  ASSUME Types, TasksAreSound, HeldByReaders, NEW r \in Readers, PreviewFlight(r)
  PROVE  Moved(r)
<1> DEFINE t == task[r]
           pc == IF t.doc = 0 THEN "assemble" ELSE "permit"
<1>1. t.pc = "preview flight" /\ Shape(t)
  BY DEF PreviewFlight, At, TasksAreSound
<1>2. loose \subseteq loose' /\ (flight[ThumbKey] = r => Fine(previews, live, rowVer, loose'))
  BY OutdatedTells DEF PreviewFlight
<1>3. CASE previews # 0
  <2>1. PreviewReturns(r, previews)
    BY <1>3 DEF PreviewFlight
  <2>2. previews \in 0 .. MaxVersion /\ t.pc \in Pictures /\ t.pc \notin {"start", "done"}
    BY <1>1 DEF Types, TilesType, Pictures
  <2> QED BY <1>2, <2>1, <2>2, ReturnMoves
<1>4. CASE previews = 0
  <2>1. Go(r, [t EXCEPT !.pc = pc])
    BY <1>4 DEF PreviewFlight
  <2>2. pc \in Steps_ /\ pc \notin {"thumb flight", "derive"} /\ pc \notin Listed
        /\ pc \notin OnChunk
    BY StepNames DEF Pictures, Located, Listed, OnChunk
  <2>3. t.q \in {"thumb", "preview"} /\ t.row # 0
    BY <1>1 DEF Shape, Pictures, Located
  <2> HIDE DEF pc
  <2> QED BY <1>1, <1>2, <2>1, <2>2, <2>3, PlaceMoves
<1> QED BY <1>3, <1>4

LEMMA ThumbPermitMoves ==
  ASSUME Types, TasksAreSound, NEW r \in Readers, ThumbPermit(r)
  PROVE  Moved(r)
<1> DEFINE t == task[r]
           pc == IF t.pc = "thumb permit" THEN "thumb get" ELSE "chunk"
<1>1. t.pc \in {"thumb permit", "first permit"} /\ Shape(t) /\ loose' = loose
      /\ t \in TaskType
  BY DEF ThumbPermit, At, tileVars, Types, TasksType, TasksAreSound
<1>2. Go(r, [t EXCEPT !.pc = pc])
  BY <1>1 DEF ThumbPermit, TaskType
<1>3. /\ pc \in Steps_ /\ pc \notin {"thumb flight", "derive"} /\ pc \notin OnChunk
      /\ pc \in Pictures => t.q \in {"thumb", "preview"}
      /\ pc \in Located => t.row # 0
      /\ pc \in Listed => t.pc \in Listed
  BY <1>1, StepNames DEF Shape, Pictures, Located, Listed, OnChunk
<1> HIDE DEF pc
<1> QED BY <1>1, <1>2, <1>3, PlaceMoves

LEMMA MediaPermitMoves ==
  ASSUME Types, TasksAreSound, NEW r \in Readers, MediaPermit(r)
  PROVE  Moved(r)
<1> DEFINE t == task[r]
           pc == IF t.pc = "permit" THEN "preview get" ELSE "chunk"
<1>1. t.pc \in {"permit", "read permit"} /\ Shape(t) /\ loose' = loose /\ t \in TaskType
  BY DEF MediaPermit, At, tileVars, Types, TasksType, TasksAreSound
<1>2. Go(r, [t EXCEPT !.pc = pc])
  BY <1>1 DEF MediaPermit, TaskType
<1>3. /\ pc \in Steps_ /\ pc \notin {"thumb flight", "derive"} /\ pc \notin OnChunk
      /\ pc \in Pictures => t.q \in {"thumb", "preview"}
      /\ pc \in Located => t.row # 0
      /\ pc \in Listed => t.pc \in Listed
  BY <1>1, StepNames DEF Shape, Pictures, Located, Listed, OnChunk
<1> HIDE DEF pc
<1> QED BY <1>1, <1>2, <1>3, PlaceMoves

LEMMA PreviewGotMoves ==
  ASSUME Types, TasksAreSound, HeldByReaders, NEW r \in Readers, PreviewGot(r)
  PROVE  Moved(r)
<1> DEFINE t == task[r]
<1>1. /\ t.pc = "preview get" /\ t \in TaskType /\ Knows(t, live, rowVer, loose)
      /\ loose' = loose /\ PreviewReturns(r, t.doc)
  BY DEF PreviewGot, At, Types, TasksType, TasksAreSound
<1>2. t.doc \in 0 .. MaxVersion /\ Fine(t.doc, live, rowVer, loose')
  BY <1>1 DEF TaskType, Knows, OfRow, Fine
<1>3. t.pc \in Pictures /\ t.pc \notin {"start", "done"}
  BY <1>1 DEF Pictures
<1> QED BY <1>1, <1>2, <1>3, ReturnMoves

LEMMA PreviewLostMoves ==
  ASSUME Types, TasksAreSound, NEW r \in Readers, PreviewLost(r)
  PROVE  Moved(r)
<1>1. task[r].pc = "preview get" /\ Shape(task[r]) /\ loose' = loose
  BY DEF PreviewLost, At, tileVars, TasksAreSound
<1>2. CASE Finish(r)
  BY <1>2, FinishMoves
<1>3. CASE Go(r, [task[r] EXCEPT !.pc = "assemble"])
  <2>1. /\ "assemble" \in Steps_ /\ "assemble" \notin Listed /\ "assemble" \notin OnChunk
        /\ task[r].q \in {"thumb", "preview"} /\ task[r].row # 0
    BY <1>1, StepNames DEF Shape, Pictures, Located, Listed, OnChunk
  <2> QED BY <1>1, <1>3, <2>1, PlaceMoves
<1> QED BY <1>2, <1>3 DEF PreviewLost

LEMMA MissMoves ==
  ASSUME Types, TasksAreSound, NEW r \in Readers, ChunkMiss(r) \/ ChunkFlight(r)
  PROVE  Moved(r)
<1>1. /\ task[r].pc \in {"chunk", "chunk flight"} /\ Shape(task[r]) /\ loose' = loose
      /\ task[r].idx =< task[r].lnum
  BY DEF ChunkMiss, ChunkFlight, At, tileVars, TasksAreSound, Shape, OnChunk
<1>2. PICK pc \in {"chunk flight", "chunk get"} : Go(r, [task[r] EXCEPT !.pc = pc])
  BY DEF ChunkMiss, ChunkFlight
<1>3. /\ pc \in Steps_ /\ pc \notin Pictures /\ pc \notin {"thumb flight", "derive"}
      /\ task[r].row # 0 /\ task[r].pc \in Listed /\ task[r].pc \notin {"start", "done"}
  BY <1>1, StepNames DEF Shape, Pictures, Located, Listed
<1> QED BY <1>1, <1>2, <1>3, PlaceMoves

LEMMA ListsMove ==
  ASSUME Types, TasksAreSound, RowsAreSound, NEW r \in Readers,
         DownloadFile(r) \/ DownloadFolder(r) \/ WarmFirstChunk(r) \/ AssembleFileBytes(r)
  PROVE  Moved(r)
<1>1. loose' = loose /\ task[r].pc \in {"list", "assemble"}
  BY DEF DownloadFile, DownloadFolder, WarmFirstChunk, AssembleFileBytes, At, tileVars
<1>2. \/ Finish(r)
      \/ \E pc \in {"first permit", "read permit", "chunk"} : List(r, pc)
  BY DEF DownloadFile, DownloadFolder, WarmFirstChunk, AssembleFileBytes, FirstOf
<1> QED BY <1>1, <1>2, FinishMoves, ListMoves

LEMMA FollowsMove ==
  ASSUME Types, TasksAreSound, NEW r \in Readers, Open(r) \/ ZipChunk(r)
  PROVE  Moved(r)
<1>1. loose' = loose /\ task[r].pc \in Listed
  BY DEF Open, ZipChunk, At, tileVars, Listed
<1>2. Finish(r) \/ Go(r, Following(r))
  BY DEF Open, ZipChunk
<1> QED BY <1>1, <1>2, FinishMoves, FollowingMoves

LEMMA EncodeMoves ==
  ASSUME Types, TasksAreSound, HeldByReaders, NEW r \in Readers, Encode(r)
  PROVE  Moved(r)
<1> DEFINE t == task[r]
<1>1. /\ t.pc = "chunk" /\ t \in TaskType /\ Knows(t, live, rowVer, loose)
      /\ loose' = loose /\ Assembles(r)
  BY DEF Encode, At, Types, TasksType, TasksAreSound
<1>2. t.lver \in 0 .. MaxVersion /\ Fine(t.lver, live, rowVer, loose')
  BY <1>1 DEF TaskType, Knows, OfRow, Fine
<1>3. PreviewReturns(r, t.lver) \/ Finish(r)
  BY DEF Encode
<1>4. t.pc \notin {"start", "done"}
  BY <1>1
<1> QED BY <1>1, <1>2, <1>3, <1>4, ReturnMoves, FinishMoves

LEMMA EndsMove ==
  ASSUME NEW r \in Readers,
         ThumbGot(r) \/ ThumbLost(r) \/ DerivedThumb(r) \/ LastChunk(r) \/ HangUp(r)
  PROVE  Moved(r)
<1>1. Finish(r)
  BY DEF ThumbGot, ThumbLost, DerivedThumb, LastChunk, HangUp, Finish
<1> QED BY <1>1, FinishMoves

LEMMA AskMoves ==
  ASSUME NEW r \in Readers, NEW q \in Requests, Ask(r, q) \/ WarmOne(r, q)
  PROVE  Moved(r)
BY EndsSound, AnyKnows DEF Ask, WarmOne, Go, Moved

(* Every step of a reader leaves its task sound, and the rows as they are.  *)
LEMMA ReaderMoves ==
  ASSUME Types, TasksAreSound, RowsAreSound, PicturesAreFine, HeldByReaders,
         NEW r \in Readers, Reads_(r)
  PROVE  Moved(r)
BY ThumbMoves, PreviewMoves, ThumbFlightMoves, PreviewFlightMoves, ThumbPermitMoves,
    MediaPermitMoves, PreviewGotMoves, PreviewLostMoves, FindMoves, ListsMove, HitMoves,
    MissMoves, GotMoves, EvictMoves, FailMoves, FollowsMove, EncodeMoves, EndsMove, AskMoves
DEF Reads_, Step

LEMMA ReaderKeeps ==
  ASSUME NEW r \in Readers, Reads_(r)
  PROVE  UNCHANGED rowVars /\ loose \subseteq loose' /\ inval' = inval
BY DEF Reads_, Step, Thumb, Preview, ThumbFlight, PreviewFlight, ThumbPermit, MediaPermit,
    ThumbGot, ThumbLost, PreviewGot, PreviewLost, DerivedThumb, Find, DownloadFile,
    DownloadFolder, WarmFirstChunk, AssembleFileBytes, ChunkHit, ChunkMiss, ChunkFlight,
    ChunkGot, Evict, ChunkFails, Open, ZipChunk, Encode, LastChunk, HangUp, Ask, WarmOne,
    NoFile, tileVars, Outdated

LEMMA ReaderTasks ==
  ASSUME Types, TasksAreSound, NEW r \in Readers, Moved(r), UNCHANGED rowVars,
         loose \subseteq loose'
  PROVE  TasksType' /\ TasksAreSound'
<1>1. PICK u \in TaskType : /\ task' = [task EXCEPT ![r] = u]
                            /\ Shape(u) /\ Knows(u, live, rowVer, loose')
  BY DEF Moved
<1>2. TasksType'
  BY <1>1 DEF Types, TasksType
<1>3. ASSUME NEW s \in Readers
      PROVE  Shape(task'[s]) /\ Knows(task'[s], live', rowVer', loose')
  <2>1. live' = live /\ rowVer' = rowVer
    BY DEF rowVars
  <2>2. task'[s] = IF s = r THEN u ELSE task[s]
    BY <1>1 DEF Types, TasksType
  <2>3. Shape(task[s]) /\ Knows(task[s], live, rowVer, loose')
    BY Weaken DEF TasksAreSound
  <2> QED BY <1>1, <2>1, <2>2, <2>3
<1> QED BY <1>2, <1>3 DEF TasksAreSound

-----------------------------------------------------------------------------
(* The writers leave the tasks alone; what they know is let be, or still of *)
(* the file at the path.                                                    *)

LEMMA WritersKeep ==
  ASSUME Writes
  PROVE  UNCHANGED <<chunkVars, readVars>>
BY DEF Writes, Upload, Replace, Delete, MoveAway, Invalidate, RelayChunk, UploadDerived,
   Backfill

LEMMA LoosenTells ==
  ASSUME Loosen \/ loose' = loose \cup {rowVer[live]}
  PROVE  /\ loose \subseteq loose'
         /\ \A s \in Readers :
               /\ task[s].pc \notin {"start", "done"}
               /\ live \in {task[s].row, task[s].trow} \/ task[s].got = rowVer[live]
               => rowVer[live] \in loose'
         /\ relay.row = live => rowVer[live] \in loose'
         /\ \A b \in backfills : b[2] = live => rowVer[live] \in loose'
BY DEF Loosen, Active

(* The row an upload takes has not been used.                               *)
LEMMA NextRow ==
  ASSUME RowsType, RowsAreSound, Latest < MaxVersion
  PROVE  /\ Latest + 1 \in Versions /\ rowVer[Latest + 1] = 0 /\ rowParts[Latest + 1] = 0
         /\ \A w \in Versions : rowVer[w] < Latest + 1
<1>1. Latest \in 0 .. MaxVersion /\ \A w \in Versions : rowVer[w] =< Latest
  BY LatestIs
<1>2. Latest + 1 \in Versions
  BY <1>1, Constants DEF Versions
<1>3. \A w \in Versions : rowVer[w] \in 0 .. MaxVersion
  BY DEF RowsType
<1>4. \A w \in Versions : rowVer[w] < Latest + 1
  BY <1>1, <1>3, Constants
<1>5. rowVer[Latest + 1] = 0
  <2>1. rowVer[Latest + 1] # 0 => Latest + 1 =< rowVer[Latest + 1]
    BY <1>2 DEF RowsAreSound
  <2> QED BY <1>1, <1>2, <1>3, <1>4, <2>1, Constants
<1> QED BY <1>2, <1>4, <1>5 DEF RowsAreSound

LEMMA UploadTasks ==
  ASSUME Types, RowsAreSound, TasksAreSound, Upload, NEW s \in Readers
  PROVE  Knows(task[s], live', rowVer', loose')
<1>1. Knows(task[s], live, rowVer, loose) /\ task[s] \in TaskType
  BY DEF TasksAreSound, Types, TasksType
<1>2. /\ live = 0 /\ live' = Latest + 1 /\ rowVer' = [rowVer EXCEPT ![Latest + 1] = Latest + 1]
      /\ loose' = loose /\ Latest < MaxVersion
  BY DEF Upload, tileVars
<1>3. Latest + 1 \in Versions /\ rowVer[Latest + 1] = 0
      /\ rowVer \in [Versions -> 0 .. MaxVersion]
  BY <1>2, NextRow DEF Types, RowsType
<1>4. ASSUME NEW w \in 0 .. MaxVersion, RowKnown(w, live, rowVer, loose)
      PROVE  RowKnown(w, live', rowVer', loose')
  <2>1. w # 0 => w \in Versions
    BY VersionsAre
  <2>2. w # 0 => w # Latest + 1
    BY <1>3, <1>4 DEF RowKnown
  <2> QED BY <1>2, <1>3, <1>4, <2>1, <2>2 DEF RowKnown
<1>5. task[s].row \in 0 .. MaxVersion /\ task[s].trow \in 0 .. MaxVersion
  BY <1>1 DEF TaskType
<1> QED BY <1>1, <1>2, <1>4, <1>5 DEF Knows, OfRow, Fine

(* A change that leaves the old version behind.                             *)
Leaves == Replace \/ Delete \/ MoveAway

LEMMA LeavesTasks ==
  ASSUME Types, RowsAreSound, TasksAreSound, Leaves, NEW s \in Readers
  PROVE  Knows(task[s], live', rowVer', loose')
<1> DEFINE t == task[s]
<1>1. Knows(t, live, rowVer, loose) /\ t \in TaskType
  BY DEF TasksAreSound, Types, TasksType
<1>2. Loosen \/ loose' = loose \cup {rowVer[live]}
  BY DEF Leaves, Replace, Delete, MoveAway
<1>3. live \in Versions
  BY VersionsAre DEF Leaves, Replace, Delete, MoveAway, Types, RowsType
<1>4. /\ loose \subseteq loose'
      /\ t.pc \notin {"start", "done"} /\ (live \in {t.row, t.trow} \/ t.got = rowVer[live])
         => rowVer[live] \in loose'
  BY <1>2, LoosenTells
<1>5. /\ \A w \in Versions : w # live => rowVer'[w] = rowVer[w]
      /\ \/ live' = 0 /\ rowVer' = rowVer
         \/ live' = live /\ rowVer'[live] # 0
  <2>1. CASE Replace
    <3>1. rowVer' = [rowVer EXCEPT ![live] = Latest + 1] /\ Latest < MaxVersion /\ live' = live
      BY <2>1 DEF Replace
    <3>2. Latest \in 0 .. MaxVersion
      BY LatestIs DEF Types
    <3>3. Latest + 1 # 0
      BY <3>2, Constants
    <3> QED BY <1>3, <3>1, <3>3 DEF Types, RowsType
  <2>2. CASE Delete \/ MoveAway
    BY <2>2 DEF Delete, MoveAway
  <2> QED BY <2>1, <2>2 DEF Leaves
<1>6. SUFFICES ASSUME t.pc \notin {"start", "done"}
               PROVE  Knows(t, live', rowVer', loose')
  BY DEF Knows
<1>7. ASSUME NEW w \in {t.row, t.trow}
      PROVE  RowKnown(w, live', rowVer', loose')
  <2>1. RowKnown(w, live, rowVer, loose)
    BY <1>1, <1>6, <1>7 DEF Knows
  <2>2. w # 0 => w \in Versions
    BY <1>1, VersionsAre DEF TaskType
  <2> QED BY <1>3, <1>4, <1>5, <1>6, <2>1, <2>2 DEF RowKnown
<1>8. ASSUME NEW v, OfRow(t, v, live, rowVer, loose)
      PROVE  OfRow(t, v, live', rowVer', loose')
  BY <1>4, <1>6, <1>8 DEF OfRow
<1>9. Fine(t.got, live', rowVer', loose')
  BY <1>1, <1>4, <1>6 DEF Fine, Knows
<1> QED BY <1>1, <1>6, <1>7, <1>8, <1>9 DEF Knows

LEMMA WriterTasks ==
  ASSUME Types, RowsAreSound, TasksAreSound, Writes
  PROVE  TasksType' /\ TasksAreSound'
<1>1. task' = task
  BY WritersKeep DEF readVars
<1>2. ASSUME NEW s \in Readers PROVE Knows(task[s], live', rowVer', loose')
  <2>1. Knows(task[s], live, rowVer, loose)
    BY DEF TasksAreSound
  <2>2. CASE Upload
    BY <2>2, UploadTasks
  <2>3. CASE Leaves
    BY <2>3, LeavesTasks
  <2>4. CASE Invalidate \/ RelayChunk \/ UploadDerived \/ \E b \in backfills : Backfill(b)
    <3>1. live' = live /\ rowVer' = rowVer /\ loose' = loose
      BY <2>4 DEF Invalidate, RelayChunk, UploadDerived, Backfill, rowVars, tileVars
    <3> QED BY <2>1, <3>1
  <2> QED BY <2>2, <2>3, <2>4 DEF Writes, Leaves
<1> QED BY <1>1, <1>2 DEF TasksAreSound, TasksType, Types

(* The rows, the relay and the stored pictures, by the writer.              *)
Rows_(lv, rv, rp, re, td, pd, lo) ==
    /\ lv \in 0 .. MaxVersion /\ rv \in [Versions -> 0 .. MaxVersion]
    /\ rp \in [Versions -> 0 .. Parts]
    /\ re \in [row : 0 .. MaxVersion, step : {"off", "chunks", "derive"}, here : BOOLEAN]
    /\ td \in 0 .. MaxVersion /\ pd \in 0 .. MaxVersion
    /\ lv # 0 => rv[lv] # 0
    /\ \A w \in Versions : rv[w] # 0 => w =< rv[w]
    /\ \A w \in Versions : rv[w] = 0 => rp[w] = 0
    /\ re.step # "off" => re.row # 0
    /\ RowKnown(re.row, lv, rv, lo)
    /\ re.step = "chunks" => rp[re.row] < Parts

LEMMA RowsAre ==
  /\ (RowsType /\ RowsAreSound)
     <=> Rows_(live, rowVer, rowParts, relay, thumbDoc, previewDoc, loose)
  /\ (RowsType /\ RowsAreSound)'
     <=> Rows_(live', rowVer', rowParts', relay', thumbDoc', previewDoc', loose')
BY DEF RowsType, RowsAreSound, Rows_

LEMMA UploadRows ==
  ASSUME RowsType, RowsAreSound, Upload
  PROVE  (RowsType /\ RowsAreSound)'
<1> DEFINE w == Latest + 1
           re == [row |-> w, step |-> "chunks", here |-> TRUE]
<1>1. /\ live' = w /\ rowVer' = [rowVer EXCEPT ![w] = w] /\ relay' = re
      /\ rowParts' = rowParts /\ thumbDoc' = 0 /\ previewDoc' = 0 /\ Latest < MaxVersion
  BY DEF Upload
<1>2. w \in Versions /\ rowVer[w] = 0 /\ rowParts[w] = 0
  BY <1>1, NextRow
<1>3. w \in 0 .. MaxVersion /\ w # 0 /\ 0 \in 0 .. MaxVersion
  BY <1>2, VersionsAre, Constants
<1> HIDE DEF w
<1>4. /\ rowVer' \in [Versions -> 0 .. MaxVersion] /\ rowVer'[w] = w
      /\ \A x \in Versions : x # w => rowVer'[x] = rowVer[x]
  BY <1>1, <1>2, <1>3 DEF RowsType
<1>5. re.row = w /\ re.step = "chunks"
      /\ re \in [row : 0 .. MaxVersion, step : {"off", "chunks", "derive"}, here : BOOLEAN]
  BY <1>3
<1> HIDE DEF re
<1>6. /\ rowParts \in [Versions -> 0 .. Parts]
      /\ \A x \in Versions : rowVer[x] # 0 => x =< rowVer[x]
      /\ \A x \in Versions : rowVer[x] = 0 => rowParts[x] = 0
  BY DEF RowsType, RowsAreSound
<1>7. w =< w /\ 0 < Parts
  BY <1>3, Constants
<1>8. RowKnown(w, live', rowVer', loose')
  BY <1>1, <1>3, <1>4 DEF RowKnown
<1>9. /\ \A x \in Versions : rowVer'[x] # 0 => x =< rowVer'[x]
      /\ \A x \in Versions : rowVer'[x] = 0 => rowParts'[x] = 0
  <2> SUFFICES ASSUME NEW x \in Versions
               PROVE  (rowVer'[x] # 0 => x =< rowVer'[x])
                      /\ (rowVer'[x] = 0 => rowParts'[x] = 0)
    OBVIOUS
  <2>1. CASE x = w
    BY <1>3, <1>4, <1>7, <2>1
  <2>2. CASE x # w
    BY <1>1, <1>4, <1>6, <2>2
  <2> QED BY <2>1, <2>2
<1>10. Rows_(live', rowVer', rowParts', relay', thumbDoc', previewDoc', loose')
  BY <1>1, <1>2, <1>3, <1>4, <1>5, <1>6, <1>7, <1>8, <1>9 DEF Rows_
<1> QED BY <1>10, RowsAre

LEMMA ReplaceRows ==
  ASSUME RowsType, RowsAreSound, Replace
  PROVE  (RowsType /\ RowsAreSound)'
<1> DEFINE n == Latest + 1
           re == [row |-> live, step |-> "chunks", here |-> TRUE]
<1>1. /\ live' = live /\ live # 0 /\ rowVer' = [rowVer EXCEPT ![live] = n] /\ relay' = re
      /\ rowParts' = [rowParts EXCEPT ![live] = 0] /\ thumbDoc' = 0 /\ previewDoc' = 0
      /\ Latest < MaxVersion
  BY DEF Replace
<1>2. n \in Versions /\ \A x \in Versions : rowVer[x] < n
  BY <1>1, NextRow
<1>3. /\ n \in 0 .. MaxVersion /\ n # 0 /\ 0 \in 0 .. MaxVersion /\ 0 \in 0 .. Parts
      /\ live \in Versions /\ live \in 0 .. MaxVersion /\ 0 < Parts
  BY <1>1, <1>2, VersionsAre, Constants DEF RowsType
<1>4. live =< n
  <2>1. live =< rowVer[live] /\ rowVer[live] < n /\ rowVer[live] \in 0 .. MaxVersion
    BY <1>1, <1>2, <1>3 DEF RowsAreSound, RowsType
  <2> HIDE DEF n
  <2> QED BY <1>3, <2>1, Constants
<1> HIDE DEF n
<1>5. /\ rowVer' \in [Versions -> 0 .. MaxVersion] /\ rowVer'[live] = n
      /\ \A x \in Versions : x # live => rowVer'[x] = rowVer[x]
  BY <1>1, <1>2, <1>3 DEF RowsType
<1>6. /\ rowParts' \in [Versions -> 0 .. Parts] /\ rowParts'[live] = 0
      /\ \A x \in Versions : x # live => rowParts'[x] = rowParts[x]
  BY <1>1, <1>3 DEF RowsType
<1>7. re.row = live /\ re.step = "chunks"
      /\ re \in [row : 0 .. MaxVersion, step : {"off", "chunks", "derive"}, here : BOOLEAN]
  BY <1>3
<1> HIDE DEF re
<1>8. RowKnown(live, live', rowVer', loose')
  BY <1>1, <1>3, <1>5 DEF RowKnown
<1>9. /\ \A x \in Versions : rowVer[x] # 0 => x =< rowVer[x]
      /\ \A x \in Versions : rowVer[x] = 0 => rowParts[x] = 0
  BY DEF RowsAreSound
<1>10. /\ \A x \in Versions : rowVer'[x] # 0 => x =< rowVer'[x]
       /\ \A x \in Versions : rowVer'[x] = 0 => rowParts'[x] = 0
  BY <1>3, <1>4, <1>5, <1>6, <1>9
<1>11. Rows_(live', rowVer', rowParts', relay', thumbDoc', previewDoc', loose')
  BY <1>1, <1>3, <1>5, <1>6, <1>7, <1>8, <1>10 DEF Rows_
<1> QED BY <1>11, RowsAre

LEMMA GoneRows ==
  ASSUME RowsType, RowsAreSound, Delete \/ MoveAway
  PROVE  (RowsType /\ RowsAreSound)'
<1>1. /\ live' = 0 /\ live # 0 /\ rowVer' = rowVer /\ rowParts' = rowParts
      /\ thumbDoc' = 0 /\ previewDoc' = 0
      /\ Loosen \/ loose' = loose \cup {rowVer[live]}
  BY DEF Delete, MoveAway
<1>2. /\ relay' \in [row : 0 .. MaxVersion, step : {"off", "chunks", "derive"}, here : BOOLEAN]
      /\ relay'.row = relay.row /\ relay'.step = relay.step
  BY DEF Delete, MoveAway, RowsType
<1>3. RowKnown(relay.row, live', rowVer', loose')
  <2>1. loose \subseteq loose' /\ (relay.row = live => rowVer[live] \in loose')
    BY <1>1, LoosenTells
  <2> QED BY <1>1, <2>1 DEF RowsAreSound, RowKnown
<1> QED BY <1>1, <1>2, <1>3, Constants DEF RowsType, RowsAreSound

LEMMA ChunkRows ==
  ASSUME RowsType, RowsAreSound, RelayChunk
  PROVE  (RowsType /\ RowsAreSound)'
<1> DEFINE w == relay.row
<1>1. /\ live' = live /\ rowVer' = rowVer /\ thumbDoc' = thumbDoc /\ previewDoc' = previewDoc
      /\ loose' = loose /\ relay.step = "chunks"
      /\ rowParts' = [rowParts EXCEPT ![w] = @ + 1]
      /\ relay' = IF rowParts'[w] = Parts THEN [relay EXCEPT !.step = "derive"] ELSE relay
  BY DEF RelayChunk, tileVars
<1>2. w # 0 /\ RowKnown(w, live, rowVer, loose) /\ rowParts[w] < Parts
  BY <1>1 DEF RowsAreSound
<1>3. w \in Versions /\ rowVer[w] # 0
  BY <1>2, VersionsAre DEF RowKnown, RowsType
<1>4. rowParts[w] \in 0 .. Parts /\ rowParts[w] + 1 \in 0 .. Parts
  BY <1>2, <1>3, Constants DEF RowsType
<1>5. rowParts' \in [Versions -> 0 .. Parts] /\ rowParts'[w] = rowParts[w] + 1
      /\ \A x \in Versions : x # w => rowParts'[x] = rowParts[x]
  BY <1>1, <1>3, <1>4 DEF RowsType
<1>6. /\ relay' \in [row : 0 .. MaxVersion, step : {"off", "chunks", "derive"}, here : BOOLEAN]
      /\ relay'.row = w /\ (relay'.step = "chunks" => rowParts'[w] # Parts)
  BY <1>1 DEF RowsType
<1>7. relay'.step = "chunks" => rowParts'[w] < Parts
  BY <1>4, <1>5, <1>6, Constants
<1>8. \A x \in Versions : rowVer[x] = 0 => rowParts'[x] = 0
  BY <1>3, <1>5 DEF RowsAreSound
<1> HIDE DEF w
<1> QED BY <1>1, <1>2, <1>5, <1>6, <1>7, <1>8 DEF RowsType, RowsAreSound

LEMMA DerivedRows ==
  ASSUME RowsType, TilesType, RowsAreSound, NEW b,
         UploadDerived \/ Invalidate \/ (b \in backfills /\ Backfill(b))
  PROVE  (RowsType /\ RowsAreSound)'
<1>1. /\ live' = live /\ rowVer' = rowVer /\ rowParts' = rowParts /\ loose' = loose
      /\ relay' = relay \/ relay' = NoRelay
  BY DEF UploadDerived, Invalidate, Backfill, rowVars
<1>2. /\ relay' \in [row : 0 .. MaxVersion, step : {"off", "chunks", "derive"}, here : BOOLEAN]
      /\ relay'.step # "off" => relay'.row # 0
      /\ RowKnown(relay'.row, live, rowVer, loose)
      /\ relay'.step = "chunks" => rowParts[relay'.row] < Parts
  <2>1. CASE relay' = relay
    BY <2>1 DEF RowsType, RowsAreSound
  <2>2. CASE relay' = NoRelay
    <3>1. NoRelay.row = 0 /\ NoRelay.step = "off" /\ NoRelay.here = FALSE
      BY DEF NoRelay
    <3>2. NoRelay \in [row : 0 .. MaxVersion, step : {"off", "chunks", "derive"},
          here : BOOLEAN]
      BY Constants DEF NoRelay
    <3> QED BY <2>2, <3>1, <3>2 DEF RowKnown
  <2> QED BY <1>1, <2>1, <2>2
<1>3. thumbDoc' \in 0 .. MaxVersion /\ previewDoc' \in 0 .. MaxVersion
  <2>1. CASE UploadDerived
    <3>1. {rowVer[w] : w \in {live} \cap {relay.row}} \subseteq 0 .. MaxVersion
      <4>1. relay.row # 0
        BY <2>1 DEF UploadDerived, RowsAreSound
      <4>2. relay.row \in Versions
        BY <4>1, VersionsAre DEF RowsType
      <4> QED BY <4>2 DEF RowsType
    <3> QED BY <2>1, <3>1 DEF UploadDerived, RowsType
  <2>2. CASE Invalidate
    BY <2>2 DEF Invalidate, rowVars, RowsType
  <2>3. CASE b \in backfills /\ Backfill(b)
    <3>1. b[3] \in 0 .. MaxVersion
      BY <2>3 DEF TilesType
    <3> QED BY <2>3, <3>1 DEF Backfill, RowsType
  <2> QED BY <2>1, <2>2, <2>3
<1> QED BY <1>1, <1>2, <1>3 DEF RowsType, RowsAreSound

LEMMA WriterRows ==
  ASSUME Types, RowsAreSound, Writes
  PROVE  (RowsType /\ RowsAreSound)'
BY UploadRows, ReplaceRows, GoneRows, ChunkRows, DerivedRows DEF Writes, Types

-----------------------------------------------------------------------------
(* The pictures, by the writer and by the reader.                           *)

LEMMA UploadPictures ==
  ASSUME Types, RowsAreSound, PicturesAreFine, Upload
  PROVE  TilesType' /\ PicturesAreFine'
<1> DEFINE w == Latest + 1
<1>1. /\ live = 0 /\ live' = w /\ rowVer' = [rowVer EXCEPT ![w] = w] /\ loose' = loose
      /\ thumbDoc' = 0 /\ previewDoc' = 0 /\ Latest < MaxVersion
      /\ UNCHANGED <<thumbs, previews, inval, backfills>>
  BY DEF Upload, tileVars
<1>2. w \in Versions /\ rowVer[w] = 0 /\ rowVer \in [Versions -> 0 .. MaxVersion]
  BY <1>1, NextRow DEF Types, RowsType
<1> HIDE DEF w
<1>3. ASSUME NEW v, Fine(v, live, rowVer, loose) PROVE Fine(v, live', rowVer', loose')
  BY <1>1, <1>3 DEF Fine
<1>4. ASSUME NEW b \in backfills PROVE rowVer'[b[2]] # 0 /\ b[2] # live'
  <2>1. b[2] \in Versions /\ rowVer[b[2]] # 0
    BY DEF Types, TilesType, PicturesAreFine
  <2> QED BY <1>1, <1>2, <2>1
<1>5. TilesType'
  BY <1>1 DEF Types, TilesType
<1>6. Fine(thumbDoc', live', rowVer', loose') /\ Fine(previewDoc', live', rowVer', loose')
  BY <1>1 DEF Fine
<1> QED BY <1>1, <1>3, <1>4, <1>5, <1>6 DEF PicturesAreFine

LEMMA LeavesPictures ==
  ASSUME Types, RowsAreSound, PicturesAreFine, Leaves
  PROVE  TilesType' /\ PicturesAreFine'
<1>1. /\ thumbDoc' = 0 /\ previewDoc' = 0 /\ UNCHANGED <<thumbs, previews, backfills>>
      /\ Loosen \/ loose' = loose \cup {rowVer[live]}
      /\ live # 0
  BY DEF Leaves, Replace, Delete, MoveAway
<1>2. /\ loose \subseteq loose'
      /\ \A b \in backfills : b[2] = live => rowVer[live] \in loose'
  BY <1>1, LoosenTells
<1>3. inval \in Nat /\ live \in Versions /\ rowVer \in [Versions -> 0 .. MaxVersion]
  BY <1>1, VersionsAre DEF Types, TilesType, RowsType
<1>4. \/ inval' = inval + 1
      \/ inval' = inval /\ live' = 0 /\ loose' = loose \cup {rowVer[live]}
  BY DEF Leaves, Replace, Delete, MoveAway
<1>5. TilesType'
  BY <1>1, <1>3, <1>4 DEF Types, TilesType
<1>6. Fine(thumbDoc', live', rowVer', loose') /\ Fine(previewDoc', live', rowVer', loose')
  BY <1>1 DEF Fine
<1>7. ASSUME inval' = 0
      PROVE  Fine(thumbs', live', rowVer', loose') /\ Fine(previews', live', rowVer', loose')
  <2>1. inval = 0 /\ rowVer[live] \in loose'
    BY <1>3, <1>4, <1>7
  <2> QED BY <1>1, <1>2, <2>1 DEF PicturesAreFine, Fine
<1>8. ASSUME NEW b \in backfills
      PROVE  rowVer'[b[2]] # 0 /\ (b[2] = live' => Fine(b[3], live', rowVer', loose'))
  <2>1. b[2] \in Versions /\ rowVer[b[2]] # 0
        /\ (b[2] = live => Fine(b[3], live, rowVer, loose))
    BY DEF Types, TilesType, PicturesAreFine
  <2>2. b[2] # 0
    BY <2>1, VersionsAre
  <2>3. CASE Replace
    <3>1. rowVer' = [rowVer EXCEPT ![live] = Latest + 1] /\ Latest < MaxVersion /\ live' = live
      BY <2>3 DEF Replace
    <3>2. Latest \in 0 .. MaxVersion
      BY LatestIs DEF Types
    <3>3. Latest + 1 # 0
      BY <3>2, Constants
    <3> QED BY <1>2, <1>3, <2>1, <3>1, <3>3 DEF Fine
  <2>4. CASE Delete \/ MoveAway
    <3>1. rowVer' = rowVer /\ live' = 0
      BY <2>4 DEF Delete, MoveAway
    <3> QED BY <2>1, <2>2, <3>1
  <2> QED BY <2>3, <2>4 DEF Leaves
<1> QED BY <1>1, <1>5, <1>6, <1>7, <1>8 DEF PicturesAreFine

LEMMA DerivedPictures ==
  ASSUME Types, RowsAreSound, PicturesAreFine, UploadDerived
  PROVE  TilesType' /\ PicturesAreFine'
<1>1. relay.row # 0 /\ relay.row \in Versions /\ RowKnown(relay.row, live, rowVer, loose)
  <2>1. relay.row # 0
    BY DEF UploadDerived, RowsAreSound
  <2> QED BY <2>1, VersionsAre DEF Types, RowsType, RowsAreSound
<1>2. rowVer[relay.row] \in 0 .. MaxVersion /\ Fine(rowVer[relay.row], live, rowVer, loose)
  BY <1>1 DEF Types, RowsType, RowKnown, Fine
<1>3. /\ UNCHANGED <<live, rowVer, loose, thumbs, inval, backfills>>
      /\ thumbDoc' \in {thumbDoc, rowVer[relay.row]}
      /\ previewDoc' \in {previewDoc, rowVer[relay.row]}
      /\ previews' \in {previews, rowVer[relay.row]}
  BY DEF UploadDerived
<1> QED BY <1>2, <1>3 DEF Types, TilesType, PicturesAreFine

LEMMA WriterPictures ==
  ASSUME Types, RowsAreSound, PicturesAreFine, Writes
  PROVE  TilesType' /\ PicturesAreFine'
<1>1. CASE Invalidate
  <2>1. /\ UNCHANGED <<live, rowVer, loose, thumbDoc, previewDoc, backfills>>
        /\ thumbs' = 0 /\ previews' = 0 /\ inval' = inval - 1 /\ inval > 0
    BY <1>1 DEF Invalidate, rowVars
  <2>2. inval' \in Nat /\ 0 \in 0 .. MaxVersion
    BY <2>1, Constants DEF Types, TilesType
  <2> QED BY <2>1, <2>2 DEF Types, TilesType, PicturesAreFine, Fine
<1>2. CASE RelayChunk
  BY <1>2 DEF RelayChunk, tileVars, Types, TilesType, PicturesAreFine
<1>3. CASE \E b \in backfills : Backfill(b)
  <2>1. PICK b \in backfills : Backfill(b)
    BY <1>3
  <2>2. b[2] = live => Fine(b[3], live, rowVer, loose)
    BY DEF PicturesAreFine
  <2> QED BY <2>1, <2>2 DEF Backfill, Types, TilesType, PicturesAreFine
<1> QED BY <1>1, <1>2, <1>3, UploadPictures, LeavesPictures, DerivedPictures DEF Writes, Leaves

(* What a reader puts into the caches and gives to a backfill.              *)
LEMMA ReaderPictures ==
  ASSUME Types, TasksAreSound, RowsAreSound, PicturesAreFine, NEW r \in Readers, Reads_(r)
  PROVE  TilesType' /\ PicturesAreFine'
<1> DEFINE t == task[r]
           F(v) == v \in 0 .. MaxVersion /\ Fine(v, live, rowVer, loose)
           B(b) == /\ b \in {"thumb", "preview"} \X Versions \X (0 .. MaxVersion)
                   /\ rowVer[b[2]] # 0 /\ Fine(b[3], live, rowVer, loose)
<1>1. t \in TaskType /\ Shape(t) /\ Knows(t, live, rowVer, loose)
  BY DEF Types, TasksType, TasksAreSound
<1>2. UNCHANGED rowVars /\ loose \subseteq loose' /\ inval' = inval
  BY ReaderKeeps
<1>3. /\ thumbs' = thumbs \/ F(thumbs')
      /\ previews' = previews \/ F(previews')
      /\ backfills' = backfills \/ \E b : B(b) /\ backfills' = backfills \cup {b}
  <2>1. CASE ThumbGot(r) \/ PreviewGot(r)
    <3>1. t.pc \notin {"start", "done"}
      BY <2>1 DEF ThumbGot, PreviewGot, At
    <3>2. F(t.doc)
      BY <1>1, <3>1 DEF TaskType, Knows, OfRow, Fine
    <3> HIDE DEF F, B
    <3> QED BY <2>1, <3>2 DEF ThumbGot, PreviewGot
  <2>2. CASE DerivedThumb(r)
    <3>1. t.pc = "derive"
      BY <2>2 DEF DerivedThumb, At
    <3>2. t.trow # 0 /\ RowKnown(t.trow, live, rowVer, loose) /\ F(t.got)
      BY <1>1, <3>1 DEF TaskType, Knows, Shape
    <3>3. t.trow \in Versions /\ rowVer[t.trow] # 0
      BY <1>1, <3>2, VersionsAre DEF TaskType, RowKnown
    <3>4. B(<<"thumb", t.trow, t.got>>)
      BY <3>2, <3>3
    <3> HIDE DEF F, B
    <3> QED BY <2>2, <3>2, <3>4 DEF DerivedThumb
  <2>3. CASE Encode(r)
    <3>1. t.pc = "chunk"
      BY <2>3 DEF Encode, At
    <3>2. t.row # 0 /\ RowKnown(t.row, live, rowVer, loose) /\ F(t.lver)
      BY <1>1, <3>1 DEF TaskType, Knows, Shape, OfRow, Fine, Located
    <3>3. t.row \in Versions /\ rowVer[t.row] # 0
      BY <1>1, <3>2, VersionsAre DEF TaskType, RowKnown
    <3>4. B(<<"preview", t.row, t.lver>>)
      BY <3>2, <3>3
    <3> HIDE DEF F, B
    <3> QED BY <2>3, <3>2, <3>4 DEF Encode
  <2> HIDE DEF F, B
  <2> QED BY <2>1, <2>2, <2>3 DEF Reads_, Step, Thumb, Preview, ThumbFlight, PreviewFlight,
        ThumbPermit, MediaPermit, ThumbLost, PreviewLost, Find, DownloadFile,
        DownloadFolder, WarmFirstChunk, AssembleFileBytes, ChunkHit, ChunkMiss, ChunkFlight,
        ChunkGot, Evict, ChunkFails, Open, ZipChunk, LastChunk, HangUp, Ask, WarmOne, tileVars
<1>4. TilesType'
  BY <1>2, <1>3 DEF Types, TilesType
<1>5. \A v : Fine(v, live, rowVer, loose) => Fine(v, live', rowVer', loose')
  BY <1>2, Weaken DEF rowVars
<1>6. live' = live /\ rowVer' = rowVer /\ thumbDoc' = thumbDoc /\ previewDoc' = previewDoc
  BY <1>2 DEF rowVars
<1> QED BY <1>2, <1>3, <1>4, <1>5, <1>6 DEF PicturesAreFine

-----------------------------------------------------------------------------
(* Flights, permits and archives.                                           *)

(* A step that hands no chunk out: the task ends, begins, or goes on with   *)
(* its request and its list.                                                *)
Plain(r) ==
    \/ Finish(r)
    \/ task[r] = Asleep /\ Same /\ task'[r].pc \in Requests /\ task'[r].doomed = {}
    \/ /\ task'[r].q = task[r].q /\ task'[r].doomed = task[r].doomed
       /\ task'[r].trow = task[r].trow \/ task'[r].trow # 0
       /\ task'[r].pc \notin {"start", "done", "open", "evict"}

LEMMA GoIs ==
  ASSUME Types, NEW r \in Readers
  PROVE  /\ task[r] \in TaskType
         /\ \A u : Go(r, u) => task'[r] = u
         /\ \A u : Go(r, u) => \A s \in Readers : s # r => task'[s] = task[s]
BY DEF Types, TasksType, Go

(* What a task that goes on carries along.                                  *)
Carries(t, u) ==
    /\ u.q = t.q /\ u.doomed = t.doomed
    /\ u.trow = t.trow \/ u.trow # 0
    /\ u.pc \notin {"start", "done", "open", "evict"}

LEMMA Fields ==
  ASSUME NEW t \in TaskType, NEW pc, pc \notin {"start", "done", "open", "evict"},
         NEW v, NEW w, NEW n, NEW C, NEW i, NEW x
  PROVE  /\ Carries(t, [t EXCEPT !.pc = pc])
         /\ Carries(t, [t EXCEPT !.pc = pc, !.got = v])
         /\ Carries(t, [t EXCEPT !.pc = pc, !.row = w])
         /\ Carries(t, [t EXCEPT !.pc = pc, !.row = w, !.doc = v])
         /\ w # 0 => Carries(t, [t EXCEPT !.pc = pc, !.trow = w, !.row = w, !.doc = v])
         /\ Carries(t, [t EXCEPT !.pc = pc, !.cs = C])
         /\ Carries(t, [t EXCEPT !.pc = pc, !.lver = v, !.lnum = n, !.idx = 1, !.all = C,
            !.cs = C])
         /\ Carries(t, [t EXCEPT !.idx = i, !.cs = C, !.risky = x, !.pc = pc])
BY DEF TaskType, Carries

LEMMA PlainSteps ==
  ASSUME Types, NEW r \in Readers, Reads_(r)
  PROVE  Plain(r) \/ ChunkHit(r) \/ ChunkGot(r) \/ Evict(r)
<1> DEFINE t == task[r]
           G(pc) == pc \notin {"start", "done", "open", "evict"}
<1>1. t \in TaskType /\ \A u : Go(r, u) => task'[r] = u
  BY GoIs
<1>2. \A u : Go(r, u) /\ Carries(t, u) => Plain(r)
  BY <1>1 DEF Carries, Plain
<1>3. ASSUME NEW pc, G(pc), NEW v, NEW w, NEW n, NEW C,
             \/ Go(r, [t EXCEPT !.pc = pc])
             \/ Go(r, [t EXCEPT !.pc = pc, !.got = v])
             \/ Go(r, [t EXCEPT !.pc = pc, !.row = w])
             \/ Go(r, [t EXCEPT !.pc = pc, !.row = w, !.doc = v])
             \/ w # 0 /\ Go(r, [t EXCEPT !.pc = pc, !.trow = w, !.row = w, !.doc = v])
             \/ Go(r, [t EXCEPT !.pc = pc, !.cs = C])
             \/ Go(r, [t EXCEPT !.pc = pc, !.lver = v, !.lnum = n, !.idx = 1, !.all = C,
                                !.cs = C])
      PROVE  Plain(r)
  BY <1>1, <1>2, <1>3, Fields
<1>4. ASSUME Go(r, Following(r)) PROVE Plain(r)
  <2> DEFINE pc == IF Assembles(r) \/ t.idx = t.lnum THEN "chunk" ELSE "read permit"
             i == t.idx + 1
  <2>1. Following(r) = [t EXCEPT !.idx = i, !.cs = t.all, !.risky = FALSE, !.pc = pc]
    BY <1>1 DEF Following, TaskType
  <2>2. pc \notin {"start", "done", "open", "evict"}
    OBVIOUS
  <2> HIDE DEF pc, i, G
  <2>3. Carries(t, [t EXCEPT !.idx = i, !.cs = t.all, !.risky = FALSE, !.pc = pc])
    BY <1>1, <2>2, Fields
  <2>4. Carries(t, Following(r))
    BY <2>1, <2>3
  <2> QED BY <1>2, <1>4, <2>4
<1>5. ASSUME NEW v, PreviewReturns(r, v) PROVE Plain(r)
  <2>1. Finish(r) \/ Go(r, [t EXCEPT !.pc = "derive", !.got = v])
    BY <1>5 DEF PreviewReturns
  <2>2. G("derive")
    OBVIOUS
  <2> HIDE DEF t, G
  <2> QED BY <1>3, <2>1, <2>2 DEF Plain
<1>6. ASSUME NEW pc, G(pc), List(r, pc) PROVE Plain(r)
  <2>1. Finish(r) \/ Go(r, [t EXCEPT !.pc = pc, !.lver = rowVer[t.row],
        !.lnum = rowParts[t.row],
                                     !.idx = 1, !.all = Candidates, !.cs = Candidates])
    BY <1>6 DEF List
  <2> HIDE DEF t, G
  <2> QED BY <1>3, <1>6, <2>1 DEF Plain
<1>7. ASSUME Finish(r) PROVE Plain(r)
  BY <1>7 DEF Plain
<1>8. CASE \E q \in Requests : Ask(r, q) \/ WarmOne(r, q)
  BY <1>1, <1>8 DEF Ask, WarmOne, Plain, Asleep, Same
<1>9. G("thumb flight") /\ G("preview flight") /\ G("list") /\ G("chunk") /\ G("read permit")
      /\ G("first permit") /\ G("chunk flight") /\ G("chunk get") /\ G("assemble")
      /\ G("preview") /\ G("thumb permit") /\ G("permit") /\ G("thumb get")
      /\ G("preview get")
  OBVIOUS
<1> HIDE DEF G
<1>10. CASE Thumb(r) \/ Preview(r) \/ Find(r)
  <2>1. \/ Finish(r) \/ PreviewReturns(r, previews)
        \/ live # 0 /\ Go(r, [t EXCEPT !.pc = "thumb flight", !.trow = live, !.row = live,
                                       !.doc = thumbDoc])
        \/ Go(r, [t EXCEPT !.pc = "preview flight", !.row = live, !.doc = previewDoc])
        \/ Go(r, [t EXCEPT !.pc = "list", !.row = live])
    BY <1>10 DEF Thumb, Preview, Find
  <2> HIDE DEF t
  <2> QED BY <1>3, <1>5, <1>7, <1>9, <2>1
<1>11. CASE \/ ThumbFlight(r) \/ PreviewFlight(r) \/ ThumbPermit(r) \/ MediaPermit(r)
            \/ PreviewLost(r) \/ ChunkMiss(r) \/ ChunkFlight(r)
  <2>1. \/ Finish(r) \/ PreviewReturns(r, previews)
        \/ \E pc : G(pc) /\ Go(r, [t EXCEPT !.pc = pc])
    <3>1. CASE ThumbFlight(r)
      BY <1>9, <3>1 DEF ThumbFlight
    <3>2. CASE PreviewFlight(r)
      BY <1>9, <3>2 DEF PreviewFlight
    <3>3. CASE ThumbPermit(r)
      <4>1. Go(r, [t EXCEPT !.pc = IF t.pc = "thumb permit" THEN "thumb get" ELSE "chunk"])
        BY <1>1, <3>3 DEF ThumbPermit, TaskType
      <4> QED BY <1>9, <4>1
    <3>4. CASE MediaPermit(r)
      <4>1. Go(r, [t EXCEPT !.pc = IF t.pc = "permit" THEN "preview get" ELSE "chunk"])
        BY <1>1, <3>4 DEF MediaPermit, TaskType
      <4> QED BY <1>9, <4>1
    <3>5. CASE PreviewLost(r) \/ ChunkMiss(r) \/ ChunkFlight(r)
      BY <1>9, <3>5 DEF PreviewLost, ChunkMiss, ChunkFlight
    <3> QED BY <1>11, <3>1, <3>2, <3>3, <3>4, <3>5
  <2> HIDE DEF t
  <2> QED BY <1>3, <1>5, <1>7, <2>1
<1>12. CASE PreviewGot(r) \/ Encode(r)
  BY <1>5, <1>7, <1>12 DEF PreviewGot, Encode
<1>13. CASE DownloadFile(r) \/ DownloadFolder(r) \/ WarmFirstChunk(r) \/ AssembleFileBytes(r)
  <2>1. G(FirstOf(r))
    BY <1>9 DEF FirstOf
  <2> QED BY <1>6, <1>7, <1>9, <1>13, <2>1
      DEF DownloadFile, DownloadFolder, WarmFirstChunk, AssembleFileBytes
<1>14. CASE ChunkFails(r)
  <2>1. Finish(r) \/ Go(r, [t EXCEPT !.pc = "chunk", !.cs = t.cs \ {Min(t.cs)}])
    BY <1>1, <1>14 DEF ChunkFails, TaskType
  <2> HIDE DEF t
  <2> QED BY <1>3, <1>7, <1>9, <2>1
<1>15. CASE Open(r) \/ ZipChunk(r)
  BY <1>4, <1>7, <1>15 DEF Open, ZipChunk
<1>16. CASE ThumbGot(r) \/ ThumbLost(r) \/ DerivedThumb(r) \/ LastChunk(r) \/ HangUp(r)
  BY <1>7, <1>16 DEF ThumbGot, ThumbLost, DerivedThumb, LastChunk, HangUp, Finish
<1> QED BY <1>8, <1>10, <1>11, <1>12, <1>13, <1>14, <1>15, <1>16 DEF Reads_, Step

(* The flights of the pictures, and how a step of a reader takes one.       *)
LEMMA DocFlight ==
  ASSUME FlightType, NEW d \in Docs, NEW x \in Readers \cup {Free},
         flight' = [flight EXCEPT ![d] = x]
  PROVE  FlightType' /\ flight'[ThumbKey] = flight[ThumbKey]
         /\ flight'[PreviewKey] = flight[PreviewKey]
<1>1. d \in Flights /\ d # ThumbKey /\ d # PreviewKey
  BY FlightKeys DEF Docs, Chunk, ThumbKey, PreviewKey
<1> QED BY <1>1, FlightKeys DEF FlightType

Taken(r) ==
    /\ FlightType'
    /\ \/ flight'[ThumbKey] \in {flight[ThumbKey], Free}
       \/ flight'[ThumbKey] = r /\ task[r].pc = "thumb flight" /\ ~Finish(r)
    /\ \/ flight'[PreviewKey] \in {flight[PreviewKey], Free}
       \/ flight'[PreviewKey] = r /\ task[r].pc = "preview flight" /\ ~Finish(r)
    /\ Finish(r) => \A k \in Flights : flight'[k] # r

LEMMA FinishFlights ==
  ASSUME Types, NEW r \in Readers, Finish(r)
  PROVE  Taken(r)
<1>1. flight' = [k \in Flights |-> IF flight[k] = r THEN Free ELSE flight[k]] /\ r # Free
  BY Constants DEF Finish, Release
<1>2. FlightType'
  BY <1>1 DEF Types, FlightType
<1>3. \A k \in Flights : flight'[k] \in {flight[k], Free} /\ flight'[k] # r
  BY <1>1
<1> QED BY <1>2, <1>3, FlightKeys DEF Taken

LEMMA ReaderTakes ==
  ASSUME Types, TasksAreSound, NEW r \in Readers, Reads_(r)
  PROVE  Taken(r)
<1> DEFINE D == Wanted(r)
<1>1. FlightType /\ r \in Readers \cup {Free} /\ Free \in Readers \cup {Free} /\ r # Free
      /\ task[r] \in TaskType /\ Shape(task[r])
  BY Constants DEF Types, TasksType, TasksAreSound
<1>2. ASSUME Finish(r) PROVE Taken(r)
  BY <1>2, FinishFlights
<1>3. ASSUME flight' = flight, ~Finish(r) PROVE Taken(r)
  BY <1>1, <1>3 DEF Taken, FlightType
<1>4. ASSUME NEW x \in {Free, r}, D \in Docs, flight' = [flight EXCEPT ![D] = x], ~Finish(r)
      PROVE  Taken(r)
  BY <1>1, <1>4, DocFlight DEF Taken
<1>5. ASSUME NEW v, PreviewReturns(r, v) PROVE Taken(r)
  <2>1. CASE ~Finish(r) /\ flight' = [flight EXCEPT ![PreviewKey] = IF @ = r THEN Free ELSE @]
    <3>1. FlightType'
      BY <1>1, <2>1 DEF FlightType
    <3>2. flight'[ThumbKey] = flight[ThumbKey] /\ flight'[PreviewKey] \in {flight[PreviewKey],
          Free}
      BY <1>1, <2>1, FlightKeys DEF FlightType
    <3> QED BY <2>1, <3>1, <3>2 DEF Taken
  <2> QED BY <1>2, <1>5, <2>1 DEF PreviewReturns
<1>6. ASSUME NEW pc, List(r, pc) PROVE Taken(r)
  BY <1>2, <1>3, <1>6 DEF List, Same
<1>7. CASE Thumb(r) \/ Preview(r) \/ Find(r)
  BY <1>2, <1>3, <1>5, <1>7 DEF Thumb, Preview, Find, Same
<1>8. CASE ThumbFlight(r)
  <2>1. CASE ~Finish(r) /\ flight' = [flight EXCEPT ![ThumbKey] = r]
    <3>1. FlightType' /\ flight'[ThumbKey] = r /\ flight'[PreviewKey] = flight[PreviewKey]
      BY <1>1, <2>1, FlightKeys DEF FlightType
    <3> QED BY <1>8, <2>1, <3>1 DEF Taken, ThumbFlight, At
  <2> QED BY <1>2, <1>8, <2>1 DEF ThumbFlight
<1>9. CASE PreviewFlight(r)
  <2>1. CASE ~Finish(r) /\ flight' = [flight EXCEPT ![PreviewKey] = r]
    <3>1. FlightType' /\ flight'[PreviewKey] = r /\ flight'[ThumbKey] = flight[ThumbKey]
      BY <1>1, <2>1, FlightKeys DEF FlightType
    <3> QED BY <1>9, <2>1, <3>1 DEF Taken, PreviewFlight, At
  <2> QED BY <1>2, <1>5, <1>9, <2>1 DEF PreviewFlight
<1>10. CASE \/ ThumbPermit(r) \/ MediaPermit(r) \/ PreviewLost(r) \/ ChunkMiss(r)
            \/ ChunkHit(r) \/ Open(r) \/ ZipChunk(r)
            \/ \E q \in Requests : Ask(r, q) \/ WarmOne(r, q)
  BY <1>2, <1>3, <1>10 DEF ThumbPermit, MediaPermit, PreviewLost, ChunkMiss, ChunkHit, Open,
      ZipChunk, Ask, WarmOne, Same
<1>11. CASE PreviewGot(r) \/ Encode(r)
  BY <1>2, <1>5, <1>11 DEF PreviewGot, Encode
<1>12. CASE DownloadFile(r) \/ DownloadFolder(r) \/ WarmFirstChunk(r) \/ AssembleFileBytes(r)
  BY <1>2, <1>6, <1>12 DEF DownloadFile, DownloadFolder, WarmFirstChunk, AssembleFileBytes
<1>13. CASE ChunkFlight(r) \/ ChunkGot(r) \/ Evict(r) \/ ChunkFails(r)
  <2>1. task[r].pc \in OnChunk \/ (task[r].pc = "chunk" /\ task[r].idx =< task[r].lnum)
    BY <1>13 DEF ChunkFlight, ChunkGot, Evict, ChunkFails, At, OnChunk
  <2>2. task[r].pc \in Listed /\ task[r].idx =< task[r].lnum
    BY <1>1, <2>1 DEF Shape, OnChunk, Listed
  <2>3. D \in Docs
    BY <2>2, WantedIsIn
  <2>4. D \in Flights /\ D # ThumbKey /\ D # PreviewKey
    BY <2>3, FlightKeys DEF Wanted
  <2>5. \/ Finish(r) \/ flight' = flight
        \/ flight' = [flight EXCEPT ![D] = r] \/ flight' = [flight EXCEPT ![D] = Free]
    <3>1. CASE ChunkFails(r)
      <4>1. \/ Finish(r)
            \/ flight' = [flight EXCEPT ![D] = IF flight[D] = r THEN Free ELSE flight[D]]
        BY <1>1, <2>4, <3>1 DEF ChunkFails, FlightType
      <4>2. flight = [flight EXCEPT ![D] = flight[D]]
        BY <1>1, <2>4 DEF FlightType
      <4> QED BY <4>1, <4>2
    <3> QED BY <1>13, <3>1 DEF ChunkFlight, ChunkGot, Evict
  <2> QED BY <1>2, <1>3, <1>4, <2>3, <2>5
<1>14. CASE ThumbGot(r) \/ ThumbLost(r) \/ DerivedThumb(r) \/ LastChunk(r) \/ HangUp(r)
  BY <1>2, <1>14 DEF ThumbGot, ThumbLost, DerivedThumb, LastChunk, HangUp, Finish
<1> QED BY <1>7, <1>8, <1>9, <1>10, <1>11, <1>12, <1>13, <1>14 DEF Reads_, Step

LEMMA HitsKeep ==
  ASSUME Types, NEW r \in Readers, ChunkHit(r) \/ ChunkGot(r) \/ Evict(r)
  PROVE  /\ task'[r].q = task[r].q /\ task'[r].trow = task[r].trow
         /\ task'[r].pc \in {"open", "evict"} /\ task[r].pc \notin {"thumb flight",
            "preview flight"}
<1>1. task[r] \in TaskType /\ \A u : Go(r, u) => task'[r] = u
  BY GoIs
<1>2. CASE ChunkHit(r)
  <2> DEFINE x == Condemned(Wanted(r))
  <2>1. task'[r] = [task[r] EXCEPT !.pc = "open", !.risky = x]
    BY <1>1, <1>2 DEF ChunkHit
  <2>2. task[r].pc \in {"chunk", "chunk flight"}
    BY <1>2 DEF ChunkHit, At
  <2> HIDE DEF x
  <2> QED BY <1>1, <2>1, <2>2 DEF TaskType
<1>3. CASE ChunkGot(r)
  <2>1. PICK D : Go(r, [task[r] EXCEPT !.pc = IF D = {} THEN "open" ELSE "evict", !.doomed = D,
                                       !.risky = Condemned(Wanted(r))])
    BY <1>3 DEF ChunkGot
  <2> DEFINE pc == IF D = {} THEN "open" ELSE "evict"
  <2>2. task'[r] = [task[r] EXCEPT !.pc = pc, !.doomed = D, !.risky = Condemned(Wanted(r))]
    BY <1>1, <2>1
  <2>3. pc \in {"open", "evict"} /\ task[r].pc = "chunk get"
    BY <1>3 DEF ChunkGot, At
  <2> HIDE DEF pc
  <2> QED BY <1>1, <2>2, <2>3 DEF TaskType
<1>4. CASE Evict(r)
  <2>1. PICK D : Go(r, [task[r] EXCEPT !.pc = IF D = {} THEN "open" ELSE "evict", !.doomed = D])
    BY <1>4 DEF Evict
  <2> DEFINE pc == IF D = {} THEN "open" ELSE "evict"
  <2>2. task'[r] = [task[r] EXCEPT !.pc = pc, !.doomed = D]
    BY <1>1, <2>1
  <2>3. pc \in {"open", "evict"} /\ task[r].pc = "evict"
    BY <1>4 DEF Evict, At
  <2> HIDE DEF pc
  <2> QED BY <1>1, <2>2, <2>3 DEF TaskType
<1> QED BY <1>2, <1>3, <1>4

LEMMA ReaderHolds ==
  ASSUME Types, TasksAreSound, HeldByReaders, NEW r \in Readers, Reads_(r), Moved(r)
  PROVE  FlightType' /\ HeldByReaders'
<1>1. Taken(r) /\ task[r] \in TaskType /\ Shape(task[r])
  BY ReaderTakes DEF Types, TasksType, TasksAreSound
<1>2. \A s \in Readers : s # Free
  BY Constants
<1>3. ASSUME NEW s \in Readers, s # r
      PROVE  /\ flight'[ThumbKey] = s => task'[s].trow # 0
             /\ flight'[PreviewKey] = s => task'[s].q \in {"thumb", "preview"}
  <2>1. task'[s] = task[s]
    BY <1>3 DEF Moved, Types, TasksType
  <2>2. /\ flight'[ThumbKey] = s => flight[ThumbKey] = s
        /\ flight'[PreviewKey] = s => flight[PreviewKey] = s
    <3>1. /\ flight'[ThumbKey] \in {flight[ThumbKey], Free, r}
          /\ flight'[PreviewKey] \in {flight[PreviewKey], Free, r}
      BY <1>1 DEF Taken
    <3>2. s # Free /\ s # r
      BY <1>2, <1>3
    <3> QED BY <3>1, <3>2
  <2> QED BY <2>1, <2>2 DEF HeldByReaders
<1>4. CASE Finish(r)
  <2>1. flight'[ThumbKey] # r /\ flight'[PreviewKey] # r
    BY <1>1, <1>4, FlightKeys DEF Taken
  <2> QED BY <1>1, <1>3, <2>1 DEF Taken, HeldByReaders
<1>5. CASE task[r] = Asleep /\ Same
  <2>4. Asleep.trow = 0 /\ Asleep.q = ""
    BY DEF Asleep
  <2>5. "" \notin {"thumb", "preview"}
    OBVIOUS
  <2>1. task[r].trow = 0 /\ task[r].q \notin {"thumb", "preview"}
    BY <1>5, <2>4, <2>5
  <2>3. flight' = flight
    BY <1>5 DEF Same
  <2>2. flight'[ThumbKey] # r /\ flight'[PreviewKey] # r
    BY <2>1, <2>3 DEF HeldByReaders
  <2> QED BY <1>1, <1>3, <2>2 DEF Taken, HeldByReaders
<1>6. CASE /\ task'[r].q = task[r].q
           /\ task'[r].trow = task[r].trow \/ task'[r].trow # 0
  <2>1. task[r].pc = "thumb flight" => task[r].trow # 0
    BY <1>1 DEF Shape
  <2>2. task[r].pc = "preview flight" => task[r].q \in {"thumb", "preview"}
    BY <1>1 DEF Shape, Pictures
  <2>3. /\ flight'[ThumbKey] = r => task'[r].trow # 0
        /\ flight'[PreviewKey] = r => task'[r].q \in {"thumb", "preview"}
    BY <1>1, <1>2, <1>6, <2>1, <2>2 DEF Taken, HeldByReaders
  <2> QED BY <1>1, <1>3, <2>3 DEF Taken, HeldByReaders
<1> QED BY <1>4, <1>5, <1>6, PlainSteps, HitsKeep DEF Plain

(* One permit more or less.                                                 *)
LEMMA OnePermit ==
  ASSUME NEW S, NEW T, NEW x, NEW n \in Nat, IsFiniteSet(S), Cardinality(S) =< n,
         \/ T = S \/ T = S \ {x}
         \/ T = S \cup {x} /\ Cardinality(S) < n
  PROVE  IsFiniteSet(T) /\ Cardinality(T) =< n
<1>1. Cardinality(S) \in Nat
  BY FS_CardinalityType
<1>2. CASE T = S \ {x}
  BY <1>1, <1>2, FS_RemoveElement
<1>3. CASE T = S \cup {x} /\ Cardinality(S) < n
  BY <1>1, <1>3, FS_AddElement
<1> QED BY <1>2, <1>3

LEMMA ReaderPermits ==
  ASSUME Types, NEW r \in Readers, Reads_(r)
  PROVE  PermitsHold'
<1> DEFINE Media_ == \/ media' = media \/ media' = media \ {r}
                     \/ media' = media \cup {r} /\ Cardinality(media) < MediaPermits
           Tiles_ == \/ tiles' = tiles \/ tiles' = tiles \ {r}
                     \/ tiles' = tiles \cup {r} /\ Cardinality(tiles) < ThumbPermits
<1>13. SUFFICES Media_ /\ Tiles_
  BY OnePermit, Constants DEF Types, PermitsHold
<1>0. /\ media' \in {media, media \ {r}} => Media_
      /\ tiles' \in {tiles, tiles \ {r}} => Tiles_
      /\ media' = media \cup {r} /\ Cardinality(media) < MediaPermits => Media_
      /\ tiles' = tiles \cup {r} /\ Cardinality(tiles) < ThumbPermits => Tiles_
  OBVIOUS
<1> HIDE DEF Media_, Tiles_
<1>1. ASSUME Finish(r) PROVE Media_ /\ Tiles_
  BY <1>0, <1>1 DEF Finish, Release
<1>2. ASSUME media' \in {media, media \ {r}}, tiles' = tiles PROVE Media_ /\ Tiles_
  BY <1>0, <1>2
<1>14. ASSUME Same PROVE Media_ /\ Tiles_
  BY <1>2, <1>14 DEF Same
<1>3. ASSUME NEW v, PreviewReturns(r, v) PROVE Media_ /\ Tiles_
  BY <1>1, <1>2, <1>3 DEF PreviewReturns
<1>4. ASSUME NEW pc, List(r, pc) PROVE Media_ /\ Tiles_
  BY <1>1, <1>14, <1>4 DEF List
<1>5. CASE Thumb(r) \/ Preview(r) \/ Find(r)
  BY <1>1, <1>3, <1>14, <1>5 DEF Thumb, Preview, Find
<1>15. CASE ThumbFlight(r) \/ PreviewFlight(r)
  BY <1>1, <1>2, <1>3, <1>15 DEF ThumbFlight, PreviewFlight
<1>6. CASE ThumbPermit(r) \/ MediaPermit(r)
  BY <1>0, <1>6 DEF ThumbPermit, MediaPermit
<1>7. CASE PreviewGot(r) \/ Encode(r) \/ PreviewLost(r)
  BY <1>1, <1>2, <1>3, <1>7 DEF PreviewGot, Encode, PreviewLost
<1>8. CASE DownloadFile(r) \/ DownloadFolder(r) \/ WarmFirstChunk(r) \/ AssembleFileBytes(r)
  BY <1>1, <1>4, <1>8 DEF DownloadFile, DownloadFolder, WarmFirstChunk, AssembleFileBytes
<1>9. CASE ChunkMiss(r) \/ ChunkHit(r) \/ ChunkFlight(r) \/ ChunkGot(r) \/ Evict(r)
  BY <1>2, <1>14, <1>9 DEF ChunkMiss, ChunkHit, ChunkFlight, ChunkGot, Evict
<1>10. CASE ChunkFails(r) \/ Open(r) \/ ZipChunk(r)
  BY <1>1, <1>2, <1>10 DEF ChunkFails, Open, ZipChunk
<1>11. CASE ThumbGot(r) \/ ThumbLost(r) \/ DerivedThumb(r) \/ LastChunk(r) \/ HangUp(r)
  BY <1>1, <1>11 DEF ThumbGot, ThumbLost, DerivedThumb, LastChunk, HangUp, Finish
<1>12. CASE \E q \in Requests : Ask(r, q) \/ WarmOne(r, q)
  BY <1>2, <1>12 DEF Ask, WarmOne
<1> QED
  BY <1>5, <1>6, <1>7, <1>8, <1>9, <1>10, <1>11, <1>12, <1>15 DEF Reads_, Step

(* Only a hit, a chunk that was got and an eviction touch the chunk cache.  *)
LEMMA PlainKeeps ==
  ASSUME NEW r \in Readers, Reads_(r), ~ChunkHit(r), ~ChunkGot(r), ~Evict(r)
  PROVE  young' = young /\ disk' = disk
BY DEF Reads_, Step, Thumb, Preview, ThumbFlight, PreviewFlight, ThumbPermit, MediaPermit,
    ThumbGot, ThumbLost, PreviewGot, PreviewLost, DerivedThumb, Find, DownloadFile,
    DownloadFolder, WarmFirstChunk, AssembleFileBytes, ChunkMiss, ChunkFlight,
    ChunkFails, Open, ZipChunk, Encode, LastChunk, HangUp, Ask, WarmOne,
    NoFile, chunkVars

LEMMA ReaderChunks ==
  ASSUME Types, TasksAreSound, NEW r \in Readers, Reads_(r)
  PROVE  young' \subseteq disk' /\ disk' \subseteq Docs
<1>1. Shape(task[r]) /\ young \subseteq disk /\ disk \subseteq Docs
  BY DEF TasksAreSound, Types, CacheType
<1>2. CASE ChunkHit(r)
  BY <1>1, <1>2 DEF ChunkHit
<1>3. CASE ChunkGot(r)
  <2>1. task[r].pc \in Listed /\ task[r].idx =< task[r].lnum
    BY <1>1, <1>3 DEF ChunkGot, At, Shape, Listed, OnChunk
  <2>2. Wanted(r) \in Docs
    BY <2>1, WantedIsIn
  <2> QED BY <1>1, <1>3, <2>2 DEF ChunkGot
<1>4. CASE Evict(r)
  BY <1>1, <1>4 DEF Evict
<1> QED BY <1>1, <1>2, <1>3, <1>4, PlainKeeps

(* Whoever was handed a chunk: it is young and on nobody's list.            *)
LEMMA PlainHands ==
  ASSUME Types, HandedOut, NEW r \in Readers, Reads_(r), Plain(r), Moved(r),
         ~ChunkHit(r), ~ChunkGot(r), ~Evict(r)
  PROVE  HandedOut'
<1>1. young' = young
  BY PlainKeeps
<1>2. task'[r].pc \notin {"open", "evict"} /\ task'[r].doomed \subseteq task[r].doomed
  <2>1. CASE Finish(r)
    <3>1. task'[r] = Done
      BY <2>1 DEF Finish, Types, TasksType
    <3>2. Done.pc = "done" /\ Done.doomed = {}
      BY DEF Done, Asleep
    <3> QED BY <3>1, <3>2
  <2>2. Requests \cap {"open", "evict"} = {}
    BY DEF Requests
  <2> QED BY <2>1, <2>2 DEF Plain
<1>3. \A s \in Readers : s # r => task'[s] = task[s]
  BY DEF Moved, Types, TasksType
<1>4. \A d : Condemned(d)' => Condemned(d)
  BY <1>2, <1>3 DEF Condemned
<1>5. \A s \in Readers : s # r => Wanted(s)' = Wanted(s)
  BY <1>3 DEF Wanted
<1> QED BY <1>1, <1>2, <1>3, <1>4, <1>5 DEF HandedOut

(* What a step on a chunk leaves of the task: its chunk, its list, its risk.*)
LEMMA HitHands ==
  ASSUME Types, HandedOut, NEW r \in Readers, ChunkHit(r)
  PROVE  HandedOut'
<1> DEFINE x == Condemned(Wanted(r))
<1>1. /\ task[r] \in TaskType /\ \A s \in Readers : s # r => task'[s] = task[s]
      /\ task'[r] = [task[r] EXCEPT !.pc = "open", !.risky = x]
      /\ young' = young \cup {Wanted(r)}
  BY GoIs DEF ChunkHit
<1> HIDE DEF x
<1>2. /\ task'[r].doomed = task[r].doomed /\ task'[r].lver = task[r].lver
      /\ task'[r].idx = task[r].idx /\ task'[r].cs = task[r].cs /\ task'[r].risky = x
  BY <1>1 DEF TaskType
<1>3. \A d : Condemned(d)' <=> Condemned(d)
  BY <1>1, <1>2 DEF Condemned
<1>4. \A s \in Readers : Wanted(s)' = Wanted(s)
  BY <1>1, <1>2 DEF Wanted
<1> QED BY <1>1, <1>2, <1>3, <1>4 DEF HandedOut, x

LEMMA GotHands ==
  ASSUME Types, HandedOut, NEW r \in Readers, ChunkGot(r)
  PROVE  HandedOut'
<1> DEFINE x == Condemned(Wanted(r))
<1>1. PICK D : /\ D \cap young' = {}
               /\ Go(r, [task[r] EXCEPT !.pc = IF D = {} THEN "open" ELSE "evict", !.doomed = D,
                                        !.risky = x])
  BY DEF ChunkGot
<1> DEFINE pc == IF D = {} THEN "open" ELSE "evict"
<1>2. /\ task[r] \in TaskType /\ \A s \in Readers : s # r => task'[s] = task[s]
      /\ task'[r] = [task[r] EXCEPT !.pc = pc, !.doomed = D, !.risky = x]
      /\ young' = young \cup {Wanted(r)}
  BY <1>1, GoIs DEF ChunkGot
<1> HIDE DEF x, pc
<1>3. /\ task'[r].doomed = D /\ task'[r].lver = task[r].lver
      /\ task'[r].idx = task[r].idx /\ task'[r].cs = task[r].cs /\ task'[r].risky = x
  BY <1>2 DEF TaskType
<1>4. \A d \in young' : Condemned(d)' => Condemned(d)
  BY <1>1, <1>2, <1>3 DEF Condemned
<1>5. \A s \in Readers : Wanted(s)' = Wanted(s)
  BY <1>2, <1>3 DEF Wanted
<1>6. ASSUME NEW s \in Readers, task'[s].pc \in {"open", "evict"}, ~task'[s].risky
      PROVE  Wanted(s)' \in young' /\ ~Condemned(Wanted(s))'
  <2>1. CASE s = r
    BY <1>2, <1>3, <1>4, <1>5, <1>6, <2>1 DEF x
  <2>2. CASE s # r
    <3>1. Wanted(s) \in young /\ ~Condemned(Wanted(s))
      BY <1>2, <1>6, <2>2 DEF HandedOut
    <3> QED BY <1>2, <1>4, <1>5, <3>1
  <2> QED BY <2>1, <2>2
<1> QED BY <1>6 DEF HandedOut

LEMMA EvictHands ==
  ASSUME Types, HandedOut, NEW r \in Readers, Evict(r)
  PROVE  HandedOut'
<1>1. PICK d \in task[r].doomed :
          /\ young' = young \ {d}
          /\ Go(r, [task[r] EXCEPT !.pc = IF task[r].doomed \ {d} = {} THEN "open" ELSE "evict",
                                   !.doomed = task[r].doomed \ {d}])
  BY DEF Evict
<1> DEFINE left == task[r].doomed \ {d}
           pc == IF left = {} THEN "open" ELSE "evict"
<1>2. /\ task[r] \in TaskType /\ \A s \in Readers : s # r => task'[s] = task[s]
      /\ task'[r] = [task[r] EXCEPT !.pc = pc, !.doomed = left]
      /\ task[r].pc = "evict"
  BY <1>1, GoIs DEF Evict, At
<1>3. left \subseteq task[r].doomed
  OBVIOUS
<1> HIDE DEF left, pc
<1>4. /\ task'[r].doomed = left /\ task'[r].lver = task[r].lver
      /\ task'[r].idx = task[r].idx /\ task'[r].cs = task[r].cs
      /\ task'[r].risky = task[r].risky
  BY <1>2 DEF TaskType
<1>5. \A e : Condemned(e)' => Condemned(e)
  BY <1>2, <1>3, <1>4 DEF Condemned
<1>6. \A s \in Readers : Wanted(s)' = Wanted(s)
  BY <1>2, <1>4 DEF Wanted
<1>7. Condemned(d)
  BY <1>1 DEF Condemned
<1>8. ASSUME NEW s \in Readers, task'[s].pc \in {"open", "evict"}, ~task'[s].risky
      PROVE  Wanted(s)' \in young' /\ ~Condemned(Wanted(s))'
  <2>1. task[s].pc \in {"open", "evict"} /\ ~task[s].risky
    BY <1>2, <1>4, <1>8
  <2>2. Wanted(s) \in young /\ ~Condemned(Wanted(s))
    BY <2>1 DEF HandedOut
  <2> QED BY <1>1, <1>5, <1>6, <1>7, <2>2
<1> QED BY <1>8 DEF HandedOut

LEMMA ReaderHands ==
  ASSUME Types, HandedOut, NEW r \in Readers, Reads_(r), Moved(r)
  PROVE  HandedOut'
BY PlainSteps, PlainHands, HitHands, GotHands, EvictHands

LEMMA AgeHands ==
  ASSUME HandedOut, NEW d \in Docs, Age(d)
  PROVE  HandedOut'
<1>1. task' = task /\ young' = young \ {d}
      /\ \A r \in Readers : task[r].pc \in {"open", "evict"} => Wanted(r) # d
  BY DEF Age, readVars, At
<1>2. /\ \A r \in Readers : Wanted(r)' = Wanted(r)
      /\ \A e : Condemned(e)' <=> Condemned(e)
  BY <1>1 DEF Wanted, Condemned
<1> QED BY <1>1, <1>2 DEF HandedOut

(* An archive is there while its chunks are read, or its client hung up.    *)
LEMMA ReaderZips ==
  ASSUME Types, HeldByReaders, ZipsAreHeld, NEW r \in Readers, Reads_(r), Moved(r)
  PROVE  zips' \subseteq Readers /\ ZipsAreHeld'
<1> DEFINE t == task[r]
           Sent(u) == u.pc \in {"chunk", "read permit"} /\ u.q = "zip"
<1>1. /\ t \in TaskType /\ \A u : Go(r, u) => task'[r] = u
      /\ \A s \in Readers : s # r => task'[s] = task[s]
  BY GoIs DEF Moved, Types, TasksType
<1>2. zips' \subseteq zips \cup {r} /\ hung \subseteq hung' /\ zips \subseteq Readers
  BY DEF Reads_, Step, Thumb, Preview, ThumbFlight, PreviewFlight, ThumbPermit, MediaPermit,
      ThumbGot, ThumbLost, PreviewGot, PreviewLost, DerivedThumb, Find, DownloadFile,
      DownloadFolder, WarmFirstChunk, AssembleFileBytes, ChunkHit, ChunkMiss, ChunkFlight,
      ChunkGot, Evict, ChunkFails, Open, ZipChunk, Encode, LastChunk, HangUp, Ask, WarmOne,
      NoFile, Types, CacheType
<1>3. r \in zips => Sent(t) \/ t.pc = "done"
  BY DEF ZipsAreHeld
<1>4. r \in zips' => (r \in hung' /\ task'[r].pc = "done") \/ Sent(task'[r])
  <2> SUFFICES ASSUME r \in zips'
               PROVE  (r \in hung' /\ task'[r].pc = "done") \/ Sent(task'[r])
    OBVIOUS
  <2>1. CASE DownloadFolder(r)
    <3>1. t.q = "zip"
      BY <2>1 DEF DownloadFolder, Reads
    <3>2. CASE Candidates = {}
      <4>1. r \in zips /\ t.pc = "list"
        BY <2>1, <3>2 DEF DownloadFolder, At
      <4> QED BY <1>3, <4>1
    <3>3. CASE Candidates # {}
      <4> DEFINE pc == FirstOf(r)
      <4>1. task'[r] = [t EXCEPT !.pc = pc, !.lver = rowVer[t.row], !.lnum = rowParts[t.row],
                                 !.idx = 1, !.all = Candidates, !.cs = Candidates]
        BY <1>1, <2>1, <3>3 DEF DownloadFolder, List
      <4>2. pc \in {"chunk", "read permit"}
        BY DEF FirstOf
      <4> HIDE DEF pc
      <4>3. task'[r].pc = pc /\ task'[r].q = t.q
        BY <1>1, <4>1 DEF TaskType
      <4> QED BY <3>1, <4>2, <4>3
    <3> QED BY <3>2, <3>3
  <2>2. CASE HangUp(r)
    <3>1. r \in hung' /\ task'[r] = Done
      BY <2>2 DEF HangUp, Types, TasksType
    <3> QED BY <3>1 DEF Done
  <2>3. CASE ~DownloadFolder(r) /\ ~HangUp(r)
    <3>1. r \in zips /\ t.pc \in {"chunk", "read permit", "done"}
          /\ (t.pc # "done" => t.q = "zip")
      <4>1. zips' \subseteq zips
        BY <2>3 DEF Reads_, Step, Thumb, Preview, ThumbFlight, PreviewFlight, ThumbPermit,
            MediaPermit, ThumbGot, ThumbLost, PreviewGot, PreviewLost, DerivedThumb, Find,
            DownloadFile, WarmFirstChunk, AssembleFileBytes, ChunkHit, ChunkMiss,
            ChunkFlight, ChunkGot, Evict, ChunkFails, Open, ZipChunk, Encode, LastChunk, Ask,
            WarmOne, NoFile
      <4> QED BY <1>3, <4>1
    <3>2. MediaPermit(r) \/ ZipChunk(r) \/ ChunkFails(r)
      <4>1. ~LastChunk(r)
        BY DEF LastChunk
      <4>2. ~Encode(r)
        <5>1. t.q \notin {"thumb", "preview"} \/ t.pc = "done"
          BY <3>1
        <5> QED BY <5>1 DEF Encode, At, Assembles, HeldByReaders
      <4>3. ~ \E q \in Requests : Ask(r, q) \/ WarmOne(r, q)
        <5>1. Asleep.pc = "start"
          BY DEF Asleep
        <5> QED BY <3>1, <5>1 DEF Ask, WarmOne
      <4>4. ~ChunkHit(r) /\ ~ChunkMiss(r)
        BY <3>1 DEF ChunkHit, ChunkMiss, At, Reads
      <4> QED BY <2>3, <3>1, <4>1, <4>2, <4>3, <4>4 DEF Reads_, Step, Thumb, Preview,
            ThumbFlight, PreviewFlight, ThumbPermit, ThumbGot, ThumbLost, PreviewGot,
            PreviewLost, DerivedThumb, Find, DownloadFile, WarmFirstChunk, AssembleFileBytes,
            ChunkFlight, ChunkGot, Evict, Open, At
    <3>3. CASE MediaPermit(r)
      <4>1. t.pc = "read permit" /\ t.q = "zip"
        BY <3>1, <3>3 DEF MediaPermit, At
      <4>2. task'[r] = [t EXCEPT !.pc = "chunk"]
        BY <1>1, <3>3, <4>1 DEF MediaPermit, TaskType
      <4> QED BY <1>1, <4>1, <4>2 DEF TaskType
    <3>4. CASE ZipChunk(r)
      <4>1. t.q = "zip" /\ task'[r] = Following(r)
        BY <1>1, <3>4 DEF ZipChunk, Reads
      <4> QED BY <1>1, <4>1 DEF Following, TaskType
    <3>5. CASE ChunkFails(r)
      <4>1. t.pc # "done" /\ Cardinality(t.cs) > 1
        BY <3>5 DEF ChunkFails, At
      <4>2. task'[r] = [t EXCEPT !.pc = "chunk", !.cs = t.cs \ {Min(t.cs)}]
        BY <1>1, <3>5, <4>1 DEF ChunkFails, TaskType
      <4> QED BY <1>1, <3>1, <4>1, <4>2 DEF TaskType
    <3> QED BY <3>2, <3>3, <3>4, <3>5
  <2> QED BY <2>1, <2>2, <2>3
<1>5. ASSUME NEW s \in zips', s # r
      PROVE  \/ task'[s].pc = "done" /\ s \in hung'
             \/ Sent(task'[s])
  BY <1>1, <1>2, <1>5 DEF ZipsAreHeld
<1> QED BY <1>2, <1>4, <1>5 DEF ZipsAreHeld

-----------------------------------------------------------------------------
(* The invariant, and the theorem.                                          *)

LEMMA MediaInit ==
  ASSUME Init
  PROVE  MediaInv
<1>1. /\ Asleep \in TaskType /\ Shape(Asleep)
      /\ \A lv, rv, lo : Knows(Asleep, lv, rv, lo)
  BY EndsSound DEF Asleep, Shape, Knows, Pictures, Located, Listed, OnChunk
<1>2. /\ 1 \in Versions /\ 1 \in 0 .. MaxVersion /\ 0 \in 0 .. MaxVersion /\ 0 \in 0 .. Parts
      /\ Parts \in 0 .. Parts /\ 0 =< MediaPermits /\ 0 =< ThumbPermits
  BY Constants DEF Versions
<1>3. TasksType /\ TasksAreSound
  BY <1>1 DEF Init, TasksType, TasksAreSound
<1>4. RowsType
  <2>1. NoRelay \in [row : 0 .. MaxVersion, step : {"off", "chunks", "derive"}, here : BOOLEAN]
    BY <1>2 DEF NoRelay
  <2> QED BY <1>2, <2>1 DEF Init, RowsType
<1>5. RowsAreSound
  <2>1. NoRelay.row = 0 /\ NoRelay.step = "off"
    BY DEF NoRelay
  <2> QED BY <1>2, <2>1 DEF Init, RowsAreSound, RowKnown
<1>6. TilesType /\ PicturesAreFine
  BY <1>2 DEF Init, TilesType, PicturesAreFine, Fine
<1>7. CacheType
  <2>1. {1} \X (1 .. Parts) \X Channels \subseteq Docs
    BY <1>2 DEF Docs
  <2> QED BY <2>1 DEF Init, CacheType
<1>8. FlightType /\ HeldByReaders
  BY Constants, FlightKeys DEF Init, FlightType, HeldByReaders
<1>9. PermitsHold
  BY <1>2, FS_EmptySet DEF Init, PermitsHold
<1>10. HandedOut /\ ZipsAreHeld
  <2>1. Asleep.pc = "start"
    BY DEF Asleep
  <2> QED BY <2>1 DEF Init, HandedOut, ZipsAreHeld
<1> QED BY <1>3, <1>4, <1>5, <1>6, <1>7, <1>8, <1>9, <1>10 DEF MediaInv, Types

(* What the tasks hold is not touched by a step that leaves them alone.     *)
LEMMA StillHeld ==
  ASSUME MediaInv, UNCHANGED <<chunkVars, readVars>>
  PROVE  /\ CacheType' /\ FlightType' /\ PermitsHold' /\ HeldByReaders'
         /\ HandedOut' /\ ZipsAreHeld'
<1>1. UNCHANGED <<disk, young, task, flight, media, tiles, zips, hung>>
  BY DEF chunkVars, readVars
<1>2. /\ \A r \in Readers : Wanted(r)' = Wanted(r)
      /\ \A e : Condemned(e)' <=> Condemned(e)
  BY <1>1 DEF Wanted, Condemned
<1> QED BY <1>1, <1>2 DEF MediaInv, Types, CacheType, FlightType, PermitsHold, HeldByReaders,
    HandedOut, ZipsAreHeld

LEMMA MediaInvStep ==
  ASSUME MediaInv, [Next]_vars
  PROVE  MediaInv'
<1>1. Types /\ TasksAreSound /\ RowsAreSound /\ PicturesAreFine /\ HeldByReaders /\ HandedOut
      /\ ZipsAreHeld
  BY DEF MediaInv
<1>2. ASSUME NEW r \in Readers, Reads_(r) PROVE MediaInv'
  <2>1. UNCHANGED rowVars /\ loose \subseteq loose' /\ Moved(r)
    BY <1>1, <1>2, ReaderKeeps, ReaderMoves
  <2>2. TasksType' /\ TasksAreSound'
    BY <1>1, <2>1, ReaderTasks
  <2>3. RowsType' /\ RowsAreSound'
    <3>1. RowKnown(relay.row, live, rowVer, loose')
      BY <1>1, <2>1, Weaken DEF RowsAreSound
    <3> QED BY <1>1, <2>1, <3>1 DEF Types, RowsType, RowsAreSound, rowVars
  <2>4. TilesType' /\ PicturesAreFine'
    BY <1>1, <1>2, ReaderPictures
  <2>5. FlightType' /\ HeldByReaders'
    BY <1>1, <1>2, <2>1, ReaderHolds
  <2>6. PermitsHold'
    BY <1>1, <1>2, ReaderPermits
  <2>7. CacheType' /\ ZipsAreHeld'
    BY <1>1, <1>2, <2>1, ReaderChunks, ReaderZips DEF CacheType
  <2>8. HandedOut'
    BY <1>1, <1>2, <2>1, ReaderHands
  <2> QED BY <2>2, <2>3, <2>4, <2>5, <2>6, <2>7, <2>8 DEF MediaInv, Types
<1>3. CASE Writes
  <2>1. /\ CacheType' /\ FlightType' /\ PermitsHold' /\ HeldByReaders'
        /\ HandedOut' /\ ZipsAreHeld'
    BY <1>3, WritersKeep, StillHeld
  <2>2. TasksType' /\ TasksAreSound' /\ RowsType' /\ RowsAreSound' /\ TilesType'
        /\ PicturesAreFine'
    BY <1>1, <1>3, WriterTasks, WriterRows, WriterPictures
  <2> QED BY <2>1, <2>2 DEF MediaInv, Types
<1>4. ASSUME NEW d \in Docs, Age(d) PROVE MediaInv'
  <2>1. UNCHANGED <<rowVars, tileVars, disk, readVars>> /\ young' \subseteq young
    BY <1>4 DEF Age
  <2>2. HandedOut'
    BY <1>1, <1>4, AgeHands
  <2>3. /\ TasksType' /\ TasksAreSound' /\ RowsType' /\ RowsAreSound' /\ TilesType'
        /\ PicturesAreFine'
    BY <1>1, <2>1 DEF Types, TasksType, TasksAreSound, RowsType, RowsAreSound, TilesType,
        PicturesAreFine, rowVars, tileVars, readVars
  <2>4. CacheType' /\ FlightType' /\ PermitsHold' /\ HeldByReaders' /\ ZipsAreHeld'
    BY <1>1, <2>1 DEF Types, CacheType, FlightType, PermitsHold, HeldByReaders, ZipsAreHeld,
        readVars
  <2> QED BY <2>2, <2>3, <2>4 DEF MediaInv, Types
<1>5. CASE UNCHANGED vars
  <2>1. /\ CacheType' /\ FlightType' /\ PermitsHold' /\ HeldByReaders'
        /\ HandedOut' /\ ZipsAreHeld'
    BY <1>5, StillHeld DEF vars
  <2>2. UNCHANGED <<rowVars, tileVars, task>>
    BY <1>5 DEF vars, readVars
  <2>3. /\ TasksType' /\ TasksAreSound' /\ RowsType' /\ RowsAreSound' /\ TilesType'
        /\ PicturesAreFine'
    BY <1>1, <2>2 DEF Types, TasksType, TasksAreSound, RowsType, RowsAreSound, TilesType,
        PicturesAreFine, rowVars, tileVars
  <2> QED BY <2>1, <2>3 DEF MediaInv, Types
<1> QED BY <1>2, <1>3, <1>4, <1>5, Kinds

(* What the invariant says of the caches.                                   *)
LEMMA CachesFollow ==
  ASSUME MediaInv
  PROVE  CachesHold
<1>1. TypeOK
  BY DEF MediaInv, Types, RowsType, TilesType, CacheType, FlightType, PermitsHold, TypeOK
<1>2. TilesAreOfTheirPath
  BY DEF MediaInv, PicturesAreFine, Fine, TilesAreOfTheirPath
<1>3. HandedOutIsThere
  BY DEF MediaInv, HandedOut, Types, CacheType, HandedOutIsThere, At
<1>4. ArchivesAreRemoved
  <2>1. \A r \in Readers : task[r].pc \in {"chunk", "read permit"} => Active(r)
    BY DEF Active
  <2> QED BY <2>1 DEF MediaInv, Types, CacheType, ZipsAreHeld, ArchivesAreRemoved
<1> QED BY <1>1, <1>2, <1>3, <1>4 DEF CachesHold

(* For any number of clients and warmers, of permits, chunks, channels and  *)
(* versions: with no invalidation under way the thumbnail and the preview   *)
(* cached under a path are of the file there now, unless a change met work  *)
(* on the row when it left that version (FilesService::                     *)
(* invalidate_media_cache); a chunk just handed out is there to be opened   *)
(* (evict_oldest, CHUNK_EVICT_GRACE); an archive stays behind only when its *)
(* client hung up (download_folder); and the permits are never overdrawn.   *)
THEOREM CachesAlwaysHold == Spec => []CachesHold
<1>1. Init => MediaInv
  BY MediaInit
<1>2. MediaInv /\ [Next]_vars => MediaInv'
  BY MediaInvStep
<1>3. MediaInv => CachesHold
  BY CachesFollow
<1> QED BY <1>1, <1>2, <1>3, PTL DEF Spec

=============================================================================
