------------------------------- MODULE SdLib --------------------------------
(***************************************************************************)
(* SD/src/SD.cpp and File.cpp: the SD object and the File objects a sketch *)
(* uses, with a power cut between any two accesses to the card.            *)
(***************************************************************************)
EXTENDS SdFile

CONSTANTS
    Cards,        \* the cards a sketch may find
    Files,        \* the sketch's File variables
    Paths,        \* paths of files and directories, as sequences of names
    Dirs,         \* those that are made and removed as directories
    Writes,       \* what the sketch writes, as sequences of units
    Modes,        \* the modes it opens files with
    MaxCalls,     \* bound: calls in a behaviour
    MaxAccesses   \* bound: accesses to the card in one call

VARIABLES
    s,            \* the card and the memory of the library
    now,          \* history: contents of the files, as the calls have made them
    kept,         \* history: what of it must survive a power cut
    res,          \* history: what the last call answered, and what it should have
    opened,       \* the path of every open File
    power,        \* history: "steady", "cut" once, or "hurt": the cut left entries of freed clusters
    calls

vars == <<s, now, kept, res, opened, power, calls>>

Handles == Files \cup {"root", "p1", "p2", "c", "g1", "g2"}
NotOpen == <<"-">>
Fresh(t, f) == [t EXCEPT !.h[f] = Closed]
Last1(q) == q[Len(q)]

FILE_READ  == {"R"}
FILE_WRITE == {"R", "W", "CREAT", "APPEND"}

-----------------------------------------------------------------------------
\* The callbacks of walkPath(): ok says whether to go on.  All but mkdir's look for the
\* component or open it to delete it; mkdir makes what it does not find.
CallbackFlags(what) == IF what = "remove" THEN {"W"} ELSE {"R"}
Found(t, what, d, name) ==
    CASE what = "remove" -> Then(t, LAMBDA u: Remove(u, "c"))
      [] what = "rmdir"  -> Then(t, LAMBDA u: RmDir(u, "c"))
      [] t.ok            -> Ok(Close(t, "c"))
      [] what = "mkdir"  -> MakeDir(Fresh(t, "c"), "c", d, name)
      [] OTHER           -> t
Callback(t, what, d, name, last) ==
    IF what \in {"remove", "rmdir"} /\ ~last THEN Ok(t)
    ELSE Found(Open(Fresh(t, "c"), "c", d, name, CallbackFlags(what)), what, d, name)

\* walkPath(): down the path with two handles in turn, calling back at every level.
CloseParent(t, parent) == IF parent = "root" THEN t ELSE [Close(t, parent) EXCEPT !.ok = t.ok]
RECURSIVE WalkPath(_, _, _, _, _)
Step(t, path, parent, child, what) ==
    IF ~t.ok \/ Len(path) = 1 THEN CloseParent(t, parent)
    ELSE Then(CloseParent(Open(t, child, parent, path[1], {"R"}), parent), LAMBDA u:
              WalkPath(u, Tail(path), child, IF parent = "root" THEN "p2" ELSE parent, what))
WalkPath(t, path, parent, child, what) ==
    Step(Callback(t, what, parent, path[1], Len(path) = 1), path, parent, child, what)

\* getParentDir(): ret is the handle of the directory that holds the last component.
RECURSIVE Descend(_, _, _, _)
Descend(t, path, parent, sub) ==
    IF Len(path) < 2 THEN Ret(t, parent)
    ELSE Then(IF IsOpen(t.h[parent]) THEN Open(Close(t, sub), sub, parent, path[1], {"R"}) ELSE Bad(t),
              LAMBDA u: Descend(Ok(Close(u, parent)), Tail(path), sub, parent))

\* SDClass::open(); a FILE_WRITE file is positioned at its end.
SdOpen(t, f, path, mode) ==
    Then(Descend(OpenRoot(t, "p1"), path, "p1", "p2"), LAMBDA u:
    LET d == u.ret IN
    IF path = <<>> THEN [u EXCEPT !.h[f] = u.h[d]]
    ELSE IF ~IsOpen(u.h[d]) THEN Bad(u)
    ELSE Then(Open(Fresh(u, f), f, d, Last1(path), mode), LAMBDA w:
         LET v == Close(w, d) IN
         Ok(IF {"APPEND", "W"} \subseteq mode THEN SeekSet(v, f, v.h[f].size) ELSE v)))

\* File::close() forgets the SdFile whether or not it could be saved.
FileClose(t, f) == Fresh(Close(t, f), f)

\* File::peek()
Peek(t, f) ==
    Then(Read(t, f, 1), LAMBDA u: IF u.out = <<>> THEN u ELSE SeekSet(u, f, u.h[f].pos - 1))

\* File::available()
Available(f) == IF IsOpen(s.h[f]) THEN (s.h[f].size - s.h[f].pos) % Wrap ELSE 0

\* File::openNextFile()
OpenNextFile(t, f, g) ==
    Then(ReadDir(t, f), LAMBDA u:
         IF u.out = <<>> THEN Bad(u) ELSE Open(Fresh(u, g), g, f, u.out[1].name, FILE_READ))

\* SDClass::begin(), with the memory a reset leaves
Begin(card) ==
    [card |-> card, cbn |-> Invalid, buf |-> card[1], dirty |-> FALSE, mirror |-> 0, search |-> 2,
     ok |-> TRUE, ret |-> 0, out |-> <<>>, left |-> Never, h |-> [f \in Handles |-> Closed]]

-----------------------------------------------------------------------------
(* What is on a card: the files and directories a directory walk finds.     *)

Fat(card, c) == card[FatBlock(c)][c % B].fat

RECURSIVE ChainOf(_, _, _)
ChainOf(card, c, n) ==             \* at most n clusters: a loop ends, too
    IF IsEOC(c) \/ c \notin Clusters \/ n = 0 THEN <<>> ELSE <<c>> \o ChainOf(card, Fat(card, c), n - 1)
Chain(card, c) == ChainOf(card, c, ClusterCount + 1)

UnitsOf(card, c) ==                \* the units of a chain, with their places
    LET q == Chain(card, c) IN
    [i \in 1 .. Len(q) * ClusterUnits |->
        [block |-> ClusterStartBlock(q[(i - 1) \div ClusterUnits + 1]) + ((i - 1) % ClusterUnits) \div B,
         index |-> (i - 1) % B]]

RootUnits(card) ==
    IF FatType = 32 THEN UnitsOf(card, RootCluster)
    ELSE [i \in 1 .. RootBlocks * B |-> [block |-> RootDirStart + (i - 1) \div B, index |-> (i - 1) % B]]

EntryAt(card, u) == card[u.block][u.index]
\* The name a unit has for a directory search; data that is taken for an entry is "garbage".
NameAt(card, u) == LET x == EntryAt(card, u) IN IF "name" \in DOMAIN x THEN x.name ELSE "garbage"

EndOf(card, units) ==              \* a search ends at the first free entry
    CHOOSE n \in 0 .. Len(units) :
        /\ \A i \in 1 .. n : NameAt(card, units[i]) # "free"
        /\ n = Len(units) \/ NameAt(card, units[n + 1]) = "free"
UsedOf(card, units) ==
    {units[i] : i \in {j \in 1 .. EndOf(card, units) : NameAt(card, units[j]) \notin {"deleted", ".", "garbage"}}}
Clear(card, units) == \A i \in 1 .. EndOf(card, units) : NameAt(card, units[i]) # "garbage"

RECURSIVE EntriesUnder(_, _, _, _)
EntriesUnder(card, path, units, depth) ==
    LET here == UsedOf(card, units) IN
    {[path |-> Append(path, EntryAt(card, u).name), at |-> u] : u \in here}
    \cup (IF depth = 0 THEN {}
          ELSE UNION {EntriesUnder(card, Append(path, EntryAt(card, u).name), UnitsOf(card, EntryAt(card, u).first), depth - 1)
                      : u \in {w \in here : EntryAt(card, w).dir}})
Entries(card) == EntriesUnder(card, <<>>, RootUnits(card), 2)

ContentOf(card, first, size) ==
    LET units == UnitsOf(card, first) IN
    [i \in 1 .. SmallOf(size, Len(units)) |-> EntryAt(card, units[i])]

\* The card with the cached block in its place.
View(t) == IF t.cbn \in Blocks THEN [t.card EXCEPT ![t.cbn] = t.buf] ELSE t.card

HandleAt(t, u) == {f \in Files : IsOpen(t.h[f]) /\ t.h[f].type = "normal" /\ t.h[f].block = u.block /\ t.h[f].index = u.index}

\* First cluster and size of an entry: those of the open File, if there is one.
ObjectAt(t, u) ==
    LET fs == HandleAt(t, u) IN
    IF fs # {} THEN LET f == t.h[CHOOSE f \in fs : TRUE] IN [first |-> f.first, size |-> f.size, dir |-> FALSE]
    ELSE LET p == EntryAt(View(t), u) IN [first |-> p.first, size |-> p.size, dir |-> p.dir]

\* Every chain ends, is long enough, and shares no cluster with another; directories hold entries.
Sound(t) ==
    LET v == View(t)
        objs == {[at |-> e.at, o |-> ObjectAt(t, e.at)] : e \in Entries(v)}
        ChainAt(x) == Chain(v, x.o.first)
        Good(x) == LET q == ChainAt(x) IN
            IF x.o.first = 0 THEN x.o.size = 0 /\ ~x.o.dir
            ELSE /\ q # <<>> /\ IsEOC(Fat(v, q[Len(q)]))
                 /\ Len(q) * ClusterUnits >= x.o.size
                 /\ FatType = 32 => \A i \in 1 .. Len(q) : q[i] # RootCluster
        Set(x) == LET q == ChainAt(x) IN {q[i] : i \in 1 .. Len(q)}
    IN /\ \A x \in objs : Good(x) /\ (x.o.dir => Clear(v, UnitsOf(v, x.o.first)))
       /\ \A x, y \in objs : x # y => Set(x) \cap Set(y) = {}

-----------------------------------------------------------------------------
(* A call: what it is, its File, its path and its argument.                *)

Call(op, f, path, arg) == [op |-> op, f |-> f, path |-> path, arg |-> arg]
Parent(p) == SubSeq(p, 1, Len(p) - 1)
Under(p, q) == Len(q) >= Len(p) /\ SubSeq(q, 1, Len(p)) = p
None == [kind |-> "none", data |-> <<>>]
File(d) == [kind |-> "file", data |-> d]
Unknown == [kind |-> "unknown", data |-> <<>>]

\* Where a write begins.
WriteAt(c) == IF "APPEND" \in s.h[c.f].flags THEN s.h[c.f].size ELSE s.h[c.f].pos
Overwrite(d, at, src) ==
    [i \in 1 .. (IF at + Len(src) > Len(d) THEN at + Len(src) ELSE Len(d)) |->
        IF i \in at + 1 .. at + Len(src) THEN src[i - at] ELSE d[i]]

\* The files after a call that answered ok.
Effect(c, ok, p) ==
    LET q == IF c.f \in Files THEN opened[c.f] ELSE c.path
        old == now[p]
    IN CASE c.op = "open" /\ p = c.path /\ ok /\ (old = None \/ "TRUNC" \in c.arg) -> File(<<>>)
         [] c.op = "write" /\ p = q /\ old.kind = "file" ->
                IF ok THEN File(Overwrite(old.data, WriteAt(c), c.arg))
                ELSE IF "W" \in s.h[c.f].flags THEN Unknown ELSE old
         [] c.op = "truncate" /\ p = q /\ old.kind = "file" ->
                IF ok THEN File(SubSeq(old.data, 1, c.arg)) ELSE old
         [] c.op = "mkdir" /\ Under(p, c.path) /\ old = None -> IF ok THEN [None EXCEPT !.kind = "dir"] ELSE Unknown
         [] c.op \in {"remove", "rmdir"} /\ p = c.path /\ ok -> None
         [] c.op = "empty" /\ Under(q, p) -> IF ok THEN None ELSE Unknown
         [] c.op = "contiguous" /\ p = c.path -> IF ok THEN Unknown ELSE old
         [] OTHER -> old

\* The part of a file that must be found after a power cut in the call.
Held(c, p) ==
    LET q == IF c.f \in Files THEN opened[c.f] ELSE c.path IN
    CASE c.op = "open" /\ p = c.path /\ "TRUNC" \in c.arg -> None
      [] c.op = "write" /\ p = q -> [kept[p] EXCEPT !.data = SubSeq(@, 1, SmallOf(Len(@), WriteAt(c)))]
      [] c.op = "truncate" /\ p = q -> None
      [] c.op = "remove" /\ p = c.path -> None
      [] c.op = "empty" /\ Under(q, p) -> None
      [] OTHER -> kept[p]

Saves(c) == c.op \in {"flush", "close"} \/ (c.op = "write" /\ "SYNC" \in s.h[c.f].flags)

Kept(c, ok, p) ==
    LET new == Effect(c, ok, p) IN
    CASE c.op = "open" /\ p = c.path /\ ok /\ (now[p] = None \/ "TRUNC" \in c.arg) -> new
      [] c.op = "truncate" /\ p = opened[c.f] /\ ok -> new
      [] Saves(c) /\ p = opened[c.f] /\ ok /\ new.kind = "file" -> new
      [] OTHER -> Held(c, p)

\* What a call should have answered, as far as the files determine it.
Expected(c) ==
    CASE c.op = "read" /\ now[opened[c.f]].kind = "file" ->
            LET d == now[opened[c.f]].data
                pos == s.h[c.f].pos IN SubSeq(d, pos + 1, SmallOf(Len(d), pos + c.arg))
      [] c.op = "peek" /\ now[opened[c.f]].kind = "file" ->
            LET d == now[opened[c.f]].data
                pos == s.h[c.f].pos IN SubSeq(d, pos + 1, SmallOf(Len(d), pos + 1))
      [] OTHER -> <<>>

Stuck == s.dirty /\ s.cbn = Invalid

\* Objects that go out of scope at the end of a call.
Clean(t) == [t EXCEPT !.h = [f \in Handles |-> IF f \in Files \cup {"root"} /\ IsOpen(t.h[f]) THEN t.h[f] ELSE Closed],
                      !.ret = 0, !.out = <<>>, !.ok = TRUE, !.left = Never]

\* The call c has run and left the state t.
Returned(c, t) ==
    /\ s' = Clean(t)
    /\ now' = [p \in Paths |-> Effect(c, t.ok, p)]
    /\ kept' = [p \in Paths |-> Kept(c, t.ok, p)]
    /\ res' = [op |-> c.op, ok |-> t.ok, got |-> t.out, want |-> Expected(c),
               there |-> IF c.op = "exists" THEN now[c.path].kind ELSE "none", stuck |-> Stuck]
    /\ opened' = [f \in Files |->
                    IF c.op \in {"open", "contiguous"} /\ f = c.f /\ t.ok THEN c.path
                    ELSE IF c.op = "next" /\ f = c.arg /\ t.ok
                    THEN Append(opened[c.f], EntryAt(View(t), [block |-> t.h[f].block, index |-> t.h[f].index]).name)
                    ELSE IF IsOpen(t.h[f]) THEN opened[f] ELSE NotOpen]
    /\ UNCHANGED power

\* What the card holds at a path.
OnCard(t, p) ==
    LET found == {EntryAt(t.card, e.at) : e \in {x \in Entries(t.card) : x.path = p}}
        e == CHOOSE e \in found : TRUE
    IN IF found = {} THEN None
       ELSE IF e.dir THEN [None EXCEPT !.kind = "dir"] ELSE File(ContentOf(t.card, e.first, e.size))

\* The library starts with the card that the power cut in the call c has left.
Restarted(c, t, sound) ==
    /\ s' = Clean(t)
    /\ power' = IF sound THEN "cut" ELSE "hurt"
    /\ kept' = [p \in Paths |-> Held(c, p)]
    /\ now' = [p \in Paths |-> IF sound THEN OnCard(t, p) ELSE Unknown]
    /\ opened' = [f \in Files |-> NotOpen]
    /\ res' = [op |-> "cut", ok |-> TRUE, got |-> <<>>, want |-> <<>>, there |-> "none", stuck |-> FALSE]
Boot(card) == OpenRoot(Begin(card), "root")
RestartedWith(c, t) == Restarted(c, t, Sound(t))
CutAfter(c, t) == t.left = 0 /\ RestartedWith(c, Boot(t.card))

\* The call c, which Run computes, returns; or the power is cut in it, once.
Do(c, Run(_)) ==
    calls < MaxCalls /\ power # "hurt" /\ calls' = calls + 1 /\ Returned(c, Run(s))
Cut(c, Run(_)) ==
    /\ calls < MaxCalls /\ power = "steady" /\ calls' = calls + 1
    /\ \E n \in 0 .. MaxAccesses : CutAfter(c, Run([s EXCEPT !.left = n]))
Happens(c, Run(_)) == Do(c, Run) \/ Cut(c, Run)

Unused(p) == \A f \in Files : opened[f] # p
\* A sketch names a file below directories only, and creates no file where a directory is to be.
Sensible(p, m) == /\ \A q \in Paths : Under(q, p) /\ q # p => now[q].kind \in {"none", "dir"}
                  /\ p \in Dirs => "CREAT" \notin m

OpenFile == \E f \in Files, p \in Paths \cup {<<>>}, m \in Modes :
    opened[f] = NotOpen /\ Unused(p) /\ Sensible(p, m) /\ Happens(Call("open", f, p, m), LAMBDA t: SdOpen(t, f, p, m))
WriteFile == \E f \in Files, w \in Writes :
    opened[f] # NotOpen /\ Happens(Call("write", f, <<>>, w), LAMBDA t: Write(t, f, w))
ReadFile == \E f \in Files, n \in 1 .. ClusterUnits + 1 :
    opened[f] # NotOpen /\ ~IsDir(s.h[f]) /\ Do(Call("read", f, <<>>, n), LAMBDA t: Read(t, f, n))
PeekFile == \E f \in Files :
    opened[f] # NotOpen /\ ~IsDir(s.h[f]) /\ Do(Call("peek", f, <<>>, 1), LAMBDA t: Peek(t, f))
Seek == \E f \in Files, n \in 0 .. 2 * ClusterUnits :
    opened[f] # NotOpen /\ ~IsDir(s.h[f]) /\ Do(Call("seek", f, <<>>, n), LAMBDA t: SeekSet(t, f, n))
FlushFile == \E f \in Files :
    opened[f] # NotOpen /\ Happens(Call("flush", f, <<>>, 0), LAMBDA t: Sync(t, f, TRUE))
CloseFile == \E f \in Files :
    opened[f] # NotOpen /\ Happens(Call("close", f, <<>>, 0), LAMBDA t: FileClose(t, f))
Room == \E f \in Files, busy \in BOOLEAN :
    opened[f] # NotOpen /\ Happens(Call("room", f, <<>>, busy), LAMBDA t: AvailableForWrite(t, f, busy))
TruncateFile == \E f \in Files, n \in 0 .. ClusterUnits :
    opened[f] # NotOpen /\ Happens(Call("truncate", f, <<>>, n), LAMBDA t: Truncate(t, f, n))
NextFile == \E f, g \in Files :
    /\ opened[f] # NotOpen /\ IsDir(s.h[f]) /\ opened[g] = NotOpen
    /\ \A p \in Paths : Parent(p) = opened[f] => Unused(p)
    /\ Do(Call("next", f, <<>>, g), LAMBDA t: OpenNextFile(t, f, g))
RewindDir == \E f \in Files :
    opened[f] # NotOpen /\ IsDir(s.h[f]) /\ Do(Call("rewind", f, <<>>, 0), LAMBDA t: Rewind(t, f))
EmptyDir == \E f \in Files :
    /\ opened[f] # NotOpen /\ IsDir(s.h[f])
    /\ \A p \in Paths : Under(opened[f], p) /\ p # opened[f] => Unused(p)
    /\ Happens(Call("empty", f, <<>>, 0), LAMBDA t: RmRfStar(t, f, 1))
Contiguous == \E f \in Files, p \in Paths \ Dirs, n \in {1, 2 * ClusterUnits} :
    /\ opened[f] = NotOpen /\ Len(p) = 1 /\ Unused(p)
    /\ Happens(Call("contiguous", f, p, n), LAMBDA t: CreateContiguous(t, f, "root", p[1], n))
ByPath(op, p) == Happens(Call(op, "root", p, 0), LAMBDA t: WalkPath(t, p, "root", "p1", op))
Exists     == \E p \in Paths : ByPath("exists", p)
MkDir      == \E p \in Dirs : ByPath("mkdir", p)
RmDirPath  == \E p \in Dirs : Unused(p) /\ ByPath("rmdir", p)
RemoveFile == \E p \in Paths \ Dirs : Unused(p) /\ ByPath("remove", p)

\* A card as it comes from the computer: formatted and empty.
Formatted ==
    [b \in Blocks |-> [i \in 0 .. B - 1 |->
        IF b < FatStartBlock + 2 * BlocksPerFat
        THEN LET c == ((b - FatStartBlock) % BlocksPerFat) * B + i IN
             [fat |-> IF c < 2 \/ (FatType = 32 /\ c = RootCluster) THEN EOC ELSE 0]
        ELSE FreeEntry]]

Init ==
    /\ \E card \in Cards : s = Clean(OpenRoot(Begin(card), "root"))
    /\ now = [p \in Paths |-> OnCard(s, p)] /\ kept = now
    /\ res = [op |-> "begin", ok |-> TRUE, got |-> <<>>, want |-> <<>>, there |-> "none", stuck |-> FALSE]
    /\ opened = [f \in Files |-> NotOpen] /\ power = "steady" /\ calls = 0

Next == \/ OpenFile \/ WriteFile \/ ReadFile \/ PeekFile \/ Seek \/ FlushFile \/ CloseFile
        \/ Room \/ TruncateFile \/ NextFile \/ RewindDir \/ EmptyDir \/ Contiguous
        \/ Exists \/ MkDir \/ RmDirPath \/ RemoveFile
Spec == Init /\ [][Next]_vars
-----------------------------------------------------------------------------
\* Whatever the order of calls, a read that succeeds returns what the writes before it
\* have put at its place, and exists() tells what is there (SdFile::read, SD.exists).
AnswersRight ==
    /\ res.op \in {"read", "peek"} /\ res.ok /\ res.want # <<>> => res.got = res.want
    /\ res.op = "exists" /\ ~res.stuck /\ res.there # "unknown" => res.ok = (res.there # "none")

\* The chains of all files and directories end, are long enough and do not meet, on the
\* card with the cache in its place, as long as no release of clusters was cut short.
ChainsSound == power = "hurt" \/ Sound(s)

\* What a close(), a flush() or an O_SYNC write has saved is on the card, and stays there
\* when the power is cut in any later call that does not overwrite or release it.
SavedSurvives ==
    \A p \in Paths : kept[p].kind = "file" =>
        \E e \in Entries(s.card) : e.path = p /\
            LET x == EntryAt(s.card, e.at)
                d == ContentOf(s.card, x.first, x.size)
            IN Len(d) >= Len(kept[p].data) /\ SubSeq(d, 1, Len(kept[p].data)) = kept[p].data

\* Without a power cut the two copies of the FAT differ at most in the block that waits
\* in the cache (SdVolume::fatPut, cacheFlush, cacheMirrorBlockFlush).
FatCopiesAgree ==
    power = "steady" => \A b \in FatStartBlock .. FatStartBlock + BlocksPerFat - 1 :
        s.card[b] = s.card[b + BlocksPerFat] \/ (s.dirty /\ s.cbn = b /\ (s.mirror = b + BlocksPerFat
                                                                       \/ s.card[b + BlocksPerFat] = s.buf))

(* Not true of this code (README, known disagreements). *)

\* "Reasons for failure include no file is open or an I/O error" (SdFile.cpp, lines 80-83):
\* close() of an open file on a sound card saves it.
CloseSaves == res.op = "close" => res.ok

\* "Returns true if the supplied file path exists" (SD.cpp, line 539); not in a FAT32 root
\* directory that has grown by a cluster since it was opened.
ExistsIfThere == res.op = "exists" /\ ~res.stuck /\ res.there \in {"file", "dir"} => res.ok

\* "The directory entry and all data for the file are deleted" (SdFile.cpp, line 898), also
\* what a write that failed half-way had allocated for a file still empty (on FAT16, whose
\* root directory has no clusters).
RemoveGivesBack ==
    FatType = 16 /\ power = "steady" => \A c \in Clusters : Fat(View(s), c) # 0 =>
        \E e \in Entries(View(s)) : LET q == Chain(View(s), ObjectAt(s, e.at).first) IN \E i \in 1 .. Len(q) : q[i] = c
=============================================================================
