------------------------------- MODULE SdFile -------------------------------
(***************************************************************************)
(* SD/src/utility/SdFile.cpp: files and directories on top of SdVolume.    *)
(* s.h holds the SdFile objects; every method takes the state and the      *)
(* object's name.  Positions and sizes count units; a directory entry and  *)
(* a piece of data are one unit each.                                      *)
(***************************************************************************)
EXTENDS SdVolume

\* type_, flags_, firstCluster_, curCluster_, curPosition_, fileSize_, dirBlock_, dirIndex_
Closed == [type |-> "closed", flags |-> {}, first |-> 0, cur |-> 0, pos |-> 0, size |-> 0,
           block |-> 0, index |-> 0]

IsOpen(f)   == f.type # "closed"
IsDir(f)    == f.type \in {"root16", "root32", "subdir"}
IsRoot(f)   == f.type \in {"root16", "root32"}

Wrap == 64                         \* 2^32 for the difference of two positions
SmallOf(a, b) == IF a < b THEN a ELSE b
WithFlag(s, f, x) == [s EXCEPT !.h[f].flags = @ \cup {x}]
SetCur(s, f, c) == [s EXCEPT !.h[f].cur = c, !.ok = TRUE]
Rewind(s, f) == [s EXCEPT !.h[f].cur = 0, !.h[f].pos = 0, !.ok = TRUE]

AddCluster(s, f) ==
    Then(AllocContiguous(s, 1, s.h[f].cur), LAMBDA t:
         [t EXCEPT !.h[f].cur = t.ret,
                   !.h[f].first = IF @ = 0 THEN t.ret ELSE @,
                   !.h[f].flags = @ \cup {"ADDED"} \cup (IF t.h[f].first = 0 THEN {"DIRTY"} ELSE {})])

RECURSIVE ZeroBlocks(_, _, _)
ZeroBlocks(s, b, i) ==
    IF i = 0 THEN s ELSE Then(CacheZeroBlock(s, b + i - 1), LAMBDA t: ZeroBlocks(t, b, i - 1))

AddDirCluster(s, f) ==
    Then(Then(AddCluster(s, f),
              LAMBDA t: ZeroBlocks(t, ClusterStartBlock(t.h[f].cur), ClusterBlocks)),
         LAMBDA t: [t EXCEPT !.h[f].size = @ + ClusterUnits])

CacheDirEntry(s, f, write) == CacheRawBlock(s, s.h[f].block, write)

-----------------------------------------------------------------------------
\* Mutant: a changed size alone does not make it to the directory.
SyncFirstOnly(s, f, blocking) ==
    LET o == s.h[f]
        entry == IF "DIRTY" \notin o.flags THEN Ok(s)
                 ELSE Then(CacheDirEntry(s, f, TRUE), LAMBDA t:
                      [t EXCEPT !.buf[o.index].first = o.first,
                                !.h[f].flags = @ \ {"DIRTY"}])
    IN IF ~IsOpen(o) THEN Bad(s)
       ELSE Then(entry, LAMBDA t:
            CacheFlush(IF blocking THEN t ELSE [t EXCEPT !.h[f].flags = @ \ {"NONBLOCK"}], blocking))

\* Writes the directory entry, if it changed, and the cache.
Sync(s, f, blocking) ==
    LET o == s.h[f]
        entry == IF "DIRTY" \notin o.flags THEN Ok(s)
                 ELSE Then(CacheDirEntry(s, f, TRUE), LAMBDA t:
                      [t EXCEPT !.buf[o.index].size = IF IsDir(o) THEN @ ELSE o.size,
                                !.buf[o.index].first = o.first,
                                !.h[f].flags = @ \ {"DIRTY"}])
    IN IF ~IsOpen(o) THEN Bad(s)
       ELSE Then(entry, LAMBDA t:
            CacheFlush(IF blocking THEN t ELSE [t EXCEPT !.h[f].flags = @ \ {"NONBLOCK"}], blocking))

Close(s, f) == Then(Sync(s, f, TRUE), LAMBDA t: [t EXCEPT !.h[f].type = "closed"])

-----------------------------------------------------------------------------
RECURSIVE Follow(_, _, _)
Follow(s, f, n) ==
    IF n = 0 THEN Ok(s)
    ELSE Then(FatGet(s, s.h[f].cur), LAMBDA t: Follow(SetCur(t, f, t.ret), f, n - 1))

SeekSet(s, f, pos) ==
    LET o == s.h[f]
        nCur == (o.pos - 1) \div ClusterUnits
        nNew == (pos - 1) \div ClusterUnits
        fromStart == o.pos = 0 \/ nNew < nCur
        start == IF fromStart THEN SetCur(s, f, o.first) ELSE s
    IN IF ~IsOpen(o) \/ pos > o.size THEN Bad(s)
       ELSE IF o.type = "root16" THEN [Ok(s) EXCEPT !.h[f].pos = pos]
       ELSE IF pos = 0 THEN Rewind(s, f)
       ELSE Then(Follow(start, f, IF fromStart THEN nNew ELSE nNew - nCur),
                 LAMBDA t: [t EXCEPT !.h[f].pos = pos])

-----------------------------------------------------------------------------
\* The block that holds the current position; curCluster_ moves on at the start of a cluster.
Locate(s, f) ==
    LET o == s.h[f]
        atStart == o.pos % B = 0 /\ BlockOfCluster(o.pos) = 0
        moved == IF ~atStart THEN Ok(s)
                 ELSE IF o.pos = 0 THEN SetCur(s, f, o.first)
                 ELSE Then(FatGet(s, o.cur), LAMBDA t: SetCur(t, f, t.ret))
    IN IF o.type = "root16" THEN Ret(s, RootDirStart + o.pos \div B)
       ELSE Then(moved, LAMBDA t: Ret(t, ClusterStartBlock(t.h[f].cur) + BlockOfCluster(o.pos)))

\* A whole block goes to the caller without the cache, unless it is in the cache.
RECURSIVE ReadLoop(_, _, _)
ReadLoop(s, f, toRead) ==
    LET offset == s.h[f].pos % B
        n == SmallOf(toRead, B - offset)
        Fetch(t) == IF n = B /\ t.ret # t.cbn
                    THEN Then(Access(t, t.ret), LAMBDA u: [u EXCEPT !.out = @ \o [i \in 1 .. n |-> u.card[t.ret][i - 1]]])
                    ELSE Then(CacheRawBlock(t, t.ret, FALSE),
                              LAMBDA u: [u EXCEPT !.out = @ \o [i \in 1 .. n |-> u.buf[offset + i - 1]]])
    IN IF toRead = 0 THEN Ok(s)
       ELSE Then(Then(Locate(s, f), Fetch),
                 LAMBDA t: ReadLoop([t EXCEPT !.h[f].pos = @ + n], f, toRead - n))

\* read(): out is what the caller's buffer holds afterwards.
Read(s, f, nbyte) ==
    LET o == s.h[f]
        n == SmallOf(nbyte, (o.size - o.pos) % Wrap)
    IN IF ~IsOpen(o) \/ "R" \notin o.flags THEN Bad([s EXCEPT !.out = <<>>])
       ELSE ReadLoop([s EXCEPT !.out = <<>>], f, n)

\* readDirCache(): the entry at the position, in the cache; ret is its index there.
ReadDirCache(s, f) ==
    LET i == s.h[f].pos % B IN
    IF ~IsDir(s.h[f]) THEN Bad(s)
    ELSE Then(Read(s, f, 1), LAMBDA t: IF t.out = <<>> THEN Bad(t) ELSE Ret(t, i))

RECURSIVE ReadDir(_, _)
ReadDir(s, f) ==                   \* out: the next used entry, or nothing
    IF ~IsDir(s.h[f]) THEN Bad(s)
    ELSE LET t == Read(s, f, 1) IN
         IF ~t.ok \/ t.out = <<>> THEN t
         ELSE IF t.out[1].name = "free" THEN [t EXCEPT !.out = <<>>]
         ELSE IF t.out[1].name \in {"deleted", "."} THEN ReadDir(t, f)
         ELSE t

-----------------------------------------------------------------------------
\* Mutant: the shortened file keeps the link to what was freed.
TruncateKeepsLink(s, f, length) ==
    LET o == s.h[f]
        newPos == SmallOf(o.pos, length)
        FreeAll(t) == FreeChain(t, o.first)
        FreeRest(t) ==
            Then(FatGet(t, t.h[f].cur), LAMBDA u:
                 IF IsEOC(u.ret) THEN u ELSE FreeChain(u, u.ret))
    IN IF o.type # "normal" \/ "W" \notin o.flags \/ length > o.size THEN Bad(s)
       ELSE IF o.size = 0 THEN Ok(s)
       ELSE Then(Then(SeekSet(s, f, length), LAMBDA t: IF length = 0 THEN FreeAll(t) ELSE FreeRest(t)),
                 LAMBDA t: Then(Sync(WithFlag([t EXCEPT !.h[f].size = length], f, "DIRTY"), f, TRUE),
                                LAMBDA u: SeekSet(u, f, newPos)))

\* truncate(): frees the chain behind the new end, then rewrites the directory entry.
Truncate(s, f, length) ==
    LET o == s.h[f]
        newPos == SmallOf(o.pos, length)
        FreeAll(t) == Then(FreeChain(t, o.first), LAMBDA u: [u EXCEPT !.h[f].first = 0])
        FreeRest(t) ==
            Then(FatGet(t, t.h[f].cur), LAMBDA u:
                 IF IsEOC(u.ret) THEN u
                 ELSE Then(FreeChain(u, u.ret), LAMBDA w: FatPut(w, w.h[f].cur, EOC)))
    IN IF o.type # "normal" \/ "W" \notin o.flags \/ length > o.size THEN Bad(s)
       ELSE IF o.size = 0 THEN Ok(s)
       ELSE Then(Then(SeekSet(s, f, length), LAMBDA t: IF length = 0 THEN FreeAll(t) ELSE FreeRest(t)),
                 LAMBDA t: Then(Sync(WithFlag([t EXCEPT !.h[f].size = length], f, "DIRTY"), f, TRUE),
                                LAMBDA u: SeekSet(u, f, newPos)))

Remove(s, f) ==
    Then(Then(Then(Truncate(s, f, 0), LAMBDA t: CacheDirEntry(t, f, TRUE)),
              LAMBDA t: [t EXCEPT !.buf[t.h[f].index].name = "deleted", !.h[f].type = "closed"]),
         LAMBDA t: CacheFlush(t, TRUE))

-----------------------------------------------------------------------------
OpenCachedEntry(s, f, index, oflag) ==
    LET p == s.buf[index]
        o == [Closed EXCEPT !.block = s.cbn, !.index = index, !.first = p.first,
                            !.flags = oflag \cap {"R", "W", "SYNC", "APPEND"}]
        opened == IF ~p.dir
                  THEN [Ok(s) EXCEPT !.h[f] = [o EXCEPT !.type = "normal", !.size = p.size]]
                  ELSE Then(ChainSize(s, p.first, 0),
                            LAMBDA t: [t EXCEPT !.h[f] = [o EXCEPT !.type = "subdir", !.size = t.ret]])
    IN IF p.dir /\ oflag \cap {"W", "TRUNC"} # {} THEN Bad(s)
       ELSE Then(opened, LAMBDA t: IF "TRUNC" \in oflag THEN Truncate(t, f, 0) ELSE t)

\* Takes the empty slot found, or one in a new cluster of the directory, and flushes it.
CreateEntry(s, f, d, name, oflag, found) ==
    LET slot == IF found THEN CacheDirEntry(s, f, TRUE)
                ELSE IF s.h[d].type = "root16" THEN Bad(s)
                ELSE Then(AddDirCluster(s, d), LAMBDA t: [t EXCEPT !.h[f].index = 0])
    IN Then(Then(slot, LAMBDA t: CacheFlush([t EXCEPT !.buf[t.h[f].index] = [FreeEntry EXCEPT !.name = name]], TRUE)),
            LAMBDA t: OpenCachedEntry(t, f, t.h[f].index, oflag))

RECURSIVE Search(_, _, _, _, _, _)
Search(s, f, d, name, oflag, found) ==
    LET Slot(t) ==                 \* remembers the first empty slot
            IF found \/ t.buf[t.ret].name \notin {"free", "deleted"} THEN t
            ELSE [t EXCEPT !.h[f].index = t.ret, !.h[f].block = t.cbn]
        atEnd == s.h[d].pos >= s.h[d].size
    IN Then(IF atEnd THEN Ret(s, 0) ELSE ReadDirCache(s, d), LAMBDA t:
       LET here == IF atEnd THEN "end" ELSE t.buf[t.ret].name IN
       IF here \in {"end", "free"}
       THEN IF {"CREAT", "W"} \subseteq oflag
            THEN CreateEntry(IF atEnd THEN t ELSE Slot(t), f, d, name, oflag, found \/ ~atEnd) ELSE Bad(t)
       ELSE IF here = name
       THEN IF {"CREAT", "EXCL"} \subseteq oflag THEN Bad(t) ELSE OpenCachedEntry(t, f, t.ret, oflag)
       ELSE Search(Slot(t), f, d, name, oflag, found \/ here = "deleted"))

Open(s, f, d, name, oflag) ==
    IF IsOpen(s.h[f]) THEN Bad(s) ELSE Search(Rewind(s, d), f, d, name, oflag, FALSE)

OpenIndex(s, f, d, index, oflag) ==
    IF IsOpen(s.h[f]) \/ {"CREAT", "EXCL"} \subseteq oflag THEN Bad(s)
    ELSE Then(Then(SeekSet(s, d, index), LAMBDA t: ReadDirCache(t, d)), LAMBDA t:
         IF t.buf[t.ret].name \in {"free", "deleted", "."} THEN Bad(t)
         ELSE OpenCachedEntry(t, f, t.ret, oflag))

OpenRoot(s, f) ==
    LET o == [Closed EXCEPT !.flags = {"R"}] IN
    IF IsOpen(s.h[f]) THEN Bad(s)
    ELSE IF FatType = 16
    THEN [Ok(s) EXCEPT !.h[f] = [o EXCEPT !.type = "root16", !.size = RootBlocks * B]]
    ELSE Then(ChainSize(s, RootCluster, 0),
              LAMBDA t: [t EXCEPT !.h[f] = [o EXCEPT !.type = "root32", !.first = RootCluster, !.size = t.ret]])

-----------------------------------------------------------------------------
\* makeDir(): an empty file first, made a directory when it has its cluster.
MakeDir(s, f, d, name) ==
    LET Empty(t) == [t EXCEPT !.h[f].flags = {"R"}, !.h[f].type = "subdir"]
        Entry(t) == Then(CacheDirEntry(t, f, TRUE), LAMBDA u: [u EXCEPT !.buf[u.h[f].index].dir = TRUE])
        Dots(t) ==
            LET dot == [t.buf[t.h[f].index] EXCEPT !.name = "."] IN
            Then(CacheRawBlock(t, ClusterStartBlock(t.h[f].first), TRUE), LAMBDA u:
                 [u EXCEPT !.buf[0] = dot, !.h[f].pos = 2,
                           !.buf[1] = [dot EXCEPT !.first = IF IsRoot(u.h[d]) THEN 0 ELSE u.h[d].first]])
    IN Then(Then(Then(Then(Then(Open(s, f, d, name, {"CREAT", "EXCL", "R", "W"}),
                 LAMBDA t: AddDirCluster(Empty(t), f)),
                 LAMBDA t: Sync(t, f, TRUE)), Entry), Dots),
            LAMBDA t: CacheFlush(t, TRUE))

RECURSIVE HasEntries(_, _)
HasEntries(s, f) ==                \* ret: whether a used entry follows the position
    IF s.h[f].pos >= s.h[f].size THEN Ret(s, FALSE)
    ELSE Then(ReadDirCache(s, f), LAMBDA t:
         LET name == t.buf[t.ret].name IN
         IF name = "free" THEN Ret(t, FALSE)
         ELSE IF name \in {"deleted", "."} THEN HasEntries(t, f)
         ELSE Ret(t, TRUE))

RmDir(s, f) ==
    IF s.h[f].type # "subdir" THEN Bad(s)
    ELSE Then(HasEntries(Rewind(s, f), f), LAMBDA t:
         IF t.ret THEN Bad(t)
         ELSE Remove(WithFlag([t EXCEPT !.h[f].type = "normal"], f, "W"), f))

\* rmRfStar(): removes what a directory holds, entry by entry, then the directory.
\* n tells the SdFile objects of the levels of the recursion apart.
Nested(n) == IF n = 1 THEN "g1" ELSE "g2"
RECURSIVE RmRfStar(_, _, _), RemoveAll(_, _, _)
RemoveAll(s, f, n) ==
    IF s.h[f].pos >= s.h[f].size THEN Ok(s)
    ELSE LET index == s.h[f].pos
             g == Nested(n) IN
         Then(ReadDirCache(s, f), LAMBDA t:
         LET p == t.buf[t.ret]
             One(u) == IF u.h[g].type = "subdir" THEN RmRfStar(u, g, n + 1) ELSE Remove(WithFlag(u, g, "W"), g)
             Back(u) == IF u.h[f].pos = index + 1 THEN Ok(u) ELSE SeekSet(u, f, index + 1)
         IN IF p.name = "free" THEN t
            ELSE IF p.name \in {"deleted", "."} THEN RemoveAll(t, f, n)
            ELSE Then(Then(Then(OpenIndex([t EXCEPT !.h[g] = Closed], g, f, index, {"R"}), One), Back),
                      LAMBDA u: RemoveAll(u, f, n)))

RmRfStar(s, f, n) ==
    Then(RemoveAll(Rewind(s, f), f, n), LAMBDA t: IF IsRoot(t.h[f]) THEN t ELSE RmDir(t, f))

-----------------------------------------------------------------------------
\* The cluster to write to: the first, the next, or a new one behind the last.
WriteCluster(s, f) ==
    LET o == s.h[f] IN
    IF o.pos % B # 0 \/ BlockOfCluster(o.pos) # 0 THEN Ok(s)
    ELSE IF o.cur = 0 THEN IF o.first = 0 THEN AddCluster(s, f) ELSE SetCur(s, f, o.first)
    ELSE Then(FatGet(s, o.cur), LAMBDA t: IF IsEOC(t.ret) THEN AddCluster(t, f) ELSE SetCur(t, f, t.ret))

\* A whole block goes to the card directly; the cached copy is forgotten, its dirty mark is not.
PutWhole(s, f, block, src) ==
    WriteBlock(IF s.cbn = block THEN [s EXCEPT !.cbn = Invalid] ELSE s, block, [i \in 0 .. B - 1 |-> src[i + 1]])

PutPart(s, f, block, src, n) ==
    LET offset == s.h[f].pos % B
        cached == IF offset = 0 /\ s.h[f].pos >= s.h[f].size
                  THEN Then(CacheFlush(s, TRUE), LAMBDA t: [t EXCEPT !.cbn = block, !.dirty = TRUE])
                  ELSE CacheRawBlock(s, block, TRUE)
    IN Then(cached, LAMBDA t:
            [t EXCEPT !.buf = [i \in 0 .. B - 1 |->
                IF i \in offset .. offset + n - 1 THEN src[i - offset + 1] ELSE t.buf[i]]])

RECURSIVE WriteLoop(_, _, _)
WriteLoop(s, f, src) ==
    IF src = <<>> THEN Ok(s)
    ELSE Then(WriteCluster(s, f), LAMBDA t:
         LET o == t.h[f]
             n == SmallOf(B - (o.pos % B), Len(src))
             block == ClusterStartBlock(o.cur) + BlockOfCluster(o.pos)
         IN Then(IF n = B THEN PutWhole(t, f, block, src) ELSE PutPart(t, f, block, src, n),
                 LAMBDA u: WriteLoop([u EXCEPT !.h[f].pos = @ + n], f, SubSeq(src, n + 1, Len(src)))))

\* Mutant: a file opened to append is written where the last read ended.
WriteAtPosition(s, f, src) ==
    LET o == s.h[f]
        Grow(t) == IF t.h[f].pos > t.h[f].size
                   THEN WithFlag([t EXCEPT !.h[f].size = t.h[f].pos], f, "DIRTY") ELSE t
    IN IF o.type # "normal" \/ "W" \notin o.flags THEN Bad(s)
       ELSE Then(Then(WriteLoop(s, f, src), Grow),
                 LAMBDA t: IF "SYNC" \in o.flags THEN Sync(t, f, TRUE) ELSE t)

Write(s, f, src) ==
    LET o == s.h[f]
        Grow(t) == IF t.h[f].pos > t.h[f].size
                   THEN WithFlag([t EXCEPT !.h[f].size = t.h[f].pos], f, "DIRTY") ELSE t
    IN IF o.type # "normal" \/ "W" \notin o.flags THEN Bad(s)
       ELSE Then(Then(Then(IF "APPEND" \in o.flags /\ o.pos # o.size THEN SeekSet(s, f, o.size) ELSE Ok(s),
                           LAMBDA t: WriteLoop(t, f, src)), Grow),
                 LAMBDA t: IF "SYNC" \in o.flags THEN Sync(t, f, TRUE) ELSE t)

\* availableForWrite(): ret is the number of units that fit without waiting for the card.
AvailableForWrite(s, f, busy) ==
    LET o == s.h[f]
        Room(t) ==
            IF busy THEN Ret(t, 0)
            ELSE IF "ADDED" \in t.h[f].flags
            THEN Ret([Sync(t, f, FALSE) EXCEPT !.h[f].flags = @ \ {"ADDED"}], 0)
            ELSE IF t.mirror # 0 THEN Ret(CacheMirrorBlockFlush(t), 0)
            ELSE Ret(WithFlag(t, f, "NONBLOCK"), B - (t.h[f].pos % B))
        t1 == IF "APPEND" \in o.flags /\ o.pos # o.size THEN SeekSet(s, f, o.size) ELSE Ok(s)
    IN IF o.type # "normal" \/ "W" \notin o.flags THEN Ret(s, 0)
       ELSE IF t1.ok THEN Room(t1) ELSE Ret(t1, 0)

CreateContiguous(s, f, d, name, size) ==
    Then(Open(s, f, d, name, {"CREAT", "EXCL", "R", "W"}), LAMBDA t:
    LET a == AllocContiguous(t, (size - 1) \div ClusterUnits + 1, t.h[f].first) IN
    IF ~a.ok THEN Bad(Remove(Ok(a), f))
    ELSE Sync(WithFlag([a EXCEPT !.h[f].first = a.ret, !.h[f].size = size], f, "DIRTY"), f, TRUE))
=============================================================================
