------------------------------ MODULE SdVolume ------------------------------
(***************************************************************************)
(* SD/src/utility/SdVolume.cpp: the one block cache all files share, the   *)
(* two copies of the FAT, and the search for free clusters.                *)
(*                                                                         *)
(* The library is single threaded and a call is a chain of card accesses,  *)
(* so every function is an operator from a state of the card and of the    *)
(* library's memory to the next one.  The field ok is what the C++         *)
(* function returns; left counts the accesses to the card before the power *)
(* is cut.                                                                 *)
(*                                                                         *)
(* A block has B units.  A unit is a FAT entry, a directory entry or a     *)
(* piece of data; the three never share a block at the same time.          *)
(***************************************************************************)
EXTENDS Integers, Sequences, FiniteSets

CONSTANTS
    B,               \* units in a block (512 bytes in the code)
    ClusterCount,    \* clusterCount_: clusters 2 .. ClusterCount + 1
    ClusterBlocks,   \* blocksPerCluster_
    FatType,         \* 16 or 32
    RootBlocks       \* blocks of the FAT16 root directory

ASSUME LayoutAssumption ==
    /\ B \in Nat \ {0} /\ ClusterCount \in Nat \ {0} /\ ClusterBlocks \in {1, 2, 4}
    /\ FatType \in {16, 32} /\ RootBlocks \in Nat

EOC == 1000                        \* FAT16EOC_MIN and above
Invalid == -1                      \* 0XFFFFFFFF as a block number
Never == -1                        \* no fault to come
IsEOC(c) == c >= EOC

\* The layout that init() computes from the boot sector in block 0.
BlocksPerFat   == (ClusterCount + 2 + B - 1) \div B
FatStartBlock  == 1
RootDirStart   == FatStartBlock + 2 * BlocksPerFat     \* a block on FAT16
DataStartBlock == RootDirStart + (IF FatType = 16 THEN RootBlocks ELSE 0)
Blocks         == 1 .. DataStartBlock + ClusterCount * ClusterBlocks - 1
Clusters       == 2 .. ClusterCount + 1
ClusterUnits   == ClusterBlocks * B
RootCluster    == 2                                    \* fat32RootCluster

ClusterStartBlock(c) == DataStartBlock + (c - 2) * ClusterBlocks
BlockOfCluster(pos)  == (pos \div B) % ClusterBlocks
FatBlock(c)          == FatStartBlock + c \div B

Ok(s)  == [s EXCEPT !.ok = TRUE]
Bad(s) == [s EXCEPT !.ok = FALSE]
Ret(s, v) == [s EXCEPT !.ok = TRUE, !.ret = v]
Then(s, Op(_)) == IF s.ok THEN Op(s) ELSE s

-----------------------------------------------------------------------------
(* The card: a block is read or written as a whole, or the access fails.    *)
(* After a power cut (left = 0) all accesses fail.                          *)

Access(s, b) ==
    IF s.left = 0 THEN Bad(s)
    ELSE [s EXCEPT !.ok = b \in Blocks, !.left = IF @ = Never THEN @ ELSE @ - 1]

WriteBlock(s, b, data) ==
    Then(Access(s, b), LAMBDA t: [t EXCEPT !.card[b] = data])

ReadBlock(s, b) == Then(Access(s, b), LAMBDA t: [t EXCEPT !.buf = t.card[b]])

-----------------------------------------------------------------------------
(* The cache: block number cbn, contents buf, dirty, and mirror, the block  *)
(* of the second FAT that has yet to get a copy (0 if none).                *)

CacheMirrorBlockFlush(s) ==
    IF s.mirror = 0 THEN Ok(s)
    ELSE Then(WriteBlock(s, s.mirror, s.buf), LAMBDA t: [t EXCEPT !.mirror = 0])

CacheFlush(s, blocking) ==
    IF ~s.dirty THEN Ok(s)
    ELSE Then(WriteBlock(s, s.cbn, s.buf), LAMBDA t:
         IF ~blocking THEN t
         ELSE Then(CacheMirrorBlockFlush(t), LAMBDA u: [u EXCEPT !.dirty = FALSE]))

CacheRawBlock(s, b, write) ==
    LET t == IF s.cbn = b THEN Ok(s)
             ELSE Then(Then(CacheFlush(s, TRUE), LAMBDA u: ReadBlock(u, b)),
                       LAMBDA u: [u EXCEPT !.cbn = b])
    IN Then(t, LAMBDA u: [u EXCEPT !.dirty = @ \/ write])

FreeEntry == [name |-> "free", dir |-> FALSE, first |-> 0, size |-> 0]
ZeroBlock == [i \in 0 .. B - 1 |-> FreeEntry]

CacheZeroBlock(s, b) ==
    Then(CacheFlush(s, TRUE),
         LAMBDA t: [t EXCEPT !.buf = ZeroBlock, !.cbn = b, !.dirty = TRUE])

-----------------------------------------------------------------------------
(* The file allocation table.                                               *)

FatGet(s, c) ==
    IF c > ClusterCount + 1 THEN Bad(s)
    ELSE Then(CacheRawBlock(s, FatBlock(c), FALSE), LAMBDA t: Ret(t, t.buf[c % B].fat))

\* Mutant: the second copy is not kept.
FatPutNoMirror(s, c, v) ==
    IF c < 2 \/ c > ClusterCount + 1 THEN Bad(s)
    ELSE Then(CacheRawBlock(s, FatBlock(c), FALSE),
              LAMBDA t: [t EXCEPT !.buf[c % B] = [fat |-> v], !.dirty = TRUE])

FatPut(s, c, v) ==
    IF c < 2 \/ c > ClusterCount + 1 THEN Bad(s)
    ELSE Then(CacheRawBlock(s, FatBlock(c), FALSE),
              LAMBDA t: [t EXCEPT !.buf[c % B] = [fat |-> v], !.dirty = TRUE,
                                  !.mirror = FatBlock(c) + BlocksPerFat])

\* The size of a chain, in units.
RECURSIVE ChainSize(_, _, _)
ChainSize(s, c, n) ==
    Then(FatGet(s, c), LAMBDA t:
         IF IsEOC(t.ret) THEN Ret(t, n + ClusterUnits) ELSE ChainSize(t, t.ret, n + ClusterUnits))

RECURSIVE FreeChain(_, _)
FreeChain(s, c) ==
    Then(FatGet([s EXCEPT !.search = 2], c), LAMBDA t:
         LET next == t.ret IN
         Then(FatPut(t, c, 0), LAMBDA u: IF IsEOC(next) THEN u ELSE FreeChain(u, next)))

\* The first of count free clusters in a row, looked for from bgn on.
RECURSIVE FindFree(_, _, _, _, _)
FindFree(s, count, n, bgn, end) ==
    IF n >= ClusterCount THEN Bad(s)
    ELSE IF end > ClusterCount + 1 THEN FindFree(s, count, n, 2, 2)
    ELSE Then(FatGet(s, end), LAMBDA t:
         IF t.ret /= 0 THEN FindFree(t, count, n + 1, end + 1, end + 1)
         ELSE IF end - bgn + 1 = count THEN Ret(t, bgn)
         ELSE FindFree(t, count, n + 1, bgn, end + 1))

RECURSIVE LinkBack(_, _, _)
LinkBack(s, bgn, end) ==
    IF end <= bgn THEN Ok(s)
    ELSE Then(FatPut(s, end - 1, end), LAMBDA t: LinkBack(t, bgn, end - 1))

\* Allocates count clusters behind cur (0: at a likely free place); ret is the first.
AllocContiguous(s, count, cur) ==
    LET from == IF cur # 0 THEN cur + 1 ELSE s.search IN
    Then(FindFree(s, count, 0, from, from), LAMBDA t:
    LET bgn == t.ret IN
    Then(Then(FatPut(t, bgn + count - 1, EOC), LAMBDA u: LinkBack(u, bgn, bgn + count - 1)), LAMBDA u:
    Then(IF cur # 0 THEN FatPut(u, cur, bgn) ELSE u, LAMBDA w:
         Ret([w EXCEPT !.search = IF cur = 0 /\ count = 1 THEN bgn + 1 ELSE @], bgn))))

=============================================================================
