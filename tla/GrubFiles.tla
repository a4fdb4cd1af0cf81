------------------------------ MODULE GrubFiles ------------------------------
(***************************************************************************)
(* Reading files with the file systems of fs/grubfs: how ext2fs, minix,    *)
(* ufs, fat, affs, jfs, xfs and iso9660 find the blocks of a file, with    *)
(* the buffers they keep from one call to the next.  A session opens files *)
(* and reads parts of them.  During a read the disk may fail, either with  *)
(* the blocks that tell where data is, or with the data.                   *)
(* Blocks have two bytes; byte p of file f is the pair <<f, p>>.  A block  *)
(* of a file is <<file, kind, index>>, kind 0 for data, others for blocks  *)
(* of pointers.  A buffer is named by the block it holds.                  *)
(***************************************************************************)
EXTENDS Integers, Sequences, SequencesExt, FiniteSets, FiniteSetsExt, Tasks

CONSTANTS
  GfSeeks,       \* file systems of which sessions may seek
  GfFailing,     \* file systems with which the disk fails to read where the data is
  GfUnread,      \* file systems with which the disk fails to read data
  GfAnew,        \* file systems of which a file may be opened right after another
  GfWide,        \* ufs blocks of two virtual blocks?
  GfHoles,       \* holes in files made of extents?
  GfLeaves       \* extents of jfs files in several pages?

GfBlock == 2                          \* bytes of a block
LbOf(pos) == pos \div GfBlock         \* the block of a position
OffsetOf(pos) == pos % GfBlock        \* the offset in it
Direct == 2                           \* direct pointers of an inode
PerBlock == 2                         \* pointers in a block
NoBlock == <<0, 0, 0>>                \* anything else: not a block of a file
Hole == <<0, 1>>                      \* a byte of a hole
Lost == <<0, 0>>                      \* a byte that is no byte of the file

\* What a buffer holds after a disk read of a block that may fail.
Fetched(block, good) == IF good THEN block ELSE NoBlock

\* n bytes of a data block.
BytesOf(block, off, n) ==
  [i \in 1 .. n |-> IF block[1] > 0 /\ block[2] = 0
                      THEN <<block[1], block[3] * GfBlock + off + i - 1>> ELSE Lost]

\* Pointer k of the block in a buffer.
Pointer(block, k) ==
  LET f == block[1]
      i == block[3] * PerBlock + k
  IN  CASE block[2] = 1 -> <<f, 0, Direct + k>>
        [] block[2] = 2 -> <<f, 3, k>>
        [] block[2] = 3 -> <<f, 0, Direct + PerBlock + i>>
        [] block[2] = 4 -> <<f, 5, k>>
        [] block[2] = 5 -> <<f, 6, i>>
        [] block[2] = 6 -> <<f, 0, Direct + PerBlock + PerBlock * PerBlock + i>>
        [] OTHER -> NoBlock

-----------------------------------------------------------------------------
(* ext2fs and minix: DATABLOCK1 holds the block of pointers that mapblock1 *)
(* tells, DATABLOCK2 the one whose number is mapblock2.                    *)

MapMounted(f) == [file |-> f, m1 |-> 0, m2 |-> NoBlock, d1 |-> NoBlock, d2 |-> NoBlock,
                  errnum |-> FALSE, bad |-> FALSE]

Load1(s, good, level, block) ==
  IF s.m1 = level THEN s
  ELSE IF good THEN [s EXCEPT !.m1 = level, !.d1 = block]
  ELSE [s EXCEPT !.d1 = NoBlock, !.bad = TRUE]

Load2_Kept(s, good, block) ==
  IF s.bad \/ s.m2 # NoBlock THEN s
  ELSE IF good THEN [s EXCEPT !.m2 = block, !.d2 = block]
  ELSE [s EXCEPT !.d2 = NoBlock, !.bad = TRUE]

Load2(s, good, block) ==
  IF s.bad \/ s.m2 = block THEN s
  ELSE IF good THEN [s EXCEPT !.m2 = block, !.d2 = block]
  ELSE [s EXCEPT !.d2 = NoBlock, !.bad = TRUE]

Mapped(s, block) == [s |-> s, block |-> block]

\* The block that holds logical block lb; the triple indirect part reuses
\* DATABLOCK2 for the two lower levels.
ext2fs_block_map(s, good, lb) ==
  LET one   == lb - Direct
      two   == one - PerBlock
      three == two - PerBlock * PerBlock
      a == Load1(s, good, 1, <<s.file, 1, 0>>)
      b == Load1(s, good, 2, <<s.file, 2, 0>>)
      c == Load2(b, good, Pointer(b.d1, two \div PerBlock))
      d == Load1([s EXCEPT !.m2 = NoBlock], good, 3, <<s.file, 4, 0>>)
      e == IF d.bad THEN d ELSE [d EXCEPT !.d2 = Fetched(Pointer(d.d1, three \div (PerBlock * PerBlock)), good),
                                          !.bad = ~good]
      f == IF e.bad THEN e ELSE [e EXCEPT !.d2 = Fetched(Pointer(e.d2, (three \div PerBlock) % PerBlock), good)]
  IN  CASE one < 0   -> Mapped(s, <<s.file, 0, lb>>)
        [] one >= 0 /\ two < 0   -> Mapped(a, Pointer(a.d1, one))
        [] two >= 0 /\ three < 0 -> Mapped(c, Pointer(c.d2, two % PerBlock))
        [] OTHER -> Mapped(f, Pointer(f.d2, three % PerBlock))

\* As ext2fs, without the triple indirect blocks.
minix_block_map(s, good, lb) ==
  LET one == lb - Direct
      two == one - PerBlock
      a == Load1(s, good, 1, <<s.file, 1, 0>>)
      b == Load1(s, good, 2, <<s.file, 2, 0>>)
      c == Load2(b, good, Pointer(b.d1, two \div PerBlock))
  IN  CASE one < 0 -> Mapped(s, <<s.file, 0, lb>>)
        [] one >= 0 /\ two < 0 -> Mapped(a, Pointer(a.d1, one))
        [] OTHER -> Mapped(c, Pointer(c.d2, two % PerBlock))

\* Block by block; a block that cannot be mapped ends the loop.
RECURSIVE MapLoop(_, _, _, _, _)
MapLoop(fs, s, good, pos, len) ==
  LET start == [s EXCEPT !.bad = FALSE]
      m == IF fs = "ext2fs" THEN ext2fs_block_map(start, good, LbOf(pos))
           ELSE minix_block_map(start, good, LbOf(pos))
      n == Min({GfBlock - OffsetOf(pos), len})
      rest == MapLoop(fs, m.s, good, pos + n, len - n)
  IN  IF len <= 0 THEN [s |-> s, bytes |-> <<>>]
      ELSE IF m.s.bad THEN [s |-> [m.s EXCEPT !.errnum = TRUE], bytes |-> <<>>]
      ELSE [s |-> rest.s, bytes |-> BytesOf(m.block, OffsetOf(pos), n) \o rest.bytes]

\* ext2fs_read and minix_read; nothing resets errnum before the next call.
MapRead(fs, s, good, pos, len) ==
  LET r == MapLoop(fs, s, good, pos, len)
  IN  [s |-> r.s, bytes |-> IF r.s.errnum THEN <<>> ELSE r.bytes]

\* ext2fs_dir and minix_dir load the inode of the file and forget the pointers.
MapOpen(s, f) == [MapMounted(f) EXCEPT !.errnum = s.errnum]

-----------------------------------------------------------------------------
(* ufs: blkbuf and indbuf hold the virtual blocks blkmap and indmap of the *)
(* inode inomap; fs_off is the position.  File 3 is the root directory.    *)

UfsVirtual == IF GfWide THEN 2 ELSE 1         \* virtual blocks of a block
UfsSectors == 2                               \* sectors of a virtual block
UfsPointers == PerBlock * UfsVirtual          \* pointers in a block
Root == 3

UfsMounted == [inomap |-> 0, off |-> 0, blkmap |-> NoBlock, indmap |-> NoBlock,
               blk |-> NoBlock, ind |-> NoBlock, cur |-> 0]

\* Reading inode f: a change of the inode forgets position and buffers.
UfsInode(s, f) ==
  IF s.inomap = f THEN s
  ELSE [s EXCEPT !.inomap = f, !.off = 0, !.blkmap = NoBlock, !.indmap = NoBlock,
                 !.blk = NoBlock]

\* Virtual block v of the blocks of pointers of f starts at sector u.
UfsIndirect(f, u) == IF u % UfsSectors = 0 THEN <<f, 1, u \div UfsSectors>> ELSE NoBlock

\* The virtual block at the position, and the buffers after finding it.
UfsMap(s) ==
  LET f    == s.inomap
      lbn  == s.off \div (GfBlock * UfsVirtual)
      u    == (lbn - Direct) \div (PerBlock * UfsSectors)
      vb   == UfsIndirect(f, u)
      part == (LbOf(s.off)) % UfsVirtual
      k    == (lbn - Direct) % PerBlock
      t    == [s EXCEPT !.indmap = vb, !.ind = IF s.indmap = vb THEN s.ind ELSE vb]
      block == IF lbn < Direct THEN lbn ELSE Direct + t.ind[3] * PerBlock + k
  IN  [s |-> IF lbn < Direct THEN s ELSE t,
       block |-> <<f, 0, block * UfsVirtual + part>>]

RECURSIVE fsread(_, _)
fsread(s, len) ==
  LET m == UfsMap(s)
      t == [m.s EXCEPT !.blkmap = m.block,
                       !.blk = IF s.blkmap = m.block THEN s.blk ELSE m.block]
      n == Min({GfBlock - OffsetOf(s.off), len})
      rest == fsread([t EXCEPT !.off = s.off + n], len - n)
  IN  IF len <= 0 THEN [s |-> s, bytes |-> <<>>]
      ELSE [s |-> rest.s, bytes |-> BytesOf(t.blk, OffsetOf(s.off), n) \o rest.bytes]

\* lookup reads the root directory with fsfind, which then reads the inode
\* of what it found into blkbuf.
UfsOpen(s, f) ==
  LET dir == fsread([UfsInode(s, Root) EXCEPT !.off = 0], GfBlock)
      found == \A i \in 1 .. GfBlock : dir.bytes[i] # Lost
  IN  [dir.s EXCEPT !.blk = IF found THEN NoBlock ELSE @, !.cur = IF found THEN f ELSE 0]

\* ufs_read takes no notice of filepos.
UfsRead(s, len) ==
  IF s.cur = 0 THEN [s |-> s, bytes |-> <<>>]
  ELSE fsread(UfsInode(s, s.cur), len)

-----------------------------------------------------------------------------
(* fat: the chain of clusters is followed through a window of the table;   *)
(* positions in the table count nibbles, fat_size is 3, 4 or 8.  Files 1   *)
(* and 2 have the even and the odd clusters.                               *)

FatNibbles == 8                       \* nibbles of a sector of the table
FatWindow == 16                       \* nibbles of FAT_BUF
FatClusters == 6                      \* clusters of a file

ClusterOf(f, lb) == 2 * lb + 1 + f
EndMark == 0
LinkOf(cl) == IF cl + 2 > ClusterOf(2, FatClusters - 1) THEN EndMark ELSE cl + 2
OwnerOf(cl) == <<1 + (cl % 2), 0, (cl - 2) \div 2>>

FatMounted(f, z) == [file |-> f, size |-> z, num |-> 100, cl |-> 0, win |-> -100, buf |-> -100,
                     errnum |-> FALSE]

\* The window with the entry of the current cluster: the position is noted
\* before the sectors are read.
FatLoaded(s, good) ==
  LET entry == s.cl * s.size
      pos   == entry - s.win
      win   == entry - (entry % FatNibbles)
  IN  IF pos < 0 \/ pos + s.size > FatWindow
        THEN [s EXCEPT !.win = win, !.buf = IF good THEN win ELSE @] ELSE s

\* The entry at the position of the current cluster in FAT_BUF, whatever part
\* of the table that holds; 1 stands for a value that is no cluster.
FatLink(s) ==
  LET there == s.buf + (s.cl * s.size - s.win)
  IN  IF s.buf >= 0 /\ there % s.size = 0 /\ there - s.buf + s.size <= FatWindow
         /\ there \div s.size \in 2 .. ClusterOf(2, FatClusters - 1)
        THEN LinkOf(there \div s.size) ELSE 1

RECURSIVE FatWalk(_, _, _)
FatWalk(s, good, lb) ==
  LET t == FatLoaded(s, good)
      link == FatLink(t)
  IN  IF lb <= s.num THEN [s |-> s, how |-> "there"]
      ELSE IF t # s /\ ~good THEN [s |-> t, how |-> "failed"]
      ELSE IF link = EndMark THEN [s |-> t, how |-> "end"]
      ELSE IF link = 1 THEN [s |-> [t EXCEPT !.errnum = TRUE], how |-> "failed"]
      ELSE FatWalk([t EXCEPT !.cl = link, !.num = t.num + 1], good, lb)

RECURSIVE FatLoop(_, _, _, _)
FatLoop(s, good, pos, len) ==
  LET w == FatWalk(s, good, LbOf(pos))
      n == Min({GfBlock - OffsetOf(pos), len})
      rest == FatLoop(w.s, good, pos + n, len - n)
  IN  CASE len <= 0 -> [s |-> s, bytes |-> <<>>, failed |-> FALSE]
        [] len > 0 /\ w.how = "there" ->
             [s |-> rest.s, failed |-> rest.failed,
              bytes |-> BytesOf(OwnerOf(w.s.cl), OffsetOf(pos), n) \o rest.bytes]
        [] OTHER -> [s |-> w.s, bytes |-> <<>>, failed |-> w.how = "failed"]

fat_read(s, good, pos, len) ==
  LET t == IF LbOf(pos) < s.num THEN [s EXCEPT !.num = 0, !.cl = ClusterOf(s.file, 0)] ELSE s
      r == FatLoop(t, good, pos, len)
  IN  [s |-> r.s, bytes |-> IF r.failed \/ r.s.errnum THEN <<>> ELSE r.bytes]

-----------------------------------------------------------------------------
(* affs: the header and the extension blocks of a file, with AffsKeys keys *)
(* each, counted down, come through a cache of AffsSlots blocks.           *)

AffsKeys == 2
AffsSlots == 2
AffsBlocks == 6                       \* data blocks of a file

AffsMounted(f) ==
  [file |-> f, block |-> <<f, 1, 0>>, key |-> AffsKeys - 1, byte |-> 0, off |-> 0,
   cache |-> [i \in 1 .. AffsSlots |-> [block |-> NoBlock, count |-> 0]]]

Extension(block) ==
  IF (block[3] + 1) * AffsKeys < AffsBlocks THEN <<block[1], 1, block[3] + 1>> ELSE NoBlock

\* The block in the cache, in place of the least used one if it has to be read;
\* that keeps the count.
getBlock(s, block) ==
  LET hit == {i \in 1 .. AffsSlots : s.cache[i].block = block}
      least == Min({i \in 1 .. AffsSlots :
                      \A j \in 1 .. AffsSlots : s.cache[i].count <= s.cache[j].count})
  IN  IF hit # {} THEN [s EXCEPT !.cache[Min(hit)].count = @ + 1]
      ELSE [s EXCEPT !.cache[least].block = block]

RECURSIVE AffsFollow(_, _, _)
AffsFollow(s, block, togo) ==
  IF togo = 0 \/ block = NoBlock THEN [s EXCEPT !.block = IF togo = 0 THEN block ELSE @]
  ELSE AffsFollow(getBlock(s, block), Extension(block), togo - 1)

seek(s, pos) ==
  LET n == LbOf(pos)
  IN  AffsFollow([s EXCEPT !.key = AffsKeys - 1 - (n % AffsKeys), !.byte = OffsetOf(pos), !.off = pos],
                 <<s.file, 1, 0>>, n \div AffsKeys)

\* cblock is the header or extension block in use.
RECURSIVE AffsLoop(_, _, _)
AffsLoop(s, cblock, len) ==
  LET on   == s.key < 0
      next == Extension(cblock)
      t    == IF ~on THEN s
              ELSE [(IF next # NoBlock THEN getBlock(s, next) ELSE s)
                      EXCEPT !.key = AffsKeys - 1, !.block = next]
      cb   == IF on /\ next # NoBlock THEN next ELSE cblock
      n    == Min({GfBlock - t.byte, len})
      data == <<cb[1], 0, cb[3] * AffsKeys + (AffsKeys - 1 - t.key)>>
      u    == IF GfBlock - t.byte > len THEN [t EXCEPT !.byte = @ + n]
              ELSE [t EXCEPT !.byte = 0, !.key = @ - 1]
      rest == AffsLoop(u, cb, len - n)
  IN  IF len <= 0 THEN [s |-> s, bytes |-> <<>>]
      ELSE [s |-> rest.s, bytes |-> BytesOf(data, t.byte, n) \o rest.bytes]

affs_read(s, pos, len) ==
  LET t == IF s.off # pos THEN seek(s, pos) ELSE s
      r == AffsLoop(getBlock(t, t.block), t.block, len)
  IN  IF t.block = NoBlock THEN [s |-> t, bytes |-> <<>>]
      ELSE [s |-> [r.s EXCEPT !.off = @ + Len(r.bytes)], bytes |-> r.bytes]

-----------------------------------------------------------------------------
(* jfs and xfs: the extents of a file, records of the first block and the  *)
(* number of blocks, in the leaves of a tree.                              *)

Extent(off, n) == [off |-> off, len |-> n]

GfExtents(f) ==
  LET whole == IF f = 1 THEN <<Extent(0, 2), Extent(2, 1), Extent(3, 3)>>
                        ELSE <<Extent(0, 1), Extent(1, 4), Extent(5, 1)>>
      holed == IF f = 1 THEN <<Extent(0, 1), Extent(2, 1), Extent(4, 2)>>
                        ELSE <<Extent(0, 2), Extent(5, 1)>>
  IN  IF GfHoles THEN holed ELSE whole

\* The extents in the order in which next_extent gives them.
JfsOrder(f) ==
  LET x == GfExtents(f)
  IN  IF GfLeaves THEN <<x[1], x[3]>> ELSE x       \* the second leaf: after its first entry

XfsOrder(f) == GfExtents(f)

isinxt(key, x) == key >= x.off /\ key < x.off + x.len

\* The loop of jfs_read and xfs_read, at extent i; "anew" is whether the
\* extent after a hole is looked at again.
RECURSIVE ExtentLoop(_, _, _, _, _, _, _)
ExtentLoop(f, xs, i, anew, endofprev, pos, end) ==
  LET x == xs[i]
      in == isinxt(LbOf(pos), x)
      endofcur == (x.off + x.len) * GfBlock
      n == IF in THEN (IF endofcur >= end THEN end - pos ELSE endofcur - pos)
           ELSE IF x.off * GfBlock >= end THEN end - pos ELSE (x.off - endofprev) * GfBlock
      here == IF in THEN [k \in 1 .. n |-> IF pos + k - 1 < endofcur THEN <<f, pos + k - 1>> ELSE Lost]
              ELSE [k \in 1 .. n |-> Hole]
  IN  IF i > Len(xs) \/ pos >= end THEN <<>>
      ELSE IF in
        THEN here \o ExtentLoop(f, xs, i + 1, anew, x.off + x.len, pos + n, end)
      ELSE IF x.off > endofprev
        THEN here \o ExtentLoop(f, xs, IF anew THEN i ELSE i + 1, anew, endofprev, pos + n, end)
      ELSE ExtentLoop(f, xs, i + 1, anew, x.off + x.len, pos, end)

NoPrevious == 1000

jfs_read(f, pos, len) == ExtentLoop(f, JfsOrder(f), 1, TRUE, NoPrevious, pos, pos + len)

xfs_read(f, pos, len) == ExtentLoop(f, XfsOrder(f), 1, FALSE, NoPrevious, pos, pos + len)

\* iso9660: the sectors of a file follow each other.
RECURSIVE iso9660_read(_, _, _)
iso9660_read(f, pos, len) ==
  LET n == Min({GfBlock - OffsetOf(pos), len})
  IN  IF len <= 0 THEN <<>>
      ELSE BytesOf(<<f, 0, LbOf(pos)>>, OffsetOf(pos), n) \o iso9660_read(f, pos + n, len - n)

-----------------------------------------------------------------------------
(* grubfs_fs.c: a file is opened (the file system is mounted again) and    *)
(* parts of it are read.                                                   *)

GfSystems == {"ext2fs", "minix", "ufs", "fat12", "fat16", "fat32", "affs", "jfs", "xfs", "iso9660"}

FatSize(fs) == CASE fs = "fat12" -> 3 [] fs = "fat16" -> 4 [] fs = "fat32" -> 8

Fats == {"fat12", "fat16", "fat32"}

\* Bytes of a file.
GfLength(fs) ==
  GfBlock * (CASE fs = "ext2fs" -> Direct + PerBlock + PerBlock * PerBlock + PerBlock * PerBlock * PerBlock
               [] fs = "minix" -> Direct + PerBlock + PerBlock * PerBlock
               [] fs = "ufs" -> UfsVirtual * (Direct + UfsPointers)
               [] OTHER -> 6)

GfStart(fs) ==
  CASE fs \in {"ext2fs", "minix"} -> MapMounted(0)
    [] fs = "ufs" -> UfsMounted
    [] fs \in Fats -> FatMounted(0, FatSize(fs))
    [] fs = "affs" -> AffsMounted(0)
    [] OTHER -> [file |-> 0]

grubfs_files_open(fs, s, f) ==
  CASE fs \in {"ext2fs", "minix"} -> MapOpen(s, f)
    [] fs = "ufs" -> UfsOpen(s, f)
    [] fs \in Fats -> [FatMounted(f, FatSize(fs)) EXCEPT !.errnum = s.errnum]
    [] fs = "affs" -> AffsMounted(f)
    [] OTHER -> [file |-> f]

\* Only iso9660_read looks at the result of reading data.
Unread(fs, bytes) == IF fs = "iso9660" THEN <<>> ELSE [i \in DOMAIN bytes |-> Lost]

grubfs_files_read(fs, s, fails, pos, len) ==
  LET n == Min({len, GfLength(fs) - pos})
      good == fails # "map"
      Pure(bytes) == [s |-> s, bytes |-> bytes]
      r == CASE fs \in {"ext2fs", "minix"} -> MapRead(fs, s, good, pos, n)
             [] fs = "ufs" -> UfsRead(s, n)
             [] fs \in Fats -> fat_read(s, good, pos, n)
             [] fs = "affs" -> affs_read(s, pos, n)
             [] fs = "jfs" -> Pure(jfs_read(s.file, pos, n))
             [] fs = "xfs" -> Pure(xfs_read(s.file, pos, n))
             [] fs = "iso9660" -> Pure(iso9660_read(s.file, pos, n))
  IN  IF fails = "data" THEN [r EXCEPT !.bytes = Unread(fs, @)] ELSE r

\* The results of a session's calls.
GfRun(fs, calls) ==
  FoldLeft(LAMBDA a, c :
             IF c.op = "open" THEN [a EXCEPT !.s = grubfs_files_open(fs, a.s, c.file),
                                             !.out = Append(@, <<>>)]
             ELSE LET r == grubfs_files_read(fs, a.s, c.fails, c.pos, c.len)
                  IN  [s |-> r.s, out |-> Append(a.out, r.bytes)],
           [s |-> GfStart(fs), out |-> <<>>], calls).out

-----------------------------------------------------------------------------
GfOpens == [op : {"open"}, file : {1, 2}, fails : {"no"}, pos : {0}, len : {0}]

GfReads(fs) ==
  {r \in [op : {"read"}, file : {0}, fails : {"no", "map", "data"},
          pos : IF fs = "ext2fs" THEN {0, 3, 5, 8, 15, 16, 24, 29} ELSE {0, 2, 3, 5, 7, 9, 11},
          len : IF fs = "ufs" THEN {1, 4, 20} ELSE {1, 4}] :
     /\ r.pos < GfLength(fs)
     /\ r.fails = "map" => fs \in GfFailing
     /\ r.fails = "data" => fs \in GfUnread}

\* Where the position is after the calls: ufs reads on from there.
Reached(calls) ==
  FoldLeft(LAMBDA p, c : IF c.op = "open" THEN 0 ELSE p + c.len, 0, calls)

\* The sessions of a file system: the file that is read is the one opened last.
GfSessions(fs) ==
  LET calls == GfOpens \cup GfReads(fs)
      far   == {r \in GfReads(fs) : r.len = 1 /\ r.pos >= 5}
      Legal(c) ==
        /\ fs \in GfSeeks \/ \A i \in DOMAIN c : c[i].op = "read" => c[i].pos = Reached(SubSeq(c, 1, i - 1))
        /\ fs \in GfAnew \/ \A i \in 2 .. Len(c) : c[i].op = "open" => c[i - 1].op = "read"
  IN  {c \in {<<o, a, b>> : o \in GfOpens, a \in calls, b \in calls}
           \cup {<<o, a, b, r>> : o \in GfOpens, a \in GfReads(fs), b \in GfOpens, r \in GfReads(fs)}
           \cup {<<o, a, b, r>> : o \in GfOpens, a \in far, b \in far, r \in far} : Legal(c)}

GrubTasks ==
  UNION {[op : {"grubfs"}, fs : {fs}, calls : GfSessions(fs)] : fs \in GfSystems}

GrubTask == Compute("grubfs", GfRun(task.fs, task.calls))

\* The file a call reads, and the bytes it is to give.
GfFile(calls, i) == calls[Max({j \in 1 .. i : calls[j].op = "open"})].file

InHole(fs, f, p) ==
  fs \in {"jfs", "xfs"} /\ \A k \in DOMAIN GfExtents(f) : ~isinxt(LbOf(p), GfExtents(f)[k])

GfBytes(fs, f, pos, len) ==
  [k \in 1 .. Min({len, GfLength(fs) - pos}) |->
     IF InHole(fs, f, pos + k - 1) THEN Hole ELSE <<f, pos + k - 1>>]

\* A read of a file gives the bytes of that file at that position: whichever
\* blocks of pointers, windows of the table or positions earlier reads of the
\* same or another file left behind.  After an error of the disk it may give
\* nothing, but never other bytes.
GrubReadsRight ==
  Computed("grubfs") =>
    \A i \in DOMAIN task.calls :
      task.calls[i].op = "read" =>
        LET c == task.calls[i]
        IN  \/ result[i] = GfBytes(task.fs, GfFile(task.calls, i), c.pos, c.len)
            \/ result[i] = <<>> /\ \E j \in 1 .. i : task.calls[j].fails # "no"

\* An error of the disk costs one call: a read without one, of a file that has
\* been opened after it, gives the bytes.
GrubRecovers ==
  Computed("grubfs") =>
    \A i \in DOMAIN task.calls :
      LET opened == {j \in 1 .. i : task.calls[j].op = "open"}
      IN  task.calls[i].op = "read" /\ (\A j \in Max(opened) .. i : task.calls[j].fails = "no") =>
            result[i] # <<>>
=============================================================================
