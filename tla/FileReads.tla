------------------------------ MODULE FileReads ------------------------------
(****************************************************************************)
(* Reading files of ext2, iso9660 and HFS Plus volumes: the block maps      *)
(* (direct and indirect blocks, one extent, lists of extents), the one-     *)
(* block buffers, and the packages' read, seek and load.  What a client     *)
(* sees is one thing for all three: a sequence of bytes with a position.    *)
(*                                                                          *)
(* A byte of the device is its address.  The layout of a file is fixed: on  *)
(* ext2, index block b holds the addresses Entry(b, k) and data block n of  *)
(* the file is 100 + n; iso9660 files are contiguous; HFS Plus files have   *)
(* the extents HfspExtents, of which RecordSize are in the catalog record   *)
(* and in each record of the extents tree.                                  *)
(****************************************************************************)
EXTENDS Integers, Sequences, FiniteSetsExt, SequencesExt

CONSTANTS RfKinds,      \* file systems
          RfBlock,      \* bytes in a block
          RfSizes,      \* file sizes
          RfAsked,      \* lengths and positions clients ask for
          RfPastEnd,    \* clients also ask for bytes after the end (HFS Plus)
          RfDiskFails,  \* the device may fail during a call
          RfLoadAgain   \* clients also load a file they have read (iso9660)

ASSUME FileReadsAssumption ==
    /\ RfKinds \subseteq {"ext2", "iso9660", "hfsplus"}
    /\ RfBlock \in Nat \ {0} /\ RfSizes \subseteq Nat /\ RfAsked \subseteq Nat

VARIABLES kind, size, \* the file
          st,         \* the package's state: position, buffered block and its number
          at,         \* the position a client expects
          got         \* the last call, where it began, its bytes and status

rfVars == <<kind, size, st, at, got>>

NoBlock == -1
RfOk == IF RfDiskFails THEN BOOLEAN ELSE {TRUE}
NoCallYet == [op |-> "none", from |-> 0, want |-> 0, bytes |-> <<>>, status |-> 0,
               ok |-> TRUE]

BytesOf(block, from, n) == [k \in 1 .. n |-> block * RfBlock + from + (k - 1)]

-----------------------------------------------------------------------------
\* ext2: one direct block, two addresses in an index block.
NDir == 1
AddrPerBlock == 2
IndBlock == 20
DindBlock == 30
TindBlock == 40

Entry(b, k) ==
    CASE b = IndBlock     -> 100 + NDir + k
      [] b = DindBlock    -> 31 + k
      [] b \in 31 .. 32   -> 100 + NDir + 2 + 2 * (b - 31) + k
      [] b = TindBlock    -> 41 + k
      [] b \in 41 .. 42   -> 43 + 2 * (b - 41) + k
      [] b \in 43 .. 46   -> 100 + NDir + 6 + 2 * (b - 43) + k
      [] OTHER            -> 0

\* A block of the device in the volume's or the file's buffer.  A read that
\* fails leaves the buffer as it was, under the new number.
Buffered(s, b, ok) ==
    IF s.current = b THEN s
    ELSE [s EXCEPT !.current = b, !.buffer = IF ok THEN b ELSE @]

\* The address found by reading index blocks from top on, with entries ks.
Chain(s, top, ks, ok) ==
    LET Step(acc, k) ==
          LET t == Buffered(acc.s, acc.addr, ok) IN [s |-> t, addr |-> Entry(t.buffer, k)]
    IN  FoldLeft(Step, [s |-> s, addr |-> top], ks)

ext2_get_block_addr(s, logical, ok) ==
    LET l1 == logical - NDir
        l2 == l1 - AddrPerBlock
        sq == AddrPerBlock * AddrPerBlock
        l3 == l2 - sq
    IN  CASE logical < NDir -> [s |-> s, addr |-> 100 + logical]
          [] logical >= NDir /\ l1 < AddrPerBlock -> Chain(s, IndBlock, <<l1>>, ok)
          [] l1 >= AddrPerBlock /\ l2 < sq ->
               Chain(s, DindBlock, <<l2 \div AddrPerBlock, l2 % AddrPerBlock>>, ok)
          [] OTHER ->
               Chain(s, DindBlock,
                     <<l3 \div sq, (l3 % sq) \div AddrPerBlock, l3 % AddrPerBlock>>, ok)

\* Block after block through the buffer, from shift in the first one.
RECURSIVE Ext2Blocks(_, _, _, _, _, _)
Ext2Blocks(s, logical, shift, length, bytes, ok) ==
    IF length = 0 THEN [s |-> s, bytes |-> bytes] ELSE
    LET n == Min({length, RfBlock - shift})
        a == ext2_get_block_addr(s, logical, ok)
        t == Buffered(a.s, a.addr, ok)
    IN  Ext2Blocks(t, logical + 1, 0, length - n, bytes \o BytesOf(t.buffer, shift, n), ok)

\* At the end of the file this is an error, status -1.
ext2_read(s, count, ok) ==
    IF s.pos >= size THEN [s |-> s, bytes |-> <<>>, status |-> -1] ELSE
    LET n == Min({count, size - s.pos})
        r == Ext2Blocks(s, s.pos \div RfBlock, s.pos % RfBlock, n, <<>>, ok)
    IN  [s |-> [r.s EXCEPT !.pos = @ + n], bytes |-> r.bytes, status |-> n]

ext2_lseek(s, pos) == IF pos > size THEN s ELSE [s EXCEPT !.pos = pos]

\* The status is the position, so that only a seek to 0 is no failure.
ext2_files_seek(s, pos) ==
    [s |-> ext2_lseek(s, pos), status |-> IF pos = 0 THEN 0 ELSE -1]

ext2_files_load(s, ok) == ext2_read([s EXCEPT !.pos = 0], size, ok)

-----------------------------------------------------------------------------
\* iso9660: the file starts at block 50.  Whole blocks go past the buffer.
IsoBase == 50

RECURSIVE IsoBytes(_, _, _, _)
IsoBytes(s, count, bytes, ok) ==
    IF count = 0 THEN [s |-> s, bytes |-> bytes, status |-> Len(bytes)] ELSE
    LET extent == IsoBase + s.pos \div RfBlock
        index  == s.pos % RfBlock
        whole  == (count \div RfBlock) * RfBlock
        part   == Min({count, RfBlock - index})
        t      == Buffered(s, extent, ok)
    IN  IF s.current # extent /\ index = 0 /\ count >= RfBlock
        THEN IsoBytes([s EXCEPT !.pos = @ + whole], count - whole,
                      bytes \o BytesOf(IF ok THEN extent ELSE NoBlock, 0, whole), ok)
        ELSE IsoBytes([t EXCEPT !.pos = @ + part], count - part,
                      bytes \o BytesOf(t.buffer, index, part), ok)

iso9660_read(s, count, ok) == IsoBytes(s, Min({count, size - s.pos}), <<>>, ok)

iso9660_files_seek(s, pos) ==
    IF pos > size THEN [s |-> s, status |-> -1]
    ELSE [s |-> [s EXCEPT !.pos = pos], status |-> 0]

\* Pieces of less than a block, from the current position.
IsoPiece == RfBlock - 1

RECURSIVE IsoPieces(_, _, _)
IsoPieces(s, bytes, ok) ==
    LET r == iso9660_read(s, IsoPiece, ok)
    IN  IF Len(r.bytes) < IsoPiece
        THEN [s |-> r.s, bytes |-> bytes \o r.bytes, status |-> Len(bytes) + Len(r.bytes)]
        ELSE IsoPieces(r.s, bytes \o r.bytes, ok)

iso9660_files_load(s, ok) == IsoPieces(s, <<>>, ok)

-----------------------------------------------------------------------------
\* HFS Plus: extents <<first block, blocks>>, in records of two.
RecordSize == 2
HfspExtents == << <<60, 1>>, <<70, 2>>, <<65, 1>>, <<80, 2>>, <<90, 2>> >>

HfspBlocks == (size + RfBlock - 1) \div RfBlock   \* total_blocks

blockiter_init == [curr |-> 0, block |-> 0, e |-> 1]

\* The iterator after the next block, or end.  Index and record advance
\* together as e, the number of the extent: record_init_file finds the record
\* that starts at curr, and record_next_extent the one after it.
blockiter_next(b) ==
    LET c == [b EXCEPT !.curr = @ + 1, !.block = @ + 1]
    IN  IF c.curr >= HfspBlocks THEN [b |-> c, end |-> TRUE]
        ELSE IF c.block < HfspExtents[c.e][2] THEN [b |-> c, end |-> FALSE]
        ELSE [b |-> [c EXCEPT !.e = @ + 1, !.block = 0], end |-> FALSE]

blockiter_curr(b) == HfspExtents[b.e][1] + b.block

\* The blocks before the one that holds the position, or the one before it.
RECURSIVE HfspSkip(_, _, _)
HfspSkip(b, curpos, pos) ==
    IF curpos + RfBlock >= pos THEN [b |-> b, curpos |-> curpos, end |-> FALSE] ELSE
    LET r == blockiter_next(b)
    IN  IF r.end THEN [b |-> b, curpos |-> curpos, end |-> TRUE]
        ELSE HfspSkip(r.b, curpos + RfBlock, pos)

\* Ends early when the disk fails.
RECURSIVE HfspCopy(_, _, _, _, _, _)
HfspCopy(b, curpos, pos, count, bytes, ok) ==
    IF Len(bytes) >= count \/ ~ok THEN bytes ELSE
    LET add  == IF curpos < pos THEN pos - curpos ELSE 0
        n    == Min({RfBlock - add, count - Len(bytes)})
        more == bytes \o BytesOf(blockiter_curr(b), add, n)
        r    == blockiter_next(b)
    IN  IF r.end THEN more ELSE HfspCopy(r.b, curpos + RfBlock, pos, count, more, ok)

\* The size of the file is not looked at.
hfsp_files_read(s, count, ok) ==
    LET k == HfspSkip(blockiter_init, 0, s.pos)
        bytes == HfspCopy(k.b, k.curpos, s.pos, count, <<>>, ok)
    IN  IF k.end THEN [s |-> s, bytes |-> <<>>, status |-> -1]
        ELSE [s |-> [s EXCEPT !.pos = @ + Len(bytes)], bytes |-> bytes, status |-> Len(bytes)]

hfsp_files_seek(s, pos) == [s |-> [s EXCEPT !.pos = Min({pos, size})], status |-> 0]

hfsp_files_load(s, ok) ==
    LET bytes == HfspCopy(blockiter_init, 0, 0, size, <<>>, ok)
    IN  [s |-> s, bytes |-> bytes, status |-> Len(bytes)]

-----------------------------------------------------------------------------
RfRead ==
    /\ got = NoCallYet
    /\ \E n \in RfAsked, ok \in RfOk :
         LET r == CASE kind = "ext2" -> ext2_read(st, n, ok)
                    [] kind = "iso9660" -> iso9660_read(st, n, ok)
                    [] kind = "hfsplus" -> hfsp_files_read(st, n, ok)
         IN  /\ kind = "hfsplus" => (n <= size - at \/ RfPastEnd) /\ size > 0
             /\ st' = r.s
             /\ got' = [op |-> "read", from |-> at, want |-> n, bytes |-> r.bytes,
                        status |-> r.status, ok |-> ok]
             /\ at' = IF ok THEN Min({size, at + n}) ELSE r.s.pos
    /\ UNCHANGED <<kind, size>>

RfSeek ==
    /\ got = NoCallYet
    /\ \E n \in RfAsked :
         LET r == CASE kind = "ext2" -> ext2_files_seek(st, n)
                    [] kind = "iso9660" -> iso9660_files_seek(st, n)
                    [] kind = "hfsplus" -> hfsp_files_seek(st, n)
         IN  /\ st' = r.s
             /\ got' = [NoCallYet EXCEPT !.op = "seek", !.want = n, !.status = r.status]
             /\ at' = IF n <= size THEN n ELSE r.s.pos
    /\ UNCHANGED <<kind, size>>

\* Where load leaves the position is up to the package.
RfLoad ==
    /\ got = NoCallYet
    /\ kind = "iso9660" => at = 0 \/ RfLoadAgain
    /\ \E ok \in RfOk :
       LET r == CASE kind = "ext2" -> ext2_files_load(st, ok)
                  [] kind = "iso9660" -> iso9660_files_load(st, ok)
                  [] kind = "hfsplus" -> hfsp_files_load(st, ok)
       IN  /\ st' = r.s
           /\ got' = [op |-> "load", from |-> 0, want |-> size, bytes |-> r.bytes,
                      status |-> r.status, ok |-> ok]
           /\ at' = r.s.pos
    /\ UNCHANGED <<kind, size>>

RfAnswered == got # NoCallYet /\ got' = NoCallYet /\ UNCHANGED <<kind, size, st, at>>

RfInit ==
    /\ kind \in RfKinds /\ size \in RfSizes
    /\ st = [pos |-> 0, current |-> NoBlock, buffer |-> NoBlock] /\ at = 0
    /\ got = NoCallYet

RfNext == RfRead \/ RfSeek \/ RfLoad \/ RfAnswered

RfSpec == RfInit /\ [][RfNext]_rfVars

-----------------------------------------------------------------------------
\* The blocks of an HFS Plus file, extent after extent.
HfspFileBlocks ==
    LET Blocks(e) == [k \in 1 .. e[2] |-> e[1] + (k - 1)]
    IN  FlattenSeq([i \in 1 .. Len(HfspExtents) |-> Blocks(HfspExtents[i])])

RfByte(i) ==
    LET n == i \div RfBlock
        block == CASE kind = "ext2" -> 100 + n
                   [] kind = "iso9660" -> IsoBase + n
                   [] kind = "hfsplus" -> HfspFileBlocks[n + 1]
    IN  block * RfBlock + (i % RfBlock)

\* Reads and loads deliver the bytes of the file from the expected position
\* on, as many as were asked for and as there are, through every kind of
\* block map and buffer and after any other calls, whenever the disk works;
\* and the packages' own position is the one expected.
ReadsAsFile ==
    /\ st.pos = at
    /\ got.op \in {"read", "load"} /\ got.ok =>
         /\ Len(got.bytes) = Min({got.want, size - got.from})
         /\ \A k \in 1 .. Len(got.bytes) : got.bytes[k] = RfByte(got.from + (k - 1))
         /\ got.status \in {Len(got.bytes), -1} /\ (got.status = -1 => got.bytes = <<>>)

\* A seek inside the file reports success, one past the end that leaves the
\* position failure.
SeeksReport == got.op = "seek" /\ got.want <= size => got.status = 0
=============================================================================
