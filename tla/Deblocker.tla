------------------------------ MODULE Deblocker ------------------------------
(****************************************************************************)
(* /packages/deblocker (packages/deblocker.c): byte reads and writes on top *)
(* of a device that only has read-blocks and write-blocks.                  *)
(*                                                                          *)
(* A byte of the disk is a number that tells where it belongs: byte p is p  *)
(* at first and DbBytes + p once a client has written it, so a byte that    *)
(* ends up in the wrong place is seen.  The device (external) transfers     *)
(* fewer blocks than asked for, or answers -1; it writes the blocks it      *)
(* reports.  One call of the package is one step: the device is called      *)
(* synchronously.                                                           *)
(****************************************************************************)
EXTENDS Integers, Sequences, FiniteSetsExt

CONSTANTS DbBlock,      \* di->blksize, in bytes
          DbBlocks,     \* blocks of the disk
          DbLengths,    \* lengths clients ask for
          PreReadFails  \* the read before a partial write may fail

ASSUME DeblockerAssumption ==
    DbBlock \in Nat \ {0} /\ DbBlocks \in Nat \ {0} /\ DbLengths \subseteq Nat
    /\ PreReadFails \in BOOLEAN

VARIABLES mark,   \* di->mark_hi, di->mark_lo
          dbuf,   \* di->buf
          disk,   \* the bytes on the disk
          call    \* the last call: what was asked for and what came back

dbVars == <<mark, dbuf, disk, call>>

DbBytes == DbBlock * DbBlocks

NoCall == [op |-> "none", from |-> 0, len |-> 0, ret |-> 0, got |-> <<>>]

\* The pieces of a transfer: the rest of a block, whole blocks, the start of
\* a block.  "at" is where the piece starts in the client's buffer.
split(m, len) ==
    LET offs  == m % DbBlock
        first == IF offs = 0 THEN 0 ELSE Min({len, DbBlock - offs})
        whole == (len - first) \div DbBlock
        rest  == (len - first) - whole * DbBlock
    IN  << [nblks |-> IF first = 0 THEN 0 ELSE 1, offs |-> offs,
            len |-> first, at |-> 0],
           [nblks |-> whole, offs |-> 0, len |-> whole * DbBlock,
            at |-> first],
           [nblks |-> IF rest = 0 THEN 0 ELSE 1, offs |-> 0, len |-> rest,
            at |-> first + whole * DbBlock] >>

\* Block b of disk d.
Block(d, b) == [ k \in 0 .. DbBlock - 1 |-> d[b * DbBlock + k] ]

\* What the device may answer when asked for n blocks from b on.
Answers(b, n) == {-1} \cup 0 .. Min({n, Max({0, DbBlocks - b})})

\* Blocks b .. b+n-1 of d replaced; byte k after the first one is data[k].
Overwritten(d, b, n, data) ==
    [ p \in DOMAIN d |-> IF p \div DbBlock \in b .. b + n - 1
                         THEN data[p - b * DbBlock] ELSE d[p] ]

\* The client's bytes are laid over the start of the block.
Prepared_Start(s, w, pre) ==
    LET v == [w EXCEPT !.offs = 0] IN
    [ k \in 0 .. DbBlock - 1 |->
        IF k \in v.offs .. v.offs + v.len - 1
        THEN DbBytes + s.from + v.at + (k - v.offs)
        ELSE IF pre > 0 THEN s.disk[s.blk * DbBlock + k] ELSE s.buf[k] ]

\* The block buffer after the read that precedes a partial write: the old
\* content stays when the device fails, which the code does not notice, and
\* the client's bytes are laid over it.
Prepared(s, w, pre) ==
    [ k \in 0 .. DbBlock - 1 |->
        IF k \in w.offs .. w.offs + w.len - 1
        THEN DbBytes + s.from + w.at + (k - w.offs)
        ELSE IF pre > 0 THEN s.disk[s.blk * DbBlock + k] ELSE s.buf[k] ]

\* One piece.  s.last stops the loop, n is the device's answer.
Transferred(s, i, w, isWrite, n, pre) ==
    IF s.last \/ w.nblks = 0 THEN s ELSE
    LET buf == CASE isWrite /\ i # 2 -> Prepared(s, w, pre)
                 [] ~isWrite /\ i # 2 /\ n > 0 -> Block(s.disk, s.blk)
                 [] OTHER -> s.buf
        len == IF n = w.nblks THEN w.len ELSE Min({n * DbBlock, w.len})
        out == [ k \in 1 .. len |->
                   IF i = 2 THEN s.disk[s.blk * DbBlock + (k - 1)]
                   ELSE buf[w.offs + (k - 1)] ]
    IN  IF n < 0
        THEN [s EXCEPT !.last = TRUE, !.buf = buf,
                       !.ret = IF @ = 0 THEN -1 ELSE @]
        ELSE [s EXCEPT !.last = n # w.nblks, !.buf = buf,
                       !.ret = @ + len, !.blk = @ + n,
                       !.got = IF isWrite THEN @ ELSE @ \o out,
                       !.disk = IF ~isWrite THEN @
                                ELSE Overwritten(@, s.blk, n,
                                       [k \in 0 .. n * DbBlock - 1 |->
                                          IF i = 2 THEN DbBytes + s.from + w.at + k
                                          ELSE buf[k]])]

do_readwrite(isWrite, len) ==
    LET w == split(mark, len)
        s0 == [disk |-> disk, buf |-> dbuf, blk |-> mark \div DbBlock,
               ret |-> 0, last |-> FALSE, got |-> <<>>, from |-> mark]
        pres == IF PreReadFails THEN {0, 1} ELSE {1}
    IN  \E pre \in [{1, 3} -> pres] :
        \E n1 \in Answers(s0.blk, w[1].nblks) :
        LET s1 == Transferred(s0, 1, w[1], isWrite, n1, pre[1]) IN
        \E n2 \in Answers(s1.blk, w[2].nblks) :
        LET s2 == Transferred(s1, 2, w[2], isWrite, n2, 1) IN
        \E n3 \in Answers(s2.blk, w[3].nblks) :
        LET s3 == Transferred(s2, 3, w[3], isWrite, n3, pre[3]) IN
          /\ disk' = s3.disk
          /\ dbuf' = s3.buf
          /\ mark' = IF s3.ret > 0 THEN mark + s3.ret ELSE mark
          /\ call' = [op |-> IF isWrite THEN "write" ELSE "read",
                      from |-> mark, len |-> len, ret |-> s3.ret,
                      got |-> s3.got]

\* Clients stay on the disk, so that block numbers do.
deblk_read ==
    call = NoCall /\ \E len \in DbLengths :
      mark + len <= DbBytes /\ do_readwrite(FALSE, len)

deblk_write ==
    call = NoCall /\ \E len \in DbLengths :
      mark + len <= DbBytes /\ do_readwrite(TRUE, len)

\* The client takes the result.
Answered == call # NoCall /\ call' = NoCall /\ UNCHANGED <<mark, dbuf, disk>>

\* A seek to -1 leaves the mark alone.
deblk_seek ==
    call = NoCall /\ \E pos \in -1 .. DbBytes :
      /\ mark' = IF pos = -1 THEN mark ELSE pos
      /\ UNCHANGED <<dbuf, disk, call>>

\* open allocates the buffer without clearing it.  -1 is a byte that is not
\* the disk's.
DbInit ==
    /\ mark = 0
    /\ dbuf = [k \in 0 .. DbBlock - 1 |-> -1]
    /\ disk = [p \in 0 .. DbBytes - 1 |-> p]
    /\ call = NoCall

DbNext == deblk_read \/ deblk_write \/ deblk_seek \/ Answered

DbSpec == DbInit /\ [][DbNext]_dbVars

-----------------------------------------------------------------------------
\* A read delivers the bytes of the disk that start at the mark, as many as
\* it reports, and a read or a write moves the mark by exactly that many,
\* whatever pieces the transfer is cut into and wherever the device stops
\* (do_readwrite, deblocker.c:157-186).
BytesInOrder ==
    [][call'.op \in {"read", "write"} =>
         LET n == Max({0, call'.ret}) IN
           /\ n <= call'.len /\ mark' = mark + n
           /\ call'.op = "read" =>
                call'.got = [k \in 1 .. n |-> disk[mark + (k - 1)]] ]_dbVars

\* A write changes the bytes it reports and no other byte, also when it
\* begins or ends inside a block and the rest of that block has to be kept
\* (deblocker.c:161-166).
WritesOnlyItsBytes ==
    [][ \A p \in DOMAIN disk :
          disk'[p] = IF /\ call'.op = "write" /\ disk' # disk
                        /\ p \in mark .. mark + call'.ret - 1
                     THEN DbBytes + p ELSE disk[p] ]_dbVars

\* The deblocker is a disk of bytes, however requests lie across blocks.
DeblocksRight == BytesInOrder /\ WritesOnlyItsBytes
=============================================================================
