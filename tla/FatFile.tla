------------------------------- MODULE FatFile -------------------------------
(****************************************************************************)
(* Reading a file of a FAT or exFAT volume (fs/fatfs/ff.c: get_fat,         *)
(* clst2sect, f_read, f_lseek; the package's read, seek and load in         *)
(* fatfs_fs.c; disk_read in diskio.c).                                      *)
(*                                                                          *)
(* The allocation table may hold anything, as on a damaged volume: free or  *)
(* reserved entries, ends that come too early, loops.  A byte of the data   *)
(* area is its address.  The decoding of table entries is in FatVolume.     *)
(****************************************************************************)
EXTENDS Integers, Sequences, FiniteSetsExt

CONSTANTS FatSector,    \* SS(fs), bytes in a sector
          FatCsize,     \* fs->csize, sectors in a cluster
          FatClusters,  \* clusters of the volume
          FatSizes,     \* file sizes, in bytes
          FatAsked,     \* lengths and offsets clients ask for
          FatDiskFails  \* the device may fail to deliver a sector

ASSUME FatFileAssumption ==
    /\ FatSector \in Nat \ {0} /\ FatCsize \in Nat \ {0}
    /\ FatClusters \in Nat \ {0} /\ FatSizes \subseteq Nat
    /\ FatAsked \subseteq Nat /\ FatDiskFails \in BOOLEAN

VARIABLES vol,   \* the volume's table and the file's directory entry
          fil,   \* FIL: fptr, clust, sect, buf, err
          reply  \* the last call and its result

ffVars == <<vol, fil, reply>>

FatEntries == FatClusters + 2             \* fs->n_fatent
FatEnd == FatEntries + 5                  \* an end-of-chain mark
Bcs == FatSector * FatCsize               \* bytes in a cluster
NoSector == 0
FatGarbage == -1
NoReply == [op |-> "none", res |-> "ok", from |-> 0, want |-> 0, got |-> <<>>]

\* The data area starts at sector 1, so that 0 is no sector.
clst2sect(clst) ==
    IF clst \in 2 .. FatEntries - 1 THEN 1 + FatCsize * (clst - 2) ELSE NoSector

\* The entry of a cluster.  1 means an internal error.  On exFAT a contiguous
\* file (stat 2) has no entries: its chain is made up from its size.
get_fat(clst) ==
    IF clst \notin 2 .. FatEntries - 1 THEN 1
    ELSE IF ~vol.contiguous THEN vol.fat[clst]
    ELSE LET cofs == clst - vol.sclust
             clen == ((vol.size - 1) \div FatSector) \div FatCsize
         IN  IF vol.size = 0 \/ cofs \notin 0 .. clen THEN 1
             ELSE IF cofs = clen THEN FatEnd ELSE clst + 1

\* What disk_read leaves in a buffer that held old: it reports success also
\* when the device delivered nothing.
SectorRead(sect, ok, old) ==
    IF ok THEN [k \in 0 .. FatSector - 1 |-> sect * FatSector + k] ELSE old

Abort(f, res) == [f EXCEPT !.err = res]

\* The cluster for the position, which is on a cluster boundary.
NextCluster(f) == IF f.fptr = 0 THEN vol.sclust ELSE get_fat(f.clust)

\* One turn of the loop of f_read with btr bytes to go: the file object, the
\* bytes delivered and whether the call was aborted.
Turn(f, btr, ok) ==
    LET onSector == f.fptr % FatSector = 0
        csect    == (f.fptr \div FatSector) % FatCsize
        f1 == IF onSector /\ csect = 0 THEN [f EXCEPT !.clust = NextCluster(f)] ELSE f
        sect == IF onSector
                THEN IF clst2sect(f1.clust) = NoSector THEN NoSector
                     ELSE clst2sect(f1.clust) + csect
                ELSE f1.sect
        cc   == Min({btr \div FatSector, FatCsize - csect})
        f2   == IF onSector /\ sect # f1.sect
                THEN [f1 EXCEPT !.buf = SectorRead(sect, ok, @), !.sect = sect]
                ELSE f1
        direct == [k \in 1 .. cc * FatSector |->
                     IF ok THEN sect * FatSector + (k - 1) ELSE FatGarbage]
        rcnt == Min({FatSector - (f.fptr % FatSector), btr})
        part == [k \in 1 .. rcnt |-> f2.buf[(f.fptr % FatSector) + (k - 1)]]
    IN  CASE onSector /\ csect = 0 /\ f1.clust < 2 ->
               [f |-> Abort(f, "int"), got |-> <<>>, aborted |-> TRUE]
          [] onSector /\ sect = NoSector /\ ~(csect = 0 /\ f1.clust < 2) ->
               [f |-> Abort(f1, "int"), got |-> <<>>, aborted |-> TRUE]
          [] onSector /\ sect # NoSector /\ cc > 0 /\ ~(csect = 0 /\ f1.clust < 2) ->
               [f |-> [f1 EXCEPT !.fptr = @ + cc * FatSector], got |-> direct,
                aborted |-> FALSE]
          [] OTHER ->
               [f |-> [f2 EXCEPT !.fptr = @ + rcnt], got |-> part, aborted |-> FALSE]

RECURSIVE Reading(_, _, _, _)
Reading(f, btr, got, ok) ==
    IF btr = 0 THEN [f |-> f, got |-> got, res |-> "ok"] ELSE
    LET t == Turn(f, btr, ok)
    IN  IF t.aborted THEN [f |-> t.f, got |-> got, res |-> "int"]
        ELSE Reading(t.f, btr - Len(t.got), got \o t.got, ok)

\* A failed file is read on.
ReadResult_Again(f, btr, ok) ==
    Reading(f, Min({btr, vol.size - f.fptr}), <<>>, ok)

ReadResult(f, btr, ok) ==
    IF f.err # "ok" THEN [f |-> f, got |-> <<>>, res |-> f.err]
    ELSE Reading(f, Min({btr, vol.size - f.fptr}), <<>>, ok)

\* f_lseek follows the chain from the current cluster, or from the first one
\* when it goes back, and loads the sector it lands in.
RECURSIVE Following(_, _, _)
Following(f, clst, ofs) ==
    IF ofs <= Bcs THEN [f |-> f, clst |-> clst, ofs |-> ofs, aborted |-> FALSE] ELSE
    LET g == [f EXCEPT !.fptr = @ + Bcs]
        c == get_fat(clst)
    IN  IF c \notin 2 .. FatEntries - 1
        THEN [f |-> Abort(g, "int"), clst |-> c, ofs |-> 0, aborted |-> TRUE]
        ELSE Following([g EXCEPT !.clust = c], c, ofs - Bcs)

\* From the current cluster also when the position is at its end.
Forward(f, ofs) == f.fptr > 0 /\ (ofs - 1) \div Bcs >= (f.fptr - 1) \div Bcs

SeekResult(f0, asked, ok) ==
    IF f0.err # "ok" THEN [f |-> f0, res |-> f0.err] ELSE
    LET ofs  == Min({asked, vol.size})
        base == IF Forward(f0, ofs) THEN ((f0.fptr - 1) \div Bcs) * Bcs ELSE 0
        clst == IF Forward(f0, ofs) THEN f0.clust ELSE vol.sclust
        f1   == [f0 EXCEPT !.fptr = base, !.clust = clst]
        w    == Following(f1, clst, ofs - base)
        f2   == [w.f EXCEPT !.fptr = @ + w.ofs]
        nsect == IF clst2sect(w.clst) = NoSector THEN NoSector
                 ELSE clst2sect(w.clst) + w.ofs \div FatSector
    IN  CASE ofs = 0 -> [f |-> [f0 EXCEPT !.fptr = 0], res |-> "ok"]
          [] ofs > 0 /\ clst = 0 -> [f |-> f1, res |-> "ok"]
          [] ofs > 0 /\ clst # 0 /\ w.aborted -> [f |-> w.f, res |-> "int"]
          [] ofs > 0 /\ clst # 0 /\ ~w.aborted /\ w.ofs % FatSector # 0 /\ nsect = NoSector ->
               [f |-> Abort(f2, "int"), res |-> "int"]
          [] OTHER ->
               [f |-> IF f2.fptr % FatSector # 0 /\ nsect # f2.sect
                      THEN [f2 EXCEPT !.buf = SectorRead(nsect, ok, @), !.sect = nsect]
                      ELSE f2,
                res |-> "ok"]

Ok == IF FatDiskFails THEN BOOLEAN ELSE {TRUE}

fatfs_files_read ==
    reply = NoReply /\ \E n \in FatAsked, ok \in Ok :
      LET r == ReadResult(fil, n, ok) IN
        /\ fil' = r.f
        /\ reply' = [op |-> "read", res |-> r.res, from |-> fil.fptr, want |-> n,
                     got |-> r.got]
        /\ UNCHANGED vol

fatfs_files_seek ==
    reply = NoReply /\ \E n \in FatAsked, ok \in Ok :
      LET r == SeekResult(fil, n, ok) IN
        /\ fil' = r.f
        /\ reply' = [NoReply EXCEPT !.op = "seek", !.res = r.res, !.want = n]
        /\ UNCHANGED vol

\* The result of the seek to the start is not looked at.
fatfs_files_load ==
    reply = NoReply /\ \E ok \in Ok :
      LET r == ReadResult(SeekResult(fil, 0, ok).f, vol.size, ok) IN
        /\ fil' = r.f
        /\ reply' = [op |-> "read", res |-> r.res, from |-> 0, want |-> vol.size,
                     got |-> r.got]
        /\ UNCHANGED vol

FatAnswered == reply # NoReply /\ reply' = NoReply /\ UNCHANGED <<vol, fil>>

\* f_open leaves the cluster unset and has no sector loaded.
f_open ==
    fil = [fptr |-> 0, clust |-> 0, sect |-> NoSector, err |-> "ok",
           buf |-> [k \in 0 .. FatSector - 1 |-> FatGarbage]]

FfInit ==
    /\ vol \in [fat : [2 .. FatEntries - 1 -> {0, FatEnd} \cup 2 .. FatEntries - 1],
                size : FatSizes, sclust : {0, 2, 3}, contiguous : BOOLEAN]
    /\ vol.contiguous => /\ \A c \in DOMAIN vol.fat : vol.fat[c] = 0
                         /\ vol.sclust # 0
    /\ f_open
    /\ reply = NoReply

FfNext == fatfs_files_read \/ fatfs_files_seek \/ fatfs_files_load \/ FatAnswered

FfSpec == FfInit /\ [][FfNext]_ffVars

-----------------------------------------------------------------------------
\* The cluster that holds byte i of the file: i \div Bcs links from the first.
RECURSIVE Link(_)
Link(i) == IF i = 0 THEN vol.sclust ELSE get_fat(Link(i - 1))

FileByte(i) == clst2sect(Link(i \div Bcs)) * FatSector + (i % Bcs)

\* Every byte a read delivers, in a call that succeeds or in one that fails
\* half-way, is the byte of the file at that position, and a read that
\* succeeds is complete: through the sector buffer, in whole sectors or over
\* cluster boundaries, and after any seeks (f_read and f_lseek,
\* ff.c:3935-4025, 4453-4608).
ReadsFileBytes ==
    reply.op = "read" =>
      /\ \A k \in 1 .. Len(reply.got) : reply.got[k] = FileByte(reply.from + (k - 1))
      /\ reply.res = "ok" =>
           Len(reply.got) = Min({reply.want, vol.size - reply.from})

\* While no call has failed the current cluster is the one of the byte before
\* the position, and inside a sector the buffer holds that sector: this is
\* what the next read and the next forward seek start from.
PositionOnChain ==
    fil.err = "ok" /\ fil.fptr > 0 =>
      /\ fil.clust = Link((fil.fptr - 1) \div Bcs)
      /\ fil.fptr % FatSector # 0 =>
           /\ fil.sect = FileByte(fil.fptr) \div FatSector
           /\ ~FatDiskFails => fil.buf = SectorRead(fil.sect, TRUE, fil.buf)

\* The position never leaves the file, and a file that was not read past a
\* damaged link is left usable; after an error every call fails with it.
ErrorsStay ==
    [][ /\ fil'.fptr <= vol.size \/ fil'.err # "ok"
        /\ fil.err # "ok" => fil'.err = fil.err /\ reply'.got = <<>>
                              /\ (reply' # NoReply => reply'.res = fil.err) ]_ffVars

\* An open FAT file is read like a sequence of bytes with a position, until a
\* damaged chain ends it, which is remembered.
FatReadsRight == [](ReadsFileBytes /\ PositionOnChain) /\ ErrorsStay
=============================================================================
