------------------------------ MODULE FatVolume ------------------------------
(****************************************************************************)
(* What FatFs (fs/fatfs/ff.c) reads from a FAT volume, as functions: its    *)
(* geometry, the entries of the allocation table, the places of a           *)
(* directory's entries and the objects they stand for.                      *)
(*                                                                          *)
(* Sizes are scaled down: a sector has FvSector bytes and DirPerSector      *)
(* directory entries, a directory at most MaxDir entries, FAT12 volumes up  *)
(* to MaxFat12 clusters, FAT16 ones up to MaxFat16, FAT32 ones up to        *)
(* MaxFat32.  The exFAT branches are left out: they do not check the size   *)
(* of the table.                                                            *)
(****************************************************************************)
EXTENDS Integers, Sequences, FiniteSetsExt, SequencesExt, Tasks

CONSTANT FvOddLabels   \* may a volume label have other attributes?

FvSector == 2
DirPerSector == 2
MaxDir == 14
MaxFat12 == 3
MaxFat16 == 5
MaxFat32 == 9

-----------------------------------------------------------------------------
FatType(nclst) ==
    IF nclst <= MaxFat12 THEN 12 ELSE IF nclst <= MaxFat16 THEN 16 ELSE 32

\* Bytes of a table of n entries.
TableBytes(type, n) ==
    CASE type = 12 -> ((n * 3) \div 2) + (n % 2)
      [] type = 16 -> n * 2
      [] type = 32 -> n * 4

\* The layout mount_volume takes from a boot sector b, or NotFat.
NotFat == [type |-> 0]

mount_volume(b) ==
    LET sysect == b.nrsv + b.fatsz * b.nfats + b.nrootdir \div DirPerSector
        nclst  == IF b.tsect < sysect THEN 0 ELSE (b.tsect - sysect) \div b.csize
        type   == FatType(nclst)
    IN  IF \/ b.nfats \notin {1, 2} \/ b.csize \notin {1, 2, 4}
           \/ b.nrootdir % DirPerSector # 0 \/ b.nrsv = 0
           \/ nclst = 0 \/ nclst > MaxFat32
           \/ (type = 32) # (b.nrootdir = 0)
           \/ b.fatsz < (TableBytes(type, nclst + 2) + FvSector - 1) \div FvSector
        THEN NotFat
        ELSE [type |-> type, n_fatent |-> nclst + 2, fatbase |-> b.nrsv,
              dirbase |-> IF type = 32 THEN b.rootclus ELSE b.nrsv + b.fatsz * b.nfats,
              database |-> sysect, csize |-> b.csize, fsize |-> b.fatsz,
              n_rootdir |-> b.nrootdir]

\* The bytes of the table that get_fat reads for a cluster: the two of a
\* FAT12 entry may lie in two sectors.
EntryBytes(type, clst) ==
    CASE type = 12 -> << clst + clst \div 2, clst + clst \div 2 + 1 >>
      [] type = 16 -> << clst * 2, clst * 2 + 1 >>
      [] type = 32 -> << clst * 4, clst * 4 + 1, clst * 4 + 2, clst * 4 + 3 >>

\* The number that little-endian bytes stand for.
Little(bytes) == FoldRight(LAMBDA b, acc : b + 256 * acc, bytes, 0)

OddEntry(clst) == clst % 2 = 1

\* The entry of a cluster in a table given by its bytes.
get_fat(type, table, clst) ==
    LET at == EntryBytes(type, clst)
        w  == Little([k \in DOMAIN at |-> table[at[k]]])
    IN  CASE type = 12 -> IF OddEntry(clst) THEN w \div 16 ELSE w % 4096
          [] type = 16 -> w
          [] type = 32 -> w % 2^28

-----------------------------------------------------------------------------
\* The place of an entry of a directory: its number, the sector and cluster it
\* is in (cluster 0 in the root directory of a FAT12 or FAT16 volume).  Where
\* there is none, NoPlace.  fat gives the entries of the table.
NoPlace == [dptr |-> -1, sect |-> 0, clust |-> 0]

FirstSector(v, clst) ==
    IF clst - 2 \in 0 .. v.n_fatent - 3 THEN v.database + v.csize * (clst - 2) ELSE 0

RECURSIVE ClusterAt(_, _, _, _)
ClusterAt(v, fat, clst, n) ==
    IF n = 0 THEN clst
    ELSE IF fat[clst] \in 2 .. v.n_fatent - 1 THEN ClusterAt(v, fat, fat[clst], n - 1)
    ELSE 0

dir_sdi(v, fat, sclust, ofs) ==
    LET start == IF sclust = 0 /\ v.type = 32 THEN v.dirbase ELSE sclust
        per   == v.csize * DirPerSector
        clst  == IF FirstSector(v, start) = 0 THEN 0
                 ELSE ClusterAt(v, fat, start, ofs \div per)
    IN  IF ofs >= MaxDir THEN NoPlace
        ELSE IF start = 0
        THEN IF ofs >= v.n_rootdir THEN NoPlace
             ELSE [dptr |-> ofs, sect |-> v.dirbase + ofs \div DirPerSector, clust |-> 0]
        ELSE IF clst = 0 THEN NoPlace
        ELSE [dptr |-> ofs, clust |-> clst,
              sect |-> FirstSector(v, clst) + (ofs % per) \div DirPerSector]

ClusterEnds(v, ofs) == (ofs \div DirPerSector) % v.csize = 0

dir_next(v, fat, d) ==
    LET ofs == d.dptr + 1
        clst == fat[d.clust]
    IN  IF ofs >= MaxDir THEN NoPlace
        ELSE IF ofs % DirPerSector # 0 THEN [d EXCEPT !.dptr = ofs]
        ELSE IF d.clust = 0
        THEN IF ofs >= v.n_rootdir THEN NoPlace
             ELSE [d EXCEPT !.dptr = ofs, !.sect = @ + 1]
        ELSE IF ~ClusterEnds(v, ofs) THEN [d EXCEPT !.dptr = ofs, !.sect = @ + 1]
        ELSE IF clst \notin 2 .. v.n_fatent - 1 THEN NoPlace
        ELSE [dptr |-> ofs, sect |-> FirstSector(v, clst), clust |-> clst]

-----------------------------------------------------------------------------
\* The objects of a directory.  An entry is deleted, a volume label ("odd" if it
\* has other attributes than the archive one), a part of a long name (its number, whether it is the last part, the checksum of the short
\* name it belongs to, its text) or a short name; the table ends with its
\* sequence.  A short name is "a" or "b"; a long name of one part that is "a" is
\* also a short name, "x" has no 8.3 form (NS_LOSS).
NoSum == 99
NoOrd == 99
sum_sfn(name) == IF name = "a" THEN 1 ELSE 2

\* The checksum is forgotten.
Belongs_NoSum(ord, sum, e) == ord = 0

\* Are the parts of a long name complete, and those of this short name?
Belongs(ord, sum, e) == ord = 0 /\ sum = sum_sfn(e.text)

\* The number and checksum that the next part must have, given the entry itself.
Expected(ord, sum, e) == IF e.last THEN <<e.ord, e.sum>> ELSE <<ord, sum>>

pick_lfn(lfnbuf, e) ==
    [k \in 1 .. (IF e.last THEN e.ord ELSE Len(lfnbuf)) |->
       IF k = e.ord THEN e.text ELSE IF k \in DOMAIN lfnbuf THEN lfnbuf[k] ELSE "?"]

\* The objects that dir_read delivers one after the other: the place of the
\* short entry and the object's name, the long one if it is valid.
RECURSIVE dir_read(_, _, _, _, _)
dir_read(dir, i, ord, sum, lfnbuf) ==
    IF i > Len(dir) THEN <<>> ELSE
    LET e == dir[i]
    IN  CASE e.t \in {"del", "vol"} -> dir_read(dir, i + 1, NoOrd, sum, lfnbuf)
          [] e.t = "lfn" ->
               LET x == Expected(ord, sum, e)
               IN  IF x = <<e.ord, e.sum>>
                   THEN dir_read(dir, i + 1, e.ord - 1, x[2], pick_lfn(lfnbuf, e))
                   ELSE dir_read(dir, i + 1, NoOrd, x[2], lfnbuf)
          [] e.t \in {"sfn", "odd"} ->
               << [at |-> i, name |-> IF Belongs(ord, sum, e) THEN lfnbuf ELSE <<e.text>>] >>
               \o dir_read(dir, i + 1, NoOrd, NoSum, lfnbuf)

\* The part of the name an entry of a long name is compared with.
cmp_lfn(name, e) ==
    /\ e.ord <= Len(name) /\ name[e.ord] = e.text
    /\ e.last => e.ord = Len(name)

\* The place of the short entry of the object with a name, or 0.
RECURSIVE dir_find(_, _, _, _, _)
dir_find(dir, name, i, ord, sum) ==
    IF i > Len(dir) THEN 0 ELSE
    LET e == dir[i]
    IN  CASE e.t \in {"del", "vol", "odd"} -> dir_find(dir, name, i + 1, NoOrd, sum)
          [] e.t = "lfn" ->
               LET x == Expected(ord, sum, e)
               IN  dir_find(dir, name, i + 1,
                            IF x = <<e.ord, e.sum>> /\ cmp_lfn(name, e)
                            THEN e.ord - 1 ELSE NoOrd, x[2])
          [] e.t = "sfn" ->
               IF Belongs(ord, sum, e) \/ name = <<e.text>> THEN i
               ELSE dir_find(dir, name, i + 1, NoOrd, sum)
-----------------------------------------------------------------------------
\* Boot sectors, tables, chains and directories.
MountTasks ==
    [op : {"mount"}, b : [nrsv : 0 .. 2, fatsz : 1 .. 8, nfats : 0 .. 3, csize : 0 .. 4,
                          nrootdir : {0, 2, 3}, tsect : 0 .. 20, rootclus : {2}]]
EntryTasks == [op : {"entry"}, type : {12, 16, 32}, values : [2 .. 4 -> {0, 1, 2748, 4095}]]
WalkTasks ==
    [op : {"walk"}, csize : {1, 2}, sclust : {0, 2, 3}, type : {16, 32}, fat : [2 .. 4 -> 0 .. 5]]
DirEntry ==
    {[t |-> "del"], [t |-> "vol"], [t |-> "sfn", text |-> "a"], [t |-> "sfn", text |-> "b"]}
    \cup [t : {"lfn"}, ord : {1}, last : BOOLEAN, sum : {1, 2}, text : {"a", "x"}]
    \cup [t : {"lfn"}, ord : {2}, last : BOOLEAN, sum : {1}, text : {"x"}]
    \cup IF FvOddLabels THEN {[t |-> "odd", text |-> "a"]} ELSE {}
DirNames == {<<"a">>, <<"b">>, <<"x">>, <<"a", "x">>, <<"x", "x">>}
ListTasks == [op : {"list"}, dir : UNION {[1 .. n -> DirEntry] : n \in 0 .. 4}]

FatTasks == MountTasks \cup EntryTasks \cup WalkTasks \cup ListTasks

\* The bytes of a table: entry k takes up the bits from k * type on.  The upper
\* four bits of an entry of 32 bits are not part of it.
FatByte(type, values, n) ==
    LET Value(k) == IF k < 2 THEN 4095 ELSE values[k] + (IF type = 32 THEN 7 * 2^28 ELSE 0)
        Bit(j) == IF j % type = 31 THEN 0 ELSE (Value(j \div type) \div 2^(j % type)) % 2
    IN  FoldFunction(+, 0, [j \in 0 .. 7 |-> IF (8 * n + j) \div type \in 0 .. 4
                                            THEN Bit(8 * n + j) * 2^j ELSE 0])
FatBytes(type, values) == [n \in 0 .. (5 * type) \div 8 |-> FatByte(type, values, n)]

WalkVolume ==
    [type |-> task.type, n_fatent |-> 5, csize |-> task.csize, database |-> 20,
     dirbase |-> IF task.type = 32 THEN 2 ELSE 10, n_rootdir |-> IF task.type = 32 THEN 0 ELSE 4]
RECURSIVE DirWalk(_)
DirWalk(d) ==
    IF d = NoPlace THEN <<>> ELSE <<d>> \o DirWalk(dir_next(WalkVolume, task.fat, d))

MountTask == Compute("mount", mount_volume(task.b))
EntryTask ==
    LET table == FatBytes(task.type, task.values)
    IN  Compute("entry", [c \in 2 .. 4 |-> get_fat(task.type, table, c)])
WalkTask ==
    Compute("walk", [places |-> [k \in 0 .. MaxDir |-> dir_sdi(WalkVolume, task.fat, task.sclust, k)],
                     walk |-> DirWalk(dir_sdi(WalkVolume, task.fat, task.sclust, 0))])
ListTask ==
    Compute("list", [listed |-> dir_read(task.dir, 1, NoOrd, NoSum, <<>>),
                     found |-> [n \in DirNames |-> dir_find(task.dir, n, 1, NoOrd, NoSum)]])
FatTask == MountTask \/ EntryTask \/ WalkTask \/ ListTask

-----------------------------------------------------------------------------
\* A volume that is mounted is sound: the tables, the root directory and all the
\* clusters lie in this order inside the volume, and the bytes of every entry
\* that get_fat may read lie inside the table, as the size check ("Needed FAT
\* size") is to ensure.
VolumeSound ==
    Computed("mount") /\ result.type # 0 =>
      LET root == result.fatbase + result.fsize * task.b.nfats
      IN  /\ 0 < result.fatbase /\ result.fatbase < root /\ root <= result.database
          /\ root + task.b.nrootdir \div DirPerSector <= result.database
          /\ \A c \in 2 .. result.n_fatent - 1 :
               /\ FirstSector(result, c) >= result.database
               /\ FirstSector(result, c) + result.csize <= task.b.tsect
               /\ \A k \in Range(EntryBytes(result.type, c)) : k < result.fsize * FvSector

\* get_fat reads the entry that is stored, for the three widths, for FAT12
\* entries on both sides of a byte they share.
EntriesDecoded == Computed("entry") => \A c \in 2 .. 4 : result[c] = task.values[c]

\* Walking through a directory with dir_next and going to an entry with dir_sdi
\* agree: the same entries in the same sectors, and the same end, in fixed root
\* directories, along chains, chains that end badly and chains that loop.
WalkAgreesWithIndex ==
    Computed("walk") =>
      /\ \A k \in 1 .. Len(result.walk) : result.walk[k] = result.places[k - 1]
      /\ result.places[Len(result.walk)] = NoPlace

\* The long name that belongs to the short one at i: parts n .. 1 right before
\* it, all with its checksum, the first of them marked as the last part.
LongName(dir, i) ==
    LET Parts(n) ==
          /\ n < i
          /\ \A k \in 1 .. n : /\ dir[i - k].t = "lfn" /\ dir[i - k].ord = k
                               /\ dir[i - k].last = (k = n) /\ dir[i - k].sum = sum_sfn(dir[i].text)
        ns == {n \in 1 .. 2 : Parts(n)}
    IN  IF ns = {} THEN <<dir[i].text>> ELSE [k \in 1 .. Max(ns) |-> dir[i - k].text]

\* The listing shows every object under the long name that belongs to it, never
\* under parts left over from a deleted or another object, and looking a name up
\* finds the first object that is listed so or has it as its short name.
ListedAndFound ==
    Computed("list") =>
      LET dir == task.dir
          objects == {i \in DOMAIN dir : dir[i].t \in {"sfn", "odd"}}
      IN  /\ result.listed = [k \in 1 .. Cardinality(objects) |->
                                LET i == SetToSortSeq(objects, <)[k]
                                IN  [at |-> i, name |-> LongName(dir, i)]]
          /\ \A n \in DirNames :
               result.found[n] =
                 LET those == {i \in objects : LongName(dir, i) = n \/ <<dir[i].text>> = n}
                 IN  IF those = {} THEN 0 ELSE Min(those)

\* What mounting, the allocation table and the directories of a FAT volume are
\* taken for is what is on the disk.
FatVolumeRight == VolumeSound /\ EntriesDecoded /\ WalkAgreesWithIndex /\ ListedAndFound
=============================================================================
