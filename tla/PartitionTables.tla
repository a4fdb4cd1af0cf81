--------------------------- MODULE PartitionTables ---------------------------
(***************************************************************************)
(* The partition that pc-parts, mac-parts and sun-parts open: which entry  *)
(* of the table, which part of the disk, and where seek goes in it.        *)
(*                                                                         *)
(* Cells have PtBits bits and a block PtBlock bytes; starts and sizes are  *)
(* given in blocks.  A find-filesystem that is successful is the "fs" of   *)
(* an entry.                                                               *)
(***************************************************************************)
EXTENDS Integers, Sequences, FiniteSetsExt, Tasks

CONSTANT
  PtAll   \* also logical PC partitions, PC tables with only a fourth entry, and Mac
          \* maps whose entries state different numbers of entries?

PtBits == 3
PtBlock == 2

\* A position as it is kept in two cells.
Halves_Low(n) == [hi |-> 0, lo |-> n % 2^PtBits]

Halves(n) == [hi |-> n \div 2^PtBits, lo |-> n % 2^PtBits]

Joined(h) == h.hi * 2^PtBits + h.lo

NotOpened == [ok |-> FALSE]
Opened(start, blocks, interposed) ==
  [ok |-> TRUE, offs |-> Halves(start * PtBlock), size |-> Halves(blocks * PtBlock),
   interposed |-> interposed]

\* pcparts_seek, macparts_seek, sunparts_seek: the position given to the parent.
SeekBad == -1
parts_seek(di, pos) == IF pos > Joined(di.size) THEN SeekBad ELSE Joined(di.offs) + pos

-----------------------------------------------------------------------------
\* PC.  Type 0 is empty, 5 an extended partition, 65 (0x41) a PReP one.
is_pc_extended_part(type) == type = 5

PcArea(base, p) == Opened(base + p.start, p.blocks, p.type # 65 /\ p.fs)

\* The entries are looked for in the fresh, never written memory p (heap), and
\* only sizeof(512) bytes of every table are read, so that the entries seen are
\* those of the first sector.
PcLogical(table, parnum, heap) ==
  LET exts  == {i \in 1 .. 4 : is_pc_extended_part(heap[i].type)}
      start == heap[Min(exts)].start
      base  == IF parnum = 4 THEN start ELSE start + table[2].start
  IN  IF \/ exts = {} \/ table[1].type = 0
         \/ parnum > 4 /\ ~is_pc_extended_part(table[2].type)
      THEN NotOpened
      ELSE PcArea(base, table[1])

PcPrimary(p) ==
  IF p.type = 0 \/ is_pc_extended_part(p.type) THEN NotOpened ELSE PcArea(0, p)

pcparts_probe(table) == \E i \in 1 .. 3 : table[i].type # 0

pcparts_open(table, parnum, heap) ==
  IF parnum < 4 THEN PcPrimary(table[parnum + 1]) ELSE PcLogical(table, parnum, heap)

-----------------------------------------------------------------------------
\* Mac.  map[1] describes the map itself; an entry says whether its signature is
\* right, how many entries there are (count), whether it is valid, allocated and
\* readable (usable), bootable for a PowerPC (chrp), and of a type that Apple's
\* Open Firmware boots (apple).
\* The number is taken anew from every entry that is read.
MacVisited(map) ==
  {i \in DOMAIN map : \A k \in 1 .. i : k <= map[IF k = 1 THEN 1 ELSE k - 1].count}

MacSound(map) == {i \in MacVisited(map) : map[i].sig /\ map[i].blocks > 0}

MacChosen(map) ==
  LET chrp  == {i \in MacSound(map) : map[i].usable /\ map[i].chrp}
      apple == {i \in MacSound(map) : map[i].apple}
      first == IF chrp = {} THEN <<>> ELSE <<Max(chrp)>>
  IN  IF apple = {} \/ (chrp # {} /\ Max(chrp) = Min(apple)) THEN first
      ELSE Append(first, Min(apple))

MacBootcode(p) ==
  IF p.bootsize = 0 THEN NotOpened
  ELSE [ok |-> TRUE, offs |-> Halves((p.start + p.bootstart) * PtBlock),
        size |-> Halves(p.bootsize), interposed |-> FALSE]

\* The candidates in turn, until one has a file system.
MacTried(map, parlist, arg) ==
  LET good == {j \in DOMAIN parlist : map[parlist[j]].fs}
      p    == map[parlist[IF good = {} THEN Len(parlist) ELSE Min(good)]]
  IN  IF parlist = <<>> \/ (good = {} /\ arg = "file") THEN NotOpened
      ELSE Opened(p.start, p.blocks, p.fs /\ arg = "file")

\* arg is "none" (no arguments at all), "" , "file" or "%BOOT"; parnum -1 means
\* that none is given.
macparts_open(map, parnum, arg, total) ==
  LET parlist == IF parnum = -1 THEN MacChosen(map) ELSE <<parnum>>
  IN  IF ~map[1].sig THEN NotOpened
      ELSE IF arg = "none" \/ parnum = 0 THEN Opened(0, total, FALSE)
      ELSE IF arg = "%BOOT"
      THEN IF parlist = <<>> THEN NotOpened ELSE MacBootcode(map[parlist[1]])
      ELSE MacTried(map, parlist, arg)

-----------------------------------------------------------------------------
\* Sun.  A partition starts at a cylinder.
sunparts_open(label, parnum) ==
  LET p == label.partitions[IF parnum < 0 THEN 1 ELSE parnum + 1]
  IN  IF p.blocks = 0 THEN NotOpened
      ELSE Opened(p.cyl * label.ntrks * label.nsect, p.blocks, p.fs)

-----------------------------------------------------------------------------
PcEntry ==
  {[type |-> 0, start |-> 0, blocks |-> 0, fs |-> FALSE],
   [type |-> 5, start |-> 1, blocks |-> 9, fs |-> FALSE],
   [type |-> 11, start |-> 3, blocks |-> 2, fs |-> TRUE],
   [type |-> 65, start |-> 9, blocks |-> 5, fs |-> TRUE]}
PcTasks ==
  {t \in [op : {"pc"}, table : [1 .. 4 -> PcEntry], parnum : 0 .. (IF PtAll THEN 5 ELSE 3),
          heap : [1 .. 4 -> {[type |-> x, start |-> 1] : x \in {0, 5}}]] :
     /\ t.parnum < 4 => \A i \in 1 .. 4 : t.heap[i].type = 0
     /\ PtAll \/ \E i \in 1 .. 3 : t.table[i].type # 0}

\* Entry i of a map; the bootable ones have boot code.
MacEntry(i, e) ==
  [sig |-> e.sound, count |-> e.count, usable |-> e.usable, chrp |-> e.chrp, apple |-> e.apple,
   blocks |-> 2, start |-> 3 * i, bootstart |-> 1, bootsize |-> IF e.chrp THEN 3 ELSE 0,
   fs |-> e.fs]
MacSketch ==
  [sound : BOOLEAN, usable : BOOLEAN, chrp : BOOLEAN, apple : BOOLEAN, fs : BOOLEAN,
   count : IF PtAll THEN {1, 3} ELSE {3}]
MacTasks ==
  {[op |-> "mac", parnum |-> n, arg |-> a,
    map |-> << MacEntry(1, [sound |-> s, usable |-> TRUE, chrp |-> FALSE, apple |-> FALSE,
                            fs |-> FALSE, count |-> 3]), MacEntry(2, e), MacEntry(3, f) >>] :
   n \in {-1, 0, 2, 3}, a \in {"none", "", "file", "%BOOT"}, s \in BOOLEAN,
   e \in MacSketch, f \in MacSketch}

SunTasks ==
  [op : {"sun"}, parnum : -1 .. 1,
   label : [partitions : [1 .. 2 -> [cyl : {0, 1, 3}, blocks : {0, 3}, fs : BOOLEAN]],
            ntrks : {1, 2}, nsect : {1, 3}]]

PartTasks == PcTasks \cup MacTasks \cup SunTasks

WithSeeks(di) ==
  [di |-> di, seeks |-> IF di.ok THEN [pos \in 0 .. 40 |-> parts_seek(di, pos)] ELSE <<>>]

PcTask == Compute("pc", WithSeeks(pcparts_open(task.table, task.parnum, task.heap)))
MacTask == Compute("mac", WithSeeks(macparts_open(task.map, task.parnum, task.arg, 20)))
SunTask == Compute("sun", WithSeeks(sunparts_open(task.label, task.parnum)))
PartTask == PcTask \/ MacTask \/ SunTask

-----------------------------------------------------------------------------
\* Position pos of the partition is position pos of its blocks on the disk, up to
\* its end and not beyond, wherever on the disk it lies: positions are longer than
\* a cell.
Reaches(start, bytes) ==
  /\ result.di.ok
  /\ \A pos \in 0 .. 40 :
       result.seeks[pos] = IF pos > bytes THEN SeekBad ELSE start * PtBlock + pos

\* A partition that is asked for by its number is opened if the label has it, and
\* its bytes are reached through seek (the DPUSH of two cells included).
PartitionReached ==
  /\ Computed("pc") /\ task.parnum < 4 =>
       LET p == task.table[task.parnum + 1]
       IN  IF p.type \in {0, 5} THEN ~result.di.ok ELSE Reaches(p.start, p.blocks * PtBlock)
  /\ Computed("mac") /\ task.parnum >= 0 /\ task.map[1].sig =>
       LET p == task.map[task.parnum]
       IN  CASE task.arg = "none" \/ task.parnum = 0 -> Reaches(0, 20 * PtBlock)
             [] task.parnum > 0 /\ task.arg = "" -> Reaches(p.start, p.blocks * PtBlock)
             [] task.parnum > 0 /\ task.arg = "%BOOT" /\ p.chrp -> Reaches(p.start + 1, 3)
             [] OTHER -> TRUE
  /\ Computed("sun") /\ task.parnum >= 0 =>
       LET p == task.label.partitions[task.parnum + 1]
       IN  IF p.blocks = 0 THEN ~result.di.ok
           ELSE Reaches(p.cyl * task.label.ntrks * task.label.nsect, p.blocks * PtBlock)

\* A file is looked for on a Mac disk without a partition number: it is opened on
\* a partition with a file system that may be booted, on the CHRP one if that has
\* a file system, and refused only if no candidate has one.
MacChoice ==
  Computed("mac") /\ task.map[1].sig /\ task.parnum = -1 /\ task.arg = "file" =>
    LET sound == {i \in 2 .. 3 : task.map[i].sig}
        chrp  == {i \in sound : task.map[i].usable /\ task.map[i].chrp}
        apple == {i \in sound : task.map[i].apple}
        There(i) == Reaches(task.map[i].start, task.map[i].blocks * PtBlock)
    IN  IF result.di.ok
        THEN /\ result.di.interposed
             /\ \E i \in chrp \cup apple : task.map[i].fs /\ There(i)
             /\ (\A i \in chrp : task.map[i].fs) /\ chrp # {} => \E i \in chrp : There(i)
        ELSE \/ \E i \in chrp \cup apple : ~task.map[i].fs
             \/ chrp \cup apple = {}

\* "Search for the extended partition which contains logical partitions": a
\* logical partition is opened only if the table has an extended one.
LogicalRight ==
  Computed("pc") /\ task.parnum >= 4 /\ result.di.ok =>
    \E i \in 1 .. 4 : is_pc_extended_part(task.table[i].type)

\* "Make sure the partition table contains at least one valid entry".
ProbeRight ==
  Computed("pc") => pcparts_probe(task.table) = (\E i \in 1 .. 4 : task.table[i].type # 0)

\* The partition packages reach the partition that was named, or on a Mac disk
\* the one the search is to choose, and exactly its bytes.
PartitionsRight == PartitionReached /\ MacChoice
=============================================================================
