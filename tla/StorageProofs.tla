---------------------------- MODULE StorageProofs ----------------------------
(***************************************************************************)
(* Two things that are handed out and taken back: files, from the tables   *)
(* that the file system packages share, for any number of disks,           *)
(* descriptors, FAT volumes and open files; and blocks of memory, from the *)
(* allocator of the Forth kernel.                                          *)
(***************************************************************************)
EXTENDS FileSystems, WellFoundedInduction, Allocator, TLAPS

\* Seconds that the SMT solver has for a leaf.
USE SMTT(60)

FsPackages == {"hfsplus", "hfs", "ext2", "fatfs", "iso9660", "grubfs"}

\* The tables, an open file, and the state of the packages.
SysType(s) ==
  /\ s = [fds |-> s.fds, FatFs |-> s.FatFs, curfs |-> s.curfs, common |-> s.common]
  /\ s.fds \in [Descriptors -> [disk : FsDisks \cup {"none"}, by : FsPackages \cup {"none"}]]
  /\ DOMAIN s.FatFs = 0 .. FatVolumes - 1
FileType == [fs : FsPackages, disk : FsDisks, fd : Descriptors, file : {"missing", "found"}]
FsTypeOK ==
  /\ SysType(sys)
  /\ inst \in [FsSlots -> FileType \cup {Closed}]
  /\ found \in [fs : FsPackages, disk : FsDisks] \cup {NothingFound}

\* A file has its descriptor, and if it is a FAT file its volume.
Held(s, i) ==
  /\ s.fds[inst[i].fd] = [disk |-> inst[i].disk, by |-> inst[i].fs]
  /\ inst[i].fs = "fatfs" => inst[i].fd < FatVolumes /\ s.FatFs[inst[i].fd] = i

\* Two files have different descriptors, and the descriptors of the FAT and the
\* iso9660 package belong to files.
FsTables(s) ==
  /\ \A i \in FsSlots : inst[i] # Closed => Held(s, i)
  /\ \A fd \in Descriptors : s.fds[fd].by \in {"iso9660", "fatfs"} =>
       \E i \in FsSlots : inst[i] # Closed /\ inst[i].fd = fd
FdsDiffer ==
  \A i, j \in FsSlots : i # j /\ inst[i] # Closed /\ inst[j] # Closed => inst[i].fd # inst[j].fd

\* The packages with state of their own: a file of theirs is open, or about to be
\* opened, only on its own, and their state is about this file.
AllClosed == \A i \in FsSlots : inst[i] = Closed
GrubOn(s, d) == s.curfs \in Descriptors /\ s.fds[s.curfs] = [disk |-> d, by |-> "grubfs"]
FsLone ==
  /\ found.fs \in {"iso9660", "grubfs"} => AllClosed
  /\ found.fs = "grubfs" => GrubOn(sys, found.disk)
  /\ \A i \in FsSlots : inst[i].fs \in {"iso9660", "grubfs"} =>
       /\ found = NothingFound
       /\ \A j \in FsSlots : j # i => inst[j] = Closed
       /\ inst[i].fs = "grubfs" => GrubOn(sys, inst[i].disk)
       /\ inst[i].fs = "iso9660" => sys.common = i

FsInv == FsTypeOK /\ FsTables(sys) /\ FdsDiffer /\ FsLone


\* open_ih takes a descriptor that is free.
LEMMA OpenIhFree ==
  ASSUME NEW s, open_ih(s) # NoFd
  PROVE  open_ih(s) \in Descriptors /\ s.fds[open_ih(s)] = FreeFd
<1> DEFINE T == {fd \in Descriptors : s.fds[fd] = FreeFd}
<1>1. T # {} /\ open_ih(s) = Min(T)
  BY DEF open_ih
<1>2. T \in SUBSET Nat
  BY FileSystemsAssumption DEF Descriptors
<1> HIDE DEF T
<1>3. PICK x \in T : \A y \in T : ~(<<y, x>> \in OpToRel(<, Nat))
  BY <1>1, <1>2, NatLessThanWellFounded, WFMin, Zenon
<1>4. \A y \in T : ~(y < x)
  BY <1>2, <1>3, Zenon DEF OpToRel
<1>5. \E y \in T : \A z \in T : y <= z
  BY <1>2, <1>4
<1>6. Min(T) \in T
  BY <1>5, Zenon DEF Min
<1> QED BY <1>1, <1>6, Zenon DEF T

\* What becomes of a descriptor that no file has, and of the volume with its
\* number, is of no concern to the files.
LEMMA TablesKept ==
  ASSUME FsTypeOK, NEW s, SysType(s), FsTables(s), NEW t, SysType(t),
         NEW fd \in Descriptors, s.fds[fd] = FreeFd,
         t.fds[fd].by \notin {"iso9660", "fatfs"},
         \A x \in Descriptors \ {fd} : t.fds[x] = s.fds[x],
         \A v \in 0 .. FatVolumes - 1 : v # fd => t.FatFs[v] = s.FatFs[v]
  PROVE  FsTables(t)
<1>1. ASSUME NEW i \in FsSlots, inst[i] # Closed PROVE Held(t, i)
  <2>1. inst[i] \in FileType
    BY <1>1, Zenon DEF FsTypeOK
  <2>2. inst[i].fd \in Descriptors /\ inst[i].fs \in FsPackages
    BY <2>1, Zenon DEF FileType
  <2>3. Held(s, i)
    BY <1>1, Zenon DEF FsTables
  <2>4. inst[i].fd # fd
    BY <2>2, <2>3 DEF Held, FreeFd, FsPackages
  <2>5. t.fds[inst[i].fd] = s.fds[inst[i].fd]
    BY <2>2, <2>4, Zenon
  <2>6. inst[i].fd < FatVolumes => t.FatFs[inst[i].fd] = s.FatFs[inst[i].fd]
    <3>1. inst[i].fd < FatVolumes => inst[i].fd \in 0 .. FatVolumes - 1
      BY <2>2, FileSystemsAssumption DEF Descriptors
    <3> QED BY <2>4, <3>1, Zenon
  <2> QED BY <2>3, <2>5, <2>6, Zenon DEF Held
<1>2. ASSUME NEW x \in Descriptors, t.fds[x].by \in {"iso9660", "fatfs"}
      PROVE  \E i \in FsSlots : inst[i] # Closed /\ inst[i].fd = x
  <2>1. x # fd
    BY <1>2, Zenon
  <2>2. s.fds[x].by \in {"iso9660", "fatfs"}
    BY <1>2, <2>1, Zenon
  <2> QED BY <2>2, Zenon DEF FsTables
<1> QED BY <1>1, <1>2, Zenon DEF FsTables

\* What the helpers leave of the tables.
LEMMA OccupiedIs ==
  ASSUME NEW s, SysType(s), NEW fd \in Descriptors, NEW p \in FsPackages \cup {"none"},
         NEW d \in FsDisks \cup {"none"}
  PROVE  LET t == Occupied(s, fd, p, d)
         IN  /\ SysType(t)
             /\ t.fds[fd] = [disk |-> d, by |-> p]
             /\ \A x \in Descriptors \ {fd} : t.fds[x] = s.fds[x]
             /\ t.FatFs = s.FatFs /\ t.curfs = s.curfs /\ t.common = s.common
<1> DEFINE t == Occupied(s, fd, p, d)
<1>1. s = [fds |-> s.fds, FatFs |-> s.FatFs, curfs |-> s.curfs, common |-> s.common]
  BY DEF SysType
<1>2. t = [fds |-> [s.fds EXCEPT ![fd] = [disk |-> d, by |-> p]], FatFs |-> s.FatFs,
           curfs |-> s.curfs, common |-> s.common]
  BY <1>1 DEF Occupied
<1>3. /\ t.fds = [s.fds EXCEPT ![fd] = [disk |-> d, by |-> p]] /\ t.FatFs = s.FatFs
      /\ t.curfs = s.curfs /\ t.common = s.common
  BY <1>2
<1>4. t = [fds |-> t.fds, FatFs |-> t.FatFs, curfs |-> t.curfs, common |-> t.common]
  BY <1>2, <1>3, Zenon
<1> QED BY <1>3, <1>4 DEF SysType

LEMMA MountedIs ==
  ASSUME NEW s, SysType(s), NEW fd \in Descriptors, NEW o
  PROVE  LET t == f_mount(s, fd, o)
         IN  /\ SysType(t) /\ t.fds = s.fds /\ t.curfs = s.curfs /\ t.common = s.common
             /\ fd < FatVolumes => t.FatFs[fd] = o
             /\ \A v \in 0 .. FatVolumes - 1 : v # fd => t.FatFs[v] = s.FatFs[v]
<1> DEFINE t == f_mount(s, fd, o)
<1>1. s = [fds |-> s.fds, FatFs |-> s.FatFs, curfs |-> s.curfs, common |-> s.common]
  BY DEF SysType
<1>2. CASE fd < FatVolumes
  <2>1. t = [fds |-> s.fds, FatFs |-> [s.FatFs EXCEPT ![fd] = o], curfs |-> s.curfs,
             common |-> s.common]
    BY <1>1, <1>2 DEF f_mount
  <2>2. fd \in 0 .. FatVolumes - 1
    BY <1>2, FileSystemsAssumption DEF Descriptors
  <2>3. /\ t.FatFs = [s.FatFs EXCEPT ![fd] = o] /\ t.fds = s.fds
        /\ t.curfs = s.curfs /\ t.common = s.common
    BY <2>1
  <2>4. t = [fds |-> t.fds, FatFs |-> t.FatFs, curfs |-> t.curfs, common |-> t.common]
    BY <2>1, <2>3, Zenon
  <2>5. SysType(t)
    BY <2>3, <2>4, Zenon DEF SysType
  <2>6. DOMAIN s.FatFs = 0 .. FatVolumes - 1
    BY Zenon DEF SysType
  <2>7. t.FatFs[fd] = o
    BY <2>2, <2>3, <2>6, Zenon
  <2>8. \A v \in 0 .. FatVolumes - 1 : v # fd => t.FatFs[v] = s.FatFs[v]
    BY <2>3, <2>6, Zenon
  <2> QED BY <2>3, <2>5, <2>7, <2>8, Zenon
<1>3. CASE ~(fd < FatVolumes)
  BY <1>3, Zenon DEF f_mount
<1> QED BY <1>2, <1>3

-----------------------------------------------------------------------------
\* What the probes leave behind while they are asked, and what they may answer.
AskedOK(acc, d) ==
  /\ SysType(acc.s) /\ FsTables(acc.s)
  /\ acc.fs \in FsPackages \cup {"none"}
  /\ acc.fs = "none" => open_ih(acc.s) # NoFd
  /\ acc.fs \in {"iso9660", "grubfs"} => FsOn[d] = acc.fs
  /\ acc.fs = "grubfs" => GrubOn(acc.s, d)

LEMMA SameFds ==
  ASSUME NEW s, NEW t, t.fds = s.fds
  PROVE  open_ih(t) = open_ih(s)
BY Zenon DEF open_ih

LEMMA AskedNow ==
  ASSUME NEW acc, acc.fs = "none", NEW p, NEW d, NEW t, NEW f,
         Probe(p, acc.s, d) = [s |-> t, found |-> f]
  PROVE  Asked(acc, p, d) = [s |-> t, fs |-> IF f THEN p ELSE "none"]
BY DEF Asked

\* hfsplus is asked first, and answers "found" for every disk when there is no
\* descriptor left.
LEMMA FirstAsked ==
  ASSUME FsTypeOK, FsTables(sys), NEW d \in FsDisks
  PROVE  AskedOK(Asked([s |-> sys, fs |-> "none"], "hfsplus", d), d)
<1> DEFINE a == Asked([s |-> sys, fs |-> "none"], "hfsplus", d)
<1> DEFINE f == open_ih(sys) = NoFd \/ FsOn[d] = "hfsplus"
<1>1. Probe("hfsplus", sys, d) = [s |-> sys, found |-> f]
  BY Zenon DEF Probe, hfsp_files_probe, ProbeAndClose
<1>2. a.s = sys /\ a.fs \in {"hfsplus", "none"} /\ (a.fs = "none" => open_ih(sys) # NoFd)
  <2> HIDE DEF f
  <2>1. a = [s |-> sys, fs |-> IF f THEN "hfsplus" ELSE "none"]
    BY <1>1, AskedNow
  <2>2. a.s = sys /\ a.fs \in {"hfsplus", "none"} /\ (a.fs = "none" => ~f)
    BY <2>1
  <2> QED BY <2>2, Zenon DEF f
<1> HIDE DEF a
<1>3. SysType(sys)
  BY Zenon DEF FsTypeOK
<1>4. a.fs \in FsPackages \cup {"none"} /\ a.fs \notin {"iso9660", "grubfs"} /\ a.fs # "grubfs"
  BY <1>2 DEF FsPackages
<1> QED BY <1>2, <1>3, <1>4, Zenon DEF AskedOK, a

\* The packages that close the descriptor again.
LEMMA ClosingAsked ==
  ASSUME FsTypeOK, NEW d \in FsDisks, NEW acc, AskedOK(acc, d), NEW p \in {"hfs", "ext2", "iso9660"}
  PROVE  AskedOK(Asked(acc, p, d), d)
<1>1. CASE acc.fs # "none"
  BY <1>1, Zenon DEF Asked
<1>2. CASE acc.fs = "none"
  <2> DEFINE a == Asked(acc, p, d)
  <2>1. Probe(p, acc.s, d) = ProbeAndClose(acc.s, p, d)
    BY Zenon DEF Probe, hfs_files_probe, ext2_files_probe, iso9660_files_probe
  <2>2. open_ih(acc.s) # NoFd
    BY <1>2, Zenon DEF AskedOK
  <2> DEFINE f == open_ih(acc.s) = NoFd \/ FsOn[d] = p
  <2>3. f = TRUE => FsOn[d] = p
    BY <2>2, Zenon
  <2>4. /\ a.s = acc.s /\ a.fs \in FsPackages \cup {"none"}
        /\ (a.fs \in {"iso9660", "grubfs"} => FsOn[d] = a.fs) /\ a.fs # "grubfs"
    <3>1. Probe(p, acc.s, d) = [s |-> acc.s, found |-> f]
      BY <2>1, Zenon DEF ProbeAndClose
    <3> HIDE DEF f
    <3>2. a = [s |-> acc.s, fs |-> IF f THEN p ELSE "none"]
      BY <1>2, <3>1, AskedNow
    <3>3. a.s = acc.s /\ a.fs = IF f THEN p ELSE "none"
      BY <3>2
    <3>4. a.fs = "none" \/ (a.fs = p /\ FsOn[d] = p)
      BY <2>3, <3>3
    <3> HIDE DEF a
    <3> QED BY <3>3, <3>4 DEF FsPackages
  <2> HIDE DEF a
  <2> QED BY <2>2, <2>4, Zenon DEF AskedOK, a
<1> QED BY <1>1, <1>2, Zenon

\* fatfs registers an object at a number that no file has.
LEMMA FatAsked ==
  ASSUME FsTypeOK, NEW d \in FsDisks, NEW acc, AskedOK(acc, d)
  PROVE  AskedOK(Asked(acc, "fatfs", d), d)
<1>1. CASE acc.fs # "none"
  BY <1>1, Zenon DEF Asked
<1>2. CASE acc.fs = "none"
  <2> DEFINE a == Asked(acc, "fatfs", d)
             fd == open_ih(acc.s)
             ok == Mountable("fatfs", d, fd)
             o == IF ok THEN NoObject ELSE FreedObject
             t == f_mount(acc.s, fd, o)
  <2>1. fd # NoFd /\ SysType(acc.s) /\ FsTables(acc.s)
    BY <1>2, Zenon DEF AskedOK
  <2>2. a = [s |-> t, fs |-> IF ok THEN "fatfs" ELSE "none"]
    <3>1. Probe("fatfs", acc.s, d) = fatfs_files_probe(acc.s, d)
      BY Zenon DEF Probe
    <3>2. fatfs_files_probe(acc.s, d) = [s |-> t, found |-> ok]
      BY <2>1, Zenon DEF fatfs_files_probe
    <3> HIDE DEF t, ok
    <3> QED BY <1>2, <3>1, <3>2 DEF Asked
  <2>3. fd \in Descriptors /\ acc.s.fds[fd] = FreeFd
    BY <2>1, OpenIhFree, Zenon
  <2>4. a.s = t /\ a.fs \in {"fatfs", "none"}
    BY <2>2
  <2> HIDE DEF a, t, ok, o
  <2>5. /\ SysType(t) /\ t.fds = acc.s.fds
        /\ \A v \in 0 .. FatVolumes - 1 : v # fd => t.FatFs[v] = acc.s.FatFs[v]
    BY <2>1, <2>3, MountedIs DEF t
  <2>6. FreeFd.by \notin {"iso9660", "fatfs"}
    BY DEF FreeFd
  <2>7. FsTables(t)
    BY <2>1, <2>3, <2>5, <2>6, TablesKept, Zenon
  <2>8. open_ih(t) # NoFd
    BY <2>1, <2>5, SameFds, Zenon
  <2>9. a.fs \in FsPackages \cup {"none"} /\ a.fs \notin {"iso9660", "grubfs"} /\ a.fs # "grubfs"
    BY <2>4 DEF FsPackages
  <2> QED BY <2>4, <2>5, <2>7, <2>8, <2>9, Zenon DEF AskedOK, a
<1> QED BY <1>1, <1>2, Zenon

\* grubfs is asked last and keeps a descriptor when it answers.
LEMMA GrubAsked ==
  ASSUME FsTypeOK, NEW d \in FsDisks, NEW acc, AskedOK(acc, d)
  PROVE  /\ SysType(Asked(acc, "grubfs", d).s) /\ FsTables(Asked(acc, "grubfs", d).s)
         /\ Asked(acc, "grubfs", d).fs \in FsPackages \cup {"none"}
         /\ Asked(acc, "grubfs", d).fs \in {"iso9660", "grubfs"} =>
              FsOn[d] = Asked(acc, "grubfs", d).fs
         /\ Asked(acc, "grubfs", d).fs = "grubfs" => GrubOn(Asked(acc, "grubfs", d).s, d)
<1>1. CASE acc.fs # "none"
  BY <1>1, Zenon DEF Asked, AskedOK
<1>2. CASE acc.fs = "none"
  <2> DEFINE a == Asked(acc, "grubfs", d)
             s == acc.s
             fd == open_ih(s)
             t == [s EXCEPT !.curfs = fd]
  <2>1. fd # NoFd /\ SysType(s) /\ FsTables(s)
    BY <1>2, Zenon DEF AskedOK
  <2>2. fd \in Descriptors /\ s.fds[fd] = FreeFd
    BY <2>1, OpenIhFree, Zenon
  <2>3. a = IF FsOn[d] = "grubfs" THEN [s |-> Occupied(t, fd, "grubfs", d), fs |-> "grubfs"]
            ELSE [s |-> t, fs |-> "none"]
    <3>1. Probe("grubfs", s, d) = grubfs_files_probe(s, d)
      BY Zenon DEF Probe
    <3>2. grubfs_files_probe(s, d) =
            IF FsOn[d] = "grubfs" THEN [s |-> Occupied(t, fd, "grubfs", d), found |-> TRUE]
            ELSE [s |-> t, found |-> FALSE]
      BY <2>1, Zenon DEF grubfs_files_probe
    <3> HIDE DEF t, fd
    <3> QED BY <1>2, <3>1, <3>2 DEF Asked
  <2>4. s = [fds |-> s.fds, FatFs |-> s.FatFs, curfs |-> s.curfs, common |-> s.common]
    BY <2>1, Zenon DEF SysType
  <2>5. t = [fds |-> s.fds, FatFs |-> s.FatFs, curfs |-> fd, common |-> s.common]
    BY <2>4
  <2>6. t.fds = s.fds /\ t.FatFs = s.FatFs /\ t.curfs = fd /\ t.common = s.common
    BY <2>5
  <2> HIDE DEF a, fd, t
  <2>7. SysType(t)
    <3>1. t = [fds |-> t.fds, FatFs |-> t.FatFs, curfs |-> t.curfs, common |-> t.common]
      BY <2>5, <2>6, Zenon
    <3> QED BY <2>1, <2>6, <3>1, Zenon DEF SysType
  <2>8. FreeFd.by \notin {"iso9660", "fatfs"}
    BY DEF FreeFd
  <2>9. FsTables(t)
    BY <2>1, <2>2, <2>6, <2>7, <2>8, TablesKept, Zenon
  <2>10. CASE FsOn[d] = "grubfs"
    <3> DEFINE u == Occupied(t, fd, "grubfs", d)
    <3>1. a.s = u /\ a.fs = "grubfs"
      BY <2>3, <2>10
    <3>2. "grubfs" \in FsPackages
      BY DEF FsPackages
    <3> HIDE DEF u
    <3>3. /\ SysType(u) /\ u.fds[fd] = [disk |-> d, by |-> "grubfs"]
          /\ \A x \in Descriptors \ {fd} : u.fds[x] = t.fds[x]
          /\ u.FatFs = t.FatFs /\ u.curfs = t.curfs
      BY <2>2, <2>7, <3>2, OccupiedIs DEF u
    <3>4. t.fds[fd] = FreeFd /\ u.fds[fd].by \notin {"iso9660", "fatfs"}
      BY <2>2, <2>6, <3>3
    <3>5. FsTables(u)
      BY <2>2, <2>7, <2>9, <3>3, <3>4, TablesKept, Zenon
    <3>6. GrubOn(u, d)
      BY <2>2, <2>6, <3>3, Zenon DEF GrubOn
    <3> QED BY <2>10, <3>1, <3>2, <3>3, <3>5, <3>6, Zenon DEF a
  <2>11. CASE FsOn[d] # "grubfs"
    <3>1. a.s = t /\ a.fs = "none"
      BY <2>3, <2>11
    <3>2. a.fs \notin {"iso9660", "grubfs"} /\ a.fs # "grubfs"
      BY <3>1
    <3> QED BY <2>7, <2>9, <3>1, <3>2, Zenon DEF a
  <2> QED BY <2>10, <2>11, Zenon
<1> QED BY <1>1, <1>2, Zenon

\* All of them in turn.
LEMMA AllAskedOK ==
  ASSUME FsTypeOK, FsTables(sys), NEW d \in FsDisks
  PROVE  LET r == AllAsked(sys, d)
         IN  /\ SysType(r.s) /\ FsTables(r.s) /\ r.fs \in FsPackages \cup {"none"}
             /\ r.fs \in {"iso9660", "grubfs"} => FsOn[d] = r.fs
             /\ r.fs = "grubfs" => GrubOn(r.s, d)
<1> DEFINE a == Asked([s |-> sys, fs |-> "none"], "hfsplus", d)
           h == Asked(a, "hfs", d)
           b == Asked(h, "ext2", d)
           c == Asked(b, "fatfs", d)
           e == Asked(c, "iso9660", d)
<1>1. AllAsked(sys, d) = Asked(e, "grubfs", d)
  BY Zenon DEF AllAsked
<1>2. AskedOK(a, d)
  BY FirstAsked, Zenon
<1> HIDE DEF a
<1>3. AskedOK(h, d)
  BY <1>2, ClosingAsked, Zenon
<1> HIDE DEF h
<1>4. AskedOK(b, d)
  BY <1>3, ClosingAsked, Zenon
<1> HIDE DEF b
<1>5. AskedOK(c, d)
  BY <1>4, FatAsked, Zenon
<1> HIDE DEF c
<1>6. AskedOK(e, d)
  BY <1>5, ClosingAsked, Zenon
<1> HIDE DEF e
<1> QED BY <1>1, <1>6, GrubAsked

-----------------------------------------------------------------------------
\* Some facts about open files.
LEMMA OpenFile ==
  ASSUME FsTypeOK, NEW i \in FsSlots
  PROVE  /\ inst[i] # Closed => /\ inst[i] \in FileType
                                /\ inst[i].fd \in Descriptors /\ inst[i].fs \in FsPackages
                                /\ inst[i].disk \in FsDisks
         /\ inst[i] = Closed <=> inst[i].fs = "none"
<1>1. inst[i] \in FileType \cup {Closed}
  BY Zenon DEF FsTypeOK
<1>2. inst[i] \in FileType => /\ inst[i].fd \in Descriptors /\ inst[i].fs \in FsPackages
                              /\ inst[i].disk \in FsDisks /\ inst[i].fs # "none"
  BY DEF FileType, FsPackages
<1>3. Closed.fs = "none"
  BY DEF Closed
<1> QED BY <1>1, <1>2, <1>3, Zenon

LEMMA FindFilesystem ==
  ASSUME FsInv, {"iso9660", "grubfs"} \subseteq FsAlone, NEW d \in FsDisks, find_filesystem(d)
  PROVE  FsInv'
<1> DEFINE r == AllAsked(sys, d)
<1>1. /\ sys' = r.s /\ found' = IF r.fs = "none" THEN NothingFound ELSE [fs |-> r.fs, disk |-> d]
      /\ inst' = inst /\ FsAloneAllows(d) /\ found = NothingFound
  BY Zenon DEF find_filesystem
<1> HIDE DEF r
<1>2. /\ SysType(r.s) /\ FsTables(r.s) /\ r.fs \in FsPackages \cup {"none"}
      /\ r.fs \in {"iso9660", "grubfs"} => FsOn[d] = r.fs
      /\ r.fs = "grubfs" => GrubOn(r.s, d)
  BY AllAskedOK DEF FsInv, r
<1>3. found' = NothingFound \/ (r.fs # "none" /\ found' = [fs |-> r.fs, disk |-> d])
  BY <1>1, Zenon
<1>4. found' \in [fs : FsPackages, disk : FsDisks] \cup {NothingFound}
  <2>1. r.fs # "none" => r.fs \in FsPackages
    BY <1>2, Zenon
  <2> QED BY <1>3, <2>1
<1>5. found'.fs \in {"iso9660", "grubfs"} => found'.fs = r.fs /\ found'.disk = d
  BY <1>3 DEF NothingFound
<1>6. FsTypeOK'
  <2>1. SysType(sys)'
    BY <1>1, <1>2, Zenon DEF SysType
  <2> QED BY <1>1, <1>4, <2>1, Zenon DEF FsInv, FsTypeOK
<1>7. FsTables(sys)'
  BY <1>1, <1>2, Zenon DEF FsTables, Held
<1>8. FdsDiffer'
  BY <1>1, Zenon DEF FsInv, FdsDiffer
<1>9. \A i \in FsSlots : inst[i].fs \notin {"iso9660", "grubfs"}
  BY <1>1, Zenon DEF FsAloneAllows
<1>10. found'.fs \in {"iso9660", "grubfs"} => AllClosed'
  BY <1>1, <1>2, <1>5, Zenon DEF FsAloneAllows, AllClosed
<1>11. found'.fs = "grubfs" => GrubOn(sys', found'.disk)
  BY <1>1, <1>2, <1>5, Zenon
<1>12. FsLone'
  BY <1>1, <1>9, <1>10, <1>11, Zenon DEF FsLone, GrubOn, AllClosed
<1> QED BY <1>6, <1>7, <1>8, <1>12, Zenon DEF FsInv

\* Listing a directory.
LEMMA ListingKeeps ==
  ASSUME FsInv, {"iso9660", "grubfs"} \subseteq FsAlone, NEW d \in FsDisks,
         NEW p \in FsPackages, NEW leaks, p \in {"iso9660", "fatfs"} => leaks = {},
         Listing(p, d, leaks)
  PROVE  FsInv'
<1> DEFINE fd == open_ih(sys)
           t == Occupied(sys, fd, p, d)
<1>1. /\ found = NothingFound /\ FsAloneAllows(d) /\ fd # NoFd
      /\ inst' = inst /\ found' = found
  BY Zenon DEF Listing
<1>2. PICK o \in Outcomes(p, d, fd) :
        LET u == IF p = "fatfs"
                 THEN f_mount(t, fd, IF o = "found" THEN NoObject ELSE FreedObject) ELSE t
        IN  sys' = IF o \in leaks THEN u ELSE close_io(u, fd)
  BY Zenon DEF Listing
<1> DEFINE ob == IF o = "found" THEN NoObject ELSE FreedObject
           u == IF p = "fatfs" THEN f_mount(t, fd, ob) ELSE t
           v == close_io(u, fd)
<1>3. sys' = IF o \in leaks THEN u ELSE v
  BY <1>2, Zenon
<1>4. fd \in Descriptors /\ sys.fds[fd] = FreeFd /\ SysType(sys)
  BY <1>1, OpenIhFree, Zenon DEF FsInv, FsTypeOK
<1> HIDE DEF fd
<1>5. /\ SysType(t) /\ t.fds[fd] = [disk |-> d, by |-> p]
      /\ \A x \in Descriptors \ {fd} : t.fds[x] = sys.fds[x]
      /\ t.FatFs = sys.FatFs
  BY <1>4, OccupiedIs
<1> HIDE DEF t, ob
<1>6. /\ SysType(u) /\ u.fds = t.fds
      /\ \A w \in 0 .. FatVolumes - 1 : w # fd => u.FatFs[w] = t.FatFs[w]
  BY <1>4, <1>5, MountedIs
<1> HIDE DEF u
<1>7. v = Occupied(u, fd, "none", "none")
  BY Zenon DEF close_io, Occupied, FreeFd
<1>8. /\ SysType(v) /\ v.fds[fd] = [disk |-> "none", by |-> "none"] /\ v.FatFs = u.FatFs
      /\ \A x \in Descriptors \ {fd} : v.fds[x] = u.fds[x]
  BY <1>4, <1>6, <1>7, OccupiedIs
<1> HIDE DEF v
<1>9. /\ SysType(sys')
      /\ sys'.fds[fd].by \notin {"iso9660", "fatfs"}
      /\ \A x \in Descriptors \ {fd} : sys'.fds[x] = sys.fds[x]
      /\ \A w \in 0 .. FatVolumes - 1 : w # fd => sys'.FatFs[w] = sys.FatFs[w]
  <2>1. CASE o \in leaks
    <3>1. sys' = u /\ p \notin {"iso9660", "fatfs"}
      BY <1>3, <2>1, Zenon
    <3>2. u.fds[fd].by = p
      BY <1>5, <1>6
    <3> QED BY <1>5, <1>6, <3>1, <3>2, Zenon
  <2>2. CASE o \notin leaks
    <3>1. sys' = v
      BY <1>3, <2>2, Zenon
    <3>2. v.fds[fd].by \notin {"iso9660", "fatfs"}
      BY <1>8
    <3> QED BY <1>5, <1>6, <1>8, <3>1, <3>2, Zenon
  <2> QED BY <2>1, <2>2, Zenon
<1>10. FsTables(sys')
  BY <1>4, <1>9, TablesKept, Zenon DEF FsInv
<1>11. FsTypeOK' /\ FsTables(sys)' /\ FdsDiffer'
  BY <1>1, <1>9, <1>10, ZenonT(60) DEF FsInv, FsTypeOK, SysType, FsTables, Held, FdsDiffer
<1>12. \A i \in FsSlots : inst[i].fs \notin {"iso9660", "grubfs"}
  BY <1>1, Zenon DEF FsAloneAllows
<1>13. NothingFound.fs \notin {"iso9660", "grubfs"}
  BY DEF NothingFound
<1>14. FsLone'
  BY <1>1, <1>12, <1>13, Zenon DEF FsLone
<1> QED BY <1>11, <1>14, Zenon DEF FsInv

\* Opening: a descriptor that is free becomes the file's, or is of no concern to
\* the open files.
LEMMA OpeningKeeps ==
  ASSUME FsInv, NEW i \in FsSlots, NEW p \in FsPackages, NEW closes, NEW opens,
         opens \subseteq {"missing", "found"}, closes \cap opens = {},
         p \in {"iso9660", "fatfs"} => {"mount", "missing", "found"} \subseteq closes \cup opens,
         Opening(p, i, closes, opens)
  PROVE  FsInv'
<1> DEFINE d == found.disk
           fd == open_ih(sys)
           t == Occupied(sys, fd, p, d)
<1>1. found.fs = p /\ inst[i] = Closed /\ found' = NothingFound
  BY Zenon DEF Opening
<1>2. SysType(sys) /\ FsTables(sys) /\ FdsDiffer /\ FsLone /\ FsTypeOK
  BY Zenon DEF FsInv, FsTypeOK
<1>3. NothingFound.fs = "none" /\ p # "none"
  BY DEF NothingFound, FsPackages
<1>4. d \in FsDisks /\ found # NothingFound
  <2>1. found # NothingFound
    BY <1>1, <1>3, Zenon
  <2>2. found \in [fs : FsPackages, disk : FsDisks]
    BY <1>2, <2>1, Zenon DEF FsTypeOK
  <2> QED BY <2>1, <2>2
<1>5. NothingFound.fs \notin {"iso9660", "grubfs"}
  BY <1>3
<1>6. \A j \in FsSlots : inst[j].fs \notin {"iso9660", "grubfs"}
  BY <1>2, <1>4, Zenon DEF FsLone
<1>7. CASE sys' = sys /\ inst' = inst
  <2>1. FsTypeOK' /\ FsTables(sys)' /\ FdsDiffer'
    BY <1>1, <1>2, <1>7, Zenon DEF FsTypeOK, SysType, FsTables, Held, FdsDiffer
  <2>2. FsLone'
    BY <1>1, <1>5, <1>6, <1>7, Zenon DEF FsLone
  <2> QED BY <2>1, <2>2, Zenon DEF FsInv
<1>8. ASSUME fd # NoFd, NEW o \in Outcomes(p, d, fd),
             LET u == CASE p = "fatfs" -> f_mount(t, fd, IF o \in opens THEN i ELSE FreedObject)
                        [] p = "iso9660" /\ o \in opens -> [t EXCEPT !.common = i]
                        [] OTHER -> t
             IN  /\ sys' = IF o \in closes THEN close_io(u, fd) ELSE u
                 /\ inst' = IF o \notin opens THEN inst
                            ELSE [inst EXCEPT ![i] = [fs |-> p, disk |-> d, fd |-> fd, file |-> o]]
      PROVE  FsInv'
  <2> DEFINE ob == IF o \in opens THEN i ELSE FreedObject
             u == CASE p = "fatfs" -> f_mount(t, fd, ob)
                    [] p = "iso9660" /\ o \in opens -> [t EXCEPT !.common = i]
                    [] OTHER -> t
             new == [fs |-> p, disk |-> d, fd |-> fd, file |-> o]
  <2>1. /\ sys' = IF o \in closes THEN close_io(u, fd) ELSE u
        /\ inst' = IF o \notin opens THEN inst ELSE [inst EXCEPT ![i] = new]
    BY <1>8, Zenon
  <2>2. fd \in Descriptors /\ sys.fds[fd] = FreeFd
    BY <1>8, OpenIhFree, Zenon
  <2>3. /\ SysType(t) /\ t.fds[fd] = [disk |-> d, by |-> p]
        /\ \A x \in Descriptors \ {fd} : t.fds[x] = sys.fds[x]
        /\ t.FatFs = sys.FatFs /\ t.curfs = sys.curfs
    <3> HIDE DEF fd, d
    <3> QED BY <1>2, <1>4, <2>2, OccupiedIs
  <2>4. o \in {"mount", "missing", "found"} /\ (o # "mount" => Mountable(p, d, fd))
    BY <1>8, Zenon DEF Outcomes
  <2> HIDE DEF fd, d
  <2>5. /\ SysType(u) /\ u.fds = t.fds /\ u.curfs = t.curfs
        /\ \A w \in 0 .. FatVolumes - 1 : w # fd => u.FatFs[w] = t.FatFs[w]
        /\ p = "fatfs" /\ fd < FatVolumes => u.FatFs[fd] = ob
        /\ p = "iso9660" /\ o \in opens => u.common = i
    <3> HIDE DEF t, ob
    <3>1. CASE p = "fatfs"
      <4>1. u = f_mount(t, fd, ob) /\ p # "iso9660"
        BY <3>1, Zenon
      <4> HIDE DEF u
      <4> QED BY <2>2, <2>3, <4>1, MountedIs
    <3>2. CASE p = "iso9660" /\ o \in opens
      <4>1. u = [t EXCEPT !.common = i] /\ p # "fatfs"
        BY <3>2, Zenon
      <4>2. t = [fds |-> t.fds, FatFs |-> t.FatFs, curfs |-> t.curfs, common |-> t.common]
        BY <2>3, Zenon DEF SysType
      <4>3. u = [fds |-> t.fds, FatFs |-> t.FatFs, curfs |-> t.curfs, common |-> i]
        <5> HIDE DEF u
        <5> QED BY <4>1, <4>2
      <4> HIDE DEF u
      <4>4. u.fds = t.fds /\ u.FatFs = t.FatFs /\ u.curfs = t.curfs /\ u.common = i
        BY <4>3
      <4>5. u = [fds |-> u.fds, FatFs |-> u.FatFs, curfs |-> u.curfs, common |-> u.common]
        BY <4>3, <4>4, Zenon
      <4> QED BY <2>3, <4>1, <4>4, <4>5, Zenon DEF SysType
    <3>3. CASE p # "fatfs" /\ ~(p = "iso9660" /\ o \in opens)
      <4>1. u = t
        BY <3>3, Zenon
      <4> HIDE DEF u
      <4> QED BY <2>3, <3>3, <4>1, Zenon
    <3> QED BY <3>1, <3>2, <3>3, Zenon
  <2> HIDE DEF u, t
  <2>6. \A j \in FsSlots : inst[j] # Closed => inst[j].fd # fd
    <3>1. FreeFd.by = "none"
      BY DEF FreeFd
    <3>2. ASSUME NEW j \in FsSlots, inst[j] # Closed PROVE inst[j].fd # fd
      <4>1. Held(sys, j) /\ inst[j].fs \in FsPackages
        BY <1>2, <3>2, OpenFile, Zenon DEF FsTables
      <4>2. sys.fds[inst[j].fd].by = inst[j].fs /\ inst[j].fs # "none"
        BY <4>1 DEF Held, FsPackages
      <4> QED BY <2>2, <3>1, <4>2, Zenon
    <3> QED BY <3>2, Zenon
  <2>7. CASE o \notin opens
    <3> DEFINE v == close_io(u, fd)
    <3>1. v = Occupied(u, fd, "none", "none")
      BY Zenon DEF close_io, Occupied, FreeFd
    <3> HIDE DEF v
    <3>2. /\ SysType(v) /\ v.fds[fd] = [disk |-> "none", by |-> "none"] /\ v.FatFs = u.FatFs
          /\ \A x \in Descriptors \ {fd} : v.fds[x] = u.fds[x]
      BY <2>2, <2>5, <3>1, OccupiedIs
    <3>3. inst' = inst /\ sys' = IF o \in closes THEN v ELSE u
      BY <2>1, <2>7, Zenon DEF v
    <3>4. /\ SysType(sys')
          /\ sys'.fds[fd].by \notin {"iso9660", "fatfs"}
          /\ \A x \in Descriptors \ {fd} : sys'.fds[x] = sys.fds[x]
          /\ \A w \in 0 .. FatVolumes - 1 : w # fd => sys'.FatFs[w] = sys.FatFs[w]
      <4>1. CASE o \notin closes
        <5>1. sys' = u /\ p \notin {"iso9660", "fatfs"}
          BY <2>4, <2>7, <3>3, <4>1, Zenon
        <5>2. u.fds[fd].by = p
          BY <2>3, <2>5
        <5> QED BY <2>3, <2>5, <5>1, <5>2, Zenon
      <4>2. CASE o \in closes
        <5>1. sys' = v
          BY <3>3, <4>2, Zenon
        <5>2. v.fds[fd].by \notin {"iso9660", "fatfs"}
          BY <3>2
        <5>3. \A x \in Descriptors \ {fd} : v.fds[x] = sys.fds[x]
          <6>1. u.fds = t.fds /\ \A x \in Descriptors \ {fd} : t.fds[x] = sys.fds[x]
            BY <2>3, <2>5, Zenon
          <6>2. \A x \in Descriptors \ {fd} : v.fds[x] = u.fds[x]
            BY <3>2, Zenon
          <6> QED BY <6>1, <6>2, Zenon
        <5>4. \A w \in 0 .. FatVolumes - 1 : w # fd => v.FatFs[w] = sys.FatFs[w]
          <6>1. \A w \in 0 .. FatVolumes - 1 : w # fd => u.FatFs[w] = t.FatFs[w]
            BY <2>5, Zenon
          <6>2. v.FatFs = u.FatFs /\ t.FatFs = sys.FatFs
            BY <2>3, <3>2, Zenon
          <6> QED BY <6>1, <6>2, Zenon
        <5> QED BY <3>2, <5>1, <5>2, <5>3, <5>4, Zenon
      <4> QED BY <4>1, <4>2, Zenon
    <3>5. FsTables(sys')
      BY <1>2, <2>2, <3>4, TablesKept, Zenon
    <3>6. FsTypeOK' /\ FsTables(sys)' /\ FdsDiffer'
      <4>1. FsTypeOK'
        BY <1>1, <1>2, <3>3, <3>4, Zenon DEF FsTypeOK, SysType
      <4>2. FsTables(sys)'
        BY <3>3, <3>5, Zenon DEF FsTables, Held
      <4>3. FdsDiffer'
        BY <1>2, <3>3, Zenon DEF FdsDiffer
      <4> QED BY <4>1, <4>2, <4>3, Zenon
    <3>7. FsLone'
      BY <1>1, <1>5, <1>6, <3>3, Zenon DEF FsLone
    <3> QED BY <3>6, <3>7, Zenon DEF FsInv
  <2>8. CASE o \in opens
    <3>1. sys' = u /\ inst' = [inst EXCEPT ![i] = new]
      BY <2>1, <2>8, Zenon
    <3>2. /\ inst'[i] = new /\ new # Closed
          /\ new.fs = p /\ new.disk = d /\ new.fd = fd
      BY <1>2, <1>3, <3>1 DEF FsTypeOK, Closed
    <3>3. \A j \in FsSlots : j # i => inst'[j] = inst[j]
      BY <1>2, <3>1, Zenon DEF FsTypeOK
    <3>4. new \in FileType
      BY <1>4, <2>2, <2>8 DEF FileType
    <3> HIDE DEF new
    <3>5. FsTypeOK'
      BY <1>1, <1>2, <2>5, <3>1, <3>4, Zenon DEF FsTypeOK, SysType
    <3>6. ASSUME NEW j \in FsSlots, inst'[j] # Closed PROVE Held(sys, j)'
      <4>1. CASE j = i
        <5>1. sys'.fds[fd] = [disk |-> d, by |-> p]
          BY <2>3, <2>5, <3>1, Zenon
        <5>2. p = "fatfs" => fd < FatVolumes /\ sys'.FatFs[fd] = i
          BY <2>4, <2>5, <2>8, <3>1, Zenon DEF Mountable
        <5> QED BY <3>2, <4>1, <5>1, <5>2, Zenon DEF Held
      <4>2. CASE j # i
        <5>1. inst'[j] = inst[j] /\ inst[j] # Closed
          BY <3>3, <3>6, <4>2, Zenon
        <5>2. Held(sys, j) /\ inst[j].fd \in Descriptors /\ inst[j].fd # fd
          BY <1>2, <2>6, <5>1, OpenFile, Zenon DEF FsTables
        <5>3. sys'.fds[inst[j].fd] = sys.fds[inst[j].fd]
          BY <2>3, <2>5, <3>1, <5>2, Zenon
        <5>4. inst[j].fd < FatVolumes => sys'.FatFs[inst[j].fd] = sys.FatFs[inst[j].fd]
          <6>1. inst[j].fd < FatVolumes => inst[j].fd \in 0 .. FatVolumes - 1
            BY <5>2, FileSystemsAssumption DEF Descriptors
          <6> QED BY <2>3, <2>5, <3>1, <5>2, <6>1, Zenon
        <5> QED BY <5>1, <5>2, <5>3, <5>4, Zenon DEF Held
      <4> QED BY <4>1, <4>2, Zenon
    <3>7. ASSUME NEW x \in Descriptors, sys'.fds[x].by \in {"iso9660", "fatfs"}
          PROVE  \E j \in FsSlots : inst'[j] # Closed /\ inst'[j].fd = x
      <4>1. CASE x = fd
        BY <3>2, <4>1, Zenon
      <4>2. CASE x # fd
        <5>1. sys'.fds[x] = sys.fds[x]
          BY <2>3, <2>5, <3>1, <4>2, Zenon
        <5>2. PICK j \in FsSlots : inst[j] # Closed /\ inst[j].fd = x
          BY <1>2, <3>7, <5>1, Zenon DEF FsTables
        <5>3. j # i
          BY <1>1, <5>2, Zenon
        <5> QED BY <3>3, <5>2, <5>3, Zenon
      <4> QED BY <4>1, <4>2, Zenon
    <3>8. FsTables(sys)'
      BY <3>6, <3>7, Zenon DEF FsTables
    <3>9. FdsDiffer'
      <4>1. ASSUME NEW j \in FsSlots, NEW k \in FsSlots, j # k, inst'[j] # Closed, inst'[k] # Closed
            PROVE  inst'[j].fd # inst'[k].fd
        <5>1. CASE j # i /\ k # i
          BY <1>2, <3>3, <4>1, <5>1, Zenon DEF FdsDiffer
        <5>2. CASE j = i
          BY <2>6, <3>2, <3>3, <4>1, <5>2, Zenon
        <5>3. CASE k = i
          BY <2>6, <3>2, <3>3, <4>1, <5>3, Zenon
        <5> QED BY <5>1, <5>2, <5>3, Zenon
      <4> QED BY <4>1, Zenon DEF FdsDiffer
    <3>10. ASSUME NEW j \in FsSlots, inst'[j].fs \in {"iso9660", "grubfs"}
           PROVE  /\ \A k \in FsSlots : k # j => inst'[k] = Closed
                  /\ inst'[j].fs = "grubfs" => GrubOn(sys', inst'[j].disk)
                  /\ inst'[j].fs = "iso9660" => sys'.common = j
      <4>1. j = i
        BY <1>6, <3>3, <3>10, Zenon
      <4>2. p \in {"iso9660", "grubfs"}
        BY <3>2, <3>10, <4>1, Zenon
      <4>3. AllClosed /\ (p = "grubfs" => GrubOn(sys, d))
        BY <1>1, <1>2, <4>2, Zenon DEF FsLone, d
      <4>4. p = "grubfs" => GrubOn(sys', d)
        <5>1. SUFFICES ASSUME p = "grubfs" PROVE GrubOn(sys', d)
          BY Zenon
        <5>2. sys.curfs \in Descriptors /\ sys.fds[sys.curfs] = [disk |-> d, by |-> "grubfs"]
          BY <4>3, <5>1, Zenon DEF GrubOn
        <5>3. sys.curfs # fd
          BY <2>2, <5>2 DEF FreeFd
        <5>4. sys'.curfs = sys.curfs /\ sys'.fds[sys.curfs] = sys.fds[sys.curfs]
          BY <2>3, <2>5, <3>1, <5>2, <5>3, Zenon
        <5> QED BY <5>2, <5>4, Zenon DEF GrubOn
      <4>5. p = "iso9660" => sys'.common = i
        BY <2>5, <2>8, <3>1, Zenon
      <4> QED BY <3>2, <3>3, <4>1, <4>3, <4>4, <4>5, Zenon DEF AllClosed
    <3>11. FsLone'
      BY <1>1, <1>5, <3>10, Zenon DEF FsLone, GrubOn
    <3> QED BY <3>5, <3>8, <3>9, <3>11, Zenon DEF FsInv
  <2> QED BY <2>7, <2>8, Zenon
<1> QED
  <2>1. \/ fd = NoFd /\ sys' = sys /\ inst' = inst
        \/ fd # NoFd /\ \E o \in Outcomes(p, d, fd) :
            LET u == CASE p = "fatfs" -> f_mount(t, fd, IF o \in opens THEN i ELSE FreedObject)
                       [] p = "iso9660" /\ o \in opens -> [t EXCEPT !.common = i]
                       [] OTHER -> t
            IN  /\ sys' = IF o \in closes THEN close_io(u, fd) ELSE u
                /\ inst' = IF o \notin opens THEN inst
                           ELSE [inst EXCEPT ![i] = [fs |-> p, disk |-> d, fd |-> fd, file |-> o]]
    BY Zenon DEF Opening
  <2> QED BY <1>7, <1>8, <2>1, Zenon


\* Closing: only the file's own descriptor and volume are given back.
LEMMA ClosingKeeps ==
  ASSUME FsInv, NEW i \in FsSlots, NEW p \in FsPackages, NEW s, Closing(p, i, s),
         SysType(s), s.curfs = sys.curfs,
         \A x \in Descriptors : x # inst[i].fd => s.fds[x] = sys.fds[x],
         \A w \in 0 .. FatVolumes - 1 : w # inst[i].fd => s.FatFs[w] = sys.FatFs[w],
         p \in {"iso9660", "fatfs"} => s.fds[inst[i].fd] = FreeFd,
         p \notin {"iso9660", "fatfs"} => s.fds = sys.fds
  PROVE  FsInv'
<1>1. /\ inst[i].fs = p /\ found = NothingFound /\ found' = found /\ sys' = s
      /\ inst' = [inst EXCEPT ![i] = Closed]
  BY Zenon DEF Closing
<1>2. SysType(sys) /\ FsTables(sys) /\ FdsDiffer /\ FsLone /\ FsTypeOK
  BY Zenon DEF FsInv, FsTypeOK
<1>3. inst'[i] = Closed /\ \A j \in FsSlots : j # i => inst'[j] = inst[j]
  BY <1>1, <1>2, Zenon DEF FsTypeOK
<1>4. inst[i] # Closed /\ inst[i].fd \in Descriptors
  <2>1. p # "none"
    BY DEF FsPackages
  <2> QED BY <1>1, <1>2, <2>1, OpenFile, Zenon
<1>5. FsTypeOK'
  <2>1. inst' \in [FsSlots -> FileType \cup {Closed}]
    BY <1>1, <1>2, Zenon DEF FsTypeOK
  <2> QED BY <1>1, <1>2, <2>1, Zenon DEF FsTypeOK, SysType
<1>6. ASSUME NEW j \in FsSlots, inst'[j] # Closed PROVE Held(sys, j)'
  <2>1. j # i /\ inst'[j] = inst[j] /\ inst[j] # Closed
    BY <1>3, <1>6, Zenon
  <2>2. Held(sys, j) /\ inst[j].fd \in Descriptors
    BY <1>2, <2>1, OpenFile, Zenon DEF FsTables
  <2>3. inst[j].fd # inst[i].fd
    BY <1>2, <1>4, <2>1, Zenon DEF FdsDiffer
  <2>4. sys'.fds[inst[j].fd] = sys.fds[inst[j].fd]
    BY <1>1, <2>2, <2>3, Zenon
  <2>5. inst[j].fd < FatVolumes => sys'.FatFs[inst[j].fd] = sys.FatFs[inst[j].fd]
    <3>1. inst[j].fd < FatVolumes => inst[j].fd \in 0 .. FatVolumes - 1
      BY <2>2, FileSystemsAssumption DEF Descriptors
    <3> QED BY <1>1, <2>3, <3>1, Zenon
  <2> QED BY <2>1, <2>2, <2>4, <2>5, Zenon DEF Held
<1>7. ASSUME NEW x \in Descriptors, sys'.fds[x].by \in {"iso9660", "fatfs"}
      PROVE  \E j \in FsSlots : inst'[j] # Closed /\ inst'[j].fd = x
  <2>1. x # inst[i].fd
    <3>1. FreeFd.by \notin {"iso9660", "fatfs"}
      BY DEF FreeFd
    <3>2. sys.fds[inst[i].fd].by = p
      <4>1. sys.fds[inst[i].fd] = [disk |-> inst[i].disk, by |-> p]
        BY <1>1, <1>2, <1>4, Zenon DEF FsTables, Held
      <4> QED BY <4>1
    <3> QED BY <1>1, <1>7, <3>1, <3>2, Zenon
  <2>2. sys'.fds[x] = sys.fds[x]
    BY <1>1, <2>1, Zenon
  <2>3. PICK j \in FsSlots : inst[j] # Closed /\ inst[j].fd = x
    BY <1>2, <1>7, <2>2, Zenon DEF FsTables
  <2> QED BY <1>3, <2>1, <2>3, Zenon
<1>8. FsTables(sys)'
  BY <1>6, <1>7, Zenon DEF FsTables
<1>9. FdsDiffer'
  <2>1. \A j \in FsSlots : inst'[j] # Closed => inst'[j] = inst[j]
    BY <1>3, Zenon
  <2>2. ASSUME NEW j \in FsSlots, NEW k \in FsSlots, j # k, inst'[j] # Closed, inst'[k] # Closed
        PROVE  inst'[j].fd # inst'[k].fd
    <3>1. inst'[j] = inst[j] /\ inst'[k] = inst[k]
      BY <2>1, <2>2, Zenon
    <3>2. inst[j] # Closed /\ inst[k] # Closed
      BY <2>2, <3>1, Zenon
    <3>3. FdsDiffer
      BY <1>2, Zenon
    <3>4. inst[j].fd # inst[k].fd
      BY <2>2, <3>2, <3>3, Zenon DEF FdsDiffer
    <3> QED BY <3>1, <3>4, Zenon
  <2> QED BY <2>2, Zenon DEF FdsDiffer
<1>10. ASSUME NEW j \in FsSlots, inst'[j].fs \in {"iso9660", "grubfs"} PROVE FALSE
  <2>1. Closed.fs \notin {"iso9660", "grubfs"}
    BY DEF Closed
  <2>2. j # i /\ inst'[j] = inst[j]
    BY <1>3, <1>10, <2>1, Zenon
  <2>3. inst[i] = Closed
    BY <1>2, <1>10, <2>2, Zenon DEF FsLone
  <2> QED BY <1>4, <2>3, Zenon
<1>11. NothingFound.fs \notin {"iso9660", "grubfs"}
  BY DEF NothingFound
<1>12. FsLone'
  BY <1>1, <1>10, <1>11, Zenon DEF FsLone
<1> QED BY <1>5, <1>8, <1>9, <1>12, Zenon DEF FsInv

\* The tables after close_io, without and with f_mount before it.
LEMMA CloseIoIs ==
  ASSUME NEW s, SysType(s), NEW fd \in Descriptors
  PROVE  /\ SysType(close_io(s, fd)) /\ close_io(s, fd).curfs = s.curfs
         /\ \A x \in Descriptors : x # fd => close_io(s, fd).fds[x] = s.fds[x]
         /\ close_io(s, fd).FatFs = s.FatFs
         /\ close_io(s, fd).fds[fd] = FreeFd
<1>1. close_io(s, fd) = Occupied(s, fd, "none", "none")
  BY Zenon DEF close_io, Occupied, FreeFd
<1> QED BY <1>1, OccupiedIs DEF FreeFd

LEMMA CloseKeeps ==
  ASSUME FsInv, NEW i \in FsSlots,
         \/ iso9660_files_close(i) \/ fatfs_files_close(i) \/ ext2_files_close(i)
         \/ grubfs_files_close(i) \/ hfs_files_close(i) \/ hfsp_files_close(i)
  PROVE  FsInv'
<1> DEFINE fd == inst[i].fd
<1>1. SysType(sys) /\ FsTypeOK
  BY Zenon DEF FsInv, FsTypeOK
<1>2. ASSUME NEW p \in FsPackages, inst[i].fs = p PROVE fd \in Descriptors
  <2>1. p # "none"
    BY DEF FsPackages
  <2> QED BY <1>1, <1>2, <2>1, OpenFile, Zenon
<1>3. ASSUME NEW p \in {"ext2", "grubfs", "hfs", "hfsplus"}, Closing(p, i, sys) PROVE FsInv'
  <2>1. p \in FsPackages /\ p \notin {"iso9660", "fatfs"}
    BY DEF FsPackages
  <2> QED BY <1>1, <1>3, <2>1, ClosingKeeps, Zenon
<1>4. CASE iso9660_files_close(i)
  <2> DEFINE s == close_io(sys, fd)
  <2>1. Closing("iso9660", i, s) /\ inst[i].fs = "iso9660" /\ "iso9660" \in FsPackages
    BY <1>4, Zenon DEF iso9660_files_close, Closing, FsPackages
  <2>2. fd \in Descriptors
    BY <1>2, <2>1, Zenon
  <2>3. /\ SysType(s) /\ s.curfs = sys.curfs /\ s.FatFs = sys.FatFs /\ s.fds[fd] = FreeFd
        /\ \A x \in Descriptors : x # fd => s.fds[x] = sys.fds[x]
    BY <1>1, <2>2, CloseIoIs, ZenonT(60)
  <2> HIDE DEF s
  <2> QED BY <2>1, <2>3, ClosingKeeps, Zenon
<1>5. CASE fatfs_files_close(i)
  <2> DEFINE t == f_mount(sys, fd, NoObject)
             s == close_io(t, fd)
  <2>1. Closing("fatfs", i, s) /\ inst[i].fs = "fatfs" /\ "fatfs" \in FsPackages
    BY <1>5, Zenon DEF fatfs_files_close, Closing, FsPackages
  <2>2. fd \in Descriptors
    BY <1>2, <2>1, Zenon
  <2>3. /\ SysType(t) /\ t.curfs = sys.curfs /\ t.fds = sys.fds
        /\ \A w \in 0 .. FatVolumes - 1 : w # fd => t.FatFs[w] = sys.FatFs[w]
    BY <1>1, <2>2, MountedIs
  <2> HIDE DEF t
  <2>4. /\ SysType(s) /\ s.curfs = t.curfs /\ s.FatFs = t.FatFs /\ s.fds[fd] = FreeFd
        /\ \A x \in Descriptors : x # fd => s.fds[x] = t.fds[x]
    BY <2>2, <2>3, CloseIoIs, ZenonT(60)
  <2> HIDE DEF s
  <2> QED BY <2>1, <2>3, <2>4, ClosingKeeps, ZenonT(60)
<1> QED BY <1>3, <1>4, <1>5, Zenon
     DEF ext2_files_close, grubfs_files_close, hfs_files_close, hfsp_files_close

-----------------------------------------------------------------------------
LEMMA FsInvInit == FsInit => FsInv
<1> SUFFICES ASSUME FsInit PROVE FsInv
  OBVIOUS
<1>1. /\ sys = [fds |-> [fd \in Descriptors |-> FreeFd],
                FatFs |-> [v \in 0 .. FatVolumes - 1 |-> NoObject], curfs |-> 0, common |-> NoObject]
      /\ inst = [i \in FsSlots |-> Closed] /\ found = NothingFound
  BY Zenon DEF FsInit
<1>2. /\ sys.fds = [fd \in Descriptors |-> FreeFd]
      /\ sys.FatFs = [v \in 0 .. FatVolumes - 1 |-> NoObject] /\ sys.curfs = 0 /\ sys.common = NoObject
  BY <1>1
<1>3. sys = [fds |-> sys.fds, FatFs |-> sys.FatFs, curfs |-> sys.curfs, common |-> sys.common]
  BY <1>1, <1>2, Zenon
<1>4. FreeFd \in [disk : FsDisks \cup {"none"}, by : FsPackages \cup {"none"}]
  BY DEF FreeFd
<1>5. SysType(sys)
  BY <1>2, <1>3, <1>4, ZenonT(60) DEF SysType
<1>6. /\ FreeFd.by \notin {"iso9660", "fatfs"} /\ NothingFound.fs \notin {"iso9660", "grubfs"}
      /\ Closed.fs \notin {"iso9660", "grubfs"}
  BY DEF FreeFd, NothingFound, Closed
<1>7. \A i \in FsSlots : inst[i] = Closed
  BY <1>1, Zenon
<1>8. FsTypeOK
  BY <1>1, <1>5, Zenon DEF FsTypeOK
<1>9. FsTables(sys) /\ FdsDiffer
  BY <1>2, <1>6, <1>7, Zenon DEF FsTables, FdsDiffer
<1>10. FsLone
  BY <1>1, <1>6, <1>7, Zenon DEF FsLone
<1> QED BY <1>8, <1>9, <1>10, Zenon DEF FsInv

LEMMA FsInvNext ==
  ASSUME FsInv, {"iso9660", "grubfs"} \subseteq FsAlone, FsNext
  PROVE  FsInv'
<1>1. ASSUME NEW d \in FsDisks, find_filesystem(d) PROVE FsInv'
  BY <1>1, FindFilesystem, Zenon
<1>2. FsPackages = {"hfsplus", "hfs", "ext2", "fatfs", "iso9660", "grubfs"}
  BY DEF FsPackages
<1>3. ASSUME NEW d \in FsDisks, iso9660_files_dir(d) \/ fatfs_files_dir(d) PROVE FsInv'
  BY <1>2, <1>3, ListingKeeps, Zenon DEF iso9660_files_dir, fatfs_files_dir
<1>4. ASSUME NEW d \in FsDisks, ext2_files_dir(d) \/ hfs_files_dir(d) \/ hfsp_files_dir(d)
      PROVE  FsInv'
  <2>1. ASSUME NEW p \in {"ext2", "hfs", "hfsplus"}, NEW leaks, Listing(p, d, leaks) PROVE FsInv'
    <3>1. p \in FsPackages /\ p \notin {"iso9660", "fatfs"}
      BY <1>2
    <3> QED BY <2>1, <3>1, ListingKeeps, Zenon
  <2> QED BY <1>4, <2>1, Zenon DEF ext2_files_dir, hfs_files_dir, hfsp_files_dir
<1>5. ASSUME NEW i \in FsSlots, iso9660_files_open(i) \/ fatfs_files_open(i) PROVE FsInv'
  <2>1. ASSUME NEW p \in {"iso9660", "fatfs"}, Opening(p, i, {"mount", "missing"}, {"found"})
        PROVE  FsInv'
    <3>1. p \in FsPackages /\ {"mount", "missing"} \cap {"found"} = {}
      BY <1>2
    <3> QED BY <2>1, <3>1, OpeningKeeps, Zenon
  <2> QED BY <1>5, <2>1, Zenon DEF iso9660_files_open, fatfs_files_open
<1>6. ASSUME NEW i \in FsSlots, \/ ext2_files_open(i) \/ grubfs_files_open(i)
                                \/ hfs_files_open(i) \/ hfsp_files_open(i)
      PROVE  FsInv'
  <2>1. ASSUME NEW p \in {"ext2", "grubfs", "hfs", "hfsplus"}, NEW closes \in {{}, {"mount"}},
               NEW opens \in {{"found"}, {"missing", "found"}}, Opening(p, i, closes, opens)
        PROVE  FsInv'
    <3>1. p \in FsPackages /\ p \notin {"iso9660", "fatfs"}
      BY <1>2
    <3>2. closes \cap opens = {} /\ opens \subseteq {"missing", "found"}
      OBVIOUS
    <3> QED BY <2>1, <3>1, <3>2, OpeningKeeps, Zenon
  <2> QED BY <1>6, <2>1, Zenon DEF ext2_files_open, grubfs_files_open, hfs_files_open, hfsp_files_open
<1> QED BY <1>1, <1>3, <1>4, <1>5, <1>6, CloseKeeps, Zenon DEF FsNext

\* The open files, the descriptors and the table of FAT volumes agree.
LEMMA FsInvImplies == FsInv => FilesKeptApart
<1> SUFFICES ASSUME FsInv PROVE FilesKeptApart
  OBVIOUS
<1>1. FsTypeOK /\ FsTables(sys) /\ FdsDiffer /\ FsLone
  BY Zenon DEF FsInv
<1>2. ASSUME NEW i \in FsSlots, inst[i] # Closed
      PROVE  /\ ReadsFrom(i) = inst[i].disk
             /\ sys.fds[inst[i].fd] = [disk |-> inst[i].disk, by |-> inst[i].fs]
             /\ \A j \in FsSlots \ {i} : inst[j].fd # inst[i].fd
  <2>1. sys.fds[inst[i].fd] = [disk |-> inst[i].disk, by |-> inst[i].fs]
    BY <1>1, <1>2, Zenon DEF FsTables, Held
  <2>2. sys.fds[inst[i].fd].disk = inst[i].disk
    BY <2>1
  <2>3. ASSUME inst[i].fs = "grubfs" PROVE ReadsFrom(i) = inst[i].disk
    <3>1. sys.curfs \in Descriptors /\ sys.fds[sys.curfs] = [disk |-> inst[i].disk, by |-> "grubfs"]
      BY <1>1, <2>3, Zenon DEF FsLone, GrubOn
    <3>2. sys.curfs # NoFd /\ sys.fds[sys.curfs].disk = inst[i].disk
      BY <3>1 DEF Descriptors, NoFd
    <3>3. ReadsFrom(i) = devread
      BY <2>3 DEF ReadsFrom
    <3> QED BY <3>2, <3>3, Zenon DEF devread
  <2>4. ASSUME inst[i].fs = "iso9660" PROVE ReadsFrom(i) = inst[i].disk
    <3>1. sys.common = i
      BY <1>1, <2>4, Zenon DEF FsLone
    <3>2. ReadsFrom(i) = iso9660_files_read
      BY <2>4 DEF ReadsFrom
    <3> QED BY <2>2, <3>1, <3>2, Zenon DEF iso9660_files_read
  <2>5. ReadsFrom(i) = inst[i].disk
    BY <2>2, <2>3, <2>4, Zenon DEF ReadsFrom
  <2>6. ASSUME NEW j \in FsSlots \ {i} PROVE inst[j].fd # inst[i].fd
    <3>1. CASE inst[j] = Closed
      <4>1. inst[i].fd \in Descriptors
        BY <1>1, <1>2, OpenFile, Zenon
      <4> QED BY <3>1, <4>1 DEF Closed, Descriptors, NoFd
    <3>2. CASE inst[j] # Closed
      BY <1>1, <1>2, <3>2, Zenon DEF FdsDiffer
    <3> QED BY <3>1, <3>2, Zenon
  <2> QED BY <2>1, <2>5, <2>6, Zenon
<1>3. ReadsOwnDisk
  BY <1>2, Zenon DEF ReadsOwnDisk
<1>4. BalancedDescriptors
  <2>1. ASSUME NEW fd \in Descriptors, sys.fds[fd].by \in {"iso9660", "fatfs"}
        PROVE  \E i \in FsSlots : inst[i].fd = fd /\ inst[i].fs = sys.fds[fd].by
    <3>1. PICK i \in FsSlots : inst[i] # Closed /\ inst[i].fd = fd
      BY <1>1, <2>1, Zenon DEF FsTables
    <3>2. sys.fds[fd] = [disk |-> inst[i].disk, by |-> inst[i].fs]
      BY <1>2, <3>1, Zenon
    <3>3. sys.fds[fd].by = inst[i].fs
      BY <3>2
    <3> QED BY <3>1, <3>3, Zenon
  <2> QED BY <2>1, Zenon DEF BalancedDescriptors
<1>5. OpenIsRegistered
  <2>1. Closed.fs # "fatfs"
    BY DEF Closed
  <2> QED BY <1>1, <2>1, Zenon DEF OpenIsRegistered, FsTables, Held
<1> QED BY <1>3, <1>4, <1>5, Zenon DEF FilesKeptApart

\* Open files read their own disk and keep their descriptor and their volume,
\* whatever is probed, listed, opened and closed beside them (fs/*/*_fs.c,
\* libc/diskio.c), for any number of disks, descriptors, volumes and instances, if
\* iso9660 and grubfs, which have one record each, serve one file at a time.
THEOREM FilesAlwaysApart ==
  ASSUME {"iso9660", "grubfs"} \subseteq FsAlone
  PROVE  FsSpec => []FilesKeptApart
<1>1. FsInv /\ [FsNext]_fsVars => FsInv'
  <2>1. FsInv /\ UNCHANGED fsVars => FsInv'
    <3> SUFFICES ASSUME FsInv, UNCHANGED fsVars PROVE FsInv'
      OBVIOUS
    <3>1. sys' = sys /\ inst' = inst /\ found' = found
      BY Zenon DEF fsVars
    <3>2. FsTypeOK' /\ FsTables(sys)'
      BY <3>1, Zenon DEF FsInv, FsTypeOK, SysType, FsTables, Held
    <3>3. FdsDiffer' /\ FsLone'
      BY <3>1, Zenon DEF FsInv, FdsDiffer, FsLone, AllClosed, GrubOn
    <3> QED BY <3>2, <3>3, Zenon DEF FsInv
  <2> QED BY <2>1, FsInvNext, Zenon
<1> QED BY <1>1, FsInvInit, FsInvImplies, PTL DEF FsSpec

-----------------------------------------------------------------------------
\* The allocator, for every size of the memory and all requests.
Apart(b, c) == End(b) <= c.at \/ End(c) <= b.at

\* A block lies in the memory and has room for its length and a link.
Placed(b) ==
  /\ b \in Block
  /\ b.len >= 1
  /\ Start <= b.at
  /\ End(b) <= Start + Cells

InBlock(x, b) == b.at <= x /\ x < End(b)

\* EveryCellOnce and Coalesced are inductive only together, and only for blocks
\* that lie in the memory: merging is right because neighbours touch.
AllocatorInv ==
  /\ \A b \in free \cup held : Placed(b)
  /\ \A b, c \in free \cup held : b # c => Apart(b, c)
  /\ free \cap held = {}
  /\ \A x \in Start .. Start + Cells - 1 : \E b \in free \cup held : InBlock(x, b)
  /\ Coalesced

LEMMA InitOk ==
  ASSUME ProperMemory, AInit
  PROVE  AllocatorInv
<1> DEFINE b0 == [at |-> Start, len |-> Cells - 1]
<1>1. free \cup held = {b0} /\ free = {b0} /\ held = {}
  BY DEF AInit
<1>2. Placed(b0) /\ End(b0) = Start + Cells /\ b0.at = Start
  BY DEF ProperMemory, Placed, Block, End
<1>3. \A x \in Start .. Start + Cells - 1 : InBlock(x, b0)
  BY <1>2 DEF InBlock, ProperMemory
<1>4. Coalesced
  BY <1>1, <1>2 DEF Coalesced, ProperMemory
<1> HIDE DEF b0
<1>5. QED
  BY <1>1, <1>2, <1>3, <1>4 DEF AllocatorInv

\* Handing out a whole block, or splitting one, keeps the invariant.
LEMMA AllocOk ==
  ASSUME ProperMemory, AllocatorInv, NEW n \in Sizes, AAlloc(n)
  PROVE  AllocatorInv'
<1>0. n \in Nat /\ n >= 1
  BY DEF ProperMemory
<1>1. PICK b \in free :
        /\ BestFit(b, n)
        /\ \/ /\ b.len <= n + 2
              /\ free' = free \ {b}
              /\ held' = held \cup {b}
           \/ /\ b.len > n + 2
              /\ free' = (free \ {b}) \cup {[at |-> b.at + (n + 1), len |-> b.len - (n + 1)]}
              /\ held' = held \cup {[at |-> b.at, len |-> n]}
  BY DEF AAlloc
<1>2. CASE b.len <= n + 2 /\ free' = free \ {b} /\ held' = held \cup {b}
  <2>1. free' \cup held' = free \cup held
    BY <1>2
  <2>2. free' \cap held' = {}
    BY <1>2 DEF AllocatorInv
  <2>3. Coalesced'
    BY <1>2 DEF AllocatorInv, Coalesced, End
  <2>4. QED
    BY <2>1, <2>2, <2>3 DEF AllocatorInv, Apart, Placed, InBlock, End
<1>3. CASE /\ b.len > n + 2
           /\ free' = (free \ {b}) \cup {[at |-> b.at + (n + 1), len |-> b.len - (n + 1)]}
           /\ held' = held \cup {[at |-> b.at, len |-> n]}
  <2> DEFINE r == [at |-> b.at + (n + 1), len |-> b.len - (n + 1)]
             h == [at |-> b.at, len |-> n]
  <2>1. Placed(b) /\ b \in Block /\ b.at \in Nat /\ b.len \in Nat
    BY DEF AllocatorInv, Placed, Block
  <2>2. /\ r \in Block /\ r.at = b.at + (n + 1) /\ r.len = b.len - (n + 1)
        /\ h \in Block /\ h.at = b.at /\ h.len = n
    BY <1>0, <1>3, <2>1 DEF Block
  <2> HIDE DEF r, h
  <2>3. End(h) = r.at /\ End(r) = End(b) /\ r.len >= 1 /\ b.at < r.at /\ r.at < End(r)
    BY <1>0, <1>3, <2>1, <2>2 DEF End
  <2>4. Placed(r) /\ Placed(h)
    BY <1>0, <2>1, <2>2, <2>3 DEF Placed, End, ProperMemory
  <2>5. free' = (free \ {b}) \cup {r} /\ held' = held \cup {h}
    BY <1>3 DEF r, h
  <2>6. \A c \in (free \cup held) \ {b} :
          /\ c \in Block /\ c.at \in Nat /\ c.len \in Nat /\ Placed(c)
          /\ Apart(b, c)
          /\ Apart(r, c) /\ Apart(h, c)
    <3> SUFFICES ASSUME NEW c \in (free \cup held) \ {b}
                 PROVE  /\ c \in Block /\ c.at \in Nat /\ c.len \in Nat /\ Placed(c)
                        /\ Apart(b, c)
                        /\ Apart(r, c) /\ Apart(h, c)
      OBVIOUS
    <3>1. c \in Block /\ c.at \in Nat /\ c.len \in Nat /\ Placed(c) /\ Apart(b, c)
      BY DEF AllocatorInv, Placed, Block
    <3>2. QED
      BY <1>0, <1>3, <2>1, <2>2, <2>3, <3>1 DEF Apart, End
  <2>7. Apart(r, h) /\ Apart(h, r) /\ r # h
    BY <2>2, <2>3, <1>0, <2>1 DEF Apart, End
  <2>8. b \notin held
    BY DEF AllocatorInv
  <2>9. \A c \in (free \cup held) \ {b} : c # r /\ c # h
    BY <2>2, <2>3, <2>6, <1>0, <2>1 DEF Apart, End
  <2>10. free' \cup held' = ((free \cup held) \ {b}) \cup {r, h}
    BY <2>5, <2>8
  <2>11. \A c, d \in free' \cup held' : c # d => Apart(c, d)
    BY <2>6, <2>7, <2>10 DEF AllocatorInv, Apart
  <2>12. free' \cap held' = {}
    BY <2>5, <2>7, <2>8, <2>9 DEF AllocatorInv
  <2>13. \A x \in Start .. Start + Cells - 1 : InBlock(x, b) => InBlock(x, r) \/ InBlock(x, h)
    BY <2>1, <2>2, <2>3 DEF InBlock, End, ProperMemory
  <2>14. \A x \in Start .. Start + Cells - 1 : \E c \in free' \cup held' : InBlock(x, c)
    BY <2>10, <2>13 DEF AllocatorInv
  <2>15. Coalesced'
    <3>1. \A c \in free \ {b} : End(c) # r.at
      BY <2>1, <2>3, <2>6 DEF Apart, End, Placed, Block
    <3>2. \A c \in free \ {b} : End(r) # c.at
      BY <2>3 DEF AllocatorInv, Coalesced
    <3>3. End(r) # r.at
      BY <2>2, <2>3, <2>1, <1>0
    <3>4. QED
      BY <2>5, <3>1, <3>2, <3>3 DEF AllocatorInv, Coalesced, End
  <2>16. \A c \in free' \cup held' : Placed(c)
    BY <2>4, <2>6, <2>10
  <2>17. QED
    BY <2>11, <2>12, <2>14, <2>15, <2>16 DEF AllocatorInv, Apart, Placed, InBlock, End
<1>4. QED
  BY <1>1, <1>2, <1>3

\* Giving a block back and merging it with the blocks it touches.
LEMMA FreeOk ==
  ASSUME ProperMemory, AllocatorInv, NEW b \in held, AFree(b)
  PROVE  AllocatorInv'
<1> DEFINE N == Neighbours(b)
<1>1. PICK m \in [at : {c.at : c \in N \cup {b}}, len : 0 .. Cells] :
        Merged(b, m) /\ free' = (free \ N) \cup {m} /\ held' = held \ {b}
  BY DEF AFree
<1>2. \A c \in free \cup held : c \in Block /\ c.at \in Nat /\ c.len \in Nat /\ Placed(c) /\ End(c) \in Nat
  BY DEF AllocatorInv, Placed, Block, End
<1>3. N \subseteq free /\ b \notin free /\ b \in free \cup held
  BY DEF Neighbours, AllocatorInv
<1>4. m \in Block /\ m.at \in Nat /\ m.len \in Nat
  BY <1>1, <1>2, <1>3 DEF Block, ProperMemory
<1>5. \A c \in N : c # b /\ Apart(b, c)
  BY <1>3 DEF AllocatorInv
<1>6. \A c \in N \cup {b} : m.at <= c.at /\ End(c) <= End(m)
  BY <1>1 DEF Merged
<1>7. m.at = b.at \/ \E c \in N : m.at = c.at /\ End(c) = b.at
  <2>1. m.at <= b.at
    BY <1>6
  <2>2. \A c \in N : m.at = c.at => End(c) = b.at
    <3> SUFFICES ASSUME NEW c \in N, m.at = c.at, End(b) = c.at PROVE FALSE
      BY DEF Neighbours
    <3>1. b.at < End(b)
      BY <1>2, <1>3 DEF End
    <3>2. QED
      BY <3>1, <2>1, <1>2, <1>3, <1>4
  <2>3. QED
    BY <1>1, <2>2 DEF Merged
<1>8. End(m) = End(b) \/ \E c \in N : End(m) = End(c) /\ End(b) = c.at
  <2>1. End(b) <= End(m)
    BY <1>6
  <2>2. \A c \in N : End(m) = End(c) => End(b) = c.at
    <3> SUFFICES ASSUME NEW c \in N, End(m) = End(c), End(c) = b.at PROVE FALSE
      BY DEF Neighbours
    <3>1. b.at < End(b)
      BY <1>2, <1>3 DEF End
    <3>2. QED
      BY <3>1, <2>1, <1>2, <1>3
  <2>3. QED
    BY <1>1, <2>2 DEF Merged
<1> HIDE DEF N
<1>9. Placed(m)
  <2>1. Start <= m.at
    BY <1>2, <1>3, <1>7 DEF Placed
  <2>2. End(m) <= Start + Cells
    BY <1>2, <1>3, <1>8 DEF Placed
  <2>3. m.len >= 1
    BY <1>2, <1>3, <1>4, <1>6 DEF Placed, End
  <2>4. QED
    BY <1>4, <2>1, <2>2, <2>3 DEF Placed
<1>10. \A d \in (free \cup held) \ (N \cup {b}) : Apart(m, d)
  <2> SUFFICES ASSUME NEW d \in (free \cup held) \ (N \cup {b}) PROVE Apart(m, d)
    OBVIOUS
  <2>1. Apart(b, d) /\ \A c \in N : Apart(c, d)
    BY <1>3 DEF AllocatorInv
  <2>2. d.at < End(d) /\ d.at \in Nat /\ d.len \in Nat /\ End(d) \in Nat
    BY <1>2 DEF End
  <2>3. b.at \in Nat /\ End(b) \in Nat /\ b.at < End(b)
    BY <1>2, <1>3 DEF End
  <2>4. End(d) <= b.at => End(d) <= m.at
    BY <1>7, <2>1, <2>2, <2>3, <1>2, <1>3, <1>4 DEF Apart
  <2>5. End(b) <= d.at => End(m) <= d.at
    BY <1>8, <2>1, <2>2, <2>3, <1>2, <1>3, <1>4 DEF Apart
  <2>6. QED
    BY <2>1, <2>4, <2>5 DEF Apart
<1>11. free' \cup held' = ((free \cup held) \ (N \cup {b})) \cup {m}
  BY <1>1, <1>3 DEF AllocatorInv, N
<1>12. \A c \in free' \cup held' : Placed(c)
  BY <1>2, <1>9, <1>11
<1>13. \A c, d \in free' \cup held' : c # d => Apart(c, d)
  BY <1>10, <1>11 DEF AllocatorInv, Apart
<1>14. free' \cap held' = {}
  <2>1. m \notin held'
    <3> SUFFICES ASSUME m \in held' PROVE FALSE
      OBVIOUS
    <3>1. m \in (free \cup held) \ (N \cup {b})
      BY <1>1, <1>3 DEF AllocatorInv, N
    <3>2. Apart(m, m)
      BY <1>10, <3>1
    <3>3. QED
      BY <3>2, <1>4 DEF Apart, End
  <2>2. QED
    BY <1>1, <2>1 DEF AllocatorInv, N
<1>15. \A x \in Start .. Start + Cells - 1 : \E c \in free' \cup held' : InBlock(x, c)
  <2> SUFFICES ASSUME NEW x \in Start .. Start + Cells - 1
               PROVE  \E c \in free' \cup held' : InBlock(x, c)
    OBVIOUS
  <2>1. PICK c \in free \cup held : InBlock(x, c)
    BY DEF AllocatorInv
  <2>2. c \in N \cup {b} => InBlock(x, m)
    <3> SUFFICES ASSUME c \in N \cup {b} PROVE InBlock(x, m)
      OBVIOUS
    <3>1. m.at <= c.at /\ End(c) <= End(m) /\ x \in Int
      BY <1>6 DEF ProperMemory
    <3>2. m.at \in Nat /\ End(m) \in Nat /\ c.at \in Nat /\ End(c) \in Nat
      BY <1>2, <1>4 DEF End
    <3>3. QED
      BY <2>1, <3>1, <3>2 DEF InBlock
  <2>3. QED
    BY <2>1, <2>2, <1>11
<1>16. Coalesced'
  <2>1. \A d \in free \ N : End(d) # m.at
    <3> SUFFICES ASSUME NEW d \in free \ N, End(d) = m.at PROVE FALSE
      OBVIOUS
    <3>1. End(d) # b.at
      BY DEF N, Neighbours
    <3>2. \A c \in N : End(d) # c.at
      BY <1>3 DEF AllocatorInv, Coalesced
    <3>3. QED
      BY <3>1, <3>2, <1>7
  <2>2. \A d \in free \ N : End(m) # d.at
    <3> SUFFICES ASSUME NEW d \in free \ N, End(m) = d.at PROVE FALSE
      OBVIOUS
    <3>1. End(b) # d.at
      BY DEF N, Neighbours
    <3>2. \A c \in N : End(c) # d.at
      BY <1>3 DEF AllocatorInv, Coalesced
    <3>3. QED
      BY <3>1, <3>2, <1>8
  <2>3. End(m) # m.at
    BY <1>4 DEF End
  <2>4. free' = (free \ N) \cup {m}
    BY <1>1 DEF N
  <2>5. QED
    BY <2>1, <2>2, <2>3, <2>4 DEF AllocatorInv, Coalesced, End
<1>17. QED
  BY <1>12, <1>13, <1>14, <1>15, <1>16 DEF AllocatorInv, Apart, Placed, InBlock, End

LEMMA StepOk ==
  ASSUME ProperMemory, AllocatorInv, [ANext]_avars
  PROVE  AllocatorInv'
<1>1. CASE UNCHANGED avars
  BY <1>1 DEF avars, AllocatorInv, Apart, Placed, InBlock, End, Coalesced
<1>2. CASE ANext
  BY <1>2, AllocOk, FreeOk DEF ANext
<1>3. QED
  BY <1>1, <1>2

LEMMA InvGives ==
  ASSUME ProperMemory, AllocatorInv
  PROVE  EveryCellOnce /\ Coalesced
<1>1. \A b \in free \cup held : b.at \in Nat /\ b.len \in Nat
  BY DEF AllocatorInv, Placed, Block
<1>2. \A b, c \in free \cup held : b # c => Extent(b) \cap Extent(c) = {}
  BY <1>1 DEF AllocatorInv, Apart, Extent, End
<1>3. \A x \in Start .. Start + Cells - 1 : \E b \in free \cup held : x \in Extent(b)
  <2> SUFFICES ASSUME NEW x \in Start .. Start + Cells - 1
               PROVE  \E b \in free \cup held : x \in Extent(b)
    OBVIOUS
  <2>1. PICK b \in free \cup held : InBlock(x, b)
    BY DEF AllocatorInv
  <2>2. x \in Int
    BY DEF ProperMemory
  <2>3. x \in Extent(b)
    BY <1>1, <2>1, <2>2 DEF InBlock, Extent, End
  <2>4. QED
    BY <2>3
<1>4. QED
  BY <1>2, <1>3 DEF AllocatorInv, EveryCellOnce

\* Whatever the memory and the requests, every cell belongs to exactly one free
\* or held block: alloc-mem and free-mem neither overlap blocks nor lose memory.
THEOREM AllocatorLosesNothing ==
  ASSUME ProperMemory
  PROVE  ASpec => []EveryCellOnce
<1>1. AInit => AllocatorInv
  BY InitOk
<1>2. AllocatorInv /\ [ANext]_avars => AllocatorInv'
  BY StepOk
<1>3. AllocatorInv => EveryCellOnce
  BY InvGives
<1>4. QED
  BY <1>1, <1>2, <1>3, PTL DEF ASpec

\* No two free blocks ever touch, so that free-mem's merging with at most one
\* block on each side is all the merging there is to do.
THEOREM AllocatorCoalesces ==
  ASSUME ProperMemory
  PROVE  ASpec => []Coalesced
<1>1. AInit => AllocatorInv
  BY InitOk
<1>2. AllocatorInv /\ [ANext]_avars => AllocatorInv'
  BY StepOk
<1>3. AllocatorInv => Coalesced
  BY InvGives
<1>4. QED
  BY <1>1, <1>2, <1>3, PTL DEF ASpec
=============================================================================
