----------------------------- MODULE FileSystems -----------------------------
(****************************************************************************)
(* The life cycle of the file system packages and the tables they share:    *)
(* the file descriptors (libc/diskio.c), the list of FAT volumes (FatFs in  *)
(* fs/fatfs/ff.c), the record of iso9660 files, and the device that grubfs  *)
(* reads.  find-filesystem probes the packages in turn; the first that      *)
(* answers is opened for the path, and directories are listed on the way.   *)
(*                                                                          *)
(* What the volumes hold is abstracted to the package that recognises a     *)
(* disk and whether a path exists; reading a mounted volume may fail.       *)
(****************************************************************************)
EXTENDS Integers, FiniteSetsExt

CONSTANTS FsOn,        \* the package that recognises each disk
          FsDescriptors,  \* MAX_FD
          FatVolumes,  \* FF_VOLUMES
          FsSlots,     \* instances that may be open together
          FsAlone      \* packages with an instance open only on its own

ASSUME FileSystemsAssumption ==
    FsDescriptors \in Nat \ {0} /\ FatVolumes \in 1 .. FsDescriptors

VARIABLES sys,   \* descriptors, FatFs, curfs->dev_fd and iso9660's record
          inst,  \* the open instances
          found  \* the package find-filesystem chose, not opened yet

fsVars == <<sys, inst, found>>

FsDisks == DOMAIN FsOn
Descriptors == 0 .. FsDescriptors - 1
NoFd == -1
FreeFd == [disk |-> "none", by |-> "none"]
Closed == [fs |-> "none", disk |-> "none", fd |-> NoFd, file |-> "none"]
NoObject == "none"
FreedObject == "freed"
NothingFound == [fs |-> "none", disk |-> "none"]

open_ih(s) ==
    LET free == {fd \in Descriptors : s.fds[fd] = FreeFd}
    IN  IF free = {} THEN NoFd ELSE Min(free)

Occupied(s, fd, p, d) == [s EXCEPT !.fds[fd] = [disk |-> d, by |-> p]]

close_io(s, fd) == [s EXCEPT !.fds[fd] = FreeFd]

\* f_mount registers the object before it looks at the disk, and leaves it
\* registered when there is no FAT volume.  A volume number has one digit.
f_mount(s, fd, object) ==
    IF fd < FatVolumes THEN [s EXCEPT !.FatFs[fd] = object] ELSE s

Mountable(p, d, fd) == FsOn[d] = p /\ (p = "fatfs" => fd < FatVolumes)

\* Probes: the state they leave and their answer.  Without a descriptor they
\* all answer "found".
ProbeAndClose(s, p, d) ==
    [s |-> s, found |-> open_ih(s) = NoFd \/ FsOn[d] = p]

hfsp_files_probe(s, d) == ProbeAndClose(s, "hfsplus", d)
hfs_files_probe(s, d) == ProbeAndClose(s, "hfs", d)
ext2_files_probe(s, d) == ProbeAndClose(s, "ext2", d)
iso9660_files_probe(s, d) == ProbeAndClose(s, "iso9660", d)

\* The FATFS object of a probe is freed at its end, registered or not.
fatfs_files_probe(s, d) ==
    LET fd == open_ih(s)
        ok == Mountable("fatfs", d, fd)
    IN  IF fd = NoFd THEN [s |-> s, found |-> TRUE]
        ELSE [s |-> f_mount(s, fd, IF ok THEN NoObject ELSE FreedObject), found |-> ok]

\* The descriptor stays open if a file system is found.
grubfs_files_probe(s, d) ==
    LET fd == open_ih(s)
        t  == [s EXCEPT !.curfs = fd]
    IN  CASE fd = NoFd -> [s |-> t, found |-> TRUE]
          [] fd # NoFd /\ FsOn[d] = "grubfs" -> [s |-> Occupied(t, fd, "grubfs", d), found |-> TRUE]
          [] OTHER -> [s |-> t, found |-> FALSE]

Probe(p, s, d) ==
    CASE p = "hfsplus" -> hfsp_files_probe(s, d)
      [] p = "hfs"     -> hfs_files_probe(s, d)
      [] p = "ext2"    -> ext2_files_probe(s, d)
      [] p = "fatfs"   -> fatfs_files_probe(s, d)
      [] p = "iso9660" -> iso9660_files_probe(s, d)
      [] p = "grubfs"  -> grubfs_files_probe(s, d)

FsAloneAllows(d) ==
    \A i \in FsSlots : inst[i].fs \notin FsAlone
                       /\ (inst[i] # Closed => FsOn[d] \notin FsAlone)

\* The packages are asked one after the other until one answers.
Asked(acc, p, d) ==
    IF acc.fs # "none" THEN acc
    ELSE LET r == Probe(p, acc.s, d) IN [s |-> r.s, fs |-> IF r.found THEN p ELSE "none"]

\* The registration order (modules_init).
AllAsked(s, d) ==
    LET a == Asked([s |-> s, fs |-> "none"], "hfsplus", d)
        b == Asked(Asked(a, "hfs", d), "ext2", d)
        c == Asked(b, "fatfs", d)
    IN  Asked(Asked(c, "iso9660", d), "grubfs", d)

find_filesystem(d) ==
    /\ found = NothingFound /\ FsAloneAllows(d) /\ \E i \in FsSlots : inst[i] = Closed
    /\ LET r == AllAsked(sys, d)
       IN  /\ sys' = r.s
           /\ found' = IF r.fs = "none" THEN NothingFound ELSE [fs |-> r.fs, disk |-> d]
    /\ UNCHANGED inst

-----------------------------------------------------------------------------
\* Opening: outcome is "mount" (the volume could not be mounted), "missing"
\* (no such file) or "found"; closes says for which of the first two the
\* package closes the descriptor, and opens for which it reports success.
Outcomes(p, d, fd) ==
    IF Mountable(p, d, fd) THEN {"mount", "missing", "found"} ELSE {"mount"}

Opening(p, i, closes, opens) ==
    LET d  == found.disk
        fd == open_ih(sys)
        t  == Occupied(sys, fd, p, d)
    IN
    /\ found.fs = p /\ inst[i] = Closed
    /\ found' = NothingFound
    /\ \/ fd = NoFd /\ UNCHANGED <<sys, inst>>
       \/ fd # NoFd /\ \E o \in Outcomes(p, d, fd) :
            LET u == CASE p = "fatfs" -> f_mount(t, fd, IF o \in opens THEN i ELSE FreedObject)
                       [] p = "iso9660" /\ o \in opens -> [t EXCEPT !.common = i]
                       [] OTHER -> t
            IN  /\ sys' = IF o \in closes THEN close_io(u, fd) ELSE u
                /\ inst' = IF o \notin opens THEN inst
                           ELSE [inst EXCEPT ![i] = [fs |-> p, disk |-> d, fd |-> fd, file |-> o]]

iso9660_files_open(i) == Opening("iso9660", i, {"mount", "missing"}, {"found"})
fatfs_files_open(i) == Opening("fatfs", i, {"mount", "missing"}, {"found"})
ext2_files_open(i) == Opening("ext2", i, {}, {"found"})
grubfs_files_open(i) == Opening("grubfs", i, {}, {"found"})

\* Also "found" without a file: when the blessed folder cannot be read, and
\* when no file has the type that a path like :tbxi asks for.
hfs_files_open(i) ==
    Opening("hfs", i, {}, {"found"}) \/ Opening("hfs", i, {}, {"missing", "found"})

\* Gives the descriptor back when the file is missing.
hfsp_files_open_Gives(i) ==
    Opening("hfsplus", i, {"mount", "missing"}, {"missing", "found"})

\* A path that is not found is opened too, except under a system folder that
\* does not exist.
hfsp_files_open(i) ==
    \/ Opening("hfsplus", i, {"mount"}, {"missing", "found"})
    \/ Opening("hfsplus", i, {"mount"}, {"found"})

-----------------------------------------------------------------------------
\* Closing: what becomes of the tables.
Closing(p, i, s) ==
    /\ inst[i].fs = p /\ found = NothingFound
    /\ sys' = s
    /\ inst' = [inst EXCEPT ![i] = Closed]
    /\ UNCHANGED found

iso9660_files_close(i) == Closing("iso9660", i, close_io(sys, inst[i].fd))

fatfs_files_close(i) ==
    Closing("fatfs", i, close_io(f_mount(sys, inst[i].fd, NoObject), inst[i].fd))

ext2_files_close(i) == Closing("ext2", i, sys)
grubfs_files_close(i) == Closing("grubfs", i, sys)
hfs_files_close(i) == Closing("hfs", i, sys)
hfsp_files_close(i) == Closing("hfsplus", i, sys)

-----------------------------------------------------------------------------
\* Listing a directory: the descriptor is closed at the end, unless the
\* outcome is one of leaks.
Listing(p, d, leaks) ==
    LET fd == open_ih(sys)
        t  == Occupied(sys, fd, p, d)
    IN
    /\ found = NothingFound /\ FsOn[d] = p /\ FsAloneAllows(d) /\ fd # NoFd
    /\ \E o \in Outcomes(p, d, fd) :
         LET u == IF p = "fatfs"
                  THEN f_mount(t, fd, IF o = "found" THEN NoObject ELSE FreedObject) ELSE t
         IN  sys' = IF o \in leaks THEN u ELSE close_io(u, fd)
    /\ UNCHANGED <<inst, found>>

iso9660_files_dir(d) == Listing("iso9660", d, {})
fatfs_files_dir(d) == Listing("fatfs", d, {})
ext2_files_dir(d) == Listing("ext2", d, {"mount"})
hfs_files_dir(d) == Listing("hfs", d, {"mount"})
hfsp_files_dir(d) == Listing("hfsplus", d, {"missing", "found"})

FsInit ==
    /\ sys = [fds |-> [fd \in Descriptors |-> FreeFd],
              FatFs |-> [v \in 0 .. FatVolumes - 1 |-> NoObject],
              curfs |-> 0, common |-> NoObject]
    /\ inst = [i \in FsSlots |-> Closed]
    /\ found = NothingFound

FsNext ==
    \/ \E d \in FsDisks :
         \/ find_filesystem(d)
         \/ iso9660_files_dir(d) \/ fatfs_files_dir(d) \/ ext2_files_dir(d)
         \/ hfs_files_dir(d) \/ hfsp_files_dir(d)
    \/ \E i \in FsSlots :
         \/ iso9660_files_open(i) \/ fatfs_files_open(i) \/ ext2_files_open(i)
         \/ grubfs_files_open(i) \/ hfs_files_open(i) \/ hfsp_files_open(i)
         \/ iso9660_files_close(i) \/ fatfs_files_close(i) \/ ext2_files_close(i)
         \/ grubfs_files_close(i) \/ hfs_files_close(i) \/ hfsp_files_close(i)

FsSpec == FsInit /\ [][FsNext]_fsVars

-----------------------------------------------------------------------------
\* The disk a read goes to: grubfs reads where the last probe looked
\* (devread), iso9660 the file of the shared record, the others through their
\* descriptor (read_io).
devread == IF sys.curfs = NoFd THEN "none" ELSE sys.fds[sys.curfs].disk

iso9660_files_read ==
    IF sys.common \in FsSlots THEN sys.fds[inst[sys.common].fd].disk ELSE "none"

ReadsFrom(i) ==
    CASE inst[i].fs = "grubfs" -> devread
      [] inst[i].fs = "iso9660" -> iso9660_files_read
      [] OTHER -> sys.fds[inst[i].fd].disk

\* An open file is read from its own disk, whatever was probed, listed,
\* opened, failed or closed since: its descriptor is live, nobody else's, and
\* the package looks where the file is.
ReadsOwnDisk ==
    \A i \in FsSlots : inst[i] # Closed =>
      /\ ReadsFrom(i) = inst[i].disk
      /\ sys.fds[inst[i].fd] = [disk |-> inst[i].disk, by |-> inst[i].fs]
      /\ \A j \in FsSlots \ {i} : inst[j].fd # inst[i].fd

\* The iso9660 and FAT packages lose no descriptor: each one they took
\* belongs to one of their open files.
BalancedDescriptors ==
    \A fd \in Descriptors : sys.fds[fd].by \in {"iso9660", "fatfs"} =>
      \E i \in FsSlots : inst[i].fd = fd /\ inst[i].fs = sys.fds[fd].by

\* An open FAT file finds its volume registered at its number, also after
\* probes and failed opens of other disks.
OpenIsRegistered ==
    \A i \in FsSlots : inst[i].fs = "fatfs" => sys.FatFs[inst[i].fd] = i

\* A registered file system object is one that exists: FatFs holds "Pointer
\* to the filesystem objects (logical drives)" (ff.c:465).
RegisteredIsAlive == \A v \in DOMAIN sys.FatFs : sys.FatFs[v] # FreedObject

\* No package loses descriptors.
NothingLeaks ==
    \A fd \in Descriptors : sys.fds[fd] = FreeFd \/ \E i \in FsSlots : inst[i].fd = fd

\* What find-filesystem answers recognises the disk.
FoundRecognises == found # NothingFound => FsOn[found.disk] = found.fs

\* Open files, descriptors and the table of FAT volumes agree, whichever disks
\* are probed, opened and closed in between.
FilesKeptApart == ReadsOwnDisk /\ BalancedDescriptors /\ OpenIsRegistered
=============================================================================
