------------------------------ MODULE MCStorage ------------------------------
(***************************************************************************)
(* The packages and file systems, for TLC.  A behaviour is one of one      *)
(* part, with the others at rest.                                          *)
(***************************************************************************)
EXTENDS Cmdline, Nvram, Deblocker, HfsCache, FatFile, FileSystems, FileReads

VARIABLE part

MCFsOn == [hp |-> "hfsplus", h |-> "hfs", e |-> "ext2", f |-> "fatfs",
           c |-> "iso9660", g |-> "grubfs"]

\* The parts whose initial states are many, at rest.
CmdRest ==
  /\ line = FreshLine /\ look = FreshLook /\ hist = <<>> /\ kill = <<>>
  /\ screen = FreshScreen /\ ran = Nothing
NvRest ==
  /\ device = [a \in Addrs |-> [sig |-> "free", size |-> NvUnits]]
  /\ nvdata = device /\ nvpart = 0 /\ config = NoPart /\ once = FALSE
  /\ settings = Default /\ phase = "up" /\ saved = None
FfRest ==
  /\ vol = [fat |-> [c \in 2 .. FatEntries - 1 |-> 0], size |-> 0, sclust |-> 0,
            contiguous |-> FALSE]
  /\ f_open /\ reply = NoReply
RfRest ==
  /\ kind = "ext2" /\ size = 0 /\ at = 0 /\ got = NoCallYet
  /\ st = [pos |-> 0, current |-> NoBlock, buffer |-> NoBlock]

StorageInit ==
  /\ part \in {"cmdline", "nvram", "deblocker", "hfs", "fat", "systems", "reads"}
  /\ DbInit /\ HcInit /\ FsInit
  /\ IF part = "cmdline" THEN CmdInit ELSE CmdRest
  /\ IF part = "nvram" THEN NvInit ELSE NvRest
  /\ IF part = "fat" THEN FfInit ELSE FfRest
  /\ IF part = "reads" THEN RfInit ELSE RfRest

StorageNext ==
  /\ UNCHANGED part
  /\ \/ part = "cmdline" /\ CmdNext /\ UNCHANGED <<nvVars, dbVars, hcVars, ffVars, fsVars, rfVars>>
     \/ part = "nvram" /\ NvNext /\ UNCHANGED <<cmdVars, dbVars, hcVars, ffVars, fsVars, rfVars>>
     \/ part = "deblocker" /\ DbNext /\ UNCHANGED <<cmdVars, nvVars, hcVars, ffVars, fsVars, rfVars>>
     \/ part = "hfs" /\ HcNext /\ UNCHANGED <<cmdVars, nvVars, dbVars, ffVars, fsVars, rfVars>>
     \/ part = "fat" /\ FfNext /\ UNCHANGED <<cmdVars, nvVars, dbVars, hcVars, fsVars, rfVars>>
     \/ part = "systems" /\ FsNext /\ UNCHANGED <<cmdVars, nvVars, dbVars, hcVars, ffVars, rfVars>>
     \/ part = "reads" /\ RfNext /\ UNCHANGED <<cmdVars, nvVars, dbVars, hcVars, ffVars, fsVars>>

StorageSpec ==
  /\ StorageInit
  /\ [][StorageNext]_<<part, cmdVars, nvVars, dbVars, hcVars, ffVars, fsVars, rfVars>>
  /\ WF_nvVars(part = "nvram" /\ nvconf_init)

\* Whichever file system a file lies on, FAT or one of those with block maps,
\* reads give the bytes of the file from its position on.
FilesReadRight == FatReadsRight /\ []ReadsAsFile
=============================================================================
