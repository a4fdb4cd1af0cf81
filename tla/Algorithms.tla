----------------------------- MODULE Algorithms -----------------------------
(***************************************************************************)
(* All the algorithms, for TLC.                                            *)
(***************************************************************************)
EXTENDS ForthWords, FatVolume, PartitionTables, Clock, Pci, GrubFiles

AlgInit ==
  /\ task \in ForthTasks \cup FatTasks \cup PartTasks \cup ClockTasks \cup PciTasks \cup GrubTasks
  /\ result = <<>>
  /\ done = FALSE

AlgNext == ForthTask \/ FatTask \/ PartTask \/ ClockTask \/ PciTask \/ GrubTask \/ Done

AlgSpec == AlgInit /\ [][AlgNext]_algVars
=============================================================================
