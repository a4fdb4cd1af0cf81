------------------------------ MODULE MCDrivers ------------------------------
(***************************************************************************)
(* The device drivers, for TLC.  They share no state; a behaviour is one   *)
(* of one driver, with the others at rest.                                 *)
(***************************************************************************)
EXTENDS Virtio, UsbMsc, UsbKeyboard, Ide, Sdhc

VARIABLE part

MCDelays == <<2, 1>>

DriversInit ==
  /\ part \in {"virtio", "msc", "keyboard", "ide", "sdhc"}
  /\ VInit /\ MscInit /\ KbInit /\ IdeInit /\ SdInit

DriversNext ==
  /\ UNCHANGED part
  /\ \/ part = "virtio" /\ VNext /\ UNCHANGED <<mscVars, kbVars, ideVars, sdVars>>
     \/ part = "msc" /\ MscNext /\ UNCHANGED <<vVars, kbVars, ideVars, sdVars>>
     \/ part = "keyboard" /\ KbNext /\ UNCHANGED <<vVars, mscVars, ideVars, sdVars>>
     \/ part = "ide" /\ IdeNext /\ UNCHANGED <<vVars, mscVars, kbVars, sdVars>>
     \/ part = "sdhc" /\ SdNext /\ UNCHANGED <<vVars, mscVars, kbVars, ideVars>>

DriversSpec ==
  /\ DriversInit /\ [][DriversNext]_<<part, vVars, mscVars, kbVars, ideVars, sdVars>>
  /\ WF_vVars(part = "virtio" /\ VDriver) /\ WF_vVars(part = "virtio" /\ HostTransfers)
  /\ WF_mscVars(part = "msc" /\ MscDriver)
  /\ WF_ideVars(part = "ide" /\ IdeDriver)
  /\ WF_sdVars(part = "sdhc" /\ SdDriver)

\* Every call into a driver returns, whatever the device does: the waits and the
\* retries of all of them are bounded, or the host answers in the end.
DriversReturn == ReadsReturn /\ MscReturns /\ IdeReturns /\ SdReturns
=============================================================================
