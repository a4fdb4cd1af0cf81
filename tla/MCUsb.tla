-------------------------------- MODULE MCUsb --------------------------------
(***************************************************************************)
(* The host controller driver and the table of USB devices, for TLC.  A    *)
(* behaviour is one of one part, with the other at rest.                   *)
(***************************************************************************)
EXTENDS Ohci, UsbDevices

CONSTANT Parts   \* of "ohci" and "devices"
VARIABLE part

TwoAndOne == [q \in Queues |-> IF q = "kbd" THEN 2 ELSE 1]

\* Nothing, or one device at the first port, is connected at start.
OneBoot == {{}, {0}}
TwoBoot == {{}, {0, 1}}

MCUsbInit ==
  /\ part \in Parts /\ OhciInit /\ UsbInit
  /\ part # "devices" => \A p \in Ports : ~Connected(p)

MCUsbNext ==
  /\ UNCHANGED part
  /\ \/ part = "ohci" /\ OhciNext /\ UNCHANGED uvars
     \/ part = "devices" /\ UsbNext /\ UNCHANGED ovars

MCUsbSpec ==
  /\ MCUsbInit /\ [][MCUsbNext]_<<part, ovars, uvars>>
  /\ WF_ovars(part = "ohci" /\ OhciDriver) /\ WF_ovars(part = "ohci" /\ HcFrame)
  /\ WF_uvars(part = "devices" /\ UsbDriver) /\ WF_uvars(part = "devices" /\ Report)
=============================================================================
