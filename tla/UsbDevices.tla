----------------------------- MODULE UsbDevices ------------------------------
(***************************************************************************)
(* The device table of drivers/usb.c and the hub drivers (usbohci_rh.c for *)
(* the root hub, generic_hub.c and usbhub.c for the others), while devices *)
(* are plugged in and pulled out between any two of their steps.           *)
(*                                                                         *)
(* The driver is a stack of frames: a frame goes through ports of a hub,   *)
(* and enumerating a hub behind a port pushes a frame for its ports.       *)
(* There is one external hub, which goes into a root port; its own ports   *)
(* take plain devices.                                                     *)
(***************************************************************************)
EXTENDS Integers, Sequences, FiniteSets, SequencesExt

CONSTANTS
  RootPorts,    \* ports of the root hub
  HubPorts,     \* ports of the external hub
  MaxAddress,   \* last entry of devices[]: 127
  MaxPlugs,     \* bound: how often something is plugged in or pulled out
  ColdBoots,    \* sets of root ports that may be connected at start
  Races         \* whether a port may change while usb_hub_port_initialize, having
                \* found it empty, is about to clear an older change

Ports == RootPorts \cup HubPorts
Addresses == 1 .. MaxAddress

ASSUME UsbAssumption ==
  /\ RootPorts \subseteq Nat /\ HubPorts \subseteq Nat /\ RootPorts \cap HubPorts = {}
  /\ MaxAddress \in Nat /\ MaxPlugs \in Nat
  /\ ColdBoots \subseteq SUBSET RootPorts /\ Races \in BOOLEAN

VARIABLES
  plug,         \* what is plugged in, whether the port is enabled, and the
                \* address the device answers to
  change,       \* ports with a connect status change
  rhsc,         \* RootHubStatusChange
  reported,     \* ports in finished interrupt transfers of the external hub
  devices,      \* controller->devices, the root hub left out
  rport,        \* RH_INST(dev)->port
  turn,         \* where usb_poll is in the table
  stack,        \* what the driver is doing
  plugs         \* changes so far

uvars == <<plug, change, rhsc, reported, devices, rport, turn, stack, plugs>>

NoDev == -1
Nothing == [kind |-> "none", on |-> FALSE, address |-> 0]
NoEntry == [kind |-> "none", hub |-> 0, port |-> 0, ports |-> <<>>]

Connected(p) == plug[p].kind # "none"

\* ohci_rh_init resets the ports that are connected.
UsbInit ==
  /\ \E c \in ColdBoots, k \in {"dev", "hub"} :
       /\ plug = [p \in Ports |-> IF p \in c THEN [kind |-> k, on |-> TRUE, address |-> 0]
                                  ELSE Nothing]
       /\ k = "hub" => Cardinality(c) = 1
       /\ change = c /\ rhsc = (c # {})
  /\ reported = {} /\ plugs = 0
  /\ devices = [a \in Addresses |-> NoEntry]
  /\ rport = [p \in RootPorts |-> NoDev]
  /\ turn = 0 /\ stack = <<>>

-----------------------------------------------------------------------------
\* The bus.

HubAt == {r \in RootPorts : plug[r].kind = "hub"}
HubOn == \E r \in HubAt : plug[r].on
Answers(p, a) == plug[p].on /\ plug[p].address = a /\ (p \in HubPorts => HubOn)
HubAnswers(a) == \E r \in HubAt : Answers(r, a)
At(a) == {p \in Ports : Answers(p, a)}

PlugIn(p, k) ==
  /\ plugs < MaxPlugs /\ ~Connected(p)
  /\ k = "hub" => p \in RootPorts /\ HubAt = {}
  /\ plug' = [plug EXCEPT ![p] = [Nothing EXCEPT !.kind = k]]

PullOut(p) ==
  /\ plugs < MaxPlugs /\ Connected(p)
  /\ plug' = IF p \in HubAt
             THEN [q \in Ports |-> CASE q = p -> Nothing
                                     [] q \in HubPorts -> [plug[q] EXCEPT !.on = FALSE]
                                     [] OTHER -> plug[q]]
             ELSE [plug EXCEPT ![p] = Nothing]

Plugging ==
  /\ \E p \in Ports : /\ ~Races /\ p \in HubPorts => \A i \in DOMAIN stack : stack[i].step # "clear"
                      /\ PullOut(p) \/ \E k \in {"dev", "hub"} : PlugIn(p, k)
                      /\ change' = IF p \in RootPorts \/ HubOn THEN change \cup {p} ELSE change
                      /\ rhsc' = (rhsc \/ p \in RootPorts)
  /\ plugs' = plugs + 1
  /\ UNCHANGED <<reported, devices, rport, turn, stack>>

\* An interrupt transfer of the external hub.
Report ==
  /\ \E a \in Addresses : devices[a].kind \in {"starting", "hub"} /\ HubAnswers(a)
  /\ reported' = reported \cup (change \cap HubPorts)
  /\ UNCHANGED <<plug, change, rhsc, devices, rport, turn, stack, plugs>>

\* A port is reset.  A hub that is reset disables its ports, and most hubs
\* then announce what is connected there.
Reset(p) ==
  IF p \in HubAt
  THEN /\ plug' = [q \in Ports |->
            CASE q = p -> [plug[p] EXCEPT !.on = TRUE, !.address = 0]
              [] q \in HubPorts -> [plug[q] EXCEPT !.on = FALSE]
              [] OTHER -> plug[q]]
       /\ \E c \in {{}, {q \in HubPorts : Connected(q)}} : change' = (change \ HubPorts) \cup c
  ELSE /\ plug' = IF Connected(p) THEN [plug EXCEPT ![p].on = TRUE, ![p].address = 0] ELSE plug
       /\ UNCHANGED change

-----------------------------------------------------------------------------
\* The device table.

PortOf(h, p) == IF h = 0 THEN rport[p] ELSE devices[h].ports[p]
Registered == {<<0, p>> : p \in RootPorts}
  \cup UNION {{<<a, p>> : p \in DOMAIN devices[a].ports} : a \in Addresses}

\* usb_detach_device: with a hub goes everything behind it, and its queue.
Gone(a) == {a} \cup {devices[a].ports[p] : p \in DOMAIN devices[a].ports}
usb_detach_device(a) == [b \in Addresses |-> IF b \in Gone(a) THEN NoEntry ELSE devices[b]]

\* hub->ports[p] = a.
Recorded(tab, h, p, a) == [tab EXCEPT ![h].ports[p] = a]

Free == {a \in Addresses : devices[a].kind = "none"}
get_free_address == IF Free = {} THEN NoDev ELSE CHOOSE a \in Free : \A b \in Free : a <= b

-----------------------------------------------------------------------------
\* Frames.

Top == Last(stack)
Pop == Front(stack)
Goto(step) == [stack EXCEPT ![Len(stack)].step = step]
Frame(h, init, todo) ==
  [hub |-> h, init |-> init, todo |-> todo, port |-> 0, step |-> "next", address |-> NoDev]
Running(step) == stack # <<>> /\ Top.step = step
Rest == [stack EXCEPT ![Len(stack)].step = "next", ![Len(stack)].address = NoDev]

NextTurn == (turn + 1) % (MaxAddress + 1)

\* usb_poll gives the next device its turn: the root hub if its status has
\* changed, an external hub for the ports its transfers have named.
usb_poll ==
  /\ stack = <<>>
  /\ turn' = NextTurn
  /\ IF turn = 0
     THEN /\ rhsc' = FALSE /\ UNCHANGED reported
          /\ stack' = IF rhsc THEN <<Frame(0, FALSE, {})>> ELSE <<>>
     ELSE /\ UNCHANGED rhsc
          /\ IF devices[turn].kind = "hub"
             THEN reported' = {} /\ stack' = <<Frame(turn, FALSE, reported)>>
             ELSE UNCHANGED <<reported, stack>>
  /\ UNCHANGED <<plug, change, devices, rport, plugs>>

\* ohci_rh_report_port_changes finds the first port with a change and clears it.
ohci_rh_report_port_changes ==
  LET new == change \cap RootPorts
  IN /\ Running("next") /\ Top.hub = 0
     /\ IF new = {} THEN stack' = Pop /\ UNCHANGED change
        ELSE LET p == CHOOSE p \in new : \A q \in new : p <= q
             IN /\ change' = change \ {p}
                /\ stack' = [stack EXCEPT ![Len(stack)].port = p, ![Len(stack)].step = "scan"]
     /\ UNCHANGED <<plug, rhsc, reported, devices, rport, turn, plugs>>

\* usb_hub_port_initialize and usb_hub_handle_port_change read the status of the
\* next port.  If the hub is gone, get_status fails with a positive number, which
\* passes for success, and the status is whatever the buffer held.  At the end of
\* its initialization a hub gets its poll function.
AfterStatus_Connected(csc, con) == IF csc THEN IF con THEN "clear and scan" ELSE "clear" ELSE "next"
AfterStatus(csc, con) ==
  CASE csc /\ (con \/ ~Top.init) -> "clear and scan"
    [] csc /\ ~con /\ Top.init -> "clear"
    [] con /\ ~csc /\ Top.init -> "scan"
    [] OTHER -> "next"
hub_next_port ==
  LET ok == HubAnswers(Top.hub)
      p == CHOOSE p \in Top.todo : \A q \in Top.todo : p <= q
  IN /\ Running("next") /\ Top.hub # 0
     /\ IF Top.todo = {}
        THEN /\ stack' = Pop
             /\ devices' = IF Top.init THEN [devices EXCEPT ![Top.hub].kind = "hub"] ELSE devices
        ELSE /\ \E csc, con \in BOOLEAN :
                  /\ ok => csc = (p \in change) /\ con = Connected(p)
                  /\ stack' = [stack EXCEPT ![Len(stack)] =
                       [@ EXCEPT !.todo = @ \ {p}, !.port = p, !.step = AfterStatus(csc, con)]]
             /\ UNCHANGED devices
     /\ UNCHANGED <<plug, change, rhsc, reported, rport, turn, plugs>>

\* They clear the change they have seen.
Cleared_All == {}
Cleared == change \ {Top.port}
clear_feature ==
  /\ Running("clear") \/ Running("clear and scan")
  /\ change' = IF HubAnswers(Top.hub) THEN Cleared ELSE change
  /\ stack' = Goto(IF Top.step = "clear" THEN "next" ELSE "scan")
  /\ UNCHANGED <<plug, rhsc, reported, devices, rport, turn, plugs>>

\* ohci_rh_scanport and generic_hub_scanport: whatever was registered is
\* detached, and if something is connected, enumeration begins.
Forgotten(p) == [rport EXCEPT ![p] = NoDev]
scanport ==
  LET p == Top.port
      a == PortOf(Top.hub, p)
      left == IF a = NoDev THEN devices ELSE usb_detach_device(a)
  IN /\ Running("scan")
     /\ devices' = IF Top.hub = 0 THEN left ELSE Recorded(left, Top.hub, p, NoDev)
     /\ rport' = IF Top.hub = 0 THEN Forgotten(p) ELSE rport
     /\ \E con \in BOOLEAN :
          /\ (Top.hub = 0 \/ HubAnswers(Top.hub)) => con = Connected(p)
          /\ stack' = Goto(IF con THEN "settle" ELSE "next")
     /\ UNCHANGED <<plug, change, rhsc, reported, turn, plugs>>

\* The root hub clears the change again.  generic_hub_debounce does so as often as
\* it sees one, until the port is quiet or it gives up.
settle ==
  /\ Running("settle")
  /\ IF Top.hub = 0 THEN change' = Cleared
     ELSE \E c \in {change, IF HubAnswers(Top.hub) THEN Cleared ELSE change} : change' = c
  /\ stack' = Goto("reset")
  /\ UNCHANGED <<plug, rhsc, reported, devices, rport, turn, plugs>>

\* ohci_rh_enable_port and generic_hub_resetport.
resetport ==
  /\ Running("reset")
  /\ IF Top.hub = 0 \/ HubAnswers(Top.hub) THEN Reset(Top.port) ELSE UNCHANGED <<plug, change>>
  /\ stack' = Goto("attach")
  /\ UNCHANGED <<rhsc, reported, devices, rport, turn, plugs>>

\* If the port is enabled, generic_set_address takes an entry of the table,
attach ==
  LET a == get_free_address
  IN /\ Running("attach") /\ a # NoDev
     /\ \E on \in BOOLEAN :
          /\ (Top.hub = 0 \/ HubAnswers(Top.hub)) => on = plug[Top.port].on
          /\ IF on
             THEN /\ devices' = [devices EXCEPT ![a] = [kind |-> "nop", hub |-> Top.hub,
                                                        port |-> Top.port, ports |-> <<>>]]
                  /\ stack' = [stack EXCEPT ![Len(stack)].address = a,
                                            ![Len(stack)].step = "address"]
             ELSE stack' = Rest /\ UNCHANGED devices
     /\ UNCHANGED <<plug, change, rhsc, reported, rport, turn, plugs>>

\* and gives its number to the device at address 0.  If none answers the entry
\* stays.
Fail == [stack EXCEPT ![Len(stack)].address = NoDev, ![Len(stack)].step = "register"]
generic_set_address ==
  /\ Running("address")
  /\ plug' = [p \in Ports |-> IF p \in At(0) THEN [plug[p] EXCEPT !.address = Top.address]
                              ELSE plug[p]]
  /\ stack' = IF At(0) = {} THEN Fail ELSE Goto("describe")
  /\ UNCHANGED <<change, rhsc, reported, devices, rport, turn, plugs>>

\* set_address reads the descriptors and the driver of the class takes over.  A
\* device that is gone has no configuration and its entry stays, or it vanishes
\* between the descriptors and passes for one without a driver.
set_address ==
  LET a == Top.address
      kinds == {plug[p].kind : p \in At(a)}
      entry(k) == [devices EXCEPT ![a].kind = k]
  IN /\ Running("describe")
     /\ \/ kinds = {} /\ stack' = Fail /\ UNCHANGED <<devices, reported>>
        \/ /\ kinds = {} \/ "dev" \in kinds
           /\ devices' = entry("dev") /\ stack' = Goto("register") /\ UNCHANGED reported
        \/ /\ "hub" \in kinds
           /\ devices' = [devices EXCEPT ![a].kind = "starting",
                                         ![a].ports = [p \in HubPorts |-> NoDev]]
           /\ reported' = {}
           /\ stack' = Append(Goto("register"), Frame(a, TRUE, HubPorts))
     /\ UNCHANGED <<plug, change, rhsc, rport, turn, plugs>>

\* The hub driver notes the address or the failure.
register ==
  /\ Running("register")
  /\ IF Top.hub = 0 THEN rport' = [rport EXCEPT ![Top.port] = Top.address] /\ UNCHANGED devices
     ELSE devices' = Recorded(devices, Top.hub, Top.port, Top.address) /\ UNCHANGED rport
  /\ stack' = Rest
  /\ UNCHANGED <<plug, change, rhsc, reported, turn, plugs>>

\* A class driver that is unsatisfied with its device detaches it.
class_driver_gives_up ==
  /\ stack = <<>>
  /\ \E a \in Addresses : devices[a].kind = "dev" /\ devices' = usb_detach_device(a)
  /\ UNCHANGED <<plug, change, rhsc, reported, rport, turn, stack, plugs>>

UsbDriver ==
  \/ usb_poll \/ ohci_rh_report_port_changes \/ hub_next_port \/ clear_feature
  \/ scanport \/ settle \/ resetport \/ attach \/ generic_set_address \/ set_address
  \/ register

UsbNext == Plugging \/ Report \/ UsbDriver

\* usb_poll is called again and again, and the controller goes on with the
\* interrupt transfers of the hub.
UsbSpec == UsbInit /\ [][UsbNext]_uvars /\ WF_uvars(UsbDriver) /\ WF_uvars(Report)

\* The same with class drivers that give up.
SpecUnsatisfied == UsbInit /\ [][UsbNext \/ class_driver_gives_up]_uvars

-----------------------------------------------------------------------------
\* An address that a hub driver holds for a port belongs to a device at this
\* port and to no other port: when the port changes, usb_detach_device takes
\* down the right one, and only once.
RegisteredHere ==
  \A r \in Registered :
    LET a == PortOf(r[1], r[2])
    IN a # NoDev => /\ devices[a].kind # "none"
                    /\ devices[a].hub = r[1] /\ devices[a].port = r[2]

\* No two devices on the bus answer to the same address: only one at a time is
\* enabled and not addressed yet, and no address is given out while a device
\* has it.
AddressesUnique ==
  \A p, q \in Ports : \A a \in 0 .. MaxAddress :
    Answers(p, a) /\ Answers(q, a) => p = q

\* Once the driver is done and no change is waiting to be seen, what it has
\* registered at a port is what is plugged in there.  No change is lost, although
\* the drivers clear the change at several places while devices come and go.
Quiet == stack = <<>> /\ change = {} /\ reported = {}
NoStaleDevice ==
  Quiet => \A r \in Registered :
             PortOf(r[1], r[2]) # NoDev => Answers(r[2], PortOf(r[1], r[2]))

\* The table of devices follows the ports: its entries belong to ports, devices
\* to addresses, and nothing is left over.
TableFollowsPorts == RegisteredHere /\ AddressesUnique /\ NoStaleDevice

\* When plugging ends, every device ends up registered.
AllRegistered ==
  \A p \in Ports :
    Connected(p) /\ (p \in HubPorts => HubAt # {}) =>
      \E r \in Registered : r[2] = p /\ PortOf(r[1], p) # NoDev /\ Answers(p, PortOf(r[1], p))
EventuallyRegistered == <>[]AllRegistered

\* get_free_address finds an address.
AddressFound == Running("attach") => get_free_address # NoDev

=============================================================================
