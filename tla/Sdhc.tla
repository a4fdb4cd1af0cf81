-------------------------------- MODULE Sdhc --------------------------------
(***************************************************************************)
(* The SD host controller driver of the Wii (drivers/wii_sdhc.c) with the  *)
(* controller and a card (external).  The controller works by itself: an   *)
(* answer or a transfer may come after the driver has given up waiting.    *)
(* Block b of the card contains b.                                         *)
(***************************************************************************)
EXTENDS Integers, Sequences

CONSTANTS
  SdCards,    \* kinds of cards: "high" and "standard" capacity, "legacy" SD, "mmc"
  SdBlocks,   \* blocks of a card
  SdBuffer,   \* SDHC_BUFFER_SIZE in blocks
  SdTries     \* rounds of SEND_OP_COND (20 in the code)

ASSUME SdAssumption == SdBlocks \in Nat /\ SdBuffer \in Nat \ {0} /\ SdTries \in Nat \ {0}

VARIABLES
  sdregs,   \* the bytes at 0x28 .. 0x2B: host control, power, gap, wakeup
  sdhc,     \* struct sdhc_device: card_type, high capacity, address; disk created
  sdjob,    \* the call at work and what is left of it, how the last one ended
  sdcmd,    \* sdhc_command: what was sent, and what is waited for
  sdresp,   \* bits of sdResponse: ready (kSDOCRCardBusy) and ccs; or not written
  sdhost,   \* the controller: inhibit, status bits, the command in progress
  sdcard,   \* the card
  sdbounce, \* sdhc->buffer
  sdbuf     \* the client's buffer

sdVars == <<sdregs, sdhc, sdjob, sdcmd, sdresp, sdhost, sdcard, sdbounce, sdbuf>>

SdNone == [name |-> "none", arg |-> 0, len |-> 0]
SdRest == [op |-> "idle", step |-> 0, tries |-> 0, at |-> 0, left |-> 0, block |-> 0, n |-> 0,
           was |-> "", ok |-> FALSE]
SdQuiet == [inhibit |-> FALSE, cc |-> FALSE, tc |-> FALSE, active |-> SdNone, data |-> FALSE]
SdNoDevice == [type |-> "sd2", high |-> FALSE, addr |-> 0, created |-> FALSE]
SdEmpty == [i \in 1 .. SdBuffer |-> -1]

SdInit ==
  /\ sdregs = [i \in 0 .. 3 |-> 0]
  /\ sdhc = SdNoDevice
  /\ sdjob = SdRest
  /\ sdcmd = [cmd |-> SdNone, at |-> ""]
  /\ sdresp = {}
  /\ sdhost = SdQuiet
  /\ sdcard = [kind |-> "none", state |-> "idle", app |-> FALSE]
  /\ sdbounce = SdEmpty
  /\ sdbuf = <<>>
-----------------------------------------------------------------------------
\* sdhc_read16 and sdhc_write16 reach the half word that bit 1 of the offset names.
HostControl1 == 40
PowerControl == 41
Lane(offset) == 2 * ((offset \div 2) % 2)
read16(regs, offset) == regs[Lane(offset)] + 256 * regs[Lane(offset) + 1]
write16(regs, offset, data) ==
  [regs EXCEPT ![Lane(offset)] = data % 256, ![Lane(offset) + 1] = data \div 256]

\* sdhc_set_power with 3.3 V, and sdhc_set_bus_width with four bits.
VDD1_3_3 == 14
VDD1On == 1
sdhc_set_power(regs) ==
  LET off == write16(regs, PowerControl, 0)
      volts == write16(off, PowerControl, read16(off, PowerControl) + VDD1_3_3)
  IN  write16(volts, PowerControl, read16(volts, PowerControl) + VDD1On)
DataWidth4Bit == 2
Without(n, bit) == IF (n \div bit) % 2 = 1 THEN n - bit ELSE n
sdhc_set_bus_width(regs) ==
  write16(regs, HostControl1, Without(read16(regs, HostControl1), DataWidth4Bit) + DataWidth4Bit)
-----------------------------------------------------------------------------
\* ob_wii_shdc_init: the commands it sends, one after the other.
Commands == <<"go idle", "if cond", "app", "op cond", "cid", "address", "csd", "select",
              "app", "bus width", "block length">>

SdSend(name, arg, len) == sdcmd' = [cmd |-> [name |-> name, arg |-> arg, len |-> len], at |-> "inhibit"]
SdEnd(ok) ==
  /\ sdjob' = [sdjob EXCEPT !.op = "idle", !.was = sdjob.op, !.ok = ok, !.step = 0, !.tries = 0]
  /\ sdcmd' = [cmd |-> SdNone, at |-> ""]

\* A fresh structure (cleared by malloc), the reset of the controller, the check for
\* a card, the clock and the power; then the first command.
ob_wii_shdc_init ==
  /\ sdjob.op = "idle"
  /\ \E kind \in SdCards : sdcard' = [kind |-> kind, state |-> "idle", app |-> FALSE]
  /\ sdhc' = SdNoDevice
  /\ sdhost' = SdQuiet
  /\ sdregs' = sdhc_set_power([i \in 0 .. 3 |-> 0])
  /\ sdjob' = [SdRest EXCEPT !.op = "init", !.step = 1, !.tries = SdTries]
  /\ SdSend(Commands[1], 0, 0)
  /\ sdresp' \in SUBSET {"ready", "ccs"}  \* an automatic variable, not yet written
  /\ sdbounce' = SdEmpty /\ sdbuf' = <<>>

\* It ends early if the controller does not come out of reset, no card is there, or
\* the clock is not stable.
InitRefused ==
  /\ sdjob.op = "idle"
  /\ sdhc' = SdNoDevice /\ sdhost' = SdQuiet
  /\ sdjob' = [SdRest EXCEPT !.was = "init"]
  /\ UNCHANGED <<sdregs, sdcmd, sdresp, sdcard, sdbounce, sdbuf>>

SdStep(k) ==
  /\ sdjob' = [sdjob EXCEPT !.step = k]
  /\ SdSend(Commands[k], sdhc'.addr, 0)

\* Is the card one of high capacity?
HighCapacity == "ccs" \in sdresp

TriesLeft == sdjob.tries - 1

\* sdhc_reset_card and the rest of the initialisation, by the result of a command.
OpCondResult(ok) ==
  \/ /\ ~ok /\ sdhc.type = "legacy"
     /\ sdhc' = [sdhc EXCEPT !.type = "mmc", !.high = IF "ready" \in sdresp THEN HighCapacity ELSE @]
     /\ IF "ready" \in sdresp THEN SdStep(5) ELSE SdEnd(FALSE)
  \/ ~ok /\ sdhc.type # "legacy" /\ UNCHANGED sdhc /\ SdEnd(FALSE)
  \/ /\ ok /\ "ready" \in sdresp
     /\ sdhc' = [sdhc EXCEPT !.high = HighCapacity]
     /\ SdStep(5)
  \/ /\ ok /\ "ready" \notin sdresp /\ UNCHANGED sdhc
     /\ IF sdjob.tries = 1 THEN SdEnd(FALSE)
        ELSE /\ sdjob' = [sdjob EXCEPT !.step = 3, !.tries = TriesLeft]
             /\ SdSend("app", 0, 0)

InitResult(ok) ==
  LET k == sdjob.step IN
  \/ k = 2 /\ sdhc' = [sdhc EXCEPT !.type = IF ok THEN @ ELSE "legacy"] /\ SdStep(3) /\ UNCHANGED sdregs
  \/ k = 3 /\ ok /\ UNCHANGED <<sdhc, sdregs>> /\ SdStep(4)
  \/ (k = 4 \/ (k = 3 /\ ~ok)) /\ OpCondResult(ok) /\ UNCHANGED sdregs
  \/ k \notin {2, 3, 4} /\ ~ok /\ UNCHANGED <<sdhc, sdregs>> /\ SdEnd(FALSE)
  \/ k = 5 /\ ok /\ UNCHANGED <<sdhc, sdregs>> /\ SdStep(IF sdhc.type = "mmc" THEN 7 ELSE 6)
  \/ k = 6 /\ ok /\ sdhc' = [sdhc EXCEPT !.addr = 1] /\ SdStep(7) /\ UNCHANGED sdregs
  \/ k \in {1, 7, 9} /\ ok /\ UNCHANGED <<sdhc, sdregs>> /\ SdStep(k + 1)
  \/ k = 8 /\ ok /\ UNCHANGED <<sdhc, sdregs>> /\ IF sdhc.type = "mmc" THEN SdEnd(FALSE) ELSE SdStep(9)
  \/ k = 10 /\ ok /\ sdregs' = sdhc_set_bus_width(sdregs) /\ UNCHANGED sdhc /\ SdStep(11)
  \/ k = 11 /\ ok /\ sdhc' = [sdhc EXCEPT !.created = TRUE] /\ SdEnd(TRUE) /\ UNCHANGED sdregs

\* ob_wii_sdhc_read_blocks, at most one buffer at a time.
SdLen(left) == IF left > SdBuffer THEN SdBuffer ELSE left
ob_wii_sdhc_read_blocks(block, n) ==
  /\ sdjob.op = "idle" /\ sdhc.created
  /\ sdjob' = [SdRest EXCEPT !.op = "read", !.at = block, !.left = n, !.block = block, !.n = n]
  /\ SdSend("read", block, SdLen(n))
  /\ sdbuf' = [k \in 1 .. n |-> -1]
  /\ UNCHANGED <<sdregs, sdhc, sdresp, sdhost, sdcard, sdbounce>>

ReadDone(ok) ==
  LET len == SdLen(sdjob.left) IN
  \/ ~ok /\ SdEnd(FALSE)
  \/ ok /\ sdjob.left = len /\ SdEnd(TRUE)
  \/ /\ ok /\ sdjob.left > len
     /\ sdjob' = [sdjob EXCEPT !.at = @ + len, !.left = @ - len]
     /\ SdSend("read", sdjob.at + len, SdLen(sdjob.left - len))

SdResult(ok) ==
  \/ sdjob.op = "init" /\ InitResult(ok)
  \/ sdjob.op = "read" /\ ReadDone(ok) /\ UNCHANGED <<sdhc, sdregs>>
-----------------------------------------------------------------------------
SdWaits(phase) == sdjob.op # "idle" /\ sdcmd.at = phase

\* sdhc_command: wait until the controller is free, clear the status, and issue.
CommandIssued_KeepStatus ==
  /\ SdWaits("inhibit") /\ ~sdhost.inhibit
  /\ sdhost' = [sdhost EXCEPT !.inhibit = TRUE, !.active = sdcmd.cmd]
  /\ sdcmd' = [sdcmd EXCEPT !.at = "complete"]
  /\ UNCHANGED <<sdregs, sdhc, sdjob, sdresp, sdcard, sdbounce, sdbuf>>
CommandIssued ==
  /\ SdWaits("inhibit") /\ ~sdhost.inhibit
  /\ sdhost' = [SdQuiet EXCEPT !.inhibit = TRUE, !.active = sdcmd.cmd]
  /\ sdcmd' = [sdcmd EXCEPT !.at = "complete"]
  /\ UNCHANGED <<sdregs, sdhc, sdjob, sdresp, sdcard, sdbounce, sdbuf>>

\* The command is complete: done, unless there is data to wait for.
CommandComplete ==
  /\ SdWaits("complete") /\ sdhost.cc
  /\ sdhost' = [sdhost EXCEPT !.cc = FALSE]
  /\ IF sdcmd.cmd.name = "read"
     THEN sdcmd' = [sdcmd EXCEPT !.at = "transfer"] /\ UNCHANGED <<sdhc, sdregs, sdjob>>
     ELSE SdResult(TRUE)
  /\ UNCHANGED <<sdresp, sdcard, sdbounce, sdbuf>>

TransferComplete ==
  /\ SdWaits("transfer") /\ sdhost.tc
  /\ sdhost' = [sdhost EXCEPT !.tc = FALSE]
  /\ sdbuf' = [k \in DOMAIN sdbuf |->
                 LET i == k - (sdjob.at - sdjob.block) IN
                 IF i \in 1 .. sdcmd.cmd.len THEN sdbounce[i] ELSE sdbuf[k]]
  /\ SdResult(TRUE)
  /\ UNCHANGED <<sdresp, sdcard, sdbounce>>

\* Each of the three waits may come to its end.
SdTimeout ==
  /\ \/ SdWaits("inhibit") /\ sdhost.inhibit
     \/ SdWaits("complete") /\ ~sdhost.cc
     \/ SdWaits("transfer") /\ ~sdhost.tc
  /\ SdResult(FALSE)
  /\ UNCHANGED <<sdresp, sdhost, sdcard, sdbounce, sdbuf>>
-----------------------------------------------------------------------------
\* What a card makes of a command (external): the states of the SD specification.
Before(name) ==
  CASE name = "cid" -> "ready" [] name = "address" -> "ident" [] name \in {"csd", "select"} -> "stby"
    [] name \in {"read", "block length", "bus width"} -> "tran" [] OTHER -> "idle"
After(name, state) ==
  CASE name = "cid" -> "ident" [] name = "address" -> "stby" [] name = "select" -> "tran"
    [] name = "go idle" -> "idle" [] OTHER -> state
Understood(c) ==
  /\ c.name = "if cond" => sdcard.kind \in {"high", "standard"}
  /\ c.name \in {"app", "op cond", "address", "bus width"} => sdcard.kind # "mmc"
  /\ c.name \in {"op cond", "bus width"} => sdcard.app
  /\ c.name \notin {"app", "go idle"} => sdcard.state = Before(c.name)

\* The address of a command: blocks for a card of high capacity, otherwise bytes.
FirstBlock(arg) == IF sdcard.kind = "high" THEN arg ELSE 0

Responds ==
  LET c == sdhost.active IN
  /\ c # SdNone /\ ~sdhost.data /\ Understood(c)
  /\ \E done \in BOOLEAN :
       LET ready == c.name = "op cond" /\ done IN
       /\ sdcard' = [sdcard EXCEPT !.app = c.name = "app",
                                   !.state = IF ready THEN "ready" ELSE After(c.name, @)]
       /\ sdresp' = IF sdcmd.cmd # c \/ c.name \notin {"if cond", "op cond"} THEN sdresp
                    ELSE IF ~ready THEN {}
                    ELSE {"ready"} \cup IF sdcard.kind = "high" THEN {"ccs"} ELSE {}
  /\ sdhost' = [sdhost EXCEPT !.cc = TRUE, !.data = c.name = "read",
                              !.inhibit = c.name = "read", !.active = IF c.name = "read" THEN c ELSE SdNone]
  /\ UNCHANGED <<sdregs, sdhc, sdjob, sdcmd, sdbounce, sdbuf>>

\* No answer: the lines may stay busy.
NoResponse ==
  /\ sdhost.active # SdNone /\ ~sdhost.data /\ sdhost.active.name # "go idle"
  /\ \E stuck \in BOOLEAN : sdhost' = [sdhost EXCEPT !.active = SdNone, !.inhibit = stuck]
  /\ UNCHANGED <<sdregs, sdhc, sdjob, sdcmd, sdresp, sdcard, sdbounce, sdbuf>>

Transfers ==
  LET c == sdhost.active IN
  /\ sdhost.data
  /\ sdbounce' = [i \in DOMAIN sdbounce |->
                    IF i <= c.len THEN FirstBlock(c.arg) + i - 1 ELSE sdbounce[i]]
  /\ sdhost' = [sdhost EXCEPT !.tc = TRUE, !.data = FALSE, !.inhibit = FALSE, !.active = SdNone]
  /\ UNCHANGED <<sdregs, sdhc, sdjob, sdcmd, sdresp, sdcard, sdbuf>>

SdDriver == CommandIssued \/ CommandComplete \/ TransferComplete \/ SdTimeout
SdNext ==
  \/ ob_wii_shdc_init \/ InitRefused
  \/ \E block \in 0 .. SdBlocks - 1, n \in 1 .. SdBlocks :
       block + n <= SdBlocks /\ ob_wii_sdhc_read_blocks(block, n)
  \/ CommandIssued \/ CommandComplete \/ TransferComplete \/ SdTimeout
  \/ Responds \/ NoResponse \/ Transfers

SdSpec == SdInit /\ [][SdNext]_sdVars /\ WF_sdVars(SdDriver)
-----------------------------------------------------------------------------
\* A read that returns its count has put the blocks asked for in the buffer.  The
\* status bits and the data that a late answer leaves behind are never taken for
\* those of the next command.
SdReadsRight ==
  sdjob.op = "idle" /\ sdjob.was = "read" /\ sdjob.ok =>
    sdbuf = [k \in 1 .. sdjob.n |-> sdjob.block + k - 1]

\* A disk appears in the device tree only for a card that is ready for transfers and
\* whose address and kind the driver knows, although the answers of the card are
\* told from silence by timeouts alone.
DiskMeansCard ==
  sdhc.created =>
    sdcard.state = "tran" /\ sdhc.addr = 1 /\ (sdhc.high <=> sdcard.kind = "high") /\ sdhc.type # "mmc"

\* Every call returns: each wait is bounded.
SdReturns == (sdjob.op # "idle") ~> (sdjob.op = "idle")

\* "Turn power on to card": the power control register has its bit set.
PowerIsOn == sdjob.op = "init" => sdregs[1] % 2 = 1

\* A disk stands for a card that is ready, and reads give its blocks, although
\* the card may answer after the driver has given up waiting.
SdSound == SdReadsRight /\ DiskMeansCard
=============================================================================
