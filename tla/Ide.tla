-------------------------------- MODULE Ide --------------------------------
(***************************************************************************)
(* The IDE driver (drivers/ide.c) on one channel with two places, and the  *)
(* drives in them (external).  Register accesses are told apart where the  *)
(* driver draws conclusions from them: the selection of a drive, which the *)
(* channel caches; the probe; and the packet commands with their retries.  *)
(* Block b of the drive at place u contains <<u, b>>.                      *)
(***************************************************************************)
EXTENDS Integers, Sequences, FiniteSetsExt

CONSTANTS
  IdeKinds,     \* what may be in a place: "none", "ata", "atapi"
  IdeSectors,   \* blocks of a drive
  IdeMax,       \* max_sectors: 31 or 255 in the code
  IdeRetries,   \* retries of ob_ide_atapi_packet (5 in the code)
  IdeStarting   \* may a drive be not ready with a medium loaded?

VARIABLES
  ichan,    \* selected, as the driver knows it; unit: the drive that listens;
            \* hangs: may a drive stay busy until the driver gives up?
  idrives,  \* present, type and sectors of struct ide_drive
  ihw,      \* what is in each place, and the state of its medium
  ijob,     \* the call at work, what is left of it, and how the last one ended
  icmd,     \* chan->atapi_cmd, the command that was asked for, and the retries left
  ibuf      \* the buffer of the client

ideVars == <<ichan, idrives, ihw, ijob, icmd, ibuf>>

Units == {0, 1}
NoUnit == -1
IdeRest == [op |-> "idle", unit |-> 0, at |-> 0, left |-> 0, block |-> 0, n |-> 0, was |-> "", ok |-> FALSE]
NoDrive == [present |-> FALSE, type |-> "unknown", sectors |-> 0]
NoPacket == [op |-> "", stage |-> "", inner |-> FALSE, retries |-> 0]

IdeInit ==
  /\ ichan = [selected |-> NoUnit, unit |-> 0, hangs |-> FALSE]
  /\ idrives = [u \in Units |-> NoDrive]
  /\ ihw = [u \in Units |-> [kind |-> "none", medium |-> "in"]]
  /\ ijob = IdeRest
  /\ icmd = NoPacket
  /\ ibuf = <<>>

\* ob_ide_init sets up a channel; a lone drive is in place 0.
ob_ide_init ==
  /\ ijob.op = "idle"
  /\ ihw' \in [Units -> [kind : IdeKinds, medium : {"in"}]]
  /\ ihw'[0].kind = "none" => ihw'[1].kind = "none"
  /\ ichan' \in {[selected |-> NoUnit, unit |-> 0, hangs |-> h] : h \in BOOLEAN}
  /\ idrives' = [u \in Units |-> NoDrive]
  /\ ijob' = [IdeRest EXCEPT !.op = "probe"]
  /\ ibuf' = <<>>
  /\ UNCHANGED icmd
-----------------------------------------------------------------------------
Able == IF ichan.hangs THEN BOOLEAN ELSE {TRUE}

\* ob_ide_select_drive: it waits for BUSY to clear before, and after it has
\* written the register, unless the drive is the selected one.
Selected(u) ==
  (IF ichan.selected = u THEN {[ok |-> TRUE, chan |-> ichan]}
   ELSE {[ok |-> TRUE, chan |-> [ichan EXCEPT !.selected = u, !.unit = u]]}
        \cup IF ichan.hangs THEN {[ok |-> FALSE, chan |-> [ichan EXCEPT !.unit = u]]} ELSE {})
  \cup IF ichan.hangs THEN {[ok |-> FALSE, chan |-> ichan]} ELSE {}

\* What the registers show after a reset (external): a drive's own signature; in
\* place of a missing drive the other one answers, without status; or nobody does.
Signature(u) ==
  IF ihw[u].kind # "none" THEN ihw[u].kind
  ELSE IF ihw[1 - u].kind # "none" THEN "ghost" ELSE "nobody"

\* ob_ide_device_check: whoever listens keeps the pattern that is written.
DeviceFound(u) == Signature(u) # "nobody"

\* ob_ide_software_reset: the drives select unit 0; a second drive that is present
\* is selected while it is waited for; the original drive is selected again.
software_reset(u, drives) ==
  {[ok |-> TRUE, chan |-> [ichan EXCEPT !.selected = u, !.unit = u]]}
  \cup IF ichan.hangs
       THEN {[ok |-> FALSE, chan |-> [ichan EXCEPT !.selected = NoUnit, !.unit = v]] :
               v \in {u, IF drives[1].present THEN 1 ELSE 0}}
       ELSE {}

\* ob_ide_device_type_check, by the registers of the unit that listens.
TypeChecked(drive, sig) ==
  IF sig \in {"ata", "atapi"} THEN [drive EXCEPT !.type = sig] ELSE [drive EXCEPT !.present = FALSE]

\* The reset and the type check of one drive, after it was selected.
ResetAndCheck(u, drives) ==
  \E r \in software_reset(u, drives) :
    /\ ichan' = r.chan
    /\ idrives' =
         IF r.ok THEN [drives EXCEPT ![u] = TypeChecked(@, Signature(r.chan.unit))] ELSE drives

\* ob_ide_probe, one drive at a time; then the drives are identified.
ob_ide_probe ==
  /\ ijob.op = "probe"
  /\ LET u == ijob.unit
         found == [idrives EXCEPT ![u].present = TRUE]
     IN \/ ~DeviceFound(u) /\ ijob' = IdeRest /\ UNCHANGED <<ichan, idrives>>
        \/ /\ DeviceFound(u)
           /\ ijob' = IF u = 0 THEN [ijob EXCEPT !.unit = 1]
                      ELSE [ijob EXCEPT !.op = "identify", !.unit = 0]
           /\ \E s \in Selected(u) :
                \/ s.ok /\ ResetAndCheck(u, found)
                \/ ~s.ok /\ ichan' = s.chan /\ UNCHANGED idrives
  /\ UNCHANGED <<ihw, icmd, ibuf>>

\* ob_ide_identify_drive; ob_ide_write_registers addresses the drive itself.  A
\* drive of unknown type, or one that does not answer, keeps no sectors.
Assumed == IdeSectors + 1
ob_ide_identify_drives ==
  /\ ijob.op = "identify"
  /\ LET u == ijob.unit
         d == idrives[u]
     IN /\ ijob' = IF u = 0 THEN [ijob EXCEPT !.unit = 1] ELSE IdeRest
        /\ \/ ~d.present /\ UNCHANGED <<ichan, idrives>>
           \/ /\ d.present
              /\ \E s \in Selected(u), answers \in Able :
                   LET sent == s.ok /\ d.type # "unknown"
                       size == IF d.type = "ata" THEN IdeSectors ELSE Assumed
                   IN /\ ichan' = IF sent THEN [s.chan EXCEPT !.unit = u] ELSE s.chan
                      /\ idrives' = IF sent /\ answers THEN [idrives EXCEPT ![u].sectors = size] ELSE idrives
  /\ UNCHANGED <<ihw, icmd, ibuf>>

\* ob_ide_quiesce resets each drive, before the operating system starts.
ob_ide_quiesce ==
  /\ ijob.op = "idle" /\ \E u \in Units : idrives[u].present
  /\ ijob' = [IdeRest EXCEPT !.op = "quiesce"]
  /\ ibuf' = <<>>
  /\ UNCHANGED <<ichan, idrives, ihw, icmd>>
QuiesceDrive ==
  /\ ijob.op = "quiesce"
  /\ ijob' = IF ijob.unit = 0 THEN [ijob EXCEPT !.unit = 1] ELSE IdeRest
  /\ IF idrives[ijob.unit].present THEN ResetAndCheck(ijob.unit, idrives) ELSE UNCHANGED <<ichan, idrives>>
  /\ UNCHANGED <<ihw, icmd, ibuf>>
-----------------------------------------------------------------------------
\* The end of a call, and the next packet command of one.
IdeReturn(ok) == ijob' = [ijob EXCEPT !.op = "idle", !.was = ijob.op, !.ok = ok]
Send(op) == icmd' = [NoPacket EXCEPT !.op = op, !.stage = op, !.retries = IdeRetries]

ob_ide_open(u) ==
  /\ ijob.op = "idle" /\ idrives[u].present
  /\ IF idrives[u].type = "ata" THEN ijob' = [IdeRest EXCEPT !.was = "open", !.ok = TRUE] /\ UNCHANGED icmd
     ELSE ijob' = [IdeRest EXCEPT !.op = "open", !.unit = u] /\ Send("ready")
  /\ ibuf' = <<>>
  /\ UNCHANGED <<ichan, idrives, ihw>>

\* ob_ide_read_blocks: one transfer of at most IdeMax blocks after the other.
ob_ide_read_blocks(u, block, n) ==
  /\ ijob.op = "idle" /\ idrives[u].present
  /\ ijob' = [IdeRest EXCEPT !.op = "read", !.unit = u, !.at = block, !.left = n, !.block = block, !.n = n]
  /\ icmd' = NoPacket
  /\ ibuf' = [k \in 1 .. n |-> <<NoUnit, 0>>]
  /\ UNCHANGED <<ichan, idrives, ihw>>

IdeLen == Min({ijob.left, IdeMax})
Filled == [k \in DOMAIN ibuf |->
             LET b == ijob.block + k - 1 IN
             IF b \in ijob.at .. ijob.at + IdeLen - 1 THEN <<ijob.unit, b>> ELSE ibuf[k]]
Advanced == ijob' = [ijob EXCEPT !.left = @ - IdeLen, !.at = @ + IdeLen]

Reading == ijob.op = "read" /\ icmd = NoPacket

\* The loop ends, or the checks of ob_ide_read_sectors refuse.
ReadEnds ==
  /\ Reading
  /\ LET d == idrives[ijob.unit] IN
     \/ ijob.left = 0 /\ IdeReturn(TRUE)
     \/ ijob.left > 0 /\ ijob.at + IdeLen > d.sectors /\ IdeReturn(FALSE)
  /\ UNCHANGED <<ichan, idrives, ihw, icmd, ibuf>>

\* ob_ide_read_ata: ob_ide_pio_data_in returns 0 only if all bytes have arrived.
ob_ide_read_ata ==
  /\ Reading /\ ijob.left > 0
  /\ idrives[ijob.unit].type = "ata" /\ ijob.at + IdeLen <= idrives[ijob.unit].sectors
  /\ \E s \in Selected(ijob.unit), whole \in BOOLEAN :
       IF s.ok /\ whole
       THEN ichan' = [s.chan EXCEPT !.unit = ijob.unit] /\ ibuf' = Filled /\ Advanced
       ELSE ichan' = s.chan /\ UNCHANGED ibuf /\ IdeReturn(FALSE)
  /\ UNCHANGED <<idrives, ihw, icmd>>

\* ob_ide_read_atapi begins with ob_ide_atapi_drive_ready.
ob_ide_read_atapi ==
  /\ Reading /\ ijob.left > 0
  /\ idrives[ijob.unit].type # "ata" /\ ijob.at + IdeLen <= idrives[ijob.unit].sectors
  /\ Send("ready")
  /\ UNCHANGED <<ichan, idrives, ihw, ijob, ibuf>>
-----------------------------------------------------------------------------
\* One ob_ide_pio_packet of the command in icmd.  A drive that stays busy fails a
\* transfer; a command without data passes, as no bytes are missing.
NoData(op) == op \in {"ready", "start"}
PacketResults(op, hw) ==
  (IF op = "sense" \/ (hw.medium = "in" /\ (op = "read" => ijob.at + IdeLen <= IdeSectors)) THEN {"ok"} ELSE {})
  \cup (IF op # "sense" THEN {"error"} ELSE {})
  \cup IF ichan.hangs THEN {IF NoData(op) THEN "passed" ELSE "error"} ELSE {}

SenseOf(hw) ==
  CASE hw.medium = "in" -> "other"
    [] hw.medium = "starting" -> "not ready"
    [] hw.medium = "out" -> "no medium"

\* A command of ob_ide_atapi_drive_ready or ob_ide_read_atapi has ended, and the
\* next one follows; "answered": it was this command that the drive answered.
\* The capacity is cleared before it is asked for.
Capacity(ok, answered) == IF ok THEN IF answered THEN IdeSectors ELSE 1 ELSE Assumed
CommandEnds(ok, stage, answered) ==
  /\ idrives' = IF stage = "capacity"
                THEN [idrives EXCEPT ![ijob.unit].sectors = Capacity(ok, answered)] ELSE idrives
  /\ \/ ~ok /\ IdeReturn(FALSE) /\ icmd' = NoPacket
     \/ ok /\ stage = "ready" /\ Send("start") /\ UNCHANGED ijob
     \/ ok /\ stage = "start" /\ Send("capacity") /\ UNCHANGED ijob
     \/ ok /\ stage = "capacity" /\ ijob.op = "open" /\ IdeReturn(TRUE) /\ icmd' = NoPacket
     \/ ok /\ stage = "capacity" /\ ijob.op = "read" /\ Send("read") /\ UNCHANGED ijob
     \/ ok /\ stage = "read" /\ Advanced /\ icmd' = NoPacket

\* ob_ide_atapi_packet and ob_ide_atapi_request_sense ("inner").  They share one
\* atapi_cmd, so that a retry repeats the request, not the command.  "stage" is
\* the command that the caller asked for, "op" what is sent.
GoesOn_AnySense(sense) == TRUE
GoesOn(sense) == sense = "not ready"
Attempt(r) ==
  \/ ~icmd.inner /\ r # "error" /\ CommandEnds(TRUE, icmd.stage, icmd.op = icmd.stage)
  \/ ~icmd.inner /\ r = "error" /\ icmd.op = "sense" /\ CommandEnds(FALSE, icmd.stage, FALSE)
  \/ /\ ~icmd.inner /\ r = "error" /\ icmd.op # "sense"
     /\ icmd' = [icmd EXCEPT !.op = "sense", !.inner = TRUE]
     /\ UNCHANGED <<ijob, idrives>>
  \/ icmd.inner /\ r = "error" /\ CommandEnds(FALSE, icmd.stage, FALSE)
  \/ /\ icmd.inner /\ r # "error"
     /\ IF GoesOn(SenseOf(ihw[ijob.unit])) /\ icmd.retries > 0
        THEN icmd' = [icmd EXCEPT !.inner = FALSE, !.retries = @ - 1] /\ UNCHANGED <<ijob, idrives>>
        ELSE CommandEnds(FALSE, icmd.stage, FALSE)

ob_ide_atapi_packet ==
  /\ icmd.op # ""
  /\ \/ idrives[ijob.unit].type # "atapi" /\ CommandEnds(FALSE, icmd.stage, FALSE) /\ UNCHANGED <<ichan, ibuf>>
     \/ /\ idrives[ijob.unit].type = "atapi"
        /\ \E s \in Selected(ijob.unit) :
             \/ ~s.ok /\ ichan' = s.chan /\ Attempt("error") /\ UNCHANGED ibuf
             \/ /\ s.ok /\ ichan' = [s.chan EXCEPT !.unit = ijob.unit]
                /\ \E r \in PacketResults(icmd.op, ihw[ijob.unit]) :
                     /\ ibuf' = IF icmd.op = "read" /\ r = "ok" THEN Filled ELSE ibuf
                     /\ Attempt(r)
  /\ UNCHANGED ihw

\* The medium of a packet drive (external).
IdeMedium(u) ==
  /\ ihw[u].kind = "atapi"
  /\ ihw' = [ihw EXCEPT ![u].medium =
               CASE @ = "in" -> "out"
                 [] @ = "out" -> IF IdeStarting THEN "starting" ELSE "in"
                 [] @ = "starting" -> "in"]
  /\ UNCHANGED <<ichan, idrives, ijob, icmd, ibuf>>

IdeDriver ==
  \/ ob_ide_probe \/ ob_ide_identify_drives \/ QuiesceDrive
  \/ ReadEnds \/ ob_ide_read_ata \/ ob_ide_read_atapi \/ ob_ide_atapi_packet

IdeNext ==
  \/ ob_ide_init \/ ob_ide_quiesce
  \/ \E u \in Units : ob_ide_open(u) \/ IdeMedium(u)
  \/ \E u \in Units, block \in 0 .. IdeSectors, n \in 1 .. IdeSectors : ob_ide_read_blocks(u, block, n)
  \/ ob_ide_probe \/ ob_ide_identify_drives \/ QuiesceDrive
  \/ ReadEnds \/ ob_ide_read_ata \/ ob_ide_read_atapi \/ ob_ide_atapi_packet

IdeSpec == IdeInit /\ [][IdeNext]_ideVars /\ WF_ideVars(IdeDriver)
-----------------------------------------------------------------------------
\* A read that returns its count has read: every block asked for is in its place
\* in the buffer and comes from the drive that was opened, over all the chunks,
\* errors and retries ("execute a packet command, with retries if appropriate").
ReadMeansData ==
  ijob.op = "idle" /\ ijob.was = "read" /\ ijob.ok =>
    ibuf = [k \in 1 .. ijob.n |-> <<ijob.unit, ijob.block + k - 1>>]

\* After the probe, and after every quiesce, a drive is known by its own type: the
\* second look makes sure of what the first one guessed, and each drive is judged
\* by its own registers.  On a channel that never hangs no drive is missed.
DrivesFound ==
  ijob.op = "idle" =>
    \A u \in Units :
      /\ idrives[u].present /\ idrives[u].type # "unknown" => idrives[u].type = ihw[u].kind
      /\ ~ichan.hangs => (idrives[u].present <=> ihw[u].kind # "none")

\* A drive that passes for ready had its medium loaded when it was asked, unless it
\* did not answer at all ("make sure drive is ready and media loaded").
OpenMeansReady ==
  [][icmd.stage = "ready" /\ icmd'.stage = "start" /\ ~ichan.hangs =>
       ihw[ijob.unit].medium = "in"]_ideVars

\* Every call returns, whatever the drives answer.
IdeReturns == (ijob.op # "idle") ~> (ijob.op = "idle")

\* The drives are what the probe took them for, and what is read from them is
\* what they hold, over errors, retries and media that come and go.
IdeSound == [](ReadMeansData /\ DrivesFound) /\ OpenMeansReady
=============================================================================
