------------------------------- MODULE UsbMsc -------------------------------
(***************************************************************************)
(* The USB mass storage driver (drivers/usbmsc.c) and a bulk-only device   *)
(* (external).  Transfers of the controller return 0 or 1 (usbohci.c), so  *)
(* the driver's tests for a negative result never hold.  The device queues *)
(* what it sends; a transfer may give up before the device has sent it.    *)
(* Block b of the disk contains b.                                         *)
(***************************************************************************)
EXTENDS Integers, Sequences

CONSTANTS
  ReadyTries,     \* rounds of TEST UNIT READY (50 in the code)
  SpinTries,      \* rounds of START UNIT (30)
  CapacityTries,  \* rounds of READ CAPACITY (20)
  ChunkBlocks,    \* MAX_CHUNK_BYTES / blocksize
  DiskBlocks,     \* blocks of the disk
  MayLoseDevice,  \* may clear_stall fail, so that the device is detached?
  StaleClients    \* do clients use the disk after that?

\* A block is no larger than a chunk.
ASSUME MscAssumption ==
  /\ ChunkBlocks \in Nat \ {0} /\ DiskBlocks \in Nat
  /\ ReadyTries \in Nat /\ SpinTries \in Nat /\ CapacityTries \in Nat
  /\ StaleClients \in BOOLEAN

VARIABLES
  msc,      \* the device as the driver sees it: attached, ready, capacity, created
  job,      \* the function at work: op, tries left, and the rest of a read
  cmd,      \* the command of execute_command and where it is
  outer,    \* the command that waits for REQUEST SENSE, or ""
  sent,     \* packets the device has queued for the bulk-in endpoint
  halted,   \* bulk-in endpoint
  mbuf      \* the client's buffer

mscVars == <<msc, job, cmd, outer, sent, halted, mbuf>>

\* "own": does the packet carry the tag of the current command?  (Tags have 32 bits
\* and count commands; they are not reused while a packet waits.)
Data(block, whole) ==
  [kind |-> "data", own |-> TRUE, status |-> 0, residue |-> FALSE, block |-> block, whole |-> whole]
Csw(status, residue) ==
  [kind |-> "csw", own |-> TRUE, status |-> status, residue |-> residue, block |-> 0, whole |-> TRUE]

MscRest == [op |-> "idle", tries |-> 0, chunks |-> <<>>, start |-> 0, n |-> 0, was |-> "", result |-> ""]
NoCmd == [kind |-> "", at |-> "", chunk |-> <<0, 0, 0>>]
MscCommand(kind, chunk) == [kind |-> kind, at |-> "cbw", chunk |-> chunk]
HasData(kind) == kind \in {"read", "capacity", "sense"}

MscInit ==
  /\ msc = [attached |-> FALSE, ready |-> FALSE, capacity |-> "none", created |-> FALSE]
  /\ job = MscRest /\ cmd = NoCmd /\ outer = ""
  /\ sent = <<>> /\ halted = FALSE
  /\ mbuf = <<>>
-----------------------------------------------------------------------------
Resting == job.op = "idle"
Begin(op, tries) == job' = [MscRest EXCEPT !.op = op, !.tries = tries]

\* usb_msc_init and usb_msc_force_init up to the first TEST UNIT READY; a device
\* with another protocol or without the endpoints is detached again.
usb_msc_force_init ==
  /\ Resting /\ ~msc.attached
  /\ msc' = [attached |-> TRUE, ready |-> TRUE, capacity |-> "none", created |-> FALSE]
  /\ Begin("ready", ReadyTries)
  /\ cmd' = MscCommand("ready", <<0, 0, 0>>)
  /\ sent' = <<>> /\ halted' = FALSE
  /\ UNCHANGED <<outer, mbuf>>

\* The device is unplugged; its disk node stays in the device tree.
usb_msc_destroy ==
  /\ Resting /\ msc.attached
  /\ msc' = [msc EXCEPT !.attached = FALSE]
  /\ job' = MscRest
  /\ UNCHANGED <<cmd, outer, sent, halted, mbuf>>

\* The chunks of readwrite_blocks: <<first block, blocks, place in the buffer>>.
Chunks(start, n) ==
  LET full == n \div ChunkBlocks IN
  [k \in 1 .. full |-> <<start + (k - 1) * ChunkBlocks, ChunkBlocks, (k - 1) * ChunkBlocks>>]
  \o IF n % ChunkBlocks = 0 THEN <<>>
     ELSE <<<<start + full * ChunkBlocks, n % ChunkBlocks, full * ChunkBlocks>>>>

ob_usbmsc_read_blocks(start, n) ==
  /\ Resting /\ msc.created
  /\ StaleClients \/ msc.attached
  /\ LET c == Chunks(start, n) IN
       /\ c # <<>>
       /\ job' = [MscRest EXCEPT !.op = "read", !.chunks = c, !.start = start, !.n = n]
       /\ cmd' = MscCommand("read", c[1])
  /\ mbuf' = [i \in 1 .. n |-> -1]
  /\ UNCHANGED <<msc, outer, sent, halted>>
-----------------------------------------------------------------------------
\* What the functions above do with the result of a command.
Finish(r) ==
  /\ job' = [job EXCEPT !.op = "idle", !.tries = 0, !.chunks = <<>>, !.was = job.op, !.result = r]
  /\ cmd' = NoCmd /\ outer' = ""
Again(kind, tries) ==
  /\ job' = [job EXCEPT !.op = kind, !.tries = tries]
  /\ cmd' = MscCommand(kind, <<0, 0, 0>>)
  /\ outer' = ""

\* usb_msc_test_unit_ready.  After the last failure the device is not ready.
ReadyResult_Forever(r, isReady) ==
  IF r = "ok" /\ isReady THEN Again("spin", SpinTries) /\ msc' = [msc EXCEPT !.ready = TRUE]
  ELSE IF r = "ok" THEN Finish(r) /\ msc' = [msc EXCEPT !.ready = FALSE]
  ELSE IF r = "fail" THEN Again("ready", job.tries) /\ UNCHANGED msc
  ELSE Finish(r) /\ msc' = [msc EXCEPT !.ready = FALSE, !.attached = FALSE]
ReadyResult(r, isReady) ==
  IF r = "ok" /\ isReady THEN Again("spin", SpinTries) /\ msc' = [msc EXCEPT !.ready = TRUE]
  ELSE IF r = "ok" THEN Finish(r) /\ msc' = [msc EXCEPT !.ready = FALSE]
  ELSE IF r = "fail" /\ job.tries > 1 THEN Again("ready", job.tries - 1) /\ UNCHANGED msc
  ELSE Finish(r) /\ msc' = [msc EXCEPT !.ready = FALSE, !.attached = @ /\ r # "detached"]

SpinResult(r) ==
  IF r = "detached" THEN Finish(r) /\ msc' = [msc EXCEPT !.attached = FALSE]
  ELSE IF r = "fail" /\ job.tries > 1 THEN Again("spin", job.tries - 1) /\ UNCHANGED msc
  ELSE Again("capacity", CapacityTries) /\ UNCHANGED msc

\* read_capacity counts a success in the last round as a failure.  Its end is the
\* end of usb_msc_force_init, which creates the disk.
CapacityResult(r) ==
  IF r = "detached" THEN Finish(r) /\ msc' = [msc EXCEPT !.attached = FALSE]
  ELSE IF r = "fail" /\ job.tries > 1 THEN Again("capacity", job.tries - 1) /\ UNCHANGED msc
  ELSE /\ Finish(r)
       /\ msc' = [msc EXCEPT !.created = TRUE,
                             !.capacity = IF r = "ok" /\ job.tries > 1 THEN "device" ELSE "assumed"]

\* readwrite_blocks stops at the first chunk that fails.
ReadResult(r) ==
  IF r # "ok" \/ Len(job.chunks) = 1
  THEN Finish(r) /\ msc' = [msc EXCEPT !.attached = @ /\ r # "detached"]
  ELSE /\ job' = [job EXCEPT !.chunks = Tail(@)]
       /\ cmd' = MscCommand("read", job.chunks[2])
       /\ outer' = "" /\ UNCHANGED msc

JobResult(r, isReady) ==
  CASE job.op = "ready" -> ReadyResult(r, isReady)
    [] job.op = "spin" -> SpinResult(r)
    [] job.op = "capacity" -> CapacityResult(r)
    [] job.op = "read" -> ReadResult(r)

\* A command that had to ask for the sense data goes on with the answer: for TEST
\* UNIT READY "no medium" is a success that leaves the device not ready; all other
\* commands have failed.
MscResult(r) ==
  \/ outer = "" /\ JobResult(r, TRUE)
  \/ outer = "ready" /\ r = "ok" /\ (JobResult("ok", FALSE) \/ JobResult("fail", TRUE))
  \/ outer = "ready" /\ r # "ok" /\ JobResult(r, TRUE)
  \/ outer \notin {"", "ready"} /\ JobResult(IF r = "ok" THEN "fail" ELSE r, TRUE)

\* reset_transport: the request and both clear_stalls; a request that gets lost is
\* not noticed, a failing clear_stall loses the device.
reset_transport ==
  \/ /\ \/ sent' = <<>> /\ halted' = FALSE
        \/ UNCHANGED sent /\ halted' = FALSE
     /\ MscResult("fail")
     /\ UNCHANGED mbuf
  \/ /\ MayLoseDevice
     /\ MscResult("detached")
     /\ sent' = <<>> /\ halted' = FALSE
     /\ UNCHANGED mbuf

MscAt(phase) == ~Resting /\ cmd.at = phase
MscGo(phase) == cmd' = [cmd EXCEPT !.at = phase] /\ UNCHANGED <<msc, job, outer>>

\* How a device may answer a command.
Answers(kind, chunk) ==
  IF HasData(kind)
  THEN {[q |-> <<Data(chunk[1], TRUE), Csw(0, FALSE)>>, halt |-> FALSE],
        [q |-> <<Data(chunk[1], FALSE), Csw(0, TRUE)>>, halt |-> FALSE],
        [q |-> <<Csw(1, TRUE)>>, halt |-> TRUE],
        [q |-> <<Csw(2, TRUE)>>, halt |-> FALSE]}
  ELSE {[q |-> <<Csw(status, FALSE)>>, halt |-> FALSE] : status \in 0 .. 2}

\* The command block: wrap_cbw and its transfer, whose failure goes unnoticed.  A
\* device that still has something to send takes no command.
SendCbw ==
  /\ MscAt("cbw")
  /\ \/ \E a \in Answers(cmd.kind, cmd.chunk) :
          sent = <<>> /\ ~halted /\ sent' = a.q /\ halted' = a.halt
     \/ sent' = [i \in DOMAIN sent |-> [sent[i] EXCEPT !.own = FALSE]] /\ UNCHANGED halted
  /\ MscGo(IF HasData(cmd.kind) THEN "data" ELSE "csw")
  /\ UNCHANGED mbuf

\* A transfer on the bulk-in endpoint: it takes the next packet, or fails.
Arrives == ~halted /\ sent # <<>>
Stored(p) ==
  [i \in DOMAIN mbuf |->
     IF cmd.kind = "read" /\ i - 1 \in cmd.chunk[3] .. cmd.chunk[3] + cmd.chunk[2] - 1
     THEN IF p.kind = "data" /\ p.whole THEN p.block + (i - 1 - cmd.chunk[3]) ELSE -1
     ELSE mbuf[i]]

\* The result of the data phase is not looked at either.
ReceiveData ==
  /\ MscAt("data")
  /\ \/ Arrives /\ sent' = Tail(sent) /\ mbuf' = Stored(Head(sent))
     \/ UNCHANGED <<sent, mbuf>>
  /\ MscGo("csw")
  /\ UNCHANGED halted

\* get_csw fails the first time: the stall is cleared, if that works.
CswAgain ==
  /\ MscAt("csw")
  /\ MscGo("csw again")
  /\ halted' \in {FALSE, halted}
  /\ UNCHANGED <<sent, mbuf>>
CswLost ==
  /\ MscAt("csw again")
  /\ reset_transport

Malformed(p) == p.kind # "csw" \/ ~p.own

\* The status is taken off the queue before anything else happens.
Taken(r) == sent' = Tail(sent) /\ UNCHANGED <<halted, mbuf>> /\ MscResult(r)
TakenReset ==
  \/ /\ sent' \in {<<>>, Tail(sent)}
     /\ MscResult("fail")
     /\ UNCHANGED <<halted, mbuf>>
  \/ MayLoseDevice /\ sent' = <<>> /\ MscResult("detached") /\ UNCHANGED <<halted, mbuf>>

\* The rest of execute_command, by the status that arrived.
ResidueOk_Always(kind) == TRUE
ResidueOk(kind) == kind = "sense"
ReceiveCsw ==
  /\ (MscAt("csw") \/ MscAt("csw again")) /\ Arrives
  /\ LET p == Head(sent) IN
     \/ Malformed(p) /\ TakenReset
     \/ ~Malformed(p) /\ cmd.kind = "spin" /\ Taken("ok")
     \/ ~Malformed(p) /\ cmd.kind # "spin" /\ p.status = 2 /\ TakenReset
     \/ /\ ~Malformed(p) /\ cmd.kind # "spin" /\ p.status = 0
        /\ Taken(IF ~p.residue \/ ResidueOk(cmd.kind) THEN "ok" ELSE "fail")
     \/ ~Malformed(p) /\ cmd.kind = "sense" /\ p.status = 1 /\ Taken("fail")
     \/ /\ ~Malformed(p) /\ cmd.kind \notin {"spin", "sense"} /\ p.status = 1
        /\ outer' = cmd.kind
        /\ cmd' = MscCommand("sense", <<0, 0, 0>>)
        /\ sent' = Tail(sent)
        /\ UNCHANGED <<msc, job, halted, mbuf>>

MscDriver == SendCbw \/ ReceiveData \/ CswAgain \/ CswLost \/ ReceiveCsw

MscNext ==
  \/ usb_msc_force_init \/ usb_msc_destroy
  \/ \E start \in 0 .. DiskBlocks - 1, n \in 1 .. DiskBlocks :
       start + n <= DiskBlocks /\ ob_usbmsc_read_blocks(start, n)
  \/ SendCbw \/ ReceiveData \/ CswAgain \/ CswLost \/ ReceiveCsw

MscSpec == MscInit /\ [][MscNext]_mscVars /\ WF_mscVars(MscDriver)
-----------------------------------------------------------------------------
\* A read that succeeds has put every block asked for in its place, whatever was
\* lost, late or left over on the way: the tag and the residue of the status tell.
SuccessMeansRead ==
  Resting /\ job.was = "read" /\ job.result = "ok" =>
    mbuf = [i \in 1 .. job.n |-> job.start + i - 1]

\* No command is sent to a device that has been detached: every caller of
\* execute_command stops ("the caller has to make sure, that he won't use the
\* device any more").
NoUseAfterDetach == MscAt("cbw") => msc.attached

\* The bounded retries come to an end: initialisation and reads return.
MscReturns == (~Resting) ~> Resting

\* A capacity that the device reported is used.
CapacityTaken ==
  Resting /\ job.was = "capacity" /\ job.result = "ok" => msc.capacity = "device"

\* Lost, late and repeated answers never show: a read that succeeds has read, and
\* a device that was detached meanwhile is left alone.
MscSound == SuccessMeansRead /\ NoUseAfterDetach
=============================================================================
