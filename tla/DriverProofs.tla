---------------------------- MODULE DriverProofs -----------------------------
(***************************************************************************)
(* Safety of the USB mass storage driver, for any disk and chunk size and  *)
(* any number of retries, and of the SD host controller driver, for any    *)
(* card and buffer size and any number of retries.                         *)
(***************************************************************************)
EXTENDS UsbMsc, Sdhc, TLAPS

\* Seconds that the SMT solver has for a leaf.
USE SMTT(60)

\* Packets, chunks and the types of the variables.
Packet == [kind : {"data", "csw"}, own : BOOLEAN, status : 0 .. 2, residue : BOOLEAN,
           block : Int, whole : BOOLEAN]
Chunk == Int \X Int \X Int
Ops == {"idle", "ready", "spin", "capacity", "read"}
Outcomes == {"ok", "fail", "detached"}

MscType == [attached : BOOLEAN, ready : BOOLEAN, capacity : {"none", "device", "assumed"},
            created : BOOLEAN]
JobType == [op : Ops, tries : Int, chunks : Seq(Chunk), start : Int, n : Int,
            was : Ops \cup {""}, result : Outcomes \cup {""}]
CmdType == [kind : Ops \cup {"", "sense"}, at : {"", "cbw", "data", "csw", "csw again"},
            chunk : Chunk]

\* The type invariant.
MscTypeOK ==
  /\ msc \in MscType /\ job \in JobType /\ cmd \in CmdType
  /\ sent \in Seq(Packet) /\ halted \in BOOLEAN

\* Chunks that lie behind one another, the last of which ends a read of n blocks.
ChunksFit(cs, start, n) ==
  /\ cs # <<>>
  /\ \A k \in 1 .. Len(cs) : cs[k][1] = start + cs[k][3]
  /\ \A k \in 1 .. Len(cs) - 1 : cs[k + 1][3] = cs[k][3] + cs[k][2]
  /\ cs[Len(cs)][3] + cs[Len(cs)][2] = n

\* The buffer is right up to place k.
Filled(k) == \A i \in 1 .. job.n : i - 1 < k => mbuf[i] = job.start + i - 1

\* Which command is being executed, for whom, and how far a read is.
MscControl ==
  /\ Resting => outer = ""
  /\ ~Resting => /\ cmd.kind \in {job.op, "sense"}
                 /\ outer = IF cmd.kind = "sense" THEN job.op ELSE ""
                 /\ msc.attached \/ (StaleClients /\ job.op = "read")
  /\ job.op = "read" => /\ mbuf \in [1 .. job.n -> Int]
                        /\ ChunksFit(job.chunks, job.start, job.n)
                        /\ Filled(job.chunks[1][3])
                        /\ cmd.kind = "read" => cmd.chunk = job.chunks[1]

\* During a read the queue of the device holds what it answered to this command,
\* or else packets with the tags of older commands; and a status that lets the
\* command succeed is there only once its data has been stored.
Answered == \E a \in Answers("read", cmd.chunk) : sent = a.q
Outdated == \A i \in DOMAIN sent : ~sent[i].own
Succeeds(p) == ~Malformed(p) /\ p.status = 0 /\ ~p.residue
MscPackets ==
  ~Resting /\ cmd.kind = "read" =>
    /\ cmd.at = "data" => Answered \/ Outdated
    /\ cmd.at \in {"csw", "csw again"} /\ sent # <<>> /\ Succeeds(Head(sent)) =>
         Filled(job.chunks[1][3] + job.chunks[1][2])

MscInv == MscTypeOK /\ MscControl /\ MscPackets /\ SuccessMeansRead

\* readwrite_blocks cuts a read into chunks that fit.
LEMMA ChunksRight ==
  ASSUME NEW start \in Int, NEW n \in Nat, Chunks(start, n) # <<>>
  PROVE  /\ Chunks(start, n) \in Seq(Chunk)
         /\ ChunksFit(Chunks(start, n), start, n)
         /\ Chunks(start, n)[1][3] = 0
<1> USE MscAssumption
<1> DEFINE full == n \div ChunkBlocks
           rest == n % ChunkBlocks
           f == [k \in 1 .. full |-> <<start + (k - 1) * ChunkBlocks, ChunkBlocks, (k - 1) * ChunkBlocks>>]
           t == <<start + full * ChunkBlocks, rest, full * ChunkBlocks>>
           cs == Chunks(start, n)
<1>1. full \in Nat /\ rest \in Nat /\ n = ChunkBlocks * full + rest
  OBVIOUS
<1>2. cs = f \o (IF rest = 0 THEN <<>> ELSE <<t>>)
  BY Zenon DEF Chunks
<1> HIDE DEF full, rest, cs
<1>3. /\ f \in Seq(Chunk) /\ Len(f) = full /\ t \in Chunk
  <2>1. \A k \in 1 .. full : (k - 1) * ChunkBlocks \in Int
    BY <1>1
  <2>2. full * ChunkBlocks \in Int
    BY <1>1
  <2> QED BY <1>1, <2>1, <2>2 DEF Chunk
<1>4. \A k \in 1 .. full : /\ f[k][1] = start + (k - 1) * ChunkBlocks /\ f[k][2] = ChunkBlocks
                           /\ f[k][3] = (k - 1) * ChunkBlocks
  BY Zenon
<1>5. \A k \in 1 .. full - 1 : f[k + 1][3] = f[k][3] + f[k][2]
  <2> TAKE k \in 1 .. full - 1
  <2>1. k \in 1 .. full /\ k + 1 \in 1 .. full
    BY <1>1
  <2>2. (k + 1 - 1) * ChunkBlocks = (k - 1) * ChunkBlocks + ChunkBlocks
    BY <2>1
  <2> QED BY <1>4, <2>1, <2>2
<1>6. full > 0 => f[1][3] = 0 /\ f[full][3] + f[full][2] = full * ChunkBlocks
  <2> HAVE full > 0
  <2>1. 1 \in 1 .. full /\ full \in 1 .. full
    BY <1>1
  <2>2. (1 - 1) * ChunkBlocks = 0 /\ (full - 1) * ChunkBlocks + ChunkBlocks = full * ChunkBlocks
    BY <1>1
  <2> QED BY <1>4, <2>1, <2>2, Zenon
<1>7. /\ t[1] = start + full * ChunkBlocks /\ t[2] = rest /\ t[3] = full * ChunkBlocks
      /\ full * ChunkBlocks \in Int /\ full * ChunkBlocks + rest = n
  BY <1>1
<1> HIDE DEF f, t
<1>8. CASE rest = 0
  <2>1. cs = f
    BY <1>2, <1>3, <1>8
  <2>2. full > 0
    BY <1>1, <1>3, <2>1 DEF cs
  <2>3. \A k \in 1 .. full : f[k][1] = start + f[k][3]
    BY <1>4, Zenon
  <2>4. f[full][3] + f[full][2] = n /\ f # <<>> /\ f[1][3] = 0
    BY <1>1, <1>3, <1>6, <1>7, <1>8, <2>2
  <2>5. ChunksFit(f, start, n)
    BY <1>3, <1>5, <2>3, <2>4, Zenon DEF ChunksFit
  <2> QED BY <1>3, <2>1, <2>4, <2>5, Zenon DEF cs
<1>9. CASE rest # 0
  <2>1. /\ cs \in Seq(Chunk) /\ Len(cs) = full + 1 /\ cs[full + 1] = t
        /\ \A k \in 1 .. full : cs[k] = f[k]
    BY <1>1, <1>2, <1>3, <1>9
  <2>2. \A k \in 1 .. full + 1 : cs[k][1] = start + cs[k][3]
    <3> TAKE k \in 1 .. full + 1
    <3>1. CASE k = full + 1
      BY <1>7, <2>1, <3>1, Zenon
    <3>2. CASE k \in 1 .. full
      <4>1. cs[k] = f[k] /\ f[k][1] = start + f[k][3]
        BY <1>4, <2>1, <3>2, Zenon
      <4> QED BY <4>1, Zenon
    <3> QED BY <1>1, <3>1, <3>2
  <2>3. \A k \in 1 .. full : cs[k + 1][3] = cs[k][3] + cs[k][2]
    <3> TAKE k \in 1 .. full
    <3>1. CASE k = full
      BY <1>1, <1>6, <1>7, <2>1, <3>1
    <3>2. CASE k # full
      <4>1. k \in 1 .. full - 1 /\ k + 1 \in 1 .. full
        BY <1>1, <3>2
      <4> QED BY <1>5, <2>1, <4>1, Zenon
    <3> QED BY <3>1, <3>2, Zenon
  <2>4. cs[1][3] = 0
    <3>1. CASE full = 0
      BY <1>7, <2>1, <3>1
    <3>2. CASE full > 0
      <4>1. 1 \in 1 .. full
        BY <1>1, <3>2
      <4>2. f[1][3] = 0 /\ cs[1] = f[1]
        BY <1>6, <2>1, <3>2, <4>1, Zenon
      <4> QED BY <4>2, Zenon
    <3> QED BY <1>1, <3>1, <3>2
  <2>5. cs[Len(cs)][3] + cs[Len(cs)][2] = n /\ cs # <<>>
    <3>1. Len(cs) = full + 1 /\ cs[full + 1] = t /\ t[3] + t[2] = n
      BY <1>7, <2>1, Zenon
    <3>2. full \in Nat /\ cs \in Seq(Chunk)
      BY <1>1, <2>1, Zenon
    <3>3. full + 1 # 0
      BY <3>2
    <3>4. cs # <<>>
      BY <3>1, <3>2, <3>3, Zenon
    <3> QED BY <3>1, <3>4, Zenon
  <2>6. ChunksFit(cs, start, n)
    BY <1>1, <2>1, <2>2, <2>3, <2>5 DEF ChunksFit
  <2> QED BY <2>1, <2>4, <2>6, Zenon DEF cs
<1> QED BY <1>8, <1>9, Zenon

\* Without its first chunk the rest of a read still fits.
LEMMA ChunksTail ==
  ASSUME NEW cs \in Seq(Chunk), NEW start \in Int, NEW n \in Int, ChunksFit(cs, start, n),
         Len(cs) # 1
  PROVE  /\ Tail(cs) \in Seq(Chunk) /\ ChunksFit(Tail(cs), start, n)
         /\ Tail(cs)[1] = cs[2] /\ cs[2] \in Chunk
         /\ cs[2][3] = cs[1][3] + cs[1][2]
<1>1. /\ Len(cs) \in Nat /\ Len(cs) > 1 /\ Tail(cs) \in Seq(Chunk) /\ Len(Tail(cs)) = Len(cs) - 1
      /\ \A k \in 1 .. Len(cs) - 1 : Tail(cs)[k] = cs[k + 1]
  <2>1. cs # <<>>
    BY Zenon DEF ChunksFit
  <2>2. Len(cs) \in Nat /\ Len(cs) > 1
    <3>1. Len(cs) \in Nat /\ Len(cs) # 0
      BY <2>1
    <3>2. \A l \in Nat : l # 0 /\ l # 1 => l > 1
      OBVIOUS
    <3> QED BY <3>1, <3>2, Zenon
  <2> QED BY <2>1, <2>2
<1> DEFINE t == Tail(cs)
           m == Len(cs)
<1> HIDE DEF t, m
<1>2. /\ \A k \in 1 .. m : cs[k][1] = start + cs[k][3]
      /\ \A k \in 1 .. m - 1 : cs[k + 1][3] = cs[k][3] + cs[k][2]
      /\ cs[m][3] + cs[m][2] = n
  BY Zenon DEF ChunksFit, m
<1>3. m \in Nat /\ m > 1 /\ Len(t) = m - 1 /\ t # <<>> /\ \A k \in 1 .. m - 1 : t[k] = cs[k + 1]
  <2>1. m \in Nat /\ m > 1 /\ Len(t) = m - 1 /\ \A k \in 1 .. m - 1 : t[k] = cs[k + 1]
    BY <1>1, Zenon DEF t, m
  <2>2. t \in Seq(Chunk)
    BY <1>1, Zenon DEF t
  <2> QED BY <2>1, <2>2
<1>4. \A k \in 1 .. m - 1 : t[k][1] = start + t[k][3]
  BY <1>2, <1>3
<1>5. \A k \in 1 .. m - 2 : t[k + 1][3] = t[k][3] + t[k][2]
  <2> TAKE k \in 1 .. m - 2
  <2>1. k \in 1 .. m - 1 /\ k + 1 \in 1 .. m - 1
    BY <1>3
  <2> QED BY <1>2, <1>3, <2>1, Zenon
<1>6. t[m - 1][3] + t[m - 1][2] = n
  BY <1>2, <1>3
<1>7. ChunksFit(t, start, n)
  BY <1>3, <1>4, <1>5, <1>6 DEF ChunksFit
<1>8. t[1] = cs[2] /\ cs[2][3] = cs[1][3] + cs[1][2]
  BY <1>2, <1>3
<1>9. cs[2] \in Chunk
  BY <1>1
<1> QED BY <1>1, <1>7, <1>8, <1>9, Zenon DEF t

\* The commands of the functions have the type of commands.
LEMMA CommandType ==
  /\ NoCmd \in CmdType /\ NoCmd.at = ""
  /\ \A kind \in Ops \cup {"sense"}, chunk \in Chunk :
       /\ MscCommand(kind, chunk) \in CmdType /\ MscCommand(kind, chunk).kind = kind
       /\ MscCommand(kind, chunk).at = "cbw" /\ MscCommand(kind, chunk).chunk = chunk
  /\ <<0, 0, 0>> \in Chunk
<1>1. <<0, 0, 0>> \in Chunk
  BY DEF Chunk
<1> QED BY <1>1, Zenon DEF NoCmd, MscCommand, CmdType

\* So has a driver at rest.
LEMMA RestType ==
  /\ MscRest \in JobType /\ MscRest.op = "idle" /\ MscRest.was = ""
  /\ <<>> \in Seq(Chunk) /\ <<>> \in Seq(Packet)
<1>1. <<>> \in Seq(Chunk) /\ <<>> \in Seq(Packet) /\ 0 \in Int
  OBVIOUS
<1>2. "idle" \in Ops
  BY Zenon DEF Ops
<1> QED BY <1>1, <1>2, Zenon DEF MscRest, JobType

\* A function that ends leaves the invariant true, if a read that ends well has
\* filled its buffer.
LEMMA FinishKeeps ==
  ASSUME MscTypeOK, NEW r \in Outcomes, Finish(r), msc' \in MscType,
         sent' \in Seq(Packet), halted' \in BOOLEAN,
         r = "ok" /\ job.op = "read" => mbuf' = [i \in 1 .. job.n |-> job.start + i - 1]
  PROVE  MscInv'
<1>1. /\ job'.op = "idle" /\ job'.was = job.op /\ job'.result = r /\ job'.n = job.n
      /\ job'.start = job.start
  BY Zenon DEF Finish, MscTypeOK, JobType
<1>2. MscTypeOK'
  <2>1. job' \in JobType
    <3>1. job \in JobType /\ job.op \in Ops
      BY Zenon DEF MscTypeOK, JobType
    <3>4. <<>> \in Seq(Chunk) /\ 0 \in Int
      OBVIOUS
    <3>2. job' = [job EXCEPT !.op = "idle", !.tries = 0, !.chunks = <<>>, !.was = job.op, !.result = r]
      BY Zenon DEF Finish
    <3>3. "idle" \in Ops
      BY Zenon DEF Ops
    <3> QED BY <3>1, <3>2, <3>3, <3>4, Zenon DEF JobType
  <2>2. cmd' \in CmdType
    BY CommandType, Zenon DEF Finish
  <2> QED BY <2>1, <2>2, Zenon DEF MscTypeOK
<1>3. MscControl' /\ MscPackets'
  BY <1>1, Zenon DEF Finish, MscControl, MscPackets, Resting
<1>4. SuccessMeansRead'
  BY <1>1, Zenon DEF SuccessMeansRead
<1> QED BY <1>2, <1>3, <1>4, Zenon DEF MscInv

\* So does one that sends another command to a device that is attached.
LEMMA AgainKeeps ==
  ASSUME MscTypeOK, NEW kind \in {"ready", "spin", "capacity"}, NEW tries \in Int, Again(kind, tries),
         msc' \in MscType, msc'.attached, sent' \in Seq(Packet), halted' \in BOOLEAN
  PROVE  MscInv'
<1>1. /\ job'.op = kind /\ cmd'.kind = kind /\ cmd'.at = "cbw" /\ outer' = ""
  <2>1. job'.op = kind /\ outer' = ""
    BY Zenon DEF Again, MscTypeOK, JobType
  <2>2. cmd' = MscCommand(kind, <<0, 0, 0>>)
    BY Zenon DEF Again
  <2> QED BY <2>1, <2>2, Zenon DEF MscCommand
<1>2. MscTypeOK'
  <2>1. job' \in JobType
    BY Zenon DEF Again, MscTypeOK, JobType, Ops
  <2>2. cmd' \in CmdType
    BY CommandType, Zenon DEF Again, Ops
  <2> QED BY <2>1, <2>2, Zenon DEF MscTypeOK
<1>3. MscControl' /\ MscPackets' /\ SuccessMeansRead'
  BY <1>1, Zenon DEF MscControl, MscPackets, SuccessMeansRead, Resting
<1> QED BY <1>2, <1>3, Zenon DEF MscInv

\* What becomes of the result of a command.  A read goes on only with a chunk that
\* has been stored, and no function goes on with a device that is gone.
LEMMA JobResultKeeps ==
  ASSUME MscTypeOK, MscControl, ~Resting, NEW r \in Outcomes, NEW isReady \in BOOLEAN,
         JobResult(r, isReady), mbuf' = mbuf, sent' \in Seq(Packet), halted' \in BOOLEAN,
         r = "ok" /\ job.op = "read" => Filled(job.chunks[1][3] + job.chunks[1][2])
  PROVE  MscInv'
<1>1. /\ job.op \in {"ready", "spin", "capacity", "read"} /\ job.tries \in Int /\ msc \in MscType
      /\ job.op # "read" => msc.attached
  BY Zenon DEF MscTypeOK, MscControl, Resting, Ops, JobType
<1>2. CASE job.op = "ready"
  <2>1. ReadyResult(r, isReady)
    BY <1>2, Zenon DEF JobResult
  <2>2. CASE r = "ok" /\ isReady
    <3>1. Again("spin", SpinTries) /\ msc' = [msc EXCEPT !.ready = TRUE]
      BY <2>1, <2>2, Zenon DEF ReadyResult
    <3>2. msc' \in MscType /\ msc'.attached
      BY <1>1, <1>2, <3>1, Zenon DEF MscType
    <3>3. SpinTries \in Int
      BY MscAssumption
    <3> QED BY <3>1, <3>2, <3>3, AgainKeeps, Zenon
  <2>3. CASE r = "fail" /\ job.tries > 1
    <3>1. Again("ready", job.tries - 1) /\ msc' = msc
      BY <2>1, <2>3, Zenon DEF ReadyResult
    <3> QED BY <1>1, <1>2, <3>1, AgainKeeps
  <2>4. CASE ~(r = "ok" /\ isReady) /\ ~(r = "fail" /\ job.tries > 1)
    <3>1. Finish(r) /\ \/ msc' = [msc EXCEPT !.ready = FALSE]
                       \/ msc' = [msc EXCEPT !.ready = FALSE, !.attached = @ /\ r # "detached"]
      BY <2>1, <2>4, Zenon DEF ReadyResult
    <3>2. msc' \in MscType
      BY <1>1, <3>1, Zenon DEF MscType
    <3> QED BY <1>2, <3>1, <3>2, FinishKeeps, Zenon
  <2> QED BY <2>2, <2>3, <2>4, Zenon
<1>3. CASE job.op = "spin"
  <2>1. SpinResult(r)
    BY <1>3, Zenon DEF JobResult
  <2>2. CASE r = "detached"
    <3>1. Finish(r) /\ msc' = [msc EXCEPT !.attached = FALSE]
      BY <2>1, <2>2, Zenon DEF SpinResult
    <3>2. msc' \in MscType
      BY <1>1, <3>1, Zenon DEF MscType
    <3> QED BY <1>3, <3>1, <3>2, FinishKeeps, Zenon
  <2>3. CASE r # "detached"
    <3>1. PICK kind \in {"spin", "capacity"}, tries \in Int : Again(kind, tries) /\ msc' = msc
      BY <1>1, <2>1, <2>3, MscAssumption DEF SpinResult
    <3> QED BY <1>1, <1>3, <3>1, AgainKeeps, Zenon
  <2> QED BY <2>2, <2>3, Zenon
<1>4. CASE job.op = "capacity"
  <2>1. CapacityResult(r)
    BY <1>4, Zenon DEF JobResult
  <2>2. CASE r = "fail" /\ job.tries > 1
    <3>1. Again("capacity", job.tries - 1) /\ msc' = msc
      BY <2>1, <2>2, Zenon DEF CapacityResult
    <3> QED BY <1>1, <1>4, <3>1, AgainKeeps
  <2>3. CASE ~(r = "fail" /\ job.tries > 1)
    <3>1. Finish(r) /\ msc' \in MscType
      BY <1>1, <2>1, <2>3, ZenonT(60) DEF CapacityResult, MscType
    <3> QED BY <1>4, <3>1, FinishKeeps, Zenon
  <2> QED BY <2>2, <2>3, Zenon
<1>5. CASE job.op = "read"
  <2>1. ReadResult(r)
    BY <1>5, Zenon DEF JobResult
  <2>2. /\ job.chunks \in Seq(Chunk) /\ job.start \in Int /\ job.n \in Int
        /\ ChunksFit(job.chunks, job.start, job.n) /\ mbuf \in [1 .. job.n -> Int]
    BY <1>5, Zenon DEF MscControl, MscTypeOK, JobType
  <2>3. CASE r # "ok" \/ Len(job.chunks) = 1
    <3>1. Finish(r) /\ msc' = [msc EXCEPT !.attached = @ /\ r # "detached"]
      BY <2>1, <2>3, Zenon DEF ReadResult
    <3>2. msc' \in MscType
      BY <1>1, <3>1, Zenon DEF MscType
    <3>3. ASSUME r = "ok" PROVE mbuf' = [i \in 1 .. job.n |-> job.start + i - 1]
      <4>1. job.chunks[1][3] + job.chunks[1][2] = job.n
        BY <2>2, <2>3, <3>3, Zenon DEF ChunksFit
      <4>2. \A i \in 1 .. job.n : mbuf[i] = job.start + i - 1
        <5>1. Filled(job.n)
          BY <1>5, <3>3, <4>1, Zenon
        <5>2. job.n \in Int
          BY <2>2, Zenon
        <5>3. \A i \in 1 .. job.n : i - 1 < job.n
          BY <5>2
        <5> QED BY <5>1, <5>3, Zenon DEF Filled
      <4> QED BY <2>2, <4>2, Zenon
    <3> QED BY <3>1, <3>2, <3>3, FinishKeeps, Zenon
  <2>4. CASE r = "ok" /\ Len(job.chunks) # 1
    <3>1. /\ job' = [job EXCEPT !.chunks = Tail(@)] /\ cmd' = MscCommand("read", job.chunks[2])
          /\ outer' = "" /\ msc' = msc
      BY <2>1, <2>4, Zenon DEF ReadResult
    <3>2. /\ Tail(job.chunks) \in Seq(Chunk) /\ ChunksFit(Tail(job.chunks), job.start, job.n)
          /\ Tail(job.chunks)[1] = job.chunks[2] /\ job.chunks[2] \in Chunk
          /\ job.chunks[2][3] = job.chunks[1][3] + job.chunks[1][2]
      BY <2>2, <2>4, ChunksTail, Zenon
    <3>3. /\ job'.op = "read" /\ job'.chunks = Tail(job.chunks) /\ job'.start = job.start
          /\ job'.n = job.n /\ cmd'.kind = "read" /\ cmd'.at = "cbw" /\ cmd'.chunk = job.chunks[2]
      <4>1. /\ job'.op = "read" /\ job'.chunks = Tail(job.chunks) /\ job'.start = job.start
            /\ job'.n = job.n
        BY <1>5, <3>1, Zenon DEF MscTypeOK, JobType
      <4> QED BY <3>1, <4>1, Zenon DEF MscCommand
    <3>4. MscTypeOK'
      <4>1. job' \in JobType
        BY <3>1, <3>2, Zenon DEF MscTypeOK, JobType
      <4>2. cmd' \in CmdType
        BY <3>1, <3>2, CommandType, Zenon DEF Ops
      <4> QED BY <1>1, <3>1, <4>1, <4>2, Zenon DEF MscTypeOK
    <3>5. \A i \in 1 .. job'.n : i - 1 < job.chunks[2][3] => mbuf'[i] = job'.start + i - 1
      BY <1>5, <2>4, <3>2, <3>3, Zenon DEF Filled
    <3>6. MscControl'
      <4>1. job'.chunks[1] = job.chunks[2]
        BY <3>2, <3>3, Zenon
      <4>2. Filled(job.chunks[1][3])'
        BY <3>5, <4>1, Zenon DEF Filled
      <4>3. msc.attached \/ StaleClients
        BY Zenon DEF MscControl
      <4> QED BY <1>5, <2>2, <3>1, <3>2, <3>3, <4>1, <4>2, <4>3, Zenon DEF MscControl, Resting
    <3>7. MscPackets' /\ SuccessMeansRead'
      BY <3>3, Zenon DEF MscPackets, SuccessMeansRead, Resting
    <3> QED BY <3>4, <3>6, <3>7, Zenon DEF MscInv
  <2> QED BY <2>3, <2>4, Zenon
<1> QED BY <1>1, <1>2, <1>3, <1>4, <1>5, Zenon

\* The result of a command, with the detour over REQUEST SENSE: only a read
\* command itself can make a read go on.
LEMMA MscResultKeeps ==
  ASSUME MscTypeOK, MscControl, ~Resting, NEW r \in Outcomes, MscResult(r),
         mbuf' = mbuf, sent' \in Seq(Packet), halted' \in BOOLEAN,
         r = "ok" /\ cmd.kind = "read" => Filled(job.chunks[1][3] + job.chunks[1][2])
  PROVE  MscInv'
<1>1. /\ job.op \in {"ready", "spin", "capacity", "read"} /\ cmd.kind \in {job.op, "sense"}
      /\ outer = IF cmd.kind = "sense" THEN job.op ELSE ""
  BY Zenon DEF MscTypeOK, MscControl, Resting, Ops, JobType
<1>2. CASE outer = "" /\ JobResult(r, TRUE)
  BY <1>1, <1>2, JobResultKeeps, Zenon
<1>3. CASE outer = "ready"
  <2>1. job.op # "read"
    BY <1>1, <1>3, Zenon
  <2>2. \/ JobResult("ok", FALSE) \/ JobResult("fail", TRUE) \/ JobResult(r, TRUE)
    BY <1>3, Zenon DEF MscResult
  <2>3. "ok" \in Outcomes /\ "fail" \in Outcomes
    BY Zenon DEF Outcomes
  <2> QED BY <2>1, <2>2, <2>3, JobResultKeeps, Zenon
<1>4. CASE outer \notin {"", "ready"}
  <2>1. PICK q \in Outcomes : q # "ok" /\ JobResult(q, TRUE)
    BY <1>4, Zenon DEF MscResult, Outcomes
  <2> QED BY <2>1, JobResultKeeps, Zenon
<1> QED BY <1>1, <1>2, <1>3, <1>4, Zenon DEF MscResult

\* The fields of an answer, and the packets a device may send for a read.
LEMMA AnswerFields ==
  /\ \A a, s, h : a = [q |-> s, halt |-> h] => a.q = s /\ a.halt = h
  /\ \A kind, chunk : \A a \in Answers(kind, chunk) :
       HasData(kind) =>
         \/ a = [q |-> <<Data(chunk[1], TRUE), Csw(0, FALSE)>>, halt |-> FALSE]
         \/ a = [q |-> <<Data(chunk[1], FALSE), Csw(0, TRUE)>>, halt |-> FALSE]
         \/ a = [q |-> <<Csw(1, TRUE)>>, halt |-> TRUE]
         \/ a = [q |-> <<Csw(2, TRUE)>>, halt |-> FALSE]
<1>1. \A a, s, h : a = [q |-> s, halt |-> h] => a.q = s /\ a.halt = h
  OBVIOUS
<1>2. \A kind, chunk : \A a \in Answers(kind, chunk) :
       HasData(kind) =>
         \/ a = [q |-> <<Data(chunk[1], TRUE), Csw(0, FALSE)>>, halt |-> FALSE]
         \/ a = [q |-> <<Data(chunk[1], FALSE), Csw(0, TRUE)>>, halt |-> FALSE]
         \/ a = [q |-> <<Csw(1, TRUE)>>, halt |-> TRUE]
         \/ a = [q |-> <<Csw(2, TRUE)>>, halt |-> FALSE]
  BY Zenon DEF Answers
<1> QED BY <1>1, <1>2, Zenon

\* What the device answers are packets; marking them outdated leaves packets.
LEMMA PacketTypes ==
  /\ \A kind, chunk : chunk \in Chunk =>
       \A a \in Answers(kind, chunk) : a.q \in Seq(Packet) /\ a.halt \in BOOLEAN
  /\ \A s \in Seq(Packet) : s # <<>> => Tail(s) \in Seq(Packet) /\ Head(s) \in Packet
  /\ \A s \in Seq(Packet) : [i \in DOMAIN s |-> [s[i] EXCEPT !.own = FALSE]] \in Seq(Packet)
<1>1. ASSUME NEW kind, NEW chunk \in Chunk, NEW a \in Answers(kind, chunk)
      PROVE  a.q \in Seq(Packet) /\ a.halt \in BOOLEAN
  <2>1. /\ \A status \in 0 .. 2, residue \in BOOLEAN : Csw(status, residue) \in Packet
        /\ \A whole \in BOOLEAN : Data(chunk[1], whole) \in Packet
    BY DEF Csw, Data, Packet, Chunk
  <2>4. \A p, q \in Packet : <<p>> \in Seq(Packet) /\ <<p, q>> \in Seq(Packet)
    OBVIOUS
  <2>2. CASE HasData(kind)
    <3>1. \/ a = [q |-> <<Data(chunk[1], TRUE), Csw(0, FALSE)>>, halt |-> FALSE]
          \/ a = [q |-> <<Data(chunk[1], FALSE), Csw(0, TRUE)>>, halt |-> FALSE]
          \/ a = [q |-> <<Csw(1, TRUE)>>, halt |-> TRUE]
          \/ a = [q |-> <<Csw(2, TRUE)>>, halt |-> FALSE]
      BY <2>2, AnswerFields, Zenon
    <3>2. /\ <<Data(chunk[1], TRUE), Csw(0, FALSE)>> \in Seq(Packet)
          /\ <<Data(chunk[1], FALSE), Csw(0, TRUE)>> \in Seq(Packet)
          /\ <<Csw(1, TRUE)>> \in Seq(Packet) /\ <<Csw(2, TRUE)>> \in Seq(Packet)
      <4>1. /\ Data(chunk[1], TRUE) \in Packet /\ Data(chunk[1], FALSE) \in Packet
            /\ Csw(0, FALSE) \in Packet /\ Csw(0, TRUE) \in Packet
            /\ Csw(1, TRUE) \in Packet /\ Csw(2, TRUE) \in Packet
        BY DEF Csw, Data, Packet, Chunk
      <4> QED BY <2>4, <4>1, Zenon
    <3>3. \A s, h : a = [q |-> s, halt |-> h] => a.q = s /\ a.halt = h
      BY AnswerFields, Zenon
    <3>4. CASE a = [q |-> <<Data(chunk[1], TRUE), Csw(0, FALSE)>>, halt |-> FALSE]
      BY <3>2, <3>3, <3>4, Zenon
    <3>5. CASE a = [q |-> <<Data(chunk[1], FALSE), Csw(0, TRUE)>>, halt |-> FALSE]
      BY <3>2, <3>3, <3>5, Zenon
    <3>6. CASE a = [q |-> <<Csw(1, TRUE)>>, halt |-> TRUE]
      BY <3>2, <3>3, <3>6, Zenon
    <3>7. CASE a = [q |-> <<Csw(2, TRUE)>>, halt |-> FALSE]
      BY <3>2, <3>3, <3>7, Zenon
    <3> QED BY <3>1, <3>4, <3>5, <3>6, <3>7, Zenon
  <2>3. CASE ~HasData(kind)
    <3>1. PICK status \in 0 .. 2 : a = [q |-> <<Csw(status, FALSE)>>, halt |-> FALSE]
      BY <2>3, Zenon DEF Answers
    <3> QED BY <2>1, <2>4, <3>1, Zenon
  <2> QED BY <2>2, <2>3, Zenon
<1>2. \A s \in Seq(Packet) : s # <<>> => Tail(s) \in Seq(Packet) /\ Head(s) \in Packet
  OBVIOUS
<1>3. ASSUME NEW s \in Seq(Packet)
      PROVE  [i \in DOMAIN s |-> [s[i] EXCEPT !.own = FALSE]] \in Seq(Packet)
  <2>1. \A p \in Packet : [p EXCEPT !.own = FALSE] \in Packet
    BY Zenon DEF Packet
  <2> QED BY <2>1
<1> QED BY <1>1, <1>2, <1>3, Zenon

\* The steps that change only where the command is, and the packets.
LEMMA GoKeeps ==
  ASSUME MscTypeOK, MscControl, SuccessMeansRead, ~Resting,
         NEW phase \in {"data", "csw", "csw again"}, MscGo(phase), MscPackets',
         sent' \in Seq(Packet), halted' \in BOOLEAN,
         job.op = "read" => mbuf' \in [1 .. job.n -> Int] /\ Filled(job.chunks[1][3])'
  PROVE  MscInv'
<1>1. /\ cmd' = [cmd EXCEPT !.at = phase] /\ msc' = msc /\ job' = job /\ outer' = outer
  BY Zenon DEF MscGo
<1>2. cmd' \in CmdType /\ cmd'.kind = cmd.kind /\ cmd'.chunk = cmd.chunk
  BY <1>1, Zenon DEF MscTypeOK, CmdType
<1>3. MscTypeOK'
  BY <1>1, <1>2, Zenon DEF MscTypeOK
<1>4. MscControl'
  BY <1>1, <1>2, Zenon DEF MscControl, Resting
<1>5. SuccessMeansRead'
  BY <1>1, Zenon DEF SuccessMeansRead, Resting
<1> QED BY <1>3, <1>4, <1>5, Zenon DEF MscInv

\* A data packet that arrives is stored in the place of its chunk.
LEMMA StoredChunk ==
  ASSUME MscTypeOK, MscControl, job.op = "read", NEW p \in Packet, mbuf' = Stored(p), job' = job
  PROVE  /\ mbuf' \in [1 .. job.n -> Int]
         /\ Filled(job.chunks[1][3])'
         /\ cmd.kind = "read" /\ p = Data(cmd.chunk[1], TRUE) =>
              Filled(job.chunks[1][3] + job.chunks[1][2])'
<1> DEFINE c == cmd.chunk
<1>1. /\ c \in Chunk /\ c[1] \in Int /\ c[2] \in Int /\ c[3] \in Int
      /\ job.n \in Int /\ job.start \in Int /\ p.block \in Int /\ -1 \in Int
      /\ mbuf \in [1 .. job.n -> Int] /\ DOMAIN mbuf = 1 .. job.n
  <2>1. c \in Chunk /\ job.n \in Int /\ job.start \in Int
    BY Zenon DEF MscTypeOK, CmdType, JobType
  <2>2. c[1] \in Int /\ c[2] \in Int /\ c[3] \in Int
    BY <2>1, Zenon DEF Chunk
  <2>3. p.block \in Int /\ -1 \in Int
    BY DEF Packet
  <2>4. mbuf \in [1 .. job.n -> Int]
    BY Zenon DEF MscControl
  <2> QED BY <2>1, <2>2, <2>3, <2>4, Zenon
<1>2. /\ ChunksFit(job.chunks, job.start, job.n) /\ Filled(job.chunks[1][3])
      /\ cmd.kind = "read" => c = job.chunks[1]
  BY Zenon DEF MscControl
<1> HIDE DEF c
<1>3. \A i \in 1 .. job.n :
        mbuf'[i] = IF cmd.kind = "read" /\ i - 1 \in c[3] .. c[3] + c[2] - 1
                   THEN IF p.kind = "data" /\ p.whole THEN p.block + (i - 1 - c[3]) ELSE -1
                   ELSE mbuf[i]
  BY <1>1, Zenon DEF Stored, c
<1>4. mbuf' \in [1 .. job.n -> Int]
  <2>1. \A i \in 1 .. job.n : mbuf'[i] \in Int
    <3> TAKE i \in 1 .. job.n
    <3>1. mbuf[i] \in Int /\ p.block + (i - 1 - c[3]) \in Int /\ -1 \in Int
      <4>1. job.n \in Int /\ p.block \in Int /\ c[3] \in Int /\ -1 \in Int
        BY <1>1, Zenon
      <4>2. mbuf[i] \in Int
        BY <1>1, Zenon
      <4>3. p.block + (i - 1 - c[3]) \in Int
        BY <4>1
      <4> QED BY <4>1, <4>2, <4>3, Zenon
    <3> QED BY <1>3, <3>1, Zenon
  <2>2. DOMAIN mbuf' = 1 .. job.n /\ mbuf' = [i \in 1 .. job.n |-> mbuf'[i]]
    BY <1>1, Zenon DEF Stored
  <2> QED BY <2>1, <2>2, Zenon
<1>5. ASSUME NEW i \in 1 .. job.n, i - 1 < job.chunks[1][3]
      PROVE  mbuf'[i] = job.start + i - 1
  <2>1. mbuf[i] = job.start + i - 1
    BY <1>2, <1>5, Zenon DEF Filled
  <2>2. cmd.kind = "read" => ~(i - 1 \in c[3] .. c[3] + c[2] - 1)
    BY <1>1, <1>2, <1>5
  <2> QED BY <1>3, <2>1, <2>2, Zenon
<1>6. ASSUME cmd.kind = "read", p = Data(c[1], TRUE),
             NEW i \in 1 .. job.n, i - 1 < job.chunks[1][3] + job.chunks[1][2]
      PROVE  mbuf'[i] = job.start + i - 1
  <2>1. p.kind = "data" /\ p.whole /\ p.block = c[1]
    BY <1>6, Zenon DEF Data
  <2>2. c = job.chunks[1] /\ c[1] = job.start + c[3]
    <3>1. 1 \in 1 .. Len(job.chunks)
      <4>1. job.chunks \in Seq(Chunk) /\ job.chunks # <<>>
        BY <1>2, Zenon DEF ChunksFit, MscTypeOK, JobType
      <4>2. Len(job.chunks) \in Nat /\ Len(job.chunks) # 0
        BY <4>1
      <4> QED BY <4>2
    <3> QED BY <1>2, <1>6, <3>1, Zenon DEF ChunksFit
  <2>3. CASE i - 1 < c[3]
    BY <1>5, <2>2, <2>3, Zenon
  <2>4. CASE i - 1 >= c[3]
    <3>a. c[2] \in Int /\ c[3] \in Int /\ job.n \in Int /\ job.start \in Int
      BY <1>1, Zenon
    <3>b. i \in Int
      BY <3>a
    <3>c. i - 1 < c[3] + c[2]
      BY <1>6, <2>2, Zenon
    <3>1. i - 1 \in c[3] .. c[3] + c[2] - 1
      BY <2>4, <3>a, <3>b, <3>c
    <3>2. mbuf'[i] = p.block + (i - 1 - c[3])
      BY <1>3, <1>6, <2>1, <3>1, Zenon
    <3>3. p.block = job.start + c[3]
      BY <2>1, <2>2, Zenon
    <3> QED BY <3>2, <3>3, <3>a, <3>b
  <2> QED BY <1>1, <2>3, <2>4
<1> QED BY <1>4, <1>5, <1>6, Zenon DEF Filled, c

\* The invariant of the mass storage driver: an old or late packet is told by its
\* tag, a short one by its residue, and each chunk is stored before the next is
\* asked for.
THEOREM MscInvariant == MscSpec => []MscInv
<1>1. MscInit => MscInv
  <2> SUFFICES ASSUME MscInit PROVE MscInv
    BY Zenon
  <2>1. /\ msc \in MscType /\ cmd \in CmdType /\ sent \in Seq(Packet) /\ halted \in BOOLEAN
    BY CommandType, RestType, Zenon DEF MscInit, MscType
  <2>2. job \in JobType /\ job.op = "idle" /\ job.was = "" /\ outer = ""
    BY RestType, Zenon DEF MscInit
  <2> QED BY <2>1, <2>2, Zenon DEF MscInv, MscTypeOK, MscControl, MscPackets, SuccessMeansRead, Resting
<1>2. MscInv /\ [MscNext]_mscVars => MscInv'
  <2> SUFFICES ASSUME MscInv, [MscNext]_mscVars PROVE MscInv'
    BY Zenon
  <2>a. MscTypeOK /\ MscControl /\ MscPackets /\ SuccessMeansRead
    BY Zenon DEF MscInv
  <2>b. /\ msc \in MscType /\ job \in JobType /\ cmd \in CmdType /\ cmd.chunk \in Chunk
        /\ sent \in Seq(Packet) /\ halted \in BOOLEAN
        /\ sent # <<>> => Tail(sent) \in Seq(Packet) /\ Head(sent) \in Packet
    BY <2>a, PacketTypes, Zenon DEF MscTypeOK, CmdType
  <2>c. "ok" \in Outcomes /\ "fail" \in Outcomes /\ "detached" \in Outcomes
    BY Zenon DEF Outcomes
  <2>1. CASE usb_msc_force_init
    <3>1. /\ msc' \in MscType /\ msc'.attached /\ sent' \in Seq(Packet) /\ halted' \in BOOLEAN
          /\ cmd' = MscCommand("ready", <<0, 0, 0>>) /\ outer' = outer
          /\ job' = [MscRest EXCEPT !.op = "ready", !.tries = ReadyTries]
      BY <2>1, RestType, Zenon DEF usb_msc_force_init, MscType, Begin
    <3>2. job' \in JobType /\ job'.op = "ready"
      <4>1. ReadyTries \in Int /\ "ready" \in Ops
        BY MscAssumption DEF Ops
      <4> QED BY <3>1, <4>1, RestType, Zenon DEF JobType
    <3>3. cmd' \in CmdType /\ cmd'.kind = "ready"
      BY <3>1, CommandType, Zenon DEF Ops
    <3>4. outer = ""
      BY <2>1, <2>a, Zenon DEF usb_msc_force_init, MscControl
    <3> QED BY <3>1, <3>2, <3>3, <3>4, Zenon
            DEF MscInv, MscTypeOK, MscControl, MscPackets, SuccessMeansRead, Resting
  <2>2. CASE usb_msc_destroy
    <3>1. /\ msc' \in MscType /\ UNCHANGED <<cmd, outer, sent, halted, mbuf>> /\ job' = MscRest
      BY <2>2, <2>b, Zenon DEF usb_msc_destroy, MscType
    <3>2. job' \in JobType /\ job'.op = "idle" /\ job'.was = ""
      BY <3>1, RestType, Zenon
    <3>3. outer = ""
      BY <2>2, <2>a, Zenon DEF usb_msc_destroy, MscControl
    <3> QED BY <2>b, <3>1, <3>2, <3>3, Zenon
            DEF MscInv, MscTypeOK, MscControl, MscPackets, SuccessMeansRead, Resting
  <2>3. ASSUME NEW start \in 0 .. DiskBlocks - 1, NEW n \in 1 .. DiskBlocks,
               ob_usbmsc_read_blocks(start, n)
        PROVE  MscInv'
    <3> DEFINE c == Chunks(start, n)
    <3>1. /\ c # <<>> /\ cmd' = MscCommand("read", c[1])
          /\ job' = [MscRest EXCEPT !.op = "read", !.chunks = c, !.start = start, !.n = n]
          /\ mbuf' = [i \in 1 .. n |-> -1] /\ UNCHANGED <<msc, outer, sent, halted>>
          /\ (StaleClients \/ msc.attached) /\ Resting
      BY <2>3, Zenon DEF ob_usbmsc_read_blocks
    <3>2. start \in Int /\ n \in Nat /\ n \in Int
      BY MscAssumption
    <3>3. c \in Seq(Chunk) /\ ChunksFit(c, start, n) /\ c[1][3] = 0
      BY <3>1, <3>2, ChunksRight, Zenon
    <3> HIDE DEF c
    <3>4. c[1] \in Chunk
      BY <3>1, <3>3
    <3>5. cmd' \in CmdType /\ cmd'.kind = "read" /\ cmd'.at = "cbw" /\ cmd'.chunk = c[1]
      <4>1. "read" \in Ops \cup {"sense"}
        BY Zenon DEF Ops
      <4> QED BY <3>1, <3>4, <4>1, Zenon DEF MscCommand, CmdType
    <3>6. /\ job'.op = "read" /\ job'.chunks = c /\ job'.start = start /\ job'.n = n
          /\ job' \in JobType
      <4>1. "read" \in Ops
        BY Zenon DEF Ops
      <4> QED BY <3>1, <3>2, <3>3, <4>1, RestType, Zenon DEF JobType
    <3>7. outer = ""
      BY <2>3, <2>a, Zenon DEF ob_usbmsc_read_blocks, MscControl
    <3>8. mbuf' \in [1 .. job'.n -> Int]
      BY <3>1, <3>6
    <3>9. Filled(job.chunks[1][3])'
      BY <3>2, <3>3, <3>6 DEF Filled
    <3>10. MscControl'
      BY <3>1, <3>3, <3>5, <3>6, <3>7, <3>8, <3>9, Zenon DEF MscControl, Resting
    <3> QED BY <2>b, <3>1, <3>5, <3>6, <3>10, Zenon
            DEF MscInv, MscTypeOK, MscPackets, SuccessMeansRead, Resting
  <2>4. CASE SendCbw
    <3> DEFINE phase == IF HasData(cmd.kind) THEN "data" ELSE "csw"
    <3>1. /\ ~Resting /\ MscGo(phase) /\ mbuf' = mbuf
          /\ \/ \E a \in Answers(cmd.kind, cmd.chunk) : sent' = a.q /\ halted' = a.halt
             \/ sent' = [i \in DOMAIN sent |-> [sent[i] EXCEPT !.own = FALSE]] /\ halted' = halted
      BY <2>4, Zenon DEF SendCbw, MscAt
    <3>2. sent' \in Seq(Packet) /\ halted' \in BOOLEAN
      BY <2>b, <3>1, PacketTypes
    <3>3. job' = job /\ cmd'.kind = cmd.kind /\ cmd'.at = phase /\ cmd'.chunk = cmd.chunk
      BY <2>b, <3>1, Zenon DEF MscGo, CmdType
    <3>4. MscPackets'
      <4> SUFFICES ASSUME cmd.kind = "read" PROVE Answered' \/ Outdated'
        BY <3>3, Zenon DEF MscPackets, HasData
      <4>1. CASE \E a \in Answers(cmd.kind, cmd.chunk) : sent' = a.q
        BY <3>3, <4>1, Zenon DEF Answered
      <4>2. CASE sent' = [i \in DOMAIN sent |-> [sent[i] EXCEPT !.own = FALSE]]
        <5>1. \A i \in DOMAIN sent : sent[i] \in Packet
          BY <2>b
        <5>2. \A q \in Packet : ~[q EXCEPT !.own = FALSE].own
          BY Zenon DEF Packet
        <5> QED BY <4>2, <5>1, <5>2, Zenon DEF Outdated
      <4> QED BY <3>1, <4>1, <4>2, Zenon
    <3>5. job.op = "read" => mbuf' \in [1 .. job.n -> Int] /\ Filled(job.chunks[1][3])'
      BY <2>a, <3>1, <3>3, Zenon DEF MscControl, Filled
    <3> QED BY <2>a, <3>1, <3>2, <3>4, <3>5, GoKeeps, Zenon
  <2>5. CASE ReceiveData
    <3>1. /\ ~Resting /\ cmd.at = "data" /\ MscGo("csw") /\ halted' = halted
          /\ \/ Arrives /\ sent' = Tail(sent) /\ mbuf' = Stored(Head(sent))
             \/ sent' = sent /\ mbuf' = mbuf
      BY <2>5, Zenon DEF ReceiveData, MscAt
    <3>2. sent' \in Seq(Packet) /\ halted' \in BOOLEAN
      BY <2>b, <3>1, Zenon DEF Arrives
    <3>3. job' = job /\ cmd'.kind = cmd.kind /\ cmd'.at = "csw" /\ cmd'.chunk = cmd.chunk
      BY <2>b, <3>1, Zenon DEF MscGo, CmdType
    <3>4. job.op = "read" => mbuf' \in [1 .. job.n -> Int] /\ Filled(job.chunks[1][3])'
      <4>1. CASE sent' = sent /\ mbuf' = mbuf
        BY <2>a, <3>3, <4>1, Zenon DEF MscControl, Filled
      <4>2. CASE Arrives /\ mbuf' = Stored(Head(sent))
        BY <2>a, <2>b, <3>3, <4>2, StoredChunk, Zenon DEF Arrives
      <4> QED BY <3>1, <4>1, <4>2, Zenon
    <3>5. ASSUME cmd.kind = "read", sent' # <<>>, Succeeds(Head(sent'))
          PROVE  Filled(job.chunks[1][3] + job.chunks[1][2])'
      <4>1. job.op = "read"
        BY <2>a, <2>b, <3>1, <3>5, Zenon DEF MscControl, JobType, Ops
      <4>2. Answered \/ Outdated
        BY <2>a, <3>1, <3>5, Zenon DEF MscPackets
      <4>3. ~Outdated
        <5>1. Outdated => \A i \in DOMAIN sent' : ~sent'[i].own
          BY <2>b, <3>1 DEF Outdated, Arrives
        <5>2. 1 \in DOMAIN sent' /\ Head(sent') = sent'[1]
          BY <3>2, <3>5
        <5> QED BY <3>5, <5>1, <5>2, Zenon DEF Succeeds, Malformed
      <4>4. PICK a \in Answers("read", cmd.chunk) : sent = a.q
        BY <4>2, <4>3, Zenon DEF Answered
      <4>5. CASE sent = <<Data(cmd.chunk[1], TRUE), Csw(0, FALSE)>>
        <5>1. Head(sent).kind = "data" /\ Head(sent) = Data(cmd.chunk[1], TRUE)
          BY <4>5 DEF Data
        <5>2. Arrives /\ mbuf' = Stored(Head(sent))
          BY <3>1, <3>5, <5>1, Zenon DEF Succeeds, Malformed
        <5> QED BY <2>a, <2>b, <3>3, <3>5, <4>1, <5>1, <5>2, StoredChunk, Zenon DEF Arrives
      <4>6. CASE sent = <<Data(cmd.chunk[1], FALSE), Csw(0, TRUE)>>
        <5>0. \A x, y : Tail(<<x, y>>) = <<y>> /\ Head(<<x, y>>) = x /\ Head(<<y>>) = y
          OBVIOUS
        <5>1. sent' = sent \/ sent' = <<Csw(0, TRUE)>>
          BY <3>1, <4>6, <5>0, Zenon
        <5>2. Head(sent') = Data(cmd.chunk[1], FALSE) \/ Head(sent') = Csw(0, TRUE)
          BY <4>6, <5>0, <5>1, ZenonT(60)
        <5> QED BY <3>5, <5>2 DEF Succeeds, Malformed, Data, Csw
      <4>7. CASE \E status \in {1, 2} : sent = <<Csw(status, TRUE)>>
        <5>1. PICK status \in {1, 2} : sent = <<Csw(status, TRUE)>>
          BY <4>7, Zenon
        <5>0. \A x : Tail(<<x>>) = <<>> /\ Head(<<x>>) = x
          OBVIOUS
        <5>2. sent' = sent \/ sent' = <<>>
          BY <3>1, <5>0, <5>1, Zenon
        <5>3. Head(sent') = Csw(status, TRUE)
          BY <3>5, <5>0, <5>1, <5>2, Zenon
        <5> QED BY <3>5, <5>3 DEF Succeeds, Csw
      <4>8. HasData("read")
        BY Zenon DEF HasData
      <4>9. \/ sent = <<Data(cmd.chunk[1], TRUE), Csw(0, FALSE)>>
            \/ sent = <<Data(cmd.chunk[1], FALSE), Csw(0, TRUE)>>
            \/ sent = <<Csw(1, TRUE)>> \/ sent = <<Csw(2, TRUE)>>
        <5>1. \/ a = [q |-> <<Data(cmd.chunk[1], TRUE), Csw(0, FALSE)>>, halt |-> FALSE]
              \/ a = [q |-> <<Data(cmd.chunk[1], FALSE), Csw(0, TRUE)>>, halt |-> FALSE]
              \/ a = [q |-> <<Csw(1, TRUE)>>, halt |-> TRUE]
              \/ a = [q |-> <<Csw(2, TRUE)>>, halt |-> FALSE]
          BY <4>8, AnswerFields, Zenon
        <5>2. \A s, h : a = [q |-> s, halt |-> h] => sent = s
          BY <4>4, AnswerFields, Zenon
        <5> QED BY <5>1, <5>2, Zenon
      <4> QED BY <4>5, <4>6, <4>7, <4>9, Zenon
    <3>6. MscPackets'
      BY <3>3, <3>5, Zenon DEF MscPackets
    <3> QED BY <2>a, <3>1, <3>2, <3>4, <3>6, GoKeeps, Zenon
  <2>6. CASE CswAgain
    <3>1. /\ ~Resting /\ cmd.at = "csw" /\ MscGo("csw again") /\ halted' \in {FALSE, halted}
          /\ sent' = sent /\ mbuf' = mbuf
      BY <2>6, Zenon DEF CswAgain, MscAt
    <3>2. job' = job /\ cmd'.kind = cmd.kind /\ cmd'.at = "csw again" /\ halted' \in BOOLEAN
      BY <2>b, <3>1, Zenon DEF MscGo, CmdType
    <3>3. MscPackets'
      BY <2>a, <3>1, <3>2, Zenon DEF MscPackets, Filled
    <3>4. job.op = "read" => mbuf' \in [1 .. job.n -> Int] /\ Filled(job.chunks[1][3])'
      BY <2>a, <3>1, <3>2, Zenon DEF MscControl, Filled
    <3> QED BY <2>a, <2>b, <3>1, <3>2, <3>3, <3>4, GoKeeps, Zenon
  <2>7. CASE CswLost
    <3>1. /\ ~Resting /\ mbuf' = mbuf /\ halted' = FALSE /\ (sent' = <<>> \/ sent' = sent)
          /\ MscResult("fail") \/ MscResult("detached")
      BY <2>7, Zenon DEF CswLost, MscAt, reset_transport
    <3>2. sent' \in Seq(Packet) /\ halted' \in BOOLEAN
      BY <2>b, <3>1, RestType, Zenon
    <3> QED BY <2>a, <2>c, <3>1, <3>2, MscResultKeeps, Zenon
  <2>8. CASE ReceiveCsw
    <3> DEFINE p == Head(sent)
    <3>1. /\ ~Resting /\ cmd.at \in {"csw", "csw again"} /\ sent # <<>>
      BY <2>8, Zenon DEF ReceiveCsw, MscAt, Arrives
    <3>2. <<>> \in Seq(Packet) /\ Tail(sent) \in Seq(Packet)
      BY <2>b, <3>1, RestType, Zenon
    <3>3. CASE TakenReset
      <4>1. /\ mbuf' = mbuf /\ halted' = halted /\ (sent' = <<>> \/ sent' = Tail(sent))
            /\ MscResult("fail") \/ MscResult("detached")
        BY <3>3, Zenon DEF TakenReset
      <4>2. sent' \in Seq(Packet) /\ halted' \in BOOLEAN
        BY <2>b, <3>2, <4>1, Zenon
      <4> QED BY <2>a, <2>c, <3>1, <4>1, <4>2, MscResultKeeps, Zenon
    <3>4. ASSUME NEW r \in Outcomes, Taken(r),
                 r = "ok" /\ cmd.kind = "read" => Succeeds(p)
          PROVE  MscInv'
      <4>1. /\ mbuf' = mbuf /\ halted' = halted /\ sent' = Tail(sent) /\ MscResult(r)
        BY <3>4, Zenon DEF Taken
      <4>2. r = "ok" /\ cmd.kind = "read" => Filled(job.chunks[1][3] + job.chunks[1][2])
        BY <2>a, <3>1, <3>4, Zenon DEF MscPackets
      <4> QED BY <2>a, <2>b, <3>1, <3>2, <4>1, <4>2, MscResultKeeps, Zenon
    <3>5. CASE ~Malformed(p) /\ cmd.kind = "spin" /\ Taken("ok")
      BY <2>c, <3>4, <3>5, Zenon
    <3>6. CASE /\ ~Malformed(p) /\ p.status = 0
               /\ Taken(IF ~p.residue \/ ResidueOk(cmd.kind) THEN "ok" ELSE "fail")
      <4>1. CASE ~p.residue
        BY <2>c, <3>4, <3>6, <4>1, Zenon DEF Succeeds
      <4>2. CASE p.residue /\ ResidueOk(cmd.kind)
        BY <2>c, <3>4, <3>6, <4>2, Zenon DEF ResidueOk
      <4>3. CASE p.residue /\ ~ResidueOk(cmd.kind)
        BY <2>c, <3>4, <3>6, <4>3, Zenon
      <4> QED BY <4>1, <4>2, <4>3, Zenon
    <3>7. CASE Taken("fail")
      BY <2>c, <3>4, <3>7, Zenon
    <3>8. CASE /\ cmd.kind \notin {"spin", "sense"} /\ outer' = cmd.kind
               /\ cmd' = MscCommand("sense", <<0, 0, 0>>) /\ sent' = Tail(sent)
               /\ UNCHANGED <<msc, job, halted, mbuf>>
      <4>1. cmd' \in CmdType /\ cmd'.kind = "sense"
        BY <3>8, CommandType, Zenon
      <4>2. MscTypeOK'
        BY <2>b, <3>2, <3>8, <4>1, Zenon DEF MscTypeOK
      <4>3. MscControl'
        BY <2>a, <3>1, <3>8, <4>1, Zenon DEF MscControl, Resting, Filled
      <4>4. MscPackets' /\ SuccessMeansRead'
        BY <2>a, <3>1, <3>8, <4>1, Zenon DEF MscPackets, SuccessMeansRead, Resting
      <4> QED BY <4>2, <4>3, <4>4, Zenon DEF MscInv
    <3> QED BY <2>8, <3>3, <3>5, <3>6, <3>7, <3>8, Zenon DEF ReceiveCsw
  <2>9. CASE UNCHANGED mscVars
    BY <2>a, <2>9, ZenonT(60) DEF mscVars, MscInv, MscTypeOK, MscControl, MscPackets, SuccessMeansRead, Resting,
                      Filled, Answered, Outdated
  <2> QED BY <2>1, <2>2, <2>3, <2>4, <2>5, <2>6, <2>7, <2>8, <2>9, Zenon DEF MscNext
<1> QED BY <1>1, <1>2, PTL DEF MscSpec

\* A read that succeeds has read every block, and no command goes to a device that
\* has been detached, when clients do not use a disk that is gone.
THEOREM MscAlwaysSound ==
  ASSUME ~StaleClients
  PROVE  MscSpec => []MscSound
<1>1. MscInv => MscSound
  BY Zenon DEF MscInv, MscControl, MscSound, NoUseAfterDetach, MscAt
<1> QED BY <1>1, MscInvariant, PTL
-----------------------------------------------------------------------------
\* Safety of the SD host controller driver: the types of its variables.
SdNames == {"none", "go idle", "if cond", "app", "op cond", "cid", "address", "csd", "select",
            "bus width", "block length", "read"}
SdCommandType == [name : SdNames, arg : Int, len : Int]
SdStates == {"idle", "ready", "ident", "stby", "tran"}
SdHostType == [inhibit : BOOLEAN, cc : BOOLEAN, tc : BOOLEAN, active : SdCommandType, data : BOOLEAN]
SdDeviceType == [type : {"sd2", "legacy", "mmc"}, high : BOOLEAN, addr : {0, 1}, created : BOOLEAN]
SdJobType == [op : {"idle", "init", "read"}, step : 0 .. 11, tries : Int, at : Int, left : Int,
              block : Int, n : Int, was : {"", "init", "read"}, ok : BOOLEAN]
SdPlaceType == [cmd : SdCommandType, at : {"", "inhibit", "complete", "transfer"}]
SdCardType == [kind : SdCards \cup {"none"}, state : SdStates, app : BOOLEAN]

\* The type invariant.
SdTypeOK ==
  /\ sdhc \in SdDeviceType /\ sdjob \in SdJobType /\ sdcmd \in SdPlaceType
  /\ sdhost \in SdHostType /\ sdcard \in SdCardType /\ sdresp \subseteq {"ready", "ccs"}
  /\ sdbounce \in [1 .. SdBuffer -> Int]

\* The controller has no command.
Free == sdhost.active = SdNone

\* The state in which a card is before command k of the initialisation.
StateAt(k) ==
  IF k = 5 THEN "ready" ELSE IF k = 6 THEN "ident" ELSE IF k \in {7, 8} THEN "stby" ELSE "tran"

\* What is known of the card once it has answered command k.
Heard(k) ==
  /\ sdcard.kind # "mmc"
  /\ k = 4 /\ "ready" \in sdresp =>
       sdcard.state = "ready" /\ ("ccs" \in sdresp <=> sdcard.kind = "high")
  /\ k >= 5 => sdcard.state = StateAt(k + 1)

\* What is known of an SD card before command k.
Known(k) ==
  /\ k >= 4 => sdcard.kind # "mmc"
  /\ k >= 5 => (sdhc.high <=> sdcard.kind = "high")
  /\ k >= 7 => sdhc.addr = 1

\* The initialisation.  From command 4 on it waits for the answer to each command
\* before it sends the next, so the card has just this one; "mmc" never gets past
\* command 8.
SdStarts ==
  LET k == sdjob.step IN
  sdjob.op = "init" =>
    /\ ~sdhc.created /\ ~sdhost.data /\ k >= 1 /\ sdcmd.cmd.name = Commands[k]
    /\ sdcard.kind \in SdCards /\ sdjob.was # "read"
    /\ sdcmd.at \in {"inhibit", "complete"}
    /\ sdhost.active.name # "read"
    /\ sdcmd.at = "complete" => Free \/ (sdhost.active = sdcmd.cmd /\ ~sdhost.cc)
    /\ sdhc.type = "mmc" => k <= 8
    /\ sdhc.type # "mmc" =>
         /\ Known(k)
         /\ k >= 4 /\ sdcmd.at = "inhibit" => Free
         /\ k >= 5 /\ ~(sdcmd.at = "complete" /\ Free) => sdcard.state = StateAt(k)
         /\ k >= 3 /\ sdcmd.at = "complete" /\ sdhost.cc => Heard(k)

\* A disk: its card is ready, and only reads are under way.
SdDisk ==
  sdhc.created =>
    /\ DiskMeansCard /\ sdcard.kind \in SdCards \ {"mmc"} /\ sdjob.op # "init"
    /\ Free \/ sdhost.active.name = "read"

\* sdhc->buffer has the blocks that command c asks for.
Bounced(c) == \A i \in 1 .. c.len : sdbounce[i] = FirstBlock(c.arg) + i - 1

\* A read.  The status of an older command is cleared before its own is issued, and
\* its transfer has filled sdhc->buffer when it is complete.
SdReads ==
  /\ sdhost.data => sdhost.active.name = "read"
  /\ sdjob.was = "read" => sdcard.kind \in SdCards \ {"mmc"}
  /\ sdjob.op = "read" =>
       /\ sdhc.created /\ sdbuf \in [1 .. sdjob.n -> Int] /\ sdjob.left >= 1
       /\ sdjob.at + sdjob.left = sdjob.block + sdjob.n
       /\ sdcmd.cmd = [name |-> "read", arg |-> sdjob.at, len |-> SdLen(sdjob.left)]
       /\ sdcmd.at \in {"complete", "transfer"} =>
            \/ sdhost.active = sdcmd.cmd /\ ~sdhost.tc
            \/ Free /\ (sdhost.tc => Bounced(sdcmd.cmd))

SdInv == SdTypeOK /\ SdStarts /\ SdDisk /\ SdReads

\* The buffer is right up to place k.
SdFilled(k) == \A i \in 1 .. sdjob.n : i <= k => sdbuf[i] = sdjob.block + i - 1

\* Reads from a card of high capacity, whose commands count blocks.
SdFill ==
  sdcard.kind = "high" =>
    SdReadsRight /\ (sdjob.op = "read" => SdFilled(sdjob.at - sdjob.block))

\* The commands by name, and how a card that answers them gets from state to state.
LEMMA CommandNames ==
  /\ \A k \in 1 .. 11 : Commands[k] \in SdNames \ {"none", "read"}
  /\ Commands[1] = "go idle" /\ Commands[2] = "if cond" /\ Commands[3] = "app" /\ Commands[4] = "op cond"
  /\ \A k \in 5 .. 11 : Commands[k] \notin {"op cond", "if cond"}
<1>1. /\ Commands[1] = "go idle" /\ Commands[2] = "if cond" /\ Commands[3] = "app"
      /\ Commands[4] = "op cond" /\ Commands[5] = "cid" /\ Commands[6] = "address"
      /\ Commands[7] = "csd" /\ Commands[8] = "select" /\ Commands[9] = "app"
      /\ Commands[10] = "bus width" /\ Commands[11] = "block length"
  BY Zenon DEF Commands
<1>2. \A k \in 1 .. 11 : \/ k = 1 \/ k = 2 \/ k = 3 \/ k = 4 \/ k = 5 \/ k = 6 \/ k = 7 \/ k = 8
                         \/ k = 9 \/ k = 10 \/ k = 11
  OBVIOUS
<1>3. \A k \in 1 .. 11 : Commands[k] \in SdNames \ {"none", "read"}
  BY <1>1, <1>2, Zenon DEF SdNames
<1>4. \A k \in 5 .. 11 : \/ k = 5 \/ k = 6 \/ k = 7 \/ k = 8 \/ k = 9 \/ k = 10 \/ k = 11
  OBVIOUS
<1>5. \A k \in 5 .. 11 : Commands[k] \notin {"op cond", "if cond"}
  BY <1>1, <1>4, Zenon
<1> QED BY <1>1, <1>3, <1>5, Zenon

\* A card that answers command k from 5 on is ready for the next.
LEMMA CommandStates ==
  \A k \in 5 .. 11 : \A state : state = StateAt(k) => After(Commands[k], state) = StateAt(k + 1)
<1>1. /\ Commands[5] = "cid" /\ Commands[6] = "address"
      /\ Commands[7] = "csd" /\ Commands[8] = "select" /\ Commands[9] = "app"
      /\ Commands[10] = "bus width" /\ Commands[11] = "block length"
  BY Zenon DEF Commands
<1>3. \A state : /\ After(Commands[5], state) = "ident" /\ After(Commands[6], state) = "stby"
                 /\ After(Commands[7], state) = state /\ After(Commands[8], state) = "tran"
                 /\ After(Commands[9], state) = state /\ After(Commands[10], state) = state
                 /\ After(Commands[11], state) = state
  <2>5. \A state : After(Commands[5], state) = "ident"
    BY <1>1, Zenon DEF After
  <2>6. \A state : After(Commands[6], state) = "stby"
    BY <1>1, Zenon DEF After
  <2>7. \A state : After(Commands[7], state) = state
    BY <1>1, Zenon DEF After
  <2>8. \A state : After(Commands[8], state) = "tran"
    BY <1>1, Zenon DEF After
  <2>9. \A state : After(Commands[9], state) = state
    BY <1>1, Zenon DEF After
  <2>10. \A state : After(Commands[10], state) = state
    BY <1>1, Zenon DEF After
  <2>11. \A state : After(Commands[11], state) = state
    BY <1>1, Zenon DEF After
  <2> QED BY <2>5, <2>6, <2>7, <2>8, <2>9, <2>10, <2>11, Zenon
<1>4. \A k \in 5 .. 11 : \/ k = 5 \/ k = 6 \/ k = 7 \/ k = 8 \/ k = 9 \/ k = 10 \/ k = 11
  OBVIOUS
<1>5. \A k \in 5 .. 11 : \A state :
        After(Commands[k], state) = IF k = 5 THEN "ident" ELSE IF k = 6 THEN "stby"
                                    ELSE IF k = 8 THEN "tran" ELSE state
  <2> TAKE k \in 5 .. 11
  <2>1. /\ k = 6 => k # 5
        /\ k = 8 => k # 5 /\ k # 6
        /\ k = 7 \/ k = 9 \/ k = 10 \/ k = 11 => k # 5 /\ k # 6 /\ k # 8
    OBVIOUS
  <2>2. CASE k = 5 \/ k = 6
    BY <1>3, <2>1, <2>2, ZenonT(60)
  <2>3. CASE k = 7 \/ k = 8
    BY <1>3, <2>1, <2>3, ZenonT(60)
  <2>4. CASE k = 9 \/ k = 10 \/ k = 11
    BY <1>3, <2>1, <2>4, ZenonT(60)
  <2> QED BY <1>4, <2>2, <2>3, <2>4, Zenon
<1> QED BY <1>4, <1>5 DEF StateAt

\* No command.
LEMMA NoneType == SdNone \in SdCommandType /\ SdNone.name = "none"
<1>1. 0 \in Int /\ "none" \in SdNames
  BY DEF SdNames
<1> QED BY <1>1, Zenon DEF SdNone, SdCommandType

\* A call that ends.
LEMMA EndFields ==
  ASSUME SdTypeOK, sdjob.op # "idle", NEW ok \in BOOLEAN, SdEnd(ok)
  PROVE  /\ sdjob' \in SdJobType /\ sdjob'.op = "idle" /\ sdjob'.was = sdjob.op /\ sdjob'.ok = ok
         /\ sdjob'.n = sdjob.n /\ sdjob'.block = sdjob.block /\ sdcmd' \in SdPlaceType
<1>1. /\ sdjob' = [sdjob EXCEPT !.op = "idle", !.was = sdjob.op, !.ok = ok, !.step = 0, !.tries = 0]
      /\ sdcmd' = [cmd |-> SdNone, at |-> ""]
  BY Zenon DEF SdEnd
<1>2. sdjob \in SdJobType
  BY Zenon DEF SdTypeOK
<1>3. /\ sdjob' \in SdJobType /\ sdjob'.op = "idle" /\ sdjob'.was = sdjob.op /\ sdjob'.ok = ok
      /\ sdjob'.n = sdjob.n /\ sdjob'.block = sdjob.block
  <2>1. 0 \in Int /\ 0 \in 0 .. 11
    OBVIOUS
  <2>2. sdjob.op \in {"", "init", "read"}
    BY <1>2, Zenon DEF SdJobType
  <2> QED BY <1>1, <1>2, <2>1, <2>2, Zenon DEF SdJobType
<1>4. sdcmd' \in SdPlaceType
  BY <1>1, NoneType, Zenon DEF SdPlaceType
<1> QED BY <1>3, <1>4, Zenon

\* A call that ends without a disk.
LEMMA SdEndKeeps ==
  ASSUME SdTypeOK, SdReads, sdjob.op = "init", NEW ok \in BOOLEAN, SdEnd(ok),
         sdhc' \in SdDeviceType, ~sdhc'.created,
         sdhost' \in SdHostType, sdhost'.data => sdhost'.active.name = "read",
         UNCHANGED <<sdresp, sdcard, sdbounce>>
  PROVE  SdInv'
<1>1. sdjob' \in SdJobType /\ sdjob'.op = "idle" /\ sdjob'.was = "init" /\ sdcmd' \in SdPlaceType
  BY EndFields, Zenon
<1> QED BY <1>1, Zenon DEF SdInv, SdTypeOK, SdStarts, SdDisk, SdReads

\* What SdStep leaves.
LEMMA SdStepFields ==
  ASSUME SdTypeOK, sdjob.op = "init", NEW j \in 1 .. 11, SdStep(j), sdhc'.addr \in {0, 1}
  PROVE  /\ sdjob' \in SdJobType /\ sdjob'.op = "init" /\ sdjob'.step = j /\ sdjob'.was = sdjob.was
         /\ sdcmd' \in SdPlaceType /\ sdcmd'.at = "inhibit" /\ sdcmd'.cmd.name = Commands[j]
<1>1. sdjob \in SdJobType /\ j \in 0 .. 11 /\ sdjob' = [sdjob EXCEPT !.step = j]
  BY DEF SdTypeOK, SdStep
<1>2. sdjob' \in SdJobType /\ sdjob'.op = "init" /\ sdjob'.step = j /\ sdjob'.was = sdjob.was
  BY <1>1, Zenon DEF SdJobType
<1>3. sdcmd' = [cmd |-> [name |-> Commands[j], arg |-> sdhc'.addr, len |-> 0], at |-> "inhibit"]
  BY Zenon DEF SdStep, SdSend
<1>4. Commands[j] \in SdNames
  BY CommandNames, Zenon
<1>5. 0 \in Int /\ sdhc'.addr \in Int
  OBVIOUS
<1>6. sdcmd' \in SdPlaceType /\ sdcmd'.at = "inhibit" /\ sdcmd'.cmd.name = Commands[j]
  BY <1>3, <1>4, <1>5, Zenon DEF SdPlaceType, SdCommandType
<1> QED BY <1>2, <1>6, Zenon

\* The next command of the initialisation leaves the invariant true.
LEMMA NextCommandKeeps ==
  ASSUME SdTypeOK, SdStarts, sdjob.op = "init", NEW j \in 1 .. 11,
         sdjob' \in SdJobType, sdjob'.op = "init", sdjob'.step = j, sdjob'.was = sdjob.was,
         sdcmd' \in SdPlaceType, sdcmd'.at = "inhibit", sdcmd'.cmd.name = Commands[j],
         sdhc' \in SdDeviceType, ~sdhc'.created, sdhost' \in SdHostType, ~sdhost'.data,
         sdhost'.active = sdhost.active, UNCHANGED <<sdresp, sdcard, sdbounce>>,
         sdhc'.type = "mmc" => j <= 8,
         sdhc'.type # "mmc" =>
           /\ j >= 4 => Free /\ sdcard.kind # "mmc"
           /\ j >= 5 => sdcard.state = StateAt(j) /\ (sdhc'.high <=> sdcard.kind = "high")
           /\ j >= 7 => sdhc'.addr = 1
  PROVE  SdInv'
<1>1. SdTypeOK'
  BY Zenon DEF SdTypeOK
<1>2. SdStarts'
  BY DEF SdStarts, Free, Known
<1>3. SdDisk' /\ SdReads'
  BY Zenon DEF SdDisk, SdReads, SdStarts
<1> QED BY <1>1, <1>2, <1>3, Zenon DEF SdInv

\* A result of a command of the initialisation leaves the invariant true, if an
\* answer that counts is the card's answer to this command.
LEMMA InitResultKeeps ==
  ASSUME SdInv, sdjob.op = "init", NEW ok \in BOOLEAN, InitResult(ok),
         sdhost' \in SdHostType, sdhost'.active = sdhost.active, sdhost'.data = sdhost.data,
         UNCHANGED <<sdresp, sdcard, sdbounce>>,
         ok => Free /\ (sdhc.type # "mmc" /\ sdjob.step >= 3 => Heard(sdjob.step))
  PROVE  SdInv'
<1> DEFINE k == sdjob.step
<1>a. SdTypeOK /\ SdStarts /\ SdReads
  BY Zenon DEF SdInv
<1>b. /\ ~sdhc.created /\ ~sdhost'.data /\ k \in 1 .. 11 /\ sdhc \in SdDeviceType
      /\ sdcard.kind \in SdCards
      /\ sdhc.type = "mmc" => k <= 8
      /\ sdhc.type # "mmc" => Known(k)
  <2>1. sdjob.step \in 0 .. 11 /\ sdhc \in SdDeviceType
    BY <1>a, Zenon DEF SdTypeOK, SdJobType
  <2>2. /\ ~sdhc.created /\ ~sdhost.data /\ k >= 1 /\ sdcard.kind \in SdCards
        /\ sdhc.type = "mmc" => k <= 8
        /\ sdhc.type # "mmc" => Known(k)
    BY <1>a, Zenon DEF SdStarts
  <2>3. k \in 1 .. 11
    BY <2>1, <2>2
  <2> QED BY <2>1, <2>2, <2>3, Zenon
<1>c. ASSUME SdEnd(FALSE), sdhc' \in SdDeviceType, ~sdhc'.created PROVE SdInv'
  BY <1>a, <1>b, <1>c, SdEndKeeps, Zenon
<1>d. ASSUME NEW j \in 1 .. 11, SdStep(j), sdhc' \in SdDeviceType, ~sdhc'.created,
             sdhc'.type = "mmc" => j <= 8,
             sdhc'.type # "mmc" =>
               /\ j >= 4 => Free /\ sdcard.kind # "mmc"
               /\ j >= 5 => sdcard.state = StateAt(j) /\ (sdhc'.high <=> sdcard.kind = "high")
               /\ j >= 7 => sdhc'.addr = 1
      PROVE  SdInv'
  <2>1. sdhc'.addr \in {0, 1}
    BY <1>d, Zenon DEF SdDeviceType
  <2>2. /\ sdjob' \in SdJobType /\ sdjob'.op = "init" /\ sdjob'.step = j /\ sdjob'.was = sdjob.was
        /\ sdcmd' \in SdPlaceType /\ sdcmd'.at = "inhibit" /\ sdcmd'.cmd.name = Commands[j]
    BY <1>a, <1>d, <2>1, SdStepFields, Zenon
  <2> QED BY <1>a, <1>b, <1>d, <2>2, NextCommandKeeps, Zenon
<1> HIDE DEF k
<1>e. HighCapacity \in BOOLEAN
  BY DEF HighCapacity
<1>1. CASE k = 2 /\ sdhc' = [sdhc EXCEPT !.type = IF ok THEN @ ELSE "legacy"] /\ SdStep(3)
  <2>1. sdhc' \in SdDeviceType /\ ~sdhc'.created /\ sdhc'.type = IF ok THEN sdhc.type ELSE "legacy"
    BY <1>1, <1>b, Zenon DEF SdDeviceType
  <2> QED BY <1>1, <1>d, <2>1
<1>2. CASE k = 3 /\ ok /\ UNCHANGED sdhc /\ SdStep(4)
  BY <1>2, <1>b, <1>d DEF k, Heard
<1>3. CASE (k = 4 \/ (k = 3 /\ ~ok)) /\ OpCondResult(ok)
  <2>1. CASE /\ ~ok /\ sdhc.type = "legacy"
             /\ sdhc' = [sdhc EXCEPT !.type = "mmc", !.high = IF "ready" \in sdresp THEN HighCapacity ELSE @]
             /\ IF "ready" \in sdresp THEN SdStep(5) ELSE SdEnd(FALSE)
    <3>1. sdhc' \in SdDeviceType /\ ~sdhc'.created /\ sdhc'.type = "mmc"
      BY <1>b, <1>e, <2>1, Zenon DEF SdDeviceType
    <3>2. CASE "ready" \in sdresp
      <4>1. SdStep(5) /\ 5 \in 1 .. 11 /\ 5 <= 8
        BY <2>1, <3>2
      <4> QED BY <1>d, <3>1, <4>1, Zenon
    <3>3. CASE "ready" \notin sdresp
      BY <1>c, <2>1, <3>1, <3>3, Zenon
    <3> QED BY <3>2, <3>3, Zenon
  <2>2. CASE ~ok /\ sdhc.type # "legacy" /\ UNCHANGED sdhc /\ SdEnd(FALSE)
    BY <1>b, <1>c, <2>2, Zenon
  <2>3. CASE ok /\ "ready" \in sdresp /\ sdhc' = [sdhc EXCEPT !.high = HighCapacity] /\ SdStep(5)
    <3>1. /\ sdhc' \in SdDeviceType /\ ~sdhc'.created /\ sdhc'.type = sdhc.type
          /\ sdhc'.high <=> "ccs" \in sdresp
      <4>1. sdhc'.high = HighCapacity /\ sdhc' \in SdDeviceType /\ ~sdhc'.created /\ sdhc'.type = sdhc.type
        BY <1>b, <1>e, <2>3, Zenon DEF SdDeviceType
      <4> QED BY <4>1, Zenon DEF HighCapacity
    <3>2. k = 4
      BY <1>3, <2>3, Zenon
    <3> QED BY <1>d, <2>3, <3>1, <3>2 DEF k, Heard, StateAt
  <2>4. CASE ok /\ "ready" \notin sdresp /\ UNCHANGED sdhc /\ sdjob.tries = 1 /\ SdEnd(FALSE)
    BY <1>b, <1>c, <2>4, Zenon
  <2>5. CASE /\ ok /\ "ready" \notin sdresp /\ UNCHANGED sdhc
             /\ sdjob' = [sdjob EXCEPT !.step = 3, !.tries = TriesLeft] /\ SdSend("app", 0, 0)
    <3>1. sdjob' \in SdJobType /\ sdjob'.op = "init" /\ sdjob'.step = 3 /\ sdjob'.was = sdjob.was
      <4>1. sdjob \in SdJobType /\ sdjob.tries \in Int
        BY <1>a, Zenon DEF SdTypeOK, SdJobType
      <4>2. 3 \in 0 .. 11 /\ TriesLeft \in Int
        BY <4>1 DEF TriesLeft
      <4> QED BY <2>5, <4>1, <4>2, Zenon DEF SdJobType
    <3>2. sdcmd' \in SdPlaceType /\ sdcmd'.at = "inhibit" /\ sdcmd'.cmd.name = Commands[3]
      <4>1. sdcmd' = [cmd |-> [name |-> "app", arg |-> 0, len |-> 0], at |-> "inhibit"]
        BY <2>5, Zenon DEF SdSend
      <4>2. Commands[3] = "app" /\ "app" \in SdNames /\ 0 \in Int
        BY DEF Commands, SdNames
      <4> QED BY <4>1, <4>2, Zenon DEF SdPlaceType, SdCommandType
    <3> QED BY <1>a, <1>b, <2>5, <3>1, <3>2, NextCommandKeeps
  <2> QED BY <1>3, <2>1, <2>2, <2>3, <2>4, <2>5, Zenon DEF OpCondResult
<1>4. CASE ~ok /\ UNCHANGED sdhc /\ SdEnd(FALSE)
  BY <1>4, <1>b, <1>c, Zenon
<1>5. CASE k = 5 /\ ok /\ UNCHANGED sdhc /\ SdStep(IF sdhc.type = "mmc" THEN 7 ELSE 6)
  BY <1>5, <1>b, <1>d DEF k, Known, Heard
<1>6. CASE k = 6 /\ ok /\ sdhc' = [sdhc EXCEPT !.addr = 1] /\ SdStep(7)
  <2>1. /\ sdhc' \in SdDeviceType /\ ~sdhc'.created /\ sdhc'.type = sdhc.type
        /\ sdhc'.high = sdhc.high /\ sdhc'.addr = 1
    BY <1>6, <1>b, Zenon DEF SdDeviceType
  <2> QED BY <1>6, <1>b, <1>d, <2>1 DEF k, Known, Heard
<1>7. CASE k \in {1, 7, 9} /\ ok /\ UNCHANGED sdhc /\ SdStep(k + 1)
  <2>1. k + 1 \in 1 .. 11 /\ (k + 1 >= 4 => k >= 7) /\ (sdhc.type = "mmc" => k + 1 <= 8)
    BY <1>7, <1>b
  <2> QED BY <1>7, <1>b, <1>d, <2>1 DEF k, Known, Heard
<1>8. CASE k = 8 /\ ok /\ UNCHANGED sdhc /\ IF sdhc.type = "mmc" THEN SdEnd(FALSE) ELSE SdStep(9)
  <2>1. CASE sdhc.type = "mmc"
    BY <1>8, <1>b, <1>c, <2>1, Zenon
  <2>2. CASE sdhc.type # "mmc"
    BY <1>8, <1>b, <1>d, <2>2 DEF k, Known, Heard
  <2> QED BY <2>1, <2>2, Zenon
<1>9. CASE k = 10 /\ ok /\ UNCHANGED sdhc /\ SdStep(11)
  BY <1>9, <1>b, <1>d DEF k, Known, Heard
<1>10. CASE k = 11 /\ ok /\ sdhc' = [sdhc EXCEPT !.created = TRUE] /\ SdEnd(TRUE)
  <2>1. /\ sdhc' \in SdDeviceType /\ sdhc'.type = sdhc.type /\ sdhc'.high = sdhc.high
        /\ sdhc'.addr = sdhc.addr
    BY <1>10, <1>b, Zenon DEF SdDeviceType
  <2>2. /\ sdhc.type # "mmc" /\ sdcard.state = "tran" /\ sdcard.kind # "mmc"
        /\ sdhc.addr = 1 /\ (sdhc.high <=> sdcard.kind = "high")
    BY <1>10, <1>b DEF k, Known, Heard, StateAt
  <2>3. sdjob' \in SdJobType /\ sdjob'.op = "idle" /\ sdjob'.was = "init" /\ sdcmd' \in SdPlaceType
    BY <1>a, <1>10, EndFields, Zenon
  <2>4. SdTypeOK' /\ SdStarts' /\ SdReads'
    BY <1>a, <1>b, <2>1, <2>3, Zenon DEF SdTypeOK, SdStarts, SdReads
  <2>5. SdDisk'
    BY <1>10, <1>b, <2>1, <2>2, <2>3, Zenon DEF SdDisk, DiskMeansCard, Free
  <2> QED BY <2>4, <2>5, Zenon DEF SdInv
<1> QED BY <1>1, <1>2, <1>3, <1>4, <1>5, <1>6, <1>7, <1>8, <1>9, <1>10, Zenon DEF InitResult, k
-----------------------------------------------------------------------------
\* The command of the initialisation, and that of a read.
LEMMA CommandAtWork ==
  ASSUME SdInv
  PROVE  /\ sdjob.op = "init" => sdcmd.cmd.name # "read"
         /\ sdjob.op = "read" => sdcmd.cmd.name = "read"
         /\ sdhc.created /\ sdjob.op # "idle" => sdjob.op = "read"
<1>1. sdjob.op = "init" => sdjob.step >= 1 /\ sdcmd.cmd.name = Commands[sdjob.step]
  BY Zenon DEF SdInv, SdStarts
<1>2. sdjob.step \in 0 .. 11 /\ sdjob.op \in {"idle", "init", "read"}
  BY Zenon DEF SdInv, SdTypeOK, SdJobType
<1>3. sdjob.op = "init" => sdjob.step \in 1 .. 11
  BY <1>1, <1>2
<1>4. sdjob.op = "init" => sdcmd.cmd.name # "read"
  BY <1>1, <1>3, CommandNames, Zenon
<1>5. sdjob.op = "read" => sdcmd.cmd.name = "read"
  <2>1. sdjob.op = "read" => sdcmd.cmd = [name |-> "read", arg |-> sdjob.at, len |-> SdLen(sdjob.left)]
    BY Zenon DEF SdInv, SdReads
  <2> QED BY <2>1
<1>6. sdhc.created => sdjob.op # "init"
  BY Zenon DEF SdInv, SdDisk
<1> QED BY <1>2, <1>4, <1>5, <1>6, Zenon

\* A card's answer, or silence, is for the command in progress.
LEMMA RespondsKeeps == ASSUME SdInv, Responds PROVE SdInv'
<1> DEFINE c == sdhost.active  k == sdjob.step
<1>a. SdTypeOK /\ SdStarts /\ SdDisk /\ SdReads
  BY Zenon DEF SdInv
<1>b. c # SdNone /\ ~sdhost.data /\ Understood(c) /\ UNCHANGED <<sdhc, sdjob, sdcmd, sdbounce, sdbuf>>
  BY Zenon DEF Responds
<1>c. c \in SdCommandType /\ c.name \in SdNames /\ sdhost \in SdHostType /\ sdcard \in SdCardType
  BY <1>a, Zenon DEF SdTypeOK, SdHostType, SdCommandType
<1>d. sdhost' = [sdhost EXCEPT !.cc = TRUE, !.data = c.name = "read", !.inhibit = c.name = "read",
                               !.active = IF c.name = "read" THEN c ELSE SdNone]
  BY Zenon DEF Responds
<1>e. PICK done \in BOOLEAN :
        LET ready == c.name = "op cond" /\ done IN
        /\ sdcard' = [sdcard EXCEPT !.app = c.name = "app",
                                    !.state = IF ready THEN "ready" ELSE After(c.name, @)]
        /\ sdresp' = IF sdcmd.cmd # c \/ c.name \notin {"if cond", "op cond"} THEN sdresp
                     ELSE IF ~ready THEN {}
                     ELSE {"ready"} \cup IF sdcard.kind = "high" THEN {"ccs"} ELSE {}
  BY Zenon DEF Responds
<1> DEFINE ready == c.name = "op cond" /\ done
<1> HIDE DEF c, k
<1>1. /\ sdhost'.cc /\ sdhost' \in SdHostType /\ sdhost'.tc = sdhost.tc
      /\ c.name = "read" => sdhost'.active = c
      /\ c.name # "read" => sdhost'.active = SdNone /\ ~sdhost'.data
  <2>1. (c.name = "read") \in BOOLEAN /\ TRUE \in BOOLEAN
    BY Zenon
  <2>2. (IF c.name = "read" THEN c ELSE SdNone) \in SdCommandType
    BY <1>c, NoneType, Zenon
  <2> QED BY <1>c, <1>d, <2>1, <2>2, Zenon DEF SdHostType
<1>2. /\ sdcard' \in SdCardType /\ sdcard'.kind = sdcard.kind
      /\ sdcard'.state = IF ready THEN "ready" ELSE After(c.name, sdcard.state)
  <2>1. (c.name = "app") \in BOOLEAN
    BY Zenon
  <2>2. \A name, state : state \in SdStates => After(name, state) \in SdStates
    BY Zenon DEF After, SdStates
  <2>3. (IF ready THEN "ready" ELSE After(c.name, sdcard.state)) \in SdStates
    <3>1. "ready" \in SdStates
      BY Zenon DEF SdStates
    <3> QED BY <1>c, <2>2, <3>1, Zenon DEF SdCardType
  <2>4. sdcard' = [sdcard EXCEPT !.app = c.name = "app",
                                 !.state = IF ready THEN "ready" ELSE After(c.name, @)]
    BY <1>e, Zenon
  <2> HIDE DEF ready
  <2> QED BY <1>c, <2>1, <2>3, <2>4, Zenon DEF SdCardType
<1>3. sdresp' \subseteq {"ready", "ccs"}
  BY <1>a, <1>e, Zenon DEF SdTypeOK
<1>f. c.name # "op cond" => sdcard'.state = After(c.name, sdcard.state)
  BY <1>2, Zenon
<1>g. ready => sdcard'.state = "ready"
  BY <1>2, Zenon
<1>h. sdcmd.cmd = c /\ c.name = "op cond" =>
        sdresp' = IF ~ready THEN {} ELSE {"ready"} \cup IF sdcard.kind = "high" THEN {"ccs"} ELSE {}
  BY <1>e, Zenon
<1>i. sdcard'.kind = sdcard.kind
  BY <1>2, Zenon
<1>j. k' = k
  BY <1>b, Zenon DEF k
<1> HIDE DEF ready
<1>4. SdTypeOK'
  BY <1>a, <1>b, <1>1, <1>2, <1>3, Zenon DEF SdTypeOK
<1>5. ASSUME sdjob.op = "init" PROVE SdStarts'
  <2>1. c.name # "read" /\ sdhost'.active = SdNone /\ ~sdhost'.data
    BY <1>a, <1>1, <1>5, Zenon DEF SdStarts, c
  <2>2. /\ ~sdhc.created /\ k \in 1 .. 11 /\ sdcmd.cmd.name = Commands[k] /\ sdcard.kind \in SdCards
        /\ sdjob.was # "read" /\ sdcmd.at \in {"inhibit", "complete"} /\ (sdhc.type = "mmc" => k <= 8)
    <3>1. k \in 0 .. 11
      BY <1>a, Zenon DEF SdTypeOK, SdJobType, k
    <3>2. /\ ~sdhc.created /\ k >= 1 /\ sdcmd.cmd.name = Commands[k] /\ sdcard.kind \in SdCards
          /\ sdjob.was # "read" /\ sdcmd.at \in {"inhibit", "complete"} /\ (sdhc.type = "mmc" => k <= 8)
      BY <1>a, <1>5, Zenon DEF SdStarts, k
    <3> QED BY <3>1, <3>2
  <2>3. /\ sdcmd.at = "complete" => c = sdcmd.cmd
        /\ sdhc.type # "mmc" =>
             /\ Known(k)
             /\ k >= 4 => sdcmd.at = "complete"
             /\ k >= 5 => sdcard.state = StateAt(k)
    BY <1>a, <1>b, <1>5, Zenon DEF SdStarts, Free, c, k
  <2>4. ASSUME sdhc.type # "mmc", k >= 3, sdcmd.at = "complete" PROVE Heard(k)'
    <3>1. c = sdcmd.cmd /\ c.name = Commands[k]
      BY <2>2, <2>3, <2>4, Zenon
    <3>2. CASE k = 3
      <4>1. c.name = "app"
        BY <3>1, <3>2, Zenon DEF Commands
      <4>2. sdcard.kind # "mmc"
        BY <1>b, <4>1, Zenon DEF Understood
      <4> QED BY <1>i, <1>j, <3>2, <4>2 DEF Heard
    <3>3. CASE k = 4
      <4>1. c.name = "op cond"
        BY <3>1, <3>3, Zenon DEF Commands
      <4>2. sdcard.kind # "mmc"
        BY <2>3, <2>4, <3>3 DEF Known
      <4>3. "ready" \in sdresp' => ready /\ ("ccs" \in sdresp' <=> sdcard.kind = "high")
        <5>1. ~ready => sdresp' = {}
          BY <1>h, <3>1, <4>1, Zenon
        <5>2. ready /\ sdcard.kind = "high" => "ccs" \in sdresp'
          BY <1>h, <3>1, <4>1, Zenon
        <5>3. ready /\ sdcard.kind # "high" => "ccs" \notin sdresp'
          <6>1. ready /\ sdcard.kind # "high" => sdresp' = {"ready"} \cup {}
            BY <1>h, <3>1, <4>1, Zenon
          <6>2. "ccs" \notin {"ready"} \cup {}
            BY Zenon
          <6> QED BY <6>1, <6>2, Zenon
        <5> QED BY <5>1, <5>2, <5>3, Zenon
      <4> QED BY <1>g, <1>i, <1>j, <3>3, <4>2, <4>3 DEF Heard
    <3>4. CASE k >= 5
      <4>0. k \in 5 .. 11
        BY <2>2, <3>4
      <4>1. c.name # "op cond"
        BY <3>1, <4>0, CommandNames, Zenon
      <4>2. sdcard.kind # "mmc" /\ sdcard.state = StateAt(k)
        BY <2>2, <2>3, <2>4, <3>4 DEF Known
      <4>3. sdcard'.state = StateAt(k + 1)
        BY <1>f, <3>1, <4>0, <4>1, <4>2, CommandStates, Zenon
      <4> QED BY <1>i, <1>j, <3>4, <4>0, <4>2, <4>3 DEF Heard
    <3> QED BY <2>2, <2>4, <3>2, <3>3, <3>4
  <2>5. sdhc.type # "mmc" => Known(k)'
    BY <1>b, <1>2, <2>3, Zenon DEF Known, k
  <2>6. SdNone.name # "read"
    BY NoneType, Zenon
  <2>7. sdhc.type # "mmc" /\ k >= 4 /\ sdcmd.at = "inhibit" => FALSE
    BY <2>3, Zenon
  <2>8. sdhc.type # "mmc" /\ k >= 5 /\ ~(sdcmd.at = "complete") => FALSE
    BY <2>2, <2>3
  <2>9. k >= 1 /\ sdjob.step = k /\ sdjob' = sdjob /\ sdhc' = sdhc /\ sdcmd' = sdcmd
    BY <1>b, <2>2 DEF k
  <2> QED BY <1>i, <1>j, <2>1, <2>2, <2>4, <2>5, <2>6, <2>7, <2>8, <2>9, Zenon DEF SdStarts, Free
<1>6. SdDisk'
  <2> SUFFICES ASSUME sdhc.created PROVE SdDisk'
    BY <1>b, Zenon DEF SdDisk
  <2>1. c.name = "read"
    BY <1>a, <1>b, Zenon DEF SdDisk, Free, c
  <2>2. After("read", sdcard.state) = sdcard.state
    BY Zenon DEF After
  <2>3. sdcard'.state = sdcard.state
    BY <1>f, <2>1, <2>2, Zenon
  <2> QED BY <1>a, <1>b, <1>1, <1>2, <2>1, <2>3, Zenon DEF SdDisk, DiskMeansCard
<1>7. SdReads'
  <2>1. sdhost'.data => sdhost'.active.name = "read"
    BY <1>1, Zenon
  <2>2. sdjob'.op = "read" /\ sdcmd'.at \in {"complete", "transfer"} =>
          sdhost'.active = sdcmd'.cmd /\ ~sdhost'.tc
    <3>1. sdjob.op = "read" /\ sdcmd.at \in {"complete", "transfer"} => c = sdcmd.cmd /\ ~sdhost.tc
      BY <1>a, <1>b, Zenon DEF SdReads, Free, c
    <3>2. sdjob.op = "read" => sdcmd.cmd.name = "read"
      BY CommandAtWork, Zenon
    <3> QED BY <1>b, <1>1, <3>1, <3>2, Zenon
  <2> QED BY <1>a, <1>b, <1>2, <2>1, <2>2, Zenon DEF SdReads
<1>8. sdjob.op # "init" => SdStarts'
  BY <1>b, Zenon DEF SdStarts
<1> QED BY <1>4, <1>5, <1>6, <1>7, <1>8, Zenon DEF SdInv

\* Silence.
LEMMA NoResponseKeeps == ASSUME SdInv, NoResponse PROVE SdInv'
<1>a. SdTypeOK /\ SdStarts /\ SdDisk /\ SdReads
  BY Zenon DEF SdInv
<1>b. ~Free /\ ~sdhost.data /\ UNCHANGED <<sdhc, sdjob, sdcmd, sdresp, sdcard, sdbounce, sdbuf>>
  BY Zenon DEF NoResponse, Free
<1>1. PICK stuck \in BOOLEAN : sdhost' = [sdhost EXCEPT !.active = SdNone, !.inhibit = stuck]
  BY Zenon DEF NoResponse
<1>2. /\ sdhost' \in SdHostType /\ sdhost'.active = SdNone /\ ~sdhost'.data
      /\ sdhost'.cc = sdhost.cc /\ sdhost'.tc = sdhost.tc
  <2>1. sdhost \in SdHostType
    BY <1>a, Zenon DEF SdTypeOK
  <2> QED BY <1>1, <1>b, <2>1, NoneType, Zenon DEF SdHostType
<1>3. SdTypeOK' /\ SdDisk'
  BY <1>a, <1>b, <1>2, Zenon DEF SdTypeOK, SdDisk, DiskMeansCard, Free
<1>4. SdReads'
  BY <1>a, <1>b, <1>2, Zenon DEF SdReads, Free
<1>5. SdStarts'
  <2>1. SdNone.name # "read"
    BY NoneType, Zenon
  <2> QED BY <1>a, <1>b, <1>2, <2>1, Zenon DEF SdStarts, Free, Known, Heard
<1> QED BY <1>3, <1>4, <1>5, Zenon DEF SdInv

\* The length of a transfer.
LEMMA LengthFits ==
  ASSUME NEW left \in Int, left >= 1
  PROVE  SdLen(left) \in 1 .. SdBuffer /\ SdLen(left) <= left
BY SdAssumption DEF SdLen

\* A transfer fills the buffer for the command in progress.
LEMMA TransfersKeeps == ASSUME SdInv, Transfers PROVE SdInv'
<1> DEFINE c == sdhost.active
<1>a. SdTypeOK /\ SdStarts /\ SdDisk /\ SdReads
  BY Zenon DEF SdInv
<1>b. sdhost.data /\ UNCHANGED <<sdhc, sdjob, sdcmd, sdresp, sdcard, sdbuf>>
  BY Zenon DEF Transfers
<1>1. /\ sdhost' \in SdHostType /\ sdhost'.active = SdNone /\ ~sdhost'.data
  <2>1. sdhost \in SdHostType
    BY <1>a, Zenon DEF SdTypeOK
  <2>2. sdhost' = [sdhost EXCEPT !.tc = TRUE, !.data = FALSE, !.inhibit = FALSE, !.active = SdNone]
    BY Zenon DEF Transfers
  <2> QED BY <2>1, <2>2, NoneType, Zenon DEF SdHostType
<1>2. c.name = "read" /\ c \in SdCommandType /\ ~Free
  BY <1>a, <1>b, NoneType, Zenon DEF SdReads, Free, SdTypeOK, SdHostType
<1>3. sdjob.op # "init"
  BY <1>a, <1>b, Zenon DEF SdStarts
<1>4. sdbounce' = [i \in 1 .. SdBuffer |-> IF i <= c.len THEN FirstBlock(c.arg) + i - 1 ELSE sdbounce[i]]
  BY <1>a, Zenon DEF Transfers, SdTypeOK
<1>5. sdbounce' \in [1 .. SdBuffer -> Int]
  <2>1. FirstBlock(c.arg) \in Int /\ c.len \in Int
    BY <1>2 DEF FirstBlock, SdCommandType
  <2>2. sdbounce \in [1 .. SdBuffer -> Int]
    BY <1>a, Zenon DEF SdTypeOK
  <2> HIDE DEF c
  <2> QED BY <1>4, <2>1, <2>2, SdAssumption
<1>6. SdTypeOK' /\ SdDisk' /\ SdStarts'
  BY <1>a, <1>b, <1>1, <1>3, <1>5, Zenon DEF SdTypeOK, SdDisk, SdStarts, DiskMeansCard, Free
<1>7. SdReads'
  <2>1. ASSUME sdjob.op = "read", sdcmd.at \in {"complete", "transfer"} PROVE Bounced(sdcmd.cmd)'
    <3>1. c = sdcmd.cmd
      BY <1>a, <1>2, <2>1, Zenon DEF SdReads
    <3>2. c.len = SdLen(sdjob.left) /\ sdjob.left \in Int /\ sdjob.left >= 1
      <4>1. c = [name |-> "read", arg |-> sdjob.at, len |-> SdLen(sdjob.left)] /\ sdjob.left >= 1
        BY <1>a, <2>1, <3>1, Zenon DEF SdReads
      <4>2. sdjob.left \in Int
        BY <1>a, Zenon DEF SdTypeOK, SdJobType
      <4> HIDE DEF c
      <4> QED BY <4>1, <4>2, Zenon
    <3>3. c.len \in 1 .. SdBuffer
      BY <3>2, LengthFits, Zenon
    <3>4. \A i \in 1 .. c.len : sdbounce'[i] = FirstBlock(c.arg) + i - 1
      BY <1>4, <3>3, SdAssumption
    <3>5. sdcmd'.cmd = c /\ \A i : FirstBlock(i)' = FirstBlock(i)
      BY <1>b, <3>1, Zenon DEF FirstBlock
    <3> HIDE DEF c
    <3>6. FirstBlock(sdcmd.cmd.arg)' = FirstBlock(c.arg)
      BY <1>b, <3>1, Zenon DEF FirstBlock
    <3> QED BY <3>4, <3>5, <3>6, Zenon DEF Bounced
  <2> QED BY <1>a, <1>b, <1>1, <2>1, Zenon DEF SdReads, Free
<1> QED BY <1>6, <1>7, Zenon DEF SdInv

\* The first command, and the start of a call, give the types.
LEMMA SdRestType == SdRest \in SdJobType /\ SdQuiet \in SdHostType /\ SdNoDevice \in SdDeviceType
<1>1. 0 \in Int /\ 0 \in 0 .. 11 /\ 0 \in {0, 1} /\ FALSE \in BOOLEAN
  OBVIOUS
<1>2. SdRest \in SdJobType
  BY <1>1, Zenon DEF SdRest, SdJobType
<1>3. SdQuiet \in SdHostType
  BY <1>1, NoneType, Zenon DEF SdQuiet, SdHostType
<1>4. SdNoDevice \in SdDeviceType
  BY <1>1, Zenon DEF SdNoDevice, SdDeviceType
<1> QED BY <1>2, <1>3, <1>4, Zenon

\* The start of the initialisation.
LEMMA InitStartKeeps == ASSUME SdInv, ob_wii_shdc_init \/ InitRefused PROVE SdInv'
<1>a. /\ sdhc' = SdNoDevice /\ sdhost' = SdQuiet
  BY Zenon DEF ob_wii_shdc_init, InitRefused
<1>b. /\ sdhc' \in SdDeviceType /\ sdhost' \in SdHostType /\ ~sdhc'.created /\ ~sdhost'.data
      /\ sdhc'.type = "sd2" /\ sdhost'.active = SdNone
  <2>1. /\ ~SdNoDevice.created /\ ~SdQuiet.data /\ SdNoDevice.type = "sd2" /\ SdQuiet.active = SdNone
    BY Zenon DEF SdNoDevice, SdQuiet
  <2> QED BY <1>a, <2>1, SdRestType, Zenon
<1>1. CASE ob_wii_shdc_init
  <2>1. PICK kind \in SdCards : sdcard' = [kind |-> kind, state |-> "idle", app |-> FALSE]
    BY <1>1, Zenon DEF ob_wii_shdc_init
  <2>2. sdcard' \in SdCardType /\ sdcard'.kind \in SdCards
    <3>1. "idle" \in SdStates /\ kind \in SdCards \cup {"none"}
      BY Zenon DEF SdStates
    <3> QED BY <2>1, <3>1, Zenon DEF SdCardType
  <2>3. sdjob' \in SdJobType /\ sdjob'.op = "init" /\ sdjob'.step = 1 /\ sdjob'.was = ""
    <3>1. sdjob' = [SdRest EXCEPT !.op = "init", !.step = 1, !.tries = SdTries]
      BY <1>1, Zenon DEF ob_wii_shdc_init
    <3>2. 1 \in 0 .. 11 /\ SdTries \in Int
      BY SdAssumption
    <3>3. SdRest.was = ""
      BY Zenon DEF SdRest
    <3> QED BY <3>1, <3>2, <3>3, SdRestType, Zenon DEF SdJobType
  <2>4. sdcmd' \in SdPlaceType /\ sdcmd'.at = "inhibit" /\ sdcmd'.cmd.name = Commands[1]
    <3>1. sdcmd' = [cmd |-> [name |-> Commands[1], arg |-> 0, len |-> 0], at |-> "inhibit"]
      BY <1>1, Zenon DEF ob_wii_shdc_init, SdSend
    <3>2. Commands[1] \in SdNames /\ 0 \in Int
      BY DEF Commands, SdNames
    <3> QED BY <3>1, <3>2, Zenon DEF SdPlaceType, SdCommandType
  <2>5. sdresp' \subseteq {"ready", "ccs"} /\ sdbounce' \in [1 .. SdBuffer -> Int]
    BY <1>1 DEF ob_wii_shdc_init, SdEmpty
  <2>6. SdTypeOK'
    BY <1>b, <2>2, <2>3, <2>4, <2>5, Zenon DEF SdTypeOK
  <2>7. SdStarts'
    <3>1. sdhost'.active.name # "read"
      BY <1>b, NoneType, Zenon
    <3>0. /\ 1 >= 1 /\ 1 <= 8 /\ ~(1 >= 3) /\ ~(1 >= 4) /\ ~(1 >= 5) /\ ~(1 >= 7)
      OBVIOUS
    <3>2. Known(sdjob.step)'
      BY <2>3, <3>0, Zenon DEF Known
    <3>3. /\ sdjob'.step >= 1 /\ sdjob'.step <= 8 /\ ~(sdjob'.step >= 4) /\ ~(sdjob'.step >= 5)
          /\ ~(sdjob'.step >= 3) /\ sdcmd'.cmd.name = Commands[sdjob'.step]
      BY <2>3, <2>4, <3>0, Zenon
    <3> QED BY <1>b, <2>2, <2>3, <2>4, <3>1, <3>2, <3>3, Zenon DEF SdStarts
  <2>8. SdDisk' /\ SdReads'
    BY <1>b, <2>3, Zenon DEF SdDisk, SdReads
  <2> QED BY <2>6, <2>7, <2>8, Zenon DEF SdInv
<1>2. CASE InitRefused
  <2>1. sdjob' \in SdJobType /\ sdjob'.op = "idle" /\ sdjob'.was = "init"
    <3>1. sdjob' = [SdRest EXCEPT !.was = "init"] /\ SdRest.op = "idle"
      BY <1>2, Zenon DEF InitRefused, SdRest
    <3> QED BY <3>1, SdRestType, Zenon DEF SdJobType
  <2>2. UNCHANGED <<sdcmd, sdresp, sdcard, sdbounce>>
    BY <1>2, Zenon DEF InitRefused
  <2> QED BY <1>b, <2>1, <2>2, Zenon DEF SdInv, SdTypeOK, SdStarts, SdDisk, SdReads
<1> QED BY <1>1, <1>2, Zenon

\* The start of a read.
LEMMA ReadStartKeeps ==
  ASSUME SdInv, NEW block \in Int, NEW n \in Int, n >= 1, ob_wii_sdhc_read_blocks(block, n)
  PROVE  SdInv' /\ sdjob'.op = "read" /\ sdjob'.at = block /\ sdjob'.block = block
<1>a. SdTypeOK /\ SdDisk /\ SdReads
  BY Zenon DEF SdInv
<1>b. sdhc.created /\ UNCHANGED <<sdhc, sdresp, sdhost, sdcard, sdbounce>>
  BY Zenon DEF ob_wii_sdhc_read_blocks
<1>1. /\ sdjob' \in SdJobType /\ sdjob'.op = "read" /\ sdjob'.was = "" /\ sdjob'.at = block
      /\ sdjob'.left = n /\ sdjob'.block = block /\ sdjob'.n = n
  <2>1. sdjob' = [SdRest EXCEPT !.op = "read", !.at = block, !.left = n, !.block = block, !.n = n]
    BY Zenon DEF ob_wii_sdhc_read_blocks
  <2>2. SdRest.was = ""
    BY Zenon DEF SdRest
  <2> QED BY <2>1, <2>2, SdRestType, Zenon DEF SdJobType
<1>2. /\ sdcmd'.cmd = [name |-> "read", arg |-> block, len |-> SdLen(n)]
      /\ sdcmd' \in SdPlaceType /\ sdcmd'.at = "inhibit"
  <2>1. sdcmd' = [cmd |-> [name |-> "read", arg |-> block, len |-> SdLen(n)], at |-> "inhibit"]
    BY Zenon DEF ob_wii_sdhc_read_blocks, SdSend
  <2>2. "read" \in SdNames /\ SdLen(n) \in Int
    BY LengthFits DEF SdNames
  <2> QED BY <2>1, <2>2, Zenon DEF SdPlaceType, SdCommandType
<1>3. sdbuf' \in [1 .. n -> Int]
  BY DEF ob_wii_sdhc_read_blocks
<1>4. SdTypeOK'
  BY <1>a, <1>b, <1>1, <1>2, Zenon DEF SdTypeOK
<1>5. SdStarts' /\ SdDisk'
  BY <1>a, <1>b, <1>1, Zenon DEF SdStarts, SdDisk, DiskMeansCard, Free
<1>6. SdReads'
  BY <1>a, <1>b, <1>1, <1>2, <1>3, Zenon DEF SdReads
<1> QED BY <1>1, <1>4, <1>5, <1>6, Zenon DEF SdInv

\* A command is issued when the controller is free, with its status cleared.
LEMMA IssueKeeps == ASSUME SdInv, CommandIssued PROVE SdInv'
<1>a. SdTypeOK /\ SdStarts /\ SdDisk /\ SdReads
  BY Zenon DEF SdInv
<1>b. /\ sdjob.op # "idle" /\ sdcmd.at = "inhibit"
      /\ UNCHANGED <<sdhc, sdjob, sdresp, sdcard, sdbounce, sdbuf>>
  BY Zenon DEF CommandIssued, SdWaits
<1>1. /\ sdcmd' \in SdPlaceType /\ sdcmd'.cmd = sdcmd.cmd /\ sdcmd'.at = "complete"
      /\ sdcmd.cmd \in SdCommandType
  BY <1>a, Zenon DEF CommandIssued, SdTypeOK, SdPlaceType
<1>2. /\ sdhost' \in SdHostType /\ sdhost'.active = sdcmd.cmd /\ ~sdhost'.cc /\ ~sdhost'.tc
      /\ ~sdhost'.data
  <2>1. sdhost' = [SdQuiet EXCEPT !.inhibit = TRUE, !.active = sdcmd.cmd]
    BY Zenon DEF CommandIssued
  <2>2. ~SdQuiet.cc /\ ~SdQuiet.tc /\ ~SdQuiet.data
    BY Zenon DEF SdQuiet
  <2> QED BY <1>1, <2>1, <2>2, SdRestType, Zenon DEF SdHostType
<1>3. SdTypeOK'
  BY <1>a, <1>b, <1>1, <1>2, Zenon DEF SdTypeOK
<1>4. SdDisk' /\ SdReads'
  <2>1. sdhc.created => sdjob.op = "read" /\ sdcmd.cmd.name = "read"
    BY <1>b, CommandAtWork, Zenon
  <2>2. SdDisk'
    BY <1>a, <1>b, <1>2, <2>1, Zenon DEF SdDisk, DiskMeansCard
  <2>3. SdReads'
    BY <1>a, <1>b, <1>1, <1>2, Zenon DEF SdReads
  <2> QED BY <2>2, <2>3, Zenon
<1>5. SdStarts'
  <2> SUFFICES ASSUME sdjob.op = "init" PROVE SdStarts'
    BY <1>b, Zenon DEF SdStarts
  <2>1. sdcmd.cmd.name # "read"
    BY CommandAtWork, Zenon
  <2> QED BY <1>a, <1>b, <1>1, <1>2, <2>1, Zenon DEF SdStarts, Known, Free
<1> QED BY <1>3, <1>4, <1>5, Zenon DEF SdInv

\* The end of a wait for the controller.
LEMMA CompleteKeeps == ASSUME SdInv, CommandComplete PROVE SdInv'
<1>a. SdTypeOK /\ SdStarts /\ SdDisk /\ SdReads
  BY Zenon DEF SdInv
<1>b. /\ sdjob.op # "idle" /\ sdcmd.at = "complete" /\ sdhost.cc
      /\ UNCHANGED <<sdresp, sdcard, sdbounce, sdbuf>>
  BY Zenon DEF CommandComplete, SdWaits
<1>1. /\ sdhost' \in SdHostType /\ sdhost'.active = sdhost.active /\ sdhost'.data = sdhost.data
      /\ sdhost'.tc = sdhost.tc
  <2>1. sdhost \in SdHostType /\ sdhost' = [sdhost EXCEPT !.cc = FALSE]
    BY <1>a, Zenon DEF CommandComplete, SdTypeOK
  <2> QED BY <2>1, Zenon DEF SdHostType
<1>2. CASE sdjob.op = "init"
  <2>1. sdcmd.cmd.name # "read"
    BY <1>2, CommandAtWork, Zenon
  <2>2. InitResult(TRUE)
    BY <1>2, <2>1, Zenon DEF CommandComplete, SdResult
  <2>3. Free /\ (sdhc.type # "mmc" /\ sdjob.step >= 3 => Heard(sdjob.step))
    BY <1>a, <1>b, <1>2, Zenon DEF SdStarts
  <2> QED BY <1>b, <1>1, <1>2, <2>2, <2>3, InitResultKeeps, Zenon
<1>3. CASE sdjob.op = "read"
  <2>1. sdcmd.cmd.name = "read"
    BY <1>3, CommandAtWork, Zenon
  <2>2. sdcmd' = [sdcmd EXCEPT !.at = "transfer"] /\ UNCHANGED <<sdhc, sdjob>>
    BY <2>1, Zenon DEF CommandComplete
  <2>3. sdcmd' \in SdPlaceType /\ sdcmd'.cmd = sdcmd.cmd /\ sdcmd'.at = "transfer"
    BY <1>a, <2>2, Zenon DEF SdTypeOK, SdPlaceType
  <2>4. SdTypeOK' /\ SdStarts' /\ SdDisk'
    BY <1>a, <1>b, <1>1, <1>3, <2>2, <2>3, Zenon DEF SdTypeOK, SdStarts, SdDisk, DiskMeansCard, Free
  <2>5. SdReads'
    BY <1>a, <1>b, <1>1, <1>3, <2>2, <2>3 DEF SdReads, Free, Bounced, FirstBlock
  <2> QED BY <2>4, <2>5, Zenon DEF SdInv
<1> QED BY <1>a, <1>b, <1>2, <1>3, Zenon DEF SdTypeOK, SdJobType

\* A part of a read that is over.
LEMMA ReadDoneKeeps ==
  ASSUME SdInv, sdjob.op = "read", NEW ok \in BOOLEAN, ReadDone(ok),
         sdhost' \in SdHostType, sdhost'.active = sdhost.active, sdhost'.data = sdhost.data,
         sdbuf' \in [1 .. sdjob.n -> Int], UNCHANGED <<sdhc, sdresp, sdcard, sdbounce>>
  PROVE  SdInv'
<1> DEFINE len == SdLen(sdjob.left)
<1>a. SdTypeOK /\ SdDisk /\ SdReads
  BY Zenon DEF SdInv
<1>b. sdhc.created /\ sdcard.kind \in SdCards \ {"mmc"}
  BY <1>a, Zenon DEF SdReads, SdDisk
<1>c. /\ sdjob \in SdJobType /\ sdjob.left \in Int /\ sdjob.at \in Int /\ sdjob.left >= 1
      /\ sdjob.at + sdjob.left = sdjob.block + sdjob.n /\ sdjob.n \in Int /\ sdjob.block \in Int
  BY <1>a, Zenon DEF SdTypeOK, SdReads, SdJobType
<1>1. ASSUME NEW r \in BOOLEAN, SdEnd(r) PROVE SdInv'
  <2>1. sdjob' \in SdJobType /\ sdjob'.op = "idle" /\ sdcmd' \in SdPlaceType
    BY <1>a, <1>1, EndFields, Zenon
  <2>2. SdTypeOK' /\ SdStarts' /\ SdDisk'
    BY <1>a, <2>1, Zenon DEF SdTypeOK, SdStarts, SdDisk, DiskMeansCard, Free
  <2>3. SdReads'
    BY <1>a, <1>b, <2>1, Zenon DEF SdReads
  <2> QED BY <2>2, <2>3, Zenon DEF SdInv
<1>2. ASSUME sdjob.left > len, sdjob' = [sdjob EXCEPT !.at = @ + len, !.left = @ - len],
             SdSend("read", sdjob.at + len, SdLen(sdjob.left - len))
      PROVE  SdInv'
  <2>1. len \in 1 .. SdBuffer
    BY <1>c, LengthFits, Zenon
  <2> HIDE DEF len
  <2>2. sdjob.at + len \in Int /\ sdjob.left - len \in Int /\ sdjob.left - len >= 1
    <3>1. sdjob.at \in Int /\ sdjob.left \in Int /\ sdjob.left > len
      BY <1>2, <1>c, Zenon
    <3>2. len \in Int
      BY <2>1, SdAssumption
    <3> QED BY <3>1, <3>2
  <2>3. /\ sdjob' \in SdJobType /\ sdjob'.op = "read" /\ sdjob'.was = sdjob.was /\ sdjob'.n = sdjob.n
        /\ sdjob'.at = sdjob.at + len /\ sdjob'.left = sdjob.left - len /\ sdjob'.block = sdjob.block
    BY <1>2, <1>c, <2>2, Zenon DEF SdJobType
  <2>4. /\ sdcmd'.cmd = [name |-> "read", arg |-> sdjob.at + len, len |-> SdLen(sdjob.left - len)]
        /\ sdcmd' \in SdPlaceType /\ sdcmd'.at = "inhibit"
    <3>1. /\ sdcmd' = [cmd |-> [name |-> "read", arg |-> sdjob.at + len,
                               len |-> SdLen(sdjob.left - len)], at |-> "inhibit"]
      BY <1>2, Zenon DEF SdSend
    <3>2. "read" \in SdNames /\ SdLen(sdjob.left - len) \in Int
      BY <2>2, LengthFits DEF SdNames
    <3> QED BY <2>2, <3>1, <3>2, Zenon DEF SdPlaceType, SdCommandType
  <2>5. SdTypeOK' /\ SdStarts' /\ SdDisk'
    BY <1>a, <2>3, <2>4, Zenon DEF SdTypeOK, SdStarts, SdDisk, DiskMeansCard, Free
  <2>6. sdjob'.at + sdjob'.left = sdjob'.block + sdjob'.n /\ sdjob'.left >= 1
    BY <1>c, <2>1, <2>2, <2>3
  <2>7. SdReads'
    BY <1>a, <1>b, <2>2, <2>3, <2>4, <2>6, Zenon DEF SdReads
  <2> QED BY <2>5, <2>7, Zenon DEF SdInv
<1> QED BY <1>1, <1>2, Zenon DEF ReadDone

\* The buffer after a transfer.
LEMMA TransferredBuffer ==
  ASSUME SdInv, TransferComplete
  PROVE  /\ sdjob.op = "read" /\ ReadDone(TRUE) /\ UNCHANGED <<sdhc, sdresp, sdcard, sdbounce>>
         /\ sdhost' \in SdHostType /\ sdhost'.active = sdhost.active /\ sdhost'.data = sdhost.data
         /\ sdbuf' \in [1 .. sdjob.n -> Int] /\ Bounced(sdcmd.cmd)
         /\ \A p \in 1 .. sdjob.n :
              LET i == p - (sdjob.at - sdjob.block) IN
              sdbuf'[p] = IF i \in 1 .. SdLen(sdjob.left) THEN sdbounce[i] ELSE sdbuf[p]
<1>a. SdTypeOK /\ SdStarts /\ SdReads
  BY Zenon DEF SdInv
<1>b. sdjob.op # "idle" /\ sdcmd.at = "transfer" /\ sdhost.tc
  BY Zenon DEF TransferComplete, SdWaits
<1>1. sdjob.op = "read"
  <2>1. sdjob.op # "init"
    BY <1>a, <1>b, Zenon DEF SdStarts
  <2> QED BY <1>a, <1>b, <2>1, Zenon DEF SdTypeOK, SdJobType
<1>2. ReadDone(TRUE) /\ UNCHANGED <<sdhc, sdresp, sdcard, sdbounce>>
  BY <1>1, Zenon DEF TransferComplete, SdResult
<1>3. sdhost' \in SdHostType /\ sdhost'.active = sdhost.active /\ sdhost'.data = sdhost.data
  <2>1. sdhost \in SdHostType /\ sdhost' = [sdhost EXCEPT !.tc = FALSE]
    BY <1>a, Zenon DEF TransferComplete, SdTypeOK
  <2> QED BY <2>1, Zenon DEF SdHostType
<1>4. /\ sdbuf \in [1 .. sdjob.n -> Int] /\ sdjob.left >= 1
      /\ sdcmd.cmd = [name |-> "read", arg |-> sdjob.at, len |-> SdLen(sdjob.left)]
      /\ Bounced(sdcmd.cmd)
  BY <1>a, <1>b, <1>1, Zenon DEF SdReads
<1>5. sdjob.left \in Int /\ sdjob.at \in Int /\ sdjob.block \in Int /\ sdjob.n \in Int
  BY <1>a, Zenon DEF SdTypeOK, SdJobType
<1>6. SdLen(sdjob.left) \in 1 .. SdBuffer /\ sdcmd.cmd.len = SdLen(sdjob.left)
  <2>1. SdLen(sdjob.left) \in 1 .. SdBuffer
    BY <1>4, <1>5, LengthFits, Zenon
  <2>2. sdcmd.cmd.len = SdLen(sdjob.left)
    <3>1. sdcmd.cmd = [name |-> "read", arg |-> sdjob.at, len |-> SdLen(sdjob.left)]
      BY <1>4, Zenon
    <3> QED BY <3>1
  <2> QED BY <2>1, <2>2, Zenon
<1>7. sdbuf' = [p \in 1 .. sdjob.n |->
                  LET i == p - (sdjob.at - sdjob.block) IN
                  IF i \in 1 .. SdLen(sdjob.left) THEN sdbounce[i] ELSE sdbuf[p]]
  BY <1>4, <1>6, Zenon DEF TransferComplete
<1>8. \A i \in 1 .. SdLen(sdjob.left) : sdbounce[i] \in Int
  BY <1>a, <1>6, SdAssumption DEF SdTypeOK
<1>9. sdbuf' \in [1 .. sdjob.n -> Int]
  <2>1. \A p \in 1 .. sdjob.n : sdbuf'[p] \in Int
    <3> TAKE p \in 1 .. sdjob.n
    <3> DEFINE i == p - (sdjob.at - sdjob.block)
    <3>1. sdbuf[p] \in Int
      BY <1>4, Zenon
    <3>2. sdbuf'[p] = IF i \in 1 .. SdLen(sdjob.left) THEN sdbounce[i] ELSE sdbuf[p]
      BY <1>7, Zenon
    <3> HIDE DEF i
    <3> QED BY <1>8, <3>1, <3>2, Zenon
  <2>2. sdbuf' = [p \in 1 .. sdjob.n |-> sdbuf'[p]]
    BY <1>7, Zenon
  <2> QED BY <2>1, <2>2, Zenon
<1> QED BY <1>1, <1>2, <1>3, <1>4, <1>7, <1>9, Zenon

\* The invariant of the driver, the controller and the card.
THEOREM SdInvariant == SdSpec => []SdInv
<1>1. SdInit => SdInv
  <2> SUFFICES ASSUME SdInit PROVE SdInv
    BY Zenon
  <2>1. sdhc = SdNoDevice /\ sdjob = SdRest /\ sdhost = SdQuiet /\ sdresp = {} /\ sdbounce = SdEmpty
    BY Zenon DEF SdInit
  <2>2. sdcmd \in SdPlaceType
    <3>1. sdcmd = [cmd |-> SdNone, at |-> ""]
      BY Zenon DEF SdInit
    <3> QED BY <3>1, NoneType, Zenon DEF SdPlaceType
  <2>3. sdcard \in SdCardType
    <3>1. "idle" \in SdStates /\ "none" \in SdCards \cup {"none"}
      BY Zenon DEF SdStates
    <3> QED BY <3>1, Zenon DEF SdInit, SdCardType
  <2>4. SdTypeOK
    BY <2>1, <2>2, <2>3, SdRestType DEF SdTypeOK, SdEmpty
  <2>5. /\ ~SdNoDevice.created /\ ~SdQuiet.data /\ SdRest.op = "idle" /\ SdRest.was = ""
    BY Zenon DEF SdNoDevice, SdQuiet, SdRest
  <2> QED BY <2>1, <2>4, <2>5, Zenon DEF SdInv, SdStarts, SdDisk, SdReads
<1>2. SdInv /\ [SdNext]_sdVars => SdInv'
  <2> SUFFICES ASSUME SdInv, [SdNext]_sdVars PROVE SdInv'
    BY Zenon
  <2>1. CASE ob_wii_shdc_init \/ InitRefused
    BY <2>1, InitStartKeeps, Zenon
  <2>2. ASSUME NEW block \in 0 .. SdBlocks - 1, NEW n \in 1 .. SdBlocks, ob_wii_sdhc_read_blocks(block, n)
        PROVE  SdInv'
    <3>1. block \in Int /\ n \in Int /\ n >= 1
      BY SdAssumption
    <3> QED BY <2>2, <3>1, ReadStartKeeps, Zenon
  <2>3. CASE CommandIssued
    BY <2>3, IssueKeeps, Zenon
  <2>4. CASE CommandComplete
    BY <2>4, CompleteKeeps, Zenon
  <2>5. CASE TransferComplete
    <3>1. /\ sdjob.op = "read" /\ ReadDone(TRUE) /\ UNCHANGED <<sdhc, sdresp, sdcard, sdbounce>>
          /\ sdhost' \in SdHostType /\ sdhost'.active = sdhost.active /\ sdhost'.data = sdhost.data
          /\ sdbuf' \in [1 .. sdjob.n -> Int]
      BY <2>5, TransferredBuffer, Zenon
    <3> QED BY <3>1, ReadDoneKeeps, Zenon
  <2>6. CASE SdTimeout
    <3>1. SdResult(FALSE) /\ UNCHANGED <<sdresp, sdhost, sdcard, sdbounce, sdbuf>>
      BY <2>6, Zenon DEF SdTimeout
    <3>2. sdhost' \in SdHostType /\ sdhost'.active = sdhost.active /\ sdhost'.data = sdhost.data
      BY <3>1, Zenon DEF SdInv, SdTypeOK
    <3>3. CASE sdjob.op = "init" /\ InitResult(FALSE)
      BY <3>1, <3>2, <3>3, InitResultKeeps, Zenon
    <3>4. CASE sdjob.op = "read" /\ ReadDone(FALSE) /\ UNCHANGED sdhc
      <4>1. sdbuf' \in [1 .. sdjob.n -> Int]
        BY <3>1, <3>4, Zenon DEF SdInv, SdReads
      <4> QED BY <3>1, <3>2, <3>4, <4>1, ReadDoneKeeps, Zenon
    <3> QED BY <3>1, <3>3, <3>4, Zenon DEF SdResult
  <2>7. CASE Responds
    BY <2>7, RespondsKeeps, Zenon
  <2>8. CASE NoResponse
    BY <2>8, NoResponseKeeps, Zenon
  <2>9. CASE Transfers
    BY <2>9, TransfersKeeps, Zenon
  <2>10. CASE UNCHANGED sdVars
    BY <2>10, ZenonT(60) DEF sdVars, SdInv, SdTypeOK, SdStarts, SdDisk, SdReads, DiskMeansCard, Free, Known, Heard,
       Bounced, FirstBlock
  <2> QED BY <2>1, <2>2, <2>3, <2>4, <2>5, <2>6, <2>7, <2>8, <2>9, <2>10, Zenon DEF SdNext
<1> QED BY <1>1, <1>2, PTL DEF SdSpec

\* A disk stands for a card that is ready (whatever its kind), although the driver
\* tells an answer from silence by timeouts: sdhc_reset_card and ob_wii_shdc_init.
THEOREM SdDiskMeansCard == SdSpec => []DiskMeansCard
<1>1. SdInv => DiskMeansCard
  BY Zenon DEF SdInv, SdDisk, DiskMeansCard
<1> QED BY <1>1, SdInvariant, PTL

\* The result of the initialisation is no read.
LEMMA InitEnds ==
  ASSUME SdTypeOK, sdjob.op = "init", NEW ok \in BOOLEAN, InitResult(ok)
  PROVE  sdjob'.op # "read" /\ (sdjob'.was # "read" \/ sdjob'.op = "init")
<1>1. sdjob \in SdJobType
  BY Zenon DEF SdTypeOK
<1>2. ASSUME NEW r, SdEnd(r) PROVE sdjob'.op = "idle" /\ sdjob'.was = "init"
  BY <1>1, <1>2, Zenon DEF SdEnd, SdJobType
<1>3. ASSUME NEW j, SdStep(j) PROVE sdjob'.op = "init"
  BY <1>1, <1>3, Zenon DEF SdStep, SdJobType
<1>4. ASSUME sdjob' = [sdjob EXCEPT !.step = 3, !.tries = TriesLeft] PROVE sdjob'.op = "init"
  BY <1>1, <1>4, Zenon DEF SdJobType
<1>5. (\E r : SdEnd(r)) \/ (\E j : SdStep(j)) \/ sdjob' = [sdjob EXCEPT !.step = 3, !.tries = TriesLeft]
  <2>1. OpCondResult(ok) =>
          \/ SdEnd(FALSE) \/ SdStep(5) \/ sdjob' = [sdjob EXCEPT !.step = 3, !.tries = TriesLeft]
    BY Zenon DEF OpCondResult
  <2>2. \/ SdEnd(FALSE) \/ SdEnd(TRUE) \/ OpCondResult(ok) \/ \E j : SdStep(j)
    BY Zenon DEF InitResult
  <2> QED BY <2>1, <2>2, Zenon
<1> QED BY <1>2, <1>3, <1>4, <1>5, Zenon

\* A transfer that is complete makes the next part of the buffer right.
LEMMA TransferFills ==
  ASSUME SdInv, SdFill, sdcard.kind = "high", TransferComplete
  PROVE  SdFill'
<1> DEFINE len == SdLen(sdjob.left)  done == sdjob.at - sdjob.block
<1>a. SdTypeOK /\ SdReads
  BY Zenon DEF SdInv
<1>b. /\ sdjob.op = "read" /\ ReadDone(TRUE) /\ sdcard' = sdcard /\ sdbuf' \in [1 .. sdjob.n -> Int]
      /\ Bounced(sdcmd.cmd)
      /\ \A p \in 1 .. sdjob.n :
           LET i == p - done IN sdbuf'[p] = IF i \in 1 .. len THEN sdbounce[i] ELSE sdbuf[p]
  BY TransferredBuffer, Zenon
<1>1. /\ sdjob \in SdJobType /\ sdjob.at \in Int /\ sdjob.block \in Int /\ sdjob.n \in Int
      /\ sdjob.left \in Int
  BY <1>a, Zenon DEF SdTypeOK, SdJobType
<1>2. /\ sdcmd.cmd = [name |-> "read", arg |-> sdjob.at, len |-> SdLen(sdjob.left)]
      /\ sdjob.at + sdjob.left = sdjob.block + sdjob.n /\ sdjob.left >= 1
  BY <1>a, <1>b, Zenon DEF SdReads
<1>3. len \in 1 .. SdBuffer /\ len <= sdjob.left
  BY <1>1, <1>2, LengthFits, Zenon
<1>4. \A i \in 1 .. len : sdbounce[i] = sdjob.at + i - 1
  <2>1. sdcmd.cmd.arg = sdjob.at /\ sdcmd.cmd.len = len
    BY <1>2
  <2>2. FirstBlock(sdjob.at) = sdjob.at
    BY Zenon DEF FirstBlock
  <2> QED BY <1>b, <2>1, <2>2, Zenon DEF Bounced
<1>5. SdFilled(done)
  BY <1>b, Zenon DEF SdFill
<1> HIDE DEF len
<1>6. \A p \in 1 .. sdjob.n : p <= done + len => sdbuf'[p] = sdjob.block + p - 1
  <2> SUFFICES ASSUME NEW p \in 1 .. sdjob.n, p <= done + len PROVE sdbuf'[p] = sdjob.block + p - 1
    BY Zenon
  <2>1. len \in Int /\ done \in Int /\ p \in Int
    BY <1>1, <1>3, SdAssumption
  <2>2. CASE p <= done
    <3>1. p - done \notin 1 .. len
      BY <2>1, <2>2
    <3>2. sdbuf'[p] = sdbuf[p]
      BY <1>b, <3>1, Zenon
    <3> QED BY <1>5, <2>2, <3>2, Zenon DEF SdFilled
  <2>3. CASE p > done
    <3>1. p - done \in 1 .. len
      BY <2>1, <2>3
    <3>2. sdbuf'[p] = sdbounce[p - done]
      BY <1>b, <3>1, Zenon
    <3>3. sdbounce[p - done] = sdjob.at + (p - done) - 1
      BY <1>4, <3>1, Zenon
    <3> QED BY <1>1, <2>1, <3>2, <3>3
  <2> QED BY <2>1, <2>2, <2>3
<1>7. CASE sdjob.left = len /\ SdEnd(TRUE)
  <2>1. sdjob'.op = "idle" /\ sdjob'.n = sdjob.n /\ sdjob'.block = sdjob.block
    BY <1>a, <1>b, <1>7, EndFields, Zenon
  <2>2. done + len = sdjob.n
    BY <1>1, <1>2, <1>7
  <2>3. \A p \in 1 .. sdjob.n : sdbuf'[p] = sdjob.block + p - 1
    BY <1>1, <1>6, <2>2
  <2>4. sdbuf' = [p \in 1 .. sdjob.n |-> sdjob.block + p - 1]
    BY <1>b, <2>3, Zenon
  <2> QED BY <2>1, <2>4, Zenon DEF SdFill, SdReadsRight
<1>8. CASE sdjob' = [sdjob EXCEPT !.at = @ + len, !.left = @ - len]
  <2>1. /\ sdjob'.op = "read" /\ sdjob'.n = sdjob.n /\ sdjob'.block = sdjob.block
        /\ sdjob'.at = sdjob.at + len
    BY <1>1, <1>8, <1>b, Zenon DEF SdJobType
  <2>2. sdjob'.at - sdjob'.block = done + len
    BY <1>1, <1>3, <2>1, SdAssumption
  <2>3. SdFilled(sdjob.at - sdjob.block)'
    BY <1>6, <2>1, <2>2, Zenon DEF SdFilled
  <2> QED BY <2>1, <2>3, Zenon DEF SdFill, SdReadsRight
<1> QED BY <1>b, <1>7, <1>8, Zenon DEF ReadDone, len

\* Reads from cards of high capacity, whose commands count blocks, give the blocks
\* asked for: the status and the data that a late answer leaves behind are cleared
\* before the next command (sdhc_command).
THEOREM SdReadsInvariant == SdSpec => []SdFill
<1>1. SdInit => SdFill
  <2>1. SdInit => sdcard.kind = "none"
    <3>1. [kind |-> "none", state |-> "idle", app |-> FALSE].kind = "none"
      BY Zenon
    <3>2. SdInit => sdcard = [kind |-> "none", state |-> "idle", app |-> FALSE]
      BY Zenon DEF SdInit
    <3> QED BY <3>1, <3>2, Zenon
  <2> QED BY <2>1, Zenon DEF SdFill
<1>2. SdInv /\ SdFill /\ [SdNext]_sdVars => SdFill'
  <2> SUFFICES ASSUME SdInv, SdFill, [SdNext]_sdVars PROVE SdFill'
    BY Zenon
  <2>a. SdTypeOK /\ sdjob \in SdJobType /\ sdjob.op \in {"idle", "init", "read"}
    BY Zenon DEF SdInv, SdTypeOK, SdJobType
  <2>b. ASSUME UNCHANGED <<sdjob, sdbuf>>, sdcard'.kind = sdcard.kind PROVE SdFill'
    BY <2>b, Zenon DEF SdFill, SdFilled, SdReadsRight
  <2>c. ASSUME sdjob'.op # "read", sdjob'.was # "read" \/ sdjob'.op = "init" PROVE SdFill'
    BY <2>c, Zenon DEF SdFill, SdReadsRight
  <2>1. CASE ob_wii_shdc_init \/ InitRefused
    <3>1. sdjob' = [SdRest EXCEPT !.op = "init", !.step = 1, !.tries = SdTries]
          \/ sdjob' = [SdRest EXCEPT !.was = "init"]
      BY <2>1, Zenon DEF ob_wii_shdc_init, InitRefused
    <3>2. sdjob'.op # "read" /\ sdjob'.was # "read"
      BY <3>1, Zenon DEF SdRest
    <3> QED BY <2>c, <3>2, Zenon
  <2>2. ASSUME NEW block \in 0 .. SdBlocks - 1, NEW n \in 1 .. SdBlocks, ob_wii_sdhc_read_blocks(block, n)
        PROVE  SdFill'
    <3>1. block \in Int /\ n \in Int /\ n >= 1
      BY SdAssumption
    <3>2. sdjob'.op = "read" /\ sdjob'.at = block /\ sdjob'.block = block
      BY <2>2, <3>1, ReadStartKeeps, Zenon
    <3>3. sdjob'.at - sdjob'.block = 0
      BY <3>1, <3>2
    <3> QED BY <3>2, <3>3 DEF SdFill, SdReadsRight, SdFilled
  <2>3. ASSUME NEW ok \in BOOLEAN, sdjob.op = "init", InitResult(ok) PROVE SdFill'
    <3>1. sdjob'.op # "read" /\ (sdjob'.was # "read" \/ sdjob'.op = "init")
      BY <2>3, <2>a, InitEnds, Zenon
    <3> QED BY <2>c, <3>1, Zenon
  <2>4. CASE CommandIssued \/ NoResponse \/ Transfers \/ UNCHANGED sdVars
    BY <2>4, <2>b, Zenon DEF CommandIssued, NoResponse, Transfers, sdVars
  <2>5. CASE CommandComplete
    <3>1. CASE sdjob.op = "init"
      <4>1. sdcmd.cmd.name # "read"
        BY <3>1, CommandAtWork, Zenon
      <4> QED BY <2>3, <2>5, <3>1, <4>1, Zenon DEF CommandComplete, SdResult
    <3>2. CASE sdjob.op = "read"
      <4>1. sdcmd.cmd.name = "read"
        BY <3>2, CommandAtWork, Zenon
      <4> QED BY <2>b, <2>5, <4>1, Zenon DEF CommandComplete
    <3> QED BY <2>5, <2>a, <3>1, <3>2, Zenon DEF CommandComplete, SdWaits
  <2>6. CASE TransferComplete
    <3>1. sdcard' = sdcard
      BY <2>6, Zenon DEF TransferComplete
    <3>2. CASE sdcard.kind = "high"
      BY <2>6, <3>2, TransferFills, Zenon
    <3>3. CASE sdcard.kind # "high"
      BY <3>1, <3>3, Zenon DEF SdFill
    <3> QED BY <3>2, <3>3, Zenon
  <2>7. CASE SdTimeout
    <3>1. CASE sdjob.op = "read"
      <4>1. ReadDone(FALSE)
        BY <2>7, <3>1, Zenon DEF SdTimeout, SdResult
      <4>2. SdEnd(FALSE)
        BY <4>1, Zenon DEF ReadDone
      <4>3. sdjob'.op = "idle" /\ sdjob'.ok = FALSE
        BY <2>a, <3>1, <4>2, EndFields, Zenon
      <4> QED BY <4>3, Zenon DEF SdFill, SdReadsRight
    <3>2. CASE sdjob.op # "read"
      <4>1. sdjob.op = "init" /\ InitResult(FALSE)
        BY <2>7, <3>2, Zenon DEF SdTimeout, SdResult
      <4> QED BY <2>3, <4>1, Zenon
    <3> QED BY <3>1, <3>2, Zenon
  <2>8. CASE Responds
    <3>1. UNCHANGED <<sdjob, sdbuf>>
      BY <2>8, Zenon DEF Responds
    <3>2. sdcard'.kind = sdcard.kind
      <4>1. sdcard \in SdCardType
        BY <2>a, Zenon DEF SdTypeOK
      <4>2. PICK done \in BOOLEAN :
              sdcard' = [sdcard EXCEPT !.app = sdhost.active.name = "app",
                                       !.state = IF sdhost.active.name = "op cond" /\ done THEN "ready"
                                                 ELSE After(sdhost.active.name, @)]
        BY <2>8, Zenon DEF Responds
      <4> QED BY <4>1, <4>2, Zenon DEF SdCardType
    <3> QED BY <2>b, <3>1, <3>2, Zenon
  <2> QED BY <2>1, <2>2, <2>4, <2>5, <2>6, <2>7, <2>8, Zenon DEF SdNext
<1> QED BY <1>1, <1>2, SdInvariant, PTL DEF SdSpec

\* With cards of high capacity (and MultiMedia cards, that never become a disk), the
\* driver is right: a disk stands for a card that is ready, and a read that returns
\* its count has put the blocks asked for in the buffer (ob_wii_sdhc_read_blocks).
THEOREM SdAlwaysSound ==
  ASSUME SdCards \subseteq {"high", "mmc"}
  PROVE  SdSpec => []SdSound
<1>1. SdInv /\ SdFill => SdSound
  <2> SUFFICES ASSUME SdInv, SdFill PROVE SdSound
    BY Zenon
  <2>1. DiskMeansCard
    BY Zenon DEF SdInv, SdDisk, DiskMeansCard
  <2>2. sdjob.was = "read" => sdcard.kind = "high"
    BY Zenon DEF SdInv, SdReads
  <2>3. SdReadsRight
    BY <2>2, Zenon DEF SdFill, SdReadsRight
  <2> QED BY <2>1, <2>3, Zenon DEF SdSound
<1> QED BY <1>1, SdInvariant, SdReadsInvariant, PTL
=============================================================================
