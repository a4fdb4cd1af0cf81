------------------------------- MODULE Virtio -------------------------------
(***************************************************************************)
(* The virtio block driver (drivers/virtio.c) with its ring, and the host  *)
(* behind it (external: it takes a chain that was made available and       *)
(* announced, transfers, and counts it as used).  A disk byte is its own   *)
(* address; the buffers on the stack of virtio_blk_read_many have the same *)
(* place in every call.                                                    *)
(***************************************************************************)
EXTENDS Integers, Sequences, SequencesExt, FiniteSetsExt

CONSTANTS
  VBlock,      \* virtio_get_block_size
  VCapacity,   \* capacity in blocks
  VNum,        \* descriptors of the queue
  VIndexSize,  \* 2^16, the range of the ring's counters
  VInstances,  \* open instances of the disk node
  VLengths,    \* lengths that clients read
  VPastEnd,    \* do clients read past the end of the disk?
  VSeekFirst   \* do clients seek before every read?

VARIABLES
  vdesc, vavail, vavailIdx, vusedIdx,  \* the ring in memory
  vdriver,     \* used_idx and next_idx of struct VRing
  vhost,       \* the host: chains taken, and whether it was notified
  vdev,        \* configured and pos of struct VDev
  vcall,       \* the read under way: its buffers not yet sent, and what it is
  vmem,        \* header (start sector), load buffer and status
  vpos         \* the position each instance has by its own calls; VNone if closed

vVars == <<vdesc, vavail, vavailIdx, vusedIdx, vdriver, vhost, vdev, vcall, vmem, vpos>>
vring == <<vdesc, vavail, vavailIdx, vusedIdx, vdriver>>

VNone == -1
NoRead == [at |-> "idle", send |-> <<>>, who |-> VNone, pos |-> 0, len |-> 0]
EmptyDesc == [addr |-> "none", len |-> 0, next |-> FALSE]

VInit ==
  /\ vdesc = [i \in 0 .. VNum - 1 |-> EmptyDesc]
  /\ vavail = [i \in 0 .. VNum - 1 |-> 0]
  /\ vavailIdx = 0 /\ vusedIdx = 0
  /\ vdriver = [used |-> 0, next |-> 0]
  /\ vhost = [taken |-> 0, notified |-> FALSE]
  /\ vdev = [configured |-> FALSE, pos |-> 0]
  /\ vcall = NoRead
  /\ vmem = [sector |-> 0, load |-> <<>>, status |-> "junk"]
  /\ vpos = [i \in VInstances |-> VNone]
-----------------------------------------------------------------------------
VIdle == vcall.at = "idle"

\* Opening configures the device once (the ring is empty then) and rewinds.
ob_virtio_disk_open(i) ==
  /\ VIdle /\ vpos[i] = VNone
  /\ vdev' = [configured |-> TRUE, pos |-> 0]
  /\ vpos' = [vpos EXCEPT ![i] = 0]
  /\ IF vdev.configured THEN UNCHANGED <<vring, vhost>>
     ELSE /\ vavailIdx' = 0 /\ vusedIdx' = 0
          /\ vdriver' = [used |-> 0, next |-> 0]
          /\ vhost' = [taken |-> 0, notified |-> FALSE]
          /\ UNCHANGED <<vdesc, vavail>>
  /\ UNCHANGED <<vcall, vmem>>

ob_virtio_disk_close(i) ==
  /\ VIdle /\ vpos[i] # VNone
  /\ vpos' = [vpos EXCEPT ![i] = VNone]
  /\ UNCHANGED <<vring, vhost, vdev, vcall, vmem>>

\* Within the physical limits; otherwise the call fails and changes nothing.
ob_virtio_disk_seek(i, pos) ==
  /\ VIdle /\ vpos[i] # VNone /\ pos < VCapacity * VBlock
  /\ vdev' = [vdev EXCEPT !.pos = pos]
  /\ vpos' = [vpos EXCEPT ![i] = pos]
  /\ UNCHANGED <<vring, vhost, vcall, vmem>>

VBuffer(addr, len, next, chained) ==
  [addr |-> addr, len |-> len, next |-> next, chained |-> chained]
VDiscard(len) == IF len = 0 THEN <<>> ELSE <<VBuffer("discard", len, TRUE, TRUE)>>

\* The chain of virtio_blk_read_many: header, discarded head, data, discarded
\* tail, status.
ReadChain_LoadFirst(pos, len) ==
  LET endSector == (pos + len + VBlock - 1) \div VBlock IN
  <<VBuffer("header", 0, TRUE, FALSE), VBuffer("load", len, TRUE, TRUE)>>
  \o VDiscard(pos % VBlock) \o VDiscard(endSector * VBlock - (pos + len))
  \o <<VBuffer("status", 0, FALSE, TRUE)>>
ReadChain(pos, len) ==
  LET endSector == (pos + len + VBlock - 1) \div VBlock IN
  <<VBuffer("header", 0, TRUE, FALSE)>> \o VDiscard(pos % VBlock)
  \o <<VBuffer("load", len, TRUE, TRUE)>> \o VDiscard(endSector * VBlock - (pos + len))
  \o <<VBuffer("status", 0, FALSE, TRUE)>>

ob_virtio_disk_read(i, len) ==
  /\ VIdle /\ vpos[i] # VNone
  /\ VPastEnd \/ vdev.pos + len <= VCapacity * VBlock
  /\ VSeekFirst => vpos[i] = vdev.pos
  /\ vcall' = [at |-> "send", send |-> ReadChain(vdev.pos, len), who |-> i,
               pos |-> vdev.pos, len |-> len]
  /\ vmem' = [sector |-> vdev.pos \div VBlock, load |-> [k \in 1 .. len |-> VNone], status |-> "junk"]
  /\ UNCHANGED <<vring, vhost, vdev, vpos>>

vring_send_buf ==
  LET b == Head(vcall.send)
      n == vdriver.next
  IN  /\ vcall.at = "send" /\ n \in DOMAIN vdesc
      /\ vavail' = IF b.chained THEN vavail ELSE [vavail EXCEPT ![vavailIdx % VNum] = n]
      /\ vdesc' = [vdesc EXCEPT ![n] = [addr |-> b.addr, len |-> b.len, next |-> b.next]]
      /\ vdriver' = [vdriver EXCEPT !.next = n + 1]
      /\ vavailIdx' = IF b.next THEN vavailIdx ELSE (vavailIdx + 1) % VIndexSize
      /\ vcall' = [vcall EXCEPT !.send = Tail(@), !.at = IF b.next THEN "send" ELSE "wait"]
      /\ UNCHANGED <<vusedIdx, vhost, vdev, vmem, vpos>>

\* The end of a read: the position moves on by the length, whatever happened.
VReturn ==
  /\ vcall' = NoRead
  /\ vdev' = [vdev EXCEPT !.pos = @ + vcall.len]
  /\ vpos' = [vpos EXCEPT ![vcall.who] = @ + vcall.len]

\* vr_poll finds nothing new and notifies the host.
vr_poll_nothing ==
  /\ vcall.at \in {"wait", "polled"} /\ vusedIdx = vdriver.used
  /\ vhost' = [vhost EXCEPT !.notified = TRUE]
  /\ vcall' = [vcall EXCEPT !.at = "polled"]
  /\ UNCHANGED <<vring, vdev, vmem, vpos>>

vr_poll ==
  /\ vcall.at \in {"wait", "polled"} /\ vusedIdx # vdriver.used
  /\ vdriver' = [used |-> vusedIdx, next |-> 0]
  /\ vdesc' = [vdesc EXCEPT ![0] = [@ EXCEPT !.len = 0, !.next = FALSE]]
  /\ VReturn
  /\ UNCHANGED <<vavail, vavailIdx, vusedIdx, vhost, vmem>>

\* vring_wait_reply gives up; virtio_blk_read_many does not look at its result.
VTimeout ==
  /\ vcall.at = "polled"
  /\ VReturn
  /\ UNCHANGED <<vring, vhost, vmem>>
-----------------------------------------------------------------------------
\* The host follows the chain; descriptor i links to i + 1.
ChainEnd(i) == Min({j \in i .. VNum : j = VNum \/ ~vdesc[j].next})
VOffset(i, j) == FoldSet(LAMBDA k, sum : sum + vdesc[k].len, 0, i .. j - 1)

HostTransfers ==
  LET first == vavail[vhost.taken % VNum]
      last == ChainEnd(first)
      data == {j \in first .. last - 1 : vdesc[j].addr = "load"}
      inside == vmem.sector * VBlock + VOffset(first, last) <= VCapacity * VBlock
  IN  /\ vhost.notified /\ vhost.taken # vavailIdx
      /\ last < VNum
      /\ vmem' =
           [vmem EXCEPT
              !.status = IF vdesc[last].addr # "status" THEN @
                         ELSE IF inside THEN "ok" ELSE "ioerr",
              !.load = [k \in DOMAIN @ |->
                          IF inside /\ \E j \in data : k <= vdesc[j].len
                          THEN vmem.sector * VBlock + VOffset(first, CHOOSE j \in data : TRUE) + k - 1
                          ELSE @[k]]]
      /\ vusedIdx' = (vusedIdx + 1) % VIndexSize
      /\ vhost' = [taken |-> (vhost.taken + 1) % VIndexSize, notified |-> FALSE]
      /\ UNCHANGED <<vdesc, vavail, vavailIdx, vdriver, vdev, vcall, vpos>>

VDriver == vring_send_buf \/ vr_poll_nothing \/ vr_poll

VNext ==
  \/ \E i \in VInstances :
       \/ ob_virtio_disk_open(i) \/ ob_virtio_disk_close(i)
       \/ \E pos \in 0 .. VCapacity * VBlock - 1 : ob_virtio_disk_seek(i, pos)
       \/ \E len \in VLengths : ob_virtio_disk_read(i, len)
  \/ vring_send_buf \/ vr_poll_nothing \/ vr_poll
  \/ HostTransfers

VSpec == VInit /\ [][VNext]_vVars /\ WF_vVars(VDriver) /\ WF_vVars(HostTransfers)

\* A host that may take longer than wait_reply_timeout.
VLateSpec == VInit /\ [][VNext \/ VTimeout]_vVars
-----------------------------------------------------------------------------
\* A read that returns has filled the buffer with the bytes at the position of
\* the instance that made it, across unaligned heads and tails, and its status
\* was stored.  The ring is reused from descriptor 0 for every request.
ReadsRight ==
  [][vcall.at # "idle" /\ vcall'.at = "idle" =>
       /\ vmem.status = "ok"
       /\ vmem.load = [k \in 1 .. vcall.len |-> vpos[vcall.who] + k - 1]]_vVars

\* What the host may take is a whole chain, from the header to the status, over
\* whole sectors.
ChainsWhole ==
  vhost.taken # vavailIdx =>
    LET first == vavail[vhost.taken % VNum]
        last == ChainEnd(first)
    IN  /\ last < VNum
        /\ vdesc[first].addr = "header" /\ vdesc[last].addr = "status"
        /\ \E j \in first .. last : vdesc[j].addr = "load"
        /\ VOffset(first, last) % VBlock = 0

\* Every read returns if the host answers in the end.
ReadsReturn == (vcall.at # "idle") ~> (vcall.at = "idle")

\* The host only sees whole requests, and what a read returns are the bytes at
\* the position of its instance.
DiskReadsRight == []ChainsWhole /\ ReadsRight
=============================================================================
