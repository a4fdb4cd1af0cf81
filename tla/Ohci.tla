-------------------------------- MODULE Ohci ---------------------------------
(***************************************************************************)
(* The OHCI driver of drivers/usbohci.c against the host controller: the   *)
(* control and bulk transfers, the interrupt queues and the done queue.    *)
(*                                                                         *)
(* The controller retires transfer descriptors (TDs) while the driver      *)
(* runs, links them newest first, and hands the chain over by writing      *)
(* HccaDoneHead.  The driver waits with mdelay between taking a list away  *)
(* from the controller and freeing it; the action after such a delay has   *)
(* the guard that the controller has begun a new frame.                    *)
(*                                                                         *)
(* The TDs of an interrupt queue are numbered; those of control and bulk   *)
(* transfers are alike, and only their number counts.  A TD moves one      *)
(* packet.  How buffers are cut up into TDs is left out.                   *)
(***************************************************************************)
EXTENDS Integers, Sequences, FiniteSets, Functions

CONSTANTS
  Memory,       \* bound: a client's transfer starts if its TDs fit in this number
  Queues,       \* interrupt queues
  Async,        \* the endpoint of control and bulk transfers
  ReqCount,     \* TDs of each interrupt queue: 20 for keyboards and hubs
  Slots,        \* slots of HccaInterruptTable: 32
  Timings,      \* reqtiming
  Lengths,      \* TDs of a transfer
  Idle,         \* the dummy ED periodic_ed
  Outcomes,     \* what becomes of a packet: "ok", or an error after which the
                \* device has "taken" it or not ("lost")
  Swapped       \* whether __le32_to_cpu swaps bytes: the build for big endian

Tds == UNION {{q} \X (0 .. ReqCount[q]) : q \in Queues}
AsyncTd == <<Async, 0>>
Eds == Queues \cup {Async}
Slot == 0 .. Slots - 1

ASSUME OhciAssumption ==
  /\ Memory \in Nat /\ Idle \notin Eds /\ Async \notin Queues
  /\ ReqCount \in [Queues -> Nat \ {0}] /\ Slots \in Nat \ {0} /\ Timings \subseteq Nat \ {0}
  /\ Lengths \subseteq Nat /\ Swapped \in BOOLEAN
  /\ Outcomes \subseteq {"ok", "taken", "lost"}

VARIABLES
  used,         \* TDs of queues that are allocated
  asyncUsed,    \* number of the other allocated TDs
  ed,           \* endpoint descriptors: TDs from head to tail, the dummy TD at
                \* the tail, the halted bit
  table,        \* HccaInterruptTable
  enabled,      \* ControlListEnable, BulkListEnable
  frame,        \* what the controller serves in this frame
  hcDone,       \* its done queue, newest first, by endpoint: the driver treats
                \* the TDs of different endpoints independently
  hccaDone,     \* the chain at HccaDoneHead
  wdh,          \* WritebackDoneHead
  intrq,        \* interrupt queues: state, fetched TDs, remaining_tds
  toggle,       \* whether the toggle of the bulk endpoint, in ep->toggle or its
                \* ED, and that of the device "agree", "differ", or may do either
                \* ("unknown") after a timeout or a failed clear_stall
  pc, call,     \* where the driver waits, and in which call
  arrived       \* TDs in the order in which packets came, not yet polled

ovars == <<used, asyncUsed, ed, table, enabled, frame, hcDone, hccaDone, wdh,
           intrq, toggle, pc, call, arrived>>

NoneDone == [e \in Eds |-> <<>>]
NoEd == [tds |-> <<>>, dummy |-> <<>>, halted |-> FALSE]
NoQueue == [state |-> "none", list |-> <<>>, remaining |-> 0]
NoCall == [kind |-> "none", queue |-> Idle, late |-> FALSE, failure |-> 0]

OhciInit ==
  /\ used = {} /\ asyncUsed = 0
  /\ ed = [e \in Eds |-> NoEd]
  /\ table = [s \in Slot |-> Idle]
  /\ enabled = FALSE
  /\ frame = [slot |-> 0, periodic |-> Idle, async |-> FALSE]
  /\ hcDone = NoneDone /\ hccaDone = NoneDone /\ wdh = FALSE
  /\ intrq = [q \in Queues |-> NoQueue]
  /\ toggle = "agree"
  /\ pc = "idle" /\ call = NoCall
  /\ arrived = [q \in Queues |-> <<>>]

-----------------------------------------------------------------------------
\* The host controller.

HcFrame ==
  LET s == (frame.slot + 1) % Slots
  IN /\ frame' = [slot |-> s, periodic |-> table[s], async |-> enabled]
     /\ UNCHANGED <<used, asyncUsed, ed, table, enabled, hcDone, hccaDone, wdh,
                    intrq, toggle, pc, call, arrived>>

Serves(e) == e = frame.periodic \/ (e = Async /\ (enabled \/ frame.async))

\* It retires the first TD of an endpoint.  An error halts the endpoint.
HcRetire(e, outcome) ==
  LET td == Head(ed[e].tds)
  IN /\ Serves(e) /\ ~ed[e].halted /\ ed[e].tds # <<>>
     /\ ed' = [ed EXCEPT ![e].tds = Tail(@), ![e].halted = (outcome # "ok")]
     /\ hcDone' = [hcDone EXCEPT ![e] = <<td>> \o @]
     /\ arrived' = IF e = Async THEN arrived ELSE [arrived EXCEPT ![e] = Append(@, td)]
     /\ toggle' = IF e = Async /\ call.kind = "bulk" /\ outcome = "taken" /\ toggle = "agree"
                  THEN "differ" ELSE toggle
     /\ UNCHANGED <<used, asyncUsed, table, enabled, frame, hccaDone, wdh, intrq, pc, call>>

\* It writes the done queue back at some time after the driver took the last one.
HcWriteback ==
  /\ hcDone # NoneDone /\ ~wdh
  /\ hccaDone' = hcDone /\ hcDone' = NoneDone /\ wdh' = TRUE
  /\ UNCHANGED <<used, asyncUsed, ed, table, enabled, frame, intrq, toggle, pc, call, arrived>>

-----------------------------------------------------------------------------
\* The done queue: async TDs and TDs of destroyed queues are freed, a destroyed
\* queue with its last TD; the others are appended to their queues, in the
\* order in which they were retired.
InOrder(chain) == [i \in 1 .. Len(chain) |-> chain[Len(chain) + 1 - i]]
Done(q) == IF wdh THEN InOrder(hccaDone[q]) ELSE <<>>
Freed_Fetched == UNION {Range(Done(q)) : q \in Queues}
Freed == UNION {Range(Done(q)) : q \in {q \in Queues : intrq[q].state = "destroyed"}}
Processed_Reversed(q) ==
  IF intrq[q].state # "destroyed"
  THEN [intrq[q] EXCEPT !.list = @ \o InOrder(Done(q))] ELSE intrq[q]
Processed(q) ==
  LET r == intrq[q].remaining - Len(Done(q))
  IN IF intrq[q].state # "destroyed"
     THEN [intrq[q] EXCEPT !.list = @ \o Done(q)]
     ELSE IF Done(q) # <<>> /\ r = 0 THEN NoQueue
     ELSE [intrq[q] EXCEPT !.remaining = r]
acknowledge == wdh' = FALSE /\ hccaDone' = NoneDone

-----------------------------------------------------------------------------
\* Interrupt queues.

\* The slots that ohci_create_intr_queue takes: from i on the next free one,
\* then timing slots further.
Placed(timing) ==
  LET place[i \in Nat] ==
        LET open == {s \in Slot : s >= i /\ table[s] = Idle}
        IN IF open = {} THEN {}
           ELSE LET s == CHOOSE s \in open : \A t \in open : s <= t
                IN {s} \cup place[s + timing]
  IN place[0]

ohci_create_intr_queue(q, timing) ==
  /\ pc = "idle" /\ intrq[q].state = "none"
  /\ used' = used \cup {<<q, i>> : i \in 0 .. ReqCount[q]}
  /\ ed' = [ed EXCEPT ![q] = [tds |-> [i \in 1 .. ReqCount[q] |-> <<q, i>>], dummy |-> <<q, 0>>,
                              halted |-> FALSE]]
  /\ intrq' = [intrq EXCEPT ![q] = [state |-> "live", list |-> <<>>, remaining |-> ReqCount[q]]]
  /\ table' = [s \in Slot |-> IF s \in Placed(timing) THEN q ELSE table[s]]
  /\ IF Placed(timing) = {} THEN pc' = "unhooked" /\ call' = [NoCall EXCEPT !.queue = q]
     ELSE UNCHANGED <<pc, call>>
  /\ UNCHANGED <<asyncUsed, enabled, frame, hcDone, hccaDone, wdh, toggle, arrived>>

\* ohci_destroy_intr_queue up to the delay,
unhook_intr_queue(q) ==
  /\ pc = "idle" /\ intrq[q].state = "live"
  /\ table' = [s \in Slot |-> IF table[s] = q THEN Idle ELSE table[s]]
  /\ pc' = "unhooked" /\ call' = [NoCall EXCEPT !.queue = q]
  /\ UNCHANGED <<used, asyncUsed, ed, enabled, frame, hcDone, hccaDone, wdh,
                 intrq, toggle, arrived>>

\* and after it.  The TDs fetched from the done queue are freed through a
\* pointer that __le32_to_cpu has converted.
FrameOver_NoDelay(q) == TRUE
FrameOver(q) == frame.periodic # q
Remaining(q) == intrq[q].remaining - Len(ed[q].tds) - Len(Processed(q).list)
Destroyed(q) == [state |-> "destroyed", list |-> <<>>, remaining |-> Remaining(q)]
ohci_destroy_intr_queue(q) ==
  LET fetched == Range(Processed(q).list)
      unprocessed == Range(ed[q].tds) \cup {ed[q].dummy}
  IN /\ pc = "unhooked" /\ call.queue = q /\ FrameOver(q)
     /\ used' = used \ (unprocessed \cup Freed \cup (IF Swapped THEN {} ELSE fetched))
     /\ asyncUsed' = asyncUsed - Len(Done(Async))
     /\ intrq' = [p \in Queues |->
          IF p = q THEN Destroyed(q) ELSE Processed(p)]
     /\ ed' = [ed EXCEPT ![q] = NoEd]
     /\ arrived' = [arrived EXCEPT ![q] = <<>>]
     /\ acknowledge
     /\ pc' = "idle" /\ call' = NoCall
     /\ UNCHANGED <<table, enabled, frame, hcDone, toggle>>

\* The oldest fetched TD becomes the dummy and the dummy a TD for its buffer.
ohci_poll_intr_queue(q) ==
  LET list == Processed(q).list
  IN /\ pc = "idle" /\ intrq[q].state = "live"
     /\ used' = used \ Freed /\ asyncUsed' = asyncUsed - Len(Done(Async))
     /\ acknowledge
     /\ IF list = <<>>
        THEN /\ intrq' = [p \in Queues |-> Processed(p)]
             /\ UNCHANGED <<ed, arrived>>
        ELSE /\ intrq' = [p \in Queues |-> IF p = q THEN [Processed(q) EXCEPT !.list = Tail(@)]
                                           ELSE Processed(p)]
             /\ ed' = [ed EXCEPT ![q].tds = Append(@, ed[q].dummy), ![q].dummy = Head(list)]
             /\ arrived' = [arrived EXCEPT ![q] = Tail(@)]
     /\ UNCHANGED <<table, enabled, frame, hcDone, toggle, pc, call>>

-----------------------------------------------------------------------------
\* Control and bulk transfers.

\* ohci_control and ohci_bulk up to the wait.
activate(n) ==
  /\ asyncUsed' = asyncUsed + n + 1
  /\ ed' = [ed EXCEPT ![Async] = [tds |-> [i \in 1 .. n |-> AsyncTd], dummy |-> AsyncTd,
                                  halted |-> FALSE]]
  /\ enabled' = TRUE
  /\ pc' = "wait"
  /\ UNCHANGED <<used, table, frame, hcDone, hccaDone, wdh, intrq, toggle, arrived>>

Fits(n) == asyncUsed + n + 1 <= Memory
ohci_control(n) == /\ pc = "idle" /\ n >= 2 /\ Fits(n) /\ activate(n)
                   /\ call' = [NoCall EXCEPT !.kind = "control"]
ohci_bulk(n) == /\ pc = "idle" /\ Fits(n) /\ activate(n)
                /\ call' = [NoCall EXCEPT !.kind = "bulk"]

\* It ends when the TDs are gone, when the endpoint halts, or by timeout.
WaitOver_NoTimeout(timeout) == ~timeout /\ (ed[Async].tds = <<>> \/ ed[Async].halted)
WaitOver(timeout) == timeout <=> ed[Async].tds # <<>> /\ ~ed[Async].halted
wait_for_ed(timeout) ==
  /\ pc = "wait" /\ WaitOver(timeout)
  /\ used' = used \ Freed /\ asyncUsed' = asyncUsed - Len(Done(Async))
  /\ intrq' = [p \in Queues |-> Processed(p)]
  /\ acknowledge
  /\ call' = [call EXCEPT !.failure = IF ed[Async].halted THEN 1 ELSE 0, !.late = timeout]
  /\ pc' = "settle"
  /\ UNCHANGED <<ed, table, enabled, frame, hcDone, toggle, arrived>>

disable_list ==
  /\ pc = "settle" /\ enabled' = FALSE /\ pc' = "disabled"
  /\ UNCHANGED <<used, asyncUsed, ed, table, frame, hcDone, hccaDone, wdh, intrq,
                 toggle, call, arrived>>

\* The toggle of the ED is saved and the unprocessed TDs are freed
\* (ohci_free_ed).  A failed bulk transfer goes on with clear_stall, which
\* resets both toggles if the device answers and else only the host's.
SavedToggle_Kept == IF call.late THEN "unknown" ELSE toggle
SavedToggle ==
  CASE call.kind = "bulk" -> IF call.late THEN "unknown" ELSE toggle
    [] call.kind = "stall" -> IF call.late \/ call.failure = 1 THEN "unknown" ELSE "agree"
    [] OTHER -> toggle
finish_transfer ==
  /\ pc = "disabled" /\ ~frame.async
  /\ toggle' = SavedToggle
  /\ asyncUsed' = asyncUsed - Len(ed[Async].tds) - 1
  /\ ed' = [ed EXCEPT ![Async] = NoEd]
  /\ IF call.kind = "bulk" /\ call.failure = 1
     THEN pc' = "stalled" /\ UNCHANGED call
     ELSE pc' = "idle" /\ call' = NoCall
  /\ UNCHANGED <<used, intrq, arrived, table, enabled, frame, hcDone,
                 hccaDone, wdh>>

clear_stall ==
  pc = "stalled" /\ activate(2) /\ call' = [NoCall EXCEPT !.kind = "stall"]

-----------------------------------------------------------------------------
Client ==
  \/ \E q \in Queues, timing \in Timings : ohci_create_intr_queue(q, timing)
  \/ \E q \in Queues : unhook_intr_queue(q)
  \/ \E q \in Queues : ohci_poll_intr_queue(q)
  \/ \E n \in Lengths : ohci_control(n)
  \/ \E n \in Lengths : ohci_bulk(n)

\* What the driver does by itself once a call is made.
OhciDriver ==
  \/ \E timeout \in BOOLEAN : wait_for_ed(timeout)
  \/ disable_list
  \/ finish_transfer
  \/ clear_stall
  \/ \E q \in Queues : ohci_destroy_intr_queue(q)

Controller ==
  \/ HcFrame
  \/ \E e \in Eds, o \in Outcomes : HcRetire(e, o)
  \/ HcWriteback

OhciNext == Client \/ OhciDriver \/ Controller

\* Frames go on, and a call runs on to its next delay.
OhciSpec == OhciInit /\ [][OhciNext]_ovars /\ WF_ovars(OhciDriver) /\ WF_ovars(HcFrame)

-----------------------------------------------------------------------------
\* Where a TD is linked.
Lists ==
  {<<"hc", e, hcDone[e]>> : e \in Eds} \cup {<<"hcca", e, hccaDone[e]>> : e \in Eds}
  \cup {<<"ed", e, Append(ed[e].tds, ed[e].dummy)>> : e \in Eds}
  \cup {<<"fetched", q, intrq[q].list>> : q \in Queues}
Places(td) == UNION {{<<l, i>> : i \in {i \in DOMAIN l[3] : l[3][i] = td}} : l \in Lists}

\* A TD in use is on exactly one list, and a free one on none: what
\* ohci_free_ed, ohci_destroy_intr_queue and ohci_process_done_queue free
\* between them is freed once, never too early, and nothing is lost, however
\* the controller's progress falls between their steps.
EachTdOnOneList ==
  /\ \A td \in Tds : Cardinality(Places(td)) = IF td \in used THEN 1 ELSE 0
  /\ Cardinality(Places(AsyncTd)) = asyncUsed

\* Nothing refers to what has been freed: the controller works on no endpoint
\* descriptor that is gone, as the delays in ohci_destroy_intr_queue,
\* ohci_control and ohci_bulk are where they are needed; and a TD that
\* ohci_process_done_queue has yet to see names a queue that is still there,
\* as remaining_tds counts right.
InFlight(q) == Len(hcDone[q]) + Len(hccaDone[q])
FreedNotUsed ==
  /\ \A q \in Queues : (frame.periodic = q \/ q \in Range(table)) => intrq[q].state = "live"
  /\ (enabled \/ frame.async) => ed[Async].dummy = AsyncTd
  /\ \A q \in Queues : InFlight(q) > 0 => intrq[q].state # "none"

\* ohci_poll_intr_queue hands out packets in the order in which they came,
\* although the done queue is in reversed order and comes in pieces.
ArrivalOrder ==
  \A q \in Queues : intrq[q].state = "live" =>
    arrived[q] = intrq[q].list \o InOrder(hcDone[q] \o hccaDone[q])

\* Between transfers ohci_bulk and clear_stall leave the toggle of the endpoint
\* where the device has it, also after errors in the middle of a transfer.
BulkTogglesAgree == pc = "idle" => toggle # "differ"

\* Every call returns, even if the controller never retires a TD.
CallsReturn == pc # "idle" ~> pc = "idle"

\* A transfer that leaves TDs unprocessed fails: wait_for_ed has reported
\* "Error: ohci: endpoint descriptor processing timed out."
TimeoutReported ==
  pc = "disabled" /\ ~frame.async /\ ed[Async].tds # <<>> => call.failure = 1

\* "ohci_process_done_queue() will free the remaining TDs and finish the
\* interrupt queue off once all TDs are gone."
DestroyedQueueFreed ==
  \A q \in Queues : intrq[q].state = "destroyed" => InFlight(q) > 0

=============================================================================
