----------------------------- MODULE OhciProofs ------------------------------
(***************************************************************************)
(* The safety properties of the OHCI driver, for any number of interrupt   *)
(* queues, TDs, table slots and transfer lengths.                          *)
(***************************************************************************)
EXTENDS Ohci, TLAPS

\* Seconds that the SMT solver has for a leaf.
USE SMTT(60)

\* The TDs of an endpoint, all TDs, and the types of the records.
TdsOf(e) == IF e = Async THEN {AsyncTd} ELSE {e} \X (0 .. ReqCount[e])
AllTds == UNION {TdsOf(e) : e \in Eds}
EdType == [tds : Seq(AllTds), dummy : AllTds \cup {<<>>}, halted : BOOLEAN]
QueueType == [state : {"none", "live", "destroyed"}, list : Seq(AllTds), remaining : Int]
CallType == [kind : {"none", "control", "bulk", "stall"}, queue : Queues \cup {Idle},
             late : BOOLEAN, failure : {0, 1}]
FrameType == [slot : Slot, periodic : Queues \cup {Idle}, async : BOOLEAN]

\* The type invariant.
OhciTypeOK ==
  /\ used \subseteq Tds /\ asyncUsed \in Int
  /\ ed \in [Eds -> EdType]
  /\ table \in [Slot -> Queues \cup {Idle}]
  /\ enabled \in BOOLEAN
  /\ frame \in FrameType
  /\ hcDone \in [Eds -> Seq(AllTds)] /\ hccaDone \in [Eds -> Seq(AllTds)] /\ wdh \in BOOLEAN
  /\ intrq \in [Queues -> QueueType]
  /\ toggle \in {"agree", "differ", "unknown"}
  /\ pc \in {"idle", "unhooked", "wait", "settle", "disabled", "stalled"}
  /\ call \in CallType
  /\ \A q \in Queues : intrq[q].state = "live" => ed[q].dummy \in AllTds

\* InOrder keeps the length and the elements of a sequence.
LEMMA InOrderType ==
  ASSUME NEW S, NEW s \in Seq(S)
  PROVE  /\ InOrder(s) \in Seq(S) /\ Len(InOrder(s)) = Len(s)
         /\ s = <<>> => InOrder(s) = <<>>
BY DEF InOrder

\* Taking the first of a list leaves a list.
LEMMA HeadTail ==
  ASSUME NEW S, NEW s \in Seq(S), s # <<>>
  PROVE  Head(s) \in S /\ Tail(s) \in Seq(S) /\ Len(Tail(s)) = Len(s) - 1
OBVIOUS

\* What ohci_process_done_queue leaves of a queue has the type of a queue.
LEMMA ProcessedType ==
  ASSUME OhciTypeOK, NEW q \in Queues
  PROVE  /\ Done(q) \in Seq(AllTds) /\ Len(Done(q)) \in Nat
         /\ Processed(q) \in QueueType
<1>1. q \in Eds /\ hccaDone[q] \in Seq(AllTds)
  BY Zenon DEF OhciTypeOK, Eds
<1>2. Done(q) \in Seq(AllTds)
  BY <1>1, InOrderType DEF Done
<1>3. Len(Done(q)) \in Nat
  BY <1>2
<1>4. intrq[q] \in QueueType /\ NoQueue \in QueueType
  BY DEF OhciTypeOK, QueueType, NoQueue
<1>5. intrq[q].list \o Done(q) \in Seq(AllTds)
  BY <1>2, <1>4 DEF QueueType
<1>6. intrq[q].remaining - Len(Done(q)) \in Int
  BY <1>3, <1>4 DEF QueueType
<1>7. [intrq[q] EXCEPT !.list = @ \o Done(q)] \in QueueType
  BY <1>4, <1>5, Zenon DEF QueueType
<1>8. [intrq[q] EXCEPT !.remaining = @ - Len(Done(q))] \in QueueType
  BY <1>4, <1>6, Zenon DEF QueueType
<1> QED BY <1>2, <1>3, <1>4, <1>7, <1>8, Zenon DEF Processed

\* The names of the queues and endpoints, and of the TDs.
LEMMA Names ==
  /\ Async \in Eds /\ Queues \subseteq Eds /\ Async \notin Queues /\ Idle \notin Queues
  /\ AsyncTd \in AllTds
  /\ \A q \in Queues : \A i \in 0 .. ReqCount[q] : <<q, i>> \in AllTds
  /\ \A q \in Queues : ReqCount[q] \in Nat \ {0}
  /\ Tds \subseteq AllTds
<1>1. Async \in Eds /\ Queues \subseteq Eds /\ Async \notin Queues /\ Idle \notin Queues
  BY OhciAssumption, Zenon DEF Eds
<1>2. TdsOf(Async) = {AsyncTd} /\ \A q \in Queues : TdsOf(q) = {q} \X (0 .. ReqCount[q])
  BY <1>1, Zenon DEF TdsOf
<1>3. \A e \in Eds : TdsOf(e) \subseteq AllTds
  BY Zenon DEF AllTds
<1>4. \A q \in Queues : ReqCount[q] \in Nat \ {0}
  BY OhciAssumption, Zenon
<1> QED BY <1>1, <1>2, <1>3, <1>4, Zenon DEF Tds

\* The driver and the controller keep the types of their variables.
THEOREM OhciTypeInvariant == OhciSpec => []OhciTypeOK
<1>1. OhciInit => OhciTypeOK
  <2> SUFFICES ASSUME OhciInit PROVE OhciTypeOK
    BY Zenon
  <2>1. NoEd \in EdType /\ NoQueue \in QueueType /\ NoCall \in CallType
    BY DEF NoEd, EdType, NoQueue, QueueType, NoCall, CallType
  <2>2. 0 \in Slot
    BY OhciAssumption DEF Slot
  <2>3. [slot |-> 0, periodic |-> Idle, async |-> FALSE] \in FrameType
    BY <2>2, Zenon DEF FrameType
  <2>4. enabled \in BOOLEAN /\ wdh \in BOOLEAN
    BY Zenon DEF OhciInit
  <2>5. \A q \in Queues : intrq[q].state # "live"
    BY Zenon DEF OhciInit, NoQueue
  <2> QED BY <2>1, <2>3, <2>4, <2>5 DEF OhciInit, OhciTypeOK, NoneDone
<1>2. OhciTypeOK /\ [OhciNext]_ovars => OhciTypeOK'
  <2> SUFFICES ASSUME OhciTypeOK, [OhciNext]_ovars PROVE OhciTypeOK'
    BY Zenon
  <2> USE Names
  <2>a. /\ NoEd \in EdType /\ NoQueue \in QueueType /\ NoCall \in CallType
        /\ NoneDone \in [Eds -> Seq(AllTds)]
    BY DEF NoEd, EdType, NoQueue, QueueType, NoCall, CallType, NoneDone
  <2>b. \A e \in Eds : /\ ed[e] \in EdType /\ ed[e].tds \in Seq(AllTds)
                        /\ hcDone[e] \in Seq(AllTds) /\ hccaDone[e] \in Seq(AllTds)
    BY Zenon DEF OhciTypeOK, EdType
  <2>c. \A p \in Queues : Processed(p) \in QueueType
    BY ProcessedType, Zenon
  <2>d. \A p \in Queues : Processed(p).state = "live" => intrq[p].state = "live"
    BY Zenon DEF Processed, NoQueue, OhciTypeOK, QueueType
  <2>1. ASSUME NEW q \in Queues, NEW timing \in Timings, ohci_create_intr_queue(q, timing)
        PROVE  OhciTypeOK'
    <3> DEFINE new == [tds |-> [i \in 1 .. ReqCount[q] |-> <<q, i>>], dummy |-> <<q, 0>>,
                       halted |-> FALSE]
               nq == [state |-> "live", list |-> <<>>, remaining |-> ReqCount[q]]
    <3>1. new.tds \in Seq(AllTds) /\ new.dummy \in AllTds
      BY DEF new
    <3>2. new \in EdType
      BY <3>1, Zenon DEF EdType
    <3>3. nq \in QueueType
      BY DEF QueueType
    <3>4. [NoCall EXCEPT !.queue = q] \in CallType
      BY Zenon DEF NoCall, CallType
    <3>5. used \cup {<<q, i>> : i \in 0 .. ReqCount[q]} \subseteq Tds
      BY DEF Tds, OhciTypeOK
    <3>6. [s \in Slot |-> IF s \in Placed(timing) THEN q ELSE table[s]] \in [Slot -> Queues \cup {Idle}]
      BY Zenon DEF OhciTypeOK
    <3>7. \A p \in Queues : p # q => ed'[p] = ed[p] /\ intrq'[p] = intrq[p]
      BY <2>1, Zenon DEF ohci_create_intr_queue, OhciTypeOK
    <3>8. ed'[q] = new
      BY <2>1, Zenon DEF ohci_create_intr_queue, OhciTypeOK
    <3>9. \A p \in Queues : intrq'[p].state = "live" => ed'[p].dummy \in AllTds
      BY <3>1, <3>7, <3>8, Zenon DEF OhciTypeOK
    <3> HIDE DEF new, nq
    <3> QED BY <2>1, <3>2, <3>3, <3>4, <3>5, <3>6, <3>9, Zenon DEF ohci_create_intr_queue, OhciTypeOK, new, nq
  <2>2. ASSUME NEW q \in Queues, unhook_intr_queue(q) PROVE OhciTypeOK'
    <3>1. [NoCall EXCEPT !.queue = q] \in CallType
      BY Zenon DEF NoCall, CallType
    <3> QED BY <2>2, <3>1, Zenon DEF unhook_intr_queue, OhciTypeOK
  <2>3. ASSUME NEW q \in Queues, ohci_poll_intr_queue(q) PROVE OhciTypeOK'
    <3> DEFINE list == Processed(q).list
    <3>2. list \in Seq(AllTds) /\ Len(Done(Async)) \in Int
      BY <2>c, <2>b, InOrderType DEF QueueType, Done
    <3>3. used' \subseteq Tds /\ asyncUsed' \in Int
      BY <2>3, <3>2 DEF ohci_poll_intr_queue, OhciTypeOK
    <3>4. hccaDone' \in [Eds -> Seq(AllTds)] /\ wdh' \in BOOLEAN
      BY <2>3, <2>a, Zenon DEF ohci_poll_intr_queue, acknowledge
    <3>5. CASE list = <<>>
      <4>1. intrq' = [p \in Queues |-> Processed(p)] /\ ed' = ed
        BY <2>3, <3>5, Zenon DEF ohci_poll_intr_queue
      <4>2. \A p \in Queues : intrq'[p].state = "live" => ed'[p].dummy \in AllTds
        BY <2>d, <4>1, Zenon DEF OhciTypeOK
      <4> QED BY <2>3, <2>c, <3>3, <3>4, <4>1, <4>2, Zenon DEF ohci_poll_intr_queue, OhciTypeOK
    <3>6. CASE list # <<>>
      <4>1. Tail(list) \in Seq(AllTds) /\ Head(list) \in AllTds
        BY <3>2, <3>6
      <4>2. [Processed(q) EXCEPT !.list = Tail(@)] \in QueueType
        BY <2>c, <4>1, Zenon DEF QueueType
      <4>3. intrq' \in [Queues -> QueueType]
        BY <2>3, <2>c, <3>6, <4>2, ZenonT(60) DEF ohci_poll_intr_queue
      <4>4. /\ ed' \in [Eds -> EdType] /\ ed'[q].dummy \in AllTds
            /\ \A p \in Queues : p # q => ed'[p] = ed[p]
        <5>1. /\ ed[q] \in EdType /\ ed \in [Eds -> EdType]
              /\ ed[q].dummy \in AllTds
          BY <2>b, <2>3, Zenon DEF OhciTypeOK, ohci_poll_intr_queue
        <5>2. Append(ed[q].tds, ed[q].dummy) \in Seq(AllTds)
          BY <5>1, <2>b
        <5>3. ed' = [ed EXCEPT ![q].tds = Append(@, ed[q].dummy), ![q].dummy = Head(list)]
          BY <2>3, <3>6, Zenon DEF ohci_poll_intr_queue
        <5> HIDE DEF list
        <5> QED BY <4>1, <5>1, <5>2, <5>3, Zenon DEF EdType
      <4>5. \A p \in Queues : intrq'[p].state = "live" => ed'[p].dummy \in AllTds
        <5>1. \A p \in Queues : p # q => intrq'[p] = Processed(p)
          BY <2>3, <3>6, Zenon DEF ohci_poll_intr_queue
        <5> QED BY <2>d, <4>4, <5>1, Zenon DEF OhciTypeOK
      <4> QED BY <2>3, <3>3, <3>4, <4>3, <4>4, <4>5, Zenon DEF ohci_poll_intr_queue, OhciTypeOK
    <3> QED BY <3>5, <3>6, Zenon
  <2>4. ASSUME NEW n \in Nat, activate(n), call' \in CallType PROVE OhciTypeOK'
    <3> DEFINE new == [tds |-> [i \in 1 .. n |-> AsyncTd], dummy |-> AsyncTd, halted |-> FALSE]
    <3>1. new.tds \in Seq(AllTds)
      BY DEF new
    <3>2. new \in EdType
      BY <3>1, Zenon DEF EdType
    <3>3. /\ ed' = [ed EXCEPT ![Async] = new] /\ asyncUsed' = asyncUsed + n + 1
          /\ intrq' = intrq /\ used' = used /\ table' = table /\ frame' = frame
          /\ hcDone' = hcDone /\ hccaDone' = hccaDone /\ toggle' = toggle
      BY <2>4, Zenon DEF activate
    <3>4. enabled' \in BOOLEAN /\ wdh' \in BOOLEAN /\ pc' = "wait"
      BY <2>4, Zenon DEF activate, OhciTypeOK
    <3> HIDE DEF new
    <3>5. \A p \in Queues : intrq'[p].state = "live" => ed'[p].dummy \in AllTds
      BY <3>3, Zenon DEF OhciTypeOK
    <3> QED BY <2>4, <3>2, <3>3, <3>4, <3>5 DEF OhciTypeOK
  <2>5. ASSUME NEW n \in Lengths, ohci_control(n) \/ ohci_bulk(n) PROVE OhciTypeOK'
    <3>1. n \in Nat /\ activate(n)
      BY <2>5, OhciAssumption, Zenon DEF ohci_control, ohci_bulk
    <3>2. call' \in CallType
      BY <2>5, Zenon DEF ohci_control, ohci_bulk, CallType, NoCall
    <3> QED BY <3>1, <3>2, <2>4, Zenon
  <2>6. CASE clear_stall
    <3>1. call' \in CallType
      BY <2>6, Zenon DEF clear_stall, CallType, NoCall
    <3> QED BY <2>6, <3>1, <2>4, Zenon DEF clear_stall
  <2>7. ASSUME NEW timeout \in BOOLEAN, wait_for_ed(timeout) PROVE OhciTypeOK'
    <3>1. used' \subseteq Tds /\ asyncUsed' \in Int
      <4>1. Len(Done(Async)) \in Int
        BY <2>b, InOrderType DEF Done
      <4> QED BY <2>7, <4>1 DEF wait_for_ed, OhciTypeOK
    <3>2. hccaDone' \in [Eds -> Seq(AllTds)] /\ wdh' \in BOOLEAN
      BY <2>7, <2>a, Zenon DEF wait_for_ed, acknowledge
    <3>3. intrq' = [p \in Queues |-> Processed(p)] /\ ed' = ed
      BY <2>7, Zenon DEF wait_for_ed
    <3>4. \A p \in Queues : intrq'[p].state = "live" => ed'[p].dummy \in AllTds
      BY <2>d, <3>3, Zenon DEF OhciTypeOK
    <3>5. call' \in CallType
      <4> DEFINE f == IF ed[Async].halted THEN 1 ELSE 0
      <4>1. f \in {0, 1}
        BY Zenon
      <4>2. call' = [call EXCEPT !.failure = f, !.late = timeout]
        BY <2>7, Zenon DEF wait_for_ed
      <4> HIDE DEF f
      <4> QED BY <4>1, <4>2, Zenon DEF OhciTypeOK, CallType
    <3> QED BY <2>7, <2>c, <3>1, <3>2, <3>3, <3>4, <3>5 DEF wait_for_ed, OhciTypeOK
  <2>8. CASE disable_list
    <3>1. enabled' \in BOOLEAN
      BY <2>8, Zenon DEF disable_list
    <3> QED BY <2>8, <3>1, Zenon DEF disable_list, OhciTypeOK
  <2>9. CASE finish_transfer
    <3>1. toggle' \in {"agree", "differ", "unknown"}
      BY <2>9, Zenon DEF finish_transfer, SavedToggle, OhciTypeOK
    <3>2. asyncUsed' \in Int
      BY <2>9, <2>b DEF finish_transfer, OhciTypeOK
    <3>3. ed' = [ed EXCEPT ![Async] = NoEd] /\ intrq' = intrq
      BY <2>9, Zenon DEF finish_transfer
    <3>4. \A p \in Queues : intrq'[p].state = "live" => ed'[p].dummy \in AllTds
      BY <3>3, Zenon DEF OhciTypeOK
    <3>5. pc' \in {"stalled", "idle"} /\ call' \in CallType
      BY <2>9, <2>a, Zenon DEF finish_transfer, OhciTypeOK
    <3> QED BY <2>9, <2>a, <3>1, <3>2, <3>3, <3>4, <3>5, ZenonT(60) DEF finish_transfer, OhciTypeOK
  <2>10. ASSUME NEW q \in Queues, ohci_destroy_intr_queue(q) PROVE OhciTypeOK'
    <3>1. used' \subseteq Tds /\ asyncUsed' \in Int
      <4>1. Len(Done(Async)) \in Int
        BY <2>b, InOrderType DEF Done
      <4> QED BY <2>10, <4>1 DEF ohci_destroy_intr_queue, OhciTypeOK
    <3>2. hccaDone' \in [Eds -> Seq(AllTds)] /\ wdh' \in BOOLEAN
      BY <2>10, <2>a, Zenon DEF ohci_destroy_intr_queue, acknowledge
    <3>3. intrq' = [p \in Queues |-> IF p = q THEN Destroyed(q) ELSE Processed(p)]
      BY <2>10, Zenon DEF ohci_destroy_intr_queue
    <3>4. Destroyed(q) \in QueueType /\ Destroyed(q).state = "destroyed"
      <4>1. Remaining(q) \in Int
        <5>1. Processed(q) \in QueueType /\ intrq[q] \in QueueType
          BY <2>c, Zenon DEF OhciTypeOK
        <5>2. Len(Processed(q).list) \in Int /\ intrq[q].remaining \in Int
          BY <5>1 DEF QueueType
        <5>3. Len(ed[q].tds) \in Int
          BY <2>b
        <5> QED BY <5>2, <5>3 DEF Remaining
      <4> QED BY <4>1 DEF Destroyed, QueueType
    <3>5. ed' = [ed EXCEPT ![q] = NoEd]
      BY <2>10, Zenon DEF ohci_destroy_intr_queue
    <3>6. \A p \in Queues : intrq'[p].state = "live" => ed'[p].dummy \in AllTds
      BY <2>d, <3>3, <3>4, <3>5, Zenon DEF OhciTypeOK
    <3>7. intrq' \in [Queues -> QueueType]
      BY <2>c, <3>3, <3>4, Zenon
    <3>8. /\ UNCHANGED <<table, enabled, frame, hcDone, toggle>>
          /\ pc' = "idle" /\ call' = NoCall
      BY <2>10, Zenon DEF ohci_destroy_intr_queue
    <3> QED BY <2>a, <3>1, <3>2, <3>5, <3>6, <3>7, <3>8, Zenon DEF OhciTypeOK
  <2>11. CASE HcFrame
    <3>1. (frame.slot + 1) % Slots \in Slot
      BY OhciAssumption DEF OhciTypeOK, FrameType, Slot
    <3>2. frame' \in FrameType
      <4>1. table[(frame.slot + 1) % Slots] \in Queues \cup {Idle} /\ enabled \in BOOLEAN
        BY <3>1, Zenon DEF OhciTypeOK
      <4> QED BY <2>11, <3>1, <4>1, Zenon DEF HcFrame, FrameType
    <3> QED BY <2>11, <3>2, Zenon DEF HcFrame, OhciTypeOK
  <2>12. ASSUME NEW e \in Eds, NEW o \in Outcomes, HcRetire(e, o) PROVE OhciTypeOK'
    <3> DEFINE td == Head(ed[e].tds)
               b == (o # "ok")
    <3>1. ed[e].tds # <<>> /\ ed[e].tds \in Seq(AllTds)
      BY <2>12, <2>b, Zenon DEF HcRetire
    <3>2. td \in AllTds /\ Tail(ed[e].tds) \in Seq(AllTds)
      BY <3>1, HeadTail, Zenon
    <3>3. ed' = [ed EXCEPT ![e].tds = Tail(@), ![e].halted = b]
      BY <2>12, Zenon DEF HcRetire
    <3>4. b \in BOOLEAN
      BY Zenon
    <3> HIDE DEF b, td
    <3>5. ed' \in [Eds -> EdType]
      <4>1. ed \in [Eds -> EdType]
        BY Zenon DEF OhciTypeOK
      <4> QED BY <3>2, <3>3, <3>4, <4>1, ZenonT(60) DEF EdType
    <3>6. \A p \in Eds : ed'[p].dummy = ed[p].dummy
      <4>1. ed \in [Eds -> EdType]
        BY Zenon DEF OhciTypeOK
      <4> QED BY <3>3, <4>1, Zenon DEF EdType
    <3>7. hcDone' \in [Eds -> Seq(AllTds)]
      <4>1. <<td>> \o hcDone[e] \in Seq(AllTds)
        BY <3>2, <2>b
      <4> QED BY <2>12, <4>1, Zenon DEF HcRetire, OhciTypeOK, td
    <3>8. toggle' \in {"agree", "differ", "unknown"}
      BY <2>12, Zenon DEF HcRetire, OhciTypeOK
    <3>9. \A p \in Queues : intrq'[p].state = "live" => ed'[p].dummy \in AllTds
      BY <2>12, <3>6, Zenon DEF HcRetire, OhciTypeOK
    <3> QED BY <2>12, <3>5, <3>7, <3>8, <3>9, Zenon DEF HcRetire, OhciTypeOK
  <2>13. CASE HcWriteback
    <3>1. wdh' \in BOOLEAN
      BY <2>13, Zenon DEF HcWriteback
    <3> QED BY <2>13, <2>a, <3>1, Zenon DEF HcWriteback, OhciTypeOK
  <2>14. CASE UNCHANGED ovars
    BY <2>14, Zenon DEF ovars, OhciTypeOK
  <2> QED BY <2>1, <2>2, <2>3, <2>5, <2>6, <2>7, <2>8, <2>9, <2>10, <2>11, <2>12, <2>13, <2>14, Zenon
         DEF OhciNext, Client, OhciDriver, Controller
<1> QED BY <1>1, <1>2, PTL DEF OhciSpec

\* A control or bulk transfer has its TDs on the endpoint.
Transfer == pc \in {"wait", "settle", "disabled"}

\* Where the driver is decides which lists the controller has, and a queue it
\* serves, or will serve, is live.
OhciControl ==
  /\ ~wdh => hccaDone = NoneDone
  /\ enabled => pc \in {"wait", "settle"}
  /\ frame.async => Transfer
  /\ Transfer => ed[Async].dummy = AsyncTd
  /\ ~Transfer => ed[Async] = NoEd
  /\ pc = "unhooked" => /\ call.queue \in Queues /\ intrq[call.queue].state = "live"
                        /\ \A s \in Slot : table[s] # call.queue
  /\ \A q \in Queues : frame.periodic = q => intrq[q].state = "live"
  /\ \A q \in Queues, s \in Slot : table[s] = q => intrq[q].state = "live"

\* Processing the done queue leaves live queues live.
LEMMA ProcessedLive ==
  ASSUME OhciTypeOK, NEW q \in Queues
  PROVE  Processed(q).state = "live" <=> intrq[q].state = "live"
BY Zenon DEF Processed, NoQueue, OhciTypeOK, QueueType

\* OhciControl is an invariant: the driver gives a transfer's descriptors back only
\* with the lists off, and no slot of the interrupt table has a queue that is gone.
THEOREM OhciControlInvariant == OhciSpec => []OhciControl
<1>1. OhciInit => OhciControl
  <2> SUFFICES ASSUME OhciInit PROVE OhciControl
    BY Zenon
  <2>1. frame.async = FALSE /\ enabled = FALSE /\ frame.periodic = Idle
    BY Zenon DEF OhciInit
  <2> QED BY <2>1, Names, Zenon DEF OhciInit, OhciControl, Transfer
<1>2. OhciTypeOK /\ OhciControl /\ [OhciNext]_ovars => OhciControl'
  <2> SUFFICES ASSUME OhciTypeOK, OhciControl, [OhciNext]_ovars PROVE OhciControl'
    BY Zenon
  <2> USE Names
  <2>1. ASSUME NEW q \in Queues, NEW timing \in Timings, ohci_create_intr_queue(q, timing)
        PROVE  OhciControl'
    <3>1. /\ pc = "idle" /\ intrq[q].state = "none"
          /\ UNCHANGED <<enabled, frame, hccaDone, wdh>>
          /\ intrq'[q].state = "live" /\ ed'[Async] = ed[Async]
          /\ \A p \in Queues : p # q => intrq'[p] = intrq[p]
      BY <2>1, Zenon DEF ohci_create_intr_queue, OhciTypeOK
    <3>2. \A s \in Slot : table[s] # q /\ frame.periodic # q
      BY <3>1, Zenon DEF OhciControl
    <3>3. \A s \in Slot : table'[s] = q \/ table'[s] = table[s]
      BY <2>1, Zenon DEF ohci_create_intr_queue, OhciTypeOK
    <3>4. CASE pc' = "idle"
      BY <3>1, <3>2, <3>3, <3>4 DEF OhciControl, Transfer
    <3>5. CASE pc' # "idle"
      <4>1. Placed(timing) = {} /\ pc' = "unhooked" /\ call'.queue = q
        BY <2>1, <3>1, <3>5, Zenon DEF ohci_create_intr_queue, NoCall
      <4>2. \A s \in Slot : table'[s] = table[s]
        BY <2>1, <4>1, Zenon DEF ohci_create_intr_queue
      <4> QED BY <3>1, <3>2, <4>1, <4>2 DEF OhciControl, Transfer
    <3> QED BY <3>4, <3>5, Zenon
  <2>2. ASSUME NEW q \in Queues, unhook_intr_queue(q) PROVE OhciControl'
    <3>1. /\ pc = "idle" /\ intrq[q].state = "live" /\ pc' = "unhooked" /\ call'.queue = q
          /\ UNCHANGED <<enabled, frame, hccaDone, wdh, intrq, ed>>
          /\ \A s \in Slot : table'[s] = IF table[s] = q THEN Idle ELSE table[s]
      BY <2>2, Zenon DEF unhook_intr_queue, NoCall
    <3> QED BY <3>1 DEF OhciControl, Transfer
  <2>3. ASSUME NEW q \in Queues, ohci_poll_intr_queue(q) PROVE OhciControl'
    <3>1. /\ pc = "idle" /\ hccaDone' = NoneDone
          /\ UNCHANGED <<table, enabled, frame, pc, call>>
      BY <2>3, Zenon DEF ohci_poll_intr_queue, acknowledge
    <3>2. ed'[Async] = ed[Async]
      BY <2>3, Zenon DEF ohci_poll_intr_queue, OhciTypeOK
    <3>3. \A p \in Queues : intrq[p].state = "live" => intrq'[p].state = "live"
      <4>1. Processed(q) \in QueueType
        BY ProcessedType, Zenon
      <4>2. [Processed(q) EXCEPT !.list = Tail(@)].state = Processed(q).state
        BY <4>1, Zenon DEF QueueType
      <4>3. \A p \in Queues : intrq'[p].state = Processed(p).state
        BY <2>3, <4>2, Zenon DEF ohci_poll_intr_queue
      <4> QED BY <4>3, ProcessedLive, Zenon
    <3> QED BY <3>1, <3>2, <3>3, Zenon DEF OhciControl, Transfer
  <2>4. ASSUME NEW n \in Nat, activate(n), pc \in {"idle", "stalled"} PROVE OhciControl'
    <3>1. /\ pc' = "wait" /\ UNCHANGED <<table, frame, hccaDone, wdh, intrq>>
          /\ ed'[Async].dummy = AsyncTd
      BY <2>4, Zenon DEF activate, OhciTypeOK
    <3> QED BY <2>4, <3>1, Zenon DEF OhciControl, Transfer
  <2>5. ASSUME NEW n \in Lengths, ohci_control(n) \/ ohci_bulk(n) PROVE OhciControl'
    BY <2>4, <2>5, OhciAssumption, Zenon DEF ohci_control, ohci_bulk
  <2>6. CASE clear_stall
    BY <2>4, <2>6, Zenon DEF clear_stall
  <2>7. ASSUME NEW timeout \in BOOLEAN, wait_for_ed(timeout) PROVE OhciControl'
    <3>1. /\ pc = "wait" /\ pc' = "settle" /\ hccaDone' = NoneDone
          /\ UNCHANGED <<table, enabled, frame, ed>>
          /\ intrq' = [p \in Queues |-> Processed(p)]
      BY <2>7, Zenon DEF wait_for_ed, acknowledge
    <3>2. \A p \in Queues : intrq[p].state = "live" => intrq'[p].state = "live"
      BY <3>1, ProcessedLive, Zenon
    <3> QED BY <3>1, <3>2, Zenon DEF OhciControl, Transfer
  <2>8. CASE disable_list
    BY <2>8, Zenon DEF disable_list, OhciControl, Transfer
  <2>9. CASE finish_transfer
    <3>1. /\ pc = "disabled" /\ ~frame.async /\ pc' \in {"stalled", "idle"}
          /\ UNCHANGED <<intrq, table, enabled, frame, hccaDone, wdh>>
          /\ ed'[Async] = NoEd
      BY <2>9, Zenon DEF finish_transfer, OhciTypeOK
    <3> QED BY <3>1, Zenon DEF OhciControl, Transfer
  <2>10. ASSUME NEW q \in Queues, ohci_destroy_intr_queue(q) PROVE OhciControl'
    <3>1. /\ pc = "unhooked" /\ call.queue = q /\ frame.periodic # q
          /\ hccaDone' = NoneDone /\ pc' = "idle"
          /\ UNCHANGED <<table, enabled, frame>>
          /\ ed'[Async] = ed[Async]
      BY <2>10, Zenon DEF ohci_destroy_intr_queue, acknowledge, FrameOver, OhciTypeOK
    <3>2. \A p \in Queues : p # q /\ intrq[p].state = "live" => intrq'[p].state = "live"
      BY <2>10, ProcessedLive, Zenon DEF ohci_destroy_intr_queue
    <3> QED BY <3>1, <3>2, Zenon DEF OhciControl, Transfer
  <2>11. CASE HcFrame
    <3>1. (frame.slot + 1) % Slots \in Slot
      BY OhciAssumption DEF OhciTypeOK, FrameType, Slot
    <3>2. /\ frame'.async = enabled /\ frame'.periodic = table[(frame.slot + 1) % Slots]
          /\ UNCHANGED <<ed, table, enabled, hccaDone, wdh, intrq, pc, call>>
      BY <2>11, Zenon DEF HcFrame
    <3> QED BY <3>1, <3>2, Zenon DEF OhciControl, Transfer
  <2>12. ASSUME NEW e \in Eds, NEW o \in Outcomes, HcRetire(e, o) PROVE OhciControl'
    <3>1. UNCHANGED <<table, enabled, frame, hccaDone, wdh, intrq, pc, call>>
      BY <2>12, Zenon DEF HcRetire
    <3>2. ed'[Async].dummy = ed[Async].dummy /\ (e # Async => ed'[Async] = ed[Async])
      BY <2>12, ZenonT(60) DEF HcRetire, OhciTypeOK, EdType
    <3>3. e = Async => Transfer
      BY <2>12 DEF HcRetire, Serves, OhciControl, Transfer, OhciTypeOK, FrameType, NoEd
    <3> QED BY <3>1, <3>2, <3>3, Zenon DEF OhciControl, Transfer
  <2>13. CASE HcWriteback
    BY <2>13, Zenon DEF HcWriteback, OhciControl, Transfer
  <2>14. CASE UNCHANGED ovars
    BY <2>14, Zenon DEF ovars, OhciControl, Transfer
  <2> QED BY <2>1, <2>2, <2>3, <2>5, <2>6, <2>7, <2>8, <2>9, <2>10, <2>11, <2>12, <2>13, <2>14, Zenon
         DEF OhciNext, Client, OhciDriver, Controller
<1> QED BY <1>1, <1>2, OhciTypeInvariant, PTL DEF OhciSpec

\* The toggles differ only while a failed bulk transfer is being dealt with.
OhciToggle ==
  /\ pc \in {"idle", "unhooked"} => toggle # "differ"
  /\ Transfer /\ call.kind # "stall" /\ toggle = "differ" => call.kind = "bulk"
  /\ pc = "wait" /\ call.kind = "bulk" /\ toggle = "differ" => ed[Async].halted
  /\ pc \in {"settle", "disabled"} /\ ~call.late /\ call.failure = 0 => ed[Async].tds = <<>>
  /\ pc \in {"settle", "disabled"} /\ call.kind = "bulk" /\ toggle = "differ" =>
       call.late \/ call.failure = 1

\* Between transfers the toggles of ohci_bulk and of the device agree, or both
\* may have moved after a timeout.
THEOREM OhciTogglesAgree == OhciSpec => []BulkTogglesAgree
<1>1. OhciInit => OhciToggle
  BY Zenon DEF OhciInit, OhciToggle, Transfer
<1>2. OhciTypeOK /\ OhciControl /\ OhciToggle /\ [OhciNext]_ovars => OhciToggle'
  <2> SUFFICES ASSUME OhciTypeOK, OhciControl, OhciToggle, [OhciNext]_ovars PROVE OhciToggle'
    BY Zenon
  <2> USE Names
  <2>1. ASSUME NEW q \in Queues, NEW timing \in Timings, ohci_create_intr_queue(q, timing)
        PROVE  OhciToggle'
    <3>1. pc = "idle" /\ pc' \in {"idle", "unhooked"} /\ toggle' = toggle
      BY <2>1, Zenon DEF ohci_create_intr_queue
    <3> QED BY <3>1, Zenon DEF OhciToggle, Transfer
  <2>2. ASSUME NEW q \in Queues, unhook_intr_queue(q) PROVE OhciToggle'
    <3>1. pc = "idle" /\ pc' = "unhooked" /\ toggle' = toggle
      BY <2>2, Zenon DEF unhook_intr_queue
    <3> QED BY <3>1, Zenon DEF OhciToggle, Transfer
  <2>3. ASSUME NEW q \in Queues, ohci_poll_intr_queue(q) PROVE OhciToggle'
    <3>1. pc = "idle" /\ pc' = "idle" /\ toggle' = toggle
      BY <2>3, Zenon DEF ohci_poll_intr_queue
    <3> QED BY <3>1, Zenon DEF OhciToggle, Transfer
  <2>4. ASSUME NEW n \in Lengths, ohci_control(n) \/ ohci_bulk(n) PROVE OhciToggle'
    <3>1. pc = "idle" /\ pc' = "wait" /\ toggle' = toggle
      BY <2>4, Zenon DEF ohci_control, ohci_bulk, activate
    <3> QED BY <3>1, Zenon DEF OhciToggle, Transfer
  <2>5. CASE clear_stall
    <3>1. pc' = "wait" /\ call'.kind = "stall"
      BY <2>5, Zenon DEF clear_stall, activate, NoCall
    <3> QED BY <3>1, Zenon DEF OhciToggle, Transfer
  <2>6. ASSUME NEW timeout \in BOOLEAN, wait_for_ed(timeout) PROVE OhciToggle'
    <3>1. /\ pc = "wait" /\ pc' = "settle" /\ UNCHANGED <<ed, toggle>>
          /\ timeout <=> ed[Async].tds # <<>> /\ ~ed[Async].halted
      BY <2>6, Zenon DEF wait_for_ed, WaitOver
    <3>2. call'.kind = call.kind /\ call'.late = timeout
      BY <2>6, Zenon DEF wait_for_ed, OhciTypeOK, CallType
    <3>3. call'.failure = IF ed[Async].halted THEN 1 ELSE 0
      BY <2>6, Zenon DEF wait_for_ed, OhciTypeOK, CallType
    <3> QED BY <3>1, <3>2, <3>3 DEF OhciToggle, Transfer
  <2>7. CASE disable_list
    BY <2>7, Zenon DEF disable_list, OhciToggle, Transfer
  <2>8. CASE finish_transfer
    <3>1. /\ pc = "disabled" /\ toggle' = SavedToggle
          /\ pc' \in {"idle", "stalled"}
          /\ pc' = "idle" => ~(call.kind = "bulk" /\ call.failure = 1)
      BY <2>8, Zenon DEF finish_transfer
    <3>2. pc' = "idle" => SavedToggle # "differ"
      BY <3>1, Zenon DEF OhciToggle, Transfer, SavedToggle, OhciTypeOK, CallType
    <3> QED BY <3>1, <3>2, Zenon DEF OhciToggle, Transfer
  <2>9. ASSUME NEW q \in Queues, ohci_destroy_intr_queue(q) PROVE OhciToggle'
    <3>1. pc = "unhooked" /\ pc' = "idle" /\ toggle' = toggle
      BY <2>9, Zenon DEF ohci_destroy_intr_queue
    <3> QED BY <3>1, Zenon DEF OhciToggle, Transfer
  <2>10. CASE HcFrame \/ HcWriteback \/ UNCHANGED ovars
    BY <2>10, Zenon DEF HcFrame, HcWriteback, ovars, OhciToggle, Transfer
  <2>11. ASSUME NEW e \in Eds, NEW o \in Outcomes, HcRetire(e, o) PROVE OhciToggle'
    <3>1. pc' = pc /\ call' = call
      BY <2>11, Zenon DEF HcRetire
    <3>2. CASE e # Async
      <4>1. ed'[Async] = ed[Async] /\ toggle' = toggle
        BY <2>11, <3>2, Zenon DEF HcRetire, OhciTypeOK
      <4> QED BY <3>1, <4>1, Zenon DEF OhciToggle, Transfer
    <3>3. CASE e = Async
      <4>1. Transfer /\ ed[Async].tds # <<>> /\ ~ed[Async].halted
        BY <2>11, <3>3 DEF HcRetire, Serves, OhciControl, Transfer, OhciTypeOK, FrameType, NoEd
      <4>2. ed'[Async].halted = (o # "ok")
        BY <2>11, <3>3, Zenon DEF HcRetire, OhciTypeOK, EdType
      <4>3. toggle' = "differ" => toggle = "differ" \/ (call.kind = "bulk" /\ o # "ok")
        BY <2>11, <3>3, Zenon DEF HcRetire
      <4>4. pc \in {"settle", "disabled"} => call.late \/ call.failure = 1
        BY <4>1, Zenon DEF OhciToggle, OhciTypeOK, CallType
      <4> QED BY <3>1, <4>1, <4>2, <4>3, <4>4, Zenon DEF OhciToggle, Transfer
    <3> QED BY <3>2, <3>3, Zenon
  <2> QED BY <2>1, <2>2, <2>3, <2>4, <2>5, <2>6, <2>7, <2>8, <2>9, <2>10, <2>11, Zenon
         DEF OhciNext, Client, OhciDriver, Controller
<1>3. OhciToggle => BulkTogglesAgree
  BY Zenon DEF OhciToggle, BulkTogglesAgree
<1> QED BY <1>1, <1>2, <1>3, OhciTypeInvariant, OhciControlInvariant, PTL DEF OhciSpec

\* The length of a list, as a number and nothing else.
Size(s) == Len(s)

\* remaining_tds counts right: a live queue has all its TDs, in its ED, on the
\* way through the done queue or fetched; of a destroyed queue only those on the
\* way remain; and none of a queue that is not there.
CountsOf(q) ==
  /\ intrq[q].state = "live" =>
       /\ intrq[q].remaining = ReqCount[q]
       /\ Size(ed[q].tds) + Size(intrq[q].list) + InFlight(q) = ReqCount[q]
  /\ intrq[q].state = "destroyed" => intrq[q].remaining = InFlight(q)
  /\ intrq[q].state = "none" => InFlight(q) = 0

OhciCounts == \A q \in Queues : CountsOf(q)

\* The lengths that the counts are made of.
LEMMA ListLengths ==
  ASSUME OhciTypeOK, OhciControl, NEW q \in Queues
  PROVE  /\ Size(hcDone[q]) \in Nat /\ Size(hccaDone[q]) \in Nat /\ Size(ed[q].tds) \in Nat
         /\ Size(intrq[q].list) \in Nat
         /\ Size(Done(q)) = Size(hccaDone[q])
         /\ ~wdh => Size(hccaDone[q]) = 0
<1>1. q \in Eds /\ hcDone[q] \in Seq(AllTds) /\ hccaDone[q] \in Seq(AllTds)
  BY Names, Zenon DEF OhciTypeOK
<1>2. ed[q].tds \in Seq(AllTds) /\ intrq[q].list \in Seq(AllTds)
  BY <1>1, Zenon DEF OhciTypeOK, EdType, QueueType
<1>3. ~wdh => hccaDone[q] = <<>>
  BY <1>1, Zenon DEF OhciControl, NoneDone
<1>4. Size(Done(q)) = Size(hccaDone[q])
  BY <1>1, <1>3, InOrderType, Zenon DEF Done, Size
<1> QED BY <1>1, <1>2, <1>3, <1>4 DEF Size

\* What processing the done queue does to the counts of a queue.
LEMMA ProcessedCounts ==
  ASSUME OhciTypeOK, OhciControl, NEW q \in Queues, CountsOf(q)
  PROVE  /\ intrq[q].state = "live" =>
              /\ Processed(q).state = "live" /\ Processed(q).remaining = ReqCount[q]
              /\ Size(Processed(q).list) = Size(intrq[q].list) + Size(hccaDone[q])
         /\ intrq[q].state = "destroyed" =>
              \/ Processed(q).state = "none" /\ Size(hcDone[q]) = 0
              \/ Processed(q).state = "destroyed" /\ Processed(q).remaining = Size(hcDone[q])
         /\ intrq[q].state = "none" => Processed(q).state = "none" /\ Size(hcDone[q]) = 0
<1>0. /\ Size(hcDone[q]) \in Nat /\ Size(hccaDone[q]) \in Nat
      /\ Size(Done(q)) = Size(hccaDone[q])
      /\ InFlight(q) = Size(hcDone[q]) + Size(hccaDone[q])
  BY ListLengths, Zenon DEF InFlight, Size
<1>1. intrq[q] \in QueueType /\ intrq[q].list \in Seq(AllTds) /\ Done(q) \in Seq(AllTds)
  BY ProcessedType, Zenon DEF OhciTypeOK, QueueType
<1>2. CASE intrq[q].state # "destroyed"
  <2>1. Processed(q) = [intrq[q] EXCEPT !.list = @ \o Done(q)]
    BY <1>2, Zenon DEF Processed
  <2>2. /\ Processed(q).state = intrq[q].state
        /\ Processed(q).remaining = intrq[q].remaining
        /\ Processed(q).list = intrq[q].list \o Done(q)
    BY <1>1, <2>1, Zenon DEF QueueType
  <2>3. Size(Processed(q).list) = Size(intrq[q].list) + Size(hccaDone[q])
    <3>1. Len(intrq[q].list \o Done(q)) = Len(intrq[q].list) + Len(Done(q))
      BY <1>1
    <3> QED BY <1>0, <2>2, <3>1, Zenon DEF Size
  <2>4. intrq[q].state = "none" => InFlight(q) = 0
    BY Zenon DEF CountsOf
  <2>5. InFlight(q) = 0 => Size(hcDone[q]) = 0
    BY <1>0
  <2>6. intrq[q].state = "live" => intrq[q].remaining = ReqCount[q]
    BY Zenon DEF CountsOf
  <2> QED BY <1>2, <2>2, <2>3, <2>4, <2>5, <2>6, Zenon
<1>3. CASE intrq[q].state = "destroyed"
  <2> DEFINE r == intrq[q].remaining - Size(Done(q))
  <2>1. r = Size(hcDone[q])
    <3>1. intrq[q].remaining = InFlight(q)
      BY <1>3, Zenon DEF CountsOf
    <3> QED BY <1>0, <3>1
  <2>2. Processed(q) = IF Done(q) # <<>> /\ r = 0 THEN NoQueue
                       ELSE [intrq[q] EXCEPT !.remaining = r]
    BY <1>3, Zenon DEF Processed, Size
  <2> HIDE DEF r
  <2>3. CASE Done(q) # <<>> /\ r = 0
    BY <1>3, <2>1, <2>2, <2>3 DEF NoQueue
  <2>4. CASE ~(Done(q) # <<>> /\ r = 0)
    <3>1. Processed(q).state = "destroyed" /\ Processed(q).remaining = r
      BY <1>1, <1>3, <2>2, <2>4, Zenon DEF QueueType
    <3> QED BY <1>3, <2>1, <3>1, Zenon
  <2> QED BY <2>3, <2>4, Zenon
<1> QED BY <1>2, <1>3, Zenon

\* A step that processes the done queue and leaves the ED of q alone.
LEMMA ProcessingKeepsCounts ==
  ASSUME OhciTypeOK, OhciControl, NEW q \in Queues, CountsOf(q),
         intrq'[q] = Processed(q), ed'[q] = ed[q], hcDone' = hcDone, acknowledge
  PROVE  CountsOf(q)'
<1>1. hccaDone'[q] = <<>>
  BY Names, Zenon DEF acknowledge, NoneDone
<1>2. InFlight(q)' = Size(hcDone[q]) /\ InFlight(q) = Size(hcDone[q]) + Size(hccaDone[q])
  BY <1>1, ListLengths DEF InFlight, Size
<1>3. intrq[q].state \in {"none", "live", "destroyed"}
  BY Zenon DEF OhciTypeOK, QueueType
<1>4. CASE intrq[q].state = "live"
  <2>1. /\ Processed(q).state = "live" /\ Processed(q).remaining = ReqCount[q]
        /\ Size(Processed(q).list) = Size(intrq[q].list) + Size(hccaDone[q])
    BY <1>4, ProcessedCounts, Zenon
  <2>2. Size(ed[q].tds) + Size(intrq[q].list) + InFlight(q) = ReqCount[q]
    BY <1>4, Zenon DEF CountsOf
  <2>3. /\ Size(ed[q].tds) \in Nat /\ Size(intrq[q].list) \in Nat
        /\ Size(hcDone[q]) \in Nat /\ Size(hccaDone[q]) \in Nat
    BY ListLengths, Zenon
  <2>4. Size(ed[q].tds) + Size(Processed(q).list) + Size(hcDone[q]) = ReqCount[q]
    BY <1>2, <2>1, <2>2, <2>3
  <2> QED BY <1>2, <2>1, <2>4, Zenon DEF CountsOf
<1>5. CASE intrq[q].state = "destroyed"
  <2>1. \/ Processed(q).state = "none" /\ Size(hcDone[q]) = 0
        \/ Processed(q).state = "destroyed" /\ Processed(q).remaining = Size(hcDone[q])
    BY <1>5, ProcessedCounts, Zenon
  <2> QED BY <1>2, <2>1, Zenon DEF CountsOf
<1>6. CASE intrq[q].state = "none"
  <2>1. Processed(q).state = "none" /\ Size(hcDone[q]) = 0
    BY <1>6, ProcessedCounts, Zenon
  <2> QED BY <1>2, <2>1, Zenon DEF CountsOf
<1> QED BY <1>3, <1>4, <1>5, <1>6, Zenon

\* OhciCounts is an invariant: remaining_tds of a queue never counts a TD that is
\* not on its way, and misses none that is.
THEOREM OhciCountsInvariant == OhciSpec => []OhciCounts
<1>1. OhciInit => OhciCounts
  <2> SUFFICES ASSUME OhciInit, NEW q \in Queues PROVE CountsOf(q)
    BY Zenon DEF OhciCounts
  <2>1. hcDone[q] = <<>> /\ hccaDone[q] = <<>> /\ intrq[q].state = "none"
    BY Names, Zenon DEF OhciInit, NoQueue, NoneDone
  <2>2. InFlight(q) = 0
    BY <2>1 DEF InFlight, Size
  <2> QED BY <2>1, <2>2, Zenon DEF CountsOf
<1>2. OhciTypeOK /\ OhciControl /\ OhciCounts /\ [OhciNext]_ovars => OhciCounts'
  <2> SUFFICES ASSUME OhciTypeOK, OhciControl, OhciCounts, [OhciNext]_ovars, NEW q \in Queues
               PROVE  CountsOf(q)'
    BY Zenon DEF OhciCounts
  <2> USE Names
  <2>a. CountsOf(q)
    BY Zenon DEF OhciCounts
  <2>b. CASE UNCHANGED <<intrq, hcDone, hccaDone>> /\ ed'[q] = ed[q]
    BY <2>a, <2>b, Zenon DEF CountsOf, InFlight
  <2>1. ASSUME NEW p \in Queues, NEW timing \in Timings, ohci_create_intr_queue(p, timing)
        PROVE  CountsOf(q)'
    <3>1. CASE p # q
      <4>1. UNCHANGED <<hcDone, hccaDone>> /\ ed'[q] = ed[q] /\ intrq'[q] = intrq[q]
        BY <2>1, <3>1, Zenon DEF ohci_create_intr_queue, OhciTypeOK
      <4> QED BY <2>a, <4>1, Zenon DEF CountsOf, InFlight
    <3>2. CASE p = q
      <4>1. /\ intrq[q].state = "none" /\ UNCHANGED <<hcDone, hccaDone>>
            /\ intrq'[q] = [state |-> "live", list |-> <<>>, remaining |-> ReqCount[q]]
            /\ ed'[q].tds = [i \in 1 .. ReqCount[q] |-> <<q, i>>]
        BY <2>1, <3>2, Zenon DEF ohci_create_intr_queue, OhciTypeOK
      <4>2. Size(ed'[q].tds) = ReqCount[q] /\ Size(intrq'[q].list) = 0
        BY <4>1, OhciAssumption DEF Size
      <4>3. InFlight(q)' = 0
        BY <2>a, <4>1, Zenon DEF CountsOf, InFlight
      <4> QED BY <4>1, <4>2, <4>3 DEF CountsOf
    <3> QED BY <3>1, <3>2, Zenon
  <2>2. ASSUME NEW p \in Queues, unhook_intr_queue(p) PROVE CountsOf(q)'
    BY <2>b, <2>2, Zenon DEF unhook_intr_queue
  <2>3. ASSUME NEW p \in Queues, ohci_poll_intr_queue(p) PROVE CountsOf(q)'
    <3> DEFINE list == Processed(p).list
    <3>0. hcDone' = hcDone /\ acknowledge
      BY <2>3, Zenon DEF ohci_poll_intr_queue
    <3>1. CASE p # q \/ list = <<>>
      <4>1. intrq'[q] = Processed(q) /\ ed'[q] = ed[q]
        BY <2>3, <3>1 DEF ohci_poll_intr_queue, OhciTypeOK
      <4> QED BY <2>a, <3>0, <4>1, ProcessingKeepsCounts, Zenon
    <3>2. CASE p = q /\ list # <<>>
      <4>1. /\ intrq[q].state = "live"
            /\ intrq'[q] = [Processed(q) EXCEPT !.list = Tail(@)]
        BY <2>3, <3>2, Zenon DEF ohci_poll_intr_queue
      <4>2. ed' = [ed EXCEPT ![q].tds = Append(@, ed[q].dummy), ![q].dummy = Head(list)]
        BY <2>3, <3>2, Zenon DEF ohci_poll_intr_queue
      <4>3. ed'[q].tds = Append(ed[q].tds, ed[q].dummy)
        BY <4>2, Zenon DEF OhciTypeOK, EdType
      <4>4. Size(ed'[q].tds) = Size(ed[q].tds) + 1
        BY <4>1, <4>3 DEF OhciTypeOK, EdType, Size
      <4>5. Processed(q) \in QueueType
        BY ProcessedType, Zenon
      <4>6. /\ intrq'[q].state = Processed(q).state
            /\ intrq'[q].remaining = Processed(q).remaining
            /\ intrq'[q].list = Tail(Processed(q).list)
        BY <4>1, <4>5, Zenon DEF QueueType
      <4>7. Size(intrq'[q].list) = Size(Processed(q).list) - 1
        BY <3>2, <4>5, <4>6 DEF QueueType, Size
      <4>8. hccaDone'[q] = <<>>
        BY <3>0, Zenon DEF acknowledge, NoneDone
      <4>9. /\ Processed(q).state = "live" /\ Processed(q).remaining = ReqCount[q]
            /\ Size(Processed(q).list) = Size(intrq[q].list) + Size(hccaDone[q])
        BY <2>a, <4>1, ProcessedCounts, Zenon
      <4>10. /\ Size(ed[q].tds) \in Nat /\ Size(intrq[q].list) \in Nat
             /\ Size(hcDone[q]) \in Nat /\ Size(hccaDone[q]) \in Nat
        BY ListLengths, Zenon
      <4>11. InFlight(q)' = Size(hcDone[q]) /\ InFlight(q) = Size(hcDone[q]) + Size(hccaDone[q])
        BY <3>0, <4>8, <4>10 DEF InFlight, Size
      <4>12. Size(ed[q].tds) + Size(intrq[q].list) + InFlight(q) = ReqCount[q]
        BY <2>a, <4>1, Zenon DEF CountsOf
      <4>13. Size(ed'[q].tds) + Size(intrq'[q].list) + InFlight(q)' = ReqCount[q]
        BY <4>4, <4>7, <4>9, <4>10, <4>11, <4>12
      <4> QED BY <4>6, <4>9, <4>13, Zenon DEF CountsOf
    <3> QED BY <3>1, <3>2, Zenon
  <2>4. ASSUME NEW n \in Nat, activate(n) PROVE CountsOf(q)'
    BY <2>b, <2>4, Zenon DEF activate, OhciTypeOK
  <2>5. ASSUME NEW n \in Lengths, ohci_control(n) \/ ohci_bulk(n) PROVE CountsOf(q)'
    BY <2>4, <2>5, OhciAssumption, Zenon DEF ohci_control, ohci_bulk
  <2>6. CASE clear_stall
    BY <2>4, <2>6, Zenon DEF clear_stall
  <2>7. ASSUME NEW timeout \in BOOLEAN, wait_for_ed(timeout) PROVE CountsOf(q)'
    <3>1. intrq'[q] = Processed(q) /\ ed'[q] = ed[q] /\ hcDone' = hcDone /\ acknowledge
      BY <2>7, Zenon DEF wait_for_ed
    <3> QED BY <2>a, <3>1, ProcessingKeepsCounts, Zenon
  <2>8. CASE disable_list \/ HcFrame \/ UNCHANGED ovars
    BY <2>b, <2>8, Zenon DEF disable_list, HcFrame, ovars
  <2>9. CASE finish_transfer
    BY <2>b, <2>9, Zenon DEF finish_transfer, OhciTypeOK
  <2>10. ASSUME NEW p \in Queues, ohci_destroy_intr_queue(p) PROVE CountsOf(q)'
    <3>0. hcDone' = hcDone /\ acknowledge
      BY <2>10, Zenon DEF ohci_destroy_intr_queue
    <3>1. CASE p # q
      <4>1. intrq'[q] = Processed(q) /\ ed'[q] = ed[q]
        BY <2>10, <3>1, Zenon DEF ohci_destroy_intr_queue, OhciTypeOK
      <4> QED BY <2>a, <3>0, <4>1, ProcessingKeepsCounts, Zenon
    <3>2. CASE p = q
      <4>1. intrq'[q] = Destroyed(q) /\ pc = "unhooked" /\ call.queue = q
        BY <2>10, <3>2, Zenon DEF ohci_destroy_intr_queue
      <4>2. intrq[q].state = "live"
        BY <4>1, Zenon DEF OhciControl
      <4>3. Remaining(q) = Size(hcDone[q])
        <5>1. Size(Processed(q).list) = Size(intrq[q].list) + Size(hccaDone[q])
          BY <2>a, <4>2, ProcessedCounts, Zenon
        <5>2. /\ intrq[q].remaining = ReqCount[q]
              /\ Size(ed[q].tds) + Size(intrq[q].list) + InFlight(q) = ReqCount[q]
          BY <2>a, <4>2, Zenon DEF CountsOf
        <5>3. /\ Size(ed[q].tds) \in Nat /\ Size(intrq[q].list) \in Nat
              /\ Size(hcDone[q]) \in Nat /\ Size(hccaDone[q]) \in Nat
          BY ListLengths, Zenon
        <5>4. Remaining(q) = ReqCount[q] - Size(ed[q].tds) - Size(Processed(q).list)
          BY <5>2, Zenon DEF Remaining, Size
        <5>5. InFlight(q) = Size(hcDone[q]) + Size(hccaDone[q])
          BY Zenon DEF InFlight, Size
        <5> QED BY <5>1, <5>2, <5>3, <5>4, <5>5
      <4>4. InFlight(q)' = Size(hcDone[q])
        <5>1. hccaDone'[q] = <<>>
          BY <3>0, Zenon DEF acknowledge, NoneDone
        <5> QED BY <3>0, <5>1, ListLengths DEF InFlight, Size
      <4>5. intrq'[q].state = "destroyed" /\ intrq'[q].remaining = Remaining(q)
        BY <4>1 DEF Destroyed
      <4> QED BY <4>3, <4>4, <4>5, Zenon DEF CountsOf
    <3> QED BY <3>1, <3>2, Zenon
  <2>11. ASSUME NEW e \in Eds, NEW o \in Outcomes, HcRetire(e, o) PROVE CountsOf(q)'
    <3>0. intrq' = intrq /\ hccaDone' = hccaDone
      BY <2>11, Zenon DEF HcRetire
    <3>1. CASE e # q
      <4>1. ed'[q] = ed[q] /\ hcDone'[q] = hcDone[q]
        BY <2>11, <3>1, Zenon DEF HcRetire, OhciTypeOK
      <4> QED BY <2>a, <3>0, <4>1, Zenon DEF CountsOf, InFlight
    <3>2. CASE e = q
      <4>1. intrq[q].state = "live" /\ ed[q].tds # <<>>
        BY <2>11, <3>2, Zenon DEF HcRetire, Serves, OhciControl
      <4>2. ed[q].tds \in Seq(AllTds) /\ hcDone[q] \in Seq(AllTds)
        BY Zenon DEF OhciTypeOK, EdType
      <4>3. ed'[q].tds = Tail(ed[q].tds)
        BY <2>11, <3>2, Zenon DEF HcRetire, OhciTypeOK, EdType
      <4>4. hcDone'[q] = <<Head(ed[q].tds)>> \o hcDone[q]
        BY <2>11, <3>2, Zenon DEF HcRetire, OhciTypeOK
      <4>5. Size(ed'[q].tds) = Size(ed[q].tds) - 1
        BY <4>1, <4>2, <4>3 DEF Size
      <4>6. Size(hcDone'[q]) = Size(hcDone[q]) + 1
        BY <4>1, <4>2, <4>4 DEF Size
      <4>7. /\ Size(ed[q].tds) \in Nat /\ Size(intrq[q].list) \in Nat
            /\ Size(hcDone[q]) \in Nat /\ Size(hccaDone[q]) \in Nat
        BY ListLengths, Zenon
      <4>8. InFlight(q)' = Size(hcDone'[q]) + Size(hccaDone[q])
        BY <3>0, Zenon DEF InFlight, Size
      <4>9. InFlight(q) = Size(hcDone[q]) + Size(hccaDone[q])
        BY Zenon DEF InFlight, Size
      <4>11. /\ intrq[q].remaining = ReqCount[q]
             /\ Size(ed[q].tds) + Size(intrq[q].list) + InFlight(q) = ReqCount[q]
        BY <2>a, <4>1, Zenon DEF CountsOf
      <4>12. Size(ed'[q].tds) + Size(intrq[q].list) + InFlight(q)' = ReqCount[q]
        BY <4>5, <4>6, <4>7, <4>8, <4>9, <4>11
      <4> QED BY <3>0, <4>1, <4>11, <4>12, Zenon DEF CountsOf
    <3> QED BY <3>1, <3>2, Zenon
  <2>12. CASE HcWriteback
    <3>1. UNCHANGED <<intrq, ed>> /\ hccaDone'[q] = hcDone[q] /\ hcDone'[q] = <<>> /\ ~wdh
      BY <2>12, Zenon DEF HcWriteback, NoneDone
    <3>2. InFlight(q)' = InFlight(q)
      <4>1. Size(hccaDone[q]) = 0 /\ Size(hcDone[q]) \in Nat
        BY <3>1, ListLengths, Zenon
      <4>2. Size(hcDone'[q]) = 0 /\ Size(hccaDone'[q]) = Size(hcDone[q])
        BY <3>1, Zenon DEF Size
      <4> QED BY <4>1, <4>2 DEF InFlight, Size
    <3> QED BY <2>a, <3>1, <3>2, Zenon DEF CountsOf
  <2> QED BY <2>1, <2>2, <2>3, <2>5, <2>6, <2>7, <2>8, <2>9, <2>10, <2>11, <2>12, Zenon
         DEF OhciNext, Client, OhciDriver, Controller
<1> QED BY <1>1, <1>2, OhciTypeInvariant, OhciControlInvariant, PTL DEF OhciSpec

\* The controller works on no endpoint descriptor that has been freed, and every
\* TD still to come through the done queue names a queue that is there.
THEOREM OhciFreedNotUsed == OhciSpec => []FreedNotUsed
<1>1. OhciTypeOK /\ OhciControl /\ OhciCounts => FreedNotUsed
  <2> SUFFICES ASSUME OhciTypeOK, OhciControl, OhciCounts PROVE FreedNotUsed
    BY Zenon
  <2>1. \A q \in Queues : q \in Range(table) => \E s \in Slot : table[s] = q
    BY Zenon DEF Range, OhciTypeOK
  <2>2. \A q \in Queues : (frame.periodic = q \/ q \in Range(table)) => intrq[q].state = "live"
    BY <2>1, Zenon DEF OhciControl
  <2>3. (enabled \/ frame.async) => ed[Async].dummy = AsyncTd
    BY Zenon DEF OhciControl, Transfer
  <2>4. \A q \in Queues : InFlight(q) > 0 => intrq[q].state # "none"
    <3> TAKE q \in Queues
    <3>1. CountsOf(q)
      BY Zenon DEF OhciCounts
    <3> QED BY <3>1 DEF CountsOf
  <2> QED BY <2>2, <2>3, <2>4, Zenon DEF FreedNotUsed
<1> QED BY <1>1, OhciTypeInvariant, OhciControlInvariant, OhciCountsInvariant, PTL

\* What a queue with the fetched TDs l owes, oldest first, when h and c are on
\* their way through the done queue.
Owed(l, h, c) == l \o InOrder(h \o c)
Linked(x, h) == <<x>> \o h

\* The TD the controller retired last comes last.
LEMMA InOrderLinked ==
  ASSUME NEW S, NEW t \in Seq(S), NEW x \in S
  PROVE  InOrder(<<x>> \o t) = Append(InOrder(t), x)
BY DEF InOrder

\* What is owed is a list.
LEMMA OwedType ==
  ASSUME NEW S, NEW l \in Seq(S), NEW h \in Seq(S), NEW c \in Seq(S)
  PROVE  Owed(l, h, c) \in Seq(S)
<1>1. h \o c \in Seq(S)
  OBVIOUS
<1>2. InOrder(h \o c) \in Seq(S)
  BY <1>1, InOrderType, Zenon
<1> QED BY <1>2 DEF Owed

\* The newest TD comes last.
LEMMA OwedLinked ==
  ASSUME NEW S, NEW l \in Seq(S), NEW h \in Seq(S), NEW c \in Seq(S), NEW x \in S
  PROVE  Owed(l, Linked(x, h), c) = Append(Owed(l, h, c), x)
<1> DEFINE t == h \o c
<1>1. t \in Seq(S) /\ (<<x>> \o h) \o c = <<x>> \o t
  OBVIOUS
<1> HIDE DEF t
<1>2. InOrder(t) \in Seq(S)
  BY <1>1, InOrderType, Zenon
<1>3. InOrder(<<x>> \o t) = Append(InOrder(t), x)
  BY <1>1, InOrderLinked, Zenon
<1>4. Append(l \o InOrder(t), x) = l \o Append(InOrder(t), x)
  <2>1. \A r \in Seq(S) : Append(l \o r, x) = l \o Append(r, x)
    OBVIOUS
  <2> QED BY <1>2, <2>1, Zenon
<1>5. Owed(l, Linked(x, h), c) = l \o InOrder(<<x>> \o t)
  BY <1>1, Zenon DEF Owed, Linked
<1>6. Owed(l, h, c) = l \o InOrder(t)
  BY Zenon DEF Owed, t
<1> QED BY <1>3, <1>4, <1>5, <1>6, Zenon

\* The chain at HccaDoneHead, put in order, goes behind what was fetched.
LEMMA OwedFetched ==
  ASSUME NEW S, NEW l \in Seq(S), NEW h \in Seq(S), NEW c \in Seq(S)
  PROVE  Owed(l, h, c) = Owed(l \o InOrder(c), h, <<>>)
<1>1. InOrder(h \o c) = InOrder(c) \o InOrder(h)
  BY DEF InOrder
<1>2. InOrder(c) \in Seq(S) /\ InOrder(h) \in Seq(S)
  BY InOrderType, Zenon
<1>3. \A a, b \in Seq(S) : l \o (a \o b) = (l \o a) \o b
  OBVIOUS
<1>4. l \o (InOrder(c) \o InOrder(h)) = (l \o InOrder(c)) \o InOrder(h)
  BY <1>2, <1>3, Zenon
<1>5. h \o <<>> = h
  OBVIOUS
<1> QED BY <1>1, <1>4, <1>5, Zenon DEF Owed

\* Polling takes the oldest.
LEMMA OwedTail ==
  ASSUME NEW S, NEW l \in Seq(S), NEW h \in Seq(S), l # <<>>
  PROVE  Tail(Owed(l, h, <<>>)) = Owed(Tail(l), h, <<>>)
<1>1. InOrder(h \o <<>>) \in Seq(S)
  <2>1. h \o <<>> \in Seq(S)
    OBVIOUS
  <2> QED BY <2>1, InOrderType, Zenon
<1>2. \A r \in Seq(S) : Tail(l \o r) = Tail(l) \o r
  OBVIOUS
<1> QED BY <1>1, <1>2, Zenon DEF Owed

\* Writing back the done queue changes nothing.
LEMMA OwedWrittenBack ==
  ASSUME NEW S, NEW l \in Seq(S), NEW h \in Seq(S)
  PROVE  Owed(l, <<>>, h) = Owed(l, h, <<>>)
<1>1. <<>> \o h = h \o <<>>
  OBVIOUS
<1> QED BY <1>1, Zenon DEF Owed

\* Nothing of a queue that is not there is on its way.
LEMMA NothingInFlight ==
  ASSUME OhciTypeOK, OhciCounts, NEW q \in Queues, intrq[q].state = "none"
  PROVE  hcDone[q] = <<>> /\ hccaDone[q] = <<>>
<1>1. hcDone[q] \in Seq(AllTds) /\ hccaDone[q] \in Seq(AllTds)
  BY Names, Zenon DEF OhciTypeOK
<1>2. CountsOf(q)
  BY Zenon DEF OhciCounts
<1>3. InFlight(q) = 0
  BY <1>2, Zenon DEF CountsOf
<1>4. Len(hcDone[q]) + Len(hccaDone[q]) = 0
  BY <1>3, Zenon DEF InFlight
<1>5. Len(hcDone[q]) \in Nat /\ Len(hccaDone[q]) \in Nat
  BY <1>1
<1>6. \A a, b \in Nat : a + b = 0 => a = 0 /\ b = 0
  OBVIOUS
<1>7. Len(hcDone[q]) = 0 /\ Len(hccaDone[q]) = 0
  BY <1>4, <1>5, <1>6, Zenon
<1> QED BY <1>1, <1>7

\* The packets of a live queue, oldest first, are those it has fetched, then
\* those on the way; a queue that is not live owes none.
ArrivalOf(q) ==
  /\ intrq[q].state # "live" => arrived[q] = <<>>
  /\ intrq[q].state = "live" => arrived[q] = Owed(intrq[q].list, hcDone[q], hccaDone[q])

OhciArrival == arrived \in [Queues -> Seq(AllTds)] /\ \A q \in Queues : ArrivalOf(q)

\* A step that processes the done queue does not change what a queue owes.
LEMMA ProcessingKeepsArrival ==
  ASSUME OhciTypeOK, OhciControl, NEW q \in Queues, intrq[q].state = "live",
         ArrivalOf(q)
  PROVE  /\ Processed(q).state = "live"
         /\ Processed(q).list \in Seq(AllTds) /\ hcDone[q] \in Seq(AllTds)
         /\ arrived[q] = Owed(Processed(q).list, hcDone[q], <<>>)
<1>1. /\ hcDone[q] \in Seq(AllTds) /\ hccaDone[q] \in Seq(AllTds) /\ intrq[q] \in QueueType
      /\ ~wdh => hccaDone[q] = <<>>
  BY Names, Zenon DEF OhciTypeOK, OhciControl, NoneDone
<1>2. Done(q) = InOrder(hccaDone[q])
  BY <1>1, InOrderType, Zenon DEF Done
<1>3. Processed(q) = [intrq[q] EXCEPT !.list = @ \o Done(q)]
  BY Zenon DEF Processed
<1>4. Processed(q).state = "live" /\ Processed(q).list = intrq[q].list \o InOrder(hccaDone[q])
  BY <1>1, <1>2, <1>3, Zenon DEF QueueType
<1>5. intrq[q].list \in Seq(AllTds)
  BY <1>1, Zenon DEF QueueType
<1>6. arrived[q] = Owed(intrq[q].list, hcDone[q], hccaDone[q])
  BY Zenon DEF ArrivalOf
<1>7. Processed(q).list \in Seq(AllTds)
  BY ProcessedType, Zenon DEF QueueType
<1>8. Owed(intrq[q].list, hcDone[q], hccaDone[q])
        = Owed(intrq[q].list \o InOrder(hccaDone[q]), hcDone[q], <<>>)
  BY <1>1, <1>5, OwedFetched, ZenonT(60)
<1> QED BY <1>1, <1>4, <1>6, <1>7, <1>8, Zenon

\* The inductive invariant behind the next theorem.
THEOREM OhciArrivalInvariant == OhciSpec => []OhciArrival
<1>1. OhciInit => OhciArrival
  BY DEF OhciInit, OhciArrival, ArrivalOf, NoQueue
<1>2. OhciTypeOK /\ OhciControl /\ OhciCounts /\ OhciArrival /\ [OhciNext]_ovars => OhciArrival'
  <2> SUFFICES ASSUME OhciTypeOK, OhciControl, OhciCounts, OhciArrival, [OhciNext]_ovars
               PROVE  OhciArrival'
    BY Zenon
  <2> USE Names
  <2>a. /\ arrived \in [Queues -> Seq(AllTds)]
        /\ \A q \in Queues : ArrivalOf(q)
    BY Zenon DEF OhciArrival
  <2>b. \A q \in Queues : /\ hcDone[q] \in Seq(AllTds) /\ hccaDone[q] \in Seq(AllTds)
                          /\ ed[q].tds \in Seq(AllTds) /\ intrq[q].list \in Seq(AllTds)
    BY Zenon DEF OhciTypeOK, EdType, QueueType
  <2>c. CASE UNCHANGED <<intrq, hcDone, hccaDone, arrived>>
    BY <2>a, <2>c, Zenon DEF OhciArrival, ArrivalOf
  <2>d. ASSUME NEW q \in Queues, intrq'[q] = Processed(q), hcDone' = hcDone, acknowledge,
               arrived'[q] = arrived[q]
        PROVE  ArrivalOf(q)'
    <3>1. hccaDone'[q] = <<>>
      BY <2>d, Zenon DEF acknowledge, NoneDone
    <3>2. CASE intrq[q].state = "live"
      <4>1. /\ Processed(q).state = "live"
            /\ arrived[q] = Owed(Processed(q).list, hcDone[q], <<>>)
        BY <2>a, <3>2, ProcessingKeepsArrival, Zenon
      <4> QED BY <2>d, <3>1, <4>1, Zenon DEF ArrivalOf
    <3>3. CASE intrq[q].state # "live"
      <4>1. Processed(q).state # "live"
        BY <3>3, Zenon DEF Processed, NoQueue, OhciTypeOK, QueueType
      <4> QED BY <2>a, <2>d, <3>3, <4>1, Zenon DEF ArrivalOf
    <3> QED BY <3>2, <3>3, Zenon
  <2>1. ASSUME NEW p \in Queues, NEW timing \in Timings, ohci_create_intr_queue(p, timing)
        PROVE  OhciArrival'
    <3>0. UNCHANGED <<hcDone, hccaDone, arrived>> /\ intrq[p].state = "none"
      BY <2>1, Zenon DEF ohci_create_intr_queue
    <3>1. ASSUME NEW q \in Queues, q # p PROVE ArrivalOf(q)'
      <4>1. intrq'[q] = intrq[q]
        BY <2>1, <3>1, Zenon DEF ohci_create_intr_queue, OhciTypeOK
      <4> QED BY <2>a, <3>0, <4>1, Zenon DEF ArrivalOf
    <3>2. ArrivalOf(p)'
      <4>1. intrq'[p].list = <<>> /\ intrq'[p].state = "live"
        BY <2>1, Zenon DEF ohci_create_intr_queue, OhciTypeOK
      <4>5. hcDone[p] = <<>> /\ hccaDone[p] = <<>>
        BY <3>0, NothingInFlight, Zenon
      <4>6. Owed(<<>>, <<>>, <<>>) = <<>>
        BY DEF Owed, InOrder
      <4>7. arrived[p] = <<>>
        BY <2>a, <3>0, Zenon DEF ArrivalOf
      <4> QED BY <3>0, <4>1, <4>5, <4>6, <4>7, Zenon DEF ArrivalOf
    <3> QED BY <2>a, <3>0, <3>1, <3>2, Zenon DEF OhciArrival
  <2>2. ASSUME NEW p \in Queues, unhook_intr_queue(p) PROVE OhciArrival'
    BY <2>c, <2>2, Zenon DEF unhook_intr_queue
  <2>3. ASSUME NEW p \in Queues, ohci_poll_intr_queue(p) PROVE OhciArrival'
    <3> DEFINE list == Processed(p).list
    <3>0. hcDone' = hcDone /\ acknowledge /\ intrq[p].state = "live"
      BY <2>3, Zenon DEF ohci_poll_intr_queue
    <3>1. /\ Processed(p).state = "live" /\ list \in Seq(AllTds)
          /\ hcDone[p] \in Seq(AllTds)
          /\ arrived[p] = Owed(list, hcDone[p], <<>>)
      BY <2>a, <3>0, ProcessingKeepsArrival, Zenon
    <3>2. CASE list = <<>>
      <4>1. arrived' = arrived /\ \A q \in Queues : intrq'[q] = Processed(q)
        BY <2>3, <3>2, Zenon DEF ohci_poll_intr_queue
      <4> QED BY <2>a, <2>d, <3>0, <4>1, Zenon DEF OhciArrival
    <3>3. CASE list # <<>>
      <4>1. /\ arrived' = [arrived EXCEPT ![p] = Tail(@)]
            /\ intrq'[p] = [Processed(p) EXCEPT !.list = Tail(@)]
            /\ \A q \in Queues : q # p => intrq'[q] = Processed(q)
        BY <2>3, <3>3, Zenon DEF ohci_poll_intr_queue
      <4>2. \A q \in Queues : q # p => ArrivalOf(q)'
        BY <2>a, <2>d, <3>0, <4>1, Zenon
      <4>3. intrq'[p].list = Tail(list) /\ intrq'[p].state = "live"
        BY <3>1, <4>1, ProcessedType, Zenon DEF QueueType
      <4>4. Tail(Owed(list, hcDone[p], <<>>)) = Owed(Tail(list), hcDone[p], <<>>)
        BY <3>1, <3>3, OwedTail, Zenon
      <4>5. arrived'[p] = Owed(Tail(list), hcDone[p], <<>>)
        BY <2>a, <3>1, <4>1, <4>4, Zenon
      <4>6. hccaDone'[p] = <<>>
        BY <3>0, Zenon DEF acknowledge, NoneDone
      <4>7. ArrivalOf(p)'
        BY <3>0, <4>3, <4>5, <4>6, Zenon DEF ArrivalOf
      <4>8. Tail(list) \in Seq(AllTds)
        BY <3>1, <3>3
      <4>9. arrived'[p] \in Seq(AllTds)
        <5>1. \A l, h, c \in Seq(AllTds) : Owed(l, h, c) \in Seq(AllTds)
          BY OwedType, Zenon
        <5>2. <<>> \in Seq(AllTds)
          OBVIOUS
        <5> QED BY <3>1, <4>5, <4>8, <5>1, <5>2, ZenonT(60)
      <4>10. arrived' \in [Queues -> Seq(AllTds)]
        BY <2>a, <4>1, <4>9, Zenon
      <4> QED BY <4>2, <4>7, <4>10, Zenon DEF OhciArrival
    <3> QED BY <3>2, <3>3, Zenon
  <2>4. ASSUME NEW n \in Lengths, ohci_control(n) \/ ohci_bulk(n) PROVE OhciArrival'
    BY <2>4, <2>c, Zenon DEF ohci_control, ohci_bulk, activate
  <2>5. CASE clear_stall \/ disable_list \/ finish_transfer \/ HcFrame \/ UNCHANGED ovars
    BY <2>5, <2>c, Zenon DEF clear_stall, activate, disable_list, finish_transfer, HcFrame, ovars
  <2>6. ASSUME NEW timeout \in BOOLEAN, wait_for_ed(timeout) PROVE OhciArrival'
    <3>1. /\ arrived' = arrived /\ hcDone' = hcDone /\ acknowledge
          /\ \A q \in Queues : intrq'[q] = Processed(q)
      BY <2>6, Zenon DEF wait_for_ed
    <3> QED BY <2>a, <2>d, <3>1, Zenon DEF OhciArrival
  <2>7. ASSUME NEW p \in Queues, ohci_destroy_intr_queue(p) PROVE OhciArrival'
    <3>1. /\ arrived' = [arrived EXCEPT ![p] = <<>>] /\ hcDone' = hcDone /\ acknowledge
          /\ \A q \in Queues : q # p => intrq'[q] = Processed(q)
          /\ intrq'[p] = Destroyed(p)
      BY <2>7, Zenon DEF ohci_destroy_intr_queue
    <3>2. \A q \in Queues : q # p => ArrivalOf(q)'
      BY <2>a, <2>d, <3>1, Zenon
    <3>3. ArrivalOf(p)'
      <4>1. intrq'[p].state = "destroyed"
        <5>1. Destroyed(p).state = "destroyed"
          BY Zenon DEF Destroyed
        <5> QED BY <3>1, <5>1, Zenon
      <4>2. arrived'[p] = <<>>
        BY <2>a, <3>1, Zenon
      <4> QED BY <4>1, <4>2, Zenon DEF ArrivalOf
    <3>4. arrived' \in [Queues -> Seq(AllTds)]
      BY <2>a, <3>1
    <3> QED BY <3>2, <3>3, <3>4, Zenon DEF OhciArrival
  <2>8. ASSUME NEW e \in Eds, NEW o \in Outcomes, HcRetire(e, o) PROVE OhciArrival'
    <3>0. intrq' = intrq /\ hccaDone' = hccaDone /\ Serves(e) /\ ed[e].tds # <<>>
      BY <2>8, Zenon DEF HcRetire
    <3>1. CASE e = Async
      <4>1. arrived' = arrived /\ \A q \in Queues : hcDone'[q] = hcDone[q]
        BY <2>8, <3>1, Zenon DEF HcRetire, OhciTypeOK
      <4> QED BY <2>a, <3>0, <4>1, Zenon DEF OhciArrival, ArrivalOf
    <3>2. CASE e \in Queues
      <4> DEFINE td == Head(ed[e].tds)
      <4>1. intrq[e].state = "live"
        BY <3>0, <3>2, Zenon DEF Serves, OhciControl
      <4>2. /\ arrived' = [arrived EXCEPT ![e] = Append(@, td)]
            /\ hcDone' = [hcDone EXCEPT ![e] = Linked(td, @)]
        BY <2>8, <3>2, Zenon DEF HcRetire, Linked
      <4>3. td \in AllTds
        BY <2>b, <3>0, <3>2
      <4> HIDE DEF td
      <4>4. \A q \in Queues : q # e => hcDone'[q] = hcDone[q] /\ arrived'[q] = arrived[q]
        BY <2>a, <4>2, Zenon DEF OhciTypeOK
      <4>5. \A q \in Queues : q # e => ArrivalOf(q)'
        BY <2>a, <3>0, <4>4, Zenon DEF ArrivalOf
      <4>6. hcDone'[e] = Linked(td, hcDone[e]) /\ arrived'[e] = Append(arrived[e], td)
        BY <2>a, <3>2, <4>2, Zenon DEF OhciTypeOK
      <4>7. arrived[e] = Owed(intrq[e].list, hcDone[e], hccaDone[e])
        BY <2>a, <3>2, <4>1, Zenon DEF ArrivalOf
      <4>8. arrived'[e] = Owed(intrq[e].list, Linked(td, hcDone[e]), hccaDone[e])
        <5>1. \A l, h, c \in Seq(AllTds) : \A x \in AllTds :
                Owed(l, Linked(x, h), c) = Append(Owed(l, h, c), x)
          BY OwedLinked
        <5>2. /\ intrq[e].list \in Seq(AllTds) /\ hcDone[e] \in Seq(AllTds)
              /\ hccaDone[e] \in Seq(AllTds)
          BY <2>b, <3>2, Zenon
        <5>3. Owed(intrq[e].list, Linked(td, hcDone[e]), hccaDone[e])
                = Append(Owed(intrq[e].list, hcDone[e], hccaDone[e]), td)
          <6>1. \A x \in AllTds :
                  Owed(intrq[e].list, Linked(x, hcDone[e]), hccaDone[e])
                    = Append(Owed(intrq[e].list, hcDone[e], hccaDone[e]), x)
            BY <5>1, <5>2, Zenon
          <6> QED BY <4>3, <6>1, Zenon
        <5> QED BY <4>6, <4>7, <5>3, Zenon
      <4>9. ArrivalOf(e)'
        BY <3>0, <4>1, <4>6, <4>8, Zenon DEF ArrivalOf
      <4>10. Append(arrived[e], td) \in Seq(AllTds)
        BY <2>a, <3>2, <4>3
      <4>11. arrived' \in [Queues -> Seq(AllTds)]
        BY <2>a, <4>2, <4>10, Zenon
      <4> QED BY <4>5, <4>9, <4>11, Zenon DEF OhciArrival
    <3> QED BY <3>1, <3>2, Zenon DEF Eds
  <2>9. CASE HcWriteback
    <3>1. /\ UNCHANGED <<intrq, arrived>>
          /\ \A q \in Queues : hccaDone'[q] = hcDone[q] /\ hcDone'[q] = <<>> /\ hccaDone[q] = <<>>
      BY <2>9, Zenon DEF HcWriteback, NoneDone, OhciControl
    <3>3. \A q \in Queues : Owed(intrq[q].list, hcDone'[q], hccaDone'[q])
                            = Owed(intrq[q].list, hcDone[q], hccaDone[q])
      BY <2>b, <3>1, OwedWrittenBack, Zenon
    <3>4. \A q \in Queues : ArrivalOf(q)'
      BY <2>a, <3>1, <3>3, Zenon DEF ArrivalOf
    <3> QED BY <2>a, <3>1, <3>4, Zenon DEF OhciArrival
  <2> QED BY <2>1, <2>2, <2>3, <2>4, <2>5, <2>6, <2>7, <2>8, <2>9, Zenon
         DEF OhciNext, Client, OhciDriver, Controller
<1> QED BY <1>1, <1>2, OhciTypeInvariant, OhciControlInvariant, OhciCountsInvariant, PTL DEF OhciSpec

\* ohci_poll_intr_queue hands out the packets of a queue in the order in which
\* they came.
THEOREM OhciArrivalOrder == OhciSpec => []ArrivalOrder
<1>1. OhciArrival => ArrivalOrder
  BY Zenon DEF OhciArrival, ArrivalOf, ArrivalOrder, Owed
<1> QED BY <1>1, OhciArrivalInvariant, PTL
-----------------------------------------------------------------------------
\* Without its first TD a list has every TD but that one.
LEMMA TailRange ==
  ASSUME NEW S, NEW s \in Seq(S), s # <<>>, IsInjective(s)
  PROVE  /\ IsInjective(Tail(s)) /\ Head(s) \in Range(s)
         /\ Range(Tail(s)) = Range(s) \ {Head(s)}
<1>1. /\ Len(s) \in Nat \ {0} /\ DOMAIN s = 1 .. Len(s) /\ Head(s) = s[1]
      /\ DOMAIN Tail(s) = 1 .. Len(s) - 1
      /\ \A i \in 1 .. Len(s) - 1 : Tail(s)[i] = s[i + 1]
  OBVIOUS
<1>2. IsInjective(Tail(s))
  BY <1>1 DEF IsInjective
<1>3. Head(s) \in Range(s)
  BY <1>1 DEF Range
<1>4. ASSUME NEW x \in Range(Tail(s)) PROVE x \in Range(s) /\ x # Head(s)
  BY <1>1 DEF Range, IsInjective
<1>5. ASSUME NEW x \in Range(s), x # Head(s) PROVE x \in Range(Tail(s))
  <2>1. PICK i \in 1 .. Len(s) : s[i] = x
    BY <1>1, Zenon DEF Range
  <2>2. i - 1 \in 1 .. Len(s) - 1 /\ Tail(s)[i - 1] = x
    BY <1>1, <1>5, <2>1
  <2> QED BY <1>1, <2>2, Zenon DEF Range
<1> QED BY <1>2, <1>3, <1>4, <1>5, Zenon

\* A TD put in front of a list is on it, once.
LEMMA LinkedRange ==
  ASSUME NEW S, NEW s \in Seq(S), NEW x \in S, x \notin Range(s), IsInjective(s)
  PROVE  IsInjective(Linked(x, s)) /\ Range(Linked(x, s)) = Range(s) \cup {x}
<1> DEFINE t == Linked(x, s)
<1>1. /\ Len(s) \in Nat /\ DOMAIN s = 1 .. Len(s) /\ DOMAIN t = 1 .. Len(s) + 1
      /\ t[1] = x /\ \A i \in 1 .. Len(s) : t[i + 1] = s[i]
  BY DEF Linked
<1> HIDE DEF t
<1>2. \A i \in 1 .. Len(s) + 1 : i # 1 => i - 1 \in 1 .. Len(s) /\ t[i] = s[i - 1]
  BY <1>1
<1>3. \A i \in 1 .. Len(s) : s[i] # x
  BY <1>1, Zenon DEF Range
<1>4. IsInjective(t)
  <2> SUFFICES ASSUME NEW a \in 1 .. Len(s) + 1, NEW b \in 1 .. Len(s) + 1, t[a] = t[b] PROVE a = b
    BY <1>1, Zenon DEF IsInjective
  <2>1. CASE a # 1 /\ b # 1
    <3>1. a - 1 \in 1 .. Len(s) /\ b - 1 \in 1 .. Len(s) /\ s[a - 1] = s[b - 1]
      BY <1>2, <2>1, Zenon
    <3>2. a - 1 = b - 1
      BY <1>1, <3>1, Zenon DEF IsInjective
    <3>3. a \in Int /\ b \in Int
      BY <1>1
    <3> QED BY <3>2, <3>3
  <2>2. CASE a = 1 \/ b = 1
    BY <1>1, <1>2, <1>3, <2>2, ZenonT(60)
  <2> QED BY <2>1, <2>2, Zenon
<1>5. ASSUME NEW y \in Range(t) PROVE y \in Range(s) \/ y = x
  BY <1>1, <1>2 DEF Range
<1>6. ASSUME NEW y \in Range(s) PROVE y \in Range(t)
  <2>1. PICK i \in 1 .. Len(s) : s[i] = y
    BY <1>1, Zenon DEF Range
  <2>2. i + 1 \in 1 .. Len(s) + 1 /\ t[i + 1] = y
    BY <1>1, <2>1
  <2> QED BY <1>1, <2>2, Zenon DEF Range
<1>7. x \in Range(t)
  BY <1>1 DEF Range
<1> QED BY <1>4, <1>5, <1>6, <1>7, Zenon DEF t

\* So is one put at its end.
LEMMA AppendRange ==
  ASSUME NEW S, NEW s \in Seq(S), NEW x \in S, x \notin Range(s), IsInjective(s)
  PROVE  IsInjective(Append(s, x)) /\ Range(Append(s, x)) = Range(s) \cup {x}
<1> DEFINE t == Append(s, x)
<1>1. /\ Len(s) \in Nat /\ DOMAIN s = 1 .. Len(s) /\ DOMAIN t = 1 .. Len(s) + 1
      /\ t[Len(s) + 1] = x /\ \A i \in 1 .. Len(s) : t[i] = s[i]
  OBVIOUS
<1> HIDE DEF t
<1>2. \A i \in 1 .. Len(s) : s[i] # x
  BY <1>1, Zenon DEF Range
<1>3. IsInjective(t)
  <2> SUFFICES ASSUME NEW a \in 1 .. Len(s) + 1, NEW b \in 1 .. Len(s) + 1, t[a] = t[b] PROVE a = b
    BY <1>1, Zenon DEF IsInjective
  <2>1. CASE a \in 1 .. Len(s) /\ b \in 1 .. Len(s)
    BY <1>1, <2>1, Zenon DEF IsInjective
  <2>2. CASE a = Len(s) + 1 \/ b = Len(s) + 1
    BY <1>1, <1>2, <2>2
  <2> QED BY <1>1, <2>1, <2>2
<1>4. ASSUME NEW y \in Range(t) PROVE y \in Range(s) \/ y = x
  BY <1>1 DEF Range
<1>5. ASSUME NEW y \in Range(s) PROVE y \in Range(t)
  BY <1>1 DEF Range
<1>6. x \in Range(t)
  BY <1>1 DEF Range
<1> QED BY <1>3, <1>4, <1>5, <1>6, Zenon DEF t

\* AppendRange for the lists of the driver.
LEMMA AppendedTd ==
  \A s \in Seq(AllTds), x \in AllTds : x \notin Range(s) /\ IsInjective(s) =>
    IsInjective(Append(s, x)) /\ Range(Append(s, x)) = Range(s) \cup {x}
<1> SUFFICES ASSUME NEW s \in Seq(AllTds), NEW x \in AllTds, x \notin Range(s), IsInjective(s)
             PROVE  IsInjective(Append(s, x)) /\ Range(Append(s, x)) = Range(s) \cup {x}
  BY Zenon
<1> QED BY AppendRange

\* Turning a list round changes neither what is on it nor how often.
LEMMA InOrderRange ==
  ASSUME NEW S, NEW s \in Seq(S)
  PROVE  /\ Range(InOrder(s)) = Range(s)
         /\ IsInjective(s) => IsInjective(InOrder(s))
<1> DEFINE n == Len(s)
           t == InOrder(s)
<1>1. n \in Nat /\ DOMAIN s = 1 .. n /\ DOMAIN t = 1 .. n
  BY DEF InOrder
<1>2. \A i \in 1 .. n : n + 1 - i \in 1 .. n /\ t[i] = s[n + 1 - i] /\ s[i] = t[n + 1 - i]
  BY DEF InOrder
<1> HIDE DEF n, t
<1>3. \A x : x \in Range(t) <=> x \in Range(s)
  BY <1>1, <1>2, ZenonT(60) DEF Range
<1>4. ASSUME IsInjective(s) PROVE IsInjective(t)
  BY <1>1, <1>2, <1>4 DEF IsInjective
<1> QED BY <1>3, <1>4, Zenon DEF t

\* Two lists with nothing in common, one behind the other.
LEMMA ConcatRange ==
  ASSUME NEW S, NEW s \in Seq(S), NEW r \in Seq(S), Range(s) \cap Range(r) = {},
         IsInjective(s), IsInjective(r)
  PROVE  IsInjective(s \o r) /\ Range(s \o r) = Range(s) \cup Range(r)
<1> DEFINE t == s \o r
           n == Len(s)
           m == Len(r)
<1>1. /\ n \in Nat /\ m \in Nat /\ DOMAIN s = 1 .. n /\ DOMAIN r = 1 .. m
      /\ DOMAIN t = 1 .. n + m
  OBVIOUS
<1>2. /\ \A i \in 1 .. n : i \in 1 .. n + m /\ t[i] = s[i]
      /\ \A i \in 1 .. m : n + i \in 1 .. n + m /\ t[n + i] = r[i]
  OBVIOUS
<1> HIDE DEF t, n, m
<1>3. \A i \in 1 .. n + m : i \in 1 .. n \/ (i - n \in 1 .. m /\ i = n + (i - n))
  BY <1>1
<1>4. \A i \in 1 .. n + m : i \notin 1 .. n => i - n \in 1 .. m /\ t[i] = r[i - n]
  BY <1>1, <1>2, <1>3, Zenon
<1>5. \A i \in 1 .. n, j \in 1 .. m : s[i] # r[j]
  BY <1>1, Zenon DEF Range
<1>6. IsInjective(t)
  <2> SUFFICES ASSUME NEW a \in 1 .. n + m, NEW b \in 1 .. n + m, t[a] = t[b] PROVE a = b
    BY <1>1, Zenon DEF IsInjective
  <2>1. CASE a \in 1 .. n /\ b \in 1 .. n
    BY <1>1, <1>2, <2>1, ZenonT(60) DEF IsInjective
  <2>2. CASE a \notin 1 .. n /\ b \notin 1 .. n
    <3>1. r[a - n] = r[b - n] /\ a - n \in 1 .. m /\ b - n \in 1 .. m
      BY <1>4, <2>2, Zenon
    <3>2. a - n = b - n
      BY <1>1, <3>1, Zenon DEF IsInjective
    <3> QED BY <1>1, <3>2
  <2>3. CASE a \in 1 .. n /\ b \notin 1 .. n
    BY <1>2, <1>4, <1>5, <2>3
  <2>4. CASE a \notin 1 .. n /\ b \in 1 .. n
    BY <1>2, <1>4, <1>5, <2>4
  <2> QED BY <2>1, <2>2, <2>3, <2>4, Zenon
<1>7. ASSUME NEW x \in Range(t) PROVE x \in Range(s) \/ x \in Range(r)
  BY <1>1, <1>2, <1>4 DEF Range
<1>8. ASSUME NEW x \in Range(s) PROVE x \in Range(t)
  BY <1>1, <1>2, Zenon DEF Range
<1>9. ASSUME NEW x \in Range(r) PROVE x \in Range(t)
  BY <1>1, <1>2, Zenon DEF Range
<1> QED BY <1>6, <1>7, <1>8, <1>9, Zenon DEF t

\* Where the TDs of a queue are: in its ED, fetched, in the two parts of the
\* done queue, and at the tail of its ED.  The five are apart, no list has a TD
\* twice, and together they are what is allocated for the queue.
Dummy(q) == IF intrq[q].state = "live" THEN {ed[q].dummy} ELSE {}
Split(A, B, C, D, E, U) ==
  /\ A \cap B = {} /\ A \cap C = {} /\ A \cap D = {} /\ A \cap E = {}
  /\ B \cap C = {} /\ B \cap D = {} /\ B \cap E = {}
  /\ C \cap D = {} /\ C \cap E = {} /\ D \cap E = {}
  /\ A \cup B \cup C \cup D \cup E = U
PlacedOf(q) ==
  /\ IsInjective(ed[q].tds) /\ IsInjective(intrq[q].list)
  /\ IsInjective(hcDone[q]) /\ IsInjective(hccaDone[q])
  /\ Split(Range(ed[q].tds), Range(intrq[q].list), Range(hcDone[q]), Range(hccaDone[q]),
           Dummy(q), used \cap TdsOf(q))
  /\ intrq[q].state # "live" => ed[q] = NoEd /\ intrq[q].list = <<>>

OhciPlaced == \A q \in Queues : PlacedOf(q)

\* The controller retires a TD: it moves from the ED to the done queue.
LEMMA SplitRetire ==
  ASSUME NEW A, NEW B, NEW C, NEW D, NEW E, NEW U, Split(A, B, C, D, E, U), NEW x \in A
  PROVE  Split(A \ {x}, B, C \cup {x}, D, E, U)
BY Zenon DEF Split

\* The TDs at HccaDoneHead join those fetched.
LEMMA SplitFetch ==
  ASSUME NEW A, NEW B, NEW C, NEW D, NEW E, NEW U, Split(A, B, C, D, E, U)
  PROVE  Split(A, B \cup D, C, {}, E, U)
BY Zenon DEF Split

\* All TDs of a queue but those on the controller's done queue are freed.
LEMMA SplitFree ==
  ASSUME NEW A, NEW B, NEW C, NEW D, NEW E, NEW U, NEW V, Split(A, B, C, D, E, U),
         V = U \ (A \cup B \cup D \cup E)
  PROVE  Split({}, {}, C, {}, {}, V)
BY Zenon DEF Split

\* Nothing is on the empty list.
LEMMA EmptyList == Range(<<>>) = {} /\ IsInjective(<<>>)
BY DEF Range, IsInjective

\* TDs of different queues are different.
LEMMA TdsApart ==
  /\ \A q \in Queues : TdsOf(q) = {q} \X (0 .. ReqCount[q])
  /\ \A p, q \in Queues : \A x \in TdsOf(p) : x \in TdsOf(q) => p = q
<1>1. \A q \in Queues : TdsOf(q) = {q} \X (0 .. ReqCount[q])
  BY Names, Zenon DEF TdsOf
<1>2. \A q \in Queues : \A x \in TdsOf(q) : x[1] = q
  BY <1>1
<1> QED BY <1>1, <1>2, Zenon

\* What ohci_process_done_queue frees of a queue, and what it fetches.
LEMMA FreedOf ==
  ASSUME OhciTypeOK, OhciControl, OhciPlaced, NEW q \in Queues
  PROVE  /\ Range(Done(q)) = Range(hccaDone[q])
         /\ Range(hccaDone[q]) \subseteq TdsOf(q)
         /\ IsInjective(Done(q))
         /\ Freed \cap TdsOf(q) = IF intrq[q].state = "destroyed" THEN Range(hccaDone[q]) ELSE {}
<1>1. ASSUME NEW p \in Queues
      PROVE  /\ Range(Done(p)) = Range(hccaDone[p]) /\ Range(hccaDone[p]) \subseteq TdsOf(p)
             /\ IsInjective(Done(p))
  <2>1. /\ hccaDone[p] \in Seq(AllTds)
        /\ ~wdh => hccaDone[p] = <<>>
    BY Names, Zenon DEF OhciTypeOK, OhciControl, NoneDone
  <2>2. PlacedOf(p)
    BY Zenon DEF OhciPlaced
  <2>3. IsInjective(hccaDone[p]) /\ Range(hccaDone[p]) \subseteq used \cap TdsOf(p)
    BY <2>2, Zenon DEF PlacedOf, Split
  <2>4. CASE wdh
    BY <2>1, <2>3, <2>4, InOrderRange, Zenon DEF Done
  <2>5. CASE ~wdh
    BY <2>1, <2>3, <2>5, Zenon DEF Done
  <2> QED BY <2>4, <2>5, Zenon
<1>2. \A x : x \in Freed <=> \E p \in Queues : intrq[p].state = "destroyed" /\ x \in Range(Done(p))
  BY Zenon DEF Freed
<1>3. ASSUME NEW x \in TdsOf(q)
      PROVE  x \in Freed <=> intrq[q].state = "destroyed" /\ x \in Range(hccaDone[q])
  BY <1>1, <1>2, TdsApart
<1>4. ASSUME NEW x \in Range(hccaDone[q]) PROVE x \in TdsOf(q)
  BY <1>1, Zenon
<1> QED BY <1>1, <1>3, <1>4, Zenon

\* The parts of a queue after ohci_process_done_queue.
LEMMA ProcessedPlaced ==
  ASSUME OhciTypeOK, OhciControl, OhciCounts, OhciPlaced, NEW q \in Queues
  PROVE  /\ IsInjective(Processed(q).list)
         /\ Split(Range(ed[q].tds), Range(Processed(q).list), Range(hcDone[q]), {}, Dummy(q),
                  (used \ Freed) \cap TdsOf(q))
         /\ intrq[q].state # "live" => Processed(q).list = <<>>
<1> DEFINE A == Range(ed[q].tds)
           B == Range(intrq[q].list)
           C == Range(hcDone[q])
           D == Range(hccaDone[q])
           E == Dummy(q)
           U == used \cap TdsOf(q)
<1>1. /\ IsInjective(intrq[q].list) /\ Split(A, B, C, D, E, U)
      /\ intrq[q].state # "live" => ed[q] = NoEd /\ intrq[q].list = <<>>
  BY Zenon DEF OhciPlaced, PlacedOf
<1>2. intrq[q] \in QueueType /\ intrq[q].list \in Seq(AllTds) /\ Done(q) \in Seq(AllTds)
  BY ProcessedType, Zenon DEF OhciTypeOK, QueueType
<1>3. /\ Range(Done(q)) = D /\ IsInjective(Done(q))
      /\ Freed \cap TdsOf(q) = IF intrq[q].state = "destroyed" THEN D ELSE {}
  BY FreedOf, Zenon
<1>4. CASE intrq[q].state # "destroyed"
  <2>1. Processed(q) = [intrq[q] EXCEPT !.list = @ \o Done(q)]
    BY <1>4, Zenon DEF Processed
  <2>2. Processed(q).list = intrq[q].list \o Done(q)
    BY <1>2, <2>1, Zenon DEF QueueType
  <2>3. B \cap Range(Done(q)) = {}
    BY <1>1, <1>3, ZenonT(60) DEF Split
  <2>4. IsInjective(Processed(q).list) /\ Range(Processed(q).list) = B \cup D
    BY <1>1, <1>2, <1>3, <2>2, <2>3, ConcatRange
  <2>5. (used \ Freed) \cap TdsOf(q) = U
    BY <1>3, <1>4, Zenon
  <2>6. Split(A, B \cup D, C, {}, E, U)
    BY <1>1, SplitFetch, Zenon
  <2>7. intrq[q].state # "live" => Processed(q).list = <<>>
    <3> SUFFICES ASSUME intrq[q].state # "live" PROVE Processed(q).list = <<>>
      BY Zenon
    <3>1. intrq[q].state = "none"
      BY <1>2, <1>4, Zenon DEF QueueType
    <3>2. Done(q) = <<>>
      BY <3>1, NothingInFlight, InOrderType DEF Done, InOrder
    <3> QED BY <1>1, <2>2, <3>2
  <2> QED BY <2>4, <2>5, <2>6, <2>7, Zenon
<1>5. CASE intrq[q].state = "destroyed"
  <2>1. Processed(q).list = <<>>
    BY <1>1, <1>2, <1>5, Zenon DEF Processed, NoQueue, QueueType
  <2>2. A = {} /\ B = {} /\ E = {}
    BY <1>1, <1>5, EmptyList DEF NoEd, Dummy
  <2>3. (used \ Freed) \cap TdsOf(q) = U \ (A \cup B \cup D \cup E)
    BY <1>3, <1>5, <2>2, Zenon
  <2>4. Split({}, {}, C, {}, {}, (used \ Freed) \cap TdsOf(q))
    BY <1>1, <2>3, SplitFree
  <2> QED BY <1>5, <2>1, <2>2, <2>4, EmptyList, Zenon
<1> QED BY <1>4, <1>5, Zenon

\* A step that processes the done queue and leaves the ED of q alone.
LEMMA ProcessingKeepsPlaced ==
  ASSUME OhciTypeOK, OhciControl, OhciCounts, OhciPlaced, NEW q \in Queues,
         intrq'[q] = Processed(q), ed'[q] = ed[q], hcDone' = hcDone, acknowledge,
         used' \cap TdsOf(q) = (used \ Freed) \cap TdsOf(q)
  PROVE  PlacedOf(q)'
<1>1. hccaDone'[q] = <<>>
  BY Names, Zenon DEF acknowledge, NoneDone
<1>2. Dummy(q)' = Dummy(q) /\ (intrq'[q].state = "live" <=> intrq[q].state = "live")
  BY ProcessedLive, Zenon DEF Dummy
<1>3. /\ IsInjective(ed[q].tds) /\ IsInjective(hcDone[q])
      /\ intrq[q].state # "live" => ed[q] = NoEd
  BY Zenon DEF OhciPlaced, PlacedOf
<1>4. /\ IsInjective(Processed(q).list)
      /\ Split(Range(ed[q].tds), Range(Processed(q).list), Range(hcDone[q]), {}, Dummy(q),
               (used \ Freed) \cap TdsOf(q))
      /\ intrq[q].state # "live" => Processed(q).list = <<>>
  BY ProcessedPlaced, Zenon
<1> QED BY <1>1, <1>2, <1>3, <1>4, EmptyList, Zenon DEF PlacedOf

\* The inductive invariant behind EachTdOnOneList, for the TDs of the queues.
THEOREM OhciPlacedInvariant ==
  ASSUME ~Swapped
  PROVE  OhciSpec => []OhciPlaced
<1>1. OhciInit => OhciPlaced
  <2> SUFFICES ASSUME OhciInit, NEW q \in Queues PROVE PlacedOf(q)
    BY Zenon DEF OhciPlaced
  <2>1. /\ ed[q] = NoEd /\ intrq[q] = NoQueue /\ hcDone[q] = <<>> /\ hccaDone[q] = <<>>
        /\ used = {}
    BY Names, Zenon DEF OhciInit, NoneDone
  <2>2. ed[q].tds = <<>> /\ intrq[q].list = <<>> /\ Dummy(q) = {}
    BY <2>1 DEF NoEd, NoQueue, Dummy
  <2>3. Split({}, {}, {}, {}, {}, used \cap TdsOf(q))
    BY <2>1, Zenon DEF Split
  <2> QED BY <2>1, <2>2, <2>3, EmptyList, Zenon DEF PlacedOf
<1>2. OhciTypeOK /\ OhciControl /\ OhciCounts /\ OhciPlaced /\ [OhciNext]_ovars => OhciPlaced'
  <2> SUFFICES ASSUME OhciTypeOK, OhciControl, OhciCounts, OhciPlaced, [OhciNext]_ovars,
                      NEW q \in Queues
               PROVE  PlacedOf(q)'
    BY Zenon DEF OhciPlaced
  <2> USE Names
  <2>a. PlacedOf(q)
    BY Zenon DEF OhciPlaced
  <2>b. /\ hcDone[q] \in Seq(AllTds) /\ hccaDone[q] \in Seq(AllTds)
        /\ ed[q].tds \in Seq(AllTds) /\ intrq[q].list \in Seq(AllTds)
    BY Zenon DEF OhciTypeOK, EdType, QueueType
  <2>c. CASE /\ ed'[q] = ed[q] /\ intrq'[q] = intrq[q] /\ hcDone'[q] = hcDone[q]
             /\ hccaDone'[q] = hccaDone[q] /\ used' \cap TdsOf(q) = used \cap TdsOf(q)
    BY <2>a, <2>c, Zenon DEF PlacedOf, Dummy
  <2>1. ASSUME NEW p \in Queues, NEW timing \in Timings, ohci_create_intr_queue(p, timing)
        PROVE  PlacedOf(q)'
    <3>0. /\ used' = used \cup {<<p, i>> : i \in 0 .. ReqCount[p]} /\ UNCHANGED <<hcDone, hccaDone>>
          /\ intrq[p].state = "none"
      BY <2>1, Zenon DEF ohci_create_intr_queue
    <3>1. used' = used \cup TdsOf(p)
      BY <3>0, TdsApart
    <3>2. CASE p # q
      <4>1. ed'[q] = ed[q] /\ intrq'[q] = intrq[q]
        BY <2>1, <3>2, Zenon DEF ohci_create_intr_queue, OhciTypeOK
      <4>2. used' \cap TdsOf(q) = used \cap TdsOf(q)
        BY <3>1, <3>2, TdsApart, Zenon
      <4> QED BY <2>c, <3>0, <4>1, <4>2, Zenon
    <3>3. CASE p = q
      <4>1. hcDone'[q] = <<>> /\ hccaDone'[q] = <<>>
        BY <3>0, <3>3, NothingInFlight, Zenon
      <4>2. /\ ed'[q].tds = [i \in 1 .. ReqCount[q] |-> <<q, i>>] /\ ed'[q].dummy = <<q, 0>>
            /\ intrq'[q].list = <<>> /\ intrq'[q].state = "live"
        BY <2>1, <3>3, Zenon DEF ohci_create_intr_queue, OhciTypeOK
      <4>3. Dummy(q)' = {<<q, 0>>}
        BY <4>2, Zenon DEF Dummy
      <4>4. IsInjective(ed'[q].tds)
        BY <4>2 DEF IsInjective
      <4>5. Range(ed'[q].tds) = {<<q, i>> : i \in 1 .. ReqCount[q]}
        <5> DEFINE t == [i \in 1 .. ReqCount[q] |-> <<q, i>>]
        <5>1. Range(t) = {t[i] : i \in 1 .. ReqCount[q]}
          BY Zenon DEF Range
        <5>2. {t[i] : i \in 1 .. ReqCount[q]} = {<<q, i>> : i \in 1 .. ReqCount[q]}
          BY Zenon
        <5> QED BY <4>2, <5>1, <5>2, Zenon
      <4>6. used' \cap TdsOf(q) = TdsOf(q)
        BY <3>1, <3>3, Zenon
      <4>7. TdsOf(q) = {<<q, i>> : i \in 1 .. ReqCount[q]} \cup {<<q, 0>>}
        BY TdsApart
      <4>8. {<<q, i>> : i \in 1 .. ReqCount[q]} \cap {<<q, 0>>} = {}
        OBVIOUS
      <4>9. Split(Range(ed'[q].tds), {}, {}, {}, Dummy(q)', used' \cap TdsOf(q))
        BY <4>3, <4>5, <4>6, <4>7, <4>8, Zenon DEF Split
      <4> QED BY <4>1, <4>2, <4>4, <4>9, EmptyList, Zenon DEF PlacedOf
    <3> QED BY <3>2, <3>3, Zenon
  <2>2. ASSUME NEW p \in Queues, unhook_intr_queue(p) PROVE PlacedOf(q)'
    BY <2>2, <2>c, Zenon DEF unhook_intr_queue
  <2>3. ASSUME NEW p \in Queues, ohci_poll_intr_queue(p) PROVE PlacedOf(q)'
    <3> DEFINE list == Processed(p).list
    <3>0. /\ hcDone' = hcDone /\ acknowledge /\ used' = used \ Freed
          /\ intrq[p].state = "live"
      BY <2>3, Zenon DEF ohci_poll_intr_queue
    <3>1. CASE p # q \/ list = <<>>
      <4>1. intrq'[q] = Processed(q) /\ ed'[q] = ed[q]
        BY <2>3, <3>1 DEF ohci_poll_intr_queue, OhciTypeOK
      <4> QED BY <3>0, <4>1, ProcessingKeepsPlaced, Zenon
    <3>2. CASE p = q /\ list # <<>>
      <4> DEFINE x == Head(Processed(q).list)
                 d == ed[q].dummy
      <4>1. /\ intrq'[q] = [Processed(q) EXCEPT !.list = Tail(@)]
            /\ ed' = [ed EXCEPT ![q].tds = Append(@, d), ![q].dummy = x]
        BY <2>3, <3>2, Zenon DEF ohci_poll_intr_queue
      <4>2. Processed(q) \in QueueType /\ Processed(q).list \in Seq(AllTds)
        BY ProcessedType, Zenon DEF QueueType
      <4>3. intrq'[q].list = Tail(Processed(q).list) /\ intrq'[q].state = "live"
        BY <3>0, <3>2, <4>1, <4>2, ProcessedLive, Zenon DEF QueueType
      <4>4. ed'[q].tds = Append(ed[q].tds, d) /\ ed'[q].dummy = x
        <5>1. ed \in [Eds -> EdType] /\ q \in Eds
          BY Zenon DEF OhciTypeOK, Eds
        <5>2. ed[q] \in EdType /\ ed'[q] = [ed[q] EXCEPT !.tds = Append(@, d), !.dummy = x]
          BY <4>1, <5>1
        <5> QED BY <5>2 DEF EdType
      <4>5. d \in AllTds
        BY <3>0, <3>2, Zenon DEF OhciTypeOK
      <4> HIDE DEF x, d
      <4>6. /\ IsInjective(Processed(q).list)
            /\ Split(Range(ed[q].tds), Range(Processed(q).list), Range(hcDone[q]), {}, {d},
                     (used \ Freed) \cap TdsOf(q))
        BY <3>0, <3>2, ProcessedPlaced, Zenon DEF Dummy, d
      <4>7. /\ IsInjective(intrq'[q].list) /\ x \in Range(Processed(q).list)
            /\ Range(intrq'[q].list) = Range(Processed(q).list) \ {x}
        BY <3>2, <4>2, <4>3, <4>6, TailRange, Zenon DEF x
      <4>8. d \notin Range(ed[q].tds)
        BY <4>6, Zenon DEF Split
      <4>9. IsInjective(ed'[q].tds) /\ Range(ed'[q].tds) = Range(ed[q].tds) \cup {d}
        BY <2>a, <2>b, <4>4, <4>5, <4>8, AppendRange DEF PlacedOf
      <4>10. Split(Range(ed'[q].tds), Range(intrq'[q].list), Range(hcDone[q]), {}, {x},
                   (used \ Freed) \cap TdsOf(q))
        <5>1. Split(Range(ed[q].tds) \cup {d}, Range(Processed(q).list) \ {x}, Range(hcDone[q]), {},
                    {x}, (used \ Freed) \cap TdsOf(q))
          BY <4>6, <4>7 DEF Split
        <5> QED BY <4>7, <4>9, <5>1, ZenonT(60)
      <4>11. hccaDone'[q] = <<>>
        BY <3>0, Zenon DEF acknowledge, NoneDone
      <4>12. Dummy(q)' = {x}
        BY <4>3, <4>4, Zenon DEF Dummy
      <4>13. IsInjective(hcDone'[q])
        BY <2>a, <3>0, Zenon DEF PlacedOf
      <4> QED BY <3>0, <4>3, <4>7, <4>9, <4>10, <4>11, <4>12, <4>13, EmptyList, Zenon DEF PlacedOf
    <3> QED BY <3>1, <3>2, Zenon
  <2>4. ASSUME NEW n \in Nat, activate(n) PROVE PlacedOf(q)'
    BY <2>4, <2>c, Zenon DEF activate, OhciTypeOK
  <2>5. ASSUME NEW n \in Lengths, ohci_control(n) \/ ohci_bulk(n) PROVE PlacedOf(q)'
    BY <2>4, <2>5, OhciAssumption, Zenon DEF ohci_control, ohci_bulk
  <2>6. CASE clear_stall
    BY <2>4, <2>6, Zenon DEF clear_stall
  <2>7. ASSUME NEW timeout \in BOOLEAN, wait_for_ed(timeout) PROVE PlacedOf(q)'
    <3>1. /\ intrq'[q] = Processed(q) /\ ed'[q] = ed[q] /\ hcDone' = hcDone /\ acknowledge
          /\ used' = used \ Freed
      BY <2>7, Zenon DEF wait_for_ed
    <3> QED BY <3>1, ProcessingKeepsPlaced, Zenon
  <2>8. CASE disable_list \/ HcFrame \/ UNCHANGED ovars
    BY <2>8, <2>c, Zenon DEF disable_list, HcFrame, ovars
  <2>9. CASE finish_transfer
    BY <2>9, <2>c, Zenon DEF finish_transfer, OhciTypeOK
  <2>10. ASSUME NEW p \in Queues, ohci_destroy_intr_queue(p) PROVE PlacedOf(q)'
    <3> DEFINE A == Range(ed[p].tds)
               B == Range(Processed(p).list)
               E == {ed[p].dummy}
    <3>0. /\ hcDone' = hcDone /\ acknowledge /\ used' = used \ (A \cup E \cup Freed \cup B)
          /\ pc = "unhooked" /\ call.queue = p
      BY <2>10, Zenon DEF ohci_destroy_intr_queue
    <3>1. intrq[p].state = "live"
      BY <3>0, Zenon DEF OhciControl
    <3>2. Split(A, B, Range(hcDone[p]), {}, E, (used \ Freed) \cap TdsOf(p))
      BY <3>1, ProcessedPlaced, Zenon DEF Dummy
    <3>3. A \cup B \cup E \subseteq TdsOf(p)
      BY <3>2, Zenon DEF Split
    <3>4. CASE p # q
      <4>1. intrq'[q] = Processed(q) /\ ed'[q] = ed[q]
        BY <2>10, <3>4, Zenon DEF ohci_destroy_intr_queue, OhciTypeOK
      <4>2. \A x \in TdsOf(q) : x \notin A \cup B \cup E
        BY <3>3, <3>4, TdsApart, Zenon
      <4>3. used' \cap TdsOf(q) = (used \ Freed) \cap TdsOf(q)
        BY <3>0, <4>2, Zenon
      <4> QED BY <3>0, <4>1, <4>3, ProcessingKeepsPlaced, Zenon
    <3>5. CASE p = q
      <4>1. intrq'[q] = Destroyed(q) /\ ed'[q] = NoEd /\ hcDone'[q] = hcDone[q]
        BY <2>10, <3>5, Zenon DEF ohci_destroy_intr_queue, OhciTypeOK
      <4>2. /\ intrq'[q].list = <<>> /\ intrq'[q].state = "destroyed" /\ ed'[q].tds = <<>>
            /\ Dummy(q)' = {}
        <5>1. Destroyed(q).list = <<>> /\ Destroyed(q).state = "destroyed" /\ NoEd.tds = <<>>
          BY Zenon DEF Destroyed, NoEd
        <5>2. intrq'[q].list = <<>> /\ intrq'[q].state = "destroyed" /\ ed'[q].tds = <<>>
          BY <4>1, <5>1, Zenon
        <5>3. Dummy(q)' = {}
          BY <5>2, Zenon DEF Dummy
        <5> QED BY <5>2, <5>3, Zenon
      <4>3. used' \cap TdsOf(q) = ((used \ Freed) \cap TdsOf(p)) \ (A \cup B \cup {} \cup E)
        BY <3>0, <3>5, ZenonT(60)
      <4>4. Split({}, {}, Range(hcDone[q]), {}, {}, used' \cap TdsOf(q))
        BY <3>2, <3>5, <4>3, SplitFree
      <4>5. hccaDone'[q] = <<>>
        BY <3>0, Zenon DEF acknowledge, NoneDone
      <4>6. IsInjective(hcDone[q])
        BY <2>a, Zenon DEF PlacedOf
      <4> QED BY <4>1, <4>2, <4>4, <4>5, <4>6, EmptyList, Zenon DEF PlacedOf
    <3> QED BY <3>4, <3>5, Zenon
  <2>11. ASSUME NEW e \in Eds, NEW o \in Outcomes, HcRetire(e, o) PROVE PlacedOf(q)'
    <3>0. intrq' = intrq /\ hccaDone' = hccaDone /\ used' = used
      BY <2>11, Zenon DEF HcRetire
    <3>1. CASE e # q
      <4>1. ed'[q] = ed[q] /\ hcDone'[q] = hcDone[q]
        BY <2>11, <3>1, ZenonT(60) DEF HcRetire, OhciTypeOK
      <4> QED BY <2>c, <3>0, <4>1, Zenon
    <3>2. CASE e = q
      <4> DEFINE x == Head(ed[q].tds)
      <4>1. intrq[q].state = "live" /\ ed[q].tds # <<>>
        BY <2>11, <3>2, Zenon DEF HcRetire, Serves, OhciControl
      <4>2. ed'[q].tds = Tail(ed[q].tds) /\ ed'[q].dummy = ed[q].dummy
        BY <2>11, <3>2 DEF HcRetire, OhciTypeOK, EdType
      <4>3. hcDone'[q] = Linked(x, hcDone[q])
        BY <2>11, <3>2, Zenon DEF HcRetire, OhciTypeOK, Linked
      <4>4. x \in AllTds
        BY <2>b, <4>1
      <4>5. /\ IsInjective(ed'[q].tds) /\ x \in Range(ed[q].tds)
            /\ Range(ed'[q].tds) = Range(ed[q].tds) \ {x}
        BY <2>a, <2>b, <4>1, <4>2, TailRange, Zenon DEF PlacedOf
      <4> HIDE DEF x
      <4>6. /\ Split(Range(ed[q].tds), Range(intrq[q].list), Range(hcDone[q]), Range(hccaDone[q]),
                     Dummy(q), used \cap TdsOf(q))
            /\ IsInjective(hcDone[q]) /\ IsInjective(hccaDone[q]) /\ IsInjective(intrq[q].list)
        BY <2>a, Zenon DEF PlacedOf
      <4>7. x \notin Range(hcDone[q])
        BY <4>5, <4>6, ZenonT(60) DEF Split
      <4>8. IsInjective(hcDone'[q]) /\ Range(hcDone'[q]) = Range(hcDone[q]) \cup {x}
        BY <2>b, <4>3, <4>4, <4>6, <4>7, LinkedRange
      <4>9. Split(Range(ed'[q].tds), Range(intrq[q].list), Range(hcDone'[q]), Range(hccaDone[q]),
                  Dummy(q), used \cap TdsOf(q))
        BY <4>5, <4>6, <4>8, SplitRetire
      <4>10. Dummy(q)' = Dummy(q)
        BY <3>0, <4>2, Zenon DEF Dummy
      <4> QED BY <3>0, <4>1, <4>5, <4>6, <4>8, <4>9, <4>10 DEF PlacedOf
    <3> QED BY <3>1, <3>2, Zenon
  <2>12. CASE HcWriteback
    <3>1. /\ UNCHANGED <<intrq, ed, used>> /\ hccaDone'[q] = hcDone[q] /\ hcDone'[q] = <<>>
          /\ hccaDone[q] = <<>>
      BY <2>12, Zenon DEF HcWriteback, NoneDone, OhciControl
    <3>2. Split(Range(ed[q].tds), Range(intrq[q].list), {}, Range(hcDone[q]), Dummy(q),
                used \cap TdsOf(q))
      BY <2>a, <3>1, EmptyList, Zenon DEF PlacedOf, Split
    <3>3. Dummy(q)' = Dummy(q)
      BY <3>1, Zenon DEF Dummy
    <3> QED BY <2>a, <3>1, <3>2, <3>3, EmptyList, Zenon DEF PlacedOf
  <2> QED BY <2>1, <2>2, <2>3, <2>5, <2>6, <2>7, <2>8, <2>9, <2>10, <2>11, <2>12
         DEF OhciNext, Client, OhciDriver, Controller
<1> QED BY <1>1, <1>2, OhciTypeInvariant, OhciControlInvariant, OhciCountsInvariant, PTL DEF OhciSpec

\* The TDs of control and bulk transfers: all lists of their endpoint are made
\* of them, and those on the lists, with the dummy of a transfer that is going
\* on, are as many as are allocated.
AsyncList == Seq({AsyncTd})
OhciAsync ==
  /\ ed[Async].tds \in AsyncList /\ hcDone[Async] \in AsyncList /\ hccaDone[Async] \in AsyncList
  /\ asyncUsed = Size(ed[Async].tds) + Size(hcDone[Async]) + Size(hccaDone[Async])
                 + (IF Transfer THEN 1 ELSE 0)

\* How the lengths of such lists change.
LEMMA AsyncSizes ==
  /\ <<>> \in AsyncList /\ Size(<<>>) = 0
  /\ \A s \in AsyncList : Size(s) \in Nat
  /\ \A s \in AsyncList : s # <<>> => /\ Tail(s) \in AsyncList /\ Size(Tail(s)) = Size(s) - 1
                                      /\ Head(s) = AsyncTd
  /\ \A s \in AsyncList : /\ <<AsyncTd>> \o s \in AsyncList
                           /\ Size(<<AsyncTd>> \o s) = Size(s) + 1
  /\ \A n \in Nat : /\ [i \in 1 .. n |-> AsyncTd] \in AsyncList
                     /\ Size([i \in 1 .. n |-> AsyncTd]) = n
<1>1. <<>> \in AsyncList /\ Size(<<>>) = 0
  BY DEF AsyncList, Size
<1>2. \A s \in AsyncList : Size(s) \in Nat
  BY DEF AsyncList, Size
<1>3. \A s \in AsyncList : s # <<>> => /\ Tail(s) \in AsyncList /\ Size(Tail(s)) = Size(s) - 1
                                        /\ Head(s) = AsyncTd
  BY DEF AsyncList, Size
<1>4. \A s \in AsyncList : <<AsyncTd>> \o s \in AsyncList /\ Size(<<AsyncTd>> \o s) = Size(s) + 1
  BY DEF AsyncList, Size
<1>5. \A n \in Nat : /\ [i \in 1 .. n |-> AsyncTd] \in AsyncList
                     /\ Size([i \in 1 .. n |-> AsyncTd]) = n
  BY DEF AsyncList, Size
<1> QED BY <1>1, <1>2, <1>3, <1>4, <1>5, Zenon

\* The number of allocated TDs is the number of those on lists.
THEOREM OhciAsyncInvariant == OhciSpec => []OhciAsync
<1>1. OhciInit => OhciAsync
  <2> SUFFICES ASSUME OhciInit PROVE OhciAsync
    BY Zenon
  <2>1. /\ ed[Async].tds = <<>> /\ hcDone[Async] = <<>> /\ hccaDone[Async] = <<>> /\ asyncUsed = 0
        /\ ~Transfer
    BY Names, Zenon DEF OhciInit, NoEd, NoneDone, Transfer
  <2> QED BY <2>1, AsyncSizes DEF OhciAsync
<1>2. OhciTypeOK /\ OhciControl /\ OhciAsync /\ [OhciNext]_ovars => OhciAsync'
  <2> SUFFICES ASSUME OhciTypeOK, OhciControl, OhciAsync, [OhciNext]_ovars PROVE OhciAsync'
    BY Zenon
  <2> USE Names
  <2>a. /\ ed[Async].tds \in AsyncList /\ hcDone[Async] \in AsyncList
        /\ hccaDone[Async] \in AsyncList
    BY Zenon DEF OhciAsync
  <2>b. /\ Size(ed[Async].tds) \in Nat /\ Size(hcDone[Async]) \in Nat
        /\ Size(hccaDone[Async]) \in Nat
    BY <2>a, AsyncSizes, Zenon
  <2>c. Len(Done(Async)) = Size(hccaDone[Async])
    <3>1. ~wdh => hccaDone[Async] = <<>>
      BY Zenon DEF OhciControl, NoneDone
    <3> QED BY <2>a, <3>1, InOrderType, Zenon DEF Done, Size, AsyncList
  <2>d. CASE UNCHANGED <<asyncUsed, hcDone, hccaDone>> /\ ed'[Async] = ed[Async] /\ Transfer' = Transfer
    BY <2>d, Zenon DEF OhciAsync
  <2>e. CASE /\ asyncUsed' = asyncUsed - Len(Done(Async)) /\ hcDone' = hcDone /\ acknowledge
             /\ ed'[Async] = ed[Async] /\ Transfer' = Transfer
    <3>1. hccaDone'[Async] = <<>>
      BY <2>e, Zenon DEF acknowledge, NoneDone
    <3>2. asyncUsed' = Size(ed[Async].tds) + Size(hcDone[Async]) + 0 + (IF Transfer THEN 1 ELSE 0)
      BY <2>b, <2>c, <2>e DEF OhciAsync
    <3> QED BY <2>a, <2>e, <3>1, <3>2, AsyncSizes DEF OhciAsync
  <2>1. ASSUME NEW q \in Queues, NEW timing \in Timings, ohci_create_intr_queue(q, timing)
        PROVE  OhciAsync'
    <3>1. ed'[Async] = ed[Async] /\ pc = "idle" /\ pc' \in {"idle", "unhooked"}
      BY <2>1, Zenon DEF ohci_create_intr_queue, OhciTypeOK
    <3>2. UNCHANGED <<asyncUsed, hcDone, hccaDone>>
      BY <2>1, Zenon DEF ohci_create_intr_queue
    <3> QED BY <2>d, <3>1, <3>2 DEF Transfer
  <2>2. ASSUME NEW q \in Queues, unhook_intr_queue(q) PROVE OhciAsync'
    BY <2>2, <2>d DEF unhook_intr_queue, Transfer
  <2>3. ASSUME NEW q \in Queues, ohci_poll_intr_queue(q) PROVE OhciAsync'
    <3>1. ed'[Async] = ed[Async]
      BY <2>3, Zenon DEF ohci_poll_intr_queue, OhciTypeOK
    <3> QED BY <2>3, <2>e, <3>1, Zenon DEF ohci_poll_intr_queue, Transfer
  <2>4. ASSUME NEW n \in Nat, activate(n), ~Transfer PROVE OhciAsync'
    <3>1. /\ ed'[Async].tds = [i \in 1 .. n |-> AsyncTd] /\ UNCHANGED <<hcDone, hccaDone>>
          /\ asyncUsed' = asyncUsed + n + 1 /\ Transfer'
      BY <2>4, ZenonT(60) DEF activate, OhciTypeOK, Transfer
    <3>2. ed[Async].tds = <<>>
      BY <2>4 DEF OhciControl, NoEd
    <3>3. asyncUsed = 0 + Size(hcDone[Async]) + Size(hccaDone[Async]) + 0
      BY <2>4, <3>2, AsyncSizes, ZenonT(60) DEF OhciAsync
    <3>4. asyncUsed' = n + Size(hcDone[Async]) + Size(hccaDone[Async]) + 1
      BY <2>b, <3>1, <3>3
    <3>5. ed'[Async].tds \in AsyncList /\ Size(ed'[Async].tds) = n
      BY <3>1, AsyncSizes, Zenon
    <3> QED BY <2>a, <3>1, <3>4, <3>5, Zenon DEF OhciAsync
  <2>5. ASSUME NEW n \in Lengths, ohci_control(n) \/ ohci_bulk(n) PROVE OhciAsync'
    BY <2>4, <2>5, OhciAssumption, Zenon DEF ohci_control, ohci_bulk, Transfer
  <2>6. CASE clear_stall
    BY <2>4, <2>6, Zenon DEF clear_stall, Transfer
  <2>7. ASSUME NEW timeout \in BOOLEAN, wait_for_ed(timeout) PROVE OhciAsync'
    BY <2>7, <2>e DEF wait_for_ed, Transfer
  <2>8. CASE disable_list \/ HcFrame \/ UNCHANGED ovars
    BY <2>8, <2>d DEF disable_list, HcFrame, ovars, Transfer
  <2>9. CASE finish_transfer
    <3>1. /\ ed'[Async] = NoEd /\ UNCHANGED <<hcDone, hccaDone>> /\ Transfer /\ ~Transfer'
          /\ asyncUsed' = asyncUsed - Size(ed[Async].tds) - 1
      BY <2>9, Zenon DEF finish_transfer, OhciTypeOK, Transfer, Size
    <3>2. asyncUsed = Size(ed[Async].tds) + Size(hcDone[Async]) + Size(hccaDone[Async]) + 1
      BY <3>1, ZenonT(60) DEF OhciAsync
    <3>3. asyncUsed' = 0 + Size(hcDone[Async]) + Size(hccaDone[Async]) + 0
      BY <2>b, <3>1, <3>2
    <3>4. ed'[Async].tds = <<>>
      BY <3>1 DEF NoEd
    <3> QED BY <2>a, <3>1, <3>3, <3>4, AsyncSizes, Zenon DEF OhciAsync
  <2>10. ASSUME NEW q \in Queues, ohci_destroy_intr_queue(q) PROVE OhciAsync'
    <3>1. ed'[Async] = ed[Async]
      BY <2>10, Zenon DEF ohci_destroy_intr_queue, OhciTypeOK
    <3> QED BY <2>10, <2>e, <3>1 DEF ohci_destroy_intr_queue, Transfer
  <2>11. ASSUME NEW e \in Eds, NEW o \in Outcomes, HcRetire(e, o) PROVE OhciAsync'
    <3>0. UNCHANGED <<asyncUsed, hccaDone, pc>>
      BY <2>11, Zenon DEF HcRetire
    <3>1. CASE e # Async
      <4>1. ed'[Async] = ed[Async] /\ hcDone'[Async] = hcDone[Async]
        BY <2>11, <3>1, ZenonT(60) DEF HcRetire, OhciTypeOK
      <4> QED BY <3>0, <4>1, Zenon DEF OhciAsync, Transfer
    <3>2. CASE e = Async
      <4>1. /\ ed[Async].tds # <<>> /\ ed'[Async].tds = Tail(ed[Async].tds)
            /\ hcDone'[Async] = <<Head(ed[Async].tds)>> \o hcDone[Async]
        BY <2>11, <3>2, ZenonT(60) DEF HcRetire, OhciTypeOK, EdType
      <4>2. /\ ed'[Async].tds \in AsyncList /\ Size(ed'[Async].tds) = Size(ed[Async].tds) - 1
            /\ Head(ed[Async].tds) = AsyncTd
        BY <2>a, <4>1, AsyncSizes, Zenon
      <4>3. hcDone'[Async] \in AsyncList /\ Size(hcDone'[Async]) = Size(hcDone[Async]) + 1
        BY <2>a, <4>1, <4>2, AsyncSizes, Zenon
      <4>4. Size(ed'[Async].tds) + Size(hcDone'[Async]) = Size(ed[Async].tds) + Size(hcDone[Async])
        BY <2>b, <4>2, <4>3
      <4> QED BY <2>a, <3>0, <4>2, <4>3, <4>4 DEF OhciAsync, Transfer
    <3> QED BY <3>1, <3>2, Zenon
  <2>12. CASE HcWriteback
    <3>1. /\ UNCHANGED <<asyncUsed, ed, pc>> /\ hccaDone'[Async] = hcDone[Async]
          /\ hcDone'[Async] = <<>> /\ hccaDone[Async] = <<>>
      BY <2>12, Zenon DEF HcWriteback, NoneDone, OhciControl
    <3>2. asyncUsed = Size(ed[Async].tds) + 0 + Size(hcDone[Async]) + (IF Transfer THEN 1 ELSE 0)
      BY <2>b, <3>1, AsyncSizes DEF OhciAsync
    <3> QED BY <2>a, <3>1, <3>2, AsyncSizes, Zenon DEF OhciAsync, Transfer
  <2> QED BY <2>1, <2>2, <2>3, <2>5, <2>6, <2>7, <2>8, <2>9, <2>10, <2>11, <2>12, Zenon
         DEF OhciNext, Client, OhciDriver, Controller
<1> QED BY <1>1, <1>2, OhciTypeInvariant, OhciControlInvariant, PTL DEF OhciSpec
=============================================================================
