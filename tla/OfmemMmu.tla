------------------------------ MODULE OfmemMmu -------------------------------
(***************************************************************************)
(* The page fault handler of arch/ppc/wii/ofmem.c (ea_to_phys, hash_page,  *)
(* dsi_exception, isi_exception) and the hardware page table it fills.     *)
(*                                                                         *)
(* A page is a pair <<g, t>>: g is the entry group its hash selects and t  *)
(* the tag stored in the entry, so a group and a tag determine the page.   *)
(* The processor executes instructions that touch one or more pages; a     *)
(* page without an entry in its group raises an exception, and a guarded   *)
(* page may raise one although it has an entry (instruction fetch, or a    *)
(* reservation on write-through memory).                                   *)
(*                                                                         *)
(* What ofmem_translate answers is the variable table: a page table, which *)
(* OfmemTrans is shown to implement.                                       *)
(***************************************************************************)
EXTENDS Integers, TLAPS

CONSTANTS
  NGroups,      \* groups of the hash table
  Tag,          \* tags
  Slots,        \* entries of a group: 8 in the code
  MmuFrame,        \* page frames
  Firmware,     \* pages of the firmware, which ea_to_phys hardcodes
  Guarded,      \* pages with mode 0x6a
  Home,         \* frame that each page has when it is mapped to its own address
  Needs,        \* the sets of pages that instructions touch
  Remaps,       \* frames clients map pages to with ofmem_map
  Refaults,     \* whether guarded pages fault again
  None          \* no frame, or the tag of an invalid entry

VARIABLES
  table,        \* ofmem->trans: the frame of each page, or None
  pte,          \* the hash table: pte[g][i] is Empty or [tag, frame]
  next_grab_slot,
  stray,        \* hash_page has written below the hash table
  instr         \* pages touched by the instruction being executed, {} if none

mvars == <<table, pte, next_grab_slot, stray, instr>>

Group == 0 .. NGroups - 1
Slot == 0 .. Slots - 1
MmuPage == Group \X Tag
Empty == [tag |-> None, frame |-> None]
Pte == [tag : Tag, frame : MmuFrame] \cup {Empty}

ASSUME MmuAssumption ==
  /\ NGroups \in Nat \ {0} /\ Slots \in Nat \ {0}
  /\ None \notin MmuFrame /\ None \notin Tag
  /\ Firmware \subseteq MmuPage /\ Guarded \subseteq MmuPage
  /\ Home \in [MmuPage -> MmuFrame]
  /\ Needs \subseteq SUBSET MmuPage
  /\ Remaps \subseteq MmuFrame
  /\ Refaults \in BOOLEAN

ea_to_phys(x) ==
  IF x \in Firmware \/ table[x] = None THEN Home[x] ELSE table[x]

\* The entry that the processor finds for a page.
Hits(x) == {i \in Slot : pte[x[1]][i].tag = x[2]}

-----------------------------------------------------------------------------
MmuInit ==
  /\ table = [x \in MmuPage |-> None]
  /\ pte = [g \in Group |-> [i \in Slot |-> Empty]]
  /\ next_grab_slot = 0
  /\ stray = FALSE
  /\ instr = {}

\* The slot that hash_page writes.  The second loop starts i again from 0, so
\* after the first loop has found the old entry the slot is number -1.
FreeSlots(g) == {i \in Slot : pte[g][i].tag = None}
FirstFree(g) == {i \in FreeSlots(g) : \A j \in FreeSlots(g) : i <= j}
GrabSlot(x) ==
  IF Hits(x) # {} THEN -1
  ELSE IF FirstFree(x[1]) # {} THEN CHOOSE i \in FirstFree(x[1]) : TRUE
  ELSE next_grab_slot

Evicts(x) == Hits(x) = {} /\ FreeSlots(x[1]) = {}

\* Slot -1 of a group is the last slot of the group before it, and lies below
\* the table for the first group.
hash_page_AllFree(x, phys) ==
  /\ pte' = [pte EXCEPT ![x[1]] = [i \in Slot |->
                IF i = GrabSlot(x) \/ i \in FreeSlots(x[1])
                THEN [tag |-> x[2], frame |-> phys] ELSE @[i]]]
  /\ UNCHANGED <<stray, next_grab_slot>>
hash_page_NextGroup(x, phys) ==
  /\ pte' = [pte EXCEPT ![(x[1] + 1) % NGroups][GrabSlot(x)] = [tag |-> x[2], frame |-> phys]]
  /\ UNCHANGED <<stray, next_grab_slot>>
hash_page_SameVictim(x, phys) ==
  /\ pte' = [pte EXCEPT ![x[1]][GrabSlot(x)] = [tag |-> x[2], frame |-> phys]]
  /\ UNCHANGED <<stray, next_grab_slot>>
hash_page(x, phys) ==
  LET i   == GrabSlot(x)
      new == [tag |-> x[2], frame |-> phys]
  IN /\ \/ i >= 0 /\ pte' = [pte EXCEPT ![x[1]][i] = new] /\ UNCHANGED stray
        \/ i < 0 /\ x[1] > 0 /\ pte' = [pte EXCEPT ![x[1] - 1][Slots - 1] = new]
           /\ UNCHANGED stray
        \/ i < 0 /\ x[1] = 0 /\ stray' = TRUE /\ UNCHANGED pte
     /\ next_grab_slot' = IF Evicts(x) THEN (next_grab_slot + 1) % Slots
                          ELSE next_grab_slot

\* dsi_exception and isi_exception.
exception(x) == hash_page(x, ea_to_phys(x)) /\ UNCHANGED <<table, instr>>

\* The processor.
Issue(need) == instr = {} /\ instr' = need /\ UNCHANGED <<table, pte, next_grab_slot, stray>>

Fault(x) == Hits(x) = {} /\ exception(x)

Refault(x) == Refaults /\ x \in Guarded /\ Hits(x) # {} /\ exception(x)

Complete ==
  /\ instr # {} /\ \A x \in instr : Hits(x) # {}
  /\ instr' = {}
  /\ UNCHANGED <<table, pte, next_grab_slot, stray>>

\* ofmem_map and ofmem_unmap change the translations; ofmem_arch_map_pages and
\* ofmem_arch_unmap_pages are empty, so the hash table stays as it is.
Remap(x, f) ==
  /\ instr = {}
  /\ table' = [table EXCEPT ![x] = f]
  /\ UNCHANGED <<pte, next_grab_slot, stray, instr>>

MmuNext ==
  \/ \E need \in Needs : Issue(need)
  \/ \E x \in instr : Fault(x)
  \/ \E x \in instr : Refault(x)
  \/ Complete
  \/ \E x \in MmuPage \ Firmware, f \in Remaps \cup {None} : Remaps # {} /\ Remap(x, f)

\* The processor goes on executing: a missing page faults, and an instruction
\* whose pages are all present completes.
Processor == Complete \/ \E x \in instr : Fault(x)

MmuSpec == MmuInit /\ [][MmuNext]_mvars /\ WF_mvars(Processor)

-----------------------------------------------------------------------------
\* Entries stay inside the table and hold whole translations (hash_page), and
\* next_grab_slot always names a slot.
MmuTypeOK ==
  /\ table \in [MmuPage -> MmuFrame \cup {None}]
  /\ pte \in [Group -> [Slot -> Pte]]
  /\ next_grab_slot \in Slot
  /\ stray \in BOOLEAN
  /\ instr \subseteq MmuPage

\* No page has two entries: which one the processor would use is undefined.
\* hash_page looks only at the first match, and relies on this.
EntryUnique == \A x \in MmuPage : \A i, j \in Hits(x) : i = j

\* The hash table translates every page the way ea_to_phys does.  hash_page
\* means to "replace old translation" of the page that faults and of no other,
\* and ofmem_arch_unmap_pages to "kill page mappings in provided range".
EntriesAgree == \A x \in MmuPage : \A i \in Hits(x) : pte[x[1]][i].frame = ea_to_phys(x)

\* An instruction that touches no more pages than a group has slots completes:
\* the faults on its pages do not keep evicting one another, although one
\* next_grab_slot serves all groups.
InstructionCompletes == \A need \in Needs : instr = need ~> instr = {}

-----------------------------------------------------------------------------
(* The proofs: the hash table never holds two entries for a page and, as     *)
(* long as translations do not change, translates as ea_to_phys does: for    *)
(* every number of groups, slots, tags and frames, provided that no page     *)
(* faults while it has an entry.                                             *)

\* EntryUnique is inductive with the type invariant: a page that faults has no
\* entry, so hash_page writes the only one.
UniqueInv == MmuTypeOK /\ EntryUnique

\* EntriesAgree needs that what ea_to_phys answers does not change.
AgreeInv == UniqueInv /\ EntriesAgree

\* Seconds that the SMT solver has for a leaf.
USE SMTT(60)

\* The answer of ea_to_phys is a frame.
LEMMA EaToPhys ==
  ASSUME MmuTypeOK, NEW x \in MmuPage
  PROVE  ea_to_phys(x) \in MmuFrame
BY MmuAssumption DEF MmuTypeOK, MmuAssumption, ea_to_phys

\* A page without an entry gets one in a slot of its own group.
LEMMA FaultWrites ==
  ASSUME MmuTypeOK, NEW x \in MmuPage, NEW phys, Hits(x) = {}, hash_page(x, phys)
  PROVE  /\ \E i \in Slot : pte' = [pte EXCEPT ![x[1]][i] = [tag |-> x[2], frame |-> phys]]
         /\ next_grab_slot' \in Slot
         /\ stray' = stray
<1>1. Slots \in Nat \ {0} /\ next_grab_slot \in Slot
  BY MmuAssumption DEF MmuAssumption, MmuTypeOK
<1>2. GrabSlot(x) \in Slot
  BY <1>1 DEF GrabSlot, FirstFree, FreeSlots
<1>3. GrabSlot(x) >= 0
  BY <1>2 DEF Slot
<1>4. (next_grab_slot + 1) % Slots \in Slot
  BY <1>1 DEF Slot
<1>5. next_grab_slot' \in Slot
  BY <1>1, <1>4 DEF hash_page
<1> DEFINE i == GrabSlot(x)
<1>6. \/ i >= 0 /\ pte' = [pte EXCEPT ![x[1]][i] = [tag |-> x[2], frame |-> phys]]
         /\ UNCHANGED stray
      \/ i < 0
  BY DEF hash_page
<1> HIDE DEF i
<1>7. ~(i < 0) /\ i \in Slot
  BY <1>2, <1>3 DEF i, Slot
<1> QED
  BY <1>5, <1>6, <1>7, Zenon

\* A fault keeps the entries unique, and in agreement with ea_to_phys.
LEMMA FaultKeeps ==
  ASSUME UniqueInv, NEW x \in MmuPage, Fault(x)
  PROVE  UniqueInv' /\ (EntriesAgree => EntriesAgree')
<1>0. MmuTypeOK /\ EntryUnique
  BY DEF UniqueInv
<1>1. PICK phys \in MmuFrame : phys = ea_to_phys(x)
  BY <1>0, EaToPhys
<1>2. Hits(x) = {} /\ hash_page(x, phys) /\ UNCHANGED <<table, instr>>
  BY <1>1 DEF Fault, exception
<1> DEFINE new == [tag |-> x[2], frame |-> phys]
<1>3. PICK i \in Slot : pte' = [pte EXCEPT ![x[1]][i] = new]
  BY <1>0, <1>2, FaultWrites, Zenon
<1>4. /\ pte' \in [Group -> [Slot -> Pte]]
      /\ pte'[x[1]][i] = new
      /\ \A g \in Group, j \in Slot : (g # x[1] \/ j # i) => pte'[g][j] = pte[g][j]
  <2>1. x[1] \in Group /\ x[2] \in Tag
    BY DEF MmuPage
  <2>2. new \in Pte
    BY <2>1 DEF Pte
  <2> HIDE DEF new
  <2> QED
    BY <1>0, <1>3, <2>1, <2>2 DEF MmuTypeOK
<1>5. MmuTypeOK'
  BY <1>0, <1>2, <1>4, FaultWrites DEF MmuTypeOK
<1>6. ASSUME NEW y \in MmuPage, NEW j \in Hits(y)'
      PROVE  \/ y = x /\ j = i
             \/ y # x /\ j \in Hits(y) /\ pte'[y[1]][j] = pte[y[1]][j]
  <2>1. j \in Slot /\ pte'[y[1]][j].tag = y[2] /\ y[1] \in Group
    BY <1>6 DEF Hits, MmuPage
  <2>2. y = x <=> y[1] = x[1] /\ y[2] = x[2]
    BY DEF MmuPage
  <2>3. CASE y[1] = x[1] /\ j = i
    BY <1>4, <2>1, <2>2, <2>3
  <2>4. CASE y[1] # x[1] \/ j # i
    <3>1. pte'[y[1]][j] = pte[y[1]][j]
      BY <1>4, <2>1, <2>4
    <3>2. j \in Hits(y)
      BY <2>1, <3>1 DEF Hits
    <3> QED
      BY <1>2, <3>1, <3>2
  <2> QED
    BY <2>3, <2>4
<1>7. EntryUnique'
  BY <1>0, <1>6 DEF EntryUnique
<1>8. ASSUME EntriesAgree
      PROVE  EntriesAgree'
  <2> SUFFICES ASSUME NEW y \in MmuPage, NEW j \in Hits(y)'
               PROVE  pte'[y[1]][j].frame = ea_to_phys(y)'
    BY DEF EntriesAgree
  <2>1. ea_to_phys(y)' = ea_to_phys(y)
    BY <1>2 DEF ea_to_phys
  <2>2. CASE y = x /\ j = i
    BY <1>1, <1>4, <2>1, <2>2
  <2>3. CASE y # x /\ j \in Hits(y) /\ pte'[y[1]][j] = pte[y[1]][j]
    BY <1>8, <2>1, <2>3 DEF EntriesAgree
  <2> QED
    BY <1>6, <2>2, <2>3
<1> QED
  BY <1>5, <1>7, <1>8 DEF UniqueInv

\* Every step keeps the entries unique, and in agreement unless it changes a
\* translation.
LEMMA StepKeeps ==
  ASSUME ~Refaults, UniqueInv, [MmuNext]_mvars
  PROVE  UniqueInv' /\ (EntriesAgree /\ Remaps = {} => EntriesAgree')
<1> USE DEF UniqueInv
<1>1. ASSUME NEW need \in Needs, Issue(need)
      PROVE  UniqueInv' /\ (EntriesAgree => EntriesAgree')
  BY <1>1, MmuAssumption
     DEF Issue, MmuAssumption, MmuTypeOK, EntryUnique, EntriesAgree, Hits, ea_to_phys
<1>2. ASSUME NEW x \in instr, Fault(x)
      PROVE  UniqueInv' /\ (EntriesAgree => EntriesAgree')
  BY <1>2, FaultKeeps DEF MmuTypeOK
<1>3. ASSUME NEW x \in instr, Refault(x)
      PROVE  FALSE
  BY <1>3 DEF Refault
<1>4. CASE Complete
  BY <1>4 DEF Complete, MmuTypeOK, EntryUnique, EntriesAgree, Hits, ea_to_phys
<1>5. ASSUME NEW x \in MmuPage \ Firmware, NEW f \in Remaps \cup {None}, Remaps # {}, Remap(x, f)
      PROVE  UniqueInv'
  BY <1>5, MmuAssumption DEF Remap, MmuAssumption, MmuTypeOK, EntryUnique, Hits
<1>6. CASE UNCHANGED mvars
  BY <1>6 DEF mvars, MmuTypeOK, EntryUnique, EntriesAgree, Hits, ea_to_phys
<1> QED
  BY <1>1, <1>2, <1>3, <1>4, <1>5, <1>6 DEF MmuNext

\* The table starts empty.
LEMMA InitAgrees == MmuInit => AgreeInv
<1> SUFFICES ASSUME MmuInit PROVE AgreeInv
  OBVIOUS
<1>1. \A g \in Group, i \in Slot : pte[g][i].tag = None
  BY DEF MmuInit, Empty
<1>2. \A x \in MmuPage : Hits(x) = {}
  BY <1>1, MmuAssumption DEF Hits, MmuPage, MmuAssumption
<1>3. 0 \in Slot
  BY MmuAssumption DEF MmuAssumption, Slot
<1>4. MmuTypeOK
  BY <1>3, Zenon DEF MmuInit, MmuTypeOK, Pte
<1> QED
  BY <1>2, <1>4 DEF AgreeInv, UniqueInv, EntryUnique, EntriesAgree

\* Without repeated faults on guarded pages, no page ever has two entries, even
\* though ofmem_map and ofmem_unmap leave old entries behind.
THEOREM HashEntriesUnique ==
  ASSUME ~Refaults
  PROVE  MmuSpec => []EntryUnique
<1>1. MmuInit => UniqueInv
  BY InitAgrees DEF AgreeInv
<1>2. UniqueInv /\ [MmuNext]_mvars => UniqueInv'
  BY StepKeeps
<1>3. UniqueInv => EntryUnique
  BY DEF UniqueInv
<1> QED
  BY <1>1, <1>2, <1>3, PTL DEF MmuSpec

\* While no translation changes, the hardware translates every page as
\* ea_to_phys does, whatever is evicted and faulted in again.
THEOREM HashEntriesAgree ==
  ASSUME ~Refaults, Remaps = {}
  PROVE  MmuSpec => []EntriesAgree
<1>1. MmuInit => AgreeInv
  BY InitAgrees
<1>2. AgreeInv /\ [MmuNext]_mvars => AgreeInv'
  BY StepKeeps DEF AgreeInv
<1>3. AgreeInv => EntriesAgree
  BY DEF AgreeInv
<1> QED
  BY <1>1, <1>2, <1>3, PTL DEF MmuSpec
=============================================================================
