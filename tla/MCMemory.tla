------------------------------ MODULE MCMemory -------------------------------
(***************************************************************************)
(* The heap, the claimed ranges, the translations and the page fault       *)
(* handler, for TLC.  A behaviour is one of one part, with the others at   *)
(* rest.                                                                   *)
(***************************************************************************)
EXTENDS OfmemHeap, OfmemRange, OfmemTrans, OfmemMmu

CONSTANT Parts   \* of "heap", "range", "trans" and "mmu"
VARIABLE part

\* Word-aligned requests only, as malloc makes them; and the aligned requests
\* of the OHCI driver, scaled from 32 bytes to 4 words, beside plain malloc.
WordRequests == {<<1, 4>>}
AlignedRequests == {<<4, 4>>}

\* Fixed claims that touch, overlap and cut across pages; and one that ends at
\* the top of the address space.
SomeFixed == {<<0, 4>>, <<2, 4>>, <<5, 3>>, <<8, 1>>, <<10, 2>>}
TopFixed == {<<0, 4>>, <<12, 4>>}

\* Frames from 4 up are I/O.
IoAbove4(phys) == IF phys >= 4 THEN "io" ELSE "ram"

\* Every area, and every area that stays clear of the last page.
AllAreas == {a \in Page \X (1 .. NPages - 1) : a[1] + a[2] <= NPages}
LowAreas == {a \in AllAreas : a[1] + a[2] < NPages}

\* A frame of its own for every page; translations that do not change, or one
\* that does; instructions that touch one or two pages.
OwnFrame == [x \in MmuPage |-> x]
AllFrames == MmuPage
NoFrames == {}
OneFrame == {<<1, "a">>}
OneFirmware == {<<0, "a">>}
SomeGuarded == {<<0, "b">>, <<1, "b">>}
TwoPages == {{x, y} : x, y \in MmuPage}

MemoryInit ==
  /\ part \in Parts
  /\ MallocInit /\ RangeInit /\ TransInit /\ MmuInit

MemoryNext ==
  /\ UNCHANGED part
  /\ \/ part = "heap" /\ MallocNext /\ UNCHANGED <<rvars, tvars, mvars>>
     \/ part = "range" /\ RangeNext /\ UNCHANGED <<mallocVars, tvars, mvars>>
     \/ part = "trans" /\ TransNext /\ UNCHANGED <<mallocVars, rvars, mvars>>
     \/ part = "mmu" /\ MmuNext /\ UNCHANGED <<mallocVars, rvars, tvars>>

MemorySpec ==
  /\ MemoryInit /\ [][MemoryNext]_<<part, mallocVars, rvars, tvars, mvars>>
  /\ WF_mvars(part = "mmu" /\ Processor)
=============================================================================
