----------------------------- MODULE ForthHeap -----------------------------
(***************************************************************************)
(* alloc-mem and free-mem, the memory allocation of the Forth system       *)
(* (forth/bootstrap/memory.fs).  A free block holds its length in its      *)
(* first cell and the address of the next free block in its second; the    *)
(* second and all others belong to the client while the block is held.     *)
(* Addresses count cells, so that "aligned" has nothing to do, and are     *)
(* small enough for the signed comparisons of the code.                    *)
(***************************************************************************)
EXTENDS Integers, FiniteSets, FiniteSetsExt

CONSTANTS
  HeapStart,  \* start-mem
  HeapCells,  \* size given to init-mem
  HeapSizes   \* sizes that clients ask for

VARIABLES
  heapMem,    \* contents of the memory
  freeList,   \* free-list: address of the first free block, or 0
  blocks      \* held by clients: set of [at, len]

heapVars == <<heapMem, freeList, blocks>>

heapEnd == HeapStart + HeapCells

Length(b) == heapMem[b]
NextFree(b) == heapMem[b + 1]

\* Cells 0 and 1 stand for "no block"; no block begins there.
Addresses == 0 .. heapEnd + 1

\* What clients write over their memory.
Junk == 1

HeapInit ==
  /\ heapMem = [a \in Addresses |-> IF a = HeapStart THEN HeapCells - 1 ELSE 0]
  /\ freeList = HeapStart
  /\ blocks = {}
-----------------------------------------------------------------------------
\* The free list as the words walk it: block i, or 0 behind the end.
Walk[i \in 0 .. HeapCells] ==
  IF i = 0 THEN freeList ELSE IF Walk[i - 1] = 0 THEN 0 ELSE NextFree(Walk[i - 1])

OnList == {i \in 0 .. HeapCells : Walk[i] # 0}
PrevFree(i) == IF i = 0 THEN 0 ELSE Walk[i - 1]

\* Storing through "prev->next|free-list": the cell of the predecessor, or the
\* variable free-list when there is none.
LinkedMem(mem, prev, b) == IF prev = 0 THEN mem ELSE [mem EXCEPT ![prev + 1] = b]
LinkedHead(prev, b) == IF prev = 0 THEN b ELSE freeList

\* The first of the smallest blocks that are large enough.
Smallest_Any(nb) == {i \in OnList : Length(Walk[i]) >= nb}
Smallest(nb) ==
  {i \in OnList :
     /\ Length(Walk[i]) >= nb
     /\ \A j \in OnList :
          Length(Walk[j]) >= nb =>
            \/ Length(Walk[i]) < Length(Walk[j])
            \/ Length(Walk[i]) = Length(Walk[j]) /\ i <= j}

\* The block is handed out and the client writes on all of it.
Used(mem, b) == [a \in Addresses |-> IF a \in b + 1 .. b + mem[b] THEN Junk ELSE mem[a]]

Split(b, n) ==
  LET nd == b + n + 1 IN
  [heapMem EXCEPT ![nd] = Length(b) - (n + 1), ![nd + 1] = NextFree(b), ![b] = n]

alloc_mem(n) ==
  \E i \in Smallest(n) :
    LET b == Walk[i]
        splits == Length(b) > n + 2
        mem == IF splits THEN Split(b, n) ELSE heapMem
        nd == IF splits THEN b + n + 1 ELSE NextFree(b)
    IN  /\ heapMem' = Used(LinkedMem(mem, PrevFree(i), nd), b)
        /\ freeList' = LinkedHead(PrevFree(i), nd)
        /\ blocks' = blocks \cup {[at |-> b, len |-> mem[b]]}

\* "out of memory": the exception leaves everything as it is.
alloc_mem_throws(n) == Smallest(n) = {} /\ UNCHANGED heapVars

\* Where the scan of free-mem ends: at the first block that does not end before
\* the block to free begins, or behind the last one.
Stop(f) == Min({i \in 0 .. HeapCells : Walk[i] = 0 \/ Walk[i] + Length(Walk[i]) + 1 >= f})

\* The block f ends where the free block l begins: f takes l's place.
MergedRight(mem, prev, f, l) ==
  LinkedMem([mem EXCEPT ![f] = @ + mem[l] + 1, ![f + 1] = mem[l + 1]], prev, f)

\* f is put on the list between prev and l.
Hung(prev, f, l) == LinkedMem([heapMem EXCEPT ![f + 1] = l], prev, f)

free_mem(f) ==
  LET i == Stop(f)
      l == Walk[i]
      left == l # 0 /\ l + Length(l) + 1 = f
      mem == IF left THEN [heapMem EXCEPT ![l] = @ + Length(f) + 1] ELSE heapMem
      g == IF left THEN l ELSE f
      r == IF left THEN NextFree(l) ELSE l
      right == l # 0 /\ g + mem[g] + 1 = r
  IN  /\ heapMem' = IF right THEN MergedRight(mem, PrevFree(i), g, r)
                    ELSE IF left THEN mem ELSE Hung(PrevFree(i), f, l)
      /\ freeList' = IF left /\ ~right THEN freeList ELSE LinkedHead(PrevFree(i), g)

HeapNext ==
  \/ \E n \in HeapSizes : alloc_mem(n)
  \/ \E n \in HeapSizes : alloc_mem_throws(n)
  \/ \E b \in blocks : free_mem(b.at) /\ blocks' = blocks \ {b}

HeapSpec == HeapInit /\ [][HeapNext]_heapVars
-----------------------------------------------------------------------------
Abstract == INSTANCE Allocator WITH
  Start <- HeapStart, Cells <- HeapCells, Sizes <- HeapSizes,
  free <- {[at |-> Walk[i], len |-> Length(Walk[i])] : i \in OnList},
  held <- blocks

\* alloc-mem and free-mem on linked cells implement the best-fit allocator: the
\* block chosen is a smallest one, splitting and merging rewrite the lengths and
\* links so that the list holds exactly the free blocks.
ImplementsAllocator == Abstract!AInit /\ [][Abstract!ANext]_(Abstract!avars)

\* The list ends and is sorted by address, as free-mem's scan and its merging
\* with both neighbours presuppose; no two free blocks touch.
ListSortedAndMerged ==
  /\ \E i \in 0 .. HeapCells : Walk[i] = 0
  /\ \A i, j \in OnList : i < j => Walk[i] + Length(Walk[i]) + 1 < Walk[j]

\* The free list in memory is what the allocator promises: it implements the
\* best-fit allocator, ends, and stays sorted and merged after any order of
\* alloc-mem and free-mem.
HeapListRight == ImplementsAllocator /\ []ListSortedAndMerged
=============================================================================
