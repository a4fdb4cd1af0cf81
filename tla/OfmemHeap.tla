------------------------------ MODULE OfmemHeap ------------------------------
(***************************************************************************)
(* The private heap of OpenBIOS: ofmem_posix_memalign, ofmem_malloc,       *)
(* ofmem_free and ofmem_realloc of libopenbios/ofmem_common.c, on which    *)
(* malloc, free and realloc of the Wii port are built.                     *)
(*                                                                         *)
(* Addresses and sizes are counted in machine words.  A block is an        *)
(* alloc_desc_t of Hdr words followed by the words handed to the client.   *)
(* The free list is kept sorted by address, so it is represented by the    *)
(* set of the addresses of its descriptors; hdr gives the size field of    *)
(* the descriptor stored at an address, 0 where no descriptor is stored    *)
(* (never written, or overwritten by the data of a client).                *)
(***************************************************************************)
EXTENDS Integers

CONSTANTS
  Hdr,          \* sizeof(alloc_desc_t)
  Base,         \* ofmem_arch_get_malloc_base()
  Top,          \* ofmem_arch_get_heap_top()
  Slack,        \* the 0x1000 of ofmem_posix_memalign
  MallocAlign,  \* CONFIG_OFMEM_MALLOC_ALIGN
  MallocSizes,  \* sizes passed to malloc and realloc
  Requests      \* <<alignment, size>> pairs passed to ofmem_posix_memalign

VARIABLES
  next_malloc,  \* ofmem->next_malloc, 0 for NULL
  mfree,        \* ofmem->mfree
  hdr,          \* the size field of the descriptor at each address
  live          \* the blocks clients hold, with the size they asked for

mallocVars == <<next_malloc, mfree, hdr, live>>

ASSUME HeapAssumption ==
  /\ Hdr \in Nat \ {0}
  /\ Base \in Nat \ {0}
  /\ Top \in Nat /\ Base <= Top
  /\ Slack \in Nat
  /\ MallocAlign \in Nat \ {0}
  /\ MallocSizes \subseteq Nat
  /\ Requests \subseteq (Nat \ {0}) \X Nat

Addr == 0 .. Top
Block == [ptr : Addr, size : Nat]

-----------------------------------------------------------------------------
\* align_size and align_ptr: round x up to a multiple of a.
AlignUp(x, a) == ((x + a - 1) \div a) * a

TotalSize(a, s) == AlignUp(s + Hdr, a)

\* The first entry of the free list that is large enough.
FirstFit(n) ==
  {d \in mfree : hdr[d] >= n /\ \A e \in mfree : hdr[e] >= n => d <= e}

\* The two ways the free list serves a request for n words.
ExactFit(a, n) == {d \in FirstFit(n) : hdr[d] = n /\ AlignUp(d + Hdr, a) = d + Hdr}
LargeFit(n) == {d \in FirstFit(n) : hdr[d] > n + Slack}

\* next_malloc once the first allocation has initialised it.
Bump == IF next_malloc = 0 THEN Base ELSE next_malloc

\* The client data [ptr, ptr + s) overwrites every descriptor it overlaps.
Clobber(h, ptr, s) ==
  [x \in Addr |-> IF x + Hdr > ptr /\ x < ptr + s THEN 0 ELSE h[x]]

Refused == [ret |-> {}, free |-> mfree, next |-> Bump, hdr |-> hdr]

\* A block taken off the free list keeps its descriptor where it was.
TakeFree(d, ret, s) ==
  [ret |-> {[ptr |-> ret, size |-> s]}, free |-> mfree \ {d}, next |-> Bump,
   hdr |-> Clobber(hdr, ret, s)]

\* Mutant: next_malloc moves by the client's words only.
CutNew_ShortBump(d, n, s) ==
  [ret |-> {[ptr |-> d + Hdr, size |-> s]}, free |-> mfree, next |-> Bump + s,
   hdr |-> Clobber([hdr EXCEPT ![d] = n], d + Hdr, s)]

\* A block of n words in all is cut from the unused end of the heap, with
\* its descriptor at d; the alignment gap below the descriptor is not added to next_malloc.
CutNew(d, n, s) ==
  [ret |-> {[ptr |-> d + Hdr, size |-> s]}, free |-> mfree, next |-> Bump + n,
   hdr |-> Clobber([hdr EXCEPT ![d] = n], d + Hdr, s)]

TakeNew(a, s) ==
  LET ret == AlignUp(Bump + Hdr, a)
      n   == TotalSize(a, s)
  IN IF ret + n > Top THEN Refused ELSE CutNew(ret - Hdr, n, s)

\* ofmem_posix_memalign for a request of s > 0 words.
Grant(a, s) ==
  LET n     == TotalSize(a, s)
      exact == ExactFit(a, n)
      large == LargeFit(n)
  IN IF exact # {} THEN LET d == CHOOSE x \in exact : TRUE IN TakeFree(d, d + Hdr, s)
     ELSE IF large # {} THEN LET d == CHOOSE x \in large : TRUE
                             IN TakeFree(d, AlignUp(d + Hdr, a), s)
     ELSE TakeNew(a, s)

\* The sizes a descriptor may be found to hold: the one written there, or,
\* where client data has been, whatever that data is.
SizeRead(h, d) == IF h[d] = 0 THEN 1 .. Top ELSE {h[d]}

-----------------------------------------------------------------------------
MallocInit ==
  /\ next_malloc = 0
  /\ mfree = {}
  /\ hdr = [x \in Addr |-> 0]
  /\ live = {}

ofmem_posix_memalign(a, s) ==
  LET g == Grant(a, s)
  IN /\ s > 0
     /\ next_malloc' = g.next
     /\ mfree' = g.free
     /\ hdr' = g.hdr
     /\ live' = live \cup g.ret

ofmem_malloc(s) == ofmem_posix_memalign(MallocAlign, s)

ofmem_free(b) ==
  LET d == b.ptr - Hdr
  IN /\ mfree' = mfree \cup {d}
     /\ \E n \in SizeRead(hdr, d) : hdr' = [hdr EXCEPT ![d] = n]
     /\ live' = live \ {b}
     /\ UNCHANGED next_malloc

\* Allocate, copy, free: the old block is freed even when the allocation has
\* failed.  The copy stays inside the new block.
ofmem_realloc(b, s) ==
  LET g == Grant(MallocAlign, s)
      d == b.ptr - Hdr
  IN \/ s = 0 /\ ofmem_free(b)
     \/ /\ s > 0
        /\ next_malloc' = g.next
        /\ mfree' = g.free \cup {d}
        /\ \E n \in SizeRead(g.hdr, d) : hdr' = [g.hdr EXCEPT ![d] = n]
        /\ live' = (live \ {b}) \cup g.ret

MallocNext ==
  \/ \E r \in Requests : ofmem_posix_memalign(r[1], r[2])
  \/ \E s \in MallocSizes : ofmem_malloc(s)
  \/ \E b \in live : ofmem_free(b)
  \/ \E b \in live, s \in MallocSizes : ofmem_realloc(b, s)

MallocSpec == MallocInit /\ [][MallocNext]_mallocVars

-----------------------------------------------------------------------------
\* Every descriptor the heap has given out or keeps on its free list.
Descriptors == mfree \cup {b.ptr - Hdr : b \in live}

\* The heap variables keep their types: descriptors and client pointers stay
\* inside [0, heap top] whatever the sequence of calls.
HeapTypeOK ==
  /\ next_malloc \in Addr
  /\ mfree \subseteq Addr
  /\ hdr \in [Addr -> 0 .. Top]
  /\ live \subseteq Block

\* No two blocks that clients hold overlap, descriptors included, after any
\* sequence of ofmem_posix_memalign, ofmem_free and ofmem_realloc.
BlocksDisjoint ==
  \A b, c \in live :
    b # c => \/ b.ptr + b.size <= c.ptr - Hdr
            \/ c.ptr + c.size <= b.ptr - Hdr

\* The words a free descriptor says it owns (its size field "including this
\* struct") hold nothing that a client still uses: ofmem_posix_memalign may
\* hand them out again.
FreeWordsUnused ==
  \A d \in mfree, b \in live :
    d + hdr[d] <= b.ptr - Hdr \/ b.ptr + b.size <= d

\* The layout that makes the heap safe when every request is aligned to a
\* word: descriptors lie between Base and next_malloc with pairwise disjoint
\* extents that cover everything in between, no block is both free and held,
\* and a held block fits its extent.  nx, fr, h and lv stand for next_malloc,
\* mfree, hdr and live.
Layout(nx, fr, h, lv) ==
  LET ds == fr \cup {b.ptr - Hdr : b \in lv}
  IN /\ nx \in Addr /\ (nx = 0 \/ Base <= nx)
     /\ fr \subseteq Addr
     /\ h \in [Addr -> 0 .. Top]
     /\ lv \subseteq Block
     /\ \A d \in ds : Base <= d /\ h[d] > Hdr /\ d + h[d] <= nx
     /\ \A d, e \in ds : d < e => d + h[d] <= e
     /\ \A b \in lv : b.ptr - Hdr \notin fr /\ b.size + Hdr <= h[b.ptr - Hdr]
     /\ \A b, c \in lv : b.ptr = c.ptr => b = c
     /\ nx # 0 => \A x \in Base .. nx - 1 : \E d \in ds : d <= x /\ x < d + h[d]

\* Every sequence of word-aligned calls leaves the heap in that layout.
HeapLayout == Layout(next_malloc, mfree, hdr, live)

\* ofmem_common.c, on the second free-list path of ofmem_posix_memalign:
\* "waste at most 4K by taking an entry from the freelist".  A block that is
\* taken off the list exceeds what its request needs by at most Slack.
WasteBounded ==
  [][\A b \in live' \ live :
       (b.ptr - Hdr) \in mfree => hdr[b.ptr - Hdr] <= b.size + Hdr + Slack]_mallocVars

=============================================================================
