----------------------------- MODULE OfmemProofs ------------------------------
(***************************************************************************)
(* Three parts of the memory manager, for every value of their constants.  *)
(*                                                                         *)
(* The heap of OfmemHeap is safe for every base, top, slack and set of     *)
(* sizes as long as all requests are aligned to one word, which is what    *)
(* malloc, free and realloc ask for.                                       *)
(*                                                                         *)
(* The translation list never gives a page two translations, and it        *)
(* implements a page table, for every size of the address space and every  *)
(* set of areas that keep clear of its last page and are unmapped the way  *)
(* they were mapped ("exactly one matching translation entry").            *)
(*                                                                         *)
(* Claims never overlap, the list records exactly what clients hold and    *)
(* the searches find room if there is any, for every address width, page   *)
(* size, area and set of claims, as long as the clients stay clear of the  *)
(* cases in which the code is known to go wrong: empty claims, claims that *)
(* reach the end of the address space, searches for more than the whole    *)
(* area, and releases of a head or middle part of a claim.                 *)
(***************************************************************************)
EXTENDS OfmemHeap, OfmemTrans, OfmemRange, WellFoundedInduction, TLAPS

\* Seconds that the SMT solver has for a leaf.
USE SMTT(60)

\* malloc's alignment is the unit of the model and nobody asks for another.
WordAligned == MallocAlign = 1 /\ \A r \in Requests : r[1] = 1

\* Rounding up to one word changes nothing.
LEMMA AlignOne == \A x \in Nat : AlignUp(x, 1) = x
  BY DEF AlignUp

\* ofmem_posix_memalign refuses, takes a free block at its own address, or
\* cuts a new one at next_malloc.
LEMMA GrantCases ==
  ASSUME HeapLayout, NEW s \in Nat, s > 0
  PROVE  LET g == Grant(1, s)
         IN \/ g = Refused
            \/ \E d \in mfree : hdr[d] >= s + Hdr /\ g = TakeFree(d, d + Hdr, s)
            \/ Bump + Hdr + s + Hdr <= Top /\ g = CutNew(Bump, s + Hdr, s)
<1> DEFINE n == TotalSize(1, s)
           exact == ExactFit(1, n)
           large == LargeFit(n)
<1>1. n = s + Hdr /\ n \in Nat
  BY AlignOne, HeapAssumption DEF TotalSize
<1>2. /\ \A d \in exact : d \in mfree /\ hdr[d] >= s + Hdr
      /\ \A d \in large : d \in mfree /\ hdr[d] >= s + Hdr
  BY <1>1, Zenon DEF ExactFit, LargeFit, FirstFit
<1>3. \A d \in mfree : AlignUp(d + Hdr, 1) = d + Hdr
  BY AlignOne, HeapAssumption DEF HeapLayout, Layout, Addr
<1>4. Bump \in Nat /\ AlignUp(Bump + Hdr, 1) = Bump + Hdr
  <2>1. next_malloc \in Nat
    BY HeapAssumption DEF HeapLayout, Layout, Addr
  <2>2. Bump \in Nat
    BY <2>1, HeapAssumption, Zenon DEF Bump
  <2>3. Bump + Hdr \in Nat
    BY <2>2, HeapAssumption
  <2> HIDE DEF n, exact, large
  <2> QED BY <2>2, <2>3, AlignOne, Zenon
<1>5. CASE exact # {}
  <2>1. (CHOOSE x \in exact : TRUE) \in exact
    BY <1>5, Zenon
  <2>2. Grant(1, s) = TakeFree(CHOOSE x \in exact : TRUE,
                               (CHOOSE x \in exact : TRUE) + Hdr, s)
    BY <1>5, Zenon DEF Grant
  <2> QED BY <2>1, <2>2, <1>2, Zenon
<1>6. CASE exact = {} /\ large # {}
  <2> DEFINE c == CHOOSE x \in large : TRUE
  <2>1. c \in large
    BY <1>6, Zenon
  <2>2. Grant(1, s) = TakeFree(c, AlignUp(c + Hdr, 1), s)
    BY <1>6, Zenon DEF Grant
  <2> QED BY <2>1, <2>2, <1>2, <1>3, Zenon
<1>7. CASE exact = {} /\ large = {}
  <2>1. Grant(1, s) = TakeNew(1, s)
    BY <1>7, Zenon DEF Grant
  <2>3. CASE Bump + Hdr + n > Top
    BY <2>1, <2>3, <1>4, Zenon DEF TakeNew
  <2>4. CASE ~(Bump + Hdr + n > Top)
    <3>1. Bump + Hdr + s + Hdr <= Top /\ (Bump + Hdr) - Hdr = Bump
      BY <2>4, <1>1, <1>4, HeapAssumption
    <3>2. TakeNew(1, s) = CutNew(AlignUp(Bump + Hdr, 1) - Hdr, TotalSize(1, s), s)
      BY <2>4, <1>4, Zenon DEF TakeNew
    <3>3. TakeNew(1, s) = CutNew(Bump, s + Hdr, s)
      <4>1. AlignUp(Bump + Hdr, 1) - Hdr = Bump
        BY <3>1, <1>4, Zenon
      <4>2. TotalSize(1, s) = s + Hdr
        BY <1>1, Zenon
      <4> QED BY <3>2, <4>1, <4>2, Zenon
    <3> QED BY <2>1, <3>1, <3>3, Zenon
  <2> QED BY <2>3, <2>4, Zenon
<1> QED BY <1>5, <1>6, <1>7, Zenon

\* Every descriptor is an address of the heap.
LEMMA DescriptorsInHeap ==
  ASSUME HeapLayout
  PROVE  \A e \in Descriptors :
           e \in Addr /\ e \in Nat /\ Base <= e /\ hdr[e] \in Nat /\ hdr[e] > Hdr
           /\ e + hdr[e] <= next_malloc
<1> USE HeapAssumption
<1>1. \A e \in Descriptors : Base <= e /\ hdr[e] > Hdr /\ e + hdr[e] <= next_malloc
  BY Zenon DEF HeapLayout, Layout, Descriptors
<1>2. \A e \in Descriptors : e \in Addr
  <2> TAKE e \in Descriptors
  <2>1. CASE e \in mfree
    BY <2>1, Zenon DEF HeapLayout, Layout
  <2>2. CASE e \notin mfree
    <3>1. PICK b \in live : e = b.ptr - Hdr
      BY <2>2, Zenon DEF Descriptors
    <3>2. b.ptr \in 0 .. Top
      BY Zenon DEF HeapLayout, Layout, Block, Addr
    <3> QED BY <3>1, <3>2, <1>1 DEF Addr
  <2> QED BY <2>1, <2>2, Zenon
<1>3. hdr \in [Addr -> 0 .. Top]
  BY Zenon DEF HeapLayout, Layout
<1>4. \A e \in Descriptors : e \in Nat /\ hdr[e] \in Nat
  BY <1>2, <1>3 DEF Addr
<1> QED BY <1>1, <1>2, <1>4, Zenon

\* Taking a free block off the list keeps the layout: its extent, and so the
\* place of its descriptor, is what it was on the list.
LEMMA TakeFreeLayout ==
  ASSUME HeapLayout, NEW d \in mfree, NEW s \in Nat, s > 0, hdr[d] >= s + Hdr
  PROVE  LET b == [ptr |-> d + Hdr, size |-> s]
         IN /\ b \notin live
            /\ Layout(Bump, mfree \ {d}, Clobber(hdr, d + Hdr, s), live \cup {b})
<1> DEFINE b  == [ptr |-> d + Hdr, size |-> s]
           h  == Clobber(hdr, d + Hdr, s)
           lv == live \cup {b}
           ds == (mfree \ {d}) \cup {x.ptr - Hdr : x \in lv}
           old == Descriptors
<1> USE HeapAssumption
<1>0. /\ d \in Nat /\ d + Hdr \in Nat /\ (d + Hdr) - Hdr = d
      /\ Base <= d /\ d + hdr[d] <= next_malloc /\ hdr[d] \in Nat /\ next_malloc \in 0 .. Top
  BY DEF HeapLayout, Layout, Addr
<1>1. Bump = next_malloc
  BY <1>0 DEF Bump
<1>2. b \notin live
  BY <1>0, Zenon DEF HeapLayout, Layout
<1>3. ds = old
  <2>1. b.ptr - Hdr = d
    BY <1>0, Zenon
  <2>2. {x.ptr - Hdr : x \in lv} = {x.ptr - Hdr : x \in live} \cup {b.ptr - Hdr}
    BY Zenon
  <2> QED BY <2>1, <2>2, Zenon DEF Descriptors
<1>4. /\ \A e \in old : /\ e \in Addr /\ e \in Nat /\ Base <= e /\ hdr[e] \in Nat
                       /\ hdr[e] > Hdr /\ e + hdr[e] <= next_malloc
      /\ \A e, f \in old : e < f => e + hdr[e] <= f
  BY DescriptorsInHeap, Zenon DEF HeapLayout, Layout, Descriptors
<1>5. h \in [Addr -> 0 .. Top]
  BY DEF HeapLayout, Layout, Clobber
<1>6. \A e \in old : h[e] = hdr[e]
  <2> TAKE e \in old
  <2>1. e \in Nat /\ e \in Addr /\ hdr[e] \in Nat
    BY <1>4, Zenon DEF HeapLayout, Layout
  <2>0. d \in old
    BY Zenon DEF Descriptors
  <2>2. e = d \/ e + hdr[e] <= d \/ d + hdr[d] <= e
    BY <1>4, <1>0, <2>0, <2>1
  <2>3. ~(e + Hdr > d + Hdr /\ e < d + Hdr + s)
    BY <2>1, <2>2, <1>0, <1>4
  <2> QED BY <2>1, <2>3, Zenon DEF Clobber
<1>7. lv \subseteq Block
  <2>1. d + Hdr \in Addr
    BY <1>0 DEF Addr
  <2> QED BY <2>1 DEF HeapLayout, Layout, Block
<1>8. \A x \in lv : x.ptr - Hdr \notin mfree \ {d} /\ x.size + Hdr <= h[x.ptr - Hdr]
  <2> TAKE x \in lv
  <2>1. CASE x \in live
    <3>1. x.ptr - Hdr \in old
      BY <2>1, Zenon DEF Descriptors
    <3> QED BY <2>1, <3>1, <1>6, Zenon DEF HeapLayout, Layout
  <2>2. CASE x = b
    <3>1. d \in old /\ x.ptr - Hdr = d /\ x.size = s
      BY <2>2, <1>0, Zenon DEF Descriptors
    <3> QED BY <3>1, <1>6, <1>0, Zenon
  <2> QED BY <2>1, <2>2, Zenon
<1>9. \A x, y \in lv : x.ptr = y.ptr => x = y
  <2>1. \A x \in live : x.ptr # d + Hdr
    BY <1>0, ZenonT(60) DEF HeapLayout, Layout
  <2> QED BY <2>1 DEF HeapLayout, Layout
<1>10. \A x \in Base .. next_malloc - 1 : \E e \in old : e <= x /\ x < e + h[e]
  <2>1. next_malloc # 0
    BY <1>0
  <2>2. \A x \in Base .. next_malloc - 1 : \E e \in old : e <= x /\ x < e + hdr[e]
    BY <2>1, Zenon DEF HeapLayout, Layout, Descriptors
  <2> QED BY <2>2, <1>6, Zenon
<1>11. /\ next_malloc \in Addr /\ (next_malloc = 0 \/ Base <= next_malloc)
       /\ mfree \ {d} \subseteq Addr
  BY Zenon DEF HeapLayout, Layout
<1>12. Layout(next_malloc, mfree \ {d}, h, lv)
  <2>1. \A e \in ds : Base <= e /\ h[e] > Hdr /\ e + h[e] <= next_malloc
    BY <1>3, <1>4, <1>6, Zenon
  <2>2. \A e, f \in ds : e < f => e + h[e] <= f
    BY <1>3, <1>4, <1>6, Zenon
  <2> HIDE DEF h, lv
  <2> QED BY <2>1, <2>2, <1>3, <1>5, <1>7, <1>8, <1>9, <1>10, <1>11, Zenon DEF Layout
<1> QED BY <1>1, <1>2, <1>12, Zenon

\* Cutting a new block keeps the layout: it starts where the last one ends.
LEMMA CutNewLayout ==
  ASSUME HeapLayout, NEW s \in Nat, s > 0, Bump + Hdr + s + Hdr <= Top
  PROVE  LET b == [ptr |-> Bump + Hdr, size |-> s]
             h == Clobber([hdr EXCEPT ![Bump] = s + Hdr], Bump + Hdr, s)
         IN /\ b \notin live
            /\ Layout(Bump + (s + Hdr), mfree, h, live \cup {b})
<1> DEFINE n  == s + Hdr
           b  == [ptr |-> Bump + Hdr, size |-> s]
           h  == Clobber([hdr EXCEPT ![Bump] = n], Bump + Hdr, s)
           lv == live \cup {b}
           old == Descriptors
           ds == mfree \cup {x.ptr - Hdr : x \in lv}
<1> USE HeapAssumption
<1>0. /\ Bump \in Addr /\ Bump \in Nat /\ Base <= Bump /\ n \in Nat /\ n <= Top
      /\ (Bump + Hdr) - Hdr = Bump /\ Bump + Hdr \in Addr /\ Bump + n \in Addr
  BY DEF HeapLayout, Layout, Addr, Bump
<1>1. ds = old \cup {Bump}
  <2>1. b.ptr - Hdr = Bump
    BY <1>0, Zenon
  <2>2. {x.ptr - Hdr : x \in lv} = {x.ptr - Hdr : x \in live} \cup {b.ptr - Hdr}
    BY Zenon
  <2> QED BY <2>1, <2>2, Zenon DEF Descriptors
<1>2. /\ \A e \in old : /\ e \in Addr /\ e \in Nat /\ Base <= e /\ hdr[e] \in Nat
                       /\ hdr[e] > Hdr /\ e + hdr[e] <= Bump
      /\ \A e, f \in old : e < f => e + hdr[e] <= f
  <2>1. \A e \in old : e + hdr[e] <= Bump
    <3> TAKE e \in old
    <3>1. e \in Nat /\ hdr[e] \in Nat /\ hdr[e] > Hdr /\ e + hdr[e] <= next_malloc
      BY DescriptorsInHeap, Zenon
    <3>2. next_malloc # 0
      BY <3>1 DEF HeapLayout, Layout, Addr
    <3> QED BY <3>1, <3>2, Zenon DEF Bump
  <2> QED BY <2>1, DescriptorsInHeap, Zenon DEF HeapLayout, Layout, Descriptors
<1>3. h \in [Addr -> 0 .. Top]
  BY <1>0 DEF HeapLayout, Layout, Clobber
<1>4. h[Bump] = n
  BY <1>0 DEF HeapLayout, Layout, Clobber
<1>5. \A e \in old : h[e] = hdr[e]
  <2> TAKE e \in old
  <2>1. e # Bump /\ ~(e + Hdr > Bump + Hdr)
    BY <1>2, <1>0
  <2> QED BY <2>1, <1>2, <1>0, Zenon DEF HeapLayout, Layout, Clobber
<1>6. \A x \in live : x.ptr - Hdr \in old /\ x.ptr # Bump + Hdr
  <2> TAKE x \in live
  <2>1. x.ptr - Hdr \in old
    BY Zenon DEF Descriptors
  <2>2. x.ptr - Hdr # Bump
    BY <2>1, <1>0, <1>2
  <2> QED BY <2>1, <2>2, <1>0, Zenon
<1>7. lv \subseteq Block
  BY <1>0 DEF HeapLayout, Layout, Block
<1>8. \A x \in lv : x.ptr - Hdr \notin mfree /\ x.size + Hdr <= h[x.ptr - Hdr]
  <2> TAKE x \in lv
  <2>1. CASE x \in live
    BY <2>1, <1>5, <1>6, Zenon DEF HeapLayout, Layout
  <2>2. CASE x = b
    <3>1. Bump \notin old
      BY <1>0, <1>2
    <3>2. x.ptr - Hdr = Bump /\ x.size = s
      BY <2>2, <1>0, Zenon
    <3> QED BY <3>1, <3>2, <1>4, <1>0 DEF Descriptors
  <2> QED BY <2>1, <2>2, Zenon
<1>9. \A x, y \in lv : x.ptr = y.ptr => x = y
  BY <1>6 DEF HeapLayout, Layout
<1>10. \A x \in Base .. (Bump + n) - 1 : \E e \in ds : e <= x /\ x < e + h[e]
  <2> TAKE x \in Base .. (Bump + n) - 1
  <2>1. CASE x < Bump
    <3>1. next_malloc = Bump /\ next_malloc # 0
      BY <2>1, <1>0 DEF Bump
    <3>2. x \in Base .. next_malloc - 1
      BY <2>1, <3>1, <1>0
    <3>3. \E e \in old : e <= x /\ x < e + hdr[e]
      BY <3>1, <3>2, Zenon DEF HeapLayout, Layout, Descriptors
    <3> QED BY <3>3, <1>5, <1>1, Zenon
  <2>2. CASE x >= Bump
    <3>1. Bump \in ds
      BY <1>1, Zenon
    <3> HIDE DEF ds, h
    <3> QED BY <2>2, <3>1, <1>4, <1>0
  <2>3. x < Bump \/ x >= Bump
    BY <1>0
  <2> QED BY <2>1, <2>2, <2>3, Zenon
<1>11. Layout(Bump + n, mfree, h, lv)
  <2> HIDE DEF h, ds
  <2>1. \A e \in ds : Base <= e /\ h[e] > Hdr /\ e + h[e] <= Bump + n
    BY <1>0, <1>1, <1>2, <1>4, <1>5
  <2>2. \A e, f \in ds : e < f => e + h[e] <= f
    BY <1>0, <1>1, <1>2, <1>4, <1>5
  <2>3. mfree \subseteq Addr
    BY Zenon DEF HeapLayout, Layout
  <2> HIDE DEF lv, n
  <2> QED BY <2>1, <2>2, <2>3, <1>0, <1>3, <1>7, <1>8, <1>9, <1>10 DEF Layout, ds
<1> QED BY <1>6, <1>11, Zenon

\* Freeing a held block keeps the layout, and its descriptor still holds the
\* size the heap wrote there.
LEMMA FreeLayout ==
  ASSUME NEW nx, NEW fr, NEW h, NEW lv, Layout(nx, fr, h, lv), NEW b \in lv
  PROVE  /\ h[b.ptr - Hdr] # 0
         /\ h = [h EXCEPT ![b.ptr - Hdr] = h[b.ptr - Hdr]]
         /\ Layout(nx, fr \cup {b.ptr - Hdr}, h, lv \ {b})
<1> DEFINE d == b.ptr - Hdr
           old == fr \cup {x.ptr - Hdr : x \in lv}
           ds == (fr \cup {d}) \cup {x.ptr - Hdr : x \in lv \ {b}}
<1> USE HeapAssumption
<1>1. ds = old
  BY Zenon
<1>2. d \in old
  BY Zenon
<1>3. h[d] > Hdr /\ Base <= d
  BY <1>2, Zenon DEF Layout
<1>4. b.ptr \in 0 .. Top /\ h \in [Addr -> 0 .. Top]
  BY Zenon DEF Layout, Block, Addr
<1>5. d \in Addr
  <2>1. b.ptr \in Int /\ 0 <= b.ptr /\ b.ptr <= Top
    BY <1>4
  <2>2. Base <= b.ptr - Hdr
    BY <1>3, Zenon
  <2> QED BY <2>1, <2>2 DEF Addr
<1>6. h[d] # 0 /\ h = [h EXCEPT ![d] = h[d]]
  BY <1>3, <1>4, <1>5
<1>7. \A x \in lv \ {b} : x.ptr - Hdr \notin fr \cup {d}
  <2> TAKE x \in lv \ {b}
  <2>1. x.ptr # b.ptr
    BY Zenon DEF Layout
  <2>2. x.ptr \in 0 .. Top
    BY Zenon DEF Layout, Block, Addr
  <2>3. x.ptr - Hdr # d
    BY <2>1, <2>2, <1>4
  <2> QED BY <2>3, Zenon DEF Layout
<1>8. Layout(nx, fr \cup {d}, h, lv \ {b})
  <2>1. /\ nx \in Addr /\ (nx = 0 \/ Base <= nx)
        /\ fr \cup {d} \subseteq Addr
        /\ h \in [Addr -> 0 .. Top]
        /\ lv \ {b} \subseteq Block
        /\ \A x \in lv \ {b} : x.size + Hdr <= h[x.ptr - Hdr]
        /\ \A x, y \in lv \ {b} : x.ptr = y.ptr => x = y
    BY <1>5, Zenon DEF Layout
  <2>2. /\ \A e \in ds : Base <= e /\ h[e] > Hdr /\ e + h[e] <= nx
        /\ \A e, f \in ds : e < f => e + h[e] <= f
        /\ nx # 0 => \A x \in Base .. nx - 1 : \E e \in ds : e <= x /\ x < e + h[e]
    BY <1>1, Zenon DEF Layout
  <2> HIDE DEF d
  <2> QED BY <2>1, <2>2, <1>7, Zenon DEF Layout
<1> QED BY <1>6, <1>8, Zenon

\* What a result g of ofmem_posix_memalign must leave behind.
Keeps(g) == Layout(g.next, g.free, g.hdr, live \cup g.ret) /\ g.ret \cap live = {}

\* Whatever ofmem_posix_memalign does with a word-aligned request, the layout
\* survives and the block it returns is not one a client already holds.
LEMMA GrantLayout ==
  ASSUME HeapLayout, NEW s \in Nat, s > 0
  PROVE  Keeps(Grant(1, s))
<1>1. Keeps(Refused)
  <2>1. Layout(Bump, mfree, hdr, live)
    <3>1. CASE next_malloc # 0
      BY <3>1, Zenon DEF HeapLayout, Bump
    <3>2. CASE next_malloc = 0
      <4>1. Descriptors = {}
        BY <3>2, DescriptorsInHeap, HeapAssumption
      <4>2. Base \in Addr /\ Base .. Base - 1 = {}
        BY HeapAssumption DEF Addr
      <4> QED BY <3>2, <4>1, <4>2, HeapAssumption DEF HeapLayout, Layout, Bump, Descriptors
    <3> QED BY <3>1, <3>2, Zenon
  <2> QED BY <2>1, Zenon DEF Refused, Keeps
<1>2. ASSUME NEW d \in mfree, hdr[d] >= s + Hdr
      PROVE  Keeps(TakeFree(d, d + Hdr, s))
  BY <1>2, TakeFreeLayout, Zenon DEF TakeFree, Keeps
<1>3. ASSUME Bump + Hdr + s + Hdr <= Top
      PROVE  Keeps(CutNew(Bump, s + Hdr, s))
  BY <1>3, CutNewLayout, Zenon DEF CutNew, Keeps
<1> QED BY <1>1, <1>2, <1>3, GrantCases, Zenon

\* HeapLayout is an inductive invariant of word-aligned heaps.
THEOREM HeapLayoutInvariant ==
  ASSUME WordAligned
  PROVE  MallocSpec => []HeapLayout
<1>1. MallocInit => HeapLayout
  BY HeapAssumption DEF MallocInit, HeapLayout, Layout, Addr, Block
<1>2. HeapLayout /\ [MallocNext]_mallocVars => HeapLayout'
  <2> SUFFICES ASSUME HeapLayout, [MallocNext]_mallocVars
               PROVE  HeapLayout'
    BY Zenon
  <2>1. ASSUME NEW s \in Nat, ofmem_posix_memalign(1, s)
        PROVE  HeapLayout'
    BY <2>1, GrantLayout, Zenon DEF ofmem_posix_memalign, HeapLayout, Keeps
  <2>2. ASSUME NEW b \in live, ofmem_free(b)
        PROVE  HeapLayout'
    <3>1. /\ hdr[b.ptr - Hdr] # 0
          /\ hdr = [hdr EXCEPT ![b.ptr - Hdr] = hdr[b.ptr - Hdr]]
          /\ Layout(next_malloc, mfree \cup {b.ptr - Hdr}, hdr, live \ {b})
      BY FreeLayout, Zenon DEF HeapLayout
    <3>2. hdr' = hdr
      BY <2>2, <3>1, Zenon DEF ofmem_free, SizeRead
    <3> QED BY <2>2, <3>1, <3>2, Zenon DEF ofmem_free, HeapLayout
  <2>3. ASSUME NEW b \in live, NEW s \in Nat, s > 0, ofmem_realloc(b, s)
        PROVE  HeapLayout'
    <3> DEFINE g == Grant(1, s)
               d == b.ptr - Hdr
    <3>1. Layout(g.next, g.free, g.hdr, live \cup g.ret) /\ g.ret \cap live = {}
      BY <2>3, GrantLayout, Zenon DEF Keeps
    <3>2. /\ next_malloc' = g.next
          /\ mfree' = g.free \cup {d}
          /\ \E n \in SizeRead(g.hdr, d) : hdr' = [g.hdr EXCEPT ![d] = n]
          /\ live' = (live \ {b}) \cup g.ret
      BY <2>3 DEF ofmem_realloc, WordAligned
    <3> HIDE DEF g
    <3>3. /\ g.hdr[d] # 0
          /\ g.hdr = [g.hdr EXCEPT ![d] = g.hdr[d]]
          /\ Layout(g.next, g.free \cup {d}, g.hdr, (live \cup g.ret) \ {b})
      BY <3>1, FreeLayout, Zenon
    <3>4. hdr' = g.hdr
      BY <3>2, <3>3, Zenon DEF SizeRead
    <3>5. live' = (live \cup g.ret) \ {b}
      BY <3>1, <3>2, Zenon
    <3> QED BY <3>2, <3>3, <3>4, <3>5, Zenon DEF HeapLayout
  <2>4. CASE UNCHANGED mallocVars
    BY <2>4, Zenon DEF mallocVars, HeapLayout
  <2>5. CASE MallocNext
    <3>1. ASSUME NEW r \in Requests, ofmem_posix_memalign(r[1], r[2])
          PROVE  HeapLayout'
      BY <3>1, <2>1, HeapAssumption, Zenon DEF WordAligned
    <3>2. ASSUME NEW s \in MallocSizes, ofmem_malloc(s)
          PROVE  HeapLayout'
      BY <3>2, <2>1, HeapAssumption, Zenon DEF WordAligned, ofmem_malloc
    <3>3. ASSUME NEW b \in live, NEW s \in MallocSizes, ofmem_realloc(b, s)
          PROVE  HeapLayout'
      <4>1. CASE s = 0
        BY <3>3, <4>1, <2>2 DEF ofmem_realloc
      <4>2. CASE s # 0
        BY <3>3, <4>2, <2>3, HeapAssumption
      <4> QED BY <4>1, <4>2, Zenon
    <3> QED BY <2>5, <2>2, <3>1, <3>2, <3>3, Zenon DEF MallocNext
  <2> QED BY <2>4, <2>5, Zenon
<1> QED BY <1>1, <1>2, PTL DEF MallocSpec

\* No two blocks that clients hold overlap.
THEOREM HeapBlocksDisjoint ==
  ASSUME WordAligned
  PROVE  MallocSpec => []BlocksDisjoint
<1>1. HeapLayout => BlocksDisjoint
  <2> SUFFICES ASSUME HeapLayout, NEW b \in live, NEW c \in live, b # c
               PROVE  \/ b.ptr + b.size <= c.ptr - Hdr
                      \/ c.ptr + c.size <= b.ptr - Hdr
    BY Zenon DEF BlocksDisjoint
  <2>1. /\ b.ptr \in Nat /\ c.ptr \in Nat /\ b.size \in Nat /\ c.size \in Nat
        /\ b.ptr # c.ptr
        /\ b.size + Hdr <= hdr[b.ptr - Hdr] /\ c.size + Hdr <= hdr[c.ptr - Hdr]
    BY DEF HeapLayout, Layout, Block, Addr
  <2>2. b.ptr - Hdr \in Descriptors /\ c.ptr - Hdr \in Descriptors
    BY Zenon DEF Descriptors
  <2>3. /\ hdr[b.ptr - Hdr] \in Nat /\ hdr[c.ptr - Hdr] \in Nat
    BY <2>2, DescriptorsInHeap, Zenon
  <2>4. /\ b.ptr - Hdr < c.ptr - Hdr => b.ptr - Hdr + hdr[b.ptr - Hdr] <= c.ptr - Hdr
        /\ c.ptr - Hdr < b.ptr - Hdr => c.ptr - Hdr + hdr[c.ptr - Hdr] <= b.ptr - Hdr
    BY <2>2, Zenon DEF HeapLayout, Layout, Descriptors
  <2> QED BY <2>1, <2>3, <2>4, HeapAssumption
<1> QED BY <1>1, HeapLayoutInvariant, PTL

\* What the free list may hand out again is used by nobody.
THEOREM HeapFreeWordsUnused ==
  ASSUME WordAligned
  PROVE  MallocSpec => []FreeWordsUnused
<1>1. HeapLayout => FreeWordsUnused
  <2> SUFFICES ASSUME HeapLayout, NEW d \in mfree, NEW b \in live
               PROVE  d + hdr[d] <= b.ptr - Hdr \/ b.ptr + b.size <= d
    BY Zenon DEF FreeWordsUnused
  <2>1. /\ b.ptr \in Nat /\ b.size \in Nat /\ b.ptr - Hdr # d
        /\ b.size + Hdr <= hdr[b.ptr - Hdr]
    BY DEF HeapLayout, Layout, Block, Addr
  <2>2. b.ptr - Hdr \in Descriptors /\ d \in Descriptors
    BY Zenon DEF Descriptors
  <2>3. /\ hdr[b.ptr - Hdr] \in Nat /\ hdr[d] \in Nat /\ d \in Nat
    BY <2>2, DescriptorsInHeap, Zenon
  <2>4. /\ b.ptr - Hdr < d => b.ptr - Hdr + hdr[b.ptr - Hdr] <= d
        /\ d < b.ptr - Hdr => d + hdr[d] <= b.ptr - Hdr
    BY <2>2, Zenon DEF HeapLayout, Layout, Descriptors
  <2> QED BY <2>1, <2>3, <2>4, HeapAssumption
<1> QED BY <1>1, HeapLayoutInvariant, PTL
-----------------------------------------------------------------------------
\* What the proofs ask of the clients.
OrderlyClients ==
  /\ \A a \in Areas : a[1] + a[2] < NPages
  /\ ~ManyUnmap

Separate(t, u) == t.virt + t.size <= u.virt \/ u.virt + u.size <= t.virt

\* TransTypeOK and TransDisjoint, of any list.
Orderly(ts) ==
  /\ ts \subseteq Translation
  /\ \A t \in ts : 0 < t.size /\ t.virt + t.size <= NPages
  /\ \A t, u \in ts : t # u => Separate(t, u)

\* s is a piece of t, with the translation t gives it.
Part(s, t) ==
  /\ t.virt <= s.virt /\ s.virt + s.size <= t.virt + t.size
  /\ s.phys = t.phys + (s.virt - t.virt) /\ s.mode = t.mode

\* No entry has v in its interior.
CutAt(v, ts) == \A t \in ts : ~(t.virt < v /\ v < t.virt + t.size)

\* Both lists translate every page alike.
SameTable(ts, us) == \A x \in Page : Lookup(ts, x) = Lookup(us, x)

-----------------------------------------------------------------------------
\* In an orderly list a page has the translation of any entry that covers it.
LEMMA LookupHit ==
  ASSUME NEW ts, Orderly(ts), NEW x \in Page, NEW t \in ts, Covers(t, x)
  PROVE  Lookup(ts, x) = <<t.phys + (x - t.virt), t.mode>>
<1> DEFINE hit   == {u \in ts : Covers(u, x)}
           first == {u \in hit : \A w \in hit : u.virt <= w.virt}
<1>1. \A u \in hit : u = t
  BY DEF Orderly, Separate, Covers, Translation, Page
<1>2. t \in first
  BY <1>1 DEF Orderly, Translation, Page
<1>3. (CHOOSE u \in first : TRUE) = t
  BY <1>1, <1>2, Zenon
<1> QED
  BY <1>2, <1>3, Zenon DEF Lookup

\* A page that no entry covers is not mapped.
LEMMA LookupMiss ==
  ASSUME NEW ts, NEW x, \A t \in ts : ~Covers(t, x)
  PROVE  Lookup(ts, x) = Unmapped
BY Zenon DEF Lookup

-----------------------------------------------------------------------------
\* split_trans only cuts entries into pieces, and loses no page.
LEMMA SplitParts ==
  ASSUME NEW ts, Orderly(ts), NEW v \in Nat, TransAssumption
  PROVE  /\ \A s \in split_trans(v, ts) :
              s \in Translation /\ 0 < s.size /\ \E t \in ts : Part(s, t)
         /\ \A x \in Page, t \in ts : Covers(t, x) =>
              \E s \in split_trans(v, ts) : Covers(s, x) /\ Part(s, t)
         /\ CutAt(v, split_trans(v, ts))
<1> DEFINE cut     == {t \in ts : v > t.virt /\ v < t.virt + t.size}
           low(t)  == T(t.virt, v - t.virt, t.phys, t.mode)
           high(t) == T(v, t.size - (v - t.virt), t.phys + (v - t.virt), t.mode)
<1>0. split_trans(v, ts) = (ts \ cut) \cup {low(t) : t \in cut} \cup {high(t) : t \in cut}
  BY Zenon DEF split_trans
<1>1. \A t \in ts : /\ t.virt \in Nat /\ t.size \in Nat /\ t.phys \in Nat /\ t.mode \in Mode
                    /\ t.virt < NPages /\ 0 < t.size /\ t.virt + t.size <= NPages
  BY DEF Orderly, Translation, Page, TransAssumption
<1>2. ASSUME NEW t \in cut
      PROVE  /\ low(t) \in Translation /\ high(t) \in Translation
             /\ 0 < low(t).size /\ 0 < high(t).size
             /\ Part(low(t), t) /\ Part(high(t), t)
             /\ \A x \in Page : Covers(t, x) => Covers(low(t), x) \/ Covers(high(t), x)
             /\ ~(low(t).virt < v /\ v < low(t).virt + low(t).size)
             /\ ~(high(t).virt < v /\ v < high(t).virt + high(t).size)
  BY <1>1, <1>2 DEF T, Translation, Part, Covers, Page, TransAssumption
<1>3. \A t \in ts : Part(t, t)
  BY <1>1 DEF Part
<1>4. \A s \in split_trans(v, ts) :
         \/ s \in ts /\ s \notin cut
         \/ \E t \in cut : s = low(t) \/ s = high(t)
  BY <1>0, Zenon
<1>5. \A t \in ts : t \in Translation /\ 0 < t.size
  BY Zenon DEF Orderly
<1>6. \A s \in split_trans(v, ts) :
         s \in Translation /\ 0 < s.size /\ \E t \in ts : Part(s, t)
  <2> SUFFICES ASSUME NEW s \in split_trans(v, ts)
               PROVE  s \in Translation /\ 0 < s.size /\ \E t \in ts : Part(s, t)
    BY Zenon
  <2> HIDE DEF low, high
  <2>1. CASE s \in ts
    BY <2>1, <1>3, <1>5, Zenon
  <2>2. CASE \E t \in cut : s = low(t) \/ s = high(t)
    BY <2>2, <1>2, Zenon
  <2> QED
    BY <1>4, <2>1, <2>2, Zenon
<1>7. \A x \in Page, t \in ts : Covers(t, x) =>
         \E s \in split_trans(v, ts) : Covers(s, x) /\ Part(s, t)
  <2> SUFFICES ASSUME NEW x \in Page, NEW t \in ts, Covers(t, x)
               PROVE  \E s \in split_trans(v, ts) : Covers(s, x) /\ Part(s, t)
    BY Zenon
  <2> HIDE DEF low, high
  <2>1. CASE t \notin cut
    BY <2>1, <1>0, <1>3, Zenon
  <2>2. CASE t \in cut
    <3>1. low(t) \in split_trans(v, ts) /\ high(t) \in split_trans(v, ts)
      BY <2>2, <1>0, Zenon
    <3> QED
      BY <2>2, <3>1, <1>2, Zenon
  <2> QED
    BY <2>1, <2>2, Zenon
<1>8. CutAt(v, split_trans(v, ts))
  <2> SUFFICES ASSUME NEW s \in split_trans(v, ts)
               PROVE  ~(s.virt < v /\ v < s.virt + s.size)
    BY Zenon DEF CutAt
  <2>1. CASE s \in ts /\ s \notin cut
    BY <2>1, <1>1, Zenon
  <2>2. CASE \E t \in cut : s = low(t) \/ s = high(t)
    <3> HIDE DEF low, high
    <3> QED
      BY <2>2, <1>2, Zenon
  <2> QED
    BY <1>4, <2>1, <2>2, Zenon
<1> QED
  BY <1>6, <1>7, <1>8, Zenon

\* split_trans keeps the list orderly, cuts it at v, keeps other cuts, and
\* changes no translation.
LEMMA SplitOrderly ==
  ASSUME NEW ts, Orderly(ts), NEW v \in Nat, TransAssumption
  PROVE  /\ Orderly(split_trans(v, ts))
         /\ SameTable(split_trans(v, ts), ts)
         /\ CutAt(v, split_trans(v, ts))
         /\ \A w \in Nat : CutAt(w, ts) => CutAt(w, split_trans(v, ts))
<1> DEFINE us == split_trans(v, ts)
           cut     == {t \in ts : v > t.virt /\ v < t.virt + t.size}
           low(t)  == T(t.virt, v - t.virt, t.phys, t.mode)
           high(t) == T(v, t.size - (v - t.virt), t.phys + (v - t.virt), t.mode)
<1>1. /\ \A s \in us : s \in Translation /\ 0 < s.size /\ \E t \in ts : Part(s, t)
      /\ \A x \in Page, t \in ts : Covers(t, x) => \E s \in us : Covers(s, x) /\ Part(s, t)
      /\ CutAt(v, us)
  BY SplitParts, Zenon
<1>2. \A t \in ts : /\ t.virt \in Nat /\ t.size \in Nat /\ t.phys \in Nat /\ t.mode \in Mode
                    /\ t.virt + t.size <= NPages
  BY DEF Orderly, Translation, Page
<1>3. \A s \in us : s.virt \in Nat /\ s.size \in Nat /\ s.phys \in Nat
  BY <1>1 DEF Translation, Page
<1>4. \A s \in us : s.virt + s.size <= NPages
  <2> HIDE DEF us
  <2> QED
    BY <1>1, <1>2, <1>3 DEF Part, TransAssumption
<1>5. \A s, t \in us : s # t => Separate(s, t)
  <2> SUFFICES ASSUME NEW s \in us, NEW t \in us, s # t
               PROVE  Separate(s, t)
    BY Zenon
  <2>1. \A q \in us : \/ q \in ts /\ q \notin cut
                     \/ \E r \in cut : q = low(r) \/ q = high(r)
    <3>1. us = (ts \ cut) \cup {low(q) : q \in cut} \cup {high(q) : q \in cut}
      BY Zenon DEF split_trans
    <3> HIDE DEF us, low, high, cut
    <3> QED
      BY <3>1, Zenon
  <2>a. \A q \in cut : Part(low(q), q) /\ Part(high(q), q)
    BY <1>2 DEF Part, T
  <2>b. \A q \in ts : Part(q, q)
    BY <1>2 DEF Part
  <2>2. \A q, r \in ts : q # r => Separate(q, r)
    BY Zenon DEF Orderly
  <2>3. PICK q \in ts : /\ Part(s, q)
                        /\ s = q \/ (q \in cut /\ (s = low(q) \/ s = high(q)))
    <3> HIDE DEF us, low, high
    <3> QED
      BY <2>1, <2>a, <2>b, Zenon
  <2>4. PICK r \in ts : /\ Part(t, r)
                        /\ t = r \/ (r \in cut /\ (t = low(r) \/ t = high(r)))
    <3> HIDE DEF us, low, high
    <3> QED
      BY <2>1, <2>a, <2>b, Zenon
  <2>5. CASE q # r
    <3>1. Separate(q, r) /\ Part(s, q) /\ Part(t, r)
      <4>1. Part(s, q) /\ Part(t, r)
        BY <2>3, <2>4, Zenon
      <4>2. Separate(q, r)
        BY <2>2, <2>5, Zenon
      <4> QED
        BY <4>1, <4>2, Zenon
    <3>2. /\ q.virt \in Nat /\ q.size \in Nat /\ r.virt \in Nat /\ r.size \in Nat
          /\ s.virt \in Nat /\ s.size \in Nat /\ t.virt \in Nat /\ t.size \in Nat
      BY <1>2, <1>3, Zenon
    <3> QED
      BY <3>1, <3>2 DEF Part, Separate
  <2>6. CASE q = r
    <3>1. CASE q \notin cut
      BY <2>3, <2>4, <2>6, <3>1, Zenon
    <3>2. CASE q \in cut
      <4>1. s # q /\ t # q
        <5>1. q.virt < v /\ v < q.virt + q.size
          BY <3>2, Zenon
        <5> HIDE DEF us
        <5> QED
          BY <5>1, <1>1, Zenon DEF CutAt
      <4>2. low(q).virt + low(q).size = v /\ high(q).virt = v
        BY <3>2, <1>2 DEF T
      <4> HIDE DEF low, high
      <4>3. (s = low(q) /\ t = high(q)) \/ (s = high(q) /\ t = low(q))
        BY <2>3, <2>4, <2>6, <4>1, Zenon
      <4> QED
        BY <4>2, <4>3 DEF Separate
    <3> QED
      BY <3>1, <3>2, Zenon
  <2> QED
    BY <2>5, <2>6, Zenon
<1>6. Orderly(us)
  BY <1>1, <1>4, <1>5, Zenon DEF Orderly
<1> HIDE DEF us
<1>7. SameTable(us, ts)
  <2> SUFFICES ASSUME NEW x \in Page
               PROVE  Lookup(us, x) = Lookup(ts, x)
    BY Zenon DEF SameTable
  <2>1. CASE \E t \in ts : Covers(t, x)
    <3>1. PICK t \in ts : Covers(t, x)
      BY <2>1, Zenon
    <3>2. PICK s \in us : Covers(s, x) /\ Part(s, t)
      BY <1>1, <3>1, Zenon
    <3>3. /\ Lookup(ts, x) = <<t.phys + (x - t.virt), t.mode>>
          /\ Lookup(us, x) = <<s.phys + (x - s.virt), s.mode>>
      BY <1>6, <3>1, <3>2, LookupHit, Zenon
    <3>4. s.phys + (x - s.virt) = t.phys + (x - t.virt) /\ s.mode = t.mode
      BY <3>2, <1>2, <1>3 DEF Part, Page
    <3> QED
      BY <3>3, <3>4, Zenon
  <2>2. CASE \A t \in ts : ~Covers(t, x)
    <3>1. \A s \in us : ~Covers(s, x)
      BY <2>2, <1>1, <1>2, <1>3 DEF Part, Covers, Page
    <3> QED
      BY <2>2, <3>1, LookupMiss, Zenon
  <2> QED
    BY <2>1, <2>2, Zenon
<1>8. ASSUME NEW w \in Nat, CutAt(w, ts)
      PROVE  CutAt(w, us)
  BY <1>1, <1>2, <1>3, <1>8 DEF CutAt, Part
<1> QED
  BY <1>1, <1>6, <1>7, <1>8, Zenon DEF us

\* The two calls of split_trans that begin ofmem_map_page_range and
\* unmap_page_range.
LEMMA SplitEndsOrderly ==
  ASSUME NEW ts, Orderly(ts), TransAssumption, NEW virt \in Nat, NEW size \in Nat,
         virt + size < NPages
  PROVE  LET cut == SplitEnds(virt, size, ts)
         IN /\ Orderly(cut)
            /\ SameTable(cut, ts)
            /\ CutAt(virt, cut)
            /\ CutAt(virt + size, cut)
<1>1. PageWrap(virt + size) = virt + size
  BY DEF PageWrap, TransAssumption
<1>2. SplitEnds(virt, size, ts) = split_trans(virt + size, split_trans(virt, ts))
  BY <1>1, Zenon DEF SplitEnds
<1> DEFINE us == split_trans(virt, ts)
<1>3. Orderly(us) /\ SameTable(us, ts) /\ CutAt(virt, us)
  BY SplitOrderly, Zenon
<1> HIDE DEF us
<1>4. /\ Orderly(split_trans(virt + size, us))
      /\ SameTable(split_trans(virt + size, us), us)
      /\ CutAt(virt + size, split_trans(virt + size, us))
      /\ CutAt(virt, split_trans(virt + size, us))
  BY <1>3, SplitOrderly
<1> QED
  BY <1>2, <1>3, <1>4, Zenon DEF SameTable, us

-----------------------------------------------------------------------------
\* A mapping leaves the list orderly, gives its area the new translation and
\* touches no other page.
LEMMA MapTable ==
  ASSUME NEW ts, Orderly(ts), TransAssumption,
         NEW virt \in Page, NEW size \in Nat, 0 < size, virt + size < NPages,
         NEW phys \in Nat, NEW mode \in Mode
  PROVE  LET us == map_page_range(phys, virt, size, mode, ts)
         IN /\ Orderly(us)
            /\ \A x \in Page : Lookup(us, x) =
                 IF virt <= x /\ x < virt + size
                 THEN <<phys + (x - virt), mode>> ELSE Lookup(ts, x)
<1> DEFINE new  == T(virt, size, phys, mode)
           cut  == SplitEnds(virt, size, ts)
           keep == cut \ Remapped(virt, size, cut)
           us   == keep \cup {new}
<1>1. map_page_range(phys, virt, size, mode, ts) = us
  BY Zenon DEF map_page_range
<1>2. virt \in Nat /\ NPages \in Nat
  BY DEF Page, TransAssumption
<1>3. Orderly(cut) /\ SameTable(cut, ts) /\ CutAt(virt, cut) /\ CutAt(virt + size, cut)
  BY <1>2, SplitEndsOrderly, Zenon
<1>4. PageWrap(virt + size) = virt + size
  BY <1>2 DEF PageWrap
<1> HIDE DEF cut
<1>5. new \in Translation /\ new.virt = virt /\ new.size = size
      /\ new.phys = phys /\ new.mode = mode
  BY Zenon DEF T, Translation
<1> HIDE DEF new
<1>6. \A t \in cut : /\ t.virt \in Nat /\ t.size \in Nat /\ 0 < t.size
                     /\ t.virt + t.size <= NPages /\ t \in Translation
  BY <1>3 DEF Orderly, Translation, Page
<1>7. \A t \in keep : t \in cut /\ Separate(t, new)
  BY <1>2, <1>3, <1>4, <1>5, <1>6 DEF Remapped, CutAt, Separate
<1>8. \A t \in Remapped(virt, size, cut) :
         t \in cut /\ virt <= t.virt /\ t.virt + t.size <= virt + size
  BY <1>2, <1>3, <1>4, <1>6 DEF Remapped, CutAt
<1>9. Orderly(us)
  <2>1. us \subseteq Translation /\ \A t \in us : 0 < t.size /\ t.virt + t.size <= NPages
    BY <1>2, <1>5, <1>6, <1>7
  <2>2. \A t, u \in cut : t # u => Separate(t, u)
    BY <1>3, Zenon DEF Orderly
  <2>3. \A t, u \in us : t # u => Separate(t, u)
    BY <1>7, <2>2, Zenon DEF Separate
  <2> QED
    BY <2>1, <2>3, Zenon DEF Orderly
<1>10. ASSUME NEW x \in Page
       PROVE  Lookup(us, x) = IF virt <= x /\ x < virt + size
                              THEN <<phys + (x - virt), mode>> ELSE Lookup(ts, x)
  <2>0. x \in Nat
    BY DEF Page
  <2>1. CASE virt <= x /\ x < virt + size
    <3>1. new \in us /\ Covers(new, x)
      BY <2>1, <1>5, Zenon DEF Covers
    <3> HIDE DEF us
    <3>2. Lookup(us, x) = <<new.phys + (x - new.virt), new.mode>>
      BY <3>1, <1>9, LookupHit, Zenon
    <3> QED
      BY <2>1, <3>2, <1>5, Zenon
  <2>2. CASE ~(virt <= x /\ x < virt + size)
    <3>1. Lookup(ts, x) = Lookup(cut, x)
      BY <1>3, Zenon DEF SameTable
    <3>2. CASE \E t \in cut : Covers(t, x)
      <4>1. PICK t \in cut : Covers(t, x)
        BY <3>2, Zenon
      <4>2. t \in us
        BY <2>0, <2>2, <4>1, <1>2, <1>6, <1>8 DEF Covers
      <4> HIDE DEF us
      <4>3. Lookup(us, x) = Lookup(cut, x)
        BY <4>1, <4>2, <1>3, <1>9, LookupHit
      <4> QED
        BY <2>2, <3>1, <4>3, Zenon
    <3>3. CASE \A t \in cut : ~Covers(t, x)
      <4>1. ~Covers(new, x)
        BY <2>2, <1>5, Zenon DEF Covers
      <4>2. \A t \in us : ~Covers(t, x)
        BY <3>3, <4>1, Zenon
      <4>3. Lookup(us, x) = Unmapped /\ Lookup(cut, x) = Unmapped
        <5> HIDE DEF us
        <5> QED
          BY <3>3, <4>2, LookupMiss, Zenon
      <4> QED
        BY <2>2, <3>1, <4>3, Zenon
    <3> QED
      BY <3>2, <3>3, Zenon
  <2> QED
    BY <2>1, <2>2, Zenon
<1> QED
  BY <1>1, <1>9, <1>10, Zenon

AtMostOne(es) == \A t, u \in es : t = u

\* rest is what is left of the table ts without the pages of an area.
WithoutArea(rest, virt, size, ts) ==
  \A x \in Page : Lookup(rest, x) =
    IF virt <= x /\ x < virt + size THEN Unmapped ELSE Lookup(ts, x)

\* Unmapping an area that at most one entry covers takes away just its pages.
LEMMA UnmapTable ==
  ASSUME NEW ts, Orderly(ts), TransAssumption,
         NEW virt \in Page, NEW size \in Nat, virt + size < NPages,
         NEW cut, cut = SplitEnds(virt, size, ts),
         NEW es, es = InRange(virt, size, cut), AtMostOne(es)
  PROVE  Orderly(cut \ es) /\ Unlinked(es) = es /\ WithoutArea(cut \ es, virt, size, ts)
<1>1. virt \in Nat /\ NPages \in Nat
  BY DEF Page, TransAssumption
<1>2. Orderly(cut) /\ SameTable(cut, ts) /\ CutAt(virt, cut) /\ CutAt(virt + size, cut)
  BY <1>1, SplitEndsOrderly, Zenon
<1>3. \A t \in cut : /\ t.virt \in Nat /\ t.size \in Nat /\ 0 < t.size
                     /\ t.virt + t.size <= NPages
  BY <1>2 DEF Orderly, Translation, Page
<1>4. \A t \in cut : t \in es <=> virt <= t.virt /\ t.virt + t.size <= virt + size
  BY <1>1, <1>2, <1>3 DEF InRange, PageWrap, CutAt
<1>5. Orderly(cut \ es)
  BY <1>2, Zenon DEF Orderly
<1>6. Unlinked(es) = es
  <2>1. CASE es = {}
    <3>1. \A us \in SUBSET es : us = es
      BY <2>1, Zenon
    <3> QED
      BY <3>1, <2>1, Zenon DEF Unlinked
  <2>2. CASE es # {}
    <3>1. PICK t \in es : es = {t}
      BY <2>2 DEF AtMostOne
    <3>2. t.virt <= t.virt
      BY <1>3, <3>1 DEF InRange
    <3> DEFINE P(us) == \A e \in es : e \in us <=>
                           \A p \in es : NextBelow(p, e, es) => p \notin us
    <3>3. ~NextBelow(t, t, es)
      BY <1>3, <3>1 DEF NextBelow, InRange
    <3>4. \A us \in SUBSET es : P(us) <=> us = es
      BY <3>1, <3>3, Zenon
    <3> HIDE DEF P
    <3>5. (CHOOSE us \in SUBSET es : P(us)) = es
      BY <3>4, Zenon
    <3> QED
      BY <3>5, Zenon DEF Unlinked, P
  <2> QED
    BY <2>1, <2>2, Zenon
<1>7. ASSUME NEW x \in Page
      PROVE  Lookup(cut \ es, x) =
               IF virt <= x /\ x < virt + size THEN Unmapped ELSE Lookup(ts, x)
  <2>0. x \in Nat
    BY DEF Page
  <2>1. CASE virt <= x /\ x < virt + size
    <3>1. \A t \in cut \ es : ~Covers(t, x)
      BY <2>0, <2>1, <1>1, <1>2, <1>3, <1>4 DEF CutAt, Covers
    <3> QED
      BY <2>1, <3>1, LookupMiss, Zenon
  <2>2. CASE ~(virt <= x /\ x < virt + size)
    <3>1. Lookup(ts, x) = Lookup(cut, x)
      BY <1>2, Zenon DEF SameTable
    <3>2. \A t \in cut : Covers(t, x) => t \in cut \ es
      BY <2>0, <2>2, <1>1, <1>3, <1>4 DEF Covers
    <3>3. CASE \E t \in cut : Covers(t, x)
      BY <2>2, <3>1, <3>2, <3>3, <1>2, <1>5, LookupHit
    <3>4. CASE \A t \in cut : ~Covers(t, x)
      BY <2>2, <3>1, <3>4, LookupMiss, Zenon
    <3> QED
      BY <3>3, <3>4, Zenon
  <2> QED
    BY <2>1, <2>2, Zenon
<1> QED
  BY <1>5, <1>6, <1>7, Zenon DEF WithoutArea

-----------------------------------------------------------------------------
\* The type invariant and TransDisjoint are inductive together: split_trans
\* cuts entries at both ends of a new mapping, so the ones it replaces are
\* exactly those inside its area.
TransInv == Orderly(trans)

\* Every step keeps the list orderly, and is a step of the page table.
LEMMA StepTable ==
  ASSUME OrderlyClients, TransInv, TransNext
  PROVE  TransInv' /\ Table!Next
<1> USE TransAssumption
<1>0. \A a \in Areas : /\ a[1] \in Page /\ a[2] \in Nat /\ 0 < a[2]
                       /\ a[1] + a[2] < NPages
  BY DEF OrderlyClients, TransAssumption, Page
<1>1. ASSUME NEW phys \in Frame, NEW a \in Areas, NEW mode \in Mode,
             ofmem_map(phys, a[1], a[2], mode)
      PROVE  TransInv' /\ Table!Map(phys, a[1], a[2], mode)
  <2> DEFINE virt == a[1]
             size == a[2]
             us   == map_page_range(phys, virt, size, mode, trans)
  <2>1. virt \in Page /\ size \in Nat /\ 0 < size /\ virt + size < NPages /\ phys \in Nat
    BY <1>0, Zenon DEF TransAssumption
  <2>2. trans' = us
    BY <1>1, Zenon DEF ofmem_map
  <2> HIDE DEF virt, size
  <2>3. /\ Orderly(us)
        /\ \A x \in Page : Lookup(us, x) =
             IF virt <= x /\ x < virt + size
             THEN <<phys + (x - virt), mode>> ELSE Lookup(trans, x)
    BY <2>1, MapTable DEF TransInv
  <2> HIDE DEF us
  <2>4. [x \in Page |-> Lookup(us, x)] =
          [x \in Page |-> IF virt <= x /\ x < virt + size
                          THEN <<phys + (x - virt), mode>>
                          ELSE [y \in Page |-> Lookup(trans, y)][x]]
    BY <2>3, Zenon
  <2> QED
    BY <2>2, <2>3, <2>4, Zenon DEF TransInv, Table!Map, ofmem_translate, virt, size
<1>2. ASSUME NEW a \in Areas, ofmem_unmap(a[1], a[2])
      PROVE  TransInv' /\ Table!Unmap(a[1], a[2])
  <2> DEFINE virt == a[1]
             size == a[2]
             cut  == SplitEnds(virt, size, trans)
             es   == InRange(virt, size, cut)
             us   == cut \ es
  <2>1. virt \in Page /\ size \in Nat /\ virt + size < NPages
    BY <1>0, Zenon
  <2>2. trans' = cut \ Unlinked(es) /\ AtMostOne(es)
    BY <1>2, Zenon DEF ofmem_unmap, OrderlyClients, AtMostOne
  <2>a. cut = SplitEnds(virt, size, trans) /\ es = InRange(virt, size, cut) /\ us = cut \ es
    BY Zenon
  <2>b. Orderly(trans)
    BY Zenon DEF TransInv
  <2> HIDE DEF virt, size, cut, es, us
  <2>c. Orderly(cut \ es) /\ Unlinked(es) = es /\ WithoutArea(cut \ es, virt, size, trans)
    BY <2>1, <2>2, <2>a, <2>b, UnmapTable, Zenon
  <2>3. /\ Orderly(us) /\ Unlinked(es) = es
        /\ \A x \in Page : Lookup(us, x) =
             IF virt <= x /\ x < virt + size THEN Unmapped ELSE Lookup(trans, x)
    BY <2>a, <2>c, Zenon DEF WithoutArea
  <2>4. trans' = us
    BY <2>2, <2>3, <2>a, Zenon
  <2>5. [x \in Page |-> Lookup(us, x)] =
          [x \in Page |-> IF virt <= x /\ x < virt + size THEN Unmapped
                          ELSE [y \in Page |-> Lookup(trans, y)][x]]
    BY <2>3, Zenon
  <2> QED
    BY <2>3, <2>4, <2>5, Zenon DEF TransInv, Table!Unmap, ofmem_translate, virt, size
<1>3. ASSUME NEW phys \in Frame, NEW a \in Areas, ofmem_map_default(phys, a[1], a[2])
      PROVE  TransInv' /\ Table!Map(phys, a[1], a[2], DefaultMode(phys))
  BY <1>1, <1>3, Zenon DEF ofmem_map_default, TransAssumption
<1>4. CASE \E phys \in Frame, a \in Areas, mode \in Mode : ofmem_map(phys, a[1], a[2], mode)
  BY <1>1, <1>4, Zenon DEF Table!Next
<1>5. CASE \E phys \in Frame, a \in Areas : ofmem_map_default(phys, a[1], a[2])
  BY <1>3, <1>5, Zenon DEF Table!Next, TransAssumption
<1>6. CASE \E a \in Areas : ofmem_unmap(a[1], a[2])
  BY <1>2, <1>6, Zenon DEF Table!Next
<1> QED
  BY <1>4, <1>5, <1>6, Zenon DEF TransNext

\* No sequence of overlapping ofmem_map and ofmem_unmap calls gives a page two
\* entries of the list.
THEOREM TranslationsDisjoint ==
  ASSUME OrderlyClients
  PROVE  TransSpec => [](TransTypeOK /\ TransDisjoint)
<1>1. TransInit => TransInv
  BY Zenon DEF TransInit, TransInv, Orderly
<1>2. TransInv /\ [TransNext]_tvars => TransInv'
  BY StepTable, Zenon DEF TransInv, tvars
<1>3. TransInv => TransTypeOK /\ TransDisjoint
  BY Zenon DEF TransInv, Orderly, Separate, TransTypeOK, TransDisjoint
<1> QED
  BY <1>1, <1>2, <1>3, PTL DEF TransSpec

\* The list of translations implements a page table: ofmem_translate answers
\* what was last mapped there, and nothing once it was unmapped.
THEOREM TranslationsImplementPageTable ==
  ASSUME OrderlyClients
  PROVE  TransSpec => ImplementsPageTable
<1>1. TransInit => TransInv /\ Table!Init
  BY LookupMiss, Zenon DEF TransInit, TransInv, Orderly, Table!Init, ofmem_translate
<1>2. TransInv /\ [TransNext]_tvars =>
        TransInv' /\ [Table!Next]_([x \in Page |-> ofmem_translate(x)])
  BY StepTable, Zenon DEF TransInv, tvars, ofmem_translate
<1> QED
  BY <1>1, <1>2, PTL DEF TransSpec, ImplementsPageTable, Table!Spec
-----------------------------------------------------------------------------
\* Above e there is an aligned area before the end of the address space, where
\* the bottom-up search looks for one.
RoomFor(e, a, size) ==
  /\ e + a <= AddrMod
  /\ AlignDown(e + (a - 1), a) + size <= AddrMod

\* The bottom-up search does not return an unaligned Min.
BottomFor(a) == Min < a \/ Min % a = 0

\* The searched area and the fixed claims keep an alignment and a claim away
\* from the end of the address space.  Beyond, the addresses that the bottom-up
\* search computes wrap around and it returns areas that are not free.
RoomAbove ==
  /\ Min <= Max
  /\ \A align \in Aligns :
       /\ BottomFor(RoundAlign(align))
       /\ \A size \in Sizes :
            /\ RoomFor(Max, RoundAlign(align), size)
            /\ \A p \in FixedClaims : RoomFor(p[1] + p[2], RoundAlign(align), size)

\* The same for an entry of the list.
RoomAboveEnd(r) ==
  \A align \in Aligns, size \in Sizes : RoomFor(r.start + r.size, RoundAlign(align), size)

\* The clients of the theorems below.
CleanClients ==
  /\ Reverse \/ RoomAbove
  /\ \A p \in FixedClaims : 0 < p[2] /\ p[1] + p[2] < AddrMod
  /\ \A s \in Sizes : 0 < s /\ s <= Max
  /\ \A a \in Aligns : \E p \in Pow2 : p >= a /\ p >= PageSize
  /\ Shapes \subseteq {"whole", "tail"}

\* A well-formed entry: not empty and clear of the end of the address space.
Proper(r) ==
  /\ r.start \in Nat /\ r.size \in Nat
  /\ r = Entry(r.start, r.size)
  /\ 0 < r.size /\ r.start + r.size < AddrMod

\* A well-formed list.
ProperList(rs) ==
  /\ \A r \in rs : Proper(r)
  /\ \A r, s \in rs : r # s => Apart(r, s)

\* The inductive invariant.  is_free and the searches are right on well-formed
\* lists only, and the list must be what the clients hold for a release to find
\* an entry.
ListInv ==
  /\ ranges = claims
  /\ ProperList(ranges)
  /\ RoomAbove => \A r \in ranges : RoomAboveEnd(r)

\* On well-formed entries is_free says what it means.
LEMMA IsFreeApart ==
  ASSUME NEW rs, ProperList(rs), NEW ea \in Nat, NEW size \in Nat,
         0 < size, ea + size < AddrMod
  PROVE  is_free(ea, size, rs) <=> \A r \in rs : Apart(r, Entry(ea, size))
<1> USE RangeOpsAssumption
<1>1. Last(ea, size) = ea + size - 1
  BY DEF Last, Wrap
<1>2. ASSUME NEW r \in rs
      PROVE  /\ Last(r.start, r.size) = r.start + r.size - 1
             /\ r.start \in Nat /\ r.size \in Nat /\ r.size > 0
  BY DEF ProperList, Proper, Last, Wrap
<1>3. ASSUME NEW r \in rs
      PROVE  (/\ ~(Last(r.start, r.size) >= ea /\ r.start <= ea)
              /\ ~(r.start >= ea /\ r.start <= Last(ea, size)))
             <=> Apart(r, Entry(ea, size))
  BY <1>1, <1>2 DEF Apart, Entry
<1> QED BY <1>3 DEF is_free

\* Adding a free entry keeps the list well formed.
LEMMA AddProper ==
  ASSUME NEW rs, ProperList(rs), NEW ea \in Nat, NEW size \in Nat,
         0 < size, ea + size < AddrMod, is_free(ea, size, rs)
  PROVE  /\ add_entry(ea, size, rs) = rs \cup {Entry(ea, size)}
         /\ ProperList(rs \cup {Entry(ea, size)})
<1>1. add_entry(ea, size, rs) = rs \cup {Entry(ea, size)}
  BY Zenon DEF add_entry, Entry
<1>2. Proper(Entry(ea, size))
  BY Zenon DEF Proper, Entry
<1>3. \A r \in rs : Apart(r, Entry(ea, size)) /\ Apart(Entry(ea, size), r)
  BY IsFreeApart, Zenon DEF Apart
<1> QED BY <1>1, <1>2, <1>3, Zenon DEF ProperList

\* Of two multiples of a, one that is not above the other by a or more is not
\* above it.
LEMMA MultipleBelow ==
  ASSUME NEW a \in Nat \ {0}, NEW b \in Nat, NEW y \in Nat,
         b % a = 0, y % a = 0, y < b + a
  PROVE  y <= b
<1> DEFINE k == b \div a
           m == y \div a
<1>1. k \in Nat /\ m \in Nat /\ b = a * k /\ y = a * m
  <2>1. \A x \in Nat : x = a * (x \div a) + (x % a) /\ x \div a \in Nat
    OBVIOUS
  <2> QED BY <2>1
<1> HIDE DEF k, m
<1>2. m <= k
  <2>1. \A i, j \in Nat : a * i <= a * j + a - 1 => i <= j
    OBVIOUS
  <2> QED BY <1>1, <2>1
<1>3. a * m <= a * k
  BY <1>1, <1>2
<1> QED BY <1>1, <1>3, Zenon

\* AlignDown gives the highest multiple of the alignment that is not above x.
LEMMA AlignDownIs ==
  ASSUME NEW x \in Nat, NEW a \in Nat \ {0}
  PROVE  /\ AlignDown(x, a) \in Nat /\ AlignDown(x, a) % a = 0
         /\ AlignDown(x, a) <= x /\ x < AlignDown(x, a) + a
         /\ \A b \in Nat : b % a = 0 /\ b <= x => b <= AlignDown(x, a)
<1> DEFINE k == x \div a
<1>1. AlignDown(x, a) \in Nat /\ AlignDown(x, a) <= x /\ x < AlignDown(x, a) + a
  BY DEF AlignDown
<1>2. k \in Nat /\ AlignDown(x, a) = a * k + 0 /\ 0 \in 0 .. a - 1
  <2>1. x = a * (x \div a) + (x % a) /\ x \div a \in Nat
    OBVIOUS
  <2> QED BY <2>1 DEF AlignDown
<1> HIDE DEF k
<1>3. \A y, i \in Nat : \A r \in 0 .. a - 1 : y = a * i + r => y % a = r
  OBVIOUS
<1>4. AlignDown(x, a) % a = 0
  BY <1>1, <1>2, <1>3, Zenon
<1>5. ASSUME NEW b \in Nat, b % a = 0, b <= x PROVE b <= AlignDown(x, a)
  <2>1. b < AlignDown(x, a) + a
    BY <1>1, <1>5
  <2> QED BY <1>1, <1>4, <1>5, <2>1, MultipleBelow, Zenon
<1> QED BY <1>1, <1>4, <1>5, Zenon

\* A set of numbers has a least element.
LEMMA LeastElement ==
  ASSUME NEW Ends \in SUBSET Nat, Ends # {}
  PROVE  \E x \in Ends : \A y \in Ends : x <= y
<1>1. PICK x \in Ends : \A y \in Ends : ~(<<y, x>> \in OpToRel(<, Nat))
  BY NatLessThanWellFounded, WFMin, Zenon
<1>2. \A y \in Ends : ~(y < x)
  BY <1>1, Zenon DEF OpToRel
<1> QED BY <1>2

\* A bounded set of numbers has a greatest element.
LEMMA GreatestElement ==
  ASSUME NEW Ends \in SUBSET Nat, Ends # {}, NEW n \in Nat, \A y \in Ends : y <= n
  PROVE  \E x \in Ends : \A y \in Ends : y <= x
<1> DEFINE U == {n - y : y \in Ends}
<1>1. U \in SUBSET Nat /\ U # {}
  <2>1. \A y \in Ends : n - y \in Nat
    OBVIOUS
  <2>2. PICK y \in Ends : TRUE
    BY Zenon
  <2>3. n - y \in U
    BY <2>2, Zenon
  <2> QED BY <2>1, <2>3, Zenon
<1>2. PICK u \in U : \A v \in U : u <= v
  BY <1>1, LeastElement, Zenon
<1>3. PICK x \in Ends : u = n - x
  BY <1>2, Zenon
<1>4. ASSUME NEW y \in Ends PROVE y <= x
  <2>1. n - y \in U
    BY Zenon
  <2>2. u <= n - y
    BY <1>2, <2>1, Zenon
  <2> QED BY <1>3, <2>2
<1> QED BY <1>4, Zenon

\* The top-down search tries every place that can be the highest free one: the
\* highest is at the top, or just below the lowest range above it.
LEMMA FindReverseHighest ==
  ASSUME ProperList(ranges), NEW size \in Nat, 0 < size, size <= Max, NEW a \in Nat \ {0}
  PROVE  LET found == FindReverse(a, size, ranges, Max)
             all   == Candidates(a, size, 0, Max)
         IN IF all = {} THEN found = NONE
            ELSE found \in all /\ \A b \in all : b <= found
<1> DEFINE top == Wrap(Max - size)
           clamp(x) == AlignDown(IF x > top THEN top ELSE x, a)
           below(r) == clamp(Wrap(r.start - size))
           good == {r \in ranges : is_free(below(r), size, ranges)}
           last == {r \in good : \A q \in good \ {r} : Before(q, r)}
           found == FindReverse(a, size, ranges, Max)
           all == Candidates(a, size, 0, Max)
<1> SUFFICES /\ all = {} => found = NONE
             /\ \A b \in all : found \in all /\ b <= found
  BY Zenon
<1> USE RangeOpsAssumption, RangeAssumption DEF Cell
<1>0. Max \in Nat /\ Max < AddrMod /\ AddrMod \in Nat
  OBVIOUS
<1>1. top = Max - size /\ top \in Nat
  BY DEF Wrap
<1>2. ASSUME NEW r \in ranges
      PROVE  /\ r.start \in Nat /\ r.size \in Nat /\ 0 < r.size
             /\ r.start + r.size < AddrMod
  BY Zenon DEF ProperList, Proper
<1>3. ASSUME NEW x \in Nat
      PROVE  /\ clamp(x) \in Nat /\ clamp(x) % a = 0
             /\ clamp(x) <= x /\ clamp(x) <= top
             /\ \A b \in Nat : b % a = 0 /\ b <= x /\ b <= top => b <= clamp(x)
  <2> DEFINE y == IF x > top THEN top ELSE x
  <2>1. y \in Nat /\ y <= top /\ y <= x /\ (y = top \/ y = x)
    BY <1>1
  <2>2. clamp(x) = AlignDown(y, a)
    BY Zenon
  <2> HIDE DEF y, clamp
  <2>3. /\ clamp(x) \in Nat /\ clamp(x) % a = 0 /\ clamp(x) <= y
        /\ \A b \in Nat : b % a = 0 /\ b <= y => b <= clamp(x)
    BY <2>1, <2>2, AlignDownIs
  <2> HIDE DEF top
  <2> QED BY <1>1, <2>1, <2>3
<1>4. ASSUME NEW b \in Nat, b <= top, b % a = 0
      PROVE  b \in all <=> is_free(b, size, ranges)
  <2>1. b + size < AddrMod /\ b \in 0 .. Max - size
    BY <1>0, <1>1, <1>4
  <2> QED BY <1>4, <2>1, IsFreeApart, Zenon DEF Candidates
<1>5. ASSUME NEW b \in all
      PROVE  /\ b \in Nat /\ b <= top /\ b % a = 0 /\ is_free(b, size, ranges)
             /\ \A r \in ranges : r.start + r.size <= b \/ b + size <= r.start
  <2>1. b \in Nat /\ b <= top /\ b % a = 0
    BY <1>0, <1>1 DEF Candidates
  <2>2. \A r \in ranges : Apart(r, Entry(b, size))
    BY Zenon DEF Candidates
  <2>3. \A r \in ranges : r.start + r.size <= b \/ b + size <= r.start
    BY <2>2, Zenon DEF Apart, Entry
  <2> QED BY <1>4, <2>1, <2>3, Zenon
<1> HIDE DEF top, clamp, all
<1>6. ASSUME NEW r \in ranges
      PROVE  below(r) \in Nat /\ below(r) % a = 0 /\ below(r) <= top
  <2>1. Wrap(r.start - size) \in Nat
    BY <1>2 DEF Wrap
  <2> QED BY <1>3, <2>1, Zenon
<1>7. found = IF is_free(clamp(top), size, ranges) THEN clamp(top)
              ELSE IF last = {} THEN NONE ELSE below(CHOOSE r \in last : TRUE)
  BY Zenon DEF FindReverse, top, clamp
<1>8. CASE is_free(clamp(top), size, ranges)
  <2>1. found = clamp(top) /\ clamp(top) \in all
    BY <1>1, <1>3, <1>4, <1>7, <1>8, Zenon
  <2>2. \A b \in all : b <= clamp(top)
    BY <1>1, <1>3, <1>5, Zenon
  <2> QED BY <2>1, <2>2, Zenon
<1>9. CASE ~is_free(clamp(top), size, ranges)
  <2>1. ASSUME NEW r \in good
        PROVE  size <= r.start /\ below(r) = clamp(r.start - size) /\ below(r) \in all
    <3>1. size <= r.start
      <4>1. SUFFICES ASSUME r.start < size PROVE below(r) = clamp(top)
        BY <1>2, <1>9
      <4>2. Wrap(r.start - size) \in Nat /\ Wrap(r.start - size) > top
        BY <1>0, <1>1, <1>2, <4>1 DEF Wrap
      <4> QED BY <1>1, <4>2, Zenon DEF clamp
    <3>2. Wrap(r.start - size) = r.start - size
      BY <1>2, <3>1 DEF Wrap
    <3> QED BY <1>4, <1>6, <3>1, <3>2, Zenon
  <2>2. ASSUME last # {} PROVE found \in all /\ found # NONE
    <3> DEFINE pick == CHOOSE r \in last : TRUE
    <3>1. pick \in good /\ found = below(pick)
      BY <1>7, <1>9, <2>2, Zenon
    <3>2. found \in all
      BY <2>1, <3>1, Zenon
    <3> QED BY <1>0, <1>1, <1>5, <3>2 DEF NONE
  <2>3. ASSUME NEW b \in all PROVE last # {} /\ b <= found
    <3> DEFINE R == {r \in ranges : b + size <= r.start}
    <3>1. b < clamp(top)
      BY <1>1, <1>3, <1>5, <1>9
    <3>2. PICK r \in ranges : ~Apart(r, Entry(clamp(top), size))
      <4>1. clamp(top) \in Nat /\ clamp(top) + size < AddrMod
        BY <1>0, <1>1, <1>3
      <4> QED BY <1>9, <4>1, IsFreeApart, Zenon
    <3>3. r \in R
      <4>1. r.start + r.size > clamp(top)
        BY <1>1, <1>2, <1>3, <3>2 DEF Apart, Entry
      <4> QED BY <1>1, <1>2, <1>3, <1>5, <3>1, <4>1
    <3>4. PICK lo \in R : \A q \in R : lo.start <= q.start
      <4> DEFINE Ends == {q.start : q \in R}
      <4>1. Ends \in SUBSET Nat /\ Ends # {}
        BY <1>2, <3>3, Zenon
      <4>2. PICK x \in Ends : \A y \in Ends : x <= y
        BY <4>1, LeastElement, Zenon
      <4>3. PICK q \in R : x = q.start
        BY <4>2, Zenon
      <4> QED BY <4>2, <4>3, ZenonT(60)
    <3> DEFINE x == clamp(lo.start - size)
    <3>5. /\ x \in Nat /\ x % a = 0 /\ x <= top /\ x + size <= lo.start /\ b <= x
          /\ lo.start - size \in Nat
      BY <1>2, <1>3, <1>5
    <3>6. below(lo) = x
      BY <1>2, <3>5 DEF Wrap
    <3>7. \A q \in ranges : Apart(q, Entry(x, size))
      <4> SUFFICES ASSUME NEW q \in ranges PROVE q.start + q.size <= x \/ x + size <= q.start
        BY Zenon DEF Apart, Entry
      <4>1. CASE q \in R
        BY <1>2, <3>4, <3>5, <4>1
      <4>2. CASE q \notin R
        BY <1>2, <1>5, <3>5, <4>2
      <4> QED BY <4>1, <4>2, Zenon
    <3>8. lo \in good
      <4>1. x + size < AddrMod
        BY <1>0, <1>1, <3>5
      <4> QED BY <3>5, <3>6, <3>7, <4>1, IsFreeApart, Zenon
    <3>9. PICK hi \in good : \A q \in good : q.start <= hi.start
      <4> DEFINE Ends == {q.start : q \in good}
      <4>1. Ends \in SUBSET Nat /\ Ends # {} /\ \A y \in Ends : y <= AddrMod
        BY <1>0, <1>2, <3>8
      <4>2. PICK y \in Ends : \A z \in Ends : z <= y
        BY <1>0, <4>1, GreatestElement, Zenon
      <4>3. PICK q \in good : y = q.start
        BY <4>2, Zenon
      <4> QED BY <4>2, <4>3, ZenonT(60)
    <3>10. hi \in last
      <4> SUFFICES ASSUME NEW q \in good, q # hi PROVE q.start < hi.start
        BY Zenon DEF Before
      <4>1. Apart(q, hi)
        BY Zenon DEF ProperList
      <4> QED BY <1>2, <3>9, <4>1 DEF Apart
    <3>11. \A q \in last : q = hi
      BY <1>2, <3>9, <3>10 DEF Before
    <3>12. found = below(hi)
      BY <1>7, <1>9, <3>10, <3>11, Zenon
    <3>13. lo.start - size <= hi.start - size /\ hi.start - size \in Nat /\ below(hi) = clamp(hi.start - size)
      BY <1>2, <2>1, <3>5, <3>8, <3>9
    <3>14. x <= clamp(hi.start - size)
      BY <1>1, <1>3, <3>5, <3>13
    <3> QED BY <1>3, <1>5, <3>5, <3>10, <3>12, <3>13, <3>14
  <2>4. all = {} => found = NONE
    BY <1>7, <1>9, <2>2, Zenon
  <2> QED BY <2>2, <2>3, <2>4, Zenon
<1> QED BY <1>8, <1>9, Zenon

\* What has room above it has room above everything lower.
LEMMA RoomBelow ==
  ASSUME NEW e \in Nat, NEW d \in Nat, d <= e, NEW a \in Nat \ {0}, NEW size \in Nat,
         RoomFor(e, a, size)
  PROVE  RoomFor(d, a, size)
<1>1. AlignDown(d + (a - 1), a) <= AlignDown(e + (a - 1), a)
  <2>1. d + (a - 1) \in Nat /\ e + (a - 1) \in Nat /\ d + (a - 1) <= e + (a - 1)
    OBVIOUS
  <2>2. /\ AlignDown(d + (a - 1), a) \in Nat /\ AlignDown(d + (a - 1), a) % a = 0
        /\ AlignDown(d + (a - 1), a) <= d + (a - 1)
    BY <2>1, AlignDownIs, Zenon
  <2>3. AlignDown(d + (a - 1), a) <= e + (a - 1)
    BY <2>1, <2>2
  <2> QED BY <2>1, <2>2, <2>3, AlignDownIs, Zenon
<1>2. AlignDown(d + (a - 1), a) \in Nat /\ AlignDown(e + (a - 1), a) \in Nat
  <2>1. d + (a - 1) \in Nat /\ e + (a - 1) \in Nat
    OBVIOUS
  <2> QED BY <2>1, AlignDownIs, Zenon
<1> QED BY <1>1, <1>2, RangeOpsAssumption DEF RoomFor

\* Where the bottom-up search looks for an area above x.
Raise(x, a) == LET y == AlignUpTo(x, a) IN IF y < Min THEN Min ELSE y

\* It is the lowest aligned address above x in the searched area.
LEMMA RaiseIs ==
  ASSUME NEW a \in Nat \ {0}, NEW size \in Nat, 0 < size, BottomFor(a),
         RoomFor(Min, a, size),
         NEW e \in Nat, RoomFor(e, a, size), 0 < e \/ e = Min
  PROVE  /\ Raise(e, a) \in Nat /\ Raise(e, a) % a = 0
         /\ e <= Raise(e, a) /\ Min <= Raise(e, a) /\ Raise(e, a) + size <= AddrMod
         /\ \A b \in Nat : b % a = 0 /\ e <= b /\ Min <= b => Raise(e, a) <= b
<1> USE RangeOpsAssumption, RangeAssumption DEF Cell
<1>1. Min \in Nat /\ AddrMod \in Nat
  OBVIOUS
<1>2. ASSUME NEW x \in Nat, RoomFor(x, a, size)
      PROVE  /\ AlignUpTo(x, a) \in Nat /\ AlignUpTo(x, a) % a = 0
             /\ x <= AlignUpTo(x, a) /\ AlignUpTo(x, a) < x + a
             /\ AlignUpTo(x, a) + size <= AddrMod
  <2> DEFINE y == AlignDown(x + (a - 1), a)
  <2>1. Wrap(x + (a - 1)) = x + (a - 1) /\ x + (a - 1) \in Nat
    BY <1>2 DEF RoomFor, Wrap
  <2>2. AlignUpTo(x, a) = y
    BY <2>1, Zenon DEF AlignUpTo
  <2>3. y \in Nat /\ y % a = 0 /\ y <= x + (a - 1) /\ x + (a - 1) < y + a
    BY <2>1, AlignDownIs, Zenon
  <2>4. y + size <= AddrMod
    BY <1>2, Zenon DEF RoomFor
  <2> HIDE DEF y
  <2> QED BY <2>2, <2>3, <2>4
<1> DEFINE y == AlignUpTo(e, a)
<1>3. y \in Nat /\ y % a = 0 /\ e <= y /\ y < e + a /\ y + size <= AddrMod
  BY <1>2, Zenon
<1>4. Raise(e, a) = IF y < Min THEN Min ELSE y
  BY Zenon DEF Raise
<1> HIDE DEF y
<1>5. Min + size <= AddrMod
  BY <1>1, <1>2
<1>6. ASSUME NEW b \in Nat, b % a = 0, e <= b PROVE y <= b
  <2>1. y < b + a
    BY <1>3, <1>6
  <2> QED BY <1>3, <1>6, <2>1, MultipleBelow, Zenon
<1>7. CASE y < Min
  <2>1. 0 < e
    BY <1>1, <1>3, <1>7
  <2>2. ~(Min < a)
    <3>1. \A z \in Nat : z < a => z % a = z
      OBVIOUS
    <3>2. SUFFICES ASSUME Min < a PROVE FALSE
      BY Zenon
    <3>3. y < a /\ 0 < y
      BY <1>1, <1>3, <1>7, <2>1, <3>2
    <3> QED BY <1>3, <3>1, <3>3
  <2>3. Min % a = 0
    BY <2>2, Zenon DEF BottomFor
  <2> QED BY <1>1, <1>3, <1>4, <1>5, <1>7, <2>3
<1>8. CASE ~(y < Min)
  <2>1. Raise(e, a) = y /\ Min <= y
    BY <1>1, <1>3, <1>4, <1>8
  <2>2. \A b \in Nat : b % a = 0 /\ e <= b /\ Min <= b => y <= b
    BY <1>6, Zenon
  <2> QED BY <1>3, <2>1, <2>2, Zenon
<1> QED BY <1>7, <1>8, Zenon

\* The bottom-up search tries every place that can be the lowest free one: the
\* lowest is at the bottom, or just above the highest range below it.
LEMMA FindForwardLowest ==
  ASSUME ProperList(ranges), NEW size \in Nat, 0 < size, size <= Max, NEW a \in Nat \ {0},
         BottomFor(a), RoomFor(Min, a, size),
         \A r \in ranges : RoomFor(r.start + r.size, a, size)
  PROVE  LET found == FindForward(a, size, ranges, Min, Max)
             all   == Candidates(a, size, Min, Max - 1)
         IN IF all = {} THEN found = NONE
            ELSE found \in all /\ \A b \in all : b >= found
<1> DEFINE above(r) == Raise(r.start + r.size, a)
           fits(x) == x + size <= Max - 1
           low == Raise(Min, a)
           good == {r \in ranges : /\ is_free(above(r), size, ranges)
                                   /\ \A q \in ranges : Before(q, r) \/ q = r => fits(above(q))}
           first == {r \in good : \A q \in good \ {r} : Before(r, q)}
           found == FindForward(a, size, ranges, Min, Max)
           all == Candidates(a, size, Min, Max - 1)
<1> SUFFICES /\ all = {} => found = NONE
             /\ \A b \in all : found \in all /\ b >= found
  BY Zenon
<1> USE RangeOpsAssumption, RangeAssumption DEF Cell
<1>0. Max \in Nat /\ 0 < Max /\ Max < AddrMod /\ AddrMod \in Nat /\ Min \in Nat
  OBVIOUS
<1>2. ASSUME NEW r \in ranges
      PROVE  /\ r.start \in Nat /\ r.size \in Nat /\ 0 < r.size
             /\ r.start + r.size < AddrMod
             /\ Wrap(r.start + r.size) = r.start + r.size
  BY DEF ProperList, Proper, Wrap
<1>3. ASSUME NEW r \in ranges
      PROVE  /\ above(r) \in Nat /\ above(r) % a = 0
             /\ r.start + r.size <= above(r) /\ Min <= above(r) /\ above(r) + size <= AddrMod
             /\ \A b \in Nat : b % a = 0 /\ r.start + r.size <= b /\ Min <= b => above(r) <= b
  <2>1. r.start + r.size \in Nat /\ 0 < r.start + r.size
    BY <1>2
  <2> QED BY <2>1, RaiseIs, Zenon
<1>4. /\ low \in Nat /\ low % a = 0 /\ Min <= low /\ low + size <= AddrMod
      /\ \A b \in Nat : b % a = 0 /\ Min <= b => low <= b
  BY <1>0, RaiseIs, ZenonT(60)
<1>5. ASSUME NEW x \in Nat, x + size <= AddrMod
      PROVE  Last(x, size) < Wrap(Max - 1) <=> fits(x)
  BY <1>0, <1>5 DEF Last, Wrap
<1> HIDE DEF above, low, all
<1>6. found = IF ~fits(low) THEN NONE
              ELSE IF is_free(low, size, ranges) THEN low
              ELSE IF first = {} THEN NONE ELSE above(CHOOSE r \in first : TRUE)
  <2> DEFINE fits0(x) == Last(x, size) < Wrap(Max - 1)
             above0(r) == Raise(Wrap(r.start + r.size), a)
             good0 == {r \in ranges :
                        /\ is_free(above0(r), size, ranges)
                        /\ \A q \in ranges : Before(q, r) \/ q = r => fits0(above0(q))}
             first0 == {r \in good0 : \A q \in good0 \ {r} : Before(r, q)}
  <2>1. found = IF ~fits0(low) THEN NONE
                ELSE IF is_free(low, size, ranges) THEN low
                ELSE IF first0 = {} THEN NONE ELSE above0(CHOOSE r \in first0 : TRUE)
    BY Zenon DEF FindForward, Raise, low
  <2>2. \A r \in ranges : above0(r) = above(r) /\ (fits0(above0(r)) <=> fits(above(r)))
    BY <1>2, <1>3, <1>5, Zenon DEF above
  <2>3. good0 = good
    BY <2>2, Zenon
  <2>4. first0 = first /\ (fits0(low) <=> fits(low))
    BY <1>4, <1>5, <2>3, Zenon
  <2>5. first # {} => above0(CHOOSE r \in first : TRUE) = above(CHOOSE r \in first : TRUE)
    BY <2>2, Zenon
  <2> HIDE DEF fits0, first0, first, fits, above0, good0, good
  <2> QED BY <2>1, <2>4, <2>5, Zenon
<1>7. ASSUME NEW b \in Nat, fits(b), Min <= b, b % a = 0
      PROVE  b \in all <=> is_free(b, size, ranges)
  <2>1. b + size < AddrMod /\ b \in Min .. (Max - 1) - size
    BY <1>0, <1>7
  <2> QED BY <1>7, <2>1, IsFreeApart, Zenon DEF Candidates, all
<1>8. ASSUME NEW b \in all
      PROVE  /\ b \in Nat /\ fits(b) /\ Min <= b /\ b % a = 0
             /\ \A r \in ranges : r.start + r.size <= b \/ b + size <= r.start
  <2>1. b \in Min .. (Max - 1) - size /\ b % a = 0
    BY Zenon DEF Candidates, all
  <2>2. \A r \in ranges : Apart(r, Entry(b, size))
    BY Zenon DEF Candidates, all
  <2>3. \A r \in ranges : r.start + r.size <= b \/ b + size <= r.start
    BY <2>2, Zenon DEF Apart, Entry
  <2> QED BY <1>0, <2>1, <2>3
<1>9. ASSUME NEW r \in good PROVE above(r) \in all
  BY <1>3, <1>7, Zenon
<1>10. ASSUME first # {}, fits(low), ~is_free(low, size, ranges) PROVE found \in all
  <2> DEFINE pick == CHOOSE r \in first : TRUE
  <2>1. pick \in good /\ found = above(pick)
    BY <1>6, <1>10, Zenon
  <2> QED BY <1>9, <2>1, Zenon
<1>11. ASSUME fits(low), is_free(low, size, ranges)
       PROVE  found = low /\ found \in all
  BY <1>4, <1>6, <1>7, <1>11, Zenon
<1>12. all = {} => found = NONE
  BY <1>6, <1>10, <1>11, Zenon
<1>13. ASSUME NEW b \in all PROVE found \in all /\ b >= found
  <2>1. fits(low) /\ low <= b
    BY <1>0, <1>4, <1>8
  <2>2. CASE is_free(low, size, ranges)
    BY <1>4, <1>8, <1>11, <2>1, <2>2, ZenonT(60)
  <2>3. CASE ~is_free(low, size, ranges)
    <3> DEFINE R == {r \in ranges : r.start + r.size <= b}
    <3>1. PICK r \in ranges : ~Apart(r, Entry(low, size))
      <4>1. low + size < AddrMod
        BY <1>0, <1>4, <2>1
      <4> QED BY <1>4, <2>3, <4>1, IsFreeApart, Zenon
    <3>2. r \in R
      <4>1. r.start < low + size
        BY <1>2, <1>4, <3>1 DEF Apart, Entry
      <4> QED BY <1>2, <1>4, <1>8, <2>1, <4>1
    <3>3. PICK hi \in R : \A q \in R : q.start + q.size <= hi.start + hi.size
      <4> DEFINE Ends == {q.start + q.size : q \in R}
      <4>1. Ends \in SUBSET Nat /\ Ends # {} /\ \A y \in Ends : y <= AddrMod
        BY <1>0, <1>2, <3>2
      <4>2. PICK y \in Ends : \A z \in Ends : z <= y
        BY <1>0, <4>1, GreatestElement, Zenon
      <4>3. PICK q \in R : y = q.start + q.size
        BY <4>2, Zenon
      <4> QED BY <4>2, <4>3, Zenon
    <3>4. above(hi) \in Nat /\ above(hi) <= b /\ fits(above(hi))
      BY <1>0, <1>3, <1>8
    <3>5. \A q \in ranges : Apart(q, Entry(above(hi), size))
      <4> SUFFICES ASSUME NEW q \in ranges
                   PROVE  q.start + q.size <= above(hi) \/ above(hi) + size <= q.start
        BY ZenonT(60) DEF Apart, Entry
      <4>1. CASE q \in R
        BY <1>2, <1>3, <3>3, <4>1
      <4>2. CASE q \notin R
        BY <1>2, <1>8, <3>4, <4>2
      <4> QED BY <4>1, <4>2, Zenon
    <3>6. ASSUME NEW p \in ranges, NEW q \in ranges, Before(q, p) \/ q = p
          PROVE  q.start + q.size <= p.start + p.size
      <4>1. q # p => Apart(q, p)
        BY Zenon DEF ProperList
      <4> QED BY <1>2, <3>6, <4>1 DEF Before, Apart
    <3>7. ASSUME NEW p \in ranges, NEW q \in ranges, Before(q, p) \/ q = p
          PROVE  above(q) <= above(p)
      <4>1. q.start + q.size <= p.start + p.size
        BY <3>6, <3>7, Zenon
      <4> QED BY <1>2, <1>3, <4>1
    <3>8. hi \in good
      <4>1. is_free(above(hi), size, ranges)
        <5>1. above(hi) + size < AddrMod
          BY <1>0, <3>4
        <5> QED BY <3>4, <3>5, <5>1, IsFreeApart, Zenon
      <4>2. ASSUME NEW q \in ranges, Before(q, hi) \/ q = hi PROVE fits(above(q))
        BY <1>0, <1>3, <3>4, <3>7, <4>2
      <4> QED BY <4>1, <4>2, Zenon
    <3>9. PICK lo \in good : \A q \in good : lo.start <= q.start
      <4> DEFINE Ends == {q.start : q \in good}
      <4>1. Ends \in SUBSET Nat /\ Ends # {}
        BY <1>2, <3>8
      <4>2. PICK y \in Ends : \A z \in Ends : y <= z
        BY <4>1, LeastElement, Zenon
      <4>3. PICK q \in good : y = q.start
        BY <4>2, ZenonT(60)
      <4> QED BY <4>2, <4>3, ZenonT(60)
    <3>10. ASSUME NEW q \in good, q # lo PROVE Before(lo, q)
      <4>1. Apart(q, lo)
        BY <3>10, ZenonT(60) DEF ProperList
      <4> QED BY <1>2, <3>9, <4>1 DEF Apart, Before
    <3>11. lo \in first /\ \A q \in first : q = lo
      BY <1>2, <3>10 DEF Before
    <3>12. found = above(lo)
      BY <1>6, <2>1, <2>3, <3>11, Zenon
    <3>13. above(lo) <= above(hi)
      BY <3>7, <3>8, <3>10, Zenon
    <3> QED BY <1>3, <1>8, <1>9, <3>4, <3>12, <3>13
  <2> QED BY <2>2, <2>3, Zenon
<1> QED BY <1>12, <1>13, Zenon

\* The alignment find_area works with is a positive number.
LEMMA RoundAlignPositive ==
  ASSUME CleanClients, NEW a \in Aligns
  PROVE  RoundAlign(a) \in Nat \ {0}
<1> DEFINE Ends == {p \in Pow2 : p >= a /\ p >= PageSize}
<1>1. Ends # {} /\ Ends \subseteq Nat
  BY RangeOpsAssumption, Zenon DEF CleanClients
<1>2. PICK x \in Ends : \A y \in Ends : ~(<<y, x>> \in OpToRel(<, Nat))
  BY <1>1, NatLessThanWellFounded, WFMin, Zenon
<1>3. \A y \in Ends : ~(y < x)
  BY <1>1, <1>2, Zenon DEF OpToRel
<1>4. \E p \in Pow2 : /\ p >= a /\ p >= PageSize
                      /\ \A q \in Pow2 : q >= a /\ q >= PageSize => p <= q
  BY <1>1, <1>3
<1>5. RoundAlign(a) \in Pow2
  BY <1>4, Zenon DEF RoundAlign
<1> QED BY <1>5, RangeOpsAssumption, Zenon

\* Releasing a whole claim removes its entry and nothing else.
LEMMA RemoveWhole ==
  ASSUME NEW rs, ProperList(rs), NEW c \in rs
  PROVE  remove_range(c.start, c.size, rs) = rs \ {c}
<1> USE RangeOpsAssumption
<1>0. Proper(c)
  BY Zenon DEF ProperList
<1>1. ~is_free(c.start, c.size, rs)
  <2>1. ~Apart(c, Entry(c.start, c.size))
    BY <1>0 DEF Proper, Apart, Entry
  <2> QED BY <2>1, <1>0, IsFreeApart, Zenon DEF Proper
<1>2. ASSUME NEW r \in rs
      PROVE  ~(c.start > r.start /\ c.start < Last(r.start, r.size))
  <2>1. Proper(r) /\ (r # c => Apart(r, c))
    BY Zenon DEF ProperList
  <2> QED BY <1>0, <2>1 DEF Proper, Apart, Last, Wrap
<1>3. SplitAt(c.start, c.size, rs) = rs
  BY <1>2, Zenon DEF SplitAt
<1>4. ASSUME NEW r \in rs
      PROVE  (/\ c.start >= r.start
              /\ Wrap(c.start + c.size) <= Wrap(r.start + r.size)) <=> r = c
  <2>1. Proper(r) /\ (r # c => Apart(r, c))
    BY Zenon DEF ProperList
  <2>2. Wrap(c.start + c.size) = c.start + c.size /\ Wrap(r.start + r.size) = r.start + r.size
    BY <1>0, <2>1 DEF Proper, Wrap
  <2> QED BY <1>0, <2>1, <2>2 DEF Proper, Apart
<1>5. DropFirst(c.start, c.size, rs) = rs \ {c}
  <2>1. {r \in rs : /\ c.start >= r.start
                    /\ Wrap(c.start + c.size) <= Wrap(r.start + r.size)} = {c}
    BY <1>4, Zenon
  <2> QED BY <2>1, Zenon DEF DropFirst
<1> QED BY <1>1, <1>3, <1>5, Zenon DEF remove_range

\* Releasing the tail of a claim shortens its entry and changes nothing else.
LEMMA RemoveTail ==
  ASSUME NEW rs, ProperList(rs), NEW c \in rs, NEW ea \in Nat, NEW size \in Nat,
         c.start < ea, 1 < size, ea + size = c.start + c.size
  PROVE  remove_range(ea, size, rs) = (rs \ {c}) \cup {Entry(c.start, ea - c.start)}
<1> DEFINE head == Entry(c.start, ea - c.start)
           tail == Entry(ea, size)
           split == (rs \ {c}) \cup {head, tail}
<1> USE RangeOpsAssumption
<1>0. Proper(c)
  BY Zenon DEF ProperList
<1>1. ~is_free(ea, size, rs)
  <2>1. ~Apart(c, Entry(ea, size)) /\ ea + size < AddrMod
    BY <1>0 DEF Proper, Apart, Entry
  <2> QED BY <2>1, IsFreeApart
<1>2. ASSUME NEW r \in rs
      PROVE  (ea > r.start /\ ea < Last(r.start, r.size)) <=> r = c
  <2>1. Proper(r) /\ (r # c => Apart(r, c))
    BY ZenonT(60) DEF ProperList
  <2>2. Last(r.start, r.size) = r.start + r.size - 1
    BY <2>1 DEF Proper, Last, Wrap
  <2> QED BY <1>0, <2>1, <2>2 DEF Proper, Apart
<1>3. SplitAt(ea, size, rs) = split
  <2>1. {r \in rs : ea > r.start /\ ea < Last(r.start, r.size)} = {c}
    BY <1>2, Zenon
  <2>2. Wrap(c.size - size) = ea - c.start
    BY <1>0 DEF Proper, Wrap
  <2> QED BY <2>1, <2>2, Zenon DEF SplitAt, Entry
<1>4. ASSUME NEW r \in split
      PROVE  (ea >= r.start /\ Wrap(ea + size) <= Wrap(r.start + r.size)) <=> r = tail
  <2>1. Wrap(ea + size) = ea + size
    BY <1>0 DEF Proper, Wrap
  <2>2. CASE r \in rs \ {c}
    <3>1. Proper(r) /\ Apart(r, c)
      BY <2>2, Zenon DEF ProperList
    <3>2. Wrap(r.start + r.size) = r.start + r.size
      BY <3>1 DEF Proper, Wrap
    <3>3. r.start # ea
      BY <3>1, <1>0 DEF Proper, Apart
    <3> QED BY <1>0, <2>1, <3>1, <3>2, <3>3 DEF Proper, Apart, Entry
  <2>3. CASE r = head
    <3>1. r.start + r.size = ea /\ Wrap(ea) = ea
      BY <2>3, <1>0 DEF Proper, Entry, Wrap
    <3>2. r.start # ea
      BY <2>3, <1>0 DEF Proper, Entry
    <3> QED BY <2>1, <3>1, <3>2 DEF Entry
  <2>4. CASE r = tail
    <3>1. r.start = ea /\ r.size = size
      BY <2>4, Zenon DEF Entry
    <3> QED BY <2>1, <2>4, <3>1
  <2> QED BY <2>2, <2>3, <2>4, Zenon
<1>5. DropFirst(ea, size, split) = split \ {tail}
  <2>1. {r \in split : ea >= r.start /\ Wrap(ea + size) <= Wrap(r.start + r.size)} = {tail}
    BY <1>4, Zenon
  <2> QED BY <2>1, Zenon DEF DropFirst
<1>6. tail \notin rs \ {c} /\ tail # head
  <2>1. ASSUME NEW r \in rs \ {c} PROVE r # tail
    <3>1. Proper(r) /\ Apart(r, c)
      BY Zenon DEF ProperList
    <3> QED BY <1>0, <3>1 DEF Proper, Apart, Entry
  <2> QED BY <2>1, <1>0 DEF Entry, Proper
<1> QED BY <1>1, <1>3, <1>5, <1>6, Zenon DEF remove_range

\* The remainder of a shortened claim is well formed and apart from the rest.
LEMMA ShortenProper ==
  ASSUME NEW rs, ProperList(rs), NEW c \in rs, NEW ea \in Nat,
         c.start < ea, ea < c.start + c.size
  PROVE  ProperList((rs \ {c}) \cup {Entry(c.start, ea - c.start)})
<1> DEFINE head == Entry(c.start, ea - c.start)
<1>0. Proper(c)
  BY Zenon DEF ProperList
<1>1. Proper(head)
  BY <1>0, RangeOpsAssumption DEF Proper, Entry
<1>2. ASSUME NEW r \in rs \ {c} PROVE Apart(r, head) /\ Apart(head, r)
  <2>1. Proper(r) /\ Apart(r, c)
    BY Zenon DEF ProperList
  <2> QED BY <1>0, <2>1 DEF Proper, Apart, Entry
<1> QED BY <1>1, <1>2, Zenon DEF ProperList

\* Both searches are complete on the lists of the invariant.
LEMMA SearchesComplete ==
  ASSUME CleanClients, ListInv
  PROVE  SearchFindsHighest /\ (RoomAbove => SearchFindsLowest)
<1>1. ASSUME NEW size \in Sizes PROVE size \in Nat /\ 0 < size /\ size <= Max
  BY RangeAssumption, RangeOpsAssumption DEF CleanClients, Cell
<1>2. SearchFindsHighest
  <2> SUFFICES ASSUME NEW size \in Sizes, NEW align \in Aligns
               PROVE  LET found == find_area(align, size, ranges, Min, Max, TRUE)
                          all   == Candidates(RoundAlign(align), size, 0, Max)
                      IN IF all = {} THEN found = NONE
                         ELSE found \in all /\ \A b \in all : b <= found
    BY Zenon DEF SearchFindsHighest
  <2>1. find_area(align, size, ranges, Min, Max, TRUE)
          = FindReverse(RoundAlign(align), size, ranges, Max)
    BY Zenon DEF find_area
  <2>2. RoundAlign(align) \in Nat \ {0} /\ ProperList(ranges)
    BY RoundAlignPositive, Zenon DEF ListInv
  <2> QED BY <1>1, <2>1, <2>2, FindReverseHighest, Zenon
<1>3. ASSUME RoomAbove PROVE SearchFindsLowest
  <2> SUFFICES ASSUME NEW size \in Sizes, NEW align \in Aligns
               PROVE  LET found == find_area(align, size, ranges, Min, Max, FALSE)
                          all   == Candidates(RoundAlign(align), size, Min, Max - 1)
                      IN IF all = {} THEN found = NONE
                         ELSE found \in all /\ \A b \in all : b >= found
    BY Zenon DEF SearchFindsLowest
  <2> DEFINE a == RoundAlign(align)
  <2>1. find_area(align, size, ranges, Min, Max, FALSE) = FindForward(a, size, ranges, Min, Max)
    BY Zenon DEF find_area
  <2>2. a \in Nat \ {0} /\ ProperList(ranges)
    BY RoundAlignPositive, Zenon DEF ListInv
  <2>3. BottomFor(a) /\ RoomFor(Max, a, size) /\ Min <= Max
    BY <1>3, Zenon DEF RoomAbove
  <2>4. RoomFor(Min, a, size)
    BY <1>1, <2>2, <2>3, RoomBelow, RangeAssumption, RangeOpsAssumption DEF Cell
  <2>5. \A r \in ranges : RoomFor(r.start + r.size, a, size)
    BY <1>3, Zenon DEF ListInv, RoomAboveEnd
  <2> HIDE DEF a
  <2> QED BY <1>1, <2>1, <2>2, <2>3, <2>4, <2>5, FindForwardLowest, Zenon DEF a
<1> QED BY <1>2, <1>3, Zenon

\* find_area returns -1 or a free area inside the searched one.
LEMMA FoundArea ==
  ASSUME CleanClients, ListInv, NEW size \in Sizes, NEW align \in Aligns,
         find_area(align, size, ranges, Min, Max, Reverse) # NONE
  PROVE  LET base == find_area(align, size, ranges, Min, Max, Reverse)
         IN is_free(base, size, ranges) /\ base \in Nat /\ base + size <= Max
<1> DEFINE base == find_area(align, size, ranges, Min, Max, Reverse)
           a == RoundAlign(align)
<1>1. /\ size \in Nat /\ 0 < size /\ Max \in Nat /\ Max < AddrMod /\ Min \in Nat
      /\ AddrMod \in Nat
  BY RangeAssumption, RangeOpsAssumption DEF CleanClients, Cell
<1>2. base \in Candidates(a, size, 0, Max) \/ base \in Candidates(a, size, Min, Max - 1)
  <2>1. CASE Reverse = TRUE
    BY <2>1, SearchesComplete, Zenon DEF SearchFindsHighest
  <2>2. CASE Reverse = FALSE
    BY <2>2, SearchesComplete, Zenon DEF SearchFindsLowest, CleanClients
  <2> QED BY <2>1, <2>2, RangeAssumption, Zenon
<1> HIDE DEF base
<1>3. base \in Nat /\ base + size <= Max /\ \A r \in ranges : Apart(r, Entry(base, size))
  BY <1>1, <1>2 DEF Candidates
<1>4. is_free(base, size, ranges)
  <2>1. base + size < AddrMod
    BY <1>1, <1>3
  <2> QED BY <1>1, <1>3, <2>1, IsFreeApart, Zenon DEF ListInv
<1> QED BY <1>3, <1>4, Zenon DEF base

\* With whole and tail releases only, the list and the clients agree.
THEOREM ListInvariant ==
  ASSUME CleanClients
  PROVE  RangeSpec => []ListInv
<1>1. RangeInit => ListInv
  BY Zenon DEF RangeInit, ListInv, ProperList
<1>2. ListInv /\ [RangeNext]_rvars => ListInv'
  <2> SUFFICES ASSUME ListInv, [RangeNext]_rvars PROVE ListInv'
    BY Zenon
  <2>1. ASSUME NEW p \in FixedClaims, ClaimAt(p[1], p[2]) PROVE ListInv'
    <3> DEFINE ea == p[1]
               size == p[2]
    <3>1. ea \in Nat /\ size \in Nat /\ 0 < size /\ ea + size < AddrMod
      BY RangeAssumption, RangeOpsAssumption DEF CleanClients, Cell
    <3>2. /\ is_free(ea, size, ranges)
          /\ ranges' = add_entry(ea, size, ranges)
          /\ claims' = claims \cup {Entry(ea, size)}
      BY <2>1, Zenon DEF ClaimAt
    <3> HIDE DEF ea, size
    <3>3. /\ add_entry(ea, size, ranges) = ranges \cup {Entry(ea, size)}
          /\ ProperList(ranges \cup {Entry(ea, size)})
      BY <3>1, <3>2, AddProper DEF ListInv
    <3>4. ASSUME RoomAbove PROVE RoomAboveEnd(Entry(ea, size))
      BY <3>4, Zenon DEF RoomAbove, RoomAboveEnd, Entry, ea, size
    <3> QED BY <3>2, <3>3, <3>4, Zenon DEF ListInv
  <2>2. ASSUME NEW size \in Sizes, NEW align \in Aligns, ClaimAligned(size, align)
        PROVE  ListInv'
    <3> DEFINE base == find_area(align, size, ranges, Min, Max, Reverse)
    <3>1. size \in Nat /\ 0 < size /\ size <= Max /\ Max \in Nat /\ Max < AddrMod
      BY RangeAssumption, RangeOpsAssumption DEF CleanClients, Cell
    <3>3. base # NONE /\ ranges' = add_entry(base, size, ranges)
          /\ claims' = claims \cup {Entry(base, size)}
      BY <2>2, Zenon DEF ClaimAligned
    <3>4. is_free(base, size, ranges) /\ base \in Nat /\ base + size <= Max
      BY <3>3, FoundArea, Zenon
    <3> HIDE DEF base
    <3>5. base + size < AddrMod
      BY <3>1, <3>4, RangeOpsAssumption
    <3>6. /\ add_entry(base, size, ranges) = ranges \cup {Entry(base, size)}
          /\ ProperList(ranges \cup {Entry(base, size)})
      BY <3>1, <3>4, <3>5, AddProper DEF ListInv
    <3>7. ASSUME RoomAbove PROVE RoomAboveEnd(Entry(base, size))
      <4>1. Entry(base, size).start + Entry(base, size).size = base + size
        BY Zenon DEF Entry
      <4> SUFFICES ASSUME NEW al \in Aligns, NEW s \in Sizes
                   PROVE  RoomFor(base + size, RoundAlign(al), s)
        BY <4>1, Zenon DEF RoomAboveEnd
      <4>2. RoomFor(Max, RoundAlign(al), s) /\ RoundAlign(al) \in Nat \ {0} /\ s \in Nat
        BY <3>7, RoundAlignPositive, RangeAssumption, RangeOpsAssumption DEF RoomAbove, Cell
      <4> QED BY <3>1, <3>4, <4>2, RoomBelow
    <3> QED BY <3>3, <3>6, <3>7, Zenon DEF ListInv
  <2>3. ASSUME NEW c \in claims, NEW p \in Releasable(c), Release(c, p[1], p[2])
        PROVE  ListInv'
    <3> DEFINE ea == p[1]
               size == p[2]
    <3>1. c \in ranges /\ Proper(c)
      BY Zenon DEF ListInv, ProperList
    <3>2. /\ ea \in Nat /\ size \in Nat /\ 0 < size
          /\ \/ ea = c.start /\ ea + size = c.start + c.size
             \/ ea > c.start /\ ea + size = c.start + c.size /\ size > 1
      BY <3>1 DEF Releasable, CleanClients, Proper
    <3>3. /\ ranges' = remove_range(ea, size, ranges)
          /\ claims' = (claims \ {c}) \cup Remainder(c, ea, size)
      BY <2>3, Zenon DEF Release
    <3> HIDE DEF ea, size
    <3>4. CASE ea = c.start
      <4>1. size = c.size
        BY <3>1, <3>2, <3>4 DEF Proper
      <4>2. Remainder(c, ea, size) = {}
        BY <3>1, <3>2, <3>4, <4>1 DEF Remainder, Entry, Proper
      <4>3. ranges' = ranges \ {c}
        BY <3>1, <3>3, <3>4, <4>1, RemoveWhole, Zenon DEF ListInv
      <4> QED BY <3>3, <4>2, <4>3, Zenon DEF ListInv, ProperList
    <3>5. CASE ea > c.start
      <4>1. Remainder(c, ea, size) = {Entry(c.start, ea - c.start)}
        BY <3>1, <3>2, <3>5 DEF Remainder, Entry, Proper
      <4>2. ranges' = (ranges \ {c}) \cup {Entry(c.start, ea - c.start)}
        BY <3>1, <3>2, <3>3, <3>5, RemoveTail DEF ListInv, Proper
      <4>3. ProperList((ranges \ {c}) \cup {Entry(c.start, ea - c.start)})
        BY <3>1, <3>2, <3>5, ShortenProper DEF ListInv, Proper
      <4>4. ASSUME RoomAbove PROVE RoomAboveEnd(Entry(c.start, ea - c.start))
        <5>1. Entry(c.start, ea - c.start).start + Entry(c.start, ea - c.start).size = ea
          BY <3>1, <3>2 DEF Entry, Proper
        <5> SUFFICES ASSUME NEW al \in Aligns, NEW s \in Sizes
                     PROVE  RoomFor(ea, RoundAlign(al), s)
          BY <5>1, Zenon DEF RoomAboveEnd
        <5>2. /\ RoomFor(c.start + c.size, RoundAlign(al), s)
              /\ RoundAlign(al) \in Nat \ {0} /\ s \in Nat
          BY <3>1, <4>4, RoundAlignPositive, RangeAssumption, RangeOpsAssumption
             DEF ListInv, RoomAboveEnd, Cell
        <5> QED BY <3>1, <3>2, <5>2, RoomBelow DEF Proper
      <4> QED BY <3>3, <4>1, <4>2, <4>3, <4>4, Zenon DEF ListInv
    <3> QED BY <3>1, <3>2, <3>4, <3>5, Zenon DEF Proper
  <2>4. CASE UNCHANGED rvars
    BY <2>4, Zenon DEF rvars, ListInv
  <2> QED BY <2>1, <2>2, <2>3, <2>4, Zenon DEF RangeNext
<1> QED BY <1>1, <1>2, PTL DEF RangeSpec

\* The list records exactly what the clients hold.
THEOREM ListRecordsClaims ==
  ASSUME CleanClients
  PROVE  RangeSpec => []ListMatchesClaims
<1>1. ListInv => ListMatchesClaims
  BY Zenon DEF ListInv, ListMatchesClaims
<1> QED BY <1>1, ListInvariant, PTL

\* No address is held by two clients.
THEOREM ClaimsNeverOverlap ==
  ASSUME CleanClients
  PROVE  RangeSpec => []ClaimsDisjoint
<1>1. ListInv => ClaimsDisjoint
  BY Zenon DEF ListInv, ProperList, ClaimsDisjoint
<1> QED BY <1>1, ListInvariant, PTL

\* Both together: the list and the clients agree, and no address has two holders.
THEOREM ClaimsAlwaysSound ==
  ASSUME CleanClients
  PROVE  RangeSpec => []ClaimsSound
<1>1. ListMatchesClaims /\ ClaimsDisjoint => ClaimsSound
  BY Zenon DEF ClaimsSound
<1> QED BY <1>1, ListRecordsClaims, ClaimsNeverOverlap, PTL

\* The top-down search of find_area returns the highest aligned free area and
\* fails only if there is none.
THEOREM SearchTopDownComplete ==
  ASSUME CleanClients
  PROVE  RangeSpec => []SearchFindsHighest
<1>1. ListInv => SearchFindsHighest
  BY SearchesComplete, Zenon
<1> QED BY <1>1, ListInvariant, PTL

\* If moreover claims keep clear of the end of the address space and Min is
\* aligned, the bottom-up search returns the lowest one.
THEOREM SearchComplete ==
  ASSUME CleanClients, RoomAbove
  PROVE  RangeSpec => []SearchFindsRoom
<1>1. ListInv => SearchFindsRoom
  BY SearchesComplete, Zenon DEF SearchFindsRoom
<1> QED BY <1>1, ListInvariant, PTL
=============================================================================
