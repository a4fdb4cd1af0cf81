---------------------------- MODULE OfmemTransOps ----------------------------
(***************************************************************************)
(* The functions on the list of virtual to physical translations of        *)
(* libopenbios/ofmem_common.c: split_trans, ofmem_map_page_range,          *)
(* unmap_page_range and the search of ofmem_translate.                     *)
(*                                                                         *)
(* Addresses are page numbers, since ofmem_map and ofmem_unmap round to    *)
(* pages, and they wrap at the end of the address space.  The chain is     *)
(* kept sorted by virt and no two of its entries have the same virt, so it *)
(* is represented by the set of its entries.                               *)
(***************************************************************************)
EXTENDS Integers

CONSTANTS
  NPages,        \* virtual pages 0 .. NPages - 1
  Unmapped       \* "no translation"

T(virt, size, phys, mode) ==
  [virt |-> virt, size |-> size, phys |-> phys, mode |-> mode]

\* Addition of addresses.  No area is longer than the address space.
PageWrap(x) == IF x >= NPages THEN x - NPages ELSE x

\* Page x lies in the entry t.
Covers(t, x) == t.virt <= x /\ x < t.virt + t.size

-----------------------------------------------------------------------------
\* The entry that has virt in its interior is cut in two.  virt is the first
\* byte of a page and is compared with the last byte of the entry.
split_trans_Off(virt, ts) ==
  LET cut == {t \in ts : virt > t.virt /\ virt < t.virt + t.size}
  IN (ts \ cut)
       \cup {T(t.virt, virt - t.virt, t.phys, t.mode) : t \in cut}
       \cup {T(virt, t.size - (virt - t.virt), t.phys, t.mode) : t \in cut}
split_trans(virt, ts) ==
  LET cut == {t \in ts : virt > t.virt /\ virt < t.virt + t.size}
  IN (ts \ cut)
       \cup {T(t.virt, virt - t.virt, t.phys, t.mode) : t \in cut}
       \cup {T(virt, t.size - (virt - t.virt), t.phys + (virt - t.virt), t.mode) : t \in cut}

SplitEnds(virt, size, ts) == split_trans(PageWrap(virt + size), split_trans(virt, ts))

\* The entries that a new mapping replaces.
Remapped_StartOnly(virt, size, ts) == {t \in ts : virt = t.virt}
Remapped(virt, size, ts) ==
  {t \in ts : virt = t.virt \/ (virt < t.virt /\ PageWrap(virt + size) > t.virt)}

map_page_range(phys, virt, size, mode, ts) ==
  LET cut == SplitEnds(virt, size, ts)
  IN (cut \ Remapped(virt, size, cut)) \cup {T(virt, size, phys, mode)}

\* The entries inside [virt, virt + size).
InRange(virt, size, ts) ==
  LET end == PageWrap(virt + size)
  IN {t \in ts : t.virt < end /\ t.virt >= virt /\ PageWrap(t.virt + t.size) <= end}

\* unmap_page_range frees all of them, but after the first it writes the link
\* of an entry that is already freed, so every second one stays in the chain.
NextBelow(p, t, es) ==
  /\ p.virt < t.virt
  /\ \A q \in es : q.virt < t.virt => q.virt <= p.virt
Unlinked(es) ==
  CHOOSE us \in SUBSET es :
    \A t \in es : t \in us <=> \A p \in es : NextBelow(p, t, es) => p \notin us

\* The first entry of the chain ts that covers the page.
Lookup(ts, x) ==
  LET hit   == {t \in ts : Covers(t, x)}
      first == {t \in hit : \A u \in hit : t.virt <= u.virt}
  IN IF first = {} THEN Unmapped
     ELSE LET t == CHOOSE u \in first : TRUE IN <<t.phys + (x - t.virt), t.mode>>

=============================================================================
