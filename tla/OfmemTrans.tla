----------------------------- MODULE OfmemTrans ------------------------------
(***************************************************************************)
(* The list of translations of ofmem_common.c and its clients: ofmem_map,  *)
(* ofmem_unmap and ofmem_translate.                                        *)
(***************************************************************************)
EXTENDS OfmemTransOps

CONSTANTS
  Areas,         \* <<virt, size>> of the areas that clients map and unmap
  Frame,         \* first page frames of the areas that are mapped
  Mode,          \* translation modes
  DefaultMode(_),\* ofmem_arch_default_translation_mode
  ManyUnmap      \* whether an unmapped area may be covered by several entries

VARIABLES
  trans,         \* ofmem->trans
  dangling       \* entries of trans whose memory has been freed

tvars == <<trans, dangling>>

Page == 0 .. NPages - 1

ASSUME TransAssumption ==
  /\ NPages \in Nat
  /\ Areas \subseteq {a \in Page \X (1 .. NPages - 1) : a[1] + a[2] <= NPages}
  /\ Frame \subseteq Nat
  /\ \A f \in Frame : DefaultMode(f) \in Mode
  /\ ManyUnmap \in BOOLEAN

Translation == [virt : Page, size : Nat, phys : Nat, mode : Mode]

ofmem_translate(x) == Lookup(trans, x)

-----------------------------------------------------------------------------
TransInit == trans = {} /\ dangling = {}

ofmem_map(phys, virt, size, mode) ==
  /\ trans' = map_page_range(phys, virt, size, mode, trans)
  /\ UNCHANGED dangling

\* mode = -1
ofmem_map_default(phys, virt, size) == ofmem_map(phys, virt, size, DefaultMode(phys))

ofmem_unmap(virt, size) ==
  LET cut == SplitEnds(virt, size, trans)
      es  == InRange(virt, size, cut)
  IN /\ ManyUnmap \/ \A t, u \in es : t = u
     /\ trans' = cut \ Unlinked(es)
     /\ dangling' = dangling \cup (es \ Unlinked(es))

TransNext ==
  \/ \E phys \in Frame, a \in Areas, mode \in Mode : ofmem_map(phys, a[1], a[2], mode)
  \/ \E phys \in Frame, a \in Areas : ofmem_map_default(phys, a[1], a[2])
  \/ \E a \in Areas : ofmem_unmap(a[1], a[2])

TransSpec == TransInit /\ [][TransNext]_tvars

-----------------------------------------------------------------------------
\* Entries are non-empty and inside the address space (split_trans,
\* ofmem_map_page_range).
TransTypeOK ==
  /\ trans \subseteq Translation
  /\ \A t \in trans : 0 < t.size /\ t.virt + t.size <= NPages

\* No page has two translations, however mappings are laid over each other
\* and cut ("detect remappings" in ofmem_map_page_range): what ofmem_translate
\* answers does not depend on the order of the chain.
TransDisjoint ==
  \A t, u \in trans :
    t # u => t.virt + t.size <= u.virt \/ u.virt + u.size <= t.virt

\* unmap_page_range: "find and unlink entries in range".  No entry whose memory
\* has been freed is left in the chain.
NoDanglingEntry == dangling = {}

\* The list behaves as a page table: ofmem_map gives every page of its area
\* its new frame and mode, ofmem_unmap takes exactly its area away, and no
\* other page is disturbed by the splitting.
Table == INSTANCE PageTable WITH pt <- [x \in Page |-> ofmem_translate(x)]

ImplementsPageTable == Table!Spec

=============================================================================
