-------------------------------- MODULE Ofmem --------------------------------
(***************************************************************************)
(* The memory services of ofmem_common.c put together: the list of claimed *)
(* physical memory, the list of claimed virtual memory, the translations   *)
(* and the properties of the device tree that publish the three, under     *)
(*   - ofmem_init and ofmem_register,                                      *)
(*   - ofmem_claim and ofmem_release (the client interface's claim and     *)
(*     release),                                                           *)
(*   - the claim methods of the memory and mmu nodes followed by map.      *)
(* The release and unmap methods of those nodes only pop their arguments.  *)
(*                                                                         *)
(* Every call runs to completion before the next: the firmware has one     *)
(* thread.                                                                 *)
(***************************************************************************)
EXTENDS OfmemRangeOps

CONSTANTS
  RamSize,       \* get_ram_size()
  VirtTop,       \* ofmem_arch_get_virt_top()
  FreeBase,      \* FREE_BASE_1, the end of the area claimed by ofmem_init
  InitPhys, InitVirt, InitSize, \* what ofmem_init maps
  FixedAddrs, FixedSizes,       \* passed to ofmem_claim with align = 0
  AlignedAddrs, AlignedSizes,   \* passed to ofmem_claim with align # 0
  MethodSizes    \* sizes passed to the claim methods of the memory and mmu nodes

VARIABLES
  phys_range, virt_range, trans,
  registered,    \* s_phandle_memory and s_phandle_mmu are set
  available,     \* "available" of the memory node, as a set of [start, size]
  translations,  \* "translations" of the mmu node
  held,          \* results of ofmem_claim that have not been released
  pheld, vheld,  \* physical and virtual areas claimed through the nodes
  mapped         \* pairs <<phys area, virt area>> mapped through the mmu node

ranges_vars == <<phys_range, virt_range>>
published == <<available, translations>>
method_vars == <<pheld, vheld, mapped>>
ovars == <<phys_range, virt_range, trans, registered, available, translations, held,
           pheld, vheld, mapped>>

NPages == AddrMod \div PageSize
Unmapped == <<>>
Trans == INSTANCE OfmemTransOps

ASSUME OfmemAssumption ==
  /\ AddrMod % PageSize = 0
  /\ RamSize \in Cell /\ VirtTop \in Cell /\ FreeBase \in 1 .. RamSize
  /\ {InitPhys, InitVirt, InitSize} \subseteq Cell
  /\ FixedAddrs \cup FixedSizes \cup AlignedAddrs \cup AlignedSizes \subseteq Cell
  /\ MethodSizes \subseteq Cell

Entry(start, size) == [start |-> start, size |-> size]
Cells(r) == {Wrap(r.start + i) : i \in 0 .. r.size - 1}
CellsOf(rs) == UNION {Cells(r) : r \in rs}

RoundUp(size) == AlignDown(Wrap(size + (PageSize - 1)), PageSize)

-----------------------------------------------------------------------------
\* ofmem_map and ofmem_unmap round to pages and hand over to the list of
\* translations.  All memory has the same mode here.
Map(phys, virt, size, ts) ==
  Trans!map_page_range(phys \div PageSize, virt \div PageSize,
                       RoundUp(size) \div PageSize, "mode", ts)

Unmap(virt, size, ts) ==
  LET v   == virt \div PageSize
      n   == RoundUp(size) \div PageSize
      cut == Trans!SplitEnds(v, n, ts)
  IN cut \ Trans!Unlinked(Trans!InRange(v, n, cut))

\* ofmem_translate of a cell, NONE when there is no translation.
Translate(virt, ts) ==
  LET hit == Trans!Lookup(ts, virt \div PageSize)
  IN IF hit = Unmapped THEN NONE ELSE (hit[1] * PageSize) + (virt % PageSize)

\* ofmem_update_memory_available: the gaps between the ranges that start below
\* the last address, and the tail.
AvailableEntries(rs, top_address) ==
  LET listed   == {r \in rs : r.start < top_address}
      before(r) == {q \in listed : Before(q, r)}
      end(qs)  == LET last == {q \in qs : \A p \in qs \ {q} : Before(p, q)}
                  IN IF last = {} THEN 0
                     ELSE LET q == CHOOSE q \in last : TRUE IN Wrap(q.start + q.size)
      gap(r)   == Entry(end(before(r)), Wrap(r.start - end(before(r))))
      start    == end(listed)
  IN {g \in {gap(r) : r \in listed} : g.size # 0}
       \cup (IF Wrap(start - 1) < top_address
             THEN {Entry(start, (top_address - start) + 1)} ELSE {})

\* ofmem_update_translations.
Publish(pr, ts) ==
  IF registered
  THEN available' = AvailableEntries(pr, RamSize - 1) /\ translations' = ts
  ELSE UNCHANGED published

-----------------------------------------------------------------------------
InitArea == Entry(0, FreeBase)

Init ==
  /\ phys_range = {InitArea} /\ virt_range = {InitArea}
  /\ trans = Map(InitPhys, InitVirt, InitSize, {})
  /\ registered = FALSE /\ available = {} /\ translations = {}
  /\ held = {} /\ pheld = {} /\ vheld = {} /\ mapped = {}

ofmem_register ==
  /\ ~registered
  /\ registered' = TRUE
  /\ available' = AvailableEntries(phys_range, RamSize - 1)
  /\ translations' = trans
  /\ UNCHANGED <<ranges_vars, trans, held, method_vars>>

\* The end of ofmem_claim: phys, virt and size are extended to whole pages,
\* the pages are mapped and the caller's page offset is added again.
MapClaim(addr, phys, virt, size, pr) ==
  LET off == phys % PageSize
      ts  == Map(phys - off, Wrap(virt - off), Wrap(size + off), trans)
  IN /\ trans' = ts
     /\ Publish(pr, ts)
     /\ held' = held \cup {Entry(Wrap(Wrap(virt - off) + (addr % PageSize)), size)}

ofmem_claim_fixed_VirtOnly(addr, size) ==
  /\ is_free(addr, size, virt_range)
  /\ addr < RamSize
  /\ phys_range' = add_entry(addr, size, phys_range)
  /\ virt_range' = add_entry(addr, size, virt_range)
  /\ MapClaim(addr, addr, addr, size, phys_range')
  /\ UNCHANGED <<registered, method_vars>>
ofmem_claim_fixed(addr, size) ==
  /\ is_free(addr, size, virt_range) /\ is_free(addr, size, phys_range)
  /\ addr < RamSize
  /\ phys_range' = add_entry(addr, size, phys_range)
  /\ virt_range' = add_entry(addr, size, virt_range)
  /\ MapClaim(addr, addr, addr, size, phys_range')
  /\ UNCHANGED <<registered, method_vars>>

\* The physical area found is claimed first, then the virtual area at the same
\* address.  Neither claim is undone when the other fails, and a failed search
\* still claims virtual memory, at address -1.
ofmem_claim_aligned(addr, size) ==
  LET phys == find_area(PageSize, size, phys_range, 0, RamSize, TRUE)
      virt == IF is_free(phys, size, virt_range) THEN phys ELSE NONE
      pr   == IF phys = NONE THEN phys_range ELSE add_entry(phys, size, phys_range)
  IN /\ phys_range' = pr
     /\ virt_range' = add_entry(phys, size, virt_range)
     /\ IF phys = NONE \/ virt = NONE
        THEN Publish(pr, trans) /\ UNCHANGED <<trans, held>>
        ELSE MapClaim(addr, phys, virt, size, pr)
     /\ UNCHANGED <<registered, method_vars>>

\* The properties are updated by ofmem_unmap, before the ranges are removed.
ofmem_release_NoUnmap(c) ==
  /\ held' = held \ {c}
  /\ virt_range' = remove_range(c.start, c.size, virt_range)
  /\ phys_range' = remove_range(c.start, c.size, phys_range)
  /\ UNCHANGED <<trans, published, registered, method_vars>>
ofmem_release(c) ==
  LET phys == Translate(c.start, trans)
      ts   == Unmap(c.start, c.size, trans)
  IN /\ held' = held \ {c}
     /\ IF phys = NONE
        THEN UNCHANGED <<ranges_vars, trans, published>>
        ELSE /\ trans' = ts
             /\ Publish(phys_range, ts)
             /\ virt_range' = remove_range(c.start, c.size, virt_range)
             /\ phys_range' = remove_range(phys, c.size, phys_range)
     /\ UNCHANGED <<registered, method_vars>>

\* mem_claim with an alignment.
mem_claim_EarlyUpdate(size) ==
  LET phys == find_area(PageSize, size, phys_range, 0, RamSize, TRUE)
  IN /\ phys # NONE
     /\ phys_range' = add_entry(phys, size, phys_range)
     /\ pheld' = pheld \cup {Entry(phys, size)}
     /\ Publish(phys_range, trans)
     /\ UNCHANGED <<virt_range, trans, registered, held, vheld, mapped>>
mem_claim(size) ==
  LET phys == find_area(PageSize, size, phys_range, 0, RamSize, TRUE)
  IN /\ phys # NONE
     /\ phys_range' = add_entry(phys, size, phys_range)
     /\ pheld' = pheld \cup {Entry(phys, size)}
     /\ Publish(phys_range', trans)
     /\ UNCHANGED <<virt_range, trans, registered, held, vheld, mapped>>

\* mmu_claim with an alignment.
mmu_claim(size) ==
  LET virt == find_area(PageSize, size, virt_range, RamSize, VirtTop, TRUE)
  IN /\ virt # NONE
     /\ virt_range' = add_entry(virt, size, virt_range)
     /\ vheld' = vheld \cup {Entry(virt, size)}
     /\ Publish(phys_range, trans)
     /\ UNCHANGED <<phys_range, trans, registered, held, pheld, mapped>>

\* mmu_map of a physical and a virtual area the client has claimed for it.
mmu_map(p, v) ==
  /\ p.size = v.size
  /\ \A m \in mapped : m[1] # p /\ m[2] # v
  /\ trans' = Map(p.start, v.start, v.size, trans)
  /\ mapped' = mapped \cup {<<p, v>>}
  /\ Publish(phys_range, trans')
  /\ UNCHANGED <<ranges_vars, registered, held, pheld, vheld>>

Next ==
  \/ ofmem_register
  \/ \E addr \in FixedAddrs, size \in FixedSizes : ofmem_claim_fixed(addr, size)
  \/ \E addr \in AlignedAddrs, size \in AlignedSizes : ofmem_claim_aligned(addr, size)
  \/ \E c \in held : ofmem_release(c)
  \/ \E size \in MethodSizes : mem_claim(size) \/ mmu_claim(size)
  \/ \E p \in pheld, v \in vheld : mmu_map(p, v)

Spec == Init /\ [][Next]_ovars

-----------------------------------------------------------------------------
\* What ofmem_claim returned stays mapped to the same address until it is
\* released, whatever other clients claim, map and release meanwhile.
HeldStaysMapped == \A c \in held : \A x \in Cells(c) : Translate(x, trans) = x

\* Virtual memory in use by clients.
InUse == CellsOf(held) \cup CellsOf({m[2] : m \in mapped})

\* No physical address backs two virtual addresses that clients use: the claims
\* of ofmem_claim and of the memory node's method never hand out a frame twice.
FramesNotShared ==
  \A x, y \in InUse : x # y => Translate(x, trans) # Translate(y, trans)

\* "release memory allocated by ofmem_claim": a page is mapped only for
\* ofmem_init or for a client that still holds part of it.
NothingElseMapped ==
  LET initial == Cells(Entry(InitVirt, InitSize))
  IN \A x \in Cell : Translate(x, trans) # NONE =>
       \E y \in InUse \cup initial : y \div PageSize = x \div PageSize

\* A page is mapped for exactly as long as someone has a use for it, under any
\* order of claims, maps and releases: neither too short nor too long.
MappedWhileHeld == HeldStaysMapped /\ NothingElseMapped

\* The "available" property never offers memory that is claimed.
AvailableNotClaimed ==
  registered => CellsOf(available) \cap CellsOf(phys_range) = {}

\* ofmem.h: the module "will update "available"": once registered, it lists
\* all memory that is not claimed.
AvailableComplete ==
  registered => (0 .. RamSize - 1) \ CellsOf(phys_range) \subseteq CellsOf(available)

\* "allocate both physical and virtual space and add a translation": apart from
\* what the nodes' methods claimed, ofmem_claim claims both or neither.
ClaimedTogether == phys_range \ pheld = virt_range \ vheld

\* "( virt size align -- baseaddr|-1 )": what ofmem_claim returns is the base of
\* an area that is claimed.
HeldIsClaimed == CellsOf(held) \subseteq CellsOf(virt_range)

=============================================================================
