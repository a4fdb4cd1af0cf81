----------------------------- MODULE OfmemRange ------------------------------
(***************************************************************************)
(* One list of claimed ranges and its clients: the claim and release       *)
(* functions for physical memory (ofmem_claim_phys, ofmem_release_phys),   *)
(* virtual memory (ofmem_claim_virt, ofmem_release_virt) and I/O space     *)
(* (ofmem_claim_io, ofmem_release_io), which differ only in their list,    *)
(* their bounds and the direction of the search.                           *)
(*                                                                         *)
(* claims is what the clients know: the ranges they have been given and    *)
(* have not given back.  A client only releases memory that it holds.      *)
(***************************************************************************)
EXTENDS OfmemRangeOps

CONSTANTS
  Min, Max,   \* bounds of the area that is searched
  Reverse,    \* direction of the search
  FixedClaims,\* <<address, size>> of the claims made with align = 0
  Sizes,      \* sizes of the claims made with align # 0
  Aligns,     \* their alignments
  Shapes      \* the parts of a claim that clients release

VARIABLES
  ranges,     \* the list: phys_range, virt_range or io_range
  claims

rvars == <<ranges, claims>>

ASSUME RangeAssumption ==
  /\ Min \in Cell /\ Max \in Cell
  /\ Reverse \in BOOLEAN
  /\ FixedClaims \subseteq Cell \X Cell
  /\ Sizes \subseteq Cell
  /\ Aligns \subseteq Nat \ {0}
  /\ Shapes \subseteq {"whole", "tail", "head", "middle"}

Entry(ea, size) == [start |-> ea, size |-> size]

-----------------------------------------------------------------------------
RangeInit ==
  /\ ranges = {}
  /\ claims = {}

\* align = 0: the address is the caller's.
ClaimAt(ea, size) ==
  /\ is_free(ea, size, ranges)
  /\ ranges' = add_entry(ea, size, ranges)
  /\ claims' = claims \cup {Entry(ea, size)}

\* align # 0: the address is found by find_area.
ClaimAligned(size, align) ==
  LET base == find_area(align, size, ranges, Min, Max, Reverse)
  IN /\ base # NONE
     /\ ranges' = add_entry(base, size, ranges)
     /\ claims' = claims \cup {Entry(base, size)}

\* What a client may give back of a claim c: [ea, ea + size) in c.
Releasable(c) ==
  {p \in (c.start .. c.start + c.size - 1) \X (1 .. c.size) :
     LET end == p[1] + p[2]
         top == c.start + c.size
     IN /\ end <= top
        /\ \/ "whole"  \in Shapes /\ p[1] = c.start /\ end = top
           \/ "tail"   \in Shapes /\ p[1] > c.start /\ end = top /\ p[2] > 1
           \/ "head"   \in Shapes /\ p[1] = c.start /\ end < top
           \/ "middle" \in Shapes /\ p[1] > c.start /\ end < top}

\* What is left of it.
Remainder(c, ea, size) ==
  {r \in {Entry(c.start, ea - c.start),
          Entry(ea + size, (c.start + c.size) - (ea + size))} : r.size > 0}

Release(c, ea, size) ==
  /\ ranges' = remove_range(ea, size, ranges)
  /\ claims' = (claims \ {c}) \cup Remainder(c, ea, size)

RangeNext ==
  \/ \E p \in FixedClaims : ClaimAt(p[1], p[2])
  \/ \E size \in Sizes, align \in Aligns : ClaimAligned(size, align)
  \/ \E c \in claims : \E p \in Releasable(c) : Release(c, p[1], p[2])

RangeSpec == RangeInit /\ [][RangeNext]_rvars

-----------------------------------------------------------------------------
\* Entries are ranges of cells that do not wrap around the address space.
RangeTypeOK ==
  /\ ranges \subseteq Range_t
  /\ \A r \in ranges : r.start + r.size <= AddrMod

\* The list records exactly what the clients hold.  remove_range_ says "If not
\* an exact match then split the range": after a release the released part,
\* and nothing else, is free.
ListMatchesClaims == ranges = claims

Apart(r, s) == r.start + r.size <= s.start \/ s.start + s.size <= r.start

\* No client is given an address another client still holds, whatever order
\* claims at fixed addresses, searched claims and releases come in.
ClaimsDisjoint == \A c, d \in claims : c # d => Apart(c, d)

\* The list of claimed ranges and the clients agree, and no two clients hold the
\* same address, after any order of ofmem_claim at a fixed address, ofmem_claim
\* with a search and ofmem_release.
ClaimsSound == ListMatchesClaims /\ ClaimsDisjoint

\* A claim with an alignment is answered from the searched area or refused
\* ("Returns -1 on error"), never with an address beyond it.
ClaimsInArea == \A c \in claims : c.start + c.size <= Max

\* The addresses at which an aligned area of the given size is free below end.
Candidates(a, size, bottom, end) ==
  {b \in bottom .. end - size :
     b % a = 0 /\ \A r \in ranges : Apart(r, Entry(b, size))}

\* The top-down search of find_area, which only looks just below claimed
\* ranges, misses nothing: it returns the highest aligned free area, and -1
\* only when there is none.
SearchFindsHighest ==
  \A size \in Sizes, align \in Aligns :
    LET found == find_area(align, size, ranges, Min, Max, TRUE)
        all   == Candidates(RoundAlign(align), size, 0, Max)
    IN IF all = {} THEN found = NONE
       ELSE found \in all /\ \A b \in all : b <= found

\* The bottom-up search returns the lowest aligned free area that ends below
\* the last cell of the searched area (base + size - 1 >= max - 1 gives up one
\* cell early).
SearchFindsLowest ==
  \A size \in Sizes, align \in Aligns :
    LET found == find_area(align, size, ranges, Min, Max, FALSE)
        all   == Candidates(RoundAlign(align), size, Min, Max - 1)
    IN IF all = {} THEN found = NONE
       ELSE found \in all /\ \A b \in all : b >= found

\* In both directions find_area returns an area whenever there is one, and the
\* outermost one, on every list that claims and releases can produce.
SearchFindsRoom == SearchFindsHighest /\ SearchFindsLowest

=============================================================================
