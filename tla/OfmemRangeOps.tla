---------------------------- MODULE OfmemRangeOps ----------------------------
(***************************************************************************)
(* The lists of claimed ranges of libopenbios/ofmem_common.c (phys_range,  *)
(* virt_range and io_range) and the functions on them: is_free, add_entry, *)
(* find_area and remove_range.                                             *)
(*                                                                         *)
(* A list is kept sorted by start address, an empty range before a         *)
(* non-empty one with the same start, so it is represented by the set of   *)
(* its [start, size] entries.  Addresses are unsigned cells of AddrBits    *)
(* bits and wrap around.                                                   *)
(***************************************************************************)
EXTENDS Integers

CONSTANTS
  AddrBits,   \* width of a ucell
  PageSize    \* PAGE_SIZE

AddrMod == 2 ^ AddrBits
Pow2 == {2 ^ k : k \in 0 .. AddrBits}

ASSUME RangeOpsAssumption ==
  /\ AddrBits \in Nat
  /\ AddrMod \in Nat \ {0}
  /\ Pow2 \subseteq Nat \ {0}
  /\ PageSize \in Pow2

Cell == 0 .. AddrMod - 1
Range_t == [start : Cell, size : Cell]

\* The cell -1, which the claim functions return on error.
NONE == AddrMod - 1

\* Unsigned arithmetic on the sum or difference of two cells.
Wrap(x) == IF x < 0 THEN x + AddrMod ELSE IF x >= AddrMod THEN x - AddrMod ELSE x

Last(start, size) == Wrap(Wrap(start + size) - 1)

-----------------------------------------------------------------------------
is_free(ea, size, rs) ==
  \/ size = 0
  \/ \A r \in rs :
       /\ ~(Last(r.start, r.size) >= ea /\ r.start <= ea)
       /\ ~(r.start >= ea /\ r.start <= Last(ea, size))

add_entry(ea, size, rs) ==
  IF is_free(ea, size, rs) THEN rs \cup {[start |-> ea, size |-> size]} ELSE rs

\* Minimum alignment is a page; other values are rounded up to a power of 2.
RoundAlign(align) ==
  CHOOSE p \in Pow2 :
    /\ p >= align /\ p >= PageSize
    /\ \A q \in Pow2 : q >= align /\ q >= PageSize => p <= q

AlignDown(x, a) == x - (x % a)
AlignUpTo(x, a) == AlignDown(Wrap(x + (a - 1)), a)

Before(q, r) == q.start < r.start \/ (q.start = r.start /\ q.size < r.size)

\* Top-down search: try the top, then just below each range from the last to
\* the first.  The lower bound of the search is not consulted.
FindReverse_TopOnly(a, size, rs, max) ==
  LET top == AlignDown(Wrap(max - size), a)
  IN IF is_free(top, size, rs) THEN top ELSE NONE
FindReverse(a, size, rs, max) ==
  LET top      == Wrap(max - size)
      clamp(x) == AlignDown(IF x > top THEN top ELSE x, a)
      below(r) == clamp(Wrap(r.start - size))
      good     == {r \in rs : is_free(below(r), size, rs)}
      last     == {r \in good : \A q \in good \ {r} : Before(q, r)}
  IN IF is_free(clamp(top), size, rs) THEN clamp(top)
     ELSE IF last = {} THEN NONE ELSE below(CHOOSE r \in last : TRUE)

\* Bottom-up search: try the bottom, then just above each range in turn, and
\* give up at the first candidate that does not end below max.
FindForward(a, size, rs, min, max) ==
  LET raise(x) == LET y == AlignUpTo(x, a) IN IF y < min THEN min ELSE y
      above(r) == raise(Wrap(r.start + r.size))
      fits(x)  == Last(x, size) < Wrap(max - 1)
      good     == {r \in rs : /\ is_free(above(r), size, rs)
                              /\ \A q \in rs : Before(q, r) \/ q = r => fits(above(q))}
      first    == {r \in good : \A q \in good \ {r} : Before(r, q)}
  IN IF ~fits(raise(min)) THEN NONE
     ELSE IF is_free(raise(min), size, rs) THEN raise(min)
     ELSE IF first = {} THEN NONE ELSE above(CHOOSE r \in first : TRUE)

find_area(align, size, rs, min, max, reverse) ==
  LET a == RoundAlign(align)
  IN IF reverse THEN FindReverse(a, size, rs, max)
     ELSE FindForward(a, size, rs, min, max)

\* The range that holds ea in its interior is split in two: the released part
\* takes its own entry, and the first part is shortened by its size.
SplitAt_KeepFirst(ea, size, rs) ==
  LET inside == {r \in rs : ea > r.start /\ ea < Last(r.start, r.size)}
  IN rs \cup {[start |-> ea, size |-> size] : r \in inside}
SplitAt(ea, size, rs) ==
  LET inside == {r \in rs : ea > r.start /\ ea < Last(r.start, r.size)}
  IN (rs \ inside)
       \cup {[start |-> r.start, size |-> Wrap(r.size - size)] : r \in inside}
       \cup {[start |-> ea, size |-> size] : r \in inside}

\* Then the first range that contains the released one is freed.
DropFirst(ea, size, rs) ==
  LET hit == {r \in rs : /\ ea >= r.start
                         /\ Wrap(ea + size) <= Wrap(r.start + r.size)}
  IN rs \ {r \in hit : \A q \in hit \ {r} : Before(r, q)}

remove_range(ea, size, rs) ==
  IF is_free(ea, size, rs) THEN rs ELSE DropFirst(ea, size, SplitAt(ea, size, rs))

=============================================================================
