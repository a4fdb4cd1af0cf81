----------------------------- MODULE Allocator -----------------------------
(***************************************************************************)
(* What a best-fit allocator that merges free neighbours promises.  A      *)
(* block [at, len] occupies the cell at, which holds its length, and the   *)
(* len cells after it.  The client's pointer is at + 1.                    *)
(***************************************************************************)
EXTENDS Integers, FiniteSets

CONSTANTS
  Start,      \* address of the first cell of the memory
  Cells,      \* number of cells
  Sizes       \* sizes that clients ask for, in cells

\* Address 0 means "no block", and a block has room for its length and a link.
ProperMemory ==
  /\ Start \in Nat \ {0}
  /\ Cells \in Nat \ {0, 1}
  /\ Sizes \subseteq Nat \ {0}

VARIABLES
  free,       \* the free blocks
  held        \* the blocks that clients hold

avars == <<free, held>>

Block == [at : Nat, len : Nat]

End(b) == b.at + b.len + 1

AInit ==
  /\ free = {[at |-> Start, len |-> Cells - 1]}
  /\ held = {}

BestFit(b, n) ==
  /\ b.len >= n
  /\ \A c \in free : c.len >= n => c.len >= b.len

\* A block that is not much larger than the request is given away whole.
AAlloc(n) ==
  \E b \in free :
    /\ BestFit(b, n)
    /\ \/ /\ b.len <= n + 2
          /\ free' = free \ {b}
          /\ held' = held \cup {b}
       \/ /\ b.len > n + 2
          /\ free' = (free \ {b}) \cup {[at |-> b.at + (n + 1), len |-> b.len - (n + 1)]}
          /\ held' = held \cup {[at |-> b.at, len |-> n]}

Neighbours(b) == {c \in free : End(c) = b.at \/ End(b) = c.at}

\* The block that the free block b and its free neighbours make up.
Merged(b, m) ==
  /\ m.at = b.at \/ \E c \in Neighbours(b) : m.at = c.at
  /\ End(m) = End(b) \/ \E c \in Neighbours(b) : End(m) = End(c)
  /\ \A c \in Neighbours(b) \cup {b} : m.at <= c.at /\ End(c) <= End(m)

AFree(b) ==
  \E m \in [at : {c.at : c \in Neighbours(b) \cup {b}}, len : 0 .. Cells] :
    /\ Merged(b, m)
    /\ free' = (free \ Neighbours(b)) \cup {m}
    /\ held' = held \ {b}

ANext == (\E n \in Sizes : AAlloc(n)) \/ (\E b \in held : AFree(b))

ASpec == AInit /\ [][ANext]_avars
-----------------------------------------------------------------------------
Extent(b) == b.at .. b.at + b.len

\* Every cell of the memory belongs to one block, and to one only: blocks never
\* overlap and no memory is lost, whatever the order of alloc-mem and free-mem.
EveryCellOnce ==
  /\ \A b, c \in free \cup held : b # c => Extent(b) \cap Extent(c) = {}
  /\ free \cap held = {}
  /\ \A x \in Start .. Start + Cells - 1 : \E b \in free \cup held : x \in Extent(b)

\* free-mem merges "with blocks to the left and right immediately, if they are
\* free": no two free blocks touch.
Coalesced == \A b, c \in free : End(b) # c.at
=============================================================================
