------------------------------ MODULE PageTable ------------------------------
(***************************************************************************)
(* What the translation list of ofmem promises: a table that gives each    *)
(* virtual page the frame and mode it was last mapped to.                  *)
(***************************************************************************)
EXTENDS Integers

CONSTANTS Page, Areas, Frame, Mode, Unmapped

VARIABLE pt

Init == pt = [x \in Page |-> Unmapped]

Map(phys, virt, size, mode) ==
  pt' = [x \in Page |-> IF virt <= x /\ x < virt + size
                        THEN <<phys + (x - virt), mode>> ELSE pt[x]]

Unmap(virt, size) ==
  pt' = [x \in Page |-> IF virt <= x /\ x < virt + size THEN Unmapped ELSE pt[x]]

Next ==
  \/ \E phys \in Frame, a \in Areas, mode \in Mode : Map(phys, a[1], a[2], mode)
  \/ \E a \in Areas : Unmap(a[1], a[2])

Spec == Init /\ [][Next]_pt

=============================================================================
