---------------------------- MODULE MCGuestMemory ----------------------------
(* For TLC: an area below the limit, one that ends above it, one beyond it,  *)
(* and two that are mapped later.  Free at the start: pages 0 and 3 to 17.   *)
EXTENDS GuestMemory, TLC

Area(n, m) == [start |-> n, size |-> m]
MCAreas == {Area(1, 2), Area(18, 2), Area(30, 1)}
MCLater == {Area(40, 1), Area(50, 2)}

Symmetry == Permutations(Enclosures)
=============================================================================
