---------------------------- MODULE MCPageTable ----------------------------
(* Small instances of PageTable for TLC. *)
EXTENDS PageTable, TLC

(* Page 0 is mapped to either of two pages, 1 is in the same table, 8 under *)
(* another entry of the root.                                              *)
Call(vpn, ppn) == [vpn |-> vpn, ppn |-> ppn, mode |-> {"User", "Read", "Write"}]

FourCalls == {Call(0, 11), Call(0, 12), Call(1, 12), Call(8, 11)}

(* Pages are alike, and Table::new clears them: it is enough that the page  *)
(* allocator hands out the lowest free page.                               *)
LowestFree == \A p \in used' \ used, q \in Pages \ used : p =< q

Symmetry == Permutations(Mappers)
=============================================================================
