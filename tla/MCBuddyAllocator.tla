-------------------------- MODULE MCBuddyAllocator --------------------------
(* Small instances of BuddyAllocator for TLC. *)
EXTENDS BuddyAllocator

MCShl == [p \in 0..MaxPow |-> 2^p]

OneZone == <<[base |-> 3, pages |-> 8]>>
TwoZones == <<[base |-> 2, pages |-> 4], [base |-> 6, pages |-> 7]>>

(* Bounds on what is explored after a wrong merge: from there a block with  *)
(* two owners can be freed again and again and the lists grow without end.  *)
MaxHeldAfter == 1
MaxFreeAfter == 11

Explored == misMerged => Cardinality(held) =< MaxHeldAfter /\ free =< MaxFreeAfter
=============================================================================
