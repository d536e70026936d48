--------------------------- MODULE PageAllocator ---------------------------
(***************************************************************************)
(* What page.rs promises to the rest of the kernel through the trait       *)
(* PageAllocator: a caller that is given a block of pages is its only      *)
(* owner until it frees it, and every block lies in one of the memory      *)
(* zones.  Nothing is said of how the free pages are kept.                 *)
(***************************************************************************)
EXTENDS Integers, Sequences

CONSTANTS
    Zones,  \* sequence of memory zones [base, pages]
    Shl,    \* Shl[p] = 1 << p, the pages of a block of power p
    MaxPow  \* powers go from 0 to MaxPow - 1

VARIABLE allocated  \* the blocks [page, pow] that callers own

Overlap(b, c) ==
    b.page < c.page + Shl[c.pow] /\ c.page < b.page + Shl[b.pow]

InZone(b, z) ==
    /\ Zones[z].base =< b.page
    /\ b.page + Shl[b.pow] =< Zones[z].base + Zones[z].pages

Init == allocated = {}

alloc_pages(b) ==
    /\ b.pow \in 0..(MaxPow - 1)
    /\ \E z \in DOMAIN Zones : InZone(b, z)
    /\ \A c \in allocated : ~Overlap(b, c)
    /\ allocated' = allocated \cup {b}

free_pages(b) ==
    /\ b \in allocated
    /\ allocated' = allocated \ {b}

(* The block handed out is the one that allocated' has and allocated lacks. *)
Next ==
    \/ \E b \in allocated' \ allocated : alloc_pages(b)
    \/ \E b \in allocated : free_pages(b)

Spec == Init /\ [][Next]_allocated
=============================================================================
