--------------------------- MODULE BuddyAllocator ---------------------------
(***************************************************************************)
(* The kernel's page allocator, src/page/buddy_allocator.rs.               *)
(*                                                                         *)
(* A memory zone keeps one LIFO list of free blocks per power of two; the  *)
(* list nodes come from a pool of FreeNodes that alloc_pages extends when  *)
(* it runs low.  Calls run under the BUDDY_ALLOCATOR spinlock, so one call *)
(* is in progress at a time.  The loops of MemoryZone::new and free_pages  *)
(* are one step per iteration; the split loop of alloc_pages touches each  *)
(* power once and is one step.                                             *)
(***************************************************************************)
EXTENDS Integers, Sequences, FiniteSets, FiniteSetsExt, SequencesExt

CONSTANTS
    MaxPow,    \* BUDDY_ALLOC_MAX_POW: powers 0 .. MaxPow - 1 have a list
    Shl,       \* Shl[p] = 1 << p
    NodeCap,   \* NODE_COMPATIBILITY: FreeNodes of the built-in pool
    ExtCap,    \* EXT_NODE_COMPATIBILITY: FreeNodes of an extended pool
    ExtPow,    \* an ExtendedFreeNodePool occupies 1 << ExtPow pages
    Zones,     \* the zones passed to add_zone, as [base, pages]
    Requests   \* the page counts callers ask for

Pows == 0..(MaxPow - 1)

(* MIN_POOL_REMAIN *)
MinPoolRemain == MaxPow

ASSUME ShlAssumption ==
    /\ MaxPow \in Nat \ {0}
    /\ Shl \in [0..MaxPow -> Nat]
    /\ Shl[0] = 1
    /\ \A p \in Pows : Shl[p + 1] = 2 * Shl[p]

(* 8196 nodes against 36, and 64 pages: the inner alloc_pages of            *)
(* new_extended_pool never extends the pool again.                         *)
ASSUME PoolAssumption ==
    /\ NodeCap \in Nat
    /\ ExtCap \in Nat /\ ExtCap > MinPoolRemain
    /\ ExtPow \in Pows

ASSUME ZonesAssumption ==
    /\ Zones \in Seq([base : Nat, pages : Nat])
    /\ \A z \in DOMAIN Zones : Zones[z].pages < Shl[MaxPow]
    /\ \A y, z \in DOMAIN Zones : y # z =>
          \/ Zones[y].base + Zones[y].pages =< Zones[z].base
          \/ Zones[z].base + Zones[z].pages =< Zones[y].base

ASSUME RequestsAssumption == Requests \subseteq 1..Shl[MaxPow]

VARIABLES
    zone_num,         \* how many of Zones have been added
    pows,             \* pows[z][p]: the free list, relative page numbers
    free,             \* BuddyAllocator::free
    free_nodes,       \* length of the list that starts at free_start
    freenode_remain,  \* FreeNodePool::freenode_remain
    extended_pools,   \* the blocks that hold an ExtendedFreeNodePool
    held,             \* the blocks callers own
    op,               \* the call in progress
    misMerged         \* history: a merge took a block of another power

vars == <<zone_num, pows, free, free_nodes, freenode_remain,
          extended_pools, held, op, misMerged>>

Block == [page : Nat, pow : Pows]

(* A call in progress: pc "zone" is in the loop of MemoryZone::new at       *)
(* current_ptr = page; pc "alloc" has extended the pool and still has to    *)
(* serve the request of power req; pc "merge" is in the loop of free_pages  *)
(* over pow, with the block of power req that the caller returned grown to  *)
(* page_relative = page and pow_final = final.  The others are panics, and  *)
(* a panic stops the kernel.                                               *)
Op == [pc : {"idle", "zone", "alloc", "merge", "oom", "no_node", "no_list"},
       req : 0..MaxPow, zone : Nat, pow : 0..MaxPow, page : Nat,
       final : 0..MaxPow]

Call(pc, req, zone) ==
    [pc |-> pc, req |-> req, zone |-> zone, pow |-> 0, page |-> 0, final |-> 0]

MergeCall(req, zone, pow, page, final) ==
    [pc |-> "merge", req |-> req, zone |-> zone, pow |-> pow, page |-> page,
     final |-> final]

Idle == Call("idle", 0, 0)

Panic(why, req) == Call(why, req, 0)

Panicked == op.pc \in {"oom", "no_node", "no_list"}

(* The allocator takes the next call; after a wrong merge it goes on with   *)
(* the lists that merge left.                                              *)
Ready == op = Idle

(* ceil_to_power_2, as the power *)
CeilPow(n) == Min({p \in 0..MaxPow : Shl[p] >= n})

-----------------------------------------------------------------------------
(* MemoryZone::add_node: a node from the pool becomes the head of list p.   *)
add_node(z, p, page) ==
    /\ pows' = [pows EXCEPT ![z][p] = <<page>> \o @]
    /\ free_nodes' = free_nodes - 1
    /\ freenode_remain' = freenode_remain - 1

(* FreeNodePool::alloc_node unwraps free_start. *)
NoNode == free_nodes = 0

(* add_zone builds the zone after the last one; op.page is current_ptr.     *)
add_zone ==
    /\ Ready
    /\ zone_num < Len(Zones)
    /\ op' = Call("zone", 0, zone_num + 1)
    /\ UNCHANGED <<zone_num, pows, free, free_nodes, freenode_remain,
                   extended_pools, held, misMerged>>

(* One iteration of MemoryZone::new: the largest block that still fits.     *)
new_zone_node ==
    LET left == Zones[op.zone].pages - op.page
        pow == Max({p \in Pows : Shl[p] =< left})
    IN  /\ op.pc = "zone"
        /\ left > 0
        /\ IF NoNode
           THEN /\ op' = Panic("no_node", 0)
                /\ UNCHANGED <<pows, free_nodes, freenode_remain>>
           ELSE /\ add_node(op.zone, pow, op.page)
                /\ op' = [op EXCEPT !.page = @ + Shl[pow]]
        /\ UNCHANGED <<zone_num, free, extended_pools, held, misMerged>>

add_zone_done ==
    /\ op.pc = "zone"
    /\ op.page = Zones[op.zone].pages
    /\ zone_num' = op.zone
    /\ free' = free + Zones[op.zone].pages
    /\ op' = Idle
    /\ UNCHANGED <<pows, free_nodes, freenode_remain, extended_pools, held,
                   misMerged>>

-----------------------------------------------------------------------------
(* MemoryZone::alloc_pages.  The powers at which zone z can serve a request *)
(* of power req; the loop takes the lowest, and a zone that has none        *)
(* returns None.                                                           *)
ServingPows(z, req) == {p \in Pows : p >= req /\ pows[z][p] # << >>}

ServingZones(req) == {z \in 1..zone_num : ServingPows(z, req) # {}}

(* Mutant: the last split does not put its right half back. *)
SplitLists_lossy(z, p, req) ==
    [k \in Pows |->
        IF k = p THEN Tail(pows[z][p])
        ELSE IF req < k /\ k < p
             THEN << Head(pows[z][p]) + Shl[k] >> \o pows[z][k]
             ELSE pows[z][k]]

(* Mutant: a block of the exact size stays in its list. *)
SplitLists_kept(z, p, req) ==
    [k \in Pows |->
        IF k = p THEN IF p = req THEN pows[z][p] ELSE Tail(pows[z][p])
        ELSE IF req =< k /\ k < p
             THEN << Head(pows[z][p]) + Shl[k] >> \o pows[z][k]
             ELSE pows[z][k]]

(* Zone z pops the head of list p and pushes the right half of every split  *)
(* down to req.                                                            *)
SplitLists(z, p, req) ==
    [k \in Pows |->
        IF k = p THEN Tail(pows[z][p])
        ELSE IF req =< k /\ k < p
             THEN << Head(pows[z][p]) + Shl[k] >> \o pows[z][k]
             ELSE pows[z][k]]

(* The zone loop of BuddyAllocator::alloc_pages: the first zone that can    *)
(* serve the request does.                                                 *)
ServingZone(req) == Min(ServingZones(req))

ServingPow(req) == Min(ServingPows(ServingZone(req), req))

ServedBlock(req) ==
    [page |-> Zones[ServingZone(req)].base
                + Head(pows[ServingZone(req)][ServingPow(req)]),
     pow  |-> req]

(* Popping a block recycles its node and each split takes one; extra nodes  *)
(* join the pool.                                                          *)
CanServe(req) ==
    /\ ServingZones(req) # {}
    /\ ServingPow(req) - req =< free_nodes + 1

Serve(req, extra) ==
    /\ CanServe(req)
    /\ pows' = [pows EXCEPT ![ServingZone(req)] =
                    SplitLists(ServingZone(req), ServingPow(req), req)]
    /\ free' = free - Shl[req]
    /\ free_nodes' = free_nodes + 1 - (ServingPow(req) - req) + extra
    /\ freenode_remain' = freenode_remain + 1 - (ServingPow(req) - req) + extra

(* Every caller unwraps the OutOfMemory error, add_node unwraps free_start. *)
(* The extra nodes are counted before they are in the pool.                *)
Refuse(req, extra) ==
    /\ ~CanServe(req)
    /\ op' = Panic(IF ServingZones(req) = {} THEN "oom" ELSE "no_node", req)
    /\ freenode_remain' = freenode_remain + extra
    /\ UNCHANGED <<pows, free, free_nodes, extended_pools, held>>

Grant(req) ==
    \/ Refuse(req, 0)
    \/ /\ Serve(req, 0)
       /\ held' = held \cup {ServedBlock(req)}
       /\ op' = Idle
       /\ UNCHANGED extended_pools

(* Mutant: the pool is never checked. *)
alloc_pages_unchecked(n) ==
    /\ Ready
    /\ Grant(CeilPow(n))
    /\ UNCHANGED <<zone_num, misMerged>>

(* A request that finds enough nodes in the pool. *)
alloc_pages(n) ==
    /\ Ready
    /\ freenode_remain > MinPoolRemain
    /\ Grant(CeilPow(n))
    /\ UNCHANGED <<zone_num, misMerged>>

(* new_extended_pool, called for a request of n pages when the pool is low: *)
(* freenode_remain grows first, to avoid recursion, and the pool's own      *)
(* pages come from the same lists.                                         *)
new_extended_pool(n) ==
    /\ Ready
    /\ freenode_remain =< MinPoolRemain
    /\ \/ Refuse(ExtPow, ExtCap)
       \/ /\ Serve(ExtPow, ExtCap)
          /\ extended_pools' = extended_pools \cup {ServedBlock(ExtPow)}
          /\ op' = Call("alloc", CeilPow(n), 0)
          /\ UNCHANGED held
    /\ UNCHANGED <<zone_num, misMerged>>

(* The rest of the alloc_pages call that extended the pool. *)
alloc_pages_extended ==
    /\ op.pc = "alloc"
    /\ Grant(op.req)
    /\ UNCHANGED <<zone_num, misMerged>>

-----------------------------------------------------------------------------
(* free_pages finds the zone of the block and enters the merge loop at the  *)
(* block's own power.  After a wrong merge the very same block may have     *)
(* been handed out twice; it then still has an owner.                      *)
free_pages(b) ==
    /\ Ready
    /\ b \in held
    /\ \E z \in 1..zone_num :
          /\ b.page \in Zones[z].base .. (Zones[z].base + Zones[z].pages - 1)
          /\ op' = MergeCall(b.pow, z, b.pow, b.page - Zones[z].base, b.pow)
    /\ held' = held \ {b} \/ (misMerged /\ held' = held)
    /\ UNCHANGED <<zone_num, pows, free, free_nodes, freenode_remain,
                   extended_pools, misMerged>>

MergeList == pows[op.zone][op.pow]

(* Mutant: every block is taken for the left one of its pair. *)
IsLeft_always == op.page % Shl[op.pow] = 0

IsLeft == op.page % Shl[op.pow + 1] = 0

(* The page the loop looks for in the list of power op.pow. *)
Partner == IF IsLeft THEN op.page + Shl[op.pow] ELSE op.page - Shl[op.pow]

Merging == op.pc = "merge" /\ op.pow < MaxPow /\ MergeList # << >>

(* Mutant: pages_count is doubled before the start moves. *)
merge_found_swapped ==
    /\ Merging
    /\ \E i \in DOMAIN MergeList :
          /\ MergeList[i] = Partner
          /\ \A j \in 1..(i - 1) : MergeList[j] # Partner
          /\ pows' = [pows EXCEPT ![op.zone][op.pow] = RemoveAt(@, i)]
    /\ free_nodes' = free_nodes + 1
    /\ freenode_remain' = freenode_remain + 1
    /\ op' = MergeCall(op.req, op.zone, op.pow + 1,
                       IF IsLeft THEN op.page ELSE op.page - Shl[op.final + 1],
                       op.final + 1)
    /\ misMerged' = (misMerged \/ op.pow # op.final)
    /\ UNCHANGED <<zone_num, free, extended_pools, held>>

(* Mutant: the partner's node is not recycled. *)
merge_found_leak ==
    /\ Merging
    /\ \E i \in DOMAIN MergeList :
          /\ MergeList[i] = Partner
          /\ \A j \in 1..(i - 1) : MergeList[j] # Partner
          /\ pows' = [pows EXCEPT ![op.zone][op.pow] = RemoveAt(@, i)]
    /\ free_nodes' = free_nodes
    /\ freenode_remain' = freenode_remain + 1
    /\ op' = MergeCall(op.req, op.zone, op.pow + 1,
                       IF IsLeft THEN op.page ELSE op.page - Shl[op.final],
                       op.final + 1)
    /\ misMerged' = (misMerged \/ op.pow # op.final)
    /\ UNCHANGED <<zone_num, free, extended_pools, held>>

(* The partner is in the list: unlink it and grow.  A right node moves its  *)
(* start by its own size pages_count = 1 << pow_final.                     *)
merge_found ==
    /\ Merging
    /\ \E i \in DOMAIN MergeList :
          /\ MergeList[i] = Partner
          /\ \A j \in 1..(i - 1) : MergeList[j] # Partner
          /\ pows' = [pows EXCEPT ![op.zone][op.pow] = RemoveAt(@, i)]
    /\ free_nodes' = free_nodes + 1
    /\ freenode_remain' = freenode_remain + 1
    /\ op' = MergeCall(op.req, op.zone, op.pow + 1,
                       IF IsLeft THEN op.page ELSE op.page - Shl[op.final],
                       op.final + 1)
    /\ misMerged' = (misMerged \/ op.pow # op.final)
    /\ UNCHANGED <<zone_num, free, extended_pools, held>>

(* The list has blocks but not the partner: the loop goes on to the next    *)
(* power, pow_final stays behind.                                          *)
merge_miss ==
    /\ Merging
    /\ \A i \in DOMAIN MergeList : MergeList[i] # Partner
    /\ op' = [op EXCEPT !.pow = @ + 1]
    /\ UNCHANGED <<zone_num, pows, free, free_nodes, freenode_remain,
                   extended_pools, held, misMerged>>

(* An empty list or the last power ends the loop: insert the block.        *)
merge_end ==
    /\ op.pc = "merge"
    /\ op.pow < MaxPow => MergeList = << >>
    /\ IF NoNode \/ op.final = MaxPow
       THEN /\ op' = Panic(IF NoNode THEN "no_node" ELSE "no_list", op.req)
            /\ UNCHANGED <<pows, free, free_nodes, freenode_remain>>
       ELSE /\ add_node(op.zone, op.final, op.page)
            /\ free' = free + Shl[op.req]
            /\ op' = Idle
    /\ UNCHANGED <<zone_num, extended_pools, held, misMerged>>

-----------------------------------------------------------------------------
(* The allocator after BuddyAllocator::init. *)
Init ==
    /\ zone_num = 0
    /\ pows = [z \in DOMAIN Zones |-> [p \in Pows |-> << >>]]
    /\ free = 0
    /\ free_nodes = NodeCap
    /\ freenode_remain = NodeCap
    /\ extended_pools = {}
    /\ held = {}
    /\ op = Idle
    /\ misMerged = FALSE

Next ==
    \/ add_zone \/ new_zone_node \/ add_zone_done
    \/ \E n \in Requests : alloc_pages(n) \/ new_extended_pool(n)
    \/ alloc_pages_extended
    \/ \E b \in held : free_pages(b)
    \/ merge_found \/ merge_miss \/ merge_end

Spec == Init /\ [][Next]_vars

-----------------------------------------------------------------------------
(* The pages of a block, with absolute numbers. *)
Pages(b) == b.page .. (b.page + Shl[b.pow] - 1)

(* The blocks in the lists of a zone. *)
ListBlocks(base, lists) ==
    UNION {{[page |-> base + lists[k][i], pow |-> k] : i \in DOMAIN lists[k]} :
              k \in Pows}

FreeIn(z) == ListBlocks(Zones[z].base, pows[z])

FreeBlocks == UNION {FreeIn(z) : z \in DOMAIN Zones}

(* The blocks that somebody owns: callers, the pools, and the block that    *)
(* free_pages is merging, which is in no list.                             *)
InHand ==
    IF op.pc = "merge"
    THEN {[page |-> Zones[op.zone].base + op.page, pow |-> op.final]}
    ELSE {}

Owned == held \cup extended_pools \cup InHand

Blocks == FreeBlocks \cup Owned

(* The pages of zone z, as far as add_zone has built it. *)
Built(z) ==
    IF z =< zone_num THEN Zones[z].pages
    ELSE IF op.pc = "zone" /\ z = op.zone THEN op.page ELSE 0

ZonePages(z) == Zones[z].base .. (Zones[z].base + Built(z) - 1)

(* TypeOK: the fields of BuddyAllocator, FreeNodePool and MemoryZone keep   *)
(* their types; page numbers and node counts never go below zero.          *)
TypeOK ==
    /\ zone_num \in 0..Len(Zones)
    /\ pows \in [DOMAIN Zones -> [Pows -> Seq(Nat)]]
    /\ free \in Int
    /\ free_nodes \in Nat
    /\ freenode_remain \in Nat
    /\ extended_pools \subseteq Block
    /\ held \subseteq Block
    /\ op \in Op
    /\ op.pc = "zone" => op.zone = zone_num + 1 /\ op.zone \in DOMAIN Zones
    /\ op.pc = "merge" => op.zone \in 1..zone_num
    /\ misMerged \in BOOLEAN

(* PagesDisjoint: a page is in at most one block, free or owned, and a      *)
(* block is in one list or has one owner, in the middle of free_pages too.  *)
(* It is what makes an allocation safe to write to.                        *)
OneHome ==
    /\ \A z \in DOMAIN Zones, k \in Pows : IsInjective(pows[z][k])
    /\ held \cap extended_pools = {}
    /\ InHand \cap (held \cup extended_pools) = {}
    /\ FreeBlocks \cap Owned = {}

Apart(B) == \A b, c \in B : b # c => Pages(b) \cap Pages(c) = {}

PagesDisjoint == OneHome /\ Apart(Blocks)

(* PagesKept: every page of every zone is in a free list or has an owner;   *)
(* building a zone, splitting and merging lose none.                       *)
PagesKept ==
    \A z \in DOMAIN Zones : \A x \in ZonePages(z) : \E b \in Blocks : x \in Pages(b)

(* BlocksInZone: no block reaches beyond its zone. *)
BlocksInZone ==
    /\ \A z \in DOMAIN Zones : \A b \in FreeIn(z) : Pages(b) \subseteq ZonePages(z)
    /\ \A b \in Owned : \E z \in 1..zone_num : Pages(b) \subseteq ZonePages(z)

(* Tiling: as long as free_pages has not merged a block with one of another *)
(* power, the free blocks and the owned blocks tile the zones exactly.  A   *)
(* panic ends the kernel; the block free_pages was inserting is then in no  *)
(* list.                                                                   *)
Tiling ==
    ~misMerged /\ ~Panicked => PagesDisjoint /\ PagesKept /\ BlocksInZone

(* NodeAccounting: every FreeNode of the built-in and the extended pools is *)
(* in the pool or in exactly one free list, up to a wrong merge, and        *)
(* freenode_remain, on which alloc_pages decides to extend the pool, is the *)
(* true length, up to a panic.                                             *)
ListNodes ==
    MapThenSumSet(LAMBDA zp : Len(pows[zp[1]][zp[2]]), (DOMAIN Zones) \X Pows)

NodeAccounting ==
    /\ ~misMerged =>
          free_nodes + ListNodes = NodeCap + ExtCap * Cardinality(extended_pools)
    /\ ~Panicked => freenode_remain = free_nodes

(* FreeCounter: between calls BuddyAllocator::free, "Total free pages.", is *)
(* what the lists hold.                                                    *)
ListPages ==
    MapThenSumSet(LAMBDA zp : Len(pows[zp[1]][zp[2]]) * Shl[zp[2]],
                  (DOMAIN Zones) \X Pows)

FreeCounter == op = Idle /\ ~misMerged => free = ListPages

(* Accounting: both counters of the allocator, of nodes at every step and   *)
(* of pages between calls, agree with the lists, through splits, merges and *)
(* extensions of the pool in the middle of a call, as long as free_pages    *)
(* has not merged a block with one of another power.                       *)
Accounting == NodeAccounting /\ FreeCounter

(* Coalesced: between calls no two buddies are both free; free_pages always *)
(* merges as far as it can ("merge free list nodes if possible").          *)
Coalesced ==
    op = Idle /\ ~misMerged =>
      \A z \in 1..zone_num, k \in Pows : \A i, j \in DOMAIN pows[z][k] :
        ~(pows[z][k][i] % Shl[k + 1] = 0 /\ pows[z][k][j] = pows[z][k][i] + Shl[k])

(* OomIsReal: alloc_pages gives up only if no aligned run of free pages of  *)
(* the size it looked for exists in any zone: the size of the request, or   *)
(* of the pool it had to extend first.                                     *)
PageIsFree(z, x) ==
    \E k \in Pows : \E i \in DOMAIN pows[z][k] :
      pows[z][k][i] =< x /\ x < pows[z][k][i] + Shl[k]

OomIsReal ==
    op.pc = "oom" /\ op.req < MaxPow /\ ~misMerged =>
      \A z \in 1..zone_num, s \in 0..Shl[MaxPow] :
        s % Shl[op.req] = 0 /\ s + Shl[op.req] =< Zones[z].pages =>
          \E x \in s..(s + Shl[op.req] - 1) : ~PageIsFree(z, x)

(* NoRoomLost: free pages are not lost to requests: up to a wrong merge,    *)
(* buddies are merged, and a request is refused only if there is no room    *)
(* for it or for the extended pool it needs.                               *)
NoRoomLost == Coalesced /\ OomIsReal

(* AllocKeepsNodes: with more than MIN_POOL_REMAIN nodes in the pool a      *)
(* request never runs out of them, however far it has to split.            *)
AllocKeepsNodes ==
    [][\A n \in Requests : alloc_pages(n) => op'.pc # "no_node"]_vars

(* Implements: until free_pages has merged blocks of different powers,      *)
(* callers see the PageAllocator of page.rs: no block is handed out that    *)
(* overlaps a block somebody holds.  After such a merge one may be.        *)
Abstract == INSTANCE PageAllocator WITH allocated <- held

Implements == Abstract!Init /\ [][misMerged \/ Abstract!Next]_held
=============================================================================
