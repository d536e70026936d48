------------------------------- MODULE Mcache -------------------------------
(***************************************************************************)
(* The kernel heap, src/mcache.rs: objects are cells of caches, a cache is *)
(* a run of pages from the page allocator, and a CacheManager has SLOT_NUM *)
(* slots for caches.  Managers form a chain; the first is the static       *)
(* GLOBAL_ALLOCATOR, each later one is itself an object in a cache of its  *)
(* predecessor.  Two lists start at the first manager: next_free (managers *)
(* with a free slot) and, per size class, next_partial_free (managers with *)
(* a cache that is neither empty nor full).                                *)
(*                                                                         *)
(* The cells of one cache are alike, so a cache is its two counters.  A    *)
(* call of alloc or dealloc holds the lock and is one step; objects beyond *)
(* the largest class go straight to the page allocator and are left out.   *)
(***************************************************************************)
EXTENDS Integers, Sequences, FiniteSets, FiniteSetsExt

CONSTANTS
    Classes,    \* the size classes
    MgrClass,   \* the class of Layout::new::<CacheManager>()
    Cells,      \* Cells[c]: usable cells of a cache of class c
    SlotNum,    \* SLOT_NUM
    MaxMgrs,    \* bound: managers
    MaxCaches   \* bound: caches at one time

ASSUME McacheAssumption ==
    /\ MgrClass \in Classes
    /\ Cells \in [Classes -> Nat \ {0}]
    /\ SlotNum \in Nat /\ SlotNum >= 3
    /\ MaxMgrs \in Nat \ {0} /\ MaxCaches \in Nat

None == 0
First == 1
MgrIds == 1..MaxMgrs
CacheIds == 1..MaxCaches

VARIABLES
    mgrs,    \* the CacheManagers, in the order they were made
    caches,  \* the CachePages; a cache without pages is NoCache
    cell,    \* cell[m]: the cache that holds manager m
    live,    \* live[k]: objects callers hold in cache k
    status,  \* "ok", or where the kernel stopped
    stale    \* history: a listed manager lost its last partial cache

vars == <<mgrs, caches, cell, live, status, stale>>

Slots == 1..SlotNum

(* owner is the manager pointer in the header of the cache's objects. *)
NoCache == [class |-> MgrClass, free |-> 0, used |-> 0, owner |-> None]

(* CacheManager::default *)
NewManager(prev, next_free) ==
    [caches |-> [s \in Slots |-> None], next |-> None, prev |-> prev,
     next_partial_free |-> [c \in Classes |-> None],
     partial_counts |-> [c \in Classes |-> 0],
     next_free |-> next_free, used_slots |-> 0]

-----------------------------------------------------------------------------
(* The code below is sequential: operators on a heap h = [mgrs, caches,     *)
(* cell], the result of an allocation adds the cache "at" it came from.    *)
Heap == [mgrs |-> mgrs, caches |-> caches, cell |-> cell, at |-> None]

(* Assignments to a link or a counter of manager m, and to one of its slots *)
SetCount(h, m, c, v) == [h EXCEPT !.mgrs[m].partial_counts[c] = v]
SetPartial(h, m, c, p) == [h EXCEPT !.mgrs[m].next_partial_free[c] = p]
SetFree(h, m, p) == [h EXCEPT !.mgrs[m].next_free = p]
SetSlot(h, m, s, k, used) ==
    [h EXCEPT !.mgrs[m].caches[s] = k, !.mgrs[m].used_slots = used]

SetCache(h, k, p) == [h EXCEPT !.caches[k] = p]

is_slots_full(h, m) == h.mgrs[m].used_slots = SlotNum

is_global_allocator(h, m) == h.mgrs[m].prev = None

(* The slots from which cache_alloc can take a cell of class c. *)
Usable(h, m, c) ==
    {s \in Slots : LET k == h.mgrs[m].caches[s]
                   IN  k # None /\ h.caches[k].class = c /\ h.caches[k].free > 0}

CanCacheAlloc(h, m, c) ==
    h.mgrs[m].partial_counts[c] # 0 /\ Usable(h, m, c) # {}

(* CachePage::alloc_obj *)
alloc_obj(h, k) ==
    LET p == h.caches[k]
    IN  [SetCache(h, k, [p EXCEPT !.free = p.free - 1, !.used = p.used + 1]) EXCEPT !.at = k]

(* cache_alloc: the first usable cache; a manager whose last partial cache  *)
(* becomes full leaves the list, of which it is the head.                  *)
cache_alloc(h, m, c) ==
    LET k == h.mgrs[m].caches[Min(Usable(h, m, c))]
        count == h.mgrs[m].partial_counts[c]
        taken == alloc_obj(h, k)
        counted == SetCount(taken, m, c, count - 1)
    IN  IF taken.caches[k].free # 0 THEN taken
        ELSE IF count # 1 THEN counted
        ELSE SetPartial(counted, First, c, counted.mgrs[m].next_partial_free[c])

(* add_cache: the first empty slot, if there is one. *)
add_cache(h, m, k) ==
    LET empty == {s \in Slots : h.mgrs[m].caches[s] = None}
    IN  IF empty = {} THEN h
        ELSE SetSlot(h, m, Min(empty), k, h.mgrs[m].used_slots + 1)

(* insert manager m at the head of the partial list of class c *)
PushPartial(h, m, c) ==
    IF is_global_allocator(h, m) \/ h.mgrs[m].partial_counts[c] # 0 THEN h
    ELSE SetPartial(SetPartial(h, m, c, h.mgrs[First].next_partial_free[c]), First, c, m)

Unused(h) == {k \in CacheIds : h.caches[k] = NoCache}

(* new_cache_alloc after try_init_next: CachePage::allocate, alloc_obj,     *)
(* both lists.                                                             *)
NewCache(h, m, c) ==
    LET k == Min(Unused(h))
        page == [class |-> c, free |-> Cells[c], used |-> 0, owner |-> m]
        made == alloc_obj(SetCache(h, k, page), k)
        added == add_cache(PushPartial(made, m, c), m, k)
        counted == SetCount(added, m, c, added.mgrs[m].partial_counts[c] + 1)
    IN  IF is_slots_full(counted, m)
        THEN SetFree(counted, First, counted.mgrs[m].next_free)
        ELSE counted

(* The object just allocated becomes manager new, after m, and the head of  *)
(* the free list.                                                          *)
AddManager(h, m, new) ==
    [SetFree(h, First, new) EXCEPT
       !.mgrs = Append(@, NewManager(m, h.mgrs[First].next_free)), !.cell[new] = h.at]

(* Mutant: the successor is allocated but not put into the free list. *)
try_init_next_unlisted(h, m) ==
    IF h.mgrs[m].next # None THEN h
    ELSE LET new == Len(h.mgrs) + 1
             begun == [h EXCEPT !.mgrs[m].next = new]
             got == IF CanCacheAlloc(begun, m, MgrClass)
                    THEN cache_alloc(begun, m, MgrClass) ELSE NewCache(begun, m, MgrClass)
         IN  [got EXCEPT !.mgrs = Append(@, NewManager(m, None)), !.cell[new] = got.at]

(* try_init_next: manager m, about to use a slot for the first time, makes  *)
(* its successor, an object of its own.  m.next is set before the nested    *)
(* alloc, which has a free slot and so ends in cache_alloc or NewCache.     *)
try_init_next(h, m) ==
    IF h.mgrs[m].next # None THEN h
    ELSE LET new == Len(h.mgrs) + 1
             begun == [h EXCEPT !.mgrs[m].next = new]
             got == IF CanCacheAlloc(begun, m, MgrClass)
                    THEN cache_alloc(begun, m, MgrClass) ELSE NewCache(begun, m, MgrClass)
         IN  AddManager(got, m, new)

new_cache_alloc(h, m, c) == NewCache(try_init_next(h, m), m, c)

(* There is room for what new_cache_alloc on m makes (MaxMgrs, MaxCaches).  *)
InBounds(m) ==
    /\ Cardinality(Unused(Heap)) >= 2
    /\ mgrs[m].next # None \/ Len(mgrs) < MaxMgrs

-----------------------------------------------------------------------------
(* A call returns heap h to its caller. *)
Commit(h) == mgrs' = h.mgrs /\ caches' = h.caches /\ cell' = h.cell

Allocated(h) ==
    /\ Commit(h)
    /\ live' = [live EXCEPT ![h.at] = @ + 1]
    /\ UNCHANGED <<status, stale>>

Stop(why) == status' = why /\ UNCHANGED <<mgrs, caches, cell, live, stale>>

(* alloc on the first manager: one of its own caches serves the request. *)
alloc_cached(c) ==
    /\ status = "ok"
    /\ CanCacheAlloc(Heap, First, c)
    /\ Allocated(cache_alloc(Heap, First, c))

(* none does, but the first manager has a free slot *)
alloc_new_cache(c) ==
    /\ status = "ok"
    /\ ~CanCacheAlloc(Heap, First, c) /\ ~is_slots_full(Heap, First)
    /\ InBounds(First)
    /\ Allocated(new_cache_alloc(Heap, First, c))

(* it has none: the head of the partial list has to serve; unwrap() *)
alloc_partial(c) ==
    LET m == mgrs[First].next_partial_free[c]
    IN  /\ status = "ok"
        /\ ~CanCacheAlloc(Heap, First, c) /\ is_slots_full(Heap, First)
        /\ m # None
        /\ IF CanCacheAlloc(Heap, m, c) THEN Allocated(cache_alloc(Heap, m, c))
           ELSE Stop("no_partial")

(* the partial list is empty: the head of the free list; unwrap() *)
alloc_free_slot(c) ==
    LET m == mgrs[First].next_free
    IN  /\ status = "ok"
        /\ ~CanCacheAlloc(Heap, First, c) /\ is_slots_full(Heap, First)
        /\ mgrs[First].next_partial_free[c] = None
        /\ IF m = None THEN Stop("no_slot")
           ELSE InBounds(m) /\ Allocated(new_cache_alloc(Heap, m, c))

-----------------------------------------------------------------------------
(* The last object of the cache in slot s of manager m is gone: its pages   *)
(* go back and the slot is free.                                           *)
DropCache(h, m, s) ==
    LET k == h.mgrs[m].caches[s]
        c == h.caches[k].class
        listed == IF ~is_global_allocator(h, m) /\ is_slots_full(h, m)
                  THEN SetFree(SetFree(h, m, h.mgrs[First].next_free), First, m)
                  ELSE h
        emptied == SetSlot(SetCache(listed, k, NoCache), m, s, None,
                           h.mgrs[m].used_slots - 1)
    IN  SetCount(emptied, m, c, h.mgrs[m].partial_counts[c] - 1)

(* Mutant: a full cache that gets a free cell is not listed again. *)
free_obj_unlisted(h, m, k) ==
    LET p == h.caches[k]
        c == p.class
        was_full == IF p.free = 0
                    THEN SetCount(h, m, c, h.mgrs[m].partial_counts[c] + 1) ELSE h
    IN  SetCache(was_full, k, [p EXCEPT !.used = p.used - 1, !.free = p.free + 1])

(* An object of cache k is put back; a full cache becomes a partial one. *)
free_obj(h, m, k) ==
    LET p == h.caches[k]
        c == p.class
        was_full == IF p.free = 0
                    THEN SetCount(PushPartial(h, m, c), m, c, h.mgrs[m].partial_counts[c] + 1)
                    ELSE h
    IN  SetCache(was_full, k, [p EXCEPT !.used = p.used - 1, !.free = p.free + 1])

(* Mutant: the pages go back one object too early. *)
Emptied_early(h, k) == h.caches[k].used =< 1

Emptied(h, k) == h.caches[k].used = 0

(* dealloc of an object of cache k: the header names the manager, the       *)
(* manager's slots are searched for the cache.  A manager whose last cache  *)
(* goes is freed itself; KeepsManagers says that this never happens, and    *)
(* the model stops there.                                                  *)
dealloc(k) ==
    LET m == caches[k].owner
        at == {s \in Slots : mgrs[m].caches[s] = k}
        freed == free_obj(Heap, m, k)
        dropped == DropCache(freed, m, Min(at))
    IN  /\ status = "ok"
        /\ live[k] > 0
        /\ live' = [live EXCEPT ![k] = @ - 1]
        /\ IF at = {} THEN Commit(Heap) /\ UNCHANGED <<status, stale>>
           ELSE IF ~Emptied(freed, k) THEN Commit(freed) /\ UNCHANGED <<status, stale>>
           ELSE /\ Commit(dropped)
                /\ stale' = \/ stale
                            \/ /\ ~is_global_allocator(dropped, m)
                               /\ dropped.mgrs[m].partial_counts[caches[k].class] = 0
                /\ status' = IF dropped.mgrs[m].used_slots = 0
                                  /\ ~is_global_allocator(dropped, m)
                             THEN "mgr_freed" ELSE status

(* GLOBAL_ALLOCATOR *)
Init ==
    /\ mgrs = <<NewManager(None, None)>>
    /\ caches = [k \in CacheIds |-> NoCache]
    /\ cell = [m \in MgrIds |-> None]
    /\ live = [k \in CacheIds |-> 0]
    /\ status = "ok"
    /\ stale = FALSE

Next ==
    \/ \E c \in Classes :
          alloc_cached(c) \/ alloc_new_cache(c) \/ alloc_partial(c) \/ alloc_free_slot(c)
    \/ \E k \in CacheIds : dealloc(k)

Spec == Init /\ [][Next]_vars

-----------------------------------------------------------------------------
MgrSet == DOMAIN mgrs

(* TypeOK: the counters of CachePage and CacheManager stay in range. *)
TypeOK ==
    /\ \A m \in MgrSet :
         /\ mgrs[m].caches \in [Slots -> CacheIds \cup {None}]
         /\ {mgrs[m].next, mgrs[m].prev, mgrs[m].next_free} \subseteq MgrIds \cup {None}
         /\ mgrs[m].next_partial_free \in [Classes -> MgrIds \cup {None}]
         /\ mgrs[m].partial_counts \in [Classes -> Nat]
         /\ mgrs[m].used_slots \in 0..SlotNum
    /\ \A k \in CacheIds :
         LET p == caches[k]
         IN  /\ p.class \in Classes /\ p.owner \in MgrSet \cup {None}
             /\ p.free \in 0..Cells[p.class] /\ p.used \in 0..Cells[p.class]
    /\ cell \in [MgrIds -> CacheIds \cup {None}]
    /\ live \in [CacheIds -> Nat]
    /\ status \in {"ok", "no_partial", "no_slot", "mgr_freed"}
    /\ stale \in BOOLEAN

(* ObjectsHomed: the manager in the header of a live object has the         *)
(* object's cache in exactly one slot, and no other manager has it, so      *)
(* dealloc finds it; and used_count is the number of live objects, so the   *)
(* pages of a cache go back with its last object and never before.         *)
Home(k) == {ms \in MgrSet \X Slots : mgrs[ms[1]].caches[ms[2]] = k}

ObjectsHomed ==
    \A k \in CacheIds :
      LET objects == live[k] + Cardinality({m \in MgrIds : cell[m] = k})
      IN  /\ caches[k].used = objects
          /\ objects > 0 => \E s \in Slots : Home(k) = {<<caches[k].owner, s>>}
          /\ objects = 0 => caches[k] = NoCache /\ Home(k) = {}

(* PartialCounts: partial_counts[c] is the number of the manager's caches   *)
(* of class c that have a free cell.  A class with one usable cell (512 KB) *)
(* is left out: its new cache is counted although it is full at once.      *)
PartialCounts ==
    \A m \in MgrSet, c \in Classes :
      Cells[c] > 1 => mgrs[m].partial_counts[c] = Cardinality(Usable(Heap, m, c))

(* The managers on a list that starts in the first manager. *)
Listed(next) ==
    LET upto[i \in 0..MaxMgrs] ==
            IF i = 0 THEN {next[First]}
            ELSE upto[i - 1] \cup {next[m] : m \in upto[i - 1] \ {None}}
    IN  upto[MaxMgrs] \ {None}

FreeList == Listed([m \in MgrSet |-> mgrs[m].next_free])

PartialList(c) == Listed([m \in MgrSet |-> mgrs[m].next_partial_free[c]])

(* FreeSlotsListed: every later manager with a free slot is on the free     *)
(* list once ("a list of `CacheManager`s with at least one free cache       *)
(* slots"), so a free slot is never forgotten.                             *)
FreeSlotsListed ==
    /\ FreeList = {m \in MgrSet \ {First} : mgrs[m].used_slots < SlotNum}
    /\ \A l, m \in FreeList \cup {First} :
         l # m /\ mgrs[l].next_free # None => mgrs[l].next_free # mgrs[m].next_free

(* PartialLists: until a manager loses its last partial cache by dealloc,   *)
(* a later manager is on the partial list of a class exactly if it has a    *)
(* cache of the class with a free cell: cells off the list would be lost,   *)
(* and alloc unwraps what the head of the list returns.  Again a class with *)
(* one usable cell is left out.                                            *)
PartialLists ==
    ~stale =>
      /\ \A c \in Classes : Cells[c] > 1 =>
           PartialList(c) = {m \in MgrSet \ {First} : Usable(Heap, m, c) # {}}
      /\ (\A c \in Classes : Cells[c] > 1) => status # "no_partial"

(* SlotAvailable: the unwrap() of next_free in alloc never fails: there is  *)
(* always a manager with a free slot, made before it is needed.            *)
SlotAvailable == status # "no_slot"

(* KeepsManagers: a later manager is never freed.  Its first cache holds    *)
(* its successor, so only the unused last manager has no cache.            *)
KeepsManagers == status # "mgr_freed"

(* ListsAgree: what the managers say twice agrees: the counters and the     *)
(* lists with the caches in the slots, after every alloc and dealloc, those *)
(* nested in try_init_next included.                                       *)
ListsAgree == TypeOK /\ PartialCounts /\ FreeSlotsListed /\ PartialLists

(* ChainServes: the chain of managers always has a slot for a new cache,    *)
(* and dealloc never takes a manager out of it.                            *)
ChainServes == SlotAvailable /\ KeepsManagers
=============================================================================
