----------------------------- MODULE PageTable -----------------------------
(***************************************************************************)
(* The page tables, src/page/mapping.rs: a Mapper is a radix tree of pages *)
(* that maps virtual to physical pages.  Tables come from the page         *)
(* allocator, which hands out any page that nobody owns; a freed page      *)
(* keeps its contents until Table::new clears it.                          *)
(*                                                                         *)
(* An operation holds the allocator's lock from its first to its last      *)
(* step; the loops of map_4k and destroy are one step per iteration.       *)
(***************************************************************************)
EXTENDS Integers, FiniteSets

CONSTANTS
    Level,       \* LEVEL: 3 on riscv64, 4 on arm64
    PtesPerDir,  \* PTES_PER_DIR
    Pages,       \* the pages that the page allocator can hand out
    Maps,        \* the calls of map_4k, as [vpn, ppn, mode]
    Mappers      \* the address spaces that can exist at a time

None == 0

(* The pages that are mapped, which others own, and the virtual pages. *)
Data == {x.ppn : x \in Maps}
Vpns == {x.vpn : x \in Maps}

Indexes == 0..(PtesPerDir - 1)
Levels == 0..(Level - 1)

index(vpn, level) == (vpn \div (PtesPerDir ^ level)) % PtesPerDir

(* An address has no bits but those of its indexes and of the offset.      *)
ASSUME PageTableAssumption ==
    /\ Level \in Nat /\ Level >= 3
    /\ PtesPerDir \in Nat \ {0}
    /\ \A l \in Levels : PtesPerDir ^ l \in Nat \ {0}
    /\ Pages \cup Data \subseteq Nat \ {None}
    /\ Pages \cap Data = {}
    /\ Vpns \subseteq Nat
    /\ \A v, w \in Vpns : (\A l \in Levels : index(v, l) = index(w, l)) => v = w
    /\ \A x \in Maps : x.mode # {}

VARIABLES
    used,     \* the pages that are allocated
    mem,      \* mem[p]: the contents of page p, read as a table
    root,     \* root[m]: the root table of m, or None
    op,       \* the operation in progress
    told,     \* history: told[m][v], what map_4k was last told of v
    leaked,   \* history: the level-1 tables of destroyed mappers
    dangling  \* history: unmap_4k has freed a table that an entry leads to

vars == <<used, mem, root, op, told, leaked, dangling>>

(* Entry::new: an entry without access rights leads to a table. *)
Entry(page, mode) == [page |-> page, mode |-> mode]
Empty == Entry(None, {})
is_valid(entry) == entry # Empty

NoEntries == [i \in Indexes |-> Empty]

(* pc "map" is in the loop of map_4k at current_table = tables[level]; pc   *)
(* "destroy" in the loop of destroy, with its arrays page_tables and        *)
(* indexes; "oom" is the panic of Table::new, which stops the kernel.      *)
NoOp == [pc |-> "idle", m |-> None, level |-> 0,
         tables |-> [l \in Levels |-> None], indexes |-> [l \in Levels |-> 0],
         vpn |-> 0, leaf |-> Empty]

Begin(pc, m) ==
    [NoOp EXCEPT !.pc = pc, !.m = m, !.level = Level - 1, !.tables[Level - 1] = root[m]]

(* What follows a use of a freed table is undefined; the model stops. *)
Ready == op = NoOp /\ ~dangling

(* Mutant: the page is not cleared. *)
NewTable_dirty(p) == mem[p]

(* Table::new clears the page it gets. *)
NewTable(p) == NoEntries

Oom == Pages \subseteq used

-----------------------------------------------------------------------------
(* Mapper::new *)
new(m) ==
    /\ Ready
    /\ root[m] = None
    /\ \/ \E p \in Pages \ used :
            /\ used' = used \cup {p}
            /\ mem' = [mem EXCEPT ![p] = NewTable(p)]
            /\ root' = [root EXCEPT ![m] = p]
            /\ op' = op
       \/ /\ Oom
          /\ op' = [NoOp EXCEPT !.pc = "oom"]
          /\ UNCHANGED <<used, mem, root>>
    /\ UNCHANGED <<told, leaked, dangling>>

map_4k(m, x) ==
    /\ Ready
    /\ root[m] # None
    /\ op' = [Begin("map", m) EXCEPT !.vpn = x.vpn, !.leaf = Entry(x.ppn, x.mode)]
    /\ UNCHANGED <<used, mem, root, told, leaked, dangling>>

MapTable == op.tables[op.level]
MapIndex == index(op.vpn, op.level)

(* One iteration: go down to the table of the next level. *)
Descend(p) == [op EXCEPT !.level = @ - 1, !.tables[op.level - 1] = p]

map_follow ==
    /\ op.pc = "map" /\ op.level > 0
    /\ is_valid(mem[MapTable][MapIndex])
    /\ op' = Descend(mem[MapTable][MapIndex].page)
    /\ UNCHANGED <<used, mem, root, told, leaked, dangling>>

(* Mutant: the new table is not entered in its parent. *)
WithSubTable_lost(p) == [mem EXCEPT ![p] = NewTable(p)]

(* The new table is cleared first and then entered in its parent. *)
WithSubTable(p) ==
    [mem EXCEPT ![p] = NewTable(p), ![MapTable][MapIndex] = Entry(p, {})]

map_new_table ==
    /\ op.pc = "map" /\ op.level > 0
    /\ ~is_valid(mem[MapTable][MapIndex])
    /\ \/ \E p \in Pages \ used :
            /\ used' = used \cup {p}
            /\ mem' = WithSubTable(p)
            /\ op' = Descend(p)
       \/ /\ Oom
          /\ op' = [NoOp EXCEPT !.pc = "oom"]
          /\ UNCHANGED <<used, mem>>
    /\ UNCHANGED <<root, told, leaked, dangling>>

map_leaf ==
    /\ op.pc = "map" /\ op.level = 0
    /\ mem' = [mem EXCEPT ![MapTable][MapIndex] = op.leaf]
    /\ told' = [told EXCEPT ![op.m][op.vpn] = op.leaf]
    /\ op' = NoOp
    /\ UNCHANGED <<used, root, leaked, dangling>>

-----------------------------------------------------------------------------
(* The table of level l on the way from the root of m to vpn, None where    *)
(* the way ends.                                                           *)
TableOf(m, vpn, l) ==
    LET table[k \in Levels] ==
          IF k = Level - 1 THEN root[m]
          ELSE LET t == table[k + 1]
                   e == mem[t][index(vpn, k + 1)]
               IN  IF t = None THEN None
                   ELSE IF is_valid(e) /\ e.mode = {} THEN e.page ELSE None
    IN  table[l]

is_empty(table) == \A i \in Indexes : ~is_valid(table[i])

(* unmap_4k of a page that is mapped: the leaf entry is cleared, and the    *)
(* tables from level 0 upwards are freed as long as they are empty.  The    *)
(* entries that lead to them stay.                                         *)
unmap_4k(m, vpn) ==
    LET leaf_table == TableOf(m, vpn, 0)
        cleared == [mem EXCEPT ![leaf_table][index(vpn, 0)] = Empty]
        freed == {l \in 0..(Level - 2) :
                    \A k \in 0..l : is_empty(cleared[TableOf(m, vpn, k)])}
    IN  /\ Ready
        /\ root[m] # None
        /\ told[m][vpn] # Empty
        /\ mem' = cleared
        /\ used' = used \ {TableOf(m, vpn, l) : l \in freed}
        /\ told' = [told EXCEPT ![m][vpn] = Empty]
        /\ dangling' = (freed # {})
        /\ UNCHANGED <<root, op, leaked>>

-----------------------------------------------------------------------------
(* The tables of mapper m at level l. *)
Children(tables) ==
    {mem[ti[1]][ti[2]].page :
        ti \in {x \in tables \X Indexes : is_valid(mem[x[1]][x[2]])}}

TablesAt(m, l) ==
    LET at[k \in Levels] ==
          IF k = Level - 1 THEN IF root[m] = None THEN {} ELSE {root[m]}
          ELSE Children(at[k + 1])
    IN  at[l]

TablesOf(m) == UNION {TablesAt(m, l) : l \in Levels}

(* Mapper::destroy, called when a Task is dropped. *)
destroy(m) ==
    /\ Ready
    /\ root[m] # None
    /\ op' = Begin("destroy", m)
    /\ leaked' = leaked \cup TablesAt(m, 1)
    /\ UNCHANGED <<used, mem, root, told, dangling>>

DestroyTable == op.tables[op.level]
DestroyEntry == mem[DestroyTable][op.indexes[op.level]]
NextIndex(o) == [o EXCEPT !.indexes[o.level] = @ + 1]

(* Mutant: the loop goes one level too deep. *)
destroy_level1_deep ==
    /\ op.pc = "destroy" /\ op.level = 1
    /\ used' = used \ Children(Children({DestroyTable}))
    /\ op' = NextIndex([op EXCEPT !.level = 2])
    /\ UNCHANGED <<mem, root, told, leaked, dangling>>

(* At level 1 the tables below are freed, and the loop goes up. *)
destroy_level1 ==
    /\ op.pc = "destroy" /\ op.level = 1
    /\ used' = used \ Children({DestroyTable})
    /\ op' = NextIndex([op EXCEPT !.level = 2])
    /\ UNCHANGED <<mem, root, told, leaked, dangling>>

(* Mutant: the index of a finished level is not reset. *)
Up_index(o) == NextIndex([o EXCEPT !.level = @ + 1])

Up(o) == NextIndex([o EXCEPT !.indexes[o.level] = 0, !.level = @ + 1])

(* All entries done: the table is freed; with the root the loop ends. *)
destroy_up ==
    /\ op.pc = "destroy" /\ op.level # 1
    /\ op.indexes[op.level] = PtesPerDir
    /\ used' = used \ {DestroyTable}
    /\ \/ /\ op.level = Level - 1
          /\ op' = NoOp
          /\ root' = [root EXCEPT ![op.m] = None]
          /\ told' = [told EXCEPT ![op.m] = [v \in Vpns |-> Empty]]
       \/ /\ op.level # Level - 1
          /\ op' = Up(op)
          /\ UNCHANGED <<root, told>>
    /\ UNCHANGED <<mem, leaked, dangling>>

destroy_skip ==
    /\ op.pc = "destroy" /\ op.level # 1
    /\ op.indexes[op.level] # PtesPerDir
    /\ ~is_valid(DestroyEntry)
    /\ op' = NextIndex(op)
    /\ UNCHANGED <<used, mem, root, told, leaked, dangling>>

destroy_down ==
    /\ op.pc = "destroy" /\ op.level # 1
    /\ op.indexes[op.level] # PtesPerDir
    /\ is_valid(DestroyEntry)
    /\ op' = Descend(DestroyEntry.page)
    /\ UNCHANGED <<used, mem, root, told, leaked, dangling>>

-----------------------------------------------------------------------------
Init ==
    /\ used = Data
    /\ mem = [p \in Pages |-> NoEntries]
    /\ root = [m \in Mappers |-> None]
    /\ op = NoOp
    /\ told = [m \in Mappers |-> [v \in Vpns |-> Empty]]
    /\ leaked = {}
    /\ dangling = FALSE

Next ==
    \/ \E m \in Mappers : new(m) \/ destroy(m)
    \/ \E m \in Mappers, x \in Maps : map_4k(m, x)
    \/ map_follow \/ map_new_table \/ map_leaf
    \/ \E m \in Mappers, v \in Vpns : unmap_4k(m, v)
    \/ destroy_level1 \/ destroy_up \/ destroy_skip \/ destroy_down

Spec == Init /\ [][Next]_vars

-----------------------------------------------------------------------------
Entries == {Empty} \cup [page : Pages, mode : {{}}] \cup
           {Entry(x.ppn, x.mode) : x \in Maps}

(* TypeOK: a table holds entries that lead to pages. *)
TypeOK ==
    /\ used \subseteq Pages \cup Data
    /\ mem \in [Pages -> [Indexes -> Entries]]
    /\ root \in [Mappers -> Pages \cup {None}]
    /\ op.pc \in {"idle", "map", "destroy", "oom"}
    /\ op.level \in Levels
    /\ op.tables \in [Levels -> Pages \cup {None}]
    /\ op.indexes \in [Levels -> 0..PtesPerDir]
    /\ told \in [Mappers -> [Vpns -> Entries]]
    /\ leaked \subseteq Pages
    /\ dangling \in BOOLEAN

(* Translates: what the hardware finds for a virtual page is what map_4k    *)
(* was last told of it, in the middle of operations on this and on other    *)
(* mappers too; a page that was never mapped, or was unmapped, faults.      *)
Destroying(m) == op.pc = "destroy" /\ op.m = m

Walk(m, vpn) ==
    LET t == TableOf(m, vpn, 0) IN IF t = None THEN Empty ELSE mem[t][index(vpn, 0)]

Translates ==
    ~dangling =>
      \A m \in Mappers : ~Destroying(m) => \A v \in Vpns : Walk(m, v) = told[m][v]

(* TreesApart: the tables of a mapper are allocated, no table is a table of *)
(* two mappers or has two entries leading to it, and none is a page that    *)
(* somebody maps: a change to one address space cannot show in another.    *)
UpperTables(m) == UNION {TablesAt(m, l) : l \in 1..(Level - 1)}

References(p) ==
    {mti \in UNION {{m} \X UpperTables(m) \X Indexes : m \in Mappers} :
        mem[mti[2]][mti[3]].page = p}

TreesApart ==
    /\ TypeOK
    /\ ~dangling =>
         \A m \in Mappers : ~Destroying(m) =>
           /\ TablesOf(m) \subseteq used \ Data
           /\ \A n \in Mappers \ {m} : TablesOf(m) \cap TablesOf(n) = {}
           /\ \A p \in TablesOf(m) :
                Cardinality(References(p)) = IF p = root[m] THEN 0 ELSE 1

(* FreesItsOwn: destroy frees tables of its own mapper, each of them once,  *)
(* and neither a mapped page nor a table of another mapper.                *)
FreesItsOwn ==
    [][Destroying(op.m) /\ ~dangling =>
         /\ used \ used' \subseteq TablesOf(op.m)
         /\ destroy_up => DestroyTable \in used
         /\ destroy_level1 => Children({DestroyTable}) \subseteq used]_vars

(* LeaksLevelOne: between operations every allocated page is a mapped page, *)
(* a table of a mapper, or a level-1 table of a mapper that was destroyed:  *)
(* destroy gives back all other tables, and the task that dies loses those. *)
LeaksLevelOne ==
    Ready => used = Data \cup leaked \cup UNION {TablesOf(m) : m \in Mappers}
=============================================================================
