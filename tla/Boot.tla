-------------------------------- MODULE Boot --------------------------------
(***************************************************************************)
(* What kernel_main makes of the device tree: load_dtb maps and parses the *)
(* blob, soc_init (arch/arm64.rs) finds the interrupt controller and       *)
(* init_gic_regs (gic.rs) takes its registers, setup_console finds the     *)
(* serial line, by its name or by its alias, and makes it /dev/tty0 and    *)
(* the output of kmsg.                                                     *)
(***************************************************************************)
EXTENDS Fdt

CONSTANTS
    Trees,      \* the device trees, as source: [name, items]
    Addrs,      \* addresses of the blob
    Sizes,      \* what stands at the place of totalsize if there is no blob
    HeapPages,  \* pages of the heap, which kernel_pt_init mapped as data
    PAGE_SIZE

ASSUME BootAssumption == PAGE_SIZE \in Nat \ {0} /\ Sizes \subseteq Nat

VARIABLES
    arch,
    tree, magic,      \* the blob: its source, and whether its magic is right
    dtb_addr,
    totalsize,        \* the second word at dtb_addr
    phase,            \* how far kernel_main is
    root,             \* dtb.root
    look,             \* root and path of node_by_alias
    mapped,           \* the pages mapped as read-only data and as data
    gic,              \* GICD_BASE and GICC_BASE
    output_handler, char_devs, tty0   \* the console

bootVars == <<arch, tree, magic, dtb_addr, totalsize, phase, root, look, mapped, gic,
              output_handler, char_devs, tty0>>
vars == <<fdtVars, bootVars>>

None == [driver |-> "none", addr |-> 0]
NoLook == [node |-> NewNode(Name("", "", 0)), path |-> <<>>]

Ceil(a, b) == (a + b - 1) \div b
Panic == phase' = "panic"
Quiet == UNCHANGED <<arch, tree, magic, dtb_addr, totalsize>>
NoConsole == UNCHANGED <<output_handler, char_devs, tty0>>

(* The source of a tree as words.  An item is a property, a node or a nop.  *)
RECURSIVE Encode(_)
Filler(bytes) == [i \in 1..(bytes \div 4) |-> <<"filler">>]
EncodeItem(item) ==
    CASE item.kind = "nop" -> <<<<"FDT_NOP">>>>
      [] item.kind = "node" -> Encode(item.node)
      [] OTHER -> <<<<"FDT_PROP">>, <<"len", item.value.len>>, <<"nameoff", item.name>>>>
                  \o (IF item.value.len = 0 THEN <<>>
                      ELSE <<<<"value", item.value>>>> \o Filler(item.value.len - 1))
Encode(t) ==
    <<<<"FDT_BEGIN_NODE">>, <<"name", t.name>>>> \o Filler(t.name.len)
    \o FlattenSeq([i \in DOMAIN t.items |-> EncodeItem(t.items[i])])
    \o <<<<"FDT_END_NODE">>>>

Pages(addr, size) == {(addr \div PAGE_SIZE) + i : i \in 0..(Ceil(size, PAGE_SIZE) - 1)}
BlobSize == 4 * Len(words)

Init ==
    /\ arch \in {"riscv64", "arm64"} /\ tree \in Trees /\ magic \in BOOLEAN /\ dtb_addr \in Addrs
    /\ words = Append(Encode(tree), <<"FDT_END">>) /\ pos = 0 /\ stack = <<>>
    /\ totalsize \in IF magic THEN {BlobSize} ELSE Sizes
    /\ phase = "load_dtb" /\ root = NewNode(tree.name) /\ look = NoLook
    /\ mapped = {} /\ gic = [set |-> FALSE, d |-> 0, c |-> 0]
    /\ output_handler = None /\ char_devs = <<>> /\ tty0 = -1

(* One page for the header, then the others. *)
BlobPages(addr, size) == {addr \div PAGE_SIZE} \cup Pages(addr + PAGE_SIZE, size - PAGE_SIZE)

(* The size is taken, and the pages are mapped read-only, before anything is *)
(* known of the magic: a size of 0 makes the number of the other pages      *)
(* overflow, a large one makes the heap read-only, and of fewer than four   *)
(* bytes the wrong magic cannot be taken.  Without a tree neither soc_init  *)
(* nor setup_console is called.                                             *)
load_dtb ==
    /\ phase = "load_dtb"
    /\ mapped' = BlobPages(dtb_addr, totalsize)
    /\ phase' = CASE totalsize = 0 -> "panic"
                  [] totalsize # 0 /\ mapped' \cap HeapPages # {} -> "fault"
                  [] OTHER -> IF magic THEN "parse" ELSE IF totalsize < 4 THEN "panic" ELSE "up"
    /\ Quiet /\ NoConsole /\ UNCHANGED <<fdtVars, root, look, gic>>

(* The next step reads on pages that are mapped. *)
TokenMapped ==
    \A b \in 0..(TokenLength - 1) :
        (dtb_addr + pos + b) \div PAGE_SIZE \in mapped \cup HeapPages

parse ==
    /\ phase = "parse" /\ TokenMapped /\ ~RootParsed /\ ~BadToken
    /\ ParseStep
    /\ UNCHANGED bootVars

(* A page that load_dtb did not map is read: an exception in the kernel. *)
parse_fault ==
    /\ phase = "parse" /\ ~TokenMapped
    /\ phase' = "fault"
    /\ Quiet /\ NoConsole /\ UNCHANGED <<fdtVars, root, look, mapped, gic>>

parsed ==
    /\ phase = "parse" /\ TokenMapped /\ (RootParsed \/ BadToken)
    /\ phase' = IF BadToken THEN "panic" ELSE "soc_init"
    /\ root' = IF BadToken THEN root ELSE Open
    /\ Quiet /\ NoConsole /\ UNCHANGED <<fdtVars, look, mapped, gic>>
-----------------------------------------------------------------------------
IsIntc(node) == node_name(node) \in {"intc", "interrupt-controller"}

(* The interrupt controllers in the order in which soc_init looks at them. *)
IntcNodes(r) ==
    FlattenSeq([i \in DOMAIN r.child_nodes |->
        LET node == r.child_nodes[i]
        IN  IF IsIntc(node) THEN <<node>>
            ELSE IF node_name(node) = "soc" THEN SelectSeq(node.child_nodes, IsIntc)
            ELSE <<>>])

IsGic(node) == \E c \in {"arm,cortex-a15-gic", "arm,gic-400", "arm,gic-v3"} : check_compatible(node, c)

RegsOf(node) == parse_reg(get_property(node, "reg").cells, node.address_cells, node.size_cells)
RegsPanic(node) == RegPanics(get_property(node, "reg").cells, node.address_cells, node.size_cells)
PagesOf(regs) == UNION {Pages(regs[i][1], regs[i][2]) : i \in DOMAIN regs}

(* The base addresses are kept in 32 bits. *)
init_gic_regs(node) ==
    IF ~IsGic(node) \/ ~Has(node, "reg") THEN Panic /\ UNCHANGED <<gic, mapped>>
    ELSE IF RegsPanic(node) THEN Panic /\ UNCHANGED <<gic, mapped>>
    ELSE IF Len(RegsOf(node)) < 2 THEN Panic /\ UNCHANGED <<gic, mapped>>
    ELSE /\ gic' = [set |-> TRUE, d |-> RegsOf(node)[1][1] % WordBase,
                    c |-> RegsOf(node)[2][1] % WordBase]
         /\ mapped' = mapped \cup PagesOf(RegsOf(node))
         /\ phase' = "setup_console"

(* Without an interrupt controller the enabling of interrupt 27 writes to    *)
(* an address that was never initialised.                                   *)
soc_init ==
    LET intcs == IntcNodes(root)
    IN  /\ phase = "soc_init"
        /\ CASE arch = "riscv64" -> phase' = "setup_console" /\ UNCHANGED <<gic, mapped>>
             [] arch = "arm64" /\ intcs = <<>> -> phase' = "undefined" /\ UNCHANGED <<gic, mapped>>
             [] OTHER -> init_gic_regs(intcs[1])
        /\ Quiet /\ NoConsole /\ UNCHANGED <<fdtVars, root, look>>
-----------------------------------------------------------------------------
(* The drivers that setup_by_serial0_node registers, in its order. *)
Drivers(node) ==
    IF ~Has(node, "reg") THEN <<>>
    ELSE (IF check_compatible(node, "arm,pl011") THEN <<"PL011">> ELSE <<>>)
         \o (IF check_compatible(node, "ns16550a") THEN <<"NS16550">> ELSE <<>>)

(* Mutant: the device number is taken after the device is registered. *)
DeviceId_after(devs) == Len(devs)
(* register_char_dev returns the number of devices before, from 0. *)
DeviceId(devs) == Len(devs) - 1

setup_by_serial0_node(node) ==
    LET devs == [i \in DOMAIN Drivers(node) |->
                   [driver |-> Drivers(node)[i], addr |-> RegsOf(node)[1][1]]]
    IN  IF ~Has(node, "reg") THEN phase' = "up" /\ NoConsole /\ UNCHANGED mapped
        ELSE IF RegsPanic(node) THEN Panic /\ NoConsole /\ UNCHANGED mapped
        ELSE IF Drivers(node) # <<>> /\ RegsOf(node) = <<>>
             THEN Panic /\ NoConsole /\ UNCHANGED mapped
        ELSE /\ phase' = "up"
             /\ char_devs' = char_devs \o devs
             /\ output_handler' = IF devs = <<>> THEN output_handler ELSE Last(devs)
             /\ tty0' = IF devs = <<>> THEN tty0 ELSE DeviceId(char_devs')
             /\ mapped' = mapped \cup PagesOf(RegsOf(node))

(* The first child of the root that is the console or names it. *)
IsSerial0(node) == node_name(node) = "serial0"
IsAlias(node) == node.name = Name("aliases", "", 7) /\ Has(node, "serial0")
Candidates(r) == SelectSeq(r.child_nodes, LAMBDA n : IsSerial0(n) \/ IsAlias(n))

setup_console ==
    LET nodes == Candidates(root)
    IN  /\ phase = "setup_console"
        /\ IF nodes = <<>>
           THEN phase' = "up" /\ NoConsole /\ UNCHANGED <<mapped, look>>
           ELSE IF IsSerial0(nodes[1])
           THEN setup_by_serial0_node(nodes[1]) /\ UNCHANGED look
           ELSE /\ phase' = "node_by_alias"
                /\ look' = [node |-> root, path |-> get_property(nodes[1], "serial0").path]
                /\ NoConsole /\ UNCHANGED mapped
        /\ Quiet /\ UNCHANGED <<fdtVars, root, gic>>

Matches == SelectSeq(look.node.child_nodes, LAMBDA n : n.name = look.path[1])

Descend(path) == Tail(path)

(* One round of the outer loop of node_by_alias.  If no child matches, the  *)
(* loop starts over with the same root and path.                           *)
node_by_alias ==
    /\ phase = "node_by_alias"
    /\ IF look.path = <<>> THEN Panic /\ NoConsole /\ UNCHANGED <<mapped, look>>
       ELSE IF Matches = <<>> THEN NoConsole /\ UNCHANGED <<mapped, look, phase>>
       ELSE IF Len(look.path) = 1 THEN setup_by_serial0_node(Matches[1]) /\ UNCHANGED look
       ELSE /\ look' = [node |-> Matches[1], path |-> Descend(look.path)]
            /\ NoConsole /\ UNCHANGED <<mapped, phase>>
    /\ Quiet /\ UNCHANGED <<fdtVars, root, gic>>

Next == load_dtb \/ parse \/ parse_fault \/ parsed \/ soc_init \/ setup_console \/ node_by_alias

(* One thread runs kernel_main. *)
Spec == Init /\ [][Next]_vars /\ WF_vars(Next)
-----------------------------------------------------------------------------
(* What a tree says, for reference. *)
Declared(t, name, default) ==
    LET decls == SelectSeq(t.items, LAMBDA i : i.kind = "prop" /\ i.name = name)
    IN  IF decls = <<>> THEN default ELSE Last(decls).value.cells[1]

AddressCells(t) == Declared(t, "#address-cells", 2)
SizeCells(t) == Declared(t, "#size-cells", 1)

Plain(t) == SelectSeq(t.items, LAMBDA i : i.kind = "prop" /\ i.name \notin {"#address-cells", "#size-cells"})
Children(t) == SelectSeq(t.items, LAMBDA i : i.kind = "node")

(* The node that t stands for below a parent with these cells. *)
RECURSIVE Meaning(_, _, _)
Meaning(t, a, s) ==
    [name |-> t.name, size_cells |-> s, address_cells |-> a,
     progs |-> [i \in DOMAIN Plain(t) |-> [name |-> Plain(t)[i].name, value |-> Plain(t)[i].value]],
     child_nodes |-> [i \in DOMAIN Children(t) |->
                        Meaning(Children(t)[i].node, AddressCells(t), SizeCells(t))]]
RootMeaning == Meaning(tree, AddressCells(tree), SizeCells(tree))

RECURSIVE Shape(_)
Shape(node) == [name |-> node.name, progs |-> node.progs,
                child_nodes |-> [i \in DOMAIN node.child_nodes |-> Shape(node.child_nodes[i])]]

(* The set of nodes at a path below node. *)
RECURSIVE At(_, _)
At(node, path) ==
    IF path = <<>> THEN {node}
    ELSE UNION {At(node.child_nodes[i], Tail(path)) :
                  i \in {j \in DOMAIN node.child_nodes : node.child_nodes[j].name = path[1]}}

(* The node of the console, if the tree has one. *)
ConsoleNodes ==
    LET nodes == Candidates(RootMeaning)
    IN  IF nodes = <<>> THEN {}
        ELSE IF IsSerial0(nodes[1]) THEN {nodes[1]}
        ELSE LET path == get_property(nodes[1], "serial0").path
             IN  IF path = <<>> THEN {} ELSE At(RootMeaning, path)

(* A number of n cells, and the entries of reg, as the specification has them. *)
RECURSIVE Number(_)
Number(cells) == IF cells = <<>> THEN 0
                 ELSE WordBase * Number(SubSeq(cells, 1, Len(cells) - 1)) + Last(cells)
Entries(node) ==
    LET reg == get_property(node, "reg").cells
        a == node.address_cells
        n == a + node.size_cells
    IN  [e \in 1..(Len(reg) \div n) |->
           <<Number(SubSeq(reg, (e - 1) * n + 1, (e - 1) * n + a)),
             Number(SubSeq(reg, (e - 1) * n + a + 1, e * n))>>]

(* Cells as parse_reg supports them: two for each, or one for each. *)
HasRegs(node, n) ==
    /\ node.address_cells = node.size_cells /\ node.size_cells \in {1, 2}
    /\ Has(node, "reg") /\ Len(Entries(node)) >= n

GicSupported ==
    arch = "riscv64" \/
    LET intcs == IntcNodes(RootMeaning)
    IN  intcs # <<>> /\ IsGic(intcs[1]) /\ HasRegs(intcs[1], 2)

ConsoleSupported ==
    Candidates(RootMeaning) # <<>> => \E node \in ConsoleNodes : HasRegs(node, 1)

(* Every byte of a register window, given that it starts on a page. *)
WindowMapped(entry) ==
    entry[1] % PAGE_SIZE = 0 =>
        \A b \in 0..(entry[2] - 1) : (entry[1] + b) \div PAGE_SIZE \in mapped
-----------------------------------------------------------------------------
(* TreeParsed: Node::parse finds every node and every property of the blob   *)
(* in its place, over all the paddings of names and values and over nops,   *)
(* and fails on none of the debug_asserts.                                  *)
TreeParsed ==
    /\ phase = "parse" => ~BadToken
    /\ phase \notin {"load_dtb", "parse", "fault"} /\ magic => Shape(root) = Shape(RootMeaning)

(* CellsOfParent: a node has the numbers of cells that its parent declares,  *)
(* or 2 and 1, wherever in the parent the declarations stand.               *)
CellsOfParent ==
    phase \notin {"load_dtb", "parse", "fault", "panic"} /\ magic => root = RootMeaning

(* The blob ends within as many pages as its size needs, as one that starts  *)
(* on a page always does.                                                   *)
BlobFits == (dtb_addr % PAGE_SIZE) + BlobSize <= PAGE_SIZE * Ceil(BlobSize, PAGE_SIZE)

(* BlobMapped: the parser faults on a blob exactly if the blob starts within *)
(* a page and ends on a page beyond those that load_dtb counts by the size  *)
(* alone; a blob that starts on a page is never read where it is not mapped.*)
BlobMapped ==
    magic /\ phase \notin {"load_dtb", "parse"} => (phase = "fault") = ~BlobFits

(* ConsoleRight: kmsg writes to the registers of the node that serial0 is or *)
(* names, /dev/tty0 is that device, and all its registers are mapped.       *)
ConsoleRight ==
    \A node \in ConsoleNodes :
       phase = "up" /\ magic /\ HasRegs(node, 1) =>
         /\ \A e \in DOMAIN Entries(node) : WindowMapped(Entries(node)[e])
         /\ Drivers(node) # <<>> =>
              /\ output_handler = [driver |-> Last(Drivers(node)), addr |-> Entries(node)[1][1]]
              /\ tty0 + 1 \in DOMAIN char_devs /\ char_devs[tty0 + 1] = output_handler

(* GicRight: soc_init takes the distributor and what it uses as the CPU      *)
(* interface from the first two windows of the first controller, and they   *)
(* are mapped.  The second window of an arm,gic-v3 is its redistributor,    *)
(* which init_gic_regs uses as a CPU interface all the same; and addresses  *)
(* beyond 32 bits do not survive (README, section 6).                       *)
GicRight ==
    gic.set /\ GicSupported =>
      LET entries == Entries(IntcNodes(RootMeaning)[1])
      IN  /\ \A e \in DOMAIN entries : WindowMapped(entries[e])
          /\ entries[1][1] < WordBase => gic.d = entries[1][1]
          /\ entries[2][1] < WordBase => gic.c = entries[2][1]

(* TreeRead: the tree that kernel_main works with is the one in the blob, and *)
(* the parser ends in a fault only where the blob lies across its pages.    *)
TreeRead == TreeParsed /\ CellsOfParent /\ BlobMapped

(* DevicesFound: the console and the interrupt controller are those that the *)
(* tree names, at the addresses it gives, and their registers are mapped.   *)
DevicesFound == ConsoleRight /\ GicRight

(* What load_dtb can take: a blob that it maps to its end, or something that *)
(* is no blob, but whose second word is a size that does no harm.           *)
Loadable ==
    /\ BlobPages(dtb_addr, totalsize) \cap HeapPages = {}
    /\ IF magic THEN BlobFits ELSE totalsize >= 4

=============================================================================
