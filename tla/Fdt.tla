-------------------------------- MODULE Fdt --------------------------------
(***************************************************************************)
(* lib/dtb: DeviceTree::parse and Node::parse, as the machine that walks   *)
(* over the structure block (the recursion of Node::parse is the stack of  *)
(* the nodes that are open), and the functions of utils.rs.                *)
(*                                                                         *)
(* The structure block is a sequence of 32-bit words; pos is an offset in  *)
(* bytes.  A name is its part before '@', the part after it, and its       *)
(* length; a value is its length with what it holds: cells of a reg        *)
(* property, a path or the strings of a compatible property.               *)
(***************************************************************************)
EXTENDS Integers, Sequences, SequencesExt

CONSTANTS
    WordBase   \* the number of values of a 32-bit cell

ASSUME FdtAssumption == WordBase \in Nat \ {0}

VARIABLES
    words,    \* the structure block of the blob that firmware passed
    pos,      \* where the parser is
    stack     \* the nodes that are open, the root first

fdtVars == <<words, pos, stack>>

Name(base, unit, len) == [base |-> base, unit |-> unit, len |-> len]
Cells(cells) == [len |-> 4 * Len(cells), cells |-> cells, path |-> <<>>, strings |-> {}]

Word(at) == IF at % 4 = 0 /\ at \div 4 < Len(words) THEN words[(at \div 4) + 1] ELSE <<"beyond">>

NewNode(name) ==
    [name |-> name, progs |-> <<>>, child_nodes |-> <<>>, size_cells |-> 1, address_cells |-> 2]

Open == stack[Len(stack)]
WithOpen(node) == [stack EXCEPT ![Len(stack)] = node]

NamePadding(len) == 4 - (len % 4)
ValuePadding(len) == (4 - (len % 4)) % 4

(* The root is complete: Node::parse returns before its FDT_END_NODE. *)
RootParsed == Len(stack) = 1 /\ Word(pos) = <<"FDT_END_NODE">>

(* The bytes that the next step reads; after the root also FDT_END. *)
TokenLength ==
    CASE Word(pos) = <<"FDT_BEGIN_NODE">> ->
           4 + Word(pos + 4)[2].len + NamePadding(Word(pos + 4)[2].len)
      [] Word(pos) = <<"FDT_PROP">> ->
           12 + Word(pos + 4)[2] + ValuePadding(Word(pos + 4)[2])
      [] OTHER -> IF RootParsed THEN 8 ELSE 4

begin_node ==
    LET name == Word(pos + 4)[2]
    IN  /\ Word(pos) = <<"FDT_BEGIN_NODE">>
        /\ pos' = pos + TokenLength
        /\ stack' = Append(stack, NewNode(name))
        /\ UNCHANGED words

(* The parent gives a child the cells it has declared so far. *)
end_node ==
    LET parent == stack[Len(stack) - 1]
        child == [Open EXCEPT !.size_cells = parent.size_cells,
                              !.address_cells = parent.address_cells]
    IN  /\ Word(pos) = <<"FDT_END_NODE">> /\ Len(stack) > 1
        /\ pos' = pos + 4
        /\ stack' = Append(SubSeq(stack, 1, Len(stack) - 2),
                           [parent EXCEPT !.child_nodes = Append(@, child)])
        /\ UNCHANGED words

nop ==
    /\ Word(pos) = <<"FDT_NOP">>
    /\ pos' = pos + 4
    /\ UNCHANGED <<words, stack>>

(* Mutant: the children before the property keep the old number. *)
Declare_later(node, field, n) == [node EXCEPT ![field] = n]
(* A number of cells holds for all children of the node. *)
Declare(node, field, n) ==
    [node EXCEPT ![field] = n,
                 !.child_nodes = [i \in DOMAIN @ |-> [@[i] EXCEPT ![field] = n]]]

prop ==
    LET len == Word(pos + 4)[2]
        name == Word(pos + 8)[2]
        value == IF len = 0 THEN Cells(<<>>) ELSE Word(pos + 12)[2]
    IN  /\ Word(pos) = <<"FDT_PROP">>
        /\ pos' = pos + TokenLength
        /\ stack' = WithOpen(CASE name = "#size-cells" -> Declare(Open, "size_cells", value.cells[1])
                               [] name = "#address-cells" -> Declare(Open, "address_cells", value.cells[1])
                               [] OTHER -> [Open EXCEPT !.progs = Append(@, [name |-> name, value |-> value])])
        /\ UNCHANGED words

(* The debug_asserts on the tokens, which the debug build checks. *)
BadToken ==
    \/ RootParsed /\ Word(pos + 4) # <<"FDT_END">>
    \/ Word(pos) \notin {<<"FDT_BEGIN_NODE">>, <<"FDT_END_NODE">>, <<"FDT_NOP">>, <<"FDT_PROP">>}

ParseStep == begin_node \/ end_node \/ nop \/ prop
-----------------------------------------------------------------------------
get_properties(node, name) == SelectSeq(node.progs, LAMBDA p : p.name = name)
Has(node, name) == get_properties(node, name) # <<>>
get_property(node, name) == get_properties(node, name)[1].value

node_name(node) == node.name.base
check_compatible(node, compatible) ==
    Has(node, "compatible") /\ compatible \in get_property(node, "compatible").strings

U64(cells, at) == WordBase * cells[at] + cells[at + 1]

(* parse_reg panics if a slice ends beyond reg, or if an entry has no cells. *)
RegPanics(reg, a, s) ==
    LET entries == Len(reg) \div (a + s)
        last == (entries - 1) * (a + s)
    IN  \/ a + s = 0
        \/ entries > 0 /\ \/ a = 2 /\ last + 2 > Len(reg)
                          \/ s = 2 /\ last + 4 > Len(reg)
                          \/ s # 2 /\ last + 2 > Len(reg)

(* The size at its place for two cells of each, or for one of each. *)
RegSize(cells, at, s) == IF s = 2 THEN U64(cells, at + 2) ELSE cells[at + 1]

parse_reg(reg, a, s) ==
    [e \in 1..(Len(reg) \div (a + s)) |->
        LET at == (e - 1) * (a + s) + 1
        IN  <<IF a = 2 THEN U64(reg, at) ELSE reg[at], RegSize(reg, at, s)>>]
=============================================================================
