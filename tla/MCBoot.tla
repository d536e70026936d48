------------------------------- MODULE MCBoot -------------------------------
(* Device trees like those of the virt and raspi machines, and others that   *)
(* the code meets in its error paths.                                        *)
EXTENDS Boot

Prop(name, value) == [kind |-> "prop", name |-> name, value |-> value]
Nop == [kind |-> "nop"]
Node(base, unit, len, items) ==
    [kind |-> "node", node |-> [name |-> Name(base, unit, len), items |-> items]]
Root(items) == [name |-> Name("", "", 0), items |-> items]

Strings(len, strings) == [Cells(<<>>) EXCEPT !.len = len, !.strings = strings]
Path(len, path) == [Cells(<<>>) EXCEPT !.len = len, !.path = path]
A(n) == Prop("#address-cells", Cells(<<n>>))
S(n) == Prop("#size-cells", Cells(<<n>>))
Reg(cells) == Prop("reg", Cells(cells))
Compatible(len, strings) == Prop("compatible", Strings(len, strings))
Ns16550 == Compatible(9, {"ns16550a"})
Pl011 == Compatible(24, {"arm,pl011", "arm,primecell"})
Gic == Compatible(19, {"arm,cortex-a15-gic"})
Aliases(len, path) == Node("aliases", "", 7, <<Prop("serial0", Path(len, path))>>)

Serial == Name("serial", "1", 8)
RiscvVirt ==
    Root(<<A(2), S(2), Prop("model", Strings(6, {})),
           Aliases(14, <<Name("soc", "", 3), Serial>>),
           Node("soc", "", 3, <<A(2), S(2), Prop("ranges", Cells(<<>>)), Nop,
             Node("serial", "1", 8, <<Reg(<<0, 48, 0, 18>>), Ns16550>>)>>)>>)
Intc == Node("intc", "8", 6, <<Gic, Prop("interrupt-controller", Cells(<<>>)),
                               Reg(<<0, 16, 0, 17, 0, 48, 0, 4>>)>>)
ArmVirt ==
    Root(<<Intc, Nop, Node("pl011", "9", 7, <<Pl011, Reg(<<1, 0, 0, 16>>)>>), S(2), A(2),
           Aliases(9, <<Name("pl011", "9", 7)>>)>>)
Raspi ==
    Root(<<A(1), S(1),
           Node("soc", "", 3,
             <<Node("interrupt-controller", "4", 22,
                    <<Compatible(12, {"arm,gic-400"}), Reg(<<16, 16, 48, 9>>)>>), S(1), A(1)>>),
           Node("serial0", "7", 9, <<Reg(<<32, 5>>), Pl011>>)>>)
Dangling == Root(<<A(2), S(2), Intc, Aliases(6, <<Name("uart", "", 4)>>)>>)
DefaultCells ==
    Root(<<Node("serial0", "", 7, <<Ns16550, Reg(<<0, 32, 4>>)>>), Intc>>)
OneAndTwo ==
    Root(<<A(1), S(2), Node("serial0", "", 7, <<Ns16550, Reg(<<32, 0, 4>>)>>), Intc>>)
NoCells == Root(<<A(0), S(0), Node("serial0", "", 7, <<Reg(<<32, 4>>)>>)>>)
Both == Root(<<A(1), S(1), Node("intc", "", 4, <<Gic, Reg(<<16, 16, 32, 16>>)>>),
               Node("serial0", "", 7, <<Compatible(18, {"ns16550a", "arm,pl011"}), Reg(<<32, 4>>)>>)>>)
NoReg == Root(<<A(1), S(1), Node("intc", "", 4, <<Gic>>), Node("serial0", "", 7, <<Pl011>>)>>)
HighGic == Root(<<A(2), S(2), Node("intc", "", 4, <<Gic, Reg(<<1, 16, 0, 16, 1, 32, 0, 16>>)>>)>>)
RootAlias == Root(<<A(2), S(2), Aliases(1, <<>>), Intc>>)
Empty == Root(<<>>)

(* Beyond every blob, and not beyond the largest of the sizes. *)
MCHeapPages == 120..124

MCTrees == {RiscvVirt, ArmVirt, Raspi, Dangling, DefaultCells, OneAndTwo, NoCells, Both, NoReg,
            HighGic, RootAlias, Empty}
=============================================================================
