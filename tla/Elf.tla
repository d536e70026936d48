-------------------------------- MODULE Elf --------------------------------
(***************************************************************************)
(* lib/elf: Elf::parse and Program::parse.  A file is its identification   *)
(* (magic, class, endian, abi) and the sequence of its 16-bit units, each  *)
(* of which takes one of Base values: enough to tell the units of a field  *)
(* and their order apart.  Offsets are those of the code, in bytes.        *)
(***************************************************************************)
EXTENDS Integers, Sequences

CONSTANT Base   \* the number of values of a 16-bit unit, a power of two

ASSUME ElfAssumption == Base \in Nat \ {0} /\ Base % 8 = 0

ELF_CLASS_32 == 1
ELF_CLASS_64 == 2
PhSize == [c \in {ELF_CLASS_32, ELF_CLASS_64} |-> IF c = ELF_CLASS_32 THEN 32 ELSE 56]

(* The values that the matches accept. *)
Known == [abi |-> {0, 2, 3, 6, 9, 12}, type |-> 0..3, machine |-> {0, 3, 40, 62, 183, 243}]

Unit(units, offset, i) == units[(offset \div 2) + 1 + i]

(* int!(u16 | u32 | u64, bytes, offset, endian) *)
U16(units, offset) == Unit(units, offset, 0)
U32(units, offset, endian) ==
    IF endian = 1 THEN Unit(units, offset, 0) + Base * Unit(units, offset, 1)
    ELSE Base * Unit(units, offset, 0) + Unit(units, offset, 1)
U64(units, offset, endian) ==
    IF endian = 1
    THEN U32(units, offset, endian) + Base * Base * U32(units, offset + 4, endian)
    ELSE Base * Base * U32(units, offset, endian) + U32(units, offset + 4, endian)

(* An address-sized field: at off32 in a 32-bit file, at off64 otherwise. *)
Word(units, class, endian, off32, off64) ==
    IF class = ELF_CLASS_32 THEN U32(units, off32, endian) ELSE U64(units, off64, endian)

HasBit(n, bit) == (n \div bit) % 2 = 1

(* Program::parse.  The flags are read as a u64, with the field after them. *)
ProgramParse(units, class, endian) ==
    LET flags == U64(units, IF class = ELF_CLASS_64 THEN 4 ELSE 24, endian)
        word(off32, off64) == Word(units, class, endian, off32, off64)
    IN  [p_type |-> U32(units, 0, endian),
         p_flags |-> {f \in {"exec", "write", "read"} :
                        HasBit(flags, CASE f = "exec" -> 1 [] f = "write" -> 2 [] OTHER -> 4)},
         p_offset |-> word(4, 8), v_addr |-> word(8, 16), p_addr |-> word(12, 24),
         p_filesz |-> word(16, 32), p_memsz |-> word(20, 40)]

Err(e) == [ok |-> FALSE, error |-> e]

(* Elf::parse.  A slice beyond the end of the file panics. *)
Parse(file) ==
    LET u == file.units
        class == file.class
        endian == file.endian
        phoff == Word(u, class, endian, 28, 32)
        phnum == U16(u, IF class = ELF_CLASS_32 THEN 44 ELSE 56)
        header(i) == SubSeq(u, ((phoff + i * PhSize[class]) \div 2) + 1,
                               (phoff + (i + 1) * PhSize[class]) \div 2)
    IN  IF ~file.magic THEN Err("InvalidHeader")
        ELSE IF file.abi \notin Known.abi THEN Err("InvalidAbi")
        ELSE IF U16(u, 16) \notin Known.type THEN Err("InvalidType")
        ELSE IF U16(u, 18) \notin Known.machine THEN Err("InvalidArchitecture")
        ELSE IF phoff + phnum * PhSize[class] > 2 * Len(u) THEN Err("panic")
        ELSE [ok |-> TRUE, e_entry |-> Word(u, class, endian, 24, 24),
              p_headers |-> [i \in 1..phnum |-> ProgramParse(header(i - 1), class, endian)]]
-----------------------------------------------------------------------------
(* The ELF format, for reference: offset, width in bytes and contents of    *)
(* the fields of a file header and of a program header.                    *)
HeaderFields(class, entry, phoff, phnum, type, machine) ==
    {<<16, 2, type>>, <<18, 2, machine>>} \cup
    IF class = ELF_CLASS_32
    THEN {<<24, 4, entry>>, <<28, 4, phoff>>, <<44, 2, phnum>>}
    ELSE {<<24, 8, entry>>, <<32, 8, phoff>>, <<56, 2, phnum>>}

FlagBits(flags) == (IF "exec" \in flags THEN 1 ELSE 0) + (IF "write" \in flags THEN 2 ELSE 0)
                   + (IF "read" \in flags THEN 4 ELSE 0)

ProgramFields(class, h) ==
    IF class = ELF_CLASS_32
    THEN {<<0, 4, h.p_type>>, <<4, 4, h.p_offset>>, <<8, 4, h.v_addr>>, <<12, 4, h.p_addr>>,
          <<16, 4, h.p_filesz>>, <<20, 4, h.p_memsz>>, <<24, 4, FlagBits(h.p_flags)>>, <<28, 4, 8>>}
    ELSE {<<0, 4, h.p_type>>, <<4, 4, FlagBits(h.p_flags)>>, <<8, 8, h.p_offset>>,
          <<16, 8, h.v_addr>>, <<24, 8, h.p_addr>>, <<32, 8, h.p_filesz>>,
          <<40, 8, h.p_memsz>>, <<48, 8, 8>>}

Weight == [i \in 0..3 |-> CASE i = 0 -> 1 [] i = 1 -> Base [] i = 2 -> Base * Base
                           [] OTHER -> Base * Base * Base]

(* The unit at offset of a part of a file with these fields. *)
Encoded(fields, offset, endian) ==
    IF ~\E f \in fields : f[1] =< offset /\ offset < f[1] + f[2] THEN 0
    ELSE LET f == CHOOSE g \in fields : g[1] =< offset /\ offset < g[1] + g[2]
             place == IF endian = 1 THEN (offset - f[1]) \div 2
                      ELSE (f[2] \div 2) - 1 - ((offset - f[1]) \div 2)
         IN  (f[3] \div Weight[place]) % Base

(* A file with the given program headers, which follow the file header. *)
Encode(class, endian, abi, type, machine, entry, headers) ==
    LET size == IF class = ELF_CLASS_32 THEN 52 ELSE 64
        ph == PhSize[class]
        top == HeaderFields(class, entry, size, Len(headers), type, machine)
    IN  [magic |-> TRUE, class |-> class, endian |-> endian, abi |-> abi,
         units |-> [i \in 1..((size + Len(headers) * ph) \div 2) |->
            LET at == 2 * (i - 1)
            IN  IF at < size THEN Encoded(top, at, endian)
                ELSE Encoded(ProgramFields(class, headers[((at - size) \div ph) + 1]),
                             (at - size) % ph, endian)]]

(* A program [class, endian, abi, type, machine, entry, headers] whose      *)
(* values fit into the fields of a file.                                   *)
Half == 0..(Base - 1)
Long == 0..(Base * Base - 1)
Address(class) == IF class = ELF_CLASS_32 THEN Long ELSE {n \in Nat : n \div (Base * Base) \in Long}
ProgramHeader(class) ==
    [p_type : Long, p_flags : SUBSET {"exec", "write", "read"}, p_offset : Address(class),
     v_addr : Address(class), p_addr : Address(class), p_filesz : Address(class),
     p_memsz : Address(class)]
Storable(p) ==
    /\ p.class \in {ELF_CLASS_32, ELF_CLASS_64} /\ p.endian \in {1, 2}
    /\ p.type \in Half /\ p.machine \in Half /\ p.entry \in Address(p.class)
    /\ p.headers \in Seq(ProgramHeader(p.class)) /\ Len(p.headers) \in Half
=============================================================================
