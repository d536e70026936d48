---------------------------- MODULE MCUserMemory ----------------------------
(* Pages of two bytes, and programs for every case of the loader. *)
EXTENDS UserMemory

Load(flags, v_addr, p_memsz, p_offset, p_filesz) ==
    [p_type |-> PT_LOAD, p_flags |-> flags, p_offset |-> p_offset, v_addr |-> v_addr,
     p_addr |-> 0, p_filesz |-> p_filesz, p_memsz |-> p_memsz]
Note == [Load({"read"}, 30, 2, 0, 2) EXCEPT !.p_type = 4]
Program(class, endian, machine, headers) ==
    [class |-> class, endian |-> endian, abi |-> 0, type |-> 2, machine |-> machine,
     entry |-> 5, headers |-> headers]

Text == Load({"exec", "read"}, 4, 4, 0, 3)
Adjoining == Load({"read", "write"}, 8, 3, 3, 2)
Inside == Load({"read"}, 5, 1, 1, 1)
Overrun == Load({"exec"}, 5, 4, 0, 4)
SamePage == Load({"write"}, 5, 1, 5, 1)

MCPrograms ==
    {Program(ELF_CLASS_64, 1, 243, <<Text, Note, Adjoining>>),
     Program(ELF_CLASS_32, 1, 183, <<Inside, Adjoining>>),
     Program(ELF_CLASS_64, 2, 243, <<Text>>),
     Program(ELF_CLASS_32, 2, 243, <<Adjoining>>),
     Program(ELF_CLASS_64, 1, 243, <<Overrun, Adjoining>>),
     Program(ELF_CLASS_64, 1, 243, <<Load({"exec"}, 4, 1, 0, 1), SamePage>>),
     Program(ELF_CLASS_64, 1, 7, <<Text>>)}

MCContent == [o \in 0..7 |-> IF o \in {2, 5} THEN NUL ELSE 11 + o]
=============================================================================
