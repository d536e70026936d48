----------------------------- MODULE UserMemory -----------------------------
(***************************************************************************)
(* A user task's memory and how the kernel reaches it: create_from_elf of  *)
(* src/task.rs, copy_from_user, copy_to_user and copy_user_string, and the *)
(* system calls of src/syscall.rs that use them.  System calls run on the  *)
(* kernel's page table and find user memory through page_allocs, whereas   *)
(* the program sees it through its own page table: that the two agree is   *)
(* what this module is about.                                              *)
(*                                                                         *)
(* A byte of the ELF file is a number that tells where it comes from, or 0 *)
(* (NUL).  The page allocator hands out blocks one after the other, with   *)
(* what their last owner left there.  What vfs does with a buffer is the   *)
(* business of module Files.                                               *)
(***************************************************************************)
EXTENDS Elf, FiniteSets

CONSTANTS
    Programs,         \* the programs that create_from_elf is called with
    Content,          \* Content[o]: the byte at offset o of their files
    BlockSizes,       \* bound: the powers of two up to the largest block
    PAGE_SIZE,
    USER_STACK_PAGES,
    BUF_SIZE,         \* of copy_user_string
    UtsLen,           \* UTS_STRING_LEN
    PhysPages,        \* bound: pages of memory
    KernelBase,       \* the page at which physical memory is mapped
    Buffers,          \* the calls: user addresses
    Counts,           \*            and lengths
    MaxString,        \* bound: the length of a string in the kernel
    MaxCalls          \* bound: system calls

ASSUME UserMemoryAssumption ==
    /\ \A p \in Programs : Storable(p)
    /\ Content \in [DOMAIN Content -> Nat] /\ BlockSizes \subseteq Nat
    /\ PAGE_SIZE \in Nat \ {0} /\ USER_STACK_PAGES \in Nat \ {0} /\ BUF_SIZE \in Nat \ {0}
    /\ UtsLen \in Nat \ {0} /\ PhysPages \in Nat /\ USER_STACK_PAGES =< PhysPages
    /\ KernelBase \in Nat
    /\ Buffers \subseteq Nat /\ Counts \subseteq Nat
    /\ MaxString \in Nat /\ MaxCalls \in Nat

PT_LOAD == 1
NUL == 0
Stale == 1000     \* left by the last owner of a page
Data == 1001      \* what a read of a file delivers
Beyond == 1002    \* what lies in memory behind the file
Names == 2001     \* Names + i: the i-th field of a Utsname

VARIABLES
    elf,          \* the program: [class, endian, abi, type, machine, entry, headers]
    file,         \* its file
    prog,         \* the program headers that are left
    page_allocs,  \* [v_page, p_page, v_pages, flags]
    pt,           \* the task's page table: v_page |-> [p_page, right]
    phys,         \* the bytes of memory
    next_page,    \* the next free page
    context,      \* [sp, entry]
    op,           \* the system call in progress
    calls,        \* counts system calls
    before        \* history: memory when the call began

loadVars == <<elf, file, prog, page_allocs, pt, next_page, context>>
vars == <<loadVars, phys, op, calls, before>>

Page(a) == a \div PAGE_SIZE
Offset(a) == a % PAGE_SIZE
DivCeil(n, d) == (n + d - 1) \div d

(* ceil_to_power_2 *)
CeilPow(n) == CHOOSE p \in BlockSizes : p >= n /\ \A q \in BlockSizes : q >= n => q >= p

(* The pages of an entry of page_allocs. *)
VPages(alloc) == alloc.v_page..(alloc.v_page + alloc.v_pages - 1)

(* The program's view of its memory. *)
Mapped(a) == Page(a) \in DOMAIN pt
Phys(a) == pt[Page(a)].p_page * PAGE_SIZE + Offset(a)
View(m, a) == m[Phys(a)]

(* How many of the n bytes from a on are mapped, up to the first that is    *)
(* not.                                                                    *)
MappedPrefix(a, n) ==
    CHOOSE k \in 0..n : /\ \A i \in 0..(k - 1) : Mapped(a + i)
                        /\ k < n => ~Mapped(a + k)

NoOp == [call |-> "none"]
InCall == op.call \notin {"none", "load"}
-----------------------------------------------------------------------------
(* create_from_elf *)

MapPages(table, v_page, p_page, v_pages, right) ==
    [v \in DOMAIN table \cup (v_page..(v_page + v_pages - 1)) |->
       IF v \in v_page..(v_page + v_pages - 1)
       THEN [p_page |-> p_page + v - v_page, right |-> right] ELSE table[v]]

(* The rights a segment is mapped with. *)
Right(flags) == IF "exec" \in flags THEN "text" ELSE IF "write" \in flags THEN "data" ELSE "rodata"

(* Before the loop over the headers: parse, allocate and map the stack.  A  *)
(* file that does not parse leaves everything as it was.                   *)
create_begin ==
    /\ op.call = "none" /\ page_allocs = <<>>
    /\ Parse(file).ok
    /\ prog' = Parse(file).p_headers
    /\ page_allocs' = <<[v_page |-> KernelBase + next_page, p_page |-> next_page,
                         v_pages |-> USER_STACK_PAGES, flags |-> {"read", "write"}]>>
    /\ pt' = MapPages(<<>>, KernelBase + next_page, next_page, USER_STACK_PAGES, "data")
    /\ next_page' = next_page + USER_STACK_PAGES
    /\ context' = [sp |-> (KernelBase + next_page + USER_STACK_PAGES) * PAGE_SIZE,
                   entry |-> Parse(file).e_entry]
    /\ op' = [call |-> "load"]
    /\ UNCHANGED <<elf, file, phys, calls, before>>

(* A header that is not PT_LOAD. *)
skip_segment ==
    /\ op.call = "load" /\ prog # <<>> /\ Head(prog).p_type # PT_LOAD
    /\ prog' = Tail(prog)
    /\ UNCHANGED <<elf, file, page_allocs, pt, next_page, context, phys, op, calls, before>>

(* elf_bytes from offset o on, of which ptr::copy reads any number. *)
ByteAt(o) == IF o \in DOMAIN Content THEN Content[o] ELSE Beyond

(* Mutant: the segment is copied to the start of its first page. *)
CopySegment_aligned(h, p_page) ==
    [b \in DOMAIN phys |->
       LET i == b - p_page * PAGE_SIZE
       IN  IF i \in 0..(h.p_filesz - 1) THEN ByteAt(h.p_offset + i) ELSE phys[b]]

(* The copy of p_filesz bytes, be they in the file or not; nothing else of  *)
(* the block is written.                                                   *)
CopySegment(h, p_page) ==
    [b \in DOMAIN phys |->
       LET i == b - (p_page * PAGE_SIZE + Offset(h.v_addr))
       IN  IF i \in 0..(h.p_filesz - 1) THEN ByteAt(h.p_offset + i) ELSE phys[b]]

(* One iteration for a PT_LOAD header.  The slice that begins behind the    *)
(* end of the file panics.                                                 *)
load_segment ==
    /\ op.call = "load" /\ prog # <<>>
    /\ LET h == Head(prog)
           v_page == Page(h.v_addr)
           v_pages == DivCeil(h.p_memsz, PAGE_SIZE)
       IN  /\ h.p_type = PT_LOAD
           /\ \E p \in BlockSizes : p >= v_pages
           /\ next_page + CeilPow(v_pages) =< PhysPages
           /\ \A o \in 0..(h.p_offset - 1) : o \in DOMAIN Content
           /\ page_allocs' = Append(page_allocs, [v_page |-> v_page, p_page |-> next_page,
                                                  v_pages |-> v_pages, flags |-> h.p_flags])
           /\ pt' = MapPages(pt, v_page, next_page, v_pages, Right(h.p_flags))
           /\ phys' = CopySegment(h, next_page)
           /\ next_page' = next_page + CeilPow(v_pages)
           /\ prog' = Tail(prog)
    /\ UNCHANGED <<elf, file, context, op, calls, before>>

create_end ==
    /\ op.call = "load" /\ prog = <<>>
    /\ op' = NoOp
    /\ UNCHANGED <<loadVars, phys, calls, before>>
-----------------------------------------------------------------------------
(* The copies.  op.at is user_addr, op.done the number of bytes copied,     *)
(* op.buf kernel_buf; dir says which way.  After the copy dispatch goes on  *)
(* at op.then.                                                             *)
Zeros(n) == [i \in 1..n |-> 0]
Copy(call, dir, addr, buf) ==
    [call |-> call, dir |-> dir, addr |-> addr, at |-> addr, done |-> 0, buf |-> buf,
     pc |-> "copy", str |-> <<>>]

(* The entries of page_allocs that hold address a, of which the code takes  *)
(* the first.                                                              *)
Containing(a) ==
    {i \in DOMAIN page_allocs : Page(a) \in VPages(page_allocs[i])}
First(s) == CHOOSE i \in s : \A j \in s : i =< j

(* Mutant: the offset is taken in the page instead of in the block. *)
BlockOffset_page(alloc, a) == Offset(a)

BlockOffset(alloc, a) == a - alloc.v_page * PAGE_SIZE

(* Where the search goes on when the block is used up. *)
NextAddr(alloc) == (alloc.v_page + alloc.v_pages) * PAGE_SIZE

(* One turn of 'main: as many bytes as the buffer and the block have. *)
copy_block ==
    /\ InCall /\ op.pc = "copy"
    /\ op.done < Len(op.buf) /\ Containing(op.at) # {}
    /\ LET alloc == page_allocs[First(Containing(op.at))]
           offset == BlockOffset(alloc, op.at)
           room == alloc.v_pages * PAGE_SIZE - offset
           left == Len(op.buf) - op.done
           n == IF room < left THEN room ELSE left
           base == alloc.p_page * PAGE_SIZE + offset
       IN  /\ phys' = IF op.dir = "from" THEN phys
                      ELSE [b \in DOMAIN phys |->
                              IF b \in base..(base + n - 1) THEN op.buf[op.done + b - base + 1]
                              ELSE phys[b]]
           /\ op' = [op EXCEPT
                !.buf = IF op.dir = "to" THEN @
                        ELSE [i \in DOMAIN @ |-> IF i \in (op.done + 1)..(op.done + n)
                                                 THEN phys[base + i - op.done - 1] ELSE @[i]],
                !.done = @ + n,
                !.at = IF op.done + n = Len(op.buf) THEN @ ELSE NextAddr(alloc)]
    /\ UNCHANGED <<loadVars, calls, before>>

(* The buffer is empty, or no entry holds the address. *)
copy_end ==
    /\ InCall /\ op.pc = "copy"
    /\ op.done = Len(op.buf) \/ Containing(op.at) = {}
    /\ op' = [op EXCEPT !.pc = IF op.call = "open" THEN "scan" ELSE "end"]
    /\ UNCHANGED <<loadVars, phys, calls, before>>

(* copy_user_string after each copy: take the bytes up to a NUL; a full     *)
(* buffer without one is followed by another copy from the same address.   *)
Scanned == SubSeq(op.buf, 1, op.done)
FirstNul(s) == CHOOSE i \in DOMAIN s : s[i] = NUL /\ \A j \in 1..(i - 1) : s[j] # NUL

UpToNul(s) == IF \E i \in DOMAIN s : s[i] = NUL THEN SubSeq(s, 1, FirstNul(s) - 1) ELSE s

(* Mutant: a short copy does not end the loop. *)
ScanEnds_nul == UpToNul(Scanned) # Scanned

ScanEnds == UpToNul(Scanned) # Scanned \/ op.done < BUF_SIZE

scan_string ==
    /\ op.call = "open" /\ op.pc = "scan"
    /\ Len(op.str) + BUF_SIZE =< MaxString
    /\ op' = IF ScanEnds
             THEN [op EXCEPT !.pc = "end", !.str = @ \o UpToNul(Scanned)]
             ELSE [op EXCEPT !.pc = "copy", !.str = @ \o UpToNul(Scanned), !.done = 0,
                             !.at = op.addr, !.buf = Zeros(BUF_SIZE)]
    /\ UNCHANGED <<loadVars, phys, calls, before>>
-----------------------------------------------------------------------------
(* dispatch_with_task *)
Call(o) ==
    /\ op.call = "none" /\ page_allocs # <<>> /\ calls < MaxCalls
    /\ op' = o
    /\ calls' = calls + 1
    /\ before' = phys
    /\ UNCHANGED <<loadVars, phys>>

syscall_open == \E a \in Buffers : Call(Copy("open", "from", a, Zeros(BUF_SIZE)))

(* The file delivers `got` bytes, or an error; the whole buffer is copied. *)
syscall_read ==
    \E a \in Buffers, n \in Counts : \E got \in 0..n :
      Call(Copy("read", "to", a, [i \in 1..n |-> IF i =< got THEN Data ELSE 0]))

syscall_write ==
    \E a \in Buffers, n \in Counts : Call(Copy("write", "from", a, Zeros(n)))

(* close reads a buffer that it does not use. *)
syscall_close ==
    \E a \in Buffers, n \in Counts : Call(Copy("close", "from", a, Zeros(n)))

(* Utsname: sysname, nodename (left empty), release, version, machine. *)
Uts == [i \in 1..(5 * UtsLen) |->
          IF (i - 1) % UtsLen = 0 /\ (i - 1) \div UtsLen # 1
          THEN Names + ((i - 1) \div UtsLen) ELSE 0]

syscall_uname == \E a \in Buffers : Call(Copy("uname", "to", a, Uts))

syscall_end ==
    /\ InCall /\ op.pc = "end"
    /\ op' = NoOp
    /\ UNCHANGED <<loadVars, phys, calls, before>>
-----------------------------------------------------------------------------
Init ==
    /\ elf \in Programs
    /\ file = Encode(elf.class, elf.endian, elf.abi, elf.type, elf.machine, elf.entry, elf.headers)
    /\ prog = <<>> /\ page_allocs = <<>>
    /\ pt = <<>>
    /\ phys = [b \in 0..(PhysPages * PAGE_SIZE - 1) |-> Stale]
    /\ next_page = 0
    /\ context = [sp |-> 0, entry |-> 0]
    /\ op = NoOp
    /\ calls = 0
    /\ before = phys

Step ==
    \/ create_begin \/ skip_segment \/ load_segment \/ create_end
    \/ copy_block \/ copy_end \/ scan_string \/ syscall_end

Next ==
    \/ Step
    \/ syscall_open \/ syscall_read \/ syscall_write \/ syscall_close \/ syscall_uname

(* The kernel runs on: interrupts are off in a system call. *)
Spec == Init /\ [][Next]_vars /\ WF_vars(Step)
-----------------------------------------------------------------------------
(* The state is of the right type. *)
TypeOK ==
    /\ next_page \in 0..PhysPages
    /\ \A i \in DOMAIN page_allocs :
         /\ page_allocs[i].p_page + page_allocs[i].v_pages =< next_page
         /\ page_allocs[i].flags \subseteq {"exec", "write", "read"}
    /\ \A v \in DOMAIN pt : pt[v].p_page \in 0..(next_page - 1)
    /\ DOMAIN phys = 0..(PhysPages * PAGE_SIZE - 1) /\ DOMAIN before = DOMAIN phys
    /\ calls \in 0..MaxCalls
    /\ op.call \in {"none", "load", "open", "read", "write", "close", "uname"}
    /\ InCall =>
         op.done \in 0..Len(op.buf) /\ op.pc \in {"copy", "scan", "end"}

(* The segments of the program.  One fits if it has no more bytes in the    *)
(* file than in memory, as the format demands, and ends in the pages that   *)
(* create_from_elf counts for it, which leaves the offset in the first page *)
(* out of the count.                                                       *)
Segments == {i \in DOMAIN elf.headers : elf.headers[i].p_type = PT_LOAD}
Fits(h) ==
    /\ h.p_filesz =< h.p_memsz
    /\ Offset(h.v_addr) + h.p_memsz =< DivCeil(h.p_memsz, PAGE_SIZE) * PAGE_SIZE
PagesOf(h) == Page(h.v_addr)..(Page(h.v_addr) + DivCeil(h.p_memsz, PAGE_SIZE) - 1)
WellFormed ==
    /\ \A i \in Segments : Fits(elf.headers[i])
    /\ \A i, j \in Segments : i # j => PagesOf(elf.headers[i]) \cap PagesOf(elf.headers[j]) = {}

(* The program finds its segments where its headers say, with the rights    *)
(* they ask for, starts at its entry point and has a stack: for segments    *)
(* that share no page and fit into the pages counted for them.  (Otherwise  *)
(* the copy runs over the end of the block, or one of two segments is       *)
(* hidden.)  In a big-endian file the rights are read from another field.   *)
LoadedImage ==
    /\ TypeOK
    /\ op.call = "none" /\ page_allocs # <<>> /\ calls = 0 /\ WellFormed =>
         /\ \A j \in Segments :
              LET h == elf.headers[j]
              IN  /\ \A i \in 0..(h.p_memsz - 1) :
                       /\ Mapped(h.v_addr + i)
                       /\ elf.endian = 1 => pt[Page(h.v_addr + i)].right = Right(h.p_flags)
                  /\ \A i \in 0..(h.p_filesz - 1) : View(phys, h.v_addr + i) = ByteAt(h.p_offset + i)
         /\ context.entry = elf.entry
         /\ \A i \in 1..(USER_STACK_PAGES * PAGE_SIZE) : Mapped(context.sp - i)

(* No two of the segments and the stack share a page.                      *)
Apart ==
    \A i, j \in DOMAIN page_allocs :
      i # j => VPages(page_allocs[i]) \cap VPages(page_allocs[j]) = {}

(* The kernel's copies see what the program sees: a finished copy has taken *)
(* or written the mapped bytes from the address on, up to the first that is *)
(* not mapped, across segments that adjoin; all other memory is as it was.  *)
CopiesMatchView ==
    InCall /\ op.pc # "copy" /\ Apart =>
      /\ op.done = MappedPrefix(op.addr, Len(op.buf))
      /\ \A i \in 1..op.done : View(phys, op.addr + i - 1) = op.buf[i]
      /\ \A b \in DOMAIN phys :
           phys[b] # before[b] => /\ op.dir = "to"
                                  /\ \E i \in 0..(op.done - 1) : b = Phys(op.addr + i)

(* A string argument arrives as the program stored it, when it ends in the  *)
(* first BUF_SIZE bytes.  (A longer one is read again from its start.)      *)
StringArrives ==
    InCall /\ op.call = "open" /\ op.pc = "end" /\ Apart =>
      LET n == MappedPrefix(op.addr, BUF_SIZE)
      IN  /\ Len(op.str) =< n
          /\ \A i \in DOMAIN op.str : op.str[i] = View(phys, op.addr + i - 1) /\ op.str[i] # NUL
          /\ Len(op.str) < n => View(phys, op.addr + Len(op.str)) = NUL

(* SameMemory: through page_allocs the kernel reads and writes the memory   *)
(* that the program sees through its page table, in buffers and strings.   *)
SameMemory == CopiesMatchView /\ StringArrives

(* A string with a NUL in its first BUF_SIZE bytes, or of which fewer are   *)
(* mapped, is read to its end.                                             *)
ShortString(a) ==
    \/ MappedPrefix(a, BUF_SIZE) < BUF_SIZE
    \/ \E i \in 0..(BUF_SIZE - 1) : View(phys, a + i) = NUL
StringEnds ==
    InCall /\ op.call = "open" /\ Apart /\ ShortString(op.addr) ~> op.call = "none"
=============================================================================
