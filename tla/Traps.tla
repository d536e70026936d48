------------------------------- MODULE Traps -------------------------------
(***************************************************************************)
(* Traps, spinlocks and the panic handler: arch/*/trap.S, arch/*/trap.rs,  *)
(* arch/*/syscall.rs, lib/spinlock, lang_items.rs and the end of           *)
(* kernel_main.  There is one CPU.  The kernel task (the code that boots   *)
(* and then idles) and the trap handlers both take spinlocks; a trap       *)
(* arrives between any two steps of the running task that interrupts allow.*)
(*                                                                         *)
(* Which task comes next is the business of module Scheduler: here schedule *)
(* returns any live task.  Registers are a few representatives: those the  *)
(* assembly treats specially, one (t0) that it uses as a scratch register  *)
(* and one (fp) for the floating-point and SIMD registers, which Context   *)
(* has no place for.  Kernel code is assumed to raise no exception.        *)
(***************************************************************************)
EXTENDS Integers, Sequences

CONSTANTS
    Arches,      \* the targets: a subset of {"riscv64", "arm64"}
    MaxPid,      \* bound: process identifiers
    MaxSections  \* bound: locks that a trap, or the boot code, takes

ASSUME TrapsAssumption ==
    /\ Arches \subseteq {"riscv64", "arm64"}
    /\ MaxPid \in Nat /\ MaxSections \in Nat

KERNEL_PID == 0
Pids == 0..MaxPid
Threads == {"kernel", "trap"}
Locks == {"SCHEDULER", "ROOT_VFS", "KMSG", "DEVICE_MGR", "HEAP", "BUDDY"}
Regs == {"ra", "sp", "gp", "t0", "a0", "pc", "fp"}

VARIABLES
    arch,
    cpu,       \* [mode, ie]: privilege and interrupt flag
    status,    \* the same before the trap: SPP and SPIE, or SPSR_EL1
    regs,      \* the registers; on arm64 "sp" is SP_EL0
    ctx,       \* the trap frame, a Context
    page,      \* whose page table is active
    active,    \* the GIC waits for the end of an interrupt
    level,     \* "task": the code of the current task runs; "trap": a handler
    trap,      \* [cause, stage] of the last trap
    tasks,     \* the live tasks
    contexts,  \* Task::context
    current,   \* current_pid
    locked,    \* the locks whose flag is set
    code,      \* per thread: where it is in lock or drop, and its guards
    panic,     \* per thread: how far the panic handler is
    booted,    \* interrupts have been enabled
    expect     \* history: the registers a task must find

cpuVars == <<cpu, status, regs, page, active>>
taskVars == <<tasks, contexts, current, expect>>
vars == <<arch, cpuVars, ctx, level, trap, taskVars, locked, code, panic, booted>>

-----------------------------------------------------------------------------
(* The layout of a Context: the slot that each register is stored in.  The *)
(* macro SAVE of riscv64 stores x_n at n - 1: ra is x1, gp x3, t0 x5, a0    *)
(* x10.  On arm64 x_n is at n; t0 stands for x9, gp for x3, ra for x30.     *)
Slot == [riscv64 |-> [ra |-> 0, gp |-> 2, t0 |-> 4, a0 |-> 9, pc |-> 31],
         arm64   |-> [a0 |-> 0, gp |-> 3, t0 |-> 9, ra |-> 30, pc |-> 32]]

(* ctx.x[2] on riscv64, the field sp on arm64. *)
SpSlot == [riscv64 |-> 2, arm64 |-> 31]
PstateSlot == 33

SlotsOf(a) == {Slot[a][r] : r \in DOMAIN Slot[a]} \cup {SpSlot[a]}
              \cup (IF a = "arm64" THEN {PstateSlot} ELSE {})

(* Register contents: zero, what the program of a task puts into a register, *)
(* the address after a system call, and the results of system calls.       *)
Zero == <<"zero", 0>>
Value(r, pid) == <<r, pid>>
Following(pc) == <<"following", pc[2]>>
Values == {Zero} \cup (({"start", "following", "ret", "child"} \cup Regs) \X Pids)
PStates == [mode : {"user", "kernel"}, ie : BOOLEAN]

(* Mutant: x30 is not stored. *)
SaveRegs_ra(r, st) ==
    [s \in SlotsOf(arch) |->
       IF s = SpSlot[arch]
       THEN IF arch = "riscv64" THEN r["sp"] ELSE Zero
       ELSE IF s = PstateSlot THEN st
       ELSE IF s = Slot[arch]["ra"] THEN Zero
       ELSE r[CHOOSE n \in DOMAIN Slot[arch] : Slot[arch][n] = s]]

(* The frame that the entry code stores.  On riscv64 the stack pointer is   *)
(* stored last, on arm64 it is left to the handlers.                       *)
SaveRegs(r, st) ==
    [s \in SlotsOf(arch) |->
       IF s = SpSlot[arch]
       THEN IF arch = "riscv64" THEN r["sp"] ELSE Zero
       ELSE IF s = PstateSlot THEN st
       ELSE r[CHOOSE n \in DOMAIN Slot[arch] : Slot[arch][n] = s]]

(* The registers after the exit code has loaded what is in the frame, with  *)
(* fp in those that it leaves alone.                                       *)
LoadRegs(c, fp) ==
    [n \in Regs |-> IF n \in DOMAIN Slot[arch] THEN c[Slot[arch][n]]
                    ELSE IF n = "fp" THEN fp
                    ELSE IF arch = "riscv64" THEN c[SpSlot[arch]] ELSE regs[n]]

(* A Context of zeros; create_from_elf sets the stack pointer, the entry    *)
(* point and, by leaving pstate 0, user mode with interrupts on.           *)
DefaultContext(a) == [s \in SlotsOf(a) |->
    IF s = PstateSlot THEN [mode |-> "user", ie |-> TRUE] ELSE Zero]
NewContext(pid) == [DefaultContext(arch) EXCEPT
    ![SpSlot[arch]] = Value("start", pid), ![Slot[arch]["pc"]] = Value("start", pid)]
NewRegs(pid) == [n \in Regs |->
    IF n \in {"sp", "pc"} THEN Value("start", pid) ELSE Zero]

With(f, pid, v) == [p \in DOMAIN f \cup {pid} |-> IF p = pid THEN v ELSE f[p]]
Without(f, pid) == [p \in DOMAIN f \ {pid} |-> f[p]]
-----------------------------------------------------------------------------
(* Spinlocks.  A guard remembers the interrupt flag of its lock call.      *)
Idle == [pc |-> "run", want |-> "none", irq |-> FALSE, guards |-> <<>>, left |-> MaxSections]

me == IF level = "trap" THEN "trap" ELSE "kernel"
InKernel == level = "trap" \/ current = KERNEL_PID
Running == InKernel /\ code[me].pc = "run"
Guards == code[me].guards
Top == Guards[Len(Guards)].lock
Held(t) == {code[t].guards[i].lock : i \in DOMAIN code[t].guards}

(* What is locked while a lock is held: by the handlers (system calls on    *)
(* files go from the scheduler to the VFS, devfs and the device or message *)
(* behind it, and everything may allocate) and by setup_console.           *)
TrapNests ==
    [SCHEDULER |-> {"ROOT_VFS", "HEAP", "BUDDY"}, ROOT_VFS |-> {"KMSG", "DEVICE_MGR", "HEAP"},
     KMSG |-> {"HEAP"}, DEVICE_MGR |-> {"HEAP"}, HEAP |-> {"BUDDY"}, BUDDY |-> {}]
BootNests ==
    [KMSG |-> {"DEVICE_MGR", "HEAP"}, DEVICE_MGR |-> {"ROOT_VFS", "HEAP"},
     ROOT_VFS |-> {"SCHEDULER", "HEAP"}, SCHEDULER |-> {"HEAP", "BUDDY"},
     HEAP |-> {"BUDDY"}, BUDDY |-> {}]

(* Mutant: the panic handler looks up the current task. *)
PanicLocks_current(stage) == CASE stage = "lock" -> {"KMSG"}
                               [] stage = "format" -> IF Top = "KMSG" THEN {"SCHEDULER"} ELSE {}
                               [] OTHER -> {}

(* The panic handler locks KMSG and then formats its message on the heap.  *)
PanicLocks(stage) == CASE stage = "lock" -> {"KMSG"}
                       [] stage = "format" -> IF Top = "KMSG" THEN {"HEAP"} ELSE {"BUDDY"} \ {Top}
                       [] OTHER -> {}

(* The locks that the running code may ask for next. *)
MayLock ==
    IF panic[me] # "no" THEN PanicLocks(panic[me])
    ELSE IF me = "kernel" THEN IF Guards = <<>> THEN Locks ELSE BootNests[Top]
    ELSE IF Guards = <<>> THEN IF trap.stage = "lock" THEN {"SCHEDULER"} ELSE {}
    ELSE IF trap.stage # "lock" THEN {}
    ELSE IF trap.cause = "call" THEN TrapNests[Top] ELSE TrapNests[Top] \ {"ROOT_VFS"}

Set(f) == code' = [code EXCEPT ![me] = f]

(* lock: irq_save. *)
lock_irq_save ==
    /\ Running /\ code[me].left > 0
    /\ \E l \in MayLock :
         Set([code[me] EXCEPT !.pc = "saved", !.want = l, !.irq = cpu.ie, !.left = @ - 1])
    /\ UNCHANGED <<arch, cpuVars, ctx, level, trap, taskVars, locked, panic, booted>>

(* lock: disable_interrupts. *)
lock_disable_interrupts ==
    /\ InKernel /\ code[me].pc = "saved"
    /\ Set([code[me] EXCEPT !.pc = "spin"])
    /\ cpu' = [cpu EXCEPT !.ie = FALSE]
    /\ UNCHANGED <<arch, status, regs, page, active, ctx, level, trap, taskVars, locked,
                   panic, booted>>

(* lock: the swap that finds the flag clear.  One that finds it set only    *)
(* spins.                                                                  *)
lock_swap ==
    LET l == code[me].want
    IN  /\ InKernel /\ code[me].pc = "spin"
        /\ l \notin locked
        /\ locked' = locked \cup {l}
        /\ Set([code[me] EXCEPT !.pc = "run", !.want = "none", !.irq = FALSE,
                  !.guards = Append(@, [lock |-> l, irq |-> code[me].irq])])
        /\ panic' = IF panic[me] = "lock" THEN [panic EXCEPT ![me] = "format"] ELSE panic
    /\ UNCHANGED <<arch, cpuVars, ctx, level, trap, taskVars, booted>>

(* Where the running code may drop its last guard.  The panic handler drops *)
(* its own guards, and none of those held by the code that panicked.       *)
MayDrop ==
    /\ Guards # <<>>
    /\ CASE panic[me] = "format" -> Top # "KMSG"
         [] panic[me] = "emit" -> TRUE
         [] panic[me] = "no" -> level = "trap" /\ Len(Guards) = 1 => trap.stage = "done"
         [] OTHER -> FALSE

PanicAfterDrop ==
    IF panic[me] = "format" /\ Top = "HEAP" THEN "emit"
    ELSE IF panic[me] = "emit" THEN "done" ELSE panic[me]

(* Mutant: the flag is not cleared. *)
drop_unlock_kept ==
    LET g == Guards[Len(Guards)]
    IN  /\ Running /\ MayDrop
        /\ Set([code[me] EXCEPT !.pc = "freed", !.irq = g.irq,
                  !.guards = SubSeq(@, 1, Len(@) - 1)])
        /\ panic' = [panic EXCEPT ![me] = PanicAfterDrop]
    /\ UNCHANGED <<arch, cpuVars, ctx, level, trap, taskVars, locked, booted>>

(* drop of a guard: unlock.  (The bound left is not needed after a panic.) *)
drop_unlock ==
    LET g == Guards[Len(Guards)]
    IN  /\ Running /\ MayDrop
        /\ locked' = locked \ {g.lock}
        /\ Set([code[me] EXCEPT !.pc = "freed", !.irq = g.irq,
                  !.guards = SubSeq(@, 1, Len(@) - 1),
                  !.left = IF PanicAfterDrop = "done" THEN 0 ELSE @])
        /\ panic' = [panic EXCEPT ![me] = PanicAfterDrop]
    /\ UNCHANGED <<arch, cpuVars, ctx, level, trap, taskVars, booted>>

(* Mutant: every drop turns interrupts on. *)
drop_irq_load_always ==
    /\ InKernel /\ code[me].pc = "freed"
    /\ Set([code[me] EXCEPT !.pc = "run", !.irq = FALSE])
    /\ cpu' = [cpu EXCEPT !.ie = TRUE]
    /\ UNCHANGED <<arch, status, regs, page, active, ctx, level, trap, taskVars, locked,
                   panic, booted>>

(* drop of a guard: irq_load turns interrupts on or leaves them alone. *)
drop_irq_load ==
    /\ InKernel /\ code[me].pc = "freed"
    /\ Set([code[me] EXCEPT !.pc = "run", !.irq = FALSE])
    /\ cpu' = [cpu EXCEPT !.ie = @ \/ code[me].irq]
    /\ UNCHANGED <<arch, status, regs, page, active, ctx, level, trap, taskVars, locked,
                   panic, booted>>
-----------------------------------------------------------------------------
(* Traps.  "call" is a system call other than exit and fork; "illegal" every *)
(* cause that kills the task; "other" an exception, "stray" an interrupt    *)
(* that the handler has no case for.                                       *)
Ecalls == {"call", "exit", "fork"}
Unhandled == {"stray", "other"}
Causes == Ecalls \cup Unhandled \cup {"timer", "illegal"}

(* The causes that can hit the running task.  A system call comes after some *)
(* user code.  A user task that runs on the kernel's page table cannot even *)
(* fetch its next instruction.                                             *)
MayTrap(c) ==
    /\ level = "task"
    /\ c \in {"timer", "stray"} => cpu.ie \/ (cpu.mode = "user" /\ arch = "riscv64")
    /\ c \notin {"timer", "stray"} => cpu.mode = "user"
    /\ c \in Ecalls => regs["t0"] = Value("t0", current)
    /\ page # current => c \in {"timer", "stray", "illegal"}
    /\ arch = "riscv64" => c # "stray"
    /\ c = "fork" => tasks # Pids   \* bound

(* strap, el1_sync_trap and el1_irq_trap up to the call of the handler. On *)
(* arm64 the saved pc of a system call is already the next instruction.    *)
trap_entry(c) ==
    LET saved == [mode |-> cpu.mode, ie |-> cpu.ie]
        r == IF arch = "arm64" /\ c \in Ecalls
             THEN [regs EXCEPT !["pc"] = Following(@)] ELSE regs
    IN  /\ MayTrap(c)
        /\ status' = saved
        /\ cpu' = [mode |-> "kernel", ie |-> FALSE]
        /\ ctx' = SaveRegs(r, saved)
        /\ regs' = [n \in Regs |-> IF n = "sp" /\ arch = "arm64" THEN regs[n] ELSE Zero]
        /\ level' = "trap"
        /\ trap' = [cause |-> c, stage |-> "entry"]
        /\ expect' = CASE c = "call" -> [expect EXCEPT ![current]["pc"] = Following(@),
                                                     ![current]["a0"] = Value("ret", current)]
                      [] c \in Ecalls \ {"call"} -> [expect EXCEPT ![current]["pc"] = Following(@)]
                      [] OTHER -> expect
    /\ UNCHANGED <<arch, page, active, tasks, contexts, current, locked, code, panic, booted>>

(* The handler up to the lock of the scheduler: epc + 4 on riscv64,         *)
(* to_kernel_pt, and the read of GICC_IAR, which makes the timer interrupt  *)
(* active.  No other interrupt is enabled: a stray one is spurious.        *)
handler ==
    /\ Running /\ level = "trap" /\ panic["trap"] = "no"
    /\ trap.stage = "entry"
    /\ ctx' = IF arch = "riscv64" /\ trap.cause \in Ecalls
              THEN [ctx EXCEPT ![Slot[arch]["pc"]] = Following(@)] ELSE ctx
    /\ page' = IF arch = "arm64" \/ trap.cause \in Ecalls \cup {"timer"}
               THEN KERNEL_PID ELSE page
    /\ active' = (active \/ (arch = "arm64" /\ trap.cause = "timer"))
    /\ trap' = [trap EXCEPT !.stage = IF trap.cause \in Unhandled THEN "return" ELSE "lock"]
    /\ UNCHANGED <<arch, cpu, status, regs, level, taskVars, locked, code, panic, booted>>

(* What the handlers do under the lock, after the calls that nest locks.   *)
InBody == /\ Running /\ level = "trap" /\ panic["trap"] = "no"
          /\ trap.stage = "lock" /\ Held("trap") = {"SCHEDULER"}

(* Mutant: the page table is not switched after a kill. *)
ResumeNext_nopage(next, frame) ==
    /\ current' = next
    /\ ctx' = frame
    /\ page' = IF trap.cause \in {"exit", "illegal"} THEN page ELSE next
    /\ status' = IF arch = "arm64" THEN status
                 ELSE [status EXCEPT !.mode = IF next = KERNEL_PID THEN "kernel" ELSE "user"]
    /\ regs' = IF arch = "arm64" /\ next # KERNEL_PID
               THEN [regs EXCEPT !["sp"] = frame[SpSlot[arch]]] ELSE regs

(* The tail of switch_task, kill_task and their callers: the frame, the     *)
(* privilege level (riscv64) or SP_EL0 (arm64), and the page table.        *)
ResumeNext(next, frame) ==
    /\ current' = next
    /\ ctx' = frame
    /\ page' = next
    /\ status' = IF arch = "arm64" THEN status
                 ELSE [status EXCEPT !.mode = IF next = KERNEL_PID THEN "kernel" ELSE "user"]
    /\ regs' = IF arch = "arm64" /\ next # KERNEL_PID
               THEN [regs EXCEPT !["sp"] = frame[SpSlot[arch]]] ELSE regs

(* The frame with the stack pointer of a user task (mrs SP_EL0), which the  *)
(* entry code of arm64 does not save.                                      *)
WithSp == IF arch = "arm64" /\ current # KERNEL_PID
          THEN [ctx EXCEPT ![SpSlot[arch]] = regs["sp"]] ELSE ctx

(* Timer interrupt, or a system call that returns: switch_task. *)
switch_task(next) ==
    LET frame == IF trap.cause = "timer" THEN WithSp
                 ELSE [WithSp EXCEPT ![Slot[arch]["a0"]] = Value("ret", current)]
        stored == [contexts EXCEPT ![current] = frame]
    IN  /\ InBody /\ trap.cause \in {"timer", "call"}
        /\ next \in tasks
        /\ contexts' = stored
        /\ ResumeNext(next, stored[next])
        /\ trap' = [trap EXCEPT !.stage = "done"]
    /\ UNCHANGED <<arch, cpu, active, level, tasks, expect, locked, code, panic, booted>>

(* syscall_fork, and switch_task. *)
syscall_fork(next) ==
    LET child == CHOOSE p \in Pids : p \notin tasks
        a0 == Slot[arch]["a0"]
        frame == [WithSp EXCEPT ![a0] = Value("child", child)]
        stored == With([contexts EXCEPT ![current] = frame], child,
                       [WithSp EXCEPT ![a0] = Zero])
    IN  /\ InBody /\ trap.cause = "fork" /\ Pids \ tasks # {}
        /\ next \in tasks \cup {child}
        /\ tasks' = tasks \cup {child}
        /\ expect' = With([expect EXCEPT ![current]["a0"] = Value("child", child)], child,
                          [expect[current] EXCEPT !["a0"] = Zero])
        /\ contexts' = stored
        /\ ResumeNext(next, stored[next])
        /\ trap' = [trap EXCEPT !.stage = "done"]
    /\ UNCHANGED <<arch, cpu, active, level, locked, code, panic, booted>>

(* exit, or a fatal exception. *)
kill_task(next) ==
    /\ InBody /\ trap.cause \in {"exit", "illegal"}
    /\ next \in tasks \ {current}
    /\ tasks' = tasks \ {current}
    /\ contexts' = Without(contexts, current)
    /\ expect' = Without(expect, current)
    /\ ResumeNext(next, contexts[next])
    /\ trap' = [trap EXCEPT !.stage = "done"]
    /\ UNCHANGED <<arch, cpu, active, level, locked, code, panic, booted>>

(* After the guard is dropped; el1_irq_trap_handler ends the interrupt with *)
(* kernel_pt_do, which leaves the page table as it was.                    *)
handler_return ==
    /\ Running /\ level = "trap" /\ trap.stage = "done" /\ Guards = <<>>
    /\ active' = FALSE
    /\ trap' = [trap EXCEPT !.stage = "return"]
    /\ UNCHANGED <<arch, cpu, status, regs, page, ctx, level, taskVars, locked, code, panic, booted>>

(* The exit code: load the registers, sret or eret.  In the floating-point  *)
(* registers is what the compiled code of the handlers or the last program  *)
(* to use them left.                                                       *)
trap_return ==
    LET st == IF arch = "arm64" THEN ctx[PstateSlot] ELSE status
    IN  /\ Running /\ level = "trap" /\ trap.stage = "return" /\ panic["trap"] = "no"
        /\ \E fp \in {Zero} \cup {Value("fp", p) : p \in Pids} : regs' = LoadRegs(ctx, fp)
        /\ status' = st
        /\ cpu' = st
        /\ level' = "task"
        /\ ctx' = DefaultContext(arch)   \* the frame is dead
        /\ code' = [code EXCEPT !["trap"] = Idle]
    /\ UNCHANGED <<arch, page, active, trap, taskVars, locked, panic, booted>>
-----------------------------------------------------------------------------
(* create_from_elf, under the scheduler's lock; bound: one task is created,  *)
(* others come from fork.                                                  *)
create_from_elf ==
    /\ Running /\ level = "task" /\ panic["kernel"] = "no" /\ ~booted
    /\ Guards # <<>> /\ Top = "SCHEDULER"
    /\ tasks = {KERNEL_PID} /\ MaxPid > 0
    /\ tasks' = tasks \cup {1}
    /\ contexts' = With(contexts, 1, NewContext(1))
    /\ expect' = With(expect, 1, NewRegs(1))
    /\ UNCHANGED <<arch, cpuVars, ctx, level, trap, current, locked, code, panic, booted>>

(* The end of kernel_main: enable_interrupts and panic!(), whose handler    *)
(* ends in the idle loop.                                                  *)
kernel_main_end ==
    /\ Running /\ level = "task" /\ ~booted /\ panic["kernel"] = "no" /\ Guards = <<>>
    /\ cpu' = [cpu EXCEPT !.ie = TRUE]
    /\ booted' = TRUE
    /\ panic' = [panic EXCEPT !["kernel"] = "lock"]
    /\ code' = [code EXCEPT !["kernel"].left = 3]
    /\ UNCHANGED <<arch, status, regs, page, active, ctx, level, trap, taskVars, locked>>

(* A panic of kernel code (no page left, unwrap, an index out of bounds).   *)
(* The guards it holds are never dropped.  The locks the handler needs are *)
(* KMSG, the heap and, when the heap is out of cells, the page allocator.  *)
panics ==
    /\ Running /\ panic[me] = "no"
    /\ level = "trap" => trap.stage = "lock"
    /\ panic' = [panic EXCEPT ![me] = "lock"]
    /\ code' = [code EXCEPT ![me].left = 3]
    /\ UNCHANGED <<arch, cpuVars, ctx, level, trap, taskVars, locked, booted>>

(* User code, or the idle loop of the kernel, computes. *)
task_runs ==
    /\ level = "task" /\ page = current
    /\ current = KERNEL_PID => booted /\ panic["kernel"] = "done" /\ code["kernel"].pc = "run"
    /\ regs' = [r \in Regs |-> Value(r, current)]
    /\ expect' = [expect EXCEPT ![current] = [r \in Regs |-> Value(r, current)]]
    /\ UNCHANGED <<arch, cpu, status, page, active, ctx, level, trap, tasks, contexts,
                   current, locked, code, panic, booted>>

Init ==
    /\ arch \in Arches
    /\ cpu = [mode |-> "kernel", ie |-> FALSE]
    /\ status = cpu
    /\ regs = [r \in Regs |-> Value(r, KERNEL_PID)]
    /\ ctx = DefaultContext(arch)
    /\ page = KERNEL_PID
    /\ active = FALSE
    /\ level = "task"
    /\ trap = [cause |-> "timer", stage |-> "return"]
    /\ tasks = {KERNEL_PID}
    /\ contexts = [p \in {KERNEL_PID} |-> DefaultContext(arch)]
    /\ current = KERNEL_PID
    /\ locked = {}
    /\ code = [t \in Threads |-> Idle]
    /\ panic = [t \in Threads |-> "no"]
    /\ booted = FALSE
    /\ expect = [p \in {KERNEL_PID} |-> regs]

KernelStep ==
    \/ lock_irq_save \/ lock_disable_interrupts \/ lock_swap
    \/ drop_unlock \/ drop_irq_load

HandlerStep ==
    \/ handler \/ handler_return \/ trap_return
    \/ \E p \in Pids : switch_task(p) \/ syscall_fork(p) \/ kill_task(p)

Next ==
    \/ KernelStep \/ HandlerStep
    \/ \E c \in Causes : trap_entry(c)
    \/ create_from_elf \/ kernel_main_end \/ panics \/ task_runs

(* A handler runs to its end.  The timer fires, the scheduler comes back to *)
(* the kernel task (Scheduler!NoStarvation), and a task that is resumed    *)
(* again and again gets to execute instructions between two interrupts.    *)
Fairness ==
    /\ WF_vars(HandlerStep)
    /\ WF_vars(level = "trap" /\ KernelStep)
    /\ SF_vars(level = "task" /\ KernelStep)
    /\ SF_vars(trap_entry("timer"))
    /\ SF_vars(switch_task(KERNEL_PID))

Spec == Init /\ [][Next]_vars /\ Fairness
-----------------------------------------------------------------------------
(* The state is of the right type. *)
TypeOK ==
    /\ arch \in Arches
    /\ cpu \in PStates /\ status \in PStates
    /\ regs \in [Regs -> Values]
    /\ page \in Pids /\ active \in BOOLEAN
    /\ level \in {"task", "trap"}
    /\ trap \in [cause : Causes, stage : {"entry", "lock", "done", "return"}]
    /\ tasks \subseteq Pids /\ current \in tasks
    /\ DOMAIN contexts = tasks /\ DOMAIN expect = tasks
    /\ \A p \in tasks : /\ DOMAIN contexts[p] = SlotsOf(arch)
                         /\ expect[p] \in [Regs -> Values]
    /\ DOMAIN ctx = SlotsOf(arch)
    /\ locked \subseteq Locks
    /\ panic \in [Threads -> {"no", "lock", "format", "emit", "done"}]
    /\ \A t \in Threads :
         /\ code[t].pc \in {"run", "saved", "spin", "freed"}
         /\ code[t].want \in Locks \cup {"none"} /\ code[t].irq \in BOOLEAN
         /\ code[t].left \in 0..(MaxSections + 3)
         /\ code[t].guards \in Seq([lock : Locks, irq : BOOLEAN])

(* While any spinlock is held no interrupt can be taken, however guards     *)
(* nest and in whatever order interrupt flags are saved and restored; and   *)
(* a lock is held by one guard.                                            *)
SectionsAtomic ==
    /\ locked # {} => ~cpu.ie /\ cpu.mode = "kernel"
    /\ locked = Held("kernel") \cup Held("trap")
    /\ Held("kernel") \cap Held("trap") = {}

(* On the one CPU a lock that is asked for is free: nobody spins for ever,  *)
(* except a panic handler that needs a lock of the code that panicked.     *)
NoSpin ==
    \A t \in Threads :
      code[t].pc = "spin" /\ code[t].want \in locked => panic[t] # "no"

(* LocksSafe: interrupts are off in critical sections, and so no trap finds *)
(* a lock taken that it needs.                                             *)
LocksSafe == TypeOK /\ SectionsAtomic /\ NoSpin

(* Outside handlers and critical sections interrupts are on and the timer   *)
(* interrupt is not pending at the GIC, so that the running task can be     *)
(* preempted.                                                              *)
Interruptible ==
    level = "task" /\ booted /\ (current = KERNEL_PID =>
                                   code["kernel"].pc = "run" /\ Held("kernel") = {})
      => cpu.ie /\ ~active

(* A task finds the registers it had when it was interrupted, or those its  *)
(* system call left, whatever ran in between: all general-purpose registers *)
(* but gp on riscv64, which the entry code loses, and SP_EL0 in the kernel  *)
(* task of arm64.  The floating-point registers are not among them: nothing *)
(* saves them, and a task can find those of another one.                   *)
Kept == CASE arch = "riscv64" -> Regs \ {"gp", "fp"}
          [] arch = "arm64" /\ current = KERNEL_PID -> Regs \ {"sp", "fp"}
          [] OTHER -> Regs \ {"fp"}
Registers == level = "task" => \A r \in Kept : regs[r] = expect[current][r]

(* "save from x3 to x31", "load from x3 to x31" (trap.S): a task of riscv64 *)
(* finds x3, too.  It finds its stack pointer there.                       *)
GlobalPointer == level = "task" /\ arch = "riscv64" => regs["gp"] = expect[current]["gp"]

(* User tasks run in user mode, only the kernel task runs in kernel mode.   *)
Privilege == level = "task" => (cpu.mode = "kernel" <=> current = KERNEL_PID)

(* A task runs on its own page table, except after an interrupt or an       *)
(* exception that arm64's handlers have no case for: they return on the     *)
(* kernel's.                                                               *)
OwnPageTable ==
    level = "task" /\ page # current => arch = "arm64" /\ trap.cause \in Unhandled /\ page = KERNEL_PID

(* RunsAsItself: whatever trap it comes back from, its own or that of       *)
(* another task, a task runs with its privilege, on its page table, and can *)
(* be preempted.                                                           *)
RunsAsItself == Interruptible /\ Privilege /\ OwnPageTable

(* A trap ends, unless its handler panics. *)
TrapReturns == level = "trap" ~> (level = "task" \/ panic["trap"] # "no")

(* A panic gets its message out, also one that holds locks, as long as they *)
(* are not those the panic handler needs.  (The message of the kernel task  *)
(* can be overtaken by a trap that panics.)                                *)
PanicReported ==
    \A t \in Threads :
      panic[t] = "lock" /\ locked \cap {"KMSG", "HEAP", "BUDDY"} = {}
        ~> panic[t] = "done" \/ (t = "kernel" /\ panic["trap"] # "no")
=============================================================================
