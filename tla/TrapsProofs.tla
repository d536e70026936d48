---------------------------- MODULE TrapsProofs ----------------------------
(***************************************************************************)
(* Proofs about Traps for every number of tasks, every depth of critical   *)
(* sections and both targets: spinlocks, and what a task finds when it     *)
(* comes back from a trap.                                                 *)
(***************************************************************************)
EXTENDS Traps, SequenceTheorems, TLAPS

(* The types that TypeOK leaves open: a frame holds register contents, and  *)
(* on arm64 a saved processor state.                                       *)
GuardType == [lock : Locks, irq : BOOLEAN]

CodeType == [pc : {"run", "saved", "spin", "freed"}, want : Locks \cup {"none"},
             irq : BOOLEAN, guards : Seq(GuardType), left : 0..(MaxSections + 3)]

FrameOK(c) ==
    /\ DOMAIN c = SlotsOf(arch)
    /\ \A s \in SlotsOf(arch) \ {PstateSlot} : c[s] \in Values
    /\ arch = "arm64" => c[PstateSlot] \in PStates

TypeInv ==
    /\ TypeOK
    /\ code \in [Threads -> CodeType]
    /\ \A t \in Threads : code[t].pc \in {"saved", "spin"} => code[t].want \in Locks
    /\ FrameOK(ctx)
    /\ \A p \in tasks : FrameOK(contexts[p])

-----------------------------------------------------------------------------
(* The kernel task is not running. *)
Interrupted == level = "trap" \/ current # KERNEL_PID

(* The guards of the kernel task and the interrupt flag: while it runs,     *)
(* interrupts are on exactly if it is booted and neither holds a lock nor   *)
(* is about to take or has just released one; it is interrupted only then.  *)
KernelCode ==
    LET k == code["kernel"]
    IN  /\ \A i \in DOMAIN k.guards : k.guards[i].irq <=> (booted /\ i = 1)
        /\ Interrupted => /\ booted /\ k.guards = <<>>
                          /\ k.pc \in {"run", "saved"}
                          /\ k.pc = "saved" => k.irq
        /\ ~Interrupted => /\ cpu.ie <=> (/\ k.pc \in {"run", "saved"}
                                          /\ booted /\ k.guards = <<>>)
                           /\ k.pc # "run" => (k.irq <=> (booted /\ k.guards = <<>>))

(* A handler runs with interrupts off and restores nothing else; it holds   *)
(* no lock when it begins and when it returns.                             *)
TrapCode ==
    LET t == code["trap"]
    IN  /\ level = "task" => t = Idle /\ panic["trap"] = "no"
        /\ level = "trap" =>
             /\ cpu.mode = "kernel" /\ ~cpu.ie
             /\ ~t.irq /\ \A i \in DOMAIN t.guards : ~t.guards[i].irq
             /\ trap.stage \in {"entry", "return"} => t.pc = "run" /\ t.guards = <<>>
             /\ trap.stage = "done" => t.pc \in {"run", "freed"}
             /\ panic["trap"] # "no" => trap.stage = "lock"

(* Locks nest in the order of their ranks, which differs between the code   *)
(* that boots and the handlers.                                            *)
BootRank == [KMSG |-> 1, DEVICE_MGR |-> 2, ROOT_VFS |-> 3, SCHEDULER |-> 4,
             HEAP |-> 5, BUDDY |-> 6]
TrapRank == [SCHEDULER |-> 1, ROOT_VFS |-> 2, KMSG |-> 3, DEVICE_MGR |-> 3,
             HEAP |-> 4, BUDDY |-> 5]
Rank(t) == IF t = "kernel" THEN BootRank ELSE TrapRank

Below(t, l) ==
    \A i \in DOMAIN code[t].guards : Rank(t)[code[t].guards[i].lock] < Rank(t)[l]

Nested ==
    \A t \in Threads : panic[t] = "no" =>
      /\ \A i, j \in DOMAIN code[t].guards :
           i < j => Rank(t)[code[t].guards[i].lock] < Rank(t)[code[t].guards[j].lock]
      /\ code[t].pc \in {"saved", "spin"} => Below(t, code[t].want)

(* A thread has one guard per lock, and the flags that are set are those of *)
(* the guards.                                                             *)
OneGuard ==
    \A t \in Threads : \A i, j \in DOMAIN code[t].guards :
      code[t].guards[i].lock = code[t].guards[j].lock => i = j

FlagsHeld == locked = Held("kernel") \cup Held("trap")

-----------------------------------------------------------------------------
(* What a task goes on with: its mode, and interrupts on. *)
ModeOf(p) == IF p = KERNEL_PID THEN "kernel" ELSE "user"
Resumable(p, st) == st.mode = ModeOf(p) /\ st.ie

ModeInv ==
    /\ KERNEL_PID \in tasks
    /\ level = "task" => cpu.mode = ModeOf(current) /\ (current # KERNEL_PID => cpu.ie)
    /\ level = "trap" =>
         /\ arch = "riscv64" => Resumable(current, status)
         /\ arch = "arm64" => Resumable(current, ctx[PstateSlot])
         /\ trap.stage \in {"entry", "lock"} /\ trap.cause \notin {"timer", "stray"} =>
              current # KERNEL_PID
    /\ arch = "arm64" =>
         \A p \in tasks \ {current} : Resumable(p, contexts[p][PstateSlot])
    /\ active => level = "trap" /\ trap.stage \in {"lock", "done"}

LockInv == TypeInv /\ KernelCode /\ TrapCode /\ Nested /\ OneGuard /\ FlagsHeld /\ ModeInv

-----------------------------------------------------------------------------
(* The page table of the task that runs, or will after the trap. *)
OnOwnPages ==
    page = current \/ (arch = "arm64" /\ trap.cause \in Unhandled /\ page = KERNEL_PID)

PageInv ==
    /\ level = "task" \/ trap.stage \in {"done", "return"} => OnOwnPages
    /\ level = "trap" /\ trap.stage = "entry" /\ arch = "riscv64" => page = current

(* The registers that a frame keeps in slots of their own. *)
Plain == IF arch = "riscv64" THEN Regs \ {"sp", "gp", "fp"} ELSE Regs \ {"sp", "fp"}

InFrame(c, p, r) == c[Slot[arch][r]] = expect[p][r]

(* The stack pointer of the current task in a trap: in the frame or, on     *)
(* arm64, still in SP_EL0.                                                 *)
SpKept ==
    /\ arch = "riscv64" => ctx[SpSlot[arch]] = expect[current]["sp"]
    /\ arch = "arm64" /\ current # KERNEL_PID => regs["sp"] = expect[current]["sp"]

FrameInv ==
    /\ level = "task" => Registers
    /\ \A p \in tasks \ {current} :
         /\ \A r \in Plain : InFrame(contexts[p], p, r)
         /\ arch = "riscv64" \/ p # KERNEL_PID => contexts[p][SpSlot[arch]] = expect[p]["sp"]
    /\ level = "trap" => SpKept
    /\ level = "trap" /\ trap.stage \in {"done", "return"} =>
         \A r \in Plain : InFrame(ctx, current, r)
    /\ level = "trap" /\ trap.stage \in {"entry", "lock"} =>
         /\ \A r \in Plain \ {"pc", "a0"} : InFrame(ctx, current, r)
         /\ trap.cause # "call" => InFrame(ctx, current, "a0")
         /\ trap.cause = "call" => expect[current]["a0"] = Value("ret", current)
         /\ IF arch = "riscv64" /\ trap.stage = "entry" /\ trap.cause \in Ecalls
            THEN Following(ctx[Slot[arch]["pc"]]) = expect[current]["pc"]
            ELSE InFrame(ctx, current, "pc")

TrapsInv == LockInv /\ PageInv /\ FrameInv

-----------------------------------------------------------------------------
(* The layout of a frame: every register but the stack pointer has a slot   *)
(* of its own, save that x3 shares one with the stack pointer on riscv64.   *)
LEMMA ArchCases ==
  ASSUME arch \in Arches PROVE arch = "riscv64" \/ arch = "arm64"
BY TrapsAssumption

LEMMA Layout ==
  ASSUME NEW a \in {"riscv64", "arm64"}
  PROVE  /\ DOMAIN Slot[a] = Regs \ {"sp", "fp"}
         /\ \A r \in Regs \ {"sp", "fp"} : Slot[a][r] \in SlotsOf(a) /\ Slot[a][r] # PstateSlot
         /\ SpSlot[a] \in SlotsOf(a) /\ SpSlot[a] # PstateSlot
         /\ \A r, q \in Regs \ {"sp", "fp"} : Slot[a][r] = Slot[a][q] => r = q
         /\ \A r \in Regs \ {"sp", "fp"} : Slot[a][r] = SpSlot[a] => a = "riscv64" /\ r = "gp"
         /\ \A s \in SlotsOf(a) \ {PstateSlot, SpSlot[a]} :
              \E r \in Regs \ {"sp", "fp"} : Slot[a][r] = s
         /\ a = "arm64" => PstateSlot \in SlotsOf(a)
         /\ a = "riscv64" => PstateSlot \notin SlotsOf(a)
<1>1. CASE a = "riscv64"
  BY <1>1 DEF Slot, SpSlot, SlotsOf, PstateSlot, Regs
<1>2. CASE a = "arm64"
  BY <1>2 DEF Slot, SpSlot, SlotsOf, PstateSlot, Regs
<1> QED BY <1>1, <1>2

(* The entry code stores each register in its slot. *)
LEMMA SavedRegs ==
  ASSUME arch \in Arches, NEW r \in [Regs -> Values], NEW st \in PStates
  PROVE  /\ FrameOK(SaveRegs(r, st))
         /\ \A n \in Plain : SaveRegs(r, st)[Slot[arch][n]] = r[n]
         /\ arch = "riscv64" => SaveRegs(r, st)[SpSlot[arch]] = r["sp"]
         /\ arch = "arm64" => SaveRegs(r, st)[PstateSlot] = st
<1>1. arch \in {"riscv64", "arm64"}
  BY ArchCases
<1> DEFINE N(s) == CHOOSE n \in DOMAIN Slot[arch] : Slot[arch][n] = s
<1>2. \A s \in SlotsOf(arch) \ {PstateSlot, SpSlot[arch]} :
         N(s) \in Regs \ {"sp", "fp"} /\ Slot[arch][N(s)] = s
  BY <1>1, Layout
<1>3. \A n \in Plain : /\ n \in Regs \ {"sp", "fp"}
                        /\ Slot[arch][n] \in SlotsOf(arch) \ {PstateSlot, SpSlot[arch]}
  BY <1>1, Layout DEF Plain
<1>4. \A n \in Plain : N(Slot[arch][n]) = n
  BY <1>1, <1>2, <1>3, Layout
<1>5. Zero \in Values /\ r["sp"] \in Values
  BY DEF Values, Regs
<1>6. SaveRegs(r, st) = [s \in SlotsOf(arch) |->
         IF s = SpSlot[arch] THEN IF arch = "riscv64" THEN r["sp"] ELSE Zero
         ELSE IF s = PstateSlot THEN st ELSE r[N(s)]]
  BY DEF SaveRegs
<1> HIDE DEF N
<1>7. \A s \in SlotsOf(arch) \ {PstateSlot, SpSlot[arch]} : r[N(s)] \in Values
  BY <1>2
<1>8. FrameOK(SaveRegs(r, st))
  BY <1>1, <1>5, <1>6, <1>7, Layout DEF FrameOK
<1> QED BY <1>1, <1>3, <1>4, <1>6, <1>8, Layout

-----------------------------------------------------------------------------
(* The elements of a sequence, and its last one. *)
LEMMA SeqFacts ==
  ASSUME NEW S, NEW q \in Seq(S)
  PROVE  /\ Len(q) \in Nat /\ DOMAIN q = 1..Len(q)
         /\ \A i \in DOMAIN q : q[i] \in S /\ i \in Nat /\ 1 =< i /\ i =< Len(q)
         /\ q # <<>> => Len(q) \in DOMAIN q /\ q[Len(q)] \in S
OBVIOUS

(* The running thread and its guards. *)
LEMMA GuardFacts ==
  ASSUME TypeInv
  PROVE  /\ me \in Threads /\ code[me] \in CodeType
         /\ Guards \in Seq(GuardType)
         /\ Guards # <<>> => /\ Len(Guards) \in DOMAIN Guards
                             /\ \A i \in DOMAIN Guards : i =< Len(Guards)
                             /\ Guards[Len(Guards)] \in GuardType
                             /\ Top \in Locks
<1>1. me \in Threads
  BY DEF me, Threads
<1>2. code[me] \in CodeType
  BY <1>1 DEF TypeInv
<1>3. Guards \in Seq(GuardType)
  BY <1>2 DEF Guards, CodeType
<1>4. ASSUME Guards # <<>>
      PROVE  /\ Len(Guards) \in DOMAIN Guards
             /\ \A i \in DOMAIN Guards : i =< Len(Guards)
             /\ Guards[Len(Guards)] \in GuardType
             /\ Top \in Locks
  <2>1. Len(Guards) \in DOMAIN Guards /\ Guards[Len(Guards)] \in GuardType
    BY <1>3, <1>4, SeqFacts
  <2>2. \A i \in DOMAIN Guards : i =< Len(Guards)
    BY <1>3, SeqFacts
  <2> QED BY <2>1, <2>2 DEF Top, GuardType
<1> QED BY <1>1, <1>2, <1>3, <1>4

LEMMA MayLockType ==
  ASSUME TypeInv, NEW l \in MayLock PROVE l \in Locks
<1>1. Guards # <<>> => Top \in Locks
  BY GuardFacts
<1>2. ASSUME NEW k \in Locks PROVE BootNests[k] \subseteq Locks /\ TrapNests[k] \subseteq Locks
  BY DEF BootNests, TrapNests, Locks
<1>3. PanicLocks(panic[me]) \subseteq Locks
  BY DEF PanicLocks, Locks
<1> QED BY <1>1, <1>2, <1>3 DEF MayLock, Locks

(* A lock that may be asked for ranks above all that are held. *)
LEMMA MayLockRank ==
  ASSUME TypeInv, Nested, panic[me] = "no", NEW l \in MayLock
  PROVE  Below(me, l)
<1>1. me \in Threads /\ Guards \in Seq(GuardType)
  BY GuardFacts
<1>2. CASE Guards = <<>>
  BY <1>2 DEF Below, Guards
<1>3. CASE Guards # <<>>
  <2>1. Top \in Locks /\ Len(Guards) \in DOMAIN Guards /\ \A i \in DOMAIN Guards : i =< Len(Guards)
    BY <1>3, GuardFacts
  <2>2. IF me = "kernel" THEN l \in BootNests[Top] ELSE l \in TrapNests[Top]
    BY <1>3 DEF MayLock
  <2>3. Rank(me)[Top] < Rank(me)[l]
    <3>1. CASE me = "kernel"
      BY <2>1, <2>2, <3>1 DEF Rank, BootRank, BootNests, Locks
    <3>2. CASE me # "kernel"
      BY <2>1, <2>2, <3>2 DEF Rank, TrapRank, TrapNests, Locks
    <3> QED BY <3>1, <3>2
  <2>4. \A k \in Locks : Rank(me)[k] \in Nat
    BY DEF Rank, BootRank, TrapRank, Locks
  <2>5. ASSUME NEW i \in DOMAIN Guards
        PROVE  Rank(me)[Guards[i].lock] < Rank(me)[l]
    <3>1. Guards[i].lock \in Locks /\ l \in Locks /\ i \in Nat
      <4>1. Guards[i] \in GuardType /\ i \in Nat
        BY <1>1, SeqFacts
      <4> QED BY <4>1, MayLockType DEF GuardType
    <3>2. CASE i = Len(Guards)
      BY <2>3, <3>2 DEF Top
    <3>3. CASE i < Len(Guards)
      <4>1. Rank(me)[Guards[i].lock] < Rank(me)[Top]
        BY <1>1, <2>1, <3>3 DEF Nested, Guards, Top
      <4> QED BY <4>1, <2>1, <2>3, <2>4, <3>1
    <3> QED BY <1>1, <2>1, <3>2, <3>3
  <2> QED BY <2>5 DEF Below, Guards
<1> QED BY <1>2, <1>3

(* A thread whose code changes keeps the types of the other. *)
LEMMA SetType ==
  ASSUME TypeInv, NEW c \in CodeType, Set(c)
  PROVE  /\ code' \in [Threads -> CodeType]
         /\ code'[me] = c
         /\ \A t \in Threads \ {me} : code'[t] = code[t]
BY GuardFacts DEF TypeInv, Set

(* What every step of lock and drop leaves alone. *)
Rest == <<arch, status, regs, page, active, ctx, level, trap, tasks, contexts, current,
          expect, booted>>

PanicStages == {"no", "lock", "format", "emit", "done"}

(* A step of lock or drop keeps the types and the modes. *)
LEMMA LockStepType ==
  ASSUME TypeInv, UNCHANGED Rest, code' \in [Threads -> CodeType],
         \A t \in Threads : code'[t].pc \in {"saved", "spin"} => code'[t].want \in Locks,
         cpu' \in PStates, locked' \subseteq Locks, panic' \in [Threads -> PanicStages]
  PROVE  TypeInv'
<1>1. TypeOK'
  BY DEF TypeInv, TypeOK, Rest, CodeType, GuardType, PanicStages
<1>2. FrameOK(ctx)' /\ \A p \in tasks' : FrameOK(contexts[p])'
  BY DEF TypeInv, FrameOK, Rest
<1> QED BY <1>1, <1>2 DEF TypeInv

LEMMA LockStepMode ==
  ASSUME LockInv, UNCHANGED Rest, InKernel, cpu'.mode = cpu.mode
  PROVE  ModeInv'
BY DEF LockInv, ModeInv, Rest, InKernel, ModeOf, Resumable

(* lock, up to the save of the interrupt flag: the lock that is asked for   *)
(* ranks above the others.                                                 *)
LEMMA IrqSaveLocks == LockInv /\ lock_irq_save => LockInv'
<1> SUFFICES ASSUME LockInv, lock_irq_save PROVE LockInv'
  OBVIOUS
<1>1. TypeInv /\ me \in Threads /\ code[me] \in CodeType /\ cpu \in PStates
  BY GuardFacts DEF LockInv, TypeInv, TypeOK
<1>2. PICK l \in MayLock :
         Set([code[me] EXCEPT !.pc = "saved", !.want = l, !.irq = cpu.ie, !.left = @ - 1])
  BY DEF lock_irq_save
<1> DEFINE c == [code[me] EXCEPT !.pc = "saved", !.want = l, !.irq = cpu.ie, !.left = @ - 1]
<1>3. UNCHANGED Rest /\ UNCHANGED <<cpu, locked, panic>> /\ me' = me
  BY DEF lock_irq_save, Rest, cpuVars, taskVars, me
<1>4. l \in Locks
  BY <1>1, MayLockType
<1>5. c \in CodeType /\ c.pc = "saved" /\ c.want = l /\ (c.irq <=> cpu.ie) /\ c.guards = Guards
  <2>1. cpu.ie \in BOOLEAN
    BY <1>1 DEF PStates
  <2>2. code[me].left > 0
    BY DEF lock_irq_save
  <2>3. code[me].left - 1 \in 0..(MaxSections + 3)
    BY <1>1, <2>2, TrapsAssumption DEF CodeType
  <2>4. c.pc = "saved" /\ c.want = l /\ c.irq = cpu.ie /\ c.guards = Guards
    BY <1>1 DEF CodeType, Guards
  <2>5. c \in CodeType
    BY <1>1, <1>4, <2>1, <2>3 DEF CodeType
  <2> QED BY <2>4, <2>5
<1> HIDE DEF c
<1>6. /\ code' \in [Threads -> CodeType] /\ code'[me] = c
      /\ \A t \in Threads \ {me} : code'[t] = code[t]
  BY <1>1, <1>2, <1>5, SetType DEF c
<1>7. \A t \in Threads : code'[t].guards = code[t].guards
  BY <1>5, <1>6 DEF Guards
<1>8. TypeInv'
  <2>1. \A t \in Threads : code'[t].pc \in {"saved", "spin"} => code'[t].want \in Locks
    BY <1>1, <1>4, <1>5, <1>6 DEF TypeInv
  <2> QED BY <1>1, <1>3, <1>6, <2>1, LockStepType DEF TypeInv, TypeOK, PanicStages
<1>9. ModeInv'
  BY <1>3, LockStepMode DEF lock_irq_save, Running
<1>10. KernelCode'
  BY <1>3, <1>5, <1>6, <1>7 DEF LockInv, KernelCode, Interrupted, Rest, me, lock_irq_save,
     Running, InKernel, Threads, Guards
<1>11. TrapCode'
  BY <1>3, <1>5, <1>6, <1>7 DEF LockInv, TrapCode, Rest, me, lock_irq_save, Running, InKernel, Threads, MayLock
<1>12. Nested'
  <2>1. panic[me] = "no" => Below(me, l)
    BY <1>1, MayLockRank DEF LockInv
  <2> QED BY <2>1, <1>3, <1>5, <1>6, <1>7 DEF LockInv, Nested, Below
<1>13. OneGuard' /\ FlagsHeld'
  BY <1>3, <1>7 DEF LockInv, OneGuard, FlagsHeld, Held, Threads
<1> QED BY <1>8, <1>9, <1>10, <1>11, <1>12, <1>13 DEF LockInv

LEMMA DisableLocks == LockInv /\ lock_disable_interrupts => LockInv'
<1> SUFFICES ASSUME LockInv, lock_disable_interrupts PROVE LockInv'
  OBVIOUS
<1>1. TypeInv /\ me \in Threads /\ code[me] \in CodeType /\ cpu \in PStates
  BY GuardFacts DEF LockInv, TypeInv, TypeOK
<1> DEFINE c == [code[me] EXCEPT !.pc = "spin"]
<1>2. /\ Set(c) /\ InKernel /\ code[me].pc = "saved"
      /\ cpu' = [cpu EXCEPT !.ie = FALSE]
      /\ UNCHANGED Rest /\ UNCHANGED <<locked, panic>> /\ me' = me
  BY DEF lock_disable_interrupts, Rest, taskVars, me
<1>3. c \in CodeType /\ c.pc = "spin" /\ c.want = code[me].want /\ (c.irq <=> code[me].irq)
      /\ c.guards = code[me].guards
  BY <1>1 DEF CodeType
<1> HIDE DEF c
<1>4. cpu' \in PStates /\ cpu'.mode = cpu.mode /\ ~cpu'.ie
  BY <1>1, <1>2 DEF PStates
<1>5. /\ code' \in [Threads -> CodeType] /\ code'[me] = c
      /\ \A t \in Threads \ {me} : code'[t] = code[t]
  BY <1>1, <1>2, <1>3, SetType
<1>6. \A t \in Threads : code'[t].guards = code[t].guards /\ code'[t].want = code[t].want
  BY <1>3, <1>5
<1>7. TypeInv'
  <2>1. \A t \in Threads : code'[t].pc \in {"saved", "spin"} => code'[t].want \in Locks
    BY <1>1, <1>2, <1>3, <1>5 DEF TypeInv
  <2> QED BY <1>1, <1>2, <1>4, <1>5, <2>1, LockStepType DEF TypeInv, TypeOK, PanicStages
<1>8. ModeInv'
  BY <1>2, <1>4, LockStepMode
<1>9. KernelCode'
  BY <1>2, <1>3, <1>4, <1>5, <1>6 DEF LockInv, KernelCode, Interrupted, Rest, me, InKernel, Threads
<1>10. TrapCode'
  BY <1>2, <1>3, <1>4, <1>5, <1>6 DEF LockInv, TrapCode, Rest, me, InKernel, Threads
<1>11. Nested'
  BY <1>2, <1>3, <1>5, <1>6 DEF LockInv, Nested, Below
<1>12. OneGuard' /\ FlagsHeld'
  BY <1>2, <1>6 DEF LockInv, OneGuard, FlagsHeld, Held, Threads
<1> QED BY <1>7, <1>8, <1>9, <1>10, <1>11, <1>12 DEF LockInv

(* A guard is pushed, and the last one popped. *)
LEMMA Pushed ==
  ASSUME NEW S, NEW q \in Seq(S), NEW g \in S
  PROVE  /\ Append(q, g) \in Seq(S) /\ Append(q, g) # <<>>
         /\ DOMAIN Append(q, g) = 1..(Len(q) + 1)
         /\ Append(q, g)[Len(q) + 1] = g
         /\ \A i \in 1..Len(q) : Append(q, g)[i] = q[i]
OBVIOUS

LEMMA Popped ==
  ASSUME NEW S, NEW q \in Seq(S), q # <<>>
  PROVE  /\ SubSeq(q, 1, Len(q) - 1) \in Seq(S)
         /\ DOMAIN SubSeq(q, 1, Len(q) - 1) = 1..(Len(q) - 1)
         /\ \A i \in 1..(Len(q) - 1) : SubSeq(q, 1, Len(q) - 1)[i] = q[i]
         /\ SubSeq(q, 1, Len(q) - 1) = <<>> <=> Len(q) = 1
<1> DEFINE n == Len(q)
           r == SubSeq(q, 1, n - 1)
<1>1. n \in Nat /\ n >= 1 /\ \A i \in 1..n : q[i] \in S
  BY SeqFacts
<1> HIDE DEF n
<1>2. /\ r \in Seq(S)
      /\ Len(r) = IF 1 =< n - 1 THEN n - 1 - 1 + 1 ELSE 0
      /\ \A i \in 1..(n - 1 - 1 + 1) : r[i] = q[1 + i - 1]
  <2>1. 1 \in Int /\ n - 1 \in Int /\ \A i \in 1..(n - 1) : q[i] \in S
    BY <1>1
  <2> QED BY <2>1, SubSeqProperties
<1> HIDE DEF r
<1>3. Len(r) = n - 1
  BY <1>1, <1>2
<1>4. ASSUME NEW i \in 1..(n - 1) PROVE r[i] = q[i]
  <2>1. i \in 1..(n - 1 - 1 + 1) /\ 1 + i - 1 = i
    BY <1>1
  <2> QED BY <1>2, <2>1
<1>5. DOMAIN r = 1..(n - 1)
  BY <1>2, <1>3
<1>6. r = <<>> <=> n = 1
  BY <1>1, <1>2, <1>3
<1> QED BY <1>2, <1>4, <1>5, <1>6 DEF r, n

(* The swap that takes a lock. *)
LEMMA SwapLocks == LockInv /\ lock_swap => LockInv'
<1> SUFFICES ASSUME LockInv, lock_swap PROVE LockInv'
  OBVIOUS
<1>1. /\ TypeInv /\ me \in Threads /\ code[me] \in CodeType /\ cpu \in PStates
      /\ Guards \in Seq(GuardType)
  BY GuardFacts DEF LockInv, TypeInv, TypeOK
<1> DEFINE l == code[me].want
           g == [lock |-> l, irq |-> code[me].irq]
           c == [code[me] EXCEPT !.pc = "run", !.want = "none", !.irq = FALSE,
                                 !.guards = Append(@, g)]
<1>2. /\ Set(c) /\ InKernel /\ code[me].pc = "spin"
      /\ l \notin locked /\ locked' = locked \cup {l}
      /\ panic' = (IF panic[me] = "lock" THEN [panic EXCEPT ![me] = "format"] ELSE panic)
      /\ UNCHANGED Rest /\ UNCHANGED cpu /\ me' = me
  BY DEF lock_swap, Rest, taskVars, cpuVars, me
<1>3. l \in Locks /\ g \in GuardType /\ g.lock = l /\ g.irq = code[me].irq
  BY <1>1, <1>2 DEF TypeInv, CodeType, GuardType
<1> HIDE DEF g
<1> DEFINE q == Append(Guards, g)
<1>4. /\ q \in Seq(GuardType) /\ q # <<>> /\ DOMAIN q = 1..(Len(Guards) + 1)
      /\ q[Len(Guards) + 1] = g /\ \A i \in 1..Len(Guards) : q[i] = Guards[i]
  BY <1>1, <1>3, Pushed
<1>5. Len(Guards) \in Nat /\ DOMAIN Guards = 1..Len(Guards)
  BY <1>1, SeqFacts
<1> HIDE DEF q
<1>6. c \in CodeType /\ c.pc = "run" /\ c.irq = FALSE /\ c.guards = q
  BY <1>1, <1>4 DEF CodeType, Guards, q
<1> HIDE DEF c, l
<1>7. /\ code' \in [Threads -> CodeType] /\ code'[me] = c
      /\ \A t \in Threads \ {me} : code'[t] = code[t]
  BY <1>1, <1>2, <1>6, SetType
<1>8. panic' \in [Threads -> PanicStages] /\ \A t \in Threads : panic'[t] = "no" <=> panic[t] = "no"
  BY <1>1, <1>2 DEF TypeInv, TypeOK, PanicStages
<1>9. TypeInv'
  <2>1. \A t \in Threads : code'[t].pc \in {"saved", "spin"} => code'[t].want \in Locks
    BY <1>1, <1>6, <1>7 DEF TypeInv
  <2>2. locked' \subseteq Locks
    BY <1>1, <1>2, <1>3 DEF TypeInv, TypeOK
  <2> QED BY <1>1, <1>2, <1>7, <1>8, <2>1, <2>2, LockStepType DEF TypeInv, TypeOK
<1>10. ModeInv'
  BY <1>2, LockStepMode
<1>11. KernelCode'
  <2>1. CASE me = "kernel"
    <3>1. level = "task" /\ ~Interrupted /\ ~Interrupted'
      BY <1>2, <2>1 DEF me, InKernel, Interrupted, Rest, LockInv, TypeInv, TypeOK
    <3>2. ~cpu.ie /\ (code[me].irq <=> booted /\ Guards = <<>>)
      BY <1>2, <2>1, <3>1 DEF LockInv, KernelCode, Guards
    <3>3. Guards = <<>> <=> Len(Guards) = 0
      BY <1>1
    <3>4. \A i \in DOMAIN Guards : Guards[i].irq <=> booted /\ i = 1
      BY <2>1 DEF LockInv, KernelCode, Guards
    <3>5. \A i \in DOMAIN q : q[i].irq <=> booted /\ i = 1
      BY <1>3, <1>4, <1>5, <3>2, <3>3, <3>4
    <3> QED BY <1>2, <1>4, <1>6, <1>7, <2>1, <3>1, <3>2, <3>5 DEF KernelCode, Rest
  <2>2. CASE me = "trap"
    <3>1. code'["kernel"] = code["kernel"] /\ Interrupted /\ Interrupted'
      BY <1>2, <1>7, <2>2 DEF Threads, me, Interrupted, Rest
    <3> QED BY <1>2, <3>1 DEF LockInv, KernelCode, Rest
  <2> QED BY <2>1, <2>2 DEF me
<1>12. TrapCode'
  <2>1. CASE me = "kernel"
    <3>1. code'["trap"] = code["trap"] /\ panic'["trap"] = panic["trap"] /\ level = "task"
      BY <1>1, <1>2, <1>7, <2>1 DEF Threads, me, LockInv, TypeInv, TypeOK
    <3> QED BY <1>2, <3>1 DEF LockInv, TrapCode, Rest
  <2>2. CASE me = "trap"
    <3>1. level = "trap" /\ level' = "trap" /\ trap' = trap
      BY <1>2, <2>2 DEF me, Rest
    <3>2. ~code[me].irq /\ \A i \in DOMAIN Guards : ~Guards[i].irq
      BY <2>2, <3>1 DEF LockInv, TrapCode, Guards
    <3>3. \A i \in DOMAIN q : ~q[i].irq
      BY <1>3, <1>4, <1>5, <3>2
    <3>4. trap.stage = "lock"
      BY <1>1, <1>2, <2>2, <3>1 DEF LockInv, TrapCode, TypeInv, TypeOK
    <3> QED BY <1>2, <1>6, <1>7, <2>2, <3>1, <3>3, <3>4 DEF LockInv, TrapCode
  <2> QED BY <2>1, <2>2 DEF me
<1>13. Nested'
  <2> SUFFICES ASSUME NEW t \in Threads, panic'[t] = "no"
               PROVE  /\ \A i, j \in DOMAIN code'[t].guards : i < j =>
                           Rank(t)[code'[t].guards[i].lock] < Rank(t)[code'[t].guards[j].lock]
                      /\ code'[t].pc \in {"saved", "spin"} => Below(t, code[t].want)'
    BY DEF Nested
  <2>1. CASE t = me
    <3>1. \A i \in DOMAIN Guards : Rank(t)[Guards[i].lock] < Rank(t)[l]
      BY <1>2, <1>8, <2>1 DEF LockInv, Nested, Below, Guards, l
    <3>2. \A i, j \in DOMAIN Guards : i < j => Rank(t)[Guards[i].lock] < Rank(t)[Guards[j].lock]
      BY <1>8, <2>1 DEF LockInv, Nested, Guards
    <3>3. \A i, j \in DOMAIN q : i < j => Rank(t)[q[i].lock] < Rank(t)[q[j].lock]
      BY <1>3, <1>4, <1>5, <3>1, <3>2
    <3> QED BY <1>6, <1>7, <2>1, <3>3
  <2>2. CASE t # me
    BY <1>7, <1>8, <2>2 DEF LockInv, Nested, Below
  <2> QED BY <2>1, <2>2
<1>14. Held(me) \subseteq locked /\ Held(me) = {Guards[i].lock : i \in DOMAIN Guards}
  BY <1>1 DEF LockInv, FlagsHeld, Held, Guards, Threads
<1>15. OneGuard'
  <2> SUFFICES ASSUME NEW t \in Threads, NEW i \in DOMAIN code'[t].guards,
                      NEW j \in DOMAIN code'[t].guards,
                      code'[t].guards[i].lock = code'[t].guards[j].lock
               PROVE  i = j
    BY DEF OneGuard
  <2>1. CASE t = me
    <3>1. \A k \in DOMAIN Guards : Guards[k].lock # l
      BY <1>2, <1>14
    <3>2. \A k, m \in DOMAIN Guards : Guards[k].lock = Guards[m].lock => k = m
      BY <1>1 DEF LockInv, OneGuard, Guards
    <3> QED BY <1>3, <1>4, <1>5, <1>6, <1>7, <2>1, <3>1, <3>2
  <2>2. CASE t # me
    BY <1>7, <2>2 DEF LockInv, OneGuard
  <2> QED BY <2>1, <2>2
<1>16. FlagsHeld'
  <2>1. Held(me)' = Held(me) \cup {l}
    <3>1. Held(me)' = {q[i].lock : i \in DOMAIN q}
      BY <1>2, <1>6, <1>7 DEF Held
    <3> QED BY <3>1, <1>3, <1>4, <1>5, <1>14
  <2>2. \A t \in Threads \ {me} : Held(t)' = Held(t)
    BY <1>7 DEF Held
  <2>3. me' = me
    BY <1>2
  <2> QED BY <1>1, <1>2, <2>1, <2>2, <2>3 DEF LockInv, FlagsHeld, Threads
<1> QED BY <1>9, <1>10, <1>11, <1>12, <1>13, <1>15, <1>16 DEF LockInv

(* Only one thread holds guards at a time. *)
LEMMA OtherEmpty ==
  ASSUME LockInv, NEW t \in Threads, t # me
  PROVE  code[t].guards = <<>> /\ Held(t) = {}
<1>1. CASE level = "trap"
  BY <1>1 DEF LockInv, KernelCode, Interrupted, me, Threads, Held
<1>2. CASE level = "task"
  BY <1>2 DEF LockInv, TrapCode, me, Threads, Held, Idle
<1> QED BY <1>1, <1>2 DEF LockInv, TypeInv, TypeOK

(* drop, up to the clearing of the flag. *)
LEMMA UnlockLocks == LockInv /\ drop_unlock => LockInv'
<1> SUFFICES ASSUME LockInv, drop_unlock PROVE LockInv'
  OBVIOUS
<1>1. /\ TypeInv /\ me \in Threads /\ code[me] \in CodeType /\ cpu \in PStates
      /\ Guards \in Seq(GuardType) /\ Guards # <<>>
  BY GuardFacts DEF LockInv, TypeInv, TypeOK, drop_unlock, MayDrop
<1> DEFINE g == Guards[Len(Guards)]
           q == SubSeq(Guards, 1, Len(Guards) - 1)
           c == [code[me] EXCEPT !.pc = "freed", !.irq = g.irq,
                  !.guards = SubSeq(@, 1, Len(@) - 1),
                  !.left = IF PanicAfterDrop = "done" THEN 0 ELSE @]
<1>2. /\ Set(c) /\ InKernel /\ code[me].pc = "run" /\ MayDrop
      /\ locked' = locked \ {g.lock}
      /\ panic' = [panic EXCEPT ![me] = PanicAfterDrop]
      /\ UNCHANGED Rest /\ UNCHANGED cpu /\ me' = me
  BY DEF drop_unlock, Rest, taskVars, cpuVars, me, Running
<1>3. Len(Guards) \in Nat /\ Len(Guards) >= 1 /\ DOMAIN Guards = 1..Len(Guards) /\ g \in GuardType
  BY <1>1, SeqFacts
<1>4. /\ q \in Seq(GuardType) /\ DOMAIN q = 1..(Len(Guards) - 1)
      /\ \A i \in 1..(Len(Guards) - 1) : q[i] = Guards[i]
      /\ q = <<>> <=> Len(Guards) = 1
  BY <1>1, Popped
<1>5. g.irq \in BOOLEAN /\ g.lock \in Locks
  BY <1>3 DEF GuardType
<1>6. c \in CodeType /\ c.pc = "freed" /\ c.irq = g.irq /\ c.guards = q
  <2>1. 0 \in 0..(MaxSections + 3)
    BY TrapsAssumption
  <2> HIDE DEF g
  <2>2. c.pc = "freed" /\ c.irq = g.irq /\ c.guards = q
    BY <1>1 DEF CodeType, Guards
  <2>3. c \in CodeType
    BY <1>1, <1>4, <1>5, <2>1 DEF CodeType, Guards
  <2> QED BY <2>2, <2>3
<1> HIDE DEF c, q
<1>7. /\ code' \in [Threads -> CodeType] /\ code'[me] = c
      /\ \A t \in Threads \ {me} : code'[t] = code[t]
  BY <1>1, <1>2, <1>6, SetType
<1>8. panic' \in [Threads -> PanicStages] /\ \A t \in Threads : panic'[t] = "no" <=> panic[t] = "no"
  BY <1>1, <1>2 DEF TypeInv, TypeOK, PanicStages, PanicAfterDrop
<1>9. TypeInv'
  <2>1. \A t \in Threads : code'[t].pc \in {"saved", "spin"} => code'[t].want \in Locks
    BY <1>1, <1>6, <1>7 DEF TypeInv
  <2>2. locked' \subseteq Locks
    BY <1>1, <1>2 DEF TypeInv, TypeOK
  <2> QED BY <1>1, <1>2, <1>7, <1>8, <2>1, <2>2, LockStepType DEF TypeInv, TypeOK
<1>10. ModeInv'
  BY <1>2, LockStepMode
<1>11. KernelCode'
  <2>1. CASE me = "kernel"
    <3>1. level = "task" /\ ~Interrupted /\ ~Interrupted'
      BY <1>2, <2>1 DEF me, InKernel, Interrupted, Rest, LockInv, TypeInv, TypeOK
    <3>2. ~cpu.ie /\ \A i \in DOMAIN Guards : Guards[i].irq <=> booted /\ i = 1
      BY <1>1, <2>1, <3>1 DEF LockInv, KernelCode, Guards
    <3>3. g.irq <=> booted /\ q = <<>>
      BY <1>3, <1>4, <3>2
    <3>4. \A i \in DOMAIN q : q[i].irq <=> booted /\ i = 1
      BY <1>3, <1>4, <3>2
    <3> QED BY <1>2, <1>6, <1>7, <2>1, <3>1, <3>2, <3>3, <3>4 DEF KernelCode, Rest
  <2>2. CASE me = "trap"
    <3>1. code'["kernel"] = code["kernel"] /\ Interrupted /\ Interrupted'
      BY <1>2, <1>7, <2>2 DEF Threads, me, Interrupted, Rest
    <3> QED BY <1>2, <3>1 DEF LockInv, KernelCode, Rest
  <2> QED BY <2>1, <2>2 DEF me
<1>12. TrapCode'
  <2>1. CASE me = "kernel"
    <3>1. code'["trap"] = code["trap"] /\ panic'["trap"] = panic["trap"] /\ level = "task"
      BY <1>1, <1>2, <1>7, <2>1 DEF Threads, me, LockInv, TypeInv, TypeOK
    <3> QED BY <1>2, <3>1 DEF LockInv, TrapCode, Rest
  <2>2. CASE me = "trap"
    <3>1. level = "trap" /\ level' = "trap" /\ trap' = trap
      BY <1>2, <2>2 DEF me, Rest
    <3>2. \A i \in DOMAIN Guards : ~Guards[i].irq
      BY <2>2, <3>1 DEF LockInv, TrapCode, Guards
    <3>3. ~g.irq /\ \A i \in DOMAIN q : ~q[i].irq
      BY <1>3, <1>4, <3>2
    <3>4. trap.stage \in {"lock", "done"}
      BY <1>1, <2>2, <3>1 DEF LockInv, TrapCode, TypeInv, TypeOK, Guards
    <3> QED BY <1>1, <1>2, <1>6, <1>7, <1>8, <2>2, <3>1, <3>3, <3>4 DEF LockInv, TrapCode
  <2> QED BY <2>1, <2>2 DEF me
<1>13. Nested'
  <2> SUFFICES ASSUME NEW t \in Threads, panic'[t] = "no"
               PROVE  /\ \A i, j \in DOMAIN code'[t].guards : i < j =>
                           Rank(t)[code'[t].guards[i].lock] < Rank(t)[code'[t].guards[j].lock]
                      /\ code'[t].pc \in {"saved", "spin"} => Below(t, code[t].want)'
    BY DEF Nested
  <2>1. CASE t = me
    <3>1. \A i, j \in DOMAIN Guards : i < j => Rank(t)[Guards[i].lock] < Rank(t)[Guards[j].lock]
      BY <1>8, <2>1 DEF LockInv, Nested, Guards
    <3>2. \A i, j \in DOMAIN q : i < j => Rank(t)[q[i].lock] < Rank(t)[q[j].lock]
      BY <1>3, <1>4, <3>1
    <3> QED BY <1>6, <1>7, <2>1, <3>2
  <2>2. CASE t # me
    BY <1>7, <1>8, <2>2 DEF LockInv, Nested, Below
  <2> QED BY <2>1, <2>2
<1>14. \A k, m \in DOMAIN Guards : Guards[k].lock = Guards[m].lock => k = m
  BY <1>1 DEF LockInv, OneGuard, Guards
<1>15. OneGuard'
  <2> SUFFICES ASSUME NEW t \in Threads, NEW i \in DOMAIN code'[t].guards,
                      NEW j \in DOMAIN code'[t].guards,
                      code'[t].guards[i].lock = code'[t].guards[j].lock
               PROVE  i = j
    BY DEF OneGuard
  <2>1. CASE t = me
    BY <1>3, <1>4, <1>6, <1>7, <1>14, <2>1
  <2>2. CASE t # me
    BY <1>7, <2>2 DEF LockInv, OneGuard
  <2> QED BY <2>1, <2>2
<1>16. FlagsHeld'
  <2>1. Held(me) = {Guards[i].lock : i \in DOMAIN Guards}
    BY DEF Held, Guards
  <2>2. Held(me)' = {q[i].lock : i \in DOMAIN q}
    BY <1>2, <1>6, <1>7 DEF Held
  <2>3. Held(me)' = Held(me) \ {g.lock}
    BY <2>1, <2>2, <1>3, <1>4, <1>14
  <2>4. \A t \in Threads \ {me} : Held(t)' = {} /\ Held(t) = {}
    BY <1>7, OtherEmpty DEF Held
  <2> QED BY <1>1, <1>2, <2>3, <2>4 DEF LockInv, FlagsHeld, Threads
<1> QED BY <1>9, <1>10, <1>11, <1>12, <1>13, <1>15, <1>16 DEF LockInv

(* drop restores the interrupt flag. *)
LEMMA IrqLoadLocks == LockInv /\ drop_irq_load => LockInv'
<1> SUFFICES ASSUME LockInv, drop_irq_load PROVE LockInv'
  OBVIOUS
<1>1. TypeInv /\ me \in Threads /\ code[me] \in CodeType /\ cpu \in PStates
  BY GuardFacts DEF LockInv, TypeInv, TypeOK
<1> DEFINE c == [code[me] EXCEPT !.pc = "run", !.irq = FALSE]
<1>2. /\ Set(c) /\ InKernel /\ code[me].pc = "freed"
      /\ cpu' = [cpu EXCEPT !.ie = @ \/ code[me].irq]
      /\ UNCHANGED Rest /\ UNCHANGED <<locked, panic>> /\ me' = me
  BY DEF drop_irq_load, Rest, taskVars, me
<1>3. c \in CodeType /\ c.pc = "run" /\ c.irq = FALSE /\ c.guards = code[me].guards
  BY <1>1 DEF CodeType
<1> HIDE DEF c
<1>4. cpu' \in PStates /\ cpu'.mode = cpu.mode /\ (cpu'.ie <=> cpu.ie \/ code[me].irq)
  BY <1>1, <1>2 DEF PStates
<1>5. /\ code' \in [Threads -> CodeType] /\ code'[me] = c
      /\ \A t \in Threads \ {me} : code'[t] = code[t]
  BY <1>1, <1>2, <1>3, SetType
<1>6. \A t \in Threads : code'[t].guards = code[t].guards
  BY <1>3, <1>5
<1>7. TypeInv'
  <2>1. \A t \in Threads : code'[t].pc \in {"saved", "spin"} => code'[t].want \in Locks
    BY <1>1, <1>3, <1>5 DEF TypeInv
  <2> QED BY <1>1, <1>2, <1>4, <1>5, <2>1, LockStepType DEF TypeInv, TypeOK, PanicStages
<1>8. ModeInv'
  BY <1>2, <1>4, LockStepMode
<1>9. KernelCode'
  BY <1>2, <1>3, <1>4, <1>5, <1>6 DEF LockInv, KernelCode, Interrupted, Rest, me, InKernel, Threads
<1>10. TrapCode'
  BY <1>2, <1>3, <1>4, <1>5, <1>6 DEF LockInv, TrapCode, Rest, me, InKernel, Threads
<1>11. Nested'
  BY <1>2, <1>3, <1>5, <1>6 DEF LockInv, Nested, Below
<1>12. OneGuard' /\ FlagsHeld'
  BY <1>2, <1>6 DEF LockInv, OneGuard, FlagsHeld, Held, Threads
<1> QED BY <1>7, <1>8, <1>9, <1>10, <1>11, <1>12 DEF LockInv

-----------------------------------------------------------------------------
(* The contents of registers. *)
LEMMA ValueTypes ==
  /\ Zero \in Values
  /\ \A v \in Values : Following(v) \in Values
  /\ \A x \in {"start", "ret", "child"} \cup Regs, p \in Pids : Value(x, p) \in Values
<1>1. 0 \in Pids
  BY TrapsAssumption DEF Pids
<1>2. ASSUME NEW v \in Values PROVE Following(v) \in Values
  <2>1. v[2] \in Pids
    BY <1>1 DEF Values, Zero
  <2> QED BY <2>1 DEF Values, Following
<1>3. Zero \in Values
  BY DEF Values
<1>4. \A x \in {"start", "ret", "child"} \cup Regs, p \in Pids : Value(x, p) \in Values
  BY DEF Values, Value
<1> QED BY <1>2, <1>3, <1>4

(* A frame with which task p can go on where its registers are e. *)
Whole(c, p, e) ==
    /\ FrameOK(c)
    /\ \A r \in Plain : c[Slot[arch][r]] = e[r]
    /\ arch = "riscv64" \/ p # KERNEL_PID => c[SpSlot[arch]] = e["sp"]
    /\ arch = "arm64" => Resumable(p, c[PstateSlot])

(* Every task but the current one has such a frame in its context. *)
LEMMA OthersWhole ==
  ASSUME TrapsInv, NEW p \in tasks, p # current
  PROVE  Whole(contexts[p], p, expect[p])
BY DEF TrapsInv, LockInv, TypeInv, ModeInv, FrameInv, Whole, InFrame

(* After the handler's calls the frame, with the stack pointer and the      *)
(* result v in a0, is one for the current task and for a copy of it.       *)
LEMMA ResultWhole ==
  ASSUME TrapsInv, level = "trap", trap.stage = "lock", NEW v \in Values, NEW p,
         p = current \/ (p # KERNEL_PID /\ current # KERNEL_PID)
  PROVE  Whole([WithSp EXCEPT ![Slot[arch]["a0"]] = v], p, [expect[current] EXCEPT !["a0"] = v])
<1>1. /\ arch \in {"riscv64", "arm64"} /\ FrameOK(ctx) /\ regs["sp"] \in Values
      /\ current \in tasks /\ expect[current] \in [Regs -> Values]
  BY ArchCases DEF TrapsInv, LockInv, TypeInv, TypeOK, Regs
<1> DEFINE f == [WithSp EXCEPT ![Slot[arch]["a0"]] = v]
           e == [expect[current] EXCEPT !["a0"] = v]
<1>2. "a0" \in Regs \ {"sp", "fp"} /\ "sp" \in Regs /\ "a0" # "sp"
  BY DEF Regs
<1>3. e["a0"] = v /\ \A r \in Regs \ {"a0"} : e[r] = expect[current][r]
  BY <1>1, <1>2
<1>4. /\ DOMAIN WithSp = SlotsOf(arch)
      /\ \A s \in SlotsOf(arch) \ {SpSlot[arch]} : WithSp[s] = ctx[s]
      /\ WithSp[SpSlot[arch]] \in Values
      /\ arch = "riscv64" \/ p # KERNEL_PID => WithSp[SpSlot[arch]] = expect[current]["sp"]
  <2>1. SpSlot[arch] \in SlotsOf(arch) \ {PstateSlot}
    BY <1>1, Layout
  <2> QED BY <1>1, <2>1 DEF WithSp, FrameOK, TrapsInv, FrameInv, SpKept
<1>5. /\ Slot[arch]["a0"] \in SlotsOf(arch) /\ Slot[arch]["a0"] # PstateSlot
      /\ Slot[arch]["a0"] # SpSlot[arch]
  BY <1>1, <1>2, Layout
<1>6. /\ DOMAIN f = SlotsOf(arch) /\ f[Slot[arch]["a0"]] = v
      /\ \A s \in SlotsOf(arch) \ {Slot[arch]["a0"]} : f[s] = WithSp[s]
  BY <1>4, <1>5
<1> HIDE DEF f, e
<1>7. FrameOK(f)
  BY <1>1, <1>4, <1>5, <1>6, Layout DEF FrameOK
<1>8. ASSUME NEW r \in Plain PROVE f[Slot[arch][r]] = e[r]
  <2>1. r \in Regs \ {"sp", "fp"} /\ Slot[arch][r] \in SlotsOf(arch) \ {SpSlot[arch]}
    BY <1>1, Layout DEF Plain
  <2>2. CASE r = "a0"
    BY <1>3, <1>6, <2>2
  <2>3. CASE r # "a0"
    <3>1. ctx[Slot[arch][r]] = expect[current][r]
      BY <2>3 DEF TrapsInv, FrameInv, InFrame
    <3>2. Slot[arch][r] # Slot[arch]["a0"]
      BY <1>1, <1>2, <2>1, <2>3, Layout
    <3> QED BY <1>3, <1>4, <1>6, <2>1, <2>3, <3>1, <3>2
  <2> QED BY <2>2, <2>3
<1>9. arch = "riscv64" \/ p # KERNEL_PID => f[SpSlot[arch]] = e["sp"]
  BY <1>1, <1>2, <1>3, <1>4, <1>5, <1>6, Layout
<1>10. ASSUME arch = "arm64" PROVE Resumable(p, f[PstateSlot])
  <2>1. f[PstateSlot] = ctx[PstateSlot]
    BY <1>1, <1>4, <1>5, <1>6, <1>10, Layout
  <2>2. Resumable(current, ctx[PstateSlot])
    BY <1>10 DEF TrapsInv, LockInv, ModeInv
  <2> QED BY <2>1, <2>2 DEF Resumable, ModeOf
<1> QED BY <1>7, <1>8, <1>9, <1>10 DEF Whole, f, e

(* The same for an interrupt, which leaves no result. *)
LEMMA TimerWhole ==
  ASSUME TrapsInv, level = "trap", trap.stage = "lock", trap.cause = "timer"
  PROVE  Whole(WithSp, current, expect[current])
<1>1. /\ arch \in {"riscv64", "arm64"} /\ FrameOK(ctx) /\ regs["sp"] \in Values
  BY ArchCases DEF TrapsInv, LockInv, TypeInv, TypeOK, Regs
<1>2. /\ DOMAIN WithSp = SlotsOf(arch)
      /\ \A s \in SlotsOf(arch) \ {SpSlot[arch]} : WithSp[s] = ctx[s]
      /\ WithSp[SpSlot[arch]] \in Values
      /\ arch = "riscv64" \/ current # KERNEL_PID => WithSp[SpSlot[arch]] = expect[current]["sp"]
  <2>1. SpSlot[arch] \in SlotsOf(arch) \ {PstateSlot}
    BY <1>1, Layout
  <2> QED BY <1>1, <2>1 DEF WithSp, FrameOK, TrapsInv, FrameInv, SpKept
<1>3. FrameOK(WithSp)
  BY <1>1, <1>2, Layout DEF FrameOK
<1>4. ASSUME NEW r \in Plain PROVE WithSp[Slot[arch][r]] = expect[current][r]
  <2>1. Slot[arch][r] \in SlotsOf(arch) \ {SpSlot[arch]}
    BY <1>1, Layout DEF Plain
  <2>2. ctx[Slot[arch][r]] = expect[current][r]
    BY DEF TrapsInv, FrameInv, InFrame, Ecalls
  <2> QED BY <1>2, <2>1, <2>2
<1>5. arch = "arm64" => Resumable(current, WithSp[PstateSlot])
  BY <1>1, <1>2, Layout DEF TrapsInv, LockInv, ModeInv
<1> QED BY <1>2, <1>3, <1>4, <1>5 DEF Whole

(* The tail of switch_task and kill_task: when every task has a frame to go *)
(* on with, the next one gets its registers, its mode and its page table.  *)
LEMMA ResumeInv ==
  ASSUME TrapsInv, InBody, NEW next \in tasks', KERNEL_PID \in tasks', tasks' \subseteq Pids,
         DOMAIN contexts' = tasks', DOMAIN expect' = tasks',
         \A p \in tasks' : /\ expect'[p] \in [Regs -> Values]
                            /\ Whole(contexts'[p], p, expect'[p]),
         ResumeNext(next, contexts'[next]),
         trap' = [trap EXCEPT !.stage = "done"],
         UNCHANGED <<arch, cpu, active, level, locked, code, panic, booted>>
  PROVE  TrapsInv'
<1>1. /\ arch \in {"riscv64", "arm64"} /\ level = "trap" /\ trap.stage = "lock"
      /\ panic["trap"] = "no" /\ code["trap"].pc = "run" /\ TypeInv
  BY ArchCases DEF TrapsInv, LockInv, TypeInv, TypeOK, InBody, Running, me
<1>2. /\ trap' \in [cause : Causes, stage : {"entry", "lock", "done", "return"}]
      /\ trap'.stage = "done" /\ trap'.cause = trap.cause
  BY <1>1 DEF TypeInv, TypeOK
<1>3. current' = next /\ page' = next /\ ctx' = contexts'[next]
  BY DEF ResumeNext
<1>4. /\ status' \in PStates
      /\ arch = "riscv64" => Resumable(next, status')
  <2>1. status \in PStates /\ (arch = "riscv64" => status.ie)
    BY <1>1 DEF TypeInv, TypeOK, TrapsInv, LockInv, ModeInv, Resumable
  <2> QED BY <1>1, <2>1 DEF ResumeNext, PStates, Resumable, ModeOf
<1>5. Whole(ctx', next, expect'[next])
  BY <1>3
<1>6. /\ regs' \in [Regs -> Values]
      /\ arch = "arm64" /\ next # KERNEL_PID => regs'["sp"] = expect'[next]["sp"]
  <2>1. regs \in [Regs -> Values] /\ "sp" \in Regs
    BY <1>1 DEF TypeInv, TypeOK, Regs
  <2>2. SpSlot[arch] \in SlotsOf(arch) \ {PstateSlot}
    BY <1>1, Layout
  <2>3. ctx'[SpSlot[arch]] \in Values
    BY <1>5, <2>2 DEF Whole, FrameOK
  <2> QED BY <1>1, <1>3, <1>5, <2>1, <2>3 DEF ResumeNext, Whole
<1>7. FrameOK(ctx)' /\ \A p \in tasks' : FrameOK(contexts[p])'
  BY <1>5 DEF Whole, FrameOK
<1>8. TypeInv'
  <2>1. TypeOK'
    BY <1>1, <1>2, <1>3, <1>4, <1>6, <1>7 DEF TypeInv, TypeOK, FrameOK
  <2> QED BY <1>1, <1>7, <2>1 DEF TypeInv
<1>9. KernelCode'
  BY <1>1 DEF TrapsInv, LockInv, KernelCode, Interrupted
<1>10. TrapCode'
  BY <1>1, <1>2 DEF TrapsInv, LockInv, TrapCode
<1>11. Nested' /\ OneGuard' /\ FlagsHeld'
  BY DEF TrapsInv, LockInv, Nested, Below, OneGuard, FlagsHeld, Held
<1>12. ModeInv'
  <2>1. arch' = "arm64" => \A p \in tasks' : Resumable(p, contexts'[p][PstateSlot])
    BY DEF Whole
  <2>2. active' => level' = "trap" /\ trap'.stage \in {"lock", "done"}
    BY <1>1, <1>2
  <2> QED BY <1>1, <1>2, <1>3, <1>4, <2>1, <2>2 DEF ModeInv, Resumable, ModeOf
<1>13. PageInv'
  BY <1>1, <1>2, <1>3 DEF PageInv, OnOwnPages
<1>14. FrameInv'
  <2>1. level' = "trap" /\ Plain' = Plain
    BY <1>1 DEF Plain
  <2>2. \A p \in tasks' \ {current'} :
          /\ \A r \in Plain' : InFrame(contexts[p], p, r)'
          /\ arch' = "riscv64" \/ p # KERNEL_PID => contexts'[p][SpSlot[arch']] = expect'[p]["sp"]
    BY <2>1 DEF Whole, InFrame
  <2>3. SpKept'
    BY <1>3, <1>5, <1>6 DEF SpKept, Whole
  <2>4. \A r \in Plain' : InFrame(ctx, current, r)'
    BY <1>3, <1>5, <2>1 DEF Whole, InFrame
  <2> QED BY <1>2, <2>1, <2>2, <2>3, <2>4 DEF FrameInv
<1> QED BY <1>8, <1>9, <1>10, <1>11, <1>12, <1>13, <1>14 DEF TrapsInv, LockInv

(* Timer interrupt and system calls that return. *)
LEMMA SwitchTraps == \A next \in Pids : TrapsInv /\ switch_task(next) => TrapsInv'
<1> SUFFICES ASSUME NEW next \in Pids, TrapsInv, switch_task(next) PROVE TrapsInv'
  OBVIOUS
<1> DEFINE frame == IF trap.cause = "timer" THEN WithSp
                    ELSE [WithSp EXCEPT ![Slot[arch]["a0"]] = Value("ret", current)]
           stored == [contexts EXCEPT ![current] = frame]
<1>1. /\ InBody /\ trap.cause \in {"timer", "call"} /\ next \in tasks
      /\ contexts' = stored /\ ResumeNext(next, stored[next])
      /\ trap' = [trap EXCEPT !.stage = "done"]
      /\ UNCHANGED <<arch, cpu, active, level, tasks, expect, locked, code, panic, booted>>
  BY DEF switch_task
<1>2. /\ level = "trap" /\ trap.stage = "lock" /\ current \in tasks /\ tasks \subseteq Pids
      /\ DOMAIN contexts = tasks /\ DOMAIN expect = tasks
      /\ \A p \in tasks : expect[p] \in [Regs -> Values]
      /\ KERNEL_PID \in tasks
  BY <1>1 DEF TrapsInv, LockInv, ModeInv, TypeInv, TypeOK, InBody
<1>3. Whole(frame, current, expect[current])
  <2>1. CASE trap.cause = "timer"
    BY <1>2, <2>1, TimerWhole
  <2>2. CASE trap.cause = "call"
    <3>1. Value("ret", current) \in Values
      BY <1>2, ValueTypes
    <3>2. expect[current]["a0"] = Value("ret", current)
      BY <1>2, <2>2 DEF TrapsInv, FrameInv
    <3>3. [expect[current] EXCEPT !["a0"] = Value("ret", current)] = expect[current]
      BY <1>2, <3>2
    <3> QED BY <1>2, <2>2, <3>1, <3>3, ResultWhole
  <2> QED BY <1>1, <2>1, <2>2
<1> HIDE DEF frame
<1>4. DOMAIN contexts' = tasks' /\ \A p \in tasks' : Whole(contexts'[p], p, expect'[p])
  BY <1>1, <1>2, <1>3, OthersWhole
<1> QED BY <1>1, <1>2, <1>4, ResumeInv

(* fork. *)
LEMMA ForkTraps == \A next \in Pids : TrapsInv /\ syscall_fork(next) => TrapsInv'
<1> SUFFICES ASSUME NEW next \in Pids, TrapsInv, syscall_fork(next) PROVE TrapsInv'
  OBVIOUS
<1> DEFINE child == CHOOSE p \in Pids : p \notin tasks
           a0 == Slot[arch]["a0"]
           frame == [WithSp EXCEPT ![a0] = Value("child", child)]
           copy == [WithSp EXCEPT ![a0] = Zero]
           stored == With([contexts EXCEPT ![current] = frame], child, copy)
<1>1. /\ InBody /\ trap.cause = "fork" /\ Pids \ tasks # {} /\ next \in tasks \cup {child}
      /\ tasks' = tasks \cup {child}
      /\ expect' = With([expect EXCEPT ![current]["a0"] = Value("child", child)], child,
                        [expect[current] EXCEPT !["a0"] = Zero])
      /\ contexts' = stored /\ ResumeNext(next, stored[next])
      /\ trap' = [trap EXCEPT !.stage = "done"]
      /\ UNCHANGED <<arch, cpu, active, level, locked, code, panic, booted>>
  BY DEF syscall_fork
<1>2. /\ level = "trap" /\ trap.stage = "lock" /\ current \in tasks /\ tasks \subseteq Pids
      /\ DOMAIN contexts = tasks /\ DOMAIN expect = tasks
      /\ \A p \in tasks : expect[p] \in [Regs -> Values]
      /\ KERNEL_PID \in tasks /\ current # KERNEL_PID
  BY <1>1 DEF TrapsInv, LockInv, ModeInv, TypeInv, TypeOK, InBody
<1>3. child \in Pids /\ child \notin tasks /\ child # KERNEL_PID
  BY <1>1, <1>2
<1>4. Value("child", child) \in Values /\ Zero \in Values /\ "a0" \in Regs
  BY <1>3, ValueTypes DEF Regs
<1> DEFINE e == [expect[current] EXCEPT !["a0"] = Value("child", child)]
           d == [expect[current] EXCEPT !["a0"] = Zero]
<1>5. Whole(frame, current, e)
  BY <1>2, <1>4, ResultWhole
<1>6. Whole(copy, child, d)
  BY <1>2, <1>3, <1>4, ResultWhole
<1>7. e \in [Regs -> Values] /\ d \in [Regs -> Values]
  BY <1>2, <1>4
<1>8. /\ DOMAIN expect' = tasks' /\ expect'[child] = d /\ expect'[current] = e
      /\ \A p \in tasks \ {current} : expect'[p] = expect[p]
  BY <1>1, <1>2, <1>3 DEF With
<1>9. /\ DOMAIN contexts' = tasks' /\ contexts'[child] = copy /\ contexts'[current] = frame
      /\ \A p \in tasks \ {current} : contexts'[p] = contexts[p]
  BY <1>1, <1>2, <1>3 DEF With
<1> HIDE DEF frame, copy, e, d, child, stored
<1>10. \A p \in tasks' : expect'[p] \in [Regs -> Values] /\ Whole(contexts'[p], p, expect'[p])
  BY <1>1, <1>2, <1>3, <1>5, <1>6, <1>7, <1>8, <1>9, OthersWhole
<1>11. next \in tasks' /\ KERNEL_PID \in tasks' /\ tasks' \subseteq Pids
  BY <1>1, <1>2, <1>3
<1> QED BY <1>1, <1>8, <1>9, <1>10, <1>11, ResumeInv

(* exit and fatal exceptions. *)
LEMMA KillTraps == \A next \in Pids : TrapsInv /\ kill_task(next) => TrapsInv'
<1> SUFFICES ASSUME NEW next \in Pids, TrapsInv, kill_task(next) PROVE TrapsInv'
  OBVIOUS
<1>1. /\ InBody /\ trap.cause \in {"exit", "illegal"} /\ next \in tasks \ {current}
      /\ tasks' = tasks \ {current}
      /\ contexts' = Without(contexts, current) /\ expect' = Without(expect, current)
      /\ ResumeNext(next, contexts[next])
      /\ trap' = [trap EXCEPT !.stage = "done"]
      /\ UNCHANGED <<arch, cpu, active, level, locked, code, panic, booted>>
  BY DEF kill_task
<1>2. /\ level = "trap" /\ trap.stage = "lock" /\ tasks \subseteq Pids
      /\ DOMAIN contexts = tasks /\ DOMAIN expect = tasks
      /\ \A p \in tasks : expect[p] \in [Regs -> Values]
      /\ KERNEL_PID \in tasks /\ current # KERNEL_PID
  BY <1>1 DEF TrapsInv, LockInv, ModeInv, TypeInv, TypeOK, InBody
<1>3. /\ DOMAIN expect' = tasks' /\ DOMAIN contexts' = tasks'
      /\ \A p \in tasks' : expect'[p] = expect[p] /\ contexts'[p] = contexts[p]
  BY <1>1, <1>2 DEF Without
<1>4. \A p \in tasks' : expect'[p] \in [Regs -> Values] /\ Whole(contexts'[p], p, expect'[p])
  BY <1>1, <1>2, <1>3, OthersWhole
<1>5. next \in tasks' /\ KERNEL_PID \in tasks' /\ tasks' \subseteq Pids /\ contexts[next] = contexts'[next]
  BY <1>1, <1>2, <1>3
<1> QED BY <1>1, <1>3, <1>4, <1>5, ResumeInv

-----------------------------------------------------------------------------
(* The entry code: only a task that can be resumed is interrupted, and its  *)
(* registers go to the frame.                                              *)
LEMMA EntryTraps == \A c \in Causes : TrapsInv /\ trap_entry(c) => TrapsInv'
<1> SUFFICES ASSUME NEW c \in Causes, TrapsInv, trap_entry(c) PROVE TrapsInv'
  OBVIOUS
<1> DEFINE saved == [mode |-> cpu.mode, ie |-> cpu.ie]
           r == IF arch = "arm64" /\ c \in Ecalls
                THEN [regs EXCEPT !["pc"] = Following(@)] ELSE regs
<1>1. /\ MayTrap(c) /\ status' = saved /\ cpu' = [mode |-> "kernel", ie |-> FALSE]
      /\ ctx' = SaveRegs(r, saved)
      /\ regs' = [n \in Regs |-> IF n = "sp" /\ arch = "arm64" THEN regs[n] ELSE Zero]
      /\ level' = "trap" /\ trap' = [cause |-> c, stage |-> "entry"]
      /\ UNCHANGED <<arch, page, active, tasks, contexts, current, locked, code, panic, booted>>
  BY DEF trap_entry
<1>2. /\ TypeInv /\ arch \in {"riscv64", "arm64"} /\ level = "task" /\ regs \in [Regs -> Values]
      /\ cpu \in PStates /\ current \in tasks /\ tasks \subseteq Pids /\ DOMAIN expect = tasks
      /\ expect[current] \in [Regs -> Values] /\ arch \in Arches
  BY <1>1, ArchCases DEF TrapsInv, LockInv, TypeInv, TypeOK, MayTrap
<1>3. /\ "pc" \in Regs /\ "a0" \in Regs /\ "sp" \in Regs /\ "pc" # "sp" /\ "a0" # "sp"
      /\ "pc" \in Plain /\ "a0" \in Plain /\ "pc" # "a0"
  BY DEF Regs, Plain
<1>4. /\ r \in [Regs -> Values]
      /\ \A n \in Regs \ {"pc"} : r[n] = regs[n]
      /\ r["pc"] = IF arch = "arm64" /\ c \in Ecalls THEN Following(regs["pc"]) ELSE regs["pc"]
  BY <1>2, <1>3, ValueTypes
<1>5. saved \in PStates /\ saved.mode = cpu.mode /\ saved.ie = cpu.ie
  BY <1>2 DEF PStates
<1>6. saved.mode = ModeOf(current) /\ saved.ie
  <2>1. cpu.mode = ModeOf(current) /\ (current # KERNEL_PID => cpu.ie)
    BY <1>2 DEF TrapsInv, LockInv, ModeInv
  <2>2. CASE current = KERNEL_PID
    <3>1. cpu.mode # "user"
      BY <2>1, <2>2 DEF ModeOf
    <3>2. c \in {"timer", "stray"} /\ cpu.ie
      BY <1>1, <3>1 DEF MayTrap
    <3> QED BY <1>5, <2>1, <3>2
  <2> QED BY <1>5, <2>1, <2>2
<1> HIDE DEF saved, r
<1>7. /\ FrameOK(ctx')
      /\ \A n \in Plain : ctx'[Slot[arch][n]] = r[n]
      /\ arch = "riscv64" => ctx'[SpSlot[arch]] = r["sp"]
      /\ arch = "arm64" => ctx'[PstateSlot] = saved
  BY <1>1, <1>2, <1>4, <1>5, SavedRegs
<1>8. /\ regs' \in [Regs -> Values]
      /\ arch = "arm64" => regs'["sp"] = regs["sp"]
  BY <1>1, <1>2, <1>3, ValueTypes
<1>9. /\ DOMAIN expect' = tasks
      /\ \A p \in tasks \ {current} : expect'[p] = expect[p]
      /\ expect'[current] \in [Regs -> Values]
      /\ \A n \in Regs \ {"pc", "a0"} : expect'[current][n] = expect[current][n]
      /\ expect'[current]["a0"] = IF c = "call" THEN Value("ret", current) ELSE expect[current]["a0"]
      /\ expect'[current]["pc"] = IF c \in Ecalls THEN Following(expect[current]["pc"])
                                 ELSE expect[current]["pc"]
  <2>1. /\ Following(expect[current]["pc"]) \in Values /\ Value("ret", current) \in Values
    BY <1>2, <1>3, ValueTypes
  <2>2. CASE c = "call"
    <3>1. expect' = [expect EXCEPT ![current]["pc"] = Following(@),
                                   ![current]["a0"] = Value("ret", current)]
      BY <2>2 DEF trap_entry
    <3> QED BY <1>2, <1>3, <2>1, <2>2, <3>1 DEF Ecalls
  <2>3. CASE c # "call" /\ c \in Ecalls
    <3>1. expect' = [expect EXCEPT ![current]["pc"] = Following(@)]
      BY <2>3 DEF trap_entry
    <3> QED BY <1>2, <1>3, <2>1, <2>3, <3>1
  <2>4. CASE c \notin Ecalls
    <3>1. c # "call" /\ expect' = expect
      BY <2>4 DEF trap_entry, Ecalls
    <3> QED BY <1>2, <2>4, <3>1
  <2> QED BY <2>2, <2>3, <2>4
<1>10. trap'.cause = c /\ trap'.stage = "entry"
  BY <1>1
<1>11. TypeInv'
  <2>1. cpu' \in PStates /\ status' \in PStates
    BY <1>1, <1>5 DEF PStates
  <2>2. trap' \in [cause : Causes, stage : {"entry", "lock", "done", "return"}]
    BY <1>1
  <2>3. TypeOK'
    <3>1. \A p \in tasks : DOMAIN contexts[p] = SlotsOf(arch) /\ expect'[p] \in [Regs -> Values]
      BY <1>2, <1>9 DEF TypeInv, TypeOK
    <3> QED BY <1>1, <1>2, <1>7, <1>8, <1>9, <2>1, <2>2, <3>1 DEF TypeInv, TypeOK, FrameOK
  <2>4. FrameOK(ctx)' /\ \A p \in tasks' : FrameOK(contexts[p])'
    BY <1>1, <1>2, <1>7 DEF TypeInv, FrameOK
  <2> QED BY <1>1, <1>2, <2>3, <2>4 DEF TypeInv
<1>12. KernelCode'
  <2>1. CASE current = KERNEL_PID
    <3>1. ~Interrupted /\ cpu.ie
      BY <1>2, <1>5, <1>6, <2>1 DEF Interrupted
    <3>2. /\ code["kernel"].pc \in {"run", "saved"} /\ booted /\ code["kernel"].guards = <<>>
          /\ code["kernel"].pc = "saved" => code["kernel"].irq
      BY <3>1 DEF TrapsInv, LockInv, KernelCode
    <3> QED BY <1>1, <3>2 DEF TrapsInv, LockInv, KernelCode, Interrupted
  <2>2. CASE current # KERNEL_PID
    BY <1>1, <2>2 DEF TrapsInv, LockInv, KernelCode, Interrupted
  <2> QED BY <2>1, <2>2
<1>13. TrapCode'
  <2>1. code["trap"].pc = "run" /\ code["trap"].guards = <<>> /\ ~code["trap"].irq /\ panic["trap"] = "no"
    BY <1>2 DEF TrapsInv, LockInv, TrapCode, Idle
  <2> QED BY <1>1, <1>10, <2>1 DEF TrapCode
<1>14. Nested' /\ OneGuard' /\ FlagsHeld'
  BY <1>1 DEF TrapsInv, LockInv, Nested, Below, OneGuard, FlagsHeld, Held
<1>15. ModeInv'
  <2>1. c \notin {"timer", "stray"} => current # KERNEL_PID
    BY <1>1, <1>5, <1>6 DEF MayTrap, ModeOf
  <2>2. ~active
    BY <1>2 DEF TrapsInv, LockInv, ModeInv
  <2>3. KERNEL_PID \in tasks /\
        (arch = "arm64" => \A p \in tasks \ {current} : Resumable(p, contexts[p][PstateSlot]))
    BY DEF TrapsInv, LockInv, ModeInv
  <2>4. Resumable(current, saved)
    BY <1>6 DEF Resumable
  <2> QED BY <1>1, <1>7, <1>10, <2>1, <2>2, <2>3, <2>4 DEF ModeInv
<1>16. PageInv'
  BY <1>1, <1>2, <1>10 DEF TrapsInv, PageInv, OnOwnPages
<1>17. FrameInv'
  <2>1. Plain' = Plain /\ (\A n \in Plain : n \in Regs) /\ "sp" \notin Plain
    BY <1>1 DEF Plain
  <2>2. \A n \in Plain : regs[n] = expect[current][n]
    <3>1. \A n \in Plain : n \in Kept
      BY DEF Plain, Kept
    <3> QED BY <1>2, <3>1 DEF TrapsInv, FrameInv, Registers
  <2>3. arch = "riscv64" \/ current # KERNEL_PID => regs["sp"] = expect[current]["sp"]
    <3>1. arch = "riscv64" \/ current # KERNEL_PID => "sp" \in Kept
      BY <1>2, <1>3 DEF Kept, Regs
    <3> QED BY <1>2, <3>1 DEF TrapsInv, FrameInv, Registers
  <2>4. SpKept'
    BY <1>1, <1>2, <1>3, <1>4, <1>7, <1>8, <1>9, <2>3 DEF SpKept
  <2>5. \A p \in tasks' \ {current'} :
          /\ \A n \in Plain' : InFrame(contexts[p], p, n)'
          /\ arch' = "riscv64" \/ p # KERNEL_PID => contexts'[p][SpSlot[arch']] = expect'[p]["sp"]
    BY <1>1, <1>9, <2>1 DEF TrapsInv, FrameInv, InFrame
  <2>6. \A n \in Plain \ {"pc", "a0"} : InFrame(ctx, current, n)'
    BY <1>1, <1>4, <1>7, <1>9, <2>1, <2>2 DEF InFrame
  <2>7. c # "call" => InFrame(ctx, current, "a0")'
    BY <1>1, <1>3, <1>4, <1>7, <1>9, <2>2 DEF InFrame
  <2>8. c = "call" => expect'[current]["a0"] = Value("ret", current)
    BY <1>9
  <2>9. IF arch = "riscv64" /\ c \in Ecalls
        THEN Following(ctx'[Slot[arch]["pc"]]) = expect'[current]["pc"]
        ELSE InFrame(ctx, current, "pc")'
    <3>1. ctx'[Slot[arch]["pc"]] = r["pc"] /\ regs["pc"] = expect[current]["pc"]
      BY <1>3, <1>7, <2>2
    <3> QED BY <1>1, <1>2, <1>4, <1>9, <3>1 DEF InFrame
  <2> QED BY <1>1, <1>10, <2>1, <2>4, <2>5, <2>6, <2>7, <2>8, <2>9 DEF FrameInv
<1> QED BY <1>11, <1>12, <1>13, <1>14, <1>15, <1>16, <1>17 DEF TrapsInv, LockInv

(* The handler up to the lock of the scheduler. *)
LEMMA HandlerTraps == TrapsInv /\ handler => TrapsInv'
<1> SUFFICES ASSUME TrapsInv, handler PROVE TrapsInv'
  OBVIOUS
<1>1. /\ level = "trap" /\ trap.stage = "entry" /\ panic["trap"] = "no"
      /\ ctx' = IF arch = "riscv64" /\ trap.cause \in Ecalls
                THEN [ctx EXCEPT ![Slot[arch]["pc"]] = Following(@)] ELSE ctx
      /\ page' = IF arch = "arm64" \/ trap.cause \in Ecalls \cup {"timer"}
                 THEN KERNEL_PID ELSE page
      /\ active' = (arch = "arm64" /\ trap.cause = "timer")
      /\ trap' = [trap EXCEPT !.stage = IF trap.cause \in Unhandled THEN "return" ELSE "lock"]
      /\ UNCHANGED <<arch, cpu, status, regs, level, tasks, contexts, current, expect,
                     locked, code, panic, booted>>
  <2>1. trap.stage = "entry"
    BY DEF handler
  <2>2. ~active
    BY <2>1 DEF TrapsInv, LockInv, ModeInv
  <2>3. active' = (arch = "arm64" /\ trap.cause = "timer")
    BY <2>2, Zenon DEF handler
  <2> QED BY <2>3 DEF handler, taskVars
<1>2. /\ TypeInv /\ arch \in {"riscv64", "arm64"} /\ KERNEL_PID \in tasks /\ FrameOK(ctx)
      /\ tasks \subseteq Pids
  BY ArchCases DEF TrapsInv, LockInv, TypeInv, TypeOK, ModeInv
<1>3. /\ trap' \in [cause : Causes, stage : {"entry", "lock", "done", "return"}]
      /\ trap'.cause = trap.cause
      /\ trap'.stage = IF trap.cause \in Unhandled THEN "return" ELSE "lock"
  BY <1>1, <1>2 DEF TypeInv, TypeOK
<1>4. "pc" \in Regs \ {"sp", "fp"} /\ "pc" \in Plain
  BY DEF Regs, Plain
<1>5. /\ Slot[arch]["pc"] \in SlotsOf(arch) /\ Slot[arch]["pc"] # PstateSlot
      /\ Slot[arch]["pc"] # SpSlot[arch]
      /\ \A r \in Plain \ {"pc"} : Slot[arch][r] \in SlotsOf(arch) \ {Slot[arch]["pc"]}
  BY <1>2, <1>4, Layout DEF Plain
<1>6. /\ DOMAIN ctx' = SlotsOf(arch)
      /\ \A s \in SlotsOf(arch) \ {Slot[arch]["pc"]} : ctx'[s] = ctx[s]
      /\ ctx'[Slot[arch]["pc"]] = IF arch = "riscv64" /\ trap.cause \in Ecalls
                                  THEN Following(ctx[Slot[arch]["pc"]]) ELSE ctx[Slot[arch]["pc"]]
  BY <1>1, <1>2, <1>5 DEF FrameOK
<1>7. FrameOK(ctx')
  BY <1>2, <1>5, <1>6, ValueTypes, Layout DEF FrameOK
<1>8. TypeInv'
  <2>1. TypeOK'
    <3>1. page' \in Pids /\ active' \in BOOLEAN
      BY <1>1, <1>2 DEF TypeInv, TypeOK
    <3> QED BY <1>1, <1>2, <1>3, <1>7, <3>1 DEF TypeInv, TypeOK, FrameOK
  <2> QED BY <1>1, <1>2, <1>7, <2>1 DEF TypeInv, FrameOK
<1>9. KernelCode'
  BY <1>1 DEF TrapsInv, LockInv, KernelCode, Interrupted
<1>10. TrapCode'
  BY <1>1, <1>3 DEF TrapsInv, LockInv, TrapCode
<1>11. Nested' /\ OneGuard' /\ FlagsHeld'
  BY <1>1 DEF TrapsInv, LockInv, Nested, Below, OneGuard, FlagsHeld, Held
<1>12. ModeInv'
  <2>1. arch = "arm64" => ctx'[PstateSlot] = ctx[PstateSlot]
    BY <1>2, <1>5, <1>6, Layout
  <2>2. active' => trap'.stage = "lock"
    BY <1>1, <1>3 DEF Unhandled
  <2> QED BY <1>1, <1>3, <2>1, <2>2 DEF TrapsInv, LockInv, ModeInv
<1>13. PageInv'
  <2>1. trap'.stage = "return" => page' = current \/ (arch = "arm64" /\ page' = KERNEL_PID)
    BY <1>1, <1>2, <1>3 DEF TrapsInv, PageInv, Unhandled, Ecalls
  <2> QED BY <1>1, <1>3, <2>1 DEF PageInv, OnOwnPages, Unhandled
<1>14. FrameInv'
  <2>1. Plain' = Plain
    BY <1>1 DEF Plain
  <2>2. SpKept'
    <3>1. ctx'[SpSlot[arch]] = ctx[SpSlot[arch]]
      BY <1>2, <1>5, <1>6, Layout
    <3> QED BY <1>1, <3>1 DEF TrapsInv, FrameInv, SpKept
  <2>3. \A r \in Plain \ {"pc", "a0"} : InFrame(ctx, current, r)'
    BY <1>1, <1>5, <1>6 DEF TrapsInv, FrameInv, InFrame
  <2>4. /\ trap.cause # "call" => InFrame(ctx, current, "a0")'
        /\ trap.cause = "call" => expect'[current]["a0"] = Value("ret", current)
    <3>1. "a0" \in Plain \ {"pc"}
      BY DEF Plain, Regs
    <3> QED BY <1>1, <1>5, <1>6, <3>1 DEF TrapsInv, FrameInv, InFrame
  <2>5. InFrame(ctx, current, "pc")'
    BY <1>1, <1>6 DEF TrapsInv, FrameInv, InFrame
  <2>6. \A p \in tasks' \ {current'} :
          /\ \A n \in Plain' : InFrame(contexts[p], p, n)'
          /\ arch' = "riscv64" \/ p # KERNEL_PID => contexts'[p][SpSlot[arch']] = expect'[p]["sp"]
    BY <1>1, <2>1 DEF TrapsInv, FrameInv, InFrame
  <2>7. trap'.stage = "return" => \A r \in Plain : InFrame(ctx, current, r)'
    BY <1>3, <2>3, <2>4, <2>5 DEF Unhandled
  <2> QED BY <1>1, <1>3, <2>1, <2>2, <2>3, <2>4, <2>5, <2>6, <2>7 DEF FrameInv
<1> QED BY <1>8, <1>9, <1>10, <1>11, <1>12, <1>13, <1>14 DEF TrapsInv, LockInv

(* The end of the handler. *)
LEMMA ReturnTraps == TrapsInv /\ handler_return => TrapsInv'
<1> SUFFICES ASSUME TrapsInv, handler_return PROVE TrapsInv'
  OBVIOUS
<1>1. /\ level = "trap" /\ trap.stage = "done" /\ code["trap"].guards = <<>>
      /\ code["trap"].pc = "run" /\ active' = FALSE
      /\ trap' = [trap EXCEPT !.stage = "return"]
      /\ UNCHANGED <<arch, cpu, status, regs, page, ctx, level, tasks, contexts, current,
                     expect, locked, code, panic, booted>>
  BY DEF handler_return, taskVars, Running, me, Guards
<1>2. /\ TypeInv
      /\ trap' \in [cause : Causes, stage : {"entry", "lock", "done", "return"}]
      /\ trap'.cause = trap.cause /\ trap'.stage = "return"
  BY <1>1 DEF TrapsInv, LockInv, TypeInv, TypeOK
<1>3. TypeInv'
  BY <1>1, <1>2 DEF TypeInv, TypeOK, FrameOK
<1>4. KernelCode' /\ TrapCode'
  BY <1>1, <1>2 DEF TrapsInv, LockInv, KernelCode, Interrupted, TrapCode
<1>5. Nested' /\ OneGuard' /\ FlagsHeld'
  BY <1>1 DEF TrapsInv, LockInv, Nested, Below, OneGuard, FlagsHeld, Held
<1>6. ModeInv'
  BY <1>1, <1>2 DEF TrapsInv, LockInv, ModeInv
<1>7. PageInv'
  BY <1>1, <1>2 DEF TrapsInv, PageInv, OnOwnPages
<1>8. FrameInv'
  BY <1>1, <1>2 DEF TrapsInv, FrameInv, InFrame, Plain, SpKept
<1> QED BY <1>3, <1>4, <1>5, <1>6, <1>7, <1>8 DEF TrapsInv, LockInv

LEMMA DefaultOK ==
  ASSUME arch \in Arches PROVE FrameOK(DefaultContext(arch))
<1>1. arch \in {"riscv64", "arm64"}
  BY ArchCases
<1>2. [mode |-> "user", ie |-> TRUE] \in PStates
  BY DEF PStates
<1> QED BY <1>1, <1>2, ValueTypes, Layout DEF FrameOK, DefaultContext

LEMMA IdleType == Idle \in CodeType
BY TrapsAssumption DEF Idle, CodeType

(* The exit code. *)
LEMMA ExitTraps == TrapsInv /\ trap_return => TrapsInv'
<1> SUFFICES ASSUME TrapsInv, trap_return PROVE TrapsInv'
  OBVIOUS
<1> DEFINE st == IF arch = "arm64" THEN ctx[PstateSlot] ELSE status
<1>1. /\ level = "trap" /\ trap.stage = "return" /\ panic["trap"] = "no"
      /\ \E fp \in {Zero} \cup {Value("fp", p) : p \in Pids} : regs' = LoadRegs(ctx, fp)
      /\ status' = st /\ cpu' = st /\ level' = "task"
      /\ ctx' = DefaultContext(arch) /\ code' = [code EXCEPT !["trap"] = Idle]
      /\ UNCHANGED <<arch, page, active, trap, tasks, contexts, current, expect, locked,
                     panic, booted>>
  BY DEF trap_return, taskVars
<1>2. /\ TypeInv /\ arch \in Arches /\ arch \in {"riscv64", "arm64"} /\ FrameOK(ctx)
      /\ status \in PStates /\ code \in [Threads -> CodeType] /\ regs \in [Regs -> Values]
      /\ current \in tasks
  BY ArchCases DEF TrapsInv, LockInv, TypeInv, TypeOK
<1>3. st \in PStates /\ st.mode = ModeOf(current) /\ st.ie
  BY <1>1, <1>2 DEF TrapsInv, LockInv, ModeInv, FrameOK, Resumable
<1> HIDE DEF st
<1>4. /\ code' \in [Threads -> CodeType] /\ code'["trap"] = Idle
      /\ code'["kernel"] = code["kernel"] /\ Idle.pc = "run" /\ Idle.guards = <<>>
  BY <1>1, <1>2, IdleType DEF Threads, Idle
<1>5. code["trap"].guards = <<>>
  BY <1>1 DEF TrapsInv, LockInv, TrapCode
<1>6. /\ regs' \in [Regs -> Values]
      /\ \A r \in Regs \ {"sp", "fp"} : regs'[r] = ctx[Slot[arch][r]]
      /\ arch = "riscv64" => regs'["sp"] = ctx[SpSlot[arch]]
      /\ arch = "arm64" => regs'["sp"] = regs["sp"]
  <2>1. /\ \A r \in Regs \ {"sp", "fp"} : ctx[Slot[arch][r]] \in Values
        /\ ctx[SpSlot[arch]] \in Values /\ "sp" \in Regs /\ "fp" \in Regs
    BY <1>2, Layout DEF FrameOK, Regs
  <2>2. PICK fp \in Values : regs' = LoadRegs(ctx, fp)
    BY <1>1 DEF Values, Value, Regs
  <2>3. DOMAIN Slot[arch] = Regs \ {"sp", "fp"}
    BY <1>2, Layout
  <2>4. /\ DOMAIN regs' = Regs /\ regs'["fp"] = fp
        /\ \A r \in Regs \ {"sp", "fp"} : regs'[r] = ctx[Slot[arch][r]]
        /\ regs'["sp"] = IF arch = "riscv64" THEN ctx[SpSlot[arch]] ELSE regs["sp"]
    BY <2>1, <2>2, <2>3 DEF LoadRegs
  <2>5. regs' = [n \in Regs |-> regs'[n]]
    BY <2>2 DEF LoadRegs
  <2>6. \A n \in Regs : regs'[n] \in Values
    BY <1>2, <2>1, <2>4
  <2> QED BY <1>2, <2>4, <2>5, <2>6
<1>7. TypeInv'
  <2>1. FrameOK(ctx)' /\ \A p \in tasks' : FrameOK(contexts[p])'
    <3>1. FrameOK(DefaultContext(arch))
      BY <1>2, DefaultOK
    <3>2. FrameOK(ctx)'
      BY <1>1, <3>1 DEF FrameOK
    <3>3. \A p \in tasks' : FrameOK(contexts[p])'
      BY <1>1, <1>2 DEF TypeInv, FrameOK
    <3> QED BY <3>2, <3>3
  <2>2. TypeOK'
    BY <1>1, <1>2, <1>3, <1>4, <1>6, <2>1 DEF TypeInv, TypeOK, FrameOK, CodeType, GuardType
  <2>3. \A t \in Threads : code'[t].pc \in {"saved", "spin"} => code'[t].want \in Locks
    BY <1>2, <1>4 DEF TypeInv, Threads
  <2> QED BY <1>4, <2>1, <2>2, <2>3 DEF TypeInv
<1>8. KernelCode'
  BY <1>1, <1>3, <1>4 DEF TrapsInv, LockInv, KernelCode, Interrupted
<1>9. TrapCode'
  BY <1>1, <1>4 DEF TrapCode
<1>10. Nested' /\ OneGuard'
  BY <1>1, <1>4 DEF TrapsInv, LockInv, Nested, Below, OneGuard, Threads
<1>11. FlagsHeld'
  BY <1>1, <1>4, <1>5 DEF TrapsInv, LockInv, FlagsHeld, Held
<1>12. ModeInv'
  BY <1>1, <1>3 DEF TrapsInv, LockInv, ModeInv
<1>13. PageInv'
  BY <1>1 DEF TrapsInv, PageInv, OnOwnPages
<1>14. Registers'
  <2> SUFFICES ASSUME NEW r \in Kept' PROVE regs'[r] = expect'[current'][r]
    BY DEF Registers
  <2>1. /\ r \in Regs /\ r # "fp" /\ (r # "sp" => r \in Plain)
        /\ r = "sp" => arch = "riscv64" \/ current # KERNEL_PID
    <3>1. r \in Kept
      BY <1>1 DEF Kept
    <3>2. CASE arch = "riscv64"
      BY <3>1, <3>2 DEF Kept, Plain
    <3>3. CASE arch # "riscv64"
      BY <1>2, <3>1, <3>3 DEF Kept, Plain
    <3> QED BY <3>2, <3>3
  <2>2. CASE r = "sp"
    BY <1>1, <1>2, <1>6, <2>1, <2>2 DEF TrapsInv, FrameInv, SpKept
  <2>3. CASE r # "sp"
    BY <1>1, <1>6, <2>1, <2>3 DEF TrapsInv, FrameInv, InFrame
  <2> QED BY <2>2, <2>3
<1>15. FrameInv'
  <2>1. Plain' = Plain
    BY <1>1 DEF Plain
  <2> QED BY <1>1, <1>14, <2>1 DEF TrapsInv, FrameInv, InFrame
<1> QED BY <1>7, <1>8, <1>9, <1>10, <1>11, <1>12, <1>13, <1>15 DEF TrapsInv, LockInv

-----------------------------------------------------------------------------
(* The steps of lock and drop touch no frame, register or page table. *)
LEMMA RestFrames ==
  ASSUME PageInv, FrameInv, UNCHANGED Rest PROVE PageInv' /\ FrameInv'
<1>1. PageInv'
  BY DEF PageInv, OnOwnPages, Rest
<1>2. Registers' <=> Registers
  BY DEF Registers, Kept, Rest
<1>3. Plain' = Plain /\ (SpKept' <=> SpKept)
  BY DEF Plain, SpKept, Rest
<1> QED BY <1>1, <1>2, <1>3 DEF FrameInv, InFrame, Rest

LEMMA LockTraps == TrapsInv /\ KernelStep => TrapsInv'
<1> SUFFICES ASSUME TrapsInv, KernelStep PROVE TrapsInv'
  OBVIOUS
<1>1. UNCHANGED Rest
  BY DEF KernelStep, lock_irq_save, lock_disable_interrupts, lock_swap, drop_unlock,
         drop_irq_load, Rest, cpuVars, taskVars
<1>2. LockInv'
  BY IrqSaveLocks, DisableLocks, SwapLocks, UnlockLocks, IrqLoadLocks DEF KernelStep, TrapsInv
<1> QED BY <1>1, <1>2, RestFrames DEF TrapsInv

(* The first user task starts with the stack pointer and the entry point of *)
(* its program, in user mode with interrupts on.                           *)
LEMMA CreateTraps == TrapsInv /\ create_from_elf => TrapsInv'
<1> SUFFICES ASSUME TrapsInv, create_from_elf PROVE TrapsInv'
  OBVIOUS
<1>1. /\ level = "task" /\ current = KERNEL_PID /\ tasks = {KERNEL_PID} /\ 1 \in Pids
      /\ tasks' = {KERNEL_PID, 1} /\ 1 # KERNEL_PID
      /\ contexts' = With(contexts, 1, NewContext(1))
      /\ expect' = With(expect, 1, NewRegs(1))
      /\ UNCHANGED <<arch, cpu, status, regs, page, active, ctx, level, trap, current, locked,
                     code, panic, booted>>
  BY TrapsAssumption DEF create_from_elf, Running, InKernel, cpuVars, KERNEL_PID, Pids
<1>2. /\ TypeInv /\ arch \in Arches /\ arch \in {"riscv64", "arm64"}
      /\ DOMAIN contexts = tasks /\ DOMAIN expect = tasks
  BY ArchCases DEF TrapsInv, LockInv, TypeInv, TypeOK
<1>3. Zero \in Values /\ Value("start", 1) \in Values
  BY <1>1 DEF Value, Values
<1>4. /\ FrameOK(NewContext(1))
      /\ NewContext(1)[SpSlot[arch]] = Value("start", 1)
      /\ NewContext(1)[Slot[arch]["pc"]] = Value("start", 1)
      /\ \A r \in Regs \ {"sp", "pc", "fp"} : r # "gp" \/ arch = "arm64" =>
            NewContext(1)[Slot[arch][r]] = Zero
      /\ arch = "arm64" => NewContext(1)[PstateSlot] = [mode |-> "user", ie |-> TRUE]
  <2>1. [mode |-> "user", ie |-> TRUE] \in PStates
    BY DEF PStates
  <2>2. "pc" \in Regs \ {"sp", "fp"}
    BY DEF Regs
  <2>3. Slot[arch]["pc"] # SpSlot[arch]
    BY <1>2, <2>2, Layout
  <2> QED BY <1>2, <1>3, <2>1, <2>2, <2>3, Layout DEF FrameOK, NewContext, DefaultContext
<1>5. /\ NewRegs(1) \in [Regs -> Values]
      /\ NewRegs(1)["sp"] = Value("start", 1) /\ NewRegs(1)["pc"] = Value("start", 1)
      /\ \A r \in Regs \ {"sp", "pc"} : NewRegs(1)[r] = Zero
  BY <1>3 DEF NewRegs, Regs
<1>6. /\ DOMAIN contexts' = tasks' /\ DOMAIN expect' = tasks'
      /\ contexts'[1] = NewContext(1) /\ expect'[1] = NewRegs(1)
      /\ contexts'[KERNEL_PID] = contexts[KERNEL_PID]
      /\ expect'[KERNEL_PID] = expect[KERNEL_PID]
  BY <1>1, <1>2 DEF With
<1>7. TypeInv'
  <2>1. FrameOK(ctx)' /\ FrameOK(contexts[KERNEL_PID])' /\ FrameOK(contexts[1])'
    BY <1>1, <1>2, <1>4, <1>6 DEF TypeInv, FrameOK
  <2>2. \A p \in tasks' : FrameOK(contexts[p])'
    BY <1>1, <2>1
  <2>3. \A p \in tasks' : /\ DOMAIN contexts'[p] = SlotsOf(arch')
                           /\ expect'[p] \in [Regs -> Values]
    <3>1. expect[KERNEL_PID] \in [Regs -> Values]
      BY <1>1, <1>2 DEF TypeInv, TypeOK
    <3> QED BY <1>1, <1>5, <1>6, <2>2, <3>1 DEF FrameOK
  <2>4. TypeOK'
    BY <1>1, <1>2, <1>6, <2>1, <2>3 DEF TypeInv, TypeOK, FrameOK
  <2> QED BY <1>1, <1>2, <2>1, <2>2, <2>4 DEF TypeInv
<1>8. KernelCode' /\ TrapCode'
  BY <1>1 DEF TrapsInv, LockInv, KernelCode, Interrupted, TrapCode
<1>9. Nested' /\ OneGuard' /\ FlagsHeld'
  BY <1>1 DEF TrapsInv, LockInv, Nested, Below, OneGuard, FlagsHeld, Held
<1>10. ModeInv'
  <2>1. arch = "arm64" => Resumable(1, NewContext(1)[PstateSlot])
    BY <1>1, <1>4 DEF Resumable, ModeOf
  <2> QED BY <1>1, <1>6, <2>1 DEF TrapsInv, LockInv, ModeInv, Resumable, ModeOf
<1>11. PageInv'
  BY <1>1 DEF TrapsInv, PageInv, OnOwnPages
<1>12. Registers'
  BY <1>1, <1>6 DEF TrapsInv, FrameInv, Registers, Kept
<1>13. FrameInv'
  <2>1. Plain' = Plain /\ tasks' \ {current'} = {1}
    BY <1>1 DEF Plain
  <2>2. \A r \in Plain : NewContext(1)[Slot[arch][r]] = NewRegs(1)[r]
    BY <1>2, <1>4, <1>5 DEF Plain
  <2> QED BY <1>1, <1>4, <1>5, <1>6, <1>12, <2>1, <2>2 DEF FrameInv, InFrame
<1> QED BY <1>7, <1>8, <1>9, <1>10, <1>11, <1>13 DEF TrapsInv, LockInv

(* A panic, or the end of kernel_main, gives the thread locks to take; the  *)
(* end of kernel_main turns interrupts on.                                 *)
LEMMA PanicLeft ==
  ASSUME TypeInv, NEW t \in Threads, code' = [code EXCEPT ![t].left = 3]
  PROVE  /\ code' \in [Threads -> CodeType]
         /\ \A u \in Threads : /\ code'[u].pc = code[u].pc /\ code'[u].want = code[u].want
                               /\ code'[u].irq = code[u].irq /\ code'[u].guards = code[u].guards
                               /\ u # t => code'[u] = code[u]
<1>1. code \in [Threads -> CodeType] /\ 3 \in 0..(MaxSections + 3)
  BY TrapsAssumption DEF TypeInv
<1>2. \A u \in Threads \ {t} : code'[u] = code[u]
  BY <1>1
<1> DEFINE c == [code[t] EXCEPT !.left = 3]
<1>3. code' = [code EXCEPT ![t] = c]
  OBVIOUS
<1>4. /\ c \in CodeType /\ c.pc = code[t].pc /\ c.want = code[t].want
      /\ c.irq = code[t].irq /\ c.guards = code[t].guards
  <2>1. code[t] \in CodeType
    BY <1>1
  <2> QED BY <1>1, <2>1 DEF CodeType
<1> HIDE DEF c
<1> QED BY <1>1, <1>2, <1>3, <1>4

LEMMA PanicTraps == TrapsInv /\ panics => TrapsInv'
<1> SUFFICES ASSUME TrapsInv, panics PROVE TrapsInv'
  OBVIOUS
<1>1. /\ UNCHANGED Rest /\ UNCHANGED <<cpu, locked>> /\ InKernel
      /\ code[me].pc = "run" /\ panic[me] = "no" /\ (level = "trap" => trap.stage = "lock")
      /\ code' = [code EXCEPT ![me].left = 3] /\ panic' = [panic EXCEPT ![me] = "lock"]
  BY DEF panics, Rest, cpuVars, taskVars, Running
<1>2. TypeInv /\ me \in Threads /\ panic \in [Threads -> PanicStages]
      /\ cpu \in PStates /\ locked \subseteq Locks
  BY GuardFacts DEF TrapsInv, LockInv, TypeInv, TypeOK, PanicStages
<1>3. /\ code' \in [Threads -> CodeType]
      /\ \A u \in Threads : /\ code'[u].pc = code[u].pc /\ code'[u].want = code[u].want
                            /\ code'[u].irq = code[u].irq /\ code'[u].guards = code[u].guards
                            /\ u # me => code'[u] = code[u]
  BY <1>1, <1>2, PanicLeft
<1>4. /\ panic' \in [Threads -> PanicStages] /\ panic'[me] = "lock"
      /\ \A u \in Threads \ {me} : panic'[u] = panic[u]
  BY <1>1, <1>2 DEF PanicStages
<1>5. TypeInv'
  BY <1>1, <1>2, <1>3, <1>4, LockStepType DEF TypeInv
<1>6. KernelCode'
  <2>1. "kernel" \in Threads
    BY DEF Threads
  <2> QED BY <1>1, <1>3, <2>1 DEF TrapsInv, LockInv, KernelCode, Interrupted, Rest
<1>7. TrapCode'
  <2>1. "trap" \in Threads /\ (level = "task" => me # "trap")
    BY DEF Threads, me
  <2>2. level = "task" => code'["trap"] = code["trap"] /\ panic'["trap"] = panic["trap"]
    BY <1>3, <1>4, <2>1
  <2>3. level = "trap" => trap.stage = "lock"
    BY <1>1
  <2> QED BY <1>1, <1>3, <2>1, <2>2, <2>3 DEF TrapsInv, LockInv, TrapCode, Rest
<1>8. Nested'
  BY <1>3, <1>4 DEF TrapsInv, LockInv, Nested, Below
<1>9. OneGuard'
  BY <1>3 DEF TrapsInv, LockInv, OneGuard
<1>10. FlagsHeld'
  <2>1. Held("kernel")' = Held("kernel") /\ Held("trap")' = Held("trap")
    BY <1>3 DEF Held, Threads
  <2> QED BY <1>1, <2>1 DEF TrapsInv, LockInv, FlagsHeld
<1>11. ModeInv'
  BY <1>1, LockStepMode DEF TrapsInv
<1>12. PageInv' /\ FrameInv'
  BY <1>1, RestFrames DEF TrapsInv
<1> QED BY <1>5, <1>6, <1>7, <1>8, <1>9, <1>10, <1>11, <1>12 DEF TrapsInv, LockInv

LEMMA MainTraps == TrapsInv /\ kernel_main_end => TrapsInv'
<1> SUFFICES ASSUME TrapsInv, kernel_main_end PROVE TrapsInv'
  OBVIOUS
<1>1. /\ UNCHANGED <<arch, status, regs, page, active, ctx, level, trap, tasks, contexts,
                     current, expect, locked>>
      /\ level = "task" /\ current = KERNEL_PID /\ ~booted /\ booted' = TRUE
      /\ code["kernel"].pc = "run" /\ code["kernel"].guards = <<>>
      /\ cpu' = [cpu EXCEPT !.ie = TRUE]
      /\ code' = [code EXCEPT !["kernel"].left = 3]
      /\ panic' = [panic EXCEPT !["kernel"] = "lock"]
  BY DEF kernel_main_end, taskVars, Running, InKernel, me, Guards
<1>2. /\ TypeInv /\ "kernel" \in Threads /\ "trap" \in Threads
      /\ panic \in [Threads -> PanicStages] /\ cpu \in PStates /\ locked \subseteq Locks
  BY DEF TrapsInv, LockInv, TypeInv, TypeOK, PanicStages, Threads
<1>3. /\ code' \in [Threads -> CodeType]
      /\ \A u \in Threads : /\ code'[u].pc = code[u].pc /\ code'[u].want = code[u].want
                            /\ code'[u].irq = code[u].irq /\ code'[u].guards = code[u].guards
                            /\ u # "kernel" => code'[u] = code[u]
  BY <1>1, <1>2, PanicLeft
<1>4. /\ panic' \in [Threads -> PanicStages] /\ panic'["kernel"] = "lock"
      /\ \A u \in Threads \ {"kernel"} : panic'[u] = panic[u]
  BY <1>1, <1>2 DEF PanicStages
<1>5. cpu' \in PStates /\ cpu'.ie /\ cpu'.mode = cpu.mode
  BY <1>1, <1>2 DEF PStates
<1>6. TypeInv'
  <2>1. TypeOK'
    BY <1>1, <1>2, <1>3, <1>4, <1>5 DEF TypeInv, TypeOK, CodeType, GuardType, PanicStages
  <2>2. FrameOK(ctx)' /\ \A p \in tasks' : FrameOK(contexts[p])'
    BY <1>1, <1>2 DEF TypeInv, FrameOK
  <2>3. \A t \in Threads : code'[t].pc \in {"saved", "spin"} => code'[t].want \in Locks
    BY <1>2, <1>3 DEF TypeInv
  <2> QED BY <1>3, <2>1, <2>2, <2>3 DEF TypeInv
<1>7. KernelCode'
  BY <1>1, <1>2, <1>3, <1>5 DEF KernelCode, Interrupted
<1>8. TrapCode'
  BY <1>1, <1>2, <1>3, <1>4 DEF TrapsInv, LockInv, TrapCode
<1>9. Nested'
  BY <1>3, <1>4 DEF TrapsInv, LockInv, Nested, Below
<1>10. OneGuard'
  BY <1>3 DEF TrapsInv, LockInv, OneGuard
<1>11. FlagsHeld'
  <2>1. Held("kernel")' = Held("kernel") /\ Held("trap")' = Held("trap")
    BY <1>3 DEF Held, Threads
  <2> QED BY <1>1, <2>1 DEF TrapsInv, LockInv, FlagsHeld
<1>12. ModeInv'
  BY <1>1, <1>5 DEF TrapsInv, LockInv, ModeInv, Resumable
<1>13. PageInv'
  BY <1>1 DEF TrapsInv, PageInv, OnOwnPages
<1>14. FrameInv'
  <2>1. Registers' <=> Registers
    BY <1>1 DEF Registers, Kept
  <2>2. Plain' = Plain /\ (SpKept' <=> SpKept)
    BY <1>1 DEF Plain, SpKept
  <2> QED BY <1>1, <2>1, <2>2 DEF TrapsInv, FrameInv, InFrame
<1> QED BY <1>6, <1>7, <1>8, <1>9, <1>10, <1>11, <1>12, <1>13, <1>14 DEF TrapsInv, LockInv

(* What a task computes is what it must find. *)
LEMMA RunTraps == TrapsInv /\ task_runs => TrapsInv'
<1> SUFFICES ASSUME TrapsInv, task_runs PROVE TrapsInv'
  OBVIOUS
<1> DEFINE new == [r \in Regs |-> Value(r, current)]
<1>1. /\ level = "task" /\ regs' = new /\ expect' = [expect EXCEPT ![current] = new]
      /\ UNCHANGED <<arch, cpu, status, page, active, ctx, level, trap, tasks, contexts,
                     current, locked, code, panic, booted>>
  BY DEF task_runs
<1>2. TypeInv /\ current \in tasks /\ current \in Pids /\ DOMAIN expect = tasks
  BY DEF TrapsInv, LockInv, TypeInv, TypeOK
<1>3. new \in [Regs -> Values]
  BY <1>2 DEF Value, Values
<1> HIDE DEF new
<1>4. /\ DOMAIN expect' = tasks' /\ expect'[current] = new
      /\ \A p \in tasks \ {current} : expect'[p] = expect[p]
  BY <1>1, <1>2
<1>5. TypeInv'
  <2>1. \A p \in tasks : expect'[p] \in [Regs -> Values]
    BY <1>2, <1>3, <1>4 DEF TypeInv, TypeOK
  <2>2. TypeOK'
    BY <1>1, <1>2, <1>3, <1>4, <2>1 DEF TypeInv, TypeOK
  <2>3. FrameOK(ctx)' /\ \A p \in tasks' : FrameOK(contexts[p])'
    BY <1>1, <1>2 DEF TypeInv, FrameOK
  <2> QED BY <1>1, <1>2, <2>2, <2>3 DEF TypeInv
<1>6. KernelCode' /\ TrapCode' /\ ModeInv'
  BY <1>1 DEF TrapsInv, LockInv, KernelCode, Interrupted, TrapCode, ModeInv
<1>7. Nested' /\ OneGuard' /\ FlagsHeld'
  BY <1>1 DEF TrapsInv, LockInv, Nested, Below, OneGuard, FlagsHeld, Held
<1>8. PageInv'
  BY <1>1 DEF TrapsInv, PageInv, OnOwnPages
<1>9. Registers'
  BY <1>1, <1>4 DEF Registers
<1>10. FrameInv'
  <2>1. Plain' = Plain
    BY <1>1 DEF Plain
  <2> QED BY <1>1, <1>4, <1>9, <2>1 DEF TrapsInv, FrameInv, InFrame
<1> QED BY <1>5, <1>6, <1>7, <1>8, <1>10 DEF TrapsInv, LockInv

-----------------------------------------------------------------------------
LEMMA TrapsInit == Init => TrapsInv
<1> SUFFICES ASSUME Init PROVE TrapsInv
  OBVIOUS
<1>1. /\ arch \in Arches /\ arch \in {"riscv64", "arm64"} /\ FrameOK(DefaultContext(arch))
      /\ KERNEL_PID \in Pids
  BY ArchCases, DefaultOK, TrapsAssumption DEF Init, KERNEL_PID, Pids
<1>2. regs \in [Regs -> Values]
  BY <1>1 DEF Init, Value, Values
<1>3. /\ code \in [Threads -> CodeType] /\ \A t \in Threads : code[t] = Idle
      /\ Idle.pc = "run" /\ Idle.guards = <<>> /\ ~Idle.irq
  BY IdleType DEF Init, Idle
<1>4. cpu \in PStates /\ cpu.mode = "kernel" /\ ~cpu.ie
  BY DEF Init, PStates
<1>5. TypeInv
  <2>1. FrameOK(ctx) /\ \A p \in tasks : FrameOK(contexts[p])
    BY <1>1 DEF Init
  <2>2. trap \in [cause : Causes, stage : {"entry", "lock", "done", "return"}]
    BY DEF Init, Causes
  <2>3. \A t \in Threads : code[t].pc \in {"run", "saved", "spin", "freed"} 
         /\ code[t].want \in Locks \cup {"none"} /\ code[t].irq \in BOOLEAN
         /\ code[t].left \in 0..(MaxSections + 3)
         /\ code[t].guards \in Seq([lock : Locks, irq : BOOLEAN])
    BY <1>3 DEF CodeType, GuardType
  <2>4. TypeOK
    BY <1>1, <1>2, <1>4, <2>1, <2>2, <2>3 DEF Init, TypeOK, FrameOK
  <2> QED BY <1>3, <2>1, <2>4 DEF TypeInv
<1>6. KernelCode /\ TrapCode
  BY <1>3, <1>4 DEF Init, KernelCode, Interrupted, TrapCode, Threads
<1>7. Nested /\ OneGuard /\ FlagsHeld
  BY <1>3 DEF Init, Nested, OneGuard, FlagsHeld, Held, Threads
<1>8. ModeInv /\ PageInv
  BY <1>4 DEF Init, ModeInv, ModeOf, PageInv, OnOwnPages
<1>9. FrameInv
  BY <1>1 DEF Init, FrameInv, Registers, Kept
<1> QED BY <1>5, <1>6, <1>7, <1>8, <1>9 DEF TrapsInv, LockInv

LEMMA TrapsStep == TrapsInv /\ [Next]_vars => TrapsInv'
<1> SUFFICES ASSUME TrapsInv, [Next]_vars PROVE TrapsInv'
  OBVIOUS
<1>1. CASE KernelStep
  BY <1>1, LockTraps
<1>2. CASE HandlerStep
  BY <1>2, HandlerTraps, ReturnTraps, ExitTraps, SwitchTraps, ForkTraps, KillTraps
     DEF HandlerStep
<1>3. CASE \E c \in Causes : trap_entry(c)
  BY <1>3, EntryTraps
<1>4. CASE create_from_elf \/ kernel_main_end \/ panics \/ task_runs
  BY <1>4, CreateTraps, MainTraps, PanicTraps, RunTraps
<1>5. CASE UNCHANGED vars
  <2>1. UNCHANGED Rest /\ UNCHANGED <<cpu, locked, code, panic>>
    BY <1>5 DEF vars, cpuVars, taskVars, Rest
  <2>2. TypeInv'
    BY <2>1 DEF TrapsInv, LockInv, TypeInv, TypeOK, FrameOK, Rest
  <2>3. KernelCode' /\ TrapCode' /\ ModeInv'
    BY <2>1 DEF TrapsInv, LockInv, KernelCode, Interrupted, TrapCode, ModeInv, Rest
  <2>4. Nested' /\ OneGuard' /\ FlagsHeld'
    BY <2>1 DEF TrapsInv, LockInv, Nested, Below, OneGuard, FlagsHeld, Held
  <2>5. PageInv' /\ FrameInv'
    BY <2>1, RestFrames DEF TrapsInv
  <2> QED BY <2>2, <2>3, <2>4, <2>5 DEF TrapsInv, LockInv
<1> QED BY <1>1, <1>2, <1>3, <1>4, <1>5 DEF Next

(* The inductive invariant: guards and interrupt flags, the mode and page    *)
(* table that the CPU goes back to, and where each register of each task is *)
(* kept, hold in every state of lock, drop and the trap handlers.           *)
THEOREM TrapsInvariant == Spec => []TrapsInv
<1> QED BY TrapsInit, TrapsStep, PTL DEF Spec

-----------------------------------------------------------------------------
(* While any spinlock is held no interrupt can be taken, the flags that are *)
(* set are those of the guards, one guard per lock; and a lock that is      *)
(* asked for is free unless its owner has panicked: lock (lib/spinlock)     *)
(* never spins for ever on the one CPU, however locks nest and whenever     *)
(* a trap arrives.                                                         *)
THEOREM LocksCorrect == Spec => []LocksSafe
<1>1. TrapsInv => LocksSafe
  <2> SUFFICES ASSUME TrapsInv PROVE LocksSafe
    OBVIOUS
  <2>1. TypeInv /\ TypeOK
    BY DEF TrapsInv, LockInv, TypeInv
  <2>2. Interrupted => Held("kernel") = {} /\ code["kernel"].pc # "spin"
    BY DEF TrapsInv, LockInv, KernelCode, Held
  <2>3. level = "task" => Held("trap") = {} /\ code["trap"].pc = "run"
    BY DEF TrapsInv, LockInv, TrapCode, Held, Idle
  <2>4. level \in {"task", "trap"}
    BY <2>1 DEF TypeOK
  <2>5. SectionsAtomic
    <3>1. Held("kernel") # {} => ~Interrupted /\ ~cpu.ie
      BY <2>2 DEF TrapsInv, LockInv, KernelCode, Held
    <3>2. ~Interrupted => cpu.mode = "kernel"
      BY <2>4 DEF Interrupted, TrapsInv, LockInv, ModeInv, ModeOf
    <3>3. Held("trap") # {} => ~cpu.ie /\ cpu.mode = "kernel"
      BY <2>3, <2>4 DEF TrapsInv, LockInv, TrapCode
    <3> QED BY <2>2, <2>3, <2>4, <3>1, <3>2, <3>3
            DEF SectionsAtomic, TrapsInv, LockInv, FlagsHeld, Interrupted
  <2>6. NoSpin
    <3> SUFFICES ASSUME NEW t \in Threads, code[t].pc = "spin", panic[t] = "no",
                        code[t].want \in locked
                 PROVE  FALSE
      BY DEF NoSpin
    <3>1. code[t].want \in Held(t)
      BY <2>2, <2>3, <2>4 DEF TrapsInv, LockInv, FlagsHeld, Threads, Interrupted
    <3>2. PICK i \in DOMAIN code[t].guards : code[t].guards[i].lock = code[t].want
      BY <3>1 DEF Held
    <3>3. Rank(t)[code[t].want] < Rank(t)[code[t].want]
      BY <3>2 DEF TrapsInv, LockInv, Nested, Below
    <3>4. code[t].want \in Locks
      BY <2>1 DEF TypeInv
    <3>5. Rank(t)[code[t].want] \in Nat
      BY <3>4 DEF Rank, BootRank, TrapRank, Locks
    <3> QED BY <3>3, <3>5
  <2> QED BY <2>1, <2>5, <2>6 DEF LocksSafe
<1> QED BY <1>1, TrapsInvariant, PTL

(* Whatever ran between its trap and its return, a task finds every register *)
(* that the entry and exit code of trap.S and switch_task keep (the general- *)
(* purpose ones but gp on riscv64 and SP_EL0 of the kernel task on arm64; no *)
(* floating-point register) as it was, or as its system call left it.      *)
THEOREM RegistersKept == Spec => []Registers
<1>1. TrapsInv => Registers
  BY DEF TrapsInv, FrameInv, Registers
<1> QED BY <1>1, TrapsInvariant, PTL

(* A task that comes back from a trap runs with its own privilege, on its   *)
(* own page table (but for the traps that arm64's handlers have no case     *)
(* for), with interrupts on and none left active at the GIC.               *)
THEOREM TasksRunAsThemselves == Spec => []RunsAsItself
<1>1. TrapsInv => RunsAsItself
  <2> SUFFICES ASSUME TrapsInv, level = "task" PROVE RunsAsItself
    BY DEF RunsAsItself, Interruptible, Privilege, OwnPageTable
  <2>1. Privilege
    BY DEF TrapsInv, LockInv, ModeInv, ModeOf, Privilege
  <2>2. OwnPageTable
    BY DEF TrapsInv, PageInv, OnOwnPages, OwnPageTable
  <2>3. Interruptible
    <3>1. ~active /\ (current # KERNEL_PID => cpu.ie)
      BY DEF TrapsInv, LockInv, ModeInv
    <3>2. ASSUME current = KERNEL_PID, booted, code["kernel"].pc = "run", Held("kernel") = {}
          PROVE  cpu.ie
      <4>1. code["kernel"].guards \in Seq(GuardType)
        BY DEF TrapsInv, LockInv, TypeInv, CodeType, Threads
      <4>2. DOMAIN code["kernel"].guards = {}
        BY <3>2 DEF Held
      <4>3. code["kernel"].guards = <<>>
        BY <4>1, <4>2, SeqFacts
      <4> QED BY <3>2, <4>3 DEF TrapsInv, LockInv, KernelCode, Interrupted
    <3> QED BY <3>1, <3>2 DEF Interruptible
  <2> QED BY <2>1, <2>2, <2>3 DEF RunsAsItself
<1> QED BY <1>1, TrapsInvariant, PTL
=============================================================================
