----------------------------- MODULE Scheduler -----------------------------
(***************************************************************************)
(* Tasks and their scheduler, src/task.rs, as the trap handlers of         *)
(* src/arch use them.  There is one CPU.  A trap (timer interrupt, syscall *)
(* or illegal instruction) takes the SCHEDULER lock with interrupts off,   *)
(* changes the task table and ends in the loop of Scheduler::schedule, one *)
(* step per iteration here, since time goes on while it runs.              *)
(*                                                                         *)
(* vruntime is kept relative to its smallest entry, which leaves the order *)
(* of the set and all differences as they are in the code; that the 64-bit *)
(* sum overflows after 2^64 / 38 switches is left out.  A wake-up time is  *)
(* kept relative to the clock.                                             *)
(***************************************************************************)
EXTENDS Integers, Sequences, FiniteSets

CONSTANTS
    NiceMin,   \* NICE_MIN
    NiceMax,   \* NICE_MAX
    Nices,     \* the values renice is called with
    Reniced,   \* the tasks it is called for; their children inherit the value
    Sleeps,    \* the durations sleep is called with
    Segments,  \* the flags of the PT_LOAD segments of the program
    MaxPid     \* bound: process identifiers, which are never reused

ASSUME SchedulerAssumption ==
    /\ NiceMin \in Int /\ NiceMax \in Nat /\ NiceMin =< 0
    /\ Nices \subseteq Int
    /\ Sleeps \subseteq Nat
    /\ Segments \in Seq({"exec", "write", "read"})
    /\ MaxPid \in Nat
    /\ Reniced \subseteq 0..MaxPid

KERNEL_PID == 0
NiceDefault == 0
None == -1
Pids == 0..MaxPid

VARIABLES
    tasks,        \* the task table, a function on the live pids
    vruntime,     \* the run queue, a set of entries [vr, pid]
    current_pid,
    max_pid,
    frames,       \* the page blocks that the page allocator has given out
    mem,          \* mem[p]: what the stack block <<p, 1>> holds
    ctx,          \* the registers in the trap frame
    pc,           \* "run": interrupts on; "schedule": in the loop of schedule;
                  \* "overflow", "fault", "no_task": stopped there
    work,         \* history: how far the program of a task has come
    lost,         \* history: fork has copied a stack from the wrong place
    root          \* history: the task of create_from_elf that a task stems from

vars == <<tasks, vruntime, current_pid, max_pid, frames, mem, ctx, pc, work, lost, root>>

(* A block is named after the task and the place in page_allocs it was      *)
(* allocated for.                                                          *)
Frames == Pids \X (0..(Len(Segments) + 1))
NoFrame == <<0, 0>>

(* A task's progress, in its registers and on its stack, counts modulo 2.  *)
Progress == 0..1
Advance(w) == (w + 1) % 2

(* page_allocs[1] is the stack.  linear is the block that the kernel's page *)
(* table shows at v_page: the stack is mapped at its kernel address, the    *)
(* segments at addresses the kernel's table does not map.                  *)
Alloc(linear, p_page, flags) == [linear |-> linear, p_page |-> p_page, flags |-> flags]

NewTask(nice, context, page_allocs) ==
    [nice |-> nice, context |-> context, page_allocs |-> page_allocs,
     next_schedule |-> None]

With(pid, task) ==
    [p \in DOMAIN tasks \cup {pid} |-> IF p = pid THEN task ELSE tasks[p]]

FramesOf(page_allocs) == {page_allocs[i].p_page : i \in DOMAIN page_allocs}

-----------------------------------------------------------------------------
(* Mutant: the set holds (pid, vruntime). *)
Before_pid(e, f) == e.pid < f.pid \/ (e.pid = f.pid /\ e.vr =< f.vr)

(* BTreeSet<(usize, usize)>: e is the first entry of q. *)
Before(e, f) == e.vr < f.vr \/ (e.vr = f.vr /\ e.pid =< f.pid)

IsFirst(e, q) == e \in q /\ \A f \in q : Before(e, f)

Requeue(q) ==
    \/ q = {} /\ vruntime' = {}
    \/ \E b \in q :
         /\ IsFirst(b, q)
         /\ vruntime' = {[vr |-> e.vr - b.vr, pid |-> e.pid] : e \in q}

(* A new task gets the smallest vruntime. *)
Enqueue(pid) ==
    \E b \in vruntime :
      /\ IsFirst(b, vruntime)
      /\ vruntime' = vruntime \cup {[vr |-> b.vr, pid |-> pid]}

(* Mutant: the default nice costs nothing. *)
Cost_free(nice) == nice + NiceMax - 1

(* What a turn costs; (nice + NICE_MAX) as usize. *)
Cost(nice) == nice + NiceMax

(* pop_first().unwrap() when the last task has been killed *)
schedule_none ==
    /\ pc = "schedule"
    /\ vruntime = {}
    /\ pc' = "no_task"
    /\ UNCHANGED <<tasks, vruntime, current_pid, max_pid, frames, mem, ctx, work, lost, root>>

(* One iteration of schedule for the first entry e.  A negative cost wraps  *)
(* to 2^64 - 1: a debug build panics on the sum, another one moves the task *)
(* backwards; the model stops.                                             *)
schedule ==
    /\ pc = "schedule"
    /\ \E e \in vruntime :
         LET pid == e.pid
             due == tasks[pid].next_schedule =< 0  \* None included
         IN  /\ IsFirst(e, vruntime)
             /\ current_pid' = pid
             /\ IF Cost(tasks[pid].nice) < 0
                THEN pc' = "overflow" /\ UNCHANGED <<tasks, vruntime, ctx>>
                ELSE /\ Requeue((vruntime \ {e}) \cup
                          {[vr |-> e.vr + Cost(tasks[pid].nice), pid |-> pid]})
                     /\ tasks' = IF due THEN [tasks EXCEPT ![pid].next_schedule = None]
                                 ELSE tasks
                     /\ ctx' = IF due THEN tasks[pid].context ELSE ctx
                     /\ pc' = IF due THEN "run" ELSE "schedule"
    /\ UNCHANGED <<max_pid, frames, mem, work, lost, root>>

(* switch_task stores the registers before it calls schedule. *)
Saved == [tasks[current_pid] EXCEPT !.context = ctx]

(* Mutant: the registers are not stored. *)
switch_task_unsaved ==
    /\ pc = "run"
    /\ pc' = "schedule"
    /\ UNCHANGED <<tasks, vruntime, current_pid, max_pid, frames, mem, ctx, work, lost, root>>

(* The timer interrupt, and every syscall that leaves the scheduler alone. *)
switch_task ==
    /\ pc = "run"
    /\ tasks' = With(current_pid, Saved)
    /\ pc' = "schedule"
    /\ UNCHANGED <<vruntime, current_pid, max_pid, frames, mem, ctx, work, lost, root>>

UserRuns == pc = "run" /\ current_pid # KERNEL_PID

syscall_sleep(d) ==
    /\ UserRuns
    /\ tasks' = With(current_pid, [Saved EXCEPT !.next_schedule = d])
    /\ pc' = "schedule"
    /\ UNCHANGED <<vruntime, current_pid, max_pid, frames, mem, ctx, work, lost, root>>

-----------------------------------------------------------------------------
(* create_from_elf, called by the kernel: a stack and a block per segment. *)
create_from_elf ==
    LET pid == max_pid + 1
        page_allocs ==
            <<Alloc(<<pid, 1>>, <<pid, 1>>, "write")>> \o
            [i \in DOMAIN Segments |-> Alloc(NoFrame, <<pid, i + 1>>, Segments[i])]
    IN  /\ pc = "run" /\ current_pid = KERNEL_PID
        /\ max_pid < MaxPid
        /\ max_pid' = pid
        /\ tasks' = With(pid, NewTask(tasks[current_pid].nice, 0, page_allocs))
        /\ Enqueue(pid)
        /\ frames' = frames \cup FramesOf(page_allocs)
        /\ root' = [root EXCEPT ![pid] = pid]
        /\ UNCHANGED <<current_pid, mem, ctx, pc, work, lost>>

(* Mutant: the child shares what the parent can write. *)
Forked_shared(allocs, pid) == allocs

(* fork copies what the parent can write and shares the rest. *)
Forked(allocs, pid) ==
    [i \in DOMAIN allocs |->
        IF allocs[i].flags = "write" THEN [allocs[i] EXCEPT !.p_page = <<pid, i>>]
        ELSE allocs[i]]

(* The syscall fork: save the registers, Scheduler::fork, switch_task.      *)
(* The copy reads the parent's v_page, but under the kernel's page table: a *)
(* block that is not mapped there faults, and the handler returns to the    *)
(* same instruction for ever; the model stops.  The stack is read at its    *)
(* linear address; of a block that is not allocated any more it reads       *)
(* anything.                                                               *)
fork ==
    LET pid == max_pid + 1
        parent == tasks[current_pid]
        page_allocs == Forked(parent.page_allocs, pid)
        source == parent.page_allocs[1].linear
        Unmapped == {i \in DOMAIN page_allocs :
                       page_allocs[i].flags = "write" /\ page_allocs[i].linear = NoFrame}
        child == NewTask(parent.nice, ctx, page_allocs)
    IN  /\ UserRuns
        /\ max_pid < MaxPid
        /\ IF Unmapped # {}
           THEN /\ pc' = "fault"
                /\ UNCHANGED <<tasks, vruntime, max_pid, frames, mem, work, lost, root>>
           ELSE /\ max_pid' = pid
                /\ tasks' = [p \in DOMAIN tasks \cup {pid} |->
                               IF p = pid THEN child
                               ELSE IF p = current_pid THEN Saved ELSE tasks[p]]
                /\ Enqueue(pid)
                /\ frames' = frames \cup FramesOf(page_allocs)
                /\ \E v \in Progress :
                     /\ source \in frames => v = mem[source[1]]
                     /\ mem' = [mem EXCEPT ![pid] = v]
                /\ work' = [work EXCEPT ![pid] = work[current_pid]]
                /\ lost' = (lost \/ source # parent.page_allocs[1].p_page)
                /\ root' = [root EXCEPT ![pid] = root[current_pid]]
                /\ pc' = "schedule"
        /\ UNCHANGED <<current_pid, ctx>>

(* Arc::strong_count of the block f *)
strong_count(f) ==
    Cardinality({pi \in Pids \X (1..(Len(Segments) + 1)) :
                   /\ pi[1] \in DOMAIN tasks
                   /\ pi[2] \in DOMAIN tasks[pi[1]].page_allocs
                   /\ tasks[pi[1]].page_allocs[pi[2]].p_page = f})

(* Mutant: the count of owners is not looked at. *)
Dropped_always(pid) == FramesOf(tasks[pid].page_allocs)

(* Drop for Task: the blocks of which pid is the last owner go back. *)
Dropped(pid) == {f \in FramesOf(tasks[pid].page_allocs) : strong_count(f) = 1}

(* Mutant: the entry in vruntime stays. *)
kill_queued ==
    /\ pc = "run"
    /\ tasks' = [p \in DOMAIN tasks \ {current_pid} |-> tasks[p]]
    /\ frames' = frames \ Dropped(current_pid)
    /\ pc' = "schedule"
    /\ UNCHANGED <<vruntime, current_pid, max_pid, mem, ctx, work, lost, root>>

(* The exit syscall, or a trap whose cause is fatal (an illegal             *)
(* instruction): kill_task and Scheduler::kill, for whatever task is        *)
(* current, the kernel's too.                                              *)
kill ==
    /\ pc = "run"
    /\ tasks' = [p \in DOMAIN tasks \ {current_pid} |-> tasks[p]]
    /\ Requeue({e \in vruntime : e.pid # current_pid})
    /\ frames' = frames \ Dropped(current_pid)
    /\ pc' = "schedule"
    /\ UNCHANGED <<current_pid, max_pid, mem, ctx, work, lost, root>>

(* Mutant: the range is not checked. *)
renice_any(pid, nice) ==
    /\ pc = "run"
    /\ pid \in DOMAIN tasks
    /\ tasks' = [tasks EXCEPT ![pid].nice = nice]
    /\ UNCHANGED <<vruntime, current_pid, max_pid, frames, mem, ctx, pc, work, lost, root>>

(* Task::renice ignores a value out of range. *)
renice(pid, nice) ==
    /\ pc = "run"
    /\ pid \in DOMAIN tasks
    /\ nice \in NiceMin..NiceMax
    /\ tasks' = [tasks EXCEPT ![pid].nice = nice]
    /\ UNCHANGED <<vruntime, current_pid, max_pid, frames, mem, ctx, pc, work, lost, root>>

-----------------------------------------------------------------------------
(* The running program changes its registers and its stack. *)
user_runs ==
    /\ UserRuns
    /\ ctx' = Advance(ctx)
    /\ mem' = [mem EXCEPT ![tasks[current_pid].page_allocs[1].p_page[1]] = Advance(@)]
    /\ work' = [work EXCEPT ![current_pid] = Advance(@)]
    /\ UNCHANGED <<tasks, vruntime, current_pid, max_pid, frames, pc, lost, root>>

(* get_sys_time grows. *)
Asleep == {p \in DOMAIN tasks : tasks[p].next_schedule > 0}

time_passes ==
    /\ Asleep # {}
    /\ tasks' = [p \in DOMAIN tasks |->
                   IF p \in Asleep THEN [tasks[p] EXCEPT !.next_schedule = @ - 1]
                   ELSE tasks[p]]
    /\ UNCHANGED <<vruntime, current_pid, max_pid, frames, mem, ctx, pc, work, lost, root>>

(* task_init *)
Init ==
    /\ tasks = [p \in {KERNEL_PID} |-> NewTask(NiceDefault, 0, << >>)]
    /\ vruntime = {[vr |-> 0, pid |-> KERNEL_PID]}
    /\ current_pid = KERNEL_PID
    /\ max_pid = 0
    /\ frames = {}
    /\ mem = [p \in Pids |-> 0]
    /\ ctx = 0
    /\ pc = "run"
    /\ work = [p \in Pids |-> 0]
    /\ lost = FALSE
    /\ root = [p \in Pids |-> p]

Next ==
    \/ schedule \/ schedule_none \/ switch_task
    \/ \E d \in Sleeps : syscall_sleep(d)
    \/ create_from_elf \/ fork \/ kill
    \/ \E p \in Reniced, n \in Nices : renice(p, n)
    \/ user_runs \/ time_passes

Spec == Init /\ [][Next]_vars

(* The CPU executes the loop, the timer interrupts whatever runs, and the   *)
(* clock goes on.                                                          *)
Fairness == WF_vars(schedule) /\ WF_vars(switch_task) /\ WF_vars(time_passes)

FairSpec == Spec /\ Fairness

-----------------------------------------------------------------------------
(* TypeOK: the fields of Scheduler and Task keep their types. *)
Entries == [vr : Nat, pid : Pids]

AllocType == [linear : Frames, p_page : Frames, flags : {"exec", "write", "read"}]

TaskType == [nice : NiceMin..NiceMax, context : Progress,
             page_allocs : Seq(AllocType), next_schedule : Nat \cup {None}]

TypeOK ==
    /\ DOMAIN tasks \subseteq 0..max_pid
    /\ \A p \in DOMAIN tasks : tasks[p] \in TaskType
    /\ vruntime \subseteq Entries
    /\ current_pid \in Pids
    /\ max_pid \in Pids
    /\ frames \subseteq Frames
    /\ mem \in [Pids -> Progress]
    /\ ctx \in Progress
    /\ pc \in {"run", "schedule", "overflow", "fault", "no_task"}
    /\ work \in [Pids -> Progress]
    /\ lost \in BOOLEAN
    /\ root \in [Pids -> Pids]

(* RunQueue: every task has exactly one entry in vruntime and every entry   *)
(* has a task, so that no task is forgotten and no unwrap() of schedule     *)
(* fails while there is one; what runs is a task.                          *)
RunQueue ==
    /\ {e.pid : e \in vruntime} = DOMAIN tasks
    /\ \A e, f \in vruntime : e.pid = f.pid => e = f
    /\ pc = "run" => current_pid \in DOMAIN tasks
    /\ pc = "no_task" => DOMAIN tasks = {}

(* Spread: no task is ever more than the dearest turn behind another in     *)
(* vruntime, whatever is created, killed, reniced or asleep; so a new task  *)
(* or a sleeper that wakes up cannot hold the CPU for long.                *)
Spread == \A e, f \in vruntime : e.vr - f.vr =< 2 * NiceMax

(* Resumed: a task that runs has the registers it was interrupted with, and *)
(* is not asleep; the registers of the others are in their contexts.       *)
Resumed ==
    \A p \in DOMAIN tasks :
      IF pc \in {"run", "fault"} /\ p = current_pid
      THEN ctx = work[p] /\ tasks[p].next_schedule = None
      ELSE tasks[p].context = work[p]

(* StackIntact: as long as only programs started by create_from_elf fork,   *)
(* the stack of a task is as its program left it, or as its parent left it  *)
(* at the fork.                                                            *)
UserTasks == DOMAIN tasks \ {KERNEL_PID}

StackIntact == ~lost => \A p \in UserTasks : mem[p] = work[p]

(* FramesExact: the blocks that are allocated are those of the live tasks:  *)
(* Drop frees a shared block with its last owner, neither before nor never. *)
FramesExact == frames = UNION {FramesOf(tasks[p].page_allocs) : p \in DOMAIN tasks}

(* The blocks that the page table lets a task store into. *)
StoreFrames(p) ==
    {tasks[p].page_allocs[i].p_page :
       i \in {j \in DOMAIN tasks[p].page_allocs : tasks[p].page_allocs[j].flags = "write"}}

(* The blocks that copy_to_user, for a system call of p, writes into: it    *)
(* looks at page_allocs and not at the flags.                              *)
CopyFrames(p) == FramesOf(tasks[p].page_allocs)

(* Private: no task can store into a block of another one.  A system call   *)
(* can write what the caller maps read-only, and that it may share: what    *)
(* copy_to_user writes for one task is seen by no task but those forked,    *)
(* over any number of generations, from the same program start.            *)
Private ==
    \A p, q \in DOMAIN tasks :
      p # q => /\ StoreFrames(p) \cap FramesOf(tasks[q].page_allocs) = {}
               /\ CopyFrames(p) \cap FramesOf(tasks[q].page_allocs) # {} => root[p] = root[q]

(* NoStarvation: every task, asleep or not, runs again and again until it   *)
(* is killed; in particular the loop of schedule always ends.              *)
NoStarvation ==
    \A p \in Pids :
      p \in DOMAIN tasks ~> (p \notin DOMAIN tasks \/ (pc = "run" /\ current_pid = p))
=============================================================================
