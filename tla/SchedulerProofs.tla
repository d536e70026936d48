-------------------------- MODULE SchedulerProofs --------------------------
(***************************************************************************)
(* Proofs about Scheduler for every number of tasks, every range of nice   *)
(* and every program: types, the run queue, the spread of vruntime, the    *)
(* registers a task resumes with, whose blocks are whose, and the stacks.  *)
(***************************************************************************)
EXTENDS Scheduler, FiniteSetTheorems, TLAPS

(* q is a run queue of the tasks in P. *)
Queue(q, P) ==
    /\ q \subseteq Entries
    /\ \A e \in q : e.pid \in P
    /\ \A p \in P : \E e \in q : e.pid = p
    /\ \A e, f \in q : e.pid = f.pid => e = f
    /\ \A e, f \in q : e.vr - f.vr =< 2 * NiceMax

(* The entries of q relative to b *)
Relative(q, b) == {[vr |-> e.vr - b.vr, pid |-> e.pid] : e \in q}

-----------------------------------------------------------------------------
(* The first entry of a set has the smallest vruntime. *)
LEMMA FirstIsLeast ==
  ASSUME NEW q, q \subseteq Entries, NEW b, IsFirst(b, q)
  PROVE  b \in Entries /\ b \in q /\ \A e \in q : b.vr =< e.vr
BY DEF IsFirst, Before, Entries

(* Counting vruntime from the smallest entry leaves a queue a queue. *)
LEMMA RelativeQueue ==
  ASSUME NEW q, NEW P, Queue(q, P), NEW b \in q, \A e \in q : b.vr =< e.vr
  PROVE  Queue(Relative(q, b), P)
<1> DEFINE r == Relative(q, b)
           Rel(e) == [vr |-> e.vr - b.vr, pid |-> e.pid]
<1>1. \A e \in q : e \in Entries
  BY DEF Queue
<1>2. \A e \in q : Rel(e) \in Entries
  BY <1>1 DEF Entries
<1>3. r \subseteq Entries
  BY <1>2 DEF Relative
<1>4. \A x \in r : \E e \in q : x = Rel(e)
  BY DEF Relative
<1>5. \A e \in q : Rel(e) \in r
  BY DEF Relative
<1> HIDE DEF r
<1>6. \A x \in r : x.pid \in P
  BY <1>4 DEF Queue
<1>7. ASSUME NEW p \in P PROVE \E x \in r : x.pid = p
  <2>1. PICK e \in q : e.pid = p
    BY DEF Queue
  <2>2. Rel(e) \in r /\ Rel(e).pid = p
    BY <1>5, <2>1
  <2> QED BY <2>2
<1>8. \A x, y \in r : x.pid = y.pid => x = y
  BY <1>4 DEF Queue
<1>9. \A x, y \in r : x.vr - y.vr =< 2 * NiceMax
  <2> SUFFICES ASSUME NEW e \in q, NEW f \in q
               PROVE  Rel(e).vr - Rel(f).vr =< 2 * NiceMax
    BY <1>4
  <2>1. e.vr \in Nat /\ f.vr \in Nat /\ b.vr \in Nat
    BY <1>1 DEF Entries
  <2>2. e.vr - f.vr =< 2 * NiceMax
    BY DEF Queue
  <2>3. NiceMax \in Nat
    BY SchedulerAssumption
  <2> QED BY <2>1, <2>2, <2>3
<1> QED BY <1>3, <1>6, <1>7, <1>8, <1>9 DEF Queue, r

(* A new task that gets the smallest vruntime leaves a queue. *)
LEMMA EnqueuedQueue ==
  ASSUME NEW q, NEW P, Queue(q, P), NEW b \in q, \A e \in q : b.vr =< e.vr,
         NEW pid \in Pids, pid \notin P
  PROVE  Queue(q \cup {[vr |-> b.vr, pid |-> pid]}, P \cup {pid})
<1> DEFINE n == [vr |-> b.vr, pid |-> pid]
           r == q \cup {n}
<1>1. \A e \in q : e \in Entries /\ e.vr \in Nat /\ e.pid \in P
  BY DEF Queue, Entries
<1>2. n \in Entries /\ n.vr = b.vr /\ n.pid = pid
  BY <1>1 DEF Entries
<1> HIDE DEF n
<1>3. \A e, f \in r : e.pid = f.pid => e = f
  BY <1>1, <1>2 DEF Queue
<1>4. \A e, f \in r : e.vr - f.vr =< 2 * NiceMax
  <2> SUFFICES ASSUME NEW e \in r, NEW f \in r PROVE e.vr - f.vr =< 2 * NiceMax
    OBVIOUS
  <2>1. NiceMax \in Nat
    BY SchedulerAssumption
  <2>2. b.vr - f.vr =< 0 /\ f.vr \in Nat /\ e.vr \in Nat
    BY <1>1, <1>2
  <2>3. CASE e = n
    BY <2>1, <2>2, <2>3, <1>2
  <2>4. CASE e \in q
    <3>1. CASE f \in q
      BY <2>4, <3>1 DEF Queue
    <3>2. CASE f = n
      <4>1. e.vr - b.vr =< 2 * NiceMax
        BY <2>4 DEF Queue
      <4> QED BY <4>1, <3>2, <1>2
    <3> QED BY <3>1, <3>2
  <2> QED BY <2>3, <2>4
<1>5. r \subseteq Entries
  BY <1>1, <1>2
<1>6. \A e \in r : e.pid \in P \cup {pid}
  BY <1>1, <1>2
<1>7. \A p \in P \cup {pid} : \E e \in r : e.pid = p
  BY <1>2 DEF Queue
<1> QED BY <1>3, <1>4, <1>5, <1>6, <1>7 DEF Queue, n

(* The first entry pays for a turn; the queue stays a queue. *)
LEMMA TurnQueue ==
  ASSUME NEW q, NEW P, Queue(q, P), NEW b \in q, \A e \in q : b.vr =< e.vr,
         NEW c \in Nat, c =< 2 * NiceMax
  PROVE  Queue((q \ {b}) \cup {[vr |-> b.vr + c, pid |-> b.pid]}, P)
<1> DEFINE n == [vr |-> b.vr + c, pid |-> b.pid]
           r == (q \ {b}) \cup {n}
<1>1. \A e \in q : e \in Entries /\ e.vr \in Nat /\ e.pid \in P
  BY DEF Queue, Entries
<1>2. n \in Entries /\ n.vr = b.vr + c /\ n.pid = b.pid
  BY <1>1 DEF Entries
<1> HIDE DEF n
<1>3. \A e, f \in r : e.pid = f.pid => e = f
  BY <1>1, <1>2 DEF Queue
<1>4. \A e, f \in r : e.vr - f.vr =< 2 * NiceMax
  <2> SUFFICES ASSUME NEW e \in r, NEW f \in r PROVE e.vr - f.vr =< 2 * NiceMax
    OBVIOUS
  <2>1. NiceMax \in Nat
    BY SchedulerAssumption
  <2>2. b.vr =< f.vr /\ b.vr =< e.vr /\ f.vr \in Nat /\ e.vr \in Nat /\ b.vr \in Nat
    BY <1>1, <1>2
  <2>3. CASE e = n
    BY <2>1, <2>2, <2>3, <1>2
  <2>4. CASE e \in q
    <3>1. CASE f \in q
      BY <2>4, <3>1 DEF Queue
    <3>2. CASE f = n
      <4>1. e.vr - b.vr =< 2 * NiceMax
        BY <2>4 DEF Queue
      <4>2. f.vr = b.vr + c
        BY <3>2, <1>2
      <4> QED BY <4>1, <4>2, <2>1, <2>2
    <3> QED BY <3>1, <3>2
  <2> QED BY <2>3, <2>4
<1>5. r \subseteq Entries
  BY <1>1, <1>2
<1>6. \A e \in r : e.pid \in P
  BY <1>1, <1>2
<1>7. ASSUME NEW p \in P PROVE \E e \in r : e.pid = p
  <2>1. PICK e \in q : e.pid = p
    BY DEF Queue
  <2>2. e \in r \/ (n \in r /\ n.pid = p)
    BY <1>2, <2>1
  <2> QED BY <2>1, <2>2
<1> QED BY <1>3, <1>4, <1>5, <1>6, <1>7 DEF Queue, n

(* retain: the queue without the entry of a killed task *)
LEMMA RetainedQueue ==
  ASSUME NEW q, NEW P, Queue(q, P), NEW pid
  PROVE  Queue({e \in q : e.pid # pid}, P \ {pid})
BY DEF Queue

-----------------------------------------------------------------------------
(* The tasks are typed and have at most the stack and the segments. *)
TasksOK(ts, max) ==
    /\ DOMAIN ts \subseteq 0..max
    /\ \A p \in DOMAIN ts :
         /\ ts[p] \in TaskType
         /\ Len(ts[p].page_allocs) =< Len(Segments) + 1

TypeInv == TypeOK /\ TasksOK(tasks, max_pid)

(* page_allocs as create_from_elf builds it *)
Created(pid) ==
    <<Alloc(<<pid, 1>>, <<pid, 1>>, "write")>> \o
    [i \in DOMAIN Segments |-> Alloc(NoFrame, <<pid, i + 1>>, Segments[i])]

LEMMA CreatedType ==
  ASSUME NEW pid \in Pids
  PROVE  Created(pid) \in Seq(AllocType) /\ Len(Created(pid)) = Len(Segments) + 1
<1> DEFINE first == Alloc(<<pid, 1>>, <<pid, 1>>, "write")
           rest == [i \in DOMAIN Segments |-> Alloc(NoFrame, <<pid, i + 1>>, Segments[i])]
<1>1. Segments \in Seq({"exec", "write", "read"}) /\ Len(Segments) \in Nat
      /\ DOMAIN Segments = 1..Len(Segments) /\ MaxPid \in Nat
  BY SchedulerAssumption
<1>2. NoFrame \in Frames /\ <<pid, 1>> \in Frames
  BY <1>1 DEF NoFrame, Frames, Pids
<1>3. first \in AllocType
  BY <1>2 DEF Alloc, AllocType
<1>4. ASSUME NEW i \in DOMAIN Segments
      PROVE  Alloc(NoFrame, <<pid, i + 1>>, Segments[i]) \in AllocType
  <2>1. <<pid, i + 1>> \in Frames
    BY <1>1 DEF Frames
  <2>2. Segments[i] \in {"exec", "write", "read"}
    BY <1>1
  <2> QED BY <1>2, <2>1, <2>2 DEF Alloc, AllocType
<1>5. rest \in Seq(AllocType) /\ Len(rest) = Len(Segments)
  BY <1>1, <1>4
<1> HIDE DEF first, rest
<1>6. <<first>> \in Seq(AllocType) /\ Len(<<first>>) = 1
  BY <1>3
<1>7. <<first>> \o rest \in Seq(AllocType) /\ Len(<<first>> \o rest) = 1 + Len(Segments)
  BY <1>5, <1>6
<1> QED BY <1>1, <1>7 DEF Created, first, rest

LEMMA ForkedType ==
  ASSUME NEW pid \in Pids, NEW allocs \in Seq(AllocType),
         Len(allocs) =< Len(Segments) + 1
  PROVE  /\ Forked(allocs, pid) \in Seq(AllocType)
         /\ Len(Forked(allocs, pid)) = Len(allocs)
<1>1. Len(Segments) \in Nat /\ Len(allocs) \in Nat /\ DOMAIN allocs = 1..Len(allocs)
  BY SchedulerAssumption
<1>2. ASSUME NEW i \in DOMAIN allocs
      PROVE  [allocs[i] EXCEPT !.p_page = <<pid, i>>] \in AllocType /\ allocs[i] \in AllocType
  <2>1. allocs[i] \in AllocType
    OBVIOUS
  <2>2. <<pid, i>> \in Frames
    BY <1>1 DEF Frames
  <2> QED BY <2>1, <2>2 DEF AllocType
<1> QED BY <1>1, <1>2 DEF Forked

(* The blocks of a typed page_allocs are blocks. *)
LEMMA FramesOfType ==
  ASSUME NEW allocs \in Seq(AllocType)
  PROVE  FramesOf(allocs) \subseteq Frames
<1>1. \A i \in DOMAIN allocs : allocs[i] \in AllocType
  OBVIOUS
<1>2. \A a \in AllocType : a.p_page \in Frames
  BY DEF AllocType
<1> QED BY <1>1, <1>2 DEF FramesOf

(* The pids given out are pids. *)
LEMMA PidBounds ==
  ASSUME TypeOK
  PROVE  /\ max_pid \in Nat /\ max_pid =< MaxPid /\ DOMAIN tasks \subseteq 0..max_pid
         /\ DOMAIN tasks \subseteq Pids
<1>1. max_pid \in Pids /\ DOMAIN tasks \subseteq 0..max_pid
  BY DEF TypeOK
<1> QED BY <1>1, SchedulerAssumption DEF Pids

LEMMA TypeInit == Init => TypeInv
<1> SUFFICES ASSUME Init PROVE TypeInv
  OBVIOUS
<1>1. MaxPid \in Nat /\ NiceMin \in Int /\ NiceMax \in Nat /\ NiceMin =< 0 /\ Len(Segments) \in Nat
  BY SchedulerAssumption
<1>2. NewTask(NiceDefault, 0, << >>) \in TaskType /\ Len(<< >>) = 0
  BY <1>1 DEF NewTask, NiceDefault, TaskType, None, Progress
<1>3. DOMAIN tasks = {KERNEL_PID} /\ tasks[KERNEL_PID] = NewTask(NiceDefault, 0, << >>)
  BY DEF Init
<1>4. tasks[KERNEL_PID].page_allocs = << >>
  BY <1>3 DEF NewTask
<1>5. TasksOK(tasks, max_pid)
  BY <1>1, <1>2, <1>3, <1>4 DEF TasksOK, Init, KERNEL_PID
<1>6. vruntime \subseteq Entries /\ max_pid \in Pids /\ current_pid \in Pids
  BY <1>1 DEF Init, Entries, Pids, KERNEL_PID
<1>7. root \in [Pids -> Pids] /\ mem \in [Pids -> Progress] /\ work \in [Pids -> Progress]
  BY DEF Init, Progress
<1>8. frames \subseteq Frames /\ ctx \in Progress /\ pc = "run"
  BY DEF Init, Progress
<1>9. lost \in BOOLEAN
  BY Zenon DEF Init
<1> QED BY <1>5, <1>6, <1>7, <1>8, <1>9 DEF TypeInv, TypeOK, TasksOK

(* With keeps the table typed. *)
LEMMA WithType ==
  ASSUME TypeInv, NEW pid \in Pids, NEW t \in TaskType,
         Len(t.page_allocs) =< Len(Segments) + 1, NEW max \in Pids,
         max_pid =< max, pid =< max
  PROVE  TasksOK(With(pid, t), max) /\ DOMAIN With(pid, t) = DOMAIN tasks \cup {pid}
<1>1. max_pid \in Nat /\ max \in Nat /\ pid \in Nat
  BY SchedulerAssumption DEF TypeInv, TypeOK, Pids
<1>2. DOMAIN tasks \cup {pid} \subseteq 0..max
  BY <1>1 DEF TypeInv, TypeOK
<1> QED BY <1>2 DEF With, TasksOK, TypeInv

(* Saved is a task. *)
LEMMA SavedType ==
  ASSUME TypeInv, current_pid \in DOMAIN tasks
  PROVE  /\ Saved \in TaskType
         /\ Saved.page_allocs = tasks[current_pid].page_allocs
         /\ Saved.next_schedule = tasks[current_pid].next_schedule
         /\ Saved.nice = tasks[current_pid].nice
         /\ Saved.context = ctx
<1>1. tasks[current_pid] \in TaskType /\ ctx \in Progress
  BY DEF TypeInv, TypeOK
<1> QED BY <1>1 DEF Saved, TaskType

(* What a new task inherits *)
LEMMA NewTaskType ==
  ASSUME NEW nice \in NiceMin..NiceMax, NEW context \in Progress,
         NEW allocs \in Seq(AllocType)
  PROVE  /\ NewTask(nice, context, allocs) \in TaskType
         /\ NewTask(nice, context, allocs).page_allocs = allocs
         /\ NewTask(nice, context, allocs).context = context
         /\ NewTask(nice, context, allocs).next_schedule = None
BY DEF NewTask, TaskType

-----------------------------------------------------------------------------
(* The inductive invariant of the run queue. *)
QueueInv ==
    /\ TypeInv
    /\ Queue(vruntime, DOMAIN tasks)
    /\ pc = "run" => current_pid \in DOMAIN tasks
    /\ pc = "no_task" => DOMAIN tasks = {}

LEMMA QueueInit == Init => QueueInv
<1> SUFFICES ASSUME Init PROVE QueueInv
  OBVIOUS
<1>1. vruntime = {[vr |-> 0, pid |-> KERNEL_PID]} /\ DOMAIN tasks = {KERNEL_PID}
      /\ current_pid = KERNEL_PID
  BY DEF Init
<1>2. vruntime \subseteq Entries /\ NiceMax \in Nat
  BY TypeInit, SchedulerAssumption DEF TypeInv, TypeOK
<1>3. Queue(vruntime, DOMAIN tasks)
  BY <1>1, <1>2 DEF Queue
<1>4. pc = "run"
  BY DEF Init
<1> QED BY <1>1, <1>3, <1>4, TypeInit DEF QueueInv

(* Requeue makes the next queue of whatever was a queue. *)
LEMMA RequeueQueue ==
  ASSUME NEW q, NEW P, Queue(q, P), Requeue(q)
  PROVE  Queue(vruntime', P)
<1>1. CASE q = {} /\ vruntime' = {}
  BY <1>1
<1>2. ASSUME NEW b \in q, IsFirst(b, q), vruntime' = Relative(q, b)
      PROVE  Queue(vruntime', P)
  <2>1. \A e \in q : b.vr =< e.vr
    BY <1>2, FirstIsLeast DEF Queue
  <2> QED BY <1>2, <2>1, RelativeQueue
<1> QED BY <1>1, <1>2 DEF Requeue, Relative

LEMMA EnqueueQueue ==
  ASSUME Queue(vruntime, DOMAIN tasks), NEW pid \in Pids, pid \notin DOMAIN tasks,
         Enqueue(pid)
  PROVE  Queue(vruntime', DOMAIN tasks \cup {pid})
<1>1. PICK b \in vruntime : /\ IsFirst(b, vruntime)
                            /\ vruntime' = vruntime \cup {[vr |-> b.vr, pid |-> pid]}
  BY DEF Enqueue
<1>2. \A e \in vruntime : b.vr =< e.vr
  BY <1>1, FirstIsLeast DEF Queue
<1> QED BY <1>1, <1>2, EnqueuedQueue

(* The next pid is new. *)
LEMMA NextPid ==
  ASSUME TypeInv, max_pid < MaxPid
  PROVE  /\ max_pid + 1 \in Pids /\ max_pid + 1 \notin DOMAIN tasks
         /\ max_pid \in Nat /\ max_pid + 1 # KERNEL_PID
<1>1. max_pid \in Nat /\ MaxPid \in Nat /\ DOMAIN tasks \subseteq 0..max_pid
  BY SchedulerAssumption DEF TypeInv, TypeOK, Pids
<1> QED BY <1>1 DEF Pids, KERNEL_PID

(* What has to be shown of a step, with the unchanged parts typed already.  *)
LEMMA Preserved ==
  ASSUME TasksOK(tasks', max_pid'), Queue(vruntime', DOMAIN tasks'),
         pc' = "run" => current_pid' \in DOMAIN tasks',
         pc' = "no_task" => DOMAIN tasks' = {},
         current_pid' \in Pids, max_pid' \in Pids, frames' \subseteq Frames,
         mem' \in [Pids -> Progress], ctx' \in Progress, work' \in [Pids -> Progress],
         pc' \in {"run", "schedule", "overflow", "fault", "no_task"}, lost' \in BOOLEAN,
         root' \in [Pids -> Pids]
  PROVE  QueueInv'
BY DEF QueueInv, TypeInv, TypeOK, TasksOK, Queue

LEMMA NoneQueue == QueueInv /\ schedule_none => QueueInv'
<1> SUFFICES ASSUME QueueInv, schedule_none PROVE QueueInv'
  OBVIOUS
<1>1. DOMAIN tasks = {}
  BY DEF QueueInv, Queue, schedule_none
<1> QED BY <1>1, Preserved DEF schedule_none, QueueInv, TypeInv, TypeOK

LEMMA ScheduleQueue == QueueInv /\ schedule => QueueInv'
<1> SUFFICES ASSUME QueueInv, schedule PROVE QueueInv'
  OBVIOUS
<1> USE DEF QueueInv, TypeInv, TypeOK
<1>1. PICK e \in vruntime :
        /\ IsFirst(e, vruntime)
        /\ current_pid' = e.pid
        /\ IF Cost(tasks[e.pid].nice) < 0
           THEN pc' = "overflow" /\ UNCHANGED <<tasks, vruntime, ctx>>
           ELSE /\ Requeue((vruntime \ {e}) \cup
                     {[vr |-> e.vr + Cost(tasks[e.pid].nice), pid |-> e.pid]})
                /\ tasks' = IF tasks[e.pid].next_schedule =< 0
                            THEN [tasks EXCEPT ![e.pid].next_schedule = None] ELSE tasks
                /\ ctx' = IF tasks[e.pid].next_schedule =< 0
                          THEN tasks[e.pid].context ELSE ctx
                /\ pc' = IF tasks[e.pid].next_schedule =< 0 THEN "run" ELSE "schedule"
  BY DEF schedule
<1>2. e.pid \in DOMAIN tasks /\ e.pid \in Pids
  <2>1. DOMAIN tasks \subseteq Pids
    BY SchedulerAssumption DEF Pids
  <2> QED BY <2>1 DEF Queue
<1>3. tasks[e.pid] \in TaskType
  BY <1>2
<1>4. UNCHANGED <<max_pid, frames, mem, work, lost, root>>
  BY DEF schedule
<1>5. tasks[e.pid].context \in Progress /\ tasks[e.pid].nice \in NiceMin..NiceMax
  BY <1>3 DEF TaskType
<1>6. CASE Cost(tasks[e.pid].nice) < 0
  <2>1. tasks' = tasks /\ vruntime' = vruntime /\ ctx' = ctx /\ pc' = "overflow"
    BY <1>1, <1>6
  <2> QED BY <2>1, <1>1, <1>2, <1>4, Preserved
<1>7. CASE ~(Cost(tasks[e.pid].nice) < 0)
  <2>1. Cost(tasks[e.pid].nice) \in Nat /\ Cost(tasks[e.pid].nice) =< 2 * NiceMax
    BY <1>5, <1>7, SchedulerAssumption DEF Cost
  <2>2. \A f \in vruntime : e.vr =< f.vr
    BY <1>1, FirstIsLeast
  <2> DEFINE q == (vruntime \ {e}) \cup
                    {[vr |-> e.vr + Cost(tasks[e.pid].nice), pid |-> e.pid]}
  <2>3. Queue(q, DOMAIN tasks)
    BY <2>1, <2>2, TurnQueue
  <2>4. Requeue(q)
    BY <1>1, <1>7
  <2> HIDE DEF q
  <2>5. Queue(vruntime', DOMAIN tasks)
    BY <2>3, <2>4, RequeueQueue
  <2>6. [tasks[e.pid] EXCEPT !.next_schedule = None] \in TaskType
    BY <1>3 DEF TaskType, None
  <2>7. /\ DOMAIN tasks' = DOMAIN tasks
        /\ \A p \in DOMAIN tasks :
             \/ tasks'[p] = tasks[p]
             \/ p = e.pid /\ tasks'[p] = [tasks[e.pid] EXCEPT !.next_schedule = None]
    BY <1>1, <1>2, <1>7
  <2>8. [tasks[e.pid] EXCEPT !.next_schedule = None].page_allocs = tasks[e.pid].page_allocs
    BY <1>3 DEF TaskType
  <2>9. TasksOK(tasks', max_pid')
    BY <2>6, <2>7, <2>8, <1>4 DEF TasksOK
  <2>10. ctx' \in Progress /\ pc' \in {"run", "schedule"}
    BY <1>1, <1>5, <1>7
  <2> QED BY <2>5, <2>7, <2>9, <2>10, <1>1, <1>2, <1>4, Preserved
<1> QED BY <1>6, <1>7

(* switch_task and syscall_sleep store a task with the same blocks. *)
LEMMA StoreQueue ==
  ASSUME QueueInv, pc = "run", NEW t \in TaskType,
         t.page_allocs = tasks[current_pid].page_allocs, tasks' = With(current_pid, t),
         pc' = "schedule",
         UNCHANGED <<vruntime, current_pid, max_pid, frames, mem, ctx, work, lost, root>>
  PROVE  QueueInv'
<1>1. /\ TypeInv /\ max_pid \in Pids /\ max_pid =< max_pid
      /\ current_pid \in DOMAIN tasks /\ current_pid \in Pids /\ current_pid =< max_pid
  BY PidBounds DEF QueueInv, TypeInv, TypeOK
<1>2. Len(t.page_allocs) =< Len(Segments) + 1
  BY <1>1 DEF TasksOK, TypeInv
<1>3. TasksOK(tasks', max_pid) /\ DOMAIN tasks' = DOMAIN tasks \cup {current_pid}
  BY <1>1, <1>2, WithType
<1>4. DOMAIN tasks' = DOMAIN tasks
  BY <1>1, <1>3
<1> QED BY <1>3, <1>4, Preserved DEF QueueInv, TypeInv, TypeOK

LEMMA SwitchQueue == QueueInv /\ switch_task => QueueInv'
<1> SUFFICES ASSUME QueueInv, switch_task PROVE QueueInv'
  OBVIOUS
<1>1. Saved \in TaskType /\ Saved.page_allocs = tasks[current_pid].page_allocs
  BY SavedType DEF QueueInv, switch_task
<1> QED BY <1>1, StoreQueue DEF switch_task

LEMMA SleepQueue == \A d \in Sleeps : QueueInv /\ syscall_sleep(d) => QueueInv'
<1> SUFFICES ASSUME NEW d \in Sleeps, QueueInv, syscall_sleep(d) PROVE QueueInv'
  OBVIOUS
<1>1. Saved \in TaskType /\ Saved.page_allocs = tasks[current_pid].page_allocs
  BY SavedType DEF QueueInv, syscall_sleep, UserRuns
<1>2. d \in Nat
  BY SchedulerAssumption
<1>3. /\ [Saved EXCEPT !.next_schedule = d] \in TaskType
      /\ [Saved EXCEPT !.next_schedule = d].page_allocs = tasks[current_pid].page_allocs
  BY <1>1, <1>2 DEF TaskType
<1> QED BY <1>3, StoreQueue DEF syscall_sleep, UserRuns

LEMMA CreateQueue == QueueInv /\ create_from_elf => QueueInv'
<1> SUFFICES ASSUME QueueInv, create_from_elf PROVE QueueInv'
  OBVIOUS
<1> DEFINE pid == max_pid + 1
           t == NewTask(tasks[current_pid].nice, 0, Created(pid))
<1>1. /\ pc = "run" /\ max_pid < MaxPid /\ max_pid' = pid
      /\ tasks' = With(pid, t) /\ Enqueue(pid)
      /\ frames' = frames \cup FramesOf(Created(pid))
      /\ root' = [root EXCEPT ![pid] = pid]
      /\ UNCHANGED <<current_pid, mem, ctx, pc, work, lost>>
  BY DEF create_from_elf, Created
<1>2. TypeInv /\ current_pid \in DOMAIN tasks
  BY <1>1 DEF QueueInv
<1>3. pid \in Pids /\ pid \notin DOMAIN tasks /\ max_pid =< pid /\ pid =< pid
  BY <1>1, <1>2, NextPid
<1>4. tasks[current_pid].nice \in NiceMin..NiceMax
  BY <1>2 DEF TypeInv, TypeOK, TaskType
<1>5. Created(pid) \in Seq(AllocType) /\ Len(Created(pid)) =< Len(Segments) + 1
  BY <1>3, CreatedType, SchedulerAssumption
<1>6. t \in TaskType /\ t.page_allocs = Created(pid)
  BY <1>4, <1>5, NewTaskType DEF Progress
<1> HIDE DEF pid, t
<1>7. TasksOK(tasks', max_pid') /\ DOMAIN tasks' = DOMAIN tasks \cup {pid}
  BY <1>1, <1>2, <1>3, <1>5, <1>6, WithType
<1>8. Queue(vruntime', DOMAIN tasks \cup {pid})
  BY <1>1, <1>3, EnqueueQueue DEF QueueInv
<1>9. frames' \subseteq Frames
  BY <1>1, <1>2, <1>5, FramesOfType DEF TypeInv, TypeOK
<1>10. root' \in [Pids -> Pids] /\ pc' # "no_task"
  BY <1>1, <1>2, <1>3 DEF TypeInv, TypeOK
<1> QED BY <1>1, <1>2, <1>3, <1>7, <1>8, <1>9, <1>10, Preserved DEF QueueInv, TypeInv, TypeOK

(* What the syscall fork does when no copy faults. *)
ForkStep(pid, child, v) ==
    /\ max_pid < MaxPid /\ pid = max_pid + 1 /\ max_pid' = pid
    /\ child = NewTask(tasks[current_pid].nice, ctx,
                       Forked(tasks[current_pid].page_allocs, pid))
    /\ tasks' = [p \in DOMAIN tasks \cup {pid} |->
                   IF p = pid THEN child
                   ELSE IF p = current_pid THEN Saved ELSE tasks[p]]
    /\ Enqueue(pid)
    /\ frames' = frames \cup FramesOf(Forked(tasks[current_pid].page_allocs, pid))
    /\ v \in Progress
    /\ mem' = [mem EXCEPT ![pid] = v]
    /\ work' = [work EXCEPT ![pid] = work[current_pid]]
    /\ lost' \in BOOLEAN
    /\ root' = [root EXCEPT ![pid] = root[current_pid]]
    /\ pc' = "schedule"

ForkFault ==
    /\ pc' = "fault"
    /\ UNCHANGED <<tasks, vruntime, max_pid, frames, mem, work, lost, root>>

LEMMA ForkCases ==
  ASSUME fork, lost \in BOOLEAN
  PROVE  /\ pc = "run" /\ current_pid # KERNEL_PID
         /\ UNCHANGED <<current_pid, ctx>>
         /\ ForkFault \/ \E pid, child, v : ForkStep(pid, child, v)
<1> DEFINE pid == max_pid + 1
           parent == tasks[current_pid]
           source == parent.page_allocs[1].linear
           child == NewTask(parent.nice, ctx, Forked(parent.page_allocs, pid))
<1>1. /\ UserRuns /\ max_pid < MaxPid /\ UNCHANGED <<current_pid, ctx>>
      /\ \/ ForkFault
         \/ /\ max_pid' = pid
            /\ tasks' = [p \in DOMAIN tasks \cup {pid} |->
                           IF p = pid THEN child
                           ELSE IF p = current_pid THEN Saved ELSE tasks[p]]
            /\ Enqueue(pid)
            /\ frames' = frames \cup FramesOf(Forked(parent.page_allocs, pid))
            /\ \E v \in Progress :
                 /\ source \in frames => v = mem[source[1]]
                 /\ mem' = [mem EXCEPT ![pid] = v]
            /\ work' = [work EXCEPT ![pid] = work[current_pid]]
            /\ lost' = (lost \/ source # parent.page_allocs[1].p_page)
            /\ root' = [root EXCEPT ![pid] = root[current_pid]]
            /\ pc' = "schedule"
  BY Zenon DEF fork, ForkFault
<1>2. CASE ForkFault
  BY <1>1, <1>2 DEF UserRuns
<1>3. CASE ~ForkFault
  <2>1. PICK v \in Progress : mem' = [mem EXCEPT ![pid] = v]
    BY <1>1, <1>3
  <2>2. lost' \in BOOLEAN
    BY <1>1, <1>3
  <2>3. ForkStep(pid, child, v)
    BY <1>1, <1>3, <2>1, <2>2, Zenon DEF ForkStep
  <2> QED BY <1>1, <2>3 DEF UserRuns
<1> QED BY <1>2, <1>3

LEMMA ForkQueue == QueueInv /\ fork => QueueInv'
<1> SUFFICES ASSUME QueueInv, fork PROVE QueueInv'
  OBVIOUS
<1>1. /\ TypeInv /\ current_pid \in DOMAIN tasks /\ current_pid' = current_pid
      /\ ctx' = ctx /\ ctx \in Progress /\ current_pid \in Pids
      /\ ForkFault \/ \E pid, child, v : ForkStep(pid, child, v)
  BY ForkCases DEF QueueInv, TypeInv, TypeOK
<1>2. CASE ForkFault
  BY <1>1, <1>2, Preserved DEF ForkFault, QueueInv, TypeInv, TypeOK
<1>3. ASSUME NEW pid, NEW child, NEW v, ForkStep(pid, child, v)
      PROVE  QueueInv'
  <2> DEFINE allocs == tasks[current_pid].page_allocs
  <2>1. pid \in Pids /\ pid \notin DOMAIN tasks /\ max_pid \in Nat /\ pid = max_pid + 1
    BY <1>1, <1>3, NextPid DEF ForkStep
  <2>2. /\ allocs \in Seq(AllocType) /\ tasks[current_pid].nice \in NiceMin..NiceMax
        /\ Len(allocs) =< Len(Segments) + 1
    BY <1>1 DEF TypeInv, TasksOK, TaskType
  <2>3. /\ Forked(allocs, pid) \in Seq(AllocType)
        /\ Len(Forked(allocs, pid)) =< Len(Segments) + 1
    BY <2>1, <2>2, ForkedType
  <2>4. child \in TaskType /\ child.page_allocs = Forked(allocs, pid)
    BY <1>1, <1>3, <2>2, <2>3, NewTaskType DEF ForkStep
  <2>5. Saved \in TaskType /\ Saved.page_allocs = allocs
    BY <1>1, SavedType
  <2>6. /\ DOMAIN tasks' = DOMAIN tasks \cup {pid}
        /\ \A p \in DOMAIN tasks' :
             \/ p = pid /\ tasks'[p] = child
             \/ p = current_pid /\ tasks'[p] = Saved
             \/ p \in DOMAIN tasks /\ tasks'[p] = tasks[p]
    BY <1>3 DEF ForkStep
  <2>7. DOMAIN tasks' \subseteq 0..max_pid'
    BY <2>1, <2>6, <1>1, <1>3 DEF ForkStep, TypeInv, TypeOK
  <2> HIDE DEF allocs
  <2>8. TasksOK(tasks', max_pid')
    BY <1>1, <2>2, <2>3, <2>4, <2>5, <2>6, <2>7 DEF TasksOK, TypeInv
  <2>9. Queue(vruntime', DOMAIN tasks')
    BY <1>3, <2>1, <2>6, EnqueueQueue DEF QueueInv, ForkStep
  <2>10. frames' \subseteq Frames
    BY <1>1, <1>3, <2>3, FramesOfType DEF ForkStep, TypeInv, TypeOK, allocs
  <2>11. mem' \in [Pids -> Progress] /\ work' \in [Pids -> Progress]
    BY <1>1, <1>3 DEF ForkStep, TypeInv, TypeOK
  <2>12. /\ pc' = "schedule" /\ max_pid' \in Pids
         /\ lost' \in BOOLEAN /\ root' \in [Pids -> Pids]
    BY <1>1, <1>3, <2>1 DEF ForkStep, TypeInv, TypeOK
  <2> QED BY <1>1, <2>8, <2>9, <2>10, <2>11, <2>12, Preserved
<1> QED BY <1>1, <1>2, <1>3

LEMMA KillQueue == QueueInv /\ kill => QueueInv'
<1> SUFFICES ASSUME QueueInv, kill PROVE QueueInv'
  OBVIOUS
<1>1. DOMAIN tasks' = DOMAIN tasks \ {current_pid}
      /\ \A p \in DOMAIN tasks' : tasks'[p] = tasks[p]
  BY DEF kill
<1>2. Queue(vruntime', DOMAIN tasks')
  BY <1>1, RetainedQueue, RequeueQueue DEF kill, QueueInv
<1>3. TasksOK(tasks', max_pid')
  BY <1>1 DEF kill, QueueInv, TypeInv, TasksOK
<1>4. frames' \subseteq Frames /\ pc' = "schedule"
  BY <1>1 DEF kill, QueueInv, TypeInv, TypeOK
<1> QED BY <1>2, <1>3, <1>4, Preserved DEF kill, QueueInv, TypeInv, TypeOK

LEMMA ReniceQueue == \A pid, nice : QueueInv /\ renice(pid, nice) => QueueInv'
<1> SUFFICES ASSUME NEW pid, NEW nice, QueueInv, renice(pid, nice) PROVE QueueInv'
  OBVIOUS
<1>1. tasks[pid] \in TaskType /\ nice \in NiceMin..NiceMax
  BY DEF renice, QueueInv, TypeInv, TypeOK
<1>2. /\ [tasks[pid] EXCEPT !.nice = nice] \in TaskType
      /\ [tasks[pid] EXCEPT !.nice = nice].page_allocs = tasks[pid].page_allocs
  BY <1>1 DEF TaskType
<1>3. /\ DOMAIN tasks' = DOMAIN tasks
      /\ \A p \in DOMAIN tasks :
           \/ tasks'[p] = tasks[p]
           \/ p = pid /\ tasks'[p] = [tasks[pid] EXCEPT !.nice = nice]
  BY DEF renice
<1>4. TasksOK(tasks', max_pid')
  BY <1>2, <1>3 DEF TasksOK, QueueInv, TypeInv, renice
<1> QED BY <1>3, <1>4, Preserved DEF renice, QueueInv, TypeInv, TypeOK

LEMMA UserQueue == QueueInv /\ user_runs => QueueInv'
<1> SUFFICES ASSUME QueueInv, user_runs PROVE QueueInv'
  OBVIOUS
<1>1. \A w \in Progress : Advance(w) \in Progress
  BY DEF Advance, Progress
<1>2. /\ mem' \in [Pids -> Progress] /\ work' \in [Pids -> Progress]
      /\ ctx' \in Progress
  BY <1>1 DEF user_runs, QueueInv, TypeInv, TypeOK
<1> QED BY <1>2, Preserved DEF user_runs, QueueInv, TypeInv, TypeOK

LEMMA TimeQueue == QueueInv /\ time_passes => QueueInv'
<1> SUFFICES ASSUME QueueInv, time_passes PROVE QueueInv'
  OBVIOUS
<1>1. \A p \in DOMAIN tasks : tasks[p] \in TaskType
  BY DEF QueueInv, TypeInv, TypeOK
<1>2. ASSUME NEW p \in Asleep
      PROVE  LET t == [tasks[p] EXCEPT !.next_schedule = @ - 1]
             IN  t \in TaskType /\ t.page_allocs = tasks[p].page_allocs
  BY <1>1 DEF Asleep, TaskType, None
<1>3. /\ DOMAIN tasks' = DOMAIN tasks
      /\ \A p \in DOMAIN tasks :
           \/ tasks'[p] = tasks[p]
           \/ p \in Asleep /\ tasks'[p] = [tasks[p] EXCEPT !.next_schedule = @ - 1]
  BY DEF time_passes
<1>4. TasksOK(tasks', max_pid')
  BY <1>2, <1>3 DEF TasksOK, QueueInv, TypeInv, time_passes
<1> QED BY <1>3, <1>4, Preserved DEF time_passes, QueueInv, TypeInv, TypeOK

LEMMA QueueStep == QueueInv /\ [Next]_vars => QueueInv'
<1> SUFFICES ASSUME QueueInv, [Next]_vars PROVE QueueInv'
  OBVIOUS
<1>1. CASE Next
  BY <1>1, ScheduleQueue, NoneQueue, SwitchQueue, SleepQueue, CreateQueue, ForkQueue,
     KillQueue, ReniceQueue, UserQueue, TimeQueue DEF Next
<1>2. CASE UNCHANGED vars
  BY <1>2, Preserved DEF vars, QueueInv, TypeInv, TypeOK
<1> QED BY <1>1, <1>2

LEMMA QueueAlways == Spec => []QueueInv
BY QueueInit, QueueStep, PTL DEF Spec

(* TypeOK holds for every program and every range of nice: task table, run  *)
(* queue and blocks stay well formed through fork and kill.                *)
THEOREM TypeCorrect == Spec => []TypeOK
<1>1. QueueInv => TypeOK
  BY DEF QueueInv, TypeInv
<1> QED BY <1>1, QueueAlways, PTL

(* The run queue has exactly one entry per task: schedule never forgets a   *)
(* task, and it fails only when there is none left.                        *)
THEOREM QueueCorrect == Spec => []RunQueue
<1>1. ASSUME QueueInv PROVE RunQueue
  <2>1. \A p : p \in {e.pid : e \in vruntime} <=> p \in DOMAIN tasks
    BY <1>1 DEF QueueInv, Queue
  <2> QED BY <1>1, <2>1 DEF QueueInv, Queue, RunQueue
<1> QED BY <1>1, QueueAlways, PTL

(* No two tasks are ever further apart in vruntime than the dearest turn.   *)
THEOREM SpreadBounded == Spec => []Spread
<1>1. QueueInv => Spread
  BY DEF QueueInv, Queue, Spread
<1> QED BY <1>1, QueueAlways, PTL

-----------------------------------------------------------------------------
(* Resumed needs of the queue that what runs is a task, and that a pid not  *)
(* given out yet has no history.                                           *)
Fresh == \A p \in Pids : p > max_pid => work[p] = 0

ResumedInv == QueueInv /\ Resumed /\ Fresh

LEMMA ResumedInit == Init => ResumedInv
<1> SUFFICES ASSUME Init PROVE ResumedInv
  OBVIOUS
<1>1. /\ DOMAIN tasks = {KERNEL_PID} /\ tasks[KERNEL_PID].next_schedule = None
      /\ ctx = 0 /\ current_pid = KERNEL_PID /\ work[KERNEL_PID] = 0 /\ pc = "run"
  BY SchedulerAssumption DEF Init, NewTask, KERNEL_PID, Pids
<1>2. Fresh
  BY DEF Init, Fresh
<1> QED BY <1>1, <1>2, QueueInit DEF ResumedInv, Resumed

(* The registers in the trap frame are those of the running task. *)
LEMMA RunningContext ==
  ASSUME ResumedInv, pc = "run"
  PROVE  /\ current_pid \in DOMAIN tasks /\ ctx = work[current_pid]
         /\ tasks[current_pid].next_schedule = None
         /\ \A p \in DOMAIN tasks : p # current_pid => tasks[p].context = work[p]
BY DEF ResumedInv, QueueInv, Resumed

LEMMA ScheduleResumes == ResumedInv /\ schedule => Resumed'
<1> SUFFICES ASSUME ResumedInv, schedule PROVE Resumed'
  OBVIOUS
<1>1. PICK e \in vruntime :
        /\ current_pid' = e.pid
        /\ \/ pc' = "overflow" /\ tasks' = tasks
           \/ /\ tasks[e.pid].next_schedule =< 0
              /\ tasks' = [tasks EXCEPT ![e.pid].next_schedule = None]
              /\ ctx' = tasks[e.pid].context /\ pc' = "run"
           \/ tasks' = tasks /\ pc' = "schedule"
  BY DEF schedule
<1>2. pc = "schedule" /\ work' = work
  BY DEF schedule
<1>3. \A p \in DOMAIN tasks : tasks[p].context = work[p] /\ tasks[p] \in TaskType
  BY <1>2 DEF ResumedInv, Resumed, QueueInv, TypeInv, TypeOK
<1>4. e.pid \in DOMAIN tasks
  BY DEF ResumedInv, QueueInv, Queue
<1>5. CASE tasks' = tasks /\ pc' \in {"overflow", "schedule"}
  BY <1>2, <1>3, <1>5 DEF Resumed
<1>6. CASE /\ tasks' = [tasks EXCEPT ![e.pid].next_schedule = None]
           /\ ctx' = tasks[e.pid].context /\ pc' = "run"
  <2>1. /\ [tasks[e.pid] EXCEPT !.next_schedule = None].next_schedule = None
        /\ tasks[e.pid].context = work[e.pid]
    BY <1>3, <1>4 DEF TaskType
  <2>2. /\ DOMAIN tasks' = DOMAIN tasks
        /\ tasks'[e.pid] = [tasks[e.pid] EXCEPT !.next_schedule = None]
        /\ \A p \in DOMAIN tasks : p # e.pid => tasks'[p] = tasks[p]
    BY <1>4, <1>6
  <2> QED BY <1>1, <1>2, <1>3, <1>6, <2>1, <2>2 DEF Resumed
<1> QED BY <1>1, <1>5, <1>6

(* A step that stores the registers of the running task resumes correctly. *)
LEMMA StoreResumes ==
  ASSUME ResumedInv, pc = "run", NEW t, t.context = ctx,
         tasks' = With(current_pid, t), pc' = "schedule", work' = work
  PROVE  Resumed'
<1>1. /\ DOMAIN tasks' = DOMAIN tasks /\ tasks'[current_pid] = t
      /\ \A p \in DOMAIN tasks : p # current_pid => tasks'[p] = tasks[p]
  BY RunningContext DEF With
<1> QED BY <1>1, RunningContext DEF Resumed

LEMMA CreateResumes == ResumedInv /\ create_from_elf => Resumed' /\ Fresh'
<1> SUFFICES ASSUME ResumedInv, create_from_elf PROVE Resumed' /\ Fresh'
  OBVIOUS
<1>1. PICK pid, t : /\ pid = max_pid + 1 /\ max_pid < MaxPid /\ max_pid' = pid
                    /\ t.context = 0
                    /\ tasks' = With(pid, t)
  BY DEF create_from_elf, NewTask
<1>2. pc = "run" /\ UNCHANGED <<current_pid, ctx, pc, work>>
  BY DEF create_from_elf
<1>3. pid \in Pids /\ pid \notin DOMAIN tasks /\ max_pid \in Nat
  BY <1>1, NextPid DEF ResumedInv, QueueInv
<1>4. work[pid] = 0
  BY <1>1, <1>3 DEF ResumedInv, Fresh
<1>5. /\ DOMAIN tasks' = DOMAIN tasks \cup {pid} /\ tasks'[pid] = t
      /\ \A p \in DOMAIN tasks : tasks'[p] = tasks[p]
  BY <1>1, <1>3 DEF With
<1>6. Resumed'
  BY <1>1, <1>2, <1>3, <1>4, <1>5, RunningContext DEF Resumed
<1>7. Fresh'
  BY <1>1, <1>2, <1>3 DEF ResumedInv, Fresh, Pids
<1> QED BY <1>6, <1>7

LEMMA ForkResumes == ResumedInv /\ fork => Resumed' /\ Fresh'
<1> SUFFICES ASSUME ResumedInv, fork PROVE Resumed' /\ Fresh'
  OBVIOUS
<1>1. /\ TypeInv /\ pc = "run" /\ current_pid' = current_pid /\ ctx' = ctx
      /\ current_pid \in DOMAIN tasks
      /\ ForkFault \/ \E pid, child, v : ForkStep(pid, child, v)
  BY ForkCases, RunningContext DEF ResumedInv, QueueInv, TypeInv, TypeOK
<1>2. CASE ForkFault
  <2>1. Resumed'
    BY <1>1, <1>2, RunningContext DEF ForkFault, Resumed
  <2>2. Fresh'
    BY <1>2 DEF ForkFault, ResumedInv, Fresh
  <2> QED BY <2>1, <2>2
<1>3. ASSUME NEW pid, NEW child, NEW v, ForkStep(pid, child, v)
      PROVE  Resumed' /\ Fresh'
  <2>1. pid \in Pids /\ pid \notin DOMAIN tasks /\ max_pid \in Nat /\ pid = max_pid + 1
    BY <1>1, <1>3, NextPid DEF ForkStep
  <2>2. child.context = ctx
    BY <1>3 DEF ForkStep, NewTask
  <2>3. Saved.context = ctx
    BY <1>1, SavedType
  <2>4. /\ DOMAIN tasks' = DOMAIN tasks \cup {pid} /\ tasks'[pid] = child
        /\ tasks'[current_pid] = Saved
        /\ \A p \in DOMAIN tasks : p # current_pid => tasks'[p] = tasks[p]
    BY <1>1, <1>3, <2>1 DEF ForkStep
  <2>5. work \in [Pids -> Progress] /\ DOMAIN tasks \subseteq Pids
    BY <1>1, PidBounds DEF TypeInv, TypeOK
  <2>6. /\ work'[pid] = work[current_pid]
        /\ \A p \in Pids : p # pid => work'[p] = work[p]
    BY <1>3, <2>1, <2>5 DEF ForkStep
  <2>7. Resumed'
    <3> SUFFICES ASSUME NEW p \in DOMAIN tasks' PROVE tasks'[p].context = work'[p]
      BY <1>3 DEF Resumed, ForkStep
    <3>1. CASE p = pid
      BY <3>1, <2>2, <2>4, <2>6, <1>1, RunningContext
    <3>2. CASE p = current_pid
      BY <3>2, <2>1, <2>3, <2>4, <2>5, <2>6, <1>1, RunningContext
    <3>3. CASE p # pid /\ p # current_pid
      <4>1. p \in DOMAIN tasks /\ tasks'[p] = tasks[p] /\ work'[p] = work[p]
        BY <3>3, <2>4, <2>5, <2>6
      <4> QED BY <4>1, <3>3, <1>1, RunningContext
    <3> QED BY <3>1, <3>2, <3>3
  <2>8. Fresh'
    <3>1. max_pid' = pid
      BY <1>3 DEF ForkStep
    <3> QED BY <2>1, <2>6, <3>1 DEF ResumedInv, Fresh, Pids
  <2> QED BY <2>7, <2>8
<1> QED BY <1>1, <1>2, <1>3

LEMMA ResumedStep == ResumedInv /\ [Next]_vars => ResumedInv'
<1> SUFFICES ASSUME ResumedInv, [Next]_vars PROVE ResumedInv'
  OBVIOUS
<1>1. QueueInv'
  BY QueueStep DEF ResumedInv
<1>2. /\ work \in [Pids -> Progress] /\ DOMAIN tasks \subseteq 0..max_pid
      /\ max_pid \in Nat /\ \A p \in DOMAIN tasks : tasks[p] \in TaskType /\ p \in Pids
  BY PidBounds DEF ResumedInv, QueueInv, TypeInv, TypeOK
<1>3. CASE schedule
  <2>1. Resumed'
    BY <1>3, ScheduleResumes
  <2>2. Fresh'
    BY <1>3 DEF schedule, Fresh, ResumedInv
  <2> QED BY <1>1, <2>1, <2>2 DEF ResumedInv
<1>13. CASE schedule_none
  <2>1. Resumed' /\ Fresh'
    BY <1>13 DEF schedule_none, Resumed, Fresh, ResumedInv
  <2> QED BY <1>1, <2>1 DEF ResumedInv
<1>4. ASSUME NEW d \in Sleeps, syscall_sleep(d)
      PROVE  ResumedInv'
  <2>1. pc = "run" /\ pc' = "schedule" /\ work' = work /\ max_pid' = max_pid
    BY <1>4 DEF syscall_sleep, UserRuns
  <2>2. Saved.context = ctx /\ Saved \in TaskType
    BY <2>1, RunningContext, SavedType DEF ResumedInv, QueueInv
  <2>3. [Saved EXCEPT !.next_schedule = d].context = ctx
    BY <2>2 DEF TaskType
  <2>4. \E t : t.context = ctx /\ tasks' = With(current_pid, t)
    BY <1>4, <2>3 DEF syscall_sleep
  <2>5. Resumed'
    BY <2>1, <2>4, StoreResumes
  <2>6. Fresh'
    BY <2>1 DEF Fresh, ResumedInv
  <2> QED BY <1>1, <2>5, <2>6 DEF ResumedInv
<1>5. CASE switch_task
  <2>1. pc = "run" /\ pc' = "schedule" /\ work' = work /\ max_pid' = max_pid
        /\ tasks' = With(current_pid, Saved)
    BY <1>5 DEF switch_task
  <2>2. Saved.context = ctx
    BY <2>1, RunningContext, SavedType DEF ResumedInv, QueueInv
  <2>3. Resumed'
    BY <2>1, <2>2, StoreResumes
  <2>4. Fresh'
    BY <2>1 DEF Fresh, ResumedInv
  <2> QED BY <1>1, <2>3, <2>4 DEF ResumedInv
<1>6. CASE create_from_elf
  BY <1>1, <1>6, CreateResumes DEF ResumedInv
<1>7. CASE fork
  BY <1>1, <1>7, ForkResumes DEF ResumedInv
<1>8. CASE kill
  <2>1. /\ pc = "run" /\ pc' = "schedule" /\ work' = work /\ max_pid' = max_pid
        /\ DOMAIN tasks' = DOMAIN tasks \ {current_pid}
        /\ \A p \in DOMAIN tasks' : tasks'[p] = tasks[p]
    BY <1>8 DEF kill
  <2>2. Resumed' /\ Fresh'
    BY <2>1, RunningContext DEF Resumed, Fresh, ResumedInv
  <2> QED BY <1>1, <2>2 DEF ResumedInv
<1>9. ASSUME NEW p \in Reniced, NEW n \in Nices, renice(p, n)
      PROVE  ResumedInv'
  <2>1. /\ pc = "run" /\ UNCHANGED <<pc, work, max_pid, ctx, current_pid>>
        /\ p \in DOMAIN tasks /\ DOMAIN tasks' = DOMAIN tasks
        /\ tasks'[p] = [tasks[p] EXCEPT !.nice = n]
        /\ \A q \in DOMAIN tasks : q # p => tasks'[q] = tasks[q]
    BY <1>9 DEF renice
  <2>2. /\ [tasks[p] EXCEPT !.nice = n].context = tasks[p].context
        /\ [tasks[p] EXCEPT !.nice = n].next_schedule = tasks[p].next_schedule
    BY <2>1, <1>2 DEF TaskType
  <2>3. Resumed' /\ Fresh'
    BY <2>1, <2>2, RunningContext DEF Resumed, Fresh, ResumedInv
  <2> QED BY <1>1, <2>3 DEF ResumedInv
<1>10. CASE user_runs
  <2>1. /\ pc = "run" /\ UNCHANGED <<pc, tasks, max_pid, current_pid>>
        /\ ctx' = Advance(ctx) /\ work' = [work EXCEPT ![current_pid] = Advance(@)]
        /\ current_pid \in DOMAIN tasks
    BY <1>10, RunningContext DEF user_runs, UserRuns
  <2>2. /\ work'[current_pid] = Advance(work[current_pid])
        /\ \A p \in Pids : p # current_pid => work'[p] = work[p]
    BY <2>1, <1>2
  <2>3. Resumed'
    BY <2>1, <2>2, <1>2, RunningContext DEF Resumed
  <2>4. Fresh'
    BY <2>1, <2>2, <1>2 DEF Fresh, ResumedInv, Pids
  <2> QED BY <1>1, <2>3, <2>4 DEF ResumedInv
<1>11. CASE time_passes
  <2>1. /\ UNCHANGED <<pc, work, max_pid, ctx, current_pid>>
        /\ DOMAIN tasks' = DOMAIN tasks
        /\ \A p \in DOMAIN tasks :
             tasks'[p] = IF p \in Asleep THEN [tasks[p] EXCEPT !.next_schedule = @ - 1]
                         ELSE tasks[p]
    BY <1>11 DEF time_passes
  <2>2. \A p \in DOMAIN tasks : tasks'[p].context = tasks[p].context
    BY <2>1, <1>2 DEF TaskType
  <2>3. \A p \in DOMAIN tasks : tasks[p].next_schedule = None => tasks'[p] = tasks[p]
    BY <2>1 DEF Asleep, None
  <2>4. Resumed' /\ Fresh'
    BY <2>1, <2>2, <2>3 DEF Resumed, Fresh, ResumedInv
  <2> QED BY <1>1, <2>4 DEF ResumedInv
<1>12. CASE UNCHANGED vars
  <2>1. Resumed' /\ Fresh'
    BY <1>12 DEF vars, Resumed, Fresh, ResumedInv
  <2> QED BY <1>1, <2>1 DEF ResumedInv
<1> QED BY <1>3, <1>4, <1>5, <1>6, <1>7, <1>8, <1>9, <1>10, <1>11, <1>12, <1>13 DEF Next

(* Whatever is forked, killed or asleep, a task resumes with the registers  *)
(* it was interrupted with, and never before its wake-up time.             *)
THEOREM ResumesCorrectly == Spec => []Resumed
<1>1. ResumedInv => Resumed
  BY DEF ResumedInv
<1> QED BY <1>1, ResumedInit, ResumedStep, PTL DEF Spec

-----------------------------------------------------------------------------
(* Private follows from where a block comes from: the i-th block of a task  *)
(* was allocated as the i-th block of some task, all i-th blocks have the   *)
(* same flags, and a block that can be written is the task's own.          *)
FlagAt(i) == IF i = 1 THEN "write" ELSE Segments[i - 1]

Shaped(p, allocs) ==
    \A i \in DOMAIN allocs :
      /\ allocs[i].p_page[2] = i
      /\ allocs[i].flags = FlagAt(i)
      /\ allocs[i].flags = "write" => allocs[i].p_page[1] = p

Shape == \A p \in DOMAIN tasks : Shaped(p, tasks[p].page_allocs)

LEMMA CreatedShape ==
  ASSUME NEW pid
  PROVE  Shaped(pid, Created(pid))
<1> DEFINE first == Alloc(<<pid, 1>>, <<pid, 1>>, "write")
           rest == [i \in DOMAIN Segments |-> Alloc(NoFrame, <<pid, i + 1>>, Segments[i])]
           all == <<first>> \o rest
<1>1. DOMAIN Segments = 1..Len(Segments) /\ Len(Segments) \in Nat
  BY SchedulerAssumption
<1>2. \A i \in 1..Len(Segments) : rest[i] = Alloc(NoFrame, <<pid, i + 1>>, Segments[i])
  BY <1>1
<1>3. /\ DOMAIN all = 1..(Len(Segments) + 1)
      /\ all[1] = first
      /\ \A i \in 2..(Len(Segments) + 1) : all[i] = rest[i - 1]
  <2>1. rest \in Seq({rest[i] : i \in 1..Len(Segments)}) /\ Len(rest) = Len(Segments)
    BY <1>1
  <2> HIDE DEF first, rest, all
  <2>2. /\ DOMAIN (<<first>> \o rest) = 1..(Len(Segments) + 1)
        /\ (<<first>> \o rest)[1] = first
        /\ \A i \in 2..(Len(Segments) + 1) : (<<first>> \o rest)[i] = rest[i - 1]
    BY <2>1, <1>1
  <2> QED BY <2>2 DEF all
<1> HIDE DEF rest, all
<1>4. SUFFICES ASSUME NEW i \in 1..(Len(Segments) + 1)
               PROVE  /\ all[i].p_page[2] = i
                      /\ all[i].flags = FlagAt(i)
                      /\ all[i].flags = "write" => all[i].p_page[1] = pid
  BY <1>3 DEF Shaped, Created, rest, all
<1>5. CASE i = 1
  BY <1>3, <1>5 DEF Alloc, FlagAt
<1>6. CASE i # 1
  <2>1. all[i] = Alloc(NoFrame, <<pid, (i - 1) + 1>>, Segments[i - 1])
    BY <1>1, <1>2, <1>3, <1>6
  <2>2. (i - 1) + 1 = i /\ FlagAt(i) = Segments[i - 1]
    BY <1>1, <1>6 DEF FlagAt
  <2>3. all[i] = [linear |-> NoFrame, p_page |-> <<pid, i>>, flags |-> FlagAt(i)]
    BY <2>1, <2>2 DEF Alloc
  <2> QED BY <2>3
<1> QED BY <1>5, <1>6

LEMMA ForkedShape ==
  ASSUME NEW p, NEW pid, NEW allocs \in Seq(AllocType), Shaped(p, allocs)
  PROVE  Shaped(pid, Forked(allocs, pid))
<1> SUFFICES ASSUME NEW i \in DOMAIN allocs
             PROVE  LET a == Forked(allocs, pid)[i]
                    IN  /\ a.p_page[2] = i /\ a.flags = FlagAt(i)
                        /\ a.flags = "write" => a.p_page[1] = pid
  BY DEF Shaped, Forked
<1>1. allocs[i] \in AllocType
  OBVIOUS
<1>2. CASE allocs[i].flags = "write"
  <2>1. Forked(allocs, pid)[i] = [allocs[i] EXCEPT !.p_page = <<pid, i>>]
    BY <1>2 DEF Forked
  <2> QED BY <1>1, <1>2, <2>1 DEF AllocType, Shaped
<1>3. CASE allocs[i].flags # "write"
  BY <1>3 DEF Forked, Shaped
<1> QED BY <1>2, <1>3

ShapeInv == QueueInv /\ Shape

(* A step that makes no task leaves the blocks of the tasks as they were. *)
LEMMA SameAllocs ==
  ASSUME QueueInv, Next, ~create_from_elf, ~fork
  PROVE  /\ DOMAIN tasks' \subseteq DOMAIN tasks
         /\ \A p \in DOMAIN tasks' : tasks'[p].page_allocs = tasks[p].page_allocs
<1>1. \A p \in DOMAIN tasks : tasks[p] \in TaskType
  BY DEF QueueInv, TypeInv, TypeOK
<1>2. \A t \in TaskType : \A x :
        /\ [t EXCEPT !.next_schedule = x].page_allocs = t.page_allocs
        /\ [t EXCEPT !.nice = x].page_allocs = t.page_allocs
  BY DEF TaskType
<1>3. CASE schedule
  <2>1. PICK pid : tasks' = tasks \/ tasks' = [tasks EXCEPT ![pid].next_schedule = None]
    BY <1>3 DEF schedule
  <2>2. /\ DOMAIN tasks' = DOMAIN tasks
        /\ \A p \in DOMAIN tasks :
             \/ tasks'[p] = tasks[p]
             \/ tasks'[p] = [tasks[p] EXCEPT !.next_schedule = None]
    BY <2>1
  <2> QED BY <2>2, <1>1 DEF TaskType
<1>4. CASE switch_task
  <2>1. current_pid \in DOMAIN tasks /\ tasks' = With(current_pid, Saved)
    BY <1>4 DEF switch_task, QueueInv
  <2> QED BY <2>1, SavedType DEF With, QueueInv
<1>5. ASSUME NEW d \in Sleeps, syscall_sleep(d)
      PROVE  /\ DOMAIN tasks' \subseteq DOMAIN tasks
             /\ \A p \in DOMAIN tasks' : tasks'[p].page_allocs = tasks[p].page_allocs
  <2>1. /\ current_pid \in DOMAIN tasks
        /\ tasks' = With(current_pid, [Saved EXCEPT !.next_schedule = d])
    BY <1>5 DEF syscall_sleep, UserRuns, QueueInv
  <2>2. [Saved EXCEPT !.next_schedule = d].page_allocs = tasks[current_pid].page_allocs
    BY <2>1, <1>2, SavedType DEF QueueInv
  <2> QED BY <2>1, <2>2 DEF With
<1>6. CASE kill
  BY <1>6 DEF kill
<1>7. ASSUME NEW p \in Reniced, NEW n \in Nices, renice(p, n)
      PROVE  /\ DOMAIN tasks' \subseteq DOMAIN tasks
             /\ \A q \in DOMAIN tasks' : tasks'[q].page_allocs = tasks[q].page_allocs
  <2>1. tasks' = [tasks EXCEPT ![p].nice = n]
    BY <1>7 DEF renice
  <2> QED BY <2>1, <1>1, <1>2
<1>8. CASE user_runs
  BY <1>8 DEF user_runs
<1>9. CASE time_passes
  <2>1. /\ DOMAIN tasks' = DOMAIN tasks
        /\ \A p \in DOMAIN tasks :
             \/ tasks'[p] = tasks[p]
             \/ tasks'[p] = [tasks[p] EXCEPT !.next_schedule = tasks[p].next_schedule - 1]
    BY <1>9 DEF time_passes
  <2> QED BY <2>1, <1>1 DEF TaskType
<1>10. CASE schedule_none
  BY <1>10 DEF schedule_none
<1> QED BY <1>3, <1>4, <1>5, <1>6, <1>7, <1>8, <1>9, <1>10 DEF Next

LEMMA ShapeStep == ShapeInv /\ [Next]_vars => ShapeInv'
<1> SUFFICES ASSUME ShapeInv, [Next]_vars PROVE ShapeInv'
  OBVIOUS
<1>1. QueueInv' /\ QueueInv
  BY QueueStep DEF ShapeInv
<1>2. CASE create_from_elf
  <2>1. PICK pid, t : /\ t.page_allocs = Created(pid) /\ tasks' = With(pid, t)
    BY <1>2 DEF create_from_elf, Created, NewTask
  <2>2. \A p \in DOMAIN tasks' : \/ p = pid /\ tasks'[p] = t
                                 \/ p \in DOMAIN tasks /\ tasks'[p] = tasks[p]
    BY <2>1 DEF With
  <2> QED BY <1>1, <2>1, <2>2, CreatedShape DEF ShapeInv, Shape
<1>3. CASE fork
  <2>1. /\ current_pid \in DOMAIN tasks
        /\ ForkFault \/ \E pid, child, v : ForkStep(pid, child, v)
    BY <1>1, <1>3, ForkCases DEF QueueInv, TypeInv, TypeOK
  <2>2. CASE ForkFault
    BY <1>1, <2>2 DEF ForkFault, ShapeInv, Shape
  <2>3. ASSUME NEW pid, NEW child, NEW v, ForkStep(pid, child, v)
        PROVE  ShapeInv'
    <3> DEFINE allocs == tasks[current_pid].page_allocs
    <3>1. child.page_allocs = Forked(allocs, pid)
      BY <2>3 DEF ForkStep, NewTask
    <3>2. Saved.page_allocs = allocs
      BY <1>1, <2>1, SavedType DEF QueueInv
    <3>3. allocs \in Seq(AllocType)
      BY <1>1, <2>1 DEF QueueInv, TypeInv, TypeOK, TaskType
    <3>4. \A p \in DOMAIN tasks' :
            \/ p = pid /\ tasks'[p] = child
            \/ p = current_pid /\ tasks'[p] = Saved
            \/ p \in DOMAIN tasks /\ tasks'[p] = tasks[p]
      BY <2>3 DEF ForkStep
    <3>5. Shaped(current_pid, allocs)
      BY <2>1 DEF ShapeInv, Shape
    <3>6. Shaped(pid, child.page_allocs)
      BY <3>1, <3>3, <3>5, ForkedShape
    <3>7. Shape'
      BY <3>2, <3>4, <3>5, <3>6 DEF ShapeInv, Shape
    <3> QED BY <1>1, <3>7 DEF ShapeInv
  <2> QED BY <2>1, <2>2, <2>3
<1>4. CASE Next /\ ~create_from_elf /\ ~fork
  BY <1>1, <1>4, SameAllocs DEF ShapeInv, Shape
<1>5. CASE UNCHANGED vars
  BY <1>1, <1>5 DEF vars, ShapeInv, Shape
<1> QED BY <1>2, <1>3, <1>4, <1>5

LEMMA ShapeInit == Init => ShapeInv
<1> SUFFICES ASSUME Init PROVE Shape
  BY QueueInit DEF ShapeInv
<1>1. DOMAIN tasks = {KERNEL_PID} /\ tasks[KERNEL_PID].page_allocs = << >>
  BY DEF Init, NewTask
<1> QED BY <1>1 DEF Shape, Shaped

-----------------------------------------------------------------------------
(* What the owners of a block are *)
Owners(f) ==
    {pi \in Pids \X (1..(Len(Segments) + 1)) :
       /\ pi[1] \in DOMAIN tasks
       /\ pi[2] \in DOMAIN tasks[pi[1]].page_allocs
       /\ tasks[pi[1]].page_allocs[pi[2]].p_page = f}

Held(f, p) == f \in FramesOf(tasks[p].page_allocs)

(* A task that holds a block counts once in its strong_count. *)
LEMMA OwnersOf ==
  ASSUME ShapeInv, NEW f
  PROVE  /\ \A pi \in Owners(f) : /\ pi[1] \in DOMAIN tasks /\ pi[2] = f[2]
                                  /\ pi = <<pi[1], pi[2]>> /\ Held(f, pi[1])
         /\ \A p \in DOMAIN tasks : Held(f, p) => <<p, f[2]>> \in Owners(f)
<1>1. ASSUME NEW pi \in Owners(f)
      PROVE  /\ pi[1] \in DOMAIN tasks /\ pi[2] = f[2]
             /\ pi = <<pi[1], pi[2]>> /\ Held(f, pi[1])
  <2>1. /\ pi[1] \in DOMAIN tasks /\ pi[2] \in DOMAIN tasks[pi[1]].page_allocs
        /\ tasks[pi[1]].page_allocs[pi[2]].p_page = f /\ pi = <<pi[1], pi[2]>>
    BY DEF Owners
  <2> QED BY <2>1 DEF Held, FramesOf, ShapeInv, Shape, Shaped
<1>2. ASSUME NEW p \in DOMAIN tasks, Held(f, p)
      PROVE  <<p, f[2]>> \in Owners(f)
  <2>1. PICK i \in DOMAIN tasks[p].page_allocs : tasks[p].page_allocs[i].p_page = f
    BY <1>2 DEF Held, FramesOf
  <2>2. f[2] = i
    BY <2>1 DEF ShapeInv, Shape, Shaped
  <2>3. /\ tasks[p].page_allocs \in Seq(AllocType) /\ p \in Pids
        /\ Len(tasks[p].page_allocs) =< Len(Segments) + 1
    BY SchedulerAssumption DEF ShapeInv, QueueInv, TypeInv, TypeOK, TasksOK, TaskType, Pids
  <2>4. i \in 1..(Len(Segments) + 1)
    BY <2>3, SchedulerAssumption
  <2> QED BY <2>1, <2>2, <2>3, <2>4 DEF Owners
<1> QED BY <1>1, <1>2

(* strong_count is one exactly for the blocks that no other task holds. *)
LEMMA LastOwner ==
  ASSUME ShapeInv, NEW c \in DOMAIN tasks, NEW f, Held(f, c)
  PROVE  strong_count(f) = 1 <=> \A p \in DOMAIN tasks : Held(f, p) => p = c
<1>1. IsFiniteSet(Owners(f))
  <2>1. IsFiniteSet(Pids) /\ IsFiniteSet(1..(Len(Segments) + 1))
    BY FS_Interval, SchedulerAssumption DEF Pids
  <2>2. IsFiniteSet(Pids \X (1..(Len(Segments) + 1)))
    BY <2>1, FS_Product
  <2> QED BY <2>2, FS_Subset DEF Owners
<1>2. strong_count(f) = Cardinality(Owners(f))
  BY DEF strong_count, Owners
<1>3. <<c, f[2]>> \in Owners(f)
  BY OwnersOf
<1>4. strong_count(f) = 1 <=> \E x : Owners(f) = {x}
  BY <1>1, <1>2, FS_Singleton
<1>5. ASSUME NEW x, Owners(f) = {x}, NEW p \in DOMAIN tasks, Held(f, p)
      PROVE  p = c
  <2>1. <<p, f[2]>> = <<c, f[2]>>
    BY <1>3, <1>5, OwnersOf
  <2> QED BY <2>1
<1>6. ASSUME \A p \in DOMAIN tasks : Held(f, p) => p = c
      PROVE  Owners(f) = {<<c, f[2]>>}
  BY <1>3, <1>6, OwnersOf
<1> QED BY <1>4, <1>5, <1>6

(* FramesExact is inductive with the shape of the tasks. *)
FrameInv == ShapeInv /\ FramesExact

LEMMA KillFrames == FrameInv /\ kill => FramesExact'
<1> SUFFICES ASSUME FrameInv, kill PROVE FramesExact'
  OBVIOUS
<1>1. /\ DOMAIN tasks' = DOMAIN tasks \ {current_pid}
      /\ \A p \in DOMAIN tasks' : tasks'[p] = tasks[p]
      /\ frames' = frames \ Dropped(current_pid) /\ current_pid \in DOMAIN tasks
  BY DEF kill, FrameInv, ShapeInv, QueueInv
<1>2. \A f : f \in frames <=> \E p \in DOMAIN tasks : Held(f, p)
  BY DEF FrameInv, FramesExact, Held
<1>3. \A f : f \in Dropped(current_pid) <=> Held(f, current_pid) /\ strong_count(f) = 1
  BY DEF Dropped, Held
<1>4. ASSUME NEW f
      PROVE  f \in frames' <=> \E p \in DOMAIN tasks \ {current_pid} : Held(f, p)
  <2>1. CASE Held(f, current_pid)
    BY <1>1, <1>2, <1>3, <2>1, LastOwner DEF FrameInv
  <2>2. CASE ~Held(f, current_pid)
    BY <1>1, <1>2, <1>3, <2>2
  <2> QED BY <2>1, <2>2
<1>5. \A f, p : p \in DOMAIN tasks' => (Held(f, p) <=> f \in FramesOf(tasks'[p].page_allocs))
  BY <1>1 DEF Held
<1> QED BY <1>1, <1>4, <1>5 DEF FramesExact

(* A step that adds a task, and keeps the blocks of the others *)
LEMMA AddedFrames ==
  ASSUME FramesExact, NEW pid, pid \notin DOMAIN tasks,
         DOMAIN tasks' = DOMAIN tasks \cup {pid},
         \A p \in DOMAIN tasks : tasks'[p].page_allocs = tasks[p].page_allocs,
         frames' = frames \cup FramesOf(tasks'[pid].page_allocs)
  PROVE  FramesExact'
<1>1. \A f : f \in frames <=> \E p \in DOMAIN tasks : f \in FramesOf(tasks[p].page_allocs)
  BY DEF FramesExact
<1>2. \A f : f \in frames' <=> \E p \in DOMAIN tasks' : f \in FramesOf(tasks'[p].page_allocs)
  BY <1>1
<1> QED BY <1>2 DEF FramesExact

(* A step that keeps tasks, blocks and what is allocated *)
LEMMA KeptFrames ==
  ASSUME FramesExact, DOMAIN tasks' = DOMAIN tasks,
         \A p \in DOMAIN tasks : tasks'[p].page_allocs = tasks[p].page_allocs,
         frames' = frames
  PROVE  FramesExact'
<1>1. \A f : f \in frames <=> \E p \in DOMAIN tasks : f \in FramesOf(tasks[p].page_allocs)
  BY DEF FramesExact
<1>2. \A f : f \in frames' <=> \E p \in DOMAIN tasks' : f \in FramesOf(tasks'[p].page_allocs)
  BY <1>1
<1> QED BY <1>2 DEF FramesExact

(* What a step that makes no task and kills none leaves alone *)
LEMMA SameTasks ==
  ASSUME QueueInv, Next, ~create_from_elf, ~fork, ~kill
  PROVE  DOMAIN tasks' = DOMAIN tasks /\ frames' = frames /\ max_pid' = max_pid
         /\ lost' = lost /\ root' = root
<1>1. CASE schedule
  <2>1. PICK pid : tasks' = tasks \/ tasks' = [tasks EXCEPT ![pid].next_schedule = None]
    BY <1>1 DEF schedule
  <2> QED BY <1>1, <2>1 DEF schedule
<1>2. CASE switch_task
  BY <1>2 DEF switch_task, QueueInv, With
<1>3. ASSUME NEW d \in Sleeps, syscall_sleep(d)
      PROVE  DOMAIN tasks' = DOMAIN tasks /\ frames' = frames /\ max_pid' = max_pid
             /\ lost' = lost /\ root' = root
  BY <1>3 DEF syscall_sleep, UserRuns, QueueInv, With
<1>4. ASSUME NEW p \in Reniced, NEW n \in Nices, renice(p, n)
      PROVE  DOMAIN tasks' = DOMAIN tasks /\ frames' = frames /\ max_pid' = max_pid
             /\ lost' = lost /\ root' = root
  BY <1>4 DEF renice
<1>5. CASE user_runs
  BY <1>5 DEF user_runs
<1>6. CASE time_passes
  BY <1>6 DEF time_passes
<1>7. CASE schedule_none
  BY <1>7 DEF schedule_none
<1> QED BY <1>1, <1>2, <1>3, <1>4, <1>5, <1>6, <1>7 DEF Next

(* The task that create_from_elf makes *)
LEMMA CreateCase ==
  ASSUME QueueInv, create_from_elf
  PROVE  \E pid :
           /\ pid = max_pid + 1 /\ pid \in Pids /\ pid \notin DOMAIN tasks
           /\ max_pid' = pid /\ max_pid \in Nat
           /\ DOMAIN tasks' = DOMAIN tasks \cup {pid}
           /\ tasks'[pid].page_allocs = Created(pid)
           /\ \A p \in DOMAIN tasks : tasks'[p] = tasks[p]
           /\ frames' = frames \cup FramesOf(Created(pid))
           /\ root' = [root EXCEPT ![pid] = pid]
           /\ UNCHANGED <<mem, work, lost>>
<1> DEFINE pid == max_pid + 1
           t == NewTask(tasks[current_pid].nice, 0, Created(pid))
<1>1. /\ max_pid < MaxPid /\ max_pid' = pid /\ tasks' = With(pid, t)
      /\ frames' = frames \cup FramesOf(Created(pid))
      /\ root' = [root EXCEPT ![pid] = pid]
      /\ UNCHANGED <<mem, work, lost>>
  BY DEF create_from_elf, Created
<1>2. pid \in Pids /\ pid \notin DOMAIN tasks /\ max_pid \in Nat
  BY <1>1, NextPid DEF QueueInv
<1>3. t.page_allocs = Created(pid)
  BY DEF NewTask
<1> HIDE DEF t
<1>4. /\ DOMAIN tasks' = DOMAIN tasks \cup {pid} /\ tasks'[pid] = t
      /\ \A p \in DOMAIN tasks : tasks'[p] = tasks[p]
  BY <1>1, <1>2 DEF With
<1> QED BY <1>1, <1>2, <1>3, <1>4

(* The task that fork makes *)
LEMMA ForkCase ==
  ASSUME QueueInv, current_pid \in DOMAIN tasks,
         NEW pid, NEW child, NEW v, ForkStep(pid, child, v)
  PROVE  /\ pid = max_pid + 1 /\ pid \in Pids /\ pid \notin DOMAIN tasks
         /\ max_pid' = pid /\ max_pid \in Nat
         /\ DOMAIN tasks' = DOMAIN tasks \cup {pid}
         /\ tasks'[pid].page_allocs = Forked(tasks[current_pid].page_allocs, pid)
         /\ \A p \in DOMAIN tasks : tasks'[p].page_allocs = tasks[p].page_allocs
         /\ frames' = frames \cup FramesOf(Forked(tasks[current_pid].page_allocs, pid))
<1>1. pid \in Pids /\ pid \notin DOMAIN tasks /\ max_pid \in Nat /\ pid = max_pid + 1
  BY NextPid DEF ForkStep, QueueInv
<1>2. child.page_allocs = Forked(tasks[current_pid].page_allocs, pid)
  BY DEF ForkStep, NewTask
<1>3. Saved.page_allocs = tasks[current_pid].page_allocs
  BY SavedType DEF QueueInv
<1>4. /\ DOMAIN tasks' = DOMAIN tasks \cup {pid} /\ tasks'[pid] = child
      /\ tasks'[current_pid] = Saved
      /\ \A p \in DOMAIN tasks : p # current_pid => tasks'[p] = tasks[p]
  BY <1>1 DEF ForkStep
<1> QED BY <1>1, <1>2, <1>3, <1>4 DEF ForkStep

(* The blocks that a task shares were allocated for a task of its descent. *)
Rooted ==
    \A p \in DOMAIN tasks : \A i \in DOMAIN tasks[p].page_allocs :
      LET a == tasks[p].page_allocs[i].p_page[1]
      IN  a \in 0..max_pid /\ root[a] = root[p]

RootInv == ShapeInv /\ Rooted

(* The blocks of a new task were allocated for it or taken over. *)
LEMMA CreatedOwn ==
  ASSUME NEW pid
  PROVE  \A i \in DOMAIN Created(pid) : Created(pid)[i].p_page[1] = pid
<1> DEFINE first == Alloc(<<pid, 1>>, <<pid, 1>>, "write")
           rest == [i \in DOMAIN Segments |-> Alloc(NoFrame, <<pid, i + 1>>, Segments[i])]
<1>1. DOMAIN Segments = 1..Len(Segments) /\ Len(Segments) \in Nat
  BY SchedulerAssumption
<1>2. first.p_page[1] = pid /\ \A i \in 1..Len(Segments) : rest[i].p_page[1] = pid
  BY <1>1 DEF Alloc
<1>3. rest \in Seq({rest[i] : i \in 1..Len(Segments)}) /\ Len(rest) = Len(Segments)
  BY <1>1
<1> HIDE DEF first, rest
<1>4. \A i \in DOMAIN (<<first>> \o rest) :
        \/ (<<first>> \o rest)[i] = first
        \/ \E j \in 1..Len(Segments) : (<<first>> \o rest)[i] = rest[j]
  <2>1. DOMAIN (<<first>> \o rest) = 1..(Len(Segments) + 1)
    BY <1>1, <1>3
  <2>2. (<<first>> \o rest)[1] = first
    BY <1>3
  <2>3. ASSUME NEW i \in 2..(Len(Segments) + 1)
        PROVE  (<<first>> \o rest)[i] = rest[i - 1] /\ i - 1 \in 1..Len(Segments)
    BY <1>1, <1>3
  <2> QED BY <1>1, <2>1, <2>2, <2>3
<1> QED BY <1>2, <1>4 DEF Created, first, rest

LEMMA ForkedOwn ==
  ASSUME NEW pid, NEW allocs \in Seq(AllocType)
  PROVE  /\ DOMAIN Forked(allocs, pid) = DOMAIN allocs
         /\ \A i \in DOMAIN allocs :
              \/ Forked(allocs, pid)[i].p_page[1] = pid
              \/ Forked(allocs, pid)[i].p_page = allocs[i].p_page
<1> SUFFICES ASSUME NEW i \in DOMAIN allocs
             PROVE  \/ Forked(allocs, pid)[i].p_page[1] = pid
                    \/ Forked(allocs, pid)[i].p_page = allocs[i].p_page
  BY DEF Forked
<1>1. allocs[i] \in AllocType
  OBVIOUS
<1>2. [allocs[i] EXCEPT !.p_page = <<pid, i>>].p_page = <<pid, i>>
  BY <1>1 DEF AllocType
<1> QED BY <1>2 DEF Forked

LEMMA RootStep == RootInv /\ [Next]_vars => RootInv'
<1> SUFFICES ASSUME RootInv, [Next]_vars PROVE Rooted'
  BY ShapeStep DEF RootInv
<1>1. /\ QueueInv /\ root \in [Pids -> Pids] /\ max_pid \in Nat /\ max_pid =< MaxPid
      /\ DOMAIN tasks \subseteq 0..max_pid
  BY PidBounds DEF RootInv, ShapeInv, QueueInv, TypeInv, TypeOK
<1>2. \A p \in DOMAIN tasks : \A i \in DOMAIN tasks[p].page_allocs :
        /\ tasks[p].page_allocs[i].p_page[1] \in 0..max_pid
        /\ root[tasks[p].page_allocs[i].p_page[1]] = root[p]
  BY DEF RootInv, Rooted
<1>3. CASE create_from_elf
  <2>1. PICK pid :
          /\ pid = max_pid + 1 /\ pid \in Pids /\ max_pid' = pid
          /\ DOMAIN tasks' = DOMAIN tasks \cup {pid}
          /\ tasks'[pid].page_allocs = Created(pid)
          /\ \A p \in DOMAIN tasks : tasks'[p] = tasks[p]
          /\ root' = [root EXCEPT ![pid] = pid]
    BY <1>1, <1>3, CreateCase
  <2>2. root'[pid] = pid /\ \A a \in 0..max_pid : root'[a] = root[a]
    BY <1>1, <2>1 DEF Pids
  <2>3. \A a \in 0..max_pid : a \in 0..max_pid'
    BY <1>1, <2>1
  <2>4. \A i \in DOMAIN Created(pid) : Created(pid)[i].p_page[1] = pid
    BY CreatedOwn
  <2>5. pid \in 0..max_pid'
    BY <1>1, <2>1
  <2> SUFFICES ASSUME NEW p \in DOMAIN tasks', NEW i \in DOMAIN tasks'[p].page_allocs
               PROVE  /\ tasks'[p].page_allocs[i].p_page[1] \in 0..max_pid'
                      /\ root'[tasks'[p].page_allocs[i].p_page[1]] = root'[p]
    BY DEF Rooted
  <2>6. CASE p = pid
    BY <2>1, <2>2, <2>4, <2>5, <2>6
  <2>7. CASE p \in DOMAIN tasks
    BY <1>1, <1>2, <2>1, <2>2, <2>3, <2>7
  <2> QED BY <2>1, <2>6, <2>7
<1>4. CASE fork
  <2>1. /\ current_pid \in DOMAIN tasks
        /\ ForkFault \/ \E pid, child, v : ForkStep(pid, child, v)
    BY <1>1, <1>4, ForkCases DEF QueueInv, TypeInv, TypeOK
  <2>2. CASE ForkFault
    BY <1>2, <2>2 DEF ForkFault, Rooted
  <2>3. ASSUME NEW pid, NEW child, NEW v, ForkStep(pid, child, v)
        PROVE  Rooted'
    <3> DEFINE allocs == tasks[current_pid].page_allocs
    <3>1. /\ pid = max_pid + 1 /\ pid \in Pids /\ max_pid' = pid
          /\ DOMAIN tasks' = DOMAIN tasks \cup {pid}
          /\ tasks'[pid].page_allocs = Forked(allocs, pid)
          /\ \A p \in DOMAIN tasks : tasks'[p].page_allocs = tasks[p].page_allocs
      BY <1>1, <2>1, <2>3, ForkCase
    <3>2. root' = [root EXCEPT ![pid] = root[current_pid]]
      BY <2>3 DEF ForkStep
    <3>3. root'[pid] = root[current_pid] /\ \A a \in 0..max_pid : root'[a] = root[a]
      BY <1>1, <3>1, <3>2 DEF Pids
    <3>4. pid \in 0..max_pid' /\ \A a \in 0..max_pid : a \in 0..max_pid'
      BY <1>1, <3>1
    <3>5. allocs \in Seq(AllocType)
      BY <1>1, <2>1 DEF QueueInv, TypeInv, TypeOK, TaskType
    <3>6. /\ DOMAIN Forked(allocs, pid) = DOMAIN allocs
          /\ \A i \in DOMAIN allocs : \/ Forked(allocs, pid)[i].p_page[1] = pid
                                      \/ Forked(allocs, pid)[i].p_page = allocs[i].p_page
      BY <3>5, ForkedOwn
    <3>7. \A i \in DOMAIN allocs : /\ allocs[i].p_page[1] \in 0..max_pid
                                   /\ root[allocs[i].p_page[1]] = root[current_pid]
      BY <1>2, <2>1
    <3> HIDE DEF allocs
    <3> SUFFICES ASSUME NEW p \in DOMAIN tasks', NEW i \in DOMAIN tasks'[p].page_allocs
                 PROVE  /\ tasks'[p].page_allocs[i].p_page[1] \in 0..max_pid'
                        /\ root'[tasks'[p].page_allocs[i].p_page[1]] = root'[p]
      BY DEF Rooted
    <3>8. CASE p = pid
      BY <3>1, <3>3, <3>4, <3>6, <3>7, <3>8
    <3>9. CASE p \in DOMAIN tasks
      BY <1>1, <1>2, <3>1, <3>3, <3>4, <3>9
    <3> QED BY <3>1, <3>8, <3>9
  <2> QED BY <2>1, <2>2, <2>3
<1>5. CASE kill
  BY <1>2, <1>5 DEF kill, Rooted
<1>6. CASE Next /\ ~create_from_elf /\ ~fork /\ ~kill
  BY <1>1, <1>2, <1>6, SameAllocs, SameTasks DEF Rooted
<1>7. CASE UNCHANGED vars
  BY <1>2, <1>7 DEF vars, Rooted
<1> QED BY <1>3, <1>4, <1>5, <1>6, <1>7

LEMMA RootInit == Init => RootInv
<1> SUFFICES ASSUME Init PROVE Rooted
  BY ShapeInit DEF RootInv
<1>1. DOMAIN tasks = {KERNEL_PID} /\ tasks[KERNEL_PID].page_allocs = << >>
  BY DEF Init, NewTask
<1> QED BY <1>1 DEF Rooted

(* However tasks fork and die, the page tables let no task store into a     *)
(* block of another, and what copy_to_user writes for a task, whatever the  *)
(* flags of the block, is seen only by tasks of the same program start.     *)
THEOREM Isolation == Spec => []Private
<1>1. ASSUME RootInv PROVE Private
  <2>1. ASSUME NEW p \in DOMAIN tasks, NEW q \in DOMAIN tasks, p # q,
               NEW f \in StoreFrames(p), f \in FramesOf(tasks[q].page_allocs)
        PROVE  FALSE
    <3>1. PICK i \in DOMAIN tasks[p].page_allocs :
            /\ tasks[p].page_allocs[i].p_page = f
            /\ tasks[p].page_allocs[i].flags = "write"
      BY DEF StoreFrames
    <3>2. PICK j \in DOMAIN tasks[q].page_allocs : tasks[q].page_allocs[j].p_page = f
      BY <2>1 DEF FramesOf
    <3>3. f[2] = i /\ f[2] = j /\ f[1] = p
      BY <1>1, <3>1, <3>2 DEF RootInv, ShapeInv, Shape, Shaped
    <3>4. tasks[q].page_allocs[j].flags = "write"
      BY <1>1, <3>1, <3>2, <3>3 DEF RootInv, ShapeInv, Shape, Shaped
    <3> QED BY <1>1, <2>1, <3>2, <3>3, <3>4 DEF RootInv, ShapeInv, Shape, Shaped
  <2>2. ASSUME NEW p \in DOMAIN tasks, NEW q \in DOMAIN tasks,
               NEW f \in CopyFrames(p), f \in FramesOf(tasks[q].page_allocs)
        PROVE  root[p] = root[q]
    <3>1. PICK i \in DOMAIN tasks[p].page_allocs : tasks[p].page_allocs[i].p_page = f
      BY DEF CopyFrames, FramesOf
    <3>2. PICK j \in DOMAIN tasks[q].page_allocs : tasks[q].page_allocs[j].p_page = f
      BY <2>2 DEF FramesOf
    <3> QED BY <1>1, <3>1, <3>2 DEF RootInv, Rooted
  <2> QED BY <2>1, <2>2 DEF Private
<1> QED BY <1>1, RootInit, RootStep, PTL DEF Spec

LEMMA FrameStep == FrameInv /\ [Next]_vars => FrameInv'
<1> SUFFICES ASSUME FrameInv, [Next]_vars PROVE FramesExact'
  BY ShapeStep DEF FrameInv
<1>1. QueueInv /\ FramesExact
  BY DEF FrameInv, ShapeInv
<1>2. CASE create_from_elf
  <2>1. PICK pid :
          /\ pid \notin DOMAIN tasks /\ DOMAIN tasks' = DOMAIN tasks \cup {pid}
          /\ tasks'[pid].page_allocs = Created(pid)
          /\ \A p \in DOMAIN tasks : tasks'[p] = tasks[p]
          /\ frames' = frames \cup FramesOf(Created(pid))
    BY <1>1, <1>2, CreateCase
  <2> QED BY <1>1, <2>1, AddedFrames
<1>3. CASE fork
  <2>1. /\ current_pid \in DOMAIN tasks
        /\ ForkFault \/ \E pid, child, v : ForkStep(pid, child, v)
    BY <1>1, <1>3, ForkCases DEF QueueInv, TypeInv, TypeOK
  <2>2. CASE ForkFault
    BY <1>1, <2>2 DEF ForkFault, FramesExact
  <2>3. ASSUME NEW pid, NEW child, NEW v, ForkStep(pid, child, v)
        PROVE  FramesExact'
    BY <1>1, <2>1, <2>3, ForkCase, AddedFrames
  <2> QED BY <2>1, <2>2, <2>3
<1>4. CASE kill
  BY <1>4, KillFrames
<1>5. CASE Next /\ ~create_from_elf /\ ~fork /\ ~kill
  BY <1>1, <1>5, SameAllocs, SameTasks, KeptFrames
<1>6. CASE UNCHANGED vars
  BY <1>1, <1>6 DEF vars, FramesExact
<1> QED BY <1>2, <1>3, <1>4, <1>5, <1>6

LEMMA FrameInit == Init => FrameInv
<1> SUFFICES ASSUME Init PROVE FramesExact
  BY ShapeInit DEF FrameInv
<1>1. /\ DOMAIN tasks = {KERNEL_PID} /\ tasks[KERNEL_PID].page_allocs = << >>
      /\ frames = {}
  BY DEF Init, NewTask
<1>2. FramesOf(<< >>) = {}
  BY DEF FramesOf
<1> QED BY <1>1, <1>2 DEF FramesExact

(* However blocks are shared by fork, Drop frees each with its last owner:  *)
(* what is allocated is always what the live tasks have.                   *)
THEOREM FramesCorrect == Spec => []FramesExact
<1>1. FrameInv => FramesExact
  BY DEF FrameInv
<1> QED BY <1>1, FrameInit, FrameStep, PTL DEF Spec

-----------------------------------------------------------------------------
(* StackIntact needs that a user task has all its blocks, the stack first,  *)
(* that its stack is still allocated when it is copied, and that the stack  *)
(* of a pid not given out yet is as it was at boot.                        *)
HasStack == \A p \in UserTasks : Len(tasks[p].page_allocs) = Len(Segments) + 1

MemFresh == \A p \in Pids : p > max_pid => mem[p] = 0

StackInv == FrameInv /\ ResumedInv /\ HasStack /\ MemFresh /\ StackIntact

LEMMA StackInit == Init => StackInv
<1> SUFFICES ASSUME Init PROVE HasStack /\ MemFresh /\ StackIntact
  BY FrameInit, ResumedInit DEF StackInv
<1>1. DOMAIN tasks = {KERNEL_PID} /\ mem = [p \in Pids |-> 0]
  BY DEF Init
<1> QED BY <1>1 DEF HasStack, MemFresh, StackIntact, UserTasks

(* The first block of a user task is its own. *)
LEMMA OwnStack ==
  ASSUME StackInv, NEW p \in UserTasks
  PROVE  /\ 1 \in DOMAIN tasks[p].page_allocs
         /\ tasks[p].page_allocs[1].p_page[1] = p
         /\ tasks[p].page_allocs[1].p_page \in frames
         /\ tasks[p].page_allocs \in Seq(AllocType)
<1>1. tasks[p].page_allocs \in Seq(AllocType) /\ p \in DOMAIN tasks
  BY DEF UserTasks, StackInv, FrameInv, ShapeInv, QueueInv, TypeInv, TypeOK, TaskType
<1>2. 1 \in DOMAIN tasks[p].page_allocs
  BY <1>1, SchedulerAssumption DEF StackInv, HasStack
<1>3. tasks[p].page_allocs[1].p_page[1] = p
  BY <1>1, <1>2 DEF StackInv, FrameInv, ShapeInv, Shape, Shaped, FlagAt
<1>4. tasks[p].page_allocs[1].p_page \in frames
  BY <1>1, <1>2 DEF StackInv, FrameInv, FramesExact, FramesOf
<1> QED BY <1>1, <1>2, <1>3, <1>4

(* A copy that is not lost copies the parent's stack. *)
LEMMA ForkCopies ==
  ASSUME StackInv, fork, ~ForkFault, ~lost'
  PROVE  \E pid, child, v : ForkStep(pid, child, v) /\ v = mem[current_pid] /\ ~lost
<1> DEFINE pid == max_pid + 1
           parent == tasks[current_pid]
           source == parent.page_allocs[1].linear
           child == NewTask(parent.nice, ctx, Forked(parent.page_allocs, pid))
<1>1. /\ UserRuns /\ max_pid < MaxPid
      /\ \/ ForkFault
         \/ /\ max_pid' = pid
            /\ tasks' = [p \in DOMAIN tasks \cup {pid} |->
                           IF p = pid THEN child
                           ELSE IF p = current_pid THEN Saved ELSE tasks[p]]
            /\ Enqueue(pid)
            /\ frames' = frames \cup FramesOf(Forked(parent.page_allocs, pid))
            /\ \E v \in Progress :
                 /\ source \in frames => v = mem[source[1]]
                 /\ mem' = [mem EXCEPT ![pid] = v]
            /\ work' = [work EXCEPT ![pid] = work[current_pid]]
            /\ lost' = (lost \/ source # parent.page_allocs[1].p_page)
            /\ root' = [root EXCEPT ![pid] = root[current_pid]]
            /\ pc' = "schedule"
  BY Zenon DEF fork, ForkFault
<1>2. current_pid \in UserTasks
  BY <1>1 DEF UserRuns, UserTasks, StackInv, ResumedInv, QueueInv
<1>3. ~lost /\ source = parent.page_allocs[1].p_page /\ lost' \in BOOLEAN
  BY <1>1
<1>4. source \in frames /\ source[1] = current_pid
  BY <1>2, <1>3, OwnStack
<1>5. PICK v \in Progress : v = mem[current_pid] /\ mem' = [mem EXCEPT ![pid] = v]
  BY <1>1, <1>4
<1>6. ForkStep(pid, child, v)
  BY <1>1, <1>3, <1>5, Zenon DEF ForkStep
<1> QED BY <1>3, <1>5, <1>6

(* A step of which no stack and no program takes notice *)
LEMMA StackKept ==
  ASSUME StackInv, DOMAIN tasks' \subseteq DOMAIN tasks,
         \A p \in DOMAIN tasks' : tasks'[p].page_allocs = tasks[p].page_allocs,
         UNCHANGED <<mem, work, max_pid, lost>>
  PROVE  HasStack' /\ MemFresh' /\ StackIntact'
<1>1. UserTasks' \subseteq UserTasks
  BY DEF UserTasks
<1>2. \A p \in UserTasks' : tasks'[p].page_allocs = tasks[p].page_allocs
  BY DEF UserTasks
<1> QED BY <1>1, <1>2 DEF StackInv, HasStack, MemFresh, StackIntact

LEMMA StackStep == StackInv /\ [Next]_vars => StackInv'
<1> SUFFICES ASSUME StackInv, [Next]_vars PROVE HasStack' /\ MemFresh' /\ StackIntact'
  BY FrameStep, ResumedStep DEF StackInv
<1>1. /\ QueueInv /\ mem \in [Pids -> Progress] /\ work \in [Pids -> Progress]
      /\ DOMAIN tasks \subseteq Pids /\ DOMAIN tasks \subseteq 0..max_pid
      /\ max_pid \in Nat /\ lost \in BOOLEAN /\ current_pid \in Pids
  BY PidBounds DEF StackInv, ResumedInv, QueueInv, TypeInv, TypeOK
<1>2. CASE create_from_elf
  <2>1. PICK pid :
          /\ pid = max_pid + 1 /\ pid \in Pids /\ pid \notin DOMAIN tasks
          /\ max_pid' = pid
          /\ DOMAIN tasks' = DOMAIN tasks \cup {pid}
          /\ tasks'[pid].page_allocs = Created(pid)
          /\ \A p \in DOMAIN tasks : tasks'[p] = tasks[p]
          /\ UNCHANGED <<mem, work, lost>>
    BY <1>1, <1>2, CreateCase
  <2>2. UserTasks' \subseteq UserTasks \cup {pid}
    BY <2>1 DEF UserTasks
  <2>3. Len(Created(pid)) = Len(Segments) + 1
    BY <2>1, CreatedType
  <2>4. HasStack'
    BY <2>1, <2>2, <2>3 DEF HasStack, StackInv, UserTasks
  <2>5. mem[pid] = 0 /\ work[pid] = 0
    BY <1>1, <2>1 DEF StackInv, MemFresh, ResumedInv, Fresh
  <2>6. StackIntact'
    BY <2>1, <2>2, <2>5 DEF StackIntact, StackInv
  <2>7. MemFresh'
    BY <1>1, <2>1 DEF MemFresh, StackInv, Pids
  <2> QED BY <2>4, <2>6, <2>7
<1>3. CASE fork
  <2>1. /\ current_pid \in DOMAIN tasks /\ current_pid # KERNEL_PID
        /\ ForkFault \/ \E pid, child, v : ForkStep(pid, child, v)
    BY <1>1, <1>3, ForkCases DEF QueueInv
  <2>2. CASE ForkFault
    BY <2>2, StackKept DEF ForkFault
  <2>3. ASSUME NEW pid, NEW child, NEW v, ForkStep(pid, child, v)
        PROVE  /\ HasStack' /\ MemFresh'
               /\ v = mem[current_pid] /\ ~lost => \A p \in UserTasks' : mem'[p] = work'[p]
    <3> DEFINE allocs == tasks[current_pid].page_allocs
    <3>1. /\ pid = max_pid + 1 /\ pid \in Pids /\ pid \notin DOMAIN tasks
          /\ max_pid' = pid /\ DOMAIN tasks' = DOMAIN tasks \cup {pid}
          /\ tasks'[pid].page_allocs = Forked(allocs, pid)
          /\ \A p \in DOMAIN tasks : tasks'[p].page_allocs = tasks[p].page_allocs
      BY <1>1, <2>1, <2>3, ForkCase
    <3>2. UserTasks' \subseteq UserTasks \cup {pid} /\ current_pid \in UserTasks
      BY <2>1, <3>1 DEF UserTasks
    <3>3. Len(Forked(allocs, pid)) = Len(Segments) + 1
      <4>1. Len(allocs) = Len(Segments) + 1 /\ allocs \in Seq(AllocType)
        BY <3>2, OwnStack DEF StackInv, HasStack
      <4> QED BY <3>1, <4>1, ForkedType, SchedulerAssumption
    <3>4. HasStack'
      BY <3>1, <3>2, <3>3 DEF HasStack, StackInv, UserTasks
    <3>5. /\ mem' = [mem EXCEPT ![pid] = v]
          /\ work' = [work EXCEPT ![pid] = work[current_pid]]
      BY <2>3 DEF ForkStep
    <3>6. /\ mem'[pid] = v /\ work'[pid] = work[current_pid]
          /\ \A p \in Pids : p # pid => mem'[p] = mem[p] /\ work'[p] = work[p]
      BY <1>1, <3>1, <3>5
    <3>7. MemFresh'
      BY <1>1, <3>1, <3>6 DEF MemFresh, StackInv, Pids
    <3>8. ASSUME v = mem[current_pid], ~lost, NEW p \in UserTasks'
          PROVE  mem'[p] = work'[p]
      <4>1. \A q \in UserTasks : mem[q] = work[q] /\ q \in Pids /\ q # pid
        BY <1>1, <3>1, <3>8 DEF StackInv, StackIntact, UserTasks
      <4> QED BY <3>2, <3>6, <3>8, <4>1
    <3> QED BY <3>4, <3>7, <3>8
  <2>4. CASE ~ForkFault /\ lost'
    BY <2>1, <2>3, <2>4 DEF StackIntact
  <2>5. CASE ~ForkFault /\ ~lost'
    <3>1. PICK pid, child, v : ForkStep(pid, child, v) /\ v = mem[current_pid] /\ ~lost
      BY <1>3, <2>5, ForkCopies
    <3> QED BY <2>3, <3>1 DEF StackIntact
  <2> QED BY <2>2, <2>4, <2>5
<1>4. CASE kill
  BY <1>4, StackKept DEF kill
<1>5. CASE user_runs
  <2>1. /\ current_pid \in UserTasks /\ UNCHANGED <<tasks, max_pid, lost>>
        /\ mem' = [mem EXCEPT ![tasks[current_pid].page_allocs[1].p_page[1]] = Advance(@)]
        /\ work' = [work EXCEPT ![current_pid] = Advance(@)]
    BY <1>1, <1>5 DEF user_runs, UserRuns, UserTasks, QueueInv
  <2>2. /\ mem'[current_pid] = Advance(mem[current_pid])
        /\ work'[current_pid] = Advance(work[current_pid])
        /\ \A p \in Pids : p # current_pid => mem'[p] = mem[p] /\ work'[p] = work[p]
    BY <1>1, <2>1, OwnStack
  <2>3. HasStack' /\ UserTasks' = UserTasks
    BY <2>1 DEF HasStack, UserTasks, StackInv
  <2>4. StackIntact'
    BY <1>1, <2>1, <2>2, <2>3 DEF StackIntact, StackInv, UserTasks
  <2>5. current_pid =< max_pid
    BY <1>1, <2>1 DEF UserTasks
  <2>6. MemFresh'
    BY <1>1, <2>1, <2>2, <2>5 DEF MemFresh, StackInv, Pids
  <2> QED BY <2>3, <2>4, <2>6
<1>6. CASE Next /\ ~create_from_elf /\ ~fork /\ ~kill /\ ~user_runs
  <2>1. UNCHANGED <<mem, work>>
    BY <1>6 DEF Next, schedule, schedule_none, switch_task, syscall_sleep, renice, time_passes
  <2> QED BY <1>1, <1>6, <2>1, SameTasks, SameAllocs, StackKept
<1>7. CASE UNCHANGED vars
  BY <1>7, StackKept DEF vars
<1> QED BY <1>2, <1>3, <1>4, <1>5, <1>6, <1>7

(* As long as only programs started by create_from_elf fork, every stack is *)
(* as its program left it: no other task writes it, fork copies the         *)
(* parent's own, and it is never given back while its task lives.          *)
THEOREM StacksCorrect == Spec => []StackIntact
<1>1. StackInv => StackIntact
  BY DEF StackInv
<1> QED BY <1>1, StackInit, StackStep, PTL DEF Spec
=============================================================================
