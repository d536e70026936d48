------------------------------- MODULE Files -------------------------------
(***************************************************************************)
(* Files as programs see them: the system calls open, read, write, lseek   *)
(* and close (src/syscall.rs), the descriptor table of a task (FdTable in  *)
(* src/task.rs), the VFS with devfs mounted at /dev (src/vfs.rs,           *)
(* src/devfs.rs), and the ring of kernel messages behind /dev/kmsg         *)
(* (src/kmsg.rs).                                                          *)
(*                                                                         *)
(* A system call holds SCHEDULER and ROOT_VFS from beginning to end and is *)
(* one step; one that returns -1 leaves everything as it is and is not an  *)
(* action.  A panic stops the kernel.                                      *)
(***************************************************************************)
EXTENDS Integers, Sequences, FiniteSets, SequencesExt

CONSTANTS
    Tasks,      \* the tasks that can live at a time
    Paths,      \* the paths that programs open, see Path below
    Devices,    \* the character devices that setup_console has made
    Sizes,      \* the lengths of the buffers of read and write
    Positions,  \* the positions of lseek
    OffMax,     \* the largest u64
    KmsgMax,    \* KMSG_MAX
    Limits,     \* the limits that set_max_log is called with
    MsgLens,    \* the lengths of kernel messages
    MaxFd,      \* bound: calls of open that succeed, for a task
    MaxFiles,   \* bound: entries of DevFS::fds
    MaxMsgs     \* bound: kernel messages

(* Whether a path starts with "/"; whether it starts with the mount point;  *)
(* and what is left of it without the mount point, split at "/".           *)
Path(absolute, mounted, parts) == [absolute |-> absolute, mounted |-> mounted, parts |-> parts]

DEVFS_FILES == {"zero", "null", "kmsg", "random", "urandom"}

ASSUME FilesAssumption ==
    /\ \A x \in Paths :
         /\ x.absolute \in BOOLEAN /\ x.mounted \in BOOLEAN
         /\ x.parts \in Seq(STRING) /\ x.parts # << >>
    /\ Sizes \cup Positions \subseteq 0..OffMax
    /\ OffMax \in Nat /\ KmsgMax \in Nat /\ MaxFd \in Nat
    /\ MaxFiles \in Nat /\ MaxMsgs \in Nat
    /\ Limits \subseteq Nat
    /\ "kmsg" \notin Devices   \* the one device made is tty0
    /\ MsgLens \subseteq Nat \ {0}

VARIABLES
    fds,      \* DevFS::fds: the open files by their number in devfs
    tables,   \* tables[t]: the FdTable of task t
    msgs,     \* KernelMessage::msgs
    max_log,
    panic,
    seen,     \* history: seen[t][f], what task t knows of its descriptor f
    log,      \* history: all kernel messages
    aliased   \* history: devfs has given out a number that a table holds

vars == <<fds, tables, msgs, max_log, panic, seen, log, aliased>>

NoFiles == [x \in {} |-> x]

(* FdTable::default *)
NewTable == [max_fd |-> 0, fds |-> NoFiles]

Put(f, x, y) == [z \in DOMAIN f \cup {x} |-> IF z = x THEN y ELSE f[z]]
Without(f, x) == [z \in DOMAIN f \ {x} |-> f[z]]

(* FdTable::add *)
add(table, file) ==
    [max_fd |-> table.max_fd + 1, fds |-> Put(table.fds, table.max_fd, file)]

Numbers == UNION {{tables[t].fds[f].fd : f \in DOMAIN tables[t].fds} : t \in Tasks}

Dropped == Len(log) - Len(msgs)

(* The history follows a reader of /dev/kmsg from the beginning on until    *)
(* the ring drops a message: base = Dropped.                               *)
From(name) == IF name = "kmsg" THEN Dropped ELSE -1

-----------------------------------------------------------------------------
(* DevFS::open: the number of the new file is the length of fds. *)
NextNumber == Cardinality(DOMAIN fds)
Exists(name) == name \in DEVFS_FILES \cup Devices

(* The debug_assert in VirtualFileSystem::open, and a path that DevFS::open  *)
(* finds no second part in.                                                *)
OpenPanics(path) == ~path.absolute \/ (path.mounted /\ Len(path.parts) = 1)

syscall_open(t, path) ==
    LET number == NextNumber
        name == path.parts[2]
    IN  /\ ~panic
        /\ tables[t].max_fd < MaxFd /\ number < MaxFiles
        /\ \/ /\ OpenPanics(path)
              /\ panic' = TRUE
              /\ UNCHANGED <<fds, tables, seen, aliased>>
           \/ /\ ~OpenPanics(path)
              /\ path.mounted
              /\ Exists(name)
              /\ fds' = Put(fds, number, name)
              /\ tables' = [tables EXCEPT ![t] = add(@, [fd |-> number, offset |-> 0])]
              /\ seen' = [seen EXCEPT ![t] = Put(@, tables[t].max_fd,
                            [name |-> name, open |-> TRUE, base |-> From(name), got |-> << >>])]
              /\ aliased' = (aliased \/ number \in Numbers)
              /\ panic' = panic
    /\ UNCHANGED <<msgs, max_log, log>>

(* The file behind a descriptor: FdTable::get_mut, then DevFS::fds. *)
Held(t, f) == f \in DOMAIN tables[t].fds
File(t, f) == tables[t].fds[f]
Known(t, f) == Held(t, f) /\ File(t, f).fd \in DOMAIN fds
Name(t, f) == fds[File(t, f).fd]

(* One iteration of the loop over the messages in DevFS::read. *)
KmsgStep(st, msg, n) ==
    IF Len(st.buf) = n THEN st
    ELSE IF st.offset >= Len(msg) THEN [st EXCEPT !.offset = @ - Len(msg)]
    ELSE LET size == Min({n - Len(st.buf), Len(msg) - st.offset})
         IN  [buf |-> st.buf \o SubSeq(msg, st.offset + 1, st.offset + size),
              offset |-> 0]

(* What a read of /dev/kmsg puts into a buffer of length n. *)
ReadKmsg(offset, n) ==
    FoldLeft(LAMBDA st, msg : KmsgStep(st, msg, n),
             [buf |-> << >>, offset |-> offset], msgs).buf

Received(s, bytes) ==
    IF s.base = Dropped THEN [s EXCEPT !.got = @ \o bytes]
    ELSE [s EXCEPT !.base = -1, !.got = << >>]

(* Mutant: the offset is set to the size. *)
Advance_set(t, f, size, bytes) ==
    /\ tables' = [tables EXCEPT ![t].fds[f].offset = size]
    /\ seen' = [seen EXCEPT ![t][f] = Received(@, bytes)]
    /\ panic' = panic

(* VirtualFileSystem::read and write add the size to the offset; in a build *)
(* with overflow checks the sum panics beyond the largest u64.             *)
Advance(t, f, size, bytes) ==
    IF File(t, f).offset + size > OffMax
    THEN panic' = TRUE /\ UNCHANGED <<tables, seen>>
    ELSE /\ tables' = [tables EXCEPT ![t].fds[f].offset = @ + size]
         /\ seen' = [seen EXCEPT ![t][f] = Received(@, bytes)]
         /\ panic' = panic

(* DevFS::read *)
ReadFile(t, f, n) ==
    \/ /\ Name(t, f) \in {"zero", "random", "urandom"}
       /\ Advance(t, f, n, << >>)
    \/ /\ Name(t, f) = "kmsg"
       /\ LET bytes == ReadKmsg(File(t, f).offset, n)
          IN  Advance(t, f, Len(bytes), bytes)

syscall_read(t, f, n) ==
    /\ ~panic
    /\ Known(t, f)
    /\ ReadFile(t, f, n)
    /\ UNCHANGED <<fds, msgs, max_log, log, aliased>>

(* DevFS::write; a device prints what it gets. *)
Writable(name) == name \in {"null"} \cup Devices

syscall_write(t, f, n) ==
    /\ ~panic
    /\ Known(t, f)
    /\ Writable(Name(t, f))
    /\ Advance(t, f, n, << >>)
    /\ UNCHANGED <<fds, msgs, max_log, log, aliased>>

syscall_lseek(t, f, position) ==
    /\ ~panic
    /\ Held(t, f)
    /\ tables' = [tables EXCEPT ![t].fds[f].offset = position]
    /\ seen' = [seen EXCEPT ![t][f].got = << >>,
                 ![t][f].base = IF position = 0 /\ @ # -1 THEN Dropped ELSE -1]
    /\ UNCHANGED <<fds, msgs, max_log, panic, log, aliased>>

(* Mutant: the number in the task's table is taken for the one in devfs. *)
closed_by_fd(t, f) == f

(* VirtualFileSystem::close, DevFS::close *)
closed(t, f) == File(t, f).fd

(* syscall_close: devfs forgets the file, the table of the task keeps it. *)
syscall_close(t, f) ==
    /\ ~panic
    /\ Held(t, f)
    /\ fds' = Without(fds, closed(t, f))
    /\ seen' = [seen EXCEPT ![t][f].open = FALSE, ![t][f].base = -1, ![t][f].got = << >>]
    /\ UNCHANGED <<tables, msgs, max_log, panic, log, aliased>>

(* The task is dropped with its FdTable, which closes nothing; a task that  *)
(* is made in its place, by fork too, has an empty one.                    *)
exit(t) ==
    /\ ~panic
    /\ tables[t] # NewTable
    /\ tables' = [tables EXCEPT ![t] = NewTable]
    /\ seen' = [seen EXCEPT ![t] = NoFiles]
    /\ UNCHANGED <<fds, msgs, max_log, panic, log, aliased>>

-----------------------------------------------------------------------------
(* The bytes of the nth message. *)
Message(n, len) == [i \in 1..len |-> <<n, i>>]

(* Mutant: the newest message is dropped. *)
Pushed_back(msg) == IF Len(msgs) + 1 > max_log THEN msgs ELSE Append(msgs, msg)

(* push_back; one message beyond the limit pops the oldest. *)
Pushed(msg) ==
    LET all == Append(msgs, msg) IN IF Len(all) > max_log THEN Tail(all) ELSE all

(* add_message prints msgs.back() on the console; there is none if the      *)
(* limit is 0.                                                             *)
add_message(len) ==
    LET msg == Message(Len(log) + 1, len)
    IN  /\ ~panic
        /\ Len(log) < MaxMsgs
        /\ log' = Append(log, msg)
        /\ msgs' = Pushed(msg)
        /\ panic' = (msgs' = << >>)
        /\ UNCHANGED <<fds, tables, max_log, seen, aliased>>

set_max_log(max) ==
    /\ ~panic
    /\ max_log' = max
    /\ msgs' = IF Len(msgs) > max THEN SubSeq(msgs, Len(msgs) - max + 1, Len(msgs)) ELSE msgs
    /\ UNCHANGED <<fds, tables, panic, seen, log, aliased>>

Init ==
    /\ fds = NoFiles
    /\ tables = [t \in Tasks |-> NewTable]
    /\ msgs = << >>
    /\ max_log = KmsgMax
    /\ panic = FALSE
    /\ seen = [t \in Tasks |-> NoFiles]
    /\ log = << >>
    /\ aliased = FALSE

Next ==
    \/ \E t \in Tasks :
         \/ \E x \in Paths : syscall_open(t, x)
         \/ \E f \in DOMAIN tables[t].fds :
              \/ \E n \in Sizes : syscall_read(t, f, n) \/ syscall_write(t, f, n)
              \/ \E p \in Positions : syscall_lseek(t, f, p)
              \/ syscall_close(t, f)
         \/ exit(t)
    \/ \E len \in MsgLens : add_message(len)
    \/ \E max \in Limits : set_max_log(max)

Spec == Init /\ [][Next]_vars

-----------------------------------------------------------------------------
Opened(t) == DOMAIN seen[t]

(* TypeOK: the tables map descriptors to numbers and offsets, and every     *)
(* offset is a u64.                                                        *)
TypeOK ==
    /\ \A n \in DOMAIN fds : n \in Nat /\ fds[n] \in DEVFS_FILES \cup Devices
    /\ \A t \in Tasks :
         /\ tables[t].max_fd \in 0..MaxFd
         /\ DOMAIN tables[t].fds = 0..(tables[t].max_fd - 1)
         /\ Opened(t) = DOMAIN tables[t].fds
         /\ \A f \in Opened(t) : File(t, f) \in [fd : Nat, offset : 0..OffMax]
    /\ max_log \in Nat
    /\ panic \in BOOLEAN /\ aliased \in BOOLEAN

(* DescriptorsOwn: the doc's "File descriptor": until its task closes it, a *)
(* descriptor stands for the file that open was called with, whatever other *)
(* descriptors are opened and closed.                                      *)
DescriptorsOwn ==
    \A t \in Tasks : \A f \in Opened(t) :
      seen[t][f].open => Known(t, f) /\ Name(t, f) = seen[t][f].name

(* DescriptorsKept: as long as devfs gives out numbers that no table holds, *)
(* descriptors stand for their files, no two of them for the same open      *)
(* file, and a closed one for none.                                        *)
DescriptorsKept ==
    /\ TypeOK
    /\ ~aliased =>
         /\ DescriptorsOwn
         /\ \A t, u \in Tasks : \A f \in Opened(t), g \in Opened(u) :
              File(t, f).fd = File(u, g).fd => t = u /\ f = g
         /\ \A t \in Tasks : \A f \in Opened(t) : Known(t, f) => seen[t][f].open

(* KmsgReads: the loop of DevFS::read returns the bytes from the offset of  *)
(* the ring's text on, as many as the buffer holds, at every offset and     *)
(* across every boundary of messages.                                      *)
Text(messages) == FlattenSeq(messages)

KmsgReads ==
    \A o \in 0..(Len(Text(msgs)) + 1), n \in Sizes :
      ReadKmsg(o, n) = SubSeq(Text(msgs), o + 1, Min({o + n, Len(Text(msgs))}))

(* KmsgStream: a program that reads /dev/kmsg from the beginning gets every *)
(* byte once and in order while messages are added between its reads, as    *)
(* long as the ring drops none.                                            *)
KmsgStream ==
    ~aliased =>
      \A t \in Tasks : \A f \in Opened(t) :
        LET s == seen[t][f]
        IN  s.base = Dropped =>
              s.got = SubSeq(Text(msgs), 1, File(t, f).offset)

(* KmsgGapless: a single read of /dev/kmsg, and a sequence of them, return  *)
(* the text of the messages without gaps.                                  *)
KmsgGapless == KmsgReads /\ KmsgStream

(* RingKeepsNewest: the ring holds the newest messages, in order, and no    *)
(* more than the limit.                                                    *)
RingKeepsNewest ==
    /\ Len(msgs) =< max_log
    /\ msgs = SubSeq(log, Len(log) - Len(msgs) + 1, Len(log))
=============================================================================
