------------------------------- MODULE ProcFs -------------------------------
(***************************************************************************)
(* The files of procfs and sysfs (src/fs/procfs.cpp, src/fs/sysfs.cpp):    *)
(* opening one writes its text into a static buffer and gives the handle a *)
(* copy, which reads then consume while the system changes.  A text is a   *)
(* sequence of facts, one for each piece that one call of ksnprintf adds;  *)
(* a piece is one unit long, and the buffer has SIZE of them.              *)
(*                                                                         *)
(* ksnprintf returns the length that the piece would have had.  The        *)
(* generators add that to their offset and pass `sizeof(buffer) - offset'  *)
(* as the room for the next piece, in unsigned arithmetic.                 *)
(***************************************************************************)
EXTENDS Integers, Sequences, SequencesExt, FiniteSets, FiniteSetsExt

CONSTANTS
    Handles,    \* open handles at a time
    Pids,       \* process ids
    CPUS,       \* processors found at boot
    SIZE,       \* sizeof(buffer)
    WORD,       \* size_t wraps at this value (2^64)
    MaxMounts,  \* bound on the mount list
    none

VARIABLES
    task,       \* the processes: pid -> [state, parent, pages, fds]
    current,    \* the pid of the caller
    mounts,     \* how many mounts there are
    devices,    \* how many nodes /dev has
    buffer,     \* the static buffer, up to its terminator
    handle,     \* ProcFile, SysFile: [data, offset, directory]
    text,       \* history: what each open handle's file said when it was opened
    blocks      \* heap blocks that open has allocated and not freed

vars == <<task, current, mounts, devices, buffer, handle, text, blocks>>
world == <<task, current, mounts, devices>>
----------------------------------------------------------------------------
\* Mutant: the room is one too many.
ksnprintf_late(out, piece) ==
    LET room == (SIZE + 1 - out.offset) % WORD
    IN  [written |-> IF room > 0 THEN Append(out.written, <<out.offset, piece>>) ELSE out.written,
         offset  |-> out.offset + 1]

\* One piece: dropped when it and the terminator do not fit the room that
\* is left, and counted all the same.
ksnprintf(out, piece) ==
    LET room == (SIZE - out.offset) % WORD
    IN  [written |-> IF room > 1 THEN Append(out.written, <<out.offset, piece>>) ELSE out.written,
         offset  |-> out.offset + 1]

\* The pieces one after the other, each at the offset it was written to.
Printed(pieces) == FoldLeft(ksnprintf, [written |-> <<>>, offset |-> 0], pieces).written

\* What lies in the buffer, and what lies behind it.
Inside(out) == LET in(w) == w[1] < SIZE IN SelectSeq(out, in)
Outside(out) == LET in(w) == w[1] >= SIZE IN SelectSeq(out, in)
Pieces(out) == [i \in DOMAIN out |-> out[i][2]]

Rep(x, n) == [i \in 1 .. n |-> <<x, i>>]

live == DOMAIN task
InState(S) == Cardinality({p \in live : task[p].state \in S})

get_version == << <<"version">> >>
get_meminfo == << <<"meminfo", FoldSet(LAMBDA p, n : n + task[p].pages, 0, live)>> >>
get_cpuinfo == Rep("cpu", CPUS)
get_mounts == Rep("mount", mounts)
get_filesystems == Rep("nodev", mounts)
get_stat ==
    << <<"cpu">> >> \o Rep("cpu", CPUS)
    \o << <<"stat", Cardinality(live), InState({"RUNNING", "READY"}), InState({"BLOCKED"})>> >>
get_loadavg == << <<"loadavg", InState({"RUNNING", "READY"}), Cardinality(live), current>> >>
\* The only list that stops when the buffer is nearly full.
get_devices == << <<"Character devices">> >> \o Rep("device", Min({devices, SIZE - 2}))
get_diskstats == Rep("disk", devices)
get_partitions == << <<"major minor">> >> \o Rep("partition", devices)

entries == << get_version, get_meminfo, get_cpuinfo, get_mounts, get_filesystems, get_stat, get_loadavg,
              get_devices, get_diskstats, get_partitions >>

pid_dir(p) == << <<"cmdline">>, <<"status">> >>
status(p) == << <<p, task[p].state, task[p].parent, task[p].pages>> >>
stat(p) == << <<p, task[p].state, task[p].parent, task[p].pages>> >>
cmdline(p) == << <<"name", p>> >>
fd(p) == Rep("fd", task[p].fds)
fdinfo(p) == Rep("pos", task[p].fds)
statm(p) == << <<"pages", task[p].pages>> >>
wchan(p) == << IF task[p].state = "BLOCKED" THEN <<"nanosleep">> ELSE <<"0">> >>
mountinfo(p) == Rep("info", mounts)

pid_entries(p) == << pid_dir(p), status(p), stat(p), cmdline(p), fd(p), fdinfo(p), statm(p),
                     wchan(p), mountinfo(p) >>
----------------------------------------------------------------------------
Init ==
    /\ task = [p \in {Min(Pids)} |-> [state |-> "RUNNING", parent |-> 0, pages |-> 1, fds |-> 1]]
    /\ current = Min(Pids)
    /\ mounts = 1 /\ devices = 1
    /\ buffer = <<>>
    /\ handle = [h \in Handles |-> none]
    /\ text = [h \in Handles |-> <<>>]
    /\ blocks = 0

\* Mutant: the handle points to the buffer.
make_proc_file_shared(h, out) ==
    /\ handle' = [handle EXCEPT ![h] = [data |-> none, offset |-> 0, directory |-> FALSE]]
    /\ blocks' = blocks + 2

\* The handle and its copy of the text are two allocations; when the second
\* fails the first is freed.
make_proc_file(h, out) ==
    \/ /\ handle' = [handle EXCEPT ![h] = [data |-> out, offset |-> 0, directory |-> FALSE]]
       /\ blocks' = blocks + 2
    \/ UNCHANGED <<handle, blocks>>

Generate(h, pieces) ==
    LET out == Printed(pieces)
    IN  /\ handle[h] = none
        /\ buffer' = Pieces(Inside(out))
        /\ make_proc_file(h, Pieces(Inside(out)))
        /\ text' = [text EXCEPT ![h] = Pieces(Inside(out))]
        /\ UNCHANGED world

\* vfs::find opens a file that has no node to see whether it is there, and
\* closes it again.
probe(pieces) ==
    LET out == Printed(pieces)
    IN  /\ buffer' = Pieces(Inside(out))
        /\ UNCHANGED <<handle, text, blocks, world>>

open_static(h, i) == Generate(h, entries[i])

open_pid(h, p, i) == p \in live /\ Generate(h, pid_entries(p)[i])

\* "self" is the pid of the caller, looked up again by that name.
open_self(h, i) == open_pid(h, current, i)

get_memory == << <<"memory", FoldSet(LAMBDA p, n : n + task[p].pages, 0, live)>> >>

\* sysfs keeps a buffer for each of its texts; a directory's handle has none.
sysfs_open(h, directory) ==
    LET out == IF directory THEN <<>> ELSE get_memory
    IN  /\ handle[h] = none
        /\ \/ /\ handle' = [handle EXCEPT ![h] = [data |-> out, offset |-> 0, directory |-> directory]]
              /\ blocks' = blocks + (IF directory THEN 1 ELSE 2)
           \/ UNCHANGED <<handle, blocks>>
        /\ text' = [text EXCEPT ![h] = out]
        /\ UNCHANGED <<buffer, world>>

Data(h) == IF handle[h].data = none THEN buffer ELSE handle[h].data

\* lseek moves only the descriptor's offset, which these do not look at.
read(h, size) ==
    /\ handle[h] # none
    /\ handle' = [handle EXCEPT ![h].offset =
                    IF @ >= Len(Data(h)) THEN @ ELSE @ + Min({size, Len(Data(h)) - @})]
    /\ UNCHANGED <<buffer, text, blocks, world>>

sysfs_read(h, size) == handle[h] # none /\ ~handle[h].directory /\ read(h, size)

close(h) ==
    /\ handle[h] # none
    /\ handle' = [handle EXCEPT ![h] = none]
    /\ text' = [text EXCEPT ![h] = <<>>]
    /\ blocks' = blocks - (IF handle[h].directory THEN 1 ELSE 2)
    /\ UNCHANGED <<buffer, world>>

sysfs_close(h) == close(h)

\* What goes on in the rest of the kernel between two calls.
Rest ==
    /\ \/ \E p \in Pids \ live :
            /\ task' = [q \in live \cup {p} |->
                          IF q = p THEN [task[current] EXCEPT !.state = "READY", !.parent = current]
                          ELSE task[q]]
            /\ UNCHANGED <<current, mounts, devices>>
       \/ \E p \in live \ {current} :
            /\ task' = [q \in live \ {p} |-> task[q]]
            /\ UNCHANGED <<current, mounts, devices>>
       \/ \E p \in live \ {current} :
            /\ task' = [task EXCEPT ![current].state = "BLOCKED", ![p].state = "RUNNING"]
            /\ current' = p
            /\ UNCHANGED <<mounts, devices>>
       \/ /\ mounts' \in {1, SIZE + 1, MaxMounts}
          /\ devices' = mounts'
          /\ UNCHANGED <<task, current>>
    /\ UNCHANGED <<buffer, handle, text, blocks>>

Next ==
    \/ \E h \in Handles :
         \/ \E i \in DOMAIN entries : open_static(h, i)
         \/ \E p \in Pids, i \in 1 .. 9 : open_pid(h, p, i)
         \/ \E i \in 1 .. 9 : open_self(h, i)
         \/ \E directory \in BOOLEAN : sysfs_open(h, directory)
         \/ read(h, 1) \/ sysfs_read(h, 1)
         \/ close(h) \/ sysfs_close(h)
    \/ \E p \in live : probe(status(p)) \/ probe(fd(p))
    \/ Rest

Spec == Init /\ [][Next]_vars
----------------------------------------------------------------------------
\* A handle gives what its file said when it was opened, whatever was opened
\* through the one static buffer since, and whoever has exited; and the heap
\* holds the blocks of the open handles and no others, also after an open that
\* failed.
Snapshot ==
    /\ \A h \in Handles : handle[h] # none => Data(h) = text[h]
    /\ blocks = 2 * Cardinality({h \in Handles : handle[h] # none})
                - Cardinality({h \in Handles : handle[h] # none /\ handle[h].directory})

\* A text of at most SIZE + 1 pieces stays in the buffer, truncated.  Longer
\* ones do not: the room for the next piece is then computed below zero and
\* wraps.  (Three processors are enough in cpuinfo: each takes some 700 of the
\* 2048 bytes.)
TextInBuffer ==
    LET Stays(pieces) == Outside(Printed(pieces)) = <<>> \/ Len(pieces) > SIZE + 1
    IN  /\ \A i \in DOMAIN entries : Stays(entries[i])
        /\ \A p \in live : \A i \in DOMAIN pid_entries(p) : Stays(pid_entries(p)[i])
=============================================================================
