-------------------------------- MODULE Fds ---------------------------------
(***************************************************************************)
(* File descriptors: the per-process tables, the pool of pipes with their  *)
(* reader and writer counts, and the handles of mounted file systems       *)
(* (src/user/syscall.cpp; fork's copy is sched::clone).  System calls run  *)
(* with interrupts off, so each one is a step.  What the bytes in a pipe   *)
(* do is in PipeStream.                                                    *)
(*                                                                         *)
(* Some calls copy or drop an entry without touching the counts.  Three    *)
(* history variables record where that happened, so that the properties    *)
(* say exactly how far the counts can be trusted.                          *)
(***************************************************************************)
EXTENDS Integers, FiniteSets, FiniteSetsExt

CONSTANTS
    Procs,      \* Process objects
    MAX_FDS,    \* entries of a table
    FIRST_FD,   \* where sys_pipe and alloc_fd start looking
    NPIPES,     \* entries of pipes[]
    Handles,    \* handles fs->open may return
    MaxCount    \* bound on a pipe's counts, below zero too

ASSUME FdsAssumption ==
    /\ IsFiniteSet(Procs)
    /\ MAX_FDS \in Nat /\ FIRST_FD \in 0 .. MAX_FDS - 1
    /\ NPIPES \in Nat /\ MaxCount \in Nat

VARIABLES
    proc,       \* process -> "unused", "live" or "dead" (not yet reaped)
    fds,        \* process -> its table
    pipe_used,  \* pipes[i] is taken
    readers, writers,
    handles,    \* handles that are open
    uncounted,  \* history: pipes with an end that F_DUPFD copied
    leaked,     \* history: pipes with an end dropped without sys_close
    shared      \* history: handles that sit in more than one entry

vars == <<proc, fds, pipe_used, readers, writers, handles,
          uncounted, leaked, shared>>

Fd == 0 .. MAX_FDS - 1
Pipes == 0 .. NPIPES - 1

FD_NONE == [type |-> "none"]
FD_FILE(h) == [type |-> "file", fs_handle |-> h]
FD_PIPE(p, e) == [type |-> "pipe", pipe |-> p, end |-> e]

Free(x) == {fd \in Fd : fds[x][fd] = FD_NONE}

\* How many of the entries in table t are this end of pipe p.
Count(t, p, e) == Cardinality({fd \in DOMAIN t : t[fd] = FD_PIPE(p, e)})

PipesIn(t) == {p \in Pipes : Count(t, p, "r") + Count(t, p, "w") > 0}
HandlesIn(t) == {h \in Handles : \E fd \in DOMAIN t : t[fd] = FD_FILE(h)}

\* readers++ or writers++ for every pipe end in table t (or -- with sign -1).
Adjust(t, sign) ==
    /\ readers' = [p \in Pipes |-> readers[p] + sign * Count(t, p, "r")]
    /\ writers' = [p \in Pipes |-> writers[p] + sign * Count(t, p, "w")]
    /\ \A p \in Pipes : {readers'[p], writers'[p]} \subseteq -MaxCount .. MaxCount

Only(x, fd) == [f \in {fd} |-> fds[x][fd]]
----------------------------------------------------------------------------
Init ==
    /\ proc \in {[x \in Procs |-> IF x = i THEN "live" ELSE "unused"] : i \in Procs}
    /\ fds = [x \in Procs |-> [fd \in Fd |-> FD_NONE]]
    /\ pipe_used = [p \in Pipes |-> FALSE]
    /\ readers = [p \in Pipes |-> 0]
    /\ writers = [p \in Pipes |-> 0]
    /\ handles = {}
    /\ uncounted = {} /\ leaked = {} /\ shared = {}

\* sys_pipe takes the first unused pipe and the two lowest free entries.
\* When there are none it has already cleared the pipe.
sys_pipe(x) ==
    /\ \E i \in Pipes : ~ pipe_used[i]
    /\ LET i == Min({p \in Pipes : ~ pipe_used[p]})
           avail == {fd \in Free(x) : fd >= FIRST_FD}
           rfd == Min(avail)
           wfd == Min(avail \ {rfd})
           n == IF Cardinality(avail) >= 2 THEN 1 ELSE 0
       IN  /\ readers' = [readers EXCEPT ![i] = n]
           /\ writers' = [writers EXCEPT ![i] = n]
           /\ IF n = 1
                THEN /\ pipe_used' = [pipe_used EXCEPT ![i] = TRUE]
                     /\ fds' = [fds EXCEPT ![x][rfd] = FD_PIPE(i, "r"),
                                           ![x][wfd] = FD_PIPE(i, "w")]
                ELSE UNCHANGED <<pipe_used, fds>>
    /\ UNCHANGED <<proc, handles, uncounted, leaked, shared>>

\* sys_open of a path below a mount.  The handle is opened first and is not
\* closed again when alloc_fd finds no entry.
sys_open(x, h) ==
    /\ h \notin handles
    /\ handles' = handles \cup {h}
    /\ LET avail == {fd \in Free(x) : fd >= FIRST_FD}
       IN  fds' = IF avail = {} THEN fds
                  ELSE [fds EXCEPT ![x][Min(avail)] = FD_FILE(h)]
    /\ UNCHANGED <<proc, pipe_used, readers, writers, uncounted, leaked, shared>>

\* Mutant: the pipe is given up with its last reader.
sys_close_reader_frees(x, fd) ==
    /\ fds[x][fd] # FD_NONE
    /\ Adjust(Only(x, fd), -1)
    /\ pipe_used' = [p \in Pipes |-> /\ pipe_used[p]
                                     /\ p \in PipesIn(Only(x, fd)) => readers'[p] # 0]
    /\ handles' = handles \ HandlesIn(Only(x, fd))
    /\ fds' = [fds EXCEPT ![x][fd] = FD_NONE]
    /\ UNCHANGED <<proc, uncounted, leaked, shared>>

\* Mutant: the entry is not cleared.
sys_close_keeps_entry(x, fd) ==
    /\ fds[x][fd] # FD_NONE
    /\ Adjust(Only(x, fd), -1)
    /\ handles' = handles \ HandlesIn(Only(x, fd))
    /\ UNCHANGED <<proc, fds, pipe_used, uncounted, leaked, shared>>

\* sys_close frees the pipe when both counts are exactly zero.
sys_close(x, fd) ==
    /\ fds[x][fd] # FD_NONE
    /\ Adjust(Only(x, fd), -1)
    /\ pipe_used' = [p \in Pipes |->
         /\ pipe_used[p]
         /\ p \in PipesIn(Only(x, fd)) => readers'[p] # 0 \/ writers'[p] # 0]
    /\ handles' = handles \ HandlesIn(Only(x, fd))
    /\ fds' = [fds EXCEPT ![x][fd] = FD_NONE]
    /\ UNCHANGED <<proc, uncounted, leaked, shared>>

\* sys_dup copies to the lowest free entry, from 0, and counts the copy.
sys_dup(x, fd) ==
    /\ fds[x][fd] # FD_NONE
    /\ Free(x) # {}
    /\ fds' = [fds EXCEPT ![x][Min(Free(x))] = fds[x][fd]]
    /\ Adjust(Only(x, fd), 1)
    /\ shared' = shared \cup HandlesIn(Only(x, fd))
    /\ UNCHANGED <<proc, pipe_used, handles, uncounted, leaked>>

\* sys_dup2 counts the copy but overwrites newfd without closing it; with
\* newfd = oldfd it still counts one more.
sys_dup2(x, oldfd, newfd) ==
    /\ fds[x][oldfd] # FD_NONE
    /\ fds' = [fds EXCEPT ![x][newfd] = fds[x][oldfd]]
    /\ Adjust(Only(x, oldfd), 1)
    /\ leaked' = leaked \cup PipesIn(Only(x, newfd))
    /\ shared' = shared \cup HandlesIn(Only(x, oldfd))
    /\ UNCHANGED <<proc, pipe_used, handles, uncounted>>

\* F_DUPFD and F_DUPFD_CLOEXEC copy the entry and count nothing.
sys_fcntl_dupfd(x, fd, min_fd) ==
    /\ fds[x][fd] # FD_NONE
    /\ \E i \in Free(x) : i >= min_fd
    /\ fds' = [fds EXCEPT ![x][Min({i \in Free(x) : i >= min_fd})] = fds[x][fd]]
    /\ uncounted' = uncounted \cup PipesIn(Only(x, fd))
    /\ shared' = shared \cup HandlesIn(Only(x, fd))
    /\ UNCHANGED <<proc, pipe_used, readers, writers, handles, leaked>>

----------------------------------------------------------------------------
\* sched::clone counts every end the child inherits.  When a later
\* allocation fails (user pages, Task, stack) the child is freed and the
\* counts stay.
clone(x, y) ==
    /\ proc[y] = "unused"
    /\ Adjust(fds[x], 1)
    /\ \/ /\ proc' = [proc EXCEPT ![y] = "live"]
          /\ fds' = [fds EXCEPT ![y] = fds[x]]
          /\ shared' = shared \cup HandlesIn(fds[x])
          /\ UNCHANGED leaked
       \/ /\ leaked' = leaked \cup PipesIn(fds[x])
          /\ UNCHANGED <<proc, fds, shared>>
    /\ UNCHANGED <<pipe_used, handles, uncounted>>

\* Mutant: only the first entry of the table is closed.
sys_close_all_first(x) ==
    /\ Adjust(Only(x, 0), -1)
    /\ UNCHANGED pipe_used
    /\ handles' = handles \ HandlesIn(Only(x, 0))
    /\ fds' = [fds EXCEPT ![x] = [fd \in Fd |-> FD_NONE]]

\* sys_close_all empties a table; it frees a pipe whose counts are zero or
\* less once this process's ends are gone.
sys_close_all(x) ==
    /\ Adjust(fds[x], -1)
    /\ pipe_used' = [p \in Pipes |->
         /\ pipe_used[p]
         /\ p \in PipesIn(fds[x]) => readers'[p] > 0 \/ writers'[p] > 0]
    /\ handles' = handles \ HandlesIn(fds[x])
    /\ fds' = [fds EXCEPT ![x] = [fd \in Fd |-> FD_NONE]]

\* SYS_EXIT and SYS_EXIT_GROUP close everything before sched::exit.
sys_exit(x) ==
    /\ sys_close_all(x)
    /\ proc' = [proc EXCEPT ![x] = "dead"]
    /\ UNCHANGED <<uncounted, leaked, shared>>

\* An exception in the process, or sys_kill of oneself: sched::exit alone.
exit_abrupt(x) ==
    /\ proc' = [proc EXCEPT ![x] = "dead"]
    /\ UNCHANGED <<fds, pipe_used, readers, writers, handles, uncounted,
                   leaked, shared>>

\* sys_kill of another process (kill_task_tree): close all, destroy.
kill(y) ==
    /\ proc[y] # "unused"
    /\ sys_close_all(y)
    /\ proc' = [proc EXCEPT ![y] = "unused"]
    /\ UNCHANGED <<uncounted, leaked, shared>>

\* reap (or sys_wait) frees a dead process that is not the current one, with
\* whatever its table holds.
reap(y) ==
    /\ proc[y] = "dead"
    /\ \E x \in Procs \ {y} : proc[x] = "live"
    /\ proc' = [proc EXCEPT ![y] = "unused"]
    /\ fds' = [fds EXCEPT ![y] = [fd \in Fd |-> FD_NONE]]
    /\ leaked' = leaked \cup PipesIn(fds[y])
    /\ UNCHANGED <<pipe_used, readers, writers, handles, uncounted, shared>>

syscall(x) ==
    \/ sys_pipe(x)
    \/ \E h \in Handles : sys_open(x, h)
    \/ \E fd \in Fd : \/ sys_close(x, fd)
                      \/ sys_dup(x, fd)
                      \/ \E to \in Fd : \/ sys_dup2(x, fd, to)
                                        \/ sys_fcntl_dupfd(x, fd, to)
    \/ \E y \in Procs \ {x} : clone(x, y) \/ kill(y)
    \/ sys_exit(x)
    \/ exit_abrupt(x)

Next ==
    \/ \E x \in Procs : proc[x] = "live" /\ syscall(x)
    \/ \E y \in Procs : reap(y)

Spec == Init /\ [][Next]_vars

----------------------------------------------------------------------------
\* The open ends of pipe p in all tables.
Ends(p, e) == Cardinality({xf \in Procs \X Fd : fds[xf[1]][xf[2]] = FD_PIPE(p, e)})

\* Unless F_DUPFD copied one of its ends, a pipe counts at least the ends
\* that exist and its slot is taken while one does: sys_pipe never hands out
\* (and clears) a pipe that a process still holds, whatever was overwritten
\* by dup2, lost in a failed fork or left behind by an exception.
NoRecycling ==
    \A p \in Pipes \ uncounted :
        /\ readers[p] >= Ends(p, "r")
        /\ writers[p] >= Ends(p, "w")
        /\ Ends(p, "r") + Ends(p, "w") > 0 => pipe_used[p]

\* Unless an end was also dropped without being closed, the counts are
\* exact: a reader sees the end of file exactly when the last writer is
\* gone, and the slot is free again exactly when nobody holds an end.
CountsExact ==
    \A p \in Pipes \ (uncounted \cup leaked) :
        /\ readers[p] = Ends(p, "r")
        /\ writers[p] = Ends(p, "w")
        /\ pipe_used[p] <=> Ends(p, "r") + Ends(p, "w") > 0

\* A handle of a mounted file system that dup, dup2, fcntl and fork never
\* copied sits in at most one entry, and the entry that holds it can use it:
\* it was not closed behind its back, and closing it closes it once.
HandlesLive ==
    \A h \in Handles \ shared :
        LET holders == {xf \in Procs \X Fd : fds[xf[1]][xf[2]] = FD_FILE(h)}
        IN  Cardinality(holders) <= 1 /\ (holders # {} => h \in handles)
=============================================================================
