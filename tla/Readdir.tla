------------------------------ MODULE Readdir -------------------------------
(***************************************************************************)
(* A program lists a directory with one readdir after the other            *)
(* (src/user/syscall.cpp) while others make and remove nodes in it and, in *)
(* /proc, processes come and go.  The descriptor's offset is an index: the *)
(* call walks the children from the first one, then the task list, and     *)
(* returns the entry with that number.  New children are put in front, new *)
(* tasks at the end.  A handle of procfs is listed by the lines of its     *)
(* text, which do not change.                                              *)
(***************************************************************************)
EXTENDS Integers, Sequences, SequencesExt, FiniteSets

CONSTANTS
    Names,      \* names of nodes
    Pids,       \* process ids
    Lines       \* the lines of a procfs handle

VARIABLES
    kind,       \* what the descriptor is of: "proc", "dir" or "handle"
    children,   \* Node::children, newest first
    tasks,      \* the task list
    offset,     \* FdEntry::offset
    seen,       \* history: the entries returned since the last rewind
    stay,       \* history: the entries present all that time
    made,       \* history: a node was made in that time
    gone,       \* history: a node or a task was removed in that time
    done        \* the last call returned 0

vars == <<kind, children, tasks, offset, seen, stay, made, gone, done>>

\* Mutant: the tasks come before the nodes.
entry_list_tasks_first ==
    CASE kind = "handle" -> Lines
      [] kind = "dir"    -> children
      [] kind = "proc"   -> tasks \o children

\* The entries in the order of the walk.
entry_list ==
    CASE kind = "handle" -> Lines
      [] kind = "dir"    -> children
      [] kind = "proc"   -> children \o tasks

Start ==
    /\ offset' = 0
    /\ seen' = <<>>
    /\ stay' = ToSet(entry_list)
    /\ made' = FALSE /\ gone' = FALSE /\ done' = FALSE

Init ==
    /\ kind \in {"proc", "dir", "handle"}
    /\ children \in {s \in BoundedSeq(Names, Cardinality(Names)) : IsInjective(s)}
    /\ tasks = <<CHOOSE p \in Pids : TRUE>>
    /\ offset = 0 /\ seen = <<>> /\ stay = ToSet(entry_list)
    /\ made = FALSE /\ gone = FALSE /\ done = FALSE

sys_readdir ==
    /\ IF offset < Len(entry_list)
         THEN /\ seen' = Append(seen, entry_list[offset + 1])
              /\ offset' = offset + 1
              /\ done' = FALSE
         ELSE done' = TRUE /\ UNCHANGED <<offset, seen>>
    /\ ~ done
    /\ UNCHANGED <<kind, children, tasks, stay, made, gone>>

\* lseek to 0, or open again.
rewind == done /\ Start /\ UNCHANGED <<kind, children, tasks>>

create_node(x) ==
    /\ x \notin ToSet(children)
    /\ children' = <<x>> \o children
    /\ made' = TRUE
    /\ UNCHANGED <<kind, tasks, offset, seen, stay, gone, done>>

remove(x) ==
    /\ x \in ToSet(children)
    /\ children' = Remove(children, x)
    /\ gone' = TRUE
    /\ stay' = stay \ {x}
    /\ UNCHANGED <<kind, tasks, offset, seen, made, done>>

add(p) ==
    /\ p \notin ToSet(tasks)
    /\ tasks' = Append(tasks, p)
    /\ UNCHANGED <<kind, children, offset, seen, stay, made, gone, done>>

reap(p) ==
    /\ p \in ToSet(tasks) /\ Len(tasks) > 1
    /\ tasks' = Remove(tasks, p)
    /\ stay' = stay \ {p}
    /\ gone' = (gone \/ kind = "proc")
    /\ UNCHANGED <<kind, children, offset, seen, made, done>>

Next ==
    \/ sys_readdir \/ rewind
    \/ \E x \in Names : create_node(x) \/ remove(x)
    \/ \E p \in Pids : add(p) \/ reap(p)

Spec == Init /\ [][Next]_vars
----------------------------------------------------------------------------
\* A listing that has ended has shown every entry that was there from its
\* beginning to its end, unless a node or a task was removed meanwhile, which
\* moves the later ones down past the index; and it has shown none of those
\* twice unless a node was made, which moves all of them up.  Processes that
\* start disturb nothing.
ScanComplete ==
    done =>
      /\ (gone /\ kind # "handle") \/ stay \subseteq ToSet(seen)
      /\ (made /\ kind # "handle") \/ \A x \in stay : Len(SelectSeq(seen, LAMBDA y : y = x)) <= 1
=============================================================================
