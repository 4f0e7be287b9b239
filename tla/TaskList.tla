------------------------------ MODULE TaskList ------------------------------
(***************************************************************************)
(* The task list as pointers: head, tail and Task::next, as add,           *)
(* remove_and_destroy and reap of src/kernel/sched/scheduler.cpp change    *)
(* them.  It implements TaskQueue, and it stays in the order of pids,      *)
(* which is how Scheduler represents it.                                   *)
(*                                                                         *)
(* reap() walks the list and frees tasks on the way; its loop is modelled  *)
(* one turn at a time, with nothing in between (interrupts are off).       *)
(***************************************************************************)
EXTENDS Integers, Sequences, FiniteSets

CONSTANTS
    ListTasks,    \* heap blocks for Task objects
    MaxListPid    \* bound on pid_counter

nullptr == "nullptr"
boot_task == "kernel_task"   \* the static task of the boot code, never listed
idle == "idle"               \* reap is not running

ASSUME TaskListAssumption ==
    /\ IsFiniteSet(ListTasks) /\ MaxListPid \in Nat
    /\ ListTasks \cap {nullptr, boot_task, idle} = {}

VARIABLES
    head, tail,
    next,          \* Task::next; freed blocks keep theirs
    list_pid,      \* Task::pid
    allocated,     \* Task objects that exist
    dead,          \* tasks whose state is DEAD
    list_current,  \* current_task
    list_pid_counter,
    reap_t         \* the loop variable t of reap, or idle

list_vars == <<head, tail, next, list_pid, allocated, dead, list_current,
               list_pid_counter, reap_t>>

----------------------------------------------------------------------------
ListInit ==
    /\ head = nullptr /\ tail = nullptr
    /\ next = [x \in ListTasks |-> nullptr]
    /\ list_pid = [x \in ListTasks |-> 0]
    /\ allocated = {} /\ dead = {}
    /\ list_current = boot_task
    /\ list_pid_counter = 1
    /\ reap_t = idle

\* Mutant: a new task goes to the front.
add_front(x) ==
    /\ reap_t = idle
    /\ list_current = boot_task => allocated = {}
    /\ x \notin allocated
    /\ list_pid_counter <= MaxListPid
    /\ allocated' = allocated \cup {x}
    /\ list_pid' = [list_pid EXCEPT ![x] = list_pid_counter]
    /\ list_pid_counter' = list_pid_counter + 1
    /\ head' = x
    /\ next' = [next EXCEPT ![x] = head]
    /\ tail' = IF head = nullptr THEN x ELSE tail
    /\ UNCHANGED <<dead, list_current, reap_t>>

\* add(): a new task goes behind the tail.  The boot code adds init, a
\* running task its children.
add(x) ==
    /\ reap_t = idle
    /\ list_current = boot_task => allocated = {}
    /\ x \notin allocated
    /\ list_pid_counter <= MaxListPid
    /\ allocated' = allocated \cup {x}
    /\ list_pid' = [list_pid EXCEPT ![x] = list_pid_counter]
    /\ list_pid_counter' = list_pid_counter + 1
    /\ tail' = x
    /\ IF head = nullptr
         THEN head' = x /\ next' = [next EXCEPT ![x] = nullptr]
         ELSE /\ head' = head
              /\ next' = [y \in ListTasks |-> IF y = x THEN nullptr
                                          ELSE IF y = tail THEN x ELSE next[y]]
    /\ UNCHANGED <<dead, list_current, reap_t>>

\* remove_and_destroy(): unlink, mend head and tail, free.
remove_and_destroy(x) ==
    /\ x # list_current
    /\ allocated' = allocated \ {x}
    /\ dead' = dead \ {x}
    /\ IF head = x
         THEN /\ head' = next[x]
              /\ tail' = IF tail = x THEN next[x] ELSE tail
              /\ next' = next
         ELSE LET P == {y \in allocated : next[y] = x}
              IN  /\ head' = head
                  /\ next' = [y \in ListTasks |-> IF y \in P THEN next[x] ELSE next[y]]
                  /\ tail' = IF tail = x THEN CHOOSE y \in P : TRUE ELSE tail

\* sys_wait and kill_task_tree remove a task at any moment.
destroy(x) ==
    /\ reap_t = idle
    /\ list_current # boot_task
    /\ x \in allocated
    /\ remove_and_destroy(x)
    /\ UNCHANGED <<list_pid, list_current, list_pid_counter, reap_t>>

\* sched::exit, or kill_task_tree when it meets the current task.
list_exit ==
    /\ reap_t = idle
    /\ list_current # boot_task
    /\ dead' = dead \cup {list_current}
    /\ UNCHANGED <<head, tail, next, list_pid, allocated, list_current, list_pid_counter, reap_t>>

----------------------------------------------------------------------------
\* schedule() reaps first and then picks a task from the list.
\* Mutant: the head is not looked at.
reap_second ==
    /\ reap_t = idle
    /\ head # nullptr
    /\ reap_t' = next[head]
    /\ UNCHANGED <<head, tail, next, list_pid, allocated, dead, list_current, list_pid_counter>>

list_reap ==
    /\ reap_t = idle
    /\ head # nullptr
    /\ reap_t' = head
    /\ UNCHANGED <<head, tail, next, list_pid, allocated, dead, list_current, list_pid_counter>>

reap_turn ==
    /\ reap_t \in ListTasks
    /\ reap_t' = next[reap_t]
    /\ IF reap_t \in dead /\ reap_t # list_current
         THEN remove_and_destroy(reap_t)
         ELSE UNCHANGED <<head, tail, next, allocated, dead>>
    /\ UNCHANGED <<list_pid, list_current, list_pid_counter>>

switch_to(x) ==
    /\ reap_t = nullptr
    /\ reap_t' = idle
    /\ x \in allocated \ dead \/ (x = list_current /\ allocated \subseteq dead)
    /\ list_current' = x
    /\ UNCHANGED <<head, tail, next, list_pid, allocated, dead, list_pid_counter>>

ListNext ==
    \/ \E x \in ListTasks : add(x) \/ destroy(x) \/ switch_to(x)
    \/ list_exit
    \/ list_reap
    \/ reap_turn

ListSpec == ListInit /\ [][ListNext]_list_vars

----------------------------------------------------------------------------
\* The blocks met on the way from h along the pointers nx.
Follow(h, nx) ==
    LET r[n \in Nat] == IF n = 0 THEN h
                        ELSE IF r[n - 1] = nullptr THEN nullptr ELSE nx[r[n - 1]]
    IN  r

Length(h, nx) == Cardinality({n \in 0 .. Cardinality(ListTasks) : Follow(h, nx)[n] # nullptr})

Spelled(h, nx) == [i \in 1 .. Length(h, nx) |-> Follow(h, nx)[i - 1]]

\* The list that the pointers spell out.
List == Spelled(head, next)

\* Following `next' from head visits every task that exists once, no freed
\* one, and ends at tail; the tasks come in the order of their pids.
Linked ==
    /\ {List[i] : i \in 1 .. Len(List)} = allocated
    /\ Len(List) = Cardinality(allocated)
    /\ tail = IF Len(List) = 0 THEN nullptr ELSE List[Len(List)]
    /\ \A i \in 1 .. Len(List) - 1 : list_pid[List[i]] < list_pid[List[i + 1]]

\* When schedule() has finished reaping, no dead task but the current one is
\* left on the list, although the loop freed tasks under its own iterator.
ReapsAll == reap_t = nullptr => dead \subseteq {list_current}

\* The links are whole and in order at every moment, in the middle of a walk
\* of reap too, and the walk misses no dead task.
ListSound == Linked /\ ReapsAll

\* The pointers implement the queue of TaskQueue: add appends, only tasks
\* other than the current one leave, nobody changes places.
Queue == INSTANCE TaskQueue WITH Tasks <- ListTasks, list <- List, current <- list_current
RefinesQueue == Queue!Spec
=============================================================================
