------------------------------ MODULE Scheduler -----------------------------
(***************************************************************************)
(* The scheduler and the life of a task: src/kernel/sched/scheduler.cpp    *)
(* and the wait, kill, fork and exit calls of src/user/syscall.cpp.        *)
(*                                                                         *)
(* A task is the heap block that holds it, so a block that is freed and    *)
(* taken again is the same task to every pointer left behind.  The task    *)
(* list is the set `live', in the order of pids: TaskList shows that the   *)
(* head, tail and next pointers keep it in that order.                     *)
(*                                                                         *)
(* One CPU, and system calls with interrupts off: a step is a system call  *)
(* of the current task up to its return or its yield, or a timer           *)
(* interrupt.  No code sets State::BLOCKED.                                *)
(***************************************************************************)
EXTENDS Integers, FiniteSets

CONSTANTS
    Tasks,        \* heap blocks for Task objects
    kernel_task,  \* the static task of the boot code; never on the list
    MaxPid        \* bound on pid_counter

ASSUME TasksAssumption ==
    /\ Tasks # {}
    /\ kernel_task \notin Tasks
    /\ MaxPid \in Nat \ {0}

VARIABLES
    live,         \* tasks on the list
    state,        \* Task::state
    pid,          \* Task::pid
    parent,       \* Task::parent, kept as a pointer
    current,      \* current_task
    cr3,          \* whose address space is active
    kernel_stack, \* whose stack the TSS names
    waiting,      \* the pid a task in sys_wait looks for, or 0
    pid_counter,
    ppid,         \* history: the pid of the task that forked this one
    overflow      \* kill_task_tree recursed without end

vars == <<live, state, pid, parent, current, cr3, kernel_stack, waiting,
          pid_counter, ppid, overflow>>

AllTasks == Tasks \cup {kernel_task}
Pids == 0 .. MaxPid
init == CHOOSE t \in Tasks : TRUE
----------------------------------------------------------------------------
\* kernel_main has spawned init (which left init's address space active:
\* the kernel's own has no table) and idles until the first timer tick.
Init ==
    /\ live = {init}
    /\ state = [t \in AllTasks |-> IF t = kernel_task THEN "RUNNING" ELSE "READY"]
    /\ pid = [t \in AllTasks |-> IF t = init THEN 1 ELSE 0]
    /\ parent = [t \in AllTasks |-> kernel_task]
    /\ current = kernel_task
    /\ cr3 = init
    /\ kernel_stack = kernel_task
    /\ waiting = [t \in AllTasks |-> 0]
    /\ pid_counter = 2
    /\ ppid = [t \in AllTasks |-> 0]
    /\ overflow = FALSE

\* Mutant: the current task is not spared.
reap_current(L, S) == {t \in L : S[t] = "DEAD"}

\* The tasks that reap() takes off a list L.
reap(L, S) == {t \in L : S[t] = "DEAD" /\ t # current}

\* Mutant: the search starts at the head.
Turn_head(t) == pid[t]

\* The first READY task after the current one, round the list.
Turn(t) == IF pid[t] > pid[current] THEN pid[t] ELSE pid[t] + pid_counter

IsNext(R, t) == t \in R /\ \A u \in R : Turn(t) <= Turn(u)

\* Mutant: the current task becomes READY whatever it was.
schedule_revives(L, S) ==
    LET L1 == L \ reap(L, S)
        S1 == [S EXCEPT ![current] = "READY"]
        R == {t \in L1 : S1[t] = "READY"}
    IN  /\ live' = L1
        /\ \E t \in Tasks : /\ IsNext(R, t)
                             /\ current' = t /\ cr3' = t /\ kernel_stack' = t
                             /\ state' = [S1 EXCEPT ![t] = "RUNNING"]

\* schedule(), called with list L and states S: reap, put the running task
\* back, give the CPU to the next READY task.  With none left the caller's
\* registers are returned and the current task goes on, dead or not.
schedule(L, S) ==
    LET L1 == L \ reap(L, S)
        S1 == [S EXCEPT ![current] = IF @ = "RUNNING" THEN "READY" ELSE @]
        R == {t \in L1 : S1[t] = "READY"}
    IN  /\ live' = L1
        /\ \/ /\ R = {}
              /\ state' = S1
              /\ UNCHANGED <<current, cr3, kernel_stack>>
           \/ \E t \in Tasks :
                /\ IsNext(R, t)
                /\ current' = t
                /\ state' = [S1 EXCEPT ![t] = "RUNNING"]
                /\ cr3' = t
                /\ kernel_stack' = t

----------------------------------------------------------------------------
\* Interrupts are on, or the current task makes a system call.
InUser == ~ overflow /\ waiting[current] = 0

\* The timer interrupt, or sys_yield.
timer_irq ==
    /\ InUser
    /\ schedule(live, state)
    /\ UNCHANGED <<pid, parent, waiting, pid_counter, ppid, overflow>>

\* sys_fork: clone() takes a pid, then may fail; the child goes to the end
\* of the list.
clone(t) ==
    /\ InUser /\ current # kernel_task
    /\ pid_counter <= MaxPid
    /\ pid_counter' = pid_counter + 1
    /\ \/ /\ t \notin live
          /\ live' = live \cup {t}
          /\ state' = [state EXCEPT ![t] = "READY"]
          /\ pid' = [pid EXCEPT ![t] = pid_counter]
          /\ parent' = [parent EXCEPT ![t] = current]
          /\ ppid' = [ppid EXCEPT ![t] = pid[current]]
          /\ waiting' = [waiting EXCEPT ![t] = 0]
       \/ UNCHANGED <<live, state, pid, parent, ppid, waiting>>
    /\ UNCHANGED <<current, cr3, kernel_stack, overflow>>

\* sched::exit, from SYS_EXIT, an exception or a kill of oneself.
exit ==
    /\ InUser /\ current # kernel_task
    /\ schedule(live, [state EXCEPT ![current] = "DEAD"])
    /\ UNCHANGED <<pid, parent, waiting, pid_counter, ppid, overflow>>

find(p) == {t \in live : pid[t] = p}

\* Mutant: a task that is gone is waited for.
sys_wait_gone(p) ==
    /\ ~ overflow /\ current # kernel_task
    /\ waiting[current] \in {0, p}
    /\ \/ /\ \E t \in find(p) : state[t] = "DEAD"
          /\ live' = live \ (find(p) \ {current})
          /\ waiting' = [waiting EXCEPT ![current] = 0]
          /\ UNCHANGED <<state, current, cr3, kernel_stack>>
       \/ /\ \A t \in find(p) : state[t] # "DEAD"
          /\ waiting' = [waiting EXCEPT ![current] = p]
          /\ schedule(live, state)
    /\ UNCHANGED <<pid, parent, pid_counter, ppid, overflow>>

\* sys_wait: one turn of its loop.  The task is resumed with interrupts
\* off, so the next turn follows at once.
sys_wait(p) ==
    /\ ~ overflow /\ current # kernel_task
    /\ waiting[current] \in {0, p}
    /\ \/ /\ \A t \in find(p) : state[t] = "DEAD"
          /\ live' = live \ (find(p) \ {current})
          /\ waiting' = [waiting EXCEPT ![current] = 0]
          /\ UNCHANGED <<state, current, cr3, kernel_stack>>
       \/ /\ \E t \in find(p) : state[t] # "DEAD"
          /\ waiting' = [waiting EXCEPT ![current] = p]
          /\ schedule(live, state)
    /\ UNCHANGED <<pid, parent, pid_counter, ppid, overflow>>

----------------------------------------------------------------------------
\* kill_task_tree descends along the parent pointers.
Kids(T) == {t \in live : parent[t] \in T /\ t # parent[t]}

Tree[t \in Tasks, n \in Nat] ==
    IF n = 0 THEN {t} ELSE Tree[t, n - 1] \cup Kids(Tree[t, n - 1])

\* Mutant: the children are forgotten.
Subtree_alone(t) == {t}

Subtree(t) == Tree[t, Cardinality(Tasks)]

\* A task of the subtree is reached again from below.
Loops(t) == \E u \in Subtree(t) : \E k \in Kids({u}) : u \in Subtree(k)

\* sys_kill of another task: the whole subtree is marked dead and taken off
\* the list, except the current task, which only stays marked.
sys_kill(t) ==
    /\ InUser /\ current # kernel_task
    /\ t \in live \ {current}
    /\ pid[t] # 1
    /\ IF Loops(t)
         THEN overflow' = TRUE /\ UNCHANGED <<live, state>>
         ELSE /\ live' = live \ (Subtree(t) \ {current})
              /\ state' = [u \in AllTasks |-> IF u \in Subtree(t) THEN "DEAD" ELSE state[u]]
              /\ UNCHANGED overflow
    /\ UNCHANGED <<pid, parent, current, cr3, kernel_stack, waiting,
                   pid_counter, ppid>>

\* The kernel stack is overrun: nothing is known of what follows.
lost == overflow /\ UNCHANGED vars

Next ==
    \/ timer_irq
    \/ \E t \in Tasks : clone(t) \/ sys_kill(t)
    \/ exit
    \/ \E p \in Pids : sys_wait(p)
    \/ lost

\* Interrupts keep coming, and a task inside sys_wait does nothing else.
Spec ==
    /\ Init /\ [][Next]_vars
    /\ WF_vars(timer_irq)
    /\ \A p \in Pids \ {0} : WF_vars(waiting[current] = p /\ sys_wait(p))

----------------------------------------------------------------------------
TypeOK ==
    /\ live \subseteq Tasks
    /\ state \in [AllTasks -> {"READY", "RUNNING", "DEAD"}]
    /\ pid \in [AllTasks -> Pids] /\ ppid \in [AllTasks -> Pids]
    /\ parent \in [AllTasks -> AllTasks]
    /\ {current, cr3, kernel_stack} \subseteq AllTasks
    /\ waiting \in [AllTasks -> Pids]
    /\ pid_counter \in 2 .. MaxPid + 1
    /\ overflow \in BOOLEAN

\* The current task is never freed under its own feet, it is the only one
\* marked RUNNING, and user code runs with its own address space and with
\* interrupts going to its own kernel stack.
CurrentOwnsCpu ==
    current # kernel_task =>
        /\ current \in live
        /\ cr3 = current /\ kernel_stack = current
        /\ \A t \in live : state[t] = "RUNNING" => t = current

\* Two tasks on the list never have the same pid, even when their blocks are
\* reused: what sys_wait and sys_kill find is the task that was meant.
PidsUnique ==
    \A t, u \in live : pid[t] = pid[u] => t = u

\* A dead task never runs again, except that the last one has nobody to
\* hand over to, or that a task killed its own ancestor and has not been
\* interrupted since.  Dead tasks are not picked.
DeadStayDead ==
    [][\A t \in live \cap live' : state[t] = "DEAD" =>
          state'[t] = "DEAD" /\ (current' = t => current = t)]_vars

\* sys_kill reaches exactly the tasks that descend from its target by fork,
\* and comes to an end, as long as no task on the list has outlived the task
\* that forked it.  (After that a parent pointer may name a reused block.)
NoOrphans == \A t \in live : pid[t] # 1 =>
                parent[t] \in live /\ pid[parent[t]] = ppid[t]

Descends(t, u) == \E n \in 0 .. Cardinality(Tasks) :
    \E f \in [0 .. n -> live] :
        f[0] = u /\ f[n] = t /\ \A i \in 1 .. n : ppid[f[i - 1]] = pid[f[i]]

KillsTheTree ==
    [][NoOrphans =>
         /\ ~ overflow'
         /\ \A t \in live \ live' : state[t] = "DEAD" \/
              \E k \in live \ live' :
                 /\ Descends(k, t)
                 /\ \A u \in live : Descends(k, u) => u \notin live' \/ state'[u] = "DEAD"]_vars

\* Round robin: a READY task gets the CPU, or dies first.
NoStarvation ==
    \A t \in Tasks : (t \in live /\ state[t] = "READY") ~>
                     (current = t \/ t \notin live \/ state[t] = "DEAD" \/ overflow)

\* sys_wait returns once its target is dead or gone.
WaitReturns ==
    \A t \in Tasks : \A p \in Pids \ {0} :
        (t \in live /\ waiting[t] = p /\ \A u \in find(p) : state[u] = "DEAD")
          ~> (waiting[t] = 0 \/ t \notin live \/ state[t] = "DEAD" \/ overflow)
=============================================================================
