-------------------------- MODULE SchedulerProofs ---------------------------
(***************************************************************************)
(* Proofs about the scheduler and the task list, for any number of tasks   *)
(* and pids.                                                               *)
(*                                                                         *)
(* Scheduler: CurrentOwnsCpu is inductive only together with the fact that *)
(* no task but the current one is marked RUNNING even before the first     *)
(* switch, and PidsUnique only together with the bound of every listed pid *)
(* by pid_counter.                                                         *)
(*                                                                         *)
(* TaskList: the invariant ListInv says that the pointers chain the tasks  *)
(* of a sequence in the order of their pids (Chained), that this sequence  *)
(* is the one that following the pointers spells out, and that reap has    *)
(* every dead task it may free before it (Walk).  Each action does one     *)
(* thing to the sequence, and that thing is a step of TaskQueue.           *)
(***************************************************************************)
EXTENDS Scheduler, TaskList, FiniteSetTheorems, SequenceTheorems,
        WellFoundedInduction, TLAPS

Cpu ==
    /\ current # kernel_task =>
         current \in live /\ cr3 = current /\ kernel_stack = current
    /\ \A t \in live : state[t] = "RUNNING" => t = current

PidsBounded == \A t \in live : pid[t] < pid_counter

IInv == TypeOK /\ Cpu /\ PidsUnique /\ PidsBounded

\* What schedule() keeps when it is called with a list and with states that
\* already satisfy the invariant: the caller's list may have been cut and
\* the current task marked dead.
LEMMA ScheduleKeeps ==
    ASSUME TypeOK, Cpu,
           NEW S \in [AllTasks -> {"READY", "RUNNING", "DEAD"}],
           \A t \in live : S[t] = "RUNNING" => t = current,
           schedule(live, S)
    PROVE  /\ live' \subseteq live
           /\ state' \in [AllTasks -> {"READY", "RUNNING", "DEAD"}]
           /\ {current', cr3', kernel_stack'} \subseteq AllTasks
           /\ current' # kernel_task =>
                current' \in live' /\ cr3' = current' /\ kernel_stack' = current'
           /\ \A t \in live' : state'[t] = "RUNNING" => t = current'
<1> DEFINE L1 == live \ reap(live, S)
           S1 == [S EXCEPT ![current] = IF @ = "RUNNING" THEN "READY" ELSE @]
           R == {t \in L1 : S1[t] = "READY"}
<1>1. L1 \subseteq live /\ (current \in live => current \in L1)
  BY DEF reap
<1>2. S1 \in [AllTasks -> {"READY", "RUNNING", "DEAD"}]
  BY DEF TypeOK
<1>3. \A t \in L1 : S1[t] # "RUNNING"
  <2> TAKE t \in L1
  <2>1. t \in AllTasks /\ current \in AllTasks
    BY <1>1 DEF TypeOK, AllTasks
  <2>2. CASE t = current
    BY <2>1, <2>2
  <2>3. CASE t # current
    BY <2>1, <2>3, <1>1
  <2> QED BY <2>2, <2>3
<1>4. live' = L1
  BY DEF schedule
<1>5. \/ /\ state' = S1
         /\ UNCHANGED <<current, cr3, kernel_stack>>
      \/ \E t \in Tasks : /\ IsNext(R, t)
                          /\ current' = t
                          /\ state' = [S1 EXCEPT ![t] = "RUNNING"]
                          /\ cr3' = t
                          /\ kernel_stack' = t
  BY DEF schedule
<1> HIDE DEF L1, S1
<1>6. CASE state' = S1 /\ UNCHANGED <<current, cr3, kernel_stack>>
  BY <1>1, <1>2, <1>3, <1>4, <1>6 DEF TypeOK, Cpu
<1>7. CASE \E t \in Tasks : /\ IsNext(R, t)
                            /\ current' = t
                            /\ state' = [S1 EXCEPT ![t] = "RUNNING"]
                            /\ cr3' = t
                            /\ kernel_stack' = t
  <2> PICK t \in Tasks : /\ IsNext(R, t)
                         /\ current' = t
                         /\ state' = [S1 EXCEPT ![t] = "RUNNING"]
                         /\ cr3' = t
                         /\ kernel_stack' = t
    BY <1>7
  <2>1. t \in L1
    BY DEF IsNext
  <2>2. t \in AllTasks
    BY DEF AllTasks
  <2>3. \A u \in L1 : u \in AllTasks
    BY <1>1 DEF TypeOK, AllTasks
  <2>4. \A u \in L1 : state'[u] = "RUNNING" => u = t
    BY <1>2, <1>3, <2>3
  <2> QED BY <1>1, <1>2, <1>4, <2>1, <2>2, <2>4
<1> QED BY <1>5, <1>6, <1>7

\* A smaller list with the same pids keeps them unique and bounded.
LEMMA ShrinkKeepsPids ==
    ASSUME PidsUnique, PidsBounded, live' \subseteq live, pid' = pid,
           pid_counter' = pid_counter
    PROVE  PidsUnique' /\ PidsBounded'
  BY DEF PidsUnique, PidsBounded

\* Before the first switch there is only the kernel task.
LEMMA InitIInv == Init => IInv
<1> SUFFICES ASSUME Init PROVE IInv
  OBVIOUS
<1>1. init \in Tasks
  BY TasksAssumption DEF init
<1>2. init # kernel_task /\ init \in AllTasks /\ kernel_task \in AllTasks
  BY <1>1, TasksAssumption DEF AllTasks
<1>3. TypeOK
  <2>1. 0 \in Pids /\ 1 \in Pids /\ 2 \in 2 .. MaxPid + 1
    BY TasksAssumption DEF Pids
  <2>2. /\ pid \in [AllTasks -> Pids] /\ ppid \in [AllTasks -> Pids]
        /\ waiting \in [AllTasks -> Pids] /\ pid_counter \in 2 .. MaxPid + 1
    BY <2>1 DEF Init
  <2>3. /\ live \subseteq Tasks
        /\ state \in [AllTasks -> {"READY", "RUNNING", "DEAD"}]
        /\ parent \in [AllTasks -> AllTasks]
        /\ {current, cr3, kernel_stack} \subseteq AllTasks
    BY <1>1, <1>2 DEF Init
  <2>4. overflow \in BOOLEAN
    BY DEF Init
  <2> QED BY <2>2, <2>3, <2>4 DEF TypeOK
<1>4. Cpu
  BY <1>1, <1>2 DEF Init, Cpu
<1>5. PidsUnique /\ PidsBounded
  BY <1>1, <1>2 DEF Init, PidsUnique, PidsBounded
<1> QED BY <1>3, <1>4, <1>5 DEF IInv

\* Every step keeps the invariant.
LEMMA NextIInv == IInv /\ [Next]_vars => IInv'
<1> SUFFICES ASSUME IInv, [Next]_vars PROVE IInv'
  OBVIOUS
<1> USE DEF IInv
<1>1. CASE timer_irq
  <2>1. schedule(live, state) /\ UNCHANGED <<pid, parent, waiting, pid_counter, ppid, overflow>>
    BY <1>1 DEF timer_irq
  <2>2. state \in [AllTasks -> {"READY", "RUNNING", "DEAD"}]
    BY DEF TypeOK
  <2>3. \A t \in live : state[t] = "RUNNING" => t = current
    BY DEF Cpu
  <2> QED BY <2>1, <2>2, <2>3, ScheduleKeeps, ShrinkKeepsPids DEF TypeOK, Cpu
<1>2. CASE exit
  <2> DEFINE S == [state EXCEPT ![current] = "DEAD"]
  <2>1. schedule(live, S) /\ UNCHANGED <<pid, parent, waiting, pid_counter, ppid, overflow>>
    BY <1>2 DEF exit
  <2>2. S \in [AllTasks -> {"READY", "RUNNING", "DEAD"}]
    BY DEF TypeOK
  <2>3. \A t \in live : S[t] = "RUNNING" => t = current
    BY DEF Cpu, TypeOK, AllTasks
  <2> HIDE DEF S
  <2> QED BY <2>1, <2>2, <2>3, ScheduleKeeps, ShrinkKeepsPids DEF TypeOK, Cpu
<1>3. ASSUME NEW t \in Tasks, clone(t) PROVE IInv'
  <2>1. /\ pid_counter' = pid_counter + 1 /\ pid_counter \in Pids /\ pid_counter \in 2 .. MaxPid
        /\ UNCHANGED <<current, cr3, kernel_stack, overflow>>
    BY <1>3, TasksAssumption DEF clone, TypeOK, Pids
  <2>2. t \in AllTasks /\ current \in AllTasks
    BY DEF TypeOK, AllTasks
  <2>3. CASE /\ t \notin live
             /\ live' = live \cup {t}
             /\ state' = [state EXCEPT ![t] = "READY"]
             /\ pid' = [pid EXCEPT ![t] = pid_counter]
             /\ parent' = [parent EXCEPT ![t] = current]
             /\ ppid' = [ppid EXCEPT ![t] = pid[current]]
             /\ waiting' = [waiting EXCEPT ![t] = 0]
    <3>1. TypeOK'
      BY <2>1, <2>2, <2>3, TasksAssumption DEF TypeOK, Pids
    <3>2. \A u \in live : u \in AllTasks /\ u # t
      BY <2>3 DEF TypeOK, AllTasks
    <3>3. Cpu'
      BY <2>1, <2>2, <2>3, <3>2 DEF Cpu, TypeOK
    <3>4. /\ \A u \in live : pid'[u] = pid[u] /\ pid[u] \in Int
          /\ pid'[t] = pid_counter
      BY <2>2, <2>3, <3>2, TasksAssumption DEF TypeOK, Pids
    <3>5. PidsBounded'
      BY <2>1, <2>3, <3>4 DEF PidsBounded
    <3>6. PidsUnique'
      BY <2>1, <2>3, <3>4 DEF PidsBounded, PidsUnique
    <3> QED BY <3>1, <3>3, <3>5, <3>6
  <2>4. CASE UNCHANGED <<live, state, pid, parent, ppid, waiting>>
    <3>1. TypeOK' /\ Cpu'
      BY <2>1, <2>4, TasksAssumption DEF TypeOK, Cpu
    <3>2. \A u \in live : pid[u] \in Int
      BY TasksAssumption DEF TypeOK, Pids, AllTasks
    <3> QED BY <2>1, <2>4, <3>1, <3>2 DEF PidsUnique, PidsBounded
  <2> QED BY <1>3, <2>3, <2>4 DEF clone
<1>4. ASSUME NEW p \in Pids, sys_wait(p) PROVE IInv'
  <2>1. UNCHANGED <<pid, parent, pid_counter, ppid, overflow>>
    BY <1>4 DEF sys_wait
  <2>2. CASE /\ live' = live \ (find(p) \ {current})
             /\ waiting' = [waiting EXCEPT ![current] = 0]
             /\ UNCHANGED <<state, current, cr3, kernel_stack>>
    <3>1. TypeOK'
      BY <2>1, <2>2, TasksAssumption DEF TypeOK, Pids
    <3>2. Cpu'
      BY <2>2 DEF Cpu
    <3> QED BY <2>1, <2>2, <3>1, <3>2, ShrinkKeepsPids
  <2>3. CASE waiting' = [waiting EXCEPT ![current] = p] /\ schedule(live, state)
    <3>1. state \in [AllTasks -> {"READY", "RUNNING", "DEAD"}]
      BY DEF TypeOK
    <3>2. \A t \in live : state[t] = "RUNNING" => t = current
      BY DEF Cpu
    <3> QED BY <2>1, <2>3, <3>1, <3>2, ScheduleKeeps, ShrinkKeepsPids DEF TypeOK, Cpu
  <2> QED BY <1>4, <2>2, <2>3 DEF sys_wait
<1>5. ASSUME NEW t \in Tasks, sys_kill(t) PROVE IInv'
  <2>1. UNCHANGED <<pid, parent, current, cr3, kernel_stack, waiting, pid_counter, ppid>>
    BY <1>5 DEF sys_kill
  <2>2. CASE overflow' = TRUE /\ UNCHANGED <<live, state>>
    BY <2>1, <2>2 DEF TypeOK, Cpu, PidsUnique, PidsBounded
  <2>3. CASE /\ live' = live \ (Subtree(t) \ {current})
             /\ state' = [u \in AllTasks |-> IF u \in Subtree(t) THEN "DEAD" ELSE state[u]]
             /\ UNCHANGED overflow
    <3>1. TypeOK'
      BY <2>1, <2>3 DEF TypeOK
    <3>2. Cpu'
      BY <2>1, <2>3 DEF Cpu, TypeOK, AllTasks
    <3> QED BY <2>1, <2>3, <3>1, <3>2, ShrinkKeepsPids
  <2> QED BY <1>5, <2>2, <2>3 DEF sys_kill
<1>6. CASE lost
  BY <1>6 DEF lost, vars, TypeOK, Cpu, PidsUnique, PidsBounded
<1>7. CASE UNCHANGED vars
  BY <1>7 DEF vars, TypeOK, Cpu, PidsUnique, PidsBounded
<1> QED BY <1>1, <1>2, <1>3, <1>4, <1>5, <1>6, <1>7 DEF Next

\* The inductive invariant holds in every reachable state.
THEOREM IInvHolds == Spec => []IInv
<1>1. Init => IInv
  BY InitIInv
<1>2. IInv /\ [Next]_vars => IInv'
  BY NextIInv
<1> QED BY <1>1, <1>2, PTL DEF Spec

\* Every variable of the scheduler keeps its type, whatever is forked,
\* waited for, killed and reaped.
THEOREM TypeCorrect == Spec => []TypeOK
<1>1. IInv => TypeOK
  BY DEF IInv
<1> QED BY <1>1, IInvHolds, PTL

\* schedule(), sys_wait and sys_kill never free the current task, and user
\* code always runs in its own address space and on its own kernel stack.
THEOREM CurrentSafe == Spec => []CurrentOwnsCpu
<1>1. IInv => CurrentOwnsCpu
  BY DEF IInv, Cpu, CurrentOwnsCpu
<1> QED BY <1>1, IInvHolds, PTL

\* find() has at most one answer: no two tasks on the list share a pid.
THEOREM PidsDistinct == Spec => []PidsUnique
<1>1. IInv => PidsUnique
  BY DEF IInv
<1> QED BY <1>1, IInvHolds, PTL

\* schedule() leaves dead tasks dead and does not pick one.
LEMMA ScheduleSparesDead ==
    ASSUME TypeOK, NEW S \in [AllTasks -> {"READY", "RUNNING", "DEAD"}],
           schedule(live, S), NEW t \in live, S[t] = "DEAD"
    PROVE  state'[t] = "DEAD" /\ (current' = t => current = t)
<1> DEFINE L1 == live \ reap(live, S)
           S1 == [S EXCEPT ![current] = IF @ = "RUNNING" THEN "READY" ELSE @]
           R == {u \in L1 : S1[u] = "READY"}
<1>1. t \in AllTasks /\ current \in AllTasks
  BY DEF TypeOK, AllTasks
<1>2. S1[t] = "DEAD"
  BY <1>1
<1>3. CASE state' = S1 /\ UNCHANGED <<current, cr3, kernel_stack>>
  BY <1>2, <1>3
<1>4. CASE \E u \in Tasks : /\ IsNext(R, u)
                            /\ current' = u
                            /\ state' = [S1 EXCEPT ![u] = "RUNNING"]
  <2> PICK u \in Tasks : /\ IsNext(R, u)
                         /\ current' = u
                         /\ state' = [S1 EXCEPT ![u] = "RUNNING"]
    BY <1>4
  <2>1. u # t
    BY <1>2 DEF IsNext
  <2>2. S1 \in [AllTasks -> {"READY", "RUNNING", "DEAD"}]
    BY <1>1
  <2> HIDE DEF S1
  <2> QED BY <1>1, <1>2, <2>1, <2>2
<1> QED BY <1>3, <1>4 DEF schedule

\* No step gives a dead task the CPU or another state, from a fork into a
\* reused block to the kill of an ancestor.
THEOREM DeadTasksStayDead == Spec => DeadStayDead
<1> DEFINE A == \A t \in live \cap live' : state[t] = "DEAD" =>
                  state'[t] = "DEAD" /\ (current' = t => current = t)
<1>1. IInv /\ [Next]_vars => [A]_vars
  <2> SUFFICES ASSUME IInv, Next,
                      NEW t \in live \cap live', state[t] = "DEAD"
               PROVE  state'[t] = "DEAD" /\ (current' = t => current = t)
    OBVIOUS
  <2> USE DEF IInv
  <2>1. t \in AllTasks /\ current \in AllTasks
    BY DEF TypeOK, AllTasks
  <2>2. state \in [AllTasks -> {"READY", "RUNNING", "DEAD"}]
    BY DEF TypeOK
  <2>3. CASE timer_irq
    BY <2>2, <2>3, ScheduleSparesDead DEF timer_irq
  <2>4. CASE exit
    <3> DEFINE S == [state EXCEPT ![current] = "DEAD"]
    <3>1. S \in [AllTasks -> {"READY", "RUNNING", "DEAD"}] /\ S[t] = "DEAD"
      BY <2>1, <2>2
    <3>2. schedule(live, S)
      BY <2>4 DEF exit
    <3> HIDE DEF S
    <3> QED BY <3>1, <3>2, ScheduleSparesDead
  <2>5. ASSUME NEW u \in Tasks, clone(u)
        PROVE  state'[t] = "DEAD" /\ (current' = t => current = t)
    BY <2>1, <2>2, <2>5 DEF clone
  <2>6. ASSUME NEW p \in Pids, sys_wait(p)
        PROVE  state'[t] = "DEAD" /\ (current' = t => current = t)
    BY <2>2, <2>6, ScheduleSparesDead DEF sys_wait
  <2>7. ASSUME NEW u \in Tasks, sys_kill(u)
        PROVE  state'[t] = "DEAD" /\ (current' = t => current = t)
    BY <2>1, <2>7 DEF sys_kill
  <2>8. CASE lost
    BY <2>8 DEF lost, vars
  <2> QED BY <2>3, <2>4, <2>5, <2>6, <2>7, <2>8 DEF Next
<1> QED BY <1>1, IInvHolds, PTL DEF Spec, DeadStayDead

----------------------------------------------------------------------------
ListType ==
    /\ next \in [ListTasks -> ListTasks \cup {nullptr}]
    /\ list_pid \in [ListTasks -> Nat]
    /\ allocated \subseteq ListTasks /\ dead \subseteq allocated
    /\ list_current \in allocated \cup {boot_task}
    /\ list_current = boot_task => dead = {}
    /\ list_pid_counter \in Nat
    /\ \A x \in allocated : list_pid[x] < list_pid_counter

\* The blocks of s, and no others, are linked in the order of s, which is the
\* order of their pids.
Chained(h, e, nx, p, A, s) ==
    /\ s \in Seq(ListTasks)
    /\ h = IF Len(s) = 0 THEN nullptr ELSE s[1]
    /\ e = IF Len(s) = 0 THEN nullptr ELSE s[Len(s)]
    /\ \A i \in 1 .. Len(s) : nx[s[i]] = IF i = Len(s) THEN nullptr ELSE s[i + 1]
    /\ \A i \in 1 .. Len(s) : s[i] \in A
    /\ \A x \in A : \E i \in 1 .. Len(s) : x = s[i]
    /\ \A i, j \in 1 .. Len(s) : i < j => p[s[i]] < p[s[j]]

\* Where reap is: every dead task it may free is still before it.
Walk ==
    /\ reap_t \in allocated \cup {nullptr, idle}
    /\ reap_t \in allocated => \A x \in dead \ {list_current} : list_pid[reap_t] <= list_pid[x]
    /\ reap_t = nullptr => dead \subseteq {list_current}

ListInv == ListType /\ Walk /\ Chained(head, tail, next, list_pid, allocated, List)
----------------------------------------------------------------------------
\* A set of numbers has a least element.
LEMMA LeastNumber ==
  ASSUME NEW T \in SUBSET Nat, T # {}
  PROVE  \E x \in T : \A y \in T : x <= y
<1>1. PICK x \in T : \A y \in T : ~ (<<y, x>> \in OpToRel(<, Nat))
  BY WFMin, NatLessThanWellFounded
<1>2. \A y \in T : ~ (y < x)
  BY <1>1 DEF OpToRel
<1> QED
  BY <1>2

\* The blocks of s are linked from h on.
LinkedFrom(h, nx, s) ==
    /\ h = IF Len(s) = 0 THEN nullptr ELSE s[1]
    /\ \A i \in 1 .. Len(s) : nx[s[i]] = IF i = Len(s) THEN nullptr ELSE s[i + 1]

\* Following the pointers goes through s and then stays at the null pointer.
LEMMA FollowsChain ==
  ASSUME NEW h, NEW nx, NEW s \in Seq(ListTasks), LinkedFrom(h, nx, s)
  PROVE  \A n \in Nat : Follow(h, nx)[n] = IF n < Len(s) THEN s[n + 1] ELSE nullptr
<1> USE DEF LinkedFrom
<1> DEFINE D(v) == v = [n \in Nat |-> IF n = 0 THEN h
                                      ELSE IF v[n - 1] = nullptr THEN nullptr ELSE nx[v[n - 1]]]
           w == [n \in Nat |-> IF n < Len(s) THEN s[n + 1] ELSE nullptr]
<1>0. Len(s) \in Nat /\ \A i \in 1 .. Len(s) : s[i] # nullptr
  BY TaskListAssumption
<1>1. D(w)
  <2>1. ASSUME NEW n \in Nat
        PROVE  w[n] = IF n = 0 THEN h ELSE IF w[n - 1] = nullptr THEN nullptr ELSE nx[w[n - 1]]
    <3>1. CASE n = 0
      BY <1>0, <3>1
    <3>2. CASE n # 0 /\ n - 1 < Len(s)
      <4>1. n \in 1 .. Len(s) /\ w[n - 1] = s[n] /\ w[n - 1] # nullptr
        BY <1>0, <3>2
      <4>2. nx[s[n]] = IF n = Len(s) THEN nullptr ELSE s[n + 1]
        BY <4>1
      <4>3. w[n] = IF n = Len(s) THEN nullptr ELSE s[n + 1]
        BY <1>0, <4>1
      <4> HIDE DEF w
      <4> QED BY <3>2, <4>1, <4>2, <4>3
    <3>3. CASE n # 0 /\ ~ (n - 1 < Len(s))
      BY <1>0, <3>3
    <3> QED BY <3>1, <3>2, <3>3
  <2> QED BY <2>1
<1>2. D(Follow(h, nx))
  <2>1. Follow(h, nx) = CHOOSE v : D(v)
    BY DEF Follow
  <2> HIDE DEF D
  <2> QED BY <1>1, <2>1
<1> DEFINE T == {n \in Nat : Follow(h, nx)[n] # w[n]}
<1>3. T = {}
  <2> SUFFICES ASSUME T # {} PROVE FALSE
    OBVIOUS
  <2>1. PICK x \in T : \A y \in T : x <= y
    BY LeastNumber
  <2>2. CASE x = 0
    BY <1>1, <1>2, <2>1, <2>2
  <2>3. CASE x # 0
    <3>1. x - 1 \in Nat /\ x \in Nat
      BY <2>1, <2>3
    <3>2. Follow(h, nx)[x - 1] = w[x - 1]
      BY <2>1, <3>1
    <3>3. Follow(h, nx)[x] = IF Follow(h, nx)[x - 1] = nullptr THEN nullptr ELSE nx[Follow(h, nx)[x - 1]]
      BY <1>2, <2>3, <3>1
    <3>4. w[x] = IF w[x - 1] = nullptr THEN nullptr ELSE nx[w[x - 1]]
      <4> HIDE DEF w
      <4> QED BY <1>1, <2>3, <3>1
    <3> HIDE DEF w
    <3> QED BY <2>1, <3>2, <3>3, <3>4
  <2> QED BY <2>2, <2>3
<1> QED BY <1>3

\* The list that the pointers spell out is s.
LEMMA SpelledIs ==
  ASSUME NEW h, NEW e, NEW nx, NEW p, NEW A, NEW s, Chained(h, e, nx, p, A, s),
         \A x \in ListTasks : p[x] \in Nat
  PROVE  Spelled(h, nx) = s
<1>1. s \in Seq(ListTasks) /\ Len(s) \in Nat /\ \A i \in 1 .. Len(s) : s[i] \in ListTasks
  <2>1. s \in Seq(ListTasks)
    BY Zenon DEF Chained
  <2> QED BY <2>1
<1>2. \A n \in Nat : Follow(h, nx)[n] = IF n < Len(s) THEN s[n + 1] ELSE nullptr
  <2>1. LinkedFrom(h, nx, s)
    BY Zenon DEF Chained, LinkedFrom
  <2> QED BY <1>1, <2>1, FollowsChain
<1>3. \A i, j \in 1 .. Len(s) : s[i] = s[j] => i = j
  <2>1. \A i, j \in 1 .. Len(s) : i < j => p[s[i]] < p[s[j]]
    BY Zenon DEF Chained
  <2>2. ASSUME NEW i \in 1 .. Len(s), NEW j \in 1 .. Len(s), i < j PROVE s[i] # s[j]
    <3>1. p[s[i]] < p[s[j]] /\ p[s[i]] \in Nat
      BY <1>1, <2>1, <2>2
    <3> QED BY <3>1
  <2> QED BY <1>1, <2>2
<1>4. IsFiniteSet(1 .. Len(s)) /\ Cardinality(1 .. Len(s)) = Len(s)
  <2>1. 1 \in Int /\ Len(s) \in Int
    BY <1>1
  <2>2. /\ IsFiniteSet(1 .. Len(s))
        /\ Cardinality(1 .. Len(s)) = IF 1 > Len(s) THEN 0 ELSE Len(s) - 1 + 1
    BY <2>1, FS_Interval
  <2> QED BY <1>1, <2>2
<1>5. Len(s) <= Cardinality(ListTasks) /\ Cardinality(ListTasks) \in Nat
  <2>1. IsFiniteSet(ListTasks) /\ Cardinality(ListTasks) \in Nat
    BY TaskListAssumption, FS_CardinalityType
  <2>2. s \in Injection(1 .. Len(s), ListTasks)
    BY <1>1, <1>3 DEF Injection, IsInjective
  <2> QED BY <1>4, <2>1, <2>2, FS_Injection
<1>6. {n \in 0 .. Cardinality(ListTasks) : Follow(h, nx)[n] # nullptr} = 0 .. Len(s) - 1
  <2>1. \A i \in 1 .. Len(s) : s[i] # nullptr
    BY <1>1, TaskListAssumption
  <2>2. ASSUME NEW n \in 0 .. Cardinality(ListTasks)
        PROVE  Follow(h, nx)[n] # nullptr <=> n \in 0 .. Len(s) - 1
    <3>1. CASE n < Len(s)
      <4>1. n + 1 \in 1 .. Len(s) /\ Follow(h, nx)[n] = s[n + 1]
        BY <1>1, <1>2, <1>5, <3>1
      <4> QED BY <1>1, <1>5, <2>1, <3>1, <4>1
    <3>2. CASE ~ (n < Len(s))
      BY <1>1, <1>2, <1>5, <3>2
    <3> QED BY <3>1, <3>2
  <2> QED BY <1>1, <1>5, <2>2
<1>7. Length(h, nx) = Len(s)
  <2>1. Cardinality(0 .. Len(s) - 1) = Len(s)
    <3>1. 0 \in Int /\ Len(s) - 1 \in Int
      BY <1>1
    <3>2. Cardinality(0 .. Len(s) - 1) = IF 0 > Len(s) - 1 THEN 0 ELSE (Len(s) - 1) - 0 + 1
      BY <3>1, FS_Interval
    <3> QED BY <1>1, <3>2
  <2> QED BY <1>6, <2>1 DEF Length
<1>8. s = [i \in 1 .. Len(s) |-> s[i]]
  BY <1>1
<1>9. \A i \in 1 .. Len(s) : Follow(h, nx)[i - 1] = s[i]
  BY <1>1, <1>2
<1> QED BY <1>7, <1>8, <1>9 DEF Spelled

\* Two places of a chain hold different blocks.
LEMMA ChainDistinct ==
  ASSUME NEW h, NEW e, NEW nx, NEW p, NEW A, NEW s, Chained(h, e, nx, p, A, s),
         \A x \in ListTasks : p[x] \in Nat
  PROVE  /\ s \in Seq(ListTasks) /\ Len(s) \in Nat
         /\ \A i \in 1 .. Len(s) : s[i] \in ListTasks /\ s[i] \in A
         /\ \A i, j \in 1 .. Len(s) : s[i] = s[j] => i = j
<1>1. s \in Seq(ListTasks) /\ \A i \in 1 .. Len(s) : s[i] \in A
  BY Zenon DEF Chained
<1>2. Len(s) \in Nat /\ \A i \in 1 .. Len(s) : s[i] \in ListTasks
  BY <1>1
<1>3. \A i, j \in 1 .. Len(s) : i < j => p[s[i]] < p[s[j]]
  BY Zenon DEF Chained
<1>4. ASSUME NEW i \in 1 .. Len(s), NEW j \in 1 .. Len(s), i < j PROVE s[i] # s[j]
  <2>1. p[s[i]] < p[s[j]] /\ p[s[i]] \in Nat
    BY <1>2, <1>3, <1>4
  <2> QED BY <2>1
<1> QED BY <1>1, <1>2, <1>4

\* add() links a new block, with the greatest pid so far, behind the tail.
LEMMA ChainAppend ==
  ASSUME NEW h, NEW e, NEW nx, NEW p \in [ListTasks -> Nat], NEW A, NEW s,
         Chained(h, e, nx, p, A, s),
         NEW x \in ListTasks, x \notin A, NEW c \in Nat, \A y \in A : p[y] < c,
         NEW nx2, NEW p2, p2 = [p EXCEPT ![x] = c],
         nx \in [ListTasks -> ListTasks \cup {nullptr}],
         nx2 = IF h = nullptr
                 THEN [nx EXCEPT ![x] = nullptr]
                 ELSE [y \in ListTasks |-> IF y = x THEN nullptr ELSE IF y = e THEN x ELSE nx[y]]
  PROVE  Chained(IF h = nullptr THEN x ELSE h, x, nx2, p2, A \cup {x}, Append(s, x))
<1> DEFINE u == Append(s, x)
<1>1. /\ s \in Seq(ListTasks) /\ Len(s) \in Nat
      /\ \A i \in 1 .. Len(s) : s[i] \in ListTasks /\ s[i] \in A
      /\ \A i, j \in 1 .. Len(s) : s[i] = s[j] => i = j
  <2>1. \A y \in ListTasks : p[y] \in Nat
    OBVIOUS
  <2> QED BY <2>1, ChainDistinct
<1>2. /\ u \in Seq(ListTasks) /\ Len(u) = Len(s) + 1 /\ u[Len(s) + 1] = x
      /\ \A i \in 1 .. Len(s) : u[i] = s[i]
  BY <1>1
<1>3. /\ h = IF Len(s) = 0 THEN nullptr ELSE s[1]
      /\ e = IF Len(s) = 0 THEN nullptr ELSE s[Len(s)]
      /\ \A i \in 1 .. Len(s) : nx[s[i]] = IF i = Len(s) THEN nullptr ELSE s[i + 1]
      /\ \A y \in A : \E i \in 1 .. Len(s) : y = s[i]
      /\ \A i, j \in 1 .. Len(s) : i < j => p[s[i]] < p[s[j]]
  BY Zenon DEF Chained
<1> HIDE DEF u
<1>4. h = nullptr <=> Len(s) = 0
  BY <1>1, <1>3, TaskListAssumption
<1>5. \A i \in 1 .. Len(s) : s[i] # x
  BY <1>1
<1>6. (IF h = nullptr THEN x ELSE h) = IF Len(u) = 0 THEN nullptr ELSE u[1]
  <2>1. CASE Len(s) = 0
    BY <1>1, <1>2, <1>4, <2>1
  <2>2. CASE Len(s) # 0
    <3>1. 1 \in 1 .. Len(s) /\ Len(u) # 0
      BY <1>1, <1>2, <2>2
    <3>2. u[1] = s[1] /\ h = s[1] /\ h # nullptr
      BY <1>2, <1>3, <1>4, <2>2, <3>1
    <3> QED BY <3>1, <3>2
  <2> QED BY <2>1, <2>2
<1>7. x = IF Len(u) = 0 THEN nullptr ELSE u[Len(u)]
  BY <1>1, <1>2
<1>8. ASSUME NEW i \in 1 .. Len(u) PROVE nx2[u[i]] = IF i = Len(u) THEN nullptr ELSE u[i + 1]
  <2>1. CASE i = Len(u)
    <3>1. u[i] = x
      BY <1>2, <2>1
    <3>2. nx2[x] = nullptr
      BY <1>1
    <3> QED BY <2>1, <3>1, <3>2
  <2>2. CASE i # Len(u)
    <3>1. i \in 1 .. Len(s) /\ u[i] = s[i] /\ s[i] # x /\ s[i] \in ListTasks /\ Len(s) # 0
      BY <1>1, <1>2, <1>5, <2>2
    <3>2. nx2[s[i]] = IF s[i] = e THEN x ELSE nx[s[i]]
      BY <1>4, <3>1
    <3>3. e = s[Len(s)] /\ Len(s) \in 1 .. Len(s)
      BY <1>1, <1>3, <3>1
    <3>4. CASE i = Len(s)
      BY <1>2, <2>2, <3>1, <3>2, <3>3, <3>4
    <3>5. CASE i # Len(s)
      <4>1. s[i] # e
        BY <1>1, <3>1, <3>3, <3>5
      <4>2. i + 1 \in 1 .. Len(s) /\ u[i + 1] = s[i + 1]
        <5>1. i + 1 \in 1 .. Len(s)
          BY <1>1, <3>1, <3>5
        <5> QED BY <1>2, <5>1, Zenon
      <4>3. nx[s[i]] = s[i + 1]
        BY <1>3, <3>1, <3>5
      <4> QED BY <2>2, <3>1, <3>2, <4>1, <4>2, <4>3, Zenon
    <3> QED BY <3>4, <3>5
  <2> QED BY <2>1, <2>2
<1>9. ASSUME NEW i \in 1 .. Len(u) PROVE u[i] \in A \cup {x}
  <2>1. i \in 1 .. Len(s) \/ i = Len(s) + 1
    BY <1>1, <1>2
  <2> QED BY <1>1, <1>2, <2>1
<1>10. ASSUME NEW y \in A \cup {x} PROVE \E i \in 1 .. Len(u) : y = u[i]
  <2>1. CASE y = x
    <3>1. Len(s) + 1 \in 1 .. Len(u)
      BY <1>1, <1>2
    <3> QED BY <1>2, <2>1, <3>1
  <2>2. CASE y \in A
    <3>1. PICK i \in 1 .. Len(s) : y = s[i]
      BY <1>3, <2>2
    <3>2. i \in 1 .. Len(u) /\ u[i] = s[i]
      BY <1>1, <1>2
    <3> QED BY <3>1, <3>2
  <2> QED BY <2>1, <2>2
<1>11. ASSUME NEW i \in 1 .. Len(u), NEW j \in 1 .. Len(u), i < j PROVE p2[u[i]] < p2[u[j]]
  <2>1. i \in 1 .. Len(s) /\ u[i] = s[i] /\ s[i] # x /\ s[i] \in A /\ s[i] \in ListTasks
    BY <1>1, <1>2, <1>5, <1>11, SMTT(20)
  <2>2. p2[u[i]] = p[s[i]]
    BY <2>1
  <2>3. CASE j = Len(s) + 1
    <3>1. p2[u[j]] = c
      BY <1>2, <2>3
    <3> QED BY <2>1, <2>2, <3>1
  <2>4. CASE j # Len(s) + 1
    <3>1. j \in 1 .. Len(s) /\ u[j] = s[j] /\ s[j] # x /\ s[j] \in ListTasks
      BY <1>1, <1>2, <1>5, <2>4
    <3>2. p2[u[j]] = p[s[j]]
      BY <3>1
    <3> QED BY <1>3, <1>11, <2>1, <2>2, <3>1, <3>2
  <2> QED BY <2>3, <2>4
<1>12. Chained(IF h = nullptr THEN x ELSE h, x, nx2, p2, A \cup {x}, u)
  BY <1>2, <1>6, <1>7, <1>8, <1>9, <1>10, <1>11, Zenon DEF Chained
<1> QED BY <1>12 DEF u

\* A sequence without its k-th member.
CutAt(s, k) == [i \in 1 .. Len(s) - 1 |-> IF i < k THEN s[i] ELSE s[i + 1]]

\* What remove_and_destroy() makes of head, tail and next.
Unlinked(h, e, nx, A, x, h2, e2, nx2) ==
    LET P == {y \in A : nx[y] = x}
    IN  /\ h = x => h2 = nx[x] /\ e2 = (IF e = x THEN nx[x] ELSE e) /\ nx2 = nx
        /\ h # x => /\ h2 = h /\ e2 = (IF e = x THEN CHOOSE y \in P : TRUE ELSE e)
                    /\ nx2 = [y \in ListTasks |-> IF y \in P THEN nx[x] ELSE nx[y]]

\* remove_and_destroy() unlinks the block in place k.
LEMMA ChainRemove ==
  ASSUME NEW h, NEW e, NEW nx \in [ListTasks -> ListTasks \cup {nullptr}],
         NEW p \in [ListTasks -> Nat], NEW A, NEW s, Chained(h, e, nx, p, A, s),
         NEW k \in 1 .. Len(s), NEW x, x = s[k],
         NEW h2, NEW e2, NEW nx2, Unlinked(h, e, nx, A, x, h2, e2, nx2)
  PROVE  Chained(h2, e2, nx2, p, A \ {x}, CutAt(s, k))
<1> DEFINE P == {y \in A : nx[y] = x}
<1>0. /\ h = x => h2 = nx[x] /\ e2 = (IF e = x THEN nx[x] ELSE e) /\ nx2 = nx
      /\ h # x => /\ h2 = h /\ e2 = (IF e = x THEN CHOOSE y \in P : TRUE ELSE e)
                  /\ nx2 = [y \in ListTasks |-> IF y \in P THEN nx[x] ELSE nx[y]]
  BY DEF Unlinked
<1>1. /\ s \in Seq(ListTasks) /\ Len(s) \in Nat
      /\ \A i \in 1 .. Len(s) : s[i] \in ListTasks /\ s[i] \in A
      /\ \A i, j \in 1 .. Len(s) : s[i] = s[j] => i = j
  <2>1. \A y \in ListTasks : p[y] \in Nat
    OBVIOUS
  <2> QED BY <2>1, ChainDistinct
<1>2. /\ h = IF Len(s) = 0 THEN nullptr ELSE s[1]
      /\ e = IF Len(s) = 0 THEN nullptr ELSE s[Len(s)]
      /\ \A i \in 1 .. Len(s) : nx[s[i]] = IF i = Len(s) THEN nullptr ELSE s[i + 1]
      /\ \A y \in A : \E i \in 1 .. Len(s) : y = s[i]
      /\ \A i, j \in 1 .. Len(s) : i < j => p[s[i]] < p[s[j]]
  BY Zenon DEF Chained
<1> DEFINE u == CutAt(s, k)
<1>3. PICK m \in Nat : m = Len(s) /\ m >= 1 /\ k \in 1 .. m
  BY <1>1
<1>4. /\ u \in Seq(ListTasks) /\ Len(u) = m - 1
      /\ \A i \in 1 .. m - 1 : u[i] = IF i < k THEN s[i] ELSE s[i + 1]
  <2>1. u = [i \in 1 .. m - 1 |-> IF i < k THEN s[i] ELSE s[i + 1]]
    BY <1>3, Zenon DEF CutAt
  <2>2. \A i \in 1 .. m - 1 : (IF i < k THEN s[i] ELSE s[i + 1]) \in ListTasks
    BY <1>1, <1>3
  <2>3. u \in [1 .. m - 1 -> ListTasks] /\ m - 1 \in Nat
    BY <1>3, <2>1, <2>2
  <2>4. u \in Seq(ListTasks) /\ Len(u) = m - 1
    <3> HIDE DEF u
    <3> QED BY <2>3
  <2> QED BY <2>1, <2>4
<1> HIDE DEF u
<1>5. h = s[1] /\ e = s[m] /\ (h = x <=> k = 1) /\ (e = x <=> k = m)
  BY <1>1, <1>2, <1>3
<1>6. \A i \in 1 .. m : nx[s[i]] = IF i = m THEN nullptr ELSE s[i + 1]
  BY <1>2, <1>3
<1>7. k # 1 => P = {s[k - 1]}
  <2> SUFFICES ASSUME k # 1 PROVE P = {s[k - 1]}
    OBVIOUS
  <2>1. k - 1 \in 1 .. m /\ k - 1 # m /\ (k - 1) + 1 = k
    BY <1>3
  <2>2. s[k - 1] \in A /\ nx[s[k - 1]] = x
    BY <1>1, <1>3, <1>6, <2>1
  <2>3. ASSUME NEW y \in A, nx[y] = x PROVE y = s[k - 1]
    <3>1. PICK i \in 1 .. m : y = s[i]
      BY <1>2, <1>3
    <3>2. i # m
      BY <1>1, <1>3, <1>6, <2>3, <3>1, TaskListAssumption
    <3>3. s[i + 1] = s[k] /\ i + 1 \in 1 .. m
      BY <1>3, <1>6, <2>3, <3>1, <3>2
    <3>4. i + 1 = k
      BY <1>1, <1>3, <3>3
    <3> QED BY <3>1, <3>4
  <2> QED BY <2>2, <2>3
<1>8. \A y \in ListTasks : nx2[y] = IF k # 1 /\ y = s[k - 1] THEN nx[x] ELSE nx[y]
  <2>1. CASE k = 1
    BY <1>0, <1>5, <2>1
  <2>2. CASE k # 1
    <3>1. nx2 = [y \in ListTasks |-> IF y \in {s[k - 1]} THEN nx[x] ELSE nx[y]]
      BY <1>0, <1>5, <1>7, <2>2
    <3> QED BY <2>2, <3>1
  <2> QED BY <2>1, <2>2
<1>9. h2 = IF m - 1 = 0 THEN nullptr ELSE u[1]
  <2>1. CASE k = 1
    <3>1. h2 = nx[s[1]]
      BY <1>0, <1>5, <2>1
    <3>2. nx[s[1]] = IF 1 = m THEN nullptr ELSE s[2]
      <4>1. 1 \in 1 .. m /\ 1 + 1 = 2
        BY <1>3
      <4>2. nx[s[1]] = IF 1 = m THEN nullptr ELSE s[1 + 1]
        BY <1>6, <4>1, Zenon
      <4> QED BY <4>1, <4>2, Zenon
    <3>3. ASSUME m # 1 PROVE u[1] = s[2]
      <4>1. 1 \in 1 .. m - 1 /\ ~ (1 < k) /\ 1 + 1 = 2
        BY <1>3, <2>1, <3>3
      <4> QED BY <1>4, <4>1
    <3> QED BY <1>3, <3>1, <3>2, <3>3
  <2>2. CASE k # 1
    <3>1. m - 1 # 0 /\ u[1] = s[1]
      BY <1>3, <1>4, <2>2
    <3> QED BY <1>0, <1>5, <2>2, <3>1
  <2> QED BY <2>1, <2>2
<1>10. e2 = IF m - 1 = 0 THEN nullptr ELSE u[m - 1]
  <2>1. CASE k = m /\ m = 1
    BY <1>0, <1>3, <1>5, <1>6, <2>1
  <2>2. CASE k = m /\ m # 1
    <3>1. e2 = s[k - 1]
      BY <1>0, <1>5, <1>7, <2>2
    <3>2. u[m - 1] = s[m - 1]
      BY <1>3, <1>4, <2>2
    <3> QED BY <1>3, <2>2, <3>1, <3>2
  <2>3. CASE k # m
    <3>1. e2 = s[m]
      BY <1>0, <1>5, <2>3
    <3>2. m - 1 # 0 /\ u[m - 1] = s[m]
      <4>1. m - 1 \in 1 .. m - 1 /\ ~ (m - 1 < k) /\ (m - 1) + 1 = m
        BY <1>3, <2>3
      <4> QED BY <1>3, <1>4, <4>1
    <3> QED BY <3>1, <3>2
  <2> QED BY <2>1, <2>2, <2>3
<1>11. ASSUME NEW i \in 1 .. m - 1 PROVE nx2[u[i]] = IF i = m - 1 THEN nullptr ELSE u[i + 1]
  <2>1. CASE i < k - 1
    <3>1. u[i] = s[i] /\ u[i + 1] = s[i + 1] /\ i # m - 1 /\ i \in 1 .. m /\ k # 1 /\ k - 1 \in 1 .. m /\ i # m
      BY <1>3, <1>4, <2>1
    <3>2. s[i] # s[k - 1]
      BY <1>1, <1>3, <2>1, <3>1
    <3>3. nx2[s[i]] = nx[s[i]]
      BY <1>1, <1>3, <1>8, <3>1, <3>2
    <3> QED BY <1>6, <3>1, <3>3
  <2>2. CASE i = k - 1
    <3>1. u[i] = s[k - 1] /\ k # 1 /\ k - 1 \in 1 .. m
      BY <1>3, <1>4, <2>2
    <3>2. nx2[u[i]] = nx[s[k]]
      BY <1>1, <1>3, <1>8, <3>1
    <3>3. nx[s[k]] = IF k = m THEN nullptr ELSE s[k + 1]
      BY <1>3, <1>6
    <3>4. k # m => u[k] = s[k + 1]
      BY <1>3, <1>4
    <3> QED BY <1>3, <2>2, <3>2, <3>3, <3>4
  <2>3. CASE i >= k
    <3>1. u[i] = s[i + 1] /\ i + 1 \in 1 .. m
      BY <1>3, <1>4, <2>3
    <3>2. k # 1 => s[i + 1] # s[k - 1]
      BY <1>1, <1>3, <2>3, <3>1
    <3>3. nx2[u[i]] = nx[s[i + 1]]
      BY <1>1, <1>3, <1>8, <3>1, <3>2
    <3>4. nx[s[i + 1]] = IF i + 1 = m THEN nullptr ELSE s[i + 1 + 1]
      BY <1>6, <3>1
    <3>5. i # m - 1 => u[i + 1] = s[i + 1 + 1]
      BY <1>3, <1>4, <2>3, SMTT(20)
    <3> QED BY <1>3, <3>3, <3>4, <3>5
  <2> QED BY <1>3, <2>1, <2>2, <2>3
<1>12. ASSUME NEW i \in 1 .. m - 1
       PROVE  \E j \in 1 .. m : j # k /\ u[i] = s[j] /\ (i < k => j = i) /\ (~ (i < k) => j = i + 1)
  <2>1. CASE i < k
    <3>1. i \in 1 .. m /\ i # k /\ u[i] = s[i]
      BY <1>3, <1>4, <2>1
    <3> QED BY <2>1, <3>1
  <2>2. CASE ~ (i < k)
    <3>1. i + 1 \in 1 .. m /\ i + 1 # k /\ u[i] = s[i + 1]
      BY <1>3, <1>4, <2>2
    <3> QED BY <2>2, <3>1
  <2> QED BY <2>1, <2>2
<1>13. \A i \in 1 .. m - 1 : u[i] \in A \ {x}
  BY <1>1, <1>3, <1>12
<1>14. ASSUME NEW y \in A \ {x} PROVE \E i \in 1 .. m - 1 : y = u[i]
  <2>1. PICK j \in 1 .. m : y = s[j]
    BY <1>2, <1>3
  <2>2. CASE j < k
    <3>1. j \in 1 .. m - 1 /\ u[j] = s[j]
      BY <1>3, <1>4, <2>2
    <3> QED BY <2>1, <3>1
  <2>3. CASE j > k
    <3>1. j - 1 \in 1 .. m - 1 /\ u[j - 1] = s[j]
      BY <1>3, <1>4, <2>3
    <3> QED BY <2>1, <3>1
  <2> QED BY <1>3, <2>1, <2>2, <2>3
<1>15. ASSUME NEW i \in 1 .. m - 1, NEW j \in 1 .. m - 1, i < j PROVE p[u[i]] < p[u[j]]
  <2>1. PICK a \in 1 .. m : u[i] = s[a] /\ (i < k => a = i) /\ (~ (i < k) => a = i + 1)
    BY <1>12
  <2>2. PICK b \in 1 .. m : u[j] = s[b] /\ (j < k => b = j) /\ (~ (j < k) => b = j + 1)
    BY <1>12
  <2>3. a < b
    BY <1>3, <1>15, <2>1, <2>2
  <2> QED BY <1>2, <1>3, <2>1, <2>2, <2>3
<1>16. Chained(h2, e2, nx2, p, A \ {x}, u)
  BY <1>4, <1>9, <1>10, <1>11, <1>13, <1>14, <1>15, Zenon DEF Chained
<1> QED BY <1>16 DEF u

\* The list before anything was added.
LEMMA ListInitInv == ListInit => ListInv
<1> SUFFICES ASSUME ListInit PROVE ListInv
  OBVIOUS
<1>1. ListType /\ Walk
  BY TaskListAssumption DEF ListInit, ListType, Walk, idle, nullptr, boot_task
<1>2. Chained(head, tail, next, list_pid, allocated, << >>)
  <2>1. << >> \in Seq(ListTasks) /\ Len(<< >>) = 0 /\ 1 .. 0 = {}
    OBVIOUS
  <2> QED BY <2>1 DEF Chained, ListInit
<1>3. List = << >>
  BY <1>1, <1>2, SpelledIs DEF List, ListType
<1> QED BY <1>1, <1>2, <1>3 DEF ListInv

\* A step that leaves the links, the pids and the tasks alone keeps the list.
LEMMA ChainStays ==
  ASSUME Chained(head, tail, next, list_pid, allocated, List),
         UNCHANGED <<head, tail, next, list_pid, allocated>>
  PROVE  List' = List /\ Chained(head, tail, next, list_pid, allocated, List)'
<1>1. List' = List
  BY Zenon DEF List
<1> QED BY <1>1

\* add(): the list gets x at its end.
LEMMA AddStep ==
  ASSUME ListInv, NEW x \in ListTasks, add(x)
  PROVE  ListInv' /\ List' = Append(List, x)
<1>1. /\ reap_t = idle /\ x \notin allocated
      /\ allocated' = allocated \cup {x}
      /\ list_pid' = [list_pid EXCEPT ![x] = list_pid_counter]
      /\ list_pid_counter' = list_pid_counter + 1
      /\ tail' = x
      /\ head' = IF head = nullptr THEN x ELSE head
      /\ next' = IF head = nullptr THEN [next EXCEPT ![x] = nullptr]
                 ELSE [y \in ListTasks |-> IF y = x THEN nullptr ELSE IF y = tail THEN x ELSE next[y]]
      /\ UNCHANGED <<dead, list_current, reap_t>>
  BY DEF add
<1>2. ListType /\ Walk /\ Chained(head, tail, next, list_pid, allocated, List)
  BY DEF ListInv
<1>3. ListType'
  <2>1. next' \in [ListTasks -> ListTasks \cup {nullptr}]
    BY <1>1, <1>2 DEF ListType
  <2>2. /\ list_pid' \in [ListTasks -> Nat] /\ list_pid_counter' \in Nat
        /\ \A y \in allocated' : list_pid'[y] < list_pid_counter'
    BY <1>1, <1>2 DEF ListType
  <2>3. /\ allocated' \subseteq ListTasks /\ dead' \subseteq allocated'
        /\ list_current' \in allocated' \cup {boot_task}
        /\ list_current' = boot_task => dead' = {}
    BY <1>1, <1>2 DEF ListType
  <2> QED BY <2>1, <2>2, <2>3 DEF ListType
<1>4. Walk'
  BY <1>1, <1>2, TaskListAssumption DEF Walk, ListType, idle, nullptr
<1>5. Chained(head', tail', next', list_pid', allocated', Append(List, x))
  <2>1. /\ list_pid \in [ListTasks -> Nat] /\ list_pid_counter \in Nat
        /\ \A y \in allocated : list_pid[y] < list_pid_counter
        /\ next \in [ListTasks -> ListTasks \cup {nullptr}]
    BY <1>2 DEF ListType
  <2>2. Chained(IF head = nullptr THEN x ELSE head, x, next', list_pid', allocated \cup {x}, Append(List, x))
    BY <1>1, <1>2, <2>1, ChainAppend
  <2> QED BY <1>1, <2>2
<1>6. List' = Append(List, x)
  <2>1. \A y \in ListTasks : list_pid'[y] \in Nat
    BY <1>3 DEF ListType
  <2>2. Spelled(head', next') = Append(List, x)
    BY <1>5, <2>1, SpelledIs
  <2> QED BY <2>2 DEF List
<1> QED BY <1>3, <1>4, <1>5, <1>6 DEF ListInv

\* remove_and_destroy(): one place of the list falls out.
LEMMA RemoveStep ==
  ASSUME ListInv, NEW x \in allocated, remove_and_destroy(x), UNCHANGED <<list_pid, list_current, list_pid_counter>>
  PROVE  /\ ListType' /\ Chained(head, tail, next, list_pid, allocated, List)'
         /\ \E k \in 1 .. Len(List) : List[k] = x /\ List' = CutAt(List, k)
<1>1. ListType /\ Chained(head, tail, next, list_pid, allocated, List)
  BY DEF ListInv
<1>2. /\ next \in [ListTasks -> ListTasks \cup {nullptr}] /\ list_pid \in [ListTasks -> Nat]
      /\ allocated \subseteq ListTasks
  BY <1>1 DEF ListType
<1>3. /\ x # list_current /\ allocated' = allocated \ {x} /\ dead' = dead \ {x}
      /\ Unlinked(head, tail, next, allocated, x, head', tail', next')
  BY DEF remove_and_destroy, Unlinked
<1>4. PICK k \in 1 .. Len(List) : x = List[k]
  <2>1. \A y \in allocated : \E k \in 1 .. Len(List) : y = List[k]
    BY <1>1, Zenon DEF Chained
  <2> QED BY <2>1
<1>5. Chained(head', tail', next', list_pid, allocated \ {x}, CutAt(List, k))
  BY <1>1, <1>2, <1>3, <1>4, ChainRemove
<1>6. List' = CutAt(List, k)
  <2>1. \A y \in ListTasks : list_pid[y] \in Nat
    BY <1>2
  <2>2. Spelled(head', next') = CutAt(List, k)
    BY <1>5, <2>1, SpelledIs
  <2> QED BY <2>2 DEF List
<1>7. next' \in [ListTasks -> ListTasks \cup {nullptr}]
  BY <1>2, <1>3 DEF Unlinked
<1>8. ListType'
  BY <1>1, <1>3, <1>7 DEF ListType
<1> QED BY <1>3, <1>4, <1>5, <1>6, <1>8

\* sys_wait and kill_task_tree take a task off the list.
LEMMA DestroyStep ==
  ASSUME ListInv, NEW x \in ListTasks, destroy(x)
  PROVE  ListInv' /\ \E k \in 1 .. Len(List) : List[k] # list_current /\ List' = CutAt(List, k)
<1>1. x \in allocated /\ remove_and_destroy(x) /\ reap_t = idle /\ UNCHANGED <<list_pid, list_current, list_pid_counter, reap_t>>
  BY DEF destroy
<1>2. /\ ListType' /\ Chained(head, tail, next, list_pid, allocated, List)'
      /\ \E k \in 1 .. Len(List) : List[k] = x /\ List' = CutAt(List, k)
  BY <1>1, RemoveStep
<1>3. x # list_current
  BY <1>1 DEF remove_and_destroy
<1>4. Walk'
  BY <1>1, <1>2, TaskListAssumption DEF Walk, ListType, idle, nullptr
<1> QED BY <1>2, <1>3, <1>4 DEF ListInv

\* One turn of reap's loop: the next block is behind this one, and every dead
\* task that is left is there or behind it.
LEMMA TurnStep ==
  ASSUME ListInv, reap_turn
  PROVE  /\ ListInv'
         /\ \/ List' = List
            \/ \E k \in 1 .. Len(List) : List[k] # list_current /\ List' = CutAt(List, k)
<1>1. reap_t \in ListTasks /\ reap_t' = next[reap_t] /\ UNCHANGED <<list_pid, list_current, list_pid_counter>>
  BY DEF reap_turn
<1>2. ListType /\ Walk /\ Chained(head, tail, next, list_pid, allocated, List)
  BY DEF ListInv
<1>3. reap_t \in allocated
  BY <1>1, <1>2, TaskListAssumption DEF Walk
<1> DEFINE s == List
<1>4. /\ s \in Seq(ListTasks) /\ Len(s) \in Nat
      /\ \A i \in 1 .. Len(s) : s[i] \in ListTasks /\ s[i] \in allocated
      /\ \A i, j \in 1 .. Len(s) : s[i] = s[j] => i = j
  <2>1. \A y \in ListTasks : list_pid[y] \in Nat
    BY <1>2 DEF ListType
  <2> HIDE DEF s
  <2>2. Chained(head, tail, next, list_pid, allocated, s)
    BY <1>2 DEF s
  <2> QED BY <2>1, <2>2, ChainDistinct
<1>5. /\ \A i \in 1 .. Len(s) : next[s[i]] = IF i = Len(s) THEN nullptr ELSE s[i + 1]
      /\ \A y \in allocated : \E i \in 1 .. Len(s) : y = s[i]
      /\ \A i, j \in 1 .. Len(s) : i < j => list_pid[s[i]] < list_pid[s[j]]
  BY <1>2, Zenon DEF Chained
<1> HIDE DEF s
<1>6. PICK k \in 1 .. Len(s) : reap_t = s[k]
  BY <1>3, <1>5
<1>7. \A i \in 1 .. Len(s) : list_pid[s[i]] \in Nat
  BY <1>2, <1>4 DEF ListType
<1>8. ASSUME NEW y \in dead \ {list_current}, y # reap_t PROVE \E j \in 1 .. Len(s) : y = s[j] /\ j > k
  <2>1. y \in allocated /\ list_pid[reap_t] <= list_pid[y]
    BY <1>2, <1>3, <1>8 DEF ListType, Walk
  <2>2. PICK j \in 1 .. Len(s) : y = s[j]
    BY <1>5, <2>1
  <2>3. ~ (j < k)
    BY <1>5, <1>6, <1>7, <2>1, <2>2
  <2>4. j # k
    BY <1>6, <1>8, <2>2
  <2> QED BY <2>2, <2>3, <2>4
<1>9. \A y \in dead' \ {list_current} : y \in dead \ {list_current} /\ y # reap_t
  BY DEF reap_turn, remove_and_destroy
<1>10. /\ ListType' /\ Chained(head, tail, next, list_pid, allocated, List)'
       /\ \/ List' = List
          \/ \E j \in 1 .. Len(List) : List[j] # list_current /\ List' = CutAt(List, j)
       /\ allocated' = IF reap_t \in dead /\ reap_t # list_current THEN allocated \ {reap_t} ELSE allocated
  <2>1. CASE reap_t \in dead /\ reap_t # list_current
    <3>1. remove_and_destroy(reap_t)
      BY <2>1 DEF reap_turn
    <3>2. /\ ListType' /\ Chained(head, tail, next, list_pid, allocated, List)'
          /\ \E j \in 1 .. Len(List) : List[j] = reap_t /\ List' = CutAt(List, j)
      BY <1>1, <1>3, <3>1, RemoveStep
    <3>3. allocated' = allocated \ {reap_t}
      BY <3>1 DEF remove_and_destroy
    <3> QED BY <2>1, <3>2, <3>3
  <2>2. CASE ~ (reap_t \in dead /\ reap_t # list_current)
    <3>1. UNCHANGED <<head, tail, next, allocated, dead>>
      BY <2>2 DEF reap_turn
    <3> QED BY <1>1, <1>2, <2>2, <3>1, ChainStays DEF ListType
  <2> QED BY <2>1, <2>2
<1>11. Walk'
  <2>1. CASE k = Len(s)
    <3>1. reap_t' = nullptr
      BY <1>1, <1>5, <1>6, <2>1
    <3>2. dead' \ {list_current} = {}
      BY <1>4, <1>8, <1>9, <2>1
    <3>3. nullptr \notin allocated'
      BY <1>10, TaskListAssumption DEF ListType
    <3> QED BY <1>1, <3>1, <3>2, <3>3 DEF Walk
  <2>2. CASE k # Len(s)
    <3>1. k + 1 \in 1 .. Len(s) /\ reap_t' = s[k + 1]
      BY <1>1, <1>4, <1>5, <1>6, <2>2
    <3>2. reap_t' # reap_t /\ reap_t' \in allocated
      BY <1>4, <1>6, <3>1
    <3>3. reap_t' \in allocated' /\ reap_t' # nullptr
      BY <1>2, <1>10, <3>2, TaskListAssumption DEF ListType
    <3>4. ASSUME NEW y \in dead' \ {list_current} PROVE list_pid[reap_t'] <= list_pid[y]
      <4>1. PICK j \in 1 .. Len(s) : y = s[j] /\ j > k
        BY <1>8, <1>9
      <4>2. CASE j = k + 1
        BY <1>7, <3>1, <4>1, <4>2
      <4>3. CASE j > k + 1
        <5>1. list_pid[s[k + 1]] < list_pid[s[j]]
          BY <1>5, <3>1, <4>3
        <5> QED BY <1>7, <3>1, <4>1, <5>1
      <4> QED BY <1>4, <4>1, <4>2, <4>3
    <3> QED BY <1>1, <3>3, <3>4 DEF Walk
  <2> QED BY <2>1, <2>2
<1> QED BY <1>10, <1>11 DEF ListInv

\* Every step keeps the invariant, and does to the list what TaskQueue allows.
LEMMA ListStep ==
  ASSUME ListInv, [ListNext]_list_vars
  PROVE  /\ ListInv'
         /\ \/ UNCHANGED <<List, list_current>>
            \/ \E x \in ListTasks : x \notin allocated /\ List' = Append(List, x) /\ UNCHANGED list_current
            \/ \E k \in 1 .. Len(List) : List[k] # list_current /\ List' = CutAt(List, k) /\ UNCHANGED list_current
            \/ list_current' \in allocated /\ List' = List
<1>1. ASSUME NEW x \in ListTasks, add(x)
      PROVE  ListInv' /\ x \notin allocated /\ List' = Append(List, x) /\ UNCHANGED list_current
  BY <1>1, AddStep DEF add
<1>2. ASSUME NEW x \in ListTasks, destroy(x)
      PROVE  /\ ListInv' /\ UNCHANGED list_current
             /\ \E k \in 1 .. Len(List) : List[k] # list_current /\ List' = CutAt(List, k)
  BY <1>2, DestroyStep DEF destroy
<1>3. CASE reap_turn
  BY <1>3, TurnStep DEF reap_turn
<1>4. ListType /\ Walk /\ Chained(head, tail, next, list_pid, allocated, List)
  BY DEF ListInv
<1>5. ASSUME NEW x \in ListTasks, switch_to(x)
      PROVE  ListInv' /\ list_current' \in allocated /\ List' = List
  <2>1. /\ UNCHANGED <<head, tail, next, list_pid, allocated, dead, list_pid_counter>>
        /\ reap_t' = idle /\ list_current' = x
        /\ x \in allocated \ dead \/ x = list_current
    BY <1>5 DEF switch_to
  <2>2. x \in allocated /\ x # boot_task
    BY <1>4, <2>1, TaskListAssumption DEF ListType
  <2>3. ListType' /\ Walk'
    BY <1>4, <2>1, <2>2, TaskListAssumption DEF ListType, Walk, idle, nullptr
  <2> QED BY <1>4, <2>1, <2>2, <2>3, ChainStays DEF ListInv
<1>6. CASE list_exit
  <2>1. /\ UNCHANGED <<head, tail, next, list_pid, allocated, list_current, list_pid_counter, reap_t>>
        /\ reap_t = idle /\ dead' = dead \cup {list_current} /\ list_current # boot_task
    BY <1>6 DEF list_exit
  <2>2. ListType' /\ Walk'
    BY <1>4, <2>1, TaskListAssumption DEF ListType, Walk, idle, nullptr
  <2> QED BY <1>4, <2>1, <2>2, ChainStays DEF ListInv
<1>7. CASE list_reap
  <2>1. /\ UNCHANGED <<head, tail, next, list_pid, allocated, dead, list_current, list_pid_counter>>
        /\ head # nullptr /\ reap_t' = head
    BY <1>7 DEF list_reap
  <2>2. ListType'
    BY <1>4, <2>1 DEF ListType
  <2>3. Walk'
    <3> DEFINE s == List
    <3>1. Chained(head, tail, next, list_pid, allocated, s)
      BY <1>4
    <3> HIDE DEF s
    <3>2. \A y \in ListTasks : list_pid[y] \in Nat
      BY <1>4 DEF ListType
    <3>3. /\ Len(s) \in Nat
          /\ \A i \in 1 .. Len(s) : s[i] \in ListTasks /\ s[i] \in allocated
      BY <3>1, <3>2, ChainDistinct, SMTT(20)
    <3>4. /\ head = IF Len(s) = 0 THEN nullptr ELSE s[1]
          /\ \A y \in allocated : \E i \in 1 .. Len(s) : y = s[i]
          /\ \A i, j \in 1 .. Len(s) : i < j => list_pid[s[i]] < list_pid[s[j]]
      BY <3>1, Zenon DEF Chained
    <3>5. 1 \in 1 .. Len(s) /\ head = s[1]
      BY <2>1, <3>3, <3>4, SMTT(20)
    <3>6. ASSUME NEW y \in allocated PROVE list_pid[head] <= list_pid[y]
      <4>1. PICK i \in 1 .. Len(s) : y = s[i]
        BY <3>4
      <4>2. CASE i = 1
        BY <3>2, <3>3, <3>5, <4>1, <4>2
      <4>3. CASE 1 < i
        <5>1. list_pid[s[1]] < list_pid[s[i]]
          BY <3>4, <3>5, <4>3
        <5> QED BY <3>2, <3>3, <3>5, <4>1, <5>1
      <4> QED BY <3>3, <4>2, <4>3, SMTT(20)
    <3> QED BY <1>4, <2>1, <3>3, <3>5, <3>6, TaskListAssumption DEF Walk, ListType
  <2> QED BY <1>4, <2>1, <2>2, <2>3, ChainStays DEF ListInv
<1>8. CASE UNCHANGED list_vars
  <2>1. ListType' /\ Walk'
    BY <1>4, <1>8 DEF ListType, Walk, list_vars
  <2>2. UNCHANGED <<head, tail, next, list_pid, allocated, list_current>>
    BY <1>8 DEF list_vars
  <2> QED BY <1>4, <2>1, <2>2, ChainStays DEF ListInv
<1> QED BY <1>1, <1>2, <1>3, <1>5, <1>6, <1>7, <1>8 DEF ListNext

\* The inductive invariant of the task list.
THEOREM ListInvariant == ListSpec => []ListInv
<1>1. ListInv /\ [ListNext]_list_vars => ListInv'
  BY ListStep
<1> QED BY <1>1, ListInitInv, PTL DEF ListSpec

\* What the invariant says of the list.
LEMMA InvSound == ListInv => ListSound
<1> SUFFICES ASSUME ListInv PROVE ListSound
  OBVIOUS
<1> DEFINE s == List
<1>1. Chained(head, tail, next, list_pid, allocated, s)
  BY DEF ListInv
<1> HIDE DEF s
<1>2. \A y \in ListTasks : list_pid[y] \in Nat
  BY DEF ListInv, ListType
<1>3. /\ s \in Seq(ListTasks) /\ Len(s) \in Nat
      /\ \A i \in 1 .. Len(s) : s[i] \in ListTasks /\ s[i] \in allocated
      /\ \A i, j \in 1 .. Len(s) : s[i] = s[j] => i = j
  BY <1>1, <1>2, ChainDistinct
<1>4. /\ tail = IF Len(s) = 0 THEN nullptr ELSE s[Len(s)]
      /\ \A y \in allocated : \E i \in 1 .. Len(s) : y = s[i]
      /\ \A i, j \in 1 .. Len(s) : i < j => list_pid[s[i]] < list_pid[s[j]]
  BY <1>1, Zenon DEF Chained
<1>5. {s[i] : i \in 1 .. Len(s)} = allocated
  BY <1>3, <1>4
<1>6. \A i \in 1 .. Len(s) - 1 : list_pid[s[i]] < list_pid[s[i + 1]]
  BY <1>3, <1>4
<1>7. Len(s) = Cardinality(allocated)
  <2>1. s \in Bijection(1 .. Len(s), allocated)
    BY <1>3, <1>4 DEF Bijection, Injection, Surjection, IsInjective
  <2>2. 1 \in Int /\ Len(s) \in Int
    BY <1>3
  <2>3. /\ IsFiniteSet(1 .. Len(s))
        /\ Cardinality(1 .. Len(s)) = IF 1 > Len(s) THEN 0 ELSE Len(s) - 1 + 1
    BY <2>2, FS_Interval
  <2>4. Cardinality(1 .. Len(s)) = Len(s)
    BY <1>3, <2>3
  <2>5. Cardinality(allocated) = Cardinality(1 .. Len(s))
    <3>1. ExistsBijection(1 .. Len(s), allocated)
      BY <2>1 DEF ExistsBijection
    <3> QED BY <2>3, <3>1, FS_Bijection
  <2> QED BY <2>4, <2>5
<1>8. ReapsAll
  BY DEF ListInv, Walk, ReapsAll
<1> QED BY <1>4, <1>5, <1>6, <1>7, <1>8 DEF ListSound, Linked, s

\* Whatever is added, destroyed and reaped, in the middle of a walk too, the
\* pointers link exactly the tasks that exist in the order of their pids, the
\* tail is the last of them, and a finished walk has left no dead task behind.
THEOREM ListAlwaysSound == ListSpec => []ListSound
  BY ListInvariant, InvSound, PTL

\* The pointers implement the queue that the scheduler relies on.
THEOREM ListImplementsQueue == ListSpec => RefinesQueue
<1>1. ListInit => Queue!Init
  <2> SUFFICES ASSUME ListInit PROVE List = << >>
    BY DEF Queue!Init
  <2>1. Chained(head, tail, next, list_pid, allocated, << >>)
    <3>1. << >> \in Seq(ListTasks) /\ Len(<< >>) = 0 /\ 1 .. 0 = {}
      OBVIOUS
    <3> QED BY <3>1 DEF Chained, ListInit
  <2> QED BY <2>1, SpelledIs DEF List, ListInit
<1>2. ListInv /\ [ListNext]_list_vars => [Queue!Next]_<<List, list_current>>
  <2> SUFFICES ASSUME ListInv, [ListNext]_list_vars, ~ UNCHANGED <<List, list_current>>
               PROVE  Queue!Next
    OBVIOUS
  <2>1. \A x : (\E k \in 1 .. Len(List) : List[k] = x) <=> x \in allocated
    <3>1. /\ \A k \in 1 .. Len(List) : List[k] \in allocated
          /\ \A x \in allocated : \E k \in 1 .. Len(List) : x = List[k]
      BY Zenon DEF ListInv, Chained
    <3> QED BY <3>1, Zenon
  <2>2. CASE \E x \in ListTasks : x \notin allocated /\ List' = Append(List, x) /\ UNCHANGED list_current
    BY <2>1, <2>2, Zenon DEF Queue!Next, Queue!Enter, Queue!Listed
  <2>3. CASE \E k \in 1 .. Len(List) : List[k] # list_current /\ List' = CutAt(List, k) /\ UNCHANGED list_current
    BY <2>3, Zenon DEF Queue!Next, Queue!Leave, CutAt
  <2>4. CASE list_current' \in allocated /\ List' = List
    BY <2>1, <2>4, Zenon DEF Queue!Next, Queue!Listed
  <2> QED BY <2>2, <2>3, <2>4, ListStep
<1> QED BY <1>1, <1>2, ListInvariant, PTL DEF ListSpec, RefinesQueue, Queue!Spec
=============================================================================
