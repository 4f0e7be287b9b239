------------------------------ MODULE MCTasks -------------------------------
(***************************************************************************)
(* The scheduler, and the list that its tasks are kept on.  Scheduler has   *)
(* the list as a set; TaskList has the pointers, and a reap that frees      *)
(* tasks one by one.  A behaviour runs one of the two.                      *)
(***************************************************************************)
EXTENDS Scheduler, TaskList

VARIABLE part    \* the model that runs

MCInit == part \in {"tasks", "list"} /\ Init /\ ListInit

Tasking(A) == part = "tasks" /\ A /\ UNCHANGED <<list_vars, part>>

MCNext ==
    \/ Tasking(Next)
    \/ part = "list" /\ ListNext /\ UNCHANGED <<vars, part>>

\* The fairness of Scheduler, in the behaviours that run it.
MCSpec ==
    /\ MCInit /\ [][MCNext]_<<vars, list_vars, part>>
    /\ WF_vars(Tasking(timer_irq))
    /\ \A p \in Pids \ {0} : WF_vars(Tasking(waiting[current] = p /\ sys_wait(p)))
----------------------------------------------------------------------------
\* Round robin: a READY task gets the CPU from schedule(), or dies first.
EveryTaskRuns == part = "tasks" => NoStarvation

\* sys_wait returns once its target is dead or gone.
EveryWaitReturns == part = "tasks" => WaitReturns
=============================================================================
