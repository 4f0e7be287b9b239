SPECIFICATION MCSpec
CONSTANTS
    Tasks = {t1, t2, t3}
    kernel_task = kernel_task
    MaxPid = 4
    ListTasks = {x, y, z}
    MaxListPid = 5
INVARIANT CurrentOwnsCpu
INVARIANT ListSound
PROPERTY DeadStayDead
 
 
PROPERTY EveryWaitReturns
PROPERTY RefinesQueue
