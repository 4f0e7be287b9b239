------------------------------ MODULE TaskQueue -----------------------------
(***************************************************************************)
(* What the scheduler relies on: the task list is a queue of distinct      *)
(* tasks.  A task enters at the end, any task but the current one may      *)
(* leave, and nobody changes places.                                       *)
(***************************************************************************)
EXTENDS Integers, Sequences

CONSTANT Tasks

VARIABLES list, current

Listed(x) == \E k \in 1 .. Len(list) : list[k] = x

Enter(x) == ~ Listed(x) /\ list' = Append(list, x)

\* The task in place k leaves, and those behind it move up.
Leave(k) ==
    /\ list[k] # current
    /\ list' = [i \in 1 .. Len(list) - 1 |-> IF i < k THEN list[i] ELSE list[i + 1]]

Init == list = << >>

Next ==
    \/ \E x \in Tasks : Enter(x) /\ UNCHANGED current
    \/ \E k \in 1 .. Len(list) : Leave(k) /\ UNCHANGED current
    \/ Listed(current') /\ UNCHANGED list

Spec == Init /\ [][Next]_<<list, current>>
=============================================================================
