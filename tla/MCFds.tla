------------------------------- MODULE MCFds --------------------------------
(* The entries of descriptor tables (Fds), and the handles of procfs and    *)
(* sysfs that such an entry may hold, with the text each one reads          *)
(* (ProcFs).  The two share no state in the models: a behaviour runs one of *)
(* them.  Process slots are interchangeable: nothing tells them apart.      *)
EXTENDS Fds, TLC

CONSTANTS ProcHandles, Pids, CPUS, SIZE, WORD, MaxMounts, none

VARIABLES task, current, mounts, devices, buffer, handle, text, blocks,
          part    \* the model that runs

T == INSTANCE ProcFs WITH Handles <- ProcHandles

texts == <<task, current, mounts, devices, buffer, handle, text, blocks>>

ProcSymmetry == Permutations(Procs)

MCInit == part \in {"tables", "texts"} /\ Init /\ T!Init

MCNext ==
    /\ UNCHANGED part
    /\ \/ part = "tables" /\ Next /\ UNCHANGED texts
       \/ part = "texts" /\ T!Next /\ UNCHANGED vars

MCSpec == MCInit /\ [][MCNext]_<<vars, texts, part>>
----------------------------------------------------------------------------
\* A handle of procfs or sysfs gives what its file said when it was opened,
\* whatever was opened through the one static buffer since, and whoever has
\* exited; and the heap holds the blocks of the open handles and no others.
Snapshot == T!Snapshot

\* A text that procfs makes up stays in the static buffer, truncated, while it
\* has at most SIZE + 1 pieces; from there on the room that the generators
\* compute for the next piece wraps below zero.
TextInBuffer == part = "texts" => T!TextInBuffer
=============================================================================
