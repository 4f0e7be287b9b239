----------------------------- MODULE PipeStream -----------------------------
(***************************************************************************)
(* The bytes in one pipe: sys_write and the pipe branch of sys_read in     *)
(* src/user/syscall.cpp.                                                   *)
(*                                                                         *)
(* A system call runs with interrupts off (isr128 begins with cli), so a   *)
(* write, or a read that finds something to return, is one step.  A read   *)
(* that finds the pipe empty executes `sti; hlt', and from then on the     *)
(* rest of that call can be preempted between any two accesses to the      *)
(* pipe; the other processes run whole calls in between.                   *)
(*                                                                         *)
(* Bytes are numbered 1, 2, ... in the order in which writes store them.   *)
(***************************************************************************)
EXTENDS Integers, Sequences

CONSTANTS
    SIZE,      \* sizeof(Pipe::buffer)
    Writers,   \* processes that hold a write end
    Lens,      \* lengths passed to read and write
    MaxBytes   \* bound on the bytes written in a behaviour

ASSUME PipeAssumption ==
    /\ SIZE \in Nat \ {0} /\ Lens \subseteq Nat \ {0} /\ MaxBytes \in Nat

VARIABLES
    buffer, read_pos, write_pos,
    writers,    \* the processes that have not closed their end
    pc,         \* where the reader is; "user" outside sys_read
    len, n,     \* the reader's argument and its bytes so far
    sent,       \* bytes stored by all writes
    got,        \* bytes handed to the reader
    eof,        \* the last read returned 0
    torn        \* a write came between a test and its consequence

vars == <<buffer, read_pos, write_pos, writers, pc, len, n, sent, got, eof, torn>>

\* The bytes that are stored and not yet read.
Window == SubSeq(buffer, read_pos + 1, write_pos)

SmallerOf(a, b) == IF a < b THEN a ELSE b
----------------------------------------------------------------------------
Init ==
    /\ buffer = [i \in 1 .. SIZE |-> 0]
    /\ read_pos = 0 /\ write_pos = 0
    /\ writers = Writers
    /\ pc = "user" /\ len = 0 /\ n = 0
    /\ sent = 0
    /\ got = << >>
    /\ eof = FALSE
    /\ torn = FALSE

\* The reader has looked at the positions and not yet acted on what it saw.
MidTest == pc \in {"writers", "reset_r", "reset_w"}

\* sys_write stores what fits behind write_pos and returns that number.
sys_write(w, l) ==
    /\ w \in writers
    /\ sent + l <= MaxBytes
    /\ LET k == SmallerOf(l, SIZE - write_pos)
       IN  /\ buffer' = [i \in 1 .. SIZE |->
                           IF write_pos < i /\ i <= write_pos + k
                             THEN sent + (i - write_pos) ELSE buffer[i]]
           /\ write_pos' = write_pos + k
           /\ sent' = sent + k
           /\ torn' = (torn \/ (k > 0 /\ MidTest))
    /\ UNCHANGED <<read_pos, writers, pc, len, n, got, eof>>

\* The process closes its write end.
close_writer(w) ==
    /\ w \in writers
    /\ writers' = writers \ {w}
    /\ UNCHANGED <<buffer, read_pos, write_pos, pc, len, n, sent, got, eof, torn>>

\* The read that finds data: interrupts are still off.
sys_read(l) ==
    /\ pc = "user"
    /\ read_pos < write_pos
    /\ LET k == SmallerOf(l, write_pos - read_pos)
           drained == read_pos + k >= write_pos
       IN  /\ got' = got \o SubSeq(buffer, read_pos + 1, read_pos + k)
           /\ read_pos' = IF drained THEN 0 ELSE read_pos + k
           /\ write_pos' = IF drained THEN 0 ELSE write_pos
    /\ eof' = FALSE
    /\ UNCHANGED <<buffer, writers, pc, len, n, sent, torn>>

\* The read that finds nothing: end of file, or wait for an interrupt.
sys_read_empty(l) ==
    /\ pc = "user"
    /\ read_pos >= write_pos
    /\ IF writers = {}
         THEN eof' = TRUE /\ UNCHANGED <<pc, len, n>>
         ELSE pc' = "hlt" /\ len' = l /\ n' = 0 /\ eof' = FALSE
    /\ UNCHANGED <<buffer, read_pos, write_pos, writers, sent, got, torn>>

----------------------------------------------------------------------------
\* The rest of a read that has waited, one access at a time.
\* The timer wakes it even when nothing happened.
wake ==
    /\ pc = "hlt"
    /\ pc' = "test"
    /\ UNCHANGED <<buffer, read_pos, write_pos, writers, len, n, sent, got, eof, torn>>

\* Mutant: only the writers' count ends the wait.
test_positions_ignored ==
    /\ pc = "test"
    /\ pc' = "writers"
    /\ UNCHANGED <<buffer, read_pos, write_pos, writers, len, n, sent, got, eof, torn>>

test ==
    /\ pc = "test"
    /\ pc' = IF read_pos >= write_pos THEN "writers" ELSE "copy"
    /\ UNCHANGED <<buffer, read_pos, write_pos, writers, len, n, sent, got, eof, torn>>

test_writers ==
    /\ pc = "writers"
    /\ IF writers = {} THEN pc' = "user" /\ eof' = TRUE
                       ELSE pc' = "hlt" /\ UNCHANGED eof
    /\ UNCHANGED <<buffer, read_pos, write_pos, writers, len, n, sent, got, torn>>

copy ==
    /\ pc = "copy"
    /\ IF n < len /\ read_pos < write_pos
         THEN /\ got' = Append(got, buffer[read_pos + 1])
              /\ read_pos' = read_pos + 1
              /\ n' = n + 1
              /\ UNCHANGED pc
         ELSE pc' = "drained" /\ UNCHANGED <<got, read_pos, n>>
    /\ UNCHANGED <<buffer, write_pos, writers, len, sent, eof, torn>>

\* Mutant: the positions are reset unconditionally.
test_drained_always ==
    /\ pc = "drained"
    /\ pc' = "reset_r"
    /\ UNCHANGED <<buffer, read_pos, write_pos, writers, len, n, sent, got, eof, torn>>

test_drained ==
    /\ pc = "drained"
    /\ pc' = IF read_pos >= write_pos THEN "reset_r" ELSE "user"
    /\ UNCHANGED <<buffer, read_pos, write_pos, writers, len, n, sent, got, eof, torn>>

reset_r ==
    /\ pc = "reset_r"
    /\ read_pos' = 0
    /\ pc' = "reset_w"
    /\ UNCHANGED <<buffer, write_pos, writers, len, n, sent, got, eof, torn>>

reset_w ==
    /\ pc = "reset_w"
    /\ write_pos' = 0
    /\ pc' = "user"
    /\ UNCHANGED <<buffer, read_pos, writers, len, n, sent, got, eof, torn>>

resume == test \/ test_writers \/ copy \/ test_drained \/ reset_r \/ reset_w

Next ==
    \/ \E w \in Writers : \/ \E l \in Lens : sys_write(w, l)
                          \/ close_writer(w)
    \/ \E l \in Lens : sys_read(l) \/ sys_read_empty(l)
    \/ wake
    \/ resume

\* The timer interrupt comes again and again and schedule() is round robin,
\* so a halted reader is woken and a preempted one goes on.  Nothing is
\* assumed of the writers.
Spec == Init /\ [][Next]_vars /\ WF_vars(wake) /\ WF_vars(resume)

----------------------------------------------------------------------------
\* The reader never gets a byte twice, out of order, or one that nobody
\* wrote, wherever it was preempted.
InOrder == \A i \in DOMAIN got : /\ got[i] \in 1 .. sent
                                 /\ i > 1 => got[i - 1] < got[i]

\* While no write fell between one of the reader's tests and what it does
\* about it, nothing is lost: what was read, followed by what is in the
\* buffer, is everything that was written.  (Such a write can be lost: the
\* reader sees a drained pipe, the writer stores, the reader resets both
\* positions.)
Lossless ==
    ~ torn /\ pc # "reset_w" => got \o Window = [i \in 1 .. sent |-> i]

\* A read returns 0 only when every writer is gone, and then, under the same
\* proviso, only when everything they wrote was read.
EndOfFile == eof => writers = {} /\ (~ torn => Len(got) = sent)

\* Outside a read the pipe holds data or stands at position 0: a pipe that
\* was filled to the brim and read out accepts bytes again.
NeverStuckFull == pc = "user" => read_pos < write_pos \/ write_pos = 0

\* The reader of a pipe gets what the writers wrote in order and no byte twice,
\* wherever it was preempted; nothing is lost, and a read returns 0 only at the
\* end, while no write fell between one of the reader's tests and what it does
\* about it.  A pipe that was full and has been read out takes bytes again.
PipeExact == InOrder /\ Lossless /\ EndOfFile /\ NeverStuckFull

\* A waiting read returns once there is data or no writer is left.
WaitEnds == (pc # "user" /\ (writers = {} \/ read_pos < write_pos)) ~> pc = "user"
=============================================================================
