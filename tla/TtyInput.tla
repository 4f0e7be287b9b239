------------------------------ MODULE TtyInput ------------------------------
(***************************************************************************)
(* The terminal's input: the keyboard interrupt appends to stdin_buffer    *)
(* (process_scancode in src/kernel/drivers/keyboard.cpp), processes that   *)
(* read the terminal take bytes from its front (src/fs/devfs/tty.cpp).     *)
(*                                                                         *)
(* A read begins with interrupts off.  Once it has found the buffer empty  *)
(* and executed `sti; hlt' it runs on with interrupts enabled, and the     *)
(* keyboard or another reader can come between any two of its accesses.    *)
(*                                                                         *)
(* A byte is the number under which it entered the buffer; typed says of   *)
(* what kind it is.                                                        *)
(***************************************************************************)
EXTENDS Integers, Sequences

CONSTANTS
    TTY_SIZE,    \* sizeof(stdin_buffer)
    Readers,     \* processes that read the terminal
    Keys,        \* the byte sequences that key presses produce
    TtyLens,     \* lengths passed to read
    MaxTtyBytes  \* no key is pressed after so many bytes

ASSUME TtyAssumption ==
    /\ TTY_SIZE \in Nat \ {0} /\ TtyLens \subseteq Nat \ {0} /\ MaxTtyBytes \in Nat
    /\ Keys \subseteq Seq({"char", "newline", "erase", "escape"})

VARIABLES
    stdin_buffer, stdin_len,
    typed,         \* kinds of the bytes that entered the buffer
    tty_pc,        \* where each reader is; "user" outside read
    ints,          \* the reader's call has enabled interrupts
    mode,          \* which of read_canonical and read_raw it is in
    tty_len, buf,  \* the reader's arguments and its bytes so far
    tty_c, tty_i, tty_tmp,  \* c, i and the new length in pop_raw_byte
    popped,        \* bytes taken from the buffer, in that order
    tty_torn,      \* a pop was interrupted where it must not be
    wild           \* stdin_len was decremented below zero

tty_vars == <<stdin_buffer, stdin_len, typed, tty_pc, ints, mode, tty_len, buf,
              tty_c, tty_i, tty_tmp, popped, tty_torn, wild>>
locals == <<tty_c, tty_i, tty_tmp>>

TtyInit ==
    /\ stdin_buffer = [k \in 1 .. TTY_SIZE |-> 0] /\ stdin_len = 0
    /\ typed = << >>
    /\ tty_pc = [r \in Readers |-> "user"]
    /\ ints = [r \in Readers |-> FALSE]
    /\ mode = [r \in Readers |-> "raw"]
    /\ tty_len = [r \in Readers |-> 0] /\ buf = [r \in Readers |-> << >>]
    /\ tty_c = [r \in Readers |-> 0]
    /\ tty_i = [r \in Readers |-> 0]
    /\ tty_tmp = [r \in Readers |-> 0]
    /\ popped = << >>
    /\ tty_torn = FALSE /\ wild = FALSE

Goto(r, place) == tty_pc' = [tty_pc EXCEPT ![r] = place]

\* A call that runs with interrupts off has the CPU to itself.
Preemptible == ~ wild /\ \A r \in Readers : tty_pc[r] = "user" \/ ints[r]
MayRun(r) == ~ wild /\ \A q \in Readers \ {r} : tty_pc[q] = "user" \/ ints[q]

----------------------------------------------------------------------------
Room == TTY_SIZE - stdin_len

Stored(key) == IF Len(key) < Room THEN Len(key) ELSE Room

\* A key press: its bytes go in as long as there is room, the rest is lost.
\* It is a fault of the reader if it comes after the loop of pop_raw_byte has
\* seen the old length and before the new one is stored.
process_scancode(key) ==
    /\ Preemptible
    /\ Len(typed) < MaxTtyBytes
    /\ LET k == Stored(key)
       IN  /\ stdin_buffer' = [j \in 1 .. TTY_SIZE |->
                                 IF stdin_len < j /\ j <= stdin_len + k
                                   THEN Len(typed) + (j - stdin_len) ELSE stdin_buffer[j]]
           /\ stdin_len' = stdin_len + k
           /\ typed' = typed \o SubSeq(key, 1, k)
           /\ tty_torn' = (tty_torn \/ (k > 0 /\ \E r \in Readers : tty_pc[r] \in {"load", "store"}))
    /\ UNCHANGED <<tty_pc, ints, mode, tty_len, buf, locals, popped, wild>>

\* tty::read.  A raw read of a terminal with VMIN = 0 may return nothing.
read(r, l, md, vmin) ==
    /\ MayRun(r) /\ tty_pc[r] = "user"
    /\ ~ (md = "raw" /\ vmin = 0 /\ stdin_len = 0)
    /\ Goto(r, IF md = "raw" THEN "first" ELSE "test")
    /\ mode' = [mode EXCEPT ![r] = md]
    /\ tty_len' = [tty_len EXCEPT ![r] = l]
    /\ UNCHANGED <<stdin_buffer, stdin_len, typed, ints, buf, locals, popped, tty_torn, wild>>

\* Both waits: `sti; hlt' when the buffer is empty.
Wait(r) ==
    /\ Goto(r, "hlt")
    /\ ints' = [ints EXCEPT ![r] = TRUE]

\* Back to the caller: what the call kept on its stack is gone.
Return(r) ==
    /\ Goto(r, "user")
    /\ ints' = [ints EXCEPT ![r] = FALSE]
    /\ mode' = [mode EXCEPT ![r] = "raw"]
    /\ tty_len' = [tty_len EXCEPT ![r] = 0]
    /\ buf' = [buf EXCEPT ![r] = << >>]

\* Mutant: the loop ends without looking for the newline.
Full_only(r) == Len(buf[r]) = tty_len[r]

\* The line is complete, or the caller's buffer is full.
Full(r) == \/ Len(buf[r]) = tty_len[r]
           \/ mode[r] = "canonical" /\ buf[r] # << >> /\ typed[buf[r][Len(buf[r])]] = "newline"

\* The head of a reader's loop.
tty_test(r) ==
    /\ MayRun(r) /\ tty_pc[r] = "test"
    /\ \/ /\ Full(r) \/ (mode[r] = "raw" /\ stdin_len = 0)
          /\ Return(r)
       \/ /\ ~ Full(r) /\ stdin_len > 0
          /\ Goto(r, "take")
          /\ UNCHANGED <<ints, mode, tty_len, buf>>
       \/ /\ ~ Full(r) /\ mode[r] = "canonical" /\ stdin_len = 0
          /\ Wait(r)
          /\ UNCHANGED <<mode, tty_len, buf>>
    /\ UNCHANGED <<stdin_buffer, stdin_len, typed, locals, popped, tty_torn, wild>>

\* read_raw waits for the first byte only.
first(r) ==
    /\ MayRun(r) /\ tty_pc[r] = "first"
    /\ IF stdin_len = 0 THEN Wait(r) ELSE Goto(r, "test") /\ UNCHANGED ints
    /\ UNCHANGED <<stdin_buffer, stdin_len, typed, mode, tty_len, buf, locals, popped, tty_torn, wild>>

\* Any interrupt ends hlt; the timer sees to it that one comes.
tty_wake(r) ==
    /\ MayRun(r) /\ tty_pc[r] = "hlt"
    /\ Goto(r, IF mode[r] = "raw" THEN "first" ELSE "test")
    /\ UNCHANGED <<stdin_buffer, stdin_len, typed, ints, mode, tty_len, buf, locals, popped, tty_torn, wild>>

----------------------------------------------------------------------------
\* pop_raw_byte, one access at a time.
take(r) ==
    /\ MayRun(r) /\ tty_pc[r] = "take"
    /\ tty_c' = [tty_c EXCEPT ![r] = stdin_buffer[1]]
    /\ tty_i' = [tty_i EXCEPT ![r] = 1]
    /\ Goto(r, "shift")
    /\ UNCHANGED <<stdin_buffer, stdin_len, typed, ints, mode, tty_len, buf, tty_tmp, popped, tty_torn, wild>>

\* Mutant: the last byte is not moved.
Moves_short(r) == tty_i[r] + 1 < stdin_len

Moves(r) == tty_i[r] < stdin_len

shift(r) ==
    /\ MayRun(r) /\ tty_pc[r] = "shift"
    /\ IF Moves(r)
         THEN /\ stdin_buffer' = [stdin_buffer EXCEPT ![tty_i[r]] = stdin_buffer[tty_i[r] + 1]]
              /\ tty_i' = [tty_i EXCEPT ![r] = @ + 1]
              /\ UNCHANGED tty_pc
         ELSE Goto(r, "load") /\ UNCHANGED <<stdin_buffer, tty_i>>
    /\ UNCHANGED <<stdin_len, typed, ints, mode, tty_len, buf, tty_c, tty_tmp, popped, tty_torn, wild>>

\* stdin_len is volatile: its decrement is a load and a store.
load(r) ==
    /\ MayRun(r) /\ tty_pc[r] = "load"
    /\ tty_tmp' = [tty_tmp EXCEPT ![r] = stdin_len]
    /\ Goto(r, "store")
    /\ UNCHANGED <<stdin_buffer, stdin_len, typed, ints, mode, tty_len, buf, tty_c, tty_i, popped, tty_torn, wild>>

\* What the caller does with the byte it popped.
Take(r) ==
    IF mode[r] = "canonical" /\ typed[tty_c[r]] = "erase"
      THEN IF buf[r] = << >> THEN << >> ELSE SubSeq(buf[r], 1, Len(buf[r]) - 1)
      ELSE Append(buf[r], tty_c[r])

\* The byte goes to the caller's buffer, or erases the one before it.  The
\* decrement of an empty buffer gives 2^64 - 1.
store(r) ==
    /\ MayRun(r) /\ tty_pc[r] = "store"
    /\ wild' = (tty_tmp[r] = 0)
    /\ stdin_len' = IF tty_tmp[r] = 0 THEN 0 ELSE tty_tmp[r] - 1
    /\ popped' = Append(popped, tty_c[r])
    /\ buf' = [buf EXCEPT ![r] = Take(r)]
    /\ tty_torn' = (tty_torn \/ \E q \in Readers \ {r} : tty_pc[q] \in {"take", "shift", "load", "store"})
    /\ Goto(r, "test")
    /\ tty_c' = [tty_c EXCEPT ![r] = 0]
    /\ tty_i' = [tty_i EXCEPT ![r] = 0]
    /\ tty_tmp' = [tty_tmp EXCEPT ![r] = 0]
    /\ UNCHANGED <<stdin_buffer, typed, ints, mode, tty_len>>

tty_resume(r) == tty_test(r) \/ first(r) \/ take(r) \/ shift(r) \/ load(r) \/ store(r)

\* After the length has wrapped nothing is modelled.
runaway == wild /\ UNCHANGED tty_vars

TtyNext ==
    \/ \E key \in Keys : process_scancode(key)
    \/ \E r \in Readers :
         \/ \E l \in TtyLens, md \in {"canonical", "raw"}, vmin \in 0 .. 1 : read(r, l, md, vmin)
         \/ tty_wake(r)
         \/ tty_resume(r)
    \/ runaway

\* The timer interrupt keeps coming and schedule() is round robin.  Nothing
\* is assumed of whoever types.
TtySpec ==
    /\ TtyInit /\ [][TtyNext]_tty_vars
    /\ \A r \in Readers : WF_tty_vars(tty_wake(r)) /\ WF_tty_vars(tty_resume(r))

----------------------------------------------------------------------------
Between == \A r \in Readers : tty_pc[r] \notin {"take", "shift", "load", "store"}

\* What readers took, followed by what is in the buffer, is what was typed:
\* nothing lost, doubled or reordered, as long as no key press fell between
\* the end of a reader's loop and its store of the length, and no two
\* readers were inside pop_raw_byte at once.
TtyLossless ==
    ~ tty_torn /\ Between =>
        popped \o SubSeq(stdin_buffer, 1, stdin_len) = [k \in 1 .. Len(typed) |-> k]

\* stdin_len never goes below zero, with the same proviso: every path to
\* pop_raw_byte has seen a byte that nobody else can have taken.
NeverUnderflows == wild => tty_torn

\* What readers of the terminal took, followed by what is in the buffer, is
\* what was typed, and stdin_len never goes below zero; as long as no key press
\* fell between the end of a reader's loop and its store of the length, and no
\* two readers were inside pop_raw_byte at once.
TtyExact == TtyLossless /\ NeverUnderflows

\* A reader returns from a canonical read.
LineRead ==
    \A r \in Readers : mode[r] = "canonical" /\ tty_pc[r] = "test" /\ tty_pc'[r] = "user" =>
        /\ Len(buf[r]) = tty_len[r] \/ typed[buf[r][Len(buf[r])]] = "newline"
        /\ \A k \in 1 .. Len(buf[r]) : typed[buf[r][k]] # "erase"
        /\ \A k \in 1 .. Len(buf[r]) - 1 : typed[buf[r][k]] # "newline"

\* A canonical read returns a line, or as much of it as the caller asked for:
\* a newline is its last byte, and it holds no erase character.
Lines == [][LineRead]_tty_vars

\* A reader that waits comes back once there is input: it takes bytes until
\* the buffer is empty again or its read is complete.
TtyWaitEnds ==
    \A r \in Readers : (tty_pc[r] = "hlt" /\ stdin_len > 0) ~>
        (tty_pc[r] = "user" \/ stdin_len = 0 \/ wild)
=============================================================================
