----------------------------- MODULE MCStreams ------------------------------
(***************************************************************************)
(* The two streams of bytes that a read may wait for: the terminal's input  *)
(* (TtyInput) and a pipe (PipeStream).  A behaviour runs one of them.       *)
(***************************************************************************)
EXTENDS PipeStream, TtyInput

VARIABLE part    \* the stream that is used

\* An ordinary key, Enter, Backspace and an Alt combination.
SmallKeys == {<<"char">>, <<"newline">>, <<"erase">>, <<"escape", "char">>}

MCInit == part \in {"tty", "pipe"} /\ Init /\ TtyInit

Pipe(A) == part = "pipe" /\ A /\ UNCHANGED <<tty_vars, part>>
Tty(A) == part = "tty" /\ A /\ UNCHANGED <<vars, part>>

MCNext == Pipe(Next) \/ Tty(TtyNext)

\* The fairness of the two modules, each in the behaviours that run it.
MCSpec ==
    /\ MCInit /\ [][MCNext]_<<vars, tty_vars, part>>
    /\ WF_vars(Pipe(wake)) /\ WF_vars(Pipe(resume))
    /\ \A r \in Readers : WF_tty_vars(Tty(tty_wake(r))) /\ WF_tty_vars(Tty(tty_resume(r)))
----------------------------------------------------------------------------
\* A reader that waits for the terminal comes back once there is input, one
\* that waits for a pipe once there is data or no writer is left.
WaitsEnd == WaitEnds /\ TtyWaitEnds
=============================================================================
