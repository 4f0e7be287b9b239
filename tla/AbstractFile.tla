---------------------------- MODULE AbstractFile ----------------------------
(***************************************************************************)
(* What the calls on an open file promise: one sequence of bytes, an       *)
(* offset for each descriptor, and the result of the last call.  FileData  *)
(* is shown to implement it.                                               *)
(***************************************************************************)
EXTENDS Integers, Sequences

CONSTANTS Byte, Fd,
    MaxSize,    \* bound on the size and the offsets
    MaxLen      \* bound on the length of one read or write

VARIABLES content, offset, ret

vars == <<content, offset, ret>>

Bytes(n) == UNION {[1 .. k -> Byte] : k \in 0 .. n}   \* at most n bytes
Larger(m, n) == IF m >= n THEN m ELSE n
Smaller(m, n) == IF m <= n THEN m ELSE n

Failed == ret' = <<"error">> /\ UNCHANGED <<content, offset>>

Init == content \in Bytes(MaxSize) /\ offset = [f \in Fd |-> 0] /\ ret = <<"none">>

\* The bytes between the old end and the offset are anything at all.
Write(f, s) ==
    LET o == offset[f]
    IN  /\ \E gap \in [1 .. o -> Byte] :
             content' = [i \in 1 .. Larger(Len(content), o + Len(s)) |->
                           IF i \in o + 1 .. o + Len(s) THEN s[i - o]
                           ELSE IF i <= Len(content) THEN content[i] ELSE gap[i]]
        /\ offset' = [offset EXCEPT ![f] = o + Len(s)]
        /\ ret' = <<"written", Len(s)>>

Read(f, n) ==
    LET s == SubSeq(content, offset[f] + 1, Smaller(Len(content), offset[f] + n))
    IN  /\ ret' = <<"read", s>>
        /\ offset' = [offset EXCEPT ![f] = @ + Len(s)]
        /\ UNCHANGED content

Seek(f, o) ==
    /\ offset' = [offset EXCEPT ![f] = o]
    /\ ret' = <<"at", o>>
    /\ UNCHANGED content

Size == ret' = <<"size", Len(content)>> /\ UNCHANGED <<content, offset>>

Truncate(f) ==
    /\ content' = <<>>
    /\ offset' = [offset EXCEPT ![f] = 0]
    /\ ret' = <<"opened">>

Open(f) ==
    /\ offset' = [offset EXCEPT ![f] = 0]
    /\ ret' = <<"opened">>
    /\ UNCHANGED content

Dup(f, g) ==
    /\ offset' = [offset EXCEPT ![g] = offset[f]]
    /\ ret' = <<"opened">>
    /\ UNCHANGED content

Next ==
    \/ Failed \/ Size
    \/ \E f \in Fd :
         \/ \E s \in Bytes(MaxLen) \ {<<>>} : Write(f, s)
         \/ (\E n \in 0 .. MaxLen : Read(f, n)) \/ (\E o \in 0 .. MaxSize : Seek(f, o))
         \/ Truncate(f) \/ Open(f)
         \/ \E g \in Fd : Dup(f, g)

Spec == Init /\ [][Next]_vars
=============================================================================
