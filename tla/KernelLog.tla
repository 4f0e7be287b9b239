----------------------------- MODULE KernelLog ------------------------------
(***************************************************************************)
(* The kernel log (src/kernel/logger.cpp), a ring whose writers never      *)
(* wait, and its reader through a handle of /dev/kmsg (src/fs/devfs.cpp).  *)
(* The handle's offset counts from the oldest byte in the ring.  A byte is *)
(* named by its number, so that what is read can be compared with what was *)
(* written.                                                                *)
(***************************************************************************)
EXTENDS Integers, Sequences, FiniteSetsExt

CONSTANTS
    LOG,            \* sizeof(klog_ring)
    MaxLogBytes,       \* bound on the bytes written
    closed

VARIABLES
    klog_ring, klog_write_head,
    handle,         \* DevHandle::offset, or closed
    klog_got,       \* history: what the handle has delivered from offset 0 on
    ended           \* the last read returned 0 and nothing was logged since

klog_vars == <<klog_ring, klog_write_head, handle, klog_got, ended>>

KlogInit ==
    /\ klog_ring = [i \in 0 .. LOG - 1 |-> 0]
    /\ klog_write_head = 0
    /\ handle = closed
    /\ klog_got = <<>>
    /\ ended = FALSE

klog_append_char(ring, head) == [ring EXCEPT ![head % LOG] = head + 1]

\* A message: all of its bytes, in one step as far as readers can tell.
log(len) ==
    /\ klog_write_head + len <= MaxLogBytes
    /\ klog_ring' = FoldSet(LAMBDA i, r : klog_append_char(r, klog_write_head + i),
                            klog_ring, 0 .. len - 1)
    /\ klog_write_head' = klog_write_head + len
    /\ ended' = FALSE
    /\ UNCHANGED <<handle, klog_got>>

\* From the oldest byte that is still there.
read_klog(max_len, offset) ==
    LET total == Min({klog_write_head, LOG})
        start == IF klog_write_head > LOG THEN klog_write_head % LOG ELSE 0
        n == IF offset >= total THEN 0 ELSE Min({max_len, total - offset})
    IN  [i \in 1 .. n |-> klog_ring[(start + offset + i - 1) % LOG]]

open == handle = closed /\ handle' = 0 /\ klog_got' = <<>> /\ ended' = FALSE
        /\ UNCHANGED <<klog_ring, klog_write_head>>

read(len) ==
    LET out == read_klog(len, handle)
    IN  /\ handle # closed
        /\ handle' = handle + Len(out)
        /\ klog_got' = klog_got \o out
        /\ ended' = (out = <<>>)
        /\ UNCHANGED <<klog_ring, klog_write_head>>

\* Back to offset 0; from there SEEK_END goes nowhere, it counts from the
\* current offset.
devfs_lseek == handle # closed /\ handle' = 0 /\ klog_got' = <<>> /\ ended' = FALSE
               /\ UNCHANGED <<klog_ring, klog_write_head>>

close == handle # closed /\ handle' = closed /\ klog_got' = <<>> /\ ended' = FALSE
         /\ UNCHANGED <<klog_ring, klog_write_head>>

KlogNext ==
    \/ \E len \in 1 .. 2 : log(len) \/ read(len)
    \/ open \/ devfs_lseek \/ close

KlogSpec == KlogInit /\ [][KlogNext]_klog_vars
----------------------------------------------------------------------------
Turned == klog_write_head > LOG

\* A reader of the log gets bytes in order and none twice, also while the
\* ring turns under it.  Until it turns nothing is left out, and a read that
\* returns 0 means that everything was read.  (Afterwards each new byte moves
\* the meaning of the offset: the reader skips as many bytes as were written,
\* and a reader whose offset has reached LOG never sees a new one.)
KmsgInOrder ==
    /\ \A i \in 1 .. Len(klog_got) - 1 : klog_got[i] < klog_got[i + 1]
    /\ ~ Turned => klog_got = [i \in 1 .. Len(klog_got) |-> i]
    /\ ended /\ ~ Turned => Len(klog_got) = klog_write_head
=============================================================================
