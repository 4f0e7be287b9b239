-------------------------------- MODULE Mouse -------------------------------
(***************************************************************************)
(* The PS/2 mouse (src/kernel/drivers/mouse.cpp).  Its interrupt puts each *)
(* byte into the ring that /dev/psaux reads, which drops its oldest byte   *)
(* when it is full, and runs it through a machine that puts packets of     *)
(* three together.  A byte is named by its number; the line may lose one.  *)
(***************************************************************************)
EXTENDS Integers, Sequences, FiniteSetsExt

CONSTANTS
    PSAUX,      \* sizeof(psaux_ring)
    MaxBytes    \* bound on the bytes that the mouse sends

VARIABLES
    psaux_ring, ring_head, ring_tail,
    mouse_bytes,    \* the bytes of the packet that is being put together
    packet,         \* the last packet
    sent,           \* how many bytes the mouse has sent
    got,            \* history: what readers got, in order
    lost,           \* history: the line lost a byte
    overrun         \* history: the ring dropped a byte

mouse_vars == <<psaux_ring, ring_head, ring_tail, mouse_bytes, packet, sent, got, lost, overrun>>

MouseInit ==
    /\ psaux_ring = [i \in 0 .. PSAUX - 1 |-> 0]
    /\ ring_head = 0 /\ ring_tail = 0
    /\ mouse_bytes = <<>> /\ packet = <<>>
    /\ sent = 0 /\ got = <<>> /\ lost = FALSE /\ overrun = FALSE

\* The first byte of a packet has bit 3 set; others may have it too.
First(b) == b % 3 = 1

Collect(b, bit3) == IF mouse_bytes = <<>> /\ ~ bit3 THEN <<>> ELSE Append(mouse_bytes, b)

\* Mutant: the tail stays when the head meets it.
Enqueue_unchecked(b) ==
    /\ psaux_ring' = [psaux_ring EXCEPT ![ring_head] = b]
    /\ ring_head' = (ring_head + 1) % PSAUX
    /\ UNCHANGED <<ring_tail, overrun>>

Enqueue(b) ==
    LET h == (ring_head + 1) % PSAUX
    IN  /\ psaux_ring' = [psaux_ring EXCEPT ![ring_head] = b]
        /\ ring_head' = h
        /\ ring_tail' = IF h = ring_tail THEN (ring_tail + 1) % PSAUX ELSE ring_tail
        /\ overrun' = (overrun \/ h = ring_tail)

mouse_irq ==
    LET b == sent + 1
    IN  /\ sent < MaxBytes
        /\ sent' = b
        /\ Enqueue(b)
        /\ \E bit3 \in {First(b), TRUE} :
             LET bytes == Collect(b, bit3)
             IN  /\ mouse_bytes' = IF Len(bytes) = 3 THEN <<>> ELSE bytes
                 /\ packet' = IF Len(bytes) = 3 THEN bytes ELSE packet
        /\ UNCHANGED <<got, lost>>

Lose ==
    /\ sent < MaxBytes
    /\ sent' = sent + 1
    /\ lost' = TRUE
    /\ UNCHANGED <<psaux_ring, ring_head, ring_tail, mouse_bytes, packet, got, overrun>>

Queued == [i \in 1 .. ((ring_head - ring_tail) % PSAUX) |-> psaux_ring[(ring_tail + i - 1) % PSAUX]]

psaux_read(len) ==
    LET n == Min({len, Len(Queued)})
    IN  /\ got' = got \o SubSeq(Queued, 1, n)
        /\ ring_tail' = (ring_tail + n) % PSAUX
        /\ UNCHANGED <<psaux_ring, ring_head, mouse_bytes, packet, sent, lost, overrun>>

MouseNext == mouse_irq \/ Lose \/ \E len \in {1, 3} : psaux_read(len)

MouseSpec == MouseInit /\ [][MouseNext]_mouse_vars
----------------------------------------------------------------------------
\* Readers of the mouse get each byte at most once and in order, and all of
\* them unless the ring or the line lost one, so that a reader that counts in
\* threes finds a packet where it expects one.  The newest bytes are always
\* kept.  The kernel's own packets start with a first byte, and keep to it,
\* unless the line lost one.
MouseInOrder ==
    /\ \A i \in 1 .. Len(got) - 1 : got[i] < got[i + 1]
    /\ \A i \in 1 .. Len(Queued) - 1 : Queued[i] < Queued[i + 1]
    /\ ~ overrun /\ ~ lost => got \o Queued = [i \in 1 .. sent |-> i]
    /\ ~ lost =>
         /\ overrun /\ got = <<>> => Queued = [i \in 1 .. PSAUX - 1 |-> sent - PSAUX + 1 + i]
         /\ packet # <<>> => First(packet[1])
=============================================================================
