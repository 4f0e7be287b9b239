-------------------------------- MODULE Heap --------------------------------
(***************************************************************************)
(* The kernel heap, src/mm/heap.cpp: next-fit allocation over a list of    *)
(* blocks with boundary tags.  Addresses are byte offsets from HEAP_START. *)
(*                                                                         *)
(* The boundary tag of a block is the LAST WORD OF ITS PAYLOAD, so it is   *)
(* only meaningful until the owner writes there.  `word' keeps, for the    *)
(* address where a block ends, what the eight bytes below it hold; Junk    *)
(* stands for anything the owner of the block stored.                      *)
(***************************************************************************)
EXTENDS Integers, FiniteSets

CONSTANTS
    HEAP_SIZE,  \* bytes
    Requests    \* sizes passed to kmalloc

ASSUME HeapAssumption ==
    /\ HEAP_SIZE \in Nat /\ HEAP_SIZE % 16 = 0 /\ HEAP_SIZE > 32
    /\ Requests \subseteq Nat

HEADER == 32    \* sizeof(Block)
Null == -1
Junk == -2      \* a word written by the owner of a block
heap_head == 0

VARIABLES
    blk,           \* the Block headers on the list: address -> header
    word,          \* end of a block -> the word below that address
    alloc_cursor,
    owned,         \* blocks callers hold: address -> size asked for
    failed,        \* the request the last call could not serve, or Null
    clobbered      \* history: an owner wrote over a boundary tag

heap_vars == <<blk, word, alloc_cursor, owned, failed, clobbered>>

align(size) == ((size + 15) \div 16) * 16

End(f, b) == b + HEADER + f[b].size

Header(s, fr, n) == [size |-> s, free |-> fr, next |-> n]

----------------------------------------------------------------------------
HeapInit ==
    /\ blk = [b \in {heap_head} |-> Header(HEAP_SIZE - HEADER, TRUE, Null)]
    /\ word = [a \in {HEAP_SIZE} |-> HEAP_SIZE - HEADER]
    /\ alloc_cursor = heap_head
    /\ owned = [b \in {} |-> 0]
    /\ failed = Null
    /\ clobbered = FALSE

\* Mutant: the scan gives up at the last block.
Step_no_wrap(b) == IF blk[b].next = Null THEN alloc_cursor ELSE blk[b].next

\* The blocks kmalloc's loop visits: from the cursor along `next', from the
\* head again after the last one, until it is back where it started.
Step(b) == IF blk[b].next = Null THEN heap_head ELSE blk[b].next

Visit[n \in Nat] == IF n = 0 THEN alloc_cursor ELSE Step(Visit[n - 1])

Rounds == {n \in 0 .. Cardinality(DOMAIN blk) - 1 :
             \A m \in 1 .. n : Visit[m] # alloc_cursor}

Fits(b, size) == blk[b].free /\ blk[b].size >= size

FoundFirst(c, size) ==
    \E n \in Rounds : /\ c = Visit[n]
                      /\ Fits(c, size)
                      /\ \A m \in 0 .. n - 1 : ~ Fits(Visit[m], size)

\* Take block c for `size' bytes, cutting off the rest if it can hold a
\* header and 16 bytes.
Splits(c, size) == blk[c].size >= size + HEADER + 16

Take(c, size) ==
    LET nb == c + HEADER + size
        rest == blk[c].size - size - HEADER
    IN  IF Splits(c, size)
          THEN /\ blk' = [b \in DOMAIN blk \cup {nb} |->
                            IF b = c THEN Header(size, FALSE, nb)
                            ELSE IF b = nb THEN Header(rest, TRUE, blk[c].next)
                            ELSE blk[b]]
               /\ word' = [a \in DOMAIN word \cup {nb} |->
                             IF a = nb THEN size
                             ELSE IF a = End(blk, c) THEN rest
                             ELSE word[a]]
          ELSE /\ blk' = [blk EXCEPT ![c] = Header(blk[c].size, FALSE, blk[c].next)]
               /\ word' = word

kmalloc(request) ==
    LET size == align(request)
    IN  /\ clobbered' = clobbered
        /\ \/ \E c \in DOMAIN blk :
                /\ FoundFirst(c, size)
                /\ Take(c, size)
                /\ alloc_cursor' = c
                /\ failed' = Null
                /\ owned' = [b \in DOMAIN owned \cup {c} |->
                               IF b = c THEN request ELSE owned[b]]
           \/ /\ \A n \in Rounds : ~ Fits(Visit[n], size)
              /\ failed' = request
              /\ UNCHANGED <<blk, word, alloc_cursor, owned>>

----------------------------------------------------------------------------
\* Mutant: the swallowed block stays the successor.
Absorb_keeps_next(f, b, n) ==
    [x \in DOMAIN f \ {n} |->
       IF x = b THEN Header(f[b].size + HEADER + f[n].size, f[b].free, f[b].next)
                ELSE f[x]]

\* Block b swallows the block n that follows it.
Absorb(f, b, n) ==
    [x \in DOMAIN f \ {n} |->
       IF x = b THEN Header(f[b].size + HEADER + f[n].size, f[b].free, f[n].next)
                ELSE f[x]]

\* kfree's first half: mark b free, rewind the cursor, merge the block that
\* follows b in memory if that one is free.
Freed(b) == [blk EXCEPT ![b] = Header(blk[b].size, TRUE, blk[b].next)]

next_block(b) == IF End(blk, b) >= HEAP_SIZE THEN Null ELSE End(blk, b)

NextFree(b) == next_block(b) # Null /\ blk[next_block(b)].free

AfterNext(b) == IF NextFree(b) THEN Absorb(Freed(b), b, next_block(b)) ELSE Freed(b)

\* The words after the blocks meeting at address a are merged into one of
\* `size' bytes that ends at e.
Merged(w, a, e, size) ==
    [x \in DOMAIN w \ {a} |-> IF x = e THEN size ELSE w[x]]

WordNext(b) ==
    IF NextFree(b)
      THEN Merged(word, next_block(b), End(AfterNext(b), b), AfterNext(b)[b].size)
      ELSE word

CursorNext(b) ==
    LET cur == IF b < alloc_cursor THEN b ELSE alloc_cursor
    IN  IF NextFree(b) /\ cur = next_block(b) THEN b ELSE cur

\* The block kfree merges b into, if any.  prev_block(b) trusts the word
\* below b.  When that word is the boundary tag, it leads to the preceding
\* block.  When an owner overwrote it, the header that kfree reads there is
\* arbitrary memory: it may look used (or the read may fault, which ends the
\* call: unhandled_interrupt then kills the current process), or it may look
\* free, and then its `next' is not b and the list is searched instead.
ListPrev(f, b) == {p \in DOMAIN f : f[p].next = b}

PrevReads(f, b) ==
    IF b = heap_head THEN {}
    ELSE IF word[b] = Junk THEN ListPrev(f, b) \cup {Null}
    ELSE {b - HEADER - word[b]}

MergesInto(f, p, b) == p # Null /\ f[p].free /\ f[p].next = b

kfree(b) ==
    /\ b \in DOMAIN owned
    /\ b + HEADER < HEAP_SIZE
    /\ LET f == AfterNext(b)
           w == WordNext(b)
           cur == CursorNext(b)
       IN  \/ \E p \in PrevReads(f, b) :
                /\ MergesInto(f, p, b)
                /\ blk' = Absorb(f, p, b)
                /\ word' = Merged(w, b, End(f, b), f[p].size + HEADER + f[b].size)
                /\ alloc_cursor' = IF cur = b THEN p ELSE cur
           \/ /\ b = heap_head \/ \E p \in PrevReads(f, b) : ~ MergesInto(f, p, b)
              /\ blk' = f
              /\ word' = w
              /\ alloc_cursor' = cur
    /\ owned' = [x \in DOMAIN owned \ {b} |-> owned[x]]
    /\ failed' = Null
    /\ clobbered' = clobbered

\* The owner of a block stores something in its last word.  (A block of
\* size 0 has its tag in the padding of its own header.)
use_payload(b) ==
    /\ b \in DOMAIN owned
    /\ blk[b].size > 0
    /\ word' = [word EXCEPT ![End(blk, b)] = Junk]
    /\ clobbered' = TRUE
    /\ failed' = Null
    /\ UNCHANGED <<blk, alloc_cursor, owned>>

HeapNext ==
    \/ \E request \in Requests : kmalloc(request)
    \/ \E b \in DOMAIN owned : kfree(b) \/ use_payload(b)

HeapSpec == HeapInit /\ [][HeapNext]_heap_vars

----------------------------------------------------------------------------
\* The list is the heap cut into consecutive blocks: it starts at the head,
\* every block's `next' is the address just past its payload, only the last
\* block ends at the end of the heap, and no header lies inside a payload.
\* Allocated ranges are therefore disjoint.  The cursor is one of the blocks:
\* it never points into a block that a merge has swallowed.
Tiling ==
    /\ {heap_head, alloc_cursor} \subseteq DOMAIN blk
    /\ \A b \in DOMAIN blk :
         /\ \/ /\ blk[b].next = Null
               /\ End(blk, b) = HEAP_SIZE
            \/ /\ blk[b].next = End(blk, b)
               /\ blk[b].next \in DOMAIN blk
         /\ \A c \in DOMAIN blk : c <= b \/ c >= End(blk, b)

\* Whatever is split, merged or clobbered, a caller's block is on the list,
\* marked used and at least as large as what was asked for.
OwnersSafe ==
    \A b \in DOMAIN owned : /\ b \in DOMAIN blk
                            /\ ~ blk[b].free
                            /\ blk[b].size >= owned[b]

\* kmalloc fails only when no block on the list fits, wherever the cursor
\* stood.
KmallocFailsOnlyWhenFull ==
    [][failed' # Null =>
          \A b \in DOMAIN blk : ~ Fits(b, align(failed'))]_heap_vars

\* As long as no owner has written over a tag, two neighbours are never both
\* free.  (Once one has, kfree misses the block before the one it frees and
\* does not restore the tag, so the heap stays cut there.)
Coalesced ==
    clobbered \/ \A b \in DOMAIN blk :
        blk[b].free /\ blk[b].next # Null => ~ blk[blk[b].next].free

\* Through every split and merge of kmalloc and kfree the heap is cut into
\* consecutive blocks, no two neighbours are free (unless an owner wrote over
\* a tag), and each caller's block is on the list, used and large enough.
HeapSound == Tiling /\ Coalesced /\ OwnersSafe
=============================================================================
