-------------------------- MODULE AllocatorProofs ---------------------------
(*****************************************************************************)
(* Proofs about PhysMem, for every bitmap size, page size, memory map and set *)
(* of boot modules, and about Heap, for a heap of any size and any requests. *)
(*                                                                           *)
(* PhysMem: the inductive invariant adds to the checked invariants that, once *)
(* the boot sequence is over, every protected page other than page 0 is marked *)
(* used: without it nothing would stop alloc_page from handing one out.      *)
(*                                                                           *)
(* Heap: Tiling is not inductive by itself.  kfree finds the block before the *)
(* one it frees through the word below it, so the invariant also says that   *)
(* every block but the head has a neighbour that ends where it starts, and   *)
(* that the word there is that neighbour's size or Junk.                     *)
(*****************************************************************************)
EXTENDS Allocators, FiniteSetTheorems, WellFoundedInduction, TLAPS

Headers == [size : Nat, free : BOOLEAN, next : Nat \cup {Null}]

\* A block list: headers at addresses of the heap.
Listed(f) ==
    /\ heap_head \in DOMAIN f
    /\ \A b \in DOMAIN f : b \in Nat /\ f[b] \in Headers

\* What Tiling says of each block of a list.
Linked(f) ==
    \A b \in DOMAIN f :
       \/ f[b].next = Null /\ End(f, b) = HEAP_SIZE
       \/ f[b].next = End(f, b) /\ f[b].next \in DOMAIN f

Disjoint(f) ==
    \A b, c \in DOMAIN f : c <= b \/ c >= End(f, b)

Inside(f) == \A b \in DOMAIN f : End(f, b) <= HEAP_SIZE

\* Every block but the head starts where another one ends.
Adjacent(f) ==
    \A b \in DOMAIN f : b # heap_head => \E p \in DOMAIN f : f[p].next = b

Cut(f) == Listed(f) /\ Linked(f) /\ Disjoint(f) /\ Inside(f) /\ Adjacent(f)

\* No two neighbours are free.
NoFreePair(f) ==
    \A b \in DOMAIN f : f[b].free /\ f[b].next # Null => ~ f[f[b].next].free

\* The word at the end of each block is its size or what an owner stored.
TagsGood(f, w) ==
    \A b \in DOMAIN f : /\ End(f, b) \in DOMAIN w
                        /\ w[End(f, b)] \in {f[b].size, Junk}

TagsIntact(f, w) == \A b \in DOMAIN f : w[End(f, b)] = f[b].size

\* Blocks callers hold are on the list, used and large enough.
Kept(f, o) ==
    \A b \in DOMAIN o : /\ b \in DOMAIN f
                        /\ ~ f[b].free
                        /\ f[b].size >= o[b]

\* The list f with the words w, when callers hold o.
Sound(f, w, o) ==
    /\ Cut(f)
    /\ TagsGood(f, w)
    /\ Kept(f, o)
    /\ \A b \in DOMAIN o : o[b] \in Nat

Clean(f, w) == TagsIntact(f, w) /\ NoFreePair(f)

HeapInv ==
    /\ Sound(blk, word, owned)
    /\ alloc_cursor \in DOMAIN blk
    /\ clobbered \in BOOLEAN
    /\ ~ clobbered => Clean(blk, word)
----------------------------------------------------------------------------
\* align_up rounds up, to a multiple of 16.
LEMMA AlignLarger ==
  ASSUME NEW n \in Nat
  PROVE  align(n) \in Nat /\ align(n) >= n
BY DEF align

\* What the heap writes into a block is a header.
LEMMA HeaderTyped ==
  ASSUME NEW s \in Nat, NEW fr \in BOOLEAN, NEW n \in Nat \cup {Null}
  PROVE  Header(s, fr, n) \in Headers
BY DEF Header, Headers

\* The heap starts as one free block.
LEMMA HeapInitInv == HeapInit => HeapInv
<1> SUFFICES ASSUME HeapInit PROVE HeapInv
  OBVIOUS
<1>1. /\ DOMAIN blk = {heap_head} /\ DOMAIN word = {HEAP_SIZE} /\ DOMAIN owned = {}
      /\ blk[heap_head] = Header(HEAP_SIZE - HEADER, TRUE, Null)
      /\ word[HEAP_SIZE] = HEAP_SIZE - HEADER
  BY DEF HeapInit
<1>2. HEAP_SIZE - HEADER \in Nat /\ End(blk, heap_head) = HEAP_SIZE
  BY <1>1, HeapAssumption DEF HEADER, Header, End, heap_head
<1>3. Listed(blk)
  BY <1>1, <1>2 DEF Listed, Headers, Header, heap_head
<1>4. Linked(blk) /\ Disjoint(blk) /\ Inside(blk) /\ Adjacent(blk)
  BY <1>1, <1>2, HeapAssumption DEF Linked, Disjoint, Inside, Adjacent, Header, heap_head
<1>5. TagsGood(blk, word) /\ TagsIntact(blk, word) /\ NoFreePair(blk)
  BY <1>1, <1>2 DEF TagsGood, TagsIntact, NoFreePair, Header
<1> QED
  BY <1>1, <1>3, <1>4, <1>5, Zenon DEF HeapInv, Sound, Clean, HeapInit, Cut, Kept
----------------------------------------------------------------------------
\* Block b swallows its successor: the list stays a tiling.
LEMMA AbsorbCut ==
  ASSUME NEW f, Cut(f), NEW b \in DOMAIN f, NEW n \in DOMAIN f, f[b].next = n
  PROVE  /\ Cut(Absorb(f, b, n))
         /\ b # n
         /\ DOMAIN Absorb(f, b, n) = DOMAIN f \ {n}
         /\ Absorb(f, b, n)[b].size = f[b].size + HEADER + f[n].size
         /\ Absorb(f, b, n)[b].free = f[b].free
         /\ Absorb(f, b, n)[b].next = f[n].next
         /\ End(Absorb(f, b, n), b) = End(f, n)
         /\ \A x \in DOMAIN f \ {b, n} : Absorb(f, b, n)[x] = f[x]
         /\ \A x \in DOMAIN f : End(f, x) = n => x = b
<1> DEFINE g == Absorb(f, b, n)
<1>1. /\ DOMAIN g = DOMAIN f \ {n}
      /\ \A x \in DOMAIN f \ {b, n} : g[x] = f[x]
  BY DEF Absorb
<1>2. /\ b \in Nat /\ n \in Nat /\ f[b] \in Headers /\ f[n] \in Headers
      /\ f[b].size \in Nat /\ f[n].size \in Nat /\ f[n].next \in Nat \cup {Null}
  BY DEF Cut, Listed, Headers
<1>3. n = End(f, b) /\ b # n /\ n # heap_head
  BY <1>2 DEF Cut, Linked, End, HEADER, Null, heap_head
<1>4. g[b] = Header(f[b].size + HEADER + f[n].size, f[b].free, f[n].next)
  BY <1>3 DEF Absorb
<1>5. /\ g[b].size = f[b].size + HEADER + f[n].size
      /\ g[b].free = f[b].free
      /\ g[b].next = f[n].next
  BY <1>4 DEF Header
<1>6. g[b] \in Headers
  BY <1>2, <1>4 DEF Headers, Header, HEADER
<1>7. End(g, b) = End(f, n)
  BY <1>2, <1>3, <1>5 DEF End, HEADER
<1>8. \A x \in DOMAIN g : x # b => g[x] = f[x] /\ End(g, x) = End(f, x)
  BY <1>1 DEF End
<1>9. \A x \in DOMAIN f : f[x] \in Headers /\ x \in Nat /\ End(f, x) \in Nat /\ x < End(f, x)
  BY DEF Cut, Listed, Headers, End, HEADER
<1>10. \A x \in DOMAIN f : End(f, x) = n => x = b
  <2> SUFFICES ASSUME NEW x \in DOMAIN f, End(f, x) = n PROVE x = b
    OBVIOUS
  <2>1. (b <= x \/ b >= End(f, x)) /\ (x <= b \/ x >= End(f, b))
    BY DEF Cut, Disjoint
  <2> QED
    BY <2>1, <1>3, <1>9
<1>11. Listed(g)
  BY <1>1, <1>3, <1>6, <1>8, <1>9 DEF Cut, Listed
<1>12. Linked(g)
  <2> SUFFICES ASSUME NEW x \in DOMAIN g
               PROVE  \/ g[x].next = Null /\ End(g, x) = HEAP_SIZE
                      \/ g[x].next = End(g, x) /\ g[x].next \in DOMAIN g
    BY DEF Linked
  <2>1. CASE x = b
    BY <2>1, <1>1, <1>5, <1>7, <1>9 DEF Cut, Linked
  <2>2. CASE x # b
    BY <2>2, <1>1, <1>8, <1>10 DEF Cut, Linked
  <2> QED
    BY <2>1, <2>2
<1>13. Disjoint(g)
  <2> SUFFICES ASSUME NEW x \in DOMAIN g, NEW y \in DOMAIN g
               PROVE  y <= x \/ y >= End(g, x)
    BY DEF Disjoint
  <2>1. y <= x \/ y >= End(f, x)
    BY <1>1 DEF Cut, Disjoint
  <2>2. y <= n \/ y >= End(f, n)
    BY <1>1 DEF Cut, Disjoint
  <2> QED
    BY <2>1, <2>2, <1>1, <1>3, <1>7, <1>8, <1>9
<1>14. Inside(g)
  BY <1>1, <1>7, <1>8 DEF Cut, Inside
<1>15. Adjacent(g)
  <2> SUFFICES ASSUME NEW x \in DOMAIN g, x # heap_head
               PROVE  \E p \in DOMAIN g : g[p].next = x
    BY DEF Adjacent
  <2>1. PICK p \in DOMAIN f : f[p].next = x
    BY <1>1 DEF Cut, Adjacent
  <2>2. CASE p = n
    BY <2>1, <2>2, <1>1, <1>3, <1>5
  <2>3. CASE p # n
    <3>1. p # b
      BY <2>1, <1>1
    <3> QED
      BY <3>1, <2>1, <2>3, <1>1
  <2> QED
    BY <2>2, <2>3
<1> QED
  BY <1>1, <1>3, <1>5, <1>7, <1>10, <1>11, <1>12, <1>13, <1>14, <1>15 DEF Cut
----------------------------------------------------------------------------
\* Marking a block free or used moves nothing.
Mark(f, c, h) == [f EXCEPT ![c] = h]

\* Marking a block free or taken moves no block.
LEMMA MarkCut ==
  ASSUME NEW f, Cut(f), NEW c \in DOMAIN f,
         NEW h \in Headers, h.size = f[c].size, h.next = f[c].next
  PROVE  /\ Cut(Mark(f, c, h))
         /\ DOMAIN Mark(f, c, h) = DOMAIN f
         /\ \A x \in DOMAIN f : /\ Mark(f, c, h)[x].size = f[x].size
                                /\ Mark(f, c, h)[x].next = f[x].next
                                /\ End(Mark(f, c, h), x) = End(f, x)
                                /\ x # c => Mark(f, c, h)[x] = f[x]
         /\ Mark(f, c, h)[c] = h
<1> DEFINE g == Mark(f, c, h)
<1>1. DOMAIN g = DOMAIN f /\ \A x \in DOMAIN f : f[x] \in Headers
  BY DEF Cut, Listed, Mark
<1>8. g[c] = h /\ \A x \in DOMAIN f : x # c => g[x] = f[x]
  BY DEF Mark
<1> HIDE DEF g
<1>2. \A x \in DOMAIN f : /\ g[x].size = f[x].size
                          /\ g[x].next = f[x].next
                          /\ g[x] \in Headers
  BY <1>1, <1>8
<1>3. \A x \in DOMAIN f : End(g, x) = End(f, x)
  BY <1>2 DEF End
<1>4. Listed(g)
  BY <1>1, <1>2 DEF Cut, Listed
<1>5. Linked(g)
  <2> SUFFICES ASSUME NEW x \in DOMAIN f
               PROVE  \/ g[x].next = Null /\ End(g, x) = HEAP_SIZE
                      \/ g[x].next = End(g, x) /\ g[x].next \in DOMAIN f
    BY <1>1 DEF Linked
  <2>1. \/ f[x].next = Null /\ End(f, x) = HEAP_SIZE
        \/ f[x].next = End(f, x) /\ f[x].next \in DOMAIN f
    BY DEF Cut, Linked
  <2> QED
    BY <2>1, <1>2, <1>3
<1>6. Disjoint(g) /\ Inside(g)
  BY <1>1, <1>3 DEF Cut, Disjoint, Inside
<1>7. Adjacent(g)
  BY <1>1, <1>2 DEF Cut, Adjacent
<1> QED
  BY <1>1, <1>2, <1>3, <1>4, <1>5, <1>6, <1>7, <1>8 DEF Cut, g

\* The list and the words after kmalloc cuts block c after `size' bytes.
new_block(c, size) == c + HEADER + size

SplitAt(f, c, size) ==
    [b \in DOMAIN f \cup {new_block(c, size)} |->
       IF b = c THEN Header(size, FALSE, new_block(c, size))
       ELSE IF b = new_block(c, size) THEN Header(f[c].size - size - HEADER, TRUE, f[c].next)
       ELSE f[b]]

SplitWords(f, w, c, size) ==
    [a \in DOMAIN w \cup {new_block(c, size)} |->
       IF a = new_block(c, size) THEN size
       ELSE IF a = End(f, c) THEN f[c].size - size - HEADER
       ELSE w[a]]

\* Splitting a block leaves a list of blocks.
LEMMA SplitCut ==
  ASSUME NEW f, Cut(f), NEW c \in DOMAIN f, NEW size \in Nat,
         f[c].size >= size + HEADER + 16,
         NEW nb, nb = new_block(c, size),
         NEW g, g = SplitAt(f, c, size)
  PROVE  /\ Cut(g)
         /\ nb \notin DOMAIN f /\ c # nb /\ End(f, c) # nb
         /\ DOMAIN g = DOMAIN f \cup {nb}
         /\ g[c].size = size /\ ~ g[c].free /\ g[c].next = nb
         /\ g[nb].size = f[c].size - size - HEADER
         /\ g[nb].free /\ g[nb].next = f[c].next
         /\ End(g, c) = nb
         /\ End(g, nb) = End(f, c)
         /\ \A x \in DOMAIN f \ {c} : /\ g[x] = f[x]
                                      /\ End(g, x) = End(f, x)
                                      /\ End(f, x) # End(f, c)
                                      /\ End(f, x) # nb
<1>1. \A x \in DOMAIN f : /\ x \in Nat /\ f[x] \in Headers
                          /\ f[x].size \in Nat /\ f[x].next \in Nat \cup {Null}
  BY DEF Cut, Listed, Headers
<1>2. \A x \in DOMAIN f : End(f, x) \in Nat /\ x < End(f, x)
  BY <1>1 DEF End, HEADER
<1>3. nb \in Nat /\ c < nb /\ nb < End(f, c)
  BY <1>1 DEF End, HEADER, new_block
<1>4. nb \notin DOMAIN f
  BY <1>1, <1>2, <1>3 DEF Cut, Disjoint
<1>5. /\ DOMAIN g = DOMAIN f \cup {nb}
      /\ g[c] = Header(size, FALSE, nb)
      /\ g[nb] = Header(f[c].size - size - HEADER, TRUE, f[c].next)
      /\ \A x \in DOMAIN f \ {c} : g[x] = f[x]
  BY <1>3, <1>4, Zenon DEF SplitAt
<1>6. /\ g[c].size = size /\ ~ g[c].free /\ g[c].next = nb
      /\ g[nb].size = f[c].size - size - HEADER
      /\ g[nb].free /\ g[nb].next = f[c].next
  BY <1>5 DEF Header
<1>7. End(g, c) = nb /\ End(g, nb) = End(f, c)
  BY <1>1, <1>6 DEF End, HEADER, new_block
<1>8. \A x \in DOMAIN f \ {c} : g[x] = f[x] /\ End(g, x) = End(f, x)
  BY <1>5 DEF End
<1>9. ASSUME NEW x \in DOMAIN f, x # c
      PROVE  End(f, x) <= c \/ x >= End(f, c)
  <2>1. (x <= c \/ x >= End(f, c)) /\ (c <= x \/ c >= End(f, x))
    BY DEF Cut, Disjoint
  <2> QED
    BY <2>1, <1>1, <1>2, <1>9
<1>10. \A x \in DOMAIN f \ {c} : End(f, x) # End(f, c) /\ End(f, x) # nb
  BY <1>1, <1>2, <1>3, <1>9
<1>11. Listed(g)
  <2>1. g[c] \in Headers
    BY <1>3, <1>5, HeaderTyped, Zenon
  <2>2. g[nb] \in Headers
    <3>1. f[c].size - size - HEADER \in Nat
      BY <1>1 DEF HEADER
    <3> QED
      BY <3>1, <1>1, <1>5, HeaderTyped, Zenon
  <2> QED
    BY <2>1, <2>2, <1>1, <1>3, <1>5, Zenon DEF Cut, Listed
<1>12. Linked(g)
  <2> SUFFICES ASSUME NEW x \in DOMAIN g
               PROVE  \/ g[x].next = Null /\ End(g, x) = HEAP_SIZE
                      \/ g[x].next = End(g, x) /\ g[x].next \in DOMAIN g
    BY DEF Linked
  <2>1. \A y \in DOMAIN f : \/ f[y].next = Null /\ End(f, y) = HEAP_SIZE
                            \/ f[y].next = End(f, y) /\ f[y].next \in DOMAIN f
    BY DEF Cut, Linked
  <2>2. CASE x = c
    BY <2>2, <1>5, <1>6, <1>7, Zenon
  <2>3. CASE x = nb
    BY <2>1, <2>3, <1>5, <1>6, <1>7, Zenon
  <2>4. CASE x \in DOMAIN f \ {c}
    BY <2>1, <2>4, <1>5, <1>8
  <2> QED
    BY <2>2, <2>3, <2>4, <1>5
<1>13. Disjoint(g)
  <2> SUFFICES ASSUME NEW x \in DOMAIN g, NEW y \in DOMAIN g
               PROVE  y <= x \/ y >= End(g, x)
    BY DEF Disjoint
  <2>1. CASE x \in DOMAIN f /\ y \in DOMAIN f
    <3>1. y <= x \/ y >= End(f, x)
      BY <2>1 DEF Cut, Disjoint
    <3> QED
      BY <3>1, <2>1, <1>1, <1>2, <1>3, <1>7, <1>8
  <2>2. CASE x \in DOMAIN f /\ y = nb
    BY <2>2, <1>1, <1>2, <1>3, <1>7, <1>8, <1>9
  <2>3. CASE x = nb /\ y \in DOMAIN f
    BY <2>3, <1>1, <1>2, <1>3, <1>7, <1>9
  <2>4. CASE x = nb /\ y = nb
    BY <2>4, <1>3
  <2> QED
    BY <2>1, <2>2, <2>3, <2>4, <1>5
<1>14. Inside(g)
  BY <1>2, <1>3, <1>5, <1>7, <1>8, HeapAssumption DEF Cut, Inside
<1>15. Adjacent(g)
  <2> SUFFICES ASSUME NEW x \in DOMAIN g, x # heap_head
               PROVE  \E p \in DOMAIN g : g[p].next = x
    BY DEF Adjacent
  <2>1. CASE x = nb
    BY <2>1, <1>5, <1>6, Zenon
  <2>2. CASE x \in DOMAIN f
    <3>1. PICK p \in DOMAIN f : f[p].next = x
      BY <2>2 DEF Cut, Adjacent
    <3> QED
      BY <3>1, <1>5, <1>6, <1>8, Zenon
  <2> QED
    BY <2>1, <2>2, <1>5
<1>16. c # nb /\ End(f, c) # nb
  BY <1>2, <1>3, <1>4
<1>17. Cut(g)
  BY <1>11, <1>12, <1>13, <1>14, <1>15 DEF Cut
<1> QED
  BY <1>4, <1>5, <1>6, <1>7, <1>8, <1>10, <1>16, <1>17, Zenon

\* The tags after block b swallowed its successor n.
AbsorbWords(f, w, b, n) ==
    Merged(w, n, End(f, n), f[b].size + HEADER + f[n].size)

\* Absorbing the next block keeps the size words.
LEMMA AbsorbTags ==
  ASSUME NEW f, Cut(f), NEW b \in DOMAIN f, NEW n \in DOMAIN f, f[b].next = n,
         NEW w, TagsGood(f, w)
  PROVE  /\ TagsGood(Absorb(f, b, n), AbsorbWords(f, w, b, n))
         /\ TagsIntact(f, w) => TagsIntact(Absorb(f, b, n), AbsorbWords(f, w, b, n))
<1> DEFINE g == Absorb(f, b, n)
<1> DEFINE v == AbsorbWords(f, w, b, n)
<1>1. /\ Cut(g) /\ b # n /\ DOMAIN g = DOMAIN f \ {n}
      /\ g[b].size = f[b].size + HEADER + f[n].size
      /\ End(g, b) = End(f, n)
      /\ \A x \in DOMAIN f \ {b, n} : g[x] = f[x]
      /\ \A x \in DOMAIN f : End(f, x) = n => x = b
  BY AbsorbCut
<1>2. \A x \in DOMAIN f : x \in Nat /\ End(f, x) \in Nat /\ x < End(f, x)
  BY DEF Cut, Listed, Headers, End, HEADER
<1>3. ASSUME NEW x \in DOMAIN f, x # n PROVE End(f, x) # End(f, n)
  <2>1. (x <= n \/ x >= End(f, n)) /\ (n <= x \/ n >= End(f, x))
    BY DEF Cut, Disjoint
  <2> QED
    BY <2>1, <1>2, <1>3
<1>4. End(f, n) # n /\ End(f, n) \in DOMAIN w
  BY <1>2 DEF TagsGood
<1>5. End(f, n) \in DOMAIN v /\ v[End(f, n)] = f[b].size + HEADER + f[n].size
  BY <1>4 DEF AbsorbWords, Merged
<1>6. ASSUME NEW x \in DOMAIN f, x # b, x # n
      PROVE  /\ g[x] = f[x] /\ End(g, x) = End(f, x)
             /\ End(f, x) \in DOMAIN v /\ v[End(f, x)] = w[End(f, x)]
  <2>1. End(f, x) # n /\ End(f, x) # End(f, n) /\ End(f, x) \in DOMAIN w
    BY <1>1, <1>3, <1>6 DEF TagsGood
  <2> QED
    BY <2>1, <1>1, <1>6 DEF AbsorbWords, Merged, End
<1>7. TagsGood(g, v)
  BY <1>1, <1>5, <1>6 DEF TagsGood
<1>8. TagsIntact(f, w) => TagsIntact(g, v)
  BY <1>1, <1>5, <1>6 DEF TagsIntact
<1> QED
  BY <1>7, <1>8

----------------------------------------------------------------------------
Given(o, c, request) ==
    [b \in DOMAIN o \cup {c} |-> IF b = c THEN request ELSE o[b]]

\* What kmalloc leaves when it takes the free block c and cuts off the rest.
LEMMA SplitKeeps ==
  ASSUME NEW f, NEW w, NEW o, Sound(f, w, o), NEW c \in DOMAIN f, f[c].free,
         NEW request \in Nat, NEW size \in Nat, size >= request,
         f[c].size >= size + HEADER + 16
  PROVE  /\ Sound(SplitAt(f, c, size), SplitWords(f, w, c, size), Given(o, c, request))
         /\ c \in DOMAIN SplitAt(f, c, size)
         /\ Clean(f, w) => Clean(SplitAt(f, c, size), SplitWords(f, w, c, size))
<1> DEFINE g == SplitAt(f, c, size)
<1> DEFINE v == SplitWords(f, w, c, size)
<1> DEFINE q == Given(o, c, request)
<1> DEFINE nb == new_block(c, size)
<1>0. Cut(f) /\ TagsGood(f, w) /\ Kept(f, o)
  BY DEF Sound
<1>1. /\ Cut(g)
      /\ nb \notin DOMAIN f /\ c # nb /\ End(f, c) # nb
      /\ DOMAIN g = DOMAIN f \cup {nb}
      /\ g[c].size = size /\ ~ g[c].free /\ g[c].next = nb
      /\ g[nb].size = f[c].size - size - HEADER
      /\ g[nb].free /\ g[nb].next = f[c].next
      /\ End(g, c) = nb
      /\ End(g, nb) = End(f, c)
      /\ \A x \in DOMAIN f \ {c} : /\ g[x] = f[x]
                                   /\ End(g, x) = End(f, x)
                                   /\ End(f, x) # End(f, c)
                                   /\ End(f, x) # nb
  BY <1>0, SplitCut
<1>2. /\ DOMAIN q = DOMAIN o \cup {c}
      /\ q[c] = request
      /\ c \notin DOMAIN o
      /\ \A b \in DOMAIN o : q[b] = o[b]
  BY <1>0 DEF Kept, Given
<1>3. \A b \in DOMAIN q : q[b] \in Nat
  BY <1>2 DEF Sound
<1>5. \A x \in DOMAIN f : End(f, x) \in DOMAIN w
  BY <1>0 DEF TagsGood
<1>6. DOMAIN v = DOMAIN w \cup {nb}
  BY DEF SplitWords
<1>7. v[End(g, c)] = g[c].size /\ v[End(g, nb)] = g[nb].size
  BY <1>1, <1>5 DEF SplitWords
<1>8. \A x \in DOMAIN f \ {c} : v[End(g, x)] = w[End(f, x)]
  BY <1>1, <1>5 DEF SplitWords
<1> HIDE DEF g, v, q, nb
<1>9. TagsGood(g, v)
  BY <1>0, <1>1, <1>5, <1>6, <1>7, <1>8 DEF TagsGood
<1>10. Clean(f, w) => TagsIntact(g, v)
  BY <1>1, <1>7, <1>8 DEF Clean, TagsIntact
<1>11. Clean(f, w) => NoFreePair(g)
  <2> SUFFICES ASSUME Clean(f, w), NEW x \in DOMAIN g, g[x].free, g[x].next # Null
               PROVE  ~ g[g[x].next].free
    BY DEF NoFreePair
  <2>1. \A y \in DOMAIN f : ~ f[y].free => ~ g[y].free
    BY <1>1
  <2>2. \A y \in DOMAIN f : f[y].free /\ f[y].next # Null =>
                              f[y].next \in DOMAIN f /\ ~ f[f[y].next].free
    BY <1>0 DEF Cut, Linked, Clean, NoFreePair
  <2>3. CASE x = nb
    BY <2>1, <2>2, <2>3, <1>1
  <2>4. CASE x # nb
    BY <2>1, <2>2, <2>4, <1>1
  <2> QED
    BY <2>3, <2>4
<1>12. Kept(g, q)
  BY <1>0, <1>1, <1>2 DEF Kept
<1> QED
  BY <1>1, <1>3, <1>9, <1>10, <1>11, <1>12 DEF Sound, Clean, g, v, q

\* What kmalloc leaves when the free block c is handed out as it is.
LEMMA WholeKeeps ==
  ASSUME NEW f, NEW w, NEW o, Sound(f, w, o), NEW c \in DOMAIN f, f[c].free,
         NEW request \in Nat, f[c].size >= request,
         NEW h \in Headers, h.size = f[c].size, h.next = f[c].next, ~ h.free
  PROVE  /\ Sound(Mark(f, c, h), w, Given(o, c, request))
         /\ c \in DOMAIN Mark(f, c, h)
         /\ Clean(f, w) => Clean(Mark(f, c, h), w)
<1> DEFINE g == Mark(f, c, h)
<1> DEFINE q == Given(o, c, request)
<1>0. Cut(f) /\ TagsGood(f, w) /\ Kept(f, o)
  BY DEF Sound
<1>3. /\ Cut(g)
      /\ DOMAIN g = DOMAIN f
      /\ \A x \in DOMAIN f : /\ g[x].size = f[x].size
                             /\ g[x].next = f[x].next
                             /\ End(g, x) = End(f, x)
                             /\ x # c => g[x] = f[x]
      /\ g[c] = h
  BY <1>0, MarkCut
<1>4. /\ DOMAIN q = DOMAIN o \cup {c}
      /\ q[c] = request
      /\ c \notin DOMAIN o
      /\ \A b \in DOMAIN o : q[b] = o[b]
  BY <1>0 DEF Kept, Given
<1> HIDE DEF g, q
<1>5. \A b \in DOMAIN q : q[b] \in Nat
  BY <1>4 DEF Sound
<1>6. TagsGood(g, w)
  BY <1>0, <1>3 DEF TagsGood
<1>7. Clean(f, w) => TagsIntact(g, w)
  BY <1>3 DEF Clean, TagsIntact
<1>8. Clean(f, w) => NoFreePair(g)
  <2> SUFFICES ASSUME Clean(f, w), NEW x \in DOMAIN f, g[x].free, g[x].next # Null
               PROVE  ~ g[g[x].next].free
    BY <1>3 DEF NoFreePair
  <2>1. x # c
    BY <1>3
  <2>2. f[x].free /\ f[x].next # Null /\ g[x].next = f[x].next
    BY <1>3, <2>1
  <2>3. f[x].next \in DOMAIN f /\ ~ f[f[x].next].free
    BY <1>0, <2>2 DEF Cut, Linked, Clean, NoFreePair
  <2> QED
    BY <2>2, <2>3, <1>3
<1>9. Kept(g, q)
  BY <1>0, <1>3, <1>4 DEF Kept
<1> QED
  BY <1>3, <1>5, <1>6, <1>7, <1>8, <1>9 DEF Sound, Clean, g, q

\* kmalloc, wherever its cursor stands.
LEMMA KmallocKeeps ==
  ASSUME HeapInv, NEW request \in Nat, kmalloc(request)
  PROVE  HeapInv'
<1> DEFINE size == align(request)
<1>1. size \in Nat /\ size >= request
  BY AlignLarger
<1> HIDE DEF size
<1>2. ASSUME NEW c \in DOMAIN blk, FoundFirst(c, size), Take(c, size), alloc_cursor' = c,
             clobbered' = clobbered,
             owned' = [b \in DOMAIN owned \cup {c} |-> IF b = c THEN request ELSE owned[b]]
      PROVE  HeapInv'
  <2>0. Sound(blk, word, owned)
    BY DEF HeapInv
  <2>1. blk[c].free /\ blk[c].size >= size /\ blk[c].size >= request /\ blk[c].size \in Nat
    BY <1>1, <1>2 DEF FoundFirst, Fits, HeapInv, Sound, Cut, Listed, Headers
  <2>2. /\ Sound(blk', word', owned')
        /\ c \in DOMAIN blk'
        /\ Clean(blk, word) => Clean(blk', word')
    <3>1. CASE Splits(c, size)
      <4>1. blk' = SplitAt(blk, c, size)
        BY <1>2, <3>1, Zenon DEF Take, SplitAt, new_block
      <4>2. word' = SplitWords(blk, word, c, size)
        BY <1>2, <3>1 DEF Take, SplitWords, new_block
      <4>3. blk[c].size >= size + HEADER + 16
        BY <3>1 DEF Splits
      <4>4. owned' = Given(owned, c, request)
        BY <1>2 DEF Given
      <4> QED
        BY <1>1, <1>2, <2>0, <2>1, <4>1, <4>2, <4>3, <4>4, SplitKeeps, SMTT(20)
    <3>2. CASE ~ Splits(c, size)
      <4> DEFINE h == Header(blk[c].size, FALSE, blk[c].next)
      <4>1. blk' = Mark(blk, c, h) /\ word' = word
        BY <1>2, <3>2 DEF Take, Mark
      <4>2. h \in Headers
        BY <1>2, <2>0, HeaderTyped, Zenon DEF Sound, Cut, Listed, Headers
      <4>3. h.size = blk[c].size /\ h.next = blk[c].next /\ ~ h.free
        BY DEF Header
      <4>4. owned' = Given(owned, c, request)
        BY <1>2 DEF Given
      <4> HIDE DEF h
      <4> QED
        BY <1>1, <1>2, <2>0, <2>1, <4>1, <4>2, <4>3, <4>4, WholeKeeps
    <3> QED
      BY <3>1, <3>2
  <2> QED
    BY <1>2, <2>2 DEF HeapInv
<1>3. CASE UNCHANGED <<blk, word, alloc_cursor, owned>> /\ clobbered' = clobbered
  BY <1>3 DEF HeapInv
<1> QED
  BY <1>2, <1>3, Zenon DEF kmalloc, size
----------------------------------------------------------------------------
\* The list f with block b free and not yet merged with the one before it:
\* only b may be free beside a free block.
HalfClean(f, w, b) ==
    /\ TagsIntact(f, w)
    /\ \A x \in DOMAIN f : f[x].free /\ f[x].next # Null /\ f[x].next # b =>
                             ~ f[f[x].next].free

Dropped(o, b) == [x \in DOMAIN o \ {b} |-> o[x]]

\* kfree marks b free.
LEMMA MarkKeeps ==
  ASSUME NEW f, NEW w, NEW o, Sound(f, w, o), NEW b \in DOMAIN o,
         NEW h \in Headers, h.size = f[b].size, h.next = f[b].next, h.free
  PROVE  /\ Sound(Mark(f, b, h), w, Dropped(o, b))
         /\ TagsIntact(f, w) => TagsIntact(Mark(f, b, h), w)
<1> DEFINE g == Mark(f, b, h)
<1> DEFINE q == Dropped(o, b)
<1>1. Cut(f) /\ TagsGood(f, w) /\ Kept(f, o) /\ b \in DOMAIN f
  BY DEF Sound, Kept
<1>2. /\ Cut(g)
      /\ DOMAIN g = DOMAIN f
      /\ \A x \in DOMAIN f : /\ g[x].size = f[x].size
                             /\ g[x].next = f[x].next
                             /\ End(g, x) = End(f, x)
                             /\ x # b => g[x] = f[x]
  BY <1>1, MarkCut
<1>3. DOMAIN q = DOMAIN o \ {b} /\ \A x \in DOMAIN q : q[x] = o[x]
  BY DEF Dropped
<1> HIDE DEF g, q
<1>4. TagsGood(g, w)
  BY <1>1, <1>2 DEF TagsGood
<1>5. TagsIntact(f, w) => TagsIntact(g, w)
  BY <1>2 DEF TagsIntact
<1>6. Kept(g, q)
  BY <1>1, <1>2, <1>3 DEF Kept
<1>7. \A x \in DOMAIN q : q[x] \in Nat
  BY <1>3 DEF Sound
<1> QED
  BY <1>2, <1>4, <1>5, <1>6, <1>7 DEF Sound, g, q

\* kfree merges block b with its successor n, neither of them held.
LEMMA AbsorbKeeps ==
  ASSUME NEW f, NEW w, NEW o, Sound(f, w, o),
         NEW b \in DOMAIN f, NEW n \in DOMAIN f, f[b].next = n,
         b \notin DOMAIN o, n \notin DOMAIN o
  PROVE  Sound(Absorb(f, b, n), AbsorbWords(f, w, b, n), o)
<1> DEFINE g == Absorb(f, b, n)
<1> DEFINE v == AbsorbWords(f, w, b, n)
<1>1. Cut(f) /\ TagsGood(f, w) /\ Kept(f, o)
  BY DEF Sound
<1>2. /\ Cut(g) /\ DOMAIN g = DOMAIN f \ {n}
      /\ \A x \in DOMAIN f \ {b, n} : g[x] = f[x]
  BY <1>1, AbsorbCut
<1>3. TagsGood(g, v)
  BY <1>1, AbsorbTags
<1> HIDE DEF g, v
<1>4. Kept(g, o)
  BY <1>1, <1>2 DEF Kept
<1> QED
  BY <1>2, <1>3, <1>4 DEF Sound, g, v

\* kfree's first half: block b is free and merged with the next one.
LEMMA FirstHalf ==
  ASSUME HeapInv, NEW b \in DOMAIN owned
  PROVE  /\ Sound(AfterNext(b), WordNext(b), Dropped(owned, b))
         /\ b \in DOMAIN AfterNext(b) /\ AfterNext(b)[b].free
         /\ CursorNext(b) \in DOMAIN AfterNext(b)
         /\ ~ clobbered => HalfClean(AfterNext(b), WordNext(b), b)
         /\ b # heap_head => WordNext(b)[b] = word[b]
<1> DEFINE h == Header(blk[b].size, TRUE, blk[b].next)
<1> DEFINE f == Mark(blk, b, h)
<1> DEFINE o == Dropped(owned, b)
<1> DEFINE n == next_block(b)
<1>1. /\ Sound(blk, word, owned) /\ Cut(blk) /\ Kept(blk, owned) /\ b \in DOMAIN blk
      /\ blk[b] \in Headers /\ blk[b].size \in Nat /\ b \in Nat
      /\ blk[b].next \in Nat \cup {Null}
      /\ alloc_cursor \in DOMAIN blk /\ alloc_cursor \in Nat
  BY DEF HeapInv, Sound, Kept, Cut, Listed, Headers
<1>2. h \in Headers
  BY <1>1, HeaderTyped, Zenon
<1>3. h.size = blk[b].size /\ h.next = blk[b].next /\ h.free
  BY DEF Header
<1>4. Freed(b) = f
  BY DEF Freed, Mark
<1> HIDE DEF h
<1>5. /\ Cut(f) /\ DOMAIN f = DOMAIN blk /\ f[b] = h
      /\ \A x \in DOMAIN f : /\ f[x].size = blk[x].size
                             /\ f[x].next = blk[x].next
                             /\ End(f, x) = End(blk, x)
                             /\ x # b => f[x] = blk[x]
  BY <1>1, <1>2, <1>3, MarkCut, SMTT(20)
<1>6. Sound(f, word, o) /\ (TagsIntact(blk, word) => TagsIntact(f, word))
  BY <1>1, <1>2, <1>3, MarkKeeps
<1> HIDE DEF f
<1>7. \A x \in DOMAIN blk : blk[x].next # Null =>
         blk[x].next = End(blk, x) /\ blk[x].next \in DOMAIN blk /\ blk[x].next < HEAP_SIZE
  <2> SUFFICES ASSUME NEW x \in DOMAIN blk, blk[x].next # Null
               PROVE  /\ blk[x].next = End(blk, x) /\ blk[x].next \in DOMAIN blk
                      /\ blk[x].next < HEAP_SIZE
    OBVIOUS
  <2> DEFINE y == blk[x].next
  <2>1. y = End(blk, x) /\ y \in DOMAIN blk
    BY <1>1 DEF Cut, Linked
  <2>2. y \in Nat /\ blk[y].size \in Nat /\ y + HEADER + blk[y].size <= HEAP_SIZE
    BY <1>1, <2>1 DEF Cut, Listed, Inside, End, Headers
  <2>3. y < HEAP_SIZE
    BY <2>2, HeapAssumption DEF HEADER
  <2> QED
    BY <2>1, <2>3
<1>8. ~ clobbered => TagsIntact(blk, word) /\ NoFreePair(blk)
  BY DEF HeapInv, Clean
<1>9. b # heap_head => b \in DOMAIN word
  <2>1. b # heap_head => \E p \in DOMAIN blk : blk[p].next = b
    BY <1>1 DEF Cut, Adjacent
  <2> QED
    BY <2>1, <1>1, <1>7 DEF Sound, TagsGood, Null
<1>10. CASE NextFree(b)
  <2>1. n = End(blk, b) /\ blk[n].free /\ n < HEAP_SIZE
    BY <1>10, <1>1, HeapAssumption DEF NextFree, next_block, End, HEADER
  <2>2. blk[b].next = n /\ n \in DOMAIN blk
    BY <2>1, <1>1, HeapAssumption DEF Cut, Linked
  <2>3. b # n /\ n \in Nat /\ b < n /\ End(blk, n) \in Nat /\ n < End(blk, n)
    BY <2>1, <2>2, <1>1 DEF Cut, Listed, Headers, End, HEADER
  <2> DEFINE g == Absorb(f, b, n)
  <2> DEFINE v == AbsorbWords(f, word, b, n)
  <2>4. /\ Cut(g) /\ DOMAIN g = DOMAIN f \ {n}
        /\ g[b].size = f[b].size + HEADER + f[n].size
        /\ g[b].free = f[b].free
        /\ g[b].next = f[n].next
        /\ End(g, b) = End(f, n)
        /\ \A x \in DOMAIN f \ {b, n} : g[x] = f[x]
    <3>1. Cut(f) /\ b \in DOMAIN f /\ n \in DOMAIN f /\ f[b].next = n
      BY <1>1, <1>5, <2>2
    <3>2. /\ Cut(g) /\ DOMAIN g = DOMAIN f \ {n}
          /\ g[b].size = f[b].size + HEADER + f[n].size
          /\ End(g, b) = End(f, n)
      BY <3>1, AbsorbCut
    <3>3. g[b].free = f[b].free /\ g[b].next = f[n].next
      BY <3>1, <2>3 DEF Absorb, Header
    <3>4. \A x \in DOMAIN f \ {b, n} : g[x] = f[x]
      BY DEF Absorb
    <3> QED
      BY <3>2, <3>3, <3>4
  <2>5. AfterNext(b) = g
    BY <1>4, <1>10 DEF AfterNext
  <2>6. WordNext(b) = v
    BY <1>10, <2>4, <2>5 DEF WordNext, AbsorbWords
  <2>7. b \notin DOMAIN o /\ n \notin DOMAIN o
    BY <1>1, <2>1 DEF Dropped, Kept
  <2>8. Sound(g, v, o)
    BY <1>1, <1>5, <1>6, <2>2, <2>7, AbsorbKeeps
  <2>9. TagsIntact(blk, word) => TagsIntact(g, v)
    <3>1. TagsGood(f, word)
      BY <1>6 DEF Sound
    <3> QED
      BY <3>1, <1>1, <1>5, <1>6, <2>2, AbsorbTags
  <2>10. b # heap_head => v[b] = word[b]
    BY <1>5, <1>9, <2>2, <2>3 DEF AbsorbWords, Merged
  <2> HIDE DEF g, v
  <2>11. CursorNext(b) \in DOMAIN g
    BY <1>1, <1>5, <1>10, <2>3, <2>4 DEF CursorNext
  <2>12. NoFreePair(blk) =>
           \A x \in DOMAIN g : g[x].free /\ g[x].next # Null /\ g[x].next # b =>
                                 ~ g[g[x].next].free
    <3> SUFFICES ASSUME NoFreePair(blk), NEW x \in DOMAIN g,
                        g[x].free, g[x].next # Null, g[x].next # b
                 PROVE  ~ g[g[x].next].free
      OBVIOUS
    <3>1. CASE x = b
      <4>1. g[x].next = blk[n].next
        BY <3>1, <1>5, <2>2, <2>3, <2>4
      <4>2. blk[n].next \in DOMAIN blk /\ blk[n].next # n /\ ~ blk[blk[n].next].free
        BY <4>1, <1>7, <2>1, <2>2, <2>3 DEF NoFreePair
      <4> QED
        BY <4>1, <4>2, <1>5, <2>4
    <3>2. CASE x # b
      <4>1. x \in DOMAIN blk /\ x # n /\ g[x] = blk[x]
        BY <3>2, <1>5, <2>4
      <4>2. blk[x].next \in DOMAIN blk /\ ~ blk[blk[x].next].free
        BY <4>1, <1>7 DEF NoFreePair
      <4>3. blk[x].next # n
        BY <2>1, <4>2
      <4> QED
        BY <4>1, <4>2, <4>3, <1>5, <2>4
    <3> QED
      BY <3>1, <3>2
  <2>13. ~ clobbered => HalfClean(g, v, b)
    BY <1>8, <2>9, <2>12 DEF HalfClean
  <2>14. b \in DOMAIN g /\ g[b].free
    BY <1>1, <1>3, <1>5, <2>3, <2>4
  <2> QED
    BY <2>5, <2>6, <2>8, <2>10, <2>11, <2>13, <2>14
<1>11. CASE ~ NextFree(b)
  <2>1. AfterNext(b) = f /\ WordNext(b) = word
    BY <1>4, <1>11 DEF AfterNext, WordNext
  <2>2. CursorNext(b) \in DOMAIN f
    BY <1>1, <1>5, <1>11 DEF CursorNext
  <2>3. blk[b].next # Null => ~ blk[blk[b].next].free
    BY <1>1, <1>7, <1>11, HeapAssumption DEF NextFree, next_block, Null
  <2>4. NoFreePair(blk) =>
          \A x \in DOMAIN f : f[x].free /\ f[x].next # Null /\ f[x].next # b =>
                                ~ f[f[x].next].free
    <3> SUFFICES ASSUME NoFreePair(blk), NEW x \in DOMAIN f,
                        f[x].free, f[x].next # Null, f[x].next # b
                 PROVE  ~ f[f[x].next].free
      OBVIOUS
    <3>1. blk[x].next = f[x].next /\ blk[x].next \in DOMAIN blk
      BY <1>5, <1>7
    <3>2. ~ blk[blk[x].next].free
      BY <3>1, <2>3, <1>5 DEF NoFreePair
    <3> QED
      BY <3>1, <3>2, <1>5
  <2>5. ~ clobbered => HalfClean(f, word, b)
    BY <1>6, <1>8, <2>4 DEF HalfClean
  <2> QED
    BY <1>1, <1>3, <1>5, <1>6, <2>1, <2>2, <2>5
<1> QED
  BY <1>10, <1>11

\* The block that kfree reads through the word below b is the one before b.
LEMMA PrevIsBefore ==
  ASSUME NEW f, NEW w, NEW o, Sound(f, w, o), NEW b \in DOMAIN f,
         b # heap_head => w[b] = word[b]
  PROVE  /\ \A p \in PrevReads(f, b) : p # Null => p \in DOMAIN f /\ f[p].next = b
         /\ TagsIntact(f, w) => \A p \in PrevReads(f, b) : p # Null
         /\ \A p, q \in DOMAIN f : f[p].next = b /\ f[q].next = b => p = q
         /\ \A p \in DOMAIN f : f[p].next = b => b # heap_head
<1>1. Cut(f) /\ TagsGood(f, w) /\ b \in Nat
  BY DEF Sound, Cut, Listed
<1>2. \A p \in DOMAIN f : /\ p \in Nat /\ f[p].size \in Nat
                          /\ End(f, p) = p + HEADER + f[p].size
                          /\ End(f, p) \in Nat /\ p < End(f, p)
  BY <1>1 DEF Cut, Listed, Headers, End, HEADER
<1>3. \A p \in DOMAIN f : f[p].next = b => End(f, p) = b
  BY <1>1 DEF Cut, Linked, Null
<1>4. ASSUME NEW p \in DOMAIN f, NEW q \in DOMAIN f, f[p].next = b, f[q].next = b
      PROVE  p = q
  <2>1. (p <= q \/ p >= End(f, q)) /\ (q <= p \/ q >= End(f, p))
    BY <1>1 DEF Cut, Disjoint
  <2> QED
    BY <2>1, <1>2, <1>3, <1>4
<1>5. \A p \in DOMAIN f : f[p].next = b => b # heap_head
  BY <1>2, <1>3 DEF heap_head
<1>6. ASSUME b # heap_head
      PROVE  \E q \in DOMAIN f : /\ f[q].next = b
                                 /\ b = q + HEADER + f[q].size
                                 /\ word[b] \in {f[q].size, Junk}
                                 /\ TagsIntact(f, w) => word[b] = f[q].size
  <2>1. PICK q \in DOMAIN f : f[q].next = b
    BY <1>1, <1>6 DEF Cut, Adjacent
  <2>2. End(f, q) = b /\ b = q + HEADER + f[q].size
    BY <1>2, <1>3, <2>1
  <2>3. word[b] \in {f[q].size, Junk} /\ (TagsIntact(f, w) => word[b] = f[q].size)
    BY <1>1, <1>6, <2>2 DEF TagsGood, TagsIntact
  <2> QED
    BY <2>1, <2>2, <2>3
<1>7. ASSUME NEW p \in PrevReads(f, b)
      PROVE  /\ p # Null => p \in DOMAIN f /\ f[p].next = b
             /\ TagsIntact(f, w) => p # Null
  <2>1. b # heap_head
    BY <1>7 DEF PrevReads
  <2>2. PICK q \in DOMAIN f : /\ f[q].next = b
                              /\ b = q + HEADER + f[q].size
                              /\ word[b] \in {f[q].size, Junk}
                              /\ TagsIntact(f, w) => word[b] = f[q].size
    BY <1>6, <2>1
  <2>3. CASE word[b] = Junk
    <3>1. word[b] # f[q].size
      BY <2>3, <1>2 DEF Junk
    <3> QED
      BY <1>7, <2>1, <2>2, <2>3, <3>1 DEF PrevReads, ListPrev
  <2>4. CASE word[b] # Junk
    <3>1. p = b - HEADER - word[b] /\ word[b] = f[q].size
      BY <1>7, <2>1, <2>2, <2>4 DEF PrevReads
    <3>2. p = q
      BY <3>1, <2>2, <1>1, <1>2 DEF HEADER
    <3>3. p # Null
      BY <3>2, <1>2 DEF Null
    <3> QED
      BY <3>2, <3>3, <2>2
  <2> QED
    BY <2>3, <2>4
<1> QED
  BY <1>4, <1>5, <1>7

\* kfree, whatever it finds in the word below the block.
LEMMA KfreeKeeps ==
  ASSUME HeapInv, NEW b \in DOMAIN owned, kfree(b)
  PROVE  HeapInv'
<1> DEFINE f == AfterNext(b)
<1> DEFINE w == WordNext(b)
<1> DEFINE o == Dropped(owned, b)
<1> DEFINE cur == CursorNext(b)
<1>1. /\ Sound(f, w, o)
      /\ b \in DOMAIN f /\ f[b].free
      /\ cur \in DOMAIN f
      /\ ~ clobbered => HalfClean(f, w, b)
      /\ b # heap_head => w[b] = word[b]
  BY FirstHalf
<1>2. owned' = o /\ clobbered' = clobbered /\ clobbered \in BOOLEAN
  BY DEF kfree, Dropped, HeapInv
<1>3. \/ \E p \in PrevReads(f, b) :
           /\ MergesInto(f, p, b)
           /\ blk' = Absorb(f, p, b)
           /\ word' = Merged(w, b, End(f, b), f[p].size + HEADER + f[b].size)
           /\ alloc_cursor' = IF cur = b THEN p ELSE cur
      \/ /\ b = heap_head \/ \E p \in PrevReads(f, b) : ~ MergesInto(f, p, b)
         /\ blk' = f
         /\ word' = w
         /\ alloc_cursor' = cur
  BY DEF kfree
<1> HIDE DEF f, w, o, cur
<1>4. /\ \A p \in PrevReads(f, b) : p # Null => p \in DOMAIN f /\ f[p].next = b
      /\ TagsIntact(f, w) => \A p \in PrevReads(f, b) : p # Null
      /\ \A p, q \in DOMAIN f : f[p].next = b /\ f[q].next = b => p = q
      /\ \A p \in DOMAIN f : f[p].next = b => b # heap_head
  BY <1>1, PrevIsBefore, SMTT(20)
<1>5. \A x \in DOMAIN f : f[x].next # Null => f[x].next \in DOMAIN f
  BY <1>1 DEF Sound, Cut, Linked
<1>6. ASSUME NEW p \in PrevReads(f, b), MergesInto(f, p, b),
             blk' = Absorb(f, p, b),
             word' = Merged(w, b, End(f, b), f[p].size + HEADER + f[b].size),
             alloc_cursor' = IF cur = b THEN p ELSE cur
      PROVE  HeapInv'
  <2>1. p \in DOMAIN f /\ f[p].next = b /\ f[p].free
    BY <1>4, <1>6 DEF MergesInto
  <2>2. word' = AbsorbWords(f, w, p, b)
    BY <1>6 DEF AbsorbWords
  <2>3. /\ Cut(f) /\ TagsGood(f, w) /\ b \in DOMAIN f
        /\ p \notin DOMAIN o /\ b \notin DOMAIN o
    BY <1>1, <2>1 DEF Sound, Kept
  <2> DEFINE g == Absorb(f, p, b)
  <2> DEFINE v == AbsorbWords(f, w, p, b)
  <2>4. /\ Cut(g) /\ p # b /\ DOMAIN g = DOMAIN f \ {b}
        /\ g[p].free = f[p].free
        /\ g[p].next = f[b].next
        /\ \A x \in DOMAIN f \ {p, b} : g[x] = f[x]
    <3>1. Cut(g) /\ p # b /\ DOMAIN g = DOMAIN f \ {b}
      BY <2>1, <2>3, AbsorbCut
    <3>2. g[p].free = f[p].free /\ g[p].next = f[b].next
      BY <2>1, <3>1, Zenon DEF Absorb, Header
    <3>3. \A x \in DOMAIN f \ {p, b} : g[x] = f[x]
      BY DEF Absorb
    <3> QED
      BY <3>1, <3>2, <3>3
  <2>5. Sound(g, v, o)
    BY <1>1, <2>1, <2>3, AbsorbKeeps
  <2>6. TagsIntact(f, w) => TagsIntact(g, v)
    BY <2>1, <2>3, AbsorbTags
  <2> HIDE DEF g, v
  <2>7. alloc_cursor' \in DOMAIN g
    BY <1>1, <1>6, <2>1, <2>4
  <2>8. ~ clobbered => NoFreePair(g)
    <3> SUFFICES ASSUME ~ clobbered, NEW x \in DOMAIN g, g[x].free, g[x].next # Null
                 PROVE  ~ g[g[x].next].free
      BY DEF NoFreePair
    <3>1. \A y \in DOMAIN f : f[y].free /\ f[y].next # Null /\ f[y].next # b =>
                                ~ f[f[y].next].free
      BY <1>1 DEF HalfClean
    <3>2. f[b].next # b
      BY <1>1, <1>4, <2>1, <2>4
    <3>3. \A y \in DOMAIN g : ~ f[y].free => ~ g[y].free
      BY <2>4
    <3>4. CASE x = p
      BY <3>1, <3>2, <3>3, <3>4, <1>1, <1>5, <2>4
    <3>5. CASE x # p
      <4>1. x \in DOMAIN f /\ g[x] = f[x] /\ f[x].next # b
        BY <3>5, <1>4, <2>1, <2>4
      <4> QED
        BY <4>1, <3>1, <3>3, <1>5, <2>4
    <3> QED
      BY <3>4, <3>5
  <2>9. ~ clobbered => Clean(g, v)
    BY <1>1, <2>6, <2>8 DEF HalfClean, Clean
  <2>10. blk' = g /\ word' = v
    BY <1>6, <2>2 DEF g, v
  <2> QED
    BY <1>2, <2>5, <2>7, <2>9, <2>10 DEF HeapInv
<1>7. ASSUME b = heap_head \/ \E p \in PrevReads(f, b) : ~ MergesInto(f, p, b),
             blk' = f, word' = w, alloc_cursor' = cur
      PROVE  HeapInv'
  <2>1. ~ clobbered => NoFreePair(f)
    <3> SUFFICES ASSUME ~ clobbered, NEW x \in DOMAIN f, f[x].free, f[x].next # Null
                 PROVE  ~ f[f[x].next].free
      BY DEF NoFreePair
    <3>1. CASE f[x].next # b
      BY <3>1, <1>1 DEF HalfClean
    <3>2. CASE f[x].next = b
      <4>1. PICK p \in PrevReads(f, b) : ~ MergesInto(f, p, b)
        BY <1>4, <1>7, <3>2
      <4>2. p # Null /\ p \in DOMAIN f /\ f[p].next = b
        BY <4>1, <1>1, <1>4 DEF HalfClean
      <4>3. p = x
        BY <4>2, <3>2, <1>4
      <4> QED
        BY <4>1, <4>2, <4>3 DEF MergesInto
    <3> QED
      BY <3>1, <3>2
  <2>2. ~ clobbered => Clean(f, w)
    BY <1>1, <2>1 DEF HalfClean, Clean
  <2> QED
    BY <1>1, <1>2, <1>7, <2>2 DEF HeapInv
<1> QED
  BY <1>3, <1>6, <1>7

\* An owner writes every byte it was given.
LEMMA UsePayloadKeeps ==
  ASSUME HeapInv, NEW b \in DOMAIN owned, use_payload(b)
  PROVE  HeapInv'
<1>1. /\ word' = [word EXCEPT ![End(blk, b)] = Junk]
      /\ clobbered' = TRUE
      /\ blk' = blk /\ alloc_cursor' = alloc_cursor /\ owned' = owned
  BY DEF use_payload
<1>2. TagsGood(blk, word')
  BY <1>1 DEF HeapInv, Sound, TagsGood
<1>3. Sound(blk, word', owned)
  BY <1>2 DEF HeapInv, Sound
<1> QED
  BY <1>1, <1>3 DEF HeapInv
----------------------------------------------------------------------------
\* The invariant is kept by every kmalloc, every kfree and every use of a
\* block, whichever words the owners overwrite.
LEMMA HeapInvStep == HeapInv /\ [HeapNext]_heap_vars => HeapInv'
<1> SUFFICES ASSUME HeapInv, [HeapNext]_heap_vars PROVE HeapInv'
  OBVIOUS
<1>1. ASSUME NEW request \in Requests, kmalloc(request) PROVE HeapInv'
  BY <1>1, KmallocKeeps, HeapAssumption
<1>2. ASSUME NEW b \in DOMAIN owned, kfree(b) PROVE HeapInv'
  BY <1>2, KfreeKeeps
<1>3. ASSUME NEW b \in DOMAIN owned, use_payload(b) PROVE HeapInv'
  BY <1>3, UsePayloadKeeps
<1>4. CASE UNCHANGED heap_vars
  BY <1>4 DEF heap_vars, HeapInv
<1> QED
  BY <1>1, <1>2, <1>3, <1>4 DEF HeapNext

\* The invariant says what HeapSound says.
LEMMA HeapInvSound == HeapInv => HeapSound
<1> SUFFICES ASSUME HeapInv PROVE HeapSound
  OBVIOUS
<1>1. Tiling
  BY DEF HeapInv, Sound, Cut, Listed, Linked, Disjoint, Tiling
<1>2. Coalesced
  BY DEF HeapInv, Clean, NoFreePair, Coalesced
<1>3. OwnersSafe
  BY DEF HeapInv, Sound, Kept, OwnersSafe
<1> QED
  BY <1>1, <1>2, <1>3 DEF HeapSound

\* Whatever kmalloc splits, kfree merges and owners store in their blocks,
\* down to the words kfree reads: the heap stays cut into consecutive blocks,
\* the cursor stays on one of them, free neighbours are merged while no tag
\* was overwritten, and a caller keeps a used block as large as it asked for.
THEOREM HeapStaysSound == HeapSpec => []HeapSound
<1>1. HeapInit => HeapInv
  BY HeapInitInv
<1>2. HeapInv /\ [HeapNext]_heap_vars => HeapInv'
  BY HeapInvStep
<1>3. HeapInv => HeapSound
  BY HeapInvSound
<1> QED
  BY <1>1, <1>2, <1>3, PTL DEF HeapSpec

----------------------------------------------------------------------------
\* Protected pages stay marked; page 0 can be freed through a null leaf.
ProtectedMarked ==
    /\ boot = "paging_init" => LowAndKernel \subseteq used
    /\ boot = "up" => Protected \ {0} \subseteq used

IInv == /\ TypeOK
        /\ CursorInv
        /\ FreeCountExact
        /\ ProtectedMarked
        /\ ReservedNeverHandedOut

----------------------------------------------------------------------------
\* There are finitely many pages.
LEMMA PagesFinite ==
    IsFiniteSet(Pages) /\ \A S \in SUBSET Pages : IsFiniteSet(S) /\ Cardinality(S) \in Nat
<1>1. IsFiniteSet(Pages)
  BY FS_Interval, SizesAssumption DEF Pages
<1>2. ASSUME NEW S \in SUBSET Pages PROVE IsFiniteSet(S) /\ Cardinality(S) \in Nat
  BY <1>1, FS_Subset, FS_CardinalityType
<1>. QED BY <1>1, <1>2

\* Marking the pages of R lowers the number of clear bits by those that
\* were clear.
LEMMA ReserveCount ==
    ASSUME NEW U \in SUBSET Pages, NEW R \in SUBSET Pages
    PROVE  Cardinality(Pages \ (U \cup R)) = Cardinality(Pages \ U) - Cardinality(R \ U)
<1>1. IsFiniteSet(Pages \ U) BY PagesFinite
<1>2. Cardinality((Pages \ U) \ R) = Cardinality(Pages \ U) - Cardinality((Pages \ U) \cap R)
  BY <1>1, FS_Difference
<1>3. (Pages \ U) \ R = Pages \ (U \cup R) /\ (Pages \ U) \cap R = R \ U OBVIOUS
<1>. QED BY <1>2, <1>3

\* Marking one page.
LEMMA MarkOne ==
    ASSUME NEW U \in SUBSET Pages, NEW i \in Pages, i \notin U
    PROVE  Cardinality(Pages \ (U \cup {i})) = Cardinality(Pages \ U) - 1
<1>1. Cardinality({i} \ U) = 1 BY {i} \ U = {i}, FS_Singleton
<1>. QED BY <1>1, ReserveCount

\* Clearing one page.
LEMMA ClearOne ==
    ASSUME NEW U \in SUBSET Pages, NEW i \in U
    PROVE  Cardinality(Pages \ (U \ {i})) = Cardinality(Pages \ U) + 1
<1>1. IsFiniteSet(Pages \ U) BY PagesFinite
<1>2. Pages \ (U \ {i}) = (Pages \ U) \cup {i} OBVIOUS
<1>. QED BY <1>1, <1>2, FS_AddElement

\* The pages that the boot frees have bits.
LEMMA AvailableInBitmap ==
    ASSUME NEW map PROVE AvailablePages(map) \in SUBSET Pages
  BY DEF AvailablePages, FreedPages

\* So have the ones it reserves.
LEMMA LowAndKernelInBitmap == LowAndKernel \in SUBSET Pages /\ ModulePages \in SUBSET Pages
  BY DEF LowAndKernel, ReservedPages, ModulePages

\* The counters are numbers.
LEMMA TotalIsNat ==
    ASSUME NEW map \in MemoryMaps PROVE TotalPages(map) \in Nat
<1>1. DOMAIN map = 1 .. Len(map) /\ Len(map) \in Nat BY SizesAssumption
<1>2. IsFiniteSet(DOMAIN map) BY <1>1, FS_Interval
<1>3. IsFiniteSet(1 .. TOTAL_PAGES) BY SizesAssumption, FS_Interval
<1>4. IsFiniteSet((DOMAIN map) \X (1 .. TOTAL_PAGES)) BY <1>2, <1>3, FS_Product
<1>5. IsFiniteSet({ip \in (DOMAIN map) \X (1 .. TOTAL_PAGES) :
                   map[ip[1]].available /\ ip[2] <= EntryPages(map[ip[1]])})
  BY <1>4, FS_Subset
<1>. QED BY <1>5, FS_CardinalityType DEF TotalPages

\* With the cursor invariant, the page the scan stops at is the lowest free
\* page, and everything below it is used.
LEMMA ScanIsLowest ==
    ASSUME TypeOK, CursorInv, NEW i \in Pages, alloc_page_finds(i)
    PROVE  /\ i \notin used /\ i >= last_page
           /\ \A q \in Pages : q < i => q \in used
<1>1. last_page \in Int /\ i \in Int /\ TOTAL_PAGES \in Int
  BY SizesAssumption DEF TypeOK, Pages
<1>2. i \notin used /\ i >= last_page
  BY <1>1 DEF alloc_page_finds, CursorInv
<1>3. ASSUME NEW q \in Pages, q < i PROVE q \in used
  <2>1. CASE q < last_page BY <2>1 DEF CursorInv
  <2>2. CASE q >= last_page
    <3>1. ScanPos(q) < ScanPos(i) BY <1>1, <1>2, <1>3, <2>2 DEF ScanPos, Pages
    <3>. QED BY <3>1 DEF alloc_page_finds
  <2>. QED BY <1>1, <2>1, <2>2 DEF Pages
<1>. QED BY <1>2, <1>3

----------------------------------------------------------------------------
\* Before the memory map is read every page is marked.
LEMMA InitIInv == Init => IInv
<1>. SUFFICES ASSUME Init PROVE IInv OBVIOUS
<1>1. last_page = 0 /\ boot = "parse_info" BY DEF Init
<1>2. TypeOK
  <2>1. null_leaf \in BOOLEAN BY Zenon DEF Init
  <2>2. boot \in {"parse_info", "paging_init", "up"} /\ used \subseteq Pages
        /\ held \subseteq Pages \ {0} /\ ret \in Pages \cup {-1}
    BY DEF Init
  <2>3. last_page \in 0 .. TOTAL_PAGES /\ free_pages_count \in Int
        /\ total_pages \in Nat /\ reserved_end \in Nat
    BY SizesAssumption DEF Init
  <2>. QED BY <2>1, <2>2, <2>3 DEF TypeOK
<1>3. CursorInv BY <1>1 DEF CursorInv, Pages
<1>. QED BY <1>1, <1>2, <1>3
     DEF IInv, FreeCountExact, ProtectedMarked, ReservedNeverHandedOut

\* The boot sequence keeps the invariant.
LEMMA BootSteps ==
    ASSUME IInv,
           \/ \E addr \in ModuleEnds : reserve_below(addr)
           \/ \E map \in MemoryMaps : pmm_init(map)
           \/ paging_init
    PROVE  IInv'
<1>. USE DEF IInv
<1>1. ASSUME NEW addr \in ModuleEnds, reserve_below(addr) PROVE IInv'
  <2>0. PICK R \in SUBSET Pages : /\ R = ReservedPages(0, RoundUp(addr))
                                  /\ reserve_region(R)
    BY <1>1 DEF reserve_below, ReservedPages
  <2>1. Cardinality(R \ used) \in Nat BY PagesFinite
  <2>2. TypeOK'
    BY <1>1, <2>0, <2>1, SizesAssumption DEF reserve_below, reserve_region, TypeOK
  <2>3. CursorInv' BY <1>1, <2>0 DEF reserve_below, reserve_region, CursorInv
  <2>. QED BY <1>1, <2>2, <2>3 DEF reserve_below, FreeCountExact,
                                   ProtectedMarked, ReservedNeverHandedOut
<1>2. ASSUME NEW map \in MemoryMaps, pmm_init(map) PROVE IInv'
  <2>. DEFINE A == AvailablePages(map)
              L == LowAndKernel
  <2>1. A \in SUBSET Pages /\ L \in SUBSET Pages
    BY AvailableInBitmap, LowAndKernelInBitmap
  <2>2. IsFiniteSet(A) /\ Cardinality(A) \in Nat /\ Cardinality(L \cap A) \in Nat
    BY <2>1, PagesFinite
  <2>3. used' = (Pages \ A) \cup L BY <1>2 DEF pmm_init
  <2>4. Cardinality(Pages \ used') = Cardinality(A) - Cardinality(L \cap A)
    <3>1. Cardinality(A \ L) = Cardinality(A) - Cardinality(A \cap L)
      BY <2>2, FS_Difference
    <3>2. Pages \ used' = A \ L /\ A \cap L = L \cap A BY <2>1, <2>3
    <3>. QED BY <3>1, <3>2
  <2>5. TypeOK'
    BY <1>2, <2>1, <2>2, <2>3, TotalIsNat, SizesAssumption DEF pmm_init, TypeOK
  <2>6. CursorInv' BY <1>2 DEF pmm_init, CursorInv, Pages
  <2>7. FreeCountExact' BY <1>2, <2>4 DEF pmm_init, FreeCountExact
  <2>. QED BY <1>2, <2>3, <2>5, <2>6, <2>7
           DEF pmm_init, ProtectedMarked, ReservedNeverHandedOut, LowAndKernel
<1>3. ASSUME paging_init PROVE IInv'
  <2>. DEFINE R == ModulePages
  <2>1. R \in SUBSET Pages BY LowAndKernelInBitmap
  <2>2. Cardinality(R \ used) \in Nat /\ Cardinality(Pages \ used) \in Nat
    BY <2>1, PagesFinite
  <2>3. used' = used \cup R /\ free_pages_count' = free_pages_count - Cardinality(R \ used)
    BY <1>3 DEF paging_init, reserve_region
  <2>4. TypeOK' BY <1>3, <2>1, <2>2, <2>3 DEF paging_init, TypeOK
  <2>5. CursorInv' BY <1>3, <2>3 DEF paging_init, CursorInv
  <2>6. FreeCountExact'
    <3>1. used \in SUBSET Pages /\ free_pages_count = Cardinality(Pages \ used)
      BY <1>3 DEF TypeOK, FreeCountExact, paging_init
    <3>. QED BY <2>1, <2>3, <3>1, ReserveCount DEF FreeCountExact
  <2>7. Protected' = Protected
    BY <1>3 DEF paging_init, Protected, LowAndKernel, ModulePages
  <2>8. ProtectedMarked'
    BY <1>3, <2>3, <2>7 DEF paging_init, ProtectedMarked, Protected
  <2>. QED BY <1>3, <2>4, <2>5, <2>6, <2>8 DEF paging_init, ReservedNeverHandedOut
<1>. QED BY <1>1, <1>2, <1>3

\* Taking the lowest clear page.
LEMMA TakePage ==
    ASSUME IInv, boot \in {"parse_info", "up"}, boot' = boot,
           NEW i \in Pages, alloc_page_finds(i),
           used' = used \cup {i}, free_pages_count' = free_pages_count - 1,
           last_page' = i + 1, ret' = i, Own(i),
           null_leaf' \in BOOLEAN,
           UNCHANGED <<total_pages, reserved_end>>
    PROVE  IInv'
<1>. USE DEF IInv
<1>1. i \notin used /\ i >= last_page /\ \A q \in Pages : q < i => q \in used
  BY ScanIsLowest
<1>2. TypeOK' BY SizesAssumption DEF TypeOK, Own, Pages
<1>3. CursorInv' BY <1>1 DEF CursorInv, Pages
<1>4. FreeCountExact'
  BY <1>1, MarkOne DEF FreeCountExact, TypeOK
<1>5. Protected' = Protected BY DEF Protected, LowAndKernel, ModulePages
<1>6. ProtectedMarked' BY <1>5 DEF ProtectedMarked
<1>7. ReservedNeverHandedOut'
  <2>. SUFFICES ASSUME boot = "up"
                PROVE  held' \cap Protected = {} /\ held' \subseteq used'
    BY <1>5 DEF ReservedNeverHandedOut
  <2>. QED BY <1>1 DEF ReservedNeverHandedOut, ProtectedMarked, Own
<1>. QED BY <1>2, <1>3, <1>4, <1>6, <1>7

\* The allocations keep it.
LEMMA AllocSteps ==
    ASSUME IInv, pmm_alloc_page \/ paging_alloc_page
    PROVE  IInv'
<1>. USE DEF IInv
<1>0. null_leaf' \in BOOLEAN
  <2>1. CASE pmm_alloc_page BY <2>1 DEF pmm_alloc_page, TypeOK
  <2>2. CASE paging_alloc_page BY <2>2, Zenon DEF paging_alloc_page, TypeOK
  <2>. QED BY <2>1, <2>2
<1>a. UNCHANGED <<boot, total_pages, reserved_end>> /\ boot \in {"parse_info", "up"}
  BY DEF pmm_alloc_page, paging_alloc_page
<1>1. ASSUME NEW i \in Pages, alloc_page_finds(i),
             used' = used \cup {i}, free_pages_count' = free_pages_count - 1,
             last_page' = i + 1, ret' = i, Own(i)
      PROVE  IInv'
  BY <1>0, <1>1, <1>a, TakePage
<1>2. ASSUME NEW i \in Pages, alloc_page_finds(i), last_page' = i, ret' = 0,
             UNCHANGED <<used, free_pages_count, held>>
      PROVE  IInv'
  <2>1. \A q \in Pages : q < i => q \in used BY <1>2, ScanIsLowest
  <2>2. TypeOK' BY <1>0, <1>2, <1>a, SizesAssumption DEF TypeOK, Pages
  <2>3. CursorInv' BY <1>2, <2>1 DEF CursorInv
  <2>. QED BY <1>2, <1>a, <2>2, <2>3
           DEF FreeCountExact, ProtectedMarked, ReservedNeverHandedOut,
               Protected, LowAndKernel, ModulePages
<1>3. ASSUME ret' = 0, UNCHANGED <<used, free_pages_count, last_page, held>>
      PROVE  IInv'
  <2>1. TypeOK' BY <1>0, <1>3, <1>a, SizesAssumption DEF TypeOK, Pages
  <2>. QED BY <1>3, <1>a, <2>1
           DEF CursorInv, FreeCountExact, ProtectedMarked, ReservedNeverHandedOut,
               Protected, LowAndKernel, ModulePages
<1>4. CASE pmm_alloc_page BY <1>1, <1>3, <1>4 DEF pmm_alloc_page
<1>5. CASE paging_alloc_page BY <1>1, <1>2, <1>3, <1>5 DEF paging_alloc_page
<1>. QED BY <1>4, <1>5

\* So does freeing a page that somebody holds.
LEMMA FreeStep ==
    ASSUME IInv, NEW p \in Pages, free_page(p)
    PROVE  IInv'
<1>. USE DEF IInv
<1>0. UNCHANGED <<boot, total_pages, reserved_end>> /\ boot = "up" /\ ret' = -1
      /\ held' = held \ {p} /\ null_leaf' \in BOOLEAN
  BY Zenon DEF free_page, TypeOK
<1>1. Protected' = Protected BY <1>0 DEF Protected, LowAndKernel, ModulePages
<1>2. p = 0 \/ p \notin Protected
  BY DEF free_page, ReservedNeverHandedOut
<1>3. CASE p \in used
  <2>1. /\ used' = used \ {p}
        /\ free_pages_count' = free_pages_count + 1
        /\ last_page' = IF p < last_page THEN p ELSE last_page
    BY <1>3 DEF free_page
  <2>2. TypeOK' BY <1>0, <2>1, SizesAssumption DEF TypeOK, Pages
  <2>3. CursorInv' BY <2>1, SizesAssumption DEF CursorInv, TypeOK, Pages
  <2>4. FreeCountExact' BY <1>0, <1>3, <2>1, ClearOne DEF FreeCountExact, TypeOK
  <2>5. ProtectedMarked' BY <1>0, <1>1, <1>2, <2>1 DEF ProtectedMarked
  <2>6. ReservedNeverHandedOut' BY <1>0, <1>1, <2>1 DEF ReservedNeverHandedOut
  <2>. QED BY <2>2, <2>3, <2>4, <2>5, <2>6
<1>4. CASE p \notin used
  <2>1. UNCHANGED <<used, free_pages_count, last_page>> BY <1>4 DEF free_page
  <2>2. TypeOK' BY <1>0, <2>1, SizesAssumption DEF TypeOK, Pages
  <2>. QED BY <1>0, <1>1, <2>1, <2>2
           DEF CursorInv, FreeCountExact, ProtectedMarked, ReservedNeverHandedOut
<1>. QED BY <1>3, <1>4

\* Every step keeps it.
LEMMA IInvInductive == IInv /\ [Next]_vars => IInv'
<1>. SUFFICES ASSUME IInv, [Next]_vars PROVE IInv' OBVIOUS
<1>1. CASE Next BY <1>1, BootSteps, AllocSteps, FreeStep DEF Next
<1>2. CASE UNCHANGED vars
  BY <1>2 DEF vars, IInv, TypeOK, CursorInv, FreeCountExact, ProtectedMarked,
              ReservedNeverHandedOut, Protected, LowAndKernel, ModulePages
<1>. QED BY <1>1, <1>2

----------------------------------------------------------------------------
\* The inductive invariant holds in every reachable state.
THEOREM IInvHolds == Spec => []IInv
  BY InitIInv, IInvInductive, PTL DEF Spec

\* The bitmap, the counters and the set of held pages keep their types.
THEOREM TypeCorrect == Spec => []TypeOK
  BY IInvHolds, PTL DEF IInv

\* Every page behind alloc_page's cursor is in use.
THEOREM CursorCorrect == Spec => []CursorInv
  BY IInvHolds, PTL DEF IInv

\* free_memory() counts the clear bits exactly.
THEOREM FreeCountCorrect == Spec => []FreeCountExact
  BY IInvHolds, PTL DEF IInv

\* Low memory, the kernel image and the boot modules are never handed out,
\* and no page is owned while its bit is clear.
THEOREM ReservedSafe == Spec => []ReservedNeverHandedOut
  BY IInvHolds, PTL DEF IInv

\* An allocation returns the lowest free page of the bitmap.
LowestFirst ==
    [][\A p \in held' \ held : \A q \in Pages : q < p => q \in used]_vars

\* free_page's rewind makes every allocation of alloc_page the lowest one.
THEOREM AllocLowestFirst == Spec => LowestFirst
<1>1. IInv /\ [Next]_vars =>
        [\A p \in held' \ held : \A q \in Pages : q < p => q \in used]_vars
  <2>. SUFFICES ASSUME IInv, Next, NEW p \in held', p \notin held,
                       NEW q \in Pages, q < p
                PROVE  q \in used
    BY DEF vars
  <2>1. pmm_alloc_page \/ paging_alloc_page
    BY DEF Next, reserve_below, pmm_init, paging_init, free_page
  <2>2. PICK i \in Pages : alloc_page_finds(i) /\ Own(i)
    BY <2>1 DEF pmm_alloc_page, paging_alloc_page
  <2>3. p = i BY <2>2 DEF Own
  <2>. QED BY <2>2, <2>3, ScanIsLowest DEF IInv
<1>. QED BY <1>1, IInvHolds, PTL DEF Spec, LowestFirst

\* An allocation returns null only when the identity-mapped pages are all in
\* use or page 0 was free.
THEOREM NullMeansFull == Spec => NullOnlyWhenFull
<1>1. IInv /\ [Next]_vars =>
        [boot = "up" /\ ret' = 0 /\ ret # 0 =>
          \/ 0 \notin used
          \/ \A q \in Pages : q * PAGE_SIZE < IDENTITY_MAP_LIMIT => q \in used]_vars
  <2>. SUFFICES ASSUME IInv, Next, boot = "up", ret' = 0, ret # 0,
                       0 \in used,
                       NEW q \in Pages, q * PAGE_SIZE < IDENTITY_MAP_LIMIT
                PROVE  q \in used
    BY DEF vars
  <2>1. \/ \E i \in Pages : alloc_page_finds(i) /\ i = 0
        \/ \E i \in Pages : alloc_page_finds(i) /\ i * PAGE_SIZE >= IDENTITY_MAP_LIMIT
        \/ alloc_page_fails
    <3>1. ASSUME NEW addr \in ModuleEnds, reserve_below(addr) PROVE FALSE
      BY <3>1 DEF reserve_below
    <3>2. ASSUME NEW map \in MemoryMaps, pmm_init(map) PROVE FALSE
      BY <3>2 DEF pmm_init
    <3>3. ASSUME paging_init PROVE FALSE
      BY <3>3 DEF paging_init
    <3>4. ASSUME NEW p \in Pages, free_page(p) PROVE FALSE
      BY <3>4 DEF free_page
    <3>5. CASE pmm_alloc_page
      BY <3>5 DEF pmm_alloc_page
    <3>6. CASE paging_alloc_page
      BY <3>6 DEF paging_alloc_page
    <3> QED
      BY <3>1, <3>2, <3>3, <3>4, <3>5, <3>6 DEF Next
  <2>2. CASE \E i \in Pages : alloc_page_finds(i) /\ i = 0
    BY <2>2 DEF alloc_page_finds
  <2>3. ASSUME NEW i \in Pages, alloc_page_finds(i),
               i * PAGE_SIZE >= IDENTITY_MAP_LIMIT
        PROVE  q \in used
    <3>1. q < i
      <4>. SUFFICES ASSUME q >= i PROVE FALSE BY DEF Pages
      <4>1. q * PAGE_SIZE >= i * PAGE_SIZE BY SizesAssumption DEF Pages
      <4>. QED BY <2>3, <4>1, SizesAssumption DEF Pages
    <3>. QED BY <2>3, <3>1, ScanIsLowest DEF IInv
  <2>4. CASE alloc_page_fails BY <2>4 DEF alloc_page_fails
  <2>. QED BY <2>1, <2>2, <2>3, <2>4
<1>. QED BY <1>1, IInvHolds, PTL DEF Spec, NullOnlyWhenFull

----------------------------------------------------------------------------
\* A set of numbers has a least element.
LEMMA LeastNumber ==
  ASSUME NEW T \in SUBSET Nat, T # {}
  PROVE  \E x \in T : \A y \in T : x <= y
<1>1. PICK x \in T : \A y \in T : ~ (<<y, x>> \in OpToRel(<, Nat))
  BY WFMin, NatLessThanWellFounded
<1>2. \A y \in T : ~ (y < x)
  BY <1>1 DEF OpToRel
<1> QED
  BY <1>2

\* Induction over a set of numbers.
LEMMA Induction ==
  ASSUME NEW T, 0 \in T, \A n \in Nat : n \in T => n + 1 \in T
  PROVE  Nat \subseteq T
<1> SUFFICES ASSUME Nat \ T # {} PROVE FALSE
  OBVIOUS
<1>1. PICK x \in Nat \ T : \A y \in Nat \ T : x <= y
  BY LeastNumber
<1>2. x # 0 /\ x - 1 \in Nat
  BY <1>1
<1>3. x - 1 \in T
  BY <1>1, <1>2
<1>4. (x - 1) + 1 \in T
  BY <1>2, <1>3
<1> QED
  BY <1>1, <1>4

\* The orbit of c under G, up to its k-th member.
Orbit(r, k, c, G) ==
    /\ r[0] = c
    /\ \A n \in Nat : n < k => r[n + 1] = G[r[n]]

\* The whole orbit.
Iterates(r, c, G) == r = [n \in Nat |-> IF n = 0 THEN c ELSE G[r[n - 1]]]

\* Two orbits from one point agree as far as both go.
LEMMA OrbitsAgree ==
  ASSUME NEW c, NEW G, NEW r, NEW q, NEW k \in Nat, NEW l \in Nat,
         Orbit(r, k, c, G), Orbit(q, l, c, G)
  PROVE  \A n \in Nat : n <= k /\ n <= l => r[n] = q[n]
<1> DEFINE T == {n \in Nat : n <= k /\ n <= l => r[n] = q[n]}
<1>1. 0 \in T
  BY DEF Orbit
<1>2. ASSUME NEW n \in Nat, n \in T PROVE n + 1 \in T
  BY <1>2 DEF Orbit
<1>3. Nat \subseteq T
  <2> HIDE DEF T
  <2> QED BY <1>1, <1>2, Induction
<1> QED
  BY <1>3

\* A function can be applied again and again.
LEMMA OrbitExists ==
  ASSUME NEW S, NEW c \in S, NEW G, \A x \in S : G[x] \in S
  PROVE  \E r : Iterates(r, c, G) /\ \A n \in Nat : r[n] \in S
<1> DEFINE T == {k \in Nat : \E r : Orbit(r, k, c, G) /\ \A n \in Nat : n <= k => r[n] \in S}
<1>1. 0 \in T
  <2> DEFINE r == [n \in {0} |-> c]
  <2>1. Orbit(r, 0, c, G) /\ \A n \in Nat : n <= 0 => r[n] \in S
    BY DEF Orbit
  <2> QED BY <2>1
<1>2. ASSUME NEW k \in Nat, k \in T PROVE k + 1 \in T
  <2>1. PICK r : Orbit(r, k, c, G) /\ \A n \in Nat : n <= k => r[n] \in S
    BY <1>2
  <2> DEFINE q == [n \in 0 .. k + 1 |-> IF n = k + 1 THEN G[r[k]] ELSE r[n]]
  <2>2. q[k + 1] = G[r[k]] /\ \A n \in Nat : n <= k => q[n] = r[n]
    OBVIOUS
  <2> HIDE DEF q
  <2>3. Orbit(q, k + 1, c, G)
    BY <2>1, <2>2 DEF Orbit
  <2>4. ASSUME NEW n \in Nat, n <= k + 1 PROVE q[n] \in S
    BY <2>1, <2>2, <2>4
  <2> QED BY <2>3, <2>4
<1>3. Nat \subseteq T
  <2> HIDE DEF T
  <2> QED BY <1>1, <1>2, Induction
<1> DEFINE R(k) == CHOOSE r : Orbit(r, k, c, G) /\ \A n \in Nat : n <= k => r[n] \in S
<1>4. ASSUME NEW k \in Nat
      PROVE  Orbit(R(k), k, c, G) /\ \A n \in Nat : n <= k => R(k)[n] \in S
  <2>1. \E r : Orbit(r, k, c, G) /\ \A n \in Nat : n <= k => r[n] \in S
    BY <1>3
  <2> QED BY <2>1
<1> HIDE DEF T, R
<1> DEFINE s == [n \in Nat |-> R(n)[n]]
<1>5. ASSUME NEW n \in Nat PROVE s[n] = IF n = 0 THEN c ELSE G[s[n - 1]]
  <2>1. CASE n = 0
    BY <1>4, <2>1 DEF Orbit
  <2>2. CASE n # 0
    <3>1. n - 1 \in Nat /\ n - 1 < n /\ (n - 1) + 1 = n
      BY <2>2
    <3>2. R(n)[n] = G[R(n)[n - 1]]
      <4>1. R(n)[(n - 1) + 1] = G[R(n)[n - 1]]
        BY <1>4, <3>1 DEF Orbit
      <4> QED BY <4>1, <3>1
    <3>3. R(n)[n - 1] = R(n - 1)[n - 1]
      <4>1. Orbit(R(n), n, c, G) /\ Orbit(R(n - 1), n - 1, c, G)
        BY <1>4, <3>1
      <4> QED BY <4>1, <3>1, OrbitsAgree
    <3> QED BY <3>1, <3>2, <3>3, <2>2
  <2> QED BY <2>1, <2>2
<1>6. s = [n \in Nat |-> IF n = 0 THEN c ELSE G[s[n - 1]]]
  BY <1>5
<1>7. \A n \in Nat : s[n] \in S
  BY <1>4
<1> QED
  BY <1>6, <1>7 DEF Iterates

\* The blocks the scan of kmalloc goes through.
LEMMA VisitSteps ==
  ASSUME Cut(blk), alloc_cursor \in DOMAIN blk
  PROVE  /\ Visit[0] = alloc_cursor
         /\ \A n \in Nat : Visit[n] \in DOMAIN blk /\ Visit[n + 1] = Step(Visit[n])
<1> DEFINE G == [b \in DOMAIN blk |-> Step(b)]
<1>1. \A b \in DOMAIN blk : G[b] \in DOMAIN blk
  BY DEF Cut, Listed, Linked, Step
<1>2. \A b \in DOMAIN blk : G[b] = Step(b)
  OBVIOUS
<1> HIDE DEF G
<1>3. PICK r : Iterates(r, alloc_cursor, G) /\ \A n \in Nat : r[n] \in DOMAIN blk
  BY <1>1, OrbitExists
<1> DEFINE Def(v) == v = [n \in Nat |-> IF n = 0 THEN alloc_cursor ELSE Step(v[n - 1])]
<1>4. \A n \in Nat : r[n] = IF n = 0 THEN alloc_cursor ELSE G[r[n - 1]]
  BY <1>3 DEF Iterates
<1>5. \A n \in Nat : n # 0 => G[r[n - 1]] = Step(r[n - 1])
  <2>1. \A n \in Nat : n # 0 => n - 1 \in Nat
    OBVIOUS
  <2> QED
    BY <1>2, <1>3, <2>1
<1>6. Def(r)
  <2>1. \A n \in Nat : r[n] = IF n = 0 THEN alloc_cursor ELSE Step(r[n - 1])
    BY <1>4, <1>5
  <2> QED BY <1>3, <2>1 DEF Iterates
<1>7. Def(Visit)
  <2>1. Visit = CHOOSE v : Def(v)
    BY DEF Visit
  <2> HIDE DEF Def
  <2> QED BY <1>6, <2>1
<1>8. \A n \in Nat : Visit[n] = IF n = 0 THEN alloc_cursor ELSE Step(Visit[n - 1])
  BY <1>7
<1> HIDE DEF Def
<1>9. Visit[0] = alloc_cursor
  BY <1>8
<1>10. ASSUME NEW n \in Nat PROVE Visit[n + 1] = Step(Visit[n])
  BY <1>8
<1> DEFINE T == {n \in Nat : Visit[n] \in DOMAIN blk}
<1>11. 0 \in T
  BY <1>9
<1>12. ASSUME NEW n \in Nat, n \in T PROVE n + 1 \in T
  BY <1>1, <1>2, <1>10, <1>12
<1>13. Nat \subseteq T
  <2> HIDE DEF T
  <2> QED BY <1>11, <1>12, Induction
<1> QED
  BY <1>9, <1>10, <1>13

\* Two visits of a block are the start of a circle.
LEMMA VisitRepeats ==
  ASSUME Cut(blk), alloc_cursor \in DOMAIN blk,
         NEW i \in Nat, NEW j \in Nat, Visit[i] = Visit[j], NEW k \in Nat
  PROVE  Visit[i + k] = Visit[j + k]
<1> DEFINE T == {m \in Nat : Visit[i + m] = Visit[j + m]}
<1>1. 0 \in T
  OBVIOUS
<1>2. ASSUME NEW m \in Nat, m \in T PROVE m + 1 \in T
  <2>1. /\ Visit[(i + m) + 1] = Step(Visit[i + m])
        /\ Visit[(j + m) + 1] = Step(Visit[j + m])
    BY VisitSteps
  <2>2. i + (m + 1) = (i + m) + 1 /\ j + (m + 1) = (j + m) + 1
    OBVIOUS
  <2> QED BY <1>2, <2>1, <2>2
<1>3. Nat \subseteq T
  <2> HIDE DEF T
  <2> QED BY <1>1, <1>2, Induction
<1> QED
  BY <1>3

\* The scan, if nothing stops it, comes to every block.
LEMMA VisitsAll ==
  ASSUME Cut(blk), alloc_cursor \in DOMAIN blk, NEW b \in DOMAIN blk
  PROVE  \E n \in Nat : Visit[n] = b
<1> DEFINE Seen == {Visit[n] : n \in Nat}
<1>1. Seen \subseteq DOMAIN blk /\ alloc_cursor \in Seen
  BY VisitSteps
<1>2. ASSUME NEW x \in Seen PROVE Step(x) \in Seen
  <2>1. PICK n \in Nat : x = Visit[n]
    OBVIOUS
  <2>2. Step(x) = Visit[n + 1] /\ n + 1 \in Nat
    BY <2>1, VisitSteps
  <2> QED BY <2>2
<1> HIDE DEF Seen
<1>3. \A x \in DOMAIN blk : x \in Nat /\ blk[x].size \in Nat /\ End(blk, x) \in Nat /\ x < End(blk, x)
  BY DEF Cut, Listed, Headers, End, HEADER
<1>4. ASSUME NEW x \in DOMAIN blk, x # heap_head
      PROVE  \E p \in DOMAIN blk : x = End(blk, p) /\ Step(p) = x
  <2>1. PICK p \in DOMAIN blk : blk[p].next = x
    BY <1>4 DEF Cut, Adjacent
  <2>2. x # Null
    BY <1>3 DEF Null
  <2> QED BY <2>1, <2>2 DEF Cut, Linked, Step
<1>5. ASSUME NEW x \in DOMAIN blk, x >= alloc_cursor PROVE x \in Seen
  <2> DEFINE T == {y \in DOMAIN blk : y >= alloc_cursor /\ y \notin Seen}
  <2> SUFFICES ASSUME T # {} PROVE FALSE
    BY <1>5
  <2>1. T \subseteq Nat
    BY <1>3
  <2>2. PICK y \in T : \A z \in T : y <= z
    BY <2>1, LeastNumber
  <2>3. y \in DOMAIN blk /\ y > alloc_cursor /\ y # heap_head
    BY <1>1, <1>3, <2>2 DEF heap_head
  <2>4. PICK p \in DOMAIN blk : y = End(blk, p) /\ Step(p) = y
    BY <1>4, <2>3
  <2>5. p >= alloc_cursor
    <3>1. alloc_cursor <= p \/ alloc_cursor >= End(blk, p)
      BY DEF Cut, Disjoint
    <3>2. p \in Nat /\ alloc_cursor \in Nat /\ y \in Nat
      BY <1>3, <2>3
    <3> QED
      BY <2>3, <2>4, <3>1, <3>2
  <2>6. p < y
    BY <1>3, <2>4
  <2>7. p \in Seen
    BY <1>3, <2>2, <2>5, <2>6
  <2> QED BY <1>2, <2>2, <2>4, <2>7
<1>6. heap_head \in Seen
  <2> DEFINE D == {HEAP_SIZE - x : x \in Seen}
  <2>1. D \subseteq Nat
    BY <1>1, <1>3, HeapAssumption DEF Cut, Inside
  <2>2. PICK d \in D : \A e \in D : d <= e
    BY <1>1, <2>1, LeastNumber
  <2>3. PICK x \in Seen : d = HEAP_SIZE - x
    BY <2>2
  <2>4. ASSUME NEW y \in Seen PROVE y <= x
    <3>1. HEAP_SIZE - y \in D
      OBVIOUS
    <3>2. HEAP_SIZE - x <= HEAP_SIZE - y
      BY <2>2, <2>3, <3>1
    <3>3. x \in Nat /\ y \in Nat
      BY <1>1, <1>3
    <3> QED
      BY <3>2, <3>3, HeapAssumption
  <2>5. x \in DOMAIN blk /\ x < End(blk, x) /\ x \in Nat /\ End(blk, x) \in Nat
    BY <1>1, <1>3
  <2>6. End(blk, x) \notin Seen
    BY <2>4, <2>5
  <2>7. blk[x].next = Null
    <3>1. Step(x) \in Seen
      BY <1>2
    <3>2. End(blk, x) # Null
      BY <2>5 DEF Null
    <3> QED BY <2>5, <2>6, <3>1, <3>2 DEF Cut, Linked, Step
  <2> QED BY <1>2, <2>7 DEF Step
<1>7. b \in Seen
  <2> DEFINE T == DOMAIN blk \ Seen
  <2> SUFFICES ASSUME T # {} PROVE FALSE
    OBVIOUS
  <2>1. T \subseteq Nat
    BY <1>3
  <2>2. PICK y \in T : \A z \in T : y <= z
    BY <2>1, LeastNumber
  <2>3. PICK p \in DOMAIN blk : y = End(blk, p) /\ Step(p) = y
    BY <1>4, <1>6, <2>2
  <2>4. p \in Seen
    BY <1>3, <2>2, <2>3
  <2> QED BY <1>2, <2>2, <2>3, <2>4
<1> QED
  BY <1>7 DEF Seen

\* The scan of kmalloc sees every block before it is back at the cursor.
LEMMA ScanMeetsAll ==
  ASSUME Cut(blk), alloc_cursor \in DOMAIN blk, NEW b \in DOMAIN blk
  PROVE  \E n \in Rounds : Visit[n] = b
<1> DEFINE T == {n \in Nat : Visit[n] = b}
<1>1. T \in SUBSET Nat /\ T # {}
  BY VisitsAll
<1>2. PICK n \in T : \A m \in T : n <= m
  BY <1>1, LeastNumber
<1>3. n \in Nat /\ Visit[n] = b
  OBVIOUS
<1>4. ASSUME NEW i \in 0 .. n, NEW j \in 0 .. n, i < j PROVE Visit[i] # Visit[j]
  <2> SUFFICES ASSUME Visit[i] = Visit[j] PROVE FALSE
    OBVIOUS
  <2>1. i \in Nat /\ j \in Nat /\ n - j \in Nat
    BY <1>3
  <2>2. Visit[i + (n - j)] = Visit[j + (n - j)]
    BY <2>1, VisitRepeats
  <2>3. j + (n - j) = n /\ i + (n - j) \in Nat /\ i + (n - j) < n
    BY <1>3, <1>4, <2>1
  <2>4. i + (n - j) \in T
    BY <1>3, <2>2, <2>3
  <2> QED BY <1>2, <2>3, <2>4
<1>5. \A i \in Nat : Visit[i] \in DOMAIN blk
  BY VisitSteps
<1> DEFINE f == [i \in 0 .. n |-> Visit[i]]
<1>6. f \in Injection(0 .. n, DOMAIN blk)
  <2>1. f \in [0 .. n -> DOMAIN blk]
    BY <1>3, <1>5
  <2>2. ASSUME NEW i \in 0 .. n, NEW j \in 0 .. n, f[i] = f[j] PROVE i = j
    <3>1. Visit[i] = Visit[j]
      BY <2>2
    <3> QED BY <1>3, <1>4, <3>1
  <2> QED BY <2>1, <2>2 DEF Injection, IsInjective
<1>7. IsFiniteSet(DOMAIN blk) /\ Cardinality(DOMAIN blk) \in Nat
  <2>1. \A x \in DOMAIN blk : x \in 0 .. HEAP_SIZE
    BY HeapAssumption DEF Cut, Listed, Inside, Headers, End, HEADER
  <2>2. IsFiniteSet(0 .. HEAP_SIZE)
    BY FS_Interval, HeapAssumption
  <2> QED BY <2>1, <2>2, FS_Subset, FS_CardinalityType
<1>8. Cardinality(0 .. n) = n + 1
  BY FS_Interval, <1>3
<1>9. n + 1 <= Cardinality(DOMAIN blk)
  <2> HIDE DEF f
  <2> QED BY <1>6, <1>7, <1>8, FS_Injection
<1>10. \A m \in 1 .. n : Visit[m] # alloc_cursor
  <2>1. Visit[0] = alloc_cursor
    BY VisitSteps
  <2> QED BY <1>3, <1>4, <2>1
<1>11. n \in Rounds
  BY <1>3, <1>7, <1>9, <1>10 DEF Rounds
<1> QED
  BY <1>3, <1>11

\* kmalloc gives up only when no block fits, wherever its cursor stood.
LEMMA KmallocFailsFull ==
  ASSUME HeapInv, NEW request \in Requests, kmalloc(request), failed' # Null
  PROVE  \A b \in DOMAIN blk : ~ Fits(b, align(failed'))
<1>1. /\ failed' = request
      /\ \A n \in Rounds : ~ Fits(Visit[n], align(request))
  BY DEF kmalloc
<1>2. Cut(blk) /\ alloc_cursor \in DOMAIN blk
  BY DEF HeapInv, Sound
<1>3. ASSUME NEW b \in DOMAIN blk PROVE ~ Fits(b, align(request))
  <2>1. PICK n \in Rounds : Visit[n] = b
    BY <1>2, ScanMeetsAll
  <2> QED
    BY <1>1, <2>1
<1> QED
  BY <1>1, <1>3

\* Both allocators fail only when nothing they could return is left.  For
\* pmm::alloc_page the invariant of the cursor is the reason: nothing behind
\* it is free.  For kmalloc it is the shape of the list: the scan leaves the
\* cursor, comes to the last block, goes on at the head, and meets every
\* block before it is back.
THEOREM AllocatorsFailOnlyWhenFull == Spec /\ HeapSpec => FailsOnlyWhenFull
<1>1. HeapInit => HeapInv
  BY HeapInitInv
<1>2. HeapInv /\ [HeapNext]_heap_vars => HeapInv'
  BY HeapInvStep
<1>3. HeapInv /\ [HeapNext]_heap_vars =>
        [failed' # Null => \A b \in DOMAIN blk : ~ Fits(b, align(failed'))]_heap_vars
  <2> SUFFICES ASSUME HeapInv, HeapNext, failed' # Null
               PROVE  \A b \in DOMAIN blk : ~ Fits(b, align(failed'))
    OBVIOUS
  <2>1. ASSUME NEW b \in DOMAIN owned, kfree(b) \/ use_payload(b) PROVE FALSE
    BY <2>1 DEF kfree, use_payload
  <2>2. PICK request \in Requests : kmalloc(request)
    BY <2>1 DEF HeapNext
  <2> QED
    BY <2>2, KmallocFailsFull
<1>4. HeapSpec => KmallocFailsOnlyWhenFull
  BY <1>1, <1>2, <1>3, PTL DEF HeapSpec, KmallocFailsOnlyWhenFull
<1> QED
  BY <1>4, NullMeansFull DEF FailsOnlyWhenFull
=============================================================================
