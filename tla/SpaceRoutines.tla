--------------------------- MODULE SpaceRoutines ----------------------------
(*****************************************************************************)
(* Lemmas about the routines of AddressSpace that work on one page, and about *)
(* loops over pages, for frames, programs, stacks and mmap areas of any size. *)
(*                                                                           *)
(* Sound(s, K) says of the memory s a call works on that the frames of the   *)
(* space at hand, the free ones, the abandoned ones and those of K never     *)
(* overlap and, until memory runs out, are all there are.  K is set aside: a *)
(* page in the caller's hands, or the frames of other processes.  Each       *)
(* routine keeps it, on every path.                                          *)
(*****************************************************************************)
EXTENDS AddressSpace, SequenceTheorems, WellFoundedInduction, TLAPS

Pages == {<<"image", i>> : i \in 1 .. IMAGE} \cup {<<"mmap", i>> : i \in 1 .. MMAP}
            \cup {fb} \cup {<<"stack", i>> : i \in 1 .. STACK}

\* A set of numbers has a least element.
LEMMA LeastNumber ==
  ASSUME NEW T \in SUBSET Nat, T # {}
  PROVE  \E x \in T : \A y \in T : x <= y
<1>1. PICK x \in T : \A y \in T : ~ (<<y, x>> \in OpToRel(<, Nat))
  BY WFMin, NatLessThanWellFounded
<1>2. \A y \in T : ~ (y < x)
  BY <1>1 DEF OpToRel
<1> QED
  BY <1>2

\* Induction over a set of numbers.
LEMMA Induction ==
  ASSUME NEW T, 0 \in T, \A n \in Nat : n \in T => n + 1 \in T
  PROVE  Nat \subseteq T
<1> SUFFICES ASSUME Nat \ T # {} PROVE FALSE
  OBVIOUS
<1>1. PICK x \in Nat \ T : \A y \in Nat \ T : x <= y
  BY LeastNumber
<1>2. x # 0 /\ x - 1 \in Nat
  BY <1>1
<1>3. x - 1 \in T
  BY <1>1, <1>2
<1>4. (x - 1) + 1 \in T
  BY <1>2, <1>3
<1> QED
  BY <1>1, <1>4

Repeats(r, N, s, G) == r = [n \in 0 .. N |-> IF n = 0 THEN s ELSE G[n][r[n - 1]]]

\* Loops: a step that leads from the n-th of a family of sets to the next one
\* can be repeated.
LEMMA LoopExists ==
  ASSUME NEW N \in Nat, NEW I, NEW s, s \in I[0],
         NEW G, \A n \in 1 .. N : \A t \in I[n - 1] : G[n][t] \in I[n]
  PROVE  \E r : Repeats(r, N, s, G) /\ \A n \in 0 .. N : r[n] \in I[n]
<1> DEFINE Good(k, r) == /\ r = [n \in 0 .. k |-> IF n = 0 THEN s ELSE G[n][r[n - 1]]]
                         /\ \A n \in 0 .. k : r[n] \in I[n]
<1> DEFINE T == {k \in Nat : k <= N => \E r : Good(k, r)}
<1>1. 0 \in T
  <2> DEFINE r == [n \in 0 .. 0 |-> s]
  <2>1. Good(0, r)
    OBVIOUS
  <2> QED
    BY <2>1
<1>2. ASSUME NEW k \in Nat, k \in T PROVE k + 1 \in T
  <2> SUFFICES ASSUME k + 1 <= N PROVE \E r : Good(k + 1, r)
    OBVIOUS
  <2>1. PICK r : Good(k, r)
    BY <1>2
  <2> DEFINE q == [n \in 0 .. k + 1 |-> IF n = k + 1 THEN G[n][r[k]] ELSE r[n]]
  <2>2. \A n \in 0 .. k + 1 : q[n] = IF n = 0 THEN s ELSE G[n][q[n - 1]]
    <3> SUFFICES ASSUME NEW n \in 0 .. k + 1
                 PROVE  q[n] = IF n = 0 THEN s ELSE G[n][q[n - 1]]
      OBVIOUS
    <3>1. CASE n = k + 1
      <4>1. q[n] = G[n][r[k]] /\ q[n - 1] = r[k] /\ n # 0
        BY <3>1
      <4> QED
        BY <4>1
    <3>2. CASE n # k + 1
      <4>1. q[n] = r[n] /\ n \in 0 .. k
        BY <3>2
      <4>2. n # 0 => q[n - 1] = r[n - 1]
        BY <4>1
      <4> QED
        BY <4>1, <4>2, <2>1
    <3> QED
      BY <3>1, <3>2
  <2>3. q = [n \in 0 .. k + 1 |-> IF n = 0 THEN s ELSE G[n][q[n - 1]]]
    BY <2>2
  <2>4. \A n \in 0 .. k + 1 : q[n] \in I[n]
    <3>1. r[k] \in I[k] /\ k + 1 \in 1 .. N /\ (k + 1) - 1 = k
      BY <2>1
    <3>2. G[k + 1][r[k]] \in I[k + 1]
      BY <3>1
    <3> QED
      BY <2>1, <3>2
  <2> HIDE DEF q
  <2> QED
    BY <2>3, <2>4
<1> HIDE DEF T
<1>3. N \in T
  BY <1>1, <1>2, Induction
<1> QED
  BY <1>3 DEF T, Repeats

\* A function on 1 .. n is a sequence of length n.
LEMMA SeqLen ==
  ASSUME NEW S, NEW n \in Nat, NEW f \in [1 .. n -> S]
  PROVE  f \in Seq(S) /\ Len(f) = n
  BY SeqDef, LenProperties

\* How many pages a program, the mmap area and a stack have.
LEMMA Lengths ==
    /\ ImagePages \in Seq(Pages) /\ Len(ImagePages) = IMAGE
    /\ MmapPages \in Seq(Pages) /\ Len(MmapPages) = MMAP
    /\ StackPages \in Seq(Pages) /\ Len(StackPages) = STACK
<1>1. ImagePages \in [1 .. IMAGE -> Pages] BY DEF ImagePages, Pages
<1>2. MmapPages \in [1 .. MMAP -> Pages] BY DEF MmapPages, Pages
<1>3. StackPages \in [1 .. STACK -> Pages] BY DEF StackPages, Pages
<1> QED
  BY <1>1, <1>2, <1>3, SeqLen, SpaceAssumption

\* The order in which the loops of paging.cpp meet the user pages.
LEMMA UserPagesAre ==
    /\ UserPages \in Seq(Pages) /\ Len(UserPages) = IMAGE + MMAP + 1 + STACK
    /\ \A i \in 1 .. Len(UserPages) :
         UserPages[i] = IF i <= IMAGE THEN <<"image", i>>
                        ELSE IF i <= IMAGE + MMAP THEN <<"mmap", i - IMAGE>>
                        ELSE IF i = IMAGE + MMAP + 1 THEN fb
                        ELSE <<"stack", i - IMAGE - MMAP - 1>>
<1> DEFINE a == ImagePages \o MmapPages
<1> DEFINE b == a \o <<fb>>
<1> DEFINE c == b \o StackPages
<1>1. a \in Seq(Pages) /\ Len(a) = IMAGE + MMAP
      /\ \A i \in 1 .. IMAGE + MMAP : a[i] = IF i <= IMAGE THEN <<"image", i>> ELSE <<"mmap", i - IMAGE>>
  BY Lengths, SpaceAssumption, ConcatProperties DEF ImagePages, MmapPages
<1>2. <<fb>> \in Seq(Pages) /\ Len(<<fb>>) = 1 /\ <<fb>>[1] = fb
  BY DEF Pages
<1> HIDE DEF a
<1>3. b \in Seq(Pages) /\ Len(b) = IMAGE + MMAP + 1
      /\ (\A i \in 1 .. IMAGE + MMAP : b[i] = a[i]) /\ b[IMAGE + MMAP + 1] = fb
  BY <1>1, <1>2, SpaceAssumption
<1> HIDE DEF b
<1>4. c \in Seq(Pages) /\ Len(c) = IMAGE + MMAP + 1 + STACK
      /\ (\A i \in 1 .. IMAGE + MMAP + 1 : c[i] = b[i])
      /\ (\A i \in IMAGE + MMAP + 2 .. IMAGE + MMAP + 1 + STACK : c[i] = StackPages[i - (IMAGE + MMAP + 1)])
  <2>1. StackPages \in Seq(Pages) /\ Len(StackPages) = STACK /\ b \in Seq(Pages) /\ Len(b) = IMAGE + MMAP + 1
    BY <1>3, Lengths
  <2>2. IMAGE \in Nat /\ MMAP \in Nat /\ STACK \in Nat
    BY SpaceAssumption
  <2> QED
    BY <2>1, <2>2
<1> HIDE DEF c
<1>5. UserPages = c
  BY Zenon DEF UserPages, c, b, a
<1>6. \A i \in 1 .. STACK : StackPages[i] = <<"stack", i>>
  BY DEF StackPages
<1>7. IMAGE \in Nat /\ MMAP \in Nat /\ STACK \in Nat
  BY SpaceAssumption
<1>8. \A i \in 1 .. Len(c) :
         c[i] = IF i <= IMAGE THEN <<"image", i>>
                        ELSE IF i <= IMAGE + MMAP THEN <<"mmap", i - IMAGE>>
                        ELSE IF i = IMAGE + MMAP + 1 THEN fb
                        ELSE <<"stack", i - IMAGE - MMAP - 1>>
  <2> SUFFICES ASSUME NEW i \in 1 .. IMAGE + MMAP + 1 + STACK
               PROVE c[i] = IF i <= IMAGE THEN <<"image", i>>
                        ELSE IF i <= IMAGE + MMAP THEN <<"mmap", i - IMAGE>>
                        ELSE IF i = IMAGE + MMAP + 1 THEN fb
                        ELSE <<"stack", i - IMAGE - MMAP - 1>>
    BY <1>4
  <2>1. CASE i <= IMAGE + MMAP
    BY <1>7, <1>1, <1>3, <1>4, <2>1
  <2>2. CASE i = IMAGE + MMAP + 1
    BY <1>7, <1>3, <1>4, <2>2
  <2>3. CASE i > IMAGE + MMAP + 1
    <3>1. i - (IMAGE + MMAP + 1) \in 1 .. STACK /\ i - (IMAGE + MMAP + 1) = i - IMAGE - MMAP - 1
      BY <1>7, <2>3
    <3>2. c[i] = StackPages[i - (IMAGE + MMAP + 1)]
      BY <1>7, <1>4, <2>3
    <3>3. StackPages[i - (IMAGE + MMAP + 1)] = <<"stack", i - (IMAGE + MMAP + 1)>>
      BY <1>6, <3>1, Zenon
    <3>4. ~ (i <= IMAGE) /\ ~ (i <= IMAGE + MMAP) /\ ~ (i = IMAGE + MMAP + 1)
      BY <1>7, <2>3
    <3> QED
      BY <3>1, <3>2, <3>3, <3>4, Zenon
  <2> QED
    BY <2>1, <2>2, <2>3, <1>7
<1> QED
  BY <1>4, <1>5, <1>8

\* The user pages are those of the program, of mmap, of the stack, and the
\* framebuffer.
LEMMA VAsArePages == VAs = Pages
<1>1. VAs \subseteq Pages
  <2> SUFFICES ASSUME NEW i \in 1 .. Len(UserPages) PROVE UserPages[i] \in Pages
    BY DEF VAs, Elements
  <2> QED
    BY UserPagesAre
<1>2. ASSUME NEW i \in 1 .. IMAGE PROVE <<"image", i>> \in VAs
  <2>1. i \in 1 .. Len(UserPages) /\ UserPages[i] = <<"image", i>>
    BY UserPagesAre, SpaceAssumption
  <2> QED
    BY <2>1 DEF VAs, Elements
<1>3. ASSUME NEW i \in 1 .. MMAP PROVE <<"mmap", i>> \in VAs
  <2>1. i + IMAGE \in 1 .. Len(UserPages) /\ UserPages[i + IMAGE] = <<"mmap", i>>
    BY UserPagesAre, SpaceAssumption
  <2> QED
    BY <2>1 DEF VAs, Elements
<1>4. fb \in VAs
  <2>1. IMAGE + MMAP + 1 \in 1 .. Len(UserPages) /\ UserPages[IMAGE + MMAP + 1] = fb
    BY UserPagesAre, SpaceAssumption
  <2> QED
    BY <2>1 DEF VAs, Elements
<1>5. ASSUME NEW i \in 1 .. STACK PROVE <<"stack", i>> \in VAs
  <2> DEFINE k == i + IMAGE + MMAP + 1
  <2>0. /\ Len(UserPages) = IMAGE + MMAP + 1 + STACK
        /\ IMAGE \in Nat /\ MMAP \in Nat /\ STACK \in Nat
    BY UserPagesAre, SpaceAssumption
  <2>1. /\ k \in 1 .. Len(UserPages) /\ k - IMAGE - MMAP - 1 = i
        /\ ~ (k <= IMAGE) /\ ~ (k <= IMAGE + MMAP) /\ k # IMAGE + MMAP + 1
    BY <2>0
  <2> HIDE DEF k
  <2>2. UserPages[k] = <<"stack", i>>
    BY <2>1, UserPagesAre
  <2> QED
    BY <2>1, <2>2 DEF VAs, Elements
<1> QED
  BY <1>1, <1>2, <1>3, <1>4, <1>5, Zenon DEF Pages

\* Pages are not tables, and the tables on the way to a page are tables.
LEMMA PagesAre ==
    /\ VAs \cap Tables = {}
    /\ {pml4, pdpt} \subseteq Tables /\ pml4 # pdpt
    /\ fb \in VAs /\ Top \in VAs /\ Top # fb
    /\ \A va \in VAs : pd(va) \in Tables /\ pt(va) \in Tables
<1>1. \A x \in Pages : x[1] \in {"image", "mmap", "fb", "stack"}
  BY DEF Pages, fb
<1>2. \A x \in Tables : x[1] \in {"pml4", "pdpt", "pd", "pt"}
  BY DEF Tables, pml4, pdpt
<1>3. {pml4, pdpt} \subseteq Tables /\ pml4 # pdpt
  BY DEF Tables, pml4, pdpt
<1>4. \A va \in VAs : pd(va) \in Tables /\ pt(va) \in Tables
  BY DEF Tables, pd, pt
<1>5. fb \in Pages /\ Top \in Pages /\ Top # fb
  BY SpaceAssumption DEF Top, StackPages, Pages, fb
<1> QED
  BY <1>1, <1>2, <1>3, <1>4, <1>5, VAsArePages

----------------------------------------------------------------------------
Frames == 0 .. NFRAMES
Usable == 1 .. NFRAMES
Contents == {"junk", "zero", "text", "args"} \cup Procs

PageTables ==
    {e \in [Entries -> {Absent, FB} \cup Frames] :
        /\ \A t \in Tables : e[t] \in {Absent} \cup Usable
        /\ e[fb] \in {Absent, FB}
        /\ \A va \in VAs \ {fb} : e[va] # FB}

Memories ==
    [free : SUBSET Frames, content : [Frames -> Contents], entry : PageTables,
     ok : BOOLEAN, page : Frames, src : PageTables, turns : Nat,
     abandoned : SUBSET Usable, starved : BOOLEAN]

Owns(e) == {f \in Usable : \E x \in Entries : e[x] = f}

Apart(e, K, fr, ab) ==
    /\ \A x, y \in Entries : e[x] \in Usable /\ e[x] = e[y] => x = y
    /\ \A x \in Entries : e[x] \in Usable => e[x] \notin fr /\ e[x] \notin ab /\ e[x] \notin K
    /\ \A f \in K : f \notin fr /\ f \notin ab
    /\ \A f \in Usable : ~ (f \in fr /\ f \in ab)

NoLeak(e, K, fr, ab) ==
    \A f \in Usable : f \in fr \/ f \in ab \/ f \in K \/ \E x \in Entries : e[x] = f

Sound(s, K) ==
    /\ s \in Memories
    /\ K \subseteq Usable
    /\ Apart(s.entry, K, s.free, s.abandoned)
    /\ ~ s.starved => NoLeak(s.entry, K, s.free, s.abandoned)

\* pmm::alloc_page finds a free frame if there is one.
LEMMA LowestIs ==
  ASSUME NEW S \in SUBSET Nat, S # {}
  PROVE  Lowest(S) \in S
  BY LeastNumber DEF Lowest

\* What alloc_page changes.
LEMMA AllocIs ==
  ASSUME NEW s \in Memories, NEW a, a = alloc_page(s)
  PROVE  /\ a \in Memories
         /\ a.entry = s.entry /\ (a.ok <=> s.ok) /\ a.src = s.src /\ a.turns = s.turns
         /\ a.abandoned = s.abandoned
         /\ \/ /\ a.page = 0 /\ a.starved
               /\ a.content = s.content
               /\ a.free \subseteq s.free
            \/ /\ a.page \in Usable /\ a.page \in s.free
               /\ a.free = s.free \ {a.page}
               /\ (a.starved <=> s.starved)
               /\ a.content = [s.content EXCEPT ![a.page] = "zero"]
<1> DEFINE f == Lowest(s.free)
<1>1. CASE s.free = {} \/ f >= FRAMES_LIMIT
  <2>1. a = [s EXCEPT !.page = 0, !.starved = TRUE]
    BY <1>1, Zenon DEF alloc_page
  <2>2. 0 \in Frames
    BY SpaceAssumption DEF Frames
  <2> QED
    BY <2>1, <2>2 DEF Memories
<1>2. CASE ~ (s.free = {} \/ f >= FRAMES_LIMIT)
  <2>1. a = [s EXCEPT !.free = @ \ {f}, !.page = f, !.starved = @ \/ f = 0,
                         !.content[f] = IF f = 0 THEN @ ELSE "zero"]
    BY <1>2, Zenon DEF alloc_page
  <2>2. f \in s.free /\ f \in Frames
    BY <1>2, LowestIs, SpaceAssumption DEF Memories, Frames
  <2> HIDE DEF f
  <2>3. /\ a.entry = s.entry /\ (a.ok <=> s.ok) /\ a.src = s.src /\ a.turns = s.turns
        /\ a.abandoned = s.abandoned /\ a.page = f /\ a.free = s.free \ {f}
    BY <2>1 DEF Memories
  <2>4. a.starved = (s.starved \/ f = 0)
    BY <2>1 DEF Memories
  <2>5. a.content = IF f = 0 THEN s.content ELSE [s.content EXCEPT ![f] = "zero"]
    BY <2>1, <2>2 DEF Memories
  <2>6. a.content \in [Frames -> Contents]
    BY <2>2, <2>5 DEF Memories, Contents
  <2>7. a \in Memories
    <3>1. a = [s EXCEPT !.free = a.free, !.page = a.page, !.starved = a.starved, !.content = a.content]
      BY <2>1 DEF Memories
    <3>2. a.starved \in BOOLEAN
      BY <2>4
    <3>3. a.free \subseteq Frames /\ a.page \in Frames
      BY <2>2, <2>3 DEF Memories
    <3> QED
      BY <2>6, <3>1, <3>2, <3>3 DEF Memories
  <2>8. f # 0 => f \in Usable
    BY <2>2, SpaceAssumption DEF Usable, Frames
  <2>9. CASE f = 0
    BY <2>3, <2>4, <2>5, <2>7, <2>9
  <2>10. CASE f # 0
    <3>1. (a.starved <=> s.starved)
      BY <2>4, <2>10 DEF Memories
    <3> QED
      BY <2>2, <2>3, <2>5, <2>7, <2>8, <2>10, <3>1
  <2> QED
    BY <2>9, <2>10
<1> QED
  BY <1>1, <1>2

\* alloc_page returns null, or a frame that nobody has.
LEMMA AllocSound ==
  ASSUME NEW s, NEW K, Sound(s, K), NEW a, a = alloc_page(s)
  PROVE  \/ a.page = 0 /\ a.starved /\ Sound(a, K)
         \/ a.page \in Usable /\ a.page \notin K /\ a.page \in s.free /\ Sound(a, K \cup {a.page})
<1>1. s \in Memories
  BY DEF Sound
<1>2. CASE a.page = 0 /\ a.starved /\ a.free \subseteq s.free
  <2>1. a \in Memories /\ a.entry = s.entry /\ a.abandoned = s.abandoned
    BY <1>1, AllocIs
  <2>2. Apart(a.entry, K, a.free, a.abandoned)
    BY <1>2, <2>1 DEF Sound, Apart
  <2> QED
    BY <1>2, <2>1, <2>2 DEF Sound
<1>3. CASE /\ a.page \in Usable /\ a.page \in s.free
           /\ a.free = s.free \ {a.page}
           /\ (a.starved <=> s.starved)
  <2>1. a \in Memories /\ a.entry = s.entry /\ a.abandoned = s.abandoned
    BY <1>1, AllocIs
  <2>2. a.page \notin K
    BY <1>3 DEF Sound, Apart
  <2>3. Apart(a.entry, K \cup {a.page}, a.free, a.abandoned)
    BY <1>3, <2>1 DEF Sound, Apart
  <2>4. NoLeak(s.entry, K, s.free, s.abandoned) => NoLeak(a.entry, K \cup {a.page}, a.free, a.abandoned)
    BY <1>3, <2>1 DEF NoLeak
  <2> QED
    BY <1>3, <2>1, <2>2, <2>3, <2>4 DEF Sound
<1> QED
  BY <1>1, <1>2, <1>3, AllocIs

\* An entry may take a frame.
LEMMA EntryTyped ==
  ASSUME NEW e \in PageTables, NEW x \in Entries, x # fb, NEW f \in Frames, f # 0 \/ x \in VAs
  PROVE  [e EXCEPT ![x] = f] \in PageTables
<1>1. f # FB /\ f # Absent /\ (f # 0 => f \in Usable)
  BY SpaceAssumption DEF FB, Absent, Frames, Usable
<1>2. x \notin VAs \/ x \notin Tables
  BY PagesAre
<1>3. fb \in Entries /\ fb \notin Tables
  BY PagesAre DEF Entries
<1> DEFINE g == [e EXCEPT ![x] = f]
<1>4. g \in [Entries -> {Absent, FB} \cup Frames]
  BY DEF PageTables
<1>5. \A t \in Tables : g[t] \in {Absent} \cup Usable
  BY <1>1, <1>2 DEF PageTables, Entries
<1>6. g[fb] \in {Absent, FB}
  BY <1>3 DEF PageTables
<1>7. \A va \in VAs \ {fb} : g[va] # FB
  BY <1>1 DEF PageTables, Entries
<1> QED
  BY <1>4, <1>5, <1>6, <1>7 DEF PageTables

Put(s, x, f) == [s EXCEPT !.entry[x] = f]

\* What writing an entry changes.
LEMMA PutTyped ==
  ASSUME NEW s \in Memories, NEW x \in Entries, x # fb, NEW f \in Frames, f # 0 \/ x \in VAs,
         NEW t, t = Put(s, x, f)
  PROVE  /\ t \in Memories /\ t.entry = [s.entry EXCEPT ![x] = f]
         /\ t.free = s.free /\ t.content = s.content /\ (t.ok <=> s.ok) /\ t.page = s.page
         /\ t.src = s.src /\ t.turns = s.turns /\ t.abandoned = s.abandoned
         /\ (t.starved <=> s.starved)
<1>1. s.entry \in PageTables
  BY DEF Memories
<1>2. [s.entry EXCEPT ![x] = f] \in PageTables
  BY <1>1, EntryTyped
<1>3. t = [s EXCEPT !.entry = [s.entry EXCEPT ![x] = f]]
  BY DEF Memories, Put
<1> HIDE DEF PageTables
<1> QED
  BY <1>2, <1>3 DEF Memories

\* A frame that was set aside is entered in the space at hand.
LEMMA PutApart ==
  ASSUME NEW e, NEW g, NEW x \in Entries, NEW f \in Usable, NEW K, f \notin K, NEW fr, NEW ab,
         Apart(e, K \cup {f}, fr, ab), e \in [Entries -> {Absent, FB} \cup Frames],
         g = [e EXCEPT ![x] = f]
  PROVE  /\ Apart(g, K, fr, ab)
         /\ e[x] = Absent /\ NoLeak(e, K \cup {f}, fr, ab) => NoLeak(g, K, fr, ab)
<1>1. \A y \in Entries : g[y] = IF y = x THEN f ELSE e[y]
  OBVIOUS
<1>2. Apart(g, K, fr, ab)
  BY <1>1 DEF Apart
<1>3. ASSUME e[x] = Absent, NoLeak(e, K \cup {f}, fr, ab) PROVE NoLeak(g, K, fr, ab)
  <2> SUFFICES ASSUME NEW h \in Usable, h \notin fr, h \notin ab, h \notin K
               PROVE \E y \in Entries : g[y] = h
    BY DEF NoLeak
  <2>1. CASE h = f
    BY <1>1, <2>1
  <2>2. CASE h # f
    <3>1. PICK y \in Entries : e[y] = h
      BY <1>3, <2>2 DEF NoLeak
    <3>2. y # x
      BY <1>3, <3>1, SpaceAssumption DEF Usable, Absent
    <3> QED
      BY <1>1, <3>1, <3>2
  <2> QED
    BY <2>1, <2>2
<1> QED
  BY <1>2, <1>3

\* Null, the framebuffer and the absent entry are not usable frames.
LEMMA UsableFrames == Usable \subseteq Frames /\ 0 \notin Usable /\ 0 \in Frames /\ FB \notin Frames /\ Absent \notin Frames
  BY SpaceAssumption DEF Usable, Frames, FB, Absent

\* Writing an entry that was absent loses nothing.
LEMMA PutSound ==
  ASSUME NEW s, NEW K, NEW f \in Usable, f \notin K, Sound(s, K \cup {f}),
         NEW x \in Entries, x # fb, s.starved \/ s.entry[x] = Absent,
         NEW t, t = Put(s, x, f)
  PROVE  Sound(t, K)
<1>1. s \in Memories /\ f \in Frames /\ f # 0 /\ s.entry \in [Entries -> {Absent, FB} \cup Frames]
  BY UsableFrames DEF Sound, Memories, PageTables
<1>2. /\ t \in Memories /\ t.entry = [s.entry EXCEPT ![x] = f]
      /\ t.free = s.free /\ t.abandoned = s.abandoned /\ (t.starved <=> s.starved)
  <2>1. f # 0 \/ x \in VAs
    BY <1>1
  <2> QED
    BY <1>1, <2>1, PutTyped
<1>3. Apart(s.entry, K \cup {f}, s.free, s.abandoned)
  BY DEF Sound
<1>4. /\ Apart(t.entry, K, s.free, s.abandoned)
      /\ s.entry[x] = Absent /\ NoLeak(s.entry, K \cup {f}, s.free, s.abandoned) =>
              NoLeak(t.entry, K, s.free, s.abandoned)
  <2> DEFINE e == s.entry
             g == t.entry
             fr == s.free
             ab == s.abandoned
  <2>1. /\ Apart(e, K \cup {f}, fr, ab) /\ e \in [Entries -> {Absent, FB} \cup Frames]
        /\ g = [e EXCEPT ![x] = f]
    BY <1>1, <1>2, <1>3
  <2> HIDE DEF e, g, fr, ab
  <2>2. /\ Apart(g, K, fr, ab)
        /\ e[x] = Absent /\ NoLeak(e, K \cup {f}, fr, ab) => NoLeak(g, K, fr, ab)
    BY <2>1, PutApart
  <2> QED
    BY <2>2 DEF e, g, fr, ab
<1> QED
  BY <1>2, <1>4 DEF Sound

\* What building a table leaves alone.
Aside(s, t) ==
    /\ t.src = s.src /\ t.turns = s.turns /\ t.abandoned = s.abandoned
    /\ s.starved => t.starved
    /\ t.free \subseteq s.free
    /\ \A f \in Frames : f \notin s.free \ {0} => t.content[f] = s.content[f]
    /\ \A va \in VAs : t.entry[va] = s.entry[va]

\* Leaving alone is transitive.
LEMMA AsideTwice ==
  ASSUME NEW s, NEW t, NEW u, Aside(s, t), Aside(t, u)
  PROVE  Aside(s, u)
  BY DEF Aside

\* alloc_page leaves every frame in use alone.
LEMMA AllocAside ==
  ASSUME NEW s \in Memories, NEW a, a = alloc_page(s)
  PROVE  Aside(s, a)
<1>1. /\ a.entry = s.entry /\ a.src = s.src /\ a.turns = s.turns /\ a.abandoned = s.abandoned
      /\ \/ a.starved /\ a.content = s.content /\ a.free \subseteq s.free
         \/ /\ a.page \in Usable /\ a.page \in s.free /\ a.free = s.free \ {a.page}
            /\ (a.starved <=> s.starved)
            /\ a.content = [s.content EXCEPT ![a.page] = "zero"]
  BY AllocIs, Zenon
<1>2. \A f \in Frames : f \notin s.free \ {0} => a.content[f] = s.content[f]
  <2>1. CASE a.content = s.content
    BY <2>1
  <2>2. CASE a.page \in s.free /\ a.page \in Usable /\ a.content = [s.content EXCEPT ![a.page] = "zero"]
    <3>1. s.content \in [Frames -> Contents]
      BY DEF Memories
    <3> QED
      BY <2>2, <3>1, UsableFrames
  <2> QED
    BY <1>1, <2>1, <2>2
<1>3. s.starved => a.starved
  BY <1>1
<1>4. a.free \subseteq s.free
  BY <1>1
<1> QED
  BY <1>1, <1>2, <1>3, <1>4 DEF Aside

\* Success and failure change nothing else.
Succeed(s) == [s EXCEPT !.ok = TRUE]
Fail(s) == [s EXCEPT !.ok = FALSE]

\* What setting ok changes.
LEMMA OkTyped ==
  ASSUME NEW s \in Memories, NEW b \in BOOLEAN, NEW t, t = [s EXCEPT !.ok = b]
  PROVE  /\ t \in Memories /\ (t.ok <=> b)
         /\ t.entry = s.entry /\ t.free = s.free /\ t.content = s.content /\ t.page = s.page
         /\ t.src = s.src /\ t.turns = s.turns /\ t.abandoned = s.abandoned
         /\ (t.starved <=> s.starved)
<1> USE DEF Memories
<1>1. t \in Memories
  OBVIOUS
<1>2. t.ok <=> b
  OBVIOUS
<1>3. t.starved <=> s.starved
  OBVIOUS
<1>4. /\ t.entry = s.entry /\ t.free = s.free /\ t.content = s.content /\ t.page = s.page
      /\ t.src = s.src /\ t.turns = s.turns /\ t.abandoned = s.abandoned
  OBVIOUS
<1> QED
  BY <1>1, <1>2, <1>3, <1>4

\* The same, for the two values.
LEMMA OkIs ==
  ASSUME NEW s \in Memories, NEW t, t = Succeed(s) \/ t = Fail(s)
  PROVE  /\ t \in Memories
         /\ t = Succeed(s) => t.ok
         /\ t = Fail(s) => ~ t.ok
         /\ t.entry = s.entry /\ t.free = s.free /\ t.content = s.content /\ t.page = s.page
         /\ t.src = s.src /\ t.turns = s.turns /\ t.abandoned = s.abandoned
         /\ (t.starved <=> s.starved)
<1>1. PICK b \in BOOLEAN : t = [s EXCEPT !.ok = b]
  BY DEF Succeed, Fail
<1>2. t = Succeed(s) => t.ok
  BY DEF Succeed, Memories
<1>3. t = Fail(s) => ~ t.ok
  BY DEF Fail, Memories
<1> QED
  BY <1>1, <1>2, <1>3, OkTyped

\* Success and failure keep memory sound.
LEMMA OkSound ==
  ASSUME NEW s, NEW K, Sound(s, K), NEW t, t = Succeed(s) \/ t = Fail(s)
  PROVE  Sound(t, K) /\ Aside(s, t)
<1>1. s \in Memories
  BY DEF Sound
<1> QED
  BY <1>1, OkIs DEF Sound, Aside

\* A level of map_page: the table is there, or memory has run out.
LEMMA DescendSound ==
  ASSUME NEW s, NEW K, Sound(s, K), NEW table \in Tables, NEW t, t = Descend(s, table)
  PROVE  Sound(t, K) /\ Aside(s, t) /\ (s.ok => t.ok \/ t.starved)
<1>1. CASE ~ s.ok \/ s.entry[table] # Absent
  <2>1. t = s
    BY <1>1 DEF Descend
  <2>2. Aside(s, s)
    BY DEF Aside
  <2> QED
    BY <1>1, <2>1, <2>2
<1>2. CASE s.ok /\ s.entry[table] = Absent
  <2> DEFINE a == alloc_page(s)
  <2>1. t = IF a.page = 0 THEN Fail(a) ELSE Put(a, table, a.page)
    BY <1>2, Zenon DEF Descend, Fail, Put
  <2>2. s \in Memories
    BY DEF Sound
  <2>3. a \in Memories /\ a.entry = s.entry /\ Aside(s, a) /\ (a.ok <=> s.ok)
    BY <2>2, AllocIs, AllocAside
  <2>4. \/ a.page = 0 /\ a.starved /\ Sound(a, K)
        \/ a.page \in Usable /\ a.page \notin K /\ Sound(a, K \cup {a.page})
    BY AllocSound
  <2> HIDE DEF a
  <2>5. CASE a.page = 0 /\ a.starved /\ Sound(a, K)
    <3>1. Sound(t, K) /\ Aside(a, t) /\ t.starved
      BY <2>1, <2>3, <2>5, OkSound, OkIs
    <3> QED
      BY <2>3, <3>1, AsideTwice
  <2>6. CASE a.page \in Usable /\ a.page \notin K /\ Sound(a, K \cup {a.page})
    <3>1. a.page \in Frames /\ a.page # 0 /\ t = Put(a, table, a.page)
      BY <2>1, <2>6, UsableFrames
    <3>2. table \in Entries /\ table # fb /\ table \notin VAs /\ a.entry[table] = Absent
      BY <1>2, <2>3, PagesAre DEF Entries
    <3>3. Sound(t, K)
      BY <2>6, <3>1, <3>2, PutSound
    <3>4. /\ t.entry = [a.entry EXCEPT ![table] = a.page]
          /\ t.free = a.free /\ t.content = a.content /\ (t.ok <=> a.ok)
          /\ t.src = a.src /\ t.turns = a.turns /\ t.abandoned = a.abandoned
          /\ (t.starved <=> a.starved)
      BY <2>3, <3>1, <3>2, PutTyped
    <3>5. \A va \in VAs : t.entry[va] = a.entry[va]
      <4>1. a.entry \in [Entries -> {Absent, FB} \cup Frames]
        BY <2>3 DEF Memories, PageTables
      <4> QED
        BY <3>2, <3>4, <4>1 DEF Entries
    <3>6. Aside(a, t)
      BY <3>4, <3>5 DEF Aside
    <3> QED
      BY <1>2, <2>3, <3>3, <3>4, <3>6, AsideTwice
  <2> QED
    BY <2>4, <2>5, <2>6
<1> QED
  BY <1>1, <1>2

\* What mapping the page va leaves alone.
Beside(s, t, va) ==
    /\ t.src = s.src /\ t.turns = s.turns /\ t.abandoned = s.abandoned
    /\ s.starved => t.starved
    /\ t.free \subseteq s.free
    /\ \A f \in Frames : f \notin s.free \ {0} => t.content[f] = s.content[f]
    /\ \A v \in VAs : v # va => t.entry[v] = s.entry[v]

\* A page may be mapped at va: nothing is lost, or memory has run out.
Vacant(s, va) == s.starved \/ s.entry[va] = Absent

\* Building tables fills no page.
LEMMA VacantAside ==
  ASSUME NEW s, NEW t, Aside(s, t), NEW va \in VAs, Vacant(s, va)
  PROVE  Vacant(t, va)
  BY DEF Aside, Vacant

\* When memory has run out, frames may be forgotten.
LEMMA Forget ==
  ASSUME NEW s, NEW K, NEW L, Sound(s, L), s.starved, K \subseteq L
  PROVE  Sound(s, K)
  BY DEF Sound, Apart

\* The tables on the way to va.
LEMMA WalkSound ==
  ASSUME NEW s, NEW K, Sound(s, K), NEW va \in VAs,
         NEW t, t = Descend(Descend([s EXCEPT !.ok = TRUE], pd(va)), pt(va))
  PROVE  Sound(t, K) /\ Aside(s, t) /\ (t.ok \/ t.starved)
<1> DEFINE o == Succeed(s)
           d == Descend(o, pd(va))
<1>1. pd(va) \in Tables /\ pt(va) \in Tables
  BY PagesAre
<1>2. s \in Memories
  BY DEF Sound
<1>3. Sound(o, K) /\ Aside(s, o)
  BY OkSound
<1>4. o.ok
  BY <1>2, OkIs
<1> HIDE DEF o
<1>5. Sound(d, K) /\ Aside(o, d) /\ (d.ok \/ d.starved)
  BY <1>1, <1>3, <1>4, DescendSound
<1>6. t = Descend(d, pt(va))
  BY DEF o, Succeed, d
<1> HIDE DEF d
<1>7. Sound(t, K) /\ Aside(d, t) /\ (d.ok => t.ok \/ t.starved)
  BY <1>1, <1>5, <1>6, DescendSound
<1>8. d.starved => t.starved
  BY <1>7 DEF Aside
<1> QED
  BY <1>3, <1>5, <1>7, <1>8, AsideTwice

\* Writing the entry of a page leaves the other pages alone.
LEMMA PutBeside ==
  ASSUME NEW s, NEW t \in Memories, Aside(s, t), NEW va \in VAs, va # fb, NEW f \in Frames,
         NEW m, m = Put(t, va, f)
  PROVE  Beside(s, m, va) /\ m.entry[va] = f /\ (m.ok <=> t.ok) /\ (m.starved <=> t.starved)
         /\ m \in Memories
<1>1. va \in Entries
  BY DEF Entries
<1>2. /\ m.entry = [t.entry EXCEPT ![va] = f] /\ m \in Memories
      /\ m.free = t.free /\ m.content = t.content /\ (m.ok <=> t.ok)
      /\ m.src = t.src /\ m.turns = t.turns /\ m.abandoned = t.abandoned
      /\ (m.starved <=> t.starved)
  BY <1>1, PutTyped
<1>3. t.entry \in [Entries -> {Absent, FB} \cup Frames]
  BY DEF Memories, PageTables
<1>4. m.entry[va] = f /\ \A v \in VAs : v # va => m.entry[v] = t.entry[v]
  BY <1>1, <1>2, <1>3 DEF Entries
<1> QED
  BY <1>2, <1>4 DEF Beside, Aside

\* What map_page(s, va, pa) = m does.
MapsPage(s, m, K, va, pa) ==
    /\ m.ok => Sound(m, K) /\ m.entry[va] = pa
    /\ ~ m.ok => Sound(m, K \cup {pa}) /\ m.starved /\ m.entry[va] = s.entry[va]
    /\ Beside(s, m, va)

\* map_page enters the page, or fails because memory has run out.
LEMMA MapSound ==
  ASSUME NEW s, NEW K, NEW pa \in Usable, pa \notin K, Sound(s, K \cup {pa}),
         NEW va \in VAs, va # fb, Vacant(s, va),
         NEW m, m = map_page(s, va, pa)
  PROVE  MapsPage(s, m, K, va, pa)
<1> DEFINE t == Descend(Descend([s EXCEPT !.ok = TRUE], pd(va)), pt(va))
<1>1. Sound(t, K \cup {pa}) /\ Aside(s, t) /\ (t.ok \/ t.starved)
  BY WalkSound
<1>2. m = IF t.ok THEN Put(t, va, pa) ELSE t
  BY DEF map_page, Put
<1> HIDE DEF t
<1>3. t \in Memories /\ t.entry[va] = s.entry[va] /\ (s.starved => t.starved)
  BY <1>1 DEF Sound, Aside
<1>4. CASE t.ok
  <2>1. va \in Entries /\ pa \in Frames
    BY UsableFrames DEF Entries
  <2>2. m = Put(t, va, pa)
    BY <1>2, <1>4
  <2>3. Sound(m, K)
    BY <1>1, <1>3, <2>1, <2>2, PutSound DEF Vacant
  <2>4. Beside(s, m, va) /\ m.entry[va] = pa /\ (m.ok <=> t.ok)
    BY <1>1, <1>3, <2>1, <2>2, PutBeside
  <2> QED
    BY <1>4, <2>3, <2>4 DEF MapsPage
<1>5. CASE ~ t.ok
  <2>1. Beside(s, t, va)
    BY <1>1 DEF Aside, Beside
  <2> QED
    BY <1>1, <1>2, <1>3, <1>5, <2>1 DEF MapsPage
<1> QED
  BY <1>4, <1>5

\* create_user_stack maps page 0 when memory has run out.
LEMMA MapNull ==
  ASSUME NEW s, NEW K, Sound(s, K), s.starved, NEW va \in VAs, va # fb,
         NEW pa \in Frames \ Usable, NEW m, m = map_page(s, va, pa)
  PROVE  Sound(m, K) /\ m.starved /\ Beside(s, m, va)
<1> DEFINE t == Descend(Descend([s EXCEPT !.ok = TRUE], pd(va)), pt(va))
<1>1. Sound(t, K) /\ Aside(s, t) /\ (t.ok \/ t.starved)
  BY WalkSound
<1>2. m = IF t.ok THEN Put(t, va, pa) ELSE t
  BY DEF map_page, Put
<1> HIDE DEF t
<1>3. t \in Memories /\ t.starved /\ pa \in Frames /\ pa \notin Usable
  BY <1>1, UsableFrames DEF Sound, Aside
<1>4. CASE t.ok
  <2>1. m = Put(t, va, pa)
    BY <1>2, <1>4
  <2>2. Beside(s, m, va) /\ m \in Memories
    <3>1. t \in Memories /\ Aside(s, t)
      BY <1>1, <1>3
    <3> QED
      BY <2>1, <3>1, PutBeside
  <2>6. m.starved
    BY <2>2 DEF Beside
  <2>3. /\ m.entry = [t.entry EXCEPT ![va] = pa] /\ va \in Entries
        /\ m.free = t.free /\ m.abandoned = t.abandoned
    BY <1>3, <2>1, PutTyped DEF Entries
  <2>4. \A x \in Entries : m.entry[x] \in Usable => x # va /\ m.entry[x] = t.entry[x]
    <3>1. t.entry \in [Entries -> {Absent, FB} \cup Frames]
      BY <1>3 DEF Memories, PageTables
    <3> QED
      BY <1>3, <2>3, <3>1
  <2>5. Apart(m.entry, K, m.free, m.abandoned)
    <3> DEFINE g == m.entry
               e == t.entry
    <3>1. Apart(e, K, m.free, m.abandoned)
      BY <1>1, <2>3 DEF Sound
    <3>2. \A x \in Entries : g[x] \in Usable => g[x] = e[x]
      BY <2>4
    <3> HIDE DEF g, e
    <3>3. Apart(g, K, m.free, m.abandoned)
      BY <3>1, <3>2 DEF Apart
    <3> QED
      BY <3>3 DEF g
  <2> QED
    BY <1>1, <1>3, <2>2, <2>5, <2>6 DEF Sound
<1>5. CASE ~ t.ok
  <2>1. Beside(s, t, va)
    BY <1>1 DEF Aside, Beside
  <2> QED
    BY <1>1, <1>2, <1>3, <1>5, <2>1
<1> QED
  BY <1>4, <1>5

\* A slot without a space has no frame.
LEMMA NoSpaceIs ==
    NoSpace \in PageTables /\ \A x \in Entries : NoSpace[x] = Absent /\ NoSpace[x] \notin Usable
<1>1. fb \in Entries /\ Absent # FB /\ Absent \notin Usable
  BY PagesAre, SpaceAssumption DEF Entries, FB, Absent, Usable
<1> QED
  BY <1>1 DEF NoSpace, PageTables, Entries

\* The two roots of a new space.
Roots(f, g) == [NoSpace EXCEPT ![pml4] = f, ![pdpt] = g, ![fb] = FB]

\* The entries of a new space.
LEMMA RootsAre ==
  ASSUME NEW f \in Usable, NEW g \in Usable, NEW e, e = Roots(f, g)
  PROVE  /\ e \in PageTables
         /\ \A x \in Entries : e[x] = IF x = pml4 THEN f ELSE IF x = pdpt THEN g
                                      ELSE IF x = fb THEN FB ELSE Absent
<1>1. /\ pml4 \in Entries /\ pdpt \in Entries /\ fb \in Entries
      /\ pml4 \notin VAs /\ pdpt \notin VAs /\ fb \notin Tables /\ pml4 # pdpt
      /\ fb # pml4 /\ fb # pdpt
  BY PagesAre DEF Entries
<1>2. NoSpace \in [Entries -> {Absent, FB} \cup Frames] /\ \A x \in Entries : NoSpace[x] = Absent
  BY NoSpaceIs DEF PageTables
<1>3. \A x \in Entries : e[x] = IF x = pml4 THEN f ELSE IF x = pdpt THEN g
                                      ELSE IF x = fb THEN FB ELSE Absent
  BY <1>1, <1>2 DEF Roots
<1>4. f \in Frames /\ g \in Frames /\ f # FB /\ g # FB /\ Absent # FB
  BY UsableFrames, SpaceAssumption DEF FB, Absent
<1>5. e \in [Entries -> {Absent, FB} \cup Frames]
  BY <1>1, <1>2, <1>4 DEF Roots
<1> QED
  BY <1>1, <1>3, <1>4, <1>5 DEF PageTables, Entries

\* The two roots come from what was set aside.
LEMMA RootsApart ==
  ASSUME NEW f \in Usable, NEW g \in Usable, NEW e, e = Roots(f, g), NEW K, f \notin K,
         g \notin K \cup {f}, NEW fr, NEW ab,
         Apart(NoSpace, (K \cup {f}) \cup {g}, fr, ab)
  PROVE  /\ Apart(e, K, fr, ab)
         /\ NoLeak(NoSpace, (K \cup {f}) \cup {g}, fr, ab) => NoLeak(e, K, fr, ab)
<1>1. \A x \in Entries : e[x] = IF x = pml4 THEN f ELSE IF x = pdpt THEN g
                                      ELSE IF x = fb THEN FB ELSE Absent
  BY RootsAre
<1>2. FB \notin Usable /\ Absent \notin Usable
  BY UsableFrames
<1>3. \A x \in Entries : e[x] \in Usable => (x = pml4 /\ e[x] = f) \/ (x = pdpt /\ e[x] = g)
  BY <1>1, <1>2
<1>4. Apart(e, K, fr, ab)
  BY <1>3 DEF Apart
<1>5. pml4 \in Entries /\ pdpt \in Entries /\ e[pml4] = f /\ e[pdpt] = g
  BY <1>1, PagesAre DEF Entries
<1>6. ASSUME NoLeak(NoSpace, (K \cup {f}) \cup {g}, fr, ab) PROVE NoLeak(e, K, fr, ab)
  BY <1>5, <1>6, NoSpaceIs DEF NoLeak
<1> QED
  BY <1>4, <1>6

\* What create leaves alone.
Made(s, c) ==
    /\ c.src = s.src /\ c.turns = s.turns /\ c.abandoned = s.abandoned
    /\ s.starved => c.starved
    /\ c.free \subseteq s.free
    /\ \A f \in Frames : f \notin s.free \ {0} => c.content[f] = s.content[f]
    /\ c.ok => \A va \in VAs : c.entry[va] = IF va = fb THEN FB ELSE Absent
    /\ ~ c.ok => c.starved /\ c.entry = NoSpace

\* A frame goes back to the pool.
Return(s, f) == [s EXCEPT !.free = @ \cup {f}]

\* A frame that was set aside goes back to the pool.
LEMMA ReturnSound ==
  ASSUME NEW s, NEW K, NEW f \in Usable, f \notin K, Sound(s, K \cup {f}),
         NEW t, t = Return(s, f)
  PROVE  /\ Sound(t, K) /\ t.entry = s.entry /\ t.free = s.free \cup {f} /\ t.content = s.content
         /\ t.src = s.src /\ t.turns = s.turns /\ t.abandoned = s.abandoned
         /\ (t.starved <=> s.starved) /\ (t.ok <=> s.ok)
<1>1. s \in Memories /\ f \in Frames
  BY UsableFrames DEF Sound
<1>2. /\ t.entry = s.entry /\ t.free = s.free \cup {f} /\ t.content = s.content
      /\ t.src = s.src /\ t.turns = s.turns /\ t.abandoned = s.abandoned
  BY <1>1 DEF Memories, Return
<1>3. (t.starved <=> s.starved)
  BY <1>1 DEF Memories, Return
<1>4. (t.ok <=> s.ok)
  BY <1>1 DEF Memories, Return
<1>5. t \in Memories
  BY <1>1 DEF Memories, Return
<1>6. Apart(t.entry, K, t.free, t.abandoned)
  BY <1>2 DEF Sound, Apart
<1>7. NoLeak(s.entry, K \cup {f}, s.free, s.abandoned) => NoLeak(t.entry, K, t.free, t.abandoned)
  BY <1>2 DEF NoLeak
<1>8. K \subseteq Usable
  BY DEF Sound
<1>9. Sound(t, K)
  BY <1>3, <1>5, <1>6, <1>7, <1>8 DEF Sound
<1> QED
  BY <1>2, <1>3, <1>4, <1>9

\* create makes a space with two roots, or gives back what it took.
LEMMA CreateSound ==
  ASSUME NEW s, NEW K, Sound(s, K), s.entry = NoSpace, NEW c, c = create(s)
  PROVE  Sound(c, K) /\ Made(s, c)
<1> DEFINE a == alloc_page(s)
           b == alloc_page(a)
<1>1. c = IF a.page = 0 THEN Fail(a)
          ELSE IF b.page = 0 THEN Fail(Return(b, a.page))
          ELSE [b EXCEPT !.ok = TRUE, !.entry = Roots(a.page, b.page)]
  <2>1. [b EXCEPT !.ok = FALSE, !.free = @ \cup {a.page}] = Fail(Return(b, a.page))
    BY DEF Fail, Return
  <2> QED
    BY <2>1, Zenon DEF create, Fail, Roots
<1>2. s \in Memories /\ K \subseteq Usable
  BY DEF Sound
<1>3. a \in Memories /\ a.entry = NoSpace /\ Aside(s, a)
  BY <1>2, AllocIs, AllocAside
<1>4. \/ a.page = 0 /\ a.starved /\ Sound(a, K)
      \/ a.page \in Usable /\ a.page \notin K /\ Sound(a, K \cup {a.page})
  BY AllocSound
<1> HIDE DEF a
<1>5. b \in Memories /\ b.entry = NoSpace /\ Aside(a, b)
  BY <1>3, AllocIs, AllocAside
<1>6. ASSUME Sound(a, K \cup {a.page})
      PROVE  \/ b.page = 0 /\ b.starved /\ Sound(b, K \cup {a.page})
             \/ /\ b.page \in Usable /\ b.page \notin K \cup {a.page}
                /\ Sound(b, (K \cup {a.page}) \cup {b.page})
  BY <1>6, AllocSound
<1> HIDE DEF b
<1>7. Aside(s, b)
  BY <1>3, <1>5, AsideTwice
<1>8. CASE a.page = 0 /\ a.starved /\ Sound(a, K)
  <2>1. c = Fail(a)
    BY <1>1, <1>8
  <2>2. Sound(c, K) /\ Aside(a, c)
    BY <1>8, <2>1, OkSound
  <2>3. ~ c.ok /\ c.entry = NoSpace
    BY <1>3, <2>1, OkIs
  <2>4. c.starved
    BY <1>8, <2>2 DEF Aside
  <2>5. Aside(s, c)
    BY <1>3, <2>2, AsideTwice
  <2> QED
    BY <2>2, <2>3, <2>4, <2>5 DEF Made, Aside
<1>9. CASE /\ a.page \in Usable /\ a.page \notin K /\ Sound(a, K \cup {a.page})
           /\ b.page = 0 /\ b.starved /\ Sound(b, K \cup {a.page})
  <2> DEFINE r == Return(b, a.page)
  <2>1. c = Fail(r)
    BY <1>1, <1>9, UsableFrames
  <2>2. /\ Sound(r, K) /\ r.entry = b.entry /\ r.free = b.free \cup {a.page}
        /\ r.content = b.content
        /\ r.src = b.src /\ r.turns = b.turns /\ r.abandoned = b.abandoned
        /\ (r.starved <=> b.starved)
    BY <1>9, ReturnSound
  <2> HIDE DEF r
  <2>3. r \in Memories
    BY <2>2 DEF Sound
  <2>4. Sound(c, K) /\ Aside(r, c)
    BY <2>1, <2>2, OkSound
  <2>5. ~ c.ok /\ c.entry = NoSpace
    BY <1>5, <2>1, <2>2, <2>3, OkIs
  <2>6. a.page \in s.free
    BY <1>2, <1>9, UsableFrames, AllocIs DEF a
  <2>7. r.starved
    BY <1>9, <2>2
  <2>8. c.starved
    BY <2>4, <2>7 DEF Aside
  <2>9. /\ c.src = s.src /\ c.turns = s.turns /\ c.abandoned = s.abandoned
        /\ c.free \subseteq s.free
        /\ \A f \in Frames : f \notin s.free \ {0} => c.content[f] = s.content[f]
    BY <1>7, <2>2, <2>4, <2>6 DEF Aside
  <2> QED
    BY <2>4, <2>5, <2>8, <2>9 DEF Made
<1>10. CASE /\ a.page \in Usable /\ a.page \notin K
            /\ b.page \in Usable /\ b.page \notin K \cup {a.page}
            /\ Sound(b, (K \cup {a.page}) \cup {b.page})
  <2> DEFINE e == Roots(a.page, b.page)
  <2>1. c = [b EXCEPT !.ok = TRUE, !.entry = e]
    BY <1>1, <1>10, UsableFrames
  <2>2. /\ e \in PageTables
        /\ \A x \in Entries : e[x] = IF x = pml4 THEN a.page ELSE IF x = pdpt THEN b.page
                                     ELSE IF x = fb THEN FB ELSE Absent
    BY <1>10, RootsAre
  <2>3. /\ Apart(e, K, b.free, b.abandoned)
        /\ ~ b.starved => NoLeak(e, K, b.free, b.abandoned)
    <3>1. /\ Apart(NoSpace, (K \cup {a.page}) \cup {b.page}, b.free, b.abandoned)
          /\ ~ b.starved => NoLeak(NoSpace, (K \cup {a.page}) \cup {b.page}, b.free, b.abandoned)
      BY <1>5, <1>10 DEF Sound
    <3> QED
      BY <1>10, <3>1, RootsApart
  <2> HIDE DEF e
  <2>4. /\ c.entry = e /\ c.free = b.free /\ c.content = b.content
        /\ c.src = b.src /\ c.turns = b.turns /\ c.abandoned = b.abandoned
    BY <1>5, <2>1 DEF Memories
  <2>5. c \in Memories
    BY <1>5, <2>1, <2>2 DEF Memories
  <2>6. c.ok
    BY <1>5, <2>1 DEF Memories
  <2>7. (c.starved <=> b.starved)
    BY <1>5, <2>1 DEF Memories
  <2>8. Sound(c, K)
    BY <1>2, <2>3, <2>4, <2>5, <2>7 DEF Sound
  <2>9. \A va \in VAs : c.entry[va] = IF va = fb THEN FB ELSE Absent
    BY <2>2, <2>4, PagesAre DEF Entries
  <2> QED
    BY <1>7, <2>4, <2>6, <2>7, <2>8, <2>9 DEF Made, Aside
<1> QED
  BY <1>4, <1>6, <1>8, <1>9, <1>10

\* destroy gives back the user pages and abandons the tables.
LEMMA DestroySound ==
  ASSUME NEW s, NEW K, Sound(s, K), NEW d, d = destroy(s)
  PROVE  /\ Sound(d, K) /\ d.entry = NoSpace /\ d.content = s.content
         /\ d.src = s.src /\ d.turns = s.turns /\ (d.starved <=> s.starved) /\ (d.ok <=> s.ok)
<1> DEFINE U == {s.entry[va] : va \in Mapped(s)} \ {FB}
           T == {s.entry[t] : t \in Tables} \ {Absent}
<1>1. s \in Memories /\ s.entry \in PageTables /\ K \subseteq Usable
  BY DEF Sound, Memories
<1>2. d = [s EXCEPT !.free = @ \cup U, !.abandoned = @ \cup T, !.entry = NoSpace]
  BY DEF destroy
<1>3. U \subseteq Frames /\ \A f \in U : \E va \in VAs : f = s.entry[va]
  BY <1>1 DEF Mapped, PageTables, Entries
<1>4. T \subseteq Usable /\ \A f \in T : \E t \in Tables : f = s.entry[t]
  BY <1>1 DEF PageTables
<1>5. \A x \in Entries : s.entry[x] \in Usable => s.entry[x] \in U \/ s.entry[x] \in T
  BY UsableFrames DEF Entries, Mapped
<1> HIDE DEF U, T
<1>6. /\ d.entry = NoSpace /\ d.free = s.free \cup U /\ d.abandoned = s.abandoned \cup T
      /\ d.content = s.content /\ d.src = s.src /\ d.turns = s.turns
  BY <1>1, <1>2 DEF Memories
<1>7. d.starved <=> s.starved
  BY <1>1, <1>2 DEF Memories
<1>8. d.ok <=> s.ok
  BY <1>1, <1>2 DEF Memories
<1>9. d \in Memories
  <2>1. NoSpace \in PageTables
    BY NoSpaceIs
  <2>2. s.free \cup U \in SUBSET Frames /\ s.abandoned \cup T \in SUBSET Usable
    BY <1>1, <1>3, <1>4 DEF Memories
  <2> QED
    BY <1>1, <1>2, <2>1, <2>2 DEF Memories
<1>10. Apart(s.entry, K, s.free, s.abandoned)
  BY DEF Sound
<1>11. Apart(NoSpace, K, s.free \cup U, s.abandoned \cup T)
  <2>1. \A f \in Usable : f \in U => f \notin K /\ f \notin s.abandoned /\ f \notin T
    BY <1>3, <1>4, <1>10, PagesAre DEF Apart, Entries
  <2>2. \A f \in Usable : f \in T => f \notin K /\ f \notin s.free
    BY <1>4, <1>10 DEF Apart, Entries
  <2> QED
    BY <1>1, <1>10, <2>1, <2>2, NoSpaceIs DEF Apart
<1>12. NoLeak(s.entry, K, s.free, s.abandoned) => NoLeak(NoSpace, K, s.free \cup U, s.abandoned \cup T)
  BY <1>5 DEF NoLeak
<1>13. Sound(d, K)
  BY <1>1, <1>6, <1>7, <1>9, <1>11, <1>12 DEF Sound
<1> QED
  BY <1>6, <1>7, <1>8, <1>13

\* Which of two spaces is at hand does not matter.
LEMMA Swap ==
  ASSUME NEW e \in PageTables, NEW g \in PageTables, NEW K \in SUBSET Usable, NEW fr, NEW ab,
         Apart(e, K \cup Owns(g), fr, ab), Owns(g) \cap K = {},
         \A x, y \in Entries : g[x] \in Usable /\ g[x] = g[y] => x = y
  PROVE  /\ Apart(g, K \cup Owns(e), fr, ab)
         /\ NoLeak(e, K \cup Owns(g), fr, ab) => NoLeak(g, K \cup Owns(e), fr, ab)
<1>1. \A x \in Entries : g[x] \in Usable => g[x] \in Owns(g)
  BY DEF Owns
<1>2. \A f \in Owns(e) : f \in Usable /\ \E x \in Entries : e[x] = f
  BY DEF Owns
<1>3. Apart(g, K \cup Owns(e), fr, ab)
  <2>1. \A x \in Entries : g[x] \in Usable => g[x] \notin fr /\ g[x] \notin ab /\ g[x] \notin K
    BY <1>1 DEF Apart
  <2>2. \A x \in Entries : g[x] \in Usable => g[x] \notin Owns(e)
    BY <1>1, <1>2 DEF Apart
  <2>3. \A f \in K \cup Owns(e) : f \notin fr /\ f \notin ab
    BY <1>2 DEF Apart
  <2>4. \A f \in Usable : ~ (f \in fr /\ f \in ab)
    BY DEF Apart
  <2> QED
    BY <2>1, <2>2, <2>3, <2>4 DEF Apart
<1>4. ASSUME NoLeak(e, K \cup Owns(g), fr, ab) PROVE NoLeak(g, K \cup Owns(e), fr, ab)
  BY <1>4 DEF NoLeak, Owns
<1> QED
  BY <1>3, <1>4

\* Filling a frame.
Fill(s, f, c) == [s EXCEPT !.content[f] = c]

\* Writing into a frame moves no frame.
LEMMA FillSound ==
  ASSUME NEW s, NEW K, Sound(s, K), NEW f \in Frames, NEW c \in Contents, NEW t, t = Fill(s, f, c)
  PROVE  /\ Sound(t, K) /\ t.content = [s.content EXCEPT ![f] = c]
         /\ t.entry = s.entry /\ t.free = s.free /\ t.src = s.src /\ t.turns = s.turns
         /\ t.abandoned = s.abandoned /\ (t.starved <=> s.starved) /\ (t.ok <=> s.ok)
<1>1. s \in Memories
  BY DEF Sound
<1>2. /\ t.content = [s.content EXCEPT ![f] = c]
      /\ t.entry = s.entry /\ t.free = s.free /\ t.src = s.src /\ t.turns = s.turns
      /\ t.abandoned = s.abandoned
  BY <1>1 DEF Memories, Fill
<1>3. t.starved <=> s.starved
  BY <1>1 DEF Memories, Fill
<1>4. t.ok <=> s.ok
  BY <1>1 DEF Memories, Fill
<1>5. t \in Memories
  <2>1. [s.content EXCEPT ![f] = c] \in [Frames -> Contents]
    BY <1>1 DEF Memories
  <2>2. t = [s EXCEPT !.content = [s.content EXCEPT ![f] = c]]
    BY <1>1 DEF Memories, Fill
  <2> QED
    BY <1>1, <2>1, <2>2 DEF Memories
<1>6. Sound(t, K)
  BY <1>2, <1>3, <1>5 DEF Sound
<1> QED
  BY <1>2, <1>3, <1>4, <1>6

\* A page of elf::load.
LEMMA LoadPageSound ==
  ASSUME NEW s, NEW K, Sound(s, K), NEW va \in VAs, va # fb, Vacant(s, va),
         NEW t, t = LoadPage(s, va)
  PROVE  /\ Sound(t, K) /\ Beside(s, t, va)
         /\ s.ok /\ ~ t.starved => t.ok /\ t.entry[va] # Absent
<1> DEFINE a == alloc_page(s)
           m == map_page(a, va, a.page)
<1>1. CASE ~ s.ok
  <2>1. t = s
    BY <1>1 DEF LoadPage
  <2> QED
    BY <1>1, <2>1 DEF Beside
<1>2. CASE s.ok
  <2>1. t = IF a.page = 0 THEN Fail(a) ELSE Fill(Succeed(m), a.page, "text")
    <3>1. [m EXCEPT !.ok = TRUE, !.content[a.page] = "text"] = Fill(Succeed(m), a.page, "text")
      BY DEF Fill, Succeed
    <3> QED
      BY <1>2, <3>1, Zenon DEF LoadPage, Fail
  <2>2. s \in Memories
    BY DEF Sound
  <2>3. a \in Memories /\ a.entry = s.entry /\ Aside(s, a)
    BY <2>2, AllocIs, AllocAside
  <2>4. \/ a.page = 0 /\ a.starved /\ Sound(a, K)
        \/ a.page \in Usable /\ a.page \notin K /\ Sound(a, K \cup {a.page}) /\ a.page \in s.free
    BY AllocSound
  <2> HIDE DEF a
  <2>5. CASE a.page = 0 /\ a.starved /\ Sound(a, K)
    <3>1. t = Fail(a)
      BY <2>1, <2>5
    <3>2. Sound(t, K) /\ Aside(a, t)
      BY <2>5, <3>1, OkSound
    <3>3. Aside(s, t) /\ t.starved
      BY <2>3, <2>5, <3>2, AsideTwice DEF Aside
    <3> QED
      BY <3>2, <3>3 DEF Aside, Beside
  <2>6. CASE a.page \in Usable /\ a.page \notin K /\ Sound(a, K \cup {a.page}) /\ a.page \in s.free
    <3>1. Vacant(a, va)
      BY <2>3, VacantAside
    <3>2. MapsPage(a, m, K, va, a.page)
      BY <2>6, <3>1, MapSound
    <3> HIDE DEF m
    <3>3. Sound(m, K)
      BY <3>2, Forget DEF MapsPage
    <3> DEFINE o == Succeed(m)
    <3>4. m \in Memories
      BY <3>3 DEF Sound
    <3>5. Sound(o, K) /\ Aside(m, o) /\ o.ok /\ (o.starved <=> m.starved)
      BY <3>3, <3>4, OkSound, OkIs
    <3>6. t = Fill(o, a.page, "text") /\ a.page \in Frames /\ "text" \in Contents
      BY <2>1, <2>6, UsableFrames DEF Contents
    <3> HIDE DEF o
    <3>7. /\ Sound(t, K) /\ t.content = [o.content EXCEPT ![a.page] = "text"]
          /\ t.entry = o.entry /\ t.free = o.free /\ t.src = o.src /\ t.turns = o.turns
          /\ t.abandoned = o.abandoned /\ (t.starved <=> o.starved) /\ (t.ok <=> o.ok)
      BY <3>5, <3>6, FillSound, SMTT(20)
    <3>8. o.content \in [Frames -> Contents]
      BY <3>5 DEF Sound, Memories
    <3>9. \A f \in Frames : f \notin s.free \ {0} => t.content[f] = s.content[f]
      <4> SUFFICES ASSUME NEW f \in Frames, f \notin s.free \ {0}
                   PROVE  t.content[f] = s.content[f]
        OBVIOUS
      <4>1. f # a.page
        BY <2>6, UsableFrames
      <4>2. a.content[f] = s.content[f] /\ f \notin a.free \ {0}
        BY <2>3 DEF Aside
      <4>3. m.content[f] = a.content[f] /\ f \notin m.free \ {0}
        BY <3>2, <4>2 DEF Beside, MapsPage
      <4>4. o.content[f] = m.content[f]
        BY <3>5, <4>3 DEF Aside
      <4> QED
        BY <3>7, <3>8, <4>1, <4>2, <4>3, <4>4
    <3>10. Beside(s, t, va)
      <4>1. Beside(a, m, va)
        BY <3>2 DEF MapsPage
      <4>2. /\ t.src = s.src /\ t.turns = s.turns /\ t.abandoned = s.abandoned
            /\ t.free \subseteq s.free
            /\ \A v \in VAs : v # va => t.entry[v] = s.entry[v]
        BY <2>3, <3>5, <3>7, <4>1 DEF Beside, Aside
      <4>3. s.starved => t.starved
        BY <2>3, <3>5, <3>7, <4>1 DEF Beside, Aside
      <4> QED
        BY <3>9, <4>2, <4>3 DEF Beside
    <3>11. ASSUME ~ t.starved PROVE t.entry[va] # Absent
      <4>1. m.ok /\ t.entry[va] = m.entry[va]
        BY <3>2, <3>5, <3>7, <3>11 DEF Aside, MapsPage
      <4> QED
        BY <2>6, <3>2, <4>1, UsableFrames DEF MapsPage
    <3> QED
      BY <3>5, <3>7, <3>10, <3>11
  <2> QED
    BY <2>4, <2>5, <2>6
<1> QED
  BY <1>1, <1>2

\* What a page of create_user_stack may do.
StacksPage(s, t, K, va) ==
    /\ Sound(t, K)
    /\ s.starved => t.starved
    /\ t.starved \/ t.entry[va] # Absent
    /\ \A v \in VAs : v # va => t.entry[v] = s.entry[v]

\* A page of create_user_stack.
LEMMA StackPageSound ==
  ASSUME NEW s, NEW K, Sound(s, K), NEW va \in VAs, va # fb, Vacant(s, va),
         NEW t, t = StackPage(s, va)
  PROVE  StacksPage(s, t, K, va)
<1> DEFINE a == alloc_page(s)
           m == map_page(a, va, a.page)
<1>1. t = IF va = Top THEN Fill(m, a.page, "args") ELSE m
  BY Zenon DEF StackPage, Fill
<1>2. s \in Memories
  BY DEF Sound
<1>3. a \in Memories /\ a.entry = s.entry /\ Aside(s, a)
  BY <1>2, AllocIs, AllocAside
<1>4. \/ a.page = 0 /\ a.starved /\ Sound(a, K)
      \/ a.page \in Usable /\ a.page \notin K /\ Sound(a, K \cup {a.page}) /\ a.page \in s.free
  BY AllocSound
<1> HIDE DEF a
<1>5. Sound(m, K) /\ Beside(a, m, va) /\ (m.starved \/ m.entry[va] # Absent)
  <2>1. CASE a.page = 0 /\ a.starved /\ Sound(a, K)
    <3>1. a.page \in Frames \ Usable
      BY <2>1, UsableFrames
    <3> QED
      BY <2>1, <3>1, MapNull
  <2>2. CASE a.page \in Usable /\ a.page \notin K /\ Sound(a, K \cup {a.page}) /\ a.page \in s.free
    <3>1. Vacant(a, va)
      BY <1>3, VacantAside
    <3>2. MapsPage(a, m, K, va, a.page)
      BY <2>2, <3>1, MapSound
    <3> HIDE DEF m
    <3>3. Sound(m, K) /\ Beside(a, m, va)
      BY <3>2, Forget DEF MapsPage
    <3> QED
      BY <2>2, <3>2, <3>3, UsableFrames DEF MapsPage
  <2> QED
    BY <1>4, <2>1, <2>2
<1> HIDE DEF m
<1>6. Sound(t, K) /\ t.entry = m.entry /\ (t.starved <=> m.starved)
  <2>1. a.page \in Frames /\ "args" \in Contents
    BY <1>3 DEF Contents, Memories
  <2>2. CASE va = Top
    <3>1. t = Fill(m, a.page, "args") /\ Sound(m, K)
      BY <1>1, <1>5, <2>2
    <3>2. /\ Sound(t, K) /\ t.content = [m.content EXCEPT ![a.page] = "args"]
          /\ t.entry = m.entry /\ t.free = m.free /\ t.src = m.src /\ t.turns = m.turns
          /\ t.abandoned = m.abandoned /\ (t.starved <=> m.starved) /\ (t.ok <=> m.ok)
      BY <2>1, <3>1, FillSound
    <3> QED
      BY <3>2
  <2>3. CASE va # Top
    BY <1>1, <1>5, <2>3
  <2> QED
    BY <2>2, <2>3
<1>7. \A v \in VAs : v # va => t.entry[v] = s.entry[v]
  BY <1>3, <1>5, <1>6 DEF Beside
<1>8. s.starved => t.starved
  BY <1>3, <1>5, <1>6 DEF Beside, Aside
<1> QED
  BY <1>5, <1>6, <1>7, <1>8 DEF StacksPage

\* What a turn of sys_mmap's loop may do.
MmapsPage(s, t, K, va) ==
    /\ Sound(t, K)
    /\ s.starved => t.starved
    /\ t.free \subseteq s.free
    /\ \A f \in Frames : f \notin s.free \ {0} => t.content[f] = s.content[f]
    /\ \A v \in VAs : v # va => t.entry[v] = s.entry[v]
    /\ s.ok => \/ ~ t.ok /\ t.starved /\ t.turns = s.turns /\ t.entry[va] = s.entry[va]
               \/ /\ t.ok /\ t.turns = s.turns + 1
                  /\ \/ t.starved /\ t.entry[va] = s.entry[va]
                     \/ t.entry[va] \in Usable /\ t.content[t.entry[va]] = "zero"
    /\ ~ s.ok => t = s

Turn(s) == [s EXCEPT !.turns = @ + 1]

\* Counting a turn changes nothing else.
LEMMA TurnSound ==
  ASSUME NEW s, NEW K, Sound(s, K), NEW t, t = Turn(s)
  PROVE  /\ Sound(t, K) /\ t.turns = s.turns + 1
         /\ t.entry = s.entry /\ t.free = s.free /\ t.src = s.src /\ t.content = s.content
         /\ t.abandoned = s.abandoned /\ (t.starved <=> s.starved) /\ (t.ok <=> s.ok)
<1>1. s \in Memories
  BY DEF Sound
<1>2. /\ t.turns = s.turns + 1
      /\ t.entry = s.entry /\ t.free = s.free /\ t.src = s.src /\ t.content = s.content
      /\ t.abandoned = s.abandoned
  BY <1>1 DEF Memories, Turn
<1>3. t.starved <=> s.starved
  BY <1>1 DEF Memories, Turn
<1>4. t.ok <=> s.ok
  BY <1>1 DEF Memories, Turn
<1>5. t \in Memories
  BY <1>1 DEF Memories, Turn
<1>6. Sound(t, K)
  BY <1>2, <1>3, <1>5 DEF Sound
<1> QED
  BY <1>2, <1>3, <1>4, <1>6

\* A turn of sys_mmap's loop.
LEMMA MmapPageSound ==
  ASSUME NEW s, NEW K, Sound(s, K), NEW va \in VAs, va # fb, Vacant(s, va),
         NEW t, t = MmapPage(s, va)
  PROVE  MmapsPage(s, t, K, va)
<1> DEFINE a == alloc_page(s)
           m == map_page(a, va, a.page)
<1>1. CASE ~ s.ok
  <2>1. t = s
    BY <1>1 DEF MmapPage
  <2> QED
    BY <1>1, <2>1 DEF MmapsPage
<1>2. CASE s.ok
  <2>1. t = IF a.page = 0 THEN Fail(a) ELSE Turn(Succeed(m))
    <3>1. [m EXCEPT !.ok = TRUE, !.turns = @ + 1] = Turn(Succeed(m))
      BY DEF Turn, Succeed
    <3> QED
      BY <1>2, <3>1, Zenon DEF MmapPage, Fail
  <2>2. s \in Memories
    BY DEF Sound
  <2>3. a \in Memories /\ a.entry = s.entry /\ Aside(s, a)
    BY <2>2, AllocIs, AllocAside
  <2>4. \/ a.page = 0 /\ a.starved /\ Sound(a, K)
        \/ a.page \in Usable /\ a.page \notin K /\ Sound(a, K \cup {a.page}) /\ a.page \in s.free
    BY AllocSound
  <2>5. a.page \in Usable => a.content = [s.content EXCEPT ![a.page] = "zero"] /\ a.page \notin a.free
    BY <2>2, AllocIs, UsableFrames
  <2> HIDE DEF a
  <2>6. CASE a.page = 0 /\ a.starved /\ Sound(a, K)
    <3>1. t = Fail(a)
      BY <2>1, <2>6
    <3>2. Sound(t, K) /\ Aside(a, t)
      BY <2>6, <3>1, OkSound
    <3>3. ~ t.ok /\ (t.starved <=> a.starved)
      BY <2>3, <3>1, OkIs
    <3>4. Aside(s, t)
      BY <2>3, <3>2, AsideTwice
    <3> QED
      BY <1>2, <2>6, <3>2, <3>3, <3>4 DEF Aside, MmapsPage
  <2>7. CASE a.page \in Usable /\ a.page \notin K /\ Sound(a, K \cup {a.page}) /\ a.page \in s.free
    <3>1. Vacant(a, va)
      BY <2>3, VacantAside
    <3>2. MapsPage(a, m, K, va, a.page)
      BY <2>7, <3>1, MapSound
    <3> HIDE DEF m
    <3>3. Sound(m, K) /\ Beside(a, m, va)
      BY <3>2, Forget DEF MapsPage
    <3> DEFINE o == Succeed(m)
    <3>4. m \in Memories
      BY <3>3 DEF Sound
    <3>5. /\ Sound(o, K) /\ o.ok /\ (o.starved <=> m.starved)
          /\ o.entry = m.entry /\ o.free = m.free /\ o.content = m.content /\ o.turns = m.turns
      BY <3>3, <3>4, OkSound, OkIs
    <3>6. t = Turn(o)
      BY <2>1, <2>7, UsableFrames
    <3> HIDE DEF o
    <3>7. /\ Sound(t, K) /\ t.turns = o.turns + 1
          /\ t.entry = o.entry /\ t.free = o.free /\ t.content = o.content
          /\ (t.starved <=> o.starved) /\ (t.ok <=> o.ok)
      BY <3>5, <3>6, TurnSound
    <3>8. /\ t.entry = m.entry /\ t.free = m.free /\ t.content = m.content
          /\ t.turns = m.turns + 1 /\ t.ok /\ (t.starved <=> m.starved)
      BY <3>5, <3>7
    <3>9. t.turns = s.turns + 1
      BY <2>3, <3>3, <3>8 DEF Aside, Beside
    <3>10. /\ s.starved => t.starved
           /\ t.free \subseteq s.free
           /\ \A f \in Frames : f \notin s.free \ {0} => t.content[f] = s.content[f]
           /\ \A v \in VAs : v # va => t.entry[v] = s.entry[v]
      BY <2>3, <3>3, <3>8 DEF Aside, Beside
    <3>11. \/ t.starved /\ t.entry[va] = s.entry[va]
           \/ t.entry[va] \in Usable /\ t.content[t.entry[va]] = "zero"
      <4>1. CASE m.ok
        <5>1. m.entry[va] = a.page
          BY <3>2, <4>1 DEF MapsPage
        <5>2. a.content[a.page] = "zero" /\ a.page \in Frames /\ a.page \notin a.free
          BY <2>2, <2>5, <2>7, UsableFrames DEF Memories
        <5>3. m.content[a.page] = "zero"
          BY <3>3, <5>2 DEF Beside
        <5> QED
          BY <2>7, <3>8, <5>1, <5>3
      <4>2. CASE ~ m.ok
        BY <2>3, <3>2, <3>8, <4>2 DEF MapsPage
      <4> QED
        BY <4>1, <4>2
    <3> QED
      BY <1>2, <3>7, <3>8, <3>9, <3>10, <3>11 DEF MmapsPage
  <2> QED
    BY <2>4, <2>6, <2>7
<1> QED
  BY <1>1, <1>2

\* What a page of clone_user_pages may do.
ClonesPage(s, t, K, va) ==
    /\ Sound(t, K)
    /\ s.starved => t.starved
    /\ t.src = s.src
    /\ t.free \subseteq s.free
    /\ \A f \in Frames : f \notin s.free \ {0} => t.content[f] = s.content[f]
    /\ \A v \in VAs : v # va => t.entry[v] = s.entry[v]
    /\ ~ s.ok \/ s.src[va] \in {Absent, FB} => t = s
    /\ s.ok /\ s.src[va] \notin {Absent, FB} =>
          \/ ~ t.ok /\ t.starved
          \/ /\ t.ok /\ t.entry[va] \in Usable
             /\ s.src[va] \notin s.free \ {0} => t.content[t.entry[va]] = s.content[s.src[va]]

\* A page of clone_user_pages.
LEMMA ClonePageSound ==
  ASSUME NEW s, NEW K, Sound(s, K), NEW va \in VAs, va # fb, Vacant(s, va),
         NEW t, t = ClonePage(s, va)
  PROVE  ClonesPage(s, t, K, va)
<1> DEFINE a == alloc_page(s)
           c == Fill(a, a.page, a.content[s.src[va]])
           m == map_page(c, va, a.page)
<1>1. CASE ~ s.ok \/ s.src[va] \in {Absent, FB}
  <2>1. t = s
    BY <1>1 DEF ClonePage
  <2> QED
    <3>1. ~ (s.ok /\ s.src[va] \notin {Absent, FB})
      BY <1>1
    <3> QED
      BY <2>1, <3>1 DEF ClonesPage
<1>2. CASE s.ok /\ s.src[va] \notin {Absent, FB}
  <2>1. t = IF a.page = 0 THEN Fail(a) ELSE IF ~ m.ok THEN Return(m, a.page) ELSE m
    <3>1. ~ (~ s.ok \/ s.src[va] = Absent \/ s.src[va] = FB)
      BY <1>2
    <3> QED
      BY <3>1, Zenon DEF ClonePage, Fail, Fill, Return
  <2>2. s \in Memories /\ s.src[va] \in Frames
    <3>1. s \in Memories
      BY DEF Sound
    <3> QED
      BY <1>2, <3>1 DEF Memories, PageTables, Entries
  <2>3. a \in Memories /\ a.entry = s.entry /\ Aside(s, a)
    BY <2>2, AllocIs, AllocAside
  <2>4. \/ a.page = 0 /\ a.starved /\ Sound(a, K)
        \/ a.page \in Usable /\ a.page \notin K /\ Sound(a, K \cup {a.page}) /\ a.page \in s.free
    BY AllocSound
  <2> HIDE DEF a
  <2>6. CASE a.page = 0 /\ a.starved /\ Sound(a, K)
    <3>1. t = Fail(a)
      BY <2>1, <2>6
    <3>2. Sound(t, K) /\ Aside(a, t)
      BY <2>6, <3>1, OkSound
    <3>3. ~ t.ok /\ (t.starved <=> a.starved)
      BY <2>3, <3>1, OkIs
    <3>4. Aside(s, t)
      BY <2>3, <3>2, AsideTwice
    <3> QED
      BY <1>2, <2>6, <3>2, <3>3, <3>4 DEF Aside, ClonesPage
  <2>7. CASE a.page \in Usable /\ a.page \notin K /\ Sound(a, K \cup {a.page}) /\ a.page \in s.free
    <3>1. a.page \in Frames /\ a.content[s.src[va]] \in Contents
      BY <2>2, <2>3, <2>7, UsableFrames DEF Memories
    <3> DEFINE pg == a.page
               x == a.content[s.src[va]]
               L == K \cup {a.page}
    <3>20. Sound(a, L) /\ pg \in Frames /\ x \in Contents /\ c = Fill(a, pg, x)
      BY <2>7, <3>1
    <3> HIDE DEF c, pg, x, L
    <3>21. /\ Sound(c, L) /\ c.content = [a.content EXCEPT ![pg] = x]
           /\ c.entry = a.entry /\ c.free = a.free /\ c.src = a.src /\ c.turns = a.turns
           /\ c.abandoned = a.abandoned /\ (c.starved <=> a.starved) /\ (c.ok <=> a.ok)
      BY <3>20, FillSound, SMTT(20)
    <3>2. /\ Sound(c, K \cup {a.page}) /\ c.content = [a.content EXCEPT ![a.page] = a.content[s.src[va]]]
          /\ c.entry = a.entry /\ c.free = a.free /\ c.src = a.src /\ c.turns = a.turns
          /\ c.abandoned = a.abandoned /\ (c.starved <=> a.starved) /\ (c.ok <=> a.ok)
      BY <3>21 DEF pg, x, L
    <3>3. Vacant(c, va)
      <4>1. Vacant(a, va)
        BY <2>3, VacantAside
      <4> QED
        BY <3>2, <4>1 DEF Vacant
    <3>4. MapsPage(c, m, K, va, a.page)
      BY <2>7, <3>2, <3>3, MapSound
    <3> HIDE DEF m
    <3>5. Beside(c, m, va)
      BY <3>4 DEF MapsPage
    <3>6. a.content \in [Frames -> Contents]
      BY <2>3 DEF Memories
    <3>7. /\ m.free \subseteq s.free /\ m.src = s.src
          /\ \A f \in Frames : f \notin s.free \ {0} => m.content[f] = s.content[f]
          /\ \A v \in VAs : v # va => m.entry[v] = s.entry[v]
      <4>0. /\ a.free \subseteq s.free /\ a.src = s.src /\ (\A v \in VAs : a.entry[v] = s.entry[v])
            /\ m.free \subseteq c.free /\ m.src = c.src /\ (\A v \in VAs : v # va => m.entry[v] = c.entry[v])
        BY <2>3, <3>5, Zenon DEF Aside, Beside
      <4>1. m.free \subseteq s.free /\ m.src = s.src /\ \A v \in VAs : v # va => m.entry[v] = s.entry[v]
        <5>1. c.free = a.free /\ c.src = a.src /\ c.entry = a.entry
          BY <3>2, Zenon
        <5> QED
          BY <4>0, <5>1
      <4>2. ASSUME NEW f \in Frames, f \notin s.free \ {0} PROVE m.content[f] = s.content[f]
        <5>1. a.content[f] = s.content[f] /\ f \notin c.free \ {0} /\ f # a.page
          BY <2>3, <2>7, <3>2, <4>2, UsableFrames DEF Aside
        <5>2. c.content[f] = a.content[f]
          BY <3>2, <3>6, <5>1
        <5> QED
          BY <3>5, <5>1, <5>2 DEF Beside
      <4> QED
        BY <4>1, <4>2
    <3>8. s.starved => m.starved
      BY <2>3, <3>2, <3>5 DEF Aside, Beside
    <3>9. CASE m.ok
      <4>1. t = m /\ Sound(m, K) /\ m.entry[va] = a.page
        BY <2>1, <2>7, <3>4, <3>9, UsableFrames DEF MapsPage
      <4>2. m.content[a.page] = a.content[s.src[va]]
        <5>0. c.content = [a.content EXCEPT ![a.page] = a.content[s.src[va]]] /\ c.free = a.free
          BY <3>2, Zenon
        <5>2. a.page \notin a.free
          BY <2>7 DEF Sound, Apart
        <5>1. a.page \notin c.free \ {0} /\ c.content[a.page] = a.content[s.src[va]]
          BY <3>1, <3>6, <5>0, <5>2
        <5> QED
          BY <3>1, <3>5, <5>1 DEF Beside
      <4>3. s.src[va] \notin s.free \ {0} => a.content[s.src[va]] = s.content[s.src[va]]
        BY <2>2, <2>3 DEF Aside
      <4> QED
        BY <1>2, <2>7, <3>7, <3>8, <3>9, <4>1, <4>2, <4>3 DEF ClonesPage
    <3>10. CASE ~ m.ok
      <4>1. t = Return(m, a.page) /\ Sound(m, K \cup {a.page})
        BY <2>1, <2>7, <3>4, <3>10, UsableFrames DEF MapsPage
      <4>3. m.starved
        BY <3>4, <3>10 DEF MapsPage
      <4> DEFINE r == Return(m, a.page)
      <4>4. /\ Sound(r, K) /\ r.entry = m.entry /\ r.free = m.free \cup {a.page} /\ r.content = m.content
            /\ r.src = m.src /\ r.turns = m.turns /\ r.abandoned = m.abandoned
            /\ (r.starved <=> m.starved) /\ (r.ok <=> m.ok)
        BY <2>7, <4>1, ReturnSound
      <4> HIDE DEF r
      <4>2. /\ Sound(t, K) /\ t.entry = m.entry /\ t.free = m.free \cup {a.page} /\ t.content = m.content
            /\ t.src = m.src /\ (t.starved <=> m.starved) /\ (t.ok <=> m.ok)
        BY <4>1, <4>4 DEF r
      <4> QED
        <5>1. t.free \subseteq s.free /\ t.src = s.src /\ ~ t.ok /\ t.starved
          BY <2>7, <3>7, <3>10, <4>2, <4>3
        <5>2. /\ \A f \in Frames : f \notin s.free \ {0} => t.content[f] = s.content[f]
              /\ \A v \in VAs : v # va => t.entry[v] = s.entry[v]
          BY <3>7, <4>2
        <5> QED
          BY <1>2, <4>2, <5>1, <5>2 DEF ClonesPage
    <3> QED
      BY <3>9, <3>10
  <2> QED
    BY <2>4, <2>6, <2>7
<1> QED
  BY <1>1, <1>2
=============================================================================
