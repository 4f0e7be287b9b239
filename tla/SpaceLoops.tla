----------------------------- MODULE SpaceLoops -----------------------------
(*****************************************************************************)
(* Lemmas about the loops of AddressSpace over a program's pages, its stack, *)
(* the pages of an mmap and the pages of a parent, by induction on the pages; *)
(* then how one space among many changes while the others are set aside.     *)
(*****************************************************************************)
EXTENDS SpaceRoutines

\* What every step of a loop keeps holds at its end.
LEMMA LoopStays ==
  ASSUME NEW N \in Nat, NEW I, NEW r, r[0] \in I[0],
         \A n \in 1 .. N : r[n - 1] \in I[n - 1] => r[n] \in I[n]
  PROVE  r[N] \in I[N]
<1> DEFINE T == {n \in Nat : n <= N => r[n] \in I[n]}
<1>1. 0 \in T
  OBVIOUS
<1>2. ASSUME NEW n \in Nat, n \in T PROVE n + 1 \in T
  <2> SUFFICES ASSUME n + 1 <= N PROVE r[n + 1] \in I[n + 1]
    OBVIOUS
  <2>1. n + 1 \in 1 .. N /\ (n + 1) - 1 = n /\ r[n] \in I[n]
    BY <1>2
  <2> QED
    BY <2>1
<1> HIDE DEF T
<1>3. N \in T
  BY <1>1, <1>2, Induction
<1> QED
  BY <1>3 DEF T

\* The pages of a program are distinct user pages.
LEMMA ImagePagesAre ==
    /\ Len(ImagePages) = IMAGE /\ IMAGE \in Nat
    /\ \A i \in 1 .. IMAGE : ImagePages[i] \in VAs /\ ImagePages[i] # fb
    /\ \A i, j \in 1 .. IMAGE : i # j => ImagePages[i] # ImagePages[j]
<1>1. \A i \in 1 .. IMAGE : ImagePages[i] = <<"image", i>>
  BY DEF ImagePages
<1> QED
  BY <1>1, Lengths, SpaceAssumption, VAsArePages DEF Pages, fb

\* After n pages of load.
Loaded(s, t, K, n) ==
    /\ Sound(t, K)
    /\ s.starved => t.starved
    /\ t.ok \/ t.starved
    /\ \A va \in VAs : (\A i \in 1 .. n : va # ImagePages[i]) => t.entry[va] = s.entry[va]
    /\ t.starved \/ \A i \in 1 .. n : t.entry[ImagePages[i]] # Absent

\* One more page of a program.
LEMMA LoadStep ==
  ASSUME NEW s, NEW t, NEW K, NEW n \in 1 .. IMAGE, Loaded(s, t, K, n - 1),
         \A va \in VAs : va # fb => s.entry[va] = Absent
  PROVE  Loaded(s, LoadPage(t, ImagePages[n]), K, n)
<1> DEFINE va == ImagePages[n]
           u == LoadPage(t, va)
<1>1. va \in VAs /\ va # fb /\ \A i \in 1 .. n - 1 : va # ImagePages[i] /\ i \in 1 .. IMAGE
  BY ImagePagesAre
<1>2. Sound(t, K) /\ t.entry[va] = Absent /\ (t.ok \/ t.starved)
  BY <1>1 DEF Loaded
<1>3. Vacant(t, va)
  BY <1>2 DEF Vacant
<1>4. /\ Sound(u, K) /\ Beside(t, u, va)
      /\ t.ok /\ ~ u.starved => u.ok /\ u.entry[va] # Absent
  BY <1>1, <1>2, <1>3, LoadPageSound
<1> HIDE DEF u
<1>5. /\ t.starved => u.starved
      /\ \A v \in VAs : v # va => u.entry[v] = t.entry[v]
  BY <1>4 DEF Beside
<1>6. u.ok \/ u.starved
  BY <1>2, <1>4, <1>5
<1>7. \A v \in VAs : (\A i \in 1 .. n : v # ImagePages[i]) => u.entry[v] = s.entry[v]
  <2> SUFFICES ASSUME NEW v \in VAs, \A i \in 1 .. n : v # ImagePages[i]
               PROVE  u.entry[v] = s.entry[v]
    OBVIOUS
  <2>1. v # va /\ \A i \in 1 .. n - 1 : v # ImagePages[i]
    BY ImagePagesAre
  <2> QED
    BY <1>5, <2>1 DEF Loaded
<1>8. ASSUME ~ u.starved, NEW i \in 1 .. n PROVE u.entry[ImagePages[i]] # Absent
  <2>1. CASE i = n
    BY <1>2, <1>4, <1>5, <1>8, <2>1
  <2>2. CASE i # n
    <3>1. i \in 1 .. n - 1
      BY <2>2
    <3>2. t.entry[ImagePages[i]] # Absent /\ ImagePages[i] \in VAs /\ ImagePages[i] # va
      BY <1>1, <1>5, <1>8, <3>1, ImagePagesAre DEF Loaded
    <3> QED
      BY <1>5, <3>2
  <2> QED
    BY <2>1, <2>2
<1>9. s.starved => u.starved
  BY <1>5 DEF Loaded
<1>10. Loaded(s, u, K, n)
  BY <1>4, <1>6, <1>7, <1>8, <1>9 DEF Loaded
<1> QED
  BY <1>10 DEF u

\* elf::load of a program of any length.
LEMMA LoadSound ==
  ASSUME NEW s, NEW K, Sound(s, K), s.ok \/ s.starved,
         \A va \in VAs : va # fb => s.entry[va] = Absent
  PROVE  Loaded(s, load(s), K, IMAGE)
<1> DEFINE I == [n \in 0 .. IMAGE |-> {t \in Memories : Loaded(s, t, K, n)}]
           G == [n \in 1 .. IMAGE |-> [t \in I[n - 1] |-> LoadPage(t, ImagePages[n])]]
           Runs(r) == r = [n \in 0 .. IMAGE |-> IF n = 0 THEN s ELSE LoadPage(r[n - 1], ImagePages[n])]
           done == CHOOSE r : Runs(r)
<1>0. IMAGE \in Nat
  BY ImagePagesAre
<1>1. s \in I[0]
  BY <1>0, ImagePagesAre DEF Loaded, Sound
<1>2. \A n \in 1 .. IMAGE : \A t \in I[n - 1] : LoadPage(t, ImagePages[n]) \in I[n]
  <2> SUFFICES ASSUME NEW n \in 1 .. IMAGE, NEW t \in I[n - 1]
               PROVE  LoadPage(t, ImagePages[n]) \in I[n]
    OBVIOUS
  <2>1. n - 1 \in 0 .. IMAGE /\ n \in 0 .. IMAGE
    BY <1>0
  <2>2. Loaded(s, t, K, n - 1)
    BY <2>1
  <2>3. Loaded(s, LoadPage(t, ImagePages[n]), K, n)
    BY <2>2, LoadStep
  <2> QED
    BY <2>1, <2>3 DEF Loaded, Sound
<1>3. \A n \in 1 .. IMAGE : \A t \in I[n - 1] : G[n][t] = LoadPage(t, ImagePages[n])
  OBVIOUS
<1> HIDE DEF I, G
<1>4. PICK r : Repeats(r, IMAGE, s, G) /\ \A n \in 0 .. IMAGE : r[n] \in I[n]
  <2>1. \A n \in 1 .. IMAGE : \A t \in I[n - 1] : G[n][t] \in I[n]
    BY <1>2, <1>3
  <2> QED
    BY <1>0, <1>1, <2>1, LoopExists
<1>5. Runs(r)
  <2>1. \A n \in 1 .. IMAGE : n - 1 \in 0 .. IMAGE
    BY <1>0
  <2>2. \A n \in 0 .. IMAGE : n # 0 => G[n][r[n - 1]] = LoadPage(r[n - 1], ImagePages[n])
    BY <1>0, <1>3, <1>4, <2>1
  <2> QED
    BY <1>4, <2>2 DEF Repeats
<1>6. Runs(done)
  BY <1>5
<1>7. load(s) = done[IMAGE]
  BY ImagePagesAre DEF load, ForEach
<1> HIDE DEF done
<1>8. done[IMAGE] \in I[IMAGE]
  <2>1. done[0] \in I[0]
    BY <1>0, <1>1, <1>6
  <2>2. \A n \in 1 .. IMAGE : done[n - 1] \in I[n - 1] => done[n] \in I[n]
    BY <1>0, <1>2, <1>6
  <2> QED
    BY <1>0, <2>1, <2>2, LoopStays
<1> QED
  BY <1>0, <1>7, <1>8 DEF I

\* The pages of a stack are distinct user pages.
LEMMA StackPagesAre ==
    /\ Len(StackPages) = STACK /\ STACK \in Nat
    /\ \A i \in 1 .. STACK : StackPages[i] \in VAs /\ StackPages[i] # fb
    /\ \A i, j \in 1 .. STACK : i # j => StackPages[i] # StackPages[j]
<1>1. \A i \in 1 .. STACK : StackPages[i] = <<"stack", i>>
  BY DEF StackPages
<1> QED
  BY <1>1, Lengths, SpaceAssumption, VAsArePages DEF Pages, fb

\* After n pages of create_user_stack.
Stacked(s, t, K, n) ==
    /\ Sound(t, K)
    /\ s.starved => t.starved
    /\ \A va \in VAs : (\A i \in 1 .. n : va # StackPages[i]) => t.entry[va] = s.entry[va]
    /\ t.starved \/ \A i \in 1 .. n : t.entry[StackPages[i]] # Absent

\* One more page of a stack.
LEMMA StackStep ==
  ASSUME NEW s, NEW t, NEW K, NEW n \in 1 .. STACK, Stacked(s, t, K, n - 1),
         \A i \in 1 .. STACK : s.entry[StackPages[i]] = Absent
  PROVE  Stacked(s, StackPage(t, StackPages[n]), K, n)
<1> DEFINE va == StackPages[n]
           u == StackPage(t, va)
<1>1. va \in VAs /\ va # fb /\ \A i \in 1 .. n - 1 : va # StackPages[i] /\ i \in 1 .. STACK
  BY StackPagesAre
<1>2. Sound(t, K) /\ t.entry[va] = Absent
  BY <1>1 DEF Stacked
<1>3. Vacant(t, va)
  BY <1>2 DEF Vacant
<1>4. StacksPage(t, u, K, va)
  BY <1>1, <1>2, <1>3, StackPageSound
<1> HIDE DEF u
<1>5. /\ t.starved => u.starved
      /\ \A v \in VAs : v # va => u.entry[v] = t.entry[v]
  BY <1>4 DEF StacksPage
<1>7. \A v \in VAs : (\A i \in 1 .. n : v # StackPages[i]) => u.entry[v] = s.entry[v]
  <2> SUFFICES ASSUME NEW v \in VAs, \A i \in 1 .. n : v # StackPages[i]
               PROVE  u.entry[v] = s.entry[v]
    OBVIOUS
  <2>1. v # va /\ \A i \in 1 .. n - 1 : v # StackPages[i]
    BY StackPagesAre
  <2> QED
    BY <1>5, <2>1 DEF Stacked
<1>8. ASSUME ~ u.starved, NEW i \in 1 .. n PROVE u.entry[StackPages[i]] # Absent
  <2>1. CASE i = n
    BY <1>4, <1>8, <2>1 DEF StacksPage
  <2>2. CASE i # n
    <3>1. i \in 1 .. n - 1
      BY <2>2
    <3>2. t.entry[StackPages[i]] # Absent /\ StackPages[i] \in VAs /\ StackPages[i] # va
      BY <1>1, <1>5, <1>8, <3>1, StackPagesAre DEF Stacked
    <3> QED
      BY <1>5, <3>2
  <2> QED
    BY <2>1, <2>2
<1>9. s.starved => u.starved
  BY <1>5 DEF Stacked
<1>10. Stacked(s, u, K, n)
  BY <1>4, <1>7, <1>8, <1>9 DEF Stacked, StacksPage
<1> QED
  BY <1>10 DEF u

\* create_user_stack, for a stack of any length.
LEMMA StackSound ==
  ASSUME NEW s, NEW K, Sound(s, K),
         \A i \in 1 .. STACK : s.entry[StackPages[i]] = Absent
  PROVE  Stacked(s, create_user_stack(s), K, STACK)
<1> DEFINE I == [n \in 0 .. STACK |-> {t \in Memories : Stacked(s, t, K, n)}]
           G == [n \in 1 .. STACK |-> [t \in I[n - 1] |-> StackPage(t, StackPages[n])]]
           Runs(r) == r = [n \in 0 .. STACK |-> IF n = 0 THEN s ELSE StackPage(r[n - 1], StackPages[n])]
           done == CHOOSE r : Runs(r)
<1>0. STACK \in Nat
  BY StackPagesAre
<1>1. s \in I[0]
  BY <1>0, StackPagesAre DEF Stacked, Sound
<1>2. \A n \in 1 .. STACK : \A t \in I[n - 1] : StackPage(t, StackPages[n]) \in I[n]
  <2> SUFFICES ASSUME NEW n \in 1 .. STACK, NEW t \in I[n - 1]
               PROVE  StackPage(t, StackPages[n]) \in I[n]
    OBVIOUS
  <2>1. n - 1 \in 0 .. STACK /\ n \in 0 .. STACK
    BY <1>0
  <2>2. Stacked(s, t, K, n - 1)
    BY <2>1
  <2>3. Stacked(s, StackPage(t, StackPages[n]), K, n)
    BY <2>2, StackStep
  <2> QED
    BY <2>1, <2>3 DEF Stacked, Sound
<1>3. \A n \in 1 .. STACK : \A t \in I[n - 1] : G[n][t] = StackPage(t, StackPages[n])
  OBVIOUS
<1> HIDE DEF I, G
<1>4. PICK r : Repeats(r, STACK, s, G) /\ \A n \in 0 .. STACK : r[n] \in I[n]
  <2>1. \A n \in 1 .. STACK : \A t \in I[n - 1] : G[n][t] \in I[n]
    BY <1>2, <1>3
  <2> QED
    BY <1>0, <1>1, <2>1, LoopExists
<1>5. Runs(r)
  <2>1. \A n \in 1 .. STACK : n - 1 \in 0 .. STACK
    BY <1>0
  <2>2. \A n \in 0 .. STACK : n # 0 => G[n][r[n - 1]] = StackPage(r[n - 1], StackPages[n])
    BY <1>0, <1>3, <1>4, <2>1
  <2> QED
    BY <1>4, <2>2 DEF Repeats
<1>6. Runs(done)
  BY <1>5
<1>7. create_user_stack(s) = done[STACK]
  BY StackPagesAre DEF create_user_stack, ForEach
<1> HIDE DEF done
<1>8. done[STACK] \in I[STACK]
  <2>1. done[0] \in I[0]
    BY <1>0, <1>1, <1>6
  <2>2. \A n \in 1 .. STACK : done[n - 1] \in I[n - 1] => done[n] \in I[n]
    BY <1>0, <1>2, <1>6
  <2> QED
    BY <1>0, <2>1, <2>2, LoopStays
<1> QED
  BY <1>0, <1>7, <1>8 DEF I

\* Pages that sys_mmap may map in s.
MapsInto(s, pages, N) ==
    /\ N \in Nat /\ pages = [i \in 1 .. N |-> pages[i]] /\ Len(pages) = N
    /\ \A i \in 1 .. N : pages[i] \in VAs /\ pages[i] # fb /\ Vacant(s, pages[i])
    /\ \A i, j \in 1 .. N : i # j => pages[i] # pages[j]

\* After n turns of the loop of sys_mmap.
Mmapped(s, t, K, pages, n) ==
    /\ Sound(t, K)
    /\ s.starved => t.starved
    /\ t.turns \in s.turns .. s.turns + n
    /\ \A va \in VAs : (\A i \in 1 .. n : va # pages[i]) => t.entry[va] = s.entry[va]
    /\ t.starved \/ (t.ok /\ t.turns = s.turns + n)
    /\ t.starved \/ \A i \in 1 .. n : t.entry[pages[i]] # Absent
    /\ \A i \in 1 .. n : \/ t.entry[pages[i]] = s.entry[pages[i]]
                         \/ t.entry[pages[i]] \in Usable /\ t.content[t.entry[pages[i]]] = "zero"

\* One more turn of sys_mmap's loop.
LEMMA MmapStep ==
  ASSUME NEW s \in Memories, NEW t, NEW K, NEW pages, NEW N, MapsInto(s, pages, N), NEW n \in 1 .. N,
         Mmapped(s, t, K, pages, n - 1)
  PROVE  Mmapped(s, MmapPage(t, pages[n]), K, pages, n)
<1> DEFINE va == pages[n]
           u == MmapPage(t, va)
<1>0. N \in Nat /\ n \in Nat /\ n - 1 \in Nat
  BY DEF MapsInto
<1>1. va \in VAs /\ va # fb /\ Vacant(s, va) /\ \A i \in 1 .. n - 1 : va # pages[i] /\ i \in 1 .. N
  BY <1>0 DEF MapsInto
<1>2. Sound(t, K) /\ t.entry[va] = s.entry[va] /\ (s.starved => t.starved)
  BY <1>1 DEF Mmapped
<1>3. Vacant(t, va)
  BY <1>1, <1>2 DEF Vacant
<1>4. MmapsPage(t, u, K, va)
  BY <1>1, <1>2, <1>3, MmapPageSound
<1> HIDE DEF u
<1>5. /\ Sound(u, K)
      /\ t.starved => u.starved
      /\ \A v \in VAs : v # va => u.entry[v] = t.entry[v]
  BY <1>4 DEF MmapsPage
<1>6. t.turns \in Nat /\ s.turns \in Nat /\ t.turns \in s.turns .. s.turns + (n - 1)
  BY <1>2 DEF Sound, Memories, Mmapped
<1>7. u.turns = t.turns \/ u.turns = t.turns + 1
  BY <1>4 DEF MmapsPage
<1>8. u.turns \in s.turns .. s.turns + n
  BY <1>0, <1>6, <1>7
<1>9. \A v \in VAs : (\A i \in 1 .. n : v # pages[i]) => u.entry[v] = s.entry[v]
  <2> SUFFICES ASSUME NEW v \in VAs, \A i \in 1 .. n : v # pages[i]
               PROVE  u.entry[v] = s.entry[v]
    OBVIOUS
  <2>1. v # va /\ \A i \in 1 .. n - 1 : v # pages[i]
    BY <1>0
  <2> QED
    BY <1>5, <2>1 DEF Mmapped
<1>10. ASSUME ~ u.starved PROVE u.ok /\ u.turns = s.turns + n /\ u.entry[va] # Absent
  <2>1. ~ t.starved /\ t.ok /\ t.turns = s.turns + (n - 1)
    BY <1>5, <1>10 DEF Mmapped
  <2>2. u.ok /\ u.turns = t.turns + 1 /\ u.entry[va] \in Usable
    BY <1>4, <1>10, <2>1 DEF MmapsPage
  <2> QED
    BY <1>0, <1>6, <2>1, <2>2, UsableFrames
<1>11. ASSUME ~ u.starved, NEW i \in 1 .. n PROVE u.entry[pages[i]] # Absent
  <2>1. CASE i = n
    BY <1>10, <1>11, <2>1
  <2>2. CASE i # n
    <3>1. i \in 1 .. n - 1
      BY <1>0, <2>2
    <3>2. t.entry[pages[i]] # Absent /\ pages[i] \in VAs /\ pages[i] # va
      BY <1>1, <1>5, <1>11, <3>1 DEF Mmapped, MapsInto
    <3> QED
      BY <1>5, <3>2
  <2> QED
    BY <2>1, <2>2
<1>12. ASSUME NEW i \in 1 .. n
       PROVE  \/ u.entry[pages[i]] = s.entry[pages[i]]
              \/ u.entry[pages[i]] \in Usable /\ u.content[u.entry[pages[i]]] = "zero"
  <2>1. CASE i = n
    <3>1. CASE t.ok
      BY <1>2, <1>4, <2>1, <3>1 DEF MmapsPage
    <3>2. CASE ~ t.ok
      BY <1>2, <1>4, <2>1, <3>2 DEF MmapsPage
    <3> QED
      BY <3>1, <3>2
  <2>2. CASE i # n
    <3>1. i \in 1 .. n - 1
      BY <1>0, <2>2
    <3>2. pages[i] \in VAs /\ pages[i] # va
      BY <1>1, <3>1 DEF MapsInto
    <3>3. u.entry[pages[i]] = t.entry[pages[i]]
      BY <1>5, <3>2
    <3>4. \/ t.entry[pages[i]] = s.entry[pages[i]]
          \/ t.entry[pages[i]] \in Usable /\ t.content[t.entry[pages[i]]] = "zero"
      BY <3>1 DEF Mmapped
    <3>5. ASSUME t.entry[pages[i]] \in Usable
          PROVE  u.content[t.entry[pages[i]]] = t.content[t.entry[pages[i]]]
      <4>1. t.entry[pages[i]] \in Frames /\ t.entry[pages[i]] \notin t.free
        BY <1>2, <3>2, <3>5, UsableFrames DEF Sound, Apart, Entries
      <4> QED
        BY <1>4, <4>1 DEF MmapsPage
    <3> QED
      BY <3>3, <3>4, <3>5
  <2> QED
    BY <2>1, <2>2
<1>13. s.starved => u.starved
  BY <1>5 DEF Mmapped
<1>14. Mmapped(s, u, K, pages, n)
  <2>1. u.starved \/ (u.ok /\ u.turns = s.turns + n)
    BY <1>10
  <2>2. u.starved \/ \A i \in 1 .. n : u.entry[pages[i]] # Absent
    BY <1>11
  <2>3. \A i \in 1 .. n : \/ u.entry[pages[i]] = s.entry[pages[i]]
                          \/ u.entry[pages[i]] \in Usable /\ u.content[u.entry[pages[i]]] = "zero"
    BY <1>12
  <2> QED
    BY <1>5, <1>8, <1>9, <1>13, <2>1, <2>2, <2>3, Zenon DEF Mmapped
<1> QED
  BY <1>14 DEF u

\* sys_mmap's loop, for any number of pages.
LEMMA MmapSound ==
  ASSUME NEW s, NEW K, Sound(s, K), s.ok, NEW pages, NEW N, MapsInto(s, pages, N)
  PROVE  Mmapped(s, ForEach(MmapPage, s, pages), K, pages, N)
<1>9. s \in Memories /\ Len(pages) = N
  BY DEF Sound, MapsInto
<1> DEFINE I == [n \in 0 .. N |-> {t \in Memories : Mmapped(s, t, K, pages, n)}]
           G == [n \in 1 .. N |-> [t \in I[n - 1] |-> MmapPage(t, pages[n])]]
           Runs(r) == r = [n \in 0 .. N |-> IF n = 0 THEN s ELSE MmapPage(r[n - 1], pages[n])]
           done == CHOOSE r : Runs(r)
<1>0. N \in Nat
  BY DEF MapsInto
<1>1. s \in I[0]
  <2>1. s.turns \in Nat /\ 0 \in 0 .. N
    BY <1>0, <1>9 DEF Memories
  <2>2. s.turns \in s.turns .. s.turns + 0 /\ s.turns = s.turns + 0
    BY <2>1
  <2>3. Mmapped(s, s, K, pages, 0)
    BY <2>2 DEF Mmapped
  <2> QED
    BY <1>9, <2>1, <2>3
<1>2. \A n \in 1 .. N : \A t \in I[n - 1] : MmapPage(t, pages[n]) \in I[n]
  <2> SUFFICES ASSUME NEW n \in 1 .. N, NEW t \in I[n - 1]
               PROVE  MmapPage(t, pages[n]) \in I[n]
    OBVIOUS
  <2>1. n - 1 \in 0 .. N /\ n \in 0 .. N
    BY <1>0
  <2>2. Mmapped(s, t, K, pages, n - 1)
    BY <2>1
  <2>3. Mmapped(s, MmapPage(t, pages[n]), K, pages, n)
    BY <2>2, <1>9, MmapStep
  <2> QED
    BY <2>1, <2>3 DEF Mmapped, Sound
<1>3. \A n \in 1 .. N : \A t \in I[n - 1] : G[n][t] = MmapPage(t, pages[n])
  OBVIOUS
<1> HIDE DEF I, G
<1>4. PICK r : Repeats(r, N, s, G) /\ \A n \in 0 .. N : r[n] \in I[n]
  <2>1. \A n \in 1 .. N : \A t \in I[n - 1] : G[n][t] \in I[n]
    BY <1>2, <1>3
  <2> QED
    BY <1>0, <1>1, <2>1, LoopExists
<1>5. Runs(r)
  <2>1. \A n \in 1 .. N : n - 1 \in 0 .. N
    BY <1>0
  <2>2. \A n \in 0 .. N : n # 0 => G[n][r[n - 1]] = MmapPage(r[n - 1], pages[n])
    BY <1>0, <1>3, <1>4, <2>1
  <2> QED
    BY <1>4, <2>2 DEF Repeats
<1>6. Runs(done)
  BY <1>5
<1>7. ForEach(MmapPage, s, pages) = done[N]
  BY <1>9 DEF ForEach
<1> HIDE DEF done
<1>8. done[N] \in I[N]
  <2>1. done[0] \in I[0]
    BY <1>0, <1>1, <1>6
  <2>2. \A n \in 1 .. N : done[n - 1] \in I[n - 1] => done[n] \in I[n]
    BY <1>0, <1>2, <1>6
  <2> QED
    BY <1>0, <2>1, <2>2, LoopStays
<1> QED
  BY <1>0, <1>7, <1>8 DEF I

NUSER == IMAGE + MMAP + 1 + STACK

\* The loops meet no user page twice.
LEMMA UserPagesDistinct ==
    /\ Len(UserPages) = NUSER /\ NUSER \in Nat
    /\ VAs = {UserPages[i] : i \in 1 .. NUSER}
    /\ \A i, j \in 1 .. NUSER : i # j => UserPages[i] # UserPages[j]
<1>1. IMAGE \in Nat /\ MMAP \in Nat /\ STACK \in Nat
  BY SpaceAssumption
<1>2. Len(UserPages) = NUSER /\ NUSER \in Nat
  BY <1>1, UserPagesAre DEF NUSER
<1>3. VAs = {UserPages[i] : i \in 1 .. NUSER}
  BY <1>2 DEF VAs, Elements
<1> DEFINE kind(i) == IF i <= IMAGE THEN "image" ELSE IF i <= IMAGE + MMAP THEN "mmap"
                      ELSE IF i = IMAGE + MMAP + 1 THEN "fb" ELSE "stack"
           at(i) == IF i <= IMAGE THEN i ELSE IF i <= IMAGE + MMAP THEN i - IMAGE
                    ELSE IF i = IMAGE + MMAP + 1 THEN 0 ELSE i - IMAGE - MMAP - 1
<1>4. \A i \in 1 .. NUSER : UserPages[i] = <<kind(i), at(i)>>
  <2> SUFFICES ASSUME NEW i \in 1 .. NUSER PROVE UserPages[i] = <<kind(i), at(i)>>
    OBVIOUS
  <2>1. UserPages[i] = IF i <= IMAGE THEN <<"image", i>>
                        ELSE IF i <= IMAGE + MMAP THEN <<"mmap", i - IMAGE>>
                        ELSE IF i = IMAGE + MMAP + 1 THEN fb
                        ELSE <<"stack", i - IMAGE - MMAP - 1>>
    BY <1>2, UserPagesAre
  <2> QED
    BY <2>1 DEF fb
<1>5. \A i, j \in 1 .. NUSER : kind(i) = kind(j) /\ at(i) = at(j) => i = j
  BY <1>1 DEF NUSER
<1> HIDE DEF kind, at
<1> QED
  BY <1>2, <1>3, <1>4, <1>5

\* What clone_user_pages finds: a new space, and the space of the parent,
\* whose frames are not in the pool.
ClonesInto(s, K) ==
    /\ Sound(s, K) /\ s.ok
    /\ \A va \in VAs : va # fb => s.entry[va] = Absent
    /\ \A va \in VAs : s.src[va] \in Usable => s.src[va] \in K

\* A page of the child is a copy of the parent's.
Copied(s, t, va) ==
    IF s.src[va] \in {Absent, FB} THEN t.entry[va] = s.entry[va]
    ELSE t.entry[va] \in Usable /\ t.content[t.entry[va]] = s.content[s.src[va]]

\* After n pages of clone_user_pages.
Cloned(s, t, K, n) ==
    /\ Sound(t, K)
    /\ s.starved => t.starved
    /\ t.src = s.src
    /\ t.free \subseteq s.free
    /\ t.ok \/ t.starved
    /\ \A f \in Frames : f \notin s.free \ {0} => t.content[f] = s.content[f]
    /\ \A va \in VAs : (\A i \in 1 .. n : va # UserPages[i]) => t.entry[va] = s.entry[va]
    /\ t.ok => \A i \in 1 .. n : Copied(s, t, UserPages[i])

\* One more page of the parent.
LEMMA CloneStep ==
  ASSUME NEW s, NEW t, NEW K, ClonesInto(s, K), NEW n \in 1 .. NUSER, Cloned(s, t, K, n - 1)
  PROVE  Cloned(s, ClonePage(t, UserPages[n]), K, n)
<1> DEFINE va == UserPages[n]
           u == ClonePage(t, va)
<1>0. NUSER \in Nat /\ n \in Nat /\ n - 1 \in Nat
  BY UserPagesDistinct
<1>1. va \in VAs /\ \A i \in 1 .. n - 1 : va # UserPages[i] /\ i \in 1 .. NUSER /\ UserPages[i] \in VAs
  BY UserPagesDistinct
<1>2. Sound(t, K) /\ t.entry[va] = s.entry[va] /\ t.src = s.src /\ t.free \subseteq s.free
  BY <1>1 DEF Cloned
<1>3. t \in Memories /\ s \in Memories /\ Sound(s, K) /\ s.ok
  BY <1>2 DEF ClonesInto, Sound
<1>4. ClonesPage(t, u, K, va)
  <2>1. CASE va = fb
    <3>1. t.src[va] \in {Absent, FB}
      BY <1>3, <2>1 DEF Memories, PageTables
    <3>2. u = t
      BY <3>1 DEF ClonePage
    <3> QED
      BY <1>2, <3>1, <3>2 DEF ClonesPage
  <2>2. CASE va # fb
    <3>1. Vacant(t, va)
      BY <1>1, <1>2, <2>2 DEF Vacant, ClonesInto
    <3> QED
      BY <1>1, <1>2, <2>2, <3>1, ClonePageSound
  <2> QED
    BY <2>1, <2>2
<1> HIDE DEF u
<1>5. /\ Sound(u, K) /\ u.src = t.src /\ u.free \subseteq t.free
      /\ \A f \in Frames : f \notin t.free \ {0} => u.content[f] = t.content[f]
      /\ \A v \in VAs : v # va => u.entry[v] = t.entry[v]
  BY <1>4 DEF ClonesPage
<1>6. t.starved => u.starved
  BY <1>4 DEF ClonesPage
<1>7. u.ok \/ u.starved
  <2>1. t.ok \/ t.starved
    BY DEF Cloned
  <2>2. CASE ~ t.ok \/ t.src[va] \in {Absent, FB}
    BY <1>4, <2>1, <2>2 DEF ClonesPage
  <2>3. CASE t.ok /\ t.src[va] \notin {Absent, FB}
    BY <1>4, <2>3 DEF ClonesPage
  <2> QED
    BY <2>2, <2>3
<1>8. \A f \in Frames : f \notin s.free \ {0} => u.content[f] = s.content[f]
  BY <1>2, <1>5 DEF Cloned
<1>9. \A v \in VAs : (\A i \in 1 .. n : v # UserPages[i]) => u.entry[v] = s.entry[v]
  <2> SUFFICES ASSUME NEW v \in VAs, \A i \in 1 .. n : v # UserPages[i]
               PROVE  u.entry[v] = s.entry[v]
    OBVIOUS
  <2>1. v # va /\ \A i \in 1 .. n - 1 : v # UserPages[i]
    BY <1>0
  <2> QED
    BY <1>5, <2>1 DEF Cloned
<1>10. ASSUME u.ok, NEW i \in 1 .. n PROVE Copied(s, u, UserPages[i])
  <2>0. t.ok
    BY <1>4, <1>10 DEF ClonesPage
  <2>1. CASE i = n
    <3>1. CASE s.src[va] \in {Absent, FB}
      <4>1. u = t
        BY <1>2, <1>4, <3>1 DEF ClonesPage
      <4> QED
        BY <1>2, <2>1, <3>1, <4>1 DEF Copied
    <3>2. CASE s.src[va] \notin {Absent, FB}
      <4>1. s.src[va] \in Frames
        BY <1>1, <1>3, <3>2 DEF Memories, PageTables, Entries
      <4>2. s.src[va] \notin t.free \ {0}
        <5>1. s.src[va] \in Usable \/ s.src[va] = 0
          BY <4>1, SpaceAssumption DEF Frames, Usable
        <5>2. s.src[va] \in Usable => s.src[va] \in K
          BY <1>1 DEF ClonesInto
        <5>3. \A f \in K : f \notin t.free
          BY <1>2 DEF Sound, Apart
        <5> QED
          BY <5>1, <5>2, <5>3
      <4>3. s.src[va] \notin s.free \ {0}
        BY <1>1, <1>3, <4>1, UsableFrames, SpaceAssumption DEF ClonesInto, Sound, Apart, Frames, Usable
      <4>4. u.entry[va] \in Usable /\ u.content[u.entry[va]] = t.content[s.src[va]]
        BY <1>2, <1>4, <1>10, <2>0, <3>2, <4>2 DEF ClonesPage
      <4>5. t.content[s.src[va]] = s.content[s.src[va]]
        BY <4>1, <4>3 DEF Cloned
      <4> QED
        BY <2>1, <3>2, <4>4, <4>5 DEF Copied
    <3> QED
      BY <3>1, <3>2
  <2>2. CASE i # n
    <3> DEFINE v == UserPages[i]
    <3>1. i \in 1 .. n - 1
      BY <1>0, <2>2
    <3>2. v \in VAs /\ v # va /\ Copied(s, t, v)
      BY <1>1, <2>0, <3>1 DEF Cloned
    <3> HIDE DEF v
    <3>3. u.entry[v] = t.entry[v]
      BY <1>5, <3>2
    <3>4. ASSUME t.entry[v] \in Usable PROVE u.content[t.entry[v]] = t.content[t.entry[v]]
      <4>1. t.entry[v] \in Frames /\ t.entry[v] \notin t.free
        BY <1>2, <3>2, <3>4, UsableFrames DEF Sound, Apart, Entries
      <4> QED
        BY <1>5, <4>1
    <3>5. Copied(s, u, v)
      BY <3>2, <3>3, <3>4 DEF Copied
    <3> QED
      BY <3>5 DEF v
  <2> QED
    BY <2>1, <2>2
<1>11. s.starved => u.starved
  BY <1>6 DEF Cloned
<1>12. u.src = s.src /\ u.free \subseteq s.free
  BY <1>2, <1>5
<1>13. u.ok => \A i \in 1 .. n : Copied(s, u, UserPages[i])
  BY <1>10
<1>14. Cloned(s, u, K, n)
  BY <1>5, <1>7, <1>8, <1>9, <1>11, <1>12, <1>13 DEF Cloned
<1> QED
  BY <1>14 DEF u

\* clone_user_pages of all user pages.
LEMMA CloneSound ==
  ASSUME NEW s, NEW K, ClonesInto(s, K)
  PROVE  Cloned(s, ForEach(ClonePage, s, UserPages), K, NUSER)
<1> DEFINE I == [n \in 0 .. NUSER |-> {t \in Memories : Cloned(s, t, K, n)}]
           G == [n \in 1 .. NUSER |-> [t \in I[n - 1] |-> ClonePage(t, UserPages[n])]]
           Runs(r) == r = [n \in 0 .. NUSER |-> IF n = 0 THEN s ELSE ClonePage(r[n - 1], UserPages[n])]
           done == CHOOSE r : Runs(r)
<1>0. NUSER \in Nat
  BY UserPagesDistinct
<1>1. s \in I[0]
  BY <1>0, UserPagesDistinct DEF Cloned, ClonesInto, Sound
<1>2. \A n \in 1 .. NUSER : \A t \in I[n - 1] : ClonePage(t, UserPages[n]) \in I[n]
  <2> SUFFICES ASSUME NEW n \in 1 .. NUSER, NEW t \in I[n - 1]
               PROVE  ClonePage(t, UserPages[n]) \in I[n]
    OBVIOUS
  <2>1. n - 1 \in 0 .. NUSER /\ n \in 0 .. NUSER
    BY <1>0
  <2>2. Cloned(s, t, K, n - 1)
    BY <2>1
  <2>3. Cloned(s, ClonePage(t, UserPages[n]), K, n)
    BY <2>2, CloneStep
  <2> QED
    BY <2>1, <2>3 DEF Cloned, Sound
<1>3. \A n \in 1 .. NUSER : \A t \in I[n - 1] : G[n][t] = ClonePage(t, UserPages[n])
  OBVIOUS
<1> HIDE DEF I, G
<1>4. PICK r : Repeats(r, NUSER, s, G) /\ \A n \in 0 .. NUSER : r[n] \in I[n]
  <2>1. \A n \in 1 .. NUSER : \A t \in I[n - 1] : G[n][t] \in I[n]
    BY <1>2, <1>3
  <2> QED
    BY <1>0, <1>1, <2>1, LoopExists
<1>5. Runs(r)
  <2>1. \A n \in 1 .. NUSER : n - 1 \in 0 .. NUSER
    BY <1>0
  <2>2. \A n \in 0 .. NUSER : n # 0 => G[n][r[n - 1]] = ClonePage(r[n - 1], UserPages[n])
    BY <1>0, <1>3, <1>4, <2>1
  <2> QED
    BY <1>4, <2>2 DEF Repeats
<1>6. Runs(done)
  BY <1>5
<1>7. ForEach(ClonePage, s, UserPages) = done[NUSER]
  BY UserPagesDistinct DEF ForEach
<1> HIDE DEF done
<1>8. done[NUSER] \in I[NUSER]
  <2>1. done[0] \in I[0]
    BY <1>0, <1>1, <1>6
  <2>2. \A n \in 1 .. NUSER : done[n - 1] \in I[n - 1] => done[n] \in I[n]
    BY <1>0, <1>2, <1>6
  <2> QED
    BY <1>0, <2>1, <2>2, LoopStays
<1> QED
  BY <1>0, <1>7, <1>8 DEF I

----------------------------------------------------------------------------
\* The frames of all spaces but that of p.
Rest(sp, p) == {f \in Usable : \E q \in Procs : q # p /\ \E x \in Entries : sp[q][x] = f}

SpacesTyped ==
    /\ free \in SUBSET Frames
    /\ content \in [Frames -> Contents]
    /\ space \in [Procs -> PageTables]
    /\ state \in [Procs -> {"none", "run", "dead"}]
    /\ mmap_next \in [Procs -> 0 .. MMAP]
    /\ abandoned \in SUBSET Usable
    /\ starved \in BOOLEAN

\* Whatever space is at hand, the rest of memory is apart from it.
SpacesApart ==
    \A p \in Procs :
        /\ Apart(space[p], Rest(space, p), free, abandoned)
        /\ starved \/ NoLeak(space[p], Rest(space, p), free, abandoned)

\* A space with its program, its stack and the first n pages of mmap.
Full(e, n) ==
    \A va \in VAs : e[va] = Absent <=> \E i \in n + 1 .. MMAP : va = <<"mmap", i>>

SpacesFull ==
    \A p \in Procs :
        /\ state[p] = "none" => space[p] = NoSpace
        /\ Running(p) => space[p][fb] = FB
        /\ Running(p) /\ ~ starved => Full(space[p], mmap_next[p])

SpacesInv == SpacesTyped /\ SpacesApart /\ SpacesFull

AllApart(sp, fr, ab) == \A q \in Procs : Apart(sp[q], Rest(sp, q), fr, ab)

\* The space of p changes from sp[p] to e.
LEMMA CommitApart ==
  ASSUME NEW sp \in [Procs -> PageTables], NEW p \in Procs, NEW e \in PageTables,
         NEW fr, NEW ab, AllApart(sp, fr, ab),
         NEW fr1, NEW ab1, Apart(e, Rest(sp, p), fr1, ab1),
         NEW sp1, sp1 = [sp EXCEPT ![p] = e], NEW q \in Procs
  PROVE  /\ Apart(sp1[q], Rest(sp1, q), fr1, ab1)
         /\ NoLeak(e, Rest(sp, p), fr1, ab1) => NoLeak(sp1[q], Rest(sp1, q), fr1, ab1)
<1>1. \A r \in Procs : sp1[r] = IF r = p THEN e ELSE sp[r]
  OBVIOUS
<1>2. CASE q = p
  <2>1. Rest(sp1, p) = Rest(sp, p) /\ sp1[p] = e
    BY <1>1 DEF Rest
  <2> QED
    BY <1>2, <2>1
<1>3. CASE q # p
  <2>0. sp1[q] = sp[q]
    BY <1>1, <1>3
  <2>1. \A f \in Rest(sp1, q) : f \in Usable /\ (f \in Rest(sp, q) \/ \E x \in Entries : e[x] = f)
    <3> SUFFICES ASSUME NEW f \in Rest(sp1, q)
                 PROVE  f \in Usable /\ (f \in Rest(sp, q) \/ \E x \in Entries : e[x] = f)
      OBVIOUS
    <3>1. f \in Usable
      BY DEF Rest
    <3>2. PICK r \in Procs : r # q /\ \E x \in Entries : sp1[r][x] = f
      BY DEF Rest
    <3> QED
      BY <1>1, <3>1, <3>2 DEF Rest
  <2>2. \A x \in Entries : sp[q][x] \in Usable => sp[q][x] \in Rest(sp, p)
    BY <1>3 DEF Rest
  <2>3. \A f \in Rest(sp1, q) : f \in Rest(sp, p) \/ \E x \in Entries : e[x] = f
    BY <1>1, <1>3 DEF Rest
  <2>9. /\ \A f \in Rest(sp, p) : f \notin fr1 /\ f \notin ab1
        /\ \A x \in Entries : e[x] \in Usable => e[x] \notin fr1 /\ e[x] \notin ab1
    BY DEF Apart
  <2>4. \A f \in Rest(sp1, q) : f \notin fr1 /\ f \notin ab1
    BY <2>1, <2>3, <2>9, Zenon
  <2>5. \A x \in Entries : sp[q][x] \in Usable =>
            sp[q][x] \notin fr1 /\ sp[q][x] \notin ab1 /\ \A y \in Entries : e[y] # sp[q][x]
    BY <2>2 DEF Apart
  <2>6. \A x \in Entries : sp[q][x] \in Usable => sp[q][x] \notin Rest(sp1, q)
    <3> SUFFICES ASSUME NEW x \in Entries, sp[q][x] \in Usable, sp[q][x] \in Rest(sp1, q)
                 PROVE  FALSE
      OBVIOUS
    <3>1. sp[q][x] \in Rest(sp, q)
      BY <2>1, <2>5
    <3> QED
      BY <3>1 DEF Apart, AllApart
  <2>7. Apart(sp[q], Rest(sp1, q), fr1, ab1)
    <3>1. \A x, y \in Entries : sp[q][x] \in Usable /\ sp[q][x] = sp[q][y] => x = y
      BY DEF Apart, AllApart
    <3>2. \A f \in Usable : ~ (f \in fr1 /\ f \in ab1)
      BY DEF Apart
    <3> QED
      BY <2>4, <2>5, <2>6, <3>1, <3>2 DEF Apart
  <2>8. ASSUME NoLeak(e, Rest(sp, p), fr1, ab1) PROVE NoLeak(sp[q], Rest(sp1, q), fr1, ab1)
    <3> SUFFICES ASSUME NEW f \in Usable, f \notin fr1, f \notin ab1, f \notin Rest(sp1, q)
                 PROVE  \E x \in Entries : sp[q][x] = f
      BY DEF NoLeak
    <3>1. \A r \in Procs : r # q => \A x \in Entries : sp1[r][x] # f
      BY DEF Rest
    <3>2. \A x \in Entries : e[x] # f
      BY <1>1, <1>3, <3>1
    <3>3. f \in Rest(sp, p)
      BY <2>8, <3>2 DEF NoLeak
    <3>4. PICK r \in Procs : r # p /\ \E x \in Entries : sp[r][x] = f
      BY <3>3 DEF Rest
    <3>5. r = q
      BY <1>1, <3>1, <3>4
    <3> QED
      BY <3>4, <3>5
  <2> QED
    BY <2>0, <2>7, <2>8
<1> QED
  BY <1>2, <1>3

\* Other processes' frames are usable frames.
LEMMA RestUsable ==
  ASSUME NEW sp, NEW p
  PROVE  Rest(sp, p) \in SUBSET Usable
  BY DEF Rest

\* An operation that leaves a sound memory, with all but p's space aside.
LEMMA CommitSound ==
  ASSUME SpacesInv, NEW p \in Procs, NEW t, Sound(t, Rest(space, p)), starved => t.starved,
         Commit(p, t)
  PROVE  /\ SpacesApart'
         /\ free' \in SUBSET Frames /\ content' \in [Frames -> Contents]
         /\ space' \in [Procs -> PageTables]
         /\ abandoned' \in SUBSET Usable /\ starved' \in BOOLEAN
         /\ space' = [space EXCEPT ![p] = t.entry]
         /\ starved => starved'
<1>1. t \in Memories /\ Apart(t.entry, Rest(space, p), t.free, t.abandoned)
      /\ (~ t.starved => NoLeak(t.entry, Rest(space, p), t.free, t.abandoned))
  BY DEF Sound
<1>2. /\ space \in [Procs -> PageTables]
      /\ AllApart(space, free, abandoned)
  BY DEF SpacesInv, SpacesTyped, SpacesApart, AllApart
<1>3. t.entry \in PageTables /\ t.free \in SUBSET Frames /\ t.content \in [Frames -> Contents]
      /\ t.abandoned \in SUBSET Usable /\ t.starved \in BOOLEAN
  BY <1>1 DEF Memories
<1>4. /\ free' = t.free /\ content' = t.content /\ space' = [space EXCEPT ![p] = t.entry]
      /\ abandoned' = t.abandoned
  BY DEF Commit
<1>5. starved' = t.starved
  BY DEF Commit
<1>6. SpacesApart'
  <2> SUFFICES ASSUME NEW q \in Procs
               PROVE  /\ Apart(space'[q], Rest(space', q), free', abandoned')
                      /\ starved' \/ NoLeak(space'[q], Rest(space', q), free', abandoned')
    BY DEF SpacesApart
  <2>1. /\ Apart(space'[q], Rest(space', q), t.free, t.abandoned)
        /\ NoLeak(t.entry, Rest(space, p), t.free, t.abandoned) =>
              NoLeak(space'[q], Rest(space', q), t.free, t.abandoned)
    <3> DEFINE fr == t.free
               ab == t.abandoned
               e == t.entry
               sp1 == space'
    <3>1. Apart(e, Rest(space, p), fr, ab) /\ e \in PageTables /\ sp1 = [space EXCEPT ![p] = e]
      BY <1>1, <1>3, <1>4
    <3> HIDE DEF fr, ab, e, sp1
    <3>2. /\ Apart(sp1[q], Rest(sp1, q), fr, ab)
          /\ NoLeak(e, Rest(space, p), fr, ab) => NoLeak(sp1[q], Rest(sp1, q), fr, ab)
      BY <1>2, <3>1, CommitApart
    <3> QED
      BY <3>2 DEF fr, ab, e, sp1
  <2>2. starved' \/ NoLeak(t.entry, Rest(space, p), t.free, t.abandoned)
    BY <1>1, <1>5
  <2> QED
    BY <1>4, <2>1, <2>2
<1>7. space' \in [Procs -> PageTables]
  BY <1>2, <1>3, <1>4
<1>8. starved' \in BOOLEAN /\ (starved => starved')
  BY <1>3, <1>5
<1> QED
  BY <1>3, <1>4, <1>6, <1>7, <1>8

\* The memory a call starts from.
LEMMA MemoryIs ==
  ASSUME SpacesTyped
  PROVE  /\ Memory \in Memories /\ Memory.free = free /\ Memory.content = content
         /\ Memory.entry = NoSpace /\ Memory.turns = 0 /\ Memory.abandoned = abandoned
         /\ Memory.ok /\ (Memory.starved <=> starved)
<1>1. NoSpace \in PageTables /\ 0 \in Frames /\ 0 \in Nat
  BY NoSpaceIs, UsableFrames
<1>2. Memory \in Memories
  BY <1>1 DEF SpacesTyped, Memory, Memories
<1>3. /\ Memory.free = free /\ Memory.content = content
      /\ Memory.entry = NoSpace /\ Memory.turns = 0 /\ Memory.abandoned = abandoned
  BY DEF Memory
<1>4. Memory.ok
  BY DEF Memory
<1>5. Memory.starved <=> starved
  BY DEF Memory
<1> QED
  BY <1>2, <1>3, <1>4, <1>5

\* Another space at hand.
Install(s, e) == [s EXCEPT !.entry = e]

\* What putting another space at hand changes.
LEMMA InstallIs ==
  ASSUME NEW s \in Memories, NEW e \in PageTables, NEW t, t = Install(s, e)
  PROVE  /\ t \in Memories /\ t.entry = e /\ t.free = s.free /\ t.content = s.content
         /\ t.src = s.src /\ t.turns = s.turns /\ t.abandoned = s.abandoned
         /\ (t.ok <=> s.ok) /\ (t.starved <=> s.starved)
<1> USE DEF Memories, Install
<1>1. t \in Memories
  OBVIOUS
<1>2. t.ok <=> s.ok
  OBVIOUS
<1>3. t.starved <=> s.starved
  OBVIOUS
<1>4. /\ t.entry = e /\ t.free = s.free /\ t.content = s.content
      /\ t.src = s.src /\ t.turns = s.turns /\ t.abandoned = s.abandoned
  OBVIOUS
<1> QED
  BY <1>1, <1>2, <1>3, <1>4

\* A space by itself: no frame twice.
OneEach(e) == \A x, y \in Entries : e[x] \in Usable /\ e[x] = e[y] => x = y

\* A space that was set aside is put at hand, the other set aside.
LEMMA InstallSound ==
  ASSUME NEW s, NEW K \in SUBSET Usable, NEW e \in PageTables, Sound(s, K \cup Owns(e)),
         Owns(e) \cap K = {}, OneEach(e), NEW t, t = Install(s, e)
  PROVE  Sound(t, K \cup Owns(s.entry))
<1> DEFINE g == s.entry
           fr == s.free
           ab == s.abandoned
<1>1. s \in Memories /\ g \in PageTables
  BY DEF Sound, Memories
<1>2. Apart(g, K \cup Owns(e), fr, ab) /\ (~ s.starved => NoLeak(g, K \cup Owns(e), fr, ab))
  BY DEF Sound
<1>3. t \in Memories /\ t.entry = e /\ t.free = fr /\ t.abandoned = ab /\ (t.starved <=> s.starved)
  BY <1>1, InstallIs
<1> HIDE DEF g, fr, ab
<1>4. /\ Apart(e, K \cup Owns(g), fr, ab)
      /\ NoLeak(g, K \cup Owns(e), fr, ab) => NoLeak(e, K \cup Owns(g), fr, ab)
  BY <1>1, <1>2, Swap DEF OneEach
<1>5. K \cup Owns(g) \subseteq Usable
  BY DEF Owns
<1>6. Sound(t, K \cup Owns(g))
  BY <1>2, <1>3, <1>4, <1>5 DEF Sound
<1> QED
  BY <1>6 DEF g

\* A slot without a space owns nothing.
LEMMA NothingOwned == Owns(NoSpace) = {}
  BY NoSpaceIs DEF Owns

\* The space of p at hand.
LEMMA AtHand ==
  ASSUME SpacesInv, NEW p \in Procs
  PROVE  /\ Sound(On(p), Rest(space, p))
         /\ On(p).entry = space[p] /\ On(p).free = free /\ On(p).content = content
         /\ On(p).turns = 0 /\ On(p).ok /\ (On(p).starved <=> starved)
<1>1. SpacesTyped /\ space[p] \in PageTables
  BY DEF SpacesInv, SpacesTyped
<1>2. On(p) = Install(Memory, space[p])
  BY DEF On, Install
<1>3. Memory \in Memories /\ Memory.free = free /\ Memory.content = content
      /\ Memory.turns = 0 /\ Memory.abandoned = abandoned
  BY <1>1, MemoryIs
<1>4. Memory.ok /\ (Memory.starved <=> starved)
  BY <1>1, MemoryIs
<1> DEFINE t == Install(Memory, space[p])
<1>5. /\ t \in Memories /\ t.entry = space[p] /\ t.free = Memory.free /\ t.content = Memory.content
      /\ t.src = Memory.src /\ t.turns = Memory.turns /\ t.abandoned = Memory.abandoned
      /\ (t.ok <=> Memory.ok) /\ (t.starved <=> Memory.starved)
  BY <1>1, <1>3, InstallIs
<1> HIDE DEF t
<1>6. /\ Apart(space[p], Rest(space, p), free, abandoned)
      /\ starved \/ NoLeak(space[p], Rest(space, p), free, abandoned)
  BY DEF SpacesInv, SpacesApart
<1>7. t.entry = space[p] /\ t.free = free /\ t.content = content /\ t.turns = 0 /\ t.abandoned = abandoned
  BY <1>3, <1>5
<1>8. t.ok /\ (t.starved <=> starved)
  BY <1>4, <1>5
<1>9. Sound(t, Rest(space, p))
  BY <1>5, <1>6, <1>7, <1>8, RestUsable DEF Sound
<1> QED
  BY <1>2, <1>7, <1>8, <1>9 DEF t

\* A new space at hand, that of p aside.
LEMMA NewAtHand ==
  ASSUME SpacesInv, NEW p \in Procs
  PROVE  /\ Sound(Memory, Rest(space, p) \cup Owns(space[p]))
         /\ space[p] \in PageTables /\ OneEach(space[p])
         /\ Owns(space[p]) \cap Rest(space, p) = {}
<1> DEFINE K == Rest(space, p)
           e == space[p]
<1>1. SpacesTyped /\ e \in PageTables /\ K \in SUBSET Usable
  BY RestUsable DEF SpacesInv, SpacesTyped
<1>2. Apart(e, K, free, abandoned) /\ (starved \/ NoLeak(e, K, free, abandoned))
  BY DEF SpacesInv, SpacesApart
<1> HIDE DEF K, e
<1>3. OneEach(e) /\ Owns(e) \cap K = {}
  BY <1>2 DEF Apart, OneEach, Owns
<1>4. NoSpace \in PageTables /\ OneEach(NoSpace) /\ K \cup Owns(NoSpace) = K /\ Owns(NoSpace) \cap K = {}
  BY NoSpaceIs, NothingOwned DEF OneEach
<1>5. Apart(e, K \cup Owns(NoSpace), free, abandoned)
      /\ (starved \/ NoLeak(e, K \cup Owns(NoSpace), free, abandoned))
  BY <1>2, <1>4
<1>6. /\ Apart(NoSpace, K \cup Owns(e), free, abandoned)
      /\ NoLeak(e, K \cup Owns(NoSpace), free, abandoned) => NoLeak(NoSpace, K \cup Owns(e), free, abandoned)
  BY <1>1, <1>4, <1>5, Swap DEF OneEach
<1>7. Memory \in Memories /\ Memory.free = free /\ Memory.entry = NoSpace
      /\ Memory.abandoned = abandoned /\ (Memory.starved <=> starved)
  BY <1>1, MemoryIs
<1>8. K \cup Owns(e) \subseteq Usable
  BY <1>1 DEF Owns
<1>9. Sound(Memory, K \cup Owns(e))
  BY <1>5, <1>6, <1>7, <1>8 DEF Sound
<1> QED
  BY <1>1, <1>3, <1>9 DEF K, e
=============================================================================
