------------------------- MODULE AddressSpaceProofs -------------------------
(*****************************************************************************)
(* Proofs about AddressSpace, for any number of processes and frames, and    *)
(* programs, stacks and mmap areas of any size.                              *)
(*                                                                           *)
(* SpacesInv, of SpaceLoops, is the inductive invariant: whichever space is  *)
(* at hand, it is apart from the rest of memory, nothing is lost until memory *)
(* runs out, and a running process has all of its program.                   *)
(*****************************************************************************)
EXTENDS SpaceLoops, FiniteSetTheorems

\* A call on behalf of p that ends in the memory t.
LEMMA CallInv ==
  ASSUME SpacesInv, NEW p \in Procs, NEW t, Sound(t, Rest(space, p)), starved => t.starved,
         Commit(p, t),
         state' \in [Procs -> {"none", "run", "dead"}], mmap_next' \in [Procs -> 0 .. MMAP],
         \A q \in Procs : q # p => state'[q] = state[q] /\ mmap_next'[q] = mmap_next[q],
         state'[p] = "none" => t.entry = NoSpace,
         state'[p] = "run" => t.entry[fb] = FB,
         state'[p] = "run" => t.starved \/ Full(t.entry, mmap_next'[p])
  PROVE  SpacesInv'
<1>1. /\ SpacesApart'
      /\ free' \in SUBSET Frames /\ content' \in [Frames -> Contents]
      /\ space' \in [Procs -> PageTables]
      /\ abandoned' \in SUBSET Usable /\ starved' \in BOOLEAN
      /\ space' = [space EXCEPT ![p] = t.entry]
      /\ starved => starved'
  BY CommitSound
<1>2. starved' = t.starved
  BY DEF Commit
<1>3. \A q \in Procs : space'[q] = IF q = p THEN t.entry ELSE space[q]
  BY <1>1 DEF SpacesInv, SpacesTyped
<1>4. SpacesFull'
  <2> SUFFICES ASSUME NEW q \in Procs
               PROVE  /\ state'[q] = "none" => space'[q] = NoSpace
                      /\ state'[q] = "run" => space'[q][fb] = FB
                      /\ state'[q] = "run" /\ ~ starved' => Full(space'[q], mmap_next'[q])
    BY DEF SpacesFull, Running
  <2>1. CASE q = p
    BY <1>2, <1>3, <2>1
  <2>2. CASE q # p
    <3>1. space'[q] = space[q] /\ state'[q] = state[q] /\ mmap_next'[q] = mmap_next[q]
      BY <1>3, <2>2
    <3>2. /\ state[q] = "none" => space[q] = NoSpace
          /\ state[q] = "run" => space[q][fb] = FB
          /\ state[q] = "run" /\ ~ starved => Full(space[q], mmap_next[q])
      BY DEF SpacesInv, SpacesFull, Running
    <3> QED
      BY <1>1, <3>1, <3>2
  <2> QED
    BY <2>1, <2>2
<1>5. SpacesTyped'
  BY <1>1 DEF SpacesTyped
<1> QED
  BY <1>1, <1>4, <1>5 DEF SpacesInv

\* A program's write changes what is in a frame, not whose it is.
LEMMA StoreInv ==
  ASSUME SpacesInv, NEW p \in Procs, NEW va \in VAs, store(p, va)
  PROVE  SpacesInv'
<1>1. space[p][va] \in Frames /\ p \in Contents
  BY DEF SpacesInv, SpacesTyped, PageTables, Entries, store, Contents
<1>2. content' \in [Frames -> Contents]
  BY <1>1 DEF SpacesInv, SpacesTyped, store
<1>3. UNCHANGED <<free, space, state, mmap_next, abandoned, starved>>
  BY DEF store
<1>4. SpacesTyped'
  BY <1>2, <1>3 DEF SpacesInv, SpacesTyped
<1>5. SpacesApart'
  BY <1>3 DEF SpacesInv, SpacesApart
<1>6. SpacesFull'
  BY <1>3 DEF SpacesInv, SpacesFull, Running
<1> QED
  BY <1>4, <1>5, <1>6 DEF SpacesInv

\* exit keeps the space until the task is reaped.
LEMMA ExitInv ==
  ASSUME SpacesInv, NEW p \in Procs, exit(p)
  PROVE  SpacesInv'
<1>1. /\ UNCHANGED <<free, content, space, mmap_next, abandoned, starved>>
      /\ state' = [state EXCEPT ![p] = "dead"]
  BY DEF exit
<1>2. SpacesTyped'
  BY <1>1 DEF SpacesInv, SpacesTyped
<1>3. SpacesApart'
  BY <1>1 DEF SpacesInv, SpacesApart
<1>4. \A q \in Procs : state'[q] = state[q] \/ state'[q] = "dead"
  BY <1>1 DEF SpacesInv, SpacesTyped
<1>5. SpacesFull'
  BY <1>1, <1>4 DEF SpacesInv, SpacesFull, Running
<1> QED
  BY <1>2, <1>3, <1>5 DEF SpacesInv

\* remove_and_destroy leaves a slot without a space.
LEMMA RemoveInv ==
  ASSUME SpacesInv, NEW p \in Procs, remove_and_destroy(p)
  PROVE  SpacesInv' /\ space'[p] = NoSpace
<1> DEFINE d == destroy(On(p))
<1>1. Sound(d, Rest(space, p)) /\ d.entry = NoSpace /\ (d.starved <=> On(p).starved)
  BY AtHand, DestroySound
<1>2. starved => d.starved
  BY <1>1, AtHand
<1>3. Commit(p, d) /\ state' = [state EXCEPT ![p] = "none"] /\ mmap_next' = [mmap_next EXCEPT ![p] = 0]
  BY DEF remove_and_destroy
<1>4. state \in [Procs -> {"none", "run", "dead"}] /\ mmap_next \in [Procs -> 0 .. MMAP] /\ 0 \in 0 .. MMAP
  BY SpaceAssumption DEF SpacesInv, SpacesTyped
<1>5. /\ state' \in [Procs -> {"none", "run", "dead"}] /\ mmap_next' \in [Procs -> 0 .. MMAP]
      /\ \A q \in Procs : q # p => state'[q] = state[q] /\ mmap_next'[q] = mmap_next[q]
      /\ state'[p] = "none"
  BY <1>3, <1>4
<1> HIDE DEF d
<1>6. SpacesInv'
  BY <1>1, <1>2, <1>3, <1>5, CallInv
<1> QED
  BY <1>1, <1>3, <1>6 DEF Commit, SpacesInv, SpacesTyped

\* The pages of mmap are user pages.
LEMMA MmapPagesAre ==
    \A i \in 1 .. MMAP : MmapPages[i] = <<"mmap", i>> /\ MmapPages[i] \in VAs /\ MmapPages[i] # fb
<1>1. \A i \in 1 .. MMAP : MmapPages[i] = <<"mmap", i>>
  BY DEF MmapPages
<1>2. \A i \in 1 .. MMAP : <<"mmap", i>> \in VAs
  BY VAsArePages DEF Pages
<1> QED
  BY <1>1, <1>2 DEF fb

\* The pages of a call of sys_mmap.
MmapAt(k, n) == [i \in 1 .. n |-> MmapPages[k + i]]

\* The pages of one call of sys_mmap are distinct user pages.
LEMMA MmapAtIs ==
  ASSUME NEW k \in Nat, NEW n \in Nat, k + n <= MMAP
  PROVE  /\ MmapAt(k, n) = [i \in 1 .. n |-> MmapAt(k, n)[i]] /\ Len(MmapAt(k, n)) = n
         /\ \A i \in 1 .. n : /\ MmapAt(k, n)[i] = <<"mmap", k + i>>
                              /\ MmapAt(k, n)[i] \in VAs /\ MmapAt(k, n)[i] # fb
         /\ \A i, j \in 1 .. n : i # j => MmapAt(k, n)[i] # MmapAt(k, n)[j]
<1>1. MmapAt(k, n) = [i \in 1 .. n |-> MmapAt(k, n)[i]]
  BY DEF MmapAt
<1>2. Len(MmapAt(k, n)) = n
  BY SeqLen DEF MmapAt
<1>3. \A i \in 1 .. n : k + i \in 1 .. MMAP /\ MmapAt(k, n)[i] = MmapPages[k + i]
  BY SpaceAssumption DEF MmapAt
<1>4. \A i \in 1 .. n : /\ MmapAt(k, n)[i] = <<"mmap", k + i>>
                        /\ MmapAt(k, n)[i] \in VAs /\ MmapAt(k, n)[i] # fb
  BY <1>3, MmapPagesAre
<1>5. \A i, j \in 1 .. n : i # j => MmapAt(k, n)[i] # MmapAt(k, n)[j]
  BY <1>4
<1> QED
  BY <1>1, <1>2, <1>4, <1>5

\* n more pages of mmap.
LEMMA FullGrows ==
  ASSUME NEW e, NEW k \in Nat, NEW n \in Nat, k + n <= MMAP, Full(e, k), NEW g,
         \A va \in VAs : (\A i \in 1 .. n : va # MmapAt(k, n)[i]) => g[va] = e[va],
         \A i \in 1 .. n : g[MmapAt(k, n)[i]] # Absent
  PROVE  Full(g, k + n)
<1> SUFFICES ASSUME NEW va \in VAs
             PROVE  g[va] = Absent <=> \E i \in k + n + 1 .. MMAP : va = <<"mmap", i>>
  BY DEF Full
<1>0. MMAP \in Nat
  BY SpaceAssumption
<1>1. \A i \in 1 .. n : MmapAt(k, n)[i] = <<"mmap", k + i>>
  BY MmapAtIs
<1>2. CASE \E i \in 1 .. n : va = MmapAt(k, n)[i]
  <2>1. PICK i \in 1 .. n : va = MmapAt(k, n)[i]
    BY <1>2
  <2>2. va = <<"mmap", k + i>> /\ g[va] # Absent
    BY <1>1, <2>1
  <2> QED
    BY <1>0, <2>2
<1>3. CASE \A i \in 1 .. n : va # MmapAt(k, n)[i]
  <2>1. g[va] = Absent <=> \E i \in k + 1 .. MMAP : va = <<"mmap", i>>
    BY <1>3 DEF Full
  <2>2. \A i \in k + 1 .. MMAP : va = <<"mmap", i>> => i \in k + n + 1 .. MMAP
    <3> SUFFICES ASSUME NEW i \in k + 1 .. MMAP, va = <<"mmap", i>>, ~ (i >= k + n + 1)
                 PROVE  FALSE
      BY <1>0
    <3>1. i - k \in 1 .. n /\ k + (i - k) = i
      BY <1>0
    <3> QED
      BY <1>1, <1>3, <3>1
  <2>3. \A i \in k + n + 1 .. MMAP : i \in k + 1 .. MMAP
    BY <1>0
  <2> QED
    BY <2>1, <2>2, <2>3
<1> QED
  BY <1>2, <1>3

\* What sys_mmap(p, n) does: the invariant holds, and a page that was not
\* there reads as zeroes.
LEMMA MmapInv ==
  ASSUME SpacesInv, NEW p \in Procs, NEW n \in Nat, sys_mmap(p, n)
  PROVE  /\ SpacesInv'
         /\ \A q \in Procs : q # p => space'[q] = space[q]
         /\ \A va \in VAs : \/ space'[p][va] = space[p][va]
                            \/ content'[space'[p][va]] = "zero"
<1> DEFINE s == On(p)
           k == mmap_next[p]
           pages == MmapAt(k, n)
           t == ForEach(MmapPage, s, pages)
           K == Rest(space, p)
<1>1. /\ Running(p) /\ k + n <= MMAP /\ Commit(p, t)
      /\ mmap_next' = [mmap_next EXCEPT ![p] = k + t.turns] /\ state' = state
  BY DEF sys_mmap, MmapAt
<1>2. k \in Nat /\ k \in 0 .. MMAP /\ MMAP \in Nat /\ mmap_next \in [Procs -> 0 .. MMAP]
      /\ space \in [Procs -> PageTables] /\ state \in [Procs -> {"none", "run", "dead"}]
  BY SpaceAssumption DEF SpacesInv, SpacesTyped
<1>3. Sound(s, K) /\ s.entry = space[p] /\ s.turns = 0 /\ s.content = content
  BY AtHand
<1>4. s.ok /\ (s.starved <=> starved)
  BY AtHand
<1>5. /\ space[p][fb] = FB
      /\ starved \/ Full(space[p], k)
  BY <1>1 DEF SpacesInv, SpacesFull
<1>6. /\ pages = [i \in 1 .. n |-> pages[i]] /\ Len(pages) = n
      /\ \A i \in 1 .. n : /\ pages[i] = <<"mmap", k + i>>
                           /\ pages[i] \in VAs /\ pages[i] # fb
      /\ \A i, j \in 1 .. n : i # j => pages[i] # pages[j]
  BY <1>1, <1>2, MmapAtIs
<1> HIDE DEF s, pages, t, K, k
<1>7. \A i \in 1 .. n : Vacant(s, pages[i])
  <2> SUFFICES ASSUME NEW i \in 1 .. n, ~ starved
               PROVE  s.entry[pages[i]] = Absent
    BY <1>4 DEF Vacant
  <2>1. k + i \in k + 1 .. MMAP
    BY <1>1, <1>2
  <2>2. pages[i] \in VAs /\ pages[i] = <<"mmap", k + i>>
    BY <1>6
  <2>3. \E j \in k + 1 .. MMAP : pages[i] = <<"mmap", j>>
    BY <2>1, <2>2
  <2>4. space[p][pages[i]] = Absent
    BY <1>5, <2>2, <2>3 DEF Full
  <2> QED
    BY <1>3, <2>4
<1>8. MapsInto(s, pages, n)
  BY <1>6, <1>7 DEF MapsInto
<1>9. Mmapped(s, t, K, pages, n)
  BY <1>3, <1>4, <1>8, MmapSound DEF t
<1>10. Sound(t, K) /\ (s.starved => t.starved)
  BY <1>9 DEF Mmapped
<1>11. /\ t.turns \in 0 .. n
       /\ \A va \in VAs : (\A i \in 1 .. n : va # pages[i]) => t.entry[va] = space[p][va]
       /\ t.starved \/ t.turns = n
  BY <1>3, <1>9 DEF Mmapped
<1>12. /\ t.starved \/ \A i \in 1 .. n : t.entry[pages[i]] # Absent
       /\ \A i \in 1 .. n : \/ t.entry[pages[i]] = space[p][pages[i]]
                            \/ t.entry[pages[i]] \in Usable /\ t.content[t.entry[pages[i]]] = "zero"
  BY <1>3, <1>9 DEF Mmapped
<1>13. k + t.turns \in 0 .. MMAP
  BY <1>1, <1>2, <1>11
<1>14. mmap_next' \in [Procs -> 0 .. MMAP] /\ mmap_next'[p] = k + t.turns
       /\ \A q \in Procs : q # p => mmap_next'[q] = mmap_next[q]
  BY <1>1, <1>2, <1>13
<1>15. t.entry[fb] = FB
  <2>1. fb \in VAs
    BY PagesAre
  <2> QED
    BY <1>5, <1>6, <1>11, <2>1
<1>16. t.starved \/ Full(t.entry, mmap_next'[p])
  <2> SUFFICES ASSUME ~ t.starved
               PROVE  Full(t.entry, mmap_next'[p])
    OBVIOUS
  <2>1. Full(space[p], k) /\ mmap_next'[p] = k + n
    BY <1>4, <1>5, <1>10, <1>11, <1>14
  <2>2. \A i \in 1 .. n : t.entry[pages[i]] # Absent
    BY <1>12
  <2>3. Full(t.entry, k + n)
    BY <1>1, <1>2, <1>11, <2>1, <2>2, FullGrows DEF pages
  <2> QED
    BY <2>1, <2>3
<1>17. SpacesInv'
  <2>1. Sound(t, Rest(space, p)) /\ (starved => t.starved)
    BY <1>4, <1>10 DEF K
  <2>2. state' \in [Procs -> {"none", "run", "dead"}] /\ state'[p] = "run"
        /\ \A q \in Procs : q # p => state'[q] = state[q] /\ mmap_next'[q] = mmap_next[q]
    BY <1>1, <1>2, <1>14 DEF Running
  <2> QED
    BY <1>1, <1>14, <1>15, <1>16, <2>1, <2>2, CallInv
<1>18. space' = [space EXCEPT ![p] = t.entry] /\ content' = t.content
  BY <1>1 DEF Commit
<1>19. space'[p] = t.entry /\ \A q \in Procs : q # p => space'[q] = space[q]
  BY <1>2, <1>18
<1>20. \A va \in VAs : space'[p][va] = space[p][va] \/ content'[space'[p][va]] = "zero"
  BY <1>11, <1>12, <1>18, <1>19
<1> QED
  BY <1>17, <1>19, <1>20

\* A new space next to that of p.
LEMMA NewSpace ==
  ASSUME SpacesInv, NEW p \in Procs, NEW c, c = create(Memory)
  PROVE  /\ Sound(c, Rest(space, p) \cup Owns(space[p]))
         /\ starved => c.starved
         /\ c.ok \/ c.starved
         /\ \A va \in VAs : va # fb => c.entry[va] = Absent
         /\ c.ok => c.entry[fb] = FB
         /\ ~ c.ok => c.entry = NoSpace
         /\ \A f \in Frames : f \notin free \ {0} => c.content[f] = content[f]
<1>1. Sound(Memory, Rest(space, p) \cup Owns(space[p]))
  BY NewAtHand
<1>2. Memory.entry = NoSpace /\ Memory.free = free /\ Memory.content = content
  BY MemoryIs DEF SpacesInv
<1>3. Memory.starved <=> starved
  BY MemoryIs DEF SpacesInv
<1>4. Sound(c, Rest(space, p) \cup Owns(space[p])) /\ Made(Memory, c)
  BY <1>1, <1>2, CreateSound
<1>5. /\ starved => c.starved
      /\ c.ok \/ c.starved
  BY <1>3, <1>4 DEF Made
<1>6. \A f \in Frames : f \notin free \ {0} => c.content[f] = content[f]
  BY <1>2, <1>4 DEF Made
<1>7. /\ c.ok => \A va \in VAs : c.entry[va] = IF va = fb THEN FB ELSE Absent
      /\ ~ c.ok => c.entry = NoSpace
  BY <1>4 DEF Made
<1>8. fb \in VAs /\ \A va \in VAs : NoSpace[va] = Absent
  BY PagesAre, NoSpaceIs DEF Entries
<1> QED
  BY <1>4, <1>5, <1>6, <1>7, <1>8

\* The memory z of a space that was given up, and the space of p at hand
\* again.
LEMMA BackAtHand ==
  ASSUME SpacesInv, NEW p \in Procs, NEW z, Sound(z, Rest(space, p) \cup Owns(space[p])),
         z.entry = NoSpace, NEW t, t = Install(z, space[p])
  PROVE  Sound(t, Rest(space, p)) /\ t.entry = space[p] /\ (t.starved <=> z.starved)
<1> DEFINE K == Rest(space, p)
           e == space[p]
<1>1. e \in PageTables /\ OneEach(e) /\ Owns(e) \cap K = {} /\ K \in SUBSET Usable
  BY NewAtHand, RestUsable
<1>2. Sound(z, K \cup Owns(e)) /\ t = Install(z, e) /\ z \in Memories
  BY DEF Sound
<1> HIDE DEF K, e
<1>3. Sound(t, K \cup Owns(z.entry))
  BY <1>1, <1>2, InstallSound
<1>4. K \cup Owns(z.entry) = K
  BY NothingOwned
<1>5. t.entry = e /\ (t.starved <=> z.starved)
  BY <1>1, <1>2, InstallIs
<1>6. Sound(t, K)
  BY <1>3, <1>4
<1> QED
  BY <1>5, <1>6 DEF K, e

\* An exec that fails gives up the new space and keeps the old one.
LEMMA ExecFailsInv ==
  ASSUME SpacesInv, NEW p \in Procs, NEW missing \in BOOLEAN, exec_fails(p, missing)
  PROVE  SpacesInv' /\ space' = space /\ state' = state
<1> DEFINE c == create(Memory)
           s == IF missing THEN Fail(c) ELSE load(c)
           z == IF c.ok THEN destroy(s) ELSE c
           d == Install(z, space[p])
           K == Rest(space, p) \cup Owns(space[p])
<1>1. Running(p) /\ Commit(p, d) /\ state' = state /\ mmap_next' = mmap_next
  BY DEF exec_fails, Fail, Install
<1>2. /\ Sound(c, K) /\ (starved => c.starved) /\ (c.ok \/ c.starved)
      /\ \A va \in VAs : va # fb => c.entry[va] = Absent
      /\ ~ c.ok => c.entry = NoSpace
  BY NewSpace
<1> HIDE DEF c, K
<1>3. Sound(s, K) /\ (c.starved => s.starved)
  <2>1. CASE missing
    <3>1. s = Fail(c)
      BY <2>1
    <3>2. c \in Memories
      BY <1>2 DEF Sound
    <3> HIDE DEF s
    <3>3. Sound(s, K)
      BY <1>2, <3>1, OkSound
    <3>4. s.starved <=> c.starved
      BY <3>1, <3>2, OkIs
    <3> QED
      BY <3>3, <3>4
  <2>2. CASE ~ missing
    <3>1. s = load(c)
      BY <2>2
    <3>2. Loaded(c, load(c), K, IMAGE)
      BY <1>2, LoadSound
    <3> HIDE DEF s
    <3> QED
      BY <3>1, <3>2 DEF Loaded
  <2> QED
    BY <2>1, <2>2
<1> HIDE DEF s
<1>4. Sound(z, K) /\ z.entry = NoSpace /\ (starved => z.starved)
  <2>1. CASE c.ok
    <3>1. z = destroy(s)
      BY <2>1
    <3> HIDE DEF z
    <3>2. Sound(z, K) /\ z.entry = NoSpace /\ (z.starved <=> s.starved)
      BY <1>3, <3>1, DestroySound
    <3> QED
      BY <1>2, <1>3, <3>2
  <2>2. CASE ~ c.ok
    <3>1. z = c
      BY <2>2
    <3> QED
      BY <1>2, <2>2, <3>1
  <2> QED
    BY <2>1, <2>2
<1> HIDE DEF z
<1>5. Sound(d, Rest(space, p)) /\ d.entry = space[p] /\ (d.starved <=> z.starved)
  BY <1>4, BackAtHand DEF K
<1> HIDE DEF d
<1>6. /\ state \in [Procs -> {"none", "run", "dead"}] /\ mmap_next \in [Procs -> 0 .. MMAP]
      /\ space \in [Procs -> PageTables]
  BY DEF SpacesInv, SpacesTyped
<1>7. /\ space[p][fb] = FB
      /\ starved \/ Full(space[p], mmap_next[p])
  BY <1>1 DEF SpacesInv, SpacesFull
<1>8. starved => d.starved
  BY <1>4, <1>5
<1>9. /\ state'[p] = "run" /\ d.entry[fb] = FB
      /\ d.starved \/ Full(d.entry, mmap_next'[p])
      /\ state' \in [Procs -> {"none", "run", "dead"}] /\ mmap_next' \in [Procs -> 0 .. MMAP]
      /\ \A q \in Procs : q # p => state'[q] = state[q] /\ mmap_next'[q] = mmap_next[q]
  BY <1>1, <1>5, <1>6, <1>7, <1>8 DEF Running
<1>10. SpacesInv'
  BY <1>1, <1>5, <1>8, <1>9, CallInv
<1>11. space' = space
  BY <1>1, <1>5, <1>6 DEF Commit
<1> QED
  BY <1>1, <1>10, <1>11

\* A program that was loaded into a new space c, and has got its stack.
LEMMA ProgramFull ==
  ASSUME NEW c, NEW s, NEW r, NEW u, NEW K, NEW L,
         \A va \in VAs : va # fb => c.entry[va] = Absent, c.entry[fb] = FB,
         Loaded(c, s, K, IMAGE), r.entry = s.entry, s.starved => r.starved,
         Stacked(r, u, L, STACK)
  PROVE  /\ u.entry[fb] = FB
         /\ \A i \in 1 .. MMAP : u.entry[<<"mmap", i>>] = Absent
         /\ u.starved \/ Full(u.entry, 0)
<1>1. /\ \A va \in VAs : (\A i \in 1 .. IMAGE : va # ImagePages[i]) => s.entry[va] = c.entry[va]
      /\ s.starved \/ \A i \in 1 .. IMAGE : s.entry[ImagePages[i]] # Absent
  BY DEF Loaded
<1>2. /\ \A va \in VAs : (\A i \in 1 .. STACK : va # StackPages[i]) => u.entry[va] = s.entry[va]
      /\ u.starved \/ \A i \in 1 .. STACK : u.entry[StackPages[i]] # Absent
      /\ s.starved => u.starved
  BY DEF Stacked
<1>3. /\ \A i \in 1 .. IMAGE : ImagePages[i] = <<"image", i>>
      /\ \A i \in 1 .. STACK : StackPages[i] = <<"stack", i>>
  BY DEF ImagePages, StackPages
<1>4. VAs = Pages /\ MMAP \in Nat
  BY VAsArePages, SpaceAssumption
<1>5. u.entry[fb] = FB
  BY <1>1, <1>2, <1>3, <1>4 DEF Pages, fb
<1>6. \A i \in 1 .. MMAP : <<"mmap", i>> \in VAs /\ <<"mmap", i>> # fb
  BY MmapPagesAre
<1>7. \A i \in 1 .. MMAP : u.entry[<<"mmap", i>>] = Absent
  <2> SUFFICES ASSUME NEW i \in 1 .. MMAP, NEW va, va = <<"mmap", i>>
               PROVE  u.entry[va] = Absent
    OBVIOUS
  <2>1. va \in VAs /\ va # fb
    BY <1>6
  <2>2. /\ \A j \in 1 .. IMAGE : va # ImagePages[j]
        /\ \A j \in 1 .. STACK : va # StackPages[j]
    BY <1>3
  <2>3. u.entry[va] = s.entry[va]
    BY <1>2, <2>1, <2>2
  <2>4. s.entry[va] = c.entry[va]
    BY <1>1, <2>1, <2>2
  <2> QED
    BY <2>1, <2>3, <2>4
<1>8. ASSUME ~ u.starved PROVE Full(u.entry, 0)
  <2> SUFFICES ASSUME NEW va \in VAs
               PROVE  u.entry[va] = Absent <=> \E i \in 1 .. MMAP : va = <<"mmap", i>>
    BY DEF Full
  <2>1. \/ \E i \in 1 .. IMAGE : va = <<"image", i>>
        \/ \E i \in 1 .. MMAP : va = <<"mmap", i>>
        \/ va = fb
        \/ \E i \in 1 .. STACK : va = <<"stack", i>>
    BY <1>4 DEF Pages
  <2>2. CASE \E i \in 1 .. IMAGE : va = <<"image", i>>
    <3>1. PICK i \in 1 .. IMAGE : va = <<"image", i>>
      BY <2>2
    <3>2. s.entry[va] # Absent
      BY <1>1, <1>2, <1>3, <1>8, <3>1
    <3>3. u.entry[va] = s.entry[va]
      BY <1>2, <1>3, <3>1
    <3> QED
      BY <3>1, <3>2, <3>3
  <2>3. CASE \E i \in 1 .. MMAP : va = <<"mmap", i>>
    BY <1>7, <2>3
  <2>4. CASE va = fb
    <3>1. FB # Absent
      BY SpaceAssumption DEF FB, Absent
    <3>2. \A i \in 1 .. MMAP : va # <<"mmap", i>>
      BY <1>6, <2>4
    <3> QED
      BY <1>5, <2>4, <3>1, <3>2
  <2>5. CASE \E i \in 1 .. STACK : va = <<"stack", i>>
    BY <1>2, <1>3, <1>8, <2>5
  <2> QED
    BY <2>1, <2>2, <2>3, <2>4, <2>5
<1> QED
  BY <1>5, <1>7, <1>8

\* The space s next to that of p, which is destroyed.
LEMMA ReplaceSound ==
  ASSUME SpacesInv, NEW p \in Procs, NEW s, Sound(s, Rest(space, p) \cup Owns(space[p])),
         NEW r, r = Replace(p, s)
  PROVE  Sound(r, Rest(space, p)) /\ r.entry = s.entry /\ (r.starved <=> s.starved)
<1> DEFINE K == Rest(space, p)
           e == space[p]
           g == s.entry
           i == Install(s, e)
           d == destroy(i)
<1>1. e \in PageTables /\ OneEach(e) /\ Owns(e) \cap K = {} /\ K \in SUBSET Usable
  BY NewAtHand, RestUsable
<1>2. r = Install(d, g)
  BY DEF Replace, Install
<1>3. Sound(s, K \cup Owns(e)) /\ s \in Memories /\ g \in PageTables
      /\ Apart(g, K \cup Owns(e), s.free, s.abandoned)
  BY DEF Sound, Memories
<1>4. OneEach(g) /\ Owns(g) \cap K = {}
  BY <1>3 DEF OneEach, Apart, Owns
<1> HIDE DEF K, e
<1>5. Sound(i, K \cup Owns(g)) /\ (i.starved <=> s.starved)
  BY <1>1, <1>3, InstallSound, InstallIs
<1> HIDE DEF i, g
<1>6. Sound(d, K \cup Owns(g)) /\ d.entry = NoSpace /\ (d.starved <=> i.starved)
  BY <1>5, DestroySound
<1> HIDE DEF d
<1>7. Sound(r, K \cup Owns(d.entry))
  BY <1>1, <1>2, <1>3, <1>4, <1>6, InstallSound
<1>8. K \cup Owns(d.entry) = K /\ d \in Memories
  BY <1>6, NothingOwned DEF Sound
<1>9. r.entry = g /\ (r.starved <=> d.starved)
  BY <1>2, <1>3, <1>8, InstallIs
<1>10. Sound(r, K)
  BY <1>7, <1>8
<1>11. r.starved <=> s.starved
  BY <1>5, <1>6, <1>9
<1> QED
  BY <1>9, <1>10, <1>11 DEF K, g

\* An exec that succeeds has the new program and nothing of mmap.
LEMMA ExecInv ==
  ASSUME SpacesInv, NEW p \in Procs, exec_current(p)
  PROVE  /\ SpacesInv'
         /\ \A q \in Procs : q # p => space'[q] = space[q] /\ state'[q] = state[q]
         /\ \A i \in 1 .. MMAP : space'[p][<<"mmap", i>>] = Absent
<1> DEFINE c == create(Memory)
           s == load(c)
           r == Replace(p, s)
           u == create_user_stack(r)
           K == Rest(space, p) \cup Owns(space[p])
<1>1. /\ Running(p) /\ c.ok /\ Commit(p, u)
      /\ state' = [state EXCEPT ![p] = IF Faults(u) THEN "dead" ELSE @]
      /\ mmap_next' = [mmap_next EXCEPT ![p] = 0]
  BY DEF exec_current, Restart
<1>2. /\ Sound(c, K) /\ (starved => c.starved) /\ (c.ok \/ c.starved)
      /\ \A va \in VAs : va # fb => c.entry[va] = Absent
      /\ c.ok => c.entry[fb] = FB
  BY NewSpace
<1> HIDE DEF c, K
<1>3. Loaded(c, s, K, IMAGE)
  BY <1>2, LoadSound
<1> HIDE DEF s
<1>4. Sound(s, K) /\ (c.starved => s.starved)
      /\ \A va \in VAs : (\A i \in 1 .. IMAGE : va # ImagePages[i]) => s.entry[va] = c.entry[va]
  BY <1>3 DEF Loaded
<1>5. Sound(r, Rest(space, p)) /\ r.entry = s.entry /\ (r.starved <=> s.starved)
  BY <1>4, ReplaceSound DEF K
<1> HIDE DEF r
<1>6. \A i \in 1 .. STACK : r.entry[StackPages[i]] = Absent
  <2> SUFFICES ASSUME NEW i \in 1 .. STACK
               PROVE  r.entry[StackPages[i]] = Absent
    OBVIOUS
  <2>1. StackPages[i] \in VAs /\ StackPages[i] # fb
    BY StackPagesAre
  <2>2. \A j \in 1 .. IMAGE : StackPages[i] # ImagePages[j]
    BY DEF StackPages, ImagePages
  <2> QED
    BY <1>2, <1>4, <1>5, <2>1, <2>2
<1>7. Stacked(r, u, Rest(space, p), STACK)
  BY <1>5, <1>6, StackSound
<1> HIDE DEF u
<1>8. Sound(u, Rest(space, p)) /\ (r.starved => u.starved)
  BY <1>7 DEF Stacked
<1>9. c.entry[fb] = FB /\ (s.starved => r.starved)
  BY <1>1, <1>2, <1>5
<1>10. /\ u.entry[fb] = FB
       /\ \A i \in 1 .. MMAP : u.entry[<<"mmap", i>>] = Absent
       /\ u.starved \/ Full(u.entry, 0)
  BY <1>2, <1>3, <1>5, <1>7, <1>9, ProgramFull
<1>11. starved => u.starved
  BY <1>2, <1>4, <1>5, <1>8
<1>12. /\ state \in [Procs -> {"none", "run", "dead"}] /\ mmap_next \in [Procs -> 0 .. MMAP]
       /\ space \in [Procs -> PageTables] /\ 0 \in 0 .. MMAP
  BY SpaceAssumption DEF SpacesInv, SpacesTyped
<1>13. state' \in [Procs -> {"none", "run", "dead"}] /\ state'[p] # "none"
       /\ \A q \in Procs : q # p => state'[q] = state[q]
  BY <1>1, <1>12 DEF Running
<1>14. mmap_next' \in [Procs -> 0 .. MMAP] /\ mmap_next'[p] = 0
       /\ \A q \in Procs : q # p => mmap_next'[q] = mmap_next[q]
  BY <1>1, <1>12
<1>15. SpacesInv'
  BY <1>1, <1>8, <1>10, <1>11, <1>13, <1>14, CallInv
<1>16. space' = [space EXCEPT ![p] = u.entry]
  BY <1>1 DEF Commit
<1>17. space'[p] = u.entry /\ \A q \in Procs : q # p => space'[q] = space[q]
  BY <1>12, <1>16
<1> QED
  BY <1>10, <1>13, <1>15, <1>17

\* What a process reads in a space e.
View(e, cont) == [va \in {v \in VAs : e[v] # Absent} |-> IF e[va] = FB THEN "fb" ELSE cont[e[va]]]

\* The page va of g is a copy of that of e.
CopyOf(e, cont, g, con1, va) ==
    /\ e[va] = Absent => g[va] = Absent
    /\ e[va] = FB => g[va] = FB
    /\ e[va] \notin {Absent, FB} => g[va] \in Usable /\ con1[g[va]] = cont[e[va]]

\* A copy reads the same.
LEMMA SameView ==
  ASSUME NEW e, NEW cont, NEW g, NEW con1, \A va \in VAs : CopyOf(e, cont, g, con1, va)
  PROVE  View(g, con1) = View(e, cont)
<1>1. \A va \in VAs : g[va] = Absent <=> e[va] = Absent
  BY SpaceAssumption DEF CopyOf, Usable, Absent, FB
<1>2. \A va \in VAs : e[va] # Absent =>
        (IF g[va] = FB THEN "fb" ELSE con1[g[va]]) = (IF e[va] = FB THEN "fb" ELSE cont[e[va]])
  BY SpaceAssumption DEF CopyOf, Usable, Absent, FB
<1>3. {v \in VAs : g[v] # Absent} = {v \in VAs : e[v] # Absent}
  BY <1>1
<1> QED
  BY <1>2, <1>3 DEF View

\* What is to be copied.
SetSrc(s, e) == [s EXCEPT !.src = e]

\* Choosing what to copy changes nothing else.
LEMMA SetSrcSound ==
  ASSUME NEW s, NEW K, Sound(s, K), NEW e \in PageTables, NEW t, t = SetSrc(s, e)
  PROVE  /\ Sound(t, K) /\ t.src = e /\ t.entry = s.entry /\ t.content = s.content
         /\ t.free = s.free /\ (t.ok <=> s.ok) /\ (t.starved <=> s.starved)
<1>0. s \in Memories
  BY DEF Sound
<1>1. t \in Memories
  BY <1>0 DEF Memories, SetSrc
<1>2. t.ok <=> s.ok
  BY <1>0 DEF Memories, SetSrc
<1>3. t.starved <=> s.starved
  BY <1>0 DEF Memories, SetSrc
<1>4. t.src = e /\ t.entry = s.entry /\ t.content = s.content /\ t.free = s.free
      /\ t.abandoned = s.abandoned
  BY <1>0 DEF Memories, SetSrc
<1>5. Sound(t, K)
  BY <1>1, <1>3, <1>4 DEF Sound
<1> QED
  BY <1>2, <1>3, <1>4, <1>5

\* clone_user_pages, of the space of p into the new space n of c.
LEMMA CopySound ==
  ASSUME SpacesInv, NEW p \in Procs, NEW c \in Procs, p # c, space[c] = NoSpace, Running(p),
         NEW n, n = create(Memory), n.ok, NEW s, s = clone_user_pages(n, p)
  PROVE  /\ Sound(s, Rest(space, c)) /\ (starved => s.starved) /\ (s.ok \/ s.starved)
         /\ s.ok => \A va \in VAs : CopyOf(space[p], content, s.entry, s.content, va)
<1> DEFINE K == Rest(space, c)
           e == space[p]
           m == SetSrc(n, e)
<1>1. /\ Sound(n, Rest(space, c) \cup Owns(space[c])) /\ (starved => n.starved)
      /\ \A va \in VAs : va # fb => n.entry[va] = Absent
      /\ n.entry[fb] = FB
      /\ \A f \in Frames : f \notin free \ {0} => n.content[f] = content[f]
  BY NewSpace
<1>2. Rest(space, c) \cup Owns(space[c]) = K
  BY NothingOwned
<1>3. s = ForEach(ClonePage, m, UserPages)
  BY DEF clone_user_pages, SetSrc
<1>4. e \in PageTables /\ Apart(e, Rest(space, p), free, abandoned) /\ e[fb] = FB
  BY DEF SpacesInv, SpacesTyped, SpacesApart, SpacesFull
<1>5. Sound(n, K)
  BY <1>1, <1>2
<1>6. \A va \in VAs : e[va] \in Usable => e[va] \in K
  BY DEF Rest, Entries
<1> HIDE DEF K, e
<1>7. /\ Sound(m, K) /\ m.src = e /\ m.entry = n.entry /\ m.content = n.content
      /\ (m.ok <=> n.ok) /\ (m.starved <=> n.starved)
  BY <1>4, <1>5, SetSrcSound, SMTT(20)
<1> HIDE DEF m
<1>8. ClonesInto(m, K)
  BY <1>1, <1>6, <1>7 DEF ClonesInto
<1>9. Cloned(m, s, K, NUSER)
  BY <1>3, <1>8, CloneSound
<1>10. Sound(s, K) /\ (m.starved => s.starved) /\ (s.ok \/ s.starved)
  BY <1>9 DEF Cloned
<1>11. ASSUME s.ok, NEW va \in VAs PROVE CopyOf(e, content, s.entry, s.content, va)
  <2>1. \A i \in 1 .. NUSER : Copied(m, s, UserPages[i])
    BY <1>9, <1>11 DEF Cloned
  <2>2. Copied(m, s, va)
    BY <2>1, UserPagesDistinct
  <2>3. fb \in VAs /\ va \in Entries
    BY PagesAre DEF Entries
  <2>4. CASE e[va] = Absent
    <3>1. va # fb /\ Absent # FB
      BY <1>4, <2>4, SpaceAssumption DEF FB, Absent
    <3>2. s.entry[va] = Absent
      BY <1>1, <1>7, <2>2, <2>4, <3>1 DEF Copied
    <3> QED
      BY <2>4, <3>1, <3>2 DEF CopyOf
  <2>5. CASE e[va] = FB
    <3>1. va = fb /\ Absent # FB
      BY <1>4, <2>5, SpaceAssumption DEF FB, Absent, PageTables
    <3>2. s.entry[va] = FB
      BY <1>1, <1>7, <2>2, <2>5, <3>1 DEF Copied
    <3> QED
      BY <2>5, <3>1, <3>2 DEF CopyOf
  <2>6. CASE e[va] \notin {Absent, FB}
    <3>1. e[va] \in Frames
      BY <1>4, <2>3, <2>6 DEF PageTables
    <3>2. e[va] \notin free \ {0}
      BY <1>4, <2>3, <3>1, SpaceAssumption DEF Apart, Frames, Usable
    <3>3. s.entry[va] \in Usable /\ s.content[s.entry[va]] = m.content[e[va]]
      BY <1>7, <2>2, <2>6 DEF Copied
    <3>4. m.content[e[va]] = content[e[va]]
      BY <1>1, <1>7, <3>1, <3>2
    <3> QED
      BY <2>6, <3>3, <3>4 DEF CopyOf
  <2> QED
    BY <2>4, <2>5, <2>6
<1>12. starved => s.starved
  BY <1>1, <1>7, <1>10
<1> QED
  BY <1>10, <1>11, <1>12 DEF K, e

\* A copy is as complete as its original.
LEMMA CopyFull ==
  ASSUME NEW e, NEW cont, NEW g, NEW con1, \A va \in VAs : CopyOf(e, cont, g, con1, va),
         NEW n \in Nat, Full(e, n)
  PROVE  Full(g, n)
<1>1. \A va \in VAs : g[va] = Absent <=> e[va] = Absent
  BY SpaceAssumption DEF CopyOf, Usable, Absent, FB
<1> QED
  BY <1>1 DEF Full

\* A call that leaves c without a space.
LEMMA StillNone ==
  ASSUME SpacesInv, NEW c \in Procs, state[c] = "none", NEW t, Sound(t, Rest(space, c)),
         starved => t.starved, t.entry = NoSpace, Commit(c, t), state' = state,
         mmap_next' = mmap_next
  PROVE  SpacesInv' /\ space' = space
<1>1. /\ state \in [Procs -> {"none", "run", "dead"}] /\ mmap_next \in [Procs -> 0 .. MMAP]
      /\ space \in [Procs -> PageTables] /\ space[c] = NoSpace
  BY DEF SpacesInv, SpacesTyped, SpacesFull
<1>2. SpacesInv'
  BY <1>1, CallInv
<1>3. space' = space
  BY <1>1 DEF Commit
<1> QED
  BY <1>2, <1>3

\* fork gives the child a copy, or leaves its slot without a space.
LEMMA CloneInv ==
  ASSUME SpacesInv, NEW p \in Procs, NEW c \in Procs, NEW heap \in BOOLEAN, clone(p, c, heap)
  PROVE  /\ SpacesInv'
         /\ Running(p) /\ state[c] = "none"
         /\ \A q \in Procs : q # c => space'[q] = space[q] /\ state'[q] = state[q]
         /\ state'[c] = "run" => View(space'[c], content') = View(space[p], content)
<1> DEFINE n == create(Memory)
           s == clone_user_pages(n, p)
<1>1. Running(p) /\ state[c] = "none" /\ p # c
  BY DEF clone, Running
<1>2. \/ /\ ~ n.ok
         /\ Commit(c, n) /\ state' = state /\ mmap_next' = mmap_next
      \/ /\ n.ok
         /\ Commit(c, destroy(s)) /\ state' = state /\ mmap_next' = mmap_next
      \/ /\ n.ok /\ s.ok
         /\ Commit(c, s)
         /\ state' = [state EXCEPT ![c] = "run"]
         /\ mmap_next' = [mmap_next EXCEPT ![c] = mmap_next[p]]
  BY DEF clone
<1>3. /\ state \in [Procs -> {"none", "run", "dead"}] /\ mmap_next \in [Procs -> 0 .. MMAP]
      /\ space \in [Procs -> PageTables] /\ space[c] = NoSpace
      /\ space[p][fb] = FB
      /\ starved \/ Full(space[p], mmap_next[p])
  BY <1>1 DEF SpacesInv, SpacesTyped, SpacesFull
<1>4. /\ Sound(n, Rest(space, c) \cup Owns(space[c])) /\ (starved => n.starved)
      /\ ~ n.ok => n.entry = NoSpace
  BY NewSpace
<1>5. Rest(space, c) \cup Owns(space[c]) = Rest(space, c)
  BY <1>3, NothingOwned
<1>6. n.ok => /\ Sound(s, Rest(space, c)) /\ (starved => s.starved) /\ (s.ok \/ s.starved)
              /\ s.ok => \A va \in VAs : CopyOf(space[p], content, s.entry, s.content, va)
  BY <1>1, <1>3, CopySound
<1> HIDE DEF n, s
<1>7. CASE ~ n.ok /\ Commit(c, n) /\ state' = state /\ mmap_next' = mmap_next
  <2>1. Sound(n, Rest(space, c)) /\ (starved => n.starved) /\ n.entry = NoSpace
    BY <1>4, <1>5, <1>7
  <2>2. SpacesInv' /\ space' = space
    BY <1>1, <1>7, <2>1, StillNone
  <2> QED
    BY <1>1, <1>7, <2>2
<1>8. CASE n.ok /\ Commit(c, destroy(s)) /\ state' = state /\ mmap_next' = mmap_next
  <2> DEFINE d == destroy(s)
  <2>1. Sound(d, Rest(space, c)) /\ d.entry = NoSpace /\ (d.starved <=> s.starved)
    BY <1>6, <1>8, DestroySound
  <2>2. starved => d.starved
    BY <1>6, <1>8, <2>1
  <2>3. Commit(c, d)
    BY <1>8
  <2> HIDE DEF d
  <2>4. SpacesInv' /\ space' = space
    BY <1>1, <1>8, <2>1, <2>2, <2>3, StillNone
  <2> QED
    BY <1>1, <1>8, <2>4
<1>9. CASE /\ n.ok /\ s.ok
           /\ Commit(c, s)
           /\ state' = [state EXCEPT ![c] = "run"]
           /\ mmap_next' = [mmap_next EXCEPT ![c] = mmap_next[p]]
  <2>1. /\ Sound(s, Rest(space, c)) /\ (starved => s.starved)
        /\ \A va \in VAs : CopyOf(space[p], content, s.entry, s.content, va)
    BY <1>6, <1>9
  <2>2. s.entry[fb] = FB
    BY <1>3, <2>1, PagesAre DEF CopyOf
  <2>3. mmap_next[p] \in Nat /\ mmap_next[p] \in 0 .. MMAP
    BY <1>3
  <2>4. Full(space[p], mmap_next[p]) => Full(s.entry, mmap_next[p])
    <3> DEFINE g == s.entry
               con1 == s.content
               e == space[p]
    <3>1. \A va \in VAs : CopyOf(e, content, g, con1, va)
      BY <2>1
    <3> HIDE DEF g, con1, e
    <3>2. Full(e, mmap_next[p]) => Full(g, mmap_next[p])
      BY <2>3, <3>1, CopyFull
    <3> QED
      BY <3>2 DEF e, g
  <2>5. s.starved \/ Full(s.entry, mmap_next[p])
    BY <1>3, <2>1, <2>4
  <2>6. /\ state' \in [Procs -> {"none", "run", "dead"}] /\ mmap_next' \in [Procs -> 0 .. MMAP]
        /\ \A q \in Procs : q # c => state'[q] = state[q] /\ mmap_next'[q] = mmap_next[q]
        /\ state'[c] = "run" /\ mmap_next'[c] = mmap_next[p]
    BY <1>3, <1>9, <2>3
  <2>7. SpacesInv'
    BY <1>9, <2>1, <2>2, <2>5, <2>6, CallInv
  <2>8. space' = [space EXCEPT ![c] = s.entry] /\ content' = s.content
    BY <1>9 DEF Commit
  <2>9. space'[c] = s.entry /\ \A q \in Procs : q # c => space'[q] = space[q]
    BY <1>3, <2>8
  <2>10. View(s.entry, s.content) = View(space[p], content)
    <3> DEFINE g == s.entry
               con1 == s.content
               e == space[p]
    <3>1. \A va \in VAs : CopyOf(e, content, g, con1, va)
      BY <2>1
    <3> HIDE DEF g, con1, e
    <3>2. View(g, con1) = View(e, content)
      BY <3>1, SameView
    <3> QED
      BY <3>2 DEF e, g, con1
  <2> QED
    BY <1>1, <2>6, <2>7, <2>8, <2>9, <2>10
<1> QED
  BY <1>2, <1>7, <1>8, <1>9

\* The pool as the kernel starts its first process.
Pool == [free |-> 1 .. NFRAMES, content |-> [f \in 0 .. NFRAMES |-> "junk"],
         entry |-> NoSpace, ok |-> TRUE, page |-> 0, src |-> NoSpace, turns |-> 0,
         abandoned |-> {}, starved |-> FALSE]

\* At boot every frame is free.
LEMMA PoolSound ==
    Sound(Pool, {}) /\ Pool.entry = NoSpace
<1>1. NoSpace \in PageTables /\ \A x \in Entries : NoSpace[x] \notin Usable
  BY NoSpaceIs
<1>2. Pool \in Memories
  BY <1>1, UsableFrames DEF Pool, Memories, Usable, Frames, Contents
<1>3. Pool.entry = NoSpace /\ Pool.free = Usable /\ Pool.abandoned = {}
  BY DEF Pool, Usable
<1>4. Apart(NoSpace, {}, Usable, {}) /\ NoLeak(NoSpace, {}, Usable, {})
  BY <1>1 DEF Apart, NoLeak
<1> QED
  BY <1>2, <1>3, <1>4 DEF Sound

\* The first process has its program; memory may have run out on its stack.
LEMMA InitInv == SpaceInit => SpacesInv
<1> SUFFICES ASSUME SpaceInit
             PROVE  SpacesInv
  OBVIOUS
<1> DEFINE c == create(Pool)
           l == load(c)
           s == create_user_stack(l)
           first == CHOOSE q \in Procs : TRUE
<1>1. /\ c.ok /\ free = s.free /\ content = s.content
      /\ space = [p \in Procs |-> IF state[p] = "run" THEN s.entry ELSE NoSpace]
      /\ abandoned = s.abandoned
      /\ starved = s.starved
  BY DEF SpaceInit, Pool
<1>2. /\ state = [p \in Procs |-> IF p = first THEN "run" ELSE "none"]
      /\ mmap_next = [p \in Procs |-> 0]
  BY DEF SpaceInit
<1>3. Sound(c, {}) /\ Made(Pool, c)
  BY PoolSound, CreateSound
<1>4. first \in Procs
  BY SpaceAssumption
<1> HIDE DEF c, first
<1>5. /\ \A va \in VAs : va # fb => c.entry[va] = Absent
      /\ c.entry[fb] = FB /\ (c.ok \/ c.starved)
  BY <1>1, <1>3, PagesAre DEF Made
<1>6. Loaded(c, l, {}, IMAGE)
  BY <1>3, <1>5, LoadSound
<1> HIDE DEF l
<1>7. Sound(l, {})
      /\ \A va \in VAs : (\A i \in 1 .. IMAGE : va # ImagePages[i]) => l.entry[va] = c.entry[va]
  BY <1>6 DEF Loaded
<1>8. \A i \in 1 .. STACK : l.entry[StackPages[i]] = Absent
  <2> SUFFICES ASSUME NEW i \in 1 .. STACK
               PROVE  l.entry[StackPages[i]] = Absent
    OBVIOUS
  <2>1. StackPages[i] \in VAs /\ StackPages[i] # fb
    BY StackPagesAre
  <2>2. \A j \in 1 .. IMAGE : StackPages[i] # ImagePages[j]
    BY DEF StackPages, ImagePages
  <2> QED
    BY <1>5, <1>7, <2>1, <2>2
<1>9. Stacked(l, s, {}, STACK)
  BY <1>7, <1>8, StackSound
<1> HIDE DEF s
<1>10. Sound(s, {})
  BY <1>9 DEF Stacked
<1>11. /\ s.entry[fb] = FB
       /\ s.starved \/ Full(s.entry, 0)
  BY <1>5, <1>6, <1>9, ProgramFull
<1>12. /\ s \in Memories /\ Apart(s.entry, {}, s.free, s.abandoned)
       /\ ~ s.starved => NoLeak(s.entry, {}, s.free, s.abandoned)
  BY <1>10 DEF Sound
<1>13. \A p \in Procs : /\ state[p] = IF p = first THEN "run" ELSE "none"
                        /\ space[p] = IF p = first THEN s.entry ELSE NoSpace
                        /\ mmap_next[p] = 0
  BY <1>1, <1>2
<1>14. SpacesTyped
  <2>1. s.entry \in PageTables /\ s.free \in SUBSET Frames /\ s.content \in [Frames -> Contents]
        /\ s.abandoned \in SUBSET Usable
    BY <1>12 DEF Memories
  <2>2. starved \in BOOLEAN
    BY <1>1, <1>12 DEF Memories
  <2>3. state \in [Procs -> {"none", "run", "dead"}] /\ mmap_next \in [Procs -> 0 .. MMAP]
    BY <1>2, SpaceAssumption
  <2>4. space \in [Procs -> PageTables]
    BY <1>1, <2>1, NoSpaceIs
  <2> QED
    BY <1>1, <2>1, <2>2, <2>3, <2>4 DEF SpacesTyped
<1>15. SpacesFull
  <2>1. starved \/ Full(s.entry, 0)
    BY <1>1, <1>11
  <2> QED
    BY <1>11, <1>13, <2>1 DEF SpacesFull, Running
<1>16. SpacesApart
  <2>0. starved \/ NoLeak(s.entry, {}, s.free, s.abandoned)
    BY <1>1, <1>12
  <2>1. \A x \in Entries : NoSpace[x] \notin Usable
    BY NoSpaceIs
  <2>2. Rest(space, first) = {}
    BY <1>13, <2>1 DEF Rest
  <2>3. \A p \in Procs : p # first => Rest(space, p) = Owns(s.entry)
    BY <1>4, <1>13, <2>1 DEF Rest, Owns
  <2>4. /\ Apart(NoSpace, Owns(s.entry), s.free, s.abandoned)
        /\ NoLeak(s.entry, {}, s.free, s.abandoned) =>
              NoLeak(NoSpace, Owns(s.entry), s.free, s.abandoned)
    BY <1>12, <2>1 DEF Apart, NoLeak, Owns
  <2>5. free = s.free /\ abandoned = s.abandoned
    BY <1>1
  <2> SUFFICES ASSUME NEW p \in Procs
               PROVE  /\ Apart(space[p], Rest(space, p), free, abandoned)
                      /\ starved \/ NoLeak(space[p], Rest(space, p), free, abandoned)
    BY DEF SpacesApart
  <2>6. CASE p = first
    <3>1. space[p] = s.entry /\ Rest(space, p) = {}
      BY <1>13, <2>2, <2>6
    <3> QED
      BY <1>12, <2>0, <2>5, <3>1
  <2>7. CASE p # first
    <3>1. space[p] = NoSpace /\ Rest(space, p) = Owns(s.entry)
      BY <1>13, <2>3, <2>7
    <3> QED
      BY <2>0, <2>4, <2>5, <3>1
  <2> QED
    BY <2>6, <2>7
<1> QED
  BY <1>14, <1>15, <1>16 DEF SpacesInv

\* Every step preserves the invariant.
LEMMA NextInv ==
  ASSUME SpacesInv, SpaceNext
  PROVE  SpacesInv'
<1>1. PICK p \in Procs :
        \/ \E va \in VAs : store(p, va)
        \/ \E n \in 1 .. 2 : sys_mmap(p, n)
        \/ \E missing \in BOOLEAN : exec_fails(p, missing)
        \/ exec_current(p)
        \/ \E c \in Procs, heap \in BOOLEAN : clone(p, c, heap)
        \/ exit(p)
        \/ remove_and_destroy(p)
  BY DEF SpaceNext
<1>2. CASE \E va \in VAs : store(p, va)
  BY <1>2, StoreInv
<1>3. CASE \E n \in 1 .. 2 : sys_mmap(p, n)
  BY <1>3, MmapInv
<1>4. CASE \E missing \in BOOLEAN : exec_fails(p, missing)
  BY <1>4, ExecFailsInv
<1>5. CASE exec_current(p)
  BY <1>5, ExecInv
<1>6. CASE \E c \in Procs, heap \in BOOLEAN : clone(p, c, heap)
  BY <1>6, CloneInv
<1>7. CASE exit(p)
  BY <1>7, ExitInv
<1>8. CASE remove_and_destroy(p)
  BY <1>8, RemoveInv
<1> QED
  BY <1>1, <1>2, <1>3, <1>4, <1>5, <1>6, <1>7, <1>8

\* A stuttering step keeps the invariant.
LEMMA StutterInv ==
  ASSUME SpacesInv, UNCHANGED space_vars
  PROVE  SpacesInv'
<1> USE DEF space_vars
<1>1. SpacesTyped'
  BY DEF SpacesInv, SpacesTyped
<1>2. SpacesApart'
  BY DEF SpacesInv, SpacesApart
<1>3. SpacesFull'
  BY DEF SpacesInv, SpacesFull, Running
<1> QED
  BY <1>1, <1>2, <1>3 DEF SpacesInv

\* Whichever space is at hand, it is apart from the rest of memory; nothing is
\* lost until memory runs out; a running process has its program.
THEOREM SpacesInvariant == SpaceSpec => []SpacesInv
<1>1. SpacesInv /\ [SpaceNext]_space_vars => SpacesInv'
  BY NextInv, StutterInv
<1> QED
  BY InitInv, <1>1, PTL DEF SpaceSpec

----------------------------------------------------------------------------
\* Frames that are apart have one holder.
LEMMA InvExclusive == SpacesInv => Exclusive
<1> SUFFICES ASSUME SpacesInv
             PROVE  Exclusive
  OBVIOUS
<1>1. FB \notin free
  BY UsableFrames DEF SpacesInv, SpacesTyped
<1>2. ASSUME NEW f \in Usable, NEW p \in Procs, NEW x \in Entries, space[p][x] = f
      PROVE  f \notin free /\ f \notin abandoned
  BY <1>2 DEF SpacesInv, SpacesApart, Apart
<1>3. ASSUME NEW f \in Usable, NEW p \in Procs, NEW x \in Entries, space[p][x] = f,
             NEW q \in Procs, NEW y \in Entries, space[q][y] = f
      PROVE  p = q /\ x = y
  <2>0. Apart(space[p], Rest(space, p), free, abandoned)
    BY DEF SpacesInv, SpacesApart
  <2>1. CASE p = q
    BY <1>3, <2>0, <2>1 DEF Apart
  <2>2. CASE p # q
    <3>1. f \in Rest(space, p)
      BY <1>3, <2>2 DEF Rest
    <3> QED
      BY <1>3, <2>0, <3>1 DEF Apart
  <2> QED
    BY <2>1, <2>2
<1>4. ASSUME NEW f \in Usable
      PROVE  Cardinality(Holders(f)) <= 1
  <2>1. CASE Holders(f) = {}
    BY <2>1, FS_EmptySet
  <2>2. CASE Holders(f) # {}
    <3>1. PICK h \in Holders(f) : TRUE
      BY <2>2
    <3>2. \A g \in Holders(f) : g = h
      <4> SUFFICES ASSUME NEW g \in Holders(f)
                   PROVE  g = h
        OBVIOUS
      <4>1. /\ g \in Procs \X Entries /\ space[g[1]][g[2]] = f
            /\ h \in Procs \X Entries /\ space[h[1]][h[2]] = f
        BY DEF Holders
      <4>2. g[1] = h[1] /\ g[2] = h[2]
        BY <1>3, <4>1
      <4> QED
        BY <4>1, <4>2
    <3>3. Holders(f) = {h}
      BY <3>1, <3>2
    <3>4. Cardinality({h}) = 1
      BY FS_Singleton, Zenon
    <3> QED
      BY <3>3, <3>4
  <2> QED
    BY <2>1, <2>2
<1>5. ASSUME NEW f \in Usable, f \in free \cup abandoned
      PROVE  Holders(f) = {}
  BY <1>2, <1>5 DEF Holders
<1>6. ASSUME NEW f \in Usable
      PROVE  f \notin free \cap abandoned
  <2>1. PICK p \in Procs : TRUE
    BY SpaceAssumption
  <2> QED
    BY <2>1 DEF SpacesInv, SpacesApart, Apart
<1> QED
  BY <1>1, <1>4, <1>5, <1>6 DEF Exclusive, Usable

\* A full space has the pages that Complete asks for.
LEMMA InvComplete == SpacesInv => Complete
<1> SUFFICES ASSUME SpacesInv, NEW p \in Procs, Running(p), ~ starved
             PROVE  Mapped(On(p)) = Elements(ImagePages) \cup Elements(StackPages) \cup {fb}
                                      \cup {<<"mmap", i>> : i \in 1 .. mmap_next[p]}
  BY DEF Complete
<1> DEFINE n == mmap_next[p]
           e == space[p]
<1>1. n \in 0 .. MMAP /\ MMAP \in Nat
  BY SpaceAssumption DEF SpacesInv, SpacesTyped
<1>2. Full(e, n)
  BY DEF SpacesInv, SpacesFull
<1>3. Mapped(On(p)) = {va \in VAs : e[va] # Absent}
  BY AtHand DEF Mapped
<1>4. Elements(ImagePages) = {<<"image", i>> : i \in 1 .. IMAGE}
  BY ImagePagesAre DEF Elements, ImagePages
<1>5. Elements(StackPages) = {<<"stack", i>> : i \in 1 .. STACK}
  BY StackPagesAre DEF Elements, StackPages
<1> HIDE DEF n, e
<1>6. {va \in VAs : e[va] # Absent} = {va \in Pages : ~ \E i \in n + 1 .. MMAP : va = <<"mmap", i>>}
  BY <1>2, VAsArePages DEF Full
<1> DEFINE S == {<<"image", i>> : i \in 1 .. IMAGE} \cup {<<"stack", i>> : i \in 1 .. STACK} \cup {fb}
                  \cup {<<"mmap", i>> : i \in 1 .. n}
<1>7. ASSUME NEW va \in Pages, ~ \E i \in n + 1 .. MMAP : va = <<"mmap", i>>
      PROVE  va \in S
  <2>1. CASE \E i \in 1 .. MMAP : va = <<"mmap", i>>
    <3>1. PICK i \in 1 .. MMAP : va = <<"mmap", i>>
      BY <2>1
    <3>2. i \notin n + 1 .. MMAP
      BY <1>7, <3>1
    <3>3. i \in 1 .. n
      BY <1>1, <3>2
    <3> QED
      BY <3>1, <3>3
  <2>2. CASE ~ \E i \in 1 .. MMAP : va = <<"mmap", i>>
    BY <2>2 DEF Pages
  <2> QED
    BY <2>1, <2>2
<1>8. ASSUME NEW va \in S
      PROVE  va \in Pages /\ ~ \E i \in n + 1 .. MMAP : va = <<"mmap", i>>
  <2>1. CASE \E i \in 1 .. n : va = <<"mmap", i>>
    <3>1. PICK i \in 1 .. n : va = <<"mmap", i>>
      BY <2>1
    <3>2. i \in 1 .. MMAP /\ i \notin n + 1 .. MMAP
      BY <1>1
    <3> QED
      BY <3>1, <3>2 DEF Pages
  <2>2. CASE ~ \E i \in 1 .. n : va = <<"mmap", i>>
    BY <2>2 DEF Pages, fb
  <2> QED
    BY <2>1, <2>2
<1>9. {va \in Pages : ~ \E i \in n + 1 .. MMAP : va = <<"mmap", i>>} = S
  BY <1>7, <1>8
<1> QED
  BY <1>3, <1>4, <1>5, <1>6, <1>9 DEF n

\* Whatever the calls and wherever memory runs out, no frame is in two
\* entries of page tables or mapped while it is free, and until memory runs
\* out a process has exactly its program, its stack and its mapped pages.
THEOREM SpacesStaySound == SpaceSpec => []SpacesSound
<1>1. SpacesInv => SpacesSound
  BY InvExclusive, InvComplete DEF SpacesSound
<1> QED
  BY <1>1, SpacesInvariant, PTL

\* Until memory runs out, no frame but those of page tables is lost.
THEOREM OnlyTablesAreLost == SpaceSpec => []OnlyTablesLeak
<1>1. SpacesInv => OnlyTablesLeak
  <2> SUFFICES ASSUME SpacesInv, ~ starved, NEW f \in Usable, f \notin free \cup abandoned
               PROVE  Holders(f) # {}
    BY DEF OnlyTablesLeak, Usable
  <2>1. PICK p \in Procs : TRUE
    BY SpaceAssumption
  <2>2. f \in Rest(space, p) \/ \E x \in Entries : space[p][x] = f
    BY <2>1 DEF SpacesInv, SpacesApart, NoLeak
  <2>3. \E q \in Procs, x \in Entries : space[q][x] = f
    BY <2>1, <2>2 DEF Rest
  <2>4. PICK q \in Procs, x \in Entries : space[q][x] = f
    BY <2>3
  <2>5. <<q, x>> \in Holders(f)
    BY <2>4 DEF Holders
  <2> QED
    BY <2>5
<1> QED
  BY <1>1, SpacesInvariant, PTL

----------------------------------------------------------------------------
\* What a process reads, from its entries and the frames.
LEMMA SeesIs ==
  ASSUME SpacesInv, NEW p \in Procs
  PROVE  Sees(p) = View(space[p], content)
<1>1. Mapped(On(p)) = {va \in VAs : space[p][va] # Absent}
  BY AtHand DEF Mapped
<1> QED
  BY <1>1 DEF Sees, View

\* A step that starts a process is the fork of one that runs.
LEMMA StartsByFork ==
  ASSUME SpacesInv, SpaceNext, NEW c \in Procs, state[c] = "none", state'[c] = "run"
  PROVE  \E p \in Procs : Running(p) /\ View(space'[c], content') = View(space[p], content)
<1>0. state \in [Procs -> {"none", "run", "dead"}]
  BY DEF SpacesInv, SpacesTyped
<1>1. PICK p \in Procs :
        \/ \E va \in VAs : store(p, va)
        \/ \E n \in 1 .. 2 : sys_mmap(p, n)
        \/ \E missing \in BOOLEAN : exec_fails(p, missing)
        \/ exec_current(p)
        \/ \E d \in Procs, heap \in BOOLEAN : clone(p, d, heap)
        \/ exit(p)
        \/ remove_and_destroy(p)
  BY DEF SpaceNext
<1>2. CASE \E va \in VAs : store(p, va)
  BY <1>2 DEF store
<1>3. CASE \E n \in 1 .. 2 : sys_mmap(p, n)
  BY <1>3 DEF sys_mmap
<1>4. CASE \E missing \in BOOLEAN : exec_fails(p, missing)
  BY <1>4 DEF exec_fails
<1>5. CASE exec_current(p)
  <2>1. Running(p)
    BY <1>5 DEF exec_current
  <2>2. c # p
    BY <2>1 DEF Running
  <2> QED
    BY <1>5, <2>2, ExecInv
<1>6. CASE \E d \in Procs, heap \in BOOLEAN : clone(p, d, heap)
  <2>1. PICK d \in Procs, heap \in BOOLEAN : clone(p, d, heap)
    BY <1>6
  <2>2. /\ Running(p)
        /\ \A q \in Procs : q # d => state'[q] = state[q]
        /\ state'[d] = "run" => View(space'[d], content') = View(space[p], content)
    BY <2>1, CloneInv
  <2>3. d = c
    BY <2>2
  <2> QED
    BY <2>2, <2>3
<1>7. CASE exit(p)
  BY <1>0, <1>7 DEF exit
<1>8. CASE remove_and_destroy(p)
  BY <1>0, <1>8 DEF remove_and_destroy
<1> QED
  BY <1>1, <1>2, <1>3, <1>4, <1>5, <1>6, <1>7, <1>8

\* A page of mmap that a step adds to a running process is zero.
LEMMA AddedZero ==
  ASSUME SpacesInv, SpaceNext, NEW q \in Procs, Running(q), NEW i \in 1 .. MMAP,
         NEW va, va = <<"mmap", i>>, space[q][va] = Absent, space'[q][va] # Absent
  PROVE  content'[space'[q][va]] = "zero"
<1>0. space \in [Procs -> PageTables] /\ va \in VAs
  BY MmapPagesAre DEF SpacesInv, SpacesTyped
<1>1. PICK p \in Procs :
        \/ \E v \in VAs : store(p, v)
        \/ \E n \in 1 .. 2 : sys_mmap(p, n)
        \/ \E missing \in BOOLEAN : exec_fails(p, missing)
        \/ exec_current(p)
        \/ \E d \in Procs, heap \in BOOLEAN : clone(p, d, heap)
        \/ exit(p)
        \/ remove_and_destroy(p)
  BY DEF SpaceNext
<1>2. CASE \E v \in VAs : store(p, v)
  BY <1>2 DEF store
<1>3. CASE \E n \in 1 .. 2 : sys_mmap(p, n)
  <2>1. /\ \A r \in Procs : r # p => space'[r] = space[r]
        /\ \A v \in VAs : space'[p][v] = space[p][v] \/ content'[space'[p][v]] = "zero"
    BY <1>3, MmapInv
  <2> QED
    BY <1>0, <2>1
<1>4. CASE \E missing \in BOOLEAN : exec_fails(p, missing)
  <2>1. space' = space
    BY <1>4, ExecFailsInv
  <2> QED
    BY <2>1
<1>5. CASE exec_current(p)
  <2>1. /\ \A r \in Procs : r # p => space'[r] = space[r]
        /\ space'[p][va] = Absent
    BY <1>5, ExecInv
  <2> QED
    BY <2>1
<1>6. CASE \E d \in Procs, heap \in BOOLEAN : clone(p, d, heap)
  <2>1. PICK d \in Procs, heap \in BOOLEAN : clone(p, d, heap)
    BY <1>6
  <2>2. state[d] = "none" /\ \A r \in Procs : r # d => space'[r] = space[r]
    BY <2>1, CloneInv
  <2> QED
    BY <2>2 DEF Running
<1>7. CASE exit(p)
  BY <1>7 DEF exit
<1>8. CASE remove_and_destroy(p)
  <2>1. space' = [space EXCEPT ![p] = space'[p]]
    BY <1>0, <1>8 DEF remove_and_destroy, Commit
  <2>2. space'[p] = NoSpace
    BY <1>8, RemoveInv
  <2>3. q # p => space'[q] = space[q]
    BY <1>0, <2>1
  <2>4. NoSpace[va] = Absent
    BY <1>0, NoSpaceIs DEF Entries
  <2> QED
    BY <2>2, <2>3, <2>4
<1> QED
  BY <1>1, <1>2, <1>3, <1>4, <1>5, <1>6, <1>7, <1>8

\* A child of fork starts with its parent's memory, page by page, and a page
\* that mmap adds is zero, whoever had the frames before.
THEOREM SpacesStartFresh == SpaceSpec => FreshSpaces
<1>1. ASSUME SpacesInv, SpacesInv', [SpaceNext]_space_vars
      PROVE  [\A c \in Procs : state[c] = "none" /\ state'[c] = "run" =>
                \E p \in Procs : Running(p) /\ Sees(c)' = Sees(p)]_space_vars
  <2> SUFFICES ASSUME SpaceNext, NEW c \in Procs, state[c] = "none", state'[c] = "run"
               PROVE  \E p \in Procs : Running(p) /\ Sees(c)' = Sees(p)
    BY <1>1
  <2>1. PICK p \in Procs : Running(p) /\ View(space'[c], content') = View(space[p], content)
    BY <1>1, StartsByFork
  <2>2. Sees(p) = View(space[p], content)
    BY <1>1, SeesIs
  <2>3. Sees(c)' = View(space'[c], content')
    <3>0. On(c)'.entry = space'[c]
      BY DEF On, Memory
    <3>1. Mapped(On(c))' = {va \in VAs : space'[c][va] # Absent}
      BY <3>0 DEF Mapped
    <3> QED
      BY <3>1 DEF Sees, View
  <2> QED
    BY <2>1, <2>2, <2>3
<1>2. ASSUME SpacesInv, [SpaceNext]_space_vars
      PROVE  [\A p \in Procs : \A i \in 1 .. MMAP : LET va == <<"mmap", i>> IN
                Running(p) /\ space[p][va] = Absent /\ space'[p][va] # Absent =>
                  content'[space'[p][va]] = "zero"]_space_vars
  BY <1>2, AddedZero
<1> QED
  BY <1>1, <1>2, SpacesInvariant, PTL DEF SpaceSpec, FreshSpaces, ForkCopies, FreshPagesZero
=============================================================================
