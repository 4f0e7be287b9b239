------------------------------ MODULE FdsProofs -----------------------------
(***************************************************************************)
(* The pipe counts and the file handles of Fds, for any number of          *)
(* processes, descriptors, pipes and handles.                              *)
(*                                                                         *)
(* NoRecycling and CountsExact are proved together, as AllRight: sys_close *)
(* frees a slot because the counts are at least the ends that exist, and   *)
(* the counts stay so because sys_pipe only takes a slot without ends.     *)
(* Unused completes the invariant: clone gives the child a table that was  *)
(* empty.  The first half counts: Ends is a cardinality over all tables,   *)
(* and the lemmas say what one changed entry or table does to it.          *)
(* HandlesLive then follows on top of that invariant.                      *)
(***************************************************************************)
EXTENDS Fds, FiniteSetTheorems, FunctionTheorems, WellFoundedInduction, TLAPS

Entries == {FD_NONE} \cup {FD_FILE(h) : h \in Handles}
             \cup {FD_PIPE(p, e) : p \in Pipes, e \in {"r", "w"}}
Table == [Fd -> Entries]

\* The places of this end in the tables F, and the share of one entry.
Places(F, p, e) == {xf \in Procs \X Fd : F[xf[1]][xf[2]] = FD_PIPE(p, e)}
One(v, p, e) == IF v = FD_PIPE(p, e) THEN 1 ELSE 0

\* The entries of a table that are this end.
Row(t, p, e) == {fd \in Fd : t[fd] = FD_PIPE(p, e)}

\* The lowest of a set of descriptors is one of them.
LEMMA LowestIsIn == ASSUME NEW S \in SUBSET Nat, S # {} PROVE Min(S) \in S
<1>1. PICK x \in S : \A y \in S : ~ (<<y, x>> \in OpToRel(<, Nat))
  BY NatLessThanWellFounded, WFMin
<1>2. \A y \in S : x <= y
  <2> SUFFICES ASSUME NEW y \in S, y < x PROVE FALSE
    OBVIOUS
  <2>1. <<y, x>> \in Nat \X Nat /\ <<y, x>>[1] < <<y, x>>[2]
    OBVIOUS
  <2> QED
    BY <1>1, <2>1 DEF OpToRel
<1> QED
  BY <1>2 DEF Min

\* There are finitely many descriptors and places.
LEMMA Finite ==
    /\ IsFiniteSet(Fd)
    /\ \A t, p, e : IsFiniteSet(Row(t, p, e)) /\ Cardinality(Row(t, p, e)) \in Nat
    /\ \A F, p, e : IsFiniteSet(Places(F, p, e)) /\ Cardinality(Places(F, p, e)) \in Nat
<1>1. IsFiniteSet(Fd)
  BY FdsAssumption, FS_Interval DEF Fd
<1>2. IsFiniteSet(Procs \X Fd)
  BY <1>1, FdsAssumption, FS_Product
<1>3. ASSUME NEW t, NEW p, NEW e
      PROVE  IsFiniteSet(Row(t, p, e)) /\ Cardinality(Row(t, p, e)) \in Nat
  <2>1. Row(t, p, e) \in SUBSET Fd
    BY DEF Row
  <2> QED
    BY <1>1, <2>1, FS_Subset, FS_CardinalityType
<1>4. ASSUME NEW F, NEW p, NEW e
      PROVE  IsFiniteSet(Places(F, p, e)) /\ Cardinality(Places(F, p, e)) \in Nat
  <2>1. Places(F, p, e) \in SUBSET (Procs \X Fd)
    BY DEF Places
  <2> QED
    BY <1>2, <2>1, FS_Subset, FS_CardinalityType
<1> QED
  BY <1>1, <1>3, <1>4

\* Count of a whole table and of a single entry.
LEMMA Counts ==
    /\ \A t \in Table : \A p, e : Count(t, p, e) = Cardinality(Row(t, p, e))
    /\ \A v, fd, p, e : Count([f \in {fd} |-> v], p, e) = One(v, p, e)
<1>1. ASSUME NEW t \in Table, NEW p, NEW e
      PROVE  Count(t, p, e) = Cardinality(Row(t, p, e))
  BY DEF Count, Row, Table
<1>2. ASSUME NEW v, NEW fd, NEW p, NEW e
      PROVE  Count([f \in {fd} |-> v], p, e) = One(v, p, e)
  <2> DEFINE S == {g \in {fd} : [f \in {fd} |-> v][g] = FD_PIPE(p, e)}
  <2>1. DOMAIN [f \in {fd} |-> v] = {fd}
    OBVIOUS
  <2>2. Count([f \in {fd} |-> v], p, e) = Cardinality(S)
    BY <2>1 DEF Count
  <2>3. CASE v = FD_PIPE(p, e)
    <3>1. S = {fd}
      BY <2>3
    <3> QED
      BY <2>2, <2>3, <3>1, FS_Singleton DEF One
  <2>4. CASE v # FD_PIPE(p, e)
    <3>1. S = {}
      BY <2>4
    <3> QED
      BY <2>2, <2>4, <3>1, FS_EmptySet DEF One
  <2> QED
    BY <2>3, <2>4
<1> QED
  BY <1>1, <1>2

\* Overwriting one entry of a table.
LEMMA EntryChange ==
    ASSUME NEW t \in Table, NEW fd \in Fd, NEW v \in Entries, NEW p, NEW e
    PROVE  /\ [t EXCEPT ![fd] = v] \in Table
           /\ Count([t EXCEPT ![fd] = v], p, e)
                = Count(t, p, e) - One(t[fd], p, e) + One(v, p, e)
           /\ One(t[fd], p, e) <= Count(t, p, e)
<1> DEFINE u == [t EXCEPT ![fd] = v]
           S == Row(t, p, e)
<1>1. u \in Table
  BY DEF Table
<1>2. Row(u, p, e) = IF v = FD_PIPE(p, e) THEN S \cup {fd} ELSE S \ {fd}
  BY DEF Row, Table
<1>3. fd \in S <=> t[fd] = FD_PIPE(p, e)
  BY DEF Row
<1>4. IsFiniteSet(S) /\ Cardinality(S) \in Nat
  BY Finite
<1> HIDE DEF S, u
<1>5. /\ Cardinality(S \cup {fd}) = IF fd \in S THEN Cardinality(S) ELSE Cardinality(S) + 1
      /\ Cardinality(S \ {fd}) = IF fd \in S THEN Cardinality(S) - 1 ELSE Cardinality(S)
  BY <1>4, FS_AddElement, FS_RemoveElement
<1>6. fd \in S => Cardinality(S) # 0
  BY <1>4, FS_EmptySet
<1>7. Cardinality(Row(u, p, e)) = Cardinality(S) - One(t[fd], p, e) + One(v, p, e)
  BY <1>2, <1>3, <1>4, <1>5 DEF One
<1>8. One(t[fd], p, e) <= Cardinality(S)
  BY <1>3, <1>4, <1>6 DEF One
<1> QED
  BY <1>1, <1>7, <1>8, Counts DEF S, u

\* What becomes of the places of an end when a table t in F is replaced by u.
Replaced(F, G, t, u, p, e) ==
    /\ Cardinality(Places(G, p, e))
         = Cardinality(Places(F, p, e)) - Count(t, p, e) + Count(u, p, e)
    /\ Count(t, p, e) \in Nat /\ Count(u, p, e) \in Nat
    /\ Cardinality(Places(F, p, e)) \in Nat
    /\ Count(t, p, e) <= Cardinality(Places(F, p, e))

\* Replacing one table.
LEMMA TableChange ==
    ASSUME NEW F \in [Procs -> Table], NEW x \in Procs, NEW u \in Table,
           NEW G, G = [F EXCEPT ![x] = u], NEW p, NEW e
    PROVE  G \in [Procs -> Table] /\ Replaced(F, G, F[x], u, p, e)
<1> DEFINE In(t) == {<<x, fd>> : fd \in Row(t, p, e)}
           Rest == {xf \in Procs \X Fd : xf[1] # x /\ F[xf[1]][xf[2]] = FD_PIPE(p, e)}
<1>1. G \in [Procs -> Table] /\ F[x] \in Table
  OBVIOUS
<1>2. ASSUME NEW t \in Table
      PROVE  IsFiniteSet(In(t)) /\ Cardinality(In(t)) = Count(t, p, e) /\ Count(t, p, e) \in Nat
  <2> DEFINE f == [fd \in Row(t, p, e) |-> <<x, fd>>]
  <2>1. f \in Bijection(Row(t, p, e), In(t))
    <3>1. f \in [Row(t, p, e) -> In(t)]
      OBVIOUS
    <3>2. \A a, b \in Row(t, p, e) : f[a] = f[b] => a = b
      OBVIOUS
    <3>3. \A z \in In(t) : \E a \in Row(t, p, e) : f[a] = z
      OBVIOUS
    <3> QED
      BY <3>1, <3>2, <3>3, Fun_IsBij
  <2>2. ExistsBijection(Row(t, p, e), In(t))
    BY <2>1 DEF ExistsBijection
  <2> QED
    BY <2>2, Finite, FS_Bijection, Counts
<1>3. Places(F, p, e) = Rest \cup In(F[x]) /\ Rest \cap In(F[x]) = {}
  BY <1>1 DEF Places, Row
<1>4. Places(G, p, e) = Rest \cup In(u) /\ Rest \cap In(u) = {}
  BY <1>1 DEF Places, Row
<1>5. IsFiniteSet(Rest) /\ Cardinality(Rest) \in Nat
  <2>1. Rest \in SUBSET Places(F, p, e)
    BY <1>3
  <2> QED
    BY <2>1, Finite, FS_Subset, FS_CardinalityType
<1> HIDE DEF Rest, In
<1>6. /\ Cardinality(Places(F, p, e)) = Cardinality(Rest) + Count(F[x], p, e)
      /\ Cardinality(Places(G, p, e)) = Cardinality(Rest) + Count(u, p, e)
  <2>1. Cardinality({}) = 0
    BY FS_EmptySet
  <2>2. Cardinality(Rest \cup In(F[x])) = Cardinality(Rest) + Cardinality(In(F[x])) - Cardinality(Rest \cap In(F[x]))
    BY <1>1, <1>2, <1>5, FS_Union
  <2>3. Cardinality(Rest \cup In(u)) = Cardinality(Rest) + Cardinality(In(u)) - Cardinality(Rest \cap In(u))
    BY <1>2, <1>5, FS_Union
  <2>4. /\ Cardinality(Rest \cap In(F[x])) = 0 /\ Cardinality(Rest \cap In(u)) = 0
        /\ Cardinality(Places(F, p, e)) = Cardinality(Rest \cup In(F[x]))
        /\ Cardinality(Places(G, p, e)) = Cardinality(Rest \cup In(u))
    BY <1>3, <1>4, <2>1, Zenon
  <2>5. /\ Cardinality(In(F[x])) = Count(F[x], p, e) /\ Count(F[x], p, e) \in Nat
        /\ Cardinality(In(u)) = Count(u, p, e) /\ Count(u, p, e) \in Nat
    BY <1>1, <1>2
  <2> QED
    BY <1>5, <2>2, <2>3, <2>4, <2>5
<1>7. Count(F[x], p, e) \in Nat /\ Count(u, p, e) \in Nat
  BY <1>1, <1>2
<1> QED
  BY <1>1, <1>5, <1>6, <1>7 DEF Replaced
----------------------------------------------------------------------------
NoFds == [fd \in Fd |-> FD_NONE]

TypeOK ==
    /\ proc \in [Procs -> {"unused", "live", "dead"}]
    /\ fds \in [Procs -> Table]
    /\ pipe_used \in [Pipes -> BOOLEAN]
    /\ readers \in [Pipes -> Int] /\ writers \in [Pipes -> Int]

\* A Process object that is not in use has an empty table.
Unused == \A y \in Procs : proc[y] = "unused" => fds[y] = NoFds

\* One pipe's counts against the ends that exist.
Right(r, w, er, ew, used, exact) ==
    /\ r >= er /\ w >= ew
    /\ er + ew > 0 => used
    /\ exact => r = er /\ w = ew /\ (used => er + ew > 0)

AllRight ==
    \A p \in Pipes \ uncounted :
        Right(readers[p], writers[p], Ends(p, "r"), Ends(p, "w"), pipe_used[p], p \notin leaked)

IInv == TypeOK /\ Unused /\ AllRight

\* The kinds of entries differ.
LEMMA Kinds ==
    /\ FD_NONE \in Entries /\ NoFds \in Table
    /\ \A p, e : One(FD_NONE, p, e) = 0
    /\ \A p, e, q, f : FD_PIPE(p, e) = FD_PIPE(q, f) <=> p = q /\ e = f
    /\ \A h, p, e : One(FD_FILE(h), p, e) = 0
<1>1. \A p, e : FD_NONE # FD_PIPE(p, e)
  BY DEF FD_NONE, FD_PIPE
<1>2. \A h, p, e : FD_FILE(h) # FD_PIPE(p, e)
  BY DEF FD_FILE, FD_PIPE
<1>3. \A p, e, q, f : FD_PIPE(p, e) = FD_PIPE(q, f) <=> p = q /\ e = f
  BY DEF FD_PIPE
<1>4. FD_NONE \in Entries /\ NoFds \in Table
  BY DEF Entries, NoFds, Table
<1> QED
  BY <1>1, <1>2, <1>3, <1>4 DEF One

\* An empty table holds no end.
LEMMA EmptyTable == \A p, e : Count(NoFds, p, e) = 0
<1> SUFFICES ASSUME NEW p, NEW e PROVE Count(NoFds, p, e) = 0
  OBVIOUS
<1>1. \A fd \in Fd : NoFds[fd] # FD_PIPE(p, e)
  BY Kinds DEF NoFds, One
<1>2. Row(NoFds, p, e) = {}
  BY <1>1 DEF Row
<1> QED
  BY <1>2, Kinds, Counts, FS_EmptySet

\* The ends that exist, when one process's table is replaced.
LEMMA EndsChange ==
    ASSUME TypeOK, NEW x \in Procs, NEW u \in Table, fds' = [fds EXCEPT ![x] = u]
    PROVE  /\ fds' \in [Procs -> Table]
           /\ \A p, e : /\ Ends(p, e)' = Ends(p, e) - Count(fds[x], p, e) + Count(u, p, e)
                        /\ Count(fds[x], p, e) \in Nat /\ Count(u, p, e) \in Nat
                        /\ Ends(p, e) \in Nat /\ Count(fds[x], p, e) <= Ends(p, e)
<1>1. fds \in [Procs -> Table]
  BY DEF TypeOK
<1>2. fds' \in [Procs -> Table]
  BY <1>1, TableChange
<1>3. ASSUME NEW p, NEW e
      PROVE  /\ Ends(p, e)' = Ends(p, e) - Count(fds[x], p, e) + Count(u, p, e)
             /\ Count(fds[x], p, e) \in Nat /\ Count(u, p, e) \in Nat
             /\ Ends(p, e) \in Nat /\ Count(fds[x], p, e) <= Ends(p, e)
  <2>1. Ends(p, e) = Cardinality(Places(fds, p, e))
    BY DEF Ends, Places
  <2>2. Ends(p, e)' = Cardinality(Places(fds', p, e))
    BY DEF Ends, Places
  <2>3. Replaced(fds, fds', fds[x], u, p, e)
    BY <1>1, TableChange, Zenon
  <2> QED
    BY <2>1, <2>2, <2>3 DEF Replaced
<1> QED
  BY <1>2, <1>3

\* The same when one entry is overwritten.
LEMMA EndsChangeEntry ==
    ASSUME TypeOK, NEW x \in Procs, NEW fd \in Fd, NEW v \in Entries,
           fds' = [fds EXCEPT ![x][fd] = v]
    PROVE  /\ fds' \in [Procs -> Table]
           /\ \A p, e : /\ Ends(p, e)' = Ends(p, e) - One(fds[x][fd], p, e) + One(v, p, e)
                        /\ Ends(p, e) \in Nat /\ One(fds[x][fd], p, e) <= Ends(p, e)
<1> DEFINE u == [fds[x] EXCEPT ![fd] = v]
<1>1. fds[x] \in Table
  BY DEF TypeOK
<1>2. /\ u \in Table
      /\ \A p, e : /\ Count(u, p, e) = Count(fds[x], p, e) - One(fds[x][fd], p, e) + One(v, p, e)
                   /\ One(fds[x][fd], p, e) <= Count(fds[x], p, e)
  BY <1>1, EntryChange
<1>3. fds' = [fds EXCEPT ![x] = u]
  BY DEF TypeOK
<1> HIDE DEF u
<1>4. /\ fds' \in [Procs -> Table]
      /\ \A p, e : /\ Ends(p, e)' = Ends(p, e) - Count(fds[x], p, e) + Count(u, p, e)
                   /\ Count(fds[x], p, e) \in Nat /\ Count(u, p, e) \in Nat
                   /\ Ends(p, e) \in Nat /\ Count(fds[x], p, e) <= Ends(p, e)
  BY <1>2, <1>3, EndsChange
<1>5. \A p, e : One(fds[x][fd], p, e) \in Nat /\ One(v, p, e) \in Nat
  BY DEF One
<1> QED
  BY <1>2, <1>4, <1>5

\* Adjust of a single entry.
LEMMA AdjustEntry ==
    ASSUME TypeOK, NEW x \in Procs, NEW fd \in Fd, NEW s \in {-1, 1}, Adjust(Only(x, fd), s)
    PROVE  /\ readers' \in [Pipes -> Int] /\ writers' \in [Pipes -> Int]
           /\ \A p \in Pipes : /\ readers'[p] = readers[p] + s * One(fds[x][fd], p, "r")
                               /\ writers'[p] = writers[p] + s * One(fds[x][fd], p, "w")
                               /\ p \in PipesIn(Only(x, fd)) <=>
                                    One(fds[x][fd], p, "r") + One(fds[x][fd], p, "w") > 0
<1>1. \A p, e : Count(Only(x, fd), p, e) = One(fds[x][fd], p, e)
  BY Counts DEF Only
<1>2. \A p, e : One(fds[x][fd], p, e) \in {0, 1}
  BY DEF One
<1> QED
  BY <1>1, <1>2 DEF Adjust, PipesIn, TypeOK

\* The same of a table.
LEMMA AdjustTable ==
    ASSUME TypeOK, NEW x \in Procs, NEW s \in {-1, 1}, Adjust(fds[x], s)
    PROVE  /\ readers' \in [Pipes -> Int] /\ writers' \in [Pipes -> Int]
           /\ \A p \in Pipes : /\ readers'[p] = readers[p] + s * Count(fds[x], p, "r")
                               /\ writers'[p] = writers[p] + s * Count(fds[x], p, "w")
                               /\ p \in PipesIn(fds[x]) <=>
                                    Count(fds[x], p, "r") + Count(fds[x], p, "w") > 0
<1>1. \A p, e : Count(fds[x], p, e) \in Nat
  BY Counts, Finite DEF TypeOK
<1> QED
  BY <1>1 DEF Adjust, PipesIn, TypeOK
----------------------------------------------------------------------------
\* Nobody has an end of a pipe at first.
LEMMA InitIInv == Init => IInv
<1> SUFFICES ASSUME Init PROVE IInv
  OBVIOUS
<1>1. TypeOK /\ Unused
  <2>1. pipe_used \in [Pipes -> BOOLEAN]
    BY DEF Init
  <2> QED
    BY <2>1, Kinds DEF Init, TypeOK, Unused, NoFds
<1>2. ASSUME NEW p, NEW e PROVE Ends(p, e) = 0
  <2>1. \A xf \in Procs \X Fd : fds[xf[1]][xf[2]] # FD_PIPE(p, e)
    BY Kinds DEF Init, One
  <2>2. {xf \in Procs \X Fd : fds[xf[1]][xf[2]] = FD_PIPE(p, e)} = {}
    BY <2>1
  <2> QED
    BY <2>2, FS_EmptySet DEF Ends
<1>3. \A p \in Pipes : readers[p] = 0 /\ writers[p] = 0 /\ ~ pipe_used[p]
  BY DEF Init
<1>4. AllRight
  BY <1>2, <1>3 DEF AllRight, Right
<1> QED
  BY <1>1, <1>4 DEF IInv

\* The steps that change one entry and count it, or count nothing.
LEMMA CloseKeeps ==
    ASSUME IInv, NEW x \in Procs, proc[x] = "live", NEW fd \in Fd, sys_close(x, fd)
    PROVE  IInv'
<1> USE DEF IInv
<1>1. /\ fds' = [fds EXCEPT ![x][fd] = FD_NONE] /\ Adjust(Only(x, fd), -1)
      /\ UNCHANGED <<proc, uncounted, leaked>>
  BY DEF sys_close
<1>2. /\ fds' \in [Procs -> Table]
      /\ \A p, e : /\ Ends(p, e)' = Ends(p, e) - One(fds[x][fd], p, e)
                   /\ Ends(p, e) \in Nat /\ One(fds[x][fd], p, e) <= Ends(p, e)
                   /\ One(fds[x][fd], p, e) \in {0, 1}
  <2>1. /\ fds' \in [Procs -> Table]
        /\ \A p, e : /\ Ends(p, e)' = Ends(p, e) - One(fds[x][fd], p, e) + One(FD_NONE, p, e)
                     /\ Ends(p, e) \in Nat /\ One(fds[x][fd], p, e) <= Ends(p, e)
    BY <1>1, Kinds, EndsChangeEntry
  <2>2. \A p, e : One(fds[x][fd], p, e) \in {0, 1} /\ One(FD_NONE, p, e) = 0
    BY Kinds DEF One
  <2> QED
    BY <2>1, <2>2
<1>3. /\ readers' \in [Pipes -> Int] /\ writers' \in [Pipes -> Int]
      /\ \A p \in Pipes : /\ readers'[p] = readers[p] - One(fds[x][fd], p, "r")
                          /\ writers'[p] = writers[p] - One(fds[x][fd], p, "w")
                          /\ p \in PipesIn(Only(x, fd)) <=>
                               One(fds[x][fd], p, "r") + One(fds[x][fd], p, "w") > 0
  <2>1. /\ readers' \in [Pipes -> Int] /\ writers' \in [Pipes -> Int]
        /\ \A p \in Pipes : /\ readers'[p] = readers[p] + (-1) * One(fds[x][fd], p, "r")
                            /\ writers'[p] = writers[p] + (-1) * One(fds[x][fd], p, "w")
                            /\ p \in PipesIn(Only(x, fd)) <=>
                                 One(fds[x][fd], p, "r") + One(fds[x][fd], p, "w") > 0
    BY <1>1, AdjustEntry
  <2> QED
    BY <2>1, <1>2 DEF TypeOK
<1>4. /\ pipe_used' \in [Pipes -> BOOLEAN]
      /\ \A p \in Pipes : pipe_used'[p] <=>
           pipe_used[p] /\ (p \in PipesIn(Only(x, fd)) => readers'[p] # 0 \/ writers'[p] # 0)
  BY DEF sys_close
<1>5. TypeOK' /\ Unused'
  BY <1>1, <1>2, <1>3, <1>4 DEF TypeOK, Unused
<1>6. AllRight'
  <2> SUFFICES ASSUME NEW p \in Pipes \ uncounted
               PROVE  Right(readers[p], writers[p], Ends(p, "r"), Ends(p, "w"),
                            pipe_used[p], p \notin leaked)'
    BY <1>1 DEF AllRight
  <2>1. Right(readers[p], writers[p], Ends(p, "r"), Ends(p, "w"), pipe_used[p], p \notin leaked)
    BY DEF AllRight
  <2>2. readers[p] \in Int /\ writers[p] \in Int
    BY DEF TypeOK
  <2> QED
    BY <1>1, <1>2, <1>3, <1>4, <2>1, <2>2 DEF Right
<1> QED
  BY <1>5, <1>6

\* A process holds no more ends than exist.
LEMMA HeldExist ==
    ASSUME TypeOK, NEW x \in Procs
    PROVE  /\ \A p, e : /\ Count(fds[x], p, e) \in Nat /\ Ends(p, e) \in Nat
                        /\ Count(fds[x], p, e) <= Ends(p, e)
           /\ \A fd \in Fd : \A p, e : /\ One(fds[x][fd], p, e) \in {0, 1}
                                       /\ One(fds[x][fd], p, e) <= Ends(p, e)
<1>1. fds \in [Procs -> Table] /\ fds[x] \in Table /\ fds = [fds EXCEPT ![x] = fds[x]]
  BY DEF TypeOK
<1>2. ASSUME NEW p, NEW e
      PROVE  /\ Count(fds[x], p, e) \in Nat /\ Ends(p, e) \in Nat
             /\ Count(fds[x], p, e) <= Ends(p, e)
  <2>1. Replaced(fds, fds, fds[x], fds[x], p, e)
    BY <1>1, TableChange, Zenon
  <2> QED
    BY <2>1 DEF Replaced, Ends, Places
<1>3. ASSUME NEW p, NEW e, NEW fd \in Fd
      PROVE  /\ One(fds[x][fd], p, e) \in {0, 1}
             /\ One(fds[x][fd], p, e) <= Ends(p, e)
  <2>1. One(fds[x][fd], p, e) <= Count(fds[x], p, e)
    BY <1>1, Kinds, EntryChange
  <2>2. One(fds[x][fd], p, e) \in {0, 1}
    BY DEF One
  <2> QED
    BY <1>2, <2>1, <2>2
<1> QED
  BY <1>2, <1>3

\* The ends that exist, when one entry is copied over another.
LEMMA EndsCopied ==
    ASSUME TypeOK, NEW x \in Procs, NEW from \in Fd, NEW to \in Fd,
           fds' = [fds EXCEPT ![x][to] = fds[x][from]]
    PROVE  /\ fds' \in [Procs -> Table]
           /\ \A p, e :
                /\ Ends(p, e)' = Ends(p, e) - One(fds[x][to], p, e) + One(fds[x][from], p, e)
                /\ Ends(p, e) \in Nat
                /\ One(fds[x][to], p, e) \in {0, 1} /\ One(fds[x][to], p, e) <= Ends(p, e)
                /\ One(fds[x][from], p, e) \in {0, 1} /\ One(fds[x][from], p, e) <= Ends(p, e)
<1>1. PICK v \in Entries : v = fds[x][from]
  BY DEF TypeOK, Table
<1>2. fds' = [fds EXCEPT ![x][to] = v]
  BY <1>1
<1>3. /\ fds' \in [Procs -> Table]
      /\ \A p, e : /\ Ends(p, e)' = Ends(p, e) - One(fds[x][to], p, e) + One(v, p, e)
                   /\ Ends(p, e) \in Nat /\ One(fds[x][to], p, e) <= Ends(p, e)
  BY <1>2, EndsChangeEntry
<1>4. ASSUME NEW p, NEW e
      PROVE  /\ One(fds[x][to], p, e) \in {0, 1} /\ One(fds[x][to], p, e) <= Ends(p, e)
             /\ One(fds[x][from], p, e) \in {0, 1} /\ One(fds[x][from], p, e) <= Ends(p, e)
  BY HeldExist
<1> QED
  BY <1>1, <1>3, <1>4

\* sys_dup counts the copy it makes.
LEMMA DupKeeps ==
    ASSUME IInv, NEW x \in Procs, proc[x] = "live", NEW fd \in Fd, sys_dup(x, fd)
    PROVE  IInv'
<1> USE DEF IInv
<1>1. PICK to \in Fd : to = Min(Free(x)) /\ fds[x][to] = FD_NONE
  <2>1. Free(x) \in SUBSET Nat /\ Free(x) # {}
    BY DEF Free, Fd, sys_dup
  <2>2. Min(Free(x)) \in Free(x)
    BY <2>1, LowestIsIn
  <2> QED
    BY <2>2 DEF Free
<1>2. /\ fds' = [fds EXCEPT ![x][to] = fds[x][fd]] /\ Adjust(Only(x, fd), 1)
      /\ UNCHANGED <<proc, pipe_used, uncounted, leaked>>
  BY <1>1 DEF sys_dup
<1>3. /\ fds' \in [Procs -> Table]
      /\ \A p, e : /\ Ends(p, e)' = Ends(p, e) + One(fds[x][fd], p, e)
                   /\ Ends(p, e) \in Nat
                   /\ One(fds[x][fd], p, e) \in {0, 1} /\ One(fds[x][fd], p, e) <= Ends(p, e)
  <2>1. \A p, e : One(fds[x][to], p, e) = 0
    BY <1>1, Kinds
  <2>2. fds' = [fds EXCEPT ![x][to] = fds[x][fd]]
    BY <1>2
  <2>3. /\ fds' \in [Procs -> Table]
        /\ \A p, e :
             /\ Ends(p, e)' = Ends(p, e) - One(fds[x][to], p, e) + One(fds[x][fd], p, e)
             /\ Ends(p, e) \in Nat
             /\ One(fds[x][to], p, e) \in {0, 1} /\ One(fds[x][to], p, e) <= Ends(p, e)
             /\ One(fds[x][fd], p, e) \in {0, 1} /\ One(fds[x][fd], p, e) <= Ends(p, e)
    BY <2>2, EndsCopied
  <2> QED
    BY <2>1, <2>3
<1>4. /\ readers' \in [Pipes -> Int] /\ writers' \in [Pipes -> Int]
      /\ \A p \in Pipes : /\ readers'[p] = readers[p] + 1 * One(fds[x][fd], p, "r")
                          /\ writers'[p] = writers[p] + 1 * One(fds[x][fd], p, "w")
  BY <1>2, AdjustEntry
<1>5. TypeOK' /\ Unused'
  BY <1>1, <1>2, <1>3, <1>4 DEF TypeOK, Unused
<1>6. AllRight'
  <2> SUFFICES ASSUME NEW p \in Pipes \ uncounted
               PROVE  Right(readers[p], writers[p], Ends(p, "r"), Ends(p, "w"),
                            pipe_used[p], p \notin leaked)'
    BY <1>2 DEF AllRight
  <2>1. Right(readers[p], writers[p], Ends(p, "r"), Ends(p, "w"), pipe_used[p], p \notin leaked)
    BY DEF AllRight
  <2>2. readers[p] \in Int /\ writers[p] \in Int
    BY DEF TypeOK
  <2> QED
    BY <1>2, <1>3, <1>4, <2>1, <2>2 DEF Right
<1> QED
  BY <1>5, <1>6

\* sys_dup2 counts the copy; what it overwrites is no longer exact.
LEMMA Dup2Keeps ==
    ASSUME IInv, NEW x \in Procs, proc[x] = "live", NEW fd \in Fd, NEW to \in Fd,
           sys_dup2(x, fd, to)
    PROVE  IInv'
<1> USE DEF IInv
<1>1. /\ fds' = [fds EXCEPT ![x][to] = fds[x][fd]] /\ Adjust(Only(x, fd), 1)
      /\ leaked' = leaked \cup PipesIn(Only(x, to))
      /\ UNCHANGED <<proc, pipe_used, uncounted>>
  BY DEF sys_dup2
<1>2. /\ fds' \in [Procs -> Table]
      /\ \A p, e : /\ Ends(p, e)' = Ends(p, e) - One(fds[x][to], p, e) + One(fds[x][fd], p, e)
                   /\ Ends(p, e) \in Nat
                   /\ One(fds[x][to], p, e) \in {0, 1} /\ One(fds[x][to], p, e) <= Ends(p, e)
                   /\ One(fds[x][fd], p, e) \in {0, 1} /\ One(fds[x][fd], p, e) <= Ends(p, e)
  BY <1>1, EndsCopied
<1>3. /\ readers' \in [Pipes -> Int] /\ writers' \in [Pipes -> Int]
      /\ \A p \in Pipes : /\ readers'[p] = readers[p] + 1 * One(fds[x][fd], p, "r")
                          /\ writers'[p] = writers[p] + 1 * One(fds[x][fd], p, "w")
  BY <1>1, AdjustEntry
<1>4. \A p \in Pipes \ leaked' :
         p \notin leaked /\ One(fds[x][to], p, "r") = 0 /\ One(fds[x][to], p, "w") = 0
  <2>1. \A p, e : Count(Only(x, to), p, e) = One(fds[x][to], p, e)
    BY Counts DEF Only
  <2> QED
    BY <1>1, <1>2, <2>1 DEF PipesIn
<1>5. TypeOK' /\ Unused'
  BY <1>1, <1>2, <1>3 DEF TypeOK, Unused
<1>6. AllRight'
  <2> SUFFICES ASSUME NEW p \in Pipes \ uncounted
               PROVE  Right(readers[p], writers[p], Ends(p, "r"), Ends(p, "w"),
                            pipe_used[p], p \notin leaked)'
    BY <1>1 DEF AllRight
  <2>1. Right(readers[p], writers[p], Ends(p, "r"), Ends(p, "w"), pipe_used[p], p \notin leaked)
    BY DEF AllRight
  <2>2. readers[p] \in Int /\ writers[p] \in Int
    BY DEF TypeOK
  <2> QED
    BY <1>1, <1>2, <1>3, <1>4, <2>1, <2>2 DEF Right
<1> QED
  BY <1>5, <1>6

\* fcntl's copy is not counted, and the pipe is on record for it.
LEMMA FcntlKeeps ==
    ASSUME IInv, NEW x \in Procs, proc[x] = "live", NEW fd \in Fd, NEW min_fd \in Fd,
           sys_fcntl_dupfd(x, fd, min_fd)
    PROVE  IInv'
<1> USE DEF IInv
<1> DEFINE S == {i \in Free(x) : i >= min_fd}
<1>1. PICK to \in Fd : to = Min(S) /\ fds[x][to] = FD_NONE
  <2>1. S \in SUBSET Nat /\ S # {}
    BY DEF Free, Fd, sys_fcntl_dupfd
  <2>2. Min(S) \in S
    BY <2>1, LowestIsIn
  <2> QED
    BY <2>2 DEF Free
<1>2. /\ fds' = [fds EXCEPT ![x][to] = fds[x][fd]]
      /\ uncounted' = uncounted \cup PipesIn(Only(x, fd))
      /\ UNCHANGED <<proc, pipe_used, readers, writers, leaked>>
  BY <1>1 DEF sys_fcntl_dupfd
<1>3. /\ fds' \in [Procs -> Table]
      /\ \A p, e : /\ Ends(p, e)' = Ends(p, e) + One(fds[x][fd], p, e)
                   /\ Ends(p, e) \in Nat /\ One(fds[x][fd], p, e) \in {0, 1}
  <2>1. \A p, e : One(fds[x][to], p, e) = 0
    BY <1>1, Kinds
  <2>2. fds' = [fds EXCEPT ![x][to] = fds[x][fd]]
    BY <1>2
  <2>3. /\ fds' \in [Procs -> Table]
        /\ \A p, e :
             /\ Ends(p, e)' = Ends(p, e) - One(fds[x][to], p, e) + One(fds[x][fd], p, e)
             /\ Ends(p, e) \in Nat
             /\ One(fds[x][to], p, e) \in {0, 1} /\ One(fds[x][to], p, e) <= Ends(p, e)
             /\ One(fds[x][fd], p, e) \in {0, 1} /\ One(fds[x][fd], p, e) <= Ends(p, e)
    BY <2>2, EndsCopied
  <2> QED
    BY <2>1, <2>3
<1>4. \A p \in Pipes \ uncounted' :
         p \notin uncounted /\ One(fds[x][fd], p, "r") = 0 /\ One(fds[x][fd], p, "w") = 0
  <2>1. \A p, e : Count(Only(x, fd), p, e) = One(fds[x][fd], p, e)
    BY Counts DEF Only
  <2> QED
    BY <1>2, <1>3, <2>1 DEF PipesIn
<1>5. TypeOK' /\ Unused'
  BY <1>1, <1>2, <1>3 DEF TypeOK, Unused
<1>6. \A p \in Pipes \ uncounted' : Ends(p, "r")' = Ends(p, "r") /\ Ends(p, "w")' = Ends(p, "w")
  BY <1>3, <1>4
<1>7. AllRight'
  BY <1>2, <1>4, <1>6 DEF AllRight
<1> QED
  BY <1>5, <1>7

\* sys_pipe takes a slot that no counted end refers to, for two new ends.
LEMMA PipeKeeps ==
    ASSUME IInv, NEW x \in Procs, proc[x] = "live", sys_pipe(x)
    PROVE  IInv'
<1> USE DEF IInv
<1> DEFINE avail == {fd \in Free(x) : fd >= FIRST_FD}
           Idle == {p \in Pipes : ~ pipe_used[p]}
<1>1. PICK i \in Pipes : i = Min(Idle) /\ ~ pipe_used[i]
  <2>1. Idle \in SUBSET Nat /\ Idle # {}
    BY DEF Pipes, sys_pipe
  <2>2. Min(Idle) \in Idle
    BY <2>1, LowestIsIn
  <2> QED
    BY <2>2
<1>2. avail \in SUBSET Nat /\ avail \subseteq Free(x) /\ IsFiniteSet(avail)
  <2>1. avail \in SUBSET Fd
    BY DEF Free
  <2>2. IsFiniteSet(avail)
    BY <2>1, Finite, FS_Subset
  <2>3. Fd \subseteq Nat
    BY DEF Fd
  <2> QED
    BY <2>1, <2>2, <2>3
<1>3. ASSUME NEW p \in Pipes \ uncounted
      PROVE  /\ Right(readers[p], writers[p], Ends(p, "r"), Ends(p, "w"), pipe_used[p], p \notin leaked)
             /\ readers[p] \in Int /\ writers[p] \in Int
             /\ Ends(p, "r") \in Nat /\ Ends(p, "w") \in Nat
             /\ p = i => Ends(p, "r") = 0 /\ Ends(p, "w") = 0
  <2>1. Right(readers[p], writers[p], Ends(p, "r"), Ends(p, "w"), pipe_used[p], p \notin leaked)
    BY DEF AllRight
  <2>2. /\ readers[p] \in Int /\ writers[p] \in Int
        /\ Ends(p, "r") \in Nat /\ Ends(p, "w") \in Nat
    BY HeldExist DEF TypeOK
  <2> QED
    BY <1>1, <2>1, <2>2 DEF Right
<1>4. CASE Cardinality(avail) >= 2
  <2>1. PICK rfd \in Free(x) : rfd = Min(avail)
    <3>1. avail # {}
      BY <1>4, FS_EmptySet
    <3>2. Min(avail) \in avail
      BY <1>2, <3>1, LowestIsIn
    <3> QED
      BY <3>2, <1>2
  <2>2. PICK wfd \in Free(x) : wfd = Min(avail \ {rfd}) /\ wfd # rfd
    <3>1. Cardinality(avail \ {rfd}) >= 1
      <4> HIDE DEF avail
      <4>1. Cardinality(avail) \in Nat
        BY <1>2, FS_CardinalityType
      <4>2. Cardinality(avail \ {rfd}) \in {Cardinality(avail), Cardinality(avail) - 1}
        BY <1>2, FS_RemoveElement
      <4> QED
        BY <1>4, <4>1, <4>2
    <3>2. avail \ {rfd} # {} /\ avail \ {rfd} \in SUBSET Nat
      BY <1>2, <3>1, FS_EmptySet
    <3>3. Min(avail \ {rfd}) \in avail \ {rfd}
      BY <3>2, LowestIsIn
    <3> QED
      BY <3>3, <1>2
  <2>3. /\ readers' = [readers EXCEPT ![i] = 1]
        /\ writers' = [writers EXCEPT ![i] = 1]
        /\ pipe_used' = [pipe_used EXCEPT ![i] = TRUE]
        /\ fds' = [fds EXCEPT ![x][rfd] = FD_PIPE(i, "r"), ![x][wfd] = FD_PIPE(i, "w")]
        /\ UNCHANGED <<proc, uncounted, leaked>>
    BY <1>1, <1>4, <2>1, <2>2 DEF sys_pipe
  <2> DEFINE t == [fds[x] EXCEPT ![rfd] = FD_PIPE(i, "r")]
             u == [t EXCEPT ![wfd] = FD_PIPE(i, "w")]
  <2>4. /\ fds[x] \in Table /\ rfd \in Fd /\ wfd \in Fd
        /\ fds[x][rfd] = FD_NONE /\ fds[x][wfd] = FD_NONE
        /\ FD_PIPE(i, "r") \in Entries /\ FD_PIPE(i, "w") \in Entries
    BY DEF TypeOK, Free, Entries
  <2>5. t \in Table /\ t[wfd] = FD_NONE
    BY <2>2, <2>4 DEF Table
  <2>6. fds' = [fds EXCEPT ![x] = u]
    BY <2>3, <2>4 DEF TypeOK, Table
  <2>7. ASSUME NEW p, NEW e
        PROVE  Count(t, p, e) = Count(fds[x], p, e) - One(fds[x][rfd], p, e) + One(FD_PIPE(i, "r"), p, e)
    BY <2>4, EntryChange
  <2> HIDE DEF t
  <2>8. /\ u \in Table
        /\ \A p, e : Count(u, p, e) = Count(t, p, e) - One(t[wfd], p, e) + One(FD_PIPE(i, "w"), p, e)
    <3>1. t \in Table /\ wfd \in Fd /\ FD_PIPE(i, "w") \in Entries
      BY <2>4, <2>5
    <3>2. ASSUME NEW p, NEW e
          PROVE  Count(u, p, e) = Count(t, p, e) - One(t[wfd], p, e) + One(FD_PIPE(i, "w"), p, e)
      BY <3>1, EntryChange
    <3>3. u \in Table
      BY <3>1 DEF Table
    <3> QED
      BY <3>2, <3>3
  <2> HIDE DEF u
  <2>9. /\ fds' \in [Procs -> Table]
        /\ \A p, e : /\ Ends(p, e)' = Ends(p, e) - Count(fds[x], p, e) + Count(u, p, e)
                     /\ Count(fds[x], p, e) \in Nat /\ Count(u, p, e) \in Nat
                     /\ Ends(p, e) \in Nat /\ Count(fds[x], p, e) <= Ends(p, e)
    BY <2>6, <2>8, EndsChange
  <2>10. \A p, e : One(fds[x][rfd], p, e) = 0 /\ One(t[wfd], p, e) = 0
    BY <2>4, <2>5, Kinds
  <2>11. \A p : /\ One(FD_PIPE(i, "r"), p, "r") = (IF p = i THEN 1 ELSE 0)
                /\ One(FD_PIPE(i, "r"), p, "w") = 0
                /\ One(FD_PIPE(i, "w"), p, "w") = (IF p = i THEN 1 ELSE 0)
                /\ One(FD_PIPE(i, "w"), p, "r") = 0
    BY Kinds DEF One
  <2>12. ASSUME NEW p
         PROVE  /\ Ends(p, "r")' = Ends(p, "r") + (IF p = i THEN 1 ELSE 0)
                /\ Ends(p, "w")' = Ends(p, "w") + (IF p = i THEN 1 ELSE 0)
    <3>1. /\ Count(u, p, "r") = Count(fds[x], p, "r") + (IF p = i THEN 1 ELSE 0)
          /\ Count(u, p, "w") = Count(fds[x], p, "w") + (IF p = i THEN 1 ELSE 0)
      BY <2>7, <2>8, <2>9, <2>10, <2>11
    <3> QED
      BY <3>1, <2>9
  <2>13. TypeOK' /\ Unused'
    <3>1. pipe_used' \in [Pipes -> BOOLEAN]
      BY <2>3 DEF TypeOK
    <3> QED
      BY <3>1, <2>3, <2>6, <2>9 DEF TypeOK, Unused
  <2>14. AllRight'
    <3> SUFFICES ASSUME NEW p \in Pipes \ uncounted
                 PROVE  Right(readers[p], writers[p], Ends(p, "r"), Ends(p, "w"),
                              pipe_used[p], p \notin leaked)'
      BY <2>3 DEF AllRight
    <3>1. CASE p = i
      <4>1. readers'[p] = 1 /\ writers'[p] = 1 /\ pipe_used'[p]
        BY <2>3, <3>1 DEF TypeOK
      <4> QED
        BY <1>3, <2>12, <3>1, <4>1 DEF Right
    <3>2. CASE p # i
      <4>1. readers'[p] = readers[p] /\ writers'[p] = writers[p] /\ pipe_used'[p] = pipe_used[p]
        BY <2>3, <3>2 DEF TypeOK
      <4> QED
        BY <1>3, <2>3, <2>12, <3>2, <4>1 DEF Right
    <3> QED
      BY <3>1, <3>2
  <2> QED
    BY <2>13, <2>14
<1>5. CASE ~ (Cardinality(avail) >= 2)
  <2>1. /\ readers' = [readers EXCEPT ![i] = 0]
        /\ writers' = [writers EXCEPT ![i] = 0]
        /\ UNCHANGED <<fds, pipe_used, proc, uncounted, leaked>>
    BY <1>1, <1>5 DEF sys_pipe
  <2>2. TypeOK' /\ Unused' /\ \A p, e : Ends(p, e)' = Ends(p, e)
    BY <2>1 DEF TypeOK, Unused, Ends
  <2>3. ASSUME NEW p \in Pipes \ uncounted
        PROVE  Right(readers[p], writers[p], Ends(p, "r"), Ends(p, "w"),
                     pipe_used[p], p \notin leaked)'
    <3>1. CASE p = i
      <4>1. readers'[p] = 0 /\ writers'[p] = 0 /\ ~ pipe_used'[p]
        BY <1>1, <2>1, <3>1 DEF TypeOK
      <4> QED
        BY <1>3, <2>2, <3>1, <4>1 DEF Right
    <3>2. CASE p # i
      <4>1. readers'[p] = readers[p] /\ writers'[p] = writers[p] /\ pipe_used'[p] = pipe_used[p]
        BY <2>1, <3>2 DEF TypeOK
      <4> QED
        BY <1>3, <2>1, <2>2, <3>2, <4>1 DEF Right
    <3> QED
      BY <3>1, <3>2
  <2> QED
    BY <2>1, <2>2, <2>3 DEF AllRight
<1> QED
  BY <1>4, <1>5

\* A handle of a file system is no end of a pipe.
LEMMA OpenKeeps ==
    ASSUME IInv, NEW x \in Procs, proc[x] = "live", NEW h \in Handles, sys_open(x, h)
    PROVE  IInv'
<1> USE DEF IInv
<1> DEFINE avail == {fd \in Free(x) : fd >= FIRST_FD}
<1>1. UNCHANGED <<proc, pipe_used, readers, writers, uncounted, leaked>>
  BY DEF sys_open
<1>2. /\ fds' \in [Procs -> Table]
      /\ \A p, e : Ends(p, e)' = Ends(p, e)
      /\ \A y \in Procs : y # x => fds'[y] = fds[y]
  <2>1. CASE avail = {}
    BY <2>1 DEF sys_open, TypeOK, Ends
  <2>2. CASE avail # {}
    <3>1. PICK fd \in Fd : fd = Min(avail) /\ fds[x][fd] = FD_NONE
      <4>1. avail \in SUBSET Nat
        BY DEF Free, Fd
      <4>2. Min(avail) \in avail
        BY <2>2, <4>1, LowestIsIn
      <4> QED
        BY <4>2 DEF Free
    <3>2. PICK v \in Entries : v = FD_FILE(h)
      BY DEF Entries
    <3>3. fds' = [fds EXCEPT ![x][fd] = v]
      BY <2>2, <3>1, <3>2 DEF sys_open
    <3>4. /\ fds' \in [Procs -> Table]
          /\ \A p, e : /\ Ends(p, e)' = Ends(p, e) - One(fds[x][fd], p, e) + One(v, p, e)
                       /\ Ends(p, e) \in Nat /\ One(fds[x][fd], p, e) <= Ends(p, e)
      BY <3>3, EndsChangeEntry
    <3>5. \A p, e : One(fds[x][fd], p, e) = 0 /\ One(v, p, e) = 0
      BY <3>1, <3>2, Kinds
    <3> QED
      BY <3>3, <3>4, <3>5 DEF TypeOK
  <2> QED
    BY <2>1, <2>2
<1>3. TypeOK' /\ Unused'
  BY <1>1, <1>2 DEF TypeOK, Unused
<1>4. AllRight'
  BY <1>1, <1>2 DEF AllRight
<1> QED
  BY <1>3, <1>4

\* sched::clone counts what the child inherits, also when there is no child.
LEMMA CloneKeeps ==
    ASSUME IInv, NEW x \in Procs, proc[x] = "live", NEW y \in Procs \ {x}, clone(x, y)
    PROVE  IInv'
<1> USE DEF IInv
<1>1. fds[y] = NoFds /\ Adjust(fds[x], 1) /\ UNCHANGED <<pipe_used, uncounted>>
  BY DEF clone, Unused
<1>2. /\ readers' \in [Pipes -> Int] /\ writers' \in [Pipes -> Int]
      /\ \A p \in Pipes : /\ readers'[p] = readers[p] + 1 * Count(fds[x], p, "r")
                          /\ writers'[p] = writers[p] + 1 * Count(fds[x], p, "w")
                          /\ p \in PipesIn(fds[x]) <=>
                               Count(fds[x], p, "r") + Count(fds[x], p, "w") > 0
  BY <1>1, AdjustTable
<1>3. \A p, e : /\ Count(fds[x], p, e) \in Nat /\ Ends(p, e) \in Nat
                /\ Count(fds[x], p, e) <= Ends(p, e)
  BY HeldExist
<1>4. \A p \in Pipes \ uncounted :
        /\ Right(readers[p], writers[p], Ends(p, "r"), Ends(p, "w"), pipe_used[p], p \notin leaked)
        /\ readers[p] \in Int /\ writers[p] \in Int
  BY DEF AllRight, TypeOK
<1>5. CASE /\ proc' = [proc EXCEPT ![y] = "live"]
           /\ fds' = [fds EXCEPT ![y] = fds[x]]
           /\ UNCHANGED leaked
  <2>1. PICK u \in Table : u = fds[x]
    BY DEF TypeOK
  <2>2. fds' = [fds EXCEPT ![y] = u]
    BY <1>5, <2>1
  <2>3. /\ fds' \in [Procs -> Table]
        /\ \A p, e : /\ Ends(p, e)' = Ends(p, e) - Count(fds[y], p, e) + Count(u, p, e)
                     /\ Count(fds[y], p, e) \in Nat /\ Count(u, p, e) \in Nat
                     /\ Ends(p, e) \in Nat /\ Count(fds[y], p, e) <= Ends(p, e)
    BY <2>2, EndsChange
  <2>4. \A p, e : Ends(p, e)' = Ends(p, e) + Count(fds[x], p, e)
    <3>1. \A p, e : Count(fds[y], p, e) = 0
      BY <1>1, EmptyTable
    <3> QED
      BY <3>1, <2>1, <2>3, <1>3
  <2>5. TypeOK' /\ Unused'
    BY <1>1, <1>2, <1>5, <2>3 DEF TypeOK, Unused
  <2>6. AllRight'
    <3> SUFFICES ASSUME NEW p \in Pipes \ uncounted
                 PROVE  Right(readers[p], writers[p], Ends(p, "r"), Ends(p, "w"),
                              pipe_used[p], p \notin leaked)'
      BY <1>1 DEF AllRight
    <3>1. /\ readers'[p] = readers[p] + Count(fds[x], p, "r")
          /\ writers'[p] = writers[p] + Count(fds[x], p, "w")
          /\ pipe_used'[p] = pipe_used[p] /\ (p \notin leaked') = (p \notin leaked)
      BY <1>1, <1>2, <1>3, <1>5
    <3>2. /\ Ends(p, "r")' = Ends(p, "r") + Count(fds[x], p, "r")
          /\ Ends(p, "w")' = Ends(p, "w") + Count(fds[x], p, "w")
      BY <2>4
    <3>3. /\ Count(fds[x], p, "r") \in 0 .. Ends(p, "r") /\ Ends(p, "r") \in Nat
          /\ Count(fds[x], p, "w") \in 0 .. Ends(p, "w") /\ Ends(p, "w") \in Nat
      BY <1>3
    <3> QED
      BY <1>4, <3>1, <3>2, <3>3 DEF Right
  <2> QED
    BY <2>5, <2>6
<1>6. CASE leaked' = leaked \cup PipesIn(fds[x]) /\ UNCHANGED <<proc, fds>>
  <2>1. TypeOK' /\ Unused' /\ \A p, e : Ends(p, e)' = Ends(p, e)
    <3>1. TypeOK'
      BY <1>1, <1>2, <1>6 DEF TypeOK
    <3>2. Unused'
      BY <1>6 DEF Unused
    <3>3. \A p, e : Ends(p, e)' = Ends(p, e)
      BY <1>6 DEF Ends
    <3> QED
      BY <3>1, <3>2, <3>3
  <2>2. AllRight'
    <3> SUFFICES ASSUME NEW p \in Pipes \ uncounted
                 PROVE  Right(readers[p], writers[p], Ends(p, "r"), Ends(p, "w"),
                              pipe_used[p], p \notin leaked)'
      BY <1>1 DEF AllRight
    <3>1. p \notin leaked' =>
            p \notin leaked /\ Count(fds[x], p, "r") = 0 /\ Count(fds[x], p, "w") = 0
      BY <1>2, <1>3, <1>6
    <3>2. /\ readers'[p] = readers[p] + Count(fds[x], p, "r")
          /\ writers'[p] = writers[p] + Count(fds[x], p, "w")
          /\ pipe_used'[p] = pipe_used[p]
      BY <1>1, <1>2, <1>3
    <3>3. Ends(p, "r")' = Ends(p, "r") /\ Ends(p, "w")' = Ends(p, "w")
      BY <2>1
    <3>4. /\ Count(fds[x], p, "r") \in Nat /\ Ends(p, "r") \in Nat
          /\ Count(fds[x], p, "w") \in Nat /\ Ends(p, "w") \in Nat
      BY <1>3
    <3> QED
      BY <1>4, <3>1, <3>2, <3>3, <3>4 DEF Right
  <2> QED
    BY <2>1, <2>2
<1> QED
  BY <1>5, <1>6 DEF clone

\* sys_close_all uncounts every end of the table it empties.
LEMMA CloseAllKeeps ==
    ASSUME IInv, NEW x \in Procs, NEW st \in {"unused", "dead"}, sys_close_all(x),
           proc' = [proc EXCEPT ![x] = st], UNCHANGED <<uncounted, leaked>>
    PROVE  IInv'
<1> USE DEF IInv
<1>1. fds' = [fds EXCEPT ![x] = NoFds] /\ Adjust(fds[x], -1)
  BY DEF sys_close_all, NoFds
<1>2. /\ readers' \in [Pipes -> Int] /\ writers' \in [Pipes -> Int]
      /\ \A p \in Pipes : /\ readers'[p] = readers[p] + (-1) * Count(fds[x], p, "r")
                          /\ writers'[p] = writers[p] + (-1) * Count(fds[x], p, "w")
                          /\ p \in PipesIn(fds[x]) <=>
                               Count(fds[x], p, "r") + Count(fds[x], p, "w") > 0
  BY <1>1, AdjustTable
<1>3. /\ fds' \in [Procs -> Table]
      /\ \A p, e : /\ Ends(p, e)' = Ends(p, e) - Count(fds[x], p, e)
                   /\ Count(fds[x], p, e) \in Nat /\ Ends(p, e) \in Nat
                   /\ Count(fds[x], p, e) <= Ends(p, e)
  <2>1. PICK u \in Table : u = NoFds
    BY Kinds
  <2>2. fds' = [fds EXCEPT ![x] = u]
    BY <1>1, <2>1
  <2>3. /\ fds' \in [Procs -> Table]
        /\ \A p, e : /\ Ends(p, e)' = Ends(p, e) - Count(fds[x], p, e) + Count(u, p, e)
                     /\ Count(fds[x], p, e) \in Nat /\ Count(u, p, e) \in Nat
                     /\ Ends(p, e) \in Nat /\ Count(fds[x], p, e) <= Ends(p, e)
    BY <2>2, EndsChange
  <2>4. \A p, e : Count(u, p, e) = 0
    BY <2>1, EmptyTable
  <2> QED
    BY <2>3, <2>4
<1>4. /\ pipe_used' \in [Pipes -> BOOLEAN]
      /\ \A p \in Pipes : pipe_used'[p] <=>
           pipe_used[p] /\ (p \in PipesIn(fds[x]) => readers'[p] > 0 \/ writers'[p] > 0)
  BY DEF sys_close_all
<1>5. TypeOK' /\ Unused'
  BY <1>1, <1>2, <1>3, <1>4 DEF TypeOK, Unused
<1>6. AllRight'
  <2> SUFFICES ASSUME NEW p \in Pipes \ uncounted
               PROVE  Right(readers[p], writers[p], Ends(p, "r"), Ends(p, "w"),
                            pipe_used[p], p \notin leaked)'
    BY DEF AllRight
  <2>1. Right(readers[p], writers[p], Ends(p, "r"), Ends(p, "w"), pipe_used[p], p \notin leaked)
    BY DEF AllRight
  <2>2. readers[p] \in Int /\ writers[p] \in Int
    BY DEF TypeOK
  <2>3. /\ readers'[p] = readers[p] - Count(fds[x], p, "r")
        /\ writers'[p] = writers[p] - Count(fds[x], p, "w")
        /\ p \in PipesIn(fds[x]) <=> Count(fds[x], p, "r") + Count(fds[x], p, "w") > 0
    BY <1>2, <1>3, <2>2
  <2>4. /\ Ends(p, "r")' = Ends(p, "r") - Count(fds[x], p, "r")
        /\ Ends(p, "w")' = Ends(p, "w") - Count(fds[x], p, "w")
        /\ Count(fds[x], p, "r") \in 0 .. Ends(p, "r") /\ Ends(p, "r") \in Nat
        /\ Count(fds[x], p, "w") \in 0 .. Ends(p, "w") /\ Ends(p, "w") \in Nat
    BY <1>3
  <2>5. /\ pipe_used'[p] <=>
              pipe_used[p] /\ (p \in PipesIn(fds[x]) => readers'[p] > 0 \/ writers'[p] > 0)
        /\ leaked' = leaked /\ pipe_used[p] \in BOOLEAN /\ pipe_used'[p] \in BOOLEAN
    BY <1>4 DEF TypeOK
  <2>6. readers'[p] >= Ends(p, "r")' /\ writers'[p] >= Ends(p, "w")'
    BY <2>1, <2>2, <2>3, <2>4 DEF Right
  <2>7. Ends(p, "r")' + Ends(p, "w")' > 0 => pipe_used'[p]
    <3>1. Ends(p, "r")' + Ends(p, "w")' > 0 => Ends(p, "r") + Ends(p, "w") > 0
      BY <2>4
    <3>2. Ends(p, "r")' + Ends(p, "w")' > 0 => readers'[p] > 0 \/ writers'[p] > 0
      BY <2>2, <2>3, <2>4, <2>6
    <3> QED
      BY <2>1, <2>5, <3>1, <3>2 DEF Right
  <2>8. ASSUME p \notin leaked'
        PROVE  /\ readers'[p] = Ends(p, "r")' /\ writers'[p] = Ends(p, "w")'
               /\ pipe_used'[p] => Ends(p, "r")' + Ends(p, "w")' > 0
    <3>1. /\ readers[p] = Ends(p, "r") /\ writers[p] = Ends(p, "w")
          /\ pipe_used[p] => Ends(p, "r") + Ends(p, "w") > 0
      BY <2>1, <2>5, <2>8 DEF Right
    <3>2. readers'[p] = Ends(p, "r")' /\ writers'[p] = Ends(p, "w")'
      BY <2>3, <2>4, <3>1
    <3> QED
      BY <2>3, <2>4, <2>5, <3>1, <3>2
  <2> QED
    BY <2>6, <2>7, <2>8 DEF Right
<1> QED
  BY <1>5, <1>6

\* reap drops a table without closing it, and the pipes are on record.
LEMMA ReapKeeps == ASSUME IInv, NEW y \in Procs, reap(y) PROVE IInv'
<1> USE DEF IInv
<1>1. /\ fds' = [fds EXCEPT ![y] = NoFds]
      /\ proc' = [proc EXCEPT ![y] = "unused"]
      /\ leaked' = leaked \cup PipesIn(fds[y])
      /\ UNCHANGED <<pipe_used, readers, writers, uncounted>>
  BY DEF reap, NoFds
<1>2. /\ fds' \in [Procs -> Table]
      /\ \A p, e : /\ Ends(p, e)' = Ends(p, e) - Count(fds[y], p, e)
                   /\ Count(fds[y], p, e) \in Nat /\ Ends(p, e) \in Nat
                   /\ Count(fds[y], p, e) <= Ends(p, e)
  <2>1. PICK u \in Table : u = NoFds
    BY Kinds
  <2>2. fds' = [fds EXCEPT ![y] = u]
    BY <1>1, <2>1
  <2>3. /\ fds' \in [Procs -> Table]
        /\ \A p, e : /\ Ends(p, e)' = Ends(p, e) - Count(fds[y], p, e) + Count(u, p, e)
                     /\ Count(fds[y], p, e) \in Nat /\ Count(u, p, e) \in Nat
                     /\ Ends(p, e) \in Nat /\ Count(fds[y], p, e) <= Ends(p, e)
    BY <2>2, EndsChange
  <2>4. \A p, e : Count(u, p, e) = 0
    BY <2>1, EmptyTable
  <2> QED
    BY <2>3, <2>4
<1>3. \A p \in Pipes \ leaked' :
         p \notin leaked /\ Count(fds[y], p, "r") = 0 /\ Count(fds[y], p, "w") = 0
  BY <1>1, <1>2 DEF PipesIn
<1>4. TypeOK' /\ Unused'
  BY <1>1, <1>2 DEF TypeOK, Unused
<1>5. AllRight'
  <2> SUFFICES ASSUME NEW p \in Pipes \ uncounted
               PROVE  Right(readers[p], writers[p], Ends(p, "r"), Ends(p, "w"),
                            pipe_used[p], p \notin leaked)'
    BY <1>1 DEF AllRight
  <2>1. Right(readers[p], writers[p], Ends(p, "r"), Ends(p, "w"), pipe_used[p], p \notin leaked)
    BY DEF AllRight
  <2>2. readers[p] \in Int /\ writers[p] \in Int
    BY DEF TypeOK
  <2>3. /\ readers'[p] = readers[p] /\ writers'[p] = writers[p] /\ pipe_used'[p] = pipe_used[p]
        /\ p \notin leaked' => /\ p \notin leaked
                              /\ Count(fds[y], p, "r") = 0 /\ Count(fds[y], p, "w") = 0
    BY <1>1, <1>3
  <2>4. /\ Ends(p, "r")' = Ends(p, "r") - Count(fds[y], p, "r")
        /\ Ends(p, "w")' = Ends(p, "w") - Count(fds[y], p, "w")
        /\ Count(fds[y], p, "r") \in 0 .. Ends(p, "r") /\ Ends(p, "r") \in Nat
        /\ Count(fds[y], p, "w") \in 0 .. Ends(p, "w") /\ Ends(p, "w") \in Nat
    BY <1>2
  <2> QED
    BY <2>1, <2>2, <2>3, <2>4 DEF Right
<1> QED
  BY <1>4, <1>5

\* Every step keeps the invariant.
LEMMA NextKeeps == ASSUME IInv, [Next]_vars PROVE IInv'
<1>1. ASSUME NEW x \in Procs, proc[x] = "live", syscall(x)
      PROVE  IInv'
  <2>1. CASE sys_pipe(x)
    BY <1>1, <2>1, PipeKeeps
  <2>2. ASSUME NEW h \in Handles, sys_open(x, h)
        PROVE  IInv'
    BY <1>1, <2>2, OpenKeeps
  <2>3. ASSUME NEW fd \in Fd, sys_close(x, fd)
        PROVE  IInv'
    BY <1>1, <2>3, CloseKeeps
  <2>4. ASSUME NEW fd \in Fd, sys_dup(x, fd)
        PROVE  IInv'
    BY <1>1, <2>4, DupKeeps
  <2>5. ASSUME NEW fd \in Fd, NEW to \in Fd, sys_dup2(x, fd, to)
        PROVE  IInv'
    BY <1>1, <2>5, Dup2Keeps
  <2>6. ASSUME NEW fd \in Fd, NEW to \in Fd, sys_fcntl_dupfd(x, fd, to)
        PROVE  IInv'
    BY <1>1, <2>6, FcntlKeeps
  <2>7. ASSUME NEW y \in Procs \ {x}, clone(x, y)
        PROVE  IInv'
    BY <1>1, <2>7, CloneKeeps
  <2>8. ASSUME NEW y \in Procs \ {x}, kill(y)
        PROVE  IInv'
    BY <2>8, CloseAllKeeps DEF kill
  <2>9. CASE sys_exit(x)
    BY <2>9, CloseAllKeeps DEF sys_exit
  <2>10. CASE exit_abrupt(x)
    <3>1. /\ proc' = [proc EXCEPT ![x] = "dead"]
          /\ UNCHANGED <<fds, pipe_used, readers, writers, uncounted, leaked>>
      BY <2>10 DEF exit_abrupt
    <3>2. \A p, e : Ends(p, e)' = Ends(p, e)
      BY <3>1 DEF Ends
    <3>3. TypeOK' /\ Unused'
      BY <3>1 DEF IInv, TypeOK, Unused
    <3>4. AllRight'
      BY <3>1, <3>2 DEF IInv, AllRight
    <3> QED
      BY <3>3, <3>4 DEF IInv
  <2> QED
    BY <1>1, <2>1, <2>2, <2>3, <2>4, <2>5, <2>6, <2>7, <2>8, <2>9, <2>10 DEF syscall
<1>2. ASSUME NEW y \in Procs, reap(y)
      PROVE  IInv'
  BY <1>2, ReapKeeps
<1>3. CASE UNCHANGED vars
  <2>1. \A p, e : Ends(p, e)' = Ends(p, e)
    BY <1>3 DEF vars, Ends
  <2> QED
    BY <1>3, <2>1 DEF vars, IInv, TypeOK, Unused, AllRight
<1> QED
  BY <1>1, <1>2, <1>3 DEF Next

\* sys_pipe never clears a pipe that a process still holds, and the counts
\* that decide about end of file are exact, with the exceptions that
\* NoRecycling and CountsExact name; for any number of processes,
\* descriptors and pipes.
THEOREM PipesCounted == Spec => [](NoRecycling /\ CountsExact)
<1>1. IInv => NoRecycling /\ CountsExact
  <2> SUFFICES ASSUME IInv, NEW p \in Pipes \ uncounted
               PROVE  /\ readers[p] >= Ends(p, "r") /\ writers[p] >= Ends(p, "w")
                      /\ Ends(p, "r") + Ends(p, "w") > 0 => pipe_used[p]
                      /\ p \notin leaked => /\ readers[p] = Ends(p, "r")
                                            /\ writers[p] = Ends(p, "w")
                                            /\ pipe_used[p] <=> Ends(p, "r") + Ends(p, "w") > 0
    BY DEF NoRecycling, CountsExact
  <2> QED
    BY DEF IInv, AllRight, Right
<1>2. IInv /\ [Next]_vars => IInv'
  BY NextKeeps
<1> QED
  BY InitIInv, <1>1, <1>2, PTL DEF Spec

\* The counts alone: but for the exceptions CountsExact names, end of file
\* and the reuse of a slot come when the last holder is gone, not before.
THEOREM CountsStayExact == Spec => []CountsExact
BY PipesCounted, PTL
----------------------------------------------------------------------------
\* The places of a handle.
Holders(h) == {xf \in Procs \X Fd : fds[xf[1]][xf[2]] = FD_FILE(h)}

\* HandlesLive without a cardinality.
HandlesOnce ==
    \A h \in Handles \ shared :
        /\ \A a, b \in Holders(h) : a = b
        /\ Holders(h) # {} => h \in handles

\* A file is not another kind of entry.
LEMMA HandleKinds ==
    /\ \A h, p, e : FD_FILE(h) # FD_PIPE(p, e)
    /\ \A h : FD_FILE(h) # FD_NONE
    /\ \A h, k : FD_FILE(h) = FD_FILE(k) => h = k
<1>1. \A h, p, e : FD_FILE(h) # FD_PIPE(p, e)
  BY DEF FD_FILE, FD_PIPE
<1>2. \A h : FD_FILE(h) # FD_NONE
  BY DEF FD_FILE, FD_NONE
<1>3. ASSUME NEW h, NEW k, FD_FILE(h) = FD_FILE(k) PROVE h = k
  <2>1. FD_FILE(h).fs_handle = h /\ FD_FILE(k).fs_handle = k
    BY DEF FD_FILE
  <2> QED
    BY <1>3, <2>1
<1> QED
  BY <1>1, <1>2, <1>3

\* A step that gives a handle no new place, or puts it on record as shared,
\* and closes it only where its place is cleared.
LEMMA FewerHolders ==
    ASSUME HandlesOnce, shared \subseteq shared',
           \A h \in Handles \ shared' :
              /\ Holders(h)' \subseteq Holders(h)
              /\ Holders(h)' # {} /\ h \in handles => h \in handles'
    PROVE  HandlesOnce'
  BY DEF HandlesOnce

\* An entry that is overwritten with something else than the handle.
LEMMA EntryOverwritten ==
    ASSUME TypeOK, NEW x \in Procs, NEW to \in Fd, NEW v, fds' = [fds EXCEPT ![x][to] = v],
           NEW h, v # FD_FILE(h)
    PROVE  Holders(h)' = Holders(h) \ {<<x, to>>}
<1>1. /\ fds'[x][to] = v
      /\ \A y \in Procs, fd \in Fd : y # x \/ fd # to => fds'[y][fd] = fds[y][fd]
  BY DEF TypeOK, Table
<1>2. Holders(h)' = {xf \in Procs \X Fd : fds'[xf[1]][xf[2]] = FD_FILE(h)}
  BY DEF Holders
<1> QED
  BY <1>1, <1>2 DEF Holders

\* A table that is emptied.
LEMMA TableEmptied ==
    ASSUME TypeOK, NEW x \in Procs, fds' = [fds EXCEPT ![x] = NoFds], NEW h
    PROVE  Holders(h)' = {xf \in Holders(h) : xf[1] # x}
<1>1. /\ \A fd \in Fd : fds'[x][fd] # FD_FILE(h)
      /\ \A y \in Procs : y # x => fds'[y] = fds[y]
  BY HandleKinds DEF TypeOK, NoFds
<1>2. Holders(h)' = {xf \in Procs \X Fd : fds'[xf[1]][xf[2]] = FD_FILE(h)}
  BY DEF Holders
<1> QED
  BY <1>1, <1>2 DEF Holders

\* An entry copied over another one; the handle in it is shared from then on.
LEMMA CopyShares ==
    ASSUME TypeOK, HandlesOnce, NEW x \in Procs, NEW from \in Fd, NEW to \in Fd,
           fds' = [fds EXCEPT ![x][to] = fds[x][from]],
           shared' = shared \cup HandlesIn(Only(x, from)), UNCHANGED handles
    PROVE  HandlesOnce'
<1>1. ASSUME NEW h \in Handles \ shared'
      PROVE  Holders(h)' \subseteq Holders(h)
  <2>1. h \notin HandlesIn(Only(x, from))
    BY <1>1
  <2>2. fds[x][from] # FD_FILE(h)
    BY <2>1 DEF HandlesIn, Only
  <2>3. PICK v : v = fds[x][from]
    OBVIOUS
  <2>4. fds' = [fds EXCEPT ![x][to] = v] /\ v # FD_FILE(h)
    BY <2>2, <2>3
  <2>5. Holders(h)' = Holders(h) \ {<<x, to>>}
    BY <2>4, EntryOverwritten
  <2> QED
    BY <2>5
<1> QED
  BY <1>1, FewerHolders

\* Closing the only entry with a handle leaves none.
LEMMA CloseOnce ==
    ASSUME TypeOK, HandlesOnce, NEW x \in Procs, NEW fd \in Fd, sys_close(x, fd)
    PROVE  HandlesOnce'
<1>1. ASSUME NEW h \in Handles \ shared
      PROVE  /\ Holders(h)' \subseteq Holders(h)
             /\ Holders(h)' # {} /\ h \in handles => h \in handles'
  <2>1. Holders(h)' = Holders(h) \ {<<x, fd>>}
    BY HandleKinds, EntryOverwritten DEF sys_close
  <2>2. CASE fds[x][fd] = FD_FILE(h)
    <3>1. <<x, fd>> \in Holders(h)
      BY <2>2 DEF Holders
    <3>2. Holders(h) = {<<x, fd>>}
      BY <3>1 DEF HandlesOnce
    <3> QED
      BY <2>1, <3>2
  <2>3. CASE fds[x][fd] # FD_FILE(h)
    <3>1. h \notin HandlesIn(Only(x, fd))
      BY <2>3 DEF HandlesIn, Only
    <3> QED
      BY <2>1, <3>1 DEF sys_close
  <2> QED
    BY <2>2, <2>3
<1> QED
  BY <1>1, FewerHolders DEF sys_close

\* The same of a whole table.
LEMMA CloseAllOnce ==
    ASSUME TypeOK, HandlesOnce, NEW x \in Procs, sys_close_all(x), UNCHANGED shared
    PROVE  HandlesOnce'
<1>1. ASSUME NEW h \in Handles \ shared
      PROVE  /\ Holders(h)' \subseteq Holders(h)
             /\ Holders(h)' # {} /\ h \in handles => h \in handles'
  <2>1. Holders(h)' = {xf \in Holders(h) : xf[1] # x}
    BY TableEmptied DEF sys_close_all, NoFds
  <2>2. CASE h \in HandlesIn(fds[x])
    <3>1. PICK fd \in Fd : fds[x][fd] = FD_FILE(h)
      BY <2>2 DEF HandlesIn, TypeOK, Table
    <3>2. <<x, fd>> \in Holders(h)
      BY <3>1 DEF Holders
    <3>3. \A xf \in Holders(h) : xf = <<x, fd>>
      BY <3>2 DEF HandlesOnce
    <3> QED
      BY <2>1, <3>3
  <2>3. CASE h \notin HandlesIn(fds[x])
    BY <2>1, <2>3 DEF sys_close_all
  <2> QED
    BY <2>2, <2>3
<1> QED
  BY <1>1, FewerHolders

\* The handle that fs->open returns was in no entry.
LEMMA OpenOnce ==
    ASSUME TypeOK, HandlesOnce, NEW x \in Procs, NEW k \in Handles, sys_open(x, k)
    PROVE  HandlesOnce'
<1> DEFINE avail == {fd \in Free(x) : fd >= FIRST_FD}
<1>1. k \notin handles /\ handles' = handles \cup {k} /\ shared' = shared
  BY DEF sys_open
<1>2. CASE avail = {}
  <2>1. \A h : Holders(h)' = Holders(h)
    BY <1>2 DEF sys_open, Holders
  <2> QED
    BY <1>1, <2>1, FewerHolders
<1>3. CASE avail # {}
  <2>1. PICK fd \in Fd : fd = Min(avail)
    <3>1. avail \in SUBSET Nat
      BY DEF Free, Fd
    <3>2. Min(avail) \in avail
      BY <1>3, <3>1, LowestIsIn
    <3> QED
      BY <3>2 DEF Free
  <2>2. fds' = [fds EXCEPT ![x][fd] = FD_FILE(k)]
    BY <1>3, <2>1 DEF sys_open
  <2>3. ASSUME NEW h \in Handles \ shared
        PROVE  /\ \A a, b \in Holders(h)' : a = b
               /\ Holders(h)' # {} => h \in handles'
    <3>1. CASE h # k
      <4>1. FD_FILE(k) # FD_FILE(h)
        BY <3>1, HandleKinds
      <4>2. Holders(h)' = Holders(h) \ {<<x, fd>>}
        BY <2>2, <4>1, EntryOverwritten
      <4> QED
        BY <1>1, <4>2 DEF HandlesOnce
    <3>2. CASE h = k
      <4>1. Holders(h) = {}
        BY <1>1, <3>2 DEF HandlesOnce
      <4>2. \A y \in Procs, g \in Fd : y # x \/ g # fd => fds'[y][g] = fds[y][g]
        BY <2>2 DEF TypeOK, Table
      <4>3. \A a \in Holders(h)' : a = <<x, fd>>
        <5> SUFFICES ASSUME NEW y \in Procs, NEW g \in Fd, fds'[y][g] = FD_FILE(h)
                     PROVE  <<y, g>> = <<x, fd>>
          BY DEF Holders
        <5>1. <<y, g>> \notin Holders(h)
          BY <4>1
        <5>2. fds[y][g] # FD_FILE(h)
          BY <5>1 DEF Holders
        <5> QED
          BY <4>2, <5>2
      <4> QED
        BY <1>1, <3>2, <4>3
    <3> QED
      BY <3>1, <3>2
  <2> QED
    BY <1>1, <2>3 DEF HandlesOnce
<1> QED
  BY <1>2, <1>3

\* The entries that sys_pipe fills hold ends of a pipe.
LEMMA PipeOnce ==
    ASSUME TypeOK, HandlesOnce, NEW x \in Procs, sys_pipe(x)
    PROVE  HandlesOnce'
<1>1. UNCHANGED <<handles, shared>>
  BY DEF sys_pipe
<1>2. \/ UNCHANGED fds
      \/ \E r, w, i : fds' = [fds EXCEPT ![x][r] = FD_PIPE(i, "r"), ![x][w] = FD_PIPE(i, "w")]
  <2> DEFINE i == Min({p \in Pipes : ~ pipe_used[p]})
             avail == {fd \in Free(x) : fd >= FIRST_FD}
             r == Min(avail)
             w == Min(avail \ {r})
  <2>1. CASE Cardinality(avail) >= 2
    <3>1. fds' = [fds EXCEPT ![x][r] = FD_PIPE(i, "r"), ![x][w] = FD_PIPE(i, "w")]
      BY <2>1 DEF sys_pipe
    <3> HIDE DEF i, r, w
    <3> QED
      BY <3>1
  <2>2. CASE ~ (Cardinality(avail) >= 2)
    BY <2>2 DEF sys_pipe
  <2> QED
    BY <2>1, <2>2
<1>3. ASSUME NEW h PROVE Holders(h)' \subseteq Holders(h)
  <2>1. CASE UNCHANGED fds
    BY <2>1 DEF Holders
  <2>2. ASSUME NEW r, NEW w, NEW i,
               fds' = [fds EXCEPT ![x][r] = FD_PIPE(i, "r"), ![x][w] = FD_PIPE(i, "w")]
        PROVE  Holders(h)' \subseteq Holders(h)
    <3>1. \A y \in Procs, fd \in Fd :
             \/ fds'[y][fd] = fds[y][fd]
             \/ fds'[y][fd] = FD_PIPE(i, "r") \/ fds'[y][fd] = FD_PIPE(i, "w")
      BY <2>2 DEF TypeOK, Table
    <3>2. FD_FILE(h) # FD_PIPE(i, "r") /\ FD_FILE(h) # FD_PIPE(i, "w")
      BY HandleKinds
    <3> QED
      BY <3>1, <3>2 DEF Holders
  <2> QED
    BY <1>2, <2>1, <2>2
<1> QED
  BY <1>1, <1>3, FewerHolders

\* A child shares the handles of its parent.
LEMMA CloneOnce ==
    ASSUME TypeOK, Unused, HandlesOnce, NEW x \in Procs, NEW y \in Procs, clone(x, y)
    PROVE  HandlesOnce'
<1>1. CASE fds' = [fds EXCEPT ![y] = fds[x]] /\ shared' = shared \cup HandlesIn(fds[x])
  <2>1. ASSUME NEW h \in Handles \ shared'
        PROVE  Holders(h)' \subseteq Holders(h)
    <3>1. \A fd \in Fd : fds[x][fd] # FD_FILE(h)
      BY <1>1, <2>1 DEF HandlesIn, TypeOK, Table
    <3>2. \A z \in Procs, fd \in Fd : fds'[z][fd] = FD_FILE(h) => fds[z][fd] = FD_FILE(h)
      BY <1>1, <3>1 DEF TypeOK
    <3> QED
      BY <3>2 DEF Holders
  <2> QED
    BY <1>1, <2>1, FewerHolders DEF clone
<1>2. CASE UNCHANGED <<fds, shared>>
  <2>1. \A h : Holders(h)' = Holders(h)
    BY <1>2 DEF Holders
  <2> QED
    BY <1>2, <2>1, FewerHolders DEF clone
<1> QED
  BY <1>1, <1>2 DEF clone

\* Every step keeps a handle that was never copied in one place.
LEMMA NextOnce == ASSUME IInv, HandlesOnce, [Next]_vars PROVE HandlesOnce'
<1> USE DEF IInv
<1>1. ASSUME NEW x \in Procs, syscall(x)
      PROVE  HandlesOnce'
  <2>1. CASE sys_pipe(x)
    BY <2>1, PipeOnce
  <2>2. ASSUME NEW h \in Handles, sys_open(x, h)
        PROVE  HandlesOnce'
    BY <2>2, OpenOnce
  <2>3. ASSUME NEW fd \in Fd, sys_close(x, fd)
        PROVE  HandlesOnce'
    BY <2>3, CloseOnce
  <2>4. ASSUME NEW fd \in Fd, sys_dup(x, fd)
        PROVE  HandlesOnce'
    <3>1. Free(x) \in SUBSET Nat /\ Free(x) # {} /\ Free(x) \subseteq Fd
      <4>1. Free(x) \subseteq Fd /\ Fd \subseteq Nat
        BY DEF Free, Fd
      <4>2. Free(x) # {}
        BY <2>4 DEF sys_dup
      <4> QED
        BY <4>1, <4>2
    <3>2. PICK to \in Fd : to = Min(Free(x))
      BY <3>1, LowestIsIn
    <3> QED
      BY <2>4, <3>2, CopyShares DEF sys_dup
  <2>5. ASSUME NEW fd \in Fd, NEW to \in Fd, sys_dup2(x, fd, to)
        PROVE  HandlesOnce'
    BY <2>5, CopyShares DEF sys_dup2
  <2>6. ASSUME NEW fd \in Fd, NEW min_fd \in Fd, sys_fcntl_dupfd(x, fd, min_fd)
        PROVE  HandlesOnce'
    <3> DEFINE S == {i \in Free(x) : i >= min_fd}
    <3>1. S \in SUBSET Nat /\ S # {} /\ S \subseteq Fd
      <4>1. S \subseteq Fd /\ Fd \subseteq Nat
        BY DEF Free, Fd
      <4>2. S # {}
        BY <2>6 DEF sys_fcntl_dupfd
      <4> HIDE DEF S
      <4> QED
        BY <4>1, <4>2
    <3>2. PICK to \in Fd : to = Min(S)
      BY <3>1, LowestIsIn
    <3> QED
      BY <2>6, <3>2, CopyShares DEF sys_fcntl_dupfd
  <2>7. ASSUME NEW y \in Procs \ {x}, clone(x, y)
        PROVE  HandlesOnce'
    BY <2>7, CloneOnce
  <2>8. ASSUME NEW y \in Procs \ {x}, kill(y)
        PROVE  HandlesOnce'
    BY <2>8, CloseAllOnce DEF kill
  <2>9. CASE sys_exit(x)
    BY <2>9, CloseAllOnce DEF sys_exit
  <2>10. CASE exit_abrupt(x)
    <3>1. UNCHANGED <<fds, handles, shared>>
      BY <2>10 DEF exit_abrupt
    <3>2. \A h : Holders(h)' = Holders(h)
      BY <3>1 DEF Holders
    <3> QED
      BY <3>1, <3>2, FewerHolders
  <2> QED
    BY <1>1, <2>1, <2>2, <2>3, <2>4, <2>5, <2>6, <2>7, <2>8, <2>9, <2>10 DEF syscall
<1>2. ASSUME NEW y \in Procs, reap(y)
      PROVE  HandlesOnce'
  <2>1. fds' = [fds EXCEPT ![y] = NoFds] /\ UNCHANGED <<handles, shared>>
    BY <1>2 DEF reap, NoFds
  <2>2. \A h : Holders(h)' \subseteq Holders(h)
    BY <2>1, TableEmptied
  <2> QED
    BY <2>1, <2>2, FewerHolders
<1>3. CASE UNCHANGED vars
  BY <1>3 DEF vars, HandlesOnce, Holders
<1> QED
  BY <1>1, <1>2, <1>3 DEF Next

\* A handle of a mounted file system that was never copied sits in at most
\* one entry, and is open as long as it does; for any number of processes,
\* descriptors and handles.
THEOREM HandlesStayLive == Spec => []HandlesLive
<1>1. Init => HandlesOnce
  <2> SUFFICES ASSUME Init, NEW h PROVE Holders(h) = {}
    BY DEF HandlesOnce
  <2>1. \A xf \in Procs \X Fd : fds[xf[1]][xf[2]] # FD_FILE(h)
    BY HandleKinds DEF Init
  <2> QED
    BY <2>1 DEF Holders
<1>2. IInv /\ [Next]_vars => IInv'
  BY NextKeeps
<1>3. IInv /\ HandlesOnce /\ [Next]_vars => HandlesOnce'
  BY NextOnce
<1>4. HandlesOnce => HandlesLive
  <2> SUFFICES ASSUME HandlesOnce, NEW h \in Handles \ shared
               PROVE  Cardinality(Holders(h)) <= 1 /\ (Holders(h) # {} => h \in handles)
    BY DEF HandlesLive, Holders
  <2>1. Holders(h) # {} => h \in handles
    BY DEF HandlesOnce
  <2>2. Holders(h) = {} \/ \E a : Holders(h) = {a}
    BY DEF HandlesOnce
  <2>3. Cardinality(Holders(h)) \in {0, 1}
    BY <2>2, FS_EmptySet, FS_Singleton
  <2> QED
    BY <2>1, <2>3
<1> QED
  BY InitIInv, <1>1, <1>2, <1>3, <1>4, PTL DEF Spec
=============================================================================
