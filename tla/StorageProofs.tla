--------------------------- MODULE StorageProofs ----------------------------
(*****************************************************************************)
(* Proofs about FileData, for files, blocks, reads and writes of any size and *)
(* any number of descriptors, and about Ahci, for any number of controllers, *)
(* ports, slots and sectors.                                                 *)
(*                                                                           *)
(* FileData: writes stay in the storage of the file, and the calls implement *)
(* AbstractFile.  Contained alone is not inductive: whether a write fits     *)
(* depends on how much storage the file has, which Storage derives from where *)
(* it lies: whole blocks in the archive, whatever the last growth allocated  *)
(* in the heap.                                                              *)
(*                                                                           *)
(* Ahci: the size of a device is copied from the driver's table, so the claim *)
(* is inductive only together with the same claim about the table; and a port *)
(* that is probed for the first time keeps the sectors of its entry when     *)
(* IDENTIFY moves no data, so entries that are not active have 0 there.      *)
(*****************************************************************************)
EXTENDS FileData, Ahci, SequenceTheorems, FiniteSetTheorems, TLAPS

\* The larger of two numbers.
LEMMA MaxOfTwo ==
    ASSUME NEW a \in Int, NEW b \in Int
    PROVE  Max({a, b}) = IF a >= b THEN a ELSE b
<1> DEFINE m == IF a >= b THEN a ELSE b
<1>1. m \in {a, b} /\ \A y \in {a, b} : m >= y
  OBVIOUS
<1>2. \A x \in {a, b} : (\A y \in {a, b} : x >= y) => x = m
  OBVIOUS
<1> QED
  BY <1>1, <1>2 DEF Max

\* The smaller of two numbers.
LEMMA MinOfTwo ==
    ASSUME NEW a \in Int, NEW b \in Int
    PROVE  Min({a, b}) = IF a <= b THEN a ELSE b
<1> DEFINE m == IF a <= b THEN a ELSE b
<1>1. m \in {a, b} /\ \A y \in {a, b} : m <= y
  OBVIOUS
<1>2. \A x \in {a, b} : (\A y \in {a, b} : x <= y) => x = m
  OBVIOUS
<1> QED
  BY <1>1, <1>2 DEF Min

\* The sequences of at most n elements.
LEMMA BoundedSeqs ==
    ASSUME NEW S, NEW n \in Nat, NEW s
    PROVE  s \in BoundedSeq(S, n) <=> s \in Seq(S) /\ Len(s) <= n
  BY DEF BoundedSeq, SeqOf

\* Rounding up to whole blocks: nothing is rounded away, and a size that is
\* left as it was is a multiple of the block.
LEMMA BlocksRoundUp ==
    ASSUME NEW n \in Nat
    PROVE  /\ WholeBlocks(n) \in Nat /\ WholeBlocks(n) >= n
           /\ WholeBlocks(n) = n => n % BLOCK = 0
<1> DEFINE q == (n + BLOCK - 1) \div BLOCK
<1>1. BLOCK \in Nat /\ BLOCK > 0
  BY FileAssumption
<1>2. q \in Nat /\ BLOCK * q <= n + BLOCK - 1 /\ n + BLOCK - 1 < BLOCK * q + BLOCK
  BY <1>1, SMTT(30)
<1>3. BLOCK * q = n => n % BLOCK = 0
  <2> HAVE BLOCK * q = n
  <2> DEFINE d == n \div BLOCK
             r == n % BLOCK
  <2>1. d \in Int /\ r \in Int /\ n = BLOCK * d + r /\ 0 <= r /\ r < BLOCK
    BY <1>1
  <2> HIDE DEF d, r, q
  <2>2. BLOCK * (q - d) = r
    BY <1>1, <1>2, <2>1
  <2>3. q - d < 1
    BY <1>1, <1>2, <2>1, <2>2
  <2>4. r <= 0
    BY <1>1, <1>2, <2>1, <2>2, <2>3
  <2> QED
    BY <2>1, <2>4 DEF r
<1> QED
  BY <1>1, <1>2, <1>3 DEF WholeBlocks
----------------------------------------------------------------------------
TypeOK ==
    /\ at \in {"none", "heap", "archive", "unpacked"}
    /\ mem \in Seq(Byte)
    /\ size \in 0 .. MaxSize /\ size <= Len(mem)
    /\ offset \in [Fd -> 0 .. MaxSize]
    /\ beyond \in BOOLEAN /\ header \in BOOLEAN /\ interior \in BOOLEAN /\ removed \in BOOLEAN

\* The strengthening: what the storage has room for, by where it lies.
Storage ==
    /\ at = "none" => size = 0 /\ header
    /\ at \in {"archive", "unpacked"} => Len(mem) = WholeBlocks(size)

IInv == TypeOK /\ Storage /\ Contained

\* A new file has no storage, one in the archive whole blocks.
LEMMA InitIInv == Init => IInv
<1> SUFFICES ASSUME Init PROVE IInv
  OBVIOUS
<1> USE FileAssumption
<1>0. /\ beyond \in BOOLEAN /\ header \in BOOLEAN /\ interior \in BOOLEAN /\ removed \in BOOLEAN
      /\ offset \in [Fd -> 0 .. MaxSize]
  <2>1. beyond \in BOOLEAN /\ header \in BOOLEAN /\ interior \in BOOLEAN /\ removed \in BOOLEAN
    BY Zenon DEF Init
  <2> QED
    BY <2>1 DEF Init
<1>1. CASE at = "none" /\ mem = <<>> /\ size = 0
  <2>1. mem \in Seq(Byte) /\ Len(mem) = 0
    BY <1>1
  <2>2. TypeOK
    BY <1>0, <1>1, <2>1 DEF TypeOK
  <2>3. Storage /\ Contained
    BY <1>1 DEF Init, Storage, Contained
  <2> QED
    BY <2>2, <2>3 DEF IInv
<1>2. ASSUME NEW s \in BoundedSeq(Byte, BLOCK),
             at \in {"archive", "unpacked"}, mem = Archived(s), size = Len(s)
      PROVE  IInv
  <2>1. s \in Seq(Byte) /\ Len(s) \in Nat /\ Len(s) <= BLOCK
    BY BoundedSeqs
  <2>2. WholeBlocks(Len(s)) \in Nat /\ WholeBlocks(Len(s)) >= Len(s)
    BY <2>1, BlocksRoundUp
  <2> DEFINE pad == [i \in 1 .. WholeBlocks(Len(s)) - Len(s) |-> 0]
  <2>3. pad \in Seq(Byte) /\ Len(pad) = WholeBlocks(Len(s)) - Len(s)
    BY <2>1, <2>2
  <2> HIDE DEF pad
  <2>4. s \o pad \in Seq(Byte) /\ Len(s \o pad) = WholeBlocks(Len(s))
    BY <2>1, <2>2, <2>3
  <2>5. mem = s \o pad
    BY <1>2 DEF Archived, pad
  <2>6. TypeOK
    BY <1>0, <1>2, <2>1, <2>2, <2>4, <2>5 DEF TypeOK
  <2>7. Storage /\ Contained
    BY <1>2, <2>4, <2>5 DEF Init, Storage, Contained
  <2> QED
    BY <2>6, <2>7 DEF IInv
<1> QED
  BY <1>1, <1>2 DEF Init

\* What a call of sys_write that does not fail leaves.
LEMMA WriteKeeps ==
    ASSUME IInv, NEW f \in Fd, NEW s \in BoundedSeq(Byte, MaxLen) \ {<<>>},
           sys_write(f, s), UNCHANGED removed
    PROVE  IInv'
<1> DEFINE o == offset[f]
           new == o + Len(s)
           n == Max({size, new})
           grows == new > size
           heap == grows \/ at = "heap"
<1> USE FileAssumption
<1>1. s \in Seq(Byte) /\ Len(s) \in Nat \ {0} /\ o \in 0 .. MaxSize /\ new \in Nat
  BY BoundedSeqs DEF IInv, TypeOK
<1>2. n = IF grows THEN new ELSE size
  <2>1. size \in Int
    BY DEF IInv, TypeOK
  <2> HIDE DEF new
  <2> QED
    BY <1>1, <2>1, MaxOfTwo
<1>3. new <= MaxSize
  BY DEF sys_write
<1>4. CASE Fail
  BY <1>4 DEF Fail, IInv, TypeOK, Storage, Contained
<1>5. CASE ~ Fail
  <2>1. PICK m \in (IF grows THEN Grown(new) ELSE {mem}) :
          /\ mem' = Put(m, o, s, n)
          /\ beyond' = (beyond \/ (heap /\ n + 1 > Len(m)))
          /\ header' = (header /\ (heap \/ n + 1 <= Len(m)))
    BY <1>5 DEF sys_write
  <2>2. /\ IF grows THEN at' = "heap" /\ kfree ELSE UNCHANGED <<at, interior>>
        /\ size' = n
        /\ offset' = [offset EXCEPT ![f] = new]
    BY <1>5 DEF sys_write
  <2>3. m \in Seq(Byte) /\ Len(m) = IF grows THEN new + 1 ELSE Len(mem)
    <3>1. CASE grows
      <4>1. m \in [1 .. new + 1 -> Byte]
        BY <3>1 DEF Grown
      <4> HIDE DEF new
      <4>2. new + 1 \in Nat
        BY <1>1
      <4> QED
        BY <3>1, <4>1, <4>2, SeqDef
    <3>2. CASE ~ grows
      BY <3>2 DEF IInv, TypeOK
    <3> QED
      BY <3>1, <3>2
  <2> HIDE DEF o, new, n, grows, heap
  <2>4. mem' \in Seq(Byte) /\ Len(mem') = Len(m)
    <3>1. DOMAIN m = 1 .. Len(m) /\ Len(m) \in Nat
      BY <2>3
    <3>2. \A i \in DOMAIN m : m[i] \in Byte
      BY <2>3
    <3>3. \A i \in o + 1 .. o + Len(s) : s[i - o] \in Byte
      BY <1>1
    <3>4. mem' \in [1 .. Len(m) -> Byte]
      BY <2>1, <3>1, <3>2, <3>3 DEF Put
    <3> QED
      BY <3>1, <3>4
  <2>5. n + 1 <= Len(m) => mem'[n + 1] = 0
    BY <1>1, <1>2, <2>1, <2>3 DEF Put, IInv, TypeOK
  <2>6. mem' \in Seq(Byte) /\ size' \in 0 .. MaxSize /\ size' <= Len(mem')
    BY <1>1, <1>2, <1>3, <2>2, <2>3, <2>4 DEF grows, IInv, TypeOK
  <2>7. offset' \in [Fd -> 0 .. MaxSize]
    BY <1>1, <1>3, <2>2 DEF IInv, TypeOK
  <2>8. /\ beyond' \in BOOLEAN /\ header' \in BOOLEAN /\ interior' \in BOOLEAN
        /\ removed' \in BOOLEAN
    BY <2>1, <2>2, Zenon DEF IInv, TypeOK, kfree
  <2>9. TypeOK'
    BY <2>2, <2>6, <2>7, <2>8 DEF IInv, TypeOK
  <2>10. CASE grows
    <3>1. at' = "heap" /\ Len(m) = n + 1 /\ n \in Nat
      BY <1>1, <1>2, <2>2, <2>3, <2>10
    <3>2. ~ beyond'
      <4>1. ~ (n + 1 > Len(m))
        BY <3>1
      <4> QED
        BY <2>1, <4>1, Zenon DEF IInv, Contained
    <3> QED
      BY <2>2, <2>4, <2>5, <2>9, <3>1, <3>2 DEF IInv, Storage, Contained
  <2>11. CASE ~ grows
    <3>1. at' = at /\ interior' = interior /\ size' = size /\ m = mem /\ n = size
      BY <1>2, <2>1, <2>2, <2>11
    <3>2. at # "none"
      BY <1>1, <2>11 DEF IInv, Storage, grows, new
    <3>3. Storage'
      BY <2>4, <3>1, <3>2 DEF IInv, Storage
    <3>4. ~ beyond'
      BY <2>1, <3>1, <2>11 DEF IInv, TypeOK, Contained, heap
    <3>5. ~ header' /\ at' # "heap" => size' % BLOCK = 0
      <4> SUFFICES ASSUME ~ header', at' # "heap" PROVE size % BLOCK = 0
        BY <3>1
      <4>1. CASE ~ header
        BY <3>1, <4>1 DEF IInv, Contained
      <4>2. CASE ~ (size + 1 <= Len(mem))
        <5>1. Len(mem) = WholeBlocks(size)
          BY <3>1, <3>2 DEF IInv, TypeOK, Storage
        <5> QED
          BY <4>2, <5>1, BlocksRoundUp DEF IInv, TypeOK
      <4> QED
        BY <2>1, <3>1, <4>1, <4>2
    <3>6. at' = "heap" => Len(mem') > size' /\ mem'[size' + 1] = 0
      BY <2>3, <2>4, <2>5, <3>1, <2>11 DEF IInv, TypeOK, Contained
    <3> QED
      BY <2>9, <3>1, <3>3, <3>4, <3>5, <3>6 DEF IInv, Contained
  <2> QED
    BY <2>10, <2>11
<1> QED
  BY <1>4, <1>5

\* Every call keeps the storage as large as the invariant says.
LEMMA NextKeeps ==
    ASSUME IInv, [Next]_vars
    PROVE  IInv'
<1> USE FileAssumption
<1>1. CASE UNCHANGED vars
  BY <1>1 DEF vars, IInv, TypeOK, Storage, Contained
<1>2. CASE remove
  <2>1. interior' \in BOOLEAN /\ removed' \in BOOLEAN
    BY <1>2, Zenon DEF remove, kfree
  <2>2. interior' => at # "archive"
    BY <1>2 DEF remove, kfree, IInv, Contained
  <2> QED
    BY <1>2, <2>1, <2>2 DEF remove, IInv, TypeOK, Storage, Contained
<1>3. ASSUME UNCHANGED removed, NEW f \in Fd, NEW s \in BoundedSeq(Byte, MaxLen) \ {<<>>},
             sys_write(f, s)
      PROVE  IInv'
  BY <1>3, WriteKeeps
<1>4. ASSUME UNCHANGED removed, NEW f \in Fd, NEW n \in 0 .. MaxLen, sys_read(f, n)
      PROVE  IInv'
  <2> DEFINE k == IF offset[f] >= size THEN 0 ELSE Min({n, size - offset[f]})
  <2>1. k \in Nat /\ offset[f] + k \in 0 .. MaxSize
    <3>1. offset[f] \in 0 .. MaxSize /\ size \in 0 .. MaxSize
      BY DEF IInv, TypeOK
    <3> QED
      BY <3>1, MinOfTwo
  <2>2. offset' \in [Fd -> 0 .. MaxSize]
    BY <1>4, <2>1 DEF sys_read, IInv, TypeOK
  <2> QED
    BY <1>4, <2>2 DEF sys_read, IInv, TypeOK, Storage, Contained
<1>5. ASSUME UNCHANGED removed, Fail
      PROVE  IInv'
  BY <1>5 DEF Fail, IInv, TypeOK, Storage, Contained
<1>6. ASSUME UNCHANGED removed, NEW f \in Fd, NEW off \in -1 .. 2,
             NEW w \in {"SEEK_SET", "SEEK_CUR", "SEEK_END"}, sys_lseek(f, off, w)
      PROVE  IInv'
  <2> DEFINE base == CASE w = "SEEK_SET" -> 0
                       [] w = "SEEK_CUR" -> offset[f]
                       [] w = "SEEK_END" -> size
  <2>1. base \in Nat
    BY DEF IInv, TypeOK
  <2>2. CASE base + off < 0
    BY <1>5, <1>6, <2>2 DEF sys_lseek
  <2>3. CASE ~ (base + off < 0)
    <3>1. /\ offset' = [offset EXCEPT ![f] = base + off]
          /\ UNCHANGED <<at, mem, size, beyond, header, interior>>
          /\ base + off <= MaxSize
      BY <1>6, <2>3 DEF sys_lseek
    <3> HIDE DEF base
    <3>2. offset' \in [Fd -> 0 .. MaxSize]
      BY <2>1, <2>3, <3>1 DEF IInv, TypeOK
    <3> QED
      BY <1>6, <3>1, <3>2 DEF IInv, TypeOK, Storage, Contained
  <2> QED
    BY <2>2, <2>3
<1>7. ASSUME UNCHANGED removed, NEW f \in Fd, NEW O_TRUNC \in BOOLEAN, sys_open(f, O_TRUNC)
      PROVE  IInv'
  <2>1. offset' \in [Fd -> 0 .. MaxSize]
    BY <1>7 DEF sys_open, IInv, TypeOK
  <2>2. CASE write_content
    <3>1. interior' \in BOOLEAN
      BY <2>2, Zenon DEF write_content, kfree
    <3>2. mem' \in Seq(Byte) /\ Len(mem') = 1 /\ mem'[1] = 0
      BY <2>2 DEF write_content
    <3> QED
      BY <1>7, <2>1, <2>2, <3>1, <3>2 DEF sys_open, write_content, IInv, TypeOK, Storage, Contained
  <2>3. CASE UNCHANGED <<at, mem, size, interior>>
    BY <1>7, <2>1, <2>3 DEF sys_open, IInv, TypeOK, Storage, Contained
  <2> QED
    BY <1>7, <2>2, <2>3 DEF sys_open
<1>8. ASSUME UNCHANGED removed, NEW f \in Fd, NEW g \in Fd, sys_dup(f, g)
      PROVE  IInv'
  BY <1>8 DEF sys_dup, IInv, TypeOK, Storage, Contained
<1>9. ASSUME UNCHANGED removed, sys_fsize
      PROVE  IInv'
  BY <1>9 DEF sys_fsize, IInv, TypeOK, Storage, Contained
<1> QED
  BY <1>1, <1>2, <1>3, <1>4, <1>6, <1>7, <1>8, <1>9 DEF Next

\* No write leaves the storage of the file, for files, blocks, reads and writes
\* of any size and any number of descriptors.
THEOREM StaysContained == Spec => []Contained
<1>1. IInv => Contained
  BY DEF IInv
<1>2. IInv /\ [Next]_vars => IInv'
  BY NextKeeps
<1> QED
  BY InitIInv, <1>1, <1>2, PTL DEF Spec
----------------------------------------------------------------------------
\* The content of a file is the beginning of its storage.
LEMMA Prefix ==
    ASSUME NEW m \in Seq(Byte), NEW n \in 0 .. Len(m)
    PROVE  /\ SubSeq(m, 1, n) \in Seq(Byte) /\ Len(SubSeq(m, 1, n)) = n
           /\ \A i \in 1 .. n : SubSeq(m, 1, n)[i] = m[i]
<1>1. \A i \in 1 .. n : m[i] \in Byte
  OBVIOUS
<1>2. 1 \in Int /\ n \in Int
  OBVIOUS
<1> QED
  BY <1>1, <1>2, SubSeqProperties

\* A write that succeeds is the write of AbstractFile.
LEMMA WriteRefines ==
    ASSUME IInv, IInv', NEW f \in Fd, NEW s \in BoundedSeq(Byte, MaxLen) \ {<<>>},
           sys_write(f, s), ~ Fail
    PROVE  File!Write(f, s)
<1> DEFINE o == offset[f]
           new == o + Len(s)
           n == Max({size, new})
           grows == new > size
<1> USE FileAssumption
<1>1. s \in Seq(Byte) /\ Len(s) \in Nat \ {0} /\ o \in 0 .. MaxSize /\ size \in Nat
  BY BoundedSeqs DEF IInv, TypeOK
<1>2. n = IF grows THEN new ELSE size
  BY <1>1, MaxOfTwo
<1>3. PICK m \in (IF grows THEN Grown(new) ELSE {mem}) : mem' = Put(m, o, s, n)
  BY DEF sys_write
<1>4. size' = n /\ offset' = [offset EXCEPT ![f] = new] /\ ret' = <<"written", Len(s)>>
  BY DEF sys_write
<1>5. /\ content \in Seq(Byte) /\ Len(content) = size
      /\ \A i \in 1 .. size : content[i] = mem[i]
  BY Prefix DEF content, IInv, TypeOK
<1>6. /\ content' \in Seq(Byte) /\ Len(content') = n
      /\ \A i \in 1 .. n : content'[i] = mem'[i]
  <2>1. mem' \in Seq(Byte) /\ size' \in 0 .. Len(mem')
    BY DEF IInv, TypeOK
  <2> QED
    BY <1>4, <2>1, Prefix DEF content
<1>7. \A i \in 1 .. size : m[i] = mem[i]
  BY <1>3 DEF Grown
<1>8. 1 .. n \subseteq DOMAIN m
  <2>1. CASE grows
    BY <1>1, <1>2, <1>3, <2>1 DEF Grown
  <2>2. CASE ~ grows
    BY <1>1, <1>2, <1>3, <2>2 DEF IInv, TypeOK
  <2> QED
    BY <2>1, <2>2
<1> DEFINE gap == [i \in 1 .. o |-> content'[i]]
           after == [i \in 1 .. File!Larger(Len(content), o + Len(s)) |->
                       IF i \in o + 1 .. o + Len(s) THEN s[i - o]
                       ELSE IF i <= Len(content) THEN content[i] ELSE gap[i]]
<1>9. o <= n /\ n \in Nat
  BY <1>1, <1>2
<1>10. gap \in [1 .. o -> Byte]
  <2>1. \A i \in 1 .. o : content'[i] \in Byte
    BY <1>1, <1>6, <1>9
  <2> QED
    BY <2>1
<1> HIDE DEF grows
<1>11. content' = after
  <2>1. File!Larger(Len(content), o + Len(s)) = n
    BY <1>1, <1>2, <1>5 DEF File!Larger, grows
  <2>2. content' = [i \in 1 .. n |-> content'[i]]
    BY <1>6
  <2>3. ASSUME NEW i \in 1 .. n
        PROVE  content'[i] = IF i \in o + 1 .. o + Len(s) THEN s[i - o]
                             ELSE IF i <= Len(content) THEN content[i] ELSE gap[i]
    <3>0. i \in Int /\ i <= n
      BY <1>9
    <3>1. i \in DOMAIN m /\ i # n + 1 /\ content'[i] = mem'[i]
      <4> HIDE DEF n
      <4> QED
        BY <1>6, <1>8, <1>9, <3>0
    <3>2. content'[i] = IF i \in o + 1 .. o + Len(s) THEN s[i - o] ELSE m[i]
      BY <1>3, <3>1 DEF Put
    <3>3. i \notin o + 1 .. o + Len(s) /\ i <= size => m[i] = content[i]
      BY <1>1, <1>5, <1>7, <1>9
    <3>4. i \notin o + 1 .. o + Len(s) /\ ~ (i <= size) => i \in 1 .. o
      BY <1>1, <1>2, <1>9 DEF grows
    <3> HIDE DEF n
    <3> QED
      BY <1>5, <3>2, <3>3, <3>4
  <2> HIDE DEF n, gap
  <2> QED
    BY <2>1, <2>2, <2>3
<1>12. \E g \in [1 .. o -> Byte] :
          content' = [i \in 1 .. File!Larger(Len(content), o + Len(s)) |->
                        IF i \in o + 1 .. o + Len(s) THEN s[i - o]
                        ELSE IF i <= Len(content) THEN content[i] ELSE g[i]]
  <2> HIDE DEF gap
  <2> WITNESS gap \in [1 .. o -> Byte]
  <2> QED
    BY <1>11
<1> QED
  BY <1>4, <1>12 DEF File!Write

\* What a read copies out.
LEMMA Slice ==
    ASSUME NEW q, NEW o \in Nat, NEW k \in Nat, \A i \in o + 1 .. o + k : q[i] \in Byte
    PROVE  /\ SubSeq(q, o + 1, o + k) \in Seq(Byte) /\ Len(SubSeq(q, o + 1, o + k)) = k
           /\ \A i \in 1 .. k : SubSeq(q, o + 1, o + k)[i] = q[o + i]
<1> DEFINE a == o + 1
           b == o + k
           s == SubSeq(q, a, b)
<1>1. a \in Int /\ b \in Int
  OBVIOUS
<1>2. /\ s \in Seq(Byte) /\ Len(s) = (IF a <= b THEN b - a + 1 ELSE 0)
      /\ \A i \in 1 .. b - a + 1 : s[i] = q[a + i - 1]
  <2> HIDE DEF a, b
  <2>1. \A i \in a .. b : q[i] \in Byte
    BY DEF a, b
  <2> QED
    BY <1>1, <2>1, SubSeqProperties
<1> HIDE DEF s
<1>3. b - a + 1 = k /\ (IF a <= b THEN b - a + 1 ELSE 0) = k
  OBVIOUS
<1>4. \A i \in 1 .. k : a + i - 1 = o + i
  OBVIOUS
<1>5. s \in Seq(Byte) /\ Len(s) = k /\ \A i \in 1 .. k : s[i] = q[o + i]
  <2> HIDE DEF a, b
  <2> QED
    BY <1>2, <1>3, <1>4
<1> QED
  BY <1>5 DEF s

\* A read is the read of AbstractFile.
LEMMA ReadRefines ==
    ASSUME IInv, NEW f \in Fd, NEW n \in 0 .. MaxLen, sys_read(f, n)
    PROVE  File!Read(f, n)
<1> DEFINE o == offset[f]
           k == IF o >= size THEN 0 ELSE Min({n, size - o})
           end == File!Smaller(Len(content), o + n)
<1>1. o \in Nat /\ size \in Nat /\ mem \in Seq(Byte) /\ size <= Len(mem) /\ n \in Nat
  BY FileAssumption DEF IInv, TypeOK
<1>2. /\ content \in Seq(Byte) /\ Len(content) = size
      /\ \A i \in 1 .. size : content[i] = mem[i]
  BY <1>1, Prefix DEF content
<1>3. end = IF size <= o + n THEN size ELSE o + n
  BY <1>1, <1>2 DEF File!Smaller
<1>4. k = IF o >= size THEN 0 ELSE IF n <= size - o THEN n ELSE size - o
  BY <1>1, MinOfTwo
<1> HIDE DEF end, k
<1>5. SubSeq(content, o + 1, end) = SubSeq(mem, o + 1, o + k) /\ Len(SubSeq(mem, o + 1, o + k)) = k
  <2>1. CASE o >= size
    <3>1. end < o + 1 /\ o + k < o + 1 /\ k = 0 /\ end \in Int /\ o + 1 \in Int /\ o + k \in Int
      BY <1>1, <1>3, <1>4, <2>1
    <3>2. SubSeq(content, o + 1, end) = <<>> /\ SubSeq(mem, o + 1, o + k) = <<>>
      BY <3>1, SubSeqEmpty
    <3> QED
      BY <3>1, <3>2
  <2>2. CASE ~ (o >= size)
    <3>1. end = o + k /\ o + k <= size /\ k \in Nat
      BY <1>1, <1>3, <1>4, <2>2
    <3>2. \A i \in o + 1 .. o + k : content[i] = mem[i] /\ mem[i] \in Byte
      BY <1>1, <1>2, <3>1
    <3> DEFINE s == SubSeq(content, o + 1, end)
               t == SubSeq(mem, o + 1, o + k)
    <3>4. s \in Seq(Byte) /\ Len(s) = k /\ \A i \in 1 .. k : s[i] = content[o + i]
      <4>1. \A i \in o + 1 .. o + k : content[i] \in Byte
        BY <3>2
      <4> HIDE DEF o
      <4> QED
        BY <1>1, <3>1, <4>1, Slice
    <3>5. t \in Seq(Byte) /\ Len(t) = k /\ \A i \in 1 .. k : t[i] = mem[o + i]
      <4> HIDE DEF o
      <4> QED
        BY <1>1, <3>1, <3>2, Slice
    <3> HIDE DEF s, t, o
    <3>6. \A i \in 1 .. k : s[i] = t[i]
      <4>1. \A i \in 1 .. k : o + i \in o + 1 .. o + k
        BY <1>1, <3>1
      <4> QED
        BY <3>2, <3>4, <3>5, <4>1
    <3>7. s = t
      BY <3>4, <3>5, <3>6, SeqEqual
    <3> QED
      BY <3>5, <3>7 DEF s, t, o
  <2> QED
    BY <2>1, <2>2
<1>6. /\ ret' = <<"read", SubSeq(mem, o + 1, o + k)>>
      /\ offset' = [offset EXCEPT ![f] = @ + k]
      /\ content' = content
  BY DEF sys_read, k, content
<1> QED
  BY <1>5, <1>6 DEF File!Read, end

\* Every step is a step of AbstractFile, or leaves its variables alone.
LEMMA NextRefines ==
    ASSUME IInv, IInv', [Next]_vars
    PROVE  [File!Next]_(File!vars)
<1> USE FileAssumption
<1>1. CASE UNCHANGED vars
  BY <1>1 DEF vars, File!vars, content
<1>2. CASE remove
  BY <1>2 DEF remove, File!vars, content
<1>3. ASSUME NEW f \in Fd, NEW s \in BoundedSeq(Byte, MaxLen) \ {<<>>}, sys_write(f, s), ~ Fail
      PROVE  File!Next
  <2>1. File!Write(f, s)
    BY <1>3, WriteRefines
  <2>2. s \in File!Bytes(MaxLen) \ {<<>>}
    BY BoundedSeqs DEF File!Bytes
  <2> QED
    BY <2>1, <2>2 DEF File!Next
<1>4. ASSUME NEW f \in Fd, NEW n \in 0 .. MaxLen, sys_read(f, n)
      PROVE  File!Next
  BY <1>4, ReadRefines DEF File!Next
<1>5. CASE Fail
  BY <1>5 DEF Fail, File!Failed, File!Next, content
<1>6. ASSUME NEW f \in Fd, NEW off \in -1 .. 2,
             NEW w \in {"SEEK_SET", "SEEK_CUR", "SEEK_END"}, sys_lseek(f, off, w), ~ Fail
      PROVE  File!Next
  <2> DEFINE base == CASE w = "SEEK_SET" -> 0
                       [] w = "SEEK_CUR" -> offset[f]
                       [] w = "SEEK_END" -> size
  <2>1. base \in Nat
    BY DEF IInv, TypeOK
  <2>2. base + off <= MaxSize /\ ~ (base + off < 0)
    BY <1>6 DEF sys_lseek
  <2>3. File!Seek(f, base + off)
    BY <1>6, <2>2 DEF sys_lseek, File!Seek, content
  <2> HIDE DEF base
  <2>4. base + off \in 0 .. MaxSize
    BY <2>1, <2>2
  <2> QED
    BY <2>3, <2>4 DEF File!Next
<1>7. ASSUME NEW f \in Fd, NEW O_TRUNC \in BOOLEAN, sys_open(f, O_TRUNC)
      PROVE  File!Next
  <2>1. CASE write_content
    <3>1. content' = <<>>
      BY <2>1, SubSeqEmpty DEF write_content, content
    <3>2. File!Truncate(f)
      BY <1>7, <3>1 DEF sys_open, File!Truncate
    <3> QED
      BY <3>2 DEF File!Next
  <2>2. CASE UNCHANGED <<at, mem, size, interior>>
    <3>1. File!Open(f)
      BY <1>7, <2>2 DEF sys_open, File!Open, content
    <3> QED
      BY <3>1 DEF File!Next
  <2> QED
    BY <1>7, <2>1, <2>2 DEF sys_open
<1>8. ASSUME NEW f \in Fd, NEW g \in Fd, sys_dup(f, g)
      PROVE  File!Next
  <2>1. File!Dup(f, g)
    BY <1>8 DEF sys_dup, File!Dup, content
  <2> QED
    BY <2>1 DEF File!Next
<1>9. CASE sys_fsize
  <2>1. Len(content) = size
    BY Prefix DEF content, IInv, TypeOK
  <2> QED
    BY <1>9, <2>1 DEF sys_fsize, File!Size, File!Next, content
<1> QED
  BY <1>1, <1>2, <1>3, <1>4, <1>5, <1>6, <1>7, <1>8, <1>9 DEF Next

\* The calls implement one sequence of bytes with an offset for each
\* descriptor, for files, blocks, reads and writes of any size.
THEOREM ImplementsFile == Spec => RefinesFile
<1>1. Init => File!Init
  <2> SUFFICES ASSUME Init PROVE File!Init
    OBVIOUS
  <2>1. content \in Seq(Byte) /\ Len(content) = size /\ size <= MaxSize
    BY FileAssumption, InitIInv, Prefix DEF content, IInv, TypeOK
  <2>3. content \in File!Bytes(MaxSize)
    BY <2>1, FileAssumption DEF File!Bytes
  <2> QED
    BY <2>3 DEF Init, File!Init
<1>2. IInv /\ [Next]_vars => IInv'
  BY NextKeeps
<1>3. IInv /\ IInv' /\ [Next]_vars => [File!Next]_(File!vars)
  BY NextRefines
<1> QED
  BY InitIInv, <1>1, <1>2, <1>3, PTL DEF Spec, RefinesFile, File!Spec

----------------------------------------------------------------------------
Steps == [step : {"probe"}, hba : Int, port : Ports] \cup [step : {"disk", "cdrom"}, port : Ports]

AhciType ==
    /\ ports \in [Ports -> [active : BOOLEAN, is_atapi : BOOLEAN, sectors : Int, hba : Int]]
    /\ todo \in Seq(Steps)
    /\ dev_ctx \in Seq([port : Ports, offset : Int, sectors : Int, is_cdrom : BOOLEAN, part : BOOLEAN])

EntriesRight ==
    \A n \in Ports :
      /\ ~ ports[n].active => ports[n].sectors = 0
      /\ ~ ports[n].is_atapi /\ n \notin taken => ports[n].sectors \in {0, Size}

DevicesRight ==
    \A id \in 1 .. Len(dev_ctx) :
      LET d == dev_ctx[id]
      IN  ~ d.is_cdrom /\ ~ d.part /\ d.port \notin taken => d.sectors \in {0, Size}

AhciInv == AhciType /\ EntriesRight /\ DevicesRight

\* The steps of the boot are well formed.
LEMMA BootStepsType == BootSteps \in Seq(Steps)
<1> DEFINE n == Cardinality(Ports)
           c == Cardinality(Hbas)
<1>1. n \in Nat \ {0} /\ c \in Nat
  BY AhciAssumption, FS_CardinalityType, FS_EmptySet
<1> HIDE DEF n, c
<1>2. n * c \in Nat
  BY <1>1
<1>3. Ports = 0 .. n - 1
  BY AhciAssumption DEF n
<1> DEFINE probes == [k \in 1 .. n * c |->
                       [step |-> "probe", hba |-> (k - 1) \div n + 1, port |-> (k - 1) % n]]
           disks == [k \in 1 .. n |-> [step |-> "disk", port |-> k - 1]]
           cdroms == [k \in 1 .. n |-> [step |-> "cdrom", port |-> k - 1]]
<1>4. probes \in Seq(Steps)
  <2>1. \A k \in 1 .. n * c : (k - 1) \div n + 1 \in Int /\ (k - 1) % n \in 0 .. n - 1
    BY <1>1, <1>2
  <2>2. \A k \in 1 .. n * c :
          [step |-> "probe", hba |-> (k - 1) \div n + 1, port |-> (k - 1) % n] \in Steps
    BY <1>3, <2>1 DEF Steps
  <2> QED
    BY <1>2, <2>2
<1>5. disks \in Seq(Steps) /\ cdroms \in Seq(Steps)
  BY <1>1, <1>3 DEF Steps
<1>6. BootSteps = (probes \o disks) \o cdroms
  BY DEF BootSteps, n, c
<1> HIDE DEF probes, disks, cdroms
<1> QED
  BY <1>4, <1>5, <1>6

\* At first no port is active and no device registered.
LEMMA AhciInitInv == AhciInit => AhciInv
<1> SUFFICES ASSUME AhciInit PROVE AhciInv
  OBVIOUS
<1>1. AhciType
  BY BootStepsType DEF AhciInit, AhciType, Free
<1>2. EntriesRight
  BY DEF AhciInit, EntriesRight, Free
<1>3. DevicesRight
  BY DEF AhciInit, DevicesRight
<1> QED
  BY <1>1, <1>2, <1>3 DEF AhciInv

\* The size of the medium is a number.
LEMMA SizeType == Size \in Int
  BY AhciAssumption, FS_CardinalityType DEF Size

\* probe_port fills one entry of the table.
LEMMA ProbeKeeps ==
    ASSUME AhciInv, probe_port
    PROVE  AhciInv'
<1> DEFINE h == Head(todo).hba
           n == Head(todo).port
           cd == drive[h][n] = "atapi"
<1>1. n \in Ports /\ Tail(todo) \in Seq(Steps) /\ h \in Int
  <2>1. todo \in Seq(Steps) /\ todo # <<>> /\ Head(todo).step = "probe"
    BY DEF AhciInv, AhciType, probe_port
  <2>2. Head(todo) \in Steps /\ Tail(todo) \in Seq(Steps)
    BY <2>1
  <2> QED
    BY <2>1, <2>2 DEF Steps
<1>2. todo' = Tail(todo) /\ dev_ctx' = dev_ctx
  BY DEF probe_port
<1>3. CASE UNCHANGED <<ports, taken>>
  BY <1>1, <1>2, <1>3 DEF AhciInv, AhciType, EntriesRight, DevicesRight
<1>4. CASE ~ UNCHANGED <<ports, taken>>
  <2>1. /\ \E o : \E s \in (IF cd THEN atapi_identify(o) ELSE identify(ports[n].sectors, o)) :
              ports' = [ports EXCEPT ![n] = [active |-> TRUE, is_atapi |-> cd,
                                             sectors |-> s, hba |-> h]]
        /\ taken' = IF ports[n].active THEN taken \cup {n} ELSE taken
    BY <1>4 DEF probe_port
  <2>2. PICK o : \E s \in (IF cd THEN atapi_identify(o) ELSE identify(ports[n].sectors, o)) :
              ports' = [ports EXCEPT ![n] = [active |-> TRUE, is_atapi |-> cd,
                                             sectors |-> s, hba |-> h]]
    BY <2>1
  <2>3. PICK s \in (IF cd THEN atapi_identify(o) ELSE identify(ports[n].sectors, o)) :
              ports' = [ports EXCEPT ![n] = [active |-> TRUE, is_atapi |-> cd,
                                             sectors |-> s, hba |-> h]]
    BY <2>2
  <2>4. cd \in BOOLEAN
    OBVIOUS
  <2> HIDE DEF h, n, cd
  <2>5. s \in Int
    BY <1>1, <2>3, SizeType, AhciAssumption
       DEF atapi_identify, identify, Garbage, AhciInv, AhciType
  <2>6. ~ cd => s \in {Size, ports[n].sectors}
    BY <2>3 DEF identify
  <2>7. [active |-> TRUE, is_atapi |-> cd, sectors |-> s, hba |-> h]
          \in [active : BOOLEAN, is_atapi : BOOLEAN, sectors : Int, hba : Int]
    BY <1>1, <2>4, <2>5
  <2>8. AhciType'
    BY <1>1, <1>2, <2>3, <2>7 DEF AhciInv, AhciType
  <2>9. taken \subseteq taken' /\ (ports[n].active => n \in taken')
    BY <2>1
  <2>10. DevicesRight'
    BY <1>2, <2>9 DEF AhciInv, DevicesRight
  <2>11. EntriesRight'
    <3> SUFFICES ASSUME NEW k \in Ports
                 PROVE  /\ ~ ports'[k].active => ports'[k].sectors = 0
                        /\ ~ ports'[k].is_atapi /\ k \notin taken' => ports'[k].sectors \in {0, Size}
      BY DEF EntriesRight
    <3>1. CASE k # n
      <4>1. ports'[k] = ports[k]
        BY <2>3, <3>1 DEF AhciInv, AhciType
      <4> QED
        BY <2>9, <4>1 DEF AhciInv, EntriesRight
    <3>2. CASE k = n
      <4>1. ports'[n] = [active |-> TRUE, is_atapi |-> cd, sectors |-> s, hba |-> h]
        BY <1>1, <2>3 DEF AhciInv, AhciType
      <4>2. ~ ports[n].active => ports[n].sectors = 0
        BY <1>1 DEF AhciInv, EntriesRight
      <4> QED
        BY <2>6, <2>9, <3>2, <4>1, <4>2
    <3> QED
      BY <3>1, <3>2
  <2> QED
    BY <2>8, <2>10, <2>11 DEF AhciInv
<1> QED
  BY <1>3, <1>4

\* Registering a disk copies its size.
LEMMA DiskKeeps ==
    ASSUME AhciInv, register_disk_device
    PROVE  AhciInv'
<1> DEFINE n == Head(todo).port
           whole == Dev(n, 0, ports[n].sectors, FALSE, FALSE)
           part == Dev(n, 1, 1, FALSE, TRUE)
           D == [port : Ports, offset : Int, sectors : Int, is_cdrom : BOOLEAN, part : BOOLEAN]
<1>1. n \in Ports /\ Tail(todo) \in Seq(Steps)
  <2>1. todo \in Seq(Steps) /\ todo # <<>>
    BY DEF AhciInv, AhciType, register_disk_device
  <2>2. Head(todo) \in Steps /\ Tail(todo) \in Seq(Steps)
    BY <2>1
  <2> QED
    BY <2>2 DEF Steps
<1>2. todo' = Tail(todo) /\ ports' = ports /\ taken' = taken
  BY DEF register_disk_device
<1>3. EntriesRight'
  BY <1>2 DEF AhciInv, EntriesRight
<1>4. CASE UNCHANGED dev_ctx
  BY <1>1, <1>2, <1>3, <1>4 DEF AhciInv, AhciType, DevicesRight
<1>5. CASE ~ UNCHANGED dev_ctx
  <2>1. /\ ~ ports[n].is_atapi
        /\ dev_ctx' = Append(dev_ctx, whole) \/ dev_ctx' = dev_ctx \o <<whole, part>>
    BY <1>5 DEF register_disk_device
  <2>2. whole \in D /\ part \in D
    BY <1>1 DEF Dev, AhciInv, AhciType
  <2>3. /\ whole.port = n /\ whole.sectors = ports[n].sectors
        /\ part.part = TRUE
    BY DEF Dev
  <2>4. n \notin taken => ports[n].sectors \in {0, Size}
    BY <1>1, <2>1 DEF AhciInv, EntriesRight
  <2> HIDE DEF whole, part, n
  <2>5. dev_ctx \in Seq(D)
    BY DEF AhciInv, AhciType
  <2>6. dev_ctx' \in Seq(D)
    <3> HIDE DEF D
    <3>1. <<whole, part>> \in Seq(D)
      BY <2>2
    <3>2. Append(dev_ctx, whole) \in Seq(D)
      BY <2>2, <2>5
    <3>3. dev_ctx \o <<whole, part>> \in Seq(D)
      BY <2>5, <3>1
    <3> QED
      BY <2>1, <3>2, <3>3
  <2>7. AhciType'
    BY <1>1, <1>2, <2>6 DEF AhciInv, AhciType
  <2>8. \A id \in 1 .. Len(dev_ctx') :
          (id \in 1 .. Len(dev_ctx) /\ dev_ctx'[id] = dev_ctx[id]) \/ dev_ctx'[id] \in {whole, part}
    <3> HIDE DEF D
    <3>1. CASE dev_ctx' = Append(dev_ctx, whole)
      BY <2>2, <2>5, <3>1
    <3>2. CASE dev_ctx' = dev_ctx \o <<whole, part>>
      BY <2>2, <2>5, <3>2
    <3> QED
      BY <2>1, <3>1, <3>2
  <2>9. DevicesRight'
    <3> SUFFICES ASSUME NEW id \in 1 .. Len(dev_ctx'),
                        ~ dev_ctx'[id].is_cdrom, ~ dev_ctx'[id].part, dev_ctx'[id].port \notin taken
                 PROVE  dev_ctx'[id].sectors \in {0, Size}
      BY <1>2 DEF DevicesRight
    <3>1. CASE id \in 1 .. Len(dev_ctx) /\ dev_ctx'[id] = dev_ctx[id]
      BY <3>1 DEF AhciInv, DevicesRight
    <3>2. CASE dev_ctx'[id] = whole
      BY <2>3, <2>4, <3>2
    <3>3. CASE dev_ctx'[id] = part
      BY <2>3, <3>3
    <3> QED
      BY <2>8, <3>1, <3>2, <3>3
  <2> QED
    BY <1>3, <2>7, <2>9 DEF AhciInv
<1> QED
  BY <1>4, <1>5

\* A CD-ROM is no disk.
LEMMA CdromKeeps ==
    ASSUME AhciInv, register_cdrom
    PROVE  AhciInv'
<1> DEFINE n == Head(todo).port
           D == [port : Ports, offset : Int, sectors : Int, is_cdrom : BOOLEAN, part : BOOLEAN]
<1>1. n \in Ports /\ Tail(todo) \in Seq(Steps)
  <2>1. todo \in Seq(Steps) /\ todo # <<>>
    BY DEF AhciInv, AhciType, register_cdrom
  <2>2. Head(todo) \in Steps /\ Tail(todo) \in Seq(Steps)
    BY <2>1
  <2> QED
    BY <2>2 DEF Steps
<1>2. todo' = Tail(todo) /\ taken' = taken
  BY DEF register_cdrom
<1>3. CASE UNCHANGED <<ports, dev_ctx>>
  BY <1>1, <1>2, <1>3 DEF AhciInv, AhciType, EntriesRight, DevicesRight
<1>4. CASE ~ UNCHANGED <<ports, dev_ctx>>
  <2>1. /\ ports[n].active /\ ports[n].is_atapi
        /\ \E s \in {0, ports[n].sectors, Size} \cup Garbage :
              /\ ports' \in {[ports EXCEPT ![n].sectors = s], ports}
              /\ dev_ctx' = Append(dev_ctx, Dev(n, 0, s, TRUE, FALSE))
    BY <1>4 DEF register_cdrom
  <2>2. PICK s \in {0, ports[n].sectors, Size} \cup Garbage :
              /\ ports' \in {[ports EXCEPT ![n].sectors = s], ports}
              /\ dev_ctx' = Append(dev_ctx, Dev(n, 0, s, TRUE, FALSE))
    BY <2>1
  <2> HIDE DEF n
  <2>3. s \in Int
    BY <1>1, SizeType DEF Garbage, AhciInv, AhciType
  <2>4. ports' \in [Ports -> [active : BOOLEAN, is_atapi : BOOLEAN, sectors : Int, hba : Int]]
    BY <1>1, <2>2, <2>3 DEF AhciInv, AhciType
  <2>5. EntriesRight'
    <3> SUFFICES ASSUME NEW k \in Ports
                 PROVE  /\ ~ ports'[k].active => ports'[k].sectors = 0
                        /\ ~ ports'[k].is_atapi /\ k \notin taken => ports'[k].sectors \in {0, Size}
      BY <1>2 DEF EntriesRight
    <3>1. CASE ports'[k] = ports[k]
      BY <3>1 DEF AhciInv, EntriesRight
    <3>2. CASE k = n /\ ports'[n].active /\ ports'[n].is_atapi
      BY <3>2
    <3> QED
      BY <1>1, <2>1, <2>2, <3>1, <3>2 DEF AhciInv, AhciType
  <2> DEFINE d == Dev(n, 0, s, TRUE, FALSE)
  <2>6. d \in D /\ d.is_cdrom = TRUE
    BY <1>1, <2>3 DEF Dev
  <2> HIDE DEF d
  <2>7. dev_ctx \in Seq(D) /\ dev_ctx' = Append(dev_ctx, d)
    BY <2>2 DEF AhciInv, AhciType, d
  <2>8. DevicesRight'
    <3> SUFFICES ASSUME NEW id \in 1 .. Len(dev_ctx'),
                        ~ dev_ctx'[id].is_cdrom, ~ dev_ctx'[id].part, dev_ctx'[id].port \notin taken
                 PROVE  dev_ctx'[id].sectors \in {0, Size}
      BY <1>2 DEF DevicesRight
    <3>1. (id \in 1 .. Len(dev_ctx) /\ dev_ctx'[id] = dev_ctx[id]) \/ dev_ctx'[id] = d
      <4> HIDE DEF D
      <4> QED
        BY <2>6, <2>7
    <3> QED
      BY <2>6, <3>1 DEF AhciInv, DevicesRight
  <2>9. AhciType'
    BY <1>1, <1>2, <2>4, <2>6, <2>7 DEF AhciInv, AhciType
  <2> QED
    BY <2>5, <2>8, <2>9 DEF AhciInv
<1> QED
  BY <1>3, <1>4

\* A disk's device has the size of the disk, or 0, for any number of
\* controllers, ports, command slots and sectors, whatever becomes of the
\* commands, unless two controllers share the port's number.
THEOREM SectorsRight == AhciSpec => []SectorsAreTheDisks
<1>1. AhciInv => SectorsAreTheDisks
  <2> SUFFICES ASSUME AhciInv PROVE SectorsAreTheDisks
    OBVIOUS
  <2>1. Len(dev_ctx) \in Nat /\ MADE \in Nat
    BY AhciAssumption DEF AhciInv, AhciType
  <2> DEFINE a == Len(dev_ctx)
             m == IF a <= MADE THEN a ELSE MADE
  <2>2. m \in {a, MADE} /\ \A y \in {a, MADE} : m <= y
    BY <2>1
  <2>3. \A x \in {a, MADE} : (\A y \in {a, MADE} : x <= y) => x = m
    BY <2>1
  <2>4. Min({a, MADE}) = m
    BY <2>2, <2>3 DEF Min
  <2>5. Registered \subseteq 1 .. Len(dev_ctx)
    BY <2>1, <2>4 DEF Registered
  <2> QED
    BY <2>5 DEF AhciInv, DevicesRight, SectorsAreTheDisks
<1>2. AhciInv /\ [AhciNext]_ahci_vars => AhciInv'
  <2> SUFFICES ASSUME AhciInv, [AhciNext]_ahci_vars PROVE AhciInv'
    OBVIOUS
  <2>1. CASE UNCHANGED <<ports, dev_ctx, todo, taken>>
    BY <2>1 DEF AhciInv, AhciType, EntriesRight, DevicesRight
  <2> QED
    BY <2>1, ProbeKeeps, DiskKeeps, CdromKeeps DEF AhciNext, Call, Late, Idle, ahci_vars
<1> QED
  BY AhciInitInv, <1>1, <1>2, PTL DEF AhciSpec
=============================================================================
