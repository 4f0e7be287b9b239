------------------------------ MODULE FileData ------------------------------
(***************************************************************************)
(* The bytes of one regular file of the node tree under read, write,       *)
(* lseek, fsize and O_TRUNC (src/user/syscall.cpp, src/fs/vfs.cpp), called *)
(* through several descriptors.  A descriptor that was duplicated, or      *)
(* inherited over fork, has an offset of its own from then on.             *)
(*                                                                         *)
(* The bytes lie in a heap block, or still in the archive that the kernel  *)
(* was started with.  The build compresses that archive, and then it lies  *)
(* in a heap block itself: a pointer to a file in it is not a pointer that *)
(* kfree can take.                                                         *)
(***************************************************************************)
EXTENDS Integers, Sequences, SequencesExt, FiniteSetsExt

CONSTANTS
    Byte,       \* values of bytes, 0 among them
    Fd,         \* descriptors of the file
    BLOCK,      \* bytes of an archive block (512)
    MaxSize,    \* bound on the size and the offsets
    MaxLen      \* bound on the length of one read or write

ASSUME FileAssumption ==
    /\ 0 \in Byte
    /\ BLOCK \in Nat \ {0} /\ MaxSize \in Nat /\ MaxLen \in Nat
    /\ BLOCK <= MaxSize

VARIABLES
    at,         \* where private_data points: "none", "heap", "archive", "unpacked"
    mem,        \* the bytes from there on, as far as they are the file's to use
    size,       \* File::size
    offset,     \* FdEntry::offset of each descriptor
    ret,        \* the result of the last call
    beyond,     \* history: a write went past the end of the heap block
    header,     \* the first byte of the archive's next header is intact
    interior,   \* history: kfree was given a pointer into a heap block
    removed

vars == <<at, mem, size, offset, ret, beyond, header, interior, removed>>

WholeBlocks(n) == BLOCK * ((n + BLOCK - 1) \div BLOCK)

\* tarfs::mount_vfs: data follows the header and is padded to whole blocks.
Archived(s) == s \o [i \in 1 .. WholeBlocks(Len(s)) - Len(s) |-> 0]

Init ==
    /\ \/ at = "none" /\ mem = <<>> /\ size = 0
       \/ \E s \in BoundedSeq(Byte, BLOCK) :
            at \in {"archive", "unpacked"} /\ mem = Archived(s) /\ size = Len(s)
    /\ offset = [f \in Fd |-> 0]
    /\ ret = <<"none">>
    /\ beyond = FALSE /\ header = TRUE /\ interior = FALSE /\ removed = FALSE

\* kfree ignores an archive outside the heap.
kfree == interior' = (interior \/ at = "unpacked")

Fail == ret' = <<"error">> /\ UNCHANGED <<at, mem, size, offset, beyond, header, interior>>

\* Mutant: no byte is allocated for the terminator.
Grown_exact(new) == {m \in [1 .. new -> Byte] : \A i \in 1 .. size : m[i] = mem[i]}

\* Mutant: the old bytes are not copied.
Grown_blank(new) == [1 .. new + 1 -> Byte]

\* A larger block: the old bytes, and then whatever the memory held.
Grown(new) == {m \in [1 .. new + 1 -> Byte] : \A i \in 1 .. size : m[i] = mem[i]}

\* The bytes at offset o, then the terminator behind the last byte.
Put(m, o, s, n) ==
    [i \in DOMAIN m |-> IF i = n + 1 THEN 0
                        ELSE IF i \in o + 1 .. o + Len(s) THEN s[i - o] ELSE m[i]]

\* Each of the two allocations may fail.
sys_write(f, s) ==
    LET o == offset[f]
        new == o + Len(s)
        n == Max({size, new})
        grows == new > size
        heap == grows \/ at = "heap"
    IN  /\ new <= MaxSize
        /\ \/ (at = "none" \/ grows) /\ Fail
           \/ /\ \E m \in (IF grows THEN Grown(new) ELSE {mem}) :
                   /\ mem' = Put(m, o, s, n)
                   /\ beyond' = (beyond \/ (heap /\ n + 1 > Len(m)))
                   /\ header' = (header /\ (heap \/ n + 1 <= Len(m)))
              /\ IF grows THEN at' = "heap" /\ kfree ELSE UNCHANGED <<at, interior>>
              /\ size' = n
              /\ offset' = [offset EXCEPT ![f] = new]
              /\ ret' = <<"written", Len(s)>>

sys_read(f, len) ==
    LET n == IF offset[f] >= size THEN 0 ELSE Min({len, size - offset[f]})
    IN  /\ ret' = <<"read", SubSeq(mem, offset[f] + 1, offset[f] + n)>>
        /\ offset' = [offset EXCEPT ![f] = @ + n]
        /\ UNCHANGED <<at, mem, size, beyond, header, interior>>

sys_lseek(f, off, whence) ==
    LET base == CASE whence = "SEEK_SET" -> 0
                  [] whence = "SEEK_CUR" -> offset[f]
                  [] whence = "SEEK_END" -> size
    IN  /\ base + off <= MaxSize
        /\ IF base + off < 0 THEN Fail
           ELSE /\ offset' = [offset EXCEPT ![f] = base + off]
                /\ ret' = <<"at", base + off>>
                /\ UNCHANGED <<at, mem, size, beyond, header, interior>>

\* Also the size in stat and fstat.
sys_fsize == ret' = <<"size", size>> /\ UNCHANGED <<at, mem, size, offset, beyond, header, interior>>

\* With "" for data: one byte is allocated, the terminator.
write_content ==
    /\ at' = "heap" /\ mem' = <<0>> /\ size' = 0
    /\ kfree

\* The result does not say that the truncation failed.
sys_open(f, O_TRUNC) ==
    /\ offset' = [offset EXCEPT ![f] = 0]
    /\ ret' = <<"opened">>
    /\ \/ O_TRUNC /\ write_content
       \/ UNCHANGED <<at, mem, size, interior>>
    /\ UNCHANGED <<beyond, header>>

sys_dup(f, g) ==
    /\ offset' = [offset EXCEPT ![g] = offset[f]]
    /\ ret' = <<"opened">>
    /\ UNCHANGED <<at, mem, size, beyond, header, interior>>

remove ==
    /\ kfree
    /\ removed' = TRUE
    /\ UNCHANGED <<at, mem, size, offset, ret, beyond, header>>

Next ==
    \/ /\ ~ removed /\ UNCHANGED removed
       /\ \/ \E f \in Fd :
               \/ \E s \in BoundedSeq(Byte, MaxLen) \ {<<>>} : sys_write(f, s)
               \/ \E n \in 0 .. MaxLen : sys_read(f, n)
               \/ \E off \in -1 .. 2, w \in {"SEEK_SET", "SEEK_CUR", "SEEK_END"} : sys_lseek(f, off, w)
               \/ \E O_TRUNC \in BOOLEAN : sys_open(f, O_TRUNC)
               \/ \E g \in Fd \ {f} : sys_dup(f, g)
          \/ sys_fsize
    \/ ~ removed /\ remove
    \/ removed /\ UNCHANGED vars

Spec == Init /\ [][Next]_vars
----------------------------------------------------------------------------
\* No write leaves the file's storage and no pointer goes to kfree that is
\* not a block of its own, whatever sizes, seeks and truncations came before.
\* Two exceptions, both of the archive: a file that ends with its block has
\* the next header behind it, which the terminator hits; and a file of an
\* unpacked archive is inside another heap block when it first grows, is
\* truncated or removed.
Contained ==
    /\ ~ beyond
    /\ ~ header /\ at # "heap" => size % BLOCK = 0
    /\ interior => at # "archive"
    /\ at = "heap" => Len(mem) > size /\ mem[size + 1] = 0

content == SubSeq(mem, 1, size)

File == INSTANCE AbstractFile WITH content <- content

\* The calls implement one shared sequence of bytes with an offset for each
\* descriptor: a write through one shows in a read through the other, growth
\* keeps what was there, a failed allocation changes nothing.
RefinesFile == File!Spec
=============================================================================
