-------------------------------- MODULE Fat32 -------------------------------
(***************************************************************************)
(* The FAT32 file system, src/fs/fat32.cpp: the allocation table and its   *)
(* copy, cluster chains, file handles, and the caches of one sector and    *)
(* one cluster in front of a block device.  A volume that is resident in   *)
(* memory is accessed in place.                                            *)
(*                                                                         *)
(* A cluster is W words.  A directory entry is two words of the root       *)
(* directory's cluster, the first cluster and the size; a word of a file   *)
(* is a number.  Each copy of the table fits in a sector, numbered 1 or 2. *)
(* Calls run with interrupts off and are one step.                         *)
(***************************************************************************)
EXTENDS Integers, Sequences, SequencesExt, FiniteSets

CONSTANTS
    Resident,  \* kinds of volume: TRUE is memory resident (disk_image is set)
    Files,     \* entries of the root directory, numbered from 0
    LAST,      \* last cluster alloc_cluster looks at
    Handles,   \* Fat32FileHandle objects
    Sizes,     \* sizes passed to read and write
    MaxWords   \* bound on the words written

ASSUME VolumeAssumption ==
    /\ Resident \subseteq BOOLEAN /\ Files \subseteq Nat /\ LAST \in Nat
    /\ Sizes \subseteq Nat \ {0} /\ MaxWords \in Nat

VARIABLES
    vol,       \* the device and the caches
    handle,    \* open files
    stamp,     \* words written so far; a word's value is its number + 100
    file,      \* history: what each file should hold
    result,    \* history: what the last read returned, and should have
    shared,    \* history: a file was open twice
    stuck      \* history: a handle was used in a cluster it should have left

vars == <<vol, handle, stamp, file, result, shared, stuck>>

W == 2 * Cardinality(Files)   \* bytes_per_cluster, in words
ROOT == 2                     \* root_cluster
EOC == -1                     \* any value >= 0x0FFFFFF8
Clusters == ROOT .. LAST
Closed == [open |-> FALSE]
SmallerOf(a, b) == IF a < b THEN a ELSE b

----------------------------------------------------------------------------
\* Mutant: nothing is flushed.
cached_sector_ptr_drops(v, s) ==
    [v EXCEPT !.cached_sector = s, !.sector_dirty = FALSE,
              !.sector_buf = IF s = v.cached_sector THEN @ ELSE v.fat[s]]

\* The sector cache, which only ever holds a sector of one of the two FATs.
cached_sector_ptr(v, s) ==
    IF s = v.cached_sector THEN [v EXCEPT !.sector_dirty = FALSE]
    ELSE LET d == IF v.sector_dirty
                    THEN [v EXCEPT !.fat[v.cached_sector] = v.sector_buf] ELSE v
         IN  [d EXCEPT !.cached_sector = s, !.sector_dirty = FALSE, !.sector_buf = d.fat[s]]

read_fat(v, c) ==
    IF v.ram THEN [v EXCEPT !.val = v.fat[1][c]]
    ELSE LET d == cached_sector_ptr(v, 1) IN [d EXCEPT !.val = d.sector_buf[c]]

\* write_fat's turn for one copy.  Only the first is written through.
WriteCopy(v, s, c, value) ==
    IF v.ram THEN [v EXCEPT !.fat[s][c] = value]
    ELSE LET d == [cached_sector_ptr(v, s) EXCEPT !.sector_buf[c] = value,
                                                  !.sector_dirty = TRUE]
         IN  IF s = 1 THEN [d EXCEPT !.fat[1] = d.sector_buf] ELSE d

write_fat(v, c, value) == WriteCopy(WriteCopy(v, 1, c, value), 2, c, value)

\* The cluster cache: what was mutated is written back on eviction.
cached_cluster_ptr(v, c) ==
    IF c = v.cached_cluster THEN [v EXCEPT !.cluster_dirty = FALSE]
    ELSE LET d == IF v.cluster_dirty
                    THEN [v EXCEPT !.data[v.cached_cluster] = v.cluster_buf] ELSE v
         IN  [d EXCEPT !.cached_cluster = c, !.cluster_dirty = FALSE, !.cluster_buf = d.data[c]]

get_cluster_ptr(v, c) ==
    IF v.ram THEN [v EXCEPT !.cached_cluster = c] ELSE cached_cluster_ptr(v, c)

\* Reads and writes through the pointer that get_cluster_ptr returned.
Cluster(v) == IF v.ram THEN v.data[v.cached_cluster] ELSE v.cluster_buf
Poke(v, words) ==
    IF v.ram THEN [v EXCEPT !.data[v.cached_cluster] = words @@ @]
           ELSE [v EXCEPT !.cluster_buf = words @@ @]

\* A write through DirectoryEntry *: into the root directory of a resident
\* volume, otherwise into the buffer, whatever cluster is in it now.
PokeEntry(v, k, value) ==
    IF v.ram THEN [v EXCEPT !.data[ROOT][k] = value] ELSE [v EXCEPT !.cluster_buf[k] = value]

\* Mutant: the cluster is not marked in the table.
alloc_cluster_unmarked(v) ==
    LET avail == {c \in Clusters : read_fat(v, c).val = 0}
        c == CHOOSE x \in avail : \A y \in avail : x <= y
        d == get_cluster_ptr(read_fat(v, c), c)
    IN  IF avail = {} THEN [read_fat(v, LAST) EXCEPT !.val = 0]
        ELSE [Poke(d, [k \in 0 .. W - 1 |-> 0]) EXCEPT !.val = c]

\* alloc_cluster returns (in val) the first cluster that is free, or 0.  It
\* is zeroed in the buffer, which is not marked dirty.
alloc_cluster(v) ==
    LET avail == {c \in Clusters : read_fat(v, c).val = 0}
        c == CHOOSE x \in avail : \A y \in avail : x <= y
        d == get_cluster_ptr(write_fat(read_fat(v, c), c, EOC), c)
    IN  IF avail = {} THEN [read_fat(v, LAST) EXCEPT !.val = 0]
        ELSE [Poke(d, [k \in 0 .. W - 1 |-> 0]) EXCEPT !.val = c]

----------------------------------------------------------------------------
\* mount_backend or mount_ramdisk of a volume on which some files have a
\* cluster with one word, the others are empty.
Init ==
    \E full \in SUBSET Files, ram \in Resident :
      /\ LET owned == {3 + f : f \in full}
             table == [c \in Clusters |-> IF c \in owned \cup {ROOT} THEN EOC ELSE 0]
             blank == [k \in 0 .. W - 1 |-> 0]
             root == [k \in 0 .. W - 1 |-> IF k \div 2 \notin full THEN 0
                                           ELSE IF k % 2 = 0 THEN 3 + k \div 2 ELSE 1]
         IN  vol = [ram |-> ram, fat |-> <<table, table>>,
                    data |-> [c \in Clusters |-> IF c = ROOT THEN root
                                ELSE IF c \in owned THEN [blank EXCEPT ![0] = 100] ELSE blank],
                    cached_sector |-> 0, sector_dirty |-> FALSE, sector_buf |-> table,
                    cached_cluster |-> 0, cluster_dirty |-> FALSE, cluster_buf |-> blank,
                    val |-> 0]
      /\ handle = [h \in Handles |-> Closed]
      /\ stamp = 0
      /\ file = [f \in Files |-> IF f \in full THEN <<100>> ELSE << >>]
      /\ result = [got |-> << >>, want |-> << >>]
      /\ shared = FALSE /\ stuck = FALSE

\* fat32_open: find_path reads the root directory and leaves a pointer to
\* the entry in the handle.
fat32_open(h, f) ==
    LET v == get_cluster_ptr(vol, ROOT)
    IN  /\ ~ handle[h].open
        /\ vol' = v
        /\ handle' = [handle EXCEPT ![h] =
             [open |-> TRUE, f |-> f, first |-> Cluster(v)[2 * f], curr |-> Cluster(v)[2 * f],
              size |-> Cluster(v)[2 * f + 1], offset |-> 0]]
        /\ shared' = (shared \/ \E g \in Handles : handle[g].open /\ handle[g].f = f)
        /\ UNCHANGED <<stamp, file, result, stuck>>

fat32_close(h) ==
    /\ handle[h].open
    /\ handle' = [handle EXCEPT ![h] = Closed]
    /\ UNCHANGED <<vol, stamp, file, result, shared, stuck>>

\* The offset has come to the end of a cluster.
AtEnd(h) == h.offset % W = 0

\* The part of a transfer that lies in the cluster at hand.
Chunk(o, left) == SmallerOf(W - o, left)

\* The clusters of a chain, in the table as read_fat returns it.
Table == IF ~ vol.ram /\ vol.cached_sector = 1 THEN vol.sector_buf ELSE vol.fat[1]

Chain[c \in Clusters \cup {0, EOC}, n \in Nat] ==
    IF c \notin Clusters \/ n = 0 THEN << >> ELSE <<c>> \o Chain[Table[c], n - 1]

\* The handle has come to the end of a cluster without moving to the next.
Behind(h) ==
    LET chain == Chain[h.first, LAST]
    IN  /\ h.offset > 0 /\ AtEnd(h)
        /\ h.offset \div W <= Len(chain) /\ chain[h.offset \div W] = h.curr

\* One turn of fat32_read's loop over s, the state of the call: at most to
\* the end of the current cluster.
ReadChunk(s, turn) ==
    IF s.done \/ Len(s.out) = s.n THEN s
    ELSE LET o == s.h.offset % W
             chunk == Chunk(o, s.n - Len(s.out))
             v == get_cluster_ptr(s.v, s.h.curr)
             h == [s.h EXCEPT !.offset = @ + chunk]
             r == read_fat(v, h.curr)
             out == s.out \o [k \in 1 .. chunk |-> Cluster(v)[o + k - 1]]
         IN  IF ~ AtEnd(h) THEN [s EXCEPT !.v = v, !.h = h, !.out = out]
             ELSE IF r.val = EOC THEN [s EXCEPT !.v = r, !.h = h, !.out = out, !.done = TRUE]
             ELSE [s EXCEPT !.v = r, !.h = [h EXCEPT !.curr = r.val], !.out = out]

fat32_read(hd, size) ==
    LET h == handle[hd]
        n == SmallerOf(size, h.size - h.offset)
        s == FoldLeft(ReadChunk, [v |-> vol, h |-> h, n |-> n, out |-> << >>, done |-> FALSE],
                      [k \in 1 .. n |-> k])
    IN  /\ h.open /\ h.offset < h.size
        /\ h.curr \in Clusters
        /\ vol' = s.v
        /\ handle' = [handle EXCEPT ![hd] = s.h]
        /\ result' = [got |-> s.out, want |-> SubSeq(file[h.f], h.offset + 1,
                                                     SmallerOf(h.offset + size, Len(file[h.f])))]
        /\ stuck' = (stuck \/ Behind(h))
        /\ UNCHANGED <<stamp, file, shared>>

----------------------------------------------------------------------------
\* The first write to an empty file gives it a cluster and notes that in the
\* directory entry.
FirstCluster(s) ==
    IF s.h.first # 0 THEN s
    ELSE LET v == alloc_cluster(s.v)
         IN  IF v.val = 0 THEN [s EXCEPT !.v = v, !.done = TRUE]
             ELSE [s EXCEPT !.v = PokeEntry(v, 2 * s.h.f, v.val),
                            !.h.first = v.val, !.h.curr = v.val]

\* The size is kept in the handle and in the directory entry.
Grow(s) ==
    IF s.h.offset <= s.h.size THEN s
    ELSE [s EXCEPT !.h.size = s.h.offset, !.v = PokeEntry(s.v, 2 * s.h.f + 1, s.h.offset)]

\* Mutant: the new cluster is not linked to the chain.
Advance_unlinked(s) ==
    LET r == read_fat(s.v, s.h.curr)
        a == alloc_cluster(r)
    IN  IF r.val # EOC THEN [s EXCEPT !.v = r, !.h.curr = r.val]
        ELSE IF a.val = 0 THEN [s EXCEPT !.v = a, !.done = TRUE]
        ELSE [s EXCEPT !.v = a, !.h.curr = a.val]

\* To the next cluster of the chain, which is extended if need be.
Advance(s) ==
    LET r == read_fat(s.v, s.h.curr)
        a == alloc_cluster(r)
    IN  IF r.val # EOC THEN [s EXCEPT !.v = r, !.h.curr = r.val]
        ELSE IF a.val = 0 THEN [s EXCEPT !.v = a, !.done = TRUE]
        ELSE [s EXCEPT !.v = write_fat(a, s.h.curr, a.val), !.h.curr = a.val]

\* One turn of fat32_write's loop.
WriteChunk(s, turn) ==
    IF s.done \/ s.written = s.n THEN s
    ELSE LET o == s.h.offset % W
             chunk == Chunk(o, s.n - s.written)
             v == [Poke(get_cluster_ptr(s.v, s.h.curr),
                        [k \in o .. o + chunk - 1 |-> 101 + stamp + s.written + (k - o)])
                     EXCEPT !.cluster_dirty = TRUE]
             t == Grow([s EXCEPT !.v = v, !.written = @ + chunk, !.h.offset = @ + chunk])
         IN  IF AtEnd(t.h) /\ t.written < t.n THEN Advance(t) ELSE t

\* The words of a file after a write of n words at an offset.
Overwrite(words, offset, n) ==
    [k \in 1 .. (IF offset + n > Len(words) THEN offset + n ELSE Len(words)) |->
       IF offset < k /\ k <= offset + n THEN 100 + stamp + (k - offset) ELSE words[k]]

fat32_write(hd, n) ==
    LET h == handle[hd]
        s == FoldLeft(WriteChunk, FirstCluster([v |-> vol, h |-> h, n |-> n, written |-> 0,
                                                done |-> FALSE]), [k \in 1 .. n |-> k])
    IN  /\ h.open
        /\ h.curr \in Clusters \cup {0}
        /\ stamp + n <= MaxWords
        /\ vol' = s.v
        /\ handle' = [handle EXCEPT ![hd] = s.h]
        /\ stamp' = stamp + n
        /\ file' = [file EXCEPT ![h.f] = Overwrite(@, h.offset, s.written)]
        /\ stuck' = (stuck \/ Behind(h))
        /\ UNCHANGED <<result, shared>>

Next ==
    \E h \in Handles :
        \/ \E f \in Files : fat32_open(h, f)
        \/ fat32_close(h)
        \/ \E n \in Sizes : fat32_read(h, n) \/ fat32_write(h, n)

Spec == Init /\ [][Next]_vars

----------------------------------------------------------------------------
Open == {h \in Handles : handle[h].open}

\* No cluster is in two chains or twice in one, and none that is in use is
\* marked free, whatever files were extended in turn and however the sector
\* cache changed between the copies of the table.
NoCrossLinks ==
    LET chain(h) == Chain[handle[h].first, LAST + 1]
    IN  \A g, h \in Open :
          /\ IsInjective(chain(h))
          /\ handle[h].curr \in Clusters => Table[handle[h].curr] # 0
          /\ handle[g].first # handle[h].first => Range(chain(g)) \cap Range(chain(h)) = {}

\* The table and its copy agree, the sector in the cache counted in.  A power
\* failure between two calls finds the table on the device up to date, and
\* its copy too unless the cache is about to flush what is missing from it.
CopiesAgree ==
    LET copy(s) == IF ~ vol.ram /\ vol.cached_sector = s THEN vol.sector_buf ELSE vol.fat[s]
    IN  /\ copy(1) = copy(2)
        /\ vol.fat[1] = Table
        /\ vol.fat[2] # vol.fat[1] => vol.cached_sector = 2 /\ vol.sector_dirty

\* On a memory-resident volume a read returns what was written, while no file
\* is open twice and no handle is used again after a write that ended with a
\* cluster (it would start again at the beginning of the cluster it has
\* filled); and the directory has the size that the file's handle has, through
\* every cluster that fat32_write adds.
ReadBack ==
    ~ vol.ram \/ shared \/
      /\ stuck \/ result.got = result.want
      /\ \A h \in Open : vol.data[ROOT][2 * handle[h].f + 1] = handle[h].size

\* "`cluster_dirty` / `sector_dirty` track whether the cached contents have
\* been mutated in memory and need flushing before being evicted".
DirtyTracksMutation ==
    ~ vol.ram /\ vol.cached_cluster \in Clusters =>
        vol.cluster_dirty \/ vol.cluster_buf = vol.data[vol.cached_cluster]
=============================================================================
