-------------------------------- MODULE IsoFs -------------------------------
(***************************************************************************)
(* Opening and reading files of an ISO 9660 volume (src/fs/isofs.cpp) on a *)
(* drive that may fail to read a block.                                    *)
(*                                                                         *)
(* A directory is read whole into a heap block and its records are         *)
(* compared with the component.  A block that the drive did not deliver    *)
(* leaves memory that was never written, and no record is checked to be a  *)
(* directory before it is walked: both make the lookup see arbitrary       *)
(* records, noted in `astray'.  The record that matched is read again      *)
(* after the block was freed and the handle allocated, as a rule in that   *)
(* very block.                                                             *)
(***************************************************************************)
EXTENDS Integers, Sequences, FiniteSets, FiniteSetsExt

CONSTANTS
    Disc,       \* extent -> directory [records] or file [data]; 0 is the root
    Paths,      \* sequences of components
    PerBlock,   \* records in a block of a directory
    BLOCK,      \* bytes in a block of a file
    none

VARIABLES
    handle,     \* IsoHandle, or none
    path,       \* history: what it was opened with
    got,        \* history: what it has delivered
    astray,     \* history: the lookup saw records that are not on the disc
    ret         \* how the last read ended: "data", "end" or "error"

vars == <<handle, path, got, astray, ret>>

root == 0
IsDir(e) == "records" \in DOMAIN Disc[e]
Record == [name : {"x"}, extent : DOMAIN Disc, size : {1}, dir : BOOLEAN]
BlocksOf(e) == (Len(Disc[e].records) + PerBlock - 1) \div PerBlock

\* sizeof(IsoHandle), sizeof(Block), and the place of a record, where the
\* first two of every directory are itself and its parent.
IsoHandle == 32
HeapBlock == 24
Place(i) == 34 * (i + 1)

\* Taking the freed block again writes the handle at its start and, behind
\* it, the header of what is left of the block.
Overwritten(i) == Place(i) < IsoHandle + HeapBlock

\* The records that may match: the first one with the name, and anything at
\* all when some block of the directory is not what the disc holds.
Matches(e, read, x) ==
    LET real == {i \in 1 .. Min({Len(Disc[e].records), read * PerBlock}) :
                   Disc[e].records[i].name = x}
    IN  IF ~ IsDir(e) THEN [rec : Record, at : {9}, astray : {TRUE}]
        ELSE IF real # {}
          THEN {[rec |-> Disc[e].records[Min(real)], at |-> Min(real), astray |-> FALSE]}
        ELSE IF read < BlocksOf(e) THEN [rec : Record, at : {9}, astray : {TRUE}]
        ELSE {}

\* The walk down the path, with every number of blocks the drive may deliver.
RECURSIVE Walk(_, _, _)
Walk(e, ps, off) ==
    UNION {UNION {IF Len(ps) = 1 THEN {[m EXCEPT !.astray = @ \/ off]}
                  ELSE Walk(m.rec.extent, Tail(ps), off \/ m.astray)
                  : m \in Matches(e, n, Head(ps))}
           : n \in 0 .. (IF IsDir(e) THEN BlocksOf(e) ELSE 1)}

Handle(r) == [extent |-> r.extent, size |-> r.size, offset |-> 0, dir |-> r.dir]

Init ==
    /\ handle = none /\ path = <<>> /\ got = <<>>
    /\ astray = FALSE /\ ret = "data"

\* The root has no record; its handle is made from the volume.
open_root ==
    /\ handle = none
    /\ handle' = [extent |-> root, size |-> Len(Disc[root].records), offset |-> 0, dir |-> TRUE]
    /\ path' = <<>>
    /\ UNCHANGED <<got, astray, ret>>

\* An open that fails leaves nothing behind.
isofs_open(ps) ==
    /\ handle = none
    /\ \E m \in Walk(root, ps, FALSE) :
         /\ \E r \in (IF Overwritten(m.at) THEN Record ELSE {m.rec}) : handle' = Handle(r)
         /\ astray' = m.astray
    /\ path' = ps
    /\ UNCHANGED <<got, ret>>

\* Mutant: the offset moves although the block was not read.
isofs_read_skips(size, good) ==
    LET h == handle
        todo == Min({size, h.size - h.offset})
        n == Min({todo, good * BLOCK - (h.offset % BLOCK)})
    IN  /\ h # none /\ ~ h.dir /\ h.extent \in DOMAIN Disc /\ ~ IsDir(h.extent) /\ ~ astray
        /\ h.offset < h.size
        /\ got' = got \o SubSeq(Disc[h.extent].data, h.offset + 1, h.offset + Max({n, 0}))
        /\ handle' = [h EXCEPT !.offset = @ + todo]
        /\ ret' = "data"
        /\ UNCHANGED <<path, astray>>

\* Block by block, until the drive fails after `good' of them.
isofs_read(size, good) ==
    LET h == handle
        todo == Min({size, h.size - h.offset})
        n == Max({0, Min({todo, good * BLOCK - (h.offset % BLOCK)})})
    IN  /\ h # none /\ ~ h.dir /\ ~ astray
        /\ IF h.offset >= h.size THEN ret' = "end" /\ UNCHANGED <<handle, got>>
           ELSE /\ got' = got \o SubSeq(Disc[h.extent].data, h.offset + 1, h.offset + n)
                /\ handle' = [h EXCEPT !.offset = @ + n]
                /\ ret' = IF n = todo THEN "data" ELSE "error"
        /\ UNCHANGED <<path, astray>>

isofs_close ==
    /\ handle # none
    /\ handle' = none /\ path' = <<>> /\ got' = <<>> /\ astray' = FALSE /\ ret' = "data"

Next ==
    \/ open_root
    \/ \E ps \in Paths : isofs_open(ps)
    \/ \E size \in 1 .. 3, good \in 0 .. 2 : isofs_read(size, good)
    \/ isofs_close

Spec == Init /\ [][Next]_vars
----------------------------------------------------------------------------
\* What a path names on the disc.
RECURSIVE Named(_, _)
Named(e, ps) ==
    {r \in {Disc[e].records[i] : i \in DOMAIN Disc[e].records} :
       r.name = Head(ps) /\ Len(ps) = 1}
    \cup UNION {Named(r.extent, Tail(ps)) :
                  r \in {q \in {Disc[e].records[i] : i \in DOMAIN Disc[e].records} :
                           Len(ps) > 1 /\ q.name = Head(ps) /\ q.dir}}

\* An open handle describes the file that the path names, although its record
\* is read from freed memory; except when the walk went through a file or a
\* block of a directory that could not be read.
HandleIsTheFile ==
    handle # none /\ path # <<>> /\ ~ astray =>
      \E r \in Named(root, path) :
        r.extent = handle.extent /\ r.size = handle.size /\ r.dir = handle.dir

\* What the reads return is the file from its start without a gap, however
\* they are cut and wherever the drive fails and is tried again, and a read
\* that says end of file has the whole file before it.
ReadsTheFile ==
    handle # none /\ path # <<>> /\ ~ astray /\ ~ handle.dir =>
      /\ got = SubSeq(Disc[handle.extent].data, 1, handle.offset)
      /\ ret = "end" => Len(got) = handle.size
=============================================================================
