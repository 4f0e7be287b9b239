---------------------------- MODULE AddressSpace ----------------------------
(***************************************************************************)
(* Address spaces over the pool of physical pages: src/mm/paging.cpp,      *)
(* src/mm/address_space.cpp, elf::load, and the calls that build, copy,    *)
(* grow and tear down a process's memory (exec_current, clone, sys_mmap,   *)
(* remove_and_destroy).                                                    *)
(*                                                                         *)
(* A space is a function from its page-table entries to frames: the two    *)
(* roots, the directories and tables on the way to user pages, and the     *)
(* user pages themselves.  Programs are linked at 1 GB (cfg/user.ld), mmap *)
(* starts in the same gigabyte, the stack ends at 512 GB.  A call runs     *)
(* with interrupts off and is one step; the loops in it work on a record   *)
(* of the memory and of the space at hand.  Frame 0 is null.               *)
(***************************************************************************)
EXTENDS Integers, FiniteSets, Sequences

CONSTANTS
    Procs,              \* processes (a slot may be used again)
    NFRAMES,            \* usable frames are 1 .. NFRAMES
    FRAMES_LIMIT,       \* IDENTITY_MAP_LIMIT as a frame: the first that alloc_page refuses
    IMAGE, STACK,       \* pages of a program and of its stack
    MMAP                \* bound on the pages a process maps

ASSUME SpaceAssumption ==
    /\ {NFRAMES, FRAMES_LIMIT, MMAP} \subseteq Nat
    /\ {IMAGE, STACK} \subseteq Nat \ {0}
    /\ Procs # {}

VARIABLES
    free,       \* frames whose bit in the bitmap is clear
    content,    \* what is in each frame
    space,      \* the page-table entries of each process
    state,      \* "none", "run", or "dead" until it is reaped
    mmap_next,  \* pages handed out by sys_mmap since the last exec
    abandoned,  \* history: frames of the tables of destroyed spaces
    starved     \* history: an allocation has returned null

space_vars == <<free, content, space, state, mmap_next, abandoned, starved>>

Absent == -1
FB == NFRAMES + 1      \* the framebuffer, mapped for users by the kernel
pml4 == <<"pml4", 0>>
pdpt == <<"pdpt", 0>>
fb == <<"fb", 0>>

ImagePages == [i \in 1 .. IMAGE |-> <<"image", i>>]
MmapPages == [i \in 1 .. MMAP |-> <<"mmap", i>>]
StackPages == [i \in 1 .. STACK |-> <<"stack", i>>]
Top == StackPages[STACK]

Elements(seq) == {seq[i] : i \in 1 .. Len(seq)}

\* User pages in the order the four nested loops meet them.
UserPages == ImagePages \o MmapPages \o <<fb>> \o StackPages
VAs == Elements(UserPages)
Tables == {pml4, pdpt} \cup {<<"pd", i>> : i \in {1, 511}} \cup {<<"pt", i>> : i \in 1 .. 3}
Entries == VAs \cup Tables

pd(va) == <<"pd", IF va[1] = "stack" THEN 511 ELSE 1>>
pt(va) == <<"pt", CASE va[1] = "image" -> 1 [] va[1] = "mmap" -> 2 [] OTHER -> 3>>

\* A process slot without a space.
NoSpace == [e \in Entries |-> Absent]

\* The memory a call works on: the pool, the entries of the space at hand,
\* whether the last step succeeded, the page it returned, what clone copies
\* and how often sys_mmap's loop has turned.
Memory == [free |-> free, content |-> content, entry |-> NoSpace, ok |-> TRUE,
           page |-> 0, src |-> NoSpace, turns |-> 0,
           abandoned |-> abandoned, starved |-> starved]
On(p) == [Memory EXCEPT !.entry = space[p]]

\* A loop over pages, from the first to the last.
ForEach(Step(_, _), s, pages) ==
    LET done[n \in 0 .. Len(pages)] ==
          IF n = 0 THEN s ELSE Step(done[n - 1], pages[n])
    IN  done[Len(pages)]

----------------------------------------------------------------------------
Lowest(frames) == CHOOSE f \in frames : \A g \in frames : f <= g

\* Mutant: the page is handed out as it was left.
alloc_page_dirty(s) ==
    LET f == Lowest(s.free)
    IN  IF s.free = {} \/ f >= FRAMES_LIMIT
          THEN [s EXCEPT !.page = 0, !.starved = TRUE]
          ELSE [s EXCEPT !.free = @ \ {f}, !.page = f, !.starved = @ \/ f = 0]

\* paging::alloc_page: the lowest free frame, zeroed; null when there is none
\* inside the identity map, and when the frame is frame 0.
alloc_page(s) ==
    LET f == Lowest(s.free)
    IN  IF s.free = {} \/ f >= FRAMES_LIMIT
          THEN [s EXCEPT !.page = 0, !.starved = TRUE]
          ELSE [s EXCEPT !.free = @ \ {f}, !.page = f, !.starved = @ \/ f = 0,
                         !.content[f] = IF f = 0 THEN @ ELSE "zero"]

\* One level of map_page: the table below this entry, allocated if missing.
\* What was allocated on the way to a failure stays.
Descend(s, table) ==
    IF ~ s.ok \/ s.entry[table] # Absent THEN s
    ELSE LET a == alloc_page(s)
         IN  IF a.page = 0 THEN [a EXCEPT !.ok = FALSE]
                           ELSE [a EXCEPT !.entry[table] = a.page]

map_page(s, va, pa) ==
    LET t == Descend(Descend([s EXCEPT !.ok = TRUE], pd(va)), pt(va))
    IN  IF t.ok THEN [t EXCEPT !.entry[va] = pa] ELSE t

\* AddressSpace::create and create_address_space: two roots, the kernel's
\* own entries copied in.
create(s) ==
    LET a == alloc_page(s)
        b == alloc_page(a)
    IN  IF a.page = 0 THEN [a EXCEPT !.ok = FALSE]
        ELSE IF b.page = 0 THEN [b EXCEPT !.ok = FALSE, !.free = @ \cup {a.page}]
        ELSE [b EXCEPT !.ok = TRUE,
                       !.entry = [NoSpace EXCEPT ![pml4] = a.page, ![pdpt] = b.page,
                                                 ![fb] = FB]]

Mapped(s) == {va \in VAs : s.entry[va] # Absent}

\* AddressSpace::destroy and destroy_user_pages: every user page goes back to
\* the pool, the framebuffer excepted; the tables are never freed.
destroy(s) ==
    [s EXCEPT !.free = @ \cup ({s.entry[va] : va \in Mapped(s)} \ {FB}),
              !.abandoned = @ \cup ({s.entry[t] : t \in Tables} \ {Absent}),
              !.entry = NoSpace]

----------------------------------------------------------------------------
\* One page of elf::load.  The result of map_page is not looked at.
LoadPage(s, va) ==
    IF ~ s.ok THEN s
    ELSE LET a == alloc_page(s)
             m == map_page(a, va, a.page)
         IN  IF a.page = 0 THEN [a EXCEPT !.ok = FALSE]
             ELSE [m EXCEPT !.ok = TRUE, !.content[a.page] = "text"]

load(s) == ForEach(LoadPage, s, ImagePages)

\* One page of create_user_stack: neither the page nor map_page is checked.
\* The top page takes the argument block.
StackPage(s, va) ==
    LET a == alloc_page(s)
        m == map_page(a, va, a.page)
    IN  IF va = Top THEN [m EXCEPT !.content[a.page] = "args"] ELSE m

create_user_stack(s) == ForEach(StackPage, s, StackPages)

\* setup_user_stack writes through the user address: a page fault, and the
\* end of the process, if the top page is not mapped.
Faults(s) == s.entry[Top] = Absent

Commit(p, s) ==
    /\ free' = s.free
    /\ content' = s.content
    /\ space' = [space EXCEPT ![p] = s.entry]
    /\ abandoned' = s.abandoned
    /\ starved' = s.starved

\* kernel_main has spawned /bin/init: there was memory for its space and its
\* program.
SpaceInit ==
    /\ state = [p \in Procs |-> IF p = CHOOSE q \in Procs : TRUE THEN "run" ELSE "none"]
    /\ mmap_next = [p \in Procs |-> 0]
    /\ LET pool == [free |-> 1 .. NFRAMES, content |-> [f \in 0 .. NFRAMES |-> "junk"],
                    entry |-> NoSpace, ok |-> TRUE, page |-> 0,
                    src |-> NoSpace, turns |-> 0,
                    abandoned |-> {}, starved |-> FALSE]
           c == create(pool)
           l == load(c)
           s == create_user_stack(l)
       IN  /\ c.ok /\ l.ok
           /\ free = s.free
           /\ content = s.content
           /\ space = [p \in Procs |-> IF state[p] = "run" THEN s.entry ELSE NoSpace]
           /\ abandoned = s.abandoned
           /\ starved = s.starved

----------------------------------------------------------------------------
Running(p) == state[p] = "run"

\* A user program writes to one of its pages.
store(p, va) ==
    /\ Running(p)
    /\ space[p][va] \notin {Absent, FB}
    /\ content' = [content EXCEPT ![space[p][va]] = p]
    /\ UNCHANGED <<free, space, state, mmap_next, abandoned, starved>>

\* One turn of sys_mmap's loop: s.ok says it goes on.
MmapPage(s, va) ==
    IF ~ s.ok THEN s
    ELSE LET a == alloc_page(s)
             m == map_page(a, va, a.page)
         IN  IF a.page = 0 THEN [a EXCEPT !.ok = FALSE]
             ELSE [m EXCEPT !.ok = TRUE, !.turns = @ + 1]

\* sys_mmap of n pages.  When memory runs out the pages mapped so far stay,
\* and so does the advance of mmap_next.
sys_mmap(p, n) ==
    /\ Running(p)
    /\ mmap_next[p] + n <= MMAP
    /\ LET s == ForEach(MmapPage, On(p),
                        [i \in 1 .. n |-> MmapPages[mmap_next[p] + i]])
       IN  /\ Commit(p, s)
           /\ mmap_next' = [mmap_next EXCEPT ![p] = @ + s.turns]
    /\ UNCHANGED state

\* exec_current builds the new space next to the old one.  It returns to the
\* caller when there is no space, no such program, or no memory to load it.
exec_fails(p, missing) ==
    /\ Running(p)
    /\ LET c == create(Memory)
           s == IF missing THEN [c EXCEPT !.ok = FALSE] ELSE load(c)
           d == [(IF c.ok THEN destroy(s) ELSE c) EXCEPT !.entry = space[p]]
       IN  ~ (c.ok /\ s.ok) /\ Commit(p, d)
    /\ UNCHANGED <<state, mmap_next>>

\* Mutant: the old space is forgotten, not destroyed.
Replace_forgets(p, s) == s

\* The old space of p is destroyed, then the memory is that of the new one.
Replace(p, s) == [destroy([s EXCEPT !.entry = space[p]]) EXCEPT !.entry = s.entry]

\* Where mmap starts again after an exec.
Restart(p) == 0

exec_current(p) ==
    /\ Running(p)
    /\ LET c == create(Memory)
           s == load(c)
           u == create_user_stack(Replace(p, s))
       IN  /\ c.ok /\ s.ok
           /\ Commit(p, u)
           /\ state' = [state EXCEPT ![p] = IF Faults(u) THEN "dead" ELSE @]
    /\ mmap_next' = [mmap_next EXCEPT ![p] = Restart(p)]

----------------------------------------------------------------------------
\* Mutant: the child maps the parent's frame.
ClonePage_shares(s, va) ==
    IF ~ s.ok \/ s.src[va] = Absent \/ s.src[va] = FB THEN s
    ELSE map_page(s, va, s.src[va])

\* One page of clone_user_pages.  The framebuffer's entry is written again
\* in a table that all spaces share.
ClonePage(s, va) ==
    IF ~ s.ok \/ s.src[va] = Absent \/ s.src[va] = FB THEN s
    ELSE LET a == alloc_page(s)
             c == [a EXCEPT !.content[a.page] = a.content[s.src[va]]]
             m == map_page(c, va, a.page)
         IN  IF a.page = 0 THEN [a EXCEPT !.ok = FALSE]
             ELSE IF ~ m.ok THEN [m EXCEPT !.free = @ \cup {a.page}] ELSE m

clone_user_pages(s, p) ==
    ForEach(ClonePage, [s EXCEPT !.src = space[p]], UserPages)

\* sys_fork: clone() undoes what it built when memory runs out, or when the
\* heap has no room for the task or its stack.
clone(p, c, heap) ==
    /\ Running(p) /\ state[c] = "none"
    /\ LET n == create(Memory)
           s == clone_user_pages(n, p)
       IN  \/ /\ ~ n.ok
              /\ Commit(c, n)
              /\ UNCHANGED <<state, mmap_next>>
           \/ /\ n.ok /\ ~ (s.ok /\ heap)
              /\ Commit(c, destroy(s))
              /\ UNCHANGED <<state, mmap_next>>
           \/ /\ n.ok /\ s.ok /\ heap
              /\ Commit(c, s)
              /\ state' = [state EXCEPT ![c] = "run"]
              /\ mmap_next' = [mmap_next EXCEPT ![c] = mmap_next[p]]

\* sched::exit: the space stays until the task is reaped.
exit(p) ==
    /\ Running(p) /\ \E q \in Procs \ {p} : Running(q)
    /\ state' = [state EXCEPT ![p] = "dead"]
    /\ UNCHANGED <<free, content, space, mmap_next, abandoned, starved>>

\* remove_and_destroy, from reap, sys_wait or kill_task_tree, of a task that
\* is not the current one.
remove_and_destroy(p) ==
    /\ state[p] # "none" /\ \E q \in Procs \ {p} : Running(q)
    /\ Commit(p, destroy(On(p)))
    /\ state' = [state EXCEPT ![p] = "none"]
    /\ mmap_next' = [mmap_next EXCEPT ![p] = 0]

SpaceNext ==
    \E p \in Procs :
        \/ \E va \in VAs : store(p, va)
        \/ \E n \in 1 .. 2 : sys_mmap(p, n)
        \/ \E missing \in BOOLEAN : exec_fails(p, missing)
        \/ exec_current(p)
        \/ \E c \in Procs, heap \in BOOLEAN : clone(p, c, heap)
        \/ exit(p)
        \/ remove_and_destroy(p)

SpaceSpec == SpaceInit /\ [][SpaceNext]_space_vars

----------------------------------------------------------------------------
Holders(f) == {pe \in Procs \X Entries : space[pe[1]][pe[2]] = f}

\* A frame is free, or lost with the tables of a dead process, or in exactly
\* one entry of one space: no page belongs to two processes, is both a table
\* and a user page, or is given out while it is mapped.  The framebuffer,
\* mapped in every space, never gets into the pool.
Exclusive ==
    FB \notin free /\ \A f \in 1 .. NFRAMES :
        /\ Cardinality(Holders(f)) <= 1
        /\ f \in free \cup abandoned => Holders(f) = {}
        /\ f \notin free \cap abandoned

\* Until memory first runs out, a process that ends or execs gives back all
\* its pages except page tables.
OnlyTablesLeak ==
    starved \/ \A f \in 1 .. NFRAMES : f \in free \cup abandoned \/ Holders(f) # {}

\* Until memory first runs out, what a running process has mapped is its
\* program, its stack, and exactly the pages mmap gave it since its exec.
Complete ==
    \A p \in Procs : Running(p) /\ ~ starved =>
        Mapped(On(p)) = Elements(ImagePages) \cup Elements(StackPages) \cup {fb}
                          \cup {<<"mmap", i>> : i \in 1 .. mmap_next[p]}

\* fork, exec, mmap, page faults and exit never give a frame to two entries
\* of page tables, nor one that is mapped back to the pool; and a running
\* process has its program, its stack and what mmap gave it, until memory runs
\* out.
SpacesSound == Exclusive /\ Complete

Sees(p) == [va \in Mapped(On(p)) |->
              IF space[p][va] = FB THEN "fb" ELSE content[space[p][va]]]

\* A child starts with its parent's memory, page by page, whatever else was
\* forked, freed and written before.
ForkCopies ==
    [][\A c \in Procs : state[c] = "none" /\ state'[c] = "run" =>
         \E p \in Procs : Running(p) /\ Sees(c)' = Sees(p)]_space_vars

\* A page that mmap adds reads as zeroes, never as what a dead process or an
\* old program left in the frame.
FreshPagesZero ==
    [][\A p \in Procs : \A i \in 1 .. MMAP : LET va == <<"mmap", i>> IN
         Running(p) /\ space[p][va] = Absent /\ space'[p][va] # Absent =>
           content'[space'[p][va]] = "zero"]_space_vars

\* A child of fork starts with its parent's memory, page by page, and a page
\* that mmap adds is zero, whoever had the frames before.
FreshSpaces == ForkCopies /\ FreshPagesZero

\* "callers all check for null now": no page table maps a page that
\* alloc_page failed to provide.
NullNeverMapped ==
    \A p \in Procs : \A va \in VAs : space[p][va] # 0
=============================================================================
