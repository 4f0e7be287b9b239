------------------------------ MODULE PhysMem ------------------------------
(***************************************************************************)
(* The physical page allocator (src/mm/pmm.cpp) and the window that paging *)
(* puts in front of it (paging::alloc_page, reserve_below and init in      *)
(* src/mm/paging.cpp), from the multiboot scan to the running kernel.      *)
(*                                                                         *)
(* Addresses are counted in units of which PAGE_SIZE make a page, so that  *)
(* the rounding of regions is the code's.  The bitmap is the set `used' of *)
(* pages whose bit is set.                                                 *)
(***************************************************************************)
EXTENDS Integers, FiniteSets, Sequences

CONSTANTS
    PAGE_SIZE,           \* address units in a page
    TOTAL_PAGES,         \* bits in the bitmap
    IDENTITY_MAP_LIMIT,  \* first address outside the identity map
    LOW_MEMORY,          \* the first megabyte, reserved by pmm::init
    KernelStart, KernelEnd,  \* _kernel_start and _kernel_end
    ModuleEnds,          \* ends of the boot modules parse_info may meet
    MemoryMaps           \* multiboot memory maps: sequences of entries

MapEntries == [addr : Nat, len : Nat, available : BOOLEAN]

ASSUME SizesAssumption ==
    /\ PAGE_SIZE \in Nat \ {0}
    /\ TOTAL_PAGES \in Nat \ {0}
    /\ IDENTITY_MAP_LIMIT \in Nat
    /\ LOW_MEMORY \in Nat \ {0}
    /\ KernelStart \in Nat /\ KernelEnd \in Nat /\ KernelStart <= KernelEnd
    /\ ModuleEnds \subseteq Nat
    /\ MemoryMaps \subseteq Seq(MapEntries)

VARIABLES
    boot,              \* which initialiser runs next, or "up"
    used,              \* bitmap: pages whose bit is set
    last_page,         \* rolling allocation cursor
    free_pages_count,  \* counter behind free_memory()
    total_pages,       \* counter behind total_memory()
    reserved_end,      \* paging's record of reserve_below()
    ret,               \* page the last call returned (0 is null, -1 no value)
    held,              \* pages callers own: returned and not yet freed
    null_leaf          \* frame 0 is mapped because a null was not checked

vars == <<boot, used, last_page, free_pages_count, total_pages,
          reserved_end, ret, held, null_leaf>>

Pages == 0 .. TOTAL_PAGES - 1

(***************************************************************************)
(* Page ranges.  reserve_region rounds its end up, free_region down; bits  *)
(* beyond the bitmap are skipped by both.                                  *)
(***************************************************************************)
ReservedPages(addr, length) ==
    {p \in Pages : /\ addr \div PAGE_SIZE <= p
                   /\ p < (addr + length + PAGE_SIZE - 1) \div PAGE_SIZE}

FreedPages(addr, length) ==
    {p \in Pages : /\ addr \div PAGE_SIZE <= p
                   /\ p < (addr + length) \div PAGE_SIZE}

RoundUp(addr) == ((addr + PAGE_SIZE - 1) \div PAGE_SIZE) * PAGE_SIZE

EntryPages(e) == IF e.len \div PAGE_SIZE > TOTAL_PAGES
                   THEN TOTAL_PAGES ELSE e.len \div PAGE_SIZE

AvailablePages(map) ==
    UNION {FreedPages(map[i].addr, EntryPages(map[i]) * PAGE_SIZE) :
             i \in {k \in DOMAIN map : map[k].available}}

\* The sum of EntryPages over the available entries.
TotalPages(map) ==
    Cardinality({ip \in (DOMAIN map) \X (1 .. TOTAL_PAGES) :
                   map[ip[1]].available /\ ip[2] <= EntryPages(map[ip[1]])})

\* What the parts of init and reserve_below must keep out of circulation.
LowAndKernel ==
    ReservedPages(0, LOW_MEMORY) \cup
    ReservedPages(KernelStart, KernelEnd - KernelStart)

ModulePages == IF reserved_end # 0 THEN ReservedPages(0, RoundUp(reserved_end))
                                   ELSE {}

Protected == LowAndKernel \cup ModulePages

----------------------------------------------------------------------------
Init ==
    /\ boot = "parse_info"
    /\ used = {}                 \* static bitmap, zeroed by the loader
    /\ last_page = 0
    /\ free_pages_count = 0
    /\ total_pages = 0
    /\ reserved_end = 0
    /\ ret = -1
    /\ held = {}
    /\ null_leaf = FALSE

\* Mutant: the counter drops for pages that were reserved already.
reserve_region_recounts(R) ==
    /\ used' = used \cup R
    /\ free_pages_count' = free_pages_count - Cardinality(R)

\* Clearing bits one by one counts each page that was free (the counter is
\* 64 bits wide and wraps below zero before pmm::init resets it; it is kept
\* here as an integer).
reserve_region(R) ==
    /\ used' = used \cup R
    /\ free_pages_count' = free_pages_count - Cardinality(R \ used)

\* Called by parse_info for each boot module.
reserve_below(addr) ==
    /\ boot = "parse_info"
    /\ addr > reserved_end
    /\ reserve_region(ReservedPages(0, RoundUp(addr)))
    /\ reserved_end' = addr
    /\ UNCHANGED <<boot, last_page, total_pages, ret, held, null_leaf>>

\* pmm::init: everything used, available regions freed, then the first
\* megabyte and the kernel image reserved again.
pmm_init(map) ==
    /\ boot = "parse_info"
    /\ boot' = "paging_init"
    /\ used' = (Pages \ AvailablePages(map)) \cup LowAndKernel
    /\ free_pages_count' =
         Cardinality(AvailablePages(map))
           - Cardinality(LowAndKernel \cap AvailablePages(map))
    /\ total_pages' = TotalPages(map)
    /\ last_page' = 0
    /\ UNCHANGED <<reserved_end, ret, held, null_leaf>>

\* Mutant: no safety net, the reservation made before pmm::init is lost.
paging_init_no_net ==
    /\ boot = "paging_init"
    /\ boot' = "up"
    /\ held' = {}
    /\ UNCHANGED <<used, free_pages_count, last_page, total_pages,
                   reserved_end, ret, null_leaf>>

\* paging::init clears kernel_pml4 (and with it every page the early
\* framebuffer mapping took) and applies reserve_below's record again.
paging_init ==
    /\ boot = "paging_init"
    /\ boot' = "up"
    /\ reserve_region(ModulePages)
    /\ held' = {}
    /\ UNCHANGED <<last_page, total_pages, reserved_end, ret, null_leaf>>

----------------------------------------------------------------------------
\* alloc_page looks at the pages from the cursor to the end, then at those
\* from 0 to the cursor; ScanPos is a page's place in that order.
ScanPos(p) == IF p >= last_page THEN p - last_page
                                ELSE (TOTAL_PAGES - last_page) + p

\* The page pmm::alloc_page stops at, and the case where there is none.
alloc_page_finds(i) ==
    /\ i \notin used
    /\ \A j \in Pages : ScanPos(j) < ScanPos(i) => j \in used

alloc_page_fails == Pages \subseteq used

\* Page 0 is address 0: its bit is set but every caller sees a null.
Own(i) == held' = IF i = 0 THEN held ELSE held \cup {i}

\* pmm::alloc_page as vmm::alloc calls it.
pmm_alloc_page ==
    /\ boot = "up"
    /\ \/ \E i \in Pages :
            /\ alloc_page_finds(i)
            /\ used' = used \cup {i}
            /\ free_pages_count' = free_pages_count - 1
            /\ last_page' = i + 1
            /\ ret' = i
            /\ Own(i)
       \/ /\ alloc_page_fails
          /\ ret' = 0
          /\ UNCHANGED <<used, free_pages_count, last_page, held>>
    /\ UNCHANGED <<boot, total_pages, reserved_end, null_leaf>>

\* paging::alloc_page: a page outside the identity map is given back at once
\* (free_page also rewinds the cursor onto it) and the call fails.  It runs
\* in the multiboot scan too, for the framebuffer tag.
paging_alloc_page ==
    /\ boot \in {"parse_info", "up"}
    /\ \/ \E i \in Pages :
            /\ alloc_page_finds(i)
            /\ i * PAGE_SIZE < IDENTITY_MAP_LIMIT
            /\ used' = used \cup {i}
            /\ free_pages_count' = free_pages_count - 1
            /\ last_page' = i + 1
            /\ ret' = i
            /\ Own(i)
       \/ \E i \in Pages :
            /\ alloc_page_finds(i)
            /\ i * PAGE_SIZE >= IDENTITY_MAP_LIMIT
            /\ last_page' = i
            /\ ret' = 0
            /\ UNCHANGED <<used, free_pages_count, held>>
       \/ /\ alloc_page_fails
          /\ ret' = 0
          /\ UNCHANGED <<used, free_pages_count, last_page, held>>
    \* create_user_stack maps whatever it was given, null included.
    /\ null_leaf' \in {null_leaf, null_leaf \/ (boot = "up" /\ ret' = 0)}
    /\ UNCHANGED <<boot, total_pages, reserved_end>>

\* pmm::free_page.  Callers pass pages they own, or frame 0 when
\* destroy_user_pages meets a leaf that create_user_stack made from a null.
free_page(p) ==
    /\ boot = "up"
    /\ p \in held \/ (p = 0 /\ null_leaf)
    /\ IF p \in used
         THEN /\ used' = used \ {p}
              /\ free_pages_count' = free_pages_count + 1
              /\ last_page' = IF p < last_page THEN p ELSE last_page
         ELSE UNCHANGED <<used, free_pages_count, last_page>>
    /\ held' = held \ {p}
    /\ null_leaf' = (null_leaf /\ p # 0)
    /\ ret' = -1
    /\ UNCHANGED <<boot, total_pages, reserved_end>>

Next ==
    \/ \E addr \in ModuleEnds : reserve_below(addr)
    \/ \E map \in MemoryMaps : pmm_init(map)
    \/ paging_init
    \/ pmm_alloc_page
    \/ paging_alloc_page
    \/ \E p \in Pages : free_page(p)

Spec == Init /\ [][Next]_vars

----------------------------------------------------------------------------
TypeOK ==
    /\ boot \in {"parse_info", "paging_init", "up"}
    /\ used \subseteq Pages
    /\ last_page \in 0 .. TOTAL_PAGES
    /\ free_pages_count \in Int
    /\ total_pages \in Nat
    /\ reserved_end \in Nat
    /\ ret \in Pages \cup {-1}
    /\ held \subseteq Pages \ {0}
    /\ null_leaf \in BOOLEAN

\* Every page behind the cursor is in use.  This is what free_page's rewind
\* is for: it makes the scan lowest-first and the wrap-around loop of
\* alloc_page a loop that never finds anything.
CursorInv == \A p \in Pages : p < last_page => p \in used

\* Once pmm::init has run, the counter behind free_memory() (sysinfo,
\* /proc/meminfo) is the number of clear bits, through every reservation,
\* failed window check and null free.
FreeCountExact ==
    boot # "parse_info" =>
        free_pages_count = Cardinality(Pages \ used)

\* No page of low memory, of the kernel image or below a boot module's end
\* is ever in a caller's hands, although reserve_below runs before pmm::init
\* and is undone by it; and no page a caller holds is marked free (it could
\* be handed out twice).
ReservedNeverHandedOut ==
    boot = "up" => /\ held \cap Protected = {}
                   /\ held \subseteq used

\* paging::alloc_page and pmm::alloc_page return null only when no page
\* inside the identity map is free, or when page 0 itself was free (its
\* address cannot be told from a null).
NullOnlyWhenFull ==
    [][boot = "up" /\ ret' = 0 /\ ret # 0 =>
          \/ 0 \notin used
          \/ \A q \in Pages : q * PAGE_SIZE < IDENTITY_MAP_LIMIT => q \in used]_vars
=============================================================================
