----------------------------- MODULE Allocators -----------------------------
(***************************************************************************)
(* The two allocators of the kernel: pages (PhysMem) and blocks of the      *)
(* heap (Heap).  They share no variable, and each takes its steps without   *)
(* the other.  Heap counts bytes from HEAP_START: where that lies among the *)
(* pages is not modelled.                                                   *)
(***************************************************************************)
EXTENDS PhysMem, Heap

\* The allocators fail only when they must: pmm::alloc_page when no page of
\* the identity map is free (or when it is page 0 that is), kmalloc when no
\* block on its list is large enough, wherever their cursors stood.
FailsOnlyWhenFull == NullOnlyWhenFull /\ KmallocFailsOnlyWhenFull
=============================================================================
