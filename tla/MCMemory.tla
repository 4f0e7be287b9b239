------------------------------ MODULE MCMemory ------------------------------
(***************************************************************************)
(* The three layers of memory: frames (PhysMem), the kernel heap (Heap) and *)
(* the address spaces of processes (AddressSpace).  They share no state in  *)
(* the models, so a behaviour runs one of them and leaves the others alone. *)
(*                                                                          *)
(* The machine of PhysMem has eight pages: page 0 is low memory, page 2     *)
(* holds the kernel, pages 6 and 7 lie above the identity map.              *)
(***************************************************************************)
EXTENDS Allocators, AddressSpace

VARIABLE part    \* the layer that runs

Entry(a, l, av) == [addr |-> a, len |-> l, available |-> av]

\* A map with an unaligned low entry and a hole, one whose entries overlap
\* and run past the bitmap, and one with two adjacent entries.
MCMemoryMaps ==
    { << Entry(0, 3, TRUE), Entry(3, 1, FALSE), Entry(4, 12, TRUE) >>,
      << Entry(0, 8, TRUE), Entry(6, 40, TRUE) >>,
      << Entry(0, 12, TRUE), Entry(12, 4, TRUE) >> }

MCInit == part \in {"frames", "heap", "spaces"} /\ Init /\ HeapInit /\ SpaceInit

MCNext ==
    /\ UNCHANGED part
    /\ \/ part = "frames" /\ Next /\ UNCHANGED <<heap_vars, space_vars>>
       \/ part = "heap" /\ HeapNext /\ UNCHANGED <<vars, space_vars>>
       \/ part = "spaces" /\ SpaceNext /\ UNCHANGED <<vars, heap_vars>>

MCSpec == MCInit /\ [][MCNext]_<<vars, heap_vars, space_vars, part>>
=============================================================================
