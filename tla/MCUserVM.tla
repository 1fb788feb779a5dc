------------------------------ MODULE MCUserVM ------------------------------
(***************************************************************************)
(* Small instances of the memory of processes: the kernel's part and, as a *)
(* behaviour of its own, the allocator of the user library, which knows of *)
(* the kernel only that sbrk() moves the break or fails.                   *)
(***************************************************************************)
EXTENDS UserVM

CONSTANTS NALLOC, Units, Gaps, MaxBrk

VARIABLES hdr, freep, brk, used, got, upc, p, prevp, bp, nunits, turns, part

U == INSTANCE Umalloc WITH pc <- upc
heapvars == <<hdr, freep, brk, used, got, upc, p, prevp, bp, nunits, turns>>

\* A segment with bss, one that starts a page up, and one that ends below it.
MCHeaders == {[vaddr |-> 0, memsz |-> 3, filesz |-> 2], [vaddr |-> 1, memsz |-> 4, filesz |-> 3],
              [vaddr |-> 0, memsz |-> 1, filesz |-> 1]}
MCSbrks == {-3, -1, 1, 3}

MCInit == Init /\ U!Init /\ part \in {"kernel", "library"}

MCNext ==
    \/ part = "kernel" /\ Next /\ UNCHANGED <<heapvars, part>>
    \/ part = "library" /\ U!Next /\ UNCHANGED <<vars, part>>

MCSpec == MCInit /\ [][MCNext]_<<vars, heapvars, part>>

\* The user's heap is in order between two calls (umalloc.c:24-90).
HeapConsistent == U!HeapConsistent
=============================================================================
