------------------------------ MODULE Umalloc ------------------------------
(***************************************************************************)
(* malloc() and free() of the user library (user/umalloc.c).  Memory is    *)
(* counted in headers; base, a static variable, lies below the heap.  hdr  *)
(* holds the headers that are in use: base, the free blocks and the blocks *)
(* that were given out.  A turn of a loop is a step.  The program may call *)
(* sbrk() itself, so that what morecore() gets need not be contiguous, and *)
(* sbrk() may fail at any time.  nu * sizeof(Header) is passed to sbrk()   *)
(* as an int: requests stay below 2^31 bytes.                              *)
(***************************************************************************)
EXTENDS Integers, FiniteSets

CONSTANTS NALLOC,       \* the least number of headers morecore() asks for
          Units,        \* the sizes asked for, with their header
          Gaps,         \* by how much the program moves the break itself
          MaxBrk        \* bound: the break

Null == -1
base == 0

VARIABLES hdr,          \* s.ptr and s.size of the headers
          freep,
          brk,
          used,         \* the blocks given out, and the size asked for
          got,          \* what morecore() has got from sbrk()
          pc, p, prevp, bp, nunits,
          turns         \* of the search that is on

vars == <<hdr, freep, brk, used, got, pc, p, prevp, bp, nunits, turns>>
locals == <<pc, p, prevp, bp, nunits, turns>>

Free == DOMAIN hdr \ DOMAIN used
ptr(a) == hdr[a].ptr
size(a) == hdr[a].size
Header(next, n) == [ptr |-> next, size |-> n]

Only(f, S) == [a \in S |-> f[a]]
With(f, a, v) == [x \in DOMAIN f \cup {a} |-> IF x = a THEN v ELSE f[x]]

Init ==
    /\ hdr = With([a \in {} |-> 0], base, Header(Null, 0)) /\ freep = Null
    /\ brk = 2 /\ used = [a \in {} |-> 0] /\ got = {}
    /\ pc = "idle" /\ p = Null /\ prevp = Null /\ bp = Null /\ nunits = 0 /\ turns = 0

\* The call is over; its locals are gone.
Idle ==
    pc' = "idle" /\ p' = Null /\ prevp' = Null /\ bp' = Null /\ nunits' = 0 /\ turns' = 0

-----------------------------------------------------------------------------
\* malloc(): the first call makes base a list of one.
Malloc(n) ==
    LET f == IF freep = Null THEN base ELSE freep IN
    /\ pc = "idle"
    /\ hdr' = IF freep = Null THEN With(hdr, base, Header(base, 0)) ELSE hdr
    /\ freep' = f /\ prevp' = f /\ p' = hdr'[f].ptr
    /\ pc' = "malloc" /\ nunits' = n
    /\ UNCHANGED <<brk, used, got, bp, turns>>

\* The block is large enough: all of it, or its upper end.
Fit ==
    /\ pc = "malloc" /\ size(p) >= nunits
    /\ IF size(p) = nunits
       THEN /\ hdr' = [hdr EXCEPT ![prevp].ptr = ptr(p), ![p].ptr = Null]
            /\ used' = With(used, p, nunits)
       ELSE LET q == p + size(p) - nunits IN
            /\ hdr' = With([hdr EXCEPT ![p].size = @ - nunits], q, Header(Null, nunits))
            /\ used' = With(used, q, nunits)
    /\ freep' = prevp
    /\ Idle /\ UNCHANGED <<brk, got>>

\* ... or the next one is tried.
Advance ==
    /\ pc = "malloc" /\ size(p) < nunits /\ p # freep
    /\ prevp' = p /\ p' = ptr(p) /\ turns' = turns + 1
    /\ UNCHANGED <<hdr, freep, brk, used, got, pc, bp, nunits>>

\* morecore(): what sbrk() gives is a block for free().
MoreCore ==
    LET nu == IF nunits < NALLOC THEN NALLOC ELSE nunits IN
    /\ pc = "malloc" /\ size(p) < nunits /\ p = freep
    /\ brk + nu <= MaxBrk
    /\ brk' = brk + nu /\ got' = got \cup (brk .. brk + nu - 1)
    /\ hdr' = With(hdr, brk, Header(Null, nu))
    /\ pc' = "morecore" /\ bp' = brk /\ p' = freep /\ turns' = 0
    /\ UNCHANGED <<freep, used, prevp, nunits>>

\* sbrk() fails, and malloc() returns 0.
NoCore ==
    /\ pc = "malloc" /\ size(p) < nunits /\ p = freep
    /\ Idle /\ UNCHANGED <<hdr, freep, brk, used, got>>

\* free()
FreeBlock(b) ==
    /\ pc = "idle"
    /\ used' = Only(used, DOMAIN used \ {b})
    /\ pc' = "free" /\ bp' = b /\ p' = freep
    /\ UNCHANGED <<hdr, freep, brk, got, prevp, nunits, turns>>

\* bp belongs between p and the next, or at one of the ends of the list.
Between ==
    \/ bp > p /\ bp < ptr(p)
    \/ p >= ptr(p) /\ (bp > p \/ bp < ptr(p))

Search ==
    /\ pc \in {"free", "morecore"} /\ ~Between
    /\ p' = ptr(p) /\ turns' = turns + 1
    /\ UNCHANGED <<hdr, freep, brk, used, got, pc, prevp, bp, nunits>>

JoinUpOnly ==                                                   \* mutant
    LET next == ptr(p)
        up == bp + size(bp) = next
        h == IF up THEN Only([hdr EXCEPT ![bp] = Header(ptr(next), @.size + size(next))],
                             DOMAIN hdr \ {next})
             ELSE [hdr EXCEPT ![bp].ptr = next]
    IN  [h EXCEPT ![p].ptr = bp]

\* The headers once bp is joined to its neighbours, or put between them.
Join ==
    LET next == ptr(p)
        up == bp + size(bp) = next
        h == IF up THEN Only([hdr EXCEPT ![bp] = Header(ptr(next), @.size + size(next))],
                             DOMAIN hdr \ {next})
             ELSE [hdr EXCEPT ![bp].ptr = next]
    IN  IF p + size(p) = bp
        THEN Only([h EXCEPT ![p] = Header(h[bp].ptr, @.size + h[bp].size)], DOMAIN h \ {bp})
        ELSE [h EXCEPT ![p].ptr = bp]

\* free() ends; morecore() returns freep, from where malloc() goes on.
Insert ==
    /\ pc \in {"free", "morecore"} /\ Between
    /\ hdr' = Join /\ freep' = p
    /\ IF pc = "free" THEN Idle
       ELSE /\ pc' = "malloc" /\ prevp' = p /\ p' = hdr'[p].ptr
            /\ bp' = Null /\ turns' = 0 /\ UNCHANGED nunits
    /\ UNCHANGED <<brk, used, got>>

\* The program's own sbrk()
Sbrk(n) ==
    /\ pc = "idle" /\ brk + n <= MaxBrk
    /\ brk' = brk + n
    /\ UNCHANGED <<hdr, freep, used, got, locals>>

Next ==
    \/ \E n \in Units : Malloc(n)
    \/ \E n \in Gaps : Sbrk(n)
    \/ \E b \in DOMAIN used : FreeBlock(b)
    \/ Fit \/ Advance \/ MoreCore \/ NoCore \/ Search \/ Insert

-----------------------------------------------------------------------------
Span(a) == a .. a + size(a) - 1

\* The free blocks above a, or all of them when a is the last.
After(a) == IF \E f \in Free : f > a THEN {f \in Free : f > a} ELSE Free

\* Between two calls the free list is one ring in the order of the addresses in
\* which no two blocks touch; free blocks and blocks given out have the sizes
\* asked for, do not overlap and make up all that sbrk() gave.  No search goes
\* round the ring more than once (umalloc.c:24-90).
HeapConsistent ==
    /\ turns <= Cardinality(Free)
    /\ pc = "idle" /\ freep # Null =>
          /\ freep \in Free
          /\ \A a \in Free :
                /\ ptr(a) \in After(a) /\ \A f \in After(a) : ptr(a) <= f
                /\ a + size(a) \notin Free \ {a}
          /\ \A b \in DOMAIN used : size(b) = used[b]
          /\ UNION {Span(a) : a \in DOMAIN hdr} = got
          /\ \A a, b \in DOMAIN hdr : a # b => Span(a) \cap Span(b) = {}
=============================================================================
