------------------------------- MODULE UserVM -------------------------------
(***************************************************************************)
(* User memory: the page allocator (kalloc.c), page tables (vm.c), and the *)
(* calls that build and take apart address spaces: sbrk, fork, exec, exit  *)
(* and wait (proc.c, exec.c).                                              *)
(*                                                                         *)
(* A step takes one page with kalloc(), so that calls on several CPUs      *)
(* interleave page by page and any of them may be the one that finds no    *)
(* memory.  Giving pages back is one step: nobody can tell it from the     *)
(* same kfree() calls one by one, since only more memory comes of them.    *)
(*                                                                         *)
(* Addresses are numbers of pages, sizes are in bytes.  Contents and       *)
(* permissions of pages are left out.                                      *)
(***************************************************************************)
EXTENDS Integers, Sequences, FiniteSets, SequencesExt, Functions, TLC

CONSTANTS NPROC,                \* slots of the process table; init is 1
          NPAGES,               \* pages between end and PHYSTOP
          PGSIZE,
          FANOUT, LEVELS,       \* entries of a page table; its levels
          USERSTACK,
          W,                    \* sizes are unsigned, modulo W
          Headers,              \* program headers: vaddr (pages), memsz, filesz
          Sbrks,                \* arguments of sbrk()
          MaxHeaders, MaxArgs, MaxCalls \* bounds: of a file, of exec(), calls

Proc == 1 .. NPROC
Page == 1 .. NPAGES
Trampoline == NPAGES + 1        \* a page of the kernel's text
None == 0

MAXVA == FANOUT ^ LEVELS
TRAMPOLINE == MAXVA - 1
TRAPFRAME == MAXVA - 2

ASSUME VMAssumption ==
    /\ FANOUT > 1 /\ LEVELS > 1 /\ PGSIZE > 0 /\ NPROC > 0
    /\ NPAGES < TRAPFRAME       \* memory is smaller than the address space
    /\ W > MAXVA * PGSIZE

VARIABLES freelist,             \* kmem.freelist
          state, tf,            \* of each process: p->state, p->trapframe
          space,                \* p->pagetable, and the one exec() builds
          sz,                   \* their sizes
          call, argv,           \* what each process does in the kernel; sys_exec()
          calls, panicked

vars == <<freelist, state, tf, space, sz, call, argv, calls, panicked>>

\* A page table: its pages, by level and index, and the leaves that are mapped.
NoSpace == [tab |-> [t \in {} |-> None], leaf |-> [a \in {} |-> None]]
Space == Proc \X {"cur", "new"}
Table == UNION {{<<d, i>> : i \in 0 .. FANOUT ^ d - 1} : d \in 0 .. LEVELS - 1}

\* In a call: the space it fills; of the loop over pages, the first, the next and
\* the end, the page taken for the next one, and the size when all are mapped; of
\* exec(), how many headers there may still be, and the pages of a segment.
User == [pc |-> "user", on |-> <<1, "cur">>, from |-> 0, va |-> 0, end |-> 0, mem |-> None,
         to |-> 0, left |-> 0, seg |-> {}]

TypeOK ==
    /\ freelist \in Seq(Page) /\ state \in [Proc -> {"UNUSED", "USED", "RUNNING", "ZOMBIE"}]
    /\ tf \in [Proc -> Page \cup {None}]
    /\ \A s \in Space :
          /\ IsInjective(space[s].tab) /\ DOMAIN space[s].tab \subseteq Table
          /\ DOMAIN space[s].leaf \subseteq 0 .. MAXVA - 1
          /\ sz[s] \in 0 .. TRAPFRAME * PGSIZE
    /\ \A p \in Proc : call[p].on \in Space /\ call[p].va \in call[p].from .. call[p].end
    /\ argv \in [Proc -> Seq(Page)] /\ \A p \in Proc : Len(argv[p]) <= MaxArgs
    /\ calls \in 0 .. MaxCalls /\ panicked \in BOOLEAN

\* PGROUNDUP(n) / PGSIZE
Pages(n) == (n + PGSIZE - 1) \div PGSIZE

-----------------------------------------------------------------------------
(* Page tables.  m is what a call changes: [free, tab, leaf, ok]. *)

Memory(s) == [free |-> freelist, tab |-> space[s].tab, leaf |-> space[s].leaf, ok |-> TRUE]

Kfree(m, pages) == [m EXCEPT !.free = Reverse(pages) \o @]

\* The page-table pages on the way to va that walk() does not find, top down.
Missing(tab, va) ==
    LET path == [d \in 1 .. LEVELS - 1 |-> <<d, va \div FANOUT ^ (LEVELS - d)>>]
    IN  SelectSeq(path, LAMBDA t : t \notin DOMAIN tab)

\* The end of mappages(): the page table has a place for va.
Map(m, va, pa) ==
    [m EXCEPT !.leaf = [a \in DOMAIN @ \cup {va} |-> IF a = va THEN pa ELSE @[a]],
              !.ok = @ /\ va < MAXVA /\ va \notin DOMAIN m.leaf]

\* uvmunmap(va, npages, do_free), which panics where nothing is mapped.
Unmap(m, va, npages, do_free) ==
    LET as == [i \in 1 .. npages |-> va + i - 1]
        gone == Range(as)
    IN  IF gone \subseteq DOMAIN m.leaf
        THEN [Kfree(m, IF do_free THEN [i \in DOMAIN as |-> m.leaf[as[i]]] ELSE <<>>)
                 EXCEPT !.leaf = [a \in DOMAIN @ \ gone |-> @[a]]]
        ELSE [m EXCEPT !.ok = FALSE]

\* freewalk(), which panics where a leaf is left; a table comes after those it
\* points to.
Freewalk(m) ==
    LET last(t) == (t[2] + 1) * FANOUT ^ (LEVELS - t[1])
        order == SetToSortSeq(DOMAIN m.tab, LAMBDA t, u : last(t) < last(u) \/ (last(t) = last(u) /\ t[1] > u[1]))
    IN  [Kfree(m, [i \in DOMAIN order |-> m.tab[order[i]]])
            EXCEPT !.tab = NoSpace.tab, !.ok = @ /\ m.leaf = NoSpace.leaf]

Uvmfree(m, n) == Freewalk(Unmap(m, 0, Pages(n), TRUE))

ProcFreepagetable(m, n) ==
    Uvmfree(Unmap(Unmap(m, TRAMPOLINE, 1, FALSE), TRAPFRAME, 1, FALSE), n)

UvmdeallocDown(m, oldsz, newsz) ==                              \* mutant
    IF newsz >= oldsz \/ newsz \div PGSIZE = Pages(oldsz) THEN m
    ELSE Unmap(m, newsz \div PGSIZE, Pages(oldsz) - (newsz \div PGSIZE), TRUE)
\* uvmdealloc()
Uvmdealloc(m, oldsz, newsz) ==
    IF newsz >= oldsz \/ Pages(newsz) = Pages(oldsz) THEN m
    ELSE Unmap(m, Pages(newsz), Pages(oldsz) - Pages(newsz), TRUE)

\* m becomes the memory, in space s.
Set(s, m) ==
    /\ freelist' = m.free
    /\ space' = [space EXCEPT ![s] = [tab |-> m.tab, leaf |-> m.leaf]]
    /\ panicked' = (panicked \/ ~m.ok)

-----------------------------------------------------------------------------
(* Init: userinit() has made the first process, with one page. *)

Init ==
    LET path == Missing(NoSpace.tab, TRAMPOLINE)
        low == Missing([t \in {<<0, 0>>} \cup Range(path) |-> None], 0)
        tables == <<<<0, 0>>>> \o path
        all == tables \o low
    IN
    \* trapframe, tables of the trampoline, the page, and tables for address 0
    /\ tf = [p \in Proc |-> IF p = 1 THEN 1 ELSE None]
    /\ space = [s \in Space |->
          IF s # <<1, "cur">> THEN NoSpace
          ELSE [tab |-> [t \in Range(all) |->
                           LET i == CHOOSE i \in DOMAIN all : all[i] = t
                           IN  IF i <= Len(tables) THEN i + 1 ELSE i + 2],
                leaf |-> (TRAMPOLINE :> Trampoline) @@ (TRAPFRAME :> 1) @@ (0 :> Len(tables) + 2)]]
    /\ freelist = [i \in 1 .. NPAGES - Len(all) - 2 |-> i + Len(all) + 2]
    /\ sz = [s \in Space |-> IF s = <<1, "cur">> THEN PGSIZE ELSE 0]
    /\ state = [p \in Proc |-> IF p = 1 THEN "RUNNING" ELSE "UNUSED"]
    /\ call = [p \in Proc |-> User] /\ argv = [p \in Proc |-> <<>>] /\ calls = 0 /\ panicked = FALSE

-----------------------------------------------------------------------------
(* The calls begin *)

InUser(p) == state[p] = "RUNNING" /\ call[p].pc = "user" /\ ~panicked
Called == calls < MaxCalls /\ calls' = calls + 1
Cur(p) == <<p, "cur">>
New(p) == <<p, "new">>

\* uvmalloc(pagetable, oldsz, newsz) begins; it does not shrink.
Uvmalloc(c, pc, oldsz, newsz) ==
    LET to == IF newsz < oldsz THEN oldsz ELSE newsz
    IN  [c EXCEPT !.pc = pc, !.from = Pages(oldsz), !.va = Pages(oldsz), !.end = Pages(to), !.to = to]

\* growproc(n) for n > 0
Grow(p, n) ==
    /\ InUser(p) /\ Called /\ n > 0
    /\ call' = [call EXCEPT ![p] = Uvmalloc([User EXCEPT !.on = Cur(p)], "grow", sz[Cur(p)], sz[Cur(p)] + n)]
    /\ UNCHANGED <<freelist, state, tf, space, sz, argv, panicked>>

\* growproc(n) for n < 0: uvmdealloc() to sz + n, which is unsigned.
Shrink(p, n) ==
    LET s == Cur(p)
        newsz == (sz[s] + n) % W
    IN
    /\ InUser(p) /\ Called /\ n < 0
    /\ Set(s, Uvmdealloc(Memory(s), sz[s], newsz))
    /\ sz' = [sz EXCEPT ![s] = IF newsz >= @ THEN @ ELSE newsz]
    /\ UNCHANGED <<state, tf, call, argv>>

\* fork(): allocproc() finds slot q.
Fork(p, q) ==
    /\ InUser(p) /\ Called
    /\ state[q] = "UNUSED" /\ state' = [state EXCEPT ![q] = "USED"]
    /\ call' = [call EXCEPT ![p] = [User EXCEPT !.pc = "trapframe", !.on = Cur(q)]]
    /\ UNCHANGED <<freelist, tf, space, sz, argv, panicked>>

\* sys_exec() begins; then exec() has found the file and checked its header.
SysExec(p) ==
    /\ InUser(p) /\ Called
    /\ call' = [call EXCEPT ![p] = [User EXCEPT !.pc = "args", !.on = New(p)]]
    /\ UNCHANGED <<freelist, state, tf, space, sz, argv, panicked>>

Exec(p) ==
    /\ call[p].pc = "args" /\ ~panicked
    /\ call' = [call EXCEPT ![p].pc = "root"]
    /\ UNCHANGED <<freelist, state, tf, space, sz, argv, calls, panicked>>

Exit(p) ==
    /\ InUser(p) /\ p # 1
    /\ state' = [state EXCEPT ![p] = "ZOMBIE"]
    /\ UNCHANGED <<freelist, tf, space, sz, call, argv, calls, panicked>>

\* freeproc(q): the trapframe, then the page table.
Freed(q, m) ==
    LET n == IF tf[q] = None THEN m ELSE Kfree(m, <<tf[q]>>)
    IN  IF m.tab = NoSpace.tab THEN n ELSE ProcFreepagetable(n, sz[Cur(q)])

Freeproc(q, m) ==
    /\ Set(Cur(q), Freed(q, m))
    /\ tf' = [tf EXCEPT ![q] = None]
    /\ sz' = [sz EXCEPT ![Cur(q)] = 0]
    /\ state' = [state EXCEPT ![q] = "UNUSED"]

\* The parent, in wait(), frees a child.
Wait(q) ==
    /\ state[q] = "ZOMBIE" /\ ~panicked
    /\ Freeproc(q, Memory(Cur(q)))
    /\ UNCHANGED <<call, argv, calls>>

-----------------------------------------------------------------------------
(* kalloc() gives a page *)

Building(p) == call[p].pc \in {"args", "trapframe", "root", "top", "grow", "copy", "load", "stack"} /\ ~panicked
Looping(p) == call[p].pc \in {"grow", "copy", "load", "stack"}
Kalloc(p) == Building(p) /\ freelist # <<>> /\ (Looping(p) => call[p].va < call[p].end)

\* allocproc(): the trapframe of the child
TakeTrapframe(p) ==
    /\ Kalloc(p) /\ call[p].pc = "trapframe"
    /\ tf' = [tf EXCEPT ![call[p].on[1]] = Head(freelist)]
    /\ freelist' = Tail(freelist)
    /\ call' = [call EXCEPT ![p].pc = "root"]
    /\ UNCHANGED <<state, space, sz, argv, calls, panicked>>

\* sys_exec(): a page for the next argument
TakeArg(p) ==
    /\ Kalloc(p) /\ call[p].pc = "args" /\ Len(argv[p]) < MaxArgs
    /\ argv' = [argv EXCEPT ![p] = Append(@, Head(freelist))]
    /\ freelist' = Tail(freelist)
    /\ UNCHANGED <<state, tf, space, sz, call, calls, panicked>>

\* uvmcreate()
TakeRoot(p) ==
    /\ Kalloc(p) /\ call[p].pc = "root"
    /\ space' = [space EXCEPT ![call[p].on].tab = <<0, 0>> :> Head(freelist)]
    /\ freelist' = Tail(freelist)
    /\ call' = [call EXCEPT ![p].pc = "top"]
    /\ UNCHANGED <<state, tf, sz, argv, calls, panicked>>

\* A page-table page of walk() on the way to va.
Walked(m, va) ==
    [m EXCEPT !.tab = @ @@ (Missing(m.tab, va)[1] :> Head(m.free)), !.free = Tail(@)]

\* proc_pagetable(): the tables of the trampoline, which are those of the
\* trapframe too; with the last of them both are mapped.
TakeTop(p) ==
    LET s == call[p].on
        m == Walked(Memory(s), TRAMPOLINE)
        done == Missing(m.tab, TRAMPOLINE) = <<>>
    IN
    /\ Kalloc(p) /\ call[p].pc = "top"
    /\ Set(s, IF done THEN Map(Map(m, TRAMPOLINE, Trampoline), TRAPFRAME, tf[s[1]]) ELSE m)
    /\ call' = [call EXCEPT ![p] =
          IF ~done THEN @
          ELSE IF s = New(p) THEN [@ EXCEPT !.pc = "headers", !.left = MaxHeaders]
          ELSE [@ EXCEPT !.pc = "copy", !.end = Pages(sz[Cur(p)]), !.to = sz[Cur(p)]]]
    /\ UNCHANGED <<state, tf, sz, argv, calls>>

\* A page of the loops of uvmalloc() and uvmcopy(): first the page, then the
\* tables it needs, and then it is mapped.  uvmcopy() panics when the parent
\* has no such page.
TakePage(p) ==
    LET c == call[p]
        m == IF c.mem = None THEN [Memory(c.on) EXCEPT !.free = Tail(@)] ELSE Walked(Memory(c.on), c.va)
        mem == IF c.mem = None THEN Head(freelist) ELSE c.mem
        done == Missing(m.tab, c.va) = <<>>
        present == c.pc = "copy" => c.va \in DOMAIN space[Cur(p)].leaf
    IN
    /\ Kalloc(p) /\ Looping(p)
    /\ Set(c.on, [(IF done THEN Map(m, c.va, mem) ELSE m) EXCEPT !.ok = @ /\ present])
    /\ call' = [call EXCEPT ![p] = IF done THEN [@ EXCEPT !.mem = None, !.va = @ + 1]
                                   ELSE [@ EXCEPT !.mem = mem]]
    /\ UNCHANGED <<state, tf, sz, argv, calls>>

-----------------------------------------------------------------------------
(* kalloc() returns 0 *)

OutOfMemory(p) == Building(p) /\ freelist = <<>> /\ (Looping(p) => call[p].va < call[p].end)

UndoneKeeping(c) ==                                             \* mutant
    Unmap(Memory(c.on), c.from, c.va - c.from, TRUE)
\* uvmalloc() or uvmcopy() takes back what it has done.
Undone(c) ==
    LET m == IF c.mem = None THEN Memory(c.on) ELSE Kfree(Memory(c.on), <<c.mem>>)
    IN  Unmap(m, c.from, c.va - c.from, TRUE)

GrowFails(p) ==
    /\ OutOfMemory(p) /\ call[p].pc = "grow"
    /\ Set(Cur(p), Undone(call[p]))
    /\ call' = [call EXCEPT ![p] = User]
    /\ UNCHANGED <<state, tf, sz, argv, calls>>

\* allocproc() or uvmcopy() fails.  proc_pagetable() frees its own tables, so
\* that freeproc() finds no page table.
ForkFails(p) ==
    LET c == call[p] IN
    /\ OutOfMemory(p) /\ c.on # New(p) /\ c.pc \in {"trapframe", "root", "top", "copy"}
    /\ Freeproc(c.on[1], IF c.pc = "copy" THEN Undone(c) ELSE Freewalk(Memory(c.on)))
    /\ call' = [call EXCEPT ![p] = User]
    /\ UNCHANGED <<argv, calls>>

\* sys_exec() frees the arguments and returns.
ExecReturns(p, m) ==
    /\ freelist' = Kfree(m, argv[p]).free
    /\ panicked' = (panicked \/ ~m.ok)
    /\ argv' = [argv EXCEPT ![p] = <<>>]
    /\ sz' = [sz EXCEPT ![New(p)] = 0]
    /\ call' = [call EXCEPT ![p] = User]
    /\ UNCHANGED <<state, tf, calls>>

\* The kernel is out of memory.  At bad: what there is of the page table goes.
ExecFails(p) ==
    LET c == call[p]
        m == CASE c.pc \in {"args", "root"} -> Memory(c.on)
               [] c.pc = "top" -> Freewalk(Memory(c.on))
               [] Looping(p) -> ProcFreepagetable(Undone(c), sz[c.on])
    IN
    /\ OutOfMemory(p) /\ c.on = New(p)
    /\ space' = [space EXCEPT ![New(p)] = [tab |-> m.tab, leaf |-> m.leaf]]
    /\ ExecReturns(p, m)

-----------------------------------------------------------------------------
(* The loops end *)

Mapped(p) == Looping(p) /\ call[p].va = call[p].end /\ ~panicked

GrowReturns(p) ==
    /\ Mapped(p) /\ call[p].pc = "grow"
    /\ sz' = [sz EXCEPT ![Cur(p)] = call[p].to]
    /\ call' = [call EXCEPT ![p] = User]
    /\ UNCHANGED <<freelist, state, tf, space, argv, calls, panicked>>

ForkReturns(p) ==
    LET s == call[p].on IN
    /\ Mapped(p) /\ call[p].pc = "copy"
    /\ sz' = [sz EXCEPT ![s] = call[p].to]
    /\ state' = [state EXCEPT ![s[1]] = "RUNNING"]
    /\ call' = [call EXCEPT ![p] = User]
    /\ UNCHANGED <<freelist, tf, space, argv, calls, panicked>>

\* The next program header: uvmalloc() up to its end.
Header(p, h) ==
    LET newsz == h.vaddr * PGSIZE + h.memsz IN
    /\ call[p].pc = "headers" /\ call[p].left > 0 /\ ~panicked
    /\ h.filesz <= h.memsz /\ (newsz = 0 => sz[New(p)] > 0)
    /\ call' = [call EXCEPT ![p] =
          [Uvmalloc(@, "load", sz[New(p)], newsz)
              EXCEPT !.left = @ - 1, !.seg = h.vaddr .. h.vaddr + Pages(h.filesz) - 1]]
    /\ UNCHANGED <<freelist, state, tf, space, sz, argv, calls, panicked>>

\* loadseg(), which panics when a page of the segment is not there.
Loadseg(p) ==
    /\ Mapped(p) /\ call[p].pc = "load"
    /\ panicked' = ~(call[p].seg \subseteq DOMAIN space[New(p)].leaf)
    /\ sz' = [sz EXCEPT ![New(p)] = call[p].to]
    /\ call' = [call EXCEPT ![p] = [User EXCEPT !.pc = "headers", !.on = New(p), !.left = call[p].left]]
    /\ UNCHANGED <<freelist, state, tf, space, argv, calls>>

\* No more headers: the stack and its guard, at the next page boundary.
Stack(p) ==
    LET base == Pages(sz[New(p)]) * PGSIZE IN
    /\ call[p].pc = "headers" /\ ~panicked
    /\ sz' = [sz EXCEPT ![New(p)] = base]
    /\ call' = [call EXCEPT ![p] = Uvmalloc(@, "stack", base, base + (USERSTACK + 1) * PGSIZE)]
    /\ UNCHANGED <<freelist, state, tf, space, argv, calls, panicked>>

\* An argument or a header is wrong, the file cannot be read, or the arguments
\* do not fit on the stack.
ExecBad(p) ==
    LET m == CASE call[p].pc \in {"args", "root"} -> Memory(New(p))
               [] call[p].pc = "headers" -> ProcFreepagetable(Memory(New(p)), sz[New(p)])
               [] Mapped(p) -> ProcFreepagetable(Memory(New(p)), call[p].to)
    IN
    /\ ~panicked /\ call[p].on = New(p)
    /\ call[p].pc \in {"args", "root", "headers"} \/ (Mapped(p) /\ call[p].pc \in {"load", "stack"})
    /\ space' = [space EXCEPT ![New(p)] = [tab |-> m.tab, leaf |-> m.leaf]]
    /\ ExecReturns(p, m)

\* The new page table replaces the old one, which is freed.
Commit(p) ==
    LET m == ProcFreepagetable(Memory(Cur(p)), sz[Cur(p)]) IN
    /\ Mapped(p) /\ call[p].pc = "stack"
    /\ space' = [space EXCEPT ![Cur(p)] = space[New(p)], ![New(p)] = [tab |-> m.tab, leaf |-> m.leaf]]
    /\ freelist' = Kfree(m, argv[p]).free
    /\ panicked' = ~m.ok
    /\ argv' = [argv EXCEPT ![p] = <<>>]
    /\ sz' = [sz EXCEPT ![Cur(p)] = call[p].to, ![New(p)] = 0]
    /\ call' = [call EXCEPT ![p] = User]
    /\ UNCHANGED <<state, tf, calls>>

-----------------------------------------------------------------------------
Step(p) ==
    \/ TakeArg(p) \/ TakeTrapframe(p) \/ TakeRoot(p) \/ TakeTop(p) \/ TakePage(p)
    \/ GrowFails(p) \/ ForkFails(p) \/ ExecFails(p) \/ GrowReturns(p) \/ ForkReturns(p)
    \/ Exec(p) \/ Loadseg(p) \/ Stack(p) \/ ExecBad(p) \/ Commit(p)
    \/ \E h \in Headers : Header(p, h)

Next ==
    \E p \in Proc :
       \/ Step(p) \/ Exit(p) \/ Wait(p) \/ SysExec(p)
       \/ \E n \in Sbrks : Grow(p, n) \/ Shrink(p, n)
       \/ \E q \in Proc : Fork(p, q)

Spec == Init /\ [][Next]_vars

-----------------------------------------------------------------------------
(* Properties *)

\* How many uses a page has: it is free, or a page-table page, or under an
\* address of a user, or a trapframe, or in a call that has not mapped it yet, or
\* an argument.
Uses(x) ==
    LET of(f, S) == Cardinality({i \in S : f[i] = x})
        owned(s) == DOMAIN space[s].leaf \ {TRAMPOLINE, TRAPFRAME}
    IN  of(freelist, DOMAIN freelist) + of(tf, Proc)
          + SumFunction([s \in Space |-> of(space[s].tab, DOMAIN space[s].tab) + of(space[s].leaf, owned(s))])
          + SumFunction([p \in Proc |-> of(argv[p], DOMAIN argv[p]) + (IF call[p].mem = x THEN 1 ELSE 0)])

\* Every page has exactly one use: none is lost, freed twice or shared, whichever
\* kalloc() of whichever call was the one that failed ("frees any allocated pages
\* on failure", vm.c:311).
PagesAccounted == \A x \in Page : Uses(x) = 1

\* In user mode a process has the pages of its size, and no others but the
\* trampoline and its own trapframe; so has the page table that exec() builds
\* between two headers.
SizeIsMapped ==
    \A s \in Space :
       LET p == s[1]
           leaf == space[s].leaf
           whole == IF s = Cur(p) THEN state[p] \in {"RUNNING", "ZOMBIE"} /\ call[p].pc # "grow"
                    ELSE call[p].pc = "headers"
       IN  whole => /\ DOMAIN leaf = 0 .. Pages(sz[s]) - 1 \cup {TRAMPOLINE, TRAPFRAME}
                    /\ leaf[TRAPFRAME] = tf[p] /\ leaf[TRAMPOLINE] = Trampoline

\* None of the panics of vm.c and loadseg() happens: mappages() finds every entry
\* free, uvmunmap() and uvmcopy() find every page, freewalk() no leaf.
NoVMPanic == ~panicked

\* What growproc() says: "Grow or shrink user memory by n bytes" (proc.c:257).
ShrinksByN == [][\A p \in Proc, n \in Sbrks : Shrink(p, n) => sz'[Cur(p)] = sz[Cur(p)] + n]_vars

\* What is mapped is what the size says, and nothing panics.
SpacesConsistent == TypeOK /\ SizeIsMapped /\ NoVMPanic
=============================================================================
