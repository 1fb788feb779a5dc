------------------------------ MODULE Syscalls ------------------------------
(***************************************************************************)
(* The kernel as user programs see it: every system call is one step that  *)
(* does all the call does to the file table, the pipes, the inodes, the    *)
(* directories, the process table and memory.  What happens inside a call  *)
(* when others run at the same time is what FileTree, FileBlocks, Pipe,    *)
(* ProcLife and the other kernel modules are about.  Here many processes   *)
(* run whole programs, from init on; their calls interleave in every way.  *)
(*                                                                         *)
(* A byte of a file is a unit that fills a block, as does a directory      *)
(* entry.  A process has one page of its own besides its memory, for the   *)
(* trap frame and the page table.                                          *)
(***************************************************************************)
EXTENDS UserTests

CONSTANTS NOFILE,     \* Descriptors of a process
          NFILE,      \* Open files of the system
          NPIPE,      \* No fewer than the pipes that can be open
          PIPESIZE,   \* Bytes in a pipe
          CHUNK,      \* Bytes filewrite() writes in one transaction
          FSBLOCKS,   \* Blocks of the disk for data
          Jobs        \* What is typed, and on which machine (see Init)

VARIABLES kern,   \* Files, pipes, inodes and free memory
          proc,   \* The process table
          job     \* The job that is run

vars == <<kern, proc, job>>

ROOTINO == 1
T_DIR == 1
T_FILE == 2
T_DEVICE == 3
Least(S) == CHOOSE x \in S : \A y \in S : x <= y

(* Memory of a process: text, data, guard page, stack, and what sbrk() adds *)
IMAGE == 4
KERNBASE == 32 * PGSIZE
MAXVA == 64 * PGSIZE
Constants ==
  [x \in {"0", "1", "2", "3", "4", "5", "6", "7"} |-> CHOOSE n \in 0..7 : ToString(n) = x]
  @@ ("747" :> 747) @@ ("DATA" :> PGSIZE) @@ ("BELOWSP" :> 3 * PGSIZE - 1)
  @@ ("MIDPAGE" :> 5 * PGSIZE + 2) @@ ("BIG" :> 7 * PGSIZE) @@ ("TOOMUCH" :> 31 * PGSIZE)
  @@ ("KERNBASE" :> KERNBASE) @@ ("TRAPFRAME" :> MAXVA - 2 * PGSIZE)
  @@ ("TRAMPOLINE" :> MAXVA - PGSIZE) @@ ("MAXVA" :> MAXVA) @@ ("TOP" :> WRAP - 1)
Val(env, x) == IF x \in DOMAIN Constants THEN Constants[x] ELSE env[x]

PGROUNDUP(n) == ((n + PGSIZE - 1) \div PGSIZE) * PGSIZE
Pages(sz) == PGROUNDUP(sz) \div PGSIZE
User(pr, a) == a \div PGSIZE \in 0..Pages(pr.sz) - 1 /\ a \div PGSIZE # 2
Writable(pr, a) == User(pr, a) /\ a \div PGSIZE # 0
\* the longest part of a..a+n-1 that can be read, or written
Prefix(n, Good(_)) == Least({n} \cup {i \in 0..n - 1 : ~Good(i)})

\* fetchstr(): a path, or LongPath when it cannot be had.  A string in
\* memory is a name as long as its bytes are not zero.
argstr(pr, path) ==
  IF path = << >> \/ path[1] # "*" THEN path
  ELSE LET a == Val(pr.env, path[2])
           end == Least({WRAP} \cup {b \in a..WRAP - 1 : ~User(pr, b) \/ b \notin pr.dirty})
       IN  IF ~User(pr, end) THEN LongPath ELSE IF end = a THEN << >> ELSE <<"mem">>

-----------------------------------------------------------------------------
(* Inodes and directories (fs.c).  k is the value of kern. *)
idup(k, i) == [k EXCEPT !.inode[i].ref = @ + 1]
NoInode == [type |-> 0, nlink |-> 0, ref |-> 0, data |-> << >>, nblk |-> 0]
itrunc(k, i) ==
  [k EXCEPT !.bfree = @ + k.inode[i].nblk, !.inode[i].data = << >>, !.inode[i].nblk = 0]
iput(k, i) ==
  IF k.inode[i].ref = 1 /\ k.inode[i].nlink = 0
  THEN [itrunc(k, i) EXCEPT !.inode[i] = NoInode]
  ELSE [k EXCEPT !.inode[i].ref = @ - 1]

\* writei() at offset off, of which the first good units can be read: a
\* unit past the blocks of the file takes a free one, also when its copy fails
Stored(k, i, off, d) == LET old == k.inode[i].data
                        IN  [j \in 1..(IF off + Len(d) > Len(old) THEN off + Len(d) ELSE Len(old)) |->
                               IF j \in off + 1..off + Len(d) THEN d[j - off] ELSE old[j]]
writei(k, i, off, d, good) ==
  IF off > Len(k.inode[i].data) \/ off + Len(d) > MAXFILE THEN [k |-> k, r |-> -1]
  ELSE LET room == k.inode[i].nblk + k.bfree - off
           tot == Least({Len(d), good, room})
           nblk == Least({off + Len(d), off + good + 1, off + room})
           more == IF nblk > k.inode[i].nblk THEN nblk - k.inode[i].nblk ELSE 0
       IN  [k |-> [k EXCEPT !.inode[i].data = Stored(k, i, off, SubSeq(d, 1, tot)),
                            !.inode[i].nblk = @ + more, !.bfree = @ - more],
            r |-> tot]

Short(name) == IF name = s15 THEN s14 ELSE name
Entry(k, d, name) ==
  SelectInSeq(k.inode[d].data, LAMBDA de : de.inum # 0 /\ de.name = Short(name))
dirlookup(k, d, name) ==
  LET q == Entry(k, d, name) IN IF q = 0 THEN 0 ELSE k.inode[d].data[q].inum
dirlink_dup(k, d, name, inum) ==   \* mutant: the name may be there already
  LET q == SelectInSeq(k.inode[d].data, LAMBDA de : de.inum = 0)
      off == IF q = 0 THEN Len(k.inode[d].data) ELSE q - 1
      w == writei(k, d, off, << [inum |-> inum, name |-> Short(name)] >>, 1)
  IN  [w EXCEPT !.r = IF @ = 1 THEN 0 ELSE -1]
dirlink(k, d, name, inum) ==
  IF Entry(k, d, name) # 0 THEN [k |-> k, r |-> -1]
  ELSE LET q == SelectInSeq(k.inode[d].data, LAMBDA de : de.inum = 0)
           off == IF q = 0 THEN Len(k.inode[d].data) ELSE q - 1
           w == writei(k, d, off, << [inum |-> inum, name |-> Short(name)] >>, 1)
       IN  [w EXCEPT !.r = IF @ = 1 THEN 0 ELSE -1]

\* namex(): 0 when there is no such file
Dir(k, i) == i # 0 /\ k.inode[i].type = T_DIR
Walk(k, cwd, path) ==
  LET abs == path # << >> /\ path[1] = "/"
  IN  FoldLeft(LAMBDA i, name : IF Dir(k, i) THEN dirlookup(k, i, name) ELSE 0,
               IF abs THEN ROOTINO ELSE cwd, IF abs THEN Tail(path) ELSE path)
Names(path) == IF path # << >> /\ path[1] = "/" THEN Tail(path) ELSE path
namei(k, pr, path) == IF path = LongPath THEN 0 ELSE Walk(k, pr.cwd, path)
nameiparent(k, pr, path) ==
  IF path = LongPath \/ Names(path) = << >> THEN 0
  ELSE LET d == Walk(k, pr.cwd, Front(path)) IN IF Dir(k, d) THEN d ELSE 0

\* ialloc(): the inode is referenced, or 0
ialloc(k) ==
  LET S == {i \in DOMAIN k.inode : k.inode[i].type = 0} IN IF S = { } THEN 0 ELSE Least(S)

\* create(): [k, ip], with ip referenced; ip = 0 when it fails
After(w, Go(_)) == IF w.r < 0 THEN w ELSE Go(w.k)
Dots(k, dp, ip) == After(dirlink(k, ip, ".", ip), LAMBDA k1 : dirlink(k1, ip, "..", dp))
Linked(w, dp, ip, type) ==
  IF w.r < 0 THEN [k |-> iput([w.k EXCEPT !.inode[ip].nlink = 0], ip), ip |-> 0]
  ELSE [k |-> IF type = T_DIR THEN [w.k EXCEPT !.inode[dp].nlink = @ + 1] ELSE w.k, ip |-> ip]
CreateNew(k, dp, name, type, ip) ==
  LET k1 == [k EXCEPT !.inode[ip] = [NoInode EXCEPT !.type = type, !.nlink = 1, !.ref = 1]]
  IN  Linked(After(IF type = T_DIR THEN Dots(k1, dp, ip) ELSE [k |-> k1, r |-> 0],
                   LAMBDA k2 : dirlink(k2, dp, name, ip)), dp, ip, type)
CreateIn(k, dp, name, type, old, ip) ==
  CASE old # 0 /\ type = T_FILE /\ k.inode[old].type \in {T_FILE, T_DEVICE} ->
         [k |-> idup(k, old), ip |-> old]
    [] old = 0 /\ ip # 0 -> CreateNew(k, dp, name, type, ip)
    [] OTHER -> [k |-> k, ip |-> 0]
create(k, pr, path, type) ==
  LET dp == nameiparent(k, pr, path)
  IN  IF dp = 0 THEN [k |-> k, ip |-> 0]
      ELSE CreateIn(k, dp, Last(path), type, dirlookup(k, dp, Last(path)), ialloc(k))

(* Files and pipes (file.c, pipe.c) *)
NoFile == [ref |-> 0, type |-> "NONE", ip |-> 0, off |-> 0, readable |-> FALSE, writable |-> FALSE]
NoPipe == [data |-> << >>, readopen |-> FALSE, writeopen |-> FALSE]
filealloc(k) ==
  LET S == {f \in 1..NFILE : k.ftable[f].ref = 0} IN IF S = { } THEN 0 ELSE Least(S)
fdalloc(pr) ==
  LET S == {fd \in 0..NOFILE - 1 : pr.ofile[fd] = 0} IN IF S = { } THEN -1 ELSE Least(S)
filedup(k, f) == [k EXCEPT !.ftable[f].ref = @ + 1]

pipeclose_early(k, pi, writable) ==   \* mutant: freed when one end is closed
  [k EXCEPT !.pipe[pi] = NoPipe, !.free = @ + 1]
pipeclose(k, pi, writable) ==
  LET p == IF writable THEN [k.pipe[pi] EXCEPT !.writeopen = FALSE]
           ELSE [k.pipe[pi] EXCEPT !.readopen = FALSE]
  IN  IF p.readopen \/ p.writeopen THEN [k EXCEPT !.pipe[pi] = p]
      ELSE [k EXCEPT !.pipe[pi] = NoPipe, !.free = @ + 1]

fileclose_noput(k, f) ==   \* mutant: the inode keeps its reference
  LET ff == k.ftable[f]
      k1 == [k EXCEPT !.ftable[f] = NoFile]
  IN  IF ff.ref > 1 THEN [k EXCEPT !.ftable[f].ref = @ - 1]
      ELSE IF ff.type = "PIPE" THEN pipeclose(k1, ff.ip, ff.writable) ELSE k1

fileclose(k, f) ==
  LET ff == k.ftable[f]
      k1 == [k EXCEPT !.ftable[f] = NoFile]
  IN  IF ff.ref > 1 THEN [k EXCEPT !.ftable[f].ref = @ - 1]
      ELSE IF ff.type = "PIPE" THEN pipeclose(k1, ff.ip, ff.writable) ELSE iput(k1, ff.ip)

\* pipealloc(): the files of the two ends are the two least free ones
pipealloc(k) ==
  LET f0 == filealloc(k)
      f1 == filealloc(filedup(k, f0))
      pi == Least({i \in 1..NPIPE : k.pipe[i] = NoPipe})
      End(w) == [ref |-> 1, type |-> "PIPE", ip |-> pi, off |-> 0, readable |-> ~w, writable |-> w]
  IN  IF f0 = 0 \/ f1 = 0 \/ k.free = 0 THEN [k |-> k, f0 |-> 0, f1 |-> 0]
      ELSE [k |-> [k EXCEPT !.ftable[f0] = End(FALSE), !.ftable[f1] = End(TRUE), !.free = @ - 1,
                            !.pipe[pi] = [data |-> << >>, readopen |-> TRUE, writeopen |-> TRUE]],
            f0 |-> f0, f1 |-> f1]

-----------------------------------------------------------------------------
(* User code between two calls *)
Within(r, w) == w[1] <= r /\ r <= w[2]

\* What the programs compute
Fn(f, a) ==
  CASE f = "minus"    -> a[1] - a[2]
    [] f = "less"     -> IF a[1] < a[2] THEN 1 ELSE 0
    [] f = "inc"      -> a[1] + 1
    [] f = "dec"      -> a[1] - 1
    [] f = "double"   -> IF a[1] < 4 THEN 2 * a[1] ELSE 4
    [] f = "pageup"   -> PGROUNDUP(a[1])
    [] f = "nextpage" -> a[1] + PGSIZE
    [] f = "lastof"   -> a[1] + PGSIZE - 1
    [] f = "append"   -> a[1] \o a[2]
    [] f = "countc"   -> Len(SelectSeq(a[1], LAMBDA c : c = "c"))
    [] f = "countp"   -> Len(SelectSeq(a[1], LAMBDA c : c = "p"))
    [] f = "count"    -> FoldLeft(Counted, a[1], a[2])
    [] f = "report"   -> <<ToString(a[1].l), ToString(a[1].w), ToString(a[1].c)>>
    [] f = "lines"    -> Lines(a[1], a[2] \o a[3])
    [] f = "left"     -> a[1].left
    [] f = "room"     -> BUFSZ - 1 - Len(a[1])
    [] f = "Cfiles"   -> {e.name : e \in {de \in ToSet(a[1]) : de.inum # 0}} \cap {Numbered("C", i) : i \in 0..9}
    [] f = "Ccount"   -> Len(SelectSeq(a[1], LAMBDA de : de.inum # 0 /\ de.name \in {Numbered("C", i) : i \in 0..9}))

Expanded(f, env) ==
  CASE f = "line"   -> runline(env.line)
    [] f = "output" -> Each(env.found.out, LAMBDA l : << Do(write("1", l)) >>)
    [] f = "entry"  -> entry(env.dir, env.buf[1])

\* Runs code up to the next call.  A main() that returns calls exit(0).
Complaint == << Do(complain), Exit("1") >>
RECURSIVE Local(_, _)
Local(code, env) ==
  IF code = << >> THEN [code |-> << Exit("0") >>, env |-> env]
  ELSE LET i == Head(code)
           rest == Tail(code)
       IN  CASE i.do = "call"    -> [code |-> code, env |-> env]
             [] i.do = "if"      -> Local((IF Within(Val(env, i.v), i.want) THEN i.then ELSE i.else) \o rest, env)
             [] i.do = "while"   -> Local(<< i.call, If(i.call.v, i.want, Append(i.body, i), << >>) >> \o rest, env)
             [] i.do = "until"   -> Local(i.body \o << If(i.v, i.want, << >>, << i >>) >> \o rest, env)
             [] i.do = "forever" -> Local(Append(i.body, i), env)
             [] i.do = "repeat"  -> Local((IF Val(env, i.v) = 0 THEN << >>
                                           ELSE i.body \o << Apply(i.v, "dec", <<i.v>>), i >>) \o rest, env)
             [] i.do = "expand"  -> Local(Expanded(i.f, env) \o rest, env)
             [] i.do = "put"     -> Local(rest, (i.v :> i.x) @@ env)
             [] i.do = "apply"   -> Local(rest, (i.v :> Fn(i.f, [j \in DOMAIN i.args |-> Val(env, i.args[j])])) @@ env)
             [] i.do = "holds"   -> IF Val(env, i.v) = i.x THEN Local(rest, env)
                                    ELSE [code |-> Complaint, env |-> env]

\* Process pr after its call returned r, with out put into its variables
Resumes(pr, l) == [pr EXCEPT !.code = l.code, !.env = l.env, !.done = 0]
Returns(pr, r, out) ==
  LET i == Head(pr.code)
  IN  Resumes(pr, Local(IF Within(r, i.want) THEN Tail(pr.code) ELSE Complaint,
                        out @@ (IF i.v = "_" THEN pr.env ELSE (i.v :> r) @@ pr.env)))
None == [x \in { } |-> 0]

Prog(name, argv) ==
  CASE name = "init" -> initmain
    [] name = "sh" -> shmain
    [] name = "echo" -> echomain(argv)
    [] name = "cat" -> catmain(argv)
    [] name = "wc" -> wcmain(argv)
    [] name = "grep" -> grepmain(argv)
    [] name = "ls" -> lsmain(argv)
    [] name = "ln" -> lnmain(argv)
    [] name = "rm" -> rmmain(argv)
    [] name = "mkdir" -> mkdirmain(argv)
    [] name = "kill" -> killmain(argv)
    [] name = "zombie" -> zombiemain
    [] name = "stressfs" -> stressfsmain
    [] name = "forktest" -> forktestmain
    [] name = "grind" -> grindmain
    [] name = "usertests" -> usertestsmain(argv)

-----------------------------------------------------------------------------
(* System calls of the process in slot s *)
C(s) == Head(proc[s].code).c
argfd(pr, x) == LET fd == Val(pr.env, x) IN IF fd \in 0..NOFILE - 1 THEN pr.ofile[fd] ELSE 0
Children(s) == {t \in DOMAIN proc : proc[t].state # "UNUSED" /\ proc[t].parent = s}

\* What a process waits for inside a call: the writers of an empty pipe, a
\* line, a reader of a full pipe, a child.  One that was killed gives up.
FullPipe(f) == kern.ftable[f].type = "PIPE" /\ LET pi == kern.pipe[kern.ftable[f].ip]
                                              IN  pi.readopen /\ Len(pi.data) = PIPESIZE
EmptyPipe_forever(f) ==   \* mutant: the end of the writers is not seen
  kern.ftable[f].type = "PIPE" /\ kern.pipe[kern.ftable[f].ip].data = << >>
EmptyPipe(f) == kern.ftable[f].type = "PIPE" /\ LET pi == kern.pipe[kern.ftable[f].ip]
                                               IN  pi.writeopen /\ pi.data = << >>
NoLine(f) == kern.ftable[f].type = "DEVICE" /\ kern.input = << >>
Asleep(s) ==
  LET c == C(s)
      f == argfd(proc[s], c[2])
  IN  /\ ~proc[s].killed
      /\ CASE c[1] \in {"read", "readv", "readAt"} ->
                f # 0 /\ kern.ftable[f].readable /\ (EmptyPipe(f) \/ NoLine(f))
           [] c[1] \in {"write", "writev", "writeAt"} -> f # 0 /\ kern.ftable[f].writable /\ FullPipe(f)
           [] c[1] = "wait" -> /\ Children(s) # { }
                               /\ \A t \in Children(s) : proc[t].state # "ZOMBIE"
           [] c[1] = "getcmd" -> kern.input = << >>
           [] OTHER -> c[1] = "spin"

Calling(s, names) ==
  /\ proc[s].state = "RUNNABLE"
  /\ proc[s].killed => proc[s].done > 0
  /\ User(proc[s], 0)
  /\ C(s)[1] \in names
  /\ ~Asleep(s)
Return(s, r, out) == proc' = [proc EXCEPT ![s] = Returns(@, r, out)]
\* the call returns r and the kernel's state becomes k
Ends(s, k, r) == kern' = k /\ Return(s, r, None)
Error(s) == Ends(s, kern, -1)
\* the call returns the new descriptors of fds
Opens(s, k, r, fds, out) ==
  /\ kern' = k
  /\ proc' = [proc EXCEPT ![s] = Returns([@ EXCEPT !.ofile = fds @@ @], r, out)]

sys_dup(s) ==
  /\ Calling(s, {"dup"})
  /\ LET f == argfd(proc[s], C(s)[2])
         fd == fdalloc(proc[s])
     IN  IF f = 0 \/ fd < 0 THEN Error(s) ELSE Opens(s, filedup(kern, f), fd, fd :> f, None)

sys_close(s) ==
  /\ Calling(s, {"close"})
  /\ LET f == argfd(proc[s], C(s)[2])
     IN  IF f = 0 THEN Error(s)
         ELSE Opens(s, fileclose(kern, f), 0, Val(proc[s].env, C(s)[2]) :> 0, None)

sys_fstat(s) ==
  /\ Calling(s, {"fstat"})
  /\ LET f == argfd(proc[s], C(s)[2])
         ip == kern.inode[kern.ftable[f].ip]
     IN  IF f = 0 \/ kern.ftable[f].type = "PIPE" THEN Error(s)
         ELSE kern' = kern /\ Return(s, 0, ("st_type" :> ip.type) @@ ("st_size" :> Len(ip.data)))

\* What the call takes from src, when n units are asked for and the first
\* good of them can be copied out: a unit whose copy fails is gone
Taken(src, n, good) ==
  LET m == Least({n, Len(src)})
  IN  [rest |-> SubSeq(src, 1 + Least({m, good + 1}), Len(src)), d |-> SubSeq(src, 1, Least({m, good}))]

piperead(k, pi, n, good) ==
  LET t == Taken(k.pipe[pi].data, n, good)
  IN  [k |-> [k EXCEPT !.pipe[pi].data = t.rest], d |-> t.d, r |-> Len(t.d)]
\* one line at most; "^D" alone is the end of the input
consoleread(k, n, good) ==
  LET t == Taken(Head(k.input), n, good)
  IN  IF Head(k.input) = <<"^D">> THEN [k |-> [k EXCEPT !.input = Tail(@)], d |-> << >>, r |-> 0]
      ELSE [k |-> [k EXCEPT !.input = (IF t.rest = << >> THEN << >> ELSE <<t.rest>>) \o Tail(@)],
            d |-> t.d, r |-> Len(t.d)]
readi(k, f, n, good) ==
  LET data == k.inode[k.ftable[f].ip].data
      off == k.ftable[f].off
      m == IF off > Len(data) \/ (n < 0 /\ off > 0) THEN 0
           ELSE IF n < 0 THEN Len(data) ELSE Least({n, Len(data) - off})
  IN  IF good < m THEN [k |-> k, d |-> SubSeq(data, off + 1, off + good), r |-> -1]
      ELSE [k |-> [k EXCEPT !.ftable[f].off = @ + m], d |-> SubSeq(data, off + 1, off + m), r |-> m]

fileread(k, f, n, good) ==
  CASE k.ftable[f].type = "PIPE"   -> piperead(k, k.ftable[f].ip, n, good)
    [] k.ftable[f].type = "DEVICE" -> consoleread(k, n, good)
    [] k.ftable[f].type = "INODE"  -> readi(k, f, n, good)

sys_read(s) ==
  /\ Calling(s, {"read", "readv", "readAt"})
  /\ LET pr == proc[s]
         c == C(s)
         f == argfd(pr, c[2])
         at == c[1] = "readAt"
         a == IF at THEN Val(pr.env, c[3]) ELSE 0
         n == CASE c[1] = "read" -> c[3] [] c[1] = "readv" -> pr.env[c[3]] [] at -> c[4]
         good == IF at THEN Prefix(IF n < 0 THEN Most ELSE n, LAMBDA i : Writable(pr, a + i)) ELSE n
         x == fileread(kern, f, n, good)
         into == {a + j - 1 : j \in 1..Len(x.d)}
         dirty == IF ~at THEN pr.dirty
                  ELSE (pr.dirty \ into) \cup {b \in into : x.d[b - a + 1] # "0"}
     IN  IF f = 0 \/ ~kern.ftable[f].readable THEN Error(s)
         ELSE /\ kern' = x.k
              /\ proc' = [proc EXCEPT ![s] = Returns([@ EXCEPT !.dirty = dirty], x.r,
                                                     IF at THEN None ELSE "buf" :> x.d)]

\* One step of a write of d, of which done units are written already: all
\* that fits into the pipe, or one transaction.  more: it goes on.
pipewrite(k, pi, d, done, good) ==
  LET m == Least({PIPESIZE - Len(k.pipe[pi].data), Len(d) - done, good - done})
  IN  [k |-> [k EXCEPT !.pipe[pi].data = @ \o SubSeq(d, done + 1, done + m)],
       r |-> done + m, more |-> done + m < Least({Len(d), good})]
filewritei(k, f, d, done, good) ==
  LET n1 == Least({CHUNK, Len(d) - done})
      w == writei(k, k.ftable[f].ip, k.ftable[f].off, SubSeq(d, done + 1, done + n1),
                  IF good > done THEN good - done ELSE 0)
  IN  [k |-> IF w.r > 0 THEN [w.k EXCEPT !.ftable[f].off = @ + w.r] ELSE w.k,
       r |-> IF w.r = n1 THEN done + n1 ELSE -1, more |-> w.r = n1 /\ done + n1 < Len(d)]
filewrite(k, f, d, done, good) ==
  CASE k.ftable[f].type = "PIPE"   -> pipewrite(k, k.ftable[f].ip, d, done, good)
    [] k.ftable[f].type = "DEVICE" -> [k |-> k, r |-> Least({Len(d), good}), more |-> FALSE]
    [] k.ftable[f].type = "INODE"  -> filewritei(k, f, d, done, good)

sys_write(s) ==
  /\ Calling(s, {"write", "writev", "writeAt"})
  /\ LET pr == proc[s]
         c == C(s)
         f == argfd(pr, c[2])
         a == IF c[1] = "writeAt" THEN Val(pr.env, c[3]) ELSE 0
         d == CASE c[1] = "write" -> c[3]
                [] c[1] = "writev" -> pr.env[c[3]]
                [] OTHER -> [j \in 1..c[4] |-> IF a + j - 1 \in pr.dirty THEN "m" ELSE "0"]
         good == IF c[1] = "writeAt" THEN Prefix(c[4], LAMBDA i : User(pr, a + i)) ELSE Len(d)
         pi == kern.pipe[kern.ftable[f].ip]
         x == filewrite(kern, f, d, pr.done, good)
     IN  IF f = 0 \/ ~kern.ftable[f].writable THEN Error(s)
         ELSE IF kern.ftable[f].type = "PIPE" /\ (~pi.readopen \/ pr.killed) THEN Error(s)
         ELSE /\ kern' = x.k
              /\ IF x.more THEN proc' = [proc EXCEPT ![s].done = x.r] ELSE Return(s, x.r, None)

sys_link(s) ==
  /\ Calling(s, {"link"})
  /\ LET pr == proc[s]
         old == argstr(pr, C(s)[2])
         new == argstr(pr, C(s)[3])
         ip == namei(kern, pr, old)
         dp == nameiparent(kern, pr, new)
         l == dirlink([kern EXCEPT !.inode[ip].nlink = @ + 1], dp, Last(new), ip)
     IN  IF LongPath \in {old, new} \/ ip = 0 \/ Dir(kern, ip) \/ dp = 0 THEN Error(s)
         ELSE IF l.r < 0 THEN Ends(s, [l.k EXCEPT !.inode[ip].nlink = @ - 1], -1)
         ELSE Ends(s, l.k, 0)

isdirempty(k, i) ==
  k.inode[i].type = T_DIR => \A j \in 3..Len(k.inode[i].data) : k.inode[i].data[j].inum = 0

sys_unlink(s) ==
  /\ Calling(s, {"unlink"})
  /\ LET path == argstr(proc[s], C(s)[2])
         dp == nameiparent(kern, proc[s], path)
         ip == dirlookup(kern, dp, Last(path))
         k1 == [kern EXCEPT !.inode[dp].data[Entry(kern, dp, Last(path))] = [inum |-> 0, name |-> ""]]
         k2 == IF Dir(kern, ip) THEN [k1 EXCEPT !.inode[dp].nlink = @ - 1] ELSE k1
     IN  IF dp = 0 \/ Last(path) \in {".", ".."} \/ ip = 0 \/ ~isdirempty(kern, ip) THEN Error(s)
         ELSE Ends(s, iput([idup(k2, ip) EXCEPT !.inode[ip].nlink = @ - 1], ip), 0)

\* o is the inode that was found or made, with the kernel's state
Opened(s, o, mode, f, fd) ==
  LET type == o.k.inode[o.ip].type
      file == [ref |-> 1, type |-> IF type = T_DEVICE THEN "DEVICE" ELSE "INODE", ip |-> o.ip,
               off |-> 0, readable |-> WRONLY \notin mode, writable |-> mode \cap {WRONLY, RDWR} # { }]
  IN  IF o.ip = 0 THEN Ends(s, o.k, -1)
      ELSE IF f = 0 \/ fd < 0 THEN Ends(s, iput(o.k, o.ip), -1)
      ELSE Opens(s, [(IF TRUNC \in mode /\ type = T_FILE THEN itrunc(o.k, o.ip) ELSE o.k)
                     EXCEPT !.ftable[f] = file], fd, fd :> f, None)
sys_open(s) ==
  /\ Calling(s, {"open"})
  /\ LET path == argstr(proc[s], C(s)[2])
         mode == C(s)[3]
         found == namei(kern, proc[s], path)
     IN  Opened(s, IF CREATE \in mode THEN create(kern, proc[s], path, T_FILE)
                   ELSE IF found = 0 \/ (Dir(kern, found) /\ mode # { }) THEN [k |-> kern, ip |-> 0]
                   ELSE [k |-> idup(kern, found), ip |-> found],
                mode, filealloc(kern), fdalloc(proc[s]))

\* mkdir() and mknod()
Makes(s, o) == IF o.ip = 0 THEN Ends(s, o.k, -1) ELSE Ends(s, iput(o.k, o.ip), 0)
Creates(s, type) == create(kern, proc[s], argstr(proc[s], C(s)[2]), type)
sys_mkdir(s) == Calling(s, {"mkdir"}) /\ Makes(s, Creates(s, T_DIR))
sys_mknod(s) == Calling(s, {"mknod"}) /\ Makes(s, Creates(s, T_DEVICE))

sys_chdir(s) ==
  /\ Calling(s, {"chdir"})
  /\ LET ip == namei(kern, proc[s], argstr(proc[s], C(s)[2]))
     IN  IF ~Dir(kern, ip) THEN Error(s)
         ELSE /\ kern' = iput(idup(kern, ip), proc[s].cwd)
              /\ proc' = [proc EXCEPT ![s] = Returns([@ EXCEPT !.cwd = ip], 0, None)]

sys_pipe(s) ==
  /\ Calling(s, {"pipe", "pipeAt"})
  /\ LET pr == proc[s]
         c == C(s)
         p == pipealloc(kern)
         fd0 == fdalloc(pr)
         fd1 == fdalloc([pr EXCEPT !.ofile[fd0] = p.f0])
         a == Val(pr.env, c[2])
         out == IF c[1] = "pipe" THEN (c[2] :> fd0) @@ (c[3] :> fd1) ELSE None
     IN  IF p.f0 = 0 THEN Error(s)
         ELSE IF \/ fd0 < 0 \/ fd1 < 0
                 \/ c[1] = "pipeAt" /\ ~(Writable(pr, a) /\ Writable(pr, a + 1))
              THEN Ends(s, fileclose(fileclose(p.k, p.f0), p.f1), -1)
         ELSE Opens(s, p.k, 0, (fd0 :> p.f0) @@ (fd1 :> p.f1), out)

-----------------------------------------------------------------------------
(* Processes (proc.c, exec.c) *)
NoProc == [state |-> "UNUSED", pid |-> 0, parent |-> 0, xstate |-> 0, killed |-> FALSE,
           ofile |-> [fd \in 0..NOFILE - 1 |-> 0], cwd |-> 0, sz |-> 0, dirty |-> { },
           code |-> << >>, env |-> None, done |-> 0]
Started(pr, name, argv) ==
  [Resumes(pr, Local(Prog(name, argv), None)) EXCEPT !.sz = IMAGE * PGSIZE, !.dirty = { }]

\* Every argument has a page of its own until the new image is complete.
\* More than three large ones do not fit into the stack.
sys_exec(s) ==
  /\ Calling(s, {"exec"})
  /\ LET pr == proc[s]
         argv == C(s)[3]
         ip == namei(kern, pr, argstr(pr, C(s)[2]))
         n == kern.inode[ip]
     IN  IF \/ BadArg \in ToSet(argv) \/ ip = 0
            \/ n.type # T_FILE \/ n.data = << >> \/ n.data[1] # "ELF"
            \/ kern.free < Len(argv) + 1 + IMAGE
            \/ Len(SelectSeq(argv, LAMBDA x : x = LargeArg)) > 3
         THEN Error(s)
         ELSE /\ kern' = [kern EXCEPT !.free = @ + Pages(pr.sz) - IMAGE]
              /\ proc' = [proc EXCEPT ![s] = Started(@, n.data[2], argv)]

\* The files of a process, one reference each
Held(pr) == SelectSeq([i \in 1..NOFILE |-> pr.ofile[i - 1]], LAMBDA f : f # 0)

sys_fork(s) ==
  /\ Calling(s, {"fork", "forkon"})
  /\ LET pr == proc[s]
         S == {t \in DOMAIN proc : proc[t].state = "UNUSED"}
         np == Least(S)
         need == 1 + Pages(pr.sz)
         child == IF C(s)[1] = "forkon" THEN Returns(pr, 0, None)
                  ELSE Returns([pr EXCEPT !.code = <<Head(@)>> \o C(s)[2]], 0, None)
         pid == kern.nextpid
     IN  IF S = { } \/ kern.free < need THEN Error(s)
         ELSE /\ kern' = [FoldLeft(filedup, idup(kern, pr.cwd), Held(pr))
                          EXCEPT !.free = @ - need, !.nextpid = pid + 1]
              /\ proc' = [proc EXCEPT ![s] = Returns(@, pid, None),
                                      ![np] = [child EXCEPT !.pid = pid, !.parent = s]]

\* exit(): the children become init's
Exits(s, status) ==
  /\ kern' = iput(FoldLeft(fileclose, kern, Held(proc[s])), proc[s].cwd)
  /\ proc' = [t \in DOMAIN proc |->
                IF t = s THEN [proc[s] EXCEPT !.state = "ZOMBIE", !.xstate = status, !.cwd = 0, !.code = << >>,
                                              !.ofile = NoProc.ofile, !.env = None, !.dirty = { }]
                ELSE IF proc[t].state # "UNUSED" /\ proc[t].parent = s THEN [proc[t] EXCEPT !.parent = 1]
                ELSE proc[t]]
sys_exit(s) == Calling(s, {"exit"}) /\ Exits(s, Val(proc[s].env, C(s)[2]))
\* usertrap(): a killed process, or one whose text is gone, goes no further
usertrap(s) ==
  /\ proc[s].state = "RUNNABLE"
  /\ (proc[s].killed /\ proc[s].done = 0) \/ ~User(proc[s], 0)
  /\ Exits(s, -1)

sys_wait(s) ==
  /\ Calling(s, {"wait"})
  /\ LET t == Least({c \in Children(s) : proc[c].state = "ZOMBIE"})
     IN  IF Children(s) = { } THEN Error(s)
         ELSE /\ kern' = [kern EXCEPT !.free = @ + 1 + Pages(proc[t].sz)]
              /\ proc' = [proc EXCEPT ![s] = Returns(@, proc[t].pid, C(s)[2] :> proc[t].xstate),
                                      ![t] = NoProc]

sys_kill(s) ==
  /\ Calling(s, {"kill"})
  /\ LET S == {t \in DOMAIN proc : proc[t].state # "UNUSED" /\ proc[t].pid = Val(proc[s].env, C(s)[2])}
         r == IF S = { } THEN -1 ELSE 0
         hit == [t \in DOMAIN proc |-> IF t \in S THEN [proc[t] EXCEPT !.killed = TRUE] ELSE proc[t]]
     IN  kern' = kern /\ proc' = [hit EXCEPT ![s] = Returns(@, r, None)]

\* growproc(); sizes are addresses, modulo WRAP
sys_sbrk(s) ==
  /\ Calling(s, {"sbrk", "sbrkto"})
  /\ LET pr == proc[s]
         n == IF C(s)[1] = "sbrk" THEN C(s)[2] ELSE Val(pr.env, C(s)[2]) - pr.sz
         new == (pr.sz + n) % WRAP
         sz == IF (n > 0) = (new > pr.sz) THEN new ELSE pr.sz
         more == Pages(sz) - Pages(pr.sz)
     IN  IF n > 0 /\ more > kern.free THEN Error(s)
         ELSE /\ kern' = [kern EXCEPT !.free = @ - more]
              /\ proc' = [proc EXCEPT ![s] =
                            Returns([@ EXCEPT !.sz = sz, !.dirty = {a \in @ : a \div PGSIZE < Pages(sz)}],
                                    pr.sz, None)]

sys_getpid(s) == Calling(s, {"getpid"}) /\ Ends(s, kern, proc[s].pid)
sys_sleep(s) == Calling(s, {"sleep"}) /\ Ends(s, kern, 0)

(* What needs no call, or none of its own *)
Touch(s) ==
  /\ Calling(s, {"load", "store", "clear"})
  /\ LET pr == proc[s]
         c == C(s)
         a == Val(pr.env, c[2])
         dirty == CASE c[1] = "load" -> pr.dirty
                    [] c[1] = "store" -> pr.dirty \cup {a}
                    [] c[1] = "clear" -> pr.dirty \ {a}
     IN  /\ kern' = kern
         /\ IF IF c[1] = "load" THEN ~User(pr, a) ELSE ~Writable(pr, a)
            THEN proc' = [proc EXCEPT ![s].killed = TRUE]
            ELSE proc' = [proc EXCEPT ![s] = Returns([@ EXCEPT !.dirty = dirty],
                                                     IF a \in pr.dirty THEN 1 ELSE 0, None)]
Choose(s) ==
  /\ Calling(s, {"oneof"})
  /\ \E i \in DOMAIN C(s)[2] :
       proc' = [proc EXCEPT ![s] = Resumes(@, Local(C(s)[2][i] \o Tail(@.code), @.env))]
  /\ kern' = kern
\* gets() of the shell, one line from the console
Prompt(s) ==
  /\ Calling(s, {"getcmd"})
  /\ kern' = [kern EXCEPT !.input = Tail(@)]
  /\ LET l == Head(kern.input)
     IN  IF l = <<"^D">> THEN Return(s, -1, None) ELSE Return(s, 0, "line" :> l)
Complain(s) == Calling(s, {"complain"}) /\ Ends(s, kern, 0)

Step(s) ==
  \/ sys_dup(s) \/ sys_close(s) \/ sys_fstat(s) \/ sys_read(s) \/ sys_write(s)
  \/ sys_link(s) \/ sys_unlink(s) \/ sys_open(s) \/ sys_mkdir(s) \/ sys_mknod(s)
  \/ sys_chdir(s) \/ sys_pipe(s) \/ sys_exec(s) \/ sys_fork(s) \/ sys_exit(s)
  \/ usertrap(s) \/ sys_wait(s) \/ sys_kill(s) \/ sys_sbrk(s) \/ sys_getpid(s)
  \/ sys_sleep(s) \/ Touch(s) \/ Choose(s) \/ Prompt(s) \/ Complain(s)
Next == job' = job /\ \E s \in DOMAIN proc : Step(s)

-----------------------------------------------------------------------------
(***************************************************************************)
(* The machine after boot: mkfs has put the files of the job into the root *)
(* directory, and initcode has started init.                               *)
(***************************************************************************)
mkfs(files) ==
  LET root == << [inum |-> ROOTINO, name |-> "."], [inum |-> ROOTINO, name |-> ".."] >>
              \o [i \in 1..Len(files) |-> [inum |-> i + 1, name |-> files[i].name]]
      node(type, d) == [NoInode EXCEPT !.type = type, !.nlink = 1, !.data = d, !.nblk = Len(d)]
  IN  [i \in 1..NINODES |-> IF i = ROOTINO THEN node(T_DIR, root)
                           ELSE IF i <= Len(files) + 1 THEN node(T_FILE, files[i - 1].data)
                           ELSE NoInode]
Blocks(inode) == FoldFunction(LAMBDA n, sum : n.nblk + sum, 0, inode)

Machine(j) ==
  LET inode == mkfs(j.files)
  IN  [ftable |-> [f \in 1..NFILE |-> NoFile], pipe |-> [p \in 1..NPIPE |-> NoPipe],
       inode |-> [inode EXCEPT ![ROOTINO].ref = 1], bfree |-> FSBLOCKS - Blocks(inode),
       free |-> j.npages - 1 - IMAGE, nextpid |-> 2, input |-> j.lines]

Init ==
  /\ job \in Jobs
  /\ kern = Machine(job)
  /\ proc = [s \in 1..job.nproc |->
               IF s = 1 THEN Started([NoProc EXCEPT !.state = "RUNNABLE", !.pid = 1, !.cwd = ROOTINO],
                                     "init", <<"init">>)
               ELSE NoProc]

Live == {s \in DOMAIN proc : proc[s].state # "UNUSED"}
\* Only init, which waits, and a shell, which has nothing to read, are left
Quiet ==
  /\ kern.input = << >>
  /\ Cardinality(Live) = 2
  /\ \A s \in Live : proc[s].state = "RUNNABLE" /\ C(s)[1] \in {"wait", "getcmd"}

\* scheduler() goes round the process table: some process moves, as long as
\* there is one that can
AtRest == \A s \in Live : proc[s].state = "RUNNABLE" => Asleep(s)
Spec == Init /\ [][Next]_vars /\ ([]<>AtRest \/ []<><<TRUE>>_vars)

-----------------------------------------------------------------------------
(***************************************************************************)
(* No program meets a result it complains about: whatever the order in     *)
(* which the processes make their calls, every test of usertests.c passes  *)
(* and init, the shell and grind find nothing wrong.                       *)
(***************************************************************************)
NoComplaint == \A s \in Live : proc[s].state = "RUNNABLE" => C(s) # complain

(***************************************************************************)
(* Every reference is counted: the count of an open file is the number of  *)
(* descriptors for it, that of an inode the number of open files and       *)
(* current directories, its links are the names it has, and an end of a    *)
(* pipe is open as long as there is a file for it.                         *)
(***************************************************************************)
Uses(S, P(_)) == Cardinality({x \in S : P(x)})
RefsCounted ==
  LET fds == Live \X (0..NOFILE - 1)
      used == {f \in 1..NFILE : kern.ftable[f].ref > 0}
      dirs == {d \in DOMAIN kern.inode : kern.inode[d].type = T_DIR}
      names == UNION {{<<d, j>> : j \in 3..Len(kern.inode[d].data)} : d \in dirs}
  IN  /\ \A f \in 1..NFILE :
           kern.ftable[f].ref = Uses(fds, LAMBDA x : proc[x[1]].ofile[x[2]] = f)
      /\ \A i \in DOMAIN kern.inode :
           LET n == kern.inode[i]
           IN  /\ n.ref = Uses(used, LAMBDA f : kern.ftable[f].type # "PIPE" /\ kern.ftable[f].ip = i)
                           + Uses(Live, LAMBDA s : proc[s].cwd = i)
               /\ n.type # 0 => n.ref + n.nlink > 0
               /\ n.nlink = Uses(names, LAMBDA x : kern.inode[x[1]].data[x[2]].inum = i)
                             + (IF i = ROOTINO THEN 1 ELSE 0)
                             + (IF i \in dirs THEN Uses(names, LAMBDA x :
                                  x[1] = i /\ kern.inode[i].data[x[2]].inum \in dirs) ELSE 0)
      /\ \A p \in 1..NPIPE : \A w \in BOOLEAN :
           (IF w THEN kern.pipe[p].writeopen ELSE kern.pipe[p].readopen)
             <=> \E f \in used : /\ kern.ftable[f].type = "PIPE" /\ kern.ftable[f].ip = p
                                 /\ kern.ftable[f].writable = w

(***************************************************************************)
(* No page and no block is lost or given out twice: the free ones, those   *)
(* of the processes and pipes, and those of the files add up.              *)
(***************************************************************************)
NothingLost ==
  /\ kern.free >= 0 /\ kern.bfree >= 0
  /\ kern.free + Uses(1..NPIPE, LAMBDA p : kern.pipe[p] # NoPipe)
     + MapThenSumSet(LAMBDA s : 1 + Pages(proc[s].sz), Live) = job.npages
  /\ kern.bfree + Blocks(kern.inode) = FSBLOCKS

(***************************************************************************)
(* Every job ends, whatever its processes wait for: a child's exit, bytes  *)
(* or room in a pipe, a page or a slot another process holds.  Then only   *)
(* init and the shell are left, with the console as their only open file,  *)
(* and the files the job was to make are there.                            *)
(***************************************************************************)
WorkDone ==
  \A f \in DOMAIN job.leaves :
    LET i == dirlookup(kern, ROOTINO, f) IN i # 0 /\ kern.inode[i].data = job.leaves[f]
JobsEnd ==
  <>[](Quiet /\ WorkDone /\ \A f \in 1..NFILE : kern.ftable[f].ref > 0 => kern.ftable[f].type = "DEVICE")
=============================================================================
