-------------------------------- MODULE Pipe --------------------------------
(***************************************************************************)
(* A pipe (pipe.c), the two files that refer to it (file.c: fileclose,     *)
(* filedup) and the processes that share them through fork(): several      *)
(* readers and writers, counters that wrap around, ends closed while       *)
(* others use them, processes killed anywhere, and the page of the pipe    *)
(* given back and used for a new one.                                      *)
(*                                                                         *)
(* The loops run under pi->lock, one turn per step.  killed(), which takes *)
(* another lock, and the rest of the turn are separate steps, so a kill    *)
(* may come between them.  sleep() releases the lock and sleeps at once,   *)
(* which is what Sched shows of it.                                        *)
(***************************************************************************)
EXTENDS Naturals, Sequences, FiniteSets

CONSTANTS Proc, NoProc,
          Byte,
          PIPESIZE,
          W,            \* nread and nwrite are counted modulo W (2^32)
          MaxN          \* the largest count given to read() and write()

ASSUME PipeAssumption ==
    /\ IsFiniteSet(Proc) /\ NoProc \notin Proc
    /\ PIPESIZE \in Nat \ {0} /\ W \in Nat
    /\ W > PIPESIZE /\ W % PIPESIZE = 0
    /\ MaxN \in Nat

VARIABLES alive,                \* the page of the pipe is allocated
          data, nread, nwrite, readopen, writeopen,
          lock,                 \* who holds pi->lock
          ref,                  \* f->ref of the file of each end
          fds,                  \* the ends in p->ofile
          pc,
          left,                 \* n - i of read() or write()
          killed,
          closing,              \* why the process closes all it has: exit(),
                                \* or the error path of sys_pipe()
          cut                   \* not in the code: a killed writer has left
                                \* bytes behind

pipe == <<data, nread, nwrite, readopen, writeopen>>
files == <<ref, fds>>
vars == <<alive, pipe, lock, files, pc, left, killed, closing, cut>>

End == {"r", "w"}

\* pc of a process in pipewrite(), piperead() and pipeclose().
Writing == {"wlock", "wloop", "wput", "wsleep"}
Reading == {"rlock", "rloop", "rdoze", "rcopy", "rsleep"}
Closing == {"close_r", "close_w"}
Locked == {"wloop", "wput", "rloop", "rdoze", "rcopy"}

TypeOK ==
    /\ alive \in BOOLEAN
    /\ data \in [0 .. PIPESIZE - 1 -> Byte]
    /\ nread \in 0 .. W - 1 /\ nwrite \in 0 .. W - 1
    /\ readopen \in BOOLEAN /\ writeopen \in BOOLEAN
    /\ lock \in Proc \cup {NoProc}
    /\ ref \in [End -> 0 .. Cardinality(Proc)]
    /\ fds \in [Proc -> SUBSET End]
    /\ pc \in [Proc -> Writing \cup Reading \cup Closing \cup {"unused", "user"}]
    /\ left \in [Proc -> 0 .. MaxN]
    /\ killed \in [Proc -> BOOLEAN]
    /\ closing \in [Proc -> {"no", "exit", "abort"}]
    /\ cut \in BOOLEAN

Init ==
    /\ alive = FALSE
    /\ data \in [0 .. PIPESIZE - 1 -> Byte]
    /\ nread = 0 /\ nwrite = 0 /\ readopen = FALSE /\ writeopen = FALSE
    /\ lock = NoProc
    /\ ref = [e \in End |-> 0]
    /\ fds = [p \in Proc |-> {}]
    /\ \E p \in Proc : pc = [q \in Proc |-> IF q = p THEN "user" ELSE "unused"]
    /\ left = [p \in Proc |-> 0]
    /\ killed = [p \in Proc |-> FALSE]
    /\ closing = [p \in Proc |-> "no"]
    /\ cut = FALSE

\* pc once p has gone to l and wakeup(chan) has run, s being the pc of the
\* sleepers on chan and t where they take pi->lock again.
Wake(s, t, p, l) ==
    [q \in Proc |-> IF q = p THEN l ELSE IF pc[q] = s THEN t ELSE pc[q]]

\* A killed process exits when it comes back from the kernel.
Calls(p) == pc[p] = "user" /\ closing[p] = "no" /\ ~killed[p]

-----------------------------------------------------------------------------
(* Processes and files. *)

\* pipealloc().  Where it fails no pipe is left, as if it had not been called.
NewPipe ==
    /\ alive' = TRUE /\ readopen' = TRUE /\ writeopen' = TRUE
    /\ nread' = 0 /\ nwrite' = 0 /\ cut' = FALSE
    /\ ref' = [e \in End |-> 1]

\* sys_pipe().  When fdalloc() or copyout() fails the two files are closed.
SysPipe(p) ==
    /\ Calls(p) /\ ~alive /\ fds[p] = {}
    /\ NewPipe
    /\ fds' = [fds EXCEPT ![p] = End]
    /\ \E c \in {"no", "abort"} : closing' = [closing EXCEPT ![p] = c]
    /\ UNCHANGED <<data, lock, pc, left, killed>>

\* The reference counts after filedup() of the files of the ends in s.
Dup(s) == [e \in End |-> ref[e] + IF e \in s THEN 1 ELSE 0]

\* fork() gives the child every open file of its parent.
Fork(p, q) ==
    /\ Calls(p) /\ pc[q] = "unused"
    /\ pc' = [pc EXCEPT ![q] = "user"]
    /\ fds' = [fds EXCEPT ![q] = fds[p]]
    /\ ref' = Dup(fds[p])
    /\ UNCHANGED <<alive, pipe, lock, left, killed, closing, cut>>

\* exit() closes all the files, and then the slot is free.
Exit(p) ==
    /\ pc[p] = "user" /\ closing[p] = "no"
    /\ closing' = [closing EXCEPT ![p] = "exit"]
    /\ UNCHANGED <<alive, pipe, lock, files, pc, left, killed, cut>>

ClosedAll(p) ==
    /\ pc[p] = "user" /\ closing[p] # "no" /\ fds[p] = {}
    /\ closing' = [closing EXCEPT ![p] = "no"]
    /\ IF closing[p] = "exit"
       THEN /\ pc' = [pc EXCEPT ![p] = "unused"]
            /\ killed' = [killed EXCEPT ![p] = FALSE]
       ELSE UNCHANGED <<pc, killed>>
    /\ UNCHANGED <<alive, pipe, lock, files, left, cut>>

FileCloseEarly(p, e) ==                                         \* mutant
    /\ pc[p] = "user" /\ e \in fds[p]
    /\ Calls(p) \/ closing[p] # "no"
    /\ ref' = [ref EXCEPT ![e] = @ - 1]
    /\ fds' = [fds EXCEPT ![p] = @ \ {e}]
    /\ pc' = IF ref[e] > 2 THEN pc
             ELSE [pc EXCEPT ![p] = IF e = "r" THEN "close_r" ELSE "close_w"]
    /\ UNCHANGED <<alive, pipe, lock, left, killed, closing, cut>>

\* fileclose(), up to the release of ftable.lock: the last reference goes on
\* to pipeclose().
FileClose(p, e) ==
    /\ pc[p] = "user" /\ e \in fds[p]
    /\ Calls(p) \/ closing[p] # "no"
    /\ ref' = [ref EXCEPT ![e] = @ - 1]
    /\ fds' = [fds EXCEPT ![p] = @ \ {e}]
    /\ pc' = IF ref[e] > 1 THEN pc
             ELSE [pc EXCEPT ![p] = IF e = "r" THEN "close_r" ELSE "close_w"]
    /\ UNCHANGED <<alive, pipe, lock, left, killed, closing, cut>>

\* kill() marks the process and wakes it if it sleeps.
Kill(p) ==
    /\ pc[p] # "unused" /\ ~killed[p]
    /\ killed' = [killed EXCEPT ![p] = TRUE]
    /\ pc' = [pc EXCEPT ![p] = CASE @ = "rsleep" -> "rlock"
                                 [] @ = "wsleep" -> "wlock"
                                 [] OTHER -> @]
    /\ UNCHANGED <<alive, pipe, lock, files, left, closing, cut>>

-----------------------------------------------------------------------------
(* pipeclose() *)

PipeClose(p) ==
    /\ pc[p] \in Closing /\ lock = NoProc
    /\ IF pc[p] = "close_w"
       THEN /\ writeopen' = FALSE
            /\ pc' = Wake("rsleep", "rlock", p, "user")
            /\ UNCHANGED readopen
       ELSE /\ readopen' = FALSE
            /\ pc' = Wake("wsleep", "wlock", p, "user")
            /\ UNCHANGED writeopen
    /\ alive' = (readopen' \/ writeopen')
    /\ UNCHANGED <<data, nread, nwrite, lock, files, left, killed, closing, cut>>

-----------------------------------------------------------------------------
(* pipewrite() *)

Full == nwrite = (nread + PIPESIZE) % W
Empty == nread = nwrite

WriteCall(p) ==
    /\ Calls(p) /\ "w" \in fds[p]
    /\ \E n \in 0 .. MaxN : left' = [left EXCEPT ![p] = n]
    /\ pc' = [pc EXCEPT ![p] = "wlock"]
    /\ UNCHANGED <<alive, pipe, lock, files, killed, closing, cut>>

\* acquire(&pi->lock), at the start or at the end of sleep().
Acquire(p) ==
    /\ pc[p] \in {"wlock", "rlock"} /\ lock = NoProc
    /\ lock' = p
    /\ pc' = [pc EXCEPT ![p] = IF @ = "wlock" THEN "wloop" ELSE "rloop"]
    /\ UNCHANGED <<alive, pipe, files, left, killed, closing, cut>>

\* No reader is left, or the writer has been killed: write() returns -1.
WriteLeave(p) ==
    /\ pc[p] = "wloop" /\ left[p] > 0
    /\ ~readopen \/ killed[p]
    /\ lock' = NoProc
    /\ pc' = [pc EXCEPT ![p] = "user"]
    /\ left' = [left EXCEPT ![p] = 0]
    /\ cut' = (cut \/ (readopen /\ ~Empty))
    /\ UNCHANGED <<alive, pipe, files, killed, closing>>

WriteOn(p) ==
    /\ pc[p] = "wloop" /\ left[p] > 0
    /\ readopen /\ ~killed[p]
    /\ pc' = [pc EXCEPT ![p] = "wput"]
    /\ UNCHANGED <<alive, pipe, lock, files, left, killed, closing, cut>>

WriteSleep(p) ==
    /\ pc[p] = "wput" /\ Full
    /\ pc' = Wake("rsleep", "rlock", p, "wsleep")
    /\ lock' = NoProc
    /\ UNCHANGED <<alive, pipe, files, left, killed, closing, cut>>

WritePutLate(p, b) ==                                           \* mutant
    /\ pc[p] = "wput" /\ nwrite # (nread + PIPESIZE + 1) % W
    /\ data' = [data EXCEPT ![nwrite % PIPESIZE] = b]
    /\ nwrite' = (nwrite + 1) % W
    /\ left' = [left EXCEPT ![p] = @ - 1]
    /\ pc' = [pc EXCEPT ![p] = "wloop"]
    /\ UNCHANGED <<alive, nread, readopen, writeopen, lock, files, killed, closing, cut>>

WritePut(p, b) ==
    /\ pc[p] = "wput" /\ ~Full
    /\ data' = [data EXCEPT ![nwrite % PIPESIZE] = b]
    /\ nwrite' = (nwrite + 1) % W
    /\ left' = [left EXCEPT ![p] = @ - 1]
    /\ pc' = [pc EXCEPT ![p] = "wloop"]
    /\ UNCHANGED <<alive, nread, readopen, writeopen, lock, files, killed, closing, cut>>

\* All is written, or copyin() fails and the loop breaks.
WriteDone(p) ==
    /\ \/ pc[p] = "wloop" /\ left[p] = 0
       \/ pc[p] = "wput" /\ ~Full
    /\ pc' = Wake("rsleep", "rlock", p, "user")
    /\ lock' = NoProc
    /\ left' = [left EXCEPT ![p] = 0]
    /\ UNCHANGED <<alive, pipe, files, killed, closing, cut>>

-----------------------------------------------------------------------------
(* piperead() *)

ReadCall(p) ==
    /\ Calls(p) /\ "r" \in fds[p]
    /\ \E n \in 0 .. MaxN : left' = [left EXCEPT ![p] = n]
    /\ pc' = [pc EXCEPT ![p] = "rlock"]
    /\ UNCHANGED <<alive, pipe, lock, files, killed, closing, cut>>

\* The pipe is empty and the reader has been killed: read() returns -1.
ReadLeave(p) ==
    /\ pc[p] = "rloop" /\ Empty /\ writeopen /\ killed[p]
    /\ lock' = NoProc
    /\ pc' = [pc EXCEPT ![p] = "user"]
    /\ left' = [left EXCEPT ![p] = 0]
    /\ UNCHANGED <<alive, pipe, files, killed, closing, cut>>

ReadOn(p) ==
    /\ pc[p] = "rloop"
    /\ \/ Empty /\ writeopen /\ ~killed[p] /\ pc' = [pc EXCEPT ![p] = "rdoze"]
       \/ ~(Empty /\ writeopen) /\ pc' = [pc EXCEPT ![p] = "rcopy"]
    /\ UNCHANGED <<alive, pipe, lock, files, left, killed, closing, cut>>

ReadSleep(p) ==
    /\ pc[p] = "rdoze"
    /\ pc' = [pc EXCEPT ![p] = "rsleep"]
    /\ lock' = NoProc
    /\ UNCHANGED <<alive, pipe, files, left, killed, closing, cut>>

ReadCopy(p) ==
    /\ pc[p] = "rcopy" /\ left[p] > 0 /\ ~Empty
    /\ nread' = (nread + 1) % W
    /\ left' = [left EXCEPT ![p] = @ - 1]
    /\ UNCHANGED <<alive, data, nwrite, readopen, writeopen, lock, files, pc, killed, closing, cut>>

ReadDoneSilent(p) ==                                            \* mutant
    /\ pc[p] = "rcopy"
    /\ \/ (left[p] = 0 \/ Empty) /\ UNCHANGED nread
       \/ left[p] > 0 /\ ~Empty /\ nread' = (nread + 1) % W
    /\ pc' = [pc EXCEPT ![p] = "user"]
    /\ lock' = NoProc
    /\ left' = [left EXCEPT ![p] = 0]
    /\ UNCHANGED <<alive, data, nwrite, readopen, writeopen, files, killed, closing, cut>>

\* All is read, the pipe is empty, or copyout() fails after the byte has been
\* taken out.
ReadDone(p) ==
    /\ pc[p] = "rcopy"
    /\ \/ (left[p] = 0 \/ Empty) /\ UNCHANGED nread
       \/ left[p] > 0 /\ ~Empty /\ nread' = (nread + 1) % W
    /\ pc' = Wake("wsleep", "wlock", p, "user")
    /\ lock' = NoProc
    /\ left' = [left EXCEPT ![p] = 0]
    /\ UNCHANGED <<alive, data, nwrite, readopen, writeopen, files, killed, closing, cut>>

-----------------------------------------------------------------------------
\* The steps a process takes by itself once it is in the kernel.
Step(p) ==
    \/ ClosedAll(p) \/ PipeClose(p) \/ Acquire(p)
    \/ WriteLeave(p) \/ WriteOn(p) \/ WriteSleep(p) \/ WriteDone(p)
    \/ ReadLeave(p) \/ ReadOn(p) \/ ReadSleep(p) \/ ReadCopy(p) \/ ReadDone(p)
    \/ \E b \in Byte : WritePut(p, b)

Next ==
    \/ \E p \in Proc :
          \/ SysPipe(p) \/ Exit(p) \/ Kill(p) \/ WriteCall(p) \/ ReadCall(p)
          \/ \E q \in Proc : Fork(p, q)
          \/ \E e \in End : FileClose(p, e)
          \/ Step(p)

Safety == Init /\ [][Next]_vars

-----------------------------------------------------------------------------
(* Properties *)

Count == (nwrite + W - nread) % W

Stream == INSTANCE ByteStream WITH
    Capacity <- PIPESIZE,
    queue <- [i \in 1 .. Count |-> data[(nread + i - 1) % PIPESIZE]],
    ropen <- readopen, wopen <- writeopen

\* The bytes come out once, in the order in which they went in, across the
\* wraparound of the buffer and of nread and nwrite, and none goes in once the
\* read end is closed (pipe.c:76-130).
PipeIsFifo == Stream!Spec

\* No process is in pipewrite(), piperead() or pipeclose() of a pipe whose page
\* has been freed, however the last closes of the two ends interleave with
\* reads, writes and forks (pipe.c:69-71, file.c:59-83).
NoUseAfterFree ==
    \A p \in Proc : pc[p] \in Writing \cup Reading \cup Closing => alive

\* f->ref counts the descriptors, and an end is open as long as a descriptor
\* or a close in progress refers to it (file.c:47-83).
RefsMatch ==
    /\ \A e \in End : ref[e] = Cardinality({p \in Proc : e \in fds[p]})
    /\ readopen <=> ref["r"] > 0 \/ \E p \in Proc : pc[p] = "close_r"
    /\ writeopen <=> ref["w"] > 0 \/ \E p \in Proc : pc[p] = "close_w"

\* A writer that sleeps has a reader to wait for, and the pipe is full unless a
\* reader that will wake it holds the lock (pipe.c:88-90, 127).
WriterSleepsOnlyFull ==
    \A p \in Proc : pc[p] = "wsleep" =>
        readopen /\ (Full \/ (lock # NoProc /\ pc[lock] = "rcopy"))

\* A reader that sleeps has a writer to wait for, and the pipe is empty unless
\* a writer that will wake it holds the lock, or one was killed in the middle of
\* its write and left without a wakeup (pipe.c:84-87, 99, 113).
ReaderSleepsOnlyEmpty ==
    \A p \in Proc : pc[p] = "rsleep" =>
        /\ writeopen
        /\ Empty \/ cut \/ (lock # NoProc /\ pc[lock] \in {"wloop", "wput"})

\* A killed process does not sleep in a pipe: pipewrite() and piperead() test
\* killed() before they sleep, and kill() wakes the ones that do
\* (proc.c:604-607, "Wake process from sleep().").
KilledNotAsleep == \A p \in Proc : killed[p] => pc[p] \notin {"rsleep", "wsleep"}

\* pi->lock is held exactly by a process inside a loop, which never leaves it
\* locked (pipe.c:76-130).
LockHeldInside == \A p \in Proc : pc[p] \in Locked <=> lock = p

\* The pipe's page, ends, references and lock agree: it is freed once, when no
\* process can reach it any more.
EndsAccounted == TypeOK /\ RefsMatch /\ NoUseAfterFree /\ LockHeldInside

\* Whoever sleeps in a pipe has something to wait for.
NoSleeperForgotten == WriterSleepsOnlyFull /\ ReaderSleepsOnlyEmpty
=============================================================================
