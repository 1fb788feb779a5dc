------------------------------- MODULE Sched -------------------------------
(***************************************************************************)
(* Context switches, sleep and wakeup (kernel/proc.c) with the spin locks  *)
(* and the nested disabling of interrupts they rest on (kernel/spinlock.c),*)
(* on several harts.                                                       *)
(*                                                                         *)
(* The processes wait for a device the way every driver and pipe of the    *)
(* kernel does: under the lock lk, while the result is not ready, sleep()  *)
(* on the channel of lk; the interrupt handler sets ready and wakes the    *)
(* channel up.  Timer interrupts make processes yield, and processes kill  *)
(* each other.                                                             *)
(*                                                                         *)
(* acquire() is one step, taken when the lock is free: a handler that runs *)
(* before push_off() runs before the step.  A section that only holds      *)
(* p->lock and touches nothing else is one step too.                       *)
(***************************************************************************)
EXTENDS Integers, FiniteSets

CONSTANTS Hart, NPROC,
          None           \* no hart, no process; as a thread: the scheduler

ASSUME SchedAssumption == NPROC \in Nat /\ None \notin Hart /\ None \notin 1 .. NPROC

Proc == 1 .. NPROC

VARIABLES state, chan, killed,    \* struct proc; chan: asleep on lk's channel
          pc, trap, saved,        \* a process's kernel thread: position, timer
                                  \* trap it is in, sched()'s local intena
          plock, lk,              \* p->lock and lk: the hart that holds it
          ready,                  \* what the processes wait for
          thread, cproc,          \* a hart: whose stack it is on, and c->proc
          spc, idx, found,        \* its scheduler thread: position, p, found
          hpc, widx,              \* its device interrupt: position, wakeup's p
          intr, noff, intena      \* interrupts enabled, c->noff, c->intena

procs == <<state, chan, killed, pc, trap, saved>>
locks == <<plock, lk>>
harts == <<thread, cproc, spc, idx, found, hpc, widx>>
ints  == <<intr, noff, intena>>
vars  == <<procs, locks, ready, harts, ints>>

TypeOK ==
    /\ state \in [Proc -> {"RUNNABLE", "RUNNING", "SLEEPING", "ZOMBIE"}]
    /\ chan \in [Proc -> BOOLEAN] /\ killed \in [Proc -> BOOLEAN]
    /\ pc \in [Proc -> {"user", "acq", "test", "giveup", "sleep1", "sleep2",
                        "sleep3", "sleep4", "exit", "zombie"}]
    /\ trap \in [Proc -> {"no", "yield", "yielded"}] /\ saved \in [Proc -> BOOLEAN]
    /\ plock \in [Proc -> Hart \cup {None}] /\ lk \in Hart \cup {None}
    /\ ready \in BOOLEAN
    /\ thread \in [Hart -> Proc \cup {None}] /\ cproc \in [Hart -> Proc \cup {None}]
    /\ spc \in [Hart -> {"top", "scan", "switched", "wfi"}]
    /\ idx \in [Hart -> 1 .. NPROC + 1] /\ found \in [Hart -> BOOLEAN]
    /\ hpc \in [Hart -> {"no", "acq", "wake"}] /\ widx \in [Hart -> 1 .. NPROC + 1]
    /\ intr \in [Hart -> BOOLEAN] /\ intena \in [Hart -> BOOLEAN]
    /\ noff \in [Hart -> 0 .. 3]

\* The processes exist and have never run: they are RUNNABLE, and are to
\* resume as in yield() (fork's forkret releases p->lock in the same way).
\* Every hart enters scheduler().
Init ==
    /\ state = [p \in Proc |-> "RUNNABLE"]
    /\ chan = [p \in Proc |-> FALSE] /\ killed = [p \in Proc |-> FALSE]
    /\ pc = [p \in Proc |-> "user"] /\ trap = [p \in Proc |-> "yielded"]
    /\ saved = [p \in Proc |-> FALSE]
    /\ plock = [p \in Proc |-> None] /\ lk = None /\ ready = FALSE
    /\ thread = [h \in Hart |-> None] /\ cproc = [h \in Hart |-> None]
    /\ spc = [h \in Hart |-> "top"] /\ idx = [h \in Hart |-> 1]
    /\ found = [h \in Hart |-> FALSE]
    /\ hpc = [h \in Hart |-> "no"] /\ widx = [h \in Hart |-> 1]
    /\ intr = [h \in Hart |-> FALSE] /\ noff = [h \in Hart |-> 0]
    /\ intena = [h \in Hart |-> FALSE]

-----------------------------------------------------------------------------
(* spinlock.c *)

push_off(h) ==
    /\ intr' = [intr EXCEPT ![h] = FALSE]
    /\ intena' = IF noff[h] = 0 THEN [intena EXCEPT ![h] = intr[h]] ELSE intena
    /\ noff' = [noff EXCEPT ![h] = @ + 1]

pop_off(h) ==
    /\ noff' = [noff EXCEPT ![h] = @ - 1]
    /\ intr' = [intr EXCEPT ![h] = noff[h] = 1 /\ intena[h]]
    /\ UNCHANGED intena

acquire_lk(h) == lk = None /\ lk' = h /\ push_off(h)
release_lk(h) == lk' = None /\ pop_off(h)

acquire(h, p) ==
    /\ plock[p] = None
    /\ plock' = [plock EXCEPT ![p] = h]
    /\ push_off(h)

release(h, p) ==
    /\ plock' = [plock EXCEPT ![p] = None]
    /\ pop_off(h)

-----------------------------------------------------------------------------
(* A process, on the hart h that runs its kernel thread. *)

At(h, p, l) == thread[h] = p /\ hpc[h] = "no" /\ trap[p] = "no" /\ pc[p] = l

Goto(p, l) == pc' = [pc EXCEPT ![p] = l]

\* A system call; usertrap() has checked killed().
Read(h, p) ==
    /\ At(h, p, "user") /\ ~killed[p]
    /\ Goto(p, "acq")
    /\ UNCHANGED <<state, chan, killed, trap, saved, locks, ready, harts, ints>>

AcquireLk(h, p) ==
    /\ At(h, p, "acq")
    /\ acquire_lk(h)
    /\ Goto(p, "test")
    /\ UNCHANGED <<state, chan, killed, trap, saved, plock, ready, harts>>

TestReady(h, p) ==
    /\ At(h, p, "test") /\ ready
    /\ ready' = FALSE
    /\ release_lk(h)
    /\ Goto(p, "user")
    /\ UNCHANGED <<state, chan, killed, trap, saved, plock, harts>>

\* Not ready: killed(p) takes and releases p->lock, then sleep() or give up.
TestKilled(h, p) ==
    /\ At(h, p, "test") /\ ~ready
    /\ plock[p] = None
    /\ Goto(p, IF killed[p] THEN "giveup" ELSE "sleep1")
    /\ UNCHANGED <<state, chan, killed, trap, saved, locks, ready, harts, ints>>

\* The call returns an error, and usertrap() finds the process killed.
GiveUp(h, p) ==
    /\ At(h, p, "giveup")
    /\ release_lk(h)
    /\ Goto(p, "exit")
    /\ UNCHANGED <<state, chan, killed, trap, saved, plock, ready, harts>>

\* sleep(): acquire(&p->lock),
SleepLock(h, p) ==
    /\ At(h, p, "sleep1")
    /\ acquire(h, p)
    /\ Goto(p, "sleep2")
    /\ UNCHANGED <<state, chan, killed, trap, saved, lk, ready, harts>>

\* then release(lk),
SleepRelease(h, p) ==
    /\ At(h, p, "sleep2")
    /\ release_lk(h)
    /\ Goto(p, "sleep3")
    /\ UNCHANGED <<state, chan, killed, trap, saved, plock, ready, harts>>

\* sched(): save intena and swtch to the scheduler's stack.
sched(h, p) ==
    /\ saved' = [saved EXCEPT ![p] = intena'[h]]
    /\ thread' = [thread EXCEPT ![h] = None]
    /\ UNCHANGED <<cproc, spc, idx, found, hpc, widx>>

\* then go to sleep.
Sleep(h, p) ==
    /\ At(h, p, "sleep3")
    /\ chan' = [chan EXCEPT ![p] = TRUE]
    /\ state' = [state EXCEPT ![p] = "SLEEPING"]
    /\ UNCHANGED <<killed, trap, locks, ready, ints>>
    /\ sched(h, p)
    /\ Goto(p, "sleep4")

\* sched() returns, on any hart: intena is restored (and the local variable
\* that held it is gone), and p->lock is released.
Return(h, p) ==
    /\ plock' = [plock EXCEPT ![p] = None]
    /\ intena' = [intena EXCEPT ![h] = saved[p]]
    /\ saved' = [saved EXCEPT ![p] = FALSE]
    /\ noff' = [noff EXCEPT ![h] = @ - 1]
    /\ intr' = [intr EXCEPT ![h] = noff[h] = 1 /\ saved[p]]

\* The end of sleep(), on its way to acquire(lk).
Awake(h, p) ==
    /\ At(h, p, "sleep4")
    /\ chan' = [chan EXCEPT ![p] = FALSE]
    /\ Return(h, p)
    /\ Goto(p, "acq")
    /\ UNCHANGED <<state, killed, trap, lk, ready, harts>>

\* kill(q): the loop takes one p->lock after the other.
Kill(h, p, q) ==
    /\ At(h, p, "user") /\ plock[q] = None
    /\ killed' = [killed EXCEPT ![q] = TRUE]
    /\ state' = IF state[q] = "SLEEPING" THEN [state EXCEPT ![q] = "RUNNABLE"] ELSE state
    /\ UNCHANGED <<chan, pc, trap, saved, locks, ready, harts, ints>>

\* usertrap() finds the process killed.
Killed(h, p) ==
    /\ At(h, p, "user") /\ killed[p]
    /\ Goto(p, "exit")
    /\ UNCHANGED <<state, chan, killed, trap, saved, locks, ready, harts, ints>>

\* The end of exit(): ZOMBIE, and sched() never returns.
Exit(h, p) ==
    /\ At(h, p, "exit")
    /\ acquire(h, p)
    /\ state' = [state EXCEPT ![p] = "ZOMBIE"]
    /\ sched(h, p)
    /\ Goto(p, "zombie")
    /\ UNCHANGED <<chan, killed, trap, lk, ready>>

\* A timer interrupt comes when interrupts are enabled, and disables them.
TimerTrap(h, p) ==
    /\ thread[h] = p /\ hpc[h] = "no" /\ trap[p] = "no" /\ intr[h]
    /\ trap' = [trap EXCEPT ![p] = "yield"]
    /\ intr' = [intr EXCEPT ![h] = FALSE]
    /\ UNCHANGED <<state, chan, killed, pc, saved, locks, ready, harts, noff, intena>>

\* yield()
Yield(h, p) ==
    /\ thread[h] = p /\ trap[p] = "yield"
    /\ acquire(h, p)
    /\ state' = [state EXCEPT ![p] = "RUNNABLE"]
    /\ sched(h, p)
    /\ trap' = [trap EXCEPT ![p] = "yielded"]
    /\ UNCHANGED <<chan, killed, pc, lk, ready>>

\* Back in yield(): release p->lock; sret then enables interrupts again.
YieldReturn(h, p) ==
    /\ thread[h] = p /\ trap[p] = "yielded"
    /\ plock' = [plock EXCEPT ![p] = None]
    /\ intena' = [intena EXCEPT ![h] = saved[p]]
    /\ saved' = [saved EXCEPT ![p] = FALSE]
    /\ noff' = [noff EXCEPT ![h] = @ - 1]
    /\ intr' = [intr EXCEPT ![h] = TRUE]
    /\ trap' = [trap EXCEPT ![p] = "no"]
    /\ UNCHANGED <<state, chan, killed, pc, lk, ready, harts>>

-----------------------------------------------------------------------------
(* scheduler() of hart h. *)

Scheduling(h, l) == thread[h] = None /\ hpc[h] = "no" /\ spc[h] = l

\* The outer loop: intr_on(), and the scan starts over.
SchedTop(h) ==
    /\ Scheduling(h, "top")
    /\ intr' = [intr EXCEPT ![h] = TRUE]
    /\ idx' = [idx EXCEPT ![h] = 1] /\ found' = [found EXCEPT ![h] = FALSE]
    /\ spc' = [spc EXCEPT ![h] = "scan"]
    /\ UNCHANGED <<procs, locks, ready, thread, cproc, hpc, widx, noff, intena>>

SchedRunAny(h) ==                                               \* mutant
    /\ Scheduling(h, "scan") /\ idx[h] <= NPROC
    /\ acquire(h, idx[h])
    /\ state[idx[h]] \in {"RUNNABLE", "RUNNING"}
    /\ state' = [state EXCEPT ![idx[h]] = "RUNNING"]
    /\ cproc' = [cproc EXCEPT ![h] = idx[h]]
    /\ thread' = [thread EXCEPT ![h] = idx[h]]
    /\ spc' = [spc EXCEPT ![h] = "switched"]
    /\ UNCHANGED <<chan, killed, pc, trap, saved, lk, ready, idx, found, hpc, widx>>

\* p is RUNNABLE: the scheduler acquires p->lock and switches to p, holding it.
SchedRun(h) ==
    /\ Scheduling(h, "scan") /\ idx[h] <= NPROC
    /\ acquire(h, idx[h])
    /\ state[idx[h]] = "RUNNABLE"
    /\ state' = [state EXCEPT ![idx[h]] = "RUNNING"]
    /\ cproc' = [cproc EXCEPT ![h] = idx[h]]
    /\ thread' = [thread EXCEPT ![h] = idx[h]]
    /\ spc' = [spc EXCEPT ![h] = "switched"]
    /\ UNCHANGED <<chan, killed, pc, trap, saved, lk, ready, idx, found, hpc, widx>>

\* p is not RUNNABLE: acquire and release its lock, and look at the next one.
SchedSkip(h) ==
    /\ Scheduling(h, "scan") /\ idx[h] <= NPROC
    /\ plock[idx[h]] = None /\ state[idx[h]] # "RUNNABLE"
    /\ idx' = [idx EXCEPT ![h] = @ + 1]
    /\ UNCHANGED <<procs, locks, ready, thread, cproc, spc, found, hpc, widx, ints>>

\* The process has switched back: release its lock.
SchedBack(h) ==
    /\ Scheduling(h, "switched")
    /\ cproc' = [cproc EXCEPT ![h] = None]
    /\ found' = [found EXCEPT ![h] = TRUE]
    /\ release(h, idx[h])
    /\ idx' = [idx EXCEPT ![h] = @ + 1]
    /\ spc' = [spc EXCEPT ![h] = "scan"]
    /\ UNCHANGED <<procs, lk, ready, thread, hpc, widx>>

\* The end of the scan: again, or wait for an interrupt.
SchedEnd(h) ==
    /\ Scheduling(h, "scan") /\ idx[h] > NPROC
    /\ spc' = [spc EXCEPT ![h] = IF found[h] THEN "top" ELSE "wfi"]
    /\ intr' = [intr EXCEPT ![h] = @ \/ ~found[h]]
    /\ UNCHANGED <<procs, locks, ready, thread, cproc, idx, found, hpc, widx, noff, intena>>

\* A timer interrupt ends wfi (with no process there is no yield).
TimerWake(h) ==
    /\ Scheduling(h, "wfi") /\ intr[h]
    /\ spc' = [spc EXCEPT ![h] = "top"]
    /\ UNCHANGED <<procs, locks, ready, thread, cproc, idx, found, hpc, widx, ints>>

-----------------------------------------------------------------------------
(* A device interrupt on hart h, on top of the process or the scheduler. *)

DevIntr(h) ==
    /\ intr[h] /\ hpc[h] = "no"
    /\ intr' = [intr EXCEPT ![h] = FALSE]
    /\ hpc' = [hpc EXCEPT ![h] = "acq"]
    /\ spc' = [spc EXCEPT ![h] = IF thread[h] = None /\ @ = "wfi" THEN "top" ELSE @]
    /\ UNCHANGED <<procs, locks, ready, thread, cproc, idx, found, widx, noff, intena>>

DevReady(h) ==
    /\ hpc[h] = "acq"
    /\ acquire_lk(h)
    /\ ready' = TRUE
    /\ hpc' = [hpc EXCEPT ![h] = "wake"] /\ widx' = [widx EXCEPT ![h] = 1]
    /\ UNCHANGED <<procs, plock, thread, cproc, spc, idx, found>>

wakeup_trylock(h) ==                                            \* mutant
    /\ hpc[h] = "wake" /\ widx[h] <= NPROC
    /\ LET q == widx[h] IN
       state' = IF plock[q] = None /\ state[q] = "SLEEPING" /\ chan[q]
                THEN [state EXCEPT ![q] = "RUNNABLE"] ELSE state
    /\ widx' = [widx EXCEPT ![h] = @ + 1]
    /\ UNCHANGED <<chan, killed, pc, trap, saved, locks, ready, thread, cproc, spc, idx, found,
                   hpc, ints>>

\* One turn of wakeup(): p # myproc(), acquire(&p->lock), test and release.
wakeup(h) ==
    /\ hpc[h] = "wake" /\ widx[h] <= NPROC
    /\ LET q == widx[h] IN
       /\ q = cproc[h] \/ plock[q] = None
       /\ state' = IF q # cproc[h] /\ state[q] = "SLEEPING" /\ chan[q]
                   THEN [state EXCEPT ![q] = "RUNNABLE"] ELSE state
    /\ widx' = [widx EXCEPT ![h] = @ + 1]
    /\ UNCHANGED <<chan, killed, pc, trap, saved, locks, ready, thread, cproc, spc, idx, found,
                   hpc, ints>>

\* release(lk), and sret enables interrupts again.
DevReturn(h) ==
    /\ hpc[h] = "wake" /\ widx[h] > NPROC
    /\ lk' = None
    /\ noff' = [noff EXCEPT ![h] = @ - 1]
    /\ intr' = [intr EXCEPT ![h] = TRUE]
    /\ hpc' = [hpc EXCEPT ![h] = "no"] /\ widx' = [widx EXCEPT ![h] = 1]
    /\ UNCHANGED <<procs, plock, ready, thread, cproc, spc, idx, found, intena>>

-----------------------------------------------------------------------------

ProcStep(h, p) ==
    \/ AcquireLk(h, p) \/ TestReady(h, p) \/ TestKilled(h, p) \/ GiveUp(h, p)
    \/ SleepLock(h, p) \/ SleepRelease(h, p) \/ Sleep(h, p) \/ Awake(h, p)
    \/ Killed(h, p) \/ Exit(h, p) \/ Yield(h, p) \/ YieldReturn(h, p)

SchedStep(h) == SchedTop(h) \/ SchedRun(h) \/ SchedSkip(h) \/ SchedBack(h) \/ SchedEnd(h)

HandlerStep(h) == DevReady(h) \/ wakeup(h) \/ DevReturn(h)

Timer(h) == TimerWake(h) \/ \E p \in Proc : TimerTrap(h, p)

Next ==
    \E h \in Hart :
       \/ SchedStep(h) \/ HandlerStep(h) \/ Timer(h) \/ DevIntr(h)
       \/ \E p \in Proc : ProcStep(h, p) \/ Read(h, p)
       \/ \E p, q \in Proc : Kill(h, p, q)

Safety == Init /\ [][Next]_vars

-----------------------------------------------------------------------------
(* Properties. *)

\* The locks hart h holds.
Held(h) == {p \in Proc : plock[p] = h} \cup (IF lk = h THEN {None} ELSE {})

\* push_off() and pop_off() match: noff counts exactly the locks the hart
\* holds, although one thread acquires p->lock and another releases it and the
\* thread may have moved to another hart; and with a lock held no interrupt can
\* come (spinlock.c:84-110, proc.c:483-489).
NoffCountsLocks ==
    \A h \in Hart : noff[h] = Cardinality(Held(h)) /\ (intr[h] => noff[h] = 0)

\* The checks of acquire(), release(), pop_off() and sched() that panic
\* (spinlock.c:25, 49, 103-105, proc.c:496-503), at the steps that make them.
NoPanic ==
    \A h \in Hart :
       /\ hpc[h] = "acq" => lk # h
       /\ hpc[h] = "wake" =>
             lk = h /\ (widx[h] <= NPROC /\ widx[h] # cproc[h] => plock[widx[h]] # h)
       /\ Scheduling(h, "scan") /\ idx[h] <= NPROC => plock[idx[h]] # h
       /\ Scheduling(h, "switched") => plock[idx[h]] = h
       /\ \A p \in Proc : thread[h] = p =>
             /\ pc[p] \in {"test", "giveup", "sleep1", "sleep2"} => lk = h
             /\ trap[p] = "no" /\ pc[p] \in {"acq", "test", "sleep1", "exit"} => plock[p] # h
             /\ trap[p] = "no" /\ pc[p] \in {"sleep2", "sleep3", "sleep4"} => plock[p] = h
             /\ trap[p] = "no" /\ pc[p] = "sleep3" => noff[h] = 1 /\ ~intr[h]
             /\ hpc[h] = "no" /\ trap[p] = "no" /\ pc[p] = "exit" => noff[h] = 0
             /\ trap[p] = "yield" => plock[p] # h /\ noff[h] = 0 /\ ~intr[h]
             /\ trap[p] = "yielded" => plock[p] = h

\* A process's kernel stack is used by one hart at a time, and a process that
\* another hart may choose is no longer on any stack: p->lock is held until
\* the scheduler has left it (proc.c:453-469).
OneHartPerProcess ==
    /\ \A g, h \in Hart : thread[g] = thread[h] /\ thread[g] # None => g = h
    /\ \A h \in Hart : thread[h] # None => cproc[h] = thread[h]
    /\ \A p \in Proc : plock[p] = None =>
          (state[p] = "RUNNING" <=> \E h \in Hart : thread[h] = p)

\* No lost wakeup: a process asleep on the channel while the result is ready is
\* still ahead of a handler's wakeup loop (proc.c:551-556).
NoLostWakeup ==
    \A p \in Proc : state[p] = "SLEEPING" /\ ready =>
       \E h \in Hart : hpc[h] = "wake" /\ widx[h] <= p

\* A kernel thread gets its own interrupt setting back, whatever hart it
\* resumes on: outside critical sections and traps interrupts are enabled
\* (proc.c:484-489, "intena is a property of this kernel thread").
InterruptsRestored ==
    \A h \in Hart, p \in Proc :
       At(h, p, "user") \/ At(h, p, "acq") \/ At(h, p, "exit") => intr[h]

\* What a context switch must not disturb: locks, the nesting of push_off() and
\* the interrupts of every hart agree, no check panics, and no kernel stack is
\* used twice, although p->lock is taken in one thread and released in another.
SwitchesSafely ==
    TypeOK /\ NoffCountsLocks /\ InterruptsRestored /\ NoPanic /\ OneHartPerProcess
=============================================================================
