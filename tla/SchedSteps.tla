---------------------------- MODULE SchedSteps -----------------------------
(***************************************************************************)
(* The inductive invariant of Sched, and that every step a process takes   *)
(* keeps it.                                                               *)
(***************************************************************************)
EXTENDS Sched, TLAPS

\* Where a process can be interrupted.
Open == {"user", "acq", "exit"}

\* A hart in its scheduler, between processes, and one that runs process p.
Idle(h) == thread[h] = None /\ spc[h] # "switched" /\ cproc[h] = None
Runs(h, p) ==
    thread[h] = p /\ spc[h] = "switched" /\ idx[h] = p /\ cproc[h] = p /\ state[p] = "RUNNING"

\* The p->locks it holds: none, or that of p alone.
NoPlock(h) == \A q \in Proc : plock[q] # h
OnlyPlock(h, p) == \A q \in Proc : plock[q] = h <=> q = p

\* The states a hart is in, by the code it executes: in scheduler() without a
\* lock; in the device interrupt handler; in scheduler() just after a process
\* has switched back to it;
InScheduler(h) == Idle(h) /\ hpc[h] = "no" /\ NoPlock(h) /\ lk # h /\ noff[h] = 0
InHandler(h) ==
    /\ hpc[h] # "no" /\ ~intr[h] /\ NoPlock(h)
    /\ IF hpc[h] = "wake" THEN lk = h /\ noff[h] = 1 ELSE lk # h /\ noff[h] = 0
    /\ Idle(h) \/ \E p \in Proc : Runs(h, p) /\ trap[p] = "no" /\ pc[p] \in Open
SwitchedOff(h, p) ==
    /\ thread[h] = None /\ spc[h] = "switched" /\ idx[h] = p /\ cproc[h] = p /\ hpc[h] = "no"
    /\ ~intr[h] /\ noff[h] = 1 /\ OnlyPlock(h, p) /\ lk # h

\* ... or in a process: outside critical sections; at the start of a timer trap;
\* in yield() with p->lock; with lk; with lk and p->lock; with p->lock in sleep().
Outside(h, p) ==
    /\ Runs(h, p) /\ hpc[h] = "no" /\ trap[p] = "no" /\ pc[p] \in Open
    /\ intr[h] /\ noff[h] = 0 /\ NoPlock(h) /\ lk # h
InTimer(h, p) ==
    /\ Runs(h, p) /\ hpc[h] = "no" /\ trap[p] = "yield"
    /\ ~intr[h] /\ noff[h] = 0 /\ NoPlock(h) /\ lk # h
InYield(h, p) ==
    /\ Runs(h, p) /\ hpc[h] = "no" /\ trap[p] = "yielded"
    /\ ~intr[h] /\ noff[h] = 1 /\ OnlyPlock(h, p) /\ lk # h
WithLk(h, p) ==
    /\ Runs(h, p) /\ hpc[h] = "no" /\ trap[p] = "no" /\ pc[p] \in {"test", "giveup", "sleep1"}
    /\ ~intr[h] /\ intena[h] /\ noff[h] = 1 /\ NoPlock(h) /\ lk = h
WithBoth(h, p) ==
    /\ Runs(h, p) /\ hpc[h] = "no" /\ trap[p] = "no" /\ pc[p] = "sleep2"
    /\ ~intr[h] /\ intena[h] /\ noff[h] = 2 /\ OnlyPlock(h, p) /\ lk = h
InSleep(h, p) ==
    /\ Runs(h, p) /\ hpc[h] = "no" /\ trap[p] = "no" /\ pc[p] \in {"sleep3", "sleep4"}
    /\ ~intr[h] /\ (pc[p] = "sleep3" => intena[h]) /\ noff[h] = 1 /\ OnlyPlock(h, p) /\ lk # h

InProc(h, p) ==
    \/ SwitchedOff(h, p) \/ Outside(h, p) \/ InTimer(h, p) \/ InYield(h, p)
    \/ WithLk(h, p) \/ WithBoth(h, p) \/ InSleep(h, p)
HartInv(h) == InScheduler(h) \/ InHandler(h) \/ \E p \in Proc : InProc(h, p)

\* A process that runs is on the stack of one hart.
StackInv ==
    /\ \A g, h \in Hart : thread[g] = thread[h] /\ thread[g] # None => g = h
    /\ \A p \in Proc : state[p] = "RUNNING" => \E h \in Hart : thread[h] = p

\* Where a process can be that does not run, and where it can be in a trap.
Phase(p) ==
    /\ state[p] = "RUNNABLE" => trap[p] = "yielded" \/ (trap[p] = "no" /\ pc[p] = "sleep4")
    /\ state[p] = "SLEEPING" => trap[p] = "no" /\ pc[p] = "sleep4" /\ chan[p]
    /\ state[p] = "ZOMBIE" <=> pc[p] = "zombie"
    /\ trap[p] # "no" => pc[p] \in Open
    /\ pc[p] = "sleep4" => saved[p]

\* While a process is on its way to sleep with the result ready, the handler that
\* brought it has not come to the process yet.
WakeInv ==
    \A p \in Proc :
       /\ pc[p] \in {"sleep1", "sleep2"} => ~ready
       /\ ready /\ (pc[p] = "sleep3" \/ state[p] = "SLEEPING") =>
             \E g \in Hart : hpc[g] = "wake" /\ widx[g] <= p

\* The inductive invariant.
SchedInv ==
    TypeOK /\ StackInv /\ WakeInv /\ (\A h \in Hart : HartInv(h)) /\ \A p \in Proc : Phase(p)

-----------------------------------------------------------------------------
\* A step leaves hart g and the process on it alone.
Same(g) ==
    /\ thread'[g] = thread[g] /\ spc'[g] = spc[g] /\ idx'[g] = idx[g] /\ cproc'[g] = cproc[g]
    /\ hpc'[g] = hpc[g] /\ intr'[g] = intr[g] /\ noff'[g] = noff[g] /\ intena'[g] = intena[g]
    /\ lk' = g <=> lk = g
    /\ \A q \in Proc : plock'[q] = g <=> plock[q] = g

\* A step leaves process q alone.
SameProc(q) ==
    /\ state'[q] = state[q] /\ chan'[q] = chan[q] /\ pc'[q] = pc[q] /\ trap'[q] = trap[q]
    /\ saved'[q] = saved[q]

\* A step of p on hart h leaves the other harts and processes alone.
Frame(h, p) == (\A g \in Hart \ {h} : Same(g)) /\ \A q \in Proc \ {p} : SameProc(q)

\* None is neither a hart nor a process.
LEMMA NoneApart == None \notin Hart /\ None \notin Proc
  BY SchedAssumption DEF Proc

\* A hart that a step leaves alone, with the process on it, stays as it is.
LEMMA SameKeeps ==
  ASSUME NEW g \in Hart, Same(g), HartInv(g),
         \A q \in Proc : thread[g] = q =>
            state'[q] = state[q] /\ pc'[q] = pc[q] /\ trap'[q] = trap[q]
  PROVE  HartInv(g)'
<1>1. (NoPlock(g) => NoPlock(g)') /\ \A p \in Proc : OnlyPlock(g, p) => OnlyPlock(g, p)'
  BY DEF Same, NoPlock, OnlyPlock
<1>2. /\ Idle(g) => Idle(g)'
      /\ \A p \in Proc : Runs(g, p) => Runs(g, p)' /\ pc'[p] = pc[p] /\ trap'[p] = trap[p]
  BY DEF Same, Idle, Runs
<1>3. CASE InScheduler(g)
  BY <1>1, <1>2, <1>3 DEF Same, HartInv, InScheduler
<1>4. CASE InHandler(g)
  BY <1>1, <1>2, <1>4 DEF Same, HartInv, InHandler
<1>5. CASE \E p \in Proc : InProc(g, p)
  <2>1. PICK p \in Proc : InProc(g, p)
    BY <1>5
  <2>2. CASE SwitchedOff(g, p) \/ Outside(g, p) \/ InTimer(g, p)
    BY <1>1, <1>2, <2>2 DEF Same, HartInv, InProc, SwitchedOff, Outside, InTimer
  <2>3. CASE InYield(g, p) \/ WithLk(g, p)
    BY <1>1, <1>2, <2>3 DEF Same, HartInv, InProc, InYield, WithLk
  <2>4. CASE WithBoth(g, p) \/ InSleep(g, p)
    BY <1>1, <1>2, <2>4 DEF Same, HartInv, InProc, WithBoth, InSleep
  <2> QED
    BY <2>1, <2>2, <2>3, <2>4 DEF InProc
<1> QED
  BY <1>3, <1>4, <1>5 DEF HartInv

\* What the invariant says of a hart that runs process p.
LEMMA Running ==
  ASSUME SchedInv, NEW h \in Hart, NEW p \in Proc, thread[h] = p
  PROVE  /\ Phase(p) /\ Runs(h, p)
         /\ \/ InHandler(h) /\ trap[p] = "no" /\ pc[p] \in Open
            \/ Outside(h, p) \/ InTimer(h, p) \/ InYield(h, p)
            \/ WithLk(h, p) \/ WithBoth(h, p) \/ InSleep(h, p)
<1>1. HartInv(h) /\ Phase(p) /\ thread[h] # None
  BY NoneApart DEF SchedInv
<1>2. CASE InScheduler(h)
  BY <1>1, <1>2 DEF InScheduler, Idle
<1>3. CASE InHandler(h)
  BY <1>1, <1>3 DEF InHandler, Idle, Runs
<1>4. CASE \E q \in Proc : InProc(h, q)
  <2>1. PICK q \in Proc : InProc(h, q)
    BY <1>4
  <2>2. q = p /\ Runs(h, p)
    BY <1>1, <2>1 DEF InProc, SwitchedOff, Outside, InTimer, InYield, WithLk, WithBoth, InSleep, Runs
  <2>3. ~SwitchedOff(h, p)
    BY <1>1 DEF SwitchedOff
  <2> QED
    BY <1>1, <2>1, <2>2, <2>3 DEF InProc
<1> QED
  BY <1>1, <1>2, <1>3, <1>4 DEF HartInv

\* ... by the place p is at: outside critical sections,
LEMMA AtOpen ==
  ASSUME SchedInv, NEW h \in Hart, NEW p \in Proc, thread[h] = p, hpc[h] = "no", trap[p] = "no",
         pc[p] \in Open \/ intr[h]
  PROVE  Phase(p) /\ Outside(h, p)
  BY Running DEF InHandler, InTimer, InYield, WithLk, WithBoth, InSleep, Open

\* in a timer trap,
LEMMA AtTrap ==
  ASSUME SchedInv, NEW h \in Hart, NEW p \in Proc, thread[h] = p
  PROVE  /\ Phase(p)
         /\ trap[p] = "yield" => InTimer(h, p)
         /\ trap[p] = "yielded" => InYield(h, p)
  BY Running DEF Outside, InTimer, InYield, WithLk, WithBoth, InSleep

\* and in a critical section.
LEMMA AtLocked ==
  ASSUME SchedInv, NEW h \in Hart, NEW p \in Proc, thread[h] = p, hpc[h] = "no", trap[p] = "no"
  PROVE  /\ Phase(p)
         /\ pc[p] \in {"test", "giveup", "sleep1"} => WithLk(h, p)
         /\ pc[p] = "sleep2" => WithBoth(h, p)
         /\ pc[p] \in {"sleep3", "sleep4"} => InSleep(h, p)
  BY Running DEF InHandler, Outside, InTimer, InYield, WithLk, WithBoth, InSleep, Open

\* A step of the process p on hart h keeps the invariant if p stays on the hart
\* and is not told of a result on its way to sleep.
LEMMA ProcStepKeeps ==
  ASSUME SchedInv, NEW h \in Hart, NEW p \in Proc, thread[h] = p, Frame(h, p),
         TypeOK', InProc(h, p)', Phase(p)', UNCHANGED <<thread, state, hpc, widx>>,
         ready' => ready, pc'[p] \in {"sleep1", "sleep2", "sleep3"} => ~ready'
  PROVE  SchedInv'
<1>1. StackInv'
  BY DEF SchedInv, StackInv
<1>2. WakeInv'
  BY DEF SchedInv, WakeInv, Frame, SameProc
<1>3. ASSUME NEW g \in Hart PROVE HartInv(g)'
  <2>1. CASE g = h
    BY <2>1 DEF HartInv
  <2>2. CASE g # h
    <3>1. thread[g] # p
      BY <2>2, NoneApart DEF SchedInv, StackInv
    <3> QED
      BY <2>2, <3>1, SameKeeps DEF SchedInv, Frame, SameProc
  <2> QED
    BY <2>1, <2>2
<1>4. ASSUME NEW q \in Proc PROVE Phase(q)'
  BY DEF SchedInv, Frame, SameProc, Phase
<1> QED
  BY <1>1, <1>2, <1>3, <1>4 DEF SchedInv

\* A step in which p leaves hart h through sched() keeps the invariant.
LEMMA SwitchKeeps ==
  ASSUME SchedInv, NEW h \in Hart, NEW p \in Proc, thread[h] = p, Frame(h, p),
         TypeOK', SwitchedOff(h, p)', Phase(p)',
         state'[p] # "RUNNING", UNCHANGED <<hpc, widx, ready>>,
         pc'[p] \notin {"sleep1", "sleep2", "sleep3"}, state'[p] = "SLEEPING" => pc[p] = "sleep3"
  PROVE  SchedInv'
<1>1. thread'[h] = None /\ \A g \in Hart \ {h} : thread'[g] = thread[g] /\ thread[g] # p
  BY NoneApart DEF SwitchedOff, Frame, Same, SchedInv, StackInv
<1>2. StackInv'
  BY <1>1 DEF SchedInv, StackInv, Frame, SameProc
<1>3. WakeInv'
  BY DEF SchedInv, WakeInv, Frame, SameProc
<1>4. ASSUME NEW g \in Hart PROVE HartInv(g)'
  <2>1. CASE g = h
    BY <2>1 DEF HartInv, InProc
  <2>2. CASE g # h
    BY <1>1, <2>2, SameKeeps DEF SchedInv, Frame, SameProc
  <2> QED
    BY <2>1, <2>2
<1>5. ASSUME NEW q \in Proc PROVE Phase(q)'
  BY DEF SchedInv, Frame, SameProc, Phase
<1> QED
  BY <1>2, <1>3, <1>4, <1>5 DEF SchedInv

\* acquire(lk) in a system call (AcquireLk).
LEMMA AcquireLkKeeps ==
  ASSUME SchedInv, NEW h \in Hart, NEW p \in Proc, AcquireLk(h, p) PROVE SchedInv'
<1>1. Outside(h, p) /\ Phase(p)
  BY AtOpen DEF AcquireLk, At, Open
<1>2. /\ thread[h] = p /\ pc[p] = "acq" /\ lk = None
      /\ pc' = [pc EXCEPT ![p] = "test"]
      /\ lk' = h
      /\ noff' = [noff EXCEPT ![h] = 1]
      /\ intr' = [intr EXCEPT ![h] = FALSE]
      /\ intena' = [intena EXCEPT ![h] = TRUE]
      /\ UNCHANGED <<state, chan, killed, trap, saved, plock, ready, thread, cproc, spc,
                     idx, found, hpc, widx>>
  BY <1>1 DEF AcquireLk, At, Goto, harts, acquire_lk, push_off, Outside
<1>3. TypeOK'
  BY <1>2 DEF SchedInv, TypeOK
<1>4. Frame(h, p)
  BY <1>1, <1>2, NoneApart DEF SchedInv, TypeOK, Frame, Same, SameProc
<1>5. /\ thread'[h] = thread[h] /\ spc'[h] = spc[h] /\ idx'[h] = idx[h] /\ cproc'[h] = cproc[h]
      /\ hpc'[h] = hpc[h] /\ ~intr'[h] /\ noff'[h] = 1 /\ intena'[h]
      /\ state'[p] = state[p] /\ (chan'[p] <=> chan[p]) /\ pc'[p] = "test" /\ trap'[p] = trap[p] /\ (saved'[p] <=> saved[p])
      /\ lk' = h /\ (ready' <=> ready) /\ plock' = plock
  BY <1>2 DEF SchedInv, TypeOK
<1>6. WithLk(h, p)'
  BY <1>1, <1>5, NoneApart, Zenon DEF Outside, WithLk, Runs, NoPlock, OnlyPlock, Open
<1>7. Phase(p)'
  BY <1>1, <1>5, Zenon DEF Phase, Outside, Runs, Open
<1>8. pc'[p] \in {"sleep1", "sleep2", "sleep3"} => ~ready'
  BY <1>5, Zenon
<1> QED
  BY <1>2, <1>3, <1>4, <1>6, <1>7, <1>8, ProcStepKeeps DEF InProc

\* The result is there (TestReady).
LEMMA TestReadyKeeps ==
  ASSUME SchedInv, NEW h \in Hart, NEW p \in Proc, TestReady(h, p) PROVE SchedInv'
<1>1. WithLk(h, p) /\ Phase(p)
  BY AtLocked DEF TestReady, At
<1>2. /\ thread[h] = p /\ pc[p] = "test"
      /\ pc' = [pc EXCEPT ![p] = "user"]
      /\ lk' = None
      /\ ready' \in BOOLEAN /\ ~ready'
      /\ noff' = [noff EXCEPT ![h] = 0]
      /\ intr' = [intr EXCEPT ![h] = TRUE]
      /\ UNCHANGED <<state, chan, killed, trap, saved, plock, thread, cproc, spc, idx,
                     found, hpc, widx, intena>>
  <2>1. noff[h] - 1 = 0 /\ noff[h] = 1 /\ intena[h]
    BY <1>1 DEF WithLk
  <2> QED
    BY <2>1, Zenon DEF TestReady, At, Goto, harts, release_lk, pop_off
<1>3. TypeOK'
  BY <1>2 DEF SchedInv, TypeOK
<1>4. Frame(h, p)
  BY <1>1, <1>2, NoneApart DEF SchedInv, TypeOK, Frame, Same, SameProc, WithLk
<1>5. /\ thread'[h] = thread[h] /\ spc'[h] = spc[h] /\ idx'[h] = idx[h] /\ cproc'[h] = cproc[h]
      /\ hpc'[h] = hpc[h] /\ intr'[h] /\ noff'[h] = 0 /\ (intena'[h] <=> intena[h])
      /\ state'[p] = state[p] /\ (chan'[p] <=> chan[p]) /\ pc'[p] = "user" /\ trap'[p] = trap[p] /\ (saved'[p] <=> saved[p])
      /\ lk' = None /\ ~ready' /\ plock' = plock
  BY <1>2 DEF SchedInv, TypeOK
<1>6. Outside(h, p)'
  BY <1>1, <1>5, NoneApart, Zenon DEF WithLk, Outside, Runs, NoPlock, OnlyPlock, Open
<1>7. Phase(p)'
  BY <1>1, <1>5, Zenon DEF Phase, WithLk, Runs, Open
<1>8. pc'[p] \in {"sleep1", "sleep2", "sleep3"} => ~ready'
  BY <1>5, Zenon
<1> QED
  BY <1>2, <1>3, <1>4, <1>6, <1>7, <1>8, ProcStepKeeps DEF InProc

\* The result is not there (TestKilled).
LEMMA TestKilledKeeps ==
  ASSUME SchedInv, NEW h \in Hart, NEW p \in Proc, TestKilled(h, p) PROVE SchedInv'
<1>1. WithLk(h, p) /\ Phase(p)
  BY AtLocked DEF TestKilled, At
<1>2. /\ thread[h] = p /\ pc[p] = "test" /\ ~ready
      /\ pc' \in {[pc EXCEPT ![p] = "giveup"], [pc EXCEPT ![p] = "sleep1"]}
      /\ UNCHANGED <<state, chan, killed, trap, saved, plock, lk, ready, thread, cproc,
                     spc, idx, found, hpc, widx, intr, noff, intena>>
  BY <1>1 DEF TestKilled, At, Goto, locks, harts, ints, WithLk
<1>3. TypeOK'
  BY <1>2 DEF SchedInv, TypeOK
<1>4. Frame(h, p)
  BY <1>1, <1>2, NoneApart DEF SchedInv, TypeOK, Frame, Same, SameProc
<1>5. /\ thread'[h] = thread[h] /\ spc'[h] = spc[h] /\ idx'[h] = idx[h] /\ cproc'[h] = cproc[h]
      /\ hpc'[h] = hpc[h] /\ (intr'[h] <=> intr[h]) /\ noff'[h] = noff[h] /\ (intena'[h] <=> intena[h])
      /\ state'[p] = state[p] /\ (chan'[p] <=> chan[p]) /\ pc'[p] \in {"giveup", "sleep1"} /\ trap'[p] = trap[p] /\ (saved'[p] <=> saved[p])
      /\ lk' = lk /\ (ready' <=> ready) /\ plock' = plock
  BY <1>2 DEF SchedInv, TypeOK
<1>6. WithLk(h, p)'
  BY <1>1, <1>5, NoneApart, Zenon DEF WithLk, Runs, NoPlock, OnlyPlock
<1>7. Phase(p)'
  BY <1>1, <1>5, Zenon DEF Phase, WithLk, Runs, Open
<1>8. pc'[p] \in {"sleep1", "sleep2", "sleep3"} => ~ready'
  BY <1>2
<1> QED
  BY <1>2, <1>3, <1>4, <1>6, <1>7, <1>8, ProcStepKeeps DEF InProc

\* The system call gives up (GiveUp).
LEMMA GiveUpKeeps ==
  ASSUME SchedInv, NEW h \in Hart, NEW p \in Proc, GiveUp(h, p) PROVE SchedInv'
<1>1. WithLk(h, p) /\ Phase(p)
  BY AtLocked DEF GiveUp, At
<1>2. /\ thread[h] = p /\ pc[p] = "giveup"
      /\ pc' = [pc EXCEPT ![p] = "exit"]
      /\ lk' = None
      /\ noff' = [noff EXCEPT ![h] = 0]
      /\ intr' = [intr EXCEPT ![h] = TRUE]
      /\ UNCHANGED <<state, chan, killed, trap, saved, plock, ready, thread, cproc, spc,
                     idx, found, hpc, widx, intena>>
  <2>1. noff[h] - 1 = 0 /\ noff[h] = 1 /\ intena[h]
    BY <1>1 DEF WithLk
  <2> QED
    BY <2>1, Zenon DEF GiveUp, At, Goto, harts, release_lk, pop_off
<1>3. TypeOK'
  BY <1>2 DEF SchedInv, TypeOK
<1>4. Frame(h, p)
  BY <1>1, <1>2, NoneApart DEF SchedInv, TypeOK, Frame, Same, SameProc, WithLk
<1>5. /\ thread'[h] = thread[h] /\ spc'[h] = spc[h] /\ idx'[h] = idx[h] /\ cproc'[h] = cproc[h]
      /\ hpc'[h] = hpc[h] /\ intr'[h] /\ noff'[h] = 0 /\ (intena'[h] <=> intena[h])
      /\ state'[p] = state[p] /\ (chan'[p] <=> chan[p]) /\ pc'[p] = "exit" /\ trap'[p] = trap[p] /\ (saved'[p] <=> saved[p])
      /\ lk' = None /\ (ready' <=> ready) /\ plock' = plock
  BY <1>2 DEF SchedInv, TypeOK
<1>6. Outside(h, p)'
  BY <1>1, <1>5, NoneApart, Zenon DEF WithLk, Outside, Runs, NoPlock, OnlyPlock, Open
<1>7. Phase(p)'
  BY <1>1, <1>5, Zenon DEF Phase, WithLk, Runs, Open
<1>8. pc'[p] \in {"sleep1", "sleep2", "sleep3"} => ~ready'
  BY <1>5, Zenon
<1> QED
  BY <1>2, <1>3, <1>4, <1>6, <1>7, <1>8, ProcStepKeeps DEF InProc

\* sleep() takes p->lock (SleepLock).
LEMMA SleepLockKeeps ==
  ASSUME SchedInv, NEW h \in Hart, NEW p \in Proc, SleepLock(h, p) PROVE SchedInv'
<1>1. WithLk(h, p) /\ Phase(p)
  BY AtLocked DEF SleepLock, At
<1>2. /\ thread[h] = p /\ pc[p] = "sleep1" /\ plock[p] = None
      /\ pc' = [pc EXCEPT ![p] = "sleep2"]
      /\ plock' = [plock EXCEPT ![p] = h]
      /\ noff' = [noff EXCEPT ![h] = 2]
      /\ intr' = [intr EXCEPT ![h] = FALSE]
      /\ UNCHANGED <<state, chan, killed, trap, saved, lk, ready, thread, cproc, spc, idx,
                     found, hpc, widx, intena>>
  <2>1. noff[h] + 1 = 2 /\ noff[h] # 0
    BY <1>1 DEF WithLk
  <2> QED
    BY <2>1, Zenon DEF SleepLock, At, Goto, harts, acquire, push_off
<1>3. TypeOK'
  BY <1>2 DEF SchedInv, TypeOK
<1>4. Frame(h, p)
  BY <1>1, <1>2, NoneApart DEF SchedInv, TypeOK, Frame, Same, SameProc
<1>5. /\ thread'[h] = thread[h] /\ spc'[h] = spc[h] /\ idx'[h] = idx[h] /\ cproc'[h] = cproc[h]
      /\ hpc'[h] = hpc[h] /\ ~intr'[h] /\ noff'[h] = 2 /\ (intena'[h] <=> intena[h])
      /\ state'[p] = state[p] /\ (chan'[p] <=> chan[p]) /\ pc'[p] = "sleep2" /\ trap'[p] = trap[p] /\ (saved'[p] <=> saved[p])
      /\ lk' = lk /\ (ready' <=> ready) /\ \A q \in Proc : plock'[q] = IF q = p THEN h ELSE plock[q]
  BY <1>2 DEF SchedInv, TypeOK
<1>6. WithBoth(h, p)'
  BY <1>1, <1>5, NoneApart, Zenon DEF WithLk, WithBoth, Runs, NoPlock, OnlyPlock
<1>7. Phase(p)'
  BY <1>1, <1>5, Zenon DEF Phase, WithLk, Runs, Open
<1>8. pc'[p] \in {"sleep1", "sleep2", "sleep3"} => ~ready'
  BY <1>2, <1>5, Zenon DEF SchedInv, WakeInv
<1> QED
  BY <1>2, <1>3, <1>4, <1>6, <1>7, <1>8, ProcStepKeeps DEF InProc

\* sleep() releases lk (SleepRelease).
LEMMA SleepReleaseKeeps ==
  ASSUME SchedInv, NEW h \in Hart, NEW p \in Proc, SleepRelease(h, p) PROVE SchedInv'
<1>1. WithBoth(h, p) /\ Phase(p)
  BY AtLocked DEF SleepRelease, At
<1>2. /\ thread[h] = p /\ pc[p] = "sleep2"
      /\ pc' = [pc EXCEPT ![p] = "sleep3"]
      /\ lk' = None
      /\ noff' = [noff EXCEPT ![h] = 1]
      /\ intr' = [intr EXCEPT ![h] = FALSE]
      /\ UNCHANGED <<state, chan, killed, trap, saved, plock, ready, thread, cproc, spc,
                     idx, found, hpc, widx, intena>>
  <2>1. noff[h] - 1 = 1 /\ noff[h] # 1
    BY <1>1 DEF WithBoth
  <2> QED
    BY <2>1, Zenon DEF SleepRelease, At, Goto, harts, release_lk, pop_off
<1>3. TypeOK'
  BY <1>2 DEF SchedInv, TypeOK
<1>4. Frame(h, p)
  BY <1>1, <1>2, NoneApart DEF SchedInv, TypeOK, Frame, Same, SameProc, WithBoth
<1>5. /\ thread'[h] = thread[h] /\ spc'[h] = spc[h] /\ idx'[h] = idx[h] /\ cproc'[h] = cproc[h]
      /\ hpc'[h] = hpc[h] /\ ~intr'[h] /\ noff'[h] = 1 /\ (intena'[h] <=> intena[h])
      /\ state'[p] = state[p] /\ (chan'[p] <=> chan[p]) /\ pc'[p] = "sleep3" /\ trap'[p] = trap[p] /\ (saved'[p] <=> saved[p])
      /\ lk' = None /\ (ready' <=> ready) /\ plock' = plock
  BY <1>2 DEF SchedInv, TypeOK
<1>6. InSleep(h, p)'
  BY <1>1, <1>5, NoneApart, Zenon DEF WithBoth, InSleep, Runs, NoPlock, OnlyPlock
<1>7. Phase(p)'
  BY <1>1, <1>5, Zenon DEF Phase, WithBoth, Runs, Open
<1>8. pc'[p] \in {"sleep1", "sleep2", "sleep3"} => ~ready'
  BY <1>2, <1>5, Zenon DEF SchedInv, WakeInv
<1> QED
  BY <1>2, <1>3, <1>4, <1>6, <1>7, <1>8, ProcStepKeeps DEF InProc

\* sleep() switches to the scheduler (Sleep).
LEMMA SleepKeeps ==
  ASSUME SchedInv, NEW h \in Hart, NEW p \in Proc, Sleep(h, p) PROVE SchedInv'
<1>1. InSleep(h, p) /\ Phase(p)
  BY AtLocked DEF Sleep, At
<1>2. /\ thread[h] = p /\ pc[p] = "sleep3"
      /\ pc' = [pc EXCEPT ![p] = "sleep4"]
      /\ chan' = [chan EXCEPT ![p] = TRUE]
      /\ state' = [state EXCEPT ![p] = "SLEEPING"]
      /\ saved' = [saved EXCEPT ![p] = TRUE]
      /\ thread' = [thread EXCEPT ![h] = None]
      /\ UNCHANGED <<killed, trap, plock, lk, ready, cproc, spc, idx, found, hpc, widx,
                     intr, noff, intena>>
  BY <1>1 DEF Sleep, At, Goto, locks, ints, sched, InSleep
<1>3. TypeOK'
  BY <1>2 DEF SchedInv, TypeOK
<1>4. Frame(h, p)
  BY <1>1, <1>2, NoneApart DEF SchedInv, TypeOK, Frame, Same, SameProc
<1>5. /\ thread'[h] = None /\ spc'[h] = spc[h] /\ idx'[h] = idx[h] /\ cproc'[h] = cproc[h]
      /\ hpc'[h] = hpc[h] /\ (intr'[h] <=> intr[h]) /\ noff'[h] = noff[h] /\ (intena'[h] <=> intena[h])
      /\ state'[p] = "SLEEPING" /\ chan'[p] /\ pc'[p] = "sleep4" /\ trap'[p] = trap[p] /\ saved'[p]
      /\ lk' = lk /\ (ready' <=> ready) /\ plock' = plock
  BY <1>2 DEF SchedInv, TypeOK
<1>6. SwitchedOff(h, p)'
  BY <1>1, <1>5, NoneApart, Zenon DEF InSleep, SwitchedOff, Runs, NoPlock, OnlyPlock
<1>7. Phase(p)'
  BY <1>1, <1>5, Zenon DEF Phase, InSleep, Runs, Open
<1>8. /\ state'[p] # "RUNNING" /\ pc'[p] \notin {"sleep1", "sleep2", "sleep3"}
      /\ state'[p] = "SLEEPING" => pc[p] = "sleep3"
  BY <1>1, <1>5, <1>2, Zenon DEF Phase, Open, InSleep
<1> QED
  BY <1>2, <1>3, <1>4, <1>6, <1>7, <1>8, SwitchKeeps

\* sleep() goes on (Awake).
LEMMA AwakeKeeps ==
  ASSUME SchedInv, NEW h \in Hart, NEW p \in Proc, Awake(h, p) PROVE SchedInv'
<1>1. InSleep(h, p) /\ Phase(p)
  BY AtLocked DEF Awake, At
<1>2. /\ thread[h] = p /\ pc[p] = "sleep4"
      /\ pc' = [pc EXCEPT ![p] = "acq"]
      /\ chan' = [chan EXCEPT ![p] = FALSE]
      /\ saved' = [saved EXCEPT ![p] = FALSE]
      /\ plock' = [plock EXCEPT ![p] = None]
      /\ noff' = [noff EXCEPT ![h] = 0]
      /\ intr' = [intr EXCEPT ![h] = TRUE]
      /\ intena' = [intena EXCEPT ![h] = TRUE]
      /\ UNCHANGED <<state, killed, trap, lk, ready, thread, cproc, spc, idx, found, hpc,
                     widx>>
  <2>1. noff[h] - 1 = 0 /\ noff[h] = 1 /\ saved[p]
    BY <1>1 DEF InSleep, Awake, At, Phase
  <2> QED
    BY <2>1, Zenon DEF Awake, At, Goto, harts, Return
<1>3. TypeOK'
  BY <1>2 DEF SchedInv, TypeOK
<1>4. Frame(h, p)
  BY <1>1, <1>2, NoneApart DEF SchedInv, TypeOK, Frame, Same, SameProc, InSleep, OnlyPlock
<1>5. /\ thread'[h] = thread[h] /\ spc'[h] = spc[h] /\ idx'[h] = idx[h] /\ cproc'[h] = cproc[h]
      /\ hpc'[h] = hpc[h] /\ intr'[h] /\ noff'[h] = 0
      /\ state'[p] = state[p] /\ ~chan'[p] /\ pc'[p] = "acq" /\ trap'[p] = trap[p] /\ ~saved'[p]
      /\ lk' = lk /\ (ready' <=> ready) /\ \A q \in Proc : plock'[q] = IF q = p THEN None ELSE plock[q]
  BY <1>2 DEF SchedInv, TypeOK
<1>6. Outside(h, p)'
  BY <1>1, <1>5, NoneApart, Zenon DEF InSleep, Outside, Runs, NoPlock, OnlyPlock, Open
<1>7. Phase(p)'
  BY <1>1, <1>5, Zenon DEF Phase, InSleep, Runs, Open
<1>8. pc'[p] \in {"sleep1", "sleep2", "sleep3"} => ~ready'
  BY <1>5, Zenon
<1> QED
  BY <1>2, <1>3, <1>4, <1>6, <1>7, <1>8, ProcStepKeeps DEF InProc

\* exit() switches to the scheduler for good (Exit).
LEMMA ExitKeeps ==
  ASSUME SchedInv, NEW h \in Hart, NEW p \in Proc, Exit(h, p) PROVE SchedInv'
<1>1. Outside(h, p) /\ Phase(p)
  BY AtOpen DEF Exit, At, Open
<1>2. /\ thread[h] = p /\ pc[p] = "exit" /\ plock[p] = None
      /\ pc' = [pc EXCEPT ![p] = "zombie"]
      /\ state' = [state EXCEPT ![p] = "ZOMBIE"]
      /\ saved' = [saved EXCEPT ![p] = TRUE]
      /\ thread' = [thread EXCEPT ![h] = None]
      /\ plock' = [plock EXCEPT ![p] = h]
      /\ noff' = [noff EXCEPT ![h] = 1]
      /\ intr' = [intr EXCEPT ![h] = FALSE]
      /\ intena' = [intena EXCEPT ![h] = TRUE]
      /\ UNCHANGED <<chan, killed, trap, lk, ready, cproc, spc, idx, found, hpc, widx>>
  <2>1. intena' = [intena EXCEPT ![h] = TRUE]
    BY <1>1 DEF Exit, acquire, push_off, Outside
  <2>2. intena'[h] = TRUE
    BY <2>1 DEF SchedInv, TypeOK
  <2>3. noff[h] + 1 = 1
    BY <1>1 DEF Outside
  <2> QED
    BY <2>1, <2>2, <2>3, Zenon DEF Exit, At, Goto, acquire, push_off, sched
<1>3. TypeOK'
  BY <1>2 DEF SchedInv, TypeOK
<1>4. Frame(h, p)
  BY <1>1, <1>2, NoneApart DEF SchedInv, TypeOK, Frame, Same, SameProc
<1>5. /\ thread'[h] = None /\ spc'[h] = spc[h] /\ idx'[h] = idx[h] /\ cproc'[h] = cproc[h]
      /\ hpc'[h] = hpc[h] /\ ~intr'[h] /\ noff'[h] = 1 /\ intena'[h]
      /\ state'[p] = "ZOMBIE" /\ (chan'[p] <=> chan[p]) /\ pc'[p] = "zombie" /\ trap'[p] = trap[p] /\ saved'[p]
      /\ lk' = lk /\ (ready' <=> ready) /\ \A q \in Proc : plock'[q] = IF q = p THEN h ELSE plock[q]
  BY <1>2 DEF SchedInv, TypeOK
<1>6. SwitchedOff(h, p)'
  BY <1>1, <1>5, NoneApart, Zenon DEF Outside, SwitchedOff, Runs, NoPlock, OnlyPlock, Open
<1>7. Phase(p)'
  BY <1>1, <1>5, Zenon DEF Phase, Outside, Runs, Open
<1>8. /\ state'[p] # "RUNNING" /\ pc'[p] \notin {"sleep1", "sleep2", "sleep3"}
      /\ state'[p] = "SLEEPING" => pc[p] = "sleep3"
  BY <1>1, <1>5, Zenon DEF Phase, Open, Outside
<1> QED
  BY <1>2, <1>3, <1>4, <1>6, <1>7, <1>8, SwitchKeeps

\* A timer interrupt (TimerTrap).
LEMMA TimerTrapKeeps ==
  ASSUME SchedInv, NEW h \in Hart, NEW p \in Proc, TimerTrap(h, p) PROVE SchedInv'
<1>1. Outside(h, p) /\ Phase(p)
  BY AtOpen DEF TimerTrap, Open
<1>2. /\ thread[h] = p /\ trap[p] = "no"
      /\ trap' = [trap EXCEPT ![p] = "yield"]
      /\ intr' = [intr EXCEPT ![h] = FALSE]
      /\ UNCHANGED <<state, chan, killed, pc, saved, plock, lk, ready, thread, cproc, spc,
                     idx, found, hpc, widx, noff, intena>>
  BY <1>1 DEF TimerTrap, locks, harts, Outside
<1>3. TypeOK'
  BY <1>2 DEF SchedInv, TypeOK
<1>4. Frame(h, p)
  BY <1>1, <1>2, NoneApart DEF SchedInv, TypeOK, Frame, Same, SameProc
<1>5. /\ thread'[h] = thread[h] /\ spc'[h] = spc[h] /\ idx'[h] = idx[h] /\ cproc'[h] = cproc[h]
      /\ hpc'[h] = hpc[h] /\ ~intr'[h] /\ noff'[h] = noff[h] /\ (intena'[h] <=> intena[h])
      /\ state'[p] = state[p] /\ (chan'[p] <=> chan[p]) /\ pc'[p] = pc[p] /\ trap'[p] = "yield" /\ (saved'[p] <=> saved[p])
      /\ lk' = lk /\ (ready' <=> ready) /\ plock' = plock
  BY <1>2 DEF SchedInv, TypeOK
<1>6. InTimer(h, p)'
  BY <1>1, <1>5, NoneApart, Zenon DEF Outside, InTimer, Runs, NoPlock, OnlyPlock, Open
<1>7. Phase(p)'
  BY <1>1, <1>5, Zenon DEF Phase, Outside, Runs, Open
<1>8. pc'[p] \in {"sleep1", "sleep2", "sleep3"} => ~ready'
  BY <1>1, <1>5, Zenon DEF Phase, Open, Outside
<1> QED
  BY <1>2, <1>3, <1>4, <1>6, <1>7, <1>8, ProcStepKeeps DEF InProc

\* yield() switches to the scheduler (Yield).
LEMMA YieldKeeps ==
  ASSUME SchedInv, NEW h \in Hart, NEW p \in Proc, Yield(h, p) PROVE SchedInv'
<1>1. InTimer(h, p) /\ Phase(p)
  BY AtTrap DEF Yield
<1>2. /\ thread[h] = p /\ trap[p] = "yield" /\ plock[p] = None
      /\ trap' = [trap EXCEPT ![p] = "yielded"]
      /\ state' = [state EXCEPT ![p] = "RUNNABLE"]
      /\ saved' = [saved EXCEPT ![p] = intr[h]]
      /\ thread' = [thread EXCEPT ![h] = None]
      /\ plock' = [plock EXCEPT ![p] = h]
      /\ noff' = [noff EXCEPT ![h] = 1]
      /\ intr' = [intr EXCEPT ![h] = FALSE]
      /\ intena' = [intena EXCEPT ![h] = intr[h]]
      /\ UNCHANGED <<chan, killed, pc, lk, ready, cproc, spc, idx, found, hpc, widx>>
  <2>1. intena' = [intena EXCEPT ![h] = intr[h]]
    BY <1>1 DEF Yield, acquire, push_off, InTimer
  <2>2. intena'[h] = intr[h]
    BY <2>1 DEF SchedInv, TypeOK
  <2>3. noff[h] + 1 = 1
    BY <1>1 DEF InTimer
  <2> QED
    BY <2>1, <2>2, <2>3, Zenon DEF Yield, acquire, push_off, sched
<1>3. TypeOK'
  BY <1>2 DEF SchedInv, TypeOK
<1>4. Frame(h, p)
  BY <1>1, <1>2, NoneApart DEF SchedInv, TypeOK, Frame, Same, SameProc
<1>5. /\ thread'[h] = None /\ spc'[h] = spc[h] /\ idx'[h] = idx[h] /\ cproc'[h] = cproc[h]
      /\ hpc'[h] = hpc[h] /\ ~intr'[h] /\ noff'[h] = 1 /\ (intena'[h] <=> intr[h])
      /\ state'[p] = "RUNNABLE" /\ (chan'[p] <=> chan[p]) /\ pc'[p] = pc[p] /\ trap'[p] = "yielded" /\ (saved'[p] <=> intr[h])
      /\ lk' = lk /\ (ready' <=> ready) /\ \A q \in Proc : plock'[q] = IF q = p THEN h ELSE plock[q]
  BY <1>2 DEF SchedInv, TypeOK
<1>6. SwitchedOff(h, p)'
  BY <1>1, <1>5, NoneApart, Zenon DEF InTimer, SwitchedOff, Runs, NoPlock, OnlyPlock
<1>7. Phase(p)'
  BY <1>1, <1>5, Zenon DEF Phase, InTimer, Runs, Open
<1>8. /\ state'[p] # "RUNNING" /\ pc'[p] \notin {"sleep1", "sleep2", "sleep3"}
      /\ state'[p] = "SLEEPING" => pc[p] = "sleep3"
  BY <1>1, <1>5, Zenon DEF Phase, Open, InTimer
<1> QED
  BY <1>2, <1>3, <1>4, <1>6, <1>7, <1>8, SwitchKeeps

\* yield() goes on (YieldReturn).
LEMMA YieldReturnKeeps ==
  ASSUME SchedInv, NEW h \in Hart, NEW p \in Proc, YieldReturn(h, p) PROVE SchedInv'
<1>1. InYield(h, p) /\ Phase(p)
  BY AtTrap DEF YieldReturn
<1>2. /\ thread[h] = p /\ trap[p] = "yielded"
      /\ trap' = [trap EXCEPT ![p] = "no"]
      /\ saved' = [saved EXCEPT ![p] = FALSE]
      /\ plock' = [plock EXCEPT ![p] = None]
      /\ noff' = [noff EXCEPT ![h] = 0]
      /\ intr' = [intr EXCEPT ![h] = TRUE]
      /\ intena' = [intena EXCEPT ![h] = saved[p]]
      /\ UNCHANGED <<state, chan, killed, pc, lk, ready, thread, cproc, spc, idx, found,
                     hpc, widx>>
  <2>1. noff[h] - 1 = 0
    BY <1>1 DEF InYield
  <2> QED
    BY <2>1, Zenon DEF YieldReturn, harts
<1>3. TypeOK'
  BY <1>2 DEF SchedInv, TypeOK
<1>4. Frame(h, p)
  BY <1>1, <1>2, NoneApart DEF SchedInv, TypeOK, Frame, Same, SameProc, InYield, OnlyPlock
<1>5. /\ thread'[h] = thread[h] /\ spc'[h] = spc[h] /\ idx'[h] = idx[h] /\ cproc'[h] = cproc[h]
      /\ hpc'[h] = hpc[h] /\ intr'[h] /\ noff'[h] = 0
      /\ state'[p] = state[p] /\ (chan'[p] <=> chan[p]) /\ pc'[p] = pc[p] /\ trap'[p] = "no" /\ ~saved'[p]
      /\ lk' = lk /\ (ready' <=> ready) /\ \A q \in Proc : plock'[q] = IF q = p THEN None ELSE plock[q]
  BY <1>2 DEF SchedInv, TypeOK
<1>6. Outside(h, p)'
  BY <1>1, <1>5, NoneApart, Zenon
     DEF InYield, Outside, Runs, NoPlock, OnlyPlock, Open, Phase
<1>7. Phase(p)'
  BY <1>1, <1>5, Zenon DEF Phase, InYield, Runs, Open
<1>8. pc'[p] \in {"sleep1", "sleep2", "sleep3"} => ~ready'
  BY <1>1, <1>5, Zenon DEF Phase, Open, InYield
<1> QED
  BY <1>2, <1>3, <1>4, <1>6, <1>7, <1>8, ProcStepKeeps DEF InProc
=============================================================================
