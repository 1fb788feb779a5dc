---------------------------- MODULE SchedProofs ----------------------------
(***************************************************************************)
(* That scheduler(), the interrupt handler, kill() and wakeup() keep the   *)
(* inductive invariant of SchedSteps, and what follows from it for any set *)
(* of harts and any number of processes.                                   *)
(***************************************************************************)
EXTENDS SchedSteps

\* Where the processes stay as they are, only the hart that moves is of interest.
LEMMA HartStepKeeps ==
  ASSUME SchedInv, NEW h \in Hart, UNCHANGED <<state, chan, pc, trap, saved, thread>>,
         \A g \in Hart \ {h} : Same(g), TypeOK', HartInv(h)', WakeInv'
  PROVE  SchedInv'
<1>1. StackInv'
  BY DEF SchedInv, StackInv
<1>2. ASSUME NEW g \in Hart PROVE HartInv(g)'
  <2>1. CASE g # h
    BY <2>1, SameKeeps DEF SchedInv
  <2> QED
    BY <2>1
<1>3. ASSUME NEW p \in Proc PROVE Phase(p)'
  BY DEF SchedInv, Phase
<1> QED
  BY <1>1, <1>2, <1>3 DEF SchedInv

\* WakeInv only depends on the processes, the result and the handlers.
LEMMA WakeStays ==
  ASSUME SchedInv, UNCHANGED <<state, pc, ready, hpc, widx>> PROVE WakeInv'
  BY DEF SchedInv, WakeInv

\* What the invariant says of a hart in scheduler().
LEMMA AtScheduler ==
  ASSUME SchedInv, NEW h \in Hart, thread[h] = None, hpc[h] = "no"
  PROVE  /\ spc[h] # "switched" => InScheduler(h)
         /\ spc[h] = "switched" => idx[h] \in Proc /\ SwitchedOff(h, idx[h])
<1>1. HartInv(h)
  BY DEF SchedInv
<1>2. ASSUME NEW p \in Proc, InProc(h, p) PROVE SwitchedOff(h, p) /\ p = idx[h] /\ spc[h] = "switched"
  <2>1. ~Runs(h, p)
    BY NoneApart DEF Runs
  <2>2. SwitchedOff(h, p)
    BY <1>2, <2>1 DEF InProc, Outside, InTimer, InYield, WithLk, WithBoth, InSleep
  <2> QED
    BY <2>2 DEF SwitchedOff
<1>3. ~InHandler(h)
  BY DEF InHandler
<1> QED
  BY <1>1, <1>2, <1>3 DEF HartInv, InScheduler, Idle

\* The steps of scheduler() that hold no lock (SchedTop, SchedSkip, SchedEnd, TimerWake).
LEMMA ScanKeeps ==
  ASSUME SchedInv, NEW h \in Hart, SchedTop(h) \/ SchedSkip(h) \/ SchedEnd(h) \/ TimerWake(h)
  PROVE  SchedInv'
<1>1. /\ thread[h] = None /\ hpc[h] = "no" /\ spc[h] # "switched"
      /\ UNCHANGED <<state, chan, killed, pc, trap, saved, plock, lk, ready, thread, cproc,
                     hpc, widx, noff, intena>>
  BY DEF SchedTop, SchedSkip, SchedEnd, TimerWake, Scheduling, procs, locks, ints
<1>2. InScheduler(h)
  BY <1>1, AtScheduler
<1>3. PICK s \in {"top", "scan", "wfi"}, i \in 1 .. NPROC + 1, f \in BOOLEAN, b \in BOOLEAN :
        /\ spc' = [spc EXCEPT ![h] = s] /\ idx' = [idx EXCEPT ![h] = i]
        /\ found' = [found EXCEPT ![h] = f] /\ intr' = [intr EXCEPT ![h] = b]
  <2>1. spc[h] \in {"top", "scan", "wfi"} /\ idx[h] \in 1 .. NPROC + 1 /\ found[h] \in BOOLEAN
        /\ intr[h] \in BOOLEAN /\ 1 \in 1 .. NPROC + 1
        /\ (idx[h] <= NPROC => idx[h] + 1 \in 1 .. NPROC + 1)
    BY <1>1, SchedAssumption DEF SchedInv, TypeOK
  <2>2. /\ spc = [spc EXCEPT ![h] = spc[h]] /\ idx = [idx EXCEPT ![h] = idx[h]]
        /\ found = [found EXCEPT ![h] = found[h]] /\ intr = [intr EXCEPT ![h] = intr[h]]
    BY DEF SchedInv, TypeOK
  <2>3. CASE SchedTop(h)
    BY <2>1, <2>3, Zenon DEF SchedTop
  <2>4. CASE SchedSkip(h)
    BY <2>1, <2>2, <2>4, Zenon DEF SchedSkip, ints
  <2>5. CASE SchedEnd(h)
    <3>1. (IF found[h] THEN "top" ELSE "wfi") \in {"top", "scan", "wfi"}
      OBVIOUS
    <3>2. (intr[h] \/ ~found[h]) \in BOOLEAN
      OBVIOUS
    <3> QED
      BY <2>1, <2>2, <2>5, <3>1, <3>2, Zenon DEF SchedEnd
  <2>6. CASE TimerWake(h)
    BY <2>1, <2>2, <2>6, Zenon DEF TimerWake, ints
  <2> QED
    BY <2>3, <2>4, <2>5, <2>6
<1>4. TypeOK'
  BY <1>1, <1>3 DEF SchedInv, TypeOK
<1>5. \A g \in Hart \ {h} : Same(g)
  BY <1>1, <1>3 DEF SchedInv, TypeOK, Same
<1>6. spc'[h] # "switched"
  BY <1>3 DEF SchedInv, TypeOK
<1>7. HartInv(h)'
  BY <1>1, <1>2, <1>6 DEF HartInv, InScheduler, Idle, NoPlock
<1> QED
  BY <1>1, <1>4, <1>5, <1>7, WakeStays, HartStepKeeps

\* The scheduler switches to a process (SchedRun).
LEMMA SchedRunKeeps == ASSUME SchedInv, NEW h \in Hart, SchedRun(h) PROVE SchedInv'
<1>1. PICK p \in Proc : p = idx[h]
  BY SchedAssumption DEF SchedRun, SchedInv, TypeOK, Proc
<1>2. InScheduler(h) /\ Phase(p) /\ state[p] = "RUNNABLE"
  BY <1>1, AtScheduler DEF SchedRun, Scheduling, SchedInv
<1>3. /\ plock[p] = None
      /\ state' = [state EXCEPT ![p] = "RUNNING"]
      /\ plock' = [plock EXCEPT ![p] = h]
      /\ thread' = [thread EXCEPT ![h] = p]
      /\ cproc' = [cproc EXCEPT ![h] = p]
      /\ spc' = [spc EXCEPT ![h] = "switched"]
      /\ noff' = [noff EXCEPT ![h] = 1]
      /\ intr' = [intr EXCEPT ![h] = FALSE]
      /\ intena' = [intena EXCEPT ![h] = intr[h]]
      /\ UNCHANGED <<chan, killed, pc, trap, saved, lk, ready, idx, found, hpc, widx>>
  BY <1>1, <1>2 DEF SchedRun, acquire, push_off, InScheduler
<1>4. TypeOK'
  BY <1>3 DEF SchedInv, TypeOK
<1>5. Frame(h, p)
  BY <1>3, NoneApart DEF SchedInv, TypeOK, Frame, Same, SameProc
<1>6. /\ thread'[h] = p /\ spc'[h] = "switched" /\ idx'[h] = p /\ cproc'[h] = p
      /\ hpc'[h] = hpc[h] /\ ~intr'[h] /\ noff'[h] = 1 /\ lk' = lk
      /\ state'[p] = "RUNNING" /\ pc'[p] = pc[p] /\ trap'[p] = trap[p] /\ (saved'[p] <=> saved[p])
      /\ \A q \in Proc : plock'[q] = IF q = p THEN h ELSE plock[q]
  BY <1>1, <1>3 DEF SchedInv, TypeOK
<1>7. trap[p] = "yielded" \/ (trap[p] = "no" /\ pc[p] = "sleep4")
  BY <1>2 DEF Phase
<1>8. HartInv(h)'
  BY <1>2, <1>6, <1>7 DEF HartInv, InProc, InYield, InSleep, Runs, InScheduler, NoPlock, OnlyPlock
\* nobody else runs p
<1>9. \A g \in Hart : thread[g] # p
  BY <1>2, Running DEF Runs
<1>10. StackInv'
  <2>1. \A g \in Hart : thread'[g] = IF g = h THEN p ELSE thread[g]
    BY <1>3 DEF SchedInv, TypeOK
  <2>2. \A q \in Proc : state'[q] = IF q = p THEN "RUNNING" ELSE state[q]
    BY <1>3 DEF SchedInv, TypeOK
  <2>3. thread[h] = None
    BY <1>2 DEF InScheduler, Idle
  <2> QED
    BY <1>9, <2>1, <2>2, <2>3, NoneApart DEF SchedInv, StackInv
<1>11. WakeInv'
  BY <1>3, <1>5, <1>6 DEF SchedInv, WakeInv, Frame, SameProc
<1>12. ASSUME NEW g \in Hart PROVE HartInv(g)'
  <2>1. CASE g # h
    BY <1>5, <1>9, <2>1, SameKeeps DEF SchedInv, Frame, SameProc
  <2> QED
    BY <1>8, <2>1
<1>13. ASSUME NEW q \in Proc PROVE Phase(q)'
  <2>1. CASE q = p
    BY <1>2, <1>6, <2>1 DEF Phase
  <2>2. CASE q # p
    BY <1>5, <2>2 DEF SchedInv, Frame, SameProc, Phase
  <2> QED
    BY <2>1, <2>2
<1> QED
  BY <1>4, <1>10, <1>11, <1>12, <1>13 DEF SchedInv

\* The scheduler takes over from a process and releases its lock (SchedBack).
LEMMA SchedBackKeeps == ASSUME SchedInv, NEW h \in Hart, SchedBack(h) PROVE SchedInv'
<1>1. PICK p \in Proc : p = idx[h] /\ SwitchedOff(h, p)
  BY AtScheduler DEF SchedBack, Scheduling
<1>2. /\ thread[h] = None /\ hpc[h] = "no"
      /\ plock' = [plock EXCEPT ![p] = None]
      /\ cproc' = [cproc EXCEPT ![h] = None]
      /\ spc' = [spc EXCEPT ![h] = "scan"]
      /\ noff' = [noff EXCEPT ![h] = 0]
      /\ idx' = [idx EXCEPT ![h] = p + 1]
      /\ found' = [found EXCEPT ![h] = TRUE]
      /\ UNCHANGED <<state, chan, killed, pc, trap, saved, lk, ready, thread, hpc, widx, intena>>
  BY <1>1 DEF SchedBack, Scheduling, release, pop_off, procs, SwitchedOff
<1>3. intr' = [intr EXCEPT ![h] = noff[h] = 1 /\ intena[h]]
  BY <1>1, Zenon DEF SchedBack, release, pop_off
<1>4. TypeOK'
  <2>1. p + 1 \in 1 .. NPROC + 1 /\ 0 \in 0 .. 3
    BY SchedAssumption DEF Proc
  <2>2. intr' \in [Hart -> BOOLEAN]
    BY <1>3, Zenon DEF SchedInv, TypeOK
  <2> QED
    BY <1>2, <2>1, <2>2 DEF SchedInv, TypeOK
<1>5. \A g \in Hart \ {h} : intr'[g] = intr[g]
  BY <1>3, Zenon DEF SchedInv, TypeOK
<1>6. \A g \in Hart \ {h} : Same(g)
  BY <1>1, <1>2, <1>5, NoneApart DEF SchedInv, TypeOK, Same, SwitchedOff, OnlyPlock
<1>7. /\ spc'[h] = "scan" /\ cproc'[h] = None /\ noff'[h] = 0
      /\ \A q \in Proc : plock'[q] = IF q = p THEN None ELSE plock[q]
  BY <1>2 DEF SchedInv, TypeOK
<1>8. HartInv(h)'
  BY <1>1, <1>2, <1>7, NoneApart DEF HartInv, InScheduler, Idle, NoPlock, OnlyPlock, SwitchedOff
<1> QED
  BY <1>2, <1>4, <1>6, <1>8, WakeStays, HartStepKeeps

-----------------------------------------------------------------------------
\* A device interrupt comes (DevIntr).
LEMMA DevIntrKeeps == ASSUME SchedInv, NEW h \in Hart, DevIntr(h) PROVE SchedInv'
<1>1. /\ intr[h] /\ hpc[h] = "no"
      /\ intr' = [intr EXCEPT ![h] = FALSE] /\ hpc' = [hpc EXCEPT ![h] = "acq"]
      /\ spc' = [spc EXCEPT ![h] = IF thread[h] = None /\ spc[h] = "wfi" THEN "top" ELSE spc[h]]
      /\ UNCHANGED <<state, chan, killed, pc, trap, saved, plock, lk, ready, thread, cproc, idx,
                     found, widx, noff, intena>>
  BY DEF DevIntr, procs, locks
<1>2. TypeOK'
  BY <1>1 DEF SchedInv, TypeOK
<1>3. \A g \in Hart \ {h} : Same(g)
  BY <1>1 DEF SchedInv, TypeOK, Same
<1>4. /\ ~intr'[h] /\ hpc'[h] = "acq"
      /\ spc'[h] = IF thread[h] = None /\ spc[h] = "wfi" THEN "top" ELSE spc[h]
  BY <1>1 DEF SchedInv, TypeOK
<1>5. InScheduler(h) \/ \E p \in Proc : Outside(h, p)
  BY <1>1 DEF SchedInv, HartInv, InHandler, InProc, SwitchedOff, InTimer, InYield, WithLk, WithBoth,
              InSleep
<1>6. HartInv(h)'
  <2>1. CASE InScheduler(h)
    BY <1>1, <1>4, <2>1 DEF HartInv, InHandler, InScheduler, Idle, NoPlock
  <2>2. CASE \E p \in Proc : Outside(h, p)
    BY <1>1, <1>4, <2>2, NoneApart DEF HartInv, InHandler, Outside, Runs, NoPlock
  <2> QED
    BY <1>5, <2>1, <2>2
<1>7. WakeInv'
  BY <1>1 DEF SchedInv, TypeOK, WakeInv
<1> QED
  BY <1>1, <1>2, <1>3, <1>6, <1>7, HartStepKeeps

\* What the invariant says of a hart in the handler.
LEMMA AtHandler ==
  ASSUME SchedInv, NEW h \in Hart, hpc[h] # "no" PROVE InHandler(h)
  BY DEF SchedInv, HartInv, InScheduler, InProc, SwitchedOff, Outside, InTimer, InYield, WithLk,
         WithBoth, InSleep

\* The handler has the result (DevReady).
LEMMA DevReadyKeeps == ASSUME SchedInv, NEW h \in Hart, DevReady(h) PROVE SchedInv'
<1>1. InHandler(h) /\ hpc[h] = "acq"
  BY AtHandler DEF DevReady
<1>2. /\ lk = None /\ lk' = h /\ ready' /\ ready' \in BOOLEAN
      /\ hpc' = [hpc EXCEPT ![h] = "wake"] /\ widx' = [widx EXCEPT ![h] = 1]
      /\ noff' = [noff EXCEPT ![h] = 1]
      /\ intr' = [intr EXCEPT ![h] = FALSE]
      /\ intena' = [intena EXCEPT ![h] = intr[h]]
      /\ UNCHANGED <<state, chan, killed, pc, trap, saved, plock, thread, cproc, spc, idx, found>>
  <2>1. noff[h] = 0 /\ noff[h] + 1 = 1
    BY <1>1 DEF InHandler
  <2> QED
    BY <2>1, Zenon DEF DevReady, acquire_lk, push_off, procs
<1>3. TypeOK'
  <2>1. 1 \in 1 .. NPROC + 1
    BY SchedAssumption
  <2> QED
    BY <1>2, <2>1 DEF SchedInv, TypeOK
<1>4. \A g \in Hart \ {h} : Same(g)
  BY <1>2, NoneApart DEF SchedInv, TypeOK, Same
<1>5. ~intr'[h] /\ hpc'[h] = "wake" /\ noff'[h] = 1 /\ widx'[h] = 1
  BY <1>2 DEF SchedInv, TypeOK
<1>6. HartInv(h)'
  BY <1>1, <1>2, <1>5 DEF HartInv, InHandler, Idle, Runs, NoPlock
\* who holds lk on its way to sleep would have kept the handler out
<1>7. ASSUME NEW p \in Proc PROVE pc[p] \notin {"sleep1", "sleep2"}
  <2>1. SUFFICES ASSUME pc[p] \in {"sleep1", "sleep2"} PROVE FALSE
    OBVIOUS
  <2>2. state[p] = "RUNNING" /\ trap[p] = "no"
    BY <2>1 DEF SchedInv, TypeOK, Phase, Open
  <2>3. PICK g \in Hart : thread[g] = p
    BY <2>2 DEF SchedInv, StackInv
  <2>4. WithLk(g, p) \/ WithBoth(g, p)
    BY <2>1, <2>2, <2>3, Running DEF InHandler, Outside, InTimer, InYield, InSleep, Open
  <2> QED
    BY <1>2, <2>4, NoneApart DEF WithLk, WithBoth
<1>8. WakeInv'
  BY <1>2, <1>5, <1>7 DEF WakeInv, Proc
<1> QED
  BY <1>2, <1>3, <1>4, <1>6, <1>8, HartStepKeeps

\* The handler returns (DevReturn).
LEMMA DevReturnKeeps == ASSUME SchedInv, NEW h \in Hart, DevReturn(h) PROVE SchedInv'
<1>1. InHandler(h) /\ hpc[h] = "wake"
  BY AtHandler DEF DevReturn
<1>2. /\ lk = h /\ lk' = None /\ widx[h] > NPROC
      /\ hpc' = [hpc EXCEPT ![h] = "no"] /\ widx' = [widx EXCEPT ![h] = 1]
      /\ noff' = [noff EXCEPT ![h] = 0]
      /\ intr' = [intr EXCEPT ![h] = TRUE]
      /\ UNCHANGED <<state, chan, killed, pc, trap, saved, plock, ready, thread, cproc, spc, idx,
                     found, intena>>
  <2>1. lk = h /\ noff[h] - 1 = 0
    BY <1>1 DEF InHandler
  <2> QED
    BY <2>1, Zenon DEF DevReturn, procs
<1>3. TypeOK'
  <2>1. 1 \in 1 .. NPROC + 1
    BY SchedAssumption
  <2> QED
    BY <1>2, <2>1 DEF SchedInv, TypeOK
<1>4. \A g \in Hart \ {h} : Same(g)
  BY <1>2, NoneApart DEF SchedInv, TypeOK, Same
<1>5. intr'[h] /\ hpc'[h] = "no" /\ noff'[h] = 0
  BY <1>2 DEF SchedInv, TypeOK
<1>6. HartInv(h)'
  <2>1. CASE Idle(h)
    BY <1>1, <1>2, <1>5, <2>1, NoneApart DEF HartInv, InHandler, InScheduler, Idle, NoPlock
  <2>2. ASSUME NEW p \in Proc, Runs(h, p), trap[p] = "no", pc[p] \in Open PROVE Outside(h, p)'
    BY <1>1, <1>2, <1>5, <2>2, NoneApart DEF InHandler, Outside, Runs, NoPlock
  <2> QED
    BY <1>1, <2>1, <2>2 DEF HartInv, InHandler, InProc
<1>7. WakeInv'
  <2>1. \A g \in Hart, p \in Proc : hpc[g] = "wake" /\ widx[g] <= p => g # h
    BY <1>2, SchedAssumption DEF SchedInv, TypeOK, Proc
  <2>2. \A g \in Hart \ {h} : hpc'[g] = hpc[g] /\ widx'[g] = widx[g]
    BY <1>2 DEF SchedInv, TypeOK
  <2> QED
    BY <1>2, <2>1, <2>2 DEF SchedInv, WakeInv
<1> QED
  BY <1>2, <1>3, <1>4, <1>6, <1>7, HartStepKeeps

-----------------------------------------------------------------------------
\* Making one sleeper RUNNABLE disturbs no hart, no stack and no other process.
LEMMA WokenKeeps ==
  ASSUME SchedInv, NEW q \in Proc,
         UNCHANGED <<chan, pc, trap, saved, plock, lk, thread, cproc, spc, idx, hpc,
                     intr, noff, intena>>,
         state' = IF state[q] = "SLEEPING" THEN [state EXCEPT ![q] = "RUNNABLE"] ELSE state,
         TypeOK', WakeInv'
  PROVE  SchedInv'
<1>1. \A p \in Proc : state'[p] = IF p = q /\ state[q] = "SLEEPING" THEN "RUNNABLE" ELSE state[p]
  BY DEF SchedInv, TypeOK
<1>2. StackInv'
  <2>1. StackInv /\ thread' = thread /\ \A p \in Proc : state'[p] = "RUNNING" => state[p] = "RUNNING"
    BY <1>1 DEF SchedInv
  <2> QED
    BY <2>1, Zenon DEF StackInv
<1>3. ASSUME NEW g \in Hart PROVE HartInv(g)'
  <2>1. \A p \in Proc : thread[g] = p => state[p] = "RUNNING"
    BY Running DEF Runs
  <2>2. Same(g)
    BY DEF Same
  <2> QED
    BY <1>1, <2>1, <2>2, SameKeeps DEF SchedInv
<1>4. ASSUME NEW p \in Proc PROVE Phase(p)'
  BY <1>1 DEF SchedInv, Phase
<1> QED
  BY <1>2, <1>3, <1>4 DEF SchedInv

\* kill(q) (Kill).
LEMMA KillKeeps ==
  ASSUME SchedInv, NEW h \in Hart, NEW p \in Proc, NEW q \in Proc, Kill(h, p, q) PROVE SchedInv'
<1>1. /\ UNCHANGED <<chan, pc, trap, saved, plock, lk, ready, thread, cproc, spc, idx, found,
                     hpc, widx, intr, noff, intena>>
      /\ killed' = [killed EXCEPT ![q] = TRUE]
      /\ state' = IF state[q] = "SLEEPING" THEN [state EXCEPT ![q] = "RUNNABLE"] ELSE state
  BY DEF Kill, locks, harts, ints
<1>2. TypeOK'
  BY <1>1 DEF SchedInv, TypeOK
<1>3. WakeInv'
  BY <1>1 DEF SchedInv, TypeOK, WakeInv
<1> QED
  BY <1>1, <1>2, <1>3, WokenKeeps

\* One turn of wakeup() (wakeup).
LEMMA wakeupKeeps == ASSUME SchedInv, NEW h \in Hart, wakeup(h) PROVE SchedInv'
<1>1. PICK q \in Proc : q = widx[h]
  BY SchedAssumption DEF wakeup, SchedInv, TypeOK, Proc
<1>2. /\ hpc[h] = "wake"
      /\ UNCHANGED <<chan, killed, pc, trap, saved, plock, lk, ready, thread, cproc, spc, idx,
                     found, hpc, intr, noff, intena>>
      /\ q = cproc[h] \/ plock[q] = None
      /\ state' = IF q # cproc[h] /\ state[q] = "SLEEPING" /\ chan[q]
                  THEN [state EXCEPT ![q] = "RUNNABLE"] ELSE state
      /\ widx' = [widx EXCEPT ![h] = q + 1]
  BY <1>1 DEF wakeup, locks, ints
<1>3. InHandler(h) /\ Phase(q)
  BY <1>2, AtHandler DEF SchedInv
\* myproc() is RUNNING, so that it is neither asleep nor about to be
<1>4. q = cproc[h] => state[q] = "RUNNING" /\ pc[q] # "sleep3"
  BY <1>3, NoneApart DEF InHandler, Idle, Runs, Open
<1>5. state' = IF state[q] = "SLEEPING" THEN [state EXCEPT ![q] = "RUNNABLE"] ELSE state
  BY <1>2, <1>3, <1>4 DEF Phase
\* who is about to sleep holds its p->lock until it sleeps
<1>6. pc[q] # "sleep3"
  <2>1. SUFFICES ASSUME pc[q] = "sleep3", plock[q] = None PROVE FALSE
    BY <1>2, <1>4
  <2>2. state[q] = "RUNNING" /\ trap[q] = "no"
    BY <2>1, <1>3 DEF SchedInv, TypeOK, Phase, Open
  <2>3. PICK g \in Hart : thread[g] = q
    BY <2>2 DEF SchedInv, StackInv
  <2>4. InSleep(g, q)
    BY <2>1, <2>2, <2>3, Running DEF Outside, InTimer, InYield, WithLk, WithBoth, Open
  <2> QED
    BY <2>1, <2>4, NoneApart DEF InSleep, OnlyPlock
<1>7. TypeOK'
  <2>1. q + 1 \in 1 .. NPROC + 1
    BY SchedAssumption DEF Proc
  <2> QED
    BY <1>2, <1>5, <2>1 DEF SchedInv, TypeOK
<1>8. WakeInv'
  <2>1. \A r \in Proc : state'[r] = IF r = q /\ state[q] = "SLEEPING" THEN "RUNNABLE" ELSE state[r]
    BY <1>5 DEF SchedInv, TypeOK
  <2>2. \A r \in Proc \ {q}, g \in Hart : widx[g] <= r => widx'[g] <= r
    BY <1>1, <1>2, SchedAssumption DEF SchedInv, TypeOK, Proc
  <2> QED
    BY <1>2, <1>6, <2>1, <2>2 DEF SchedInv, WakeInv
<1> QED
  BY <1>2, <1>5, <1>7, <1>8, WokenKeeps

\* A system call begins, and a killed process goes to exit() (Read, Killed).
LEMMA OpenStepKeeps ==
  ASSUME SchedInv, NEW h \in Hart, NEW p \in Proc, Read(h, p) \/ Killed(h, p) PROVE SchedInv'
<1>1. thread[h] = p /\ Outside(h, p) /\ Phase(p) /\ pc[p] = "user"
  BY AtOpen DEF Read, Killed, At, Open
<1>2. PICK l \in {"acq", "exit"} : pc' = [pc EXCEPT ![p] = l]
  BY DEF Read, Killed, Goto
<1>3. UNCHANGED <<state, chan, killed, trap, saved, plock, lk, ready, thread, cproc, spc, idx,
                  found, hpc, widx, intr, noff, intena>>
  BY DEF Read, Killed, locks, harts, ints
<1>4. TypeOK'
  BY <1>2, <1>3 DEF SchedInv, TypeOK
<1>5. Frame(h, p)
  BY <1>2, <1>3 DEF SchedInv, TypeOK, Frame, Same, SameProc
<1>6. pc'[p] = l
  BY <1>2 DEF SchedInv, TypeOK
<1>7. InProc(h, p)'
  BY <1>1, <1>3, <1>6 DEF InProc, Outside, Runs, NoPlock, Open
<1>8. Phase(p)'
  BY <1>1, <1>3, <1>6 DEF Phase, Outside, Runs, Open
<1> QED
  BY <1>1, <1>3, <1>4, <1>5, <1>6, <1>7, <1>8, ProcStepKeeps

-----------------------------------------------------------------------------
\* main() hands every hart to its scheduler in such a state.
LEMMA InitInv == Init => SchedInv
<1> SUFFICES ASSUME Init PROVE SchedInv
  OBVIOUS
<1>1. TypeOK
  <2>1. 1 \in 1 .. NPROC + 1 /\ 0 \in 0 .. 3
    BY SchedAssumption
  <2> QED
    BY <2>1, Zenon DEF Init, TypeOK
<1>2. StackInv /\ WakeInv
  BY NoneApart DEF Init, StackInv, WakeInv
<1>3. ASSUME NEW h \in Hart PROVE HartInv(h)
  BY NoneApart DEF Init, HartInv, InScheduler, Idle, NoPlock
<1>4. \A p \in Proc : Phase(p)
  BY DEF Init, Phase, Open
<1> QED
  BY <1>1, <1>2, <1>3, <1>4 DEF SchedInv

\* Every step keeps the invariant.
LEMMA NextInv == SchedInv /\ [Next]_vars => SchedInv'
<1> SUFFICES ASSUME SchedInv, [Next]_vars PROVE SchedInv'
  OBVIOUS
<1>1. CASE UNCHANGED vars
  <2>1. UNCHANGED <<state, chan, killed, pc, trap, saved, plock, lk, ready, thread, cproc, spc,
                    idx, found, hpc, widx, intr, noff, intena>>
    BY <1>1 DEF vars, procs, locks, harts, ints
  <2>2. TypeOK' /\ StackInv' /\ WakeInv'
    BY <2>1 DEF SchedInv, TypeOK, StackInv, WakeInv
  <2>3. \A h \in Hart : HartInv(h)'
    BY <2>1, SameKeeps DEF SchedInv, Same
  <2>4. \A p \in Proc : Phase(p)'
    BY <2>1 DEF SchedInv, Phase
  <2> QED
    BY <2>2, <2>3, <2>4 DEF SchedInv
<1>2. ASSUME NEW h \in Hart, SchedStep(h) \/ HandlerStep(h) \/ Timer(h) \/ DevIntr(h)
      PROVE  SchedInv'
  BY <1>2, ScanKeeps, SchedRunKeeps, SchedBackKeeps,
     DevReadyKeeps, wakeupKeeps, DevReturnKeeps, TimerTrapKeeps, DevIntrKeeps
     DEF SchedStep, HandlerStep, Timer
<1>3. ASSUME NEW h \in Hart, NEW p \in Proc, ProcStep(h, p) \/ Read(h, p) PROVE SchedInv'
  BY <1>3, AcquireLkKeeps, TestReadyKeeps, TestKilledKeeps, GiveUpKeeps, SleepLockKeeps,
     SleepReleaseKeeps, SleepKeeps, AwakeKeeps, ExitKeeps, YieldKeeps,
     YieldReturnKeeps, OpenStepKeeps
     DEF ProcStep
<1>4. ASSUME NEW h \in Hart, NEW p \in Proc, NEW q \in Proc, Kill(h, p, q) PROVE SchedInv'
  BY <1>4, KillKeeps
<1> QED
  BY <1>1, <1>2, <1>3, <1>4 DEF Next

-----------------------------------------------------------------------------
\* In each of its states, how many locks a hart holds and whether interrupts can come.
LEMMA HartFacts ==
  ASSUME SchedInv, NEW h \in Hart
  PROVE  /\ intr[h] => noff[h] = 0
         /\ \/ NoPlock(h) /\ lk # h /\ noff[h] = 0
            \/ NoPlock(h) /\ lk = h /\ noff[h] = 1
            \/ \E p \in Proc : OnlyPlock(h, p) /\ lk # h /\ noff[h] = 1
            \/ \E p \in Proc : OnlyPlock(h, p) /\ lk = h /\ noff[h] = 2
<1>1. CASE InScheduler(h) \/ InHandler(h)
  BY <1>1 DEF InScheduler, InHandler
<1>2. ASSUME NEW p \in Proc, InProc(h, p)
      PROVE  /\ intr[h] => noff[h] = 0
             /\ \/ NoPlock(h) /\ lk # h /\ noff[h] = 0
                \/ NoPlock(h) /\ lk = h /\ noff[h] = 1
                \/ OnlyPlock(h, p) /\ lk # h /\ noff[h] = 1
                \/ OnlyPlock(h, p) /\ lk = h /\ noff[h] = 2
  BY <1>2 DEF InProc, SwitchedOff, Outside, InTimer, InYield, WithLk, WithBoth, InSleep
<1> QED
  BY <1>1, <1>2 DEF SchedInv, HartInv

\* The checks that panic are all decided by where the hart and the process are.
LEMMA InvMeansNoPanic == SchedInv => NoPanic
<1> SUFFICES ASSUME SchedInv, NEW h \in Hart
             PROVE  /\ hpc[h] = "acq" => lk # h
                    /\ hpc[h] = "wake" =>
                          lk = h /\ (widx[h] <= NPROC /\ widx[h] # cproc[h] => plock[widx[h]] # h)
                    /\ Scheduling(h, "scan") /\ idx[h] <= NPROC => plock[idx[h]] # h
                    /\ Scheduling(h, "switched") => plock[idx[h]] = h
                    /\ \A p \in Proc : thread[h] = p =>
                          /\ pc[p] \in {"test", "giveup", "sleep1", "sleep2"} => lk = h
                          /\ trap[p] = "no" /\ pc[p] \in {"acq", "test", "sleep1", "exit"} => plock[p] # h
                          /\ trap[p] = "no" /\ pc[p] \in {"sleep2", "sleep3", "sleep4"} => plock[p] = h
                          /\ trap[p] = "no" /\ pc[p] = "sleep3" => noff[h] = 1 /\ ~intr[h]
                          /\ hpc[h] = "no" /\ trap[p] = "no" /\ pc[p] = "exit" => noff[h] = 0
                          /\ trap[p] = "yield" => plock[p] # h /\ noff[h] = 0 /\ ~intr[h]
                          /\ trap[p] = "yielded" => plock[p] = h
  BY DEF NoPanic
\* in the handler
<1>1. (hpc[h] = "acq" => lk # h) /\ (hpc[h] = "wake" => lk = h)
  BY AtHandler DEF InHandler
<1>2. ASSUME hpc[h] = "wake", widx[h] <= NPROC PROVE plock[widx[h]] # h
  <2>1. widx[h] \in Proc
    BY <1>2, SchedAssumption DEF Proc, SchedInv, TypeOK
  <2> QED
    BY <1>2, <2>1, AtHandler DEF InHandler, NoPlock
\* in the scheduler
<1>3. ASSUME Scheduling(h, "scan"), idx[h] <= NPROC PROVE plock[idx[h]] # h
  <2>1. idx[h] \in Proc
    BY <1>3, SchedAssumption DEF Proc, SchedInv, TypeOK
  <2> QED
    BY <1>3, <2>1, AtScheduler DEF Scheduling, InScheduler, NoPlock
<1>4. Scheduling(h, "switched") => plock[idx[h]] = h
  BY AtScheduler DEF Scheduling, SwitchedOff, OnlyPlock
\* in a process
<1>5. ASSUME NEW p \in Proc, thread[h] = p
      PROVE  /\ pc[p] \in {"test", "giveup", "sleep1", "sleep2"} => lk = h
             /\ trap[p] = "no" /\ pc[p] \in {"acq", "test", "sleep1", "exit"} => plock[p] # h
             /\ trap[p] = "no" /\ pc[p] \in {"sleep2", "sleep3", "sleep4"} => plock[p] = h
             /\ trap[p] = "no" /\ pc[p] = "sleep3" => noff[h] = 1 /\ ~intr[h]
             /\ hpc[h] = "no" /\ trap[p] = "no" /\ pc[p] = "exit" => noff[h] = 0
             /\ trap[p] = "yield" => plock[p] # h /\ noff[h] = 0 /\ ~intr[h]
             /\ trap[p] = "yielded" => plock[p] = h
  <2>1. Phase(p)
    BY DEF SchedInv
  <2>2. CASE InHandler(h) /\ trap[p] = "no" /\ pc[p] \in Open
    BY <2>2 DEF InHandler, Open, NoPlock
  <2>3. CASE Outside(h, p)
    BY <2>3 DEF Outside, Open, NoPlock
  <2>4. CASE InTimer(h, p) \/ InYield(h, p)
    BY <2>1, <2>4 DEF InTimer, InYield, Phase, Open, NoPlock, OnlyPlock
  <2>5. CASE WithLk(h, p) \/ WithBoth(h, p) \/ InSleep(h, p)
    BY <2>5 DEF WithLk, WithBoth, InSleep, NoPlock, OnlyPlock
  <2> QED
    BY <1>5, <2>2, <2>3, <2>4, <2>5, Running
<1> QED
  BY <1>1, <1>2, <1>3, <1>4, <1>5

\* A hart that is on a stack works for that process, and a process whose lock is
\* free is on a stack exactly when it is RUNNING.
LEMMA InvMeansOneHart == SchedInv => OneHartPerProcess
<1> SUFFICES ASSUME SchedInv PROVE OneHartPerProcess
  OBVIOUS
<1>1. \A h \in Hart, p \in Proc : thread[h] = p => cproc[h] = p /\ state[p] = "RUNNING"
  BY Running DEF Runs
<1>2. \A h \in Hart : thread[h] # None => cproc[h] = thread[h]
  BY <1>1 DEF SchedInv, TypeOK
<1> QED
  BY <1>1, <1>2 DEF OneHartPerProcess, SchedInv, StackInv

\* From here on, facts about cardinalities are needed.
INSTANCE FiniteSetTheorems

\* noff is the number of locks held: at most one p->lock, and lk.
LEMMA NoffMeansHeld ==
  ASSUME SchedInv, NEW h \in Hart PROVE noff[h] = Cardinality(Held(h))
<1>1. Cardinality({}) = 0 /\ Cardinality({None}) = 1
  BY FS_EmptySet, FS_Singleton
<1>2. ASSUME NEW p \in Proc
      PROVE  Cardinality({p}) = 1 /\ Cardinality({p} \cup {None}) = 2
  <2>1. IsFiniteSet({p}) /\ Cardinality({p}) = 1 /\ None \notin {p}
    BY FS_Singleton, NoneApart
  <2>2. Cardinality({p} \cup {None}) = Cardinality({p}) + 1
    BY <2>1, FS_AddElement
  <2> QED
    BY <2>1, <2>2
<1>3. CASE NoPlock(h) /\ lk # h /\ noff[h] = 0
  <2>1. Held(h) = {}
    BY <1>3 DEF Held, NoPlock
  <2> QED
    BY <1>1, <1>3, <2>1
<1>4. CASE NoPlock(h) /\ lk = h /\ noff[h] = 1
  <2>1. Held(h) = {None}
    BY <1>4 DEF Held, NoPlock
  <2> QED
    BY <1>1, <1>4, <2>1
<1>5. ASSUME NEW p \in Proc, OnlyPlock(h, p) /\ lk # h /\ noff[h] = 1 PROVE noff[h] = Cardinality(Held(h))
  <2>1. Held(h) = {p}
    BY <1>5 DEF Held, OnlyPlock
  <2> QED
    BY <1>2, <1>5, <2>1
<1>6. ASSUME NEW p \in Proc, OnlyPlock(h, p) /\ lk = h /\ noff[h] = 2 PROVE noff[h] = Cardinality(Held(h))
  <2>1. Held(h) = {p} \cup {None}
    BY <1>6 DEF Held, OnlyPlock
  <2> QED
    BY <1>2, <1>6, <2>1
<1> QED
  BY <1>3, <1>4, <1>5, <1>6, HartFacts

\* The invariant implies all of SwitchesSafely.
LEMMA InvMeansSafe == SchedInv => SwitchesSafely
<1> SUFFICES ASSUME SchedInv PROVE SwitchesSafely
  OBVIOUS
<1>1. NoffCountsLocks
  BY NoffMeansHeld, HartFacts DEF NoffCountsLocks
<1>2. InterruptsRestored
  BY AtOpen DEF InterruptsRestored, At, Open, Outside
<1> QED
  BY <1>1, <1>2, InvMeansNoPanic, InvMeansOneHart DEF SwitchesSafely, SchedInv

\* The inductive invariant holds in every reachable state.
THEOREM Invariance == Safety => []SchedInv
  BY InitInv, NextInv, PTL DEF Safety

\* Context switches are safe for any set of harts and any number of processes:
\* noff counts the locks a hart holds, interrupts are on exactly where they must
\* be, none of the panics of spinlock.c and sched() is reached, and a kernel
\* stack is in use on one hart only (spinlock.c, proc.c sched, scheduler, sleep).
THEOREM SwitchingIsSafe == Safety => []SwitchesSafely
  BY Invariance, InvMeansSafe, PTL

\* No process sleeps through the wakeup() of the result it waits for: sleep()
\* takes p->lock before it releases lk, and wakeup() takes both (proc.c).
THEOREM WakeupsAreNotLost == Safety => []NoLostWakeup
<1>1. SchedInv => NoLostWakeup
  BY DEF SchedInv, WakeInv, NoLostWakeup
<1> QED
  BY <1>1, Invariance, PTL
=============================================================================
