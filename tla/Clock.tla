------------------------------- MODULE Clock -------------------------------
(***************************************************************************)
(* The clock and the processes that sleep on it: clockintr() on hart 0     *)
(* (trap.c), sys_sleep() (sysproc.c), and sleep(), wakeup() and kill()     *)
(* (proc.c) as far as they meet there.  ticks is a uint, here modulo W.    *)
(* Every p->lock and tickslock are held step by step where another actor   *)
(* can come in between.                                                    *)
(***************************************************************************)
EXTENDS Naturals

CONSTANTS NPROC,        \* the process slots
          W,            \* ticks wraps at W (2^32)
          Args          \* per process: the arguments it calls sleep() with

Sleeper == 1 .. NPROC
Free == 0
Timer == NPROC + 1

\* Every argument is less than what ticks counts to.
ASSUME ClockAssumption ==
    /\ NPROC \in Nat \ {0} /\ W \in Nat \ {0, 1}
    /\ DOMAIN Args = Sleeper /\ \A p \in Sleeper : Args[p] \subseteq 0 .. W - 2

VARIABLES ticks,
          tickslock,    \* who holds it: a process, Timer or Free
          plocked,      \* per process: it holds its p->lock on the way to sleep
          asleep,       \* per process: SLEEPING on ticks
          marked,       \* per process: killed
          at,           \* per process: where it is in sys_sleep()
          arg, ticks0,  \* per process: the locals n and ticks0
          woken,        \* the slots wakeup() has passed
          waited,       \* per process: the ticks since ticks0 was read
          naps          \* per process: how often it fell asleep after being killed

clockvars == <<ticks, tickslock, plocked, asleep, marked, at, arg, ticks0, woken, waited, naps>>

At == {"user", "test", "sleep", "sleeping", "done", "failed"}

ClockTypeOK ==
    /\ ticks \in 0 .. W - 1
    /\ tickslock \in 0 .. NPROC + 1
    /\ plocked \in [Sleeper -> BOOLEAN] /\ asleep \in [Sleeper -> BOOLEAN]
    /\ marked \in [Sleeper -> BOOLEAN]
    /\ at \in [Sleeper -> At]
    /\ arg \in [Sleeper -> 0 .. W - 2] /\ ticks0 \in [Sleeper -> 0 .. W - 1]
    /\ woken \in 0 .. NPROC
    /\ waited \in [Sleeper -> 0 .. W - 1]
    /\ naps \in [Sleeper -> 0 .. 2]

\* The machine has run for any time.
ClockInit ==
    /\ ticks \in 0 .. W - 1
    /\ tickslock = Free /\ woken = NPROC
    /\ plocked = [p \in Sleeper |-> FALSE] /\ asleep = [p \in Sleeper |-> FALSE]
    /\ marked = [p \in Sleeper |-> FALSE] /\ at = [p \in Sleeper |-> "user"]
    /\ arg = [p \in Sleeper |-> 0] /\ ticks0 = [p \in Sleeper |-> 0]
    /\ waited = [p \in Sleeper |-> 0] /\ naps = [p \in Sleeper |-> 0]

-----------------------------------------------------------------------------
(* sys_sleep() *)

\* sleep(n): a negative argument is 0.  acquire(&tickslock); ticks0 = ticks
Call(p) ==
    /\ at[p] = "user" /\ tickslock = Free
    /\ \E n \in Args[p] : arg' = [arg EXCEPT ![p] = n]
    /\ tickslock' = p /\ ticks0' = [ticks0 EXCEPT ![p] = ticks]
    /\ at' = [at EXCEPT ![p] = "test"]
    /\ UNCHANGED <<ticks, plocked, asleep, marked, woken, waited, naps>>

TooEarlySum(p) == ticks < (ticks0[p] + arg[p]) % W              \* mutant

\* while(ticks - ticks0 < n)
TooEarly(p) == (W + ticks - ticks0[p]) % W < arg[p]

\* The loop's test and killed(): return, or go on to sleep().
Test(p) ==
    /\ at[p] = "test"
    /\ IF TooEarly(p) /\ ~marked[p]
       THEN at' = [at EXCEPT ![p] = "sleep"] /\ UNCHANGED tickslock
       ELSE /\ at' = [at EXCEPT ![p] = IF TooEarly(p) THEN "failed" ELSE "done"]
            /\ tickslock' = Free
    /\ UNCHANGED <<ticks, plocked, asleep, marked, arg, ticks0, woken, waited, naps>>

\* sleep(): acquire(&p->lock); release(lk)
SleepLock(p) ==
    /\ at[p] = "sleep" /\ ~plocked[p]
    /\ plocked' = [plocked EXCEPT ![p] = TRUE] /\ tickslock' = Free
    /\ at' = [at EXCEPT ![p] = "sleeping"]
    /\ UNCHANGED <<ticks, asleep, marked, arg, ticks0, woken, waited, naps>>

\* ... p->state = SLEEPING; sched(), after which the scheduler releases p->lock.
Sleep(p) ==
    /\ at[p] = "sleeping" /\ plocked[p]
    /\ asleep' = [asleep EXCEPT ![p] = TRUE] /\ plocked' = [plocked EXCEPT ![p] = FALSE]
    /\ naps' = [naps EXCEPT ![p] = IF marked[p] THEN @ + 1 ELSE @]
    /\ UNCHANGED <<ticks, tickslock, marked, at, arg, ticks0, woken, waited>>

\* ... it runs again and acquires lk.
Awake(p) ==
    /\ at[p] = "sleeping" /\ ~plocked[p] /\ ~asleep[p] /\ tickslock = Free
    /\ tickslock' = p
    /\ at' = [at EXCEPT ![p] = "test"]
    /\ UNCHANGED <<ticks, plocked, asleep, marked, arg, ticks0, woken, waited, naps>>

\* The call returns and its locals are gone; a killed process exits and leaves
\* its slot to another.
Return(p) ==
    /\ at[p] \in {"done", "failed"}
    /\ at' = [at EXCEPT ![p] = "user"]
    /\ marked' = [marked EXCEPT ![p] = FALSE] /\ naps' = [naps EXCEPT ![p] = 0]
    /\ arg' = [arg EXCEPT ![p] = 0] /\ ticks0' = [ticks0 EXCEPT ![p] = 0]
    /\ waited' = [waited EXCEPT ![p] = 0]
    /\ UNCHANGED <<ticks, tickslock, plocked, asleep, woken>>

-----------------------------------------------------------------------------
(* Others *)

\* kill(pid of p)
Kill(p) ==
    /\ at[p] # "user" /\ ~plocked[p]
    /\ marked' = [marked EXCEPT ![p] = TRUE] /\ asleep' = [asleep EXCEPT ![p] = FALSE]
    /\ UNCHANGED <<ticks, tickslock, plocked, at, arg, ticks0, woken, waited, naps>>

Counting(p) == at[p] \in {"test", "sleep", "sleeping"}

TickSilent ==                                                   \* mutant
    /\ tickslock = Free
    /\ \A p \in Sleeper : Counting(p) => waited[p] < W - 1
    /\ ticks' = (ticks + 1) % W
    /\ waited' = [p \in Sleeper |-> IF Counting(p) THEN waited[p] + 1 ELSE waited[p]]
    /\ UNCHANGED <<tickslock, plocked, asleep, marked, at, arg, ticks0, woken, naps>>

\* clockintr(): acquire(&tickslock); ticks++.  No process is kept from running
\* until ticks has come round to its ticks0.
Tick ==
    /\ tickslock = Free
    /\ \A p \in Sleeper : Counting(p) => waited[p] < W - 1
    /\ tickslock' = Timer /\ woken' = 0
    /\ ticks' = (ticks + 1) % W
    /\ waited' = [p \in Sleeper |-> IF Counting(p) THEN waited[p] + 1 ELSE waited[p]]
    /\ UNCHANGED <<plocked, asleep, marked, at, arg, ticks0, naps>>

\* wakeup(&ticks): the next process, once its lock is free.
Wake ==
    LET p == woken + 1 IN
    /\ tickslock = Timer /\ woken < NPROC /\ ~plocked[p]
    /\ asleep' = [asleep EXCEPT ![p] = FALSE]
    /\ woken' = p
    /\ UNCHANGED <<ticks, tickslock, plocked, marked, at, arg, ticks0, waited, naps>>

\* release(&tickslock)
TickDone ==
    /\ tickslock = Timer /\ woken = NPROC
    /\ tickslock' = Free
    /\ UNCHANGED <<ticks, plocked, asleep, marked, at, arg, ticks0, woken, waited, naps>>

ClockStep(p) == Test(p) \/ SleepLock(p) \/ Sleep(p) \/ Awake(p) \/ Return(p)

ClockNext ==
    \/ \E p \in Sleeper : Call(p) \/ ClockStep(p) \/ Kill(p)
    \/ Tick \/ Wake \/ TickDone

ClockSafety == ClockInit /\ [][ClockNext]_clockvars

\* The timer goes on interrupting hart 0, and a process that spins for tickslock
\* gets it.
ClockFairness ==
    /\ \A p \in Sleeper : SF_clockvars(ClockStep(p))
    /\ SF_clockvars(Tick) /\ WF_clockvars(Wake) /\ WF_clockvars(TickDone)

-----------------------------------------------------------------------------
(* Properties *)

\* sleep(n) returns 0 only after n ticks, also when ticks wraps in between, and
\* -1 only when the process is killed; and a process that is killed falls asleep
\* at most once more, when kill() comes between the test and the sleep
\* (sysproc.c:60-70, proc.c:604-609).
SleepsLongEnough ==
    /\ ClockTypeOK
    /\ \A p \in Sleeper :
          /\ at[p] = "done" => waited[p] >= arg[p]
          /\ at[p] = "failed" => marked[p]
          /\ naps[p] <= 1

\* Who sleeps for a time comes back (sysproc.c:62-70, trap.c:166-171).
SleepEnds == \A p \in Sleeper : at[p] # "user" ~> at[p] = "user"
=============================================================================
