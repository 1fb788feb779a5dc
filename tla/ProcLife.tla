------------------------------ MODULE ProcLife ------------------------------
(***************************************************************************)
(* The life of a process (proc.c): allocproc(), fork(), exit(), wait(),    *)
(* reparent(), kill(), with the locks they take: wait_lock and one lock    *)
(* for each slot of the process table.  One step for each stretch of code  *)
(* between two points where another process can interfere.                 *)
(*                                                                         *)
(* RUNNABLE also stands for RUNNING: which process has a hart is the       *)
(* subject of Sched, which also shows that sleep() and wakeup() lose       *)
(* nothing; here they are one step each.                                   *)
(***************************************************************************)
EXTENDS Integers, FiniteSets

CONSTANTS NPROC,
          MaxPid,       \* bound: no fork() once this pid has been given out
          KillPids      \* the arguments of kill()

Slot == 1 .. NPROC
initproc == 1           \* the slot and the pid of the first process
None == 0               \* no process: a null pointer, a free lock

ASSUME ProcAssumption == NPROC \in Nat /\ NPROC > 1 /\ MaxPid \in Nat

VARIABLES state, pid, parent, killed,   \* fields of struct proc
          lock,                         \* who holds p->lock
          wait_lock, nextpid,
          pc,
          np,                           \* the child in fork()
          over,                         \* the pids whose process is no more
          panicked

table == <<state, pid, parent, killed>>
vars == <<table, lock, wait_lock, nextpid, pc, np, over, panicked>>

\* pc of a process: "none" while the slot has no thread, "swtch" from the end
\* of exit() until the scheduler is off its stack.
PC == {"none", "user", "fork_copy", "fork_parent", "fork_start",
       "exit", "exit_locked", "swtch",
       "wait", "wait_scan", "wait_sleep", "asleep"}

TypeOK ==
    /\ state \in [Slot -> {"UNUSED", "USED", "SLEEPING", "RUNNABLE", "ZOMBIE"}]
    /\ pid \in [Slot -> 0 .. MaxPid] /\ nextpid \in 1 .. MaxPid + 1
    /\ parent \in [Slot -> Slot \cup {None}]
    /\ killed \in [Slot -> BOOLEAN]
    /\ lock \in [Slot -> Slot \cup {None}] /\ wait_lock \in Slot \cup {None}
    /\ pc \in [Slot -> PC] /\ np \in [Slot -> Slot \cup {None}]
    /\ over \subseteq 1 .. MaxPid /\ panicked \in BOOLEAN

\* userinit() has made the first process.
Init ==
    /\ state = [p \in Slot |-> IF p = initproc THEN "RUNNABLE" ELSE "UNUSED"]
    /\ pid = [p \in Slot |-> IF p = initproc THEN 1 ELSE 0] /\ nextpid = 2
    /\ parent = [p \in Slot |-> None]
    /\ killed = [p \in Slot |-> FALSE]
    /\ lock = [p \in Slot |-> None] /\ wait_lock = None
    /\ pc = [p \in Slot |-> IF p = initproc THEN "user" ELSE "none"]
    /\ np = [p \in Slot |-> None]
    /\ over = {} /\ panicked = FALSE

Goto(p, l) == pc' = [pc EXCEPT ![p] = l]

\* The slot is ready for another process.
freeproc(c) ==
    /\ state' = [state EXCEPT ![c] = "UNUSED"]
    /\ pid' = [pid EXCEPT ![c] = 0]
    /\ parent' = [parent EXCEPT ![c] = None]
    /\ killed' = [killed EXCEPT ![c] = FALSE]
    /\ over' = over \cup {pid[c]}

\* A process starts no system call once it is killed.
Calls(p) == pc[p] = "user" /\ ~killed[p]

-----------------------------------------------------------------------------
(* fork() *)

\* allocproc() takes a free slot and returns with its lock held.
allocproc(p, c) ==
    /\ Calls(p) /\ nextpid <= MaxPid
    /\ lock[c] = None /\ state[c] = "UNUSED"
    /\ lock' = [lock EXCEPT ![c] = p]
    /\ pid' = [pid EXCEPT ![c] = nextpid] /\ nextpid' = nextpid + 1
    /\ state' = [state EXCEPT ![c] = "USED"]
    /\ np' = [np EXCEPT ![p] = c]
    /\ Goto(p, "fork_copy")
    /\ UNCHANGED <<parent, killed, wait_lock, over, panicked>>

\* There is no memory for the trapframe, the page table or the copy.
ForkFail(p) ==
    /\ pc[p] = "fork_copy"
    /\ freeproc(np[p])
    /\ lock' = [lock EXCEPT ![np[p]] = None]
    /\ np' = [np EXCEPT ![p] = None]
    /\ Goto(p, "user")
    /\ UNCHANGED <<wait_lock, nextpid, panicked>>

ForkCopied(p) ==
    /\ pc[p] = "fork_copy"
    /\ lock' = [lock EXCEPT ![np[p]] = None]
    /\ Goto(p, "fork_parent")
    /\ UNCHANGED <<table, wait_lock, nextpid, np, over, panicked>>

\* np->parent = p, under wait_lock.
ForkParent(p) ==
    /\ pc[p] = "fork_parent" /\ wait_lock = None
    /\ parent' = [parent EXCEPT ![np[p]] = p]
    /\ Goto(p, "fork_start")
    /\ UNCHANGED <<state, pid, killed, lock, wait_lock, nextpid, np, over, panicked>>

ForkStart(p) ==
    /\ pc[p] = "fork_start" /\ lock[np[p]] = None
    /\ state' = [state EXCEPT ![np[p]] = "RUNNABLE"]
    /\ pc' = [pc EXCEPT ![p] = "user", ![np[p]] = "user"]
    /\ np' = [np EXCEPT ![p] = None]
    /\ UNCHANGED <<pid, parent, killed, lock, wait_lock, nextpid, over, panicked>>

-----------------------------------------------------------------------------
(* exit() *)

\* exit() closes the files; that of the first process is a panic.
Exit(p) ==
    /\ pc[p] = "user"
    /\ IF p = initproc
       THEN panicked' = TRUE /\ UNCHANGED pc
       ELSE Goto(p, "exit") /\ UNCHANGED panicked
    /\ UNCHANGED <<table, lock, wait_lock, nextpid, np, over>>

\* The state and pc of the processes after wakeup() of the ones in s, which
\* sleep in wait() on themselves.
Sleeping(s) == {q \in s : state[q] = "SLEEPING"}
Awake(s) == [q \in Slot |-> IF q \in Sleeping(s) THEN "RUNNABLE" ELSE state[q]]
AwakePC(s, p, l) ==
    [q \in Slot |-> IF q = p THEN l ELSE IF q \in Sleeping(s) THEN "wait" ELSE pc[q]]

Children(p) == {c \in Slot : parent[c] = p}

ToWakeParent(p) == {parent[p]}                                  \* mutant
ToWakeInit(p) == {q \in {initproc} : Children(p) # {}}          \* mutant

\* wakeup(initproc), if there is a child to give away, and wakeup(p->parent).
ToWake(p) == {parent[p]} \cup {q \in {initproc} : Children(p) # {}}

\* The exiting process takes wait_lock, gives its children to init, and wakes
\* those who may wait for it or for them.
ExitReparent(p) ==
    /\ pc[p] = "exit" /\ wait_lock = None
    /\ wait_lock' = p
    /\ parent' = [c \in Slot |-> IF parent[c] = p THEN initproc ELSE parent[c]]
    /\ state' = Awake(ToWake(p))
    /\ pc' = AwakePC(ToWake(p), p, "exit_locked")
    /\ UNCHANGED <<pid, killed, lock, nextpid, np, over, panicked>>

ExitZombieUnlocked(p) ==                                        \* mutant
    /\ pc[p] = "exit_locked" /\ lock[p] = None
    /\ state' = [state EXCEPT ![p] = "ZOMBIE"]
    /\ wait_lock' = None
    /\ Goto(p, "swtch")
    /\ UNCHANGED <<pid, parent, killed, lock, nextpid, np, over, panicked>>

\* With p->lock held it becomes a zombie, and enters the scheduler.
ExitZombie(p) ==
    /\ pc[p] = "exit_locked" /\ lock[p] = None
    /\ lock' = [lock EXCEPT ![p] = p]
    /\ state' = [state EXCEPT ![p] = "ZOMBIE"]
    /\ wait_lock' = None
    /\ Goto(p, "swtch")
    /\ UNCHANGED <<pid, parent, killed, nextpid, np, over, panicked>>

\* scheduler() is on its own stack and releases p->lock.
SwitchedOff(p) ==
    /\ pc[p] = "swtch"
    /\ lock' = [lock EXCEPT ![p] = None]
    /\ Goto(p, "none")
    /\ UNCHANGED <<table, wait_lock, nextpid, np, over, panicked>>

-----------------------------------------------------------------------------
(* wait() *)

WaitCall(p) ==
    /\ Calls(p)
    /\ Goto(p, "wait")
    /\ UNCHANGED <<table, lock, wait_lock, nextpid, np, over, panicked>>

\* acquire(&wait_lock), at the start or at the end of sleep().
WaitLock(p) ==
    /\ pc[p] = "wait" /\ wait_lock = None
    /\ wait_lock' = p
    /\ Goto(p, "wait_scan")
    /\ UNCHANGED <<table, lock, nextpid, np, over, panicked>>

Zombies(p) == {c \in Children(p) : state[c] = "ZOMBIE"}
FirstZombie(p) == CHOOSE c \in Zombies(p) : \A d \in Zombies(p) : c <= d

\* wait() has the child's lock, so the child is off its stack.
WaitReap(p) ==
    /\ pc[p] = "wait_scan" /\ Zombies(p) # {}
    /\ lock[FirstZombie(p)] = None
    /\ freeproc(FirstZombie(p))
    /\ wait_lock' = None
    /\ Goto(p, "user")
    /\ UNCHANGED <<lock, nextpid, np, panicked>>

\* copyout() of the exit status fails, and the child stays a zombie.
WaitCopyFail(p) ==
    /\ pc[p] = "wait_scan" /\ Zombies(p) # {}
    /\ lock[FirstZombie(p)] = None /\ p # initproc
    /\ wait_lock' = None
    /\ Goto(p, "user")
    /\ UNCHANGED <<table, lock, nextpid, np, over, panicked>>

\* The process has no children, or has been killed: wait() returns -1.
WaitLeave(p) ==
    /\ pc[p] = "wait_scan" /\ Zombies(p) = {}
    /\ Children(p) = {} \/ killed[p]
    /\ wait_lock' = None
    /\ Goto(p, "user")
    /\ UNCHANGED <<table, lock, nextpid, np, over, panicked>>

WaitOn(p) ==
    /\ pc[p] = "wait_scan" /\ Zombies(p) = {}
    /\ Children(p) # {} /\ ~killed[p]
    /\ Goto(p, "wait_sleep")
    /\ UNCHANGED <<table, lock, wait_lock, nextpid, np, over, panicked>>

\* sleep(p, &wait_lock)
WaitSleep(p) ==
    /\ pc[p] = "wait_sleep" /\ lock[p] = None
    /\ state' = [state EXCEPT ![p] = "SLEEPING"]
    /\ wait_lock' = None
    /\ Goto(p, "asleep")
    /\ UNCHANGED <<pid, parent, killed, lock, nextpid, np, over, panicked>>

-----------------------------------------------------------------------------
\* kill(k) marks the first slot with that pid, and wakes its process if it
\* sleeps.
kill(k, t) ==
    /\ lock[t] = None
    /\ pid[t] = k /\ \A q \in 1 .. t - 1 : pid[q] # k
    /\ killed' = [killed EXCEPT ![t] = TRUE]
    /\ IF state[t] = "SLEEPING"
       THEN state' = [state EXCEPT ![t] = "RUNNABLE"] /\ Goto(t, "wait")
       ELSE UNCHANGED <<state, pc>>
    /\ UNCHANGED <<pid, parent, lock, wait_lock, nextpid, np, over, panicked>>

\* What a process does by itself once it is in the kernel.
Step(p) ==
    \/ ForkFail(p) \/ ForkCopied(p) \/ ForkParent(p) \/ ForkStart(p)
    \/ ExitReparent(p) \/ ExitZombie(p) \/ SwitchedOff(p)
    \/ WaitLock(p) \/ WaitReap(p) \/ WaitCopyFail(p) \/ WaitLeave(p)
    \/ WaitOn(p) \/ WaitSleep(p)

\* panic() never returns.
Halted == panicked /\ UNCHANGED vars

Next ==
    \/ /\ ~panicked
       /\ \/ \E p \in Slot :
                \/ Step(p) \/ Exit(p) \/ WaitCall(p)
                \/ \E c \in Slot : allocproc(p, c)
          \/ \E k \in KillPids, t \in Slot : kill(k, t)
    \/ Halted

Safety == Init /\ [][Next]_vars

\* A process in the kernel goes on, and gets a spinlock it keeps trying to
\* take; init calls wait() again and again (user/init.c).
Fairness ==
    /\ \A p \in Slot : SF_vars(~panicked /\ Step(p))
    /\ SF_vars(~panicked /\ WaitCall(initproc))

Spec == Safety /\ Fairness

-----------------------------------------------------------------------------
(* Properties *)

\* A slot is free only when nothing runs on its kernel stack any more: wait()
\* takes pp->lock, "make sure the child isn't still in exit() or swtch()"
\* (proc.c:403-404).
NoFreeOnStack == \A p \in Slot : state[p] \in {"UNUSED", "USED"} => pc[p] = "none"

\* While nobody is in the middle of exit(), the parent of every process is a
\* process that can still wait for it (proc.c:330-341, 366-369).
ParentAlive ==
    wait_lock = None =>
        \A p \in Slot : parent[p] # None =>
            state[parent[p]] \in {"RUNNABLE", "SLEEPING"} /\ pc[parent[p]] # "swtch"

\* A process that sleeps in wait() has children, and none of them is a zombie
\* it has not been woken for (proc.c:372, 430-433).
WaitNotMissed ==
    wait_lock = None =>
        \A p \in Slot : state[p] = "SLEEPING" => Children(p) # {} /\ Zombies(p) = {}

\* Every pid given out belongs to one process until that process is collected,
\* and to none afterwards: no zombie is collected twice or forgotten
\* (proc.c:92-103, 155-172).
PidsAccounted ==
    \A k \in 1 .. nextpid - 1 :
        Cardinality({p \in Slot : pid[p] = k}) = IF k \in over THEN 0 ELSE 1

\* Only the process kill() is given the pid of is marked (proc.c:594, "Kill the
\* process with the given pid."): a slot without a process never is.
UnusedNotKilled == \A p \in Slot : state[p] = "UNUSED" => ~killed[p]

\* The zombies that init has inherited, or had itself, are collected, down to
\* the last one once nobody forks any more (proc.c:330-341, user/init.c).
OrphansCollected == Zombies(initproc) # {} ~> Zombies(initproc) = {} \/ panicked

\* Processes, pids and parents agree, and no slot is reused under a process that
\* still runs on its stack or with the mark of an older one.
ProcessesAccounted ==
    TypeOK /\ NoFreeOnStack /\ ParentAlive /\ PidsAccounted /\ UnusedNotKilled
=============================================================================
