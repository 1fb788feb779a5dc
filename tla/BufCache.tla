------------------------------ MODULE BufCache ------------------------------
(***************************************************************************)
(* The buffer cache (kernel/bio.c) with the sleep locks of its buffers     *)
(* (kernel/sleeplock.c).  Processes bread a block, change it, write it     *)
(* through (bwrite) or leave it to the log (bpin in log_write, bwrite and  *)
(* bunpin in install_trans), and brelse it.                                *)
(*                                                                         *)
(* A section under bcache.lock or under a sleep lock's spin lock is one    *)
(* step, sleep() and wakeup() included (Sched).  A disk transfer is one    *)
(* step: the buffer is locked while it lasts.  A process uses one buffer   *)
(* at a time.                                                              *)
(***************************************************************************)
EXTENDS Integers, FiniteSets

CONSTANTS Proc, Block, Data,
          Buf,           \* bcache.buf
          None,
          MaxPins        \* how many blocks the log pins at a time

ASSUME BufAssumption ==
    /\ IsFiniteSet(Buf) /\ IsFiniteSet(Proc) /\ MaxPins \in Nat
    /\ None \notin Proc \cup Block \cup Data \cup Buf

VARIABLES disk,
          lru,           \* a buffer's place in bcache.head: 1 is the most recently used
          blockno, valid, refcnt, data,     \* struct buf
          lock,          \* b->lock: the process that holds it
          pinned,        \* the log has pinned the buffer
          pc, want, buf, \* per process: position, block asked for, buffer got
          panicked

bufs == <<blockno, valid, data>>
vars == <<disk, lru, bufs, refcnt, lock, pinned, pc, want, buf, panicked>>

\* Every buffer has a place of its own in the list.
Order == {f \in [Buf -> 1 .. Cardinality(Buf)] : \A b, c \in Buf : f[b] = f[c] => b = c}

TypeOK ==
    /\ disk \in [Block -> Data]
    /\ lru \in Order
    /\ blockno \in [Buf -> Block \cup {None}]
    /\ valid \in [Buf -> BOOLEAN] /\ data \in [Buf -> Data]
    /\ refcnt \in [Buf -> Nat]
    /\ lock \in [Buf -> Proc \cup {None}]
    /\ pinned \in [Buf -> BOOLEAN]
    /\ pc \in [Proc -> {"idle", "lock", "asleep", "got", "use", "dirty", "drop"}]
    /\ want \in [Proc -> Block \cup {None}] /\ buf \in [Proc -> Buf \cup {None}]
    /\ panicked \in BOOLEAN

\* binit(); the buffers are zero: device 0, no block.
Init ==
    /\ disk \in [Block -> Data]
    /\ lru = CHOOSE f \in Order : TRUE
    /\ blockno = [b \in Buf |-> None] /\ valid = [b \in Buf |-> FALSE]
    /\ \E v \in Data : data = [b \in Buf |-> v]
    /\ refcnt = [b \in Buf |-> 0]
    /\ lock = [b \in Buf |-> None] /\ pinned = [b \in Buf |-> FALSE]
    /\ pc = [p \in Proc |-> "idle"]
    /\ want = [p \in Proc |-> None] /\ buf = [p \in Proc |-> None]
    /\ panicked = FALSE

Goto(p, l) == pc' = [pc EXCEPT ![p] = l]

At(p, l) == ~panicked /\ pc[p] = l

Cached(k) == {b \in Buf : blockno[b] = k}

-----------------------------------------------------------------------------
(* bget *)

\* The block is cached.
BgetHit(p, k) ==
    /\ At(p, "idle")
    /\ \E b \in Cached(k) :
          /\ refcnt' = [refcnt EXCEPT ![b] = @ + 1]
          /\ buf' = [buf EXCEPT ![p] = b]
    /\ want' = [want EXCEPT ![p] = k]
    /\ Goto(p, "lock")
    /\ UNCHANGED <<disk, lru, bufs, lock, pinned, panicked>>

\* The least recently used buffer among those of B.
LeastRecent(B) == CHOOSE b \in B : \A c \in B : lru[c] <= lru[b]

Unused == {b \in Buf : refcnt[b] = 0}

BgetRecycleUnlocked(p, k) ==                                    \* mutant
    /\ At(p, "idle")
    /\ Cached(k) = {} /\ {c \in Buf : lock[c] = None} # {}
    /\ LET b == LeastRecent({c \in Buf : lock[c] = None}) IN
       /\ blockno' = [blockno EXCEPT ![b] = k]
       /\ valid' = [valid EXCEPT ![b] = FALSE]
       /\ refcnt' = [refcnt EXCEPT ![b] = 1]
       /\ buf' = [buf EXCEPT ![p] = b]
    /\ want' = [want EXCEPT ![p] = k]
    /\ Goto(p, "lock")
    /\ UNCHANGED <<disk, lru, data, lock, pinned, panicked>>

BgetRecycleUnchecked(p, k) ==                                   \* mutant
    /\ At(p, "idle")
    /\ Unused # {}
    /\ LET b == LeastRecent(Unused) IN
       /\ blockno' = [blockno EXCEPT ![b] = k]
       /\ valid' = [valid EXCEPT ![b] = FALSE]
       /\ refcnt' = [refcnt EXCEPT ![b] = 1]
       /\ buf' = [buf EXCEPT ![p] = b]
    /\ want' = [want EXCEPT ![p] = k]
    /\ Goto(p, "lock")
    /\ UNCHANGED <<disk, lru, data, lock, pinned, panicked>>

\* It is not: recycle the least recently used unused buffer.
BgetRecycle(p, k) ==
    /\ At(p, "idle")
    /\ Cached(k) = {} /\ Unused # {}
    /\ LET b == LeastRecent(Unused) IN
       /\ blockno' = [blockno EXCEPT ![b] = k]
       /\ valid' = [valid EXCEPT ![b] = FALSE]
       /\ refcnt' = [refcnt EXCEPT ![b] = 1]
       /\ buf' = [buf EXCEPT ![p] = b]
    /\ want' = [want EXCEPT ![p] = k]
    /\ Goto(p, "lock")
    /\ UNCHANGED <<disk, lru, data, lock, pinned, panicked>>

\* "bget: no buffers"
BgetPanic(p, k) ==
    /\ At(p, "idle")
    /\ Cached(k) = {} /\ Unused = {}
    /\ panicked' = TRUE
    /\ UNCHANGED <<disk, lru, bufs, refcnt, lock, pinned, pc, want, buf>>

\* acquiresleep(&b->lock): one turn of its loop.
acquiresleep(p) ==
    /\ At(p, "lock")
    /\ IF lock[buf[p]] = None
       THEN lock' = [lock EXCEPT ![buf[p]] = p] /\ Goto(p, "got")
       ELSE UNCHANGED lock /\ Goto(p, "asleep")
    /\ UNCHANGED <<disk, lru, bufs, refcnt, pinned, want, buf, panicked>>

-----------------------------------------------------------------------------
(* The rest of bread, and what the caller does with the buffer. *)

bread(p) ==
    /\ At(p, "got")
    /\ LET b == buf[p] IN
       /\ data' = [data EXCEPT ![b] = IF valid[b] THEN @ ELSE disk[blockno[b]]]
       /\ valid' = [valid EXCEPT ![b] = TRUE]
    /\ Goto(p, "use")
    /\ UNCHANGED <<disk, lru, blockno, refcnt, lock, pinned, want, buf, panicked>>

\* The caller changes b->data; it then calls bwrite or log_write.
Modify(p, v) ==
    /\ At(p, "use")
    /\ data' = [data EXCEPT ![buf[p]] = v]
    /\ Goto(p, "dirty")
    /\ UNCHANGED <<disk, lru, blockno, valid, refcnt, lock, pinned, want, buf, panicked>>

bwrite(p) ==
    /\ At(p, "dirty") /\ ~pinned[buf[p]]
    /\ disk' = [disk EXCEPT ![blockno[buf[p]]] = data[buf[p]]]
    /\ Goto(p, "use")
    /\ UNCHANGED <<lru, bufs, refcnt, lock, pinned, want, buf, panicked>>

\* bpin() in log_write(), unless the log has the block already.
bpin(p) ==
    /\ At(p, "dirty")
    /\ pinned[buf[p]] \/ Cardinality({b \in Buf : pinned[b]}) < MaxPins
    /\ refcnt' = [refcnt EXCEPT ![buf[p]] = IF pinned[buf[p]] THEN @ ELSE @ + 1]
    /\ pinned' = [pinned EXCEPT ![buf[p]] = TRUE]
    /\ Goto(p, "use")
    /\ UNCHANGED <<disk, lru, bufs, lock, want, buf, panicked>>

\* bwrite() and bunpin() in install_trans().
bunpin(p) ==
    /\ At(p, "use") /\ pinned[buf[p]]
    /\ disk' = [disk EXCEPT ![blockno[buf[p]]] = data[buf[p]]]
    /\ refcnt' = [refcnt EXCEPT ![buf[p]] = @ - 1]
    /\ pinned' = [pinned EXCEPT ![buf[p]] = FALSE]
    /\ UNCHANGED <<lru, bufs, lock, pc, want, buf, panicked>>

-----------------------------------------------------------------------------
(* brelse *)

releasesleep_silent(p) ==                                       \* mutant
    /\ At(p, "use")
    /\ lock' = [lock EXCEPT ![buf[p]] = None]
    /\ Goto(p, "drop")
    /\ UNCHANGED <<disk, lru, bufs, refcnt, pinned, want, buf, panicked>>

\* releasesleep(&b->lock) wakes everyone who waits for the buffer.
releasesleep(p) ==
    /\ At(p, "use")
    /\ lock' = [lock EXCEPT ![buf[p]] = None]
    /\ pc' = [q \in Proc |-> IF q = p THEN "drop"
                             ELSE IF pc[q] = "asleep" /\ buf[q] = buf[p] THEN "lock" ELSE pc[q]]
    /\ UNCHANGED <<disk, lru, bufs, refcnt, pinned, want, buf, panicked>>

\* b goes to the front, and what was before it one place back.
MoveToFront(b) ==
    [c \in Buf |-> IF c = b THEN 1 ELSE IF lru[c] < lru[b] THEN lru[c] + 1 ELSE lru[c]]

\* Then, under bcache.lock, drop the reference; an unused buffer goes to the
\* front of the list.
brelse(p) ==
    /\ At(p, "drop")
    /\ LET b == buf[p] IN
       /\ refcnt' = [refcnt EXCEPT ![b] = @ - 1]
       /\ lru' = IF refcnt[b] = 1 THEN MoveToFront(b) ELSE lru
    /\ buf' = [buf EXCEPT ![p] = None] /\ want' = [want EXCEPT ![p] = None]
    /\ Goto(p, "idle")
    /\ UNCHANGED <<disk, bufs, lock, pinned, panicked>>

-----------------------------------------------------------------------------

bget(p, k) == BgetHit(p, k) \/ BgetRecycle(p, k) \/ BgetPanic(p, k)

Step(p) == acquiresleep(p) \/ bread(p) \/ bwrite(p) \/ bpin(p) \/ brelse(p)

Next ==
    \E p \in Proc :
       \/ Step(p) \/ bunpin(p) \/ releasesleep(p)
       \/ \E k \in Block : bget(p, k)
       \/ \E v \in Data : Modify(p, v)

Safety == Init /\ [][Next]_vars

\* A process in bread or brelse goes on, and one that uses a buffer releases it
\* (after finitely many changes).
Fairness ==
    \A p \in Proc : WF_vars(Step(p)) /\ SF_vars(releasesleep(p))

Spec == Safety /\ Fairness

-----------------------------------------------------------------------------
(* Properties. *)

Using(p) == pc[p] \in {"use", "dirty"}

\* The contents of a block: the valid buffer's, else the disk's.
Content ==
    [k \in Block |->
        IF \E b \in Cached(k) : valid[b]
        THEN data[CHOOSE b \in Cached(k) : valid[b]] ELSE disk[k]]

Holder ==
    [k \in Block |->
        IF \E p \in Proc : Using(p) /\ want[p] = k
        THEN CHOOSE p \in Proc : Using(p) /\ want[p] = k ELSE None]

View == [p \in Proc |-> IF Using(p) THEN data[buf[p]] ELSE None]

Store == INSTANCE BlockStore WITH content <- Content, holder <- Holder, view <- View

\* Whatever is recycled, pinned or waited for, every process sees the last
\* contents of the block it asked for and has it to itself (bio.c:3-14).
OneCopy == Store!Spec

\* A block has at most one buffer (bget holds bcache.lock from its search to
\* the change of blockno, bio.c:62-86).
NoDuplicateBuffer ==
    \A b, c \in Buf : blockno[b] = blockno[c] /\ blockno[b] # None => b = c

\* refcnt counts the processes between bget and brelse and the log's pin, so a
\* buffer is recycled exactly when nobody can reach it.
RefcntExact ==
    \A b \in Buf :
       refcnt[b] = Cardinality({p \in Proc : buf[p] = b}) + (IF pinned[b] THEN 1 ELSE 0)

\* No lost wakeup: whoever sleeps for a buffer sleeps for one that is locked
\* (sleeplock.c:24-26, 37-39).
SleeperHasHolder ==
    \A p \in Proc : pc[p] = "asleep" => lock[buf[p]] # None

\* bget always returns a buffer (bio.c:55-57, "In either case, return locked
\* buffer.").
NoBgetPanic == ~panicked

\* A buffer that somebody waits for is given to somebody.
BufferGranted ==
    \A b \in Buf :
       (\E p \in Proc : buf[p] = b /\ pc[p] \in {"lock", "asleep", "got"})
          ~> (panicked \/ \E p \in Proc : buf[p] = b /\ Using(p))

\* The cache's bookkeeping: one buffer for a block, references that are exact,
\* and nobody asleep for a buffer that nobody holds.
BuffersAccounted ==
    TypeOK /\ NoDuplicateBuffer /\ RefcntExact /\ SleeperHasHolder
=============================================================================
