----------------------------- MODULE VirtioDisk -----------------------------
(***************************************************************************)
(* The disk driver (virtio_disk.c): virtio_disk_rw(), called by processes  *)
(* that hold the buffer they read or write, and virtio_disk_intr(), against*)
(* a device that fetches requests when it likes, finishes them in any      *)
(* order, and interrupts.                                                  *)
(*                                                                         *)
(* Between two sleeps virtio_disk_rw() runs under vdisk_lock, one step for *)
(* each stretch.  virtio_disk_intr() holds the lock too, but the device    *)
(* does not wait for it: every turn of its loop is a step.  kill() may     *)
(* wake a process that sleeps here at any time.                            *)
(*                                                                         *)
(* Of the data, all that counts is whether a buffer and its sectors agree, *)
(* which a transfer brings about in either direction.                      *)
(***************************************************************************)
EXTENDS Naturals, FiniteSets

CONSTANTS Proc, Buf,
          NUM,          \* descriptors
          RING,         \* entries of each ring: NUM in the code, where a third
                        \* would do, since a request takes three descriptors
          W,            \* ring indices are counted modulo W (2^16)
          NoBuf

ASSUME DiskAssumption ==
    /\ NUM \in Nat /\ NUM > 2
    /\ RING \in Nat /\ RING >= NUM \div 3
    /\ W \in Nat /\ W > RING /\ W % RING = 0
    /\ NoBuf \notin Buf

Desc == 0 .. NUM - 1
Ring == 0 .. RING - 1

VARIABLES free,                         \* the free descriptors
          desc,                         \* flags (is there a next?), next, and, in
                                        \* the first of a chain, the buffer that
                                        \* the addresses lead to
          info,                         \* info[], by first descriptor
          avail, avail_idx,             \* the ring of the driver
          used, used_dev,               \* the ring of the device
          used_idx,                     \* "we've looked this far in used"
          intr,                         \* whether virtio_disk_intr() is running
          fetched, taken,               \* device: index in avail, requests begun
          irq,                          \* device: interrupt status
          synced,                       \* the buffers whose data is the disk's
          busy,                         \* b->disk
          pc, head, mine,               \* of each process: idx[0] and its buffer
          panicked

queue == <<free, desc, info, avail, avail_idx>>
device == <<used, used_dev, fetched, taken, synced>>
vars == <<queue, device, used_idx, intr, irq, busy, pc, head, mine, panicked>>

Cleared == [more |-> FALSE, next |-> 0, addr |-> NoBuf]

TypeOK ==
    /\ free \subseteq Desc
    /\ desc \in [Desc -> [more : BOOLEAN, next : Desc, addr : Buf \cup {NoBuf}]]
    /\ info \in [Desc -> [b : Buf \cup {NoBuf}, ok : BOOLEAN]]
    /\ avail \in [Ring -> Desc] /\ avail_idx \in 0 .. W - 1
    /\ used \in [Ring -> Desc] /\ used_dev \in 0 .. W - 1
    /\ used_idx \in 0 .. W - 1 /\ intr \in BOOLEAN
    /\ fetched \in 0 .. W - 1 /\ taken \subseteq Desc /\ irq \in BOOLEAN
    /\ synced \subseteq Buf /\ busy \in [Buf -> BOOLEAN]
    /\ pc \in [Proc -> {"idle", "start", "no_desc", "io", "check"}]
    /\ head \in [Proc -> Desc] /\ mine \in [Proc -> Buf \cup {NoBuf}]
    /\ panicked \in BOOLEAN

\* virtio_disk_init()
Init ==
    /\ free = Desc /\ desc = [d \in Desc |-> Cleared]
    /\ info = [d \in Desc |-> [b |-> NoBuf, ok |-> TRUE]]
    /\ avail = [i \in Ring |-> 0] /\ avail_idx = 0
    /\ used = [i \in Ring |-> 0] /\ used_dev = 0 /\ used_idx = 0
    /\ intr = FALSE /\ fetched = 0 /\ taken = {} /\ irq = FALSE
    /\ synced = {} /\ busy = [b \in Buf |-> FALSE]
    /\ pc = [p \in Proc |-> "idle"] /\ head = [p \in Proc |-> 0]
    /\ mine = [p \in Proc |-> NoBuf]
    /\ panicked = FALSE

\* wakeup(): pc of the processes once p is at l and the sleepers at s are at t.
Wake(s, t, p, l) ==
    [q \in Proc |-> IF q = p THEN l ELSE IF pc[q] = s THEN t ELSE pc[q]]

-----------------------------------------------------------------------------
(* virtio_disk_rw() *)

\* A process that has locked a buffer calls virtio_disk_rw(): from bwrite() with
\* the content it has put there, from bread() with whatever the buffer held.
Call(p, b) ==
    /\ pc[p] = "idle"
    /\ \A q \in Proc : mine[q] # b
    /\ mine' = [mine EXCEPT ![p] = b]
    /\ synced' = synced \ {b}
    /\ pc' = [pc EXCEPT ![p] = "start"]
    /\ UNCHANGED <<queue, used, used_dev, fetched, taken, used_idx, intr, irq, busy, head, panicked>>

LowestOf(s) == CHOOSE d \in s : \A e \in s : d <= e

\* The three descriptors that alloc3_desc() takes: the lowest ones.
idx == LET d0 == LowestOf(free)
           d1 == LowestOf(free \ {d0})
       IN  <<d0, d1, LowestOf(free \ {d0, d1})>>

NoThree == Cardinality(free) < 3

\* alloc3_desc() fails.  It gives back what it took, which wakes the others
\* that wait for descriptors, and the process sleeps.
RwNoDesc(p) ==
    /\ pc[p] = "start" /\ ~intr /\ NoThree
    /\ pc' = IF free = {} THEN [pc EXCEPT ![p] = "no_desc"]
             ELSE Wake("no_desc", "start", p, "no_desc")
    /\ UNCHANGED <<queue, device, used_idx, intr, irq, busy, head, mine, panicked>>

\* A ring index is a uint16.
Inc(i) == (i + 1) % W

\* The chain is built and offered to the device.
Submit(p) ==
    /\ pc[p] = "start" /\ ~intr /\ ~NoThree
    /\ free' = free \ {idx[1], idx[2], idx[3]}
    /\ desc' = [desc EXCEPT
           ![idx[1]] = [more |-> TRUE, next |-> idx[2], addr |-> mine[p]],
           ![idx[2]] = [more |-> TRUE, next |-> idx[3], addr |-> NoBuf],
           ![idx[3]] = Cleared]
    /\ info' = [info EXCEPT ![idx[1]] = [b |-> mine[p], ok |-> FALSE]]
    /\ head' = [head EXCEPT ![p] = idx[1]]
    /\ avail' = [avail EXCEPT ![avail_idx % RING] = idx[1]]
    /\ avail_idx' = Inc(avail_idx)
    /\ pc' = [pc EXCEPT ![p] = "io"]
    /\ UNCHANGED <<device, used_idx, intr, irq, mine, panicked>>

RwSubmitStale(p) == Submit(p) /\ UNCHANGED busy            \* mutant
\* b->disk is set, and the process sleeps until it is clear.
RwSubmit(p) == Submit(p) /\ busy' = [busy EXCEPT ![mine[p]] = TRUE]

Sleep(p) ==
    /\ pc[p] = "check" /\ ~intr
    /\ pc' = [pc EXCEPT ![p] = "io"]
    /\ UNCHANGED <<queue, device, used_idx, intr, irq, busy, head, mine, panicked>>
\* The process is awake and its buffer is still with the device.
RwSleepAgain(p) == Sleep(p) /\ busy[mine[p]]

\* The descriptors free_chain(i) goes through.
Chain(i) ==
    LET second == desc[i].next
        third == desc[second].next
    IN  {i} \cup (IF desc[i].more
                  THEN {second} \cup (IF desc[second].more THEN {third} ELSE {})
                  ELSE {})

\* info[].b is cleared and free_chain() called; free_desc() panics if a
\* descriptor is free already.
Finish(p) ==
    /\ pc[p] = "check" /\ ~intr
    /\ info' = [info EXCEPT ![head[p]].b = NoBuf]
    /\ free' = free \cup Chain(head[p])
    /\ desc' = [d \in Desc |-> IF d \in Chain(head[p]) THEN Cleared ELSE desc[d]]
    /\ panicked' = (Chain(head[p]) \cap free # {})
    /\ mine' = [mine EXCEPT ![p] = NoBuf] /\ head' = [head EXCEPT ![p] = 0]
    /\ UNCHANGED <<avail, avail_idx, device, used_idx, intr, irq, busy>>

\* The request is finished, and free_desc() wakes those who wait for descriptors.
RwDone(p) == Finish(p) /\ ~busy[mine[p]] /\ pc' = Wake("no_desc", "start", p, "idle")

\* kill() makes a sleeping process runnable, whatever it sleeps for.
Kill(p) ==
    /\ pc[p] \in {"no_desc", "io"}
    /\ pc' = [pc EXCEPT ![p] = IF @ = "io" THEN "check" ELSE "start"]
    /\ UNCHANGED <<queue, device, used_idx, intr, irq, busy, head, mine, panicked>>

-----------------------------------------------------------------------------
(* virtio_disk_intr() *)

\* The handler takes vdisk_lock and acknowledges the interrupt.
IntrBegin ==
    /\ irq /\ ~intr
    /\ intr' = TRUE /\ irq' = FALSE
    /\ UNCHANGED <<queue, device, used_idx, busy, pc, head, mine, panicked>>

\* One completed request: its buffer is done, and whoever waits for it wakes.
Seen ==
    /\ intr /\ used_idx # used_dev
    /\ LET id == used[used_idx % RING]
           b == info[id].b
       IN  IF info[id].ok /\ b # NoBuf
           THEN /\ busy' = [busy EXCEPT ![b] = FALSE]
                /\ pc' = [q \in Proc |-> IF pc[q] = "io" /\ mine[q] = b THEN "check" ELSE pc[q]]
                /\ UNCHANGED panicked
           ELSE panicked' = TRUE /\ UNCHANGED <<busy, pc>>
    /\ used_idx' = Inc(used_idx)
    /\ UNCHANGED <<queue, device, irq, head, mine>>

IntrOnce == Seen /\ intr' = FALSE                               \* mutant
IntrOne == Seen /\ UNCHANGED intr

IntrEnd ==
    /\ intr /\ used_idx = used_dev
    /\ intr' = FALSE
    /\ UNCHANGED <<queue, device, used_idx, irq, busy, pc, head, mine, panicked>>

-----------------------------------------------------------------------------
(* The device *)

DevFetch ==
    /\ fetched # avail_idx
    /\ taken' = taken \cup {avail[fetched % RING]}
    /\ fetched' = Inc(fetched)
    /\ UNCHANGED <<queue, used, used_dev, synced, used_idx, intr, irq, busy, pc, head, mine, panicked>>

\* The device does the transfer, writes the status, puts the request in the
\* used ring and interrupts.
DevComplete(d) ==
    /\ d \in taken
    /\ taken' = taken \ {d}
    /\ synced' = synced \cup ({desc[d].addr} \ {NoBuf})
    /\ info' = [info EXCEPT ![d].ok = TRUE]
    /\ used' = [used EXCEPT ![used_dev % RING] = d]
    /\ used_dev' = Inc(used_dev)
    /\ irq' = TRUE
    /\ UNCHANGED <<free, desc, avail, avail_idx, fetched, used_idx, intr, busy, pc, head, mine, panicked>>

-----------------------------------------------------------------------------
Intr == IntrBegin \/ IntrOne \/ IntrEnd
Rw(p) ==
    \/ RwNoDesc(p) \/ RwSubmit(p) \/ RwSleepAgain(p) \/ RwDone(p)

Next ==
    /\ ~panicked
    /\ \/ Intr \/ DevFetch \/ \E d \in Desc : DevComplete(d)
       \/ \E p \in Proc :
             \/ Rw(p) \/ Kill(p)
             \/ \E b \in Buf : Call(p, b)

Safety == Init /\ [][Next]_vars

-----------------------------------------------------------------------------
(* Properties *)

Pending == {p \in Proc : pc[p] \in {"io", "check"}}

\* What the device works on is the chain of a process that waits for it, and
\* these chains have three descriptors each, share none and have none of the
\* free ones (virtio_disk.c:156-213, 281-289).
ChainsDisjoint ==
    /\ \A d \in taken : \E p \in Pending : head[p] = d
    /\ \A p \in Pending : Cardinality(Chain(head[p])) = 3 /\ Chain(head[p]) \cap free = {}
    /\ \A p, q \in Pending : p # q => Chain(head[p]) \cap Chain(head[q]) = {}
    /\ Cardinality(free) + 3 * Cardinality(Pending) = NUM

\* A request the device has finished and the driver has not seen has an
\* interrupt pending or a handler in its loop: acknowledging first, and then
\* looking at the ring, loses none (virtio_disk.c:296-325).
NoLostCompletion == used_idx # used_dev => irq \/ intr

\* A process that sleeps for its buffer sleeps for a request that is still with
\* the device or in the used ring (virtio_disk.c:281-284).
SleeperIsBusy == \A p \in Proc : pc[p] = "io" => busy[mine[p]]

\* A process that sleeps for descriptors has somebody to wake it: a request in
\* progress, or another that is awake and will give back what it takes.
DescWaiterHasWaker ==
    (\E p \in Proc : pc[p] = "no_desc") => Pending # {} \/ (\E p \in Proc : pc[p] = "start")

\* free_desc() and virtio_disk_intr() never panic.
NoDiskPanic == ~panicked

\* virtio_disk_rw() returns when the transfer has been done, and not before,
\* whoever woke the process (virtio_disk.c:281-291).
ReturnsWhenDone ==
    [][\A p \in Proc : pc[p] = "check" /\ pc'[p] = "idle" => mine[p] \in synced]_vars

\* The driver's bookkeeping: chains, free descriptors, sleepers and completions
\* agree, whatever order the device works in, and nothing panics.
RequestsAccounted ==
    /\ TypeOK /\ ChainsDisjoint /\ NoLostCompletion
    /\ SleeperIsBusy /\ DescWaiterHasWaker /\ NoDiskPanic
=============================================================================
