---------------------------- MODULE VirtioSteps ----------------------------
(***************************************************************************)
(* What the proofs about the disk driver and its device rest on: the rings *)
(* as windows that wrap, the invariant, and every step but the one that    *)
(* submits a request.                                                      *)
(***************************************************************************)
EXTENDS VirtioDisk, TLAPS

(* The rings.  Their indices wrap at W, and their places at RING. *)

\* The entries from index i up to index j, and the place of the k-th of them.
Span(i, j) == (W + j - i) % W

Slot(i, k) == ((i + k) % W) % RING

Entries(ring, i, j) == {ring[Slot(i, k)] : k \in 0 .. Span(i, j) - 1}
OnceEach(ring, i, j) ==
    \A k, l \in 0 .. Span(i, j) - 1 : ring[Slot(i, k)] = ring[Slot(i, l)] => k = l

\* What the assumption says of the sizes: a request takes three descriptors, so
\* that a ring has a place for every request there can be.
LEMMA Sizes ==
    /\ NUM \in Nat /\ RING \in Nat \ {0} /\ W \in Nat \ {0} /\ W > RING /\ W % RING = 0
    /\ \A n \in Nat : 3 * n <= NUM => n <= RING
<1>1. NUM \div 3 \in Nat /\ NUM \div 3 >= 1 /\ \A n \in Nat : 3 * n <= NUM => n <= NUM \div 3
  BY DiskAssumption
<1> QED
  BY <1>1, DiskAssumption

\* The ring once d is put at index j.
Put(ring, j, d) == [ring EXCEPT ![j % RING] = d]

-----------------------------------------------------------------------------
(* The inductive invariant. *)

\* What the device has been offered and has not fetched, and what it has
\* finished and the driver has not seen.
Offered == Entries(avail, fetched, avail_idx)

Returned == Entries(used, used_idx, used_dev)

InFlight == Offered \cup taken \cup Returned

\* A request is in one place at a time, and there once.
RingInv ==
    /\ OnceEach(avail, fetched, avail_idx) /\ OnceEach(used, used_idx, used_dev)
    /\ Offered \cap taken = {} /\ Offered \cap Returned = {} /\ taken \cap Returned = {}

\* A process is in virtio_disk_rw() with a buffer of its own.
OwnerInv ==
    /\ \A p \in Proc : pc[p] = "idle" <=> mine[p] = NoBuf
    /\ \A p, q \in Proc : mine[p] = mine[q] /\ mine[p] # NoBuf => p = q

\* The chain that starts at h is whole, leads to buffer b and is in use.
ChainOf(h, b) ==
    /\ desc[h].more /\ desc[desc[h].next].more
    /\ h # desc[h].next /\ h # desc[desc[h].next].next
    /\ desc[h].next # desc[desc[h].next].next
    /\ desc[h].addr = b /\ info[h].b = b
    /\ Chain(h) \cap free = {}

\* Every request in progress has such a chain, for itself.
ChainInv ==
    /\ \A p \in Pending : ChainOf(head[p], mine[p])
    /\ \A p, q \in Pending : p # q => Chain(head[p]) \cap Chain(head[q]) = {}

\* b->disk is set as long as the request is somewhere with the device, and when
\* the device has done the transfer the buffer agrees with the disk.
FlightInv ==
    /\ \A d \in InFlight : \E p \in Pending : head[p] = d
    /\ \A p \in Pending : busy[mine[p]] <=> head[p] \in InFlight
    /\ \A d \in Returned : info[d].ok
    /\ \A p \in Pending : head[p] \notin Offered \cup taken => mine[p] \in synced

\* Nobody waits for what has happened.
WaitInv == NoLostCompletion /\ SleeperIsBusy /\ DescWaiterHasWaker /\ ~panicked

CoreInv == TypeOK /\ RingInv /\ OwnerInv /\ ChainInv /\ FlightInv /\ WaitInv

\* A descriptor is free or belongs to a request.
CountInv == IsFiniteSet(Pending) /\ Cardinality(free) + 3 * Cardinality(Pending) = NUM

DriverInv == CoreInv /\ CountInv

-----------------------------------------------------------------------------
(* The steps that leave the rings as they are. *)

\* The chain of a request has three descriptors.
LEMMA ChainIs ==
    ASSUME NEW h, NEW b, ChainOf(h, b)
    PROVE  Chain(h) = {h, desc[h].next, desc[desc[h].next].next}
  BY DEF ChainOf, Chain

\* A pending process has a buffer that no other has, and a head no other has.
LEMMA PendingFacts ==
    ASSUME CoreInv
    PROVE  /\ \A p \in Pending : p \in Proc /\ mine[p] \in Buf /\ head[p] \in Desc
           /\ \A p, q \in Pending : mine[p] = mine[q] \/ head[p] = head[q] => p = q
<1>1. \A p \in Pending : p \in Proc /\ mine[p] \in Buf /\ head[p] \in Desc /\ mine[p] # NoBuf
  BY DiskAssumption DEF CoreInv, TypeOK, OwnerInv, Pending
<1>2. \A p \in Pending : head[p] \in Chain(head[p])
  BY DEF Chain
<1> QED
  BY <1>1, <1>2 DEF CoreInv, OwnerInv, ChainInv

\* Chains do not change when neither they, their buffers nor the pending
\* processes do.
LEMMA ChainsKept ==
    ASSUME ChainInv, Pending' = Pending, UNCHANGED <<free, desc, head>>,
           \A p \in Pending : mine'[p] = mine[p] /\ info'[head[p]].b = info[head[p]].b
    PROVE  ChainInv'
<1>1. \A h : Chain(h)' = Chain(h)
  BY DEF Chain
<1>2. \A p \in Pending : ChainOf(head[p], mine[p])'
  BY <1>1 DEF ChainInv, ChainOf
<1> QED
  BY <1>1, <1>2 DEF ChainInv

\* Requests stay where they are when nothing they depend on changes.
LEMMA FlightKept ==
    ASSUME FlightInv, RingInv, Pending' = Pending,
           UNCHANGED <<avail, avail_idx, fetched, taken, used, used_idx, used_dev, head, info>>,
           \A p \in Pending : /\ mine'[p] = mine[p] /\ (busy'[mine[p]] <=> busy[mine[p]])
                              /\ mine[p] \in synced => mine[p] \in synced'
    PROVE  FlightInv' /\ RingInv'
<1>1. Offered' = Offered /\ Returned' = Returned /\ InFlight' = InFlight /\ taken' = taken
  BY DEF Offered, Returned, InFlight
<1>2. RingInv'
  BY <1>1 DEF RingInv
<1>3. FlightInv'
  BY <1>1 DEF FlightInv
<1> QED
  BY <1>2, <1>3

\* A chain in use stays as it is when its descriptors do and none is freed.
LEMMA ChainSame ==
    ASSUME NEW h \in Desc, NEW b, ChainOf(h, b), \A d \in Chain(h) : desc'[d] = desc[d],
           info'[h].b = info[h].b, Chain(h) \cap free' = {}
    PROVE  Chain(h)' = Chain(h) /\ ChainOf(h, b)'
<1>1. Chain(h) = {h, desc[h].next, desc[desc[h].next].next}
  BY ChainIs
<1>2. desc'[h] = desc[h] /\ desc'[desc[h].next] = desc[desc[h].next]
  BY <1>1
<1>3. Chain(h)' = Chain(h)
  BY <1>2 DEF Chain
<1> QED
  BY <1>2, <1>3 DEF ChainOf

\* A request is with the device only if its descriptors are not free.
LEMMA FlightNotFree == ASSUME CoreInv PROVE InFlight \cap free = {}
<1>1. \A p \in Pending : head[p] \in Chain(head[p]) /\ Chain(head[p]) \cap free = {}
  BY DEF CoreInv, ChainInv, ChainOf, Chain
<1> QED
  BY <1>1 DEF CoreInv, FlightInv

\* A process enters virtio_disk_rw().
LEMMA CallKeeps ==
    ASSUME CoreInv, NEW p \in Proc, NEW b \in Buf, Call(p, b) PROVE CoreInv'
<1>1. /\ pc[p] = "idle" /\ pc' = [pc EXCEPT ![p] = "start"] /\ \A q \in Proc : mine[q] # b
      /\ mine' = [mine EXCEPT ![p] = b] /\ synced' = synced \ {b}
      /\ UNCHANGED <<queue, used, used_dev, fetched, taken, used_idx, intr, irq, busy, head, panicked>>
  BY DEF Call
<1>2. TypeOK'
  BY <1>1 DEF CoreInv, TypeOK, queue
<1>3. /\ \A q \in Proc : pc'[q] = IF q = p THEN "start" ELSE pc[q]
      /\ \A q \in Proc : mine'[q] = IF q = p THEN b ELSE mine[q]
  BY <1>1 DEF CoreInv, TypeOK
<1>4. Pending' = Pending /\ p \notin Pending
  BY <1>1, <1>3 DEF Pending
<1>5. \A q \in Pending : q \in Proc /\ q # p /\ mine'[q] = mine[q] /\ mine[q] # b
  BY <1>1, <1>3, <1>4 DEF Pending
<1>6. ChainInv'
  BY <1>1, <1>4, <1>5, ChainsKept DEF CoreInv, queue
<1>7. FlightInv' /\ RingInv'
  <2>1. \A q \in Pending : mine[q] \in synced => mine[q] \in synced'
    BY <1>1, <1>5
  <2> QED
    BY <1>1, <1>4, <1>5, <2>1, FlightKept DEF CoreInv, queue
<1>8. OwnerInv'
  BY <1>1, <1>3, DiskAssumption DEF CoreInv, OwnerInv
<1>9. WaitInv'
  <2>1. NoLostCompletion' /\ ~panicked'
    BY <1>1 DEF CoreInv, WaitInv, NoLostCompletion
  <2>2. SleeperIsBusy'
    BY <1>1, <1>3 DEF CoreInv, WaitInv, SleeperIsBusy
  <2>3. DescWaiterHasWaker'
    BY <1>3 DEF DescWaiterHasWaker
  <2> QED
    BY <2>1, <2>2, <2>3 DEF WaitInv
<1> QED
  BY <1>2, <1>6, <1>7, <1>8, <1>9 DEF CoreInv

\* A step that leaves everything but the processes alone, and moves them only
\* among those that wait for descriptors and those that wait for the device.
LEMMA MoveKeeps ==
    ASSUME CoreInv, UNCHANGED <<queue, device, used_idx, busy, head, mine, panicked>>,
           intr' \in BOOLEAN, irq' \in BOOLEAN,
           pc' \in [Proc -> {"idle", "start", "no_desc", "io", "check"}],
           \A q \in Proc : \/ pc'[q] = pc[q]
                           \/ pc[q] \in {"start", "no_desc"} /\ pc'[q] \in {"start", "no_desc"}
                           \/ pc[q] \in {"io", "check"} /\ pc'[q] \in {"io", "check"},
           NoLostCompletion', SleeperIsBusy', DescWaiterHasWaker'
    PROVE  CoreInv'
<1>1. TypeOK'
  BY DEF CoreInv, TypeOK, queue, device
<1>2. Pending' = Pending
  BY DEF Pending
<1>3. ChainInv'
  BY <1>2, ChainsKept DEF CoreInv, queue
<1>4. FlightInv' /\ RingInv'
  BY <1>2, FlightKept DEF CoreInv, queue, device
<1>5. OwnerInv'
  BY DEF CoreInv, OwnerInv
<1>6. WaitInv'
  BY DEF CoreInv, WaitInv
<1> QED
  BY <1>1, <1>3, <1>4, <1>5, <1>6 DEF CoreInv

\* Going to sleep, again or for descriptors, and being woken by kill().
LEMMA SleepKeeps ==
    ASSUME CoreInv, NEW p \in Proc, RwNoDesc(p) \/ RwSleepAgain(p) \/ Kill(p),
           RwNoDesc(p) => Pending # {}
    PROVE  CoreInv'
<1>1. /\ UNCHANGED <<queue, device, used_idx, intr, irq, busy, head, mine, panicked>>
      /\ intr' \in BOOLEAN /\ irq' \in BOOLEAN
  BY DEF RwNoDesc, RwSleepAgain, Sleep, Kill, CoreInv, TypeOK
<1>2. NoLostCompletion'
  BY <1>1 DEF device, CoreInv, WaitInv, NoLostCompletion
<1>3. CASE RwNoDesc(p)
  <2>1. /\ pc[p] = "start" /\ pc' \in [Proc -> {"idle", "start", "no_desc", "io", "check"}]
        /\ \A q \in Proc : \/ pc'[q] = pc[q]
                           \/ pc[q] \in {"start", "no_desc"} /\ pc'[q] \in {"start", "no_desc"}
    BY <1>3 DEF RwNoDesc, Wake, CoreInv, TypeOK
  <2>2. Pending' = Pending
    BY <2>1 DEF Pending
  <2>3. Pending # {}
    BY <1>3
  <2>4. DescWaiterHasWaker' /\ SleeperIsBusy'
    BY <1>1, <2>1, <2>2, <2>3 DEF DescWaiterHasWaker, CoreInv, WaitInv, SleeperIsBusy
  <2> QED
    BY <1>1, <1>2, <2>1, <2>4, MoveKeeps
<1>4. CASE RwSleepAgain(p)
  <2>1. /\ pc[p] = "check" /\ pc' = [pc EXCEPT ![p] = "io"] /\ busy[mine[p]]
    BY <1>4 DEF RwSleepAgain, Sleep
  <2>2. /\ pc' \in [Proc -> {"idle", "start", "no_desc", "io", "check"}]
        /\ \A q \in Proc : pc'[q] = IF q = p THEN "io" ELSE pc[q]
    BY <2>1 DEF CoreInv, TypeOK
  <2>3. SleeperIsBusy'
    BY <1>1, <2>1, <2>2 DEF CoreInv, WaitInv, SleeperIsBusy
  <2>4. DescWaiterHasWaker'
    BY <2>1, <2>2 DEF CoreInv, WaitInv, DescWaiterHasWaker, Pending
  <2> QED
    BY <1>1, <1>2, <2>1, <2>2, <2>3, <2>4, MoveKeeps
<1>5. CASE Kill(p)
  <2>1. /\ pc[p] \in {"no_desc", "io"}
        /\ pc' = [pc EXCEPT ![p] = IF pc[p] = "io" THEN "check" ELSE "start"]
    BY <1>5 DEF Kill
  <2>2. /\ pc' \in [Proc -> {"idle", "start", "no_desc", "io", "check"}]
        /\ \A q \in Proc : pc'[q] = IF q = p THEN (IF pc[p] = "io" THEN "check" ELSE "start") ELSE pc[q]
    BY <2>1 DEF CoreInv, TypeOK
  <2>3. SleeperIsBusy'
    BY <1>1, <2>1, <2>2 DEF CoreInv, WaitInv, SleeperIsBusy
  <2>4. DescWaiterHasWaker'
    BY <2>1, <2>2 DEF CoreInv, WaitInv, DescWaiterHasWaker, Pending
  <2> QED
    BY <1>1, <1>2, <2>1, <2>2, <2>3, <2>4, MoveKeeps
<1> QED
  BY <1>3, <1>4, <1>5

\* The handler starts and ends.
LEMMA IntrKeeps == ASSUME CoreInv, IntrBegin \/ IntrEnd PROVE CoreInv'
<1>1. /\ UNCHANGED <<queue, device, used_idx, busy, pc, head, mine, panicked>>
      /\ intr' \in BOOLEAN /\ irq' \in BOOLEAN
  BY Zenon DEF IntrBegin, IntrEnd, CoreInv, TypeOK
<1>2. NoLostCompletion'
  BY <1>1 DEF IntrBegin, IntrEnd, NoLostCompletion, device
<1>3. SleeperIsBusy' /\ DescWaiterHasWaker'
  BY <1>1 DEF CoreInv, WaitInv, SleeperIsBusy, DescWaiterHasWaker, Pending
<1>4. pc' \in [Proc -> {"idle", "start", "no_desc", "io", "check"}]
  BY <1>1 DEF CoreInv, TypeOK
<1> QED
  BY <1>1, <1>2, <1>3, <1>4, MoveKeeps

\* A request is done: its process returns, and its descriptors are free.
LEMMA DoneKeeps ==
    ASSUME CoreInv, NEW p \in Proc, RwDone(p) PROVE CoreInv' /\ mine[p] \in synced
<1>1. PICK h \in Desc : h = head[p]
  BY DEF CoreInv, TypeOK
<1> DEFINE C == Chain(h)
           m == mine[p]
<1>2. /\ pc[p] = "check" /\ ~busy[m] /\ info' = [info EXCEPT ![h].b = NoBuf]
      /\ free' = free \cup C /\ desc' = [d \in Desc |-> IF d \in C THEN Cleared ELSE desc[d]]
      /\ panicked' = (C \cap free # {})
      /\ mine' = [mine EXCEPT ![p] = NoBuf] /\ head' = [head EXCEPT ![p] = 0]
      /\ pc' = [q \in Proc |-> IF q = p THEN "idle" ELSE IF pc[q] = "no_desc" THEN "start" ELSE pc[q]]
      /\ UNCHANGED <<avail, avail_idx, device, used_idx, intr, irq, busy>>
  BY <1>1 DEF RwDone, Finish, Wake
<1>3. p \in Pending /\ m \in Buf
  BY <1>2, PendingFacts DEF Pending
<1>4. ChainOf(h, m)
  BY <1>1, <1>3 DEF CoreInv, ChainInv
<1>5. C = {h, desc[h].next, desc[desc[h].next].next}
  BY <1>4, ChainIs
<1>6. h \in C /\ C \subseteq Desc /\ C \cap free = {}
  <2>1. desc[h].next \in Desc /\ desc[desc[h].next].next \in Desc
    BY DEF CoreInv, TypeOK
  <2>2. C \cap free = {}
    BY <1>4 DEF ChainOf
  <2> QED
    BY <1>5, <2>1, <2>2
<1>7. h \notin InFlight /\ m \in synced
  BY <1>1, <1>2, <1>3 DEF CoreInv, FlightInv, InFlight
<1> HIDE DEF C, m
<1>8. /\ \A q \in Proc : pc'[q] = IF q = p THEN "idle" ELSE IF pc[q] = "no_desc" THEN "start" ELSE pc[q]
      /\ \A q \in Proc : head'[q] = IF q = p THEN 0 ELSE head[q]
      /\ \A q \in Proc : mine'[q] = IF q = p THEN NoBuf ELSE mine[q]
      /\ \A d \in Desc : d \notin C => desc'[d] = desc[d]
      /\ \A d \in Desc : d # h => info'[d].b = info[d].b
      /\ \A d \in Desc : info'[d].ok <=> info[d].ok
  BY <1>2 DEF CoreInv, TypeOK
<1>9. TypeOK'
  <2>1. desc' \in [Desc -> [more : BOOLEAN, next : Desc, addr : Buf \cup {NoBuf}]]
    <3>1. Cleared \in [more : BOOLEAN, next : Desc, addr : Buf \cup {NoBuf}]
      BY Sizes, DiskAssumption DEF Cleared, Desc
    <3> DEFINE R == [more : BOOLEAN, next : Desc, addr : Buf \cup {NoBuf}]
    <3>2. Cleared \in R /\ desc \in [Desc -> R]
      BY <3>1 DEF CoreInv, TypeOK
    <3> HIDE DEF R
    <3>3. desc' \in [Desc -> R]
      BY <1>2, <3>2
    <3> QED
      BY <3>3 DEF R
  <2>2. info' \in [Desc -> [b : Buf \cup {NoBuf}, ok : BOOLEAN]]
    BY <1>2, Zenon DEF CoreInv, TypeOK
  <2>3. free' \subseteq Desc /\ panicked' \in BOOLEAN
    BY <1>2, <1>6 DEF CoreInv, TypeOK
  <2>4. /\ pc' \in [Proc -> {"idle", "start", "no_desc", "io", "check"}]
        /\ head' \in [Proc -> Desc] /\ mine' \in [Proc -> Buf \cup {NoBuf}]
    BY <1>2, Sizes, DiskAssumption DEF CoreInv, TypeOK, Desc
  <2> QED
    BY <1>2, <2>1, <2>2, <2>3, <2>4 DEF CoreInv, TypeOK, device
<1>10. Pending' = Pending \ {p}
  BY <1>8 DEF Pending
<1>11. \A q \in Pending \ {p} : /\ q \in Pending /\ q \in Proc /\ q # p /\ head'[q] = head[q] /\ mine'[q] = mine[q]
                                 /\ head[q] \in Desc /\ head[q] # h
  BY <1>1, <1>3, <1>8, <1>10, PendingFacts
<1>12. Offered' = Offered /\ Returned' = Returned /\ taken' = taken /\ InFlight' = InFlight
  BY <1>2 DEF Offered, Returned, InFlight, device
<1>13. RingInv'
  BY <1>2, <1>12 DEF CoreInv, RingInv, device
<1>14. \A q \in Pending \ {p} : Chain(head[q])' = Chain(head[q]) /\ ChainOf(head[q], mine[q])'
  <2> SUFFICES ASSUME NEW q \in Pending \ {p}
               PROVE  Chain(head[q])' = Chain(head[q]) /\ ChainOf(head[q], mine[q])'
    OBVIOUS
  <2>1. PICK k \in Desc : k = head[q] /\ k = head'[q]
    BY <1>11
  <2>2. PICK x : x = mine[q] /\ x = mine'[q]
    BY <1>11
  <2>3. ChainOf(k, x) /\ Chain(k) \cap free = {} /\ k \in Chain(k) /\ Chain(k) \cap C = {} /\ k # h
    <3>1. ChainOf(k, x)
      BY <1>11, <2>1, <2>2 DEF CoreInv, ChainInv
    <3>2. Chain(k) \cap C = {} /\ k # h
      BY <1>1, <1>3, <1>11, <2>1 DEF CoreInv, ChainInv, C
    <3> QED
      BY <3>1, <3>2 DEF ChainOf, Chain
  <2>4. Chain(k) \subseteq Desc
    <3>1. desc[k].next \in Desc /\ desc[desc[k].next].next \in Desc
      BY DEF CoreInv, TypeOK
    <3>2. Chain(k) = {k, desc[k].next, desc[desc[k].next].next}
      BY <2>3, ChainIs
    <3> QED
      BY <3>1, <3>2
  <2>5. /\ \A d \in Chain(k) : desc'[d] = desc[d]
        /\ info'[k].b = info[k].b /\ Chain(k) \cap free' = {}
    BY <1>2, <1>8, <2>3, <2>4
  <2>6. Chain(k)' = Chain(k) /\ ChainOf(k, x)'
    BY <2>3, <2>5, ChainSame
  <2> QED
    BY <2>1, <2>2, <2>6, Zenon DEF Chain, ChainOf
<1>15. \A q, r \in Pending \ {p} : q # r => Chain(head[q])' \cap Chain(head[r])' = {}
  BY <1>14 DEF CoreInv, ChainInv
<1>16. ChainInv'
  BY <1>10, <1>14, <1>15, Zenon DEF ChainInv
<1>17. FlightInv'
  <2>1. \A d \in InFlight' : \E q \in Pending \ {p} : head'[q] = d
    BY <1>1, <1>7, <1>11, <1>12 DEF CoreInv, FlightInv
  <2>2. \A q \in Pending \ {p} : busy'[mine'[q]] <=> head'[q] \in InFlight'
    BY <1>2, <1>11, <1>12 DEF CoreInv, FlightInv
  <2>3. \A d \in Returned' : info'[d].ok
    <3>1. \A d \in Returned : d \in Desc /\ info[d].ok
      BY PendingFacts DEF CoreInv, FlightInv, InFlight
    <3> QED
      BY <1>8, <1>12, <3>1
  <2>4. \A q \in Pending \ {p} : head'[q] \notin Offered' \cup taken' => mine'[q] \in synced'
    BY <1>2, <1>11, <1>12 DEF CoreInv, FlightInv, device
  <2> QED
    BY <1>10, <2>1, <2>2, <2>3, <2>4, Zenon DEF FlightInv
<1>18. OwnerInv'
  BY <1>8 DEF CoreInv, OwnerInv
<1>19. WaitInv'
  <2>1. NoLostCompletion' /\ ~panicked'
    BY <1>2, <1>6, Zenon DEF CoreInv, WaitInv, NoLostCompletion, device
  <2>2. SleeperIsBusy'
    BY <1>2, <1>8 DEF CoreInv, WaitInv, SleeperIsBusy
  <2>3. DescWaiterHasWaker'
    BY <1>8, Zenon DEF DescWaiterHasWaker
  <2> QED
    BY <2>1, <2>2, <2>3 DEF WaitInv
<1> QED
  BY <1>7, <1>9, <1>13, <1>16, <1>17, <1>18, <1>19 DEF CoreInv, m

-----------------------------------------------------------------------------
(* Rings: what is in them when an entry is put in or taken out. *)

\* What division by n leaves.
LEMMA DivMod ==
    ASSUME NEW a \in Nat, NEW n \in Nat \ {0}
    PROVE  /\ a \div n \in Nat /\ a % n \in 0 .. n - 1 /\ a = n * (a \div n) + (a % n)
  OBVIOUS

\* It is the only way to divide.
LEMMA DivUnique ==
    ASSUME NEW n \in Nat \ {0}, NEW p \in Nat, NEW q \in Nat,
           NEW r \in 0 .. n - 1, NEW s \in 0 .. n - 1, n * p + r = n * q + s
    PROVE  r = s
<1>1. ASSUME NEW u \in Nat, NEW v \in Nat, u < v PROVE n * u + n <= n * v
  <2>1. n * (u + 1) <= n * v
    BY <1>1
  <2> QED
    BY <2>1
<1>2. n * p \in Nat /\ n * q \in Nat
  OBVIOUS
<1>3. p = q \/ p < q \/ q < p
  OBVIOUS
<1> QED
  BY <1>1, <1>2, <1>3

\* Places that are less than n apart differ.
LEMMA ModDiffers ==
    ASSUME NEW n \in Nat \ {0}, NEW a \in Nat, NEW b \in Nat, a < b, b < a + n
    PROVE  a % n # b % n
<1> DEFINE p == a \div n
           q == b \div n
           r == a % n
<1>1. p \in Nat /\ q \in Nat /\ r \in 0 .. n - 1 /\ a = n * p + r /\ b = n * q + (b % n)
  BY DivMod, Zenon
<1> HIDE DEF p, q, r
<1> SUFFICES ASSUME b % n = r PROVE FALSE
  BY DEF r
<1>2. n * p \in Nat /\ n * q \in Nat
  BY <1>1
<1>3. n * p < n * q /\ n * q < n * p + n
  BY <1>1, <1>2
<1>4. n * p + n = n * (p + 1)
  BY <1>1
<1>5. q <= p \/ q >= p + 1
  BY <1>1
<1>6. q <= p => n * q <= n * p
  BY <1>1
<1>7. q >= p + 1 => n * q >= n * (p + 1)
  BY <1>1
<1> QED
  BY <1>2, <1>3, <1>4, <1>5, <1>6, <1>7

\* Wrapping an index at W does not change its place.
LEMMA WrapKeepsPlace == \A a \in Nat : (a % W) % RING = a % RING
<1> TAKE a \in Nat
<1> DEFINE c == W \div RING
           q == a \div W
           r == a % W
           u == r \div RING
           s == r % RING
           v == a \div RING
<1>1. c \in Nat /\ W = RING * c
  <2>1. c \in Nat /\ W = RING * c + 0
    BY Sizes, DivMod
  <2> HIDE DEF c
  <2> QED
    BY <2>1, Sizes
<1>2. q \in Nat /\ r \in Nat /\ a = W * q + r
  BY Sizes, DivMod
<1> HIDE DEF r, q
<1>3. u \in Nat /\ s \in 0 .. RING - 1 /\ r = RING * u + s
  BY <1>2, Sizes, DivMod, Zenon
<1>4. v \in Nat /\ a % RING \in 0 .. RING - 1 /\ a = RING * v + (a % RING)
  BY Sizes, DivMod, Zenon
<1> HIDE DEF c, u, s, v
<1>5. c * q \in Nat /\ RING \in Nat
  BY <1>1, <1>2, Sizes
<1>6. W * q = RING * (c * q)
  BY <1>1, <1>2, Sizes
<1>7. a = RING * (c * q + u) + s
  BY <1>2, <1>3, <1>5, <1>6
<1>8. c * q + u \in Nat
  BY <1>3, <1>5
<1>9. s = a % RING
  <2> DEFINE w == c * q + u
             t == a % RING
  <2>1. w \in Nat /\ t \in 0 .. RING - 1 /\ RING * w + s = RING * v + t
    BY <1>4, <1>7, <1>8
  <2> HIDE DEF w, t
  <2> QED
    BY <1>3, <1>4, <2>1, Sizes, DivUnique, Zenon DEF t
<1> QED
  BY <1>9 DEF r, s

\* An index wraps once at most.
LEMMA Wraps ==
    ASSUME NEW i \in 0 .. W - 1, NEW k \in 0 .. W
    PROVE  (i + k) % W = IF i + k < W THEN i + k ELSE i + k - W
<1> DEFINE m == (i + k) % W
           q == (i + k) \div W
<1>0. i + k \in Nat
  BY Sizes
<1>1. q \in Nat /\ m \in 0 .. W - 1 /\ i + k = W * q + m
  BY <1>0, Sizes, DivMod, Zenon
<1> HIDE DEF m, q
<1>2. W * 0 = 0 /\ W * 1 = W
  BY Sizes
<1>3. i + k < W => i + k \in 0 .. W - 1 /\ i + k = W * 0 + (i + k)
  BY <1>2, Sizes
<1>4. i + k >= W => i + k - W \in 0 .. W - 1 /\ i + k = W * 1 + (i + k - W)
  BY <1>2, Sizes
<1>5. i + k < W => m = i + k
  BY <1>1, <1>3, Sizes, DivUnique
<1>6. i + k >= W => m = i + k - W
  BY <1>1, <1>4, Sizes, DivUnique
<1> QED
  BY <1>5, <1>6, Sizes DEF m

\* How the span changes, and how places are counted from another index.
LEMMA SpanFacts ==
    ASSUME NEW i \in 0 .. W - 1, NEW j \in 0 .. W - 1
    PROVE  /\ Inc(i) \in 0 .. W - 1
           /\ Span(i, j) \in 0 .. W - 1 /\ (i + Span(i, j)) % W = j
           /\ Span(i, i) = 0 /\ (i # j => Span(i, j) > 0 /\ Span(Inc(i), j) = Span(i, j) - 1)
           /\ Span(i, j) < W - 1 => Span(i, Inc(j)) = Span(i, j) + 1
<1>1. Inc(i) = (IF i + 1 < W THEN i + 1 ELSE 0) /\ Inc(j) = IF j + 1 < W THEN j + 1 ELSE 0
  <2>1. \A a \in 0 .. W - 1 : (a + 1) % W = IF a + 1 < W THEN a + 1 ELSE a + 1 - W
    <3>1. 1 \in 0 .. W
      BY Sizes
    <3> QED
      BY <3>1, Wraps
  <2> QED
    BY <2>1, Sizes DEF Inc
<1>2. \A a, b \in 0 .. W - 1 : Span(a, b) = IF b < a THEN W + b - a ELSE b - a
  <2> TAKE a, b \in 0 .. W - 1
  <2>1. W - a \in 0 .. W /\ b + (W - a) = W + b - a
    BY Sizes
  <2>2. (b + (W - a)) % W = IF b + (W - a) < W THEN b + (W - a) ELSE b + (W - a) - W
    BY <2>1, Wraps
  <2> QED
    BY <2>1, <2>2, Sizes DEF Span
<1>3. Inc(i) \in 0 .. W - 1 /\ Inc(j) \in 0 .. W - 1
  BY <1>1, Sizes
<1>4. Span(i, j) \in 0 .. W - 1
  BY <1>2, Sizes
<1>5. (i + Span(i, j)) % W = j
  <2>1. (i + Span(i, j)) % W = IF i + Span(i, j) < W THEN i + Span(i, j) ELSE i + Span(i, j) - W
    <3> DEFINE n == Span(i, j)
    <3>1. n \in 0 .. W
      BY <1>4, Sizes
    <3> HIDE DEF n
    <3>2. (i + n) % W = IF i + n < W THEN i + n ELSE i + n - W
      BY <3>1, Wraps
    <3> QED
      BY <3>2 DEF n
  <2> QED
    BY <1>2, <2>1, Sizes
<1>6. Span(i, i) = 0
  BY <1>2, Sizes
<1>7. i # j => Span(i, j) > 0 /\ Span(Inc(i), j) = Span(i, j) - 1
  BY <1>1, <1>2, <1>3, Sizes
<1>8. Span(i, j) < W - 1 => Span(i, Inc(j)) = Span(i, j) + 1
  <2>1. /\ Span(i, j) = IF j < i THEN W + j - i ELSE j - i
        /\ Span(i, Inc(j)) = IF Inc(j) < i THEN W + Inc(j) - i ELSE Inc(j) - i
    BY <1>2, <1>3
  <2> QED
    BY <1>1, <2>1, Sizes
<1> QED
  BY <1>3, <1>4, <1>5, <1>6, <1>7, <1>8

\* Where the entries of a ring are: less than RING of them have places of their own.
LEMMA SlotFacts ==
    ASSUME NEW i \in 0 .. W - 1
    PROVE  /\ \A k \in Nat : Slot(i, k) = (i + k) % RING /\ Slot(i, k) \in Ring
           /\ Slot(i, 0) = i % RING
           /\ \A k \in Nat : Slot(Inc(i), k) = Slot(i, k + 1)
           /\ \A k, l \in 0 .. RING - 1 : Slot(i, k) = Slot(i, l) => k = l
<1>1. ASSUME NEW k \in Nat PROVE Slot(i, k) = (i + k) % RING /\ Slot(i, k) \in Ring
  <2>1. i + k \in Nat
    BY Sizes
  <2>2. Slot(i, k) = (i + k) % RING
    BY <2>1, WrapKeepsPlace DEF Slot
  <2>3. (i + k) % RING \in 0 .. RING - 1
    BY <2>1, Sizes, DivMod
  <2> QED
    BY <2>2, <2>3 DEF Ring
<1>2. ASSUME NEW k \in Nat PROVE Slot(Inc(i), k) = Slot(i, k + 1)
  <2> DEFINE q == (i + 1) \div W
             m == (i + 1) % W
             c == W \div RING
  <2>0. i + 1 \in Nat /\ i + (k + 1) \in Nat
    BY Sizes
  <2>1. q \in Nat /\ m \in 0 .. W - 1 /\ i + 1 = W * q + m
    BY <2>0, Sizes, DivMod, Zenon
  <2>2. c \in Nat /\ W = RING * c
    <3>1. c \in Nat /\ W = RING * c + 0
      BY Sizes, DivMod
    <3> HIDE DEF c
    <3> QED
      BY <3>1, Sizes
  <2> HIDE DEF q, m, c
  <2> DEFINE x == (m + k) \div RING
             y == (m + k) % RING
             z == (i + (k + 1)) \div RING
             t == (i + (k + 1)) % RING
  <2>3. x \in Nat /\ y \in 0 .. RING - 1 /\ m + k = RING * x + y
    <3>1. m + k \in Nat
      BY <2>1
    <3> QED
      BY <3>1, Sizes, DivMod, Zenon
  <2>4. z \in Nat /\ t \in 0 .. RING - 1 /\ i + (k + 1) = RING * z + t
    BY <2>0, Sizes, DivMod, Zenon
  <2> HIDE DEF x, y, z, t
  <2>5. c * q \in Nat /\ W * q = RING * (c * q)
    BY <2>1, <2>2, Sizes
  <2>6. RING * (c * q + x) = RING * (c * q) + RING * x
    BY <2>3, <2>5, Sizes
  <2>7. RING * (c * q + x) + y = RING * z + t /\ c * q + x \in Nat
    BY <2>1, <2>3, <2>4, <2>5, <2>6, Sizes
  <2>8. y = t
    <3> DEFINE w == c * q + x
    <3>1. w \in Nat /\ RING * w + y = RING * z + t
      BY <2>7
    <3> HIDE DEF w
    <3> QED
      BY <2>3, <2>4, <3>1, Sizes, DivUnique
  <2>9. Slot(i, k + 1) = t /\ Slot(m, k) = y
    <3>1. m + k \in Nat /\ i + (k + 1) \in Nat
      BY <2>1
    <3> QED
      BY <3>1, WrapKeepsPlace DEF Slot, t, y
  <2> QED
    BY <2>8, <2>9 DEF Inc, m
<1>3. ASSUME NEW k \in 0 .. RING - 1, NEW l \in 0 .. RING - 1, k < l PROVE Slot(i, k) # Slot(i, l)
  <2>1. /\ i + k \in Nat /\ i + l \in Nat /\ i + k < i + l /\ i + l < i + k + RING
        /\ k \in Nat /\ l \in Nat
    BY <1>3, Sizes
  <2>2. (i + k) % RING # (i + l) % RING
    BY <2>1, Sizes, ModDiffers, Zenon
  <2> QED
    BY <1>1, <2>1, <2>2
<1> QED
  BY <1>1, <1>2, <1>3, Sizes

\* A ring from an index to itself is empty.
LEMMA RingEmpty ==
    ASSUME NEW ring, NEW i \in 0 .. W - 1 PROVE Entries(ring, i, i) = {} /\ OnceEach(ring, i, i)
<1>1. Span(i, i) = 0
  BY SpanFacts
<1> QED
  BY <1>1 DEF Entries, OnceEach

\* An entry is put at the end, where there is room.
LEMMA RingPut ==
    ASSUME NEW ring \in [Ring -> Desc], NEW i \in 0 .. W - 1, NEW j \in 0 .. W - 1, NEW d \in Desc,
           Span(i, j) < RING, OnceEach(ring, i, j), d \notin Entries(ring, i, j)
    PROVE  /\ Entries(Put(ring, j, d), i, Inc(j)) = Entries(ring, i, j) \cup {d}
           /\ OnceEach(Put(ring, j, d), i, Inc(j))
<1> DEFINE n == Span(i, j)
           new == Put(ring, j, d)
<1>1. n \in 0 .. RING - 1 /\ Span(i, Inc(j)) = n + 1
  <2>1. Span(i, j) \in 0 .. W - 1 /\ (Span(i, j) < W - 1 => Span(i, Inc(j)) = Span(i, j) + 1)
    BY SpanFacts
  <2> QED
    BY <2>1, Sizes
<1>2. Slot(i, n) = j % RING
  BY SpanFacts DEF Slot
<1> HIDE DEF n
<1>3. /\ \A k \in 0 .. n : Slot(i, k) \in Ring
      /\ \A k \in 0 .. n - 1 : Slot(i, k) # Slot(i, n)
  <2>1. \A k, l \in 0 .. RING - 1 : Slot(i, k) = Slot(i, l) => k = l
    BY SlotFacts
  <2>2. \A k \in Nat : Slot(i, k) \in Ring
    BY SlotFacts
  <2>3. \A k \in 0 .. n - 1 : k \in 0 .. RING - 1 /\ k # n
    BY <1>1, Sizes
  <2> QED
    BY <1>1, <2>1, <2>2, <2>3, Sizes
<1>4. new[Slot(i, n)] = d /\ \A k \in 0 .. n - 1 : new[Slot(i, k)] = ring[Slot(i, k)]
  <2>1. Slot(i, n) \in Ring /\ \A k \in 0 .. n - 1 : Slot(i, k) \in Ring
    BY <1>1, <1>3, Sizes
  <2> QED
    BY <1>2, <1>3, <2>1 DEF Put
<1> HIDE DEF new
<1>5. \A k \in 0 .. (n + 1) - 1 : k \in 0 .. n - 1 \/ k = n
  BY <1>1, Sizes
<1>6. n \in 0 .. (n + 1) - 1 /\ \A k \in 0 .. n - 1 : k \in 0 .. (n + 1) - 1
  BY <1>1, Sizes
<1>7. \A k \in 0 .. n - 1 : ring[Slot(i, k)] # d
  BY DEF Entries, n
<1>8. Entries(new, i, Inc(j)) = Entries(ring, i, j) \cup {d}
  <2>1. Entries(new, i, Inc(j)) = {new[Slot(i, k)] : k \in 0 .. (n + 1) - 1}
    BY <1>1 DEF Entries
  <2>2. Entries(ring, i, j) = {ring[Slot(i, k)] : k \in 0 .. n - 1}
    BY DEF Entries, n
  <2> QED
    BY <1>4, <1>5, <1>6, <2>1, <2>2
<1>9. OnceEach(new, i, Inc(j))
  <2>1. \A k, l \in 0 .. n - 1 : ring[Slot(i, k)] = ring[Slot(i, l)] => k = l
    BY DEF OnceEach, n
  <2>2. \A k, l \in 0 .. (n + 1) - 1 : new[Slot(i, k)] = new[Slot(i, l)] => k = l
    BY <1>4, <1>5, <1>7, <2>1
  <2> QED
    BY <1>1, <2>2 DEF OnceEach
<1> QED
  BY <1>8, <1>9 DEF new

\* The first entry is taken.
LEMMA RingGet ==
    ASSUME NEW ring \in [Ring -> Desc], NEW i \in 0 .. W - 1, NEW j \in 0 .. W - 1,
           i # j, OnceEach(ring, i, j)
    PROVE  /\ ring[i % RING] \in Entries(ring, i, j)
           /\ Entries(ring, Inc(i), j) = Entries(ring, i, j) \ {ring[i % RING]}
           /\ OnceEach(ring, Inc(i), j)
<1> DEFINE n == Span(i, j)
<1>1. n \in Nat /\ n > 0 /\ Span(Inc(i), j) = n - 1
  BY SpanFacts, Sizes
<1>2. Slot(i, 0) = i % RING /\ \A k \in Nat : Slot(Inc(i), k) = Slot(i, k + 1)
  BY SlotFacts
<1>3. \A k, l \in 0 .. n - 1 : ring[Slot(i, k)] = ring[Slot(i, l)] => k = l
  BY DEF OnceEach
<1>4. Entries(ring, i, j) = {ring[Slot(i, k)] : k \in 0 .. n - 1}
  BY DEF Entries
<1>5. Entries(ring, Inc(i), j) = {ring[Slot(Inc(i), k)] : k \in 0 .. (n - 1) - 1}
  BY <1>1 DEF Entries
<1> HIDE DEF n
<1>6. \A k \in 0 .. (n - 1) - 1 : k \in Nat /\ k + 1 \in 0 .. n - 1 /\ k + 1 # 0
  BY <1>1
<1>7. \A k \in 0 .. n - 1 : k = 0 \/ (k - 1 \in 0 .. (n - 1) - 1 /\ (k - 1) + 1 = k)
  BY <1>1
<1>8. 0 \in 0 .. n - 1
  BY <1>1
<1>9. Entries(ring, Inc(i), j) = Entries(ring, i, j) \ {ring[i % RING]}
  <2>1. ASSUME NEW e \in Entries(ring, Inc(i), j) PROVE e \in Entries(ring, i, j) \ {ring[i % RING]}
    BY <1>2, <1>3, <1>4, <1>5, <1>6, <1>8
  <2>2. ASSUME NEW e \in Entries(ring, i, j), e # ring[i % RING] PROVE e \in Entries(ring, Inc(i), j)
    <3>1. PICK k \in 0 .. n - 1 : e = ring[Slot(i, k)]
      BY <1>4
    <3>2. k # 0
      BY <1>2, <2>2, <3>1
    <3>3. k - 1 \in 0 .. (n - 1) - 1 /\ e = ring[Slot(Inc(i), k - 1)]
      BY <1>2, <1>6, <1>7, <3>1, <3>2
    <3> QED
      BY <1>5, <3>3
  <2> QED
    BY <2>1, <2>2
<1>10. OnceEach(ring, Inc(i), j)
  <2> SUFFICES ASSUME NEW k \in 0 .. (n - 1) - 1, NEW l \in 0 .. (n - 1) - 1,
                      ring[Slot(Inc(i), k)] = ring[Slot(Inc(i), l)]
               PROVE  k = l
    BY <1>1 DEF OnceEach
  <2>1. k + 1 = l + 1
    BY <1>2, <1>3, <1>6
  <2> QED
    BY <1>6, <2>1
<1> QED
  BY <1>2, <1>4, <1>8, <1>9, <1>10

-----------------------------------------------------------------------------
(* The steps that fill and empty the rings. *)

\* The initial state satisfies the invariant.
LEMMA CoreInit == Init => CoreInv
<1> SUFFICES ASSUME Init PROVE CoreInv
  OBVIOUS
<1>1. 0 \in Desc /\ 0 \in 0 .. W - 1
  BY Sizes, DiskAssumption DEF Desc
<1>2. TypeOK
  <2>1. Cleared \in [more : BOOLEAN, next : Desc, addr : Buf \cup {NoBuf}]
    BY <1>1 DEF Cleared
  <2>2. desc \in [Desc -> [more : BOOLEAN, next : Desc, addr : Buf \cup {NoBuf}]]
    <3> HIDE DEF Cleared
    <3> QED
      BY <2>1, Zenon DEF Init
  <2>3. info \in [Desc -> [b : Buf \cup {NoBuf}, ok : BOOLEAN]]
    BY DEF Init
  <2>4. busy \in [Buf -> BOOLEAN]
    BY Zenon DEF Init
  <2> QED
    BY <1>1, <2>2, <2>3, <2>4, Zenon DEF Init, TypeOK
<1>3. Offered = {} /\ Returned = {} /\ InFlight = {} /\ RingInv
  BY <1>1, RingEmpty DEF Init, RingInv, Offered, Returned, InFlight
<1>4. Pending = {}
  BY DEF Init, Pending
<1>6. ChainInv
  BY <1>4 DEF ChainInv
<1>7. FlightInv /\ OwnerInv
  BY <1>3, <1>4 DEF Init, FlightInv, OwnerInv
<1>8. WaitInv
  BY DEF Init, WaitInv, NoLostCompletion, SleeperIsBusy, DescWaiterHasWaker
<1> QED
  BY <1>2, <1>3, <1>6, <1>7, <1>8 DEF CoreInv

\* The device fetches a request.
LEMMA FetchKeeps == ASSUME CoreInv, DevFetch PROVE CoreInv'
<1> DEFINE d == avail[fetched % RING]
<1>1. /\ fetched # avail_idx /\ taken' = taken \cup {d} /\ fetched' = Inc(fetched)
      /\ UNCHANGED <<queue, used, used_dev, synced, used_idx, intr, irq, busy, pc, head, mine, panicked>>
  BY DEF DevFetch
<1>2. /\ avail \in [Ring -> Desc] /\ fetched \in 0 .. W - 1 /\ avail_idx \in 0 .. W - 1
      /\ OnceEach(avail, fetched, avail_idx)
  BY DEF CoreInv, TypeOK, RingInv
<1>3. /\ d \in Offered /\ Offered' = Offered \ {d} /\ OnceEach(avail, fetched, avail_idx)'
  BY <1>1, <1>2, RingGet DEF Offered, queue
<1>4. d \in Desc /\ fetched' \in 0 .. W - 1
  <2>1. fetched % RING \in Ring
    BY <1>2, Sizes, DivMod DEF Ring
  <2>2. Inc(fetched) \in 0 .. W - 1
    BY <1>2, SpanFacts
  <2> QED
    BY <1>1, <1>2, <2>1, <2>2
<1> HIDE DEF d
<1>5. TypeOK'
  BY <1>1, <1>4 DEF CoreInv, TypeOK, queue
<1>6. Pending' = Pending /\ Returned' = Returned
  BY <1>1 DEF Pending, Returned
<1>7. RingInv'
  BY <1>1, <1>3, <1>6 DEF CoreInv, RingInv
<1>8. ChainInv'
  BY <1>1, <1>6, ChainsKept DEF CoreInv, queue
<1>9. InFlight' = InFlight /\ Offered' \cup taken' = Offered \cup taken
  BY <1>1, <1>3, <1>6 DEF InFlight
<1>10. FlightInv'
  BY <1>1, <1>6, <1>9 DEF CoreInv, FlightInv, queue
<1>11. OwnerInv'
  BY <1>1 DEF CoreInv, OwnerInv
<1>12. WaitInv'
  BY <1>1, <1>6 DEF CoreInv, WaitInv, NoLostCompletion, SleeperIsBusy, DescWaiterHasWaker
<1> QED
  BY <1>5, <1>7, <1>8, <1>10, <1>11, <1>12 DEF CoreInv

\* The device finishes a request.
LEMMA CompleteKeeps ==
    ASSUME CoreInv, NEW d \in Desc, DevComplete(d), Span(used_idx, used_dev) < RING
    PROVE  CoreInv'
<1>1. /\ d \in taken /\ taken' = taken \ {d}
      /\ synced' = synced \cup ({desc[d].addr} \ {NoBuf})
      /\ info' = [info EXCEPT ![d].ok = TRUE]
      /\ used' = [used EXCEPT ![used_dev % RING] = d] /\ used_dev' = Inc(used_dev) /\ irq'
      /\ UNCHANGED <<free, desc, avail, avail_idx, fetched, used_idx, intr, busy, pc, head, mine, panicked>>
  BY DEF DevComplete
<1>2. /\ used \in [Ring -> Desc] /\ used_idx \in 0 .. W - 1 /\ used_dev \in 0 .. W - 1
      /\ OnceEach(used, used_idx, used_dev) /\ d \notin Returned /\ d \notin Offered
  BY <1>1 DEF CoreInv, TypeOK, RingInv
<1>3. Returned' = Returned \cup {d} /\ OnceEach(used, used_idx, used_dev)'
  <2>2. used' = Put(used, used_dev, d) /\ d \notin Entries(used, used_idx, used_dev)
    BY <1>1, <1>2 DEF Returned, Put
  <2>3. /\ Entries(used', used_idx, Inc(used_dev)) = Entries(used, used_idx, used_dev) \cup {d}
        /\ OnceEach(used', used_idx, Inc(used_dev))
    BY <1>2, <2>2, RingPut
  <2> QED
    BY <1>1, <2>3, Zenon DEF Returned
<1>4. /\ \A e \in Desc : info'[e].b = info[e].b /\ (info[e].ok => info'[e].ok)
      /\ info'[d].ok /\ info' \in [Desc -> [b : Buf \cup {NoBuf}, ok : BOOLEAN]]
  BY <1>1, Zenon DEF CoreInv, TypeOK
<1>5. used' \in [Ring -> Desc] /\ used_dev' \in 0 .. W - 1
  BY <1>1, <1>2, SpanFacts, Zenon
<1>6. synced' \subseteq Buf
  BY <1>1 DEF CoreInv, TypeOK
<1>7. TypeOK'
  BY <1>1, <1>4, <1>5, <1>6 DEF CoreInv, TypeOK
<1>8. Pending' = Pending /\ Offered' = Offered
  BY <1>1 DEF Pending, Offered
<1>9. InFlight' = InFlight
  BY <1>1, <1>3, <1>8 DEF InFlight
<1>10. RingInv'
  BY <1>1, <1>2, <1>3, <1>8 DEF CoreInv, RingInv
<1>11. \A p \in Pending : head[p] \in Desc
  BY PendingFacts
<1>12. ChainInv'
  BY <1>1, <1>4, <1>8, <1>11, ChainsKept DEF CoreInv
<1>13. FlightInv'
  <2>1. \A e \in Returned : e \in Desc
    BY <1>11 DEF CoreInv, FlightInv, InFlight
  <2>2. \A e \in Returned' : info'[e].ok
    BY <1>3, <1>4, <2>1 DEF CoreInv, FlightInv
  <2>3. \A p \in Pending : head[p] \notin Offered' \cup taken' => mine[p] \in synced'
    <3> SUFFICES ASSUME NEW p \in Pending, head[p] \notin Offered' \cup taken'
                 PROVE  mine[p] \in synced'
      OBVIOUS
    <3>1. CASE head[p] = d
      <4>1. desc[d].addr = mine[p] /\ mine[p] # NoBuf
        BY <3>1, PendingFacts, DiskAssumption, Zenon DEF CoreInv, ChainInv, ChainOf
      <4> QED
        BY <1>1, <4>1
    <3>2. CASE head[p] # d
      BY <1>1, <1>8, <3>2 DEF CoreInv, FlightInv
    <3> QED
      BY <3>1, <3>2
  <2> QED
    BY <1>1, <1>8, <1>9, <2>2, <2>3 DEF CoreInv, FlightInv
<1>14. OwnerInv'
  BY <1>1 DEF CoreInv, OwnerInv
<1>15. WaitInv'
  BY <1>1, <1>8 DEF CoreInv, WaitInv, NoLostCompletion, SleeperIsBusy, DescWaiterHasWaker
<1> QED
  BY <1>7, <1>10, <1>12, <1>13, <1>14, <1>15 DEF CoreInv

\* The handler sees a finished request.
LEMMA SeenKeeps == ASSUME CoreInv, IntrOne PROVE CoreInv'
<1> DEFINE d == used[used_idx % RING]
           b == info[d].b
<1>1. /\ intr /\ used_idx # used_dev /\ used_idx' = Inc(used_idx) /\ intr' = intr
      /\ UNCHANGED <<queue, device, irq, head, mine>>
      /\ IF info[d].ok /\ b # NoBuf
         THEN /\ busy' = [busy EXCEPT ![b] = FALSE]
              /\ pc' = [q \in Proc |-> IF pc[q] = "io" /\ mine[q] = b THEN "check" ELSE pc[q]]
              /\ UNCHANGED panicked
         ELSE panicked' = TRUE /\ UNCHANGED <<busy, pc>>
  BY DEF IntrOne, Seen
<1>2. /\ used \in [Ring -> Desc] /\ used_idx \in 0 .. W - 1 /\ used_dev \in 0 .. W - 1
      /\ OnceEach(used, used_idx, used_dev)
  BY DEF CoreInv, TypeOK, RingInv
<1>3. /\ d \in Returned /\ Returned' = Returned \ {d} /\ OnceEach(used, used_idx, used_dev)'
  BY <1>1, <1>2, RingGet DEF Returned, device
<1>4. used_idx' \in 0 .. W - 1
  BY <1>1, <1>2, SpanFacts
<1> HIDE DEF d
<1>5. PICK p \in Pending : head[p] = d
  BY <1>3 DEF CoreInv, FlightInv, InFlight
<1>6. info[d].ok /\ b = mine[p] /\ b \in Buf /\ p \in Proc /\ b # NoBuf
  <2>1. info[d].ok
    BY <1>3 DEF CoreInv, FlightInv
  <2>2. mine[p] \in Buf /\ p \in Proc
    BY PendingFacts
  <2>3. b = mine[p]
    BY <1>5 DEF CoreInv, ChainInv, ChainOf
  <2>4. NoBuf \notin Buf
    BY DiskAssumption
  <2> QED
    BY <2>1, <2>2, <2>3, <2>4
<1> HIDE DEF b
<1>7. /\ busy' = [busy EXCEPT ![b] = FALSE] /\ panicked' = panicked
      /\ pc' = [q \in Proc |-> IF pc[q] = "io" /\ mine[q] = b THEN "check" ELSE pc[q]]
  BY <1>1, <1>6
<1>8. /\ busy' \in [Buf -> BOOLEAN] /\ ~busy'[b]
      /\ \A c \in Buf : c # b => (busy'[c] <=> busy[c])
  <2>1. busy \in [Buf -> BOOLEAN]
    BY DEF CoreInv, TypeOK
  <2> QED
    BY <1>6, <1>7, <2>1
<1>9. /\ pc' \in [Proc -> {"idle", "start", "no_desc", "io", "check"}]
      /\ \A q \in Proc : \/ pc'[q] = pc[q]
                         \/ pc[q] = "io" /\ pc'[q] = "check"
      /\ \A q \in Proc : pc'[q] = "io" => pc[q] = "io" /\ mine[q] # b
  BY <1>7 DEF CoreInv, TypeOK
<1>10. TypeOK'
  BY <1>1, <1>4, <1>7, <1>8, <1>9 DEF CoreInv, TypeOK, queue, device
<1>11. Pending' = Pending /\ Offered' = Offered /\ taken' = taken
  BY <1>1, <1>9 DEF Pending, Offered, queue, device
<1>12. RingInv'
  BY <1>1, <1>3, <1>11 DEF CoreInv, RingInv, queue, device
<1>13. ChainInv'
  BY <1>1, <1>11, ChainsKept DEF CoreInv, queue
<1>14. InFlight' = InFlight \ {d} /\ d \notin Offered \cup taken
  BY <1>3, <1>11 DEF CoreInv, InFlight, RingInv
<1>15. \A q \in Pending : busy'[mine[q]] <=> head[q] \in InFlight'
  <2> SUFFICES ASSUME NEW q \in Pending PROVE busy'[mine[q]] <=> head[q] \in InFlight'
    OBVIOUS
  <2>1. CASE q = p
    BY <1>5, <1>6, <1>8, <1>14, <2>1
  <2>2. CASE q # p
    <3>1. mine[q] \in Buf /\ mine[q] # b /\ head[q] # d
      BY <1>5, <1>6, <2>2, PendingFacts
    <3> QED
      BY <1>8, <1>14, <3>1 DEF CoreInv, FlightInv
  <2> QED
    BY <2>1, <2>2
<1>16. FlightInv'
  <2>1. \A e \in InFlight' : \E q \in Pending' : head'[q] = e
    BY <1>1, <1>11, <1>14 DEF CoreInv, FlightInv, queue
  <2>2. \A q \in Pending' : busy'[mine'[q]] <=> head'[q] \in InFlight'
    BY <1>1, <1>11, <1>15, Zenon DEF queue
  <2>3. \A e \in Returned' : info'[e].ok
    BY <1>1, <1>3 DEF CoreInv, FlightInv, queue
  <2>4. \A q \in Pending' : head'[q] \notin Offered' \cup taken' => mine'[q] \in synced'
    BY <1>1, <1>11 DEF CoreInv, FlightInv, queue, device
  <2> QED
    BY <2>1, <2>2, <2>3, <2>4, Zenon DEF FlightInv
<1>17. OwnerInv'
  BY <1>1, <1>9, Zenon DEF CoreInv, OwnerInv
<1>18. WaitInv'
  <2>1. NoLostCompletion' /\ ~panicked'
    BY <1>1, <1>7 DEF CoreInv, WaitInv, NoLostCompletion
  <2>2. SleeperIsBusy'
    <3> SUFFICES ASSUME NEW q \in Proc, pc'[q] = "io" PROVE busy'[mine[q]]
      BY <1>1 DEF SleeperIsBusy
    <3>1. q \in Pending /\ mine[q] # b
      BY <1>9 DEF Pending
    <3> QED
      BY <1>8, <1>9, <3>1, PendingFacts DEF CoreInv, WaitInv, SleeperIsBusy
  <2>3. DescWaiterHasWaker'
    BY <1>9, <1>11 DEF CoreInv, WaitInv, DescWaiterHasWaker
  <2> QED
    BY <2>1, <2>2, <2>3 DEF WaitInv
<1> QED
  BY <1>10, <1>12, <1>13, <1>16, <1>17, <1>18 DEF CoreInv

-----------------------------------------------------------------------------
LOCAL INSTANCE WellFoundedInduction

\* A set of descriptors that is not empty has a lowest one.
LEMMA LowestIn == ASSUME NEW T \in SUBSET Desc, T # {} PROVE LowestOf(T) \in T
<1> DEFINE R == OpToRel(<, Nat)
<1>1. T \subseteq Nat
  BY DEF Desc
<1>2. PICK t \in T : \A u \in T : ~(<<u, t>> \in R)
  <2> HIDE DEF R
  <2>1. IsWellFoundedOn(R, Nat)
    BY NatLessThanWellFounded, Zenon DEF R
  <2> QED
    BY <1>1, <2>1, WFMin, Zenon
<1>3. ASSUME NEW u \in T, ~(t <= u) PROVE FALSE
  <2>1. u \in Nat /\ t \in Nat /\ u < t
    BY <1>1, <1>3
  <2>2. <<u, t>> \in R
    BY <2>1 DEF OpToRel
  <2> QED
    BY <1>2, <2>2, Zenon
<1> QED
  BY <1>3 DEF LowestOf
=============================================================================
