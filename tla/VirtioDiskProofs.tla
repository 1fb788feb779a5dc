-------------------------- MODULE VirtioDiskProofs --------------------------
(***************************************************************************)
(* The disk driver against its device, for any number of processes,        *)
(* buffers and descriptors, and rings that wrap at any size that is large  *)
(* enough.                                                                 *)
(***************************************************************************)
EXTENDS VirtioSteps

\* alloc3_desc() has found three free descriptors.
ThreeThere == /\ idx[1] \in free /\ idx[2] \in free /\ idx[3] \in free
              /\ idx[1] # idx[2] /\ idx[1] # idx[3] /\ idx[2] # idx[3]

\* A request is built and offered to the device.
LEMMA SubmitKeeps ==
    ASSUME CoreInv, NEW p \in Proc, RwSubmit(p), ThreeThere, Span(fetched, avail_idx) < RING
    PROVE  CoreInv'
<1> DEFINE a == idx[1]
           b == idx[2]
           c == idx[3]
           m == mine[p]
<1>1. /\ pc[p] = "start" /\ ~NoThree /\ free' = free \ {a, b, c}
      /\ desc' = [desc EXCEPT ![a] = [more |-> TRUE, next |-> b, addr |-> m],
                              ![b] = [more |-> TRUE, next |-> c, addr |-> NoBuf],
                              ![c] = Cleared]
      /\ info' = [info EXCEPT ![a] = [b |-> m, ok |-> FALSE]]
      /\ head' = [head EXCEPT ![p] = a]
      /\ avail' = [avail EXCEPT ![avail_idx % RING] = a] /\ avail_idx' = Inc(avail_idx)
      /\ pc' = [pc EXCEPT ![p] = "io"] /\ busy' = [busy EXCEPT ![m] = TRUE]
      /\ UNCHANGED <<device, used_idx, intr, irq, mine, panicked>>
  BY DEF RwSubmit, Submit
<1>2. a \in free /\ b \in free /\ c \in free /\ a # b /\ a # c /\ b # c
  BY DEF ThreeThere
<1> HIDE DEF a, b, c
<1>4. free \subseteq Desc /\ a \in Desc /\ b \in Desc /\ c \in Desc /\ m \in Buf /\ m # NoBuf
  BY <1>1, <1>2 DEF CoreInv, TypeOK, OwnerInv
<1> HIDE DEF m
<1>5. /\ \A d \in Desc : d \notin {a, b, c} => desc'[d] = desc[d]
      /\ desc'[a] = [more |-> TRUE, next |-> b, addr |-> m]
      /\ desc'[b] = [more |-> TRUE, next |-> c, addr |-> NoBuf]
      /\ desc' \in [Desc -> [more : BOOLEAN, next : Desc, addr : Buf \cup {NoBuf}]]
  <2>1. desc \in [Desc -> [more : BOOLEAN, next : Desc, addr : Buf \cup {NoBuf}]]
    BY DEF CoreInv, TypeOK
  <2>2. Cleared \in [more : BOOLEAN, next : Desc, addr : Buf \cup {NoBuf}]
    BY Sizes, DiskAssumption DEF Cleared, Desc
  <2>3. /\ [more |-> TRUE, next |-> b, addr |-> m] \in [more : BOOLEAN, next : Desc, addr : Buf \cup {NoBuf}]
        /\ [more |-> TRUE, next |-> c, addr |-> NoBuf] \in [more : BOOLEAN, next : Desc, addr : Buf \cup {NoBuf}]
    BY <1>4
  <2> DEFINE R == [more : BOOLEAN, next : Desc, addr : Buf \cup {NoBuf}]
             x == [more |-> TRUE, next |-> b, addr |-> m]
             y == [more |-> TRUE, next |-> c, addr |-> NoBuf]
  <2>4. desc' = [desc EXCEPT ![a] = x, ![b] = y, ![c] = Cleared] /\ x \in R /\ y \in R /\ Cleared \in R
        /\ desc \in [Desc -> R]
    BY <1>1, <2>1, <2>2, <2>3
  <2> HIDE DEF x, y, R
  <2>5. /\ \A d \in Desc : d \notin {a, b, c} => desc'[d] = desc[d]
        /\ desc'[a] = x /\ desc'[b] = y /\ desc' \in [Desc -> R]
    BY <1>2, <1>4, <2>4
  <2> QED
    BY <2>5 DEF x, y, R
<1>6. /\ \A d \in Desc : d # a => info'[d] = info[d]
      /\ info'[a].b = m /\ info' \in [Desc -> [b : Buf \cup {NoBuf}, ok : BOOLEAN]]
  BY <1>1, <1>4 DEF CoreInv, TypeOK
<1>7. /\ \A q \in Proc : pc'[q] = IF q = p THEN "io" ELSE pc[q]
      /\ \A q \in Proc : head'[q] = IF q = p THEN a ELSE head[q]
      /\ \A e \in Buf : e # m => (busy'[e] <=> busy[e])
      /\ busy'[m] /\ mine' = mine
  <2>1. busy \in [Buf -> BOOLEAN] /\ pc \in [Proc -> {"idle", "start", "no_desc", "io", "check"}]
        /\ head \in [Proc -> Desc]
    BY DEF CoreInv, TypeOK
  <2> QED
    BY <1>1, <1>4, <2>1
<1>8. TypeOK'
  <2>1. avail_idx' \in 0 .. W - 1 /\ avail' \in [Ring -> Desc]
    BY <1>1, <1>4, SpanFacts, Zenon DEF CoreInv, TypeOK
  <2>2. busy' \in [Buf -> BOOLEAN]
    BY <1>1, Zenon DEF CoreInv, TypeOK
  <2>3. /\ pc' \in [Proc -> {"idle", "start", "no_desc", "io", "check"}]
        /\ head' \in [Proc -> Desc] /\ free' \subseteq Desc
    BY <1>1, <1>4 DEF CoreInv, TypeOK
  <2> QED
    BY <1>1, <1>5, <1>6, <2>1, <2>2, <2>3, Zenon DEF CoreInv, TypeOK, device
<1>9. Pending' = Pending \cup {p} /\ p \notin Pending
  BY <1>1, <1>7 DEF Pending
<1>10. \A q \in Pending : /\ q \in Proc /\ q # p /\ head'[q] = head[q] /\ head[q] \in Desc
                          /\ mine[q] \in Buf /\ mine[q] # m
  BY <1>4, <1>7, <1>9, PendingFacts DEF m, CoreInv, OwnerInv
<1>11. Offered' = Offered \cup {a} /\ OnceEach(avail, fetched, avail_idx)' /\ a \notin InFlight
  <2>1. a \notin InFlight
    BY <1>2, FlightNotFree
  <2>2. /\ avail \in [Ring -> Desc] /\ fetched \in 0 .. W - 1 /\ avail_idx \in 0 .. W - 1
        /\ OnceEach(avail, fetched, avail_idx) /\ a \notin Entries(avail, fetched, avail_idx)
    BY <2>1 DEF CoreInv, TypeOK, RingInv, InFlight, Offered
  <2>3. /\ Entries(avail', fetched, Inc(avail_idx)) = Entries(avail, fetched, avail_idx) \cup {a}
        /\ OnceEach(avail', fetched, Inc(avail_idx))
    <3>1. avail' = Put(avail, avail_idx, a)
      BY <1>1 DEF Put
    <3> QED
      BY <1>4, <2>2, <3>1, RingPut
  <2> QED
    BY <1>1, <2>1, <2>3, Zenon DEF Offered, device
<1>12. Returned' = Returned /\ taken' = taken /\ synced' = synced
  BY <1>1 DEF Returned, device
<1>13. InFlight' = InFlight \cup {a}
  BY <1>11, <1>12 DEF InFlight
<1>14. RingInv'
  BY <1>1, <1>11, <1>12 DEF CoreInv, RingInv, InFlight, device
<1>15. \A q \in Pending : Chain(head[q])' = Chain(head[q]) /\ ChainOf(head[q], mine[q])'
  <2> SUFFICES ASSUME NEW q \in Pending
               PROVE  Chain(head[q])' = Chain(head[q]) /\ ChainOf(head[q], mine[q])'
    OBVIOUS
  <2>1. PICK h \in Desc : h = head[q] /\ h = head'[q]
    BY <1>10
  <2>2. PICK x : x = mine[q] /\ x = mine'[q]
    BY <1>7
  <2>3. ChainOf(h, x) /\ Chain(h) \cap free = {} /\ h \in Chain(h)
    <3>1. ChainOf(h, x)
      BY <2>1, <2>2, Zenon DEF CoreInv, ChainInv
    <3> QED
      BY <3>1 DEF ChainOf, Chain
  <2>4. Chain(h) \subseteq Desc
    <3>1. desc[h].next \in Desc /\ desc[desc[h].next].next \in Desc
      BY DEF CoreInv, TypeOK
    <3>2. Chain(h) = {h, desc[h].next, desc[desc[h].next].next}
      BY <2>3, ChainIs
    <3> QED
      BY <3>1, <3>2
  <2>5. /\ \A d \in Chain(h) : desc'[d] = desc[d]
        /\ info'[h].b = info[h].b /\ Chain(h) \cap free' = {}
    BY <1>1, <1>2, <1>5, <1>6, <2>3, <2>4
  <2>6. Chain(h)' = Chain(h) /\ ChainOf(h, x)'
    BY <2>3, <2>5, ChainSame
  <2> QED
    BY <2>1, <2>2, <2>6, Zenon DEF Chain, ChainOf
<1>16. Chain(head[p])' = {a, b, c} /\ ChainOf(head[p], mine[p])'
  <2>1. head'[p] = a /\ mine'[p] = m
    BY <1>7 DEF m
  <2>2. Chain(head[p])' = {a, b, c}
    BY <1>5, <2>1 DEF Chain
  <2>3. {a, b, c} \cap free' = {}
    BY <1>1
  <2> QED
    BY <1>2, <1>5, <1>6, <2>1, <2>2, <2>3 DEF ChainOf
<1>18. ChainInv'
  <2>1. \A q \in Pending' : ChainOf(head[q], mine[q])'
    BY <1>9, <1>15, <1>16
  <2>2. \A q \in Pending : Chain(head[q]) \cap {a, b, c} = {}
    BY <1>2 DEF CoreInv, ChainInv, ChainOf
  <2>3. \A q, r \in Pending' : q # r => Chain(head[q])' \cap Chain(head[r])' = {}
    BY <1>9, <1>15, <1>16, <2>2 DEF CoreInv, ChainInv
  <2> QED
    BY <2>1, <2>3 DEF ChainInv
<1>19. FlightInv'
  <2>1. head'[p] = a /\ mine'[p] = m
    BY <1>7 DEF m
  <2>2. \A d \in InFlight' : \E q \in Pending' : head'[q] = d
    BY <1>9, <1>10, <1>13, <2>1 DEF CoreInv, FlightInv
  <2>3. \A q \in Pending' : busy'[mine'[q]] <=> head'[q] \in InFlight'
    <3>1. \A q \in Pending : head[q] # a
      BY <1>2 DEF CoreInv, ChainInv, ChainOf, Chain
    <3>2. \A q \in Pending : busy'[mine[q]] <=> busy[mine[q]]
      BY <1>7, <1>10
    <3>3. \A q \in Pending : busy'[mine'[q]] <=> head'[q] \in InFlight'
      BY <1>7, <1>10, <1>13, <3>1, <3>2 DEF CoreInv, FlightInv
    <3>4. busy'[mine'[p]] /\ head'[p] \in InFlight'
      BY <1>7, <1>13, <2>1
    <3> QED
      BY <1>9, <3>3, <3>4
  <2>4. \A d \in Returned' : info'[d].ok
    <3>1. \A d \in Returned : d \in Desc /\ d # a /\ info[d].ok
      BY <1>11, PendingFacts DEF CoreInv, FlightInv, InFlight
    <3> QED
      BY <1>6, <1>12, <3>1
  <2>5. \A q \in Pending' : head'[q] \notin Offered' \cup taken' => mine'[q] \in synced'
    BY <1>7, <1>9, <1>10, <1>11, <1>12, <2>1 DEF CoreInv, FlightInv
  <2> QED
    BY <2>2, <2>3, <2>4, <2>5 DEF FlightInv
<1>20. OwnerInv'
  BY <1>1, <1>7 DEF CoreInv, OwnerInv
<1>21. WaitInv'
  <2>1. NoLostCompletion' /\ ~panicked'
    BY <1>1 DEF CoreInv, WaitInv, NoLostCompletion, device
  <2>2. SleeperIsBusy'
    <3>1. \A q \in Proc : q # p /\ pc[q] = "io" => q \in Pending /\ busy[mine[q]]
      BY DEF CoreInv, WaitInv, SleeperIsBusy, Pending
    <3> QED
      BY <1>7, <1>10, <3>1 DEF SleeperIsBusy, m
  <2>3. DescWaiterHasWaker'
    BY <1>9 DEF DescWaiterHasWaker
  <2> QED
    BY <2>1, <2>2, <2>3 DEF WaitInv
<1> QED
  BY <1>8, <1>14, <1>18, <1>19, <1>20, <1>21 DEF CoreInv

-----------------------------------------------------------------------------
(* Every step, given room in the rings. *)

\* What the number of descriptors leaves room for: three of them for a request
\* come with a place in the ring of the driver, one the device works on with a
\* place in its ring, and fewer than three mean that somebody has a request.
Room ==
    /\ ~NoThree => ThreeThere /\ Span(fetched, avail_idx) < RING
    /\ taken # {} => Span(used_idx, used_dev) < RING
    /\ NoThree => Pending # {}

\* A request that is made takes three descriptors.
LEMMA SubmitMoves ==
    ASSUME CoreInv, NEW p \in Proc, RwSubmit(p)
    PROVE  /\ ~NoThree /\ free' = free \ {idx[1], idx[2], idx[3]}
           /\ Pending' = Pending \cup {p} /\ p \notin Pending
<1>1. /\ ~NoThree /\ free' = free \ {idx[1], idx[2], idx[3]}
      /\ pc[p] = "start" /\ pc' = [pc EXCEPT ![p] = "io"]
  BY DEF RwSubmit, Submit
<1> QED
  BY <1>1 DEF Pending, CoreInv, TypeOK

\* A request that is done frees its chain.
LEMMA DoneMoves ==
    ASSUME CoreInv, NEW p \in Proc, RwDone(p)
    PROVE  /\ free' = free \cup Chain(head[p]) /\ free \cap Chain(head[p]) = {}
           /\ ChainOf(head[p], mine[p])
           /\ Pending' = Pending \ {p} /\ p \in Pending
<1>1. free' = free \cup Chain(head[p]) /\ pc[p] = "check"
      /\ pc' = [q \in Proc |-> IF q = p THEN "idle" ELSE IF pc[q] = "no_desc" THEN "start" ELSE pc[q]]
  BY DEF RwDone, Finish, Wake
<1>2. Pending' = Pending \ {p} /\ p \in Pending
  BY <1>1 DEF Pending
<1>3. ChainOf(head[p], mine[p])
  BY <1>2 DEF CoreInv, ChainInv
<1>4. free \cap Chain(head[p]) = {}
  BY <1>3 DEF ChainOf
<1> QED
  BY <1>1, <1>2, <1>3, <1>4

\* Every step keeps the invariant, and only a request that is made or done
\* changes what is free and who has a request.
LEMMA StepCore ==
    ASSUME CoreInv, Room, [Next]_vars
    PROVE  /\ CoreInv'
           /\ (free' = free /\ Pending' = Pending) \/ \E p \in Proc : RwSubmit(p) \/ RwDone(p)
<1> DEFINE Rest == free' = free /\ Pending' = Pending
<1>0. pc \in [Proc -> {"idle", "start", "no_desc", "io", "check"}]
  BY DEF CoreInv, TypeOK
<1>1. ASSUME Intr PROVE CoreInv' /\ Rest
  <2>1. CoreInv'
    BY <1>1, IntrKeeps, SeenKeeps DEF Intr
  <2>2. free' = free /\ \A p \in Proc : pc'[p] \in {"io", "check"} <=> pc[p] \in {"io", "check"}
    BY <1>0, <1>1, Zenon DEF Intr, IntrBegin, IntrOne, Seen, IntrEnd, queue
  <2>3. Pending' = Pending
    BY <2>2, Zenon DEF Pending
  <2> QED
    BY <2>1, <2>2, <2>3
<1>2. ASSUME DevFetch PROVE CoreInv' /\ Rest
  <2>1. free' = free /\ pc' = pc
    BY <1>2 DEF DevFetch, queue
  <2>2. Pending' = Pending
    BY <2>1 DEF Pending
  <2> QED
    BY <1>2, <2>1, <2>2, FetchKeeps
<1>3. ASSUME NEW d \in Desc, DevComplete(d) PROVE CoreInv' /\ Rest
  <2>1. free' = free /\ pc' = pc /\ d \in taken
    BY <1>3 DEF DevComplete, queue
  <2>2. CoreInv'
    BY <1>3, <2>1, CompleteKeeps DEF Room
  <2>3. Pending' = Pending
    BY <2>1 DEF Pending
  <2> QED
    BY <2>1, <2>2, <2>3
<1>4. ASSUME NEW p \in Proc, RwNoDesc(p) \/ RwSleepAgain(p) \/ Kill(p) PROVE CoreInv' /\ Rest
  <2>1. free' = free /\ \A q \in Proc : pc'[q] \in {"io", "check"} <=> pc[q] \in {"io", "check"}
    BY <1>0, <1>4 DEF RwNoDesc, RwSleepAgain, Kill, Sleep, Wake, queue
  <2>2. Pending' = Pending
    BY <2>1 DEF Pending
  <2>3. RwNoDesc(p) => Pending # {}
    BY DEF RwNoDesc, Room
  <2>4. CoreInv'
    BY <1>4, <2>3, SleepKeeps
  <2> QED
    BY <2>1, <2>2, <2>4
<1>5. ASSUME NEW p \in Proc, RwSubmit(p) PROVE CoreInv'
  <2>1. ~NoThree
    BY <1>5, SubmitMoves
  <2> QED
    BY <1>5, <2>1, SubmitKeeps DEF Room
<1>6. ASSUME NEW p \in Proc, RwDone(p) PROVE CoreInv'
  BY <1>6, DoneKeeps
<1>7. ASSUME NEW p \in Proc, NEW b \in Buf, Call(p, b) PROVE CoreInv' /\ Rest
  <2>1. free' = free /\ \A q \in Proc : pc'[q] \in {"io", "check"} <=> pc[q] \in {"io", "check"}
    BY <1>0, <1>7 DEF Call, queue
  <2>2. Pending' = Pending
    BY <2>1 DEF Pending
  <2> QED
    BY <1>7, <2>1, <2>2, CallKeeps
<1>8. ASSUME UNCHANGED vars PROVE CoreInv' /\ Rest
  <2>1. UNCHANGED <<queue, device, used_idx, intr, irq, busy, pc, head, mine, panicked>>
    BY <1>8 DEF vars
  <2>2. NoLostCompletion' /\ SleeperIsBusy' /\ DescWaiterHasWaker'
    BY <2>1, Zenon DEF CoreInv, WaitInv, NoLostCompletion, SleeperIsBusy, DescWaiterHasWaker,
                Pending, device
  <2>3. /\ intr' \in BOOLEAN /\ irq' \in BOOLEAN
        /\ pc' \in [Proc -> {"idle", "start", "no_desc", "io", "check"}]
    BY <2>1 DEF CoreInv, TypeOK
  <2>4. CoreInv'
    BY <2>1, <2>2, <2>3, MoveKeeps
  <2>5. Rest
    BY <2>1 DEF queue, Pending
  <2> QED
    BY <2>4, <2>5
<1> QED
  BY <1>1, <1>2, <1>3, <1>4, <1>5, <1>6, <1>7, <1>8 DEF Next, Rw

\* A process leaves virtio_disk_rw() only with its transfer done.
LEMMA ReturnsStep ==
    ASSUME CoreInv, Next, NEW p \in Proc, pc[p] = "check", pc'[p] = "idle"
    PROVE  mine[p] \in synced
<1>1. ASSUME NEW q \in Proc, RwDone(q) PROVE mine[p] \in synced
  <2>1. p = q
    BY <1>1 DEF RwDone, Wake
  <2> QED
    BY <1>1, <2>1, DoneKeeps
<1>2. pc \in [Proc -> {"idle", "start", "no_desc", "io", "check"}]
  BY DEF CoreInv, TypeOK
<1>3. ASSUME Intr \/ DevFetch \/ \E d \in Desc : DevComplete(d) PROVE FALSE
  BY <1>2, <1>3 DEF Intr, IntrBegin, IntrOne, Seen, IntrEnd, DevFetch, DevComplete
<1>4. ASSUME NEW q \in Proc, RwNoDesc(q) PROVE FALSE
  BY <1>2, <1>4 DEF RwNoDesc, Wake
<1>5. ASSUME NEW q \in Proc, RwSubmit(q) \/ RwSleepAgain(q) \/ Kill(q) PROVE FALSE
  BY <1>2, <1>5, Zenon DEF RwSubmit, Submit, RwSleepAgain, Sleep, Kill
<1>6. ASSUME NEW q \in Proc, NEW b \in Buf, Call(q, b) PROVE FALSE
  BY <1>2, <1>6 DEF Call
<1> QED
  BY <1>1, <1>3, <1>4, <1>5, <1>6 DEF Next, Rw

\* What is offered, taken or returned belongs to somebody, and different
\* requests to different processes.
LEMMA RingFacts ==
    ASSUME CoreInv
    PROVE  /\ fetched \in 0 .. W - 1 /\ avail_idx \in 0 .. W - 1 /\ OnceEach(avail, fetched, avail_idx)
           /\ used_idx \in 0 .. W - 1 /\ used_dev \in 0 .. W - 1 /\ OnceEach(used, used_idx, used_dev)
           /\ \A d \in Offered : \E p \in Pending : head[p] = d
           /\ \A d \in taken : \E p \in Pending : head[p] = d
           /\ \A d \in taken, e \in Returned : e # d /\ \E p \in Pending : head[p] = e
<1>1. /\ fetched \in 0 .. W - 1 /\ avail_idx \in 0 .. W - 1 /\ OnceEach(avail, fetched, avail_idx)
      /\ used_idx \in 0 .. W - 1 /\ used_dev \in 0 .. W - 1 /\ OnceEach(used, used_idx, used_dev)
  BY DEF CoreInv, TypeOK, RingInv
<1>2. \A d \in Offered \cup taken \cup Returned : \E p \in Pending : head[p] = d
  BY DEF CoreInv, FlightInv, InFlight
<1>3. taken \cap Returned = {}
  BY DEF CoreInv, RingInv
<1> QED
  BY <1>1, <1>2, <1>3

\* What the driver promises follows, once chains are counted.
LEMMA CoreAccounts ==
    ASSUME CoreInv, \A p \in Pending : Cardinality(Chain(head[p])) = 3,
           Cardinality(free) + 3 * Cardinality(Pending) = NUM
    PROVE  RequestsAccounted
<1>1. \A p \in Pending : Chain(head[p]) \cap free = {}
  BY DEF CoreInv, ChainInv, ChainOf
<1>2. \A p, q \in Pending : p # q => Chain(head[p]) \cap Chain(head[q]) = {}
  BY DEF CoreInv, ChainInv
<1>3. ChainsDisjoint
  BY <1>1, <1>2, RingFacts DEF ChainsDisjoint
<1> QED
  BY <1>3 DEF CoreInv, WaitInv, RequestsAccounted, NoDiskPanic

-----------------------------------------------------------------------------
(* How many descriptors are free, and how many requests there are. *)

INSTANCE FiniteSetTheorems

\* A ring whose entries belong to different members of a set is no longer than
\* the set.
LEMMA RingCount ==
    ASSUME NEW ring, NEW i \in 0 .. W - 1, NEW j \in 0 .. W - 1, OnceEach(ring, i, j),
           NEW Q, IsFiniteSet(Q), NEW f, \A e \in Entries(ring, i, j) : \E q \in Q : f[q] = e
    PROVE  Span(i, j) <= Cardinality(Q)
<1> DEFINE n == Span(i, j)
           K == 0 .. n - 1
           g == [k \in K |-> CHOOSE q \in Q : f[q] = ring[Slot(i, k)]]
<1>1. n \in Nat
  BY SpanFacts, Sizes
<1>2. \A k, l \in K : ring[Slot(i, k)] = ring[Slot(i, l)] => k = l
  BY DEF OnceEach
<1>3. \A k \in K : ring[Slot(i, k)] \in Entries(ring, i, j)
  BY DEF Entries
<1> HIDE DEF n
<1>4. \A k \in K : g[k] \in Q /\ f[g[k]] = ring[Slot(i, k)]
  BY <1>3
<1>5. IsFiniteSet(K) /\ Cardinality(K) = n
  <2>1. 0 \in Int /\ n - 1 \in Int /\ (IF 0 > n - 1 THEN 0 ELSE n - 1 - 0 + 1) = n
    BY <1>1
  <2> QED
    BY <2>1, FS_Interval, Zenon
<1>6. g \in Injection(K, Q)
  <2> HIDE DEF K
  <2>1. g \in [K -> Q]
    BY <1>4
  <2>2. \A k, l \in K : g[k] = g[l] => k = l
    BY <1>2, <1>4
  <2> QED
    BY <2>1, <2>2 DEF Injection, IsInjective
<1>7. Cardinality(K) <= Cardinality(Q)
  <2> HIDE DEF K, g
  <2> QED
    BY <1>6, FS_Injection
<1> QED
  BY <1>5, <1>7 DEF n

\* The chain of a request has three descriptors.
LEMMA ChainSize ==
    ASSUME NEW h, NEW b, ChainOf(h, b)
    PROVE  IsFiniteSet(Chain(h)) /\ Cardinality(Chain(h)) = 3
<1> DEFINE s == desc[h].next
           t == desc[s].next
<1>1. Chain(h) = {h, s, t} /\ h # s /\ h # t /\ s # t
  BY DEF ChainOf, Chain
<1> HIDE DEF s, t
<1>2. IsFiniteSet({h}) /\ Cardinality({h}) = 1
  BY FS_Singleton, Zenon
<1>3. IsFiniteSet({h} \cup {s}) /\ Cardinality({h} \cup {s}) = 2
  BY <1>1, <1>2, FS_AddElement
<1>4. IsFiniteSet({h} \cup {s} \cup {t}) /\ Cardinality({h} \cup {s} \cup {t}) = 3
  <2>1. t \notin {h} \cup {s}
    BY <1>1
  <2> QED
    BY <1>3, <2>1, FS_AddElement
<1>5. {h, s, t} = {h} \cup {s} \cup {t}
  OBVIOUS
<1> QED
  BY <1>1, <1>4, <1>5

\* The descriptors are finitely many.
LEMMA FreeFinite ==
    ASSUME TypeOK PROVE IsFiniteSet(free) /\ Cardinality(free) \in Nat
<1>1. IsFiniteSet(Desc)
  <2>1. 0 \in Int /\ NUM - 1 \in Int
    BY DiskAssumption
  <2> QED
    BY <2>1, FS_Interval, Zenon DEF Desc
<1>2. free \in SUBSET Desc
  BY DEF TypeOK
<1>3. IsFiniteSet(free)
  BY <1>1, <1>2, FS_Subset
<1> QED
  BY <1>3, FS_CardinalityType

\* alloc3_desc() finds three different free descriptors.
LEMMA ThreeFree ==
    ASSUME DriverInv, ~NoThree
    PROVE  /\ ThreeThere
           /\ Cardinality(free \ {idx[1], idx[2], idx[3]}) = Cardinality(free) - 3
<1> DEFINE a == LowestOf(free)
           b == LowestOf(free \ {a})
           c == LowestOf(free \ {a, b})
           F1 == free \ {a}
           F2 == F1 \ {b}
           F3 == F2 \ {c}
           n == Cardinality(free)
<1>1. idx[1] = a /\ idx[2] = b /\ idx[3] = c
  BY DEF idx
<1>2. IsFiniteSet(free) /\ n \in Nat /\ n >= 3 /\ free \in SUBSET Desc
  BY FreeFinite DEF NoThree, DriverInv, CoreInv, TypeOK
<1>3. free # {}
  BY <1>2, FS_EmptySet
<1>4. a \in free
  BY <1>2, <1>3, LowestIn
<1> HIDE DEF a, n
<1>5. IsFiniteSet(F1) /\ Cardinality(F1) = n - 1
  BY <1>2, <1>4, FS_RemoveElement DEF n
<1>6. F1 # {} /\ F1 \in SUBSET Desc
  <2>1. Cardinality(F1) # 0
    BY <1>2, <1>5
  <2> QED
    BY <1>2, <2>1, FS_EmptySet
<1>7. b \in F1
  BY <1>6, LowestIn
<1> HIDE DEF b
<1>8. IsFiniteSet(F2) /\ Cardinality(F2) = n - 2
  <2>1. Cardinality(F2) = Cardinality(F1) - 1 /\ IsFiniteSet(F2)
    BY <1>5, <1>7, FS_RemoveElement
  <2> QED
    BY <1>2, <1>5, <2>1
<1>9. F2 # {} /\ F2 \in SUBSET Desc /\ F2 = free \ {a, b}
  <2>1. Cardinality(F2) # 0
    BY <1>2, <1>8
  <2> QED
    BY <1>2, <2>1, FS_EmptySet
<1>10. c \in F2
  BY <1>9, LowestIn
<1> HIDE DEF c
<1>11. Cardinality(F3) = n - 3
  <2>1. Cardinality(F3) = Cardinality(F2) - 1
    BY <1>8, <1>10, FS_RemoveElement
  <2> QED
    BY <1>2, <1>8, <2>1
<1>12. F3 = free \ {a, b, c}
  OBVIOUS
<1> QED
  BY <1>1, <1>4, <1>7, <1>10, <1>11, <1>12 DEF n, ThreeThere

\* As long as there are descriptors for a request, the ring has a place for it.
LEMMA RoomInAvail ==
    ASSUME DriverInv, ~NoThree
    PROVE  Span(fetched, avail_idx) < RING
<1> DEFINE n == Cardinality(Pending)
<1>1. IsFiniteSet(Pending) /\ n \in Nat /\ Cardinality(free) \in Nat /\ Cardinality(free) >= 3
  <2>1. IsFiniteSet(Pending) /\ n \in Nat
    BY FS_CardinalityType DEF DriverInv, CountInv
  <2>2. Cardinality(free) \in Nat /\ Cardinality(free) >= 3
    BY FreeFinite DEF NoThree, DriverInv, CoreInv
  <2> QED
    BY <2>1, <2>2
<1>2. Cardinality(free) + 3 * n = NUM
  BY DEF DriverInv, CountInv
<1>3. \A d \in Offered : \E p \in Pending : head[p] = d
  BY RingFacts DEF DriverInv
<1>4. fetched \in 0 .. W - 1 /\ avail_idx \in 0 .. W - 1 /\ OnceEach(avail, fetched, avail_idx)
  BY RingFacts DEF DriverInv
<1>5. Span(fetched, avail_idx) <= n /\ Span(fetched, avail_idx) \in Nat
  <2>1. Span(fetched, avail_idx) <= n
    BY <1>1, <1>3, <1>4, RingCount DEF Offered
  <2>2. Span(fetched, avail_idx) \in 0 .. W - 1
    BY <1>4, SpanFacts
  <2> QED
    BY <2>1, <2>2, Sizes
<1> HIDE DEF n
<1>6. 3 * (n + 1) <= NUM
  BY <1>1, <1>2, Sizes
<1>7. n + 1 <= RING
  BY <1>1, <1>6, Sizes
<1> QED
  BY <1>1, <1>5, <1>7, Sizes

\* As long as the device works on a request, its ring has a place for it.
LEMMA RoomInUsed ==
    ASSUME DriverInv, NEW d \in taken
    PROVE  Span(used_idx, used_dev) < RING
<1>1. PICK p \in Pending : head[p] = d
  BY RingFacts DEF DriverInv
<1> DEFINE n == Cardinality(Pending)
           Q == Pending \ {p}
<1>2. IsFiniteSet(Pending) /\ n \in Nat /\ Cardinality(free) \in Nat
  <2>1. TypeOK
    BY DEF DriverInv, CoreInv
  <2> QED
    BY <2>1, FreeFinite, FS_CardinalityType DEF DriverInv, CountInv
<1>3. Cardinality(free) + 3 * n = NUM
  BY DEF DriverInv, CountInv
<1>4. \A e \in Returned : \E q \in Q : head[q] = e
  <2>1. \A e \in Returned : e # d /\ \E q \in Pending : head[q] = e
    BY RingFacts DEF DriverInv
  <2> QED
    BY <1>1, <2>1
<1>5. used_idx \in 0 .. W - 1 /\ used_dev \in 0 .. W - 1 /\ OnceEach(used, used_idx, used_dev)
  BY RingFacts DEF DriverInv
<1>6. IsFiniteSet(Q) /\ Cardinality(Q) = n - 1
  BY <1>1, <1>2, FS_RemoveElement
<1>7. Span(used_idx, used_dev) <= n - 1 /\ Span(used_idx, used_dev) \in Nat
  <2> HIDE DEF Q
  <2>1. Span(used_idx, used_dev) <= Cardinality(Q)
    BY <1>4, <1>5, <1>6, RingCount DEF Returned
  <2>2. Span(used_idx, used_dev) \in 0 .. W - 1
    BY <1>5, SpanFacts
  <2> QED
    BY <1>6, <2>1, <2>2, Sizes
<1> HIDE DEF n
<1>8. 3 * n <= NUM
  BY <1>2, <1>3, Sizes
<1>9. n <= RING
  BY <1>2, <1>8, Sizes
<1> QED
  BY <1>2, <1>7, <1>9, Sizes

-----------------------------------------------------------------------------
(* Every step keeps the count. *)

\* In the beginning every descriptor is free.
LEMMA CountInit == Init => CountInv
<1> SUFFICES ASSUME Init PROVE CountInv
  OBVIOUS
<1>1. Pending = {} /\ free = Desc
  BY DEF Init, Pending
<1>2. Cardinality(Desc) = NUM
  <2>1. 0 \in Int /\ NUM - 1 \in Int /\ (IF 0 > NUM - 1 THEN 0 ELSE NUM - 1 - 0 + 1) = NUM
    BY DiskAssumption
  <2> QED
    BY <2>1, FS_Interval, Zenon DEF Desc
<1>3. IsFiniteSet({}) /\ Cardinality({}) = 0
  BY FS_EmptySet
<1> QED
  BY <1>1, <1>2, <1>3, DiskAssumption DEF CountInv

\* A process that finds no descriptors is not the only one with a request.
LEMMA SomeoneWaits == ASSUME DriverInv, NoThree PROVE Pending # {}
<1>1. Cardinality(free) \in Nat /\ Cardinality(free) < 3
  BY FreeFinite DEF NoThree, DriverInv, CoreInv
<1>2. Cardinality(free) + 3 * Cardinality(Pending) = NUM
  BY DEF DriverInv, CountInv
<1>3. Pending = {} => Cardinality(Pending) = 0
  BY FS_EmptySet
<1> QED
  BY <1>1, <1>2, <1>3, DiskAssumption

\* A request takes three descriptors.
LEMMA SubmitCounts == ASSUME DriverInv, NEW p \in Proc, RwSubmit(p) PROVE CountInv'
<1>1. /\ Cardinality(free') = Cardinality(free) - 3
      /\ Pending' = Pending \cup {p} /\ p \notin Pending
  BY SubmitMoves, ThreeFree DEF DriverInv
<1>2. IsFiniteSet(Pending) /\ Cardinality(free) + 3 * Cardinality(Pending) = NUM
  BY DEF DriverInv, CountInv
<1>3. Cardinality(Pending) \in Nat /\ Cardinality(free) \in Nat
  BY <1>2, FS_CardinalityType, FreeFinite DEF DriverInv, CoreInv
<1>4. IsFiniteSet(Pending') /\ Cardinality(Pending') = Cardinality(Pending) + 1
  BY <1>1, <1>2, FS_AddElement
<1>5. Cardinality(free') + 3 * Cardinality(Pending') = NUM
  BY <1>1, <1>2, <1>3, <1>4
<1> QED
  BY <1>4, <1>5 DEF CountInv

\* A request that is done gives them back.
LEMMA DoneCounts == ASSUME DriverInv, NEW p \in Proc, RwDone(p) PROVE CountInv'
<1>1. PICK C : /\ free' = free \cup C /\ free \cap C = {}
               /\ IsFiniteSet(C) /\ Cardinality(C) = 3
  BY DoneMoves, ChainSize, Zenon DEF DriverInv
<1>2. Pending' = Pending \ {p} /\ p \in Pending
  BY DoneMoves DEF DriverInv
<1>3. IsFiniteSet(Pending) /\ Cardinality(free) + 3 * Cardinality(Pending) = NUM
  BY DEF DriverInv, CountInv
<1>4. Cardinality(Pending) \in Nat /\ Cardinality(free) \in Nat /\ IsFiniteSet(free)
  BY <1>3, FS_CardinalityType, FreeFinite DEF DriverInv, CoreInv
<1>5. IsFiniteSet(Pending') /\ Cardinality(Pending') = Cardinality(Pending) - 1
  BY <1>2, <1>3, FS_RemoveElement
<1>6. Cardinality(free') = Cardinality(free) + 3
  <2>1. Cardinality(free \cup C) = Cardinality(free) + Cardinality(C) - Cardinality(free \cap C)
    BY <1>1, <1>4, FS_Union
  <2>2. Cardinality(free \cap C) = 0
    BY <1>1, FS_EmptySet
  <2> QED
    BY <1>1, <1>4, <2>1, <2>2
<1>7. Cardinality(free') + 3 * Cardinality(Pending') = NUM
  BY <1>3, <1>4, <1>5, <1>6
<1> QED
  BY <1>5, <1>7 DEF CountInv

-----------------------------------------------------------------------------
(* The theorems. *)

\* Every step keeps the invariant.
LEMMA StepKeeps == ASSUME DriverInv, [Next]_vars PROVE DriverInv'
<1>1. Room
  BY ThreeFree, RoomInAvail, RoomInUsed, SomeoneWaits, Zenon DEF Room
<1>2. CoreInv'
  BY <1>1, StepCore DEF DriverInv
<1>3. CASE free' = free /\ Pending' = Pending
  BY <1>2, <1>3 DEF DriverInv, CountInv
<1>4. CASE \E p \in Proc : RwSubmit(p) \/ RwDone(p)
  BY <1>2, <1>4, SubmitCounts, DoneCounts DEF DriverInv
<1> QED
  BY <1>1, <1>3, <1>4, StepCore DEF DriverInv

\* For any number of processes, buffers and descriptors, and whatever order the
\* device works in: the chains, the free descriptors, the rings, the sleepers
\* and the completions agree, and neither free_desc() nor virtio_disk_intr()
\* panics (virtio_disk.c:156-325).
THEOREM DriverAccounts == Safety => []RequestsAccounted
<1>1. Init => DriverInv
  BY CoreInit, CountInit DEF DriverInv
<1>2. DriverInv /\ [Next]_vars => DriverInv'
  BY StepKeeps
<1>3. DriverInv => RequestsAccounted
  <2> SUFFICES ASSUME DriverInv PROVE RequestsAccounted
    OBVIOUS
  <2>1. \A p \in Pending : Cardinality(Chain(head[p])) = 3
    BY ChainSize DEF DriverInv, CoreInv, ChainInv
  <2> QED
    BY <2>1, CoreAccounts DEF DriverInv, CountInv
<1> QED
  BY <1>1, <1>2, <1>3, PTL DEF Safety

\* The same for when virtio_disk_rw() returns: only after the device has done
\* the transfer of its own request, whoever woke the process
\* (virtio_disk.c:281-291).
THEOREM ReturnsAfterTransfer == Safety => ReturnsWhenDone
<1>1. Init => DriverInv
  BY CoreInit, CountInit DEF DriverInv
<1>2. DriverInv /\ [Next]_vars => DriverInv'
  BY StepKeeps
<1> DEFINE Returns == \A p \in Proc : pc[p] = "check" /\ pc'[p] = "idle" => mine[p] \in synced
<1>3. DriverInv /\ [Next]_vars => [Returns]_vars
  BY ReturnsStep DEF DriverInv
<1> QED
  BY <1>1, <1>2, <1>3, PTL DEF Safety, ReturnsWhenDone
=============================================================================
