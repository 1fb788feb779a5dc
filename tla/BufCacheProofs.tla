--------------------------- MODULE BufCacheProofs ---------------------------
(***************************************************************************)
(* The buffer cache keeps its books and implements BlockStore, for any     *)
(* numbers of processes, buffers and blocks.                               *)
(***************************************************************************)
EXTENDS BufCache, TLAPS

Locked == {"got", "use", "dirty"}
Users(b) == {p \in Proc : buf[p] = b}

\* TypeOK without the list and the reference counts.
CoreType ==
    /\ disk \in [Block -> Data] /\ blockno \in [Buf -> Block \cup {None}]
    /\ valid \in [Buf -> BOOLEAN] /\ data \in [Buf -> Data]
    /\ lock \in [Buf -> Proc \cup {None}] /\ pinned \in [Buf -> BOOLEAN]
    /\ pc \in [Proc -> {"idle", "lock", "asleep", "got", "use", "dirty", "drop"}]
    /\ want \in [Proc -> Block \cup {None}] /\ buf \in [Proc -> Buf \cup {None}]
    /\ panicked \in BOOLEAN

\* Between bget and brelse a process has the buffer of the block it asked for.
PathInv ==
    \A p \in Proc :
       IF pc[p] = "idle" THEN buf[p] = None /\ want[p] = None
       ELSE buf[p] \in Buf /\ want[p] \in Block /\ blockno[buf[p]] = want[p]

\* The lock of a buffer is held by the process that is in the code it protects.
LockInv ==
    /\ \A b \in Buf : lock[b] # None => pc[lock[b]] \in Locked /\ buf[lock[b]] = b
    /\ \A p \in Proc : pc[p] \in Locked => lock[buf[p]] = p
    /\ SleeperHasHolder

\* A valid buffer has what is on disk, unless it is pinned or being changed.
DataInv ==
    /\ \A p \in Proc : Using(p) => valid[buf[p]]
    /\ \A b \in Buf : (pinned[b] => valid[b]) /\ (valid[b] => blockno[b] # None)
    /\ \A b \in Buf : valid[b] /\ ~pinned[b] =>
          data[b] = disk[blockno[b]] \/ \E p \in Proc : pc[p] = "dirty" /\ buf[p] = b

\* What holds whatever is counted.
CoreInv == CoreType /\ NoDuplicateBuffer /\ PathInv /\ LockInv /\ DataInv

\* The inductive invariant: an unused buffer can be recycled because refcnt is exact.
CacheInv == CoreInv /\ lru \in Order /\ refcnt \in [Buf -> Nat] /\ RefcntExact

-----------------------------------------------------------------------------
(* Every step keeps CoreInv. *)

\* bget() finds the block.
LEMMA HitKeeps ==
  ASSUME CoreInv, NEW p \in Proc, NEW k \in Block, BgetHit(p, k)
  PROVE  CoreInv'
<1>1. PICK b \in Buf : blockno[b] = k /\ buf' = [buf EXCEPT ![p] = b]
  BY DEF BgetHit, Cached
<1>2. /\ pc[p] = "idle" /\ pc' = [pc EXCEPT ![p] = "lock"] /\ want' = [want EXCEPT ![p] = k]
      /\ UNCHANGED <<disk, blockno, valid, data, lock, pinned, panicked>>
  BY DEF BgetHit, At, Goto, bufs
<1>3. CoreType'
  BY <1>1, <1>2 DEF CoreInv, CoreType
<1>4. NoDuplicateBuffer'
  BY <1>2 DEF CoreInv, NoDuplicateBuffer
<1>5. PathInv'
  BY <1>1, <1>2 DEF CoreInv, PathInv, CoreType
<1>6. LockInv'
  BY <1>1, <1>2 DEF CoreInv, LockInv, Locked, SleeperHasHolder, CoreType
<1>7. DataInv'
  BY <1>1, <1>2 DEF CoreInv, DataInv, Using, CoreType
<1> QED
  BY <1>3, <1>4, <1>5, <1>6, <1>7 DEF CoreInv

\* What bget() does to the buffer b that it recycles.
Recycles(p, k, b) ==
    /\ blockno' = [blockno EXCEPT ![b] = k] /\ valid' = [valid EXCEPT ![b] = FALSE]
    /\ buf' = [buf EXCEPT ![p] = b] /\ want' = [want EXCEPT ![p] = k]
    /\ pc[p] = "idle" /\ pc' = [pc EXCEPT ![p] = "lock"]
    /\ UNCHANGED <<disk, data, lock, pinned, panicked>>
    /\ \A c \in Buf : blockno[c] # k

\* bget() recycles a buffer: nobody has it, so nobody sees it change.
LEMMA RecycleKeeps ==
  ASSUME CoreInv, NEW p \in Proc, NEW k \in Block, NEW b \in Buf, Recycles(p, k, b),
         Users(b) = {}, ~pinned[b]
  PROVE  CoreInv'
<1>1. \A q \in Proc : buf[q] # b
  BY DEF Users
<1>2. lock[b] = None
  BY <1>1 DEF CoreInv, LockInv, CoreType
<1>3. CoreType'
  BY DEF Recycles, CoreInv, CoreType
<1>4. NoDuplicateBuffer'
  BY DEF Recycles, CoreInv, NoDuplicateBuffer, CoreType
<1>5. PathInv'
  BY <1>1 DEF Recycles, CoreInv, PathInv, CoreType
<1>6. LockInv'
  BY <1>1, <1>2 DEF Recycles, CoreInv, LockInv, Locked, SleeperHasHolder, CoreType
<1>7. DataInv'
  BY <1>1 DEF Recycles, CoreInv, DataInv, PathInv, Using, CoreType
<1> QED
  BY <1>3, <1>4, <1>5, <1>6, <1>7 DEF CoreInv

\* acquiresleep()
LEMMA AcquireKeeps == ASSUME CoreInv, NEW p \in Proc, acquiresleep(p) PROVE CoreInv'
<1>1. /\ pc[p] = "lock" /\ buf[p] \in Buf
      /\ UNCHANGED <<disk, blockno, valid, data, pinned, want, buf, panicked>>
  BY DEF acquiresleep, At, bufs, CoreInv, PathInv
<1>2. \/ lock[buf[p]] = None /\ lock' = [lock EXCEPT ![buf[p]] = p] /\ pc' = [pc EXCEPT ![p] = "got"]
      \/ lock[buf[p]] # None /\ lock' = lock /\ pc' = [pc EXCEPT ![p] = "asleep"]
  BY DEF acquiresleep, Goto
<1>3. CoreType'
  BY <1>1, <1>2 DEF CoreInv, CoreType
<1>4. NoDuplicateBuffer' /\ PathInv'
  BY <1>1, <1>2 DEF CoreInv, NoDuplicateBuffer, PathInv, CoreType
<1>5. LockInv'
  BY <1>1, <1>2, BufAssumption DEF CoreInv, LockInv, Locked, SleeperHasHolder, PathInv, CoreType
<1>6. DataInv'
  BY <1>1, <1>2 DEF CoreInv, DataInv, Using, CoreType
<1> QED
  BY <1>3, <1>4, <1>5, <1>6 DEF CoreInv

\* A step of the holder that changes its place in the code, but not its hold on
\* the buffer, only matters to the data.
LEMMA HolderKeeps ==
  ASSUME CoreInv, NEW p \in Proc, pc[p] \in Locked, CoreType', DataInv',
         NEW l \in Locked, pc' = [pc EXCEPT ![p] = l],
         UNCHANGED <<blockno, lock, want, buf>>
  PROVE  CoreInv'
<1>1. NoDuplicateBuffer' /\ PathInv'
  BY DEF CoreInv, NoDuplicateBuffer, PathInv, CoreType, Locked
<1>2. LockInv'
  BY DEF CoreInv, LockInv, Locked, SleeperHasHolder, CoreType
<1> QED
  BY <1>1, <1>2 DEF CoreInv

\* The buffer of a process that holds it, and nobody else does.
LEMMA Holds ==
  ASSUME CoreInv, NEW p \in Proc, pc[p] \in Locked
  PROVE  /\ buf[p] \in Buf /\ blockno[buf[p]] \in Block /\ blockno[buf[p]] = want[p]
         /\ \A q \in Proc : q # p /\ pc[q] \in Locked => buf[q] # buf[p]
         /\ \A c \in Buf : c # buf[p] => blockno[c] # blockno[buf[p]]
<1>1. buf[p] \in Buf /\ blockno[buf[p]] \in Block /\ blockno[buf[p]] = want[p]
  BY DEF CoreInv, PathInv, Locked
<1>2. \A q \in Proc : q # p /\ pc[q] \in Locked => buf[q] # buf[p]
  BY DEF CoreInv, LockInv
<1>3. \A c \in Buf : c # buf[p] => blockno[c] # blockno[buf[p]]
  BY <1>1, BufAssumption DEF CoreInv, NoDuplicateBuffer
<1> QED
  BY <1>1, <1>2, <1>3

\* The rest of bread()
LEMMA BreadKeeps == ASSUME CoreInv, NEW p \in Proc, bread(p) PROVE CoreInv'
<1> DEFINE b == buf[p]
<1>1. /\ pc[p] = "got" /\ pc' = [pc EXCEPT ![p] = "use"]
      /\ valid' = [valid EXCEPT ![b] = TRUE]
      /\ data' = [data EXCEPT ![b] = IF valid[b] THEN data[b] ELSE disk[blockno[b]]]
      /\ UNCHANGED <<disk, blockno, lock, pinned, want, buf, panicked>>
  BY DEF bread, At, Goto
<1>2. /\ b \in Buf /\ blockno[b] \in Block /\ blockno[b] # None
      /\ \A q \in Proc : q # p /\ pc[q] \in Locked => buf[q] # b
  BY <1>1, Holds, BufAssumption DEF Locked
<1>3. CoreType'
  BY <1>1, <1>2 DEF CoreInv, CoreType
<1>4. DataInv'
  <2>1. \A q \in Proc : Using(q)' => valid'[buf'[q]]
    BY <1>1, <1>2 DEF CoreInv, DataInv, PathInv, Using, CoreType
  <2>2. \A c \in Buf : (pinned'[c] => valid'[c]) /\ (valid'[c] => blockno'[c] # None)
    BY <1>1, <1>2 DEF CoreInv, DataInv, CoreType
  <2>3. ASSUME NEW c \in Buf, valid'[c], ~pinned'[c]
        PROVE  data'[c] = disk'[blockno'[c]] \/ \E q \in Proc : pc'[q] = "dirty" /\ buf'[q] = c
    <3>1. CASE c = b
      BY <1>1, <1>2, <2>3, <3>1 DEF CoreInv, DataInv, CoreType, Locked
    <3>2. CASE c # b
      BY <1>1, <1>2, <2>3, <3>2 DEF CoreInv, DataInv, CoreType
    <3> QED
      BY <3>1, <3>2
  <2> QED
    BY <2>1, <2>2, <2>3 DEF DataInv
<1> QED
  BY <1>1, <1>3, <1>4, HolderKeeps DEF Locked

\* The caller changes the data.
LEMMA ModifyKeeps == ASSUME CoreInv, NEW p \in Proc, NEW v \in Data, Modify(p, v) PROVE CoreInv'
<1>1. /\ pc[p] = "use" /\ pc' = [pc EXCEPT ![p] = "dirty"]
      /\ data' = [data EXCEPT ![buf[p]] = v]
      /\ UNCHANGED <<disk, blockno, valid, lock, pinned, want, buf, panicked>>
  BY DEF Modify, At, Goto
<1>2. CoreType'
  BY <1>1 DEF CoreInv, CoreType
<1>3. DataInv'
  BY <1>1, Holds DEF CoreInv, DataInv, Using, CoreType, Locked
<1> QED
  BY <1>1, <1>2, <1>3, HolderKeeps DEF Locked

\* bwrite(), and bwrite() with bunpin() in install_trans(): the disk gets the data.
LEMMA WriteKeeps ==
  ASSUME CoreInv, NEW p \in Proc, bwrite(p) \/ bunpin(p) PROVE CoreInv'
<1> DEFINE b == buf[p]
<1>1. /\ pc[p] \in {"use", "dirty"} /\ pc' = [pc EXCEPT ![p] = "use"]
      /\ pinned' = [pinned EXCEPT ![b] = FALSE]
      /\ disk' = [disk EXCEPT ![blockno[b]] = data[b]]
      /\ UNCHANGED <<blockno, valid, data, lock, want, buf, panicked>>
  <2>1. CASE bwrite(p)
    BY <2>1, Holds DEF bwrite, At, Goto, bufs, CoreInv, CoreType, Locked
  <2>2. CASE bunpin(p)
    BY <2>2 DEF bunpin, At, bufs, CoreInv, CoreType
  <2> QED
    BY <2>1, <2>2
<1>2. /\ b \in Buf /\ blockno[b] \in Block
      /\ \A c \in Buf : c # b => blockno[c] # blockno[b]
  BY <1>1, Holds DEF Locked
<1>3. CoreType'
  BY <1>1, <1>2 DEF CoreInv, CoreType
<1>4. DataInv'
  <2>1. disk'[blockno[b]] = data[b] /\ \A c \in Buf : c # b => disk'[blockno[c]] = disk[blockno[c]]
    BY <1>1, <1>2 DEF CoreInv, CoreType
  <2>2. \A q \in Proc : Using(q)' <=> Using(q)
    BY <1>1 DEF Using, CoreInv, CoreType
  <2>3. \A c \in Buf : c # b => (pinned'[c] <=> pinned[c])
    BY <1>1 DEF CoreInv, CoreType
  <2>4. \A q \in Proc : q # p => pc'[q] = pc[q]
    BY <1>1 DEF CoreInv, CoreType
  <2>5. ~pinned'[b]
    BY <1>1, <1>2 DEF CoreInv, CoreType
  <2> QED
    BY <1>1, <2>1, <2>2, <2>3, <2>4, <2>5 DEF CoreInv, DataInv
<1> QED
  BY <1>1, <1>3, <1>4, HolderKeeps DEF Locked

\* bpin() in log_write()
LEMMA PinKeeps == ASSUME CoreInv, NEW p \in Proc, bpin(p) PROVE CoreInv'
<1>1. /\ pc[p] = "dirty" /\ pc' = [pc EXCEPT ![p] = "use"]
      /\ pinned' = [pinned EXCEPT ![buf[p]] = TRUE]
      /\ UNCHANGED <<disk, blockno, valid, data, lock, want, buf, panicked>>
  BY DEF bpin, At, Goto, bufs
<1>2. CoreType'
  BY <1>1 DEF CoreInv, CoreType
<1>3. DataInv'
  BY <1>1, Holds DEF CoreInv, DataInv, Using, CoreType, Locked
<1> QED
  BY <1>1, <1>2, <1>3, HolderKeeps DEF Locked

\* releasesleep() wakes all who sleep for the buffer.
LEMMA ReleaseKeeps == ASSUME CoreInv, NEW p \in Proc, releasesleep(p) PROVE CoreInv'
<1> DEFINE b == buf[p]
<1>1. /\ pc[p] = "use"
      /\ lock' = [lock EXCEPT ![b] = None]
      /\ pc' = [q \in Proc |-> IF q = p THEN "drop"
                               ELSE IF pc[q] = "asleep" /\ buf[q] = b THEN "lock" ELSE pc[q]]
      /\ UNCHANGED <<disk, blockno, valid, data, pinned, want, buf, panicked>>
  BY DEF releasesleep, At, bufs
<1>2. b \in Buf /\ \A q \in Proc : q # p /\ pc[q] \in Locked => buf[q] # b
  BY <1>1, Holds DEF Locked
<1>3. CoreType'
  BY <1>1 DEF CoreInv, CoreType
<1>4. NoDuplicateBuffer' /\ PathInv'
  BY <1>1 DEF CoreInv, NoDuplicateBuffer, PathInv, CoreType
<1>5. LockInv'
  <2>1. \A c \in Buf : lock'[c] = IF c = b THEN None ELSE lock[c]
    BY <1>1 DEF CoreInv, CoreType
  <2>2. \A q \in Proc : pc'[q] = IF q = p THEN "drop"
                                 ELSE IF pc[q] = "asleep" /\ buf[q] = b THEN "lock" ELSE pc[q]
    BY <1>1
  <2>3. \A c \in Buf : lock[c] # None => lock[c] \in Proc
    BY DEF CoreInv, CoreType
  <2>4. \A c \in Buf : lock'[c] # None => pc'[lock'[c]] \in Locked /\ buf'[lock'[c]] = c
    BY <1>1, <2>1, <2>2, <2>3 DEF CoreInv, LockInv, Locked
  <2>5. \A q \in Proc : pc'[q] \in Locked => lock'[buf'[q]] = q
    BY <1>1, <1>2, <2>1, <2>2 DEF CoreInv, LockInv, PathInv, Locked
  <2>6. SleeperHasHolder'
    BY <1>1, <2>1, <2>2 DEF CoreInv, LockInv, PathInv, SleeperHasHolder
  <2> QED
    BY <2>4, <2>5, <2>6 DEF LockInv
<1>6. DataInv'
  BY <1>1 DEF CoreInv, DataInv, Using
<1> QED
  BY <1>3, <1>4, <1>5, <1>6 DEF CoreInv

\* brelse() drops the reference.
LEMMA DropKeeps == ASSUME CoreInv, NEW p \in Proc, brelse(p) PROVE CoreInv'
<1>1. /\ pc[p] = "drop" /\ pc' = [pc EXCEPT ![p] = "idle"]
      /\ buf' = [buf EXCEPT ![p] = None] /\ want' = [want EXCEPT ![p] = None]
      /\ UNCHANGED <<disk, blockno, valid, data, lock, pinned, panicked>>
  BY DEF brelse, At, Goto, bufs
<1>2. CoreType'
  BY <1>1 DEF CoreInv, CoreType
<1>3. NoDuplicateBuffer' /\ PathInv'
  BY <1>1 DEF CoreInv, NoDuplicateBuffer, PathInv, CoreType
<1>4. LockInv'
  BY <1>1 DEF CoreInv, LockInv, Locked, SleeperHasHolder, CoreType
<1>5. DataInv'
  BY <1>1 DEF CoreInv, DataInv, Using, CoreType
<1> QED
  BY <1>2, <1>3, <1>4, <1>5 DEF CoreInv

\* Nothing that CoreInv speaks of changes (also when bget() panics).
LEMMA StutterKeeps ==
  ASSUME CoreInv, UNCHANGED <<disk, blockno, valid, data, lock, pinned, pc, want, buf>>,
         panicked' \in BOOLEAN
  PROVE  CoreInv'
<1>1. CoreType'
  BY DEF CoreInv, CoreType
<1>2. NoDuplicateBuffer' /\ PathInv' /\ LockInv'
  BY DEF CoreInv, NoDuplicateBuffer, PathInv, LockInv, SleeperHasHolder, Locked
<1>3. DataInv'
  BY DEF CoreInv, DataInv, Using
<1> QED
  BY <1>1, <1>2, <1>3 DEF CoreInv

-----------------------------------------------------------------------------
(* What the mapping to BlockStore gives in a state, and in a step. *)

\* Each block has one content and one holder.
MapInv ==
    /\ Content \in [Block -> Data] /\ Holder \in [Block -> Proc \cup {None}]
    /\ \A b \in Buf : valid[b] => blockno[b] \in Block /\ Content[blockno[b]] = data[b]
    /\ \A k \in Block : (\A b \in Buf : blockno[b] = k => ~valid[b]) => Content[k] = disk[k]
    /\ \A p \in Proc : Using(p) => want[p] \in Block /\ Holder[want[p]] = p
    /\ \A k \in Block : (\A p \in Proc : Using(p) => want[p] # k) => Holder[k] = None

\* The buffer and the user of a block are unique, so that CHOOSE finds them.
LEMMA MapFacts == CoreInv => MapInv
<1> SUFFICES ASSUME CoreInv PROVE MapInv
  OBVIOUS
<1>1. ASSUME NEW b \in Buf, valid[b] PROVE blockno[b] \in Block /\ Content[blockno[b]] = data[b]
  <2>1. blockno[b] \in Block
    BY <1>1 DEF CoreInv, DataInv, CoreType
  <2>2. \A c \in Cached(blockno[b]) : c = b
    BY <2>1, BufAssumption DEF Cached, CoreInv, NoDuplicateBuffer
  <2>3. b \in Cached(blockno[b])
    BY DEF Cached
  <2>4. (CHOOSE c \in Cached(blockno[b]) : valid[c]) = b
    BY <1>1, <2>2, <2>3
  <2> QED
    BY <1>1, <2>1, <2>3, <2>4 DEF Content
<1>2. ASSUME NEW k \in Block, \A b \in Buf : blockno[b] = k => ~valid[b] PROVE Content[k] = disk[k]
  BY <1>2 DEF Content, Cached
<1>3. Content \in [Block -> Data]
  <2>1. \A k \in Block : Content[k] \in Data
    BY <1>1, <1>2 DEF CoreInv, CoreType
  <2> QED
    BY <2>1 DEF Content
<1>4. ASSUME NEW p \in Proc, Using(p) PROVE want[p] \in Block /\ Holder[want[p]] = p
  <2>1. want[p] \in Block /\ buf[p] \in Buf /\ blockno[buf[p]] = want[p]
    BY <1>4 DEF Using, CoreInv, PathInv
  <2>2. ASSUME NEW q \in Proc, Using(q), want[q] = want[p] PROVE q = p
    <3>1. buf[q] \in Buf /\ blockno[buf[q]] = want[p]
      BY <2>2 DEF Using, CoreInv, PathInv
    <3>2. buf[q] = buf[p]
      BY <2>1, <3>1, BufAssumption DEF CoreInv, NoDuplicateBuffer
    <3> QED
      BY <1>4, <2>2, <3>2 DEF Using, CoreInv, LockInv, Locked
  <2>3. (CHOOSE q \in Proc : Using(q) /\ want[q] = want[p]) = p
    BY <1>4, <2>2
  <2> QED
    BY <1>4, <2>1, <2>3 DEF Holder
<1>5. ASSUME NEW k \in Block, \A p \in Proc : Using(p) => want[p] # k PROVE Holder[k] = None
  BY <1>5 DEF Holder
<1>6. Holder \in [Block -> Proc \cup {None}]
  <2>1. \A k \in Block : Holder[k] \in Proc \cup {None}
    BY <1>4, <1>5
  <2> QED
    BY <2>1 DEF Holder
<1> QED
  BY <1>1, <1>2, <1>3, <1>4, <1>5, <1>6 DEF MapInv

\* ... and in the next one.
LEMMA MapFactsNext == CoreInv' => MapInv'
  BY MapFacts, PTL

\* Functions with the same values are the same.
LEMMA SameFunction ==
  ASSUME NEW S, NEW T, NEW f \in [S -> T], NEW g \in [S -> T], \A x \in S : f[x] = g[x]
  PROVE  f = g
  OBVIOUS

\* How the mapping changes with who uses a block,
LEMMA HolderIs ==
  ASSUME MapInv, MapInv', NEW H \in [Block -> Proc \cup {None}],
         \A k \in Block, q \in Proc : Using(q)' /\ want'[q] = k => H[k] = q,
         \A k \in Block : (\A q \in Proc : ~(Using(q)' /\ want'[q] = k)) => H[k] = None
  PROVE  Holder' = H
<1>1. ASSUME NEW k \in Block PROVE Holder'[k] = H[k]
  <2>1. CASE \E q \in Proc : Using(q)' /\ want'[q] = k
    BY <2>1 DEF MapInv
  <2>2. CASE \A q \in Proc : ~(Using(q)' /\ want'[q] = k)
    BY <2>2 DEF MapInv
  <2> QED
    BY <2>1, <2>2
<1> QED
  BY <1>1, SameFunction DEF MapInv

\* and with what the buffers and the disk have.
LEMMA ContentIs ==
  ASSUME MapInv, MapInv', NEW C \in [Block -> Data],
         \A b \in Buf : valid'[b] => C[blockno'[b]] = data'[b],
         \A k \in Block : (\A b \in Buf : blockno'[b] = k => ~valid'[b]) => C[k] = disk'[k]
  PROVE  Content' = C
<1>1. ASSUME NEW k \in Block PROVE Content'[k] = C[k]
  <2>1. CASE \E b \in Buf : blockno'[b] = k /\ valid'[b]
    BY <2>1 DEF MapInv
  <2>2. CASE \A b \in Buf : blockno'[b] = k => ~valid'[b]
    BY <2>2 DEF MapInv
  <2> QED
    BY <2>1, <2>2
<1> QED
  BY <1>1, SameFunction DEF MapInv

\* Nobody starts or ends to use a block,
LEMMA SameHolder ==
  ASSUME MapInv, MapInv', \A q \in Proc : Using(q)' <=> Using(q),
         \A q \in Proc : Using(q) => want'[q] = want[q]
  PROVE  Holder' = Holder
  BY HolderIs DEF MapInv

\* and the users' data stays the same.
LEMMA SameUsers ==
  ASSUME MapInv, MapInv', \A q \in Proc : Using(q)' <=> Using(q),
         \A q \in Proc : Using(q) => want'[q] = want[q] /\ data'[buf'[q]] = data[buf[q]]
  PROVE  Holder' = Holder /\ View' = View
<1>1. Holder' = Holder
  BY SameHolder
<1>2. View' = View
  BY DEF View
<1> QED
  BY <1>1, <1>2

\* The same buffers hold the same data, and the rest of the disk is the same.
LEMMA SameContent ==
  ASSUME MapInv, MapInv', UNCHANGED <<blockno, valid, data>>,
         \A k \in Block : (\A b \in Buf : blockno[b] = k => ~valid[b]) => disk'[k] = disk[k]
  PROVE  Content' = Content
  BY ContentIs DEF MapInv

\* Recycling a buffer loses nothing: what it held is on disk.
LEMMA RecycleHidden ==
  ASSUME CoreInv, MapInv, MapInv', NEW p \in Proc, NEW k \in Block, NEW b \in Buf,
         Recycles(p, k, b), Users(b) = {}, ~pinned[b]
  PROVE  UNCHANGED Store!vars
<1>1. \A q \in Proc : buf[q] # b
  BY DEF Users
<1>2. valid[b] => data[b] = disk[blockno[b]]
  BY <1>1 DEF CoreInv, DataInv
<1>3. /\ \A c \in Buf : c # b => blockno'[c] = blockno[c] /\ (valid'[c] <=> valid[c])
      /\ blockno'[b] = k /\ ~valid'[b]
      /\ disk' = disk /\ data' = data
  BY DEF Recycles, CoreInv, CoreType
<1>4. ASSUME NEW j \in Block, \A c \in Buf : blockno'[c] = j => ~valid'[c] PROVE Content[j] = disk[j]
  <2>1. CASE blockno[b] = j /\ valid[b]
    BY <1>2, <2>1 DEF MapInv
  <2>2. CASE ~(blockno[b] = j /\ valid[b])
    BY <1>3, <1>4, <2>2 DEF MapInv
  <2> QED
    BY <2>1, <2>2
<1>5. Content' = Content
  <2>1. \A c \in Buf : valid'[c] => Content[blockno'[c]] = data'[c]
    BY <1>3 DEF MapInv
  <2> QED
    BY <1>3, <1>4, <2>1, ContentIs DEF MapInv
<1>6. \A q \in Proc : Using(q)' <=> Using(q)
  BY DEF Recycles, Using, CoreInv, CoreType
<1>7. \A q \in Proc : Using(q) => want'[q] = want[q] /\ buf'[q] = buf[q]
  BY DEF Recycles, Using, CoreInv, CoreType
<1> QED
  BY <1>3, <1>5, <1>6, <1>7, SameUsers DEF Store!vars

\* The end of bread() is Get.
LEMMA BreadGets ==
  ASSUME CoreInv, MapInv, MapInv', NEW p \in Proc, bread(p)
  PROVE  Store!Get(p, want[p]) /\ want[p] \in Block
<1> DEFINE b == buf[p]
           k == want[p]
<1>1. /\ pc[p] = "got" /\ pc' = [pc EXCEPT ![p] = "use"] /\ valid' = [valid EXCEPT ![b] = TRUE]
      /\ data' = [data EXCEPT ![b] = IF valid[b] THEN data[b] ELSE disk[blockno[b]]]
      /\ disk' = disk /\ blockno' = blockno /\ want' = want /\ buf' = buf
  BY DEF bread, At, Goto
<1>2. /\ b \in Buf /\ k \in Block /\ blockno[b] = k
      /\ \A c \in Buf : blockno[c] = k => c = b
      /\ \A q \in Proc : q # p /\ pc[q] \in Locked => buf[q] # b
  BY <1>1, Holds DEF Locked
<1>3. /\ \A q \in Proc : Using(q)' <=> q = p \/ Using(q)
      /\ ~Using(p)
  BY <1>1 DEF Using, CoreInv, CoreType
<1>4. \A q \in Proc : Using(q) => want[q] # k /\ buf[q] # b /\ buf[q] \in Buf
  BY <1>2, <1>3, Holds DEF Locked, Using
<1>5. Holder[k] = None
  BY <1>2, <1>4 DEF MapInv
<1>6. /\ \A c \in Buf : c # b => (valid'[c] <=> valid[c]) /\ data'[c] = data[c]
      /\ valid'[b] /\ data'[b] = IF valid[b] THEN data[b] ELSE disk[k]
  BY <1>1, <1>2 DEF CoreInv, CoreType
<1>7. Content[k] = data'[b]
  BY <1>2, <1>6 DEF MapInv
<1>8. Content' = Content
  <2>1. \A c \in Buf : valid'[c] => Content[blockno'[c]] = data'[c]
    BY <1>1, <1>2, <1>6, <1>7 DEF MapInv
  <2>2. \A j \in Block : (\A c \in Buf : blockno'[c] = j => ~valid'[c]) => Content[j] = disk'[j]
    BY <1>1, <1>6 DEF MapInv
  <2> QED
    BY <2>1, <2>2, ContentIs DEF MapInv
<1>9. Holder' = [Holder EXCEPT ![k] = p]
  <2> DEFINE H == [Holder EXCEPT ![k] = p]
  <2>1. H \in [Block -> Proc \cup {None}] /\ \A j \in Block : H[j] = IF j = k THEN p ELSE Holder[j]
    BY <1>2 DEF MapInv
  <2> HIDE DEF H
  <2>2. \A j \in Block, q \in Proc : Using(q)' /\ want'[q] = j => H[j] = q
    BY <1>1, <1>3, <1>4, <2>1 DEF MapInv
  <2>3. \A j \in Block : (\A q \in Proc : ~(Using(q)' /\ want'[q] = j)) => H[j] = None
    BY <1>1, <1>3, <2>1 DEF MapInv
  <2>4. Holder' = H
    BY <2>1, <2>2, <2>3, HolderIs
  <2> QED
    BY <2>4 DEF H
<1>10. View' = [View EXCEPT ![p] = Content[k]]
  <2>1. \A q \in Proc : q # p => (Using(q)' <=> Using(q))
                                /\ (Using(q) => data'[buf'[q]] = data[buf[q]])
    BY <1>1, <1>3, <1>4, <1>6
  <2>2. Using(p)' /\ data'[buf'[p]] = Content[k]
    BY <1>1, <1>3, <1>7
  <2> QED
    BY <2>1, <2>2 DEF View
<1> QED
  BY <1>2, <1>5, <1>8, <1>9, <1>10 DEF Store!Get

\* A change of the data is Write.
LEMMA ModifyWrites ==
  ASSUME CoreInv, MapInv, MapInv', NEW p \in Proc, NEW v \in Data, Modify(p, v)
  PROVE  Store!Write(p, want[p], v) /\ want[p] \in Block
<1> DEFINE b == buf[p]
           k == want[p]
<1>1. /\ pc[p] = "use" /\ pc' = [pc EXCEPT ![p] = "dirty"] /\ data' = [data EXCEPT ![b] = v]
      /\ disk' = disk /\ blockno' = blockno /\ valid' = valid /\ want' = want /\ buf' = buf
  BY DEF Modify, At, Goto
<1>2. /\ b \in Buf /\ k \in Block /\ blockno[b] = k
      /\ \A c \in Buf : blockno[c] = k => c = b
      /\ \A q \in Proc : q # p /\ pc[q] \in Locked => buf[q] # b
  BY <1>1, Holds DEF Locked
<1>3. Using(p) /\ valid[b] /\ \A q \in Proc : Using(q)' <=> Using(q)
  BY <1>1 DEF Using, CoreInv, DataInv, CoreType
<1>4. \A q \in Proc : Using(q) /\ q # p => buf[q] # b /\ buf[q] \in Buf
  BY <1>2, Holds DEF Locked, Using
<1>5. \A c \in Buf : data'[c] = IF c = b THEN v ELSE data[c]
  BY <1>1 DEF CoreInv, CoreType
<1>6. Holder[k] = p
  BY <1>3 DEF MapInv
<1>7. Holder' = Holder
  BY <1>1, <1>3, SameHolder
<1>8. View' = [View EXCEPT ![p] = v]
  <2>1. \A q \in Proc : q # p => (Using(q)' <=> Using(q))
                                /\ (Using(q) => data'[buf'[q]] = data[buf[q]])
    BY <1>1, <1>3, <1>4, <1>5
  <2>2. Using(p)' /\ data'[buf'[p]] = v
    BY <1>1, <1>2, <1>3, <1>5
  <2> QED
    BY <2>1, <2>2 DEF View
<1>9. Content' = [Content EXCEPT ![k] = v]
  <2> DEFINE C == [Content EXCEPT ![k] = v]
  <2>1. C \in [Block -> Data] /\ \A j \in Block : C[j] = IF j = k THEN v ELSE Content[j]
    BY <1>2 DEF MapInv
  <2> HIDE DEF C
  <2>2. \A c \in Buf : valid'[c] => C[blockno'[c]] = data'[c]
    <3>1. C[blockno'[b]] = data'[b]
      BY <1>1, <1>2, <1>5, <2>1
    <3>2. ASSUME NEW c \in Buf, c # b, valid[c] PROVE C[blockno[c]] = data'[c]
      BY <1>2, <1>5, <2>1, <3>2 DEF MapInv
    <3> QED
      BY <1>1, <3>1, <3>2
  <2>3. \A j \in Block : (\A c \in Buf : blockno'[c] = j => ~valid'[c]) => C[j] = disk'[j]
    BY <1>1, <1>2, <1>3, <2>1 DEF MapInv
  <2>4. Content' = C
    BY <2>1, <2>2, <2>3, ContentIs
  <2> QED
    BY <2>4 DEF C
<1> QED
  BY <1>2, <1>6, <1>7, <1>8, <1>9 DEF Store!Write

\* releasesleep() is Put.
LEMMA ReleasePuts ==
  ASSUME CoreInv, MapInv, MapInv', NEW p \in Proc, releasesleep(p)
  PROVE  Store!Put(p, want[p]) /\ want[p] \in Block
<1> DEFINE k == want[p]
<1>1. /\ pc[p] = "use" /\ k \in Block
      /\ UNCHANGED <<disk, blockno, valid, data, want, buf>>
  BY DEF releasesleep, At, CoreInv, PathInv, bufs
<1>2. \A q \in Proc : Using(q)' <=> Using(q) /\ q # p
  BY <1>1 DEF Using, releasesleep, CoreInv, CoreType
<1>3. Using(p) /\ Holder[k] = p
  BY <1>1 DEF Using, MapInv
<1>4. Holder' = [Holder EXCEPT ![k] = None]
  <2> DEFINE H == [Holder EXCEPT ![k] = None]
  <2>1. H \in [Block -> Proc \cup {None}] /\ \A j \in Block : H[j] = IF j = k THEN None ELSE Holder[j]
    BY <1>1 DEF MapInv
  <2> HIDE DEF H
  <2>2. \A j \in Block, q \in Proc : Using(q)' /\ want'[q] = j => H[j] = q
    BY <1>1, <1>2, <1>3, <2>1 DEF MapInv
  <2>3. \A j \in Block : (\A q \in Proc : ~(Using(q)' /\ want'[q] = j)) => H[j] = None
    BY <1>1, <1>2, <2>1 DEF MapInv
  <2>4. Holder' = H
    BY <2>1, <2>2, <2>3, HolderIs
  <2> QED
    BY <2>4 DEF H
<1>5. View' = [View EXCEPT ![p] = None]
  BY <1>1, <1>2 DEF View
<1>6. Content' = Content
  BY <1>1, SameContent
<1> QED
  BY <1>1, <1>3, <1>4, <1>5, <1>6 DEF Store!Put

\* The other steps are hidden.
LEMMA OthersHidden ==
  ASSUME CoreInv, MapInv, MapInv', NEW p \in Proc,
         \/ \E k \in Block : BgetHit(p, k) \/ BgetPanic(p, k)
         \/ acquiresleep(p) \/ bwrite(p) \/ bpin(p) \/ bunpin(p) \/ brelse(p)
  PROVE  UNCHANGED Store!vars
<1>1. \A q \in Proc : Using(q)' <=> Using(q)
  BY DEF BgetHit, BgetPanic, acquiresleep, bwrite, bpin, bunpin, brelse, At, Goto,
         Using, CoreInv, CoreType
<1>2. \A q \in Proc : Using(q) => want'[q] = want[q] /\ buf'[q] = buf[q]
  <2>1. UNCHANGED <<want, buf>> \/ (~Using(p) /\ \E x, y : want' = [want EXCEPT ![p] = x]
                                                        /\ buf' = [buf EXCEPT ![p] = y])
    BY DEF BgetHit, BgetPanic, acquiresleep, bwrite, bpin, bunpin, brelse, At, Using
  <2> QED
    BY <2>1 DEF CoreInv, CoreType
<1>3. UNCHANGED <<blockno, valid, data>>
  BY DEF BgetHit, BgetPanic, acquiresleep, bwrite, bpin, bunpin, brelse, bufs
<1>4. Holder' = Holder /\ View' = View
  BY <1>1, <1>2, <1>3, SameUsers
<1>5. \A k \in Block : (\A b \in Buf : blockno[b] = k => ~valid[b]) => disk'[k] = disk[k]
  <2>1. CASE bwrite(p) \/ bunpin(p)
    <3>1. Using(p) /\ disk' = [disk EXCEPT ![blockno[buf[p]]] = data[buf[p]]]
      BY <2>1 DEF bwrite, bunpin, At, Using
    <3>2. valid[buf[p]] /\ buf[p] \in Buf
      BY <3>1 DEF CoreInv, DataInv, PathInv, Using
    <3> QED
      BY <3>1, <3>2 DEF CoreInv, CoreType
  <2>2. CASE ~(bwrite(p) \/ bunpin(p))
    BY <2>2 DEF BgetHit, BgetPanic, acquiresleep, bpin, brelse
  <2> QED
    BY <2>1, <2>2
<1> QED
  BY <1>3, <1>4, <1>5, SameContent DEF Store!vars

-----------------------------------------------------------------------------
(* The list and the reference counts. *)
INSTANCE FiniteSetTheorems
INSTANCE NaturalsInduction

\* The list has an order to start with.
LEMMA OrderExists == Order # {}
<1> DEFINE n == Cardinality(Buf)
<1>1. n \in Nat /\ ExistsBijection(1 .. n, Buf)
  BY FS_CardinalityType, BufAssumption
<1>2. PICK f \in Bijection(1 .. n, Buf) : TRUE
  BY <1>1 DEF ExistsBijection
<1>3. /\ f \in [1 .. n -> Buf]
      /\ \A b \in Buf : \E i \in 1 .. n : f[i] = b
  BY <1>2 DEF Bijection, Injection, Surjection
<1> DEFINE g == [b \in Buf |-> CHOOSE i \in 1 .. n : f[i] = b]
<1>4. \A b \in Buf : g[b] \in 1 .. n /\ f[g[b]] = b
  BY <1>3
<1>5. g \in [Buf -> 1 .. n]
  BY <1>4
<1>6. g \in Order
  BY <1>4, <1>5 DEF Order
<1> QED
  BY <1>6

\* A set of numbers has a least element.
LEMMA LeastNat ==
  ASSUME NEW T \in SUBSET Nat, T # {} PROVE \E t \in T : \A u \in T : t <= u
<1> DEFINE R == OpToRel(<, Nat)
<1>1. PICK t \in T : \A u \in T : ~(<<u, t>> \in R)
  <2> HIDE DEF R
  <2>1. IsWellFoundedOn(R, Nat)
    BY NatLessThanWellFounded DEF R
  <2> QED
    BY <2>1, WFMin
<1>2. ASSUME NEW u \in T, ~(t <= u) PROVE FALSE
  <2>1. u \in Nat /\ t \in Nat /\ u < t
    BY <1>2
  <2>2. <<u, t>> \in R
    BY <2>1 DEF OpToRel
  <2> QED
    BY <1>1, <2>2
<1> QED
  BY <1>2

\* There is a least recently used buffer among any.
LEMMA LeastRecentIn ==
  ASSUME lru \in Order, NEW B \in SUBSET Buf, B # {}
  PROVE  LeastRecent(B) \in B
<1> DEFINE n == Cardinality(Buf)
           T == {n - lru[b] : b \in B}
<1>1. n \in Nat
  BY FS_CardinalityType, BufAssumption
<1>2. \A b \in Buf : lru[b] \in 1 .. n
  BY DEF Order
<1>3. T \in SUBSET Nat /\ T # {}
  BY <1>1, <1>2
<1>5. PICK t \in T : \A u \in T : t <= u
  BY <1>3, LeastNat
<1>6. PICK b \in B : t = n - lru[b]
  OBVIOUS
<1>7. \A c \in B : lru[c] <= lru[b]
  <2> SUFFICES ASSUME NEW c \in B PROVE lru[c] <= lru[b]
    OBVIOUS
  <2>1. n - lru[c] \in T
    OBVIOUS
  <2> QED
    BY <2>1, <1>1, <1>2, <1>5, <1>6
<1> QED
  BY <1>7 DEF LeastRecent

\* Moving a buffer to the front keeps the places apart.
LEMMA FrontOrder == ASSUME lru \in Order, NEW b \in Buf PROVE MoveToFront(b) \in Order
<1> DEFINE n == Cardinality(Buf)
           f == MoveToFront(b)
<1>1. n \in Nat
  BY FS_CardinalityType, BufAssumption
<1>2. \A c \in Buf : lru[c] \in 1 .. n /\ \A d \in Buf : lru[c] = lru[d] => c = d
  BY DEF Order
<1>3. \A c \in Buf : f[c] = IF c = b THEN 1 ELSE IF lru[c] < lru[b] THEN lru[c] + 1 ELSE lru[c]
  BY DEF MoveToFront
<1>4. \A c \in Buf : f[c] \in 1 .. n
  BY <1>1, <1>2, <1>3
<1>5. \A c, d \in Buf : f[c] = f[d] => c = d
  BY <1>1, <1>2, <1>3
<1>6. f \in [Buf -> 1 .. n]
  BY <1>4 DEF MoveToFront
<1> QED
  BY <1>5, <1>6 DEF Order

\* An unused buffer is nobody's and is not pinned.
LEMMA UnusedIsFree ==
  ASSUME CacheInv, NEW b \in Buf
  PROVE  /\ IsFiniteSet(Users(b)) /\ Cardinality(Users(b)) \in Nat
         /\ refcnt[b] = 0 => Users(b) = {} /\ ~pinned[b]
         /\ refcnt[b] = Cardinality(Users(b)) + (IF pinned[b] THEN 1 ELSE 0)
<1>1. IsFiniteSet(Users(b)) /\ Cardinality(Users(b)) \in Nat
  BY FS_Subset, FS_CardinalityType, BufAssumption DEF Users
<1>2. refcnt[b] = Cardinality(Users(b)) + (IF pinned[b] THEN 1 ELSE 0)
  BY DEF CacheInv, RefcntExact, Users
<1>3. refcnt[b] = 0 => Cardinality(Users(b)) = 0 /\ ~pinned[b]
  BY <1>1, <1>2
<1>4. Cardinality(Users(b)) = 0 => Users(b) = {}
  BY <1>1, FS_EmptySet
<1> QED
  BY <1>1, <1>2, <1>3, <1>4

\* A process that takes a reference counts once.
LEMMA TakeRef ==
  ASSUME CacheInv, NEW p \in Proc, NEW b \in Buf, buf[p] = None,
         buf' = [buf EXCEPT ![p] = b]
  PROVE  \A c \in Buf : Cardinality(Users(c)') = Cardinality(Users(c)) + (IF c = b THEN 1 ELSE 0)
<1> SUFFICES ASSUME NEW c \in Buf
             PROVE Cardinality(Users(c)') = Cardinality(Users(c)) + (IF c = b THEN 1 ELSE 0)
  OBVIOUS
<1>1. IsFiniteSet(Users(c)) /\ Cardinality(Users(c)) \in Nat /\ p \notin Users(c)
  BY UnusedIsFree, BufAssumption DEF Users
<1>2. Users(c)' = IF c = b THEN Users(c) \cup {p} ELSE Users(c)
  BY <1>1 DEF Users, CacheInv, CoreInv, CoreType
<1>3. Cardinality(Users(c) \cup {p}) = Cardinality(Users(c)) + 1
  BY <1>1, FS_AddElement
<1> QED
  BY <1>1, <1>2, <1>3

\* One that drops it counts no more.
LEMMA DropRef ==
  ASSUME CacheInv, NEW p \in Proc, NEW b \in Buf, buf[p] = b,
         buf' = [buf EXCEPT ![p] = None]
  PROVE  \A c \in Buf : Cardinality(Users(c)') = Cardinality(Users(c)) - (IF c = b THEN 1 ELSE 0)
<1> SUFFICES ASSUME NEW c \in Buf
             PROVE Cardinality(Users(c)') = Cardinality(Users(c)) - (IF c = b THEN 1 ELSE 0)
  OBVIOUS
<1>1. IsFiniteSet(Users(c)) /\ Cardinality(Users(c)) \in Nat
  BY UnusedIsFree
<1>2. Users(c)' = IF c = b THEN Users(c) \ {p} ELSE Users(c)
  BY BufAssumption DEF Users, CacheInv, CoreInv, CoreType
<1>3. c = b => p \in Users(c)
  BY DEF Users
<1>4. c = b => Cardinality(Users(c) \ {p}) = Cardinality(Users(c)) - 1
  BY <1>1, <1>3, FS_RemoveElement
<1> QED
  BY <1>1, <1>2, <1>4

\* binit()
LEMMA CacheInit == Init => CacheInv
<1> SUFFICES ASSUME Init PROVE CacheInv
  OBVIOUS
<1>1. lru \in Order
  BY OrderExists DEF Init
<1>2. CoreType
  BY Zenon DEF Init, CoreType
<1>3. refcnt \in [Buf -> Nat] /\ RefcntExact
  <2>1. ASSUME NEW b \in Buf
        PROVE  refcnt[b] = Cardinality({p \in Proc : buf[p] = b}) + (IF pinned[b] THEN 1 ELSE 0)
    <3>1. {p \in Proc : buf[p] = b} = {}
      BY BufAssumption DEF Init
    <3>2. refcnt[b] = 0 /\ ~pinned[b]
      BY DEF Init
    <3> QED
      BY <3>1, <3>2, FS_EmptySet
  <2>2. refcnt \in [Buf -> Nat]
    BY DEF Init
  <2> QED
    BY <2>1, <2>2 DEF RefcntExact
<1>4. NoDuplicateBuffer /\ PathInv
  BY DEF Init, NoDuplicateBuffer, PathInv
<1>5. LockInv
  BY DEF Init, LockInv, Locked, SleeperHasHolder
<1>6. DataInv
  BY DEF Init, DataInv, Using
<1> QED
  BY <1>1, <1>2, <1>3, <1>4, <1>5, <1>6 DEF CacheInv, CoreInv

\* bget() takes a buffer that nobody has and the log has not pinned.
LEMMA RecyclesUnused ==
  ASSUME CacheInv, NEW p \in Proc, NEW k \in Block, BgetRecycle(p, k)
  PROVE  \E b \in Buf :
            /\ Recycles(p, k, b) /\ Users(b) = {} /\ ~pinned[b]
            /\ refcnt' = [refcnt EXCEPT ![b] = 1] /\ lru' = lru
<1> DEFINE b == LeastRecent(Unused)
<1>1. b \in Buf /\ refcnt[b] = 0
  <2>1. Unused \in SUBSET Buf /\ Unused # {}
    BY DEF BgetRecycle, Unused
  <2>2. b \in Unused
    BY <2>1, LeastRecentIn DEF CacheInv
  <2> QED
    BY <2>2 DEF Unused
<1>2. Recycles(p, k, b) /\ refcnt' = [refcnt EXCEPT ![b] = 1] /\ lru' = lru
  BY DEF BgetRecycle, Recycles, At, Goto, Cached
<1> QED
  BY <1>1, <1>2, UnusedIsFree

\* Every step keeps CoreInv.
LEMMA CoreStep == ASSUME CacheInv, [Next]_vars PROVE CoreInv'
<1>1. CASE UNCHANGED vars
  BY <1>1, StutterKeeps DEF vars, bufs, CacheInv, CoreInv, CoreType
<1>2. ASSUME NEW p \in Proc, NEW k \in Block, BgetPanic(p, k) PROVE CoreInv'
  BY <1>2, StutterKeeps DEF BgetPanic, bufs, CacheInv
<1>3. ASSUME NEW p \in Proc, NEW k \in Block, BgetRecycle(p, k) PROVE CoreInv'
  BY <1>3, RecyclesUnused, RecycleKeeps DEF CacheInv
<1> QED
  BY <1>1, <1>2, <1>3, HitKeeps, AcquireKeeps, BreadKeeps, ModifyKeeps, WriteKeeps,
     PinKeeps, ReleaseKeeps, DropKeeps DEF CacheInv, Next, Step, bget

\* refcnt stays exact when each buffer's count follows its users and its pin.
LEMMA CountKeeps ==
  ASSUME \A b \in Buf : refcnt'[b] = Cardinality(Users(b)') + (IF pinned'[b] THEN 1 ELSE 0)
  PROVE  RefcntExact'
  BY DEF RefcntExact, Users

\* bget() counts the process,
LEMMA GetCounts ==
  ASSUME CacheInv, NEW p \in Proc, NEW k \in Block, BgetHit(p, k) \/ BgetRecycle(p, k)
  PROVE  lru' \in Order /\ refcnt' \in [Buf -> Nat] /\ RefcntExact'
<1>1. PICK b \in Buf : /\ refcnt' = [refcnt EXCEPT ![b] = refcnt[b] + 1]
                       /\ buf' = [buf EXCEPT ![p] = b] /\ lru' = lru /\ pinned' = pinned
  <2>1. CASE BgetHit(p, k)
    BY <2>1 DEF BgetHit, Cached
  <2>2. CASE BgetRecycle(p, k)
    <3>1. PICK b \in Buf : /\ Recycles(p, k, b) /\ Users(b) = {} /\ ~pinned[b]
                           /\ refcnt' = [refcnt EXCEPT ![b] = 1] /\ lru' = lru
      BY <2>2, RecyclesUnused
    <3>2. refcnt[b] + 1 = 1
      BY <3>1, UnusedIsFree, FS_EmptySet
    <3> QED
      BY <3>1, <3>2 DEF Recycles
  <2> QED
    BY <2>1, <2>2
<1>2. buf[p] = None
  BY DEF BgetHit, BgetRecycle, At, CacheInv, CoreInv, PathInv
<1>3. \A c \in Buf : Cardinality(Users(c)') = Cardinality(Users(c)) + (IF c = b THEN 1 ELSE 0)
  BY <1>1, <1>2, TakeRef
<1>4. refcnt' \in [Buf -> Nat] /\ \A c \in Buf : refcnt'[c] = refcnt[c] + (IF c = b THEN 1 ELSE 0)
  BY <1>1 DEF CacheInv
<1>5. \A c \in Buf : refcnt'[c] = Cardinality(Users(c)') + (IF pinned'[c] THEN 1 ELSE 0)
  BY <1>1, <1>3, <1>4, UnusedIsFree
<1> QED
  BY <1>1, <1>4, <1>5, CountKeeps DEF CacheInv

\* bpin() and bunpin() count the pin,
LEMMA PinCounts ==
  ASSUME CacheInv, NEW p \in Proc, bpin(p) \/ bunpin(p)
  PROVE  lru' \in Order /\ refcnt' \in [Buf -> Nat] /\ RefcntExact'
<1> DEFINE b == buf[p]
<1>1. b \in Buf /\ lru' = lru /\ buf' = buf
  BY DEF bpin, bunpin, At, CacheInv, CoreInv, PathInv
<1> HIDE DEF b
<1>2. \A c \in Buf : Users(c)' = Users(c)
  BY <1>1 DEF Users
<1>3. CASE bpin(p)
  <2>1. /\ refcnt' = [refcnt EXCEPT ![b] = IF pinned[b] THEN refcnt[b] ELSE refcnt[b] + 1]
        /\ pinned' = [pinned EXCEPT ![b] = TRUE]
    BY <1>3 DEF bpin, b
  <2>2. \A c \in Buf : refcnt'[c] = Cardinality(Users(c)) + (IF pinned'[c] THEN 1 ELSE 0)
    BY <1>1, <2>1, UnusedIsFree DEF CacheInv, CoreInv, CoreType
  <2>3. (IF pinned[b] THEN refcnt[b] ELSE refcnt[b] + 1) \in Nat
    BY <1>1 DEF CacheInv
  <2>4. refcnt' \in [Buf -> Nat]
    BY <2>1, <2>3, Zenon DEF CacheInv
  <2> QED
    BY <1>1, <1>2, <2>2, <2>4, CountKeeps DEF CacheInv
<1>4. CASE bunpin(p)
  <2>1. /\ pinned[b] /\ refcnt' = [refcnt EXCEPT ![b] = refcnt[b] - 1]
        /\ pinned' = [pinned EXCEPT ![b] = FALSE]
    BY <1>4 DEF bunpin, b
  <2>2. \A c \in Buf : refcnt'[c] = Cardinality(Users(c)) + (IF pinned'[c] THEN 1 ELSE 0)
    BY <1>1, <2>1, UnusedIsFree DEF CacheInv, CoreInv, CoreType
  <2>3. refcnt[b] - 1 \in Nat
    BY <1>1, <2>1, UnusedIsFree
  <2>4. refcnt' \in [Buf -> Nat]
    BY <2>1, <2>3 DEF CacheInv
  <2> QED
    BY <1>1, <1>2, <2>2, <2>4, CountKeeps DEF CacheInv
<1> QED
  BY <1>3, <1>4

\* and brelse() counts the process no more and keeps the order of the list.
LEMMA DropCounts ==
  ASSUME CacheInv, NEW p \in Proc, brelse(p)
  PROVE  lru' \in Order /\ refcnt' \in [Buf -> Nat] /\ RefcntExact'
<1> DEFINE b == buf[p]
<1>1. /\ b \in Buf /\ refcnt' = [refcnt EXCEPT ![b] = refcnt[b] - 1]
      /\ lru' = IF refcnt[b] = 1 THEN MoveToFront(b) ELSE lru
      /\ buf' = [buf EXCEPT ![p] = None] /\ pinned' = pinned
  BY DEF brelse, At, CacheInv, CoreInv, PathInv
<1>2. p \in Users(b)
  BY DEF Users
<1>3. \A c \in Buf : Cardinality(Users(c)') = Cardinality(Users(c)) - (IF c = b THEN 1 ELSE 0)
  BY <1>1, DropRef
<1> HIDE DEF b
<1>4. refcnt[b] - 1 \in Nat
  <2>1. Cardinality(Users(b)) # 0
    BY <1>1, <1>2, UnusedIsFree, FS_EmptySet
  <2> QED
    BY <1>1, <2>1, UnusedIsFree
<1>5. refcnt' \in [Buf -> Nat] /\ \A c \in Buf : refcnt'[c] = refcnt[c] - (IF c = b THEN 1 ELSE 0)
  BY <1>1, <1>4 DEF CacheInv
<1>6. \A c \in Buf : refcnt'[c] = Cardinality(Users(c)') + (IF pinned'[c] THEN 1 ELSE 0)
  BY <1>1, <1>3, <1>5, UnusedIsFree
<1>7. lru' \in Order
  BY <1>1, FrontOrder DEF CacheInv
<1> QED
  BY <1>5, <1>6, <1>7, CountKeeps

\* Every step keeps the invariant.
LEMMA CacheStep == CacheInv /\ [Next]_vars => CacheInv'
<1> SUFFICES ASSUME CacheInv, [Next]_vars PROVE CacheInv'
  OBVIOUS
<1>1. CASE UNCHANGED <<lru, refcnt, buf, pinned>>
  BY <1>1, CoreStep DEF CacheInv, RefcntExact, Order
<1>2. \/ UNCHANGED <<lru, refcnt, buf, pinned>>
      \/ \E p \in Proc : \/ bpin(p) \/ bunpin(p) \/ brelse(p)
                         \/ \E k \in Block : BgetHit(p, k) \/ BgetRecycle(p, k)
  BY DEF Next, Step, bget, vars, acquiresleep, bread, bwrite, Modify, releasesleep, BgetPanic
<1> QED
  BY <1>1, <1>2, CoreStep, GetCounts, PinCounts, DropCounts DEF CacheInv

-----------------------------------------------------------------------------
\* For any number of processes, buffers and blocks: a block has one buffer, refcnt
\* counts the processes that have it and the pin, and who sleeps for a buffer
\* sleeps for one that is locked (bio.c:58-152, sleeplock.c:21-40).
THEOREM CacheAccounted == Safety => []BuffersAccounted
<1>1. CacheInv => BuffersAccounted
  BY DEF CacheInv, CoreInv, CoreType, TypeOK, LockInv, BuffersAccounted
<1> QED
  BY CacheInit, CacheStep, <1>1, PTL DEF Safety

\* The cache implements one copy of every block that one process uses at a time,
\* however few buffers there are and whatever is recycled, pinned or waited for
\* (bio.c:3-14).
THEOREM CacheIsOneCopy == Safety => OneCopy
<1>1. Init => Store!Init
  <2> SUFFICES ASSUME Init PROVE Store!Init
    OBVIOUS
  <2>1. MapInv
    BY CacheInit, MapFacts DEF CacheInv
  <2>2. \A p \in Proc : ~Using(p)
    BY DEF Init, Using
  <2>3. Holder = [k \in Block |-> None]
    BY <2>1, <2>2 DEF MapInv
  <2>4. View = [p \in Proc |-> None]
    BY <2>2 DEF View
  <2> QED
    BY <2>1, <2>3, <2>4 DEF Store!Init, MapInv
<1>2. CacheInv /\ CacheInv' /\ [Next]_vars => [Store!Next]_(Store!vars)
  <2> SUFFICES ASSUME CacheInv, CacheInv', [Next]_vars PROVE [Store!Next]_(Store!vars)
    OBVIOUS
  <2>1. CoreInv /\ MapInv /\ MapInv'
    BY MapFacts, MapFactsNext DEF CacheInv
  <2>2. CASE UNCHANGED vars
    <3>1. UNCHANGED <<disk, blockno, valid, data, pc, want, buf>>
      BY <2>2 DEF vars, bufs
    <3>2. \A q \in Proc : Using(q)' <=> Using(q)
      BY <3>1 DEF Using
    <3> QED
      BY <2>1, <3>1, <3>2, SameContent, SameUsers DEF Store!vars
  <2>3. ASSUME NEW p \in Proc, NEW k \in Block, bget(p, k) PROVE UNCHANGED Store!vars
    BY <2>1, <2>3, OthersHidden, RecyclesUnused, RecycleHidden DEF bget
  <2>4. ASSUME NEW p \in Proc, acquiresleep(p) \/ bwrite(p) \/ bpin(p) \/ bunpin(p) \/ brelse(p)
        PROVE  UNCHANGED Store!vars
    BY <2>1, <2>4, OthersHidden
  <2>5. ASSUME NEW p \in Proc, bread(p) PROVE Store!Next
    BY <2>1, <2>5, BreadGets DEF Store!Next
  <2>6. ASSUME NEW p \in Proc, NEW v \in Data, Modify(p, v) PROVE Store!Next
    BY <2>1, <2>6, ModifyWrites DEF Store!Next
  <2>7. ASSUME NEW p \in Proc, releasesleep(p) PROVE Store!Next
    BY <2>1, <2>7, ReleasePuts DEF Store!Next
  <2> QED
    BY <2>2, <2>3, <2>4, <2>5, <2>6, <2>7 DEF Next, Step
<1> QED
  BY <1>1, <1>2, CacheInit, CacheStep, PTL DEF Safety, OneCopy, Store!Spec
=============================================================================
