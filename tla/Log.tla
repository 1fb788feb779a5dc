-------------------------------- MODULE Log --------------------------------
(***************************************************************************)
(* The write-ahead log (kernel/log.c) above the buffer cache and the disk. *)
(* Processes run file system calls (begin_op, log_write, end_op) and may   *)
(* sleep in begin_op; the last end_op commits, one disk write at a time;   *)
(* the machine may crash between any two disk writes, also in the middle   *)
(* of the recovery that follows a crash.  A block write is atomic.         *)
(*                                                                         *)
(* A section under log.lock is one step.  The log and header blocks are    *)
(* written through the cache at once, so reading them gives what is on     *)
(* disk; a home block is cached from a read until its buffer is recycled.  *)
(***************************************************************************)
EXTENDS Integers, Sequences, FiniteSets

CONSTANTS Proc, Block, Val,
          NoBlock,        \* no block: nothing cached, nothing held
          MAXOPBLOCKS, LOGSIZE,
          NLOG,           \* sb.nlog: log blocks on disk, the header included
          OpBlocks        \* how many new blocks a call really logs

ASSUME LogAssumption ==
    /\ MAXOPBLOCKS \in Nat /\ LOGSIZE \in Nat /\ NLOG \in Nat
    /\ OpBlocks \in 0 .. MAXOPBLOCKS
    /\ 1 <= MAXOPBLOCKS /\ MAXOPBLOCKS <= LOGSIZE
    /\ NoBlock \notin Block /\ NoBlock \notin Val
    /\ IsFiniteSet(Proc)

VARIABLES home,           \* on disk: the home blocks
          dlog,           \* on disk: the log blocks
          dhead,          \* on disk: the block numbers of the header block
          cache,          \* buffer cache: contents, NoBlock if not cached
          pin,            \* buffer cache: references bpin() added
          lh,             \* log.lh: block numbers in memory
          outstanding, committing,       \* log.outstanding, log.committing
          stage, tail,    \* where recover_from_log or commit is, and its tail
          pc, held, used, \* per process: position, locked buffer, blocks logged
          panicked

disk == <<home, dlog, dhead>>
mem  == <<cache, pin, lh, outstanding, committing>>
procs == <<pc, held, used>>
vars == <<disk, mem, stage, tail, procs, panicked>>

Logged(s) == {s[i] : i \in 1 .. Len(s)}
IndexOf(s, b) == CHOOSE i \in 1 .. Len(s) : s[i] = b

\* What bread() returns.
Read(b) == IF cache[b] = NoBlock THEN home[b] ELSE cache[b]

Recovering == {"read_head", "recover"}
Committing == {"write_log", "install", "finish"}

TypeOK ==
    /\ home \in [Block -> Val]
    /\ dlog \in [1 .. LOGSIZE -> Val]
    /\ dhead \in Seq(Block) /\ Len(dhead) <= LOGSIZE
    /\ cache \in [Block -> Val \cup {NoBlock}]
    /\ pin \in [Block -> Nat]
    /\ lh \in Seq(Block) /\ Len(lh) <= LOGSIZE
    /\ outstanding \in Nat /\ committing \in BOOLEAN
    /\ stage \in Recovering \cup Committing \cup {"run"}
    /\ tail \in 1 .. LOGSIZE + 1
    /\ pc \in [Proc -> {"idle", "sleep", "begin", "op", "held", "commit"}]
    /\ held \in [Proc -> Block \cup {NoBlock}]
    /\ used \in [Proc -> 0 .. OpBlocks]
    /\ panicked \in BOOLEAN

\* mkfs writes an empty log header.
Init ==
    /\ home \in [Block -> Val]
    /\ \E v \in Val : dlog = [i \in 1 .. LOGSIZE |-> v]
    /\ dhead = <<>>
    /\ cache = [b \in Block |-> NoBlock] /\ pin = [b \in Block |-> 0]
    /\ lh = <<>> /\ outstanding = 0 /\ committing = FALSE
    /\ stage = "read_head" /\ tail = 1
    /\ pc = [p \in Proc |-> "idle"]
    /\ held = [p \in Proc |-> NoBlock] /\ used = [p \in Proc |-> 0]
    /\ panicked = FALSE

-----------------------------------------------------------------------------
(* Recovery: recover_from_log(), called by initlog() before any process runs. *)

ReadHead ==
    /\ stage = "read_head"
    /\ lh' = dhead
    /\ stage' = "recover" /\ tail' = 1
    /\ UNCHANGED <<disk, cache, pin, outstanding, committing, procs, panicked>>

\* One turn of install_trans: from the log block to the home block, through
\* the cache.
InstallBlock ==
    /\ tail <= Len(lh)
    /\ cache' = [cache EXCEPT ![lh[tail]] = dlog[tail]]
    /\ home' = [home EXCEPT ![lh[tail]] = dlog[tail]]
    /\ tail' = tail + 1

RecoverBlock ==
    /\ stage = "recover"
    /\ InstallBlock
    /\ UNCHANGED <<dlog, dhead, pin, lh, outstanding, committing, stage, procs, panicked>>

\* The loop ends, log.lh.n = 0, write_head() clears the log on disk, and
\* processes may run.
RecoverClear ==
    /\ stage = "recover" /\ tail > Len(lh)
    /\ lh' = <<>> /\ dhead' = <<>>
    /\ stage' = "run" /\ tail' = 1
    /\ UNCHANGED <<home, dlog, cache, pin, outstanding, committing, procs, panicked>>

-----------------------------------------------------------------------------
(* File system calls. *)

Up == stage \notin Recovering /\ ~panicked

NoRoom == Len(lh) + (outstanding + 1) * MAXOPBLOCKS > LOGSIZE

\* begin_op() finds a commit in progress or too little log space.
BeginSleep(p) ==
    /\ Up /\ pc[p] \in {"idle", "begin"}
    /\ committing \/ NoRoom
    /\ pc' = [pc EXCEPT ![p] = "sleep"]
    /\ UNCHANGED <<disk, mem, stage, tail, held, used, panicked>>

BeginOp(p) ==
    /\ Up /\ pc[p] \in {"idle", "begin"}
    /\ ~committing /\ ~NoRoom
    /\ outstanding' = outstanding + 1
    /\ pc' = [pc EXCEPT ![p] = "op"]
    /\ used' = [used EXCEPT ![p] = 0]
    /\ UNCHANGED <<disk, cache, pin, lh, committing, stage, tail, held, panicked>>

\* The call reads a block (bread locks its buffer) and modifies the buffer.
\* It logs at most OpBlocks blocks that were not in the log.
Modify(p, b, v) ==
    /\ Up /\ pc[p] = "op"
    /\ \A q \in Proc : held[q] # b
    /\ b \in Logged(lh) \/ used[p] < OpBlocks
    /\ cache' = [cache EXCEPT ![b] = v]
    /\ held' = [held EXCEPT ![p] = b]
    /\ pc' = [pc EXCEPT ![p] = "held"]
    /\ UNCHANGED <<disk, pin, lh, outstanding, committing, stage, tail, used, panicked>>

LogFull == Len(lh) >= LOGSIZE \/ Len(lh) >= NLOG - 1

LogWriteUnpinned(p) ==                                          \* mutant
    /\ Up /\ pc[p] = "held"
    /\ ~LogFull /\ outstanding >= 1
    /\ IF held[p] \in Logged(lh)
       THEN UNCHANGED <<lh, used>>
       ELSE /\ lh' = Append(lh, held[p])
            /\ used' = [used EXCEPT ![p] = @ + 1]
    /\ held' = [held EXCEPT ![p] = NoBlock]
    /\ pc' = [pc EXCEPT ![p] = "op"]
    /\ UNCHANGED <<disk, cache, pin, outstanding, committing, stage, tail, panicked>>

\* log_write() records the block unless it is there already (absorption),
\* and brelse() unlocks the buffer.
LogWrite(p) ==
    /\ Up /\ pc[p] = "held"
    /\ ~LogFull /\ outstanding >= 1
    /\ IF held[p] \in Logged(lh)
       THEN UNCHANGED <<lh, pin, used>>
       ELSE /\ lh' = Append(lh, held[p])
            /\ pin' = [pin EXCEPT ![held[p]] = @ + 1]
            /\ used' = [used EXCEPT ![p] = @ + 1]
    /\ held' = [held EXCEPT ![p] = NoBlock]
    /\ pc' = [pc EXCEPT ![p] = "op"]
    /\ UNCHANGED <<disk, cache, outstanding, committing, stage, tail, panicked>>

\* "too big a transaction", "log_write outside of trans", "log.committing".
MustPanic(p) ==
    \/ pc[p] = "held" /\ (LogFull \/ outstanding < 1)
    \/ pc[p] = "op" /\ committing

LogPanic(p) ==
    /\ Up /\ MustPanic(p)
    /\ panicked' = TRUE
    /\ UNCHANGED <<disk, mem, stage, tail, procs>>

\* pc after wakeup(&log), with p at position l.
Woken(p, l) ==
    [q \in Proc |-> IF q = p THEN l ELSE IF pc[q] = "sleep" THEN "begin" ELSE pc[q]]

\* end_op() of a call that is not the last one.
EndOp(p) ==
    /\ Up /\ pc[p] = "op" /\ ~committing
    /\ outstanding > 1
    /\ outstanding' = outstanding - 1
    /\ pc' = Woken(p, "idle")
    /\ UNCHANGED <<disk, cache, pin, lh, committing, stage, tail, held, used, panicked>>

EndOpCommitHeadFirst(p) ==                                      \* mutant
    /\ Up /\ pc[p] = "op" /\ ~committing
    /\ outstanding = 1
    /\ outstanding' = 0 /\ committing' = TRUE
    /\ pc' = [pc EXCEPT ![p] = "commit"]
    /\ stage' = IF lh = <<>> THEN "finish" ELSE "write_log"
    /\ tail' = 1 /\ dhead' = lh
    /\ UNCHANGED <<home, dlog, cache, pin, lh, held, used, panicked>>

\* end_op() of the last one: it will commit, without holding log.lock.
EndOpCommit(p) ==
    /\ Up /\ pc[p] = "op" /\ ~committing
    /\ outstanding = 1
    /\ outstanding' = 0 /\ committing' = TRUE
    /\ pc' = [pc EXCEPT ![p] = "commit"]
    /\ stage' = IF lh = <<>> THEN "finish" ELSE "write_log"
    /\ tail' = 1
    /\ UNCHANGED <<disk, cache, pin, lh, held, used, panicked>>

-----------------------------------------------------------------------------
(* commit(), by the process at "commit". *)

\* One turn of write_log: from the cache to the log.
WriteLog ==
    /\ Up /\ stage = "write_log" /\ tail <= Len(lh)
    /\ dlog' = [dlog EXCEPT ![tail] = Read(lh[tail])]
    /\ tail' = tail + 1
    /\ UNCHANGED <<home, dhead, mem, stage, procs, panicked>>

\* The loop ends, and write_head() is the commit.
WriteHead ==
    /\ Up /\ stage = "write_log" /\ tail > Len(lh)
    /\ dhead' = lh
    /\ stage' = "install" /\ tail' = 1
    /\ UNCHANGED <<home, dlog, mem, procs, panicked>>

\* One turn of install_trans(0).
InstallTrans ==
    /\ Up /\ stage = "install"
    /\ InstallBlock
    /\ pin' = [pin EXCEPT ![lh[tail]] = @ - 1]
    /\ UNCHANGED <<dlog, dhead, lh, outstanding, committing, stage, procs, panicked>>

\* The loop ends, log.lh.n = 0, and write_head() erases the transaction.
ClearHead ==
    /\ Up /\ stage = "install" /\ tail > Len(lh)
    /\ lh' = <<>> /\ dhead' = <<>>
    /\ stage' = "finish" /\ tail' = 1
    /\ UNCHANGED <<home, dlog, cache, pin, outstanding, committing, procs, panicked>>

EndCommitSilent(p) ==                                           \* mutant
    /\ Up /\ pc[p] = "commit" /\ stage = "finish"
    /\ committing' = FALSE
    /\ stage' = "run"
    /\ pc' = [pc EXCEPT ![p] = "idle"]
    /\ UNCHANGED <<disk, cache, pin, lh, outstanding, tail, held, used, panicked>>

\* The end of end_op(): the committer lets the others in.
EndCommit(p) ==
    /\ Up /\ pc[p] = "commit" /\ stage = "finish"
    /\ committing' = FALSE
    /\ stage' = "run"
    /\ pc' = Woken(p, "idle")
    /\ UNCHANGED <<disk, cache, pin, lh, outstanding, tail, held, used, panicked>>

-----------------------------------------------------------------------------
(* The buffer cache and the machine. *)

\* A call that only reads brings a block into the cache.
Fill(b) ==
    /\ Up /\ cache[b] = NoBlock
    /\ cache' = [cache EXCEPT ![b] = home[b]]
    /\ UNCHANGED <<disk, pin, lh, outstanding, committing, stage, tail, procs, panicked>>

\* bget() recycles a buffer nobody refers to, without writing it.
Recycle(b) ==
    /\ Up /\ cache[b] # NoBlock
    /\ pin[b] = 0 /\ \A p \in Proc : held[p] # b
    /\ cache' = [cache EXCEPT ![b] = NoBlock]
    /\ UNCHANGED <<disk, pin, lh, outstanding, committing, stage, tail, procs, panicked>>

\* The machine loses power and starts again; only the disk remains.
Crash ==
    /\ cache' = [b \in Block |-> NoBlock] /\ pin' = [b \in Block |-> 0]
    /\ lh' = <<>> /\ outstanding' = 0 /\ committing' = FALSE
    /\ stage' = "read_head" /\ tail' = 1
    /\ pc' = [p \in Proc |-> "idle"]
    /\ held' = [p \in Proc |-> NoBlock] /\ used' = [p \in Proc |-> 0]
    /\ panicked' = FALSE
    /\ UNCHANGED disk

Commit == WriteLog \/ WriteHead \/ InstallTrans \/ ClearHead \/ \E p \in Proc : EndCommit(p)
Recover == ReadHead \/ RecoverBlock \/ RecoverClear

Next ==
    \/ Recover \/ Commit
    \/ \E p \in Proc :
          \/ BeginSleep(p) \/ BeginOp(p) \/ LogWrite(p) \/ LogPanic(p)
          \/ EndOp(p) \/ EndOpCommit(p)
          \/ \E b \in Block, v \in Val : Modify(p, b, v)
    \/ \E b \in Block : Fill(b) \/ Recycle(b)
    \/ Crash

Safety == Init /\ [][Next]_vars

-----------------------------------------------------------------------------
(* Properties. *)

\* The disk recover_from_log() would leave if the machine crashed now.
Recovered ==
    [b \in Block |-> IF b \in Logged(dhead) THEN dlog[IndexOf(dhead, b)] ELSE home[b]]

\* The disk the calls see, through the cache.
Current ==
    IF stage \in Recovering THEN Recovered
    ELSE [b \in Block |-> Read(b)]

Active == {p \in Proc : pc[p] \in {"op", "held"}}

Abstract == INSTANCE AtomicDisk WITH durable <- Recovered, current <- Current, active <- Active

\* File system calls are atomic with respect to crashes: whatever the
\* interleaving of calls, commit's disk writes, crashes and interrupted
\* recoveries, the disk after recovery is the one of a moment with no call in
\* progress (log.c:12-16), and only the header write changes it (log.c:99-101).
CrashAtomic == Abstract!Spec

\* When the last end_op() has committed, nothing remains only in memory: the
\* disk after a crash would be the disk the calls saw.
DurableAtRest ==
    stage = "run" /\ outstanding = 0 => Recovered = Current

\* The constants leave room: a call logs fewer blocks than begin_op() reserves
\* for it, enough to make up for the header block and for log_write()'s test
\* before absorption.
LogRoom ==
    OpBlocks < MAXOPBLOCKS /\ LOGSIZE - (MAXOPBLOCKS - OpBlocks) < NLOG - 1

\* log_write() and end_op() never panic (log.c:153, 220-223).
NoLogPanic == ~panicked

\* The log slots a call in progress may still use, as begin_op() reserved them.
Reserved ==
    {r \in Proc \X (1 .. MAXOPBLOCKS) : r[1] \in Active /\ r[2] > used[r[1]]}

\* begin_op() admits no more calls than the log has room for, although it only
\* looks at lh.n and outstanding (log.c:133).
SpaceReserved == Len(lh) + Cardinality(Reserved) <= LOGSIZE

\* No lost wakeup: while a process sleeps in begin_op() some end_op() is still
\* to come that wakes it (log.c:162, 172).
SleeperHasWaker ==
    (\E p \in Proc : pc[p] = "sleep") /\ Up => outstanding > 0 \/ committing

\* commit() leaves no buffer pinned (log.c:79), so the cache does not fill up.
NoPinLeak ==
    stage = "run" /\ outstanding = 0 => \A b \in Block : pin[b] = 0

-----------------------------------------------------------------------------
(* The inductive invariant behind DurableAtRest, NoPinLeak and CrashAtomic. *)

NoDup(s) == \A i, j \in 1 .. Len(s) : s[i] = s[j] => i = j

\* Who may be where in each stage.
StageInv ==
    /\ committing <=> stage \in Committing
    /\ stage # "run" => Active = {}
    /\ stage \in Recovering => \A p \in Proc : pc[p] = "idle"
    /\ \A p \in Proc : pc[p] = "held" <=> held[p] # NoBlock
    /\ \A p, q \in Proc : held[p] = held[q] /\ held[p] # NoBlock => p = q
    /\ \A p \in Proc : pc[p] = "held" =>
           held[p] \in Logged(lh) \/ used[p] < OpBlocks
    /\ NoDup(lh) /\ NoDup(dhead)

\* A logged block is pinned once until it is installed.
PinInv ==
    \A b \in Block :
        /\ pin[b] = IF \/ stage \in {"run", "write_log"} /\ b \in Logged(lh)
                       \/ stage = "install" /\ \E i \in tail .. Len(lh) : lh[i] = b
                    THEN 1 ELSE 0
        /\ pin[b] > 0 => cache[b] # NoBlock

\* A cached block differs from its home only while it is pinned or held.
CacheInv ==
    /\ \A b \in Block :
          cache[b] = NoBlock \/ cache[b] = home[b] \/ pin[b] > 0
          \/ \E p \in Proc : held[p] = b
    /\ \A p \in Proc : held[p] # NoBlock => cache[held[p]] # NoBlock

\* How far the writes of commit and recovery have come.
DiskInv ==
    /\ stage \in {"run", "write_log", "finish"} => dhead = <<>>
    /\ stage \in {"install", "recover"} => dhead = lh
    /\ stage \in {"read_head", "finish"} => lh = <<>>
    /\ stage = "run" /\ outstanding = 0 => lh = <<>>
    /\ stage \in {"write_log", "install", "recover"} => tail <= Len(lh) + 1
    /\ stage = "write_log" => \A i \in 1 .. tail - 1 : dlog[i] = cache[lh[i]]
    /\ stage \in {"install", "recover"} =>
          \A i \in 1 .. tail - 1 : home[lh[i]] = dlog[i]
    /\ stage = "install" => \A i \in tail .. Len(lh) : cache[lh[i]] = dlog[i]

\* outstanding counts the calls in progress.
CountInv == outstanding = Cardinality(Active)

\* The invariant the proofs use: what is in memory, pinned, in the log and at
\* home fits together in every stage of every call, commit and recovery.
LogInv ==
    /\ TypeOK /\ StageInv /\ PinInv /\ CacheInv /\ DiskInv
    /\ CountInv /\ SpaceReserved
=============================================================================
