------------------------------ MODULE LogSteps ------------------------------
(***************************************************************************)
(* Every step of the log preserves its invariant: types, stages, pins,     *)
(* cache and disk.  LogProofs adds the counts and draws the conclusions.   *)
(***************************************************************************)
EXTENDS Log, TLAPS

USE DEF disk, mem, procs

\* What log_write() does to the list of logged blocks.
LEMMA AppendFacts ==
    ASSUME NEW s \in Seq(Block), NEW e \in Block
    PROVE  /\ Append(s, e) \in Seq(Block)
           /\ Len(Append(s, e)) = Len(s) + 1
           /\ \A i \in 1 .. Len(s) : Append(s, e)[i] = s[i]
           /\ Append(s, e)[Len(s) + 1] = e
           /\ Logged(Append(s, e)) = Logged(s) \cup {e}
           /\ NoDup(s) /\ e \notin Logged(s) => NoDup(Append(s, e))
<1> DEFINE t == Append(s, e)
<1>1. /\ t \in Seq(Block) /\ Len(t) = Len(s) + 1
      /\ \A i \in 1 .. Len(s) : t[i] = s[i]
      /\ t[Len(s) + 1] = e /\ Len(s) \in Nat
  OBVIOUS
<1> HIDE DEF t
<1>2. \A i \in 1 .. Len(t) : i \in 1 .. Len(s) \/ i = Len(s) + 1
  BY <1>1
<1>3. Logged(t) = Logged(s) \cup {e}
  BY <1>1, <1>2 DEF Logged
<1>4. ASSUME NoDup(s), e \notin Logged(s) PROVE NoDup(t)
  BY <1>1, <1>2, <1>4 DEF NoDup, Logged
<1> QED
  BY <1>1, <1>3, <1>4 DEF t

\* Init establishes the types.
LEMMA TypeInit == Init => TypeOK
<1> SUFFICES ASSUME Init PROVE TypeOK
  OBVIOUS
<1>1. dlog \in [1 .. LOGSIZE -> Val]
  BY DEF Init
<1>2. used \in [Proc -> 0 .. OpBlocks] /\ tail \in 1 .. LOGSIZE + 1
  BY LogAssumption DEF Init
<1>3. cache \in [Block -> Val \cup {NoBlock}] /\ pin \in [Block -> Nat]
  BY DEF Init
<1>4. /\ pc \in [Proc -> {"idle", "sleep", "begin", "op", "held", "commit"}]
      /\ held \in [Proc -> Block \cup {NoBlock}]
  BY DEF Init
<1>5. lh \in Seq(Block) /\ Len(lh) <= LOGSIZE /\ dhead \in Seq(Block) /\ Len(dhead) <= LOGSIZE
  BY LogAssumption DEF Init
<1> QED
  BY LogAssumption, <1>1, <1>2, <1>3, <1>4, <1>5 DEF Init, TypeOK, Recovering

\* Every step keeps the types.
LEMMA TypeStep == LogInv /\ [Next]_vars => TypeOK'
<1> SUFFICES ASSUME LogInv, [Next]_vars PROVE TypeOK'
  OBVIOUS
<1> USE LogAssumption DEF LogInv, TypeOK, Recovering, Committing
<1>1. CASE ReadHead
  BY <1>1 DEF ReadHead
<1>2. CASE RecoverBlock
  <2>1. lh[tail] \in Block /\ dlog[tail] \in Val
    BY <1>2 DEF RecoverBlock, InstallBlock
  <2>2. cache' \in [Block -> Val \cup {NoBlock}] /\ home' \in [Block -> Val]
    BY <1>2, <2>1 DEF RecoverBlock, InstallBlock
  <2>3. tail' \in 1 .. LOGSIZE + 1
    BY <1>2 DEF RecoverBlock, InstallBlock
  <2> QED
    BY <1>2, <2>2, <2>3 DEF RecoverBlock
<1>3. CASE RecoverClear
  BY <1>3 DEF RecoverClear
<1>4. CASE WriteLog
  BY <1>4 DEF WriteLog, Read
<1>5. CASE WriteHead
  BY <1>5 DEF WriteHead
<1>6. CASE InstallTrans
  <2>1. lh[tail] \in Block /\ pin[lh[tail]] = 1
    BY <1>6 DEF InstallTrans, InstallBlock, PinInv
  <2> QED
    BY <1>6, <2>1 DEF InstallTrans, InstallBlock
<1>7. CASE ClearHead
  BY <1>7 DEF ClearHead
<1>8. ASSUME NEW p \in Proc, EndCommit(p) PROVE TypeOK'
  BY <1>8 DEF EndCommit, Woken
<1>9. ASSUME NEW p \in Proc, BeginSleep(p) PROVE TypeOK'
  BY <1>9 DEF BeginSleep
<1>10. ASSUME NEW p \in Proc, BeginOp(p) PROVE TypeOK'
  <2>1. used' \in [Proc -> 0 .. OpBlocks] /\ outstanding' \in Nat
    BY <1>10 DEF BeginOp
  <2> QED
    BY <1>10, <2>1 DEF BeginOp
<1>11. ASSUME NEW p \in Proc, LogWrite(p) PROVE TypeOK'
  <2>1. held[p] \in Block /\ Len(lh) < LOGSIZE
    BY <1>11 DEF LogWrite, LogFull, StageInv
  <2>2. CASE held[p] \in Logged(lh)
    BY <1>11, <2>2 DEF LogWrite
  <2>3. CASE held[p] \notin Logged(lh)
    <3>1. used[p] + 1 \in 0 .. OpBlocks
      BY <1>11, <2>3 DEF LogWrite, StageInv
    <3>e. /\ lh' = Append(lh, held[p])
          /\ pin' = [pin EXCEPT ![held[p]] = @ + 1]
          /\ used' = [used EXCEPT ![p] = @ + 1]
      BY <1>11, <2>3 DEF LogWrite
    <3>2. lh' \in Seq(Block) /\ Len(lh') <= LOGSIZE
      BY <2>1, <3>e, AppendFacts
    <3>3. used' \in [Proc -> 0 .. OpBlocks]
      BY <3>1, <3>e
    <3>4. pin' \in [Block -> Nat]
      BY <2>1, <3>e
    <3> QED
      BY <1>11, <3>2, <3>3, <3>4 DEF LogWrite
  <2> QED
    BY <2>2, <2>3
<1>12. ASSUME NEW p \in Proc, LogPanic(p) PROVE TypeOK'
  BY <1>12 DEF LogPanic
<1>13. ASSUME NEW p \in Proc, EndOp(p) PROVE TypeOK'
  BY <1>13 DEF EndOp, Woken
<1>14. ASSUME NEW p \in Proc, EndOpCommit(p) PROVE TypeOK'
  BY <1>14 DEF EndOpCommit
<1>15. ASSUME NEW p \in Proc, NEW b \in Block, NEW v \in Val, Modify(p, b, v)
       PROVE  TypeOK'
  BY <1>15 DEF Modify
<1>16. ASSUME NEW b \in Block, Fill(b) PROVE TypeOK'
  BY <1>16 DEF Fill
<1>17. ASSUME NEW b \in Block, Recycle(b) PROVE TypeOK'
  BY <1>17 DEF Recycle
<1>18. CASE Crash
  <2>1. used' \in [Proc -> 0 .. OpBlocks] /\ tail' \in 1 .. LOGSIZE + 1
    BY <1>18 DEF Crash
  <2> QED
    <3>1. cache' \in [Block -> Val \cup {NoBlock}] /\ pin' \in [Block -> Nat]
      BY <1>18 DEF Crash
    <3>2. /\ pc' \in [Proc -> {"idle", "sleep", "begin", "op", "held", "commit"}]
          /\ held' \in [Proc -> Block \cup {NoBlock}]
      BY <1>18 DEF Crash
    <3>3. lh' \in Seq(Block) /\ Len(lh') <= LOGSIZE
      BY <1>18 DEF Crash
    <3> QED
      BY <1>18, <2>1, <3>1, <3>2, <3>3 DEF Crash
<1>19. CASE UNCHANGED vars
  BY <1>19 DEF vars
<1> QED
  BY <1>1, <1>2, <1>3, <1>4, <1>5, <1>6, <1>7, <1>8, <1>9, <1>10, <1>11, <1>12,
     <1>13, <1>14, <1>15, <1>16, <1>17, <1>18, <1>19 DEF Next, Recover, Commit
\* The empty log.
LEMMA EmptyFacts == Logged(<<>>) = {} /\ NoDup(<<>>) /\ Len(<<>>) = 0
  BY DEF Logged, NoDup

\* What end_op() reads off the count of calls in progress.
Outstanding ==
    /\ Active # {} => outstanding # 0
    /\ outstanding = 1 => \A p \in Active : Active = {p}

\* Every step keeps the relation between stages, positions and locked buffers.
LEMMA StageStep == LogInv /\ Outstanding /\ [Next]_vars => StageInv'
<1> SUFFICES ASSUME LogInv, Outstanding, [Next]_vars PROVE StageInv'
  OBVIOUS
<1> USE LogAssumption DEF LogInv, StageInv, Recovering, Committing, Active, Up
<1>1. CASE ReadHead
  BY <1>1 DEF ReadHead, TypeOK
<1>2. CASE RecoverBlock
  BY <1>2 DEF RecoverBlock, InstallBlock, TypeOK
<1>3. CASE RecoverClear
  BY <1>3, EmptyFacts DEF RecoverClear, TypeOK
<1>4. CASE WriteLog
  BY <1>4 DEF WriteLog, TypeOK
<1>5. CASE WriteHead
  BY <1>5 DEF WriteHead, TypeOK
<1>6. CASE InstallTrans
  BY <1>6 DEF InstallTrans, InstallBlock, TypeOK
<1>7. CASE ClearHead
  BY <1>7, EmptyFacts DEF ClearHead, TypeOK
<1>8. ASSUME NEW p \in Proc, EndCommit(p) PROVE StageInv'
  BY <1>8 DEF EndCommit, Woken, TypeOK
<1>9. ASSUME NEW p \in Proc, BeginSleep(p) PROVE StageInv'
  BY <1>9 DEF BeginSleep, TypeOK
<1>10. ASSUME NEW p \in Proc, BeginOp(p) PROVE StageInv'
  BY <1>10 DEF BeginOp, TypeOK
<1>11. ASSUME NEW p \in Proc, LogWrite(p) PROVE StageInv'
  <2>1. held[p] \in Block
    BY <1>11 DEF LogWrite, TypeOK
  <2>2. CASE held[p] \in Logged(lh)
    BY <1>11, <2>2 DEF LogWrite, TypeOK
  <2>3. CASE held[p] \notin Logged(lh)
    <3>1. lh' = Append(lh, held[p]) /\ used' = [used EXCEPT ![p] = @ + 1]
      BY <1>11, <2>3 DEF LogWrite
    <3>2. NoDup(lh') /\ Logged(lh') = Logged(lh) \cup {held[p]}
      BY <2>1, <2>3, <3>1, AppendFacts DEF TypeOK
    <3> QED
      BY <1>11, <2>1, <3>1, <3>2 DEF LogWrite, TypeOK
  <2> QED
    BY <2>2, <2>3
<1>12. ASSUME NEW p \in Proc, LogPanic(p) PROVE StageInv'
  BY <1>12 DEF LogPanic, TypeOK
<1>13. ASSUME NEW p \in Proc, EndOp(p) PROVE StageInv'
  BY <1>13 DEF EndOp, Woken, TypeOK
<1>14. ASSUME NEW p \in Proc, EndOpCommit(p) PROVE StageInv'
  <2>1. \A q \in Proc : pc[q] \in {"op", "held"} => q = p
    BY <1>14 DEF EndOpCommit, Outstanding, Active
  <2> QED
    BY <1>14, <2>1 DEF EndOpCommit, TypeOK
<1>15. ASSUME NEW p \in Proc, NEW b \in Block, NEW v \in Val, Modify(p, b, v)
       PROVE  StageInv'
  BY <1>15 DEF Modify, TypeOK
<1>16. ASSUME NEW b \in Block, Fill(b) PROVE StageInv'
  BY <1>16 DEF Fill, TypeOK
<1>17. ASSUME NEW b \in Block, Recycle(b) PROVE StageInv'
  BY <1>17 DEF Recycle, TypeOK
<1>18. CASE Crash
  BY <1>18, EmptyFacts DEF Crash, TypeOK
<1>19. CASE UNCHANGED vars
  BY <1>19 DEF vars, TypeOK
<1> QED
  BY <1>1, <1>2, <1>3, <1>4, <1>5, <1>6, <1>7, <1>8, <1>9, <1>10, <1>11, <1>12,
     <1>13, <1>14, <1>15, <1>16, <1>17, <1>18, <1>19 DEF Next, Recover, Commit

\* One turn of install_trans().
LEMMA InstallFacts ==
    ASSUME TypeOK, InstallBlock
    PROVE  /\ tail \in 1 .. Len(lh) /\ tail' = tail + 1
           /\ lh[tail] \in Block /\ dlog[tail] \in Val
           /\ home' = [home EXCEPT ![lh[tail]] = dlog[tail]]
           /\ cache' = [cache EXCEPT ![lh[tail]] = dlog[tail]]
<1>1. tail <= Len(lh) /\ tail \in 1 .. Len(lh)
  BY LogAssumption DEF InstallBlock, TypeOK
<1>2. lh[tail] \in Block /\ dlog[tail] \in Val
  BY <1>1, LogAssumption DEF TypeOK
<1> QED
  BY <1>1, <1>2 DEF InstallBlock

\* Every step keeps a logged block pinned, once, until it is installed.
LEMMA PinStep == LogInv /\ [Next]_vars => PinInv'
<1> SUFFICES ASSUME LogInv, [Next]_vars PROVE PinInv'
  OBVIOUS
<1> USE LogAssumption DEF LogInv, Recovering, Committing, Up
<1>1. CASE ReadHead
  BY <1>1 DEF ReadHead, PinInv, TypeOK
<1>2. CASE RecoverBlock
  BY <1>2 DEF RecoverBlock, InstallBlock, PinInv, StageInv, DiskInv, TypeOK
<1>3. CASE RecoverClear
  BY <1>3, EmptyFacts DEF RecoverClear, PinInv, StageInv, DiskInv, TypeOK
<1>4. CASE WriteLog
  BY <1>4 DEF WriteLog, PinInv, TypeOK
<1>5. CASE WriteHead
  <2>1. \A b \in Block : b \in Logged(lh) <=> \E i \in 1 .. Len(lh) : lh[i] = b
    BY DEF Logged
  <2> QED
    BY <1>5, <2>1 DEF WriteHead, PinInv, TypeOK
<1>6. CASE InstallTrans
  <2>1. /\ tail \in 1 .. Len(lh) /\ lh[tail] \in Block /\ tail' = tail + 1
        /\ lh' = lh /\ stage = "install" /\ stage' = "install"
        /\ pin' = [pin EXCEPT ![lh[tail]] = @ - 1]
        /\ cache' = [cache EXCEPT ![lh[tail]] = dlog[tail]]
        /\ dlog[tail] \in Val
    BY <1>6, InstallFacts DEF InstallTrans
  <2>2. ASSUME NEW c \in Block
        PROVE  (\E i \in tail + 1 .. Len(lh) : lh[i] = c)
               <=> (\E i \in tail .. Len(lh) : lh[i] = c) /\ c # lh[tail]
    BY <2>1, <2>2 DEF StageInv, NoDup, TypeOK
  <2>3. ASSUME NEW c \in Block, c # lh[tail]
        PROVE  pin'[c] = pin[c] /\ cache'[c] = cache[c]
    BY <2>1, <2>3 DEF TypeOK
  <2>4. pin[lh[tail]] = 1
    BY <2>1 DEF PinInv
  <2>5. pin'[lh[tail]] = 0
    BY <2>1, <2>4 DEF TypeOK
  <2> QED
    BY <2>1, <2>2, <2>3, <2>5 DEF PinInv
<1>7. CASE ClearHead
  BY <1>7, EmptyFacts DEF ClearHead, PinInv, TypeOK
<1>8. ASSUME NEW p \in Proc, EndCommit(p) PROVE PinInv'
  BY <1>8, EmptyFacts DEF EndCommit, PinInv, DiskInv
<1>9. ASSUME NEW p \in Proc, BeginSleep(p) PROVE PinInv'
  BY <1>9 DEF BeginSleep, PinInv, TypeOK
<1>10. ASSUME NEW p \in Proc, BeginOp(p) PROVE PinInv'
  BY <1>10 DEF BeginOp, PinInv, TypeOK
<1>11. ASSUME NEW p \in Proc, LogWrite(p) PROVE PinInv'
  <2>1. held[p] \in Block /\ stage = "run" /\ cache[held[p]] # NoBlock
    BY <1>11 DEF LogWrite, TypeOK, StageInv, CacheInv, Active
  <2>2. stage' = stage /\ tail' = tail /\ cache' = cache
    BY <1>11 DEF LogWrite
  <2>3. CASE held[p] \in Logged(lh)
    <3>1. lh' = lh /\ pin' = pin
      BY <1>11, <2>3 DEF LogWrite
    <3> QED
      BY <2>2, <3>1 DEF PinInv
  <2>4. CASE held[p] \notin Logged(lh)
    <3>1. lh' = Append(lh, held[p]) /\ pin' = [pin EXCEPT ![held[p]] = @ + 1]
      BY <1>11, <2>4 DEF LogWrite
    <3>2. Logged(lh') = Logged(lh) \cup {held[p]}
      BY <2>1, <3>1, AppendFacts DEF TypeOK
    <3>3. pin[held[p]] = 0
      BY <2>1, <2>4 DEF PinInv
    <3>4. pin'[held[p]] = 1 /\ \A b \in Block : b # held[p] => pin'[b] = pin[b]
      BY <2>1, <3>1, <3>3 DEF TypeOK
    <3> QED
      BY <2>1, <2>2, <3>2, <3>4 DEF PinInv
  <2> QED
    BY <2>3, <2>4
<1>12. ASSUME NEW p \in Proc, LogPanic(p) PROVE PinInv'
  BY <1>12 DEF LogPanic, PinInv
<1>13. ASSUME NEW p \in Proc, EndOp(p) PROVE PinInv'
  BY <1>13 DEF EndOp, PinInv, TypeOK
<1>14. ASSUME NEW p \in Proc, EndOpCommit(p) PROVE PinInv'
  <2>1. stage = "run" /\ (lh = <<>> => Logged(lh) = {})
    BY <1>14, EmptyFacts DEF EndOpCommit, StageInv, TypeOK
  <2> QED
    BY <1>14, <2>1 DEF EndOpCommit, PinInv
<1>15. ASSUME NEW p \in Proc, NEW b \in Block, NEW v \in Val, Modify(p, b, v)
       PROVE  PinInv'
  BY <1>15 DEF Modify, PinInv, TypeOK
<1>16. ASSUME NEW b \in Block, Fill(b) PROVE PinInv'
  BY <1>16 DEF Fill, PinInv, TypeOK
<1>17. ASSUME NEW b \in Block, Recycle(b) PROVE PinInv'
  BY <1>17 DEF Recycle, PinInv, TypeOK
<1>18. CASE Crash
  BY <1>18 DEF Crash, PinInv
<1>19. CASE UNCHANGED vars
  BY <1>19 DEF vars, PinInv
<1> QED
  BY <1>1, <1>2, <1>3, <1>4, <1>5, <1>6, <1>7, <1>8, <1>9, <1>10, <1>11, <1>12,
     <1>13, <1>14, <1>15, <1>16, <1>17, <1>18, <1>19 DEF Next, Recover, Commit

\* Every step keeps a changed block in the cache until it is at home.
LEMMA CacheStep == LogInv /\ [Next]_vars => CacheInv'
<1> SUFFICES ASSUME LogInv, [Next]_vars PROVE CacheInv'
  OBVIOUS
<1>a. TypeOK /\ StageInv /\ PinInv /\ CacheInv
  BY DEF LogInv
<1>b. /\ home \in [Block -> Val] /\ cache \in [Block -> Val \cup {NoBlock}]
      /\ pin \in [Block -> Nat] /\ held \in [Proc -> Block \cup {NoBlock}]
      /\ NoBlock \notin Block /\ NoBlock \notin Val
  BY <1>a, LogAssumption DEF TypeOK
<1>1. CASE ReadHead
  BY <1>1, <1>a, <1>b DEF ReadHead, CacheInv
<1>2. CASE RecoverBlock
  <2>1. InstallBlock /\ pin' = pin /\ held' = held
    BY <1>2 DEF RecoverBlock
  <2>2. /\ lh[tail] \in Block /\ dlog[tail] \in Val
        /\ home' = [home EXCEPT ![lh[tail]] = dlog[tail]]
        /\ cache' = [cache EXCEPT ![lh[tail]] = dlog[tail]]
    BY <1>a, <2>1, InstallFacts
  <2>3. cache'[lh[tail]] = home'[lh[tail]] /\ cache'[lh[tail]] # NoBlock
    BY <1>b, <2>2
  <2>4. ASSUME NEW c \in Block, c # lh[tail]
        PROVE  cache'[c] = cache[c] /\ home'[c] = home[c] /\ pin'[c] = pin[c]
    BY <1>b, <2>1, <2>2, <2>4
  <2>5. ASSUME NEW p \in Proc, held[p] # NoBlock PROVE cache'[held[p]] # NoBlock
    <3>1. held[p] \in Block /\ cache[held[p]] # NoBlock
      BY <1>a, <1>b, <2>5 DEF CacheInv
    <3> QED
      BY <2>3, <2>4, <3>1
  <2> QED
    BY <1>a, <2>1, <2>3, <2>4, <2>5 DEF CacheInv
<1>3. CASE RecoverClear
  BY <1>3, <1>a, <1>b DEF RecoverClear, CacheInv
<1>4. CASE WriteLog
  BY <1>4, <1>a, <1>b DEF WriteLog, CacheInv
<1>5. CASE WriteHead
  BY <1>5, <1>a, <1>b DEF WriteHead, CacheInv
<1>6. CASE InstallTrans
  <2>1. InstallBlock /\ pin' = [pin EXCEPT ![lh[tail]] = @ - 1] /\ held' = held
    BY <1>6 DEF InstallTrans
  <2>2. /\ lh[tail] \in Block /\ dlog[tail] \in Val
        /\ home' = [home EXCEPT ![lh[tail]] = dlog[tail]]
        /\ cache' = [cache EXCEPT ![lh[tail]] = dlog[tail]]
    BY <1>a, <2>1, InstallFacts
  <2>3. cache'[lh[tail]] = home'[lh[tail]] /\ cache'[lh[tail]] # NoBlock
    BY <1>b, <2>2
  <2>4. ASSUME NEW c \in Block, c # lh[tail]
        PROVE  cache'[c] = cache[c] /\ home'[c] = home[c] /\ pin'[c] = pin[c]
    BY <1>b, <2>1, <2>2, <2>4
  <2>5. ASSUME NEW p \in Proc, held[p] # NoBlock PROVE cache'[held[p]] # NoBlock
    <3>1. held[p] \in Block /\ cache[held[p]] # NoBlock
      BY <1>a, <1>b, <2>5 DEF CacheInv
    <3> QED
      BY <2>3, <2>4, <3>1
  <2> QED
    BY <1>a, <2>1, <2>3, <2>4, <2>5 DEF CacheInv
<1>7. CASE ClearHead
  BY <1>7, <1>a, <1>b DEF ClearHead, CacheInv
<1>8. ASSUME NEW p \in Proc, EndCommit(p) PROVE CacheInv'
  BY <1>8, <1>a, <1>b DEF EndCommit, Woken, CacheInv
<1>9. ASSUME NEW p \in Proc, BeginSleep(p) PROVE CacheInv'
  BY <1>9, <1>a, <1>b DEF BeginSleep, CacheInv
<1>10. ASSUME NEW p \in Proc, BeginOp(p) PROVE CacheInv'
  BY <1>10, <1>a, <1>b DEF BeginOp, CacheInv
<1>11. ASSUME NEW p \in Proc, LogWrite(p) PROVE CacheInv'
  <2>1. /\ held[p] \in Block /\ held' = [held EXCEPT ![p] = NoBlock]
        /\ cache' = cache /\ home' = home
    BY <1>11, <1>a DEF LogWrite, TypeOK, StageInv
  <2>2. pin'[held[p]] > 0 /\ \A b \in Block : b # held[p] => pin'[b] = pin[b]
    <3>1. CASE held[p] \in Logged(lh)
      <4>1. stage = "run" /\ pin' = pin
        BY <1>11, <1>a, <3>1 DEF LogWrite, StageInv, Active
      <4>2. pin[held[p]] = 1
        BY <1>a, <2>1, <3>1, <4>1 DEF PinInv
      <4> QED
        BY <4>1, <4>2
    <3>2. CASE held[p] \notin Logged(lh)
      <4>1. pin' = [pin EXCEPT ![held[p]] = @ + 1]
        BY <1>11, <3>2 DEF LogWrite
      <4> QED
        BY <1>b, <2>1, <4>1
    <3> QED
      BY <3>1, <3>2
  <2>3. held'[p] = NoBlock /\ \A q \in Proc : q # p => held'[q] = held[q]
    BY <1>b, <2>1
  <2> QED
    BY <1>a, <1>b, <2>1, <2>2, <2>3 DEF CacheInv
<1>12. ASSUME NEW p \in Proc, LogPanic(p) PROVE CacheInv'
  BY <1>12, <1>a, <1>b DEF LogPanic, CacheInv
<1>13. ASSUME NEW p \in Proc, EndOp(p) PROVE CacheInv'
  BY <1>13, <1>a, <1>b DEF EndOp, Woken, CacheInv
<1>14. ASSUME NEW p \in Proc, EndOpCommit(p) PROVE CacheInv'
  BY <1>14, <1>a, <1>b DEF EndOpCommit, CacheInv
<1>15. ASSUME NEW p \in Proc, NEW b \in Block, NEW v \in Val, Modify(p, b, v)
       PROVE  CacheInv'
  <2>1. /\ held[p] = NoBlock /\ held' = [held EXCEPT ![p] = b]
        /\ cache' = [cache EXCEPT ![b] = v] /\ home' = home /\ pin' = pin
    BY <1>15, <1>a DEF Modify, TypeOK, StageInv
  <2>2. held'[p] = b /\ \A q \in Proc : q # p => held'[q] = held[q]
    BY <1>b, <2>1
  <2>3. cache'[b] # NoBlock /\ \A c \in Block : c # b => cache'[c] = cache[c]
    BY <1>b, <2>1
  <2> QED
    BY <1>a, <1>b, <2>1, <2>2, <2>3 DEF CacheInv
<1>16. ASSUME NEW b \in Block, Fill(b) PROVE CacheInv'
  BY <1>16, <1>a, <1>b DEF Fill, CacheInv
<1>17. ASSUME NEW b \in Block, Recycle(b) PROVE CacheInv'
  BY <1>17, <1>a, <1>b DEF Recycle, CacheInv
<1>18. CASE Crash
  BY <1>18, <1>a, <1>b DEF Crash, CacheInv
<1>19. CASE UNCHANGED vars
  BY <1>19, <1>a, <1>b DEF vars, CacheInv
<1> QED
  BY <1>1, <1>2, <1>3, <1>4, <1>5, <1>6, <1>7, <1>8, <1>9, <1>10, <1>11, <1>12,
     <1>13, <1>14, <1>15, <1>16, <1>17, <1>18, <1>19 DEF Next, Recover, Commit

\* A block that is logged and not installed yet is in the cache.
LEMMA LoggedIsCached ==
    ASSUME LogInv, NEW i \in 1 .. Len(lh),
           stage \in {"run", "write_log"} \/ (stage = "install" /\ tail <= i)
    PROVE  lh[i] \in Block /\ pin[lh[i]] > 0 /\ cache[lh[i]] # NoBlock
<1>1. lh[i] \in Block /\ tail \in Nat /\ Len(lh) \in Nat /\ PinInv
  BY LogAssumption DEF LogInv, TypeOK
<1>2. lh[i] \in Logged(lh)
  BY DEF Logged
<1>3. tail <= i => \E k \in tail .. Len(lh) : lh[k] = lh[i]
  BY <1>1
<1>4. pin[lh[i]] = 1
  BY <1>1, <1>2, <1>3 DEF PinInv
<1> QED
  BY <1>1, <1>4 DEF PinInv

\* Installing block tail leaves the first tail blocks of the log installed.
LEMMA InstallExtends ==
    ASSUME home \in [Block -> Val], tail \in 1 .. Len(lh), Len(lh) \in Nat,
           \A i \in 1 .. Len(lh) : lh[i] \in Block,
           home' = [home EXCEPT ![lh[tail]] = dlog[tail]],
           StageInv, \A i \in 1 .. tail - 1 : home[lh[i]] = dlog[i],
           NEW i \in 1 .. tail
    PROVE  home'[lh[i]] = dlog[i]
<1>1. CASE i = tail
  BY <1>1
<1>2. CASE i # tail
  <2>1. i \in 1 .. tail - 1 /\ i \in 1 .. Len(lh)
    BY <1>2
  <2>2. lh[i] # lh[tail]
    BY <1>2, <2>1 DEF StageInv, NoDup
  <2> QED
    BY <2>1, <2>2
<1> QED
  BY <1>1, <1>2

\* A step of the buffer cache that leaves the pinned or the cached buffers alone
\* does not touch the blocks that commit() still has to write.
LEMMA CachedStays ==
    ASSUME LogInv, UNCHANGED <<home, dlog, dhead, pin, lh, outstanding, stage, tail>>,
           \A c \in Block : pin[c] > 0 /\ cache[c] # NoBlock => cache'[c] = cache[c]
    PROVE  DiskInv'
<1>1. /\ Len(lh) \in Nat /\ tail \in Nat /\ 1 <= tail /\ DiskInv
  BY DEF LogInv, TypeOK
<1>2. ASSUME stage = "write_log", NEW i \in 1 .. tail - 1
      PROVE  dlog[i] = cache'[lh[i]]
  <2>0. tail <= Len(lh) + 1 /\ \A k \in 1 .. tail - 1 : dlog[k] = cache[lh[k]]
    BY <1>1, <1>2 DEF DiskInv
  <2>1. i \in 1 .. Len(lh) /\ dlog[i] = cache[lh[i]]
    BY <1>1, <2>0
  <2> QED
    BY <1>2, <2>1, LoggedIsCached
<1>3. ASSUME stage = "install", NEW i \in tail .. Len(lh)
      PROVE  cache'[lh[i]] = dlog[i]
  <2>0. \A k \in tail .. Len(lh) : cache[lh[k]] = dlog[k]
    BY <1>1, <1>3 DEF DiskInv
  <2>1. i \in 1 .. Len(lh) /\ tail <= i /\ cache[lh[i]] = dlog[i]
    BY <1>1, <2>0
  <2> QED
    BY <1>3, <2>1, LoggedIsCached
<1> QED
  BY <1>1, <1>2, <1>3 DEF DiskInv

\* Every step keeps the disk writes of commit and recovery in order.
LEMMA DiskStep == LogInv /\ Outstanding /\ [Next]_vars => DiskInv'
<1> SUFFICES ASSUME LogInv, Outstanding, [Next]_vars PROVE DiskInv'
  OBVIOUS
<1> USE DEF Recovering, Committing, Up
<1>a. TypeOK /\ StageInv /\ PinInv /\ DiskInv
  BY DEF LogInv
<1>b. /\ lh \in Seq(Block) /\ Len(lh) \in Nat /\ Len(lh) <= LOGSIZE /\ LOGSIZE \in Nat
      /\ tail \in Nat /\ 1 <= tail /\ tail <= LOGSIZE + 1
      /\ \A i \in 1 .. Len(lh) : lh[i] \in Block
  BY <1>a, LogAssumption DEF TypeOK
<1>c. /\ home \in [Block -> Val] /\ dlog \in [1 .. LOGSIZE -> Val]
      /\ cache \in [Block -> Val \cup {NoBlock}]
  BY <1>a DEF TypeOK
<1>1. CASE ReadHead
  <2>1. /\ stage' = "recover" /\ dhead' = dhead /\ lh' = dhead /\ tail' = 1
    BY <1>1 DEF ReadHead
  <2>2. Len(lh') \in Nat
    BY <2>1, <1>a DEF TypeOK
  <2> QED
    BY <2>1, <2>2 DEF DiskInv
<1>2. CASE RecoverBlock
  <2>1. /\ stage = "recover" /\ stage' = stage /\ lh' = lh /\ dhead' = dhead /\ dlog' = dlog
        /\ InstallBlock
    BY <1>2 DEF RecoverBlock
  <2>2. /\ tail \in 1 .. Len(lh) /\ tail' = tail + 1
        /\ lh[tail] \in Block /\ dlog[tail] \in Val
        /\ home' = [home EXCEPT ![lh[tail]] = dlog[tail]]
    BY <2>1, <1>a, InstallFacts
  <2>3. dhead = lh /\ \A i \in 1 .. tail - 1 : home[lh[i]] = dlog[i]
    BY <1>a, <2>1 DEF DiskInv
  <2>4. ASSUME NEW i \in 1 .. tail PROVE home'[lh[i]] = dlog[i]
    BY <1>a, <1>b, <1>c, <2>2, <2>3, InstallExtends
  <2>5. 1 .. tail' - 1 = 1 .. tail /\ tail' <= Len(lh) + 1
    BY <1>b, <2>2
  <2> QED
    BY <2>1, <2>3, <2>4, <2>5 DEF DiskInv
<1>3. CASE RecoverClear
  BY <1>3, <1>a, EmptyFacts DEF RecoverClear, DiskInv, TypeOK
<1>4. CASE WriteLog
  <2>1. /\ stage = "write_log" /\ stage' = stage /\ lh' = lh /\ dhead' = dhead /\ cache' = cache
        /\ tail <= Len(lh) /\ tail' = tail + 1
        /\ dlog' = [dlog EXCEPT ![tail] = Read(lh[tail])]
    BY <1>4 DEF WriteLog
  <2>2. tail \in 1 .. LOGSIZE /\ tail \in 1 .. Len(lh) /\ lh[tail] \in Block
    BY <1>b, <2>1
  <2>3. Read(lh[tail]) = cache[lh[tail]]
    BY <2>1, <2>2, LoggedIsCached DEF Read
  <2>4. dhead = <<>> /\ \A i \in 1 .. tail - 1 : dlog[i] = cache[lh[i]]
    BY <1>a, <2>1 DEF DiskInv
  <2>5. ASSUME NEW i \in 1 .. tail PROVE dlog'[i] = cache[lh[i]]
    <3>1. CASE i = tail
      BY <1>c, <2>1, <2>2, <2>3, <3>1
    <3>2. CASE i # tail
      <4>1. i \in 1 .. tail - 1 /\ i \in 1 .. LOGSIZE
        BY <1>b, <3>2
      <4> QED
        BY <1>c, <2>1, <2>2, <2>4, <3>2, <4>1
    <3> QED
      BY <3>1, <3>2
  <2>6. 1 .. tail' - 1 = 1 .. tail /\ tail' <= Len(lh) + 1
    BY <1>b, <2>1
  <2> QED
    BY <2>1, <2>4, <2>5, <2>6 DEF DiskInv
<1>5. CASE WriteHead
  <2>1. /\ stage = "write_log" /\ stage' = "install" /\ lh' = lh /\ dhead' = lh /\ cache' = cache
        /\ tail > Len(lh) /\ tail' = 1 /\ dlog' = dlog
    BY <1>5 DEF WriteHead
  <2>2. tail <= Len(lh) + 1 /\ \A i \in 1 .. tail - 1 : dlog[i] = cache[lh[i]]
    BY <1>a, <2>1 DEF DiskInv
  <2>3. \A i \in 1 .. Len(lh) : cache[lh[i]] = dlog[i]
    BY <1>b, <2>1, <2>2
  <2>4. 1 <= Len(lh) + 1 /\ 1 .. tail' - 1 = {}
    BY <1>b, <2>1
  <2> QED
    BY <2>1, <2>3, <2>4 DEF DiskInv
<1>6. CASE InstallTrans
  <2>1. /\ stage = "install" /\ stage' = stage /\ lh' = lh /\ dhead' = dhead /\ dlog' = dlog
        /\ InstallBlock
    BY <1>6 DEF InstallTrans
  <2>2. /\ tail \in 1 .. Len(lh) /\ tail' = tail + 1
        /\ lh[tail] \in Block /\ dlog[tail] \in Val
        /\ home' = [home EXCEPT ![lh[tail]] = dlog[tail]]
        /\ cache' = [cache EXCEPT ![lh[tail]] = dlog[tail]]
    BY <2>1, <1>a, InstallFacts
  <2>3. /\ dhead = lh /\ \A i \in 1 .. tail - 1 : home[lh[i]] = dlog[i]
        /\ \A i \in tail .. Len(lh) : cache[lh[i]] = dlog[i]
    BY <1>a, <2>1 DEF DiskInv
  <2>4. ASSUME NEW i \in 1 .. tail PROVE home'[lh[i]] = dlog[i]
    BY <1>a, <1>b, <1>c, <2>2, <2>3, InstallExtends
  <2>5. ASSUME NEW i \in tail + 1 .. Len(lh) PROVE cache'[lh[i]] = dlog[i]
    <3>1. i \in tail .. Len(lh) /\ i \in 1 .. Len(lh) /\ i # tail /\ lh[i] \in Block
      BY <1>b, <2>2
    <3>2. lh[i] # lh[tail]
      BY <1>a, <2>2, <3>1 DEF StageInv, NoDup
    <3>3. cache'[lh[i]] = cache[lh[i]]
      BY <1>c, <2>2, <3>1, <3>2
    <3> QED
      BY <2>3, <3>1, <3>3
  <2>6. 1 .. tail' - 1 = 1 .. tail /\ tail' <= Len(lh) + 1
    BY <1>b, <2>2
  <2> QED
    BY <2>1, <2>2, <2>3, <2>4, <2>5, <2>6 DEF DiskInv
<1>7. CASE ClearHead
  BY <1>7, <1>a, EmptyFacts DEF ClearHead, DiskInv
<1>8. ASSUME NEW p \in Proc, EndCommit(p) PROVE DiskInv'
  BY <1>8, <1>a DEF EndCommit, Active, StageInv, DiskInv
<1>9. ASSUME NEW p \in Proc, BeginSleep(p) PROVE DiskInv'
  BY <1>9, <1>a DEF BeginSleep, DiskInv
<1>10. ASSUME NEW p \in Proc, BeginOp(p) PROVE DiskInv'
  <2>1. /\ UNCHANGED <<home, dlog, dhead, cache, lh, stage, tail>>
        /\ ~committing /\ outstanding' = outstanding + 1
    BY <1>10 DEF BeginOp
  <2>2. outstanding' # 0
    BY <1>a, <2>1 DEF TypeOK
  <2> QED
    BY <1>a, <2>1, <2>2 DEF DiskInv
<1>11. ASSUME NEW p \in Proc, LogWrite(p) PROVE DiskInv'
  <2>1. /\ UNCHANGED <<home, dlog, dhead, cache, outstanding, stage, tail>>
        /\ p \in Active
    BY <1>11 DEF LogWrite, Active
  <2>2. stage = "run" /\ outstanding # 0
    BY <1>a, <2>1 DEF Outstanding, StageInv
  <2> QED
    BY <1>a, <2>1, <2>2 DEF DiskInv
<1>12. ASSUME NEW p \in Proc, LogPanic(p) PROVE DiskInv'
  BY <1>12, <1>a DEF LogPanic, DiskInv
<1>13. ASSUME NEW p \in Proc, EndOp(p) PROVE DiskInv'
  <2>1. /\ UNCHANGED <<home, dlog, dhead, cache, lh, stage, tail>>
        /\ outstanding > 1 /\ outstanding' = outstanding - 1
    BY <1>13 DEF EndOp
  <2>2. outstanding' # 0
    BY <1>a, <2>1 DEF TypeOK
  <2> QED
    BY <1>a, <2>1, <2>2 DEF DiskInv
<1>14. ASSUME NEW p \in Proc, EndOpCommit(p) PROVE DiskInv'
  <2>1. /\ stage = "run" /\ stage' = (IF lh = <<>> THEN "finish" ELSE "write_log")
        /\ tail' = 1 /\ UNCHANGED <<home, dlog, dhead, cache, lh>>
    BY <1>14, <1>a DEF EndOpCommit, StageInv, TypeOK
  <2>2. 1 <= Len(lh) + 1 /\ 1 .. tail' - 1 = {}
    BY <1>b, <2>1
  <2> QED
    BY <1>a, <2>1, <2>2 DEF DiskInv
<1>15. ASSUME NEW p \in Proc, NEW b \in Block, NEW v \in Val, Modify(p, b, v)
       PROVE  DiskInv'
  <2>1. /\ UNCHANGED <<home, dlog, dhead, lh, outstanding, stage, tail>>
        /\ p \in Active
    BY <1>15 DEF Modify, Active
  <2>2. stage = "run"
    BY <1>a, <2>1 DEF StageInv
  <2> QED
    BY <1>a, <2>1, <2>2 DEF DiskInv
<1>16. ASSUME NEW b \in Block, Fill(b) PROVE DiskInv'
  <2>1. /\ cache[b] = NoBlock /\ cache' = [cache EXCEPT ![b] = home[b]]
        /\ UNCHANGED <<home, dlog, dhead, pin, lh, outstanding, stage, tail>>
    BY <1>16 DEF Fill
  <2>2. ASSUME NEW c \in Block, cache[c] # NoBlock PROVE cache'[c] = cache[c]
    BY <1>c, <2>1, <2>2
  <2> QED
    BY <2>1, <2>2, CachedStays
<1>17. ASSUME NEW b \in Block, Recycle(b) PROVE DiskInv'
  <2>1. /\ pin[b] = 0 /\ cache' = [cache EXCEPT ![b] = NoBlock]
        /\ UNCHANGED <<home, dlog, dhead, pin, lh, outstanding, stage, tail>>
    BY <1>17 DEF Recycle
  <2>2. ASSUME NEW c \in Block, pin[c] > 0 PROVE cache'[c] = cache[c]
    BY <1>c, <2>1, <2>2
  <2> QED
    BY <2>1, <2>2, CachedStays
<1>18. CASE Crash
  BY <1>18, <1>a, EmptyFacts DEF Crash, DiskInv
<1>19. CASE UNCHANGED vars
  BY <1>19, <1>a DEF vars, DiskInv
<1> QED
  BY <1>1, <1>2, <1>3, <1>4, <1>5, <1>6, <1>7, <1>8, <1>9, <1>10, <1>11, <1>12,
     <1>13, <1>14, <1>15, <1>16, <1>17, <1>18, <1>19 DEF Next, Recover, Commit
=============================================================================
